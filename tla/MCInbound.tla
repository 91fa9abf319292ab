----------------------------- MODULE MCInbound -----------------------------
(***************************************************************************)
(* What reaches the system from outside and is recorded once: the          *)
(* cluster's transfers, the signed events of Kafka and the Hub's           *)
(* callbacks.  The three share no state: a behaviour exercises the one     *)
(* that its initial state names.                                           *)
(***************************************************************************)
EXTENDS SettlementSync, IntakeConsumer, MojaloopCallback

CONSTANT s1

VARIABLE feed

(* One partition to a topic. *)
MCTopicOf == [q \in Partitions |-> q]

everything == <<syncVars, intakeVars, vars, feed>>

InboundInit ==
    /\ SyncInit /\ IntakeInit /\ Init
    /\ feed \in {"settlements", "events", "callbacks"}

InboundNext ==
    /\ \/ feed = "settlements" /\ SyncNext /\ UNCHANGED <<intakeVars, vars>>
       \/ feed = "events" /\ IntakeNext /\ UNCHANGED <<syncVars, vars>>
       \/ feed = "callbacks" /\ Next /\ UNCHANGED <<syncVars, intakeVars>>
    /\ UNCHANGED feed

(* The polling of settlements is fair where it runs; without reservations    *)
(* there is nothing that an adapter would have to do.                        *)
InboundSpec ==
    /\ InboundInit /\ [][InboundNext]_everything
    /\ feed = "settlements" => SyncFairness(s1)
    /\ Fairness
=============================================================================
