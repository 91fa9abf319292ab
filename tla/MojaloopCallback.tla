-------------------------- MODULE MojaloopCallback --------------------------
(***************************************************************************)
(* The inbound leg of the Mojaloop adapter (internal/mojaloop): the rows   *)
(* the Hub's signed transfer callbacks write, and the sweep that reports   *)
(* the reservations that wait too long.                                    *)
(*                                                                         *)
(* Callbacks come late, repeatedly, out of order or never; one that        *)
(* changes no row (a replay, a conflict, a decision before its             *)
(* reservation) is refused or answered, and is no step.  A callback locks  *)
(* the row it reads, so it is one step.  A sweep's query has a snapshot of *)
(* the rows, and looks at each row again once it holds its lock.           *)
(***************************************************************************)
EXTENDS Naturals, FiniteSets

CONSTANTS
    TransferIds,    \* in the order of the ids
    Adapters,       \* the processes that sweep
    SweepLimit      \* the LIMIT of the sweep's query

ASSUME ConstantsAssumption ==
    /\ TransferIds \in SUBSET Nat
    /\ SweepLimit \in Nat \ {0}

VARIABLES
    signed,     \* the states the Hub has announced, per transfer
    row,        \* transfer_state in mojaloop_transfer_callbacks
    waiting,    \* transfers whose row was last written more than a ttl ago
    found,      \* the snapshot of the sweep each adapter is in
    timedOut,   \* rows with a timed_out_at
    reports     \* mojaloop_callback_timeout_events, per transfer

vars == <<signed, row, waiting, found, timedOut, reports>>

Terminal == {"COMMITTED", "ABORTED"}

-----------------------------------------------------------------------------
(* The Hub reserves and then decides, or aborts what it never reserved. *)

HubMoves(t, next) ==
    /\ signed[t] \cap Terminal = {}
    /\ next \in {"RESERVED", "ABORTED"} \/ "RESERVED" \in signed[t]
    /\ signed' = [signed EXCEPT ![t] = @ \cup {next}]
    /\ UNCHANGED <<row, waiting, found, timedOut, reports>>

-----------------------------------------------------------------------------
(* PUT /transfers/{id} *)

(* Mutant: a decision may come first. *)
ValidateAnyFirst(t, next) ==
    \/ row[t] = "none"
    \/ row[t] = "RESERVED" /\ next \in Terminal

(* The first callback must be RESERVED, the next one decides. *)
ValidateTransferCallback(t, next) ==
    \/ row[t] = "none" /\ next = "RESERVED"
    \/ row[t] = "RESERVED" /\ next \in Terminal

ApplyCallback(t, next) ==
    /\ next \in signed[t]
    /\ ValidateTransferCallback(t, next)
    /\ row' = [row EXCEPT ![t] = next]
    /\ waiting' = waiting \ {t}
    /\ UNCHANGED <<signed, found, timedOut, reports>>

(* A ttl passes since the row was written. *)
Age(t) ==
    /\ row[t] = "RESERVED"
    /\ t \notin waiting
    /\ waiting' = waiting \cup {t}
    /\ UNCHANGED <<signed, row, found, timedOut, reports>>

-----------------------------------------------------------------------------
(* SweepReservedTimeouts *)

Expired == {t \in TransferIds : /\ row[t] = "RESERVED"
                                /\ t \notin timedOut
                                /\ t \in waiting}

(* A sweep that fails leaves nothing behind; the next one of the adapter     *)
(* takes a new snapshot.                                                     *)
FindExpired(a) ==
    /\ Expired \notin {{}, found[a]}
    /\ found' = [found EXCEPT ![a] = Expired]
    /\ UNCHANGED <<signed, row, waiting, timedOut, reports>>

(* Mutant: no FOR UPDATE, the snapshot is not looked at again. *)
BatchOfSnapshot(a) ==
    {t \in found[a] : Cardinality({s \in found[a] : s < t}) < SweepLimit}

(* Mutant: the limit counts the rows that are marked already. *)
BatchOfWaiting(a) ==
    {t \in found[a] \cap Expired :
       Cardinality({s \in waiting : s < t}) < SweepLimit}

(* ORDER BY transfer_id LIMIT SweepLimit FOR UPDATE: a row that no longer    *)
(* qualifies is passed over before the limit counts it.                      *)
Batch(a) ==
    {t \in found[a] \cap Expired :
       Cardinality({s \in found[a] \cap Expired : s < t}) < SweepLimit}

(* The events and the marks of the locked rows, in one transaction. *)
MarkTimedOut(a) ==
    /\ found[a] # {}
    /\ reports' = [t \in TransferIds |->
                     IF t \in Batch(a) THEN reports[t] + 1 ELSE reports[t]]
    /\ timedOut' = timedOut \cup Batch(a)
    /\ found' = [found EXCEPT ![a] = {}]
    /\ UNCHANGED <<signed, row, waiting>>

-----------------------------------------------------------------------------
Init ==
    /\ signed = [t \in TransferIds |-> {}]
    /\ row = [t \in TransferIds |-> "none"]
    /\ waiting = {} /\ timedOut = {}
    /\ found = [a \in Adapters |-> {}]
    /\ reports = [t \in TransferIds |-> 0]

Next ==
    \/ \E t \in TransferIds : \E next \in {"RESERVED"} \cup Terminal :
          HubMoves(t, next) \/ ApplyCallback(t, next)
    \/ \E t \in TransferIds : Age(t)
    \/ \E a \in Adapters : FindExpired(a) \/ MarkTimedOut(a)

Spec == Init /\ [][Next]_vars

(* Time passes, every adapter sweeps on every tick, and its sweeps do not    *)
(* fail for ever.  Of the Hub nothing is assumed: it may repeat, lose or     *)
(* never send any callback.                                                  *)
Fairness ==
    /\ \A t \in TransferIds : WF_vars(Age(t))
    /\ \A a \in Adapters : WF_vars(FindExpired(a)) /\ WF_vars(MarkTimedOut(a))

-----------------------------------------------------------------------------
TypeOK ==
    /\ signed \in [TransferIds -> SUBSET ({"RESERVED"} \cup Terminal)]
    /\ row \in [TransferIds -> {"none", "RESERVED"} \cup Terminal]
    /\ waiting \in SUBSET TransferIds
    /\ found \in [Adapters -> SUBSET TransferIds]
    /\ timedOut \in SUBSET TransferIds
    /\ reports \in [TransferIds -> Nat]

(* The rail never invents an outcome, nor records one for funds that were    *)
(* not reserved: what a row says, and the reservation before it, the Hub     *)
(* announced, whatever order callbacks come in and whatever the sweep does   *)
(* (ApplyCallback, SweepReservedTimeouts).                                   *)
NeverAheadOfHub ==
    \A t \in TransferIds :
       row[t] # "none" => {"RESERVED", row[t]} \subseteq signed[t]

(* A reservation that waits too long is reported once, although the sweeps   *)
(* of several adapters find the same rows and the row stays RESERVED         *)
(* (SweepReservedTimeouts).                                                  *)
ReportedOnce ==
    \A t \in TransferIds : reports[t] = (IF t \in timedOut THEN 1 ELSE 0)

(* Locked funds do not go unnoticed: a reservation is decided or reported,   *)
(* however long the backlog that is swept in batches                         *)
(* (SweepReservedTimeouts).                                                  *)
StrandedIsReported ==
    \A t \in TransferIds :
       row[t] = "RESERVED" ~> (row[t] \in Terminal \/ t \in timedOut)
=============================================================================
