--------------------------- MODULE OrderedDelivery ---------------------------
(***************************************************************************)
(* What the outboxes promise, with no process, no batch and no lost answer *)
(* in sight: an event is written before it is delivered, it is delivered   *)
(* after the older events that were there before it, and it is ticked off  *)
(* only when it has been delivered.  Events may be written in any order,   *)
(* an older one after a younger one too, and then nothing is promised of   *)
(* the two.  A delivery is the first acceptance of a copy; more copies may *)
(* follow.                                                                 *)
(***************************************************************************)
EXTENDS Sequences

CONSTANTS Events,
          OlderPairs  \* the pairs of events of which the first is older

VARIABLES written, first, topic, ticked

Delivered == {topic[n] : n \in DOMAIN topic}

Init ==
    /\ written = {} /\ first = [e \in Events |-> {}]
    /\ topic = << >> /\ ticked = {}

Write(e) ==
    /\ e \notin written
    /\ written' = written \cup {e}
    /\ first' = [first EXCEPT ![e] = {f \in written : <<f, e>> \in OlderPairs}]
    /\ UNCHANGED <<topic, ticked>>

Deliver(e) ==
    /\ e \in written \ Delivered
    /\ first[e] \subseteq Delivered
    /\ topic' = Append(topic, e)
    /\ UNCHANGED <<written, first, ticked>>

TickOff(e) ==
    /\ e \in Delivered \ ticked
    /\ ticked' = ticked \cup {e}
    /\ UNCHANGED <<written, first, topic>>

Next == \E e \in Events : Write(e) \/ Deliver(e) \/ TickOff(e)

Spec == Init /\ [][Next]_<<written, first, topic, ticked>>
=============================================================================
