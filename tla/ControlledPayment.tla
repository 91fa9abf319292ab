------------------------- MODULE ControlledPayment -------------------------
(***************************************************************************)
(* What the financial-intent rail promises, with no ledger, no version and *)
(* no process in sight: one principal proposes a payment and another one   *)
(* authorises it; the money moves at most once and only while the payment  *)
(* is authorised; it is reported settled only after it moved and cancelled *)
(* only if it never does.                                                  *)
(***************************************************************************)
CONSTANTS Payments, Principals, NoPrincipal

VARIABLES status, moved, proposer, authoriser

Init ==
    /\ status = [i \in Payments |-> "none"]
    /\ moved = [i \in Payments |-> FALSE]
    /\ proposer = [i \in Payments |-> NoPrincipal]
    /\ authoriser = [i \in Payments |-> NoPrincipal]

Propose(i, u) ==
    /\ status[i] = "none"
    /\ status' = [status EXCEPT ![i] = "proposed"]
    /\ proposer' = [proposer EXCEPT ![i] = u]
    /\ UNCHANGED <<moved, authoriser>>

Authorise(i, u) ==
    /\ status[i] = "proposed"
    /\ u # proposer[i]
    /\ status' = [status EXCEPT ![i] = "authorised"]
    /\ authoriser' = [authoriser EXCEPT ![i] = u]
    /\ UNCHANGED <<moved, proposer>>

Move(i) ==
    /\ status[i] = "authorised"
    /\ ~moved[i]
    /\ moved' = [moved EXCEPT ![i] = TRUE]
    /\ UNCHANGED <<status, proposer, authoriser>>

Settle(i) ==
    /\ status[i] = "authorised"
    /\ moved[i]
    /\ status' = [status EXCEPT ![i] = "settled"]
    /\ UNCHANGED <<moved, proposer, authoriser>>

Cancel(i) ==
    /\ status[i] \in {"proposed", "authorised"}
    /\ ~moved[i]
    /\ status' = [status EXCEPT ![i] = "cancelled"]
    /\ UNCHANGED <<moved, proposer, authoriser>>

Next ==
    \E i \in Payments :
       \/ \E u \in Principals : Propose(i, u) \/ Authorise(i, u)
       \/ Move(i) \/ Settle(i) \/ Cancel(i)

Spec == Init /\ [][Next]_<<status, moved, proposer, authoriser>>
=============================================================================
