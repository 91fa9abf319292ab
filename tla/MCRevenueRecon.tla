--------------------------- MODULE MCRevenueRecon ---------------------------
EXTENDS RevenueRecon, TLC

CONSTANTS
    n1, n2, i1, d1, d2, c1, o1, o2, r1, r2,
    MaxRequests     \* bound on what clients, banks and officers do

VARIABLE requests

MCDocumentNumber == [n \in Notes |-> IF n = n1 THEN d1 ELSE d2]

(* Two notes and an intake of the same amount. *)
MCBill == [n \in Notes |-> 1]

MCIntakeReferences == [i \in Intakes |-> {c1}]

MCIntakeTotal == [i \in Intakes |-> 1]

Pay(n, ref, amount) == [note |-> n, ref |-> ref, amount |-> amount]

Line(ref, amount, direction) ==
    [ref |-> ref, amount |-> amount, direction |-> direction]

MCPayments ==
    {Pay(n1, c1, 1), Pay(n2, d1, 1), Pay(NoNote, d1, 1), Pay(NoNote, c1, 1),
     Pay(NoNote, c1, 2)}

MCStatementLines ==
    {Line(d1, 1, "CREDIT"), Line(d1, 1, "DEBIT"), Line(c1, 1, "CREDIT"),
     Line(c1, 2, "CREDIT")}

Started(first, second, i) ==
    /\ note = (n1 :> first @@ n2 :> second)
    /\ maker = [n \in Notes |-> IF note[n] = "none" THEN NoNote ELSE o1]
    /\ intake = [j \in Intakes |-> [state |-> i, settlement |-> 0]]

(* A note from its creation on; an issued note and an intake; two issued     *)
(* notes.                                                                    *)
MCInit ==
    /\ \/ Started("none", "CANCELLED", "UNMAPPED")
       \/ Started("ISSUED", "CANCELLED", "none")
       \/ Started("ISSUED", "ISSUED", "UNMAPPED")
    /\ settlements = << >>
    /\ line = [ref \in References |-> NoLine]
    /\ matches = {} /\ open = {}
    /\ run = [r \in Runs |-> Unstarted]
    /\ requests = 0

MCNext ==
    \/ requests < MaxRequests /\ requests' = requests + 1 /\ Requests
    \/ (\E r \in Runs : Reconciles(r)) /\ UNCHANGED requests

MCSpec == MCInit /\ [][MCNext]_<<vars, requests>>

Symmetry == Permutations(Runs)
=============================================================================
