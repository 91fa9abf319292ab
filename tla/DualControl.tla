---------------------------- MODULE DualControl ----------------------------
(***************************************************************************)
(* Reference rows under dual control: one officer drafts a row, another    *)
(* activates it.  Tariff rates, exemptions and split rules carry the same  *)
(* guarded UPDATE (tariff/store.go, revenue/split_store.go); nothing in    *)
(* the code retires a row.                                                 *)
(***************************************************************************)
CONSTANTS
    Officers, NoOfficer,
    Migration, Reviewer     \* the maker and the checker of seeded rows

ASSUME OfficersAssumption ==
    /\ NoOfficer \notin Officers
    /\ Migration # Reviewer

NoState == [state |-> "none", maker |-> NoOfficer, checker |-> NoOfficer]

Draft(o) == [state |-> "DRAFT", maker |-> o, checker |-> NoOfficer]

Active(row, o) == [state |-> "ACTIVE", maker |-> row.maker, checker |-> o]

(* A row the migration puts in force. *)
Seeded == Active(Draft(Migration), Reviewer)

Activatable(row, o) == row.state = "DRAFT" /\ row.maker # o

(* The row is in force and two officers put it there. *)
InForce(row) == row.state = "ACTIVE" /\ row.checker # row.maker
=============================================================================
