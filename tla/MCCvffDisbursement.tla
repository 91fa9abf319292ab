------------------------- MODULE MCCvffDisbursement -------------------------
(* Six parties, an officer who is none of them and an officer who is the     *)
(* receiving bank's principal, and two bindings, one of them refused.  On    *)
(* an amount of 600 two days' rates give different pairs in naira and the    *)
(* same pair in dollars.                                                     *)
EXTENDS CvffDisbursement

CONSTANTS
    up, us, ut, nimasa, bank, owner, officer,
    monday, tuesday

MCNgnPerUsd == [r \in Rates |-> IF r = monday THEN 500 ELSE 510]

MCPrincipals == {up, us, ut, nimasa, bank, owner, officer}

MCOfficers == {bank, officer}

Binding(beneficiary) ==
    [r \in Roles |->
        CASE r = "UNDERWRITER_PRIMARY" -> up
          [] r = "UNDERWRITER_SECONDARY" -> us
          [] r = "UNDERWRITER_TERTIARY" -> ut
          [] r = "NIMASA_APPROVER" -> nimasa
          [] r = "RECEIVING_BANK" -> bank
          [] OTHER -> beneficiary]

MCAssignments == {Binding(owner), Binding(bank)}
=============================================================================
