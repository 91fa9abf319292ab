--------------------------- MODULE MCTradeFinance ---------------------------
(* One trader and two banks, so that a consent may be for the other bank,    *)
(* two checkers, one application with proper and with doubled parties.       *)
EXTENDS TradeFinance, TLC

CONSTANTS trader, kyc, credit, customs, treasury

MCPrincipals == {trader, kyc, credit, customs, treasury} \cup Checkers

Proper == [r \in Roles |-> CASE r = "BANK_KYC_OFFICER" -> kyc
                             [] r = "BANK_CREDIT_OFFICER" -> credit
                             [] r = "CUSTOMS_COMPLIANCE_OFFICER" -> customs
                             [] r = "BANK_TREASURY_OFFICER" -> treasury
                             [] r = "TRADER" -> trader]

Doubled == [Proper EXCEPT !["BANK_TREASURY_OFFICER"] = kyc]

MCAssignments == {Proper, Doubled}

Interchangeable == Permutations(Checkers) \cup Permutations(Banks)
                     \cup Permutations(Consents) \cup Permutations(Handlers)
=============================================================================
