-------------------------- MODULE MCMojaloopPayout --------------------------
(* Payouts of different amounts that may be sent again, a payee that may     *)
(* answer with another amount, different conditions or a malformed one, and  *)
(* a Hub that may pass on a fulfilment of another condition.                 *)
EXTENDS MojaloopPayout, TLC

CONSTANTS fuel, repair, small, large, f1, f2, c1, c2, malformed

MCAmount == [x \in Payouts |-> IF x = fuel THEN small ELSE large]

MCConditionForFulfilment == [f \in {f1, f2} |-> IF f = f1 THEN c1 ELSE c2]

Interchangeable == Permutations(QuoteIds) \cup Permutations(TransferIds)
                     \cup Permutations(Handlers)
=============================================================================
