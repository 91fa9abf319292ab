-------------------------- MODULE MCOutboxPublisher --------------------------
(* Two events of an intent, an event of a CVFF application created between   *)
(* them and the withdrawal of an intent, created with the second of them,    *)
(* drained in batches of two.                                                *)
EXTENDS OutboxPublisher

CONSTANTS drafted, submitted, approved, voided

MCEvents == {drafted, submitted, approved}

MCEventsVoided == MCEvents \cup {voided}

MCTable == [e \in Events |-> IF e = submitted THEN 2 ELSE 1]

MCCreated == [e \in Events |-> CASE e = drafted -> 1
                                 [] e = submitted -> 2
                                 [] e = approved -> 3
                                 [] e = voided -> 3]

MCType == [e \in Events |-> CASE e = drafted -> "financial_intent.created"
                              [] e = submitted -> "cvff.application.submitted"
                              [] e = approved -> "financial_intent.approved"
                              [] e = voided -> "financial_intent.voided"]
=============================================================================
