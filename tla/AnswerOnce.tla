----------------------------- MODULE AnswerOnce -----------------------------
(***************************************************************************)
(* What an idempotency key promises its callers, with no reads, no race    *)
(* and no transaction in sight: one call with a key stores a result, and   *)
(* hears of it or not; every call with that key is answered with what is   *)
(* stored or not at all, and nothing stored ever changes.                  *)
(***************************************************************************)
CONSTANTS Keys, Callers, None

VARIABLES stored, answer

Init ==
    /\ stored = [k \in Keys |-> None]
    /\ answer = [c \in Callers |-> None]

(* The result may be anything. *)
Store(k) ==
    /\ stored[k] = None /\ stored'[k] # None
    /\ stored' = [stored EXCEPT ![k] = stored'[k]]

StoreResult(c, k) ==
    /\ Store(k)
    /\ answer[c] = None
    /\ answer' = [answer EXCEPT ![c] = stored'[k]]

(* The caller does not hear that its result is stored. *)
StoreUnheard(k) == Store(k) /\ UNCHANGED answer

AnswerStored(c, k) ==
    /\ stored[k] # None
    /\ answer[c] = None
    /\ answer' = [answer EXCEPT ![c] = stored[k]]
    /\ UNCHANGED stored

Next ==
    \E k \in Keys :
       \/ \E c \in Callers : StoreResult(c, k) \/ AnswerStored(c, k)
       \/ StoreUnheard(k)

Spec == Init /\ [][Next]_<<stored, answer>>
=============================================================================
