--------------------------- MODULE MojaloopPayout ---------------------------
(***************************************************************************)
(* The outbound leg of the Mojaloop adapter (internal/mojaloop, full       *)
(* mode): an operator's payout becomes a quote, the payee's answer to the  *)
(* quote becomes a transfer, and the Hub's callback decides the transfer.  *)
(*                                                                         *)
(* Requests and callbacks travel over an unreliable network: a request     *)
(* whose sender got an error may have been received, a callback may come   *)
(* late, again, in another body or never.  A callback the code answers     *)
(* without changing a row (a replay, a conflict, an unknown id) is no step.*)
(***************************************************************************)
EXTENDS Naturals

CONSTANTS
    Payouts,                 \* what operators want paid
    Amounts,                 \* amounts with their currency
    Amount,                  \* the amount of a payout
    QuoteIds, TransferIds,   \* what uuid.NewString may return
    Fulfilments, Conditions,
    ConditionForFulfilment,  \* SHA-256, without collisions
    Handlers,                \* requests served at the same time
    None                     \* an absent row or field

(* The conditions ValidateILPCondition accepts: the digests. *)
WellFormed == {ConditionForFulfilment[f] : f \in Fulfilments}

(* The body of PUT /quotes/{id}. *)
Responses == [amount : Amounts, condition : Conditions]

QuoteRows == [payout : Payouts, state : {"REQUESTED", "RESPONSE_RECEIVED"},
              response : Responses \cup {None}]

TransferRows == [quote : QuoteIds, amount : Amounts, condition : Conditions,
                 state : {"PREPARED", "COMMITTED", "ABORTED"},
                 fulfilment : Fulfilments \cup {None}]

ASSUME ConstantsAssumption ==
    /\ Amount \in [Payouts -> Amounts]
    /\ ConditionForFulfilment \in [Fulfilments -> Conditions]
    /\ \A f, g \in Fulfilments :
          ConditionForFulfilment[f] = ConditionForFulfilment[g] => f = g
    /\ None \notin QuoteIds \cup TransferIds \cup Fulfilments
    /\ None \notin Responses \cup QuoteRows \cup TransferRows

VARIABLES
    payout,     \* what the operator knows of each payout
    quotes,     \* mojaloop_outbound_quotes
    transfers,  \* mojaloop_outbound_transfers
    asked,      \* quotes the Hub may have received
    sent,       \* transfers the Hub may have received
    hub,        \* what the Hub holds of each transfer
    call        \* per handler: what it is about to do, and for which ids

payoutVars == <<payout, quotes, transfers, asked, sent, hub, call>>

Calls == [pc : {"idle", "post_quote", "initiate", "post_transfer"},
          quote : QuoteIds \cup {None}, transfer : TransferIds \cup {None}]

Idle == [pc |-> "idle", quote |-> None, transfer |-> None]

Continue(h, next) == call' = [call EXCEPT ![h] = next]

-----------------------------------------------------------------------------
(* POST /payouts.  An operator whose request failed sends it again. *)

InitiatePayout(h, p, q) ==
    /\ call[h].pc = "idle"
    /\ payout[p] \in {"new", "failed"}
    /\ quotes[q] = None
    /\ payout' = [payout EXCEPT ![p] = "pending"]
    /\ quotes' = [quotes EXCEPT ![q] =
                    [payout |-> p, state |-> "REQUESTED", response |-> None]]
    /\ Continue(h, [pc |-> "post_quote", quote |-> q, transfer |-> None])
    /\ UNCHANGED <<transfers, asked, sent, hub>>

(* PostQuotes, with the attempts of Client.Do: answered 2xx, or not.  The    *)
(* Hub may have a request that failed for its sender.                        *)
PostQuotes(h, answer) ==
    /\ call[h].pc = "post_quote"
    /\ asked' = asked \cup {call[h].quote}
    /\ payout' = [payout EXCEPT ![quotes[call[h].quote].payout] = answer]
    /\ Continue(h, Idle)
    /\ UNCHANGED <<quotes, transfers, sent, hub>>

(* The process dies or the sender of the request hangs up, which cancels     *)
(* the request's context.                                                    *)
Abandon(h) ==
    /\ call[h].pc # "idle"
    /\ payout' = IF call[h].pc = "post_quote"
                 THEN [payout EXCEPT ![quotes[call[h].quote].payout] = "failed"]
                 ELSE payout
    /\ Continue(h, Idle)
    /\ UNCHANGED <<quotes, transfers, asked, sent, hub>>

-----------------------------------------------------------------------------
(* PUT /quotes/{id} *)

(* Mutant: the amount is not compared. *)
ValidateQuoteResponseAnyAmount(q, response) == response.condition \in WellFormed

ValidateQuoteResponse(q, response) ==
    /\ response.amount = Amount[quotes[q].payout]
    /\ response.condition \in WellFormed

(* Mutant: a replay is not recognised. *)
ApplyQuoteCallbackAgain(h, q, response) ==
    /\ call[h].pc = "idle"
    /\ q \in asked
    /\ ValidateQuoteResponse(q, response)
    /\ quotes' = [quotes EXCEPT ![q] =
                    [payout |-> quotes[q].payout, state |-> "RESPONSE_RECEIVED",
                     response |-> response]]
    /\ Continue(h, [pc |-> "initiate", quote |-> q, transfer |-> None])
    /\ UNCHANGED <<payout, transfers, asked, sent, hub>>

(* The payee answers a quote it was sent; the first valid response stays. *)
ApplyQuoteCallback(h, q, response) ==
    /\ call[h].pc = "idle"
    /\ q \in asked
    /\ quotes[q].state = "REQUESTED"
    /\ ValidateQuoteResponse(q, response)
    /\ quotes' = [quotes EXCEPT ![q] =
                    [payout |-> quotes[q].payout, state |-> "RESPONSE_RECEIVED",
                     response |-> response]]
    /\ Continue(h, [pc |-> "initiate", quote |-> q, transfer |-> None])
    /\ UNCHANGED <<payout, transfers, asked, sent, hub>>

(* initiateTransfer: the row first, then POST /transfers. *)
CreateTransfer(h, t) ==
    LET q == call[h].quote IN
    /\ call[h].pc = "initiate"
    /\ transfers[t] = None
    /\ transfers' = [transfers EXCEPT ![t] =
                       [quote |-> q, amount |-> quotes[q].response.amount,
                        condition |-> quotes[q].response.condition,
                        state |-> "PREPARED", fulfilment |-> None]]
    /\ Continue(h, [pc |-> "post_transfer", quote |-> q, transfer |-> t])
    /\ UNCHANGED <<payout, quotes, asked, sent, hub>>

(* An error is logged and changes nothing. *)
PostTransfers(h) ==
    /\ call[h].pc = "post_transfer"
    /\ sent' = sent \cup {call[h].transfer}
    /\ Continue(h, Idle)
    /\ UNCHANGED <<payout, quotes, transfers, asked, hub>>

-----------------------------------------------------------------------------
(* The Hub. *)

(* The funds are reserved, then the payee fulfils the condition; before that *)
(* the Hub may give the transfer up.                                         *)
HubMoves(t, next) ==
    /\ t \in sent
    /\ \/ hub[t] = "none" /\ next = "RESERVED"
       \/ hub[t] = "RESERVED" /\ next = "COMMITTED"
       \/ hub[t] \in {"none", "RESERVED"} /\ next = "ABORTED"
    /\ hub' = [hub EXCEPT ![t] = next]
    /\ UNCHANGED <<payout, quotes, transfers, asked, sent, call>>

(* The states the Hub has announced of a transfer. *)
Announced(t) == IF hub[t] = "none" THEN {} ELSE {"RESERVED", hub[t]}

-----------------------------------------------------------------------------
(* PUT /transfers/{id} *)

Satisfies(fulfilment, condition) ==
    /\ fulfilment # None
    /\ ConditionForFulfilment[fulfilment] = condition

(* Mutant: the fulfilment is not verified. *)
ValidateWithoutFulfilment(t, amount, next, fulfilment) ==
    /\ amount = transfers[t].amount
    /\ transfers[t].state = "PREPARED"
    /\ next \in {"COMMITTED", "ABORTED"}

ValidateOutboundTransferCallback(t, amount, next, fulfilment) ==
    /\ amount = transfers[t].amount
    /\ transfers[t].state = "PREPARED"
    /\ \/ next = "COMMITTED" /\ Satisfies(fulfilment, transfers[t].condition)
       \/ next = "ABORTED"

Finalized(t, next, fulfilment) ==
    [quote |-> transfers[t].quote, amount |-> transfers[t].amount,
     condition |-> transfers[t].condition, state |-> next,
     fulfilment |-> fulfilment]

(* Mutant: a valid fulfilment commits the transfer, whatever the Hub says.   *)
ApplyFulfilment(t, amount, next, fulfilment) ==
    /\ transfers[t] # None
    /\ next \in Announced(t)
    /\ amount = transfers[t].amount
    /\ transfers[t].state = "PREPARED"
    /\ Satisfies(fulfilment, transfers[t].condition)
    /\ transfers' = [transfers EXCEPT ![t] = Finalized(t, "COMMITTED", fulfilment)]
    /\ UNCHANGED <<payout, quotes, asked, sent, hub, call>>

(* The Hub announces a state, with what the payee gave it as fulfilment. *)
ApplyOutboundTransferCallback(t, amount, next, fulfilment) ==
    /\ transfers[t] # None
    /\ next \in Announced(t)
    /\ ValidateOutboundTransferCallback(t, amount, next, fulfilment)
    /\ transfers' = [transfers EXCEPT ![t] = Finalized(t, next, fulfilment)]
    /\ UNCHANGED <<payout, quotes, asked, sent, hub, call>>

-----------------------------------------------------------------------------
PayoutInit ==
    /\ payout = [p \in Payouts |-> "new"]
    /\ quotes = [q \in QuoteIds |-> None]
    /\ transfers = [t \in TransferIds |-> None]
    /\ asked = {} /\ sent = {}
    /\ hub = [t \in TransferIds |-> "none"]
    /\ call = [h \in Handlers |-> Idle]

Handler(h) ==
    \/ \E p \in Payouts, q \in QuoteIds : InitiatePayout(h, p, q)
    \/ \E answer \in {"accepted", "failed"} : PostQuotes(h, answer)
    \/ \E q \in QuoteIds, r \in Responses : ApplyQuoteCallback(h, q, r)
    \/ \E t \in TransferIds : CreateTransfer(h, t)
    \/ PostTransfers(h)
    \/ Abandon(h)

Outcome(t) ==
    \/ \E next \in {"RESERVED", "COMMITTED", "ABORTED"} : HubMoves(t, next)
    \/ \E amount \in Amounts, next \in {"RESERVED", "COMMITTED", "ABORTED"},
          f \in Fulfilments \cup {None} :
          ApplyOutboundTransferCallback(t, amount, next, f)

PayoutNext ==
    \/ \E h \in Handlers : Handler(h)
    \/ \E t \in TransferIds : Outcome(t)

PayoutSpec == PayoutInit /\ [][PayoutNext]_payoutVars

-----------------------------------------------------------------------------
TypeOK ==
    /\ payout \in [Payouts -> {"new", "pending", "accepted", "failed"}]
    /\ quotes \in [QuoteIds -> QuoteRows \cup {None}]
    /\ transfers \in [TransferIds -> TransferRows \cup {None}]
    /\ asked \in SUBSET QuoteIds
    /\ sent \in SUBSET TransferIds
    /\ hub \in [TransferIds -> {"none", "RESERVED", "COMMITTED", "ABORTED"}]
    /\ call \in [Handlers -> Calls]

(* A quote leads to one transfer at most, however often its answer comes and *)
(* whatever the handlers that serve it do meanwhile.                         *)
OneTransferPerQuote ==
    \A s, t \in TransferIds :
       /\ transfers[s] # None /\ transfers[t] # None
       /\ transfers[s].quote = transfers[t].quote
       => s = t

(* A row is COMMITTED or ABORTED only as the Hub has decided, also when an   *)
(* announcement of the reservation comes after the decision.                 *)
OutcomeIsTheHubs ==
    \A t \in TransferIds :
       transfers[t] # None /\ transfers[t].state # "PREPARED" =>
          hub[t] = transfers[t].state

(* The money the Hub moves is the amount the operator asked for. *)
MovedAsRequested ==
    \A t \in TransferIds :
       hub[t] = "COMMITTED" =>
          /\ transfers[t] # None
          /\ transfers[t].amount = Amount[quotes[transfers[t].quote].payout]

(* A COMMITTED row holds the preimage of the condition in the one response   *)
(* of its quote: the proof that the payee was paid.                          *)
CommittedIsProved ==
    \A t \in TransferIds :
       transfers[t] # None /\ transfers[t].state = "COMMITTED" =>
          /\ quotes[transfers[t].quote].response # None
          /\ Satisfies(transfers[t].fulfilment,
                       quotes[transfers[t].quote].response.condition)

-----------------------------------------------------------------------------
(* A statement of the repository that does not hold. *)

(* Operator retries are idempotent: one payout is paid once. *)
PaidOnce ==
    \A s, t \in TransferIds :
       /\ hub[s] = "COMMITTED" /\ hub[t] = "COMMITTED"
       /\ quotes[transfers[s].quote].payout = quotes[transfers[t].quote].payout
       => s = t
=============================================================================
