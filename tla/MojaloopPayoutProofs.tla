------------------------ MODULE MojaloopPayoutProofs ------------------------
(***************************************************************************)
(* Theorems about MojaloopPayout, for any number of payouts, ids and       *)
(* handlers.                                                               *)
(***************************************************************************)
EXTENDS MojaloopPayout, TLAPS

(* What a handler between two of its calls may rely on.  One that is about   *)
(* to create a transfer is the only one for its quote, and none exists yet.  *)
CallInv ==
    \A h \in Handlers :
       LET q == call[h].quote IN
       /\ call[h].pc = "post_quote" => q \in QuoteIds /\ quotes[q] # None
       /\ call[h].pc = "initiate" =>
             /\ q \in QuoteIds /\ quotes[q] # None
             /\ quotes[q].state = "RESPONSE_RECEIVED"
             /\ \A t \in TransferIds :
                   transfers[t] # None => transfers[t].quote # q
             /\ \A g \in Handlers :
                   call[g].pc = "initiate" /\ call[g].quote = q => g = h
       /\ call[h].pc = "post_transfer" =>
             /\ call[h].transfer \in TransferIds
             /\ transfers[call[h].transfer] # None

(* A recorded response has the amount of the payout. *)
QuoteInv ==
    \A q \in QuoteIds :
       /\ q \in asked => quotes[q] # None
       /\ quotes[q] # None /\ quotes[q].state = "RESPONSE_RECEIVED" =>
             /\ quotes[q].response \in Responses
             /\ quotes[q].response.amount = Amount[quotes[q].payout]

(* A transfer carries the terms of its quote's response. *)
TransferInv ==
    \A t \in TransferIds :
       /\ transfers[t] # None =>
             LET q == transfers[t].quote IN
             /\ q \in QuoteIds /\ quotes[q] # None
             /\ quotes[q].state = "RESPONSE_RECEIVED"
             /\ transfers[t].amount = quotes[q].response.amount
             /\ transfers[t].condition = quotes[q].response.condition
             /\ transfers[t].state = "COMMITTED" =>
                   Satisfies(transfers[t].fulfilment, transfers[t].condition)
       /\ t \in sent => transfers[t] # None
       /\ hub[t] # "none" => t \in sent

IndInv == /\ TypeOK /\ CallInv /\ QuoteInv /\ TransferInv
          /\ OneTransferPerQuote /\ OutcomeIsTheHubs
-----------------------------------------------------------------------------
LEMMA InitInv == PayoutInit => IndInv
  BY ConstantsAssumption
  DEF PayoutInit, IndInv, TypeOK, CallInv, QuoteInv, TransferInv, Idle, Calls,
      OneTransferPerQuote, OutcomeIsTheHubs

(* Each action keeps the invariant. *)
LEMMA InitiatePayoutInv ==
  ASSUME IndInv, NEW h \in Handlers, NEW p \in Payouts, NEW q \in QuoteIds,
         InitiatePayout(h, p, q)
  PROVE  IndInv'
<1> USE DEF IndInv
<1> DEFINE new == [payout |-> p, state |-> "REQUESTED", response |-> None]
           next == [pc |-> "post_quote", quote |-> q, transfer |-> None]
<1>1. new \in QuoteRows /\ new # None /\ new.state = "REQUESTED"
  BY ConstantsAssumption DEF QuoteRows
<1>2. next \in Calls /\ next.pc = "post_quote" /\ next.quote = q
  BY DEF Calls
<1>3. /\ quotes' = [quotes EXCEPT ![q] = new] /\ quotes[q] = None
      /\ call' = [call EXCEPT ![h] = next] /\ call[h].pc = "idle"
      /\ payout' = [payout EXCEPT ![p] = "pending"]
      /\ UNCHANGED <<transfers, asked, sent, hub>>
  BY DEF InitiatePayout, Continue
<1> HIDE DEF new, next
<1>4. TypeOK'
  BY <1>1, <1>2, <1>3 DEF TypeOK
<1>5. CallInv'
  BY <1>1, <1>2, <1>3 DEF TypeOK, CallInv
<1>6. QuoteInv'
  BY <1>1, <1>3 DEF TypeOK, QuoteInv
<1>7. TransferInv'
  BY <1>1, <1>3 DEF TypeOK, TransferInv, Satisfies
<1>8. OneTransferPerQuote' /\ OutcomeIsTheHubs'
  BY <1>3 DEF OneTransferPerQuote, OutcomeIsTheHubs
<1>9. QED BY <1>4, <1>5, <1>6, <1>7, <1>8

LEMMA PostQuotesInv ==
  ASSUME IndInv, NEW h \in Handlers, NEW answer \in {"accepted", "failed"},
         PostQuotes(h, answer)
  PROVE  IndInv'
<1> USE DEF IndInv
<1>1. Idle \in Calls /\ Idle.pc = "idle"
  BY DEF Idle, Calls
<1>2. /\ call[h].pc = "post_quote" /\ call' = [call EXCEPT ![h] = Idle]
      /\ asked' = asked \cup {call[h].quote}
      /\ payout' = [payout EXCEPT ![quotes[call[h].quote].payout] = answer]
      /\ UNCHANGED <<quotes, transfers, sent, hub>>
  BY DEF PostQuotes, Continue
<1>3. call[h].quote \in QuoteIds /\ quotes[call[h].quote] # None
  BY <1>2 DEF CallInv
<1>4. TypeOK'
  BY <1>1, <1>2, <1>3 DEF TypeOK, QuoteRows
<1>5. CallInv'
  BY <1>1, <1>2 DEF TypeOK, CallInv
<1>6. QuoteInv'
  BY <1>2, <1>3 DEF QuoteInv
<1>7. TransferInv' /\ OneTransferPerQuote' /\ OutcomeIsTheHubs'
  BY <1>2 DEF TransferInv, Satisfies, OneTransferPerQuote, OutcomeIsTheHubs
<1>8. QED BY <1>4, <1>5, <1>6, <1>7

LEMMA AbandonInv ==
  ASSUME IndInv, NEW h \in Handlers, Abandon(h)
  PROVE  IndInv'
<1> USE DEF IndInv
<1>1. Idle \in Calls /\ Idle.pc = "idle"
  BY DEF Idle, Calls
<1>2. /\ call' = [call EXCEPT ![h] = Idle]
      /\ UNCHANGED <<quotes, transfers, asked, sent, hub>>
  BY DEF Abandon, Continue
<1>3. payout' \in [Payouts -> {"new", "pending", "accepted", "failed"}]
  BY DEF Abandon, TypeOK
<1>4. TypeOK'
  BY <1>1, <1>2, <1>3 DEF TypeOK
<1>5. CallInv'
  BY <1>1, <1>2 DEF TypeOK, CallInv
<1>6. QuoteInv' /\ TransferInv' /\ OneTransferPerQuote' /\ OutcomeIsTheHubs'
  BY <1>2 DEF QuoteInv, TransferInv, Satisfies, OneTransferPerQuote,
              OutcomeIsTheHubs
<1>7. QED BY <1>4, <1>5, <1>6

LEMMA ApplyQuoteCallbackInv ==
  ASSUME IndInv, NEW h \in Handlers, NEW q \in QuoteIds, NEW r \in Responses,
         ApplyQuoteCallback(h, q, r)
  PROVE  IndInv'
<1> USE DEF IndInv
<1> DEFINE new == [payout |-> quotes[q].payout, state |-> "RESPONSE_RECEIVED",
                   response |-> r]
           next == [pc |-> "initiate", quote |-> q, transfer |-> None]
<1>0. q \in asked /\ quotes[q] # None /\ quotes[q].state = "REQUESTED"
  BY DEF ApplyQuoteCallback, QuoteInv
<1>1. quotes[q] \in QuoteRows
  BY <1>0 DEF TypeOK
<1>2. /\ new \in QuoteRows /\ new # None /\ new.state = "RESPONSE_RECEIVED"
      /\ new.response = r /\ new.payout = quotes[q].payout
  BY <1>1, ConstantsAssumption DEF QuoteRows
<1>3. next \in Calls /\ next.pc = "initiate" /\ next.quote = q
  BY DEF Calls
<1>4. /\ quotes' = [quotes EXCEPT ![q] = new] /\ call[h].pc = "idle"
      /\ call' = [call EXCEPT ![h] = next]
      /\ r.amount = Amount[quotes[q].payout]
      /\ UNCHANGED <<payout, transfers, asked, sent, hub>>
  BY DEF ApplyQuoteCallback, ValidateQuoteResponse, Continue
<1>5. "REQUESTED" # "RESPONSE_RECEIVED"
  OBVIOUS
<1> HIDE DEF new, next
<1>6. TypeOK'
  BY <1>2, <1>3, <1>4 DEF TypeOK
<1>7. CallInv'
  <2>1. \A t \in TransferIds : transfers[t] # None => transfers[t].quote # q
    BY <1>0, <1>5 DEF TransferInv
  <2>2. \A g \in Handlers : call[g].pc = "initiate" => call[g].quote # q
    BY <1>0, <1>5 DEF CallInv
  <2>3. QED BY <1>2, <1>3, <1>4, <2>1, <2>2 DEF TypeOK, CallInv
<1>8. QuoteInv'
  BY <1>2, <1>4 DEF TypeOK, QuoteInv
<1>9. TransferInv'
  BY <1>0, <1>2, <1>4, <1>5 DEF TypeOK, TransferInv, Satisfies
<1>10. OneTransferPerQuote' /\ OutcomeIsTheHubs'
  BY <1>4 DEF OneTransferPerQuote, OutcomeIsTheHubs
<1>11. QED BY <1>6, <1>7, <1>8, <1>9, <1>10

LEMMA CreateTransferInv ==
  ASSUME IndInv, NEW h \in Handlers, NEW t \in TransferIds, CreateTransfer(h, t)
  PROVE  IndInv'
<1> USE DEF IndInv
<1> DEFINE q == call[h].quote
           new == [quote |-> q, amount |-> quotes[q].response.amount,
                   condition |-> quotes[q].response.condition,
                   state |-> "PREPARED", fulfilment |-> None]
           next == [pc |-> "post_transfer", quote |-> q, transfer |-> t]
<1>1. /\ q \in QuoteIds /\ quotes[q] # None
      /\ quotes[q].state = "RESPONSE_RECEIVED"
      /\ \A s \in TransferIds : transfers[s] # None => transfers[s].quote # q
      /\ \A g \in Handlers :
            call[g].pc = "initiate" /\ call[g].quote = q => g = h
  BY DEF CreateTransfer, CallInv
<1>2. quotes[q].response \in Responses
  BY <1>1 DEF QuoteInv
<1>3. /\ new \in TransferRows /\ new # None /\ new.quote = q
      /\ new.state = "PREPARED" /\ new.amount = quotes[q].response.amount
      /\ new.condition = quotes[q].response.condition
  BY <1>1, <1>2, ConstantsAssumption DEF TransferRows, Responses
<1>4. next \in Calls /\ next.pc = "post_transfer" /\ next.transfer = t
  BY <1>1 DEF Calls
<1>5. /\ call[h].pc = "initiate" /\ transfers[t] = None
      /\ transfers' = [transfers EXCEPT ![t] = new]
      /\ call' = [call EXCEPT ![h] = next]
      /\ UNCHANGED <<payout, quotes, asked, sent, hub>>
  BY DEF CreateTransfer, Continue
<1>6. "PREPARED" # "COMMITTED" /\ "post_transfer" # "initiate"
      /\ "post_transfer" # "post_quote"
  OBVIOUS
<1> HIDE DEF q, new, next
<1>7. TypeOK'
  BY <1>3, <1>4, <1>5 DEF TypeOK
<1>8. CallInv'
  <2> SUFFICES ASSUME NEW g \in Handlers
               PROVE  LET k == call'[g].quote IN
                      /\ call'[g].pc = "post_quote" =>
                            k \in QuoteIds /\ quotes[k] # None
                      /\ call'[g].pc = "initiate" =>
                            /\ k \in QuoteIds /\ quotes[k] # None
                            /\ quotes[k].state = "RESPONSE_RECEIVED"
                            /\ \A s \in TransferIds :
                                  transfers'[s] # None => transfers'[s].quote # k
                            /\ \A f \in Handlers :
                                  call'[f].pc = "initiate" /\ call'[f].quote = k
                                  => f = g
                      /\ call'[g].pc = "post_transfer" =>
                            /\ call'[g].transfer \in TransferIds
                            /\ transfers'[call'[g].transfer] # None
    BY <1>5 DEF CallInv
  <2>1. CASE g = h
    BY <1>3, <1>4, <1>5, <1>6, <2>1 DEF TypeOK
  <2>2. CASE g # h
    <3>1. call'[g] = call[g]
      BY <1>5, <2>2 DEF TypeOK
    <3>2. call[g].pc = "initiate" => call[g].quote # q
      BY <1>1, <2>2
    <3>3. \A s \in TransferIds : transfers'[s] = IF s = t THEN new
                                               ELSE transfers[s]
      BY <1>5 DEF TypeOK
    <3>4. \A f \in Handlers : call'[f].pc = "initiate" =>
                call[f].pc = "initiate" /\ call'[f].quote = call[f].quote
      BY <1>4, <1>5, <1>6 DEF TypeOK
    <3>5. QED BY <1>3, <3>1, <3>2, <3>3, <3>4 DEF CallInv
  <2>3. QED BY <2>1, <2>2
<1>9. QuoteInv'
  BY <1>5 DEF QuoteInv
<1>10. TransferInv'
  BY <1>1, <1>3, <1>5, <1>6 DEF TypeOK, TransferInv, Satisfies
<1>11. OneTransferPerQuote'
  BY <1>1, <1>3, <1>5 DEF TypeOK, OneTransferPerQuote
<1>12. OutcomeIsTheHubs'
  BY <1>3, <1>5 DEF TypeOK, OutcomeIsTheHubs
<1>13. QED BY <1>7, <1>8, <1>9, <1>10, <1>11, <1>12

LEMMA PostTransfersInv ==
  ASSUME IndInv, NEW h \in Handlers, PostTransfers(h)
  PROVE  IndInv'
<1> USE DEF IndInv
<1>1. Idle \in Calls /\ Idle.pc = "idle"
  BY DEF Idle, Calls
<1>2. /\ call[h].pc = "post_transfer" /\ call' = [call EXCEPT ![h] = Idle]
      /\ sent' = sent \cup {call[h].transfer}
      /\ UNCHANGED <<payout, quotes, transfers, asked, hub>>
  BY DEF PostTransfers, Continue
<1>3. call[h].transfer \in TransferIds /\ transfers[call[h].transfer] # None
  BY <1>2 DEF CallInv
<1>4. TypeOK'
  BY <1>1, <1>2, <1>3 DEF TypeOK
<1>5. CallInv'
  BY <1>1, <1>2 DEF TypeOK, CallInv
<1>6. TransferInv'
  BY <1>2, <1>3 DEF TransferInv, Satisfies
<1>7. QuoteInv' /\ OneTransferPerQuote' /\ OutcomeIsTheHubs'
  BY <1>2 DEF QuoteInv, OneTransferPerQuote, OutcomeIsTheHubs
<1>8. QED BY <1>4, <1>5, <1>6, <1>7

LEMMA HubMovesInv ==
  ASSUME IndInv, NEW t \in TransferIds,
         NEW next \in {"RESERVED", "COMMITTED", "ABORTED"}, HubMoves(t, next)
  PROVE  IndInv'
<1> USE DEF IndInv
<1>1. /\ t \in sent /\ hub[t] \in {"none", "RESERVED"}
      /\ hub' = [hub EXCEPT ![t] = next]
      /\ UNCHANGED <<payout, quotes, transfers, asked, sent, call>>
  BY DEF HubMoves
<1>2. TypeOK'
  BY <1>1 DEF TypeOK
<1>3. CallInv' /\ QuoteInv' /\ OneTransferPerQuote'
  BY <1>1 DEF CallInv, QuoteInv, OneTransferPerQuote
<1>4. TransferInv'
  BY <1>1 DEF TypeOK, TransferInv, Satisfies
<1>5. OutcomeIsTheHubs'
  <2>1. transfers[t] # None => transfers[t] \in TransferRows
    BY DEF TypeOK
  <2>2. transfers[t] # None => transfers[t].state = "PREPARED"
    BY <1>1, <2>1 DEF OutcomeIsTheHubs, TransferRows
  <2>3. QED BY <1>1, <2>2 DEF TypeOK, OutcomeIsTheHubs
<1>6. QED BY <1>2, <1>3, <1>4, <1>5

LEMMA ApplyOutboundTransferCallbackInv ==
  ASSUME IndInv, NEW t \in TransferIds, NEW amount \in Amounts,
         NEW next \in {"RESERVED", "COMMITTED", "ABORTED"},
         NEW f \in Fulfilments \cup {None},
         ApplyOutboundTransferCallback(t, amount, next, f)
  PROVE  IndInv'
<1> USE DEF IndInv
<1> DEFINE new == Finalized(t, next, f)
<1>1. /\ transfers[t] # None /\ transfers[t].state = "PREPARED"
      /\ next \in {"COMMITTED", "ABORTED"} /\ next \in Announced(t)
      /\ next = "COMMITTED" => Satisfies(f, transfers[t].condition)
      /\ transfers' = [transfers EXCEPT ![t] = new]
      /\ UNCHANGED <<payout, quotes, asked, sent, hub, call>>
  BY DEF ApplyOutboundTransferCallback, ValidateOutboundTransferCallback
<1>2. transfers[t] \in TransferRows
  BY <1>1 DEF TypeOK
<1>3. /\ new \in TransferRows /\ new # None /\ new.quote = transfers[t].quote
      /\ new.amount = transfers[t].amount /\ new.state = next
      /\ new.condition = transfers[t].condition /\ new.fulfilment = f
  BY <1>1, <1>2, ConstantsAssumption DEF TransferRows, Finalized
<1>4. hub[t] = next
  BY <1>1 DEF Announced
<1> HIDE DEF new
<1>5. TypeOK'
  BY <1>1, <1>3 DEF TypeOK
<1>6. CallInv'
  BY <1>1, <1>3 DEF TypeOK, CallInv
<1>7. QuoteInv'
  BY <1>1 DEF QuoteInv
<1>8. TransferInv'
  BY <1>1, <1>3 DEF TypeOK, TransferInv, Satisfies
<1>9. OneTransferPerQuote'
  BY <1>1, <1>3 DEF TypeOK, OneTransferPerQuote
<1>10. OutcomeIsTheHubs'
  BY <1>1, <1>3, <1>4 DEF TypeOK, OutcomeIsTheHubs
<1>11. QED BY <1>5, <1>6, <1>7, <1>8, <1>9, <1>10

-----------------------------------------------------------------------------
THEOREM Inductive == PayoutSpec => []IndInv
<1>1. IndInv /\ [PayoutNext]_payoutVars => IndInv'
  <2> SUFFICES ASSUME IndInv, [PayoutNext]_payoutVars PROVE IndInv'
    OBVIOUS
  <2>1. ASSUME NEW h \in Handlers, Handler(h) PROVE IndInv'
    BY <2>1, InitiatePayoutInv, PostQuotesInv, ApplyQuoteCallbackInv,
       CreateTransferInv, PostTransfersInv, AbandonInv DEF Handler
  <2>2. ASSUME NEW t \in TransferIds, Outcome(t) PROVE IndInv'
    BY <2>2, HubMovesInv, ApplyOutboundTransferCallbackInv DEF Outcome
  <2>3. CASE UNCHANGED payoutVars
    BY <2>3 DEF payoutVars, IndInv, TypeOK, CallInv, QuoteInv, TransferInv, Satisfies,
                OneTransferPerQuote, OutcomeIsTheHubs
  <2>4. QED BY <2>1, <2>2, <2>3 DEF PayoutNext
<1>2. QED BY InitInv, <1>1, PTL DEF PayoutSpec

(* Types are kept. *)
THEOREM TypeCorrect == PayoutSpec => []TypeOK
<1>1. IndInv => TypeOK
  BY DEF IndInv
<1>2. QED BY Inductive, <1>1, PTL

(* ApplyQuoteCallback lets one handler create the transfer of a quote. *)
THEOREM QuoteIsUsedOnce == PayoutSpec => []OneTransferPerQuote
<1>1. IndInv => OneTransferPerQuote
  BY DEF IndInv
<1>2. QED BY Inductive, <1>1, PTL

(* The rows end as the Hub decided. *)
THEOREM RowsFollowTheHub == PayoutSpec => []OutcomeIsTheHubs
<1>1. IndInv => OutcomeIsTheHubs
  BY DEF IndInv
<1>2. QED BY Inductive, <1>1, PTL

(* What the Hub moves is what the operator asked for. *)
THEOREM MoneyAsRequested == PayoutSpec => []MovedAsRequested
<1>1. IndInv => MovedAsRequested
  BY DEF IndInv, TransferInv, QuoteInv, MovedAsRequested
<1>2. QED BY Inductive, <1>1, PTL

(* A COMMITTED row proves that the payee was paid. *)
THEOREM CommitIsProved == PayoutSpec => []CommittedIsProved
<1>1. IndInv => CommittedIsProved
  BY ConstantsAssumption
  DEF IndInv, TransferInv, QuoteInv, CommittedIsProved, Satisfies
<1>2. QED BY Inductive, <1>1, PTL

-----------------------------------------------------------------------------
(* Decisions are final. *)

(* A quote keeps its payout and, once answered, its response; a transfer     *)
(* keeps the terms it was prepared with and, once the Hub's decision is      *)
(* recorded, its outcome and fulfilment.                                     *)
KeepsDecisions ==
    /\ \A q \in QuoteIds :
          quotes[q] # None =>
             /\ quotes'[q] # None
             /\ quotes'[q].payout = quotes[q].payout
             /\ quotes[q].state = "RESPONSE_RECEIVED" => quotes'[q] = quotes[q]
    /\ \A t \in TransferIds :
          transfers[t] # None =>
             /\ transfers'[t] # None
             /\ transfers'[t].quote = transfers[t].quote
             /\ transfers'[t].amount = transfers[t].amount
             /\ transfers'[t].condition = transfers[t].condition
             /\ transfers[t].state # "PREPARED" => transfers'[t] = transfers[t]

(* No late, repeated or differing callback, no second payout and no crash    *)
(* rewrites what ApplyQuoteCallback or ApplyOutboundTransferCallback have    *)
(* recorded (outbound_store.go).                                             *)
DecidedIsFinal == [][KeepsDecisions]_payoutVars

(* The step of the theorem below, action by action. *)
LEMMA KeptByStep ==
  ASSUME IndInv, [PayoutNext]_payoutVars
  PROVE  KeepsDecisions
<1> USE DEF IndInv
<1>1. ASSUME NEW h \in Handlers, NEW p \in Payouts, NEW q \in QuoteIds,
             InitiatePayout(h, p, q)
      PROVE  KeepsDecisions
  <2>1. /\ quotes[q] = None /\ transfers' = transfers
        /\ \A r \in QuoteIds \ {q} : quotes'[r] = quotes[r]
    BY <1>1 DEF InitiatePayout, TypeOK
  <2>2. QED BY <2>1 DEF KeepsDecisions
<1>2. ASSUME quotes' = quotes, transfers' = transfers
      PROVE  KeepsDecisions
  BY <1>2 DEF KeepsDecisions
<1>3. ASSUME NEW h \in Handlers, NEW q \in QuoteIds, NEW r \in Responses,
             ApplyQuoteCallback(h, q, r)
      PROVE  KeepsDecisions
  <2> DEFINE new == [payout |-> quotes[q].payout,
                     state |-> "RESPONSE_RECEIVED", response |-> r]
  <2>1. /\ transfers' = transfers /\ quotes[q].state = "REQUESTED"
        /\ \A s \in QuoteIds : quotes'[s] = IF s = q THEN new ELSE quotes[s]
    BY <1>3 DEF ApplyQuoteCallback, TypeOK
  <2>2. quotes[q] # None /\ quotes[q] \in QuoteRows
    BY <1>3 DEF ApplyQuoteCallback, QuoteInv, TypeOK
  <2>3. new \in QuoteRows /\ new.payout = quotes[q].payout
    BY <2>2 DEF QuoteRows
  <2>4. new # None
    BY <2>3, ConstantsAssumption
  <2> HIDE DEF new
  <2>5. QED BY <2>1, <2>3, <2>4 DEF KeepsDecisions
<1>4. ASSUME NEW h \in Handlers, NEW t \in TransferIds, CreateTransfer(h, t)
      PROVE  KeepsDecisions
  <2>1. /\ transfers[t] = None /\ quotes' = quotes
        /\ \A s \in TransferIds \ {t} : transfers'[s] = transfers[s]
    BY <1>4 DEF CreateTransfer, TypeOK
  <2>2. QED BY <2>1 DEF KeepsDecisions
<1>5. ASSUME NEW t \in TransferIds, NEW amount \in Amounts,
             NEW next \in {"RESERVED", "COMMITTED", "ABORTED"},
             NEW f \in Fulfilments \cup {None},
             ApplyOutboundTransferCallback(t, amount, next, f)
      PROVE  KeepsDecisions
  <2> DEFINE new == Finalized(t, next, f)
  <2>1. /\ quotes' = quotes
        /\ \A s \in TransferIds : transfers'[s] = IF s = t THEN new ELSE transfers[s]
    BY <1>5 DEF ApplyOutboundTransferCallback, TypeOK
  <2>2. /\ transfers[t] \in TransferRows
        /\ transfers[t].state = "PREPARED" /\ next \in {"COMMITTED", "ABORTED"}
    BY <1>5 DEF ApplyOutboundTransferCallback, ValidateOutboundTransferCallback,
                TypeOK
  <2>3. /\ new \in TransferRows /\ new.quote = transfers[t].quote
        /\ new.amount = transfers[t].amount
        /\ new.condition = transfers[t].condition
    BY <2>2 DEF Finalized, TransferRows
  <2>4. new # None
    BY <2>3, ConstantsAssumption
  <2> HIDE DEF new
  <2>5. QED BY <2>1, <2>2, <2>3, <2>4 DEF KeepsDecisions
<1>6. ASSUME NEW h \in Handlers, Handler(h) PROVE KeepsDecisions
  BY <1>1, <1>2, <1>3, <1>4, <1>6
  DEF Handler, PostQuotes, PostTransfers, Abandon
<1>7. ASSUME NEW t \in TransferIds, Outcome(t) PROVE KeepsDecisions
  BY <1>2, <1>5, <1>7 DEF Outcome, HubMoves
<1>8. QED BY <1>2, <1>6, <1>7 DEF PayoutNext, payoutVars

(* What the outbound leg has recorded of an answer or a decision is final.   *)
THEOREM OutboundIsFinal == PayoutSpec => DecidedIsFinal
<1>1. PayoutSpec => [][IndInv /\ PayoutNext]_payoutVars
  BY Inductive, PTL DEF PayoutSpec
<1>2. [IndInv /\ PayoutNext]_payoutVars => [KeepsDecisions]_payoutVars
  BY KeptByStep
<1>3. QED BY <1>1, <1>2, PTL DEF DecidedIsFinal
=============================================================================
