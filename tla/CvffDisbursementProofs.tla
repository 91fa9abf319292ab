----------------------- MODULE CvffDisbursementProofs -----------------------
(***************************************************************************)
(* Proofs about CvffDisbursement, for every set of principals, officers,   *)
(* bindings, rates and amounts, and every bound.                           *)
(*                                                                         *)
(* NoPartySkipped is not inductive: what brings an application back into   *)
(* the chain is the workflow's stage, so the invariant also says that the  *)
(* stages before it are approved, where the application can be for each    *)
(* place of the workflow (a retried activity lets the two drift apart by   *)
(* one step), and what a Disburse attempt knows of ledger and legs.        *)
(***************************************************************************)
EXTENDS CvffDisbursement, TLAPS

Decisions ==
    [principal : Principals, choice : {"APPROVE", "REJECT"}]

Resolutions ==
    [principal : Principals, choice : {"RESUME_DISBURSEMENT", "REJECT"}]

(* Decision channels carry decisions, the resolution channel resolutions. *)
SignalInv ==
    /\ \A c \in DecisionStates : mailbox[c] \in Seq(Decisions)
    /\ mailbox["resolution"] \in Seq(Resolutions)
    /\ request # NoRequest =>
          request.signal \in IF request.channel = "resolution"
                             THEN Resolutions ELSE Decisions
    /\ pc = "record" => hand \in Decisions
    /\ pc \in {"resolve", "disburseResolve"} => hand \in Resolutions

(* All stages before s are approved. *)
Before(s) == \A t \in DecisionStates : Rank[t] < Rank[s] => Approved(t)

Inactive == {"none", "begin", "closed"}

RailPcs == {"disburse", "pair", "legs", "failClosed", "disburseParked",
            "disburseResolve"}

ChainInv == Before(state) /\ (pc \notin Inactive => Before(stage))

(* Where the application can be, seen from the workflow. *)
PlaceInv ==
    /\ pc = "await" => state = stage
    /\ pc = "record" =>
          \/ state = stage
          \/ /\ state \in {approvedSuccessor[stage], "REJECTED"}
             /\ roles # NoRoles
             /\ roles[requiredRole[stage]] = hand.principal
    /\ pc = "park" =>
          state \in {stage, approvedSuccessor[stage], "REJECTED",
                     "RECONCILIATION_REQUIRED"}
    /\ pc \in {"parked", "resolve"} =>
          state \in {stage, "REJECTED", "RECONCILIATION_REQUIRED"}
    /\ pc \in RailPcs =>
          /\ stage = "DISBURSEMENT_PENDING"
          /\ state \in {stage, "REJECTED", "RECONCILIATION_REQUIRED"}
    /\ pc \in {"pair", "legs", "failClosed"} => state = stage
    /\ pc = "audit" =>
          stage = "DISBURSEMENT_PENDING" /\ state \in {"DISBURSED", "AUDITED"}

Money == fee # 0 \/ cost # 0 \/ inflight # {}

MoneyInv ==
    /\ MoneyAfterApprovals
    /\ Money /\ pc \notin Inactive => stage = "DISBURSEMENT_PENDING"

LegsInv ==
    /\ LegsMatchLedger
    /\ AnnouncedOnce
    /\ state \in {"DISBURSED", "AUDITED"} => legs # NoRate
    /\ pc \notin Inactive \cup RailPcs /\ stage = "DISBURSEMENT_PENDING" =>
          legs # NoRate
    /\ pc \in {"pair", "legs"} => rate \in Rates /\ legs = NoRate
    /\ pc \in {"pair", "legs"} => Convertible(rate)
    /\ pc = "legs" =>
          fee = FeeAt(currency, rate) /\ cost = CostAt(currency, rate)
    /\ legs # NoRate => Convertible(legs)

IndInv == TypeOK /\ SignalInv /\ ChainInv /\ PlaceInv /\ MoneyInv /\ LegsInv

-----------------------------------------------------------------------------
(* The amounts of a pair are amounts: no division is by zero. *)
LEMMA AmountsTyped ==
  ASSUME NEW c, NEW r \in Rates
  PROVE  FeeAt(c, r) \in Nat /\ CostAt(c, r) \in Nat
<1>1. ASSUME NEW a \in Nat, NEW d \in Nat \ {0}
      PROVE  a \div d \in Nat
  BY <1>1
<1>2. NgnPerUsd[r] \in Nat \ {0} /\ Amount \in Nat /\ FeeBasisPoints \in Nat
      /\ Scale \in Nat \ {0}
  BY ConstantsAssumption, ScaleAssumption
<1>3. ASSUME NEW a \in Nat, NEW b \in Nat PROVE a * b \in Nat
  BY <1>3
<1>4. ConvertUSDToNGN(NgnPerUsd[r], Amount) \in Nat
  <2>1. Amount * NgnPerUsd[r] \in Nat
    BY <1>2, <1>3
  <2>2. Amount * NgnPerUsd[r] + Scale \div 2 \in Nat
    BY <1>1, <1>2, <2>1
  <2>3. QED BY <1>1, <1>2, <2>2 DEF ConvertUSDToNGN
<1>5. ConvertNGNToUSD(NgnPerUsd[r], Amount) \in Nat
  <2>1. 2 * Amount * Scale + NgnPerUsd[r] \in Nat
    BY <1>2, <1>3
  <2>2. 2 * NgnPerUsd[r] \in Nat \ {0}
    BY <1>2
  <2>3. QED BY <1>1, <2>1, <2>2 DEF ConvertNGNToUSD
<1>6. ASSUME NEW base \in Nat PROVE custodialFee(base) \in Nat
  <2>1. base * FeeBasisPoints \in Nat
    BY <1>2, <1>3
  <2>2. QED BY <1>1, <2>1 DEF custodialFee
<1>7. QED BY <1>2, <1>4, <1>5, <1>6 DEF FeeAt, CostAt

-----------------------------------------------------------------------------
(* What the tables of application.go say of the decision states: a stage's   *)
(* role is its own, and approval moves one step ahead.                       *)
LEMMA Tables ==
  /\ \A s \in DecisionStates :
        /\ requiredRole[s] \in Roles
        /\ approvedSuccessor[s] \in States
        /\ Rank[s] \in 1..6
        /\ Rank[approvedSuccessor[s]] = Rank[s] + 1
        /\ approvedSuccessor[s] # s
        /\ approvedSuccessor[s] # "REJECTED"
        /\ approvedSuccessor[s] = "AUDITED" => FALSE
        /\ approvedSuccessor[s] = "DISBURSED" <=> s = "DISBURSEMENT_PENDING"
        /\ s # "DISBURSEMENT_PENDING" => approvedSuccessor[s] \in DecisionStates
        /\ \A t \in DecisionStates :
              /\ requiredRole[s] = requiredRole[t] => s = t
              /\ Rank[s] = Rank[t] => s = t
  /\ \A s \in States : Rank[s] \in 0..8
  /\ Rank["REJECTED"] = 0 /\ Rank["RECONCILIATION_REQUIRED"] = 0
  /\ Rank["UNDERWRITING_PRIMARY"] = 1 /\ Rank["DISBURSEMENT_PENDING"] = 6
  /\ Rank["DISBURSED"] = 7 /\ Rank["AUDITED"] = 8
  /\ approvedSuccessor["SUBMITTED"] = "UNDERWRITING_PRIMARY"
  /\ approvedSuccessor["BANK_CONFIRMATION"] = "DISBURSEMENT_PENDING"
  /\ DecisionStates \subseteq States
  BY DEF requiredRole, approvedSuccessor, Rank, DecisionStates, States, Roles

(* The row of the intake satisfies the invariant. *)
LEMMA InitialState == Init => IndInv
<1> SUFFICES ASSUME Init PROVE IndInv
  OBVIOUS
<1>1. TypeOK /\ SignalInv
  <2>1. \A c \in Channels : Empty[c] = << >>
    BY DEF Empty
  <2>2. Empty \in [Channels -> Seq(Signals)]
    BY DEF Empty
  <2>3. << >> \in Seq(Decisions) /\ << >> \in Seq(Resolutions)
    OBVIOUS
  <2>4. TypeOK
    BY <2>2, ConstantsAssumption DEF Init, TypeOK, States, DecisionStates
  <2>5. SignalInv
    BY <2>1, <2>3 DEF Init, SignalInv, Channels
  <2>6. QED BY <2>4, <2>5
<1>2. ChainInv
  <2>1. Rank["SUBMITTED"] = 0
    BY DEF Rank
  <2>2. QED BY <2>1, Tables DEF Init, ChainInv, Before, Inactive
<1>3. PlaceInv
  BY DEF Init, PlaceInv, RailPcs
<1>4. MoneyInv /\ LegsInv
  BY DEF Init, MoneyInv, MoneyAfterApprovals, Money, LegsInv, LegsMatchLedger,
         AnnouncedOnce, Inactive
<1>5. QED BY <1>1, <1>2, <1>3, <1>4 DEF IndInv

(* Approvals are never withdrawn and a binding is never replaced, so what    *)
(* was approved stays approved.                                              *)
LEMMA ApprovedStays ==
  ASSUME approvals \subseteq approvals', roles # NoRoles => roles' = roles
  PROVE  /\ \A s \in DecisionStates : Approved(s) => Approved(s)'
         /\ \A s : Before(s) => Before(s)'
  BY DEF Approved, Before

-----------------------------------------------------------------------------
(* Types. *)

(* An execution that starts or stops has well-typed signals. *)
LEMMA MailboxTyped ==
  ASSUME TypeOK, SignalInv
  PROVE  /\ Empty \in [Channels -> Seq(Signals)]
         /\ \A c \in Channels : Empty[c] = << >>
         /\ Decisions \subseteq Signals /\ Resolutions \subseteq Signals
         /\ \A c \in Channels : mailbox[c] # << >> =>
               /\ Head(mailbox[c]) \in Signals
               /\ Tail(mailbox[c]) \in Seq(Signals)
         /\ \A c \in DecisionStates : mailbox[c] # << >> =>
               /\ Head(mailbox[c]) \in Decisions
               /\ Tail(mailbox[c]) \in Seq(Decisions)
         /\ mailbox["resolution"] # << >> =>
               /\ Head(mailbox["resolution"]) \in Resolutions
               /\ Tail(mailbox["resolution"]) \in Seq(Resolutions)
         /\ DecisionStates \subseteq Channels /\ "resolution" \in Channels
         /\ "resolution" \notin DecisionStates
<1>1. /\ DecisionStates \subseteq Channels /\ "resolution" \in Channels
      /\ "resolution" \notin DecisionStates
  BY DEF Channels, DecisionStates
<1>2. /\ Empty \in [Channels -> Seq(Signals)]
      /\ \A c \in Channels : Empty[c] = << >>
  BY DEF Empty
<1>3. Decisions \subseteq Signals /\ Resolutions \subseteq Signals
  BY DEF Decisions, Resolutions, Signals
<1>4. ASSUME NEW S, NEW q \in Seq(S), q # << >>
      PROVE  Head(q) \in S /\ Tail(q) \in Seq(S)
  BY <1>4
<1>5. \A c \in Channels : mailbox[c] \in Seq(Signals)
  BY DEF TypeOK
<1>6. QED BY <1>1, <1>2, <1>3, <1>4, <1>5 DEF SignalInv

(* Receiving a signal keeps the mailbox typed and takes a typed signal. *)
LEMMA ReceiveTyped ==
  ASSUME TypeOK, SignalInv, NEW c \in Channels, NEW next, Receive(c, next)
  PROVE  /\ mailbox' \in [Channels -> Seq(Signals)]
         /\ \A d \in DecisionStates : mailbox'[d] \in Seq(Decisions)
         /\ mailbox'["resolution"] \in Seq(Resolutions)
         /\ hand' \in Signals
         /\ c \in DecisionStates => hand' \in Decisions
         /\ c = "resolution" => hand' \in Resolutions
<1>1. mailbox \in [Channels -> Seq(Signals)]
  BY DEF TypeOK
<1>2. \A d \in Channels : mailbox'[d] = IF d = c THEN Tail(mailbox[c])
                                        ELSE mailbox[d]
  BY <1>1 DEF Receive
<1>3. mailbox' = [mailbox EXCEPT ![c] = Tail(mailbox[c])]
      /\ mailbox[c] # << >> /\ hand' = Head(mailbox[c])
  BY DEF Receive
<1>4. mailbox' \in [Channels -> Seq(Signals)]
  BY <1>1, <1>3, MailboxTyped
<1>5. /\ \A d \in DecisionStates : mailbox'[d] \in Seq(Decisions)
      /\ mailbox'["resolution"] \in Seq(Resolutions)
  BY <1>2, <1>3, MailboxTyped DEF SignalInv
<1>6. /\ hand' \in Signals
      /\ c \in DecisionStates => hand' \in Decisions
      /\ c = "resolution" => hand' \in Resolutions
  BY <1>3, MailboxTyped
<1>7. QED BY <1>4, <1>5, <1>6

(* Buffering a request keeps a typed mailbox typed. *)
LEMMA BufferedTyped ==
  ASSUME TypeOK, SignalInv, request # NoRequest,
         NEW box \in [Channels -> Seq(Signals)],
         \A d \in DecisionStates : box[d] \in Seq(Decisions),
         box["resolution"] \in Seq(Resolutions)
  PROVE  /\ Buffered(box) \in [Channels -> Seq(Signals)]
         /\ \A d \in DecisionStates : Buffered(box)[d] \in Seq(Decisions)
         /\ Buffered(box)["resolution"] \in Seq(Resolutions)
<1>1. request.channel \in Channels /\ request.signal \in Signals
  BY DEF TypeOK
<1>2. /\ request.channel \in DecisionStates => request.signal \in Decisions
      /\ request.channel = "resolution" => request.signal \in Resolutions
  BY MailboxTyped DEF SignalInv
<1>3. \A d \in Channels : Buffered(box)[d] =
         IF d = request.channel THEN Append(box[d], request.signal) ELSE box[d]
  BY <1>1 DEF Buffered
<1>4. ASSUME NEW S, NEW q \in Seq(S), NEW e \in S
      PROVE  Append(q, e) \in Seq(S)
  BY <1>4
<1>5. Append(box[request.channel], request.signal) \in Seq(Signals)
  BY <1>1, <1>4
<1>6. Buffered(box) \in [Channels -> Seq(Signals)]
  BY <1>1, <1>5 DEF Buffered
<1>7. ASSUME NEW d \in DecisionStates
      PROVE  Buffered(box)[d] \in Seq(Decisions)
  <2>1. d \in Channels /\ box[d] \in Seq(Decisions)
    BY MailboxTyped
  <2>2. CASE d = request.channel
    <3>1. Append(box[d], request.signal) \in Seq(Decisions)
      BY <1>2, <1>4, <2>1, <2>2
    <3>2. QED BY <1>3, <2>1, <2>2, <3>1
  <2>3. CASE d # request.channel
    BY <1>3, <2>1, <2>3
  <2>4. QED BY <2>2, <2>3
<1>8. Buffered(box)["resolution"] \in Seq(Resolutions)
  <2>1. "resolution" \in Channels
    BY MailboxTyped
  <2>2. CASE "resolution" = request.channel
    <3>1. Append(box["resolution"], request.signal) \in Seq(Resolutions)
      BY <1>2, <1>4, <2>2
    <3>2. QED BY <1>3, <2>1, <2>2, <3>1
  <2>3. CASE "resolution" # request.channel
    BY <1>3, <2>1, <2>3
  <2>4. QED BY <2>2, <2>3
<1>9. QED BY <1>6, <1>7, <1>8

(* Every step keeps the types, signals included. *)
LEMMA TypeStep ==
  ASSUME IndInv, [Next]_vars
  PROVE  TypeOK' /\ SignalInv'
<1> USE DEF IndInv
<1> DEFINE Boxes ==
      /\ mailbox' \in [Channels -> Seq(Signals)]
      /\ \A d \in DecisionStates : mailbox'[d] \in Seq(Decisions)
      /\ mailbox'["resolution"] \in Seq(Resolutions)
<1>0. {"UNDERWRITING_PRIMARY", "DISBURSEMENT_PENDING"} \subseteq DecisionStates
  BY DEF DecisionStates
<1>1. ASSUME UNCHANGED mailbox \/ mailbox' = Empty PROVE Boxes
  BY <1>1, MailboxTyped DEF TypeOK, SignalInv
<1>2. CASE UNCHANGED vars
  BY <1>2 DEF vars, store, ledger, workflow, TypeOK, SignalInv
<1>3. CASE ReplayIntake \/ \E o \in Officers : \E a \in Assignments :
              AssignRoles(o, a)
  <2>1. Boxes
    BY <1>1, <1>3 DEF ReplayIntake, AssignRoles, StartDisbursement, Launch,
                      workflow
  <2>2. QED
    BY <1>0, <1>3, <2>1 DEF ReplayIntake, AssignRoles, StartDisbursement,
          Launch, store, ledger, workflow, TypeOK, SignalInv
<1>4. CASE Deliver
  <2>1. Boxes
    <3>1. CASE Running
      BY <1>4, <3>1, BufferedTyped DEF Deliver, TypeOK, SignalInv
    <3>2. CASE ~Running /\ request.channel = "resolution"
      BY <1>4, <3>2, <1>1 DEF Deliver, workflow
    <3>3. CASE ~Running /\ request.channel # "resolution"
      <4>1. mailbox' = Buffered(Empty)
        BY <1>4, <3>3 DEF Deliver, Launch
      <4>2. << >> \in Seq(Decisions) /\ << >> \in Seq(Resolutions)
        OBVIOUS
      <4>3. QED BY <1>4, <4>1, <4>2, BufferedTyped, MailboxTyped DEF Deliver
    <3>4. QED BY <3>1, <3>2, <3>3
  <2>2. pc' \in {pc, "begin"} /\ hand' \in {hand, NoSignal}
        /\ stage' \in {stage, "UNDERWRITING_PRIMARY"}
        /\ rate' \in {rate, NoRate}
        /\ (pc' = pc => hand' = hand)
    BY <1>4 DEF Deliver, Launch, workflow, Running
  <2>3. QED
    BY <1>0, <1>4, <2>1, <2>2 DEF Deliver, store, ledger, TypeOK, SignalInv
<1>5. CASE Undelivered
  BY <1>5 DEF Undelivered, store, ledger, workflow, TypeOK, SignalInv
<1>6. CASE \E d \in {"APPROVE", "REJECT"} : RecordDecisionRead(d)
  <2> PICK d \in {"APPROVE", "REJECT"} : RecordDecisionRead(d)
    BY <1>6
  <2>1. roles[requiredRole[state]] \in Principals
    BY Tables, ConstantsAssumption DEF RecordDecisionRead, TypeOK
  <2>2. Signal(roles[requiredRole[state]], d) \in Decisions
    BY <2>1 DEF Signal, Decisions
  <2>3. state \in Channels /\ state # "resolution"
    BY MailboxTyped DEF RecordDecisionRead
  <2>4. request' \in [channel : Channels, signal : Signals]
    BY <2>2, <2>3, MailboxTyped DEF RecordDecisionRead
  <2>5. QED
    BY <2>2, <2>3, <2>4 DEF RecordDecisionRead, store, ledger, workflow,
                            TypeOK, SignalInv
<1>7. CASE \E o \in Officers, r \in {"RESUME_DISBURSEMENT", "REJECT"} :
              ResolveReconciliationRead(o, r)
  <2> PICK o \in Officers, r \in {"RESUME_DISBURSEMENT", "REJECT"} :
              ResolveReconciliationRead(o, r)
    BY <1>7
  <2>1. Signal(o, r) \in Resolutions
    BY ConstantsAssumption DEF Signal, Resolutions, TypeOK
  <2>2. request' \in [channel : Channels, signal : Signals]
    BY <2>1, MailboxTyped DEF ResolveReconciliationRead
  <2>3. QED
    BY <2>1, <2>2 DEF ResolveReconciliationRead, store, ledger, workflow,
                      TypeOK, SignalInv
<1>8. CASE BeginUnderwriting
  <2>1. Boxes
    BY <1>1, <1>8 DEF BeginUnderwriting, Await, Retry, Close, workflow
  <2>2. QED
    BY <1>0, <1>8, <2>1, Tables DEF BeginUnderwriting, MoveTo, Await, Retry,
          Close, Quiet, store, ledger, workflow, TypeOK, SignalInv
<1>9. CASE ReceiveDecision
  <2>1. stage \in DecisionStates /\ stage \in Channels
    BY MailboxTyped DEF TypeOK
  <2>2. Receive(stage, "record")
    BY <1>9 DEF ReceiveDecision
  <2>3. Boxes /\ hand' \in Signals /\ hand' \in Decisions
    BY <2>1, <2>2, ReceiveTyped
  <2>4. pc' = "record" /\ UNCHANGED <<stage, rate>>
    BY <2>2 DEF Receive
  <2>5. QED
    BY <1>9, <2>3, <2>4 DEF ReceiveDecision, Quiet, store, ledger, TypeOK,
                            SignalInv
<1>10. CASE RecordDecision
  <2>1. hand \in Decisions /\ hand.choice \in {"APPROVE", "REJECT"}
        /\ hand.principal \in Principals
    BY <1>10 DEF RecordDecision, SignalInv, Decisions
  <2>2. Boxes
    BY <1>1, <1>10 DEF RecordDecision, AfterDecision, Await, Retry, Close, Goto,
                       workflow
  <2>3. CASE ~CanDecide(hand.principal)
    BY <1>10, <2>2, <2>3 DEF RecordDecision, Goto, Quiet, store, ledger, TypeOK,
                             SignalInv
  <2>4. CASE CanDecide(hand.principal)
    <3>1. state \in DecisionStates /\ stage \in DecisionStates
      BY <2>4 DEF CanDecide, TypeOK
    <3>2. /\ approvals' \in SUBSET [role : Roles, principal : Principals,
                                    decision : {"APPROVE", "REJECT"}]
          /\ state' \in States
      BY <1>10, <2>1, <2>4, <3>1, Tables DEF RecordDecision, TypeOK, States
    <3>3. \/ UNCHANGED workflow
          \/ /\ pc' \in {"await", "closed", "disburse", "audit"}
             /\ stage' \in DecisionStates
             /\ hand' \in {hand, NoSignal}
             /\ rate' = rate
      <4>1. CASE Retry
        BY <4>1 DEF Retry
      <4>2. CASE AfterDecision(hand.choice)
        <5>1. CASE hand.choice = "REJECT"
          BY <4>2, <5>1, <3>1 DEF AfterDecision, Close
        <5>2. CASE hand.choice = "APPROVE"
                   /\ stage \in {"BANK_CONFIRMATION", "DISBURSEMENT_PENDING"}
          BY <4>2, <5>2, <3>1 DEF AfterDecision, Goto, DecisionStates
        <5>3. CASE hand.choice = "APPROVE"
                   /\ stage \notin {"BANK_CONFIRMATION", "DISBURSEMENT_PENDING"}
          BY <4>2, <5>3, <3>1, Tables DEF AfterDecision, Await
        <5>4. QED BY <2>1, <5>1, <5>2, <5>3
      <4>3. QED BY <1>10, <2>4, <4>1, <4>2 DEF RecordDecision
    <3>4. QED
      BY <1>10, <2>2, <2>4, <3>2, <3>3 DEF RecordDecision, Quiet, ledger,
            workflow, TypeOK, SignalInv
  <2>5. QED BY <2>3, <2>4
<1>11. CASE RequireReconciliation
  <2>1. Boxes
    BY <1>1, <1>11 DEF RequireReconciliation, Goto, Retry, Close, workflow
  <2>2. QED
    BY <1>11, <2>1 DEF RequireReconciliation, MoveTo, Goto, Retry, Close,
          Quiet, store, ledger, workflow, TypeOK, SignalInv, States
<1>12. CASE ReceiveResolution
  <2>1. PICK next \in {"resolve", "disburseResolve"} :
           Receive("resolution", next)
    BY <1>12 DEF ReceiveResolution
  <2>2. Boxes /\ hand' \in Signals /\ hand' \in Resolutions
    BY <2>1, ReceiveTyped, MailboxTyped
  <2>3. pc' = next /\ UNCHANGED <<stage, rate>>
    BY <2>1 DEF Receive
  <2>4. QED
    BY <1>12, <2>2, <2>3 DEF ReceiveResolution, Quiet, store, ledger, TypeOK,
                             SignalInv
<1>13. CASE ResolveReconciliation
  <2>1. Boxes
    BY <1>1, <1>13 DEF ResolveReconciliation, Goto, Await, Retry, Close,
                       workflow
  <2>2. QED
    BY <1>13, <2>1, Tables DEF ResolveReconciliation, MoveTo, Resolved, Goto,
          Await, Retry, Close, Quiet, store, ledger, workflow, TypeOK,
          SignalInv, States
<1>14. CASE ResolveDisbursement
  <2>1. Boxes
    BY <1>1, <1>14 DEF ResolveDisbursement, Goto, Retry, Close, workflow
  <2>2. QED
    BY <1>14, <2>1, Tables DEF ResolveDisbursement, MoveTo, Resolved, Goto,
          Retry, Close, Quiet, store, ledger, workflow, TypeOK, SignalInv,
          States
<1>15. CASE CommitAudit
  <2>1. Boxes
    BY <1>1, <1>15 DEF CommitAudit, Retry, Close, workflow
  <2>2. QED
    BY <1>15, <2>1 DEF CommitAudit, MoveTo, Retry, Close, Quiet, store, ledger,
          workflow, TypeOK, SignalInv, States
<1>16. CASE DisburseCheck
  <2>1. Boxes
    BY <1>1, <1>16 DEF DisburseCheck, Goto, Await
  <2>2. QED
    BY <1>0, <1>16, <2>1 DEF DisburseCheck, Goto, Await, Quiet, store, ledger,
          TypeOK, SignalInv
<1>17. CASE CreateDisbursementPair
  <2>1. Boxes
    BY <1>1, <1>17 DEF CreateDisbursementPair, Goto
  <2>2. rate \in Rates
    BY <1>17 DEF CreateDisbursementPair, LegsInv
  <2>3. fee' \in Nat /\ cost' \in Nat /\ inflight' \in SUBSET Rates
    BY <1>17, <2>2, AmountsTyped DEF CreateDisbursementPair, Post, TypeOK
  <2>4. QED
    BY <1>17, <2>1, <2>3 DEF CreateDisbursementPair, Goto, store, TypeOK,
          SignalInv
<1>18. CASE RecordDisbursementLegs
  <2>1. Boxes
    BY <1>1, <1>18 DEF RecordDisbursementLegs, Goto, Await
  <2>2. QED
    BY <1>0, <1>18, <2>1 DEF RecordDisbursementLegs, Goto, Await, Quiet, store,
          ledger, TypeOK, SignalInv
<1>19. CASE FailClosed
  <2>1. Boxes
    BY <1>1, <1>19 DEF FailClosed, Goto
  <2>2. QED
    BY <1>19, <2>1 DEF FailClosed, MoveTo, Goto, Quiet, store, ledger, TypeOK,
          SignalInv, States
<1>20. CASE WorkerDies
  <2>1. Boxes
    BY <1>1, <1>20 DEF WorkerDies, Goto
  <2>2. pc = "pair" => rate \in Rates
    BY DEF LegsInv
  <2>3. QED
    BY <1>20, <2>1, <2>2 DEF WorkerDies, Goto, store, TypeOK, SignalInv
<1>21. CASE \E r \in Rates : LatePair(r)
  BY <1>21, AmountsTyped DEF LatePair, Post, store, workflow, TypeOK, SignalInv
<1>22. QED
  BY <1>2, <1>3, <1>4, <1>5, <1>6, <1>7, <1>8, <1>9, <1>10, <1>11, <1>12,
     <1>13, <1>14, <1>15, <1>16, <1>17, <1>18, <1>19, <1>20, <1>21
  DEF Next, Api, Chained, Rail

-----------------------------------------------------------------------------
(* The approvals only grow and a binding stays, whatever the step. *)
LEMMA Growth ==
  ASSUME [Next]_vars
  PROVE  /\ approvals \subseteq approvals' /\ (roles # NoRoles => roles' = roles)
         /\ currency' = currency
<1>1. CASE UNCHANGED store
  BY <1>1 DEF store
<1>2. CASE \E o \in Officers : \E a \in Assignments : AssignRoles(o, a)
  BY <1>2 DEF AssignRoles
<1>3. CASE RecordDecision
  BY <1>3 DEF RecordDecision, store
<1>4. CASE \E next : MoveTo(next)
  BY <1>4 DEF MoveTo
<1>5. CASE RecordDisbursementLegs
  BY <1>5 DEF RecordDisbursementLegs, store
<1>6. CASE BeginUnderwriting \/ RequireReconciliation \/ ResolveReconciliation
           \/ ResolveDisbursement \/ CommitAudit \/ FailClosed
  BY <1>1, <1>4, <1>6 DEF BeginUnderwriting, RequireReconciliation,
     ResolveReconciliation, ResolveDisbursement, CommitAudit, FailClosed
<1>7. CASE UNCHANGED vars \/ ReplayIntake \/ Deliver \/ Undelivered
           \/ (\E d \in {"APPROVE", "REJECT"} : RecordDecisionRead(d))
           \/ (\E o \in Officers, r \in {"RESUME_DISBURSEMENT", "REJECT"} :
                 ResolveReconciliationRead(o, r))
           \/ ReceiveDecision \/ ReceiveResolution \/ DisburseCheck
           \/ CreateDisbursementPair \/ WorkerDies
           \/ (\E r \in Rates : LatePair(r))
  BY <1>1, <1>7 DEF vars, ReplayIntake, Deliver, Undelivered,
     RecordDecisionRead, ResolveReconciliationRead, ReceiveDecision,
     ReceiveResolution, DisburseCheck, CreateDisbursementPair, WorkerDies,
     LatePair
<1>8. QED
  BY <1>2, <1>3, <1>5, <1>6, <1>7 DEF Next, Api, Chained, Rail

(* The parts of the invariant that are not about types. *)
Rest == ChainInv /\ PlaceInv /\ MoneyInv /\ LegsInv

(* Starting an execution, or delivering a signal to a running one. *)
LEMMA ApiStep ==
  ASSUME IndInv, [Next]_vars, Api \/ UNCHANGED vars
  PROVE  Rest'
<1> USE DEF IndInv
<1>1. UNCHANGED <<state, approvals, parks, legs, announced, fee, cost, inflight>>
  BY DEF Api, ReplayIntake, Deliver, Undelivered, RecordDecisionRead,
     ResolveReconciliationRead, AssignRoles, store, ledger, vars
<1>2. \/ UNCHANGED <<pc, stage, rate, hand>>
      \/ pc' = "begin"
  BY DEF Api, ReplayIntake, Deliver, Undelivered, RecordDecisionRead,
     ResolveReconciliationRead, AssignRoles, StartDisbursement, Launch,
     workflow, vars
<1>3. ChainInv'
  BY <1>1, <1>2, Growth, ApprovedStays DEF ChainInv, Inactive
<1>4. PlaceInv'
  BY <1>1, <1>2, Growth DEF PlaceInv, RailPcs
<1>5. MoneyInv'
  BY <1>1, <1>2, Growth, ApprovedStays
     DEF MoneyInv, MoneyAfterApprovals, Money, Inactive
<1>6. LegsInv'
  BY <1>1, <1>2, Growth DEF LegsInv, LegsMatchLedger, Convertible,
     AnnouncedOnce, Inactive, RailPcs
<1>7. QED BY <1>3, <1>4, <1>5, <1>6 DEF Rest

(* Taking a signal moves the workflow inside the same stage. *)
LEMMA ReceiveStep ==
  ASSUME IndInv, [Next]_vars, ReceiveDecision \/ ReceiveResolution
  PROVE  Rest'
<1> USE DEF IndInv
<1>1. UNCHANGED <<store, ledger, stage, rate>>
  BY DEF ReceiveDecision, ReceiveResolution, Receive, Quiet
<1>2. \/ pc = "await" /\ pc' = "record"
      \/ pc = "parked" /\ pc' = "resolve"
      \/ pc = "disburseParked" /\ pc' = "disburseResolve"
  BY DEF ReceiveDecision, ReceiveResolution, Receive
<1>3. ChainInv'
  BY <1>1, <1>2, Growth, ApprovedStays DEF ChainInv, Inactive, store
<1>4. PlaceInv'
  BY <1>1, <1>2 DEF PlaceInv, RailPcs, store
<1>5. MoneyInv'
  BY <1>1, <1>2, Growth, ApprovedStays
     DEF MoneyInv, MoneyAfterApprovals, Money, Inactive, store, ledger
<1>6. LegsInv'
  BY <1>1, <1>2, Growth DEF LegsInv, LegsMatchLedger, Convertible,
     AnnouncedOnce, Inactive, RailPcs,
                    store, ledger
<1>7. QED BY <1>3, <1>4, <1>5, <1>6 DEF Rest

(* The workflow starts: only a SUBMITTED application, for which no money     *)
(* can have moved, enters the chain.                                         *)
LEMMA BeginStep ==
  ASSUME IndInv, [Next]_vars, BeginUnderwriting
  PROVE  Rest'
<1> USE DEF IndInv
<1>1. UNCHANGED <<roles, approvals, legs, announced, fee, cost, inflight>>
  BY DEF BeginUnderwriting, MoveTo, Quiet, store, ledger
<1>2. \/ state' = state /\ pc' = "closed"
      \/ /\ state = "SUBMITTED" /\ state' = "UNDERWRITING_PRIMARY"
         /\ \/ pc' = "await" /\ stage' = "UNDERWRITING_PRIMARY"
            \/ pc' = "begin"
  BY Tables DEF BeginUnderwriting, MoveTo, Await, Retry, Close, store, workflow
<1>3. Before("UNDERWRITING_PRIMARY")'
  BY Tables DEF Before
<1>4. ChainInv'
  BY <1>2, <1>3, Growth, ApprovedStays DEF ChainInv, Inactive
<1>5. PlaceInv'
  BY <1>2 DEF PlaceInv, RailPcs
<1>6. MoneyInv'
  BY <1>1, <1>2, Growth, ApprovedStays
     DEF MoneyInv, MoneyAfterApprovals, Money, Inactive
<1>7. LegsInv'
  BY <1>1, <1>2, Growth DEF LegsInv, LegsMatchLedger, Convertible,
     AnnouncedOnce, Inactive, RailPcs
<1>8. QED BY <1>4, <1>5, <1>6, <1>7 DEF Rest

(* A decision is recorded in the stage the workflow is at: the retry of a    *)
(* recorded one is refused, because its principal holds no other role.       *)
LEMMA DecisionStep ==
  ASSUME IndInv, TypeOK', [Next]_vars, RecordDecision
  PROVE  Rest'
<1> USE DEF IndInv
<1>0. stage \in DecisionStates /\ state \in States
  BY DEF TypeOK
<1>1. UNCHANGED <<roles, legs, announced, fee, cost, inflight>>
  BY DEF RecordDecision, Quiet, store, ledger
<1>2. CASE ~CanDecide(hand.principal)
  <2>1. UNCHANGED <<store, stage, rate, hand>> /\ pc = "record" /\ pc' = "park"
    BY <1>2 DEF RecordDecision, Goto
  <2>2. ChainInv'
    BY <2>1, Growth, ApprovedStays DEF ChainInv, Inactive, store
  <2>3. PlaceInv'
    BY <2>1 DEF PlaceInv, RailPcs, store
  <2>4. MoneyInv'
    BY <1>1, <2>1, Growth, ApprovedStays
       DEF MoneyInv, MoneyAfterApprovals, Money, Inactive, store
  <2>5. LegsInv'
    BY <1>1, <2>1, Growth DEF LegsInv, LegsMatchLedger, Convertible,
     AnnouncedOnce, Inactive,
                      RailPcs, store
  <2>6. QED BY <2>2, <2>3, <2>4, <2>5 DEF Rest
<1>3. CASE CanDecide(hand.principal)
  <2>1. state = stage
    <3>1. state \in DecisionStates
          /\ \A r \in Roles : roles[r] = hand.principal => r = requiredRole[state]
      BY <1>3 DEF CanDecide
    <3>2. roles[requiredRole[stage]] = hand.principal => state = stage
      BY <1>0, <3>1, Tables
    <3>3. QED BY <3>1, <3>2, <1>0, Tables DEF RecordDecision, PlaceInv
  <2>2. hand.choice \in {"APPROVE", "REJECT"}
    BY DEF RecordDecision, SignalInv, Decisions
  <2>3. roles # NoRoles /\ roles[requiredRole[stage]] = hand.principal
    BY <1>3, <2>1 DEF CanDecide
  <2>4. CASE hand.choice = "REJECT"
    <3>1. /\ state' = "REJECTED"
          /\ \/ pc' = "closed"
             \/ pc' = "record" /\ UNCHANGED <<stage, rate, hand>>
      BY <1>3, <2>4 DEF RecordDecision, AfterDecision, Close, Retry, workflow
    <3>2. Before("REJECTED")'
      BY Tables DEF Before
    <3>3. ChainInv'
      BY <3>1, <3>2, Growth, ApprovedStays
         DEF ChainInv, Inactive, RecordDecision
    <3>4. PlaceInv'
      BY <1>1, <2>3, <3>1 DEF PlaceInv, RailPcs
    <3>5. MoneyInv'
      BY <1>1, <3>1, Growth, ApprovedStays
         DEF MoneyInv, MoneyAfterApprovals, Money, Inactive, RecordDecision
    <3>6. LegsInv'
      BY <1>1, <3>1, Growth DEF LegsInv, LegsMatchLedger, Convertible,
     AnnouncedOnce, Inactive,
                        RailPcs, RecordDecision
    <3>7. QED BY <3>3, <3>4, <3>5, <3>6 DEF Rest
  <2>5. CASE hand.choice = "APPROVE"
    <3>1. /\ state' = approvedSuccessor[stage]
          /\ \/ pc' = "record" /\ UNCHANGED <<stage, rate, hand>>
             \/ /\ stage = "BANK_CONFIRMATION"
                /\ pc' = "disburse" /\ stage' = "DISBURSEMENT_PENDING"
             \/ stage = "DISBURSEMENT_PENDING" /\ pc' = "audit" /\ stage' = stage
             \/ /\ stage \notin {"BANK_CONFIRMATION", "DISBURSEMENT_PENDING"}
                /\ pc' = "await" /\ stage' = approvedSuccessor[stage]
      BY <1>3, <2>1, <2>5 DEF RecordDecision, AfterDecision, Goto, Await, Retry,
                              workflow
    <3>2. \A t \in DecisionStates : t = stage => Approved(t)'
      BY <1>1, <1>3, <2>1, <2>3, <2>5 DEF RecordDecision, Approved
    <3>3. stage' = stage => Before(stage)'
      BY Growth, ApprovedStays DEF ChainInv, RecordDecision, Inactive, Before
    <3>4. \A t \in DecisionStates :
             Rank[t] < Rank[approvedSuccessor[stage]] => Approved(t)'
      <4> SUFFICES ASSUME NEW t \in DecisionStates,
                          Rank[t] < Rank[approvedSuccessor[stage]], t # stage
                   PROVE  Approved(t)'
        BY <3>2
      <4>1. /\ Rank[t] \in Nat /\ Rank[stage] \in Nat /\ Rank[t] # Rank[stage]
            /\ Rank[approvedSuccessor[stage]] = Rank[stage] + 1
        BY <1>0, Tables
      <4>2. Rank[t] < Rank[stage]
        BY <4>1
      <4>3. QED BY <1>0, <2>1, <4>2, Growth, ApprovedStays DEF ChainInv, Before
    <3>5. ChainInv'
      <4>1. Before(state)'
        BY <3>1, <3>4 DEF Before
      <4>2. pc' = "record" \/ pc' = "audit" => Before(stage)'
        BY <3>1, <3>3
      <4>3. pc' \in {"disburse", "await"} => stage' = approvedSuccessor[stage]
        BY <3>1, Tables
      <4>4. QED BY <3>1, <3>4, <4>1, <4>2, <4>3 DEF ChainInv, Before
    <3>6. PlaceInv'
      BY <1>0, <1>1, <2>3, <3>1, Tables DEF PlaceInv, RailPcs
    <3>7. MoneyInv'
      <4>1. Money => stage = "DISBURSEMENT_PENDING"
        BY DEF MoneyInv, RecordDecision, Inactive
      <4>2. stage = "DISBURSEMENT_PENDING" => state' = "DISBURSED"
        BY <3>1, <1>0, Tables
      <4>3. Money' => Money
        BY <1>1 DEF Money
      <4>4. MoneyAfterApprovals'
        BY <4>1, <4>2, <4>3, Growth, ApprovedStays
           DEF MoneyInv, MoneyAfterApprovals, Money
      <4>5. QED BY <3>1, <4>1, <4>3, <4>4 DEF MoneyInv
    <3>8. LegsInv'
      <4>1. stage = "DISBURSEMENT_PENDING" => legs # NoRate
        BY DEF LegsInv, RecordDecision, Inactive, RailPcs
      <4>2. state' \in {"DISBURSED", "AUDITED"} => stage = "DISBURSEMENT_PENDING"
        BY <1>0, <3>1, Tables
      <4>3. pc' \notin Inactive \cup RailPcs /\ stage' = "DISBURSEMENT_PENDING"
               => stage = "DISBURSEMENT_PENDING"
        BY <1>0, <3>1, Tables DEF RailPcs, Inactive, approvedSuccessor, DecisionStates
      <4>4. QED
        BY <1>1, <3>1, <4>1, <4>2, <4>3, Growth
           DEF LegsInv, LegsMatchLedger, Convertible, AnnouncedOnce
    <3>9. QED BY <3>5, <3>6, <3>7, <3>8 DEF Rest
  <2>6. QED BY <2>2, <2>4, <2>5
<1>4. QED BY <1>2, <1>3

(* Parking, resolving and closing: the application comes back only into the  *)
(* workflow's own stage.                                                     *)
LEMMA ReconciliationStep ==
  ASSUME IndInv, [Next]_vars,
         RequireReconciliation \/ ResolveReconciliation \/ ResolveDisbursement
  PROVE  Rest'
<1> USE DEF IndInv
<1>1. UNCHANGED <<roles, approvals, legs, announced, fee, cost, inflight>>
  BY DEF RequireReconciliation, ResolveReconciliation, ResolveDisbursement,
     MoveTo, Quiet, store, ledger
<1>2. stage' = stage
  BY DEF RequireReconciliation, ResolveReconciliation, ResolveDisbursement,
     Goto, Await, Close, Retry, workflow
<1>3. \/ /\ pc = "park"
         /\ \/ state' = state /\ pc' = "closed"
            \/ state' = "RECONCILIATION_REQUIRED" /\ pc' \in {"park", "parked"}
      \/ /\ pc = "resolve"
         /\ \/ state' = state /\ pc' = "parked"
            \/ state' = "REJECTED" /\ pc' \in {"resolve", "closed"}
            \/ state' = stage /\ pc' \in {"resolve", "await"}
      \/ /\ pc = "disburseResolve"
         /\ \/ state' = state /\ pc' = "closed"
            \/ state' = "REJECTED" /\ pc' \in {"disburseResolve", "closed"}
            \/ state' = stage /\ pc' \in {"disburseResolve", "disburse"}
  BY DEF RequireReconciliation, ResolveReconciliation, ResolveDisbursement,
     MoveTo, Resolved, CanResolve, Goto, Await, Close, Retry, store, workflow
<1>4. stage \in DecisionStates /\ stage \in States
  BY Tables DEF TypeOK
<1>5. Before("REJECTED")' /\ Before("RECONCILIATION_REQUIRED")'
  BY Tables DEF Before
<1>6. Before(stage) /\ (\A s : Before(s) => Before(s)')
  BY <1>3, Growth, ApprovedStays DEF ChainInv, Inactive
<1>7. ChainInv'
  BY <1>2, <1>3, <1>5, <1>6 DEF ChainInv
<1>8. PlaceInv'
  BY <1>2, <1>3 DEF PlaceInv, RailPcs
<1>9. MoneyInv'
  <2>1. Money' <=> Money
    BY <1>1 DEF Money
  <2>2. Money => stage = "DISBURSEMENT_PENDING"
    BY <1>3 DEF MoneyInv, Inactive
  <2>3. MoneyAfterApprovals'
    BY <1>3, <2>1, <2>2, Growth, ApprovedStays
       DEF MoneyInv, MoneyAfterApprovals, Money
  <2>4. QED BY <1>2, <2>1, <2>2, <2>3 DEF MoneyInv
<1>10. LegsInv'
  <2>1. stage = "DISBURSEMENT_PENDING" /\ pc # "disburseResolve" => legs # NoRate
    BY <1>3, Growth DEF LegsInv, Inactive, RailPcs
  <2>2. stage \notin {"DISBURSED", "AUDITED"}
    BY <1>4 DEF DecisionStates
  <2>3. pc = "disburseResolve" => pc' \in Inactive \cup RailPcs
    BY <1>3 DEF Inactive, RailPcs, PlaceInv
  <2>4. pc' \notin {"pair", "legs"}
    BY <1>3
  <2>5. QED
    BY <1>1, <1>2, <1>3, <2>1, <2>2, <2>3, <2>4, Growth
       DEF LegsInv, LegsMatchLedger, Convertible, AnnouncedOnce
<1>11. QED BY <1>7, <1>8, <1>9, <1>10 DEF Rest

(* The audit closes what was disbursed. *)
LEMMA AuditStep ==
  ASSUME IndInv, [Next]_vars, CommitAudit
  PROVE  Rest'
<1> USE DEF IndInv
<1>1. UNCHANGED <<roles, approvals, legs, announced, fee, cost, inflight>>
  BY DEF CommitAudit, MoveTo, Quiet, store, ledger
<1>2. /\ stage' = stage /\ pc = "audit" /\ pc' \in {"audit", "closed"}
      /\ \/ state' = state /\ pc' = "closed"
         \/ state = "DISBURSED" /\ state' = "AUDITED"
  BY DEF CommitAudit, MoveTo, Close, Retry, store, workflow
<1>3. stage = "DISBURSEMENT_PENDING" /\ state \in {"DISBURSED", "AUDITED"}
  BY <1>2 DEF PlaceInv
<1>4. ChainInv'
  <2>1. \A t \in DecisionStates :
           Rank[t] < Rank["AUDITED"] => Rank[t] < Rank["DISBURSED"]
    BY Tables
  <2>2. state = "DISBURSED" => Before("AUDITED")'
    BY <2>1, Growth, ApprovedStays DEF ChainInv, Before
  <2>3. Before(state)'
    BY <1>2, <2>2, Growth, ApprovedStays DEF ChainInv
  <2>4. Before(stage)'
    BY <1>2, Growth, ApprovedStays DEF ChainInv, Inactive
  <2>5. QED BY <2>3, <2>4 DEF ChainInv
<1>5. PlaceInv'
  BY <1>2, <1>3 DEF PlaceInv, RailPcs
<1>6. MoneyInv'
  BY <1>1, <1>2, <1>3, Growth, ApprovedStays
     DEF MoneyInv, MoneyAfterApprovals, Money, Inactive
<1>7. LegsInv'
  BY <1>1, <1>2, <1>3, Growth DEF LegsInv, LegsMatchLedger, Convertible,
     AnnouncedOnce, Inactive,
     RailPcs
<1>8. QED BY <1>4, <1>5, <1>6, <1>7 DEF Rest

(* The rail works in DISBURSEMENT_PENDING only, where the five approvals are *)
(* known, and writes the legs of the pair it has just seen posted.           *)
LEMMA RailStep ==
  ASSUME IndInv, TypeOK', [Next]_vars, Rail
  PROVE  Rest'
<1> USE DEF IndInv
<1>1. UNCHANGED <<roles, approvals>> /\ stage = "DISBURSEMENT_PENDING"
      /\ stage' = stage /\ pc \in RailPcs /\ pc' \in RailPcs \cup {"await"}
  BY DEF Rail, DisburseCheck, CreateDisbursementPair, RecordDisbursementLegs,
     FailClosed, WorkerDies, MoveTo, Goto, Await, store, PlaceInv, RailPcs
<1>2. \/ state' = state
      \/ state' = "RECONCILIATION_REQUIRED"
         /\ pc' \in {"disburseParked", "disburse"}
  BY DEF Rail, DisburseCheck, CreateDisbursementPair, RecordDisbursementLegs,
     FailClosed, WorkerDies, MoveTo, Goto, store
<1>3. pc' \in {"pair", "legs", "failClosed", "await"} => state' = stage
  BY <1>1, <1>2 DEF Rail, DisburseCheck, CreateDisbursementPair,
     RecordDisbursementLegs, FailClosed, WorkerDies, Goto, PlaceInv
<1>4. ChainInv'
  <2>1. Before("RECONCILIATION_REQUIRED")'
    BY Tables DEF Before
  <2>2. Before(stage)
    BY <1>1 DEF ChainInv, Inactive, RailPcs
  <2>3. QED BY <1>1, <1>2, <2>1, <2>2, Growth, ApprovedStays DEF ChainInv
<1>5. PlaceInv'
  BY <1>1, <1>2, <1>3 DEF PlaceInv, RailPcs
<1>6. MoneyInv'
  <2>1. \A s \in DecisionStates \ {"DISBURSEMENT_PENDING"} : Approved(s)
    <3>1. Before("DISBURSEMENT_PENDING")
      BY <1>1 DEF ChainInv, Inactive, RailPcs
    <3>2. \A s \in DecisionStates \ {"DISBURSEMENT_PENDING"} :
             Rank[s] < Rank["DISBURSEMENT_PENDING"]
      BY DEF Rank, DecisionStates
    <3>3. QED BY <3>1, <3>2 DEF Before
  <2>2. state \in {"DISBURSEMENT_PENDING", "REJECTED", "RECONCILIATION_REQUIRED"}
    BY <1>1 DEF PlaceInv
  <2>3. QED
    BY <1>1, <1>2, <2>1, <2>2, Growth, ApprovedStays
       DEF MoneyInv, MoneyAfterApprovals
<1>7. LegsInv'
  <2>0. state' \notin {"DISBURSED", "AUDITED"}
    BY <1>1, <1>2, Growth DEF PlaceInv
  <2>1. CASE DisburseCheck
    BY <1>1, <2>0, <2>1 DEF DisburseCheck, Goto, Await, Quiet, store, ledger,
       LegsInv, LegsMatchLedger, Convertible, AnnouncedOnce, Inactive, RailPcs
  <2>2. CASE CreateDisbursementPair
    <3>1. legs = NoRate /\ legs' = legs /\ announced' = announced
          /\ rate' = rate /\ rate \in Rates /\ pc' \in {"legs", "failClosed"}
          /\ Convertible(rate)
          /\ (pc' = "legs" => /\ fee' = FeeAt(currency, rate)
                              /\ cost' = CostAt(currency, rate))
      BY <2>2 DEF CreateDisbursementPair, BothPosted, Goto, store, LegsInv
    <3>2. QED
      BY <2>0, <3>1, Growth DEF LegsInv, LegsMatchLedger, Convertible,
         AnnouncedOnce, Inactive, RailPcs
  <2>3. CASE RecordDisbursementLegs
    <3>1. /\ fee = FeeAt(currency, rate) /\ cost = CostAt(currency, rate)
          /\ rate \in Rates /\ legs = NoRate /\ Convertible(rate)
          /\ announced = 0 /\ UNCHANGED <<fee, cost, rate>>
      BY <2>3 DEF RecordDisbursementLegs, LegsInv, AnnouncedOnce, TypeOK,
         Quiet, ledger, Goto, Await
    <3>2. \/ legs' = rate /\ announced' = 1
             /\ pc' \in {"await", "failClosed", "disburse"}
          \/ legs' = legs /\ announced' = announced /\ pc' = "failClosed"
      BY <2>3, <3>1 DEF RecordDisbursementLegs, Goto, Await, store
    <3>3. QED
      BY <2>0, <3>1, <3>2, Growth, ConstantsAssumption DEF LegsInv,
         LegsMatchLedger, Convertible, AnnouncedOnce, Inactive, RailPcs
  <2>4. CASE FailClosed \/ WorkerDies
    <3>1. UNCHANGED <<legs, announced, fee, cost>>
          /\ pc' \in {"disburse", "disburseParked"}
      BY <2>4 DEF FailClosed, WorkerDies, MoveTo, Goto, Quiet, store, ledger
    <3>2. QED
      BY <2>0, <3>1, Growth DEF LegsInv, LegsMatchLedger, Convertible,
         AnnouncedOnce, Inactive, RailPcs
  <2>5. QED BY <2>1, <2>2, <2>3, <2>4 DEF Rail
<1>8. QED BY <1>4, <1>5, <1>6, <1>7 DEF Rest

(* A pair that lands late was sent with the approvals in place. *)
LEMMA LateStep ==
  ASSUME IndInv, [Next]_vars, NEW r \in Rates, LatePair(r)
  PROVE  Rest'
<1> USE DEF IndInv
<1>1. UNCHANGED <<store, workflow>> /\ Money
  BY DEF LatePair, Money
<1>2. (fee # 0 => fee' = fee) /\ (cost # 0 => cost' = cost)
  BY DEF LatePair, Post
<1>3. ChainInv' /\ PlaceInv'
  <2>1. ChainInv'
    BY <1>1, Growth, ApprovedStays DEF ChainInv, Inactive, store, workflow
  <2>2. PlaceInv'
    BY <1>1 DEF PlaceInv, RailPcs, store, workflow
  <2>3. QED BY <2>1, <2>2
<1>4. MoneyInv'
  BY <1>1, Growth, ApprovedStays
     DEF MoneyInv, MoneyAfterApprovals, Money, Inactive, store, workflow
<1>5. LegsInv'
  BY <1>1, <1>2, ConstantsAssumption, Growth DEF LegsInv, LegsMatchLedger, Convertible,
     AnnouncedOnce, Inactive, RailPcs, store, workflow, TypeOK
<1>6. QED BY <1>3, <1>4, <1>5 DEF Rest

-----------------------------------------------------------------------------
(* The invariant holds in every state of every behaviour. *)
THEOREM Inductive == Spec => []IndInv
<1>1. IndInv /\ [Next]_vars => IndInv'
  <2> SUFFICES ASSUME IndInv, [Next]_vars PROVE IndInv'
    OBVIOUS
  <2>1. TypeOK' /\ SignalInv'
    BY TypeStep
  <2>2. Rest'
    BY <2>1, ApiStep, ReceiveStep, BeginStep, DecisionStep, ReconciliationStep,
       AuditStep, RailStep, LateStep DEF Next, Chained
  <2>3. QED BY <2>1, <2>2 DEF IndInv, Rest
<1>2. QED BY InitialState, <1>1, PTL DEF Spec

(* The variables keep their types. *)
THEOREM TypeCorrect == Spec => []TypeOK
<1>1. IndInv => TypeOK
  BY DEF IndInv
<1>2. QED BY <1>1, Inductive, PTL

(* Reconciliation, retries and restarts never let an application past a      *)
(* party that has not approved (ApplyDecision, ResolveReconciliationTo).     *)
THEOREM EveryPartyDecides == Spec => []NoPartySkipped
<1>1. IndInv => NoPartySkipped
  BY DEF IndInv, ChainInv, Before, NoPartySkipped
<1>2. QED BY <1>1, Inductive, PTL

(* Disburse reaches the ledger only with five recorded approvals. *)
THEOREM MoneyIsApproved == Spec => []MoneyAfterApprovals
<1>1. IndInv => MoneyAfterApprovals
  BY DEF IndInv, MoneyInv
<1>2. QED BY <1>1, Inductive, PTL

(* The rate of the legs row yields the amounts of the posted pair, in naira   *)
(* and in dollars, however many days' rates were tried (verifyExistingTransfer*)
(* compares amounts only).                                                   *)
THEOREM ReportIsTrue == Spec => []LegsMatchLedger
<1>1. IndInv => LegsMatchLedger
  BY DEF IndInv, LegsInv
<1>2. QED BY <1>1, Inductive, PTL

(* DISBURSED and AUDITED, and the question to the beneficiary, are backed by *)
(* posted transfers and recorded legs.                                       *)
THEOREM DisbursementIsBacked == Spec => []DisbursedIsBacked
<1>1. IndInv => DisbursedIsBacked
  BY ConstantsAssumption
     DEF IndInv, LegsInv, LegsMatchLedger, Convertible, DisbursedIsBacked,
         Inactive, RailPcs
<1>2. QED BY <1>1, Inductive, PTL

(* One cvff.disbursed event per application, together with its legs row. *)
THEOREM OneAnnouncement == Spec => []AnnouncedOnce
<1>1. IndInv => AnnouncedOnce
  BY DEF IndInv, LegsInv
<1>2. QED BY <1>1, Inductive, PTL

(* The workflow and the API always mean the same party. *)
THEOREM PartyIsHeard == Spec => []AwaitedPartyIsHeard
<1>1. IndInv => AwaitedPartyIsHeard
  BY DEF IndInv, PlaceInv, AwaitedPartyIsHeard
<1>2. QED BY <1>1, Inductive, PTL

(* REJECTED and AUDITED are final: each writer checks the state itself or    *)
(* runs where the workflow knows it.                                         *)
THEOREM ClosedStaysClosed == Spec => ClosedIsFinal
<1>1. ASSUME IndInv, [Next]_vars, Terminal(state)
      PROVE  state' = state /\ approvals' = approvals
  <2>1. state \in {"REJECTED", "AUDITED"} /\ state \notin DecisionStates
    BY <1>1 DEF Terminal, DecisionStates
  <2>2. CASE Api \/ UNCHANGED vars
    BY <2>2 DEF Api, ReplayIntake, Deliver, Undelivered, RecordDecisionRead,
       ResolveReconciliationRead, AssignRoles, store, vars
  <2>3. CASE Chained
    BY <1>1, <2>1, <2>3 DEF Chained, BeginUnderwriting, ReceiveDecision,
       RecordDecision, CanDecide, RequireReconciliation, ReceiveResolution,
       ResolveReconciliation, ResolveDisbursement, CanResolve, CommitAudit,
       MoveTo, store
  <2>4. CASE Rail
    BY <1>1, <2>1, <2>4 DEF Rail, DisburseCheck, CreateDisbursementPair,
       RecordDisbursementLegs, FailClosed, WorkerDies, MoveTo, store, IndInv,
       PlaceInv, TypeOK
  <2>5. CASE \E r \in Rates : LatePair(r)
    BY <2>5 DEF LatePair, store
  <2>6. QED BY <1>1, <2>2, <2>3, <2>4, <2>5 DEF Next
<1>2. IndInv /\ [Next]_vars =>
         [Terminal(state) => state' = state /\ approvals' = approvals]_vars
  BY <1>1
<1>3. QED BY <1>2, Inductive, PTL DEF Spec, ClosedIsFinal
=============================================================================
