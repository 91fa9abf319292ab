-------------------------- MODULE CvffDisbursement --------------------------
(***************************************************************************)
(* One CVFF application: its PostgreSQL rows (internal/cvff), the Temporal *)
(* workflow that drives it (internal/workflow), the HTTP handlers that bind*)
(* the parties and deliver their signals (internal/cvffapi) and the        *)
(* TigerBeetle transfers of the disbursement rail (internal/ledger/fx.go). *)
(*                                                                         *)
(* The rows are written by the activities of one workflow execution only,  *)
(* so a store call is one step.  An activity that fails before its commit  *)
(* is retried and leaves no trace; one whose worker dies after the commit  *)
(* is retried on the committed state, which is modelled by a step that     *)
(* writes and leaves the workflow where it was.                            *)
(***************************************************************************)
EXTENDS Naturals, Sequences, FiniteSets, FxConversion

CONSTANTS
    Principals,     \* verified token subjects
    Officers,       \* principals holding an officer realm role
    Assignments,    \* role bindings an officer may send
    NoRoles,        \* no row in cvff_role_assignments
    Rates,          \* CBN rates confirmed for some disbursement date
    NgnPerUsd,      \* what each of them says, in units of 1 / Scale
    NoRate,         \* no legs row
    Amount,         \* cvff_applications.amount
    FeeBasisPoints, \* the custodial fee of the rail
    NoRequest,      \* the API handles no request
    MaxSignals,     \* bound: signals buffered by an execution
    MaxParks        \* bound: visits to RECONCILIATION_REQUIRED

Roles == {"UNDERWRITER_PRIMARY", "UNDERWRITER_SECONDARY",
          "UNDERWRITER_TERTIARY", "NIMASA_APPROVER", "RECEIVING_BANK",
          "BENEFICIARY"}

ASSUME ConstantsAssumption ==
    /\ Officers \subseteq Principals
    /\ Assignments \subseteq [Roles -> Principals]
    /\ NoRoles \notin Assignments
    /\ NoRate \notin Rates
    /\ NgnPerUsd \in [Rates -> Nat \ {0}]
    /\ Amount \in Nat \ {0}
    /\ FeeBasisPoints \in Nat \ {0}
    /\ MaxSignals \in Nat
    /\ MaxParks \in Nat

VARIABLES
    currency,   \* cvff_applications.currency
    state,      \* cvff_applications.state
    roles,      \* cvff_role_assignments
    approvals,  \* cvff_approvals
    parks,      \* how often the application entered RECONCILIATION_REQUIRED
    legs,       \* cvff_disbursement_legs: the rate of the recorded legs
    announced,  \* cvff.disbursed events in the outbox
    fee,        \* the amount of the NGN fee transfer, 0 while there is none
    cost,       \* the amount of the USD cost transfer, 0 while there is none
    inflight,   \* rates of pairs whose sender gave up, not yet decided
    pc,         \* where the workflow execution is
    stage,      \* the decision state it is at
    rate,       \* the rate the Disburse attempt captured
    hand,       \* the signal it is handling
    mailbox,    \* signals buffered per channel
    request     \* an API request between its read and its signal

store == <<currency, state, roles, approvals, parks, legs, announced>>
ledger == <<fee, cost, inflight>>
workflow == <<pc, stage, rate, hand, mailbox>>
vars == <<store, ledger, workflow, request>>

(* The states that await a party's decision. *)
DecisionStates ==
    {"UNDERWRITING_PRIMARY", "UNDERWRITING_SECONDARY", "UNDERWRITING_TERTIARY",
     "NIMASA_APPROVAL", "BANK_CONFIRMATION", "DISBURSEMENT_PENDING"}

States == DecisionStates \cup {"SUBMITTED", "DISBURSED", "AUDITED", "REJECTED",
                               "RECONCILIATION_REQUIRED"}

requiredRole ==
    [UNDERWRITING_PRIMARY   |-> "UNDERWRITER_PRIMARY",
     UNDERWRITING_SECONDARY |-> "UNDERWRITER_SECONDARY",
     UNDERWRITING_TERTIARY  |-> "UNDERWRITER_TERTIARY",
     NIMASA_APPROVAL        |-> "NIMASA_APPROVER",
     BANK_CONFIRMATION      |-> "RECEIVING_BANK",
     DISBURSEMENT_PENDING   |-> "BENEFICIARY"]

approvedSuccessor ==
    [SUBMITTED              |-> "UNDERWRITING_PRIMARY",
     UNDERWRITING_PRIMARY   |-> "UNDERWRITING_SECONDARY",
     UNDERWRITING_SECONDARY |-> "UNDERWRITING_TERTIARY",
     UNDERWRITING_TERTIARY  |-> "NIMASA_APPROVAL",
     NIMASA_APPROVAL        |-> "BANK_CONFIRMATION",
     BANK_CONFIRMATION      |-> "DISBURSEMENT_PENDING",
     DISBURSEMENT_PENDING   |-> "DISBURSED",
     DISBURSED              |-> "AUDITED"]

Terminal(s) == s \in {"REJECTED", "AUDITED"}

Channels == DecisionStates \cup {"resolution"}

Empty == [c \in Channels |-> << >>]

(* A decision or a resolution and who sent it. *)
Signal(principal, choice) == [principal |-> principal, choice |-> choice]

NoSignal == [principal |-> "nobody", choice |-> "none"]

Party(p) == \E r \in Roles : roles # NoRoles /\ roles[r] = p

-----------------------------------------------------------------------------
(* Temporal, as the code uses it: one execution per workflow id, buffered    *)
(* signals that belong to the execution, a start that succeeds when one runs.*)

(* How many signals are buffered. *)
Backlog ==
    Cardinality(UNION {{<<c, n>> : n \in 1..Len(mailbox[c])} : c \in Channels})

Running == pc \notin {"none", "closed"}

Goto(next) == pc' = next /\ UNCHANGED <<stage, rate, hand, mailbox>>

(* The workflow function returns. *)
Close ==
    /\ pc' = "closed"
    /\ mailbox' = Empty
    /\ UNCHANGED <<stage, rate, hand>>

Launch(buffered) ==
    /\ pc' = "begin"
    /\ stage' = "UNDERWRITING_PRIMARY"
    /\ mailbox' = buffered
    /\ rate' = NoRate
    /\ hand' = NoSignal

Await(s) ==
    /\ pc' = "await"
    /\ stage' = s
    /\ hand' = NoSignal
    /\ UNCHANGED <<rate, mailbox>>

(* Channel.Receive *)
Receive(channel, next) ==
    /\ mailbox[channel] # << >>
    /\ hand' = Head(mailbox[channel])
    /\ mailbox' = [mailbox EXCEPT ![channel] = Tail(@)]
    /\ pc' = next
    /\ UNCHANGED <<stage, rate>>

(* The worker dies after the commit: the attempt's writes stay and the       *)
(* activity is started again.                                                *)
Retry == UNCHANGED workflow

-----------------------------------------------------------------------------
(* The API. *)

StartDisbursement == IF Running THEN UNCHANGED workflow ELSE Launch(Empty)

(* A replay of POST /v1/cvff/applications re-drives the start. *)
ReplayIntake ==
    /\ ~Running
    /\ StartDisbursement
    /\ UNCHANGED <<store, ledger, request>>

ValidateRoleAssignments(a) == \A r, q \in Roles : a[r] = a[q] => r = q

(* PUT .../roles: an identical replay only re-drives the start, which may    *)
(* fail.                                                                     *)
AssignRoles(officer, a) ==
    /\ ValidateRoleAssignments(a)
    /\ \A r \in Roles : a[r] # officer
    /\ ~Terminal(state)
    /\ roles \in {NoRoles, a}
    /\ roles' = a
    /\ StartDisbursement \/ UNCHANGED workflow
    /\ UNCHANGED <<currency, state, approvals, parks, legs, announced, ledger,
                   request>>

(* POST .../decisions up to the signal. *)
RecordDecisionRead(decision) ==
    /\ request = NoRequest
    /\ state \in DecisionStates
    /\ roles # NoRoles
    /\ request' = [channel |-> state,
                   signal |-> Signal(roles[requiredRole[state]], decision)]
    /\ UNCHANGED <<store, ledger, workflow>>

(* POST .../reconciliation up to the signal. *)
ResolveReconciliationRead(officer, resolution) ==
    /\ request = NoRequest
    /\ state = "RECONCILIATION_REQUIRED"
    /\ request' = [channel |-> "resolution",
                   signal |-> Signal(officer, resolution)]
    /\ UNCHANGED <<store, ledger, workflow>>

Buffered(box) == [box EXCEPT ![request.channel] = Append(@, request.signal)]

(* SignalDecision starts an execution when none runs; SignalResolution       *)
(* reports ErrWorkflowNotRunning.                                            *)
Deliver ==
    /\ request # NoRequest
    /\ request' = NoRequest
    /\ \/ /\ Running
          /\ Backlog < MaxSignals
          /\ mailbox' = Buffered(mailbox)
          /\ UNCHANGED <<pc, stage, rate, hand>>
       \/ /\ ~Running
          /\ IF request.channel = "resolution"
             THEN UNCHANGED workflow
             ELSE Launch(Buffered(Empty))
    /\ UNCHANGED <<store, ledger>>

(* The signal is refused or its request times out. *)
Undelivered ==
    /\ request # NoRequest
    /\ request' = NoRequest
    /\ UNCHANGED <<store, ledger, workflow>>

-----------------------------------------------------------------------------
(* CVFFDisbursementWorkflow and its activities. *)

MoveTo(next) ==
    /\ state' = next
    /\ parks' = IF next = "RECONCILIATION_REQUIRED" /\ state # next
                THEN parks + 1 ELSE parks
    /\ UNCHANGED <<currency, roles, approvals, legs, announced>>

Quiet == UNCHANGED <<ledger, request>>

BeginUnderwriting ==
    /\ pc = "begin"
    /\ IF state = "SUBMITTED"
       THEN /\ MoveTo(approvedSuccessor[state])
            /\ Await("UNDERWRITING_PRIMARY") \/ Retry
       ELSE Close /\ UNCHANGED store
    /\ Quiet

ReceiveDecision ==
    /\ pc = "await"
    /\ Receive(stage, "record")
    /\ UNCHANGED store /\ Quiet

(* ApplyDecision's conditions; no principal ever holds two roles. *)
CanDecide(principal) ==
    /\ state \in DecisionStates
    /\ roles # NoRoles
    /\ roles[requiredRole[state]] = principal
    /\ \A r \in Roles : roles[r] = principal => r = requiredRole[state]

(* Where the workflow goes after a recorded decision. *)
AfterDecision(decision) ==
    CASE decision = "REJECT" -> Close
      [] decision = "APPROVE" /\ stage = "BANK_CONFIRMATION" ->
            /\ pc' = "disburse" /\ stage' = "DISBURSEMENT_PENDING"
            /\ UNCHANGED <<rate, hand, mailbox>>
      [] decision = "APPROVE" /\ stage = "DISBURSEMENT_PENDING" -> Goto("audit")
      [] OTHER -> Await(approvedSuccessor[stage])

RecordDecision ==
    /\ pc = "record"
    /\ IF CanDecide(hand.principal)
       THEN /\ approvals' = approvals \cup
                 {[role |-> requiredRole[state], principal |-> hand.principal,
                   decision |-> hand.choice]}
            /\ state' = IF hand.choice = "REJECT" THEN "REJECTED"
                        ELSE approvedSuccessor[state]
            /\ UNCHANGED <<currency, roles, parks, legs, announced>>
            /\ AfterDecision(hand.choice) \/ Retry
       ELSE Goto("park") /\ UNCHANGED store
    /\ Quiet

(* parkForReconciliation, first half. *)
RequireReconciliation ==
    /\ pc = "park"
    /\ IF Terminal(state)
       THEN Close /\ UNCHANGED store
       ELSE /\ parks < MaxParks \/ state = "RECONCILIATION_REQUIRED"
            /\ MoveTo("RECONCILIATION_REQUIRED")
            /\ Goto("parked") \/ Retry
    /\ Quiet

ReceiveResolution ==
    /\ \/ pc = "parked" /\ Receive("resolution", "resolve")
       \/ pc = "disburseParked" /\ Receive("resolution", "disburseResolve")
    /\ UNCHANGED store /\ Quiet

(* ResolveReconciliationTo's conditions and result; the resume target of     *)
(* both loops is the stage the workflow is at.                               *)
CanResolve(officer) == ~Party(officer) /\ state = "RECONCILIATION_REQUIRED"

(* Mutant: every resumption leads to the disbursement. *)
ResolvedToDisbursement(resolution) ==
    IF resolution = "REJECT" THEN "REJECTED" ELSE "DISBURSEMENT_PENDING"

Resolved(resolution) == IF resolution = "REJECT" THEN "REJECTED" ELSE stage

(* Mutant: a refused resolution resumes the stage. *)
ResolveReconciliationOptimistic ==
    /\ pc = "resolve"
    /\ IF CanResolve(hand.principal)
       THEN /\ MoveTo(Resolved(hand.choice))
            /\ \/ IF hand.choice = "REJECT" THEN Close ELSE Await(stage)
               \/ Retry
       ELSE Await(stage) /\ UNCHANGED store
    /\ Quiet

(* parkForReconciliation, second half: a refused resolution is ignored. *)
ResolveReconciliation ==
    /\ pc = "resolve"
    /\ IF CanResolve(hand.principal)
       THEN /\ MoveTo(Resolved(hand.choice))
            /\ \/ IF hand.choice = "REJECT" THEN Close ELSE Await(stage)
               \/ Retry
       ELSE Goto("parked") /\ UNCHANGED store
    /\ Quiet

(* Mutant: a resumed disbursement is confirmed by the bank once more. *)
ResolveDisbursementToBank ==
    /\ pc = "disburseResolve"
    /\ IF CanResolve(hand.principal)
       THEN IF hand.choice = "REJECT"
            THEN MoveTo("REJECTED") /\ Close
            ELSE MoveTo("BANK_CONFIRMATION") /\ Await("BANK_CONFIRMATION")
       ELSE Close /\ UNCHANGED store
    /\ Quiet

(* The same activity in the disbursement loop: a refusal ends the workflow.  *)
ResolveDisbursement ==
    /\ pc = "disburseResolve"
    /\ IF CanResolve(hand.principal)
       THEN /\ MoveTo(Resolved(hand.choice))
            /\ \/ IF hand.choice = "REJECT" THEN Close ELSE Goto("disburse")
               \/ Retry
       ELSE Close /\ UNCHANGED store
    /\ Quiet

CommitAudit ==
    /\ pc = "audit"
    /\ IF state = "DISBURSED"
       THEN MoveTo("AUDITED") /\ (Close \/ Retry)
       ELSE Close /\ UNCHANGED store
    /\ Quiet

-----------------------------------------------------------------------------
(* DisbursementRail.Disburse.  The worker may die between any two steps.     *)

(* An application in naira pays its fee on the amount and disburses its worth *)
(* in dollars; one in dollars disburses the amount and pays its fee on the    *)
(* worth in naira.                                                            *)
custodialFee(base) == (base * FeeBasisPoints) \div 10000

FeeAt(denomination, r) ==
    custodialFee(IF denomination = "NGN" THEN Amount
                 ELSE ConvertUSDToNGN(NgnPerUsd[r], Amount))

CostAt(denomination, r) ==
    IF denomination = "USD" THEN Amount
    ELSE ConvertNGNToUSD(NgnPerUsd[r], Amount)

Convertible(r) == FeeAt(currency, r) # 0 /\ CostAt(currency, r) # 0

(* Mutants: the replay check asks the ledger instead of the legs row, or is  *)
(* missing.                                                                  *)
DisburseCheckByFee ==
    /\ pc = "disburse"
    /\ \/ Goto("disburseParked")
       \/ /\ state = "DISBURSEMENT_PENDING"
          /\ fee # 0
          /\ Await("DISBURSEMENT_PENDING")
       \/ /\ state = "DISBURSEMENT_PENDING"
          /\ \E r \in Rates : Convertible(r) /\ rate' = r
          /\ pc' = "pair"
          /\ UNCHANGED <<stage, hand, mailbox>>
    /\ UNCHANGED store /\ Quiet

DisburseCheckNoReplay ==
    /\ pc = "disburse"
    /\ \/ Goto("disburseParked")
       \/ /\ state = "DISBURSEMENT_PENDING"
          /\ \E r \in Rates : Convertible(r) /\ rate' = r
          /\ pc' = "pair"
          /\ UNCHANGED <<stage, hand, mailbox>>
    /\ UNCHANGED store /\ Quiet

(* The state guard, the replay check, the rate of the day and the amounts,   *)
(* none of which may be zero.  An error of the two reads and a wrong state   *)
(* return at once; Activities.Disburse makes every error final.              *)
DisburseCheck ==
    /\ pc = "disburse"
    /\ \/ Goto("disburseParked")
       \/ /\ state = "DISBURSEMENT_PENDING"
          /\ legs # NoRate
          /\ Await("DISBURSEMENT_PENDING")
       \/ /\ state = "DISBURSEMENT_PENDING"
          /\ legs = NoRate
          /\ Goto("failClosed")
       \/ /\ state = "DISBURSEMENT_PENDING"
          /\ legs = NoRate
          /\ \E r \in Rates : Convertible(r) /\ rate' = r
          /\ pc' = "pair"
          /\ UNCHANGED <<stage, hand, mailbox>>
    /\ UNCHANGED store /\ Quiet

(* The effect of one CreateTransfers request: each leg is created unless its *)
(* id exists or the cluster refuses it.                                      *)
Post(r, accepted) ==
    /\ fee' = IF fee = 0 /\ "fee" \in accepted THEN FeeAt(currency, r) ELSE fee
    /\ cost' = IF cost = 0 /\ "cost" \in accepted THEN CostAt(currency, r) ELSE cost

(* Mutant: an Exists result is taken as success unseen. *)
BothExist(r) == fee' # 0 /\ cost' # 0

(* verifyExistingTransfer compares what a transfer holds: its amount, not the *)
(* rate the amount came from.                                                 *)
BothPosted(r) == fee' = FeeAt(currency, r) /\ cost' = CostAt(currency, r)

CreateDisbursementPair ==
    /\ pc = "pair"
    /\ \/ /\ \E accepted \in SUBSET {"fee", "cost"} : Post(rate, accepted)
          /\ \/ BothPosted(rate) /\ Goto("legs")
             \/ Goto("failClosed")
          /\ UNCHANGED inflight
       \/ /\ inflight' = inflight \cup {rate}
          /\ Goto("failClosed")
          /\ UNCHANGED <<fee, cost>>
    /\ UNCHANGED <<store, request>>

RecordDisbursementLegs ==
    /\ pc = "legs"
    /\ \/ /\ legs' = IF legs = NoRate THEN rate ELSE legs
          /\ announced' = announced + 1
          /\ UNCHANGED <<currency, state, roles, approvals, parks>>
          /\ \/ Await("DISBURSEMENT_PENDING")
             \/ Goto("failClosed")
             \/ Goto("disburse")
       \/ Goto("failClosed") /\ UNCHANGED store
    /\ Quiet

(* Parks the application, or fails to; the workflow waits for a resolution   *)
(* either way.                                                               *)
FailClosed ==
    /\ pc = "failClosed"
    /\ \/ /\ parks < MaxParks
          /\ MoveTo("RECONCILIATION_REQUIRED")
          /\ Goto("disburseParked") \/ Goto("disburse")
       \/ Goto("disburseParked") /\ UNCHANGED store
    /\ Quiet

(* The worker dies and Temporal starts the activity again; a pair it had     *)
(* sent may still be on its way.                                             *)
WorkerDies ==
    /\ pc \in {"pair", "legs", "failClosed"}
    /\ \/ inflight' = inflight
       \/ pc = "pair" /\ inflight' = inflight \cup {rate}
    /\ Goto("disburse")
    /\ UNCHANGED <<store, fee, cost, request>>

LatePair(r) ==
    /\ r \in inflight
    /\ inflight' = inflight \ {r}
    /\ \E accepted \in SUBSET {"fee", "cost"} : Post(r, accepted)
    /\ UNCHANGED <<store, workflow, request>>

-----------------------------------------------------------------------------
(* The row inserted by the beneficiary intake, or with its parties by        *)
(* Submit, before a start is asked for.                                      *)
Init ==
    /\ currency \in {"NGN", "USD"}
    /\ state = "SUBMITTED" /\ approvals = {}
    /\ roles \in {NoRoles} \cup {a \in Assignments : ValidateRoleAssignments(a)}
    /\ parks = 0 /\ legs = NoRate /\ announced = 0
    /\ fee = 0 /\ cost = 0 /\ inflight = {}
    /\ pc = "none" /\ stage = "UNDERWRITING_PRIMARY" /\ rate = NoRate
    /\ hand = NoSignal /\ mailbox = Empty
    /\ request = NoRequest

Api ==
    \/ ReplayIntake \/ Deliver \/ Undelivered
    \/ \E d \in {"APPROVE", "REJECT"} : RecordDecisionRead(d)
    \/ \E o \in Officers : \E a \in Assignments : AssignRoles(o, a)
    \/ \E o \in Officers, r \in {"RESUME_DISBURSEMENT", "REJECT"} :
          ResolveReconciliationRead(o, r)

Chained ==
    \/ BeginUnderwriting \/ ReceiveDecision \/ RecordDecision
    \/ RequireReconciliation \/ ReceiveResolution \/ ResolveReconciliation
    \/ ResolveDisbursement \/ CommitAudit

Rail ==
    \/ DisburseCheck \/ CreateDisbursementPair \/ RecordDisbursementLegs
    \/ FailClosed \/ WorkerDies

Next == Api \/ Chained \/ Rail \/ \E r \in Rates : LatePair(r)

Spec == Init /\ [][Next]_vars

-----------------------------------------------------------------------------
Signals ==
    [principal : Principals,
     choice : {"APPROVE", "REJECT", "RESUME_DISBURSEMENT"}]

TypeOK ==
    /\ currency \in {"NGN", "USD"}
    /\ state \in States
    /\ roles \in Assignments \cup {NoRoles}
    /\ approvals \in SUBSET [role : Roles, principal : Principals,
                             decision : {"APPROVE", "REJECT"}]
    /\ parks \in Nat
    /\ legs \in Rates \cup {NoRate}
    /\ announced \in Nat
    /\ fee \in Nat
    /\ cost \in Nat
    /\ inflight \in SUBSET Rates
    /\ pc \in {"none", "begin", "await", "record", "park", "parked", "resolve",
               "disburse", "pair", "legs", "failClosed", "disburseParked",
               "disburseResolve", "audit", "closed"}
    /\ stage \in DecisionStates
    /\ rate \in Rates \cup {NoRate}
    /\ hand \in Signals \cup {NoSignal}
    /\ mailbox \in [Channels -> Seq(Signals)]
    /\ request \in [channel : Channels, signal : Signals] \cup {NoRequest}

(* How far along the lifecycle a state is. *)
Rank ==
    [SUBMITTED |-> 0, UNDERWRITING_PRIMARY |-> 1, UNDERWRITING_SECONDARY |-> 2,
     UNDERWRITING_TERTIARY |-> 3, NIMASA_APPROVAL |-> 4,
     BANK_CONFIRMATION |-> 5, DISBURSEMENT_PENDING |-> 6, DISBURSED |-> 7,
     AUDITED |-> 8, REJECTED |-> 0, RECONCILIATION_REQUIRED |-> 0]

(* The principal bound to the role that decides s has approved. *)
Approved(s) ==
    /\ roles # NoRoles
    /\ [role |-> requiredRole[s], principal |-> roles[requiredRole[s]],
        decision |-> "APPROVE"] \in approvals

(* No party is skipped: in every state of the chain, however often the       *)
(* workflow was parked, resumed, retried or started again, each earlier      *)
(* stage was approved by the principal bound to it.                          *)
NoPartySkipped ==
    \A s \in DecisionStates : Rank[s] < Rank[state] => Approved(s)

(* A transfer of the disbursement pair exists, or is on its way, only after  *)
(* the five parties before the beneficiary approved, and from then on none   *)
(* of their stages is ever open again.                                       *)
MoneyAfterApprovals ==
    fee # 0 \/ cost # 0 \/ inflight # {} =>
       /\ \A s \in DecisionStates \ {"DISBURSEMENT_PENDING"} : Approved(s)
       /\ state \in {"DISBURSEMENT_PENDING", "DISBURSED", "AUDITED", "REJECTED",
                     "RECONCILIATION_REQUIRED"}

(* The dual-ledger report is true: the amounts that follow from the recorded *)
(* rate are the amounts that were posted, in either currency and also after  *)
(* attempts on days with other rates (Disburse, verifyExistingTransfer).     *)
LegsMatchLedger ==
    legs # NoRate =>
       fee = FeeAt(currency, legs) /\ cost = CostAt(currency, legs)

(* The beneficiary's confirmation is only asked for, and the application     *)
(* only shown DISBURSED or AUDITED, when the pair was posted and recorded.   *)
DisbursedIsBacked ==
    \/ state \in {"DISBURSED", "AUDITED"}
    \/ pc = "await" /\ stage = "DISBURSEMENT_PENDING"
    => legs # NoRate /\ fee # 0 /\ cost # 0

(* Retries, replays and resumes announce a disbursement at most once, and    *)
(* never without its legs.                                                   *)
AnnouncedOnce == announced <= 1 /\ (announced = 1 <=> legs # NoRate)

(* While the workflow waits for a party's signal, the application is in the  *)
(* state whose decisions the API delivers on that very channel.              *)
AwaitedPartyIsHeard == pc = "await" => state = stage

(* A closed application stays closed and its approvals stay as they are,     *)
(* whatever signals, starts and retries still arrive.                        *)
ClosedIsFinal ==
    [][Terminal(state) => state' = state /\ approvals' = approvals]_vars
=============================================================================
