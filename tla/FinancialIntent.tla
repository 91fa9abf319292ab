-------------------------- MODULE FinancialIntent --------------------------
(***************************************************************************)
(* Financial intents: the PostgreSQL row (internal/intent), the processes  *)
(* that drive it (internal/orchestration) and the TigerBeetle cluster they *)
(* talk to through internal/ledger.                                        *)
(*                                                                         *)
(* A store call is one transaction and one step: its UPDATE re-checks both *)
(* state and version, a version belongs to exactly one state, so the read  *)
(* made before the UPDATE only decides which error the caller gets.  A     *)
(* process that calls the ledger between two store calls is split at every *)
(* lookup and every create; it may crash at each of these points.          *)
(*                                                                         *)
(* A create sent to TigerBeetle may be answered, may fail without effect,  *)
(* may take effect although the caller gets an error, and may still be in  *)
(* flight when the caller gives up and take effect later.                  *)
(***************************************************************************)
EXTENDS Naturals, FiniteSets

CONSTANTS
    Intents,        \* intent identifiers (each has its own external_ref)
    Principals,     \* verified token subjects
    NoPrincipal,    \* a NULL maker or checker column
    NoIntent,       \* the intent of a process that handles none
    Procs,          \* concurrent CLI runs, API requests and reconcilers
    MaxVersion      \* bound: no operation starts that could exceed it

ASSUME ConstantsAssumption ==
    /\ NoPrincipal \notin Principals
    /\ NoIntent \notin Intents
    /\ MaxVersion \in Nat

VARIABLES
    row,        \* financial_intents
    outbox,     \* financial_intent_outbox
    transfers,  \* per intent, the deterministic transfers the cluster holds
    expired,    \* intents whose pending transfer timed out
    inflight,   \* per intent, creates given up by their caller, not yet decided
    call        \* per process, the operation it is in the middle of

vars == <<row, outbox, transfers, expired, inflight, call>>

States == {"DRAFT", "APPROVED", "RESERVATION_REQUESTED", "RESERVED", "POSTED",
           "VOIDED", "AMBIGUOUS", "RECONCILIATION_REQUIRED"}

(* deterministicID derives one id per namespace and intent. *)
Kinds == {"pending", "post", "void"}

Idle == [pc |-> "idle", op |-> "none", intent |-> NoIntent, version |-> 0,
         seen |-> {}]

Absent == [state |-> "NONE", version |-> 0, maker |-> NoPrincipal,
           checker |-> NoPrincipal]

-----------------------------------------------------------------------------
(* The intent store. *)

ValidOperationalTransition(current, next) ==
    \/ current = "DRAFT" /\ next = "VOIDED"
    \/ current = "APPROVED" /\ next = "RESERVATION_REQUESTED"
    \/ /\ current = "RESERVATION_REQUESTED"
       /\ next \in {"RESERVED", "AMBIGUOUS", "RECONCILIATION_REQUIRED"}
    \/ /\ current = "RESERVED"
       /\ next \in {"POSTED", "VOIDED", "AMBIGUOUS", "RECONCILIATION_REQUIRED"}
    \/ /\ current = "RECONCILIATION_REQUIRED"
       /\ next \in {"RESERVED", "POSTED", "VOIDED", "AMBIGUOUS"}
    \/ current = "AMBIGUOUS" /\ next \in {"RECONCILIATION_REQUIRED", "VOIDED"}

(* Every write appends the event of the new version in the same transaction. *)
Write(i, new) ==
    /\ row' = [row EXCEPT ![i] = new]
    /\ outbox' = outbox \cup {[intent |-> i, state |-> new.state,
                               version |-> new.version]}

StepTo(i, next) ==
    [state |-> next, version |-> row[i].version + 1, maker |-> row[i].maker,
     checker |-> row[i].checker]

(* The predicate of Store.Transition and of its UPDATE. *)
CanTransition(i, expectedVersion, next) ==
    /\ row[i].version = expectedVersion
    /\ ValidOperationalTransition(row[i].state, next)

(* POST /v1/financial-intents.  A replay of the same external_ref, equal or *)
(* conflicting, changes nothing.                                            *)
Create(i, maker) ==
    /\ row[i] = Absent
    /\ MaxVersion >= 1
    /\ Write(i, [state |-> "DRAFT", version |-> 1, maker |-> maker,
                 checker |-> NoPrincipal])
    /\ UNCHANGED <<transfers, expired, inflight, call>>

Approve(i, checker) ==
    /\ row[i].state = "DRAFT"
    /\ checker # row[i].maker
    /\ row[i].version < MaxVersion
    /\ Write(i, [state |-> "APPROVED", version |-> row[i].version + 1,
                 maker |-> row[i].maker, checker |-> checker])
    /\ UNCHANGED <<transfers, expired, inflight, call>>

VoidDraft(i, actor) ==
    /\ row[i].state = "DRAFT"
    /\ actor = row[i].maker
    /\ row[i].version < MaxVersion
    /\ Write(i, StepTo(i, "VOIDED"))
    /\ UNCHANGED <<transfers, expired, inflight, call>>

-----------------------------------------------------------------------------
(* The TigerBeetle cluster, as the code uses it: a transfer id is created   *)
(* at most once; post and void need a pending transfer that is neither      *)
(* posted, voided nor timed out; a timed-out transfer still looks up.       *)

Locked(i) ==
    /\ "pending" \in transfers[i]
    /\ transfers[i] \cap {"post", "void"} = {}
    /\ i \notin expired

Accepts(i, kind) ==
    IF kind = "pending" THEN "pending" \notin transfers[i] ELSE Locked(i)

Apply(i, kind) ==
    transfers' = [transfers EXCEPT
                    ![i] = IF Accepts(i, kind) THEN @ \cup {kind} ELSE @]

Expire(i) ==
    /\ Locked(i)
    /\ expired' = expired \cup {i}
    /\ UNCHANGED <<row, outbox, transfers, inflight, call>>

Land(i, kind) ==
    /\ kind \in inflight[i]
    /\ inflight' = [inflight EXCEPT ![i] = @ \ {kind}]
    /\ Apply(i, kind)
    /\ UNCHANGED <<row, outbox, expired, call>>

-----------------------------------------------------------------------------
(* Steps shared by the operations of a process. *)

At(p, op, pc) == call[p].op = op /\ call[p].pc = pc

Goto(p, pc) == call' = [call EXCEPT ![p].pc = pc]

Finish(p) == call' = [call EXCEPT ![p] = Idle]

Begin(p, op, i, version, pc) ==
    call' = [call EXCEPT ![p] = [pc |-> pc, op |-> op, intent |-> i,
                                 version |-> version, seen |-> {}]]

Found(p, kind) == kind \in transfers[call[p].intent]

(* A lookup that is only remembered. *)
Note(p, kind, pc) ==
    call' = [call EXCEPT
               ![p].pc = pc,
               ![p].seen = IF Found(p, kind) THEN @ \cup {kind} ELSE @]

(* createTransfer answered Created, or Exists with equal fields. *)
CreateOk(p, kind) ==
    LET i == call[p].intent IN
    /\ Accepts(i, kind) \/ kind \in transfers[i]
    /\ Apply(i, kind)
    /\ Goto(p, "record")
    /\ UNCHANGED <<row, outbox, expired, inflight>>

(* createTransfer returned an error: a refusal or an Exists whose stored    *)
(* fields differ (no effect), or a lost answer (effect now, later or never). *)
CreateError(p, kind) ==
    LET i == call[p].intent IN
    /\ \/ UNCHANGED <<transfers, inflight>>
       \/ Apply(i, kind) /\ UNCHANGED inflight
       \/ /\ inflight' = [inflight EXCEPT ![i] = @ \cup {kind}]
          /\ UNCHANGED transfers
    /\ UNCHANGED <<row, outbox, expired>>

LedgerUnchanged == UNCHANGED <<transfers, expired, inflight>>

StoreUnchanged == UNCHANGED <<row, outbox>>

(* Orchestrator.reconcile: record RECONCILIATION_REQUIRED at the version the *)
(* process knows, or fail to and give up.                                    *)
Reconcile(p) ==
    LET i == call[p].intent IN
    /\ call[p].pc = "reconcile"
    /\ \/ /\ CanTransition(i, call[p].version, "RECONCILIATION_REQUIRED")
          /\ Write(i, StepTo(i, "RECONCILIATION_REQUIRED"))
       \/ StoreUnchanged
    /\ Finish(p)
    /\ LedgerUnchanged

(* The closing Transition of the three CLI operations: recorded, recorded    *)
(* with a lost commit answer, or not recorded.                               *)
Record(p, op, next) ==
    LET i == call[p].intent IN
    /\ At(p, op, "record")
    /\ \/ /\ CanTransition(i, call[p].version, next)
          /\ Write(i, StepTo(i, next))
          /\ Finish(p) \/ Goto(p, "reconcile")
       \/ StoreUnchanged /\ Goto(p, "reconcile")
    /\ LedgerUnchanged

-----------------------------------------------------------------------------
(* Orchestrator.ReserveApproved *)

ReserveApproved(p, i) ==
    /\ call[p] = Idle
    /\ CanTransition(i, row[i].version, "RESERVATION_REQUESTED")
    /\ row[i].version + 2 <= MaxVersion
    /\ Write(i, StepTo(i, "RESERVATION_REQUESTED"))
    /\ Begin(p, "reserve", i, row[i].version + 1, "lookPending")
    /\ LedgerUnchanged

(* An unparsable account id and a failed lookup take the same path. *)
ReserveLookup(p) ==
    /\ At(p, "reserve", "lookPending")
    /\ \/ Goto(p, "reconcile")
       \/ Goto(p, IF Found(p, "pending") THEN "record" ELSE "create")
    /\ StoreUnchanged /\ LedgerUnchanged

(* Mutant: an error of Reserve does not stop the operation. *)
ReserveCreateIgnoringError(p) ==
    /\ At(p, "reserve", "create")
    /\ \/ CreateOk(p, "pending")
       \/ CreateError(p, "pending") /\ Goto(p, "record")

ReserveCreate(p) ==
    /\ At(p, "reserve", "create")
    /\ \/ CreateOk(p, "pending")
       \/ CreateError(p, "pending") /\ Goto(p, "reconcile")

ReserveRecord(p) == Record(p, "reserve", "RESERVED")

-----------------------------------------------------------------------------
(* Orchestrator.PostReserved *)

(* Mutant: posting does not wait for the reservation to be recorded. *)
PostRequested(p, i) ==
    /\ call[p] = Idle
    /\ row[i].state \in {"RESERVATION_REQUESTED", "RESERVED"}
    /\ row[i].version < MaxVersion
    /\ Begin(p, "post", i, row[i].version, "lookVoid")
    /\ StoreUnchanged /\ LedgerUnchanged

PostReserved(p, i) ==
    /\ call[p] = Idle
    /\ row[i].state = "RESERVED"
    /\ row[i].version < MaxVersion
    /\ Begin(p, "post", i, row[i].version, "lookVoid")
    /\ StoreUnchanged /\ LedgerUnchanged

PostLookupVoid(p) ==
    /\ At(p, "post", "lookVoid")
    /\ \/ Goto(p, "reconcile")
       \/ ~Found(p, "void") /\ Goto(p, "lookPost")
    /\ StoreUnchanged /\ LedgerUnchanged

(* Mutant: the lookup asks for the pending id instead of the post id. *)
PostLookupPending(p) ==
    /\ At(p, "post", "lookPost")
    /\ \/ Goto(p, "reconcile")
       \/ Goto(p, IF Found(p, "pending") THEN "record" ELSE "create")
    /\ StoreUnchanged /\ LedgerUnchanged

PostLookupPost(p) ==
    /\ At(p, "post", "lookPost")
    /\ \/ Goto(p, "reconcile")
       \/ Goto(p, IF Found(p, "post") THEN "record" ELSE "create")
    /\ StoreUnchanged /\ LedgerUnchanged

PostCreate(p) ==
    /\ At(p, "post", "create")
    /\ \/ CreateOk(p, "post")
       \/ CreateError(p, "post") /\ Goto(p, "reconcile")

PostRecord(p) == Record(p, "post", "POSTED")

-----------------------------------------------------------------------------
(* Orchestrator.VoidReserved *)

VoidReserved(p, i) ==
    /\ call[p] = Idle
    /\ row[i].state = "RESERVED"
    /\ row[i].version < MaxVersion
    /\ Begin(p, "void", i, row[i].version, "lookPost")
    /\ StoreUnchanged /\ LedgerUnchanged

VoidLookupPost(p) ==
    /\ At(p, "void", "lookPost")
    /\ \/ Goto(p, "reconcile")
       \/ ~Found(p, "post") /\ Goto(p, "lookVoid")
    /\ StoreUnchanged /\ LedgerUnchanged

VoidLookupVoid(p) ==
    /\ At(p, "void", "lookVoid")
    /\ \/ Goto(p, "reconcile")
       \/ Goto(p, IF Found(p, "void") THEN "record" ELSE "create")
    /\ StoreUnchanged /\ LedgerUnchanged

(* Mutant: an error of Void does not stop the operation. *)
VoidCreateIgnoringError(p) ==
    /\ At(p, "void", "create")
    /\ \/ CreateOk(p, "void")
       \/ CreateError(p, "void") /\ Goto(p, "record")

VoidCreate(p) ==
    /\ At(p, "void", "create")
    /\ \/ CreateOk(p, "void")
       \/ CreateError(p, "void") /\ Goto(p, "reconcile")

VoidRecord(p) == Record(p, "void", "VOIDED")

-----------------------------------------------------------------------------
(* Orchestrator.ReconcileObserved: three lookups, then one transition.       *)

ReconcileObserved(p, i) ==
    /\ call[p] = Idle
    /\ row[i].state = "RECONCILIATION_REQUIRED"
    /\ row[i].version < MaxVersion
    /\ Begin(p, "observe", i, row[i].version, "lookPending")
    /\ StoreUnchanged /\ LedgerUnchanged

(* A failed lookup abandons the operation. *)
ObserveLookup(p) ==
    /\ \/ At(p, "observe", "lookPending") /\ Note(p, "pending", "lookPost")
       \/ At(p, "observe", "lookPost") /\ Note(p, "post", "lookVoid")
       \/ At(p, "observe", "lookVoid") /\ Note(p, "void", "record")
       \/ call[p].op = "observe" /\ call[p].pc # "record" /\ Finish(p)
    /\ StoreUnchanged /\ LedgerUnchanged

(* Mutant: forgets that a posted intent still shows its pending transfer. *)
ObservedStateExact(seen) ==
    CASE seen = {"post"} -> "POSTED"
      [] seen = {"void"} -> "VOIDED"
      [] seen = {"pending"} -> "RESERVED"
      [] OTHER -> "AMBIGUOUS"

ObservedState(seen) ==
    CASE "post" \in seen /\ "void" \notin seen -> "POSTED"
      [] "void" \in seen /\ "post" \notin seen -> "VOIDED"
      [] seen = {"pending"} -> "RESERVED"
      [] OTHER -> "AMBIGUOUS"

ObserveRecord(p) ==
    LET i == call[p].intent
        next == ObservedState(call[p].seen)
    IN /\ At(p, "observe", "record")
       /\ \/ /\ CanTransition(i, call[p].version, next)
             /\ Write(i, StepTo(i, next))
          \/ StoreUnchanged
       /\ Finish(p)
       /\ LedgerUnchanged

-----------------------------------------------------------------------------
(* Resolver.ResolveAmbiguous.  The version is the one the officer's client   *)
(* sent; it is compared only by the closing store call.                      *)

ResolveReconcile(i) ==
    /\ row[i].state = "AMBIGUOUS"
    /\ row[i].version < MaxVersion
    /\ Write(i, StepTo(i, "RECONCILIATION_REQUIRED"))
    /\ LedgerUnchanged /\ UNCHANGED call

ResolveVoid(p, i, expectedVersion) ==
    /\ call[p] = Idle
    /\ row[i].state = "AMBIGUOUS"
    /\ expectedVersion < MaxVersion
    /\ Begin(p, "resolve", i, expectedVersion, "lookPost")
    /\ StoreUnchanged /\ LedgerUnchanged

(* An observed post refuses the disposition; a failed lookup abandons it. *)
ResolveLookup(p) ==
    /\ \/ /\ At(p, "resolve", "lookPost")
          /\ ~Found(p, "post")
          /\ Goto(p, "lookPending")
       \/ At(p, "resolve", "lookPending") /\ Note(p, "pending", "lookVoid")
       \/ /\ At(p, "resolve", "lookVoid")
          /\ Note(p, "void", IF "pending" \in call[p].seen /\ ~Found(p, "void")
                             THEN "create" ELSE "record")
       \/ /\ call[p].op = "resolve"
          /\ call[p].pc \in {"lookPost", "lookPending", "lookVoid"}
          /\ Finish(p)
    /\ StoreUnchanged /\ LedgerUnchanged

ResolveCreate(p) ==
    /\ At(p, "resolve", "create")
    /\ \/ CreateOk(p, "void")
       \/ CreateError(p, "void") /\ Finish(p)

ResolveRecord(p) ==
    LET i == call[p].intent IN
    /\ At(p, "resolve", "record")
    /\ \/ /\ row[i].state = "AMBIGUOUS"
          /\ CanTransition(i, call[p].version, "VOIDED")
          /\ Write(i, StepTo(i, "VOIDED"))
       \/ StoreUnchanged
    /\ Finish(p)
    /\ LedgerUnchanged

(* A process is killed, or its caller's connection is cut. *)
Crash(p) ==
    /\ call[p] # Idle
    /\ Finish(p)
    /\ StoreUnchanged /\ LedgerUnchanged

-----------------------------------------------------------------------------
Init ==
    /\ row = [i \in Intents |-> Absent]
    /\ outbox = {}
    /\ transfers = [i \in Intents |-> {}]
    /\ expired = {}
    /\ inflight = [i \in Intents |-> {}]
    /\ call = [p \in Procs |-> Idle]

Api(i) ==
    \/ \E u \in Principals : Create(i, u) \/ Approve(i, u) \/ VoidDraft(i, u)
    \/ ResolveReconcile(i)

Cluster(i) == Expire(i) \/ \E k \in Kinds : Land(i, k)

Start(p, i) ==
    \/ ReserveApproved(p, i) \/ PostReserved(p, i) \/ VoidReserved(p, i)
    \/ ReconcileObserved(p, i)
    \/ \E v \in 1..row[i].version : ResolveVoid(p, i, v)

Continue(p) ==
    \/ ReserveLookup(p) \/ ReserveCreate(p) \/ ReserveRecord(p)
    \/ PostLookupVoid(p) \/ PostLookupPost(p) \/ PostCreate(p) \/ PostRecord(p)
    \/ VoidLookupPost(p) \/ VoidLookupVoid(p) \/ VoidCreate(p) \/ VoidRecord(p)
    \/ ObserveLookup(p) \/ ObserveRecord(p)
    \/ ResolveLookup(p) \/ ResolveCreate(p) \/ ResolveRecord(p)
    \/ Reconcile(p) \/ Crash(p)

Next ==
    \/ \E i \in Intents : Api(i) \/ Cluster(i)
    \/ \E p \in Procs : Continue(p) \/ \E i \in Intents : Start(p, i)

Spec == Init /\ [][Next]_vars

-----------------------------------------------------------------------------
(* The columns of an intent; NONE stands for a row not inserted yet. *)
Rows ==
    [state : States \cup {"NONE"}, version : Nat,
     maker : Principals \cup {NoPrincipal},
     checker : Principals \cup {NoPrincipal}]

(* The operations a process can be in the middle of. *)
Calls ==
    [pc : {"lookPending", "lookPost", "lookVoid", "create", "record",
           "reconcile"},
     op : {"reserve", "post", "void", "observe", "resolve"},
     intent : Intents, version : Nat, seen : SUBSET Kinds]

TypeOK ==
    /\ row \in [Intents -> Rows]
    /\ outbox \in SUBSET [intent : Intents, state : States, version : Nat]
    /\ transfers \in [Intents -> SUBSET Kinds]
    /\ expired \in SUBSET Intents
    /\ inflight \in [Intents -> SUBSET Kinds]
    /\ call \in [Procs -> {Idle} \cup Calls]

(* A VOIDED intent never moves money: whatever races, late creates, expiry   *)
(* and crashes led there, the cluster holds no post transfer for it.         *)
VoidedNeverMoved ==
    \A i \in Intents : row[i].state = "VOIDED" => "post" \notin transfers[i]

(* A POSTED intent has its post transfer in the cluster and a RESERVED one   *)
(* its pending transfer: no recorded success is only believed.               *)
RecordedIsBacked ==
    \A i \in Intents :
       /\ row[i].state = "POSTED" => "post" \in transfers[i]
       /\ row[i].state = "RESERVED" => "pending" \in transfers[i]

(* While an officer looks at an AMBIGUOUS intent no post can have happened   *)
(* or be under way: the VOID disposition never erases a movement.            *)
AmbiguousNeverMoved ==
    \A i \in Intents :
       row[i].state = "AMBIGUOUS" =>
          /\ "post" \notin transfers[i] \cup inflight[i]
          /\ \A p \in Procs : ~(call[p].op = "post" /\ call[p].intent = i)

(* Nothing reaches the cluster before two distinct principals agreed.        *)
FourEyes ==
    \A i \in Intents :
       transfers[i] \cup inflight[i] # {} =>
          /\ row[i].maker \in Principals
          /\ row[i].checker \in Principals
          /\ row[i].checker # row[i].maker

(* Money moves only after the event log shows the reservation as recorded.   *)
MovedAfterReservedEvent ==
    \A i \in Intents :
       "post" \in transfers[i] =>
          \E e \in outbox : e.intent = i /\ e.state = "RESERVED"

(* The outcome the events announce is final: once POSTED or VOIDED is in the *)
(* outbox the row still says so, and no later version is ever written.       *)
OutcomeIsFinal ==
    \A e \in outbox :
       e.state \in {"POSTED", "VOIDED"} =>
          /\ row[e.intent].state = e.state
          /\ row[e.intent].version = e.version

-----------------------------------------------------------------------------
(* The row's states as a caller of the rail understands them. *)
StatusOf(state) ==
    CASE state = "NONE" -> "none"
      [] state = "DRAFT" -> "proposed"
      [] state = "POSTED" -> "settled"
      [] state = "VOIDED" -> "cancelled"
      [] OTHER -> "authorised"

Payment == INSTANCE ControlledPayment WITH
    Payments <- Intents,
    status <- [i \in Intents |-> StatusOf(row[i].state)],
    moved <- [i \in Intents |-> "post" \in transfers[i]],
    proposer <- [i \in Intents |-> row[i].maker],
    authoriser <- [i \in Intents |-> row[i].checker]

(* The stores, the processes and the cluster together implement a controlled *)
(* payment.                                                                  *)
ImplementsControlledPayment == Payment!Spec
=============================================================================
