----------------------- MODULE FinancialIntentProofs -----------------------
(***************************************************************************)
(* Proofs, for any number of intents, principals and processes, that the   *)
(* safety properties of FinancialIntent are invariants and that it         *)
(* implements ControlledPayment.                                           *)
(***************************************************************************)
EXTENDS FinancialIntent, TLAPS

(* No post transfer exists, is in flight or may still be asked for by a    *)
(* process, however old the version it works with.                         *)
NoPost(i) ==
    /\ "post" \notin transfers[i] \cup inflight[i]
    /\ \A p \in Procs : ~(call[p].op = "post" /\ call[p].intent = i)

DualControl(i) ==
    /\ row[i].maker \in Principals
    /\ row[i].checker \in Principals
    /\ row[i].checker # row[i].maker

ReservedEvent(i) == \E e \in outbox : e.intent = i /\ e.state = "RESERVED"

(* The cluster: post and void exclude each other and follow the pending.   *)
LedgerInv ==
    \A i \in Intents :
       /\ (transfers[i] \cup inflight[i]) \cap {"post", "void"} # {}
             => "pending" \in transfers[i]
       /\ ~({"post", "void"} \subseteq transfers[i])
       /\ transfers[i] \cup inflight[i] # {} => DualControl(i)
       /\ "post" \in transfers[i] \cup inflight[i] => ReservedEvent(i)

(* What each recorded state says about the cluster and the processes. *)
RowOK(i) ==
    /\ row[i].state = "NONE" => row[i] = Absent
    /\ row[i].state = "DRAFT" => row[i].maker \in Principals
    /\ row[i].state \notin {"NONE", "DRAFT", "VOIDED"} => DualControl(i)
    /\ row[i].state \in {"NONE", "DRAFT", "APPROVED"}
          => transfers[i] \cup inflight[i] = {}
    /\ row[i].state \in {"RESERVED", "POSTED"} => "pending" \in transfers[i]
    /\ row[i].state = "POSTED" => "post" \in transfers[i]
    /\ row[i].state = "AMBIGUOUS" => NoPost(i)
    /\ row[i].state = "VOIDED" => "void" \in transfers[i] \/ NoPost(i)

RowInv == \A i \in Intents : RowOK(i)

(* What a process in the middle of an operation may still rely on. *)
CallOn(c, i) ==
    /\ c.version <= row[i].version
    /\ c.seen \subseteq transfers[i]
    /\ DualControl(i)
    /\ row[i].state \notin {"NONE", "DRAFT", "APPROVED"}
    /\ c.op \in {"post", "void"} => "pending" \in transfers[i]
    /\ c.op = "post" => ReservedEvent(i)
    /\ c.op = "reserve" /\ c.pc = "record" => "pending" \in transfers[i]
    /\ c.op = "post" /\ c.pc = "record" => "post" \in transfers[i]
    /\ c.op = "void" /\ c.pc = "record" => "void" \in transfers[i]
    /\ c.op = "resolve" /\ c.pc = "create" => "pending" \in transfers[i]
    /\ c.version = row[i].version =>
          /\ c.op = "reserve" => row[i].state = "RESERVATION_REQUESTED"
          /\ c.op \in {"post", "void"} => row[i].state = "RESERVED"
          /\ c.op = "observe" => row[i].state = "RECONCILIATION_REQUIRED"
          /\ /\ c.op = "observe"
             /\ c.pc # "lookPending"
             /\ "pending" \notin c.seen
             => NoPost(i)

CallInv ==
    \A p \in Procs :
       \/ call[p] = Idle
       \/ CallOn(call[p], call[p].intent)

(* The outbox holds the event of every version, the current one included. *)
OutboxInv ==
    /\ \A i \in Intents :
          row[i].state # "NONE" =>
             [intent |-> i, state |-> row[i].state,
              version |-> row[i].version] \in outbox
    /\ \A e \in outbox :
          /\ e.version <= row[e.intent].version
          /\ e.version = row[e.intent].version => e.state = row[e.intent].state
    /\ OutcomeIsFinal

IndInv == LedgerInv /\ RowInv /\ CallInv /\ OutboxInv

-----------------------------------------------------------------------------
(* The row a transition writes: only the state and the version change. *)
LEMMA StepToRow ==
  ASSUME TypeOK, NEW i \in Intents, NEW next \in States
  PROVE  /\ StepTo(i, next) \in Rows
         /\ StepTo(i, next).state = next
         /\ StepTo(i, next).version = row[i].version + 1
         /\ StepTo(i, next).maker = row[i].maker
         /\ StepTo(i, next).checker = row[i].checker
<1>1. row[i] \in Rows
  BY DEF TypeOK
<1>2. QED BY <1>1 DEF StepTo, Rows

(* A write of a well-formed row keeps both tables well formed. *)
LEMMA WriteTyped ==
  ASSUME TypeOK, NEW i \in Intents, NEW new \in Rows, new.state # "NONE",
         Write(i, new)
  PROVE  /\ row' \in [Intents -> Rows]
         /\ outbox' \in SUBSET [intent : Intents, state : States, version : Nat]
<1>1. new.state \in States /\ new.version \in Nat
  BY DEF Rows
<1>2. QED BY <1>1 DEF Write, TypeOK

(* Every value stays in its type. *)
LEMMA TypeInvariant == Spec => []TypeOK
<1>1. Init => TypeOK
  BY DEF Init, TypeOK, Absent, Idle, Rows
<1>2. TypeOK /\ [Next]_vars => TypeOK'
  <2> SUFFICES ASSUME TypeOK, [Next]_vars PROVE TypeOK'
    OBVIOUS
  <2>1. CASE UNCHANGED vars
    BY <2>1 DEF vars, TypeOK
  <2>2. ASSUME NEW i \in Intents, Api(i) PROVE TypeOK'
    <3>1. ASSUME NEW u \in Principals, Create(i, u) PROVE TypeOK'
      <4>1. [state |-> "DRAFT", version |-> 1, maker |-> u,
             checker |-> NoPrincipal] \in Rows
        BY DEF Rows, States
      <4>2. QED BY <3>1, <4>1, WriteTyped DEF Create, TypeOK
    <3>2. ASSUME NEW u \in Principals, Approve(i, u) PROVE TypeOK'
      <4> DEFINE new == [state |-> "APPROVED", version |-> row[i].version + 1,
                         maker |-> row[i].maker, checker |-> u]
      <4>1. new \in Rows /\ new.state = "APPROVED"
        <5>1. row[i] \in Rows
          BY DEF TypeOK
        <5>2. QED BY <5>1 DEF Rows, States
      <4>2. QED BY <3>2, <4>1, WriteTyped DEF Approve, TypeOK
    <3>3. ASSUME NEW u \in Principals, VoidDraft(i, u) PROVE TypeOK'
      BY <3>3, StepToRow, WriteTyped DEF VoidDraft, TypeOK, States
    <3>4. CASE ResolveReconcile(i)
      BY <3>4, StepToRow, WriteTyped DEF ResolveReconcile, LedgerUnchanged,
           TypeOK, States
    <3>5. QED BY <2>2, <3>1, <3>2, <3>3, <3>4 DEF Api
  <2>3. ASSUME NEW i \in Intents, Cluster(i) PROVE TypeOK'
    BY <2>3 DEF Cluster, Expire, Land, Apply, TypeOK, Kinds
  <2>4. ASSUME NEW p \in Procs, NEW i \in Intents, Start(p, i) PROVE TypeOK'
    <3> USE DEF TypeOK, Rows, Calls, Begin, LedgerUnchanged, StoreUnchanged
    <3>1. CASE ReserveApproved(p, i)
      BY <3>1, StepToRow, WriteTyped DEF ReserveApproved, States
    <3>2. CASE PostReserved(p, i)
      BY <3>2 DEF PostReserved
    <3>3. CASE VoidReserved(p, i)
      BY <3>3 DEF VoidReserved
    <3>4. CASE ReconcileObserved(p, i)
      BY <3>4 DEF ReconcileObserved
    <3>5. ASSUME NEW v \in 1..row[i].version, ResolveVoid(p, i, v)
          PROVE  TypeOK'
      BY <3>5 DEF ResolveVoid
    <3>6. QED BY <2>4, <3>1, <3>2, <3>3, <3>4, <3>5 DEF Start
  <2>5. ASSUME NEW p \in Procs, Continue(p) PROVE TypeOK'
    <3>1. CASE call[p] = Idle
      BY <2>5, <3>1 DEF Continue, Idle, ReserveLookup, ReserveCreate,
           ReserveRecord, PostLookupVoid, PostLookupPost, PostCreate,
           PostRecord, VoidLookupPost, VoidLookupVoid, VoidCreate, VoidRecord,
           ObserveLookup, ObserveRecord, ResolveLookup, ResolveCreate,
           ResolveRecord, Reconcile, Crash, Record, At
    <3>2. CASE call[p] \in Calls
      <4>1. CASE ReserveLookup(p) \/ PostLookupVoid(p) \/ PostLookupPost(p)
                 \/ VoidLookupPost(p) \/ VoidLookupVoid(p)
        BY <4>1, <3>2 DEF ReserveLookup, PostLookupVoid, PostLookupPost,
             VoidLookupPost, VoidLookupVoid, Goto, StoreUnchanged,
             LedgerUnchanged, TypeOK, Calls
      <4>2. CASE ObserveLookup(p) \/ ResolveLookup(p) \/ Crash(p)
        BY <4>2, <3>2 DEF ObserveLookup, ResolveLookup, Crash, Goto, Note,
             Finish, StoreUnchanged, LedgerUnchanged, TypeOK, Calls, Kinds
      <4>3. CASE ReserveCreate(p) \/ PostCreate(p) \/ VoidCreate(p)
                 \/ ResolveCreate(p)
        BY <4>3, <3>2 DEF ReserveCreate, PostCreate, VoidCreate, ResolveCreate,
             CreateOk, CreateError, Apply, Goto, Finish, TypeOK, Calls, Kinds
      <4>4. ASSUME NEW op, NEW next \in States, Record(p, op, next)
            PROVE  TypeOK'
        <5>1. call[p].intent \in Intents /\ next # "NONE"
          BY <3>2 DEF Calls, States
        <5>2. CASE Write(call[p].intent, StepTo(call[p].intent, next))
          <6>1. /\ row' \in [Intents -> Rows]
                /\ outbox' \in SUBSET [intent : Intents, state : States,
                                       version : Nat]
            BY <5>1, <5>2, StepToRow, WriteTyped
          <6>2. QED BY <4>4, <3>2, <6>1 DEF Record, Goto, Finish,
                     LedgerUnchanged, StoreUnchanged, TypeOK, Calls
        <5>3. CASE StoreUnchanged
          BY <4>4, <3>2, <5>3 DEF Record, Goto, Finish, LedgerUnchanged,
               StoreUnchanged, TypeOK, Calls
        <5>4. QED BY <4>4, <5>2, <5>3 DEF Record
      <4>5. ASSUME NEW next \in States, next # "NONE", Finish(p), LedgerUnchanged,
                   \/ Write(call[p].intent, StepTo(call[p].intent, next))
                   \/ StoreUnchanged
            PROVE  TypeOK'
        <5>1. /\ row' \in [Intents -> Rows]
              /\ outbox' \in SUBSET [intent : Intents, state : States,
                                     version : Nat]
          <6>1. call[p].intent \in Intents
            BY <3>2 DEF Calls
          <6>2. CASE Write(call[p].intent, StepTo(call[p].intent, next))
            BY <4>5, <6>1, <6>2, StepToRow, WriteTyped
          <6>3. CASE StoreUnchanged
            BY <6>3 DEF StoreUnchanged, TypeOK
          <6> QED
            BY <4>5, <6>2, <6>3
        <5>2. QED BY <4>5, <5>1 DEF Finish, LedgerUnchanged, TypeOK
      <4>6. CASE ObserveRecord(p) \/ ResolveRecord(p) \/ Reconcile(p)
        <5>1. CASE ObserveRecord(p)
          <6>1. ObservedState(call[p].seen) \in States \ {"NONE"}
            BY DEF ObservedState, States
          <6>2. QED BY <4>5, <5>1, <6>1 DEF ObserveRecord
        <5>2. CASE ResolveRecord(p)
          <6>1. "VOIDED" \in States \ {"NONE"}
            BY DEF States
          <6>2. QED BY <4>5, <5>2, <6>1 DEF ResolveRecord
        <5>3. CASE Reconcile(p)
          <6>1. "RECONCILIATION_REQUIRED" \in States \ {"NONE"}
            BY DEF States
          <6>2. QED BY <4>5, <5>3, <6>1 DEF Reconcile
        <5>4. QED BY <4>6, <5>1, <5>2, <5>3
      <4>7. QED BY <2>5, <4>1, <4>2, <4>3, <4>4, <4>6 DEF Continue,
                   ReserveRecord, PostRecord, VoidRecord, States
    <3>3. QED BY <3>1, <3>2 DEF TypeOK
  <2>6. QED BY <2>1, <2>2, <2>3, <2>4, <2>5 DEF Next
<1>3. QED BY <1>1, <1>2, PTL DEF Spec

-----------------------------------------------------------------------------
(* A process may start working towards a post only where the intent is       *)
(* RESERVED; otherwise the calls of a step add no poster.                    *)
NoNewPoster(p) ==
    call'[p].op = "post" =>
       \/ call[p].op = "post" /\ call[p].intent = call'[p].intent
       \/ row[call'[p].intent].state = "RESERVED"

(* Only the call of p changes. *)
OnlyCall(p) == \A q \in Procs : q # p => call'[q] = call[q]

(* A step of a process that touches neither the store nor the cluster. *)
LEMMA CallStep ==
  ASSUME TypeOK, TypeOK', IndInv, NEW p \in Procs,
         StoreUnchanged, LedgerUnchanged, OnlyCall(p), NoNewPoster(p),
         call'[p] = Idle \/ CallOn(call'[p], call'[p].intent)
  PROVE  IndInv'
<1> USE DEF StoreUnchanged, LedgerUnchanged
<1>1. \A i \in Intents : NoPost(i) /\ row[i].state # "RESERVED" => NoPost(i)'
  BY DEF NoPost, OnlyCall, NoNewPoster, TypeOK, Calls, Idle
<1>2. LedgerInv' /\ OutboxInv'
  BY DEF IndInv, LedgerInv, OutboxInv, OutcomeIsFinal, DualControl, ReservedEvent
<1>3. RowInv'
  BY <1>1 DEF IndInv, RowInv, RowOK, DualControl
<1>4. CallInv'
  <2> SUFFICES ASSUME NEW q \in Procs, call'[q] # Idle
               PROVE  CallOn(call[q], call[q].intent)'
    BY DEF CallInv, Idle
  <2>1. CallOn(call'[q], call'[q].intent)
    BY DEF IndInv, CallInv, OnlyCall
  <2>2. call'[q].intent \in Intents
    BY DEF TypeOK, Calls
  <2>3. QED BY <1>1, <2>1, <2>2 DEF CallOn, DualControl, ReservedEvent
<1>5. QED BY <1>2, <1>3, <1>4 DEF IndInv

(* What a write of the state next must find in the cluster. *)
Backed(i, next) ==
    /\ next \in {"RESERVED", "POSTED"} => "pending" \in transfers[i]
    /\ next = "POSTED" => "post" \in transfers[i]
    /\ next = "AMBIGUOUS" => NoPost(i)
    /\ next = "VOIDED" => "void" \in transfers[i] \/ NoPost(i)
    /\ next # "VOIDED" => DualControl(i)

(* A transition of an intent, the cluster standing still: whoever worked     *)
(* with an older version can no longer write.                                *)
LEMMA TransitionStep ==
  ASSUME TypeOK, TypeOK', IndInv, NEW i \in Intents,
         NEW next \in States \ {"DRAFT", "APPROVED"},
         row[i].state \notin {"NONE", "POSTED", "VOIDED"},
         Write(i, StepTo(i, next)), Backed(i, next), LedgerUnchanged,
         \A q \in Procs :
            \/ call'[q] = call[q]
            \/ call'[q] = Idle
            \/ CallOn(call[q], call[q].intent)' /\ call'[q].op # "post"
            \/ /\ CallOn(call[q], call[q].intent)'
               /\ call[q].op = "post" /\ call[q].intent = call'[q].intent
  PROVE  IndInv'
<1> USE DEF LedgerUnchanged
<1>1. /\ row'[i].state = next
      /\ row'[i].version = row[i].version + 1
      /\ row'[i].maker = row[i].maker
      /\ row'[i].checker = row[i].checker
      /\ \A j \in Intents : j # i => row'[j] = row[j]
      /\ outbox' = outbox \cup {[intent |-> i, state |-> next,
                                 version |-> row[i].version + 1]}
  BY DEF Write, StepTo, TypeOK
<1>2. /\ row[i].version \in Nat
      /\ \A j \in Intents : NoPost(j) => NoPost(j)'
      /\ \A j \in Intents : DualControl(j) => DualControl(j)'
      /\ \A j \in Intents : ReservedEvent(j) => ReservedEvent(j)'
  <2>1. row[i].version \in Nat
    BY DEF TypeOK, Rows
  <2>2. \A j \in Intents : NoPost(j) => NoPost(j)'
    BY DEF NoPost, Idle
  <2>3. \A j \in Intents : DualControl(j) => DualControl(j)'
    BY <1>1 DEF DualControl
  <2>4. \A j \in Intents : ReservedEvent(j) => ReservedEvent(j)'
    BY <1>1 DEF ReservedEvent
  <2> QED
    BY <2>1, <2>2, <2>3, <2>4
<1>3. LedgerInv'
  BY <1>2 DEF IndInv, LedgerInv
<1>4. RowInv'
  <2> SUFFICES ASSUME NEW j \in Intents
               PROVE  RowOK(j)'
    BY DEF RowInv
  <2>1. CASE j = i
    BY <1>1, <1>2, <2>1 DEF RowOK, Backed, States
  <2>2. CASE j # i
    BY <1>1, <1>2, <2>2 DEF IndInv, RowInv, RowOK
  <2>3. QED BY <2>1, <2>2
<1>5. CallInv'
  <2> SUFFICES ASSUME NEW q \in Procs, call'[q] # Idle, call'[q] = call[q]
               PROVE  CallOn(call[q], call[q].intent)'
    BY DEF CallInv, Idle
  <2>1. /\ call[q] \in Calls
        /\ CallOn(call[q], call[q].intent)
    BY DEF IndInv, CallInv, TypeOK
  <2>2. CASE call[q].intent = i
    BY <1>1, <1>2, <2>1, <2>2 DEF CallOn, Calls, States
  <2>3. CASE call[q].intent # i
    BY <1>1, <1>2, <2>1, <2>3 DEF CallOn, Calls
  <2>4. QED BY <2>2, <2>3
<1>6. OutboxInv'
  <2>1. \A e \in outbox : e.intent \in Intents /\ e.version \in Nat
    BY DEF TypeOK
  <2>2. QED BY <1>1, <1>2, <2>1 DEF IndInv, OutboxInv, OutcomeIsFinal
<1>7. QED BY <1>3, <1>4, <1>5, <1>6 DEF IndInv

(* A step of the cluster at one intent: a transfer the cluster accepts is    *)
(* added, or a create is given up or decided.                                *)
LEMMA LedgerStep ==
  ASSUME TypeOK, TypeOK', IndInv, NEW i \in Intents, NEW kind \in Kinds,
         StoreUnchanged, UNCHANGED expired,
         UNCHANGED transfers \/ Apply(i, kind),
         \A j \in Intents : inflight'[j] \subseteq
            inflight[j] \cup (IF j = i THEN {kind} ELSE {}),
         kind = "post" => /\ ~NoPost(i)
                          /\ ReservedEvent(i),
         kind # "pending" => "pending" \in transfers[i],
         DualControl(i),
         row[i].state \notin {"NONE", "DRAFT", "APPROVED"},
         \A q \in Procs :
            \/ call'[q] = call[q]
            \/ call'[q] = Idle
            \/ /\ CallOn(call[q], call[q].intent)'
               /\ call'[q].op = call[q].op /\ call[q].intent = call'[q].intent
  PROVE  IndInv'
<1> USE DEF StoreUnchanged
<1>1. \A j \in Intents : /\ transfers[j] \subseteq transfers'[j]
                         /\ transfers'[j] \subseteq
                              transfers[j] \cup (IF j = i THEN {kind} ELSE {})
  BY DEF Apply, TypeOK
<1>2. \A j \in Intents : NoPost(j) => NoPost(j)'
  BY <1>1 DEF NoPost, Idle
<1>3. \A j \in Intents : /\ DualControl(j) <=> DualControl(j)'
                         /\ ReservedEvent(j) <=> ReservedEvent(j)'
  BY DEF DualControl, ReservedEvent
<1>4. LedgerInv'
  <2>1. ~({"post", "void"} \subseteq transfers'[i])
    BY DEF Apply, Accepts, Locked, IndInv, LedgerInv, TypeOK, Kinds
  <2>2. QED BY <1>1, <1>3, <2>1 DEF IndInv, LedgerInv, Kinds
<1>5. RowInv'
  BY <1>1, <1>2, <1>3 DEF IndInv, RowInv, RowOK
<1>6. CallInv'
  <2> SUFFICES ASSUME NEW q \in Procs, call'[q] # Idle, call'[q] = call[q]
               PROVE  CallOn(call[q], call[q].intent)'
    BY DEF CallInv, Idle
  <2>1. /\ call[q] \in Calls
        /\ CallOn(call[q], call[q].intent)
    BY DEF IndInv, CallInv, TypeOK
  <2>2. QED BY <1>1, <1>2, <1>3, <2>1 DEF CallOn, Calls
<1>7. OutboxInv'
  BY DEF IndInv, OutboxInv, OutcomeIsFinal
<1>8. QED BY <1>4, <1>5, <1>6, <1>7 DEF IndInv

-----------------------------------------------------------------------------
(* The store calls of the API: create, approve, void a draft, send back. *)
LEMMA ApiStep ==
  ASSUME TypeOK, TypeOK', IndInv, NEW i \in Intents, Api(i)
  PROVE  IndInv'
<1> USE DEF LedgerUnchanged
<1>1. RowOK(i) /\ row[i].state \in {"NONE", "DRAFT"} =>
         /\ transfers[i] = {} /\ inflight[i] = {}
         /\ \A p \in Procs : call[p].intent # i
  BY ConstantsAssumption DEF IndInv, CallInv, CallOn, RowOK, Idle
<1>2. CASE \E u \in Principals : Create(i, u) \/ Approve(i, u)
  <2> PICK u \in Principals : Create(i, u) \/ Approve(i, u)
    BY <1>2
  <2>1. /\ row[i].state \in {"NONE", "DRAFT"}
        /\ RowOK(i)
    BY DEF Create, Approve, Absent, IndInv, RowInv
  <2>2. /\ row'[i].state = "DRAFT" \/ row'[i].state = "APPROVED"
        /\ row'[i].version > row[i].version
        /\ row'[i].maker \in Principals
        /\ row'[i].state = "APPROVED" => DualControl(i)'
        /\ \A j \in Intents : j # i => row'[j] = row[j]
        /\ outbox' = outbox \cup {[intent |-> i, state |-> row'[i].state,
                                   version |-> row'[i].version]}
        /\ UNCHANGED <<transfers, expired, inflight, call>>
    BY <2>1 DEF Create, Approve, Write, TypeOK, Rows, Absent, DualControl, RowOK
  <2>3. /\ \A j \in Intents : NoPost(j) => NoPost(j)'
        /\ \A j \in Intents : j # i /\ DualControl(j) => DualControl(j)'
        /\ \A j \in Intents : ReservedEvent(j) => ReservedEvent(j)'
    BY <2>2 DEF NoPost, DualControl, ReservedEvent
  <2>4. LedgerInv'
    BY <1>1, <2>1, <2>2, <2>3 DEF IndInv, LedgerInv
  <2>5. RowInv'
    <3>1. RowOK(i)'
      BY <1>1, <2>1, <2>2 DEF RowOK
    <3>2. ASSUME NEW j \in Intents, j # i PROVE RowOK(j)'
      BY <2>2, <2>3, <3>2 DEF IndInv, RowInv, RowOK
    <3>3. QED BY <3>1, <3>2 DEF RowInv
  <2>6. CallInv'
    <3> SUFFICES ASSUME NEW q \in Procs, call[q] # Idle
                 PROVE  CallOn(call[q], call[q].intent)'
      BY <2>2 DEF CallInv, Idle
    <3>1. /\ CallOn(call[q], call[q].intent)
          /\ call[q].intent \in Intents
          /\ call[q].intent # i
      BY <1>1, <2>1 DEF IndInv, CallInv, TypeOK, Calls
    <3>2. QED BY <2>2, <2>3, <3>1 DEF CallOn
  <2>7. OutboxInv'
    <3>1. \A e \in outbox : e.intent \in Intents /\ e.version \in Nat
      BY DEF TypeOK
    <3>2. row[i].version \in Nat /\ row'[i].version \in Nat
      BY DEF TypeOK, Rows
    <3>3. QED BY <2>1, <2>2, <3>1, <3>2 DEF IndInv, OutboxInv, OutcomeIsFinal
  <2>8. QED BY <2>4, <2>5, <2>6, <2>7 DEF IndInv
<1>3. CASE \E u \in Principals : VoidDraft(i, u)
  <2>1. row[i].state = "DRAFT" /\ RowOK(i)
    BY <1>3 DEF VoidDraft, IndInv, RowInv
  <2>2. NoPost(i)
    BY <1>1, <2>1 DEF NoPost
  <2>3. Backed(i, "VOIDED")
    BY <2>2 DEF Backed
  <2>4. QED BY <1>3, <2>1, <2>3, TransitionStep DEF VoidDraft, States
<1>4. CASE ResolveReconcile(i)
  <2>1. row[i].state = "AMBIGUOUS" /\ RowOK(i)
    BY <1>4 DEF ResolveReconcile, IndInv, RowInv
  <2>2. Backed(i, "RECONCILIATION_REQUIRED")
    BY <2>1 DEF Backed, RowOK
  <2>3. QED BY <1>4, <2>1, <2>2, TransitionStep DEF ResolveReconcile, States
<1>5. QED BY <1>2, <1>3, <1>4 DEF Api, Create, Approve, VoidDraft

(* The cluster on its own: a reservation expires, a given-up create lands. *)
LEMMA ClusterStep ==
  ASSUME TypeOK, TypeOK', IndInv, NEW i \in Intents, Cluster(i)
  PROVE  IndInv'
<1>1. CASE Expire(i)
  BY <1>1 DEF Expire, IndInv, LedgerInv, RowInv, RowOK, CallInv, CallOn,
       OutboxInv, OutcomeIsFinal, NoPost, DualControl, ReservedEvent
<1>2. ASSUME NEW k \in Kinds, Land(i, k) PROVE IndInv'
  <2>1. k \in inflight[i]
    BY <1>2 DEF Land
  <2>2. /\ k = "post" => ~NoPost(i) /\ ReservedEvent(i)
        /\ k # "pending" => "pending" \in transfers[i]
        /\ DualControl(i)
    BY <2>1 DEF IndInv, LedgerInv, NoPost, Kinds
  <2>3. row[i].state \notin {"NONE", "DRAFT", "APPROVED"}
    BY <2>1 DEF IndInv, RowInv, RowOK
  <2>4. \A j \in Intents : inflight'[j] \subseteq inflight[j]
    BY <1>2 DEF Land, TypeOK
  <2>5. QED BY <1>2, <2>2, <2>3, <2>4, LedgerStep DEF Land, StoreUnchanged
<1>3. QED BY <1>1, <1>2 DEF Cluster

(* A process starts an operation. *)
LEMMA StartStep ==
  ASSUME TypeOK, TypeOK', IndInv, NEW p \in Procs, NEW i \in Intents,
         Start(p, i)
  PROVE  IndInv'
<1>1. RowOK(i) /\ row[i].version \in Nat
  BY DEF IndInv, RowInv, TypeOK, Rows
<1>2. CASE ReserveApproved(p, i)
  <2>1. row[i].state = "APPROVED" /\ DualControl(i)
    BY <1>1, <1>2 DEF ReserveApproved, CanTransition, ValidOperationalTransition,
         RowOK
  <2>2. Backed(i, "RESERVATION_REQUESTED")
    BY <2>1 DEF Backed
  <2>3. /\ call'[p] = [pc |-> "lookPending", op |-> "reserve", intent |-> i,
                       version |-> row[i].version + 1, seen |-> {}]
        /\ \A q \in Procs : q # p => call'[q] = call[q]
    BY <1>2 DEF ReserveApproved, Begin, TypeOK
  <2>4. /\ row'[i].state = "RESERVATION_REQUESTED"
        /\ row'[i].version = row[i].version + 1
        /\ DualControl(i)'
    BY <1>2, <2>1 DEF ReserveApproved, Write, StepTo, TypeOK, DualControl
  <2>5. CallOn(call[p], call[p].intent)'
    BY <1>1, <2>3, <2>4 DEF CallOn
  <2>6. QED BY <1>2, <2>1, <2>2, <2>3, <2>5, TransitionStep
          DEF ReserveApproved, States
<1>3. CASE PostReserved(p, i) \/ VoidReserved(p, i) \/ ReconcileObserved(p, i)
           \/ \E v \in 1..row[i].version : ResolveVoid(p, i, v)
  <2>1. /\ OnlyCall(p)
        /\ call'[p].intent = i
        /\ call'[p].version <= row[i].version
        /\ call'[p].seen = {}
        /\ \/ /\ call'[p].op = "post" /\ call'[p].pc = "lookVoid"
              /\ row[i].state = "RESERVED"
           \/ /\ call'[p].op = "void" /\ call'[p].pc = "lookPost"
              /\ row[i].state = "RESERVED"
           \/ /\ call'[p].op = "observe" /\ call'[p].pc = "lookPending"
              /\ row[i].state = "RECONCILIATION_REQUIRED"
           \/ /\ call'[p].op = "resolve" /\ call'[p].pc = "lookPost"
              /\ row[i].state = "AMBIGUOUS"
    BY <1>1, <1>3 DEF PostReserved, VoidReserved, ReconcileObserved, ResolveVoid,
         Begin, OnlyCall, TypeOK
  <2>2. row[i].state = "RESERVED" => ReservedEvent(i)
    BY DEF IndInv, OutboxInv, ReservedEvent
  <2>3. CallOn(call'[p], call'[p].intent)
    BY <1>1, <2>1, <2>2 DEF CallOn, RowOK
  <2>4. NoNewPoster(p)
    BY <2>1 DEF NoNewPoster
  <2>5. StoreUnchanged /\ LedgerUnchanged
    BY <1>3 DEF PostReserved, VoidReserved, ReconcileObserved, ResolveVoid
  <2>6. QED BY <2>1, <2>3, <2>4, <2>5, CallStep
<1>4. QED BY <1>2, <1>3 DEF Start

(* A lookup, a crash: the process moves on with what it learned. *)
LEMMA LookupStep ==
  ASSUME TypeOK, TypeOK', IndInv, NEW p \in Procs, call[p] # Idle,
         \/ ReserveLookup(p) \/ PostLookupVoid(p) \/ PostLookupPost(p)
         \/ VoidLookupPost(p) \/ VoidLookupVoid(p)
         \/ ObserveLookup(p) \/ ResolveLookup(p) \/ Crash(p)
  PROVE  IndInv'
<1> DEFINE c == call[p]
<1>1. c \in Calls /\ CallOn(c, c.intent) /\ LedgerInv
  BY DEF TypeOK, IndInv, CallInv
<1>2. StoreUnchanged /\ LedgerUnchanged /\ OnlyCall(p)
  BY DEF ReserveLookup, PostLookupVoid, PostLookupPost, VoidLookupPost,
       VoidLookupVoid, ObserveLookup, ResolveLookup, Crash, OnlyCall, Goto,
       Note, Finish, TypeOK
<1>3. /\ call'[p] # Idle =>
             call'[p].op = c.op /\ call'[p].intent = c.intent
      /\ call'[p] = Idle \/ CallOn(call'[p], call'[p].intent)
  <2>1. CASE \/ ReserveLookup(p) \/ PostLookupVoid(p) \/ PostLookupPost(p)
             \/ VoidLookupPost(p) \/ VoidLookupVoid(p)
    BY <1>1, <2>1 DEF ReserveLookup, PostLookupVoid, PostLookupPost,
         VoidLookupPost, VoidLookupVoid, Goto, At, Found, TypeOK, Calls, CallOn
  <2>2. CASE ObserveLookup(p)
    <3>1. "pending" \notin transfers[c.intent] => NoPost(c.intent)
      BY <1>1 DEF LedgerInv, NoPost, IndInv, CallInv, CallOn, Calls, Idle
    <3>2. QED BY <1>1, <2>2, <3>1 DEF ObserveLookup, Note, Finish, At, Found,
               TypeOK, Calls, CallOn
  <2>3. CASE ResolveLookup(p)
    BY <1>1, <2>3 DEF ResolveLookup, Goto, Note, Finish, At, Found, TypeOK,
         Calls, CallOn
  <2>4. CASE Crash(p)
    BY <2>4 DEF Crash, Finish, TypeOK
  <2>5. QED BY <2>1, <2>2, <2>3, <2>4
<1>4. NoNewPoster(p)
  BY <1>3 DEF NoNewPoster, Idle
<1>5. QED BY <1>2, <1>3, <1>4, CallStep

(* A create: Ok, or an error with any of its effects. *)
LEMMA CreateStep ==
  ASSUME TypeOK, TypeOK', IndInv, NEW p \in Procs, call[p] # Idle,
         \/ ReserveCreate(p) \/ PostCreate(p) \/ VoidCreate(p)
         \/ ResolveCreate(p)
  PROVE  IndInv'
<1> DEFINE c == call[p]
           i == c.intent
           kind == CASE c.op = "reserve" -> "pending"
                     [] c.op = "post" -> "post"
                     [] OTHER -> "void"
<1>1. c \in Calls /\ i \in Intents /\ CallOn(c, i) /\ kind \in Kinds
  BY DEF TypeOK, IndInv, CallInv, Calls, Kinds
<1>2. /\ c.pc = "create" /\ c.op # "observe"
      /\ \/ CreateOk(p, kind)
         \/ CreateError(p, kind) /\ (Goto(p, "reconcile") \/ Finish(p))
  BY DEF ReserveCreate, PostCreate, VoidCreate, ResolveCreate, At
<1>3. /\ StoreUnchanged /\ UNCHANGED expired
      /\ UNCHANGED transfers \/ Apply(i, kind)
      /\ \A j \in Intents : inflight'[j] \subseteq
            inflight[j] \cup (IF j = i THEN {kind} ELSE {})
  BY <1>1, <1>2 DEF CreateOk, CreateError, StoreUnchanged, TypeOK
<1>4. /\ kind = "post" => ~NoPost(i) /\ ReservedEvent(i)
      /\ kind # "pending" => "pending" \in transfers[i]
      /\ DualControl(i)
      /\ row[i].state \notin {"NONE", "DRAFT", "APPROVED"}
  BY <1>1, <1>2 DEF CallOn, NoPost, Calls
<1>5. \A q \in Procs : q # p => call'[q] = call[q]
  BY <1>2 DEF CreateOk, Goto, Finish, TypeOK
<1>6. /\ call'[p] # Idle => call'[p].op = c.op /\ call'[p].intent = c.intent
      /\ call'[p] = Idle \/ CallOn(call[p], call[p].intent)'
  <2>1. CASE call'[p] = Idle
    BY <2>1
  <2>2. CASE call'[p] # Idle
    <3>1. /\ call'[p].op = c.op /\ call'[p].intent = i
          /\ call'[p].version = c.version /\ call'[p].seen = c.seen
          /\ \/ call'[p].pc = "reconcile"
             \/ call'[p].pc = "record" /\ CreateOk(p, kind)
      BY <1>1, <1>2, <2>2 DEF CreateOk, Goto, Finish, TypeOK, Calls
    <3>2. /\ transfers[i] \subseteq transfers'[i]
          /\ CreateOk(p, kind) => kind \in transfers'[i]
      BY <1>1, <1>3 DEF CreateOk, Apply, TypeOK
    <3>3. \A j \in Intents : /\ DualControl(j)' <=> DualControl(j)
                             /\ ReservedEvent(j)' <=> ReservedEvent(j)
      BY <1>3 DEF StoreUnchanged, DualControl, ReservedEvent
    <3>4. CallOn(call[p], call[p].intent)'
      <4>1. /\ c.op = "reserve" => kind = "pending"
            /\ c.op = "post" => kind = "post"
            /\ c.op = "void" => kind = "void"
            /\ row'[i] = row[i]
        BY <1>3 DEF StoreUnchanged
      <4> HIDE DEF kind, i, c
      <4>2. CallOn(c, i) /\ c.op # "observe" /\ i \in Intents
        BY <1>1, <1>2
      <4>3. QED BY <3>1, <3>2, <3>3, <4>1, <4>2 DEF CallOn
    <3>5. QED BY <3>1, <3>4
  <2>3. QED BY <2>1, <2>2
<1> HIDE DEF kind, i, c
<1>7. \A q \in Procs :
         \/ call'[q] = call[q]
         \/ call'[q] = Idle
         \/ /\ CallOn(call[q], call[q].intent)'
            /\ call'[q].op = call[q].op /\ call[q].intent = call'[q].intent
  BY <1>5, <1>6 DEF c, i
<1>8. QED BY <1>1, <1>3, <1>4, <1>7, LedgerStep

(* The closing store call of an operation, and the parking of a failed one. *)
LEMMA RecordStep ==
  ASSUME TypeOK, TypeOK', IndInv, NEW p \in Procs, call[p] # Idle,
         \/ ReserveRecord(p) \/ PostRecord(p) \/ VoidRecord(p)
         \/ ObserveRecord(p) \/ ResolveRecord(p) \/ Reconcile(p)
  PROVE  IndInv'
<1> DEFINE c == call[p]
           i == c.intent
           next == IF c.pc = "reconcile" THEN "RECONCILIATION_REQUIRED"
                   ELSE CASE c.op = "reserve" -> "RESERVED"
                          [] c.op = "post" -> "POSTED"
                          [] c.op = "observe" -> ObservedState(c.seen)
                          [] OTHER -> "VOIDED"
<1>1. c \in Calls /\ i \in Intents /\ CallOn(c, i) /\ RowOK(i)
  BY DEF TypeOK, IndInv, CallInv, Calls, RowInv
<1>2. /\ LedgerUnchanged /\ OnlyCall(p)
      /\ call'[p] # Idle =>
            /\ call'[p].op = c.op /\ call'[p].intent = i
            /\ call'[p].version = c.version /\ call'[p].seen = c.seen
            /\ call'[p].pc = "reconcile" /\ c.op # "observe"
      /\ \/ StoreUnchanged
         \/ /\ Write(i, StepTo(i, next))
            /\ CanTransition(i, c.version, next)
            /\ c.op = "resolve" /\ c.pc = "record" => row[i].state = "AMBIGUOUS"
            /\ c.pc \in {"record", "reconcile"}
  <2>1. CASE Reconcile(p)
    BY <1>1, <2>1 DEF Reconcile, Finish, OnlyCall, TypeOK
  <2>2. CASE ObserveRecord(p) \/ ResolveRecord(p)
    BY <1>1, <2>2 DEF ObserveRecord, ResolveRecord, At, Finish, OnlyCall, TypeOK
  <2>3. ASSUME NEW op \in {"reserve", "post", "void"}, Record(p, op, next),
               c.op = op
        PROVE  <1>2
    <3>1. LedgerUnchanged /\ OnlyCall(p)
      BY <1>1, <2>3 DEF Record, Goto, Finish, OnlyCall, TypeOK
    <3>2. call'[p] # Idle =>
            /\ call'[p].op = c.op /\ call'[p].intent = i
            /\ call'[p].version = c.version /\ call'[p].seen = c.seen
            /\ call'[p].pc = "reconcile" /\ c.op # "observe"
      BY <1>1, <2>3 DEF Record, Goto, Finish, TypeOK, Calls
    <3>3. QED BY <2>3, <3>1, <3>2 DEF Record, At
  <2>4. CASE ReserveRecord(p) \/ PostRecord(p) \/ VoidRecord(p)
    BY <2>3, <2>4 DEF ReserveRecord, PostRecord, VoidRecord, Record, At
  <2>5. QED BY <2>1, <2>2, <2>4
<1>3. next \in States \ {"DRAFT", "APPROVED"}
  BY DEF ObservedState, States
<1>4. ASSUME StoreUnchanged PROVE IndInv'
  <2>1. call'[p] = Idle \/ CallOn(call'[p], call'[p].intent)
    BY <1>1, <1>2 DEF CallOn, Calls
  <2>2. NoNewPoster(p)
    BY <1>1, <1>2 DEF NoNewPoster, Idle, Calls
  <2>3. QED BY <1>2, <1>4, <2>1, <2>2, CallStep
<1>5. ASSUME Write(i, StepTo(i, next)), CanTransition(i, c.version, next),
             c.op = "resolve" /\ c.pc = "record" => row[i].state = "AMBIGUOUS",
             c.pc \in {"record", "reconcile"}
      PROVE  IndInv'
  <2>1. /\ c.version = row[i].version
        /\ row[i].state \notin {"NONE", "POSTED", "VOIDED"}
        /\ DualControl(i)
    BY <1>1, <1>5 DEF CanTransition, ValidOperationalTransition, CallOn
  <2>2. Backed(i, next)
    <3>1. ~({"post", "void"} \subseteq c.seen)
      BY <1>1 DEF IndInv, LedgerInv, CallOn
    <3>2. CASE c.pc = "reconcile"
      BY <2>1, <3>2 DEF Backed
    <3>3. CASE c.pc = "record" /\ c.op = "reserve"
      BY <1>1, <2>1, <3>3 DEF Backed, CallOn
    <3>4. CASE c.pc = "record" /\ c.op = "post"
      BY <1>1, <2>1, <3>4 DEF Backed, CallOn
    <3>5. CASE c.pc = "record" /\ c.op = "void"
      BY <1>1, <2>1, <3>5 DEF Backed, CallOn
    <3>6. CASE c.pc = "record" /\ c.op = "observe"
      <4>1. /\ next = "POSTED" => "post" \in c.seen
            /\ next = "VOIDED" => "void" \in c.seen
            /\ next = "RESERVED" => "pending" \in c.seen
            /\ next = "AMBIGUOUS" => "pending" \notin c.seen
        BY <1>1, <3>1, <3>6 DEF ObservedState, Calls, Kinds
      <4>2. "post" \in transfers[i] => "pending" \in transfers[i]
        BY <1>1 DEF IndInv, LedgerInv
      <4> HIDE DEF next
      <4>3. QED BY <1>1, <2>1, <3>6, <4>1, <4>2 DEF Backed, CallOn
    <3>7. CASE c.pc = "record" /\ c.op = "resolve"
      BY <1>1, <1>5, <3>7 DEF Backed, RowOK
    <3>8. QED BY <1>1, <1>5, <3>2, <3>3, <3>4, <3>5, <3>6, <3>7 DEF Calls
  <2>3. /\ row'[i].version = row[i].version + 1
        /\ row'[i].state = next
        /\ row'[i].maker = row[i].maker /\ row'[i].checker = row[i].checker
        /\ outbox \subseteq outbox'
    BY <1>1, <1>5 DEF Write, StepTo, TypeOK
  <2>4. call'[p] # Idle => /\ CallOn(call[p], call[p].intent)'
                           /\ call'[p].op = c.op /\ call'[p].intent = i
    <3> SUFFICES ASSUME call'[p] # Idle
                 PROVE  /\ CallOn(call[p], call[p].intent)'
                        /\ call'[p].op = c.op /\ call'[p].intent = i
      OBVIOUS
    <3>1. /\ call'[p].op = c.op /\ call'[p].intent = i
          /\ call'[p].version = c.version /\ call'[p].seen = c.seen
          /\ call'[p].pc = "reconcile"
      BY <1>1, <1>2 DEF Calls
    <3>2. row[i].version \in Nat /\ next \notin {"NONE", "DRAFT", "APPROVED"}
      BY <1>1, <1>3 DEF TypeOK, Rows, States
    <3>3. CallOn(c, i) /\ i \in Intents /\ transfers' = transfers
      BY <1>1, <1>2 DEF LedgerUnchanged
    <3> HIDE DEF next, i, c
    <3>4. CallOn(call[p], call[p].intent)'
      <4>1. DualControl(i) /\ (c.op = "post" => ReservedEvent(i))
        BY <3>3 DEF CallOn
      <4>2. /\ c.version <= row'[i].version
            /\ c.version # row'[i].version
            /\ row'[i].state \notin {"NONE", "DRAFT", "APPROVED"}
        BY <2>1, <2>3, <3>2
      <4>3. QED BY <2>3, <3>1, <3>3, <4>1, <4>2
                DEF CallOn, DualControl, ReservedEvent
    <3>5. QED BY <3>1, <3>4
  <2> HIDE DEF next, i
  <2>5. \A q \in Procs :
            \/ call'[q] = call[q]
            \/ call'[q] = Idle
            \/ CallOn(call[q], call[q].intent)' /\ call'[q].op # "post"
            \/ /\ CallOn(call[q], call[q].intent)'
               /\ call[q].op = "post" /\ call[q].intent = call'[q].intent
    BY <1>2, <2>4 DEF OnlyCall, i
  <2>6. QED BY <1>1, <1>2, <1>3, <1>5, <2>1, <2>2, <2>5, TransitionStep
<1>6. QED BY <1>2, <1>4, <1>5

(* The inductive invariant. *)
THEOREM Inductive == Spec => []IndInv
<1>1. Init => IndInv
  BY ConstantsAssumption DEF Init, IndInv, LedgerInv, RowInv, RowOK, CallInv,
       OutboxInv, OutcomeIsFinal, Absent
<1>2. TypeOK /\ TypeOK' /\ IndInv /\ [Next]_vars => IndInv'
  <2> SUFFICES ASSUME TypeOK, TypeOK', IndInv, [Next]_vars PROVE IndInv'
    OBVIOUS
  <2>1. CASE UNCHANGED vars
    BY <2>1 DEF vars, IndInv, LedgerInv, RowInv, RowOK, CallInv, CallOn,
         OutboxInv, OutcomeIsFinal, NoPost, DualControl, ReservedEvent
  <2>2. ASSUME NEW i \in Intents, Api(i) \/ Cluster(i) PROVE IndInv'
    BY <2>2, ApiStep, ClusterStep
  <2>3. ASSUME NEW p \in Procs, NEW i \in Intents, Start(p, i) PROVE IndInv'
    BY <2>3, StartStep
  <2>4. ASSUME NEW p \in Procs, Continue(p) PROVE IndInv'
    <3>1. call[p] # Idle
      BY <2>4 DEF Continue, Idle, ReserveLookup, ReserveCreate,
           ReserveRecord, PostLookupVoid, PostLookupPost, PostCreate,
           PostRecord, VoidLookupPost, VoidLookupVoid, VoidCreate, VoidRecord,
           ObserveLookup, ObserveRecord, ResolveLookup, ResolveCreate,
           ResolveRecord, Reconcile, Crash, Record, At
    <3>2. QED BY <2>4, <3>1, LookupStep, CreateStep, RecordStep DEF Continue
  <2>5. QED BY <2>1, <2>2, <2>3, <2>4 DEF Next
<1>3. QED BY <1>1, <1>2, TypeInvariant, PTL DEF Spec

-----------------------------------------------------------------------------
(* Every value stays in its type (intent/model.go, the ledger's ids). *)
THEOREM TypeCorrect == Spec => []TypeOK
  BY TypeInvariant

(* No post transfer ever exists for an intent recorded VOIDED, whether by    *)
(* the maker, VoidReserved, ReconcileObserved or an officer.                 *)
THEOREM VoidedStaysUnmoved == Spec => []VoidedNeverMoved
<1>1. IndInv => VoidedNeverMoved
  BY DEF IndInv, LedgerInv, RowInv, RowOK, NoPost, VoidedNeverMoved
<1>2. QED BY <1>1, Inductive, PTL

(* POSTED and RESERVED are recorded only over the transfers they announce. *)
THEOREM RecordedStatesBacked == Spec => []RecordedIsBacked
<1>1. IndInv => RecordedIsBacked
  BY DEF IndInv, RowInv, RowOK, RecordedIsBacked
<1>2. QED BY <1>1, Inductive, PTL

(* No post exists, is in flight or is being attempted for an AMBIGUOUS       *)
(* intent, so Resolver.ResolveAmbiguous never voids a movement.              *)
THEOREM AmbiguousStaysUnmoved == Spec => []AmbiguousNeverMoved
<1>1. IndInv => AmbiguousNeverMoved
  BY DEF IndInv, RowInv, RowOK, NoPost, AmbiguousNeverMoved
<1>2. QED BY <1>1, Inductive, PTL

(* The cluster hears of an intent only after two distinct principals agreed. *)
THEOREM FourEyesAlways == Spec => []FourEyes
<1>1. IndInv => FourEyes
  BY DEF IndInv, LedgerInv, DualControl, FourEyes
<1>2. QED BY <1>1, Inductive, PTL

(* The money moves only after the RESERVED event is in the outbox. *)
THEOREM MovementIsAnnounced == Spec => []MovedAfterReservedEvent
<1>1. IndInv => MovedAfterReservedEvent
  BY DEF IndInv, LedgerInv, ReservedEvent, MovedAfterReservedEvent
<1>2. QED BY <1>1, Inductive, PTL

(* A POSTED or VOIDED event is the last one of its intent. *)
THEOREM OutcomesAreFinal == Spec => []OutcomeIsFinal
<1>1. IndInv => OutcomeIsFinal
  BY DEF IndInv, OutboxInv
<1>2. QED BY <1>1, Inductive, PTL

-----------------------------------------------------------------------------
(* What a step can do to the row and the transfers, seen from outside: at    *)
(* most one transfer is decided, or one legal transition is recorded.        *)
LedgerOnly == row' = row /\ (transfers' = transfers
                             \/ \E i \in Intents, k \in Kinds : Apply(i, k))

Transition(i, next) ==
    /\ ValidOperationalTransition(row[i].state, next)
    /\ Write(i, StepTo(i, next))
    /\ transfers' = transfers

(* Every step only touches the ledger, records one transition, or is the     *)
(* creation or the approval of an intent.                                    *)
LEMMA StepShape ==
  ASSUME TypeOK, [Next]_vars
  PROVE  \/ LedgerOnly
         \/ \E i \in Intents, next \in States : Transition(i, next)
         \/ \E i \in Intents, u \in Principals : Create(i, u) \/ Approve(i, u)
<1>1. CASE UNCHANGED vars
  BY <1>1 DEF vars, LedgerOnly
<1>2. ASSUME NEW i \in Intents, Api(i) \/ Cluster(i)
      PROVE  \/ LedgerOnly
             \/ \E next \in States : Transition(i, next)
             \/ \E u \in Principals : Create(i, u) \/ Approve(i, u)
  <2>1. CASE Cluster(i)
    BY <2>1 DEF Cluster, Expire, Land, LedgerOnly
  <2>2. CASE \E u \in Principals : Create(i, u) \/ Approve(i, u)
    BY <2>2
  <2>3. CASE \E u \in Principals : VoidDraft(i, u)
    BY <2>3 DEF VoidDraft, Transition, ValidOperationalTransition, States
  <2>4. CASE ResolveReconcile(i)
    BY <2>4 DEF ResolveReconcile, Transition, ValidOperationalTransition, States,
         LedgerUnchanged
  <2>5. QED BY <1>2, <2>1, <2>2, <2>3, <2>4 DEF Api
<1>3. ASSUME NEW p \in Procs, NEW i \in Intents, Start(p, i)
      PROVE  LedgerOnly \/ \E next \in States : Transition(i, next)
  BY <1>3 DEF Start, ReserveApproved, PostReserved, VoidReserved,
       ReconcileObserved, ResolveVoid, CanTransition, Transition, States,
       LedgerUnchanged, StoreUnchanged, LedgerOnly
<1>4. ASSUME NEW p \in Procs, Continue(p)
      PROVE  \/ LedgerOnly
             \/ \E i \in Intents, next \in States : Transition(i, next)
  <2>1. call[p] # Idle
    BY <1>4 DEF Continue, Idle, ReserveLookup, ReserveCreate,
         ReserveRecord, PostLookupVoid, PostLookupPost, PostCreate,
         PostRecord, VoidLookupPost, VoidLookupVoid, VoidCreate, VoidRecord,
         ObserveLookup, ObserveRecord, ResolveLookup, ResolveCreate,
         ResolveRecord, Reconcile, Crash, Record, At
  <2>2. call[p].intent \in Intents
    BY <2>1 DEF TypeOK, Calls
  <2>3. CASE \/ ReserveLookup(p) \/ PostLookupVoid(p) \/ PostLookupPost(p)
             \/ VoidLookupPost(p) \/ VoidLookupVoid(p)
             \/ ObserveLookup(p) \/ ResolveLookup(p) \/ Crash(p)
    BY <2>3 DEF ReserveLookup, PostLookupVoid, PostLookupPost, VoidLookupPost,
         VoidLookupVoid, ObserveLookup, ResolveLookup, Crash, StoreUnchanged,
         LedgerUnchanged, LedgerOnly
  <2>4. CASE ReserveCreate(p) \/ PostCreate(p) \/ VoidCreate(p)
             \/ ResolveCreate(p)
    BY <2>2, <2>4 DEF ReserveCreate, PostCreate, VoidCreate, ResolveCreate,
         CreateOk, CreateError, LedgerOnly, Kinds
  <2>5. CASE \/ ReserveRecord(p) \/ PostRecord(p) \/ VoidRecord(p)
             \/ ObserveRecord(p) \/ ResolveRecord(p) \/ Reconcile(p)
    <3>1. ObservedState(call[p].seen) \in States
      BY DEF ObservedState, States
    <3>2. QED BY <2>2, <2>5, <3>1 DEF ReserveRecord, PostRecord, VoidRecord,
               ObserveRecord, ResolveRecord, Reconcile, Record, CanTransition,
               Transition, StoreUnchanged, LedgerUnchanged, LedgerOnly, States
  <2>6. QED BY <1>4, <2>3, <2>4, <2>5 DEF Continue
<1>5. QED BY <1>1, <1>2, <1>3, <1>4 DEF Next

(* Intents, orchestrators, resolver and cluster implement the controlled     *)
(* payment of ControlledPayment.                                             *)
THEOREM Refinement == Spec => ImplementsControlledPayment
<1>1. Init => Payment!Init
  <2> SUFFICES ASSUME Init PROVE Payment!Init
    OBVIOUS
  <2>1. \A i \in Intents : /\ StatusOf(row[i].state) = "none"
                           /\ row[i].maker = NoPrincipal
                           /\ row[i].checker = NoPrincipal
    BY DEF Init, StatusOf, Absent
  <2>2. \A i \in Intents : ("post" \in transfers[i]) = FALSE
    BY DEF Init
  <2>3. [i \in Intents |-> "post" \in transfers[i]] = [i \in Intents |-> FALSE]
    BY <2>2, Zenon
  <2>4. QED BY <2>1, <2>3 DEF Payment!Init
<1>2. ASSUME TypeOK, TypeOK', IndInv, IndInv', [Next]_vars
      PROVE  [Payment!Next]_<<[i \in Intents |-> StatusOf(row[i].state)],
                              [i \in Intents |-> "post" \in transfers[i]],
                              [i \in Intents |-> row[i].maker],
                              [i \in Intents |-> row[i].checker]>>
  <2>1. \A i \in Intents :
           /\ row[i].state = "VOIDED" => "post" \notin transfers[i]
           /\ row'[i].state = "VOIDED" => "post" \notin transfers'[i]
           /\ row'[i].state = "POSTED" => "post" \in transfers'[i]
           /\ row[i].state = "POSTED" => "post" \in transfers[i]
           /\ row'[i].state \in {"NONE", "DRAFT"} => "post" \notin transfers'[i]
    BY <1>2 DEF IndInv, LedgerInv, RowInv, RowOK, NoPost
  <2>2. CASE LedgerOnly
    <3>1. CASE \A i \in Intents : "post" \in transfers'[i] <=>
                                  "post" \in transfers[i]
      BY <2>2, <3>1 DEF LedgerOnly
    <3>2. ASSUME NEW i \in Intents, ~("post" \in transfers'[i] <=>
                                     "post" \in transfers[i])
          PROVE  Payment!Next
      <4>1. /\ "post" \in transfers'[i] /\ "post" \notin transfers[i]
            /\ \A j \in Intents : j # i => transfers'[j] = transfers[j]
        BY <1>2, <2>2, <3>2 DEF LedgerOnly, Apply, TypeOK
      <4>2. StatusOf(row[i].state) = "authorised"
        BY <2>1, <2>2, <4>1 DEF LedgerOnly, StatusOf
      <4>3. Payment!Move(i)
        BY <2>2, <4>1, <4>2 DEF Payment!Move, LedgerOnly
      <4>4. QED BY <4>3 DEF Payment!Next
    <3>3. QED BY <3>1, <3>2
  <2>3. ASSUME NEW i \in Intents, NEW next \in States, Transition(i, next)
        PROVE  \/ Payment!Settle(i) \/ Payment!Cancel(i)
               \/ UNCHANGED <<[j \in Intents |-> StatusOf(row[j].state)],
                              [j \in Intents |-> "post" \in transfers[j]],
                              [j \in Intents |-> row[j].maker],
                              [j \in Intents |-> row[j].checker]>>
    <3>1. /\ row'[i].state = next
          /\ \A j \in Intents : /\ row'[j].maker = row[j].maker
                                /\ row'[j].checker = row[j].checker
                                /\ j # i => row'[j].state = row[j].state
          /\ transfers' = transfers
      BY <1>2, <2>3 DEF Transition, Write, StepTo, TypeOK
    <3>2. CASE next = "POSTED"
      <4>1. /\ StatusOf(row[i].state) = "authorised"
            /\ StatusOf(row'[i].state) = "settled"
            /\ "post" \in transfers[i]
        BY <2>1, <2>3, <3>1, <3>2 DEF Transition, ValidOperationalTransition,
             StatusOf
      <4>2. QED BY <3>1, <4>1 DEF Payment!Settle
    <3>3. CASE next = "VOIDED"
      <4>1. /\ StatusOf(row[i].state) \in {"proposed", "authorised"}
            /\ StatusOf(row'[i].state) = "cancelled"
            /\ "post" \notin transfers[i]
        BY <2>1, <2>3, <3>1, <3>3 DEF Transition, ValidOperationalTransition,
             StatusOf
      <4>2. QED BY <3>1, <4>1 DEF Payment!Cancel
    <3>4. CASE next \notin {"POSTED", "VOIDED"}
      <4>1. StatusOf(row'[i].state) = StatusOf(row[i].state)
        BY <2>3, <3>1, <3>4 DEF Transition, ValidOperationalTransition, StatusOf
      <4>2. QED BY <3>1, <4>1
    <3>5. QED BY <3>2, <3>3, <3>4
  <2>4. ASSUME NEW i \in Intents, NEW u \in Principals,
               Create(i, u) \/ Approve(i, u)
        PROVE  Payment!Propose(i, u) \/ Payment!Authorise(i, u)
    <3>1. CASE Create(i, u)
      <4>1. /\ StatusOf(row[i].state) = "none" /\ row[i] = Absent
            /\ StatusOf(row'[i].state) = "proposed"
            /\ row'[i].maker = u /\ row'[i].checker = row[i].checker
            /\ \A j \in Intents : j # i => row'[j] = row[j]
            /\ transfers' = transfers
        BY <1>2, <3>1 DEF Create, Write, TypeOK, StatusOf, Absent
      <4>2. QED BY <4>1 DEF Payment!Propose
    <3>2. CASE Approve(i, u)
      <4>1. /\ StatusOf(row[i].state) = "proposed"
            /\ StatusOf(row'[i].state) = "authorised"
            /\ row'[i].maker = row[i].maker /\ row'[i].checker = u
            /\ u # row[i].maker
            /\ \A j \in Intents : j # i => row'[j] = row[j]
            /\ transfers' = transfers
        BY <1>2, <3>2 DEF Approve, Write, TypeOK, StatusOf
      <4>2. QED BY <4>1 DEF Payment!Authorise
    <3>3. QED BY <2>4, <3>1, <3>2
  <2>5. QED BY <1>2, <2>2, <2>3, <2>4, StepShape DEF Payment!Next
<1>3. QED BY <1>1, <1>2, TypeInvariant, Inductive, PTL
        DEF Spec, ImplementsControlledPayment, Payment!Spec
=============================================================================
