--------------------------- MODULE OutboxPublisher ---------------------------
(***************************************************************************)
(* The outbox publishers (internal/outbox, cmd/outbox-publisher): each     *)
(* process reads a batch of unpublished rows table by table, publishes the *)
(* events one after another and marks each one published.  Any error ends  *)
(* the process; its supervisor starts it again.                            *)
(*                                                                         *)
(* The topic is kept as the events in the order in which the brokers first *)
(* accepted a copy of them.  The key of a message is its event id, so the  *)
(* events spread over the partitions: first copies in one partition are in *)
(* this order, between partitions there is none, and further copies of an  *)
(* event carry its key again.  A write whose sender got an error may still *)
(* be accepted later.                                                      *)
(***************************************************************************)
EXTENDS Naturals, Sequences

CONSTANTS
    Events,         \* event ids
    Table,          \* the index in tables of the event's outbox table
    Type,           \* its event_type
    Created,        \* its created_at
    BatchSize,      \* OUTBOX_BATCH_SIZE
    Publishers      \* running copies of cmd/outbox-publisher

tables == <<"financial_intent_outbox", "cvff_outbox", "revenue_outbox",
            "tf_outbox">>

ASSUME ConstantsAssumption ==
    /\ Table \in [Events -> 1..Len(tables)]
    /\ Created \in [Events -> Nat]
    /\ BatchSize \in Nat \ {0}

VARIABLES
    committed,  \* events whose transaction committed
    ahead,      \* history: older events of its table that committed before it
    published,  \* events with a published_at
    log,        \* the topic: accepted events, by their first acceptance
    inflight,   \* writes whose sender got an error, not yet decided
    publisher   \* per process: where it is, the table it reads, its batch

vars == <<committed, ahead, published, log, inflight, publisher>>

Range(s) == {s[n] : n \in DOMAIN s}

(* The event types that have an envelope; any other one is an error. *)
envelopeEventTypes ==
    {"financial_intent.created", "financial_intent.approved",
     "financial_intent.state_changed",
     "cvff.application.submitted", "cvff.underwriting_started",
     "cvff.decision.recorded", "cvff.sla_escalated", "cvff.disbursed",
     "cvff.audited", "cvff.reconciliation_required", "cvff.roles_assigned",
     "cvff.reconciliation_resolved",
     "revenue.debit_note.created", "revenue.debit_note.transitioned",
     "revenue.split_rule.created", "revenue.split_rule.activated",
     "revenue.remittance_advice.issued", "revenue.settlement.recorded",
     "revenue.statement.ingested", "revenue.recon.run_completed",
     "revenue.recon.exception_raised", "revenue.recon.exception_resolved",
     "tradefinance.consent.requested", "tradefinance.consent.activated",
     "tradefinance.consent.rejected",
     "tradefinance.consent.revocation_requested", "tradefinance.consent.revoked",
     "tradefinance.application.submitted",
     "tradefinance.application.decision_recorded",
     "tradefinance.application.disbursed", "tradefinance.application.settled"}

Older(f, e) == Table[f] = Table[e] /\ Created[f] < Created[e]

(* The transaction of an event's store commits.  Its created_at was taken     *)
(* before, and no check of a row's version holds for every event (escalation *)
(* and role events of CVFF, now() at the start of a revenue transaction), so  *)
(* an event may commit after younger ones.                                   *)
Commit(e) ==
    /\ e \notin committed
    /\ committed' = committed \cup {e}
    /\ ahead' = [ahead EXCEPT ![e] = {f \in committed : Older(f, e)}]
    /\ UNCHANGED <<published, log, inflight, publisher>>

-----------------------------------------------------------------------------
(* One process. *)

Stopped == [pc |-> "stopped", table |-> 1, batch |-> << >>]

Polling == [pc |-> "read", table |-> 1, batch |-> << >>]

Working(batch) == IF batch = << >> THEN Polling
                  ELSE [pc |-> "publish", table |-> 1, batch |-> batch]

Become(p, s) == publisher' = [publisher EXCEPT ![p] = s]

Start(p) ==
    /\ publisher[p].pc = "stopped"
    /\ Become(p, Polling)
    /\ UNCHANGED <<committed, ahead, published, log, inflight>>

(* A crash, a shutdown or an error of a query. *)
Exit(p) ==
    /\ publisher[p].pc # "stopped"
    /\ Become(p, Stopped)
    /\ UNCHANGED <<committed, ahead, published, log, inflight>>

Pending(k) == {e \in committed \ published : Table[e] = k}

(* Mutant: ORDER BY is missing. *)
SelectedUnordered(k, limit) ==
    {s \in UNION {[1..n -> Pending(k)] : n \in 0..limit} :
       /\ \A i, j \in DOMAIN s : s[i] = s[j] => i = j
       /\ \A e \in Pending(k) \ Range(s) : Len(s) = limit}

(* What ORDER BY created_at LIMIT limit selects from table k. *)
Selected(k, limit) ==
    {s \in UNION {[1..n -> Pending(k)] : n \in 0..limit} :
       /\ \A i, j \in DOMAIN s :
             i < j => s[i] # s[j] /\ Created[s[i]] <= Created[s[j]]
       /\ \A e \in Pending(k) \ Range(s) :
             Len(s) = limit /\ \A i \in DOMAIN s : Created[s[i]] <= Created[e]}

(* Mutant: the tables after an empty one are not read. *)
ReadTableUntilEmpty(p, k) ==
    /\ publisher[p].pc = "read"
    /\ publisher[p].table = k
    /\ \E s \in Selected(k, BatchSize - Len(publisher[p].batch)) :
          LET batch == publisher[p].batch \o s IN
          Become(p, IF Len(batch) = BatchSize \/ k = Len(tables) \/ s = << >>
                    THEN Working(batch)
                    ELSE [pc |-> "read", table |-> k + 1, batch |-> batch])
    /\ UNCHANGED <<committed, ahead, published, log, inflight>>

(* One query of Unpublished; the next table is read while the batch has room. *)
ReadTable(p, k) ==
    /\ publisher[p].pc = "read"
    /\ publisher[p].table = k
    /\ \E s \in Selected(k, BatchSize - Len(publisher[p].batch)) :
          LET batch == publisher[p].batch \o s IN
          Become(p, IF Len(batch) = BatchSize \/ k = Len(tables)
                    THEN Working(batch)
                    ELSE [pc |-> "read", table |-> k + 1, batch |-> batch])
    /\ UNCHANGED <<committed, ahead, published, log, inflight>>

(* The broker accepts a write. *)
Accept(e) == log' = IF e \in Range(log) THEN log ELSE Append(log, e)

(* Mutant: the broker's acknowledgement is not waited for. *)
PublishUnacknowledged(p) ==
    LET e == Head(publisher[p].batch) IN
    /\ publisher[p].pc = "publish"
    /\ Type[e] \in envelopeEventTypes
    /\ inflight' = inflight \cup {e}
    /\ Become(p, [pc |-> "mark", table |-> 1, batch |-> publisher[p].batch])
    /\ UNCHANGED <<committed, ahead, published, log>>

Publish(p) ==
    LET e == Head(publisher[p].batch) IN
    /\ publisher[p].pc = "publish"
    /\ Type[e] \in envelopeEventTypes
    /\ Accept(e)
    /\ Become(p, [pc |-> "mark", table |-> 1, batch |-> publisher[p].batch])
    /\ UNCHANGED <<committed, ahead, published, inflight>>

(* BuildEnvelope knows no envelope for the event type. *)
BuildEnvelopeError(p) ==
    /\ publisher[p].pc = "publish"
    /\ Type[Head(publisher[p].batch)] \notin envelopeEventTypes
    /\ Become(p, Stopped)
    /\ UNCHANGED <<committed, ahead, published, log, inflight>>

(* The write fails for its sender. *)
PublishError(p) ==
    LET e == Head(publisher[p].batch) IN
    /\ publisher[p].pc = "publish"
    /\ Type[e] \in envelopeEventTypes
    /\ \/ Accept(e) /\ UNCHANGED inflight
       \/ inflight' = inflight \cup {e} /\ UNCHANGED log
    /\ Become(p, Stopped)
    /\ UNCHANGED <<committed, ahead, published>>

Land(e) ==
    /\ e \in inflight
    /\ inflight' = inflight \ {e}
    /\ Accept(e)
    /\ UNCHANGED <<committed, ahead, published, publisher>>

MarkPublished(p) ==
    LET e == Head(publisher[p].batch) IN
    /\ publisher[p].pc = "mark"
    /\ e \notin published
    /\ published' = published \cup {e}
    /\ Become(p, Working(Tail(publisher[p].batch)))
    /\ UNCHANGED <<committed, ahead, log, inflight>>

(* Another process has marked the event: pgx.ErrNoRows. *)
MarkConflict(p) ==
    /\ publisher[p].pc = "mark"
    /\ Head(publisher[p].batch) \in published
    /\ Become(p, Stopped)
    /\ UNCHANGED <<committed, ahead, published, log, inflight>>

(* The update takes effect and its answer is lost. *)
MarkError(p) ==
    LET e == Head(publisher[p].batch) IN
    /\ publisher[p].pc = "mark"
    /\ published' = published \cup {e}
    /\ Become(p, Stopped)
    /\ UNCHANGED <<committed, ahead, log, inflight>>

-----------------------------------------------------------------------------
Init ==
    /\ committed = {} /\ ahead = [e \in Events |-> {}] /\ published = {}
    /\ log = << >> /\ inflight = {}
    /\ publisher = [p \in Publishers |-> Stopped]

Process(p) ==
    \/ Start(p) \/ Exit(p) \/ \E k \in 1..Len(tables) : ReadTable(p, k)
    \/ Publish(p) \/ PublishError(p) \/ BuildEnvelopeError(p)
    \/ MarkPublished(p) \/ MarkConflict(p) \/ MarkError(p)

Next ==
    \/ \E e \in Events : Commit(e) \/ Land(e)
    \/ \E p \in Publishers : Process(p)

Spec == Init /\ [][Next]_vars

(* A supervisor restarts the process, and neither PostgreSQL nor Kafka fails *)
(* every request of a kind forever.                                          *)
Fairness ==
    \A p \in Publishers :
       /\ WF_vars(Start(p) \/ BuildEnvelopeError(p) \/ MarkConflict(p))
       /\ \A k \in 1..Len(tables) : SF_vars(ReadTable(p, k))
       /\ SF_vars(Publish(p))
       /\ SF_vars(MarkPublished(p))

FairSpec == Spec /\ Fairness

-----------------------------------------------------------------------------
TypeOK ==
    /\ committed \in SUBSET Events
    /\ ahead \in [Events -> SUBSET Events]
    /\ published \in SUBSET Events
    /\ log \in Seq(Events)
    /\ inflight \in SUBSET Events
    /\ publisher \in
         [Publishers -> [pc : {"stopped", "read", "publish", "mark"},
                         table : 1..Len(tables), batch : Seq(Events)]]
    /\ \A p \in Publishers : Len(publisher[p].batch) <= BatchSize

(* Nothing is lost: an event is marked published only when the broker has    *)
(* accepted it, whichever process sent it and whatever answers were lost.    *)
MarkedWasAccepted == published \subseteq Range(log)

(* No event overtakes an older one of its table that was there before it: the *)
(* brokers accept the older one first, also when several processes drain the *)
(* same tables, crash between publish and mark, and late writes are accepted *)
(* (Unpublished reads in creation order, Drain stops at the first error).    *)
NoOvertaking ==
    \A n \in DOMAIN log :
       ahead[log[n]] \subseteq {log[m] : m \in 1..(n - 1)}

(* Every committed event that has an envelope is published and marked in the *)
(* end.                                                                      *)
EventsDrain ==
    \A e \in Events :
       Type[e] \in envelopeEventTypes => (e \in committed ~> e \in published)
=============================================================================
