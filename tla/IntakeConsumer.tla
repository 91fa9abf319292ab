--------------------------- MODULE IntakeConsumer ---------------------------
(***************************************************************************)
(* The signed-event consumers (internal/revenueintake and                  *)
(* internal/stampsintake): processes that read topics in a consumer group, *)
(* verify each message, land its event in PostgreSQL once and then commit  *)
(* the offset.  revenueintake reads one topic, stampsintake several, one   *)
(* reader to a topic.  The first failure of a reader stops its process.    *)
(***************************************************************************)
EXTENDS Naturals, Sequences, Functions

CONSTANTS
    Processes,      \* the members of the consumer group
    Partitions,     \* the partitions of the topics
    TopicOf,        \* the topic of each partition
    Events,         \* event ids
    MaxMessages     \* bound on the messages of the topics

ASSUME IntakeAssumption ==
    /\ MaxMessages \in Nat
    /\ TopicOf = [q \in Partitions |-> TopicOf[q]]

VARIABLES
    log,            \* Kafka: the messages of each partition
    committed,      \* Kafka: the group's offset, per partition
    owner,          \* Kafka: the reader a partition is assigned to
    position,       \* the next offset its owner fetches
    landed,         \* the intake table by event id
    reader          \* what each reader is doing

intakeVars == <<log, committed, owner, position, landed, reader>>

Topics == {TopicOf[q] : q \in Partitions}

Readers == Processes \X Topics

NoReader == << >>

(* What VerifyAndParse and the insert make of a message.  The row of an      *)
(* unmapped one carries a mapping error.  Rejected: the signature, the key,  *)
(* the envelope or the topic is wrong.  Unstorable: signed, and yet refused  *)
(* by a column of the table.                                                 *)
Mappings == {"mapped", "unmapped"}

Refusals == {"rejected", "unstorable"}

MessageKinds == Mappings \cup Refusals

Verifies(m) == m.kind # "rejected"

Idle == [pc |-> "idle", partition |-> NoReader, offset |-> 0]

Stopped == [pc |-> "stopped", partition |-> NoReader, offset |-> 0]

Holding(pc, q, i) == [pc |-> pc, partition |-> q, offset |-> i]

(* The message a reader holds: offsets count from 0, sequences from 1. *)
Message(r) == log[reader[r].partition][reader[r].offset + 1]

-----------------------------------------------------------------------------
(* Kafka. *)

Produce(q, e, kind) ==
    /\ SumFunction([k \in Partitions |-> Len(log[k])]) < MaxMessages
    /\ log' = [log EXCEPT ![q] = Append(@, [event |-> e, kind |-> kind])]
    /\ UNCHANGED <<committed, owner, position, landed, reader>>

(* A rebalance.  The former owner keeps the message it was handed. *)
Assign(q, r) ==
    /\ reader[r].pc # "stopped" /\ r[2] = TopicOf[q]
    /\ owner' = [owner EXCEPT ![q] = r]
    /\ position' = [position EXCEPT ![q] = committed[q]]
    /\ UNCHANGED <<log, committed, landed, reader>>

-----------------------------------------------------------------------------
(* One reader's loop. *)

ReaderGoes(r, state) == reader' = [reader EXCEPT ![r] = state]

FetchMessage(r, q) ==
    /\ reader[r].pc = "idle" /\ owner[q] = r
    /\ position[q] < Len(log[q])
    /\ ReaderGoes(r, Holding("process", q, position[q]))
    /\ position' = [position EXCEPT ![q] = @ + 1]
    /\ UNCHANGED <<log, committed, owner, landed>>

(* FetchMessage fails, or returns because the failure of another reader of    *)
(* the process or a signal cancelled the context.                            *)
FetchFails(r) ==
    /\ reader[r].pc = "idle"
    /\ ReaderGoes(r, Stopped)
    /\ UNCHANGED <<log, committed, owner, position, landed>>

(* Mutant: a message that does not verify is left behind. *)
SkipMessage(r) ==
    /\ reader[r].pc = "process" /\ ~ Verifies(Message(r))
    /\ ReaderGoes(r, [reader[r] EXCEPT !.pc = "commit"])
    /\ UNCHANGED <<log, committed, owner, position, landed>>

RejectMessage(r) ==
    /\ reader[r].pc = "process" /\ ~ Verifies(Message(r))
    /\ ReaderGoes(r, Stopped)
    /\ UNCHANGED <<log, committed, owner, position, landed>>

(* ON CONFLICT (event_id) DO NOTHING. *)
Land(m) ==
    landed' = [landed EXCEPT ![m.event] = IF @ = "none" THEN m.kind ELSE @]

RecordEvent(r) ==
    /\ reader[r].pc = "process" /\ Message(r).kind \in Mappings
    /\ Land(Message(r))
    /\ ReaderGoes(r, [reader[r] EXCEPT !.pc = "commit"])
    /\ UNCHANGED <<log, committed, owner, position>>

(* The insert is refused, fails, or is done and its answer lost. *)
RecordFails(r) ==
    /\ reader[r].pc = "process" /\ Verifies(Message(r))
    /\ \/ UNCHANGED landed
       \/ Message(r).kind \in Mappings /\ Land(Message(r))
    /\ ReaderGoes(r, Stopped)
    /\ UNCHANGED <<log, committed, owner, position>>

CommitOffset(r) ==
    committed' = [committed EXCEPT ![reader[r].partition] =
                    reader[r].offset + 1]

(* The group takes the offset of a partition that is another reader's by     *)
(* now, and one that is behind.                                              *)
CommitMessages(r) ==
    /\ reader[r].pc = "commit"
    /\ CommitOffset(r)
    /\ ReaderGoes(r, Idle)
    /\ UNCHANGED <<log, owner, position, landed>>

CommitFails(r) ==
    /\ reader[r].pc = "commit"
    /\ UNCHANGED committed \/ CommitOffset(r)
    /\ ReaderGoes(r, Stopped)
    /\ UNCHANGED <<log, owner, position, landed>>

-----------------------------------------------------------------------------
(* A process. *)

Crash(p) ==
    /\ \E t \in Topics : reader[<<p, t>>].pc # "stopped"
    /\ reader' = [r \in Readers |-> IF r[1] = p THEN Stopped ELSE reader[r]]
    /\ UNCHANGED <<log, committed, owner, position, landed>>

(* Run returns when its last reader has: the process is started again and    *)
(* joins the group anew.                                                     *)
Restart(p) ==
    /\ \A t \in Topics : reader[<<p, t>>].pc = "stopped"
    /\ reader' = [r \in Readers |-> IF r[1] = p THEN Idle ELSE reader[r]]
    /\ owner' = [q \in Partitions |->
                   IF owner[q] # NoReader /\ owner[q][1] = p
                   THEN NoReader ELSE owner[q]]
    /\ UNCHANGED <<log, committed, position, landed>>

-----------------------------------------------------------------------------
IntakeInit ==
    /\ log = [q \in Partitions |-> << >>]
    /\ committed = [q \in Partitions |-> 0]
    /\ owner = [q \in Partitions |-> NoReader]
    /\ position = [q \in Partitions |-> 0]
    /\ landed = [e \in Events |-> "none"]
    /\ reader = [r \in Readers |-> Idle]

Reads(r) ==
    \/ \E q \in Partitions : Assign(q, r) \/ FetchMessage(r, q)
    \/ FetchFails(r) \/ RejectMessage(r)
    \/ RecordEvent(r) \/ RecordFails(r)
    \/ CommitMessages(r) \/ CommitFails(r)

IntakeNext ==
    \/ \E q \in Partitions, e \in Events, kind \in MessageKinds :
          Produce(q, e, kind)
    \/ \E r \in Readers : Reads(r)
    \/ \E p \in Processes : Crash(p) \/ Restart(p)

IntakeSpec == IntakeInit /\ [][IntakeNext]_intakeVars

-----------------------------------------------------------------------------
IntakeTypeOK ==
    /\ log \in [Partitions -> Seq([event : Events, kind : MessageKinds])]
    /\ committed \in [Partitions -> Nat]
    /\ owner \in [Partitions -> Readers \cup {NoReader}]
    /\ position \in [Partitions -> Nat]
    /\ landed \in [Events -> Mappings \cup {"none"}]
    /\ reader \in [Readers ->
                     [pc : {"idle", "process", "commit", "stopped"},
                      partition : Partitions \cup {NoReader}, offset : Nat]]

(* The group's offset never passes a message whose event has not landed, and *)
(* what has landed was signed and is in the log, through rebalances that     *)
(* leave two readers with one message, commits for a partition that is       *)
(* another's by now, crashes and lost answers (runTopic, process,            *)
(* RecordEvent, RecordAssessment).                                           *)
OffsetsFollowEvents ==
    /\ \A q \in Partitions :
          /\ committed[q] <= Len(log[q])
          /\ \A i \in 1..committed[q] : landed[log[q][i].event] # "none"
    /\ \A e \in Events :
          landed[e] # "none" =>
             \E q \in Partitions : \E i \in DOMAIN log[q] :
                log[q][i] = [event |-> e, kind |-> landed[e]]
=============================================================================
