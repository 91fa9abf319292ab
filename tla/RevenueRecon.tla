---------------------------- MODULE RevenueRecon ----------------------------
(***************************************************************************)
(* Revenue assurance (internal/revenue): debit notes and their life cycle, *)
(* settlement records, bank statement lines, intake assessments, and the   *)
(* three-way reconciliation runs that match them and queue what does not   *)
(* match.                                                                  *)
(*                                                                         *)
(* A note is named by its idempotency key and an amount carries its        *)
(* currency: a note is billed in both, and its amount stands for the one   *)
(* in the currency of the settlement it is compared with.  A statement has *)
(* one line and there is one bank, so a line is named by its reference.    *)
(***************************************************************************)
EXTENDS Integers, Sequences, FiniteSets

CONSTANTS
    Notes, Intakes, Officers, Runs,
    References,         \* bank references
    Amounts,
    Payments,           \* the settlements that may be recorded
    StatementLines,     \* the lines that banks may send
    DocumentNumber,     \* the reference that Issue gives each note
    Bill,               \* the charged total of each note's assessment
    IntakeReferences,   \* the call reference and the assessment id
    IntakeTotal,
    NoNote,
    MaxSettlements      \* bound on the settlement records

(* The per-agency series never repeats a number, and neither form of an      *)
(* intake's reference looks like one.                                        *)
ASSUME RevenueAssumption ==
    /\ MaxSettlements \in Nat
    /\ NoNote \notin Notes
    /\ Payments \subseteq [note : Notes \cup {NoNote}, ref : References,
                            amount : Amounts]
    /\ StatementLines \subseteq [ref : References, amount : Amounts,
                                  direction : {"CREDIT", "DEBIT"}]
    /\ DocumentNumber \in [Notes -> References]
    /\ Bill \in [Notes -> Amounts]
    /\ IntakeReferences \in [Intakes -> SUBSET References]
    /\ IntakeTotal \in [Intakes -> Amounts]
    /\ \A n, k \in Notes :
          DocumentNumber[n] = DocumentNumber[k] => n = k
    /\ \A n \in Notes, i \in Intakes :
          DocumentNumber[n] \notin IntakeReferences[i]
    /\ \A i, j \in Intakes :
          i # j => IntakeReferences[i] \cap IntakeReferences[j] = {}

VARIABLES
    note,           \* revenue_debit_notes.state
    maker,          \* revenue_debit_notes.maker
    settlements,    \* settlement_records in the order of created_at
    line,           \* bank_statement_lines by bank_reference
    intake,         \* revenue_intake_assessments: state and settlement
    matches,        \* recon_matches
    open,           \* what the OPEN recon_exceptions are about
    run             \* what each reconciliation run has loaded

vars == <<note, maker, settlements, line, intake, matches, open, run>>

tables == <<note, maker, settlements, line, intake, matches, open>>

NoLine == [amount |-> 0, direction |-> "none"]

OpenStates == {"ISSUED", "ACKED", "DISPUTED"}

-----------------------------------------------------------------------------
(* Debit notes. *)

(* A second request with the key is a replay or a conflict. *)
CreateDebitNote(n, o) ==
    /\ note[n] = "none"
    /\ note' = [note EXCEPT ![n] = "DRAFT"]
    /\ maker' = [maker EXCEPT ![n] = o]
    /\ UNCHANGED <<settlements, line, intake, matches, open, run>>

Issue(n, o) ==
    /\ note[n] = "DRAFT" /\ maker[n] # o
    /\ note' = [note EXCEPT ![n] = "ISSUED"]
    /\ UNCHANGED <<maker, settlements, line, intake, matches, open, run>>

(* The moves validTransition allows a request.  SETTLED is left to the       *)
(* reconciliation, and a CHECK of the table refuses ISSUED without a         *)
(* document number.                                                          *)
Moves ==
    {<<"DRAFT", "CANCELLED">>, <<"ISSUED", "ACKED">>, <<"ISSUED", "DISPUTED">>,
     <<"ISSUED", "CANCELLED">>, <<"ACKED", "DISPUTED">>,
     <<"DISPUTED", "ACKED">>, <<"DISPUTED", "CANCELLED">>}

Transition(n, to, o) ==
    /\ <<note[n], to>> \in Moves
    /\ to = "CANCELLED" => maker[n] # o
    /\ note' = [note EXCEPT ![n] = to]
    /\ UNCHANGED <<maker, settlements, line, intake, matches, open, run>>

-----------------------------------------------------------------------------
(* The other legs. *)

(* By hand, with or without a note; the settlement mirror names none. *)
RecordSettlement(payment) ==
    /\ Len(settlements) < MaxSettlements
    /\ payment.note # NoNote => note[payment.note] # "none"
    /\ settlements' = Append(settlements, payment)
    /\ UNCHANGED <<note, maker, line, intake, matches, open, run>>

(* A signed statement: a new reference is a new line; a known one is a       *)
(* duplicate if the amount agrees and an exception if it does not.           *)
IngestStatement(l) ==
    /\ IF line[l.ref] = NoLine
       THEN /\ line' = [line EXCEPT ![l.ref] =
                          [amount |-> l.amount, direction |-> l.direction]]
            /\ UNCHANGED open
       ELSE /\ line[l.ref].amount # l.amount
            /\ open' = open \cup {<<"ref", l.ref>>}
            /\ UNCHANGED line
    /\ UNCHANGED <<note, maker, settlements, intake, matches, run>>

(* The intake consumer lands an assessment, mapped or not. *)
LandAssessment(i, state) ==
    /\ intake[i].state = "none"
    /\ intake' = [intake EXCEPT ![i] = [state |-> state, settlement |-> 0]]
    /\ UNCHANGED <<note, maker, settlements, line, matches, open, run>>

-----------------------------------------------------------------------------
(* What a run loads: four queries, one after the other. *)

Loaded(pc) ==
    [pc |-> pc, notes |-> {}, settlements |-> {}, lines |-> {}, intakes |-> {}]

Unstarted == Loaded("idle")

Completed == Loaded("completed")

LoadNotes(r) ==
    /\ run[r].pc = "idle"
    /\ run' = [run EXCEPT ![r].pc = "settlements",
                          ![r].notes =
                             {n \in Notes :
                                /\ note[n] \in OpenStates
                                /\ ~ \E m \in matches : m.note = n}]
    /\ UNCHANGED tables

LoadSettlements(r) ==
    /\ run[r].pc = "settlements"
    /\ run' = [run EXCEPT ![r].pc = "lines",
                          ![r].settlements =
                             {s \in DOMAIN settlements :
                                /\ ~ \E m \in matches : m.settlement = s
                                /\ ~ \E i \in Intakes :
                                        intake[i].settlement = s}]
    /\ UNCHANGED tables

LoadLines(r) ==
    /\ run[r].pc = "lines"
    /\ run' = [run EXCEPT ![r].pc = "intakes",
                          ![r].lines =
                             {ref \in References :
                                /\ line[ref].direction = "CREDIT"
                                /\ ~ \E m \in matches : m.line = ref}]
    /\ UNCHANGED tables

LoadIntakes(r) ==
    /\ run[r].pc = "intakes"
    /\ run' = [run EXCEPT ![r].pc = "commit",
                          ![r].intakes =
                             {i \in Intakes :
                                intake[i].state \in {"OPEN", "UNMAPPED"}}]
    /\ UNCHANGED tables

-----------------------------------------------------------------------------
(* planRecon: what the rows that were loaded amount to. *)

(* Settlements that share a reference are all suspect. *)
Duplicated(in, s) ==
    \E t \in in.settlements \ {s} : settlements[t].ref = settlements[s].ref

Names(s, n) ==
    IF settlements[s].note = NoNote
    THEN settlements[s].ref = DocumentNumber[n]
    ELSE settlements[s].note = n

Identified(in, s) == {n \in in.notes : Names(s, n)}

ObservedBy(in, s) ==
    {i \in in.intakes :
       /\ intake[i].state # "UNMAPPED" /\ settlements[s].note = NoNote
       /\ settlements[s].ref \in IntakeReferences[i]}

(* Mutant: the amount on the statement is not compared. *)
NoteVerdictLoose(in, s) ==
    IF \E n \in Identified(in, s) : settlements[s].amount # Bill[n]
    THEN "AMOUNT_MISMATCH"
    ELSE IF settlements[s].ref \notin in.lines THEN "PENDING" ELSE "MATCH"

(* A settlement that only waits for its statement line is left for the next  *)
(* run.                                                                      *)
NoteVerdict(in, s) ==
    IF \E n \in Identified(in, s) : settlements[s].amount # Bill[n]
    THEN "AMOUNT_MISMATCH"
    ELSE IF settlements[s].ref \notin in.lines THEN "PENDING"
    ELSE IF line[settlements[s].ref].amount # settlements[s].amount
    THEN "LINE_MISMATCH" ELSE "MATCH"

(* Mutant: a settlement that differs from the assessment is left for later. *)
IntakeVerdictPatient(in, s) ==
    IF ObservedBy(in, s) = {} THEN "UNMATCHED_SETTLEMENT"
    ELSE IF \E i \in ObservedBy(in, s) : settlements[s].amount = IntakeTotal[i]
    THEN "OBSERVED" ELSE "PENDING"

IntakeVerdict(in, s) ==
    IF ObservedBy(in, s) = {} THEN "UNMATCHED_SETTLEMENT"
    ELSE IF \E i \in ObservedBy(in, s) : settlements[s].amount = IntakeTotal[i]
    THEN "OBSERVED" ELSE "AMOUNT_MISMATCH"

Verdict(in, s) ==
    IF Duplicated(in, s) THEN "DUPLICATE_BANK_REF"
    ELSE IF Identified(in, s) # {} THEN NoteVerdict(in, s)
    ELSE IntakeVerdict(in, s)

PlannedMatches(in) ==
    {m \in [note : in.notes, settlement : in.settlements, line : in.lines] :
       /\ Verdict(in, m.settlement) = "MATCH"
       /\ Names(m.settlement, m.note)
       /\ m.line = settlements[m.settlement].ref}

PlannedLinks(in) ==
    {k \in [intake : in.intakes, settlement : in.settlements] :
       /\ Verdict(in, k.settlement) = "OBSERVED"
       /\ k.intake \in ObservedBy(in, k.settlement)}

SettlementExceptions(in) ==
    {<<"settlement", s>> : s \in
       {t \in in.settlements :
          Verdict(in, t) \in {"DUPLICATE_BANK_REF", "AMOUNT_MISMATCH",
                              "UNMATCHED_SETTLEMENT"}}}
    \cup
    {<<"line", settlements[s].ref>> : s \in
       {t \in in.settlements : Verdict(in, t) = "LINE_MISMATCH"}}

(* Lines that no settlement accounts for, notes past due (on the date the    *)
(* run was asked for) that none names, and intakes that could not be mapped. *)
OtherExceptions(in, overdue) ==
    {<<"line", ref>> : ref \in
       {l \in in.lines : \A s \in in.settlements : settlements[s].ref # l}}
    \cup
    {<<"note", n>> : n \in
       {k \in in.notes \cap overdue : \A s \in in.settlements :
          settlements[s].note # k /\ settlements[s].ref # DocumentNumber[k]}}
    \cup
    {<<"intake", i>> : i \in
       {j \in in.intakes : intake[j].state = "UNMAPPED"}}

-----------------------------------------------------------------------------
(* The transaction of a run. *)

(* Mutant: without the constraints on the note and the line. *)
UniqueSettlement(ms) ==
    \A m, k \in ms : m.settlement = k.settlement => m = k

(* UNIQUE (debit_note_id), UNIQUE (settlement_id) and                        *)
(* UNIQUE (statement_id, statement_line_no).                                 *)
Unique(ms) ==
    \A m, k \in ms :
       \/ m.note = k.note \/ m.settlement = k.settlement \/ m.line = k.line
       => m = k

(* ON CONFLICT (settlement_id) DO NOTHING; any other conflict ends the run. *)
Inserted(in) ==
    {m \in PlannedMatches(in) :
       \A k \in matches : k.settlement # m.settlement}

(* Links are made in the order of the settlements, while the intake is open. *)
Linked(in, i, s) ==
    /\ intake[i].state = "OPEN"
    /\ [intake |-> i, settlement |-> s] \in PlannedLinks(in)
    /\ \A k \in PlannedLinks(in) : k.intake = i => s <= k.settlement

CommitRun(r, overdue) ==
    LET in == run[r] IN
    /\ in.pc = "commit"
    /\ Unique(matches \cup Inserted(in))
    /\ matches' = matches \cup Inserted(in)
    /\ note' = [n \in Notes |->
                  IF /\ \E m \in PlannedMatches(in) : m.note = n
                     /\ note[n] \in OpenStates
                  THEN "SETTLED" ELSE note[n]]
    /\ intake' = [i \in Intakes |->
                    IF \E s \in in.settlements : Linked(in, i, s)
                    THEN [state |-> "SETTLEMENT_OBSERVED",
                          settlement |->
                             CHOOSE s \in in.settlements : Linked(in, i, s)]
                    ELSE intake[i]]
    /\ open' = open \cup SettlementExceptions(in)
                    \cup OtherExceptions(in, overdue)
    /\ run' = [run EXCEPT ![r] = Completed]
    /\ UNCHANGED <<maker, settlements, line>>

(* A constraint, the database or the process ends the run and nothing of it  *)
(* stays; a workflow's activity is tried again.                              *)
RunFails(r) ==
    /\ run[r].pc \notin {"idle", "completed"}
    /\ run' = [run EXCEPT ![r] = Unstarted]
    /\ UNCHANGED tables

ResolveException(key) ==
    /\ key \in open
    /\ open' = open \ {key}
    /\ UNCHANGED <<note, maker, settlements, line, intake, matches, run>>

-----------------------------------------------------------------------------
Init ==
    /\ note = [n \in Notes |-> "none"]
    /\ maker = [n \in Notes |-> NoNote]
    /\ settlements = << >>
    /\ line = [ref \in References |-> NoLine]
    /\ intake = [i \in Intakes |-> [state |-> "none", settlement |-> 0]]
    /\ matches = {}
    /\ open = {}
    /\ run = [r \in Runs |-> Unstarted]

Billing ==
    \E n \in Notes, o \in Officers :
       \/ CreateDebitNote(n, o) \/ Issue(n, o)
       \/ \E to \in {"ACKED", "DISPUTED", "CANCELLED"} : Transition(n, to, o)

Legs ==
    \/ \E payment \in Payments : RecordSettlement(payment)
    \/ \E l \in StatementLines : IngestStatement(l)
    \/ \E i \in Intakes, state \in {"OPEN", "UNMAPPED"} :
          LandAssessment(i, state)

Reconciles(r) ==
    \/ LoadNotes(r) \/ LoadSettlements(r) \/ LoadLines(r) \/ LoadIntakes(r)
    \/ \E overdue \in SUBSET Notes : CommitRun(r, overdue)
    \/ RunFails(r)

Requests == Billing \/ Legs \/ \E key \in open : ResolveException(key)

Next == Requests \/ \E r \in Runs : Reconciles(r)

Spec == Init /\ [][Next]_vars

-----------------------------------------------------------------------------
TypeOK ==
    /\ note \in [Notes -> OpenStates \cup {"none", "DRAFT", "SETTLED",
                                           "CANCELLED"}]
    /\ maker \in [Notes -> Officers \cup {NoNote}]
    /\ settlements \in Seq([note : Notes \cup {NoNote}, ref : References,
                            amount : Amounts])
    /\ \A ref \in References :
          \/ line[ref] = NoLine
          \/ line[ref] \in [amount : Amounts, direction : {"CREDIT", "DEBIT"}]
    /\ intake \in [Intakes -> [state : {"none", "OPEN", "UNMAPPED",
                                        "SETTLEMENT_OBSERVED"},
                               settlement : Nat]]
    /\ matches \subseteq [note : Notes, settlement : DOMAIN settlements,
                          line : References]

(* A settled note was paid: the settlement that closed it names it and       *)
(* brings what was billed, and the bank's credit line of the same reference  *)
(* has the same amount; an assessment observed as settled has its total.     *)
(* Runs race each other, requests and the statements (RunRecon, planRecon).  *)
SettledIsPaid ==
    /\ \A n \in Notes :
          note[n] = "SETTLED" =>
             \E m \in matches :
                /\ m.note = n /\ Names(m.settlement, n)
                /\ settlements[m.settlement].amount = Bill[n]
                /\ settlements[m.settlement].ref = m.line
                /\ line[m.line] = [amount |-> Bill[n], direction |-> "CREDIT"]
    /\ \A i \in Intakes :
          intake[i].state = "SETTLEMENT_OBSERVED" =>
             settlements[intake[i].settlement].amount = IntakeTotal[i]

(* No money counts twice: a note, a settlement and a statement line are in   *)
(* one match at most, and a settlement that closed a note is not the one of  *)
(* an intake assessment, nor that of two (the constraints of recon_matches,  *)
(* the guarded update of revenue_intake_assessments).                        *)
MoneyCountsOnce ==
    /\ \A m, k \in matches :
          \/ m.note = k.note \/ m.settlement = k.settlement
          \/ m.line = k.line
          => m = k
    /\ \A i \in Intakes :
          intake[i].settlement # 0 =>
             /\ \A m \in matches : m.settlement # intake[i].settlement
             /\ \A j \in Intakes :
                   j # i => intake[j].settlement # intake[i].settlement

(* What a completed run has left of a settlement that it loaded. *)
Accounted(in, s) ==
    \/ \E m \in matches' : m.settlement = s
    \/ \E i \in Intakes :
          /\ intake'[i].state = "SETTLEMENT_OBSERVED"
          /\ settlements[s].ref \in IntakeReferences[i]
    \/ \E key \in open' :
          \/ key[1] = "settlement" /\ key[2] = s
          \/ key[1] = "line" /\ key[2] = settlements[s].ref
    \/ \E n \in in.notes :
          Names(s, n) /\ settlements[s].ref \notin in.lines

(* Nothing is dropped: a run that completes has matched every settlement it  *)
(* loaded, or linked it, or holds an open exception for it, even one that    *)
(* was resolved before, or found its note and waits for the statement line   *)
(* (planRecon: "every other failure mode is an explicit exception class").   *)
NothingSilent ==
    [][\A r \in Runs :
          run[r].pc = "commit" /\ run'[r].pc = "completed" =>
             \A s \in run[r].settlements : Accounted(run[r], s)]_vars
=============================================================================
