------------------------- MODULE RevenueReconProofs -------------------------
(***************************************************************************)
(* Proofs about revenue assurance, for any notes, assessments, payments,   *)
(* statement lines and number of runs.                                     *)
(*                                                                         *)
(* A run plans on rows that it loaded earlier and commits what it planned. *)
(* That is sound because what a plan is built on never changes: settlement *)
(* records and statement lines are only ever added.                        *)
(***************************************************************************)
EXTENDS RevenueRecon, WellFoundedInduction, TLAPS

NoteStates == OpenStates \cup {"none", "DRAFT", "SETTLED", "CANCELLED"}

Payment == [note : Notes \cup {NoNote}, ref : References, amount : Amounts]

Lines == [amount : Amounts, direction : {"CREDIT", "DEBIT"}]

IntakeRows ==
    [state : {"none", "OPEN", "UNMAPPED", "SETTLEMENT_OBSERVED"},
     settlement : Nat]

RunStates ==
    [pc : {"idle", "settlements", "lines", "intakes", "commit", "completed"},
     notes : SUBSET Notes, settlements : SUBSET Nat,
     lines : SUBSET References, intakes : SUBSET Intakes]

(* What a run has loaded is still there. *)
RunOK(in) ==
    /\ in.settlements \subseteq DOMAIN settlements
    /\ \A ref \in in.lines : line[ref].direction = "CREDIT"
    /\ \A i \in in.intakes : intake[i].state # "none"

(* A match is a payment of the note that the bank confirms. *)
MatchOK(m) ==
    /\ m \in [note : Notes, settlement : DOMAIN settlements, line : References]
    /\ Names(m.settlement, m.note)
    /\ settlements[m.settlement].amount = Bill[m.note]
    /\ settlements[m.settlement].ref = m.line
    /\ line[m.line] = [amount |-> Bill[m.note], direction |-> "CREDIT"]

(* The settlement of an assessment names no note, refers to the assessment   *)
(* and brings its total.                                                     *)
LinkOK(i, row) ==
    IF row.state = "SETTLEMENT_OBSERVED"
    THEN /\ row.settlement \in DOMAIN settlements
         /\ settlements[row.settlement].note = NoNote
         /\ settlements[row.settlement].ref \in IntakeReferences[i]
         /\ settlements[row.settlement].amount = IntakeTotal[i]
    ELSE row.settlement = 0

IndInv ==
    /\ TypeOK
    /\ line \in [References -> Lines \cup {NoLine}]
    /\ run \in [Runs -> RunStates]
    /\ \A r \in Runs : RunOK(run[r])
    /\ \A m \in matches : MatchOK(m)
    /\ Unique(matches)
    /\ \A i \in Intakes : LinkOK(i, intake[i])
    /\ \A n \in Notes : note[n] = "SETTLED" => \E m \in matches : m.note = n

-----------------------------------------------------------------------------
LEMMA ElementsOfSeq ==
    ASSUME NEW S, NEW q \in Seq(S)
    PROVE  /\ Len(q) \in Nat /\ DOMAIN q = 1..Len(q)
           /\ \A i \in DOMAIN q : q[i] \in S
OBVIOUS

LEMMA InitOK ==
    ASSUME RevenueAssumption, Init
    PROVE  IndInv
<1> USE DEF Init
<1>1. TypeOK
  BY DEF TypeOK
<1>2. line \in [References -> Lines \cup {NoLine}]
  OBVIOUS
<1>3. run \in [Runs -> RunStates]
  BY DEF Unstarted, Loaded, RunStates
<1>4. \A r \in Runs : RunOK(run[r])
  BY DEF RunOK, Unstarted, Loaded
<1>5. Unique(matches)
  BY DEF Unique
<1>6. \A i \in Intakes : LinkOK(i, intake[i])
  BY DEF LinkOK
<1> QED
  BY <1>1, <1>2, <1>3, <1>4, <1>5, <1>6 DEF IndInv

(* The invariant gives what is to be shown. *)
LEMMA PaidAndCountedOnce ==
    ASSUME RevenueAssumption, IndInv
    PROVE  SettledIsPaid /\ MoneyCountsOnce
<1>1. ASSUME NEW n \in Notes, note[n] = "SETTLED"
      PROVE  \E m \in matches :
                /\ m.note = n /\ Names(m.settlement, n)
                /\ settlements[m.settlement].amount = Bill[n]
                /\ settlements[m.settlement].ref = m.line
                /\ line[m.line] = [amount |-> Bill[n], direction |-> "CREDIT"]
  <2>1. PICK m \in matches : m.note = n
    BY <1>1 DEF IndInv
  <2>2. MatchOK(m)
    BY DEF IndInv
  <2> QED
    BY <2>1, <2>2 DEF MatchOK
<1>2. ASSUME NEW i \in Intakes, intake[i].state = "SETTLEMENT_OBSERVED"
      PROVE  settlements[intake[i].settlement].amount = IntakeTotal[i]
  BY <1>2 DEF IndInv, LinkOK
<1>3. ASSUME NEW i \in Intakes, intake[i].settlement # 0
      PROVE  /\ intake[i].settlement \in DOMAIN settlements
             /\ settlements[intake[i].settlement].note = NoNote
             /\ settlements[intake[i].settlement].ref \in IntakeReferences[i]
  BY <1>3 DEF IndInv, LinkOK
<1>4. ASSUME NEW i \in Intakes, intake[i].settlement # 0,
             NEW m \in matches, m.settlement = intake[i].settlement
      PROVE  FALSE
  <2>1. MatchOK(m)
    BY DEF IndInv
  <2>2. m.note \in Notes /\ settlements[m.settlement].ref = DocumentNumber[m.note]
    BY <2>1, <1>3, <1>4 DEF MatchOK, Names
  <2> QED
    BY <2>2, <1>3, <1>4 DEF RevenueAssumption
<1>5. ASSUME NEW i \in Intakes, intake[i].settlement # 0,
             NEW j \in Intakes, j # i,
             intake[j].settlement = intake[i].settlement
      PROVE  FALSE
  <2>1. settlements[intake[i].settlement].ref
           \in IntakeReferences[i] \cap IntakeReferences[j]
    BY <1>3, <1>5
  <2> QED
    BY <2>1, <1>5 DEF RevenueAssumption
<1>6. SettledIsPaid
  BY <1>1, <1>2 DEF SettledIsPaid
<1>7. MoneyCountsOnce
  BY <1>4, <1>5 DEF MoneyCountsOnce, IndInv, Unique
<1> QED
  BY <1>6, <1>7

-----------------------------------------------------------------------------
RowsStay ==
    /\ \A s \in DOMAIN settlements :
          s \in DOMAIN settlements' /\ settlements'[s] = settlements[s]
    /\ \A ref \in References : line[ref] # NoLine => line'[ref] = line[ref]
    /\ \A i \in Intakes : intake[i].state # "none" => intake'[i].state # "none"

LEMMA RunStays ==
    ASSUME RowsStay, NEW in \in RunStates, RunOK(in)
    PROVE  RunOK(in)'
<1>1. \A ref \in in.lines : ref \in References /\ line[ref] # NoLine
  BY DEF RunOK, RunStates, NoLine
<1>2. \A i \in in.intakes : i \in Intakes
  BY DEF RunStates
<1> QED
  BY <1>1, <1>2 DEF RunOK, RowsStay

LEMMA MatchStays ==
    ASSUME RowsStay, NEW m, MatchOK(m)
    PROVE  MatchOK(m)'
<1>1. /\ m \in [note : Notes, settlement : DOMAIN settlements, line : References]
      /\ line[m.line].direction = "CREDIT"
  BY DEF MatchOK
<1>2. /\ m.settlement \in DOMAIN settlements /\ m.line \in References
      /\ line[m.line] # NoLine
  BY <1>1 DEF NoLine
<1>3. /\ m.settlement \in DOMAIN settlements'
      /\ settlements'[m.settlement] = settlements[m.settlement]
      /\ line'[m.line] = line[m.line]
  BY <1>2 DEF RowsStay
<1>4. m \in [note : Notes, settlement : DOMAIN settlements', line : References]
  BY <1>1, <1>3
<1> QED
  BY <1>3, <1>4 DEF MatchOK, Names

LEMMA LinkStays ==
    ASSUME RowsStay, NEW i \in Intakes, NEW row, LinkOK(i, row)
    PROVE  LinkOK(i, row)'
BY DEF LinkOK, RowsStay

(* An action is judged by what it changes. *)
LEMMA StepOK ==
    ASSUME IndInv, RowsStay, TypeOK',
           line' \in [References -> Lines \cup {NoLine}],
           run' \in [Runs -> RunStates],
           \A r \in Runs : run'[r] = run[r] \/ RunOK(run[r])',
           matches \subseteq matches',
           \A m \in matches' : m \in matches \/ MatchOK(m)',
           Unique(matches)',
           \A i \in Intakes : intake'[i] = intake[i] \/ LinkOK(i, intake[i])',
           \A n \in Notes : note'[n] = "SETTLED" =>
              note[n] = "SETTLED" \/ \E m \in matches' : m.note = n
    PROVE  IndInv'
<1>1. ASSUME NEW r \in Runs
      PROVE  RunOK(run[r])'
  <2>1. CASE run'[r] = run[r]
    <3>1. PICK in \in RunStates : in = run[r]
      BY DEF IndInv
    <3>2. RunOK(in)'
      BY <3>1, RunStays DEF IndInv
    <3> QED
      BY <3>1, <3>2, <2>1 DEF RunOK
  <2> QED
    BY <2>1
<1>2. ASSUME NEW m \in matches'
      PROVE  MatchOK(m)'
  BY MatchStays DEF IndInv
<1>3. ASSUME NEW i \in Intakes
      PROVE  LinkOK(i, intake[i])'
  <2>1. CASE intake'[i] = intake[i]
    <3>1. PICK row : row = intake[i]
      OBVIOUS
    <3>2. LinkOK(i, row)'
      BY <3>1, LinkStays DEF IndInv
    <3> QED
      BY <3>1, <3>2, <2>1 DEF LinkOK
  <2> QED
    BY <2>1
<1>4. ASSUME NEW n \in Notes, note'[n] = "SETTLED"
      PROVE  \E m \in matches' : m.note = n
  BY <1>4 DEF IndInv
<1> QED
  BY <1>1, <1>2, <1>3, <1>4 DEF IndInv

LEMMA SameRows ==
    ASSUME UNCHANGED <<settlements, line>>,
           \A i \in Intakes : intake[i].state # "none" => intake'[i].state # "none"
    PROVE  RowsStay
BY DEF RowsStay

LEMMA SameMatches ==
    ASSUME IndInv, UNCHANGED matches
    PROVE  Unique(matches)'
BY DEF IndInv, Unique

(* Requests about notes. *)
LEMMA BillingOK ==
    ASSUME IndInv, Billing
    PROVE  IndInv'
<1>1. PICK n \in Notes, o \in Officers :
         \/ CreateDebitNote(n, o) \/ Issue(n, o)
         \/ \E to \in {"ACKED", "DISPUTED", "CANCELLED"} : Transition(n, to, o)
  BY DEF Billing
<1>2. /\ UNCHANGED <<settlements, line, intake, matches, open, run>>
      /\ maker' = maker \/ maker' = [maker EXCEPT ![n] = o]
      /\ \E v \in {"DRAFT", "ISSUED", "ACKED", "DISPUTED", "CANCELLED"} :
            note' = [note EXCEPT ![n] = v]
  BY <1>1 DEF CreateDebitNote, Issue, Transition
<1>3. PICK v \in {"DRAFT", "ISSUED", "ACKED", "DISPUTED", "CANCELLED"} :
         note' = [note EXCEPT ![n] = v]
  BY <1>2
<1>4. note \in [Notes -> NoteStates] /\ maker \in [Notes -> Officers \cup {NoNote}]
  BY DEF IndInv, TypeOK, NoteStates
<1>5. note' \in [Notes -> NoteStates] /\ maker' \in [Notes -> Officers \cup {NoNote}]
  BY <1>2, <1>3, <1>4 DEF NoteStates, OpenStates
<1>6. TypeOK'
  BY <1>2, <1>5 DEF IndInv, TypeOK, NoteStates
<1>7. \A k \in Notes : note'[k] = "SETTLED" => note[k] = "SETTLED"
  BY <1>3, <1>4
<1> QED
  BY <1>2, <1>6, <1>7, SameRows, SameMatches, StepOK DEF IndInv

LEMMA RecordSettlementOK ==
    ASSUME RevenueAssumption, IndInv, NEW payment \in Payments,
           RecordSettlement(payment)
    PROVE  IndInv'
<1>1. settlements \in Seq(Payment) /\ payment \in Payment
  BY DEF IndInv, TypeOK, Payment, RevenueAssumption
<1>2. /\ settlements' = Append(settlements, payment)
      /\ UNCHANGED <<note, maker, line, intake, matches, open, run>>
  BY DEF RecordSettlement
<1>3. /\ settlements' \in Seq(Payment)
      /\ \A s \in DOMAIN settlements :
            s \in DOMAIN settlements' /\ settlements'[s] = settlements[s]
  <2> HIDE DEF Payment
  <2>1. DOMAIN settlements = 1..Len(settlements) /\ Len(settlements) \in Nat
    BY <1>1, ElementsOfSeq
  <2> QED
    BY <2>1, <1>1, <1>2
<1>4. RowsStay
  BY <1>2, <1>3 DEF RowsStay
<1>5. matches' \subseteq [note : Notes, settlement : DOMAIN settlements',
                          line : References]
  BY <1>2, <1>3 DEF IndInv, TypeOK
<1>6. TypeOK'
  BY <1>2, <1>3, <1>5 DEF IndInv, TypeOK, Payment
<1> QED
  BY <1>2, <1>4, <1>6, SameMatches, StepOK DEF IndInv

LEMMA IngestStatementOK ==
    ASSUME RevenueAssumption, IndInv, NEW l \in StatementLines,
           IngestStatement(l)
    PROVE  IndInv'
<1>1. /\ line \in [References -> Lines \cup {NoLine}]
      /\ l.ref \in References /\ l.amount \in Amounts
      /\ l.direction \in {"CREDIT", "DEBIT"}
  BY DEF IndInv, RevenueAssumption
<1>2. UNCHANGED <<note, maker, settlements, intake, matches, run>>
  BY DEF IngestStatement
<1>3. /\ line' \in [References -> Lines \cup {NoLine}]
      /\ \A ref \in References : line[ref] # NoLine => line'[ref] = line[ref]
  <2>1. CASE line[l.ref] = NoLine
    <3>1. PICK x \in Lines : line' = [line EXCEPT ![l.ref] = x]
      BY <2>1, <1>1 DEF IngestStatement, Lines
    <3> HIDE DEF Lines, NoLine
    <3> QED
      BY <3>1, <2>1, <1>1
  <2>2. CASE line[l.ref] # NoLine
    BY <2>2, <1>1 DEF IngestStatement
  <2> QED
    BY <2>1, <2>2
<1>4. RowsStay
  BY <1>2, <1>3 DEF RowsStay
<1>5. TypeOK'
  <2>1. \A ref \in References : line'[ref] = NoLine \/ line'[ref] \in Lines
    BY <1>3
  <2> QED
    BY <2>1, <1>2 DEF IndInv, TypeOK, Lines
<1> QED
  BY <1>2, <1>3, <1>4, <1>5, SameMatches, StepOK DEF IndInv

LEMMA LandAssessmentOK ==
    ASSUME IndInv, NEW i \in Intakes, NEW state \in {"OPEN", "UNMAPPED"},
           LandAssessment(i, state)
    PROVE  IndInv'
<1> DEFINE x == [state |-> state, settlement |-> 0]
<1>1. /\ intake' = [intake EXCEPT ![i] = x]
      /\ UNCHANGED <<note, maker, settlements, line, matches, open, run>>
  BY DEF LandAssessment
<1>2. intake \in [Intakes -> IntakeRows] /\ x \in IntakeRows
  BY DEF IndInv, TypeOK, IntakeRows
<1>3. x.state \notin {"none", "SETTLEMENT_OBSERVED"} /\ x.settlement = 0
  OBVIOUS
<1> HIDE DEF x
<1>4. /\ intake' \in [Intakes -> IntakeRows] /\ intake'[i] = x
      /\ \A j \in Intakes : j # i => intake'[j] = intake[j]
  BY <1>1, <1>2
<1>5. TypeOK'
  BY <1>1, <1>4 DEF IndInv, TypeOK, IntakeRows
<1>6. ASSUME NEW j \in Intakes
      PROVE  intake'[j] = intake[j] \/ LinkOK(j, intake[j])'
  BY <1>3, <1>4 DEF LinkOK
<1>7. \A j \in Intakes : intake[j].state # "none" => intake'[j].state # "none"
  BY <1>3, <1>4
<1> QED
  BY <1>1, <1>5, <1>6, <1>7, SameRows, SameMatches, StepOK DEF IndInv

LEMMA ResolveExceptionOK ==
    ASSUME IndInv, NEW key \in open, ResolveException(key)
    PROVE  IndInv'
<1>1. UNCHANGED <<note, maker, settlements, line, intake, matches, run>>
  BY DEF ResolveException
<1>2. TypeOK'
  BY <1>1 DEF IndInv, TypeOK
<1> QED
  BY <1>1, <1>2, SameRows, SameMatches, StepOK DEF IndInv

(* A run goes to a state whose rows are there. *)
LEMMA RunGoes ==
    ASSUME IndInv, NEW r \in Runs, NEW in \in RunStates,
           run' = [run EXCEPT ![r] = in], UNCHANGED tables, RunOK(in)
    PROVE  IndInv'
<1>1. /\ run' \in [Runs -> RunStates] /\ run'[r] = in
      /\ \A q \in Runs : q # r => run'[q] = run[q]
  BY DEF IndInv
<1>2. UNCHANGED <<note, maker, settlements, line, intake, matches, open>>
  BY DEF tables
<1>3. TypeOK'
  BY <1>2 DEF IndInv, TypeOK
<1>4. ASSUME NEW q \in Runs
      PROVE  run'[q] = run[q] \/ RunOK(run[q])'
  BY <1>1, <1>2 DEF RunOK
<1> QED
  BY <1>1, <1>2, <1>3, <1>4, SameRows, SameMatches, StepOK DEF IndInv

LEMMA LoadsOK ==
    ASSUME IndInv, NEW r \in Runs,
           \/ LoadNotes(r) \/ LoadSettlements(r) \/ LoadLines(r)
           \/ LoadIntakes(r) \/ RunFails(r)
    PROVE  IndInv'
<1>1. run \in [Runs -> RunStates] /\ run[r] \in RunStates /\ RunOK(run[r])
  BY DEF IndInv
<1>2. DOMAIN settlements \subseteq Nat
  <2>1. settlements \in Seq(Payment)
    BY DEF IndInv, TypeOK, Payment
  <2> QED
    BY <2>1, ElementsOfSeq
<1>3. ASSUME LoadNotes(r)
      PROVE  IndInv'
  <2> DEFINE S == {n \in Notes : /\ note[n] \in OpenStates
                                 /\ ~ \E m \in matches : m.note = n}
             in == [run[r] EXCEPT !.pc = "settlements", !.notes = S]
  <2>1. /\ run' = [run EXCEPT ![r] = in]
        /\ UNCHANGED tables
    BY <1>1, <1>3 DEF LoadNotes, RunStates
  <2>2. S \subseteq Notes
    OBVIOUS
  <2> HIDE DEF S
  <2>3. in \in RunStates
    BY <1>1, <2>2 DEF RunStates
  <2>5. in.settlements = run[r].settlements /\ in.lines = run[r].lines
        /\ in.intakes = run[r].intakes
    BY <1>1 DEF RunStates
  <2>4. RunOK(in)
    BY <1>1, <2>2, <2>5 DEF RunOK
  <2> QED
    BY <2>1, <2>3, <2>4, RunGoes
<1>4. ASSUME LoadSettlements(r)
      PROVE  IndInv'
  <2> DEFINE S == {s \in DOMAIN settlements :
                     /\ ~ \E m \in matches : m.settlement = s
                     /\ ~ \E i \in Intakes : intake[i].settlement = s}
             in == [run[r] EXCEPT !.pc = "lines", !.settlements = S]
  <2>1. /\ run' = [run EXCEPT ![r] = in]
        /\ UNCHANGED tables
    BY <1>1, <1>4 DEF LoadSettlements, RunStates
  <2>2. S \subseteq DOMAIN settlements /\ S \subseteq Nat
    BY <1>2
  <2> HIDE DEF S
  <2>3. in \in RunStates
    BY <1>1, <2>2 DEF RunStates
  <2>5. in.settlements = S /\ in.lines = run[r].lines
        /\ in.intakes = run[r].intakes
    BY <1>1 DEF RunStates
  <2>4. RunOK(in)
    BY <1>1, <2>2, <2>5 DEF RunOK
  <2> QED
    BY <2>1, <2>3, <2>4, RunGoes
<1>5. ASSUME LoadLines(r)
      PROVE  IndInv'
  <2> DEFINE S == {ref \in References :
                     /\ line[ref].direction = "CREDIT"
                     /\ ~ \E m \in matches : m.line = ref}
             in == [run[r] EXCEPT !.pc = "intakes", !.lines = S]
  <2>1. /\ run' = [run EXCEPT ![r] = in]
        /\ UNCHANGED tables
    BY <1>1, <1>5 DEF LoadLines, RunStates
  <2>2. S \subseteq References /\ \A ref \in S : line[ref].direction = "CREDIT"
    OBVIOUS
  <2> HIDE DEF S
  <2>3. in \in RunStates
    BY <1>1, <2>2 DEF RunStates
  <2>5. in.settlements = run[r].settlements /\ in.lines = S
        /\ in.intakes = run[r].intakes
    BY <1>1 DEF RunStates
  <2>4. RunOK(in)
    BY <1>1, <2>2, <2>5 DEF RunOK
  <2> QED
    BY <2>1, <2>3, <2>4, RunGoes
<1>6. ASSUME LoadIntakes(r)
      PROVE  IndInv'
  <2> DEFINE S == {i \in Intakes :
                     intake[i].state \in {"OPEN", "UNMAPPED"}}
             in == [run[r] EXCEPT !.pc = "commit", !.intakes = S]
  <2>1. /\ run' = [run EXCEPT ![r] = in]
        /\ UNCHANGED tables
    BY <1>1, <1>6 DEF LoadIntakes, RunStates
  <2>2. S \subseteq Intakes /\ \A i \in S : intake[i].state # "none"
    OBVIOUS
  <2> HIDE DEF S
  <2>3. in \in RunStates
    BY <1>1, <2>2 DEF RunStates
  <2>5. in.settlements = run[r].settlements /\ in.lines = run[r].lines
        /\ in.intakes = S
    BY <1>1 DEF RunStates
  <2>4. RunOK(in)
    BY <1>1, <2>2, <2>5 DEF RunOK
  <2> QED
    BY <2>1, <2>3, <2>4, RunGoes
<1>7. ASSUME RunFails(r)
      PROVE  IndInv'
  <2>1. Unstarted \in RunStates /\ RunOK(Unstarted)
    BY DEF Unstarted, Loaded, RunStates, RunOK
  <2>2. run' = [run EXCEPT ![r] = Unstarted] /\ UNCHANGED tables
    BY <1>7 DEF RunFails
  <2> QED
    BY <2>1, <2>2, RunGoes
<1> QED
  BY <1>3, <1>4, <1>5, <1>6, <1>7

-----------------------------------------------------------------------------
(* The transaction of a run. *)

(* A planned match is a payment of the note that the bank confirms. *)
LEMMA PlannedIsPaid ==
    ASSUME RevenueAssumption, IndInv, NEW in \in RunStates, RunOK(in),
           NEW m \in PlannedMatches(in)
    PROVE  MatchOK(m)
<1>1. /\ m \in [note : in.notes, settlement : in.settlements, line : in.lines]
      /\ Verdict(in, m.settlement) = "MATCH" /\ Names(m.settlement, m.note)
      /\ m.line = settlements[m.settlement].ref
  BY DEF PlannedMatches
<1>2. /\ m.note \in in.notes /\ m.note \in Notes
      /\ m.settlement \in DOMAIN settlements
      /\ m.line \in in.lines /\ m.line \in References
  BY <1>1 DEF RunStates, RunOK
<1>3. m \in [note : Notes, settlement : DOMAIN settlements, line : References]
  BY <1>1, <1>2
<1>4. m.note \in Identified(in, m.settlement)
  BY <1>1, <1>2 DEF Identified
<1>5. NoteVerdict(in, m.settlement) = "MATCH"
  BY <1>1, <1>4 DEF Verdict
<1>6. /\ settlements[m.settlement].amount = Bill[m.note]
      /\ line[m.line].amount = settlements[m.settlement].amount
  BY <1>1, <1>4, <1>5 DEF NoteVerdict
<1>7. line[m.line] \in Lines \cup {NoLine} /\ line[m.line].direction = "CREDIT"
  BY <1>2 DEF IndInv, RunOK
<1>8. line[m.line] = [amount |-> Bill[m.note], direction |-> "CREDIT"]
  BY <1>6, <1>7 DEF Lines, NoLine
<1> QED
  BY <1>1, <1>3, <1>6, <1>8 DEF MatchOK

(* A settlement names one note. *)
LEMMA OneName ==
    ASSUME RevenueAssumption, NEW s, NEW n \in Notes, NEW k \in Notes,
           Names(s, n), Names(s, k)
    PROVE  n = k
BY DEF Names, RevenueAssumption

(* A link is a settlement of the assessment. *)
LEMMA LinkedIsPaid ==
    ASSUME RevenueAssumption, IndInv, NEW in \in RunStates, RunOK(in),
           NEW i \in Intakes, NEW s \in in.settlements, Linked(in, i, s)
    PROVE  /\ s \in DOMAIN settlements /\ settlements[s].note = NoNote
           /\ settlements[s].ref \in IntakeReferences[i]
           /\ settlements[s].amount = IntakeTotal[i]
<1> DEFINE k == [intake |-> i, settlement |-> s]
<1>1. k \in PlannedLinks(in)
  BY DEF Linked
<1>2. k.intake = i /\ k.settlement = s
  OBVIOUS
<1>3. Verdict(in, s) = "OBSERVED" /\ i \in ObservedBy(in, s)
  BY <1>1, <1>2 DEF PlannedLinks
<1>4. IntakeVerdict(in, s) = "OBSERVED"
  BY <1>3 DEF Verdict, NoteVerdict
<1>5. PICK j \in ObservedBy(in, s) : settlements[s].amount = IntakeTotal[j]
  BY <1>4 DEF IntakeVerdict
<1>6. j \in Intakes /\ settlements[s].ref \in IntakeReferences[j]
  BY DEF ObservedBy, RunStates
<1>7. settlements[s].ref \in IntakeReferences[i] /\ settlements[s].note = NoNote
  BY <1>3 DEF ObservedBy
<1>8. i = j
  BY <1>6, <1>7 DEF RevenueAssumption
<1> QED
  BY <1>5, <1>7, <1>8 DEF RunOK

LEMMA CommitRunOK ==
    ASSUME RevenueAssumption, IndInv, NEW r \in Runs, NEW overdue,
           CommitRun(r, overdue)
    PROVE  IndInv'
<1>0. PICK in \in RunStates : in = run[r] /\ RunOK(in)
  BY DEF IndInv
<1>1. /\ Unique(matches \cup Inserted(in))
      /\ matches' = matches \cup Inserted(in)
      /\ note' = [n \in Notes |->
                    IF /\ \E m \in PlannedMatches(in) : m.note = n
                       /\ note[n] \in OpenStates
                    THEN "SETTLED" ELSE note[n]]
      /\ intake' = [i \in Intakes |->
                      IF \E s \in in.settlements : Linked(in, i, s)
                      THEN [state |-> "SETTLEMENT_OBSERVED",
                            settlement |->
                               CHOOSE s \in in.settlements : Linked(in, i, s)]
                      ELSE intake[i]]
      /\ run' = [run EXCEPT ![r] = Completed]
      /\ UNCHANGED <<maker, settlements, line>>
  BY <1>0 DEF CommitRun
<1>9. \A i \in Intakes : intake[i].state # "none" => intake'[i].state # "none"
  BY <1>1
<1>2. RowsStay
  BY <1>1, <1>9, SameRows
<1>3. /\ run' \in [Runs -> RunStates]
      /\ \A q \in Runs : run'[q] = run[q] \/ RunOK(run[q])'
  <2>1. Completed \in RunStates
    BY DEF Completed, Loaded, RunStates
  <2>2. /\ run' \in [Runs -> RunStates]
        /\ \A q \in Runs : run'[q] = IF q = r THEN Completed ELSE run[q]
    BY <2>1, <1>1 DEF IndInv
  <2>3. RunOK(Completed)'
    BY DEF RunOK, Completed, Loaded
  <2>4. ASSUME NEW q \in Runs
        PROVE  run'[q] = run[q] \/ RunOK(run[q])'
    <3>1. CASE q = r
      <4>1. run'[q] = Completed
        BY <3>1, <2>2
      <4> QED
        BY <4>1, <2>3 DEF RunOK
    <3>2. CASE q # r
      BY <3>2, <2>2
    <3> QED
      BY <3>1, <3>2
  <2> QED
    BY <2>2, <2>4
<1>4. ASSUME NEW m \in matches'
      PROVE  m \in matches \/ MatchOK(m)'
  <2>1. CASE m \in Inserted(in)
    <3>1. m \in PlannedMatches(in)
      BY <2>1 DEF Inserted
    <3>2. MatchOK(m)
      BY <3>1, <1>0, PlannedIsPaid
    <3> QED
      BY <3>2, <1>2, MatchStays
  <2> QED
    BY <2>1, <1>1
<1>5. Unique(matches)'
  BY <1>1 DEF Unique
<1>6. ASSUME NEW i \in Intakes
      PROVE  /\ intake'[i] \in IntakeRows
             /\ intake'[i] = intake[i] \/ LinkOK(i, intake[i])'
  <2>1. CASE ~ \E s \in in.settlements : Linked(in, i, s)
    <3>1. intake'[i] = intake[i]
      BY <2>1, <1>1
    <3> QED
      BY <3>1 DEF IndInv, TypeOK, IntakeRows
  <2>2. CASE \E s \in in.settlements : Linked(in, i, s)
    <3>1. PICK s : s = CHOOSE t \in in.settlements : Linked(in, i, t)
      OBVIOUS
    <3>2. s \in in.settlements /\ Linked(in, i, s)
      BY <3>1, <2>2
    <3>3. intake'[i] = [state |-> "SETTLEMENT_OBSERVED", settlement |-> s]
      BY <3>1, <2>2, <1>1
    <3>4. /\ s \in DOMAIN settlements /\ settlements[s].note = NoNote
          /\ settlements[s].ref \in IntakeReferences[i]
          /\ settlements[s].amount = IntakeTotal[i]
      BY <3>2, <1>0, LinkedIsPaid
    <3>5. s \in Nat
      BY <3>2 DEF RunStates
    <3>6. intake'[i] \in IntakeRows
      BY <3>3, <3>5 DEF IntakeRows
    <3>7. LinkOK(i, intake[i])'
      BY <3>3, <3>4, <1>1 DEF LinkOK
    <3> QED
      BY <3>6, <3>7
  <2> QED
    BY <2>1, <2>2
<1>7. ASSUME NEW n \in Notes, note'[n] = "SETTLED"
      PROVE  note[n] = "SETTLED" \/ \E m \in matches' : m.note = n
  <2>1. CASE note'[n] = note[n]
    BY <2>1, <1>7
  <2>2. CASE note'[n] # note[n]
    <3>1. PICK m \in PlannedMatches(in) : m.note = n
      BY <2>2, <1>1
    <3>2. CASE m \in Inserted(in)
      BY <3>1, <3>2, <1>1
    <3>3. CASE m \notin Inserted(in)
      <4>1. PICK k \in matches : k.settlement = m.settlement
        BY <3>3 DEF Inserted
      <4>2. MatchOK(k) /\ MatchOK(m)
        BY <1>0, PlannedIsPaid DEF IndInv
      <4>3. k.note \in Notes /\ m.note \in Notes
        BY <4>2 DEF MatchOK
      <4>4. Names(m.settlement, k.note) /\ Names(m.settlement, m.note)
        BY <4>1, <4>2 DEF MatchOK
      <4>5. k.note = n
        BY <4>3, <4>4, <3>1, OneName
      <4> QED
        BY <4>5, <1>1
    <3> QED
      BY <3>2, <3>3
  <2> QED
    BY <2>1, <2>2
<1>8. TypeOK'
  <2>1. note \in [Notes -> NoteStates]
    BY DEF IndInv, TypeOK, NoteStates
  <2>2. note' \in [Notes -> NoteStates]
    BY <2>1, <1>1 DEF NoteStates
  <2>3. intake' \in [Intakes -> IntakeRows]
    BY <1>1, <1>6
  <2>4. matches' \subseteq [note : Notes, settlement : DOMAIN settlements',
                            line : References]
    BY <1>1, <1>4 DEF MatchOK, IndInv, TypeOK
  <2> QED
    BY <2>2, <2>3, <2>4, <1>1 DEF IndInv, TypeOK, NoteStates, IntakeRows
<1> QED
  BY <1>1, <1>2, <1>3, <1>4, <1>5, <1>6, <1>7, <1>8, StepOK DEF IndInv

LEMMA NextOK ==
    ASSUME RevenueAssumption, IndInv, [Next]_vars
    PROVE  IndInv'
<1>1. ASSUME UNCHANGED vars
      PROVE  IndInv'
  <2> USE <1>1 DEF vars
  <2>1. TypeOK'
    BY DEF IndInv, TypeOK
  <2> QED
    BY <2>1, SameRows, SameMatches, StepOK DEF IndInv
<1>2. ASSUME Legs
      PROVE  IndInv'
  BY <1>2, RecordSettlementOK, IngestStatementOK, LandAssessmentOK DEF Legs
<1>3. ASSUME Requests
      PROVE  IndInv'
  BY <1>2, <1>3, BillingOK, ResolveExceptionOK DEF Requests
<1>4. ASSUME NEW r \in Runs, Reconciles(r)
      PROVE  IndInv'
  BY <1>4, LoadsOK, CommitRunOK DEF Reconciles
<1> QED
  BY <1>1, <1>3, <1>4 DEF Next

(* The tables keep their types in every behaviour (the handlers of           *)
(* internal/revenue).                                                        *)
THEOREM TypeCorrect == Spec => []TypeOK
<1>1. Init => IndInv
  BY RevenueAssumption, InitOK
<1>2. IndInv /\ [Next]_vars => IndInv'
  BY RevenueAssumption, NextOK
<1>3. IndInv => TypeOK
  BY DEF IndInv
<1> QED
  BY <1>1, <1>2, <1>3, PTL DEF Spec

(* For any notes, payments and statements and any number of racing runs, a   *)
(* settled note was paid in full by a settlement that names it and a bank's  *)
(* credit line (RunRecon, planRecon).                                        *)
THEOREM SettledCorrect == Spec => []SettledIsPaid
<1>1. Init => IndInv
  BY RevenueAssumption, InitOK
<1>2. IndInv /\ [Next]_vars => IndInv'
  BY RevenueAssumption, NextOK
<1>3. IndInv => SettledIsPaid
  BY RevenueAssumption, PaidAndCountedOnce
<1> QED
  BY <1>1, <1>2, <1>3, PTL DEF Spec

(* Nor does any money count twice, for notes and assessments together (the   *)
(* constraints of recon_matches and the references of planRecon).            *)
THEOREM CountedOnceCorrect == Spec => []MoneyCountsOnce
<1>1. Init => IndInv
  BY RevenueAssumption, InitOK
<1>2. IndInv /\ [Next]_vars => IndInv'
  BY RevenueAssumption, NextOK
<1>3. IndInv => MoneyCountsOnce
  BY RevenueAssumption, PaidAndCountedOnce
<1> QED
  BY <1>1, <1>2, <1>3, PTL DEF Spec

-----------------------------------------------------------------------------
(* What a run leaves behind. *)

LEMMA LeastSettlement ==
    ASSUME NEW S \in SUBSET Nat, S # {}
    PROVE  \E s \in S : \A t \in S : s <= t
<1>1. PICK s \in S : \A t \in S : ~ (<<t, s>> \in OpToRel(<, Nat))
  BY NatLessThanWellFounded, WFMin, Zenon
<1>2. \A t \in S : ~ (t < s)
  BY <1>1 DEF OpToRel
<1> QED
  BY <1>2

(* An assessment that some settlement is to be linked to is linked, by this  *)
(* run or by another.                                                        *)
LEMMA SomeoneLinks ==
    ASSUME IndInv, NEW in \in RunStates, RunOK(in),
           NEW i \in in.intakes, NEW s \in in.settlements,
           [intake |-> i, settlement |-> s] \in PlannedLinks(in),
           intake[i].state # "SETTLEMENT_OBSERVED"
    PROVE  \E t \in in.settlements : Linked(in, i, t)
<1> DEFINE S == {t \in in.settlements :
                   [intake |-> i, settlement |-> t] \in PlannedLinks(in)}
<1>1. S \in SUBSET Nat /\ S # {}
  BY DEF RunStates
<1>2. PICK t \in S : \A u \in S : t <= u
  BY <1>1, LeastSettlement
<1>3. ASSUME NEW k \in PlannedLinks(in), k.intake = i
      PROVE  t <= k.settlement
  <2>1. /\ k.settlement \in in.settlements
        /\ k = [intake |-> k.intake, settlement |-> k.settlement]
    BY DEF PlannedLinks
  <2>2. k.settlement \in S
    BY <2>1, <1>3
  <2> QED
    BY <2>2, <1>2
<1>4. i \in ObservedBy(in, s)
  <2>1. \A k \in PlannedLinks(in) : k.intake \in ObservedBy(in, k.settlement)
    BY DEF PlannedLinks
  <2> QED
    BY <2>1
<1>5. intake[i].state = "OPEN"
  <2>1. i \in Intakes
    BY DEF RunStates
  <2>2. intake[i].state \in {"none", "OPEN", "UNMAPPED", "SETTLEMENT_OBSERVED"}
    BY <2>1 DEF IndInv, TypeOK
  <2> QED
    BY <2>2, <1>4 DEF RunOK, ObservedBy
<1> QED
  BY <1>2, <1>3, <1>5 DEF Linked

LEMMA CommitAccounts ==
    ASSUME RevenueAssumption, IndInv, NEW r \in Runs, NEW overdue,
           CommitRun(r, overdue), NEW s \in run[r].settlements
    PROVE  Accounted(run[r], s)
<1>0. PICK in \in RunStates : in = run[r] /\ RunOK(in)
  BY DEF IndInv
<1>1. /\ matches' = matches \cup Inserted(in)
      /\ open' = (open \cup SettlementExceptions(in))
                    \cup OtherExceptions(in, overdue)
      /\ \A i \in Intakes :
            intake'[i] = IF \E t \in in.settlements : Linked(in, i, t)
                         THEN [state |-> "SETTLEMENT_OBSERVED",
                               settlement |->
                                  CHOOSE t \in in.settlements : Linked(in, i, t)]
                         ELSE intake[i]
  BY <1>0 DEF CommitRun
<1>2. s \in in.settlements /\ s \in DOMAIN settlements
  BY <1>0 DEF RunOK
<1>3. ASSUME Verdict(in, s) \in {"DUPLICATE_BANK_REF", "AMOUNT_MISMATCH",
                                 "UNMATCHED_SETTLEMENT"}
      PROVE  Accounted(in, s)
  <2>1. <<"settlement", s>> \in open'
    BY <1>1, <1>2, <1>3 DEF SettlementExceptions
  <2> QED
    BY <2>1 DEF Accounted
<1>4. ASSUME Verdict(in, s) = "LINE_MISMATCH"
      PROVE  Accounted(in, s)
  <2>1. <<"line", settlements[s].ref>> \in open'
    BY <1>1, <1>2, <1>4 DEF SettlementExceptions
  <2> QED
    BY <2>1 DEF Accounted
<1>5. ASSUME Verdict(in, s) \in {"PENDING", "MATCH"}
      PROVE  Accounted(in, s)
  <2>1. Identified(in, s) # {} /\ NoteVerdict(in, s) = Verdict(in, s)
    BY <1>5 DEF Verdict, IntakeVerdict
  <2>2. PICK n \in in.notes : Names(s, n)
    BY <2>1 DEF Identified
  <2>3. CASE settlements[s].ref \notin in.lines
    BY <2>2, <2>3 DEF Accounted
  <2>4. CASE settlements[s].ref \in in.lines
    <3> DEFINE m == [note |-> n, settlement |-> s, line |-> settlements[s].ref]
    <3>1. Verdict(in, s) = "MATCH"
      BY <2>1, <2>4, <1>5 DEF NoteVerdict
    <3>2. m \in PlannedMatches(in)
      BY <3>1, <2>2, <2>4, <1>2 DEF PlannedMatches
    <3>3. \E k \in matches' : k.settlement = s
      <4>1. CASE m \in Inserted(in)
        BY <4>1, <1>1
      <4>2. CASE m \notin Inserted(in)
        <5>1. PICK k \in matches : k.settlement = m.settlement
          BY <4>2, <3>2 DEF Inserted
        <5> QED
          BY <5>1, <1>1
      <4> QED
        BY <4>1, <4>2
    <3> QED
      BY <3>3 DEF Accounted
  <2> QED
    BY <2>3, <2>4
<1>6. ASSUME Verdict(in, s) = "OBSERVED"
      PROVE  Accounted(in, s)
  <2>1. IntakeVerdict(in, s) = "OBSERVED"
    BY <1>6 DEF Verdict, NoteVerdict
  <2>2. PICK i \in ObservedBy(in, s) : TRUE
    BY <2>1 DEF IntakeVerdict
  <2>3. i \in in.intakes /\ i \in Intakes
        /\ settlements[s].ref \in IntakeReferences[i]
    BY DEF ObservedBy, RunStates
  <2>4. [intake |-> i, settlement |-> s] \in PlannedLinks(in)
    BY <2>2, <2>3, <1>2, <1>6 DEF PlannedLinks
  <2>5. intake'[i].state = "SETTLEMENT_OBSERVED"
    <3>1. CASE \E t \in in.settlements : Linked(in, i, t)
      <4>1. PICK u : u = CHOOSE t \in in.settlements : Linked(in, i, t)
        OBVIOUS
      <4>2. intake'[i] = [state |-> "SETTLEMENT_OBSERVED", settlement |-> u]
        BY <4>1, <3>1, <2>3, <1>1
      <4> QED
        BY <4>2
    <3>2. CASE ~ \E t \in in.settlements : Linked(in, i, t)
      <4>1. intake[i].state = "SETTLEMENT_OBSERVED"
        BY <3>2, <2>3, <2>4, <1>0, <1>2, SomeoneLinks
      <4> QED
        BY <4>1, <3>2, <2>3, <1>1
    <3> QED
      BY <3>1, <3>2
  <2> QED
    BY <2>3, <2>5 DEF Accounted
<1>7. Verdict(in, s) \in {"DUPLICATE_BANK_REF", "AMOUNT_MISMATCH",
                          "UNMATCHED_SETTLEMENT", "LINE_MISMATCH", "PENDING",
                          "MATCH", "OBSERVED"}
  BY DEF Verdict, NoteVerdict, IntakeVerdict
<1> QED
  BY <1>0, <1>3, <1>4, <1>5, <1>6, <1>7

(* Only its own transaction completes a run. *)
LEMMA OnlyCommitCompletes ==
    ASSUME IndInv, Next, NEW r \in Runs,
           run[r].pc = "commit", run'[r].pc = "completed"
    PROVE  \E overdue \in SUBSET Notes : CommitRun(r, overdue)
<1>1. run \in [Runs -> RunStates]
  BY DEF IndInv
<1>2. ASSUME run' = run
      PROVE  FALSE
  BY <1>2
<1>3. ASSUME Requests
      PROVE  run' = run
  BY <1>3 DEF Requests, Billing, Legs, CreateDebitNote, Issue, Transition,
     RecordSettlement, IngestStatement, LandAssessment, ResolveException
<1>4. PICK q \in Runs : Reconciles(q)
  BY <1>2, <1>3 DEF Next
<1>5. ASSUME \/ LoadNotes(q) \/ LoadSettlements(q) \/ LoadLines(q)
             \/ LoadIntakes(q) \/ RunFails(q)
      PROVE  FALSE
  <2>1. CASE q = r
    BY <2>1, <1>1, <1>5 DEF LoadNotes, LoadSettlements, LoadLines, LoadIntakes,
       RunFails, Unstarted, Loaded, RunStates
  <2>2. CASE q # r
    <3>1. \E x : run' = [run EXCEPT ![q] = x]
      BY <1>1, <1>5 DEF LoadNotes, LoadSettlements, LoadLines, LoadIntakes,
         RunFails
    <3>2. run'[r] = run[r]
      BY <3>1, <2>2, <1>1
    <3> QED
      BY <3>2
  <2> QED
    BY <2>1, <2>2
<1>6. PICK overdue \in SUBSET Notes : CommitRun(q, overdue)
  BY <1>4, <1>5 DEF Reconciles
<1>7. q = r
  <2>1. ASSUME q # r
        PROVE  run'[r] = run[r]
    BY <2>1, <1>1, <1>6 DEF CommitRun
  <2> QED
    BY <2>1
<1> QED
  BY <1>6, <1>7

(* Whatever a run has loaded, when it completes each of its settlements is   *)
(* matched, linked, queued as an exception or waits for its statement line   *)
(* (planRecon, RunRecon).                                                    *)
THEOREM NothingIsDropped == Spec => NothingSilent
<1>1. Init => IndInv
  BY RevenueAssumption, InitOK
<1>2. IndInv /\ [Next]_vars => IndInv'
  BY RevenueAssumption, NextOK
<1>3. IndInv /\ [Next]_vars =>
         [\A r \in Runs :
            run[r].pc = "commit" /\ run'[r].pc = "completed" =>
               \A s \in run[r].settlements : Accounted(run[r], s)]_vars
  BY RevenueAssumption, OnlyCommitCompletes, CommitAccounts
<1> QED
  BY <1>1, <1>2, <1>3, PTL DEF Spec, NothingSilent

-----------------------------------------------------------------------------
(* What is settled stays settled. *)

(* A note that is SETTLED or CANCELLED, an assessment observed as settled, a *)
(* match, a settlement and a statement line are never rewritten.             *)
KeepsSettled ==
    /\ \A n \in Notes : note[n] \in {"SETTLED", "CANCELLED"} => note'[n] = note[n]
    /\ \A i \in Intakes :
          intake[i].state = "SETTLEMENT_OBSERVED" => intake'[i] = intake[i]
    /\ \A s \in DOMAIN settlements :
          s \in DOMAIN settlements' /\ settlements'[s] = settlements[s]
    /\ \A ref \in References : line[ref] # NoLine => line'[ref] = line[ref]
    /\ matches \subseteq matches'

(* A run works on rows it loaded before requests, statements and other runs  *)
(* went on, and a late run closes no note that was cancelled meanwhile, nor  *)
(* links an assessment again (RunRecon: the guarded updates of               *)
(* revenue_debit_notes and revenue_intake_assessments, IngestStatement).     *)
SettledIsFinal == [][KeepsSettled]_vars

(* The step of the theorem below, action by action. *)
LEMMA KeptByStep ==
  ASSUME IndInv, [Next]_vars
  PROVE  KeepsSettled
<1> USE DEF IndInv
<1>1. ASSUME UNCHANGED <<note, intake, settlements, line, matches>>
      PROVE  KeepsSettled
  BY <1>1 DEF KeepsSettled
<1>2. ASSUME NEW n \in Notes, NEW to,
             note[n] \notin {"SETTLED", "CANCELLED"},
             note' = [note EXCEPT ![n] = to],
             UNCHANGED <<intake, settlements, line, matches>>
      PROVE  KeepsSettled
  <2>1. \A k \in Notes \ {n} : note'[k] = note[k]
    BY <1>2 DEF TypeOK
  <2>2. QED BY <1>2, <2>1 DEF KeepsSettled
<1>3. ASSUME Billing PROVE KeepsSettled
  BY <1>2, <1>3 DEF Billing, CreateDebitNote, Issue, Transition, Moves
<1>4. ASSUME NEW payment \in Payments, RecordSettlement(payment)
      PROVE  KeepsSettled
  <2>1. /\ settlements' = Append(settlements, payment)
        /\ UNCHANGED <<note, intake, line, matches>>
    BY <1>4 DEF RecordSettlement
  <2>2. \A s \in DOMAIN settlements :
           s \in DOMAIN settlements' /\ settlements'[s] = settlements[s]
    BY <2>1 DEF TypeOK
  <2>3. QED BY <2>1, <2>2 DEF KeepsSettled
<1>5. ASSUME NEW l \in StatementLines, IngestStatement(l)
      PROVE  KeepsSettled
  <2>1. UNCHANGED <<note, intake, settlements, matches>>
    BY <1>5 DEF IngestStatement
  <2>2. \A ref \in References : line[ref] # NoLine => line'[ref] = line[ref]
    BY <1>5 DEF IngestStatement
  <2>3. QED BY <2>1, <2>2 DEF KeepsSettled
<1>6. ASSUME NEW i \in Intakes, NEW state, LandAssessment(i, state)
      PROVE  KeepsSettled
  <2>1. /\ intake[i].state = "none"
        /\ UNCHANGED <<note, settlements, line, matches>>
        /\ \A j \in Intakes \ {i} : intake'[j] = intake[j]
    BY <1>6 DEF LandAssessment, TypeOK
  <2>2. QED BY <2>1 DEF KeepsSettled
<1>7. ASSUME NEW r \in Runs, NEW overdue \in SUBSET Notes, CommitRun(r, overdue)
      PROVE  KeepsSettled
  <2>1. matches \subseteq matches' /\ UNCHANGED <<settlements, line>>
    BY <1>7 DEF CommitRun
  <2>2. \A n \in Notes : note[n] \in {"SETTLED", "CANCELLED"} => note'[n] = note[n]
    BY <1>7 DEF CommitRun, OpenStates
  <2>3. \A i \in Intakes :
           intake[i].state = "SETTLEMENT_OBSERVED" => intake'[i] = intake[i]
    BY <1>7 DEF CommitRun, Linked
  <2>4. QED BY <2>1, <2>2, <2>3 DEF KeepsSettled
<1>8. ASSUME Requests PROVE KeepsSettled
  BY <1>1, <1>3, <1>4, <1>5, <1>6, <1>8 DEF Requests, Legs, ResolveException
<1>9. ASSUME NEW r \in Runs, Reconciles(r) PROVE KeepsSettled
  BY <1>1, <1>7, <1>9
  DEF Reconciles, LoadNotes, LoadSettlements, LoadLines, LoadIntakes, RunFails,
      tables
<1>10. QED BY <1>1, <1>8, <1>9 DEF Next, vars

(* Notes, assessments, matches, settlements and lines keep what was settled. *)
THEOREM SettledStays == Spec => SettledIsFinal
<1>1. Init => IndInv
  BY RevenueAssumption, InitOK
<1>2. IndInv /\ [Next]_vars => IndInv'
  BY RevenueAssumption, NextOK
<1>3. IndInv /\ [Next]_vars => [KeepsSettled]_vars
  BY KeptByStep
<1> QED
  BY <1>1, <1>2, <1>3, PTL DEF Spec, SettledIsFinal
=============================================================================
