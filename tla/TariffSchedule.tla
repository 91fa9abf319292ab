--------------------------- MODULE TariffSchedule ---------------------------
(***************************************************************************)
(* The tariff engine (internal/tariff): rate and exemption rows under dual *)
(* control, and assessments that price a declaration with the rows in      *)
(* force and are stored once to an idempotency key.                        *)
(*                                                                         *)
(* Officers draft and activate rows while clients assess; an assessment    *)
(* reads the key, the rates and the exemptions one after the other before  *)
(* its transaction.  A day is a number; 0 is no day.                       *)
(***************************************************************************)
EXTENDS Integers, FiniteSets, DualControl

CONSTANTS
    Rates, RateRow,             \* the rows that may be drafted, by id
    Exemptions, ExemptionRow,
    SeededRates, SeededExemptions,  \* the rows the migration puts in force
    Declarations,               \* what may be declared
    Keys, Clients,
    NoRow,                      \* no row, no key and no declaration
    Word,                       \* 2^63: int64 wraps there
    LastDay                     \* bound on the calendar

(* A vessel's declaration; asOf 0 asks for the day of the request. *)
DeclarationRows ==
    [portCall : BOOLEAN, voyage : STRING, class : STRING, route : STRING,
     entity : STRING, cargo : STRING, flags : SUBSET STRING,
     grt : Nat, freight : Nat, asOf : Nat]

ASSUME TariffAssumption ==
    /\ LastDay \in Nat \ {0} /\ Word \in Nat \ {0}
    /\ SeededRates \subseteq Rates /\ SeededExemptions \subseteq Exemptions
    /\ \A r \in Rates : RateRow[r].floor \in Nat /\ RateRow[r].price \in Nat
    /\ Declarations \subseteq DeclarationRows
    /\ NoRow \notin Rates \cup Exemptions
    /\ NoRow \notin DeclarationRows

VARIABLES
    rate,           \* tariff_rates: state, maker and checker
    exemption,      \* tariff_exemptions: likewise
    drafting,       \* the rate whose overlap check an officer has passed
    assessment,     \* tariff_assessments and their lines, by key
    audit,          \* tariff_exemption_audit
    client,         \* what each Assess call has done
    today

tariffVars ==
    <<rate, exemption, drafting, assessment, audit, client, today>>

-----------------------------------------------------------------------------
(* The engine. *)

Instruments ==
    {"NPA_SHIP_DUES", "NPA_LEVY_ACT", "SEA_PROTECTION_LEVY_2012",
     "CABOTAGE_SURCHARGE", "NIMASA_LNG_CARRIER_DUE", "NIWA_INLAND_CHARGE"}

Applies(i, d) ==
    CASE i \in {"NPA_SHIP_DUES", "NPA_LEVY_ACT", "SEA_PROTECTION_LEVY_2012"} ->
            d.portCall
      [] i = "CABOTAGE_SURCHARGE" -> d.voyage = "CABOTAGE"
      [] i = "NIMASA_LNG_CARRIER_DUE" -> d.class = "LNG_CARRIER" /\ d.portCall
      [] i = "NIWA_INLAND_CHARGE" -> d.route = "INLAND_WATERWAY"

(* Both ends of a window count, here and in the statements that read rows. *)
InWindow(row, day) ==
    /\ row.from <= day
    /\ row.to = 0 \/ day <= row.to

InBand(row, grt) ==
    row.logic = "PER_GRT_BAND" =>
       /\ row.floor <= grt
       /\ row.ceiling = 0 \/ grt < row.ceiling

Exempts(row, d) ==
    CASE row.kind = "ENTITY" -> row.value = d.entity
      [] row.kind = "CARGO_CATEGORY" -> row.value = d.cargo
      [] row.kind = "VOYAGE_FLAG" -> row.value \in d.flags
      [] row.kind = "CABOTAGE_TRADE" -> d.voyage = "CABOTAGE"

(* A product of naturals in an int64. *)
Int64(n) == IF n < Word THEN n ELSE ((n + Word) % (2 * Word)) - Word

(* Division truncates towards zero. *)
Quotient(n, d) == IF n >= 0 THEN n \div d ELSE -((-n) \div d)

(* A numerator that wrapped below zero gives nothing. *)
RoundHalfUp(n, d) ==
    IF n < 0 THEN 0 ELSE Quotient(Quotient(Int64(2 * n), d) + 1, 2)

(* Mutant: rounds down. *)
ChargeDown(row, d) ==
    IF row.logic = "PER_GRT_BAND" THEN Int64(d.grt * row.price)
    ELSE Quotient(Int64(d.freight * row.price), 10000)

Charge(row, d) ==
    IF row.logic = "PER_GRT_BAND" THEN Int64(d.grt * row.price)
    ELSE RoundHalfUp(Int64(d.freight * row.price), 10000)

(* The first row that fits, in the order of the band floors.  Rows with one  *)
(* floor come in any order; those in ahead come before the others.           *)
Fitting(i, d, rates) ==
    {r \in rates : /\ RateRow[r].instrument = i
                   /\ InWindow(RateRow[r], d.asOf)
                   /\ InBand(RateRow[r], d.grt)}

Selected(i, d, rates, ahead) ==
    LET first == {r \in Fitting(i, d, rates) :
                    \A q \in Fitting(i, d, rates) :
                       RateRow[r].floor <= RateRow[q].floor}
    IN IF first \cap ahead # {} THEN CHOOSE r \in first \cap ahead : TRUE
       ELSE CHOOSE r \in first : TRUE

Granted(i, d, exemptions) ==
    {e \in exemptions : /\ ExemptionRow[e].instrument = i
                        /\ InWindow(ExemptionRow[e], d.asOf)
                        /\ Exempts(ExemptionRow[e], d)}

LineItem(outcome, r, e, amount) ==
    [outcome |-> outcome, rate |-> r, exemption |-> e, amount |-> amount]

(* One line to an instrument; exemptions come before the charge. *)
Compute(d, rates, exemptions, ahead) ==
    [i \in Instruments |->
       IF ~ Applies(i, d) THEN LineItem("NOT_APPLICABLE", NoRow, NoRow, 0)
       ELSE IF Fitting(i, d, rates) = {}
       THEN LineItem("UNRATED", NoRow, NoRow, 0)
       ELSE LET r == Selected(i, d, rates, ahead)
                granted == Granted(i, d, exemptions)
            IN IF granted # {}
               THEN LineItem("EXEMPT", r, CHOOSE e \in granted : TRUE, 0)
               ELSE LineItem("CHARGED", r, NoRow, Charge(RateRow[r], d))]

-----------------------------------------------------------------------------
(* The officers. *)

Overlaps(r, q) ==
    /\ RateRow[r].instrument = RateRow[q].instrument
    /\ RateRow[r].floor = RateRow[q].floor
    /\ RateRow[r].to = 0 \/ RateRow[q].from <= RateRow[r].to
    /\ RateRow[q].to = 0 \/ RateRow[r].from <= RateRow[q].to

(* The check and the insert of CreateRate are two statements: a row that     *)
(* another officer inserts in between is not seen.                           *)
CheckRate(o, r) ==
    /\ drafting[o] = NoRow
    /\ \A q \in Rates : rate[q].state # "none" => ~ Overlaps(r, q)
    /\ drafting' = [drafting EXCEPT ![o] = r]
    /\ UNCHANGED <<rate, exemption, assessment, audit, client, today>>

(* The primary key refuses a row that was inserted meanwhile. *)
CreateRate(o) ==
    /\ drafting[o] # NoRow
    /\ rate' = [rate EXCEPT ![drafting[o]] =
                  IF @.state = "none" THEN Draft(o) ELSE @]
    /\ drafting' = [drafting EXCEPT ![o] = NoRow]
    /\ UNCHANGED <<exemption, assessment, audit, client, today>>

ActivateRate(o, r) ==
    /\ Activatable(rate[r], o)
    /\ rate' = [rate EXCEPT ![r] = Active(@, o)]
    /\ UNCHANGED <<exemption, drafting, assessment, audit, client, today>>

CreateExemption(o, e) ==
    /\ exemption[e].state = "none"
    /\ exemption' = [exemption EXCEPT ![e] = Draft(o)]
    /\ UNCHANGED <<rate, drafting, assessment, audit, client, today>>

ActivateExemption(o, e) ==
    /\ Activatable(exemption[e], o)
    /\ exemption' = [exemption EXCEPT ![e] = Active(@, o)]
    /\ UNCHANGED <<rate, drafting, assessment, audit, client, today>>

-----------------------------------------------------------------------------
(* Assess.  A client makes one call; a retry is another client with the same *)
(* key.                                                                      *)

NoAssessment == [declaration |-> NoRow, lines |-> NoRow]

NewCall == [pc |-> "new", key |-> NoRow, declaration |-> NoRow,
            rates |-> {}, exemptions |-> {}, answer |-> NoAssessment]

(* A declaration without a date is dated before it is hashed. *)
Dated(d) == IF d.asOf = 0 THEN [d EXCEPT !.asOf = today] ELSE d

(* What a stored key answers: its assessment, or a conflict. *)
Replay(call, k) ==
    IF assessment[k].declaration = call.declaration
    THEN [call EXCEPT !.pc = "answered", !.answer = assessment[k]]
    ELSE [call EXCEPT !.pc = "conflict"]

Lookup(c, k, d) ==
    /\ client[c].pc = "new"
    /\ LET call == [NewCall EXCEPT !.key = k, !.declaration = Dated(d)]
       IN client' = [client EXCEPT ![c] =
                       IF assessment[k] # NoAssessment THEN Replay(call, k)
                       ELSE [call EXCEPT !.pc = "rates"]]
    /\ UNCHANGED <<rate, exemption, drafting, assessment, audit, today>>

ListActiveRates(c) ==
    /\ client[c].pc = "rates"
    /\ client' = [client EXCEPT
         ![c].rates = {r \in Rates :
                         /\ rate[r].state = "ACTIVE"
                         /\ InWindow(RateRow[r], client[c].declaration.asOf)},
         ![c].pc = "exemptions"]
    /\ UNCHANGED <<rate, exemption, drafting, assessment, audit, today>>

ListActiveExemptions(c) ==
    /\ client[c].pc = "exemptions"
    /\ client' = [client EXCEPT
         ![c].exemptions =
            {e \in Exemptions :
               /\ exemption[e].state = "ACTIVE"
               /\ InWindow(ExemptionRow[e], client[c].declaration.asOf)},
         ![c].pc = "insert"]
    /\ UNCHANGED <<rate, exemption, drafting, assessment, audit, today>>

(* Mutant: the loser of a race for the key answers with what it computed. *)
AnswerComputed(call, k, computed) ==
    [call EXCEPT !.pc = "answered", !.answer = computed]

(* The unique key decides a race of two calls: the loser reads the key again *)
(* and replays what the winner stored.                                       *)
AnswerTwin(call, k, computed) == Replay(call, k)

(* What the caller of a transaction that committed gets: its result, or an   *)
(* error when the answer to the commit is lost or the read after it fails.   *)
Told(call, result) ==
    {[call EXCEPT !.pc = "answered", !.answer = result],
     [call EXCEPT !.pc = "failed"]}

(* The transaction: the assessment, its lines and an audit row to every      *)
(* exemption applied, or nothing.  The table refuses an amount below zero.   *)
Assess(c) ==
    LET call == client[c]
        k == call.key
    IN /\ call.pc = "insert"
       /\ \E ahead \in SUBSET call.rates :
            LET lines == Compute(call.declaration, call.rates,
                                 call.exemptions, ahead)
                computed == [declaration |-> call.declaration, lines |-> lines]
            IN IF assessment[k] # NoAssessment
               THEN /\ client' = [client EXCEPT
                                    ![c] = AnswerTwin(call, k, computed)]
                    /\ UNCHANGED <<assessment, audit>>
               ELSE /\ \A i \in Instruments : lines[i].amount >= 0
                    /\ assessment' = [assessment EXCEPT ![k] = computed]
                    /\ audit' = audit \cup
                         {[key |-> k, instrument |-> i,
                           exemption |-> lines[i].exemption] :
                            i \in {j \in Instruments :
                                     lines[j].outcome = "EXEMPT"}}
                    /\ \E told \in Told(call, computed) :
                         client' = [client EXCEPT ![c] = told]
       /\ UNCHANGED <<rate, exemption, drafting, today>>

(* A read or the transaction fails and leaves nothing: the caller is told.   *)
AssessFails(c) ==
    /\ client[c].pc \in {"rates", "exemptions", "insert"}
    /\ client' = [client EXCEPT ![c].pc = "failed"]
    /\ UNCHANGED <<rate, exemption, drafting, assessment, audit, today>>

Tick ==
    /\ today < LastDay
    /\ today' = today + 1
    /\ UNCHANGED <<rate, exemption, drafting, assessment, audit, client>>

-----------------------------------------------------------------------------

TariffInit ==
    /\ rate = [r \in Rates |->
                 IF r \in SeededRates THEN Seeded ELSE NoState]
    /\ exemption = [e \in Exemptions |->
                      IF e \in SeededExemptions THEN Seeded ELSE NoState]
    /\ drafting = [o \in Officers |-> NoRow]
    /\ assessment = [k \in Keys |-> NoAssessment]
    /\ audit = {}
    /\ client = [c \in Clients |-> NewCall]
    /\ today = 1

OfficerActs(o) ==
    \/ \E r \in Rates : CheckRate(o, r) \/ ActivateRate(o, r)
    \/ CreateRate(o)
    \/ \E e \in Exemptions : CreateExemption(o, e) \/ ActivateExemption(o, e)

ClientActs(c) ==
    \/ \E k \in Keys, d \in Declarations : Lookup(c, k, d)
    \/ ListActiveRates(c)
    \/ ListActiveExemptions(c)
    \/ Assess(c)
    \/ AssessFails(c)

TariffNext ==
    \/ \E o \in Officers : OfficerActs(o)
    \/ \E c \in Clients : ClientActs(c)
    \/ Tick

TariffSpec == TariffInit /\ [][TariffNext]_tariffVars

-----------------------------------------------------------------------------
(* Properties. *)

RowStates ==
    [state : {"none", "DRAFT", "ACTIVE"},
     maker : Officers \cup {NoOfficer, Migration},
     checker : Officers \cup {NoOfficer, Reviewer}]

LineRows ==
    [outcome : {"NOT_APPLICABLE", "UNRATED", "EXEMPT", "CHARGED"},
     rate : Rates \cup {NoRow}, exemption : Exemptions \cup {NoRow},
     amount : Int]

AssessmentRows ==
    [declaration : DeclarationRows, lines : [Instruments -> LineRows]]

CallStates ==
    [pc : {"new", "rates", "exemptions", "insert", "answered", "conflict",
           "failed"},
     key : Keys \cup {NoRow}, declaration : DeclarationRows \cup {NoRow},
     rates : SUBSET Rates, exemptions : SUBSET Exemptions,
     answer : AssessmentRows \cup {NoAssessment}]

TariffTypeOK ==
    /\ rate \in [Rates -> RowStates]
    /\ exemption \in [Exemptions -> RowStates]
    /\ drafting \in [Officers -> Rates \cup {NoRow}]
    /\ assessment \in [Keys -> AssessmentRows \cup {NoAssessment}]
    /\ audit \subseteq [key : Keys, instrument : Instruments,
                        exemption : Exemptions]
    /\ client \in [Clients -> CallStates]
    /\ today \in 1..LastDay

(* A charge nobody may dispute: a row in force for the instrument, the day   *)
(* and the tonnage, and the amount nearest to its exact share of the freight *)
(* or the exact product with the tonnage, as long as an int64 holds what is  *)
(* computed on the way.                                                      *)
Justified(i, d, line) ==
    LET row == RateRow[line.rate]
    IN /\ InForce(rate[line.rate])
       /\ row.instrument = i
       /\ row.from <= d.asOf /\ (row.to # 0 => d.asOf <= row.to)
       /\ IF row.logic = "PER_GRT_BAND"
          THEN /\ row.floor <= d.grt /\ (row.ceiling # 0 => d.grt < row.ceiling)
               /\ d.grt * row.price < Word => line.amount = d.grt * row.price
          ELSE 2 * d.freight * row.price < Word =>
               /\ 20000 * line.amount <= 2 * d.freight * row.price + 10000
               /\ 20000 * line.amount > 2 * d.freight * row.price - 10000

(* Every stored line stands on rows that two officers put in force, whatever *)
(* they did while the assessment read its rows (tariff/engine.go Compute,    *)
(* store.go Assess): a charge is justified, money is waived only by an       *)
(* exemption in force that covers the declaration and has its audit row, and *)
(* nothing is audited that was not waived.                                   *)
LinesAreJustified ==
    /\ \A k \in {j \in Keys : assessment[j] # NoAssessment} :
         LET d == assessment[k].declaration
         IN \A i \in Instruments :
              LET line == assessment[k].lines[i]
              IN /\ line.outcome = "CHARGED" => Justified(i, d, line)
                 /\ line.outcome # "CHARGED" => line.amount = 0
                 /\ line.outcome = "EXEMPT" =>
                      /\ InForce(exemption[line.exemption])
                      /\ line.exemption \in Granted(i, d, {line.exemption})
                      /\ [key |-> k, instrument |-> i,
                          exemption |-> line.exemption] \in audit
    /\ \A a \in audit :
         LET line == assessment[a.key].lines[a.instrument]
         IN line.outcome = "EXEMPT" /\ line.exemption = a.exemption

(* What the comment on windowContains says (tariff/engine.go:67): the day a  *)
(* window ends is outside it, so no charge stands on a row on that day.      *)
WindowIsHalfOpen ==
    \A k \in {j \in Keys : assessment[j] # NoAssessment}, i \in Instruments :
       LET line == assessment[k].lines[i]
           to == RateRow[line.rate].to
       IN line.outcome = "CHARGED" =>
            to = 0 \/ assessment[k].declaration.asOf < to

(* Calls with one key get one answer, the stored assessment of their own     *)
(* declaration, even when they raced and read different rows, or one stored   *)
(* it without hearing of it (tariff/store.go Assess: the unique key and the  *)
(* replay after a lost insert).                                              *)
SameAnswer ==
    \A c \in Clients :
       client[c].pc = "answered" =>
          /\ client[c].answer = assessment[client[c].key]
          /\ client[c].answer.declaration = client[c].declaration
=============================================================================
