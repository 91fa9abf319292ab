---------------------------- MODULE RevenueSplit ----------------------------
(***************************************************************************)
(* The TSA split (internal/revenue/split.go, split_store.go): split rules  *)
(* under dual control, and remittance advices that divide one settlement   *)
(* over the beneficiaries of the rules in force.                           *)
(*                                                                         *)
(* An issuer reads the key, the rules of the line, the catch-all rules     *)
(* when the line has none, and the rules once more for the agency, before  *)
(* its transaction; officers draft and activate rules meanwhile.           *)
(***************************************************************************)
EXTENDS Integers, FiniteSets, FiniteSetsExt, DualControl

CONSTANTS
    SplitRules, SplitRow,   \* the rules that may be drafted, by id
    SeededRules,            \* rules the migration puts in force
    CatchAll,               \* the revenue line '*'
    NoRule,                 \* no key, no request and no agency
    Payments,               \* settlements: an amount in minor units
    AdviceKeys, Issuers,
    AdviceRequests          \* [payment, line, asOf]

Bps == 10000

ASSUME SplitAssumption ==
    /\ \A r \in SplitRules : SplitRow[r].bps \in 1..Bps
    /\ SeededRules \subseteq SplitRules /\ IsFiniteSet(SeededRules)
    /\ Payments \subseteq Nat \ {0}
    /\ \A request \in AdviceRequests : request.payment \in Payments
    /\ NoRule \notin AdviceRequests

VARIABLES
    rule,       \* tsa_split_rules: state, maker and checker
    advice,     \* tsa_remittance_advices, by key
    issuer      \* what each IssueRemittanceAdvice call has done

splitVars == <<rule, advice, issuer>>

-----------------------------------------------------------------------------
(* ComputeSplit. *)

Share(amount, r) == ((2 * amount * SplitRow[r].bps) \div Bps + 1) \div 2

Distributed(amount, rules) ==
    SumFunction([r \in rules |-> Share(amount, r)])

Largest(rules) ==
    CHOOSE r \in rules : \A q \in rules : SplitRow[q].bps <= SplitRow[r].bps

(* Mutant: the residual is dropped. *)
AllocationsRounded(amount, rules) == [r \in rules |-> Share(amount, r)]

(* What rounding left over or took too much goes to the largest leg. *)
Allocations(amount, rules) ==
    [r \in rules |->
       IF r = Largest(rules)
       THEN Share(amount, r) + amount - Distributed(amount, rules)
       ELSE Share(amount, r)]

(* The rules must cover the whole amount, and no leg may be negative. *)
Splits(amount, rules) ==
    /\ rules # {}
    /\ SumFunction([r \in rules |-> SplitRow[r].bps]) = Bps
    /\ \A r \in rules : Allocations(amount, rules)[r] >= 0

-----------------------------------------------------------------------------
(* The rules. *)

CreateSplitRule(o, r) ==
    /\ rule[r].state = "none"
    /\ rule' = [rule EXCEPT ![r] = Draft(o)]
    /\ UNCHANGED <<advice, issuer>>

ActivateSplitRule(o, r) ==
    /\ Activatable(rule[r], o)
    /\ rule' = [rule EXCEPT ![r] = Active(@, o)]
    /\ UNCHANGED <<advice, issuer>>

QuerySplitRules(line, day) ==
    {r \in SplitRules : /\ rule[r].state = "ACTIVE"
                        /\ SplitRow[r].line = line
                        /\ SplitRow[r].from <= day
                        /\ SplitRow[r].to = 0 \/ day <= SplitRow[r].to}

-----------------------------------------------------------------------------
(* IssueRemittanceAdvice. *)

NoAdvice == [request |-> NoRule, allocations |-> NoRule, agency |-> NoRule]

NewIssue == [pc |-> "new", key |-> NoRule, request |-> NoRule, rules |-> {},
             agency |-> NoRule, answer |-> NoAdvice]

ReplayAdvice(call, k) ==
    IF advice[k].request = call.request
    THEN [call EXCEPT !.pc = "answered", !.answer = advice[k]]
    ELSE [call EXCEPT !.pc = "conflict"]

LookupAdvice(i, k, request) ==
    /\ issuer[i].pc = "new"
    /\ LET call == [NewIssue EXCEPT !.key = k, !.request = request]
       IN issuer' = [issuer EXCEPT ![i] =
                       IF advice[k] # NoAdvice THEN ReplayAdvice(call, k)
                       ELSE [call EXCEPT !.pc = "exact"]]
    /\ UNCHANGED <<rule, advice>>

(* With the rules it read the split is computed or refused. *)
WithRules(call, rules) ==
    [call EXCEPT !.rules = rules,
                 !.pc = IF Splits(call.request.payment, rules)
                        THEN "agency" ELSE "refused"]

ReadExactRules(i) ==
    LET call == issuer[i]
        exact == QuerySplitRules(call.request.line, call.request.asOf)
    IN /\ call.pc = "exact"
       /\ issuer' = [issuer EXCEPT ![i] =
            IF exact = {} THEN [call EXCEPT !.pc = "catchall"]
            ELSE WithRules(call, exact)]
       /\ UNCHANGED <<rule, advice>>

ReadCatchAllRules(i) ==
    LET call == issuer[i]
    IN /\ call.pc = "catchall"
       /\ issuer' = [issuer EXCEPT ![i] =
            WithRules(call, QuerySplitRules(CatchAll, call.request.asOf))]
       /\ UNCHANGED <<rule, advice>>

(* The agency is that of the first rule of a second read, whose rules may    *)
(* differ by now; an error of that read leaves no agency.                    *)
AgencyNow(request) ==
    LET exact == QuerySplitRules(request.line, request.asOf)
        now == IF exact # {} THEN exact
               ELSE QuerySplitRules(CatchAll, request.asOf)
        first == {r \in now : \A q \in now : SplitRow[q].bps <= SplitRow[r].bps}
    IN {NoRule} \cup {SplitRow[r].agency : r \in first}

ReadAgency(i) ==
    /\ issuer[i].pc = "agency"
    /\ \E a \in AgencyNow(issuer[i].request) :
         issuer' = [issuer EXCEPT ![i].pc = "insert", ![i].agency = a]
    /\ UNCHANGED <<rule, advice>>

(* What the issuer of a stored advice gets: the advice, or an error when the *)
(* answer to the commit is lost.                                             *)
ToldAdvice(call, result) ==
    {[call EXCEPT !.pc = "answered", !.answer = result],
     [call EXCEPT !.pc = "failed"]}

(* The transaction.  The unique key decides a race; the loser replays. *)
IssueRemittanceAdvice(i) ==
    LET call == issuer[i]
        k == call.key
        computed == [request |-> call.request,
                     allocations |-> Allocations(call.request.payment,
                                                 call.rules),
                     agency |-> call.agency]
    IN /\ call.pc = "insert"
       /\ IF advice[k] # NoAdvice
          THEN /\ issuer' = [issuer EXCEPT ![i] = ReplayAdvice(call, k)]
               /\ UNCHANGED advice
          ELSE /\ advice' = [advice EXCEPT ![k] = computed]
               /\ \E told \in ToldAdvice(call, computed) :
                    issuer' = [issuer EXCEPT ![i] = told]
       /\ UNCHANGED rule

(* A read, the seal or the transaction fails and leaves nothing. *)
IssueFails(i) ==
    /\ issuer[i].pc \in {"exact", "catchall", "agency", "insert"}
    /\ issuer' = [issuer EXCEPT ![i].pc = "failed"]
    /\ UNCHANGED <<rule, advice>>

-----------------------------------------------------------------------------

SplitInit ==
    /\ rule = [r \in SplitRules |->
                 IF r \in SeededRules THEN Seeded ELSE NoState]
    /\ advice = [k \in AdviceKeys |-> NoAdvice]
    /\ issuer = [i \in Issuers |-> NewIssue]

IssuerActs(i) ==
    \/ \E k \in AdviceKeys, request \in AdviceRequests :
         LookupAdvice(i, k, request)
    \/ ReadExactRules(i)
    \/ ReadCatchAllRules(i)
    \/ ReadAgency(i)
    \/ IssueRemittanceAdvice(i)
    \/ IssueFails(i)

SplitNext ==
    \/ \E o \in Officers, r \in SplitRules :
         CreateSplitRule(o, r) \/ ActivateSplitRule(o, r)
    \/ \E i \in Issuers : IssuerActs(i)

SplitSpec == SplitInit /\ [][SplitNext]_splitVars

-----------------------------------------------------------------------------
(* Properties. *)

(* Not a minor unit of a settlement is lost or made up (split.go             *)
(* ComputeSplit): the legs of an issued advice are not negative and add up   *)
(* to the payment, whatever rounding does to them; they come from rules of   *)
(* one line that were all put in force by two officers, and every issuer     *)
(* with the key was answered with that one advice.                           *)
EveryMinorUnitIsAllocated ==
    /\ \A k \in {j \in AdviceKeys : advice[j] # NoAdvice} :
         LET legs == advice[k].allocations
         IN /\ SumFunction(legs) = advice[k].request.payment
            /\ \A r \in DOMAIN legs : legs[r] >= 0 /\ InForce(rule[r])
            /\ \E line \in {advice[k].request.line, CatchAll} :
                 \A r \in DOMAIN legs : SplitRow[r].line = line
    /\ \A i \in Issuers :
         issuer[i].pc = "answered" =>
            /\ issuer[i].answer = advice[issuer[i].key]
            /\ issuer[i].answer.request = issuer[i].request
=============================================================================
