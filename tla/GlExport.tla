------------------------------ MODULE GlExport ------------------------------
(***************************************************************************)
(* The general-ledger export (internal/glexport): statements and payment   *)
(* files rendered from a journal that is derived on every read from the    *)
(* settlement and disbursement records, period closes under dual control,  *)
(* and the reconciliation of the journal with the recorded statements.     *)
(*                                                                         *)
(* Every service call makes its reads one after the other and then writes  *)
(* one row, while collections and disbursements go on.  One currency; a    *)
(* period is a set of days.                                                *)
(***************************************************************************)
EXTENDS Integers, FiniteSets, FiniteSetsExt, DualControl

CONSTANTS
    Settlements, Disbursements,     \* the records that may be written
    AmountOf, DayOf,                \* their amounts and value dates
    Periods, DaysOf,
    Desks,                          \* who calls the export service
    NoPeriod

Records == Settlements \cup Disbursements

ASSUME GlAssumption ==
    /\ Settlements \cap Disbursements = {}
    /\ \A x \in Records : AmountOf[x] \in Nat \ {0} /\ DayOf[x] \in Nat
    /\ NoPeriod \notin Periods

VARIABLES
    booked,     \* settlements, and disbursement legs of an approved application
    parked,     \* disbursements with legs whose application left those states
    statement,  \* export_batches, camt.053: by account and period
    payments,   \* export_batches, pain.001: by period
    close,      \* period_close
    runs,       \* reconciliation_runs
    desk        \* what each call of the service has read

glVars == <<booked, parked, statement, payments, close, runs, desk>>

Accounts == {"TSA", "REVENUE", "CVFF:EXPENSE"}

-----------------------------------------------------------------------------
(* The journal: a debit and a credit leg to every record. *)

(* Mutant: the expense leg outlives the approval of its application. *)
DebitsLoose(account) ==
    CASE account = "TSA" -> booked \cap Settlements
      [] account = "CVFF:EXPENSE" -> (booked \cup parked) \cap Disbursements
      [] account = "REVENUE" -> {}

Debits(account) ==
    CASE account = "TSA" -> booked \cap Settlements
      [] account = "CVFF:EXPENSE" -> booked \cap Disbursements
      [] account = "REVENUE" -> {}

Credits(account) ==
    CASE account = "TSA" -> booked \cap Disbursements
      [] account = "REVENUE" -> booked \cap Settlements
      [] account = "CVFF:EXPENSE" -> {}

During(records, days) == {x \in records : DayOf[x] \in days}

Before(records, p) == {x \in records : \A d \in DaysOf[p] : DayOf[x] < d}

Total(records) == SumFunctionOnSet(AmountOf, records)

(* The rows of an account in a period: its debit and its credit entries. *)
JournalEntries(account, p) ==
    [debit |-> During(Debits(account), DaysOf[p]),
     credit |-> During(Credits(account), DaysOf[p])]

TrialBalance(p) ==
    [a \in Accounts |-> [debit |-> Total(JournalEntries(a, p).debit),
                         credit |-> Total(JournalEntries(a, p).credit)]]

Moved(row) == row.debit # 0 \/ row.credit # 0

(* The signed balance, credit minus debit. *)
OpeningBalance(account, p) ==
    Total(Before(Credits(account), p)) - Total(Before(Debits(account), p))

-----------------------------------------------------------------------------
(* Collections and disbursements. *)

ledgerSide == <<booked, parked>>

exportSide == <<statement, payments, close, runs, desk>>

Settle(x) ==
    /\ x \in Settlements \ booked
    /\ booked' = booked \cup {x}
    /\ UNCHANGED <<parked, exportSide>>

(* The legs of a disbursement are recorded. *)
Disburse(x) ==
    /\ x \in Disbursements \ (booked \cup parked)
    /\ booked' = booked \cup {x}
    /\ UNCHANGED <<parked, exportSide>>

(* The application is sent to reconciliation, or comes back from it. *)
Park(x) ==
    /\ x \in Disbursements \cap booked
    /\ booked' = booked \ {x}
    /\ parked' = parked \cup {x}
    /\ UNCHANGED exportSide

Unpark(x) ==
    /\ x \in parked
    /\ booked' = booked \cup {x}
    /\ parked' = parked \ {x}
    /\ UNCHANGED exportSide

-----------------------------------------------------------------------------
(* A call of the service. *)

Free == [does |-> "nothing", period |-> NoPeriod]

Begins(c, call) ==
    /\ desk[c] = Free
    /\ desk' = [desk EXCEPT ![c] = call]
    /\ UNCHANGED <<ledgerSide, statement, payments, close, runs>>

Continues(c, call) ==
    /\ desk' = [desk EXCEPT ![c] = call]
    /\ UNCHANGED <<ledgerSide, statement, payments, close, runs>>

Ends(c) == desk' = [desk EXCEPT ![c] = Free]

(* ExportStatement: the journal, then the opening balance, then the batch    *)
(* whose id is that of the account and the period.                           *)
ReadJournal(c, account, p) ==
    Begins(c, [does |-> "open", period |-> p, account |-> account,
               entries |-> JournalEntries(account, p)])

ReadOpening(c) ==
    /\ desk[c].does = "open"
    /\ Continues(c, [does |-> "statement", period |-> desk[c].period,
                     account |-> desk[c].account, entries |-> desk[c].entries,
                     opening |-> OpeningBalance(desk[c].account,
                                                desk[c].period)])

(* BuildCamt053: a debit of the journal is money in. *)
BuildCamt053(call) ==
    [entries |-> call.entries,
     debit |-> Total(call.entries.debit), credit |-> Total(call.entries.credit),
     opening |-> call.opening,
     closing |-> call.opening + Total(call.entries.debit)
                    - Total(call.entries.credit)]

NoExport == [entries |-> NoPeriod]

ExportStatement(c) ==
    LET call == desk[c]
        id == <<call.account, call.period>>
    IN /\ call.does = "statement"
       /\ statement' = [statement EXCEPT ![id] =
                          IF @ = NoExport THEN BuildCamt053(call) ELSE @]
       /\ Ends(c)
       /\ UNCHANGED <<ledgerSide, payments, close, runs>>

(* ExportCreditTransfers: an empty file is refused. *)
ReadInstructions(c, p) ==
    LET instructions == During(booked \cap Disbursements, DaysOf[p])
    IN /\ instructions # {}
       /\ Begins(c, [does |-> "payments", period |-> p,
                     instructions |-> instructions])

ExportCreditTransfers(c) ==
    /\ desk[c].does = "payments"
    /\ payments' = [payments EXCEPT ![desk[c].period] =
                      IF @ = {} THEN desk[c].instructions ELSE @]
    /\ Ends(c)
    /\ UNCHANGED <<ledgerSide, statement, close, runs>>

(* The maker of a close; the checker reads the trial balance and freezes it. *)
NoClose == [state |-> "none", maker |-> NoOfficer, checker |-> NoOfficer,
            balance |-> NoPeriod]

RequestPeriodClose(o, p) ==
    /\ close[p] = NoClose
    /\ close' = [close EXCEPT ![p] =
                   [state |-> "PENDING_APPROVAL", maker |-> o,
                    checker |-> NoOfficer, balance |-> NoPeriod]]
    /\ UNCHANGED <<ledgerSide, statement, payments, runs, desk>>

ReadTrialBalance(c, o, p) ==
    /\ close[p] # NoClose
    /\ Begins(c, [does |-> "close", period |-> p, officer |-> o,
                  balance |-> TrialBalance(p)])

ApprovePeriodClose(c) ==
    LET call == desk[c]
        row == close[call.period]
    IN /\ call.does = "close"
       /\ close' = IF row.state = "PENDING_APPROVAL" /\ row.maker # call.officer
                   THEN [close EXCEPT ![call.period] =
                           [state |-> "CLOSED", maker |-> row.maker,
                            checker |-> call.officer, balance |-> call.balance]]
                   ELSE close
       /\ Ends(c)
       /\ UNCHANGED <<ledgerSide, statement, payments, runs>>

(* RunReconciliation: the trial balance, then the batches of the period. *)
ReadBooks(c, p) ==
    Begins(c, [does |-> "recon", period |-> p, balance |-> TrialBalance(p),
               collected |-> JournalEntries("REVENUE", p).credit])

(* Mutant: accounts without a statement are passed over. *)
DifferencesFound(p, balance) ==
    {a \in Accounts :
       LET batch == statement[<<a, p>>]
       IN /\ batch # NoExport
          /\ \/ batch.debit # balance[a].debit
             \/ batch.credit # balance[a].credit}

(* An account that moved and has no statement, whose statement has other     *)
(* totals, or that has a statement and did not move.                         *)
Differences(p, balance) ==
    {a \in Accounts :
       LET batch == statement[<<a, p>>]
       IN IF batch = NoExport THEN Moved(balance[a])
          ELSE \/ ~ Moved(balance[a])
               \/ batch.debit # balance[a].debit
               \/ batch.credit # balance[a].credit}

RunReconciliation(c) ==
    LET call == desk[c]
    IN /\ call.does = "recon"
       /\ runs' = runs \cup
            {[period |-> call.period, collected |-> call.collected,
              balance |-> call.balance,
              balanced |-> Differences(call.period, call.balance) = {}]}
       /\ Ends(c)
       /\ UNCHANGED <<ledgerSide, statement, payments, close>>

(* A read or the write fails. *)
CallFails(c) ==
    /\ desk[c] # Free
    /\ Continues(c, Free)

-----------------------------------------------------------------------------

GlInit ==
    /\ booked = {} /\ parked = {}
    /\ statement = [id \in Accounts \X Periods |-> NoExport]
    /\ payments = [p \in Periods |-> {}]
    /\ close = [p \in Periods |-> NoClose]
    /\ runs = {}
    /\ desk = [c \in Desks |-> Free]

DeskActs(c) ==
    \/ \E p \in Periods :
         \/ \E a \in Accounts : ReadJournal(c, a, p)
         \/ ReadInstructions(c, p)
         \/ \E o \in Officers : ReadTrialBalance(c, o, p)
         \/ ReadBooks(c, p)
    \/ ReadOpening(c)
    \/ ExportStatement(c)
    \/ ExportCreditTransfers(c)
    \/ ApprovePeriodClose(c)
    \/ RunReconciliation(c)
    \/ CallFails(c)

GlNext ==
    \/ \E x \in Settlements : Settle(x)
    \/ \E x \in Disbursements : Disburse(x) \/ Park(x) \/ Unpark(x)
    \/ \E o \in Officers, p \in Periods : RequestPeriodClose(o, p)
    \/ \E c \in Desks : DeskActs(c)

GlSpec == GlInit /\ [][GlNext]_glVars

-----------------------------------------------------------------------------
(* Properties. *)

(* Double entry: the debits of the accounts add up to their credits. *)
InBalance(balance) == SumFunction([a \in Accounts |-> balance[a].debit])
                         = SumFunction([a \in Accounts |-> balance[a].credit])

(* Evidence is in balance (store.go journalInnerSQL, TrialBalance): whatever *)
(* is collected, disbursed or sent to reconciliation between the reads, the  *)
(* trial balance frozen with a close, approved by a second officer, and the  *)
(* one kept with a reconciliation run have equal debits and credits.         *)
EvidenceBalances ==
    /\ \A p \in Periods :
         close[p].state = "CLOSED" =>
            /\ close[p].checker # close[p].maker
            /\ InBalance(close[p].balance)
    /\ \A run \in runs : InBalance(run.balance)

(* A balanced run says that the revenue statement of the period lists the    *)
(* very collections the journal held (service.go RunReconciliation compares  *)
(* totals, read in two steps, with a statement read at a third moment).      *)
BalancedMeansExported ==
    \A run \in runs :
       run.balanced =>
          LET batch == statement[<<"REVENUE", run.period>>]
          IN IF run.collected = {} THEN TRUE
             ELSE /\ batch # NoExport
                  /\ batch.entries.credit = run.collected

(* A statement shows the owner's position: iso20022.go says that a journal   *)
(* debit is money in, so a statement that opens after collections and no     *)
(* disbursement opens in credit, where the previous one closed.              *)
StatementsChain ==
    \A p, q \in Periods, a \in Accounts :
       LET first == statement[<<a, p>>]
           second == statement[<<a, q>>]
       IN ( /\ first # NoExport /\ second # NoExport
            /\ \A d \in DaysOf[p], e \in DaysOf[q] : d < e )
          => \/ second.opening = first.closing
             \/ first.entries # JournalEntries(a, p)
=============================================================================
