# TLA+ verification of the financial controls services

The modules here model the money-moving parts of the repository, check them with
TLC on small instances and prove their main properties with TLAPS for every value
of the constants. Each definition that stands for code is mapped to its lines in
`PROJECT.json`.

## The system and its parts

Go services share one PostgreSQL database, one TigerBeetle cluster, Temporal and
Kafka. A service keeps no state of its own between requests: everything durable is
a row, a ledger transfer, a workflow history or a topic. What makes them hard to
get right is that no two of these stores commit together.

| Part | State | Operations | Talks to | What makes it correct |
|---|---|---|---|---|
| `internal/intent` | `financial_intents`, `financial_intent_outbox` | create, approve, void draft, transition, resolve ambiguous | orchestration (calls), outbox (rows) | one outcome per intent, four eyes, every write announced |
| `internal/orchestration` | none: it drives an intent row and its three deterministic transfers | reserve, post, void, observe, officer resolution | intent store, ledger | the row never contradicts the cluster, whatever crashed or arrived late |
| `internal/ledger` | TigerBeetle accounts and transfers | reserve, post, void, look up, disbursement pair | TigerBeetle | ids are created once, an existing id is accepted only with equal content |
| `internal/cvff`, `internal/workflow`, `internal/cvffapi` | application, bindings, approvals, legs, outbox; a Temporal execution; buffered signals | intake, bind, decide, park, resolve, disburse, audit, escalate | ledger, fx, Temporal | no party skipped, money only after five approvals, true dual-ledger report |
| `internal/outbox` | `published_at` of the outbox rows | read batch, publish, mark | Kafka | nothing lost, nothing overtakes what was there before it, everything drained |
| `internal/fx` | `fx_rates` | enter, confirm, reject, expire | cvff rail | two persons per rate, one rate per date, rounding half up |
| `internal/mojaloop` | quotes, outbound transfers, callbacks, time-out events | quote, transfer, callbacks, recovery, sweep | the Hub over HTTP | a transfer commits only on a satisfied condition, never twice |
| `internal/tradefinance` | consents, applications, audit chain, outbox | request, activate, revoke, disclose, submit, decide, bind accounts | bank API, ledger | no data without an active consent, unbroken audit chain |
| `internal/revenue`, `internal/settlementsync` | debit notes, split rules, advices, settlements, statements, runs, exceptions, cursor | issue, transition, split, ingest, reconcile, resolve, mirror | ledger | settled means paid, money counted once, no kobo lost in a split, the mirror is the ledger |
| `internal/revenueintake`, `internal/stampsintake` | landed events, consumer offsets | verify, land, commit offset | Kafka | nothing unverified landed, nothing skipped |
| `internal/tariff` | rates, exemptions, assessments and their lines, exemption audit | draft, activate, assess | revenue | every charge and waiver stands on rows in force, one answer to a key |
| `internal/glexport` | export batches, period closes, reconciliation runs; the journal is derived on every read | export statements and payments, request and approve a close, reconcile | ERP feeds | evidence balances, a balanced run means exported statements |
| `internal/riskscore`, `internal/reconciliation` | none | score, compare | | pure functions |
| `internal/pbac`, `internal/envelope`, `internal/telemetry`, `cmd/*` | configuration | authorise, sign, trace, wire | | deny by default; wiring only |

The hard behaviours are listed with their lines under `hazards` in `PROJECT.json`:
lookups that are stale when acted on, creates that land after their sender gave up,
processes that die between two stores, activities that are retried after their
commit, signals that arrive late, twice or for a wait that is over, publishers that
share a table or a partition, tables that are read one after the other while others write
them, roundings that must add up, and rows no process can get past.

## Modules

| Module | Models |
|---|---|
| `ControlledPayment` | what a caller of the intent rail is promised: proposed, authorised by a second person, moved at most once, settled only if moved, cancelled only if not |
| `OrderedDelivery` | what the outboxes promise: an event is delivered after it is written and after the older events of its table that were there before it, and marked only when delivered |
| `AnswerOnce` | what an idempotency key promises: one stored result, whether or not the call that stored it hears of it, and no other answer |
| `FinancialIntent` | intent rows, the processes that drive them, and the TigerBeetle transfers |
| `CvffDisbursement` | one CVFF application: rows, Temporal workflow, API requests, the disbursement pair |
| `OutboxPublisher` | the publisher processes, the outbox tables and the topic |
| `MojaloopPayout` | the outbound leg of the Mojaloop adapter: payouts, quotes, transfers, the Hub |
| `MojaloopCallback` | the inbound leg: the rows the Hub's callbacks write, and the sweep of stranded reservations |
| `TradeFinance` | traders' consents and their audit trails, banks' reads, applications and the decisions on them |
| `SettlementSync` | the processes that mirror the ledgers' collections into `settlement_records`, with a cursor per ledger |
| `IntakeConsumer` | the consumer groups of `revenueintake` and `stampsintake`: verify, land, commit |
| `RevenueRecon` | debit notes, settlements, statement lines, intake assessments and the three-way runs over them |
| `DualControl` | the guarded rows that one officer drafts and another activates |
| `TariffSchedule` | tariff rates and exemptions, the engine and the idempotent assessment |
| `RevenueSplit` | split rules and remittance advices |
| `FxConversion` | the two conversions at a rate, for the rail and for the rates |
| `FxRates` | reference rates, their confirmation, rejection and expiry, and their use |
| `GlExport` | the derived journal, exports, period closes and reconciliation runs |
| `FinancialIntentProofs`, `CvffDisbursementProofs`, `OutboxPublisherProofs`, `MojaloopPayoutProofs`, `TradeFinanceProofs`, `InboundProofs`, `RevenueReconProofs`, `BackOfficeProofs` | theorems and proofs |
| `MC*` | instances for TLC |

### FinancialIntent

`row` is a row of `financial_intents` (state, version, maker, checker), `outbox` the
events of its writes, `transfers` the deterministic transfers (`pending`, `post`,
`void`) the cluster holds per intent, `expired` the reservations whose timeout
passed, `inflight` the creates whose sender gave up and that may still land, and
`call` the operation each process is in the middle of, with the version it read and
what its lookups returned.

A store call is one step, because its UPDATE re-checks state and version. An
orchestrator call is split at every lookup, create and store call and can crash at
each: `ReserveApproved` / `ReserveLookup` / `ReserveCreate` / `ReserveRecord`, and so
for post, void, observation and the officer's resolution. `Reconcile` is
`Orchestrator.reconcile`. A create is answered, refused, takes effect without an
answer, or stays in flight (`CreateOk`, `CreateError`, `Land`).

`ImplementsControlledPayment` is the refinement: the row's state mapped to a
payment's status, the post transfer to its movement.

### CvffDisbursement

`currency`, `state`, `roles`, `approvals`, `legs` and `announced` are the rows of one
application, `fee` and `cost` the amounts of its two transfers, `inflight` the rates of pairs
that may still land, `pc`, `stage`, `rate`, `hand` and `mailbox`
the workflow execution and its buffered signals, `request` an API request between
its read of the application and its signal. `parks` counts the visits to
RECONCILIATION_REQUIRED, which are bounded.

Only the activities of one execution write the rows, so a store call is one step; an
activity whose worker dies after its commit writes and stays where it is (`Retry`),
which is how Temporal runs it again on the committed state. `Disburse` is split at
each of its calls. A pair sent by a worker that died or gave up may land later
(`LatePair`), and its two legs are accepted or refused one by one. A leg that exists is
accepted when its amount is the one asked for (`verifyExistingTransfer`), whatever rate that
came from; `FeeAt` and `CostAt` are the amounts of a naira and of a dollar application.

### OutboxPublisher

`committed` and `published` are the outbox rows and their `published_at`, `log` the
events in the order in which the brokers first accepted a copy of each, `inflight` the writes that may
still be accepted, `publisher` the state of each process: a process reads table by
table, publishes and marks its batch event by event, and exits at the first error.

Events commit in any order: some writes check no row's version (CVFF escalations and role
assignments) and some stamp the start of their transaction, so an event may appear behind a
younger one. `ahead` remembers which older events of its table were there when an event
committed. Messages are keyed by event id, so the events of one subject spread over the partitions
of a topic, and a consumer of several partitions is promised no order; what the publishers
give, and the properties say, is the order of first acceptance.

### MojaloopPayout and MojaloopCallback

`quotes` and `transfers` are the rows of the outbound leg, `asked` and `sent` the requests
the Hub may have received (also those that failed for their sender), `hub` the Hub's own
view of each transfer, `call` what each handler is about to do: a payout handler
inserts its quote and then posts it, a quote callback persists the response, then
inserts the transfer, then posts it, and can be interrupted before each. Ids are
fresh, as `uuid.NewString` makes them; conditions and fulfilments are model values
related by an injective function that stands for SHA-256.

`MojaloopCallback` has the states the Hub has announced (`signed`), which include an abort
of a transfer it never reserved, the row each inbound transfer has, and the sweep: `waiting` are
the rows older than the time-out, `timedOut` the marked ones, `reports` the number of events per
transfer. A callback locks its row and is one step; one that is announced may be delivered at any
time, repeatedly or never. A sweep is two steps: its query has a snapshot (`FindExpired`), and
once it holds the locks it looks at the rows again and marks what still qualifies
(`MarkTimedOut`).

### TradeFinance

`consent` and `audit` are the rows of `tf_consents` and the entries of
`tf_consent_audit`, `expired` the consents whose `expires_at` has passed, `disclosed` what
banks were shown and how long the consent's trail was then. `application` is a row of
`tf_applications` with its role assignments, `approvals` its entries of `tf_approvals`,
`call` the decision each handler has validated and not yet recorded.

A consent's move reads its row and updates it under its version, with the audit entry in
the same transaction, so it is one step. The seal stands for the signed envelope and
is the name in it. The hash chain is stood for by the order of the entries: the
entry is written under the lock of the consent's row, and what the chain adds, that a
tampered table is noticed, is about changes the services do not make. `RecordDecision`
looks the consent up before its transaction and is two steps, with any number of moves,
expiries and bindings between them. `consentMove` admits a trader or a checker for each
move, and so does the model; who may do what is decided by the comparison with the maker.
`BeginReview` and `BindLedgerAccounts` are operations of the store that no route
reaches yet; they are actions because an application cannot advance without them.

### SettlementSync and IntakeConsumer

A transfer is its timestamp, which the cluster issues in order. `transfers` is the cluster,
`cursor` the rows of `settlement_sync_state`, `record` and `announced` the settlement rows
and their events, `syncer` the poll each process is in: the ledger, and the part of its
batch that is left. A row, its event and the move of the cursor are one transaction; the
query is a step before it, and an operator may record any transfer id by hand at any time. A
transfer that cannot be mapped ends the poll.

`log`, `committed`, `owner` and `position` are Kafka's part of a consumer group, `landed`
the intake table by event id, `reader` the message each reader holds. A message is one of
four kinds: mapped or landed with a mapping error, refused by the verifier, or signed and
yet refused by the table. A rebalance leaves the former owner with its message, and its
late commit moves the offset as Kafka moves it.

### RevenueRecon

`note`, `maker`, `settlements`, `line`, `intake`, `matches` and `open` are the tables,
`run` what each run has loaded. A run loads four tables with four statements outside its
transaction (`LoadNotes`, `LoadSettlements`, `LoadLines`, `LoadIntakes`), plans from what it
loaded, and commits the plan against the tables as they are then (`CommitRun`): a match or
a link that breaks a unique key aborts it. `NoteVerdict`, `IntakeVerdict` and `Verdict` are
`planRecon` for one settlement. Several currencies, statements and banks are folded into
amounts and references.

### DualControl, TariffSchedule, RevenueSplit and FxRates

Rates, exemptions and split rules are rows of one kind: drafted, and activated by somebody
else under a guarded UPDATE. `CreateRate` is two steps, because its overlap check takes no lock.
`Assess` reads its key, the rates and the exemptions one after the other and then inserts;
the unique key decides a race and the loser answers with what the winner stored. A call whose
insert committed may still be told of an error (`Told`, `ToldAdvice`). `Compute` is
the engine; where two rows have the same floor their order is open (`ahead`). Its products wrap
at `Word`, as int64 does at 2^63, and `roundHalfUp` turns a negative numerator into 0.
`IssueRemittanceAdvice` reads the rules twice, for the legs and for the agency. `Allocations`
is `ComputeSplit` with the residual on the largest leg. `Confirm` and `Reject` of a rate read
the row, decide, and update it under its state; `fx_rates_confirmed_date_idx` is in `Update`.
`Lapse` is the passing of the confirmation window, `ExpirePendingConfirmation` the sweep.

### GlExport

`booked` are the settlements and the disbursements whose application is in a state the journal
shows, `parked` the disbursements whose application was sent to reconciliation; the journal is
an operator over them. `desk` is what a call of the service has read. Statements and payment
files are kept as first exported, by account and period; a close freezes the trial balance its
checker read; a run keeps the balance it compared.

## Runs

| Run | Instance | Shows |
|---|---|---|
| `intents` | one intent, two principals, two processes, versions up to 8 | a row that never contradicts the cluster, and the refinement, under crashes, lost answers, late creates and expiry |
| `cvff` | six parties, two officers of whom one is a party, two bindings of which one is refused, an application in naira or dollars, two rates that give different pairs in one currency and the same pair in the other, two buffered signals, one visit to RECONCILIATION_REQUIRED | no party skipped, money after approvals, true report, one announcement, a party that is awaited is heard |
| `outbox` | four events in two tables, two of one intent, one without an envelope, two processes, batches of two | nothing lost, no event overtakes an older one that was there before it |
| `outbox_drain` | the three events with envelopes, one process | every event is published in the end |
| `inbound` | two mirror processes, two ledgers, two transfers, batches of two; two consumers, one partition, two events, two messages; two Hub transfers and two adapters that sweep one row at a time | the mirror is the ledger up to the cursor and catches up; offsets pass nothing that has not landed; a callback row is never ahead of the Hub, each time-out is reported once and none is overlooked |
| `tradefinance` | one trader, two banks, two checkers, two consents with up to three moves each, one application with proper or doubled parties, two decisions at a time | trails, seals, disclosures, consent before financing, no party skipped |
| `revenue` | two runs, two notes, one intake, two settlements, three references, two amounts, four requests, from three sets of rows | a settled note is paid, money counts once, a completed run explains everything it loaded |
| `backoffice` | two officers in each of four areas, and payouts: four rates, two exemptions, two declarations and two clients of one key; four legs and a catch-all rule, payments of 2, 3 and 5, two issuers; two rates for one date, three principals in two currencies; two collections, a disbursement and two desks with three calls; two payouts, two quotes and two transfers, two handlers, answers with a wrong amount or a malformed condition | charges and waivers stand on rows in force, one answer to a key, not a unit lost in a split, one rate to a date, evidence in balance, a balanced run means exported statements; one transfer per quote, the Hub's outcome, the operator's amount, a proof for each commit |
| `outbox_blocked`, `mojaloop_paid_twice`, `gl_statements_chain`, `tariff_window` | smaller instances | statements of comments that the code does not keep (below) |

Bounds. Two processes are enough for every pairwise race on one intent, and intents
share nothing; eight versions let an intent be reserved, sent to reconciliation,
observed, made ambiguous, resolved and posted or voided. One visit to
RECONCILIATION_REQUIRED lets each park branch happen and be resolved. Two signals let one be stale while another is handled. Batches of two
with three rows in one table exercise the limit, the step to the next table and an event left
for the next batch. Two quotes are one payout sent again or two payouts at once, and two
handlers let a repeated quote callback race the first.
Two reservations and sweeps of one row make the limit bite, with the snapshots of two adapters
overlapping. Two consents let one be for the other bank or follow one that was
rejected or revoked; three moves reach a rejected and a confirmed revocation, and two
handlers let two decisions on one row race.

In `inbound` two transfers let a batch hold both, be overtaken by the other process, or
meet one that cannot be mapped on either ledger; two messages let the first be refused with
the second behind it. In `revenue` four requests issue, pay and state a note, or pay twice with one
reference, and two runs load before and after them; the initial states are reachable rows
that save those requests. In `backoffice` the areas share no state, so a behaviour exercises one;
a freight of 60 at 250 basis points falls on a half, tonnages 3 and 4 lie on the two sides of a
ceiling, a freight of 140 gives a product beyond the word of 32768, a payment of 2 over four
equal legs rounds to more than itself, and two dates of a window both count. Three calls let a statement, a close or a run overlap with another; the
officers and the issuers are interchangeable. The proofs do not use any of these
bounds.

Fairness. `OutboxPublisher!FairSpec` assumes that the supervisor restarts the process and that neither
PostgreSQL nor Kafka fails every request of a kind forever. `MojaloopCallback!Fairness` assumes
that time passes and that the ticker of each adapter sweeps without failing for ever, and nothing
of the Hub. `SyncFairness` assumes of one mirror process that its loop polls again (`Run` does,
after every failure) and that neither the cluster nor the database fails every request of a kind
forever; nothing is assumed of the other process, of operators or of the cluster's clients.

Deadlock is checked in the outbox runs only: elsewhere a decided intent, a closed application,
a decided transfer or a bounded instance with nothing left to do may stop.

### What the violation runs show

- `outbox_blocked`: `VoidDraft` and `ResolveAmbiguous` write event types that
  `envelopeEventTypes` does not list. The publisher exits at such a row on every
  start, and no event behind it is ever published.
- `mojaloop_paid_twice`: a payout whose POST /quotes failed for its sender may have
  reached the Hub; the operator's second request is a new quote, and both are paid.
- `gl_statements_chain`: a statement closes at its opening balance plus debits minus
  credits, and the next one opens at credits minus debits. After a collection of 3 the first
  month closes at 3 and the second opens at -3.
- `tariff_window`: `windowContains` is documented as `[from, to)` and counts the last day: a
  levy in force from day 1 to day 1 is charged on a declaration of day 1.

### Gaps of the code that the models show and no run states

CVFF and Mojaloop. A retried `BeginUnderwriting` is refused and ends the workflow, and every execution
a later decision starts ends the same way. A resolution by an officer who is a party ends the
workflow in the disbursement loop, and the application stays in RECONCILIATION_REQUIRED with
nobody to take another one. An officer may reject a parked disbursement whose pair was posted.
A handler interrupted after it persisted a quote's response never creates the transfer, and the
repeated callback is answered as a replay. When one rate gives the amounts of another, as for
a dollar application whose fee rounds alike, the rate recorded with the legs may be that of
another day than the one of the posting. An inbound decision that overtakes its reservation, or
aborts a transfer that was never reserved, is refused with 409; whether it is ever recorded
depends on the Hub's sending it again.

Outbox. The batch is filled table by table, so a first table that fills every batch would starve
the others; the runs have finitely many events and do not show it. No process drains
`tariff_outbox`.

Revenue. Two clean payments of one note with different references abort every run, since the
second match breaks a unique key; a note cancelled between the load and the commit keeps its
match; a later settlement that reuses a matched reference for another note waits for ever.
Nothing prevents two notes for one assessment. A signed intake event whose id is no UUID
is refused for ever and blocks its partition. `RecordSettlement` takes any transfer id and
amount from an operator, and the mirror leaves such a row as it is: a wrong one shadows the
collection for ever.

Tariff and split. Two officers may insert overlapping rates, after which the order of equal floors
decides; no path leads to RETIRED; a retry the next day of a request without a date is a conflict.
`LinesAreJustified` accepts either of two overlapping rows. A product beyond int64 makes a freight
charge 0 or wrong and is not noticed. The agency of an advice is
read again after its legs and is empty when that read fails; a second active rule of a full line makes
every advice of it refused; a payment too small for its legs is refused.

GL export. A batch is named by account and period, so a posting that arrives late is never
exported; overlapping periods export an instruction twice; a close freezes nothing but its own
evidence. `BalancedMeansExported` speaks of the REVENUE account only.

Trade finance. A bank's read is one step, so that data signed before a revocation and delivered
after it is not told apart. `FinancedWithConsent` asks for a seal, so an approval committed on a
consent that was revoked or expired since it was looked up is within it.

## Proofs

Each proof module states an inductive invariant `IndInv`, shows that it holds
initially and that each action keeps it, and derives the properties. Assumptions are
the named assumptions of each module: which model values are distinct, that bounds are
naturals, that each injective function or series is one, and, for sums, that amounts are
positive and the seeded rules finite. None bounds the number of intents, processes, principals,
events, publishers, ledgers, partitions, notes, runs, officers or clients.

- **FinancialIntentProofs.** The invariant adds to the properties what each process
  must remember: a process at its closing record has its transfer in the cluster, a
  post under way implies a row that was RESERVED at the version the process holds, a
  void recorded excludes every post that could still land. Without the latter two,
  a late create would break `VoidedNeverMoved`. The refinement theorem maps every
  step to a step of `ControlledPayment` or a stutter.
- **CvffDisbursementProofs.** The invariant ties the workflow's position to the row:
  in which states the row can be while the execution is at each `pc`, that approvals
  exist for every earlier stage, and that the rate of an attempt that reached the legs
  gives the amounts of the posted pair.
- **OutboxPublisherProofs.** A batch never overtakes: the older events that were there before
  an event are on the topic or earlier in the batch; the same holds of late writes. The selection
  (`ORDER BY created_at LIMIT`) is shown to have this property, and appending tables
  and dropping a published head keep it. An event that commits late, behind younger ones, is
  ahead of none of them. With `OnlyWritten` (what a process holds or has sent was written by a
  store) every step maps to a step of `OrderedDelivery` or a stutter: the accepted first copy
  of an event is its delivery, a repeated copy is none.
- **MojaloopPayoutProofs.** Rows must be tied to the handlers: a handler about to create
  a transfer is the only one for its quote, and no transfer of that quote exists
  (`CallInv`). Otherwise `OneTransferPerQuote` is not inductive. A transfer's terms are
  those of its quote's response, and the response's amount is the payout's
  (`TransferInv`); what the Hub holds was sent, and what was sent has a row. From the
  same invariant, `DecidedIsFinal`: answers and decisions once recorded are not rewritten.
- **TradeFinanceProofs.** The properties of consents, trails and disclosures are
  inductive together. For applications, `ApprovalInv` says that the n-th approval is that
  of the n-th stage, by its party, and that an application that is not declined has
  exactly the approvals of the stages behind it. `CallInv` says what survives between
  the validation of a decision and its record: the consent may be revoked meanwhile but
  keeps its seal, and accounts once bound stay bound.

- **InboundProofs.** For the mirror, `SyncInv` says of the batch a process holds that it leaves
  nothing behind: whatever is wanted and older than one of its elements is in the batch or behind
  the cursor. A cursor that only grows then never passes a collection that has no row. For the
  intake, `IntakeInv` says that everything before the offset of a held message has landed,
  which survives a rebalance because a position starts at a committed offset. The
  properties of the callbacks are inductive with their types. `MirrorOnlyGrows` and
  `DecisionStays` are action properties: the cursor never goes back and rows stay, and a
  decided row stays decided.
- **RevenueReconProofs.** `IndInv` says what a loaded run may rely on although the tables move
  on: settlements, statement lines and intakes are only added, a note's amount is fixed, and what
  was matched or observed stays so. The unique keys do the rest: a plan that is no longer
  possible aborts. `NothingSilent` is an action property of the commit, `SettledIsFinal` one of
  every step: a late run reopens no settled or cancelled note.
- **BackOfficeProofs.** `FxInv` keeps CONFIRMED rows confirmed and one to a date, and the
  rounding bounds are lemmas on `ConvertUSDToNGN` and `ConvertNGNToUSD`. `TariffInv` says that what a
  client has read is in force and stays so (`RowsOK`), which makes `Compute` over stale rows as
  good as over fresh ones; the half-up bound of `Charge`, where the products fit the word, is a
  lemma.

  The provers have no induction over finite sets, so the laws of sums (the sum exists, is unique
  and an integer, loses exactly the element that is removed, and grows with a set of positive
  amounts) are proved on the least subset for which the law would fail: such a subset exists
  because strict inclusion of finite sets is well founded, and removing one of its elements gives
  the contradiction. For the split, `SplitInv` says that the legs an issuer has read are rules in
  force of one line whose allocations are not negative, and that the legs of every stored advice
  are such rules and add up; the residual on the largest leg closes the sum. For the journal, the debits and the credits
  of all accounts are sums over the same records, so a trial balance read at any moment is in
  balance. `BalancedMeansExported` needs `ReadsNest`: collections are only added, so what two
  calls, or a call and a statement, have read of a period's revenue is nested, and nested sets of positive
  amounts with equal totals are equal. Totals alone would not do.

  `AssessmentsRefine` and `AdvicesRefine` map the stored row of a key and the answer of each call to
  `AnswerOnce`: the insert that wins is `StoreResult`, or `StoreUnheard` when its caller gets an
  error, replays and lost races are `AnswerStored`, reads and failures that leave nothing stutter. `EvidenceIsKept` and `RateIsFinal` are action properties: exported and
  closed evidence is not rewritten, and the first decision on a rate is the last.

`TypeOK`, `FourEyes`, `OutcomeIsFinal`, `ClosedIsFinal`, `DecidedOnce`, `TerminalIsFinal`,
`DecidedIsFinal`, `MirrorOnlyGrows`, `DecisionStays`, `SettledIsFinal`, `EvidenceIsKept`,
`RateIsFinal` and the implementations of `OrderedDelivery` and `AnswerOnce` are proved and not
checked by a run as well.

Only model-checked: `EventsDrain`, `MirrorCatchesUp` and `StrandedIsReported`, since liveness is
out of the prover's reach. Every safety property a passing run checks is also a theorem.

## Not modelled

SLA escalations (they append an event, which `OutboxPublisher` allows at any time, and change no
state), the width of the shares in a split, the beneficiary's
intake form and documents, account creation, the disbursement legs of trade finance
(nothing in `cmd` calls `RecordDisbursementLegs` or `DisbursementLedger`), listings and reports
(they change nothing), XML and canonical JSON, and the parts listed as
`not_modelled` in `PROJECT.json`: signing, policies, telemetry, seeding, the risk rules and the
external statement comparison keep no state. Token verification and policies appear as guards
on principals. Constraints of the schema appear as guards of the actions they protect.

## Plan

1. The composition of the intents' rail with the outbox, and of the mirror with the
   reconciliation runs.
2. The document uploads and claims of the CVFF API.
