--------------------------- MODULE SettlementSync ---------------------------
(***************************************************************************)
(* The settlement mirror (internal/settlementsync and the mirror writes of *)
(* internal/revenue): processes that poll TigerBeetle ledger by ledger and *)
(* copy each posted collection transfer into settlement_records, with a    *)
(* cursor per ledger.                                                      *)
(*                                                                         *)
(* A transfer is named by its timestamp, which the cluster issues in       *)
(* order.  Operators may record a settlement under any transfer's id.      *)
(***************************************************************************)
EXTENDS Naturals, Sequences, SequencesExt

CONSTANTS
    Ledgers,        \* the configured ledgers, by number
    Syncers,        \* the settlement-sync processes
    BatchLimit,     \* TB_SYNC_BATCH_LIMIT
    MaxTransfers    \* bound on the transfers of the cluster

ASSUME SyncAssumption ==
    /\ Ledgers \in SUBSET (Nat \ {0})
    /\ BatchLimit \in Nat \ {0}
    /\ MaxTransfers \in Nat

VARIABLES
    transfers,      \* the cluster: what each timestamp is
    cursor,         \* settlement_sync_state, per ledger
    record,         \* settlement_records by tb_transfer_id
    announced,      \* revenue.settlement.recorded events, per transfer
    syncer          \* what each process is doing

syncVars == <<transfers, cursor, record, announced, syncer>>

(* With the collection code: a collection is posted money, skipped carries   *)
(* the pending or a void flag, unfit has a zero amount or one beyond int64.  *)
(* Other has another code.                                                   *)
Kinds == {"collection", "skipped", "unfit", "other"}

Timestamps == 1..MaxTransfers

IsCollection(t) ==
    t \in DOMAIN transfers /\ transfers[t].kind = "collection"

-----------------------------------------------------------------------------
(* The cluster and the operators. *)

Transfer(l, kind) ==
    /\ Len(transfers) < MaxTransfers
    /\ transfers' = Append(transfers, [ledger |-> l, kind |-> kind])
    /\ UNCHANGED <<cursor, record, announced, syncer>>

(* RecordSettlement with any transfer id: refused when a row has it.  The    *)
(* cluster is not asked, nor is the amount compared with the transfer's.     *)
RecordByHand(t) ==
    /\ record[t] = "none"
    /\ record' = [record EXCEPT ![t] = "hand"]
    /\ announced' = [announced EXCEPT ![t] = @ + 1]
    /\ UNCHANGED <<transfers, cursor, syncer>>

-----------------------------------------------------------------------------
(* One process. *)

Waiting == [pc |-> "wait", ledger |-> 0, from |-> 0, batch |-> << >>]

At(pc, l, from, batch) ==
    [pc |-> pc, ledger |-> l, from |-> from, batch |-> batch]

Goes(s, state) == syncer' = [syncer EXCEPT ![s] = state]

(* Mutant: the ledgers in descending order. *)
IsNextLedgerDown(s, l) ==
    /\ syncer[s].ledger = 0 \/ l < syncer[s].ledger
    /\ \A k \in Ledgers :
          k > l => syncer[s].ledger # 0 /\ syncer[s].ledger <= k

(* SyncOnce takes the ledgers in ascending order. *)
IsNextLedger(s, l) ==
    /\ syncer[s].ledger < l
    /\ \A k \in Ledgers : k < l => k <= syncer[s].ledger

(* A poll begins at the first ledger, and the next ledger when the batch of  *)
(* this one is done.                                                         *)
SyncCursor(s, l) ==
    /\ \/ syncer[s].pc = "wait"
       \/ syncer[s].pc = "batch" /\ syncer[s].batch = << >>
    /\ IsNextLedger(s, l)
    /\ Goes(s, At("query", l, cursor[l], << >>))
    /\ UNCHANGED <<transfers, cursor, record, announced>>

EndPoll(s) ==
    /\ syncer[s].pc = "batch" /\ syncer[s].batch = << >>
    /\ ~ \E l \in Ledgers : IsNextLedger(s, l)
    /\ Goes(s, Waiting)
    /\ UNCHANGED <<transfers, cursor, record, announced>>

Found(l, from) ==
    {t \in DOMAIN transfers :
       /\ transfers[t].ledger = l
       /\ transfers[t].kind # "other"
       /\ t > from}

(* The oldest of the transfers after the cursor, in order. *)
Batches(l, from) ==
    {b \in SeqOf(Found(l, from), BatchLimit) :
       /\ \A i, j \in DOMAIN b : i < j => b[i] < b[j]
       /\ \A t \in Found(l, from) \ Range(b) :
             Len(b) = BatchLimit /\ \A i \in DOMAIN b : b[i] < t}

QueryTransfers(s, l) ==
    /\ syncer[s].pc = "query" /\ syncer[s].ledger = l
    /\ \E b \in Batches(l, syncer[s].from) : Goes(s, At("batch", l, 0, b))
    /\ UNCHANGED <<transfers, cursor, record, announced>>

Rest(s) == At("batch", syncer[s].ledger, 0, Tail(syncer[s].batch))

Greatest(a, b) == IF a > b THEN a ELSE b

(* Mutant: the cursor takes the observed timestamp. *)
MoveCursorTo(l, t) == cursor' = [cursor EXCEPT ![l] = t]

MoveCursor(l, t) == cursor' = [cursor EXCEPT ![l] = Greatest(@, t)]

(* ON CONFLICT (tb_transfer_id) DO NOTHING, and the event of a first insert. *)
Insert(t) ==
    IF record[t] = "none"
    THEN /\ record' = [record EXCEPT ![t] = "mirror"]
         /\ announced' = [announced EXCEPT ![t] = @ + 1]
    ELSE UNCHANGED <<record, announced>>

(* Row, event and cursor in one transaction. *)
RecordTBSettlement(s) ==
    /\ syncer[s].pc = "batch" /\ syncer[s].batch # << >>
    /\ LET t == Head(syncer[s].batch) IN
       /\ transfers[t].kind = "collection"
       /\ Insert(t)
       /\ MoveCursor(syncer[s].ledger, t)
    /\ Goes(s, Rest(s))
    /\ UNCHANGED transfers

(* Reservations and voids are no money: only the cursor moves. *)
AdvanceSyncCursor(s) ==
    /\ syncer[s].pc = "batch" /\ syncer[s].batch # << >>
    /\ LET t == Head(syncer[s].batch) IN
       /\ transfers[t].kind = "skipped"
       /\ MoveCursor(syncer[s].ledger, t)
    /\ Goes(s, Rest(s))
    /\ UNCHANGED <<transfers, record, announced>>

(* mapTransfer fails and the poll with it; so do the later ledgers. *)
RefuseTransfer(s) ==
    /\ syncer[s].pc = "batch" /\ syncer[s].batch # << >>
    /\ transfers[Head(syncer[s].batch)].kind = "unfit"
    /\ Goes(s, Waiting)
    /\ UNCHANGED <<transfers, cursor, record, announced>>

(* A query or a transaction fails, or the process dies and is started again. *)
PollFails(s) ==
    /\ syncer[s].pc # "wait"
    /\ Goes(s, Waiting)
    /\ UNCHANGED <<transfers, cursor, record, announced>>

-----------------------------------------------------------------------------
SyncInit ==
    /\ transfers = << >>
    /\ cursor = [l \in Ledgers |-> 0]
    /\ record = [t \in Timestamps |-> "none"]
    /\ announced = [t \in Timestamps |-> 0]
    /\ syncer = [s \in Syncers |-> Waiting]

Syncs(s) ==
    \/ \E l \in Ledgers : SyncCursor(s, l) \/ QueryTransfers(s, l)
    \/ EndPoll(s) \/ RecordTBSettlement(s) \/ AdvanceSyncCursor(s)
    \/ RefuseTransfer(s) \/ PollFails(s)

SyncNext ==
    \/ \E l \in Ledgers, kind \in Kinds : Transfer(l, kind)
    \/ \E t \in Timestamps : RecordByHand(t)
    \/ \E s \in Syncers : Syncs(s)

SyncSpec == SyncInit /\ [][SyncNext]_syncVars

(* One process keeps running: its loop polls again after every failure, and  *)
(* neither the cluster nor the database fails every request of a kind for    *)
(* ever.                                                                     *)
SyncFairness(s) ==
    /\ WF_syncVars(EndPoll(s)) /\ WF_syncVars(RefuseTransfer(s))
    /\ \A l \in Ledgers :
          SF_syncVars(SyncCursor(s, l)) /\ SF_syncVars(QueryTransfers(s, l))
    /\ SF_syncVars(RecordTBSettlement(s)) /\ SF_syncVars(AdvanceSyncCursor(s))

-----------------------------------------------------------------------------
SyncTypeOK ==
    /\ transfers \in Seq([ledger : Ledgers, kind : Kinds])
    /\ Len(transfers) <= MaxTransfers
    /\ cursor \in [Ledgers -> 0..MaxTransfers]
    /\ record \in [Timestamps -> {"none", "hand", "mirror"}]
    /\ announced \in [Timestamps -> Nat]
    /\ syncer \in [Syncers -> [pc : {"wait", "query", "batch"},
                               ledger : Ledgers \cup {0},
                               from : 0..MaxTransfers, batch : Seq(Timestamps)]]

(* The mirror is the ledger up to the cursor: every collection the cursor    *)
(* has passed has its row, no other transfer has one that was not written by *)
(* hand, and each row was announced once, with racing processes, crashes,    *)
(* replayed batches and rows recorded by hand (syncLedger,                   *)
(* RecordTBSettlement).                                                      *)
MirrorIsTheLedger ==
    \A t \in Timestamps :
       /\ IsCollection(t) /\ t <= cursor[transfers[t].ledger]
             => record[t] # "none"
       /\ record[t] = "mirror"
             => IsCollection(t) /\ t <= cursor[transfers[t].ledger]
       /\ announced[t] = (IF record[t] = "none" THEN 0 ELSE 1)

(* No process can get past a transfer that mapTransfer refuses, nor to the   *)
(* ledgers behind it.                                                        *)
Blocked(t) ==
    \E u \in DOMAIN transfers :
       /\ t \in DOMAIN transfers /\ transfers[u].kind = "unfit"
       /\ \/ transfers[u].ledger < transfers[t].ledger
          \/ transfers[u].ledger = transfers[t].ledger /\ u < t

(* Every collection is mirrored in the end, unless a transfer that cannot be *)
(* mirrored is in front of it (Run polls again after every failure).         *)
MirrorCatchesUp ==
    \A t \in Timestamps :
       IsCollection(t) ~> (record[t] # "none" \/ Blocked(t))
=============================================================================
