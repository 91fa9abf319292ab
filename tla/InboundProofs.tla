--------------------------- MODULE InboundProofs ---------------------------
(***************************************************************************)
(* Proofs about what reaches the system from outside and is recorded once: *)
(* TigerBeetle's transfers (SettlementSync), signed Kafka events           *)
(* (IntakeConsumer) and the Hub's callbacks (MojaloopCallback), for any    *)
(* ledgers, batch limit, partitions, events, transfers and processes.      *)
(***************************************************************************)
EXTENDS SettlementSync, IntakeConsumer, MojaloopCallback, TLAPS

(* The settlement mirror.  In the predicates below ts is the cluster and c   *)
(* the cursor of the ledger l.                                               *)

(* A transfer of the ledger that a query looks for. *)
Wanted(u, l, ts) ==
    u \in DOMAIN ts /\ ts[u].ledger = l /\ ts[u].kind # "other"

(* A batch leaves nothing behind: what is wanted and older than one of its   *)
(* elements is in the batch as well, or the cursor has passed it.            *)
BatchOK(b, l, ts, c) ==
    /\ \A i \in DOMAIN b : Wanted(b[i], l, ts)
    /\ \A i, j \in DOMAIN b : i < j => b[i] < b[j]
    /\ \A i \in DOMAIN b : \A u \in Timestamps :
          Wanted(u, l, ts) /\ u < b[i] =>
             u <= c \/ \E j \in DOMAIN b : b[j] = u

SyncerOK(st, ts, cur) ==
    /\ st.pc = "query" => st.ledger \in Ledgers /\ st.from <= cur[st.ledger]
    /\ st.pc = "batch" =>
          /\ st.ledger \in Ledgers
          /\ BatchOK(st.batch, st.ledger, ts, cur[st.ledger])

SyncInv ==
    /\ SyncTypeOK
    /\ MirrorIsTheLedger
    /\ \A l \in Ledgers : cursor[l] <= Len(transfers)
    /\ \A s \in Syncers : SyncerOK(syncer[s], transfers, cursor)

SyncerStates ==
    [pc : {"wait", "query", "batch"}, ledger : Ledgers \cup {0},
     from : 0..MaxTransfers, batch : Seq(Timestamps)]

-----------------------------------------------------------------------------
LEMMA ElementsOfSeq ==
    ASSUME NEW S, NEW q \in Seq(S)
    PROVE  \A i \in DOMAIN q : q[i] \in S
OBVIOUS

(* A cursor that moves on leaves every process as it was. *)
LEMMA CursorsGrow ==
    ASSUME SyncAssumption,
           NEW st \in SyncerStates, NEW ts,
           NEW cur \in [Ledgers -> 0..MaxTransfers],
           NEW new \in [Ledgers -> 0..MaxTransfers],
           \A l \in Ledgers : cur[l] <= new[l],
           SyncerOK(st, ts, cur)
    PROVE  SyncerOK(st, ts, new)
<1> USE DEF SyncAssumption, Timestamps
<1>1. st.from \in Nat /\ st.batch \in Seq(Timestamps)
  BY DEF SyncerStates
<1>4. \A k \in Ledgers : cur[k] \in Nat /\ new[k] \in Nat
  OBVIOUS
<1> HIDE DEF SyncAssumption, Timestamps
<1>2. ASSUME st.pc = "query"
      PROVE  st.ledger \in Ledgers /\ st.from <= new[st.ledger]
  <2>1. st.ledger \in Ledgers /\ st.from <= cur[st.ledger]
    BY <1>2 DEF SyncerOK
  <2>2. PICK k \in Ledgers : k = st.ledger
    BY <2>1
  <2> QED
    BY <2>1, <2>2, <1>1, <1>4
<1>3. ASSUME st.pc = "batch"
      PROVE  st.ledger \in Ledgers
             /\ BatchOK(st.batch, st.ledger, ts, new[st.ledger])
  <2>1. st.ledger \in Ledgers /\ BatchOK(st.batch, st.ledger, ts, cur[st.ledger])
    BY <1>3 DEF SyncerOK
  <2>4. PICK k \in Ledgers : k = st.ledger
    BY <2>1
  <2>2. cur[st.ledger] <= new[st.ledger]
        /\ cur[st.ledger] \in Nat /\ new[st.ledger] \in Nat
    <3>1. cur[k] <= new[k] /\ cur[k] \in Nat /\ new[k] \in Nat
      BY <1>4
    <3> QED
      BY <2>4, <3>1, Zenon
  <2>3. BatchOK(st.batch, st.ledger, ts, new[st.ledger])
    BY <2>1, <2>2 DEF BatchOK, Timestamps, SyncAssumption
  <2> QED
    BY <2>1, <2>3
<1> QED
  BY <1>2, <1>3 DEF SyncerOK

(* A new transfer is younger than every batch. *)
LEMMA TransfersAppend ==
    ASSUME SyncAssumption, SyncTypeOK,
           NEW st \in SyncerStates, NEW x,
           SyncerOK(st, transfers, cursor)
    PROVE  SyncerOK(st, Append(transfers, x), cursor)
<1> DEFINE ts == Append(transfers, x)
           n == Len(transfers)
<1>1. transfers \in Seq([ledger : Ledgers, kind : Kinds]) /\ n \in Nat
      /\ DOMAIN transfers = 1..n
  BY DEF SyncTypeOK
<1>2. DOMAIN ts = 1..(n + 1) /\ \A u \in 1..n : ts[u] = transfers[u]
  BY <1>1
<1>3. ASSUME st.pc = "batch"
      PROVE  BatchOK(st.batch, st.ledger, ts, cursor[st.ledger])
  <2> DEFINE b == st.batch
             l == st.ledger
  <2>1. BatchOK(b, l, transfers, cursor[l])
    BY <1>3 DEF SyncerOK
  <2>2. \A u \in 1..n : Wanted(u, l, ts) <=> Wanted(u, l, transfers)
    BY <1>1, <1>2 DEF Wanted
  <2>3. \A i \in DOMAIN b : b[i] \in 1..n
    BY <2>1, <1>1 DEF BatchOK, Wanted
  <2>4. \A i \in DOMAIN b : Wanted(b[i], l, ts)
    BY <2>1, <2>2, <2>3 DEF BatchOK
  <2>5. ASSUME NEW i \in DOMAIN b, NEW u \in Timestamps,
               Wanted(u, l, ts), u < b[i]
        PROVE  u <= cursor[l] \/ \E j \in DOMAIN b : b[j] = u
    <3>1. u \in 1..n
      BY <2>3, <2>5, <1>1, SyncAssumption DEF Timestamps, SyncAssumption
    <3>2. Wanted(u, l, transfers)
      BY <3>1, <2>2, <2>5
    <3> QED
      BY <3>2, <2>1, <2>5 DEF BatchOK
  <2> QED
    BY <2>1, <2>4, <2>5 DEF BatchOK
<1> QED
  BY <1>3 DEF SyncerOK

(* What a query returns, with the cursor at or beyond where it began. *)
LEMMA QueryLeavesNothing ==
    ASSUME SyncAssumption, SyncTypeOK,
           NEW l \in Ledgers, NEW from \in 0..MaxTransfers,
           from <= cursor[l],
           NEW b \in Batches(l, from)
    PROVE  b \in Seq(Timestamps) /\ BatchOK(b, l, transfers, cursor[l])
<1>1. transfers \in Seq([ledger : Ledgers, kind : Kinds])
      /\ Len(transfers) \in Nat /\ DOMAIN transfers = 1..Len(transfers)
      /\ Len(transfers) <= MaxTransfers /\ cursor[l] \in Nat /\ from \in Nat
  BY SyncAssumption DEF SyncTypeOK, SyncAssumption
<1>2. Found(l, from) \subseteq Timestamps
  BY <1>1, SyncAssumption DEF Found, Timestamps, SyncAssumption
<1>3. PICK m \in 0..BatchLimit : b \in [1..m -> Found(l, from)]
  BY DEF Batches, SeqOf
<1>4. b \in Seq(Timestamps) /\ DOMAIN b = 1..m
  BY <1>2, <1>3, SyncAssumption DEF SyncAssumption
<1>5. \A i \in DOMAIN b : b[i] \in Found(l, from)
  BY <1>3
<1>6. \A i \in DOMAIN b : Wanted(b[i], l, transfers)
  BY <1>5 DEF Found, Wanted
<1>7. ASSUME NEW i \in DOMAIN b, NEW u \in Timestamps,
             Wanted(u, l, transfers), u < b[i]
      PROVE  u <= cursor[l] \/ \E j \in DOMAIN b : b[j] = u
  <2>1. CASE u \in Found(l, from)
    <3>1. ASSUME u \notin Range(b)
          PROVE  FALSE
      <4>1. b[i] < u
        BY <2>1, <3>1 DEF Batches
      <4>2. b[i] \in Nat /\ u \in Nat
        BY <1>2, <1>5, SyncAssumption DEF Timestamps, SyncAssumption
      <4> QED
        BY <4>1, <4>2, <1>7
    <3> QED
      BY <3>1 DEF Range
  <2>2. CASE u \notin Found(l, from)
    <3>1. ~ (u > from)
      BY <2>2, <1>7 DEF Found, Wanted
    <3>2. u \in Nat
      BY SyncAssumption DEF Timestamps, SyncAssumption
    <3> QED
      BY <3>1, <3>2, <1>1
  <2> QED
    BY <2>1, <2>2
<1> QED
  BY <1>4, <1>6, <1>7 DEF BatchOK, Batches

(* The head of a batch is the next transfer after the cursor that counts. *)
LEMMA HeadIsNext ==
    ASSUME SyncAssumption, NEW b \in Seq(Timestamps), b # << >>,
           NEW l, NEW ts, NEW c \in Nat, BatchOK(b, l, ts, c)
    PROVE  /\ Head(b) \in Timestamps /\ Wanted(Head(b), l, ts)
           /\ \A u \in Timestamps :
                 Wanted(u, l, ts) /\ u < Head(b) => u <= c
           /\ Tail(b) \in Seq(Timestamps)
           /\ BatchOK(Tail(b), l, ts, Greatest(c, Head(b)))
<1> DEFINE n == Len(b)
           r == Tail(b)
           d == Greatest(c, Head(b))
<1>1. n \in Nat /\ n > 0 /\ DOMAIN b = 1..n /\ Head(b) = b[1]
  OBVIOUS
<1>2. r \in Seq(Timestamps) /\ DOMAIN r = 1..(n - 1)
      /\ \A i \in 1..(n - 1) : r[i] = b[i + 1]
  BY <1>1
<1>3. \A i \in 1..n : b[i] \in Timestamps /\ b[i] \in Nat
  BY <1>1, SyncAssumption DEF Timestamps, SyncAssumption
<1>4. \A u \in Timestamps : u \in Nat
  BY SyncAssumption DEF Timestamps, SyncAssumption
<1>5. d \in Nat /\ c <= d /\ b[1] <= d
  BY <1>1, <1>3 DEF Greatest
<1>6. Wanted(b[1], l, ts)
  BY <1>1 DEF BatchOK
<1>7. ASSUME NEW u \in Timestamps, Wanted(u, l, ts), u < b[1]
      PROVE  u <= c
  <2>1. u <= c \/ \E j \in 1..n : b[j] = u
    BY <1>7, <1>1 DEF BatchOK
  <2>2. \A j \in 1..n : j = 1 \/ b[1] < b[j]
    BY <1>1 DEF BatchOK
  <2>3. \A j \in 1..n : b[j] # u
    BY <2>2, <1>7, <1>3, <1>4, <1>1
  <2> QED
    BY <2>1, <2>3
<1>8. BatchOK(r, l, ts, d)
  <2>1. \A i \in DOMAIN r : Wanted(r[i], l, ts)
    BY <1>1, <1>2 DEF BatchOK
  <2>2. \A i, j \in DOMAIN r : i < j => r[i] < r[j]
    BY <1>1, <1>2 DEF BatchOK
  <2>3. ASSUME NEW i \in DOMAIN r, NEW u \in Timestamps,
               Wanted(u, l, ts), u < r[i]
        PROVE  u <= d \/ \E j \in DOMAIN r : r[j] = u
    <3>1. i + 1 \in 1..n /\ u < b[i + 1]
      BY <1>1, <1>2, <2>3
    <3>2. u <= c \/ \E j \in 1..n : b[j] = u
      BY <3>1, <1>1, <2>3 DEF BatchOK
    <3>3. CASE u <= c
      BY <3>3, <1>4, <1>5
    <3>4. ASSUME NEW j \in 1..n, b[j] = u
          PROVE  u <= d \/ \E k \in DOMAIN r : r[k] = u
      <4>1. CASE j = 1
        BY <4>1, <3>4, <1>5
      <4>2. CASE j # 1
        <5>1. j - 1 \in DOMAIN r /\ r[j - 1] = b[j]
          BY <4>2, <1>1, <1>2
        <5> QED
          BY <5>1, <3>4
      <4> QED
        BY <4>1, <4>2
    <3> QED
      BY <3>2, <3>3, <3>4
  <2> QED
    BY <2>1, <2>2, <2>3 DEF BatchOK
<1> QED
  BY <1>1, <1>2, <1>3, <1>6, <1>7, <1>8

-----------------------------------------------------------------------------
(* The step of one process to another state of its own, cursors and cluster  *)
(* as they were.                                                             *)
LEMMA OneGoes ==
    ASSUME SyncInv, NEW s \in Syncers, NEW st \in SyncerStates,
           SyncerOK(st, transfers, cursor), Goes(s, st),
           UNCHANGED <<transfers, cursor, record, announced>>
    PROVE  SyncInv'
<1>1. syncer \in [Syncers -> SyncerStates]
  BY DEF SyncInv, SyncTypeOK, SyncerStates
<1>2. syncer' \in [Syncers -> SyncerStates]
  BY <1>1 DEF Goes
<1>3. SyncTypeOK'
  BY <1>2 DEF SyncInv, SyncTypeOK, SyncerStates, Timestamps
<1>4. MirrorIsTheLedger'
  BY DEF SyncInv, MirrorIsTheLedger, IsCollection, Timestamps
<1>5. ASSUME NEW p \in Syncers
      PROVE  SyncerOK(syncer'[p], transfers', cursor')
  <2>1. syncer'[p] = IF p = s THEN st ELSE syncer[p]
    BY <1>1 DEF Goes
  <2>2. SyncerOK(syncer'[p], transfers, cursor)
    BY <2>1 DEF SyncInv
  <2> QED
    BY <2>2
<1>6. \A l \in Ledgers : cursor'[l] <= Len(transfers')
  BY DEF SyncInv
<1> QED
  BY <1>3, <1>4, <1>5, <1>6 DEF SyncInv

LEMMA WaitingIsOK ==
    ASSUME SyncAssumption
    PROVE  Waiting \in SyncerStates
           /\ \A ts, cur : SyncerOK(Waiting, ts, cur)
BY DEF SyncAssumption, Waiting, SyncerStates, SyncerOK, Timestamps

(* The cursor moves to the head of a batch, which has its row if it is a     *)
(* collection: no other collection is passed.                                *)
LEMMA HeadIsDone ==
    ASSUME SyncAssumption, SyncInv, NEW s \in Syncers,
           syncer[s].pc = "batch", syncer[s].batch # << >>,
           UNCHANGED transfers,
           MoveCursor(syncer[s].ledger, Head(syncer[s].batch)),
           Goes(s, Rest(s)),
           record' \in [Timestamps -> {"none", "hand", "mirror"}],
           announced' \in [Timestamps -> Nat],
           \A t \in Timestamps :
              /\ t # Head(syncer[s].batch) =>
                    record'[t] = record[t] /\ announced'[t] = announced[t]
              /\ record[t] # "none" => record'[t] = record[t]
              /\ record'[t] = "mirror" => record[t] = "mirror" \/ IsCollection(t)
              /\ announced'[t] = (IF record'[t] = "none" THEN 0 ELSE 1),
           IsCollection(Head(syncer[s].batch)) =>
              record'[Head(syncer[s].batch)] # "none"
    PROVE  SyncInv'
<1> DEFINE b == syncer[s].batch
           l == syncer[s].ledger
           h == Head(b)
           rest == At("batch", l, 0, Tail(b))
<1>1. /\ syncer \in [Syncers -> SyncerStates]
      /\ cursor \in [Ledgers -> 0..MaxTransfers] /\ MaxTransfers \in Nat
  BY DEF SyncInv, SyncTypeOK, SyncerStates, SyncAssumption
<1>2. syncer[s] \in SyncerStates /\ b \in Seq(Timestamps)
  BY <1>1 DEF SyncerStates
<1>3. l \in Ledgers /\ BatchOK(b, l, transfers, cursor[l])
  BY DEF SyncInv, SyncerOK
<1>17. \A k \in Ledgers : cursor[k] \in Nat /\ cursor[k] <= MaxTransfers
  BY <1>1
<1>4. cursor[l] \in Nat /\ cursor[l] <= MaxTransfers
  BY <1>17, <1>3
<1>5. /\ h \in Timestamps /\ Wanted(h, l, transfers)
      /\ \A u \in Timestamps : Wanted(u, l, transfers) /\ u < h => u <= cursor[l]
      /\ Tail(b) \in Seq(Timestamps)
      /\ BatchOK(Tail(b), l, transfers, Greatest(cursor[l], h))
  BY <1>2, <1>3, <1>4, HeadIsNext
<1>6. h \in 1..MaxTransfers
  BY <1>5 DEF Timestamps
<1>7. Greatest(cursor[l], h) \in 0..MaxTransfers
      /\ cursor[l] <= Greatest(cursor[l], h) /\ h <= Greatest(cursor[l], h)
      /\ (Greatest(cursor[l], h) = cursor[l] \/ Greatest(cursor[l], h) = h)
  BY <1>1, <1>4, <1>6 DEF Greatest
<1>8. /\ cursor' \in [Ledgers -> 0..MaxTransfers]
      /\ cursor'[l] = Greatest(cursor[l], h)
      /\ \A k \in Ledgers : k # l => cursor'[k] = cursor[k]
  BY <1>1, <1>3, <1>7 DEF MoveCursor
<1>9. \A k \in Ledgers : cursor[k] <= cursor'[k]
  BY <1>1, <1>7, <1>8
<1>10. rest \in SyncerStates
  BY <1>1, <1>3, <1>5 DEF At, SyncerStates
<1>11. /\ syncer' \in [Syncers -> SyncerStates]
       /\ \A p \in Syncers : syncer'[p] = IF p = s THEN rest ELSE syncer[p]
  BY <1>1, <1>10 DEF Goes, Rest
<1>12. SyncTypeOK'
  BY <1>8, <1>11 DEF SyncInv, SyncTypeOK, SyncerStates, Timestamps
<1>13. SyncerOK(rest, transfers, cursor')
  BY <1>3, <1>5, <1>8 DEF At, SyncerOK
<1>14. ASSUME NEW p \in Syncers
       PROVE  SyncerOK(syncer'[p], transfers', cursor')
  <2>1. CASE p = s
    BY <2>1, <1>11, <1>13
  <2>2. CASE p # s
    <3>1. syncer[p] \in SyncerStates /\ SyncerOK(syncer[p], transfers, cursor)
      BY <1>1 DEF SyncInv
    <3>2. SyncerOK(syncer[p], transfers, cursor')
      BY <3>1, <1>1, <1>8, <1>9, CursorsGrow
    <3> QED
      BY <3>2, <2>2, <1>11
  <2> QED
    BY <2>1, <2>2
<1>15. ASSUME NEW t \in Timestamps
       PROVE  /\ IsCollection(t) /\ t <= cursor'[transfers[t].ledger]
                    => record'[t] # "none"
              /\ record'[t] = "mirror"
                    => IsCollection(t) /\ t <= cursor'[transfers[t].ledger]
  <2>1. t \in Nat /\ h \in Nat
    BY <1>1, <1>6 DEF Timestamps
  <2>5. \A u \in DOMAIN transfers : transfers[u].ledger \in Ledgers
    <3>1. transfers \in Seq([ledger : Ledgers, kind : Kinds])
      BY DEF SyncInv, SyncTypeOK
    <3>2. \A u \in DOMAIN transfers :
             transfers[u] \in [ledger : Ledgers, kind : Kinds]
      BY <3>1, ElementsOfSeq
    <3> QED
      BY <3>2
  <2>2. IsCollection(t) => transfers[t].ledger \in Ledgers
    BY <2>5 DEF IsCollection
  <2>3. ASSUME IsCollection(t), t <= cursor'[transfers[t].ledger]
        PROVE  record'[t] # "none"
    <3>1. CASE t = h
      BY <3>1, <2>3
    <3>2. CASE t # h /\ t <= cursor[transfers[t].ledger]
      <4>1. record[t] # "none"
        BY <2>3, <3>2 DEF SyncInv, MirrorIsTheLedger
      <4> QED
        BY <4>1, <3>2
    <3>3. CASE t # h /\ ~ (t <= cursor[transfers[t].ledger])
      <4>1. transfers[t].ledger = l
        BY <2>2, <2>3, <3>3, <1>8
      <4>2. t <= h
        BY <4>1, <2>3, <3>3, <1>7, <1>8
      <4>3. Wanted(t, l, transfers) /\ t < h
        BY <4>1, <4>2, <2>1, <2>3, <3>3 DEF Wanted, IsCollection
      <4> QED
        BY <4>1, <4>3, <1>5, <3>3
    <3> QED
      BY <3>1, <3>2, <3>3
  <2>4. ASSUME record'[t] = "mirror"
        PROVE  IsCollection(t) /\ t <= cursor'[transfers[t].ledger]
    <3>1. CASE record[t] = "mirror"
      <4>1. IsCollection(t) /\ t <= cursor[transfers[t].ledger]
        BY <3>1 DEF SyncInv, MirrorIsTheLedger
      <4>3. \A k \in Ledgers : cursor'[k] \in Nat
        BY <1>1, <1>8
      <4>2. /\ cursor[transfers[t].ledger] <= cursor'[transfers[t].ledger]
            /\ cursor[transfers[t].ledger] \in Nat
            /\ cursor'[transfers[t].ledger] \in Nat
        BY <4>1, <4>3, <2>2, <1>17, <1>9
      <4> QED
        BY <4>1, <4>2, <2>1
    <3>2. CASE record[t] # "mirror"
      <4>1. IsCollection(t) /\ t = h
        BY <3>2, <2>4
      <4>2. transfers[t].ledger = l
        BY <4>1, <1>5 DEF Wanted
      <4> QED
        BY <4>1, <4>2, <1>7, <1>8
    <3> QED
      BY <3>1, <3>2
  <2> QED
    BY <2>3, <2>4
<1>16. MirrorIsTheLedger'
  <2>1. \A t \in Timestamps : IsCollection(t)' <=> IsCollection(t)
    BY DEF IsCollection
  <2> QED
    BY <2>1, <1>15 DEF MirrorIsTheLedger
<1>18. ASSUME NEW k \in Ledgers
       PROVE  cursor'[k] <= Len(transfers')
  <2>1. transfers \in Seq([ledger : Ledgers, kind : Kinds])
    BY DEF SyncInv, SyncTypeOK
  <2>2. DOMAIN transfers = 1..Len(transfers)
    BY <2>1
  <2>3. h <= Len(transfers)
    BY <2>2, <1>5 DEF Wanted
  <2>4. cursor[k] <= Len(transfers) /\ cursor[l] <= Len(transfers)
    BY <1>3 DEF SyncInv
  <2>5. CASE k = l
    BY <2>5, <2>3, <2>4, <1>7, <1>8
  <2>6. CASE k # l
    BY <2>6, <2>4, <1>8
  <2> QED
    BY <2>5, <2>6
<1> QED
  BY <1>12, <1>14, <1>16, <1>18 DEF SyncInv

-----------------------------------------------------------------------------
LEMMA SyncInitOK ==
    ASSUME SyncAssumption, SyncInit
    PROVE  SyncInv
<1> USE DEF SyncInit, SyncAssumption, Timestamps
<1>1. SyncTypeOK
  <2>1. syncer \in [Syncers -> SyncerStates]
    BY WaitingIsOK
  <2> QED
    BY <2>1 DEF SyncTypeOK, SyncerStates
<1>2. MirrorIsTheLedger
  BY DEF MirrorIsTheLedger, IsCollection
<1>3. \A s \in Syncers : SyncerOK(syncer[s], transfers, cursor)
  BY WaitingIsOK
<1>4. \A l \in Ledgers : cursor[l] <= Len(transfers)
  OBVIOUS
<1> QED
  BY <1>1, <1>2, <1>3, <1>4 DEF SyncInv

LEMMA TransferOK ==
    ASSUME SyncAssumption, SyncInv, NEW l \in Ledgers, NEW kind \in Kinds,
           Transfer(l, kind)
    PROVE  SyncInv'
<1> DEFINE x == [ledger |-> l, kind |-> kind]
           n == Len(transfers)
<1>1. /\ transfers \in Seq([ledger : Ledgers, kind : Kinds])
      /\ n \in Nat /\ DOMAIN transfers = 1..n /\ n < MaxTransfers
      /\ MaxTransfers \in Nat /\ transfers' = Append(transfers, x)
      /\ x \in [ledger : Ledgers, kind : Kinds]
  BY DEF SyncInv, SyncTypeOK, Transfer, SyncAssumption
<1>2. /\ transfers' \in Seq([ledger : Ledgers, kind : Kinds])
      /\ Len(transfers') = n + 1 /\ DOMAIN transfers' = 1..(n + 1)
      /\ \A u \in 1..n : transfers'[u] = transfers[u]
      /\ transfers'[n + 1] = x
  BY <1>1
<1>3. UNCHANGED <<cursor, record, announced, syncer>>
  BY DEF Transfer
<1>4. SyncTypeOK'
  BY <1>1, <1>2, <1>3 DEF SyncInv, SyncTypeOK, Timestamps
<1>5. ASSUME NEW p \in Syncers
      PROVE  SyncerOK(syncer'[p], transfers', cursor')
  <2>1. syncer[p] \in SyncerStates /\ SyncerOK(syncer[p], transfers, cursor)
    BY DEF SyncInv, SyncTypeOK, SyncerStates
  <2>2. SyncerOK(syncer[p], Append(transfers, x), cursor)
    BY <2>1, TransfersAppend DEF SyncInv
  <2> QED
    BY <2>2, <1>1, <1>3
<1>6. ASSUME NEW t \in Timestamps
      PROVE  (t <= n => transfers'[t] = transfers[t]
                        /\ (IsCollection(t)' <=> IsCollection(t)))
             /\ (IsCollection(t) => t <= n)
             /\ (IsCollection(t)' /\ ~ (t <= n) =>
                   t = n + 1 /\ transfers'[t].ledger = l)
  BY <1>1, <1>2, SyncAssumption DEF IsCollection, Timestamps, SyncAssumption
<1>7. \A k \in Ledgers : cursor[k] \in Nat /\ cursor[k] <= n
  BY <1>1 DEF SyncInv, SyncTypeOK
<1>8. ASSUME NEW t \in Timestamps
      PROVE  /\ IsCollection(t)' /\ t <= cursor[transfers'[t].ledger]
                   => record[t] # "none"
             /\ record[t] = "mirror"
                   => IsCollection(t)' /\ t <= cursor[transfers'[t].ledger]
             /\ announced[t] = (IF record[t] = "none" THEN 0 ELSE 1)
  <2>1. CASE t <= n
    <3>1. /\ transfers'[t] = transfers[t]
          /\ IsCollection(t)' <=> IsCollection(t)
      BY <2>1, <1>6
    <3> QED
      BY <3>1 DEF SyncInv, MirrorIsTheLedger
  <2>2. CASE ~ (t <= n)
    <3>1. ~ IsCollection(t) /\ record[t] # "mirror"
          /\ announced[t] = (IF record[t] = "none" THEN 0 ELSE 1)
      BY <2>2, <1>6 DEF SyncInv, MirrorIsTheLedger
    <3>2. ~ (n + 1 <= cursor[l])
      BY <1>1, <1>7
    <3>3. ~ (IsCollection(t)' /\ t <= cursor[transfers'[t].ledger])
      BY <2>2, <3>2, <1>6
    <3> QED
      BY <3>1, <3>3
  <2> QED
    BY <2>1, <2>2
<1>9. MirrorIsTheLedger'
  BY <1>3, <1>8 DEF MirrorIsTheLedger, Timestamps
<1>10. \A k \in Ledgers : cursor'[k] <= Len(transfers')
  BY <1>1, <1>2, <1>3, <1>7
<1> QED
  BY <1>4, <1>5, <1>9, <1>10 DEF SyncInv

LEMMA RecordByHandOK ==
    ASSUME SyncAssumption, SyncInv, NEW t \in Timestamps, RecordByHand(t)
    PROVE  SyncInv'
<1>1. /\ record \in [Timestamps -> {"none", "hand", "mirror"}]
      /\ announced \in [Timestamps -> Nat] /\ announced[t] = 0
  BY DEF SyncInv, SyncTypeOK, RecordByHand, MirrorIsTheLedger
<1>2. /\ record' \in [Timestamps -> {"none", "hand", "mirror"}]
      /\ announced' \in [Timestamps -> Nat]
      /\ record'[t] = "hand" /\ announced'[t] = 1
      /\ \A u \in Timestamps :
            u # t => record'[u] = record[u] /\ announced'[u] = announced[u]
  BY <1>1 DEF RecordByHand
<1>3. UNCHANGED <<transfers, cursor, syncer>>
  BY DEF RecordByHand
<1>4. SyncTypeOK'
  BY <1>2, <1>3 DEF SyncInv, SyncTypeOK, Timestamps
<1>5. \A u \in Timestamps : IsCollection(u)' <=> IsCollection(u)
  BY <1>3 DEF IsCollection
<1>6. MirrorIsTheLedger'
  BY <1>2, <1>3, <1>5 DEF SyncInv, MirrorIsTheLedger
<1>7. \A l \in Ledgers : cursor'[l] <= Len(transfers')
  BY <1>3 DEF SyncInv
<1>8. ASSUME NEW s \in Syncers
      PROVE  SyncerOK(syncer'[s], transfers', cursor')
  BY <1>3 DEF SyncInv
<1> QED
  BY <1>4, <1>6, <1>7, <1>8 DEF SyncInv

(* Every step of a process. *)
LEMMA SyncsOK ==
    ASSUME SyncAssumption, SyncInv, NEW s \in Syncers, Syncs(s)
    PROVE  SyncInv'
<1>1. /\ MaxTransfers \in Nat /\ cursor \in [Ledgers -> 0..MaxTransfers]
      /\ record \in [Timestamps -> {"none", "hand", "mirror"}]
      /\ announced \in [Timestamps -> Nat] /\ syncer[s] \in SyncerStates
  BY DEF SyncInv, SyncTypeOK, SyncerStates, SyncAssumption
<1>2. ASSUME NEW l \in Ledgers, SyncCursor(s, l)
      PROVE  SyncInv'
  <2> DEFINE st == At("query", l, cursor[l], << >>)
  <2>1. cursor[l] \in 0..MaxTransfers /\ cursor[l] <= cursor[l]
    BY <1>1
  <2>2. st \in SyncerStates /\ SyncerOK(st, transfers, cursor)
    BY <2>1 DEF At, SyncerStates, SyncerOK
  <2>3. Goes(s, st) /\ UNCHANGED <<transfers, cursor, record, announced>>
    BY <1>2 DEF SyncCursor
  <2> QED
    BY <2>2, <2>3, OneGoes
<1>3. ASSUME NEW l \in Ledgers, QueryTransfers(s, l)
      PROVE  SyncInv'
  <2>1. PICK b \in Batches(l, syncer[s].from) : Goes(s, At("batch", l, 0, b))
    BY <1>3 DEF QueryTransfers
  <2>2. syncer[s].from \in 0..MaxTransfers /\ syncer[s].from <= cursor[l]
    BY <1>1, <1>3 DEF QueryTransfers, SyncInv, SyncerOK, SyncerStates
  <2>3. b \in Seq(Timestamps) /\ BatchOK(b, l, transfers, cursor[l])
    BY <2>1, <2>2, QueryLeavesNothing DEF SyncInv
  <2> DEFINE st == At("batch", l, 0, b)
  <2>4. st \in SyncerStates /\ SyncerOK(st, transfers, cursor)
    BY <1>1, <2>3 DEF At, SyncerStates, SyncerOK
  <2>5. Goes(s, st) /\ UNCHANGED <<transfers, cursor, record, announced>>
    BY <2>1, <1>3 DEF QueryTransfers
  <2> QED
    BY <2>4, <2>5, OneGoes
<1>4. ASSUME EndPoll(s) \/ RefuseTransfer(s) \/ PollFails(s)
      PROVE  SyncInv'
  <2>1. Goes(s, Waiting) /\ UNCHANGED <<transfers, cursor, record, announced>>
    BY <1>4 DEF EndPoll, RefuseTransfer, PollFails
  <2> QED
    BY <2>1, WaitingIsOK, OneGoes
<1> DEFINE h == Head(syncer[s].batch)
<1>5. ASSUME RecordTBSettlement(s)
      PROVE  SyncInv'
  <2>1. /\ syncer[s].pc = "batch" /\ syncer[s].batch # << >>
        /\ transfers[h].kind = "collection" /\ Insert(h)
        /\ MoveCursor(syncer[s].ledger, h) /\ Goes(s, Rest(s))
        /\ UNCHANGED transfers
    BY <1>5 DEF RecordTBSettlement
  <2>2. syncer[s].batch \in Seq(Timestamps)
    BY <1>1 DEF SyncerStates
  <2>3. /\ syncer[s].ledger \in Ledgers
        /\ BatchOK(syncer[s].batch, syncer[s].ledger, transfers,
                   cursor[syncer[s].ledger])
    BY <2>1 DEF SyncInv, SyncerOK
  <2>7. \A k \in Ledgers : cursor[k] \in Nat
    BY <1>1
  <2>4. h \in Timestamps /\ Wanted(h, syncer[s].ledger, transfers)
    <3>1. cursor[syncer[s].ledger] \in Nat
      BY <2>3, <2>7, Zenon
    <3> QED
      BY <2>1, <2>2, <2>3, <3>1, HeadIsNext
  <2>5. IsCollection(h)
    BY <2>1, <2>4 DEF IsCollection, Wanted
  <2>6. /\ record' \in [Timestamps -> {"none", "hand", "mirror"}]
        /\ announced' \in [Timestamps -> Nat]
        /\ \A t \in Timestamps :
              /\ t # h => record'[t] = record[t] /\ announced'[t] = announced[t]
              /\ record[t] # "none" => record'[t] = record[t]
              /\ record'[t] = "mirror" => record[t] = "mirror" \/ IsCollection(t)
              /\ announced'[t] = (IF record'[t] = "none" THEN 0 ELSE 1)
        /\ record'[h] # "none"
    <3>1. \A t \in Timestamps :
             announced[t] = (IF record[t] = "none" THEN 0 ELSE 1)
      BY DEF SyncInv, MirrorIsTheLedger
    <3>2. CASE record[h] = "none"
      <4>1. /\ record' = [record EXCEPT ![h] = "mirror"]
            /\ announced' = [announced EXCEPT ![h] = @ + 1]
        BY <2>1, <3>2 DEF Insert
      <4> QED
        BY <4>1, <3>1, <3>2, <2>4, <2>5, <1>1
    <3>3. CASE record[h] # "none"
      <4>1. record' = record /\ announced' = announced
        BY <2>1, <3>3 DEF Insert
      <4> QED
        BY <4>1, <3>1, <3>3, <2>4, <1>1
    <3> QED
      BY <3>2, <3>3
  <2> QED
    BY <2>1, <2>6, HeadIsDone
<1>6. ASSUME AdvanceSyncCursor(s)
      PROVE  SyncInv'
  <2>1. /\ syncer[s].pc = "batch" /\ syncer[s].batch # << >>
        /\ transfers[h].kind = "skipped"
        /\ MoveCursor(syncer[s].ledger, h) /\ Goes(s, Rest(s))
        /\ UNCHANGED <<transfers, record, announced>>
    BY <1>6 DEF AdvanceSyncCursor
  <2>2. ~ IsCollection(h)
    BY <2>1 DEF IsCollection
  <2>3. \A t \in Timestamps :
           announced[t] = (IF record[t] = "none" THEN 0 ELSE 1)
    BY DEF SyncInv, MirrorIsTheLedger
  <2> HIDE DEF h
  <2>4. /\ record' \in [Timestamps -> {"none", "hand", "mirror"}]
        /\ announced' \in [Timestamps -> Nat]
        /\ \A t \in Timestamps :
              /\ t # h => record'[t] = record[t] /\ announced'[t] = announced[t]
              /\ record[t] # "none" => record'[t] = record[t]
              /\ record'[t] = "mirror" => record[t] = "mirror" \/ IsCollection(t)
              /\ announced'[t] = (IF record'[t] = "none" THEN 0 ELSE 1)
    BY <2>1, <2>3, <1>1
  <2> USE DEF h
  <2> QED
    BY <2>1, <2>2, <2>4, HeadIsDone
<1> QED
  BY <1>2, <1>3, <1>4, <1>5, <1>6 DEF Syncs

LEMMA SyncStepOK ==
    ASSUME SyncAssumption, SyncInv, [SyncNext]_syncVars
    PROVE  SyncInv'
<1>1. ASSUME UNCHANGED syncVars
      PROVE  SyncInv'
  <2> USE <1>1 DEF syncVars
  <2>1. SyncTypeOK'
    BY DEF SyncInv, SyncTypeOK, Timestamps
  <2>2. MirrorIsTheLedger'
    BY DEF SyncInv, MirrorIsTheLedger, IsCollection, Timestamps
  <2>3. \A l \in Ledgers : cursor'[l] <= Len(transfers')
    BY DEF SyncInv
  <2>4. \A s \in Syncers : SyncerOK(syncer'[s], transfers', cursor')
    BY DEF SyncInv
  <2> QED
    BY <2>1, <2>2, <2>3, <2>4 DEF SyncInv
<1>2. ASSUME NEW l \in Ledgers, NEW kind \in Kinds, Transfer(l, kind)
      PROVE  SyncInv'
  BY <1>2, TransferOK
<1>3. ASSUME NEW t \in Timestamps, RecordByHand(t)
      PROVE  SyncInv'
  BY <1>3, RecordByHandOK
<1>4. ASSUME NEW s \in Syncers, Syncs(s)
      PROVE  SyncInv'
  BY <1>4, SyncsOK
<1> QED
  BY <1>1, <1>2, <1>3, <1>4 DEF SyncNext

(* The state of the mirror has its type in every behaviour (SyncOnce).       *)
THEOREM SyncTypeCorrect == SyncSpec => []SyncTypeOK
<1>1. SyncInit => SyncInv
  BY SyncAssumption, SyncInitOK
<1>2. SyncInv /\ [SyncNext]_syncVars => SyncInv'
  BY SyncAssumption, SyncStepOK
<1>3. SyncInv => SyncTypeOK
  BY DEF SyncInv
<1> QED
  BY <1>1, <1>2, <1>3, PTL DEF SyncSpec

(* For any number of processes, ledgers and transfers and any batch limit,   *)
(* the mirror is the ledger up to the cursor: no collection is passed over,  *)
(* none is mirrored twice or announced twice (syncLedger,                    *)
(* RecordTBSettlement, AdvanceSyncCursor).                                   *)
THEOREM MirrorCorrect == SyncSpec => []MirrorIsTheLedger
<1>1. SyncInit => SyncInv
  BY SyncAssumption, SyncInitOK
<1>2. SyncInv /\ [SyncNext]_syncVars => SyncInv'
  BY SyncAssumption, SyncStepOK
<1>3. SyncInv => MirrorIsTheLedger
  BY DEF SyncInv
<1> QED
  BY <1>1, <1>2, <1>3, PTL DEF SyncSpec

-----------------------------------------------------------------------------
(* The intake consumers. *)

(* The first n messages of a partition have landed. *)
Done(q, n) ==
    /\ n <= Len(log[q])
    /\ \A i \in 1..n : landed[log[q][i].event] # "none"

(* What a reader holds: everything before its message has landed, and the    *)
(* message itself once it is about to commit.                                *)
HeldOK(st) ==
    /\ st.pc = "process" => /\ st.partition \in Partitions
                            /\ Done(st.partition, st.offset)
                            /\ st.offset < Len(log[st.partition])
    /\ st.pc = "commit" => /\ st.partition \in Partitions
                           /\ Done(st.partition, st.offset + 1)

(* What a running owner will fetch comes after messages that have landed, or *)
(* after the one it is processing.                                           *)
PositionOK(q) ==
    owner[q] # NoReader =>
       \/ reader[owner[q]].pc = "stopped"
       \/ Done(q, position[q])
       \/ /\ reader[owner[q]].pc = "process"
          /\ reader[owner[q]].partition = q
          /\ position[q] = reader[owner[q]].offset + 1

(* What has landed is a signed message of the log. *)
LandedOK ==
    \A e \in Events :
       landed[e] # "none" =>
          \E q \in Partitions : \E i \in DOMAIN log[q] :
             log[q][i] = [event |-> e, kind |-> landed[e]]

IntakeInv ==
    /\ IntakeTypeOK
    /\ \A q \in Partitions : Done(q, committed[q])
    /\ \A r \in Readers : HeldOK(reader[r])
    /\ \A q \in Partitions : PositionOK(q)
    /\ LandedOK

ReaderStates ==
    [pc : {"idle", "process", "commit", "stopped"},
     partition : Partitions \cup {NoReader}, offset : Nat]

LogsGrow ==
    \A q \in Partitions :
       /\ Len(log[q]) <= Len(log'[q])
       /\ \A i \in 1..Len(log[q]) : log'[q][i] = log[q][i]

LandedGrows ==
    \A e \in Events : landed[e] # "none" => landed'[e] # "none"

(* What is done stays done. *)
LEMMA DoneStays ==
    ASSUME IntakeTypeOK, IntakeTypeOK', LogsGrow, LandedGrows,
           NEW q \in Partitions, NEW n \in Nat, Done(q, n)
    PROVE  Done(q, n)'
<1>1. /\ log[q] \in Seq([event : Events, kind : MessageKinds])
      /\ log'[q] \in Seq([event : Events, kind : MessageKinds])
  BY DEF IntakeTypeOK
<1>2. Len(log[q]) \in Nat /\ Len(log'[q]) \in Nat
      /\ DOMAIN log[q] = 1..Len(log[q])
  BY <1>1
<1>3. n <= Len(log[q]) /\ n <= Len(log'[q])
  BY <1>2 DEF Done, LogsGrow
<1>4. ASSUME NEW i \in 1..n
      PROVE  landed'[log'[q][i].event] # "none"
  <2>1. i \in 1..Len(log[q])
    BY <1>2, <1>3
  <2>2. log'[q][i] = log[q][i]
    BY <2>1 DEF LogsGrow
  <2>3. log[q][i] \in [event : Events, kind : MessageKinds]
    BY <2>1, <1>1, <1>2, ElementsOfSeq
  <2>4. log[q][i].event \in Events
    BY <2>3
  <2>5. landed[log[q][i].event] # "none"
    BY DEF Done
  <2> QED
    BY <2>2, <2>4, <2>5 DEF LandedGrows
<1> QED
  BY <1>3, <1>4 DEF Done

LEMMA HeldStays ==
    ASSUME IntakeTypeOK, IntakeTypeOK', LogsGrow, LandedGrows,
           NEW st \in ReaderStates, HeldOK(st)
    PROVE  HeldOK(st)'
<1>1. st.offset \in Nat
  BY DEF ReaderStates
<1>2. ASSUME st.pc = "process"
      PROVE  /\ st.partition \in Partitions /\ Done(st.partition, st.offset)'
             /\ st.offset < Len(log'[st.partition])
  <2>1. st.partition \in Partitions /\ Done(st.partition, st.offset)
        /\ st.offset < Len(log[st.partition])
    BY <1>2 DEF HeldOK
  <2>2. PICK q \in Partitions : q = st.partition
    BY <2>1
  <2>3. Done(q, st.offset)'
    BY <2>1, <2>2, <1>1, DoneStays
  <2>4. log[q] \in Seq([event : Events, kind : MessageKinds])
        /\ log'[q] \in Seq([event : Events, kind : MessageKinds])
    BY DEF IntakeTypeOK
  <2>5. Len(log[q]) \in Nat /\ Len(log'[q]) \in Nat
    BY <2>4
  <2>6. Len(log[q]) <= Len(log'[q])
    BY DEF LogsGrow
  <2>7. st.offset < Len(log'[q])
    BY <2>1, <2>2, <2>5, <2>6, <1>1
  <2> QED
    BY <2>2, <2>3, <2>7
<1>3. ASSUME st.pc = "commit"
      PROVE  /\ st.partition \in Partitions
             /\ Done(st.partition, st.offset + 1)'
  <2>1. st.partition \in Partitions /\ Done(st.partition, st.offset + 1)
    BY <1>3 DEF HeldOK
  <2>2. st.offset + 1 \in Nat
    BY <1>1
  <2> QED
    BY <2>1, <2>2, DoneStays
<1> QED
  BY <1>2, <1>3 DEF HeldOK

LEMMA PositionStays ==
    ASSUME IntakeTypeOK, IntakeTypeOK', LogsGrow, LandedGrows,
           NEW q \in Partitions, PositionOK(q),
           owner'[q] = owner[q], position'[q] = position[q],
           owner[q] # NoReader =>
              \/ reader'[owner[q]] = reader[owner[q]]
              \/ reader'[owner[q]].pc = "stopped"
    PROVE  PositionOK(q)'
<1>1. position[q] \in Nat
  BY DEF IntakeTypeOK
<1>2. CASE owner[q] = NoReader
  BY <1>2 DEF PositionOK
<1>3. CASE owner[q] # NoReader /\ reader'[owner[q]].pc = "stopped"
  BY <1>3 DEF PositionOK
<1>4. CASE owner[q] # NoReader /\ reader'[owner[q]] = reader[owner[q]]
  <2>1. CASE Done(q, position[q])
    <3>1. Done(q, position[q])'
      <4>1. PICK n \in Nat : n = position[q]
        BY <1>1
      <4>2. Done(q, n)'
        BY <4>1, <2>1, DoneStays
      <4> QED
        BY <4>1, <4>2 DEF Done
    <3> QED
      BY <3>1 DEF PositionOK
  <2>2. CASE ~ Done(q, position[q])
    BY <2>2, <1>4 DEF PositionOK
  <2> QED
    BY <2>1, <2>2
<1> QED
  BY <1>2, <1>3, <1>4

(* An action is judged by what it changes. *)
LEMMA IntakeStays ==
    ASSUME IntakeInv, IntakeTypeOK', LogsGrow, LandedGrows,
           \A q \in Partitions : committed'[q] = committed[q]
                                 \/ Done(q, committed[q])',
           \A r \in Readers : reader'[r] = reader[r] \/ HeldOK(reader[r])',
           \A q \in Partitions :
              \/ PositionOK(q)'
              \/ /\ owner'[q] = owner[q] /\ position'[q] = position[q]
                 /\ owner[q] # NoReader =>
                       \/ reader'[owner[q]] = reader[owner[q]]
                       \/ reader'[owner[q]].pc = "stopped",
           LandedOK'
    PROVE  IntakeInv'
<1>1. ASSUME NEW q \in Partitions
      PROVE  Done(q, committed[q])'
  <2>1. CASE committed'[q] = committed[q]
    <3>1. PICK n \in Nat : n = committed[q]
      BY DEF IntakeInv, IntakeTypeOK
    <3>2. Done(q, n)'
      BY <3>1, DoneStays DEF IntakeInv
    <3> QED
      BY <3>1, <3>2, <2>1 DEF Done
  <2> QED
    BY <2>1
<1>2. ASSUME NEW r \in Readers
      PROVE  HeldOK(reader[r])'
  <2>1. CASE reader'[r] = reader[r]
    <3>1. PICK st \in ReaderStates : st = reader[r]
      BY DEF IntakeInv, IntakeTypeOK, ReaderStates
    <3>2. HeldOK(st)'
      BY <3>1, HeldStays DEF IntakeInv
    <3> QED
      BY <3>1, <3>2, <2>1 DEF HeldOK, Done
  <2> QED
    BY <2>1
<1>3. ASSUME NEW q \in Partitions
      PROVE  PositionOK(q)'
  BY PositionStays DEF IntakeInv
<1> QED
  BY <1>1, <1>2, <1>3 DEF IntakeInv

(* A reader stops: nothing depends on what it held.  The event of its        *)
(* message may have landed.                                                  *)
LEMMA LandOK ==
    ASSUME IntakeInv, NEW r \in Readers, reader[r].pc = "process",
           Message(r).kind \in Mappings, Land(Message(r)), UNCHANGED log
    PROVE  /\ landed' \in [Events -> Mappings \cup {"none"}]
           /\ LandedGrows /\ LandedOK'
           /\ landed'[Message(r).event] # "none"
<1> DEFINE q == reader[r].partition
           i == reader[r].offset + 1
           m == Message(r)
<1>1. q \in Partitions /\ reader[r].offset < Len(log[q])
  BY DEF IntakeInv, HeldOK
<1>2. log[q] \in Seq([event : Events, kind : MessageKinds])
  BY <1>1 DEF IntakeInv, IntakeTypeOK
<1>15. reader[r].offset \in Nat
  BY DEF IntakeInv, IntakeTypeOK
<1>3. Len(log[q]) \in Nat /\ DOMAIN log[q] = 1..Len(log[q])
  BY <1>2
<1>4. i \in DOMAIN log[q] /\ m = log[q][i]
  BY <1>1, <1>3, <1>15 DEF Message
<1>5. m \in [event : Events, kind : MessageKinds]
  <2>1. \A j \in DOMAIN log[q] :
           log[q][j] \in [event : Events, kind : MessageKinds]
    BY <1>2, ElementsOfSeq
  <2> HIDE DEF m, q, i
  <2> QED
    BY <2>1, <1>4
<1>6. m.event \in Events /\ m = [event |-> m.event, kind |-> m.kind]
  BY <1>5
<1>7. landed \in [Events -> Mappings \cup {"none"}]
  BY DEF IntakeInv, IntakeTypeOK
<1>8. "none" \notin Mappings
  BY DEF Mappings
<1> HIDE DEF m
<1>14. m.kind \in Mappings
  BY DEF m
<1>9. landed' = [landed EXCEPT ![m.event] =
                   IF landed[m.event] = "none" THEN m.kind ELSE landed[m.event]]
  BY DEF Land, m
<1>10. /\ landed' \in [Events -> Mappings \cup {"none"}]
       /\ landed'[m.event] # "none"
       /\ \A e \in Events : landed'[e] = landed[e]
                             \/ (e = m.event /\ landed'[e] = m.kind)
       /\ \A e \in Events : landed[e] # "none" => landed'[e] = landed[e]
  <2>1. PICK e0 \in Events : e0 = m.event
    BY <1>6
  <2>2. PICK k \in Mappings : k = m.kind
    BY <1>14
  <2>3. landed' = [landed EXCEPT ![e0] =
                     IF landed[e0] = "none" THEN k ELSE landed[e0]]
    BY <2>1, <2>2, <1>9
  <2>4. k # "none"
    BY <1>8
  <2>5. landed' \in [Events -> Mappings \cup {"none"}]
    <3> DEFINE v == IF landed[e0] = "none" THEN k ELSE landed[e0]
    <3>1. v \in Mappings \cup {"none"}
      BY <1>7
    <3>2. landed' = [landed EXCEPT ![e0] = v]
      BY <2>3
    <3> HIDE DEF v
    <3> QED
      BY <3>1, <3>2, <1>7
  <2>7. \A e \in Events : landed[e] # "none" => landed'[e] = landed[e]
    BY <2>3, <1>7
  <2>6. ASSUME NEW e \in Events
        PROVE  landed'[e] = landed[e] \/ (e = e0 /\ landed'[e] = k)
    <3>1. CASE e = e0 /\ landed[e0] = "none"
      BY <3>1, <2>3, <1>7
    <3>2. CASE e # e0
      BY <3>2, <2>3, <1>7
    <3>3. CASE e = e0 /\ landed[e0] # "none"
      BY <3>3, <2>7
    <3> QED
      BY <3>1, <3>2, <3>3
  <2>8. landed'[e0] # "none"
    BY <2>3, <2>4, <1>7
  <2> QED
    BY <2>1, <2>2, <2>5, <2>6, <2>7, <2>8
<1>11. LandedGrows
  BY <1>10 DEF LandedGrows
<1>12. ASSUME NEW e \in Events, landed'[e] # "none"
       PROVE  \E k \in Partitions : \E j \in DOMAIN log[k] :
                 log[k][j] = [event |-> e, kind |-> landed'[e]]
  <2>1. CASE landed'[e] = landed[e]
    BY <2>1, <1>12 DEF IntakeInv, LandedOK
  <2>2. CASE e = m.event /\ landed'[e] = m.kind
    BY <2>2, <1>1, <1>4, <1>6
  <2> QED
    BY <2>1, <2>2, <1>10
<1>13. LandedOK'
  BY <1>12 DEF LandedOK
<1> QED
  BY <1>10, <1>11, <1>13 DEF m

-----------------------------------------------------------------------------
LEMMA NothingMoves ==
    ASSUME IntakeInv, UNCHANGED <<log, landed>>
    PROVE  LogsGrow /\ LandedGrows /\ LandedOK'
<1>1. \A q \in Partitions : Len(log[q]) \in Nat
  <2>1. \A q \in Partitions :
           log[q] \in Seq([event : Events, kind : MessageKinds])
    BY DEF IntakeInv, IntakeTypeOK
  <2> QED
    BY <2>1
<1>2. LogsGrow
  BY <1>1 DEF LogsGrow
<1> QED
  BY <1>2 DEF LandedGrows, LandedOK, IntakeInv

LEMMA ReaderIsSomeone ==
    ASSUME NEW r \in Readers
    PROVE  r # NoReader
<1>1. PICK p \in Processes, t \in Topics : r = <<p, t>>
  BY DEF Readers
<1>2. Len(<<p, t>>) = 2 /\ Len(<< >>) = 0
  OBVIOUS
<1> QED
  BY <1>1, <1>2 DEF NoReader

LEMMA IdleAndStopped ==
    /\ Idle \in ReaderStates /\ Stopped \in ReaderStates
    /\ Idle.pc = "idle" /\ Stopped.pc = "stopped"
BY DEF Idle, Stopped, ReaderStates

LEMMA IntakeInitOK ==
    ASSUME IntakeInit
    PROVE  IntakeInv
<1> USE DEF IntakeInit
<1>1. reader \in [Readers -> ReaderStates]
  BY IdleAndStopped
<1>2. IntakeTypeOK
  BY <1>1 DEF IntakeTypeOK, ReaderStates
<1>3. \A q \in Partitions : Done(q, committed[q])
  BY DEF Done
<1>4. \A r \in Readers : HeldOK(reader[r])
  BY DEF HeldOK, Idle
<1>5. \A q \in Partitions : PositionOK(q)
  BY DEF PositionOK
<1>6. LandedOK
  BY DEF LandedOK
<1> QED
  BY <1>2, <1>3, <1>4, <1>5, <1>6 DEF IntakeInv

LEMMA ProduceOK ==
    ASSUME IntakeInv, NEW q \in Partitions, NEW e \in Events,
           NEW kind \in MessageKinds, Produce(q, e, kind)
    PROVE  IntakeInv'
<1> DEFINE M == [event : Events, kind : MessageKinds]
           x == [event |-> e, kind |-> kind]
<1>1. log \in [Partitions -> Seq(M)] /\ x \in M
  BY DEF IntakeInv, IntakeTypeOK
<1>2. /\ log' = [log EXCEPT ![q] = Append(log[q], x)]
      /\ UNCHANGED <<committed, owner, position, landed, reader>>
  BY DEF Produce
<1> HIDE DEF M, x
<1>3. log' \in [Partitions -> Seq(M)]
  BY <1>1, <1>2
<1>4. IntakeTypeOK'
  BY <1>2, <1>3 DEF M, IntakeInv, IntakeTypeOK
<1>5. ASSUME NEW k \in Partitions
      PROVE  /\ Len(log[k]) <= Len(log'[k])
             /\ DOMAIN log[k] = 1..Len(log[k])
             /\ DOMAIN log'[k] = 1..Len(log'[k])
             /\ \A i \in 1..Len(log[k]) : log'[k][i] = log[k][i]
             /\ DOMAIN log[k] \subseteq DOMAIN log'[k]
  <2>1. log[k] \in Seq(M) /\ log'[k] \in Seq(M)
    BY <1>1, <1>3
  <2>2. log'[k] = IF k = q THEN Append(log[k], x) ELSE log[k]
    BY <1>1, <1>2
  <2> QED
    BY <2>1, <2>2, <1>1
<1>6. LogsGrow
  BY <1>5 DEF LogsGrow
<1>7. LandedGrows
  BY <1>2 DEF LandedGrows
<1>8. ASSUME NEW v \in Events, landed'[v] # "none"
      PROVE  \E k \in Partitions : \E i \in DOMAIN log'[k] :
                log'[k][i] = [event |-> v, kind |-> landed'[v]]
  <2>1. PICK k \in Partitions : \E i \in DOMAIN log[k] :
           log[k][i] = [event |-> v, kind |-> landed[v]]
    BY <1>2, <1>8 DEF IntakeInv, LandedOK
  <2>2. PICK i \in DOMAIN log[k] :
           log[k][i] = [event |-> v, kind |-> landed[v]]
    BY <2>1
  <2>3. i \in DOMAIN log'[k] /\ log'[k][i] = log[k][i]
    BY <1>5
  <2> QED
    BY <2>2, <2>3, <1>2
<1>9. LandedOK'
  BY <1>8 DEF LandedOK
<1> QED
  BY <1>2, <1>4, <1>6, <1>7, <1>9, IntakeStays

LEMMA AssignOK ==
    ASSUME IntakeInv, NEW q \in Partitions, NEW r \in Readers, Assign(q, r)
    PROVE  IntakeInv'
<1>1. /\ owner' = [owner EXCEPT ![q] = r]
      /\ position' = [position EXCEPT ![q] = committed[q]]
      /\ UNCHANGED <<log, committed, landed, reader>>
  BY DEF Assign
<1>2. /\ owner \in [Partitions -> Readers \cup {NoReader}]
      /\ position \in [Partitions -> Nat] /\ committed[q] \in Nat
  BY DEF IntakeInv, IntakeTypeOK
<1>3. /\ owner' \in [Partitions -> Readers \cup {NoReader}]
      /\ position' \in [Partitions -> Nat]
      /\ position'[q] = committed[q]
      /\ \A k \in Partitions :
            k # q => owner'[k] = owner[k] /\ position'[k] = position[k]
  BY <1>1, <1>2
<1>4. IntakeTypeOK'
  BY <1>1, <1>3 DEF IntakeInv, IntakeTypeOK
<1>5. LogsGrow /\ LandedGrows /\ LandedOK'
  BY <1>1, NothingMoves
<1>6. PositionOK(q)'
  <2>1. Done(q, committed[q])
    BY DEF IntakeInv
  <2>2. Done(q, position[q])'
    BY <2>1, <1>1, <1>3 DEF Done
  <2> QED
    BY <2>2 DEF PositionOK
<1>7. ASSUME NEW k \in Partitions
      PROVE  \/ PositionOK(k)'
             \/ /\ owner'[k] = owner[k] /\ position'[k] = position[k]
                /\ owner[k] # NoReader => reader'[owner[k]] = reader[owner[k]]
  BY <1>1, <1>3, <1>6
<1> QED
  BY <1>1, <1>4, <1>5, <1>7, IntakeStays

(* One reader moves, and owners and positions stay: the partitions it owns   *)
(* are judged by the new state.                                              *)
LEMMA ReaderMoves ==
    ASSUME IntakeInv, NEW r \in Readers, NEW st \in ReaderStates,
           ReaderGoes(r, st), UNCHANGED <<log, owner, position>>,
           committed' \in [Partitions -> Nat],
           landed' \in [Events -> Mappings \cup {"none"}],
           LandedGrows, LandedOK',
           HeldOK(st)',
           \A q \in Partitions : committed'[q] = committed[q]
                                 \/ Done(q, committed[q])',
           \/ st.pc = "stopped"
           \/ \A q \in Partitions : owner[q] = r => Done(q, position[q])'
    PROVE  IntakeInv'
<1>1. reader \in [Readers -> ReaderStates]
  BY DEF IntakeInv, IntakeTypeOK, ReaderStates
<1>2. /\ reader' \in [Readers -> ReaderStates]
      /\ \A p \in Readers : reader'[p] = IF p = r THEN st ELSE reader[p]
  BY <1>1 DEF ReaderGoes
<1>3. IntakeTypeOK'
  BY <1>2 DEF IntakeInv, IntakeTypeOK, ReaderStates
<1>4. LogsGrow
  <2>1. \A q \in Partitions :
           log[q] \in Seq([event : Events, kind : MessageKinds])
    BY DEF IntakeInv, IntakeTypeOK
  <2>2. \A q \in Partitions : Len(log[q]) \in Nat
    BY <2>1
  <2> QED
    BY <2>2 DEF LogsGrow
<1>5. ASSUME NEW p \in Readers
      PROVE  reader'[p] = reader[p] \/ HeldOK(reader[p])'
  <2>1. CASE p = r
    <3>1. reader'[p] = st
      BY <2>1, <1>2
    <3> QED
      BY <3>1 DEF HeldOK
  <2>2. CASE p # r
    BY <2>2, <1>2
  <2> QED
    BY <2>1, <2>2
<1>6. ASSUME NEW q \in Partitions
      PROVE  \/ PositionOK(q)'
             \/ /\ owner'[q] = owner[q] /\ position'[q] = position[q]
                /\ owner[q] # NoReader =>
                      \/ reader'[owner[q]] = reader[owner[q]]
                      \/ reader'[owner[q]].pc = "stopped"
  <2>1. owner[q] \in Readers \cup {NoReader}
    BY DEF IntakeInv, IntakeTypeOK
  <2>2. CASE owner[q] = r /\ Done(q, position[q])'
    BY <2>2 DEF PositionOK
  <2>3. CASE owner[q] = r /\ st.pc = "stopped"
    BY <2>3, <1>2
  <2>4. CASE owner[q] # r
    BY <2>4, <2>1, <1>2
  <2> QED
    BY <2>2, <2>3, <2>4
<1> QED
  BY <1>3, <1>4, <1>5, <1>6, IntakeStays

(* A reader stops. *)
LEMMA StopOK ==
    ASSUME IntakeInv, NEW r \in Readers, ReaderGoes(r, Stopped),
           UNCHANGED <<log, owner, position>>,
           committed' \in [Partitions -> Nat],
           landed' \in [Events -> Mappings \cup {"none"}],
           LandedGrows, LandedOK',
           \A q \in Partitions : committed'[q] = committed[q]
                                 \/ Done(q, committed[q])'
    PROVE  IntakeInv'
<1>1. HeldOK(Stopped)'
  BY DEF HeldOK, Stopped
<1> QED
  BY <1>1, IdleAndStopped, ReaderMoves

LEMMA CommitOffsetOK ==
    ASSUME IntakeInv, NEW r \in Readers, reader[r].pc = "commit",
           CommitOffset(r), UNCHANGED <<log, landed>>
    PROVE  /\ committed' \in [Partitions -> Nat]
           /\ \A q \in Partitions : committed'[q] = committed[q]
                                     \/ Done(q, committed[q])'
<1>1. /\ reader[r].partition \in Partitions
      /\ Done(reader[r].partition, reader[r].offset + 1)
  BY DEF IntakeInv, HeldOK
<1>2. reader[r].offset \in Nat /\ committed \in [Partitions -> Nat]
  BY DEF IntakeInv, IntakeTypeOK
<1>3. PICK k \in Partitions : k = reader[r].partition
  BY <1>1
<1>4. PICK n \in Nat : n = reader[r].offset + 1
  BY <1>2
<1>5. committed' = [committed EXCEPT ![k] = n] /\ Done(k, n)
  BY <1>1, <1>3, <1>4 DEF CommitOffset
<1>6. /\ committed' \in [Partitions -> Nat] /\ committed'[k] = n
      /\ \A q \in Partitions : q # k => committed'[q] = committed[q]
  BY <1>2, <1>5
<1>7. Done(k, committed[k])'
  BY <1>5, <1>6 DEF Done
<1> QED
  BY <1>6, <1>7

LEMMA FetchMessageOK ==
    ASSUME IntakeInv, NEW r \in Readers, NEW q \in Partitions,
           FetchMessage(r, q)
    PROVE  IntakeInv'
<1>0. PICK st : st = Holding("process", q, position[q])
  OBVIOUS
<1>1. /\ reader[r].pc = "idle" /\ owner[q] = r /\ position[q] < Len(log[q])
      /\ reader' = [reader EXCEPT ![r] = st]
      /\ position' = [position EXCEPT ![q] = position[q] + 1]
      /\ UNCHANGED <<log, committed, owner, landed>>
  BY <1>0 DEF FetchMessage, ReaderGoes
<1>2. /\ reader \in [Readers -> ReaderStates] /\ position \in [Partitions -> Nat]
      /\ owner \in [Partitions -> Readers \cup {NoReader}]
  BY DEF IntakeInv, IntakeTypeOK, ReaderStates
<1>3. position[q] \in Nat
  BY <1>2
<1>4. st \in ReaderStates /\ st.pc = "process" /\ st.partition = q
      /\ st.offset = position[q]
  BY <1>0, <1>3 DEF Holding, ReaderStates
<1>5. /\ reader' \in [Readers -> ReaderStates]
      /\ \A p \in Readers : reader'[p] = IF p = r THEN st ELSE reader[p]
      /\ position' \in [Partitions -> Nat] /\ position'[q] = position[q] + 1
      /\ \A k \in Partitions : k # q => position'[k] = position[k]
  BY <1>1, <1>2, <1>3, <1>4
<1>6. IntakeTypeOK'
  BY <1>1, <1>5 DEF IntakeInv, IntakeTypeOK, ReaderStates
<1>7. LogsGrow /\ LandedGrows /\ LandedOK'
  BY <1>1, NothingMoves
<1>11. r # NoReader
  BY ReaderIsSomeone
<1>8. \A k \in Partitions : owner[k] = r => Done(k, position[k])
  BY <1>1, <1>11 DEF IntakeInv, PositionOK
<1>9. ASSUME NEW p \in Readers
      PROVE  reader'[p] = reader[p] \/ HeldOK(reader[p])'
  <2>1. CASE p = r
    <3>1. reader'[p] = st
      BY <2>1, <1>5
    <3>2. Done(q, position[q])
      BY <1>1, <1>8
    <3>3. Done(q, st.offset)'
      BY <3>2, <1>1, <1>4 DEF Done
    <3> QED
      BY <3>1, <3>3, <1>1, <1>4 DEF HeldOK, Done
  <2>2. CASE p # r
    BY <2>2, <1>5
  <2> QED
    BY <2>1, <2>2
<1>10. ASSUME NEW k \in Partitions
       PROVE  \/ PositionOK(k)'
              \/ /\ owner'[k] = owner[k] /\ position'[k] = position[k]
                 /\ owner[k] # NoReader => reader'[owner[k]] = reader[owner[k]]
  <2>1. CASE k = q
    BY <2>1, <1>1, <1>4, <1>5 DEF PositionOK
  <2>2. CASE k # q /\ owner[k] = r
    <3>1. Done(k, position[k])
      BY <2>2, <1>8
    <3>2. Done(k, position[k])'
      BY <3>1, <2>2, <1>1, <1>5 DEF Done
    <3> QED
      BY <3>2 DEF PositionOK
  <2>3. CASE k # q /\ owner[k] # r
    BY <2>3, <1>1, <1>2, <1>5
  <2> QED
    BY <2>1, <2>2, <2>3
<1> QED
  BY <1>1, <1>6, <1>7, <1>9, <1>10, IntakeStays

(* The event lands and the reader goes on to commit. *)
LEMMA RecordEventOK ==
    ASSUME IntakeInv, NEW r \in Readers, RecordEvent(r)
    PROVE  IntakeInv'
<1>1. /\ reader[r].pc = "process" /\ Message(r).kind \in Mappings
      /\ Land(Message(r)) /\ ReaderGoes(r, [reader[r] EXCEPT !.pc = "commit"])
      /\ UNCHANGED <<log, committed, owner, position>>
  BY DEF RecordEvent
<1>2. reader[r] \in ReaderStates /\ committed \in [Partitions -> Nat]
  BY DEF IntakeInv, IntakeTypeOK, ReaderStates
<1>3. PICK st \in ReaderStates :
         /\ st = [reader[r] EXCEPT !.pc = "commit"]
         /\ st.pc = "commit" /\ st.partition = reader[r].partition
         /\ st.offset = reader[r].offset
  <2> DEFINE st == [reader[r] EXCEPT !.pc = "commit"]
  <2>1. st \in ReaderStates
    BY <1>2 DEF ReaderStates
  <2>2. st.pc = "commit" /\ st.partition = reader[r].partition
        /\ st.offset = reader[r].offset
    BY <1>2 DEF ReaderStates
  <2> QED
    BY <2>1, <2>2, Zenon
<1>4. PICK q \in Partitions : q = reader[r].partition
  BY <1>1 DEF IntakeInv, HeldOK
<1>5. PICK n \in Nat : n = reader[r].offset
  BY <1>2 DEF ReaderStates
<1>6. Done(q, n) /\ n < Len(log[q]) /\ Message(r) = log[q][n + 1]
  BY <1>1, <1>4, <1>5 DEF IntakeInv, HeldOK, Message
<1>7. /\ landed' \in [Events -> Mappings \cup {"none"}]
      /\ LandedGrows /\ LandedOK' /\ landed'[log[q][n + 1].event] # "none"
  BY <1>1, <1>6, LandOK
<1>8. log \in [Partitions -> Seq([event : Events, kind : MessageKinds])]
  BY DEF IntakeInv, IntakeTypeOK
<1>9. \A k \in Partitions : Len(log[k]) \in Nat
  <2>1. \A k \in Partitions :
           log[k] \in Seq([event : Events, kind : MessageKinds])
    BY <1>8
  <2> QED
    BY <2>1
<1>10. LogsGrow
  BY <1>1, <1>9 DEF LogsGrow
<1>11. IntakeTypeOK'
  <2>1. reader' \in [Readers -> ReaderStates]
    BY <1>1, <1>3 DEF ReaderGoes, IntakeInv, IntakeTypeOK, ReaderStates
  <2> QED
    BY <2>1, <1>1, <1>7 DEF IntakeInv, IntakeTypeOK, ReaderStates
<1>12. Done(q, n)'
  BY <1>6, <1>7, <1>10, <1>11, DoneStays DEF IntakeInv
<1>13. Done(q, n + 1)'
  <2>1. n + 1 <= Len(log'[q])
    BY <1>1, <1>6, <1>9
  <2>2. \A i \in 1..(n + 1) : i \in 1..n \/ i = n + 1
    OBVIOUS
  <2> QED
    BY <2>1, <2>2, <1>1, <1>7, <1>12 DEF Done
<1>14. HeldOK(st)'
  BY <1>3, <1>4, <1>5, <1>13 DEF HeldOK
<1>15. ASSUME NEW k \in Partitions, owner[k] = r
       PROVE  Done(k, position[k])'
  <2>1. r # NoReader
    BY ReaderIsSomeone
  <2>2. \/ Done(k, position[k])
        \/ k = q /\ position[k] = n + 1
    BY <2>1, <1>1, <1>4, <1>5, <1>15 DEF IntakeInv, PositionOK
  <2>3. PICK j \in Nat : j = position[k]
    BY DEF IntakeInv, IntakeTypeOK
  <2>4. Done(k, j)'
    <3>1. CASE Done(k, j)
      BY <3>1, <1>7, <1>10, <1>11, DoneStays DEF IntakeInv
    <3>2. CASE k = q /\ j = n + 1
      BY <3>2, <1>13
    <3> QED
      BY <3>1, <3>2, <2>2, <2>3
  <2>5. j = position'[k]
    BY <2>3, <1>1
  <2> QED
    BY <2>4, <2>5 DEF Done
<1> QED
  BY <1>1, <1>2, <1>3, <1>7, <1>14, <1>15, ReaderMoves

(* Every step of a reader. *)
LEMMA ReadsOK ==
    ASSUME IntakeInv, NEW r \in Readers, Reads(r)
    PROVE  IntakeInv'
<1>1. /\ committed \in [Partitions -> Nat]
      /\ landed \in [Events -> Mappings \cup {"none"}]
  BY DEF IntakeInv, IntakeTypeOK
<1>2. ASSUME NEW q \in Partitions, Assign(q, r) \/ FetchMessage(r, q)
      PROVE  IntakeInv'
  BY <1>2, AssignOK, FetchMessageOK
<1>3. ASSUME FetchFails(r) \/ RejectMessage(r)
      PROVE  IntakeInv'
  <2>1. /\ ReaderGoes(r, Stopped)
        /\ UNCHANGED <<log, committed, owner, position, landed>>
    BY <1>3 DEF FetchFails, RejectMessage
  <2>2. LandedGrows /\ LandedOK'
    BY <2>1, NothingMoves
  <2> QED
    BY <2>1, <2>2, <1>1, StopOK
<1>4. ASSUME RecordEvent(r)
      PROVE  IntakeInv'
  BY <1>4, RecordEventOK
<1>5. ASSUME RecordFails(r)
      PROVE  IntakeInv'
  <2>1. /\ reader[r].pc = "process" /\ ReaderGoes(r, Stopped)
        /\ UNCHANGED <<log, committed, owner, position>>
    BY <1>5 DEF RecordFails
  <2>2. CASE UNCHANGED landed
    <3>1. LandedGrows /\ LandedOK'
      BY <2>1, <2>2, NothingMoves
    <3> QED
      BY <2>1, <2>2, <3>1, <1>1, StopOK
  <2>3. CASE Message(r).kind \in Mappings /\ Land(Message(r))
    <3>1. /\ landed' \in [Events -> Mappings \cup {"none"}]
          /\ LandedGrows /\ LandedOK'
      BY <2>1, <2>3, LandOK
    <3> QED
      BY <2>1, <3>1, <1>1, StopOK
  <2> QED
    BY <2>2, <2>3, <1>5 DEF RecordFails
<1>6. ASSUME CommitMessages(r)
      PROVE  IntakeInv'
  <2>1. /\ reader[r].pc = "commit" /\ CommitOffset(r) /\ ReaderGoes(r, Idle)
        /\ UNCHANGED <<log, owner, position, landed>>
    BY <1>6 DEF CommitMessages
  <2>2. /\ committed' \in [Partitions -> Nat]
        /\ \A q \in Partitions : committed'[q] = committed[q]
                                  \/ Done(q, committed[q])'
    BY <2>1, CommitOffsetOK
  <2>3. LandedGrows /\ LandedOK'
    BY <2>1, NothingMoves
  <2>4. HeldOK(Idle)'
    BY DEF HeldOK, Idle
  <2>5. ASSUME NEW q \in Partitions, owner[q] = r
        PROVE  Done(q, position[q])'
    <3>1. Done(q, position[q])
      BY <2>1, <2>5, ReaderIsSomeone DEF IntakeInv, PositionOK
    <3> QED
      BY <3>1, <2>1 DEF Done
  <2> QED
    BY <2>1, <2>2, <2>3, <2>4, <2>5, <1>1, IdleAndStopped, ReaderMoves
<1>7. ASSUME CommitFails(r)
      PROVE  IntakeInv'
  <2>1. /\ reader[r].pc = "commit" /\ ReaderGoes(r, Stopped)
        /\ UNCHANGED <<log, owner, position, landed>>
    BY <1>7 DEF CommitFails
  <2>2. /\ committed' \in [Partitions -> Nat]
        /\ \A q \in Partitions : committed'[q] = committed[q]
                                  \/ Done(q, committed[q])'
    BY <2>1, <1>1, <1>7, CommitOffsetOK DEF CommitFails
  <2>3. LandedGrows /\ LandedOK'
    BY <2>1, NothingMoves
  <2> QED
    BY <2>1, <2>2, <2>3, <1>1, StopOK
<1> QED
  BY <1>2, <1>3, <1>4, <1>5, <1>6, <1>7 DEF Reads

(* A process dies, and is started again. *)
LEMMA ProcessOK ==
    ASSUME IntakeInv, NEW p \in Processes, Crash(p) \/ Restart(p)
    PROVE  IntakeInv'
<1>1. PICK st \in {Idle, Stopped} :
         reader' = [r \in Readers |-> IF r[1] = p THEN st ELSE reader[r]]
  BY DEF Crash, Restart
<1>2. /\ reader \in [Readers -> ReaderStates]
      /\ owner \in [Partitions -> Readers \cup {NoReader}]
      /\ st \in ReaderStates
  BY IdleAndStopped DEF IntakeInv, IntakeTypeOK, ReaderStates
<1>3. /\ reader' \in [Readers -> ReaderStates]
      /\ \A r \in Readers : reader'[r] = IF r[1] = p THEN st ELSE reader[r]
  BY <1>1, <1>2
<1>4. UNCHANGED <<log, committed, position, landed>>
  BY DEF Crash, Restart
<1>5. LogsGrow /\ LandedGrows /\ LandedOK'
  BY <1>4, NothingMoves
<1>6. \A k \in Partitions : owner'[k] \in {owner[k], NoReader}
  BY <1>2 DEF Crash, Restart
<1>7. owner' \in [Partitions -> Readers \cup {NoReader}]
  <2>1. CASE Crash(p)
    BY <2>1, <1>2 DEF Crash
  <2>2. CASE Restart(p)
    BY <2>2, <1>2 DEF Restart
  <2> QED
    BY <2>1, <2>2
<1>8. IntakeTypeOK'
  BY <1>3, <1>4, <1>7 DEF IntakeInv, IntakeTypeOK, ReaderStates
<1>9. HeldOK(st)'
  BY DEF HeldOK, Idle, Stopped
<1>10. ASSUME NEW r \in Readers
       PROVE  reader'[r] = reader[r] \/ HeldOK(reader[r])'
  <2>1. CASE r[1] = p
    <3>1. reader'[r] = st
      BY <2>1, <1>3
    <3> QED
      BY <3>1, <1>9
  <2>2. CASE r[1] # p
    BY <2>2, <1>3
  <2> QED
    BY <2>1, <2>2
<1>11. ASSUME NEW k \in Partitions
       PROVE  \/ PositionOK(k)'
              \/ /\ owner'[k] = owner[k] /\ position'[k] = position[k]
                 /\ owner[k] # NoReader =>
                       \/ reader'[owner[k]] = reader[owner[k]]
                       \/ reader'[owner[k]].pc = "stopped"
  <2>1. CASE owner'[k] = NoReader
    BY <2>1 DEF PositionOK
  <2>2. CASE owner'[k] # NoReader
    <3>1. owner'[k] = owner[k] /\ owner[k] \in Readers
      BY <2>2, <1>2, <1>6
    <3>2. CASE Crash(p)
      <4>1. reader'[owner[k]] = IF owner[k][1] = p THEN Stopped
                                ELSE reader[owner[k]]
        BY <3>1, <3>2 DEF Crash
      <4> QED
        BY <3>1, <4>1, <1>4, IdleAndStopped
    <3>3. CASE Restart(p)
      <4>1. owner[k][1] # p
        BY <3>1, <3>3, <2>2, <1>2 DEF Restart
      <4> QED
        BY <3>1, <4>1, <1>3, <1>4
    <3> QED
      BY <3>2, <3>3
  <2> QED
    BY <2>1, <2>2
<1> QED
  BY <1>4, <1>5, <1>8, <1>10, <1>11, IntakeStays

LEMMA IntakeStepOK ==
    ASSUME IntakeInv, [IntakeNext]_intakeVars
    PROVE  IntakeInv'
<1>1. ASSUME UNCHANGED intakeVars
      PROVE  IntakeInv'
  <2> USE <1>1 DEF intakeVars
  <2>1. IntakeTypeOK'
    BY DEF IntakeInv, IntakeTypeOK
  <2>2. LogsGrow /\ LandedGrows /\ LandedOK'
    BY NothingMoves
  <2> QED
    BY <2>1, <2>2, IntakeStays
<1>2. ASSUME NEW q \in Partitions, NEW e \in Events, NEW kind \in MessageKinds,
             Produce(q, e, kind)
      PROVE  IntakeInv'
  BY <1>2, ProduceOK
<1>3. ASSUME NEW r \in Readers, Reads(r)
      PROVE  IntakeInv'
  BY <1>3, ReadsOK
<1>4. ASSUME NEW p \in Processes, Crash(p) \/ Restart(p)
      PROVE  IntakeInv'
  BY <1>4, ProcessOK
<1> QED
  BY <1>1, <1>2, <1>3, <1>4 DEF IntakeNext

(* The state of the consumers has its type in every behaviour (Run).         *)
THEOREM IntakeTypeCorrect == IntakeSpec => []IntakeTypeOK
<1>1. IntakeInit => IntakeInv
  BY IntakeInitOK
<1>2. IntakeInv /\ [IntakeNext]_intakeVars => IntakeInv'
  BY IntakeStepOK
<1>3. IntakeInv => IntakeTypeOK
  BY DEF IntakeInv
<1> QED
  BY <1>1, <1>2, <1>3, PTL DEF IntakeSpec

(* For any topics, partitions and number of processes, the group's offset    *)
(* never passes a message whose event has not landed, and only signed        *)
(* messages land (runTopic, process, RecordEvent, RecordAssessment).         *)
THEOREM OffsetsCorrect == IntakeSpec => []OffsetsFollowEvents
<1>1. IntakeInit => IntakeInv
  BY IntakeInitOK
<1>2. IntakeInv /\ [IntakeNext]_intakeVars => IntakeInv'
  BY IntakeStepOK
<1>3. IntakeInv => OffsetsFollowEvents
  BY DEF IntakeInv, LandedOK, Done, OffsetsFollowEvents
<1> QED
  BY <1>1, <1>2, <1>3, PTL DEF IntakeSpec

-----------------------------------------------------------------------------
(* The callbacks of the Hub. *)

(* The Hub decides once. *)
CallbackInv ==
    /\ TypeOK /\ NeverAheadOfHub /\ ReportedOnce
    /\ \A t \in TransferIds : \A x, y \in signed[t] \cap Terminal : x = y

LEMMA CallbackInitOK ==
    ASSUME Init
    PROVE  CallbackInv
BY DEF Init, CallbackInv, TypeOK, NeverAheadOfHub, ReportedOnce

LEMMA HubMovesOK ==
    ASSUME CallbackInv, NEW t \in TransferIds,
           NEW next \in {"RESERVED"} \cup Terminal, HubMoves(t, next)
    PROVE  CallbackInv'
<1>1. TypeOK'
  BY DEF CallbackInv, TypeOK, HubMoves
<1>2. /\ \A u \in TransferIds : u # t => signed'[u] = signed[u]
      /\ signed'[t] = signed[t] \cup {next} /\ row' = row
      /\ signed[t] \cap Terminal = {}
  BY DEF CallbackInv, TypeOK, HubMoves
<1>3. NeverAheadOfHub'
  BY <1>2 DEF CallbackInv, NeverAheadOfHub
<1>4. ReportedOnce'
  BY DEF CallbackInv, ReportedOnce, HubMoves
<1>5. ASSUME NEW u \in TransferIds, NEW x \in signed'[u] \cap Terminal,
             NEW y \in signed'[u] \cap Terminal
      PROVE  x = y
  BY <1>2 DEF CallbackInv
<1> QED
  BY <1>1, <1>3, <1>4, <1>5 DEF CallbackInv

LEMMA ApplyCallbackOK ==
    ASSUME CallbackInv, NEW t \in TransferIds,
           NEW next \in {"RESERVED"} \cup Terminal, ApplyCallback(t, next)
    PROVE  CallbackInv'
<1>1. TypeOK'
  BY DEF CallbackInv, TypeOK, ApplyCallback
<1>2. /\ \A u \in TransferIds : u # t => row'[u] = row[u]
      /\ row'[t] = next /\ signed' = signed
  BY DEF CallbackInv, TypeOK, ApplyCallback
<1>3. {"RESERVED", next} \subseteq signed[t]
  BY DEF CallbackInv, NeverAheadOfHub, ApplyCallback, ValidateTransferCallback
<1>4. NeverAheadOfHub'
  BY <1>2, <1>3 DEF CallbackInv, NeverAheadOfHub
<1>5. ReportedOnce'
  BY DEF CallbackInv, ReportedOnce, ApplyCallback
<1> QED
  BY <1>1, <1>2, <1>4, <1>5 DEF CallbackInv

LEMMA AgeOK ==
    ASSUME CallbackInv, NEW t \in TransferIds, Age(t)
    PROVE  CallbackInv'
BY DEF CallbackInv, TypeOK, NeverAheadOfHub, ReportedOnce, Age

LEMMA FindExpiredOK ==
    ASSUME CallbackInv, NEW a \in Adapters, FindExpired(a)
    PROVE  CallbackInv'
<1>1. Expired \subseteq TransferIds
  BY DEF Expired
<1>2. found' \in [Adapters -> SUBSET TransferIds]
  BY <1>1 DEF CallbackInv, TypeOK, FindExpired
<1>3. UNCHANGED <<signed, row, waiting, timedOut, reports>>
  BY DEF FindExpired
<1> QED
  BY <1>2, <1>3 DEF CallbackInv, TypeOK, NeverAheadOfHub, ReportedOnce

(* A sweep takes rows that are not marked when it locks them. *)
LEMMA MarkTimedOutOK ==
    ASSUME CallbackInv, NEW a \in Adapters, MarkTimedOut(a)
    PROVE  CallbackInv'
<1> DEFINE B == Batch(a)
<1>1. B \subseteq TransferIds /\ \A t \in B : t \notin timedOut
  BY DEF Batch, Expired
<1>2. /\ timedOut' = timedOut \cup B /\ UNCHANGED <<signed, row, waiting>>
      /\ reports' = [t \in TransferIds |->
                       IF t \in B THEN reports[t] + 1 ELSE reports[t]]
      /\ found' = [found EXCEPT ![a] = {}]
  BY DEF MarkTimedOut
<1> HIDE DEF B
<1>3. /\ \A t \in TransferIds :
            reports'[t] = IF t \in B THEN reports[t] + 1 ELSE reports[t]
      /\ reports' \in [TransferIds -> Nat]
      /\ found' \in [Adapters -> SUBSET TransferIds]
  BY <1>2 DEF CallbackInv, TypeOK
<1>4. TypeOK'
  BY <1>1, <1>2, <1>3 DEF CallbackInv, TypeOK
<1>5. NeverAheadOfHub'
  BY <1>2 DEF CallbackInv, NeverAheadOfHub
<1>6. ASSUME NEW t \in TransferIds
      PROVE  reports'[t] = (IF t \in timedOut' THEN 1 ELSE 0)
  <2>1. reports[t] = (IF t \in timedOut THEN 1 ELSE 0)
    BY DEF CallbackInv, ReportedOnce
  <2>2. CASE t \in B
    BY <2>1, <2>2, <1>1, <1>2, <1>3
  <2>3. CASE t \notin B
    BY <2>1, <2>3, <1>2, <1>3
  <2> QED
    BY <2>2, <2>3
<1>7. ReportedOnce'
  BY <1>6 DEF ReportedOnce
<1> QED
  BY <1>2, <1>4, <1>5, <1>7 DEF CallbackInv

LEMMA CallbackStepOK ==
    ASSUME CallbackInv, [Next]_vars
    PROVE  CallbackInv'
<1>1. CASE UNCHANGED vars
  BY <1>1 DEF vars, CallbackInv, TypeOK, NeverAheadOfHub, ReportedOnce
<1>2. CASE Next
  BY <1>2, HubMovesOK, ApplyCallbackOK, AgeOK, FindExpiredOK, MarkTimedOutOK
  DEF Next
<1> QED
  BY <1>1, <1>2

(* The callback tables keep their types (ApplyTransferCallback,              *)
(* SweepReservedTimeouts).                                                   *)
THEOREM CallbackTypeCorrect == Spec => []TypeOK
<1>1. Init => CallbackInv
  BY CallbackInitOK
<1>2. CallbackInv /\ [Next]_vars => CallbackInv'
  BY CallbackStepOK
<1>3. CallbackInv => TypeOK
  BY DEF CallbackInv
<1> QED
  BY <1>1, <1>2, <1>3, PTL DEF Spec

(* For any set of transfers and any order of callbacks, a row says what the  *)
(* Hub announced after a reservation (ApplyCallback).                        *)
THEOREM RowsFollowTheHub == Spec => []NeverAheadOfHub
<1>1. Init => CallbackInv
  BY CallbackInitOK
<1>2. CallbackInv /\ [Next]_vars => CallbackInv'
  BY CallbackStepOK
<1>3. CallbackInv => NeverAheadOfHub
  BY DEF CallbackInv
<1> QED
  BY <1>1, <1>2, <1>3, PTL DEF Spec

(* For any number of adapters that sweep at the same time and any limit, a   *)
(* reservation is reported once (SweepReservedTimeouts).                     *)
THEOREM TimeoutIsReportedOnce == Spec => []ReportedOnce
<1>1. Init => CallbackInv
  BY CallbackInitOK
<1>2. CallbackInv /\ [Next]_vars => CallbackInv'
  BY CallbackStepOK
<1>3. CallbackInv => ReportedOnce
  BY DEF CallbackInv
<1> QED
  BY <1>1, <1>2, <1>3, PTL DEF Spec

-----------------------------------------------------------------------------
(* What has come in stays. *)

(* A cursor never goes back, a mirrored or hand-written row is never written *)
(* again and no announcement is taken back.                                  *)
KeepsMirror ==
    /\ \A l \in Ledgers : cursor[l] <= cursor'[l]
    /\ \A t \in Timestamps :
          /\ record[t] # "none" => record'[t] = record[t]
          /\ announced[t] <= announced'[t]

(* A process that replays an old batch beside one that is ahead neither sets *)
(* the shared cursor back nor overwrites a row (statement_store.go           *)
(* RecordTBSettlement, AdvanceSyncCursor: GREATEST and ON CONFLICT).         *)
MirrorOnlyGrows == [][KeepsMirror]_syncVars

(* The cursor of a step that works on the first transfer of a batch. *)
LEMMA CursorMoves ==
    ASSUME SyncAssumption, SyncInv, NEW s \in Syncers,
           syncer[s].pc = "batch", syncer[s].batch # << >>,
           MoveCursor(syncer[s].ledger, Head(syncer[s].batch))
    PROVE  \A l \in Ledgers : cursor[l] <= cursor'[l]
<1> DEFINE k == syncer[s].ledger
           h == Head(syncer[s].batch)
<1>1. /\ cursor \in [Ledgers -> 0..MaxTransfers] /\ MaxTransfers \in Nat
      /\ syncer[s].batch \in Seq(Timestamps)
  BY DEF SyncInv, SyncTypeOK, SyncAssumption
<1>2. h \in Nat
  BY <1>1 DEF Timestamps
<1>3. cursor' = [cursor EXCEPT ![k] = Greatest(@, h)]
  BY DEF MoveCursor
<1> HIDE DEF k, h
<1>4. QED BY <1>1, <1>2, <1>3 DEF Greatest

(* Every step of the mirror, action by action. *)
LEMMA MirrorKeptByStep ==
    ASSUME SyncAssumption, SyncInv, [SyncNext]_syncVars
    PROVE  KeepsMirror
<1>1. /\ cursor \in [Ledgers -> 0..MaxTransfers] /\ MaxTransfers \in Nat
      /\ announced \in [Timestamps -> Nat]
      /\ record \in [Timestamps -> {"none", "hand", "mirror"}]
  BY DEF SyncInv, SyncTypeOK, SyncAssumption
<1>2. \A l \in Ledgers : cursor[l] <= cursor[l]
  BY <1>1
<1>3. \A t \in Timestamps : announced[t] <= announced[t]
  BY <1>1
<1>4. ASSUME UNCHANGED <<cursor, record, announced>> PROVE KeepsMirror
  BY <1>2, <1>3, <1>4 DEF KeepsMirror
<1>5. ASSUME NEW u \in Timestamps, NEW kind, record[u] = "none",
             record' = [record EXCEPT ![u] = kind],
             announced' = [announced EXCEPT ![u] = @ + 1]
      PROVE  \A t \in Timestamps :
                /\ record[t] # "none" => record'[t] = record[t]
                /\ announced[t] <= announced'[t]
  BY <1>1, <1>5
<1>6. ASSUME NEW t \in Timestamps, RecordByHand(t) PROVE KeepsMirror
  BY <1>2, <1>5, <1>6 DEF RecordByHand, KeepsMirror
<1>7. ASSUME NEW s \in Syncers, RecordTBSettlement(s) PROVE KeepsMirror
  <2> DEFINE h == Head(syncer[s].batch)
  <2>1. /\ syncer[s].pc = "batch" /\ syncer[s].batch # << >>
        /\ MoveCursor(syncer[s].ledger, h) /\ Insert(h)
    BY <1>7 DEF RecordTBSettlement
  <2>2. h \in Timestamps
    BY <2>1 DEF SyncInv, SyncTypeOK
  <2>3. \A l \in Ledgers : cursor[l] <= cursor'[l]
    BY <2>1, CursorMoves
  <2> HIDE DEF h
  <2>4. \A t \in Timestamps :
           /\ record[t] # "none" => record'[t] = record[t]
           /\ announced[t] <= announced'[t]
    BY <1>3, <1>5, <2>1, <2>2 DEF Insert
  <2>5. QED BY <2>3, <2>4 DEF KeepsMirror
<1>8. ASSUME NEW s \in Syncers, AdvanceSyncCursor(s) PROVE KeepsMirror
  <2>1. /\ syncer[s].pc = "batch" /\ syncer[s].batch # << >>
        /\ MoveCursor(syncer[s].ledger, Head(syncer[s].batch))
        /\ UNCHANGED <<record, announced>>
    BY <1>8 DEF AdvanceSyncCursor
  <2>2. QED BY <1>3, <2>1, CursorMoves DEF KeepsMirror
<1>9. ASSUME NEW s \in Syncers, Syncs(s) PROVE KeepsMirror
  BY <1>4, <1>7, <1>8, <1>9
  DEF Syncs, SyncCursor, QueryTransfers, EndPoll, RefuseTransfer, PollFails
<1>10. QED BY <1>4, <1>6, <1>9 DEF SyncNext, Transfer, syncVars

(* For any processes, ledgers and transfers the mirror only grows.           *)
THEOREM MirrorGrows == SyncSpec => MirrorOnlyGrows
<1>1. SyncInit => SyncInv
  BY SyncAssumption, SyncInitOK
<1>2. SyncInv /\ [SyncNext]_syncVars => SyncInv'
  BY SyncAssumption, SyncStepOK
<1>3. SyncInv /\ [SyncNext]_syncVars => [KeepsMirror]_syncVars
  BY SyncAssumption, MirrorKeptByStep
<1> QED
  BY <1>1, <1>2, <1>3, PTL DEF SyncSpec, MirrorOnlyGrows

(* A decision the row agrees on with the Hub is one both keep, and a         *)
(* reservation that was reported stays reported.                             *)
KeepsDecision ==
    /\ \A t \in TransferIds :
          row[t] \in Terminal =>
             row'[t] = row[t] /\ signed'[t] \cap Terminal = {row[t]}
    /\ timedOut \subseteq timedOut'

(* No late, repeated or contradicting callback and no sweep changes a row    *)
(* once it is decided (store.go ApplyCallback, SweepReservedTimeouts).       *)
DecisionStays == [][KeepsDecision]_vars

(* Every step of the callback tables, action by action. *)
LEMMA DecisionKeptByStep ==
    ASSUME CallbackInv, [Next]_vars
    PROVE  KeepsDecision
<1>1. \A t \in TransferIds :
         row[t] \in Terminal => signed[t] \cap Terminal = {row[t]}
  BY DEF CallbackInv, NeverAheadOfHub, Terminal
<1>2. ASSUME UNCHANGED <<signed, row>>, timedOut \subseteq timedOut'
      PROVE  KeepsDecision
  BY <1>1, <1>2 DEF KeepsDecision
<1>3. ASSUME NEW t \in TransferIds, NEW next, HubMoves(t, next)
      PROVE  KeepsDecision
  <2>1. /\ signed[t] \cap Terminal = {} /\ UNCHANGED <<row, timedOut>>
        /\ \A u \in TransferIds \ {t} : signed'[u] = signed[u]
    BY <1>3 DEF HubMoves, CallbackInv, TypeOK
  <2>2. row[t] \notin Terminal
    BY <2>1, <1>1
  <2>3. QED BY <1>1, <2>1, <2>2 DEF KeepsDecision
<1>4. ASSUME NEW t \in TransferIds, NEW next, ApplyCallback(t, next)
      PROVE  KeepsDecision
  <2>1. /\ row[t] \notin Terminal /\ UNCHANGED <<signed, timedOut>>
        /\ \A u \in TransferIds \ {t} : row'[u] = row[u]
    BY <1>4
    DEF ApplyCallback, ValidateTransferCallback, Terminal, CallbackInv, TypeOK
  <2>2. QED BY <1>1, <2>1 DEF KeepsDecision
<1>5. QED
  BY <1>2, <1>3, <1>4 DEF Next, Age, FindExpired, MarkTimedOut, vars

(* For any transfers and any order of callbacks a recorded decision stays.   *)
THEOREM DecisionIsKept == Spec => DecisionStays
<1>1. Init => CallbackInv
  BY CallbackInitOK
<1>2. CallbackInv /\ [Next]_vars => CallbackInv'
  BY CallbackStepOK
<1>3. CallbackInv /\ [Next]_vars => [KeepsDecision]_vars
  BY DecisionKeptByStep
<1> QED
  BY <1>1, <1>2, <1>3, PTL DEF Spec, DecisionStays
=============================================================================
