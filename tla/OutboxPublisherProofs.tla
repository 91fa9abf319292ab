------------------------ MODULE OutboxPublisherProofs ------------------------
(***************************************************************************)
(* Proofs about the outbox publishers, for any events, any batch size and  *)
(* any number of processes.                                                *)
(***************************************************************************)
EXTENDS OutboxPublisher, TLAPS

(* f is older than e and was there before it. *)
Before(f, e) == f \in ahead[e]

(* The events that must precede e are on the topic already. *)
Preceded(e, topic) == \A f \in Events : Before(f, e) => f \in topic

(* A batch never overtakes: every event that goes before one of it is on     *)
(* the topic or stands earlier in the batch.                                 *)
BatchInOrder(batch, topic) ==
    \A n \in DOMAIN batch : \A f \in Events :
       Before(f, batch[n]) =>
          f \in topic \/ \E m \in 1..(n - 1) : batch[m] = f

(* What the history says of an event holds of committed events of its table. *)
AheadOK ==
    \A e, f \in Events : Before(f, e) => f \in committed /\ Older(f, e)

(* Nothing is sent that no store has written. *)
OnlyWritten ==
    /\ inflight \subseteq committed
    /\ Range(log) \subseteq committed
    /\ \A p \in Publishers : Range(publisher[p].batch) \subseteq committed

PublisherOK(s, topic) ==
    /\ BatchInOrder(s.batch, topic)
    /\ s.pc \in {"publish", "mark"} => s.batch # << >>
    /\ s.pc = "mark" => Head(s.batch) \in topic

IndInv ==
    /\ TypeOK
    /\ AheadOK
    /\ MarkedWasAccepted
    /\ NoOvertaking
    /\ \A e \in inflight : Preceded(e, Range(log))
    /\ \A p \in Publishers : PublisherOK(publisher[p], Range(log))

(* The states of one process. *)
ProcessStates ==
    [pc : {"stopped", "read", "publish", "mark"}, table : 1..Len(tables),
     batch : Seq(Events)]

-----------------------------------------------------------------------------
LEMMA TableCount == Len(tables) = 4
BY DEF tables

(* The topic only grows. *)
LEMMA AcceptGrows ==
    ASSUME TypeOK, NEW e \in Events, Accept(e)
    PROVE  /\ log' \in Seq(Events)
           /\ Range(log') = Range(log) \cup {e}
           /\ Len(log) <= Len(log')
           /\ \A n \in DOMAIN log : n \in DOMAIN log' /\ log'[n] = log[n]
           /\ \A n \in DOMAIN log' : n \notin DOMAIN log => log'[n] = e /\ n = Len(log) + 1
<1>0. log \in Seq(Events)
  BY DEF TypeOK
<1>1. CASE e \in Range(log)
  BY <1>0, <1>1 DEF Accept
<1>2. CASE e \notin Range(log)
  <2>1. log' = Append(log, e)
    BY <1>2 DEF Accept
  <2>2. /\ log' \in Seq(Events)
        /\ Len(log') = Len(log) + 1
        /\ log'[Len(log) + 1] = e
        /\ \A n \in 1..Len(log) : log'[n] = log[n]
    BY <1>0, <2>1
  <2>3. Range(log') = Range(log) \cup {e}
    BY <1>0, <2>2 DEF Range
  <2> QED
    BY <1>0, <2>2, <2>3
<1> QED
  BY <1>1, <1>2

(* Accepting an event whose predecessors are on the topic keeps the topic in *)
(* order, and whatever was true of the topic's events stays true.            *)
LEMMA AcceptKeepsOrder ==
    ASSUME TypeOK, NoOvertaking, NEW e \in Events, Accept(e),
           Preceded(e, Range(log)), ahead' = ahead
    PROVE  NoOvertaking'
<1>0. log \in Seq(Events)
  BY DEF TypeOK
<1>1. SUFFICES ASSUME NEW n \in DOMAIN log', NEW f \in ahead[log'[n]]
               PROVE  \E m \in 1..(n - 1) : log'[m] = f
  BY DEF NoOvertaking
<1>2. log' \in Seq(Events) /\ Len(log) <= Len(log')
  BY AcceptGrows
<1>3. CASE n \in DOMAIN log
  <2>1. log'[n] = log[n]
    BY <1>3, AcceptGrows
  <2>2. PICK m \in 1..(n - 1) : log[m] = f
    BY <1>3, <2>1 DEF NoOvertaking
  <2>3. m \in DOMAIN log /\ m \in DOMAIN log'
    BY <1>0, <1>2, <1>3
  <2> QED
    BY <2>2, <2>3, AcceptGrows
<1>4. CASE n \notin DOMAIN log
  <2>1. log'[n] = e /\ n = Len(log) + 1
    BY <1>4, AcceptGrows
  <2>2. f \in Range(log)
    BY <2>1 DEF Preceded, Before, TypeOK
  <2>3. PICK m \in DOMAIN log : log[m] = f
    BY <2>2 DEF Range
  <2>4. m \in 1..(n - 1) /\ log'[m] = f
    BY <1>0, <2>1, <2>3, AcceptGrows
  <2> QED
    BY <2>4
<1> QED
  BY <1>3, <1>4

(* What ORDER BY created_at LIMIT returns is in order. *)
LEMMA SelectionInOrder ==
    ASSUME ConstantsAssumption, TypeOK, AheadOK, MarkedWasAccepted,
           NEW k \in 1..Len(tables), NEW limit \in Nat,
           NEW s \in Selected(k, limit)
    PROVE  s \in Seq(Events) /\ Len(s) <= limit /\ BatchInOrder(s, Range(log))
<1>1. PICK c \in 0..limit : s \in [1..c -> Pending(k)]
  BY DEF Selected
<1>2. Pending(k) \subseteq Events
  BY DEF Pending, TypeOK
<1>3. s \in Seq(Events) /\ Len(s) = c /\ c \in Nat
  BY <1>1, <1>2
<1>4. BatchInOrder(s, Range(log))
  <2>1. SUFFICES ASSUME NEW n \in DOMAIN s, NEW f \in Events, Before(f, s[n]),
                        f \notin Range(log)
                 PROVE  \E m \in 1..(n - 1) : s[m] = f
    BY DEF BatchInOrder
  <2>2. s[n] \in Pending(k) /\ s[n] \in Events
    BY <1>1, <1>2
  <2>3. f \in committed /\ Older(f, s[n])
    BY <2>1, <2>2 DEF AheadOK
  <2>4. Table[f] = k
    BY <2>2, <2>3 DEF Older, Pending
  <2>5. f \in Pending(k)
    BY <2>1, <2>3, <2>4 DEF Pending, MarkedWasAccepted
  <2>6. Created[f] \in Nat /\ Created[s[n]] \in Nat /\ Created[f] < Created[s[n]]
    BY <2>1, <2>2, <2>3 DEF Older, ConstantsAssumption
  <2>7. f \in Range(s)
    <3>1. SUFFICES ASSUME f \notin Range(s) PROVE FALSE
      OBVIOUS
    <3>2. Created[s[n]] <= Created[f]
      BY <2>5, <3>1 DEF Selected
    <3> QED
      BY <2>6, <3>2
  <2>8. PICK m \in DOMAIN s : s[m] = f
    BY <2>7 DEF Range
  <2>9. n \in Nat /\ m \in Nat /\ m >= 1
    BY <1>3, <2>8
  <2>10. m # n /\ ~(n < m)
    <3>1. n < m => Created[s[n]] <= Created[s[m]]
      BY <2>8 DEF Selected
    <3> QED
      BY <2>6, <2>8, <2>9, <3>1
  <2> QED
    BY <2>8, <2>9, <2>10
<1> QED
  BY <1>1, <1>3, <1>4

LEMMA AppendInOrder ==
    ASSUME NEW topic, NEW a \in Seq(Events), NEW b \in Seq(Events),
           BatchInOrder(a, topic), BatchInOrder(b, topic)
    PROVE  BatchInOrder(a \o b, topic)
<1>0. /\ a \o b \in Seq(Events)
      /\ Len(a \o b) = Len(a) + Len(b)
      /\ Len(a) \in Nat /\ Len(b) \in Nat
      /\ \A n \in 1..Len(a) : (a \o b)[n] = a[n]
      /\ \A n \in 1..Len(b) : (a \o b)[Len(a) + n] = b[n]
  OBVIOUS
<1>1. SUFFICES ASSUME NEW n \in 1..Len(a \o b), NEW f \in Events,
                      Before(f, (a \o b)[n]), f \notin topic
               PROVE  \E m \in 1..(n - 1) : (a \o b)[m] = f
  <2>1. DOMAIN (a \o b) = 1..Len(a \o b)
    BY <1>0
  <2> QED
    BY <2>1, Zenon DEF BatchInOrder
<1>2. CASE n <= Len(a)
  <2>1. n \in DOMAIN a /\ (a \o b)[n] = a[n]
    BY <1>0, <1>2
  <2>2. PICK m \in 1..(n - 1) : a[m] = f
    BY <1>1, <2>1 DEF BatchInOrder
  <2>3. m \in 1..Len(a)
    BY <1>0, <1>2
  <2> QED
    BY <1>0, <2>2, <2>3
<1>3. CASE n > Len(a)
  <2>1. n - Len(a) \in 1..Len(b) /\ n = Len(a) + (n - Len(a))
    BY <1>0, <1>3
  <2>2. (a \o b)[n] = b[n - Len(a)] /\ n - Len(a) \in DOMAIN b
    BY <1>0, <2>1
  <2>3. PICK m \in 1..((n - Len(a)) - 1) : b[m] = f
    BY <1>1, <2>2 DEF BatchInOrder
  <2>4. m \in 1..Len(b) /\ Len(a) + m \in 1..(n - 1)
    BY <1>0, <2>1
  <2>5. (a \o b)[Len(a) + m] = f
    BY <1>0, <2>3, <2>4
  <2> QED
    BY <2>4, <2>5
<1> QED
  BY <1>0, <1>2, <1>3

(* A published head can be dropped. *)
LEMMA TailInOrder ==
    ASSUME NEW topic, NEW b \in Seq(Events), b # << >>, BatchInOrder(b, topic),
           Head(b) \in topic
    PROVE  BatchInOrder(Tail(b), topic)
<1>0. /\ Tail(b) \in Seq(Events) /\ Len(Tail(b)) = Len(b) - 1
      /\ Len(b) \in Nat /\ Len(b) >= 1
      /\ \A n \in 1..Len(Tail(b)) : Tail(b)[n] = b[n + 1]
      /\ Head(b) = b[1]
  OBVIOUS
<1>1. SUFFICES ASSUME NEW n \in 1..Len(Tail(b)), NEW f \in Events,
                      Before(f, Tail(b)[n]), f \notin topic
               PROVE  \E m \in 1..(n - 1) : Tail(b)[m] = f
  <2>1. DOMAIN Tail(b) = 1..Len(Tail(b))
    BY <1>0
  <2> QED
    BY <2>1, Zenon DEF BatchInOrder
<1>2. n + 1 \in DOMAIN b /\ Tail(b)[n] = b[n + 1]
  BY <1>0
<1>3. PICK m \in 1..((n + 1) - 1) : b[m] = f
  BY <1>1, <1>2 DEF BatchInOrder
<1>4. m # 1
  BY <1>0, <1>1, <1>3
<1>5. m - 1 \in 1..(n - 1) /\ m - 1 \in 1..Len(Tail(b)) /\ (m - 1) + 1 = m
  BY <1>0, <1>3, <1>4
<1>6. Tail(b)[m - 1] = f
  BY <1>0, <1>3, <1>5
<1> QED
  BY <1>5, <1>6
LEMMA GrowingTopic ==
    ASSUME NEW topic, NEW more, topic \subseteq more, NEW batch,
           BatchInOrder(batch, topic)
    PROVE  BatchInOrder(batch, more)
BY DEF BatchInOrder

LEMMA EmptyInOrder ==
    ASSUME NEW topic PROVE BatchInOrder(<< >>, topic)
BY DEF BatchInOrder

(* The head of a batch in order has its predecessors on the topic. *)
LEMMA HeadPreceded ==
    ASSUME NEW topic, NEW b \in Seq(Events), b # << >>, BatchInOrder(b, topic)
    PROVE  Head(b) \in Events /\ Preceded(Head(b), topic)
<1>1. 1 \in DOMAIN b /\ Head(b) = b[1] /\ b[1] \in Events
  OBVIOUS
<1>2. \A f \in Events : Before(f, b[1]) => f \in topic \/ \E m \in 1..(1 - 1) : b[m] = f
  BY <1>1 DEF BatchInOrder
<1>3. \A m \in 1..(1 - 1) : FALSE
  OBVIOUS
<1> QED
  BY <1>1, <1>2, <1>3 DEF Preceded

-----------------------------------------------------------------------------
(* One process changes to a state that is in order, and the topic only grows. *)
LEMMA ProcessStep ==
    ASSUME TypeOK, \A q \in Publishers : PublisherOK(publisher[q], Range(log)),
           NEW p \in Publishers, NEW s \in ProcessStates, Become(p, s),
           Len(s.batch) <= BatchSize, Range(log) \subseteq Range(log'),
           PublisherOK(s, Range(log'))
    PROVE  /\ publisher' \in [Publishers -> ProcessStates]
           /\ \A q \in Publishers : Len(publisher'[q].batch) <= BatchSize
           /\ \A q \in Publishers : PublisherOK(publisher'[q], Range(log'))
<1>1. publisher \in [Publishers -> ProcessStates]
  BY DEF TypeOK, ProcessStates
<1>2. publisher' = [publisher EXCEPT ![p] = s]
  BY DEF Become
<1>3. publisher' \in [Publishers -> ProcessStates]
  BY <1>1, <1>2
<1>4. publisher'[p] = s /\ \A q \in Publishers : q # p => publisher'[q] = publisher[q]
  BY <1>1, <1>2
<1>5. \A q \in Publishers : Len(publisher'[q].batch) <= BatchSize
  BY <1>4 DEF TypeOK
<1>6. \A q \in Publishers : PublisherOK(publisher[q], Range(log'))
  BY GrowingTopic DEF PublisherOK
<1>7. \A q \in Publishers : PublisherOK(publisher'[q], Range(log'))
  BY <1>4, <1>6
<1> QED
  BY <1>3, <1>5, <1>7

(* What a restart, an exit and an empty poll leave behind is in order. *)
LEMMA IdleStates ==
    ASSUME ConstantsAssumption, NEW topic
    PROVE  /\ Stopped \in ProcessStates /\ Polling \in ProcessStates
           /\ Len(Stopped.batch) <= BatchSize /\ Len(Polling.batch) <= BatchSize
           /\ PublisherOK(Stopped, topic) /\ PublisherOK(Polling, topic)
<1>1. 1 \in 1..Len(tables) /\ << >> \in Seq(Events) /\ Len(<< >>) = 0
  BY TableCount
<1>2. BatchInOrder(<< >>, topic)
  BY EmptyInOrder
<1> QED
  BY <1>1, <1>2 DEF Stopped, Polling, ProcessStates, PublisherOK, ConstantsAssumption

LEMMA WorkingState ==
    ASSUME ConstantsAssumption, NEW topic, NEW b \in Seq(Events),
           Len(b) <= BatchSize, BatchInOrder(b, topic)
    PROVE  /\ Working(b) \in ProcessStates
           /\ Len(Working(b).batch) <= BatchSize
           /\ PublisherOK(Working(b), topic)
<1>1. CASE b = << >>
  BY <1>1, IdleStates DEF Working
<1>2. CASE b # << >>
  <2>1. Working(b) = [pc |-> "publish", table |-> 1, batch |-> b]
    BY <1>2 DEF Working
  <2>2. 1 \in 1..Len(tables)
    BY TableCount
  <2> QED
    BY <1>2, <2>1, <2>2 DEF ProcessStates, PublisherOK
<1> QED
  BY <1>1, <1>2

LEMMA InitInv == Init => IndInv
<1> SUFFICES ASSUME Init PROVE IndInv
  OBVIOUS
<1>1. \A p \in Publishers : publisher[p] = Stopped
  BY DEF Init
<1>2. \A p \in Publishers : PublisherOK(publisher[p], Range(log))
  BY <1>1, IdleStates, ConstantsAssumption
<1>3. publisher \in [Publishers -> ProcessStates]
  BY IdleStates, ConstantsAssumption DEF Init
<1>4. \A p \in Publishers : Len(publisher[p].batch) <= BatchSize
  BY <1>1, IdleStates, ConstantsAssumption
<1>5. TypeOK
  BY <1>3, <1>4 DEF TypeOK, Init, ProcessStates
<1>6. AheadOK /\ MarkedWasAccepted /\ NoOvertaking
      /\ \A e \in inflight : Preceded(e, Range(log))
  BY DEF Init, AheadOK, Before, MarkedWasAccepted, NoOvertaking, Range
<1> QED
  BY <1>2, <1>5, <1>6 DEF IndInv

(* The broker accepts an event that may be accepted. *)
LEMMA AcceptInv ==
    ASSUME IndInv, NEW e \in Events, Accept(e), Preceded(e, Range(log)),
           published' = published, committed' = committed, ahead' = ahead,
           \A f \in inflight' : f \in inflight
    PROVE  /\ log' \in Seq(Events) /\ Range(log') = Range(log) \cup {e}
           /\ AheadOK' /\ MarkedWasAccepted' /\ NoOvertaking'
           /\ \A f \in inflight' : Preceded(f, Range(log'))
<1>1. log' \in Seq(Events) /\ Range(log') = Range(log) \cup {e}
  BY AcceptGrows DEF IndInv
<1>2. NoOvertaking'
  BY AcceptKeepsOrder DEF IndInv
<1>3. AheadOK'
  BY DEF IndInv, AheadOK, Before
<1>4. published' \subseteq Range(log')
  BY <1>1 DEF IndInv, MarkedWasAccepted
<1>5. MarkedWasAccepted'
  BY <1>4 DEF MarkedWasAccepted, Range
<1>6. \A f \in inflight' : Preceded(f, Range(log'))
  BY <1>1 DEF IndInv, Preceded
<1> QED
  BY <1>1, <1>2, <1>3, <1>5, <1>6

(* A process changes and the topic, the marks and the commits do not. *)
LEMMA LocalStep ==
    ASSUME IndInv, NEW p \in Publishers, NEW s \in ProcessStates, Become(p, s),
           Len(s.batch) <= BatchSize, PublisherOK(s, Range(log)),
           UNCHANGED <<committed, ahead, published, log, inflight>>
    PROVE  IndInv'
<1>1. Range(log') = Range(log)
  OBVIOUS
<1>2. /\ publisher' \in [Publishers -> ProcessStates]
      /\ \A q \in Publishers : Len(publisher'[q].batch) <= BatchSize
      /\ \A q \in Publishers : PublisherOK(publisher'[q], Range(log'))
  BY <1>1, ProcessStep DEF IndInv
<1>3. TypeOK'
  BY <1>2 DEF IndInv, TypeOK, ProcessStates
<1>4. (\A q \in Publishers : PublisherOK(publisher[q], Range(log)))'
  BY <1>2 DEF PublisherOK, BatchInOrder, Range, Before
<1>5. AheadOK' /\ MarkedWasAccepted' /\ NoOvertaking'
  BY DEF IndInv, AheadOK, MarkedWasAccepted, NoOvertaking, Range,
         Before
<1>6. (\A e \in inflight : Preceded(e, Range(log)))'
  BY <1>1 DEF IndInv, Preceded, Before, Range
<1> QED
  BY <1>3, <1>4, <1>5, <1>6 DEF IndInv

LEMMA ReadTableInv ==
    ASSUME IndInv, NEW p \in Publishers, NEW k \in 1..Len(tables), ReadTable(p, k)
    PROVE  IndInv'
<1> DEFINE b == publisher[p].batch
<1>1. /\ b \in Seq(Events) /\ Len(b) <= BatchSize
      /\ BatchInOrder(b, Range(log))
  BY DEF IndInv, TypeOK, PublisherOK
<1>2. BatchSize \in Nat /\ Len(b) \in Nat /\ BatchSize - Len(b) \in Nat
  BY <1>1, ConstantsAssumption DEF ConstantsAssumption
<1>3. PICK s \in Selected(k, BatchSize - Len(b)) :
         Become(p, IF Len(b \o s) = BatchSize \/ k = Len(tables)
                   THEN Working(b \o s)
                   ELSE [pc |-> "read", table |-> k + 1, batch |-> b \o s])
  BY DEF ReadTable
<1>4. s \in Seq(Events) /\ Len(s) <= BatchSize - Len(b)
      /\ BatchInOrder(s, Range(log))
  BY <1>2, SelectionInOrder, ConstantsAssumption DEF IndInv
<1>5. b \o s \in Seq(Events) /\ Len(b \o s) <= BatchSize
  BY <1>1, <1>2, <1>4
<1>6. BatchInOrder(b \o s, Range(log))
  BY <1>1, <1>4, AppendInOrder
<1>7. UNCHANGED <<committed, ahead, published, log, inflight>>
  BY DEF ReadTable
<1>8. CASE Len(b \o s) = BatchSize \/ k = Len(tables)
  <2>1. Become(p, Working(b \o s))
    BY <1>3, <1>8
  <2>2. /\ Working(b \o s) \in ProcessStates
        /\ Len(Working(b \o s).batch) <= BatchSize
        /\ PublisherOK(Working(b \o s), Range(log))
    BY <1>5, <1>6, WorkingState, ConstantsAssumption
  <2> QED
    BY <1>7, <2>1, <2>2, LocalStep
<1>9. CASE ~(Len(b \o s) = BatchSize \/ k = Len(tables))
  <2> DEFINE new == [pc |-> "read", table |-> k + 1, batch |-> b \o s]
  <2>1. Become(p, new)
    BY <1>3, <1>9
  <2>2. k + 1 \in 1..Len(tables)
    BY <1>9, TableCount
  <2>3. new \in ProcessStates /\ Len(new.batch) <= BatchSize
    BY <1>5, <2>2 DEF ProcessStates
  <2>4. PublisherOK(new, Range(log))
    BY <1>6 DEF PublisherOK
  <2> HIDE DEF new
  <2> QED
    BY <1>7, <2>1, <2>3, <2>4, LocalStep
<1> QED
  BY <1>8, <1>9

(* A process that holds a batch: its head may be accepted. *)
LEMMA HeadFacts ==
    ASSUME IndInv, NEW p \in Publishers, publisher[p].pc \in {"publish", "mark"}
    PROVE  /\ publisher[p] \in ProcessStates
           /\ publisher[p].batch \in Seq(Events) /\ publisher[p].batch # << >>
           /\ Len(publisher[p].batch) <= BatchSize
           /\ BatchInOrder(publisher[p].batch, Range(log))
           /\ Head(publisher[p].batch) \in Events
           /\ Preceded(Head(publisher[p].batch), Range(log))
<1>1. publisher[p] \in ProcessStates /\ Len(publisher[p].batch) <= BatchSize
  BY DEF IndInv, TypeOK, ProcessStates
<1>2. publisher[p].batch \in Seq(Events)
  BY <1>1 DEF ProcessStates
<1>3. publisher[p].batch # << >> /\ BatchInOrder(publisher[p].batch, Range(log))
  BY DEF IndInv, PublisherOK
<1> QED
  BY <1>1, <1>2, <1>3, HeadPreceded

(* The topic grows by e and process p changes. *)
LEMMA AcceptStep ==
    ASSUME IndInv, NEW e \in Events, Accept(e), Preceded(e, Range(log)),
           published' = published, committed' = committed, ahead' = ahead,
           inflight' \subseteq inflight,
           publisher' \in [Publishers -> ProcessStates],
           \A q \in Publishers : Len(publisher'[q].batch) <= BatchSize,
           \A q \in Publishers : PublisherOK(publisher'[q], Range(log'))
    PROVE  IndInv'
<1>1. /\ log' \in Seq(Events)
      /\ AheadOK' /\ MarkedWasAccepted' /\ NoOvertaking'
      /\ \A f \in inflight' : Preceded(f, Range(log'))
  BY AcceptInv
<1>2. TypeOK'
  BY <1>1 DEF IndInv, TypeOK, ProcessStates
<1>3. (\A q \in Publishers : PublisherOK(publisher[q], Range(log)))'
  BY DEF PublisherOK, BatchInOrder, Range, Before
<1>4. (\A f \in inflight : Preceded(f, Range(log)))'
  BY <1>1 DEF Preceded, Before, Range
<1> QED
  BY <1>1, <1>2, <1>3, <1>4 DEF IndInv

LEMMA PublishInv ==
    ASSUME IndInv, NEW p \in Publishers, Publish(p)
    PROVE  IndInv'
<1> DEFINE e == Head(publisher[p].batch)
           new == [pc |-> "mark", table |-> 1, batch |-> publisher[p].batch]
<1>1. /\ publisher[p].batch \in Seq(Events) /\ publisher[p].batch # << >>
      /\ Len(publisher[p].batch) <= BatchSize
      /\ BatchInOrder(publisher[p].batch, Range(log))
      /\ e \in Events /\ Preceded(e, Range(log))
  BY HeadFacts DEF Publish
<1>2. Accept(e) /\ Become(p, new) /\ UNCHANGED <<committed, ahead, published, inflight>>
  BY DEF Publish
<1>3. Range(log') = Range(log) \cup {e}
  BY <1>1, <1>2, AcceptGrows DEF IndInv
<1>4. new \in ProcessStates /\ Len(new.batch) <= BatchSize
  BY <1>1, TableCount DEF ProcessStates
<1>5. PublisherOK(new, Range(log'))
  BY <1>1, <1>3, GrowingTopic DEF PublisherOK
<1>6. /\ publisher' \in [Publishers -> ProcessStates]
      /\ \A q \in Publishers : Len(publisher'[q].batch) <= BatchSize
      /\ \A q \in Publishers : PublisherOK(publisher'[q], Range(log'))
  <2> HIDE DEF new, e
  <2> QED
    BY <1>2, <1>3, <1>4, <1>5, ProcessStep DEF IndInv
<1> HIDE DEF new, e
<1> QED
  BY <1>1, <1>2, <1>6, AcceptStep

LEMMA PublishErrorInv ==
    ASSUME IndInv, NEW p \in Publishers, PublishError(p)
    PROVE  IndInv'
<1> DEFINE e == Head(publisher[p].batch)
<1>1. e \in Events /\ Preceded(e, Range(log))
  BY HeadFacts DEF PublishError
<1>2. Become(p, Stopped) /\ UNCHANGED <<committed, ahead, published>>
  BY DEF PublishError
<1>3. CASE Accept(e) /\ UNCHANGED inflight
  <2>1. Range(log) \subseteq Range(log')
    BY <1>1, <1>3, AcceptGrows DEF IndInv
  <2>2. /\ publisher' \in [Publishers -> ProcessStates]
        /\ \A q \in Publishers : Len(publisher'[q].batch) <= BatchSize
        /\ \A q \in Publishers : PublisherOK(publisher'[q], Range(log'))
    BY <1>2, <2>1, IdleStates, ProcessStep, ConstantsAssumption DEF IndInv
  <2> HIDE DEF e
  <2> QED
    BY <1>1, <1>2, <1>3, <2>2, AcceptStep
<1>4. CASE inflight' = inflight \cup {e} /\ UNCHANGED log
  <2>1. /\ publisher' \in [Publishers -> ProcessStates]
        /\ \A q \in Publishers : Len(publisher'[q].batch) <= BatchSize
        /\ \A q \in Publishers : PublisherOK(publisher'[q], Range(log'))
    BY <1>2, <1>4, IdleStates, ProcessStep, ConstantsAssumption DEF IndInv
  <2>2. TypeOK'
    BY <1>1, <1>2, <1>4, <2>1 DEF IndInv, TypeOK, ProcessStates
  <2>3. (\A q \in Publishers : PublisherOK(publisher[q], Range(log)))'
    BY <1>2, <1>4, <2>1 DEF PublisherOK, BatchInOrder, Range, Before
  <2>4. AheadOK' /\ MarkedWasAccepted' /\ NoOvertaking'
    <3>1. UNCHANGED <<committed, ahead, published, log>>
      BY <1>2, <1>4
    <3> QED
      BY <3>1 DEF IndInv, AheadOK, MarkedWasAccepted, NoOvertaking, Range, Before
  <2>5. \A f \in inflight' : Preceded(f, Range(log))
    BY <1>1, <1>4 DEF IndInv
  <2>6. (\A f \in inflight : Preceded(f, Range(log)))'
    BY <1>2, <1>4, <2>5 DEF Preceded, Before, Range
  <2> QED
    BY <2>2, <2>3, <2>4, <2>6 DEF IndInv
<1> QED
  BY <1>3, <1>4 DEF PublishError

LEMMA LandInv ==
    ASSUME IndInv, NEW e \in Events, Land(e)
    PROVE  IndInv'
<1>1. /\ Accept(e) /\ Preceded(e, Range(log)) /\ inflight' \subseteq inflight
      /\ UNCHANGED <<committed, ahead, published, publisher>>
  BY DEF Land, IndInv
<1>2. Range(log) \subseteq Range(log')
  BY <1>1, AcceptGrows DEF IndInv
<1>3. \A q \in Publishers : PublisherOK(publisher[q], Range(log'))
  BY <1>2, GrowingTopic DEF IndInv, PublisherOK
<1>4. publisher' \in [Publishers -> ProcessStates]
      /\ \A q \in Publishers : Len(publisher'[q].batch) <= BatchSize
  BY <1>1 DEF IndInv, TypeOK, ProcessStates
<1> QED
  BY <1>1, <1>3, <1>4, AcceptStep

(* An event on the topic is marked. *)
LEMMA MarkStep ==
    ASSUME IndInv, NEW p \in Publishers, NEW s \in ProcessStates, Become(p, s),
           Len(s.batch) <= BatchSize, PublisherOK(s, Range(log)),
           NEW e \in Range(log), published' = published \cup {e},
           UNCHANGED <<committed, ahead, log, inflight>>
    PROVE  IndInv'
<1>1. /\ publisher' \in [Publishers -> ProcessStates]
      /\ \A q \in Publishers : Len(publisher'[q].batch) <= BatchSize
      /\ \A q \in Publishers : PublisherOK(publisher'[q], Range(log'))
  BY ProcessStep DEF IndInv
<1>2. e \in Events
  BY DEF IndInv, TypeOK, Range
<1>3. TypeOK'
  BY <1>1, <1>2 DEF IndInv, TypeOK, ProcessStates
<1>4. (\A q \in Publishers : PublisherOK(publisher[q], Range(log)))'
  BY <1>1 DEF PublisherOK, BatchInOrder, Range, Before
<1>5. AheadOK' /\ NoOvertaking'
  BY DEF IndInv, AheadOK, NoOvertaking, Before
<1>6. published' \subseteq Range(log)
  BY DEF IndInv, MarkedWasAccepted
<1>7. MarkedWasAccepted'
  BY <1>6 DEF MarkedWasAccepted, Range
<1>8. (\A f \in inflight : Preceded(f, Range(log)))'
  BY DEF IndInv, Preceded, Before, Range
<1> QED
  BY <1>3, <1>4, <1>5, <1>7, <1>8 DEF IndInv

LEMMA MarkPublishedInv ==
    ASSUME IndInv, NEW p \in Publishers, MarkPublished(p)
    PROVE  IndInv'
<1> DEFINE b == publisher[p].batch
<1>1. publisher[p].pc = "mark"
  BY DEF MarkPublished
<1>2. /\ b \in Seq(Events) /\ b # << >> /\ Len(b) <= BatchSize
      /\ BatchInOrder(b, Range(log))
  BY <1>1, HeadFacts
<1>3. Head(b) \in Range(log)
  BY <1>1 DEF IndInv, PublisherOK
<1>4. BatchInOrder(Tail(b), Range(log))
  BY <1>2, <1>3, TailInOrder
<1>5. Tail(b) \in Seq(Events) /\ Len(Tail(b)) <= BatchSize
  BY <1>2, ConstantsAssumption DEF ConstantsAssumption
<1>6. /\ Working(Tail(b)) \in ProcessStates
      /\ Len(Working(Tail(b)).batch) <= BatchSize
      /\ PublisherOK(Working(Tail(b)), Range(log))
  BY <1>4, <1>5, WorkingState, ConstantsAssumption
<1>7. /\ published' = published \cup {Head(b)} /\ Become(p, Working(Tail(b)))
      /\ UNCHANGED <<committed, ahead, log, inflight>>
  BY DEF MarkPublished
<1> QED
  BY <1>3, <1>6, <1>7, MarkStep

LEMMA MarkErrorInv ==
    ASSUME IndInv, NEW p \in Publishers, MarkError(p)
    PROVE  IndInv'
<1>1. Head(publisher[p].batch) \in Range(log)
  BY DEF MarkError, IndInv, PublisherOK
<1>2. /\ published' = published \cup {Head(publisher[p].batch)}
      /\ Become(p, Stopped) /\ UNCHANGED <<committed, ahead, log, inflight>>
  BY DEF MarkError
<1> QED
  BY <1>1, <1>2, IdleStates, MarkStep, ConstantsAssumption

LEMMA ConcatenationRange ==
    ASSUME NEW a \in Seq(Events), NEW b \in Seq(Events)
    PROVE  Range(a \o b) \subseteq Range(a) \cup Range(b)
<1> SUFFICES ASSUME NEW n \in 1..(Len(a) + Len(b))
             PROVE  (a \o b)[n] \in Range(a) \cup Range(b)
  BY DEF Range
<1>1. CASE n <= Len(a)
  BY <1>1 DEF Range
<1>2. CASE n > Len(a)
  <2>1. (a \o b)[n] = b[n - Len(a)] /\ n - Len(a) \in 1..Len(b)
    BY <1>2
  <2> QED
    BY <2>1 DEF Range
<1> QED
  BY <1>1, <1>2

LEMMA TailRange ==
    ASSUME NEW b \in Seq(Events), b # << >>
    PROVE  Head(b) \in Range(b) /\ Range(Tail(b)) \subseteq Range(b)
<1>1. 1 \in 1..Len(b) /\ Head(b) = b[1]
  OBVIOUS
<1>2. \A n \in 1..Len(Tail(b)) : n + 1 \in 1..Len(b) /\ Tail(b)[n] = b[n + 1]
  OBVIOUS
<1> QED
  BY <1>1, <1>2 DEF Range

(* A process whose next batch holds written events only. *)
LEMMA BatchStaysWritten ==
    ASSUME TypeOK, OnlyWritten, NEW p \in Publishers, NEW s, Become(p, s),
           Range(s.batch) \subseteq committed,
           inflight' \subseteq committed, Range(log') \subseteq committed,
           UNCHANGED committed
    PROVE  OnlyWritten'
<1>1. ASSUME NEW q \in Publishers PROVE Range(publisher'[q].batch) \subseteq committed
  <2>1. publisher'[q] = IF q = p THEN s ELSE publisher[q]
    BY DEF Become, TypeOK
  <2> QED
    BY <2>1 DEF OnlyWritten
<1> QED
  BY <1>1 DEF OnlyWritten, Range

LEMMA SelectedIsWritten ==
    ASSUME NEW k, NEW limit \in Nat, NEW s \in Selected(k, limit)
    PROVE  Range(s) \subseteq committed
<1>1. PICK c \in 0..limit : s \in [1..c -> Pending(k)]
  BY DEF Selected
<1>2. \A n \in DOMAIN s : s[n] \in Pending(k)
  BY <1>1
<1> QED
  BY <1>2 DEF Range, Pending

LEMMA ReadTableWritten ==
    ASSUME IndInv, OnlyWritten, NEW p \in Publishers, NEW k \in 1..Len(tables),
           ReadTable(p, k)
    PROVE  OnlyWritten'
<1> DEFINE old == publisher[p].batch
<1>1. /\ old \in Seq(Events) /\ Len(old) <= BatchSize
      /\ BatchSize - Len(old) \in Nat
  BY ConstantsAssumption DEF IndInv, TypeOK, ConstantsAssumption
<1>2. PICK s \in Selected(k, BatchSize - Len(old)) :
         Become(p, IF Len(old \o s) = BatchSize \/ k = Len(tables)
                   THEN Working(old \o s)
                   ELSE [pc |-> "read", table |-> k + 1, batch |-> old \o s])
  BY DEF ReadTable
<1>3. PICK b : b = old \o s
  OBVIOUS
<1>4. s \in Seq(Events)
  BY <1>1, <1>2, SelectionInOrder, ConstantsAssumption DEF IndInv
<1>5. Range(s) \subseteq committed
  BY <1>1, <1>2, SelectedIsWritten
<1>6. Range(b) \subseteq committed
  BY <1>1, <1>3, <1>4, <1>5, ConcatenationRange DEF OnlyWritten
<1>7. PICK new : Become(p, new) /\ (new.batch = b \/ new.batch = << >>)
  <2>1. CASE Len(b) = BatchSize \/ k = Len(tables)
    <3>1. Become(p, Working(b))
      BY <1>2, <1>3, <2>1
    <3>2. Working(b).batch = b \/ Working(b).batch = << >>
      BY DEF Working, Polling
    <3> QED
      BY <3>1, <3>2
  <2>2. CASE ~ (Len(b) = BatchSize \/ k = Len(tables))
    <3>1. Become(p, [pc |-> "read", table |-> k + 1, batch |-> b])
      BY <1>2, <1>3, <2>2
    <3>2. [pc |-> "read", table |-> k + 1, batch |-> b].batch = b
      OBVIOUS
    <3> QED
      BY <3>1, <3>2, Zenon
  <2> QED
    BY <2>1, <2>2
<1>8. Range(new.batch) \subseteq committed
  BY <1>6, <1>7 DEF Range
<1>9. UNCHANGED <<committed, ahead, log, inflight>>
  BY DEF ReadTable
<1> QED
  BY <1>7, <1>8, <1>9, BatchStaysWritten DEF IndInv, OnlyWritten

(* What a process publishes was written. *)
LEMMA HeadIsWritten ==
    ASSUME IndInv, OnlyWritten, NEW p \in Publishers,
           publisher[p].pc = "publish", Accept(Head(publisher[p].batch))
    PROVE  Range(log') \subseteq committed
<1> DEFINE e == Head(publisher[p].batch)
<1>1. e \in Events /\ e \in Range(publisher[p].batch)
  BY HeadFacts, TailRange
<1>2. Range(log') = Range(log) \cup {e}
  BY <1>1, AcceptGrows DEF IndInv
<1> QED
  BY <1>1, <1>2 DEF OnlyWritten

LEMMA WrittenStep ==
    ASSUME IndInv, OnlyWritten, [Next]_vars
    PROVE  OnlyWritten'
<1>1. \A p \in Publishers : /\ publisher[p].batch \in Seq(Events)
                            /\ Range(publisher[p].batch) \subseteq committed
  BY DEF IndInv, TypeOK, OnlyWritten
<1>2. \A p \in Publishers :
         publisher[p].pc \in {"publish", "mark"} => publisher[p].batch # << >>
  BY DEF IndInv, PublisherOK
<1>3. Stopped.batch = << >> /\ Polling.batch = << >> /\ Range(<< >>) = {}
  BY DEF Stopped, Polling, Range
<1>4. ASSUME NEW e \in Events, Commit(e) PROVE OnlyWritten'
  BY <1>4 DEF Commit, OnlyWritten, Range
<1>5. ASSUME NEW e \in Events, Land(e) PROVE OnlyWritten'
  <2>1. /\ log' \in Seq(Events) /\ Range(log') = Range(log) \cup {e}
        /\ UNCHANGED <<committed, publisher>> /\ inflight' \subseteq inflight
        /\ e \in committed
    BY <1>5, AcceptGrows DEF Land, IndInv, OnlyWritten
  <2>2. Range(log') \subseteq committed
    BY <2>1 DEF OnlyWritten
  <2> QED
    BY <2>1, <2>2 DEF OnlyWritten, Range
<1>6. ASSUME NEW p \in Publishers, Process(p) PROVE OnlyWritten'
  <2>1. CASE Start(p) \/ Exit(p) \/ BuildEnvelopeError(p) \/ MarkConflict(p)
             \/ MarkError(p)
    <3>1. PICK s \in {Stopped, Polling} : Become(p, s)
      BY <2>1 DEF Start, Exit, BuildEnvelopeError, MarkConflict, MarkError
    <3>2. UNCHANGED <<committed, ahead, log, inflight>>
      BY <2>1 DEF Start, Exit, BuildEnvelopeError, MarkConflict, MarkError
    <3> QED
      BY <1>3, <3>1, <3>2, BatchStaysWritten DEF IndInv, OnlyWritten
  <2>2. CASE \E k \in 1..Len(tables) : ReadTable(p, k)
    BY <2>2, ReadTableWritten
  <2>3. CASE Publish(p)
    <3>1. PICK s : Become(p, s) /\ s.batch = publisher[p].batch
      BY <2>3 DEF Publish
    <3>2. /\ UNCHANGED <<committed, ahead, inflight>>
          /\ Accept(Head(publisher[p].batch)) /\ publisher[p].pc = "publish"
      BY <2>3 DEF Publish
    <3>3. Range(log') \subseteq committed
      BY <3>2, HeadIsWritten
    <3> QED
      BY <1>1, <3>1, <3>2, <3>3, BatchStaysWritten DEF IndInv, OnlyWritten
  <2>4. CASE PublishError(p)
    <3>1. /\ Become(p, Stopped) /\ UNCHANGED <<committed, ahead>>
          /\ inflight' \subseteq inflight \cup {Head(publisher[p].batch)}
          /\ publisher[p].pc = "publish"
      BY <2>4 DEF PublishError
    <3>2. Head(publisher[p].batch) \in committed
      BY <1>1, <1>2, <3>1, TailRange
    <3>3. Range(log') \subseteq committed
      <4>1. CASE UNCHANGED log
        BY <4>1 DEF OnlyWritten, Range
      <4>2. CASE Accept(Head(publisher[p].batch))
        BY <3>1, <4>2, HeadIsWritten
      <4> QED
        BY <2>4, <4>1, <4>2 DEF PublishError
    <3> QED
      BY <1>3, <3>1, <3>2, <3>3, BatchStaysWritten DEF IndInv, OnlyWritten
  <2>5. CASE MarkPublished(p)
    <3>1. /\ Become(p, Working(Tail(publisher[p].batch)))
          /\ UNCHANGED <<committed, ahead, log, inflight>> /\ publisher[p].pc = "mark"
      BY <2>5 DEF MarkPublished
    <3>2. Range(Tail(publisher[p].batch)) \subseteq committed
      BY <1>1, <1>2, <3>1, TailRange
    <3>3. Range(Working(Tail(publisher[p].batch)).batch) \subseteq committed
      BY <1>3, <3>2 DEF Working
    <3> QED
      BY <3>1, <3>3, BatchStaysWritten DEF IndInv, OnlyWritten
  <2> QED
    BY <1>6, <2>1, <2>2, <2>3, <2>4, <2>5 DEF Process
<1>7. CASE UNCHANGED vars
  BY <1>7 DEF vars, OnlyWritten, Range
<1> QED
  BY <1>4, <1>5, <1>6, <1>7 DEF Next

(* An event that commits was held, sent and accepted by nobody, so what is   *)
(* now ahead of it disturbs no order.                                        *)
LEMMA CommitInv ==
    ASSUME IndInv, OnlyWritten, NEW e \in Events, Commit(e)
    PROVE  IndInv'
<1>1. /\ e \notin committed /\ committed' = committed \cup {e}
      /\ ahead' = [ahead EXCEPT ![e] = {f \in committed : Older(f, e)}]
      /\ UNCHANGED <<published, log, inflight, publisher>>
  BY DEF Commit
<1>2. /\ committed \subseteq Events /\ ahead \in [Events -> SUBSET Events]
      /\ \A g \in Events : g # e => ahead'[g] = ahead[g]
      /\ ahead'[e] = {f \in committed : Older(f, e)}
  BY <1>1 DEF IndInv, TypeOK
<1>3. TypeOK'
  BY <1>1, <1>2 DEF IndInv, TypeOK
<1>4. AheadOK'
  BY <1>1, <1>2 DEF IndInv, AheadOK, Before
<1>5. MarkedWasAccepted'
  BY <1>1 DEF IndInv, MarkedWasAccepted, Range
<1>6. \A n \in DOMAIN log : log[n] \in Events /\ ahead'[log[n]] = ahead[log[n]]
  BY <1>1, <1>2 DEF OnlyWritten, Range, IndInv, TypeOK
<1>7. NoOvertaking'
  BY <1>1, <1>6 DEF IndInv, NoOvertaking
<1>8. (\A f \in inflight : Preceded(f, Range(log)))'
  BY <1>1, <1>2 DEF IndInv, OnlyWritten, Preceded, Before, Range
<1>9. ASSUME NEW q \in Publishers, NEW n \in DOMAIN publisher[q].batch
      PROVE  ahead'[publisher[q].batch[n]] = ahead[publisher[q].batch[n]]
  BY <1>1, <1>2 DEF OnlyWritten, Range, IndInv, TypeOK
<1>10. (\A q \in Publishers : PublisherOK(publisher[q], Range(log)))'
  BY <1>1, <1>9 DEF IndInv, PublisherOK, BatchInOrder, Range, Before
<1> QED
  BY <1>3, <1>4, <1>5, <1>7, <1>8, <1>10 DEF IndInv

LEMMA StutterInv ==
    ASSUME IndInv, UNCHANGED vars
    PROVE  IndInv'
<1>1. TypeOK'
  BY DEF IndInv, TypeOK, vars
<1>2. AheadOK' /\ MarkedWasAccepted' /\ NoOvertaking'
  BY DEF IndInv, vars, AheadOK, MarkedWasAccepted, NoOvertaking,
         Range, Before
<1>3. (\A f \in inflight : Preceded(f, Range(log)))'
  BY DEF IndInv, vars, Preceded, Before, Range
<1>4. (\A q \in Publishers : PublisherOK(publisher[q], Range(log)))'
  BY DEF IndInv, vars, PublisherOK, BatchInOrder, Range, Before
<1> QED
  BY <1>1, <1>2, <1>3, <1>4 DEF IndInv

(* Each action keeps the batches, the topic and the late writes in order. *)
THEOREM Inductive == Spec => [](IndInv /\ OnlyWritten)
<1>1. Init => IndInv /\ OnlyWritten
  BY InitInv DEF Init, OnlyWritten, Stopped, Range
<1>2. IndInv /\ OnlyWritten /\ [Next]_vars => IndInv' /\ OnlyWritten'
  <2> SUFFICES ASSUME IndInv, OnlyWritten, [Next]_vars PROVE IndInv'
    BY WrittenStep
  <2>1. ASSUME NEW e \in Events, Commit(e) PROVE IndInv'
    BY <2>1, CommitInv
  <2>2. ASSUME NEW e \in Events, Land(e) PROVE IndInv'
    BY <2>2, LandInv
  <2>3. ASSUME NEW p \in Publishers, Process(p) PROVE IndInv'
    <3>1. CASE Start(p)
      BY <3>1, IdleStates, LocalStep, ConstantsAssumption DEF Start
    <3>2. CASE Exit(p)
      BY <3>2, IdleStates, LocalStep, ConstantsAssumption DEF Exit
    <3>3. CASE BuildEnvelopeError(p)
      BY <3>3, IdleStates, LocalStep, ConstantsAssumption DEF BuildEnvelopeError
    <3>4. CASE MarkConflict(p)
      BY <3>4, IdleStates, LocalStep, ConstantsAssumption DEF MarkConflict
    <3>5. CASE \E k \in 1..Len(tables) : ReadTable(p, k)
      BY <3>5, ReadTableInv
    <3>6. CASE Publish(p)
      BY <3>6, PublishInv
    <3>7. CASE PublishError(p)
      BY <3>7, PublishErrorInv
    <3>8. CASE MarkPublished(p)
      BY <3>8, MarkPublishedInv
    <3>9. CASE MarkError(p)
      BY <3>9, MarkErrorInv
    <3> QED
      BY <2>3, <3>1, <3>2, <3>3, <3>4, <3>5, <3>6, <3>7, <3>8, <3>9 DEF Process
  <2>4. CASE UNCHANGED vars
    BY <2>4, StutterInv
  <2> QED
    BY <2>1, <2>2, <2>3, <2>4 DEF Next
<1> QED
  BY <1>1, <1>2, PTL DEF Spec

(* Every reachable state is well typed and no batch exceeds the limit. *)
THEOREM TypeCorrect == Spec => []TypeOK
<1>1. IndInv => TypeOK
  BY DEF IndInv
<1> QED
  BY <1>1, Inductive, PTL

(* Nothing is lost: MarkPublished only ever stamps accepted events. *)
THEOREM NothingLost == Spec => []MarkedWasAccepted
<1>1. IndInv => MarkedWasAccepted
  BY DEF IndInv
<1> QED
  BY <1>1, Inductive, PTL

(* Whatever the processes do, an event is accepted after the older events    *)
(* that its table held before it (Unpublished, Drain).                       *)
THEOREM AcceptedInOrder == Spec => []NoOvertaking
<1>1. IndInv => NoOvertaking
  BY DEF IndInv
<1> QED
  BY <1>1, Inductive, PTL

-----------------------------------------------------------------------------
(* The publishers implement the delivery that the outboxes promise. *)

Delivery == INSTANCE OrderedDelivery WITH
    OlderPairs <- {x \in Events \X Events : Older(x[1], x[2])},
    written <- committed, first <- ahead, topic <- log, ticked <- published

(* The broker's acceptance of a written event whose predecessors it has. *)
LEMMA AcceptDelivers ==
    ASSUME TypeOK, NEW e \in Events, e \in committed, Preceded(e, Range(log)),
           Accept(e), UNCHANGED <<committed, ahead, published>>
    PROVE  [Delivery!Next]_<<committed, ahead, log, published>>
<1>1. Delivery!Delivered = Range(log)
  BY DEF Delivery!Delivered, Range
<1>2. CASE e \in Range(log)
  BY <1>2 DEF Accept
<1>3. CASE e \notin Range(log)
  <2>1. Delivery!Deliver(e)
    BY <1>1, <1>3 DEF Accept, Delivery!Deliver, Preceded, Before, TypeOK
  <2> QED
    BY <2>1 DEF Delivery!Next
<1> QED
  BY <1>2, <1>3

(* An accepted event is marked, by this process or by another one before. *)
LEMMA MarkTicksOff ==
    ASSUME NEW e \in Events, e \in Range(log), published' = published \cup {e},
           UNCHANGED <<committed, ahead, log>>
    PROVE  [Delivery!Next]_<<committed, ahead, log, published>>
<1>1. Delivery!Delivered = Range(log)
  BY DEF Delivery!Delivered, Range
<1>2. CASE e \in published
  BY <1>2
<1>3. CASE e \notin published
  <2>1. Delivery!TickOff(e)
    BY <1>1, <1>3 DEF Delivery!TickOff
  <2> QED
    BY <2>1 DEF Delivery!Next
<1> QED
  BY <1>2, <1>3

LEMMA DeliveryStep ==
    ASSUME IndInv, OnlyWritten, [Next]_vars
    PROVE  [Delivery!Next]_<<committed, ahead, log, published>>
<1>1. TypeOK
  BY DEF IndInv
<1>2. ASSUME NEW e \in Events, Commit(e)
      PROVE  [Delivery!Next]_<<committed, ahead, log, published>>
  <2>1. {f \in committed : Older(f, e)} =
           {f \in committed :
              <<f, e>> \in {x \in Events \X Events : Older(x[1], x[2])}}
    BY <1>1 DEF TypeOK
  <2>2. Delivery!Write(e)
    BY <1>2, <2>1 DEF Commit, Delivery!Write
  <2> QED
    BY <2>2 DEF Delivery!Next
<1>3. ASSUME NEW e \in Events, Land(e)
      PROVE  [Delivery!Next]_<<committed, ahead, log, published>>
  <2>1. e \in committed /\ Preceded(e, Range(log))
    BY <1>3 DEF Land, OnlyWritten, IndInv
  <2> QED
    BY <1>1, <1>3, <2>1, AcceptDelivers DEF Land
<1>4. ASSUME NEW p \in Publishers, Process(p)
      PROVE  [Delivery!Next]_<<committed, ahead, log, published>>
  <2> DEFINE e == Head(publisher[p].batch)
  <2>1. ASSUME publisher[p].pc \in {"publish", "mark"}
        PROVE  e \in Events /\ e \in committed /\ Preceded(e, Range(log))
    <3>1. /\ publisher[p].batch \in Seq(Events) /\ publisher[p].batch # << >>
          /\ e \in Events /\ Preceded(e, Range(log))
      BY <2>1, HeadFacts
    <3>2. e \in Range(publisher[p].batch)
      BY <3>1, TailRange
    <3> QED
      BY <3>1, <3>2 DEF OnlyWritten
  <2>2. ASSUME publisher[p].pc = "mark" PROVE e \in Range(log)
    BY <2>2 DEF IndInv, PublisherOK
  <2>3. CASE UNCHANGED <<committed, ahead, log, published>>
    BY <2>3
  <2>4. CASE \/ Start(p) \/ Exit(p) \/ BuildEnvelopeError(p) \/ MarkConflict(p)
             \/ \E k \in 1..Len(tables) : ReadTable(p, k)
    BY <2>3, <2>4 DEF Start, Exit, BuildEnvelopeError, MarkConflict, ReadTable
  <2>5. CASE Publish(p)
    <3>1. publisher[p].pc = "publish" /\ Accept(e) /\ UNCHANGED <<committed, ahead, published>>
      BY <2>5 DEF Publish
    <3> HIDE DEF e
    <3> QED
      BY <1>1, <2>1, <3>1, AcceptDelivers
  <2>6. CASE PublishError(p)
    <3>1. /\ publisher[p].pc = "publish" /\ UNCHANGED <<committed, ahead, published>>
          /\ Accept(e) \/ UNCHANGED log
      BY <2>6 DEF PublishError
    <3> HIDE DEF e
    <3> QED
      BY <1>1, <2>1, <2>3, <3>1, AcceptDelivers
  <2>7. CASE MarkPublished(p) \/ MarkError(p)
    <3>1. /\ publisher[p].pc = "mark" /\ published' = published \cup {e}
          /\ UNCHANGED <<committed, ahead, log>>
      BY <2>7 DEF MarkPublished, MarkError
    <3> HIDE DEF e
    <3> QED
      BY <2>1, <2>2, <3>1, MarkTicksOff
  <2> QED
    BY <1>4, <2>4, <2>5, <2>6, <2>7 DEF Process
<1>5. CASE UNCHANGED vars
  BY <1>5 DEF vars
<1> QED
  BY <1>2, <1>3, <1>4, <1>5 DEF Next

(* For any events, tables, batch size and number of processes that crash,    *)
(* race and lose answers, and whatever the order in which transactions       *)
(* commit: the publishers implement the delivery that the outboxes promise   *)
(* (outbox/publisher.go Drain, source.go Unpublished, MarkPublished).        *)
THEOREM ImplementsOrderedDelivery == Spec => Delivery!Spec
<1>1. Init => Delivery!Init
  BY DEF Init, Delivery!Init
<1>2. IndInv /\ OnlyWritten /\ [Next]_vars
        => [Delivery!Next]_<<committed, ahead, log, published>>
  BY DeliveryStep
<1> QED
  BY <1>1, <1>2, Inductive, PTL DEF Spec, Delivery!Spec
=============================================================================
