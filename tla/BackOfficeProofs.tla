-------------------------- MODULE BackOfficeProofs --------------------------
(***************************************************************************)
(* Proofs about the services that officers run: exchange rates, the        *)
(* answers of the tariff engine, the split of a settlement and the books   *)
(* of the general ledger, for any rates, dates, amounts, keys, records,    *)
(* clients and officers.                                                   *)
(***************************************************************************)
EXTENDS FxRates, TariffSchedule, RevenueSplit, GlExport, WellFoundedInduction,
        FiniteSetTheorems, TLAPS

(* Exchange rates. *)

FxRow ==
    [state : {"none", "PENDING_CONFIRMATION", "CONFIRMED", "REJECTED", "EXPIRED"},
     maker : Officers \cup {NoOfficer}, checker : Officers \cup {NoOfficer},
     lapsed : BOOLEAN]

Decisions == [fx : FxIds \cup {NoFx}, does : {"nothing", "confirm", "reject"}]

(* The legs of a disbursement, half a unit of the converted currency apart   *)
(* at most.                                                                  *)
Fair(x) ==
    LET micro == FxEntry[x.fx].micro
        gap == x.ngn * Scale - x.usd * micro
        unit == IF x.currency = "USD" THEN Scale ELSE micro
    IN -unit <= 2 * gap /\ 2 * gap <= unit

(* An officer who is about to decide is not the maker of the row, which      *)
(* never changes; one row to a date is confirmed, and stays so.              *)
FxInv ==
    /\ fx \in [FxIds -> FxRow]
    /\ deciding \in [Officers -> Decisions]
    /\ \A o \in Officers :
          deciding[o].does = "confirm" =>
             /\ deciding[o].fx \in FxIds
             /\ fx[deciding[o].fx].state # "none"
             /\ fx[deciding[o].fx].maker # o
    /\ \A o \in Officers :
          deciding[o].does = "reject" => deciding[o].fx \in FxIds
    /\ \A f \in FxIds :
          fx[f].state = "CONFIRMED" => fx[f].checker \in Officers \ {fx[f].maker}
    /\ \A f, g \in FxIds :
          /\ fx[f].state = "CONFIRMED" /\ fx[g].state = "CONFIRMED"
          /\ FxEntry[f].date = FxEntry[g].date
          => f = g
    /\ \A x \in disbursed :
          /\ x.fx \in FxIds /\ x.date = FxEntry[x.fx].date
          /\ fx[x.fx].state = "CONFIRMED" /\ Fair(x)

-----------------------------------------------------------------------------
(* Rounding half up. *)

LEMMA DivisionBounds ==
    ASSUME NEW a \in Nat, NEW b \in Nat \ {0}
    PROVE  /\ a \div b \in Nat
           /\ b * (a \div b) <= a /\ a < b * (a \div b) + b
OBVIOUS

LEMMA Halves ==
    ASSUME NEW b \in Nat
    PROVE  /\ b \div 2 \in Nat
           /\ 2 * (b \div 2) <= b /\ b <= 2 * (b \div 2) + 1
OBVIOUS

LEMMA ProductIsNatural ==
    ASSUME NEW a \in Nat, NEW b \in Nat
    PROVE  a * b \in Nat
OBVIOUS

LEMMA USDToNGNIsFair ==
    ASSUME FxAssumption, NEW f \in FxIds, NEW usd \in Nat
    PROVE  LET micro == FxEntry[f].micro
               gap == ConvertUSDToNGN(micro, usd) * Scale - usd * micro
           IN -Scale <= 2 * gap /\ 2 * gap <= Scale
<1> DEFINE p == usd * FxEntry[f].micro
           h == Scale \div 2
           q == (p + h) \div Scale
           t == Scale * q
<1>1. Scale \in Nat \ {0} /\ FxEntry[f].micro \in Nat
  BY ScaleAssumption DEF FxAssumption
<1>2. p \in Nat
  BY <1>1, ProductIsNatural
<1>3. h \in Nat /\ 2 * h <= Scale /\ Scale <= 2 * h + 1
  BY <1>1, Halves
<1>4. p + h \in Nat
  BY <1>2, <1>3
<1>5. q \in Nat /\ t <= p + h /\ p + h < t + Scale
  BY <1>1, <1>4, DivisionBounds
<1>6. t \in Nat /\ q * Scale = t
  BY <1>1, <1>5, ProductIsNatural
<1>7. ConvertUSDToNGN(FxEntry[f].micro, usd) = q
  BY DEF ConvertUSDToNGN
<1> HIDE DEF p, h, q, t
<1>8. -Scale <= 2 * (t - p) /\ 2 * (t - p) <= Scale
  BY <1>1, <1>2, <1>3, <1>5, <1>6
<1> QED
  BY <1>6, <1>7, <1>8 DEF p

LEMMA NGNToUSDIsFair ==
    ASSUME FxAssumption, NEW f \in FxIds, NEW ngn \in Nat
    PROVE  LET micro == FxEntry[f].micro
               gap == ngn * Scale - ConvertNGNToUSD(micro, ngn) * micro
           IN -micro <= 2 * gap /\ 2 * gap <= micro
<1> DEFINE m == FxEntry[f].micro
           a == ngn * Scale
           q == (2 * ngn * Scale + m) \div (2 * m)
           t == q * m
<1>1. Scale \in Nat /\ m \in Nat \ {0} /\ 2 * m \in Nat \ {0}
  BY ScaleAssumption DEF FxAssumption
<1>2. a \in Nat /\ 2 * ngn * Scale = 2 * a
  BY <1>1, ProductIsNatural
<1>3. 2 * ngn * Scale + m \in Nat
  BY <1>1, <1>2
<1>4. /\ q \in Nat /\ (2 * m) * q <= 2 * ngn * Scale + m
      /\ 2 * ngn * Scale + m < (2 * m) * q + 2 * m
  BY <1>1, <1>3, DivisionBounds
<1>5. t \in Nat /\ (2 * m) * q = 2 * t
  BY <1>1, <1>4, ProductIsNatural
<1>6. ConvertNGNToUSD(FxEntry[f].micro, ngn) = q
  BY DEF ConvertNGNToUSD
<1>7. 2 * t <= 2 * a + m /\ 2 * a + m < 2 * t + 2 * m
  BY <1>2, <1>4, <1>5
<1> HIDE DEF m, a, q, t
<1>8. -m <= 2 * (a - t) /\ 2 * (a - t) <= m
  BY <1>1, <1>2, <1>5, <1>7
<1> QED
  BY <1>6, <1>8 DEF m, a, t

-----------------------------------------------------------------------------
LEMMA FxInitOK ==
    ASSUME FxAssumption, FxInit
    PROVE  FxInv
<1>1. NotEntered \in FxRow /\ NotEntered.state = "none"
  BY DEF NotEntered, FxRow
<1>2. NoDecision \in Decisions /\ NoDecision.does = "nothing"
  BY DEF NoDecision, Decisions
<1> QED
  BY <1>1, <1>2 DEF FxInit, FxInv

(* Rows that keep their maker and their confirmation, with the same checks   *)
(* and disbursements.                                                        *)
LEMMA RowsAge ==
    ASSUME FxInv, fx' \in [FxIds -> FxRow], UNCHANGED disbursed,
           \A f \in FxIds :
              /\ fx[f].state # "none" =>
                    fx'[f].state # "none" /\ fx'[f].maker = fx[f].maker
              /\ fx'[f].state = "CONFIRMED" <=> fx[f].state = "CONFIRMED"
              /\ fx[f].state = "CONFIRMED" => fx'[f].checker = fx[f].checker,
           deciding' \in [Officers -> Decisions],
           \A o \in Officers :
              \/ deciding'[o] = deciding[o]
              \/ deciding'[o].does = "nothing"
              \/ /\ deciding'[o].fx \in FxIds
                 /\ fx[deciding'[o].fx].state # "none"
                 /\ fx[deciding'[o].fx].maker # o
    PROVE  FxInv'
<1>1. ASSUME NEW o \in Officers, deciding'[o].does = "confirm"
      PROVE  /\ deciding'[o].fx \in FxIds
             /\ fx'[deciding'[o].fx].state # "none"
             /\ fx'[deciding'[o].fx].maker # o
  <2>1. /\ deciding'[o].fx \in FxIds
        /\ fx[deciding'[o].fx].state # "none"
        /\ fx[deciding'[o].fx].maker # o
    BY <1>1 DEF FxInv
  <2> QED
    BY <2>1
<1>2. ASSUME NEW o \in Officers, deciding'[o].does = "reject"
      PROVE  deciding'[o].fx \in FxIds
  BY <1>2 DEF FxInv
<1>3. ASSUME NEW f \in FxIds, fx'[f].state = "CONFIRMED"
      PROVE  fx'[f].checker \in Officers \ {fx'[f].maker}
  <2>1. fx[f].state = "CONFIRMED" /\ fx'[f].checker = fx[f].checker
        /\ fx'[f].maker = fx[f].maker
    BY <1>3
  <2> QED
    BY <2>1 DEF FxInv
<1>4. ASSUME NEW f \in FxIds, NEW g \in FxIds,
             fx'[f].state = "CONFIRMED", fx'[g].state = "CONFIRMED",
             FxEntry[f].date = FxEntry[g].date
      PROVE  f = g
  BY <1>4 DEF FxInv
<1>5. ASSUME NEW x \in disbursed
      PROVE  /\ x.fx \in FxIds /\ x.date = FxEntry[x.fx].date
             /\ fx'[x.fx].state = "CONFIRMED" /\ Fair(x)
  BY DEF FxInv
<1> QED
  BY <1>1, <1>2, <1>3, <1>4, <1>5 DEF FxInv, Fair

LEMMA EnterOK ==
    ASSUME FxInv, NEW o \in Officers, NEW f \in FxIds, Enter(o, f)
    PROVE  FxInv'
<1>1. Entered(o) \in FxRow /\ Entered(o).state = "PENDING_CONFIRMATION"
  BY DEF Entered, FxRow
<1>2. /\ fx[f].state = "none" /\ fx' = [fx EXCEPT ![f] = Entered(o)]
      /\ UNCHANGED <<deciding, disbursed>> /\ fx \in [FxIds -> FxRow]
  BY DEF Enter, FxInv
<1>3. /\ fx' \in [FxIds -> FxRow] /\ fx'[f].state = "PENDING_CONFIRMATION"
      /\ \A g \in FxIds : g # f => fx'[g] = fx[g]
  BY <1>1, <1>2
<1>4. \A g \in FxIds :
         /\ fx[g].state # "none" =>
               fx'[g].state # "none" /\ fx'[g].maker = fx[g].maker
         /\ fx'[g].state = "CONFIRMED" <=> fx[g].state = "CONFIRMED"
         /\ fx[g].state = "CONFIRMED" => fx'[g].checker = fx[g].checker
  BY <1>2, <1>3
<1> QED
  BY <1>2, <1>3, <1>4, RowsAge DEF FxInv

LEMMA ReadsToDecideOK ==
    ASSUME FxInv, NEW o \in Officers, NEW f \in FxIds,
           ReadToConfirm(o, f) \/ ReadToReject(o, f)
    PROVE  FxInv'
<1>1. PICK does \in {"confirm", "reject"} :
         /\ deciding' = [deciding EXCEPT ![o] = [fx |-> f, does |-> does]]
         /\ UNCHANGED <<fx, disbursed>>
         /\ fx[f].state # "none" /\ fx[f].maker # o
  BY DEF ReadToConfirm, ReadToReject, Readable
<1>2. [fx |-> f, does |-> does] \in Decisions
  BY DEF Decisions
<1>3. /\ deciding' \in [Officers -> Decisions] /\ deciding'[o].fx = f
      /\ \A p \in Officers : p # o => deciding'[p] = deciding[p]
  BY <1>1, <1>2 DEF FxInv
<1>4. \A p \in Officers :
         \/ deciding'[p] = deciding[p]
         \/ /\ deciding'[p].fx \in FxIds
            /\ fx[deciding'[p].fx].state # "none"
            /\ fx[deciding'[p].fx].maker # p
  BY <1>1, <1>3
<1> QED
  BY <1>1, <1>3, <1>4, RowsAge DEF FxInv

(* The sweep, and time. *)
LEMMA ExpiryOK ==
    ASSUME FxInv, (\E f \in FxIds : Lapse(f)) \/ ExpirePendingConfirmation
    PROVE  FxInv'
<1>1. UNCHANGED <<deciding, disbursed>> /\ fx \in [FxIds -> FxRow]
  BY DEF Lapse, ExpirePendingConfirmation, FxInv
<1>2. /\ fx' \in [FxIds -> FxRow]
      /\ \A g \in FxIds :
            /\ fx[g].state # "none" =>
                  fx'[g].state # "none" /\ fx'[g].maker = fx[g].maker
            /\ fx'[g].state = "CONFIRMED" <=> fx[g].state = "CONFIRMED"
            /\ fx[g].state = "CONFIRMED" => fx'[g].checker = fx[g].checker
  <2>1. ASSUME NEW f \in FxIds, Lapse(f)
        PROVE  <1>2!:
    <3> DEFINE new == [fx[f] EXCEPT !.lapsed = TRUE]
    <3>1. fx' = [fx EXCEPT ![f] = new]
      BY <2>1, <1>1 DEF Lapse, FxRow
    <3>2. new \in FxRow
      BY <1>1 DEF FxRow
    <3>3. new.state = fx[f].state /\ new.maker = fx[f].maker
          /\ new.checker = fx[f].checker
      BY <1>1 DEF FxRow
    <3> HIDE DEF new
    <3> QED
      BY <3>1, <3>2, <3>3, <1>1
  <2>2. ASSUME ExpirePendingConfirmation
        PROVE  <1>2!:
    <3>1. fx' = [g \in FxIds |->
                   IF fx[g].state = "PENDING_CONFIRMATION" /\ fx[g].lapsed
                   THEN Decided(fx[g], "EXPIRED", NoOfficer) ELSE fx[g]]
      BY <2>2 DEF ExpirePendingConfirmation
    <3>2. \A g \in FxIds :
             /\ Decided(fx[g], "EXPIRED", NoOfficer) \in FxRow
             /\ Decided(fx[g], "EXPIRED", NoOfficer).state = "EXPIRED"
             /\ Decided(fx[g], "EXPIRED", NoOfficer).maker = fx[g].maker
      BY <1>1 DEF Decided, FxRow
    <3> QED
      BY <3>1, <3>2, <1>1
  <2> QED
    BY <2>1, <2>2
<1> QED
  BY <1>1, <1>2, RowsAge DEF FxInv

(* A decision finds the row as it was read, or changes nothing. *)
LEMMA DecideOK ==
    ASSUME FxInv, NEW o \in Officers, Confirm(o) \/ Reject(o)
    PROVE  FxInv'
<1>1. PICK state \in {"CONFIRMED", "REJECTED"} :
         /\ Update(deciding[o].fx, state, o)
         /\ deciding' = [deciding EXCEPT ![o] = NoDecision]
         /\ UNCHANGED disbursed
         /\ deciding[o].does = IF state = "CONFIRMED" THEN "confirm" ELSE "reject"
  BY DEF Confirm, Reject
<1>2. PICK f \in FxIds : f = deciding[o].fx
  BY <1>1 DEF FxInv
<1>3. /\ fx \in [FxIds -> FxRow] /\ deciding \in [Officers -> Decisions]
      /\ NoDecision \in Decisions /\ NoDecision.does = "nothing"
  BY DEF FxInv, NoDecision, Decisions
<1>4. /\ deciding' \in [Officers -> Decisions] /\ deciding'[o].does = "nothing"
      /\ \A p \in Officers : p # o => deciding'[p] = deciding[p]
  BY <1>1, <1>3
<1>5. CASE fx' = fx
  BY <1>1, <1>3, <1>4, <1>5, RowsAge DEF FxInv
<1>6. CASE fx' # fx
  <2> DEFINE new == Decided(fx[f], state, o)
  <2>1. /\ fx[f].state = "PENDING_CONFIRMATION"
        /\ state = "CONFIRMED" => ConfirmedOn(FxEntry[f].date) \ {f} = {}
        /\ fx' = [fx EXCEPT ![f] = new]
    BY <1>1, <1>2, <1>6 DEF Update, StillPending
  <2>2. new \in FxRow /\ new.state = state /\ new.maker = fx[f].maker
        /\ new.checker = o
    BY <1>3 DEF Decided, FxRow
  <2> HIDE DEF new
  <2>3. /\ fx' \in [FxIds -> FxRow] /\ fx'[f] = new
        /\ \A g \in FxIds : g # f => fx'[g] = fx[g]
    BY <2>1, <2>2, <1>3
  <2>4. CASE state = "REJECTED"
    <3>1. \A g \in FxIds :
             /\ fx[g].state # "none" =>
                   fx'[g].state # "none" /\ fx'[g].maker = fx[g].maker
             /\ fx'[g].state = "CONFIRMED" <=> fx[g].state = "CONFIRMED"
             /\ fx[g].state = "CONFIRMED" => fx'[g].checker = fx[g].checker
      BY <2>1, <2>2, <2>3, <2>4
    <3> QED
      BY <3>1, <2>3, <1>1, <1>4, RowsAge
  <2>5. CASE state = "CONFIRMED"
    <3>1. fx[f].maker # o
      BY <2>5, <1>1, <1>2 DEF FxInv
    <3>2. ASSUME NEW p \in Officers, deciding'[p].does = "confirm"
          PROVE  /\ deciding'[p].fx \in FxIds
                 /\ fx'[deciding'[p].fx].state # "none"
                 /\ fx'[deciding'[p].fx].maker # p
      <4>1. p # o /\ deciding'[p] = deciding[p]
        BY <3>2, <1>4
      <4>2. /\ deciding[p].fx \in FxIds /\ fx[deciding[p].fx].state # "none"
            /\ fx[deciding[p].fx].maker # p
        BY <4>1, <3>2 DEF FxInv
      <4> QED
        BY <4>1, <4>2, <2>2, <2>3, <2>5
    <3>3. ASSUME NEW p \in Officers, deciding'[p].does = "reject"
          PROVE  deciding'[p].fx \in FxIds
      BY <3>3, <1>4 DEF FxInv
    <3>4. ASSUME NEW g \in FxIds, fx'[g].state = "CONFIRMED"
          PROVE  fx'[g].checker \in Officers \ {fx'[g].maker}
      BY <3>1, <3>4, <2>2, <2>3 DEF FxInv
    <3>5. ASSUME NEW g \in FxIds, NEW k \in FxIds,
                 fx'[g].state = "CONFIRMED", fx'[k].state = "CONFIRMED",
                 FxEntry[g].date = FxEntry[k].date
          PROVE  g = k
      <4>1. \A j \in FxIds :
               j # f /\ FxEntry[j].date = FxEntry[f].date =>
                  fx[j].state # "CONFIRMED"
        BY <2>1, <2>5 DEF ConfirmedOn
      <4>2. CASE g = f \/ k = f
        BY <4>1, <4>2, <3>5, <2>3
      <4>3. CASE g # f /\ k # f
        BY <4>3, <3>5, <2>3 DEF FxInv
      <4> QED
        BY <4>2, <4>3
    <3>6. ASSUME NEW x \in disbursed
          PROVE  /\ x.fx \in FxIds /\ x.date = FxEntry[x.fx].date
                 /\ fx'[x.fx].state = "CONFIRMED" /\ Fair(x)
      BY <2>1, <2>3 DEF FxInv
    <3> QED
      BY <3>2, <3>3, <3>4, <3>5, <3>6, <2>3, <1>1, <1>4 DEF FxInv, Fair
  <2> QED
    BY <2>4, <2>5
<1> QED
  BY <1>5, <1>6

LEMMA DisburseOK ==
    ASSUME FxAssumption, FxInv, NEW date, NEW currency \in {"USD", "NGN"},
           NEW principal \in Principals, DisburseAt(date, currency, principal)
    PROVE  FxInv'
<1>1. principal \in Nat
  BY DEF FxAssumption
<1> DEFINE usd(f) == IF currency = "USD" THEN principal
                     ELSE ConvertNGNToUSD(FxEntry[f].micro, principal)
           ngn(f) == IF currency = "NGN" THEN principal
                     ELSE ConvertUSDToNGN(FxEntry[f].micro, principal)
           x(f) == [date |-> date, fx |-> f, currency |-> currency,
                    usd |-> usd(f), ngn |-> ngn(f)]
<1>2. PICK f \in ConfirmedOn(date) : disbursed' = disbursed \cup {x(f)}
  BY DEF DisburseAt
<1>3. UNCHANGED <<fx, deciding>>
  BY DEF DisburseAt
<1>4. f \in FxIds /\ fx[f].state = "CONFIRMED" /\ FxEntry[f].date = date
  BY DEF ConfirmedOn
<1>5. Fair(x(f))
  <2>1. CASE currency = "USD"
    BY <2>1, <1>1, <1>4, USDToNGNIsFair DEF Fair
  <2>2. CASE currency = "NGN"
    BY <2>2, <1>1, <1>4, NGNToUSDIsFair DEF Fair
  <2> QED
    BY <2>1, <2>2
<1>6. x(f).fx = f /\ x(f).date = date
  OBVIOUS
<1> HIDE DEF x
<1>7. ASSUME NEW y \in disbursed'
      PROVE  /\ y.fx \in FxIds /\ y.date = FxEntry[y.fx].date
             /\ fx[y.fx].state = "CONFIRMED" /\ Fair(y)
  BY <1>2, <1>4, <1>5, <1>6 DEF FxInv
<1> QED
  BY <1>3, <1>7 DEF FxInv, Fair

LEMMA FxStepOK ==
    ASSUME FxAssumption, FxInv, [FxNext]_fxVars
    PROVE  FxInv'
<1>1. CASE UNCHANGED fxVars
  BY <1>1, RowsAge DEF fxVars, FxInv
<1>2. CASE FxNext
  BY <1>2, EnterOK, ReadsToDecideOK, ExpiryOK, DecideOK, DisburseOK
     DEF FxNext, FxOfficerActs
<1> QED
  BY <1>1, <1>2

(* For any rates, dates and amounts: what is disbursed for a date is         *)
(* converted at one rate that two officers confirmed, and the legs differ by *)
(* half a unit at most (fx/store.go Confirm, Reject,                         *)
(* ExpirePendingConfirmation; fx.go ConvertUSDToNGN, ConvertNGNToUSD).       *)
THEOREM OneRateCorrect == FxSpec => []OneRateToADate
<1>1. FxInit => FxInv
  BY FxAssumption, FxInitOK
<1>2. FxInv /\ [FxNext]_fxVars => FxInv'
  BY FxAssumption, FxStepOK
<1>3. FxInv => OneRateToADate
  BY DEF FxInv, OneRateToADate, Fair
<1> QED
  BY <1>1, <1>2, <1>3, PTL DEF FxSpec

(* A rate that was confirmed, rejected or has expired keeps its state and    *)
(* its two officers, every rate keeps its maker, and no leg is taken back.   *)
KeepsRates ==
    /\ \A f \in FxIds :
          /\ fx[f].state # "none" => fx'[f].maker = fx[f].maker
          /\ fx[f].state \in {"CONFIRMED", "REJECTED", "EXPIRED"} =>
                fx'[f].state = fx[f].state /\ fx'[f].checker = fx[f].checker
    /\ disbursed \subseteq disbursed'

(* Two officers who decide on the same row, and the worker that expires it,  *)
(* each after reading it as pending, leave the first decision (fx/store.go   *)
(* Confirm, Reject, ExpirePendingConfirmation: the guards on the state).     *)
RateIsFinal == [][KeepsRates]_fxVars

(* Every step of the rates, action by action. *)
LEMMA RatesKeptByStep ==
    ASSUME FxInv, [FxNext]_fxVars
    PROVE  KeepsRates
<1>1. fx = [f \in FxIds |-> fx[f]]
  BY DEF FxInv
<1>2. ASSUME fx' = fx, disbursed \subseteq disbursed' PROVE KeepsRates
  BY <1>2 DEF KeepsRates
<1>3. ASSUME NEW g, NEW row, fx' = [fx EXCEPT ![g] = row], disbursed' = disbursed,
             \/ fx[g].state = "none"
             \/ fx[g].state = "PENDING_CONFIRMATION" /\ row.maker = fx[g].maker
             \/ /\ row.maker = fx[g].maker /\ row.state = fx[g].state
                /\ row.checker = fx[g].checker
      PROVE  KeepsRates
  <2>1. \A f \in FxIds : fx'[f] = IF f = g THEN row ELSE fx[f]
    BY <1>1, <1>3
  <2>2. QED BY <1>3, <2>1 DEF KeepsRates
<1>4. ASSUME NEW o, NEW f \in FxIds, Enter(o, f) PROVE KeepsRates
  BY <1>3, <1>4 DEF Enter
<1>5. ASSUME NEW g, NEW state, NEW o, Update(g, state, o), disbursed' = disbursed
      PROVE  KeepsRates
  <2> DEFINE row == Decided(fx[g], state, o)
  <2>1. row.maker = fx[g].maker
    BY DEF Decided
  <2>2. \/ fx' = fx
        \/ /\ fx[g].state = "PENDING_CONFIRMATION"
           /\ fx' = [fx EXCEPT ![g] = row]
    BY <1>5, <1>1 DEF Update, StillPending
  <2> HIDE DEF row
  <2>3. QED BY <1>2, <1>3, <1>5, <2>1, <2>2
<1>6. ASSUME NEW g \in FxIds, Lapse(g) PROVE KeepsRates
  <2> DEFINE row == [fx[g] EXCEPT !.lapsed = TRUE]
  <2>1. row.maker = fx[g].maker /\ row.state = fx[g].state
        /\ row.checker = fx[g].checker
    BY DEF FxInv
  <2>2. fx' = [fx EXCEPT ![g] = row] /\ disbursed' = disbursed
    BY <1>6 DEF Lapse
  <2> HIDE DEF row
  <2>3. QED BY <1>3, <2>1, <2>2
<1>7. ASSUME ExpirePendingConfirmation PROVE KeepsRates
  BY <1>7 DEF ExpirePendingConfirmation, Decided, KeepsRates
<1>8. ASSUME NEW date, NEW currency, NEW principal,
             DisburseAt(date, currency, principal)
      PROVE  KeepsRates
  BY <1>2, <1>8 DEF DisburseAt
<1>9. ASSUME NEW o \in Officers, FxOfficerActs(o) PROVE KeepsRates
  BY <1>2, <1>4, <1>5, <1>9
  DEF FxOfficerActs, ReadToConfirm, ReadToReject, Confirm, Reject
<1>10. QED
  BY <1>2, <1>6, <1>7, <1>8, <1>9 DEF FxNext, fxVars

(* For any rates and officers the first decision on a rate is the last.      *)
THEOREM RateStays == FxSpec => RateIsFinal
<1>1. FxInit => FxInv
  BY FxAssumption, FxInitOK
<1>2. FxInv /\ [FxNext]_fxVars => FxInv'
  BY FxAssumption, FxStepOK
<1>3. FxInv /\ [FxNext]_fxVars => [KeepsRates]_fxVars
  BY RatesKeptByStep
<1> QED
  BY <1>1, <1>2, <1>3, PTL DEF FxSpec, RateIsFinal

-----------------------------------------------------------------------------
(* The engine. *)

LEMMA LeastFloor ==
    ASSUME NEW S \in SUBSET Nat, S # {}
    PROVE  \E s \in S : \A t \in S : s <= t
<1>1. PICK s \in S : \A t \in S : ~ (<<t, s>> \in OpToRel(<, Nat))
  BY NatLessThanWellFounded, WFMin, Zenon
<1>2. \A t \in S : ~ (t < s)
  BY <1>1 DEF OpToRel
<1> QED
  BY <1>2

(* A fitting row is selected when there is one. *)
LEMMA SelectedFits ==
    ASSUME TariffAssumption, NEW i, NEW d, NEW rates \in SUBSET Rates,
           NEW ahead, Fitting(i, d, rates) # {}
    PROVE  Selected(i, d, rates, ahead) \in Fitting(i, d, rates)
<1> DEFINE F == Fitting(i, d, rates)
           first == {r \in F : \A q \in F : RateRow[r].floor <= RateRow[q].floor}
           floors == {RateRow[r].floor : r \in F}
<1>1. F \subseteq Rates
  BY DEF Fitting
<1>2. floors \in SUBSET Nat /\ floors # {}
  BY <1>1 DEF TariffAssumption
<1>3. PICK m \in floors : \A n \in floors : m <= n
  BY <1>2, LeastFloor
<1>4. PICK r \in F : m = RateRow[r].floor
  BY <1>3
<1>5. r \in first
  BY <1>3, <1>4
<1>6. Selected(i, d, rates, ahead) =
         IF first \cap ahead # {} THEN CHOOSE q \in first \cap ahead : TRUE
         ELSE CHOOSE q \in first : TRUE
  BY DEF Selected
<1> HIDE DEF F, first
<1>7. Selected(i, d, rates, ahead) \in first
  BY <1>5, <1>6
<1> QED
  BY <1>7 DEF first, F

LEMMA FunctionInto ==
    ASSUME NEW S, NEW T, NEW f, f = [x \in S |-> f[x]],
           \A x \in S : f[x] \in T
    PROVE  f \in [S -> T]
OBVIOUS

LEMMA ComputeIsFunction ==
    ASSUME NEW d, NEW rates, NEW exemptions, NEW ahead, NEW f,
           f = Compute(d, rates, exemptions, ahead)
    PROVE  f = [i \in Instruments |-> f[i]]
BY DEF Compute

(* Numbers that wrap. *)
LEMMA Int64Type ==
    ASSUME TariffAssumption, NEW n \in Nat
    PROVE  Int64(n) \in Int /\ (n < Word => Int64(n) = n)
<1>1. PICK w \in Nat \ {0} : w = Word
  BY DEF TariffAssumption
<1>2. (n + w) % (2 * w) \in Int
  BY <1>1
<1> QED
  BY <1>1, <1>2 DEF Int64

LEMMA QuotientType ==
    ASSUME NEW n \in Int, NEW d \in Nat \ {0}
    PROVE  Quotient(n, d) \in Int
BY DEF Quotient

LEMMA RoundedType ==
    ASSUME TariffAssumption, NEW n \in Int
    PROVE  RoundHalfUp(n, 10000) \in Int
<1>1. CASE n < 0
  BY <1>1 DEF RoundHalfUp
<1>2. CASE ~ n < 0
  <2>1. PICK m \in Int : m = Int64(2 * n)
    BY <1>2, Int64Type
  <2>2. PICK q \in Int : q = Quotient(m, 10000)
    BY QuotientType
  <2>3. Quotient(q + 1, 2) \in Int
    BY QuotientType
  <2> QED
    BY <1>2, <2>1, <2>2, <2>3 DEF RoundHalfUp
<1> QED
  BY <1>1, <1>2

(* The amount of a charge. *)
LEMMA ChargeIsNearest ==
    ASSUME TariffAssumption, NEW n \in Nat, 2 * n < Word
    PROVE  /\ 20000 * RoundHalfUp(n, 10000) <= 2 * n + 10000
           /\ 20000 * RoundHalfUp(n, 10000) > 2 * n - 10000
<1> DEFINE q == (2 * n) \div 10000
           h == (q + 1) \div 2
<1>1. q \in Nat /\ 10000 * q <= 2 * n /\ 2 * n < 10000 * q + 10000
  BY SMT
<1>2. RoundHalfUp(n, 10000) = h
  <2>1. Int64(2 * n) = 2 * n
    BY Int64Type
  <2>2. RoundHalfUp(n, 10000) = Quotient(Quotient(2 * n, 10000) + 1, 2)
    BY <2>1 DEF RoundHalfUp
  <2>3. Quotient(2 * n, 10000) = q
    BY DEF Quotient
  <2> HIDE DEF q
  <2>4. Quotient(q + 1, 2) = h
    BY <1>1 DEF Quotient
  <2> QED
    BY <2>2, <2>3, <2>4
<1> HIDE DEF q
<1>3. h \in Nat /\ 2 * h <= q + 1 /\ q < 2 * h + 1
  BY <1>1, SMT
<1> HIDE DEF h
<1> QED
  BY <1>1, <1>2, <1>3, SMT

(* What a line of the engine says, for any rows read. *)
LEMMA ComputedLine ==
    ASSUME TariffAssumption, NEW d \in DeclarationRows,
           NEW rates \in SUBSET Rates, NEW exemptions \in SUBSET Exemptions,
           NEW ahead, NEW i \in Instruments, NEW line,
           line = Compute(d, rates, exemptions, ahead)[i]
    PROVE  /\ line \in LineRows
           /\ line.outcome = "CHARGED" =>
                 /\ line.rate \in Fitting(i, d, rates)
                 /\ line.amount = Charge(RateRow[line.rate], d)
           /\ line.outcome # "CHARGED" => line.amount = 0
           /\ line.outcome = "EXEMPT" =>
                 line.exemption \in Granted(i, d, exemptions)
<1> DEFINE F == Fitting(i, d, rates)
           G == Granted(i, d, exemptions)
           r == Selected(i, d, rates, ahead)
           e == CHOOSE x \in G : TRUE
<1>1. line = IF ~ Applies(i, d) THEN LineItem("NOT_APPLICABLE", NoRow, NoRow, 0)
             ELSE IF F = {} THEN LineItem("UNRATED", NoRow, NoRow, 0)
             ELSE IF G # {} THEN LineItem("EXEMPT", r, e, 0)
             ELSE LineItem("CHARGED", r, NoRow, Charge(RateRow[r], d))
  BY DEF Compute
<1>2. F # {} => r \in F
  BY SelectedFits
<1>3. G # {} => e \in G
  OBVIOUS
<1>4. F \subseteq Rates /\ G \subseteq Exemptions
  BY DEF Fitting, Granted
<1>5. F # {} => Charge(RateRow[r], d) \in Int
  <2> SUFFICES ASSUME F # {} PROVE Charge(RateRow[r], d) \in Int
    OBVIOUS
  <2>1. RateRow[r].price \in Nat
    BY <1>2, <1>4 DEF TariffAssumption
  <2>2. d.grt \in Nat /\ d.freight \in Nat
    BY DEF DeclarationRows
  <2>3. d.grt * RateRow[r].price \in Nat /\ d.freight * RateRow[r].price \in Nat
    BY <2>1, <2>2, ProductIsNatural
  <2>4. /\ Int64(d.grt * RateRow[r].price) \in Int
        /\ Int64(d.freight * RateRow[r].price) \in Int
    BY <2>3, Int64Type
  <2>5. RoundHalfUp(Int64(d.freight * RateRow[r].price), 10000) \in Int
    BY <2>4, RoundedType
  <2> QED
    BY <2>4, <2>5 DEF Charge
<1> HIDE DEF F, G, r, e
<1>6. CASE ~ Applies(i, d) \/ F = {}
  BY <1>1, <1>6 DEF LineItem, LineRows
<1>7. CASE Applies(i, d) /\ F # {} /\ G # {}
  BY <1>1, <1>2, <1>3, <1>4, <1>7 DEF LineItem, LineRows, G
<1>8. CASE Applies(i, d) /\ F # {} /\ G = {}
  BY <1>1, <1>2, <1>4, <1>5, <1>8 DEF LineItem, LineRows, F
<1> QED
  BY <1>6, <1>7, <1>8

-----------------------------------------------------------------------------
(* Assessments. *)

(* A line that names rows of the schedule. *)
LineOK(k, i, d, line) ==
    /\ line.outcome = "CHARGED" => line.rate \in Rates /\ Justified(i, d, line)
    /\ line.outcome # "CHARGED" => line.amount = 0
    /\ line.outcome = "EXEMPT" =>
         /\ line.exemption \in Exemptions
         /\ InForce(exemption[line.exemption])
         /\ line.exemption \in Granted(i, d, {line.exemption})
         /\ [key |-> k, instrument |-> i, exemption |-> line.exemption] \in audit

LinesOK ==
    \A k \in Keys : assessment[k] # NoAssessment =>
       \A i \in Instruments :
          LineOK(k, i, assessment[k].declaration, assessment[k].lines[i])

(* A row is audited with the assessment it belongs to. *)
AuditOK ==
    \A a \in audit :
       /\ assessment[a.key] # NoAssessment
       /\ assessment[a.key].lines[a.instrument].outcome = "EXEMPT"
       /\ assessment[a.key].lines[a.instrument].exemption = a.exemption

RowsOK ==
    /\ \A r \in Rates : rate[r].state = "ACTIVE" => InForce(rate[r])
    /\ \A e \in Exemptions : exemption[e].state = "ACTIVE" => InForce(exemption[e])

(* What a call has read is in force and stays so; an answer is what is       *)
(* stored, which never changes.                                              *)
CallOK(call) ==
    /\ call.pc # "new" => call.key \in Keys /\ call.declaration \in DeclarationRows
    /\ \A r \in call.rates : rate[r].state = "ACTIVE"
    /\ \A e \in call.exemptions : exemption[e].state = "ACTIVE"
    /\ call.pc = "answered" =>
         /\ assessment[call.key] # NoAssessment
         /\ call.answer = assessment[call.key]
         /\ call.answer.declaration = call.declaration

TariffInv ==
    /\ TariffTypeOK /\ RowsOK /\ LinesOK /\ AuditOK
    /\ \A c \in Clients : CallOK(client[c])

LEMMA TariffInitOK ==
    ASSUME TariffAssumption, OfficersAssumption, TariffInit
    PROVE  TariffInv
<1>1. /\ NoState \in RowStates /\ NoState.state = "none"
      /\ Seeded \in RowStates /\ InForce(Seeded)
  BY DEF NoState, Seeded, Active, Draft, RowStates, InForce, OfficersAssumption
<1>2. /\ NewCall \in CallStates /\ NewCall.pc = "new"
      /\ NewCall.rates = {} /\ NewCall.exemptions = {}
  BY DEF NewCall, CallStates
<1>3. TariffTypeOK
  BY <1>1, <1>2 DEF TariffInit, TariffTypeOK, TariffAssumption
<1>4. RowsOK
  BY <1>1 DEF TariffInit, RowsOK
<1>5. LinesOK /\ AuditOK
  BY DEF TariffInit, LinesOK, AuditOK
<1>6. \A c \in Clients : client[c] = NewCall
  BY DEF TariffInit
<1>7. \A c \in Clients : CallOK(client[c])
  BY <1>2, <1>6 DEF CallOK
<1> QED
  BY <1>3, <1>4, <1>5, <1>7 DEF TariffInv

(* Rows in force keep: what they justify stands. *)
LEMMA LinesStay ==
    ASSUME TariffInv, UNCHANGED <<assessment, audit>>,
           \A r \in Rates : rate[r].state = "ACTIVE" => rate'[r] = rate[r],
           \A e \in Exemptions :
              exemption[e].state = "ACTIVE" => exemption'[e] = exemption[e]
    PROVE  LinesOK' /\ AuditOK'
<1>1. ASSUME NEW k \in Keys, NEW i \in Instruments, NEW d, NEW line,
             LineOK(k, i, d, line)
      PROVE  LineOK(k, i, d, line)'
  <2>1. line.outcome = "CHARGED" => rate'[line.rate] = rate[line.rate]
    BY <1>1 DEF LineOK, Justified, InForce
  <2>2. line.outcome = "EXEMPT" =>
           exemption'[line.exemption] = exemption[line.exemption]
    BY <1>1 DEF LineOK, InForce
  <2> QED
    BY <1>1, <2>1, <2>2 DEF LineOK, Justified, Granted
<1>2. LinesOK'
  <2> SUFFICES ASSUME NEW k \in Keys, assessment[k] # NoAssessment,
                      NEW i \in Instruments
               PROVE  LineOK(k, i, assessment[k].declaration,
                             assessment[k].lines[i])'
    BY DEF LinesOK
  <2>1. PICK d, line : /\ d = assessment[k].declaration
                       /\ line = assessment[k].lines[i]
    OBVIOUS
  <2>2. LineOK(k, i, d, line)
    BY <2>1 DEF TariffInv, LinesOK
  <2>3. LineOK(k, i, d, line)'
    BY <2>2, <1>1
  <2> QED
    BY <2>1, <2>3
<1>3. AuditOK'
  BY DEF TariffInv, AuditOK
<1> QED
  BY <1>2, <1>3

(* A step of the officers or of the calendar. *)
LEMMA OfficersKeep ==
    ASSUME TariffInv, UNCHANGED <<assessment, audit, client>>,
           rate' \in [Rates -> RowStates],
           exemption' \in [Exemptions -> RowStates],
           drafting' \in [Officers -> Rates \cup {NoRow}],
           today' \in 1..LastDay,
           \A r \in Rates : rate[r].state = "ACTIVE" => rate'[r] = rate[r],
           \A e \in Exemptions :
              exemption[e].state = "ACTIVE" => exemption'[e] = exemption[e],
           RowsOK'
    PROVE  TariffInv'
<1>1. TariffTypeOK'
  BY DEF TariffInv, TariffTypeOK
<1>2. LinesOK' /\ AuditOK'
  BY LinesStay
<1>3. ASSUME NEW c \in Clients PROVE CallOK(client[c])'
  <2>1. PICK call : call = client[c] /\ call = client'[c]
    OBVIOUS
  <2>2. CallOK(call) /\ call \in CallStates
    BY <2>1 DEF TariffInv, TariffTypeOK
  <2>3. call.rates \subseteq Rates /\ call.exemptions \subseteq Exemptions
    BY <2>2 DEF CallStates
  <2>4. CallOK(call)'
    BY <2>2, <2>3 DEF CallOK
  <2> QED
    BY <2>1, <2>4
<1> QED
  BY <1>1, <1>2, <1>3 DEF TariffInv

LEMMA RateActsOK ==
    ASSUME TariffAssumption, TariffInv, NEW o \in Officers,
           \/ \E r \in Rates : CheckRate(o, r) \/ ActivateRate(o, r)
           \/ CreateRate(o)
    PROVE  TariffInv'
<1>1. /\ rate \in [Rates -> RowStates] /\ exemption \in [Exemptions -> RowStates]
      /\ drafting \in [Officers -> Rates \cup {NoRow}] /\ today \in 1..LastDay
      /\ RowsOK /\ NoRow \notin Rates
  BY DEF TariffInv, TariffTypeOK, TariffAssumption
<1>2. ASSUME NEW r \in Rates, CheckRate(o, r)
      PROVE  TariffInv'
  <2>1. /\ drafting' \in [Officers -> Rates \cup {NoRow}]
        /\ UNCHANGED <<rate, exemption, assessment, audit, client, today>>
    BY <1>1, <1>2 DEF CheckRate
  <2> QED
    BY <1>1, <2>1, OfficersKeep DEF RowsOK
<1>3. ASSUME NEW r \in Rates, NEW new \in RowStates,
             rate[r].state # "ACTIVE", new.state = "ACTIVE" => InForce(new),
             rate' = [rate EXCEPT ![r] = new],
             drafting' \in [Officers -> Rates \cup {NoRow}],
             UNCHANGED <<exemption, assessment, audit, client, today>>
      PROVE  TariffInv'
  <2>1. /\ rate' \in [Rates -> RowStates] /\ rate'[r] = new
        /\ \A q \in Rates : q # r => rate'[q] = rate[q]
    BY <1>1, <1>3
  <2>2. RowsOK'
    BY <1>1, <1>3, <2>1 DEF RowsOK
  <2> QED
    BY <1>1, <1>3, <2>1, <2>2, OfficersKeep
<1>4. CASE CreateRate(o)
  <2>1. drafting[o] \in Rates
    BY <1>1, <1>4 DEF CreateRate
  <2>2. PICK r \in Rates : r = drafting[o]
    BY <2>1
  <2>3. /\ drafting' \in [Officers -> Rates \cup {NoRow}]
        /\ UNCHANGED <<exemption, assessment, audit, client, today>>
        /\ rate' = [rate EXCEPT ![r] =
                      IF rate[r].state = "none" THEN Draft(o) ELSE rate[r]]
    BY <1>1, <1>4, <2>2 DEF CreateRate
  <2>4. Draft(o) \in RowStates /\ Draft(o).state = "DRAFT"
    BY DEF Draft, RowStates
  <2>5. CASE rate[r].state = "none"
    BY <1>3, <2>3, <2>4, <2>5
  <2>6. CASE rate[r].state # "none"
    <3>1. rate' = rate
      BY <1>1, <2>3, <2>6
    <3> QED
      BY <1>1, <2>3, <3>1, OfficersKeep DEF RowsOK
  <2> QED
    BY <2>5, <2>6
<1>5. ASSUME NEW r \in Rates, ActivateRate(o, r)
      PROVE  TariffInv'
  <2>1. PICK row \in RowStates : row = rate[r]
    BY <1>1
  <2>2. /\ row.state = "DRAFT" /\ row.maker # o
        /\ rate' = [rate EXCEPT ![r] = Active(row, o)]
        /\ UNCHANGED <<exemption, drafting, assessment, audit, client, today>>
    BY <1>1, <1>5, <2>1 DEF ActivateRate, Activatable
  <2>3. Active(row, o) \in RowStates /\ InForce(Active(row, o))
    BY <2>1, <2>2 DEF Active, RowStates, InForce
  <2> QED
    BY <1>1, <1>3, <2>1, <2>2, <2>3
<1> QED
  BY <1>2, <1>4, <1>5

LEMMA ExemptionActsOK ==
    ASSUME TariffInv, NEW o \in Officers, NEW e \in Exemptions,
           CreateExemption(o, e) \/ ActivateExemption(o, e)
    PROVE  TariffInv'
<1>1. /\ rate \in [Rates -> RowStates] /\ exemption \in [Exemptions -> RowStates]
      /\ drafting \in [Officers -> Rates \cup {NoRow}] /\ today \in 1..LastDay
      /\ RowsOK
  BY DEF TariffInv, TariffTypeOK
<1>2. PICK row \in RowStates : row = exemption[e]
  BY <1>1
<1>3. PICK new \in RowStates :
         /\ exemption' = [exemption EXCEPT ![e] = new]
         /\ row.state # "ACTIVE"
         /\ new.state = "ACTIVE" => InForce(new)
         /\ UNCHANGED <<rate, drafting, assessment, audit, client, today>>
  <2>1. CASE CreateExemption(o, e)
    <3>1. Draft(o) \in RowStates /\ Draft(o).state = "DRAFT"
      BY DEF Draft, RowStates
    <3> QED
      BY <2>1, <3>1, <1>2 DEF CreateExemption
  <2>2. CASE ActivateExemption(o, e)
    <3>1. /\ row.state = "DRAFT" /\ row.maker # o
          /\ exemption' = [exemption EXCEPT ![e] = Active(row, o)]
      BY <1>1, <1>2, <2>2 DEF ActivateExemption, Activatable
    <3>2. Active(row, o) \in RowStates /\ InForce(Active(row, o))
      BY <1>2, <3>1 DEF Active, RowStates, InForce
    <3> QED
      BY <2>2, <3>1, <3>2 DEF ActivateExemption
  <2> QED
    BY <2>1, <2>2
<1>4. /\ exemption' \in [Exemptions -> RowStates] /\ exemption'[e] = new
      /\ \A q \in Exemptions : q # e => exemption'[q] = exemption[q]
  BY <1>1, <1>3
<1>5. RowsOK'
  BY <1>1, <1>3, <1>4 DEF RowsOK
<1> QED
  BY <1>1, <1>2, <1>3, <1>4, <1>5, OfficersKeep

LEMMA TickOK ==
    ASSUME TariffAssumption, TariffInv, Tick
    PROVE  TariffInv'
<1>1. /\ rate \in [Rates -> RowStates] /\ exemption \in [Exemptions -> RowStates]
      /\ drafting \in [Officers -> Rates \cup {NoRow}] /\ RowsOK
  BY DEF TariffInv, TariffTypeOK
<1>2. today' \in 1..LastDay
  BY DEF Tick, TariffInv, TariffTypeOK, TariffAssumption
<1>3. UNCHANGED <<rate, exemption, drafting, assessment, audit, client>>
  BY DEF Tick
<1> QED
  BY <1>1, <1>2, <1>3, OfficersKeep DEF RowsOK

-----------------------------------------------------------------------------
(* A step of a call that stores nothing. *)
LEMMA CallStep ==
    ASSUME TariffInv, NEW c \in Clients, NEW new \in CallStates,
           client' = [client EXCEPT ![c] = new], CallOK(new),
           UNCHANGED <<rate, exemption, drafting, assessment, audit, today>>
    PROVE  TariffInv'
<1>1. /\ client' \in [Clients -> CallStates] /\ client'[c] = new
      /\ \A b \in Clients : b # c => client'[b] = client[b]
  BY DEF TariffInv, TariffTypeOK
<1>2. TariffTypeOK'
  BY <1>1 DEF TariffInv, TariffTypeOK
<1>3. RowsOK' /\ LinesOK' /\ AuditOK'
  BY LinesStay DEF TariffInv, RowsOK
<1>4. ASSUME NEW b \in Clients PROVE CallOK(client[b])'
  <2>1. PICK call : call = client'[b]
    OBVIOUS
  <2>2. CallOK(call)
    BY <1>1, <2>1 DEF TariffInv
  <2>3. CallOK(call)'
    BY <2>2 DEF CallOK
  <2> QED
    BY <2>1, <2>3
<1> QED
  BY <1>2, <1>3, <1>4 DEF TariffInv

(* A stored key answers its own assessment. *)
LEMMA ReplayOK ==
    ASSUME TariffInv, NEW call \in CallStates, NEW k \in Keys,
           call.key = k, call.declaration \in DeclarationRows,
           assessment[k] # NoAssessment, call.pc # "answered", CallOK(call)
    PROVE  Replay(call, k) \in CallStates /\ CallOK(Replay(call, k))
<1>1. PICK a : a = assessment[k] /\ a \in AssessmentRows \cup {NoAssessment}
  BY DEF TariffInv, TariffTypeOK
<1>2. CASE a.declaration = call.declaration
  <2> DEFINE new == [call EXCEPT !.pc = "answered", !.answer = a]
  <2>1. Replay(call, k) = new
    BY <1>1, <1>2 DEF Replay
  <2>2. /\ new \in CallStates /\ new.pc = "answered" /\ new.answer = a
        /\ new.key = k /\ new.declaration = call.declaration
        /\ new.rates = call.rates /\ new.exemptions = call.exemptions
    BY <1>1 DEF CallStates
  <2> HIDE DEF new
  <2> QED
    BY <1>1, <1>2, <2>1, <2>2 DEF CallOK
<1>3. CASE a.declaration # call.declaration
  <2> DEFINE new == [call EXCEPT !.pc = "conflict"]
  <2>1. Replay(call, k) = new
    BY <1>1, <1>3 DEF Replay
  <2>2. /\ new \in CallStates /\ new.pc = "conflict"
        /\ new.key = k /\ new.declaration = call.declaration
        /\ new.rates = call.rates /\ new.exemptions = call.exemptions
    BY DEF CallStates
  <2> HIDE DEF new
  <2> QED
    BY <2>1, <2>2 DEF CallOK
<1> QED
  BY <1>2, <1>3

LEMMA LookupOK ==
    ASSUME TariffAssumption, TariffInv, NEW c \in Clients, NEW k \in Keys,
           NEW d \in Declarations, Lookup(c, k, d)
    PROVE  TariffInv'
<1>1. PICK dated : dated = Dated(d)
  OBVIOUS
<1>2. dated \in DeclarationRows
  <2>1. d \in DeclarationRows /\ today \in Nat
    BY DEF TariffAssumption, TariffInv, TariffTypeOK
  <2>2. [d EXCEPT !.asOf = today] \in DeclarationRows
    BY <2>1 DEF DeclarationRows
  <2> QED
    BY <1>1, <2>1, <2>2 DEF Dated
<1> DEFINE call == [NewCall EXCEPT !.key = k, !.declaration = dated]
           next == [call EXCEPT !.pc = "rates"]
<1>3. /\ call \in CallStates /\ call.pc = "new" /\ call.key = k
      /\ call.declaration = dated /\ call.rates = {} /\ call.exemptions = {}
  BY <1>2 DEF NewCall, CallStates
<1>4. CallOK(call)
  BY <1>3 DEF CallOK
<1>5. /\ next \in CallStates /\ next.pc = "rates" /\ next.key = k
      /\ next.declaration = dated /\ next.rates = {} /\ next.exemptions = {}
  BY <1>2 DEF NewCall, CallStates
<1>6. CallOK(next)
  BY <1>2, <1>5 DEF CallOK
<1>7. /\ client' = [client EXCEPT ![c] =
                      IF assessment[k] # NoAssessment THEN Replay(call, k)
                      ELSE next]
      /\ UNCHANGED <<rate, exemption, drafting, assessment, audit, today>>
  BY <1>1 DEF Lookup
<1> HIDE DEF call, next
<1>8. CASE assessment[k] # NoAssessment
  <2>1. Replay(call, k) \in CallStates /\ CallOK(Replay(call, k))
    BY <1>2, <1>3, <1>4, <1>8, ReplayOK
  <2> QED
    BY <1>7, <1>8, <2>1, CallStep
<1>9. CASE assessment[k] = NoAssessment
  BY <1>5, <1>6, <1>7, <1>9, CallStep
<1> QED
  BY <1>8, <1>9

LEMMA ListsOK ==
    ASSUME TariffInv, NEW c \in Clients,
           \/ ListActiveRates(c) \/ ListActiveExemptions(c)
           \/ AssessFails(c)
    PROVE  TariffInv'
<1>1. PICK call \in CallStates : call = client[c]
  BY DEF TariffInv, TariffTypeOK
<1>2. CallOK(call)
  BY <1>1 DEF TariffInv
<1>3. UNCHANGED <<rate, exemption, drafting, assessment, audit, today>>
  BY DEF ListActiveRates, ListActiveExemptions, AssessFails
<1>4. PICK pc \in {"exemptions", "insert", "failed"},
           rates \in SUBSET Rates, exemptions \in SUBSET Exemptions :
         /\ call.pc # "new"
         /\ \A r \in rates : rate[r].state = "ACTIVE"
         /\ \A e \in exemptions : exemption[e].state = "ACTIVE"
         /\ client' = [client EXCEPT ![c] =
               [call EXCEPT !.pc = pc, !.rates = rates,
                            !.exemptions = exemptions]]
  <2>1. client \in [Clients -> CallStates]
    BY DEF TariffInv, TariffTypeOK
  <2>2. /\ call.rates \in SUBSET Rates /\ call.exemptions \in SUBSET Exemptions
        /\ \A r \in call.rates : rate[r].state = "ACTIVE"
        /\ \A e \in call.exemptions : exemption[e].state = "ACTIVE"
    BY <1>2 DEF CallStates, CallOK
  <2>3. CASE ListActiveRates(c)
    <3> DEFINE active == {r \in Rates :
                           /\ rate[r].state = "ACTIVE"
                           /\ InWindow(RateRow[r], client[c].declaration.asOf)}
    <3>1. /\ client[c].pc = "rates"
          /\ client' = [client EXCEPT ![c].rates = active, ![c].pc = "exemptions"]
      BY <2>3 DEF ListActiveRates
    <3>2. active \in SUBSET Rates /\ \A r \in active : rate[r].state = "ACTIVE"
      OBVIOUS
    <3> HIDE DEF active
    <3>3. client' = [client EXCEPT ![c] =
             [call EXCEPT !.pc = "exemptions", !.rates = active,
                          !.exemptions = call.exemptions]]
      BY <1>1, <2>1, <3>1 DEF CallStates
    <3>4. call.pc # "new"
      BY <1>1, <3>1
    <3> QED
      BY <2>2, <3>2, <3>3, <3>4
  <2>4. CASE ListActiveExemptions(c)
    <3> DEFINE exempt == {e \in Exemptions :
               /\ exemption[e].state = "ACTIVE"
               /\ InWindow(ExemptionRow[e], client[c].declaration.asOf)}
    <3>1. /\ client[c].pc = "exemptions"
          /\ client' = [client EXCEPT ![c].exemptions = exempt, ![c].pc = "insert"]
      BY <2>4 DEF ListActiveExemptions
    <3>2. /\ exempt \in SUBSET Exemptions
          /\ \A e \in exempt : exemption[e].state = "ACTIVE"
      OBVIOUS
    <3> HIDE DEF exempt
    <3>3. client' = [client EXCEPT ![c] =
             [call EXCEPT !.pc = "insert", !.rates = call.rates,
                          !.exemptions = exempt]]
      BY <1>1, <2>1, <3>1 DEF CallStates
    <3>4. call.pc # "new"
      BY <1>1, <3>1
    <3> QED
      BY <2>2, <3>2, <3>3, <3>4
  <2>5. CASE AssessFails(c)
    <3>1. client[c].pc # "new" /\ client' = [client EXCEPT ![c].pc = "failed"]
      BY <2>5 DEF AssessFails
    <3>2. client' = [client EXCEPT ![c] =
             [call EXCEPT !.pc = "failed", !.rates = call.rates,
                          !.exemptions = call.exemptions]]
      BY <1>1, <2>1, <3>1 DEF CallStates
    <3> QED
      BY <1>1, <2>2, <3>1, <3>2
  <2> QED
    BY <2>3, <2>4, <2>5
<1> DEFINE new == [call EXCEPT !.pc = pc, !.rates = rates,
                               !.exemptions = exemptions]
<1>5. /\ new \in CallStates /\ new.pc = pc /\ new.rates = rates
      /\ new.exemptions = exemptions /\ new.key = call.key
      /\ new.declaration = call.declaration
  BY <1>4 DEF CallStates
<1>6. client' = [client EXCEPT ![c] = new]
  BY <1>4
<1> HIDE DEF new
<1>7. CallOK(new)
  BY <1>2, <1>4, <1>5 DEF CallOK
<1> QED
  BY <1>3, <1>5, <1>6, <1>7, CallStep

(* The amount of a charge is the nearest to its exact share. *)
LEMMA ChargeIsJustified ==
    ASSUME TariffAssumption, NEW d \in DeclarationRows, NEW i \in Instruments,
           NEW rates \in SUBSET Rates, NEW line, line.rate \in Fitting(i, d, rates),
           line.amount = Charge(RateRow[line.rate], d),
           InForce(rate[line.rate])
    PROVE  Justified(i, d, line)
<1>1. PICK r \in Rates : r = line.rate
  BY DEF Fitting
<1>2. PICK price \in Nat : price = RateRow[r].price
  BY DEF TariffAssumption
<1>3. PICK freight \in Nat : freight = d.freight
  BY DEF DeclarationRows
<1>4. PICK p \in Nat : p = freight * price
  BY ProductIsNatural
<1>5. 2 * freight * price = 2 * p
  BY <1>4
<1>6. /\ RateRow[r].instrument = i
      /\ InWindow(RateRow[r], d.asOf) /\ InBand(RateRow[r], d.grt)
  BY <1>1 DEF Fitting
<1>7. CASE RateRow[r].logic = "PER_GRT_BAND"
  <2>1. d.grt * RateRow[r].price \in Nat
    BY <1>2, ProductIsNatural DEF DeclarationRows
  <2>2. d.grt * RateRow[r].price < Word => line.amount = d.grt * RateRow[r].price
    BY <1>1, <1>7, <2>1, Int64Type DEF Charge
  <2> QED
    BY <1>1, <1>6, <1>7, <2>2 DEF Justified, InWindow, InBand
<1>8. CASE RateRow[r].logic # "PER_GRT_BAND"
  <2>1. 2 * d.freight * RateRow[r].price = 2 * p
    BY <1>2, <1>3, <1>5
  <2>2. ASSUME 2 * p < Word
        PROVE  /\ 20000 * line.amount <= 2 * p + 10000
               /\ 20000 * line.amount > 2 * p - 10000
    <3>1. p < Word
      BY <2>2 DEF TariffAssumption
    <3>2. line.amount = RoundHalfUp(p, 10000)
      BY <1>1, <1>2, <1>3, <1>4, <1>8, <3>1, Int64Type DEF Charge
    <3> QED
      BY <2>2, <3>2, ChargeIsNearest
  <2>3. 2 * d.freight * RateRow[r].price < Word =>
           /\ 20000 * line.amount <= 2 * d.freight * RateRow[r].price + 10000
           /\ 20000 * line.amount > 2 * d.freight * RateRow[r].price - 10000
    BY <2>1, <2>2
  <2> QED
    BY <1>1, <1>6, <1>8, <2>3 DEF Justified, InWindow
<1> QED
  BY <1>7, <1>8

(* The transaction that stores an assessment, and what its caller is told. *)
Stores(c, k, lines, computed, told) ==
    /\ assessment' = [assessment EXCEPT ![k] = computed]
    /\ audit' = audit \cup
          {[key |-> k, instrument |-> i, exemption |-> lines[i].exemption] :
             i \in {j \in Instruments : lines[j].outcome = "EXEMPT"}}
    /\ client' = [client EXCEPT ![c] = told]
    /\ UNCHANGED <<rate, exemption, drafting, today>>

LEMMA StoreOK ==
    ASSUME TariffAssumption, TariffInv, NEW c \in Clients,
           NEW call \in CallStates, call = client[c], call.pc = "insert",
           NEW k \in Keys, k = call.key, assessment[k] = NoAssessment,
           NEW ahead, NEW lines,
           lines = Compute(call.declaration, call.rates, call.exemptions, ahead),
           NEW computed,
           computed = [declaration |-> call.declaration, lines |-> lines],
           NEW new \in Told(call, computed), Stores(c, k, lines, computed, new)
    PROVE  TariffInv'
<1> USE DEF Stores
<1>1. PICK d \in DeclarationRows : d = call.declaration
  BY DEF TariffInv, CallOK
<1>2. /\ call.rates \in SUBSET Rates /\ call.exemptions \in SUBSET Exemptions
      /\ \A r \in call.rates : InForce(rate[r])
      /\ \A e \in call.exemptions : InForce(exemption[e])
  BY DEF TariffInv, CallOK, CallStates, RowsOK
<1>3. ASSUME NEW i \in Instruments
      PROVE  /\ lines[i] \in LineRows
             /\ lines[i].outcome = "CHARGED" =>
                   /\ lines[i].rate \in Fitting(i, d, call.rates)
                   /\ lines[i].amount = Charge(RateRow[lines[i].rate], d)
             /\ lines[i].outcome # "CHARGED" => lines[i].amount = 0
             /\ lines[i].outcome = "EXEMPT" =>
                   lines[i].exemption \in Granted(i, d, call.exemptions)
  <2>1. PICK line : line = lines[i]
    OBVIOUS
  <2>2. line = Compute(d, call.rates, call.exemptions, ahead)[i]
    BY <1>1, <2>1
  <2> QED
    BY <1>2, <2>1, <2>2, ComputedLine
<1>4. lines \in [Instruments -> LineRows]
  <2>1. lines = [i \in Instruments |-> lines[i]]
    BY ComputeIsFunction
  <2>2. \A i \in Instruments : lines[i] \in LineRows
    BY <1>3
  <2> HIDE DEF Stores
  <2> QED
    BY <2>1, <2>2, FunctionInto
<1>5. /\ computed \in AssessmentRows /\ computed # NoAssessment
      /\ computed.declaration = d /\ computed.lines = lines
  BY <1>1, <1>4 DEF AssessmentRows, NoAssessment, TariffAssumption
<1>6. /\ assessment' \in [Keys -> AssessmentRows \cup {NoAssessment}]
      /\ assessment'[k] = computed
      /\ \A j \in Keys : j # k => assessment'[j] = assessment[j]
  BY <1>5 DEF TariffInv, TariffTypeOK
<1>7. /\ new \in CallStates
      /\ new.pc = "answered" => new.answer = computed
      /\ new.pc # "new"
      /\ new.key = k /\ new.declaration = d /\ new.rates = call.rates
      /\ new.exemptions = call.exemptions
  <2> HIDE DEF Stores
  <2>1. k = call.key /\ call \in CallStates
    OBVIOUS
  <2>2. CASE new = [call EXCEPT !.pc = "failed"]
    BY <1>1, <2>1, <2>2 DEF CallStates
  <2>3. CASE new = [call EXCEPT !.pc = "answered", !.answer = computed]
    BY <1>1, <1>5, <2>1, <2>3 DEF CallStates
  <2> QED
    BY <2>2, <2>3 DEF Told
<1>8. client' = [client EXCEPT ![c] = new]
  OBVIOUS
<1>9. /\ client' \in [Clients -> CallStates] /\ client'[c] = new
      /\ \A b \in Clients : b # c => client'[b] = client[b]
  <2>1. client \in [Clients -> CallStates]
    BY DEF TariffInv, TariffTypeOK
  <2> HIDE DEF Stores
  <2> QED
    BY <1>7, <1>8, <2>1
<1>10. ASSUME NEW a \in audit'
       PROVE  \/ a \in audit
              \/ \E i \in Instruments :
                    /\ lines[i].outcome = "EXEMPT"
                    /\ a = [key |-> k, instrument |-> i,
                            exemption |-> lines[i].exemption]
  OBVIOUS
<1>11. audit \subseteq [key : Keys, instrument : Instruments,
                        exemption : Exemptions]
  BY DEF TariffInv, TariffTypeOK
<1>12. audit' \subseteq [key : Keys, instrument : Instruments,
                         exemption : Exemptions]
  <2> SUFFICES ASSUME NEW a \in audit'
               PROVE  a \in [key : Keys, instrument : Instruments,
                             exemption : Exemptions]
    OBVIOUS
  <2>1. ASSUME NEW i \in Instruments, lines[i].outcome = "EXEMPT"
        PROVE  lines[i].exemption \in Exemptions
    BY <1>2, <1>3, <2>1 DEF Granted
  <2>2. CASE a \in audit
    BY <1>11, <2>2
  <2>3. CASE a \notin audit
    <3>1. PICK i \in Instruments :
             /\ lines[i].outcome = "EXEMPT"
             /\ a = [key |-> k, instrument |-> i,
                     exemption |-> lines[i].exemption]
      BY <1>10, <2>3
    <3>2. lines[i].exemption \in Exemptions
      BY <2>1, <3>1
    <3> HIDE DEF Stores
    <3> QED
      BY <3>1, <3>2
  <2> QED
    BY <2>2, <2>3
<1>13. TariffTypeOK'
  BY <1>6, <1>9, <1>12 DEF TariffInv, TariffTypeOK
<1>14. RowsOK'
  BY DEF TariffInv, RowsOK
<1>15. LinesOK'
  <2> SUFFICES ASSUME NEW j \in Keys, assessment'[j] # NoAssessment,
                      NEW i \in Instruments
               PROVE  LineOK(j, i, assessment[j].declaration,
                             assessment[j].lines[i])'
    BY DEF LinesOK
  <2>1. PICK e, line : /\ e = assessment'[j].declaration
                       /\ line = assessment'[j].lines[i]
    OBVIOUS
  <2>2. CASE j # k
    <3>1. LineOK(j, i, e, line)
      BY <1>6, <2>1, <2>2 DEF TariffInv, LinesOK
    <3>2. Justified(i, e, line) => Justified(i, e, line)'
      BY DEF Justified
    <3>3. LineOK(j, i, e, line)'
      BY <3>1, <3>2 DEF LineOK, Granted
    <3> QED
      BY <2>1, <3>3
  <2>3. CASE j = k
    <3>1. e = d /\ line = lines[i]
      BY <1>5, <1>6, <2>1, <2>3
    <3>2. ASSUME line.outcome = "CHARGED"
          PROVE  line.rate \in Rates /\ Justified(i, d, line)
      <4>1. /\ line.rate \in Fitting(i, d, call.rates)
            /\ line.amount = Charge(RateRow[line.rate], d)
        BY <1>3, <3>1, <3>2
      <4>2. line.rate \in call.rates
        BY <4>1 DEF Fitting
      <4> QED
        BY <1>2, <4>1, <4>2, ChargeIsJustified
    <3>3. ASSUME line.outcome = "EXEMPT"
          PROVE  /\ line.exemption \in Exemptions
                 /\ InForce(exemption[line.exemption])
                 /\ line.exemption \in Granted(i, d, {line.exemption})
                 /\ [key |-> k, instrument |-> i,
                     exemption |-> line.exemption] \in audit'
      <4>1. line.exemption \in Granted(i, d, call.exemptions)
        BY <1>3, <3>1, <3>3
      <4>2. line.exemption \in call.exemptions
        BY <4>1 DEF Granted
      <4> QED
        BY <1>2, <3>1, <3>3, <4>1, <4>2 DEF Granted
    <3>4. line.outcome # "CHARGED" => line.amount = 0
      BY <1>3, <3>1
    <3>5. Justified(i, d, line) => Justified(i, d, line)'
      BY DEF Justified
    <3>6. InForce(exemption[line.exemption]) =>
             InForce(exemption'[line.exemption])
      OBVIOUS
    <3>7. LineOK(k, i, d, line)'
      BY <3>2, <3>3, <3>4, <3>5, <3>6 DEF LineOK, Granted
    <3> QED
      BY <2>1, <2>3, <3>1, <3>7
  <2> QED
    BY <2>2, <2>3
<1>16. AuditOK'
  <2> SUFFICES ASSUME NEW a \in audit'
               PROVE  /\ assessment'[a.key] # NoAssessment
                      /\ assessment'[a.key].lines[a.instrument].outcome = "EXEMPT"
                      /\ assessment'[a.key].lines[a.instrument].exemption =
                            a.exemption
    BY DEF AuditOK
  <2>1. CASE a \in audit
    <3>1. PICK j \in Keys : j = a.key
      BY <1>11, <2>1
    <3>2. /\ assessment[j] # NoAssessment
          /\ assessment[j].lines[a.instrument].outcome = "EXEMPT"
          /\ assessment[j].lines[a.instrument].exemption = a.exemption
      BY <2>1, <3>1 DEF TariffInv, AuditOK
    <3>3. assessment'[j] = assessment[j]
      BY <1>6, <3>2
    <3> HIDE DEF Stores
    <3> QED
      BY <3>1, <3>2, <3>3
  <2>2. CASE a \notin audit
    <3>1. PICK i \in Instruments :
             /\ lines[i].outcome = "EXEMPT"
             /\ a = [key |-> k, instrument |-> i,
                     exemption |-> lines[i].exemption]
      BY <1>10, <2>2
    <3> QED
      BY <1>5, <1>6, <3>1
  <2> QED
    BY <2>1, <2>2
<1>17. ASSUME NEW b \in Clients PROVE CallOK(client[b])'
  <2>1. PICK was : was = client'[b]
    OBVIOUS
  <2>2. CASE b = c
    <3>1. CallOK(new)'
      BY <1>1, <1>2, <1>5, <1>6, <1>7 DEF CallOK, InForce
    <3> QED
      BY <1>9, <2>2, <3>1
  <2>3. CASE b # c
    <3>1. CallOK(was) /\ was \in CallStates
      BY <1>9, <2>1, <2>3 DEF TariffInv, TariffTypeOK
    <3>2. was.pc = "answered" => assessment'[was.key] = assessment[was.key]
      BY <1>6, <3>1 DEF CallOK
    <3>3. CallOK(was)'
      BY <3>1, <3>2 DEF CallOK
    <3> QED
      BY <2>1, <3>3
  <2> QED
    BY <2>2, <2>3
<1> QED
  BY <1>13, <1>14, <1>15, <1>16, <1>17 DEF TariffInv

LEMMA AssessOK ==
    ASSUME TariffAssumption, TariffInv, NEW c \in Clients, Assess(c)
    PROVE  TariffInv'
<1>1. PICK call \in CallStates : call = client[c]
  BY DEF TariffInv, TariffTypeOK
<1>2. /\ call.pc = "insert" /\ CallOK(call)
      /\ UNCHANGED <<rate, exemption, drafting, today>>
  BY <1>1 DEF Assess, TariffInv
<1>3. call.declaration \in DeclarationRows /\ call.key \in Keys
  BY <1>2 DEF CallOK
<1>4. PICK k \in Keys : k = call.key
  BY <1>3
<1>5. CASE assessment[k] # NoAssessment
  <2>1. /\ client' = [client EXCEPT ![c] = Replay(call, k)]
        /\ UNCHANGED <<assessment, audit>>
    BY <1>1, <1>4, <1>5 DEF Assess, AnswerTwin
  <2>2. Replay(call, k) \in CallStates /\ CallOK(Replay(call, k))
    BY <1>2, <1>3, <1>4, <1>5, ReplayOK
  <2> QED
    BY <1>2, <2>1, <2>2, CallStep
<1>6. CASE assessment[k] = NoAssessment
  <2>1. PICK ahead, lines, computed, told :
           /\ lines = Compute(call.declaration, call.rates, call.exemptions,
                              ahead)
           /\ computed = [declaration |-> call.declaration, lines |-> lines]
           /\ told \in Told(call, computed)
           /\ Stores(c, k, lines, computed, told)
    BY <1>1, <1>2, <1>4, <1>6 DEF Assess, Stores
  <2> QED
    BY <1>1, <1>2, <1>4, <1>6, <2>1, StoreOK
<1> QED
  BY <1>5, <1>6

LEMMA TariffStepOK ==
    ASSUME TariffAssumption, TariffInv, [TariffNext]_tariffVars
    PROVE  TariffInv'
<1>1. CASE UNCHANGED tariffVars
  BY <1>1, OfficersKeep DEF tariffVars, TariffInv, TariffTypeOK, RowsOK
<1>2. CASE TariffNext
  BY <1>2, RateActsOK, ExemptionActsOK, TickOK, LookupOK, ListsOK, AssessOK
     DEF TariffNext, OfficerActs, ClientActs
<1> QED
  BY <1>1, <1>2

LEMMA TariffInvariant == TariffSpec => []TariffInv
<1>1. TariffInit => TariffInv
  BY TariffAssumption, OfficersAssumption, TariffInitOK
<1>2. TariffInv /\ [TariffNext]_tariffVars => TariffInv'
  BY TariffAssumption, TariffStepOK
<1> QED
  BY <1>1, <1>2, PTL DEF TariffSpec

(* Assessments, rows and calls keep their types (tariff/model.go, store.go). *)
THEOREM TariffTypeCorrect == TariffSpec => []TariffTypeOK
<1>1. TariffInv => TariffTypeOK
  BY DEF TariffInv
<1> QED
  BY <1>1, TariffInvariant, PTL

(* For any schedule, clients and officers: every stored line is justified by *)
(* rows in force, and the exemption audit lists what was waived and nothing  *)
(* else (tariff/engine.go Compute, store.go Assess).                         *)
THEOREM LinesCorrect == TariffSpec => []LinesAreJustified
<1>1. TariffInv => LinesAreJustified
  <2> SUFFICES ASSUME TariffInv PROVE LinesAreJustified
    OBVIOUS
  <2>1. ASSUME NEW k \in Keys, assessment[k] # NoAssessment,
               NEW i \in Instruments
        PROVE  LineOK(k, i, assessment[k].declaration, assessment[k].lines[i])
    BY <2>1 DEF TariffInv, LinesOK
  <2>2. AuditOK
    BY DEF TariffInv
  <2> QED
    BY <2>1, <2>2 DEF LinesAreJustified, LineOK, AuditOK
<1> QED
  BY <1>1, TariffInvariant, PTL

(* For any clients that race for one key: all get the stored answer          *)
(* (tariff/store.go Assess).                                                 *)
THEOREM SameAnswerCorrect == TariffSpec => []SameAnswer
<1>1. TariffInv => SameAnswer
  BY DEF TariffInv, SameAnswer, CallOK
<1> QED
  BY <1>1, TariffInvariant, PTL

-----------------------------------------------------------------------------
(* An assessment is answered once. *)

TariffAnswers ==
    [c \in Clients |-> IF client[c].pc = "answered" THEN client[c].answer
                       ELSE NoAssessment]

Assessments == INSTANCE AnswerOnce WITH
    Keys <- Keys, Callers <- Clients, None <- NoAssessment,
    stored <- assessment, answer <- TariffAnswers

(* A step of one call changes no other answer. *)
LEMMA OneAnswer ==
    ASSUME TariffTypeOK, NEW c \in Clients, NEW new,
           client[c].pc # "answered", client' = [client EXCEPT ![c] = new]
    PROVE  /\ TariffAnswers[c] = NoAssessment
           /\ new.pc # "answered" => TariffAnswers' = TariffAnswers
           /\ new.pc = "answered" =>
                TariffAnswers' = [TariffAnswers EXCEPT ![c] = new.answer]
<1>1. /\ client'[c] = new
      /\ \A b \in Clients : b # c => client'[b] = client[b]
  BY DEF TariffTypeOK
<1>2. TariffAnswers[c] = NoAssessment
  BY DEF TariffAnswers
<1>3. /\ TariffAnswers' = [b \in Clients |-> TariffAnswers'[b]]
      /\ TariffAnswers = [b \in Clients |-> TariffAnswers[b]]
      /\ TariffAnswers'[c] = IF new.pc = "answered" THEN new.answer
                            ELSE NoAssessment
      /\ \A b \in Clients : b # c => TariffAnswers'[b] = TariffAnswers[b]
  BY <1>1 DEF TariffAnswers
<1>4. CASE new.pc # "answered"
  <2>1. \A b \in Clients : TariffAnswers'[b] = TariffAnswers[b]
    BY <1>2, <1>3, <1>4
  <2> QED
    BY <1>2, <1>3, <1>4, <2>1
<1>5. CASE new.pc = "answered"
  BY <1>2, <1>3, <1>5
<1> QED
  BY <1>2, <1>4, <1>5

LEMMA ReplayRefines ==
    ASSUME TariffTypeOK, NEW c \in Clients, NEW call \in CallStates, NEW k \in Keys,
           assessment[k] # NoAssessment, call.pc # "answered",
           client[c].pc # "answered",
           client' = [client EXCEPT ![c] = Replay(call, k)], UNCHANGED assessment
    PROVE  [Assessments!Next]_<<assessment, TariffAnswers>>
<1>1. PICK new : new = Replay(call, k)
  OBVIOUS
<1>2. /\ TariffAnswers[c] = NoAssessment
      /\ new.pc # "answered" => TariffAnswers' = TariffAnswers
      /\ new.pc = "answered" =>
           TariffAnswers' = [TariffAnswers EXCEPT ![c] = new.answer]
  BY <1>1, OneAnswer
<1>3. new.pc = "answered" => new.answer = assessment[k]
  BY <1>1 DEF Replay, CallStates
<1>4. CASE new.pc = "answered"
  <2>1. Assessments!AnswerStored(c, k)
    BY <1>2, <1>3, <1>4 DEF Assessments!AnswerStored
  <2> QED
    BY <2>1 DEF Assessments!Next
<1>5. CASE new.pc # "answered"
  BY <1>2, <1>5
<1> QED
  BY <1>4, <1>5

LEMMA AssessRefines ==
    ASSUME TariffAssumption, TariffInv, NEW c \in Clients, Assess(c)
    PROVE  [Assessments!Next]_<<assessment, TariffAnswers>>
<1>1. PICK call \in CallStates : call = client[c]
  BY DEF TariffInv, TariffTypeOK
<1>2. call.pc = "insert" /\ CallOK(call) /\ TariffTypeOK
  BY <1>1 DEF Assess, TariffInv
<1>3. PICK k \in Keys : k = call.key
  BY <1>2 DEF CallOK
<1>4. CASE assessment[k] # NoAssessment
  <2>1. client' = [client EXCEPT ![c] = Replay(call, k)] /\ UNCHANGED assessment
    BY <1>1, <1>3, <1>4 DEF Assess, AnswerTwin
  <2> QED
    BY <1>1, <1>2, <1>4, <2>1, ReplayRefines
<1>5. CASE assessment[k] = NoAssessment
  <2>1. PICK ahead, lines, computed, told :
           /\ lines = Compute(call.declaration, call.rates, call.exemptions,
                              ahead)
           /\ computed = [declaration |-> call.declaration, lines |-> lines]
           /\ told \in Told(call, computed)
           /\ Stores(c, k, lines, computed, told)
    BY <1>1, <1>2, <1>3, <1>5 DEF Assess, Stores
  <2>2. computed # NoAssessment
    <3>1. call.declaration \in DeclarationRows
      BY <1>2 DEF CallOK
    <3>2. computed.declaration # NoRow
      BY <2>1, <3>1 DEF TariffAssumption
    <3> QED
      BY <3>2 DEF NoAssessment
  <2>3. /\ assessment' = [assessment EXCEPT ![k] = computed]
        /\ assessment'[k] = computed
    BY <1>2, <2>1 DEF Stores, TariffTypeOK
  <2>4. client' = [client EXCEPT ![c] = told]
    BY <2>1 DEF Stores
  <2>5. told.pc = "answered" => told.answer = computed
    BY <2>1 DEF CallStates, Told
  <2>6. /\ TariffAnswers[c] = NoAssessment
        /\ \/ TariffAnswers' = [TariffAnswers EXCEPT ![c] = computed]
           \/ TariffAnswers' = TariffAnswers
    <3>1. client[c].pc # "answered"
      BY <1>1, <1>2
    <3>2. CASE told.pc = "answered"
      <4>1. /\ TariffAnswers[c] = NoAssessment
            /\ TariffAnswers' = [TariffAnswers EXCEPT ![c] = told.answer]
        BY <1>2, <2>4, <3>1, <3>2, OneAnswer
      <4> QED
        BY <2>5, <3>2, <4>1
    <3>3. CASE told.pc # "answered"
      BY <1>2, <2>4, <3>1, <3>3, OneAnswer
    <3> QED
      BY <3>2, <3>3
  <2>7. Assessments!StoreResult(c, k) \/ Assessments!StoreUnheard(k)
    BY <1>5, <2>2, <2>3, <2>6
    DEF Assessments!StoreResult, Assessments!StoreUnheard, Assessments!Store
  <2> QED
    BY <2>7 DEF Assessments!Next
<1> QED
  BY <1>4, <1>5

(* The reads of a call, and its failure, answer nobody. *)
LEMMA ReadsRefine ==
    ASSUME TariffTypeOK, NEW c \in Clients,
           ListActiveRates(c) \/ ListActiveExemptions(c) \/ AssessFails(c)
    PROVE  UNCHANGED <<assessment, TariffAnswers>>
<1>1. client[c].pc # "answered" /\ UNCHANGED assessment
  BY DEF ListActiveRates, ListActiveExemptions, AssessFails
<1>2. PICK call \in CallStates : call = client[c]
  BY DEF TariffTypeOK
<1>3. PICK new : client' = [client EXCEPT ![c] = new] /\ new.pc # "answered"
  <2>1. CASE ListActiveRates(c)
    <3> DEFINE new == [call EXCEPT
                 !.rates = {r \in Rates :
                              /\ rate[r].state = "ACTIVE"
                              /\ InWindow(RateRow[r], call.declaration.asOf)},
                 !.pc = "exemptions"]
    <3>1. client' = [client EXCEPT ![c] = new]
      BY <1>2, <2>1 DEF ListActiveRates, TariffTypeOK
    <3>2. new.pc = "exemptions"
      BY DEF CallStates
    <3> QED
      BY <3>1, <3>2
  <2>2. CASE ListActiveExemptions(c)
    <3> DEFINE new == [call EXCEPT
                 !.exemptions = {e \in Exemptions :
                    /\ exemption[e].state = "ACTIVE"
                    /\ InWindow(ExemptionRow[e], call.declaration.asOf)},
                 !.pc = "insert"]
    <3>1. client' = [client EXCEPT ![c] = new]
      BY <1>2, <2>2 DEF ListActiveExemptions, TariffTypeOK
    <3>2. new.pc = "insert"
      BY DEF CallStates
    <3> QED
      BY <3>1, <3>2
  <2>3. CASE AssessFails(c)
    <3> DEFINE new == [call EXCEPT !.pc = "failed"]
    <3>1. client' = [client EXCEPT ![c] = new]
      BY <1>2, <2>3 DEF AssessFails, TariffTypeOK
    <3>2. new.pc = "failed"
      BY DEF CallStates
    <3> QED
      BY <3>1, <3>2
  <2> QED
    BY <2>1, <2>2, <2>3
<1> QED
  BY <1>1, <1>3, OneAnswer

LEMMA LookupRefines ==
    ASSUME TariffTypeOK, NEW c \in Clients, NEW k \in Keys, NEW d \in Declarations,
           Dated(d) \in DeclarationRows, Lookup(c, k, d)
    PROVE  [Assessments!Next]_<<assessment, TariffAnswers>>
<1>1. PICK dated \in DeclarationRows : dated = Dated(d)
  OBVIOUS
<1> DEFINE call == [NewCall EXCEPT !.key = k, !.declaration = dated]
           next == [call EXCEPT !.pc = "rates"]
<1>2. call \in CallStates /\ call.pc = "new" /\ next.pc = "rates"
  BY DEF NewCall, CallStates
<1>3. /\ client[c].pc # "answered" /\ UNCHANGED assessment
      /\ client' = [client EXCEPT ![c] =
                      IF assessment[k] # NoAssessment THEN Replay(call, k)
                      ELSE next]
  BY <1>1 DEF Lookup
<1> HIDE DEF call, next
<1>4. CASE assessment[k] # NoAssessment
  BY <1>2, <1>3, <1>4, ReplayRefines
<1>5. CASE assessment[k] = NoAssessment
  BY <1>2, <1>3, <1>5, OneAnswer
<1> QED
  BY <1>4, <1>5

(* For any schedule, clients, keys and officers: the engine is an idempotent *)
(* service.  Whatever its calls read before their transactions, a key gets   *)
(* one assessment, which never changes, and each call gets that one or none, *)
(* the call that stored it too (tariff/store.go Assess).                     *)
THEOREM AssessmentsRefine == TariffSpec => Assessments!Spec
<1>1. TariffInit => Assessments!Init
  <2> SUFFICES ASSUME TariffInit PROVE Assessments!Init
    OBVIOUS
  <2>1. \A c \in Clients : client[c].pc = "new"
    BY DEF TariffInit, NewCall
  <2> QED
    BY <2>1 DEF TariffInit, Assessments!Init, TariffAnswers
<1>2. TariffInv /\ [TariffNext]_tariffVars
        => [Assessments!Next]_<<assessment, TariffAnswers>>
  <2> SUFFICES ASSUME TariffInv, [TariffNext]_tariffVars
               PROVE  [Assessments!Next]_<<assessment, TariffAnswers>>
    OBVIOUS
  <2>1. TariffTypeOK /\ TariffAssumption
    BY TariffAssumption DEF TariffInv
  <2>2. CASE UNCHANGED <<assessment, client>>
    BY <2>2 DEF TariffAnswers
  <2>3. CASE \E o \in Officers : OfficerActs(o)
    BY <2>2, <2>3 DEF OfficerActs, CheckRate, CreateRate, ActivateRate,
       CreateExemption, ActivateExemption
  <2>4. ASSUME NEW c \in Clients, ClientActs(c)
        PROVE  [Assessments!Next]_<<assessment, TariffAnswers>>
    <3>1. ASSUME NEW k \in Keys, NEW d \in Declarations, Lookup(c, k, d)
          PROVE  [Assessments!Next]_<<assessment, TariffAnswers>>
      <4>1. d \in DeclarationRows /\ today \in Nat
        BY <2>1 DEF TariffAssumption, TariffTypeOK
      <4>2. [d EXCEPT !.asOf = today] \in DeclarationRows
        BY <4>1 DEF DeclarationRows
      <4>3. Dated(d) \in DeclarationRows
        BY <4>1, <4>2 DEF Dated
      <4> QED
        BY <2>1, <3>1, <4>3, LookupRefines
    <3>2. CASE ListActiveRates(c) \/ ListActiveExemptions(c) \/ AssessFails(c)
      BY <2>1, <3>2, ReadsRefine
    <3>3. CASE Assess(c)
      BY <2>1, <3>3, AssessRefines
    <3> QED
      BY <2>4, <3>1, <3>2, <3>3 DEF ClientActs
  <2>5. CASE Tick \/ UNCHANGED tariffVars
    BY <2>2, <2>5 DEF Tick, tariffVars
  <2> QED
    BY <2>3, <2>4, <2>5 DEF TariffNext
<1> QED
  BY <1>1, <1>2, TariffInvariant, PTL DEF TariffSpec, Assessments!Spec

-----------------------------------------------------------------------------
(* Sums over finite sets, by the least subset on which a claim fails. *)

Pick(s) == CHOOSE x \in s : TRUE

(* g gives the sum of w over every subset of S. *)
Sums(g, w, S) ==
    /\ g \in [SUBSET S -> Int]
    /\ g[{}] = 0
    /\ \A s \in SUBSET S : \A x \in s : g[s] = w[x] + g[s \ {x}]

LEMMA LeastSubset ==
    ASSUME NEW S, IsFiniteSet(S), NEW B \in SUBSET (SUBSET S), B # {}
    PROVE  \E s \in B : \A t \in B : ~ (t \subseteq s /\ t # s)
<1>1. B \subseteq FiniteSubsetsOf(S)
  BY FS_Subset DEF FiniteSubsetsOf
<1>2. PICK s \in B : \A t \in B : ~ (<<t, s>> \in StrictSubsetOrdering(S))
  BY <1>1, FS_StrictSubsetOrderingWellFounded, WFMin, Zenon
<1>3. \A t \in B : ~ (t \subseteq s /\ t # s)
  BY <1>2 DEF StrictSubsetOrdering
<1> QED
  BY <1>3

LEMMA SumsUnique ==
    ASSUME NEW S, IsFiniteSet(S), NEW w, NEW g, NEW h,
           Sums(g, w, S), Sums(h, w, S)
    PROVE  g = h
<1> DEFINE B == {s \in SUBSET S : g[s] # h[s]}
<1>1. SUFFICES ASSUME B # {} PROVE FALSE
  BY DEF Sums
<1>2. PICK s \in B : \A t \in B : ~ (t \subseteq s /\ t # s)
  <2>1. B \in SUBSET (SUBSET S)
    OBVIOUS
  <2> HIDE DEF B
  <2> QED
    BY <1>1, <2>1, LeastSubset
<1>3. s # {}
  BY <1>2 DEF Sums
<1>4. PICK x \in s : TRUE
  BY <1>3
<1>5. g[s \ {x}] = h[s \ {x}]
  BY <1>2, <1>4
<1> QED
  BY <1>2, <1>4, <1>5 DEF Sums

(* The recursion has a solution. *)
LEMMA SumsExist ==
    ASSUME NEW S, IsFiniteSet(S), NEW w,
           \A x \in S : w[x] \in Int
    PROVE  \E g : Sums(g, w, S)
<1> DEFINE B == {s \in SUBSET S : ~ \E g : Sums(g, w, s)}
<1>1. SUFFICES ASSUME B # {} PROVE FALSE
  OBVIOUS
<1>2. PICK s \in B : \A t \in B : ~ (t \subseteq s /\ t # s)
  <2>1. B \in SUBSET (SUBSET S)
    OBVIOUS
  <2> HIDE DEF B
  <2> QED
    BY <1>1, <2>1, LeastSubset
<1>3. s # {}
  <2>1. Sums([t \in SUBSET {} |-> 0], w, {})
    BY DEF Sums
  <2> QED
    BY <1>2, <2>1
<1>4. PICK x : x = Pick(s)
  OBVIOUS
<1>5. x \in s /\ s \in SUBSET S
  BY <1>2, <1>3, <1>4 DEF Pick
<1>6. PICK g : Sums(g, w, s \ {x})
  BY <1>2, <1>5
<1> DEFINE h == [t \in SUBSET s |->
                   IF x \in t THEN w[x] + g[t \ {x}] ELSE g[t]]
<1>7. \A t \in SUBSET s : t \ {x} \in SUBSET (s \ {x})
  OBVIOUS
<1>8. h \in [SUBSET s -> Int] /\ h[{}] = 0
  BY <1>5, <1>6, <1>7 DEF Sums
<1>9. ASSUME NEW t \in SUBSET s, NEW y \in t
      PROVE  h[t] = w[y] + h[t \ {y}]
  <2>1. CASE y = x
    BY <2>1, <1>9
  <2>2. CASE y # x /\ x \notin t
    <3>1. t \in SUBSET (s \ {x}) /\ t \ {y} \in SUBSET s
      BY <2>2
    <3>2. h[t] = g[t] /\ h[t \ {y}] = g[t \ {y}]
      BY <2>2, <3>1
    <3> QED
      BY <1>6, <3>1, <3>2, <1>9 DEF Sums
  <2>3. CASE y # x /\ x \in t
    <3> DEFINE u == t \ {x}
    <3>1. u \in SUBSET (s \ {x}) /\ y \in u /\ u \ {y} \in SUBSET (s \ {x})
      BY <2>3
    <3>2. g[u] = w[y] + g[u \ {y}] /\ g[u \ {y}] \in Int
      BY <1>6, <3>1 DEF Sums
    <3>3. h[t] = w[x] + g[u]
      BY <2>3
    <3>4. h[t \ {y}] = w[x] + g[u \ {y}]
      <4>1. (t \ {y}) \ {x} = u \ {y} /\ x \in t \ {y} /\ t \ {y} \in SUBSET s
        BY <2>3
      <4> QED
        BY <4>1
    <3>5. w[x] \in Int /\ w[y] \in Int
      BY <1>5, <1>9
    <3> HIDE DEF h, u
    <3> QED
      BY <3>2, <3>3, <3>4, <3>5, SMT
  <2> QED
    BY <2>1, <2>2, <2>3
<1> HIDE DEF h
<1>10. Sums(h, w, s)
  BY <1>8, <1>9 DEF Sums
<1> QED
  BY <1>2, <1>10

(* What the library's recursive sum computes, in any order. *)
LEMMA SumSolved ==
    ASSUME NEW f, NEW S, IsFiniteSet(S), \A x \in S : f[x] \in Int
    PROVE  \E g : Sums(g, f, S) /\ SumFunctionOnSet(f, S) = g[S]
<1> DEFINE step(g) == [s \in SUBSET S |->
                         IF s = {} THEN 0 ELSE f[Pick(s)] + g[s \ {Pick(s)}]]
           iter == CHOOSE g : g = step(g)
<1>1. SumFunctionOnSet(f, S) = iter[S]
  BY DEF SumFunctionOnSet, FoldFunctionOnSet, MapThenFoldSet, Pick
<1>2. PICK g : Sums(g, f, S)
  BY SumsExist
<1>3. \A s \in SUBSET S : s # {} => Pick(s) \in s
  BY DEF Pick
<1>4. g = step(g)
  BY <1>2, <1>3 DEF Sums
<1>5. iter = step(iter)
  BY <1>4
<1> HIDE DEF iter
<1>6. iter = g
  <2> DEFINE B == {s \in SUBSET S : iter[s] # g[s]}
  <2>1. SUFFICES ASSUME B # {} PROVE FALSE
    BY <1>4, <1>5
  <2>2. PICK s \in B : \A t \in B : ~ (t \subseteq s /\ t # s)
    <3>1. B \in SUBSET (SUBSET S)
      OBVIOUS
    <3> HIDE DEF B
    <3> QED
      BY <2>1, <3>1, LeastSubset
  <2>3. s \in SUBSET S /\ iter[s] # g[s] /\ s # {}
    BY <1>4, <1>5, <2>2
  <2>4. PICK x : x = Pick(s)
    OBVIOUS
  <2>5. x \in s
    BY <1>3, <2>3, <2>4
  <2>6. iter[s \ {x}] = g[s \ {x}]
    BY <2>2, <2>3, <2>5
  <2>7. iter[s] = f[x] + iter[s \ {x}]
    BY <1>5, <2>3, <2>4
  <2>8. g[s] = f[x] + g[s \ {x}]
    BY <1>4, <2>3, <2>4
  <2> QED
    BY <2>3, <2>6, <2>7, <2>8
<1> QED
  BY <1>1, <1>2, <1>6

(* The sum over a subset is the value of the same solution. *)
LEMMA SumOfSubset ==
    ASSUME NEW f, NEW S, IsFiniteSet(S), \A x \in S : f[x] \in Int,
           NEW g, Sums(g, f, S), NEW T \in SUBSET S
    PROVE  SumFunctionOnSet(f, T) = g[T]
<1> DEFINE r == [s \in SUBSET T |-> g[s]]
<1>1. IsFiniteSet(T)
  BY FS_Subset
<1>2. PICK h : Sums(h, f, T) /\ SumFunctionOnSet(f, T) = h[T]
  BY <1>1, SumSolved
<1>3. \A s \in SUBSET T : \A x \in s : s \in SUBSET S /\ s \ {x} \in SUBSET T
  OBVIOUS
<1>4. Sums(r, f, T)
  BY <1>3 DEF Sums
<1>5. r[T] = g[T]
  OBVIOUS
<1> HIDE DEF r
<1> QED
  BY <1>1, <1>2, <1>4, <1>5, SumsUnique

LEMMA SumEmpty ==
    ASSUME NEW f
    PROVE  SumFunctionOnSet(f, {}) = 0
<1>1. PICK g : Sums(g, f, {}) /\ SumFunctionOnSet(f, {}) = g[{}]
  BY FS_EmptySet, SumSolved
<1> QED
  BY <1>1 DEF Sums

LEMMA SumRemove ==
    ASSUME NEW f, NEW S, IsFiniteSet(S), \A x \in S : f[x] \in Int, NEW x \in S
    PROVE  /\ SumFunctionOnSet(f, S) \in Int
           /\ SumFunctionOnSet(f, S \ {x}) \in Int
           /\ SumFunctionOnSet(f, S) = f[x] + SumFunctionOnSet(f, S \ {x})
<1>1. PICK g : Sums(g, f, S) /\ SumFunctionOnSet(f, S) = g[S]
  BY SumSolved
<1>2. S \ {x} \in SUBSET S
  OBVIOUS
<1>3. SumFunctionOnSet(f, S \ {x}) = g[S \ {x}]
  BY <1>1, <1>2, SumOfSubset
<1> QED
  BY <1>1, <1>2, <1>3 DEF Sums

LEMMA SumType ==
    ASSUME NEW f, NEW S, IsFiniteSet(S), \A x \in S : f[x] \in Int
    PROVE  SumFunctionOnSet(f, S) \in Int
<1>1. PICK g : Sums(g, f, S) /\ SumFunctionOnSet(f, S) = g[S]
  BY SumSolved
<1> QED
  BY <1>1 DEF Sums

(* The sum depends on the values of the set only. *)
LEMMA SumSame ==
    ASSUME NEW f, NEW h, NEW S, IsFiniteSet(S),
           \A x \in S : f[x] \in Int /\ h[x] = f[x]
    PROVE  SumFunctionOnSet(h, S) = SumFunctionOnSet(f, S)
<1>1. PICK g : Sums(g, f, S) /\ SumFunctionOnSet(f, S) = g[S]
  BY SumSolved
<1>2. PICK k : Sums(k, h, S) /\ SumFunctionOnSet(h, S) = k[S]
  BY SumSolved
<1>3. Sums(k, f, S)
  BY <1>2 DEF Sums
<1> QED
  BY <1>1, <1>2, <1>3, SumsUnique

(* More positive values add up to more. *)
LEMMA SumGrows ==
    ASSUME NEW f, NEW S, IsFiniteSet(S), \A x \in S : f[x] \in Nat \ {0},
           NEW T \in SUBSET S, T # S
    PROVE  SumFunctionOnSet(f, T) < SumFunctionOnSet(f, S)
<1>1. PICK g : Sums(g, f, S)
  BY SumSolved
<1> DEFINE B == {s \in SUBSET S : T \subseteq s /\ ~ (g[T] <= g[s])}
<1>2. B = {}
  <2> SUFFICES ASSUME B # {} PROVE FALSE
    OBVIOUS
  <2>1. PICK s \in B : \A t \in B : ~ (t \subseteq s /\ t # s)
    <3>1. B \in SUBSET (SUBSET S)
      OBVIOUS
    <3> HIDE DEF B
    <3> QED
      BY <3>1, LeastSubset
  <2>2. s \in SUBSET S /\ T \subseteq s /\ ~ (g[T] <= g[s])
    BY <2>1
  <2>3. g[T] \in Int /\ g[s] \in Int
    BY <1>1, <2>2 DEF Sums
  <2>4. PICK x \in s : x \notin T
    <3>1. T # s
      BY <2>2, <2>3
    <3> QED
      BY <2>2, <3>1
  <2>5. s \ {x} \in SUBSET S /\ T \subseteq s \ {x} /\ s \ {x} # s
    BY <2>2, <2>4
  <2>6. g[T] <= g[s \ {x}]
    BY <2>1, <2>5
  <2>7. g[s] = f[x] + g[s \ {x}] /\ g[s \ {x}] \in Int /\ f[x] \in Nat
    BY <1>1, <2>2, <2>4, <2>5 DEF Sums
  <2> HIDE DEF B
  <2>8. g[T] <= g[s]
    BY <2>3, <2>6, <2>7
  <2> QED
    BY <2>2, <2>8
<1>3. PICK x \in S : x \notin T
  OBVIOUS
<1>4. S \ {x} \in SUBSET S /\ T \subseteq S \ {x} /\ S \in SUBSET S
  BY <1>3
<1>5. g[T] <= g[S \ {x}]
  BY <1>2, <1>4
<1> HIDE DEF B
<1>6. /\ g[S] = f[x] + g[S \ {x}] /\ g[S \ {x}] \in Int
      /\ g[T] \in Int /\ g[S] \in Int
  BY <1>1, <1>4 DEF Sums
<1>7. f[x] \in Nat \ {0}
  OBVIOUS
<1>8. g[T] < g[S]
  BY <1>5, <1>6, <1>7
<1>9. \A z \in S : f[z] \in Int
  OBVIOUS
<1>10. SumFunctionOnSet(f, T) = g[T] /\ SumFunctionOnSet(f, S) = g[S]
  BY <1>1, <1>4, <1>9, SumOfSubset
<1> QED
  BY <1>8, <1>10

-----------------------------------------------------------------------------
(* The split of a settlement. *)

LEMMA BpsPositive == Bps \in Nat \ {0}
BY DEF Bps

LEMMA BpsType ==
    ASSUME SplitAssumption, NEW r \in SplitRules
    PROVE  SplitRow[r].bps \in Nat /\ SplitRow[r].bps <= Bps
BY BpsPositive DEF SplitAssumption

LEMMA ShareType ==
    ASSUME SplitAssumption, NEW amount \in Nat, NEW r \in SplitRules
    PROVE  Share(amount, r) \in Nat
<1>1. PICK b \in Nat : b = SplitRow[r].bps
  BY BpsType
<1>2. 2 * amount * b \in Nat
  OBVIOUS
<1>3. PICK q \in Nat : q = (2 * amount * b) \div Bps
  BY <1>2, BpsPositive, DivisionBounds
<1>4. (q + 1) \div 2 \in Nat
  BY <1>3, Halves
<1> QED
  BY <1>1, <1>3, <1>4 DEF Share

LEMMA LargestIsOne ==
    ASSUME SplitAssumption, NEW rules \in SUBSET SplitRules, rules # {}
    PROVE  Largest(rules) \in rules
<1> DEFINE gaps == {Bps - SplitRow[r].bps : r \in rules}
<1>1. \A r \in rules : SplitRow[r].bps \in Nat /\ Bps - SplitRow[r].bps \in Nat
  BY BpsType, BpsPositive
<1>2. gaps \in SUBSET Nat /\ gaps # {}
  BY <1>1
<1>3. PICK m \in gaps : \A n \in gaps : m <= n
  BY <1>2, LeastFloor
<1>4. PICK r \in rules : m = Bps - SplitRow[r].bps
  BY <1>3
<1>5. \A q \in rules : SplitRow[q].bps <= SplitRow[r].bps
  <2> TAKE q \in rules
  <2>1. Bps - SplitRow[r].bps <= Bps - SplitRow[q].bps
    BY <1>3, <1>4
  <2> QED
    BY <1>1, <2>1, BpsPositive
<1> HIDE DEF gaps
<1> QED
  BY <1>5 DEF Largest

(* Whatever the rounding of the shares, the legs add up to the amount. *)
LEMMA AllocationsAddUp ==
    ASSUME SplitAssumption, NEW amount \in Nat,
           NEW rules \in SUBSET SplitRules, rules # {}, IsFiniteSet(rules)
    PROVE  /\ Allocations(amount, rules) \in [rules -> Int]
           /\ SumFunction(Allocations(amount, rules)) = amount
<1> DEFINE shares == [r \in rules |-> Share(amount, r)]
           legs == Allocations(amount, rules)
<1>1. PICK l \in rules : l = Largest(rules)
  BY LargestIsOne
<1>2. \A r \in rules : shares[r] \in Int
  BY ShareType
<1>3. PICK total \in Int : total = Distributed(amount, rules)
  <2>1. SumFunctionOnSet(shares, rules) \in Int
    BY <1>2, SumType
  <2>2. Distributed(amount, rules) = SumFunctionOnSet(shares, rules)
    BY DEF Distributed, SumFunction
  <2> QED
    BY <2>1, <2>2
<1>4. legs = [r \in rules |-> IF r = l THEN shares[r] + amount - total
                              ELSE shares[r]]
  BY <1>1, <1>3 DEF Allocations
<1>5. total = SumFunctionOnSet(shares, rules)
  BY <1>3 DEF Distributed, SumFunction
<1> HIDE DEF shares, legs
<1>6. /\ legs \in [rules -> Int] /\ legs[l] = shares[l] + amount - total
      /\ \A r \in rules \ {l} : legs[r] = shares[r]
  BY <1>2, <1>4
<1>7. /\ total = shares[l] + SumFunctionOnSet(shares, rules \ {l})
      /\ SumFunctionOnSet(shares, rules \ {l}) \in Int
  BY <1>2, <1>5, SumRemove
<1>8. SumFunctionOnSet(legs, rules) = legs[l] + SumFunctionOnSet(legs, rules \ {l})
  <2>1. \A r \in rules : legs[r] \in Int
    BY <1>6
  <2> QED
    BY <2>1, SumRemove
<1>9. SumFunctionOnSet(legs, rules \ {l}) = SumFunctionOnSet(shares, rules \ {l})
  <2>1. IsFiniteSet(rules \ {l})
    BY FS_RemoveElement
  <2>2. \A r \in rules \ {l} : shares[r] \in Int /\ legs[r] = shares[r]
    BY <1>2, <1>6
  <2> QED
    BY <2>1, <2>2, SumSame
<1>10. SumFunctionOnSet(legs, rules) = amount
  <2>1. PICK rest \in Int : rest = SumFunctionOnSet(shares, rules \ {l})
    BY <1>7
  <2>2. shares[l] \in Int
    BY <1>2
  <2>3. SumFunctionOnSet(legs, rules) = shares[l] + amount - total + rest
    BY <1>6, <1>8, <1>9, <2>1
  <2>4. total = shares[l] + rest
    BY <1>7, <2>1
  <2> QED
    BY <2>1, <2>2, <2>3, <2>4
<1>11. SumFunction(legs) = SumFunctionOnSet(legs, rules)
  BY <1>6 DEF SumFunction
<1> QED
  BY <1>6, <1>10, <1>11 DEF legs

-----------------------------------------------------------------------------
(* Remittance advices. *)

Agencies == {NoRule} \cup {SplitRow[r].agency : r \in SplitRules}

Legs == UNION {[rules -> Int] : rules \in SUBSET SplitRules}

AdviceRows == [request : AdviceRequests, allocations : Legs, agency : Agencies]

IssueRows ==
    [pc : {"new", "exact", "catchall", "agency", "insert", "refused", "failed",
           "conflict", "answered"},
     key : AdviceKeys \cup {NoRule}, request : AdviceRequests \cup {NoRule},
     rules : SUBSET SplitRules, agency : Agencies,
     answer : AdviceRows \cup {NoAdvice}]

ActiveRules == {r \in SplitRules : rule[r].state = "ACTIVE"}

OfOneLine(rules, request) ==
    \E line \in {request.line, CatchAll} :
       \A r \in rules : SplitRow[r].line = line

(* What an issuer relies on between its reads and its transaction: the rules *)
(* it read stay in force, and they divide the payment.                       *)
RulesOK(rules, request) ==
    /\ rules # {} /\ rules \subseteq ActiveRules
    /\ OfOneLine(rules, request)
    /\ \A r \in rules : Allocations(request.payment, rules)[r] >= 0

AdviceOK(a) ==
    /\ SumFunction(a.allocations) = a.request.payment
    /\ DOMAIN a.allocations \subseteq ActiveRules
    /\ \A r \in DOMAIN a.allocations : a.allocations[r] >= 0
    /\ OfOneLine(DOMAIN a.allocations, a.request)

IssueOK(call) ==
    /\ call.pc # "new" =>
          call.key \in AdviceKeys /\ call.request \in AdviceRequests
    /\ call.pc \in {"agency", "insert"} => RulesOK(call.rules, call.request)
    /\ call.pc = "answered" =>
          /\ call.answer = advice[call.key] /\ call.answer # NoAdvice
          /\ call.answer.request = call.request

SplitTypeOK ==
    /\ rule \in [SplitRules -> RowStates]
    /\ advice \in [AdviceKeys -> AdviceRows \cup {NoAdvice}]
    /\ issuer \in [Issuers -> IssueRows]

SplitInv ==
    /\ SplitTypeOK
    /\ \A r \in ActiveRules : InForce(rule[r])
    /\ IsFiniteSet(ActiveRules)
    /\ \A k \in AdviceKeys : advice[k] # NoAdvice => AdviceOK(advice[k])
    /\ \A i \in Issuers : IssueOK(issuer[i])

LEMMA SplitInitOK ==
    ASSUME SplitAssumption, OfficersAssumption, SplitInit
    PROVE  SplitInv
<1>1. /\ Seeded \in RowStates /\ Seeded.state = "ACTIVE" /\ InForce(Seeded)
      /\ NoState \in RowStates /\ NoState.state = "none"
  BY DEF OfficersAssumption, Seeded, NoState, Active, Draft, RowStates, InForce
<1>2. NewIssue \in IssueRows /\ NewIssue.pc = "new"
  BY DEF NewIssue, IssueRows, Agencies
<1>3. SplitTypeOK
  BY <1>1, <1>2 DEF SplitInit, SplitTypeOK
<1>4. ActiveRules = SeededRules /\ \A r \in ActiveRules : InForce(rule[r])
  BY <1>1 DEF SplitInit, ActiveRules, SplitAssumption
<1>5. IsFiniteSet(ActiveRules)
  BY <1>4 DEF SplitAssumption
<1>6. \A i \in Issuers : IssueOK(issuer[i])
  BY <1>2 DEF SplitInit, IssueOK
<1>7. \A k \in AdviceKeys : advice[k] = NoAdvice
  BY DEF SplitInit
<1> QED
  BY <1>3, <1>4, <1>5, <1>6, <1>7 DEF SplitInv

(* An officer's step: rows in force stay as they are. *)
LEMMA RuleStep ==
    ASSUME SplitInv, NEW r \in SplitRules, NEW new \in RowStates,
           rule[r].state # "ACTIVE", new.state = "ACTIVE" => InForce(new),
           rule' = [rule EXCEPT ![r] = new], UNCHANGED <<advice, issuer>>
    PROVE  SplitInv'
<1>1. /\ rule' \in [SplitRules -> RowStates] /\ rule'[r] = new
      /\ \A q \in SplitRules : q # r => rule'[q] = rule[q]
  BY DEF SplitInv, SplitTypeOK
<1>2. ActiveRules \subseteq ActiveRules' /\ ActiveRules' \subseteq ActiveRules \cup {r}
  BY <1>1 DEF ActiveRules
<1>3. \A q \in ActiveRules' : InForce(rule'[q])
  BY <1>1 DEF ActiveRules, SplitInv
<1>4. IsFiniteSet(ActiveRules')
  <2>1. IsFiniteSet(ActiveRules \cup {r})
    BY FS_AddElement DEF SplitInv
  <2> QED
    BY <1>2, <2>1, FS_Subset
<1>5. SplitTypeOK'
  BY <1>1 DEF SplitInv, SplitTypeOK
<1>6. ASSUME NEW k \in AdviceKeys, advice[k] # NoAdvice
      PROVE  AdviceOK(advice[k])'
  BY <1>2, <1>6 DEF SplitInv, AdviceOK
<1>7. ASSUME NEW i \in Issuers
      PROVE  IssueOK(issuer[i])'
  BY <1>2 DEF SplitInv, IssueOK, RulesOK
<1> QED
  BY <1>3, <1>4, <1>5, <1>6, <1>7 DEF SplitInv

LEMMA RuleActsOK ==
    ASSUME SplitInv, NEW o \in Officers, NEW r \in SplitRules,
           CreateSplitRule(o, r) \/ ActivateSplitRule(o, r)
    PROVE  SplitInv'
<1>1. PICK row \in RowStates : row = rule[r]
  BY DEF SplitInv, SplitTypeOK
<1>2. CASE CreateSplitRule(o, r)
  <2>1. Draft(o) \in RowStates /\ Draft(o).state = "DRAFT"
    BY DEF Draft, RowStates
  <2> QED
    BY <1>2, <2>1, RuleStep DEF CreateSplitRule
<1>3. CASE ActivateSplitRule(o, r)
  <2>1. row.state = "DRAFT" /\ row.maker # o
    BY <1>1, <1>3 DEF ActivateSplitRule, Activatable
  <2>2. Active(row, o) \in RowStates /\ InForce(Active(row, o))
    BY <1>1, <2>1 DEF Active, RowStates, InForce
  <2>3. /\ rule' = [rule EXCEPT ![r] = Active(row, o)]
        /\ UNCHANGED <<advice, issuer>>
    BY <1>1, <1>3 DEF ActivateSplitRule
  <2> QED
    BY <1>1, <2>1, <2>2, <2>3, RuleStep
<1> QED
  BY <1>2, <1>3

(* A step of a call that writes nothing. *)
LEMMA IssueStep ==
    ASSUME SplitInv, NEW i \in Issuers, NEW new \in IssueRows, IssueOK(new),
           issuer' = [issuer EXCEPT ![i] = new], UNCHANGED <<rule, advice>>
    PROVE  SplitInv'
<1>1. /\ issuer' \in [Issuers -> IssueRows] /\ issuer'[i] = new
      /\ \A j \in Issuers : j # i => issuer'[j] = issuer[j]
  BY DEF SplitInv, SplitTypeOK
<1>2. ActiveRules' = ActiveRules
  BY DEF ActiveRules
<1>3. ASSUME NEW call, IssueOK(call) PROVE IssueOK(call)'
  BY <1>2, <1>3 DEF IssueOK, RulesOK
<1>4. \A j \in Issuers : IssueOK(issuer'[j])
  BY <1>1 DEF SplitInv
<1>5. ASSUME NEW j \in Issuers PROVE IssueOK(issuer[j])'
  <2>1. PICK call : call = issuer'[j]
    OBVIOUS
  <2>2. IssueOK(call)'
    BY <1>3, <1>4, <2>1
  <2> QED
    BY <2>1, <2>2
<1>6. SplitTypeOK'
  BY <1>1 DEF SplitInv, SplitTypeOK
<1>7. ASSUME NEW k \in AdviceKeys, advice[k] # NoAdvice
      PROVE  AdviceOK(advice[k])'
  BY <1>2, <1>7 DEF SplitInv, AdviceOK
<1>8. \A r \in ActiveRules' : InForce(rule'[r])
  BY <1>2 DEF SplitInv
<1> QED
  BY <1>2, <1>5, <1>6, <1>7, <1>8 DEF SplitInv

(* The answer to a request whose key has an advice. *)
LEMMA AdviceReplayOK ==
    ASSUME SplitInv, NEW call \in IssueRows, NEW k \in AdviceKeys,
           call.key = k, call.request \in AdviceRequests, advice[k] # NoAdvice
    PROVE  ReplayAdvice(call, k) \in IssueRows /\ IssueOK(ReplayAdvice(call, k))
<1>1. advice[k] \in AdviceRows \cup {NoAdvice}
  BY DEF SplitInv, SplitTypeOK
<1>2. CASE advice[k].request = call.request
  BY <1>1, <1>2 DEF ReplayAdvice, IssueRows, IssueOK
<1>3. CASE advice[k].request # call.request
  BY <1>3 DEF ReplayAdvice, IssueRows, IssueOK
<1> QED
  BY <1>2, <1>3

LEMMA LookupAdviceOK ==
    ASSUME SplitInv, NEW i \in Issuers, NEW k \in AdviceKeys,
           NEW request \in AdviceRequests, LookupAdvice(i, k, request)
    PROVE  SplitInv'
<1> DEFINE call == [NewIssue EXCEPT !.key = k, !.request = request]
<1>1. /\ call \in IssueRows /\ call.key = k /\ call.request = request
      /\ [call EXCEPT !.pc = "exact"] \in IssueRows
      /\ IssueOK([call EXCEPT !.pc = "exact"])
  BY DEF NewIssue, IssueRows, IssueOK, Agencies
<1>2. /\ UNCHANGED <<rule, advice>>
      /\ issuer' = [issuer EXCEPT ![i] =
                      IF advice[k] # NoAdvice THEN ReplayAdvice(call, k)
                      ELSE [call EXCEPT !.pc = "exact"]]
  BY DEF LookupAdvice
<1> HIDE DEF call
<1>3. CASE advice[k] # NoAdvice
  BY <1>1, <1>2, <1>3, AdviceReplayOK, IssueStep
<1>4. CASE advice[k] = NoAdvice
  BY <1>1, <1>2, <1>4, IssueStep
<1> QED
  BY <1>3, <1>4

(* The rules of a line that were in force at the read. *)
LEMMA QueriedRules ==
    ASSUME NEW line, NEW day
    PROVE  /\ QuerySplitRules(line, day) \subseteq ActiveRules
           /\ \A r \in QuerySplitRules(line, day) : SplitRow[r].line = line
BY DEF QuerySplitRules, ActiveRules

LEMMA WithRulesOK ==
    ASSUME NEW call \in IssueRows, call.key \in AdviceKeys,
           call.request \in AdviceRequests,
           NEW line \in {call.request.line, CatchAll}, NEW rules,
           rules = QuerySplitRules(line, call.request.asOf)
    PROVE  WithRules(call, rules) \in IssueRows /\ IssueOK(WithRules(call, rules))
<1>1. rules \subseteq ActiveRules /\ rules \in SUBSET SplitRules
  BY QueriedRules DEF ActiveRules
<1>2. OfOneLine(rules, call.request)
  BY QueriedRules DEF OfOneLine
<1>3. CASE Splits(call.request.payment, rules)
  <2>1. RulesOK(rules, call.request)
    BY <1>1, <1>2, <1>3 DEF RulesOK, Splits
  <2>2. WithRules(call, rules) = [call EXCEPT !.rules = rules, !.pc = "agency"]
    BY <1>3 DEF WithRules
  <2> QED
    BY <1>1, <2>1, <2>2 DEF IssueRows, IssueOK
<1>4. CASE ~ Splits(call.request.payment, rules)
  <2>1. WithRules(call, rules) = [call EXCEPT !.rules = rules, !.pc = "refused"]
    BY <1>4 DEF WithRules
  <2> QED
    BY <1>1, <2>1 DEF IssueRows, IssueOK
<1> QED
  BY <1>3, <1>4

LEMMA ReadRulesOK ==
    ASSUME SplitInv, NEW i \in Issuers, ReadExactRules(i) \/ ReadCatchAllRules(i)
    PROVE  SplitInv'
<1>1. PICK call \in IssueRows : call = issuer[i]
  BY DEF SplitInv, SplitTypeOK
<1>2. call.pc \in {"exact", "catchall"}
  BY <1>1 DEF ReadExactRules, ReadCatchAllRules
<1>3. call.key \in AdviceKeys /\ call.request \in AdviceRequests
  BY <1>1, <1>2 DEF SplitInv, IssueOK
<1>4. UNCHANGED <<rule, advice>>
  BY DEF ReadExactRules, ReadCatchAllRules
<1>5. /\ [call EXCEPT !.pc = "catchall"] \in IssueRows
      /\ IssueOK([call EXCEPT !.pc = "catchall"])
  BY <1>3 DEF IssueRows, IssueOK
<1>6. PICK exact, rest :
         /\ exact = QuerySplitRules(call.request.line, call.request.asOf)
         /\ rest = QuerySplitRules(CatchAll, call.request.asOf)
  OBVIOUS
<1>7. \A rules \in {exact, rest} :
         WithRules(call, rules) \in IssueRows /\ IssueOK(WithRules(call, rules))
  BY <1>3, <1>6, WithRulesOK
<1>8. PICK new \in {[call EXCEPT !.pc = "catchall"], WithRules(call, exact),
                    WithRules(call, rest)} :
         issuer' = [issuer EXCEPT ![i] = new]
  <2>1. CASE ReadExactRules(i)
    BY <1>1, <1>6, <2>1 DEF ReadExactRules
  <2>2. CASE ReadCatchAllRules(i)
    BY <1>1, <1>6, <2>2 DEF ReadCatchAllRules
  <2> QED
    BY <2>1, <2>2
<1>9. new \in IssueRows /\ IssueOK(new)
  BY <1>5, <1>7, <1>8
<1> QED
  BY <1>4, <1>8, <1>9, IssueStep

LEMMA AgencyAndFailureOK ==
    ASSUME SplitInv, NEW i \in Issuers, ReadAgency(i) \/ IssueFails(i)
    PROVE  SplitInv'
<1>1. PICK call \in IssueRows : call = issuer[i]
  BY DEF SplitInv, SplitTypeOK
<1>2. IssueOK(call) /\ issuer \in [Issuers -> IssueRows]
  BY <1>1 DEF SplitInv, SplitTypeOK
<1>3. CASE ReadAgency(i)
  <2>1. PICK a \in AgencyNow(issuer[i].request) :
           issuer' = [issuer EXCEPT ![i].pc = "insert", ![i].agency = a]
    BY <1>3 DEF ReadAgency
  <2>2. a \in Agencies
    BY <2>1 DEF AgencyNow, Agencies, QuerySplitRules
  <2>3. call.pc = "agency" /\ UNCHANGED <<rule, advice>>
    BY <1>1, <1>3 DEF ReadAgency
  <2> DEFINE new == [call EXCEPT !.pc = "insert", !.agency = a]
  <2>4. new \in IssueRows /\ IssueOK(new)
    BY <1>2, <2>2, <2>3 DEF IssueRows, IssueOK
  <2>5. issuer' = [issuer EXCEPT ![i] = new]
    BY <1>1, <1>2, <2>1 DEF IssueRows
  <2> HIDE DEF new
  <2> QED
    BY <2>3, <2>4, <2>5, IssueStep
<1>4. CASE IssueFails(i)
  <2>1. /\ call.pc # "new" /\ UNCHANGED <<rule, advice>>
        /\ issuer' = [issuer EXCEPT ![i].pc = "failed"]
    BY <1>1, <1>4 DEF IssueFails
  <2> DEFINE new == [call EXCEPT !.pc = "failed"]
  <2>2. new \in IssueRows /\ IssueOK(new)
    BY <1>2, <2>1 DEF IssueRows, IssueOK
  <2>3. issuer' = [issuer EXCEPT ![i] = new]
    BY <1>1, <1>2, <2>1 DEF IssueRows
  <2> HIDE DEF new
  <2> QED
    BY <2>1, <2>2, <2>3, IssueStep
<1> QED
  BY <1>3, <1>4

(* The transaction that stores an advice. *)
LEMMA InsertOK ==
    ASSUME SplitAssumption, SplitInv, NEW i \in Issuers, IssueRemittanceAdvice(i)
    PROVE  SplitInv'
<1>1. PICK call \in IssueRows : call = issuer[i]
  BY DEF SplitInv, SplitTypeOK
<1>2. /\ call.pc = "insert" /\ IssueOK(call) /\ UNCHANGED rule
      /\ issuer \in [Issuers -> IssueRows]
      /\ advice \in [AdviceKeys -> AdviceRows \cup {NoAdvice}]
  BY <1>1 DEF IssueRemittanceAdvice, SplitInv, SplitTypeOK
<1>3. PICK k \in AdviceKeys, request \in AdviceRequests, rules \in SUBSET SplitRules :
         k = call.key /\ request = call.request /\ rules = call.rules
  BY <1>2 DEF IssueOK, IssueRows
<1>4. RulesOK(rules, request)
  BY <1>2, <1>3 DEF IssueOK
<1> DEFINE legs == Allocations(request.payment, rules)
           computed == [request |-> request, allocations |-> legs,
                        agency |-> call.agency]
<1>5. CASE advice[k] # NoAdvice
  <2>1. /\ issuer' = [issuer EXCEPT ![i] = ReplayAdvice(call, k)]
        /\ UNCHANGED <<rule, advice>>
    BY <1>1, <1>2, <1>3, <1>5 DEF IssueRemittanceAdvice
  <2>2. ReplayAdvice(call, k) \in IssueRows /\ IssueOK(ReplayAdvice(call, k))
    BY <1>3, <1>5, AdviceReplayOK
  <2> QED
    BY <2>1, <2>2, IssueStep
<1>6. CASE advice[k] = NoAdvice
  <2>1. PICK new \in ToldAdvice(call, computed) :
           /\ advice' = [advice EXCEPT ![k] = computed]
           /\ issuer' = [issuer EXCEPT ![i] = new]
    BY <1>1, <1>3, <1>6 DEF IssueRemittanceAdvice
  <2>2. /\ legs \in [rules -> Int] /\ SumFunction(legs) = request.payment
    <3>1. request.payment \in Nat
      BY DEF SplitAssumption
    <3>2. IsFiniteSet(rules) /\ rules # {}
      BY <1>4, FS_Subset DEF RulesOK, SplitInv
    <3> QED
      BY <3>1, <3>2, AllocationsAddUp
  <2>3. \A r \in rules : legs[r] >= 0
    BY <1>4 DEF RulesOK
  <2> HIDE DEF legs
  <2>4. /\ computed \in AdviceRows /\ computed # NoAdvice
        /\ computed.request = request /\ computed.allocations = legs
    <3>1. call.agency \in Agencies
      BY DEF IssueRows
    <3>2. legs \in Legs
      BY <2>2 DEF Legs
    <3> QED
      BY <3>1, <3>2 DEF AdviceRows, NoAdvice, SplitAssumption
  <2> HIDE DEF computed
  <2>5. ActiveRules' = ActiveRules
    BY <1>2 DEF ActiveRules
  <2>6. AdviceOK(computed)
    BY <1>4, <2>2, <2>3, <2>4 DEF AdviceOK, RulesOK
  <2>7. /\ advice' \in [AdviceKeys -> AdviceRows \cup {NoAdvice}]
        /\ advice'[k] = computed
        /\ \A j \in AdviceKeys : j # k => advice'[j] = advice[j]
    BY <1>2, <2>1, <2>4
  <2>8. /\ new \in IssueRows /\ new.pc \in {"answered", "failed"}
        /\ new.pc = "answered" => new.answer = computed
        /\ new.key = k /\ new.request = request
    BY <1>3, <2>4 DEF IssueRows, ToldAdvice
  <2>10. /\ issuer' \in [Issuers -> IssueRows] /\ issuer'[i] = new
         /\ \A j \in Issuers : j # i => issuer'[j] = issuer[j]
    BY <1>2, <2>1, <2>8
  <2>11. SplitTypeOK'
    BY <1>2, <2>7, <2>10 DEF SplitInv, SplitTypeOK
  <2>12. ASSUME NEW a, AdviceOK(a) PROVE AdviceOK(a)'
    BY <2>5, <2>12 DEF AdviceOK
  <2>13. ASSUME NEW j \in AdviceKeys, advice'[j] # NoAdvice
         PROVE  AdviceOK(advice[j])'
    <3>1. PICK a : a = advice'[j]
      OBVIOUS
    <3>2. AdviceOK(a)
      BY <2>6, <2>7, <2>13, <3>1 DEF SplitInv
    <3> QED
      BY <2>12, <3>1, <3>2
  <2>14. ASSUME NEW j \in Issuers PROVE IssueOK(issuer[j])'
    <3>1. PICK other \in IssueRows : other = issuer'[j]
      BY <2>10
    <3>2. CASE j = i
      BY <2>7, <2>8, <2>4, <2>10, <3>1, <3>2 DEF IssueOK
    <3>3. CASE j # i
      <4>1. IssueOK(other)
        BY <2>10, <3>1, <3>3 DEF SplitInv
      <4>2. other.pc = "answered" => advice'[other.key] = advice[other.key]
        BY <1>6, <2>7, <4>1 DEF IssueOK
      <4>3. IssueOK(other)'
        BY <2>5, <4>1, <4>2 DEF IssueOK, RulesOK
      <4> QED
        BY <3>1, <4>3
    <3> QED
      BY <3>2, <3>3
  <2> QED
    BY <1>2, <2>5, <2>11, <2>13, <2>14 DEF SplitInv
<1> QED
  BY <1>5, <1>6

LEMMA SplitInvariant == SplitSpec => []SplitInv
<1>1. SplitInit => SplitInv
  BY SplitAssumption, OfficersAssumption, SplitInitOK
<1>2. SplitInv /\ [SplitNext]_splitVars => SplitInv'
  <2>1. ASSUME SplitInv, SplitNext PROVE SplitInv'
    BY <2>1, SplitAssumption, RuleActsOK, LookupAdviceOK, ReadRulesOK,
       AgencyAndFailureOK, InsertOK DEF SplitNext, IssuerActs
  <2>2. ASSUME SplitInv, UNCHANGED splitVars PROVE SplitInv'
    <3>1. UNCHANGED <<rule, advice, issuer>>
      BY <2>2 DEF splitVars
    <3> QED
      BY <2>2, <3>1 DEF SplitInv, SplitTypeOK, ActiveRules, AdviceOK, IssueOK,
                        RulesOK
  <2> QED
    BY <2>1, <2>2
<1> QED
  BY <1>1, <1>2, PTL DEF SplitSpec

(* For any payments, rules, keys, issuers and officers: the legs of every    *)
(* advice add up to the payment and none is negative, whatever the rounding  *)
(* (revenue/split.go ComputeSplit), all on rules of one line that two        *)
(* officers put in force, and one key has one answer (split_store.go         *)
(* IssueRemittanceAdvice).                                                   *)
THEOREM SplitCorrect == SplitSpec => []EveryMinorUnitIsAllocated
<1>1. SplitInv => EveryMinorUnitIsAllocated
  <2> SUFFICES ASSUME SplitInv PROVE EveryMinorUnitIsAllocated
    OBVIOUS
  <2>1. ASSUME NEW k \in AdviceKeys, advice[k] # NoAdvice
        PROVE  LET legs == advice[k].allocations
               IN /\ SumFunction(legs) = advice[k].request.payment
                  /\ \A r \in DOMAIN legs : legs[r] >= 0 /\ InForce(rule[r])
                  /\ \E line \in {advice[k].request.line, CatchAll} :
                       \A r \in DOMAIN legs : SplitRow[r].line = line
    <3>1. AdviceOK(advice[k])
      BY <2>1 DEF SplitInv
    <3> QED
      BY <3>1 DEF AdviceOK, OfOneLine, SplitInv
  <2>2. ASSUME NEW i \in Issuers, issuer[i].pc = "answered"
        PROVE  /\ issuer[i].answer = advice[issuer[i].key]
               /\ issuer[i].answer.request = issuer[i].request
    BY <2>2 DEF SplitInv, IssueOK
  <2> QED
    BY <2>1, <2>2 DEF EveryMinorUnitIsAllocated
<1> QED
  BY <1>1, SplitInvariant, PTL

-----------------------------------------------------------------------------
(* An advice is issued once. *)

IssuerAnswers ==
    [i \in Issuers |-> IF issuer[i].pc = "answered" THEN issuer[i].answer
                       ELSE NoAdvice]

Advices == INSTANCE AnswerOnce WITH
    Keys <- AdviceKeys, Callers <- Issuers, None <- NoAdvice,
    stored <- advice, answer <- IssuerAnswers

LEMMA OneIssuerAnswer ==
    ASSUME SplitTypeOK, NEW i \in Issuers, NEW new,
           issuer[i].pc # "answered", issuer' = [issuer EXCEPT ![i] = new]
    PROVE  /\ IssuerAnswers[i] = NoAdvice
           /\ new.pc # "answered" => IssuerAnswers' = IssuerAnswers
           /\ new.pc = "answered" =>
                IssuerAnswers' = [IssuerAnswers EXCEPT ![i] = new.answer]
<1>1. /\ issuer'[i] = new
      /\ \A j \in Issuers : j # i => issuer'[j] = issuer[j]
  BY DEF SplitTypeOK
<1>2. IssuerAnswers[i] = NoAdvice
  BY DEF IssuerAnswers
<1>3. /\ IssuerAnswers' = [j \in Issuers |-> IssuerAnswers'[j]]
      /\ IssuerAnswers = [j \in Issuers |-> IssuerAnswers[j]]
      /\ IssuerAnswers'[i] = IF new.pc = "answered" THEN new.answer ELSE NoAdvice
      /\ \A j \in Issuers : j # i => IssuerAnswers'[j] = IssuerAnswers[j]
  BY <1>1 DEF IssuerAnswers
<1>4. CASE new.pc # "answered"
  <2>1. \A j \in Issuers : IssuerAnswers'[j] = IssuerAnswers[j]
    BY <1>2, <1>3, <1>4
  <2> QED
    BY <1>2, <1>3, <1>4, <2>1
<1>5. CASE new.pc = "answered"
  BY <1>2, <1>3, <1>5
<1> QED
  BY <1>2, <1>4, <1>5

LEMMA AdviceReplayRefines ==
    ASSUME SplitTypeOK, NEW i \in Issuers, NEW call \in IssueRows,
           NEW k \in AdviceKeys, advice[k] # NoAdvice, call.pc # "answered",
           issuer[i].pc # "answered",
           issuer' = [issuer EXCEPT ![i] = ReplayAdvice(call, k)],
           UNCHANGED advice
    PROVE  [Advices!Next]_<<advice, IssuerAnswers>>
<1>1. PICK new : new = ReplayAdvice(call, k)
  OBVIOUS
<1>2. /\ IssuerAnswers[i] = NoAdvice
      /\ new.pc # "answered" => IssuerAnswers' = IssuerAnswers
      /\ new.pc = "answered" =>
           IssuerAnswers' = [IssuerAnswers EXCEPT ![i] = new.answer]
  BY <1>1, OneIssuerAnswer
<1>3. new.pc = "answered" => new.answer = advice[k]
  BY <1>1 DEF ReplayAdvice, IssueRows
<1>4. CASE new.pc = "answered"
  <2>1. Advices!AnswerStored(i, k)
    BY <1>2, <1>3, <1>4 DEF Advices!AnswerStored
  <2> QED
    BY <2>1 DEF Advices!Next
<1>5. CASE new.pc # "answered"
  BY <1>2, <1>5
<1> QED
  BY <1>4, <1>5

LEMMA InsertRefines ==
    ASSUME SplitAssumption, SplitInv, NEW i \in Issuers, IssueRemittanceAdvice(i)
    PROVE  [Advices!Next]_<<advice, IssuerAnswers>>
<1>1. PICK call \in IssueRows : call = issuer[i]
  BY DEF SplitInv, SplitTypeOK
<1>2. /\ call.pc = "insert" /\ IssueOK(call) /\ SplitTypeOK
      /\ issuer \in [Issuers -> IssueRows]
      /\ advice \in [AdviceKeys -> AdviceRows \cup {NoAdvice}]
  BY <1>1 DEF IssueRemittanceAdvice, SplitInv, SplitTypeOK
<1>3. PICK k \in AdviceKeys, request \in AdviceRequests :
         k = call.key /\ request = call.request
  BY <1>2 DEF IssueOK
<1>4. CASE advice[k] # NoAdvice
  <2>1. /\ issuer' = [issuer EXCEPT ![i] = ReplayAdvice(call, k)]
        /\ UNCHANGED advice
    BY <1>1, <1>3, <1>4 DEF IssueRemittanceAdvice
  <2> QED
    BY <1>1, <1>2, <1>4, <2>1, AdviceReplayRefines
<1>5. CASE advice[k] = NoAdvice
  <2> DEFINE computed == [request |-> request,
                          allocations |-> Allocations(request.payment, call.rules),
                          agency |-> call.agency]
  <2>1. PICK told \in ToldAdvice(call, computed) :
           /\ advice' = [advice EXCEPT ![k] = computed]
           /\ issuer' = [issuer EXCEPT ![i] = told]
    BY <1>1, <1>3, <1>5 DEF IssueRemittanceAdvice
  <2>2. computed # NoAdvice
    <3>1. computed.request # NoRule
      BY DEF SplitAssumption
    <3> QED
      BY <3>1 DEF NoAdvice
  <2> HIDE DEF computed
  <2>3. told.pc = "answered" => told.answer = computed
    BY <2>1 DEF IssueRows, ToldAdvice
  <2>4. /\ IssuerAnswers[i] = NoAdvice
        /\ \/ IssuerAnswers' = [IssuerAnswers EXCEPT ![i] = computed]
           \/ IssuerAnswers' = IssuerAnswers
    <3>1. issuer[i].pc # "answered"
      BY <1>1, <1>2
    <3>2. CASE told.pc = "answered"
      <4>1. /\ IssuerAnswers[i] = NoAdvice
            /\ IssuerAnswers' = [IssuerAnswers EXCEPT ![i] = told.answer]
        BY <1>2, <2>1, <3>1, <3>2, OneIssuerAnswer
      <4> QED
        BY <2>3, <3>2, <4>1
    <3>3. CASE told.pc # "answered"
      BY <1>2, <2>1, <3>1, <3>3, OneIssuerAnswer
    <3> QED
      BY <3>2, <3>3
  <2>5. advice'[k] = computed
    BY <1>2, <2>1
  <2>6. Advices!StoreResult(i, k) \/ Advices!StoreUnheard(k)
    BY <1>5, <2>1, <2>2, <2>4, <2>5
    DEF Advices!StoreResult, Advices!StoreUnheard, Advices!Store
  <2> QED
    BY <2>6 DEF Advices!Next
<1> QED
  BY <1>4, <1>5

(* The reads of a call, and its failure, answer nobody. *)
LEMMA IssueReadsRefine ==
    ASSUME SplitTypeOK, NEW i \in Issuers,
           \/ ReadExactRules(i) \/ ReadCatchAllRules(i)
           \/ ReadAgency(i) \/ IssueFails(i)
    PROVE  UNCHANGED <<advice, IssuerAnswers>>
<1>1. issuer[i].pc # "answered" /\ UNCHANGED advice
  BY DEF ReadExactRules, ReadCatchAllRules, ReadAgency, IssueFails
<1>2. PICK call \in IssueRows : call = issuer[i]
  BY DEF SplitTypeOK
<1>3. PICK new : issuer' = [issuer EXCEPT ![i] = new] /\ new.pc # "answered"
  <2>1. \A rules : WithRules(call, rules).pc \in {"agency", "refused"}
    BY DEF WithRules, IssueRows
  <2>2. CASE ReadExactRules(i)
    <3> DEFINE exact == QuerySplitRules(call.request.line, call.request.asOf)
               new == IF exact = {} THEN [call EXCEPT !.pc = "catchall"]
                      ELSE WithRules(call, exact)
    <3>1. issuer' = [issuer EXCEPT ![i] = new]
      BY <1>2, <2>2 DEF ReadExactRules
    <3>2. [call EXCEPT !.pc = "catchall"].pc = "catchall"
      BY DEF IssueRows
    <3> HIDE DEF exact
    <3>3. new.pc # "answered"
      BY <2>1, <3>2
    <3> QED
      BY <3>1, <3>3
  <2>3. CASE ReadCatchAllRules(i)
    BY <1>2, <2>1, <2>3 DEF ReadCatchAllRules
  <2>4. CASE ReadAgency(i)
    <3>1. PICK a : issuer' = [issuer EXCEPT ![i].pc = "insert", ![i].agency = a]
      BY <2>4 DEF ReadAgency
    <3> DEFINE new == [call EXCEPT !.pc = "insert", !.agency = a]
    <3>2. issuer' = [issuer EXCEPT ![i] = new]
      BY <1>2, <3>1 DEF SplitTypeOK
    <3>3. new.pc = "insert"
      BY DEF IssueRows
    <3> QED
      BY <3>2, <3>3
  <2>5. CASE IssueFails(i)
    <3> DEFINE new == [call EXCEPT !.pc = "failed"]
    <3>1. issuer' = [issuer EXCEPT ![i] = new]
      BY <1>2, <2>5 DEF IssueFails, SplitTypeOK
    <3>2. new.pc = "failed"
      BY DEF IssueRows
    <3> QED
      BY <3>1, <3>2
  <2> QED
    BY <2>2, <2>3, <2>4, <2>5
<1> QED
  BY <1>1, <1>3, OneIssuerAnswer

LEMMA LookupAdviceRefines ==
    ASSUME SplitTypeOK, NEW i \in Issuers, NEW k \in AdviceKeys,
           NEW request \in AdviceRequests, LookupAdvice(i, k, request)
    PROVE  [Advices!Next]_<<advice, IssuerAnswers>>
<1> DEFINE call == [NewIssue EXCEPT !.key = k, !.request = request]
           next == [call EXCEPT !.pc = "exact"]
<1>1. call \in IssueRows /\ call.pc = "new" /\ next.pc = "exact"
  BY DEF NewIssue, IssueRows, Agencies
<1>2. /\ issuer[i].pc # "answered" /\ UNCHANGED advice
      /\ issuer' = [issuer EXCEPT ![i] =
                      IF advice[k] # NoAdvice THEN ReplayAdvice(call, k) ELSE next]
  BY DEF LookupAdvice
<1> HIDE DEF call, next
<1>3. CASE advice[k] # NoAdvice
  BY <1>1, <1>2, <1>3, AdviceReplayRefines
<1>4. CASE advice[k] = NoAdvice
  BY <1>1, <1>2, <1>4, OneIssuerAnswer
<1> QED
  BY <1>3, <1>4

(* For any rules, payments, keys, issuers and officers: however the calls of *)
(* issuers race, a key gets one remittance advice, which never changes, and  *)
(* each call gets that one or none, the call that stored it too              *)
(* (revenue/split_store.go IssueRemittanceAdvice).                           *)
THEOREM AdvicesRefine == SplitSpec => Advices!Spec
<1>1. SplitInit => Advices!Init
  <2> SUFFICES ASSUME SplitInit PROVE Advices!Init
    OBVIOUS
  <2>1. \A i \in Issuers : issuer[i].pc = "new"
    BY DEF SplitInit, NewIssue
  <2> QED
    BY <2>1 DEF SplitInit, Advices!Init, IssuerAnswers
<1>2. SplitInv /\ [SplitNext]_splitVars => [Advices!Next]_<<advice, IssuerAnswers>>
  <2> SUFFICES ASSUME SplitInv, [SplitNext]_splitVars
               PROVE  [Advices!Next]_<<advice, IssuerAnswers>>
    OBVIOUS
  <2>1. SplitTypeOK /\ SplitAssumption
    BY SplitAssumption DEF SplitInv
  <2>2. CASE UNCHANGED <<advice, issuer>>
    BY <2>2 DEF IssuerAnswers
  <2>3. CASE \E o \in Officers, r \in SplitRules :
               CreateSplitRule(o, r) \/ ActivateSplitRule(o, r)
    BY <2>2, <2>3 DEF CreateSplitRule, ActivateSplitRule
  <2>4. ASSUME NEW i \in Issuers, IssuerActs(i)
        PROVE  [Advices!Next]_<<advice, IssuerAnswers>>
    BY <2>1, <2>4, LookupAdviceRefines, IssueReadsRefine, InsertRefines
       DEF IssuerActs
  <2>5. CASE UNCHANGED splitVars
    BY <2>2, <2>5 DEF splitVars
  <2> QED
    BY <2>3, <2>4, <2>5 DEF SplitNext
<1> QED
  BY <1>1, <1>2, SplitInvariant, PTL DEF SplitSpec, Advices!Spec

-----------------------------------------------------------------------------
(* The general ledger. *)

LEMMA TotalType ==
    ASSUME GlAssumption, NEW records \in SUBSET Records, IsFiniteSet(records)
    PROVE  Total(records) \in Int
<1>1. \A x \in records : AmountOf[x] \in Int
  BY DEF GlAssumption
<1> QED
  BY <1>1, SumType DEF Total

(* Two sets of which one holds the other have equal totals only if they are  *)
(* equal: amounts are positive.                                              *)
LEMMA EqualTotals ==
    ASSUME GlAssumption, NEW A \in SUBSET Records, NEW B \in SUBSET Records,
           IsFiniteSet(A), IsFiniteSet(B), A \subseteq B \/ B \subseteq A,
           Total(A) = Total(B)
    PROVE  A = B
<1>1. \A x \in A \cup B : AmountOf[x] \in Nat \ {0}
  BY DEF GlAssumption
<1>2. Total(A) \in Int /\ Total(B) \in Int
  BY TotalType
<1>3. CASE A \subseteq B /\ A # B
  <2>1. Total(A) < Total(B)
    BY <1>1, <1>3, SumGrows DEF Total
  <2> QED
    BY <1>2, <2>1
<1>4. CASE B \subseteq A /\ A # B
  <2>1. Total(B) < Total(A)
    BY <1>1, <1>4, SumGrows DEF Total
  <2> QED
    BY <1>2, <2>1
<1> QED
  BY <1>3, <1>4

(* A sum over the three accounts. *)
LEMMA ThreeAccounts ==
    ASSUME NEW f, \A a \in Accounts : f[a] \in Int, DOMAIN f = Accounts
    PROVE  SumFunction(f) = f["TSA"] + (f["REVENUE"] + f["CVFF:EXPENSE"])
<1> DEFINE one == {"CVFF:EXPENSE"}
           two == {"REVENUE", "CVFF:EXPENSE"}
<1>1. Accounts = {"TSA"} \cup two
  BY DEF Accounts
<1>2. IsFiniteSet({}) /\ IsFiniteSet(one) /\ IsFiniteSet(two) /\ IsFiniteSet(Accounts)
  <2>1. IsFiniteSet({}) /\ IsFiniteSet(one)
    BY FS_EmptySet, FS_Singleton
  <2>2. two = one \cup {"REVENUE"} /\ Accounts = two \cup {"TSA"}
    BY DEF Accounts
  <2> HIDE DEF one, two
  <2>3. IsFiniteSet(two)
    BY <2>1, <2>2, FS_AddElement
  <2> QED
    BY <2>1, <2>2, <2>3, FS_AddElement
<1>3. Accounts \ {"TSA"} = two /\ two \ {"REVENUE"} = one /\ one \ {"CVFF:EXPENSE"} = {}
  BY DEF Accounts
<1>4. /\ "TSA" \in Accounts /\ "REVENUE" \in two /\ "CVFF:EXPENSE" \in one
      /\ one \subseteq two /\ two \subseteq Accounts
  BY DEF Accounts
<1> HIDE DEF one, two
<1>5. /\ SumFunctionOnSet(f, Accounts) = f["TSA"] + SumFunctionOnSet(f, two)
      /\ SumFunctionOnSet(f, two) = f["REVENUE"] + SumFunctionOnSet(f, one)
      /\ SumFunctionOnSet(f, one) = f["CVFF:EXPENSE"] + SumFunctionOnSet(f, {})
  <2>1. SumFunctionOnSet(f, Accounts) = f["TSA"] + SumFunctionOnSet(f, Accounts \ {"TSA"})
    BY <1>2, <1>4, SumRemove
  <2>2. SumFunctionOnSet(f, two) = f["REVENUE"] + SumFunctionOnSet(f, two \ {"REVENUE"})
    BY <1>2, <1>4, SumRemove
  <2>3. SumFunctionOnSet(f, one) =
           f["CVFF:EXPENSE"] + SumFunctionOnSet(f, one \ {"CVFF:EXPENSE"})
    BY <1>2, <1>4, SumRemove
  <2> QED
    BY <1>3, <2>1, <2>2, <2>3
<1>6. SumFunctionOnSet(f, {}) = 0
  BY SumEmpty
<1>7. f["CVFF:EXPENSE"] \in Int
  BY DEF Accounts
<1> QED
  BY <1>5, <1>6, <1>7 DEF SumFunction

(* Every record of the journal is debited and credited once. *)
LEMMA TrialBalances ==
    ASSUME GlAssumption, booked \in SUBSET Records, IsFiniteSet(booked), NEW p
    PROVE  /\ InBalance(TrialBalance(p))
           /\ TrialBalance(p)["REVENUE"].credit =
                 Total(JournalEntries("REVENUE", p).credit)
<1> DEFINE collected == During(booked \cap Settlements, DaysOf[p])
           paidOut == During(booked \cap Disbursements, DaysOf[p])
           debit == [a \in Accounts |-> TrialBalance(p)[a].debit]
           credit == [a \in Accounts |-> TrialBalance(p)[a].credit]
<1>1. During({}, DaysOf[p]) = {}
  BY DEF During
<1>2. PICK c \in Int, d \in Int, z \in Int :
         c = Total(collected) /\ d = Total(paidOut) /\ z = Total({})
  <2>1. /\ collected \in SUBSET Records /\ collected \subseteq booked
        /\ paidOut \in SUBSET Records /\ paidOut \subseteq booked
    BY DEF During
  <2> HIDE DEF collected, paidOut
  <2>2. IsFiniteSet(collected) /\ IsFiniteSet(paidOut) /\ IsFiniteSet({})
    BY <2>1, FS_Subset, FS_EmptySet
  <2> QED
    BY <2>1, <2>2, TotalType
<1>3. /\ JournalEntries("TSA", p) = [debit |-> collected, credit |-> paidOut]
      /\ JournalEntries("REVENUE", p) = [debit |-> {}, credit |-> collected]
      /\ JournalEntries("CVFF:EXPENSE", p) = [debit |-> paidOut, credit |-> {}]
  BY <1>1 DEF JournalEntries, Debits, Credits
<1> HIDE DEF collected, paidOut
<1>4. /\ debit["TSA"] = c /\ credit["TSA"] = d
      /\ debit["REVENUE"] = z /\ credit["REVENUE"] = c
      /\ debit["CVFF:EXPENSE"] = d /\ credit["CVFF:EXPENSE"] = z
  BY <1>2, <1>3 DEF TrialBalance, Accounts
<1>5. /\ \A a \in Accounts : debit[a] \in Int /\ credit[a] \in Int
      /\ DOMAIN debit = Accounts /\ DOMAIN credit = Accounts
  BY <1>2, <1>4 DEF Accounts
<1> HIDE DEF debit, credit
<1>6. /\ SumFunction(debit) = c + (z + d)
      /\ SumFunction(credit) = d + (c + z)
  BY <1>4, <1>5, ThreeAccounts
<1>7. SumFunction(debit) = SumFunction(credit)
  BY <1>2, <1>6
<1>8. InBalance(TrialBalance(p))
  BY <1>7 DEF InBalance, debit, credit
<1>9. TrialBalance(p)["REVENUE"].credit = Total(JournalEntries("REVENUE", p).credit)
  BY DEF TrialBalance, Accounts
<1> QED
  BY <1>8, <1>9

(* The collections of a period in the journal, and what calls and statements *)
(* hold of them.                                                             *)
Collected(p) == JournalEntries("REVENUE", p).credit

Held(call, p) ==
    IF /\ call.does \in {"open", "statement"}
       /\ call.account = "REVENUE" /\ call.period = p
    THEN {call.entries.credit}
    ELSE IF call.does = "recon" /\ call.period = p THEN {call.collected}
    ELSE {}

Kept(p) ==
    IF statement[<<"REVENUE", p>>] = NoExport THEN {}
    ELSE {statement[<<"REVENUE", p>>].entries.credit}

Seen(p) == Kept(p) \cup UNION {Held(desk[c], p) : c \in Desks}

(* Collections are only added: of two reads, the earlier one is contained in *)
(* the later one, and both in the journal of now.                            *)
ReadsNest ==
    \A p \in Periods : \A A, B \in Seen(p) :
       A \subseteq Collected(p) /\ (A \subseteq B \/ B \subseteq A)

DeskOK(call) ==
    /\ call.does \in {"nothing", "open", "statement", "payments", "close", "recon"}
    /\ call.does # "nothing" => call.period \in Periods
    /\ call.does \in {"open", "statement"} => call.account \in Accounts
    /\ call.does \in {"close", "recon"} => InBalance(call.balance)
    /\ call.does = "recon" =>
          call.balance["REVENUE"].credit = Total(call.collected)

BooksOK ==
    /\ booked \in SUBSET Records /\ IsFiniteSet(booked)
    /\ parked \in SUBSET Disbursements
    /\ statement = [id \in Accounts \X Periods |-> statement[id]]
    /\ close = [p \in Periods |-> close[p]]
    /\ desk = [c \in Desks |-> desk[c]]

StatementsOK ==
    \A p \in Periods :
       LET batch == statement[<<"REVENUE", p>>]
       IN batch # NoExport => batch.credit = Total(batch.entries.credit)

CloseOK ==
    \A p \in Periods :
       close[p].state = "CLOSED" =>
          close[p].checker # close[p].maker /\ InBalance(close[p].balance)

RunOK(run) ==
    /\ run.period \in Periods /\ InBalance(run.balance)
    /\ run.balanced /\ run.collected # {} =>
          LET batch == statement[<<"REVENUE", run.period>>]
          IN batch # NoExport /\ batch.entries.credit = run.collected

GlInv ==
    /\ BooksOK /\ ReadsNest /\ StatementsOK /\ CloseOK
    /\ \A c \in Desks : DeskOK(desk[c])
    /\ \A run \in runs : RunOK(run)

LEMMA FreeHoldsNothing ==
    /\ DeskOK(Free) /\ \A p : Held(Free, p) = {}
BY DEF DeskOK, Held, Free

LEMMA GlInitOK ==
    ASSUME GlInit
    PROVE  GlInv
<1>1. \A c \in Desks : desk[c] = Free
  BY DEF GlInit
<1>2. \A p \in Periods : statement[<<"REVENUE", p>>] = NoExport
  BY DEF GlInit, Accounts
<1>3. \A p \in Periods : close[p].state = "none"
  BY DEF GlInit, NoClose
<1>4. BooksOK
  <2>1. booked \in SUBSET Records /\ IsFiniteSet(booked) /\ parked \in SUBSET Disbursements
    BY FS_EmptySet DEF GlInit
  <2>2. statement = [id \in Accounts \X Periods |-> statement[id]]
    BY DEF GlInit
  <2>3. close = [p \in Periods |-> close[p]] /\ desk = [c \in Desks |-> desk[c]]
    BY DEF GlInit
  <2> QED
    BY <2>1, <2>2, <2>3 DEF BooksOK
<1>5. \A p \in Periods : Seen(p) = {}
  BY <1>1, <1>2, FreeHoldsNothing DEF Seen, Kept
<1>6. ReadsNest /\ StatementsOK /\ CloseOK
  BY <1>2, <1>3, <1>5 DEF ReadsNest, StatementsOK, CloseOK
<1>7. runs = {}
  BY DEF GlInit
<1> QED
  BY <1>1, <1>4, <1>6, <1>7, FreeHoldsNothing DEF GlInv

LEMMA ReadsStayNested ==
    ASSUME ReadsNest,
           \A p \in Periods : /\ Collected(p) \subseteq Collected(p)'
                              /\ Seen(p)' \subseteq Seen(p) \cup {Collected(p)}
    PROVE  ReadsNest'
BY DEF ReadsNest

LEMMA SameReads ==
    ASSUME ReadsNest, UNCHANGED <<booked, parked, statement, desk>>
    PROVE  ReadsNest'
<1>1. ASSUME NEW p \in Periods
      PROVE  Collected(p)' = Collected(p) /\ Seen(p)' = Seen(p)
  <2>1. Collected(p)' = Collected(p)
    BY DEF Collected, JournalEntries, Credits
  <2>2. Kept(p)' = Kept(p)
    BY DEF Kept
  <2>3. Seen(p)' = Seen(p)
    BY <2>2 DEF Seen, Held
  <2> QED
    BY <2>1, <2>3
<1> QED
  BY <1>1, ReadsStayNested

(* Collections and disbursements, while the export service is not looking. *)
LEMMA LedgerActsOK ==
    ASSUME GlInv,
           \/ \E x \in Settlements : Settle(x)
           \/ \E x \in Disbursements : Disburse(x) \/ Park(x) \/ Unpark(x)
    PROVE  GlInv'
<1>1. UNCHANGED <<statement, payments, close, runs, desk>>
  BY DEF Settle, Disburse, Park, Unpark, exportSide
<1>2. PICK x \in Records :
         \/ booked' = booked \cup {x}
         \/ booked' = booked \ {x} /\ x \in Disbursements /\ x \notin Settlements
  BY GlAssumption DEF Settle, Disburse, Park, Unpark, Records, GlAssumption
<1>3. parked' \in SUBSET Disbursements
  BY DEF Settle, Disburse, Park, Unpark, GlInv, BooksOK
<1>4. booked' \in SUBSET Records /\ booked \cap Settlements \subseteq booked'
  BY <1>2 DEF GlInv, BooksOK
<1>5. IsFiniteSet(booked')
  BY <1>2, FS_AddElement, FS_RemoveElement DEF GlInv, BooksOK
<1>6. BooksOK'
  BY <1>1, <1>3, <1>4, <1>5 DEF GlInv, BooksOK
<1>7. ASSUME NEW p \in Periods
      PROVE  Collected(p) \subseteq Collected(p)' /\ Seen(p)' = Seen(p)
  <2>1. Collected(p) \subseteq Collected(p)'
    BY <1>4 DEF Collected, JournalEntries, Credits, During
  <2>2. Kept(p)' = Kept(p)
    BY <1>1 DEF Kept
  <2>3. Seen(p)' = Seen(p)
    BY <1>1, <2>2 DEF Seen, Held
  <2> QED
    BY <2>1, <2>3
<1>8. ReadsNest'
  BY <1>7, ReadsStayNested DEF GlInv
<1>9. StatementsOK' /\ CloseOK'
  BY <1>1 DEF GlInv, StatementsOK, CloseOK
<1>10. /\ \A c \in Desks : DeskOK(desk'[c])
       /\ \A run \in runs' : RunOK(run)'
  BY <1>1 DEF GlInv, RunOK
<1>11. \A c \in Desks : DeskOK(desk[c])'
  BY <1>10 DEF DeskOK
<1> QED
  BY <1>6, <1>8, <1>9, <1>10, <1>11 DEF GlInv

(* A step of a desk that leaves the statements alone. *)
LEMMA DeskStep ==
    ASSUME GlInv, NEW c \in Desks, NEW call, DeskOK(call),
           \A p \in Periods : Held(call, p) \subseteq Seen(p) \cup {Collected(p)},
           desk' = [desk EXCEPT ![c] = call],
           UNCHANGED <<booked, parked, statement>>,
           close' = [p \in Periods |-> close'[p]], CloseOK',
           \A run \in runs' : RunOK(run)
    PROVE  GlInv'
<1>1. /\ desk' = [b \in Desks |-> desk'[b]] /\ desk'[c] = call
      /\ \A b \in Desks : b # c => desk'[b] = desk[b]
  BY DEF GlInv, BooksOK
<1>2. BooksOK'
  BY <1>1 DEF GlInv, BooksOK
<1>3. ASSUME NEW p \in Periods
      PROVE  /\ Collected(p)' = Collected(p)
             /\ Seen(p)' \subseteq Seen(p) \cup {Collected(p)}
  <2>1. Collected(p)' = Collected(p)
    BY DEF Collected, JournalEntries, Credits
  <2>2. Kept(p)' = Kept(p)
    BY DEF Kept
  <2>3. ASSUME NEW b \in Desks
        PROVE  Held(desk'[b], p) \subseteq Seen(p) \cup {Collected(p)}
    <3>1. CASE b = c
      BY <1>1, <3>1
    <3>2. CASE b # c
      BY <1>1, <3>2 DEF Seen
    <3> QED
      BY <3>1, <3>2
  <2>4. Seen(p)' = Kept(p) \cup UNION {Held(desk'[b], p) : b \in Desks}
    BY <2>2 DEF Seen, Held
  <2>5. ASSUME NEW A \in Seen(p)' PROVE A \in Seen(p) \cup {Collected(p)}
    <3>1. CASE A \in Kept(p)
      BY <3>1 DEF Seen
    <3>2. CASE A \notin Kept(p)
      <4>1. PICK b \in Desks : A \in Held(desk'[b], p)
        BY <2>4, <3>2
      <4> QED
        BY <2>3, <4>1
    <3> QED
      BY <3>1, <3>2
  <2> QED
    BY <2>1, <2>5
<1>4. ReadsNest'
  BY <1>3, ReadsStayNested DEF GlInv
<1>5. StatementsOK'
  BY DEF GlInv, StatementsOK
<1>6. \A b \in Desks : DeskOK(desk'[b])
  BY <1>1 DEF GlInv
<1>7. \A b \in Desks : DeskOK(desk[b])'
  BY <1>6 DEF DeskOK
<1>8. \A run \in runs' : RunOK(run)'
  BY DEF RunOK
<1> QED
  BY <1>2, <1>4, <1>5, <1>7, <1>8 DEF GlInv

LEMMA QuietStep ==
    ASSUME GlInv, NEW c \in Desks, NEW call, DeskOK(call),
           \A p \in Periods : Held(call, p) \subseteq Seen(p) \cup {Collected(p)},
           desk' = [desk EXCEPT ![c] = call],
           UNCHANGED <<booked, parked, statement, close, runs>>
    PROVE  GlInv'
<1>1. close' = [p \in Periods |-> close'[p]] /\ CloseOK'
  BY DEF GlInv, BooksOK, CloseOK
<1>2. \A run \in runs' : RunOK(run)
  BY DEF GlInv
<1> QED
  BY <1>1, <1>2, DeskStep

(* The reads of a call. *)
LEMMA DeskReadsOK ==
    ASSUME GlAssumption, GlInv, NEW c \in Desks,
           \/ \E p \in Periods :
                \/ \E a \in Accounts : ReadJournal(c, a, p)
                \/ ReadInstructions(c, p)
                \/ \E o \in Officers : ReadTrialBalance(c, o, p)
                \/ ReadBooks(c, p)
           \/ ReadOpening(c)
           \/ CallFails(c)
    PROVE  GlInv'
<1>1. \A q \in Periods : Held(desk[c], q) \subseteq Seen(q)
  BY DEF Seen
<1>2. \A p : /\ InBalance(TrialBalance(p))
             /\ TrialBalance(p)["REVENUE"].credit = Total(Collected(p))
  BY TrialBalances DEF GlInv, BooksOK, Collected
<1>3. ASSUME NEW p \in Periods, NEW a \in Accounts, ReadJournal(c, a, p)
      PROVE  GlInv'
  <2> DEFINE call == [does |-> "open", period |-> p, account |-> a,
                      entries |-> JournalEntries(a, p)]
  <2>1. /\ desk' = [desk EXCEPT ![c] = call]
        /\ UNCHANGED <<booked, parked, statement, close, runs>>
    BY <1>3 DEF ReadJournal, Begins, ledgerSide
  <2>2. DeskOK(call)
    BY DEF DeskOK
  <2>3. \A q \in Periods : Held(call, q) \subseteq {Collected(q)}
    BY DEF Held, Collected
  <2> HIDE DEF call
  <2> QED
    BY <2>1, <2>2, <2>3, QuietStep
<1>4. ASSUME NEW p \in Periods, ReadInstructions(c, p)
      PROVE  GlInv'
  <2> DEFINE call == [does |-> "payments", period |-> p, instructions |->
                        During(booked \cap Disbursements, DaysOf[p])]
  <2>1. /\ desk' = [desk EXCEPT ![c] = call]
        /\ UNCHANGED <<booked, parked, statement, close, runs>>
    BY <1>4 DEF ReadInstructions, Begins, ledgerSide
  <2>2. DeskOK(call) /\ \A q \in Periods : Held(call, q) = {}
    BY DEF DeskOK, Held
  <2> HIDE DEF call
  <2> QED
    BY <2>1, <2>2, QuietStep
<1>5. ASSUME NEW p \in Periods, NEW o \in Officers, ReadTrialBalance(c, o, p)
      PROVE  GlInv'
  <2> DEFINE call == [does |-> "close", period |-> p, officer |-> o,
                      balance |-> TrialBalance(p)]
  <2>1. /\ desk' = [desk EXCEPT ![c] = call]
        /\ UNCHANGED <<booked, parked, statement, close, runs>>
    BY <1>5 DEF ReadTrialBalance, Begins, ledgerSide
  <2>2. DeskOK(call) /\ \A q \in Periods : Held(call, q) = {}
    BY <1>2 DEF DeskOK, Held
  <2> HIDE DEF call
  <2> QED
    BY <2>1, <2>2, QuietStep
<1>6. ASSUME NEW p \in Periods, ReadBooks(c, p)
      PROVE  GlInv'
  <2> DEFINE call == [does |-> "recon", period |-> p, balance |-> TrialBalance(p),
                      collected |-> Collected(p)]
  <2>1. /\ desk' = [desk EXCEPT ![c] = call]
        /\ UNCHANGED <<booked, parked, statement, close, runs>>
    BY <1>6 DEF ReadBooks, Begins, ledgerSide, Collected
  <2>2. DeskOK(call)
    BY <1>2 DEF DeskOK
  <2>3. \A q \in Periods : Held(call, q) \subseteq {Collected(q)}
    BY DEF Held
  <2> HIDE DEF call
  <2> QED
    BY <2>1, <2>2, <2>3, QuietStep
<1>7. CASE ReadOpening(c)
  <2>1. PICK old : old = desk[c]
    OBVIOUS
  <2>2. DeskOK(old) /\ old.does = "open"
    BY <1>7, <2>1 DEF GlInv, ReadOpening
  <2> DEFINE call == [does |-> "statement", period |-> old.period,
                      account |-> old.account, entries |-> old.entries,
                      opening |-> OpeningBalance(old.account, old.period)]
  <2>3. /\ desk' = [desk EXCEPT ![c] = call]
        /\ UNCHANGED <<booked, parked, statement, close, runs>>
    BY <1>7, <2>1 DEF ReadOpening, Continues, ledgerSide
  <2>4. DeskOK(call)
    BY <2>2 DEF DeskOK
  <2>5. \A q \in Periods : Held(call, q) = Held(old, q)
    BY <2>2 DEF Held
  <2> HIDE DEF call
  <2> QED
    BY <1>1, <2>1, <2>3, <2>4, <2>5, QuietStep
<1>8. CASE CallFails(c)
  <2>1. /\ desk' = [desk EXCEPT ![c] = Free]
        /\ UNCHANGED <<booked, parked, statement, close, runs>>
    BY <1>8 DEF CallFails, Continues, ledgerSide
  <2> QED
    BY <2>1, FreeHoldsNothing, QuietStep
<1> QED
  BY <1>3, <1>4, <1>5, <1>6, <1>7, <1>8

(* The close: a second officer freezes a trial balance. *)
LEMMA CloseActsOK ==
    ASSUME GlInv, NEW c \in Desks, ExportCreditTransfers(c) \/ ApprovePeriodClose(c)
    PROVE  GlInv'
<1>1. /\ desk' = [desk EXCEPT ![c] = Free]
      /\ UNCHANGED <<booked, parked, statement, runs>>
  BY DEF ExportCreditTransfers, ApprovePeriodClose, Ends, ledgerSide
<1>2. CASE UNCHANGED close
  BY <1>1, <1>2, FreeHoldsNothing, QuietStep
<1>3. CASE ~ UNCHANGED close
  <2>1. PICK call, p : call = desk[c] /\ p = call.period
    OBVIOUS
  <2>2. /\ call.does = "close"
        /\ close[p].maker # call.officer
        /\ close' = [close EXCEPT ![p] =
                       [state |-> "CLOSED", maker |-> close[p].maker,
                        checker |-> call.officer, balance |-> call.balance]]
    BY <1>3, <2>1 DEF ExportCreditTransfers, ApprovePeriodClose
  <2>3. p \in Periods /\ InBalance(call.balance)
    BY <2>1, <2>2 DEF GlInv, DeskOK
  <2>4. /\ close' = [q \in Periods |-> close'[q]]
        /\ close'[p] = [state |-> "CLOSED", maker |-> close[p].maker,
                        checker |-> call.officer, balance |-> call.balance]
        /\ \A q \in Periods : q # p => close'[q] = close[q]
    BY <2>2, <2>3 DEF GlInv, BooksOK
  <2>5. CloseOK'
    <3> SUFFICES ASSUME NEW q \in Periods, close'[q].state = "CLOSED"
                 PROVE  /\ close'[q].checker # close'[q].maker
                        /\ InBalance(close'[q].balance)
      BY DEF CloseOK, InBalance
    <3>1. CASE q = p
      BY <2>2, <2>3, <2>4, <3>1
    <3>2. CASE q # p
      BY <2>4, <3>2 DEF GlInv, CloseOK
    <3> QED
      BY <3>1, <3>2
  <2>6. \A run \in runs' : RunOK(run)
    BY <1>1 DEF GlInv
  <2> QED
    BY <1>1, <2>4, <2>5, <2>6, FreeHoldsNothing, DeskStep
<1> QED
  BY <1>2, <1>3

LEMMA RequestOK ==
    ASSUME GlInv, NEW o \in Officers, NEW p \in Periods, RequestPeriodClose(o, p)
    PROVE  GlInv'
<1>1. /\ close' = [q \in Periods |-> close'[q]]
      /\ close'[p].state = "PENDING_APPROVAL"
      /\ \A q \in Periods : q # p => close'[q] = close[q]
  BY DEF RequestPeriodClose, GlInv, BooksOK
<1>2. UNCHANGED <<booked, parked, statement, payments, runs, desk>>
  BY DEF RequestPeriodClose, ledgerSide
<1>3. CloseOK'
  <2> SUFFICES ASSUME NEW q \in Periods, close'[q].state = "CLOSED"
               PROVE  /\ close'[q].checker # close'[q].maker
                      /\ InBalance(close'[q].balance)
    BY DEF CloseOK, InBalance
  <2>1. close'[q] = close[q]
    BY <1>1
  <2> QED
    BY <2>1 DEF GlInv, CloseOK
<1>4. BooksOK'
  BY <1>1, <1>2 DEF GlInv, BooksOK
<1>5. ReadsNest' /\ StatementsOK'
  <2>1. ReadsNest'
    BY <1>2, SameReads DEF GlInv
  <2>2. StatementsOK'
    BY <1>2 DEF GlInv, StatementsOK
  <2> QED
    BY <2>1, <2>2
<1>6. /\ \A c \in Desks : DeskOK(desk[c])'
      /\ \A run \in runs' : RunOK(run)'
  BY <1>2 DEF GlInv, DeskOK, RunOK
<1> QED
  BY <1>3, <1>4, <1>5, <1>6 DEF GlInv

(* What a balanced run says of the revenue statement. *)
LEMMA ReconcileOK ==
    ASSUME GlAssumption, GlInv, NEW c \in Desks, RunReconciliation(c)
    PROVE  GlInv'
<1>1. PICK call, p : call = desk[c] /\ p = call.period
  OBVIOUS
<1>2. /\ desk' = [desk EXCEPT ![c] = Free] /\ call.does = "recon"
      /\ UNCHANGED <<booked, parked, statement, close>>
  BY <1>1 DEF RunReconciliation, Ends, ledgerSide
<1>3. DeskOK(call) /\ p \in Periods
  BY <1>1, <1>2 DEF GlInv, DeskOK
<1>4. PICK A, batch : A = call.collected /\ batch = statement[<<"REVENUE", p>>]
  OBVIOUS
<1>5. A \in Seen(p)
  BY <1>1, <1>2, <1>4 DEF Seen, Held
<1>6. A \in SUBSET Records /\ IsFiniteSet(A)
  <2>1. A \subseteq Collected(p)
    BY <1>3, <1>5 DEF GlInv, ReadsNest
  <2>2. Collected(p) \subseteq booked
    BY DEF Collected, JournalEntries, Credits, During
  <2> QED
    BY <2>1, <2>2, FS_Subset DEF GlInv, BooksOK
<1>7. ASSUME Differences(p, call.balance) = {}, A # {}
      PROVE  batch # NoExport /\ batch.entries.credit = A
  <2>1. call.balance["REVENUE"].credit = Total(A)
    BY <1>2, <1>3, <1>4 DEF DeskOK
  <2>2. Total(A) # 0
    <3>1. IsFiniteSet({}) /\ {} \in SUBSET Records /\ {} \subseteq A
      BY FS_EmptySet
    <3>2. Total({}) = 0
      BY SumEmpty DEF Total
    <3> QED
      BY <1>6, <1>7, <3>1, <3>2, EqualTotals
  <2>3. Moved(call.balance["REVENUE"])
    BY <2>1, <2>2 DEF Moved
  <2>4. "REVENUE" \notin Differences(p, call.balance) /\ "REVENUE" \in Accounts
    BY <1>7 DEF Accounts
  <2>5. batch # NoExport /\ batch.credit = call.balance["REVENUE"].credit
    BY <1>4, <2>3, <2>4 DEF Differences
  <2>6. batch.entries.credit \in Seen(p)
    BY <1>4, <2>5 DEF Seen, Kept
  <2>7. PICK B : B = batch.entries.credit
    OBVIOUS
  <2>8. Total(B) = Total(A)
    BY <1>3, <1>4, <2>1, <2>5, <2>7 DEF GlInv, StatementsOK
  <2>9. B \subseteq Collected(p) /\ (A \subseteq B \/ B \subseteq A)
    BY <1>3, <1>5, <2>6, <2>7 DEF GlInv, ReadsNest
  <2>10. B \in SUBSET Records /\ IsFiniteSet(B)
    <3>1. Collected(p) \subseteq booked
      BY DEF Collected, JournalEntries, Credits, During
    <3> QED
      BY <2>9, <3>1, FS_Subset DEF GlInv, BooksOK
  <2>11. A = B
    BY <1>6, <2>8, <2>9, <2>10, EqualTotals
  <2> QED
    BY <2>5, <2>7, <2>11
<1> DEFINE new == [period |-> p, collected |-> A, balance |-> call.balance,
                   balanced |-> Differences(p, call.balance) = {}]
<1>8. runs' = runs \cup {new}
  BY <1>1, <1>4 DEF RunReconciliation
<1>9. RunOK(new)
  BY <1>2, <1>3, <1>4, <1>7 DEF RunOK, DeskOK
<1> HIDE DEF new
<1>10. \A run \in runs' : RunOK(run)
  BY <1>8, <1>9 DEF GlInv
<1>11. close' = [q \in Periods |-> close'[q]] /\ CloseOK'
  BY <1>2 DEF GlInv, BooksOK, CloseOK
<1> QED
  BY <1>2, <1>10, <1>11, FreeHoldsNothing, DeskStep

(* A statement is written once, from what its call has read. *)
LEMMA ExportOK ==
    ASSUME GlInv, NEW c \in Desks, ExportStatement(c)
    PROVE  GlInv'
<1>1. PICK call, id : call = desk[c] /\ id = <<call.account, call.period>>
  OBVIOUS
<1>2. /\ desk' = [desk EXCEPT ![c] = Free] /\ call.does = "statement"
      /\ UNCHANGED <<booked, parked, payments, close, runs>>
      /\ statement' = [statement EXCEPT ![id] =
                         IF @ = NoExport THEN BuildCamt053(call) ELSE @]
  BY <1>1 DEF ExportStatement, Ends, ledgerSide
<1>3. call.account \in Accounts /\ call.period \in Periods /\ id \in Accounts \X Periods
  BY <1>1, <1>2 DEF GlInv, DeskOK
<1>4. /\ statement' = [j \in Accounts \X Periods |-> statement'[j]]
      /\ statement'[id] = IF statement[id] = NoExport THEN BuildCamt053(call)
                          ELSE statement[id]
      /\ \A j \in Accounts \X Periods : j # id => statement'[j] = statement[j]
  BY <1>2, <1>3 DEF GlInv, BooksOK
<1>5. /\ desk' = [b \in Desks |-> desk'[b]] /\ desk'[c] = Free
      /\ \A b \in Desks : b # c => desk'[b] = desk[b]
  BY <1>2 DEF GlInv, BooksOK
<1>6. ASSUME NEW p \in Periods
      PROVE  \/ statement'[<<"REVENUE", p>>] = statement[<<"REVENUE", p>>]
             \/ /\ call.account = "REVENUE" /\ call.period = p
                /\ statement[<<"REVENUE", p>>] = NoExport
                /\ statement'[<<"REVENUE", p>>] = BuildCamt053(call)
  <2>1. <<"REVENUE", p>> \in Accounts \X Periods
    BY DEF Accounts
  <2>2. CASE <<"REVENUE", p>> = id
    BY <1>1, <1>4, <2>2
  <2>3. CASE <<"REVENUE", p>> # id
    BY <1>4, <2>1, <2>3
  <2> QED
    BY <2>2, <2>3
<1>7. BooksOK'
  BY <1>2, <1>4, <1>5 DEF GlInv, BooksOK
<1>8. ASSUME NEW p \in Periods
      PROVE  Collected(p)' = Collected(p) /\ Seen(p)' \subseteq Seen(p)
  <2>1. Collected(p)' = Collected(p)
    BY <1>2 DEF Collected, JournalEntries, Credits
  <2>2. Seen(p)' = Kept(p)' \cup UNION {Held(desk'[b], p) : b \in Desks}
    BY DEF Seen, Held
  <2>3. Kept(p)' \subseteq Seen(p)
    <3>1. CASE statement'[<<"REVENUE", p>>] = statement[<<"REVENUE", p>>]
      BY <3>1 DEF Kept, Seen
    <3>2. CASE /\ call.account = "REVENUE" /\ call.period = p
               /\ statement'[<<"REVENUE", p>>] = BuildCamt053(call)
      <4>1. Kept(p)' \subseteq {call.entries.credit}
        BY <3>2 DEF Kept, BuildCamt053
      <4>2. call.entries.credit \in Seen(p)
        BY <1>1, <1>2, <3>2 DEF Held, Seen
      <4> QED
        BY <4>1, <4>2
    <3> QED
      BY <1>6, <3>1, <3>2
  <2>4. ASSUME NEW A \in Seen(p)' PROVE A \in Seen(p)
    <3>1. CASE A \in Kept(p)'
      BY <2>3, <3>1
    <3>2. CASE A \notin Kept(p)'
      <4>1. PICK b \in Desks : A \in Held(desk'[b], p)
        BY <2>2, <3>2
      <4>2. b # c
        BY <1>5, <4>1, FreeHoldsNothing
      <4> QED
        BY <1>5, <4>1, <4>2 DEF Seen
    <3> QED
      BY <3>1, <3>2
  <2> QED
    BY <2>1, <2>4
<1>9. ReadsNest'
  BY <1>8, ReadsStayNested DEF GlInv
<1>10. StatementsOK'
  <2> SUFFICES ASSUME NEW p \in Periods, statement'[<<"REVENUE", p>>] # NoExport
               PROVE  statement'[<<"REVENUE", p>>].credit =
                         Total(statement'[<<"REVENUE", p>>].entries.credit)
    BY DEF StatementsOK, Total
  <2> QED
    BY <1>6 DEF GlInv, StatementsOK, BuildCamt053
<1>11. CloseOK'
  BY <1>2 DEF GlInv, CloseOK
<1>12. \A b \in Desks : DeskOK(desk'[b])
  BY <1>5, FreeHoldsNothing DEF GlInv
<1>13. \A b \in Desks : DeskOK(desk[b])'
  BY <1>12 DEF DeskOK
<1>14. ASSUME NEW run \in runs' PROVE RunOK(run)'
  <2>1. RunOK(run)
    BY <1>2 DEF GlInv
  <2> QED
    BY <1>6, <2>1 DEF RunOK
<1> QED
  BY <1>7, <1>9, <1>10, <1>11, <1>13, <1>14 DEF GlInv

LEMMA GlInvariant == GlSpec => []GlInv
<1>1. GlInit => GlInv
  BY GlInitOK
<1>2. GlInv /\ [GlNext]_glVars => GlInv'
  <2>1. ASSUME GlInv, GlNext PROVE GlInv'
    BY <2>1, GlAssumption, LedgerActsOK, DeskReadsOK, CloseActsOK, RequestOK,
       ReconcileOK, ExportOK DEF GlNext, DeskActs
  <2>2. ASSUME GlInv, UNCHANGED glVars PROVE GlInv'
    <3>1. UNCHANGED <<booked, parked, statement, payments, close, runs, desk>>
      BY <2>2 DEF glVars
    <3>2. BooksOK' /\ StatementsOK' /\ CloseOK'
      BY <2>2, <3>1 DEF GlInv, BooksOK, StatementsOK, CloseOK
    <3>3. ReadsNest'
      BY <2>2, <3>1, SameReads DEF GlInv
    <3>4. /\ \A c \in Desks : DeskOK(desk[c])'
          /\ \A run \in runs' : RunOK(run)'
      BY <2>2, <3>1 DEF GlInv, DeskOK, RunOK
    <3> QED
      BY <3>2, <3>3, <3>4 DEF GlInv
  <2> QED
    BY <2>1, <2>2
<1> QED
  BY <1>1, <1>2, PTL DEF GlSpec

(* For any records, amounts, periods, desks and officers: the trial balance  *)
(* of a close and of a run has equal debits and credits, whatever was posted *)
(* or sent to reconciliation meanwhile, and a close has two officers         *)
(* (glexport/store.go journalInnerSQL, TrialBalance; service.go).            *)
THEOREM EvidenceCorrect == GlSpec => []EvidenceBalances
<1>1. GlInv => EvidenceBalances
  BY DEF GlInv, CloseOK, RunOK, EvidenceBalances
<1> QED
  BY <1>1, GlInvariant, PTL

(* For any records, amounts, periods and desks: a run that is balanced on    *)
(* totals found the very collections of its journal in the statement, since  *)
(* collections are only added and amounts are positive (glexport/service.go  *)
(* RunReconciliation).                                                       *)
THEOREM BalancedCorrect == GlSpec => []BalancedMeansExported
<1>1. GlInv => BalancedMeansExported
  BY DEF GlInv, RunOK, BalancedMeansExported
<1> QED
  BY <1>1, GlInvariant, PTL

-----------------------------------------------------------------------------
(* Evidence is kept. *)

PaymentsOK == payments = [p \in Periods |-> payments[p]]

(* A statement, a payment file, a reconciliation run and a closed period are *)
(* never rewritten, and a close keeps the officer who asked for it.          *)
KeepsEvidence ==
    /\ \A id \in Accounts \X Periods :
          statement[id] # NoExport => statement'[id] = statement[id]
    /\ \A p \in Periods : payments[p] # {} => payments'[p] = payments[p]
    /\ \A p \in Periods :
          /\ close[p] # NoClose => close'[p].maker = close[p].maker
          /\ close[p].state = "CLOSED" => close'[p] = close[p]
    /\ runs \subseteq runs'

(* What was exported or frozen stays as it was handed out, whatever is       *)
(* collected or sent to reconciliation later, and although calls decide on   *)
(* rows they read before others wrote them (store.go: the batch of an id is  *)
(* inserted once, a close is approved while it is PENDING_APPROVAL).         *)
EvidenceIsKept == [][KeepsEvidence]_glVars

(* Every step keeps the evidence. *)
LEMMA EvidenceKeptByStep ==
    ASSUME GlInv, PaymentsOK, [GlNext]_glVars
    PROVE  KeepsEvidence /\ PaymentsOK'
<1> DEFINE goal == KeepsEvidence /\ PaymentsOK'
<1>1. ASSUME UNCHANGED <<statement, payments, close, runs>>
      PROVE  goal
  BY <1>1 DEF KeepsEvidence, PaymentsOK
<1>2. ASSUME NEW o \in Officers, NEW p \in Periods, RequestPeriodClose(o, p)
      PROVE  goal
  <2>1. /\ close[p] = NoClose /\ UNCHANGED <<statement, payments, runs>>
        /\ \A q \in Periods \ {p} : close'[q] = close[q]
    BY <1>2 DEF RequestPeriodClose, GlInv, BooksOK
  <2>2. NoClose.state # "CLOSED"
    BY DEF NoClose
  <2>3. QED BY <2>1, <2>2 DEF KeepsEvidence, PaymentsOK
<1>3. ASSUME NEW c \in Desks, ExportStatement(c)
      PROVE  goal
  <2> DEFINE at == <<desk[c].account, desk[c].period>>
             new == BuildCamt053(desk[c])
  <2>1. /\ statement' = [statement EXCEPT ![at] = IF @ = NoExport THEN new ELSE @]
        /\ UNCHANGED <<payments, close, runs>>
    BY <1>3 DEF ExportStatement
  <2> HIDE DEF at, new
  <2>2. \A id \in Accounts \X Periods :
           statement[id] # NoExport => statement'[id] = statement[id]
    BY <2>1 DEF GlInv, BooksOK
  <2>3. QED BY <2>1, <2>2 DEF KeepsEvidence, PaymentsOK
<1>4. ASSUME NEW c \in Desks, ExportCreditTransfers(c)
      PROVE  goal
  <2>1. /\ payments' = [payments EXCEPT ![desk[c].period] =
                          IF @ = {} THEN desk[c].instructions ELSE @]
        /\ UNCHANGED <<statement, close, runs>>
    BY <1>4 DEF ExportCreditTransfers
  <2>2. \A p \in Periods : payments[p] # {} => payments'[p] = payments[p]
    BY <2>1 DEF PaymentsOK
  <2>3. PaymentsOK'
    BY <2>1 DEF PaymentsOK
  <2>4. QED BY <2>1, <2>2, <2>3 DEF KeepsEvidence
<1>5. ASSUME NEW c \in Desks, ApprovePeriodClose(c)
      PROVE  goal
  <2> DEFINE at == desk[c].period
             row == close[at]
             new == [state |-> "CLOSED", maker |-> row.maker,
                     checker |-> desk[c].officer, balance |-> desk[c].balance]
  <2>1. /\ \/ close' = close
           \/ /\ row.state = "PENDING_APPROVAL"
              /\ close' = [close EXCEPT ![at] = new]
        /\ UNCHANGED <<statement, payments, runs>>
    BY <1>5 DEF ApprovePeriodClose
  <2>2. new.maker = close[at].maker
    OBVIOUS
  <2> HIDE DEF at, new
  <2>3. ASSUME NEW p \in Periods
        PROVE  /\ close[p] # NoClose => close'[p].maker = close[p].maker
               /\ close[p].state = "CLOSED" => close'[p] = close[p]
    <3>1. \/ close'[p] = close[p]
          \/ p = at /\ close[at].state = "PENDING_APPROVAL" /\ close'[p] = new
      BY <2>1 DEF GlInv, BooksOK
    <3>2. QED BY <2>2, <3>1
  <2>4. QED BY <2>1, <2>3 DEF KeepsEvidence, PaymentsOK
<1>6. ASSUME NEW c \in Desks, RunReconciliation(c)
      PROVE  goal
  <2>1. UNCHANGED <<statement, payments, close>> /\ runs \subseteq runs'
    BY <1>6 DEF RunReconciliation
  <2>2. QED BY <2>1 DEF KeepsEvidence, PaymentsOK
<1>7. ASSUME NEW c \in Desks, DeskActs(c)
      PROVE  goal
  BY <1>1, <1>3, <1>4, <1>5, <1>6, <1>7
  DEF DeskActs, ReadJournal, ReadInstructions, ReadTrialBalance, ReadBooks,
      ReadOpening, CallFails, Begins, Continues
<1>8. ASSUME GlNext
      PROVE  goal
  BY <1>1, <1>2, <1>7, <1>8
  DEF GlNext, Settle, Disburse, Park, Unpark, exportSide
<1>9. QED BY <1>1, <1>8 DEF glVars

(* For any records, periods and number of calls, evidence is never rewritten *)
(* (store.go InsertExportBatch, ApprovePeriodClose).                         *)
THEOREM EvidenceStays == GlSpec => EvidenceIsKept
<1>1. GlInit => PaymentsOK
  BY DEF GlInit, PaymentsOK
<1>2. GlInv /\ PaymentsOK /\ [GlNext]_glVars => PaymentsOK' /\ [KeepsEvidence]_glVars
  BY EvidenceKeptByStep
<1>3. QED
  BY <1>1, <1>2, GlInvariant, PTL DEF GlSpec, EvidenceIsKept
=============================================================================
