---------------------------- MODULE MCBackOffice ----------------------------
(***************************************************************************)
(* The services that officers and operators run: tariff rows, split rules, *)
(* exchange rates, the general-ledger export and payouts.  They share no   *)
(* state: a behaviour exercises the area that its initial state names.     *)
(***************************************************************************)
EXTENDS TariffSchedule, RevenueSplit, FxRates, GlExport, MojaloopPayout, TLC

CONSTANTS
    dues1, dues2, levy,     \* two rates of one band that overlap, a levy
    lng, waiver,            \* the due of gas carriers, a waiver of the levy
    whole,                  \* the catch-all split rule
    fx1, fx2,               \* two rates for one date
    january, s1, s2, d1,    \* a month, its collections and a disbursement
    fuel, small, large,     \* a payout, the amounts there are
    ful1, ful2,             \* fulfilments and their conditions
    cond1, cond2, malformed,
    MaxCalls                \* bound on the calls of the export service

VARIABLES area, calls

(* A tonnage of 3 lies in the band 1..3 and a tonnage of 4 does not; the     *)
(* levy on a freight of 60 is a half unit over 1, and that on a freight of   *)
(* 140 does not fit the word.                                                *)
MCRateRow ==
    [r \in Rates |->
       CASE r = dues1 -> [instrument |-> "NPA_SHIP_DUES",
                          logic |-> "PER_GRT_BAND", price |-> 7, floor |-> 1,
                          ceiling |-> 4, from |-> 1, to |-> 0]
         [] r = dues2 -> [instrument |-> "NPA_SHIP_DUES",
                          logic |-> "PER_GRT_BAND", price |-> 9, floor |-> 1,
                          ceiling |-> 0, from |-> 2, to |-> 2]
         [] r = levy -> [instrument |-> "SEA_PROTECTION_LEVY_2012",
                         logic |-> "PERCENT_GROSS_FREIGHT", price |-> 250,
                         floor |-> 0, ceiling |-> 0, from |-> 1, to |-> 1]
         [] r = lng -> [instrument |-> "NIMASA_LNG_CARRIER_DUE",
                        logic |-> "PER_GRT_BAND", price |-> 3, floor |-> 0,
                        ceiling |-> 0, from |-> 1, to |-> 0]]

(* The migration exempts the vessels of one company from the due. *)
MCExemptionRow ==
    [e \in Exemptions |->
       IF e = waiver
       THEN [instrument |-> "SEA_PROTECTION_LEVY_2012",
             kind |-> "CARGO_CATEGORY", value |-> "RELIEF",
             from |-> 1, to |-> 0]
       ELSE [instrument |-> "NIMASA_LNG_CARRIER_DUE", kind |-> "ENTITY",
             value |-> "NLNG", from |-> 1, to |-> 0]]

Declare(entity, cargo, grt, freight, asOf) ==
    [portCall |-> TRUE, voyage |-> "INTERNATIONAL", class |-> "LNG_CARRIER",
     route |-> "SEA", entity |-> entity, cargo |-> cargo, flags |-> {},
     grt |-> grt, freight |-> freight, asOf |-> asOf]

MCDeclarations ==
    {Declare("LINE", "GAS", 3, 60, 0), Declare("NLNG", "RELIEF", 4, 140, 1)}

(* Four exact legs of a quarter each, or one catch-all rule: a payment of 2  *)
(* rounds to four legs of 1 and is refused, 3 leaves the largest leg empty,  *)
(* 5 leaves a residual of 1.                                                 *)
MCSplitRow ==
    [r \in SplitRules |->
       IF r = whole
       THEN [line |-> CatchAll, agency |-> "FMMBE", bps |-> 10000,
             from |-> 1, to |-> 0]
       ELSE [line |-> "DUES", agency |-> "NPA", bps |-> 2500,
             from |-> 1, to |-> 2]]

MCAdviceRequests ==
    {[payment |-> p, line |-> "DUES", asOf |-> 1] : p \in Payments}

MCFxEntry ==
    [f \in FxIds |-> [date |-> 1, micro |-> IF f = fx1 THEN 13 ELSE 25]]

MCDaysOf == [p \in Periods |-> IF p = january THEN {1, 2} ELSE {3}]

MCDayOf == [x \in Records |-> CASE x = s1 -> 1 [] x = s2 -> 2 [] x = d1 -> 2]

MCAmountOf == [x \in Records |-> IF x = s2 THEN 2 ELSE 3]

(* Payouts of different amounts that may be sent again, a payee that may     *)
(* answer with another amount, different conditions or a malformed one, and  *)
(* a Hub that may pass on a fulfilment of another condition.                 *)
MCAmount == [x \in Payouts |-> IF x = fuel THEN small ELSE large]

MCConditionForFulfilment ==
    [f \in {ful1, ful2} |-> IF f = ful1 THEN cond1 ELSE cond2]

Interchangeable ==
    Permutations(Officers) \cup Permutations(Issuers)

everything == <<tariffVars, splitVars, fxVars, glVars, payoutVars>>

Init ==
    /\ TariffInit /\ SplitInit /\ FxInit /\ GlInit /\ PayoutInit
    /\ area \in {"tariff", "split", "fx", "gl", "payouts"}
    /\ calls = 0

(* A step of the export, counting the calls that begin. *)
BoundedGlNext ==
    LET begun == {c \in Desks : desk[c] = Free /\ desk'[c] # Free}
    IN /\ GlNext
       /\ calls' = calls + Cardinality(begun)
       /\ calls' <= MaxCalls

(* A step of the payouts, with the ids that uuid.NewString returns in        *)
(* ascending order: which one is taken makes no difference.                  *)
OrderedPayoutNext ==
    /\ PayoutNext
    /\ \A q \in QuoteIds : quotes'[q] # None =>
          \A r \in QuoteIds : r < q => quotes'[r] # None
    /\ \A t \in TransferIds : transfers'[t] # None =>
          \A u \in TransferIds : u < t => transfers'[u] # None

Next ==
    /\ \/ /\ area = "tariff" /\ TariffNext
          /\ UNCHANGED <<splitVars, fxVars, glVars, calls, payoutVars>>
       \/ /\ area = "split" /\ SplitNext
          /\ UNCHANGED <<tariffVars, fxVars, glVars, calls, payoutVars>>
       \/ /\ area = "fx" /\ FxNext
          /\ UNCHANGED <<tariffVars, splitVars, glVars, calls, payoutVars>>
       \/ /\ area = "gl" /\ BoundedGlNext
          /\ UNCHANGED <<tariffVars, splitVars, fxVars, payoutVars>>
       \/ /\ area = "payouts" /\ OrderedPayoutNext
          /\ UNCHANGED <<tariffVars, splitVars, fxVars, glVars, calls>>
    /\ UNCHANGED area

Spec == Init /\ [][Next]_<<everything, area, calls>>
=============================================================================
