------------------------------ MODULE FxRates ------------------------------
(***************************************************************************)
(* CBN reference rates (internal/fx): entered by one officer, confirmed or *)
(* rejected by another, expired by the worker's sweep when nobody answers, *)
(* and read by the disbursement rail for a date.                           *)
(*                                                                         *)
(* Confirm and Reject read the row, decide, and then update it under a     *)
(* guard on its state; a unique index allows one confirmed row to a date.  *)
(***************************************************************************)
EXTENDS Integers, FiniteSets, DualControl, FxConversion

CONSTANTS
    FxIds, FxEntry,     \* the rates that may be entered: [date, micro]
    Principals,         \* amounts that are disbursed
    NoFx

ASSUME FxAssumption ==
    /\ Principals \subseteq Nat \ {0}
    /\ \A f \in FxIds : FxEntry[f].micro \in Nat \ {0}
    /\ NoFx \notin FxIds

VARIABLES
    fx,         \* fx_rates: state, maker, checker, and whether its ttl is over
    deciding,   \* the row an officer has read, and what the officer will do
    disbursed   \* the legs converted so far: [date, fx, currency, usd, ngn]

fxVars == <<fx, deciding, disbursed>>

-----------------------------------------------------------------------------

NotEntered == [state |-> "none", maker |-> NoOfficer, checker |-> NoOfficer,
               lapsed |-> FALSE]

Entered(o) == [state |-> "PENDING_CONFIRMATION", maker |-> o,
               checker |-> NoOfficer, lapsed |-> FALSE]

Decided(row, state, o) == [state |-> state, maker |-> row.maker,
                           checker |-> o, lapsed |-> row.lapsed]

NoDecision == [fx |-> NoFx, does |-> "nothing"]

Enter(o, f) ==
    /\ fx[f].state = "none"
    /\ fx' = [fx EXCEPT ![f] = Entered(o)]
    /\ UNCHANGED <<deciding, disbursed>>

(* store.get hides rejected and expired rows. *)
Readable(row) == row.state \in {"PENDING_CONFIRMATION", "CONFIRMED"}

ReadToConfirm(o, f) ==
    /\ deciding[o] = NoDecision
    /\ Readable(fx[f])
    /\ fx[f].state # "CONFIRMED" /\ fx[f].maker # o
    /\ deciding' = [deciding EXCEPT ![o] = [fx |-> f, does |-> "confirm"]]
    /\ UNCHANGED <<fx, disbursed>>

ReadToReject(o, f) ==
    /\ deciding[o] = NoDecision
    /\ Readable(fx[f])
    /\ fx[f].maker # o
    /\ deciding' = [deciding EXCEPT ![o] = [fx |-> f, does |-> "reject"]]
    /\ UNCHANGED <<fx, disbursed>>

ConfirmedOn(date) ==
    {f \in FxIds : fx[f].state = "CONFIRMED" /\ FxEntry[f].date = date}

(* Mutant: the update trusts the state that was read. *)
TrustsTheRead(f) == TRUE

StillPending(f) == fx[f].state = "PENDING_CONFIRMATION"

(* Either update may find the row decided meanwhile, and a confirmation may  *)
(* break the unique index: then nothing changes.                             *)
Update(f, state, o) ==
    fx' = IF /\ StillPending(f)
             /\ state = "CONFIRMED" => ConfirmedOn(FxEntry[f].date) \ {f} = {}
          THEN [fx EXCEPT ![f] = Decided(@, state, o)]
          ELSE fx

Confirm(o) ==
    /\ deciding[o].does = "confirm"
    /\ Update(deciding[o].fx, "CONFIRMED", o)
    /\ deciding' = [deciding EXCEPT ![o] = NoDecision]
    /\ UNCHANGED disbursed

Reject(o) ==
    /\ deciding[o].does = "reject"
    /\ Update(deciding[o].fx, "REJECTED", o)
    /\ deciding' = [deciding EXCEPT ![o] = NoDecision]
    /\ UNCHANGED disbursed

(* Time passes beyond the confirmation window of a row. *)
Lapse(f) ==
    /\ fx[f].state # "none" /\ ~ fx[f].lapsed
    /\ fx' = [fx EXCEPT ![f].lapsed = TRUE]
    /\ UNCHANGED <<deciding, disbursed>>

ExpirePendingConfirmation ==
    /\ fx' = [f \in FxIds |->
                IF fx[f].state = "PENDING_CONFIRMATION" /\ fx[f].lapsed
                THEN Decided(fx[f], "EXPIRED", NoOfficer) ELSE fx[f]]
    /\ UNCHANGED <<deciding, disbursed>>

-----------------------------------------------------------------------------
(* ConfirmedForDate and the cost leg of a disbursement in either currency; a *)
(* conversion to nothing is refused.                                         *)
DisburseAt(date, currency, principal) ==
    /\ \E f \in ConfirmedOn(date) :
         LET usd == IF currency = "USD" THEN principal
                    ELSE ConvertNGNToUSD(FxEntry[f].micro, principal)
             ngn == IF currency = "NGN" THEN principal
                    ELSE ConvertUSDToNGN(FxEntry[f].micro, principal)
         IN /\ usd # 0 /\ ngn # 0
            /\ disbursed' = disbursed \cup
                 {[date |-> date, fx |-> f, currency |-> currency,
                   usd |-> usd, ngn |-> ngn]}
    /\ UNCHANGED <<fx, deciding>>

Dates == {FxEntry[f].date : f \in FxIds}

FxInit ==
    /\ fx = [f \in FxIds |-> NotEntered]
    /\ deciding = [o \in Officers |-> NoDecision]
    /\ disbursed = {}

FxOfficerActs(o) ==
    \/ \E f \in FxIds : Enter(o, f) \/ ReadToConfirm(o, f) \/ ReadToReject(o, f)
    \/ Confirm(o)
    \/ Reject(o)

FxNext ==
    \/ \E o \in Officers : FxOfficerActs(o)
    \/ \E f \in FxIds : Lapse(f)
    \/ ExpirePendingConfirmation
    \/ \E date \in Dates, currency \in {"USD", "NGN"}, principal \in Principals :
         DisburseAt(date, currency, principal)

FxSpec == FxInit /\ [][FxNext]_fxVars

-----------------------------------------------------------------------------
(* Properties. *)

(* All money that leaves for a date leaves at one rate, which two officers   *)
(* stand behind for good (fx/store.go: the guarded updates and the index     *)
(* against a confirmation racing a rejection, a twin or the expiry), and the *)
(* dollar and naira legs are worth the same to within half a unit of the     *)
(* converted currency (fx.go ConvertUSDToNGN, ConvertNGNToUSD).              *)
OneRateToADate ==
    /\ \A x, y \in disbursed : x.date = y.date => x.fx = y.fx
    /\ \A x \in disbursed :
         LET micro == FxEntry[x.fx].micro
             gap == x.ngn * Scale - x.usd * micro
             unit == IF x.currency = "USD" THEN Scale ELSE micro
         IN /\ fx[x.fx].state = "CONFIRMED"
            /\ fx[x.fx].checker \in Officers \ {fx[x.fx].maker}
            /\ -unit <= 2 * gap /\ 2 * gap <= unit
=============================================================================
