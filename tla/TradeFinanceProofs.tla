------------------------- MODULE TradeFinanceProofs -------------------------
(***************************************************************************)
(* Proofs of the safety properties of TradeFinance, for any traders,       *)
(* banks, consents, applications and handlers.                             *)
(*                                                                         *)
(* The properties of the consents are inductive together.  Those of the    *)
(* applications need to know what an approval trail looks like in each     *)
(* state, and what a handler saw that has validated a decision and not     *)
(* recorded it: a consent may be revoked meanwhile, but it keeps its seal. *)
(***************************************************************************)
EXTENDS TradeFinance, TLAPS

(* A consent of a trader for a bank that a second person activated. *)
Consented(t, b) ==
    \E c \in Consents : /\ consent[c] # None
                        /\ consent[c].trader = t
                        /\ consent[c].bank = b
                        /\ consent[c].seal # None

(* The n-th approval is that of the n-th stage, by the party bound to it;    *)
(* only the last one may be a rejection, and only of a declined application. *)
ApprovalInv ==
    \A a \in Applications :
       /\ application[a] = None => approvals[a] = << >>
       /\ application[a] # None =>
             /\ application[a].state = "APPLICATION" => Len(approvals[a]) = 0
             /\ application[a].state \notin {"APPLICATION", "DECLINED"} =>
                   /\ Len(approvals[a]) = Rank[application[a].state] - 1
                   /\ \A n \in DOMAIN approvals[a] :
                         approvals[a][n].decision = "APPROVE"
             /\ \A n \in DOMAIN approvals[a] :
                   /\ Rank[approvals[a][n].from] = n
                   /\ approvals[a][n].principal =
                         application[a].roles[requiredRole[approvals[a][n].from]]

(* What a handler saw when it validated its decision still holds. *)
CallInv ==
    \A h \in Handlers : call[h] # None =>
       LET row == application[call[h].application] IN
       /\ row # None
       /\ call[h].from = "KYC_CONSENT_CHECK" /\ call[h].decision = "APPROVE" =>
             Consented(row.trader, row.bank)
       /\ call[h].from = "BANK_REVIEW" /\ call[h].decision = "APPROVE" => row.bound

IndInv == /\ TypeOK /\ TrailTellsState /\ SealIsTheActivation /\ DisclosedAsGranted
          /\ FinancedWithConsent /\ ApprovalInv /\ CallInv

(* The initial state satisfies the invariant. *)
LEMMA InitInv == Init => IndInv
<1> SUFFICES ASSUME Init PROVE IndInv
  OBVIOUS
<1>1. TypeOK
  BY DEF Init, TypeOK
<1>2. QED
  BY <1>1 DEF Init, IndInv, TrailTellsState, SealIsTheActivation,
     DisclosedAsGranted, FinancedWithConsent, ApprovalInv, CallInv

-----------------------------------------------------------------------------
(* Consents *)

(* What holds of the applications survives steps that only add consents or   *)
(* move them.                                                                *)
LEMMA RestKeeps ==
  ASSUME IndInv, UNCHANGED <<application, approvals, call>>,
         \A x, y : Consented(x, y) => Consented(x, y)'
  PROVE  FinancedWithConsent' /\ ApprovalInv' /\ CallInv'
<1>1. FinancedWithConsent'
  <2> SUFFICES ASSUME NEW a \in Applications, application[a] # None
               PROVE  /\ application[a].state \in Financed =>
                            Consented(application[a].trader, application[a].bank)'
                      /\ application[a].state \in Cleared => application[a].bound
    BY DEF FinancedWithConsent, Consented
  <2>1. /\ application[a].state \in Financed =>
               Consented(application[a].trader, application[a].bank)
        /\ application[a].state \in Cleared => application[a].bound
    BY DEF IndInv, FinancedWithConsent, Consented
  <2>2. QED
    BY <2>1
<1>2. ApprovalInv'
  BY DEF IndInv, ApprovalInv
<1>3. CallInv'
  BY DEF IndInv, CallInv
<1>4. QED
  BY <1>1, <1>2, <1>3

(* A request of a consent keeps the invariant. *)
LEMMA RequestKeeps ==
  ASSUME IndInv, NEW c \in Consents, NEW t \in Traders, NEW b \in Banks,
         NEW scopes \in SUBSET Scopes, RequestConsent(c, t, b, scopes)
  PROVE  IndInv'
<1> DEFINE new == [trader |-> t, bank |-> b, scopes |-> scopes,
                   state |-> "PENDING_CHECKER", seal |-> None, version |-> 1]
           first == Entry(t, "REQUESTED", "", "PENDING_CHECKER")
<1>1. new \in ConsentRows /\ first \in AuditEntries
  BY ConstantsAssumption DEF ConsentRows, AuditEntries, ConsentStates, Entry
<1>2. /\ new.trader = t /\ new.bank = b /\ new.state = "PENDING_CHECKER"
      /\ new.seal = None /\ new.version = 1 /\ new # None
      /\ first.to = "PENDING_CHECKER"
  BY <1>1, ConstantsAssumption DEF Entry
<1>3. /\ consent[c] = None
      /\ consent' = [consent EXCEPT ![c] = new]
      /\ audit' = [audit EXCEPT ![c] = <<first>>]
      /\ UNCHANGED <<expired, disclosed, application, approvals, call>>
  BY DEF RequestConsent, NewConsent, applications
<1> HIDE DEF new, first
<1>4. TypeOK'
  BY <1>1, <1>3 DEF IndInv, TypeOK
<1>5. /\ consent'[c] = new /\ audit'[c] = <<first>>
      /\ \A k \in Consents : k # c => consent'[k] = consent[k] /\ audit'[k] = audit[k]
  BY <1>3 DEF IndInv, TypeOK
<1>6. TrailTellsState'
  <2> SUFFICES ASSUME NEW k \in Consents, consent'[k] # None
               PROVE  LET trail == audit'[k] IN
                      /\ Len(trail) = consent'[k].version
                      /\ Len(trail) > 0
                      /\ trail[Len(trail)].to = consent'[k].state
                      /\ \A n \in 1..(Len(trail) - 1) : trail[n + 1].from = trail[n].to
    BY DEF TrailTellsState
  <2>1. CASE k = c
    <3>1. Len(<<first>>) = 1 /\ <<first>>[1] = first
      OBVIOUS
    <3>2. Len(audit'[k]) = 1 /\ audit'[k][1] = first /\ consent'[k] = new
      BY <1>5, <2>1, <3>1
    <3>3. \A n \in 1..(Len(audit'[k]) - 1) : FALSE
      BY <3>2
    <3>4. QED
      BY <1>2, <3>2, <3>3
  <2>2. CASE k # c
    BY <1>5, <2>2 DEF IndInv, TrailTellsState
  <2>3. QED
    BY <2>1, <2>2
<1>7. SealIsTheActivation'
  BY <1>2, <1>5 DEF IndInv, SealIsTheActivation, Activated
<1>8. DisclosedAsGranted'
  <2>1. \A d \in disclosed : d.consent \in Consents /\ d.consent # c
    BY <1>3 DEF IndInv, TypeOK, DisclosedAsGranted
  <2>2. QED
    BY <1>3, <1>5, <2>1 DEF IndInv, DisclosedAsGranted
<1>9. \A x, y : Consented(x, y) => Consented(x, y)'
  BY <1>2, <1>3, <1>5 DEF Consented
<1>10. FinancedWithConsent' /\ ApprovalInv' /\ CallInv'
  BY <1>3, <1>9, RestKeeps
<1>11. QED
  BY <1>4, <1>6, <1>7, <1>8, <1>10 DEF IndInv

(* A move of a consent keeps the invariant when it keeps the seal or is an   *)
(* activation by a second person.                                            *)
LEMMA MoveKeeps ==
  ASSUME IndInv, NEW c \in Consents, NEW from \in ConsentStates,
         NEW to \in ConsentStates, NEW p \in Principals,
         NEW action \in {"ACTIVATED", "REJECTED", "REVOCATION_REQUESTED",
                         "REVOKED", "REVOCATION_REJECTED"},
         NEW seal \in Principals \cup {None},
         transitionConsent(c, from, to, p, action, seal),
         to \notin {"PENDING_CHECKER", "REJECTED"} <=> seal # None,
         \/ seal = consent[c].seal
         \/ action = "ACTIVATED" /\ seal = p /\ p # consent[c].trader
               /\ consent[c].seal = None
  PROVE  IndInv'
<1> DEFINE old == consent[c]
           new == [trader |-> consent[c].trader, bank |-> consent[c].bank,
                   scopes |-> consent[c].scopes, state |-> to, seal |-> seal,
                   version |-> consent[c].version + 1]
           last == Entry(p, action, from, to)
<1>0. old # None /\ old \in ConsentRows /\ old.state = from
  BY DEF transitionConsent, IndInv, TypeOK
<1>1. new \in ConsentRows /\ last \in AuditEntries
  <2>1. /\ consent[c].trader \in Traders /\ consent[c].bank \in Banks
        /\ consent[c].scopes \in SUBSET Scopes /\ consent[c].version \in Nat
    BY <1>0 DEF ConsentRows
  <2>2. new \in ConsentRows
    BY <2>1 DEF ConsentRows
  <2>3. last \in AuditEntries
    BY DEF AuditEntries, Entry
  <2>4. QED
    BY <2>2, <2>3
<1>2. /\ new.trader = old.trader /\ new.bank = old.bank /\ new.scopes = old.scopes
      /\ new.state = to /\ new.seal = seal /\ new.version = old.version + 1
      /\ new # None
      /\ last.actor = p /\ last.action = action /\ last.from = from /\ last.to = to
  BY <1>1, ConstantsAssumption DEF Entry
<1>3. /\ consent' = [consent EXCEPT ![c] = new]
      /\ audit' = [audit EXCEPT ![c] = Append(audit[c], last)]
      /\ UNCHANGED <<expired, disclosed, application, approvals, call>>
  BY DEF transitionConsent, applications
<1> HIDE DEF new, last
<1>4. audit[c] \in Seq(AuditEntries)
  BY DEF IndInv, TypeOK
<1>5. TypeOK'
  BY <1>1, <1>3, <1>4 DEF IndInv, TypeOK
<1>6. /\ consent'[c] = new /\ audit'[c] = Append(audit[c], last)
      /\ \A k \in Consents : k # c => consent'[k] = consent[k] /\ audit'[k] = audit[k]
  BY <1>3 DEF IndInv, TypeOK
<1>7. /\ Len(audit'[c]) = Len(audit[c]) + 1
      /\ Len(audit[c]) \in Nat
      /\ audit'[c][Len(audit[c]) + 1] = last
      /\ \A n \in 1..Len(audit[c]) : audit'[c][n] = audit[c][n]
      /\ DOMAIN audit[c] = 1..Len(audit[c])
      /\ DOMAIN audit'[c] = 1..(Len(audit[c]) + 1)
  BY <1>1, <1>4, <1>6
<1>8. /\ Len(audit[c]) = old.version /\ Len(audit[c]) > 0
      /\ audit[c][Len(audit[c])].to = from
      /\ \A n \in 1..(Len(audit[c]) - 1) : audit[c][n + 1].from = audit[c][n].to
  BY <1>0 DEF IndInv, TrailTellsState
<1>9. TrailTellsState'
  <2> SUFFICES ASSUME NEW k \in Consents, consent'[k] # None
               PROVE  LET trail == audit'[k] IN
                      /\ Len(trail) = consent'[k].version
                      /\ Len(trail) > 0
                      /\ trail[Len(trail)].to = consent'[k].state
                      /\ \A n \in 1..(Len(trail) - 1) : trail[n + 1].from = trail[n].to
    BY DEF TrailTellsState
  <2>1. CASE k = c
    <3>1. /\ Len(audit'[c]) = new.version /\ Len(audit'[c]) > 0
          /\ audit'[c][Len(audit'[c])].to = new.state
      BY <1>2, <1>7, <1>8
    <3>2. ASSUME NEW n \in 1..(Len(audit'[c]) - 1)
          PROVE  audit'[c][n + 1].from = audit'[c][n].to
      <4>1. CASE n = Len(audit[c])
        <5>1. audit'[c][n + 1] = last /\ audit'[c][n] = audit[c][n]
          BY <4>1, <1>7, <1>8
        <5>2. audit[c][n].to = from
          BY <4>1, <1>8
        <5>3. QED
          BY <5>1, <5>2, <1>2
      <4>2. CASE n # Len(audit[c])
        <5>1. n \in 1..(Len(audit[c]) - 1) /\ n + 1 \in 1..Len(audit[c])
              /\ n \in 1..Len(audit[c])
          BY <4>2, <1>7
        <5>2. QED
          BY <5>1, <1>7, <1>8
      <4>3. QED
        BY <4>1, <4>2
    <3>3. QED
      BY <2>1, <3>1, <3>2, <1>6
  <2>2. CASE k # c
    BY <1>6, <2>2 DEF IndInv, TrailTellsState
  <2>3. QED
    BY <2>1, <2>2
<1>10. \A t, q, n : Activated(audit[c], t, q, n) =>
          n \in DOMAIN audit'[c] /\ Activated(audit'[c], t, q, n)
  BY <1>7 DEF Activated
<1>11. SealIsTheActivation'
  <2> SUFFICES ASSUME NEW k \in Consents, consent'[k] # None
               PROVE  /\ consent'[k].state \notin {"PENDING_CHECKER", "REJECTED"} <=>
                            consent'[k].seal # None
                      /\ consent'[k].seal # None =>
                            \E n \in DOMAIN audit'[k] :
                               Activated(audit'[k], consent'[k].trader,
                                         consent'[k].seal, n)
    BY DEF SealIsTheActivation, Activated
  <2>1. CASE k = c
    <3>1. ASSUME seal # None
          PROVE  \E n \in DOMAIN audit'[c] :
                    Activated(audit'[c], old.trader, seal, n)
      <4>1. CASE seal = consent[c].seal
        <5>1. PICK n \in DOMAIN audit[c] : Activated(audit[c], old.trader, seal, n)
          BY <3>1, <4>1, <1>0 DEF IndInv, SealIsTheActivation
        <5>2. QED
          BY <5>1, <1>10
      <4>2. CASE action = "ACTIVATED" /\ seal = p /\ p # consent[c].trader
        <5>1. Activated(audit'[c], old.trader, seal, Len(audit[c]) + 1)
          BY <4>2, <1>2, <1>7 DEF Activated
        <5>2. QED
          BY <5>1, <1>7
      <4>3. QED
        BY <4>1, <4>2
    <3>2. QED
      BY <2>1, <3>1, <1>2, <1>6
  <2>2. CASE k # c
    BY <2>2, <1>6 DEF IndInv, SealIsTheActivation
  <2>3. QED
    BY <2>1, <2>2
<1>13. DisclosedAsGranted'
  <2> SUFFICES ASSUME NEW d \in disclosed
               PROVE  /\ consent'[d.consent] # None
                      /\ consent'[d.consent].bank = d.bank
                      /\ consent'[d.consent].trader = d.trader
                      /\ d.scope \in consent'[d.consent].scopes
                      /\ d.at \in DOMAIN audit'[d.consent]
                      /\ audit'[d.consent][d.at].to = "ACTIVE"
                      /\ \E n \in 1..d.at, q \in Principals :
                            Activated(audit'[d.consent], d.trader, q, n)
    BY <1>3 DEF DisclosedAsGranted, Activated
  <2>1. /\ d.consent \in Consents /\ consent[d.consent] # None
        /\ consent[d.consent].bank = d.bank /\ consent[d.consent].trader = d.trader
        /\ d.scope \in consent[d.consent].scopes
        /\ d.at \in DOMAIN audit[d.consent]
        /\ audit[d.consent][d.at].to = "ACTIVE"
        /\ \E n \in 1..d.at, q \in Principals :
              Activated(audit[d.consent], d.trader, q, n)
    BY DEF IndInv, TypeOK, DisclosedAsGranted
  <2>2. CASE d.consent = c
    BY <2>1, <2>2, <1>2, <1>6, <1>7, <1>10
  <2>3. CASE d.consent # c
    BY <2>1, <2>3, <1>6
  <2>4. QED
    BY <2>2, <2>3
<1>14. \A x, y : Consented(x, y) => Consented(x, y)'
  BY <1>0, <1>2, <1>3, <1>6, ConstantsAssumption DEF Consented
<1>15. FinancedWithConsent' /\ ApprovalInv' /\ CallInv'
  BY <1>3, <1>14, RestKeeps
<1>16. QED
  BY <1>5, <1>9, <1>11, <1>13, <1>15 DEF IndInv

(* Every move a trader or a checker asks for keeps the invariant. *)
LEMMA ConsentMoveKeeps ==
  ASSUME IndInv, NEW c \in Consents, NEW p \in Traders \cup Checkers,
         consentMove(c, p)
  PROVE  IndInv'
<1>0. p \in Principals
  BY ConstantsAssumption
<1>1. consent[c] # None /\ consent[c] \in ConsentRows
  BY DEF consentMove, ActivateConsent, RejectConsent, RequestRevocation,
         ConfirmRevocation, RejectRevocation, transitionConsent, IndInv, TypeOK
<1>2. /\ consent[c].seal \in Principals \cup {None}
      /\ consent[c].state \notin {"PENDING_CHECKER", "REJECTED"} <=>
            consent[c].seal # None
  BY <1>1 DEF ConsentRows, IndInv, SealIsTheActivation
<1>3. {"PENDING_CHECKER", "ACTIVE", "REJECTED", "REVOCATION_PENDING", "REVOKED"}
         = ConsentStates
  BY DEF ConsentStates
<1>4. CASE ActivateConsent(c, p)
  <2>1. /\ transitionConsent(c, "PENDING_CHECKER", "ACTIVE", p, "ACTIVATED", p)
        /\ consent[c].state = "PENDING_CHECKER" /\ p # consent[c].trader
    BY <1>4 DEF ActivateConsent, transitionConsent
  <2>2. QED
    BY <1>0, <1>2, <1>3, <2>1, MoveKeeps, ConstantsAssumption
<1>5. CASE RejectConsent(c, p)
  <2>1. /\ transitionConsent(c, "PENDING_CHECKER", "REJECTED", p, "REJECTED",
                             consent[c].seal)
        /\ consent[c].state = "PENDING_CHECKER"
    BY <1>5 DEF RejectConsent, transitionConsent
  <2>2. QED
    BY <1>0, <1>2, <1>3, <2>1, MoveKeeps
<1>6. CASE RequestRevocation(c, p)
  <2>1. /\ transitionConsent(c, "ACTIVE", "REVOCATION_PENDING", p,
                             "REVOCATION_REQUESTED", consent[c].seal)
        /\ consent[c].state = "ACTIVE"
    BY <1>6 DEF RequestRevocation, transitionConsent
  <2>2. QED
    BY <1>0, <1>2, <1>3, <2>1, MoveKeeps
<1>7. CASE ConfirmRevocation(c, p)
  <2>1. /\ transitionConsent(c, "REVOCATION_PENDING", "REVOKED", p, "REVOKED",
                             consent[c].seal)
        /\ consent[c].state = "REVOCATION_PENDING"
    BY <1>7 DEF ConfirmRevocation, transitionConsent
  <2>2. QED
    BY <1>0, <1>2, <1>3, <2>1, MoveKeeps
<1>8. CASE RejectRevocation(c, p)
  <2>1. /\ transitionConsent(c, "REVOCATION_PENDING", "ACTIVE", p,
                             "REVOCATION_REJECTED", consent[c].seal)
        /\ consent[c].state = "REVOCATION_PENDING"
    BY <1>8 DEF RejectRevocation, transitionConsent
  <2>2. QED
    BY <1>0, <1>2, <1>3, <2>1, MoveKeeps
<1>9. QED
  BY <1>4, <1>5, <1>6, <1>7, <1>8 DEF consentMove

(* What holds of trails and seals survives steps that leave them alone, and  *)
(* so does what holds of the disclosures.                                    *)
LEMMA TrailsStay ==
  ASSUME IndInv, UNCHANGED <<consent, audit>>
  PROVE  /\ TrailTellsState' /\ SealIsTheActivation'
         /\ UNCHANGED disclosed => DisclosedAsGranted'
<1>1. TrailTellsState'
  BY DEF IndInv, TrailTellsState
<1>2. SealIsTheActivation'
  BY DEF IndInv, SealIsTheActivation, Activated
<1>3. UNCHANGED disclosed => DisclosedAsGranted'
  BY DEF IndInv, DisclosedAsGranted, Activated
<1>4. QED
  BY <1>1, <1>2, <1>3

(* The passing of time keeps the invariant. *)
LEMMA ExpireKeeps ==
  ASSUME IndInv, NEW c \in Consents, Expire(c)
  PROVE  IndInv'
<1>1. /\ UNCHANGED <<consent, audit, disclosed, application, approvals, call>>
      /\ expired' \in SUBSET Consents
  BY DEF Expire, applications, IndInv, TypeOK
<1>2. TypeOK'
  BY <1>1 DEF IndInv, TypeOK
<1>3. TrailTellsState' /\ SealIsTheActivation' /\ DisclosedAsGranted'
  BY <1>1, TrailsStay
<1>4. FinancedWithConsent' /\ ApprovalInv' /\ CallInv'
  BY <1>1, RestKeeps DEF Consented
<1>5. QED
  BY <1>2, <1>3, <1>4 DEF IndInv

(* A disclosure keeps the invariant: an active consent is sealed, and the    *)
(* last entry of its trail is what made it active.                           *)
LEMMA DisclosureKeeps ==
  ASSUME IndInv, NEW b \in Banks, NEW t \in Traders, NEW s \in Scopes,
         ConsentedDataset(b, t, s)
  PROVE  IndInv'
<1>1. PICK c \in activeConsent(t, b) :
         /\ s \in consent[c].scopes
         /\ disclosed' = disclosed \cup {[consent |-> c, bank |-> b, trader |-> t,
                                          scope |-> s, at |-> Len(audit[c])]}
         /\ UNCHANGED <<consent, audit, expired, applications>>
  BY DEF ConsentedDataset
<1> DEFINE new == [consent |-> c, bank |-> b, trader |-> t, scope |-> s,
                   at |-> Len(audit[c])]
<1>2. /\ c \in Consents /\ consent[c] # None
      /\ consent[c].trader = t /\ consent[c].bank = b
      /\ consent[c].state = "ACTIVE"
  BY DEF activeConsent, Shareable
<1>3. /\ audit[c] \in Seq(AuditEntries) /\ consent[c] \in ConsentRows
  BY <1>2 DEF IndInv, TypeOK
<1>4. Len(audit[c]) \in Nat /\ DOMAIN audit[c] = 1..Len(audit[c])
  BY <1>3
<1>5. /\ new \in [consent : Consents, bank : Banks, trader : Traders,
                   scope : Scopes, at : Nat]
      /\ new.consent = c /\ new.bank = b /\ new.trader = t /\ new.scope = s
      /\ new.at = Len(audit[c])
  BY <1>2, <1>4
<1>6. /\ disclosed' = disclosed \cup {new}
      /\ UNCHANGED <<consent, audit, expired, application, approvals, call>>
  BY <1>1 DEF applications
<1> HIDE DEF new
<1>7. TypeOK' /\ TrailTellsState' /\ SealIsTheActivation'
  <2>1. TypeOK'
    BY <1>5, <1>6 DEF IndInv, TypeOK
  <2>2. QED
    BY <1>6, <2>1, TrailsStay
<1>8. DisclosedAsGranted'
  <2>1. Len(audit[c]) \in DOMAIN audit[c] /\ audit[c][Len(audit[c])].to = "ACTIVE"
    BY <1>2, <1>4 DEF IndInv, TrailTellsState
  <2>2. PICK n \in DOMAIN audit[c] :
           Activated(audit[c], consent[c].trader, consent[c].seal, n)
    BY <1>2 DEF IndInv, SealIsTheActivation
  <2>3. consent[c].seal \in Principals
    BY <1>2, <1>3 DEF ConsentRows, IndInv, SealIsTheActivation
  <2>4. n \in 1..new.at /\ Activated(audit[c], new.trader, consent[c].seal, n)
    BY <1>2, <1>4, <1>5, <2>2
  <2>5. \E m \in 1..new.at, p \in Principals : Activated(audit[c], new.trader, p, m)
    BY <2>3, <2>4
  <2>6. QED
    BY <1>1, <1>2, <1>5, <1>6, <2>1, <2>5 DEF IndInv, DisclosedAsGranted
<1>9. FinancedWithConsent' /\ ApprovalInv' /\ CallInv'
  BY <1>6, RestKeeps DEF Consented
<1>10. QED
  BY <1>7, <1>8, <1>9 DEF IndInv

-----------------------------------------------------------------------------
(* Applications *)

(* What holds of the consents survives the steps of the applications. *)
LEMMA ConsentsStay ==
  ASSUME IndInv, UNCHANGED consents
  PROVE  /\ TrailTellsState' /\ SealIsTheActivation' /\ DisclosedAsGranted'
         /\ \A t, b : Consented(t, b)' <=> Consented(t, b)
<1>1. UNCHANGED <<consent, audit, disclosed>>
  BY DEF consents
<1>2. \A t, b : Consented(t, b)' <=> Consented(t, b)
  BY <1>1 DEF Consented
<1>3. QED
  BY <1>1, <1>2, TrailsStay

(* A submission keeps the invariant. *)
LEMMA SubmitKeeps ==
  ASSUME IndInv, NEW a \in Applications, NEW t \in Traders, NEW b \in Banks,
         NEW c \in Consents, NEW roles \in Assignments,
         SubmitApplication(a, t, b, c, roles)
  PROVE  IndInv'
<1> DEFINE new == [trader |-> t, bank |-> b, roles |-> roles,
                   state |-> "APPLICATION", bound |-> FALSE, version |-> 1]
<1>1. new \in ApplicationRows
  BY DEF ApplicationRows, States
<1>2. /\ new # None /\ new.state = "APPLICATION"
  BY <1>1, ConstantsAssumption
<1>3. /\ application[a] = None
      /\ application' = [application EXCEPT ![a] = new]
      /\ UNCHANGED <<approvals, call>> /\ UNCHANGED consents
  BY DEF SubmitApplication
<1> HIDE DEF new
<1>4. TypeOK'
  BY <1>1, <1>3 DEF IndInv, TypeOK, consents
<1>5. /\ application'[a] = new
      /\ \A k \in Applications : k # a => application'[k] = application[k]
  BY <1>3 DEF IndInv, TypeOK
<1>6. FinancedWithConsent'
  BY <1>2, <1>3, <1>5 DEF IndInv, FinancedWithConsent, Financed, Cleared, consents
<1>7. ApprovalInv'
  <2>1. approvals'[a] = << >> /\ Len(approvals'[a]) = 0 /\ DOMAIN approvals'[a] = {}
    BY <1>3 DEF IndInv, ApprovalInv
  <2>2. QED
    BY <1>2, <1>3, <1>5, <2>1 DEF IndInv, ApprovalInv
<1>8. CallInv'
  <2>1. \A h \in Handlers : call[h] # None =>
           call[h].application \in Applications /\ call[h].application # a
    BY <1>3 DEF IndInv, TypeOK, Calls, CallInv
  <2>2. QED
    BY <1>3, <1>5, <2>1, ConsentsStay DEF IndInv, CallInv
<1>9. QED
  BY <1>3, <1>4, <1>6, <1>7, <1>8, ConsentsStay DEF IndInv

(* The fields of an updated row. *)
LEMMA UpdatedRow ==
  ASSUME IndInv, NEW a \in Applications, application[a] # None,
         NEW state \in States, NEW bound \in BOOLEAN, Update(a, state, bound)
  PROVE  /\ application' \in [Applications -> ApplicationRows \cup {None}]
         /\ application'[a] # None
         /\ application'[a].trader = application[a].trader
         /\ application'[a].bank = application[a].bank
         /\ application'[a].roles = application[a].roles
         /\ application'[a].state = state
         /\ application'[a].bound = bound
         /\ \A k \in Applications : k # a => application'[k] = application[k]
<1> DEFINE new == [trader |-> application[a].trader, bank |-> application[a].bank,
                   roles |-> application[a].roles, state |-> state,
                   bound |-> bound, version |-> application[a].version + 1]
<1>1. /\ application[a].trader \in Traders /\ application[a].bank \in Banks
      /\ application[a].roles \in Assignments /\ application[a].version \in Nat
  BY DEF IndInv, TypeOK, ApplicationRows
<1>2. new \in ApplicationRows
  BY <1>1 DEF ApplicationRows
<1>3. /\ new # None /\ new.trader = application[a].trader
      /\ new.bank = application[a].bank /\ new.roles = application[a].roles
      /\ new.state = state /\ new.bound = bound
  BY <1>2, ConstantsAssumption
<1>4. application' = [application EXCEPT ![a] = new]
  BY DEF Update
<1> HIDE DEF new
<1>5. QED
  BY <1>2, <1>3, <1>4 DEF IndInv, TypeOK

(* What handlers saw survives an update, since accounts stay bound. *)
LEMMA CallsKeep ==
  ASSUME IndInv, NEW a \in Applications, application[a] # None,
         NEW state \in States, NEW bound \in BOOLEAN, Update(a, state, bound),
         application[a].bound => bound, UNCHANGED consents,
         \A h \in Handlers : call'[h] \in {call[h], None}
  PROVE  CallInv'
<1> SUFFICES ASSUME NEW h \in Handlers, call'[h] # None
             PROVE  LET row == application'[call[h].application] IN
                    /\ row # None
                    /\ call[h].from = "KYC_CONSENT_CHECK"
                          /\ call[h].decision = "APPROVE" =>
                          Consented(row.trader, row.bank)
                    /\ call[h].from = "BANK_REVIEW"
                          /\ call[h].decision = "APPROVE" => row.bound
  <2>1. \A h \in Handlers : call'[h] # None => call'[h] = call[h]
    OBVIOUS
  <2>2. \A t, b : Consented(t, b)' <=> Consented(t, b)
    BY ConsentsStay
  <2>3. QED
    BY <2>1, <2>2 DEF CallInv
<1>1. call[h] # None /\ call[h].application \in Applications
  BY DEF IndInv, TypeOK, Calls
<1>2. LET row == application[call[h].application] IN
      /\ row # None
      /\ call[h].from = "KYC_CONSENT_CHECK" /\ call[h].decision = "APPROVE" =>
            Consented(row.trader, row.bank)
      /\ call[h].from = "BANK_REVIEW" /\ call[h].decision = "APPROVE" => row.bound
  BY <1>1 DEF IndInv, CallInv
<1>3. CASE call[h].application = a
  BY <1>2, <1>3, UpdatedRow
<1>4. CASE call[h].application # a
  BY <1>1, <1>2, <1>4, UpdatedRow
<1>5. QED
  BY <1>3, <1>4

(* The start of the review keeps the invariant. *)
LEMMA BeginReviewKeeps ==
  ASSUME IndInv, NEW a \in Applications, BeginReview(a)
  PROVE  IndInv'
<1>1. /\ application[a] # None /\ application[a].state = "APPLICATION"
      /\ application[a].bound \in BOOLEAN
      /\ Update(a, "KYC_CONSENT_CHECK", application[a].bound)
      /\ UNCHANGED consents /\ UNCHANGED <<approvals, call>>
      /\ "KYC_CONSENT_CHECK" \in States
  BY DEF BeginReview, IndInv, TypeOK, ApplicationRows, States, DecisionStates
<1>2. /\ application' \in [Applications -> ApplicationRows \cup {None}]
      /\ application'[a] # None
      /\ application'[a].state = "KYC_CONSENT_CHECK"
      /\ application'[a].roles = application[a].roles
      /\ \A k \in Applications : k # a => application'[k] = application[k]
  BY <1>1, UpdatedRow
<1>3. TypeOK'
  BY <1>1, <1>2 DEF IndInv, TypeOK, consents
<1>4. FinancedWithConsent'
  BY <1>1, <1>2 DEF IndInv, FinancedWithConsent, Financed, Cleared, consents
<1>5. ApprovalInv'
  BY <1>1, <1>2 DEF IndInv, ApprovalInv, Rank
<1>6. CallInv'
  BY <1>1, CallsKeep
<1>7. QED
  BY <1>1, <1>3, <1>4, <1>5, <1>6, ConsentsStay DEF IndInv

(* The binding of the accounts keeps the invariant. *)
LEMMA BindKeeps ==
  ASSUME IndInv, NEW a \in Applications, BindLedgerAccounts(a)
  PROVE  IndInv'
<1>1. /\ application[a] # None /\ application[a].state \in States
      /\ Update(a, application[a].state, TRUE)
      /\ UNCHANGED consents /\ UNCHANGED <<approvals, call>>
  BY DEF BindLedgerAccounts, IndInv, TypeOK, ApplicationRows
<1>2. /\ application' \in [Applications -> ApplicationRows \cup {None}]
      /\ application'[a] # None
      /\ application'[a].state = application[a].state
      /\ application'[a].roles = application[a].roles
      /\ application'[a].trader = application[a].trader
      /\ application'[a].bank = application[a].bank
      /\ application'[a].bound = TRUE
      /\ \A k \in Applications : k # a => application'[k] = application[k]
  BY <1>1, UpdatedRow
<1>3. TypeOK'
  BY <1>1, <1>2 DEF IndInv, TypeOK, consents
<1>4. FinancedWithConsent'
  BY <1>1, <1>2 DEF IndInv, FinancedWithConsent, consents
<1>5. ApprovalInv'
  BY <1>1, <1>2 DEF IndInv, ApprovalInv
<1>6. CallInv'
  BY <1>1, CallsKeep
<1>7. QED
  BY <1>1, <1>3, <1>4, <1>5, <1>6, ConsentsStay DEF IndInv

(* The validation of a decision keeps the invariant: an active consent is    *)
(* sealed.                                                                   *)
LEMMA RecordDecisionKeeps ==
  ASSUME IndInv, NEW h \in Handlers, NEW a \in Applications,
         NEW d \in {"APPROVE", "REJECT"}, RecordDecision(h, a, d)
  PROVE  IndInv'
<1> DEFINE row == application[a]
           new == [application |-> a, decision |-> d, from |-> row.state,
                   version |-> row.version]
<1>1. row # None /\ row \in ApplicationRows /\ row.state \in DecisionStates
  BY DEF RecordDecision, IndInv, TypeOK
<1>2. new \in Calls /\ new # None
  BY <1>1, ConstantsAssumption DEF Calls, ApplicationRows
<1>3. new.application = a /\ new.decision = d /\ new.from = row.state
  OBVIOUS
<1>4. /\ call' = [call EXCEPT ![h] = new]
      /\ UNCHANGED consents /\ UNCHANGED <<application, approvals>>
      /\ row.state = "KYC_CONSENT_CHECK" /\ d = "APPROVE" =>
            activeConsent(row.trader, row.bank) # {}
      /\ row.state = "BANK_REVIEW" /\ d = "APPROVE" => row.bound
  BY DEF RecordDecision
<1> HIDE DEF new
<1>5. TypeOK'
  BY <1>2, <1>4 DEF IndInv, TypeOK, consents
<1>6. FinancedWithConsent' /\ ApprovalInv'
  BY <1>4 DEF IndInv, FinancedWithConsent, ApprovalInv, consents
<1>7. row.state = "KYC_CONSENT_CHECK" /\ d = "APPROVE" =>
         Consented(row.trader, row.bank)
  <2> SUFFICES ASSUME activeConsent(row.trader, row.bank) # {}
               PROVE  Consented(row.trader, row.bank)
    BY <1>4
  <2>1. PICK c \in activeConsent(row.trader, row.bank) : TRUE
    OBVIOUS
  <2>2. /\ c \in Consents /\ consent[c] # None /\ consent[c].state = "ACTIVE"
        /\ consent[c].trader = row.trader /\ consent[c].bank = row.bank
    BY <2>1 DEF activeConsent, Shareable
  <2>3. QED
    BY <2>2 DEF IndInv, SealIsTheActivation, Consented
<1>8. CallInv'
  <2>1. call'[h] = new /\ \A k \in Handlers : k # h => call'[k] = call[k]
    BY <1>4 DEF IndInv, TypeOK
  <2>2. QED
    BY <1>1, <1>3, <1>4, <1>7, <2>1, ConsentsStay DEF IndInv, CallInv
<1>9. QED
  BY <1>4, <1>5, <1>6, <1>8, ConsentsStay DEF IndInv

(* Giving a decision up keeps the invariant. *)
LEMMA AbandonKeeps ==
  ASSUME IndInv, NEW h \in Handlers, Abandon(h)
  PROVE  IndInv'
<1>1. /\ call' = [call EXCEPT ![h] = None]
      /\ UNCHANGED consents /\ UNCHANGED <<application, approvals>>
  BY DEF Abandon
<1>2. call'[h] = None /\ \A k \in Handlers : k # h => call'[k] = call[k]
  BY <1>1 DEF IndInv, TypeOK
<1>3. TypeOK'
  BY <1>1 DEF IndInv, TypeOK, consents
<1>4. FinancedWithConsent' /\ ApprovalInv'
  BY <1>1 DEF IndInv, FinancedWithConsent, ApprovalInv, consents
<1>5. CallInv'
  BY <1>1, <1>2, ConsentsStay DEF IndInv, CallInv
<1>6. QED
  BY <1>1, <1>3, <1>4, <1>5, ConsentsStay DEF IndInv

(* A recorded decision is the next entry of the trail. *)
LEMMA CommitKeeps ==
  ASSUME IndInv, NEW h \in Handlers, commitDecision(h)
  PROVE  IndInv'
<1> DEFINE a == call[h].application
           from == call[h].from
           d == call[h].decision
           to == StateAfter(from, d)
           new == [principal |-> application[a].roles[requiredRole[from]],
                   decision |-> d, from |-> from, to |-> to]
<1>1. /\ call[h] # None /\ a \in Applications /\ from \in DecisionStates
      /\ d \in {"APPROVE", "REJECT"}
  BY DEF commitDecision, IndInv, TypeOK, Calls
<1>2. /\ application[a] # None /\ application[a] \in ApplicationRows
      /\ application[a].state = from /\ application[a].bound \in BOOLEAN
      /\ application[a].roles \in Assignments
  BY <1>1 DEF commitDecision, IndInv, TypeOK, CallInv, ApplicationRows
<1>3. /\ to \in States
      /\ requiredRole[from] \in Roles
      /\ Rank[from] \in 1..6
      /\ d = "REJECT" => to = "DECLINED"
      /\ d = "APPROVE" => /\ to \in Financed /\ Rank[to] = Rank[from] + 1
                          /\ to \notin {"APPLICATION", "DECLINED"}
                          /\ from # "KYC_CONSENT_CHECK" => from \in Financed
                          /\ to = "BANK_REVIEW" <=> from = "KYC_CONSENT_CHECK"
                          /\ to \in Cleared /\ from # "BANK_REVIEW" => from \in Cleared
  BY <1>1 DEF StateAfter, approvedSuccessor, requiredRole, DecisionStates, States,
              Roles, Rank, Financed, Cleared
<1>4. new \in Approvals
  <2>1. application[a].roles[requiredRole[from]] \in Principals
    BY <1>2, <1>3, ConstantsAssumption
  <2>2. QED
    BY <1>1, <1>3, <2>1 DEF Approvals
<1>5. /\ new.from = from /\ new.decision = d
      /\ new.principal = application[a].roles[requiredRole[from]]
  OBVIOUS
<1>6. /\ Update(a, to, application[a].bound)
      /\ approvals' = [approvals EXCEPT ![a] = Append(approvals[a], new)]
      /\ call' = [call EXCEPT ![h] = None]
      /\ UNCHANGED consents
  BY DEF commitDecision
<1>7. /\ from = "KYC_CONSENT_CHECK" /\ d = "APPROVE" =>
            Consented(application[a].trader, application[a].bank)
      /\ from = "BANK_REVIEW" /\ d = "APPROVE" => application[a].bound
  BY <1>1 DEF IndInv, CallInv
<1> HIDE DEF new, to, from, d, a
<1>8. /\ application' \in [Applications -> ApplicationRows \cup {None}]
      /\ application'[a] # None
      /\ application'[a].trader = application[a].trader
      /\ application'[a].bank = application[a].bank
      /\ application'[a].roles = application[a].roles
      /\ application'[a].state = to
      /\ application'[a].bound = application[a].bound
      /\ \A k \in Applications : k # a => application'[k] = application[k]
  BY <1>1, <1>2, <1>3, <1>6, UpdatedRow
<1>9. approvals[a] \in Seq(Approvals)
  BY <1>1 DEF IndInv, TypeOK
<1>10. /\ approvals'[a] = Append(approvals[a], new)
       /\ \A k \in Applications : k # a => approvals'[k] = approvals[k]
  BY <1>1, <1>6 DEF IndInv, TypeOK
<1>11. TypeOK'
  <2>1. Append(approvals[a], new) \in Seq(Approvals)
    BY <1>4, <1>9
  <2>2. approvals' \in [Applications -> Seq(Approvals)]
    BY <1>6, <2>1 DEF IndInv, TypeOK
  <2>3. call' \in [Handlers -> Calls \cup {None}]
    BY <1>6 DEF IndInv, TypeOK
  <2>4. QED
    BY <1>6, <1>8, <2>2, <2>3 DEF IndInv, TypeOK, consents
<1>12. FinancedWithConsent'
  <2>1. application[a].state \in Financed =>
           Consented(application[a].trader, application[a].bank)
    BY <1>1, <1>2 DEF IndInv, FinancedWithConsent, Consented
  <2>2. application[a].state \in Cleared => application[a].bound
    BY <1>1, <1>2 DEF IndInv, FinancedWithConsent
  <2>3. to \in Financed => Consented(application[a].trader, application[a].bank)
    BY <1>1, <1>2, <1>3, <1>7, <2>1 DEF Financed, Cleared
  <2>4. to \in Cleared => application[a].bound
    BY <1>1, <1>2, <1>3, <1>7, <2>2 DEF Cleared
  <2>5. ASSUME NEW k \in Applications, application'[k] # None
        PROVE  /\ application'[k].state \in Financed =>
                     Consented(application'[k].trader, application'[k].bank)
               /\ application'[k].state \in Cleared => application'[k].bound
    <3>1. CASE k = a
      BY <1>8, <2>3, <2>4, <3>1
    <3>2. CASE k # a
      BY <1>8, <2>5, <3>2 DEF IndInv, FinancedWithConsent, Consented
    <3>3. QED
      BY <3>1, <3>2
  <2>6. UNCHANGED consent
    BY <1>6 DEF consents
  <2>7. QED
    BY <2>5, <2>6 DEF FinancedWithConsent, Consented
<1>13. ApprovalInv'
  <2>1. /\ Len(approvals[a]) \in Nat
        /\ Len(approvals'[a]) = Len(approvals[a]) + 1
        /\ approvals'[a][Len(approvals[a]) + 1] = new
        /\ DOMAIN approvals[a] = 1..Len(approvals[a])
        /\ DOMAIN approvals'[a] = 1..(Len(approvals[a]) + 1)
        /\ \A n \in 1..Len(approvals[a]) : approvals'[a][n] = approvals[a][n]
    BY <1>4, <1>9, <1>10
  <2>2. from \notin {"APPLICATION", "DECLINED"}
    BY <1>1 DEF DecisionStates
  <2>3. /\ Len(approvals[a]) = Rank[from] - 1
        /\ \A n \in DOMAIN approvals[a] :
              /\ approvals[a][n].decision = "APPROVE"
              /\ Rank[approvals[a][n].from] = n
              /\ approvals[a][n].principal =
                    application[a].roles[requiredRole[approvals[a][n].from]]
    BY <1>1, <1>2, <2>2 DEF IndInv, ApprovalInv
  <2>4. \A n \in DOMAIN approvals'[a] :
           \/ n = Rank[from] /\ approvals'[a][n] = new
           \/ n \in DOMAIN approvals[a] /\ approvals'[a][n] = approvals[a][n]
    <3>1. Rank[from] = Len(approvals[a]) + 1
      BY <1>3, <2>3
    <3>2. ASSUME NEW n \in DOMAIN approvals'[a]
          PROVE  n = Len(approvals[a]) + 1 \/ n \in 1..Len(approvals[a])
      BY <2>1
    <3>3. QED
      BY <2>1, <3>1, <3>2
  <2>5. \A n \in DOMAIN approvals'[a] :
           /\ Rank[approvals'[a][n].from] = n
           /\ approvals'[a][n].principal =
                 application'[a].roles[requiredRole[approvals'[a][n].from]]
    BY <1>5, <1>8, <2>3, <2>4
  <2>6. to \notin {"APPLICATION", "DECLINED"} =>
           /\ Len(approvals'[a]) = Rank[to] - 1
           /\ \A n \in DOMAIN approvals'[a] : approvals'[a][n].decision = "APPROVE"
    <3> SUFFICES ASSUME to \notin {"APPLICATION", "DECLINED"}
                 PROVE  /\ Len(approvals'[a]) = Rank[to] - 1
                        /\ \A n \in DOMAIN approvals'[a] :
                              approvals'[a][n].decision = "APPROVE"
      OBVIOUS
    <3>1. d = "APPROVE"
      BY <1>1, <1>3
    <3>2. Rank[to] = Rank[from] + 1 /\ Rank[from] \in 1..6
      BY <1>3, <3>1
    <3>3. Len(approvals'[a]) = Rank[to] - 1
      BY <2>1, <2>3, <3>2
    <3>4. QED
      BY <1>5, <2>3, <2>4, <3>1, <3>3
  <2>7. to # "APPLICATION"
    BY <1>1, <1>3
  <2>8. ASSUME NEW k \in Applications, k # a
        PROVE  application'[k] = application[k] /\ approvals'[k] = approvals[k]
    BY <1>8, <1>10, <2>8
  <2>9. ASSUME NEW k \in Applications, k # a
        PROVE  /\ application[k] = None => approvals'[k] = << >>
               /\ application[k] # None =>
                  /\ application[k].state = "APPLICATION" => Len(approvals'[k]) = 0
                  /\ application[k].state \notin {"APPLICATION", "DECLINED"} =>
                        /\ Len(approvals'[k]) = Rank[application[k].state] - 1
                        /\ \A n \in DOMAIN approvals'[k] :
                              approvals'[k][n].decision = "APPROVE"
                  /\ \A n \in DOMAIN approvals'[k] :
                        /\ Rank[approvals'[k][n].from] = n
                        /\ approvals'[k][n].principal =
                              application[k].roles[requiredRole[approvals'[k][n].from]]
    BY <2>8, <2>9 DEF IndInv, ApprovalInv
  <2>10. QED
    BY <1>8, <2>5, <2>6, <2>7, <2>8, <2>9 DEF ApprovalInv
<1>14. CallInv'
  <2>1. \A k \in Handlers : call'[k] \in {call[k], None}
    BY <1>6 DEF IndInv, TypeOK
  <2>2. QED
    BY <1>1, <1>2, <1>3, <1>6, <2>1, CallsKeep
<1>15. QED
  BY <1>6, <1>11, <1>12, <1>13, <1>14, ConsentsStay DEF IndInv

-----------------------------------------------------------------------------
(* Every step keeps the invariant. *)
LEMMA NextKeeps == IndInv /\ [Next]_vars => IndInv'
<1> SUFFICES ASSUME IndInv, [Next]_vars PROVE IndInv'
  OBVIOUS
<1>1. CASE ConsentStep
  BY <1>1, RequestKeeps, ConsentMoveKeeps, ExpireKeeps, DisclosureKeeps DEF ConsentStep
<1>2. CASE ApplicationStep
  BY <1>2, SubmitKeeps, BeginReviewKeeps, BindKeeps, RecordDecisionKeeps,
     CommitKeeps, AbandonKeeps DEF ApplicationStep
<1>3. CASE UNCHANGED vars
  <2>1. UNCHANGED consents /\ UNCHANGED <<application, approvals, call>>
    BY <1>3 DEF vars, applications
  <2>2. TypeOK'
    BY <2>1 DEF IndInv, TypeOK, consents
  <2>3. FinancedWithConsent' /\ ApprovalInv' /\ CallInv'
    BY <2>1, ConsentsStay, RestKeeps
  <2>4. QED
    BY <2>1, <2>2, <2>3, ConsentsStay DEF IndInv
<1>4. QED
  BY <1>1, <1>2, <1>3 DEF Next

(* The invariant holds in every reachable state. *)
THEOREM Inductive == Spec => []IndInv
BY InitInv, NextKeeps, PTL DEF Spec

(* Consents, trails, disclosures, applications and approvals are well typed. *)
THEOREM TypeCorrect == Spec => []TypeOK
<1>1. IndInv => TypeOK
  BY DEF IndInv
<1>2. QED
  BY <1>1, Inductive, PTL

(* Replaying the trail of a consent gives the state of its row.              *)
THEOREM TrailIsComplete == Spec => []TrailTellsState
<1>1. IndInv => TrailTellsState
  BY DEF IndInv
<1>2. QED
  BY <1>1, Inductive, PTL

(* A consent carries the seal of its activation by a second person.          *)
THEOREM SealIsKept == Spec => []SealIsTheActivation
<1>1. IndInv => SealIsTheActivation
  BY DEF IndInv
<1>2. QED
  BY <1>1, Inductive, PTL

(* Banks see what was granted to them, while it is granted.                  *)
THEOREM DisclosureIsGranted == Spec => []DisclosedAsGranted
<1>1. IndInv => DisclosedAsGranted
  BY DEF IndInv
<1>2. QED
  BY <1>1, Inductive, PTL

(* No financing without a consent of the same trader for the same bank.      *)
THEOREM FinancingIsConsented == Spec => []FinancedWithConsent
<1>1. IndInv => FinancedWithConsent
  BY DEF IndInv
<1>2. QED
  BY <1>1, Inductive, PTL

(* Each stage before the current one was approved by its party.              *)
THEOREM EveryPartyDecides == Spec => []NoPartySkipped
<1>1. ASSUME IndInv PROVE NoPartySkipped
  <2> SUFFICES ASSUME NEW a \in Applications, application[a] # None,
                      application[a].state # "DECLINED", NEW s \in DecisionStates,
                      Rank[s] < Rank[application[a].state]
               PROVE  \E n \in DOMAIN approvals[a] :
                         /\ approvals[a][n].from = s
                         /\ approvals[a][n].decision = "APPROVE"
                         /\ approvals[a][n].principal =
                               application[a].roles[requiredRole[s]]
    BY DEF NoPartySkipped
  <2>1. application[a].state \in States /\ approvals[a] \in Seq(Approvals)
    BY <1>1 DEF IndInv, TypeOK, ApplicationRows
  <2>2. Rank[s] \in 1..6 /\ Rank[application[a].state] \in 0..7
    BY <2>1 DEF Rank, States, DecisionStates
  <2>3. application[a].state # "APPLICATION"
    BY <2>2 DEF Rank
  <2>4. /\ Len(approvals[a]) = Rank[application[a].state] - 1
        /\ \A n \in DOMAIN approvals[a] :
              /\ approvals[a][n].decision = "APPROVE"
              /\ Rank[approvals[a][n].from] = n
              /\ approvals[a][n].principal =
                    application[a].roles[requiredRole[approvals[a][n].from]]
    BY <1>1, <2>3 DEF IndInv, ApprovalInv
  <2>5. DOMAIN approvals[a] = 1..Len(approvals[a])
    BY <2>1
  <2>6. Rank[s] \in DOMAIN approvals[a]
    BY <2>2, <2>4, <2>5
  <2>7. approvals[a][Rank[s]] \in Approvals
    BY <2>1, <2>6
  <2>8. approvals[a][Rank[s]].from \in DecisionStates
    BY <2>7 DEF Approvals
  <2>9. approvals[a][Rank[s]].from = s
    BY <2>4, <2>6, <2>8 DEF Rank, DecisionStates
  <2>10. QED
    BY <2>4, <2>6, <2>9
<1>2. QED
  BY <1>1, Inductive, PTL

(* No stage is decided twice. *)
THEOREM StageDecidedOnce == Spec => []DecidedOnce
<1>1. ASSUME IndInv PROVE DecidedOnce
  <2>1. ASSUME NEW a \in Applications
        PROVE  \A n \in DOMAIN approvals[a] : Rank[approvals[a][n].from] = n
    <3>1. CASE application[a] = None
      <4>1. approvals[a] = << >>
        BY <1>1, <3>1 DEF IndInv, ApprovalInv
      <4>2. QED
        BY <4>1
    <3>2. CASE application[a] # None
      BY <1>1, <3>2 DEF IndInv, ApprovalInv
    <3>3. QED
      BY <3>1, <3>2
  <2>2. QED
    BY <2>1 DEF DecidedOnce
<1>2. QED
  BY <1>1, Inductive, PTL

(* A closed application and a closed consent take no further step, whatever  *)
(* decision a handler still holds.                                           *)
THEOREM TerminalStays == Spec => TerminalIsFinal
<1>1. ASSUME IndInv, [Next]_vars, NEW a \in Applications, application[a] # None,
             Terminal(application[a].state)
      PROVE  application'[a] = application[a] /\ approvals'[a] = approvals[a]
  <2>1. application[a].state \notin DecisionStates \cup {"APPLICATION"}
    BY <1>1 DEF Terminal, DecisionStates
  <2>2. CASE ConsentStep \/ UNCHANGED vars
    <3>1. CASE ConsentStep
      <4>1. CASE \E c \in Consents, p \in Traders \cup Checkers : consentMove(c, p)
        BY <4>1 DEF consentMove, ActivateConsent, RejectConsent,
           RequestRevocation, ConfirmRevocation, RejectRevocation,
           transitionConsent, applications
      <4>2. CASE ~ \E c \in Consents, p \in Traders \cup Checkers : consentMove(c, p)
        BY <3>1, <4>2 DEF ConsentStep, RequestConsent, Expire,
           ConsentedDataset, applications
      <4> QED
        BY <4>1, <4>2
    <3>2. CASE UNCHANGED vars
      BY <3>2 DEF vars, applications
    <3> QED
      BY <2>2, <3>1, <3>2
  <2>3. ASSUME NEW k \in Applications, k # a, NEW s, NEW bound, Update(k, s, bound)
        PROVE  application'[a] = application[a]
    BY <2>3 DEF Update, IndInv, TypeOK
  <2>4. ASSUME NEW h \in Handlers, commitDecision(h)
        PROVE  application'[a] = application[a] /\ approvals'[a] = approvals[a]
    <3>1. /\ call[h].application \in Applications /\ call[h].from \in DecisionStates
          /\ application[call[h].application].state = call[h].from
      BY <1>1, <2>4 DEF commitDecision, IndInv, TypeOK, Calls
    <3>2. call[h].application # a
      BY <2>1, <3>1
    <3>3. approvals'[a] = approvals[a]
      BY <1>1, <2>4, <3>1, <3>2 DEF commitDecision, IndInv, TypeOK
    <3>4. QED
      BY <2>3, <2>4, <3>1, <3>2, <3>3 DEF commitDecision
  <2>5. ASSUME NEW k \in Applications, BeginReview(k) \/ BindLedgerAccounts(k)
        PROVE  application'[a] = application[a] /\ approvals'[a] = approvals[a]
    <3>1. k # a
      BY <1>1, <2>1, <2>5 DEF BeginReview, BindLedgerAccounts
    <3>2. QED
      BY <2>3, <2>5, <3>1 DEF BeginReview, BindLedgerAccounts
  <2>6. ASSUME NEW k \in Applications, NEW t \in Traders, NEW b \in Banks,
               NEW c \in Consents, NEW roles \in Assignments,
               SubmitApplication(k, t, b, c, roles)
        PROVE  application'[a] = application[a] /\ approvals'[a] = approvals[a]
    BY <1>1, <2>6 DEF SubmitApplication, IndInv, TypeOK
  <2>7. CASE ApplicationStep
    BY <2>4, <2>5, <2>6, <2>7 DEF ApplicationStep, RecordDecision, Abandon
  <2>8. QED
    BY <1>1, <2>2, <2>7 DEF Next
<1>2. ASSUME IndInv, [Next]_vars, NEW c \in Consents, consent[c] # None,
             consent[c].state \in {"REJECTED", "REVOKED"}
      PROVE  consent'[c] = consent[c]
  <2>1. ASSUME NEW k \in Consents, NEW p, consentMove(k, p)
        PROVE  consent'[c] = consent[c]
    <3>1. /\ consent[k].state \notin {"REJECTED", "REVOKED"}
          /\ \E row : consent' = [consent EXCEPT ![k] = row]
      BY <2>1 DEF consentMove, ActivateConsent, RejectConsent, RequestRevocation,
         ConfirmRevocation, RejectRevocation, transitionConsent
    <3>2. k # c
      BY <1>2, <3>1
    <3>3. QED
      BY <1>2, <3>1, <3>2 DEF IndInv, TypeOK
  <2>2. ASSUME NEW k \in Consents, NEW t \in Traders, NEW b \in Banks,
               NEW scopes \in SUBSET Scopes, RequestConsent(k, t, b, scopes)
        PROVE  consent'[c] = consent[c]
    BY <1>2, <2>2 DEF RequestConsent, IndInv, TypeOK
  <2>3. CASE ConsentStep
    BY <2>1, <2>2, <2>3 DEF ConsentStep, Expire, ConsentedDataset
  <2>4. CASE ApplicationStep \/ UNCHANGED vars
    BY <2>4 DEF ApplicationStep, SubmitApplication, BeginReview, BindLedgerAccounts,
       RecordDecision, commitDecision, Abandon, consents, vars
  <2>5. QED
    BY <1>2, <2>3, <2>4 DEF Next
<1>3. IndInv /\ [Next]_vars =>
         [/\ \A a \in Applications :
                application[a] # None /\ Terminal(application[a].state) =>
                   application'[a] = application[a] /\ approvals'[a] = approvals[a]
          /\ \A c \in Consents :
                consent[c] # None /\ consent[c].state \in {"REJECTED", "REVOKED"} =>
                   consent'[c] = consent[c]]_vars
  BY <1>1, <1>2
<1>4. QED
  BY <1>3, Inductive, PTL DEF Spec, TerminalIsFinal
=============================================================================
