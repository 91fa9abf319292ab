---------------------------- MODULE TradeFinance ----------------------------
(***************************************************************************)
(* The trade-finance rail (internal/tradefinance): traders' consents under *)
(* maker and checker, the banks' reads of consented datasets, and          *)
(* applications that pass from party to party.                             *)
(*                                                                         *)
(* A store call that reads a row and then updates it under its version is  *)
(* one step: nothing but that row is read.  RecordDecision also reads the  *)
(* consents, outside of its transaction, so it is two steps.  Audit        *)
(* entries are written under the lock of their consent's row; the hash     *)
(* chain is stood for by the order of the entries.                         *)
(***************************************************************************)
EXTENDS Naturals, Sequences

CONSTANTS
    Principals,     \* whoever may be a party of an application
    Traders,        \* principals with the realm role trader
    Checkers,       \* principals with the realm role compliance-checker
    Banks, Scopes,
    Consents, Applications,     \* ids
    Assignments,    \* the role assignments that requests may carry
    Handlers,       \* decisions served at the same time
    None,           \* an absent row or field
    MaxVersion      \* bound: the moves of one consent

Roles == {"BANK_KYC_OFFICER", "BANK_CREDIT_OFFICER", "CUSTOMS_COMPLIANCE_OFFICER",
          "BANK_TREASURY_OFFICER", "TRADER"}

ConsentStates == {"PENDING_CHECKER", "ACTIVE", "REJECTED", "REVOCATION_PENDING",
                  "REVOKED"}

(* The states a party decides, in their order. *)
DecisionStates == {"KYC_CONSENT_CHECK", "BANK_REVIEW", "REGULATORY_CLEARANCE",
                   "APPROVED", "DISBURSEMENT_PENDING", "DISBURSED"}

States == DecisionStates \cup {"APPLICATION", "SETTLED", "DECLINED"}

requiredRole ==
    [KYC_CONSENT_CHECK    |-> "BANK_KYC_OFFICER",
     BANK_REVIEW          |-> "BANK_CREDIT_OFFICER",
     REGULATORY_CLEARANCE |-> "CUSTOMS_COMPLIANCE_OFFICER",
     APPROVED             |-> "TRADER",
     DISBURSEMENT_PENDING |-> "BANK_TREASURY_OFFICER",
     DISBURSED            |-> "TRADER"]

(* Mutant: clearance is taken for granted. *)
approvedSuccessorUncleared ==
    [KYC_CONSENT_CHECK    |-> "BANK_REVIEW",
     BANK_REVIEW          |-> "APPROVED",
     REGULATORY_CLEARANCE |-> "APPROVED",
     APPROVED             |-> "DISBURSEMENT_PENDING",
     DISBURSEMENT_PENDING |-> "DISBURSED",
     DISBURSED            |-> "SETTLED"]

approvedSuccessor ==
    [KYC_CONSENT_CHECK    |-> "BANK_REVIEW",
     BANK_REVIEW          |-> "REGULATORY_CLEARANCE",
     REGULATORY_CLEARANCE |-> "APPROVED",
     APPROVED             |-> "DISBURSEMENT_PENDING",
     DISBURSEMENT_PENDING |-> "DISBURSED",
     DISBURSED            |-> "SETTLED"]

Terminal(s) == s \in {"DECLINED", "SETTLED"}

ConsentRows == [trader : Traders, bank : Banks, scopes : SUBSET Scopes,
                state : ConsentStates, seal : Principals \cup {None},
                version : Nat]

AuditEntries ==
    [actor : Principals,
     action : {"REQUESTED", "ACTIVATED", "REJECTED", "REVOCATION_REQUESTED",
               "REVOKED", "REVOCATION_REJECTED"},
     from : ConsentStates \cup {""}, to : ConsentStates]

ApplicationRows == [trader : Traders, bank : Banks, roles : Assignments,
                    state : States, bound : BOOLEAN, version : Nat]

Approvals == [principal : Principals, decision : {"APPROVE", "REJECT"},
              from : DecisionStates, to : States]

Calls == [application : Applications, decision : {"APPROVE", "REJECT"},
          from : DecisionStates, version : Nat]

ASSUME ConstantsAssumption ==
    /\ Traders \cup Checkers \subseteq Principals
    /\ Assignments \in SUBSET [Roles -> Principals]
    /\ MaxVersion \in Nat
    /\ None \notin Principals
    /\ None \notin ConsentRows \cup ApplicationRows \cup Calls

VARIABLES
    consent,    \* tf_consents
    audit,      \* tf_consent_audit, per consent
    expired,    \* consents whose expires_at has passed
    disclosed,  \* what banks were shown, and how long the trail was then
    application,    \* tf_applications with their tf_role_assignments
    approvals,      \* tf_approvals, per application
    call            \* per handler: the decision it validated

consents == <<consent, audit, expired, disclosed>>
applications == <<application, approvals, call>>
vars == <<consents, applications>>

-----------------------------------------------------------------------------
(* Consents. *)

Entry(actor, action, from, to) ==
    [actor |-> actor, action |-> action, from |-> from, to |-> to]

(* tf_consents_open_idx *)
HasOpenConsent(t, b) ==
    \E c \in Consents :
       /\ consent[c] # None
       /\ consent[c].trader = t /\ consent[c].bank = b
       /\ consent[c].state \in {"PENDING_CHECKER", "ACTIVE", "REVOCATION_PENDING"}

NewConsent(t, b, scopes) ==
    [trader |-> t, bank |-> b, scopes |-> scopes, state |-> "PENDING_CHECKER",
     seal |-> None, version |-> 1]

(* POST /consents: the maker is the trader itself. *)
RequestConsent(c, t, b, scopes) ==
    /\ consent[c] = None
    /\ scopes # {}
    /\ ~HasOpenConsent(t, b)
    /\ consent' = [consent EXCEPT ![c] = NewConsent(t, b, scopes)]
    /\ audit' = [audit EXCEPT ![c] = <<Entry(t, "REQUESTED", "", "PENDING_CHECKER")>>]
    /\ UNCHANGED <<expired, disclosed, applications>>

(* Mutant: the trail is not written. *)
transitionConsentUnaudited(c, from, to, actor, action, seal) ==
    /\ consent[c] # None
    /\ consent[c].state = from
    /\ consent[c].version < MaxVersion
    /\ consent' = [consent EXCEPT ![c] =
                     [trader |-> consent[c].trader, bank |-> consent[c].bank,
                      scopes |-> consent[c].scopes, state |-> to, seal |-> seal,
                      version |-> consent[c].version + 1]]
    /\ UNCHANGED <<audit, expired, disclosed, applications>>

transitionConsent(c, from, to, actor, action, seal) ==
    /\ consent[c] # None
    /\ consent[c].state = from
    /\ consent[c].version < MaxVersion
    /\ consent' = [consent EXCEPT ![c] =
                     [trader |-> consent[c].trader, bank |-> consent[c].bank,
                      scopes |-> consent[c].scopes, state |-> to, seal |-> seal,
                      version |-> consent[c].version + 1]]
    /\ audit' = [audit EXCEPT ![c] = Append(@, Entry(actor, action, from, to))]
    /\ UNCHANGED <<expired, disclosed, applications>>

(* Activation seals the consent with the checker's name in an envelope. *)
ActivateConsent(c, p) ==
    /\ transitionConsent(c, "PENDING_CHECKER", "ACTIVE", p, "ACTIVATED", p)
    /\ p # consent[c].trader

RejectConsent(c, p) ==
    /\ transitionConsent(c, "PENDING_CHECKER", "REJECTED", p, "REJECTED",
                         consent[c].seal)
    /\ p # consent[c].trader

RequestRevocation(c, p) ==
    /\ transitionConsent(c, "ACTIVE", "REVOCATION_PENDING", p,
                         "REVOCATION_REQUESTED", consent[c].seal)
    /\ p = consent[c].trader

ConfirmRevocation(c, p) ==
    /\ transitionConsent(c, "REVOCATION_PENDING", "REVOKED", p, "REVOKED",
                         consent[c].seal)
    /\ p # consent[c].trader

(* Mutant: the consent is sealed again. *)
RejectRevocationSealing(c, p) ==
    /\ transitionConsent(c, "REVOCATION_PENDING", "ACTIVE", p,
                         "REVOCATION_REJECTED", p)
    /\ p # consent[c].trader

RejectRevocation(c, p) ==
    /\ transitionConsent(c, "REVOCATION_PENDING", "ACTIVE", p,
                         "REVOCATION_REJECTED", consent[c].seal)
    /\ p # consent[c].trader

(* consentMove: a trader or a checker asks for a move. *)
consentMove(c, p) ==
    \/ ActivateConsent(c, p)
    \/ RejectConsent(c, p)
    \/ RequestRevocation(c, p)
    \/ ConfirmRevocation(c, p)
    \/ RejectRevocation(c, p)

(* Time passes expires_at. *)
Expire(c) ==
    /\ consent[c] # None
    /\ c \notin expired
    /\ expired' = expired \cup {c}
    /\ UNCHANGED <<consent, audit, disclosed, applications>>

(* Mutant: a requested revocation does not suspend sharing. *)
ShareableUntilRevoked(c) ==
    /\ consent[c].state \in {"ACTIVE", "REVOCATION_PENDING"}
    /\ c \notin expired

Shareable(c) == consent[c].state = "ACTIVE" /\ c \notin expired

(* The open index leaves at most one ACTIVE consent of a trader and a bank.  *)
activeConsent(t, b) ==
    {c \in Consents : /\ consent[c] # None
                      /\ consent[c].trader = t /\ consent[c].bank = b
                      /\ Shareable(c)}

(* GET /bank/datasets/{trader}/{scope}, by a client of bank b. *)
ConsentedDataset(b, t, s) ==
    \E c \in activeConsent(t, b) :
       /\ s \in consent[c].scopes
       /\ disclosed' = disclosed \cup {[consent |-> c, bank |-> b, trader |-> t,
                                        scope |-> s, at |-> Len(audit[c])]}
       /\ UNCHANGED <<consent, audit, expired, applications>>

-----------------------------------------------------------------------------
(* Applications. *)

ValidateRoleAssignments(roles) == \A r, q \in Roles : roles[r] = roles[q] => r = q

(* The consent must exist; whose it is does not matter yet. *)
SubmitApplication(a, t, b, c, roles) ==
    /\ application[a] = None
    /\ consent[c] # None
    /\ roles["TRADER"] = t
    /\ ValidateRoleAssignments(roles)
    /\ application' = [application EXCEPT ![a] =
                         [trader |-> t, bank |-> b, roles |-> roles,
                          state |-> "APPLICATION", bound |-> FALSE, version |-> 1]]
    /\ UNCHANGED <<consents, approvals, call>>

(* An UPDATE of tf_applications. *)
Update(a, state, bound) ==
    application' = [application EXCEPT ![a] =
                      [trader |-> application[a].trader, bank |-> application[a].bank,
                       roles |-> application[a].roles, state |-> state,
                       bound |-> bound, version |-> application[a].version + 1]]

(* Transition with the move BeginReview. *)
BeginReview(a) ==
    /\ application[a] # None
    /\ application[a].state = "APPLICATION"
    /\ Update(a, "KYC_CONSENT_CHECK", application[a].bound)
    /\ UNCHANGED <<consents, approvals, call>>

(* An identical replay changes nothing, other accounts are refused. *)
BindLedgerAccounts(a) ==
    /\ application[a] # None
    /\ ~Terminal(application[a].state)
    /\ ~application[a].bound
    /\ Update(a, application[a].state, TRUE)
    /\ UNCHANGED <<consents, approvals, call>>

(* Mutant: the KYC check asks for no consent. *)
RecordDecisionUngated(h, a, decision) ==
    LET row == application[a] IN
    /\ call[h] = None
    /\ row # None
    /\ row.state \in DecisionStates
    /\ row.state = "BANK_REVIEW" /\ decision = "APPROVE" => row.bound
    /\ call' = [call EXCEPT ![h] =
                  [application |-> a, decision |-> decision, from |-> row.state,
                   version |-> row.version]]
    /\ UNCHANGED <<consents, application, approvals>>

(* RecordDecision up to commitDecision: the decision of the party whose turn *)
(* it is.                                                                    *)
RecordDecision(h, a, decision) ==
    LET row == application[a] IN
    /\ call[h] = None
    /\ row # None
    /\ row.state \in DecisionStates
    /\ row.state = "KYC_CONSENT_CHECK" /\ decision = "APPROVE" =>
          activeConsent(row.trader, row.bank) # {}
    /\ row.state = "BANK_REVIEW" /\ decision = "APPROVE" => row.bound
    /\ call' = [call EXCEPT ![h] =
                  [application |-> a, decision |-> decision, from |-> row.state,
                   version |-> row.version]]
    /\ UNCHANGED <<consents, application, approvals>>

StateAfter(from, decision) ==
    IF decision = "REJECT" THEN "DECLINED" ELSE approvedSuccessor[from]

commitDecision(h) ==
    LET a == call[h].application
        from == call[h].from
        to == StateAfter(from, call[h].decision) IN
    /\ call[h] # None
    /\ application[a].state = from
    /\ application[a].version = call[h].version
    /\ Update(a, to, application[a].bound)
    /\ approvals' = [approvals EXCEPT ![a] = Append(@,
                       [principal |-> application[a].roles[requiredRole[from]],
                        decision |-> call[h].decision, from |-> from, to |-> to])]
    /\ call' = [call EXCEPT ![h] = None]
    /\ UNCHANGED consents

(* A conflict, another error, or the end of the process. *)
Abandon(h) ==
    /\ call[h] # None
    /\ call' = [call EXCEPT ![h] = None]
    /\ UNCHANGED <<consents, application, approvals>>

-----------------------------------------------------------------------------
Init ==
    /\ consent = [c \in Consents |-> None]
    /\ audit = [c \in Consents |-> << >>]
    /\ expired = {} /\ disclosed = {}
    /\ application = [a \in Applications |-> None]
    /\ approvals = [a \in Applications |-> << >>]
    /\ call = [h \in Handlers |-> None]

ConsentStep ==
    \/ \E c \in Consents, t \in Traders, b \in Banks, scopes \in SUBSET Scopes :
          RequestConsent(c, t, b, scopes)
    \/ \E c \in Consents, p \in Traders \cup Checkers : consentMove(c, p)
    \/ \E c \in Consents : Expire(c)
    \/ \E b \in Banks, t \in Traders, s \in Scopes : ConsentedDataset(b, t, s)

ApplicationStep ==
    \/ \E a \in Applications, t \in Traders, b \in Banks, c \in Consents,
          roles \in Assignments : SubmitApplication(a, t, b, c, roles)
    \/ \E a \in Applications : BeginReview(a) \/ BindLedgerAccounts(a)
    \/ \E h \in Handlers, a \in Applications, d \in {"APPROVE", "REJECT"} :
          RecordDecision(h, a, d)
    \/ \E h \in Handlers : commitDecision(h) \/ Abandon(h)

Next == ConsentStep \/ ApplicationStep

Spec == Init /\ [][Next]_vars

-----------------------------------------------------------------------------
TypeOK ==
    /\ consent \in [Consents -> ConsentRows \cup {None}]
    /\ audit \in [Consents -> Seq(AuditEntries)]
    /\ expired \in SUBSET Consents
    /\ disclosed \in SUBSET [consent : Consents, bank : Banks, trader : Traders,
                             scope : Scopes, at : Nat]
    /\ application \in [Applications -> ApplicationRows \cup {None}]
    /\ approvals \in [Applications -> Seq(Approvals)]
    /\ call \in [Handlers -> Calls \cup {None}]

(* The immutable trail of a consent has one entry per version, each entry    *)
(* starts where the one before it ended, and the last one is where the row   *)
(* is: replaying the trail gives the state.                                  *)
TrailTellsState ==
    \A c \in Consents : consent[c] # None =>
       LET trail == audit[c] IN
       /\ Len(trail) = consent[c].version
       /\ Len(trail) > 0
       /\ trail[Len(trail)].to = consent[c].state
       /\ \A n \in 1..(Len(trail) - 1) : trail[n + 1].from = trail[n].to

(* The n-th entry of a trail is the activation by p, who is not the trader.  *)
Activated(trail, trader, p, n) ==
    /\ n \in DOMAIN trail
    /\ trail[n].action = "ACTIVATED"
    /\ trail[n].actor = p
    /\ p # trader

(* The seal of a consent is the one its activation put there, through every  *)
(* later move, and no consent was ever active without it.                    *)
SealIsTheActivation ==
    \A c \in Consents : consent[c] # None =>
       /\ consent[c].state \notin {"PENDING_CHECKER", "REJECTED"} <=>
             consent[c].seal # None
       /\ consent[c].seal # None =>
             \E n \in DOMAIN audit[c] :
                Activated(audit[c], consent[c].trader, consent[c].seal, n)

(* A bank saw only what was granted to it, and saw it after a second person  *)
(* activated the grant and while no revocation was pending or confirmed.     *)
DisclosedAsGranted ==
    \A d \in disclosed :
       LET c == d.consent IN
       /\ consent[c] # None
       /\ consent[c].bank = d.bank /\ consent[c].trader = d.trader
       /\ d.scope \in consent[c].scopes
       /\ d.at \in DOMAIN audit[c] /\ audit[c][d.at].to = "ACTIVE"
       /\ \E n \in 1..d.at, p \in Principals : Activated(audit[c], d.trader, p, n)

(* The states behind the KYC check, and behind the credit officer's review.  *)
Cleared == {"REGULATORY_CLEARANCE", "APPROVED", "DISBURSEMENT_PENDING",
            "DISBURSED", "SETTLED"}
Financed == Cleared \cup {"BANK_REVIEW"}

(* No consent, no financing: what passed the KYC check had a consent of its  *)
(* own trader for its own bank that a second person activated, although      *)
(* decisions, revocations and expiry race.  What the credit officer approved *)
(* has its ledger accounts.                                                  *)
FinancedWithConsent ==
    \A a \in Applications : application[a] # None =>
       /\ application[a].state \in Financed =>
             \E c \in Consents : /\ consent[c] # None
                                 /\ consent[c].trader = application[a].trader
                                 /\ consent[c].bank = application[a].bank
                                 /\ consent[c].seal # None
       /\ application[a].state \in Cleared => application[a].bound

(* The place of a state in the chain of decisions. *)
Rank == [APPLICATION |-> 0, KYC_CONSENT_CHECK |-> 1, BANK_REVIEW |-> 2,
         REGULATORY_CLEARANCE |-> 3, APPROVED |-> 4, DISBURSEMENT_PENDING |-> 5,
         DISBURSED |-> 6, SETTLED |-> 7]

(* Every stage before the current one was approved by the party bound to it. *)
NoPartySkipped ==
    \A a \in Applications : application[a] # None /\ application[a].state # "DECLINED" =>
       \A s \in DecisionStates : Rank[s] < Rank[application[a].state] =>
          \E n \in DOMAIN approvals[a] :
             /\ approvals[a][n].from = s
             /\ approvals[a][n].decision = "APPROVE"
             /\ approvals[a][n].principal = application[a].roles[requiredRole[s]]

(* A stage is decided once: of two decisions validated against the same row  *)
(* only one is recorded.                                                     *)
DecidedOnce ==
    \A a \in Applications : \A m, n \in DOMAIN approvals[a] :
       approvals[a][m].from = approvals[a][n].from => m = n

(* Whatever handlers still hold, a declined or settled application and a     *)
(* rejected or revoked consent stay as they are.                             *)
TerminalIsFinal ==
    [][/\ \A a \in Applications :
             application[a] # None /\ Terminal(application[a].state) =>
                application'[a] = application[a] /\ approvals'[a] = approvals[a]
       /\ \A c \in Consents :
             consent[c] # None /\ consent[c].state \in {"REJECTED", "REVOKED"} =>
                consent'[c] = consent[c]]_vars
=============================================================================
