SPECIFICATION Spec
CONSTANTS
    trader = trader
    kyc = kyc
    credit = credit
    customs = customs
    treasury = treasury
    Principals <- MCPrincipals
    Traders = {trader}
    Checkers = {k1, k2}
    Banks = {b1, b2}
    Scopes = {kycFile}
    Consents = {c1, c2}
    Applications = {a1}
    Assignments <- MCAssignments
    Handlers = {h1, h2}
    None = None
    MaxVersion = 4
SYMMETRY Interchangeable
INVARIANTS
    TrailTellsState
    SealIsTheActivation
    DisclosedAsGranted
    FinancedWithConsent
    NoPartySkipped
CHECK_DEADLOCK FALSE
