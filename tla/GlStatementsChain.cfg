SPECIFICATION Spec
CONSTANTS
    dues1 = dues1
    dues2 = dues2
    levy = levy
    lng = lng
    waiver = waiver
    whole = whole
    fx1 = fx1
    fx2 = fx2
    january = january
    s1 = s1
    s2 = s2
    d1 = d1
    Settlements = {s1, s2}
    Disbursements = {d1}
    AmountOf <- MCAmountOf
    DayOf <- MCDayOf
    Periods = {january, february}
    DaysOf <- MCDaysOf
    MaxCalls = 2
    Desks = {e1}
    NoPeriod = NoPeriod
    Officers = {o1}
    NoOfficer = NoOfficer
    Migration = Migration
    Reviewer = Reviewer
    Rates = {dues1, dues2, levy, lng}
    SeededRates = {levy, lng}
    SeededExemptions = {nlng}
    RateRow <- MCRateRow
    Exemptions = {waiver, nlng}
    ExemptionRow <- MCExemptionRow
    Declarations <- MCDeclarations
    Keys = {k1}
    Clients = {c1}
    NoRow = NoRow
    Word = 32768
    LastDay = 2
    SplitRules = {q1, q2, q3, q4, whole}
    SplitRow <- MCSplitRow
    SeededRules = {whole}
    CatchAll = CatchAll
    NoRule = NoRule
    Payments = {2, 3, 5}
    AdviceKeys = {a1}
    Issuers = {i1}
    AdviceRequests <- MCAdviceRequests
    FxIds = {fx1, fx2}
    FxEntry <- MCFxEntry
    Scale = 10
    Principals = {1, 6, 7}
    NoFx = NoFx
    fuel = fuel
    small = small
    large = large
    ful1 = ful1
    ful2 = ful2
    cond1 = cond1
    cond2 = cond2
    malformed = malformed
    None = None
    Payouts = {fuel, repair}
    Amounts = {small, large}
    Amount <- MCAmount
    QuoteIds = {1, 2}
    TransferIds = {1, 2}
    Fulfilments = {ful1, ful2}
    Conditions = {cond1, cond2, malformed}
    ConditionForFulfilment <- MCConditionForFulfilment
    Handlers = {h1, h2}
INVARIANT
    StatementsChain
CHECK_DEADLOCK FALSE
