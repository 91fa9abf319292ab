SPECIFICATION PayoutSpec
CONSTANTS
    fuel = fuel
    repair = repair
    small = small
    large = large
    f1 = f1
    f2 = f2
    c1 = c1
    c2 = c2
    malformed = malformed
    None = None
    Payouts = {fuel}
    Amounts = {small, large}
    Amount <- MCAmount
    QuoteIds = {q1, q2}
    TransferIds = {t1, t2}
    Fulfilments = {f1, f2}
    Conditions = {c1, c2, malformed}
    ConditionForFulfilment <- MCConditionForFulfilment
    Handlers = {h1, h2}
INVARIANTS
    PaidOnce
CHECK_DEADLOCK FALSE
