SPECIFICATION MCSpec
CONSTANTS
    n1 = n1
    n2 = n2
    i1 = i1
    d1 = d1
    d2 = d2
    c1 = c1
    o1 = o1
    o2 = o2
    r1 = r1
    r2 = r2
    NoNote = NoNote
    Notes = {n1, n2}
    Intakes = {i1}
    Officers = {o1, o2}
    Runs = {r1, r2}
    References = {d1, d2, c1}
    Amounts = {1, 2}
    Payments <- MCPayments
    StatementLines <- MCStatementLines
    DocumentNumber <- MCDocumentNumber
    Bill <- MCBill
    IntakeReferences <- MCIntakeReferences
    IntakeTotal <- MCIntakeTotal
    MaxSettlements = 2
    MaxRequests = 4
SYMMETRY Symmetry
INVARIANTS
    SettledIsPaid
    MoneyCountsOnce
PROPERTY
    NothingSilent
CHECK_DEADLOCK FALSE
