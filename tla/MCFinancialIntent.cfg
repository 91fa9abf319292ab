SPECIFICATION Spec
CONSTANTS
    Intents = {i1}
    Principals = {alice, bob}
    NoPrincipal = NoPrincipal
    NoIntent = NoIntent
    Procs = {p1, p2}
    MaxVersion = 8
CHECK_DEADLOCK FALSE
INVARIANTS
    VoidedNeverMoved
    RecordedIsBacked
    AmbiguousNeverMoved
    MovedAfterReservedEvent
PROPERTIES
    ImplementsControlledPayment
