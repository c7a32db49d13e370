SPECIFICATION PoolSpec
CONSTANTS
    Dials = {1, 2}
    Layout <- MCLayout
    Absent = Absent
    Torn = Torn
    AutoHello = AutoHello
    Requests = {"a", "b"}
    Body <- MCBody
    Closing = {"b"}
    MaxStreams = 2
    MaxRetry = 2
    MaxFaults = 3
    None = None
INVARIANTS
    RetryIsFresh
    NoForeignCancel
    BodyFromTheStart
    ReservationsReturned
