SPECIFICATION Spec
CONSTANTS
    w1 = w1  w2 = w2  w3 = w3
    Vacant = Vacant
    Workers = {w1, w2, w3}
    Capacity <- SmallDest
    Modulus = 4
    Stealers <- Thieves
    Ops <- AllOps
    Starts <- NearWrap
    MaxCreated = 3
    MaxAdvance = 9
    AllowLeak = TRUE
INVARIANTS TypeOK PositionsOrdered OneThief SlotContract ExactlyOnce
PROPERTIES EmptyIsTrue PopFailsOnlyEmpty ImplementsContract LeakedStaysBusy
CHECK_DEADLOCK FALSE
