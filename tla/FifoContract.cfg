SPECIFICATION Spec
CONSTANTS
    w1 = w1  w2 = w2
    Vacant = Vacant
    Workers = {w1, w2}
    Capacity <- SmallDest
    Modulus = 4
    Stealers <- Everybody
    Ops <- AllOps
    Starts <- NearWrap
    MaxCreated = 3
    MaxAdvance = 10
    AllowLeak = TRUE
INVARIANTS TypeOK PositionsOrdered OneThief SlotContract ExactlyOnce
PROPERTIES EmptyIsTrue ImplementsContract
CHECK_DEADLOCK FALSE
