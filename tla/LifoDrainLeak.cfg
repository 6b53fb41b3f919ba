SPECIFICATION Spec
CONSTANTS
    w1 = w1  w2 = w2  w3 = w3
    Vacant = Vacant
    Workers = {w1, w2}
    Capacity <- SmallDest
    Modulus = 4
    Stealers <- OwnerAndThief
    Ops <- DrainDropOps
    Starts <- NearWrap
    MaxCreated = 4
    MaxAdvance = 10
    AllowLeak = TRUE
INVARIANTS NothingReadTwice
CHECK_DEADLOCK FALSE
