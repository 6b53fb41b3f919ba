SPECIFICATION FairSpec
CONSTANTS
    Unparkers = {u1, u2, u3}
    MaxUnparks = 6
    MaxSpurious = 2
INVARIANTS NoLostWake PermitCarriesWork
PROPERTIES ImplementsHost
CHECK_DEADLOCK FALSE
