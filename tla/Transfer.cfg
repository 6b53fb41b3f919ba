SPECIFICATION Spec
CONSTANTS
    small = small
    large = large
    Workers <- Rings
    Capacity <- Sizes
    Modulus = 16
    Vacant = Vacant
    SmallChunk = 2
    MaxPosition = 18
INVARIANTS
    ChunksInBounds
    ChunksDisjoint
    BulkMatchesScalar
CHECK_DEADLOCK FALSE
