CONSTANTS
    Buffers = {b1, b2}
    NoBuffer = NoBuffer
    Sizes = {1, 2}
    MaxFrames = 2
    MaxUncounted = 1
    MaxLoops = 1
SPECIFICATION FairSpec
INVARIANTS TypeOK CountMatchesQueue HoldsOne
PROPERTIES NewestKept KeepsExchange FramesConsumed ComesToRest
CHECK_DEADLOCK FALSE
