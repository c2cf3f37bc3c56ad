CONSTANTS
    r1 = r1
    r2 = r2
    Requests <- TwoRequests
    Encoder = encoder
    NoSession = none
    MaxGeneration = 3
    PlayOutcomes <- EveryOutcome
SPECIFICATION Spec
SYMMETRY Swap
INVARIANTS TypeOK DownstairsDurable
PROPERTIES StaleStartHarmless ImplementsChoice
