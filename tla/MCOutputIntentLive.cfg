CONSTANTS
    r1 = r1
    r2 = r2
    Requests <- TwoRequests
    Encoder = encoder
    NoSession = none
    MaxGeneration = 3
    PlayOutcomes <- WithoutExceptions
SPECIFICATION FairSpec
INVARIANT SettledAgreement
PROPERTIES EveryHandlerReturns ConsoleEventuallyApplied
