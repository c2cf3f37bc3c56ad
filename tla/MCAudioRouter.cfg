CONSTANT MaxDelay = 2
SPECIFICATION FairSpec
INVARIANT TypeOK
PROPERTIES ImplementsExclusive PlayingIsLeftAlone WantedPlayerPlays ClosesInSilence
CHECK_DEADLOCK FALSE
