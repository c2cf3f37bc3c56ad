SPECIFICATION FairSpec
INVARIANTS TypeOK PlayerMatchesRoute
PROPERTIES SelectedSourceIsHeard  DeadCaptureIsSilent ConsoleEventuallyLocal
