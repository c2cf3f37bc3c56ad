CONSTANTS
    c1 = c1
    c2 = c2
    c3 = c3
    c4 = c4
    Captures <- ThreeCaptures
    MaxPending = 2
    Selectors <- NoSelector
    Switching = TRUE
    Dropping = FALSE
    NoCapture = nocapture
    NoTask = notask
SPECIFICATION FairSpec
INVARIANTS TypeOK StopSticks CapturesDoNotOverlap RequestServed
PROPERTIES StreamComesBack
