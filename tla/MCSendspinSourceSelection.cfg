CONSTANTS
    c1 = c1
    c2 = c2
    c3 = c3
    c4 = c4
    Captures <- ThreeCaptures
    MaxPending = 1
    Selectors <- OneSelector
    Switching = TRUE
    Dropping = FALSE
    NoCapture = nocapture
    NoTask = notask
SPECIFICATION Spec
SYMMETRY AnyCapture
INVARIANTS OneLiveCapture
