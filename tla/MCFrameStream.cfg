CONSTANTS
    r1 = r1
    r2 = r2
    Readers = {r1, r2}
    QueueFrames = 3
    SocketFrames = 2
    MaxCaptured = 8
SPECIFICATION Spec
SYMMETRY AnyReader
INVARIANTS TypeOK LossIsTold
