CONSTANTS
    r1 = r1
    Requests = {r1}
    Asked <- Few
    Top = 3
    VolumeMin = 1
    VolumeMax = 3
    VolumeStep = 1
    MaxDetents = 1
    MaxCalls = 2
    LocalPhonoVolume = 2
    UnknownVolume = 2
SPECIFICATION FairSpec
INVARIANTS TypeOK
PROPERTIES SetMeansSet RecordBeginsAtProfile ActivationEnds
