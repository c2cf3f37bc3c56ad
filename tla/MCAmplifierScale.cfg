CONSTANTS
    r1 = r1
    Requests = {r1}
    Asked <- Usual
    Top = 100
    VolumeMin = 15
    VolumeMax = 45
    VolumeStep = 2
    MaxDetents = 1
    MaxCalls = 1
    LocalPhonoVolume = 50
    UnknownVolume = 50
SPECIFICATION Spec
PROPERTIES TurnMovesReceiver
