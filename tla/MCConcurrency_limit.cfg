SPECIFICATION Spec
CONSTANTS
    home = home
    away = away
    Devices = {1, 2, 3}
    OnNode = {2, 3}
    Hosts = {home, away}
    Limit = 1
    Window = 3
    HoldFor = 4
    RemoteTTL = 1
    PanelSilence = 2
    GiveUp = 1
    Ahead = 0
    Allowed = {"deaf", "restart"}
    MaxTime = 6
    MaxSwitches = 3
    MaxFaults = 1
CONSTRAINT Situation
CHECK_DEADLOCK FALSE
INVARIANTS SomebodyStays EndsInTime AMoveIsFree
PROPERTY OnlyOverLimit
