SPECIFICATION SirenSpec
CONSTANTS
    base = base
    outdoor = outdoor
    NoDevice = NoDevice
    Devices = {}
    RaisedKinds = {"BURGLARY", "CO", "MEDICAL"}
    MaxEvents = 2
    Sirens = {base, outdoor}
    Duration <- MCDuration
    Faults = {"driver", "crash", "removal"}
    CancelWindow = 1
    SirenDuration = 2
    ListLimit = 3
INVARIANTS
    TimerPerHeldSignal
    SirensFollow
    StopsOnTime
PROPERTIES
    SettledStays
    HeldSettles
    NoneForgotten
    SoundingEnds
