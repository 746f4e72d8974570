SPECIFICATION Spec
CONSTANTS
    door = door
    window = window
    smoke = smoke
    guestZone = guestZone
    otherZone = otherZone
    NoDevice = NoDevice
    NoZone = NoZone
    NoMode = NoMode
    Devices <- House
    Zones = {guestZone, otherZone}
    ZoneOf <- MCZoneOf
    LifeSafety = {smoke}
    AlarmKindOf <- MCAlarmKindOf
    Delayed = {door}
    AlertsOnly = {}
    HomeSensors = {door}
    AwaySensors = {door, window}
    QuickExitSensors = {door}
    FaultKinds = {"open", "tampered"}
    PersonKinds = {"DURESS"}
    ExitDelay <- OneTick
    EntryDelay <- AwayOnly
    QuickExitWindow = 1
    CrashInsideHandlers = FALSE
    MaxEvents = 2
    CancelWindow = 1
    SirenDuration = 1
    ListLimit = 3
INVARIANTS
    OpenBurglaryShows
    AlarmHasEvent
    NoDelayInDisarmedZone
PROPERTIES
    DelayNeverExtended
    OnlyDisarmEndsEmergencies
