SPECIFICATION KeypadSpec
CONSTANTS
    door = door
    zone = zone
    NoDevice = NoDevice
    NoZone = NoZone
    NoMode = NoMode
    Devices = {door}
    Zones = {zone}
    ZoneOf <- MCZoneOf
    LifeSafety = {}
    AlarmKindOf <- NoAlarmKinds
    Delayed = {door}
    AlertsOnly = {}
    HomeSensors = {door}
    AwaySensors = {door}
    QuickExitSensors = {}
    FaultKinds = {"open"}
    PersonKinds = {"PANIC"}
    ExitDelay <- NoTicks
    EntryDelay <- AwayOnly
    QuickExitWindow = 0
    CrashInsideHandlers = FALSE
    MaxEvents = 3
    MaxWrites = 2
    CancelWindow = 0
    SirenDuration = 0
    ListLimit = 3
    Faults = {"crash", "offline", "driver"}
INVARIANTS
    MirrorsUntilAlarm
    SirenOffUnlessAstray
PROPERTIES
    FlagFollowsEvents
