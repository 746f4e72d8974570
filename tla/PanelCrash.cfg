SPECIFICATION Spec
CONSTANTS
    door = door
    window = window
    smoke = smoke
    guestZone = guestZone
    otherZone = otherZone
    NoDevice = NoDevice
    NoZone = NoZone
    NoMode = NoMode
    Devices <- DoorAndSmoke
    Zones = {guestZone}
    ZoneOf <- MCZoneOf
    LifeSafety = {smoke}
    AlarmKindOf <- MCAlarmKindOf
    Delayed = {door}
    AlertsOnly = {}
    HomeSensors = {door}
    AwaySensors = {door}
    QuickExitSensors = {door}
    FaultKinds = {"open"}
    PersonKinds = {"DURESS"}
    ExitDelay <- OneTick
    EntryDelay <- AwayOnly
    QuickExitWindow = 1
    CrashInsideHandlers = TRUE
    MaxEvents = 2
    CancelWindow = 1
    SirenDuration = 1
    ListLimit = 2
INVARIANTS
    TimerMatchesMode
    RowIsCoherent
PROPERTIES
    ImplementsContract
    ImplementsEventService
    DelayResolves
