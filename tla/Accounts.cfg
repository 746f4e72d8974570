SPECIFICATION Spec
CONSTANTS
    Users = {u1, u2}
    Codes = {c1, c2, c3}
    NoCode = NoCode
    Never = Never
    MaxCodes = 2
    InstallerAccess = 1
    Expiries = {2}
    Policies <- MCPolicies
    Windows <- MCWindows
    Days = 2
    DayLength = 3
    MaxTime = 3
    MaxFails = 3
    MaxEdits = 3
INVARIANTS
    CodesDistinct
    SchedulesAsWritten
PROPERTIES
    LockoutHolds
    InstallersGo
