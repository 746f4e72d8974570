SPECIFICATION AutomationSpec
CONSTANTS
    EnrolledLocks = {front, back}
    Settings <- MCSettings
    MaxCommands = 2
    MaxEdits = 1
INVARIANTS
    LocksObey
    OwnChangesAreSkipped
