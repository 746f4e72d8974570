\* One lock of two slots, a user and an installer, one client.
CONSTANTS
    Locks = {front}
    Users = {ann, ivo}
    Installers = {ivo}
    Requests = {client}
    SlotCount = 2
    Faults = {"radio", "restart", "removal"}
SPECIFICATION Spec
CHECK_DEADLOCK FALSE
INVARIANTS
    Attributed
PROPERTIES
    RecordKept
    LocalKept
    SyncedMeansHeld
