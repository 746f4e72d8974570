SPECIFICATION Spec
CONSTANTS
    co = co
    Nodes = {co}
    CategoryOf <- COCategory
    KindOf <- COKind
    Placements = {"MAIN_DOOR", "ROOM"}
    Null = Null
    Keep = Keep
    Faults = {"driver", "crash", "radio", "network"}
    Requests <- FewRequests
INVARIANTS
    MirrorsDevices
    ConfigCoherent
