SPECIFICATION Spec
CONSTANTS
    MaxInstances = 5
INVARIANTS
    ServesLiveDriver
    StickReleased
PROPERTIES
    ReadyAgain
