SPECIFICATION FairSpec
CONSTANTS
    Unreadable = Unreadable
    OutOfRange = OutOfRange
    MaxSlot = 4
    DedupeSize = 3
    Revised = {2}
    Mistimed = {"websocket"}
    RawCapacity = 5
    MaxFrames = 2
    MaxUnusable = 1
    MaxRepairs = 2
    MaxCrashes = 1
INVARIANTS
    TablesAgree
    MissingIsRecorded
    RecoveredIsStored
    ReplayReproduces
PROPERTIES
    ImplementsAtLeastOnce
CHECK_DEADLOCK FALSE
