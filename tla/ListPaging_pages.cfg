SPECIFICATION Spec
CONSTANTS
    Id <- ids
    Limit = 2
    MaxTime = 1
INVARIANTS TypeOK NoRowTwice NoRowMissed JobsOff ExportWithRoomIsComplete
