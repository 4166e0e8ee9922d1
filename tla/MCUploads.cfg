SPECIFICATION Spec
CONSTANTS
    Containers = {c1, c2}
    CheckOnly = {c2}
    Tries = 1
    Keys = {k1, k2}
    Files <- MCFiles
    Bodies = {0, 3, 4, 6, 7}
    ChunkSize = 2
    PartSize = 3
    MaxMembers = 2
    MaxBytes = 4
    Absent = Absent
    NoKey = NoKey
INVARIANTS TypeOK ServingHasBucket AnsweredIsStored PartsAreAcceptable PartsAreReclaimed
PROPERTIES BootEnds
