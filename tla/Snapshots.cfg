\* One snapshot name, requested for two volumes; one fault of any kind.
SPECIFICATION FairSpec
CONSTANTS
    Snapshots = {s1}
    Volumes = {v1, v2}
    NoLabel = NoLabel
    LocalVolumes = {v1}
    CreateCalls = {c1}
    DeleteCalls = {d1}
    MaxSnapLives = 1
    Threads = 2
    FaultKinds = {"api", "lvm", "lvs", "crash", "relist"}
    MaxFaults = 1
INVARIANTS
    SnapTypeOK
    SnapInv
    ReadySnapHasLV
    RemovedSnapHasNoLV
PROPERTIES
    DeleteSparesSnapshots
    ReadyAnswerHasLV
    KeepsSnapContract
    PendingSnapBecomesReady
    SnapDeletionCompletes
