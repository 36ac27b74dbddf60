SPECIFICATION Spec
CONSTANTS
    w1 = w1  w2 = w2  u1 = u1  u2 = u2  f1 = f1  f2 = f2
    File = {f1, f2}
    User = {u1, u2}
    Worker = {w1, w2}
    Role <- RoleUsers
    NoFile = NoFile
    NoUser = NoUser
    MaxFiles = 1
    LockTimeout = 1
    NumInodes = 6
    Ops = {"DOWNLOAD", "DELVERSION", "HISTORY", "LIST", "UPLOAD", "DELETE", "EDIT", "SAVE", "UNLOCK", "ROLLBACK"}
    Data <- Contents12
    Targets = {1, 2}
    MaxVersions = 1
    DiskMayFail = FALSE
    PerFileSerial = TRUE
    MaxTasks = 4
    MaxTime = 0
    MaxRestarts = 0
SYMMETRY Alike
INVARIANTS TableMatchesDisk HistoryBehindCurrent DownloadWhole
PROPERTY NothingOverwrittenUnsaved
