SPECIFICATION Spec
CONSTANTS
    w1 = w1  w2 = w2  u1 = u1  u2 = u2  f1 = f1  f2 = f2
    File = {f1, f2}
    User = {u1, u2}
    Worker = {w1, w2}
    Role <- RoleUsers
    NoFile = NoFile
    NoUser = NoUser
    MaxFiles = 2
    LockTimeout = 0
    NumInodes = 6
    Ops = {"UPLOAD", "DOWNLOAD", "DELETE", "EDIT", "SAVE", "UNLOCK", "ROLLBACK"}
    Data <- Contents1
    Targets = {1}
    MaxVersions = 1
    DiskMayFail = FALSE
    PerFileSerial = FALSE
    MaxTasks = 4
    MaxTime = 1
    MaxRestarts = 0
SYMMETRY Alike
INVARIANTS TypeOK TableSound HistoryBounded
PROPERTY ImplementsEditLock
