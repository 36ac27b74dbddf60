SPECIFICATION Spec
CONSTANTS
    w1 = w1  w2 = w2  u1 = u1  u2 = u2  f1 = f1  f2 = f2
    File = {f1}
    User = {u1, u2}
    Worker = {w1}
    Role <- RoleAdmin
    NoFile = NoFile
    NoUser = NoUser
    MaxFiles = 1
    LockTimeout = 1
    NumInodes = 6
    Ops = {"DOWNLOAD", "VERSION", "AUDIT", "UPLOAD", "DELETE", "EDIT", "SAVE", "UNLOCK", "ROLLBACK"}
    Data <- Contents12
    Targets = {1}
    MaxVersions = 1
    DiskMayFail = TRUE
    PerFileSerial = TRUE
    MaxTasks = 4
    MaxTime = 2
    MaxRestarts = 1
INVARIANTS TypeOK ActiveOnDisk
PROPERTIES EditLockExcludesWrites OwnersOnlyModify
