SPECIFICATION Spec
CONSTANTS
    w1 = w1  w2 = w2  u1 = u1  u2 = u2  f1 = f1  f2 = f2
    File = {f1}
    User = {u1}
    Worker = {w1, w2}
    Role <- RoleOwner
    NoFile = NoFile
    NoUser = NoUser
    MaxFiles = 1
    LockTimeout = 1
    NumInodes = 6
    Ops = {"UPLOAD", "DOWNLOAD"}
    Data <- Contents12
    Targets = {1}
    MaxVersions = 2
    DiskMayFail = FALSE
    PerFileSerial = FALSE
    MaxTasks = 3
    MaxTime = 0
    MaxRestarts = 0
SYMMETRY Workers
INVARIANT DownloadWhole
