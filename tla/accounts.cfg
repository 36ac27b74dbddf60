CONSTANTS
    Thread = {t1, t2}
    admin = admin
    ann = ann
    p = p
    pc = pc
    colon = colon
    empty = empty
    zero = zero
    one = one
    two = two
    Text = {admin, ann, p, pc, colon, empty, zero, one, two}
    Pieces <- SomePieces
    atoi <- Numbers
    Role = {1, 2}
    Decimal <- Printed
    Empty = empty
    Admin = admin
    Requests <- SomeRequests
    FirstUsers <- Shipped
    MaxUsers = 2
    MaxCalls = 3
SPECIFICATION Spec
SYMMETRY Threads
INVARIANTS AccountsTypeOK AloneIsRight DuplicatesNeedOverlap OverrunNeedsOverlap
\* The behaviour ends with its calls, or when the array is overrun.
CHECK_DEADLOCK FALSE
