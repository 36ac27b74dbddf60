CONSTANTS
    Thread = {t1}
    admin = admin
    ann = ann
    p = p
    pc = pc
    colon = colon
    empty = empty
    zero = zero
    one = one
    two = two
    Text = {admin, ann, p, pc, colon, empty, zero, one, two}
    Pieces <- SomePieces
    atoi <- Numbers
    Role = {1, 2}
    Decimal <- Printed
    Empty = empty
    Admin = admin
    Requests <- Twice
    FirstUsers <- Shipped
    MaxUsers = 2
    MaxCalls = 2
SPECIFICATION Spec
INVARIANT EachRegisteredOnce
\* The behaviour ends with its calls.
CHECK_DEADLOCK FALSE
