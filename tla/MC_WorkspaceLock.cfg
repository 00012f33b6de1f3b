SPECIFICATION FairSpec
CONSTANTS
    a = a
    b = b
    c = c
    i1 = i1
    i2 = i2
    i3 = i3
    i4 = i4
    None = None
    Process = {a, b, c}
    Inode = {i1, i2, i3, i4}
    MaxCrashes = 2
INVARIANTS
    LockTypeOK
    OneHolderUntilRemove
PROPERTY NeverWedged
