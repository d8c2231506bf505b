SPECIFICATION Spec
CONSTANTS
    o1 = o1
    o2 = o2
    n1 = n1
    n2 = n2
    c1 = c1
    c2 = c2
    Oids = {o1, o2}
    Names = {n1, n2}
    Clients = {c1, c2}
    MaxUuid = 3
    MaxVersion = 3
    MaxExtent = 3
    MaxOps = 3
    MaxCrash = 1
    NoRow = NoRow
    Free = Free
    Dead = Dead
    Ops = {"put", "overwrite", "copy", "delete", "undelete", "erase", "erasecopy", "clean", "rename", "setmd", "rebuild"}
SYMMETRY Symmetry
CHECK_DEADLOCK FALSE
INVARIANTS CompleteHasLayout ReferencedSync LockIffSection AckedHasObject
