SPECIFICATION Spec
CONSTANTS
    d1 = d1
    t1 = t1
    a1 = a1
    a2 = a2
    here = here
    away = away
    NoLock = NoLock
    None = None
    Here = here
    Away = away
    Drives <- MCDrives
    Tapes <- MCTapes
    Admins <- MCAdmins
    First <- MCFirst
    FirstIn <- MCIn
    Commands <- MCAll
    MaxCommand = 2
    MaxHandle = 3
    MaxWork = 1
    MaxFault = 1
    MaxStop = 1
SYMMETRY Symm
CHECK_DEADLOCK FALSE
INVARIANTS DriveInHand LockEffective Awaited
