SPECIFICATION Spec
CONSTANTS
    Users = {alice}
    Addresses = {home}
    Requests = {r1, r2}
    MaxUser = 2
    MaxAddress = 3
    Window = 2
    MaxShift = 1
    alice = alice
    home = home
    r1 = r1
    r2 = r2
INVARIANTS TypeOK GuessesBounded
PROPERTIES LockHolds LocksEscalate LockEnds
