CONSTANTS
    alice = alice
    bob = bob
    a1 = a1
    a2 = a2
    b1 = b1
    Agents = {alice, bob}
    Sessions = {a1, b1}
    Owner <- Leaders
    Mortal = {b1}
    LockTimeouts = TRUE
    Raws = {"fyi", "absent", "unknown"}
    Limits = {1, 2}
    WakeRegistry = {alice}
    PurgeModes = {"read", "all"}
    MaxMessages = 2
SPECIFICATION LiveSpec
INVARIANTS
    TypeOK
    WakeAfterStore
    NoLostWakeup
PROPERTY EventuallyRead
