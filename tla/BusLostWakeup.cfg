CONSTANTS
    alice = alice
    bob = bob
    a1 = a1
    a2 = a2
    b1 = b1
    Agents = {alice, bob}
    Sessions = {a1, a2, b1}
    Owner <- Siblings
    Mortal = {}
    LockTimeouts = FALSE
    Raws = {"absent"}
    Limits = {2}
    WakeRegistry = {}
    PurgeModes = {}
    MaxMessages = 2
SPECIFICATION Spec
INVARIANT NoLostWakeup
