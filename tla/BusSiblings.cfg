CONSTANTS
    alice = alice
    bob = bob
    a1 = a1
    a2 = a2
    b1 = b1
    Agents = {alice, bob}
    Sessions = {a1, a2, b1}
    Owner <- Siblings
    Mortal = {a1, a2}
    LockTimeouts = TRUE
    Raws = {"absent"}
    Limits = {1, 2}
    WakeRegistry = {}
    PurgeModes = {"all"}
    MaxMessages = 2
SPECIFICATION Spec
SYMMETRY SiblingSymmetry
INVARIANTS
    ExactlyOneReader
    NoneVanishes
    OldestFirst
PROPERTY AsInbox
