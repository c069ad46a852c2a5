CONSTANTS
    alice = alice
    bob = bob
    a1 = a1
    a2 = a2
    b1 = b1
    t1 = t1
    t2 = t2
    Loop = Loop
    Nobody = Nobody
    Agents = {alice, bob}
    Clients = {a1, b1}
    Locals = {}
    Owner <- Leaders
    Threads = {t1, t2}
    Flaky = {a1}
    Late = {"send"}
    Restarts = TRUE
    Limits = {1}
    MaxMessages = 2
    MaxQueued = 1
SPECIFICATION Spec
SYMMETRY ThreadSymmetry
INVARIANTS
    TypeOK
    OneTransaction
    SentIsStored
PROPERTY AsInbox
