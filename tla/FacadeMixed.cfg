CONSTANTS
    alice = alice
    bob = bob
    a1 = a1
    a2 = a2
    b1 = b1
    t1 = t1
    t2 = t2
    Loop = Loop
    Nobody = Nobody
    Agents = {alice, bob}
    Clients = {a1, b1}
    Locals = {a2}
    Owner <- Mixed
    Threads = {t1}
    Flaky = {a1}
    Late = {"subscribe", "register"}
    Restarts = TRUE
    Limits = {1}
    MaxMessages = 1
    MaxQueued = 1
SPECIFICATION FairSpec
INVARIANT BlockedIsWoken
PROPERTIES
    AsInbox
    EveryCallEnds
