CONSTANTS
    alice = alice
    bob = bob
    a1 = a1
    a2 = a2
    b1 = b1
    Agents = {alice, bob}
    Clients = {a1, a2, b1}
    Owner <- Siblings
    Targets = {bob}
    Flaky = {b1}
    Restarts = TRUE
    Ttls = {0, 3, 4}
    Hour = 2
    DefaultTtl = 2
    MaxTtl = 2
    MaxPending = 1
    MaxTransfers = 2
    MaxTime = 3
SPECIFICATION FairSpec
INVARIANTS
    TypeOK
    WithinQuota
    RowHasFile
    FoundWhenFresh
    NoneLeaked
PROPERTY ExpiredIsSwept
