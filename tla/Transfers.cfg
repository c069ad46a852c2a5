CONSTANTS
    alice = alice
    bob = bob
    a1 = a1
    a2 = a2
    Agents = {alice, bob}
    Sessions = {a1, a2}
    Owner <- Siblings
    Targets = {bob}
    Mortal = {a1}
    Sweepers = {a2}
    Ttls = {1, 2}
    MaxTtl = 1
    MaxPending = 1
    MaxTransfers = 2
    MaxTime = 1
    First <- Both
SPECIFICATION FairSpec
INVARIANTS
    TypeOK
    WithinQuota
    ManifestMeansFile
    FoundWhenFresh
    DeletedIsGone
    NoneLeaked
PROPERTY ExpiredIsSwept
