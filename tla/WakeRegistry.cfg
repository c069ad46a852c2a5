CONSTANTS
    a1 = a1
    alice = alice
    bob = bob
    Order <- Directories
    Profiles <- Settings
    Sessions = {a1}
    AllowInternal = FALSE
    MaxEdits = 1
    MaxRuns = 2
SPECIFICATION FairSpec
INVARIANTS
    TypeOK
    SecretsAgree
    BoundedStaleness
PROPERTY EventuallyCurrent
