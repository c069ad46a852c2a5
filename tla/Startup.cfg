CONSTANTS
    a1 = a1
    b1 = b1
    facade = facade
    python = python
    bash = bash
    Processes = {a1, b1, facade}
    Bridges = {a1, b1}
    Mortal = {a1, facade}
    Legacy = {python, bash}
    Offered = {python}
    LockTimeouts = TRUE
SPECIFICATION FairSpec
INVARIANTS
    TypeOK
    ReadyIsMigrated
    NoRowIsLost
PROPERTY EventuallyUp
