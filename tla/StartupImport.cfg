CONSTANTS
    a1 = a1
    b1 = b1
    facade = facade
    python = python
    bash = bash
    Processes = {a1, b1}
    Bridges = {a1, b1}
    Mortal = {}
    Legacy = {python}
    Offered = {python, bash}
    LockTimeouts = FALSE
SPECIFICATION Spec
INVARIANT AnnouncementStands
