\* Two clients and a limit of one: the first one is refused after the other
\* was accepted.
CONSTANTS
    Clients = {c1, c2}
    Limit = 1
    MaxClients = 2
    Window = 2
    CleanupInterval = 3
    MaxTime = 3
SPECIFICATION TouchSpec
SYMMETRY Symmetry
INVARIANT FrontIsLeastRecentlyTouched
