\* Three clients for a store of two, so that evictions happen; the cleanup
\* interval is longer than the window, so that stale entries survive a while.
CONSTANTS
    Clients = {c1, c2, c3}
    Limit = 2
    MaxClients = 2
    Window = 2
    CleanupInterval = 3
    MaxTime = 5
SPECIFICATION Spec
SYMMETRY Symmetry
INVARIANTS TypeOK StoreBounded WindowLimit LruOrder NoDeadEntry HistoryKept
PROPERTY SlidingWindowPromise
