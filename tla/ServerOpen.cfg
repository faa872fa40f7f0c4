SPECIFICATION MCSpec
CONSTANTS
    Hashes = {h1, h2}
    Txs = {x1}
    None = None
    HistoryCap = 2
    Threads = {t1, t2}
    Refs = {r1, r2, r3}
    Environments <- RecorderOn
    MaxCalls = 5
SYMMETRY Symmetry
INVARIANTS TypeOK ProofsAreBacked HistoryIsSound
PROPERTY PromisesKept
