SPECIFICATION MCSpec
CONSTANTS
    Hashes = {h1, h2, h3}
    Txs = {x1, x2}
    None = None
    HistoryCap = 2
    Threads = {t1}
    Refs = {r1, r2}
    Environments <- AllEnvironments
    MaxCalls = 6
SYMMETRY Symmetry
INVARIANTS RestartIsFaithful AckedIsDurable ProofsMatchTheirAssessment
