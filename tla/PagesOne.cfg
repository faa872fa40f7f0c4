SPECIFICATION MCSpec
CONSTANTS
    Hashes = {h1, h2}
    Forms = {h1, h2}
    DefaultForm = h1
    FormOf <- OwnForms
    Txs = {x1}
    None = None
    HistoryCap = 2
    Pages = {p1}
    Environments <- AllEnvironments
    MaxInputs = 5
    MaxFaults = 1
INVARIANTS TypeOK ShownProofIsOwn ShownIsDurable
PROPERTY EveryClickEnds
CHECK_DEADLOCK FALSE
