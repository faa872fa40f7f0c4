SPECIFICATION MCSpec
CONSTANTS
    Hashes = {h1, h2}
    Forms = {h1, h2}
    DefaultForm = h1
    FormOf <- OwnForms
    Txs = {x1}
    None = None
    HistoryCap = 2
    Pages = {p1}
    Environments <- RecorderOn
    MaxInputs = 6
    MaxFaults = 0
INVARIANT RestoredProofIsOwn
CHECK_DEADLOCK FALSE
