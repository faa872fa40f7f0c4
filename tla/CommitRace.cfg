SPECIFICATION MCSpec
CONSTANTS
    Hashes = {h1, h2, h3}
    Ids = {i1, i2}
    IdOf <- WalletIds
    Complete = {h1, h2, h3}
    Live = {h1, h2}
    Keys = {k1, k2}
    Txs = {x1, x2}
    Committers = {t1, t2}
    Verifiers = {v1}
    OwnOnly = TRUE
    RowCap = 2
    None = None
    MaxInputs = 4
    Crashes = TRUE
SYMMETRY Symmetry
INVARIANTS TypeOK RecordedIsBacked 
PROPERTY Idempotent
CHECK_DEADLOCK FALSE
