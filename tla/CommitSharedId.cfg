SPECIFICATION MCSpec
CONSTANTS
    Hashes = {h1, h2}
    Ids = {i1}
    IdOf <- WalletIds
    Complete = {h1, h2}
    Live = {h1, h2}
    Keys = {k1, k2}
    Txs = {x1, x2}
    Committers = {t1}
    Verifiers = {v1}
    OwnOnly = TRUE
    RowCap = 2
    None = None
    MaxInputs = 5
    Crashes = FALSE
INVARIANT VerifiedRowsAreOnChain
CHECK_DEADLOCK FALSE
