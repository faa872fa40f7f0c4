SPECIFICATION MCLiveSpec
CONSTANTS
    Hashes = {h1, h2}
    Ids = {i1}
    IdOf <- WalletIds
    Complete = {h1}
    Live = {h1, h2}
    Keys = {k1}
    Txs = {x1, x2}
    Committers = {t1, t2}
    Verifiers = {v1}
    OwnOnly = FALSE
    RowCap = 2
    None = None
    MaxInputs = 3
    Crashes = TRUE
INVARIANT VerifiedIsMined
PROPERTY EveryCallReturns
CHECK_DEADLOCK FALSE
