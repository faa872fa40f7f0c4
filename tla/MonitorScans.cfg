SPECIFICATION MCSpec
CONSTANTS
    Threads = {t1, t2}
    Scopes = {c1, c2}
    Hashes = {h1, h2, h3}
    Signals = {signal}
    Sources = {source}
    Results <- MCResults
    RowCap = 2
    PointCap = 2
    Stores = {TRUE, FALSE}
    None = None
    h1 = h1
    h2 = h2
    h3 = h3
    signal = signal
    source = source
    MaxScans = 3
    MaxOverlapping = 2
SYMMETRY Symmetry
INVARIANTS TypeOK TableIsSound StoredStaysOpen
PROPERTIES EverySightingCounts BookIsKept IncreaseIsAlerted
