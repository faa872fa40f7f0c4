SPECIFICATION Spec
CONSTANTS
    Threads = {t1}
    Slots = {s1, s2, s3}
    Values = {v1, v2}
    Inodes = {i1, i2, i3}
    None = None
SYMMETRY Symmetry
INVARIANTS TypeOK ReturnedIsKept
PROPERTY AtomicSaves
