SPECIFICATION Spec
CONSTANTS
    Threads = {t1, t2}
    Slots = {s1, s2}
    Values = {v1}
    Inodes = {i1, i2, i3}
    None = None
SYMMETRY Symmetry
INVARIANT FileParses
