SPECIFICATION Spec
CONSTANTS
    Tasks = {t1, t2}
    W = 2
    BlockMin = 6
    FindDepth = 1
    ListNum = 2
    Arenas <- MCArenas
    Sizes = {1, 5, 126}
    Uint = 128
    MaxDeletes = 1
    Null = Null
SYMMETRY Symmetry
INVARIANTS Diagnosed PayloadsApart Accounted
