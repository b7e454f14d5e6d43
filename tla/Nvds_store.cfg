SPECIFICATION Spec
CONSTANTS
    s = s
    m = m
    Pages <- MCPages
    EntryCnt = 2
    Keys = {a, b, c}
    Values = {s, m}
    NoVal = NoVal
    DataLen <- MCDataLen
    Looks <- MCLooks
    MaxSeq = 2
    MaxHurt = 1
INVARIANTS ReserveKept
PROPERTIES ImplementsKvStore LossConfined
SYMMETRY Symmetry
VIEW View
