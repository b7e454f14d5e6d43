SPECIFICATION Spec
CONSTANTS
    s = s
    m = m
    Pages <- MCPages
    EntryCnt = 3
    Keys = {a, b}
    Values = {s, m}
    NoVal = NoVal
    DataLen <- MCDataLen
    Looks <- MCLooks
    MaxSeq = 2
    MaxHurt = 1
INVARIANTS OthersLoaded
SYMMETRY Symmetry
