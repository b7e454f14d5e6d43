SPECIFICATION FairSpec
CONSTANTS
    w1 = w1
    w2 = w2
    Writers <- MCWriters
    MaxLen = 3
INVARIANTS CutOnlyDisturbed
PROPERTY VoteReturns
