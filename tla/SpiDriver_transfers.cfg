SPECIFICATION FairSpec
INVARIANTS VoteCovers ForgottenOnlyLate
PROPERTIES  VoteReturns
