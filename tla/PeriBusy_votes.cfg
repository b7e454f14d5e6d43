SPECIFICATION Spec
CONSTANTS
    t1 = t1
    t2 = t2
    timer = timer
    spi = spi
    Tasks <- MCTasks
    Votes <- MCVotes
    IsrVotes <- MCIsrVotes
    MaxNest = 2
INVARIANTS LockExact CountExact
