\* A window of three ticks for two requests, and a bucket of two messages that
\* takes two ticks to refill one; time for each to fill and empty twice.
SPECIFICATION Spec
CONSTANTS
    Hosts = {h1}
    Limit = 2
    Window = 3
    Names = {u1}
    Burst = 4
    Cost = 2
    Rate = 1
    MaxGap = 1
    MaxTime = 7
INVARIANTS
    TypeOK
    WindowRespected
    RefusedMeansFull
    BurstAndRate
    MutedMeansSpent
CHECK_DEADLOCK FALSE
