SPECIFICATION FairSpec
CONSTANTS
    Agents = {"general", "planner"}
    Fallback = "general"
    MaxBatches = 2
    MaxJobs = 2
    Lists <- TwoLists
    Routes <- TwoRoutes
    Concurrency = 1
    MaxMeddling = 2
    MaxOfAKind = 1
    MaxRetries = 1
INVARIANTS TypeOK CallsAreOrderly
PROPERTIES AbortIsHeeded CallsEnd
CHECK_DEADLOCK FALSE
