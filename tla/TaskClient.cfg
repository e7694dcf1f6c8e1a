SPECIFICATION ClientSpec
CONSTANTS
    Tasks = {t1, t2}
    Callers = {c1}
    MaxRetries = 1
    MaxExecutions = 4
    MaxFaults = 0
    MaxCrashes = 0
    HandlersSuspend = FALSE
    NoTask = NoTask
    Other = t2
INVARIANT Tracking
PROPERTIES OutcomeReplacedInFlight WaitersAreAnswered Progress
CHECK_DEADLOCK FALSE
