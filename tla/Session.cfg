SPECIFICATION FairSpec
CONSTANTS
    Modes = {"default", "plan"}
    MaxTurns = 2
    MaxEvents = 2
    QueueMax = 2
    MaxSwitches = 1
    MaxAborts = 1
    Callers = {c1, c2}
    Controls = {"pause", "abort", "reset", "cancel"}
    MaxRuns = 3
    MaxControls = 3
    Other = c2
INVARIANTS TypeOK OneRunAtATime OutcomesAreTold EventsInOrder
PROPERTIES NothingStartsPaused AllGoesOn
CHECK_DEADLOCK FALSE
