SPECIFICATION FairSpec
CONSTANTS
    Mates <- Two
    RoleOf <- TheirRoles
    MaxTasks = 2
    MaxChanges = 1
    Addressees = {"any", "planner", "stranger"}
    MaxRuns = 2
    NSteps = 3
    Concurrency = 2
    MaxCancels = 1
    MaxDisturbs = 1
    Plans <- ThreePlans
INVARIANTS TypeOK TeamIsTrue PlanIsTrue
PROPERTIES CancelHolds WorkEnds
CHECK_DEADLOCK FALSE
