SPECIFICATION FairBoth
CONSTANTS
    SessionModes = {"readonly", "accept_edits", "bypass"}
    Ops <- AllOps
    Intents <- AllIntents
    FileLists <- FoundFiles
    Fallback = FALSE
    MaxTurns = 2
    MaxRounds = 4
    MaxFaults = 1
    MaxRuns = 2
    NSteps = 2
    Mates = {t1, t2}
    Addressees = {t1}
    Concurrency = 2
    CancelRounds = 2
    MaxMeddling = 2
    MaxOfAKind = 1
    Plans <- ThreePlans
INVARIANTS TypeOK GateIsObeyed TurnsAreShort ReadsBeforeAnswer SwarmIsTrue
PROPERTIES TurnEnds CancelStays RunsEnd
CHECK_DEADLOCK FALSE
