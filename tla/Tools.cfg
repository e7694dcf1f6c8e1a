SPECIFICATION FairSpec
CONSTANTS
    Commands = {c1, c2}
    TaskIds = {t1}
    MaxRecords = 2
    MaxEdits = 1
    MaxRetries = 1
    Agents = {a1, a2}
    Pollers = {p1, p2}
    MaxMessages = 2
    MaxShown = 1
    MaxAgain = 1
    MaxTasks = 2
    MaxHomes = 2
    MaxFailures = 1
    alpha = alpha
    beta = beta
    gamma = gamma
    None = None
    Names = {alpha, beta, gamma}
    Configs <- SomeConfigs
    Format <- SomeFormats
    Replies <- SomeReplies
    MaxContext = 7
    GlobFinds = {2}
    MaxTurns = 2
    MaxRounds = 3
INVARIANTS TypeOK AnswersAreTrue OnlyOnce ModelsAreTold
PROPERTY AllSettles
CHECK_DEADLOCK FALSE
