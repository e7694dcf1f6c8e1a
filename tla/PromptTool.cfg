SPECIFICATION Spec
CONSTANTS
    Commands <- Table
    BusyAllowed <- WhileBusy
    Texts <- SomeTexts
    Template <- ToolText
    MaxRows = 2
    MaxQueue = 2
    Requests <- SomeCalls
    MaxKept = 1
    FileCalls = {f1, f2}
    MaxActs = 4
INVARIANT ShortcutReachesTurn
CHECK_DEADLOCK FALSE
