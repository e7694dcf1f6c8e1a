SPECIFICATION Spec
CONSTANTS
    Commands <- Table
    BusyAllowed <- WhileBusy
    Texts <- SomeTexts
    Template <- ToolText
    MaxRows = 2
    MaxQueue = 4
    Requests <- SomeCalls
    MaxKept = 1
    FileCalls = {f1, f2}
    MaxActs = 4
SYMMETRY Symmetric
INVARIANTS SuggestionsAreTrue ConsentIsAsked FilesAreTrue
CHECK_DEADLOCK FALSE
