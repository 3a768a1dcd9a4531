SPECIFICATION ReferenceSpec
CONSTANTS
    Ids <- MCIds
    Names <- MCNames
    Versions <- MCVersions
    Stable <- MCStable
    IdOrder <- MCOrder
    Requests <- MCRequests
INVARIANTS AnswersFirst NothingSkipped
PROPERTIES Terminates
CHECK_DEADLOCK FALSE
