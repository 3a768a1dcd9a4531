SPECIFICATION Spec
CONSTANTS
    ScopeOrder <- MCScopeOrder
    Contexts <- MCContexts
    FileOrder <- MCFileOrder
    FileScope <- MCFileScope
    TreeFile <- MCTreeFile
    Absent = Absent
    Broken = Broken
    Null = Null
    Falsy <- MCFalsy
    Nothing = Nothing
    Unregistered = Unregistered
    Accepts <- MCAccepts
    Inputs <- MCInputs
INVARIANTS StartedMeansChecked ViewsReadBack QueriesAgree ValidStaysValid
CHECK_DEADLOCK FALSE
