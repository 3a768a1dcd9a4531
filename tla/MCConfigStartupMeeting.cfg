SPECIFICATION Spec
CONSTANTS
    ScopeOrder <- MCScopeOrder
    Contexts <- MCContexts
    FileOrder <- MCFileOrder
    FileScope <- MCFileScope
    TreeFile <- MCTreeFile
    Absent = Absent
    Broken = Broken
    Null = Null
    Falsy <- MCFalsy
    Nothing = Nothing
    Unregistered = Unregistered
    Accepts <- MCAccepts
    Inputs <- MeetingInputs
INVARIANTS KeysCoexist
CHECK_DEADLOCK FALSE
