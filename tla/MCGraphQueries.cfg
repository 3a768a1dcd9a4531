SPECIFICATION MCSpec
CONSTANTS
    Names <- MCNames
    Ids <- MCIds
    Relations <- MCRelations
    EdgeBefore <- MCEdgeBefore
    Requests <- MCRequests
    DependentsRequests <- MCDependentsRequests
INVARIANTS AnswersExplain LeastOfShortest DependentsExact
CHECK_DEADLOCK FALSE
