SPECIFICATION Spec
CONSTANTS
    Ids <- MCIds
    Names <- MCNames
    Relations <- MCRelations
    Requests <- MCRequests
INVARIANTS WalkExact
PROPERTIES ImplementsContract Terminates
CHECK_DEADLOCK FALSE
