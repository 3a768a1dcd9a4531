SPECIFICATION Spec
CONSTANTS
    Ids <- MCIds
    Names <- MCNames
    Selections <- PlainSelections
INVARIANTS RequirementsFromComposition
CHECK_DEADLOCK FALSE
