SPECIFICATION Spec
CONSTANTS
    Ids <- MCIds
    Names <- MCNames
    Selections <- MCSelections
INVARIANTS CompositionWithinChoice NothingLostWithoutCycle ActiveProvidersWon OverriddenOnlyBySeed RequiredSlotsServed CapCutsNothingShort EndsAsOutcome OriginsCoverOnce NamedSlotsDecided
PROPERTIES ImplementsContract Terminates
CHECK_DEADLOCK FALSE
