SPECIFICATION Spec
CONSTANTS
    Capabilities <- MCCapabilities
    Releases <- MCReleases
    PointNames <- MCPoints
    ItemIds <- MCItems
    Orders <- MCOrders
    Malformed = Malformed
    Inputs <- MCInputs
INVARIANTS ProjectedPlansTaken FactoriesAfterChecks OutcomeOfModules FaithfulModulesArrive
CHECK_DEADLOCK FALSE
