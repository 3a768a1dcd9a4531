SPECIFICATION Spec
CONSTANTS
    Roots <- MCRoots
    PackageNames <- MCNames
    Documents <- MCDocuments
    Basename <- MCBasename
    Unset = Unset
    Nothing = Nothing
    Disks <- PaddedDisks
    Edits <- MCEdits
    MaxEdits = 0
    MaxRuns = 1
INVARIANT WorkspaceRunsMatch
CHECK_DEADLOCK FALSE
