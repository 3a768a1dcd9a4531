SPECIFICATION Spec
CONSTANTS
    Roots <- MCRoots
    PackageNames <- MCNames
    Documents <- MCDocuments
    Basename <- MCBasename
    Unset = Unset
    Nothing = Nothing
    Disks <- MCDisks
    Edits <- MCEdits
    MaxEdits = 1
    MaxRuns = 2
INVARIANTS SnapshotsUnambiguous SealedRunsAgree WorkspaceRunsWhole
CHECK_DEADLOCK FALSE
