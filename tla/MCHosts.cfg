SPECIFICATION HostsSpec
CONSTANTS
    Nothing = Nothing
    Broken = Broken
    ProjectDir = "app"
    MaxEdits = 1
    MaxBuilds = 2
    Dirs <- MCDirs
    Ids <- MCIds
    Names <- MCNames
    Ranges <- MCRanges
    InRange <- MCInRange
    Words <- MCWords
    Accepts <- MCAccepts
    Extras <- MCExtras
    Later <- MCLater
    Spread <- MCSpread
    IsSection <- MCIsSection
    Workspaces <- MCWorkspaces
    Disks <- MCDisks
    Edited <- MCEdited
    Setups <- MCSetups
INVARIANTS OneComposition EmittedChecked MountedAsTold HostsAgree FlagHeard
CHECK_DEADLOCK FALSE
