SPECIFICATION SurfaceSpec
CONSTANTS
    a = a
    b = b
    c = c
    web = web
    server = server
    Capabilities <- MCCapabilities
    Surfaces <- MCSurfaces
    Workspaces <- MCWorkspaces
    MaxCalls = 3
INVARIANTS ReturnedIsWhole NoGaps BuildAgrees
PROPERTIES PlacesKept
CHECK_DEADLOCK FALSE
