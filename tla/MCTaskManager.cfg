CONSTANTS
    Versions = {v1, v2, v3}
    Installed = {v1, v2}
    Workers = {p1, p2}
    Managers = {m1, m2}
    None = None
    Platforms <- MCPlatforms
    MaxCrashes = 1
SPECIFICATION Spec
SYMMETRY Symmetry
INVARIANTS
    OneVersionReachable
    AloneIsEnough
    IdleAreEnded
PROPERTIES
    NoOldService
CHECK_DEADLOCK FALSE
