SPECIFICATION ObjectSpec

CONSTANTS
    ObjectConfigs <- MCConfigs

CHECK_DEADLOCK FALSE

INVARIANTS
    ObjectTypeOK
    WindowCoherent
    NothingForgotten
