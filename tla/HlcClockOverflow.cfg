SPECIFICATION Spec
CONSTANTS
    Host = {a}
    Base = 16
    Limit = 16
    MaxWall = 1
    MaxStamps = 17
PROPERTY CausalOrder
CHECK_DEADLOCK FALSE
