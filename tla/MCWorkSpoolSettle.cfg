SPECIFICATION FairSpec
CONSTANTS
    a = a   hub = hub   w1 = w1   w2 = w2   local = local
    Work = {w1}
    Site = {a, hub}
    Hub = hub
    Local = local
    Target <- UplinkTarget
    Origin <- UplinkOrigin
    MaxAttempts = 1
    ReclassifyBudget = 1
    HasTtl = {w1}
    Threads = {}
    Poison = {w1}
    PreCapable = {a}
    SendsMayThrow = TRUE
    MaxGen = 7
    MaxProduce = 1
    MaxRedrive = 1
INVARIANTS
    WireBudget
PROPERTIES
    TransfersEnd
CHECK_DEADLOCK FALSE
