SPECIFICATION Spec
CONSTANTS
    a = a   hub = hub   w1 = w1   w2 = w2   local = local
    Work = {w1}
    Site = {a, hub}
    Hub = hub
    Local = local
    Target <- UplinkTarget
    Origin <- UplinkOrigin
    MaxAttempts = 1
    ReclassifyBudget = 1
    HasTtl = {w1}
    Threads = {}
    Poison = {}
    PreCapable = {a, hub}
    SendsMayThrow = TRUE
    MaxGen = 2
    MaxProduce = 1
    MaxRedrive = 1
INVARIANTS
    FencePersists
    TypeOK
    Custody
PROPERTIES
    GenerationFence
CHECK_DEADLOCK FALSE
