SPECIFICATION Spec
CONSTANTS
    a = a   hub = hub   w1 = w1   w2 = w2   local = local
    Work = {w1, w2}
    Site = {hub}
    Hub = hub
    Local = local
    Target <- ConsumerTarget
    Origin <- ConsumerOrigin
    MaxAttempts = 1
    ReclassifyBudget = 1
    HasTtl = {w1}
    Threads = {{w2}}
    Poison = {}
    PreCapable = {}
    SendsMayThrow = TRUE
    MaxGen = 2
    MaxProduce = 2
    MaxRedrive = 1
INVARIANTS
    NoConcurrentExecution
PROPERTIES
    GenerationFence
CHECK_DEADLOCK FALSE
