SPECIFICATION FairSpec
CONSTANTS
    Ids = {a, b}
    Gens = {g1, g2}
    Calls = {c1}
    None = None
    Demands <- MCDemands
    MaxVMs = 2
    MaxMemoryMB = 3
    MaxCPUs = 3
    LastHost = 3
    MaxExitTombstones = 1
CHECK_DEADLOCK FALSE
INVARIANTS
    ExitPublishedOnce
    NoForgottenInstance
    ShutdownNilClosesInstances
    LeasesFollowRegistration
    AdmissionRespected
PROPERTIES
    ShutdownAllReturns
