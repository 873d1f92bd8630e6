\* Every migration, with one death of the process at any point.
CONSTANTS
    Plans <- AllPlans
    Scripts <- MCScripts
    Origin <- MCOrigin
    Scratch <- MCScratch
    Windows <- MCWindows
    MaxCrashes = 1
    Hours = 24
    OracleConfigKeys = 2
    Holders = 3
    MaxHoldersInOneTx = 2
SPECIFICATION Spec
INVARIANTS ArtifactSound ScratchComplete UpgradeEnactable FactoryChainReachesLive
PROPERTIES AuthorityKept 
CHECK_DEADLOCK FALSE
