\* The DSM address of the parameters file, without deaths of the process.
CONSTANTS
    Plans <- PredefinedByParameters
    Scripts <- MCScripts
    Origin <- MCOrigin
    Scratch <- MCScratch
    Windows <- MCWindows
    MaxCrashes = 0
    Hours = 24
    OracleConfigKeys = 2
    Holders = 3
    MaxHoldersInOneTx = 2
SPECIFICATION Spec
PROPERTY EventuallyEnds
CHECK_DEADLOCK FALSE
