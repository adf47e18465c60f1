CONSTANTS
    Lower <- MCLower
    Numbers <- MCNumbers
    kLinearScanFieldThreshold = 4
    Settings <- MCSettings
    KeyOrder <- MCKeyOrder
    Attachable <- MCAttachable
    AttachedNames <- MCAttachedNames
    MaxAttached = 2
    Paths <- MCPaths
    Types <- MCTypes
    Targets <- MCTargets
SPECIFICATION Spec
CHECK_DEADLOCK FALSE
INVARIANTS FormatsAgree PathReadsField StrictMeansEveryKey
PROPERTIES FailedGetKeepsOut
