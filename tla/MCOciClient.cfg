CONSTANTS
    RowCount = 3
    NoValue = NoValue
    RowTypes <- MCRowTypes
    Descriptions <- MCDescriptions
    BatchSizes <- MCBatchSizes
    MaxRows = 3
    MaxBinds = 1
    MaxFailures = 1
SPECIFICATION Spec
INVARIANTS SuccessIsComplete NothingOutlivesItsEnv
PROPERTIES RowsAsSent
