CONSTANTS
    RowCount = 3
    NoValue = NoValue
    CurrentYear = 2026
    RowTypes <- MCRowTypes
    Descriptions <- MCDescriptions
    BatchSizes <- MCBatchSizes
    MaxRows = 3
    MaxLosses = 2
    Moments <- MCMoments
    Formats <- MCFormats
SPECIFICATION Spec
INVARIANTS RetriedInsertStores ReturnFreesAll DateRoundTrip
PROPERTIES RowsByName
