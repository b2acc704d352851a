CONSTANTS
    None = None
    MaxRecords = 2
    MaxComment = 3
    Files <- MCFilesComment
INIT Init
NEXT Next
INVARIANT ExtractionNeverAborts
