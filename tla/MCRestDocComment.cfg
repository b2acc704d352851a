CONSTANTS
    None = None
    MaxRecords = 2
    MaxComment = 5
    Files <- MCFilesComment
INIT Init
NEXT Next
INVARIANT TypeOK
INVARIANT DocFieldsFollowTags
