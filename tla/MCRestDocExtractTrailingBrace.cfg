\* The same question as MCRestDocExtract.cfg, over every file, including
\* the truncated ones that end with an opening brace.
CONSTANTS
    None = None
    MaxTail = 4
    MaxRecords = 8
    Files <- MCFilesAll
SPECIFICATION Spec
INVARIANT OneRecordPerDeclaration
