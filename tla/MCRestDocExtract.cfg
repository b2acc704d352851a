\* processFile/getAllServices on every well-formed file of up to MaxTail
\* tokens after a registration: the records match the declarations.
CONSTANTS
    None = None
    MaxTail = 6
    MaxRecords = 8
    Files <- MCFilesWellFormed
SPECIFICATION Spec
INVARIANT OneRecordPerDeclaration
INVARIANT DocIsOwnComment
PROPERTY Termination
