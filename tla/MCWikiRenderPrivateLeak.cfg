CONSTANTS
    None = None
    MaxServices = 2
    ApiLists <- MCApiWellFormed
    ModuleFiles = {"found"}
    DirListable = {TRUE}
    WriteFaults = FALSE
    BaseUrl <- MCBaseUrl
    WikiNames <- MCNoWikiNames
    RemoteInits <- MCNoWiki
    UploadOptions = {FALSE}
    NetFaults = FALSE
    MaxRuns = 1
SPECIFICATION Spec
INVARIANT NoPrivateServicePublished
