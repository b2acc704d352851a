\* Two runs with upload, over one record, with failing writes and no
\* network faults: is what the upload publishes what this run rendered?
CONSTANTS
    None = None
    MaxServices = 1
    ApiLists <- MCApiPublish
    ModuleFiles = {"found"}
    DirListable = {TRUE}
    WriteFaults = TRUE
    BaseUrl <- MCBaseUrl
    WikiNames <- MCWikiNames
    RemoteInits <- MCRemoteKept
    UploadOptions = {TRUE}
    NetFaults = FALSE
    MaxRuns = 2
SPECIFICATION Spec
INVARIANT WikiCurrent
