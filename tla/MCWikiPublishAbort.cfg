\* One run with upload, over one record, against a wiki whose rest-api
\* page may be missing, with failing writes and pywikipedia errors.
CONSTANTS
    None = None
    MaxServices = 1
    ApiLists <- MCApiPublish
    ModuleFiles = {"found"}
    DirListable = {TRUE}
    WriteFaults = TRUE
    BaseUrl <- MCBaseUrl
    WikiNames <- MCWikiNames
    RemoteInits <- MCRemoteKept
    UploadOptions = {TRUE}
    NetFaults = TRUE
    MaxRuns = 1
SPECIFICATION Spec
INVARIANT RunNeverAborts
