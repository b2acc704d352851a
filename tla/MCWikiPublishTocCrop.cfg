\* One run with upload against a wiki whose rest-api page lacks the heading.
CONSTANTS
    None = None
    MaxServices = 1
    ApiLists <- MCApiPublish
    ModuleFiles = {"found"}
    DirListable = {TRUE}
    WriteFaults = FALSE
    BaseUrl <- MCBaseUrl
    WikiNames <- MCWikiNames
    RemoteInits <- MCRemoteNoHeading
    UploadOptions = {TRUE}
    NetFaults = FALSE
    MaxRuns = 1
SPECIFICATION Spec
PROPERTY TocPreambleKept
