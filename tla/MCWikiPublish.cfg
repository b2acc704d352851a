\* Two runs of render and upload against a wiki in every starting state,
\* with an unlistable source directory, None authentications, a failing
\* write of any output file and pywikipedia errors at any call.
CONSTANTS
    None = None
    MaxServices = 2
    ApiLists <- MCApiPublish
    ModuleFiles = {"found"}
    DirListable = {TRUE, FALSE}
    WriteFaults = TRUE
    BaseUrl <- MCBaseUrl
    WikiNames <- MCWikiNames
    RemoteInits <- MCRemoteKept
    UploadOptions = {TRUE, FALSE}
    NetFaults = TRUE
    MaxRuns = 2
SPECIFICATION Spec
PROPERTY NotesNeverLost
