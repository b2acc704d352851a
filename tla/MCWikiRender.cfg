\* Page generation over well-formed records, without I/O faults, against
\* the abstract promise of RenderAbstract.
CONSTANTS
    None = None
    MaxServices = 3
    ApiLists <- MCApiUniformVisibility
    ModuleFiles = {"missing", "noClass", "found"}
    DirListable = {TRUE}
    WriteFaults = FALSE
    BaseUrl <- MCBaseUrl
    WikiNames <- MCNoWikiNames
    RemoteInits <- MCNoWiki
    UploadOptions = {FALSE}
    NetFaults = FALSE
    MaxRuns = 1
SPECIFICATION Spec
PROPERTY RefinesAbstract
