----------------------------- MODULE WikiRender -----------------------------
(***************************************************************************)
(* What src/setup/restdoc.py does with the records of one source file once *)
(* they are extracted: the tail of processFile (locate the *Module.cpp     *)
(* file, updateUrl on every record), then run(): create the output        *)
(* directory, the page loop over self.api with generateWikiText and its   *)
(* "processed" flags, the table of contents and, when -u is given, the    *)
(* upload of every file to the wiki (uploadToWiki).  The wiki outlives the *)
(* process: the tool is run again after a crash or after the sources      *)
(* change, and each run uploads over what the earlier runs left.          *)
(*                                                                         *)
(* A record keeps the fields rendering reads: url (a token sequence over   *)
(* "/" and path words), method, visibility, authentication (None when the  *)
(* extractor found no closing ")") and processed.  A written page is the   *)
(* sequence of the api indices generateWikiText rendered into it; the     *)
(* markup itself is formatting and left out.                               *)
(*                                                                         *)
(* A wiki text is a sequence of tokens: "H" the heading "= Bitmunk REST   *)
(* API Calls =", "N" the heading "= Notes =", Blank a whitespace character,*)
(* "c" any other character, "W" the header generateWikiText writes, a      *)
(* method name for each rendered service entry, "t" the body of the TOC.  *)
(***************************************************************************)
EXTENDS Integers, SequencesExt

CONSTANTS
    None,          \* Python's None
    ApiLists,      \* the record lists processFile may have extracted
    ModuleFiles,   \* subset of {"missing", "noClass", "found"}
    DirListable,   \* subset of BOOLEAN: os.listdir(dirname) succeeds
    WriteFaults,   \* may open(..., 'w') of an output file fail?
    BaseUrl,       \* the URL prefix the module file gives the class
    WikiNames,     \* the page names of the wiki the model looks at
    RemoteInits,   \* what the wiki may hold before the first run
    UploadOptions, \* subset of BOOLEAN: self.options.uploadDocumentation
    NetFaults,     \* may a pywikipedia call (exists, get, put) raise?
    MaxRuns        \* how many times the tool is run

ASSUME ModuleFiles \subseteq {"missing", "noClass", "found"}
ASSUME DirListable \subseteq BOOLEAN /\ WriteFaults \in BOOLEAN
ASSUME UploadOptions \subseteq BOOLEAN /\ NetFaults \in BOOLEAN
ASSUME MaxRuns \in Nat \ {0}

VARIABLES
    api,            \* self.api
    moduleFile,     \* what the *Module.cpp found by processFile holds
    listable,       \* whether os.listdir(dirname) succeeds
    privateApi,     \* self.options.privateApi
    pc,             \* "locate" | "update" | "mkdir" | "pages" | "toc" | "done" | "exited" | "crashed"
    k,              \* index of the record the current loop is at
    pages,          \* output file name -> api indices rendered into it
    documentation,  \* run()'s list of files to upload
    tocLinks,       \* link targets of the table of contents once written
    log,            \* kinds of the messages given to log()
    disk,           \* the output directory: file name -> its text; outlives a run
    remote,         \* page name -> its text on the wiki, or None
    uploadDoc,      \* self.options.uploadDocumentation of this run
    upc,            \* "wait" | "upload" | "done" | "off" | "crashed"
    upos,           \* index into documentation of the file being uploaded
    runs            \* runs started so far

rvars == <<api, moduleFile, listable, privateApi, pc, k, pages, documentation,
           tocLinks, log, disk>>
uvars == <<remote, uploadDoc, upc, upos, runs>>
vars == <<rvars, uvars>>

HttpMethods == <<"GET", "POST", "PUT", "DELETE">>

Slash == "/"
Replace(u) == [i \in DOMAIN u |-> IF u[i] = Slash THEN "-" ELSE u[i]]
EndsWithSlash(u) == u # <<>> /\ Last(u) = Slash
StartsWithSlash(u) == u # <<>> /\ Head(u) = Slash

(***************************************************************************)
(* updateUrl (restdoc.py 129-144): prefix the URL given to the class in    *)
(* the module file, then drop one trailing "/"; both inside the try, so an *)
(* unreadable module file leaves the URL as it was.                        *)
(***************************************************************************)
UpdatedUrl(url, mf) ==
    LET full == IF mf = "found" THEN BaseUrl \o url ELSE url
    IN  CASE mf = "missing"      -> url
          [] EndsWithSlash(full) -> Front(full)
          [] OTHER               -> full

\* The wiki page name run() gives a URL (restdoc.py 594-599).
PageName(url) ==
    LET a == IF StartsWithSlash(url) THEN Tail(url) ELSE url
        b == IF EndsWithSlash(a) THEN Front(a) ELSE a
    IN  Replace(b)

\* The link target generateWikiToc writes for a URL: url[1:] (line 494).
LinkName(url) == IF url = <<>> THEN <<>> ELSE Replace(Tail(url))

(***************************************************************************)
(* generateWikiText(url) (restdoc.py 422-436): for each HTTP method in     *)
(* turn, every unprocessed record of self.api with that method and URL.    *)
(***************************************************************************)
WikiEntries(a, url) ==
    LET ofMethod(m) == SelectSeq([i \in DOMAIN a |-> i],
                         LAMBDA i : a[i].method = m /\ a[i].url = url /\ ~a[i].processed)
    IN  FlattenSeq([j \in DOMAIN HttpMethods |-> ofMethod(HttpMethods[j])])

MarkProcessed(a, ids) ==
    [i \in DOMAIN a |-> IF i \in ToSet(ids) THEN [a[i] EXCEPT !.processed = TRUE]
                        ELSE a[i]]

\* generateWikiServiceEntry concatenates the authentication into a string.
RaisesTypeError(a, ids) == \E j \in ToSet(ids) : a[j].authentication = None

\* generateWikiToc (restdoc.py 458-497): the public URLs, one link each.
TocLinks(a) == {LinkName(a[i].url) : i \in {i \in DOMAIN a : a[i].visibility = "public"}}

Visible(r) == privateApi \/ r.visibility = "public"

\* The file name of the table of contents (run() line 608).
TocName == <<"rest-api">>

Blank == " "
IsBlank(x) == x = Blank

\* str.strip(): drop whitespace at both ends.
Strip(t) ==
    LET first == SelectInSeq(t, LAMBDA x : ~IsBlank(x))
        last  == SelectLastInSeq(t, LAMBDA x : ~IsBlank(x))
    IN  IF first = 0 THEN << >> ELSE SubSeq(t, first, last)

\* str.find of a one-token marker: 0-based offset, or -1.
FindMark(t, m) == SelectInSeq(t, LAMBDA x : x = m) - 1

\* The text generateWikiText wrote for the records ids (restdoc.py 422-436):
\* the header, one entry per record, and the blank line ending each entry.
DocText(ids) == <<"W">> \o [j \in DOMAIN ids |-> api[ids[j]].method] \o <<Blank>>

\* generateWikiToc (restdoc.py 458-497): the heading, then the links.
TocText == <<"H", "t", Blank>>

\* docFile as rfile.read() returns it: whatever the output directory holds
\* under that name, written by this run or left by an earlier one.
OnDisk(n) == n \in DOMAIN disk
FileText(n) == disk[n]

\* Mutant: the Notes section cropped one character past its offset.
NotesPartPastHeading(cur) ==
    LET off == FindMark(cur, "N")
    IN  IF off # -1 THEN SubSeq(cur, off + 2, Len(cur)) ELSE <<"N">>

\* croppedText of a service page: the text from "= Notes =" on, or the
\* heading alone (restdoc.py 542-548).
NotesPart(cur) ==
    LET off == FindMark(cur, "N")
    IN  IF off # -1 THEN SubSeq(cur, off + 1, Len(cur)) ELSE <<"N">>

\* newText of an existing service page (restdoc.py 549).
UpdatedPageText(doc, cur) ==
    Strip(doc \o <<Blank, Blank>> \o Strip(NotesPart(cur)))

\* newText of the rest-api page: currentText[:find(heading)] + docText,
\* stripped (restdoc.py 556-559).  Python's [:-1] when find gives -1.
UpdatedTocText(doc, cur) ==
    LET h == FindMark(cur, "H")
    IN  Strip(SubSeq(cur, 1, IF h # -1 THEN h ELSE Len(cur) - 1) \o doc)

TypeOK ==
    /\ pc \in {"locate", "update", "mkdir", "pages", "toc", "done", "exited", "crashed"}
    /\ k \in 1..(Len(api) + 1)
    /\ \A i \in DOMAIN api : api[i].processed \in BOOLEAN
    /\ \A n \in DOMAIN pages : ToSet(pages[n]) \subseteq DOMAIN api
    /\ ToSet(log) \subseteq {"missingModule", "mkdirFailed", "writeFailed"}
    /\ remote \in [WikiNames -> Seq(STRING) \cup {None}]
    /\ \A n \in DOMAIN disk : disk[n] \in Seq(STRING)
    /\ upc \in {"wait", "upload", "done", "off", "crashed"}
    /\ runs \in 1..MaxRuns

Init ==
    /\ api \in ApiLists
    /\ moduleFile \in ModuleFiles
    /\ listable \in DirListable
    /\ privateApi \in BOOLEAN
    /\ pc = "locate"
    /\ k = 1
    /\ pages = << >>
    /\ documentation = << >>
    /\ tocLinks = {}
    /\ log = << >>
    /\ disk = << >>
    /\ remote \in RemoteInits
    /\ uploadDoc \in UploadOptions
    /\ upc = "wait"
    /\ upos = 1
    /\ runs = 1

-----------------------------------------------------------------------------
(* processFile, after the resource loop: os.listdir(dirname) and the      *)
(* search for a *Module.cpp file (restdoc.py 340-347).                     *)

LocateModule ==
    /\ pc = "locate" /\ listable
    /\ pc' = "update"
    /\ UNCHANGED <<uvars, disk, api, moduleFile, listable, privateApi, k, pages,
                   documentation, tocLinks, log>>

\* A bare file name gives dirname "" and os.listdir("") raises OSError.
ListDirFails ==
    /\ pc = "locate" /\ ~listable
    /\ pc' = "crashed"
    /\ UNCHANGED <<uvars, disk, api, moduleFile, listable, privateApi, k, pages,
                   documentation, tocLinks, log>>

\* for service in services: self.updateUrl(service, moduleFile)
UpdateUrl ==
    /\ pc = "update" /\ k <= Len(api)
    /\ api' = [api EXCEPT ![k].url = UpdatedUrl(@, moduleFile)]
    /\ log' = IF moduleFile = "missing" THEN Append(log, "missingModule") ELSE log
    /\ k' = k + 1
    /\ UNCHANGED <<uvars, disk, moduleFile, listable, privateApi, pc, pages, documentation,
                   tocLinks>>

UrlsDone ==
    /\ pc = "update" /\ k > Len(api)
    /\ pc' = "mkdir" /\ k' = 1
    /\ UNCHANGED <<uvars, disk, api, moduleFile, listable, privateApi, pages, documentation,
                   tocLinks, log>>

(* run(): the output directory (restdoc.py 578-584).                       *)

MakeOutputDir ==
    /\ pc = "mkdir"
    /\ pc' = "pages"
    /\ UNCHANGED <<uvars, disk, api, moduleFile, listable, privateApi, k, pages,
                   documentation, tocLinks, log>>

\* os.makedirs raises OSError: warn and sys.exit(1).
MakeOutputDirFails ==
    /\ pc = "mkdir" /\ WriteFaults
    /\ pc' = "exited"
    /\ log' = Append(log, "mkdirFailed")
    /\ UNCHANGED <<uvars, disk, api, moduleFile, listable, privateApi, k, pages,
                   documentation, tocLinks>>

(***************************************************************************)
(* run()'s page loop (restdoc.py 588-605).  An unprocessed visible record  *)
(* makes wikifyService open its page file for writing and fill it with     *)
(* generateWikiText(url), which marks what it renders as processed; the    *)
(* file name goes on the upload list whether or not the write succeeded.   *)
(***************************************************************************)
\* Mutant: the loop without its test of the processed flag.
WritableIgnoringProcessed(r) == Visible(r)

Writable(r) == ~r.processed /\ Visible(r)

WritePage ==
    /\ pc = "pages" /\ k <= Len(api) /\ Writable(api[k])
    /\ \E ids \in {WikiEntries(api, api[k].url)} :
       /\ ~RaisesTypeError(api, ids)
       /\ pages' = (PageName(api[k].url) :> ids) @@ pages
       /\ disk' = (PageName(api[k].url) :> DocText(ids)) @@ disk
       /\ api' = MarkProcessed(api, ids)
    /\ documentation' = Append(documentation, PageName(api[k].url))
    /\ k' = k + 1
    /\ UNCHANGED <<uvars, moduleFile, listable, privateApi, pc, tocLinks, log>>

\* A None authentication reaches the string concatenation of line 391
\* after open(..., 'w') has emptied the page file.
RenderRaises ==
    /\ pc = "pages" /\ k <= Len(api) /\ Writable(api[k])
    /\ RaisesTypeError(api, WikiEntries(api, api[k].url))
    /\ pages' = (PageName(api[k].url) :> << >>) @@ pages
    /\ disk' = (PageName(api[k].url) :> << >>) @@ disk
    /\ pc' = "crashed"
    /\ UNCHANGED <<uvars, api, moduleFile, listable, privateApi, k, documentation,
                   tocLinks, log>>

\* open(outputFilename, 'w') raises IOError: logged, nothing is rendered,
\* and a file an earlier run wrote under that name stays as it was.
WritePageFails ==
    /\ pc = "pages" /\ k <= Len(api) /\ Writable(api[k]) /\ WriteFaults
    /\ log' = Append(log, "writeFailed")
    /\ documentation' = Append(documentation, PageName(api[k].url))
    /\ k' = k + 1
    /\ UNCHANGED <<uvars, disk, api, moduleFile, listable, privateApi, pc, pages, tocLinks>>

\* write() or close() raises IOError once generateWikiText has marked the
\* records: logged; the truncated file holds nothing or all of the text.
WriteFailsAfterRender ==
    /\ pc = "pages" /\ k <= Len(api) /\ Writable(api[k]) /\ WriteFaults
    /\ \E ids \in {WikiEntries(api, api[k].url)} :
       /\ ~RaisesTypeError(api, ids)
       /\ pages' = (PageName(api[k].url) :> ids) @@ pages
       /\ \E t \in {<< >>, DocText(ids)} : disk' = (PageName(api[k].url) :> t) @@ disk
       /\ api' = MarkProcessed(api, ids)
    /\ log' = Append(log, "writeFailed")
    /\ documentation' = Append(documentation, PageName(api[k].url))
    /\ k' = k + 1
    /\ UNCHANGED <<uvars, moduleFile, listable, privateApi, pc, tocLinks>>

SkipService ==
    /\ pc = "pages" /\ k <= Len(api) /\ ~Writable(api[k])
    /\ k' = k + 1
    /\ UNCHANGED <<uvars, disk, api, moduleFile, listable, privateApi, pc, pages,
                   documentation, tocLinks, log>>

PagesDone ==
    /\ pc = "pages" /\ k > Len(api)
    /\ pc' = "toc"
    /\ UNCHANGED <<uvars, disk, api, moduleFile, listable, privateApi, k, pages,
                   documentation, tocLinks, log>>

(* wikifyServiceToc and run() 607-610: the table of contents "rest-api".   *)
(* open(tocName, 'w') replaces a service page written under that name.     *)

WriteToc ==
    /\ pc = "toc"
    /\ tocLinks' = TocLinks(api)
    /\ pages' = [n \in DOMAIN pages \ {TocName} |-> pages[n]]
    /\ disk' = (TocName :> TocText) @@ disk
    /\ documentation' = Append(documentation, TocName)
    /\ pc' = "done"
    /\ UNCHANGED <<uvars, api, moduleFile, listable, privateApi, k, log>>

\* Its IOError handler names an undefined variable (line 510): NameError.
WriteTocFails ==
    /\ pc = "toc" /\ WriteFaults
    /\ pc' = "crashed"
    /\ UNCHANGED <<uvars, disk, api, moduleFile, listable, privateApi, k, pages,
                   documentation, tocLinks, log>>

-----------------------------------------------------------------------------
(* run() 616-625: upload every file of the documentation list, in order.  *)

StartUpload ==
    /\ pc = "done" /\ upc = "wait" /\ uploadDoc
    /\ upc' = "upload" /\ upos' = 1
    /\ UNCHANGED <<rvars, remote, uploadDoc, runs>>

SkipUpload ==
    /\ pc = "done" /\ upc = "wait" /\ ~uploadDoc
    /\ upc' = "off"
    /\ UNCHANGED <<rvars, remote, uploadDoc, upos, runs>>

\* The file being uploaded and its wikiPath, docFile.split("/")[-1].
Uploading(n) == upc = "upload" /\ upos <= Len(documentation) /\ n = documentation[upos]

Uploaded(n, text) ==
    /\ remote' = [remote EXCEPT ![n] = text]
    /\ upos' = upos + 1
    /\ UNCHANGED <<rvars, uploadDoc, upc, runs>>

\* open(docFile) raises IOError; its handler names the undefined docname
\* (line 566): NameError ends the run.
OpenFails ==
    /\ \E n \in WikiNames : Uploading(n) /\ ~OnDisk(n)
    /\ upc' = "crashed"
    /\ UNCHANGED <<rvars, remote, uploadDoc, upos, runs>>

\* A service page the wiki does not have: the text and an empty Notes
\* section (lines 532-535).
CreatePage ==
    \E n \in WikiNames \ {TocName} :
        /\ Uploading(n) /\ OnDisk(n) /\ remote[n] = None
        /\ Uploaded(n, FileText(n) \o <<"N", Blank>>)

\* An existing service page: the new text, then its Notes section.
UpdatePage ==
    \E n \in WikiNames \ {TocName} :
        /\ Uploading(n) /\ OnDisk(n) /\ remote[n] # None
        /\ Uploaded(n, UpdatedPageText(FileText(n), remote[n]))

\* The rest-api page: what precedes the TOC heading, then the new TOC.
UpdateToc ==
    /\ Uploading(TocName) /\ remote[TocName] # None
    /\ Uploaded(TocName, UpdatedTocText(FileText(TocName), remote[TocName]))

\* page.get() of a rest-api page the wiki lacks raises NoPage, which the
\* IOError handler does not catch.
TocPageMissing ==
    /\ Uploading(TocName) /\ remote[TocName] = None
    /\ upc' = "crashed"
    /\ UNCHANGED <<rvars, remote, uploadDoc, upos, runs>>

\* page.exists(), page.get() or page.put() raises a pywikipedia error; put
\* either stores the whole text or nothing.
NetworkFails ==
    /\ NetFaults
    /\ \E n \in WikiNames : Uploading(n) /\ OnDisk(n)
    /\ upc' = "crashed"
    /\ UNCHANGED <<rvars, remote, uploadDoc, upos, runs>>

UploadDone ==
    /\ upc = "upload" /\ upos > Len(documentation)
    /\ upc' = "done"
    /\ UNCHANGED <<rvars, remote, uploadDoc, upos, runs>>

RunEnded == pc \in {"exited", "crashed"} \/ upc \in {"done", "off", "crashed"}

(* The tool is run again: a fresh process over the sources as they are    *)
(* then; the wiki and the output directory (./restdoc-output unless -o is  *)
(* given) keep what the earlier runs left.                                 *)
Rerun ==
    /\ RunEnded /\ runs < MaxRuns
    /\ api' \in ApiLists /\ moduleFile' \in ModuleFiles
    /\ listable' \in DirListable /\ privateApi' \in BOOLEAN
    /\ pc' = "locate" /\ k' = 1 /\ pages' = << >> /\ documentation' = << >>
    /\ tocLinks' = {} /\ log' = << >>
    /\ uploadDoc' \in UploadOptions
    /\ upc' = "wait" /\ upos' = 1 /\ runs' = runs + 1
    /\ UNCHANGED <<remote, disk>>

\* The last run has ended and nothing more happens.
Terminating == RunEnded /\ UNCHANGED vars

\* The steps of one run of the program.
ProgramStep ==
    \/ LocateModule \/ ListDirFails \/ UpdateUrl \/ UrlsDone
    \/ MakeOutputDir \/ MakeOutputDirFails
    \/ WritePage \/ RenderRaises \/ WritePageFails \/ WriteFailsAfterRender
    \/ SkipService \/ PagesDone
    \/ WriteToc \/ WriteTocFails
    \/ StartUpload \/ SkipUpload \/ OpenFails \/ CreatePage \/ UpdatePage
    \/ UpdateToc \/ TocPageMissing \/ NetworkFails \/ UploadDone

Next == ProgramStep \/ Rerun \/ Terminating

\* The program's own steps are weakly fair; running it again is the user's
\* choice and is not.
Spec == Init /\ [][Next]_vars /\ WF_vars(ProgramStep)

-----------------------------------------------------------------------------
(***************************************************************************)
(* Refinement.  The catalogue is self.api with each URL as updateUrl will  *)
(* leave it (so it does not change while the update loop runs), a URL is   *)
(* published once generateWikiText has marked its records, and the table   *)
(* of contents is finished when run() reaches its end.                     *)
(***************************************************************************)
FinalUrl(i) ==
    IF pc = "locate" \/ (pc = "update" /\ i >= k)
    THEN UpdatedUrl(api[i].url, moduleFile) ELSE api[i].url

Catalog ==
    [i \in DOMAIN api |-> [url |-> FinalUrl(i), method |-> api[i].method,
                           visibility |-> api[i].visibility]]

AbstractRender == INSTANCE RenderAbstract WITH
    PageOf <- PageName, TocFile <- TocName,
    catalog <- Catalog, showPrivate <- privateApi,
    published <- {api[i].url : i \in {i \in DOMAIN api : api[i].processed}},
    finished <- pc = "done"

(***************************************************************************)
(* run()'s page loop and generateWikiText share the processed flags: the   *)
(* loop writes a page for a record not yet processed, and the page marks  *)
(* every record of the URL.  Together they implement RenderAbstract: every *)
(* URL with a shown record gets exactly one page, written once, with its  *)
(* shown records in method order; each file is listed once for upload,    *)
(* and the run ends with the table of contents.                            *)
(***************************************************************************)
RefinesAbstract == AbstractRender!Spec

(***************************************************************************)
(* Properties the code's own checks aim at and does not keep; each is     *)
(* checked by a run that expects a violation.                              *)
(*                                                                         *)
(* run() writes pages only for public records unless privateApi is set    *)
(* (lines 590-591) and the TOC lists public URLs only: no private record   *)
(* is ever rendered into a page when privateApi is off.  generateWikiText  *)
(* renders every record of the URL, whatever its visibility.               *)
(***************************************************************************)
NoPrivateServicePublished ==
    ~privateApi =>
        \A n \in DOMAIN pages : \A i \in ToSet(pages[n]) : api[i].visibility = "public"

(***************************************************************************)
(* The wiki shows what this run rendered: once uploadToWiki has gone      *)
(* through the documentation list, the page of every service file on it   *)
(* starts with the text generateWikiText produced for it in this run.     *)
(* run() appends a file to the list whether or not its write succeeded    *)
(* (line 605) and uploadToWiki reads whatever is on disk under that name  *)
(* (line 524): a truncated file, or a page an earlier run left there.     *)
(***************************************************************************)
WikiCurrent ==
    upc = "done" =>
        \A n \in ToSet(documentation) :
            \/ n = TocName
            \/ /\ n \in DOMAIN pages
               /\ remote[n] # None
               /\ IsPrefix(Strip(DocText(pages[n])), remote[n])

-----------------------------------------------------------------------------
HasNotes(t) == t # None /\ FindMark(t, "N") # -1
NotesOf(t) == Strip(SubSeq(t, FindMark(t, "N") + 1, Len(t)))
PreambleOf(t) == LET h == FindMark(t, "H") IN IF h # -1 THEN SubSeq(t, 1, h) ELSE t

(***************************************************************************)
(* uploadToWiki replaces the top of a service page and keeps its "= Notes =*)
(* section", where people add their own notes (lines 539-548): no upload, *)
(* in any run, loses or alters the Notes section a page already has.       *)
(***************************************************************************)
NotesNeverLost ==
    [][\A n \in WikiNames \ {TocName} :
          HasNotes(remote[n]) =>
              /\ HasNotes(remote'[n])
              /\ NotesOf(remote'[n]) = NotesOf(remote[n])]_vars

(***************************************************************************)
(* "Only perform updates to the latter part of the rest-api wiki page"     *)
(* (lines 554-555): an upload of the TOC keeps every character the page   *)
(* had before the heading.  When the page has no heading, find returns -1  *)
(* and currentText[:-1] is everything but the last character (line 558).   *)
(***************************************************************************)
TocPreambleKept ==
    [][remote[TocName] # None /\ remote'[TocName] # remote[TocName] =>
           Strip(PreambleOf(remote'[TocName])) = Strip(PreambleOf(remote[TocName]))]_vars

(***************************************************************************)
(* Failures are logged and skipped, never an aborted run (spec section 7); *)
(* a run ends normally, by the sys.exit(1) of a missing output directory,  *)
(* or with its upload done.  A bare file name, a None authentication, a   *)
(* failed TOC write, the upload of a file whose write failed and a wiki    *)
(* without a rest-api page each raise instead.                             *)
(***************************************************************************)
RunNeverAborts == pc # "crashed" /\ upc # "crashed"


=============================================================================
