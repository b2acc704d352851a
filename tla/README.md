# TLA+ models of the RESTdoc extractor (`src/setup/restdoc.py`)

`restdoc.py` scans C++ service sources for REST resource registrations. It
pairs each declaration with the documentation comment above it and parses
the comment's tags into a service record. It then renders the records as
MediaWiki pages plus a table of contents, and can upload them. Everything
lives in one class, `RestDoc`, and runs on a single thread. The
hard part is the hand-written, tolerant scanning, which works on offsets and
returns -1 or None instead of raising. The models concentrate there.

## Inventory

| Part | Code | State it keeps | Operations |
|---|---|---|---|
| Scanning primitives | `getScopedText` 60-77, `findToken` 88-94, `getStringValue` 107-120 | none (pure) | balanced-scope scan, marker search, delimited value |
| Comment parser | `parseServiceAttribute` 152-170, `parseServiceDocumentation` 178-221 | the service dict under construction, the line buffer | fence removal, star stripping, fold of lines into a buffer flushed at each tag line |
| Declaration extractor | `processFile` 308-338, `getAllServices` 234-302 | file cursor `cPos`, resource text and its cursor, result lists | one resource per `addResource` marker, one record per top-level `{` |
| URL resolution | `updateUrl` 129-144, `processFile` 340-352 | the record's `url` | prepend the module's base URL, strip one trailing `/` |
| Rendering | `generateWikiServiceEntry`, `generateWikiText`, `wikifyService`, `run()` 586-605 | `processed` flags in `self.api`, the pages written, the `documentation` list | one page per URL, skipping processed or private services |
| TOC | `generateWikiToc` 458-497, `wikifyServiceToc` | none | a link per URL by group |
| Options | `setupParser` 23-47 | `self.options` | the options become choices of the initial state |
| Upload | `uploadToWiki` 516-566, `run()` 614-625 | the wiki's pages, which outlive the process | create a page, merge into a page keeping its Notes, merge into the TOC keeping its preamble |

How the parts interact: `run()` calls `processFile` for each file.
`processFile` calls `getAllServices` for each resource, and
`getAllServices` calls the parser for each declaration. All records go into
`self.api`. The rendering loop and `generateWikiText` then share the
`processed` flags of those records. With `-u`, `run()` finally uploads
each listed file. The upload reads the local file back and merges it into
the page already on the wiki. What earlier runs left on the wiki is
therefore input to the next run.

What makes the code hard:
- cursor arithmetic with -1 sentinels;
- loops that advance by the length of a scanned substring;
- a fold whose output depends on the order of tag lines and text lines;
- exceptions that nothing catches;
- the `processed` flags written by one loop and read by another.

## Modules

- `RestDocText`: the primitives.
  - A text is a sequence of tokens. A token is a lexeme the code searches
    for (`{`, `}`, the quote, `/**`, `*`, newline, the tags, `addResource`,
    ...) or a word.
  - Python's `str.find` and `str.rfind` are the RECURSIVE operators `Find`
    and `RFind`, with 0-based offsets and -1 for not found.
- `CommentParser`: `parseServiceDocumentation` as `FoldLines`, a recursive
  fold over the normalised lines.
  - `parseServiceAttribute` is one operator whose cases follow the code's
    `startswith` tests.
  - Whitespace collapsing makes a line a sequence of words.
  - The greedy regex `^.*\*` is modelled as written: it removes everything
    through the last star.
  - The IndexError of a tag with no value is a flag, `raised`.
- `RestDocExtract`: the two loops as a state machine.
  - `pc` takes the values `open`, `file`, `services`, `done` and `crashed`.
    `services` is the state in which `getAllServices` runs.
  - Each action is one loop iteration of the code, with the branch it
    takes:

    | Action | Code branch |
    |---|---|
    | `ReadFile` / `FileMissing` | `open()` succeeds or raises IOError |
    | `AddResource` | a marker followed by a URL literal |
    | `InvalidPartialUrl` | a marker with no URL literal |
    | `NoMoreResources` | `findToken` returns -1 |
    | `FileDone` | the file loop exits |
    | `ServiceChunk` | a declaration is found and parsed |
    | `ServiceDocRaises` | the parser's IndexError aborts the run |
    | `NoMoreChunks` | `find("{")` returns -1 |
    | `ServicesDone` | `return rval`, then `services += ...` |

  - `Terminating` lets the finished program stutter.
  - Records carry three ghost fields: `decl` (the declaration's offset),
    `doc` (the comment text parsed) and `processed`.
- `MCRestDocExtract`: files are an `addResource` marker and a quote,
  followed by up to `MaxTail` tokens of
  `{addResource, ", {, }, /**, w}`. A file is well formed when it does not
  end with `{`.
- `MCRestDocComment`: files are one registration and one documented
  declaration, with a comment of up to `MaxComment` tokens over newline,
  `*`, the four tags and a word.
- `WikiRender`: what happens to one file's records after extraction.
  - The tail of `processFile`:
    - `LocateModule` / `ListDirFails`: `os.listdir`, which raises for a
      bare file name.
    - `UpdateUrl`: `updateUrl` on each record. The module file is missing,
      lacks the class, or gives `BaseUrl`.
  - Then `run()`:
    - `MakeOutputDir` / `MakeOutputDirFails`: the output directory, or
      `sys.exit(1)`.
    - The page loop, one action per branch:

      | Action | Code branch |
      |---|---|
      | `WritePage` | the page is written |
      | `WritePageFails` | `open` raises IOError; a file an earlier run left under that name stays |
      | `WriteFailsAfterRender` | `write` or `close` raises IOError after `generateWikiText` marked the records; the file is left empty or whole |
      | `RenderRaises` | a None authentication raises TypeError after the file was emptied |
      | `SkipService` | the record is processed or hidden |

    - `WriteToc` / `WriteTocFails`: the table of contents. The handler of
      `WriteTocFails` raises NameError.
  - State:
    - `api`: `self.api`, whose records keep url, method, visibility,
      authentication and `processed`;
    - `pages`: file name ↦ indices of the records this run rendered into it;
    - `disk`: the output directory, file name ↦ its text. It outlives a run,
      as `./restdoc-output` does, and the upload reads it;
    - `documentation`: the upload list;
    - `tocLinks`: the link targets of the table of contents.
  - `generateWikiText` is `WikiEntries` (method order, then api order) plus
    `MarkProcessed`.
  - The markup text is formatting and is left out.
  - The upload, after `WriteToc`, with `upc` as its program counter:

    | Action | Code branch |
    |---|---|
    | `StartUpload` / `SkipUpload` | `if(self.options.uploadDocumentation)` |
    | `OpenFails` | the local file is missing; the handler's `str(docname)` raises NameError |
    | `CreatePage` | `page.exists()` is false: the file plus an empty Notes section |
    | `UpdatePage` | the new text, then what follows `= Notes =` on the wiki, both stripped |
    | `UpdateToc` | what precedes the TOC heading on the wiki, then the new TOC; with no heading, `find` gives -1 and `[:-1]` keeps all but the last character |
    | `TocPageMissing` | `get()` of a missing rest-api page raises NoPage |
    | `NetworkFails` | any pywikipedia call raises |
    | `UploadDone` | the loop ends |

  - `Rerun` starts the tool again once a run has ended, with new sources
    and options, and at most `MaxRuns` times. The wiki (`remote`) and the output
    directory (`disk`) are kept, and everything else is reset.
  - A wiki text is a token sequence. `H` is the TOC heading, `N` is the
    Notes heading, `Blank` is whitespace, `c` is any other character, and
    `W` and the method names stand for a generated page. `Strip` is
    `str.strip()`, and `FindMark` is `str.find` of a one-token marker.
- `RenderAbstract`: what page generation promises.
  - Each URL with a shown record gets its own page, exactly once. The page
    holds every shown record of that URL with an HTTP method, in method
    order. A record is shown when it is public or `-p` is given.
  - Each file is listed once for upload, and the TOC is listed last.
  - The promise is stated without loops or flags.
  - `WikiRender` instantiates it with the refinement mapping:
    - `catalog`: the api with each URL as `updateUrl` will leave it;
    - `published`: the URLs of processed records;
    - `finished`: `pc = "done"`.
  - `RefinesAbstract` checks the abstract `Spec`, weak fairness included,
    as a property.
- `MCWikiRender`: every api list of 1 to `MaxServices` records over three
  rooted URLs, two methods and both visibilities. Variants add UNKNOWN
  methods or None authentications. `MCApiUniformVisibility` keeps the
  lists where the records of one URL share their visibility; the mixed case
  is the leak that render_private_leak shows. The render-only runs look at no wiki
  page. The upload runs use public records over two URLs and these
  starting wikis:
  - the page of `/a` is missing, has no Notes, or has notes;
  - the rest-api page is missing or carries the heading;
  - (`MCRemoteNoHeading`) a hand-written rest-api page without the heading.

## Runs

| Run | Expect | What it shows |
|---|---|---|
| extract_structure (`MCRestDocExtract.cfg`, MaxTail 6, about 375k states, under 2 minutes) | pass | One record per top-level declaration, in text order, over nested, adjacent and unbalanced blocks. Each comment belongs to its own declaration. `processFile` always finishes. |
| extract_comment (`MCRestDocComment.cfg`, MaxComment 5, about 161k states) | pass | The description is the text before the first tag. Parameters come one per tag line, in order, each named by the first word after its tag. |
| render_pages (`MCWikiRender.cfg`, 3 records, about 87k states) | pass | `run()` refines `RenderAbstract`, with `privateApi` on and off, for lists whose URLs do not mix visibilities. |
| publish_reruns (`MCWikiPublish.cfg`, 2 runs, about 2.2M states, under 2 minutes) | pass | Covers two runs under every I/O and network fault, with the output directory kept between them. No step ever changes or drops the Notes section of a service page. |
| publish_failed_write (`MCWikiPublishFailedWrite.cfg`) | violation | **Bug:** a page whose write fails is still uploaded (line 605). When `write` fails after `open(..., 'w')`, the empty file replaces the page's documentation. When `open` fails on a rerun, the earlier run's file is published instead; a scratch model without the first fault confirmed this. |
| publish_toc_crop | violation | **Bug:** a hand-written rest-api page without the heading loses its last character to `[:-1]` when the TOC is merged in. |
| extract_trailing_brace | violation | **Bug:** a trailing `{` makes `getAllServices` loop forever (confirmed on the Python code). |
| comment_no_abort | violation | **Bug:** a bare `@pparam` line aborts the whole run with IndexError. |
| comment_star_strip | violation | `w *` on a comment line loses `w`, because the regex strips through the last star. The service ends up undocumented. |
| render_unknown_method | violation | **Bug:** a GET record and then an UNKNOWN record of the same URL. The second rewrites the page with no entries and lists the file twice. |
| render_private_leak | violation | **Bug:** with `privateApi` off, a private record sharing a public record's URL is published. |
| render_abort (`MCWikiPublishAbort.cfg`) | violation | **Bug:** a None authentication aborts the run with TypeError. Write failures and pywikipedia errors are enabled, so the NameError of a failed TOC write or a missing local file and the NoPage of a missing rest-api page are in the checked space too; TLC reports the shortest trace, the TypeError. |

About the bounds:
- Six tail tokens are enough for two sibling declarations, a nested block,
  a comment between blocks and a second registration.
- Five comment tokens are enough for two tag lines with values, a
  continuation line and stars.
- `MaxRecords` caps records only in the trailing-brace run, where the loop
  does not advance.
- Three records let two share a URL while a third has another, with either
  visibility, and with the module-file outcome and `privateApi` both
  chosen in `Init`.

- Two runs are enough for a wiki page written by one run to be merged into
  by the next, including after a crash halfway through the upload.

About fairness:
- `RestDocExtract` assumes weak fairness of `Next`.
- `WikiRender` assumes weak fairness of `ProgramStep` only. The program is
  a single sequential thread with no waiting, so each step it can take is
  eventually taken. Whether the tool is run again is the user's choice, so
  `Rerun` has no fairness.

`WikiRender` defines `TypeOK`, which held on every configuration, but no
run checks it: every way to break it is a modelling slip, not a plausible
bug in the code.

Each property of a passing run has a mutant in `PROJECT.json`: the
definition changed the way a plausible bug would change it. Under the
run's own configuration, TLC finds the property violated.

## Not modelled yet

1. Untagged text after a tag line goes into that tag's value (lines
   216-217). Whether spec 4.4 calls that description is ambiguous, so no
   run checks it.
2. A service URL `/rest-api` gets the page file `rest-api` (line 531).
   `WriteToc` then replaces that file, as `open(tocName, 'w')` does. TLC
   confirms on a one-record scratch model that the page's records are then
   marked processed while the file holds the TOC. No run checks it, because
   all twelve runs the project allows are taken.
3. Two URLs that differ only in `/` versus `-` (line 599) give one page,
   and the second overwrites the first. `RenderAbstract` promises a page
   per URL, so the render_pages URLs contain no such pair.
4. With the module file missing and a URL ending in `/`, the page is named
   without the trailing `/` but the TOC link keeps it (lines 139, 494).
   `PageName` and `LinkName` model both, but no run has such a URL.
5. A second registration in the block of the first gets the declarations
   after it again (line 237), and a registration without a URL literal
   takes the next one's URL without a warning (line 321). The model
   reproduces both; the spec does not say what is intended, so no
   property checks them.
6. Composing the extractor with `WikiRender`: its records are given as
   constants shaped like the extractor's.
7. One module file per source file. Several source files with different
   module files are not modelled.
8. A description that itself contains `= Notes =` is not modelled.

The markup strings are formatting, and no property is about them. The
wiki texts keep only the markers that `uploadToWiki` searches for.
