--------------------------- MODULE RestDocExtract ---------------------------
(***************************************************************************)
(* The extraction engine of src/setup/restdoc.py: the resource loop of     *)
(* processFile (restdoc.py 308-338) and the declaration loop of            *)
(* getAllServices (restdoc.py 234-302), run over one source file.          *)
(*                                                                         *)
(* One step is one iteration of either loop.  getAllServices is entered    *)
(* from processFile with the cursor on the closing quote of the partial    *)
(* URL; its local state (allServicesText, its cursor, its result list) is  *)
(* kept in variables while pc = "services".  The group and class names are *)
(* fixed for a file and left out.  An IndexError raised by the comment     *)
(* parser aborts the run (pc = "crashed").                                 *)
(***************************************************************************)
EXTENDS CommentParser

CONSTANTS
    Files,       \* the source texts the run may be given
    MaxRecords   \* bound on records, reached only when a loop stops advancing

ASSUME MaxRecords \in Nat

VARIABLES
    text,             \* the file's content on disk; cppText once read
    pc,               \* "open" | "file" | "services" | "done" | "crashed"
    cPos,             \* processFile's cursor into text
    partialUrl,       \* the URL of the resource getAllServices works on
    site,             \* offset in text where allServicesText starts
    allServicesText,  \* getScopedText(text, site, "{", "}")
    sPos,             \* getAllServices' cursor (its cPos)
    rval,             \* getAllServices' result list
    services,         \* processFile's result list
    log               \* the warnings written by log()

vars == <<text, pc, cPos, partialUrl, site, allServicesText, sPos, rval,
          services, log>>

UpperOf == [get |-> "GET", post |-> "POST", put |-> "PUT", delete |-> "DELETE"]
\* str.upper() on one token
Upper(tok) == IF tok \in DOMAIN UpperOf THEN UpperOf[tok] ELSE tok

(***************************************************************************)
(* The HTTP method and authentication of a declaration body               *)
(* (restdoc.py 277-290).  The method is the text between the colon after  *)
(* "BtpMessage:" and the next comma, upper-cased; None when no comma       *)
(* follows.  The authentication is the text between the "h" after          *)
(* "BtpAction::Aut" and the next ")".                                      *)
(***************************************************************************)
MethodOf(serviceText) ==
    LET mPos == findToken(serviceText, <<"BtpMessage:">>, 0)
        method == getStringValue(serviceText, mPos, ":", ",")[2]
    IN  CASE mPos = -1    -> <<"UNKNOWN">>
          [] method = None -> None
          [] OTHER         -> [i \in DOMAIN method |-> Upper(method[i])]

AuthenticationOf(serviceText) ==
    LET aPos == findToken(serviceText, <<"BtpAction::Aut">>, 0)
    IN  IF aPos = -1 THEN <<"None">>
        ELSE getStringValue(serviceText, aPos, "h", ")")[2]

UndocumentedService == <<"This service is currently undocumented.">>

\* The words that follow a "@visibility" tag in a comment.
VisibilityWords(doc) ==
    LET w == FlattenSeq(NormalizedLines(doc))
    IN  {w[k + 1] : k \in {k \in 1..(Len(w) - 1) : w[k] = "@visibility"}}

TypeOK ==
    /\ pc \in {"open", "file", "services", "done", "crashed"}
    /\ cPos \in -1..Len(text)
    /\ sPos \in -1..Len(allServicesText)
    /\ site \in 0..Len(text)
    /\ \A r \in ToSet(rval) \cup ToSet(services) :
          /\ r.decl \in 0..(Len(text) - 1)
          /\ r.visibility \in {"private"} \cup VisibilityWords(r.doc)
          /\ r.processed = FALSE
          /\ r.doc \in Seq(STRING)
    /\ \A e \in ToSet(log) : e.kind \in {"missingFile", "invalidUrl", "undocumented"}

Init ==
    /\ text \in Files
    /\ pc = "open"
    /\ cPos = 0
    /\ partialUrl = <<>>
    /\ site = 0
    /\ allServicesText = <<>>
    /\ sPos = 0
    /\ rval = <<>>
    /\ services = <<>>
    /\ log = <<>>

-----------------------------------------------------------------------------
(* processFile: open(file, 'r') and read() it, or catch the IOError.       *)

ReadFile ==
    /\ pc = "open"
    /\ pc' = "file"
    /\ UNCHANGED <<text, cPos, partialUrl, site, allServicesText, sPos, rval,
                   services, log>>

\* The file does not exist: log the error; the file contributes nothing.
FileMissing ==
    /\ pc = "open"
    /\ log' = Append(log, [kind |-> "missingFile", at |-> 0])
    /\ pc' = "done"
    /\ UNCHANGED <<text, cPos, partialUrl, site, allServicesText, sPos, rval,
                   services>>

(* processFile: while(cPos < cppTextLen and cPos != -1)                    *)

FileLoopGuard == cPos < Len(text) /\ cPos # -1

\* Mutant: the loop ends on pos = -1 without storing it in cPos.
NoMoreResourcesKeepCursor ==
    /\ pc = "file" /\ FileLoopGuard
    /\ findToken(text, <<"addResource">>, cPos) = -1
    /\ UNCHANGED vars

\* findToken(cppText, "addResource", cPos) finds nothing: cPos = pos = -1.
NoMoreResources ==
    /\ pc = "file" /\ FileLoopGuard
    /\ findToken(text, <<"addResource">>, cPos) = -1
    /\ cPos' = -1
    /\ UNCHANGED <<text, pc, partialUrl, site, allServicesText, sPos, rval,
                   services, log>>

\* A resource with a quoted partial URL: call getAllServices(cppText, cPos,
\* partialUrl, ...) with cPos on the URL's closing quote.
AddResource ==
    /\ pc = "file" /\ FileLoopGuard
    /\ \E pos \in {findToken(text, <<"addResource">>, cPos)} :
       /\ pos # -1
       /\ \E sv \in {getStringValue(text, pos, "\"", "\"")} :
          /\ sv[2] # None
          /\ cPos' = sv[1]
          /\ partialUrl' = sv[2]
          /\ site' = sv[1]
          /\ allServicesText' = getScopedText(text, sv[1], "{", "}")
    /\ sPos' = 0
    /\ rval' = <<>>
    /\ pc' = "services"
    /\ UNCHANGED <<text, services, log>>

\* No quoted string follows the marker: warn, and go on from the marker.
InvalidPartialUrl ==
    /\ pc = "file" /\ FileLoopGuard
    /\ \E pos \in {findToken(text, <<"addResource">>, cPos)} :
          /\ pos # -1
          /\ getStringValue(text, pos, "\"", "\"")[2] = None
          /\ cPos' = pos
          /\ log' = Append(log, [kind |-> "invalidUrl", at |-> pos])
    /\ UNCHANGED <<text, pc, partialUrl, site, allServicesText, sPos, rval,
                   services>>

FileDone ==
    /\ pc = "file" /\ ~FileLoopGuard
    /\ pc' = "done"
    /\ UNCHANGED <<text, cPos, partialUrl, site, allServicesText, sPos, rval,
                   services, log>>

-----------------------------------------------------------------------------
(* getAllServices: while(cPos < astLength and cPos != -1)                  *)

ServiceLoopGuard == sPos < Len(allServicesText) /\ sPos # -1

\* The documentation paired with the declaration whose "{" is at c: from
\* the last "/**" between the last "}" before c and c, up to c.
\* Mutant: the comment searched for from the start of the text, without
\* the bound of the previous "}".
DocumentationTextUnbounded(ast, c) ==
    LET dPos == RFind(ast, <<"/**">>, 0, c)
    IN  IF dPos # -1 THEN Slice(ast, dPos, c) ELSE <<>>

DocumentationText(ast, c) ==
    LET cend == RFind(ast, <<"}">>, 0, c)
        dPos == RFind(ast, <<"/**">>, IF cend = -1 THEN 0 ELSE cend, c)
    IN  IF dPos # -1 THEN Slice(ast, dPos, c) ELSE <<>>

\* The service dictionary getAllServices appends (restdoc.py 268-298).
Service(parsed, serviceText, url, decl, doc) ==
    [description     |-> IF parsed.description = <<>> THEN UndocumentedService
                         ELSE parsed.description,
     visibility      |-> parsed.visibility,
     pathParameters  |-> parsed.pathParameters,
     queryParameters |-> parsed.queryParameters,
     return          |-> parsed.return,
     url             |-> url,
     method          |-> MethodOf(serviceText),
     authentication  |-> AuthenticationOf(serviceText),
     processed       |-> FALSE,
     decl            |-> decl,   \* ghost: offset of the declaration's "{"
     doc             |-> doc]    \* ghost: the documentation text parsed

(***************************************************************************)
(* One declaration: its body is scoped from just past its "{", the cursor *)
(* moves by the body's length, and its documentation is parsed.  (Each    *)
(* value is bound once with \E over a singleton.)                          *)
(***************************************************************************)
ServiceChunk ==
    /\ pc = "services" /\ ServiceLoopGuard
    /\ Len(services) + Len(rval) < MaxRecords
    /\ \E c \in {Find(allServicesText, <<"{">>, sPos)} :
       \E serviceText \in {getScopedText(allServicesText, c + 1, "{", "}")},
          doc \in {DocumentationText(allServicesText, c)} :
       \E parsed \in {parseServiceDocumentation(doc)} :
          /\ c # -1
          /\ ~parsed.raised
          /\ sPos' = c + Len(serviceText)
          /\ rval' = Append(rval, Service(parsed, serviceText, partialUrl, site + c, doc))
          /\ log' = IF parsed.description = <<>>
                    THEN Append(log, [kind |-> "undocumented", at |-> site + c])
                    ELSE log
    /\ UNCHANGED <<text, pc, cPos, partialUrl, site, allServicesText, services>>

\* parseServiceDocumentation raises IndexError: the exception ends the run.
ServiceDocRaises ==
    /\ pc = "services" /\ ServiceLoopGuard
    /\ \E c \in {Find(allServicesText, <<"{">>, sPos)} :
          /\ c # -1
          /\ parseServiceDocumentation(DocumentationText(allServicesText, c)).raised
    /\ pc' = "crashed"
    /\ UNCHANGED <<text, cPos, partialUrl, site, allServicesText, sPos, rval,
                   services, log>>

\* allServicesText.find("{", cPos) finds nothing: the loop ends.
NoMoreChunks ==
    /\ pc = "services" /\ ServiceLoopGuard
    /\ Find(allServicesText, <<"{">>, sPos) = -1
    /\ sPos' = -1
    /\ UNCHANGED <<text, pc, cPos, partialUrl, site, allServicesText, rval,
                   services, log>>

\* return rval; processFile does services += allServices.
ServicesDone ==
    /\ pc = "services" /\ ~ServiceLoopGuard
    /\ services' = services \o rval
    /\ pc' = "file"
    /\ UNCHANGED <<text, cPos, partialUrl, site, allServicesText, sPos, rval,
                   log>>

\* The run is over; let the finished program stutter.
Terminating == pc \in {"done", "crashed"} /\ UNCHANGED vars

Next ==
    \/ ReadFile \/ FileMissing
    \/ NoMoreResources \/ AddResource \/ InvalidPartialUrl \/ FileDone
    \/ ServiceChunk \/ ServiceDocRaises \/ NoMoreChunks \/ ServicesDone
    \/ Terminating

Spec == Init /\ [][Next]_vars /\ WF_vars(Next)

-----------------------------------------------------------------------------
(***************************************************************************)
(* Properties.                                                             *)
(***************************************************************************)

\* The brace depth of allServicesText before position p, counted from the
\* level 1 that getAllServices starts scoping at.
Depth(t, p) ==
    1 + Cardinality({i \in 0..(p - 1) : At(t, i) = "{"})
      - Cardinality({i \in 0..(p - 1) : At(t, i) = "}"})

\* The declarations of a resource: its "{" at depth 1, before position upto.
TopLevelDecls(t, upto) ==
    {p \in 0..(upto - 1) : At(t, p) = "{" /\ Depth(t, p) = 1}

(***************************************************************************)
(* getAllServices skips each declaration body by moving its cursor by the *)
(* length of the scoped body text.  The records it has produced so far are *)
(* then exactly the top-level declarations of the resource up to its       *)
(* cursor, each once and in text order: a body is never re-entered, a      *)
(* nested block is never taken for a declaration, and no declaration is    *)
(* skipped.                                                                *)
(***************************************************************************)
OneRecordPerDeclaration ==
    pc = "services" =>
        LET upto == IF sPos = -1 THEN Len(allServicesText) ELSE sPos + 1
        IN  /\ {rval[i].decl - site : i \in DOMAIN rval}
                 = TopLevelDecls(allServicesText, upto)
            /\ \A i \in 1..(Len(rval) - 1) : rval[i].decl < rval[i + 1].decl

(***************************************************************************)
(* The documentation getAllServices pairs with a declaration is bounded on *)
(* the left by the last "}" before it, so no text of an earlier           *)
(* declaration, and no brace, ends up in a record's documented fields.    *)
(***************************************************************************)
DocumentedWords(r) ==
    ToSet(r.description) \cup ToSet(r.return) \cup {r.visibility}
      \cup {p.name : p \in ToSet(r.pathParameters) \cup ToSet(r.queryParameters)}
      \cup UNION {ToSet(p.description) :
                  p \in ToSet(r.pathParameters) \cup ToSet(r.queryParameters)}

DocIsOwnComment ==
    \A r \in ToSet(services) \cup ToSet(rval) : DocumentedWords(r) \cap {"{", "}"} = {}

(***************************************************************************)
(* parseServiceDocumentation flushes its buffer into the service at every  *)
(* tag line and once more at the end.  Whatever the interleaving of tag    *)
(* lines, continuation lines and stars, a record's description is the text *)
(* before the first tag line (or the undocumented sentinel when there is   *)
(* none), and its path and query parameters are, in order, one per        *)
(* "@pparam"/"@qparam" line, each named by the first word after its tag.   *)
(***************************************************************************)
WordsFrom(lines, i) == FlattenSeq(SubSeq(lines, i, Len(lines)))

TagLinesOf(lines, tag) ==
    SetToSortSeq({i \in DOMAIN lines : StartsWithTag(lines[i], tag)}, <)

ExpectedNames(lines, tag) ==
    [k \in DOMAIN TagLinesOf(lines, tag) |-> WordsFrom(lines, TagLinesOf(lines, tag)[k])[2]]

LeadingText(lines) ==
    LET tagged == {i \in DOMAIN lines : IsTagLine(lines[i])}
        first  == IF tagged = {} THEN Len(lines) + 1 ELSE Min(tagged)
    IN  FlattenSeq(SubSeq(lines, 1, first - 1))

Names(params) == [k \in DOMAIN params |-> params[k].name]

DocFieldsFollowTags ==
    \A r \in ToSet(services) \cup ToSet(rval) :
        LET lines == NormalizedLines(r.doc)
        IN  /\ r.description = IF LeadingText(lines) = <<>> THEN UndocumentedService
                               ELSE LeadingText(lines)
            /\ Names(r.pathParameters) = ExpectedNames(lines, "@pparam")
            /\ Names(r.queryParameters) = ExpectedNames(lines, "@qparam")

(***************************************************************************)
(* Properties the spec states of extraction and that the code does not     *)
(* keep; each is checked by a run that expects a violation.                *)
(*                                                                         *)
(* Failures are local (spec section 7): extraction never aborts the run.   *)
(* The code lets the IndexError of a bare "@pparam", "@qparam" or          *)
(* "@visibility" line escape parseServiceAttribute.                        *)
(***************************************************************************)
ExtractionNeverAborts == pc # "crashed"

(***************************************************************************)
(* Comment lines lose a leading run of continuation stars (spec 4.4 step   *)
(* 2), nothing else: the description is the text before the first tag of  *)
(* the comment so normalised.  The code's regex "^.*\*" strips everything  *)
(* up to the last star of the line.                                        *)
(***************************************************************************)
RECURSIVE DropLeadingStars(_)
DropLeadingStars(line) ==
    IF line # << >> /\ Head(line) = "*" THEN DropLeadingStars(Tail(line)) ELSE line

LeadingRunLines(doc) ==
    LET lines == SplitLines(RemoveAll(RemoveAll(doc, "/**"), "*/"))
    IN  [i \in DOMAIN lines |-> DropLeadingStars(lines[i])] \o << << >> >>

OnlyLeadingStarsStripped ==
    \A r \in ToSet(services) \cup ToSet(rval) :
        LET lead == LeadingText(LeadingRunLines(r.doc))
        IN  r.description = IF lead = << >> THEN UndocumentedService ELSE lead

(***************************************************************************)
(* Every run of processFile ends: both loops advance their cursor or stop. *)
(***************************************************************************)
Termination == <>(pc \in {"done", "crashed"})

=============================================================================
