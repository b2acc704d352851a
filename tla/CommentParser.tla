--------------------------- MODULE CommentParser ---------------------------
(***************************************************************************)
(* The documentation-comment parser of src/setup/restdoc.py:               *)
(* parseServiceDocumentation and parseServiceAttribute.                    *)
(*                                                                         *)
(* A comment is a token sequence (see RestDocText).  After the parser has *)
(* collapsed whitespace a line is a sequence of words, so a buffer or a    *)
(* field value is modelled as the sequence of its words: Python's          *)
(* " ".join(words), strip() and split() become the identity on it.         *)
(* Python raises IndexError on a tag line without the word it indexes; the *)
(* exception is not caught anywhere in restdoc.py, so the parse result     *)
(* carries a flag "raised" that the caller turns into the end of the run.  *)
(***************************************************************************)
EXTENDS RestDocText

NL == "\n"
Tags == {"@pparam", "@qparam", "@visibility", "@return"}

\* The skeleton service of restdoc.py 181-186.
SkeletonService ==
    [description     |-> <<"This call is currently undocumented.">>,
     visibility      |-> "private",
     pathParameters  |-> <<>>,
     queryParameters |-> <<>>,
     return          |-> <<"This return value is currently undocumented.">>,
     raised          |-> FALSE]

\* text.split("\n")
RECURSIVE SplitLines(_)
SplitLines(t) ==
    LET k == Find(t, <<NL>>, 0)
    IN  IF k = -1 THEN <<t>>
        ELSE <<Slice(t, 0, k)>> \o SplitLines(Slice(t, k + 1, Len(t)))

\* t.replace(tok, "") for a marker that is a single token.
RemoveAll(t, tok) == SelectSeq(t, LAMBDA c : c # tok)

\* leadingStar.sub("", line) with leadingStar = "^.*\*": the line loses
\* everything up to and including its LAST star.
StripLeadingStar(line) ==
    LET stars == {i \in 0..(Len(line) - 1) : At(line, i) = "*"}
    IN  IF stars = {} THEN line
        ELSE Slice(line, Max(stars) + 1, Len(line))

StartsWithTag(words, tag) == words # <<>> /\ Head(words) = tag

Param(words) ==
    [name |-> words[2], description |-> SubSeq(words, 3, Len(words))]

(***************************************************************************)
(* parseServiceAttribute (restdoc.py 152-170), applied to a buffer.  A     *)
(* parameter or visibility tag with no following word makes Python index  *)
(* past the end of split().                                                *)
(***************************************************************************)
IndexingTags == {"@pparam", "@qparam", "@visibility"}

Raises(text) == \E tag \in IndexingTags : StartsWithTag(text, tag) /\ Len(text) < 2

\* Mutants of parseServiceAttribute, used to test the properties: the two
\* copy-pasted parameter branches appending to each other's list, and the
\* visibility taken as split()[0] instead of split()[1].
parseServiceAttributeSwapped(service, text) ==
    IF service.raised THEN service
    ELSE IF Raises(text) THEN [service EXCEPT !.raised = TRUE]
    ELSE CASE StartsWithTag(text, "@pparam") ->
                [service EXCEPT !.queryParameters = Append(@, Param(text))]
           [] StartsWithTag(text, "@qparam") ->
                [service EXCEPT !.pathParameters = Append(@, Param(text))]
           [] StartsWithTag(text, "@visibility") ->
                [service EXCEPT !.visibility = text[2]]
           [] StartsWithTag(text, "@return") ->
                [service EXCEPT !.return = Tail(text)]
           [] OTHER -> [service EXCEPT !.description = text]

parseServiceAttributeVisibilityTag(service, text) ==
    IF service.raised THEN service
    ELSE IF Raises(text) THEN [service EXCEPT !.raised = TRUE]
    ELSE CASE StartsWithTag(text, "@pparam") ->
                [service EXCEPT !.pathParameters = Append(@, Param(text))]
           [] StartsWithTag(text, "@qparam") ->
                [service EXCEPT !.queryParameters = Append(@, Param(text))]
           [] StartsWithTag(text, "@visibility") ->
                [service EXCEPT !.visibility = text[1]]
           [] StartsWithTag(text, "@return") ->
                [service EXCEPT !.return = Tail(text)]
           [] OTHER -> [service EXCEPT !.description = text]

parseServiceAttribute(service, text) ==
    IF service.raised THEN service
    ELSE IF Raises(text) THEN [service EXCEPT !.raised = TRUE]
    ELSE CASE StartsWithTag(text, "@pparam") ->
                [service EXCEPT !.pathParameters = Append(@, Param(text))]
           [] StartsWithTag(text, "@qparam") ->
                [service EXCEPT !.queryParameters = Append(@, Param(text))]
           [] StartsWithTag(text, "@visibility") ->
                [service EXCEPT !.visibility = text[2]]
           [] StartsWithTag(text, "@return") ->
                [service EXCEPT !.return = Tail(text)]
           [] OTHER -> [service EXCEPT !.description = text]

(***************************************************************************)
(* parseServiceDocumentation (restdoc.py 178-221).  The fences are removed *)
(* from the whole text, each line loses its leading stars, and the lines   *)
(* (plus the empty line after the final newline of ntext) are folded into  *)
(* a buffer that is flushed into the service at every tag line and at the *)
(* end.                                                                    *)
(***************************************************************************)
NormalizedLines(text) ==
    LET lines == SplitLines(RemoveAll(RemoveAll(text, "/**"), "*/"))
    IN  [i \in DOMAIN lines |-> StripLeadingStar(lines[i])] \o <<<<>>>>

IsTagLine(line) == \E tag \in Tags : StartsWithTag(line, tag)

RECURSIVE FoldLines(_, _, _)
FoldLines(service, buffer, lines) ==
    IF lines = <<>> THEN parseServiceAttribute(service, buffer)
    ELSE LET line == Head(lines)
         IN  IF IsTagLine(line)
             THEN FoldLines(parseServiceAttribute(service, buffer), line,
                            Tail(lines))
             ELSE FoldLines(service, buffer \o line, Tail(lines))

parseServiceDocumentation(text) ==
    FoldLines(SkeletonService, <<>>, NormalizedLines(text))

=============================================================================
