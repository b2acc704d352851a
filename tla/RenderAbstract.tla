--------------------------- MODULE RenderAbstract ---------------------------
(***************************************************************************)
(* What the page generation of restdoc.py promises, stated without its     *)
(* loops and flags: each URL that has a record to show gets its own page,  *)
(* written once and named for no other URL,                                *)
(* holding every shown record of that URL with an HTTP method, by method  *)
(* in the order GET, POST, PUT, DELETE and in catalogue order within a     *)
(* method; each page file is listed once for upload, and the table of     *)
(* contents is written and listed after all pages.                         *)
(***************************************************************************)
EXTENDS Integers, SequencesExt

CONSTANTS
    PageOf(_),   \* the file name of a URL's page
    TocFile      \* the file name of the table of contents

VARIABLES
    catalog,        \* the records: url, method, visibility
    showPrivate,    \* are private records shown?
    published,      \* the URLs whose page is written
    pages,          \* file name -> indices of the records on that page
    documentation,  \* the files to upload, in order
    finished        \* the table of contents is written

avars == <<catalog, showPrivate, published, pages, documentation, finished>>

MethodRank == [GET |-> 1, POST |-> 2, PUT |-> 3, DELETE |-> 4]

Shown(i) == showPrivate \/ catalog[i].visibility = "public"

\* The URLs that must get a page.
ShownUrls == {catalog[i].url : i \in {i \in DOMAIN catalog : Shown(i)}}

\* The records the page of u promises: the shown ones; -p adds the private
\* ones (restdoc.py 36-38).
OnPage(u) ==
    {i \in DOMAIN catalog :
        catalog[i].url = u /\ catalog[i].method \in DOMAIN MethodRank /\ Shown(i)}

PageFor(u) ==
    SetToSortSeq(OnPage(u),
        LAMBDA i, j : \/ MethodRank[catalog[i].method] < MethodRank[catalog[j].method]
                      \/ /\ MethodRank[catalog[i].method] = MethodRank[catalog[j].method]
                         /\ i < j)

Init ==
    /\ published = {}
    /\ pages = << >>
    /\ documentation = << >>
    /\ finished = FALSE

Publish(u) ==
    /\ ~finished
    /\ u \in ShownUrls \ published
    /\ PageOf(u) \notin DOMAIN pages
    /\ pages' = (PageOf(u) :> PageFor(u)) @@ pages
    /\ documentation' = Append(documentation, PageOf(u))
    /\ published' = published \cup {u}
    /\ UNCHANGED <<catalog, showPrivate, finished>>

Finish ==
    /\ ~finished
    /\ ShownUrls \subseteq published
    /\ documentation' = Append(documentation, TocFile)
    /\ finished' = TRUE
    /\ UNCHANGED <<catalog, showPrivate, published, pages>>

Next == (\E u \in ShownUrls : Publish(u)) \/ Finish

Spec == Init /\ [][Next]_avars /\ WF_avars(Next)

=============================================================================
