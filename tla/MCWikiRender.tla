---------------------------- MODULE MCWikiRender ----------------------------
(***************************************************************************)
(* WikiRender over every self.api of one to MaxServices records drawn from *)
(* small sets of URLs, methods, visibilities and authentications, and     *)
(* over a wiki in the states the upload runs start from.                   *)
(***************************************************************************)
EXTENDS WikiRender

CONSTANT MaxServices

Record(U, M, A) ==
    [url : U, method : M, visibility : {"public", "private"},
     authentication : A, processed : {FALSE}]

Lists(U, M, A) == {s \in BoundedSeq(Record(U, M, A), MaxServices) : s # << >>}

MCBaseUrl == <<"/", "v">>

\* URLs as the extractor reads them from a correct registration.
RootedUrls == {<<"/", "a">>, <<"/", "b">>, <<"/", "a", "/", "b">>}

MCApiWellFormed == Lists(RootedUrls, {"GET", "POST"}, {"Ok"})
\* The same, where the records of one URL share their visibility: a page
\* whose URL also has a private record is the leak of MCWikiRenderPrivateLeak.
MCApiUniformVisibility ==
    {s \in MCApiWellFormed :
        \A i, j \in DOMAIN s : s[i].url = s[j].url => s[i].visibility = s[j].visibility}
\* A documented record followed by one of the same URL with no BtpMessage.
MCApiUnknownMethod ==
    {<<g, u>> : g \in Record({<<"/", "a">>}, {"GET"}, {"Ok"}),
                u \in Record({<<"/", "a">>}, {"UNKNOWN"}, {"Ok"})}
MCApiFaults == Lists(RootedUrls, {"GET", "POST"}, {"Ok", None})
MCApiNoneAuth == Lists({<<"/", "a">>}, {"GET"}, {"Ok", None})

-----------------------------------------------------------------------------
(* The upload runs: up to MaxRuns runs, each over a self.api of one to     *)
(* MaxServices public records on two URLs, or one record with None as its *)
(* authentication, against a wiki whose page for /a is missing, without a *)
(* Notes section or with one, and whose rest-api page is missing or       *)
(* carries the TOC heading.                                                *)

Urls == {<<"/", "a">>, <<"/", "b">>}

Public(U, M, A) ==
    [url : U, method : M, visibility : {"public"}, authentication : A,
     processed : {FALSE}]

\* Every list of records with an authentication, and one with None.
MCApiPublish ==
    {s \in BoundedSeq(Public(Urls, {"GET", "POST"}, {"Ok"}), MaxServices) : s # << >>}
    \cup {<<r>> : r \in Public({<<"/", "a">>}, {"GET"}, {None})}

\* The pages of the two URLs under the module's base URL, and rest-api.
ServicePages == {PageName(MCBaseUrl \o url) : url \in Urls}
MCWikiNames == ServicePages \cup {TocName}

\* A service page: missing, one with no Notes section, one with notes.
PageTexts == {None, <<"c">>, <<"c", Blank, "N", "c">>}

\* The two service pages are alike: the page of /a starts in any of these,
\* the page of /b is missing; the rest-api page is missing or has the TOC.
MCRemoteKept ==
    {r \in [MCWikiNames -> PageTexts \cup {<<"c", Blank, "H", "c">>}] :
        /\ r[TocName] \in {None, <<"c", Blank, "H", "c">>}
        /\ r[PageName(MCBaseUrl \o <<"/", "a">>)] \in PageTexts
        /\ r[PageName(MCBaseUrl \o <<"/", "b">>)] = None}

\* A rest-api page written by hand, without the TOC heading yet.
MCRemoteNoHeading ==
    {r \in [MCWikiNames -> PageTexts \cup {<<"c">>}] :
        r[TocName] = <<"c">> /\ \A n \in ServicePages : r[n] = None}

\* The runs that do not upload look at no wiki page.
MCNoWikiNames == {TocName}
MCNoWiki == {[n \in MCNoWikiNames |-> None]}
=============================================================================
