------------------------- MODULE MCRestDocExtract --------------------------
(***************************************************************************)
(* RestDocExtract over every file that starts with a registration and has *)
(* at most MaxTail further tokens of TailTokens.  WellFormed keeps the     *)
(* files a C++ compiler accepts the end of: they do not end with "{".      *)
(***************************************************************************)
EXTENDS RestDocExtract

CONSTANT MaxTail

\* A registration, a quote, braces, a comment opener and a word.
TailTokens == {"addResource", "\"", "{", "}", "/**", "w"}

AllFiles ==
    {<<"addResource", "\"">> \o t : t \in BoundedSeq(TailTokens, MaxTail)}

WellFormed(f) == f[Len(f)] # "{"

MCFilesWellFormed == {f \in AllFiles : WellFormed(f)}
MCFilesAll == AllFiles

\* Two registrations, then a short tail.
MCFilesTwoRegistrations ==
    {f \in {<<"addResource", "\"", "w", "\"", "addResource", "\"", "w", "\"">> \o t :
                t \in BoundedSeq(TailTokens, MaxTail)} : WellFormed(f)}
=============================================================================
