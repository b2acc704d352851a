-------------------------- MODULE MCRestDocComment --------------------------
(***************************************************************************)
(* Model-checking instance of RestDocExtract aimed at the comment parser:  *)
(* every file is one registration with one documented declaration, and    *)
(* the documentation comment ranges over every sequence of up to          *)
(* MaxComment tokens drawn from newlines, stars, the four tags and a word. *)
(***************************************************************************)
EXTENDS RestDocExtract

CONSTANT MaxComment

CommentTokens == {NL, "*", "@pparam", "@qparam", "@visibility", "@return", "w"}

MCFilesComment ==
    {<<"addResource", "\"", "w", "\"", "/**">> \o c \o <<"{", "}">> :
        c \in BoundedSeq(CommentTokens, MaxComment)}

=============================================================================
