---------------------------- MODULE RestDocText ----------------------------
(***************************************************************************)
(* The text-scanning primitives of src/setup/restdoc.py (class RestDoc):   *)
(* getScopedText, findToken and getStringValue, and the two Python string  *)
(* searches they are built on, str.find and str.rfind.                     *)
(*                                                                         *)
(* A text is a sequence of tokens.  A token stands for one lexeme of the   *)
(* scanned C++ source: a single character the code searches for ("{",     *)
(* "}", the quote, ":", ",", "h", ")", "*", the newline), a marker string  *)
(* the code searches for ("addResource", "/**", "BtpMessage:", ...), or a  *)
(* word.  Positions are 0-based, as in Python: At(t, i) is t[i].           *)
(***************************************************************************)
EXTENDS Integers, SequencesExt

\* Python's None, returned by getStringValue when no value was found.
CONSTANT None

At(t, i) == t[i + 1]

\* Python's slice t[a:b] for 0 <= a, clamped at the end of the text.
Slice(t, a, b) ==
    IF a >= b \/ a >= Len(t) THEN <<>>
    ELSE SubSeq(t, a + 1, IF b > Len(t) THEN Len(t) ELSE b)

\* Does the marker s start at position i of t?
MatchAt(t, s, i) == Slice(t, i, i + Len(s)) = s

\* t.find(s, pos): the first position >= pos where the marker s starts.
RECURSIVE Find(_, _, _)
Find(t, s, pos) ==
    CASE pos + Len(s) > Len(t) -> -1
      [] MatchAt(t, s, pos)    -> pos
      [] OTHER                 -> Find(t, s, pos + 1)

\* t.rfind(s, start, end): the last position where s lies inside t[start:end].
RECURSIVE RFind(_, _, _, _)
RFind(t, s, start, end) ==
    CASE end - Len(s) < start           -> -1
      [] MatchAt(t, s, end - Len(s))    -> end - Len(s)
      [] OTHER                          -> RFind(t, s, start, end - 1)

\* findToken (restdoc.py 88-94): the offset just past the marker, or -1.
findToken(t, searchString, pos) ==
    LET rval == Find(t, searchString, pos)
    IN  IF rval # -1 THEN rval + Len(searchString) ELSE rval

(***************************************************************************)
(* getScopedText (restdoc.py 60-77): the characters of t from offset on,   *)
(* up to and including the one that brings the scope level to 0, or the   *)
(* rest of the text when the level never gets there.                      *)
(***************************************************************************)
RECURSIVE ScopeFrom(_, _, _, _, _)
ScopeFrom(t, i, open, close, scope) ==
    IF i >= Len(t) THEN <<>>
    ELSE LET c      == At(t, i)
             level  == IF c = open THEN scope + 1
                       ELSE IF c = close THEN scope - 1 ELSE scope
         IN  <<c>> \o (IF level = 0 THEN <<>>
                       ELSE ScopeFrom(t, i + 1, open, close, level))

\* Mutant: scoping from the opening character itself (offset one too low).
getScopedTextFromOpen(t, offset, scopeStartChar, scopeEndChar) ==
    ScopeFrom(t, offset - 1, scopeStartChar, scopeEndChar, 1)

getScopedText(t, offset, scopeStartChar, scopeEndChar) ==
    ScopeFrom(t, offset, scopeStartChar, scopeEndChar, 1)

(***************************************************************************)
(* getStringValue (restdoc.py 107-120): the text strictly between the next *)
(* sdelim at or after pos and the next edelim after it, with the offset of *)
(* that edelim; <<pos, None>> when either delimiter is missing.            *)
(***************************************************************************)
getStringValue(t, pos, sdelim, edelim) ==
    LET spos == Find(t, <<sdelim>>, pos)
        epos == IF spos = -1 THEN -1 ELSE Find(t, <<edelim>>, spos + 1)
    IN  IF epos = -1 THEN <<pos, None>>
        ELSE <<epos, Slice(t, spos + 1, epos)>>

=============================================================================
