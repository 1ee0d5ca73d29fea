----------------------------- MODULE MCAsmLexer -----------------------------
(***************************************************************************)
(* An instance of AsmLexer for TLC: one character of every class, and two  *)
(* keywords, one of them with a dot.  (The other spaces are left out: they *)
(* are skipped like the line feed, and in a comment like everything else.) *)
(***************************************************************************)
EXTENDS AsmLexer

MCAlphabet == {"a", "X", "0", "7", "9", "-", "@", ".", "/", "\n", "(", ":", "!"}
MCKeywords == {<<"x">>, <<".", "a">>}
=============================================================================
