------------------------------ MODULE MCLexer ------------------------------
(***************************************************************************)
(* Every short text: the longer ones over a character of each kind the     *)
(* loops of next() distinguish, the shorter ones over all characters.      *)
(***************************************************************************)
EXTENDS Lexer, SequencesExt

CoreCharacters == {"a", "1", ".", "/", "=", "\"", Backslash, Newline, " "}

MCTexts == BoundedSeq(CoreCharacters, 5) \cup BoundedSeq(Characters, 3)

MCKeywords == {<<"a", "a">>}
=============================================================================
