------------------------------- MODULE Lexer -------------------------------
(***************************************************************************)
(* The lexer: class Lexer of src/lexer.cpp.  Lexer::next() reads one       *)
(* character at a time (getch), puts back the one or two that belong to    *)
(* the next token (ungetch), and keeps line and column of where it is;     *)
(* stepping back over a newline takes the column from the table            *)
(* _line_size.  An action here is one turn of a loop of next(): the reads  *)
(* of that turn and what is put back.                                      *)
(*                                                                         *)
(* A character stands for its class: "a" is what isalpha accepts and '_',  *)
(* "1" a digit, " " white space other than a newline, "+" the operators    *)
(* and brackets that are one character, "@" what no token starts with.     *)
(***************************************************************************)
EXTENDS Integers, Sequences, FiniteSets

CONSTANTS
  Texts,      \* the programs to read, sequences of characters
  Keywords    \* the words of make_keyword, and true and false

Newline == "\n"
Backslash == "\\"
Quotes == {"\"", "'"}
Space == {" ", Newline}
Alpha == {"a"}
Digit == {"1"}
Alnum == Alpha \cup Digit
Single == {"+"}
EOF == "EOF"

Characters ==
  Space \cup Quotes \cup Alnum \cup Single \cup {Backslash, ".", "/", ":", "=", "<", ">", "@"}

ASSUME TextsAssumption == Texts \subseteq Seq(Characters)

(* The operators of two characters, by their first: the second, the token  *)
(* of both, and the token of the first alone.                              *)
Operator2 ==
  [ch \in {"/", ".", ":", "=", "<", ">"} |->
     CASE ch = "/" -> [second |-> "=", both |-> "NEQ",    alone |-> "SLASH"]
       [] ch = "." -> [second |-> ".", both |-> "DOTDOT", alone |-> "DOT"]
       [] ch = ":" -> [second |-> "=", both |-> "ASSIGN", alone |-> "YYUNDEF"]
       [] ch = "=" -> [second |-> ">", both |-> "ARROW",  alone |-> "EQ"]
       [] ch = "<" -> [second |-> "=", both |-> "LE",     alone |-> "LT"]
       [] ch = ">" -> [second |-> "=", both |-> "GE",     alone |-> "GT"]]

VARIABLES
  text,     \* what the stream holds; it does not change
  cursor,   \* the stream's position, _end_location and _line_size
  begin,    \* _begin_location
  start,    \* ghost: characters read before the token in work
  c,        \* the character a loop of next() has stopped at
  isReal,   \* of the number in work
  pc,       \* where next() is
  tokens    \* what next() has returned: [kind, begin, end] and, as ghosts, [from, to]

vars == <<text, cursor, begin, start, c, isReal, pc, tokens>>

-----------------------------------------------------------------------------
(* The cursor: at characters are read, past counts the reads at the end of *)
(* the stream that were not put back (a ghost), ok says that every assert  *)
(* of the four functions below held, and putback() met the character that  *)
(* was read.                                                               *)

NextLineUnrecorded(k) == [k EXCEPT !.line = @ + 1, !.column = 1]

NextLine(k) ==
  LET line == k.line + 1
      new  == Len(k.line_size) < line
  IN  [k EXCEPT !.line = line, !.column = 1,
                !.line_size = IF new THEN Append(@, 1) ELSE @,
                !.ok = @ /\ (new => Len(k.line_size) + 1 = line)]

NextCol(k) ==
  LET column == k.column + 1
  IN  [k EXCEPT !.column = column,
                !.line_size[k.line] = IF @ < column THEN column ELSE @,
                !.ok = @ /\ k.line <= Len(k.line_size)]

PrevLine(k) ==
  [k EXCEPT !.line = @ - 1,
            !.column = k.line_size[k.line - 1],
            !.ok = @ /\ k.line > 1 /\ k.line <= Len(k.line_size)]

PrevCol(k) ==
  [k EXCEPT !.column = @ - 1, !.ok = @ /\ k.column > 0]

(* What getch() returns. *)
Peek(k) == IF k.at < Len(text) THEN text[k.at + 1] ELSE EOF

Getch(k) ==
  LET read == IF Peek(k) = EOF THEN [k EXCEPT !.past = @ + 1] ELSE [k EXCEPT !.at = @ + 1]
  IN  IF Peek(k) = Newline THEN NextLine(read) ELSE NextCol(read)

UngetchNewlineAsColumn(k, ch) ==
  LET unread == IF ch = EOF THEN [k EXCEPT !.past = @ - 1]
                ELSE [k EXCEPT !.at = @ - 1, !.ok = @ /\ text[k.at] = ch]
  IN  PrevCol(unread)

Ungetch(k, ch) ==
  LET unread == IF ch = EOF THEN [k EXCEPT !.past = @ - 1]
                ELSE [k EXCEPT !.at = @ - 1, !.ok = @ /\ text[k.at] = ch]
  IN  IF ch = Newline THEN PrevLine(unread) ELSE PrevCol(unread)

Location(k) == [line |-> k.line, column |-> k.column]

Init ==
  /\ text \in Texts
  /\ cursor = [at |-> 0, line |-> 1, column |-> 1, line_size |-> <<0>>, past |-> 0, ok |-> TRUE]
  /\ begin = [line |-> 1, column |-> 1]
  /\ start = 0
  /\ c = EOF
  /\ isReal = FALSE
  /\ pc = "idle"
  /\ tokens = << >>

-----------------------------------------------------------------------------
(* Lexer::next() *)

First  == Peek(cursor)
Second == Peek(Getch(cursor))

Read1   == Getch(cursor)
Read2   == Getch(Getch(cursor))
Peeked1 == Ungetch(Read1, First)
Peeked2 == Ungetch(Read2, Second)

(* "1..": both dots go back. *)
PutBackBothOnce == Ungetch(Read2, Second)
PutBackBoth == Ungetch(Ungetch(Read2, Second), ".")

Return(kind, k) ==
  /\ cursor' = k
  /\ tokens' = Append(tokens, [kind |-> kind, begin |-> begin, end |-> Location(k),
                               from |-> start, to |-> k.at])
  /\ pc' = IF kind = "YYEOF" THEN "done" ELSE "idle"
  /\ UNCHANGED <<text, begin, start, c, isReal>>

(* The parser asks for the next token, until it has seen the last. *)
CallNext ==
  /\ pc = "idle"
  /\ pc' = "skip"
  /\ begin' = Location(cursor)
  /\ start' = cursor.at
  /\ UNCHANGED <<text, cursor, c, isReal, tokens>>

(* White space and comments. *)
SkipTo(k, phase) ==
  /\ cursor' = k
  /\ pc' = phase
  /\ UNCHANGED <<text, c, isReal, tokens>>

SkipSpace ==
  /\ pc = "skip"
  /\ First \in Space
  /\ SkipTo(Read1, "skip")
  /\ begin' = Location(Read1)
  /\ start' = Read1.at

OpensComment == First = "/" /\ Second = "/"

OpenComment ==
  /\ pc = "skip"
  /\ OpensComment
  /\ SkipTo(Read2, "comment")
  /\ UNCHANGED <<begin, start>>

CommentChar ==
  /\ pc = "comment"
  /\ First \notin {Newline, EOF}
  /\ SkipTo(Read1, "comment")
  /\ UNCHANGED <<begin, start>>

CommentEnd ==
  /\ pc = "comment"
  /\ First = Newline
  /\ SkipTo(Read1, "skip")
  /\ begin' = Location(Read1)
  /\ start' = Read1.at

ReturnEOF ==
  /\ pc \in {"skip", "comment"}
  /\ First = EOF
  /\ Return("YYEOF", Read1)

(* A character that is neither starts a token; the one after a '/' has     *)
(* been read to see that it is no comment.                                 *)
StartTokenEvenComment ==
  /\ pc = "skip"
  /\ First \notin Space \cup {EOF}
  /\ cursor' = Read1
  /\ c' = First
  /\ isReal' = FALSE
  /\ pc' = IF First \in Alpha THEN "word"
           ELSE IF First \in Digit THEN "number"
           ELSE IF First \in Quotes THEN "string" ELSE "operator"
  /\ UNCHANGED <<text, begin, start, tokens>>

StartToken ==
  /\ pc = "skip"
  /\ First \notin Space \cup {EOF}
  /\ ~OpensComment
  /\ cursor' = IF First = "/" THEN Peeked2 ELSE Read1
  /\ c' = First
  /\ isReal' = FALSE
  /\ pc' = IF First \in Alpha THEN "word"
           ELSE IF First \in Digit THEN "number"
           ELSE IF First \in Quotes THEN "string" ELSE "operator"
  /\ UNCHANGED <<text, begin, start, tokens>>

(* Identifiers and keywords *)
WordChar ==
  /\ pc = "word"
  /\ First \in Alnum
  /\ cursor' = Read1
  /\ UNCHANGED <<text, begin, start, c, isReal, pc, tokens>>

Word(from, to) == SubSeq(text, from + 1, to)

WordKind(w) == IF w \in Keywords THEN "KEYWORD" ELSE "IDENT"

WordEndDrops ==
  /\ pc = "word"
  /\ First \notin Alnum
  /\ Return(WordKind(Word(start, Peeked1.at)), Read1)

WordEnd ==
  /\ pc = "word"
  /\ First \notin Alnum
  /\ Return(WordKind(Word(start, Peeked1.at)), Peeked1)

(* Numbers *)
NumberKind == IF isReal THEN "REAL" ELSE "INTEGER"

NumberDigit ==
  /\ pc = "number"
  /\ First \in Digit
  /\ cursor' = Read1
  /\ UNCHANGED <<text, begin, start, c, isReal, pc, tokens>>

NumberDot ==
  /\ pc = "number"
  /\ First = "." /\ Second # "."
  /\ cursor' = Peeked2
  /\ isReal' = TRUE
  /\ UNCHANGED <<text, begin, start, c, pc, tokens>>

NumberDotDotGoesOn ==
  /\ pc = "number"
  /\ First = "." /\ Second = "."
  /\ cursor' = PutBackBoth
  /\ UNCHANGED <<text, begin, start, c, isReal, pc, tokens>>

NumberDotDot ==
  /\ pc = "number"
  /\ First = "." /\ Second = "."
  /\ Return(NumberKind, PutBackBoth)

NumberEnd ==
  /\ pc = "number"
  /\ First \notin Digit \cup {"."}
  /\ Return(NumberKind, Peeked1)

(* Strings: c is the quote that opened it. *)
StringChar ==
  /\ pc = "string"
  /\ First \notin {EOF, c, Backslash}
  /\ cursor' = Read1
  /\ UNCHANGED <<text, begin, start, c, isReal, pc, tokens>>

StringEscape ==
  /\ pc = "string"
  /\ First = Backslash
  /\ cursor' = Read2
  /\ UNCHANGED <<text, begin, start, c, isReal, pc, tokens>>

StringEnd ==
  /\ pc = "string"
  /\ First \in {EOF, c}
  /\ Return("STRING", Read1)

(* Operators and punctuation: c is the first character. *)
Operator1 ==
  /\ pc = "operator"
  /\ c \notin DOMAIN Operator2
  /\ Return(IF c \in Single THEN "SINGLE" ELSE "YYUNDEF", cursor)

OperatorBoth ==
  /\ pc = "operator"
  /\ c \in DOMAIN Operator2
  /\ First = Operator2[c].second
  /\ Return(Operator2[c].both, Read1)

(* next() would read on to the end of the line if a '/' followed a '/'     *)
(* here: see CommentsAreSkipped.                                           *)
OperatorAlone ==
  /\ pc = "operator"
  /\ c \in DOMAIN Operator2
  /\ First # Operator2[c].second
  /\ ~(c = "/" /\ First = "/")
  /\ Return(Operator2[c].alone, Peeked1)

Done == pc = "done" /\ UNCHANGED vars

Step ==
  \/ CallNext
  \/ SkipSpace \/ OpenComment \/ CommentChar \/ CommentEnd \/ ReturnEOF
  \/ StartToken
  \/ WordChar \/ WordEnd
  \/ NumberDigit \/ NumberDot \/ NumberDotDot \/ NumberEnd
  \/ StringChar \/ StringEscape \/ StringEnd
  \/ Operator1 \/ OperatorBoth \/ OperatorAlone

Next == Step \/ Done

Spec == Init /\ [][Next]_vars

(* The parser calls next() until it returns YYEOF, and next() runs without *)
(* waiting for anything but the stream.                                    *)
FairSpec == Spec /\ WF_vars(Step)

-----------------------------------------------------------------------------
(* What the text says, read at once instead of a character at a time.      *)

CharAt(n) == IF n < Len(text) THEN text[n + 1] ELSE EOF

(* The place after n characters: a line more than there are newlines among *)
(* them, a column more than there are characters after the last.           *)
Newlines(n) == {i \in 1..n : text[i] = Newline}
OnLine(n)   == {i \in 1..n : \A j \in i..n : text[j] # Newline}
Position(n) == [line |-> Cardinality(Newlines(n)) + 1, column |-> Cardinality(OnLine(n)) + 1]

(* A token that starts after p characters ends at the first n its kind     *)
(* ends at.                                                                *)
WordEndsAt(p, n) == CharAt(n) \notin Alnum

NumberEndsAt(p, n) ==
  \/ CharAt(n) \notin Digit \cup {"."}
  \/ CharAt(n) = "." /\ CharAt(n + 1) = "."

Escaped(p, n) ==
  \E m \in p + 1..n - 1 :
    /\ text[m] # Backslash
    /\ \A i \in m + 1..n - 1 : text[i] = Backslash
    /\ (n - 1 - m) % 2 = 1

StringClosedAt(p, n) == n > p + 1 /\ text[n] = text[p + 1] /\ ~Escaped(p, n)
StringEndsAt(p, n) == StringClosedAt(p, n) \/ n = Len(text)

IsPair(p) == CharAt(p) \in DOMAIN Operator2 /\ CharAt(p + 1) = Operator2[CharAt(p)].second
OperatorEndsAt(p, n) == n = p + (IF IsPair(p) THEN 2 ELSE 1)

EndsFirstAt(EndsAt(_, _), p, n) ==
  /\ n \in p + 1..Len(text)
  /\ EndsAt(p, n)
  /\ \A m \in p + 1..n - 1 : ~EndsAt(p, m)

IsToken(t) ==
  LET first == CharAt(t.from)
  IN  \/ /\ first \in Alpha
         /\ EndsFirstAt(WordEndsAt, t.from, t.to)
         /\ t.kind = WordKind(Word(t.from, t.to))
      \/ /\ first \in Digit
         /\ EndsFirstAt(NumberEndsAt, t.from, t.to)
         /\ t.kind = IF \E i \in t.from + 1..t.to : text[i] = "." THEN "REAL" ELSE "INTEGER"
      \/ /\ first \in Quotes
         /\ EndsFirstAt(StringEndsAt, t.from, t.to)
         /\ t.kind = "STRING"
      \/ /\ first \in DOMAIN Operator2
         /\ ~(first = "/" /\ CharAt(t.from + 1) = "/")
         /\ EndsFirstAt(OperatorEndsAt, t.from, t.to)
         /\ t.kind = IF IsPair(t.from) THEN Operator2[first].both ELSE Operator2[first].alone
      \/ /\ first \in Single \cup {Backslash, "@"}
         /\ EndsFirstAt(OperatorEndsAt, t.from, t.to)
         /\ t.kind = IF first \in Single THEN "SINGLE" ELSE "YYUNDEF"

(* Characters p + 1..q are white space and comments. *)
Blank(p, q) ==
  \A i \in p + 1..q :
    \/ text[i] \in Space
    \/ \E s \in p + 1..i :
         /\ s < q /\ text[s] = "/" /\ text[s + 1] = "/"
         /\ \A j \in s..i : text[j] # Newline

EndOf(i) == IF i = 0 THEN 0 ELSE tokens[i].to

Unclosed(t) == t.kind = "STRING" /\ ~StringClosedAt(t.from, t.to)

(* The forms docs/Project_D_FULL.md:285-292 gives the literals.            *)
TwoNumbers(t) ==
  \E dot \in t.from + 2..t.to - 1 :
    /\ text[dot] = "."
    /\ \A i \in (t.from + 1..t.to) \ {dot} : text[i] \in Digit

AsDocumented(t) ==
  /\ t.kind = "INTEGER" => \A i \in t.from + 1..t.to : text[i] \in Digit
  /\ t.kind = "REAL" => TwoNumbers(t)
  /\ ~Unclosed(t)

(* What next() takes for a real besides: 1. and 1.1.1 (lexer.cpp:174-196). *)
StrayDot(t) ==
  /\ t.kind = "REAL"
  /\ \/ text[t.to] = "."
     \/ \E i, j \in t.from + 1..t.to : i # j /\ text[i] = "." /\ text[j] = "."

InKnownForm(t) == AsDocumented(t) \/ StrayDot(t) \/ Unclosed(t)

-----------------------------------------------------------------------------
Kinds ==
  {"YYEOF", "YYUNDEF", "KEYWORD", "IDENT", "INTEGER", "REAL", "STRING", "SINGLE"}
    \cup {Operator2[ch].both : ch \in DOMAIN Operator2}
    \cup {Operator2[ch].alone : ch \in DOMAIN Operator2}

Locations == [line : Nat \ {0}, column : Nat \ {0}]

Phases == {"idle", "skip", "comment", "word", "number", "string", "operator", "done"}

(* The types of what class Lexer keeps; lines and columns count from 1, as *)
(* yy::position does.                                                      *)
TypeOK ==
  /\ text \in Seq(Characters)
  /\ cursor.at \in 0..Len(text)
  /\ Location(cursor) \in Locations
  /\ cursor.line_size \in Seq(Nat)
  /\ cursor.past \in Nat
  /\ cursor.ok \in BOOLEAN
  /\ begin \in Locations
  /\ start \in 0..Len(text)
  /\ c \in Characters \cup {EOF}
  /\ isReal \in BOOLEAN
  /\ pc \in Phases
  /\ tokens \in Seq([kind : Kinds, begin : Locations, end : Locations,
                     from : 0..Len(text), to : 0..Len(text)])

(* No assert of next_line, next_col, prev_line and prev_col (lexer.cpp:67, *)
(* 74, 82, 89) fails, and ungetch puts back the character the stream gave  *)
(* last (lexer.cpp:58).                                                    *)
AssertionsHold == cursor.ok

(* However often characters are put back, newlines and the end of the file *)
(* among them, line and column are those of the place the stream is at,    *)
(* one column further for each read at its end; so each token is reported  *)
(* where it begins and ends.  Not so the end of the file, and the string   *)
(* that reaches it: their reads at the end count as columns.               *)
LocationsAreThoseOfTheText ==
  /\ Location(cursor) = [Position(cursor.at) EXCEPT !.column = @ + cursor.past]
  /\ \A i \in DOMAIN tokens :
       \/ tokens[i].kind = "YYEOF"
       \/ /\ tokens[i].begin = Position(tokens[i].from)
          /\ Unclosed(tokens[i]) \/ tokens[i].end = Position(tokens[i].to)

(* The text is divided into tokens as next() divides it, whatever was put  *)
(* back meanwhile: each token is the longest its first character starts,   *)
(* of the kind that text has; between one and the next there is nothing    *)
(* but white space and comments, and the last is the end of the file       *)
(* (lexer.cpp:109-328).  The division is the code's, which is laxer than   *)
(* the document: a literal has its documented form but for a real with a   *)
(* dot at its end or several dots, and a string the end of the file ends.  *)
TokensAreThoseOfTheText ==
  /\ \A i \in DOMAIN tokens :
       /\ EndOf(i - 1) <= tokens[i].from
       /\ Blank(EndOf(i - 1), tokens[i].from)
       /\ IF tokens[i].kind = "YYEOF"
          THEN /\ i = Len(tokens)
               /\ tokens[i].to = Len(text)
               /\ Blank(tokens[i].from, Len(text))
          ELSE IsToken(tokens[i]) /\ InKnownForm(tokens[i])
  /\ pc = "done" => tokens # << >> /\ tokens[Len(tokens)].kind = "YYEOF"

(* A '/' that starts a token is not followed by another: the second        *)
(* handling of comments (lexer.cpp:259-262), which never ends in a last    *)
(* line without a newline and then puts back a character that is not the   *)
(* last one read, is never reached.                                        *)
CommentsAreSkipped == pc = "operator" /\ c = "/" => First # "/"

(* Lexing ends on every text: the loops of next() stop at the end of the   *)
(* stream, and YYEOF is returned.                                          *)
LexingEnds == <>(pc = "done")
=============================================================================
