---------------------------- MODULE LexerProofs ----------------------------
(***************************************************************************)
(* Module Lexer for every set of texts and keywords: no assert of the      *)
(* lexer fails, what ungetch() puts back is what was read, lines and       *)
(* columns are those of the text, and so are the tokens.                   *)
(*                                                                         *)
(* The argument.  CursorOK says where a cursor is: its line and column     *)
(* are those of the text before it, and _line_size holds, for each line    *)
(* left behind, the column of its end - unless that is 1, for an empty     *)
(* line is entered with 1 only when it is new.  GetchKeeps: a read keeps   *)
(* CursorOK.  UngetchKeeps: so does putting back the last character read,  *)
(* if that is no newline that ends an empty line.  No phase of next() puts *)
(* one back: it has read a character of the line by then (PhaseOK).  The   *)
(* first part of the module is about cursors alone, the second about the   *)
(* actions, one lemma for each kind of token.                              *)
(*                                                                         *)
(* The third part is about the tokens. TokensAreThoseOfTheText speaks of   *)
(* tokens returned; of the one in work it has to be known that no place    *)
(* passed is one where it ends (ProgressOK), so that the place where       *)
(* next() stops is the first, and of the gap before it that it is blank    *)
(* (GapOK). That putting back leaves the cursor where it should be is the  *)
(* first part's: FirstPutBack, SecondPutBack and BothPutBack.              *)
(***************************************************************************)
EXTENDS Lexer, FiniteSetTheorems, TLAPS

(* The program is made of characters.                                      *)
TextOK == text \in Seq(Characters)

(* Before a place of the text are finitely many newlines, and finitely     *)
(* many characters of its line.                                            *)
LEMMA PlacesFinite ==
  ASSUME NEW n \in Nat
  PROVE  /\ IsFiniteSet(Newlines(n)) /\ Cardinality(Newlines(n)) \in Nat
         /\ IsFiniteSet(OnLine(n)) /\ Cardinality(OnLine(n)) \in Nat
<1>1. IsFiniteSet(1..n)
  BY FS_Interval
<1>2. Newlines(n) \in SUBSET (1..n) /\ OnLine(n) \in SUBSET (1..n)
  BY DEF Newlines, OnLine
<1>3. IsFiniteSet(Newlines(n)) /\ IsFiniteSet(OnLine(n))
  BY <1>1, <1>2, FS_Subset
<1> QED
  BY <1>3, FS_CardinalityType

(* The line and the column of a place, as Position has them.               *)
Line(n)   == Position(n).line
Column(n) == Position(n).column

(* Line and Column are the two fields of Position, and count what Position *)
(* counts.                                                                 *)
LEMMA PlaceFields ==
  ASSUME NEW n \in Nat
  PROVE  /\ Position(n) = [line |-> Line(n), column |-> Column(n)]
         /\ Line(n) = Cardinality(Newlines(n)) + 1
         /\ Column(n) = Cardinality(OnLine(n)) + 1
BY DEF Line, Column, Position

(* A text starts at line 1, column 1, where Lexer starts (yy::location).   *)
LEMMA PlaceOfStart ==
  Position(0) = [line |-> 1, column |-> 1]
<1>1. Newlines(0) = {} /\ OnLine(0) = {}
  BY DEF Newlines, OnLine
<1> QED
  BY <1>1, FS_EmptySet DEF Position

(* After a newline the place is column 1 of the next line; after any other *)
(* character it is the next column of the same line: what next_line() and  *)
(* next_col() have to compute.                                             *)
LEMMA NextPlace ==
  ASSUME TextOK, NEW n \in Nat
  PROVE  /\ text[n + 1] = Newline => Line(n + 1) = Line(n) + 1 /\ Column(n + 1) = 1
         /\ text[n + 1] # Newline => Line(n + 1) = Line(n) /\ Column(n + 1) = Column(n) + 1
<1> n + 1 \in Nat
  OBVIOUS
<1>1. ASSUME text[n + 1] = Newline
      PROVE  Line(n + 1) = Line(n) + 1 /\ Column(n + 1) = 1
  <2>1. Newlines(n + 1) = Newlines(n) \cup {n + 1} /\ n + 1 \notin Newlines(n)
    BY <1>1 DEF Newlines
  <2>2. OnLine(n + 1) = {}
    BY <1>1 DEF OnLine
  <2>3. Cardinality(Newlines(n + 1)) = Cardinality(Newlines(n)) + 1
    BY <2>1, PlacesFinite, FS_AddElement
  <2>4. Cardinality(OnLine(n + 1)) = 0
    BY <2>2, FS_EmptySet
  <2> QED
    BY <2>3, <2>4, PlaceFields
<1>2. ASSUME text[n + 1] # Newline
      PROVE  Line(n + 1) = Line(n) /\ Column(n + 1) = Column(n) + 1
  <2>1. Newlines(n + 1) = Newlines(n)
    BY <1>2 DEF Newlines
  <2>2. OnLine(n + 1) = OnLine(n) \cup {n + 1} /\ n + 1 \notin OnLine(n)
    BY <1>2 DEF OnLine
  <2>3. Cardinality(OnLine(n + 1)) = Cardinality(OnLine(n)) + 1
    BY <2>2, PlacesFinite, FS_AddElement
  <2> QED
    BY <2>1, <2>3, PlaceFields
<1> QED
  BY <1>1, <1>2

(* Lines and columns count from 1.                                         *)
LEMMA PlacesArePositive ==
  ASSUME NEW n \in Nat
  PROVE  Line(n) \in Nat /\ Line(n) > 0 /\ Column(n) \in Nat /\ Column(n) > 0
BY PlacesFinite DEF Line, Column, Position

(* A later place is on the same line or a later one; on the same line its  *)
(* column is as much larger as there are characters between.               *)
LEMMA SameLine ==
  ASSUME TextOK, NEW m \in Nat, NEW n \in Nat, m <= n
  PROVE  /\ Line(m) <= Line(n)
         /\ Line(m) = Line(n) => Column(n) = Column(m) + (n - m)
<1>1. Newlines(m) \subseteq Newlines(n)
  BY DEF Newlines
<1>2. /\ Cardinality(Newlines(m)) <= Cardinality(Newlines(n))
      /\ Cardinality(Newlines(m)) = Cardinality(Newlines(n)) => Newlines(m) = Newlines(n)
  BY <1>1, PlacesFinite, FS_Subset
<1>3. Line(m) <= Line(n)
  BY <1>2, PlacesFinite DEF Line, Position
<1>4. ASSUME Line(m) = Line(n)
      PROVE  Column(n) = Column(m) + (n - m)
  <2>1. Newlines(m) = Newlines(n)
    BY <1>2, <1>4, PlacesFinite DEF Line, Position
  <2>2. \A i \in m + 1..n : text[i] # Newline
    <3>1. \A i \in m + 1..n : i \notin Newlines(n) /\ i \in 1..n
      BY <2>1 DEF Newlines
    <3> QED
      BY <3>1 DEF Newlines
  <2>3. OnLine(n) = OnLine(m) \cup (m + 1..n) /\ OnLine(m) \cap (m + 1..n) = {}
    BY <2>2 DEF OnLine
  <2>4. IsFiniteSet(m + 1..n) /\ Cardinality(m + 1..n) = n - m
    <3>1. m + 1 \in Int /\ n \in Int /\ (m + 1 > n => n - m = 0) /\ n - (m + 1) + 1 = n - m
      OBVIOUS
    <3>2. /\ IsFiniteSet(m + 1..n)
          /\ Cardinality(m + 1..n) = IF m + 1 > n THEN 0 ELSE n - (m + 1) + 1
      BY <3>1, FS_Interval, Zenon
    <3> QED
      BY <3>1, <3>2
  <2>5. Cardinality(OnLine(n)) = Cardinality(OnLine(m)) + (n - m)
    <3>1. Cardinality(OnLine(m) \cap (m + 1..n)) = 0
      BY <2>3, FS_EmptySet
    <3>2. Cardinality(OnLine(m) \cup (m + 1..n)) =
            Cardinality(OnLine(m)) + Cardinality(m + 1..n) - Cardinality(OnLine(m) \cap (m + 1..n))
      BY <2>4, PlacesFinite, FS_Union
    <3> QED
      BY <2>3, <2>4, <3>1, <3>2, PlacesFinite
  <2> QED
    BY <2>5, PlacesFinite DEF Column, Position
<1> QED
  BY <1>3, <1>4

(* The end of the stream is no character of a text.                        *)
LEMMA EndOfText == EOF \notin Characters
BY DEF EOF, Characters, Space, Quotes, Alnum, Alpha, Digit, Single, Backslash, Newline

(* The values of a cursor.                                                 *)
Cursors ==
  [at : Nat, line : Nat, column : Nat, line_size : Seq(Nat), past : Nat, ok : BOOLEAN]

(* What _line_size is good for.  It covers the current line; no entry      *)
(* exceeds the column its line ends at; the entry of a line whose newline  *)
(* has been read is that column, but for an empty line; the entry of the   *)
(* current line is at least the column reached.                            *)
TableOK(k) ==
  /\ k.line <= Len(k.line_size)
  /\ \A i \in Newlines(Len(text)) :
       Line(i - 1) <= Len(k.line_size) => k.line_size[Line(i - 1)] <= Column(i - 1)
  /\ \A i \in Newlines(k.at) : Column(i - 1) > 1 => k.line_size[Line(i - 1)] >= Column(i - 1)
  /\ k.column > 1 => k.line_size[k.line] >= k.column

(* The cursor is at a place of the text and says so, one column further    *)
(* for each read at the end of the stream; no assert has failed.           *)
CursorOK(k) ==
  /\ k \in Cursors
  /\ k.at <= Len(text)
  /\ k.past > 0 => k.at = Len(text)
  /\ k.line = Line(k.at)
  /\ k.column = Column(k.at) + k.past
  /\ k.ok = TRUE
  /\ TableOK(k)

(* getch() returns the character after the cursor, or EOF at the end of    *)
(* the text.                                                               *)
LEMMA PeekCases ==
  ASSUME TextOK, NEW k, CursorOK(k)
  PROVE  \/ k.at = Len(text) /\ Peek(k) = EOF
         \/ /\ k.at < Len(text) /\ k.past = 0
            /\ Peek(k) = text[k.at + 1] /\ Peek(k) \in Characters /\ Peek(k) # EOF
BY EndOfText DEF Peek, CursorOK, Cursors, TextOK

(* The parts of CursorOK that the steps below need, with their types.      *)
LEMMA CursorFields ==
  ASSUME TextOK, NEW k, CursorOK(k)
  PROVE  /\ k.at \in Nat /\ k.line \in Nat /\ k.column \in Nat /\ k.past \in Nat /\ k.ok = TRUE
         /\ k.line_size \in Seq(Nat) /\ Len(k.line_size) \in Nat /\ k.line <= Len(k.line_size)
         /\ k.line = Line(k.at) /\ k.column = Column(k.at) + k.past
         /\ Len(text) \in Nat /\ k.at <= Len(text) /\ (k.past > 0 => k.at = Len(text))
         /\ Line(k.at) > 0 /\ Column(k.at) \in Nat /\ Column(k.at) > 0
<1>1. k.at \in Nat /\ k.line_size \in Seq(Nat)
  BY DEF CursorOK, Cursors
<1>2. Column(k.at) \in Nat /\ Column(k.at) > 0 /\ Line(k.at) > 0
  BY <1>1, PlacesArePositive
<1> QED
  BY <1>1, <1>2 DEF CursorOK, Cursors, TableOK, TextOK

(* What getch() does to the cursor when it reads a newline.                *)
ReadsNewline(k, r) ==
  /\ r \in Cursors
  /\ r.at = k.at + 1 /\ r.past = k.past /\ r.line = k.line + 1 /\ r.column = 1
  /\ r.line_size = IF Len(k.line_size) < k.line + 1 THEN Append(k.line_size, 1) ELSE k.line_size
  /\ r.ok = TRUE

(* Reading a newline keeps CursorOK: a new line gets an entry, a line met  *)
(* before keeps the one it has.                                            *)
LEMMA ReadNewline ==
  ASSUME TextOK, NEW k, CursorOK(k), k.at < Len(text), text[k.at + 1] = Newline,
         NEW r, ReadsNewline(k, r)
  PROVE  CursorOK(r)
<1> DEFINE n == Len(k.line_size)
<1>1. /\ k.at \in Nat /\ k.line \in Nat /\ k.column \in Nat /\ k.past = 0
      /\ k.line_size \in Seq(Nat) /\ n \in Nat /\ k.line <= n
      /\ k.line = Line(k.at) /\ k.column = Column(k.at)
      /\ Len(text) \in Nat
  <2>1. /\ k.at \in Nat /\ k.line \in Nat /\ k.column \in Nat /\ k.past \in Nat
        /\ k.line_size \in Seq(Nat) /\ n \in Nat /\ k.line <= n
        /\ k.line = Line(k.at) /\ k.column = Column(k.at) + k.past
        /\ Len(text) \in Nat /\ (k.past > 0 => k.at = Len(text)) /\ Column(k.at) \in Nat
    BY CursorFields
  <2>2. k.past = 0
    BY <2>1
  <2>3. k.column = Column(k.at)
    BY <2>1, <2>2
  <2> QED
    BY <2>1, <2>2, <2>3
<1>2. /\ r.at = k.at + 1 /\ r.past = 0 /\ r.line = k.line + 1 /\ r.column = 1
      /\ r.line_size = IF n < k.line + 1 THEN Append(k.line_size, 1) ELSE k.line_size
      /\ r.ok = TRUE
      /\ r \in Cursors
  BY <1>1 DEF ReadsNewline
<1>3. Line(r.at) = r.line /\ Column(r.at) = 1
  BY <1>1, <1>2, NextPlace
<1>4. r.line <= Len(r.line_size)
  BY <1>1, <1>2
<1>5. ASSUME NEW i \in Newlines(Len(text)), Line(i - 1) <= Len(r.line_size)
      PROVE  r.line_size[Line(i - 1)] <= Column(i - 1)
  <2>1. i - 1 \in Nat
    BY <1>1 DEF Newlines
  <2>2. Line(i - 1) \in Nat /\ Line(i - 1) > 0 /\ Column(i - 1) \in Nat /\ Column(i - 1) > 0
    BY <2>1, PlacesArePositive
  <2>3. CASE Line(i - 1) <= n
    <3>1. r.line_size[Line(i - 1)] = k.line_size[Line(i - 1)]
      BY <1>1, <1>2, <2>2, <2>3
    <3> QED
      BY <2>3, <3>1 DEF CursorOK, TableOK
  <2>4. CASE Line(i - 1) > n
    <3>1. r.line_size[Line(i - 1)] = 1
      BY <1>1, <1>2, <1>5, <2>2, <2>4
    <3> QED
      BY <2>2, <3>1
  <2> QED
    BY <1>1, <2>2, <2>3, <2>4
<1>6. ASSUME NEW i \in Newlines(r.at), Column(i - 1) > 1
      PROVE  r.line_size[Line(i - 1)] >= Column(i - 1)
  <2>1. i - 1 \in Nat /\ i - 1 <= k.at /\ (i \in Newlines(k.at) \/ i = k.at + 1)
    BY <1>1, <1>2 DEF Newlines
  <2>2. Line(i - 1) \in Nat /\ Line(i - 1) > 0 /\ Line(i - 1) <= k.line
    <3>1. Line(i - 1) <= Line(k.at)
      BY <1>1, <2>1, SameLine
    <3> QED
      BY <1>1, <2>1, <3>1, PlacesArePositive
  <2>3. r.line_size[Line(i - 1)] = k.line_size[Line(i - 1)]
    BY <1>1, <1>2, <2>2
  <2>4. k.line_size[Line(i - 1)] >= Column(i - 1)
    BY <1>1, <1>6, <2>1 DEF CursorOK, TableOK
  <2> QED
    BY <2>3, <2>4
<1>7. TableOK(r)
  <2>1. ~(r.column > 1)
    BY <1>2
  <2> QED
    BY <2>1, <1>4, <1>5, <1>6 DEF TableOK
<1> QED
  BY <1>1, <1>2, <1>3, <1>7 DEF CursorOK

(* A newline ends its line: the place after it is a line further, so every *)
(* place at or after it is on a later line.                                *)
LEMMA NewlineBefore ==
  ASSUME TextOK, NEW i \in Newlines(Len(text)), NEW n \in Nat
  PROVE  /\ i \in Nat /\ i - 1 \in Nat /\ Line(i - 1) \in Nat /\ Line(i - 1) > 0
         /\ Column(i - 1) \in Nat /\ Column(i - 1) > 0
         /\ Line(i) = Line(i - 1) + 1
         /\ i <= n => Line(i - 1) < Line(n)
<1>1. Len(text) \in Nat
  BY DEF TextOK
<1>2. i \in Nat /\ i - 1 \in Nat /\ text[(i - 1) + 1] = Newline /\ (i - 1) + 1 = i
  BY <1>1 DEF Newlines
<1>3. Line(i) = Line(i - 1) + 1
  BY <1>2, NextPlace
<1>4. /\ Line(i - 1) \in Nat /\ Line(i - 1) > 0 /\ Column(i - 1) \in Nat /\ Column(i - 1) > 0
      /\ Line(n) \in Nat
  BY <1>2, PlacesArePositive
<1>5. i <= n => Line(i) <= Line(n)
  BY <1>2, SameLine
<1> QED
  BY <1>2, <1>3, <1>4, <1>5

(* What getch() does to the column and its line's entry otherwise.         *)
ReadsColumn(k, r) ==
  /\ r \in Cursors
  /\ r.line = k.line /\ r.column = k.column + 1 /\ r.ok = TRUE
  /\ Len(r.line_size) = Len(k.line_size)
  /\ \A l \in 1..Len(k.line_size) :
       r.line_size[l] = IF l = k.line /\ k.line_size[l] < k.column + 1
                        THEN k.column + 1 ELSE k.line_size[l]

(* Moving one column on keeps the table right, as long as the column does  *)
(* not pass the end of the line.                                           *)
LEMMA ReadOnLine ==
  ASSUME TextOK, NEW k, CursorOK(k), NEW r, ReadsColumn(k, r), r.at \in Nat,
         \A i \in Newlines(r.at) : i \in Newlines(k.at),
         \A i \in Newlines(Len(text)) : Line(i - 1) = k.line => r.column <= Column(i - 1)
  PROVE  TableOK(r)
<1>1. /\ k.at \in Nat /\ k.line \in Nat /\ k.column \in Nat
      /\ k.line_size \in Seq(Nat) /\ Len(k.line_size) \in Nat /\ k.line <= Len(k.line_size)
      /\ k.line = Line(k.at) /\ Line(k.at) > 0 /\ k.at <= Len(text) /\ Len(text) \in Nat
  BY CursorFields
<1>2. /\ r.line = k.line /\ r.column = k.column + 1
      /\ Len(r.line_size) = Len(k.line_size)
      /\ \A l \in 1..Len(k.line_size) :
           r.line_size[l] = IF l = k.line /\ k.line_size[l] < k.column + 1
                            THEN k.column + 1 ELSE k.line_size[l]
  BY DEF ReadsColumn
<1>3. \A l \in 1..Len(k.line_size) : k.line_size[l] \in Nat
  BY <1>1
<1>4. ASSUME NEW i \in Newlines(Len(text)), Line(i - 1) <= Len(r.line_size)
      PROVE  r.line_size[Line(i - 1)] <= Column(i - 1)
  <2>1. Line(i - 1) \in 1..Len(k.line_size)
    BY <1>1, <1>2, <1>4, NewlineBefore
  <2>2. k.line_size[Line(i - 1)] <= Column(i - 1)
    BY <1>2, <1>4 DEF CursorOK, TableOK
  <2>3. Line(i - 1) = k.line => r.column <= Column(i - 1)
    OBVIOUS
  <2> QED
    BY <1>2, <1>3, <2>1, <2>2, <2>3
<1>5. ASSUME NEW i \in Newlines(r.at), Column(i - 1) > 1
      PROVE  r.line_size[Line(i - 1)] >= Column(i - 1)
  <2>1. i \in Newlines(k.at) /\ i <= k.at /\ i \in Newlines(Len(text))
    BY <1>1 DEF Newlines
  <2>2. Line(i - 1) < k.line /\ Line(i - 1) \in Nat /\ Line(i - 1) > 0
    BY <1>1, <2>1, NewlineBefore
  <2>3. k.line_size[Line(i - 1)] >= Column(i - 1)
    BY <1>5, <2>1 DEF CursorOK, TableOK
  <2>4. Line(i - 1) \in 1..Len(k.line_size) /\ Line(i - 1) # k.line
    BY <1>1, <2>2
  <2> QED
    BY <1>2, <2>3, <2>4
<1>6. r.line_size[r.line] >= r.column
  <2>1. k.line \in 1..Len(k.line_size)
    BY <1>1
  <2> QED
    BY SMTT(30), <1>1, <1>2, <1>3, <2>1
<1> QED
  BY <1>1, <1>2, <1>4, <1>5, <1>6 DEF TableOK

(* Reading a character that is not a newline keeps CursorOK.               *)
LEMMA ReadOther ==
  ASSUME TextOK, NEW k, CursorOK(k), k.at < Len(text), text[k.at + 1] # Newline,
         NEW r, ReadsColumn(k, r), r.at = k.at + 1, r.past = k.past
  PROVE  CursorOK(r)
<1>1. /\ k.at \in Nat /\ k.line \in Nat /\ k.column \in Nat /\ k.past \in Nat
      /\ k.line = Line(k.at) /\ k.column = Column(k.at) + k.past
      /\ Len(text) \in Nat /\ (k.past > 0 => k.at = Len(text)) /\ Column(k.at) \in Nat
  BY CursorFields
<1>2. k.past = 0
  BY <1>1
<1>3. k.column = Column(k.at)
  BY <1>1, <1>2
<1>4. Line(r.at) = k.line /\ Column(r.at) = k.column + 1 /\ r.at \in Nat
  BY <1>1, <1>3, NextPlace
<1>5. \A i \in Newlines(r.at) : i \in Newlines(k.at)
  BY <1>1 DEF Newlines
<1>6. ASSUME NEW i \in Newlines(Len(text)), Line(i - 1) = k.line
      PROVE  k.column + 1 <= Column(i - 1)
  <2>1. i \in Nat /\ i - 1 \in Nat /\ text[i] = Newline /\ ~(i <= k.at) /\ Column(i - 1) \in Nat
    <3>1. i \in Nat /\ i - 1 \in Nat /\ Line(i - 1) \in Nat /\ (i <= k.at => Line(i - 1) < Line(k.at))
          /\ Column(i - 1) \in Nat
      BY <1>1, NewlineBefore
    <3>2. text[i] = Newline
      BY DEF Newlines
    <3> QED
      BY <1>1, <1>6, <3>1, <3>2
  <2>2. i # k.at + 1
    BY <2>1
  <2>3. r.at <= i - 1 /\ i - 1 \in Nat
    BY <1>1, <2>1, <2>2
  <2>4. Column(i - 1) = Column(r.at) + (i - 1 - r.at)
    BY <1>4, <1>6, <2>3, SameLine
  <2> QED
    BY <1>1, <1>4, <2>3, <2>4
<1>7. r.column = k.column + 1 /\ r.line = k.line /\ r.ok = TRUE /\ r \in Cursors
  BY DEF ReadsColumn
<1>8. TableOK(r)
  BY <1>4, <1>5, <1>6, <1>7, ReadOnLine
<1> QED
  BY <1>1, <1>2, <1>4, <1>7, <1>8 DEF CursorOK

(* Reading at the end of the text keeps CursorOK: no newline ends the last *)
(* line, so the entry may grow beyond it.                                  *)
LEMMA ReadEnd ==
  ASSUME TextOK, NEW k, CursorOK(k), k.at = Len(text),
         NEW r, ReadsColumn(k, r), r.at = k.at, r.past = k.past + 1
  PROVE  CursorOK(r)
<1>1. /\ k.at \in Nat /\ k.line \in Nat /\ k.column \in Nat /\ k.past \in Nat
      /\ k.line = Line(k.at) /\ k.column = Column(k.at) + k.past
      /\ Len(text) \in Nat /\ Column(k.at) \in Nat
  BY CursorFields
<1>2. ASSUME NEW i \in Newlines(Len(text)), Line(i - 1) = k.line
      PROVE  FALSE
  <2>1. i <= k.at
    BY <1>1 DEF Newlines
  <2>2. Line(i - 1) < Line(k.at) /\ Line(i - 1) \in Nat
    BY <1>1, <2>1, NewlineBefore
  <2> QED
    BY <1>1, <1>2, <2>2
<1>3. r.column = k.column + 1 /\ r.line = k.line /\ r.ok = TRUE /\ r \in Cursors
  BY DEF ReadsColumn
<1>4. TableOK(r)
  BY <1>1, <1>2, ReadOnLine
<1> QED
  BY <1>1, <1>3, <1>4 DEF CursorOK

(* Putting back a newline keeps CursorOK when its line is not empty: the   *)
(* entry prev_line() takes the column from is the column the line ends at. *)
LEMMA UnreadNewline ==
  ASSUME TextOK, NEW k, CursorOK(k), k.past = 0, k.at > 0, text[k.at] = Newline,
         Column(k.at - 1) > 1,
         NEW r \in Cursors, r.at = k.at - 1, r.past = 0, r.line = k.line - 1,
         r.column = k.line_size[k.line - 1], r.line_size = k.line_size, r.ok = TRUE
  PROVE  CursorOK(r)
<1>1. /\ k.at \in Nat /\ k.line \in Nat /\ k.column \in Nat
      /\ k.line_size \in Seq(Nat) /\ Len(k.line_size) \in Nat /\ k.line <= Len(k.line_size)
      /\ k.line = Line(k.at) /\ k.at <= Len(text) /\ Len(text) \in Nat
  BY CursorFields
<1>2. k.at \in Newlines(Len(text)) /\ k.at \in Newlines(k.at)
  BY <1>1 DEF Newlines
<1>3. /\ Line(k.at) = Line(k.at - 1) + 1 /\ Line(k.at - 1) \in Nat /\ Line(k.at - 1) > 0
      /\ Column(k.at - 1) \in Nat
  BY <1>1, <1>2, NewlineBefore
<1>4. k.line - 1 = Line(k.at - 1) /\ k.line - 1 \in 1..Len(k.line_size)
  BY <1>1, <1>3
<1>5. k.line_size[k.line - 1] = Column(k.at - 1)
  <2>1. k.line_size[Line(k.at - 1)] <= Column(k.at - 1)
    BY <1>1, <1>2, <1>4 DEF CursorOK, TableOK
  <2>2. k.line_size[Line(k.at - 1)] >= Column(k.at - 1)
    BY <1>2 DEF CursorOK, TableOK
  <2>3. k.line_size[k.line - 1] \in Nat
    BY <1>1, <1>4
  <2> QED
    BY <1>3, <1>4, <2>1, <2>2, <2>3
<1>6. \A i \in Newlines(r.at) : i \in Newlines(k.at)
  BY <1>1 DEF Newlines
<1>7. TableOK(r)
  <2>1. r.line <= Len(r.line_size)
    BY <1>1
  <2>2. \A i \in Newlines(Len(text)) :
          Line(i - 1) <= Len(r.line_size) => r.line_size[Line(i - 1)] <= Column(i - 1)
    BY DEF CursorOK, TableOK
  <2>3. \A i \in Newlines(r.at) : Column(i - 1) > 1 => r.line_size[Line(i - 1)] >= Column(i - 1)
    BY <1>6 DEF CursorOK, TableOK
  <2>4. r.line_size[r.line] >= r.column
    BY <1>3, <1>5
  <2> QED
    BY <2>1, <2>2, <2>3, <2>4 DEF TableOK
<1> QED
  BY <1>1, <1>3, <1>4, <1>5, <1>7 DEF CursorOK

(* Moving one column back keeps the table right.                           *)
LEMMA UnreadOnLine ==
  ASSUME TextOK, NEW k, CursorOK(k), NEW r \in Cursors, r.at <= k.at,
         r.line = k.line, r.column = k.column - 1, r.line_size = k.line_size
  PROVE  TableOK(r)
<1>1. /\ k.at \in Nat /\ k.line \in Nat /\ k.column \in Nat /\ r.at \in Nat
      /\ k.line_size \in Seq(Nat) /\ Len(k.line_size) \in Nat /\ k.line <= Len(k.line_size)
      /\ k.line = Line(k.at) /\ Line(k.at) > 0
  BY CursorFields DEF Cursors
<1>2. \A i \in Newlines(r.at) : i \in Newlines(k.at)
  BY <1>1 DEF Newlines
<1>3. ASSUME r.column > 1
      PROVE  r.line_size[r.line] >= r.column
  <2>1. k.line_size[k.line] >= k.column
    BY <1>1, <1>3 DEF CursorOK, TableOK
  <2>2. k.line_size[k.line] \in Nat
    BY <1>1
  <2> QED
    BY <1>1, <2>1, <2>2
<1>4. \A i \in Newlines(Len(text)) :
        Line(i - 1) <= Len(r.line_size) => r.line_size[Line(i - 1)] <= Column(i - 1)
  BY DEF CursorOK, TableOK
<1>5. \A i \in Newlines(r.at) : Column(i - 1) > 1 => r.line_size[Line(i - 1)] >= Column(i - 1)
  BY <1>2 DEF CursorOK, TableOK
<1> QED
  BY <1>1, <1>3, <1>4, <1>5 DEF TableOK
(* The cursors that getch() and ungetch() build, once their asserts are    *)
(* known to hold.                                                          *)
Back(k, n) ==
  [k EXCEPT !.at = n, !.ok = TRUE]

(* The fields of a cursor put back on the stream.                          *)
LEMMA BackFields ==
  ASSUME NEW k \in Cursors, NEW n \in Nat
  PROVE  /\ Back(k, n) \in Cursors
         /\ Back(k, n).at = n /\ Back(k, n).past = k.past
         /\ Back(k, n).line = k.line /\ Back(k, n).column = k.column
         /\ Back(k, n).line_size = k.line_size /\ Back(k, n).ok = TRUE
<1> DEFINE r == Back(k, n)
<1>1. r \in Cursors
  BY DEF Back, Cursors
<1>2. /\ r.at = n /\ r.past = k.past /\ r.line = k.line
      /\ r.column = k.column /\ r.line_size = k.line_size /\ r.ok = TRUE
  <2>1. r = [k EXCEPT !.at = n, !.ok = TRUE]
    BY DEF Back
  <2> HIDE DEF r
  <2> QED
    BY <2>1 DEF Cursors
<1> QED
  BY <1>1, <1>2

AtColumn(k, m) ==
  [k EXCEPT !.column = m, !.ok = TRUE]

(* The fields of a cursor moved to a column.                               *)
LEMMA ColumnFields ==
  ASSUME NEW k \in Cursors, NEW m \in Nat
  PROVE  /\ AtColumn(k, m) \in Cursors
         /\ AtColumn(k, m).at = k.at /\ AtColumn(k, m).past = k.past
         /\ AtColumn(k, m).line = k.line /\ AtColumn(k, m).column = m
         /\ AtColumn(k, m).line_size = k.line_size /\ AtColumn(k, m).ok = TRUE
<1> DEFINE r == AtColumn(k, m)
<1>1. r \in Cursors
  BY DEF AtColumn, Cursors
<1>2. /\ r.at = k.at /\ r.past = k.past /\ r.line = k.line
      /\ r.column = m /\ r.line_size = k.line_size /\ r.ok = TRUE
  <2>1. r = [k EXCEPT !.column = m, !.ok = TRUE]
    BY DEF AtColumn
  <2> HIDE DEF r
  <2> QED
    BY <2>1 DEF Cursors
<1> QED
  BY <1>1, <1>2

Tables == Seq(Nat)

AtColumnWith(k, m, s) ==
  [k EXCEPT !.column = m, !.line_size = s, !.ok = TRUE]

(* The fields of a cursor moved to a column, with a new table.             *)
LEMMA ColumnTableFields ==
  ASSUME NEW k \in Cursors, NEW m \in Nat, NEW s \in Tables
  PROVE  /\ AtColumnWith(k, m, s) \in Cursors
         /\ AtColumnWith(k, m, s).at = k.at /\ AtColumnWith(k, m, s).past = k.past
         /\ AtColumnWith(k, m, s).line = k.line /\ AtColumnWith(k, m, s).column = m
         /\ AtColumnWith(k, m, s).line_size = s /\ AtColumnWith(k, m, s).ok = TRUE
<1> DEFINE r == AtColumnWith(k, m, s)
<1>1. r \in Cursors
  BY DEF AtColumnWith, Cursors, Tables
<1>2. /\ r.at = k.at /\ r.past = k.past /\ r.line = k.line
      /\ r.column = m /\ r.line_size = s /\ r.ok = TRUE
  <2>1. r = [k EXCEPT !.column = m, !.line_size = s, !.ok = TRUE]
    BY DEF AtColumnWith
  <2> HIDE DEF r
  <2> QED
    BY <2>1 DEF Cursors
<1> QED
  BY <1>1, <1>2

AtPlace(k, l, m) ==
  [k EXCEPT !.line = l, !.column = m, !.ok = TRUE]

(* The fields of a cursor moved to a line and a column.                    *)
LEMMA PlaceFieldsOf ==
  ASSUME NEW k \in Cursors, NEW l \in Nat, NEW m \in Nat
  PROVE  /\ AtPlace(k, l, m) \in Cursors
         /\ AtPlace(k, l, m).at = k.at /\ AtPlace(k, l, m).past = k.past
         /\ AtPlace(k, l, m).line = l /\ AtPlace(k, l, m).column = m
         /\ AtPlace(k, l, m).line_size = k.line_size /\ AtPlace(k, l, m).ok = TRUE
<1> DEFINE r == AtPlace(k, l, m)
<1>1. r \in Cursors
  BY DEF AtPlace, Cursors
<1>2. /\ r.at = k.at /\ r.past = k.past /\ r.line = l
      /\ r.column = m /\ r.line_size = k.line_size /\ r.ok = TRUE
  <2>1. r = [k EXCEPT !.line = l, !.column = m, !.ok = TRUE]
    BY DEF AtPlace
  <2> HIDE DEF r
  <2> QED
    BY <2>1 DEF Cursors
<1> QED
  BY <1>1, <1>2

AtNewLine(k, l, s) ==
  [k EXCEPT !.line = l, !.column = 1, !.line_size = s, !.ok = TRUE]

(* The fields of a cursor moved to the start of a line, with a new table.  *)
LEMMA NewLineFields ==
  ASSUME NEW k \in Cursors, NEW l \in Nat, NEW s \in Tables
  PROVE  /\ AtNewLine(k, l, s) \in Cursors
         /\ AtNewLine(k, l, s).at = k.at /\ AtNewLine(k, l, s).past = k.past
         /\ AtNewLine(k, l, s).line = l /\ AtNewLine(k, l, s).column = 1
         /\ AtNewLine(k, l, s).line_size = s /\ AtNewLine(k, l, s).ok = TRUE
<1> DEFINE r == AtNewLine(k, l, s)
<1>1. r \in Cursors
  BY DEF AtNewLine, Cursors, Tables
<1>2. /\ r.at = k.at /\ r.past = k.past /\ r.line = l
      /\ r.column = 1 /\ r.line_size = s /\ r.ok = TRUE
  <2>1. r = [k EXCEPT !.line = l, !.column = 1, !.line_size = s, !.ok = TRUE]
    BY DEF AtNewLine
  <2> HIDE DEF r
  <2> QED
    BY <2>1 DEF Cursors
<1> QED
  BY <1>1, <1>2

(* next_col() does ReadsColumn: its assert holds, and the entry becomes    *)
(* the larger of what it was and the new column.                           *)
LEMMA NextColReads ==
  ASSUME NEW k \in Cursors, NEW q \in Cursors,
         q.line = k.line, q.column = k.column, q.line_size = k.line_size, q.ok = TRUE,
         k.line \in 1..Len(k.line_size)
  PROVE  ReadsColumn(k, NextCol(q)) /\ NextCol(q).at = q.at /\ NextCol(q).past = q.past
<1> DEFINE size == IF q.line_size[q.line] < q.column + 1 THEN q.column + 1 ELSE q.line_size[q.line]
           ok   == q.ok /\ q.line <= Len(q.line_size)
           at   == [q EXCEPT !.column = q.column + 1]
           new  == [at.line_size EXCEPT ![q.line] = size]
           r    == AtColumnWith(q, q.column + 1, new)
<1>1. /\ q.line_size \in Seq(Nat) /\ q.line \in 1..Len(q.line_size) /\ q.column \in Nat
      /\ q.at \in Nat /\ q.line \in Nat /\ q.past \in Nat
  BY DEF Cursors
<1>2. size \in Nat
  BY <1>1
<1>3. ok = TRUE
  BY <1>1
<1>4. at.line_size = q.line_size
  BY DEF Cursors
<1>5. /\ new \in Seq(Nat) /\ Len(new) = Len(q.line_size)
      /\ \A l \in 1..Len(q.line_size) : new[l] = IF l = q.line THEN size ELSE q.line_size[l]
  BY <1>1, <1>2, <1>4
<1>6. NextCol(q) = [[at EXCEPT !.line_size = new] EXCEPT !.ok = ok]
  BY Zenon DEF NextCol
<1>7. NextCol(q) = r
  <2>1. r = [[at EXCEPT !.line_size = new] EXCEPT !.ok = TRUE]
    BY Zenon DEF AtColumnWith
  <2> HIDE DEF ok, at, new, r
  <2> QED
    BY <1>3, <1>6, <2>1, Zenon
<1>8. /\ r \in Cursors
      /\ r.at = q.at /\ r.past = q.past /\ r.line = q.line /\ r.column = q.column + 1
      /\ r.line_size = new /\ r.ok = TRUE
  <2>1. q.column + 1 \in Nat
    BY <1>1
  <2>2. new \in Tables
    BY <1>5 DEF Tables
  <2> HIDE DEF new
  <2> QED
    BY ZenonT(30), <2>1, <2>2, ColumnTableFields
<1>9. \A l \in 1..Len(k.line_size) :
        new[l] = IF l = k.line /\ k.line_size[l] < k.column + 1
                 THEN k.column + 1 ELSE k.line_size[l]
  BY <1>5
<1> HIDE DEF r, new
<1> QED
  BY <1>5, <1>7, <1>8, <1>9 DEF ReadsColumn

(* next_line() does ReadsNewline: its assert holds, for the table ends at  *)
(* the current line when the next is new.                                  *)
LEMMA NextLineReads ==
  ASSUME NEW k \in Cursors, NEW q \in Cursors, q.at = k.at + 1, q.past = k.past,
         q.line = k.line, q.line_size = k.line_size, q.ok = TRUE,
         k.line <= Len(k.line_size)
  PROVE  ReadsNewline(k, NextLine(q))
<1> DEFINE size == IF Len(q.line_size) < q.line + 1 THEN Append(q.line_size, 1) ELSE q.line_size
<1>1. q.line_size \in Seq(Nat) /\ Len(q.line_size) \in Nat /\ q.line \in Nat
  BY DEF Cursors
<1>2. size \in Seq(Nat)
  BY <1>1
<1> DEFINE ok == q.ok /\ (Len(q.line_size) < q.line + 1 => Len(q.line_size) + 1 = q.line + 1)
           r  == AtNewLine(q, q.line + 1, size)
<1>3. ok = TRUE
  BY <1>1
<1>4. NextLine(q) = [q EXCEPT !.line = q.line + 1, !.column = 1, !.line_size = size, !.ok = ok]
  BY Zenon DEF NextLine
<1>5. NextLine(q) = r
  <2> HIDE DEF ok, size
  <2> QED
    BY <1>3, <1>4, Zenon DEF AtNewLine
<1> HIDE DEF size
<1>6. /\ r \in Cursors
      /\ r.at = k.at + 1 /\ r.past = k.past /\ r.line = k.line + 1
      /\ r.column = 1 /\ r.line_size = size /\ r.ok = TRUE
  <2>1. q.line + 1 \in Nat
    BY <1>1
  <2>2. size \in Tables
    BY <1>2 DEF Tables
  <2>3. /\ r \in Cursors
        /\ r.at = q.at /\ r.past = q.past /\ r.line = q.line + 1
        /\ r.column = 1 /\ r.line_size = size /\ r.ok = TRUE
    BY ZenonT(30), <2>1, <2>2, NewLineFields
  <2> QED
    BY <2>3
<1> HIDE DEF r
<1> QED
  BY <1>5, <1>6 DEF ReadsNewline, size

(* getch() keeps CursorOK and moves on by a character, or by a read at the *)
(* end.                                                                    *)
LEMMA GetchKeeps ==
  ASSUME TextOK, NEW k, CursorOK(k)
  PROVE  /\ CursorOK(Getch(k))
         /\ Peek(k) = EOF => Getch(k).at = k.at /\ Getch(k).past = k.past + 1
         /\ Peek(k) # EOF => Getch(k).at = k.at + 1 /\ Getch(k).past = 0
<1>1. /\ k.at \in Nat /\ k.past \in Nat /\ k.ok = TRUE /\ k.line_size \in Seq(Nat)
      /\ k.line <= Len(k.line_size) /\ k.line = Line(k.at) /\ Line(k.at) > 0 /\ k.line \in Nat
  BY CursorFields
<1>2. k \in Cursors /\ k.line \in 1..Len(k.line_size)
  BY <1>1 DEF CursorOK
<1>3. CASE Peek(k) = EOF
  <2> DEFINE q == [k EXCEPT !.past = @ + 1]
  <2>1. Getch(k) = NextCol(q)
    BY <1>3 DEF Getch, EOF, Newline
  <2>2. /\ q \in Cursors /\ q.at = k.at /\ q.past = k.past + 1 /\ q.line = k.line
        /\ q.column = k.column /\ q.line_size = k.line_size /\ q.ok = TRUE
    BY <1>1, <1>2 DEF Cursors
  <2> HIDE DEF q
  <2>3. ReadsColumn(k, NextCol(q)) /\ NextCol(q).at = k.at /\ NextCol(q).past = k.past + 1
    BY <1>2, <2>2, NextColReads
  <2>4. k.at = Len(text)
    BY <1>3, PeekCases
  <2>5. CursorOK(NextCol(q))
    BY <2>3, <2>4, ReadEnd
  <2> QED
    BY <1>3, <2>1, <2>3, <2>5
<1>4. CASE Peek(k) # EOF
  <2> DEFINE q == [k EXCEPT !.at = @ + 1]
  <2>1. k.at < Len(text) /\ k.past = 0 /\ Peek(k) = text[k.at + 1]
    BY <1>4, PeekCases
  <2>2. /\ q \in Cursors /\ q.at = k.at + 1 /\ q.past = k.past /\ q.line = k.line
        /\ q.column = k.column /\ q.line_size = k.line_size /\ q.ok = TRUE
    BY <1>1, <1>2 DEF Cursors
  <2>3. Getch(k) = IF Peek(k) = Newline THEN NextLine(q) ELSE NextCol(q)
    BY <1>4 DEF Getch
  <2> HIDE DEF q
  <2>4. CASE Peek(k) = Newline
    <3>1. ReadsNewline(k, NextLine(q))
      BY <1>1, <1>2, <2>2, NextLineReads
    <3>2. CursorOK(NextLine(q))
      BY <2>1, <2>4, <3>1, ReadNewline
    <3>3. NextLine(q).at = k.at + 1 /\ NextLine(q).past = 0
      BY <2>1, <3>1 DEF ReadsNewline
    <3> QED
      BY <1>4, <2>3, <2>4, <3>2, <3>3
  <2>5. CASE Peek(k) # Newline
    <3>1. ReadsColumn(k, NextCol(q)) /\ NextCol(q).at = k.at + 1 /\ NextCol(q).past = k.past
      BY <1>2, <2>2, NextColReads
    <3>2. CursorOK(NextCol(q))
      BY <2>1, <2>5, <3>1, ReadOther
    <3> QED
      BY <1>4, <2>1, <2>3, <2>5, <3>1, <3>2
  <2> QED
    BY <2>4, <2>5
<1> QED
  BY <1>3, <1>4

(* prev_col() takes a column off: its assert holds when the column is      *)
(* positive.                                                               *)
LEMMA PrevColMoves ==
  ASSUME NEW u \in Cursors, u.ok = TRUE, u.column > 0
  PROVE  /\ PrevCol(u) \in Cursors
         /\ PrevCol(u).at = u.at /\ PrevCol(u).past = u.past /\ PrevCol(u).line = u.line
         /\ PrevCol(u).column = u.column - 1 /\ PrevCol(u).line_size = u.line_size
         /\ PrevCol(u).ok = TRUE
<1> DEFINE ok == u.ok /\ u.column > 0
           r  == AtColumn(u, u.column - 1)
<1>1. ok = TRUE
  OBVIOUS
<1>2. PrevCol(u) = [u EXCEPT !.column = u.column - 1, !.ok = ok]
  BY Zenon DEF PrevCol
<1>3. PrevCol(u) = r
  <2> HIDE DEF ok
  <2> QED
    BY <1>1, <1>2, Zenon DEF AtColumn
<1>4. /\ r \in Cursors /\ r.at = u.at /\ r.past = u.past /\ r.line = u.line
      /\ r.column = u.column - 1 /\ r.line_size = u.line_size /\ r.ok = TRUE
  <2>1. u.column - 1 \in Nat
    BY DEF Cursors
  <2> QED
    BY <2>1, ColumnFields
<1> HIDE DEF r
<1> QED
  BY <1>3, <1>4

(* prev_line() goes back to the column in the table: its assert holds      *)
(* after the first line.                                                   *)
LEMMA PrevLineMoves ==
  ASSUME NEW u \in Cursors, u.ok = TRUE, u.line > 1, u.line <= Len(u.line_size)
  PROVE  /\ PrevLine(u) \in Cursors
         /\ PrevLine(u).at = u.at /\ PrevLine(u).past = u.past /\ PrevLine(u).line = u.line - 1
         /\ PrevLine(u).column = u.line_size[u.line - 1] /\ PrevLine(u).line_size = u.line_size
         /\ PrevLine(u).ok = TRUE
<1> DEFINE ok == u.ok /\ u.line > 1 /\ u.line <= Len(u.line_size)
           r  == AtPlace(u, u.line - 1, u.line_size[u.line - 1])
<1>1. ok = TRUE
  OBVIOUS
<1>2. PrevLine(u) = [u EXCEPT !.line = u.line - 1, !.column = u.line_size[u.line - 1], !.ok = ok]
  BY Zenon DEF PrevLine
<1>3. PrevLine(u) = r
  <2> HIDE DEF ok
  <2> QED
    BY <1>1, <1>2, Zenon DEF AtPlace
<1>4. u.line_size[u.line - 1] \in Nat
  BY DEF Cursors
<1>5. /\ r \in Cursors /\ r.at = u.at /\ r.past = u.past /\ r.line = u.line - 1
      /\ r.column = u.line_size[u.line - 1] /\ r.line_size = u.line_size /\ r.ok = TRUE
  <2>1. u.line - 1 \in Nat
    BY DEF Cursors
  <2> QED
    BY ZenonT(30), <1>4, <2>1, PlaceFieldsOf
<1> HIDE DEF r
<1> QED
  BY <1>3, <1>5

(* ch may be put back at k: it is what was read last, and if it is a       *)
(* newline its line is not empty.                                          *)
CanUnread(k, ch) ==
  \/ ch = EOF /\ k.past > 0
  \/ /\ ch # EOF /\ k.past = 0 /\ k.at > 0 /\ text[k.at] = ch
     /\ ch = Newline => Column(k.at - 1) > 1

(* ungetch() keeps CursorOK and moves back by what it puts back.           *)
LEMMA UngetchKeeps ==
  ASSUME TextOK, NEW k, CursorOK(k), NEW ch, CanUnread(k, ch)
  PROVE  /\ CursorOK(Ungetch(k, ch))
         /\ ch = EOF => Ungetch(k, ch).at = k.at /\ Ungetch(k, ch).past = k.past - 1
         /\ ch # EOF => Ungetch(k, ch).at = k.at - 1 /\ Ungetch(k, ch).past = 0
<1>1. /\ k.at \in Nat /\ k.past \in Nat /\ k.ok = TRUE /\ k.line_size \in Seq(Nat)
      /\ Len(k.line_size) \in Nat /\ k.column \in Nat /\ k.column = Column(k.at) + k.past
      /\ k.line <= Len(k.line_size) /\ k.line = Line(k.at) /\ Line(k.at) > 0 /\ k.line \in Nat
      /\ Column(k.at) \in Nat /\ Column(k.at) > 0 /\ k.at <= Len(text) /\ Len(text) \in Nat
      /\ (k.past > 0 => k.at = Len(text))
  BY CursorFields
<1>2. k \in Cursors
  BY DEF CursorOK
<1>3. CASE ch = EOF
  <2> DEFINE r == Ungetch(k, ch)
  <2>1. k.past > 0
    BY <1>3 DEF CanUnread
  <2>2. /\ r \in Cursors /\ r.at = k.at /\ r.line = k.line /\ r.column = k.column - 1
        /\ r.line_size = k.line_size /\ r.past = k.past - 1 /\ r.ok = TRUE
    <3> DEFINE u == [k EXCEPT !.past = k.past - 1]
    <3>1. /\ u \in Cursors /\ u.at = k.at /\ u.line = k.line /\ u.column = k.column
          /\ u.line_size = k.line_size /\ u.past = k.past - 1 /\ u.ok = TRUE
      <4>1. u.at = k.at /\ u.line = k.line /\ u.column = k.column
        BY <1>2 DEF Cursors
      <4>2. u.line_size = k.line_size /\ u.past = k.past - 1 /\ u.ok = TRUE
        BY <1>1, <1>2 DEF Cursors
      <4>3. k.past - 1 \in Nat
        BY <1>1, <2>1
      <4>4. u \in Cursors
        BY <1>2, <4>3 DEF Cursors
      <4> HIDE DEF u
      <4> QED
        BY <4>1, <4>2, <4>4
    <3>2. r = PrevCol(u)
      BY <1>3, Zenon DEF Ungetch, EOF, Newline
    <3> HIDE DEF u, r
    <3>3. u.column > 0
      BY <1>1, <2>1, <3>1
    <3> QED
      BY <3>1, <3>2, <3>3, PrevColMoves
  <2> HIDE DEF r
  <2>4. TableOK(r)
    BY <1>1, <2>2, UnreadOnLine
  <2>5. CursorOK(r)
    BY <1>1, <2>1, <2>2, <2>4 DEF CursorOK
  <2> QED
    BY <1>3, <2>2, <2>5 DEF r
<1>4. CASE ch # EOF /\ ch = Newline
  <2> DEFINE r == Ungetch(k, ch)
  <2>1. k.past = 0 /\ k.at > 0 /\ text[k.at] = ch /\ Column(k.at - 1) > 1
    BY <1>4 DEF CanUnread
  <2>2. Line(k.at) = Line(k.at - 1) + 1 /\ Line(k.at - 1) \in Nat /\ Line(k.at - 1) > 0
    <3>1. k.at \in Newlines(Len(text))
      BY <1>1, <1>4, <2>1 DEF Newlines
    <3> QED
      BY <1>1, <3>1, NewlineBefore
  <2>3. k.line > 1 /\ k.line - 1 \in 1..Len(k.line_size) /\ k.line_size[k.line - 1] \in Nat
    BY SMTT(30), <1>1, <2>2
  <2>4. /\ r \in Cursors /\ r.at = k.at - 1 /\ r.line = k.line - 1
        /\ r.column = k.line_size[k.line - 1]
        /\ r.line_size = k.line_size /\ r.past = 0 /\ r.ok = TRUE
    <3> DEFINE ok == k.ok /\ text[k.at] = ch
               v  == [[k EXCEPT !.at = k.at - 1] EXCEPT !.ok = ok]
               u  == Back(k, k.at - 1)
    <3>1. /\ u \in Cursors /\ u.at = k.at - 1 /\ u.line = k.line /\ u.column = k.column
          /\ u.line_size = k.line_size /\ u.past = 0 /\ u.ok = TRUE
      <4>1. k.at - 1 \in Nat
        BY <1>1, <2>1
      <4> QED
        BY <1>2, <2>1, <4>1, BackFields
    <3>2. r = PrevLine(v)
      BY <1>4, Zenon DEF Ungetch
    <3>3. ok = TRUE
      BY <1>1, <2>1
    <3>4. r = PrevLine(u)
      <4> HIDE DEF ok, r
      <4> QED
        BY <3>2, <3>3, Zenon DEF Back
    <3> HIDE DEF u, r
    <3> QED
      BY <1>1, <2>3, <3>1, <3>4, PrevLineMoves
  <2> HIDE DEF r
  <2>6. CursorOK(r)
    BY <1>4, <2>1, <2>4, UnreadNewline
  <2> QED
    BY <1>4, <2>4, <2>6 DEF r
<1>5. CASE ch # EOF /\ ch # Newline
  <2> DEFINE r == Ungetch(k, ch)
  <2>1. k.past = 0 /\ k.at > 0 /\ text[k.at] = ch
    BY <1>5 DEF CanUnread
  <2>3. /\ r \in Cursors /\ r.at = k.at - 1 /\ r.line = k.line /\ r.column = k.column - 1
        /\ r.line_size = k.line_size /\ r.past = 0 /\ r.ok = TRUE
    <3> DEFINE ok == k.ok /\ text[k.at] = ch
               v  == [[k EXCEPT !.at = k.at - 1] EXCEPT !.ok = ok]
               u  == Back(k, k.at - 1)
    <3>1. /\ u \in Cursors /\ u.at = k.at - 1 /\ u.line = k.line /\ u.column = k.column
          /\ u.line_size = k.line_size /\ u.past = 0 /\ u.ok = TRUE
      <4>1. k.at - 1 \in Nat
        BY <1>1, <2>1
      <4> QED
        BY <1>2, <2>1, <4>1, BackFields
    <3>2. r = PrevCol(v)
      BY <1>5, Zenon DEF Ungetch
    <3>3. ok = TRUE
      BY <1>1, <2>1
    <3>4. r = PrevCol(u)
      <4> HIDE DEF ok, r
      <4> QED
        BY <3>2, <3>3, Zenon DEF Back
    <3> HIDE DEF u, r
    <3>5. u.column > 0
      BY <1>1, <2>1, <3>1
    <3> QED
      BY <3>1, <3>4, <3>5, PrevColMoves
  <2> HIDE DEF r
  <2>4. TableOK(r)
    BY <1>1, <2>3, UnreadOnLine
  <2>5. k.at - 1 \in Nat /\ (k.at - 1) + 1 = k.at
    BY <1>1, <2>1
  <2>6. Line(k.at) = Line(k.at - 1) /\ Column(k.at) = Column(k.at - 1) + 1
    BY <1>5, <2>1, <2>5, NextPlace
  <2>7. Line(k.at - 1) \in Nat /\ Column(k.at - 1) \in Nat
    BY <2>5, PlacesArePositive
  <2>8. r.line = Line(r.at) /\ r.column = Column(r.at) + r.past
    BY <1>1, <2>1, <2>3, <2>6, <2>7
  <2>9. CursorOK(r)
    BY <1>1, <2>3, <2>4, <2>8 DEF CursorOK
  <2> QED
    BY <1>5, <2>3, <2>9 DEF r
<1> QED
  BY <1>3, <1>4, <1>5
(* The phases in which a token has been started.                           *)
Opening == {"word", "number", "string", "operator"}

(* In a string: its quote has not closed it yet, and the characters since  *)
(* the last that is no backslash are an even number, so the next one is    *)
(* not escaped.                                                            *)
StringOK ==
  /\ c = text[start + 1] /\ c \in Quotes
  /\ ~StringClosedAt(start, cursor.at)
  /\ cursor.past = 0 =>
       \E m \in start + 1..cursor.at :
         /\ text[m] # Backslash
         /\ \A i \in m + 1..cursor.at : text[i] = Backslash
         /\ (cursor.at - m) % 2 = 0

(* What the phases of next() know.  While white space is skipped the token *)
(* begins where the cursor is; outside strings at least a character of the *)
(* line has been read and none at the end of the stream.                   *)
PhaseOK ==
  /\ pc = "skip" => start = cursor.at /\ begin = Location(cursor)
  /\ pc \in Opening \ {"string"} =>
       cursor.past = 0 /\ cursor.at > 0 /\ text[cursor.at] # Newline
  /\ pc \in Opening => start < cursor.at /\ begin = Position(start)
  /\ pc = "string" => StringOK

(* A token is reported where it is in the text: what                       *)
(* LocationsAreThoseOfTheText says of each.                                *)
WellPlaced(t) ==
  \/ t.kind = "YYEOF"
  \/ t.begin = Position(t.from) /\ (Unclosed(t) \/ t.end = Position(t.to))

(* All tokens returned are.                                                *)
TokensOK == \A i \in DOMAIN tokens : WellPlaced(tokens[i])

(* The inductive invariant.                                                *)
LexerInv ==
  /\ TypeOK
  /\ CursorOK(cursor)
  /\ PhaseOK
  /\ TokensOK
  /\ CommentsAreSkipped

(* TypeOK says what the lemmas on cursors assume of the text.              *)
LEMMA TextFromType ==
  ASSUME TypeOK
  PROVE  TextOK
BY DEF TypeOK, TextOK

(* The next read: at the end it leaves the place as it is, elsewhere it    *)
(* passes the character it returns.                                        *)
LEMMA FirstRead ==
  ASSUME TextOK, CursorOK(cursor)
  PROVE  /\ CursorOK(Read1)
         /\ First = EOF => /\ cursor.at = Len(text)
                           /\ Read1.at = cursor.at /\ Read1.past = cursor.past + 1
         /\ First # EOF => /\ cursor.at < Len(text) /\ cursor.past = 0
                           /\ First = text[cursor.at + 1] /\ First \in Characters
                           /\ Read1.at = cursor.at + 1 /\ Read1.past = 0
         /\ cursor.at \in Nat /\ cursor.past \in Nat /\ Len(text) \in Nat
<1>1. \/ cursor.at = Len(text) /\ Peek(cursor) = EOF
      \/ /\ cursor.at < Len(text) /\ cursor.past = 0
         /\ Peek(cursor) = text[cursor.at + 1] /\ Peek(cursor) \in Characters /\ Peek(cursor) # EOF
  BY PeekCases
<1>2. /\ CursorOK(Getch(cursor))
      /\ Peek(cursor) = EOF => Getch(cursor).at = cursor.at /\ Getch(cursor).past = cursor.past + 1
      /\ Peek(cursor) # EOF => Getch(cursor).at = cursor.at + 1 /\ Getch(cursor).past = 0
  BY GetchKeeps
<1>3. cursor.at \in Nat /\ cursor.past \in Nat /\ Len(text) \in Nat
  BY CursorFields
<1> QED
  BY <1>1, <1>2, <1>3 DEF First, Read1

(* The read after that one, likewise.                                      *)
LEMMA SecondRead ==
  ASSUME TextOK, CursorOK(cursor), First # EOF
  PROVE  /\ CursorOK(Read2)
         /\ Second = EOF => Read1.at = Len(text) /\ Read2.at = cursor.at + 1 /\ Read2.past = 1
         /\ Second # EOF => /\ cursor.at + 1 < Len(text)
                            /\ Second = text[cursor.at + 2] /\ Second \in Characters
                            /\ Read2.at = cursor.at + 2 /\ Read2.past = 0
<1>1. CursorOK(Read1) /\ Read1.at = cursor.at + 1 /\ Read1.past = 0 /\ cursor.at \in Nat
      /\ Len(text) \in Nat
  BY FirstRead
<1>2. \/ Read1.at = Len(text) /\ Peek(Read1) = EOF
      \/ /\ Read1.at < Len(text) /\ Read1.past = 0
         /\ Peek(Read1) = text[Read1.at + 1] /\ Peek(Read1) \in Characters /\ Peek(Read1) # EOF
  BY <1>1, PeekCases
<1>3. /\ CursorOK(Getch(Read1))
      /\ Peek(Read1) = EOF => Getch(Read1).at = Read1.at /\ Getch(Read1).past = Read1.past + 1
      /\ Peek(Read1) # EOF => Getch(Read1).at = Read1.at + 1 /\ Getch(Read1).past = 0
  BY <1>1, GetchKeeps
<1>4. Second = Peek(Read1) /\ Read2 = Getch(Read1)
  BY DEF Second, Read1, Read2
<1>5. Read1.at + 1 = cursor.at + 2 /\ Read1.past + 1 = 1
  BY <1>1
<1> HIDE DEF Read1
<1> QED
  BY <1>1, <1>2, <1>3, <1>4, <1>5

(* Reading and putting back brings the cursor to where it was, unless an   *)
(* empty line's newline is put back.                                       *)
LEMMA PutBack ==
  ASSUME TextOK, NEW k, CursorOK(k), Peek(k) = Newline => Column(k.at) > 1
  PROVE  /\ CursorOK(Ungetch(Getch(k), Peek(k)))
         /\ Ungetch(Getch(k), Peek(k)).at = k.at
         /\ Ungetch(Getch(k), Peek(k)).past = k.past
<1> DEFINE g == Getch(k)  ch == Peek(k)  u == Ungetch(g, ch)
<1>1. k.at \in Nat /\ k.past \in Nat
  BY CursorFields
<1>2. /\ CursorOK(g)
      /\ ch = EOF => g.at = k.at /\ g.past = k.past + 1
      /\ ch # EOF => g.at = k.at + 1 /\ g.past = 0
  BY GetchKeeps
<1>3. ch # EOF => k.past = 0 /\ ch = text[k.at + 1]
  BY PeekCases
<1>4. ch = Newline => Column(k.at) > 1
  OBVIOUS
<1> HIDE DEF g, ch
<1>5. CanUnread(g, ch)
  <2>1. CASE ch = EOF
    BY <1>1, <1>2, <2>1 DEF CanUnread
  <2>2. CASE ch # EOF
    <3>1. g.at - 1 = k.at /\ g.at > 0 /\ g.past = 0
      BY <1>1, <1>2, <2>2
    <3>2. text[g.at] = ch
      BY <1>2, <1>3, <2>2
    <3> QED
      BY <1>4, <2>2, <3>1, <3>2 DEF CanUnread
  <2> QED
    BY <2>1, <2>2
<1>6. /\ CursorOK(u)
      /\ ch = EOF => u.at = g.at /\ u.past = g.past - 1
      /\ ch # EOF => u.at = g.at - 1 /\ u.past = 0
  BY <1>2, <1>5, UngetchKeeps
<1> HIDE DEF u
<1>7. CursorOK(u) /\ u.at = k.at /\ u.past = k.past
  BY <1>1, <1>2, <1>3, <1>6
<1> QED
  BY <1>7 DEF u, g, ch

(* In every phase but that of strings the character read may be put back:  *)
(* it is preceded by one of its line.                                      *)
LEMMA FirstPutBack ==
  ASSUME TextOK, CursorOK(cursor), cursor.past = 0, cursor.at > 0, text[cursor.at] # Newline
  PROVE  CursorOK(Peeked1) /\ Peeked1.at = cursor.at /\ Peeked1.past = 0
<1>1. cursor.at - 1 \in Nat /\ (cursor.at - 1) + 1 = cursor.at
  BY FirstRead
<1>2. Column(cursor.at) = Column(cursor.at - 1) + 1
  BY <1>1, NextPlace
<1>3. Column(cursor.at) > 1
  BY <1>1, <1>2, PlacesArePositive
<1> QED
  BY <1>3, PutBack DEF Peeked1, Read1, First

(* The character after the next may be put back when the next is of its    *)
(* line.                                                                   *)
LEMMA SecondPutBack ==
  ASSUME TextOK, CursorOK(cursor), First \notin {EOF, Newline}
  PROVE  CursorOK(Peeked2) /\ Peeked2.at = cursor.at + 1 /\ Peeked2.past = 0
<1>1. /\ CursorOK(Read1) /\ Read1.at = cursor.at + 1 /\ Read1.past = 0
      /\ cursor.at \in Nat /\ text[cursor.at + 1] # Newline
  BY FirstRead
<1>2. Column(cursor.at + 1) = Column(cursor.at) + 1
  BY <1>1, NextPlace
<1>3. Column(Read1.at) > 1
  BY <1>1, <1>2, PlacesArePositive
<1>4. /\ CursorOK(Ungetch(Getch(Read1), Peek(Read1)))
      /\ Ungetch(Getch(Read1), Peek(Read1)).at = Read1.at
      /\ Ungetch(Getch(Read1), Peek(Read1)).past = Read1.past
  BY <1>1, <1>3, PutBack
<1>5. Peeked2 = Ungetch(Getch(Read1), Peek(Read1))
  BY DEF Peeked2, Read2, Second, Read1
<1> QED
  BY <1>1, <1>4, <1>5

(* Both dots of "1.." may be put back, in the order the code does it.      *)
LEMMA BothPutBack ==
  ASSUME TextOK, CursorOK(cursor), First = "."
  PROVE  CursorOK(PutBackBoth) /\ PutBackBoth.at = cursor.at /\ PutBackBoth.past = 0
<1>1. First \notin {EOF, Newline}
  BY DEF EOF, Newline
<1>2. CursorOK(Peeked2) /\ Peeked2.at = cursor.at + 1 /\ Peeked2.past = 0
  BY <1>1, SecondPutBack
<1>3. text[cursor.at + 1] = "." /\ cursor.at \in Nat
  BY <1>1, FirstRead
<1>4. Peeked2.at > 0 /\ Peeked2.at - 1 = cursor.at /\ text[Peeked2.at] = "."
  BY <1>2, <1>3
<1>5. CanUnread(Peeked2, ".")
  BY <1>2, <1>4 DEF CanUnread, EOF, Newline
<1>6. /\ CursorOK(Ungetch(Peeked2, "."))
      /\ "." # EOF => Ungetch(Peeked2, ".").at = Peeked2.at - 1 /\ Ungetch(Peeked2, ".").past = 0
  BY <1>2, <1>5, UngetchKeeps
<1>7. PutBackBoth = Ungetch(Peeked2, ".") /\ "." # EOF
  BY DEF PutBackBoth, Peeked2, EOF
<1> QED
  BY <1>4, <1>6, <1>7

(* The location the lexer has is that of the text, if nothing was read at  *)
(* the end.                                                                *)
LEMMA PlaceOf ==
  ASSUME TextOK, NEW k, CursorOK(k)
  PROVE  /\ Location(k) = [line |-> Line(k.at), column |-> Column(k.at) + k.past]
         /\ k.past = 0 => Location(k) = Position(k.at)
         /\ Location(k) \in Locations
<1>1. /\ k.at \in Nat /\ k.past \in Nat /\ k.line = Line(k.at) /\ k.column = Column(k.at) + k.past
  BY CursorFields
<1>2. Line(k.at) \in Nat \ {0} /\ Column(k.at) \in Nat \ {0}
  BY <1>1, PlacesArePositive
<1>3. Location(k) = [line |-> Line(k.at), column |-> Column(k.at) + k.past]
  BY <1>1 DEF Location
<1>4. k.past = 0 => Column(k.at) + k.past = Column(k.at)
  BY <1>2
<1>5. Column(k.at) + k.past \in Nat \ {0}
  BY <1>1, <1>2
<1> QED
  BY <1>1, <1>2, <1>3, <1>4, <1>5, PlaceFields DEF Locations

(* The text does not change, so places, what comes next and cursors keep   *)
(* their meaning from a state to the next.                                 *)
LEMMA SameText ==
  ASSUME text' = text
  PROVE  /\ \A n : Position(n)' = Position(n)
         /\ \A k : Peek(k)' = Peek(k)
         /\ \A k : CursorOK(k) /\ cursor' = k => CursorOK(cursor)'
         /\ \A p, n : StringClosedAt(p, n)' <=> StringClosedAt(p, n)
<1>1. ASSUME NEW n
      PROVE  Newlines(n)' = Newlines(n) /\ OnLine(n)' = OnLine(n)
  BY DEF Newlines, OnLine
<1>2. ASSUME NEW n
      PROVE  Position(n)' = Position(n)
  BY <1>1 DEF Position
<1>3. ASSUME NEW n
      PROVE  Line(n)' = Line(n) /\ Column(n)' = Column(n)
  BY <1>2 DEF Line, Column
<1>4. ASSUME NEW k
      PROVE  Peek(k)' = Peek(k)
  BY DEF Peek
<1>5. ASSUME NEW k, CursorOK(k), cursor' = k
      PROVE  CursorOK(cursor)'
  BY <1>1, <1>3, <1>5 DEF CursorOK, TableOK, Cursors
<1>6. ASSUME NEW p, NEW n
      PROVE  StringClosedAt(p, n)' <=> StringClosedAt(p, n)
  BY DEF StringClosedAt, Escaped
<1> QED
  BY <1>2, <1>4, <1>5, <1>6

(* The tokens next() can return.                                           *)
TokenRecords ==
  [kind : Kinds, begin : Locations, end : Locations, from : 0..Len(text), to : 0..Len(text)]

(* A step that moves to a good cursor and keeps the other types keeps      *)
(* TypeOK.                                                                 *)
LEMMA TypesKept ==
  ASSUME TypeOK, text' = text, NEW k, CursorOK(k), cursor' = k,
         begin' \in Locations, start' \in 0..Len(text), c' \in Characters \cup {EOF},
         isReal' \in BOOLEAN, pc' \in Phases, tokens' \in Seq(TokenRecords)
  PROVE  TypeOK' /\ CursorOK(cursor)'
<1>1. TextOK
  BY TextFromType
<1>2. CursorOK(cursor)'
  BY SameText
<1>3. Location(cursor') \in Locations
  BY <1>1, PlaceOf
<1>4. /\ cursor'.at \in 0..Len(text) /\ cursor'.line_size \in Seq(Nat) /\ cursor'.past \in Nat
      /\ cursor'.ok \in BOOLEAN
  <2>1. /\ k.at \in Nat /\ k.at <= Len(text) /\ Len(text) \in Nat /\ k.line_size \in Seq(Nat)
        /\ k.past \in Nat /\ k.ok = TRUE
    BY <1>1, CursorFields
  <2>2. k.at \in 0..Len(text)
    BY <2>1
  <2> QED
    BY <2>1, <2>2
<1>5. text' \in Seq(Characters)
  BY DEF TypeOK
<1>6. Location(cursor)' = Location(cursor')
  BY DEF Location
<1>7. TypeOK'
  BY <1>3, <1>4, <1>5, <1>6 DEF TypeOK, TokenRecords
<1> QED
  BY <1>2, <1>7

(* A token stays well placed.                                              *)
LEMMA PlacesKept ==
  ASSUME text' = text, NEW t
  PROVE  WellPlaced(t)' <=> WellPlaced(t)
BY SameText DEF WellPlaced, Unclosed

(* A step that returns no token keeps LexerInv if it keeps what the phases *)
(* know.                                                                   *)
LEMMA InvKept ==
  ASSUME LexerInv, text' = text, tokens' = tokens, NEW k, CursorOK(k), cursor' = k,
         begin' \in Locations, start' \in 0..Len(text), c' \in Characters \cup {EOF},
         isReal' \in BOOLEAN, pc' \in Phases, PhaseOK', CommentsAreSkipped'
  PROVE  LexerInv'
<1>1. TypeOK /\ TokensOK /\ tokens \in Seq(TokenRecords)
  BY DEF LexerInv, TypeOK, TokenRecords
<1>2. TypeOK' /\ CursorOK(cursor)'
  BY <1>1, TypesKept
<1>3. \A i \in DOMAIN tokens : WellPlaced(tokens[i])
  BY <1>1 DEF TokensOK
<1>4. TokensOK'
  BY <1>3, PlacesKept DEF TokensOK
<1> QED
  BY <1>2, <1>4 DEF LexerInv

(* Returning a token keeps LexerInv if the token ends where nothing was    *)
(* read at the end of the stream, or is a string that is not closed, or    *)
(* YYEOF.                                                                  *)
LEMMA ReturnKept ==
  ASSUME LexerInv, NEW kind \in Kinds, NEW k, CursorOK(k), Return(kind, k),
         \/ kind = "YYEOF"
         \/ /\ begin = Position(start)
            /\ k.past = 0 \/ (kind = "STRING" /\ ~StringClosedAt(start, k.at))
  PROVE  LexerInv'
<1> DEFINE t == [kind |-> kind, begin |-> begin, end |-> Location(k), from |-> start, to |-> k.at]
<1>1. TypeOK /\ TextOK /\ TokensOK /\ tokens \in Seq(TokenRecords)
  BY TextFromType DEF LexerInv, TypeOK, TokenRecords
<1>2. /\ begin \in Locations /\ start \in 0..Len(text) /\ c \in Characters \cup {EOF}
      /\ isReal \in BOOLEAN
  BY <1>1 DEF TypeOK
<1>3. /\ cursor' = k /\ tokens' = Append(tokens, t)
      /\ pc' = IF kind = "YYEOF" THEN "done" ELSE "idle"
      /\ text' = text /\ begin' = begin /\ start' = start /\ c' = c /\ isReal' = isReal
  BY DEF Return
<1>4. k.at \in 0..Len(text)
  <2>1. k.at \in Nat /\ k.at <= Len(text) /\ Len(text) \in Nat
    BY <1>1, CursorFields
  <2> QED
    BY <2>1
<1>5. t \in TokenRecords
  BY <1>1, <1>2, <1>4, PlaceOf DEF TokenRecords
<1>6. WellPlaced(t)
  <2>1. CASE kind = "YYEOF"
    BY <2>1 DEF WellPlaced
  <2>2. CASE begin = Position(start) /\ k.past = 0
    <3>1. Location(k) = Position(k.at)
      BY <1>1, <2>2, PlaceOf
    <3> QED
      BY <2>2, <3>1 DEF WellPlaced
  <2>3. CASE begin = Position(start) /\ kind = "STRING" /\ ~StringClosedAt(start, k.at)
    BY <2>3 DEF WellPlaced, Unclosed
  <2> QED
    BY <2>1, <2>2, <2>3
<1> HIDE DEF t
<1>7. tokens' \in Seq(TokenRecords)
  BY <1>1, <1>3, <1>5
<1>8. pc' \in Phases /\ pc' \notin Opening \cup {"skip"}
  BY <1>3 DEF Phases, Opening
<1>9. TypeOK' /\ CursorOK(cursor)'
  BY <1>1, <1>2, <1>3, <1>7, <1>8, TypesKept
<1>10. PhaseOK' /\ CommentsAreSkipped'
  BY <1>8 DEF PhaseOK, CommentsAreSkipped, Opening
<1>11. \A i \in DOMAIN tokens' : WellPlaced(tokens'[i])
  <2>1. \A i \in DOMAIN tokens : WellPlaced(tokens[i])
    BY <1>1 DEF TokensOK
  <2>2. ASSUME NEW i \in DOMAIN tokens'
        PROVE  tokens'[i] = t \/ (i \in DOMAIN tokens /\ tokens'[i] = tokens[i])
    BY <1>1, <1>3
  <2> QED
    BY <1>6, <2>1, <2>2
<1>12. TokensOK'
  BY <1>3, <1>11, PlacesKept DEF TokensOK
<1> QED
  BY <1>9, <1>10, <1>12 DEF LexerInv

(* The parts of LexerInv that the actions need.                            *)
LEMMA InvFacts ==
  ASSUME LexerInv
  PROVE  /\ TextOK /\ CursorOK(cursor) /\ PhaseOK
         /\ begin \in Locations /\ start \in 0..Len(text) /\ c \in Characters \cup {EOF}
         /\ isReal \in BOOLEAN /\ pc \in Phases
BY TextFromType DEF LexerInv, TypeOK

(* LexerInv holds of a new Lexer.                                          *)
LEMMA InitLexerInv ==
  Init => LexerInv
<1> SUFFICES ASSUME Init
             PROVE  LexerInv
  OBVIOUS
<1>1. /\ text \in Seq(Characters) /\ begin = [line |-> 1, column |-> 1] /\ start = 0 /\ c = EOF
      /\ isReal = FALSE /\ pc = "idle" /\ tokens = << >>
  BY TextsAssumption DEF Init
<1>2. cursor = [at |-> 0, line |-> 1, column |-> 1, line_size |-> <<0>>, past |-> 0, ok |-> TRUE]
  BY DEF Init
<1>3. /\ cursor.at = 0 /\ cursor.line = 1 /\ cursor.column = 1 /\ cursor.past = 0
      /\ cursor.line_size = <<0>> /\ cursor.ok = TRUE
  BY <1>2
<1>4. <<0>> \in Seq(Nat) /\ Len(<<0>>) = 1 /\ <<0>>[1] = 0
  OBVIOUS
<1>5. cursor \in Cursors
  BY <1>2, <1>4 DEF Cursors
<1>6. Line(0) = 1 /\ Column(0) = 1
  BY PlaceOfStart DEF Line, Column
<1>7. TableOK(cursor)
  <2>1. ASSUME NEW i \in Newlines(Len(text)), Line(i - 1) <= Len(cursor.line_size)
        PROVE  cursor.line_size[Line(i - 1)] <= Column(i - 1)
    <3>1. Line(i - 1) \in Nat /\ Line(i - 1) > 0 /\ Column(i - 1) \in Nat
      BY <1>1, NewlineBefore DEF TextOK
    <3>2. Line(i - 1) = 1
      BY <1>3, <1>4, <2>1, <3>1
    <3> QED
      BY <1>3, <1>4, <3>1, <3>2
  <2>2. Newlines(cursor.at) = {}
    BY <1>3 DEF Newlines
  <2>3. cursor.line <= Len(cursor.line_size) /\ ~(cursor.column > 1)
    BY <1>3, <1>4
  <2> QED
    BY <2>1, <2>2, <2>3 DEF TableOK
<1>8. CursorOK(cursor)
  <2>1. Len(text) \in Nat
    BY <1>1
  <2> QED
    BY <1>3, <1>5, <1>6, <1>7, <2>1 DEF CursorOK
<1>9. PhaseOK /\ TokensOK /\ CommentsAreSkipped
  BY <1>1 DEF PhaseOK, Opening, TokensOK, CommentsAreSkipped
<1>10. TypeOK
  <2>1. /\ cursor.at \in 0..Len(text) /\ cursor.line_size \in Seq(Nat) /\ cursor.past \in Nat
        /\ cursor.ok \in BOOLEAN
    <3>1. Len(text) \in Nat
      BY <1>1
    <3>2. 0 \in 0..Len(text)
      BY <3>1
    <3>3. cursor.line_size \in Seq(Nat) /\ cursor.past \in Nat /\ cursor.ok \in BOOLEAN
      BY <1>5 DEF Cursors
    <3> QED
      BY <1>3, <3>2, <3>3
  <2>2. begin \in Locations /\ Location(cursor) \in Locations
    BY <1>1, <1>3 DEF Location, Locations
  <2>3. start \in 0..Len(text) /\ c \in Characters \cup {EOF} /\ isReal \in BOOLEAN /\ pc \in Phases
    <3>1. Len(text) \in Nat
      BY <1>1
    <3>2. 0 \in 0..Len(text)
      BY <3>1
    <3> QED
      BY <1>1, <3>2 DEF Phases
  <2>4. tokens \in Seq(TokenRecords)
    BY <1>1
  <2> QED
    BY <1>1, <2>1, <2>2, <2>3, <2>4 DEF TypeOK, TokenRecords
<1> QED
  BY <1>8, <1>9, <1>10 DEF LexerInv

(* Calling next() keeps LexerInv.                                          *)
LEMMA CallNextKeeps ==
  ASSUME LexerInv, CallNext
  PROVE  LexerInv'
<1>1. /\ text' = text /\ tokens' = tokens /\ cursor' = cursor /\ c' = c /\ isReal' = isReal
      /\ pc' = "skip" /\ begin' = Location(cursor) /\ start' = cursor.at
  BY DEF CallNext
<1>2. TextOK /\ CursorOK(cursor) /\ c \in Characters \cup {EOF} /\ isReal \in BOOLEAN
  BY InvFacts
<1>3. Location(cursor) \in Locations /\ Location(cursor)' = Location(cursor)
  BY <1>1, <1>2, PlaceOf DEF Location
<1>4. cursor.at \in 0..Len(text)
  <2>1. cursor.at \in Nat /\ cursor.at <= Len(text) /\ Len(text) \in Nat
    BY <1>2, CursorFields
  <2> QED
    BY <2>1
<1>5. PhaseOK' /\ CommentsAreSkipped' /\ pc' \in Phases
  BY <1>1, <1>3 DEF PhaseOK, Opening, CommentsAreSkipped, Phases
<1> QED
  BY <1>1, <1>2, <1>3, <1>4, <1>5, InvKept

(* Passing white space and moving the token's beginning along keeps        *)
(* LexerInv.                                                               *)
LEMMA BlankRead ==
  ASSUME LexerInv, First \in Space, SkipTo(Read1, "skip"),
         begin' = Location(Read1), start' = Read1.at
  PROVE  LexerInv'
<1>1. /\ text' = text /\ tokens' = tokens /\ cursor' = Read1 /\ c' = c /\ isReal' = isReal
      /\ pc' = "skip"
  BY DEF SkipTo
<1>2. TextOK /\ CursorOK(cursor) /\ c \in Characters \cup {EOF} /\ isReal \in BOOLEAN
  BY InvFacts
<1>3. CursorOK(Read1)
  BY <1>2, FirstRead
<1>4. Location(Read1) \in Locations /\ Location(cursor)' = Location(Read1)
  BY <1>1, <1>2, <1>3, PlaceOf DEF Location
<1>5. Read1.at \in 0..Len(text)
  <2>1. Read1.at \in Nat /\ Read1.at <= Len(text) /\ Len(text) \in Nat
    BY <1>2, <1>3, CursorFields
  <2> QED
    BY <2>1
<1>6. PhaseOK' /\ CommentsAreSkipped' /\ pc' \in Phases
  BY <1>1, <1>4 DEF PhaseOK, Opening, CommentsAreSkipped, Phases
<1> QED
  BY <1>1, <1>2, <1>3, <1>4, <1>5, <1>6, InvKept

(* Reading in a comment keeps LexerInv.                                    *)
LEMMA CommentRead ==
  ASSUME LexerInv, NEW k, CursorOK(k), SkipTo(k, "comment"), UNCHANGED <<begin, start>>
  PROVE  LexerInv'
<1>1. /\ text' = text /\ tokens' = tokens /\ cursor' = k /\ c' = c /\ isReal' = isReal
      /\ pc' = "comment" /\ begin' = begin /\ start' = start
  BY DEF SkipTo
<1>2. /\ begin \in Locations /\ start \in 0..Len(text) /\ c \in Characters \cup {EOF}
      /\ isReal \in BOOLEAN
  BY InvFacts
<1>3. PhaseOK' /\ CommentsAreSkipped' /\ pc' \in Phases
  BY <1>1 DEF PhaseOK, Opening, CommentsAreSkipped, Phases
<1> QED
  BY <1>1, <1>2, <1>3, InvKept

(* Skipping white space and comments, and returning the end of the file,   *)
(* keep LexerInv.                                                          *)
LEMMA SkipKeeps ==
  ASSUME LexerInv, SkipSpace \/ OpenComment \/ CommentChar \/ CommentEnd \/ ReturnEOF
  PROVE  LexerInv'
<1>1. TextOK /\ CursorOK(cursor)
  BY InvFacts
<1>2. CASE SkipSpace
  BY <1>2, BlankRead DEF SkipSpace
<1>3. CASE OpenComment
  <2>1. First # EOF
    BY <1>3 DEF OpenComment, OpensComment, EOF
  <2>2. CursorOK(Read2)
    BY <1>1, <2>1, SecondRead
  <2> QED
    BY <1>3, <2>2, CommentRead DEF OpenComment
<1>4. CASE CommentChar
  <2>1. CursorOK(Read1)
    BY <1>1, FirstRead
  <2> QED
    BY <1>4, <2>1, CommentRead DEF CommentChar
<1>5. CASE CommentEnd
  BY <1>5, BlankRead DEF CommentEnd, Space
<1>6. CASE ReturnEOF
  <2>1. CursorOK(Read1) /\ "YYEOF" \in Kinds
    BY <1>1, FirstRead DEF Kinds
  <2> QED
    BY <1>6, <2>1, ReturnKept DEF ReturnEOF
<1> QED
  BY <1>2, <1>3, <1>4, <1>5, <1>6

(* Starting a token keeps LexerInv: what was read for the sake of a        *)
(* comment has been put back.                                              *)
LEMMA StartTokenKeeps ==
  ASSUME LexerInv, StartToken
  PROVE  LexerInv'
<1> DEFINE k == IF First = "/" THEN Peeked2 ELSE Read1
<1>1. /\ text' = text /\ tokens' = tokens /\ cursor' = k /\ c' = First /\ isReal' = FALSE
      /\ begin' = begin /\ start' = start
      /\ pc = "skip" /\ First \notin Space \cup {EOF} /\ ~OpensComment
      /\ pc' = IF First \in Alpha THEN "word"
               ELSE IF First \in Digit THEN "number"
               ELSE IF First \in Quotes THEN "string" ELSE "operator"
  BY DEF StartToken
<1>2. /\ TextOK /\ CursorOK(cursor) /\ start = cursor.at /\ begin = Location(cursor)
      /\ begin \in Locations /\ start \in 0..Len(text)
  BY <1>1, InvFacts DEF PhaseOK
<1>3. First # EOF /\ First # Newline
  BY <1>1 DEF Space
<1>4. /\ cursor.past = 0 /\ First = text[start + 1] /\ First \in Characters
      /\ CursorOK(Read1) /\ Read1.at = start + 1 /\ Read1.past = 0
      /\ start \in Nat /\ start < Len(text)
  BY <1>2, <1>3, FirstRead
<1>5. CursorOK(k) /\ k.at = start + 1 /\ k.past = 0
  <2>1. CursorOK(Peeked2) /\ Peeked2.at = start + 1 /\ Peeked2.past = 0
    BY <1>2, <1>3, SecondPutBack
  <2> QED
    BY <1>4, <2>1
<1> HIDE DEF k
<1>6. pc' \in Opening /\ pc' \in Phases /\ (pc' = "string" => First \in Quotes)
  BY <1>1 DEF Opening, Phases
<1>7. begin = Position(start)
  BY <1>2, <1>4, PlaceOf
<1>8. StringOK' \/ pc' # "string"
  <2> SUFFICES ASSUME First \in Quotes
               PROVE  StringOK'
    BY <1>6
  <2>1. c' = text'[start' + 1] /\ c' \in Quotes
    BY <1>1, <1>4
  <2>2. ~(cursor'.at > start' + 1)
    BY <1>1, <1>4, <1>5
  <2>3. ~StringClosedAt(start, cursor.at)'
    BY <2>2 DEF StringClosedAt
  <2>4. /\ text'[start' + 1] # Backslash
        /\ start' + 1 \in start' + 1..cursor'.at
        /\ \A i \in start' + 1 + 1..cursor'.at : text'[i] = Backslash
        /\ (cursor'.at - (start' + 1)) % 2 = 0
    <3>1. First # Backslash
      BY DEF Quotes, Backslash
    <3> QED
      BY <1>1, <1>4, <1>5, <3>1
  <2> QED
    BY <2>1, <2>3, <2>4 DEF StringOK
<1>9. PhaseOK'
  <2>1. cursor'.past = 0 /\ cursor'.at > 0 /\ text'[cursor'.at] # Newline /\ start' < cursor'.at
    BY <1>1, <1>3, <1>4, <1>5
  <2>2. begin' = Position(start)'
    BY <1>1, <1>7, SameText
  <2>3. pc' # "skip"
    BY <1>6 DEF Opening
  <2> QED
    BY <1>8, <2>1, <2>2, <2>3 DEF PhaseOK
<1>10. CommentsAreSkipped'
  <2> SUFFICES ASSUME First = "/"
               PROVE  Peek(cursor') # "/"
    <3>1. First' = Peek(cursor')
      BY <1>1, SameText DEF First
    <3> QED
      BY <1>1, <3>1 DEF CommentsAreSkipped
  <2>1. Second # "/"
    BY <1>1 DEF OpensComment
  <2>2. Peek(cursor') = Second
    BY <1>1, <1>4, <1>5 DEF Peek, Second, Read1
  <2> QED
    BY <2>1, <2>2
<1> QED
  BY <1>1, <1>2, <1>4, <1>5, <1>6, <1>9, <1>10, InvKept

(* Ending a token that is no string keeps LexerInv.                        *)
LEMMA TokenEnds ==
  ASSUME LexerInv, pc \in Opening \ {"string"}, NEW kind \in Kinds, NEW k, CursorOK(k),
         k.past = 0, Return(kind, k)
  PROVE  LexerInv'
<1>1. begin = Position(start)
  BY InvFacts DEF PhaseOK
<1> QED
  BY <1>1, ReturnKept

(* Reading on in a word or a number keeps LexerInv.                        *)
LEMMA TokenGoesOn ==
  ASSUME LexerInv, pc \in {"word", "number"}, NEW k, CursorOK(k), k.past = 0, k.at > cursor.at,
         text[k.at] # Newline, cursor' = k, isReal' \in BOOLEAN,
         UNCHANGED <<text, begin, start, c, pc, tokens>>
  PROVE  LexerInv'
<1>1. /\ TextOK /\ CursorOK(cursor) /\ begin \in Locations /\ start \in 0..Len(text)
      /\ c \in Characters \cup {EOF} /\ pc \in Phases
  BY InvFacts
<1>2. start < cursor.at /\ begin = Position(start)
  BY InvFacts DEF PhaseOK, Opening
<1>3. start \in Nat /\ cursor.at \in Nat /\ k.at \in Nat
  <2>1. k.at \in Nat /\ cursor.at \in Nat
    BY <1>1, CursorFields
  <2> QED
    BY <1>1, <2>1
<1>4. k.at > 0 /\ start < k.at
  BY <1>2, <1>3
<1>5. begin' = Position(start)'
  BY <1>2, SameText
<1>6. PhaseOK' /\ CommentsAreSkipped'
  BY <1>4, <1>5 DEF PhaseOK, Opening, CommentsAreSkipped
<1> QED
  BY <1>1, <1>6, InvKept

(* Reading an identifier or a keyword keeps LexerInv (lexer.cpp:138-165).  *)
LEMMA WordKeeps ==
  ASSUME LexerInv, WordChar \/ WordEnd
  PROVE  LexerInv'
<1>1. /\ TextOK /\ CursorOK(cursor) /\ pc = "word" /\ isReal \in BOOLEAN
      /\ cursor.past = 0 /\ cursor.at > 0 /\ text[cursor.at] # Newline
  BY InvFacts DEF PhaseOK, Opening, WordChar, WordEnd
<1>2. CASE WordChar
  <2>1. /\ First \in Alnum /\ cursor' = Read1
        /\ UNCHANGED <<text, begin, start, c, isReal, pc, tokens>>
    BY <1>2 DEF WordChar
  <2>2. First # EOF /\ First # Newline
    BY <2>1 DEF Alnum, Alpha, Digit, EOF, Newline
  <2>3. /\ CursorOK(Read1) /\ Read1.past = 0 /\ Read1.at > cursor.at
        /\ text[Read1.at] # Newline
    BY <1>1, <2>2, FirstRead
  <2> QED
    BY <1>1, <2>1, <2>3, TokenGoesOn
<1>3. CASE WordEnd
  <2>1. CursorOK(Peeked1) /\ Peeked1.past = 0
    BY <1>1, FirstPutBack
  <2>2. WordKind(Word(start, Peeked1.at)) \in Kinds
    BY DEF WordKind, Kinds
  <2>3. pc \in Opening \ {"string"}
    BY <1>1 DEF Opening
  <2> QED
    BY <1>3, <2>1, <2>2, <2>3, TokenEnds DEF WordEnd
<1> QED
  BY <1>2, <1>3

(* Reading a number keeps LexerInv (lexer.cpp:168-203).                    *)
LEMMA NumberKeeps ==
  ASSUME LexerInv, NumberDigit \/ NumberDot \/ NumberDotDot \/ NumberEnd
  PROVE  LexerInv'
<1>1. /\ TextOK /\ CursorOK(cursor) /\ pc = "number" /\ isReal \in BOOLEAN
      /\ cursor.past = 0 /\ cursor.at > 0 /\ text[cursor.at] # Newline
  BY InvFacts DEF PhaseOK, Opening, NumberDigit, NumberDot, NumberDotDot, NumberEnd
<1>2. NumberKind \in Kinds /\ pc \in Opening \ {"string"}
  BY <1>1 DEF NumberKind, Kinds, Opening
<1>3. CASE NumberDigit
  <2>1. /\ First \in Digit /\ cursor' = Read1
        /\ UNCHANGED <<text, begin, start, c, isReal, pc, tokens>>
    BY <1>3 DEF NumberDigit
  <2>2. First # EOF /\ First # Newline
    BY <2>1 DEF Digit, EOF, Newline
  <2>3. /\ CursorOK(Read1) /\ Read1.past = 0 /\ Read1.at > cursor.at
        /\ text[Read1.at] # Newline
    BY <1>1, <2>2, FirstRead
  <2> QED
    BY <1>1, <2>1, <2>3, TokenGoesOn
<1>4. CASE NumberDot
  <2>1. /\ First = "." /\ cursor' = Peeked2 /\ isReal' = TRUE
        /\ UNCHANGED <<text, begin, start, c, pc, tokens>>
    BY <1>4 DEF NumberDot
  <2>2. First # EOF /\ First # Newline /\ First \notin {EOF, Newline}
    BY <2>1 DEF EOF, Newline
  <2>3. /\ CursorOK(Peeked2) /\ Peeked2.past = 0 /\ Peeked2.at = cursor.at + 1
    BY <1>1, <2>2, SecondPutBack
  <2>4. text[cursor.at + 1] # Newline /\ cursor.at \in Nat
    BY <1>1, <2>2, FirstRead
  <2>5. Peeked2.at > cursor.at /\ text[Peeked2.at] # Newline
    BY <2>3, <2>4
  <2> QED
    BY <1>1, <2>1, <2>3, <2>5, TokenGoesOn
<1>5. CASE NumberDotDot
  <2>1. CursorOK(PutBackBoth) /\ PutBackBoth.past = 0
    BY <1>1, <1>5, BothPutBack DEF NumberDotDot
  <2> QED
    BY <1>2, <1>5, <2>1, TokenEnds DEF NumberDotDot
<1>6. CASE NumberEnd
  <2>1. CursorOK(Peeked1) /\ Peeked1.past = 0
    BY <1>1, FirstPutBack
  <2> QED
    BY <1>2, <1>6, <2>1, TokenEnds DEF NumberEnd
<1> QED
  BY <1>3, <1>4, <1>5, <1>6

(* Reading an operator keeps LexerInv (lexer.cpp:247-325).                 *)
LEMMA OperatorKeeps ==
  ASSUME LexerInv, Operator1 \/ OperatorBoth \/ OperatorAlone
  PROVE  LexerInv'
<1>1. /\ TextOK /\ CursorOK(cursor) /\ pc = "operator"
      /\ cursor.past = 0 /\ cursor.at > 0 /\ text[cursor.at] # Newline
  BY InvFacts DEF PhaseOK, Opening, Operator1, OperatorBoth, OperatorAlone
<1>2. pc \in Opening \ {"string"}
  BY <1>1 DEF Opening
<1>3. c \in DOMAIN Operator2 => Operator2[c].both \in Kinds /\ Operator2[c].alone \in Kinds
  BY DEF Kinds
<1>4. CASE Operator1
  <2>1. Return(IF c \in Single THEN "SINGLE" ELSE "YYUNDEF", cursor)
    BY <1>4 DEF Operator1
  <2>2. (IF c \in Single THEN "SINGLE" ELSE "YYUNDEF") \in Kinds
    BY DEF Kinds
  <2> QED
    BY <1>1, <1>2, <2>1, <2>2, TokenEnds
<1>5. CASE OperatorBoth
  <2>1. Return(Operator2[c].both, Read1) /\ c \in DOMAIN Operator2 /\ First = Operator2[c].second
    BY <1>5 DEF OperatorBoth
  <2>2. First # EOF
    BY <2>1 DEF Operator2, EOF
  <2>3. CursorOK(Read1) /\ Read1.past = 0
    BY <1>1, <2>2, FirstRead
  <2> QED
    BY <1>2, <1>3, <2>1, <2>3, TokenEnds
<1>6. CASE OperatorAlone
  <2>1. Return(Operator2[c].alone, Peeked1) /\ c \in DOMAIN Operator2
    BY <1>6 DEF OperatorAlone
  <2>2. CursorOK(Peeked1) /\ Peeked1.past = 0
    BY <1>1, FirstPutBack
  <2> QED
    BY <1>2, <1>3, <2>1, <2>2, TokenEnds
<1> QED
  BY <1>4, <1>5, <1>6

(* Reading on in a string keeps LexerInv if the string is still open.      *)
LEMMA StringGoesOn ==
  ASSUME LexerInv, pc = "string", NEW k, CursorOK(k), k.at > cursor.at, cursor' = k,
         ~StringClosedAt(start, k.at),
         k.past = 0 =>
           \E m \in start + 1..k.at :
             /\ text[m] # Backslash
             /\ \A i \in m + 1..k.at : text[i] = Backslash
             /\ (k.at - m) % 2 = 0,
         UNCHANGED <<text, begin, start, c, isReal, pc, tokens>>
  PROVE  LexerInv'
<1>1. /\ TextOK /\ CursorOK(cursor) /\ begin \in Locations /\ start \in 0..Len(text)
      /\ c \in Characters \cup {EOF} /\ pc \in Phases /\ isReal \in BOOLEAN
  BY InvFacts
<1>2. start < cursor.at /\ begin = Position(start) /\ StringOK
  BY InvFacts DEF PhaseOK, Opening
<1>3. start < k.at
  <2>1. k.at \in Nat /\ cursor.at \in Nat
    BY <1>1, CursorFields
  <2> QED
    BY <1>1, <1>2, <2>1
<1>4. begin' = Position(start)'
  BY <1>2, SameText
<1>5. ~StringClosedAt(start, cursor.at)'
  BY DEF StringClosedAt, Escaped
<1>6. StringOK'
  <2>1. c' = text'[start' + 1] /\ c' \in Quotes
    BY <1>2 DEF StringOK
  <2> QED
    BY <1>5, <2>1 DEF StringOK
<1>7. PhaseOK' /\ CommentsAreSkipped'
  BY <1>3, <1>4, <1>6 DEF PhaseOK, Opening, CommentsAreSkipped
<1> QED
  BY <1>1, <1>7, InvKept

(* Reading a string keeps LexerInv (lexer.cpp:206-243): the quote that     *)
(* closes it is the first that no odd number of backslashes precedes.      *)
LEMMA StringKeeps ==
  ASSUME LexerInv, StringChar \/ StringEscape \/ StringEnd
  PROVE  LexerInv'
<1>1. /\ TextOK /\ CursorOK(cursor) /\ pc = "string"
      /\ StringOK /\ start < cursor.at /\ begin = Position(start) /\ start \in 0..Len(text)
  BY InvFacts DEF PhaseOK, Opening, StringChar, StringEscape, StringEnd
<1>2. c = text[start + 1] /\ c \in Quotes /\ ~StringClosedAt(start, cursor.at)
  BY <1>1 DEF StringOK
<1>3. start \in Nat /\ cursor.at \in Nat /\ Len(text) \in Nat
  <2>1. cursor.at \in Nat /\ Len(text) \in Nat
    BY <1>1, CursorFields
  <2> QED
    BY <1>1, <2>1
<1>4. CASE StringChar
  <2>1. /\ First \notin {EOF, c, Backslash} /\ cursor' = Read1
        /\ UNCHANGED <<text, begin, start, c, isReal, pc, tokens>>
    BY <1>4 DEF StringChar
  <2>2. /\ CursorOK(Read1) /\ Read1.at = cursor.at + 1 /\ Read1.past = 0
        /\ First = text[cursor.at + 1]
    BY <1>1, <2>1, FirstRead
  <2> HIDE DEF Read1, First
  <2>3. ~StringClosedAt(start, Read1.at)
    BY <1>2, <2>1, <2>2 DEF StringClosedAt
  <2>4. /\ Read1.at \in start + 1..Read1.at /\ text[Read1.at] # Backslash
        /\ \A i \in Read1.at + 1..Read1.at : text[i] = Backslash
        /\ (Read1.at - Read1.at) % 2 = 0
    BY <1>1, <1>3, <2>1, <2>2
  <2>5. Read1.at > cursor.at
    BY <1>3, <2>2
  <2> QED
    BY <1>1, <2>1, <2>2, <2>3, <2>4, <2>5, StringGoesOn
<1>5. CASE StringEscape
  <2>1. /\ First = Backslash /\ cursor' = Read2
        /\ UNCHANGED <<text, begin, start, c, isReal, pc, tokens>>
    BY <1>5 DEF StringEscape
  <2>2. First # EOF
    BY <2>1 DEF Backslash, EOF
  <2>3. /\ text[cursor.at + 1] = Backslash /\ cursor.past = 0
    BY <1>1, <2>1, <2>2, FirstRead
  <2>4. /\ CursorOK(Read2)
        /\ Second = EOF => Read2.at = cursor.at + 1 /\ Read2.past = 1
        /\ Second # EOF => Read2.at = cursor.at + 2 /\ Read2.past = 0
    BY <1>1, <2>2, SecondRead
  <2> HIDE DEF Read2, Second
  <2>5. Read2.at > cursor.at
    BY <1>3, <2>4
  <2>6. c # Backslash
    BY <1>2 DEF Quotes, Backslash
  <2>7. CASE Second = EOF
    <3>1. ~StringClosedAt(start, Read2.at)
      BY <1>2, <2>3, <2>4, <2>6, <2>7 DEF StringClosedAt
    <3>2. Read2.past # 0
      BY <2>4, <2>7
    <3> QED
      BY <1>1, <2>1, <2>4, <2>5, <3>1, <3>2, StringGoesOn
  <2>8. CASE Second # EOF
    <3>1. PICK m \in start + 1..cursor.at :
            /\ text[m] # Backslash
            /\ \A i \in m + 1..cursor.at : text[i] = Backslash
            /\ (cursor.at - m) % 2 = 0
      BY <1>1, <2>3 DEF StringOK
    <3>2. m \in Nat /\ start + 1 <= m /\ m <= cursor.at
      BY <1>3, <3>1
    <3>3. Read2.at = cursor.at + 2 /\ Read2.at \in Nat
      BY <1>3, <2>4, <2>8
    <3>4. ASSUME NEW i \in m + 1..Read2.at - 1
          PROVE  text[i] = Backslash
      <4>1. i \in m + 1..cursor.at \/ i = cursor.at + 1
        BY <1>3, <3>2, <3>3
      <4>2. CASE i \in m + 1..cursor.at
        BY <3>1, <4>2
      <4>3. CASE i = cursor.at + 1
        BY <2>3, <4>3
      <4> QED
        BY <4>1, <4>2, <4>3
    <3>5. (Read2.at - 1 - m) % 2 = 1 /\ (Read2.at - m) % 2 = 0
      <4>1. (cursor.at - m) % 2 = 0
        BY <3>1
      <4>2. (cursor.at - m + 1) % 2 = 1 /\ (cursor.at - m + 2) % 2 = 0
        BY <1>3, <3>2, <4>1
      <4>3. Read2.at - 1 - m = cursor.at - m + 1 /\ Read2.at - m = cursor.at - m + 2
        BY <1>3, <3>2, <3>3
      <4> QED
        BY <4>2, <4>3
    <3>6. m \in start + 1..Read2.at - 1 /\ m \in start + 1..Read2.at
      BY <1>3, <3>2, <3>3
    <3>7. ~StringClosedAt(start, Read2.at)
      <4>1. Escaped(start, Read2.at)
        BY <3>1, <3>4, <3>5, <3>6 DEF Escaped
      <4> QED
        BY <4>1 DEF StringClosedAt
    <3>8. \E n \in start + 1..Read2.at :
            /\ text[n] # Backslash
            /\ \A i \in n + 1..Read2.at : text[i] = Backslash
            /\ (Read2.at - n) % 2 = 0
      <4>1. CASE text[Read2.at] = Backslash
        <5>1. \A i \in m + 1..Read2.at : text[i] = Backslash
          BY <3>2, <3>3, <3>4, <4>1
        <5> QED
          BY <3>1, <3>5, <3>6, <5>1
      <4>2. CASE text[Read2.at] # Backslash
        <5>1. /\ Read2.at \in start + 1..Read2.at
              /\ \A i \in Read2.at + 1..Read2.at : text[i] = Backslash
              /\ (Read2.at - Read2.at) % 2 = 0
          BY <1>3, <3>2, <3>3
        <5> QED
          BY <4>2, <5>1
      <4> QED
        BY <4>1, <4>2
    <3> QED
      BY <1>1, <2>1, <2>4, <2>5, <3>7, <3>8, StringGoesOn
  <2> QED
    BY <2>7, <2>8
<1>6. CASE StringEnd
  <2>1. Return("STRING", Read1) /\ First \in {EOF, c}
    BY <1>6 DEF StringEnd
  <2>2. CursorOK(Read1) /\ "STRING" \in Kinds
    BY <1>1, FirstRead DEF Kinds
  <2>3. Read1.past = 0 \/ ~StringClosedAt(start, Read1.at)
    BY <1>1, <1>2, FirstRead
  <2> QED
    BY <1>1, <2>1, <2>2, <2>3, ReturnKept
<1> QED
  BY <1>4, <1>5, <1>6

(* Every step keeps LexerInv.                                              *)
LEMMA LexerInvStep ==
  LexerInv /\ [Next]_vars => LexerInv'
<1> SUFFICES ASSUME LexerInv, [Next]_vars
             PROVE  LexerInv'
  OBVIOUS
<1>1. CASE CallNext
  BY <1>1, CallNextKeeps
<1>2. CASE SkipSpace \/ OpenComment \/ CommentChar \/ CommentEnd \/ ReturnEOF
  BY <1>2, SkipKeeps
<1>3. CASE StartToken
  BY <1>3, StartTokenKeeps
<1>4. CASE WordChar \/ WordEnd
  BY <1>4, WordKeeps
<1>5. CASE NumberDigit \/ NumberDot \/ NumberDotDot \/ NumberEnd
  BY <1>5, NumberKeeps
<1>6. CASE StringChar \/ StringEscape \/ StringEnd
  BY <1>6, StringKeeps
<1>7. CASE Operator1 \/ OperatorBoth \/ OperatorAlone
  BY <1>7, OperatorKeeps
<1>8. CASE UNCHANGED vars
  <2>1. /\ text' = text /\ cursor' = cursor /\ begin' = begin /\ start' = start /\ c' = c
        /\ isReal' = isReal /\ pc' = pc /\ tokens' = tokens
    BY <1>8 DEF vars
  <2>2. /\ CursorOK(cursor) /\ PhaseOK /\ begin \in Locations /\ start \in 0..Len(text)
        /\ c \in Characters \cup {EOF} /\ isReal \in BOOLEAN /\ pc \in Phases
        /\ CommentsAreSkipped
    BY InvFacts DEF LexerInv
  <2>3. Position(start)' = Position(start) /\ StringClosedAt(start, cursor.at)' = StringClosedAt(start, cursor.at)
    BY <2>1 DEF Position, Newlines, OnLine, StringClosedAt, Escaped
  <2>4. StringOK' <=> StringOK
    BY <2>1, <2>3 DEF StringOK
  <2>5. PhaseOK'
    BY <2>1, <2>2, <2>3, <2>4 DEF PhaseOK, Location
  <2>6. CommentsAreSkipped'
    BY <2>1, <2>2 DEF CommentsAreSkipped, First, Peek
  <2> QED
    BY <2>1, <2>2, <2>5, <2>6, InvKept
<1>9. CASE Done
  <2>1. UNCHANGED vars
    BY <1>9 DEF Done
  <2> QED
    BY <1>8, <2>1
<1> QED
  BY <1>1, <1>2, <1>3, <1>4, <1>5, <1>6, <1>7, <1>8, <1>9 DEF Next, Step

(* LexerInv has the properties the runs check as consequences.             *)
LEMMA LexerInvGives ==
  LexerInv => TypeOK /\ AssertionsHold /\ LocationsAreThoseOfTheText /\ CommentsAreSkipped
<1> SUFFICES ASSUME LexerInv
             PROVE  TypeOK /\ AssertionsHold /\ LocationsAreThoseOfTheText /\ CommentsAreSkipped
  OBVIOUS
<1>1. TypeOK /\ CommentsAreSkipped /\ TokensOK /\ TextOK /\ CursorOK(cursor)
  BY InvFacts DEF LexerInv
<1>2. AssertionsHold
  <2>1. cursor.ok = TRUE
    BY <1>1, CursorFields
  <2> QED
    BY <2>1 DEF AssertionsHold
<1>3. Location(cursor) = [Position(cursor.at) EXCEPT !.column = @ + cursor.past]
  <2>1. Location(cursor) = [line |-> Line(cursor.at), column |-> Column(cursor.at) + cursor.past]
    BY <1>1, PlaceOf
  <2>2. Position(cursor.at) = [line |-> Line(cursor.at), column |-> Column(cursor.at)]
    BY <1>1, CursorFields, PlaceFields
  <2> QED
    BY <2>1, <2>2
<1>4. LocationsAreThoseOfTheText
  BY <1>1, <1>3 DEF LocationsAreThoseOfTheText, TokensOK, WellPlaced
<1> QED
  BY <1>1, <1>2, <1>4

(* LexerInv holds in every state of every execution, for every text.       *)
THEOREM LexerInvAlways ==
  Spec => []LexerInv
<1> QED
  BY InitLexerInv, LexerInvStep, PTL DEF Spec

(* The lexer keeps its types: lines and columns never fall below 1,        *)
(* however much is put back (lexer.cpp:62-95).                             *)
THEOREM LexerTypes ==
  Spec => []TypeOK
BY LexerInvAlways, LexerInvGives, PTL

(* No assert of next_line, next_col, prev_line and prev_col fails on any   *)
(* text, and what ungetch() puts back is always the character read last    *)
(* (lexer.cpp:50-91).                                                      *)
THEOREM NoAssertFails ==
  Spec => []AssertionsHold
BY LexerInvAlways, LexerInvGives, PTL

(* On every text the lexer's line and column are those of the place it is  *)
(* at, and every token but an open string at the end is reported exactly   *)
(* where it begins and ends.                                               *)
THEOREM LocationsAreExact ==
  Spec => []LocationsAreThoseOfTheText
BY LexerInvAlways, LexerInvGives, PTL

(* The second handling of comments, among the operators, is never reached  *)
(* (lexer.cpp:259-262).                                                    *)
THEOREM OperatorsAreNoComments ==
  Spec => []CommentsAreSkipped
BY LexerInvAlways, LexerInvGives, PTL

-----------------------------------------------------------------------------
(* The tokens.                                                             *)

(* What has been read of the token, or comment, in work, phase by phase:   *)
(* it began as its phase says, and none of the places passed is one where  *)
(* it ends.  A number is a real if a dot has been passed; an operator's    *)
(* first character is none that starts another token.                      *)
ProgressOK ==
  /\ pc = "comment" =>
       /\ start + 2 <= cursor.at /\ text[start + 1] = "/" /\ text[start + 2] = "/"
       /\ \A i \in start + 1..cursor.at : text[i] # Newline
  /\ pc = "word" =>
       /\ text[start + 1] \in Alpha
       /\ \A m \in start + 1..cursor.at - 1 : ~WordEndsAt(start, m)
  /\ pc = "number" =>
       /\ text[start + 1] \in Digit
       /\ \A m \in start + 1..cursor.at - 1 : ~NumberEndsAt(start, m)
       /\ isReal <=> \E i \in start + 1..cursor.at : text[i] = "."
  /\ pc = "string" => \A m \in start + 1..cursor.at - 1 : ~StringEndsAt(start, m)
  /\ pc = "operator" =>
       /\ cursor.at = start + 1 /\ c = text[start + 1]
       /\ c \in Characters \ (Alpha \cup Digit \cup Quotes \cup Space)

(* Where the last token returned ends.                                     *)
AllEnd == EndOf(Len(tokens))

(* Nothing but white space and comments lies between the last token and    *)
(* the one in work, and nothing at all when next() returns; YYEOF is the   *)
(* last token.                                                             *)
GapOK ==
  /\ pc # "done" => \A i \in DOMAIN tokens : tokens[i].kind # "YYEOF"
  /\ pc = "idle" => cursor.at = AllEnd
  /\ pc \in {"skip", "comment"} \cup Opening => AllEnd <= start /\ Blank(AllEnd, start)

(* The inductive invariant: that of LexerProofs, what is read of the token *)
(* in work, the gap before it, and the property itself.                    *)
DivisionInv ==
  /\ LexerInv
  /\ ProgressOK
  /\ GapOK
  /\ TokensAreThoseOfTheText

(* The text does not change, so what it says about tokens and gaps stays   *)
(* the same from a state to the next.                                      *)
LEMMA SameDivision ==
  ASSUME text' = text
  PROVE  /\ \A p, n : WordEndsAt(p, n)' <=> WordEndsAt(p, n)
         /\ \A p, n : NumberEndsAt(p, n)' <=> NumberEndsAt(p, n)
         /\ \A p, n : StringEndsAt(p, n)' <=> StringEndsAt(p, n)
         /\ \A p, q : Blank(p, q)' <=> Blank(p, q)
         /\ \A t : IsToken(t)' <=> IsToken(t)
         /\ \A t : InKnownForm(t)' <=> InKnownForm(t)
<1>1. \A n : CharAt(n)' = CharAt(n)
  BY DEF CharAt
<1>2. \A p, n : WordEndsAt(p, n)' <=> WordEndsAt(p, n)
  BY <1>1 DEF WordEndsAt
<1>3. \A p, n : NumberEndsAt(p, n)' <=> NumberEndsAt(p, n)
  BY <1>1 DEF NumberEndsAt
<1>4. \A p, n : StringEndsAt(p, n)' <=> StringEndsAt(p, n)
  BY SameText DEF StringEndsAt
<1>5. \A p, q : Blank(p, q)' <=> Blank(p, q)
  BY DEF Blank
<1>6. \A p : IsPair(p)' <=> IsPair(p)
  BY <1>1 DEF IsPair
<1>7. \A p, n : OperatorEndsAt(p, n)' <=> OperatorEndsAt(p, n)
  BY <1>6 DEF OperatorEndsAt
<1>8. \A p, q : Word(p, q)' = Word(p, q)
  BY DEF Word
<1>9. ASSUME NEW t
      PROVE  IsToken(t)' <=> IsToken(t)
  <2>1. /\ EndsFirstAt(WordEndsAt, t.from, t.to)' <=> EndsFirstAt(WordEndsAt, t.from, t.to)
        /\ EndsFirstAt(NumberEndsAt, t.from, t.to)' <=> EndsFirstAt(NumberEndsAt, t.from, t.to)
        /\ EndsFirstAt(StringEndsAt, t.from, t.to)' <=> EndsFirstAt(StringEndsAt, t.from, t.to)
        /\ EndsFirstAt(OperatorEndsAt, t.from, t.to)' <=> EndsFirstAt(OperatorEndsAt, t.from, t.to)
    BY <1>2, <1>3, <1>4, <1>7 DEF EndsFirstAt
  <2>2. WordKind(Word(t.from, t.to))' = WordKind(Word(t.from, t.to))
    BY <1>8 DEF WordKind
  <2>3. (\E i \in t.from + 1..t.to : text[i] = ".")' <=> \E i \in t.from + 1..t.to : text[i] = "."
    OBVIOUS
  <2> QED
    BY <1>1, <1>6, <2>1, <2>2, <2>3 DEF IsToken
<1>10. ASSUME NEW t
       PROVE  InKnownForm(t)' <=> InKnownForm(t)
  <2>1. Unclosed(t)' <=> Unclosed(t)
    BY SameText DEF Unclosed
  <2>2. TwoNumbers(t)' <=> TwoNumbers(t)
    BY DEF TwoNumbers
  <2>3. StrayDot(t)' <=> StrayDot(t)
    BY DEF StrayDot
  <2> QED
    BY <2>1, <2>2, <2>3 DEF InKnownForm, AsDocumented
<1> QED
  BY <1>2, <1>3, <1>4, <1>5, <1>9, <1>10

(* A token in its text's kind is a literal of the document, or one of the  *)
(* two forms next() takes besides.                                         *)
LEMMA TokensHaveForm ==
  ASSUME TextOK, NEW t, t.from \in Nat, t.to \in Nat, t.to <= Len(text), IsToken(t)
  PROVE  InKnownForm(t)
<1> SUFFICES ASSUME t.kind \in {"INTEGER", "REAL"}
             PROVE  AsDocumented(t) \/ StrayDot(t)
  BY DEF InKnownForm, AsDocumented
<1>1. /\ CharAt(t.from) \in Digit
      /\ EndsFirstAt(NumberEndsAt, t.from, t.to)
      /\ t.kind = IF \E i \in t.from + 1..t.to : text[i] = "." THEN "REAL" ELSE "INTEGER"
  <2>1. WordKind(Word(t.from, t.to)) \notin {"INTEGER", "REAL"}
    BY DEF WordKind
  <2>2. \A ch \in DOMAIN Operator2 :
          Operator2[ch].both \notin {"INTEGER", "REAL"} /\ Operator2[ch].alone \notin {"INTEGER", "REAL"}
    BY DEF Operator2
  <2> QED
    BY <2>1, <2>2 DEF IsToken
<1>2. t.to \in t.from + 1..Len(text) /\ Len(text) \in Nat
  BY <1>1 DEF EndsFirstAt, TextOK
<1>3. \A i \in t.from + 1..t.to : text[i] \in Digit \cup {"."}
  <2>1. TAKE i \in t.from + 1..t.to
  <2>2. CharAt(i - 1) = text[i]
    BY <1>2 DEF CharAt
  <2>3. CASE i = t.from + 1
    BY <1>1, <2>2, <2>3
  <2>4. CASE i # t.from + 1
    BY <1>1, <2>2, <2>4 DEF EndsFirstAt, NumberEndsAt
  <2> QED
    BY <2>3, <2>4
<1>4. text[t.from + 1] \in Digit
  BY <1>1, <1>2 DEF CharAt
<1>5. "." \notin Digit
  BY DEF Digit
<1>6. CASE t.kind = "INTEGER"
  BY <1>1, <1>3, <1>6 DEF AsDocumented, Unclosed
<1>7. CASE t.kind = "REAL"
  <2>1. PICK dot \in t.from + 1..t.to : text[dot] = "."
    BY <1>1, <1>7
  <2>2. dot # t.from + 1
    BY <1>4, <1>5, <2>1
  <2>3. CASE StrayDot(t)
    BY <2>3
  <2>4. CASE ~StrayDot(t)
    <3>1. dot # t.to
      BY <1>7, <2>1, <2>4 DEF StrayDot
    <3>2. \A i \in (t.from + 1..t.to) \ {dot} : text[i] \in Digit
      BY <1>3, <1>7, <2>1, <2>4 DEF StrayDot
    <3>3. dot \in t.from + 2..t.to - 1
      BY <1>2, <2>2, <3>1
    <3>4. TwoNumbers(t)
      BY <2>1, <3>2, <3>3 DEF TwoNumbers
    <3> QED
      BY <1>7, <3>4 DEF AsDocumented, Unclosed
  <2> QED
    BY <2>3, <2>4
<1> QED
  BY <1>6, <1>7

(* Two blank stretches of the text, one behind the other, are a blank      *)
(* stretch.                                                                *)
LEMMA BlankMore ==
  ASSUME NEW p \in Nat, NEW q \in Nat, NEW r \in Nat, p <= q, q <= r, Blank(p, q), Blank(q, r)
  PROVE  Blank(p, r)
<1> SUFFICES ASSUME NEW i \in p + 1..r, text[i] \notin Space
             PROVE  \E s \in p + 1..i :
                      /\ s < r /\ text[s] = "/" /\ text[s + 1] = "/"
                      /\ \A j \in s..i : text[j] # Newline
  BY DEF Blank
<1>1. CASE i <= q
  <2>1. PICK s \in p + 1..i :
          /\ s < q /\ text[s] = "/" /\ text[s + 1] = "/"
          /\ \A j \in s..i : text[j] # Newline
    BY <1>1 DEF Blank
  <2> QED
    BY <2>1
<1>2. CASE i > q
  <2>1. PICK s \in q + 1..i :
          /\ s < r /\ text[s] = "/" /\ text[s + 1] = "/"
          /\ \A j \in s..i : text[j] # Newline
    BY <1>2 DEF Blank
  <2>2. s \in p + 1..i
    OBVIOUS
  <2> QED
    BY <2>1, <2>2
<1> QED
  BY <1>1, <1>2

(* The types of the tokens, and of the place where the last one ends.      *)
LEMMA EndInText ==
  ASSUME LexerInv
  PROVE  AllEnd \in Nat /\ Len(tokens) \in Nat /\ tokens \in Seq(TokenRecords)
<1>1. tokens \in Seq(TokenRecords) /\ TextOK
  BY TextFromType DEF LexerInv, TypeOK, TokenRecords
<1>2. Len(tokens) \in Nat /\ Len(text) \in Nat
  BY <1>1 DEF TextOK
<1>3. CASE Len(tokens) = 0
  BY <1>1, <1>2, <1>3 DEF AllEnd, EndOf
<1>4. CASE Len(tokens) # 0
  <2>1. tokens[Len(tokens)] \in TokenRecords
    BY <1>1, <1>2, <1>4
  <2>2. tokens[Len(tokens)].to \in 0..Len(text)
    BY <2>1 DEF TokenRecords
  <2> QED
    BY <1>1, <1>2, <1>4, <2>2 DEF AllEnd, EndOf
<1> QED
  BY <1>3, <1>4

(* A step that returns no token keeps DivisionInv if it keeps what is      *)
(* known of the token in work and of the gap.                              *)
LEMMA DivisionKept ==
  ASSUME DivisionInv, LexerInv', text' = text, tokens' = tokens, pc' # "done",
         ProgressOK', GapOK'
  PROVE  DivisionInv'
<1>1. \A i \in DOMAIN tokens :
        /\ EndOf(i - 1) <= tokens[i].from
        /\ Blank(EndOf(i - 1), tokens[i].from)
        /\ IF tokens[i].kind = "YYEOF"
           THEN /\ i = Len(tokens) /\ tokens[i].to = Len(text)
                /\ Blank(tokens[i].from, Len(text))
           ELSE IsToken(tokens[i]) /\ InKnownForm(tokens[i])
  BY DEF DivisionInv, TokensAreThoseOfTheText
<1>2. \A i : EndOf(i)' = EndOf(i)
  BY DEF EndOf
<1>3. TokensAreThoseOfTheText'
  BY <1>1, <1>2, SameDivision DEF TokensAreThoseOfTheText
<1> QED
  BY <1>3 DEF DivisionInv

(* Going into a comment or a token, or on in one, does not touch the gap.  *)
LEMMA GapKept ==
  ASSUME DivisionInv, text' = text, tokens' = tokens,
         pc \in {"skip", "comment"} \cup Opening, pc' \in {"comment"} \cup Opening, start' = start
  PROVE  GapOK'
<1>1. AllEnd' = AllEnd
  BY DEF AllEnd, EndOf
<1>2. /\ \A i \in DOMAIN tokens : tokens[i].kind # "YYEOF"
      /\ AllEnd <= start /\ Blank(AllEnd, start)
  BY DEF DivisionInv, GapOK, Opening
<1>3. (Blank(AllEnd, start))'
  BY <1>1, <1>2, SameDivision
<1>4. pc' # "idle"
  BY DEF Opening
<1> QED
  BY <1>1, <1>2, <1>3, <1>4 DEF GapOK

(* Returning a token keeps DivisionInv if the text says that it is one,    *)
(* returning YYEOF if nothing but white space and comments is left.        *)
LEMMA ReturnDivides ==
  ASSUME DivisionInv, LexerInv', NEW kind \in Kinds, NEW k, CursorOK(k), Return(kind, k),
         pc \in {"skip", "comment"} \cup Opening,
         IF kind = "YYEOF" THEN k.at = Len(text) /\ Blank(start, Len(text))
         ELSE IsToken([kind |-> kind, begin |-> begin, end |-> Location(k),
                       from |-> start, to |-> k.at])
  PROVE  DivisionInv'
<1> DEFINE t == [kind |-> kind, begin |-> begin, end |-> Location(k), from |-> start, to |-> k.at]
           n == Len(tokens)
<1>1. /\ cursor' = k /\ tokens' = Append(tokens, t) /\ text' = text
      /\ pc' = IF kind = "YYEOF" THEN "done" ELSE "idle"
  BY DEF Return
<1>2. n \in Nat /\ tokens \in Seq(TokenRecords) /\ AllEnd \in Nat
  BY EndInText DEF DivisionInv
<1>3. /\ \A i \in DOMAIN tokens : tokens[i].kind # "YYEOF"
      /\ AllEnd <= start /\ Blank(AllEnd, start)
  BY DEF DivisionInv, GapOK, Opening
<1>4. t.kind = kind /\ t.from = start /\ t.to = k.at
  OBVIOUS
<1>5. IF kind = "YYEOF" THEN k.at = Len(text) /\ Blank(start, Len(text)) ELSE IsToken(t)
  OBVIOUS
<1> HIDE DEF t
<1>6. /\ DOMAIN tokens = 1..n /\ DOMAIN tokens' = 1..n + 1 /\ Len(tokens') = n + 1
      /\ \A i \in 1..n : tokens'[i] = tokens[i]
      /\ tokens'[n + 1] = t
  BY <1>1, <1>2
<1>7. \A i \in 0..n : EndOf(i)' = EndOf(i)
  BY <1>2, <1>6 DEF EndOf
<1>8. EndOf(n) = AllEnd
  BY DEF AllEnd
<1> HIDE DEF n
<1>14. kind # "YYEOF" => InKnownForm(t)
  <2>1. start \in 0..Len(text) /\ TextOK
    BY TextFromType DEF DivisionInv, LexerInv, TypeOK
  <2>2. k.at \in Nat /\ k.at <= Len(text) /\ Len(text) \in Nat
    BY <2>1 DEF CursorOK, Cursors, TextOK
  <2> QED
    BY <1>4, <1>5, <2>1, <2>2, TokensHaveForm
<1>9. ASSUME NEW i \in DOMAIN tokens'
      PROVE  (/\ EndOf(i - 1) <= tokens[i].from
              /\ Blank(EndOf(i - 1), tokens[i].from)
              /\ IF tokens[i].kind = "YYEOF"
                 THEN /\ i = Len(tokens) /\ tokens[i].to = Len(text)
                      /\ Blank(tokens[i].from, Len(text))
                 ELSE IsToken(tokens[i]) /\ InKnownForm(tokens[i]))'
  <2>1. CASE i \in 1..n
    <3>1. /\ EndOf(i - 1) <= tokens[i].from /\ Blank(EndOf(i - 1), tokens[i].from)
          /\ IsToken(tokens[i]) /\ InKnownForm(tokens[i]) /\ tokens[i].kind # "YYEOF"
      BY <1>3, <1>6, <2>1 DEF DivisionInv, TokensAreThoseOfTheText
    <3>2. EndOf(i - 1)' = EndOf(i - 1) /\ tokens'[i] = tokens[i]
      <4>1. i - 1 \in 0..n
        BY <1>2, <2>1
      <4> QED
        BY <1>6, <1>7, <2>1, <4>1
    <3> QED
      BY <1>1, <3>1, <3>2, SameDivision
  <2>2. CASE i = n + 1
    <3>1. EndOf(i - 1)' = AllEnd /\ tokens'[i] = t
      <4>1. i - 1 = n /\ n \in 0..n
        BY <1>2, <2>2
      <4> QED
        BY <1>6, <1>7, <1>8, <2>2, <4>1
    <3>2. (Blank(AllEnd, start) /\ (kind = "YYEOF" => Blank(start, Len(text)))
           /\ (kind # "YYEOF" => IsToken(t) /\ InKnownForm(t)))
      BY <1>3, <1>5, <1>14
    <3> QED
      BY <1>1, <1>3, <1>4, <1>5, <1>6, <1>14, <2>2, <3>1, <3>2, SameDivision
  <2> QED
    BY <1>2, <1>6, <2>1, <2>2
<1>10. (pc = "done" => tokens # << >> /\ tokens[Len(tokens)].kind = "YYEOF")'
  BY <1>1, <1>2, <1>4, <1>6
<1>11. TokensAreThoseOfTheText'
  BY <1>9, <1>10 DEF TokensAreThoseOfTheText
<1>12. ProgressOK'
  BY <1>1 DEF ProgressOK
<1>13. GapOK'
  <2>1. pc' # "done" => \A i \in DOMAIN tokens' : tokens'[i].kind # "YYEOF"
    BY <1>1, <1>2, <1>3, <1>4, <1>6
  <2>2. AllEnd' = k.at
    BY <1>2, <1>4, <1>6 DEF AllEnd, EndOf
  <2> QED
    BY <1>1, <2>1, <2>2 DEF GapOK, Opening
<1> QED
  BY <1>11, <1>12, <1>13 DEF DivisionInv

(* The parts of DivisionInv that the actions need; what the next read      *)
(* returns is the character after the cursor.                              *)
LEMMA DivisionFacts ==
  ASSUME DivisionInv
  PROVE  /\ TextOK /\ CursorOK(cursor) /\ PhaseOK /\ ProgressOK /\ GapOK
         /\ start \in Nat /\ cursor.at \in Nat /\ Len(text) \in Nat /\ cursor.at <= Len(text)
         /\ AllEnd \in Nat
         /\ First = CharAt(cursor.at)
<1>1. LexerInv /\ ProgressOK /\ GapOK
  BY DEF DivisionInv
<1>2. TextOK /\ CursorOK(cursor) /\ PhaseOK /\ start \in 0..Len(text)
  BY <1>1, InvFacts
<1>3. cursor.at \in Nat /\ Len(text) \in Nat /\ cursor.at <= Len(text)
  BY <1>2, CursorFields
<1>4. start \in Nat
  BY <1>2, <1>3
<1> QED
  BY <1>1, <1>2, <1>3, <1>4, EndInText DEF First, Peek, CharAt

(* Moving the beginning of the token over white space or a comment keeps   *)
(* DivisionInv.                                                            *)
LEMMA GapGrows ==
  ASSUME DivisionInv, LexerInv', text' = text, tokens' = tokens, pc \in {"skip", "comment"},
         pc' = "skip", start <= start', start' \in Nat, Blank(start, start')
  PROVE  DivisionInv'
<1>1. start \in Nat /\ AllEnd \in Nat
  BY DivisionFacts
<1>2. AllEnd <= start /\ Blank(AllEnd, start) /\ \A i \in DOMAIN tokens : tokens[i].kind # "YYEOF"
  BY DEF DivisionInv, GapOK
<1>3. Blank(AllEnd, start') /\ AllEnd <= start'
  BY <1>1, <1>2, BlankMore
<1>4. AllEnd' = AllEnd
  BY DEF AllEnd, EndOf
<1>5. Blank(AllEnd, start)'
  BY <1>3, <1>4, SameDivision
<1>6. GapOK'
  BY <1>2, <1>3, <1>4, <1>5 DEF GapOK, Opening
<1>7. ProgressOK'
  BY DEF ProgressOK
<1> QED
  BY <1>6, <1>7, DivisionKept

(* Calling next() keeps DivisionInv: the gap is still empty.               *)
LEMMA CallNextDivides ==
  ASSUME DivisionInv, LexerInv', CallNext
  PROVE  DivisionInv'
<1>1. /\ text' = text /\ tokens' = tokens /\ pc = "idle" /\ pc' = "skip" /\ start' = cursor.at
  BY DEF CallNext
<1>2. AllEnd = cursor.at /\ \A i \in DOMAIN tokens : tokens[i].kind # "YYEOF"
  BY <1>1 DEF DivisionInv, GapOK
<1>3. cursor.at \in Nat
  BY DivisionFacts
<1>4. AllEnd' = AllEnd
  BY <1>1 DEF AllEnd, EndOf
<1>5. Blank(AllEnd, start)'
  BY <1>1, <1>2, <1>3, <1>4 DEF Blank
<1>6. GapOK' /\ ProgressOK'
  BY <1>1, <1>2, <1>3, <1>4, <1>5 DEF GapOK, Opening, ProgressOK
<1> QED
  BY <1>1, <1>6, DivisionKept

(* What has been read of a comment is blank, and with the newline that     *)
(* ends it too.                                                            *)
LEMMA CommentIsBlank ==
  ASSUME DivisionInv, pc = "comment"
  PROVE  /\ Blank(start, cursor.at)
         /\ First = Newline => Blank(start, cursor.at + 1)
<1>1. /\ start + 2 <= cursor.at /\ text[start + 1] = "/" /\ text[start + 2] = "/"
      /\ \A i \in start + 1..cursor.at : text[i] # Newline
  BY DEF DivisionInv, ProgressOK
<1>2. start \in Nat /\ cursor.at \in Nat
  BY DivisionFacts
<1>3. start + 1 + 1 = start + 2
  BY <1>2
<1>4. ASSUME NEW i \in start + 1..cursor.at
      PROVE  \E s \in start + 1..i :
               /\ s < cursor.at /\ text[s] = "/" /\ text[s + 1] = "/"
               /\ \A j \in s..i : text[j] # Newline
  <2>1. start + 1 \in start + 1..i /\ start + 1 < cursor.at
    BY <1>1, <1>2
  <2>2. \A j \in start + 1..i : j \in start + 1..cursor.at
    BY <1>2
  <2> QED
    BY <1>1, <1>3, <2>1, <2>2
<1>5. Blank(start, cursor.at)
  BY <1>4 DEF Blank
<1>6. ASSUME First = Newline
      PROVE  Blank(start, cursor.at + 1)
  <2>1. text[cursor.at + 1] \in Space
    BY <1>6, FirstRead, DivisionFacts DEF Space, EOF, Newline
  <2>2. ASSUME NEW i \in start + 1..cursor.at + 1, text[i] \notin Space
        PROVE  \E s \in start + 1..i :
                 /\ s < cursor.at + 1 /\ text[s] = "/" /\ text[s + 1] = "/"
                 /\ \A j \in s..i : text[j] # Newline
    <3>1. i \in start + 1..cursor.at
      BY <1>2, <2>1, <2>2
    <3>2. PICK s \in start + 1..i :
            /\ s < cursor.at /\ text[s] = "/" /\ text[s + 1] = "/"
            /\ \A j \in s..i : text[j] # Newline
      BY <1>4, <3>1
    <3>3. s < cursor.at + 1
      BY <1>2, <3>2
    <3> QED
      BY <3>2, <3>3
  <2> QED
    BY <2>2 DEF Blank
<1> QED
  BY <1>5, <1>6

(* Skipping white space and comments, and returning the end of the file,   *)
(* keep DivisionInv (lexer.cpp:114-135).                                   *)
LEMMA SkipDivides ==
  ASSUME DivisionInv, LexerInv', SkipSpace \/ OpenComment \/ CommentChar \/ CommentEnd \/ ReturnEOF
  PROVE  DivisionInv'
<1>1. /\ TextOK /\ CursorOK(cursor) /\ start \in Nat /\ cursor.at \in Nat /\ Len(text) \in Nat
      /\ pc = "skip" => start = cursor.at
  BY DivisionFacts DEF PhaseOK
<1>2. CASE SkipSpace
  <2>1. /\ text' = text /\ tokens' = tokens /\ pc = "skip" /\ pc' = "skip" /\ First \in Space
        /\ start' = Read1.at
    BY <1>2 DEF SkipSpace, SkipTo
  <2>2. First # EOF
    BY <2>1 DEF Space, EOF, Newline
  <2>3. start' = start + 1 /\ text[start + 1] \in Space
    BY <1>1, <2>1, <2>2, FirstRead
  <2>4. Blank(start, start + 1)
    BY <1>1, <2>3 DEF Blank
  <2> QED
    BY <1>1, <2>1, <2>3, <2>4, GapGrows
<1>3. CASE OpenComment
  <2>1. /\ text' = text /\ tokens' = tokens /\ pc = "skip" /\ pc' = "comment"
        /\ First = "/" /\ Second = "/" /\ cursor' = Read2 /\ start' = start
    BY <1>3 DEF OpenComment, OpensComment, SkipTo
  <2>2. First # EOF /\ Second # EOF
    BY <2>1 DEF EOF
  <2>3. /\ text[start + 1] = "/" /\ text[start + 2] = "/" /\ cursor'.at = start + 2
    BY <1>1, <2>1, <2>2, FirstRead, SecondRead
  <2>4. \A i \in start + 1..start + 2 : text[i] # Newline
    <3>1. \A i \in start + 1..start + 2 : i = start + 1 \/ i = start + 2
      BY <1>1
    <3> QED
      BY <2>3, <3>1 DEF Newline
  <2>5. ProgressOK'
    BY <1>1, <2>1, <2>3, <2>4 DEF ProgressOK
  <2>6. GapOK'
    BY <2>1, GapKept
  <2> QED
    BY <2>1, <2>5, <2>6, DivisionKept
<1>4. CASE CommentChar
  <2>1. /\ text' = text /\ tokens' = tokens /\ pc = "comment" /\ pc' = "comment"
        /\ First \notin {Newline, EOF} /\ cursor' = Read1 /\ start' = start
    BY <1>4 DEF CommentChar, SkipTo
  <2>2. cursor'.at = cursor.at + 1 /\ text[cursor.at + 1] # Newline
    BY <1>1, <2>1, FirstRead
  <2>3. /\ start + 2 <= cursor.at /\ text[start + 1] = "/" /\ text[start + 2] = "/"
        /\ \A i \in start + 1..cursor.at : text[i] # Newline
    BY <2>1 DEF DivisionInv, ProgressOK
  <2>4. \A i \in start + 1..cursor.at + 1 : i \in start + 1..cursor.at \/ i = cursor.at + 1
    BY <1>1
  <2>5. ProgressOK'
    BY <1>1, <2>1, <2>2, <2>3, <2>4 DEF ProgressOK
  <2>6. GapOK'
    BY <2>1, GapKept
  <2> QED
    BY <2>1, <2>5, <2>6, DivisionKept
<1>5. CASE CommentEnd
  <2>1. /\ text' = text /\ tokens' = tokens /\ pc = "comment" /\ pc' = "skip" /\ First = Newline
        /\ start' = Read1.at
    BY <1>5 DEF CommentEnd, SkipTo
  <2>2. start' = cursor.at + 1
    BY <1>1, <2>1, FirstRead DEF EOF, Newline
  <2>3. start + 2 <= cursor.at
    BY <2>1 DEF DivisionInv, ProgressOK
  <2>4. Blank(start, start')
    BY <2>1, <2>2, CommentIsBlank
  <2>5. start <= start' /\ start' \in Nat
    BY <1>1, <2>2, <2>3
  <2> QED
    BY <2>1, <2>4, <2>5, GapGrows
<1>6. CASE ReturnEOF
  <2>1. pc \in {"skip", "comment"} /\ First = EOF /\ Return("YYEOF", Read1)
    BY <1>6 DEF ReturnEOF
  <2>2. CursorOK(Read1) /\ Read1.at = Len(text) /\ cursor.at = Len(text)
    BY <1>1, <2>1, FirstRead
  <2>3. Blank(start, Len(text))
    <3>1. CASE pc = "skip"
      BY <1>1, <2>2, <3>1 DEF Blank
    <3>2. CASE pc = "comment"
      BY <2>2, <3>2, CommentIsBlank
    <3> QED
      BY <2>1, <3>1, <3>2
  <2>4. "YYEOF" \in Kinds
    BY DEF Kinds
  <2> QED
    BY <2>1, <2>2, <2>3, <2>4, ReturnDivides
<1> QED
  BY <1>2, <1>3, <1>4, <1>5, <1>6

(* Starting a token keeps DivisionInv: one character of it is passed,      *)
(* whatever was read and put back to tell a slash from a comment           *)
(* (lexer.cpp:122-138).                                                    *)
LEMMA StartTokenDivides ==
  ASSUME DivisionInv, LexerInv', StartToken
  PROVE  DivisionInv'
<1>1. /\ text' = text /\ tokens' = tokens /\ start' = start /\ c' = First /\ isReal' = FALSE
      /\ cursor' = IF First = "/" THEN Peeked2 ELSE Read1
      /\ pc = "skip" /\ First \notin Space \cup {EOF}
      /\ pc' = IF First \in Alpha THEN "word"
               ELSE IF First \in Digit THEN "number"
               ELSE IF First \in Quotes THEN "string" ELSE "operator"
  BY DEF StartToken
<1>2. /\ TextOK /\ CursorOK(cursor) /\ start \in Nat /\ start = cursor.at
  BY <1>1, DivisionFacts DEF PhaseOK
<1>3. First # EOF /\ First # Newline
  BY <1>1 DEF Space
<1>4. First = text[start + 1] /\ First \in Characters /\ cursor'.at = start + 1
  BY <1>1, <1>2, <1>3, FirstRead, SecondPutBack
<1>5. start + 1..cursor'.at - 1 = {} /\ \A i \in start + 1..cursor'.at : i = start + 1
  BY <1>2, <1>4
<1>6. "." \notin Digit
  BY DEF Digit
<1>7. pc' = "number" => First \in Digit
  BY <1>1
<1>8. pc' = "operator" => First \in Characters \ (Alpha \cup Digit \cup Quotes \cup Space)
  BY <1>1, <1>4
<1>9. pc' = "word" => First \in Alpha
  BY <1>1
<1>10. ProgressOK'
  BY <1>1, <1>4, <1>5, <1>6, <1>7, <1>8, <1>9 DEF ProgressOK
<1>11. pc' \in Opening
  BY <1>1 DEF Opening
<1>12. GapOK'
  BY <1>1, <1>11, GapKept
<1> QED
  BY <1>1, <1>10, <1>11, <1>12, DivisionKept DEF Opening

(* A token in work ends behind its first character, and in the text.       *)
LEMMA EndIsInText ==
  ASSUME DivisionInv, pc \in Opening
  PROVE  start < cursor.at /\ cursor.at \in start + 1..Len(text)
<1>1. start < cursor.at
  BY DivisionFacts DEF PhaseOK
<1> QED
  BY <1>1, DivisionFacts

(* The first disjunct of IsToken, from its parts.                          *)
LEMMA WordIsToken ==
  ASSUME NEW t, CharAt(t.from) \in Alpha, t.to \in t.from + 1..Len(text),
         WordEndsAt(t.from, t.to), \A m \in t.from + 1..t.to - 1 : ~WordEndsAt(t.from, m),
         t.kind = WordKind(Word(t.from, t.to))
  PROVE  IsToken(t)
BY DEF IsToken, EndsFirstAt

(* The second disjunct of IsToken, from its parts.                         *)
LEMMA NumberIsToken ==
  ASSUME NEW t, CharAt(t.from) \in Digit, t.to \in t.from + 1..Len(text),
         NumberEndsAt(t.from, t.to), \A m \in t.from + 1..t.to - 1 : ~NumberEndsAt(t.from, m),
         t.kind = IF \E i \in t.from + 1..t.to : text[i] = "." THEN "REAL" ELSE "INTEGER"
  PROVE  IsToken(t)
BY DEF IsToken, EndsFirstAt

(* The third disjunct of IsToken, from its parts.                          *)
LEMMA StringIsToken ==
  ASSUME NEW t, CharAt(t.from) \in Quotes, t.to \in t.from + 1..Len(text),
         StringEndsAt(t.from, t.to), \A m \in t.from + 1..t.to - 1 : ~StringEndsAt(t.from, m),
         t.kind = "STRING"
  PROVE  IsToken(t)
BY DEF IsToken, EndsFirstAt

(* The disjuncts of IsToken about operators, from their parts: an operator *)
(* ends after two characters if they are a pair, else after one.           *)
LEMMA OperatorIsToken ==
  ASSUME NEW t, t.from \in Nat, t.to \in t.from + 1..Len(text),
         t.to = t.from + (IF IsPair(t.from) THEN 2 ELSE 1),
         \/ /\ CharAt(t.from) \in DOMAIN Operator2
            /\ ~(CharAt(t.from) = "/" /\ CharAt(t.from + 1) = "/")
            /\ t.kind = IF IsPair(t.from) THEN Operator2[CharAt(t.from)].both
                        ELSE Operator2[CharAt(t.from)].alone
         \/ /\ CharAt(t.from) \in Single \cup {Backslash, "@"}
            /\ t.kind = IF CharAt(t.from) \in Single THEN "SINGLE" ELSE "YYUNDEF"
  PROVE  IsToken(t)
<1>1. \A m \in t.from + 1..t.to - 1 : m # t.to
  OBVIOUS
<1>2. OperatorEndsAt(t.from, t.to) /\ \A m \in t.from + 1..t.to - 1 : ~OperatorEndsAt(t.from, m)
  BY <1>1 DEF OperatorEndsAt
<1>3. EndsFirstAt(OperatorEndsAt, t.from, t.to)
  BY <1>2 DEF EndsFirstAt
<1> HIDE DEF Operator2
<1> QED
  BY <1>3 DEF IsToken

(* Reading an identifier or a keyword keeps DivisionInv                    *)
(* (lexer.cpp:138-165): the character put back is the first that is no     *)
(* letter or digit.                                                        *)
LEMMA WordDivides ==
  ASSUME DivisionInv, LexerInv', WordChar \/ WordEnd
  PROVE  DivisionInv'
<1>1. /\ TextOK /\ CursorOK(cursor) /\ pc = "word" /\ pc \in Opening
      /\ cursor.past = 0 /\ cursor.at > 0 /\ text[cursor.at] # Newline
      /\ start \in Nat /\ cursor.at \in Nat
      /\ First = CharAt(cursor.at)
  BY DivisionFacts DEF PhaseOK, Opening, WordChar, WordEnd
<1>2. /\ text[start + 1] \in Alpha
      /\ \A m \in start + 1..cursor.at - 1 : ~WordEndsAt(start, m)
  BY <1>1 DEF DivisionInv, ProgressOK
<1>3. CASE WordChar
  <2>1. /\ First \in Alnum /\ cursor' = Read1
        /\ text' = text /\ start' = start /\ pc' = pc /\ tokens' = tokens
    BY <1>3 DEF WordChar
  <2>2. cursor'.at = cursor.at + 1
    BY <1>1, <2>1, FirstRead DEF Alnum, Alpha, Digit, EOF
  <2>3. ~WordEndsAt(start, cursor.at)
    BY <1>1, <2>1 DEF WordEndsAt
  <2>4. \A m \in start + 1..cursor'.at - 1 : m \in start + 1..cursor.at - 1 \/ m = cursor.at
    BY <1>1, <2>2
  <2>5. \A m \in start + 1..cursor'.at - 1 : ~WordEndsAt(start, m)
    BY <1>2, <2>3, <2>4
  <2>6. ProgressOK'
    BY <1>1, <1>2, <2>1, <2>5, SameDivision DEF ProgressOK
  <2>7. GapOK'
    BY <1>1, <2>1, GapKept
  <2> QED
    BY <1>1, <2>1, <2>6, <2>7, DivisionKept
<1>4. CASE WordEnd
  <2>1. First \notin Alnum /\ Return(WordKind(Word(start, Peeked1.at)), Peeked1)
    BY <1>4 DEF WordEnd
  <2>2. CursorOK(Peeked1) /\ Peeked1.at = cursor.at
    BY <1>1, FirstPutBack
  <2>3. WordEndsAt(start, cursor.at)
    BY <1>1, <2>1 DEF WordEndsAt
  <2>4. cursor.at \in start + 1..Len(text)
    BY <1>1, EndIsInText
  <2>5. CharAt(start) = text[start + 1]
    BY <1>1, EndIsInText, DivisionFacts DEF CharAt
  <2> DEFINE kind == WordKind(Word(start, cursor.at))
             t == [kind |-> kind, begin |-> begin, end |-> Location(Peeked1),
                   from |-> start, to |-> Peeked1.at]
  <2>6. kind \in Kinds /\ kind # "YYEOF"
    BY DEF WordKind, Kinds
  <2>7. t.kind = kind /\ t.from = start /\ t.to = cursor.at
    BY <2>2
  <2> HIDE DEF t
  <2>8. IsToken(t)
    BY <1>2, <2>3, <2>4, <2>5, <2>7, WordIsToken
  <2>9. Return(kind, Peeked1)
    BY <2>1, <2>2
  <2> HIDE DEF kind
  <2> QED
    BY <1>1, <2>2, <2>6, <2>8, <2>9, ReturnDivides DEF t
<1> QED
  BY <1>3, <1>4

(* Reading on in a number keeps DivisionInv if it does not end here and a  *)
(* dot makes it a real.                                                    *)
LEMMA NumberGoesOn ==
  ASSUME DivisionInv, LexerInv', pc = "number", cursor'.at = cursor.at + 1,
         ~NumberEndsAt(start, cursor.at),
         isReal' <=> isReal \/ text[cursor.at + 1] = ".",
         text' = text, start' = start, pc' = pc, tokens' = tokens
  PROVE  DivisionInv'
<1>1. start \in Nat /\ cursor.at \in Nat /\ pc \in Opening /\ start < cursor.at
  BY DivisionFacts, EndIsInText DEF Opening
<1>2. /\ text[start + 1] \in Digit
      /\ \A m \in start + 1..cursor.at - 1 : ~NumberEndsAt(start, m)
      /\ isReal <=> \E i \in start + 1..cursor.at : text[i] = "."
  BY DEF DivisionInv, ProgressOK
<1>3. \A m \in start + 1..cursor'.at - 1 : m \in start + 1..cursor.at - 1 \/ m = cursor.at
  BY <1>1
<1>4. \A m \in start + 1..cursor'.at - 1 : ~NumberEndsAt(start, m)
  BY <1>2, <1>3
<1>5. isReal' <=> \E i \in start + 1..cursor'.at : text[i] = "."
  <2>1. /\ \A i \in start + 1..cursor'.at : i \in start + 1..cursor.at \/ i = cursor.at + 1
        /\ \A i \in start + 1..cursor.at : i \in start + 1..cursor'.at
        /\ cursor.at + 1 \in start + 1..cursor'.at
    BY <1>1
  <2> QED
    BY <1>2, <2>1
<1>6. ProgressOK'
  BY <1>2, <1>4, <1>5, SameDivision DEF ProgressOK
<1>7. GapOK'
  BY <1>1, GapKept
<1> QED
  BY <1>6, <1>7, DivisionKept

(* Returning a number keeps DivisionInv if it ends where the cursor is.    *)
LEMMA NumberReturned ==
  ASSUME DivisionInv, LexerInv', pc = "number", NEW k, CursorOK(k), k.at = cursor.at,
         NumberEndsAt(start, cursor.at), Return(NumberKind, k)
  PROVE  DivisionInv'
<1>1. pc \in Opening /\ start \in Nat /\ cursor.at \in start + 1..Len(text) /\ start < Len(text)
  BY EndIsInText, DivisionFacts DEF Opening
<1>2. /\ text[start + 1] \in Digit
      /\ \A m \in start + 1..cursor.at - 1 : ~NumberEndsAt(start, m)
      /\ isReal <=> \E i \in start + 1..cursor.at : text[i] = "."
  BY DEF DivisionInv, ProgressOK
<1>3. CharAt(start) \in Digit
  BY <1>1, <1>2 DEF CharAt
<1> DEFINE t == [kind |-> NumberKind, begin |-> begin, end |-> Location(k),
                 from |-> start, to |-> k.at]
<1>4. t.kind = NumberKind /\ t.from = start /\ t.to = cursor.at
  OBVIOUS
<1> HIDE DEF t
<1>5. NumberKind = IF \E i \in start + 1..cursor.at : text[i] = "." THEN "REAL" ELSE "INTEGER"
  BY <1>2 DEF NumberKind
<1>6. IsToken(t)
  BY <1>1, <1>2, <1>3, <1>4, <1>5, NumberIsToken
<1>7. NumberKind \in Kinds /\ NumberKind # "YYEOF"
  BY DEF NumberKind, Kinds
<1> QED
  BY <1>1, <1>6, <1>7, ReturnDivides DEF t

(* Reading a number keeps DivisionInv (lexer.cpp:168-203): the one or two  *)
(* characters put back leave the cursor at the first place where a number  *)
(* may end.                                                                *)
LEMMA NumberDivides ==
  ASSUME DivisionInv, LexerInv', NumberDigit \/ NumberDot \/ NumberDotDot \/ NumberEnd
  PROVE  DivisionInv'
<1>1. /\ TextOK /\ CursorOK(cursor) /\ pc = "number"
      /\ cursor.past = 0 /\ cursor.at > 0 /\ text[cursor.at] # Newline
      /\ cursor.at \in Nat /\ Len(text) \in Nat
      /\ First = CharAt(cursor.at)
  BY DivisionFacts DEF PhaseOK, Opening, NumberDigit, NumberDot, NumberDotDot, NumberEnd
<1>2. First = "." => Second = CharAt(cursor.at + 1)
  <2> SUFFICES ASSUME First = "."
               PROVE  Second = CharAt(cursor.at + 1)
    OBVIOUS
  <2>1. Read1.at = cursor.at + 1
    BY <1>1, FirstRead DEF EOF
  <2> QED
    BY <2>1 DEF Second, Peek, CharAt, Read1
<1>3. CASE NumberDigit
  <2>1. /\ First \in Digit /\ cursor' = Read1 /\ isReal' = isReal
        /\ text' = text /\ start' = start /\ pc' = pc /\ tokens' = tokens
    BY <1>3 DEF NumberDigit
  <2>2. cursor'.at = cursor.at + 1 /\ text[cursor.at + 1] # "."
    BY <1>1, <2>1, FirstRead DEF Digit, EOF
  <2>3. ~NumberEndsAt(start, cursor.at)
    BY <1>1, <2>1 DEF NumberEndsAt, Digit
  <2> QED
    BY <1>1, <2>1, <2>2, <2>3, NumberGoesOn
<1>4. CASE NumberDot
  <2>1. /\ First = "." /\ Second # "." /\ cursor' = Peeked2 /\ isReal' = TRUE
        /\ text' = text /\ start' = start /\ pc' = pc /\ tokens' = tokens
    BY <1>4 DEF NumberDot
  <2>2. cursor'.at = cursor.at + 1 /\ text[cursor.at + 1] = "."
    BY <1>1, <2>1, FirstRead, SecondPutBack DEF Newline, EOF
  <2>3. ~NumberEndsAt(start, cursor.at)
    BY <1>1, <1>2, <2>1 DEF NumberEndsAt
  <2> QED
    BY <1>1, <2>1, <2>2, <2>3, NumberGoesOn
<1>5. CASE NumberDotDot
  <2>1. First = "." /\ Second = "." /\ Return(NumberKind, PutBackBoth)
    BY <1>5 DEF NumberDotDot
  <2>2. CursorOK(PutBackBoth) /\ PutBackBoth.at = cursor.at
    BY <1>1, <2>1, BothPutBack
  <2>3. NumberEndsAt(start, cursor.at)
    BY <1>1, <1>2, <2>1 DEF NumberEndsAt
  <2> QED
    BY <1>1, <2>1, <2>2, <2>3, NumberReturned
<1>6. CASE NumberEnd
  <2>1. First \notin Digit \cup {"."} /\ Return(NumberKind, Peeked1)
    BY <1>6 DEF NumberEnd
  <2>2. CursorOK(Peeked1) /\ Peeked1.at = cursor.at
    BY <1>1, FirstPutBack
  <2>3. NumberEndsAt(start, cursor.at)
    BY <1>1, <2>1 DEF NumberEndsAt
  <2> QED
    BY <1>1, <2>1, <2>2, <2>3, NumberReturned
<1> QED
  BY <1>3, <1>4, <1>5, <1>6

(* Reading on in a string keeps DivisionInv if it ends at none of the      *)
(* places passed.                                                          *)
LEMMA StringReadOn ==
  ASSUME DivisionInv, LexerInv', pc = "string", cursor'.at \in Nat,
         \A m \in cursor.at..cursor'.at - 1 : ~StringEndsAt(start, m),
         text' = text, start' = start, pc' = pc, tokens' = tokens
  PROVE  DivisionInv'
<1>1. start \in Nat /\ cursor.at \in Nat /\ pc \in Opening
  BY DivisionFacts DEF Opening
<1>2. \A m \in start + 1..cursor.at - 1 : ~StringEndsAt(start, m)
  BY DEF DivisionInv, ProgressOK
<1>3. \A m \in start + 1..cursor'.at - 1 :
        m \in start + 1..cursor.at - 1 \/ m \in cursor.at..cursor'.at - 1
  BY <1>1
<1>4. \A m \in start + 1..cursor'.at - 1 : ~StringEndsAt(start, m)
  BY <1>2, <1>3
<1>5. ProgressOK'
  BY <1>4, SameDivision DEF ProgressOK
<1>6. GapOK'
  BY <1>1, GapKept
<1> QED
  BY <1>1, <1>5, <1>6, DivisionKept

(* A quote after an even number of backslashes is not escaped: the last    *)
(* character that is no backslash is the only one the definition of        *)
(* Escaped can mean.                                                       *)
LEMMA EvenIsNotEscaped ==
  ASSUME NEW p \in Nat, NEW n \in Nat, NEW m \in p + 1..n,
         text[m] # Backslash, \A i \in m + 1..n : text[i] = Backslash, (n - m) % 2 = 0
  PROVE  ~Escaped(p, n + 1)
<1> SUFFICES ASSUME NEW j \in p + 1..n, text[j] # Backslash,
                    \A i \in j + 1..n : text[i] = Backslash, (n - j) % 2 = 1
             PROVE  FALSE
  <2>1. (n + 1) - 1 = n
    OBVIOUS
  <2> QED
    BY <2>1 DEF Escaped
<1>1. ~(j < m) /\ ~(m < j)
  <2>1. j < m => m \in j + 1..n
    OBVIOUS
  <2>2. m < j => j \in m + 1..n
    OBVIOUS
  <2> QED
    BY <2>1, <2>2
<1>2. j = m
  BY <1>1
<1> QED
  BY <1>2

(* Returning a string keeps DivisionInv if it ends where the cursor goes   *)
(* and not before.                                                         *)
LEMMA StringReturned ==
  ASSUME DivisionInv, LexerInv', pc = "string", NEW k, CursorOK(k), Return("STRING", k),
         cursor.at <= k.at, k.at <= Len(text), StringEndsAt(start, k.at),
         \A m \in cursor.at..k.at - 1 : ~StringEndsAt(start, m)
  PROVE  DivisionInv'
<1>1. /\ pc \in Opening /\ start \in Nat /\ cursor.at \in Nat /\ k.at \in Nat /\ Len(text) \in Nat
      /\ start < cursor.at
  BY EndIsInText, DivisionFacts, CursorFields DEF Opening
<1>2. CharAt(start) \in Quotes
  BY <1>1, DivisionFacts DEF CharAt, PhaseOK, StringOK
<1>3. \A m \in start + 1..cursor.at - 1 : ~StringEndsAt(start, m)
  BY DEF DivisionInv, ProgressOK
<1>4. \A m \in start + 1..k.at - 1 : m \in start + 1..cursor.at - 1 \/ m \in cursor.at..k.at - 1
  BY <1>1
<1>5. k.at \in start + 1..Len(text)
  BY <1>1
<1> DEFINE t == [kind |-> "STRING", begin |-> begin, end |-> Location(k),
                 from |-> start, to |-> k.at]
<1>6. t.kind = "STRING" /\ t.from = start /\ t.to = k.at
  OBVIOUS
<1> HIDE DEF t
<1>7. IsToken(t)
  BY <1>2, <1>3, <1>4, <1>5, <1>6, StringIsToken
<1>8. "STRING" \in Kinds
  BY DEF Kinds
<1> QED
  BY <1>1, <1>7, <1>8, ReturnDivides DEF t

(* Reading a string keeps DivisionInv (lexer.cpp:206-243): skipping the    *)
(* character after a backslash finds the first quote that no odd number of *)
(* backslashes precedes.                                                   *)
LEMMA StringDivides ==
  ASSUME DivisionInv, LexerInv', StringChar \/ StringEscape \/ StringEnd
  PROVE  DivisionInv'
<1>1. /\ TextOK /\ CursorOK(cursor) /\ pc = "string" /\ StringOK
      /\ start \in Nat /\ cursor.at \in Nat /\ Len(text) \in Nat /\ start < cursor.at
  BY DivisionFacts, EndIsInText DEF PhaseOK, Opening, StringChar, StringEscape, StringEnd
<1>2. c = text[start + 1] /\ c \in Quotes /\ ~StringClosedAt(start, cursor.at)
  BY <1>1 DEF StringOK
<1>3. ASSUME First # EOF
      PROVE  cursor.at < Len(text) /\ ~StringEndsAt(start, cursor.at)
  BY <1>1, <1>2, <1>3, FirstRead DEF StringEndsAt
<1>4. CASE StringChar
  <2>1. /\ First # EOF /\ cursor' = Read1
        /\ text' = text /\ start' = start /\ pc' = pc /\ tokens' = tokens
    BY <1>4 DEF StringChar
  <2>2. cursor'.at = cursor.at + 1
    BY <1>1, <2>1, FirstRead
  <2>3. \A m \in cursor.at..cursor'.at - 1 : m = cursor.at
    BY <1>1, <2>2
  <2> QED
    BY <1>1, <1>3, <2>1, <2>2, <2>3, StringReadOn
<1>5. CASE StringEscape
  <2>1. /\ First = Backslash /\ First # EOF /\ cursor' = Read2
        /\ text' = text /\ start' = start /\ pc' = pc /\ tokens' = tokens
    BY <1>5 DEF StringEscape, Backslash, EOF
  <2>2. text[cursor.at + 1] = Backslash /\ c # Backslash
    BY <1>1, <1>2, <2>1, FirstRead DEF Quotes, Backslash
  <2>3. CASE Second = EOF
    <3>1. cursor'.at = cursor.at + 1
      BY <1>1, <2>1, <2>3, SecondRead
    <3>2. \A m \in cursor.at..cursor'.at - 1 : m = cursor.at
      BY <1>1, <3>1
    <3> QED
      BY <1>1, <1>3, <2>1, <3>1, <3>2, StringReadOn
  <2>4. CASE Second # EOF
    <3>1. cursor'.at = cursor.at + 2 /\ cursor.at + 1 < Len(text)
      BY <1>1, <2>1, <2>4, SecondRead
    <3>2. ~StringEndsAt(start, cursor.at + 1)
      BY <1>1, <1>2, <2>2, <3>1 DEF StringEndsAt, StringClosedAt
    <3>3. \A m \in cursor.at..cursor'.at - 1 : m = cursor.at \/ m = cursor.at + 1
      BY <1>1, <3>1
    <3>4. \A m \in cursor.at..cursor'.at - 1 : ~StringEndsAt(start, m)
      BY <1>3, <2>1, <3>2, <3>3
    <3> QED
      BY <1>1, <2>1, <3>1, <3>4, StringReadOn
  <2> QED
    BY <2>3, <2>4
<1>6. CASE StringEnd
  <2>1. First \in {EOF, c} /\ Return("STRING", Read1) /\ CursorOK(Read1)
    BY <1>1, <1>6, FirstRead DEF StringEnd
  <2>2. CASE First = EOF
    <3>1. Read1.at = cursor.at /\ cursor.at = Len(text)
      BY <1>1, <2>2, FirstRead
    <3>2. StringEndsAt(start, Read1.at) /\ cursor.at..Read1.at - 1 = {}
      BY <1>1, <3>1 DEF StringEndsAt
    <3> QED
      BY <1>1, <2>1, <3>1, <3>2, StringReturned
  <2>3. CASE First # EOF
    <3>1. /\ Read1.at = cursor.at + 1 /\ cursor.at < Len(text) /\ text[cursor.at + 1] = c
          /\ cursor.past = 0
      BY <1>1, <2>1, <2>3, FirstRead
    <3>2. PICK m \in start + 1..cursor.at :
            /\ text[m] # Backslash
            /\ \A i \in m + 1..cursor.at : text[i] = Backslash
            /\ (cursor.at - m) % 2 = 0
      BY <1>1, <3>1 DEF StringOK
    <3>3. ~Escaped(start, cursor.at + 1)
      BY <1>1, <3>2, EvenIsNotEscaped
    <3>4. StringClosedAt(start, cursor.at + 1)
      BY <1>1, <1>2, <3>1, <3>3 DEF StringClosedAt
    <3>5. StringEndsAt(start, Read1.at)
      BY <3>1, <3>4 DEF StringEndsAt
    <3>6. \A j \in cursor.at..Read1.at - 1 : j = cursor.at
      BY <1>1, <3>1
    <3>7. cursor.at <= Read1.at /\ Read1.at <= Len(text)
      BY <1>1, <3>1
    <3> QED
      BY <1>1, <1>3, <2>1, <2>3, <3>5, <3>6, <3>7, StringReturned
  <2> QED
    BY <2>2, <2>3
<1> QED
  BY <1>4, <1>5, <1>6

(* Returning an operator keeps DivisionInv if it has the length and the    *)
(* kind the text gives it.                                                 *)
LEMMA OperatorReturned ==
  ASSUME DivisionInv, LexerInv', pc = "operator", NEW kind \in Kinds, kind # "YYEOF",
         NEW k, CursorOK(k), Return(kind, k),
         k.at = start + (IF IsPair(start) THEN 2 ELSE 1),
         \/ /\ CharAt(start) \in DOMAIN Operator2
            /\ ~(CharAt(start) = "/" /\ CharAt(start + 1) = "/")
            /\ kind = IF IsPair(start) THEN Operator2[CharAt(start)].both
                      ELSE Operator2[CharAt(start)].alone
         \/ /\ CharAt(start) \in Single \cup {Backslash, "@"}
            /\ kind = IF CharAt(start) \in Single THEN "SINGLE" ELSE "YYUNDEF"
  PROVE  DivisionInv'
<1> HIDE DEF Operator2
<1>1. pc \in Opening /\ TextOK /\ start \in Nat /\ Len(text) \in Nat
  BY DivisionFacts DEF Opening
<1>2. k.at \in start + 1..Len(text)
  <2>1. k.at <= Len(text)
    BY <1>1, CursorFields
  <2>2. k.at = start + 2 \/ k.at = start + 1
    OBVIOUS
  <2> QED
    BY <1>1, <2>1, <2>2
<1> DEFINE t == [kind |-> kind, begin |-> begin, end |-> Location(k), from |-> start, to |-> k.at]
<1>3. t.kind = kind /\ t.from = start /\ t.to = k.at
  OBVIOUS
<1> HIDE DEF t
<1>4. IsToken(t)
  BY <1>1, <1>2, <1>3, OperatorIsToken
<1> QED
  BY <1>1, <1>4, ReturnDivides DEF t

(* Reading an operator keeps DivisionInv (lexer.cpp:247-325).              *)
LEMMA OperatorDivides ==
  ASSUME DivisionInv, LexerInv', Operator1 \/ OperatorBoth \/ OperatorAlone
  PROVE  DivisionInv'
<1>1. /\ TextOK /\ CursorOK(cursor) /\ pc = "operator" /\ cursor.past = 0
      /\ cursor.at > 0 /\ text[cursor.at] # Newline
      /\ start \in Nat /\ Len(text) \in Nat /\ First = CharAt(cursor.at)
      /\ cursor.at <= Len(text)
  BY DivisionFacts DEF PhaseOK, Opening, Operator1, OperatorBoth, OperatorAlone
<1>2. /\ cursor.at = start + 1 /\ c = text[start + 1]
      /\ c \in Characters \ (Alpha \cup Digit \cup Quotes \cup Space)
  BY <1>1 DEF DivisionInv, ProgressOK
<1>3. CharAt(start) = c /\ CharAt(start + 1) = First
  BY <1>1, <1>2 DEF CharAt
<1>4. c \in DOMAIN Operator2 =>
        /\ Operator2[c].both \in Kinds \ {"YYEOF"} /\ Operator2[c].alone \in Kinds \ {"YYEOF"}
        /\ Operator2[c].second # EOF
        /\ c = "/" => Operator2[c].second # "/"
  BY DEF Operator2, Kinds, EOF
<1>5. CASE Operator1
  <2>1. c \notin DOMAIN Operator2 /\ Return(IF c \in Single THEN "SINGLE" ELSE "YYUNDEF", cursor)
    BY <1>5 DEF Operator1
  <2>2. c \in Single \cup {Backslash, "@"}
    BY <1>2, <2>1 DEF Characters, Alnum, Operator2
  <2>3. ~IsPair(start)
    BY <1>3, <2>1 DEF IsPair
  <2> DEFINE kind == IF c \in Single THEN "SINGLE" ELSE "YYUNDEF"
  <2>4. kind \in Kinds /\ kind # "YYEOF"
    BY DEF Kinds
  <2>5. kind = IF CharAt(start) \in Single THEN "SINGLE" ELSE "YYUNDEF"
    BY <1>3
  <2>6. Return(kind, cursor)
    BY <2>1
  <2> HIDE DEF kind
  <2> QED
    BY <1>1, <1>2, <1>3, <2>2, <2>3, <2>4, <2>5, <2>6, OperatorReturned
<1>6. CASE OperatorBoth
  <2>1. c \in DOMAIN Operator2 /\ First = Operator2[c].second /\ Return(Operator2[c].both, Read1)
    BY <1>6 DEF OperatorBoth
  <2>2. IsPair(start)
    BY <1>3, <2>1 DEF IsPair
  <2>3. CursorOK(Read1) /\ Read1.at = start + 2
    BY <1>1, <1>2, <1>4, <2>1, FirstRead
  <2> HIDE DEF Operator2
  <2> QED
    BY <1>1, <1>3, <1>4, <2>1, <2>2, <2>3, OperatorReturned
<1>7. CASE OperatorAlone
  <2>1. /\ c \in DOMAIN Operator2 /\ First # Operator2[c].second
        /\ ~(c = "/" /\ First = "/") /\ Return(Operator2[c].alone, Peeked1)
    BY <1>7 DEF OperatorAlone
  <2>2. ~IsPair(start)
    BY <1>3, <2>1 DEF IsPair
  <2>3. CursorOK(Peeked1) /\ Peeked1.at = start + 1
    BY <1>1, <1>2, FirstPutBack
  <2> QED
    BY <1>1, <1>3, <1>4, <2>1, <2>2, <2>3, OperatorReturned
<1> QED
  BY <1>5, <1>6, <1>7

(* DivisionInv holds of a new Lexer.                                       *)
LEMMA InitDivides ==
  Init => DivisionInv
<1> SUFFICES ASSUME Init
             PROVE  DivisionInv
  OBVIOUS
<1>1. cursor.at = 0 /\ start = 0 /\ pc = "idle" /\ tokens = << >>
  BY DEF Init
<1>2. ProgressOK /\ GapOK /\ TokensAreThoseOfTheText
  BY <1>1 DEF ProgressOK, GapOK, Opening, AllEnd, EndOf, TokensAreThoseOfTheText
<1> QED
  BY <1>2, InitLexerInv DEF DivisionInv

(* Every step keeps DivisionInv.                                           *)
LEMMA DivisionStep ==
  DivisionInv /\ [Next]_vars => DivisionInv'
<1> SUFFICES ASSUME DivisionInv, [Next]_vars
             PROVE  DivisionInv'
  OBVIOUS
<1>1. LexerInv'
  BY LexerInvStep DEF DivisionInv
<1>2. CASE CallNext
  BY <1>1, <1>2, CallNextDivides
<1>3. CASE SkipSpace \/ OpenComment \/ CommentChar \/ CommentEnd \/ ReturnEOF
  BY <1>1, <1>3, SkipDivides
<1>4. CASE StartToken
  BY <1>1, <1>4, StartTokenDivides
<1>5. CASE WordChar \/ WordEnd
  BY <1>1, <1>5, WordDivides
<1>6. CASE NumberDigit \/ NumberDot \/ NumberDotDot \/ NumberEnd
  BY <1>1, <1>6, NumberDivides
<1>7. CASE StringChar \/ StringEscape \/ StringEnd
  BY <1>1, <1>7, StringDivides
<1>8. CASE Operator1 \/ OperatorBoth \/ OperatorAlone
  BY <1>1, <1>8, OperatorDivides
<1>9. CASE UNCHANGED vars
  <2>1. /\ text' = text /\ cursor' = cursor /\ start' = start /\ c' = c /\ isReal' = isReal
        /\ pc' = pc /\ tokens' = tokens
    BY <1>9 DEF vars
  <2>2. AllEnd' = AllEnd
    BY <2>1 DEF AllEnd, EndOf
  <2>3. ProgressOK'
    BY <2>1, SameDivision DEF DivisionInv, ProgressOK
  <2>4. GapOK'
    BY <2>1, <2>2, SameDivision DEF DivisionInv, GapOK
  <2>5. \A i : EndOf(i)' = EndOf(i)
    BY <2>1 DEF EndOf
  <2>6. \A i \in DOMAIN tokens :
          /\ EndOf(i - 1) <= tokens[i].from
          /\ Blank(EndOf(i - 1), tokens[i].from)
          /\ IF tokens[i].kind = "YYEOF"
             THEN /\ i = Len(tokens) /\ tokens[i].to = Len(text)
                  /\ Blank(tokens[i].from, Len(text))
             ELSE IsToken(tokens[i]) /\ InKnownForm(tokens[i])
    BY DEF DivisionInv, TokensAreThoseOfTheText
  <2>7. pc = "done" => tokens # << >> /\ tokens[Len(tokens)].kind = "YYEOF"
    BY DEF DivisionInv, TokensAreThoseOfTheText
  <2>8. TokensAreThoseOfTheText'
    BY <2>1, <2>5, <2>6, <2>7, SameDivision DEF TokensAreThoseOfTheText
  <2> QED
    BY <1>1, <2>3, <2>4, <2>8 DEF DivisionInv
<1>10. CASE Done
  BY <1>9, <1>10 DEF Done
<1> QED
  BY <1>2, <1>3, <1>4, <1>5, <1>6, <1>7, <1>8, <1>9, <1>10 DEF Next, Step

(* On every text the tokens returned are those of the text: each the       *)
(* longest its first character starts, of the right kind, with nothing but *)
(* white space and comments between them, and YYEOF at the end of the text *)
(* (lexer.cpp:109-328).                                                    *)
THEOREM TokensAreExact ==
  Spec => []TokensAreThoseOfTheText
<1>1. DivisionInv => TokensAreThoseOfTheText
  BY DEF DivisionInv
<1> QED
  BY <1>1, InitDivides, DivisionStep, PTL DEF Spec
=============================================================================
