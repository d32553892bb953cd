-------------------------- MODULE SmHeapSpaceProofs --------------------------
(***************************************************************************)
(* Proofs about the room a collection of the stack machine needs, for      *)
(* every size of the arena, every bound and every choice of object types:  *)
(* evacuate() never runs out of it (EvacuationAlwaysFits), and a           *)
(* collection that is started by the end of another never ends             *)
(* (NestedCollectionIsStuck).                                              *)
(*                                                                         *)
(* The argument. Sizes of objects are counted in words: Cells(A) is the    *)
(* set of words the objects of A occupy, so that adding up sizes becomes   *)
(* the cardinality of a union. Both spaces are filled without gaps, and    *)
(* the copies take as many words as the objects that have one (CellsInv).  *)
(* An object that has no copy yet lies in from_space beside those that     *)
(* have: together they fit in one space, so they fit in the other.         *)
(*                                                                         *)
(* A nested collection starts with from_space filled by the survivors of   *)
(* the first, all of them live; so it copies all of it again and finds, at *)
(* its end, the room it found before (NestedInv).                          *)
(***************************************************************************)
EXTENDS SmHeapCopyProofs, FiniteSetTheorems

(* The two spaces, and the words they hold, are numbers.                   *)
LEMMA SpaceBounds ==
  ASSUME HeapInv
  PROVE  /\ from_space.begin \in Nat /\ from_space.end \in Nat /\ from_space.ptr \in Nat
         /\ to_space.begin \in Nat /\ to_space.end \in Nat /\ to_space.ptr \in Nat
         /\ SpaceWords \in Nat
         /\ from_space.end = from_space.begin + SpaceWords
         /\ to_space.end = to_space.begin + SpaceWords
         /\ from_space.begin <= from_space.ptr /\ to_space.begin <= to_space.ptr
         /\ gc.phase # "out_of_memory" => from_space.ptr <= from_space.end
         /\ to_space.ptr <= to_space.end
         /\ ~Collecting => to_space.ptr = to_space.begin
BY SpacesApart, SpaceAssumption DEF HeapInv, SpacesInv

(* Addresses are numbers, and the objects in the set A of them occupy two  *)
(* words or more.                                                          *)
Widths == \A a \in DOMAIN mem : a \in Nat /\ WordsOf(mem[a]) \in Nat /\ WordsOf(mem[a]) >= 2

(* The objects of the heap do.                                             *)
LEMMA ObjectWidths == HeapInv => Widths
<1> SUFFICES ASSUME HeapInv, NEW a \in DOMAIN mem
             PROVE  a \in Nat /\ WordsOf(mem[a]) \in Nat /\ WordsOf(mem[a]) >= 2
  BY DEF Widths
<1>1. a \in Addresses /\ mem[a] \in Object
  BY DEF HeapInv, TypeOK
<1> QED
  BY <1>1, WordsOfType DEF Addresses

(* The same of the next state.                                             *)
LEMMA ObjectWidthsNext == HeapInv' => Widths'
BY ObjectWidths, PTL

(* The words of two sets of objects are those of the one and those of the  *)
(* other.                                                                  *)
LEMMA MoreCells ==
  ASSUME NEW A, NEW B
  PROVE  Cells(A \cup B) = Cells(A) \cup Cells(B)
BY DEF Cells

(* The words of a single object.                                           *)
LEMMA CellsOfOne ==
  ASSUME NEW p
  PROVE  Cells({p}) = p..p + WordsOf(mem[p]) - 1
BY DEF Cells

(* Cells, of the next state, with the set of objects as a rigid parameter. *)
CellsNext(A) == UNION {a..a + WordsOf(mem'[a]) - 1 : a \in A}

(* A step that changes no size changes no cells.                           *)
LEMMA SameCells ==
  ASSUME NEW A, \A a \in A : WordsOf(mem'[a]) = WordsOf(mem[a])
  PROVE  CellsNext(A) = Cells(A)
BY DEF CellsNext, Cells

(* What is said of Cells, of CellsNext.                                    *)
LEMMA CellsNextFacts ==
  /\ CellsNext({}) = {}
  /\ \A A, B : CellsNext(A \cup B) = CellsNext(A) \cup CellsNext(B)
  /\ \A a : CellsNext({a}) = a..a + WordsOf(mem'[a]) - 1
BY DEF CellsNext

(* CellsInv of the next state, in terms of CellsNext.                      *)
CellsInvNextIs ==
  /\ \A a, b \in FromObjects' : a < b => a + WordsOf(mem'[a]) <= b
  /\ gc'.phase # "out_of_memory" =>
        CellsNext(FromObjects') = from_space'.begin..from_space'.ptr - 1
  /\ CellsNext(ToObjects') = to_space'.begin..to_space'.ptr - 1
  /\ Cardinality(CellsNext(Copied')) = to_space'.ptr - to_space'.begin

(* CellsInv of the next state, put together from its parts.                *)
LEMMA CellsInvNext == CellsInvNextIs => CellsInv'
BY DEF CellsInvNextIs, CellsInv, CellsNext, Cells

(* What has been copied occupies words of from_space, as many as to_space  *)
(* has filled.                                                             *)
LEMMA CopiedFits ==
  ASSUME HeapInv, CellsInv, Collecting
  PROVE  /\ IsFiniteSet(Cells(Copied)) /\ Cardinality(Cells(Copied)) \in Nat
         /\ \A p \in FromObjects \ Copied :
               /\ Cardinality(Cells(Copied \cup {p}))
                     = Cardinality(Cells(Copied)) + WordsOf(mem[p])
               /\ Cardinality(Cells(Copied)) + WordsOf(mem[p]) <= SpaceWords
<1> DEFINE C == Cells(Copied)
           I == from_space.begin..from_space.ptr - 1
<1>1. /\ FromObjects \subseteq DOMAIN mem /\ Copied \subseteq FromObjects
      /\ \A a \in FromObjects : a \in Nat /\ WordsOf(mem[a]) \in Nat /\ WordsOf(mem[a]) >= 2
  BY ObjectsFacts, ObjectWidths DEF Copied, Widths
<1>2. Cells(FromObjects) = I
  BY DEF CellsInv, Collecting
<1>3. IsFiniteSet(I) /\ Cardinality(I) <= SpaceWords
  <2>1. /\ from_space.begin \in Nat /\ from_space.ptr \in Nat /\ SpaceWords \in Nat
        /\ from_space.begin <= from_space.ptr
        /\ from_space.ptr <= from_space.begin + SpaceWords
    BY SpaceBounds DEF Collecting
  <2>2. from_space.begin \in Int /\ from_space.ptr - 1 \in Int
    BY <2>1
  <2>3. /\ IsFiniteSet(I)
        /\ Cardinality(I) = IF from_space.begin > from_space.ptr - 1 THEN 0
                            ELSE from_space.ptr - 1 - from_space.begin + 1
    BY <2>2, FS_Interval
  <2> QED
    BY <2>1, <2>3
<1>4. C \subseteq I
  BY <1>1, <1>2 DEF Cells
<1> HIDE DEF I
<1>5. IsFiniteSet(C) /\ Cardinality(C) \in Nat
  BY <1>3, <1>4, FS_Subset, FS_CardinalityType
<1>6. ASSUME NEW p \in FromObjects \ Copied
      PROVE  /\ Cardinality(Cells(Copied \cup {p})) = Cardinality(C) + WordsOf(mem[p])
             /\ Cardinality(C) + WordsOf(mem[p]) <= SpaceWords
  <2> DEFINE w == WordsOf(mem[p])
             P == p..p + w - 1
  <2>1. p \in Nat /\ w \in Nat /\ w >= 2
    BY <1>1
  <2>2. IsFiniteSet(P) /\ Cardinality(P) = w
    <3> DEFINE e == p + w - 1
    <3>1. p \in Int /\ e \in Int /\ p <= e
      BY <2>1
    <3> HIDE DEF w, e
    <3>2. IsFiniteSet(p..e) /\ Cardinality(p..e) = IF p > e THEN 0 ELSE e - p + 1
      BY <3>1, FS_Interval
    <3> QED
      BY <2>1, <3>1, <3>2 DEF e
  <2>3. Cells(Copied \cup {p}) = C \cup P
    <3> HIDE DEF C, P
    <3>1. Cells(Copied \cup {p}) = Cells(Copied) \cup Cells({p})
      BY MoreCells
    <3>2. Cells({p}) = P
      BY CellsOfOne DEF P
    <3> QED
      BY <3>1, <3>2 DEF C
  <2>4. C \cap P = {}
    <3>1. ASSUME NEW a \in Copied, NEW x \in a..a + WordsOf(mem[a]) - 1, x \in P PROVE FALSE
      <4>1. a \in FromObjects /\ p \in FromObjects /\ a # p
        BY <1>1
      <4>2. /\ a < p => a + WordsOf(mem[a]) <= p
            /\ p < a => p + w <= a
        BY <4>1 DEF CellsInv
      <4>3. a \in Nat /\ WordsOf(mem[a]) \in Nat
        BY <4>1, <1>1
      <4> HIDE DEF w
      <4> QED
        BY <2>1, <3>1, <4>1, <4>2, <4>3
    <3> QED
      BY <3>1 DEF Cells
  <2>5. C \cup P \subseteq I
    <3>1. P \subseteq Cells(FromObjects)
      BY DEF Cells
    <3> QED
      BY <3>1, <1>2, <1>4
  <2> HIDE DEF C, P, w
  <2>6. Cardinality(C \cup P) = Cardinality(C) + w
    <3>1. Cardinality(C \cup P) = Cardinality(C) + Cardinality(P) - Cardinality(C \cap P)
      BY <1>5, <2>2, FS_Union
    <3>2. Cardinality(C \cap P) = 0
      BY <2>4, FS_EmptySet
    <3> QED
      BY <3>1, <3>2, <2>1, <2>2, <1>5
  <2>7. Cardinality(C \cup P) <= Cardinality(I)
    BY <2>5, <1>3, FS_Subset
  <2>8. Cardinality(I) \in Nat /\ SpaceWords \in Nat
    BY <1>3, FS_CardinalityType, SpaceAssumption
  <2>9. Cardinality(C) + w <= SpaceWords
    BY <2>1, <2>6, <2>7, <2>8, <1>3, <1>5
  <2> QED
    BY <2>3, <2>6, <2>9 DEF w
<1> QED
  BY <1>5, <1>6

(* There is room for the copy of any object that has none yet: its words   *)
(* and those of what has been copied are different words of one semispace. *)
LEMMA RoomForAll ==
  ASSUME HeapInv, CellsInv, Collecting, NEW p \in FromObjects
  PROVE  RoomFor(p)
<1> SUFFICES ASSUME MustCopy(p) PROVE Fits(to_space, WordsOf(mem[p]))
  BY DEF RoomFor
<1>1. p \in FromObjects \ Copied
  BY DEF MustCopy, Copied
<1>2. Cardinality(Cells(Copied)) + WordsOf(mem[p]) <= SpaceWords
  BY <1>1, CopiedFits
<1>3. Cardinality(Cells(Copied)) = to_space.ptr - to_space.begin
  BY DEF CellsInv
<1>4. WordsOf(mem[p]) \in Nat
  BY ObjectWidths, ObjectsFacts DEF Widths
<1> QED
  BY <1>2, <1>3, <1>4, SpaceBounds DEF Fits

(* With an empty to_space, the parts of CellsInv about it hold.            *)
LEMMA EmptyToSpaceCells ==
  ASSUME HeapInv', ToSpaceEmpty'
  PROVE  /\ CellsNext(ToObjects') = to_space'.begin..to_space'.ptr - 1
         /\ Cardinality(CellsNext(Copied')) = to_space'.ptr - to_space'.begin
         /\ FromObjects' = DOMAIN mem'
<1>1. ToObjects' = {} /\ Copied' = {} /\ FromObjects' = DOMAIN mem'
  BY EmptyToSpaceObjectsNext DEF OneSpace
<1>2. to_space'.ptr = to_space'.begin /\ to_space'.begin \in Nat
  BY DEF ToSpaceEmpty, HeapInv, TypeOK, Space
<1>3. to_space'.begin..to_space'.ptr - 1 = {} /\ to_space'.ptr - to_space'.begin = 0
  BY <1>2
<1> QED
  BY <1>1, <1>3, CellsNextFacts, FS_EmptySet

(* A bump allocation leaves no gap.                                        *)
LEMMA FilledCells ==
  ASSUME HeapInv', ToSpaceEmpty', NEW A, NEW N, NEW b \in Nat, NEW p \in Nat, NEW q \in Nat,
         b <= p, p <= q,
         DOMAIN mem' = A \cup N, A \subseteq Nat, N \subseteq Nat,
         from_space'.begin = b, from_space'.ptr = q,
         CellsNext(A) = b..p - 1, CellsNext(N) = p..q - 1,
         \A x, y \in A : x < y => x + WordsOf(mem'[x]) <= y,
         \A x \in A : x < p /\ x + WordsOf(mem'[x]) <= p,
         \A x \in N : p <= x,
         \A x, y \in N : x < y => x + WordsOf(mem'[x]) <= y
  PROVE  CellsInv'
<1>1. /\ CellsNext(ToObjects') = to_space'.begin..to_space'.ptr - 1
      /\ Cardinality(CellsNext(Copied')) = to_space'.ptr - to_space'.begin
      /\ FromObjects' = A \cup N
  BY EmptyToSpaceCells
<1>2. CellsNext(A \cup N) = b..q - 1
  <2>1. CellsNext(A \cup N) = (b..p - 1) \cup (p..q - 1)
    BY CellsNextFacts
  <2>2. \A z : z \in (b..p - 1) \cup (p..q - 1) <=> z \in b..q - 1
    OBVIOUS
  <2> QED
    BY <2>1, <2>2
<1>3. \A x \in A \cup N : WordsOf(mem'[x]) \in Nat
  BY ObjectWidthsNext DEF Widths
<1>4. ASSUME NEW x \in A \cup N, NEW y \in A \cup N, x < y
      PROVE  x + WordsOf(mem'[x]) <= y
  <2>1. CASE x \in A /\ y \in N
    BY <2>1, <1>3, <1>4
  <2>2. CASE x \in N /\ y \in A
    BY <2>2, <1>4
  <2> QED
    BY <2>1, <2>2, <1>4
<1>5. CellsInvNextIs
  BY <1>1, <1>2, <1>4 DEF CellsInvNextIs
<1> QED
  BY <1>5, CellsInvNext

(* A step that changes neither the spaces nor any size keeps CellsInv.     *)
LEMMA SameCellsInv ==
  ASSUME HeapInv, CellsInv, FromObjects' = FromObjects, ToObjects' = ToObjects, Copied' = Copied,
         \A a \in DOMAIN mem : WordsOf(mem'[a]) = WordsOf(mem[a]),
         from_space' = from_space, to_space' = to_space,
         gc'.phase # "out_of_memory" => gc.phase # "out_of_memory"
  PROVE  CellsInv'
<1>1. FromObjects \subseteq DOMAIN mem /\ ToObjects \subseteq DOMAIN mem /\ Copied \subseteq DOMAIN mem
  BY ObjectsFacts DEF Copied
<1>2. /\ CellsNext(FromObjects) = Cells(FromObjects)
      /\ CellsNext(ToObjects) = Cells(ToObjects)
      /\ CellsNext(Copied) = Cells(Copied)
  BY <1>1 DEF CellsNext, Cells
<1>3. \A a, b \in FromObjects : a < b => a + WordsOf(mem'[a]) <= b
  BY <1>1 DEF CellsInv
<1>4. CellsInvNextIs
  BY <1>2, <1>3 DEF CellsInvNextIs, CellsInv
<1> QED
  BY <1>4, CellsInvNext

(* Outside a collection CellsInv is a matter of from_space alone.          *)
LEMMA QuietCells ==
  ASSUME HeapInv, ~Collecting, CellsInv, gc.phase # "out_of_memory"
  PROVE  /\ FromObjects = DOMAIN mem
         /\ Cells(DOMAIN mem) = from_space.begin..from_space.ptr - 1
         /\ \A x, y \in DOMAIN mem : x < y => x + WordsOf(mem[x]) <= y
         /\ \A x \in DOMAIN mem : x \in Nat /\ x < from_space.ptr /\ x + WordsOf(mem[x]) <= from_space.ptr
<1>1. FromObjects = DOMAIN mem
  BY QuietObjects
<1>2. \A x \in DOMAIN mem : x + WordsOf(mem[x]) <= from_space.ptr
  BY <1>1 DEF HeapInv, LayoutInv
<1>3. \A x \in DOMAIN mem : x \in Nat /\ x < from_space.ptr
  BY <1>2, ObjectWidths, SpaceBounds DEF Widths
<1> QED
  BY <1>1, <1>2, <1>3 DEF CellsInv

(* Objects allocated at the pointer, up to the new pointer, keep CellsInv. *)
LEMMA AllocatedCells ==
  ASSUME HeapInv, ~Collecting, CellsInv, gc.phase # "out_of_memory", HeapInv',
         NEW w \in Nat, NEW N, N \subseteq Nat,
         from_space' = Bump(from_space, w), to_space' = to_space,
         DOMAIN mem' = DOMAIN mem \cup N,
         \A a \in DOMAIN mem : WordsOf(mem'[a]) = WordsOf(mem[a]),
         CellsNext(N) = from_space.ptr..from_space.ptr + w - 1,
         \A x \in N : from_space.ptr <= x,
         \A x, y \in N : x < y => x + WordsOf(mem'[x]) <= y
  PROVE  CellsInv'
<1> DEFINE p == from_space.ptr
           q == from_space.ptr + w
           b == from_space.begin
<1>1. ToSpaceEmpty'
  BY StillEmpty
<1>2. /\ p \in Nat /\ q \in Nat /\ b \in Nat /\ b <= p /\ p <= q
      /\ from_space'.begin = b /\ from_space'.ptr = q
  BY SpaceBounds DEF Bump, HeapInv, TypeOK, Space
<1>3. /\ DOMAIN mem \subseteq Nat
      /\ CellsNext(DOMAIN mem) = b..p - 1
      /\ \A x, y \in DOMAIN mem : x < y => x + WordsOf(mem'[x]) <= y
      /\ \A x \in DOMAIN mem : x < p /\ x + WordsOf(mem'[x]) <= p
  BY QuietCells, SameCells
<1>4. CellsNext(N) = p..q - 1
  BY <1>2
<1>5. \A x \in N : p <= x
  OBVIOUS
<1> HIDE DEF p, q, b
<1> QED
  BY <1>1, <1>2, <1>3, <1>4, <1>5, FilledCells

(* One bump allocation keeps CellsInv.                                     *)
LEMMA OneAllocatedCells ==
  ASSUME HeapInv, ~Collecting, CellsInv, gc.phase # "out_of_memory", HeapInv',
         NEW w \in Nat,
         from_space' = Bump(from_space, w), to_space' = to_space,
         DOMAIN mem' = DOMAIN mem \cup {from_space.ptr},
         \A a \in DOMAIN mem : WordsOf(mem'[a]) = WordsOf(mem[a]),
         WordsOf(mem'[from_space.ptr]) = w
  PROVE  CellsInv'
<1> DEFINE N == {from_space.ptr}
<1>1. from_space.ptr \in Nat
  BY SpaceBounds
<1>2. CellsNext(N) = from_space.ptr..from_space.ptr + w - 1
  BY CellsNextFacts
<1>3. /\ N \subseteq Nat /\ \A x \in N : from_space.ptr <= x
      /\ \A x, y \in N : x < y => x + WordsOf(mem'[x]) <= y
  BY <1>1
<1>4. DOMAIN mem' = DOMAIN mem \cup N
  OBVIOUS
<1> HIDE DEF N
<1> QED
  BY <1>2, <1>3, <1>4, AllocatedCells

(* A write of one field keeps CellsInv: it changes no size.                *)
LEMMA PointerWriteCells ==
  ASSUME HeapInv, gc.phase = "idle", CellsInv,
         NEW d \in DOMAIN mem, NEW k, NEW p \in DOMAIN mem,
         mem' = [mem EXCEPT ![d].fields[k] = p],
         from_space' = from_space, to_space' = to_space
  PROVE  CellsInv'
<1>1. Quiet /\ DOMAIN mem' = DOMAIN mem
      /\ \A a \in DOMAIN mem : a # d => mem'[a] = mem[a]
      /\ mem'[d].type = mem[d].type /\ mem'[d].fwd = mem[d].fwd
      /\ Len(mem'[d].fields) = Len(mem[d].fields)
  BY IdleIsQuiet, PointerWriteEffect DEF Collecting
<1>2. \A a \in DOMAIN mem : WordsOf(mem'[a]) = WordsOf(mem[a]) /\ mem'[a].fwd = mem[a].fwd
  BY <1>1 DEF WordsOf
<1>3. FromObjects' = FromObjects /\ ToObjects' = ToObjects
  BY <1>1 DEF FromObjects, ToObjects
<1>4. Copied' = Copied
  BY <1>2, <1>3, ObjectsFacts DEF Copied
<1> QED
  BY <1>2, <1>3, <1>4, SameCellsInv

(* Whatever the program does keeps CellsInv.                               *)
LEMMA ProgramCells ==
  ASSUME HeapInv, CellsInv, Program, HeapInv'
  PROVE  CellsInv'
<1>1. /\ << >> \in Seq(Addresses) /\ Len(<< >>) = 0
      /\ gc.phase = "idle" /\ gc.phase # "out_of_memory" /\ ~Collecting /\ Quiet
  <2>1. gc.phase = "idle"
    BY ProgramIsIdle
  <2> QED
    BY <2>1, IdleIsQuiet DEF Collecting
<1>2. ASSUME UNCHANGED <<mem, from_space, to_space>> PROVE CellsInv'
  <2>1. FromObjects' = FromObjects /\ ToObjects' = ToObjects /\ Copied' = Copied
    BY <1>2 DEF FromObjects, ToObjects, Copied
  <2> QED
    BY <1>1, <1>2, <2>1, SameCellsInv
<1>3. ASSUME NEW type \in Types, NEW fields \in Seq(Addresses), Allocated(type, fields)
      PROVE  CellsInv'
  <2> DEFINE n == from_space.ptr
             w == ObjectWords(type, Len(fields))
             obj == NewObject(type, fields)
  <2>1. /\ from_space' = Bump(from_space, w) /\ to_space' = to_space
        /\ WordsOf(obj) = w /\ w \in Nat
        /\ DOMAIN mem' = DOMAIN mem \cup {n} /\ mem'[n] = obj
        /\ \A a \in DOMAIN mem : mem'[a] = mem[a]
    BY <1>1, <1>3, AllocatedEffect
  <2> HIDE DEF obj, w
  <2> QED
    BY <1>1, <2>1, OneAllocatedCells
<1>4. ASSUME NEW elements \in Operands("Array"), MakeArray(elements) PROVE CellsInv'
  <2> DEFINE w == ObjectWords("ArrayData", Len(elements))
             data == from_space.ptr
             header == data + w
             vector == NewObject("ArrayData", elements)
             array == NewObject("Array", <<data>>)
             N == {data} \cup {header}
  <2>1. /\ from_space' = Bump(from_space, w + 3) /\ to_space' = to_space
        /\ WordsOf(vector) = w /\ w \in Nat /\ w >= 2 /\ WordsOf(array) = 3
        /\ data \in Nat /\ header \in Nat /\ data < header
        /\ DOMAIN mem' = DOMAIN mem \cup {data, header}
        /\ mem'[data] = vector /\ mem'[header] = array
        /\ \A a \in DOMAIN mem : mem'[a] = mem[a]
    BY <1>4, MakeArrayEffect
  <2>2. header = data + w
    OBVIOUS
  <2> HIDE DEF w, data, header, vector, array
  <2>3. CellsNext(N) = data..data + (w + 3) - 1
    <3>1. /\ CellsNext({data}) = data..data + w - 1
          /\ CellsNext({header}) = header..header + 3 - 1
      BY <2>1, CellsNextFacts
    <3>2. CellsNext(N) = CellsNext({data}) \cup CellsNext({header})
      BY CellsNextFacts
    <3>3. \A z : z \in (data..data + w - 1) \cup (header..header + 3 - 1)
                    <=> z \in data..data + (w + 3) - 1
      BY <2>1, <2>2
    <3> QED
      BY <3>1, <3>2, <3>3
  <2>4. /\ DOMAIN mem' = DOMAIN mem \cup N /\ N \subseteq Nat /\ w + 3 \in Nat
        /\ \A x \in N : data <= x
        /\ \A x, y \in N : x < y => x + WordsOf(mem'[x]) <= y
    BY <2>1, <2>2
  <2> HIDE DEF N
  <2> QED
    BY <1>1, <2>1, <2>3, <2>4, AllocatedCells DEF data
<1>5. ASSUME NEW array \in Held, NEW k \in Nat, NEW element \in HeldRefs,
             ReplaceArrayData(array, k, element)
      PROVE  CellsInv'
  <2> DEFINE new == NewElements(array, k, element)
             w == ObjectWords("ArrayData", Len(new))
             data == from_space.ptr
             vector == NewObject("ArrayData", new)
  <2>1. /\ from_space' = Bump(from_space, w) /\ to_space' = to_space
        /\ WordsOf(vector) = w /\ w \in Nat
        /\ DOMAIN mem' = DOMAIN mem \cup {data} /\ mem'[data] = vector
    <3>1. from_space' = Bump(from_space, w)
      BY <1>5, ReplaceArrayDataEffect
    <3>2. to_space' = to_space
      BY <1>5, ReplaceArrayDataEffect
    <3>3. WordsOf(vector) = w /\ w \in Nat
      BY <1>5, ReplaceArrayDataEffect
    <3>4. DOMAIN mem' = DOMAIN mem \cup {data}
      BY <1>5, ReplaceArrayDataEffect
    <3>5. mem'[data] = vector
      BY <1>5, ReplaceArrayDataEffect
    <3> QED
      BY <3>1, <3>2, <3>3, <3>4, <3>5
  <2>2. /\ array \in DOMAIN mem
        /\ \A a \in DOMAIN mem : a # array => mem'[a] = mem[a]
        /\ mem'[array].type = mem[array].type
        /\ Len(mem[array].fields) = 1 /\ Len(mem'[array].fields) = 1
    BY <1>5, ReplaceArrayDataEffect
  <2> HIDE DEF new, w, vector
  <2>3. \A a \in DOMAIN mem : WordsOf(mem'[a]) = WordsOf(mem[a])
    BY <2>2 DEF WordsOf
  <2> QED
    BY <1>1, <2>1, <2>3, OneAllocatedCells
<1>6. ASSUME NEW array \in Held, NEW k, NEW element \in HeldRefs,
             StoreElement(array, k, element)
      PROVE  CellsInv'
  <2> DEFINE d == mem[array].fields[1]
  <2>1. /\ mem[array].type = "Array" /\ mem' = [mem EXCEPT ![d].fields[k] = element]
        /\ from_space' = from_space /\ to_space' = to_space
    BY <1>6 DEF StoreElement
  <2>2. d \in DOMAIN mem /\ element \in DOMAIN mem
    BY <1>1, <2>1, ArrayData, HeldObjects
  <2> HIDE DEF d
  <2> QED
    BY <1>1, <2>1, <2>2, PointerWriteCells
<1>7. ASSUME NEW ref \in Held, NEW p \in Held, ChangeRef(ref, p) PROVE CellsInv'
  <2>1. /\ mem' = [mem EXCEPT ![ref].fields[1] = p]
        /\ from_space' = from_space /\ to_space' = to_space
    BY <1>7 DEF ChangeRef
  <2>2. ref \in DOMAIN mem /\ p \in DOMAIN mem
    BY <1>1, HeldObjects
  <2> QED
    BY <1>1, <2>1, <2>2, PointerWriteCells
<1>8. ASSUME \/ \E type \in Scalars : MakeScalarCollects(type)
             \/ \E p \in Held : PushRoot(p)
             \/ PopRoot
             \/ Collect
      PROVE  CellsInv'
  BY <1>2, <1>8 DEF MakeScalarCollects, PushRoot, PopRoot, Collect, StartCollection
<1>9. ASSUME NEW type \in Scalars, MakeScalar(type) PROVE CellsInv'
  BY <1>1, <1>3, <1>9, TypesAssumption DEF MakeScalar, Types
<1>10. ASSUME NEW type \in Aggregates \ {"Array"}, NEW fields \in Operands(type),
              Make(type, fields)
       PROVE  CellsInv'
  <2>1. fields \in Seq(Addresses)
    BY <1>1, OperandsObjects
  <2> QED
    BY <1>3, <1>10, <2>1, TypesAssumption DEF Make, Types
<1>11. \A k \in 1..MaxElements + 1 : k \in Nat
  BY BoundsAssumption
<1> QED
  BY <1>4, <1>5, <1>6, <1>7, <1>8, <1>9, <1>10, <1>11 DEF Program

(* A step that may copy an object keeps CellsInv: an object copied for the *)
(* first time adds its words to both sides.                                *)
LEMMA CopyingCells ==
  ASSUME HeapInv, CopiesInv, CellsInv, ProcessRoot \/ ScanField, HeapInv'
  PROVE  CellsInv'
<1>1. PICK p \in FromObjects :
         /\ Collecting /\ RoomFor(p)
         /\ to_space' = ToSpaceAfter(p) /\ from_space' = from_space
         /\ gc'.phase = gc.phase
         /\ FromObjects' = FromObjects
         /\ Copied' = Copied \cup {p}
         /\ ToObjects' = ToObjects \cup {Forward(p)}
         /\ p \in Copied => Forward(p) \in ToObjects
         /\ p \notin Copied => /\ Forward(p) = to_space.ptr
                               /\ WordsOf(mem'[Forward(p)]) = WordsOf(mem[p])
         /\ \A a \in DOMAIN mem : WordsOf(mem'[a]) = WordsOf(mem[a])
  BY CopyingStep
<1>2. CASE p \in Copied
  <2>1. ToObjects' = ToObjects /\ Copied' = Copied
    BY <1>1, <1>2
  <2>2. to_space' = to_space
    BY <1>1, <1>2 DEF ToSpaceAfter, MustCopy, Copied
  <2> QED
    BY <1>1, <2>1, <2>2, SameCellsInv
<1>3. CASE p \notin Copied
  <2> DEFINE n == to_space.ptr
             w == WordsOf(mem[p])
             b == to_space.begin
  <2>1. /\ FromObjects \subseteq DOMAIN mem /\ ToObjects \subseteq DOMAIN mem
        /\ Copied \subseteq FromObjects
        /\ w \in Nat /\ w >= 2 /\ n \in Nat /\ b \in Nat /\ b <= n
    BY ObjectsFacts, ObjectWidths, SpaceBounds DEF Widths, Copied
  <2>2. to_space'.begin = b /\ to_space'.ptr = n + w
    <3>1. MustCopy(p) /\ to_space \in Space
      BY <1>3, <2>1 DEF MustCopy, Copied, FromObjects, HeapInv, TypeOK
    <3> QED
      BY <3>1, <1>1 DEF ToSpaceAfter, Bump, Space
  <2>3. /\ Forward(p) = n /\ WordsOf(mem'[n]) = w
    BY <1>1, <1>3
  <2>4. CellsNext(FromObjects) = Cells(FromObjects) /\ CellsNext(ToObjects) = Cells(ToObjects)
        /\ CellsNext(Copied \cup {p}) = Cells(Copied \cup {p})
    BY <1>1, <2>1 DEF CellsNext, Cells
  <2>5. /\ Cells(ToObjects) = b..n - 1
        /\ Cardinality(Cells(Copied)) = n - b
        /\ Cells(FromObjects) = from_space.begin..from_space.ptr - 1
        /\ \A x, y \in FromObjects : x < y => x + WordsOf(mem[x]) <= y
    BY <1>1 DEF CellsInv, Collecting
  <2>6. Cardinality(Cells(Copied \cup {p})) = Cardinality(Cells(Copied)) + w
    BY <1>1, <1>3, CopiedFits
  <2> HIDE DEF n, w, b
  <2>7. CellsNext(ToObjects') = b..n + w - 1
    <3>1. CellsNext(ToObjects') = CellsNext(ToObjects) \cup CellsNext({n})
      BY <1>1, <2>3, CellsNextFacts
    <3>2. CellsNext({n}) = n..n + w - 1
      BY <2>3, CellsNextFacts
    <3>3. \A z : z \in (b..n - 1) \cup (n..n + w - 1) <=> z \in b..n + w - 1
      BY <2>1
    <3> QED
      BY <3>1, <3>2, <3>3, <2>4, <2>5
  <2>8. Cardinality(CellsNext(Copied')) = n + w - b
    BY <1>1, <2>1, <2>4, <2>5, <2>6
  <2>9. /\ \A x, y \in FromObjects' : x < y => x + WordsOf(mem'[x]) <= y
        /\ CellsNext(FromObjects') = from_space'.begin..from_space'.ptr - 1
    BY <1>1, <2>1, <2>4, <2>5
  <2>10. CellsNext(ToObjects') = to_space'.begin..to_space'.ptr - 1
    <3>1. n + w - 1 = (n + w) - 1
      BY <2>1
    <3> QED
      BY <3>1, <2>2, <2>7
  <2>11. Cardinality(CellsNext(Copied')) = to_space'.ptr - to_space'.begin
    <3>1. n + w - b = (n + w) - b
      BY <2>1
    <3> QED
      BY <3>1, <2>2, <2>8
  <2> QED
    BY <2>9, <2>10, <2>11, CellsInvNext DEF CellsInvNextIs
<1> QED
  BY <1>2, <1>3

(* The copies do not overlap.                                              *)
LEMMA LayoutOfCopies ==
  ASSUME HeapInv
  PROVE  /\ \A x, y \in ToObjects : x < y => x + WordsOf(mem[x]) <= y
         /\ \A x \in ToObjects : x \in Nat /\ x < to_space.ptr /\ x + WordsOf(mem[x]) <= to_space.ptr
<1>1. \A x, y \in ToObjects : x < y => x + WordsOf(mem[x]) <= y
  BY DEF HeapInv, LayoutInv
<1>2. \A x \in ToObjects : x + WordsOf(mem[x]) <= to_space.ptr
  BY DEF HeapInv, LayoutInv
<1>3. \A x \in ToObjects : x \in Nat /\ WordsOf(mem[x]) \in Nat /\ WordsOf(mem[x]) >= 2
  BY ObjectWidths, ObjectsFacts DEF Widths
<1>4. to_space.ptr \in Nat
  BY SpaceBounds
<1> QED
  BY <1>1, <1>2, <1>3, <1>4

(* The swap, with the new none, keeps CellsInv.                            *)
LEMMA FinishCells ==
  ASSUME HeapInv, CellsInv, Finish, HeapInv'
  PROVE  CellsInv'
<1> DEFINE n == to_space.ptr
           none == NewObject("None", << >>)
           b == to_space.begin
<1>1. /\ WordsOf(none) = 2 /\ ScanDone
      /\ DOMAIN mem' = ToObjects \cup {n} /\ mem'[n] = none
      /\ \A a \in ToObjects : mem'[a] = mem[a]
      /\ from_space'.begin = b /\ from_space'.ptr = n + 2
      /\ to_space'.begin = from_space.begin /\ to_space'.ptr = from_space.begin
  BY FinishEffect
<1>2. n \in Nat /\ b \in Nat /\ b <= n /\ n + 2 \in Nat /\ n <= n + 2
  BY SpaceBounds
<1>3. CellsNext(ToObjects) = b..n - 1
  BY <1>1, SameCells DEF CellsInv
<1>4. /\ \A x, y \in ToObjects : x < y => x + WordsOf(mem'[x]) <= y
      /\ \A x \in ToObjects : x < n /\ x + WordsOf(mem'[x]) <= n
      /\ ToObjects \subseteq Nat
  BY <1>1, LayoutOfCopies
<1> HIDE DEF n, none, b
<1>5. CellsNext({n}) = n..(n + 2) - 1
  <2>1. CellsNext({n}) = n..n + WordsOf(mem'[n]) - 1
    BY CellsNextFacts
  <2>2. WordsOf(mem'[n]) = 2 /\ n + 2 - 1 = (n + 2) - 1
    BY <1>1, <1>2
  <2> QED
    BY <2>1, <2>2
<1>6. ToSpaceEmpty'
  BY <1>1 DEF ToSpaceEmpty
<1> DEFINE N == {n}
           q == n + 2
<1>7. /\ N \subseteq Nat /\ \A x \in N : n <= x
      /\ \A x, y \in N : x < y => x + WordsOf(mem'[x]) <= y
  BY <1>2
<1>8. DOMAIN mem' = ToObjects \cup N /\ CellsNext(N) = n..q - 1 /\ from_space'.ptr = q
      /\ q \in Nat /\ n <= q
  BY <1>1, <1>2, <1>5
<1> HIDE DEF N, q
<1> QED
  BY <1>1, <1>2, <1>3, <1>4, <1>6, <1>7, <1>8, FilledCells

(* The swap without room for a none keeps CellsInv.                        *)
LEMMA FinishCollectsAgainCells ==
  ASSUME HeapInv, CellsInv, FinishCollectsAgain, HeapInv'
  PROVE  CellsInv'
<1>1. /\ ScanDone /\ mem' = Survivors /\ from_space' = to_space
      /\ to_space' = [from_space EXCEPT !.ptr = from_space.begin]
      /\ from_space \in Space /\ to_space \in Space
  BY DEF FinishCollectsAgain, HeapInv, TypeOK
<1>2. /\ DOMAIN mem' = ToObjects
      /\ \A a \in ToObjects : mem'[a] = mem[a]
  BY <1>1, SwapKeeps
<1>3. ToSpaceEmpty'
  BY <1>1 DEF ToSpaceEmpty, Space
<1>4. /\ CellsNext(ToObjects') = to_space'.begin..to_space'.ptr - 1
      /\ Cardinality(CellsNext(Copied')) = to_space'.ptr - to_space'.begin
      /\ FromObjects' = ToObjects
  BY <1>2, <1>3, EmptyToSpaceCells
<1>5. CellsNext(ToObjects) = to_space.begin..to_space.ptr - 1
  BY <1>2, SameCells DEF CellsInv
<1>6. \A x, y \in ToObjects : x < y => x + WordsOf(mem'[x]) <= y
  BY <1>2, LayoutOfCopies
<1>7. CellsInvNextIs
  BY <1>1, <1>4, <1>5, <1>6 DEF CellsInvNextIs
<1> QED
  BY <1>7, CellsInvNext

(* Every step keeps CellsInv.                                              *)
LEMMA CellsKept ==
  ASSUME HeapInv, WaitingInv, CopiesInv, CellsInv, [Next]_vars, HeapInv'
  PROVE  CellsInv'
<1>1. CASE RootsDone \/ ScanNext \/ OutOfMemory \/ Stopped \/ UNCHANGED vars
  <2>1. /\ mem' = mem /\ to_space' = to_space
        /\ \/ from_space' = from_space /\ (gc'.phase # "out_of_memory" => gc.phase # "out_of_memory")
           \/ OutOfMemory
    BY <1>1 DEF RootsDone, ScanNext, Scanning, OutOfMemory, Stopped, vars
  <2>2. CASE OutOfMemory
    <3>1. /\ gc'.phase = "out_of_memory" /\ ~Collecting /\ gc.phase # "out_of_memory"
          /\ to_space' = to_space
      BY <2>2 DEF OutOfMemory, Collecting, HeapInv, TypeOK, Control
    <3>2. ToSpaceEmpty'
      BY <3>1, StillEmpty
    <3>3. /\ CellsNext(ToObjects') = to_space'.begin..to_space'.ptr - 1
          /\ Cardinality(CellsNext(Copied')) = to_space'.ptr - to_space'.begin
          /\ FromObjects' = DOMAIN mem
      BY <2>1, <3>2, EmptyToSpaceCells
    <3>4. \A x, y \in DOMAIN mem : x < y => x + WordsOf(mem[x]) <= y
      BY <3>1, QuietCells
    <3> QED
      BY <2>1, <3>1, <3>3, <3>4, CellsInvNext DEF CellsInvNextIs
  <2>3. CASE ~OutOfMemory
    <3>1. FromObjects' = FromObjects /\ ToObjects' = ToObjects /\ Copied' = Copied
      BY <2>1, <2>3 DEF FromObjects, ToObjects, Copied
    <3> QED
      BY <2>1, <2>3, <3>1, SameCellsInv
  <2> QED
    BY <2>2, <2>3
<1>2. CASE Resume
  <2> DEFINE n == from_space.ptr
             w == ObjectWords(gc.wanted, Len(<< >>))
             obj == NewObject(gc.wanted, << >>)
  <2>1. /\ gc.wanted \in Types /\ Allocated(gc.wanted, << >>) /\ ~Collecting
        /\ gc.phase # "out_of_memory" /\ << >> \in Seq(Addresses)
    BY <1>2, TypesAssumption DEF Resume, WaitingInv, Types, Collecting
  <2>2. Quiet
    BY <2>1, IdleIsQuiet
  <2>3. /\ from_space' = Bump(from_space, w) /\ to_space' = to_space
        /\ WordsOf(obj) = w /\ w \in Nat
        /\ DOMAIN mem' = DOMAIN mem \cup {n} /\ mem'[n] = obj
        /\ \A a \in DOMAIN mem : mem'[a] = mem[a]
    BY <2>1, <2>2, AllocatedEffect
  <2> HIDE DEF obj, w
  <2> QED
    BY <2>1, <2>3, OneAllocatedCells
<1> QED
  BY <1>1, <1>2, ProgramCells, CopyingCells, FinishCells, FinishCollectsAgainCells
  DEF Next, Collector

(* CellsInv holds of a new heap: the none fills its two words.             *)
LEMMA InitCells == Init => CellsInv
<1> SUFFICES ASSUME Init PROVE CellsInv
  OBVIOUS
<1> DEFINE none == NewObject("None", << >>)
<1>1. /\ mem = [a \in {1} |-> none] /\ gc.phase = "idle"
      /\ from_space.begin = 1 /\ from_space.ptr = 3 /\ from_space.end = SpaceWords + 1
      /\ to_space.begin = SpaceWords + 1 /\ to_space.ptr = SpaceWords + 1
  BY DEF Init
<1>2. WordsOf(none) = 2
  BY DEF NewObject, WordsOf, ObjectWords
<1>3. HeapInv /\ ToSpaceEmpty
  BY <1>1, InitKeeps DEF ToSpaceEmpty
<1> HIDE DEF none
<1>4. FromObjects = {1} /\ ToObjects = {} /\ Copied = {}
  BY <1>1, <1>3, EmptyToSpaceObjects DEF OneSpace
<1>5. WordsOf(mem[1]) = 2
  BY <1>1, <1>2
<1>6. Cells(FromObjects) = 1..2 /\ Cells({}) = {}
  <2>1. Cells({1}) = 1..1 + WordsOf(mem[1]) - 1
    BY CellsOfOne
  <2>2. 1 + WordsOf(mem[1]) - 1 = 2
    BY <1>5
  <2> QED
    BY <1>4, <2>1, <2>2 DEF Cells
<1>7. to_space.begin..to_space.ptr - 1 = {} /\ to_space.ptr - to_space.begin = 0
  BY <1>1, SpaceAssumption
<1>8. from_space.ptr - 1 = 2 /\ ~(1 < 1)
  BY <1>1
<1>9. Cardinality({}) = 0
  BY FS_EmptySet
<1>10. Cardinality(Cells(Copied)) = to_space.ptr - to_space.begin
  BY <1>4, <1>6, <1>7, <1>9
<1>11. Cells(FromObjects) = from_space.begin..from_space.ptr - 1
  BY <1>1, <1>6, <1>8
<1> QED
  BY <1>4, <1>6, <1>7, <1>8, <1>10, <1>11 DEF CellsInv

(* Both spaces are filled without gaps or overlaps, and what is copied     *)
(* takes as many words as its copies (SemiSpace::allocate, gc_heap.hpp).   *)
THEOREM CellsInvariant == Spec => []CellsInv
<1>1. HeapInv /\ WaitingInv /\ HeapInv' /\ [Next]_vars /\ CopiesInv /\ CellsInv => CellsInv'
  BY CellsKept
<1> QED
  BY <1>1, InitCells, HeapInvariant, CopiesInvariant, PTL DEF Spec

(* evacuate() always finds room in to_space: the out_of_memory of          *)
(* SemiSpace::allocate can come from Heap::allocate only (gc_heap.hpp).    *)
THEOREM EvacuationAlwaysFits == Spec => []EvacuationFits
<1>1. HeapInv /\ CellsInv => EvacuationFits
  <2> SUFFICES ASSUME HeapInv, CellsInv PROVE EvacuationFits
    OBVIOUS
  <2>1. ASSUME gc.phase = "roots", gc.next <= Len(roots) PROVE RoomFor(roots[gc.next])
    <3>1. gc.next \in DOMAIN roots /\ Collecting
      BY <2>1 DEF HeapInv, TypeOK, Control, Collecting
    <3>2. roots[gc.next] \in FromObjects
      BY <2>1, <3>1 DEF HeapInv, SlotsInv, RootDone, TypeOK, Control
    <3> QED
      BY <3>1, <3>2, RoomForAll
  <2>2. ASSUME Scanning, gc.next <= Len(mem[gc.scanned].fields)
        PROVE  RoomFor(mem[gc.scanned].fields[gc.next])
    <3> DEFINE s == gc.scanned
               k == gc.next
    <3>1. Collecting /\ gc.phase = "scan" /\ s < to_space.ptr /\ k \in Nat /\ k >= 1 /\ s \in Nat
      BY <2>2 DEF Scanning, HeapInv, TypeOK, Control, Collecting
    <3>2. s \in ToObjects
      BY <3>1, SpaceBounds DEF HeapInv, SlotsInv
    <3>3. k \in DOMAIN mem[s].fields
      BY <2>2, <3>1, <3>2, ObjectsFacts
    <3>4. mem[s].fields[k] \in FromObjects
      BY <3>1, <3>2, <3>3 DEF HeapInv, SlotsInv, FieldDone
    <3> QED
      BY <3>1, <3>4, RoomForAll
  <2> QED
    BY <2>1, <2>2 DEF EvacuationFits
<1> QED
  BY <1>1, HeapInvariant, CellsInvariant, PTL

(* A set of objects that is reached whole from the roots is live.          *)
LiveHolds ==
  /\ Live \subseteq FromObjects
  /\ OldRoots \subseteq Live
  /\ \A a \in Live : \A i \in DOMAIN mem[a].fields :
        mem[a].fields[i] \in FromObjects => mem[a].fields[i] \in Live

(* The same of the next state.                                             *)
LEMMA LiveHoldsNext == LiveHolds'
<1>1. LiveHolds
  BY LiveFacts DEF LiveHolds
<1> QED
  BY <1>1, PTL

(* When a collection starts a second one, everything in from_space is      *)
(* live: it has just been reached.                                         *)
LEMMA CollectsAgainLive ==
  ASSUME HeapInv, CopiesInv, LiveInv, FinishCollectsAgain, HeapInv'
  PROVE  FromObjects' = Live'
<1>1. /\ ScanDone /\ mem' = Survivors /\ roots' = roots /\ from_space' = to_space
      /\ to_space' = [from_space EXCEPT !.ptr = from_space.begin] /\ from_space \in Space
  BY DEF FinishCollectsAgain, HeapInv, TypeOK
<1>2. DOMAIN mem' = ToObjects /\ \A a \in ToObjects : mem'[a] = mem[a]
  BY <1>1, SwapKeeps
<1>3. FromObjects' = ToObjects
  BY <1>1, <1>2 DEF FromObjects, ToObjects
<1>4. Copied = Live /\ Copied \subseteq FromObjects /\ FromObjects \cap ToObjects = {}
  BY <1>1, ScanDoneCopies, ObjectsFacts DEF LiveInv, Copied
<1>5. Range(roots) \subseteq ToObjects
  BY <1>1, ScanDoneSlots DEF Range
<1> DEFINE S == {a \in Copied : mem[a].fwd \in Live'}
<1>6. OldRoots \subseteq S
  <2>1. ASSUME NEW a \in OldRoots PROVE a \in S
    <3>1. a \in FromObjects /\ mem[a].fwd \in Range(roots)
      BY <1>4, <1>5 DEF OldRoots
    <3>2. mem[a].fwd \in ToObjects
      BY <3>1, <1>5
    <3>3. a \in Copied
      BY <3>1, <3>2, ObjectsFacts DEF Copied, NULL
    <3>4. mem[a].fwd \in OldRoots'
      BY <3>1, <3>2, <1>1, <1>3 DEF OldRoots
    <3>5. mem[a].fwd \in Live'
      BY <3>4, LiveHoldsNext DEF LiveHolds
    <3> QED
      BY <3>3, <3>5
  <2> QED
    BY <2>1
<1>7. ASSUME NEW a \in S, NEW i \in DOMAIN mem[a].fields PROVE mem[a].fields[i] \in S
  <2> DEFINE t == mem[a].fwd
  <2>1. /\ mem[a].fields[i] \in Copied
        /\ mem[t].fields[i] = mem[mem[a].fields[i]].fwd
    BY <1>1, ScanDoneCopies
  <2>2. t \in ToObjects /\ i \in DOMAIN mem[t].fields /\ mem'[t] = mem[t]
    BY <1>2, CopiesAlike
  <2>3. mem[t].fields[i] \in ToObjects
    BY <2>2, <1>1, ScanDoneSlots
  <2>4. mem'[t].fields[i] \in Live'
    BY <2>2, <2>3, <1>3, LiveHoldsNext DEF LiveHolds
  <2> QED
    BY <2>1, <2>2, <2>4
<1>8. Live \subseteq S
  BY <1>4, <1>6, <1>7, LiveFacts
<1>9. ToObjects \subseteq Live'
  BY <1>4, <1>8 DEF CopiesInv
<1> QED
  BY <1>3, <1>9, LiveHoldsNext DEF LiveHolds

(* Every step keeps NestedInv.                                             *)
LEMMA NestedKept ==
  ASSUME HeapInv, CopiesInv, LiveInv, NestedInv, [Next]_vars, HeapInv'
  PROVE  NestedInv'
<1>1. gc \in Control
  BY DEF HeapInv, TypeOK
<1>2. CASE Program \/ Resume \/ OutOfMemory
  <2>1. ~Collecting /\ gc'.nested = gc.nested
    <3>1. CASE Program
      BY <1>1, <3>1, ProgramIsIdle DEF StartCollection, Collecting, Control
    <3>2. CASE Resume \/ OutOfMemory
      BY <1>1, <3>2 DEF Resume, OutOfMemory, Collecting, Control
    <3> QED
      BY <1>2, <3>1, <3>2
  <2> QED
    BY <2>1 DEF NestedInv
<1>3. CASE ProcessRoot \/ ScanField
  <2>1. /\ FromObjects' = FromObjects /\ from_space' = from_space
        /\ gc'.phase = gc.phase /\ gc'.nested = gc.nested
    BY <1>3, CopyingStep
  <2>2. Live' = Live
    BY <1>3, ProcessRootCopies, ScanFieldCopies
  <2> QED
    BY <2>1, <2>2 DEF NestedInv, Collecting, Fits
<1>4. CASE RootsDone \/ ScanNext
  <2>1. /\ mem' = mem /\ from_space' = from_space /\ gc'.phase = "scan" /\ gc'.nested = gc.nested
    BY <1>1, <1>4 DEF RootsDone, ScanNext, Scanning, Control
  <2>2. Live' = Live /\ FromObjects' = FromObjects
    BY <1>4, <2>1, ScanMovesCopies DEF FromObjects
  <2> QED
    BY <2>1, <2>2 DEF NestedInv, Collecting, Fits
<1>5. CASE Finish
  <2>1. gc'.nested = gc.nested /\ ~gc.nested
    BY <1>5, FinishEffect DEF Finish
  <2> QED
    BY <2>1 DEF NestedInv
<1>6. CASE FinishCollectsAgain
  <2>1. /\ gc'.phase = "roots" /\ from_space' = to_space
        /\ ~Fits(to_space, ObjectWords("None", 0))
    BY <1>1, <1>6 DEF FinishCollectsAgain, Control
  <2>2. FromObjects' = Live'
    BY <1>6, CollectsAgainLive
  <2> QED
    BY <2>1, <2>2 DEF NestedInv, Collecting, Fits
<1>7. CASE UNCHANGED vars
  <2>1. /\ mem' = mem /\ from_space' = from_space /\ roots' = roots /\ gc' = gc
    BY <1>7 DEF vars
  <2>2. FromObjects' = FromObjects /\ OldRoots' = OldRoots
    BY <2>1 DEF FromObjects, OldRoots
  <2>3. Live' = Live
    BY <2>1, <2>2, LiveSame
  <2> QED
    BY <2>1, <2>2, <2>3 DEF NestedInv, Collecting, Fits
<1> QED
  BY <1>2, <1>3, <1>4, <1>5, <1>6, <1>7 DEF Next, Collector, Stopped

(* A nested collection has nothing to drop.                                *)
THEOREM NestedInvariant == Spec => []NestedInv
<1>1. Init => NestedInv
  BY DEF Init, NestedInv
<1>2. HeapInv /\ HeapInv' /\ [Next]_vars /\ CopiesInv /\ LiveInv /\ NestedInv => NestedInv'
  BY NestedKept
<1> QED
  BY <1>1, <1>2, HeapInvariant, CopiesInvariant, PTL DEF Spec

(* A collect() called from the end of collect() finds no room for a none   *)
(* either, and calls collect() again: it never returns (gc_heap.hpp, the   *)
(* allocation at the end of collect()).                                    *)
THEOREM NestedCollectionIsStuck == Spec => []NestedNeverFinishes
<1>1. HeapInv /\ CopiesInv /\ LiveInv /\ CellsInv /\ NestedInv => NestedNeverFinishes
  <2> SUFFICES ASSUME HeapInv, CopiesInv, LiveInv, CellsInv, NestedInv, ScanDone, gc.nested,
                      Fits(to_space, ObjectWords("None", 0))
               PROVE  FALSE
    BY DEF NestedNeverFinishes
  <2>1. Copied = FromObjects /\ gc.phase = "scan"
    BY ScanDoneCopies DEF LiveInv, NestedInv, ScanDone
  <2>2. /\ Cells(Copied) = from_space.begin..from_space.ptr - 1
        /\ Cardinality(Cells(Copied)) = to_space.ptr - to_space.begin
    BY <2>1 DEF CellsInv
  <2> DEFINE b == from_space.begin
             e == from_space.ptr - 1
  <2>3. b \in Int /\ e \in Int /\ b <= e + 1 /\ e + 1 = from_space.ptr
    BY SpaceBounds
  <2>4. Cardinality(Cells(Copied)) = e - b + 1
    <3> HIDE DEF b, e
    <3>1. Cardinality(b..e) = IF b > e THEN 0 ELSE e - b + 1
      BY <2>3, FS_Interval
    <3>2. Cells(Copied) = b..e
      BY <2>2 DEF b, e
    <3> QED
      BY <2>3, <3>1, <3>2
  <2>5. ObjectWords("None", 0) = 2
    BY DEF ObjectWords
  <2>6. ~(from_space.ptr + 2 <= from_space.end) /\ to_space.ptr + 2 <= to_space.end
    BY <2>5 DEF NestedInv, Fits
  <2>7. to_space.ptr - to_space.begin = from_space.ptr - from_space.begin
    <3>1. e - b + 1 = from_space.ptr - from_space.begin
      BY SpaceBounds
    <3> HIDE DEF b, e
    <3> QED
      BY <2>2, <2>4, <3>1
  <2> HIDE DEF b, e
  <2> QED
    BY <2>6, <2>7, SpaceBounds
<1> QED
  BY <1>1, HeapInvariant, CopiesInvariant, CellsInvariant, NestedInvariant, PTL
=============================================================================
