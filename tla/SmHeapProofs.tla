---------------------------- MODULE SmHeapProofs ----------------------------
(***************************************************************************)
(* Proofs about the copying collector, for every size of the arena, every  *)
(* bound on the roots and every choice of object types.                    *)
(*                                                                         *)
(* HeapInv is inductive; it implies NoDangling.                            *)
(***************************************************************************)
EXTENDS SmHeap, TLAPS

(* Every object has a positive size: the spaces are filled by steps of at  *)
(* least two words, and never past their end.                              *)
LEMMA WordsOfAnObject ==
  ASSUME NEW type, NEW n \in Nat
  PROVE  ObjectWords(type, n) \in Nat /\ ObjectWords(type, n) >= 2
BY DEF ObjectWords

(* What TypeOK says of one object: its fields are a list of addresses, and *)
(* it occupies at least two words.                                         *)
LEMMA WordsOfType ==
  ASSUME NEW obj, obj \in Object
  PROVE  /\ Len(obj.fields) \in Nat
         /\ DOMAIN obj.fields = 1..Len(obj.fields)
         /\ \A i \in DOMAIN obj.fields : obj.fields[i] \in Addresses
         /\ WordsOf(obj) \in Nat
         /\ WordsOf(obj) >= 2
<1>1. obj.fields \in Seq(Addresses)
  BY DEF Object
<1>2. Len(obj.fields) \in Nat /\ DOMAIN obj.fields = 1..Len(obj.fields)
  BY <1>1
<1>3. \A i \in DOMAIN obj.fields : obj.fields[i] \in Addresses
  BY <1>1, <1>2
<1> QED
  BY <1>2, <1>3, WordsOfAnObject DEF WordsOf

(* Where a step leaves gc in its type. *)
LEMMA ControlFields ==
  ASSUME gc \in Control
  PROVE  /\ gc.next \in Nat \ {0} /\ gc.next + 1 \in Nat \ {0} /\ gc.scanned \in Nat
         /\ \A phase \in Phases : [gc EXCEPT !.phase = phase] \in Control
         /\ \A next \in Nat \ {0} : [gc EXCEPT !.next = next] \in Control
         /\ \A phase \in Phases, next \in Nat \ {0} :
               [gc EXCEPT !.phase = phase, !.next = next] \in Control
         /\ \A scanned \in Nat, next \in Nat \ {0} :
               [gc EXCEPT !.scanned = scanned, !.next = next] \in Control
<1>1. gc.next \in Nat \ {0} /\ gc.next + 1 \in Nat \ {0} /\ gc.scanned \in Nat
  BY DEF Control
<1>2. ASSUME NEW phase \in Phases PROVE [gc EXCEPT !.phase = phase] \in Control
  BY DEF Control
<1>3. ASSUME NEW next \in Nat \ {0} PROVE [gc EXCEPT !.next = next] \in Control
  BY DEF Control
<1>4. ASSUME NEW phase \in Phases, NEW next \in Nat \ {0}
      PROVE  [gc EXCEPT !.phase = phase, !.next = next] \in Control
  BY DEF Control
<1>5. ASSUME NEW scanned \in Nat, NEW next \in Nat \ {0}
      PROVE  [gc EXCEPT !.scanned = scanned, !.next = next] \in Control
  BY DEF Control
<1> QED
  BY <1>1, <1>2, <1>3, <1>4, <1>5

(* The two spaces do not share an address. *)
LEMMA SpacesApart ==
  ASSUME SpacesInv, TypeOK
  PROVE  /\ from_space.begin \in Nat /\ from_space.end \in Nat
         /\ to_space.begin \in Nat /\ to_space.end \in Nat
         /\ from_space.ptr \in Nat /\ to_space.ptr \in Nat
         /\ from_space.begin >= 1 /\ to_space.begin >= 1
         /\ from_space.end = from_space.begin + SpaceWords
         /\ to_space.end = to_space.begin + SpaceWords
         /\ from_space.end <= 2 * SpaceWords + 1
         /\ to_space.end <= 2 * SpaceWords + 1
         /\ \A a \in Nat : ~(Contains(from_space, a) /\ Contains(to_space, a))
         /\ \A a \in Addresses : Contains(from_space, a) \/ Contains(to_space, a)
<1>1. SpaceWords \in Nat /\ SpaceWords >= 2
  BY SpaceAssumption
<1>2. /\ from_space.begin \in {1, SpaceWords + 1} /\ to_space.begin \in {1, SpaceWords + 1}
      /\ from_space.ptr \in Nat /\ to_space.ptr \in Nat
  BY DEF TypeOK, Space
<1>3. from_space.end = from_space.begin + SpaceWords /\ to_space.end = to_space.begin + SpaceWords
  BY DEF SpacesInv
<1>4. from_space.begin # to_space.begin
  <2> SUFFICES ASSUME from_space.begin = to_space.begin PROVE FALSE
    OBVIOUS
  <2>1. {from_space.begin, to_space.begin} = {1, SpaceWords + 1}
    BY DEF SpacesInv
  <2>2. 1 = SpaceWords + 1
    BY <2>1, <1>1
  <2> QED
    BY <2>2, <1>1
<1>5. \/ from_space.begin = 1 /\ to_space.begin = SpaceWords + 1
      \/ from_space.begin = SpaceWords + 1 /\ to_space.begin = 1
  BY <1>2, <1>4
<1> QED
  BY <1>1, <1>2, <1>3, <1>5 DEF Contains, Addresses

(* process_ref on an object of from_space: it has a copy afterwards, the   *)
(* slot points at the copy, and a new copy extends to_space by its size.   *)
LEMMA CopyStep ==
  ASSUME HeapInv, NEW p \in FromObjects, RoomFor(p)
  PROVE  /\ ToSpaceAfter(p) \in Space
         /\ ToSpaceAfter(p).begin = to_space.begin
         /\ ToSpaceAfter(p).end = to_space.end
         /\ to_space.ptr <= ToSpaceAfter(p).ptr
         /\ ToSpaceAfter(p).ptr <= to_space.end
         /\ DOMAIN mem \subseteq DOMAIN MemAfter(p)
         /\ DOMAIN MemAfter(p) \subseteq Addresses
         /\ MemAfter(p) \in [DOMAIN MemAfter(p) -> Object]
         /\ Forward(p) \in DOMAIN MemAfter(p)
         /\ Contains(to_space, Forward(p))
         /\ MemAfter(p)[p].fwd = Forward(p)
         /\ \A a \in DOMAIN mem :
               /\ MemAfter(p)[a].type = mem[a].type
               /\ MemAfter(p)[a].fields = mem[a].fields
               /\ a # p => MemAfter(p)[a].fwd = mem[a].fwd
         /\ \A a \in DOMAIN MemAfter(p) \ DOMAIN mem :
               /\ a = to_space.ptr
               /\ Contains(to_space, a)
               /\ MemAfter(p)[a] = mem[p]
               /\ mem[p].fwd = NULL
               /\ a + WordsOf(mem[p]) = ToSpaceAfter(p).ptr
         /\ to_space.ptr \in DOMAIN MemAfter(p) \ DOMAIN mem \/ ToSpaceAfter(p) = to_space
<1> DEFINE n == to_space.ptr
<1>1. /\ DOMAIN mem \subseteq Addresses /\ mem \in [DOMAIN mem -> Object]
      /\ to_space \in Space /\ p \in DOMAIN mem /\ Contains(from_space, p)
  BY DEF HeapInv, TypeOK, FromObjects
<1>2. mem[p] \in Object /\ p \in Addresses
  BY <1>1
<1>3. mem[p].fwd \in {NULL} \cup ToObjects
  BY DEF HeapInv, FromInv
<1>4. /\ to_space.begin \in Nat /\ to_space.end \in Nat /\ n \in Nat
      /\ to_space.begin >= 1 /\ to_space.end <= 2 * SpaceWords + 1
      /\ to_space.begin <= n /\ n <= to_space.end
      /\ \A a \in Nat : ~(Contains(from_space, a) /\ Contains(to_space, a))
  BY SpacesApart DEF HeapInv, SpacesInv
<1>5. WordsOf(mem[p]) \in Nat /\ WordsOf(mem[p]) >= 2
  BY <1>2, WordsOfType
<1>6. SpaceWords \in Nat
  BY SpaceAssumption
<1>7. CASE mem[p].fwd # NULL
  <2>1. ~MustCopy(p)
    BY <1>7 DEF MustCopy
  <2>2. MemAfter(p) = mem /\ ToSpaceAfter(p) = to_space /\ Forward(p) = mem[p].fwd
    BY <2>1, <1>1, <1>7 DEF MemAfter, ToSpaceAfter, Forward
  <2>3. mem[p].fwd \in DOMAIN mem /\ Contains(to_space, mem[p].fwd)
    BY <1>3, <1>7 DEF ToObjects
  <2> QED
    BY <2>2, <2>3, <1>1, <1>4
<1>8. CASE mem[p].fwd = NULL
  <2> DEFINE w == WordsOf(mem[p])
             old == [mem EXCEPT ![p].fwd = n]
  <2>1. MustCopy(p) /\ n + w <= to_space.end
    BY <1>8, <1>1 DEF MustCopy, RoomFor, Fits
  <2>2. Contains(to_space, n) /\ n \in Addresses
    BY <2>1, <1>4, <1>5, <1>6 DEF Contains, Addresses
  <2>3. n \notin DOMAIN mem
    <3>1. SUFFICES ASSUME n \in DOMAIN mem PROVE FALSE
      OBVIOUS
    <3>2. n \in ToObjects
      BY <3>1, <2>2 DEF ToObjects
    <3>3. n + WordsOf(mem[n]) <= n
      BY <3>2 DEF HeapInv, LayoutInv
    <3>4. WordsOf(mem[n]) \in Nat /\ WordsOf(mem[n]) >= 2
      BY <3>1, <1>1, WordsOfType
    <3> QED
      BY <3>3, <3>4, <1>4
  <2>4. MemAfter(p) = Place(old, n, mem[p])
    BY <2>1 DEF MemAfter, Evacuated
  <2>5. /\ DOMAIN old = DOMAIN mem
        /\ \A a \in DOMAIN mem : a # p => old[a] = mem[a]
        /\ old[p] = [mem[p] EXCEPT !.fwd = n]
    BY <1>1
  <2>6. /\ old[p] \in Object /\ old[p].fwd = n
        /\ old[p].type = mem[p].type /\ old[p].fields = mem[p].fields
    BY <2>5, <1>2, <2>2 DEF Object
  <2>7. /\ DOMAIN MemAfter(p) = DOMAIN mem \cup {n}
        /\ MemAfter(p)[n] = mem[p]
        /\ \A a \in DOMAIN mem : MemAfter(p)[a] = old[a]
    BY <2>3, <2>4, <2>5 DEF Place
  <2>8. \A a \in DOMAIN MemAfter(p) : MemAfter(p)[a] \in Object
    BY <2>5, <2>6, <2>7, <1>1, <1>2
  <2>9. MemAfter(p) \in [DOMAIN MemAfter(p) -> Object]
    BY <2>8, <2>4 DEF Place
  <2>10. /\ ToSpaceAfter(p) \in Space
         /\ ToSpaceAfter(p).begin = to_space.begin
         /\ ToSpaceAfter(p).end = to_space.end
         /\ ToSpaceAfter(p).ptr = n + w
    BY <2>1, <1>1, <1>4, <1>5 DEF ToSpaceAfter, Bump, Space
  <2>11. Forward(p) = n
    BY <1>8, <1>1 DEF Forward
  <2> QED
    BY <2>1, <2>2, <2>3, <2>5, <2>6, <2>7, <2>9, <2>10, <2>11, <1>1, <1>4, <1>5, <1>8
<1> QED
  BY <1>7, <1>8

(* The parts of the invariant that do not depend on which slot was         *)
(* processed: m is the memory after CopyStep, up to the fields of objects  *)
(* of to_space.                                                            *)
LEMMA CopyKeepsObjects ==
  ASSUME HeapInv, Collecting, NEW p \in FromObjects, RoomFor(p),
         to_space' = ToSpaceAfter(p), UNCHANGED from_space,
         gc'.phase = gc.phase,
         DOMAIN mem' = DOMAIN MemAfter(p),
         mem' \in [DOMAIN mem' -> Object],
         \A a \in DOMAIN mem' :
            /\ mem'[a].type = MemAfter(p)[a].type
            /\ mem'[a].fwd = MemAfter(p)[a].fwd
            /\ DOMAIN mem'[a].fields = DOMAIN MemAfter(p)[a].fields
            /\ Len(mem'[a].fields) = Len(MemAfter(p)[a].fields),
         \A a \in FromObjects : mem'[a].fields = MemAfter(p)[a].fields,
         roots' # << >>
  PROVE  /\ FromObjects' = FromObjects
         /\ ToObjects \subseteq ToObjects'
         /\ Forward(p) \in ToObjects'
         /\ \A a \in ToObjects' \ ToObjects : a = to_space.ptr /\ MemAfter(p)[a] = mem[p]
         /\ SpacesInv'
         /\ LayoutInv'
         /\ FromInv'
<1> USE CopyStep
<1>1. /\ DOMAIN mem \subseteq Addresses /\ mem \in [DOMAIN mem -> Object]
      /\ to_space \in Space /\ p \in DOMAIN mem /\ Contains(from_space, p)
  BY DEF HeapInv, TypeOK, FromObjects
<1>2. \A a : /\ Contains(to_space', a) <=> Contains(to_space, a)
             /\ Contains(from_space', a) <=> Contains(from_space, a)
  BY DEF Contains
<1>3. \A a \in Addresses : ~(Contains(from_space, a) /\ Contains(to_space, a))
  BY SpacesApart DEF HeapInv, Addresses
<1>4. \A a \in DOMAIN mem' \ DOMAIN mem : a = to_space.ptr /\ Contains(to_space, a)
  OBVIOUS
<1>5. FromObjects' = FromObjects
  BY <1>1, <1>2, <1>3, <1>4 DEF FromObjects
<1>6. ToObjects \subseteq ToObjects' /\ Forward(p) \in ToObjects'
  BY <1>2 DEF ToObjects
<1>7. \A a \in ToObjects' \ ToObjects :
         /\ a \in DOMAIN mem' \ DOMAIN mem
         /\ a = to_space.ptr /\ MemAfter(p)[a] = mem[p]
         /\ mem[p].fwd = NULL
         /\ a + WordsOf(mem[p]) = ToSpaceAfter(p).ptr
  BY <1>2, <1>4 DEF ToObjects
<1>8. \A a \in DOMAIN mem : mem'[a].type = mem[a].type /\ WordsOf(mem'[a]) = WordsOf(mem[a])
  BY DEF WordsOf
<1>9. \A a \in ToObjects' \ ToObjects :
         /\ mem'[a].type = mem[p].type /\ mem'[a].fwd = NULL
         /\ Len(mem'[a].fields) = Len(mem[p].fields)
         /\ WordsOf(mem'[a]) = WordsOf(mem[p])
  BY <1>7 DEF WordsOf
<1>10. SpacesInv'
  <2>1. from_space' = from_space /\ gc'.phase # "out_of_memory" /\ Collecting'
    BY DEF Collecting
  <2>2. /\ to_space'.begin = to_space.begin /\ to_space'.end = to_space.end
        /\ to_space.ptr <= to_space'.ptr /\ to_space'.ptr <= to_space'.end
    OBVIOUS
  <2>3. /\ {from_space.begin, to_space.begin} = {1, SpaceWords + 1}
        /\ from_space.end = from_space.begin + SpaceWords
        /\ to_space.end = to_space.begin + SpaceWords
        /\ from_space.begin <= from_space.ptr /\ to_space.begin <= to_space.ptr
        /\ from_space.ptr <= from_space.end
    BY DEF HeapInv, SpacesInv, Collecting
  <2>4. to_space.begin <= to_space'.ptr
    BY <2>2, <2>3, SpaceAssumption DEF HeapInv, TypeOK, Space
  <2> QED
    BY <2>1, <2>2, <2>3, <2>4 DEF SpacesInv
<1>11. LayoutInv'
  <2>1. \A a \in FromObjects' : a + WordsOf(mem'[a]) <= from_space'.ptr
    BY <1>5, <1>8 DEF HeapInv, LayoutInv, FromObjects
  <2>2. ASSUME NEW a \in ToObjects'
        PROVE  /\ a + WordsOf(mem'[a]) <= to_space'.ptr
               /\ a + WordsOf(mem'[a]) \in ToObjects' \cup {to_space'.ptr}
               /\ \A b \in ToObjects' : a < b => a + WordsOf(mem'[a]) <= b
    <3>1. CASE a \in ToObjects
      <4>1. /\ a + WordsOf(mem[a]) <= to_space.ptr
            /\ a + WordsOf(mem[a]) \in ToObjects \cup {to_space.ptr}
            /\ \A b \in ToObjects : a < b => a + WordsOf(mem[a]) <= b
        BY <3>1 DEF HeapInv, LayoutInv
      <4>2. WordsOf(mem'[a]) = WordsOf(mem[a]) /\ WordsOf(mem[a]) \in Nat /\ a \in Nat
        BY <3>1, <1>1, <1>8, WordsOfType DEF ToObjects, Addresses
      <4>3. to_space.ptr \in ToObjects' \cup {to_space'.ptr}
        BY <1>2, <1>4 DEF ToObjects
      <4>4. to_space.ptr \in Nat /\ to_space'.ptr \in Nat
        BY <1>1 DEF Space
      <4>5. \A b \in ToObjects' : a < b => a + WordsOf(mem'[a]) <= b
        BY <4>1, <4>2, <1>7
      <4> QED
        BY <4>1, <4>2, <4>3, <4>4, <4>5, <1>6
    <3>2. CASE a \notin ToObjects
      <4>1. a + WordsOf(mem'[a]) = to_space'.ptr
        BY <3>2, <1>7, <1>9
      <4>2. to_space'.ptr \in Nat
        BY DEF Space
      <4>3. ASSUME NEW b \in ToObjects' PROVE ~(a < b)
        <5>1. CASE b \in ToObjects
          <6>1. b + WordsOf(mem[b]) <= to_space.ptr
            BY <5>1 DEF HeapInv, LayoutInv
          <6>2. WordsOf(mem[b]) \in Nat /\ b \in Nat /\ to_space.ptr \in Nat
            BY <5>1, <1>1, WordsOfType DEF ToObjects, Addresses, Space
          <6> QED
            BY <6>1, <6>2, <3>2, <1>7
        <5>2. CASE b \notin ToObjects
          <6>1. a = to_space.ptr /\ b = to_space.ptr /\ to_space.ptr \in Nat
            BY <5>2, <3>2, <1>1, <1>7 DEF Space
          <6> QED
            BY <6>1
        <5> QED
          BY <5>1, <5>2
      <4> QED
        BY <4>1, <4>2, <4>3
    <3> QED
      BY <3>1, <3>2
  <2>3. to_space'.begin \in ToObjects' \cup {to_space'.ptr}
    <3>1. to_space.begin \in ToObjects \cup {to_space.ptr}
      BY DEF HeapInv, LayoutInv
    <3>2. to_space.ptr \in ToObjects' \cup {to_space'.ptr}
      BY <1>2, <1>4 DEF ToObjects
    <3> QED
      BY <3>1, <3>2, <1>6
  <2>4. ASSUME NEW a \in DOMAIN mem', mem'[a].type \in {"Ref", "Array"}
        PROVE  Len(mem'[a].fields) = 1
    <3>1. CASE a \in DOMAIN mem
      BY <3>1, <2>4 DEF HeapInv, LayoutInv
    <3>2. CASE a \notin DOMAIN mem
      <4>1. a \in ToObjects' \ ToObjects
        BY <3>2, <1>2, <1>4 DEF ToObjects
      <4> QED
        BY <4>1, <1>9, <1>1, <2>4 DEF HeapInv, LayoutInv
    <3> QED
      BY <3>1, <3>2
  <2> QED
    BY <2>1, <2>2, <2>3, <2>4 DEF LayoutInv
<1>12. FromInv'
  <2>1. ASSUME NEW a \in FromObjects
        PROVE  /\ \A i \in DOMAIN mem'[a].fields : mem'[a].fields[i] \in FromObjects'
               /\ mem'[a].fwd \in {NULL} \cup ToObjects'
    <3>1. a \in DOMAIN mem /\ mem'[a].fields = mem[a].fields
      BY DEF FromObjects
    <3>2. \A i \in DOMAIN mem[a].fields : mem[a].fields[i] \in FromObjects
      BY DEF HeapInv, FromInv
    <3>3. mem[a].fwd \in {NULL} \cup ToObjects
      BY DEF HeapInv, FromInv
    <3>4. mem'[a].fwd \in {NULL} \cup ToObjects'
      BY <3>1, <3>3, <1>6, <1>1
    <3> QED
      BY <3>1, <3>2, <3>4, <1>5
  <2>2. ASSUME NEW a \in ToObjects' PROVE mem'[a].fwd = NULL
    <3>1. CASE a \in ToObjects
      <4>1. a \in DOMAIN mem /\ a # p
        BY <3>1, <1>1, <1>3 DEF ToObjects
      <4>2. mem[a].fwd = NULL
        BY <3>1 DEF HeapInv, FromInv
      <4> QED
        BY <4>1, <4>2
    <3>2. CASE a \notin ToObjects
      BY <3>2, <1>9
    <3> QED
      BY <3>1, <3>2
  <2> QED
    BY <2>1, <2>2, <1>5 DEF FromInv
<1> QED
  BY <1>5, <1>6, <1>7, <1>10, <1>11, <1>12

-----------------------------------------------------------------------------
(* Each step of the collector keeps the invariant. *)

(* Forwarding a root keeps HeapInv: the slot then points at the copy       *)
(* (gc_heap.hpp, process_ref over the roots).                              *)
LEMMA ProcessRootKeeps ==
  ASSUME HeapInv, ProcessRoot
  PROVE  HeapInv'
<1> DEFINE k == gc.next
           p == roots[k]
<1>1. /\ gc.phase = "roots" /\ Collecting /\ RoomFor(p)
      /\ roots \in Seq(Addresses) /\ k \in 1..Len(roots) /\ k \in Nat
      /\ gc \in Control
  BY DEF ProcessRoot, HeapInv, TypeOK, Collecting, Control
<1>2. /\ mem' = MemAfter(p) /\ to_space' = ToSpaceAfter(p) /\ from_space' = from_space
      /\ roots' = [roots EXCEPT ![k] = Forward(p)]
      /\ gc' = [gc EXCEPT !.next = k + 1]
  BY DEF ProcessRoot
<1>3. p \in FromObjects
  <2>1. ~RootDone(k)
    BY <1>1 DEF RootDone
  <2> QED
    BY <2>1, <1>1 DEF HeapInv, SlotsInv
<1>4. /\ mem' \in [DOMAIN mem' -> Object] /\ DOMAIN mem' \subseteq Addresses
      /\ to_space' \in Space /\ Forward(p) \in Addresses
      /\ to_space'.begin = to_space.begin
      /\ \A a \in DOMAIN mem : mem'[a].fields = mem[a].fields
  BY <1>1, <1>2, <1>3, CopyStep
<1>5. /\ roots' \in Seq(Addresses) /\ roots' # << >> /\ DOMAIN roots' = DOMAIN roots
      /\ roots'[k] = Forward(p)
      /\ \A i \in DOMAIN roots : i # k => roots'[i] = roots[i]
  BY <1>1, <1>2, <1>4
<1>6. gc'.phase = "roots" /\ gc'.next = k + 1 /\ gc'.scanned = gc.scanned
  BY <1>1, <1>2 DEF Control
<1>7. /\ FromObjects' = FromObjects /\ ToObjects \subseteq ToObjects'
      /\ Forward(p) \in ToObjects'
      /\ \A a \in ToObjects' \ ToObjects : a = to_space.ptr /\ mem'[a] = mem[p]
      /\ SpacesInv' /\ LayoutInv' /\ FromInv'
  BY <1>1, <1>2, <1>3, <1>4, <1>5, <1>6, CopyKeepsObjects
<1>8. TypeOK'
  <2>1. gc' \in Control
    BY <1>1, <1>2, ControlFields
  <2> QED
    BY <1>2, <1>4, <1>5, <2>1 DEF HeapInv, TypeOK
<1>9. SlotsInv'
  <2>1. ASSUME NEW i \in DOMAIN roots'
        PROVE  roots'[i] \in (IF RootDone(i)' THEN ToObjects' ELSE FromObjects')
    <3>1. i \in DOMAIN roots /\ i \in Nat
      BY <1>1, <1>5
    <3>2. roots[i] \in (IF i < k THEN ToObjects ELSE FromObjects)
      BY <3>1, <1>1 DEF HeapInv, SlotsInv, RootDone
    <3>3. RootDone(i)' <=> i < k + 1
      BY <1>6 DEF RootDone
    <3> QED
      BY <3>1, <3>2, <3>3, <1>1, <1>5, <1>7
  <2>2. ASSUME NEW a \in ToObjects', NEW i \in DOMAIN mem'[a].fields
        PROVE  ~FieldDone(a, i)' /\ mem'[a].fields[i] \in FromObjects'
    <3>1. ~FieldDone(a, i)'
      BY <1>6 DEF FieldDone
    <3>2. CASE a \in ToObjects
      <4>1. mem'[a].fields = mem[a].fields
        BY <3>2, <1>4 DEF ToObjects
      <4>2. mem[a].fields[i] \in (IF FieldDone(a, i) THEN ToObjects ELSE FromObjects)
        BY <3>2, <4>1 DEF HeapInv, SlotsInv
      <4>3. ~FieldDone(a, i)
        BY <1>1 DEF FieldDone
      <4> QED
        BY <3>1, <4>1, <4>2, <4>3, <1>7
    <3>3. CASE a \notin ToObjects
      <4>1. mem'[a] = mem[p]
        BY <3>3, <1>7
      <4> QED
        BY <3>1, <4>1, <1>3, <1>7 DEF HeapInv, FromInv
    <3> QED
      BY <3>1, <3>2, <3>3
  <2>3. gc'.scanned = to_space'.begin
    BY <1>1, <1>4, <1>6 DEF HeapInv, SlotsInv
  <2>4. gc'.scanned \in ToObjects' \cup {to_space'.ptr}
    BY <2>3, <1>7 DEF LayoutInv
  <2> QED
    BY <2>1, <2>2, <2>3, <2>4 DEF SlotsInv
<1> QED
  BY <1>7, <1>8, <1>9 DEF HeapInv

(* Going from the roots to the scan keeps HeapInv: every root has been     *)
(* through process_ref, no field has.                                      *)
LEMMA RootsDoneKeeps ==
  ASSUME HeapInv, RootsDone
  PROVE  HeapInv'
<1>1. /\ gc.phase = "roots" /\ gc.next > Len(roots) /\ roots \in Seq(Addresses)
      /\ gc \in Control
      /\ gc' = [gc EXCEPT !.phase = "scan", !.next = 1]
      /\ UNCHANGED <<mem, from_space, to_space, roots>>
  BY DEF RootsDone, HeapInv, TypeOK
<1>2. gc'.phase = "scan" /\ gc'.next = 1 /\ gc'.scanned = gc.scanned
  BY <1>1 DEF Control
<1>3. FromObjects' = FromObjects /\ ToObjects' = ToObjects
  BY <1>1 DEF FromObjects, ToObjects
<1>4. TypeOK'
  <2>1. gc' \in Control
    <3>1. "scan" \in Phases /\ 1 \in Nat \ {0}
      BY DEF Phases
    <3>2. [gc EXCEPT !.phase = "scan", !.next = 1] \in Control
      BY <1>1, <3>1, ControlFields
    <3> QED
      BY <1>1, <3>2
  <2>2. /\ mem' = mem /\ from_space' = from_space /\ to_space' = to_space /\ roots' = roots
    BY <1>1
  <2> QED
    BY <2>1, <2>2 DEF HeapInv, TypeOK
<1>5. SpacesInv' /\ LayoutInv' /\ FromInv'
  BY <1>1, <1>2, <1>3 DEF HeapInv, SpacesInv, LayoutInv, FromInv, Collecting
<1>6. SlotsInv'
  <2>1. ASSUME NEW i \in DOMAIN roots'
        PROVE  RootDone(i)' /\ roots'[i] \in ToObjects'
    <3>1. i \in 1..Len(roots) /\ i < gc.next
      BY <1>1 DEF Control
    <3> QED
      BY <3>1, <1>1, <1>2, <1>3 DEF HeapInv, SlotsInv, RootDone
  <2>2. ASSUME NEW a \in ToObjects', NEW i \in DOMAIN mem'[a].fields
        PROVE  ~FieldDone(a, i)' /\ mem'[a].fields[i] \in FromObjects'
    <3>1. mem[a].fields[i] \in FromObjects
      BY <1>1, <1>3 DEF HeapInv, SlotsInv, FieldDone
    <3>2. to_space.begin <= a /\ to_space.begin \in Nat /\ a \in Nat
      <4>1. a \in DOMAIN mem /\ to_space.begin <= a
        BY <1>3 DEF ToObjects, Contains
      <4> QED
        BY <4>1, SpacesApart DEF HeapInv, TypeOK, Addresses
    <3>3. gc'.scanned = to_space.begin
      BY <1>1, <1>2 DEF HeapInv, SlotsInv
    <3>4. i >= 1 /\ i \in Nat
      BY <1>1, <1>3, WordsOfType DEF HeapInv, TypeOK, ToObjects
    <3> QED
      BY <3>1, <3>2, <3>3, <3>4, <1>1, <1>2, <1>3 DEF FieldDone
  <2>3. gc'.scanned \in ToObjects' \cup {to_space'.ptr}
    BY <1>1, <1>2, <1>3 DEF HeapInv, SlotsInv, Collecting
  <2> QED
    BY <2>1, <2>2, <2>3, <1>2 DEF SlotsInv
<1> QED
  BY <1>4, <1>5, <1>6 DEF HeapInv

(* A function on 1..n is a list, for the types of the operands.            *)
LEMMA OperandList ==
  ASSUME NEW n \in Nat, NEW S, S \subseteq Addresses, NEW f \in [1..n -> S]
  PROVE  f \in Seq(Addresses) /\ Len(f) = n /\ \A i \in DOMAIN f : f[i] \in S
OBVIOUS

(* Updating an element of a list of addresses.                             *)
LEMMA FieldUpdate ==
  ASSUME NEW f \in Seq(Addresses), NEW k, NEW p \in Addresses
  PROVE  LET g == [f EXCEPT ![k] = p]
         IN  /\ g \in Seq(Addresses) /\ Len(g) = Len(f) /\ DOMAIN g = DOMAIN f
             /\ \A i \in DOMAIN f : g[i] = p \/ g[i] = f[i]
<1> DEFINE g == [f EXCEPT ![k] = p]
<1>1. Len(f) \in Nat /\ DOMAIN f = 1..Len(f) /\ \A i \in DOMAIN f : f[i] \in Addresses
  OBVIOUS
<1>2. DOMAIN g = 1..Len(f) /\ \A i \in DOMAIN f : g[i] = p \/ g[i] = f[i]
  BY <1>1
<1>3. g \in [1..Len(f) -> Addresses]
  BY <1>1, <1>2
<1>4. g \in Seq(Addresses) /\ Len(g) = Len(f)
  BY <1>1, <1>3, OperandList
<1> QED
  BY <1>1, <1>2, <1>4

(* What ScanField does: slot k of the object at s, in to_space, held the   *)
(* address p of an object of from_space; it gets that of its copy.         *)
LEMMA ScanFieldEffect ==
  ASSUME HeapInv, ScanField
  PROVE  LET s == gc.scanned
             k == gc.next
             p == mem[s].fields[k]
             M == MemAfter(p)
         IN  /\ gc.phase = "scan" /\ Collecting /\ RoomFor(p)
             /\ s < to_space.ptr /\ k \in Nat /\ s \in Nat
             /\ s \in ToObjects /\ s \in DOMAIN mem /\ s \notin FromObjects
             /\ k \in DOMAIN mem[s].fields /\ p \in FromObjects
             /\ DOMAIN mem' = DOMAIN M /\ mem' \in [DOMAIN mem' -> Object]
             /\ \A a \in DOMAIN M : a # s => mem'[a] = M[a]
             /\ mem'[s].type = M[s].type /\ mem'[s].fwd = M[s].fwd
             /\ DOMAIN mem'[s].fields = DOMAIN mem[s].fields
             /\ Len(mem'[s].fields) = Len(mem[s].fields)
             /\ mem'[s].fields[k] = Forward(p)
             /\ \A i \in DOMAIN mem[s].fields : i # k => mem'[s].fields[i] = mem[s].fields[i]
             /\ to_space' = ToSpaceAfter(p) /\ from_space' = from_space /\ roots' = roots
             /\ gc' = [gc EXCEPT !.next = k + 1] /\ gc' \in Control
             /\ gc'.phase = "scan" /\ gc'.next = k + 1 /\ gc'.scanned = s
<1> DEFINE s == gc.scanned
           k == gc.next
           p == mem[s].fields[k]
           M == MemAfter(p)
<1>1. /\ gc.phase = "scan" /\ Collecting /\ RoomFor(p)
      /\ s < to_space.ptr /\ k <= Len(mem[s].fields) /\ k \in Nat /\ k >= 1
      /\ gc \in Control /\ s \in Nat
      /\ mem \in [DOMAIN mem -> Object] /\ DOMAIN mem \subseteq Addresses
      /\ roots \in Seq(Addresses) /\ to_space \in Space
  BY DEF ScanField, Scanning, HeapInv, TypeOK, Collecting, Control
<1>2. /\ mem' = [M EXCEPT ![s].fields[k] = Forward(p)]
      /\ to_space' = ToSpaceAfter(p) /\ from_space' = from_space
      /\ roots' = roots
      /\ gc' = [gc EXCEPT !.next = k + 1]
  BY DEF ScanField
<1>3. s \in ToObjects /\ s \in DOMAIN mem /\ mem[s] \in Object
  <2>1. s \in ToObjects \cup {to_space.ptr} /\ to_space.ptr \in Nat
    BY <1>1 DEF HeapInv, SlotsInv, Space
  <2> QED
    BY <2>1, <1>1 DEF ToObjects
<1>4. /\ mem[s].fields \in Seq(Addresses) /\ Len(mem[s].fields) \in Nat
      /\ DOMAIN mem[s].fields = 1..Len(mem[s].fields)
      /\ k \in DOMAIN mem[s].fields
  BY <1>1, <1>3, WordsOfType DEF Object
<1>5. p \in FromObjects
  <2>1. ~FieldDone(s, k)
    BY <1>1 DEF FieldDone
  <2> QED
    BY <2>1, <1>3, <1>4 DEF HeapInv, SlotsInv
<1>6. /\ M \in [DOMAIN M -> Object] /\ DOMAIN M \subseteq Addresses
      /\ DOMAIN mem \subseteq DOMAIN M
      /\ to_space' \in Space /\ Forward(p) \in Addresses
      /\ to_space'.begin = to_space.begin /\ to_space.ptr <= to_space'.ptr
      /\ \A a \in DOMAIN mem : M[a].fields = mem[a].fields
  BY <1>1, <1>2, <1>5, CopyStep
<1>7. /\ DOMAIN mem' = DOMAIN M
      /\ mem'[s] = [M[s] EXCEPT !.fields = [mem[s].fields EXCEPT ![k] = Forward(p)]]
      /\ \A a \in DOMAIN M : a # s => mem'[a] = M[a]
  BY <1>2, <1>3, <1>6
<1>8. /\ mem'[s].fields = [mem[s].fields EXCEPT ![k] = Forward(p)]
      /\ mem'[s].type = M[s].type /\ mem'[s].fwd = M[s].fwd
      /\ mem'[s] \in Object
  <2>1. [mem[s].fields EXCEPT ![k] = Forward(p)] \in Seq(Addresses)
    BY <1>4, <1>6
  <2>2. M[s] \in Object
    BY <1>3, <1>6
  <2> HIDE DEF M, p
  <2> QED
    BY <2>1, <2>2, <1>7 DEF Object
<1>9. /\ DOMAIN mem'[s].fields = DOMAIN mem[s].fields
      /\ Len(mem'[s].fields) = Len(mem[s].fields)
      /\ mem'[s].fields[k] = Forward(p)
      /\ \A i \in DOMAIN mem[s].fields : i # k => mem'[s].fields[i] = mem[s].fields[i]
  <2> DEFINE f == mem[s].fields
             g == mem'[s].fields
             q == Forward(p)
  <2>1. f \in Seq(Addresses) /\ k \in DOMAIN f /\ q \in Addresses /\ g = [f EXCEPT ![k] = q]
    BY <1>4, <1>6, <1>8
  <2> HIDE DEF f, g, q, s, k
  <2>2. DOMAIN g = DOMAIN f /\ g[k] = q /\ \A i \in DOMAIN f : i # k => g[i] = f[i]
    BY <2>1
  <2>3. Len(g) = Len(f)
    BY <2>1, FieldUpdate
  <2> QED
    BY <2>2, <2>3 DEF f, g, q
<1>10. mem' \in [DOMAIN mem' -> Object]
  <2>1. \A a \in DOMAIN mem' : mem'[a] \in Object
    BY <1>6, <1>7, <1>8
  <2>2. mem' = [a \in DOMAIN mem' |-> mem'[a]]
    BY <1>2, <1>6
  <2> QED
    BY <2>1, <2>2
<1>11. gc'.phase = "scan" /\ gc'.next = k + 1 /\ gc'.scanned = s /\ gc' \in Control
  BY <1>1, <1>2 DEF Control
<1>12. \A a \in FromObjects : a # s /\ a \in DOMAIN mem
  BY <1>3, <1>1, SpacesApart DEF FromObjects, ToObjects, HeapInv, Addresses
<1> QED
  BY <1>1, <1>2, <1>3, <1>4, <1>5, <1>7, <1>8, <1>9, <1>10, <1>11, <1>12

(* Forwarding a field keeps HeapInv: the fields before it point into       *)
(* to_space, those after it into from_space.                               *)
LEMMA ScanFieldKeeps ==
  ASSUME HeapInv, ScanField
  PROVE  HeapInv'
<1> DEFINE s == gc.scanned
           k == gc.next
           p == mem[s].fields[k]
           M == MemAfter(p)
<1>1. /\ gc.phase = "scan" /\ Collecting /\ RoomFor(p)
      /\ s < to_space.ptr /\ k \in Nat /\ s \in Nat
      /\ s \in ToObjects /\ s \in DOMAIN mem /\ s \notin FromObjects
      /\ k \in DOMAIN mem[s].fields /\ p \in FromObjects
      /\ DOMAIN mem' = DOMAIN M /\ mem' \in [DOMAIN mem' -> Object]
      /\ \A a \in DOMAIN M : a # s => mem'[a] = M[a]
      /\ mem'[s].type = M[s].type /\ mem'[s].fwd = M[s].fwd
      /\ DOMAIN mem'[s].fields = DOMAIN mem[s].fields
      /\ Len(mem'[s].fields) = Len(mem[s].fields)
      /\ mem'[s].fields[k] = Forward(p)
      /\ \A i \in DOMAIN mem[s].fields : i # k => mem'[s].fields[i] = mem[s].fields[i]
      /\ to_space' = ToSpaceAfter(p) /\ from_space' = from_space /\ roots' = roots
      /\ gc' = [gc EXCEPT !.next = k + 1] /\ gc' \in Control
      /\ gc'.phase = "scan" /\ gc'.next = k + 1 /\ gc'.scanned = s
  BY ScanFieldEffect
<1>2. /\ M \in [DOMAIN M -> Object] /\ DOMAIN M \subseteq Addresses
      /\ DOMAIN mem \subseteq DOMAIN M
      /\ to_space' \in Space /\ Forward(p) \in Addresses
      /\ to_space'.begin = to_space.begin /\ to_space.ptr <= to_space'.ptr
      /\ \A a \in DOMAIN mem : M[a].fields = mem[a].fields
  BY <1>1, CopyStep
<1>3. /\ roots \in Seq(Addresses) /\ to_space \in Space /\ \A a \in FromObjects : a \in DOMAIN mem
  BY DEF HeapInv, TypeOK, FromObjects
<1>4. roots # << >>
  BY DEF HeapInv, FromInv
<1>5. /\ FromObjects' = FromObjects /\ ToObjects \subseteq ToObjects'
      /\ Forward(p) \in ToObjects'
      /\ \A a \in ToObjects' \ ToObjects : a = to_space.ptr /\ M[a] = mem[p]
      /\ SpacesInv' /\ LayoutInv' /\ FromInv'
  <2>1. \A a \in DOMAIN mem' :
            /\ mem'[a].type = M[a].type
            /\ mem'[a].fwd = M[a].fwd
            /\ DOMAIN mem'[a].fields = DOMAIN M[a].fields
            /\ Len(mem'[a].fields) = Len(M[a].fields)
    BY <1>1, <1>2
  <2>2. \A a \in FromObjects : mem'[a].fields = M[a].fields
    BY <1>2, <1>1, <1>3
  <2> HIDE DEF s, k, p, M
  <2>3. gc'.phase = gc.phase /\ roots' # << >>
    BY <1>1, <1>4
  <2> QED
    BY <1>1, <2>1, <2>2, <2>3, CopyKeepsObjects DEF M
<1>6. TypeOK'
  BY <1>1, <1>2 DEF HeapInv, TypeOK
<1>7. SlotsInv'
  <2>1. ASSUME NEW i \in DOMAIN roots'
        PROVE  RootDone(i)' /\ roots'[i] \in ToObjects'
    BY <1>1, <1>5 DEF HeapInv, SlotsInv, RootDone
  <2>2. ASSUME NEW a \in ToObjects', NEW i \in DOMAIN mem'[a].fields
        PROVE  mem'[a].fields[i] \in (IF FieldDone(a, i)' THEN ToObjects' ELSE FromObjects')
    <3>1. FieldDone(a, i)' <=> (a < s \/ (a = s /\ i < k + 1))
      BY <1>1 DEF FieldDone
    <3>2. \A b, j : FieldDone(b, j) <=> (b < s \/ (b = s /\ j < k))
      BY <1>1 DEF FieldDone
    <3>3. CASE a = s
      <4>1. i \in DOMAIN mem[s].fields /\ i \in Nat
        BY <3>3, <1>1
      <4>2. mem[s].fields[i] \in (IF i < k THEN ToObjects ELSE FromObjects)
        BY <4>1, <3>2, <1>1 DEF HeapInv, SlotsInv
      <4>3. CASE i = k
        <5>1. FieldDone(a, i)'
          <6>1. i < k + 1
            <7>1. k \in Nat
              BY <1>1
            <7> HIDE DEF k
            <7> QED
              BY <7>1, <4>3
          <6> QED
            BY <6>1, <3>1, <3>3
        <5>2. mem'[a].fields[i] = Forward(p)
          BY <4>3, <3>3, <1>1
        <5> QED
          BY <5>1, <5>2, <1>5
      <4>4. CASE i # k
        <5>1. mem'[a].fields[i] = mem[s].fields[i] /\ (FieldDone(a, i)' <=> i < k)
          BY <4>1, <4>4, <3>1, <3>3, <1>1
        <5> QED
          BY <5>1, <4>2, <1>5
      <4> QED
        BY <4>3, <4>4
    <3>4. CASE a # s /\ a \in ToObjects
      <4>1. mem'[a].fields = mem[a].fields
        BY <3>4, <1>2, <1>1 DEF ToObjects
      <4>2. mem[a].fields[i] \in (IF a < s THEN ToObjects ELSE FromObjects)
        BY <3>2, <3>4, <4>1 DEF HeapInv, SlotsInv
      <4> QED
        BY <3>1, <3>4, <4>1, <4>2, <1>5
    <3>5. CASE a \notin ToObjects
      <4>1. a = to_space.ptr /\ M[a] = mem[p] /\ a # s /\ a \in DOMAIN M
        BY <3>5, <1>1, <1>5 DEF ToObjects
      <4>2. mem'[a] = mem[p]
        BY <4>1, <1>1
      <4>3. ~(a < s)
        <5>1. to_space.ptr \in Nat /\ s \in Nat /\ s < to_space.ptr
          BY <1>1, <1>3 DEF Space
        <5> QED
          BY <5>1, <4>1
      <4> QED
        BY <3>1, <4>1, <4>2, <4>3, <1>1, <1>5 DEF HeapInv, FromInv
    <3> QED
      BY <3>3, <3>4, <3>5
  <2>3. gc'.scanned \in ToObjects'
    BY <1>1, <1>5
  <2> QED
    BY <2>1, <2>2, <2>3, <1>1 DEF SlotsInv
<1> QED
  BY <1>5, <1>6, <1>7 DEF HeapInv

(* Going to the next object of to_space keeps HeapInv: the objects lie end *)
(* to end, so scanned lands on one or on the allocation pointer.           *)
LEMMA ScanNextKeeps ==
  ASSUME HeapInv, ScanNext
  PROVE  HeapInv'
<1> DEFINE s == gc.scanned
           w == WordsOf(mem[s])
<1>1. /\ gc.phase = "scan" /\ s < to_space.ptr /\ gc.next > Len(mem[s].fields)
      /\ gc \in Control /\ s \in Nat /\ gc.next \in Nat
      /\ mem \in [DOMAIN mem -> Object] /\ DOMAIN mem \subseteq Addresses
      /\ roots \in Seq(Addresses) /\ to_space \in Space
      /\ gc' = [gc EXCEPT !.scanned = s + w, !.next = 1]
  BY DEF ScanNext, Scanning, HeapInv, TypeOK, Control
<1>2. /\ mem' = mem /\ from_space' = from_space /\ to_space' = to_space /\ roots' = roots
  BY DEF ScanNext
<1>3. s \in ToObjects /\ mem[s] \in Object
  <2>1. s \in ToObjects \cup {to_space.ptr} /\ to_space.ptr \in Nat
    BY <1>1 DEF HeapInv, SlotsInv, Collecting, Space
  <2> QED
    BY <2>1, <1>1 DEF ToObjects
<1>4. w \in Nat /\ w >= 2 /\ DOMAIN mem[s].fields = 1..Len(mem[s].fields)
      /\ Len(mem[s].fields) \in Nat
  BY <1>3, WordsOfType
<1>5. gc'.phase = "scan" /\ gc'.next = 1 /\ gc'.scanned = s + w /\ gc' \in Control
  <2>1. gc'.phase = "scan" /\ gc'.next = 1 /\ gc'.scanned = s + w
    BY <1>1 DEF Control
  <2>2. s + w \in Nat /\ 1 \in Nat \ {0}
    BY <1>1, <1>4
  <2>3. [gc EXCEPT !.scanned = s + w, !.next = 1] \in Control
    BY <2>2, <1>1, ControlFields
  <2> QED
    BY <2>1, <2>3, <1>1
<1>6. FromObjects' = FromObjects /\ ToObjects' = ToObjects
  BY <1>2 DEF FromObjects, ToObjects
<1>7. TypeOK'
  BY <1>2, <1>5 DEF HeapInv, TypeOK
<1>8. SpacesInv' /\ LayoutInv' /\ FromInv'
  BY <1>1, <1>2, <1>5, <1>6 DEF HeapInv, SpacesInv, LayoutInv, FromInv, Collecting
<1>9. SlotsInv'
  <2>1. ASSUME NEW i \in DOMAIN roots'
        PROVE  RootDone(i)' /\ roots'[i] \in ToObjects'
    BY <1>1, <1>2, <1>5, <1>6 DEF HeapInv, SlotsInv, RootDone
  <2>2. ASSUME NEW a \in ToObjects, NEW i \in DOMAIN mem[a].fields
        PROVE  FieldDone(a, i)' <=> FieldDone(a, i)
    <3>1. a \in Nat /\ i \in Nat /\ i >= 1 /\ i <= Len(mem[a].fields)
      BY <1>1, WordsOfType DEF ToObjects, Addresses
    <3>2. s < a => s + w <= a
      BY <1>3 DEF HeapInv, LayoutInv
    <3>3. FieldDone(a, i)' <=> (a < s + w \/ (a = s + w /\ i < 1))
      BY <1>5 DEF FieldDone
    <3>4. FieldDone(a, i) <=> (a < s \/ (a = s /\ i < gc.next))
      BY <1>1 DEF FieldDone
    <3> QED
      BY <3>1, <3>2, <3>3, <3>4, <1>1, <1>4
  <2>3. \A a \in ToObjects' : \A i \in DOMAIN mem'[a].fields :
          mem'[a].fields[i] \in (IF FieldDone(a, i)' THEN ToObjects' ELSE FromObjects')
    BY <2>2, <1>2, <1>6 DEF HeapInv, SlotsInv
  <2>4. gc'.scanned \in ToObjects' \cup {to_space'.ptr}
    BY <1>2, <1>3, <1>5, <1>6 DEF HeapInv, LayoutInv
  <2> QED
    BY <2>1, <2>3, <2>4, <1>5 DEF SlotsInv
<1> QED
  BY <1>7, <1>8, <1>9 DEF HeapInv

(* After the scan every slot of to_space points into to_space. *)
LEMMA ScanDoneSlots ==
  ASSUME HeapInv, ScanDone
  PROVE  /\ \A i \in DOMAIN roots : roots[i] \in ToObjects
         /\ \A a \in ToObjects : \A i \in DOMAIN mem[a].fields : mem[a].fields[i] \in ToObjects
<1>1. gc.phase = "scan" /\ gc.scanned = to_space.ptr /\ to_space.ptr \in Nat
  BY DEF ScanDone, HeapInv, TypeOK, Space
<1>2. ASSUME NEW a \in ToObjects PROVE a < gc.scanned
  <2>1. a \in DOMAIN mem /\ a \in Nat /\ mem[a] \in Object
    BY DEF ToObjects, HeapInv, TypeOK, Addresses
  <2>2. a + WordsOf(mem[a]) <= to_space.ptr
    BY DEF HeapInv, LayoutInv
  <2>3. WordsOf(mem[a]) \in Nat /\ WordsOf(mem[a]) >= 2
    BY <2>1, WordsOfType
  <2> QED
    BY <2>1, <2>2, <2>3, <1>1
<1> QED
  BY <1>1, <1>2 DEF HeapInv, SlotsInv, RootDone, FieldDone

-----------------------------------------------------------------------------
(* Between collections the invariant has a simpler form: all objects are   *)
(* in from_space, none is forwarded, and every pointer leads to one.       *)
QuietObject(a) ==
  /\ Contains(from_space, a)
  /\ a + WordsOf(mem[a]) <= from_space.ptr
  /\ mem[a].fwd = NULL
  /\ mem[a].type \in {"Ref", "Array"} => Len(mem[a].fields) = 1
  /\ \A i \in DOMAIN mem[a].fields : mem[a].fields[i] \in DOMAIN mem

(* HeapInv outside a collection, where it is simpler: one space holds      *)
(* every object, and no slot is half done.                                 *)
Quiet ==
  /\ TypeOK
  /\ SpacesInv
  /\ roots # << >>
  /\ \A i \in DOMAIN roots : roots[i] \in DOMAIN mem
  /\ \A a \in DOMAIN mem : QuietObject(a)

(* Outside a collection HeapInv and Quiet are the same.                    *)
LEMMA QuietIsHeapInv ==
  ~Collecting => (HeapInv <=> Quiet)
<1> SUFFICES ASSUME ~Collecting PROVE HeapInv <=> Quiet
  OBVIOUS
<1>1. ASSUME HeapInv PROVE Quiet
  <2>1. /\ DOMAIN mem \subseteq Addresses /\ mem \in [DOMAIN mem -> Object]
        /\ to_space.ptr = to_space.begin /\ to_space.begin \in Nat
    BY <1>1, SpacesApart DEF HeapInv, TypeOK, SpacesInv
  <2>2. ToObjects = {}
    <3> SUFFICES ASSUME NEW a \in ToObjects PROVE FALSE
      OBVIOUS
    <3>1. a \in DOMAIN mem /\ a \in Nat /\ a >= to_space.begin
      BY <2>1 DEF ToObjects, Contains, Addresses
    <3>2. a + WordsOf(mem[a]) <= to_space.ptr
      BY <1>1 DEF HeapInv, LayoutInv
    <3>3. WordsOf(mem[a]) \in Nat /\ WordsOf(mem[a]) >= 2
      BY <2>1, <3>1, WordsOfType
    <3> QED
      BY <2>1, <3>1, <3>2, <3>3
  <2>3. DOMAIN mem = FromObjects
    BY <1>1, <2>1, <2>2, SpacesApart DEF FromObjects, ToObjects, HeapInv
  <2>4. ASSUME NEW a \in DOMAIN mem PROVE QuietObject(a)
    BY <1>1, <2>2, <2>3 DEF QuietObject, HeapInv, LayoutInv, FromInv, FromObjects
  <2>5. \A i \in DOMAIN roots : roots[i] \in DOMAIN mem
    BY <1>1, <2>3 DEF HeapInv, SlotsInv, RootDone, Collecting
  <2> QED
    BY <1>1, <2>4, <2>5 DEF Quiet, HeapInv, FromInv
<1>2. ASSUME Quiet PROVE HeapInv
  <2>1. DOMAIN mem \subseteq Addresses /\ to_space.ptr = to_space.begin
    BY <1>2 DEF Quiet, TypeOK, SpacesInv
  <2>2. FromObjects = DOMAIN mem
    BY <1>2 DEF Quiet, QuietObject, FromObjects
  <2>3. ToObjects = {}
    BY <1>2, <2>1, SpacesApart DEF Quiet, QuietObject, ToObjects, Addresses
  <2>4. LayoutInv
    BY <1>2, <2>1, <2>2, <2>3 DEF Quiet, QuietObject, LayoutInv
  <2>5. FromInv
    BY <1>2, <2>2, <2>3 DEF Quiet, QuietObject, FromInv
  <2>6. SlotsInv
    BY <1>2, <2>2, <2>3 DEF Quiet, SlotsInv, RootDone, Collecting
  <2> QED
    BY <1>2, <2>4, <2>5, <2>6 DEF Quiet, HeapInv
<1> QED
  BY <1>1, <1>2

(* The same of the next state.                                             *)
LEMMA QuietIsHeapInvNext ==
  ~Collecting' => (HeapInv' <=> Quiet')
BY QuietIsHeapInv, PTL

(* The end of a collection: to_space, with every slot pointing into it, is *)
(* the new from_space, and the old one is empty.                           *)
LEMMA SwapKeeps ==
  ASSUME HeapInv, ScanDone
  PROVE  /\ Survivors \in [ToObjects -> Object]
         /\ \A a \in ToObjects :
               /\ Survivors[a] = mem[a] /\ a \in Addresses /\ a \in Nat
               /\ a >= to_space.begin /\ a + WordsOf(mem[a]) <= to_space.ptr
               /\ mem[a].fwd = NULL
               /\ \A i \in DOMAIN mem[a].fields : mem[a].fields[i] \in ToObjects
         /\ \A i \in DOMAIN roots : roots[i] \in ToObjects
         /\ roots \in Seq(Addresses) /\ roots # << >>
<1>1. mem \in [DOMAIN mem -> Object] /\ DOMAIN mem \subseteq Addresses /\ roots \in Seq(Addresses)
  BY DEF HeapInv, TypeOK
<1>2. ToObjects \subseteq DOMAIN mem /\ \A a \in ToObjects : a >= to_space.begin
  BY DEF ToObjects, Contains
<1>3. Survivors = [a \in ToObjects |-> mem[a]]
  BY DEF Survivors, Restrict
<1>4. \A a \in ToObjects : a + WordsOf(mem[a]) <= to_space.ptr /\ mem[a].fwd = NULL
  BY DEF HeapInv, LayoutInv, FromInv
<1>5. roots # << >>
  BY DEF HeapInv, FromInv
<1> QED
  BY <1>1, <1>2, <1>3, <1>4, <1>5, ScanDoneSlots DEF Addresses

(* A collection starts in a quiet heap with an empty to_space. *)
Starting ==
  /\ Quiet
  /\ gc.phase = "roots" /\ gc.next = 1 /\ gc.scanned = to_space.begin
  /\ to_space.ptr = to_space.begin

(* A heap on which a collection has just begun satisfies HeapInv: nothing  *)
(* has been through process_ref.                                           *)
LEMMA StartingHeapInv == Starting => HeapInv
<1> SUFFICES ASSUME Starting PROVE HeapInv
  OBVIOUS
<1>1. /\ DOMAIN mem \subseteq Addresses /\ to_space.ptr = to_space.begin /\ TypeOK /\ SpacesInv
      /\ roots \in Seq(Addresses)
  BY DEF Starting, Quiet, TypeOK
<1>2. FromObjects = DOMAIN mem
  BY DEF Starting, Quiet, QuietObject, FromObjects
<1>3. ToObjects = {}
  BY <1>1, SpacesApart DEF Starting, Quiet, QuietObject, ToObjects, Addresses
<1>4. LayoutInv
  BY <1>1, <1>2, <1>3 DEF Starting, Quiet, QuietObject, LayoutInv
<1>5. FromInv
  BY <1>2, <1>3 DEF Starting, Quiet, QuietObject, FromInv
<1>6. \A i \in DOMAIN roots : ~RootDone(i)
  BY <1>1 DEF Starting, RootDone
<1>7. SlotsInv
  BY <1>1, <1>2, <1>3, <1>6 DEF Starting, Quiet, SlotsInv
<1> QED
  BY <1>1, <1>4, <1>5, <1>7 DEF HeapInv

(* The same of the next state.                                             *)
LEMMA StartingHeapInvNext == Starting' => HeapInv'
BY StartingHeapInv, PTL

(* Entering collect() keeps HeapInv.                                       *)
LEMMA StartCollectionKeeps ==
  ASSUME HeapInv, gc.phase = "idle", NEW wanted \in {"nothing"} \cup Scalars,
         StartCollection(wanted)
  PROVE  HeapInv'
<1>1. ~Collecting /\ gc \in Control
  BY DEF Collecting, HeapInv, TypeOK
<1>2. Quiet
  BY <1>1, QuietIsHeapInv
<1>3. /\ mem' = mem /\ from_space' = from_space /\ to_space' = to_space /\ roots' = roots
      /\ gc' = [gc EXCEPT !.phase = "roots", !.next = 1, !.scanned = to_space.begin,
                          !.wanted = wanted]
  BY DEF StartCollection
<1>4. to_space.begin \in Nat /\ to_space.ptr = to_space.begin
  BY <1>1, SpacesApart DEF HeapInv, SpacesInv
<1>5. /\ gc'.phase = "roots" /\ gc'.next = 1 /\ gc'.scanned = to_space.begin
      /\ gc' \in Control
  <2>1. gc' = [phase |-> "roots", next |-> 1, scanned |-> to_space.begin, wanted |-> wanted,
               nested |-> gc.nested]
    BY <1>1, <1>3 DEF Control
  <2> QED
    BY <2>1, <1>1, <1>4 DEF Control, Phases
<1>6. SpacesInv'
  BY <1>2, <1>3, <1>4, <1>5, <1>1 DEF Quiet, SpacesInv, Collecting
<1>7. TypeOK'
  BY <1>2, <1>3, <1>5 DEF Quiet, TypeOK
<1>8. Starting'
  BY <1>2, <1>3, <1>4, <1>5, <1>6, <1>7 DEF Starting, Quiet, QuietObject
<1> QED
  BY <1>8, StartingHeapInvNext

(* What Finish does: the survivors and a new none, behind them, are all    *)
(* there is.                                                               *)
LEMMA FinishEffect ==
  ASSUME HeapInv, Finish
  PROVE  LET n == to_space.ptr
             none == NewObject("None", << >>)
         IN  /\ ScanDone /\ n + 2 <= to_space.end /\ n \in Nat /\ n \in Addresses
             /\ gc' \in Control /\ gc'.phase \in {"idle", "resume"} /\ gc'.nested = gc.nested
             /\ none \in Object /\ WordsOf(none) = 2 /\ none.fwd = NULL /\ none.type = "None"
             /\ none.fields = << >> /\ DOMAIN none.fields = {}
             /\ DOMAIN mem' = ToObjects \cup {n} /\ mem'[n] = none
             /\ \A a \in ToObjects : a # n /\ a < n /\ mem'[a] = mem[a]
             /\ mem' \in [DOMAIN mem' -> Object]
             /\ from_space' \in Space /\ from_space'.begin = to_space.begin
             /\ from_space'.end = to_space.end /\ from_space'.ptr = n + 2
             /\ to_space' \in Space /\ to_space'.begin = from_space.begin
             /\ to_space'.end = from_space.end /\ to_space'.ptr = from_space.begin
             /\ roots' = [roots EXCEPT ![1] = n]
<1> DEFINE n == to_space.ptr
           none == NewObject("None", << >>)
<1>1. /\ ScanDone /\ n + 2 <= to_space.end
      /\ mem' = Place(Survivors, n, none)
      /\ from_space' = Bump(to_space, 2)
      /\ to_space' = [from_space EXCEPT !.ptr = from_space.begin]
      /\ roots' = [roots EXCEPT ![1] = n]
      /\ gc' = [gc EXCEPT !.phase = IF gc.wanted = "nothing" THEN "idle" ELSE "resume"]
  BY DEF Finish, Fits, ObjectWords
<1>2. /\ from_space \in Space /\ to_space \in Space /\ gc \in Control
      /\ n \in Nat /\ n >= to_space.begin /\ to_space.begin >= 1
      /\ to_space.begin \in Nat /\ to_space.end \in Nat /\ to_space.end <= 2 * SpaceWords + 1
      /\ from_space.begin \in Nat
  BY SpacesApart DEF HeapInv, TypeOK, SpacesInv
<1>3. gc' \in Control /\ gc'.phase \in {"idle", "resume"} /\ gc'.nested = gc.nested
  <2>1. (IF gc.wanted = "nothing" THEN "idle" ELSE "resume") \in Phases
    BY DEF Phases
  <2> QED
    BY <2>1, <1>1, <1>2, ControlFields DEF Control
<1>4. none \in Object /\ WordsOf(none) = 2 /\ none.fwd = NULL /\ none.type = "None"
      /\ none.fields = << >> /\ DOMAIN none.fields = {}
  BY DEF NewObject, Object, Types, NULL, WordsOf, ObjectWords
<1>5. /\ DOMAIN mem' = ToObjects \cup {n} /\ mem'[n] = none
      /\ \A a \in ToObjects : a # n => mem'[a] = mem[a]
      /\ mem' \in [DOMAIN mem' -> Object]
  <2> HIDE DEF none
  <2> QED
    BY <1>1, <1>4, SwapKeeps DEF Place
<1>6. n \in Addresses
  BY <1>1, <1>2, SpaceAssumption DEF Addresses
<1>7. /\ from_space' \in Space /\ from_space'.begin = to_space.begin
      /\ from_space'.end = to_space.end /\ from_space'.ptr = n + 2
      /\ to_space' \in Space /\ to_space'.begin = from_space.begin
      /\ to_space'.end = from_space.end /\ to_space'.ptr = from_space.begin
  BY <1>1, <1>2 DEF Bump, Space
<1>8. ASSUME NEW a \in ToObjects PROVE a # n /\ a < n
  <2>1. mem[a] \in Object
    BY DEF ToObjects, HeapInv, TypeOK
  <2>2. WordsOf(mem[a]) \in Nat /\ WordsOf(mem[a]) >= 2
    BY <2>1, WordsOfType
  <2> QED
    BY <2>2, <1>1, <1>2, SwapKeeps
<1> HIDE DEF none
<1> QED
  BY <1>1, <1>2, <1>3, <1>4, <1>5, <1>6, <1>7, <1>8 DEF none

(* The swap, with the new none, keeps HeapInv: what is left of the arena   *)
(* is to_space, and every slot points into it.                             *)
LEMMA FinishKeeps ==
  ASSUME HeapInv, Finish
  PROVE  HeapInv'
<1> DEFINE n == to_space.ptr
           none == NewObject("None", << >>)
<1>1. /\ ScanDone /\ n + 2 <= to_space.end /\ n \in Nat /\ n \in Addresses
      /\ gc' \in Control /\ gc'.phase \in {"idle", "resume"} /\ gc'.nested = gc.nested
      /\ none \in Object /\ WordsOf(none) = 2 /\ none.fwd = NULL /\ none.type = "None"
      /\ none.fields = << >> /\ DOMAIN none.fields = {}
      /\ DOMAIN mem' = ToObjects \cup {n} /\ mem'[n] = none
      /\ \A a \in ToObjects : a # n /\ a < n /\ mem'[a] = mem[a]
      /\ mem' \in [DOMAIN mem' -> Object]
      /\ from_space' \in Space /\ from_space'.begin = to_space.begin
      /\ from_space'.end = to_space.end /\ from_space'.ptr = n + 2
      /\ to_space' \in Space /\ to_space'.begin = from_space.begin
      /\ to_space'.end = from_space.end /\ to_space'.ptr = from_space.begin
      /\ roots' = [roots EXCEPT ![1] = n]
  BY FinishEffect
<1>2. /\ from_space \in Space /\ to_space \in Space /\ gc \in Control
      /\ n \in Nat /\ n >= to_space.begin /\ to_space.begin >= 1
      /\ to_space.begin \in Nat /\ to_space.end \in Nat /\ to_space.end <= 2 * SpaceWords + 1
      /\ from_space.begin \in Nat
  BY SpacesApart DEF HeapInv, TypeOK, SpacesInv
<1>3. roots' \in Seq(Addresses) /\ roots' # << >> /\ \A i \in DOMAIN roots' : roots'[i] \in DOMAIN mem'
  <2>1. roots \in Seq(Addresses) /\ roots # << >> /\ \A i \in DOMAIN roots : roots[i] \in ToObjects
    BY <1>1, SwapKeeps
  <2> HIDE DEF n
  <2> QED
    BY <2>1, <1>1
<1>4. TypeOK'
  <2>1. DOMAIN mem' \subseteq Addresses
    BY <1>1, SwapKeeps
  <2> QED
    BY <2>1, <1>1, <1>3 DEF TypeOK
<1>5. SpacesInv'
  <2>1. /\ {from_space.begin, to_space.begin} = {1, SpaceWords + 1}
        /\ from_space.end = from_space.begin + SpaceWords
        /\ to_space.end = to_space.begin + SpaceWords
    BY DEF HeapInv, SpacesInv
  <2>2. from_space'.ptr <= from_space'.end /\ from_space'.begin <= from_space'.ptr
    BY <1>1, <1>2
  <2>3. to_space'.ptr <= to_space'.end /\ to_space'.begin <= to_space'.ptr
    BY <2>1, <1>2, <1>1, SpaceAssumption
  <2> QED
    BY <2>1, <2>2, <2>3, <1>1 DEF SpacesInv
<1>6. ASSUME NEW a \in DOMAIN mem' PROVE QuietObject(a)'
  <2>1. CASE a = n
    BY <2>1, <1>1, <1>2 DEF QuietObject, Contains
  <2>2. CASE a # n
    <3>1. a \in ToObjects /\ mem'[a] = mem[a] /\ a \in DOMAIN mem
      BY <2>2, <1>1 DEF ToObjects
    <3>2. a + WordsOf(mem[a]) <= from_space'.ptr
      <4>1. WordsOf(mem[a]) \in Nat
        BY <3>1, WordsOfType DEF HeapInv, TypeOK
      <4> QED
        BY <4>1, <3>1, <1>1, <1>2, SwapKeeps
    <3>3. Contains(from_space', a)
      BY <3>1, <1>1 DEF ToObjects, Contains
    <3>4. mem[a].type \in {"Ref", "Array"} => Len(mem[a].fields) = 1
      BY <3>1 DEF HeapInv, LayoutInv
    <3> QED
      BY <3>1, <3>2, <3>3, <3>4, <1>1, SwapKeeps DEF QuietObject
  <2> QED
    BY <2>1, <2>2
<1>7. Quiet'
  BY <1>3, <1>4, <1>5, <1>6 DEF Quiet
<1> QED
  BY <1>1, <1>7, QuietIsHeapInvNext DEF Collecting

(* The swap that finds no room for a none, and collects again, keeps       *)
(* HeapInv.                                                                *)
LEMMA FinishCollectsAgainKeeps ==
  ASSUME HeapInv, FinishCollectsAgain
  PROVE  HeapInv'
<1>1. /\ ScanDone
      /\ mem' = Survivors
      /\ from_space' = to_space
      /\ to_space' = [from_space EXCEPT !.ptr = from_space.begin]
      /\ roots' = roots
      /\ gc' = [gc EXCEPT !.phase = "roots", !.next = 1, !.scanned = from_space.begin,
                          !.nested = TRUE]
  BY DEF FinishCollectsAgain
<1>2. /\ from_space \in Space /\ to_space \in Space /\ gc \in Control
      /\ to_space.begin \in Nat /\ from_space.begin \in Nat
      /\ to_space.ptr \in Nat /\ to_space.end \in Nat
      /\ to_space.begin <= to_space.ptr /\ to_space.ptr <= to_space.end
  BY SpacesApart DEF HeapInv, TypeOK, SpacesInv
<1>3. /\ gc'.phase = "roots" /\ gc'.next = 1 /\ gc'.scanned = from_space.begin
      /\ gc' \in Control
  <2>1. gc' = [phase |-> "roots", next |-> 1, scanned |-> from_space.begin,
               wanted |-> gc.wanted, nested |-> TRUE]
    BY <1>1, <1>2 DEF Control
  <2> QED
    BY <2>1, <1>2 DEF Control, Phases
<1>4. DOMAIN mem' = ToObjects /\ mem' \in [DOMAIN mem' -> Object]
      /\ \A a \in ToObjects : mem'[a] = mem[a]
  BY <1>1, SwapKeeps
<1>5. /\ to_space' \in Space /\ to_space'.begin = from_space.begin
      /\ to_space'.end = from_space.end /\ to_space'.ptr = from_space.begin
  BY <1>1, <1>2 DEF Space
<1>6. TypeOK'
  <2>1. DOMAIN mem' \subseteq Addresses /\ roots' \in Seq(Addresses)
    BY <1>1, <1>4, SwapKeeps
  <2> QED
    BY <2>1, <1>1, <1>2, <1>3, <1>4, <1>5 DEF TypeOK
<1>7. SpacesInv'
  <2>1. /\ {from_space.begin, to_space.begin} = {1, SpaceWords + 1}
        /\ from_space.end = from_space.begin + SpaceWords
        /\ to_space.end = to_space.begin + SpaceWords
    BY DEF HeapInv, SpacesInv
  <2>2. to_space'.ptr <= to_space'.end /\ to_space'.begin <= to_space'.ptr
    BY <2>1, <1>2, <1>5, SpaceAssumption
  <2> QED
    BY <2>1, <2>2, <1>1, <1>2, <1>5 DEF SpacesInv
<1>8. ASSUME NEW a \in DOMAIN mem' PROVE QuietObject(a)'
  <2>1. a \in ToObjects /\ mem'[a] = mem[a] /\ a \in DOMAIN mem
    BY <1>4 DEF ToObjects
  <2>2. Contains(from_space', a) /\ a + WordsOf(mem[a]) <= from_space'.ptr
    BY <2>1, <1>1, SwapKeeps DEF ToObjects
  <2>3. mem[a].type \in {"Ref", "Array"} => Len(mem[a].fields) = 1
    BY <2>1 DEF HeapInv, LayoutInv
  <2> QED
    BY <2>1, <2>2, <2>3, <1>1, <1>4, SwapKeeps DEF QuietObject
<1>9. \A i \in DOMAIN roots' : roots'[i] \in DOMAIN mem'
  BY <1>1, <1>4, SwapKeeps
<1>10. Starting'
  BY <1>1, <1>3, <1>5, <1>6, <1>7, <1>8, <1>9, SwapKeeps DEF Starting, Quiet
<1> QED
  BY <1>10, StartingHeapInvNext

-----------------------------------------------------------------------------
(* Each step of the program keeps the invariant. *)

(* New objects from the allocation pointer on, and pointers to objects     *)
(* only, wherever a step writes one.                                       *)
LEMMA QuietStep ==
  ASSUME Quiet, NEW words \in Nat, from_space.ptr + words <= from_space.end,
         from_space' = Bump(from_space, words), to_space' = to_space,
         to_space.ptr = to_space.begin,
         gc'.phase \in {"idle", "resume"}, gc' \in Control,
         mem' \in [DOMAIN mem' -> Object], DOMAIN mem \subseteq DOMAIN mem',
         \A a \in DOMAIN mem :
            /\ mem'[a].type = mem[a].type /\ mem'[a].fwd = mem[a].fwd
            /\ Len(mem'[a].fields) = Len(mem[a].fields),
         \A a \in DOMAIN mem' \ DOMAIN mem :
            /\ a \in Nat /\ from_space.ptr <= a
            /\ a + WordsOf(mem'[a]) <= from_space.ptr + words
            /\ mem'[a].fwd = NULL
            /\ mem'[a].type \in {"Ref", "Array"} => Len(mem'[a].fields) = 1,
         \A a \in DOMAIN mem' : \A i \in DOMAIN mem'[a].fields : mem'[a].fields[i] \in DOMAIN mem',
         roots' \in Seq(Addresses), roots' # << >>,
         \A i \in DOMAIN roots' : roots'[i] \in DOMAIN mem'
  PROVE  HeapInv'
<1>1. /\ from_space \in Space /\ from_space.ptr \in Nat /\ from_space.begin \in Nat
      /\ from_space.end \in Nat /\ from_space.begin <= from_space.ptr
      /\ from_space.end <= 2 * SpaceWords + 1 /\ from_space.begin >= 1
      /\ to_space \in Space /\ mem \in [DOMAIN mem -> Object] /\ DOMAIN mem \subseteq Addresses
  BY SpacesApart DEF Quiet, TypeOK, SpacesInv
<1>2. /\ from_space' \in Space /\ from_space'.begin = from_space.begin
      /\ from_space'.end = from_space.end /\ from_space'.ptr = from_space.ptr + words
  BY <1>1 DEF Bump, Space
<1>3. ASSUME NEW a \in DOMAIN mem' PROVE a \in Addresses /\ QuietObject(a)'
  <2>1. CASE a \in DOMAIN mem
    <3>1. WordsOf(mem'[a]) = WordsOf(mem[a]) /\ WordsOf(mem[a]) \in Nat /\ a \in Nat
      BY <2>1, <1>1, WordsOfType DEF WordsOf, Addresses
    <3>2. QuietObject(a)
      BY <2>1 DEF Quiet
    <3>3. a + WordsOf(mem'[a]) <= from_space'.ptr
      BY <3>1, <3>2, <1>1, <1>2 DEF QuietObject
    <3>4. Contains(from_space', a)
      BY <3>2, <1>2 DEF QuietObject, Contains
    <3> QED
      BY <2>1, <3>2, <3>3, <3>4, <1>1 DEF QuietObject
  <2>2. CASE a \notin DOMAIN mem
    <3>1. WordsOf(mem'[a]) \in Nat /\ WordsOf(mem'[a]) >= 2
      BY WordsOfType
    <3>2. a \in Nat /\ from_space.ptr <= a /\ a + WordsOf(mem'[a]) <= from_space.ptr + words
      BY <2>2
    <3>3. a < from_space.end
      BY <3>1, <3>2, <1>1
    <3>4. Contains(from_space', a) /\ a \in Addresses
      BY <3>2, <3>3, <1>1, <1>2, SpaceAssumption DEF Contains, Addresses
    <3> QED
      BY <2>2, <3>2, <3>4, <1>2 DEF QuietObject
  <2> QED
    BY <2>1, <2>2
<1>4. TypeOK'
  BY <1>1, <1>2, <1>3 DEF TypeOK
<1>5. SpacesInv'
  <2>1. /\ {from_space.begin, to_space.begin} = {1, SpaceWords + 1}
        /\ from_space.end = from_space.begin + SpaceWords
        /\ to_space.end = to_space.begin + SpaceWords
        /\ to_space.begin <= to_space.ptr /\ to_space.ptr <= to_space.end
    BY DEF Quiet, SpacesInv
  <2>2. from_space'.ptr <= from_space'.end /\ from_space'.begin <= from_space'.ptr
    BY <1>1, <1>2
  <2> QED
    BY <2>1, <2>2, <1>2 DEF SpacesInv
<1>6. Quiet'
  BY <1>3, <1>4, <1>5 DEF Quiet
<1> QED
  BY <1>6, QuietIsHeapInvNext DEF Collecting

(* The program can only name objects. *)
LEMMA HeldObjects ==
  ASSUME Quiet
  PROVE  /\ Held \subseteq DOMAIN mem
         /\ HeldRefs \subseteq DOMAIN mem
<1>1. Range(roots) \subseteq DOMAIN mem
  BY DEF Quiet, Range
<1>2. ASSUME NEW p \in DOMAIN mem PROVE Elements(p) \subseteq DOMAIN mem
  <2>1. QuietObject(p) /\ mem[p] \in Object
    BY DEF Quiet, TypeOK
  <2>2. CASE mem[p].type = "Array"
    <3>1. 1 \in DOMAIN mem[p].fields
      BY <2>1, <2>2, WordsOfType DEF QuietObject
    <3>2. mem[p].fields[1] \in DOMAIN mem
      BY <2>1, <3>1 DEF QuietObject
    <3>3. QuietObject(mem[p].fields[1])
      BY <3>2 DEF Quiet
    <3> QED
      BY <2>2, <3>3 DEF Elements, Range, QuietObject
  <2>3. CASE mem[p].type # "Array"
    BY <2>1, <2>3 DEF Elements, Range, QuietObject
  <2> QED
    BY <2>2, <2>3
<1>3. Held \subseteq DOMAIN mem
  BY <1>1, <1>2 DEF Held
<1> QED
  BY <1>3 DEF HeldRefs

(* The operands of an allocation are pointers to objects.                  *)
LEMMA OperandsObjects ==
  ASSUME Quiet, NEW type, NEW fields \in Operands(type)
  PROVE  /\ fields \in Seq(Addresses)
         /\ \A i \in DOMAIN fields : fields[i] \in DOMAIN mem
         /\ type = "Ref" => Len(fields) = 1
<1>1. DOMAIN mem \subseteq Addresses /\ Held \subseteq DOMAIN mem /\ HeldRefs \subseteq DOMAIN mem
  BY HeldObjects DEF Quiet, TypeOK
<1>2. CASE type = "Ref"
  <2>1. fields \in [1..1 -> Held]
    BY <1>2 DEF Operands
  <2> QED
    BY <2>1, <1>1, OperandList
<1>3. CASE type # "Ref"
  <2>1. PICK n \in 0..MaxElements : fields \in [1..n -> HeldRefs]
    BY <1>3 DEF Operands
  <2>2. n \in Nat
    BY <2>1, BoundsAssumption
  <2> QED
    BY <2>1, <2>2, <1>1, <1>3
<1> QED
  BY <1>2, <1>3

(* What an allocation that fits does: the object lies where nothing was.   *)
LEMMA AllocatedEffect ==
  ASSUME Quiet, NEW type \in Types, NEW fields \in Seq(Addresses), Allocated(type, fields)
  PROVE  LET n == from_space.ptr
             obj == NewObject(type, fields)
             w == ObjectWords(type, Len(fields))
         IN  /\ n + w <= from_space.end /\ from_space' = Bump(from_space, w)
             /\ to_space' = to_space /\ roots' = Append(roots, n)
             /\ obj \in Object /\ obj.type = type /\ obj.fields = fields
             /\ obj.fwd = NULL /\ WordsOf(obj) = w /\ w \in Nat /\ w >= 2
             /\ n \in Addresses /\ n \in Nat /\ n \notin DOMAIN mem
             /\ DOMAIN mem' = DOMAIN mem \cup {n} /\ mem'[n] = obj
             /\ \A a \in DOMAIN mem : mem'[a] = mem[a]
             /\ mem' \in [DOMAIN mem' -> Object]
<1> DEFINE n == from_space.ptr
           obj == NewObject(type, fields)
           w == ObjectWords(type, Len(fields))
<1>1. /\ n + w <= from_space.end /\ mem' = Place(mem, n, obj)
      /\ from_space' = Bump(from_space, w) /\ roots' = Append(roots, n)
      /\ to_space' = to_space
  BY DEF Allocated, Fits
<1>2. /\ obj \in Object /\ obj.type = type /\ obj.fields = fields /\ obj.fwd = NULL
      /\ WordsOf(obj) = w
  BY DEF NewObject, Object, WordsOf, NULL
<1>3. w \in Nat /\ w >= 2
  BY WordsOfAnObject
<1>4. /\ n \in Nat /\ from_space.begin <= n /\ from_space.begin >= 1
      /\ from_space.end <= 2 * SpaceWords + 1 /\ from_space.end \in Nat
      /\ from_space.begin \in Nat
  BY SpacesApart DEF Quiet, SpacesInv
<1>5. n \in Addresses
  BY <1>1, <1>3, <1>4, SpaceAssumption DEF Addresses
<1>6. n \notin DOMAIN mem
  <2> SUFFICES ASSUME n \in DOMAIN mem PROVE FALSE
    OBVIOUS
  <2>1. n + WordsOf(mem[n]) <= n
    BY DEF Quiet, QuietObject
  <2>2. WordsOf(mem[n]) \in Nat /\ WordsOf(mem[n]) >= 2
    BY WordsOfType DEF Quiet, TypeOK
  <2> QED
    BY <2>1, <2>2, <1>4
<1>7. /\ mem \in [DOMAIN mem -> Object] /\ roots \in Seq(Addresses) /\ roots # << >>
  BY DEF Quiet, TypeOK
<1>8. /\ DOMAIN mem' = DOMAIN mem \cup {n} /\ mem'[n] = obj
      /\ \A a \in DOMAIN mem : mem'[a] = mem[a]
      /\ mem' \in [DOMAIN mem' -> Object]
  <2> HIDE DEF n, obj
  <2> QED
    BY <1>1, <1>2, <1>6, <1>7 DEF Place
<1> QED
  BY <1>1, <1>2, <1>3, <1>4, <1>5, <1>6, <1>8

(* What the memory and the roots hold after an allocation.                 *)
LEMMA AllocatedAdds ==
  ASSUME Quiet, NEW type \in Types, NEW fields \in Seq(Addresses), Allocated(type, fields)
  PROVE  LET n == from_space.ptr
         IN  /\ n \in Addresses /\ n \notin DOMAIN mem
             /\ DOMAIN mem' = DOMAIN mem \cup {n}
             /\ mem'[n].type = type /\ mem'[n].fields = fields
             /\ \A a \in DOMAIN mem : mem'[a] = mem[a]
             /\ roots' = Append(roots, n)
<1> DEFINE n == from_space.ptr
           obj == NewObject(type, fields)
<1>1. n \in Addresses /\ n \notin DOMAIN mem
  BY AllocatedEffect
<1>2. DOMAIN mem' = DOMAIN mem \cup {n} /\ \A a \in DOMAIN mem : mem'[a] = mem[a]
  BY AllocatedEffect
<1>3. mem'[n] = obj /\ obj.type = type /\ obj.fields = fields
  BY AllocatedEffect
<1>4. roots' = Append(roots, n)
  BY DEF Allocated
<1> HIDE DEF n, obj
<1> QED
  BY <1>1, <1>2, <1>3, <1>4 DEF n

(* A bump allocation whose operands are objects keeps HeapInv.             *)
LEMMA AllocatedKeeps ==
  ASSUME Quiet, to_space.ptr = to_space.begin,
         NEW type \in Types, NEW fields \in Seq(Addresses),
         \A i \in DOMAIN fields : fields[i] \in DOMAIN mem,
         type \in {"Ref", "Array"} => Len(fields) = 1,
         Allocated(type, fields),
         gc'.phase \in {"idle", "resume"}, gc' \in Control
  PROVE  HeapInv'
<1> DEFINE n == from_space.ptr
           obj == NewObject(type, fields)
           w == ObjectWords(type, Len(fields))
<1>1. /\ n + w <= from_space.end /\ from_space' = Bump(from_space, w)
      /\ to_space' = to_space /\ roots' = Append(roots, n)
      /\ obj \in Object /\ obj.type = type /\ obj.fields = fields
      /\ obj.fwd = NULL /\ WordsOf(obj) = w /\ w \in Nat /\ w >= 2
      /\ n \in Addresses /\ n \in Nat /\ n \notin DOMAIN mem
      /\ DOMAIN mem' = DOMAIN mem \cup {n} /\ mem'[n] = obj
      /\ \A a \in DOMAIN mem : mem'[a] = mem[a]
      /\ mem' \in [DOMAIN mem' -> Object]
  BY AllocatedEffect
<1>2. /\ roots \in Seq(Addresses) /\ roots # << >>
      /\ \A i \in DOMAIN roots : roots[i] \in DOMAIN mem
      /\ \A a \in DOMAIN mem : \A i \in DOMAIN mem[a].fields : mem[a].fields[i] \in DOMAIN mem
  BY DEF Quiet, TypeOK, QuietObject
<1>3. /\ roots' \in Seq(Addresses) /\ roots' # << >>
      /\ \A i \in DOMAIN roots' : roots'[i] \in DOMAIN mem'
  <2> HIDE DEF n
  <2>1. /\ roots' \in Seq(Addresses) /\ Len(roots') = Len(roots) + 1 /\ Len(roots) \in Nat
        /\ DOMAIN roots' = 1..Len(roots) + 1 /\ DOMAIN roots = 1..Len(roots)
        /\ \A i \in 1..Len(roots) : roots'[i] = roots[i]
        /\ roots'[Len(roots) + 1] = n
    BY <1>1, <1>2
  <2> QED
    BY <2>1, <1>2, <1>1
<1>4. \A a \in DOMAIN mem' : \A i \in DOMAIN mem'[a].fields : mem'[a].fields[i] \in DOMAIN mem'
  BY <1>1, <1>2
<1>5. \A a \in DOMAIN mem :
         /\ mem'[a].type = mem[a].type /\ mem'[a].fwd = mem[a].fwd
         /\ Len(mem'[a].fields) = Len(mem[a].fields)
  BY <1>1
<1>6. \A a \in DOMAIN mem' \ DOMAIN mem :
         /\ a \in Nat /\ from_space.ptr <= a
         /\ a + WordsOf(mem'[a]) <= from_space.ptr + w
         /\ mem'[a].fwd = NULL
         /\ mem'[a].type \in {"Ref", "Array"} => Len(mem'[a].fields) = 1
  <2> HIDE DEF obj, w
  <2> QED
    BY <1>1
<1> HIDE DEF obj, w
<1> QED
  BY <1>1, <1>3, <1>4, <1>5, <1>6, QuietStep

(* When the program runs, or an allocation is resumed, the heap is quiet   *)
(* and to_space is empty.                                                  *)
LEMMA IdleIsQuiet ==
  ASSUME HeapInv, ~Collecting
  PROVE  Quiet /\ to_space.ptr = to_space.begin /\ gc \in Control
BY QuietIsHeapInv DEF HeapInv, SpacesInv, TypeOK

(* Creating an object without pointers keeps HeapInv.                      *)
LEMMA MakeScalarKeeps ==
  ASSUME HeapInv, NEW type \in Scalars, MakeScalar(type)
  PROVE  HeapInv'
<1>1. Allocated(type, << >>) /\ gc' = gc /\ gc.phase = "idle" /\ ~Collecting
  BY DEF MakeScalar, MayPush, Collecting
<1>2. type \in Types /\ type \notin {"Ref", "Array"}
  BY TypesAssumption DEF Types
<1>3. << >> \in Seq(Addresses) /\ DOMAIN << >> = {}
  OBVIOUS
<1> QED
  BY <1>1, <1>2, <1>3, IdleIsQuiet, AllocatedKeeps

(* Creating a Ref, a tuple or a closure keeps HeapInv.                     *)
LEMMA MakeKeeps ==
  ASSUME HeapInv, NEW type \in Aggregates \ {"Array"}, NEW fields \in Operands(type),
         Make(type, fields)
  PROVE  HeapInv'
<1>1. Allocated(type, fields) /\ gc' = gc /\ gc.phase = "idle" /\ ~Collecting
  BY DEF Make, MayPush, Collecting
<1>2. type \in Types /\ type # "Array"
  BY TypesAssumption DEF Types
<1>3. Quiet
  BY <1>1, IdleIsQuiet
<1>4. /\ fields \in Seq(Addresses) /\ \A i \in DOMAIN fields : fields[i] \in DOMAIN mem
      /\ type \in {"Ref", "Array"} => Len(fields) = 1
  BY <1>2, <1>3, OperandsObjects
<1> QED
  BY <1>1, <1>2, <1>3, <1>4, IdleIsQuiet, AllocatedKeeps

(* The allocation that waited for the collection keeps HeapInv.            *)
LEMMA ResumeKeeps ==
  ASSUME HeapInv, WaitingInv, Resume
  PROVE  HeapInv'
<1>1. /\ Allocated(gc.wanted, << >>) /\ ~Collecting /\ gc \in Control
      /\ gc' = [gc EXCEPT !.phase = "idle", !.wanted = "nothing"]
  BY DEF Resume, Collecting, HeapInv, TypeOK
<1>2. gc' \in Control /\ gc'.phase = "idle"
  BY <1>1 DEF Control, Phases
<1>3. Quiet /\ to_space.ptr = to_space.begin
  BY <1>1, IdleIsQuiet
<1>4. gc.wanted \in Types /\ gc.wanted \notin {"Ref", "Array"}
  BY TypesAssumption DEF Types, WaitingInv, Resume
<1>5. << >> \in Seq(Addresses) /\ DOMAIN << >> = {}
  OBVIOUS
<1> QED
  BY <1>1, <1>2, <1>3, <1>4, <1>5, AllocatedKeeps

(* The throw of SemiSpace::allocate, with the pointer already moved, keeps *)
(* HeapInv: only there the pointer may lie past the end.                   *)
LEMMA OutOfMemoryKeeps ==
  ASSUME HeapInv, OutOfMemory
  PROVE  HeapInv'
<1> DEFINE w == ObjectWords(gc.wanted, 0)
<1>1. /\ ~Collecting /\ gc \in Control /\ from_space' = Bump(from_space, w)
      /\ mem' = mem /\ to_space' = to_space /\ roots' = roots
      /\ gc' = [gc EXCEPT !.phase = "out_of_memory"]
  BY DEF OutOfMemory, Collecting, HeapInv, TypeOK
<1>2. gc' \in Control /\ gc'.phase = "out_of_memory"
  BY <1>1 DEF Control, Phases
<1>3. Quiet /\ to_space.ptr = to_space.begin
  BY <1>1, IdleIsQuiet
<1>4. w \in Nat
  BY WordsOfAnObject
<1>5. /\ from_space' \in Space /\ from_space'.begin = from_space.begin
      /\ from_space'.end = from_space.end /\ from_space'.ptr = from_space.ptr + w
      /\ from_space.ptr \in Nat /\ from_space.begin \in Nat
  <2>1. from_space \in Space
    BY <1>3 DEF Quiet, TypeOK
  <2> HIDE DEF w
  <2> QED
    BY <2>1, <1>1, <1>4, SpacesApart, <1>3 DEF Bump, Space, Quiet
<1>6. TypeOK'
  BY <1>1, <1>2, <1>3, <1>5 DEF Quiet, TypeOK
<1>7. SpacesInv'
  <2>1. from_space.begin <= from_space.ptr + w
    BY <1>3, <1>4, <1>5 DEF Quiet, SpacesInv
  <2> QED
    BY <2>1, <1>1, <1>2, <1>3, <1>5 DEF Quiet, SpacesInv
<1>8. ASSUME NEW a \in DOMAIN mem PROVE QuietObject(a)'
  <2>1. QuietObject(a) /\ WordsOf(mem[a]) \in Nat /\ a \in Nat
    BY <1>3, WordsOfType DEF Quiet, TypeOK, Addresses
  <2>2. a + WordsOf(mem[a]) <= from_space'.ptr
    BY <2>1, <1>4, <1>5 DEF QuietObject
  <2> QED
    BY <2>1, <2>2, <1>1, <1>5 DEF QuietObject, Contains
<1>9. Quiet'
  BY <1>1, <1>3, <1>6, <1>7, <1>8 DEF Quiet
<1> QED
  BY <1>2, <1>9, QuietIsHeapInvNext DEF Collecting

(* Steps that move pointers about and allocate nothing. *)
LEMMA PointerStep ==
  ASSUME HeapInv, gc.phase = "idle",
         UNCHANGED <<from_space, to_space, gc>>,
         DOMAIN mem' = DOMAIN mem, mem' \in [DOMAIN mem' -> Object],
         \A a \in DOMAIN mem :
            /\ mem'[a].type = mem[a].type /\ mem'[a].fwd = mem[a].fwd
            /\ Len(mem'[a].fields) = Len(mem[a].fields)
            /\ \A i \in DOMAIN mem'[a].fields : mem'[a].fields[i] \in DOMAIN mem,
         roots' \in Seq(Addresses), roots' # << >>,
         \A i \in DOMAIN roots' : roots'[i] \in DOMAIN mem
  PROVE  HeapInv'
<1>1. ~Collecting
  BY DEF Collecting
<1>2. Quiet /\ to_space.ptr = to_space.begin /\ gc \in Control
  BY <1>1, IdleIsQuiet
<1>3. /\ from_space.ptr \in Nat /\ from_space.ptr <= from_space.end
      /\ from_space' = Bump(from_space, 0)
  BY <1>2 DEF Quiet, TypeOK, SpacesInv, Space, Bump
<1>4. from_space.ptr + 0 <= from_space.end
  BY <1>3
<1> QED
  BY <1>2, <1>3, <1>4, QuietStep

(* Adding a root that the program holds keeps HeapInv.                     *)
LEMMA PushRootKeeps ==
  ASSUME HeapInv, NEW p \in Held, PushRoot(p)
  PROVE  HeapInv'
<1>1. /\ gc.phase = "idle" /\ ~Collecting /\ roots' = Append(roots, p)
      /\ UNCHANGED <<mem, from_space, to_space, gc>>
  BY DEF PushRoot, MayPush, Collecting
<1>2. Quiet
  BY <1>1, IdleIsQuiet
<1>3. p \in DOMAIN mem /\ p \in Addresses
  BY <1>2, HeldObjects DEF Quiet, TypeOK
<1>4. /\ roots \in Seq(Addresses) /\ \A i \in DOMAIN roots : roots[i] \in DOMAIN mem
      /\ mem \in [DOMAIN mem -> Object]
      /\ \A a \in DOMAIN mem : \A i \in DOMAIN mem[a].fields : mem[a].fields[i] \in DOMAIN mem
  BY <1>2 DEF Quiet, TypeOK, QuietObject
<1>5. /\ roots' \in Seq(Addresses) /\ roots' # << >>
      /\ \A i \in DOMAIN roots' : roots'[i] \in DOMAIN mem
  BY <1>1, <1>3, <1>4
<1> QED
  BY <1>1, <1>4, <1>5, PointerStep

(* Dropping the last root keeps HeapInv; the heap's own none is never      *)
(* dropped.                                                                *)
LEMMA PopRootKeeps ==
  ASSUME HeapInv, PopRoot
  PROVE  HeapInv'
<1>1. /\ gc.phase = "idle" /\ ~Collecting /\ Len(roots) > 1
      /\ roots' = SubSeq(roots, 1, Len(roots) - 1)
      /\ UNCHANGED <<mem, from_space, to_space, gc>>
  BY DEF PopRoot, Collecting
<1>2. Quiet
  BY <1>1, IdleIsQuiet
<1>3. /\ roots \in Seq(Addresses) /\ \A i \in DOMAIN roots : roots[i] \in DOMAIN mem
      /\ mem \in [DOMAIN mem -> Object]
      /\ \A a \in DOMAIN mem : \A i \in DOMAIN mem[a].fields : mem[a].fields[i] \in DOMAIN mem
  BY <1>2 DEF Quiet, TypeOK, QuietObject
<1>4. /\ roots' \in Seq(Addresses) /\ roots' # << >>
      /\ \A i \in DOMAIN roots' : roots'[i] \in DOMAIN mem
  <2>1. /\ Len(roots) - 1 \in Nat /\ DOMAIN roots = 1..Len(roots)
        /\ roots' \in Seq(Addresses)
        /\ DOMAIN roots' = 1..Len(roots) - 1 /\ Len(roots') = Len(roots) - 1
        /\ \A i \in 1..Len(roots) - 1 : roots'[i] = roots[i]
    BY <1>1, <1>3
  <2> QED
    BY <2>1, <1>1, <1>3
<1> QED
  BY <1>1, <1>3, <1>4, PointerStep

(* A pointer to an object written over another. *)
FieldWritten(d, k, p) == mem'[d].fields = [mem[d].fields EXCEPT ![k] = p]

(* What a write of one field does, and what it leaves.                     *)
LEMMA PointerWriteEffect ==
  ASSUME Quiet, NEW d \in DOMAIN mem, NEW k, NEW p \in DOMAIN mem,
         mem' = [mem EXCEPT ![d].fields[k] = p]
  PROVE  /\ DOMAIN mem' = DOMAIN mem /\ mem' \in [DOMAIN mem' -> Object]
         /\ \A a \in DOMAIN mem : a # d => mem'[a] = mem[a]
         /\ mem'[d].type = mem[d].type /\ mem'[d].fwd = mem[d].fwd
         /\ Len(mem'[d].fields) = Len(mem[d].fields)
         /\ FieldWritten(d, k, p)
<1> DEFINE g == [mem[d].fields EXCEPT ![k] = p]
<1>1. mem \in [DOMAIN mem -> Object] /\ p \in Addresses
  BY DEF Quiet, TypeOK
<1>2. mem[d] \in Object /\ mem[d].fields \in Seq(Addresses)
  BY <1>1 DEF Object
<1>3. /\ DOMAIN mem' = DOMAIN mem
      /\ mem'[d] = [mem[d] EXCEPT !.fields = g]
      /\ \A a \in DOMAIN mem : a # d => mem'[a] = mem[a]
  OBVIOUS
<1>4. /\ g \in Seq(Addresses) /\ Len(g) = Len(mem[d].fields) /\ DOMAIN g = DOMAIN mem[d].fields
      /\ \A i \in DOMAIN g : g[i] = p \/ g[i] = mem[d].fields[i]
  <2> DEFINE f == mem[d].fields
  <2>1. f \in Seq(Addresses) /\ p \in Addresses
    BY <1>1, <1>2
  <2> HIDE DEF f
  <2>2. LET h == [f EXCEPT ![k] = p]
        IN  /\ h \in Seq(Addresses) /\ Len(h) = Len(f) /\ DOMAIN h = DOMAIN f
            /\ \A i \in DOMAIN f : h[i] = p \/ h[i] = f[i]
    BY <2>1, FieldUpdate
  <2> QED
    BY <2>2 DEF f
<1>5. /\ mem'[d] \in Object /\ mem'[d].type = mem[d].type
      /\ mem'[d].fwd = mem[d].fwd /\ mem'[d].fields = g
  <2> HIDE DEF g
  <2> QED
    BY <1>2, <1>3, <1>4 DEF Object
<1>6. mem' \in [DOMAIN mem' -> Object]
  <2>1. \A a \in DOMAIN mem' : mem'[a] \in Object
    BY <1>1, <1>3, <1>5
  <2>2. mem' = [a \in DOMAIN mem' |-> mem'[a]]
    BY <1>1
  <2> QED
    BY <2>1, <2>2
<1> QED
  BY <1>3, <1>4, <1>5, <1>6 DEF FieldWritten

(* A write of one field with a pointer to an object keeps HeapInv.         *)
LEMMA PointerWrite ==
  ASSUME HeapInv, gc.phase = "idle", NEW d \in DOMAIN mem, NEW k, NEW p \in DOMAIN mem,
         mem' = [mem EXCEPT ![d].fields[k] = p],
         UNCHANGED <<from_space, to_space, roots, gc>>
  PROVE  HeapInv'
<1>1. Quiet
  BY IdleIsQuiet DEF Collecting
<1>2. /\ roots \in Seq(Addresses) /\ roots # << >> /\ \A i \in DOMAIN roots : roots[i] \in DOMAIN mem
      /\ \A a \in DOMAIN mem : \A i \in DOMAIN mem[a].fields : mem[a].fields[i] \in DOMAIN mem
  BY <1>1 DEF Quiet, TypeOK, QuietObject
<1>3. /\ DOMAIN mem' = DOMAIN mem /\ mem' \in [DOMAIN mem' -> Object]
      /\ \A a \in DOMAIN mem :
            /\ mem'[a].type = mem[a].type /\ mem'[a].fwd = mem[a].fwd
            /\ Len(mem'[a].fields) = Len(mem[a].fields)
            /\ \A i \in DOMAIN mem'[a].fields : mem'[a].fields[i] \in DOMAIN mem
  <2>1. /\ DOMAIN mem' = DOMAIN mem /\ mem' \in [DOMAIN mem' -> Object]
        /\ \A a \in DOMAIN mem : a # d => mem'[a] = mem[a]
        /\ mem'[d].type = mem[d].type /\ mem'[d].fwd = mem[d].fwd
        /\ Len(mem'[d].fields) = Len(mem[d].fields)
        /\ FieldWritten(d, k, p)
    BY <1>1, PointerWriteEffect
  <2>2. \A i \in DOMAIN mem'[d].fields : mem'[d].fields[i] \in DOMAIN mem
    BY <2>1, <1>2 DEF FieldWritten
  <2> QED
    BY <2>1, <2>2, <1>2
<1> QED
  BY <1>1, <1>2, <1>3, PointerStep

(* change_ref keeps HeapInv.                                               *)
LEMMA ChangeRefKeeps ==
  ASSUME HeapInv, NEW ref \in Held, NEW p \in Held, ChangeRef(ref, p)
  PROVE  HeapInv'
<1>1. Quiet
  BY IdleIsQuiet DEF ChangeRef, Collecting
<1>2. ref \in DOMAIN mem /\ p \in DOMAIN mem
  BY <1>1, HeldObjects
<1> QED
  BY <1>2, PointerWrite DEF ChangeRef

(* The vector of an array is an object. *)
LEMMA ArrayData ==
  ASSUME Quiet, NEW array \in Held, mem[array].type = "Array"
  PROVE  /\ array \in DOMAIN mem /\ Len(mem[array].fields) = 1
         /\ mem[array].fields[1] \in DOMAIN mem
<1>1. array \in DOMAIN mem /\ mem[array] \in Object
  BY HeldObjects DEF Quiet, TypeOK
<1>2. QuietObject(array)
  BY <1>1 DEF Quiet
<1>3. Len(mem[array].fields) = 1 /\ 1 \in DOMAIN mem[array].fields
  BY <1>1, <1>2, WordsOfType DEF QuietObject
<1> QED
  BY <1>1, <1>2, <1>3 DEF QuietObject

(* Assigning to an element of an array keeps HeapInv.                      *)
LEMMA StoreElementKeeps ==
  ASSUME HeapInv, NEW array \in Held, NEW k, NEW ref \in HeldRefs, StoreElement(array, k, ref)
  PROVE  HeapInv'
<1>1. Quiet
  BY IdleIsQuiet DEF StoreElement, Collecting
<1>2. mem[array].fields[1] \in DOMAIN mem /\ ref \in DOMAIN mem
  BY <1>1, HeldObjects, ArrayData DEF StoreElement
<1> QED
  BY <1>2, PointerWrite DEF StoreElement

(* Room for an allocation in from_space: its addresses are free.           *)
LEMMA FreeRoom ==
  ASSUME Quiet, NEW a \in Nat, from_space.ptr <= a, a < from_space.end
  PROVE  /\ a \in Addresses /\ a \notin DOMAIN mem
         /\ from_space.ptr \in Nat /\ from_space.end \in Nat
<1>1. /\ from_space.ptr \in Nat /\ from_space.begin \in Nat
      /\ from_space.begin <= from_space.ptr /\ from_space.begin >= 1
      /\ from_space.end <= 2 * SpaceWords + 1 /\ from_space.end \in Nat
  BY SpacesApart DEF Quiet, SpacesInv
<1>2. a \in Addresses
  BY <1>1, SpaceAssumption DEF Addresses
<1>3. ASSUME a \in DOMAIN mem PROVE FALSE
  <2>1. a + WordsOf(mem[a]) <= from_space.ptr
    BY <1>3 DEF Quiet, QuietObject
  <2>2. WordsOf(mem[a]) \in Nat /\ WordsOf(mem[a]) >= 2
    BY <1>3, WordsOfType DEF Quiet, TypeOK
  <2> QED
    BY <2>1, <2>2, <1>1
<1> QED
  BY <1>1, <1>2, <1>3

(* A new object, with its size, is well typed.                             *)
LEMMA NewObjectType ==
  ASSUME NEW type \in Types, NEW fields \in Seq(Addresses)
  PROVE  LET obj == NewObject(type, fields)
         IN  /\ obj \in Object /\ obj.type = type /\ obj.fields = fields
             /\ obj.fwd = NULL /\ WordsOf(obj) = ObjectWords(type, Len(fields))
             /\ ObjectWords(type, Len(fields)) \in Nat
             /\ ObjectWords(type, Len(fields)) >= 2
<1>1. Len(fields) \in Nat
  OBVIOUS
<1> QED
  BY <1>1, WordsOfAnObject DEF NewObject, Object, WordsOf, NULL

(* What MakeArray does: the vector and its header lie where nothing was.   *)
LEMMA MakeArrayEffect ==
  ASSUME HeapInv, NEW elements \in Operands("Array"), MakeArray(elements)
  PROVE  LET w == ObjectWords("ArrayData", Len(elements))
             data == from_space.ptr
             header == data + w
             vector == NewObject("ArrayData", elements)
             array == NewObject("Array", <<data>>)
         IN  /\ gc.phase = "idle" /\ gc' = gc /\ data + (w + 3) <= from_space.end
             /\ from_space' = Bump(from_space, w + 3) /\ roots' = Append(roots, header)
             /\ to_space' = to_space
             /\ elements \in Seq(Addresses) /\ \A i \in DOMAIN elements : elements[i] \in DOMAIN mem
             /\ vector \in Object /\ vector.type = "ArrayData" /\ vector.fields = elements
             /\ vector.fwd = NULL /\ WordsOf(vector) = w /\ w \in Nat /\ w >= 2
             /\ array \in Object /\ array.type = "Array" /\ array.fields = <<data>>
             /\ array.fwd = NULL /\ WordsOf(array) = 3 /\ Len(array.fields) = 1
             /\ data \in Nat /\ data \in Addresses /\ data \notin DOMAIN mem
             /\ header \in Nat /\ header \in Addresses /\ header \notin DOMAIN mem
             /\ data < header /\ header = data + w
             /\ DOMAIN mem' = DOMAIN mem \cup {data, header}
             /\ mem'[data] = vector /\ mem'[header] = array
             /\ \A a \in DOMAIN mem : mem'[a] = mem[a]
             /\ mem' \in [DOMAIN mem' -> Object]
<1> DEFINE w == ObjectWords("ArrayData", Len(elements))
           data == from_space.ptr
           header == data + w
           vector == NewObject("ArrayData", elements)
           array == NewObject("Array", <<data>>)
<1>1. /\ gc.phase = "idle" /\ ~Collecting /\ gc' = gc
      /\ data + (w + 3) <= from_space.end
      /\ mem' = Place(Place(mem, data, vector), header, array)
      /\ from_space' = Bump(from_space, w + 3)
      /\ roots' = Append(roots, header)
      /\ to_space' = to_space
  BY DEF MakeArray, MayPush, Collecting, Fits, ObjectWords
<1>2. Quiet /\ to_space.ptr = to_space.begin /\ gc \in Control
  BY <1>1, IdleIsQuiet
<1>3. elements \in Seq(Addresses) /\ \A i \in DOMAIN elements : elements[i] \in DOMAIN mem
  BY <1>2, OperandsObjects
<1>4. /\ vector \in Object /\ vector.type = "ArrayData" /\ vector.fields = elements
      /\ vector.fwd = NULL /\ WordsOf(vector) = w /\ w \in Nat /\ w >= 2
  BY <1>3, NewObjectType DEF Types
<1>5. data \in Nat /\ from_space.end \in Nat
  BY <1>2, SpacesApart DEF Quiet
<1>6. header \in Nat /\ data < header /\ header + 3 <= from_space.end
  <2> HIDE DEF w, data
  <2> QED
    BY <1>1, <1>4, <1>5
<1>7. data \in Addresses /\ data \notin DOMAIN mem
  <2>1. data < from_space.end /\ data <= data
    BY <1>5, <1>6
  <2> QED
    BY <1>2, <1>5, <2>1, FreeRoom
<1>8. header \in Addresses /\ header \notin DOMAIN mem
  <2>1. header < from_space.end /\ data <= header
    BY <1>5, <1>6
  <2> QED
    BY <1>2, <1>6, <2>1, FreeRoom
<1>9. /\ array \in Object /\ array.type = "Array" /\ array.fields = <<data>>
      /\ array.fwd = NULL /\ WordsOf(array) = 3 /\ Len(array.fields) = 1
  <2>1. <<data>> \in Seq(Addresses) /\ Len(<<data>>) = 1
    BY <1>7
  <2> QED
    BY <2>1, NewObjectType DEF Types, ObjectWords
<1>10. /\ mem \in [DOMAIN mem -> Object] /\ roots \in Seq(Addresses) /\ roots # << >>
       /\ \A i \in DOMAIN roots : roots[i] \in DOMAIN mem
       /\ \A a \in DOMAIN mem : \A i \in DOMAIN mem[a].fields : mem[a].fields[i] \in DOMAIN mem
  BY <1>2 DEF Quiet, TypeOK, QuietObject
<1>11. data # header
  BY <1>5, <1>6
<1> HIDE DEF w, data, header, vector, array
<1>12. /\ DOMAIN mem' = DOMAIN mem \cup {data, header}
       /\ mem'[data] = vector /\ mem'[header] = array
       /\ \A a \in DOMAIN mem : mem'[a] = mem[a]
  <2> DEFINE m == Place(mem, data, vector)
  <2>1. /\ DOMAIN m = DOMAIN mem \cup {data} /\ m[data] = vector
        /\ \A a \in DOMAIN mem : m[a] = mem[a]
    BY <1>7 DEF Place
  <2>2. mem' = Place(m, header, array)
    BY <1>1
  <2> HIDE DEF m
  <2> QED
    BY <2>1, <2>2, <1>8, <1>11 DEF Place
<1>13. mem' \in [DOMAIN mem' -> Object]
  <2>1. mem' = [a \in DOMAIN mem' |-> mem'[a]]
    BY <1>1 DEF Place
  <2>2. \A a \in DOMAIN mem' : mem'[a] \in Object
    BY <1>4, <1>9, <1>10, <1>12
  <2> QED
    BY <2>1, <2>2
<1>14. header = data + w
  BY DEF header
<1> USE DEF vector, array, w, data, header
<1> QED
  BY <1>1, <1>3, <1>4, <1>5, <1>6, <1>7, <1>8, <1>9, <1>12, <1>13, <1>14

(* make_array, with its two allocations, keeps HeapInv.                    *)
LEMMA MakeArrayKeeps ==
  ASSUME HeapInv, NEW elements \in Operands("Array"), MakeArray(elements)
  PROVE  HeapInv'
<1> DEFINE w == ObjectWords("ArrayData", Len(elements))
           data == from_space.ptr
           header == data + w
           vector == NewObject("ArrayData", elements)
           array == NewObject("Array", <<data>>)
<1>1. /\ gc.phase = "idle" /\ gc' = gc /\ data + (w + 3) <= from_space.end
      /\ from_space' = Bump(from_space, w + 3) /\ roots' = Append(roots, header)
      /\ to_space' = to_space
      /\ elements \in Seq(Addresses) /\ \A i \in DOMAIN elements : elements[i] \in DOMAIN mem
      /\ vector \in Object /\ vector.type = "ArrayData" /\ vector.fields = elements
      /\ vector.fwd = NULL /\ WordsOf(vector) = w /\ w \in Nat /\ w >= 2
      /\ array \in Object /\ array.type = "Array" /\ array.fields = <<data>>
      /\ array.fwd = NULL /\ WordsOf(array) = 3 /\ Len(array.fields) = 1
      /\ data \in Nat /\ data \in Addresses /\ data \notin DOMAIN mem
      /\ header \in Nat /\ header \in Addresses /\ header \notin DOMAIN mem
      /\ data < header /\ header = data + w
      /\ DOMAIN mem' = DOMAIN mem \cup {data, header}
      /\ mem'[data] = vector /\ mem'[header] = array
      /\ \A a \in DOMAIN mem : mem'[a] = mem[a]
      /\ mem' \in [DOMAIN mem' -> Object]
  BY MakeArrayEffect
<1>2. Quiet /\ to_space.ptr = to_space.begin /\ gc \in Control
  BY <1>1, IdleIsQuiet DEF Collecting
<1>3. /\ roots \in Seq(Addresses) /\ roots # << >>
      /\ \A i \in DOMAIN roots : roots[i] \in DOMAIN mem
      /\ \A a \in DOMAIN mem : \A i \in DOMAIN mem[a].fields : mem[a].fields[i] \in DOMAIN mem
  BY <1>2 DEF Quiet, TypeOK, QuietObject
<1> HIDE DEF w, data, header, vector, array
<1>4. /\ roots' \in Seq(Addresses) /\ roots' # << >>
      /\ \A i \in DOMAIN roots' : roots'[i] \in DOMAIN mem'
  <2>1. /\ roots' \in Seq(Addresses) /\ Len(roots') = Len(roots) + 1 /\ Len(roots) \in Nat
        /\ DOMAIN roots' = 1..Len(roots) + 1 /\ DOMAIN roots = 1..Len(roots)
        /\ \A i \in 1..Len(roots) : roots'[i] = roots[i]
        /\ roots'[Len(roots) + 1] = header
    BY <1>1, <1>3
  <2> QED
    BY <2>1, <1>3, <1>1
<1>5. \A a \in DOMAIN mem' : \A i \in DOMAIN mem'[a].fields : mem'[a].fields[i] \in DOMAIN mem'
  BY <1>1, <1>3
<1>6. \A a \in DOMAIN mem' \ DOMAIN mem :
         /\ a \in Nat /\ from_space.ptr <= a
         /\ a + WordsOf(mem'[a]) <= from_space.ptr + (w + 3)
         /\ mem'[a].fwd = NULL
         /\ mem'[a].type \in {"Ref", "Array"} => Len(mem'[a].fields) = 1
  <2>1. from_space.ptr = data
    BY DEF data
  <2>2. DOMAIN mem' \ DOMAIN mem = {data, header}
    BY <1>1
  <2>3. /\ data + WordsOf(mem'[data]) <= data + (w + 3) /\ data <= data
        /\ mem'[data].fwd = NULL /\ mem'[data].type \notin {"Ref", "Array"}
    BY <1>1
  <2>4. /\ header + WordsOf(mem'[header]) <= data + (w + 3) /\ data <= header
        /\ mem'[header].fwd = NULL /\ Len(mem'[header].fields) = 1
    <3>1. data \in Nat /\ w \in Nat /\ header = data + w
      BY <1>1
    <3>2. mem'[header].fwd = NULL /\ Len(mem'[header].fields) = 1 /\ WordsOf(mem'[header]) = 3
      BY <1>1
    <3> QED
      BY <3>1, <3>2
  <2> QED
    BY <2>1, <2>2, <2>3, <2>4, <1>1
<1>7. /\ w + 3 \in Nat /\ from_space.ptr + (w + 3) <= from_space.end
  BY <1>1 DEF data
<1> QED
  BY <1>1, <1>2, <1>4, <1>5, <1>6, <1>7, QuietStep

(* An insertion into a sequence. *)
LEMMA InsertedElement ==
  ASSUME NEW S, NEW f \in Seq(S), NEW k \in 1..Len(f) + 1, NEW e \in S
  PROVE  SubSeq(f, 1, k - 1) \o <<e>> \o SubSeq(f, k, Len(f)) \in Seq(S)
<1>1. Len(f) \in Nat /\ k \in Nat /\ k >= 1 /\ \A i \in 1..Len(f) : f[i] \in S
  OBVIOUS
<1>2. SubSeq(f, 1, k - 1) \in Seq(S)
  BY <1>1
<1>3. SubSeq(f, k, Len(f)) \in Seq(S)
  BY <1>1
<1>4. <<e>> \in Seq(S)
  OBVIOUS
<1> QED
  BY <1>2, <1>3, <1>4

(* A sequence all of whose elements lie in S is one over S.                *)
LEMMA SequenceOver ==
  ASSUME NEW S, NEW T, NEW f \in Seq(T), \A i \in DOMAIN f : f[i] \in S
  PROVE  f \in Seq(S)
OBVIOUS

(* The elements of an array, and those with one more at place k. *)
OldElements(array) == mem[mem[array].fields[1]].fields

(* The elements with one more, at place k.                                 *)
NewElements(array, k, element) ==
  LET old == OldElements(array)
  IN  SubSeq(old, 1, k - 1) \o <<element>> \o SubSeq(old, k, Len(old))

(* What ReplaceArrayData does: the array's one field leads to a new vector *)
(* that lies where nothing was.                                            *)
LEMMA ReplaceArrayDataEffect ==
  ASSUME HeapInv, NEW array \in Held, NEW k \in Nat, NEW element \in HeldRefs,
         ReplaceArrayData(array, k, element)
  PROVE  LET old == OldElements(array)
             new == NewElements(array, k, element)
             w == ObjectWords("ArrayData", Len(new))
             data == from_space.ptr
             vector == NewObject("ArrayData", new)
         IN  /\ gc.phase = "idle" /\ gc' = gc /\ data + w <= from_space.end
             /\ from_space' = Bump(from_space, w) /\ roots' = roots /\ to_space' = to_space
             /\ array \in DOMAIN mem /\ mem[array].type = "Array" /\ element \in DOMAIN mem
             /\ mem[array].fields[1] \in DOMAIN mem /\ k \in 1..Len(old) + 1
             /\ old \in Seq(DOMAIN mem)
             /\ new \in Seq(Addresses) /\ new \in Seq(DOMAIN mem)
             /\ vector \in Object /\ vector.type = "ArrayData" /\ vector.fields = new
             /\ vector.fwd = NULL /\ WordsOf(vector) = w /\ w \in Nat /\ w >= 2
             /\ data \in Nat /\ data \in Addresses /\ data \notin DOMAIN mem
             /\ DOMAIN mem' = DOMAIN mem \cup {data} /\ mem'[data] = vector
             /\ \A a \in DOMAIN mem : a # array => mem'[a] = mem[a]
             /\ mem'[array] \in Object /\ mem'[array].type = mem[array].type
             /\ mem'[array].fwd = mem[array].fwd /\ mem'[array].fields = <<data>>
             /\ Len(mem[array].fields) = 1 /\ Len(mem'[array].fields) = 1
             /\ mem' \in [DOMAIN mem' -> Object]
<1> DEFINE old == mem[mem[array].fields[1]].fields
           new == SubSeq(old, 1, k - 1) \o <<element>> \o SubSeq(old, k, Len(old))
           w == ObjectWords("ArrayData", Len(new))
           data == from_space.ptr
           vector == NewObject("ArrayData", new)
           placed == Place(mem, data, vector)
<1>1. /\ gc.phase = "idle" /\ ~Collecting /\ gc' = gc
      /\ mem[array].type = "Array"
      /\ k \in 1..Len(old) + 1
      /\ data + w <= from_space.end
      /\ mem' = [placed EXCEPT ![array].fields = <<data>>]
      /\ from_space' = Bump(from_space, w)
      /\ roots' = roots
      /\ to_space' = to_space
  BY DEF ReplaceArrayData, Collecting, Fits
<1>2. Quiet /\ to_space.ptr = to_space.begin /\ gc \in Control
  BY <1>1, IdleIsQuiet
<1>3. /\ array \in DOMAIN mem /\ Len(mem[array].fields) = 1
      /\ mem[array].fields[1] \in DOMAIN mem /\ element \in DOMAIN mem
  BY <1>1, <1>2, ArrayData, HeldObjects
<1>4. /\ mem \in [DOMAIN mem -> Object] /\ roots \in Seq(Addresses) /\ roots # << >>
      /\ \A i \in DOMAIN roots : roots[i] \in DOMAIN mem
      /\ \A a \in DOMAIN mem : \A i \in DOMAIN mem[a].fields : mem[a].fields[i] \in DOMAIN mem
      /\ DOMAIN mem \subseteq Addresses
  BY <1>2 DEF Quiet, TypeOK, QuietObject
<1>5. old \in Seq(DOMAIN mem)
  <2>1. old \in Seq(Addresses) /\ \A i \in DOMAIN old : old[i] \in DOMAIN mem
    BY <1>3, <1>4 DEF Object
  <2> HIDE DEF old
  <2> QED
    BY <2>1, SequenceOver
<1>6. new \in Seq(DOMAIN mem)
  <2> HIDE DEF old
  <2> QED
    BY <1>1, <1>3, <1>5, InsertedElement
<1>7. new \in Seq(Addresses) /\ \A i \in DOMAIN new : new[i] \in DOMAIN mem
  <2> HIDE DEF new
  <2>1. Len(new) \in Nat /\ DOMAIN new = 1..Len(new) /\ \A i \in DOMAIN new : new[i] \in DOMAIN mem
    BY <1>6
  <2> QED
    BY <2>1, <1>4, <1>6, SequenceOver
<1>8. /\ vector \in Object /\ vector.type = "ArrayData" /\ vector.fields = new
      /\ vector.fwd = NULL /\ WordsOf(vector) = w /\ w \in Nat /\ w >= 2
  <2> HIDE DEF new
  <2> QED
    BY <1>7, NewObjectType DEF Types
<1> HIDE DEF old, new, w
<1>9. data \in Nat /\ from_space.end \in Nat
  BY <1>2, SpacesApart DEF Quiet
<1>10. data \in Addresses /\ data \notin DOMAIN mem
  <2>1. data < from_space.end /\ data <= data
    BY <1>1, <1>8, <1>9
  <2> QED
    BY <1>2, <1>9, <2>1, FreeRoom
<1> HIDE DEF data, vector
<1>11. /\ DOMAIN placed = DOMAIN mem \cup {data} /\ placed[data] = vector
       /\ \A a \in DOMAIN mem : placed[a] = mem[a]
       /\ placed = [a \in DOMAIN placed |-> placed[a]]
  BY <1>10 DEF Place
<1> HIDE DEF placed
<1>12. /\ DOMAIN mem' = DOMAIN mem \cup {data}
       /\ mem'[array] = [mem[array] EXCEPT !.fields = <<data>>]
       /\ mem'[data] = vector
       /\ \A a \in DOMAIN mem : a # array => mem'[a] = mem[a]
       /\ mem' = [a \in DOMAIN mem' |-> mem'[a]]
  BY <1>1, <1>3, <1>10, <1>11
<1>13. /\ mem'[array] \in Object /\ mem'[array].type = mem[array].type
       /\ mem'[array].fwd = mem[array].fwd /\ mem'[array].fields = <<data>>
       /\ Len(mem'[array].fields) = 1
  <2>1. mem[array] \in Object /\ <<data>> \in Seq(Addresses) /\ Len(<<data>>) = 1
    BY <1>3, <1>4, <1>10
  <2> QED
    BY <2>1, <1>12 DEF Object
<1>14. mem' \in [DOMAIN mem' -> Object]
  <2>1. \A a \in DOMAIN mem' : mem'[a] \in Object
    BY <1>4, <1>8, <1>12, <1>13
  <2> QED
    BY <2>1, <1>12
<1>15. k \in 1..Len(old) + 1 /\ mem[array].type = "Array"
  BY <1>1
<1> USE DEF old, new, w, data, vector, OldElements, NewElements
<1> QED
  BY <1>1, <1>3, <1>5, <1>6, <1>7, <1>8, <1>9, <1>10, <1>12, <1>13, <1>14, <1>15

(* replace_array_data keeps HeapInv.                                       *)
LEMMA ReplaceArrayDataKeeps ==
  ASSUME HeapInv, NEW array \in Held, NEW k \in Nat, NEW element \in HeldRefs,
         ReplaceArrayData(array, k, element)
  PROVE  HeapInv'
<1> DEFINE old == OldElements(array)
           new == NewElements(array, k, element)
           w == ObjectWords("ArrayData", Len(new))
           data == from_space.ptr
           vector == NewObject("ArrayData", new)
<1>1. /\ gc.phase = "idle" /\ gc' = gc /\ data + w <= from_space.end
      /\ from_space' = Bump(from_space, w) /\ roots' = roots /\ to_space' = to_space
      /\ array \in DOMAIN mem /\ mem[array].type = "Array" /\ element \in DOMAIN mem
      /\ mem[array].fields[1] \in DOMAIN mem /\ k \in 1..Len(old) + 1
      /\ old \in Seq(DOMAIN mem)
      /\ new \in Seq(Addresses) /\ new \in Seq(DOMAIN mem)
      /\ vector \in Object /\ vector.type = "ArrayData" /\ vector.fields = new
      /\ vector.fwd = NULL /\ WordsOf(vector) = w /\ w \in Nat /\ w >= 2
      /\ data \in Nat /\ data \in Addresses /\ data \notin DOMAIN mem
      /\ DOMAIN mem' = DOMAIN mem \cup {data} /\ mem'[data] = vector
      /\ \A a \in DOMAIN mem : a # array => mem'[a] = mem[a]
      /\ mem'[array] \in Object /\ mem'[array].type = mem[array].type
      /\ mem'[array].fwd = mem[array].fwd /\ mem'[array].fields = <<data>>
      /\ Len(mem[array].fields) = 1 /\ Len(mem'[array].fields) = 1
      /\ mem' \in [DOMAIN mem' -> Object]
  BY ReplaceArrayDataEffect
<1>2. Quiet /\ to_space.ptr = to_space.begin /\ gc \in Control
  BY <1>1, IdleIsQuiet DEF Collecting
<1>3. /\ mem \in [DOMAIN mem -> Object] /\ roots \in Seq(Addresses) /\ roots # << >>
      /\ \A i \in DOMAIN roots : roots[i] \in DOMAIN mem
      /\ \A a \in DOMAIN mem : \A i \in DOMAIN mem[a].fields : mem[a].fields[i] \in DOMAIN mem
  BY <1>2 DEF Quiet, TypeOK, QuietObject
<1> HIDE DEF old, new, w, data, vector
<1>4. \A i \in DOMAIN new : new[i] \in DOMAIN mem
  BY <1>1
<1>5. \A a \in DOMAIN mem : /\ mem'[a].type = mem[a].type /\ mem'[a].fwd = mem[a].fwd
                            /\ Len(mem'[a].fields) = Len(mem[a].fields)
  BY <1>1
<1>6. \A a \in DOMAIN mem' : \A i \in DOMAIN mem'[a].fields : mem'[a].fields[i] \in DOMAIN mem'
  <2>1. \A i \in DOMAIN mem'[array].fields : mem'[array].fields[i] \in DOMAIN mem'
    BY <1>1
  <2>2. \A i \in DOMAIN mem'[data].fields : mem'[data].fields[i] \in DOMAIN mem'
    BY <1>1, <1>4
  <2> QED
    BY <2>1, <2>2, <1>3, <1>1
<1>7. \A a \in DOMAIN mem' \ DOMAIN mem :
         /\ a \in Nat /\ from_space.ptr <= a
         /\ a + WordsOf(mem'[a]) <= from_space.ptr + w
         /\ mem'[a].fwd = NULL
         /\ mem'[a].type \in {"Ref", "Array"} => Len(mem'[a].fields) = 1
  <2>1. from_space.ptr = data
    BY DEF data
  <2> QED
    BY <2>1, <1>1
<1>8. /\ \A i \in DOMAIN roots' : roots'[i] \in DOMAIN mem'
      /\ roots' \in Seq(Addresses) /\ roots' # << >>
  BY <1>1, <1>3
<1>9. from_space.ptr + w <= from_space.end /\ DOMAIN mem \subseteq DOMAIN mem'
  BY <1>1 DEF data
<1> QED
  BY <1>1, <1>2, <1>5, <1>6, <1>7, <1>8, <1>9, QuietStep

-----------------------------------------------------------------------------
(* HeapInv holds of a new heap.                                            *)
LEMMA InitKeeps == Init => HeapInv /\ WaitingInv
<1> SUFFICES ASSUME Init PROVE HeapInv /\ WaitingInv
  OBVIOUS
<1> DEFINE none == NewObject("None", << >>)
<1>1. /\ mem = [a \in {1} |-> none]
      /\ from_space = [begin |-> 1, end |-> SpaceWords + 1, ptr |-> 3]
      /\ to_space = [begin |-> SpaceWords + 1, end |-> 2 * SpaceWords + 1, ptr |-> SpaceWords + 1]
      /\ roots = <<1>>
      /\ gc = [phase |-> "idle", next |-> 1, scanned |-> 0, wanted |-> "nothing", nested |-> FALSE]
  BY DEF Init
<1>2. SpaceWords \in Nat /\ SpaceWords >= 2
  BY SpaceAssumption
<1>3. /\ none \in Object /\ none.type = "None" /\ none.fwd = NULL /\ WordsOf(none) = 2
      /\ DOMAIN none.fields = {}
  BY DEF NewObject, Object, Types, NULL, WordsOf, ObjectWords
<1> HIDE DEF none
<1>4. DOMAIN mem = {1} /\ mem[1] = none /\ mem \in [DOMAIN mem -> Object] /\ 1 \in Addresses
  BY <1>1, <1>2, <1>3 DEF Addresses
<1>5. roots \in Seq(Addresses) /\ roots # << >> /\ \A i \in DOMAIN roots : roots[i] = 1
  BY <1>1, <1>4
<1>6. from_space \in Space /\ to_space \in Space
  BY <1>1, <1>2 DEF Space
<1>7. gc \in Control
  BY <1>1 DEF Control, Phases
<1>8. TypeOK
  BY <1>4, <1>5, <1>6, <1>7 DEF TypeOK
<1>9. SpacesInv
  BY <1>1, <1>2 DEF SpacesInv, Collecting
<1>10. QuietObject(1)
  BY <1>1, <1>2, <1>3, <1>4 DEF QuietObject, Contains
<1>11. Quiet
  BY <1>4, <1>5, <1>8, <1>9, <1>10 DEF Quiet
<1>12. ~Collecting /\ gc.phase = "idle"
  BY <1>1 DEF Collecting
<1> QED
  BY <1>11, <1>12, QuietIsHeapInv DEF WaitingInv

(* The program runs only between collections, and a step of it that touches *)
(* the collector's state starts a collection.                              *)
LEMMA ProgramIsIdle ==
  ASSUME Program
  PROVE  /\ gc.phase = "idle" /\ to_space' = to_space
         /\ UNCHANGED gc \/ \E wanted : StartCollection(wanted)
<1> DEFINE Idle == /\ gc.phase = "idle" /\ to_space' = to_space
                   /\ UNCHANGED gc \/ \E wanted : StartCollection(wanted)
<1>1. ASSUME NEW type, MakeScalar(type) PROVE Idle
  BY <1>1 DEF MakeScalar, MayPush, Allocated
<1>2. ASSUME NEW type, MakeScalarCollects(type) PROVE Idle
  BY <1>2 DEF MakeScalarCollects, MayPush, StartCollection
<1>3. ASSUME NEW type, NEW fields, Make(type, fields) PROVE Idle
  BY <1>3 DEF Make, MayPush, Allocated
<1>4. ASSUME NEW fields, MakeArray(fields) PROVE Idle
  BY <1>4 DEF MakeArray, MayPush
<1>5. ASSUME NEW array, NEW k, NEW element, ReplaceArrayData(array, k, element) PROVE Idle
  BY <1>5 DEF ReplaceArrayData
<1>6. ASSUME NEW array, NEW k, NEW element, StoreElement(array, k, element) PROVE Idle
  BY <1>6 DEF StoreElement
<1>7. ASSUME NEW ref, NEW p, ChangeRef(ref, p) PROVE Idle
  BY <1>7 DEF ChangeRef
<1>8. ASSUME NEW p, PushRoot(p) PROVE Idle
  BY <1>8 DEF PushRoot, MayPush
<1>9. ASSUME PopRoot PROVE Idle
  BY <1>9 DEF PopRoot
<1>10. ASSUME Collect PROVE Idle
  BY <1>10 DEF Collect, StartCollection
<1> HIDE DEF Idle
<1>11. Idle
  BY <1>1, <1>2, <1>3, <1>4, <1>5, <1>6, <1>7, <1>8, <1>9, <1>10 DEF Program
<1> QED
  BY <1>11 DEF Idle

(* Which allocation waits is fixed when the collection starts.             *)
LEMMA WaitingKeeps ==
  ASSUME HeapInv, WaitingInv, [Next]_vars
  PROVE  WaitingInv'
<1>1. gc \in Control
  BY DEF HeapInv, TypeOK
<1>2. ASSUME UNCHANGED gc PROVE WaitingInv'
  BY <1>2 DEF WaitingInv
<1>3. ASSUME gc'.phase # "resume" PROVE WaitingInv'
  BY <1>3 DEF WaitingInv
<1>4. CASE Program
  <2>1. ASSUME NEW wanted, StartCollection(wanted) PROVE gc'.phase = "roots"
    BY <2>1, <1>1 DEF StartCollection, Control
  <2> QED
    BY <2>1, <1>2, <1>3, <1>4, ProgramIsIdle
<1>5. CASE Collector
  <2>1. CASE Finish
    <3>1. /\ gc'.wanted = gc.wanted
          /\ gc'.phase = IF gc.wanted = "nothing" THEN "idle" ELSE "resume"
      BY <2>1, <1>1 DEF Finish, Control
    <3>2. gc.wanted \in {"nothing"} \cup Scalars
      BY <1>1 DEF Control
    <3> QED
      BY <3>1, <3>2 DEF WaitingInv
  <2>2. CASE ProcessRoot \/ ScanField \/ ScanNext
    <3>1. gc'.phase = gc.phase /\ gc.phase # "resume"
      BY <2>2, <1>1 DEF ProcessRoot, ScanField, ScanNext, Scanning, Control
    <3> QED
      BY <3>1, <1>3
  <2>3. CASE RootsDone \/ FinishCollectsAgain \/ Resume \/ OutOfMemory
    <3>1. gc'.phase # "resume"
      BY <2>3, <1>1 DEF RootsDone, FinishCollectsAgain, Resume, OutOfMemory, Control
    <3> QED
      BY <3>1, <1>3
  <2> QED
    BY <2>1, <2>2, <2>3, <1>5 DEF Collector
<1>6. CASE Stopped \/ UNCHANGED vars
  BY <1>6, <1>2 DEF Stopped, vars
<1> QED
  BY <1>4, <1>5, <1>6 DEF Next

(* HeapInv speaks of the variables only.                                   *)
LEMMA StutterKeeps == HeapInv /\ UNCHANGED vars => HeapInv'
BY DEF HeapInv, TypeOK, SpacesInv, LayoutInv, FromInv, SlotsInv, FromObjects, ToObjects,
       RootDone, FieldDone, Collecting, vars

(* Whatever the program does keeps HeapInv.                                *)
LEMMA ProgramKeeps ==
  ASSUME HeapInv, Program
  PROVE  HeapInv'
<1>1. CASE \E type \in Scalars : MakeScalar(type) \/ MakeScalarCollects(type)
  <2> PICK type \in Scalars : MakeScalar(type) \/ MakeScalarCollects(type)
    BY <1>1
  <2>1. CASE MakeScalar(type)
    BY <2>1, MakeScalarKeeps
  <2>2. CASE MakeScalarCollects(type)
    BY <2>2, StartCollectionKeeps DEF MakeScalarCollects, MayPush
  <2> QED
    BY <2>1, <2>2
<1>2. CASE \E type \in Aggregates \ {"Array"} : \E fields \in Operands(type) : Make(type, fields)
  BY <1>2, MakeKeeps
<1>3. CASE \E fields \in Operands("Array") : MakeArray(fields)
  BY <1>3, MakeArrayKeeps
<1>4. CASE \E array \in Held, k \in 1..MaxElements + 1, element \in HeldRefs :
              ReplaceArrayData(array, k, element) \/ StoreElement(array, k, element)
  <2> PICK array \in Held, k \in 1..MaxElements + 1, element \in HeldRefs :
              ReplaceArrayData(array, k, element) \/ StoreElement(array, k, element)
    BY <1>4
  <2>1. k \in Nat
    BY BoundsAssumption
  <2> QED
    BY <2>1, ReplaceArrayDataKeeps, StoreElementKeeps
<1>5. CASE \E ref, p \in Held : ChangeRef(ref, p)
  BY <1>5, ChangeRefKeeps
<1>6. CASE \E p \in Held : PushRoot(p)
  BY <1>6, PushRootKeeps
<1>7. CASE PopRoot
  BY <1>7, PopRootKeeps
<1>8. CASE Collect
  BY <1>8, StartCollectionKeeps DEF Collect
<1> QED
  BY <1>1, <1>2, <1>3, <1>4, <1>5, <1>6, <1>7, <1>8 DEF Program

(* Every step of the collector keeps HeapInv.                              *)
LEMMA CollectorKeeps ==
  ASSUME HeapInv, WaitingInv, Collector
  PROVE  HeapInv'
BY ProcessRootKeeps, RootsDoneKeeps, ScanFieldKeeps, ScanNextKeeps, FinishKeeps,
   FinishCollectsAgainKeeps, ResumeKeeps, OutOfMemoryKeeps DEF Collector

(* The inductive invariant of struct Heap: which slots point into which    *)
(* space at every step of collect(), that the objects of to_space lie end  *)
(* to end, that a forwarding pointer leads to a copy.                      *)
THEOREM HeapInvariant == Spec => [](HeapInv /\ WaitingInv)
<1>1. HeapInv /\ WaitingInv /\ [Next]_vars => (HeapInv /\ WaitingInv)'
  <2> SUFFICES ASSUME HeapInv, WaitingInv, [Next]_vars PROVE HeapInv' /\ WaitingInv'
    OBVIOUS
  <2>1. CASE Program
    BY <2>1, ProgramKeeps, WaitingKeeps
  <2>2. CASE Collector
    BY <2>2, CollectorKeeps, WaitingKeeps
  <2>3. CASE Stopped \/ UNCHANGED vars
    BY <2>3, StutterKeeps, WaitingKeeps DEF Stopped
  <2> QED
    BY <2>1, <2>2, <2>3 DEF Next
<1> QED
  BY <1>1, InitKeeps, PTL DEF Spec

(* Type correctness of the state of struct Heap.                           *)
THEOREM TypeCorrect == Spec => []TypeOK
<1>1. HeapInv => TypeOK
  BY DEF HeapInv
<1> QED
  BY <1>1, HeapInvariant, PTL

(* A program that keeps its pointers in roots never meets an address that  *)
(* a collection has freed: whatever the sizes, the roots and the graph of  *)
(* objects, collect() updates every root and every field of every survivor.*)
THEOREM NothingDangles == Spec => []NoDangling
<1>1. HeapInv => NoDangling
  <2> SUFFICES ASSUME HeapInv, gc.phase \in {"idle", "resume", "out_of_memory"}
               PROVE  /\ Range(roots) \subseteq FromObjects
                      /\ \A a \in FromObjects : Range(mem[a].fields) \subseteq FromObjects
    BY DEF NoDangling
  <2>1. \A i \in DOMAIN roots : roots[i] \in FromObjects
    BY DEF HeapInv, SlotsInv, RootDone
  <2>2. \A a \in FromObjects : \A i \in DOMAIN mem[a].fields : mem[a].fields[i] \in FromObjects
    BY DEF HeapInv, FromInv
  <2> QED
    BY <2>1, <2>2 DEF Range
<1> QED
  BY <1>1, HeapInvariant, PTL
=============================================================================
