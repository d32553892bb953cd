-------------------------- MODULE SmHeapCopyProofs --------------------------
(***************************************************************************)
(* Proofs about what a collection of the stack machine does to the         *)
(* objects, for every size of the arena, every bound and every choice of   *)
(* object types: it copies exactly what the roots reach                    *)
(* (CollectionIsExact), objects keep their types, so that the casts of the *)
(* collector and of the interpreter are safe (CastsAreSafe), and no        *)
(* references ever form a ring (ReferenceChainsEnd).                       *)
(*                                                                         *)
(* The argument. CopiesAreExactlyTheLive speaks of the end of a            *)
(* collection. While it runs, to_space holds one copy of each object that  *)
(* has a forwarding pointer, whose fields lead to copies exactly where     *)
(* process_ref has been (CopiesInv), and nothing has one that the roots    *)
(* did not reach when the collection began (LiveInv). At the end every     *)
(* field of every copy has been through process_ref; so what is copied     *)
(* holds the roots and is closed under the fields, and with that holds all *)
(* that is reachable.                                                      *)
(*                                                                         *)
(* The other two are the program's doing and the collector's: the program  *)
(* keeps them because of what it may store where (TypedInv, and a          *)
(* reference is pointed only at what is not a reference), the collector    *)
(* because a copy is as its original.                                      *)
(***************************************************************************)
EXTENDS SmHeapProofs

(* What is reachable holds the roots and is closed under the fields.       *)
LEMMA ReachableClosed ==
  ASSUME NEW g, NEW r
  PROVE  /\ Reachable(g, r) \subseteq DOMAIN g
         /\ r \cap DOMAIN g \subseteq Reachable(g, r)
         /\ \A i \in Reachable(g, r) : PointsAt(g, i) \subseteq Reachable(g, r)
<1>1. Reachable(g, r) \subseteq DOMAIN g
  BY DEF Reachable
<1>2. r \cap DOMAIN g \subseteq Reachable(g, r)
  BY DEF Reachable
<1>3. ASSUME NEW i \in Reachable(g, r), NEW j \in PointsAt(g, i) PROVE j \in Reachable(g, r)
  <2>1. j \in DOMAIN g
    BY <1>3 DEF PointsAt
  <2>2. ASSUME NEW S \in SUBSET DOMAIN g, r \cap DOMAIN g \subseteq S,
               \A k \in S : PointsAt(g, k) \subseteq S
        PROVE  j \in S
    <3>1. i \in S
      BY <2>2 DEF Reachable
    <3> QED
      BY <3>1, <2>2, <1>3
  <2> QED
    BY <2>1, <2>2 DEF Reachable
<1> QED
  BY <1>1, <1>2, <1>3

(* What is reachable lies in every set that holds the roots and is closed  *)
(* under the fields.                                                       *)
LEMMA ReachableLeast ==
  ASSUME NEW g, NEW r, NEW S, S \subseteq DOMAIN g, r \cap DOMAIN g \subseteq S,
         \A i \in S : PointsAt(g, i) \subseteq S
  PROVE  Reachable(g, r) \subseteq S
BY DEF Reachable

(* Reachability depends on nothing but the fields.                         *)
LEMMA ReachableFrom ==
  ASSUME NEW g, NEW h, NEW r, DOMAIN g = DOMAIN h,
         \A i \in DOMAIN g : g[i].fields = h[i].fields
  PROVE  Reachable(g, r) = Reachable(h, r)
<1>1. \A i \in DOMAIN g : PointsAt(g, i) = PointsAt(h, i)
  BY DEF PointsAt
<1> QED
  BY <1>1 DEF Reachable

(* The objects of from_space the roots point at, or pointed at before they *)
(* were forwarded.                                                         *)
OldRoots == {a \in FromObjects : a \in Range(roots) \/ mem[a].fwd \in Range(roots)}

(* Live is the least set that holds the old roots and is closed under the  *)
(* fields.                                                                 *)
LEMMA LiveFacts ==
  /\ Live \subseteq FromObjects
  /\ OldRoots \subseteq Live
  /\ \A a \in Live : \A i \in DOMAIN mem[a].fields :
        mem[a].fields[i] \in FromObjects => mem[a].fields[i] \in Live
  /\ \A S \in SUBSET FromObjects :
        ( /\ OldRoots \subseteq S
          /\ \A a \in S : \A i \in DOMAIN mem[a].fields :
                mem[a].fields[i] \in FromObjects => mem[a].fields[i] \in S )
        => Live \subseteq S
<1> DEFINE g == Restrict(mem, FromObjects)
<1>1. DOMAIN g = FromObjects /\ \A a \in FromObjects : g[a] = mem[a]
  BY DEF Restrict
<1>2. Live = Reachable(g, OldRoots) /\ OldRoots \subseteq DOMAIN g
  BY <1>1 DEF Live, OldRoots
<1>3. \A a \in FromObjects : PointsAt(g, a) = Range(mem[a].fields) \cap FromObjects
  BY <1>1 DEF PointsAt
<1>4. ASSUME NEW a \in Live, NEW i \in DOMAIN mem[a].fields, mem[a].fields[i] \in FromObjects
      PROVE  mem[a].fields[i] \in Live
  <2>1. a \in FromObjects
    BY <1>1, <1>2, ReachableClosed
  <2>2. mem[a].fields[i] \in PointsAt(g, a)
    BY <2>1, <1>3, <1>4 DEF Range
  <2> QED
    BY <2>2, <1>2, ReachableClosed
<1>5. ASSUME NEW S \in SUBSET FromObjects, OldRoots \subseteq S,
             \A a \in S : \A i \in DOMAIN mem[a].fields :
                mem[a].fields[i] \in FromObjects => mem[a].fields[i] \in S
      PROVE  Live \subseteq S
  <2>1. \A a \in S : PointsAt(g, a) \subseteq S
    BY <1>3, <1>5 DEF Range
  <2> HIDE DEF g
  <2> QED
    BY <2>1, <1>1, <1>2, <1>5, ReachableLeast
<1> QED
  BY <1>1, <1>2, <1>4, <1>5, ReachableClosed

(* Live is the same as long as the old roots and the fields in from_space  *)
(* are.                                                                    *)
LEMMA LiveSame ==
  ASSUME FromObjects' = FromObjects, OldRoots' = OldRoots,
         \A a \in FromObjects : mem'[a].fields = mem[a].fields
  PROVE  Live' = Live
<1> DEFINE g == Restrict(mem, FromObjects)
           h == Restrict(mem', FromObjects)
<1>1. DOMAIN g = FromObjects /\ DOMAIN h = FromObjects
      /\ \A a \in FromObjects : g[a] = mem[a] /\ h[a] = mem'[a]
  BY DEF Restrict
<1>2. Live = Reachable(g, OldRoots)
  BY DEF Live, OldRoots
<1>3. Live' = Reachable(Restrict(mem', FromObjects'), OldRoots')
  BY DEF Live, OldRoots
<1>4. Live' = Reachable(h, OldRoots)
  BY <1>3
<1> HIDE DEF g, h
<1>5. Reachable(g, OldRoots) = Reachable(h, OldRoots)
  BY <1>1, ReachableFrom
<1> QED
  BY <1>2, <1>4, <1>5

(* What HeapInv says of the objects of the two spaces, in the form the     *)
(* proofs below use.                                                       *)
LEMMA ObjectsFacts ==
  ASSUME HeapInv
  PROVE  /\ mem \in [DOMAIN mem -> Object] /\ DOMAIN mem \subseteq Addresses
         /\ FromObjects \subseteq DOMAIN mem /\ ToObjects \subseteq DOMAIN mem
         /\ FromObjects \cap ToObjects = {} /\ DOMAIN mem = FromObjects \cup ToObjects
         /\ 0 \notin Addresses
         /\ \A a \in FromObjects : mem[a].fwd \in {NULL} \cup ToObjects
         /\ \A a \in FromObjects : \A i \in DOMAIN mem[a].fields : mem[a].fields[i] \in FromObjects
         /\ \A a \in Copied : mem[a].fwd \in ToObjects /\ a \in FromObjects
         /\ \A a \in DOMAIN mem : DOMAIN mem[a].fields = 1..Len(mem[a].fields)
                                  /\ Len(mem[a].fields) \in Nat
                                  /\ mem[a].fields \in Seq(Addresses)
<1>1. mem \in [DOMAIN mem -> Object] /\ DOMAIN mem \subseteq Addresses
  BY DEF HeapInv, TypeOK
<1>2. 0 \notin Addresses /\ Addresses \subseteq Nat
  BY DEF Addresses
<1>3. FromObjects \cap ToObjects = {}
  BY <1>1, <1>2, SpacesApart DEF FromObjects, ToObjects, HeapInv
<1>4. DOMAIN mem = FromObjects \cup ToObjects
  BY <1>1, <1>2, SpacesApart DEF FromObjects, ToObjects, HeapInv
<1>5. \A a \in FromObjects : /\ mem[a].fwd \in {NULL} \cup ToObjects
                             /\ \A i \in DOMAIN mem[a].fields : mem[a].fields[i] \in FromObjects
  BY DEF HeapInv, FromInv
<1>6. \A a \in Copied : mem[a].fwd \in ToObjects /\ a \in FromObjects
  BY <1>5 DEF Copied
<1>7. \A a \in DOMAIN mem : DOMAIN mem[a].fields = 1..Len(mem[a].fields)
                            /\ Len(mem[a].fields) \in Nat
                            /\ mem[a].fields \in Seq(Addresses)
  BY <1>1, WordsOfType DEF Object
<1> QED
  BY <1>1, <1>2, <1>3, <1>4, <1>5, <1>6, <1>7

(* When nothing is allocated in to_space, there is no object in it and     *)
(* nothing has been copied.                                                *)
LEMMA EmptyToSpace ==
  HeapInv /\ to_space.ptr = to_space.begin => ToObjects = {} /\ Copied = {}
<1> SUFFICES ASSUME HeapInv, to_space.ptr = to_space.begin PROVE ToObjects = {} /\ Copied = {}
  OBVIOUS
<1>1. ToObjects = {}
  <2> SUFFICES ASSUME NEW a \in ToObjects PROVE FALSE
    OBVIOUS
  <2>1. a \in DOMAIN mem /\ a \in Nat /\ a >= to_space.begin /\ mem[a] \in Object
        /\ to_space.begin \in Nat
    BY SpacesApart, ObjectsFacts DEF ToObjects, Contains, Addresses, HeapInv
  <2>2. a + WordsOf(mem[a]) <= to_space.ptr
    BY DEF HeapInv, LayoutInv
  <2>3. WordsOf(mem[a]) \in Nat /\ WordsOf(mem[a]) >= 2
    BY <2>1, WordsOfType
  <2> QED
    BY <2>1, <2>2, <2>3
<1> QED
  BY <1>1, ObjectsFacts

(* Nothing is allocated in to_space.                                       *)
ToSpaceEmpty == to_space.ptr = to_space.begin

(* With an empty to_space, CopiesInv and LiveInv hold.                     *)
LEMMA NothingCopied ==
  HeapInv /\ ToSpaceEmpty => CopiesInv /\ LiveInv /\ ToObjects = {} /\ Copied = {}
BY EmptyToSpace DEF CopiesInv, LiveInv, ToSpaceEmpty

(* The same of the next state.                                             *)
LEMMA NothingCopiedNext ==
  HeapInv' /\ ToSpaceEmpty' => CopiesInv' /\ LiveInv'
BY NothingCopied, PTL

(* What process_ref on a slot that holds p does, whichever slot it is:     *)
(* afterwards p has a copy, which is the one it had or a new one, and the  *)
(* objects of to_space are still the copies of those that have one.        *)
LEMMA CopyMakesCopy ==
  ASSUME HeapInv, CopiesInv, Collecting, NEW p \in FromObjects, RoomFor(p), HeapInv',
         to_space' = ToSpaceAfter(p), from_space' = from_space,
         DOMAIN mem' = DOMAIN MemAfter(p),
         \A a \in DOMAIN mem' :
            /\ mem'[a].type = MemAfter(p)[a].type
            /\ mem'[a].fwd = MemAfter(p)[a].fwd
            /\ Len(mem'[a].fields) = Len(MemAfter(p)[a].fields)
  PROVE  /\ FromObjects' = FromObjects
         /\ \A a \in FromObjects : a # p => mem'[a].fwd = mem[a].fwd
         /\ mem'[p].fwd = Forward(p)
         /\ Copied' = Copied \cup {p}
         /\ ToObjects' = ToObjects \cup {Forward(p)}
         /\ p \in Copied => Forward(p) = mem[p].fwd /\ Forward(p) \in ToObjects
         /\ p \notin Copied => /\ Forward(p) = to_space.ptr /\ Forward(p) \notin ToObjects
                               /\ Forward(p) \notin DOMAIN mem
                               /\ MemAfter(p)[Forward(p)] = mem[p]
                               /\ to_space'.ptr = to_space.ptr + WordsOf(mem[p])
         /\ \A a, b \in Copied' : mem'[a].fwd = mem'[b].fwd => a = b
         /\ \A t \in ToObjects' : \E a \in Copied' : mem'[a].fwd = t
         /\ \A a \in Copied' : LET t == mem'[a].fwd
                               IN  /\ mem'[t].type = mem'[a].type
                                   /\ Len(mem'[t].fields) = Len(mem'[a].fields)
<1> DEFINE n == Forward(p)
           M == MemAfter(p)
<1>1. /\ DOMAIN mem \subseteq Addresses /\ FromObjects \subseteq DOMAIN mem
      /\ ToObjects \subseteq DOMAIN mem
      /\ FromObjects \cap ToObjects = {} /\ DOMAIN mem = FromObjects \cup ToObjects
      /\ 0 \notin Addresses /\ Addresses \subseteq Nat
      /\ \A a \in FromObjects : mem[a].fwd \in {NULL} \cup ToObjects
  BY ObjectsFacts DEF Addresses
<1>2. \A a : /\ Contains(to_space', a) <=> Contains(to_space, a)
             /\ Contains(from_space', a) <=> Contains(from_space, a)
  BY CopyStep DEF Contains
<1>3. /\ DOMAIN mem \subseteq DOMAIN M /\ n \in DOMAIN M /\ Contains(to_space, n)
      /\ M[p].fwd = n
      /\ \A a \in DOMAIN mem : /\ M[a].type = mem[a].type /\ M[a].fields = mem[a].fields
                               /\ a # p => M[a].fwd = mem[a].fwd
      /\ \A a \in DOMAIN M \ DOMAIN mem :
            /\ a = to_space.ptr /\ Contains(to_space, a) /\ M[a] = mem[p] /\ mem[p].fwd = NULL
            /\ a + WordsOf(mem[p]) = to_space'.ptr
      /\ to_space.ptr \in DOMAIN M \ DOMAIN mem \/ to_space' = to_space
  BY CopyStep
<1>4. FromObjects' = FromObjects
  <2>1. \A a \in DOMAIN M \ DOMAIN mem : ~Contains(from_space, a)
    <3>1. \A a \in DOMAIN M : a \in Nat
      BY <1>1, CopyStep
    <3> QED
      BY <3>1, <1>3, SpacesApart DEF HeapInv
  <2> QED
    BY <2>1, <1>2, <1>3 DEF FromObjects
<1>5. n \in Addresses
  BY CopyStep
<1>6. CASE mem[p].fwd # NULL
  <2>1. /\ ~MustCopy(p) /\ n = mem[p].fwd /\ M = mem /\ p \in Copied
    BY <1>6 DEF MustCopy, Forward, FromObjects, MemAfter, Copied
  <2>2. n \in ToObjects
    BY <1>1, <1>6, <2>1
  <2>3. /\ DOMAIN mem' = DOMAIN mem /\ ToObjects' = ToObjects
        /\ \A a \in DOMAIN mem : /\ mem'[a].fwd = mem[a].fwd /\ mem'[a].type = mem[a].type
                                 /\ Len(mem'[a].fields) = Len(mem[a].fields)
    BY <2>1, <1>2 DEF ToObjects
  <2>4. Copied' = Copied
    BY <2>3, <1>1, <1>4 DEF Copied
  <2>5. /\ \A a, b \in Copied : mem[a].fwd = mem[b].fwd => a = b
        /\ \A t \in ToObjects : \E a \in Copied : mem[a].fwd = t
        /\ \A a \in Copied : /\ mem[mem[a].fwd].type = mem[a].type
                             /\ Len(mem[mem[a].fwd].fields) = Len(mem[a].fields)
                             /\ mem[a].fwd \in ToObjects /\ a \in FromObjects
    BY ObjectsFacts DEF CopiesInv, CopyOf
  <2> HIDE DEF n, M
  <2> QED
    BY <2>1, <2>2, <2>3, <2>4, <2>5, <1>1, <1>4 DEF n
<1>7. CASE mem[p].fwd = NULL
  <2>1. /\ MustCopy(p) /\ n = to_space.ptr /\ p \notin Copied
    BY <1>7 DEF MustCopy, Forward, FromObjects, Copied
  <2>2. to_space' = Bump(to_space, WordsOf(mem[p])) /\ M = Evacuated(p)
    BY <2>1 DEF ToSpaceAfter, MemAfter
  <2>3. n \notin DOMAIN mem
    <3> SUFFICES ASSUME n \in DOMAIN mem PROVE FALSE
      OBVIOUS
    <3>1. n \in ToObjects
      BY <1>3 DEF ToObjects
    <3>2. n + WordsOf(mem[n]) <= to_space.ptr
      BY <3>1 DEF HeapInv, LayoutInv
    <3>3. WordsOf(mem[n]) \in Nat /\ WordsOf(mem[n]) >= 2
      BY <3>1, ObjectsFacts, WordsOfType
    <3>4. n \in Nat
      BY <1>1, <1>5
    <3> HIDE DEF n
    <3> QED
      BY <3>2, <3>3, <3>4, <2>1
  <2>4. /\ DOMAIN mem' = DOMAIN mem \cup {n} /\ M[n] = mem[p] /\ p # n
        /\ n + WordsOf(mem[p]) = to_space'.ptr
    <3>1. DOMAIN mem' = DOMAIN M
      OBVIOUS
    <3> HIDE DEF n, M
    <3>2. n \in DOMAIN M \ DOMAIN mem
      BY <1>3, <2>3
    <3>3. M[n] = mem[p] /\ n + WordsOf(mem[p]) = to_space'.ptr
      BY <3>2, <1>3
    <3>4. DOMAIN M = DOMAIN mem \cup {n}
      BY <3>2, <1>3, <2>1
    <3>5. p # n
      BY <2>3, <1>1
    <3> QED
      BY <3>1, <3>3, <3>4, <3>5
  <2>5. ToObjects' = ToObjects \cup {n}
    BY <2>4, <1>2, <1>3 DEF ToObjects
  <2>6. /\ \A a \in DOMAIN mem : /\ a # p => mem'[a].fwd = mem[a].fwd
                                 /\ mem'[a].type = mem[a].type
                                 /\ Len(mem'[a].fields) = Len(mem[a].fields)
        /\ mem'[p].fwd = n /\ mem'[n].type = mem[p].type
        /\ Len(mem'[n].fields) = Len(mem[p].fields)
    BY <2>4, <1>3, <1>1
  <2>7. Copied' = Copied \cup {p}
    <3>1. n # NULL
      BY <1>1, <1>5 DEF NULL
    <3> QED
      BY <3>1, <2>6, <1>1, <1>4 DEF Copied
  <2>8. /\ \A a, b \in Copied : mem[a].fwd = mem[b].fwd => a = b
        /\ \A t \in ToObjects : \E a \in Copied : mem[a].fwd = t
        /\ \A a \in Copied : /\ mem[mem[a].fwd].type = mem[a].type
                             /\ Len(mem[mem[a].fwd].fields) = Len(mem[a].fields)
                             /\ mem[a].fwd \in ToObjects /\ a \in FromObjects
    BY ObjectsFacts DEF CopiesInv, CopyOf
  <2>9. \A a \in Copied : a # p /\ mem'[a].fwd = mem[a].fwd /\ a \in DOMAIN mem
                          /\ mem[a].fwd # n /\ mem[a].fwd \in DOMAIN mem /\ mem[a].fwd # p
    BY <2>1, <2>3, <2>6, <2>8, <1>1
  <2>10. \A a, b \in Copied' : mem'[a].fwd = mem'[b].fwd => a = b
    BY <2>6, <2>7, <2>8, <2>9
  <2>11. \A t \in ToObjects' : \E a \in Copied' : mem'[a].fwd = t
    BY <2>5, <2>6, <2>7, <2>8, <2>9
  <2>12. ASSUME NEW a \in Copied'
         PROVE  /\ mem'[mem'[a].fwd].type = mem'[a].type
                /\ Len(mem'[mem'[a].fwd].fields) = Len(mem'[a].fields)
    <3>1. CASE a = p
      BY <3>1, <2>6, <1>1
    <3>2. CASE a # p
      BY <3>2, <2>6, <2>7, <2>8, <2>9
    <3> QED
      BY <3>1, <3>2
  <2> HIDE DEF n, M
  <2> QED
    BY <2>1, <2>3, <2>4, <2>5, <2>6, <2>7, <2>10, <2>11, <2>12, <1>1, <1>4 DEF n, M
<1> QED
  BY <1>6, <1>7

(* A copy has the type, the size and the number of fields of its original. *)
LEMMA CopiesAlike ==
  ASSUME HeapInv, CopiesInv, NEW a \in Copied
  PROVE  /\ a \in FromObjects /\ mem[a].fwd \in ToObjects
         /\ mem[mem[a].fwd].type = mem[a].type
         /\ Len(mem[mem[a].fwd].fields) = Len(mem[a].fields)
         /\ DOMAIN mem[mem[a].fwd].fields = DOMAIN mem[a].fields
         /\ DOMAIN mem[a].fields = 1..Len(mem[a].fields)
         /\ WordsOf(mem[mem[a].fwd]) = WordsOf(mem[a])
         /\ \A i \in DOMAIN mem[a].fields :
               /\ mem[a].fields[i] \in FromObjects
               /\ mem[mem[a].fwd].fields[i] =
                    IF FieldDone(mem[a].fwd, i) THEN mem[mem[a].fields[i]].fwd
                                                ELSE mem[a].fields[i]
<1>1. a \in FromObjects /\ mem[a].fwd \in ToObjects
  BY ObjectsFacts
<1>2. CopyOf(a, mem[a].fwd)
  BY DEF CopiesInv
<1>3. /\ DOMAIN mem[a].fields = 1..Len(mem[a].fields)
      /\ DOMAIN mem[mem[a].fwd].fields = 1..Len(mem[mem[a].fwd].fields)
      /\ \A i \in DOMAIN mem[a].fields : mem[a].fields[i] \in FromObjects
  BY <1>1, ObjectsFacts
<1> QED
  BY <1>1, <1>2, <1>3 DEF CopyOf, WordsOf

(* FieldDone, of the next state, with the field as a rigid parameter.      *)
FieldDoneNext(t, i) ==
  gc'.phase = "scan" /\ (t < gc'.scanned \/ (t = gc'.scanned /\ i < gc'.next))

(* CopiesInv of the next state, put together from its parts.               *)
LEMMA CopiesInvNext ==
  ASSUME HeapInv', \A a, b \in Copied' : mem'[a].fwd = mem'[b].fwd => a = b,
         \A t \in ToObjects' : \E a \in Copied' : mem'[a].fwd = t,
         \A a \in Copied' :
            /\ mem'[mem'[a].fwd].type = mem'[a].type
            /\ Len(mem'[mem'[a].fwd].fields) = Len(mem'[a].fields)
            /\ \A i \in DOMAIN mem'[a].fields :
                  mem'[mem'[a].fwd].fields[i] =
                    IF FieldDoneNext(mem'[a].fwd, i) THEN mem'[mem'[a].fields[i]].fwd
                                                     ELSE mem'[a].fields[i]
  PROVE  CopiesInv'
<1>1. ASSUME NEW a \in Copied' PROVE CopyOf(a, mem[a].fwd)'
  <2> DEFINE t == mem'[a].fwd
  <2>1. /\ mem'[t].type = mem'[a].type
        /\ Len(mem'[t].fields) = Len(mem'[a].fields)
        /\ \A i \in DOMAIN mem'[a].fields :
              mem'[t].fields[i] = IF FieldDoneNext(t, i) THEN mem'[mem'[a].fields[i]].fwd
                                                         ELSE mem'[a].fields[i]
    OBVIOUS
  <2> QED
    BY <2>1 DEF CopyOf, FieldDone, FieldDoneNext
<1> QED
  BY <1>1 DEF CopiesInv

(* Forwarding a root keeps CopiesInv and LiveInv: what is copied is what a *)
(* root reaches.                                                           *)
LEMMA ProcessRootCopies ==
  ASSUME HeapInv, CopiesInv, LiveInv, ProcessRoot, HeapInv'
  PROVE  CopiesInv' /\ LiveInv' /\ Live' = Live
<1> DEFINE k == gc.next
           p == roots[k]
           n == Forward(p)
<1>1. /\ gc.phase = "roots" /\ Collecting /\ RoomFor(p) /\ gc \in Control
      /\ roots \in Seq(Addresses) /\ k \in DOMAIN roots /\ k \in Nat
      /\ DOMAIN roots = 1..Len(roots)
  BY DEF ProcessRoot, HeapInv, TypeOK, Collecting, Control
<1>2. /\ mem' = MemAfter(p) /\ to_space' = ToSpaceAfter(p) /\ from_space' = from_space
      /\ roots' = [roots EXCEPT ![k] = n] /\ gc'.phase = "roots"
  BY <1>1 DEF ProcessRoot, Control
<1>3. p \in FromObjects
  BY <1>1 DEF HeapInv, SlotsInv, RootDone
<1>4. /\ FromObjects' = FromObjects
      /\ \A a \in FromObjects : a # p => mem'[a].fwd = mem[a].fwd
      /\ mem'[p].fwd = n
      /\ Copied' = Copied \cup {p}
      /\ ToObjects' = ToObjects \cup {n}
      /\ p \in Copied => n = mem[p].fwd /\ n \in ToObjects
      /\ p \notin Copied => n \notin DOMAIN mem /\ mem'[n] = mem[p]
      /\ \A a, b \in Copied' : mem'[a].fwd = mem'[b].fwd => a = b
      /\ \A t \in ToObjects' : \E a \in Copied' : mem'[a].fwd = t
      /\ \A a \in Copied' : LET t == mem'[a].fwd
                            IN  /\ mem'[t].type = mem'[a].type
                                /\ Len(mem'[t].fields) = Len(mem'[a].fields)
  BY <1>1, <1>2, <1>3, CopyMakesCopy
<1>5. /\ \A a \in DOMAIN mem : mem'[a].fields = mem[a].fields
      /\ FromObjects \subseteq DOMAIN mem /\ ToObjects \subseteq DOMAIN mem
      /\ FromObjects \cap ToObjects = {} /\ 0 \notin Addresses
      /\ \A a \in FromObjects : mem[a].fwd \in {NULL} \cup ToObjects
  <2>1. \A a \in DOMAIN mem : mem'[a].fields = mem[a].fields
    BY <1>1, <1>2, <1>3, CopyStep
  <2> QED
    BY <2>1, ObjectsFacts
<1>6. \A t, i : ~FieldDone(t, i) /\ ~FieldDoneNext(t, i)
  BY <1>1, <1>2 DEF FieldDone, FieldDoneNext
<1>7. CopiesInv'
  <2>1. ASSUME NEW a \in Copied', NEW i \in DOMAIN mem'[a].fields
        PROVE  mem'[mem'[a].fwd].fields[i] = mem'[a].fields[i]
    <3> HIDE DEF n, p
    <3>1. a \in FromObjects /\ mem'[a].fields = mem[a].fields
      BY <1>3, <1>4, <1>5, ObjectsFacts
    <3>2. CASE a \in Copied
      <4>1. mem'[a].fwd = mem[a].fwd
        BY <3>1, <3>2, <1>4
      <4>2. mem[a].fwd \in DOMAIN mem /\ mem[mem[a].fwd].fields[i] = mem[a].fields[i]
        BY <3>1, <3>2, <1>5, <1>6, CopiesAlike
      <4> QED
        BY <4>1, <4>2, <3>1, <1>5
    <3>3. CASE a \notin Copied
      BY <3>1, <3>3, <1>4
    <3> QED
      BY <3>2, <3>3
  <2> HIDE DEF n, p
  <2> QED
    BY <2>1, <1>4, <1>6, CopiesInvNext
<1>8. OldRoots' = OldRoots
  <2>1. n \in ToObjects' /\ n \notin FromObjects
    <3>1. n \in ToObjects'
      BY <1>4
    <3> QED
      BY <3>1, <1>3, <1>4, <1>5, ObjectsFacts
  <2> HIDE DEF n, p
  <2>2. ASSUME NEW a \in OldRoots PROVE a \in OldRoots'
    <3>1. a \in FromObjects
      BY DEF OldRoots
    <3>2. CASE a \in Range(roots)
      <4>1. PICK i \in DOMAIN roots : roots[i] = a
        BY <3>2 DEF Range
      <4>2. CASE i = k
        <5>1. a = p /\ mem'[a].fwd = n /\ n = roots'[k] /\ k \in DOMAIN roots'
          BY <4>1, <4>2, <1>1, <1>2, <1>4 DEF p
        <5> QED
          BY <5>1, <3>1, <1>4 DEF OldRoots, Range
      <4>3. CASE i # k
        <5>1. roots'[i] = a /\ i \in DOMAIN roots'
          BY <4>1, <4>3, <1>1, <1>2
        <5> QED
          BY <5>1, <3>1, <1>4 DEF OldRoots, Range
      <4> QED
        BY <4>2, <4>3
    <3>3. CASE mem[a].fwd \in Range(roots)
      <4>1. PICK i \in DOMAIN roots : roots[i] = mem[a].fwd
        BY <3>3 DEF Range
      <4>2. roots[i] \in Addresses
        BY <1>1
      <4>3. mem[a].fwd \in ToObjects /\ a \in Copied
        BY <4>1, <4>2, <3>1, <1>5 DEF NULL, Copied
      <4>4. i # k
        BY <4>1, <4>3, <1>3, <1>5 DEF p
      <4>5. mem'[a].fwd = mem[a].fwd
        BY <4>3, <3>1, <1>4
      <4>6. roots'[i] = mem'[a].fwd /\ i \in DOMAIN roots'
        BY <4>1, <4>4, <4>5, <1>1, <1>2
      <4> QED
        BY <4>6, <3>1, <1>4 DEF OldRoots, Range
    <3> QED
      BY <3>2, <3>3 DEF OldRoots
  <2>3. ASSUME NEW a \in OldRoots' PROVE a \in OldRoots
    <3>1. a \in FromObjects /\ p \in Range(roots)
      BY <1>1, <1>4 DEF OldRoots, Range, p
    <3>2. DOMAIN roots' = DOMAIN roots /\ roots'[k] = n
          /\ \A i \in DOMAIN roots : i # k => roots'[i] = roots[i]
      BY <1>1, <1>2
    <3>3. CASE a = p
      BY <3>1, <3>3 DEF OldRoots
    <3>4. CASE a # p
      <4>1. mem'[a].fwd = mem[a].fwd
        BY <3>1, <3>4, <1>4
      <4>2. CASE a \in Range(roots')
        <5>1. PICK i \in DOMAIN roots : roots'[i] = a
          BY <4>2, <3>2 DEF Range
        <5>2. i # k
          BY <5>1, <3>1, <3>2, <2>1
        <5> QED
          BY <5>1, <5>2, <3>1, <3>2 DEF OldRoots, Range
      <4>3. CASE mem'[a].fwd \in Range(roots')
        <5>1. PICK i \in DOMAIN roots : roots'[i] = mem'[a].fwd
          BY <4>3, <3>2 DEF Range
        <5>2. CASE i = k
          <6>1. mem'[a].fwd = mem'[p].fwd
            BY <5>1, <5>2, <3>2, <1>4
          <6>2. mem[a].fwd # NULL
            <7>1. mem'[p].fwd \in DOMAIN mem'
              BY <1>4, <2>1, ObjectsFacts DEF ToObjects
            <7>2. mem'[p].fwd \in Addresses
              BY <7>1 DEF HeapInv, TypeOK
            <7> QED
              BY <6>1, <4>1, <7>2, <1>5 DEF NULL
          <6>3. a \in Copied' /\ p \in Copied'
            BY <6>2, <3>1, <1>4 DEF Copied
          <6> QED
            BY <6>1, <6>3, <3>4, <1>4
        <5>3. CASE i # k
          BY <5>1, <5>3, <3>1, <3>2, <4>1 DEF OldRoots, Range
        <5> QED
          BY <5>2, <5>3
      <4> QED
        BY <4>2, <4>3 DEF OldRoots
    <3> QED
      BY <3>3, <3>4
  <2> QED
    BY <2>2, <2>3
<1>9. Live' = Live
  BY <1>4, <1>5, <1>8, LiveSame
<1>10. p \in Live
  <2>1. p \in OldRoots
    BY <1>1, <1>3 DEF OldRoots, Range
  <2> QED
    BY <2>1, LiveFacts
<1> QED
  BY <1>4, <1>7, <1>9, <1>10 DEF LiveInv

(* Forwarding a field keeps CopiesInv and LiveInv: the object scanned is a *)
(* copy of a live one, whose field reaches what is copied.                 *)
LEMMA ScanFieldCopies ==
  ASSUME HeapInv, CopiesInv, LiveInv, ScanField, HeapInv'
  PROVE  CopiesInv' /\ LiveInv' /\ Live' = Live
<1> DEFINE s == gc.scanned
           k == gc.next
           p == mem[s].fields[k]
           n == Forward(p)
           M == MemAfter(p)
<1>1. /\ gc.phase = "scan" /\ Collecting /\ RoomFor(p)
      /\ s < to_space.ptr /\ k \in Nat /\ s \in Nat
      /\ s \in ToObjects /\ s \in DOMAIN mem /\ s \notin FromObjects
      /\ k \in DOMAIN mem[s].fields /\ p \in FromObjects
      /\ DOMAIN mem' = DOMAIN M /\ mem' \in [DOMAIN mem' -> Object]
      /\ \A a \in DOMAIN M : a # s => mem'[a] = M[a]
      /\ mem'[s].type = M[s].type /\ mem'[s].fwd = M[s].fwd
      /\ DOMAIN mem'[s].fields = DOMAIN mem[s].fields
      /\ Len(mem'[s].fields) = Len(mem[s].fields)
      /\ mem'[s].fields[k] = n
      /\ \A i \in DOMAIN mem[s].fields : i # k => mem'[s].fields[i] = mem[s].fields[i]
      /\ to_space' = ToSpaceAfter(p) /\ from_space' = from_space /\ roots' = roots
      /\ gc'.phase = "scan" /\ gc'.next = k + 1 /\ gc'.scanned = s
  BY ScanFieldEffect
<1>2. /\ DOMAIN mem \subseteq DOMAIN M
      /\ \A a \in DOMAIN mem : M[a].fields = mem[a].fields
  BY <1>1, CopyStep
<1>3. /\ FromObjects \subseteq DOMAIN mem /\ ToObjects \subseteq DOMAIN mem
      /\ FromObjects \cap ToObjects = {} /\ 0 \notin Addresses
      /\ DOMAIN mem \subseteq Nat /\ to_space.ptr \in Nat
      /\ \A a \in FromObjects : mem[a].fwd \in {NULL} \cup ToObjects
      /\ \A a \in ToObjects : a < to_space.ptr
  <2>1. \A a \in ToObjects : a + WordsOf(mem[a]) <= to_space.ptr
    BY DEF HeapInv, LayoutInv
  <2>2. \A a \in ToObjects : WordsOf(mem[a]) \in Nat /\ WordsOf(mem[a]) >= 2 /\ a \in Nat
    BY ObjectsFacts, WordsOfType DEF Addresses
  <2>3. to_space.ptr \in Nat
    BY DEF HeapInv, TypeOK, Space
  <2>4. \A a \in ToObjects : a < to_space.ptr
    BY <2>1, <2>2, <2>3
  <2> QED
    BY <2>3, <2>4, ObjectsFacts DEF Addresses
<1>4. /\ FromObjects' = FromObjects
      /\ \A a \in FromObjects : a # p => mem'[a].fwd = mem[a].fwd
      /\ mem'[p].fwd = n
      /\ Copied' = Copied \cup {p}
      /\ ToObjects' = ToObjects \cup {n}
      /\ p \in Copied => n = mem[p].fwd /\ n \in ToObjects
      /\ p \notin Copied => n = to_space.ptr /\ n \notin DOMAIN mem /\ M[n] = mem[p]
                            /\ n \notin ToObjects
      /\ \A a, b \in Copied' : mem'[a].fwd = mem'[b].fwd => a = b
      /\ \A t \in ToObjects' : \E a \in Copied' : mem'[a].fwd = t
      /\ \A a \in Copied' : LET t == mem'[a].fwd
                            IN  /\ mem'[t].type = mem'[a].type
                                /\ Len(mem'[t].fields) = Len(mem'[a].fields)
  <2>1. \A a \in DOMAIN mem' :
            /\ mem'[a].type = M[a].type
            /\ mem'[a].fwd = M[a].fwd
            /\ Len(mem'[a].fields) = Len(M[a].fields)
    BY <1>1, <1>2
  <2> HIDE DEF s, k, p
  <2> QED
    BY <1>1, <2>1, CopyMakesCopy
<1>5. \A a \in FromObjects : a # s /\ mem'[a].fields = mem[a].fields
  BY <1>1, <1>2, <1>3
<1>6. \A t, i : /\ FieldDone(t, i) <=> t < s \/ (t = s /\ i < k)
                /\ FieldDoneNext(t, i) <=> t < s \/ (t = s /\ i < k + 1)
  BY <1>1 DEF FieldDone, FieldDoneNext
<1> HIDE DEF s, k, p, n, M
<1>7. CopiesInv'
  <2>1. ASSUME NEW a \in Copied', NEW i \in DOMAIN mem'[a].fields
        PROVE  mem'[mem'[a].fwd].fields[i] =
                 IF FieldDoneNext(mem'[a].fwd, i) THEN mem'[mem'[a].fields[i]].fwd
                                                  ELSE mem'[a].fields[i]
    <3>1. a \in FromObjects /\ mem'[a].fields = mem[a].fields /\ a \in DOMAIN mem
          /\ DOMAIN mem[a].fields = 1..Len(mem[a].fields) /\ i \in Nat
          /\ mem[a].fields[i] \in FromObjects
      BY <1>1, <1>3, <1>4, <1>5, ObjectsFacts
    <3>2. CASE a \in Copied
      <4> DEFINE t == mem[a].fwd
      <4>1. mem'[a].fwd = t
        BY <3>1, <3>2, <1>4
      <4>2. /\ t \in ToObjects /\ t \in DOMAIN mem /\ t \in Nat
            /\ i \in DOMAIN mem[t].fields
            /\ mem[t].fields[i] = IF FieldDone(t, i) THEN mem[mem[a].fields[i]].fwd
                                                     ELSE mem[a].fields[i]
        BY <3>1, <3>2, <1>3, CopiesAlike
      <4> HIDE DEF t
      <4>3. ASSUME FieldDone(t, i)
            PROVE  mem'[mem[a].fields[i]].fwd = mem[mem[a].fields[i]].fwd
        <5>1. mem[t].fields[i] \in ToObjects
          BY <4>2, <4>3 DEF HeapInv, SlotsInv
        <5>2. mem[a].fields[i] \in Copied
          BY <5>1, <4>2, <4>3, <3>1, ObjectsFacts DEF Copied, NULL
        <5> QED
          BY <5>2, <3>1, <1>4
      <4>4. CASE t # s
        <5>1. mem'[t].fields = mem[t].fields
          BY <4>2, <4>4, <1>1, <1>2
        <5>2. FieldDoneNext(t, i) <=> FieldDone(t, i)
          BY <4>4, <1>6
        <5> QED
          BY <5>1, <5>2, <4>1, <4>2, <4>3, <3>1
      <4>5. CASE t = s /\ i # k
        <5>1. mem'[t].fields[i] = mem[t].fields[i]
          BY <4>2, <4>5, <1>1
        <5>2. FieldDoneNext(t, i) <=> FieldDone(t, i)
          BY <4>2, <4>5, <3>1, <1>1, <1>6
        <5> QED
          BY <5>1, <5>2, <4>1, <4>2, <4>3, <3>1
      <4>6. CASE t = s /\ i = k
        <5>1. mem'[t].fields[i] = n /\ FieldDoneNext(t, i) /\ ~FieldDone(t, i)
          BY <4>2, <4>6, <3>1, <1>1, <1>6
        <5>2. mem[a].fields[i] = p
          BY <5>1, <4>2, <4>6 DEF p
        <5> QED
          BY <5>1, <5>2, <4>1, <3>1, <1>4
      <4> QED
        BY <4>4, <4>5, <4>6
    <3>3. CASE a \notin Copied
      <4>1. a = p /\ mem'[a].fwd = n /\ n = to_space.ptr /\ n \notin DOMAIN mem /\ M[n] = mem[p]
        BY <3>3, <1>4
      <4>2. n # s /\ n \in DOMAIN mem' /\ ~FieldDoneNext(n, i)
        <5>1. n \in DOMAIN mem'
          BY <1>4 DEF ToObjects
        <5> QED
          BY <5>1, <4>1, <1>1, <1>3, <1>6
      <4>3. mem'[n] = mem[p]
        BY <4>1, <4>2, <1>1
      <4> QED
        BY <4>1, <4>2, <4>3, <3>1
    <3> QED
      BY <3>2, <3>3
  <2> QED
    BY <2>1, <1>4, CopiesInvNext
<1>8. OldRoots' = OldRoots
  <2>1. \A i \in DOMAIN roots : roots[i] \in ToObjects
    BY <1>1 DEF HeapInv, SlotsInv, RootDone
  <2>2. Range(roots) \subseteq ToObjects
    BY <2>1 DEF Range
  <2>3. \A a \in FromObjects : mem'[a].fwd \in Range(roots) <=> mem[a].fwd \in Range(roots)
    <3> SUFFICES ASSUME mem'[p].fwd # mem[p].fwd
                 PROVE  mem'[p].fwd \notin ToObjects /\ mem[p].fwd \notin ToObjects
      BY <2>2, <1>4
    <3>1. p \notin Copied
      BY <1>4
    <3> QED
      BY <3>1, <1>1, <1>3, <1>4 DEF Copied, NULL, ToObjects
  <2> QED
    BY <2>2, <2>3, <1>1, <1>4 DEF OldRoots
<1>9. Live' = Live
  BY <1>4, <1>5, <1>8, LiveSame
<1>10. p \in Live
  <2>1. PICK a \in Copied : mem[a].fwd = s
    BY <1>1 DEF CopiesInv
  <2>2. ~FieldDone(s, k)
    BY <1>1, <1>6
  <2>3. k \in DOMAIN mem[a].fields /\ mem[a].fields[k] = p
    BY <2>1, <2>2, <1>1, CopiesAlike DEF p
  <2>4. a \in Live
    BY <2>1 DEF LiveInv
  <2> QED
    BY <2>3, <2>4, <1>1, LiveFacts
<1> QED
  BY <1>4, <1>7, <1>9, <1>10 DEF LiveInv

(* Going on to the scan, or to the next object, changes neither the copies *)
(* nor which fields are done.                                              *)
LEMMA ScanMovesCopies ==
  ASSUME HeapInv, CopiesInv, LiveInv, RootsDone \/ ScanNext, HeapInv'
  PROVE  CopiesInv' /\ LiveInv' /\ Live' = Live
<1>1. mem' = mem /\ from_space' = from_space /\ to_space' = to_space /\ roots' = roots
  BY DEF RootsDone, ScanNext
<1>2. FromObjects' = FromObjects /\ ToObjects' = ToObjects /\ Copied' = Copied
      /\ OldRoots' = OldRoots
  BY <1>1 DEF FromObjects, ToObjects, Copied, OldRoots
<1>3. Live' = Live
  BY <1>1, <1>2, LiveSame
<1>4. ASSUME NEW t \in ToObjects, NEW i \in DOMAIN mem[t].fields
      PROVE  FieldDoneNext(t, i) <=> FieldDone(t, i)
  <2>1. /\ t \in Nat /\ t \in DOMAIN mem /\ mem[t] \in Object /\ Contains(to_space, t)
        /\ i \in Nat /\ i >= 1 /\ i <= Len(mem[t].fields)
        /\ gc \in Control
    BY ObjectsFacts DEF Addresses, HeapInv, TypeOK, ToObjects
  <2>2. CASE RootsDone
    <3>1. /\ gc.phase = "roots" /\ gc'.phase = "scan" /\ gc'.next = 1
          /\ gc'.scanned = gc.scanned /\ gc.scanned = to_space.begin
      BY <2>1, <2>2 DEF RootsDone, Control, HeapInv, SlotsInv
    <3>2. ~FieldDone(t, i)
      BY <3>1 DEF FieldDone
    <3>3. to_space.begin <= t /\ to_space.begin \in Nat
      BY <2>1, SpacesApart DEF Contains, HeapInv
    <3>4. ~FieldDoneNext(t, i)
      BY <3>1, <3>3, <2>1 DEF FieldDoneNext
    <3> QED
      BY <3>2, <3>4
  <2>3. CASE ScanNext
    <3> DEFINE s == gc.scanned
               w == WordsOf(mem[s])
    <3>1. /\ gc.phase = "scan" /\ s < to_space.ptr /\ gc.next > Len(mem[s].fields)
          /\ gc'.phase = "scan" /\ gc'.next = 1 /\ gc'.scanned = s + w /\ s \in Nat
          /\ gc.next \in Nat
      BY <2>1, <2>3 DEF ScanNext, Scanning, Control
    <3>2. s \in ToObjects
      BY <3>1 DEF HeapInv, SlotsInv, Collecting, TypeOK, Space
    <3>3. w \in Nat /\ w >= 2
      BY <3>2, ObjectsFacts, WordsOfType
    <3>4. s < t => s + w <= t
      BY <3>2 DEF HeapInv, LayoutInv
    <3>5. FieldDoneNext(t, i) <=> (t < s + w \/ (t = s + w /\ i < 1))
      BY <3>1 DEF FieldDoneNext
    <3>6. FieldDone(t, i) <=> (t < s \/ (t = s /\ i < gc.next))
      BY <3>1 DEF FieldDone
    <3>7. t = s => i < gc.next
      BY <2>1, <3>1, ObjectsFacts
    <3> HIDE DEF s, w
    <3> QED
      BY <2>1, <3>1, <3>3, <3>4, <3>5, <3>6, <3>7
  <2> QED
    BY <2>2, <2>3
<1>5. ASSUME NEW a \in Copied
      PROVE  /\ mem[mem[a].fwd].type = mem[a].type
             /\ Len(mem[mem[a].fwd].fields) = Len(mem[a].fields)
             /\ \A i \in DOMAIN mem[a].fields :
                   mem[mem[a].fwd].fields[i] =
                     IF FieldDoneNext(mem[a].fwd, i) THEN mem[mem[a].fields[i]].fwd
                                                     ELSE mem[a].fields[i]
  BY <1>4, CopiesAlike
<1>6. /\ \A a, b \in Copied : mem[a].fwd = mem[b].fwd => a = b
      /\ \A t \in ToObjects : \E a \in Copied : mem[a].fwd = t
  BY DEF CopiesInv
<1>7. CopiesInv'
  BY <1>1, <1>2, <1>5, <1>6, CopiesInvNext
<1> QED
  BY <1>2, <1>3, <1>7 DEF LiveInv

(* After any other step to_space is empty, or nothing has changed.         *)
LEMMA WhoCopies ==
  ASSUME HeapInv, [Next]_vars
  PROVE  \/ ToSpaceEmpty'
         \/ ProcessRoot \/ ScanField \/ RootsDone \/ ScanNext
         \/ UNCHANGED vars
<1>1. ~Collecting => to_space.ptr = to_space.begin
  BY DEF HeapInv, SpacesInv
<1>2. ASSUME Program \/ Resume \/ OutOfMemory PROVE ToSpaceEmpty'
  <2>1. to_space' = to_space /\ ~Collecting
    BY <1>2, ProgramIsIdle DEF Allocated, Resume, OutOfMemory, Collecting
  <2> QED
    BY <2>1, <1>1 DEF ToSpaceEmpty
<1>3. ASSUME Finish \/ FinishCollectsAgain PROVE ToSpaceEmpty'
  <2>1. to_space' = [from_space EXCEPT !.ptr = from_space.begin] /\ from_space \in Space
    BY <1>3 DEF Finish, FinishCollectsAgain, HeapInv, TypeOK
  <2> QED
    BY <2>1 DEF ToSpaceEmpty, Space
<1> QED
  BY <1>2, <1>3 DEF Next, Collector, Stopped

(* Every step keeps CopiesInv and LiveInv.                                 *)
LEMMA CopiesKept ==
  ASSUME HeapInv, CopiesInv, LiveInv, [Next]_vars, HeapInv'
  PROVE  CopiesInv' /\ LiveInv'
<1>1. CASE ToSpaceEmpty'
  BY <1>1, NothingCopiedNext
<1>2. CASE UNCHANGED vars
  <2>1. mem' = mem /\ from_space' = from_space /\ to_space' = to_space /\ roots' = roots
        /\ gc' = gc
    BY <1>2 DEF vars
  <2>2. FromObjects' = FromObjects /\ ToObjects' = ToObjects /\ Copied' = Copied
        /\ OldRoots' = OldRoots
    BY <2>1 DEF FromObjects, ToObjects, Copied, OldRoots
  <2>3. Live' = Live
    BY <2>1, <2>2, LiveSame
  <2>4. \A a, t : CopyOf(a, t)' <=> CopyOf(a, t)
    BY <2>1 DEF CopyOf, FieldDone
  <2> QED
    BY <2>1, <2>2, <2>3, <2>4 DEF CopiesInv, LiveInv, CopyOf, FieldDone
<1> QED
  BY <1>1, <1>2, WhoCopies, ProcessRootCopies, ScanFieldCopies, ScanMovesCopies

(* At any moment of a collection to_space holds one copy of each object    *)
(* that was forwarded, and no more, and only what the roots reach was      *)
(* (process_ref and evacuate, gc_heap.hpp).                                *)
THEOREM CopiesInvariant == Spec => [](CopiesInv /\ LiveInv)
<1>1. Init => CopiesInv /\ LiveInv
  <2>1. Init => HeapInv /\ ToSpaceEmpty
    BY InitKeeps DEF Init, ToSpaceEmpty
  <2> QED
    BY <2>1, NothingCopied
<1>2. HeapInv /\ HeapInv' /\ [Next]_vars /\ CopiesInv /\ LiveInv => (CopiesInv /\ LiveInv)'
  BY CopiesKept
<1> QED
  BY <1>1, <1>2, HeapInvariant, PTL DEF Spec

(* When the scan is done, everything live has been copied, and the fields  *)
(* of the copies lead to the copies.                                       *)
LEMMA ScanDoneCopies ==
  ASSUME HeapInv, CopiesInv, ScanDone
  PROVE  /\ Live \subseteq Copied
         /\ \A a \in Copied : \A i \in DOMAIN mem[a].fields :
               /\ mem[a].fields[i] \in Copied
               /\ mem[mem[a].fwd].fields[i] = mem[mem[a].fields[i]].fwd
<1>1. ASSUME NEW a \in Copied, NEW i \in DOMAIN mem[a].fields
      PROVE  /\ mem[a].fields[i] \in Copied
             /\ mem[mem[a].fwd].fields[i] = mem[mem[a].fields[i]].fwd
  <2>1. /\ mem[a].fwd \in ToObjects /\ i \in DOMAIN mem[mem[a].fwd].fields
        /\ mem[a].fields[i] \in FromObjects
        /\ \/ mem[mem[a].fwd].fields[i] = mem[mem[a].fields[i]].fwd
           \/ mem[mem[a].fwd].fields[i] = mem[a].fields[i]
    BY CopiesAlike
  <2>2. mem[mem[a].fwd].fields[i] \in ToObjects
    BY <2>1, ScanDoneSlots
  <2>3. mem[mem[a].fwd].fields[i] = mem[mem[a].fields[i]].fwd
    BY <2>1, <2>2, ObjectsFacts
  <2>4. mem[mem[a].fields[i]].fwd # NULL
    BY <2>2, <2>3, ObjectsFacts DEF NULL
  <2> QED
    BY <2>1, <2>3, <2>4 DEF Copied
<1>2. Range(roots) \subseteq ToObjects
  BY ScanDoneSlots DEF Range
<1>3. OldRoots \subseteq Copied
  BY <1>2, ObjectsFacts DEF OldRoots, Copied, NULL
<1>4. Copied \in SUBSET FromObjects
  BY DEF Copied
<1>5. Live \subseteq Copied
  BY <1>1, <1>3, <1>4, LiveFacts
<1> QED
  BY <1>1, <1>5

(* A collection copies what the roots reach and nothing else, each object  *)
(* once, and the copies point at each other as the originals did           *)
(* (Heap::collect, gc_heap.hpp).                                           *)
THEOREM CollectionIsExact == Spec => []CopiesAreExactlyTheLive
<1>1. HeapInv /\ CopiesInv /\ LiveInv => CopiesAreExactlyTheLive
  <2> SUFFICES ASSUME HeapInv, CopiesInv, LiveInv, ScanDone
               PROVE  /\ {a \in FromObjects : mem[a].fwd # NULL} = Live
                      /\ ToObjects = {mem[a].fwd : a \in Live}
                      /\ \A a, b \in Live : mem[a].fwd = mem[b].fwd => a = b
                      /\ \A a \in Live : LET copy == mem[mem[a].fwd]
                                         IN  /\ copy.type = mem[a].type
                                             /\ copy.fields = [i \in DOMAIN mem[a].fields |->
                                                                 mem[mem[a].fields[i]].fwd]
    BY DEF CopiesAreExactlyTheLive
  <2>1. Copied = Live /\ Copied = {a \in FromObjects : mem[a].fwd # NULL}
    BY ScanDoneCopies DEF LiveInv, Copied
  <2>2. ToObjects = {mem[a].fwd : a \in Copied}
    BY ObjectsFacts DEF CopiesInv
  <2>3. ASSUME NEW a \in Copied
        PROVE  /\ mem[mem[a].fwd].type = mem[a].type
               /\ mem[mem[a].fwd].fields = [i \in DOMAIN mem[a].fields |->
                                              mem[mem[a].fields[i]].fwd]
    <3> DEFINE t == mem[a].fwd
    <3>1. /\ t \in DOMAIN mem /\ mem[t].type = mem[a].type
          /\ DOMAIN mem[t].fields = DOMAIN mem[a].fields
          /\ \A i \in DOMAIN mem[a].fields : mem[t].fields[i] = mem[mem[a].fields[i]].fwd
      BY CopiesAlike, ScanDoneCopies, ObjectsFacts
    <3>2. mem[t].fields \in Seq(Addresses)
      BY <3>1, ObjectsFacts
    <3>3. mem[t].fields = [i \in DOMAIN mem[t].fields |-> mem[t].fields[i]]
      BY <3>2
    <3> HIDE DEF t
    <3>4. mem[t].fields = [i \in DOMAIN mem[a].fields |-> mem[mem[a].fields[i]].fwd]
      BY <3>1, <3>3
    <3> QED
      BY <3>1, <3>4 DEF t
  <2> QED
    BY <2>1, <2>2, <2>3 DEF CopiesInv
<1> QED
  BY <1>1, HeapInvariant, CopiesInvariant, PTL

(* What WellTyped asks of one field: the type of the object it lies in,    *)
(* and of the object it points at.                                         *)
TypedSlot(owner, t) ==
  CASE owner = "Array" -> t = "ArrayData"
    [] owner \in {"ArrayData", "Tuple", "Func"} -> t = "Ref"
    [] OTHER -> t # "ArrayData"

(* Every pointer in a root or in an object leads to an object, in either   *)
(* space.                                                                  *)
LEMMA AllPointers ==
  ASSUME HeapInv
  PROVE  /\ \A a \in DOMAIN mem : \A i \in DOMAIN mem[a].fields : mem[a].fields[i] \in DOMAIN mem
         /\ \A i \in DOMAIN roots : roots[i] \in DOMAIN mem
<1>1. FromObjects \cup ToObjects = DOMAIN mem
  BY ObjectsFacts
<1>2. \A a \in FromObjects : \A i \in DOMAIN mem[a].fields : mem[a].fields[i] \in FromObjects
  BY ObjectsFacts
<1>3. /\ \A i \in DOMAIN roots : roots[i] \in ToObjects \cup FromObjects
      /\ \A a \in ToObjects : \A i \in DOMAIN mem[a].fields :
            mem[a].fields[i] \in ToObjects \cup FromObjects
  BY DEF HeapInv, SlotsInv
<1> QED
  BY <1>1, <1>2, <1>3

(* A step keeps TypedInv if every slot, afterwards, either is as TypedInv  *)
(* wants it or is like one there was before.                               *)
LEMMA TypedStep ==
  ASSUME TypedInv,
         \A a \in DOMAIN mem' : \A i \in DOMAIN mem'[a].fields :
            \/ TypedSlot(mem'[a].type, mem'[mem'[a].fields[i]].type)
            \/ \E b \in DOMAIN mem : \E j \in DOMAIN mem[b].fields :
                  /\ mem'[a].type = mem[b].type
                  /\ mem'[mem'[a].fields[i]].type = mem[mem[b].fields[j]].type,
         \A i \in DOMAIN roots' :
            \/ mem'[roots'[i]].type # "ArrayData"
            \/ \E j \in DOMAIN roots : mem'[roots'[i]].type = mem[roots[j]].type
  PROVE  TypedInv'
<1>1. /\ \A a \in DOMAIN mem : \A i \in DOMAIN mem[a].fields :
            TypedSlot(mem[a].type, mem[mem[a].fields[i]].type)
      /\ \A i \in DOMAIN roots : mem[roots[i]].type # "ArrayData"
  BY DEF TypedInv, WellTyped, TypedSlot
<1>2. \A a \in DOMAIN mem' : \A i \in DOMAIN mem'[a].fields :
         TypedSlot(mem'[a].type, mem'[mem'[a].fields[i]].type)
  BY <1>1
<1>3. \A i \in DOMAIN roots' : mem'[roots'[i]].type # "ArrayData"
  BY <1>1
<1> QED
  BY <1>2, <1>3 DEF TypedInv, WellTyped, TypedSlot

(* Forwarding a root keeps TypedInv.                                       *)
LEMMA ProcessRootTyped ==
  ASSUME HeapInv, CopiesInv, TypedInv, ProcessRoot, HeapInv'
  PROVE  TypedInv'
<1> DEFINE k == gc.next
           p == roots[k]
           n == Forward(p)
<1>1. /\ gc.phase = "roots" /\ Collecting /\ RoomFor(p)
      /\ roots \in Seq(Addresses) /\ k \in DOMAIN roots
      /\ mem' = MemAfter(p) /\ to_space' = ToSpaceAfter(p) /\ from_space' = from_space
      /\ roots' = [roots EXCEPT ![k] = n]
  BY DEF ProcessRoot, HeapInv, TypeOK, Collecting, Control
<1>2. p \in FromObjects /\ p \in DOMAIN mem
  BY <1>1, ObjectsFacts DEF HeapInv, SlotsInv, RootDone
<1>3. /\ \A a \in DOMAIN mem : mem'[a].type = mem[a].type /\ mem'[a].fields = mem[a].fields
      /\ \A a \in DOMAIN mem' \ DOMAIN mem : mem'[a] = mem[p]
  BY <1>1, <1>2, CopyStep
<1>4. mem'[n].type = mem[p].type
  <2>1. p \in Copied' /\ mem'[p].fwd = n
    BY <1>1, <1>2, CopyMakesCopy
  <2>2. mem'[mem'[p].fwd].type = mem'[p].type
    BY <1>1, <1>2, <2>1, CopyMakesCopy
  <2> QED
    BY <2>1, <2>2, <1>2, <1>3
<1> HIDE DEF k, p, n
<1>5. ASSUME NEW a \in DOMAIN mem', NEW i \in DOMAIN mem'[a].fields
      PROVE  \E b \in DOMAIN mem : \E j \in DOMAIN mem[b].fields :
                /\ mem'[a].type = mem[b].type
                /\ mem'[mem'[a].fields[i]].type = mem[mem[b].fields[j]].type
  <2>1. PICK b \in DOMAIN mem : mem'[a].type = mem[b].type /\ mem'[a].fields = mem[b].fields
    BY <1>2, <1>3
  <2>2. mem[b].fields[i] \in DOMAIN mem
    BY <2>1, AllPointers
  <2> QED
    BY <2>1, <2>2, <1>3
<1>6. ASSUME NEW i \in DOMAIN roots'
      PROVE  \E j \in DOMAIN roots : mem'[roots'[i]].type = mem[roots[j]].type
  <2>1. i \in DOMAIN roots /\ roots[i] \in DOMAIN mem
    BY <1>1, AllPointers
  <2>2. CASE i = k
    BY <2>1, <2>2, <1>1, <1>4 DEF p
  <2>3. CASE i # k
    <3>1. roots'[i] = roots[i]
      BY <2>1, <2>3, <1>1
    <3> QED
      BY <3>1, <2>1, <1>3
  <2> QED
    BY <2>2, <2>3
<1> QED
  BY <1>5, <1>6, TypedStep

(* Forwarding a field keeps TypedInv.                                      *)
LEMMA ScanFieldTyped ==
  ASSUME HeapInv, CopiesInv, TypedInv, ScanField, HeapInv'
  PROVE  TypedInv'
<1> DEFINE s == gc.scanned
           k == gc.next
           p == mem[s].fields[k]
           n == Forward(p)
           M == MemAfter(p)
<1>1. /\ Collecting /\ RoomFor(p) /\ s \in DOMAIN mem
      /\ k \in DOMAIN mem[s].fields /\ p \in FromObjects
      /\ DOMAIN mem' = DOMAIN M
      /\ \A a \in DOMAIN M : a # s => mem'[a] = M[a]
      /\ mem'[s].type = M[s].type /\ mem'[s].fwd = M[s].fwd
      /\ DOMAIN mem'[s].fields = DOMAIN mem[s].fields
      /\ Len(mem'[s].fields) = Len(mem[s].fields)
      /\ mem'[s].fields[k] = n
      /\ \A i \in DOMAIN mem[s].fields : i # k => mem'[s].fields[i] = mem[s].fields[i]
      /\ to_space' = ToSpaceAfter(p) /\ from_space' = from_space /\ roots' = roots
  BY ScanFieldEffect
<1>2. /\ DOMAIN mem \subseteq DOMAIN M /\ p \in DOMAIN mem
      /\ \A a \in DOMAIN mem : M[a].type = mem[a].type /\ M[a].fields = mem[a].fields
      /\ \A a \in DOMAIN M \ DOMAIN mem : M[a] = mem[p]
  <2> HIDE DEF s, k, p
  <2>1. p \in DOMAIN mem
    BY <1>1, ObjectsFacts
  <2>2. /\ DOMAIN mem \subseteq DOMAIN M
        /\ \A a \in DOMAIN mem : M[a].type = mem[a].type /\ M[a].fields = mem[a].fields
        /\ \A a \in DOMAIN M \ DOMAIN mem : M[a] = mem[p]
    BY <1>1, CopyStep
  <2> QED
    BY <2>1, <2>2
<1>3. /\ \A a \in DOMAIN mem : mem'[a].type = mem[a].type
      /\ \A a \in DOMAIN mem : a # s => mem'[a].fields = mem[a].fields
      /\ \A a \in DOMAIN mem' \ DOMAIN mem : mem'[a] = mem[p]
  BY <1>1, <1>2
<1>4. mem'[n].type = mem[p].type
  <2>1. \A a \in DOMAIN mem' :
            /\ mem'[a].type = M[a].type
            /\ mem'[a].fwd = M[a].fwd
            /\ Len(mem'[a].fields) = Len(M[a].fields)
    BY <1>1, <1>2
  <2> HIDE DEF s, k, p
  <2>2. p \in Copied' /\ mem'[p].fwd = n
    BY <1>1, <2>1, CopyMakesCopy
  <2>3. mem'[mem'[p].fwd].type = mem'[p].type
    BY <1>1, <2>1, <2>2, CopyMakesCopy
  <2> QED
    BY <2>2, <2>3, <1>2, <1>3
<1> HIDE DEF s, k, p, n, M
<1>5. ASSUME NEW a \in DOMAIN mem', NEW i \in DOMAIN mem'[a].fields
      PROVE  \E b \in DOMAIN mem : \E j \in DOMAIN mem[b].fields :
                /\ mem'[a].type = mem[b].type
                /\ mem'[mem'[a].fields[i]].type = mem[mem[b].fields[j]].type
  <2>1. CASE a = s /\ i = k
    BY <2>1, <1>1, <1>3, <1>4 DEF p
  <2>2. CASE ~(a = s /\ i = k)
    <3>1. PICK b \in DOMAIN mem : /\ mem'[a].type = mem[b].type /\ i \in DOMAIN mem[b].fields
                                  /\ mem'[a].fields[i] = mem[b].fields[i]
      BY <2>2, <1>1, <1>2, <1>3
    <3>2. mem[b].fields[i] \in DOMAIN mem
      BY <3>1, AllPointers
    <3> QED
      BY <3>1, <3>2, <1>3
  <2> QED
    BY <2>1, <2>2
<1>6. ASSUME NEW i \in DOMAIN roots'
      PROVE  \E j \in DOMAIN roots : mem'[roots'[i]].type = mem[roots[j]].type
  BY <1>1, <1>3, AllPointers
<1> QED
  BY <1>5, <1>6, TypedStep

(* The end of a collection keeps TypedInv.                                 *)
LEMMA FinishTyped ==
  ASSUME HeapInv, TypedInv, Finish \/ FinishCollectsAgain
  PROVE  TypedInv'
<1>1. /\ ScanDone
      /\ \A a \in DOMAIN mem' \cap ToObjects : mem'[a] = mem[a]
      /\ ToObjects \subseteq DOMAIN mem' /\ ToObjects \subseteq DOMAIN mem
      /\ \A a \in DOMAIN mem' \ ToObjects : mem'[a].fields = << >> /\ mem'[a].type = "None"
      /\ \A i \in DOMAIN roots' : \/ roots'[i] = roots[i] /\ i \in DOMAIN roots
                                  \/ roots'[i] \in DOMAIN mem' \ ToObjects
  <2>1. CASE Finish
    <3> DEFINE n == to_space.ptr
               none == NewObject("None", << >>)
    <3>1. /\ ScanDone /\ none.type = "None" /\ none.fields = << >>
          /\ DOMAIN mem' = ToObjects \cup {n} /\ mem'[n] = none
          /\ \A a \in ToObjects : a # n /\ mem'[a] = mem[a]
          /\ roots' = [roots EXCEPT ![1] = n]
      BY <2>1, FinishEffect
    <3> HIDE DEF n, none
    <3> QED
      BY <3>1, ObjectsFacts
  <2>2. CASE FinishCollectsAgain
    <3>1. ScanDone /\ mem' = Survivors /\ roots' = roots
      BY <2>2 DEF FinishCollectsAgain
    <3> QED
      BY <3>1, SwapKeeps, ObjectsFacts
  <2> QED
    BY <2>1, <2>2
<1>2. ASSUME NEW a \in DOMAIN mem', NEW i \in DOMAIN mem'[a].fields
      PROVE  \E b \in DOMAIN mem : \E j \in DOMAIN mem[b].fields :
                /\ mem'[a].type = mem[b].type
                /\ mem'[mem'[a].fields[i]].type = mem[mem[b].fields[j]].type
  <2>1. a \in ToObjects
    BY <1>1
  <2>2. mem[a].fields[i] \in ToObjects
    BY <2>1, <1>1, ScanDoneSlots
  <2> QED
    BY <2>1, <2>2, <1>1
<1>3. ASSUME NEW i \in DOMAIN roots'
      PROVE  \/ mem'[roots'[i]].type # "ArrayData"
             \/ \E j \in DOMAIN roots : mem'[roots'[i]].type = mem[roots[j]].type
  <2>1. CASE roots'[i] = roots[i] /\ i \in DOMAIN roots
    <3>1. roots[i] \in ToObjects
      BY <2>1, <1>1, ScanDoneSlots
    <3> QED
      BY <2>1, <3>1, <1>1
  <2>2. CASE roots'[i] \in DOMAIN mem' \ ToObjects
    BY <2>2, <1>1
  <2> QED
    BY <2>1, <2>2, <1>1
<1> QED
  BY <1>2, <1>3, TypedStep

(* What the program holds is no vector of elements; the operands of        *)
(* tuples, arrays and closures are Refs.                                   *)
LEMMA HeldTypes ==
  ASSUME Quiet, TypedInv
  PROVE  /\ \A p \in Held : p \in DOMAIN mem /\ mem[p].type # "ArrayData"
         /\ \A p \in HeldRefs : p \in DOMAIN mem /\ mem[p].type = "Ref"
<1>1. \A p \in Range(roots) : p \in DOMAIN mem /\ mem[p].type # "ArrayData"
  BY DEF TypedInv, Quiet, Range
<1>2. ASSUME NEW p \in Range(roots), NEW q \in Elements(p)
      PROVE  mem[q].type # "ArrayData"
  <2>1. p \in DOMAIN mem /\ QuietObject(p) /\ mem[p] \in Object
    BY <1>1 DEF Quiet, TypeOK
  <2>2. CASE mem[p].type = "Array"
    <3> DEFINE d == mem[p].fields[1]
    <3>1. 1 \in DOMAIN mem[p].fields
      BY <2>1, <2>2, WordsOfType DEF QuietObject
    <3>2. d \in DOMAIN mem /\ mem[d].type = "ArrayData"
      BY <2>1, <2>2, <3>1 DEF QuietObject, TypedInv, WellTyped
    <3>3. PICK i \in DOMAIN mem[d].fields : mem[d].fields[i] = q
      BY <2>2 DEF Elements, Range
    <3> QED
      BY <3>2, <3>3 DEF TypedInv, WellTyped
  <2>3. CASE mem[p].type # "Array"
    <3>1. PICK i \in DOMAIN mem[p].fields : mem[p].fields[i] = q
      BY <2>3 DEF Elements, Range
    <3> QED
      BY <2>1, <2>3, <3>1 DEF TypedInv, WellTyped
  <2> QED
    BY <2>2, <2>3
<1> QED
  BY <1>1, <1>2, HeldObjects DEF Held, HeldRefs

(* An allocation keeps TypedInv if its operands are what its type asks     *)
(* for.                                                                    *)
LEMMA AllocatedTyped ==
  ASSUME HeapInv, ~Collecting, TypedInv,
         NEW type \in Types \ {"Array", "ArrayData"}, NEW fields \in Seq(Addresses),
         Allocated(type, fields),
         \A i \in DOMAIN fields :
            /\ fields[i] \in DOMAIN mem
            /\ mem[fields[i]].type # "ArrayData"
            /\ type \in {"Tuple", "Func"} => mem[fields[i]].type = "Ref"
  PROVE  TypedInv'
<1> DEFINE n == from_space.ptr
<1>1. Quiet /\ roots \in Seq(Addresses)
  BY IdleIsQuiet DEF HeapInv, TypeOK
<1>2. /\ mem'[n].type = type /\ mem'[n].fields = fields /\ n \notin DOMAIN mem
      /\ DOMAIN mem' = DOMAIN mem \cup {n}
      /\ \A a \in DOMAIN mem : mem'[a] = mem[a]
      /\ roots' = Append(roots, n) /\ n \in Addresses
  BY <1>1, AllocatedAdds
<1> HIDE DEF n
<1>3. ASSUME NEW a \in DOMAIN mem', NEW i \in DOMAIN mem'[a].fields
      PROVE  \/ TypedSlot(mem'[a].type, mem'[mem'[a].fields[i]].type)
             \/ \E b \in DOMAIN mem : \E j \in DOMAIN mem[b].fields :
                   /\ mem'[a].type = mem[b].type
                   /\ mem'[mem'[a].fields[i]].type = mem[mem[b].fields[j]].type
  <2>1. CASE a = n
    <3>1. /\ mem'[a].type = type /\ mem'[a].fields = fields
          /\ mem'[fields[i]] = mem[fields[i]]
      BY <2>1, <1>2
    <3>2. TypedSlot(type, mem[fields[i]].type)
      BY <3>1 DEF TypedSlot
    <3> QED
      BY <3>1, <3>2
  <2>2. CASE a # n
    <3>1. a \in DOMAIN mem /\ mem'[a] = mem[a]
      BY <2>2, <1>2
    <3>2. mem[a].fields[i] \in DOMAIN mem
      BY <3>1, AllPointers
    <3> QED
      BY <3>1, <3>2, <1>2
  <2> QED
    BY <2>1, <2>2
<1>4. ASSUME NEW i \in DOMAIN roots'
      PROVE  \/ mem'[roots'[i]].type # "ArrayData"
             \/ \E j \in DOMAIN roots : mem'[roots'[i]].type = mem[roots[j]].type
  <2>1. roots'[i] = n \/ (i \in DOMAIN roots /\ roots'[i] = roots[i])
    BY <1>1, <1>2
  <2> QED
    BY <2>1, <1>2, AllPointers
<1> QED
  BY <1>3, <1>4, TypedStep

(* make_array keeps TypedInv: no root points at the vector, only the       *)
(* header does.                                                            *)
LEMMA MakeArrayTyped ==
  ASSUME HeapInv, TypedInv, NEW elements \in Operands("Array"), MakeArray(elements)
  PROVE  TypedInv'
<1> DEFINE w == ObjectWords("ArrayData", Len(elements))
           data == from_space.ptr
           header == data + w
           vector == NewObject("ArrayData", elements)
           array == NewObject("Array", <<data>>)
<1>1. Quiet /\ roots \in Seq(Addresses)
  BY IdleIsQuiet DEF HeapInv, TypeOK, MakeArray, MayPush, Collecting
<1>2. /\ vector.type = "ArrayData" /\ vector.fields = elements
      /\ array.type = "Array" /\ array.fields = <<data>>
      /\ data \notin DOMAIN mem /\ header \notin DOMAIN mem /\ header \in Addresses
      /\ DOMAIN mem' = DOMAIN mem \cup {data, header}
      /\ mem'[data] = vector /\ mem'[header] = array
      /\ \A a \in DOMAIN mem : mem'[a] = mem[a]
      /\ roots' = Append(roots, header)
      /\ \A i \in DOMAIN elements : elements[i] \in DOMAIN mem
  BY MakeArrayEffect
<1>3. \A i \in DOMAIN elements : mem[elements[i]].type = "Ref"
  <2>1. PICK n \in 0..MaxElements : elements \in [1..n -> HeldRefs]
    BY DEF Operands
  <2> QED
    BY <2>1, <1>1, HeldTypes
<1> HIDE DEF w, data, header, vector, array
<1>4. ASSUME NEW a \in DOMAIN mem', NEW i \in DOMAIN mem'[a].fields
      PROVE  \/ TypedSlot(mem'[a].type, mem'[mem'[a].fields[i]].type)
             \/ \E b \in DOMAIN mem : \E j \in DOMAIN mem[b].fields :
                   /\ mem'[a].type = mem[b].type
                   /\ mem'[mem'[a].fields[i]].type = mem[mem[b].fields[j]].type
  <2>1. CASE a = data
    <3>1. mem'[a].type = "ArrayData" /\ mem'[mem'[a].fields[i]].type = "Ref"
      BY <2>1, <1>2, <1>3
    <3> QED
      BY <3>1 DEF TypedSlot
  <2>2. CASE a = header
    <3>1. mem'[a].type = "Array" /\ mem'[a].fields[i] = data
      BY <2>2, <1>2
    <3>2. mem'[data].type = "ArrayData"
      BY <1>2
    <3> QED
      BY <3>1, <3>2 DEF TypedSlot
  <2>3. CASE a \in DOMAIN mem
    <3>1. mem'[a] = mem[a] /\ mem[a].fields[i] \in DOMAIN mem
      BY <2>3, <1>2, AllPointers
    <3> QED
      BY <2>3, <3>1, <1>2
  <2> QED
    BY <2>1, <2>2, <2>3, <1>2
<1>5. ASSUME NEW i \in DOMAIN roots'
      PROVE  \/ mem'[roots'[i]].type # "ArrayData"
             \/ \E j \in DOMAIN roots : mem'[roots'[i]].type = mem[roots[j]].type
  <2>1. roots'[i] = header \/ (i \in DOMAIN roots /\ roots'[i] = roots[i])
    BY <1>1, <1>2
  <2> QED
    BY <2>1, <1>2, AllPointers
<1> QED
  BY <1>4, <1>5, TypedStep

(* replace_array_data keeps TypedInv.                                      *)
LEMMA ReplaceArrayDataTyped ==
  ASSUME HeapInv, TypedInv, NEW array \in Held, NEW k \in Nat, NEW element \in HeldRefs,
         ReplaceArrayData(array, k, element)
  PROVE  TypedInv'
<1> DEFINE old == OldElements(array)
           new == NewElements(array, k, element)
           data == from_space.ptr
           vector == NewObject("ArrayData", new)
<1>1. Quiet
  BY IdleIsQuiet DEF ReplaceArrayData, Collecting
<1>2. /\ array \in DOMAIN mem /\ mem[array].type = "Array" /\ roots' = roots
      /\ mem[array].fields[1] \in DOMAIN mem /\ k \in 1..Len(old) + 1
      /\ old \in Seq(DOMAIN mem)
      /\ vector.type = "ArrayData" /\ vector.fields = new
      /\ new \in Seq(DOMAIN mem)
      /\ data \notin DOMAIN mem
      /\ DOMAIN mem' = DOMAIN mem \cup {data} /\ mem'[data] = vector
      /\ \A a \in DOMAIN mem : a # array => mem'[a] = mem[a]
      /\ mem'[array].type = mem[array].type /\ mem'[array].fields = <<data>>
      /\ Len(mem[array].fields) = 1
  <2>1. /\ array \in DOMAIN mem /\ mem[array].type = "Array" /\ roots' = roots
        /\ mem[array].fields[1] \in DOMAIN mem /\ k \in 1..Len(old) + 1
        /\ old \in Seq(DOMAIN mem)
    BY ReplaceArrayDataEffect
  <2>2. /\ vector.type = "ArrayData" /\ vector.fields = new /\ new \in Seq(DOMAIN mem)
    BY ReplaceArrayDataEffect
  <2>3. data \notin DOMAIN mem /\ DOMAIN mem' = DOMAIN mem \cup {data}
    BY ReplaceArrayDataEffect
  <2>4. mem'[data] = vector
    BY ReplaceArrayDataEffect
  <2>5. /\ \A a \in DOMAIN mem : a # array => mem'[a] = mem[a]
        /\ mem'[array].type = mem[array].type /\ mem'[array].fields = <<data>>
        /\ Len(mem[array].fields) = 1
    BY ReplaceArrayDataEffect
  <2> HIDE DEF old, new, data, vector
  <2> QED
    BY <2>1, <2>2, <2>3, <2>5, <2>4
<1>3. element \in DOMAIN mem /\ mem[element].type = "Ref"
  BY <1>1, HeldTypes
<1>4. \A i \in DOMAIN old : mem[old[i]].type = "Ref"
  <2>1. mem[mem[array].fields[1]].type = "ArrayData"
    <3>1. 1 \in DOMAIN mem[array].fields
      BY <1>2, ObjectsFacts
    <3> QED
      BY <3>1, <1>2 DEF TypedInv, WellTyped
  <2> QED
    BY <2>1, <1>2 DEF TypedInv, WellTyped, OldElements
<1>5. \A i \in DOMAIN new : new[i] \in DOMAIN mem /\ mem[new[i]].type = "Ref"
  <2> DEFINE R == {a \in DOMAIN mem : mem[a].type = "Ref"}
  <2> HIDE DEF old
  <2>1. old \in Seq(R)
    <3>1. \A i \in DOMAIN old : old[i] \in R
      BY <1>2, <1>4
    <3> HIDE DEF R
    <3> QED
      BY <3>1, <1>2, SequenceOver
  <2>2. element \in R
    BY <1>3
  <2> HIDE DEF R
  <2>3. new \in Seq(R)
    BY <2>1, <2>2, <1>2, InsertedElement DEF NewElements, old
  <2> HIDE DEF new
  <2>4. \A i \in DOMAIN new : new[i] \in R
    BY <2>3
  <2> QED
    BY <2>4 DEF R
<1> HIDE DEF old, new, data, vector
<1>6. \A a \in DOMAIN mem : mem'[a].type = mem[a].type
  BY <1>2
<1>7. ASSUME NEW a \in DOMAIN mem', NEW i \in DOMAIN mem'[a].fields
      PROVE  \/ TypedSlot(mem'[a].type, mem'[mem'[a].fields[i]].type)
             \/ \E b \in DOMAIN mem : \E j \in DOMAIN mem[b].fields :
                   /\ mem'[a].type = mem[b].type
                   /\ mem'[mem'[a].fields[i]].type = mem[mem[b].fields[j]].type
  <2>1. CASE a = data
    <3>1. mem'[a].type = "ArrayData" /\ mem'[mem'[a].fields[i]].type = "Ref"
      BY <2>1, <1>2, <1>5, <1>6
    <3> QED
      BY <3>1 DEF TypedSlot
  <2>2. CASE a = array
    <3>1. mem'[a].type = "Array" /\ mem'[a].fields[i] = data
      BY <2>2, <1>2
    <3>2. mem'[data].type = "ArrayData"
      BY <1>2
    <3> QED
      BY <3>1, <3>2 DEF TypedSlot
  <2>3. CASE a \in DOMAIN mem /\ a # array
    <3>1. mem'[a] = mem[a] /\ mem[a].fields[i] \in DOMAIN mem
      BY <2>3, <1>2, AllPointers
    <3> QED
      BY <2>3, <3>1, <1>6
  <2> QED
    BY <2>1, <2>2, <2>3, <1>2
<1>8. ASSUME NEW i \in DOMAIN roots'
      PROVE  \E j \in DOMAIN roots : mem'[roots'[i]].type = mem[roots[j]].type
  BY <1>2, <1>6, AllPointers
<1> QED
  BY <1>7, <1>8, TypedStep

(* A write of one field keeps TypedInv if it fits the object it is written *)
(* to.                                                                     *)
LEMMA PointerWriteTyped ==
  ASSUME HeapInv, ~Collecting, TypedInv, NEW d \in DOMAIN mem, NEW k, NEW p \in DOMAIN mem,
         mem' = [mem EXCEPT ![d].fields[k] = p], roots' = roots,
         TypedSlot(mem[d].type, mem[p].type)
  PROVE  TypedInv'
<1>1. Quiet
  BY IdleIsQuiet
<1>2. /\ DOMAIN mem' = DOMAIN mem
      /\ \A a \in DOMAIN mem : a # d => mem'[a] = mem[a]
      /\ mem'[d].type = mem[d].type /\ FieldWritten(d, k, p)
  BY <1>1, PointerWriteEffect
<1>3. \A a \in DOMAIN mem : mem'[a].type = mem[a].type
  BY <1>2
<1>4. ASSUME NEW a \in DOMAIN mem', NEW i \in DOMAIN mem'[a].fields
      PROVE  \/ TypedSlot(mem'[a].type, mem'[mem'[a].fields[i]].type)
             \/ \E b \in DOMAIN mem : \E j \in DOMAIN mem[b].fields :
                   /\ mem'[a].type = mem[b].type
                   /\ mem'[mem'[a].fields[i]].type = mem[mem[b].fields[j]].type
  <2>1. CASE a = d /\ i = k
    <3>1. mem'[a].fields[i] = p
      <4>1. mem'[d].fields = [mem[d].fields EXCEPT ![k] = p]
        BY <1>2 DEF FieldWritten
      <4>2. k \in DOMAIN mem[d].fields
        BY <2>1, <4>1
      <4> QED
        BY <2>1, <4>1, <4>2
    <3> QED
      BY <2>1, <3>1, <1>3
  <2>2. CASE ~(a = d /\ i = k)
    <3>1. i \in DOMAIN mem[a].fields /\ mem'[a].fields[i] = mem[a].fields[i]
      BY <2>2, <1>2 DEF FieldWritten
    <3>2. mem[a].fields[i] \in DOMAIN mem
      BY <3>1, <1>2, AllPointers
    <3> QED
      BY <3>1, <3>2, <1>2, <1>3
  <2> QED
    BY <2>1, <2>2
<1>5. ASSUME NEW i \in DOMAIN roots'
      PROVE  \E j \in DOMAIN roots : mem'[roots'[i]].type = mem[roots[j]].type
  BY <1>3, AllPointers
<1> QED
  BY <1>4, <1>5, TypedStep

(* Whatever the program does keeps TypedInv.                               *)
LEMMA ProgramTyped ==
  ASSUME HeapInv, TypedInv, Program
  PROVE  TypedInv'
<1>1. << >> \in Seq(Addresses) /\ DOMAIN << >> = {}
  OBVIOUS
<1>2. ASSUME gc.phase = "idle" PROVE ~Collecting /\ Quiet
  BY <1>2, IdleIsQuiet DEF Collecting
<1>3. ASSUME UNCHANGED <<mem, roots>> PROVE TypedInv'
  BY <1>3 DEF TypedInv, WellTyped
<1>4. ASSUME NEW type \in Scalars, MakeScalar(type) PROVE TypedInv'
  <2>1. type \in Types \ {"Array", "ArrayData"}
    BY TypesAssumption DEF Types
  <2> QED
    BY <1>1, <1>2, <1>4, <2>1, AllocatedTyped DEF MakeScalar, MayPush
<1>5. ASSUME NEW type \in Aggregates \ {"Array"}, NEW fields \in Operands(type),
             Make(type, fields)
      PROVE  TypedInv'
  <2>1. type \in Types \ {"Array", "ArrayData"}
    BY TypesAssumption DEF Types
  <2>2. Quiet /\ ~Collecting /\ Allocated(type, fields)
    BY <1>2, <1>5 DEF Make, MayPush
  <2>3. fields \in Seq(Addresses) /\ \A i \in DOMAIN fields : fields[i] \in DOMAIN mem
    BY <2>2, OperandsObjects
  <2>4. CASE type = "Ref"
    <3>1. fields \in [1..1 -> Held]
      BY <2>4 DEF Operands
    <3>2. \A i \in DOMAIN fields : mem[fields[i]].type # "ArrayData"
      BY <3>1, <2>2, HeldTypes
    <3> QED
      BY <3>2, <2>1, <2>2, <2>3, <2>4, AllocatedTyped
  <2>5. CASE type # "Ref"
    <3>1. PICK n \in 0..MaxElements : fields \in [1..n -> HeldRefs]
      BY <2>5 DEF Operands
    <3>2. \A i \in DOMAIN fields : mem[fields[i]].type = "Ref"
      BY <3>1, <2>2, HeldTypes
    <3> QED
      BY <3>2, <2>1, <2>2, <2>3, AllocatedTyped
  <2> QED
    BY <2>4, <2>5
<1>6. ASSUME NEW array \in Held, NEW k \in 1..MaxElements + 1, NEW element \in HeldRefs,
             ReplaceArrayData(array, k, element) \/ StoreElement(array, k, element)
      PROVE  TypedInv'
  <2>1. k \in Nat
    BY BoundsAssumption
  <2>2. CASE ReplaceArrayData(array, k, element)
    BY <2>1, <2>2, ReplaceArrayDataTyped
  <2>3. CASE StoreElement(array, k, element)
    <3> DEFINE d == mem[array].fields[1]
    <3>1. Quiet /\ ~Collecting /\ mem[array].type = "Array" /\ roots' = roots
          /\ mem' = [mem EXCEPT ![d].fields[k] = element]
      BY <1>2, <2>3 DEF StoreElement
    <3>2. array \in DOMAIN mem /\ d \in DOMAIN mem /\ Len(mem[array].fields) = 1
      BY <3>1, ArrayData
    <3>3. 1 \in DOMAIN mem[array].fields
      BY <3>2, ObjectsFacts
    <3>4. mem[d].type = "ArrayData"
      BY <3>1, <3>2, <3>3 DEF TypedInv, WellTyped
    <3>5. element \in DOMAIN mem /\ mem[element].type = "Ref"
      BY <3>1, HeldTypes
    <3> HIDE DEF d
    <3>6. TypedSlot(mem[d].type, mem[element].type)
      BY <3>4, <3>5 DEF TypedSlot
    <3> QED
      BY <3>1, <3>2, <3>5, <3>6, PointerWriteTyped
  <2> QED
    BY <1>6, <2>2, <2>3
<1>7. ASSUME NEW ref \in Held, NEW p \in Held, ChangeRef(ref, p) PROVE TypedInv'
  <2>1. Quiet /\ ~Collecting /\ mem[ref].type = "Ref" /\ roots' = roots
        /\ mem' = [mem EXCEPT ![ref].fields[1] = p]
    BY <1>2, <1>7 DEF ChangeRef
  <2>2. ref \in DOMAIN mem /\ p \in DOMAIN mem /\ mem[p].type # "ArrayData"
    BY <2>1, HeldTypes
  <2>3. TypedSlot(mem[ref].type, mem[p].type)
    BY <2>1, <2>2 DEF TypedSlot
  <2> QED
    BY <2>1, <2>2, <2>3, PointerWriteTyped
<1>8. ASSUME NEW p \in Held, PushRoot(p) PROVE TypedInv'
  <2>1. Quiet /\ mem' = mem /\ roots' = Append(roots, p) /\ roots \in Seq(Addresses)
    BY <1>2, <1>8 DEF PushRoot, MayPush, HeapInv, TypeOK
  <2>2. p \in Addresses /\ mem[p].type # "ArrayData"
    BY <2>1, HeldTypes DEF HeapInv, TypeOK
  <2> QED
    BY <2>1, <2>2 DEF TypedInv, WellTyped
<1>9. ASSUME PopRoot PROVE TypedInv'
  <2>1. mem' = mem /\ roots' = SubSeq(roots, 1, Len(roots) - 1) /\ roots \in Seq(Addresses)
    BY <1>9 DEF PopRoot, HeapInv, TypeOK
  <2> QED
    BY <2>1 DEF TypedInv, WellTyped
<1>10. ASSUME (\E type \in Scalars : MakeScalarCollects(type)) \/ Collect PROVE TypedInv'
  BY <1>3, <1>10 DEF MakeScalarCollects, Collect, StartCollection
<1> QED
  BY <1>4, <1>5, <1>6, <1>7, <1>8, <1>9, <1>10, MakeArrayTyped DEF Program

(* Every step keeps TypedInv.                                              *)
LEMMA TypedKept ==
  ASSUME HeapInv, WaitingInv, CopiesInv, TypedInv, [Next]_vars, HeapInv'
  PROVE  TypedInv'
<1>1. ASSUME UNCHANGED <<mem, roots>> PROVE TypedInv'
  BY <1>1 DEF TypedInv, WellTyped
<1>2. CASE RootsDone \/ ScanNext \/ OutOfMemory \/ Stopped \/ UNCHANGED vars
  BY <1>1, <1>2 DEF RootsDone, ScanNext, OutOfMemory, Stopped, vars
<1>3. CASE Resume
  <2>1. /\ gc.wanted \in Types \ {"Array", "ArrayData"} /\ Allocated(gc.wanted, << >>)
        /\ ~Collecting
    BY <1>3, TypesAssumption DEF Resume, WaitingInv, Types, Collecting
  <2>2. << >> \in Seq(Addresses) /\ DOMAIN << >> = {}
    OBVIOUS
  <2> QED
    BY <2>1, <2>2, AllocatedTyped
<1> QED
  BY <1>2, <1>3, ProgramTyped, ProcessRootTyped, ScanFieldTyped, FinishTyped DEF Next, Collector

(* No root points at a vector, and the pointers in every object lead to    *)
(* objects of the types that it should hold.                               *)
THEOREM TypedInvariant == Spec => []TypedInv
<1>1. Init => TypedInv
  <2> SUFFICES ASSUME Init PROVE TypedInv
    OBVIOUS
  <2> DEFINE none == NewObject("None", << >>)
  <2>1. mem = [a \in {1} |-> none] /\ roots = <<1>>
    BY DEF Init
  <2>2. none.type = "None" /\ DOMAIN none.fields = {}
    BY DEF NewObject
  <2> HIDE DEF none
  <2>3. mem[1].type = "None" /\ \A a \in DOMAIN mem : DOMAIN mem[a].fields = {}
    BY <2>1, <2>2
  <2>4. \A i \in DOMAIN roots : roots[i] = 1
    BY <2>1
  <2> QED
    BY <2>3, <2>4 DEF TypedInv, WellTyped
<1>2. HeapInv /\ WaitingInv /\ HeapInv' /\ [Next]_vars /\ CopiesInv /\ TypedInv => TypedInv'
  BY TypedKept
<1> QED
  BY <1>1, <1>2, HeapInvariant, CopiesInvariant, PTL DEF Spec

(* The static_casts of collect() and of the interpreter never cast to a    *)
(* type the object does not have (gc_heap.hpp, sm_interpreter.cpp).        *)
THEOREM CastsAreSafe == Spec => []WellTyped
<1>1. TypedInv => WellTyped
  BY DEF TypedInv
<1> QED
  BY <1>1, TypedInvariant, PTL

(* All objects lie in from_space and none has been copied.                 *)
OneSpace == ToObjects = {} /\ Copied = {} /\ FromObjects = DOMAIN mem

(* So it is when to_space is empty.                                        *)
LEMMA EmptyToSpaceObjects == HeapInv /\ ToSpaceEmpty => OneSpace
BY EmptyToSpace, ObjectsFacts DEF ToSpaceEmpty, OneSpace

(* The same of the next state.                                             *)
LEMMA EmptyToSpaceObjectsNext == HeapInv' /\ ToSpaceEmpty' => OneSpace'
BY EmptyToSpaceObjects, PTL

(* A step outside a collection that leaves to_space alone leaves it empty. *)
LEMMA StillEmpty ==
  ASSUME HeapInv, ~Collecting, to_space' = to_space
  PROVE  ToSpaceEmpty'
BY DEF ToSpaceEmpty, HeapInv, SpacesInv

(* What the two steps that may copy an object have in common, whichever    *)
(* slot is forwarded: there is one object p of from_space that has a copy  *)
(* afterwards, new or not, and nothing else in from_space has changed.     *)
LEMMA CopyingStep ==
  ASSUME HeapInv, CopiesInv, ProcessRoot \/ ScanField, HeapInv'
  PROVE  \E p \in FromObjects :
            /\ Collecting /\ RoomFor(p)
            /\ to_space' = ToSpaceAfter(p) /\ from_space' = from_space
            /\ gc'.phase = gc.phase /\ gc'.nested = gc.nested
            /\ FromObjects' = FromObjects
            /\ \A a \in FromObjects :
                  mem'[a].type = mem[a].type /\ mem'[a].fields = mem[a].fields
            /\ \A a \in FromObjects : a # p => mem'[a].fwd = mem[a].fwd
            /\ mem'[p].fwd = Forward(p)
            /\ Copied' = Copied \cup {p}
            /\ ToObjects' = ToObjects \cup {Forward(p)}
            /\ p \in Copied => Forward(p) \in ToObjects
            /\ p \notin Copied => /\ Forward(p) = to_space.ptr
                                  /\ WordsOf(mem'[Forward(p)]) = WordsOf(mem[p])
            /\ \A a \in DOMAIN mem : WordsOf(mem'[a]) = WordsOf(mem[a])
            /\ DOMAIN mem \subseteq DOMAIN mem' /\ Forward(p) \in DOMAIN mem'
            /\ \A a \in DOMAIN mem :
                  mem'[a].type = mem[a].type /\ Len(mem'[a].fields) = Len(mem[a].fields)
            /\ \A a \in DOMAIN mem' \ DOMAIN mem :
                  mem'[a].type = mem[p].type /\ Len(mem'[a].fields) = Len(mem[p].fields)
            /\ DOMAIN roots' = DOMAIN roots /\ roots' \in Seq(Addresses)
            /\ \A i \in DOMAIN roots :
                  roots'[i] = roots[i] \/ (roots[i] = p /\ roots'[i] = Forward(p))
<1>1. \E p \in FromObjects :
         /\ Collecting /\ RoomFor(p)
         /\ to_space' = ToSpaceAfter(p) /\ from_space' = from_space
         /\ gc'.phase = gc.phase /\ gc'.nested = gc.nested
         /\ DOMAIN mem' = DOMAIN MemAfter(p)
         /\ \A a \in DOMAIN mem' :
               /\ mem'[a].type = MemAfter(p)[a].type
               /\ mem'[a].fwd = MemAfter(p)[a].fwd
               /\ Len(mem'[a].fields) = Len(MemAfter(p)[a].fields)
         /\ \A a \in FromObjects : mem'[a].fields = MemAfter(p)[a].fields
         /\ DOMAIN roots' = DOMAIN roots
         /\ \A i \in DOMAIN roots :
               roots'[i] = roots[i] \/ (roots[i] = p /\ roots'[i] = Forward(p))
  <2>1. CASE ProcessRoot
    <3> DEFINE k == gc.next
               p == roots[k]
    <3>1. /\ gc.phase = "roots" /\ Collecting /\ RoomFor(p)
          /\ roots \in Seq(Addresses) /\ k \in DOMAIN roots /\ gc'.phase = gc.phase /\ gc'.nested = gc.nested
          /\ mem' = MemAfter(p) /\ to_space' = ToSpaceAfter(p) /\ from_space' = from_space
      BY <2>1 DEF ProcessRoot, HeapInv, TypeOK, Collecting, Control
    <3>2. p \in FromObjects
      BY <3>1 DEF HeapInv, SlotsInv, RootDone
    <3>3. /\ DOMAIN roots' = DOMAIN roots
          /\ \A i \in DOMAIN roots :
                roots'[i] = roots[i] \/ (roots[i] = p /\ roots'[i] = Forward(p))
      BY <2>1 DEF ProcessRoot
    <3> HIDE DEF k, p
    <3> QED
      BY <3>1, <3>2, <3>3
  <2>2. CASE ScanField
    <3> DEFINE s == gc.scanned
               k == gc.next
               p == mem[s].fields[k]
               M == MemAfter(p)
    <3>1. /\ Collecting /\ RoomFor(p) /\ s \notin FromObjects /\ p \in FromObjects
          /\ s \in DOMAIN mem
          /\ DOMAIN mem' = DOMAIN M
          /\ \A a \in DOMAIN M : a # s => mem'[a] = M[a]
          /\ mem'[s].type = M[s].type /\ mem'[s].fwd = M[s].fwd
          /\ Len(mem'[s].fields) = Len(mem[s].fields)
          /\ to_space' = ToSpaceAfter(p) /\ from_space' = from_space /\ roots' = roots
      BY <2>2, ScanFieldEffect
    <3>2. gc'.phase = gc.phase /\ gc'.nested = gc.nested
      BY <2>2 DEF ScanField, Scanning, HeapInv, TypeOK, Control
    <3> HIDE DEF s, k, p
    <3>3. /\ DOMAIN mem \subseteq DOMAIN M
          /\ \A a \in DOMAIN mem : M[a].type = mem[a].type /\ M[a].fields = mem[a].fields
      BY <3>1, CopyStep
    <3>4. /\ \A a \in DOMAIN mem' :
                /\ mem'[a].type = M[a].type
                /\ mem'[a].fwd = M[a].fwd
                /\ Len(mem'[a].fields) = Len(M[a].fields)
          /\ \A a \in FromObjects : mem'[a].fields = M[a].fields
      BY <3>1, <3>3, ObjectsFacts
    <3> QED
      BY <3>1, <3>2, <3>4
  <2> QED
    BY <2>1, <2>2
<1>2. PICK p \in FromObjects :
         /\ Collecting /\ RoomFor(p)
         /\ to_space' = ToSpaceAfter(p) /\ from_space' = from_space
         /\ gc'.phase = gc.phase /\ gc'.nested = gc.nested
         /\ DOMAIN mem' = DOMAIN MemAfter(p)
         /\ \A a \in DOMAIN mem' :
               /\ mem'[a].type = MemAfter(p)[a].type
               /\ mem'[a].fwd = MemAfter(p)[a].fwd
               /\ Len(mem'[a].fields) = Len(MemAfter(p)[a].fields)
         /\ \A a \in FromObjects : mem'[a].fields = MemAfter(p)[a].fields
         /\ DOMAIN roots' = DOMAIN roots
         /\ \A i \in DOMAIN roots :
               roots'[i] = roots[i] \/ (roots[i] = p /\ roots'[i] = Forward(p))
  BY <1>1
<1>3. /\ FromObjects' = FromObjects
      /\ \A a \in FromObjects : a # p => mem'[a].fwd = mem[a].fwd
      /\ mem'[p].fwd = Forward(p)
      /\ Copied' = Copied \cup {p}
      /\ ToObjects' = ToObjects \cup {Forward(p)}
      /\ p \in Copied => Forward(p) \in ToObjects
      /\ p \notin Copied => Forward(p) = to_space.ptr /\ MemAfter(p)[Forward(p)] = mem[p]
  BY <1>2, CopyMakesCopy
<1>4. /\ \A a \in DOMAIN mem : /\ MemAfter(p)[a].type = mem[a].type
                               /\ MemAfter(p)[a].fields = mem[a].fields
      /\ \A a \in DOMAIN MemAfter(p) \ DOMAIN mem : MemAfter(p)[a] = mem[p]
      /\ DOMAIN mem \subseteq DOMAIN mem' /\ Forward(p) \in DOMAIN mem'
  BY <1>2, CopyStep
<1>5. /\ \A a \in FromObjects : mem'[a].type = mem[a].type /\ mem'[a].fields = mem[a].fields
      /\ \A a \in DOMAIN mem :
            mem'[a].type = mem[a].type /\ Len(mem'[a].fields) = Len(mem[a].fields)
      /\ p \notin Copied => /\ mem'[Forward(p)].type = mem[p].type
                            /\ Len(mem'[Forward(p)].fields) = Len(mem[p].fields)
      /\ \A a \in DOMAIN mem' \ DOMAIN mem :
            mem'[a].type = mem[p].type /\ Len(mem'[a].fields) = Len(mem[p].fields)
  BY <1>2, <1>3, <1>4, ObjectsFacts
<1>6. /\ \A a \in DOMAIN mem : WordsOf(mem'[a]) = WordsOf(mem[a])
      /\ p \notin Copied => WordsOf(mem'[Forward(p)]) = WordsOf(mem[p])
  BY <1>5 DEF WordsOf
<1>7. roots' \in Seq(Addresses)
  BY DEF HeapInv, TypeOK
<1> QED
  BY <1>2, <1>3, <1>4, <1>5, <1>6, <1>7

(* The references in from_space.                                           *)
Refs == {a \in FromObjects : mem[a].type = "Ref"}

(* What a reference leads to.                                              *)
Follows(r) == mem[r].fields[1]

(* RefChainsEnd, in these terms.                                           *)
LEMMA ChainsEnd ==
  RefChainsEnd <=> \A S \in SUBSET Refs : S # {} => \E r \in S : Follows(r) \notin S
BY DEF RefChainsEnd, Refs, Follows

(* The same of the next state.                                             *)
LEMMA ChainsEndNext ==
  ASSUME \A S \in SUBSET Refs' : S # {} => \E r \in S : mem'[r].fields[1] \notin S
  PROVE  RefChainsEnd'
BY DEF RefChainsEnd, Refs

(* No ring appears if no reference does and none is changed.               *)
LEMMA SameChains ==
  ASSUME RefChainsEnd, Refs' \subseteq Refs,
         \A a \in Refs' : mem'[a].fields = mem[a].fields
  PROVE  RefChainsEnd'
<1>1. ASSUME NEW S \in SUBSET Refs', S # {}
      PROVE  \E r \in S : mem'[r].fields[1] \notin S
  <2>1. PICK r \in S : Follows(r) \notin S
    BY <1>1, ChainsEnd
  <2> QED
    BY <2>1 DEF Follows
<1> QED
  BY <1>1, ChainsEndNext

(* A step that changes no type and no field in from_space closes no ring.  *)
LEMMA SameObjectsSameChains ==
  ASSUME RefChainsEnd, FromObjects' = FromObjects,
         \A a \in FromObjects : mem'[a].type = mem[a].type /\ mem'[a].fields = mem[a].fields
  PROVE  RefChainsEnd'
<1>1. Refs' = Refs
  BY DEF Refs
<1>2. \A a \in Refs : mem'[a].fields = mem[a].fields
  BY DEF Refs
<1> QED
  BY <1>1, <1>2, SameChains

(* A reference leads to an object of from_space.                           *)
LEMMA RefPointer ==
  ASSUME HeapInv, NEW a \in FromObjects, mem[a].type = "Ref"
  PROVE  1 \in DOMAIN mem[a].fields /\ Follows(a) \in FromObjects
<1>1. a \in DOMAIN mem
  BY ObjectsFacts
<1>2. Len(mem[a].fields) = 1
  BY <1>1 DEF HeapInv, LayoutInv
<1> QED
  BY <1>1, <1>2, ObjectsFacts DEF Follows

(* The swap closes no ring: a ring of copies would be one of their         *)
(* originals.                                                              *)
LEMMA SwapChains ==
  ASSUME HeapInv, CopiesInv, RefChainsEnd, ScanDone,
         \A a \in Refs' : a \in ToObjects /\ mem'[a] = mem[a]
  PROVE  RefChainsEnd'
<1>1. ASSUME NEW S \in SUBSET Refs', S # {}
      PROVE  \E r \in S : mem'[r].fields[1] \notin S
  <2> DEFINE O == {a \in Copied : mem[a].fwd \in S}
  <2>1. \A t \in S : \E a \in O : mem[a].fwd = t
    BY <1>1 DEF CopiesInv
  <2>2. ASSUME NEW a \in O
        PROVE  a \in Refs /\ a \in FromObjects /\ mem[a].type = "Ref"
    <3>1. mem[mem[a].fwd].type = "Ref"
      BY DEF Refs
    <3> QED
      BY <3>1, CopiesAlike DEF Refs
  <2>3. PICK a \in O : Follows(a) \notin O
    <3>1. O \in SUBSET Refs /\ O # {}
      BY <1>1, <2>1, <2>2
    <3> QED
      BY <3>1, ChainsEnd
  <2>4. /\ Follows(a) \in Copied
        /\ mem[mem[a].fwd].fields[1] = mem[Follows(a)].fwd
    BY <2>2, RefPointer, ScanDoneCopies DEF Follows
  <2>5. mem[a].fwd \in S /\ mem'[mem[a].fwd].fields[1] \notin S
    BY <2>3, <2>4
  <2> QED
    BY <2>5
<1> QED
  BY <1>1, ChainsEndNext

(* Outside a collection the objects are those of from_space.               *)
LEMMA QuietObjects ==
  ASSUME HeapInv, ~Collecting
  PROVE  FromObjects = DOMAIN mem /\ FromObjects' \subseteq DOMAIN mem'
<1>1. ToObjects = {}
  BY EmptyToSpace DEF HeapInv, SpacesInv
<1> QED
  BY <1>1, ObjectsFacts DEF FromObjects

(* A new reference closes no ring: nothing points at it.                   *)
LEMMA AllocatedChains ==
  ASSUME HeapInv, ~Collecting, RefChainsEnd, NEW n, n \notin DOMAIN mem,
         DOMAIN mem' = DOMAIN mem \cup {n},
         \A a \in DOMAIN mem : mem'[a] = mem[a],
         mem'[n].type = "Ref" => mem'[n].fields[1] \in DOMAIN mem
  PROVE  RefChainsEnd'
<1>1. FromObjects = DOMAIN mem /\ FromObjects' \subseteq DOMAIN mem'
  BY QuietObjects
<1>2. ASSUME NEW S \in SUBSET Refs', S # {}
      PROVE  \E r \in S : mem'[r].fields[1] \notin S
  <2>1. \A a \in S : a \in DOMAIN mem' /\ mem'[a].type = "Ref"
    BY <1>1 DEF Refs
  <2>2. CASE S = {n}
    BY <2>1, <2>2
  <2>3. CASE S # {n}
    <3>1. S \ {n} \in SUBSET Refs /\ S \ {n} # {}
      BY <2>1, <2>3, <1>1, <1>2 DEF Refs
    <3>2. PICK r \in S \ {n} : Follows(r) \notin S \ {n}
      BY <3>1, ChainsEnd
    <3>3. r \in FromObjects /\ mem[r].type = "Ref" /\ mem'[r] = mem[r]
      BY <3>1, <1>1 DEF Refs
    <3>4. Follows(r) \in DOMAIN mem
      BY <3>3, <1>1, RefPointer
    <3> QED
      BY <3>2, <3>3, <3>4 DEF Follows
  <2> QED
    BY <2>2, <2>3
<1> QED
  BY <1>2, ChainsEndNext

(* Whatever the program does closes no ring: change_ref points the last    *)
(* reference of a chain at what is no reference.                           *)
LEMMA ProgramChains ==
  ASSUME HeapInv, TypedInv, RefChainsEnd, Program
  PROVE  RefChainsEnd'
<1>1. << >> \in Seq(Addresses) /\ DOMAIN << >> = {} /\ gc.phase = "idle" /\ ~Collecting /\ Quiet
  <2>1. gc.phase = "idle"
    BY ProgramIsIdle
  <2> QED
    BY <2>1, IdleIsQuiet DEF Collecting
<1>2. FromObjects = DOMAIN mem /\ FromObjects' \subseteq DOMAIN mem'
  BY <1>1, QuietObjects
<1>3. ASSUME UNCHANGED <<mem, from_space>> PROVE RefChainsEnd'
  BY <1>3, SameObjectsSameChains DEF FromObjects
<1>4. ASSUME NEW type \in Scalars, MakeScalar(type) PROVE RefChainsEnd'
  <2>1. type \in Types /\ type # "Ref" /\ Allocated(type, << >>)
    BY <1>4, TypesAssumption DEF Types, MakeScalar
  <2> DEFINE n == from_space.ptr
  <2>2. /\ n \notin DOMAIN mem /\ DOMAIN mem' = DOMAIN mem \cup {n}
        /\ \A a \in DOMAIN mem : mem'[a] = mem[a]
        /\ mem'[n].type = type
    BY <2>1, <1>1, AllocatedAdds
  <2> HIDE DEF n
  <2> QED
    BY <2>1, <2>2, <1>1, AllocatedChains
<1>5. ASSUME NEW type \in Aggregates \ {"Array"}, NEW fields \in Operands(type),
             Make(type, fields)
      PROVE  RefChainsEnd'
  <2>1. type \in Types /\ Allocated(type, fields)
    BY <1>5, TypesAssumption DEF Types, Make
  <2>2. /\ fields \in Seq(Addresses) /\ \A i \in DOMAIN fields : fields[i] \in DOMAIN mem
        /\ type = "Ref" => Len(fields) = 1
    BY <1>1, OperandsObjects
  <2> DEFINE n == from_space.ptr
  <2>3. /\ n \notin DOMAIN mem /\ DOMAIN mem' = DOMAIN mem \cup {n}
        /\ \A a \in DOMAIN mem : mem'[a] = mem[a]
        /\ mem'[n].type = type /\ mem'[n].fields = fields
    <3>1. fields \in Seq(Addresses) /\ Quiet
      BY <2>2, <1>1
    <3> QED
      BY <2>1, <3>1, AllocatedAdds
  <2> HIDE DEF n
  <2>4. type = "Ref" => 1 \in DOMAIN fields
    BY <2>2
  <2> QED
    BY <2>2, <2>3, <2>4, <1>1, AllocatedChains
<1>6. ASSUME NEW elements \in Operands("Array"), MakeArray(elements) PROVE RefChainsEnd'
  <2> DEFINE data == from_space.ptr
             header == data + ObjectWords("ArrayData", Len(elements))
  <2>1. /\ DOMAIN mem' = DOMAIN mem \cup {data, header}
        /\ mem'[data].type = "ArrayData" /\ mem'[header].type = "Array"
        /\ \A a \in DOMAIN mem : mem'[a] = mem[a]
    BY <1>6, MakeArrayEffect
  <2> HIDE DEF data, header
  <2>2. \A a \in Refs' : a \in Refs /\ mem'[a].fields = mem[a].fields
    BY <2>1, <1>2 DEF Refs
  <2> QED
    BY <2>2, SameChains
<1>7. ASSUME NEW array \in Held, NEW k \in Nat, NEW element \in HeldRefs,
             ReplaceArrayData(array, k, element)
      PROVE  RefChainsEnd'
  <2> DEFINE data == from_space.ptr
  <2>1. /\ DOMAIN mem' = DOMAIN mem \cup {data} /\ mem'[data].type = "ArrayData"
        /\ mem[array].type = "Array" /\ mem'[array].type = mem[array].type
        /\ \A a \in DOMAIN mem : a # array => mem'[a] = mem[a]
    BY <1>7, ReplaceArrayDataEffect
  <2> HIDE DEF data
  <2>2. \A a \in Refs' : a \in Refs /\ mem'[a].fields = mem[a].fields
    BY <2>1, <1>2 DEF Refs
  <2> QED
    BY <2>2, SameChains
<1>8. ASSUME NEW array \in Held, NEW k, NEW element \in HeldRefs,
             StoreElement(array, k, element)
      PROVE  RefChainsEnd'
  <2> DEFINE d == mem[array].fields[1]
  <2>1. mem[array].type = "Array" /\ mem' = [mem EXCEPT ![d].fields[k] = element]
    BY <1>8 DEF StoreElement
  <2>2. array \in DOMAIN mem /\ d \in DOMAIN mem /\ Len(mem[array].fields) = 1
    BY <2>1, <1>1, ArrayData
  <2>3. 1 \in DOMAIN mem[array].fields
    BY <2>2, ObjectsFacts
  <2>4. mem[d].type = "ArrayData"
    BY <2>1, <2>2, <2>3 DEF TypedInv, WellTyped
  <2>5. element \in DOMAIN mem
    BY <1>1, HeldTypes
  <2> HIDE DEF d
  <2>6. /\ DOMAIN mem' = DOMAIN mem /\ mem'[d].type = mem[d].type
        /\ \A a \in DOMAIN mem : a # d => mem'[a] = mem[a]
    BY <2>1, <2>2, <2>5, <1>1, PointerWriteEffect
  <2>7. \A a \in Refs' : a \in Refs /\ mem'[a].fields = mem[a].fields
    BY <2>4, <2>6, <1>2 DEF Refs
  <2> QED
    BY <2>7, SameChains
<1>9. ASSUME NEW ref \in Held, NEW p \in Held, ChangeRef(ref, p) PROVE RefChainsEnd'
  <2>1. /\ mem' = [mem EXCEPT ![ref].fields[1] = p] /\ mem[ref].type = "Ref"
        /\ mem[p].type # "Ref"
    BY <1>9 DEF ChangeRef
  <2>2. ref \in DOMAIN mem /\ p \in DOMAIN mem
    BY <1>1, HeldTypes
  <2>3. /\ DOMAIN mem' = DOMAIN mem /\ mem'[ref].type = mem[ref].type
        /\ \A a \in DOMAIN mem : a # ref => mem'[a] = mem[a]
        /\ FieldWritten(ref, 1, p)
    BY <2>1, <2>2, <1>1, PointerWriteEffect
  <2>4. mem'[ref].fields[1] = p
    <3>1. 1 \in DOMAIN mem[ref].fields
      BY <2>1, <2>2, <1>2, RefPointer
    <3> QED
      BY <3>1, <2>3 DEF FieldWritten
  <2>5. Refs' \subseteq Refs
    BY <2>1, <2>3, <1>2 DEF Refs
  <2>6. ASSUME NEW S \in SUBSET Refs', S # {}
        PROVE  \E r \in S : mem'[r].fields[1] \notin S
    <3>1. CASE ref \in S
      <4>1. p \notin S
        BY <2>1, <2>5 DEF Refs
      <4> QED
        BY <3>1, <4>1, <2>4
    <3>2. CASE ref \notin S
      <4>1. PICK r \in S : Follows(r) \notin S
        BY <2>5, <2>6, ChainsEnd
      <4>2. r \in DOMAIN mem /\ r # ref
        BY <3>2, <4>1, <2>5, <1>2 DEF Refs
      <4> QED
        BY <4>1, <4>2, <2>3 DEF Follows
    <3> QED
      BY <3>1, <3>2
  <2> QED
    BY <2>6, ChainsEndNext
<1>10. \A k \in 1..MaxElements + 1 : k \in Nat
  BY BoundsAssumption
<1>11. ASSUME \/ \E type \in Scalars : MakeScalarCollects(type)
              \/ \E p \in Held : PushRoot(p)
              \/ PopRoot
              \/ Collect
       PROVE  RefChainsEnd'
  BY <1>3, <1>11 DEF MakeScalarCollects, PushRoot, PopRoot, Collect, StartCollection
<1> QED
  BY <1>4, <1>5, <1>6, <1>7, <1>8, <1>9, <1>10, <1>11 DEF Program

(* No step closes a ring.                                                  *)
LEMMA ChainsKept ==
  ASSUME HeapInv, WaitingInv, CopiesInv, TypedInv, RefChainsEnd, [Next]_vars, HeapInv'
  PROVE  RefChainsEnd'
<1>1. CASE RootsDone \/ ScanNext \/ Stopped \/ UNCHANGED vars
  <2>1. FromObjects' = FromObjects /\ mem' = mem
    BY <1>1 DEF RootsDone, ScanNext, Stopped, vars, FromObjects
  <2> QED
    BY <2>1, SameObjectsSameChains
<1>2. CASE OutOfMemory
  <2>1. mem' = mem /\ ~Collecting
    BY <1>2 DEF OutOfMemory, Collecting
  <2>2. FromObjects = DOMAIN mem /\ FromObjects' \subseteq DOMAIN mem'
    BY <2>1, QuietObjects
  <2>3. \A a \in Refs' : a \in Refs /\ mem'[a].fields = mem[a].fields
    BY <2>1, <2>2 DEF Refs
  <2> QED
    BY <2>3, SameChains
<1>3. CASE ProcessRoot \/ ScanField
  BY <1>3, CopyingStep, SameObjectsSameChains
<1>4. CASE Finish
  <2> DEFINE n == to_space.ptr
  <2>1. /\ ScanDone /\ DOMAIN mem' = ToObjects \cup {n} /\ mem'[n].type = "None"
        /\ \A a \in ToObjects : a # n /\ mem'[a] = mem[a]
    BY <1>4, FinishEffect
  <2> HIDE DEF n
  <2>2. FromObjects' \subseteq DOMAIN mem'
    BY DEF FromObjects
  <2>3. \A a \in Refs' : a \in ToObjects /\ mem'[a] = mem[a]
    BY <2>1, <2>2 DEF Refs
  <2> QED
    BY <2>1, <2>3, SwapChains
<1>5. CASE FinishCollectsAgain
  <2>1. ScanDone /\ mem' = Survivors
    BY <1>5 DEF FinishCollectsAgain
  <2>2. DOMAIN mem' = ToObjects /\ \A a \in ToObjects : mem'[a] = mem[a]
    BY <2>1, SwapKeeps
  <2>3. \A a \in Refs' : a \in ToObjects /\ mem'[a] = mem[a]
    BY <2>2 DEF Refs, FromObjects
  <2> QED
    BY <2>1, <2>3, SwapChains
<1>6. CASE Resume
  <2> DEFINE n == from_space.ptr
  <2>1. gc.wanted \in Types /\ gc.wanted # "Ref" /\ Allocated(gc.wanted, << >>) /\ ~Collecting
    BY <1>6, TypesAssumption DEF Resume, WaitingInv, Types, Collecting
  <2>2. << >> \in Seq(Addresses) /\ Quiet
    BY <2>1, IdleIsQuiet
  <2>3. /\ n \notin DOMAIN mem /\ DOMAIN mem' = DOMAIN mem \cup {n}
        /\ \A a \in DOMAIN mem : mem'[a] = mem[a]
        /\ mem'[n].type = gc.wanted
    BY <2>1, <2>2, AllocatedAdds
  <2> HIDE DEF n
  <2> QED
    BY <2>1, <2>3, AllocatedChains
<1> QED
  BY <1>1, <1>2, <1>3, <1>4, <1>5, <1>6, ProgramChains DEF Next, Collector

(* Following a chain of references comes to an end: the loops of           *)
(* resolve_ref and change_ref leave it (sm_interpreter.cpp).               *)
THEOREM ReferenceChainsEnd == Spec => []RefChainsEnd
<1>1. Init => RefChainsEnd
  <2> SUFFICES ASSUME Init PROVE RefChainsEnd
    OBVIOUS
  <2> DEFINE none == NewObject("None", << >>)
  <2>1. mem = [a \in {1} |-> none]
    BY DEF Init
  <2>2. none.type = "None"
    BY DEF NewObject
  <2> HIDE DEF none
  <2>3. Refs = {}
    BY <2>1, <2>2 DEF Refs, FromObjects
  <2> QED
    BY <2>3, ChainsEnd
<1>2. HeapInv /\ WaitingInv /\ HeapInv' /\ [Next]_vars /\ CopiesInv /\ TypedInv /\ RefChainsEnd
        => RefChainsEnd'
  BY ChainsKept
<1> QED
  BY <1>1, <1>2, HeapInvariant, CopiesInvariant, TypedInvariant, PTL DEF Spec
=============================================================================
