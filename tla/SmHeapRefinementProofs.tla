----------------------- MODULE SmHeapRefinementProofs -----------------------
(***************************************************************************)
(* The copying collector implements the store of objects it promises, for  *)
(* every size of the arena, every bound and every choice of object types:  *)
(* Spec => ImplementsObjectStore.                                          *)
(*                                                                         *)
(* The argument. Outside a collection an object goes by its address, and   *)
(* what the program does to the heap it does to the store; after every     *)
(* step both forget what cannot be reached, and it is enough to see that   *)
(* the graph of the objects still reachable is the right one (NextObjs).   *)
(* During a collection a slot that has been forwarded still goes by the    *)
(* name of the original, which CopiesInv makes unique: copying is unseen.  *)
(* At the swap every object takes the address of its copy for its name:    *)
(* what is reachable is all copied, the copies point at each other as the  *)
(* originals did, and no two objects share one, which makes it a Rename.   *)
(***************************************************************************)
EXTENDS SmHeapRefinement, SmHeapCopyProofs

(* The heap's own root is a none, and no none has fields: it goes by no    *)
(* name.                                                                   *)
NoneInv ==
  /\ \A a \in DOMAIN mem : mem[a].type = "None" => Len(mem[a].fields) = 0
  /\ mem[roots[1]].type = "None"

(* A step keeps NoneInv if it creates no none, changes no type and leaves  *)
(* the first root.                                                         *)
LEMMA NoneStep ==
  ASSUME NoneInv, DOMAIN mem \subseteq DOMAIN mem',
         roots[1] \in DOMAIN mem, roots'[1] = roots[1],
         \A a \in DOMAIN mem :
            mem'[a].type = mem[a].type
            /\ (mem[a].type = "None" => Len(mem'[a].fields) = Len(mem[a].fields)),
         \A a \in DOMAIN mem' \ DOMAIN mem : mem'[a].type # "None"
  PROVE  NoneInv'
BY DEF NoneInv

(* There is always a first root.                                           *)
LEMMA FirstRoot ==
  ASSUME HeapInv
  PROVE  1 \in DOMAIN roots /\ roots[1] \in DOMAIN mem /\ roots \in Seq(Addresses)
         /\ DOMAIN roots = 1..Len(roots) /\ Len(roots) \in Nat
<1>1. roots # << >> /\ roots \in Seq(Addresses)
  BY DEF HeapInv, FromInv, TypeOK
<1>2. 1 \in DOMAIN roots
  BY <1>1
<1> QED
  BY <1>1, <1>2, AllPointers

(* An allocation of anything but a none keeps NoneInv.                     *)
LEMMA AllocatedNone ==
  ASSUME HeapInv, ~Collecting, NoneInv, NEW type \in Types \ {"None"},
         NEW fields \in Seq(Addresses), Allocated(type, fields)
  PROVE  NoneInv'
<1> DEFINE n == from_space.ptr
<1>1. Quiet
  BY IdleIsQuiet
<1>2. /\ n \notin DOMAIN mem /\ DOMAIN mem' = DOMAIN mem \cup {n}
      /\ mem'[n].type = type
      /\ \A a \in DOMAIN mem : mem'[a] = mem[a]
      /\ roots' = Append(roots, n) /\ n \in Addresses
  BY <1>1, AllocatedAdds
<1> HIDE DEF n
<1>3. roots'[1] = roots[1]
  BY <1>2, FirstRoot
<1> QED
  BY <1>2, <1>3, FirstRoot, NoneStep

(* A write of one field keeps NoneInv.                                     *)
LEMMA PointerWriteNone ==
  ASSUME HeapInv, ~Collecting, NoneInv, NEW d \in DOMAIN mem, NEW k, NEW p \in DOMAIN mem,
         mem' = [mem EXCEPT ![d].fields[k] = p], roots' = roots
  PROVE  NoneInv'
<1>1. Quiet
  BY IdleIsQuiet
<1>2. /\ DOMAIN mem' = DOMAIN mem
      /\ \A a \in DOMAIN mem : a # d => mem'[a] = mem[a]
      /\ mem'[d].type = mem[d].type
      /\ Len(mem'[d].fields) = Len(mem[d].fields)
  BY <1>1, PointerWriteEffect
<1> QED
  BY <1>2, FirstRoot, NoneStep

(* Whatever the program does keeps NoneInv.                                *)
LEMMA ProgramNone ==
  ASSUME HeapInv, NoneInv, Program
  PROVE  NoneInv'
<1>1. << >> \in Seq(Addresses) /\ gc.phase = "idle" /\ ~Collecting /\ Quiet
  <2>1. gc.phase = "idle"
    BY ProgramIsIdle
  <2> QED
    BY <2>1, IdleIsQuiet DEF Collecting
<1>2. ASSUME NEW elements \in Operands("Array"), MakeArray(elements) PROVE NoneInv'
  <2> DEFINE data == from_space.ptr
             header == data + ObjectWords("ArrayData", Len(elements))
  <2>1. /\ DOMAIN mem' = DOMAIN mem \cup {data, header}
        /\ mem'[data].type = "ArrayData" /\ mem'[header].type = "Array"
        /\ \A a \in DOMAIN mem : mem'[a] = mem[a]
        /\ roots' = Append(roots, header) /\ header \in Addresses
    BY <1>2, MakeArrayEffect
  <2> HIDE DEF data, header
  <2>2. roots'[1] = roots[1]
    BY <2>1, FirstRoot
  <2> QED
    BY <2>1, <2>2, FirstRoot, NoneStep
<1>3. ASSUME NEW array \in Held, NEW k \in Nat, NEW element \in HeldRefs,
             ReplaceArrayData(array, k, element)
      PROVE  NoneInv'
  <2> DEFINE data == from_space.ptr
  <2>1. /\ DOMAIN mem' = DOMAIN mem \cup {data} /\ mem'[data].type = "ArrayData"
        /\ mem[array].type = "Array" /\ mem'[array].type = mem[array].type
        /\ \A a \in DOMAIN mem : a # array => mem'[a] = mem[a]
        /\ roots' = roots
    BY <1>3, ReplaceArrayDataEffect
  <2> HIDE DEF data
  <2> QED
    BY <2>1, FirstRoot, NoneStep
<1>4. ASSUME NEW array \in Held, NEW k, NEW element \in HeldRefs,
             StoreElement(array, k, element)
      PROVE  NoneInv'
  <2> DEFINE d == mem[array].fields[1]
  <2>1. /\ mem[array].type = "Array" /\ mem' = [mem EXCEPT ![d].fields[k] = element]
        /\ roots' = roots
    BY <1>4 DEF StoreElement
  <2>2. d \in DOMAIN mem /\ element \in DOMAIN mem
    BY <1>1, <2>1, ArrayData, HeldObjects
  <2> HIDE DEF d
  <2> QED
    BY <1>1, <2>1, <2>2, PointerWriteNone
<1>5. ASSUME NEW ref \in Held, NEW p \in Held, ChangeRef(ref, p) PROVE NoneInv'
  <2>1. mem' = [mem EXCEPT ![ref].fields[1] = p] /\ roots' = roots
    BY <1>5 DEF ChangeRef
  <2>2. ref \in DOMAIN mem /\ p \in DOMAIN mem
    BY <1>1, HeldObjects
  <2> QED
    BY <1>1, <2>1, <2>2, PointerWriteNone
<1>6. ASSUME (\E type \in Scalars : MakeScalarCollects(type)) \/ Collect PROVE NoneInv'
  BY <1>6 DEF NoneInv, MakeScalarCollects, Collect, StartCollection
<1>7. ASSUME NEW type \in Scalars, MakeScalar(type) PROVE NoneInv'
  <2>1. type \in Types \ {"None"}
    BY TypesAssumption DEF Types
  <2> QED
    BY <1>1, <1>7, <2>1, AllocatedNone DEF MakeScalar
<1>8. ASSUME NEW type \in Aggregates \ {"Array"}, NEW fields \in Operands(type),
             Make(type, fields)
      PROVE  NoneInv'
  <2>1. fields \in Seq(Addresses) /\ type \in Types \ {"None"}
    BY <1>1, OperandsObjects, TypesAssumption DEF Types
  <2> QED
    BY <1>1, <1>8, <2>1, AllocatedNone DEF Make
<1>9. ASSUME NEW p \in Held, PushRoot(p) PROVE NoneInv'
  <2>1. mem' = mem /\ roots' = Append(roots, p) /\ p \in Addresses
    BY <1>1, <1>9, HeldObjects DEF PushRoot, HeapInv, TypeOK
  <2>2. roots'[1] = roots[1]
    BY <2>1, FirstRoot
  <2> QED
    BY <2>1, <2>2 DEF NoneInv
<1>10. ASSUME PopRoot PROVE NoneInv'
  <2>1. mem' = mem /\ roots' = SubSeq(roots, 1, Len(roots) - 1) /\ Len(roots) > 1
    BY <1>10 DEF PopRoot
  <2>2. roots'[1] = roots[1]
    BY <2>1, FirstRoot
  <2> QED
    BY <2>1, <2>2 DEF NoneInv
<1>11. \A k \in 1..MaxElements + 1 : k \in Nat
  BY BoundsAssumption
<1> QED
  BY <1>2, <1>3, <1>4, <1>5, <1>6, <1>7, <1>8, <1>9, <1>10, <1>11 DEF Program

(* Every step keeps NoneInv: the collection forwards the first root to the *)
(* copy of a none, or replaces it by a new one.                            *)
LEMMA NoneKept ==
  ASSUME HeapInv, WaitingInv, CopiesInv, NoneInv, [Next]_vars, HeapInv', CopiesInv'
  PROVE  NoneInv'
<1>1. CASE RootsDone \/ ScanNext \/ OutOfMemory \/ Stopped \/ UNCHANGED vars
  BY <1>1 DEF NoneInv, RootsDone, ScanNext, OutOfMemory, Stopped, vars
<1>2. CASE Resume
  <2>1. gc.wanted \in Types \ {"None"} /\ Allocated(gc.wanted, << >>) /\ ~Collecting
    BY <1>2, TypesAssumption DEF Resume, WaitingInv, Types, Collecting
  <2>2. << >> \in Seq(Addresses)
    OBVIOUS
  <2> QED
    BY <2>1, <2>2, AllocatedNone
<1>3. CASE ProcessRoot \/ ScanField
  <2>1. PICK p \in FromObjects :
           /\ Forward(p) \in DOMAIN mem'
           /\ \A a \in DOMAIN mem :
                 mem'[a].type = mem[a].type /\ Len(mem'[a].fields) = Len(mem[a].fields)
           /\ \A a \in DOMAIN mem' \ DOMAIN mem :
                 mem'[a].type = mem[p].type /\ Len(mem'[a].fields) = Len(mem[p].fields)
           /\ \A i \in DOMAIN roots :
                 roots'[i] = roots[i] \/ (roots[i] = p /\ roots'[i] = Forward(p))
           /\ p \in Copied' /\ mem'[p].fwd = Forward(p)
    BY <1>3, CopyingStep
  <2>2. p \in DOMAIN mem
    BY ObjectsFacts
  <2>3. mem'[Forward(p)].type = mem[p].type
    <3>1. mem'[mem'[p].fwd].type = mem'[p].type
      BY <2>1 DEF CopiesInv, CopyOf
    <3> QED
      BY <2>1, <2>2, <3>1
  <2> QED
    BY <2>1, <2>2, <2>3, FirstRoot DEF NoneInv
<1>4. CASE Finish
  <2> DEFINE n == to_space.ptr
             none == NewObject("None", << >>)
  <2>1. /\ none.type = "None" /\ none.fields = << >>
        /\ DOMAIN mem' = ToObjects \cup {n} /\ mem'[n] = none
        /\ \A a \in ToObjects : mem'[a] = mem[a]
        /\ roots' = [roots EXCEPT ![1] = n]
    BY <1>4, FinishEffect
  <2> HIDE DEF n, none
  <2> QED
    BY <2>1, FirstRoot, ObjectsFacts DEF NoneInv
<1>5. CASE FinishCollectsAgain
  <2>1. ScanDone /\ mem' = Survivors /\ roots' = roots
    BY <1>5 DEF FinishCollectsAgain
  <2>2. DOMAIN mem' = ToObjects /\ \A a \in ToObjects : mem'[a] = mem[a]
    BY <2>1, SwapKeeps
  <2>3. roots[1] \in ToObjects
    BY <2>1, FirstRoot, ScanDoneSlots
  <2> QED
    BY <2>1, <2>2, <2>3, ObjectsFacts DEF NoneInv
<1> QED
  BY <1>1, <1>2, <1>3, <1>4, <1>5, ProgramNone DEF Next, Collector

(* NoneInv holds of every state.                                           *)
LEMMA NoneAlways == Spec => []NoneInv
<1>1. Init => NoneInv
  <2> SUFFICES ASSUME Init PROVE NoneInv
    OBVIOUS
  <2> DEFINE none == NewObject("None", << >>)
  <2>1. mem = [a \in {1} |-> none] /\ roots = <<1>>
    BY DEF Init
  <2>2. none.type = "None" /\ none.fields = << >>
    BY DEF NewObject
  <2> HIDE DEF none
  <2> QED
    BY <2>1, <2>2 DEF NoneInv
<1>2. HeapInv /\ WaitingInv /\ HeapInv' /\ [Next]_vars /\ CopiesInv /\ CopiesInv' /\ NoneInv
        => NoneInv'
  BY NoneKept
<1> QED
  BY <1>1, <1>2, HeapInvariant, CopiesInvariant, PTL DEF Spec

(* A part of a graph that holds the roots and is closed under the fields   *)
(* may stand for the graph.                                                *)
LEMMA PruneClosed ==
  ASSUME NEW g, NEW h, NEW r, DOMAIN h \subseteq DOMAIN g,
         \A i \in DOMAIN h : h[i] = g[i],
         r \cap DOMAIN g \subseteq DOMAIN h,
         \A i \in DOMAIN h : PointsAt(g, i) \subseteq DOMAIN h
  PROVE  Prune(g, r) = Prune(h, r)
<1>1. Reachable(g, r) \subseteq DOMAIN h
  BY ReachableLeast
<1>2. \A i \in DOMAIN h : PointsAt(g, i) = PointsAt(h, i)
  BY DEF PointsAt
<1>3. Reachable(g, r) \subseteq Reachable(h, r)
  <2>1. r \cap DOMAIN g \subseteq Reachable(h, r)
    BY ReachableClosed
  <2>2. \A i \in Reachable(h, r) : PointsAt(g, i) \subseteq Reachable(h, r)
    BY <1>2, ReachableClosed
  <2>3. Reachable(h, r) \subseteq DOMAIN g
    BY ReachableClosed
  <2> QED
    BY <2>1, <2>2, <2>3, ReachableLeast
<1>4. Reachable(h, r) \subseteq Reachable(g, r)
  <2>1. r \cap DOMAIN h \subseteq Reachable(g, r)
    BY ReachableClosed
  <2>2. \A i \in Reachable(g, r) : PointsAt(h, i) \subseteq Reachable(g, r)
    BY <1>1, <1>2, ReachableClosed
  <2> QED
    BY <1>1, <2>1, <2>2, ReachableLeast
<1>5. \A i \in Reachable(g, r) : g[i] = h[i]
  BY <1>1
<1> QED
  BY <1>3, <1>4, <1>5 DEF Prune, Restrict

(* The objects that have a name: all but the nones.                        *)
Nodes == {a \in FromObjects : mem[a].type # "None"}

(* Graph, field by field: the objects of from_space go by their addresses. *)
GraphShape ==
  /\ DOMAIN Graph = Nodes /\ Nodes \subseteq DOMAIN mem /\ Nodes \subseteq Addresses /\ 0 \notin Nodes
  /\ \A p \in FromObjects : NameOf(p) = IF mem[p].type = "None" THEN 0 ELSE p
  /\ \A a \in Nodes :
        /\ Graph[a] = [type |-> mem[a].type,
                       fields |-> [i \in 1..Len(mem[a].fields) |-> NameOf(mem[a].fields[i])]]
        /\ Graph[a].type = mem[a].type
        /\ DOMAIN Graph[a].fields = DOMAIN mem[a].fields
        /\ DOMAIN Graph[a].fields = 1..Len(mem[a].fields) /\ Len(mem[a].fields) \in Nat
        /\ \A i \in DOMAIN mem[a].fields :
              /\ Graph[a].fields[i] = NameOf(mem[a].fields[i])
              /\ NameOf(mem[a].fields[i]) \in Nodes \cup {0}

(* Graph is as GraphShape says.                                            *)
LEMMA GraphHasShape == HeapInv => GraphShape
<1> SUFFICES ASSUME HeapInv PROVE GraphShape
  OBVIOUS
<1>1. /\ DOMAIN Graph = Nodes /\ Nodes \subseteq DOMAIN mem /\ Nodes \subseteq Addresses /\ 0 \notin Nodes
  BY ObjectsFacts DEF Graph, Nodes
<1>2. \A p \in FromObjects : NameOf(p) = IF mem[p].type = "None" THEN 0 ELSE p
  BY DEF NameOf, NoneId, Original, FromObjects
<1>3. ASSUME NEW a \in Nodes
      PROVE  /\ Graph[a] = [type |-> mem[a].type,
                            fields |-> [i \in 1..Len(mem[a].fields) |-> NameOf(mem[a].fields[i])]]
             /\ DOMAIN mem[a].fields = 1..Len(mem[a].fields) /\ Len(mem[a].fields) \in Nat
             /\ \A i \in DOMAIN mem[a].fields : NameOf(mem[a].fields[i]) \in Nodes \cup {0}
  <2>1. a \in FromObjects /\ DOMAIN mem[a].fields = 1..Len(mem[a].fields)
        /\ Len(mem[a].fields) \in Nat
    BY <1>1, ObjectsFacts DEF Nodes
  <2>2. \A i \in DOMAIN mem[a].fields : mem[a].fields[i] \in FromObjects
    BY <2>1, ObjectsFacts
  <2>3. \A i \in DOMAIN mem[a].fields : NameOf(mem[a].fields[i]) \in Nodes \cup {0}
    BY <1>2, <2>2 DEF Nodes
  <2>4. Graph[a] = [type |-> mem[a].type,
                    fields |-> [i \in 1..Len(mem[a].fields) |-> NameOf(mem[a].fields[i])]]
    BY <2>1 DEF Graph, Nodes
  <2> QED
    BY <2>1, <2>3, <2>4
<1> QED
  BY <1>1, <1>2, <1>3 DEF GraphShape

(* NameOf, of the next state, with the pointer as a rigid parameter.       *)
NameNext(p) ==
  IF mem'[p].type = "None" THEN 0
  ELSE IF Contains(from_space', p) THEN p
  ELSE CHOOSE a \in FromObjects' : mem'[a].fwd = p

(* GraphShape, of the next state.                                          *)
GraphShapeNext ==
  /\ DOMAIN Graph' = Nodes' /\ Nodes' \subseteq DOMAIN mem' /\ Nodes' \subseteq Addresses
  /\ 0 \notin Nodes'
  /\ \A p \in FromObjects' : NameNext(p) = IF mem'[p].type = "None" THEN 0 ELSE p
  /\ \A a \in Nodes' :
        /\ Graph'[a] = [type |-> mem'[a].type,
                        fields |-> [i \in 1..Len(mem'[a].fields) |-> NameNext(mem'[a].fields[i])]]
        /\ DOMAIN Graph'[a].fields = DOMAIN mem'[a].fields
        /\ DOMAIN Graph'[a].fields = 1..Len(mem'[a].fields)
        /\ \A i \in DOMAIN mem'[a].fields :
              Graph'[a].fields[i] = NameNext(mem'[a].fields[i])

(* GraphHasShape, of the next state.                                       *)
LEMMA GraphHasShapeNext == HeapInv' => GraphShapeNext
<1>1. HeapInv' => GraphShape'
  BY GraphHasShape, PTL
<1> QED
  BY <1>1 DEF GraphShape, GraphShapeNext, NameOf, NameNext, Original, NoneId

(* HeldNames, element by element: the roots but the first.                 *)
HeldShape ==
  /\ Len(roots) \in Nat \ {0} /\ DOMAIN roots = 1..Len(roots)
  /\ HeldNames \in Seq(Nat) /\ Len(HeldNames) = Len(roots) - 1
  /\ DOMAIN HeldNames = 1..Len(roots) - 1
  /\ \A i \in 1..Len(roots) - 1 :
        i + 1 \in DOMAIN roots /\ HeldNames[i] = NameOf(roots[i + 1])

(* HeldNames is as HeldShape says, also while some roots are forwarded.    *)
LEMMA HeldHasShape == HeapInv /\ CopiesInv => HeldShape
<1> SUFFICES ASSUME HeapInv, CopiesInv PROVE HeldShape
  OBVIOUS
<1>1. Len(roots) \in Nat \ {0} /\ DOMAIN roots = 1..Len(roots)
  BY FirstRoot
<1>2. \A i \in 1..Len(roots) - 1 : i + 1 \in DOMAIN roots
  BY <1>1
<1>3. \A i \in 1..Len(roots) - 1 : NameOf(roots[i + 1]) \in Nat
  <2>1. ASSUME NEW p \in DOMAIN mem PROVE NameOf(p) \in Nat
    <3>1. CASE p \in FromObjects
      BY <3>1, GraphHasShape DEF GraphShape, Nodes, Addresses
    <3>2. CASE p \in ToObjects
      <4>1. PICK a \in FromObjects : mem[a].fwd = p
        BY <3>2 DEF CopiesInv, Copied
      <4>2. (CHOOSE b \in FromObjects : mem[b].fwd = p) \in FromObjects
        BY <4>1
      <4>3. ~Contains(from_space, p)
        BY <3>2, ObjectsFacts DEF FromObjects
      <4> QED
        BY <4>2, <4>3, ObjectsFacts DEF NameOf, NoneId, Original, Addresses
    <3> QED
      BY <3>1, <3>2, ObjectsFacts
  <2> QED
    BY <2>1, <1>2, AllPointers
<1>4. HeldNames = [i \in 1..Len(roots) - 1 |-> NameOf(roots[i + 1])]
  BY DEF HeldNames
<1>5. HeldNames \in [1..Len(roots) - 1 -> Nat] /\ Len(roots) - 1 \in Nat
  BY <1>1, <1>3, <1>4
<1> DEFINE n == Len(roots) - 1
<1>6. HeldNames \in [1..n -> Nat] /\ n \in Nat
  BY <1>5
<1>7. \A i \in 1..n : HeldNames[i] = NameOf(roots[i + 1])
  BY <1>4
<1> HIDE DEF n
<1>8. HeldNames \in Seq(Nat) /\ Len(HeldNames) = n /\ DOMAIN HeldNames = 1..n
  BY <1>6
<1> QED
  BY <1>1, <1>2, <1>7, <1>8 DEF HeldShape, n

(* HeldShape, of the next state.                                           *)
HeldShapeNext ==
  /\ Len(roots') \in Nat \ {0} /\ DOMAIN roots' = 1..Len(roots')
  /\ HeldNames' \in Seq(Nat) /\ Len(HeldNames') = Len(roots') - 1
  /\ DOMAIN HeldNames' = 1..Len(roots') - 1
  /\ \A i \in 1..Len(roots') - 1 :
        i + 1 \in DOMAIN roots' /\ HeldNames'[i] = NameNext(roots'[i + 1])

(* HeldHasShape, of the next state.                                        *)
LEMMA HeldHasShapeNext == HeapInv' /\ CopiesInv' => HeldShapeNext
<1>1. HeapInv' /\ CopiesInv' => HeldShape'
  BY HeldHasShape, PTL
<1> QED
  BY <1>1 DEF HeldShape, HeldShapeNext, NameOf, NameNext, Original, NoneId

(* Objs is the part of Graph that holds the names held and is closed under *)
(* the fields.                                                             *)
ObjsShape ==
  /\ DOMAIN Objs \subseteq Nodes
  /\ \A a \in DOMAIN Objs : Objs[a] = Graph[a]
  /\ Range(HeldNames) \cap Nodes \subseteq DOMAIN Objs
  /\ \A a \in DOMAIN Objs : \A i \in DOMAIN mem[a].fields :
        NameOf(mem[a].fields[i]) \in DOMAIN Objs \cup {0}

(* Objs is as ObjsShape says.                                              *)
LEMMA ObjsHaveShape == HeapInv => ObjsShape
<1> SUFFICES ASSUME HeapInv PROVE ObjsShape
  OBVIOUS
<1> DEFINE R == Reachable(Graph, Range(HeldNames))
<1>1. R \subseteq DOMAIN Graph /\ Range(HeldNames) \cap DOMAIN Graph \subseteq R
      /\ \A a \in R : PointsAt(Graph, a) \subseteq R
  BY ReachableClosed
<1>2. DOMAIN Objs = R /\ \A a \in R : Objs[a] = Graph[a]
  BY DEF Objs, Prune, Restrict
<1> HIDE DEF R
<1>3. ASSUME NEW a \in R, NEW i \in DOMAIN mem[a].fields
      PROVE  NameOf(mem[a].fields[i]) \in R \cup {0}
  <2>1. a \in Nodes
    BY <1>1, GraphHasShape DEF GraphShape
  <2>2. /\ Graph[a].fields[i] = NameOf(mem[a].fields[i]) /\ i \in DOMAIN Graph[a].fields
        /\ NameOf(mem[a].fields[i]) \in DOMAIN Graph \cup {0}
    BY <2>1, GraphHasShape DEF GraphShape
  <2> QED
    BY <2>2, <1>1 DEF PointsAt, Range
<1> QED
  BY <1>1, <1>2, <1>3, GraphHasShape DEF ObjsShape, GraphShape

(* Any part X of the next graph that holds the next names held and is      *)
(* closed under the fields gives the next Objs.                            *)
LEMMA NextObjs ==
  ASSUME HeapInv', NEW X, DOMAIN X \subseteq Nodes',
         \A a \in DOMAIN X : X[a] = Graph'[a],
         \A a \in DOMAIN X : \A i \in DOMAIN mem'[a].fields :
            NameNext(mem'[a].fields[i]) \in DOMAIN X \cup {0},
         \A i \in DOMAIN HeldNames' : HeldNames'[i] \in DOMAIN X \cup {0}
  PROVE  Objs' = Prune(X, Range(HeldNames'))
<1>1. DOMAIN Graph' = Nodes' /\ 0 \notin Nodes'
  BY GraphHasShapeNext DEF GraphShapeNext
<1>2. ASSUME NEW a \in DOMAIN X PROVE PointsAt(Graph', a) \subseteq DOMAIN X
  <2>1. /\ DOMAIN Graph'[a].fields = DOMAIN mem'[a].fields
        /\ \A i \in DOMAIN mem'[a].fields : Graph'[a].fields[i] = NameNext(mem'[a].fields[i])
    BY GraphHasShapeNext DEF GraphShapeNext
  <2> QED
    BY <2>1, <1>1 DEF PointsAt, Range
<1>3. Range(HeldNames') \cap Nodes' \subseteq DOMAIN X
  BY <1>1 DEF Range
<1>4. Prune(Graph', Range(HeldNames')) = Prune(X, Range(HeldNames'))
  <2> DEFINE g == Graph'
             r == Range(HeldNames')
  <2>1. /\ DOMAIN X \subseteq DOMAIN g
        /\ \A i \in DOMAIN X : X[i] = g[i]
        /\ r \cap DOMAIN g \subseteq DOMAIN X
        /\ \A i \in DOMAIN X : PointsAt(g, i) \subseteq DOMAIN X
    BY <1>1, <1>2, <1>3
  <2> HIDE DEF g, r
  <2>2. Prune(g, r) = Prune(X, r)
    BY <2>1, PruneClosed
  <2> QED
    BY <2>2 DEF g, r
<1> QED
  BY <1>4 DEF Objs

(* Outside a collection the names held are those of objects, or of none.   *)
LEMMA HeldAreObjs ==
  ASSUME HeapInv, CopiesInv, ~Collecting
  PROVE  \A i \in DOMAIN HeldNames : HeldNames[i] \in DOMAIN Objs \cup {0}
<1>1. ASSUME NEW i \in DOMAIN HeldNames PROVE HeldNames[i] \in Nodes \cup {0}
  <2>1. i + 1 \in DOMAIN roots /\ HeldNames[i] = NameOf(roots[i + 1])
    BY HeldHasShape DEF HeldShape
  <2>2. roots[i + 1] \in FromObjects
    BY <2>1, AllPointers, QuietObjects
  <2> QED
    BY <2>1, <2>2, GraphHasShape DEF GraphShape, Nodes
<1> QED
  BY <1>1, ObjsHaveShape DEF ObjsShape, Range

(* Objects that stay in from_space keep their names.                       *)
LEMMA SameNames ==
  ASSUME HeapInv, HeapInv', FromObjects \subseteq FromObjects',
         \A p \in FromObjects : mem'[p].type = mem[p].type
  PROVE  \A p \in FromObjects : NameNext(p) = NameOf(p)
BY GraphHasShape, GraphHasShapeNext DEF GraphShape, GraphShapeNext

(* An object whose fields stay the same is the same node of the graph.     *)
LEMMA SameNode ==
  ASSUME HeapInv, HeapInv', NEW a \in Nodes, a \in Nodes',
         mem'[a].type = mem[a].type, mem'[a].fields = mem[a].fields,
         \A i \in DOMAIN mem[a].fields :
            NameNext(mem[a].fields[i]) = NameOf(mem[a].fields[i])
  PROVE  Graph'[a] = Graph[a]
<1>1. Graph[a] = [type |-> mem[a].type,
                  fields |-> [i \in 1..Len(mem[a].fields) |-> NameOf(mem[a].fields[i])]]
      /\ DOMAIN mem[a].fields = 1..Len(mem[a].fields)
  BY GraphHasShape DEF GraphShape
<1>2. Graph'[a] = [type |-> mem'[a].type,
                  fields |-> [i \in 1..Len(mem'[a].fields) |-> NameNext(mem'[a].fields[i])]]
  BY GraphHasShapeNext DEF GraphShapeNext
<1>3. [i \in 1..Len(mem'[a].fields) |-> NameNext(mem'[a].fields[i])]
        = [i \in 1..Len(mem[a].fields) |-> NameOf(mem[a].fields[i])]
  BY <1>1
<1> QED
  BY <1>1, <1>2, <1>3

(* The names the program can use.                                          *)
StoreNames == {0} \cup DOMAIN Objs

(* Prune means in the store what it means here.                            *)
LEMMA StorePrune ==
  \A g, r : Store!Prune(g, Store!Range(r)) = Prune(g, Range(r))
BY DEF Store!Prune, Store!Reachable, Store!PointsAt, Store!Restrict, Store!Range,
       Prune, Reachable, PointsAt, Restrict, Range

(* What it takes to end an operation of the store.                         *)
LEMMA StoreBecomes ==
  ASSUME NEW g, NEW r, HeldNames' = r, Objs' = Prune(g, Range(r))
  PROVE  Store!Becomes(g, r)
BY StorePrune DEF Store!Becomes

(* A Push of the store, from its effect.                                   *)
LEMMA StorePush ==
  ASSUME NEW v \in StoreNames, HeldNames' = Append(HeldNames, v),
         Objs' = Prune(Objs, Range(HeldNames'))
  PROVE  Store!Next
<1>1. v \in Store!Nameable
  BY DEF StoreNames, Store!Nameable, NoneId
<1>2. Store!Push(v)
  BY <1>1, StoreBecomes DEF Store!Push
<1> QED
  BY <1>1, <1>2 DEF Store!Next

(* A Pop of the store, from its effect.                                    *)
LEMMA StorePop ==
  ASSUME HeldNames # << >>, HeldNames' = SubSeq(HeldNames, 1, Len(HeldNames) - 1),
         Objs' = Prune(Objs, Range(HeldNames'))
  PROVE  Store!Next
BY StoreBecomes DEF Store!Next, Store!Pop

(* A New of the store, from its effect.                                    *)
LEMMA StoreNew ==
  ASSUME NEW n \in Addresses, n \notin DOMAIN Objs, n \in DOMAIN Objs',
         NEW type \in {"Int", "String", "Ref", "Tuple", "Func"},
         NEW k \in 0..MaxElements, NEW fields \in [1..k -> StoreNames],
         HeldNames' = Append(HeldNames, n),
         Objs' = Prune(Store!With(Objs, n, type, fields), Range(HeldNames'))
  PROVE  Store!Next
<1>1. n \in Store!Fresh
  BY DEF Store!Fresh
<1>2. fields \in Store!FieldLists
  BY DEF Store!FieldLists, Store!Nameable, StoreNames, NoneId
<1>3. type \in Store!Types
  BY DEF Store!Types
<1>4. Store!New(n, type, fields)
  BY StoreBecomes DEF Store!New
<1> QED
  BY <1>1, <1>2, <1>3, <1>4 DEF Store!Next

(* A NewArray of the store, from its effect.                               *)
LEMMA StoreNewArray ==
  ASSUME NEW n \in Addresses, n \notin DOMAIN Objs, n \in DOMAIN Objs',
         NEW d \in Addresses, d \notin DOMAIN Objs, d \in DOMAIN Objs', n # d,
         NEW k \in 0..MaxElements, NEW fields \in [1..k -> StoreNames],
         HeldNames' = Append(HeldNames, n),
         Objs' = Prune(Store!With(Store!With(Objs, d, "ArrayData", fields), n, "Array", <<d>>),
                       Range(HeldNames'))
  PROVE  Store!Next
<1>1. n \in Store!Fresh /\ d \in Store!Fresh
  BY DEF Store!Fresh
<1>2. fields \in Store!FieldLists
  BY DEF Store!FieldLists, Store!Nameable, StoreNames, NoneId
<1>3. Store!NewArray(n, d, fields)
  BY StoreBecomes DEF Store!NewArray
<1> QED
  BY <1>1, <1>2, <1>3 DEF Store!Next

(* A Write of the store, from its effect.                                  *)
LEMMA StoreWrite ==
  ASSUME NEW n \in DOMAIN Objs, NEW k \in 1..MaxElements + 1, k \in DOMAIN Objs[n].fields,
         NEW v \in StoreNames, HeldNames' = HeldNames,
         Objs' = Prune([Objs EXCEPT ![n].fields[k] = v], Range(HeldNames))
  PROVE  Store!Next
<1>1. n \in Store!Nameable /\ v \in Store!Nameable
  BY DEF Store!Nameable, StoreNames, NoneId
<1>2. Store!Write(n, k, v)
  BY <1>1, StoreBecomes DEF Store!Write
<1> QED
  BY <1>1, <1>2 DEF Store!Next

(* The sequence old with v inserted at place k.                            *)
Inserted(old, k, v) == SubSeq(old, 1, k - 1) \o <<v>> \o SubSeq(old, k, Len(old))

(* An Insert of the store, from its effect.                                *)
LEMMA StoreInsert ==
  ASSUME NEW n \in DOMAIN Objs, Objs[n].type = "Array", NEW k \in 1..MaxElements + 1,
         k \in 1..Len(Objs[Objs[n].fields[1]].fields) + 1,
         NEW v \in StoreNames,
         NEW d \in Addresses, d \notin DOMAIN Objs, d \in DOMAIN Objs',
         HeldNames' = HeldNames,
         Objs' = Prune([Store!With(Objs, d, "ArrayData",
                                   Inserted(Objs[Objs[n].fields[1]].fields, k, v))
                          EXCEPT ![n].fields = <<d>>],
                       Range(HeldNames))
  PROVE  Store!Next
<1>1. n \in Store!Nameable /\ v \in Store!Nameable /\ d \in Store!Fresh
  BY DEF Store!Nameable, StoreNames, NoneId, Store!Fresh
<1>2. Store!Insert(n, k, v)
  BY <1>1, StoreBecomes DEF Store!Insert, Inserted
<1> QED
  BY <1>1, <1>2 DEF Store!Next

(* What the program holds has a name it can use; so have the elements of   *)
(* an array.                                                               *)
LEMMA HeldNameable ==
  ASSUME HeapInv, CopiesInv, NoneInv, TypedInv, ~Collecting
  PROVE  /\ \A p \in Held : p \in FromObjects /\ NameOf(p) \in StoreNames
         /\ \A p \in Held : mem[p].type = "Array" =>
               /\ mem[p].fields[1] \in DOMAIN Objs /\ mem[p].fields[1] \in FromObjects
               /\ mem[mem[p].fields[1]].type = "ArrayData"
<1>1. Quiet /\ FromObjects = DOMAIN mem
  BY IdleIsQuiet, QuietObjects
<1>2. ASSUME NEW p \in Range(roots) PROVE p \in FromObjects /\ NameOf(p) \in StoreNames
  <2>1. PICK i \in DOMAIN roots : roots[i] = p
    BY DEF Range
  <2>2. p \in FromObjects
    BY <2>1, <1>1, AllPointers
  <2>3. CASE i = 1
    BY <2>1, <2>2, <2>3, GraphHasShape DEF NoneInv, GraphShape, StoreNames
  <2>4. CASE i # 1
    <3>1. i - 1 \in DOMAIN HeldNames /\ HeldNames[i - 1] = NameOf(p)
      <4>1. i \in 1..Len(roots) /\ Len(roots) \in Nat
        BY <2>1, FirstRoot
      <4>2. i - 1 \in 1..Len(roots) - 1 /\ (i - 1) + 1 = i
        BY <4>1, <2>4
      <4>3. HeldNames[i - 1] = NameOf(roots[(i - 1) + 1])
        BY <4>2, HeldHasShape DEF HeldShape
      <4>4. i - 1 \in DOMAIN HeldNames
        BY <4>2, HeldHasShape DEF HeldShape
      <4> QED
        BY <4>2, <4>3, <4>4, <2>1
    <3> QED
      BY <3>1, <2>2, HeldAreObjs DEF StoreNames
  <2> QED
    BY <2>3, <2>4
<1>3. ASSUME NEW p \in FromObjects, NameOf(p) \in StoreNames, NEW i \in DOMAIN mem[p].fields
      PROVE  mem[p].fields[i] \in FromObjects /\ NameOf(mem[p].fields[i]) \in StoreNames
  <2>1. mem[p].fields[i] \in FromObjects
    BY ObjectsFacts
  <2>2. mem[p].type # "None"
    <3>1. Len(mem[p].fields) # 0
      BY ObjectsFacts
    <3> QED
      BY <3>1, <1>1 DEF NoneInv
  <2>3. p \in DOMAIN Objs
    BY <2>2, <1>3, GraphHasShape DEF GraphShape, StoreNames, Nodes
  <2> QED
    BY <2>1, <2>3, ObjsHaveShape DEF ObjsShape, StoreNames
<1>4. ASSUME NEW p \in FromObjects, NameOf(p) \in StoreNames, mem[p].type = "Array"
      PROVE  /\ mem[p].fields[1] \in DOMAIN Objs /\ mem[p].fields[1] \in FromObjects
             /\ mem[mem[p].fields[1]].type = "ArrayData"
             /\ NameOf(mem[p].fields[1]) \in StoreNames
  <2>1. 1 \in DOMAIN mem[p].fields
    <3>1. Len(mem[p].fields) = 1
      BY <1>1, <1>4 DEF HeapInv, LayoutInv
    <3> QED
      BY <3>1, ObjectsFacts
  <2>2. mem[p].fields[1] \in FromObjects /\ NameOf(mem[p].fields[1]) \in StoreNames
    BY <2>1, <1>3, <1>4
  <2>3. mem[mem[p].fields[1]].type = "ArrayData"
    BY <2>1, <1>1, <1>4 DEF TypedInv, WellTyped
  <2>4. mem[p].fields[1] \in DOMAIN Objs
    BY <2>2, <2>3, GraphHasShape DEF GraphShape, StoreNames, Nodes
  <2> QED
    BY <2>2, <2>3, <2>4
<1>5. ASSUME NEW p \in Range(roots), NEW q \in Elements(p)
      PROVE  q \in FromObjects /\ NameOf(q) \in StoreNames
  <2>1. CASE mem[p].type = "Array"
    <3> DEFINE d == mem[p].fields[1]
    <3>1. d \in FromObjects /\ NameOf(d) \in StoreNames
      BY <1>2, <1>4, <2>1
    <3>2. PICK i \in DOMAIN mem[d].fields : mem[d].fields[i] = q
      BY <2>1 DEF Elements, Range
    <3> HIDE DEF d
    <3> QED
      BY <3>1, <3>2, <1>3
  <2>2. CASE mem[p].type # "Array"
    <3>1. PICK i \in DOMAIN mem[p].fields : mem[p].fields[i] = q
      BY <2>2 DEF Elements, Range
    <3> QED
      BY <3>1, <1>2, <1>3
  <2> QED
    BY <2>1, <2>2
<1>6. \A p \in Held : p \in FromObjects /\ NameOf(p) \in StoreNames
  BY <1>2, <1>5 DEF Held
<1> QED
  BY <1>4, <1>6

(* Two sequences with the same elements are the same.                      *)
LEMMA SameSequence ==
  ASSUME NEW s \in Seq(Nat), NEW t \in Seq(Nat), Len(s) = Len(t),
         \A i \in 1..Len(s) : s[i] = t[i]
  PROVE  s = t
OBVIOUS

(* A step that creates objects behind the others, or none, keeps the       *)
(* names, and the nodes of the objects it does not change.                 *)
LEMMA NamesKept ==
  ASSUME HeapInv, HeapInv', ~Collecting, DOMAIN mem \subseteq DOMAIN mem',
         \A a \in DOMAIN mem : mem'[a].type = mem[a].type,
         from_space'.begin = from_space.begin, from_space'.end = from_space.end
  PROVE  /\ FromObjects = DOMAIN mem /\ FromObjects \subseteq FromObjects'
         /\ Nodes \subseteq Nodes'
         /\ \A p \in DOMAIN mem : NameNext(p) = NameOf(p)
         /\ \A a \in Nodes : mem'[a].fields = mem[a].fields => Graph'[a] = Graph[a]
         /\ \A a \in DOMAIN Objs : mem'[a].fields = mem[a].fields =>
               /\ a \in Nodes' /\ Graph'[a] = Objs[a]
               /\ \A i \in DOMAIN mem'[a].fields :
                     NameNext(mem'[a].fields[i]) \in DOMAIN Objs \cup {0}
<1>1. FromObjects = DOMAIN mem
  BY QuietObjects
<1>2. FromObjects \subseteq FromObjects'
  BY <1>1 DEF FromObjects, Contains
<1>3. \A p \in DOMAIN mem : NameNext(p) = NameOf(p)
  BY <1>1, <1>2, SameNames
<1>4. Nodes \subseteq Nodes'
  BY <1>1, <1>2 DEF Nodes
<1>5. ASSUME NEW a \in Nodes, mem'[a].fields = mem[a].fields PROVE Graph'[a] = Graph[a]
  <2>1. a \in Nodes' /\ mem'[a].type = mem[a].type
    BY <1>4, <1>1 DEF Nodes
  <2>2. \A i \in DOMAIN mem[a].fields : NameNext(mem[a].fields[i]) = NameOf(mem[a].fields[i])
    BY <1>1, <1>3, AllPointers DEF Nodes
  <2> QED
    BY <1>5, <2>1, <2>2, SameNode
<1>6. ASSUME NEW a \in DOMAIN Objs, mem'[a].fields = mem[a].fields
      PROVE  /\ a \in Nodes' /\ Graph'[a] = Objs[a]
             /\ \A i \in DOMAIN mem'[a].fields :
                   NameNext(mem'[a].fields[i]) \in DOMAIN Objs \cup {0}
  <2>1. a \in Nodes /\ Objs[a] = Graph[a]
    BY ObjsHaveShape DEF ObjsShape
  <2>2. \A i \in DOMAIN mem[a].fields :
           NameNext(mem[a].fields[i]) = NameOf(mem[a].fields[i])
           /\ NameOf(mem[a].fields[i]) \in DOMAIN Objs \cup {0}
    BY <1>1, <1>3, <2>1, AllPointers, ObjsHaveShape DEF Nodes, ObjsShape
  <2> QED
    BY <1>4, <1>5, <1>6, <2>1, <2>2
<1> QED
  BY <1>1, <1>2, <1>3, <1>4, <1>5, <1>6

(* A root pushed is a name pushed.                                         *)
LEMMA HeldAppend ==
  ASSUME HeapInv, HeapInv', CopiesInv, CopiesInv', NEW p \in DOMAIN mem',
         \A q \in DOMAIN mem : NameNext(q) = NameOf(q),
         roots' = Append(roots, p), NameNext(p) \in Nat
  PROVE  HeldNames' = Append(HeldNames, NameNext(p))
<1> DEFINE n == Len(roots)
<1>1. n \in Nat \ {0} /\ DOMAIN roots = 1..n /\ HeldNames \in Seq(Nat)
      /\ Len(HeldNames) = n - 1
      /\ \A i \in 1..n - 1 : i + 1 \in DOMAIN roots /\ HeldNames[i] = NameOf(roots[i + 1])
  BY HeldHasShape DEF HeldShape
<1>2. roots \in Seq(Addresses)
  BY FirstRoot
<1>3. Len(roots') = n + 1 /\ roots'[n + 1] = p /\ \A i \in 1..n : roots'[i] = roots[i]
  BY <1>2
<1>4. HeldNames' \in Seq(Nat) /\ Len(HeldNames') = (n + 1) - 1
      /\ \A i \in 1..(n + 1) - 1 : HeldNames'[i] = NameNext(roots'[i + 1])
  BY <1>3, HeldHasShapeNext DEF HeldShapeNext
<1>5. Len(HeldNames') = n /\ \A i \in 1..n : HeldNames'[i] = NameNext(roots'[i + 1])
  <2>1. (n + 1) - 1 = n
    BY <1>1
  <2> QED
    BY <1>4, <2>1
<1> HIDE DEF n
<1> DEFINE t == Append(HeldNames, NameNext(p))
<1>6. t \in Seq(Nat) /\ Len(t) = n /\ t[n] = NameNext(p) /\ \A i \in 1..n - 1 : t[i] = HeldNames[i]
  BY <1>1
<1>7. \A i \in 1..n : HeldNames'[i] = t[i]
  <2> SUFFICES ASSUME NEW i \in 1..n PROVE HeldNames'[i] = t[i]
    OBVIOUS
  <2>1. CASE i = n
    BY <1>3, <1>5, <1>6, <2>1
  <2>2. CASE i # n
    <3>1. i \in 1..n - 1 /\ i + 1 \in 1..n
      BY <1>1, <2>2
    <3>2. roots'[i + 1] = roots[i + 1] /\ roots[i + 1] \in DOMAIN mem
      BY <1>1, <1>3, <3>1, AllPointers
    <3> QED
      BY <1>1, <1>5, <1>6, <3>1, <3>2
  <2> QED
    BY <2>1, <2>2
<1> HIDE DEF t
<1>8. HeldNames' = t
  BY <1>4, <1>5, <1>6, <1>7, SameSequence
<1> QED
  BY <1>8 DEF t

(* Roots that go by the same names leave the names held as they are.       *)
LEMMA HeldSame ==
  ASSUME HeapInv, HeapInv', CopiesInv, CopiesInv', DOMAIN roots' = DOMAIN roots,
         \A i \in DOMAIN roots : NameNext(roots'[i]) = NameOf(roots[i])
  PROVE  HeldNames' = HeldNames
<1>1. Len(roots') = Len(roots)
  BY HeldHasShape, HeldHasShapeNext DEF HeldShape, HeldShapeNext
<1>2. Len(HeldNames') = Len(HeldNames) /\ HeldNames \in Seq(Nat) /\ HeldNames' \in Seq(Nat)
      /\ Len(HeldNames) = Len(roots) - 1
  BY <1>1, HeldHasShape, HeldHasShapeNext DEF HeldShape, HeldShapeNext
<1>3. \A i \in 1..Len(roots) - 1 : HeldNames[i] = NameOf(roots[i + 1]) /\ i + 1 \in DOMAIN roots
  BY HeldHasShape DEF HeldShape
<1>4. \A i \in 1..Len(roots) - 1 : HeldNames'[i] = NameNext(roots'[i + 1])
  BY <1>1, HeldHasShapeNext DEF HeldShapeNext
<1> QED
  BY <1>2, <1>3, <1>4, SameSequence

(* A root popped is a name popped.                                         *)
LEMMA HeldPopped ==
  ASSUME HeapInv, HeapInv', CopiesInv, CopiesInv', Len(roots) > 1,
         \A q \in DOMAIN mem : NameNext(q) = NameOf(q),
         roots' = SubSeq(roots, 1, Len(roots) - 1)
  PROVE  /\ HeldNames # << >>
         /\ HeldNames' = SubSeq(HeldNames, 1, Len(HeldNames) - 1)
         /\ \A i \in DOMAIN HeldNames' : i \in DOMAIN HeldNames /\ HeldNames'[i] = HeldNames[i]
<1> DEFINE n == Len(roots)
<1>1. n \in Nat \ {0} /\ DOMAIN roots = 1..n /\ HeldNames \in Seq(Nat)
      /\ Len(HeldNames) = n - 1 /\ DOMAIN HeldNames = 1..n - 1
      /\ \A i \in 1..n - 1 : i + 1 \in DOMAIN roots /\ HeldNames[i] = NameOf(roots[i + 1])
  BY HeldHasShape DEF HeldShape
<1>2. roots \in Seq(Addresses)
  BY FirstRoot
<1>3. Len(roots') = n - 1 /\ \A i \in 1..n - 1 : roots'[i] = roots[i]
  BY <1>1, <1>2
<1>4. HeldNames' \in Seq(Nat) /\ Len(HeldNames') = (n - 1) - 1 /\ DOMAIN HeldNames' = 1..(n - 1) - 1
      /\ \A i \in 1..(n - 1) - 1 : HeldNames'[i] = NameNext(roots'[i + 1])
  BY <1>3, HeldHasShapeNext DEF HeldShapeNext
<1>5. n > 1
  OBVIOUS
<1> HIDE DEF n
<1>6. \A i \in 1..(n - 1) - 1 : i \in 1..n - 1 /\ HeldNames'[i] = HeldNames[i]
  <2> SUFFICES ASSUME NEW i \in 1..(n - 1) - 1 PROVE i \in 1..n - 1 /\ HeldNames'[i] = HeldNames[i]
    OBVIOUS
  <2>1. i \in 1..n - 1 /\ i + 1 \in 1..n - 1
    BY <1>1
  <2>2. roots'[i + 1] = roots[i + 1] /\ roots[i + 1] \in DOMAIN mem
    BY <1>1, <1>3, <2>1, AllPointers
  <2> QED
    BY <1>1, <1>4, <2>1, <2>2
<1> DEFINE t == SubSeq(HeldNames, 1, Len(HeldNames) - 1)
<1>7. t \in Seq(Nat) /\ Len(t) = (n - 1) - 1 /\ \A i \in 1..(n - 1) - 1 : t[i] = HeldNames[i]
  BY <1>1, <1>5
<1> HIDE DEF t
<1>8. HeldNames' = t
  BY <1>4, <1>6, <1>7, SameSequence
<1>9. HeldNames # << >>
  BY <1>1, <1>5
<1> QED
  BY <1>1, <1>4, <1>6, <1>8, <1>9 DEF t

(* The elements of a sequence with one more.                               *)
LEMMA AppendedNames ==
  ASSUME NEW s \in Seq(Nat), NEW v \in Nat, NEW S, v \in S, \A i \in DOMAIN s : s[i] \in S
  PROVE  /\ \A i \in DOMAIN Append(s, v) : Append(s, v)[i] \in S
         /\ v \in Range(Append(s, v))
<1>1. Len(Append(s, v)) = Len(s) + 1 /\ DOMAIN Append(s, v) = 1..Len(s) + 1
      /\ Append(s, v)[Len(s) + 1] = v /\ \A i \in 1..Len(s) : Append(s, v)[i] = s[i]
  OBVIOUS
<1> QED
  BY <1>1 DEF Range

(* A pruned graph holds the roots and is closed under the fields.          *)
LEMMA PrunedClosed ==
  ASSUME NEW g, NEW r
  PROVE  /\ r \cap DOMAIN g \subseteq DOMAIN Prune(g, r)
         /\ \A a \in DOMAIN Prune(g, r) : PointsAt(g, a) \subseteq DOMAIN Prune(g, r)
BY ReachableClosed DEF Prune, Restrict

(* Names are numbers, and those of objects are nodes.                      *)
LEMMA NamesAreNat ==
  ASSUME HeapInv
  PROVE  StoreNames \subseteq Nat /\ DOMAIN Objs \subseteq Nodes
BY ObjsHaveShape, GraphHasShape DEF ObjsShape, GraphShape, StoreNames, Addresses

(* Pushing a root is a Push.                                               *)
LEMMA PushedIsStored ==
  ASSUME HeapInv, HeapInv', CopiesInv, CopiesInv', NoneInv, TypedInv,
         NEW p \in Held, PushRoot(p)
  PROVE  Store!Next
<1>1. ~Collecting /\ mem' = mem /\ from_space' = from_space /\ roots' = Append(roots, p)
  BY DEF PushRoot, MayPush, Collecting
<1>2. p \in DOMAIN mem /\ NameOf(p) \in StoreNames
  BY <1>1, HeldNameable, QuietObjects
<1>3. NameNext(p) = NameOf(p) /\ \A q \in DOMAIN mem : NameNext(q) = NameOf(q)
  BY <1>1, <1>2, NamesKept
<1>4. HeldNames' = Append(HeldNames, NameOf(p))
  BY <1>1, <1>2, <1>3, NamesAreNat, HeldAppend
<1>5. HeldNames \in Seq(Nat) /\ NameOf(p) \in Nat
  BY <1>2, NamesAreNat, HeldHasShape DEF HeldShape
<1>6. \A i \in DOMAIN HeldNames' : HeldNames'[i] \in DOMAIN Objs \cup {0}
  BY <1>1, <1>2, <1>4, <1>5, AppendedNames, HeldAreObjs DEF StoreNames
<1>7. \A a \in DOMAIN Objs :
         /\ a \in Nodes' /\ Graph'[a] = Objs[a]
         /\ \A i \in DOMAIN mem'[a].fields : NameNext(mem'[a].fields[i]) \in DOMAIN Objs \cup {0}
  BY <1>1, NamesKept
<1>8. Objs' = Prune(Objs, Range(HeldNames'))
  BY <1>6, <1>7, NextObjs
<1> QED
  BY <1>2, <1>4, <1>8, StorePush

(* Popping a root is a Pop.                                                *)
LEMMA PoppedIsStored ==
  ASSUME HeapInv, HeapInv', CopiesInv, CopiesInv', PopRoot
  PROVE  Store!Next
<1>1. ~Collecting /\ mem' = mem /\ from_space' = from_space /\ Len(roots) > 1
      /\ roots' = SubSeq(roots, 1, Len(roots) - 1)
  BY DEF PopRoot, Collecting
<1>2. \A q \in DOMAIN mem : NameNext(q) = NameOf(q)
  BY <1>1, NamesKept
<1>3. /\ HeldNames # << >>
      /\ HeldNames' = SubSeq(HeldNames, 1, Len(HeldNames) - 1)
      /\ \A i \in DOMAIN HeldNames' : i \in DOMAIN HeldNames /\ HeldNames'[i] = HeldNames[i]
  BY <1>1, <1>2, HeldPopped
<1>4. \A i \in DOMAIN HeldNames' : HeldNames'[i] \in DOMAIN Objs \cup {0}
  BY <1>1, <1>3, HeldAreObjs
<1>5. \A a \in DOMAIN Objs :
         /\ a \in Nodes' /\ Graph'[a] = Objs[a]
         /\ \A i \in DOMAIN mem'[a].fields : NameNext(mem'[a].fields[i]) \in DOMAIN Objs \cup {0}
  BY <1>1, NamesKept
<1>6. Objs' = Prune(Objs, Range(HeldNames'))
  BY <1>4, <1>5, NextObjs
<1> QED
  BY <1>3, <1>6, StorePop

(* The names of a list of operands.                                        *)
NamesOf(fields) == [i \in 1..Len(fields) |-> NameOf(fields[i])]

(* The pointers of fields keep their names, and these are in S.            *)
FieldsNamed(fields, S) ==
  \A i \in DOMAIN fields : NameNext(fields[i]) = NameOf(fields[i]) /\ NameOf(fields[i]) \in S

(* The node of a new object.                                               *)
LEMMA NewNode ==
  ASSUME HeapInv', NEW n \in DOMAIN mem', Contains(from_space', n),
         NEW type \in Types \ {"None"}, NEW fields \in Seq(Addresses),
         mem'[n].type = type, mem'[n].fields = fields,
         NEW S, FieldsNamed(fields, S)
  PROVE  /\ n \in Nodes' /\ NameNext(n) = n /\ n \in Nat
         /\ Graph'[n] = [type |-> type, fields |-> NamesOf(fields)]
         /\ \A i \in DOMAIN mem'[n].fields : NameNext(mem'[n].fields[i]) \in S
<1>1. n \in FromObjects'
  BY DEF FromObjects
<1>2. n \in Nodes'
  BY <1>1 DEF Nodes
<1>3. DOMAIN fields = 1..Len(fields)
  OBVIOUS
<1>4. Graph'[n] = [type |-> mem'[n].type,
                   fields |-> [i \in 1..Len(mem'[n].fields) |-> NameNext(mem'[n].fields[i])]]
      /\ n \in Addresses /\ NameNext(n) = n
  BY <1>1, <1>2, GraphHasShapeNext DEF GraphShapeNext
<1>5. [i \in 1..Len(mem'[n].fields) |-> NameNext(mem'[n].fields[i])] = NamesOf(fields)
  BY <1>3 DEF NamesOf, FieldsNamed
<1> QED
  BY <1>2, <1>4, <1>5 DEF Addresses, FieldsNamed

(* A bump allocation, pushed as a root, is a New.                          *)
LEMMA AllocatedIsStored ==
  ASSUME HeapInv, HeapInv', CopiesInv, CopiesInv', NoneInv, TypedInv, ~Collecting,
         NEW type \in {"Int", "String", "Ref", "Tuple", "Func"},
         NEW fields \in Seq(Addresses), Len(fields) <= MaxElements,
         \A i \in DOMAIN fields : fields[i] \in Held,
         Allocated(type, fields)
  PROVE  Store!Next
<1> DEFINE n == from_space.ptr
           F == NamesOf(fields)
           X == Store!With(Objs, n, type, F)
<1>1. Quiet /\ type \in Types \ {"None"}
  BY IdleIsQuiet DEF Types
<1>2. /\ from_space'.begin = from_space.begin /\ from_space'.end = from_space.end
      /\ Contains(from_space', n)
  <2>1. \E w \in Nat : w >= 2 /\ n + w <= from_space.end /\ from_space' = Bump(from_space, w)
    BY <1>1, AllocatedEffect
  <2>2. from_space \in Space /\ n \in Nat /\ from_space.end \in Nat /\ from_space.begin \in Nat
        /\ from_space.begin <= n
    BY SpacesApart DEF HeapInv, SpacesInv, TypeOK
  <2> QED
    BY <2>1, <2>2 DEF Bump, Contains, Space
<1>3. /\ n \in Addresses /\ n \notin DOMAIN mem /\ DOMAIN mem' = DOMAIN mem \cup {n}
      /\ mem'[n].type = type /\ mem'[n].fields = fields
      /\ \A a \in DOMAIN mem : mem'[a] = mem[a]
      /\ roots' = Append(roots, n)
  BY <1>1, AllocatedAdds
<1>4. \A i \in DOMAIN fields : fields[i] \in DOMAIN mem /\ NameOf(fields[i]) \in StoreNames
  BY HeldNameable, QuietObjects
<1> HIDE DEF n
<1>5. /\ \A q \in DOMAIN mem : NameNext(q) = NameOf(q)
      /\ \A a \in DOMAIN Objs :
            /\ a \in Nodes' /\ Graph'[a] = Objs[a]
            /\ \A i \in DOMAIN mem'[a].fields : NameNext(mem'[a].fields[i]) \in DOMAIN Objs \cup {0}
  <2>1. \A a \in DOMAIN Objs : mem'[a].fields = mem[a].fields
    BY <1>3, NamesAreNat, ObjectsFacts DEF Nodes
  <2> QED
    BY <1>2, <1>3, <2>1, NamesKept
<1>6. /\ n \in Nodes' /\ NameNext(n) = n /\ n \in Nat
      /\ Graph'[n] = [type |-> type, fields |-> F]
      /\ \A i \in DOMAIN mem'[n].fields : NameNext(mem'[n].fields[i]) \in StoreNames
  <2>1. FieldsNamed(fields, StoreNames)
    BY <1>4, <1>5 DEF FieldsNamed
  <2>2. n \in DOMAIN mem'
    BY <1>3
  <2> HIDE DEF F
  <2>3. /\ n \in Nodes' /\ NameNext(n) = n /\ n \in Nat
        /\ Graph'[n] = [type |-> type, fields |-> NamesOf(fields)]
        /\ \A i \in DOMAIN mem'[n].fields : NameNext(mem'[n].fields[i]) \in StoreNames
    BY <1>1, <1>2, <1>3, <2>1, <2>2, NewNode
  <2> QED
    BY <2>3 DEF F
<1>7. n \notin DOMAIN Objs
  BY <1>3, NamesAreNat, ObjectsFacts DEF Nodes
<1>8. /\ DOMAIN X = DOMAIN Objs \cup {n} /\ X[n] = [type |-> type, fields |-> F]
      /\ \A a \in DOMAIN Objs : X[a] = Objs[a]
  BY <1>7 DEF Store!With
<1>9. HeldNames' = Append(HeldNames, n)
  BY <1>3, <1>5, <1>6, HeldAppend
<1>10. HeldNames \in Seq(Nat)
  BY HeldHasShape DEF HeldShape
<1> HIDE DEF X, F
<1>11. n \in Range(HeldNames') /\ \A i \in DOMAIN HeldNames' : HeldNames'[i] \in DOMAIN X \cup {0}
  <2>1. \A i \in DOMAIN HeldNames : HeldNames[i] \in DOMAIN X \cup {0}
    BY <1>8, HeldAreObjs
  <2>2. n \in DOMAIN X \cup {0}
    BY <1>8
  <2> QED
    BY <1>6, <1>9, <1>10, <2>1, <2>2, AppendedNames
<1>12. Objs' = Prune(X, Range(HeldNames'))
  <2>1. DOMAIN X \subseteq Nodes' /\ \A a \in DOMAIN X : X[a] = Graph'[a]
    BY <1>5, <1>6, <1>8
  <2>2. \A a \in DOMAIN X : \A i \in DOMAIN mem'[a].fields :
           NameNext(mem'[a].fields[i]) \in DOMAIN X \cup {0}
    BY <1>5, <1>6, <1>8 DEF StoreNames
  <2> QED
    BY <1>11, <2>1, <2>2, NextObjs
<1>13. n \in DOMAIN Objs'
  BY <1>8, <1>11, <1>12, PrunedClosed
<1>14. Len(fields) \in 0..MaxElements /\ F \in [1..Len(fields) -> StoreNames]
  BY <1>4, BoundsAssumption DEF F, NamesOf
<1> QED
  BY <1>3, <1>7, <1>9, <1>12, <1>13, <1>14, StoreNew DEF X

(* make_array is a NewArray: its two allocations appear at once.           *)
LEMMA MakeArrayIsStored ==
  ASSUME HeapInv, HeapInv', CopiesInv, CopiesInv', NoneInv, TypedInv,
         NEW elements \in Operands("Array"), MakeArray(elements)
  PROVE  Store!Next
<1> DEFINE d == from_space.ptr
           n == d + ObjectWords("ArrayData", Len(elements))
           F == NamesOf(elements)
           Y == Store!With(Objs, d, "ArrayData", F)
           X == Store!With(Y, n, "Array", <<d>>)
<1>1. ~Collecting /\ Quiet
  BY IdleIsQuiet DEF MakeArray, MayPush, Collecting
<1>2. /\ from_space'.begin = from_space.begin /\ from_space'.end = from_space.end
      /\ Contains(from_space', d) /\ Contains(from_space', n)
  <2>1. \E w \in Nat : w >= 2 /\ d + (w + 3) <= from_space.end /\ n = d + w
                       /\ from_space' = Bump(from_space, w + 3)
    BY MakeArrayEffect
  <2>2. from_space \in Space /\ d \in Nat /\ from_space.end \in Nat /\ from_space.begin \in Nat
        /\ from_space.begin <= d
    BY SpacesApart DEF HeapInv, SpacesInv, TypeOK
  <2> QED
    BY <2>1, <2>2 DEF Bump, Contains, Space
<1>3. /\ d \in Addresses /\ d \notin DOMAIN mem /\ n \in Addresses /\ n \notin DOMAIN mem
      /\ d \in Nat /\ d < n
      /\ DOMAIN mem' = DOMAIN mem \cup {d, n}
      /\ mem'[d].type = "ArrayData" /\ mem'[d].fields = elements /\ elements \in Seq(Addresses)
      /\ mem'[n].type = "Array" /\ mem'[n].fields = <<d>>
      /\ \A a \in DOMAIN mem : mem'[a] = mem[a]
      /\ roots' = Append(roots, n)
  BY MakeArrayEffect
<1>4. /\ \A i \in DOMAIN elements : elements[i] \in DOMAIN mem /\ NameOf(elements[i]) \in StoreNames
      /\ Len(elements) \in 0..MaxElements
  <2>1. PICK m \in 0..MaxElements : elements \in [1..m -> HeldRefs]
    BY DEF Operands
  <2>2. Len(elements) = m /\ \A i \in DOMAIN elements : elements[i] \in HeldRefs
    BY <2>1, BoundsAssumption
  <2> QED
    BY <1>1, <2>2, HeldNameable, QuietObjects DEF HeldRefs
<1> HIDE DEF d, n
<1>5. /\ \A q \in DOMAIN mem : NameNext(q) = NameOf(q)
      /\ \A a \in DOMAIN Objs :
            /\ a \in Nodes' /\ Graph'[a] = Objs[a]
            /\ \A i \in DOMAIN mem'[a].fields : NameNext(mem'[a].fields[i]) \in DOMAIN Objs \cup {0}
  <2>1. \A a \in DOMAIN Objs : mem'[a].fields = mem[a].fields
    BY <1>3, NamesAreNat, ObjectsFacts DEF Nodes
  <2> QED
    BY <1>1, <1>2, <1>3, <2>1, NamesKept
<1>6. /\ d \in Nodes' /\ NameNext(d) = d /\ d \in Nat
      /\ Graph'[d] = [type |-> "ArrayData", fields |-> NamesOf(elements)]
      /\ \A i \in DOMAIN mem'[d].fields : NameNext(mem'[d].fields[i]) \in StoreNames
  <2>1. FieldsNamed(elements, StoreNames)
    BY <1>4, <1>5 DEF FieldsNamed
  <2>2. d \in DOMAIN mem' /\ "ArrayData" \in Types \ {"None"}
    BY <1>3 DEF Types
  <2>3. /\ Contains(from_space', d) /\ elements \in Seq(Addresses)
        /\ mem'[d].type = "ArrayData" /\ mem'[d].fields = elements
    BY <1>2, <1>3
  <2> HIDE DEF F, X, Y
  <2> QED
    BY <2>1, <2>2, <2>3, NewNode
<1>7. n \in Nodes' /\ NameNext(n) = n /\ n \in Nat
      /\ Graph'[n] = [type |-> "Array", fields |-> <<d>>]
      /\ \A i \in DOMAIN mem'[n].fields : NameNext(mem'[n].fields[i]) \in {d}
  <2>1. n \in FromObjects'
    BY <1>2, <1>3 DEF FromObjects
  <2>2. n \in Nodes'
    BY <1>3, <2>1 DEF Nodes
  <2>3. Graph'[n] = [type |-> mem'[n].type,
                     fields |-> [i \in 1..Len(mem'[n].fields) |-> NameNext(mem'[n].fields[i])]]
        /\ NameNext(n) = n
    BY <1>3, <2>1, <2>2, GraphHasShapeNext DEF GraphShapeNext
  <2>4. [i \in 1..Len(mem'[n].fields) |-> NameNext(mem'[n].fields[i])] = <<d>>
        /\ \A i \in DOMAIN mem'[n].fields : NameNext(mem'[n].fields[i]) = d
    BY <1>3, <1>6
  <2> QED
    BY <1>3, <2>2, <2>3, <2>4 DEF Addresses
<1>8. n \notin DOMAIN Objs /\ d \notin DOMAIN Objs /\ n # d
  BY <1>3, <1>7, NamesAreNat, ObjectsFacts DEF Nodes
<1> HIDE DEF F
<1>9. /\ DOMAIN X = DOMAIN Objs \cup {d, n}
      /\ X[n] = [type |-> "Array", fields |-> <<d>>]
      /\ X[d] = [type |-> "ArrayData", fields |-> F]
      /\ \A a \in DOMAIN Objs : X[a] = Objs[a]
  BY <1>8 DEF Store!With
<1>10. HeldNames' = Append(HeldNames, n)
  BY <1>3, <1>5, <1>7, HeldAppend
<1>11. HeldNames \in Seq(Nat)
  BY HeldHasShape DEF HeldShape
<1> HIDE DEF X
<1>12. n \in Range(HeldNames') /\ \A i \in DOMAIN HeldNames' : HeldNames'[i] \in DOMAIN X \cup {0}
  BY <1>1, <1>7, <1>9, <1>10, <1>11, AppendedNames, HeldAreObjs
<1>13. Objs' = Prune(X, Range(HeldNames'))
  <2>1. DOMAIN X \subseteq Nodes' /\ \A a \in DOMAIN X : X[a] = Graph'[a]
    BY <1>5, <1>6, <1>7, <1>9 DEF F
  <2>2. \A a \in DOMAIN X : \A i \in DOMAIN mem'[a].fields :
           NameNext(mem'[a].fields[i]) \in DOMAIN X \cup {0}
    BY <1>5, <1>6, <1>7, <1>9 DEF StoreNames
  <2> QED
    BY <1>12, <2>1, <2>2, NextObjs
<1>14. n \in DOMAIN Objs'
  BY <1>9, <1>12, <1>13, PrunedClosed
<1>15. d \in DOMAIN Objs'
  <2>1. PointsAt(Prune(X, Range(HeldNames')), n) = PointsAt(X, n)
        \/ PointsAt(X, n) \subseteq DOMAIN Objs'
    <3>1. n \in Reachable(X, Range(HeldNames'))
      BY <1>9, <1>12, ReachableClosed
    <3> QED
      BY <3>1, <1>13, ReachableClosed DEF Prune, Restrict
  <2>2. PointsAt(X, n) \subseteq DOMAIN Objs'
    <3>1. n \in Reachable(X, Range(HeldNames'))
      BY <1>9, <1>12, ReachableClosed
    <3> QED
      BY <3>1, <1>13, ReachableClosed DEF Prune, Restrict
  <2>3. d \in PointsAt(X, n)
    <3>1. d \in Range(X[n].fields)
      BY <1>9 DEF Range
    <3> QED
      BY <1>9, <3>1 DEF PointsAt
  <2> QED
    BY <2>2, <2>3
<1>16. F \in [1..Len(elements) -> StoreNames]
  BY <1>3, <1>4, BoundsAssumption DEF F, NamesOf
<1> QED
  BY <1>3, <1>4, <1>8, <1>10, <1>13, <1>14, <1>15, <1>16, StoreNewArray DEF X

(* A node with other fields.                                               *)
LEMMA FieldsReplaced ==
  ASSUME NEW t, NEW g, NEW h, NEW o, o = [type |-> t, fields |-> g]
  PROVE  [o EXCEPT !.fields = h] = [type |-> t, fields |-> h]
OBVIOUS

(* A write of one field is a Write.                                        *)
LEMMA PointerWriteIsStored ==
  ASSUME HeapInv, HeapInv', CopiesInv, CopiesInv', NoneInv, TypedInv, ~Collecting,
         NEW n \in DOMAIN Objs, NEW k \in 1..MaxElements + 1, k \in DOMAIN mem[n].fields,
         NEW p \in Held, mem' = [mem EXCEPT ![n].fields[k] = p],
         UNCHANGED <<from_space, roots>>
  PROVE  Store!Next
<1> DEFINE v == NameOf(p)
           X == [Objs EXCEPT ![n].fields[k] = v]
<1>1. Quiet /\ FromObjects = DOMAIN mem
  BY IdleIsQuiet, QuietObjects
<1>2. n \in Nodes /\ n \in DOMAIN mem /\ Objs[n] = Graph[n]
  BY <1>1, ObjsHaveShape DEF ObjsShape, Nodes
<1>3. p \in DOMAIN mem /\ v \in StoreNames
  BY <1>1, HeldNameable
<1>4. /\ DOMAIN mem' = DOMAIN mem /\ mem'[n].type = mem[n].type
      /\ \A a \in DOMAIN mem : a # n => mem'[a] = mem[a]
      /\ mem'[n].fields = [mem[n].fields EXCEPT ![k] = p]
  <2>1. FieldWritten(n, k, p)
    BY <1>1, <1>2, <1>3, PointerWriteEffect
  <2>2. /\ DOMAIN mem' = DOMAIN mem /\ mem'[n].type = mem[n].type
        /\ \A a \in DOMAIN mem : a # n => mem'[a] = mem[a]
    BY <1>1, <1>2, <1>3, PointerWriteEffect
  <2> QED
    BY <2>1, <2>2 DEF FieldWritten
<1>5. /\ \A q \in DOMAIN mem : NameNext(q) = NameOf(q)
      /\ Nodes \subseteq Nodes'
      /\ \A a \in DOMAIN Objs : a # n =>
            /\ a \in Nodes' /\ Graph'[a] = Objs[a]
            /\ \A i \in DOMAIN mem'[a].fields : NameNext(mem'[a].fields[i]) \in DOMAIN Objs \cup {0}
  <2>1. \A a \in DOMAIN Objs : a # n => mem'[a].fields = mem[a].fields
    BY <1>1, <1>4, NamesAreNat DEF Nodes
  <2> QED
    BY <1>1, <1>4, <2>1, NamesKept
<1>6. /\ DOMAIN mem[n].fields = 1..Len(mem[n].fields) /\ Len(mem[n].fields) \in Nat
      /\ DOMAIN mem'[n].fields = DOMAIN mem[n].fields
      /\ Len(mem'[n].fields) = Len(mem[n].fields)
      /\ mem'[n].fields[k] = p
      /\ \A i \in DOMAIN mem[n].fields : i # k => mem'[n].fields[i] = mem[n].fields[i]
  <2>1. mem[n].fields \in Seq(Addresses)
    BY <1>2, ObjectsFacts
  <2>2. p \in Addresses
    BY <1>3, ObjectsFacts
  <2> QED
    BY <1>4, <2>1, <2>2
<1>7. \A i \in DOMAIN mem[n].fields : NameNext(mem'[n].fields[i]) =
         IF i = k THEN v ELSE Objs[n].fields[i]
  <2>1. \A i \in DOMAIN mem[n].fields : mem[n].fields[i] \in DOMAIN mem
                                        /\ Objs[n].fields[i] = NameOf(mem[n].fields[i])
    BY <1>2, AllPointers, GraphHasShape DEF GraphShape
  <2> QED
    BY <1>3, <1>5, <1>6, <2>1
<1>8. /\ DOMAIN X = DOMAIN Objs /\ X[n].type = Objs[n].type
      /\ X[n] = [type |-> mem[n].type, fields |-> [Objs[n].fields EXCEPT ![k] = v]]
      /\ \A a \in DOMAIN Objs : a # n => X[a] = Objs[a]
  <2>1. Objs[n] = [type |-> mem[n].type,
                   fields |-> [i \in 1..Len(mem[n].fields) |-> NameOf(mem[n].fields[i])]]
    BY <1>2, GraphHasShape DEF GraphShape
  <2> DEFINE g == [i \in 1..Len(mem[n].fields) |-> NameOf(mem[n].fields[i])]
             h == [Objs[n].fields EXCEPT ![k] = v]
             o == Objs[n]
  <2>2. Objs[n].fields = g /\ Objs[n].type = mem[n].type
        /\ o = [type |-> mem[n].type, fields |-> g]
    BY <2>1
  <2> HIDE DEF v, g
  <2>3. X[n] = [Objs[n] EXCEPT !.fields = [Objs[n].fields EXCEPT ![k] = v]]
    OBVIOUS
  <2>4. [Objs[n] EXCEPT !.fields = [Objs[n].fields EXCEPT ![k] = v]]
          = [type |-> mem[n].type, fields |-> [Objs[n].fields EXCEPT ![k] = v]]
    <3> HIDE DEF h, o
    <3>1. [o EXCEPT !.fields = h] = [type |-> mem[n].type, fields |-> h]
      BY <2>2, FieldsReplaced
    <3> QED
      BY <3>1 DEF h, o
  <2>5. DOMAIN X = DOMAIN Objs /\ \A a \in DOMAIN Objs : a # n => X[a] = Objs[a]
    OBVIOUS
  <2> QED
    BY <2>2, <2>3, <2>4, <2>5
<1>9. Graph'[n] = X[n] /\ n \in Nodes'
  <2>1. n \in Nodes'
    BY <1>2, <1>5
  <2>2. Graph'[n] = [type |-> mem[n].type,
                     fields |-> [i \in 1..Len(mem[n].fields) |-> NameNext(mem'[n].fields[i])]]
    BY <1>4, <1>6, <2>1, GraphHasShapeNext DEF GraphShapeNext
  <2>3. Objs[n].fields = [i \in 1..Len(mem[n].fields) |-> NameOf(mem[n].fields[i])]
    BY <1>2, GraphHasShape DEF GraphShape
  <2> DEFINE f == [i \in 1..Len(mem[n].fields) |-> NameNext(mem'[n].fields[i])]
             g == Objs[n].fields
  <2>4. f = [g EXCEPT ![k] = v]
    <3>1. DOMAIN g = 1..Len(mem[n].fields) /\ g = [i \in DOMAIN g |-> g[i]]
      BY <2>3
    <3>2. \A i \in DOMAIN g : f[i] = IF i = k THEN v ELSE g[i]
      BY <1>6, <1>7, <3>1
    <3> QED
      BY <3>1, <3>2
  <2> QED
    BY <1>8, <2>1, <2>2, <2>4
<1>10. DOMAIN X \subseteq Nodes' /\ \A a \in DOMAIN X : X[a] = Graph'[a]
  BY <1>5, <1>8, <1>9
<1>11. \A a \in DOMAIN X : \A i \in DOMAIN mem'[a].fields :
           NameNext(mem'[a].fields[i]) \in DOMAIN X \cup {0}
  <2>1. \A i \in DOMAIN mem[n].fields : Objs[n].fields[i] \in DOMAIN Objs \cup {0}
    BY <1>2, ObjsHaveShape, GraphHasShape DEF ObjsShape, GraphShape
  <2> QED
    BY <1>3, <1>5, <1>6, <1>7, <1>8, <2>1 DEF StoreNames
<1>12. HeldNames' = HeldNames
  BY <1>5, AllPointers, HeldSame
<1>13. \A i \in DOMAIN HeldNames' : HeldNames'[i] \in DOMAIN X \cup {0}
  BY <1>8, <1>12, HeldAreObjs
<1>14. Objs' = Prune(X, Range(HeldNames))
  <2> HIDE DEF X
  <2> QED
    BY <1>10, <1>11, <1>12, <1>13, NextObjs
<1>15. k \in DOMAIN Objs[n].fields
  BY <1>2, GraphHasShape DEF GraphShape
<1> HIDE DEF v
<1> QED
  BY <1>3, <1>12, <1>14, <1>15, StoreWrite

(* change_ref is a Write to the reference.                                 *)
LEMMA ChangeRefIsStored ==
  ASSUME HeapInv, HeapInv', CopiesInv, CopiesInv', NoneInv, TypedInv,
         NEW ref \in Held, NEW p \in Held, ChangeRef(ref, p)
  PROVE  Store!Next
<1>1. ~Collecting /\ mem[ref].type = "Ref" /\ mem' = [mem EXCEPT ![ref].fields[1] = p]
      /\ UNCHANGED <<from_space, roots>>
  BY DEF ChangeRef, Collecting
<1>2. ref \in FromObjects /\ NameOf(ref) \in StoreNames
  BY <1>1, HeldNameable
<1>3. ref \in DOMAIN Objs
  BY <1>1, <1>2, GraphHasShape DEF GraphShape, Nodes, StoreNames
<1>4. 1 \in DOMAIN mem[ref].fields
  BY <1>1, <1>2, RefPointer
<1>5. 1 \in 1..MaxElements + 1
  BY BoundsAssumption
<1> QED
  BY <1>1, <1>3, <1>4, <1>5, PointerWriteIsStored

(* Assigning to an element of an array is a Write to its vector.           *)
LEMMA StoreElementIsStored ==
  ASSUME HeapInv, HeapInv', CopiesInv, CopiesInv', NoneInv, TypedInv,
         NEW array \in Held, NEW k \in 1..MaxElements + 1, NEW element \in HeldRefs,
         StoreElement(array, k, element)
  PROVE  Store!Next
<1> DEFINE d == mem[array].fields[1]
<1>1. ~Collecting /\ mem[array].type = "Array" /\ k \in DOMAIN mem[d].fields
      /\ mem' = [mem EXCEPT ![d].fields[k] = element]
      /\ UNCHANGED <<from_space, roots>>
  BY DEF StoreElement, Collecting
<1>2. d \in DOMAIN Objs
  BY <1>1, HeldNameable
<1>3. element \in Held
  BY DEF HeldRefs
<1> HIDE DEF d
<1> QED
  BY <1>1, <1>2, <1>3, PointerWriteIsStored

(* An inserted element, and where it moves the others.                     *)
LEMMA InsertedAt ==
  ASSUME NEW S, NEW f \in Seq(S), NEW k \in 1..Len(f) + 1, NEW e \in S
  PROVE  /\ Inserted(f, k, e) \in Seq(S)
         /\ Len(Inserted(f, k, e)) = Len(f) + 1
         /\ \A i \in 1..Len(f) + 1 :
               Inserted(f, k, e)[i] = IF i < k THEN f[i] ELSE IF i = k THEN e ELSE f[i - 1]
<1> DEFINE A == SubSeq(f, 1, k - 1)
           B == A \o <<e>>
           C == SubSeq(f, k, Len(f))
<1>1. Len(f) \in Nat /\ k \in Nat /\ k >= 1 /\ k <= Len(f) + 1
      /\ \A i \in 1..Len(f) : f[i] \in S
  OBVIOUS
<1>2. A \in Seq(S) /\ Len(A) = k - 1 /\ \A i \in 1..k - 1 : A[i] = f[i]
  BY <1>1
<1>3. C \in Seq(S) /\ Len(C) = Len(f) - k + 1 /\ \A i \in 1..Len(f) - k + 1 : C[i] = f[k + i - 1]
  BY <1>1
<1> HIDE DEF A, C
<1>4. B \in Seq(S) /\ Len(B) = k /\ B[k] = e /\ \A i \in 1..k - 1 : B[i] = f[i]
  BY <1>1, <1>2
<1> HIDE DEF B
<1> DEFINE D == B \o C
<1>5. /\ D \in Seq(S) /\ Len(D) = Len(f) + 1
      /\ \A i \in 1..k : D[i] = B[i]
      /\ \A i \in k + 1..Len(f) + 1 : D[i] = C[i - k]
  <2>1. D \in Seq(S) /\ Len(D) = k + (Len(f) - k + 1)
    BY <1>1, <1>3, <1>4
  <2>2. \A i \in 1..k : D[i] = B[i]
    BY <1>1, <1>3, <1>4
  <2>3. ASSUME NEW i \in k + 1..Len(f) + 1 PROVE D[i] = C[i - k]
    <3>1. i \in Nat /\ i > k /\ i <= k + Len(C) /\ Len(C) \in Nat
      BY <1>1, <1>3
    <3> QED
      BY <1>1, <1>3, <1>4, <3>1
  <2> QED
    BY <1>1, <2>1, <2>2, <2>3
<1> HIDE DEF D
<1>6. ASSUME NEW i \in 1..Len(f) + 1
      PROVE  D[i] = IF i < k THEN f[i] ELSE IF i = k THEN e ELSE f[i - 1]
  <2>1. CASE i <= k
    BY <1>1, <1>4, <1>5, <2>1
  <2>2. CASE i > k
    <3>1. i \in k + 1..Len(f) + 1 /\ i - k \in 1..Len(f) - k + 1 /\ k + (i - k) - 1 = i - 1
      BY <1>1, <2>2
    <3> QED
      BY <1>3, <1>5, <2>2, <3>1
  <2> QED
    BY <1>1, <2>1, <2>2
<1>7. D = Inserted(f, k, e)
  BY DEF D, C, B, A, Inserted
<1> QED
  BY <1>5, <1>6, <1>7

(* An array the program holds stays reachable when its own fields change:  *)
(* no path to it goes through itself.                                      *)
LEMMA HeldArrayReached ==
  ASSUME HeapInv, CopiesInv, NoneInv, TypedInv, ~Collecting,
         NEW array \in Held, mem[array].type = "Array",
         NEW X, DOMAIN Objs \subseteq DOMAIN X,
         \A a \in DOMAIN Objs : a # array => X[a] = Objs[a]
  PROVE  array \in DOMAIN Objs /\ array \in Reachable(X, Range(HeldNames))
<1>1. Quiet /\ FromObjects = DOMAIN mem
  BY IdleIsQuiet, QuietObjects
<1>2. array \in FromObjects /\ array \in DOMAIN Objs /\ array \in Nodes
  BY HeldNameable, GraphHasShape DEF GraphShape, Nodes, StoreNames
<1>3. ASSUME NEW p \in Range(roots), mem[p].type # "None"
      PROVE  p \in Range(HeldNames) /\ p \in DOMAIN Objs
  <2>1. PICK i \in DOMAIN roots : roots[i] = p
    BY DEF Range
  <2>2. i # 1 /\ i \in 1..Len(roots) /\ Len(roots) \in Nat
    BY <1>3, <2>1, FirstRoot DEF NoneInv
  <2>3. i - 1 \in 1..Len(roots) - 1 /\ (i - 1) + 1 = i
    BY <2>2
  <2>4. HeldNames[i - 1] = NameOf(roots[(i - 1) + 1]) /\ i - 1 \in DOMAIN HeldNames
    BY <2>3, HeldHasShape DEF HeldShape
  <2>5. p \in FromObjects
    BY <1>1, <2>1, AllPointers
  <2>6. NameOf(p) = p /\ p \in Nodes
    BY <1>3, <2>5, GraphHasShape DEF GraphShape, Nodes
  <2>7. p \in Range(HeldNames)
    BY <2>1, <2>3, <2>4, <2>6 DEF Range
  <2> QED
    BY <2>6, <2>7, ObjsHaveShape DEF ObjsShape
<1>4. CASE array \in Range(roots)
  <2>1. array \in Range(HeldNames) \cap DOMAIN X
    BY <1>2, <1>3, <1>4
  <2> QED
    BY <1>2, <2>1, ReachableClosed
<1>5. ASSUME NEW p \in Range(roots), array \in Elements(p)
      PROVE  array \in Reachable(X, Range(HeldNames))
  <2>1. p \in FromObjects
    <3>1. PICK i \in DOMAIN roots : roots[i] = p
      BY DEF Range
    <3> QED
      BY <1>1, <3>1, AllPointers
  <2>2. mem[p].type # "Array"
    <3> SUFFICES ASSUME mem[p].type = "Array" PROVE FALSE
      OBVIOUS
    <3> DEFINE d == mem[p].fields[1]
    <3>1. d \in FromObjects /\ mem[d].type = "ArrayData"
      <4>1. p \in Held
        BY DEF Held
      <4> QED
        BY <4>1, HeldNameable
    <3>2. PICK i \in DOMAIN mem[d].fields : mem[d].fields[i] = array
      BY <1>5 DEF Elements, Range
    <3> HIDE DEF d
    <3>3. mem[array].type = "Ref"
      BY <1>1, <3>1, <3>2 DEF TypedInv, WellTyped
    <3> QED
      BY <3>3
  <2>3. PICK i \in DOMAIN mem[p].fields : mem[p].fields[i] = array
    BY <1>5, <2>2 DEF Elements, Range
  <2>4. mem[p].type # "None"
    <3>1. Len(mem[p].fields) # 0
      BY <1>1, <2>1, <2>3, ObjectsFacts
    <3> QED
      BY <1>1, <2>1, <3>1 DEF NoneInv
  <2>5. p \in Range(HeldNames) /\ p \in DOMAIN Objs /\ p \in DOMAIN X /\ X[p] = Objs[p]
    BY <1>3, <2>2, <2>4
  <2>6. Objs[p].fields[i] = array /\ i \in DOMAIN Objs[p].fields
    <3>1. p \in Nodes /\ Objs[p] = Graph[p]
      BY <2>5, ObjsHaveShape DEF ObjsShape
    <3>2. Graph[p].fields[i] = NameOf(array) /\ i \in DOMAIN Graph[p].fields
      BY <2>3, <3>1, GraphHasShape DEF GraphShape
    <3>3. NameOf(array) = array
      BY <1>2, GraphHasShape DEF GraphShape, Nodes
    <3> QED
      BY <3>1, <3>2, <3>3
  <2>7. array \in PointsAt(X, p)
    BY <1>2, <2>5, <2>6 DEF PointsAt, Range
  <2>8. p \in Reachable(X, Range(HeldNames))
    BY <2>5, ReachableClosed
  <2> QED
    BY <2>7, <2>8, ReachableClosed
<1> QED
  BY <1>2, <1>4, <1>5 DEF Held

(* The names of the elements with one inserted are the names of the        *)
(* elements, with one inserted.                                            *)
LEMMA ElementNames ==
  ASSUME HeapInv, CopiesInv, NoneInv, TypedInv, ~Collecting,
         NEW array \in Held, mem[array].type = "Array", NEW element \in HeldRefs,
         OldElements(array) \in Seq(Addresses),
         NEW k \in 1..Len(OldElements(array)) + 1
  PROVE  LET data == mem[array].fields[1]
             new == NewElements(array, k, element)
             names == Inserted(Objs[data].fields, k, NameOf(element))
         IN  /\ data \in DOMAIN Objs /\ Objs[array].fields[1] = data
             /\ Objs[array].type = "Array" /\ array \in DOMAIN Objs
             /\ Len(Objs[data].fields) = Len(OldElements(array))
             /\ names \in Seq(Nat) /\ Len(new) = Len(names) /\ new \in Seq(Addresses)
             /\ \A i \in DOMAIN new : names[i] = NameOf(new[i]) /\ NameOf(new[i]) \in StoreNames
                                      /\ new[i] \in DOMAIN mem
<1> DEFINE data == mem[array].fields[1]
           new == NewElements(array, k, element)
           names == Inserted(Objs[data].fields, k, NameOf(element))
           old == OldElements(array)
<1>1. Quiet /\ FromObjects = DOMAIN mem
  BY IdleIsQuiet, QuietObjects
<1>2. data \in DOMAIN Objs /\ data \in FromObjects
  BY HeldNameable
<1>3. array \in DOMAIN Objs /\ array \in Nodes /\ Objs[array] = Graph[array]
      /\ data \in Nodes /\ Objs[data] = Graph[data]
  BY <1>2, HeldNameable, ObjsHaveShape, GraphHasShape DEF GraphShape, ObjsShape, Nodes, StoreNames
<1>4. Objs[array].type = "Array" /\ Objs[array].fields[1] = data
  <2>1. 1 \in DOMAIN mem[array].fields
    BY <1>1, ArrayData, ObjectsFacts
  <2>2. NameOf(data) = data
    BY <1>2, <1>3, GraphHasShape DEF GraphShape, Nodes
  <2> QED
    BY <1>3, <2>1, <2>2, GraphHasShape DEF GraphShape
<1>5. element \in Addresses /\ element \in DOMAIN mem /\ NameOf(element) \in StoreNames
      /\ NameOf(element) \in Nat
  BY <1>1, HeldNameable, NamesAreNat, ObjectsFacts DEF HeldRefs
<1>6. /\ old = mem[data].fields /\ DOMAIN old = 1..Len(old) /\ Len(old) \in Nat
      /\ \A i \in 1..Len(old) : old[i] \in DOMAIN mem
  BY <1>1, <1>2, ObjectsFacts, AllPointers DEF OldElements
<1> DEFINE f == Objs[data].fields
<1>7. DOMAIN f = 1..Len(old)
      /\ \A i \in 1..Len(old) : f[i] = NameOf(old[i]) /\ f[i] \in StoreNames
  <2>1. \A i \in DOMAIN mem[data].fields : NameOf(mem[data].fields[i]) \in DOMAIN Objs \cup {0}
    BY <1>2, ObjsHaveShape DEF ObjsShape
  <2>2. Graph[data] = [type |-> mem[data].type,
                       fields |-> [i \in 1..Len(mem[data].fields) |-> NameOf(mem[data].fields[i])]]
    BY <1>3, GraphHasShape DEF GraphShape
  <2>3. f = [i \in 1..Len(old) |-> NameOf(old[i])]
    <3>1. f = Graph[data].fields
      BY <1>3
    <3>2. f = [i \in 1..Len(mem[data].fields) |-> NameOf(mem[data].fields[i])]
      BY <3>1, <2>2
    <3> HIDE DEF f
    <3> QED
      BY <1>6, <3>2
  <2> HIDE DEF f
  <2> QED
    BY <1>6, <2>1, <2>3 DEF StoreNames
<1>8. f \in Seq(Nat) /\ Len(f) = Len(old)
  <2>1. \A i \in 1..Len(old) : f[i] \in Nat
    BY <1>7, NamesAreNat
  <2>2. f = [i \in 1..Len(mem[data].fields) |-> NameOf(mem[data].fields[i])]
    <3>1. Graph[data] = [type |-> mem[data].type,
                         fields |-> [i \in 1..Len(mem[data].fields) |->
                                       NameOf(mem[data].fields[i])]]
      BY <1>3, GraphHasShape DEF GraphShape
    <3> QED
      BY <1>3, <3>1
  <2>3. f \in [1..Len(old) -> Nat]
    <3>1. f = [i \in 1..Len(old) |-> NameOf(mem[data].fields[i])]
      BY <1>6, <2>2
    <3>2. \A i \in 1..Len(old) : NameOf(mem[data].fields[i]) \in Nat
      BY <2>1, <3>1
    <3> QED
      BY <3>1, <3>2
  <2> HIDE DEF f, old
  <2> QED
    BY <1>6, <2>3
<1>9. new = Inserted(old, k, element)
  BY DEF NewElements, Inserted
<1> HIDE DEF old, f
<1>10. old \in Seq(Addresses) /\ k \in 1..Len(old) + 1
  BY DEF old
<1>11. /\ new \in Seq(Addresses) /\ Len(new) = Len(old) + 1
       /\ \A i \in 1..Len(old) + 1 :
             new[i] = IF i < k THEN old[i] ELSE IF i = k THEN element ELSE old[i - 1]
  BY <1>5, <1>9, <1>10, InsertedAt
<1>12. /\ names \in Seq(Nat) /\ Len(names) = Len(old) + 1
       /\ \A i \in 1..Len(old) + 1 :
             names[i] = IF i < k THEN f[i] ELSE IF i = k THEN NameOf(element) ELSE f[i - 1]
  <2>1. names = Inserted(f, k, NameOf(element))
    BY DEF f
  <2> DEFINE v == NameOf(element)
             N == Nat
  <2>2. v \in N /\ f \in Seq(N) /\ k \in 1..Len(f) + 1
    BY <1>5, <1>8, <1>10
  <2> HIDE DEF names, v, N
  <2>3. /\ Inserted(f, k, v) \in Seq(N)
        /\ Len(Inserted(f, k, v)) = Len(f) + 1
        /\ \A i \in 1..Len(f) + 1 :
              Inserted(f, k, v)[i] = IF i < k THEN f[i] ELSE IF i = k THEN v ELSE f[i - 1]
    BY <2>2, InsertedAt
  <2> QED
    BY <1>8, <2>1, <2>3 DEF v, N
<1> HIDE DEF new, names
<1>13. ASSUME NEW i \in DOMAIN new
       PROVE  names[i] = NameOf(new[i]) /\ NameOf(new[i]) \in StoreNames /\ new[i] \in DOMAIN mem
  <2>1. i \in 1..Len(old) + 1 /\ i \in Nat
    BY <1>6, <1>11
  <2>2. CASE i < k
    <3>1. i \in 1..Len(old)
      BY <1>6, <1>10, <2>1, <2>2
    <3> QED
      BY <1>6, <1>7, <1>11, <1>12, <2>1, <2>2, <3>1
  <2>3. CASE i = k
    BY <1>5, <1>10, <1>11, <1>12, <2>1, <2>3
  <2>4. CASE i > k
    <3>1. i - 1 \in 1..Len(old)
      BY <1>6, <1>10, <2>1, <2>4
    <3>2. ~(i < k) /\ i # k
      BY <1>10, <2>1, <2>4
    <3>3. new[i] = old[i - 1] /\ names[i] = f[i - 1]
      BY <1>11, <1>12, <2>1, <3>2
    <3> QED
      BY <1>6, <1>7, <3>1, <3>3
  <2> QED
    BY <1>10, <2>1, <2>2, <2>3, <2>4
<1>14. Len(new) = Len(names) /\ Len(Objs[data].fields) = Len(old)
  BY <1>8, <1>11, <1>12 DEF f
<1> QED
  BY <1>2, <1>3, <1>4, <1>11, <1>12, <1>13, <1>14 DEF new, names, old

(* replace_array_data is an Insert: the old vector is forgotten, the new   *)
(* one gets a fresh name.                                                  *)
LEMMA ReplaceArrayDataIsStored ==
  ASSUME HeapInv, HeapInv', CopiesInv, CopiesInv', NoneInv, TypedInv,
         NEW array \in Held, NEW k \in 1..MaxElements + 1, NEW element \in HeldRefs,
         ReplaceArrayData(array, k, element)
  PROVE  Store!Next
<1> DEFINE d == from_space.ptr
           new == NewElements(array, k, element)
           G == Inserted(Objs[mem[array].fields[1]].fields, k, NameOf(element))
           Y == Store!With(Objs, d, "ArrayData", G)
           X == [Y EXCEPT ![array].fields = <<d>>]
<1>1. ~Collecting /\ Quiet /\ FromObjects = DOMAIN mem /\ k \in Nat
  <2>1. ~Collecting
    BY DEF ReplaceArrayData, Collecting
  <2> QED
    BY <2>1, IdleIsQuiet, QuietObjects, BoundsAssumption
<1>2. /\ from_space'.begin = from_space.begin /\ from_space'.end = from_space.end
      /\ Contains(from_space', d)
  <2>1. \E w \in Nat : w >= 2 /\ d + w <= from_space.end /\ from_space' = Bump(from_space, w)
    BY <1>1, ReplaceArrayDataEffect
  <2>2. from_space \in Space /\ d \in Nat /\ from_space.end \in Nat /\ from_space.begin \in Nat
        /\ from_space.begin <= d
    BY SpacesApart DEF HeapInv, SpacesInv, TypeOK
  <2> QED
    BY <2>1, <2>2 DEF Bump, Contains, Space
<1>3. /\ d \in Addresses /\ d \notin DOMAIN mem /\ d \in Nat
      /\ DOMAIN mem' = DOMAIN mem \cup {d}
      /\ mem[array].type = "Array" /\ array \in DOMAIN mem
      /\ mem'[array].type = mem[array].type /\ mem'[array].fields = <<d>>
      /\ \A a \in DOMAIN mem : a # array => mem'[a] = mem[a]
      /\ roots' = roots
  BY <1>1, ReplaceArrayDataEffect
<1>4. mem'[d].type = "ArrayData" /\ mem'[d].fields = new
  BY <1>1, ReplaceArrayDataEffect
<1>5. OldElements(array) \in Seq(Addresses) /\ k \in 1..Len(OldElements(array)) + 1
  <2>1. mem[array].fields[1] \in DOMAIN mem /\ k \in 1..Len(OldElements(array)) + 1
    BY <1>1, ReplaceArrayDataEffect
  <2> QED
    BY <2>1, ObjectsFacts DEF OldElements
<1> DEFINE data == mem[array].fields[1]
<1>6. /\ data \in DOMAIN Objs /\ Objs[array].fields[1] = data
      /\ Objs[array].type = "Array" /\ array \in DOMAIN Objs
      /\ Len(Objs[data].fields) = Len(OldElements(array))
      /\ G \in Seq(Nat) /\ Len(new) = Len(G) /\ new \in Seq(Addresses)
      /\ \A i \in DOMAIN new : G[i] = NameOf(new[i]) /\ NameOf(new[i]) \in StoreNames
                               /\ new[i] \in DOMAIN mem
  BY <1>1, <1>3, <1>5, ElementNames
<1> HIDE DEF d, new, G
<1>7. /\ \A q \in DOMAIN mem : NameNext(q) = NameOf(q)
      /\ Nodes \subseteq Nodes'
      /\ \A a \in DOMAIN Objs : a # array =>
            /\ a \in Nodes' /\ Graph'[a] = Objs[a]
            /\ \A i \in DOMAIN mem'[a].fields : NameNext(mem'[a].fields[i]) \in DOMAIN Objs \cup {0}
  <2>1. \A a \in DOMAIN Objs : a # array => mem'[a].fields = mem[a].fields
    BY <1>1, <1>3, NamesAreNat DEF Nodes
  <2>2. \A a \in DOMAIN mem : mem'[a].type = mem[a].type
    BY <1>3
  <2> QED
    BY <1>1, <1>2, <1>3, <2>1, <2>2, NamesKept
<1>8. /\ d \in Nodes' /\ NameNext(d) = d
      /\ Graph'[d] = [type |-> "ArrayData", fields |-> NamesOf(new)]
      /\ \A i \in DOMAIN mem'[d].fields : NameNext(mem'[d].fields[i]) \in StoreNames
  <2>1. FieldsNamed(new, StoreNames)
    BY <1>6, <1>7 DEF FieldsNamed
  <2>2. d \in DOMAIN mem' /\ "ArrayData" \in Types \ {"None"}
    BY <1>3 DEF Types
  <2>3. /\ Contains(from_space', d) /\ new \in Seq(Addresses)
        /\ mem'[d].type = "ArrayData" /\ mem'[d].fields = new
    BY <1>2, <1>3, <1>4, <1>6
  <2> QED
    BY <2>1, <2>2, <2>3, NewNode
<1>9. NamesOf(new) = G
  <2>1. DOMAIN new = 1..Len(new) /\ Len(new) \in Nat /\ DOMAIN G = 1..Len(G)
        /\ G = [i \in 1..Len(G) |-> G[i]]
    BY <1>6
  <2> QED
    BY <1>6, <2>1 DEF NamesOf
<1>10. /\ array \in Nodes' /\ Graph'[array] = [type |-> "Array", fields |-> <<d>>]
       /\ \A i \in DOMAIN mem'[array].fields : NameNext(mem'[array].fields[i]) = d
  <2>1. array \in Nodes'
    BY <1>6, <1>7, NamesAreNat
  <2>2. Graph'[array] = [type |-> mem'[array].type,
                         fields |-> [i \in 1..Len(mem'[array].fields) |->
                                       NameNext(mem'[array].fields[i])]]
    BY <2>1, GraphHasShapeNext DEF GraphShapeNext
  <2>3. [i \in 1..Len(mem'[array].fields) |-> NameNext(mem'[array].fields[i])] = <<d>>
        /\ \A i \in DOMAIN mem'[array].fields : NameNext(mem'[array].fields[i]) = d
    BY <1>3, <1>8
  <2> QED
    BY <1>3, <2>1, <2>2, <2>3
<1>11. d \notin DOMAIN Objs /\ d # array
  BY <1>1, <1>3, NamesAreNat DEF Nodes
<1>12. /\ DOMAIN X = DOMAIN Objs \cup {d}
       /\ X[d] = [type |-> "ArrayData", fields |-> G]
       /\ X[array] = [type |-> "Array", fields |-> <<d>>]
       /\ \A a \in DOMAIN Objs : a # array => X[a] = Objs[a]
  <2>1. /\ DOMAIN Y = DOMAIN Objs \cup {d}
        /\ Y[d] = [type |-> "ArrayData", fields |-> G]
        /\ \A a \in DOMAIN Objs : Y[a] = Objs[a]
    BY <1>11 DEF Store!With
  <2> HIDE DEF Y
  <2> DEFINE o == Y[array]
  <2>2. \E g : o = [type |-> "Array", fields |-> g]
    <3>1. Objs[array] = Graph[array] /\ array \in Nodes
      BY <1>6, ObjsHaveShape DEF ObjsShape
    <3>2. Graph[array] = [type |-> mem[array].type,
                          fields |-> [i \in 1..Len(mem[array].fields) |->
                                        NameOf(mem[array].fields[i])]]
      BY <3>1, GraphHasShape DEF GraphShape
    <3> QED
      BY <1>3, <1>6, <2>1, <3>1, <3>2
  <2>3. X[array] = [o EXCEPT !.fields = <<d>>]
    BY <1>6, <2>1
  <2> HIDE DEF o
  <2>4. [o EXCEPT !.fields = <<d>>] = [type |-> "Array", fields |-> <<d>>]
    BY <2>2, FieldsReplaced
  <2>5. /\ DOMAIN X = DOMAIN Y /\ \A a \in DOMAIN Y : a # array => X[a] = Y[a]
    OBVIOUS
  <2> QED
    BY <1>11, <2>1, <2>3, <2>4, <2>5
<1>13. HeldNames' = HeldNames
  BY <1>3, <1>7, AllPointers, HeldSame
<1>14. \A i \in DOMAIN HeldNames' : HeldNames'[i] \in DOMAIN X \cup {0}
  BY <1>1, <1>12, <1>13, HeldAreObjs
<1>15. Objs' = Prune(X, Range(HeldNames))
  <2> HIDE DEF X
  <2>1. DOMAIN X \subseteq Nodes' /\ \A a \in DOMAIN X : X[a] = Graph'[a]
    BY <1>7, <1>8, <1>9, <1>10, <1>12
  <2>2. \A a \in DOMAIN X : \A i \in DOMAIN mem'[a].fields :
           NameNext(mem'[a].fields[i]) \in DOMAIN X \cup {0}
    BY <1>7, <1>8, <1>10, <1>12 DEF StoreNames
  <2> QED
    BY <1>13, <1>14, <2>1, <2>2, NextObjs
<1>16. d \in DOMAIN Objs'
  <2> HIDE DEF X
  <2>1. array \in Reachable(X, Range(HeldNames))
    BY <1>1, <1>3, <1>12, HeldArrayReached
  <2>2. d \in PointsAt(X, array)
    <3>1. d \in Range(X[array].fields)
      BY <1>12 DEF Range
    <3> QED
      BY <1>12, <3>1 DEF PointsAt
  <2> QED
    BY <1>15, <2>1, <2>2, ReachableClosed DEF Prune, Restrict
<1>17. k \in 1..Len(Objs[Objs[array].fields[1]].fields) + 1
  BY <1>5, <1>6
<1>18. NameOf(element) \in StoreNames
  BY <1>1, HeldNameable DEF HeldRefs
<1>19. G = Inserted(Objs[Objs[array].fields[1]].fields, k, NameOf(element))
  BY <1>6 DEF G
<1>20. Objs' = Prune([Store!With(Objs, d, "ArrayData",
                                 Inserted(Objs[Objs[array].fields[1]].fields, k, NameOf(element)))
                        EXCEPT ![array].fields = <<d>>],
                     Range(HeldNames))
  BY <1>15, <1>19
<1> QED
  BY <1>3, <1>6, <1>11, <1>13, <1>16, <1>17, <1>18, <1>20, StoreInsert

(* Two functions with the same domain and values are the same.             *)
LEMMA FunctionItself ==
  ASSUME NEW f, NEW g, NEW S, f = [x \in S |-> f[x]], g = [x \in S |-> g[x]],
         \A x \in S : f[x] = g[x]
  PROVE  f = g
<1>1. [x \in S |-> f[x]] = [x \in S |-> g[x]]
  OBVIOUS
<1> QED
  BY <1>1

(* A step that changes neither the objects of from_space nor the names of  *)
(* the roots is unseen.                                                    *)
LEMMA StoreUnseen ==
  ASSUME HeapInv, HeapInv', CopiesInv, CopiesInv', FromObjects' = FromObjects,
         \A a \in FromObjects : mem'[a].type = mem[a].type /\ mem'[a].fields = mem[a].fields,
         DOMAIN roots' = DOMAIN roots,
         \A i \in DOMAIN roots : NameNext(roots'[i]) = NameOf(roots[i])
  PROVE  Store!Next
<1>1. \A p \in FromObjects : NameNext(p) = NameOf(p)
  BY SameNames
<1>2. Nodes' = Nodes
  BY DEF Nodes
<1>3. ASSUME NEW a \in Nodes PROVE Graph'[a] = Graph[a]
  <2>1. a \in FromObjects
    BY DEF Nodes
  <2>2. \A i \in DOMAIN mem[a].fields : NameNext(mem[a].fields[i]) = NameOf(mem[a].fields[i])
    BY <1>1, <2>1, ObjectsFacts
  <2> QED
    BY <1>2, <2>1, <2>2, SameNode
<1>4. Graph' = Graph
  <2>1. Graph = [a \in Nodes |-> Graph[a]]
    BY DEF Graph, Nodes
  <2>2. Graph' = [a \in Nodes' |-> Graph'[a]]
    BY DEF Graph, Nodes
  <2> DEFINE g == Graph'
             S == Nodes
  <2>3. g = [a \in S |-> g[a]]
    BY <1>2, <2>2
  <2>4. Graph = [a \in S |-> Graph[a]] /\ \A a \in S : g[a] = Graph[a]
    BY <1>3, <2>1
  <2> HIDE DEF g, S
  <2>5. g = Graph
    BY <2>3, <2>4, FunctionItself
  <2> QED
    BY <2>5 DEF g
<1>5. HeldNames' = HeldNames
  BY HeldSame
<1>6. Objs' = Objs
  BY <1>4, <1>5 DEF Objs
<1> QED
  BY <1>5, <1>6 DEF Store!Next, Store!Unseen, Store!vars

(* A step of the control alone is unseen.                                  *)
LEMMA SameHeapUnseen ==
  ASSUME HeapInv, HeapInv', CopiesInv, CopiesInv',
         mem' = mem, from_space'.begin = from_space.begin, from_space'.end = from_space.end,
         roots' = roots
  PROVE  Store!Next
<1>1. FromObjects' = FromObjects
  BY DEF FromObjects, Contains
<1>2. \A p \in DOMAIN mem : NameNext(p) = NameOf(p)
  BY <1>1 DEF NameNext, NameOf, NoneId, Original, Contains
<1> QED
  BY <1>1, <1>2, AllPointers, StoreUnseen

(* A copy goes by the name of its original.                                *)
CopyNames ==
  \A a \in Copied : NameOf(mem[a].fwd) = IF mem[a].type = "None" THEN 0 ELSE a

(* So it does, because no two objects have the same copy.                  *)
LEMMA CopiesAreNamed == HeapInv /\ CopiesInv => CopyNames
<1> SUFFICES ASSUME HeapInv, CopiesInv, NEW a \in Copied
             PROVE  NameOf(mem[a].fwd) = IF mem[a].type = "None" THEN 0 ELSE a
  BY DEF CopyNames
<1>1. a \in FromObjects /\ mem[a].fwd \in ToObjects /\ mem[mem[a].fwd].type = mem[a].type
  BY CopiesAlike
<1>2. ~Contains(from_space, mem[a].fwd)
  BY <1>1, ObjectsFacts DEF FromObjects
<1>3. mem[a].fwd # NULL
  BY DEF Copied
<1>4. \A b \in FromObjects : mem[b].fwd = mem[a].fwd => b = a
  BY <1>3 DEF CopiesInv, Copied
<1>5. Original(mem[a].fwd) = a
  BY <1>1, <1>2, <1>4 DEF Original
<1> QED
  BY <1>1, <1>5 DEF NameOf, NoneId

(* CopyNames, of the next state.                                           *)
CopyNamesNext ==
  \A a \in Copied' : NameNext(mem'[a].fwd) = IF mem'[a].type = "None" THEN 0 ELSE a

(* CopiesAreNamed, of the next state.                                      *)
LEMMA CopiesAreNamedNext == HeapInv' /\ CopiesInv' => CopyNamesNext
<1>1. HeapInv' /\ CopiesInv' => CopyNames'
  BY CopiesAreNamed, PTL
<1> QED
  BY <1>1 DEF CopyNames, CopyNamesNext, NameOf, NameNext, Original, NoneId

(* Forwarding a root or a field is unseen.                                 *)
LEMMA CopyingIsUnseen ==
  ASSUME HeapInv, HeapInv', CopiesInv, CopiesInv', ProcessRoot \/ ScanField
  PROVE  Store!Next
<1>1. PICK p \in FromObjects :
         /\ FromObjects' = FromObjects
         /\ \A a \in FromObjects :
               mem'[a].type = mem[a].type /\ mem'[a].fields = mem[a].fields
         /\ \A a \in FromObjects : a # p => mem'[a].fwd = mem[a].fwd
         /\ mem'[p].fwd = Forward(p)
         /\ Copied' = Copied \cup {p}
         /\ DOMAIN roots' = DOMAIN roots
         /\ \A i \in DOMAIN roots :
               roots'[i] = roots[i] \/ (roots[i] = p /\ roots'[i] = Forward(p))
  BY CopyingStep
<1>2. \A a \in FromObjects : NameNext(a) = NameOf(a)
  BY <1>1, SameNames
<1>3. \A a \in FromObjects : NameOf(a) = IF mem[a].type = "None" THEN 0 ELSE a
  BY GraphHasShape DEF GraphShape
<1>4. NameNext(Forward(p)) = NameOf(p)
  BY <1>1, <1>3, CopiesAreNamedNext DEF CopyNamesNext
<1>5. ASSUME NEW t \in ToObjects PROVE NameNext(t) = NameOf(t)
  <2>1. PICK a \in Copied : mem[a].fwd = t
    BY DEF CopiesInv
  <2>2. a \in FromObjects /\ a \in Copied' /\ mem'[a].type = mem[a].type
    BY <1>1, <2>1, ObjectsFacts
  <2>3. mem'[a].fwd = t
    <3>1. CASE a = p
      BY <1>1, <2>1, <3>1 DEF Forward, Copied, FromObjects
    <3>2. CASE a # p
      BY <1>1, <2>1, <2>2, <3>2
    <3> QED
      BY <3>1, <3>2
  <2> QED
    BY <2>1, <2>2, <2>3, CopiesAreNamed, CopiesAreNamedNext DEF CopyNames, CopyNamesNext
<1>6. \A i \in DOMAIN roots : NameNext(roots'[i]) = NameOf(roots[i])
  <2> SUFFICES ASSUME NEW i \in DOMAIN roots PROVE NameNext(roots'[i]) = NameOf(roots[i])
    OBVIOUS
  <2>1. roots[i] \in FromObjects \cup ToObjects
    BY AllPointers, ObjectsFacts
  <2>2. roots'[i] = roots[i] \/ (roots[i] = p /\ roots'[i] = Forward(p))
    BY <1>1
  <2> QED
    BY <1>2, <1>4, <1>5, <2>1, <2>2
<1> QED
  BY <1>1, <1>6, StoreUnseen

(* Whatever the program does, it does to the store.                        *)
LEMMA ProgramIsStored ==
  ASSUME HeapInv, HeapInv', CopiesInv, CopiesInv', NoneInv, TypedInv, Program
  PROVE  Store!Next
<1>1. ASSUME NEW type \in Scalars, MakeScalar(type) PROVE Store!Next
  <2>1. ~Collecting /\ Allocated(type, << >>) /\ type \in {"Int", "String", "Ref", "Tuple", "Func"}
    BY <1>1, TypesAssumption DEF MakeScalar, MayPush, Collecting
  <2>2. << >> \in Seq(Addresses) /\ Len(<< >>) <= MaxElements /\ DOMAIN << >> = {}
    BY BoundsAssumption
  <2> QED
    BY <2>1, <2>2, AllocatedIsStored
<1>2. ASSUME NEW type \in Aggregates \ {"Array"}, NEW fields \in Operands(type),
             Make(type, fields)
      PROVE  Store!Next
  <2>1. ~Collecting /\ Allocated(type, fields) /\ type \in {"Int", "String", "Ref", "Tuple", "Func"}
    BY <1>2, TypesAssumption DEF Make, MayPush, Collecting
  <2>2. fields \in Seq(Addresses)
    BY <2>1, IdleIsQuiet, OperandsObjects
  <2>3. Len(fields) <= MaxElements /\ \A i \in DOMAIN fields : fields[i] \in Held
    <3>1. CASE type = "Ref"
      <4>1. fields \in [1..1 -> Held]
        BY <3>1 DEF Operands
      <4>2. Len(fields) = 1 /\ \A i \in DOMAIN fields : fields[i] \in Held
        BY <4>1
      <4> QED
        BY <4>2, BoundsAssumption
    <3>2. CASE type # "Ref"
      <4>1. PICK m \in 0..MaxElements : fields \in [1..m -> HeldRefs]
        BY <3>2 DEF Operands
      <4>2. HeldRefs \subseteq Held
        BY DEF HeldRefs
      <4> QED
        BY <4>1, <4>2, BoundsAssumption
    <3> QED
      BY <3>1, <3>2
  <2> QED
    BY <2>1, <2>2, <2>3, AllocatedIsStored
<1>3. ASSUME (\E type \in Scalars : MakeScalarCollects(type)) \/ Collect PROVE Store!Next
  <2>1. mem' = mem /\ from_space' = from_space /\ roots' = roots
    BY <1>3 DEF MakeScalarCollects, Collect, StartCollection
  <2> QED
    BY <2>1, SameHeapUnseen
<1> QED
  BY <1>1, <1>2, <1>3, MakeArrayIsStored, ReplaceArrayDataIsStored, StoreElementIsStored,
     ChangeRefIsStored, PushedIsStored, PoppedIsStored DEF Program

(* The swap is a Rename: each object takes the address of its copy.        *)
LEMMA SwapIsRenaming ==
  ASSUME HeapInv, HeapInv', CopiesInv, CopiesInv', ScanDone,
         ToObjects \subseteq FromObjects', \A t \in ToObjects : mem'[t] = mem[t],
         DOMAIN roots' = DOMAIN roots, \A i \in DOMAIN roots : i # 1 => roots'[i] = roots[i]
  PROVE  Store!Next
<1> DEFINE new == [a \in DOMAIN Objs |-> mem[a].fwd]
           f(i) == IF i = NoneId THEN NoneId ELSE new[i]
<1>1. \A a \in Copied : /\ a \in FromObjects /\ mem[a].fwd \in ToObjects
                        /\ NameOf(a) = IF mem[a].type = "None" THEN 0 ELSE a
                        /\ NameOf(mem[a].fwd) = NameOf(a)
                        /\ mem'[mem[a].fwd].type = mem[a].type
                        /\ NameNext(mem[a].fwd) = IF mem[a].type = "None" THEN 0 ELSE mem[a].fwd
  <2> SUFFICES ASSUME NEW a \in Copied
               PROVE  /\ a \in FromObjects /\ mem[a].fwd \in ToObjects
                      /\ NameOf(a) = IF mem[a].type = "None" THEN 0 ELSE a
                      /\ NameOf(mem[a].fwd) = NameOf(a)
                      /\ mem'[mem[a].fwd].type = mem[a].type
                      /\ NameNext(mem[a].fwd) = IF mem[a].type = "None" THEN 0 ELSE mem[a].fwd
    OBVIOUS
  <2>1. a \in FromObjects /\ mem[a].fwd \in ToObjects /\ mem[mem[a].fwd].type = mem[a].type
    BY CopiesAlike
  <2>2. NameOf(a) = IF mem[a].type = "None" THEN 0 ELSE a
    BY <2>1, GraphHasShape DEF GraphShape
  <2>3. mem'[mem[a].fwd].type = mem[a].type /\ mem[a].fwd \in FromObjects'
    BY <2>1
  <2> QED
    BY <2>1, <2>2, <2>3, CopiesAreNamed, GraphHasShapeNext DEF CopyNames, GraphShapeNext
<1>2. \A t \in ToObjects : \E a \in Copied : mem[a].fwd = t
  BY DEF CopiesInv
<1>3. /\ DOMAIN Graph = Nodes /\ 0 \notin Nodes /\ Nodes \subseteq FromObjects
      /\ DOMAIN Graph' = Nodes' /\ 0 \notin Nodes'
  BY GraphHasShape, GraphHasShapeNext DEF GraphShape, GraphShapeNext, Nodes
<1>4. ASSUME NEW i \in DOMAIN HeldNames
      PROVE  /\ HeldNames[i] \in (Copied \cap Nodes) \cup {0}
             /\ HeldNames[i] # 0 => HeldNames[i] \in DOMAIN Objs
             /\ i \in DOMAIN HeldNames' /\ HeldNames'[i] = f(HeldNames[i])
  <2>1. i + 1 \in DOMAIN roots /\ HeldNames[i] = NameOf(roots[i + 1]) /\ i \in 1..Len(roots) - 1
        /\ Len(roots) \in Nat /\ i + 1 # 1
    BY HeldHasShape DEF HeldShape
  <2>2. PICK a \in Copied : mem[a].fwd = roots[i + 1]
    BY <1>2, <2>1, ScanDoneSlots
  <2>3. HeldNames[i] = IF mem[a].type = "None" THEN 0 ELSE a
    BY <1>1, <2>1, <2>2
  <2>4. HeldNames[i] \in (Copied \cap Nodes) \cup {0}
    BY <1>1, <2>3 DEF Nodes
  <2>5. HeldNames[i] # 0 => HeldNames[i] \in DOMAIN Objs
    BY <2>4, ObjsHaveShape DEF ObjsShape, Range
  <2>6. Len(roots') = Len(roots) /\ roots'[i + 1] = roots[i + 1]
    BY <2>1, HeldHasShape, HeldHasShapeNext DEF HeldShape, HeldShapeNext
  <2>7. i \in DOMAIN HeldNames' /\ HeldNames'[i] = NameNext(roots[i + 1])
    BY <2>1, <2>6, HeldHasShapeNext DEF HeldShapeNext
  <2>8. a \in Nodes => a # 0
    BY <1>3
  <2>9. HeldNames'[i] = IF mem[a].type = "None" THEN 0 ELSE mem[a].fwd
    BY <1>1, <2>2, <2>7
  <2>10. HeldNames'[i] = f(HeldNames[i])
    <3>1. CASE mem[a].type = "None"
      BY <2>3, <2>9, <3>1 DEF NoneId
    <3>2. CASE mem[a].type # "None"
      <4>1. a # 0 /\ HeldNames[i] = a
        BY <1>1, <1>3, <2>3, <3>2 DEF Nodes
      <4>2. a \in DOMAIN Objs
        BY <2>5, <4>1
      <4> QED
        BY <2>9, <3>2, <4>1, <4>2 DEF NoneId
    <3> QED
      BY <3>1, <3>2
  <2> QED
    BY <2>4, <2>5, <2>7, <2>10
<1>5. ASSUME NEW a \in Copied \cap Nodes, NEW i \in DOMAIN mem[a].fields
      PROVE  /\ mem[a].fields[i] \in Copied
             /\ Graph[a].fields[i] = NameOf(mem[a].fields[i])
             /\ Graph'[mem[a].fwd].fields[i] = NameNext(mem[mem[a].fields[i]].fwd)
  <2>1. mem[a].fields[i] \in Copied /\ mem[mem[a].fwd].fields[i] = mem[mem[a].fields[i]].fwd
    BY ScanDoneCopies
  <2>2. Graph[a].fields[i] = NameOf(mem[a].fields[i])
    BY GraphHasShape DEF GraphShape
  <2>3. mem[a].fwd \in Nodes' /\ mem'[mem[a].fwd] = mem[mem[a].fwd]
    BY <1>1 DEF Nodes
  <2>4. i \in DOMAIN mem'[mem[a].fwd].fields
    BY <2>3, CopiesAlike
  <2>5. Graph'[mem[a].fwd].fields[i] = NameNext(mem'[mem[a].fwd].fields[i])
    BY <2>3, <2>4, GraphHasShapeNext DEF GraphShapeNext
  <2> QED
    BY <2>1, <2>2, <2>3, <2>5
<1>6. DOMAIN Objs \subseteq Copied \cap Nodes
  <2> DEFINE S == Copied \cap Nodes
             r == Range(HeldNames)
  <2>1. r \cap DOMAIN Graph \subseteq S
    BY <1>3, <1>4 DEF Range
  <2>2. ASSUME NEW a \in S PROVE PointsAt(Graph, a) \subseteq S
    <3>1. a \in Copied /\ a \in Nodes
      OBVIOUS
    <3>2. DOMAIN Graph[a].fields = DOMAIN mem[a].fields
      BY <3>1, GraphHasShape DEF GraphShape
    <3>3. \A i \in DOMAIN mem[a].fields : Graph[a].fields[i] \in Copied \cup {0}
      BY <1>1, <1>5, <3>1
    <3> QED
      BY <1>3, <3>2, <3>3 DEF PointsAt, Range
  <2>3. S \subseteq DOMAIN Graph
    BY <1>3
  <2> HIDE DEF S, r
  <2>4. Reachable(Graph, r) \subseteq S
    BY <2>1, <2>2, <2>3, ReachableLeast
  <2> QED
    BY <2>4 DEF S, r, Objs, Prune, Restrict
<1>7. /\ \A a \in DOMAIN Objs : /\ Objs[a] = Graph[a] /\ mem[a].fwd \in Nodes'
                                /\ \A i \in DOMAIN mem[a].fields :
                                      Graph[a].fields[i] \in DOMAIN Objs \cup {0}
      /\ 0 \notin DOMAIN Objs
  <2>1. \A a \in DOMAIN Objs : Objs[a] = Graph[a] /\ mem[a].fwd \in Nodes'
    BY <1>1, <1>6, ObjsHaveShape DEF ObjsShape, Nodes
  <2>2. ASSUME NEW a \in DOMAIN Objs, NEW i \in DOMAIN mem[a].fields
        PROVE  Graph[a].fields[i] \in DOMAIN Objs \cup {0}
    <3>1. NameOf(mem[a].fields[i]) \in DOMAIN Objs \cup {0}
      BY ObjsHaveShape DEF ObjsShape
    <3> QED
      BY <1>5, <1>6, <3>1
  <2> QED
    BY <1>3, <1>6, <2>1, <2>2
<1>8. ASSUME NEW a \in DOMAIN Objs, NEW i \in DOMAIN mem[a].fields
      PROVE  Graph'[mem[a].fwd].fields[i] = f(Graph[a].fields[i])
  <2> DEFINE b == mem[a].fields[i]
  <2>1. b \in Copied /\ Graph[a].fields[i] = NameOf(b)
        /\ Graph'[mem[a].fwd].fields[i] = NameNext(mem[b].fwd)
        /\ NameOf(b) \in DOMAIN Objs \cup {0}
    BY <1>5, <1>6, <1>7
  <2> HIDE DEF b
  <2>2. CASE mem[b].type = "None"
    BY <1>1, <2>1, <2>2 DEF NoneId
  <2>3. CASE mem[b].type # "None"
    <3>1. NameOf(b) = b /\ NameNext(mem[b].fwd) = mem[b].fwd
      BY <1>1, <2>1, <2>3
    <3>2. b # 0
      BY <1>1, <1>3, <2>1, <2>3 DEF Nodes
    <3>3. b \in DOMAIN Objs
      BY <2>1, <3>1, <3>2
    <3> QED
      BY <2>1, <3>1, <3>2, <3>3 DEF NoneId
  <2> QED
    BY <2>2, <2>3
<1>9. ASSUME NEW a \in DOMAIN Objs
      PROVE  Graph'[mem[a].fwd] = [type |-> Objs[a].type,
                                   fields |-> [k \in DOMAIN Objs[a].fields |->
                                                 f(Objs[a].fields[k])]]
  <2>1. a \in Copied /\ a \in Nodes /\ Objs[a] = Graph[a] /\ mem[a].fwd \in Nodes'
    BY <1>6, <1>7
  <2> DEFINE t == mem[a].fwd
             n == Len(mem[a].fields)
  <2>2. Graph'[t] = [type |-> mem'[t].type,
                     fields |-> [i \in 1..Len(mem'[t].fields) |-> NameNext(mem'[t].fields[i])]]
        /\ \A i \in DOMAIN mem'[t].fields : Graph'[t].fields[i] = NameNext(mem'[t].fields[i])
    BY <2>1, GraphHasShapeNext DEF GraphShapeNext
  <2>3. mem'[t] = mem[t] /\ mem[t].type = mem[a].type /\ Len(mem[t].fields) = n
        /\ DOMAIN mem[t].fields = 1..n /\ DOMAIN mem[a].fields = 1..n
    BY <1>1, <2>1, CopiesAlike
  <2>4. Graph[a].type = mem[a].type /\ DOMAIN Graph[a].fields = 1..n
    BY <2>1, <2>3, GraphHasShape DEF GraphShape
  <2>5. \A i \in 1..n : NameNext(mem'[t].fields[i]) = f(Graph[a].fields[i])
    <3>1. \A i \in DOMAIN mem[a].fields : Graph'[t].fields[i] = f(Graph[a].fields[i])
      BY <1>8
    <3>2. \A i \in DOMAIN mem'[t].fields : Graph'[t].fields[i] = NameNext(mem'[t].fields[i])
      BY <2>2
    <3> HIDE DEF f, t, n
    <3> QED
      BY <2>3, <3>1, <3>2
  <2> HIDE DEF t, n
  <2>6. [i \in 1..Len(mem'[t].fields) |-> NameNext(mem'[t].fields[i])]
          = [k \in DOMAIN Objs[a].fields |-> f(Objs[a].fields[k])]
    BY <2>1, <2>3, <2>4, <2>5
  <2>7. mem'[t].type = Objs[a].type
    BY <2>1, <2>3, <2>4
  <2>8. Graph'[t] = [type |-> Objs[a].type,
                     fields |-> [k \in DOMAIN Objs[a].fields |-> f(Objs[a].fields[k])]]
    BY <2>2, <2>6, <2>7
  <2> QED
    BY <2>8 DEF t
<1>10. Len(HeldNames') = Len(HeldNames) /\ DOMAIN HeldNames' = DOMAIN HeldNames
  <2>1. Len(roots') = Len(roots)
    BY HeldHasShape, HeldHasShapeNext DEF HeldShape, HeldShapeNext
  <2> QED
    BY <2>1, HeldHasShape, HeldHasShapeNext DEF HeldShape, HeldShapeNext
<1>11. \A a \in DOMAIN Objs : DOMAIN Graph'[mem[a].fwd].fields = DOMAIN mem[a].fields
  <2> SUFFICES ASSUME NEW a \in DOMAIN Objs
               PROVE  DOMAIN Graph'[mem[a].fwd].fields = DOMAIN mem[a].fields
    OBVIOUS
  <2>1. a \in Copied /\ mem[a].fwd \in Nodes' /\ mem[a].fwd \in ToObjects
    BY <1>1, <1>6, <1>7
  <2>2. DOMAIN Graph'[mem[a].fwd].fields = DOMAIN mem'[mem[a].fwd].fields
    BY <2>1, GraphHasShapeNext DEF GraphShapeNext
  <2> QED
    BY <2>1, <2>2, CopiesAlike
<1>12. HeldNames' = [k \in DOMAIN HeldNames |-> f(HeldNames[k])]
  <2> DEFINE g == HeldNames'
             h == [k \in DOMAIN HeldNames |-> f(HeldNames[k])]
             S == DOMAIN HeldNames
  <2>1. g = [k \in S |-> g[k]]
    BY <1>10 DEF HeldNames
  <2>2. h = [k \in S |-> h[k]] /\ \A k \in S : g[k] = h[k]
    BY <1>4
  <2> HIDE DEF g, h, S
  <2>3. g = h
    BY <2>1, <2>2, FunctionItself
  <2> QED
    BY <2>3 DEF g, h
<1> DEFINE Image == {mem[a].fwd : a \in DOMAIN Objs}
<1>13. \A t \in Image : PointsAt(Graph', t) \subseteq Image
  <2> SUFFICES ASSUME NEW a \in DOMAIN Objs, NEW x \in PointsAt(Graph', mem[a].fwd)
               PROVE  x \in Image
    OBVIOUS
  <2> DEFINE t == mem[a].fwd
  <2>1. DOMAIN Graph'[t].fields = DOMAIN mem[a].fields
    BY <1>11
  <2>2. PICK i \in DOMAIN mem[a].fields : Graph'[t].fields[i] = x /\ x \in DOMAIN Graph'
    BY <2>1 DEF PointsAt, Range
  <2>3. x = f(Graph[a].fields[i]) /\ x # 0
    BY <1>3, <1>8, <2>2
  <2>4. Graph[a].fields[i] \in DOMAIN Objs
    BY <1>7, <2>3 DEF NoneId
  <2> QED
    BY <1>7, <2>3, <2>4 DEF NoneId
<1>14. Range(HeldNames') \cap DOMAIN Graph' \subseteq Image
  <2> SUFFICES ASSUME NEW i \in DOMAIN HeldNames', HeldNames'[i] \in DOMAIN Graph'
               PROVE  HeldNames'[i] \in Image
    BY DEF Range
  <2>1. HeldNames'[i] = f(HeldNames[i]) /\ HeldNames'[i] # 0
    BY <1>3, <1>4, <1>10
  <2>2. HeldNames[i] \in DOMAIN Objs
    BY <1>4, <1>10, <2>1 DEF NoneId
  <2> QED
    BY <1>7, <2>1, <2>2 DEF NoneId
<1>15. Image \subseteq DOMAIN Graph'
  BY <1>3, <1>7
<1> DEFINE g == Graph'
           r == Range(HeldNames')
           R == Reachable(g, r)
<1>16. DOMAIN Objs' = R /\ \A t \in R : Objs'[t] = g[t]
  BY DEF Objs, Prune, Restrict
<1>17. R \subseteq Image
  <2>1. Image \subseteq DOMAIN g /\ r \cap DOMAIN g \subseteq Image
        /\ \A t \in Image : PointsAt(g, t) \subseteq Image
    BY <1>13, <1>14, <1>15
  <2> HIDE DEF g, r, Image
  <2> QED
    BY <2>1, ReachableLeast
<1>18. Image \subseteq R
  <2> DEFINE S == {a \in DOMAIN Objs : mem[a].fwd \in R}
  <2>1. /\ r \cap DOMAIN g \subseteq R
        /\ \A t \in R : PointsAt(g, t) \subseteq R
    <3> HIDE DEF g, r
    <3> QED
      BY ReachableClosed
  <2>2. Range(HeldNames) \cap DOMAIN Graph \subseteq S
    <3> SUFFICES ASSUME NEW i \in DOMAIN HeldNames, HeldNames[i] \in DOMAIN Graph
                 PROVE  HeldNames[i] \in S
      BY DEF Range
    <3>1. HeldNames[i] # 0 /\ HeldNames[i] \in DOMAIN Objs
      BY <1>3, <1>4
    <3>2. HeldNames'[i] = mem[HeldNames[i]].fwd /\ i \in DOMAIN HeldNames'
      BY <1>4, <3>1 DEF NoneId
    <3>3. HeldNames'[i] \in r \cap DOMAIN g
      BY <1>15, <3>1, <3>2 DEF Range
    <3> QED
      BY <2>1, <3>1, <3>2, <3>3
  <2>3. ASSUME NEW a \in S PROVE PointsAt(Graph, a) \subseteq S
    <3> SUFFICES ASSUME NEW x \in PointsAt(Graph, a) PROVE x \in S
      OBVIOUS
    <3>1. a \in DOMAIN Objs /\ mem[a].fwd \in R /\ a \in Nodes /\ Objs[a] = Graph[a]
      BY <1>6, <1>7
    <3>2. DOMAIN Graph[a].fields = DOMAIN mem[a].fields
      BY <3>1, GraphHasShape DEF GraphShape
    <3>3. PICK i \in DOMAIN mem[a].fields : Graph[a].fields[i] = x /\ x \in DOMAIN Graph
      BY <3>2 DEF PointsAt, Range
    <3>4. x \in DOMAIN Objs /\ x # 0
      BY <1>3, <1>7, <3>1, <3>3
    <3>5. g[mem[a].fwd].fields[i] = mem[x].fwd
      BY <1>8, <3>1, <3>3, <3>4 DEF NoneId
    <3>6. i \in DOMAIN g[mem[a].fwd].fields
      BY <1>11, <3>1
    <3>7. mem[x].fwd \in DOMAIN g
      BY <1>15, <3>4
    <3>8. mem[x].fwd \in PointsAt(g, mem[a].fwd)
      BY <3>5, <3>6, <3>7 DEF PointsAt, Range
    <3> QED
      BY <2>1, <3>1, <3>4, <3>8
  <2>4. S \subseteq DOMAIN Graph
    BY <1>3, <1>6
  <2> HIDE DEF S
  <2>5. Reachable(Graph, Range(HeldNames)) \subseteq S
    BY <2>2, <2>3, <2>4, ReachableLeast
  <2>6. DOMAIN Objs \subseteq S
    BY <2>5 DEF Objs, Prune, Restrict
  <2> QED
    BY <2>6 DEF S
<1>19. DOMAIN Objs' = Image /\ \A a \in DOMAIN Objs : Objs'[mem[a].fwd] = Graph'[mem[a].fwd]
  BY <1>16, <1>17, <1>18
<1>20. new \in [DOMAIN Objs -> DOMAIN Objs'] /\ Store!Range(new) = DOMAIN Objs'
  BY <1>19 DEF Store!Range
<1>21. Store!IsInjective(new)
  BY <1>6 DEF Store!IsInjective, CopiesInv
<1>22. \A a \in DOMAIN Objs :
          Objs'[new[a]] = [type |-> Objs[a].type,
                           fields |-> [k \in DOMAIN Objs[a].fields |-> f(Objs[a].fields[k])]]
  BY <1>9, <1>19
<1>23. Store!Rename
  <2> HIDE DEF Image, g, r, R
  <2>1. new \in [DOMAIN Objs -> DOMAIN Objs']
    BY <1>20
  <2> HIDE DEF new
  <2> QED
    BY <1>12, <1>20, <1>21, <1>22, <2>1 DEF Store!Rename
<1> QED
  BY <1>23 DEF Store!Next

(* The end of a collection is a Rename; the new none has no name.          *)
LEMMA FinishIsRenaming ==
  ASSUME HeapInv, HeapInv', CopiesInv, CopiesInv', Finish
  PROVE  Store!Next
<1> DEFINE n == to_space.ptr
<1>1. /\ ScanDone /\ DOMAIN mem' = ToObjects \cup {n}
      /\ \A a \in ToObjects : mem'[a] = mem[a]
      /\ from_space'.begin = to_space.begin /\ from_space'.end = to_space.end
      /\ roots' = [roots EXCEPT ![1] = n]
  BY FinishEffect
<1> HIDE DEF n
<1>2. ToObjects \subseteq FromObjects'
  BY <1>1 DEF ToObjects, FromObjects, Contains
<1>3. DOMAIN roots' = DOMAIN roots /\ \A i \in DOMAIN roots : i # 1 => roots'[i] = roots[i]
  BY <1>1
<1> QED
  BY <1>1, <1>2, <1>3, SwapIsRenaming

(* So is an end that finds no room for a none.                             *)
LEMMA FinishCollectsAgainIsRenaming ==
  ASSUME HeapInv, HeapInv', CopiesInv, CopiesInv', FinishCollectsAgain
  PROVE  Store!Next
<1>1. ScanDone /\ mem' = Survivors /\ from_space' = to_space /\ roots' = roots
  BY DEF FinishCollectsAgain
<1>2. \A a \in ToObjects : mem'[a] = mem[a]
  BY <1>1, SwapKeeps
<1>3. ToObjects \subseteq FromObjects'
  <2>1. DOMAIN mem' = ToObjects
    BY <1>1 DEF Survivors, Restrict, ToObjects
  <2> QED
    BY <1>1, <2>1 DEF ToObjects, FromObjects, Contains
<1> QED
  BY <1>1, <1>2, <1>3, SwapIsRenaming

(* The allocation that waited for the collection is a New.                 *)
LEMMA ResumeIsStored ==
  ASSUME HeapInv, HeapInv', CopiesInv, CopiesInv', WaitingInv, NoneInv, TypedInv, Resume
  PROVE  Store!Next
<1>1. ~Collecting /\ Allocated(gc.wanted, << >>)
      /\ gc.wanted \in {"Int", "String", "Ref", "Tuple", "Func"}
  BY TypesAssumption DEF Resume, WaitingInv, Collecting
<1>2. << >> \in Seq(Addresses) /\ Len(<< >>) <= MaxElements /\ DOMAIN << >> = {}
  BY BoundsAssumption
<1> QED
  BY <1>1, <1>2, AllocatedIsStored

(* Every step of the heap is a step of the store, or unseen.               *)
LEMMA StoreStep ==
  ASSUME HeapInv, HeapInv', CopiesInv, CopiesInv', WaitingInv, NoneInv, TypedInv, [Next]_vars
  PROVE  Store!Next
<1>1. CASE RootsDone \/ ScanNext \/ Stopped \/ UNCHANGED vars
  <2>1. mem' = mem /\ from_space' = from_space /\ roots' = roots
    BY <1>1 DEF RootsDone, ScanNext, Stopped, vars
  <2> QED
    BY <2>1, SameHeapUnseen
<1>2. CASE OutOfMemory
  <2>1. mem' = mem /\ roots' = roots
        /\ from_space' = Bump(from_space, ObjectWords(gc.wanted, 0))
    BY <1>2 DEF OutOfMemory
  <2>2. from_space'.begin = from_space.begin /\ from_space'.end = from_space.end
    BY <2>1 DEF Bump, HeapInv, TypeOK, Space
  <2> QED
    BY <2>1, <2>2, SameHeapUnseen
<1> QED
  BY <1>1, <1>2, ProgramIsStored, CopyingIsUnseen, FinishIsRenaming,
     FinishCollectsAgainIsRenaming, ResumeIsStored DEF Next, Collector

(* A new heap is an empty store.                                           *)
LEMMA StoreStart ==
  ASSUME Init
  PROVE  Store!Init
<1> DEFINE none == NewObject("None", << >>)
<1>1. mem = [a \in {1} |-> none] /\ roots = <<1>> /\ none.type = "None"
  BY DEF Init, NewObject
<1> HIDE DEF none
<1>2. HeldNames = << >>
  <2>1. 1..Len(roots) - 1 = {}
    BY <1>1
  <2>2. HeldNames = [i \in {} |-> NameOf(roots[i + 1])]
    BY <2>1 DEF HeldNames
  <2> QED
    BY <2>2
<1>3. DOMAIN Graph = {}
  BY <1>1 DEF Graph, FromObjects
<1>4. Objs = << >>
  <2>1. Reachable(Graph, Range(HeldNames)) = {}
    BY <1>3, ReachableClosed
  <2> QED
    BY <2>1 DEF Objs, Prune, Restrict
<1> QED
  BY <1>2, <1>4 DEF Store!Init

(* The collector implements the store of objects (struct Heap,             *)
(* gc_heap.hpp): through allocations and collections, whatever the program *)
(* can reach keeps its type, its fields and its identity until the program *)
(* changes them.                                                           *)
THEOREM HeapImplementsStore == Spec => ImplementsObjectStore
<1>1. Init => Store!Init
  BY StoreStart
<1>2. HeapInv /\ HeapInv' /\ CopiesInv /\ CopiesInv' /\ WaitingInv /\ NoneInv /\ TypedInv
        /\ [Next]_vars => [Store!Next]_Store!vars
  BY StoreStep
<1> QED
  BY <1>1, <1>2, HeapInvariant, CopiesInvariant, TypedInvariant, NoneAlways, PTL
     DEF Spec, ImplementsObjectStore, Store!Spec
=============================================================================
