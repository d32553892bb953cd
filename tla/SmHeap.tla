------------------------------- MODULE SmHeap -------------------------------
(***************************************************************************)
(* The copying collector of the stack machine: struct Heap of              *)
(* src/gc_heap.hpp.  An arena is split into two semispaces; objects are    *)
(* bump-allocated in from_space; when one does not fit, collect() copies   *)
(* what the roots reach into to_space (Cheney's algorithm, one slot per    *)
(* step here), swaps the spaces and allocates a new none.                  *)
(*                                                                         *)
(* Memory is counted in 8-byte words (align_size), an object is a record   *)
(* at the address of its first word, and nullptr is 0.  The arena is       *)
(* words 1 .. 2 * SpaceWords.  Payloads are dropped: what an object is     *)
(* worth to the collector is its type, its size and the pointers in it.    *)
(*                                                                         *)
(* The caller of the heap is any program that holds every pointer it will  *)
(* use again in a root while an allocation collects.  The heap needs that  *)
(* of its callers and has no way to check it.                              *)
(***************************************************************************)
EXTENDS ObjectGraph, FiniteSets

CONSTANTS
  SpaceWords,   \* size of one semispace, in words
  MaxRoots,     \* bound: the roots a program keeps, the heap's own included
  Scalars,      \* types without pointers that the program creates
  Aggregates,   \* types with pointers that the program creates
  MaxElements   \* bound: elements of a tuple or an array, captures of a closure

ASSUME SpaceAssumption == SpaceWords \in Nat /\ SpaceWords >= 2
ASSUME TypesAssumption ==
  /\ Scalars \subseteq {"Int", "String"}
  /\ Aggregates \subseteq {"Ref", "Array", "Tuple", "Func"}
(* A reference has one field. *)
ASSUME BoundsAssumption == MaxRoots \in Nat \ {0} /\ MaxElements \in Nat \ {0}

VARIABLES
  mem,          \* address -> object, for every object of either space
  from_space,   \* [begin, end, ptr]
  to_space,     \* [begin, end, ptr]
  roots,        \* the pointers in the slots that Heap::roots lists; roots[1] is none
  gc            \* where collect() is, and the allocation that waits for it

vars == <<mem, from_space, to_space, roots, gc>>

NULL == 0
Addresses == 1..2 * SpaceWords

Types == {"None", "Int", "String", "Ref", "Array", "ArrayData", "Tuple", "Func"}
Phases == {"idle", "roots", "scan", "resume", "out_of_memory"}

-----------------------------------------------------------------------------
(* Sizes and spaces *)

(* sizeof each object, rounded up to words: type and fwd take two, an      *)
(* element of a tuple or an array is a pair.  Int stands for Int, Real and *)
(* Bool, String for a string of at most seven characters.                  *)
ObjectWords(type, n) ==
  CASE type = "None" -> 2
    [] type \in {"Int", "Ref", "Array"} -> 3
    [] type = "String" -> 4
    [] type \in {"ArrayData", "Tuple"} -> 3 + 2 * n
    [] OTHER -> 3 + n

WordsOf(obj) == ObjectWords(obj.type, Len(obj.fields))

FitsPastEnd(space, words) == space.ptr <= space.end

Fits(space, words) == space.ptr + words <= space.end

Contains(space, p) == space.begin <= p /\ p < space.end

Bump(space, words) == [space EXCEPT !.ptr = @ + words]

NewObject(type, fields) == [type |-> type, fwd |-> NULL, fields |-> fields]

FromObjects == {a \in DOMAIN mem : Contains(from_space, a)}
ToObjects   == {a \in DOMAIN mem : Contains(to_space, a)}

(* m with obj placed at a. *)
Place(m, a, obj) ==
  [b \in DOMAIN m \cup {a} |-> IF b = a THEN obj ELSE m[b]]

Init ==
  /\ mem = [a \in {1} |-> NewObject("None", << >>)]
  /\ from_space = [begin |-> 1, end |-> SpaceWords + 1, ptr |-> 3]
  /\ to_space = [begin |-> SpaceWords + 1, end |-> 2 * SpaceWords + 1, ptr |-> SpaceWords + 1]
  /\ roots = <<1>>
  /\ gc = [phase |-> "idle", next |-> 1, scanned |-> 0, wanted |-> "nothing", nested |-> FALSE]

-----------------------------------------------------------------------------
(* The program.  It names the objects in its roots and what LD, LDT and    *)
(* LDA read from them.                                                     *)
Elements(p) ==
  IF mem[p].type = "Array" THEN Range(mem[mem[p].fields[1]].fields)
                           ELSE Range(mem[p].fields)

Held == Range(roots) \cup UNION {Elements(p) : p \in Range(roots)}

HeldUnboxed == Held

HeldRefs == {p \in Held : mem[p].type = "Ref"}

Operands(type) ==
  CASE type = "Ref" -> [1..1 -> Held]
    [] OTHER -> UNION {[1..n -> HeldRefs] : n \in 0..MaxElements}

MayPush == gc.phase = "idle" /\ Len(roots) < MaxRoots

(* new (allocate(...)) D...(fields), when it fits, and the push of it. *)
Allocated(type, fields) ==
  /\ Fits(from_space, ObjectWords(type, Len(fields)))
  /\ mem' = Place(mem, from_space.ptr, NewObject(type, fields))
  /\ from_space' = Bump(from_space, ObjectWords(type, Len(fields)))
  /\ roots' = Append(roots, from_space.ptr)
  /\ UNCHANGED to_space

(* collect() up to its loops. *)
StartCollection(wanted) ==
  /\ gc' = [gc EXCEPT !.phase = "roots", !.next = 1, !.scanned = to_space.begin,
                      !.wanted = wanted]
  /\ UNCHANGED <<mem, from_space, to_space, roots>>

MakeScalar(type) ==
  /\ MayPush
  /\ Allocated(type, << >>)
  /\ UNCHANGED gc

MakeScalarCollects(type) ==
  /\ MayPush
  /\ ~Fits(from_space, ObjectWords(type, 0))
  /\ StartCollection(type)

Make(type, fields) ==
  /\ MayPush
  /\ Allocated(type, fields)
  /\ UNCHANGED gc

(* make_array: the elements first, then the header that points at them. *)
MakeArray(elements) ==
  LET words  == ObjectWords("ArrayData", Len(elements))
      data   == from_space.ptr
      header == data + words
  IN  /\ MayPush
      /\ Fits(from_space, words + ObjectWords("Array", 1))
      /\ mem' = Place(Place(mem, data, NewObject("ArrayData", elements)),
                      header, NewObject("Array", <<data>>))
      /\ from_space' = Bump(from_space, words + ObjectWords("Array", 1))
      /\ roots' = Append(roots, header)
      /\ UNCHANGED <<to_space, gc>>

(* The key of the element, dropped here, decides its place k. *)
ReplaceArrayData(array, k, element) ==
  LET old   == mem[mem[array].fields[1]].fields
      new   == SubSeq(old, 1, k - 1) \o <<element>> \o SubSeq(old, k, Len(old))
      words == ObjectWords("ArrayData", Len(new))
  IN  /\ gc.phase = "idle"
      /\ mem[array].type = "Array"
      /\ k \in 1..Len(old) + 1
      /\ Len(new) <= MaxElements
      /\ Fits(from_space, words)
      /\ mem' = [Place(mem, from_space.ptr, NewObject("ArrayData", new))
                   EXCEPT ![array].fields = <<from_space.ptr>>]
      /\ from_space' = Bump(from_space, words)
      /\ UNCHANGED <<to_space, roots, gc>>

ChangeRefUnresolved(ref, p) ==
  /\ gc.phase = "idle"
  /\ mem[ref].type = "Ref"
  /\ mem' = [mem EXCEPT ![ref].fields[1] = p]
  /\ UNCHANGED <<from_space, to_space, roots, gc>>

(* change_ref on the last reference of a chain. *)
ChangeRef(ref, p) ==
  /\ gc.phase = "idle"
  /\ mem[ref].type = "Ref"
  /\ mem[mem[ref].fields[1]].type # "Ref"
  /\ mem[p].type # "Ref"
  /\ mem' = [mem EXCEPT ![ref].fields[1] = p]
  /\ UNCHANGED <<from_space, to_space, roots, gc>>

(* raw_array[k].second = ref, in STA. *)
StoreElement(array, k, ref) ==
  /\ gc.phase = "idle"
  /\ mem[array].type = "Array"
  /\ k \in DOMAIN mem[mem[array].fields[1]].fields
  /\ mem' = [mem EXCEPT ![mem[array].fields[1]].fields[k] = ref]
  /\ UNCHANGED <<from_space, to_space, roots, gc>>

PushRoot(p) ==
  /\ MayPush
  /\ roots' = Append(roots, p)
  /\ UNCHANGED <<mem, from_space, to_space, gc>>

PopRoot ==
  /\ gc.phase = "idle"
  /\ Len(roots) > 1
  /\ roots' = SubSeq(roots, 1, Len(roots) - 1)
  /\ UNCHANGED <<mem, from_space, to_space, gc>>

(* collect() called by hand, as test/gc_tests.cpp does. *)
Collect ==
  /\ gc.phase = "idle"
  /\ StartCollection("nothing")

-----------------------------------------------------------------------------
(* The collector *)

(* process_ref on a slot that holds p: where the slot points afterwards,   *)
(* and what evacuate does to the memory and to to_space.                   *)
MustCopyAlways(p) == Contains(from_space, p)

MustCopy(p) == Contains(from_space, p) /\ mem[p].fwd = NULL

Forward(p) ==
  IF ~Contains(from_space, p) THEN p
  ELSE IF mem[p].fwd # NULL THEN mem[p].fwd
  ELSE to_space.ptr

EvacuatedNoForward(p) == Place(mem, to_space.ptr, mem[p])

Evacuated(p) ==
  Place([mem EXCEPT ![p].fwd = to_space.ptr], to_space.ptr, mem[p])

MemAfter(p) == IF MustCopy(p) THEN Evacuated(p) ELSE mem

(* to_space.allocate throws when the copy does not fit: see EvacuationFits. *)
ToSpaceAfter(p) ==
  IF MustCopy(p) THEN Bump(to_space, WordsOf(mem[p])) ELSE to_space

RoomFor(p) == MustCopy(p) => Fits(to_space, WordsOf(mem[p]))

ProcessRoot ==
  /\ gc.phase = "roots"
  /\ gc.next <= Len(roots)
  /\ RoomFor(roots[gc.next])
  /\ mem' = MemAfter(roots[gc.next])
  /\ to_space' = ToSpaceAfter(roots[gc.next])
  /\ roots' = [roots EXCEPT ![gc.next] = Forward(roots[gc.next])]
  /\ gc' = [gc EXCEPT !.next = @ + 1]
  /\ UNCHANGED from_space

RootsDone ==
  /\ gc.phase = "roots"
  /\ gc.next > Len(roots)
  /\ gc' = [gc EXCEPT !.phase = "scan", !.next = 1]
  /\ UNCHANGED <<mem, from_space, to_space, roots>>

Scanning == gc.phase = "scan" /\ gc.scanned < to_space.ptr

ScanFieldNotUpdated ==
  LET fields == mem[gc.scanned].fields
  IN  /\ Scanning
      /\ gc.next <= Len(fields)
      /\ RoomFor(fields[gc.next])
      /\ mem' = MemAfter(fields[gc.next])
      /\ to_space' = ToSpaceAfter(fields[gc.next])
      /\ gc' = [gc EXCEPT !.next = @ + 1]
      /\ UNCHANGED <<from_space, roots>>

ScanField ==
  LET fields == mem[gc.scanned].fields
  IN  /\ Scanning
      /\ gc.next <= Len(fields)
      /\ RoomFor(fields[gc.next])
      /\ mem' = [MemAfter(fields[gc.next])
                   EXCEPT ![gc.scanned].fields[gc.next] = Forward(fields[gc.next])]
      /\ to_space' = ToSpaceAfter(fields[gc.next])
      /\ gc' = [gc EXCEPT !.next = @ + 1]
      /\ UNCHANGED <<from_space, roots>>

ScanNextStays ==
  /\ Scanning
  /\ gc.next > Len(mem[gc.scanned].fields)
  /\ gc' = [gc EXCEPT !.next = 1]
  /\ UNCHANGED <<mem, from_space, to_space, roots>>

ScanNext ==
  /\ Scanning
  /\ gc.next > Len(mem[gc.scanned].fields)
  /\ gc' = [gc EXCEPT !.scanned = @ + WordsOf(mem[gc.scanned]), !.next = 1]
  /\ UNCHANGED <<mem, from_space, to_space, roots>>

(* The end of collect(): swap, forget what the old space held, and         *)
(* allocate a new none.  That allocation calls collect() again when the    *)
(* survivors leave no room for it.                                         *)
ScanDone == gc.phase = "scan" /\ gc.scanned = to_space.ptr

Survivors == Restrict(mem, ToObjects)

FinishNoReset ==
  /\ ScanDone
  /\ ~gc.nested
  /\ Fits(to_space, ObjectWords("None", 0))
  /\ mem' = Place(Survivors, to_space.ptr, NewObject("None", << >>))
  /\ from_space' = Bump(to_space, ObjectWords("None", 0))
  /\ to_space' = from_space
  /\ roots' = [roots EXCEPT ![1] = to_space.ptr]
  /\ gc' = [gc EXCEPT !.phase = IF gc.wanted = "nothing" THEN "idle" ELSE "resume"]

FinishNoneLast ==
  /\ ScanDone
  /\ ~gc.nested
  /\ Fits(to_space, ObjectWords("None", 0))
  /\ mem' = Place(Survivors, to_space.ptr, NewObject("None", << >>))
  /\ from_space' = Bump(to_space, ObjectWords("None", 0))
  /\ to_space' = [from_space EXCEPT !.ptr = from_space.begin]
  /\ roots' = [roots EXCEPT ![Len(roots)] = to_space.ptr]
  /\ gc' = [gc EXCEPT !.phase = IF gc.wanted = "nothing" THEN "idle" ELSE "resume"]

Finish ==
  /\ ScanDone
  /\ ~gc.nested
  /\ Fits(to_space, ObjectWords("None", 0))
  /\ mem' = Place(Survivors, to_space.ptr, NewObject("None", << >>))
  /\ from_space' = Bump(to_space, ObjectWords("None", 0))
  /\ to_space' = [from_space EXCEPT !.ptr = from_space.begin]
  /\ roots' = [roots EXCEPT ![1] = to_space.ptr]
  /\ gc' = [gc EXCEPT !.phase = IF gc.wanted = "nothing" THEN "idle" ELSE "resume"]

FinishCollectsAgainEarly ==
  /\ ScanDone
  /\ ~Fits(to_space, ObjectWords("None", 0) + 1)
  /\ mem' = Survivors
  /\ from_space' = to_space
  /\ to_space' = [from_space EXCEPT !.ptr = from_space.begin]
  /\ gc' = [gc EXCEPT !.phase = "roots", !.next = 1, !.scanned = from_space.begin,
                      !.nested = TRUE]
  /\ UNCHANGED roots

FinishCollectsAgain ==
  /\ ScanDone
  /\ ~Fits(to_space, ObjectWords("None", 0))
  /\ mem' = Survivors
  /\ from_space' = to_space
  /\ to_space' = [from_space EXCEPT !.ptr = from_space.begin]
  /\ gc' = [gc EXCEPT !.phase = "roots", !.next = 1, !.scanned = from_space.begin,
                      !.nested = TRUE]
  /\ UNCHANGED roots

(* Back in allocate(): from_space.allocate, whose throw ends the program. *)
Resume ==
  /\ gc.phase = "resume"
  /\ Allocated(gc.wanted, << >>)
  /\ gc' = [gc EXCEPT !.phase = "idle", !.wanted = "nothing"]

OutOfMemory ==
  /\ gc.phase = "resume"
  /\ ~Fits(from_space, ObjectWords(gc.wanted, 0))
  /\ from_space' = Bump(from_space, ObjectWords(gc.wanted, 0))
  /\ gc' = [gc EXCEPT !.phase = "out_of_memory"]
  /\ UNCHANGED <<mem, to_space, roots>>

-----------------------------------------------------------------------------
Program ==
  \/ \E type \in Scalars : MakeScalar(type) \/ MakeScalarCollects(type)
  \/ \E type \in Aggregates \ {"Array"} :
        \E fields \in Operands(type) : Make(type, fields)
  \/ "Array" \in Aggregates /\ \E fields \in Operands("Array") : MakeArray(fields)
  \/ \E array \in Held, k \in 1..MaxElements + 1, element \in HeldRefs :
        ReplaceArrayData(array, k, element) \/ StoreElement(array, k, element)
  \/ \E ref, p \in Held : ChangeRef(ref, p)
  \/ \E p \in Held : PushRoot(p)
  \/ PopRoot
  \/ Collect

Collector ==
  \/ ProcessRoot
  \/ RootsDone
  \/ ScanField
  \/ ScanNext
  \/ Finish
  \/ FinishCollectsAgain
  \/ Resume
  \/ OutOfMemory

(* The exception has ended the program. *)
Stopped == gc.phase = "out_of_memory" /\ UNCHANGED vars

Next == Program \/ Collector \/ Stopped

Spec == Init /\ [][Next]_vars

(* collect() is called and returns like any function: once in it, the      *)
(* program does nothing else until it ends.  The program itself owes       *)
(* nothing.                                                                *)
FairSpec == Spec /\ WF_vars(Collector)

-----------------------------------------------------------------------------
(* Invariants *)

Object ==
  [type: Types, fwd: {NULL} \cup Addresses, fields: Seq(Addresses)]

Space == [begin: {1, SpaceWords + 1}, end: {SpaceWords + 1, 2 * SpaceWords + 1}, ptr: Nat]

Control ==
  [phase: Phases, next: Nat \ {0}, scanned: Nat, wanted: {"nothing"} \cup Scalars,
   nested: BOOLEAN]

(* Types of the state of struct Heap. *)
TypeOK ==
  /\ DOMAIN mem \subseteq Addresses
  /\ mem \in [DOMAIN mem -> Object]
  /\ from_space \in Space
  /\ to_space \in Space
  /\ roots \in Seq(Addresses)
  /\ gc \in Control

(* Between collections no root and no field of any object points outside   *)
(* the objects of from_space: no slot is missed by process_ref, none is    *)
(* left with the address an object had before it was copied.               *)
NoDangling ==
  gc.phase \in {"idle", "resume", "out_of_memory"} =>
     /\ Range(roots) \subseteq FromObjects
     /\ \A a \in FromObjects : Range(mem[a].fields) \subseteq FromObjects

(* evacuate() always finds room: the live objects of one semispace fit in  *)
(* the other, because none is copied twice.  The throw of                  *)
(* SemiSpace::allocate can come from allocate() only.                      *)
EvacuationFits ==
  /\ gc.phase = "roots" /\ gc.next <= Len(roots) => RoomFor(roots[gc.next])
  /\ Scanning /\ gc.next <= Len(mem[gc.scanned].fields)
        => RoomFor(mem[gc.scanned].fields[gc.next])

(* What the roots reach, in the space that is being collected: its objects *)
(* keep their old fields until the swap.                                   *)
Live ==
  Reachable(Restrict(mem, FromObjects),
            {a \in FromObjects : a \in Range(roots) \/ mem[a].fwd \in Range(roots)})

(* A collection copies what the roots reach and nothing else, each object  *)
(* once, with its type, and its pointers lead to the copies.              *)
CopiesAreExactlyTheLive ==
  ScanDone =>
     /\ {a \in FromObjects : mem[a].fwd # NULL} = Live
     /\ ToObjects = {mem[a].fwd : a \in Live}
     /\ \A a, b \in Live : mem[a].fwd = mem[b].fwd => a = b
     /\ \A a \in Live : LET copy == mem[mem[a].fwd]
                       IN  /\ copy.type = mem[a].type
                           /\ copy.fields = [i \in DOMAIN mem[a].fields |->
                                              mem[mem[a].fields[i]].fwd]

(* The casts of collect() and of the interpreter: the field of an array is *)
(* its vector, the elements of a vector, a tuple or a closure are Refs.    *)
WellTyped ==
  \A a \in DOMAIN mem : \A i \in DOMAIN mem[a].fields :
     LET t == mem[mem[a].fields[i]].type
     IN  CASE mem[a].type = "Array" -> t = "ArrayData"
           [] mem[a].type \in {"ArrayData", "Tuple", "Func"} -> t = "Ref"
           [] OTHER -> t # "ArrayData"

(* A collect() called from the end of collect() does not return: the       *)
(* survivors are the same, so there is still no room for none.             *)
NestedNeverFinishes ==
  ScanDone /\ gc.nested => ~Fits(to_space, ObjectWords("None", 0))

(* resolve_ref and change_ref follow a chain of references to its end, so  *)
(* there must be one: no references form a ring.                           *)
RefChainsEnd ==
  LET Refs == {a \in FromObjects : mem[a].type = "Ref"}
  IN  \A S \in SUBSET Refs : S # {} => \E r \in S : mem[r].fields[1] \notin S

LiveWords == SumFunctionOnSet([a \in Live |-> WordsOf(mem[a])], Live)

(* A collection that leaves room for a new none ends.                      *)
CollectionEnds ==
  (gc.phase = "roots" /\ LiveWords + ObjectWords("None", 0) <= SpaceWords)
    ~> gc.phase \in {"idle", "out_of_memory"}

(* allocate() either returns or throws "out of memory".                    *)
AllocationEnds == gc.phase = "roots" ~> gc.phase \in {"idle", "out_of_memory"}

-----------------------------------------------------------------------------
(* The inductive invariant behind NoDangling *)

Collecting == gc.phase \in {"roots", "scan"}

(* The semispaces are the halves of the arena, in either order, and        *)
(* to_space is empty outside a collection.                                 *)
SpacesInv ==
  /\ {from_space.begin, to_space.begin} = {1, SpaceWords + 1}
  /\ \A space \in {from_space, to_space} :
        space.end = space.begin + SpaceWords /\ space.begin <= space.ptr
  /\ to_space.ptr <= to_space.end
  /\ gc.phase # "out_of_memory" => from_space.ptr <= from_space.end
  /\ ~Collecting => to_space.ptr = to_space.begin

(* Objects lie below the allocation pointer of their space; those of       *)
(* to_space lie end to end, so that scanned walks from one to the next.    *)
LayoutInv ==
  /\ \A a \in FromObjects : a + WordsOf(mem[a]) <= from_space.ptr
  /\ \A a \in ToObjects :
        /\ a + WordsOf(mem[a]) <= to_space.ptr
        /\ a + WordsOf(mem[a]) \in ToObjects \cup {to_space.ptr}
        /\ \A b \in ToObjects : a < b => a + WordsOf(mem[a]) <= b
  /\ to_space.begin \in ToObjects \cup {to_space.ptr}
  /\ \A a \in DOMAIN mem : mem[a].type \in {"Ref", "Array"} => Len(mem[a].fields) = 1

(* An object of from_space points into from_space, also while it is copied.*)
FromInv ==
  /\ \A a \in FromObjects :
        /\ \A i \in DOMAIN mem[a].fields : mem[a].fields[i] \in FromObjects
        /\ mem[a].fwd \in {NULL} \cup ToObjects
  /\ \A a \in ToObjects : mem[a].fwd = NULL
  /\ roots # << >>

(* Which slots collect() has been through. *)
RootDone(i) == gc.phase = "scan" \/ (gc.phase = "roots" /\ i < gc.next)
FieldDone(a, i) ==
  gc.phase = "scan" /\ (a < gc.scanned \/ (a = gc.scanned /\ i < gc.next))

(* A slot points into to_space exactly when process_ref has been through   *)
(* it.                                                                     *)
SlotsInv ==
  /\ \A i \in DOMAIN roots :
        roots[i] \in (IF RootDone(i) THEN ToObjects ELSE FromObjects)
  /\ \A a \in ToObjects : \A i \in DOMAIN mem[a].fields :
        mem[a].fields[i] \in (IF FieldDone(a, i) THEN ToObjects ELSE FromObjects)
  /\ Collecting => gc.scanned \in ToObjects \cup {to_space.ptr}
  /\ gc.phase = "roots" => gc.scanned = to_space.begin

(* An allocation is resumed only if one was waiting. *)
WaitingInv == gc.phase = "resume" => gc.wanted \in Scalars

HeapInv == TypeOK /\ SpacesInv /\ LayoutInv /\ FromInv /\ SlotsInv

-----------------------------------------------------------------------------
(* The inductive invariants behind the other properties of a collection *)

(* The objects of from_space that have been copied. *)
Copied == {a \in FromObjects : mem[a].fwd # NULL}

(* Object t is a copy of a.  The fields process_ref has been through point *)
(* at the copies of what the fields of a point at, the others where those  *)
(* of a do.                                                                *)
CopyOf(a, t) ==
  /\ mem[t].type = mem[a].type
  /\ Len(mem[t].fields) = Len(mem[a].fields)
  /\ \A i \in DOMAIN mem[a].fields :
        mem[t].fields[i] = IF FieldDone(t, i) THEN mem[mem[a].fields[i]].fwd
                                             ELSE mem[a].fields[i]

(* to_space holds one copy of each object that has been copied, and        *)
(* nothing else.                                                           *)
CopiesInv ==
  /\ \A a, b \in Copied : mem[a].fwd = mem[b].fwd => a = b
  /\ \A t \in ToObjects : \E a \in Copied : mem[a].fwd = t
  /\ \A a \in Copied : CopyOf(a, mem[a].fwd)

(* Nothing is copied that the roots do not reach. *)
LiveInv == Copied \subseteq Live

(* A vector is reached through its array only: no root points at one.      *)
TypedInv ==
  /\ WellTyped
  /\ \A i \in DOMAIN roots : mem[roots[i]].type # "ArrayData"

(* The words the objects of A occupy. *)
Cells(A) == UNION {a..a + WordsOf(mem[a]) - 1 : a \in A}

(* Both spaces are filled without gaps, no two objects of from_space       *)
(* overlap, and what has been copied has the size of the copies.           *)
CellsInv ==
  /\ \A a, b \in FromObjects : a < b => a + WordsOf(mem[a]) <= b
  /\ gc.phase # "out_of_memory" => Cells(FromObjects) = from_space.begin..from_space.ptr - 1
  /\ Cells(ToObjects) = to_space.begin..to_space.ptr - 1
  /\ Cardinality(Cells(Copied)) = to_space.ptr - to_space.begin

(* In a nested collection from_space has no room for a none, and all its   *)
(* objects are live.                                                       *)
NestedInv ==
  gc.nested =>
     /\ Collecting
     /\ ~Fits(from_space, ObjectWords("None", 0))
     /\ FromObjects = Live
=============================================================================
