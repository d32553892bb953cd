---------------------------- MODULE ObjectStore ----------------------------
(***************************************************************************)
(* What the heap of the stack machine (src/gc_heap.hpp) promises to the    *)
(* program that runs on it: a store of objects, reached from a stack of    *)
(* held references (Heap::roots).  Objects are created, read through other *)
(* objects, and updated in place.  There is no collector: an object that   *)
(* can no longer be reached is gone, one that can be reached keeps its     *)
(* type and its fields until the program itself changes them.  All the     *)
(* heap may do on its own is to give every object another name at once.    *)
(*                                                                         *)
(* SmHeap, the copying collector, is shown to implement this module: a     *)
(* collection, with its copies and forwarding pointers, is a run of        *)
(* stuttering steps that ends in one Rename.                               *)
(***************************************************************************)
EXTENDS ObjectGraph

CONSTANTS
  Ids,          \* names an object can have
  NoneId,       \* the name of the none value, not one of Ids
  MaxElements   \* bound: fields of an object

VARIABLES
  objs,     \* name -> [type, fields], fields a sequence of names
  held      \* the references held by the program, a stack of names

vars == <<objs, held>>

(* Every operation ends with the unreachable objects forgotten. *)
Becomes(g, r) ==
  /\ held' = r
  /\ objs' = Prune(g, Range(r))

With(g, i, type, fields) ==
  [j \in DOMAIN g \cup {i} |->
     IF j = i THEN [type |-> type, fields |-> fields] ELSE g[j]]

-----------------------------------------------------------------------------
(* What the program can get at, by reading its way through the objects.    *)
Nameable == {NoneId} \cup DOMAIN objs

(* The names an operation gives out are in use after it. *)
Fresh == (Ids \cap DOMAIN objs') \ DOMAIN objs

Init ==
  /\ objs = << >>
  /\ held = << >>

New(i, type, fields) ==
  Becomes(With(objs, i, type, fields), Append(held, i))

(* An array is a header whose one field is its vector of elements. *)
NewArray(i, d, fields) ==
  /\ i # d
  /\ Becomes(With(With(objs, d, "ArrayData", fields), i, "Array", <<d>>),
             Append(held, i))

Push(i) ==
  /\ i \in Nameable
  /\ Becomes(objs, Append(held, i))

Pop ==
  /\ held # << >>
  /\ Becomes(objs, SubSeq(held, 1, Len(held) - 1))

Write(i, k, v) ==
  /\ i \in Nameable \cap DOMAIN objs
  /\ k \in DOMAIN objs[i].fields
  /\ v \in Nameable
  /\ Becomes([objs EXCEPT ![i].fields[k] = v], held)

(* A new vector with one more element takes the place of the old one. *)
Insert(i, k, v) ==
  /\ i \in Nameable \cap DOMAIN objs
  /\ objs[i].type = "Array"
  /\ v \in Nameable
  /\ LET old == objs[objs[i].fields[1]].fields
     IN  /\ k \in 1..Len(old) + 1
         /\ \E d \in Fresh :
              Becomes([With(objs, d, "ArrayData",
                            SubSeq(old, 1, k - 1) \o <<v>> \o SubSeq(old, k, Len(old)))
                         EXCEPT ![i].fields = <<d>>],
                      held)

(* Every object gets another name, and every reference follows it. *)
Rename ==
  \E new \in [DOMAIN objs -> DOMAIN objs'] :
     LET f(i) == IF i = NoneId THEN NoneId ELSE new[i]
     IN  /\ IsInjective(new)
         /\ Range(new) = DOMAIN objs'
         /\ held' = [k \in DOMAIN held |-> f(held[k])]
         /\ \A i \in DOMAIN objs :
               objs'[new[i]] = [type |-> objs[i].type,
                                fields |-> [k \in DOMAIN objs[i].fields |->
                                              f(objs[i].fields[k])]]

Types == {"Int", "String", "Ref", "Tuple", "Func"}

FieldLists == UNION {[1..n -> Nameable] : n \in 0..MaxElements}

(* What the heap does for itself, the program does not see. *)
Unseen == UNCHANGED vars

Next ==
  \/ Unseen
  \/ Pop
  \/ \E i \in Nameable : Push(i)
  \/ \E i \in Fresh :
        /\ held' = Append(held, i)
        /\ \E fields \in FieldLists :
              \/ \E type \in Types : New(i, type, fields)
              \/ \E d \in Fresh : NewArray(i, d, fields)
  \/ \E i, v \in Nameable, k \in 1..MaxElements + 1 :
        Write(i, k, v) \/ Insert(i, k, v)
  \/ Rename

Spec == Init /\ [][Next]_vars
=============================================================================
