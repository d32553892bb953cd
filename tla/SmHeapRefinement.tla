-------------------------- MODULE SmHeapRefinement --------------------------
(* SmHeap implements ObjectStore: the program that runs on the collector   *)
(* sees a store of objects that lives for ever.                            *)
EXTENDS SmHeap

NoneId == 0

(* An object is named by its address in from_space; during a collection    *)
(* its copy goes by the same name.                                         *)
Original(p) ==
  IF Contains(from_space, p) THEN p
  ELSE CHOOSE a \in FromObjects : mem[a].fwd = p

NameOf(p) == IF mem[p].type = "None" THEN NoneId ELSE Original(p)

(* The objects of from_space keep their fields until the swap. *)
Graph ==
  [a \in {b \in FromObjects : mem[b].type # "None"} |->
     [type |-> mem[a].type,
      fields |-> [i \in DOMAIN mem[a].fields |-> NameOf(mem[a].fields[i])]]]

(* roots[1], the heap's own none, is not held by the program. *)
HeldNames == [i \in 1..Len(roots) - 1 |-> NameOf(roots[i + 1])]

Objs == Prune(Graph, Range(HeldNames))

Store == INSTANCE ObjectStore WITH
  Ids <- Addresses,
  objs <- Objs,
  held <- HeldNames

(* The collector implements the store of objects of the stack machine. *)
ImplementsObjectStore == Store!Spec
=============================================================================
