---------------------------- MODULE ObjectGraph ----------------------------
(* Graphs of objects: a function from the name of an object to a record    *)
(* whose field "fields" is the sequence of the names it points at.  Names  *)
(* that are not in the domain of the graph are not objects (none, nullptr).*)
EXTENDS Functions, Sequences

PointsAt(g, i) == Range(g[i].fields) \cap DOMAIN g

(* The objects that lie in every set that holds the names in r and is      *)
(* closed under the fields of its members.                                 *)
Reachable(g, r) ==
  {i \in DOMAIN g :
     \A S \in SUBSET DOMAIN g :
        ( /\ r \cap DOMAIN g \subseteq S
          /\ \A j \in S : PointsAt(g, j) \subseteq S )
        => i \in S}

Prune(g, r) == Restrict(g, Reachable(g, r))
=============================================================================
