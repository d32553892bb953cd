--------------------------- MODULE SmMachineProofs ---------------------------
(* The stack machine on every verified file: TypeOK, ReferencesEnd,         *)
(* AssignmentsReachAliases and ObjectsStay.                                 *)
(*                                                                          *)
(* The argument.  HeapTyped says of each object what its type promises, and *)
(* of a reference that it is to a value or to an older reference: so from   *)
(* every object a chain leads down to a value (ChainsEnd), and resolve_ref  *)
(* and change_ref, which are recursive functions, are what goes to its end  *)
(* (ResolveRefIs).  TInv adds the types of what the frames hold and, for    *)
(* the operands and the roots, the invariant of StackDisciplineProofs.      *)
(* Each instruction keeps it in one of three ways (StepTyped): it only adds *)
(* objects, or it writes to one array, or it assigns to the last reference  *)
(* of a chain.  The first two leave every chain alone (KeptEnds); of the    *)
(* third, ChangedEnds says what becomes of the chains that end there.       *)
(*                                                                          *)
(* The theorems assume that no collection meets a pointer that only a C++   *)
(* local holds (~CollectWhileHeld), for then the code does go wrong.        *)
EXTENDS StackDisciplineProofs, WellFoundedInduction

-----------------------------------------------------------------------------
(* Chains in a set of numbers.                                              *)

(* A set of naturals that is not empty has a least element.                 *)
LEMMA LeastOne ==
  ASSUME NEW T, T \subseteq Nat, T # {}
  PROVE  \E m \in T : \A y \in T : m <= y
<1>1. \E m \in T : \A y \in T : ~(<<y, m>> \in OpToRel(<, Nat))
  BY WFMin, NatLessThanWellFounded
<1>2. PICK m \in T : \A y \in T : ~(<<y, m>> \in OpToRel(<, Nat))
  BY <1>1
<1>3. \A y \in T : ~(y < m)
  BY <1>2 DEF OpToRel
<1> QED
  BY <1>3

(* Chains: from the elements of D outside Stop, next leads to an element    *)
(* that is smaller or in Stop.                                              *)
Chains(D, Stop, next) ==
  /\ D \subseteq Nat /\ Stop \subseteq D
  /\ \A x \in D \ Stop : next[x] \in D /\ (next[x] \in Stop \/ next[x] < x)

(* f gives the end of the chain from each element of D.                     *)
FollowsChains(f, D, Stop, next) ==
  f = [x \in D |-> IF x \in Stop THEN x ELSE f[next[x]]]

(* Elements that next leads to from x, x among them: those of every set     *)
(* that holds x and is closed under next.                                   *)
ClosedUnder(S, Stop, next) == \A z \in S \ Stop : next[z] \in S
Chain(x, D, Stop, next) ==
  {y \in D : \A S \in SUBSET D : x \in S /\ ClosedUnder(S, Stop, next) => y \in S}

(* The chain from x is x and the chain from the next.                       *)
LEMMA ChainStep ==
  ASSUME NEW D, NEW Stop, NEW next, Chains(D, Stop, next), NEW x \in D
  PROVE  /\ x \in Chain(x, D, Stop, next)
         /\ ClosedUnder(Chain(x, D, Stop, next), Stop, next)
         /\ x \notin Stop =>
              Chain(x, D, Stop, next) = {x} \cup Chain(next[x], D, Stop, next)
<1> DEFINE C(z) == Chain(z, D, Stop, next)
<1>1. \A z \in D : z \in C(z) /\ C(z) \subseteq D
  BY DEF Chain
<1>2. ASSUME NEW z \in D
      PROVE  ClosedUnder(C(z), Stop, next)
  <2>1. ASSUME NEW y \in C(z) \ Stop
        PROVE  next[y] \in C(z)
    <3>1. y \in D /\ next[y] \in D
      BY <2>1 DEF Chain, Chains
    <3>2. ASSUME NEW S \in SUBSET D, z \in S, ClosedUnder(S, Stop, next)
          PROVE  next[y] \in S
      <4>1. y \in S
        BY <3>2, <2>1 DEF Chain
      <4> QED
        BY <4>1, <3>2, <2>1 DEF ClosedUnder
    <3> QED
      BY <3>1, <3>2 DEF Chain
  <2> QED
    BY <2>1 DEF ClosedUnder
<1>3. ASSUME x \notin Stop
      PROVE  C(x) = {x} \cup C(next[x])
  <2>1. next[x] \in D
    BY <1>3 DEF Chains
  <2>2. C(x) \subseteq {x} \cup C(next[x])
    <3> DEFINE S == {x} \cup C(next[x])
    <3>1. S \in SUBSET D /\ x \in S
      BY <1>1, <2>1
    <3>2. ClosedUnder(S, Stop, next)
      BY <1>1, <1>2, <2>1 DEF ClosedUnder
    <3> HIDE DEF S
    <3>3. \A y \in C(x) : y \in S
      BY <3>1, <3>2 DEF Chain
    <3> QED
      BY <3>3 DEF S
  <2>3. C(next[x]) \subseteq C(x)
    <3>1. ASSUME NEW y \in C(next[x])
          PROVE  y \in C(x)
      <4>1. y \in D
        BY <1>1, <2>1
      <4>2. ASSUME NEW S \in SUBSET D, x \in S, ClosedUnder(S, Stop, next)
            PROVE  y \in S
        <5>1. next[x] \in S
          BY <4>2, <1>3 DEF ClosedUnder
        <5> QED
          BY <3>1, <4>2, <5>1 DEF Chain
      <4> QED
        BY <4>1, <4>2 DEF Chain
    <3> QED
      BY <3>1
  <2> QED
    BY <1>1, <2>2, <2>3
<1> QED
  BY <1>1, <1>2, <1>3

(* Every chain has an end, so there is a function that follows them.        *)
LEMMA ChainsHaveEnds ==
  ASSUME NEW D, NEW Stop, NEW next, Chains(D, Stop, next)
  PROVE  \E f : FollowsChains(f, D, Stop, next)
<1> DEFINE C(x) == Chain(x, D, Stop, next)
           end(x) == CHOOSE y : y \in C(x) \cap Stop
           f == [x \in D |-> IF x \in Stop THEN x ELSE end(x)]
<1>1. ASSUME NEW x \in D
      PROVE  \E y : y \in C(x) \cap Stop
  <2>1. SUFFICES ASSUME C(x) \cap Stop = {}
                 PROVE  FALSE
    OBVIOUS
  <2>2. x \in C(x) /\ ClosedUnder(C(x), Stop, next) /\ C(x) \subseteq D
    BY ChainStep DEF Chain
  <2> HIDE DEF C
  <2>3. PICK m \in C(x) : \A y \in C(x) : m <= y
    BY <2>2, LeastOne DEF Chains
  <2>4. m \in D \ Stop /\ next[m] \in C(x)
    BY <2>1, <2>2, <2>3 DEF ClosedUnder
  <2>5. next[m] < m
    BY <2>1, <2>4 DEF Chains
  <2>6. m <= next[m] /\ m \in Nat /\ next[m] \in Nat
    BY <2>2, <2>3, <2>4 DEF Chains
  <2> QED
    BY <2>5, <2>6
<1>2. ASSUME NEW x \in D, x \notin Stop
      PROVE  next[x] \in D /\ end(x) = IF next[x] \in Stop THEN next[x] ELSE end(next[x])
  <2>1. next[x] \in D
    BY <1>2 DEF Chains
  <2>2. C(x) = {x} \cup C(next[x])
    BY <1>2, ChainStep
  <2> HIDE DEF C
  <2>3. C(x) \cap Stop = C(next[x]) \cap Stop
    BY <1>2, <2>2
  <2>4. end(x) = end(next[x])
    BY <2>3
  <2>5. ASSUME NEW y \in Stop
        PROVE  end(y) = y
    <3> DEFINE S == {y}
    <3>1. y \in D /\ S \in SUBSET D /\ y \in S
      BY <2>5 DEF Chains
    <3>2. ClosedUnder(S, Stop, next)
      BY <2>5 DEF ClosedUnder
    <3>3. C(y) \subseteq S
      BY <3>1, <3>2 DEF C, Chain
    <3>4. y \in C(y)
      BY <3>1, ChainStep DEF C
    <3>5. C(y) \cap Stop = {y}
      BY <2>5, <3>3, <3>4
    <3> QED
      BY <3>5
  <2> HIDE DEF end
  <2>6. next[x] \in Stop => end(x) = next[x]
    BY <2>4, <2>5
  <2> QED
    BY <2>1, <2>4, <2>6
<1>3. FollowsChains(f, D, Stop, next)
  <2> HIDE DEF end
  <2>1. \A x \in D : (IF x \in Stop THEN x ELSE end(x)) = IF x \in Stop THEN x ELSE f[next[x]]
    <3>1. ASSUME NEW x \in D, x \notin Stop
          PROVE  end(x) = f[next[x]]
      BY <1>2, <3>1
    <3> QED
      BY <3>1
  <2>2. [x \in D |-> IF x \in Stop THEN x ELSE end(x)]
          = [x \in D |-> IF x \in Stop THEN x ELSE f[next[x]]]
    BY <2>1, Zenon
  <2> QED
    BY <2>2, Zenon DEF FollowsChains
<1> QED
  BY <1>3

(* Such a function ends in Stop everywhere, and there is only one.          *)
LEMMA ChainsEnd ==
  ASSUME NEW D, NEW Stop, NEW next, Chains(D, Stop, next), NEW f, FollowsChains(f, D, Stop, next)
  PROVE  /\ \A x \in D : f[x] \in Stop /\ f[x] = IF x \in Stop THEN x ELSE f[next[x]]
         /\ \A g : FollowsChains(g, D, Stop, next) => g = f
<1>1. \A g : FollowsChains(g, D, Stop, next) =>
               \A x \in D : g[x] = IF x \in Stop THEN x ELSE g[next[x]]
  BY Zenon DEF FollowsChains
<1>2. \A x \in D : f[x] = IF x \in Stop THEN x ELSE f[next[x]]
  BY <1>1
<1>3. \A x \in D : f[x] \in Stop
  <2> DEFINE B == {x \in D : f[x] \notin Stop}
  <2>1. SUFFICES ASSUME B # {}
                 PROVE  FALSE
    OBVIOUS
  <2>2. PICK m \in B : \A y \in B : m <= y
    <3>1. B \subseteq Nat
      BY DEF Chains
    <3> QED
      BY <2>1, <3>1, LeastOne
  <2>3. m \in D \ Stop /\ f[next[m]] \notin Stop
    BY <1>2, <2>2
  <2>4. next[m] \in D /\ (next[m] \in Stop \/ next[m] < m)
    BY <2>3 DEF Chains
  <2>5. next[m] \notin Stop
    BY <1>2, <2>3, <2>4
  <2>6. next[m] \in B /\ next[m] \in Nat /\ m \in Nat
    BY <2>3, <2>4 DEF Chains
  <2> HIDE DEF B
  <2> QED
    BY <2>2, <2>4, <2>5, <2>6
<1>4. ASSUME NEW g, FollowsChains(g, D, Stop, next)
      PROVE  g = f
  <2>1. \A x \in D : g[x] = IF x \in Stop THEN x ELSE g[next[x]]
    BY <1>1, <1>4
  <2> DEFINE B == {x \in D : g[x] # f[x]}
  <2>2. B = {}
    <3>1. SUFFICES ASSUME B # {}
                   PROVE  FALSE
      OBVIOUS
    <3>2. PICK m \in B : \A y \in B : m <= y
      <4>1. B \subseteq Nat
        BY DEF Chains
      <4> QED
        BY <3>1, <4>1, LeastOne
    <3>3. m \in D \ Stop /\ g[next[m]] # f[next[m]]
      BY <1>2, <2>1, <3>2
    <3>4. next[m] \in D /\ (next[m] \in Stop \/ next[m] < m)
      BY <3>3 DEF Chains
    <3>5. next[m] \notin Stop
      BY <1>2, <2>1, <3>3, <3>4
    <3>6. next[m] \in B /\ next[m] \in Nat /\ m \in Nat
      BY <3>3, <3>4 DEF Chains
    <3> HIDE DEF B
    <3> QED
      BY <3>2, <3>4, <3>5, <3>6
  <2>3. \A x \in D : g[x] = f[x]
    BY <2>2
  <2>4. DOMAIN f = D /\ DOMAIN g = D /\ f = [x \in D |-> f[x]] /\ g = [x \in D |-> g[x]]
    BY <1>4, Zenon DEF FollowsChains
  <2> QED
    BY <2>3, <2>4, Zenon
<1> QED
  BY <1>2, <1>3, <1>4

-----------------------------------------------------------------------------
(* The types of what is on the heap.  h is a heap, f a file.                *)

IsObject(h, v) == v \in 1..Len(h)
IsRef(h, v) == v \in 1..Len(h) /\ h[v].type = "Ref"
IsValue(h, v) == v \in 1..Len(h) /\ h[v].type # "Ref"
AllObjects(h, s) == IsSeq(s) /\ \A i \in 1..Len(s) : IsObject(h, s[i])
AllRefs(h, s) == IsSeq(s) /\ \A i \in 1..Len(s) : IsRef(h, s[i])

(* What object o may be as x.                                               *)
ReferenceTyped(h, x, o) ==
  /\ Len(o.refs) = 1
  /\ (IsValue(h, o.refs[1]) \/ (IsRef(h, o.refs[1]) /\ o.refs[1] < x))
AggregateTyped(h, o) ==
  AllRefs(h, o.refs) /\ IsSeq(o.keys) /\ Len(o.keys) = Len(o.refs)
FunctionTyped(f, h, o) ==
  /\ o.num \in DOMAIN f.functions
  /\ AllRefs(h, o.refs) /\ Len(o.refs) = Len(f.functions[o.num].capture)
Plain == {"None", "Int", "Bool", "String"}

ObjectTyped(f, h, x, o) ==
  /\ o = Object(o.type, o.num, o.keys, o.refs)
  /\ o.type \in Plain \cup {"Ref", "Array", "Tuple", "Func"}
  /\ o.type \in Plain => o.refs = << >>
  /\ o.type = "Ref" => ReferenceTyped(h, x, o) /\ IsSeq(o.refs)
  /\ o.type \in {"Array", "Tuple"} => AggregateTyped(h, o)
  /\ o.type = "Func" => FunctionTyped(f, h, o)

HeapTyped(f, h) ==
  /\ IsSeq(h)
  /\ IsValue(h, NoneId)
  /\ \A x \in 1..Len(h) : ObjectTyped(f, h, x, h[x])

(* h2 has the objects of h, of the types they were.                         *)
KeepsTypes(h, h2) ==
  /\ Len(h) <= Len(h2)
  /\ \A x \in 1..Len(h) : h2[x].type = h[x].type

(* What is a reference or a value stays one.                                *)
LEMMA KeptPointers ==
  ASSUME NEW h, IsSeq(h), NEW h2, IsSeq(h2), KeepsTypes(h, h2)
  PROVE  /\ \A v : IsObject(h, v) => IsObject(h2, v)
         /\ \A v : IsRef(h, v) => IsRef(h2, v)
         /\ \A v : IsValue(h, v) => IsValue(h2, v)
         /\ \A s : AllObjects(h, s) => AllObjects(h2, s)
         /\ \A s : AllRefs(h, s) => AllRefs(h2, s)
<1>1. Len(h) \in Nat /\ Len(h2) \in Nat /\ Len(h) <= Len(h2)
  BY SeqDomain DEF KeepsTypes
<1>2. \A v : v \in 1..Len(h) => v \in 1..Len(h2)
  BY <1>1
<1>3. /\ \A v : IsObject(h, v) => IsObject(h2, v)
      /\ \A v : IsRef(h, v) => IsRef(h2, v)
      /\ \A v : IsValue(h, v) => IsValue(h2, v)
  BY <1>2 DEF IsObject, IsRef, IsValue, KeepsTypes
<1>4. /\ \A s : AllObjects(h, s) => AllObjects(h2, s)
      /\ \A s : AllRefs(h, s) => AllRefs(h2, s)
  BY <1>3 DEF AllObjects, AllRefs
<1> QED
  BY <1>3, <1>4

(* So an object that has its type in a heap has it when the heap has grown. *)
LEMMA KeptObjects ==
  ASSUME NEW f, NEW h, IsSeq(h), NEW h2, IsSeq(h2), KeepsTypes(h, h2),
         NEW x, NEW o, ObjectTyped(f, h, x, o)
  PROVE  ObjectTyped(f, h2, x, o)
<1>1. /\ \A v : IsRef(h, v) => IsRef(h2, v)
      /\ \A v : IsValue(h, v) => IsValue(h2, v)
      /\ \A s : AllRefs(h, s) => AllRefs(h2, s)
  BY KeptPointers
<1>2. /\ o = Object(o.type, o.num, o.keys, o.refs)
      /\ o.type \in Plain \cup {"Ref", "Array", "Tuple", "Func"}
      /\ o.type \in Plain => o.refs = << >>
  BY DEF ObjectTyped
<1>3. o.type = "Ref" => ReferenceTyped(h2, x, o) /\ IsSeq(o.refs)
  BY <1>1 DEF ObjectTyped, ReferenceTyped
<1>4. o.type \in {"Array", "Tuple"} => AggregateTyped(h2, o)
  BY <1>1 DEF ObjectTyped, AggregateTyped
<1>5. o.type = "Func" => FunctionTyped(f, h2, o)
  BY <1>1 DEF ObjectTyped, FunctionTyped
<1> QED
  BY <1>2, <1>3, <1>4, <1>5 DEF ObjectTyped

(* How a step may change the heap: it adds objects, and may write to some   *)
(* that were there.                                                         *)
LEMMA HeapStep ==
  ASSUME NEW f, NEW h, HeapTyped(f, h), NEW h2, IsSeq(h2), Len(h) <= Len(h2),
         \A x \in 1..Len(h) : \/ h2[x] = h[x]
                              \/ h2[x].type = h[x].type /\ ObjectTyped(f, h2, x, h2[x]),
         \A x \in 1..Len(h2) : x > Len(h) => ObjectTyped(f, h2, x, h2[x])
  PROVE  HeapTyped(f, h2) /\ KeepsTypes(h, h2)
<1>1. IsSeq(h) /\ Len(h) \in Nat /\ Len(h2) \in Nat
  BY SeqDomain DEF HeapTyped
<1>2. KeepsTypes(h, h2)
  BY DEF KeepsTypes
<1>3. IsValue(h2, NoneId)
  BY <1>1, <1>2, KeptPointers DEF HeapTyped
<1>4. ASSUME NEW x \in 1..Len(h2)
      PROVE  ObjectTyped(f, h2, x, h2[x])
  <2>1. CASE x \in 1..Len(h)
    <3>1. ObjectTyped(f, h2, x, h[x])
      BY <1>1, <1>2, <2>1, KeptObjects DEF HeapTyped
    <3> QED
      BY <2>1, <3>1
  <2>2. CASE x \notin 1..Len(h)
    <3>1. x > Len(h)
      BY <1>1, <2>2
    <3> QED
      BY <3>1
  <2> QED
    BY <2>1, <2>2
<1> QED
  BY <1>2, <1>3, <1>4 DEF HeapTyped

(* Objects put at the end of the heap.                                      *)
LEMMA HeapGrows ==
  ASSUME NEW f, NEW h, HeapTyped(f, h), NEW objects, IsSeq(objects),
         NEW h2, h2 = h \o objects,
         \A i \in 1..Len(objects) : ObjectTyped(f, h2, Len(h) + i, objects[i])
  PROVE  /\ HeapTyped(f, h2) /\ KeepsTypes(h, h2) /\ Len(h2) = Len(h) + Len(objects)
         /\ \A x \in 1..Len(h) : h2[x] = h[x]
<1>1. IsSeq(h) /\ Len(h) \in Nat /\ Len(objects) \in Nat
  BY SeqDomain DEF HeapTyped
<1>2. IsSeq(h2) /\ Len(h2) = Len(h) + Len(objects)
  BY <1>1, SeqConcat
<1>3. \A x \in 1..Len(h) : h2[x] = h[x]
  BY <1>1, SeqConcat
<1>4. \A i \in 1..Len(objects) : h2[Len(h) + i] = objects[i]
  BY <1>1, SeqConcat
<1>5. ASSUME NEW x \in 1..Len(h2), x > Len(h)
      PROVE  ObjectTyped(f, h2, x, h2[x])
  <2>1. x - Len(h) \in 1..Len(objects) /\ Len(h) + (x - Len(h)) = x
    BY <1>1, <1>2, <1>5
  <2>2. /\ h2[Len(h) + (x - Len(h))] = objects[x - Len(h)]
        /\ ObjectTyped(f, h2, Len(h) + (x - Len(h)), objects[x - Len(h)])
    BY <1>4, <2>1
  <2> QED
    BY <2>1, <2>2
<1>6. Len(h) <= Len(h2)
  BY <1>1, <1>2
<1>7. HeapTyped(f, h2) /\ KeepsTypes(h, h2)
  BY <1>2, <1>3, <1>5, <1>6, HeapStep
<1> QED
  BY <1>2, <1>3, <1>7

(* The objects that hold no pointer, and a reference.                       *)
LEMMA SimpleObjects ==
  ASSUME NEW f, NEW h
  PROVE  /\ \A x, v : ObjectTyped(f, h, x, MakeInt(v))
         /\ \A x, v : ObjectTyped(f, h, x, MakeBool(v))
         /\ \A x, v : IsValue(h, v) => ObjectTyped(f, h, x, MakeRef(v))
         /\ \A x, v : IsRef(h, v) /\ v < x => ObjectTyped(f, h, x, MakeRef(v))
         /\ \A x, num, keys, type : type \in Plain =>
               ObjectTyped(f, h, x, Object(type, num, keys, << >>))
<1>1. ASSUME NEW type, NEW num, NEW keys, NEW refs
      PROVE  LET o == Object(type, num, keys, refs)
             IN  /\ o.type = type /\ o.num = num /\ o.keys = keys /\ o.refs = refs
                 /\ o = Object(o.type, o.num, o.keys, o.refs)
  BY DEF Object
<1>2. ASSUME NEW x, NEW num, NEW keys, NEW type \in Plain
      PROVE  ObjectTyped(f, h, x, Object(type, num, keys, << >>))
  <2> DEFINE o == Object(type, num, keys, << >>)
  <2>1. o.type = type /\ o.refs = << >> /\ o = Object(o.type, o.num, o.keys, o.refs)
    BY <1>1
  <2> HIDE DEF o
  <2>2. o.type \notin {"Ref", "Array", "Tuple", "Func"}
    BY <2>1 DEF Plain
  <2>3. ObjectTyped(f, h, x, o)
    BY <2>1, <2>2 DEF ObjectTyped
  <2> QED
    BY <2>3 DEF o
<1>3. ASSUME NEW x, NEW v, IsValue(h, v) \/ (IsRef(h, v) /\ v < x)
      PROVE  ObjectTyped(f, h, x, MakeRef(v))
  <2> DEFINE o == Object("Ref", 0, << >>, <<v>>)
  <2>1. o.type = "Ref" /\ o.refs = <<v>> /\ o = Object(o.type, o.num, o.keys, o.refs)
    BY <1>1
  <2> HIDE DEF o
  <2>2. IsSeq(<<v>>) /\ Len(<<v>>) = 1 /\ <<v>>[1] = v
    BY ShortSeqs
  <2>3. ReferenceTyped(h, x, o) /\ IsSeq(o.refs)
    BY <1>3, <2>1, <2>2 DEF ReferenceTyped
  <2>4. ObjectTyped(f, h, x, o)
    BY <2>1, <2>3 DEF ObjectTyped, Plain
  <2> QED
    BY <2>4 DEF o, MakeRef
<1>4. "Int" \in Plain /\ "Bool" \in Plain
  BY DEF Plain
<1>5. \A x, v : ObjectTyped(f, h, x, MakeInt(v))
  BY <1>2, <1>4 DEF MakeInt
<1>6. \A x, v : ObjectTyped(f, h, x, MakeBool(v))
  BY <1>2, <1>4 DEF MakeBool
<1>7. \A x, num, keys, type : type \in Plain => ObjectTyped(f, h, x, Object(type, num, keys, << >>))
  BY <1>2
<1>8. \A x, v : (IsValue(h, v) \/ (IsRef(h, v) /\ v < x)) => ObjectTyped(f, h, x, MakeRef(v))
  BY <1>3
<1> QED
  BY <1>5, <1>6, <1>7, <1>8, Zenon

-----------------------------------------------------------------------------
(* Where references lead.  The references of a typed heap form chains, and  *)
(* resolve_ref and change_ref go to their ends.                             *)

RefsOf(h) == {x \in DOMAIN h : h[x].type = "Ref"}
NextIn(h) == [x \in RefsOf(h) |-> h[x].refs[1]]
Ids(h) == {Stale} \cup DOMAIN h
LastRefs(h) == {x \in RefsOf(h) : NextIn(h)[x] \notin RefsOf(h)}

(* The ends of chains as resolve_ref and as change_ref go to them.          *)
Resolves(f, h) == FollowsChains(f, Ids(h), Ids(h) \ RefsOf(h), NextIn(h))
Lasts(f, h) == FollowsChains(f, RefsOf(h), LastRefs(h), NextIn(h))
EndIn(h) == CHOOSE f : Resolves(f, h)
LastIn(h) == CHOOSE f : Lasts(f, h)

(* That is what the operators of the machine are.                           *)
LEMMA ResolveRefIs ==
  /\ \A v : ResolveRef(v) = EndIn(heap)[v]
  /\ \A v : LastRef(v) = LastIn(heap)[v]
<1>1. \A f : FollowsChains(f, Ids(heap), Ids(heap) \ RefsOf(heap), NextIn(heap))
               <=> f = [x \in {Stale} \cup DOMAIN heap |->
                           IF x \in Refs THEN f[Referent(x)] ELSE x]
  <2>1. Refs = RefsOf(heap) /\ \A x \in Refs : NextIn(heap)[x] = Referent(x)
    BY DEF Refs, RefsOf, NextIn, Referent
  <2>2. ASSUME NEW f, NEW x \in Ids(heap)
        PROVE  (IF x \in Ids(heap) \ RefsOf(heap) THEN x ELSE f[NextIn(heap)[x]])
                 = IF x \in Refs THEN f[Referent(x)] ELSE x
    BY <2>1
  <2>3. ASSUME NEW f
        PROVE  [x \in Ids(heap) |-> IF x \in Ids(heap) \ RefsOf(heap) THEN x ELSE f[NextIn(heap)[x]]]
                 = [x \in Ids(heap) |-> IF x \in Refs THEN f[Referent(x)] ELSE x]
    BY <2>2, Zenon
  <2> QED
    BY <2>3, Zenon DEF FollowsChains, Ids
<1>2. ASSUME NEW v
      PROVE  ResolveRef(v) = EndIn(heap)[v]
  <2>1. (CHOOSE f : Resolves(f, heap))
          = CHOOSE f : f = [x \in {Stale} \cup DOMAIN heap |->
                              IF x \in Refs THEN f[Referent(x)] ELSE x]
    BY <1>1, Zenon DEF Resolves
  <2> QED
    BY <2>1, Zenon DEF ResolveRef, EndIn
<1>3. \A f : FollowsChains(f, RefsOf(heap), LastRefs(heap), NextIn(heap))
               <=> f = [x \in Refs |-> IF Referent(x) \in Refs THEN f[Referent(x)] ELSE x]
  <2>1. Refs = RefsOf(heap) /\ \A x \in Refs : NextIn(heap)[x] = Referent(x)
    BY DEF Refs, RefsOf, NextIn, Referent
  <2>2. ASSUME NEW f, NEW x \in Refs
        PROVE  (IF x \in LastRefs(heap) THEN x ELSE f[NextIn(heap)[x]])
                 = IF Referent(x) \in Refs THEN f[Referent(x)] ELSE x
    BY <2>1 DEF LastRefs
  <2>3. ASSUME NEW f
        PROVE  [x \in Refs |-> IF x \in LastRefs(heap) THEN x ELSE f[NextIn(heap)[x]]]
                 = [x \in Refs |-> IF Referent(x) \in Refs THEN f[Referent(x)] ELSE x]
    BY <2>2, Zenon
  <2> QED
    BY <2>1, <2>3, Zenon DEF FollowsChains
<1>4. ASSUME NEW v
      PROVE  LastRef(v) = LastIn(heap)[v]
  BY <1>3, Zenon DEF LastRef, LastIn, Lasts
<1> QED
  BY <1>2, <1>4, Zenon

(* A reference of a typed heap is to a value or to an older reference.      *)
LEMMA TypedReference ==
  ASSUME NEW f, NEW h, HeapTyped(f, h), NEW x, IsRef(h, x)
  PROVE  LET y == h[x].refs[1]
         IN  IsValue(h, y) \/ (IsRef(h, y) /\ y < x)
<1>1. ObjectTyped(f, h, x, h[x]) /\ h[x].type = "Ref"
  BY DEF HeapTyped, IsRef
<1> QED
  BY <1>1 DEF ObjectTyped, ReferenceTyped

(* So the chains of references of a typed heap have ends.                   *)
LEMMA TypedChains ==
  ASSUME NEW f, NEW h, HeapTyped(f, h)
  PROVE  /\ Chains(Ids(h), Ids(h) \ RefsOf(h), NextIn(h))
         /\ Chains(RefsOf(h), LastRefs(h), NextIn(h))
         /\ \A v : v \in RefsOf(h) <=> IsRef(h, v)
         /\ \A v : v \in DOMAIN h <=> IsObject(h, v)
         /\ \A v : IsValue(h, v) => v \in Ids(h) \ RefsOf(h)
<1>1. IsSeq(h) /\ DOMAIN h = 1..Len(h) /\ Len(h) \in Nat
  BY SeqDomain DEF HeapTyped
<1>2. /\ \A v : v \in RefsOf(h) <=> IsRef(h, v)
      /\ \A v : v \in DOMAIN h <=> IsObject(h, v)
      /\ \A v : IsValue(h, v) => v \in Ids(h) \ RefsOf(h)
  BY <1>1 DEF RefsOf, IsRef, IsObject, IsValue, Ids
<1>3. Ids(h) \subseteq Nat /\ RefsOf(h) \subseteq Ids(h)
  BY <1>1 DEF Ids, RefsOf, Stale
<1>4. ASSUME NEW x \in RefsOf(h)
      PROVE  LET y == NextIn(h)[x]
             IN  y \in Ids(h) \ RefsOf(h) \/ (y \in RefsOf(h) /\ y < x)
  <2>1. NextIn(h)[x] = h[x].refs[1]
    BY DEF NextIn
  <2>2. IsRef(h, x)
    BY <1>2
  <2> QED
    BY <1>2, <2>1, <2>2, TypedReference
<1>5. Chains(Ids(h), Ids(h) \ RefsOf(h), NextIn(h))
  BY <1>3, <1>4 DEF Chains
<1>6. Chains(RefsOf(h), LastRefs(h), NextIn(h))
  <2>1. \A x \in RefsOf(h) \ LastRefs(h) : NextIn(h)[x] \in RefsOf(h)
    BY DEF LastRefs
  <2> QED
    BY <1>3, <1>4, <2>1 DEF Chains, LastRefs
<1> QED
  BY <1>2, <1>5, <1>6

(* resolve_ref ends at a value, and change_ref at a reference to a value.   *)
LEMMA TypedEnds ==
  ASSUME NEW f, NEW h, HeapTyped(f, h)
  PROVE  /\ Resolves(EndIn(h), h) /\ Lasts(LastIn(h), h)
         /\ \A v : IsValue(h, v) => EndIn(h)[v] = v
         /\ \A v : IsRef(h, v) => EndIn(h)[v] = EndIn(h)[NextIn(h)[v]]
         /\ \A v : IsObject(h, v) => IsValue(h, EndIn(h)[v])
         /\ \A v : IsRef(h, v) =>
               /\ IsRef(h, LastIn(h)[v]) /\ IsValue(h, NextIn(h)[LastIn(h)[v]])
               /\ LastIn(h)[v] = IF IsRef(h, NextIn(h)[v]) THEN LastIn(h)[NextIn(h)[v]] ELSE v
<1>1. /\ Chains(Ids(h), Ids(h) \ RefsOf(h), NextIn(h))
      /\ Chains(RefsOf(h), LastRefs(h), NextIn(h))
      /\ \A v : v \in RefsOf(h) <=> IsRef(h, v)
      /\ \A v : v \in DOMAIN h <=> IsObject(h, v)
      /\ \A v : IsValue(h, v) => v \in Ids(h) \ RefsOf(h)
  BY TypedChains
<1>2. Resolves(EndIn(h), h)
  BY <1>1, ChainsHaveEnds DEF EndIn, Resolves
<1>3. Lasts(LastIn(h), h)
  BY <1>1, ChainsHaveEnds DEF LastIn, Lasts
<1>4. \A x \in Ids(h) : /\ EndIn(h)[x] \in Ids(h) \ RefsOf(h)
                        /\ EndIn(h)[x] = IF x \in Ids(h) \ RefsOf(h) THEN x
                                         ELSE EndIn(h)[NextIn(h)[x]]
  BY <1>1, <1>2, ChainsEnd DEF Resolves
<1>5. \A x \in RefsOf(h) : /\ LastIn(h)[x] \in LastRefs(h)
                           /\ LastIn(h)[x] = IF x \in LastRefs(h) THEN x
                                             ELSE LastIn(h)[NextIn(h)[x]]
  BY <1>1, <1>3, ChainsEnd DEF Lasts
<1>6. /\ \A v : IsValue(h, v) => EndIn(h)[v] = v
      /\ \A v : IsRef(h, v) => EndIn(h)[v] = EndIn(h)[NextIn(h)[v]]
  <2>1. \A v : IsRef(h, v) => v \in Ids(h) /\ v \notin Ids(h) \ RefsOf(h)
    BY <1>1 DEF Ids, IsRef, IsObject
  <2> QED
    BY <1>1, <1>4, <2>1
<1>7. ASSUME NEW v, IsRef(h, v)
      PROVE  /\ IsRef(h, LastIn(h)[v]) /\ IsValue(h, NextIn(h)[LastIn(h)[v]])
             /\ LastIn(h)[v] = IF IsRef(h, NextIn(h)[v]) THEN LastIn(h)[NextIn(h)[v]] ELSE v
  <2>1. v \in RefsOf(h) /\ LastIn(h)[v] \in LastRefs(h)
    BY <1>1, <1>5, <1>7
  <2>2. IsRef(h, LastIn(h)[v]) /\ ~IsRef(h, NextIn(h)[LastIn(h)[v]])
    BY <1>1, <2>1 DEF LastRefs
  <2>3. NextIn(h)[LastIn(h)[v]] = h[LastIn(h)[v]].refs[1]
    BY <2>1 DEF NextIn, LastRefs
  <2>4. IsValue(h, NextIn(h)[LastIn(h)[v]])
    BY <2>2, <2>3, TypedReference
  <2>5. v \in LastRefs(h) <=> ~IsRef(h, NextIn(h)[v])
    BY <1>1, <2>1 DEF LastRefs
  <2> QED
    BY <1>5, <2>1, <2>2, <2>4, <2>5
<1>8. ASSUME NEW v, IsObject(h, v)
      PROVE  IsValue(h, EndIn(h)[v])
  <2>1. v \in Ids(h) /\ EndIn(h)[v] \in Ids(h) \ RefsOf(h)
    BY <1>1, <1>4, <1>8 DEF Ids
  <2>2. SUFFICES EndIn(h)[v] # Stale
    BY <1>1, <2>1 DEF Ids, IsObject, IsValue, IsRef
  <2> DEFINE B == {x \in DOMAIN h : EndIn(h)[x] = Stale}
  <2>3. B = {}
    <3>1. SUFFICES ASSUME B # {}
                   PROVE  FALSE
      OBVIOUS
    <3>2. B \subseteq Nat /\ Stale \notin DOMAIN h
      BY <1>1 DEF IsObject, Stale
    <3>3. PICK m \in B : \A y \in B : m <= y
      BY <3>1, <3>2, LeastOne
    <3>4. m \in DOMAIN h /\ EndIn(h)[m] = Stale /\ m # Stale
      BY <3>2, <3>3
    <3>5. IsRef(h, m)
      BY <1>1, <1>6, <3>4 DEF IsObject, IsRef, IsValue
    <3>6. NextIn(h)[m] = h[m].refs[1]
      BY <1>1, <3>5 DEF NextIn
    <3>7. EndIn(h)[NextIn(h)[m]] = Stale
      BY <1>6, <3>4, <3>5
    <3>8. \/ IsValue(h, NextIn(h)[m])
          \/ IsRef(h, NextIn(h)[m]) /\ NextIn(h)[m] < m
      BY <3>5, <3>6, TypedReference
    <3>9. NextIn(h)[m] \in DOMAIN h
      BY <1>1, <3>8 DEF IsObject, IsRef, IsValue
    <3>10. ~IsValue(h, NextIn(h)[m])
      BY <1>6, <3>2, <3>7, <3>9
    <3>11. NextIn(h)[m] \in B /\ NextIn(h)[m] < m
      BY <3>7, <3>8, <3>9, <3>10
    <3>12. m \in Nat /\ NextIn(h)[m] \in Nat
      BY <3>2, <3>3, <3>11
    <3> HIDE DEF B
    <3> QED
      BY <3>3, <3>11, <3>12
  <2> QED
    BY <1>1, <1>8, <2>3
<1> QED
  BY <1>2, <1>3, <1>6, <1>7, <1>8

(* Writing the refs of one object.                                          *)
WithRefs(h, x, r) == [h EXCEPT ![x].refs = r]

(* It leaves the others, and the rest of that one.                          *)
LEMMA WrittenRefs ==
  ASSUME NEW h, IsSeq(h), NEW x \in 1..Len(h), NEW r, NEW h2, h2 = WithRefs(h, x, r),
         h[x] = Object(h[x].type, h[x].num, h[x].keys, h[x].refs)
  PROVE  /\ IsSeq(h2) /\ Len(h2) = Len(h)
         /\ \A y \in 1..Len(h) : y # x => h2[y] = h[y]
         /\ h2[x] = Object(h[x].type, h[x].num, h[x].keys, r)
<1> DEFINE o == [h[x] EXCEPT !.refs = r]
<1>1. h2 = [h EXCEPT ![x] = o]
  BY DEF WithRefs
<1>2. o = Object(h[x].type, h[x].num, h[x].keys, r)
  BY DEF Object
<1> HIDE DEF o
<1> DEFINE t == [h EXCEPT ![x] = o]
<1>3. IsSeq(t)
  BY SeqExcept
<1>4. Len(t) = Len(h)
  BY SeqExcept
<1>5. \A j \in 1..Len(h) : t[j] = IF j = x THEN o ELSE h[j]
  BY SeqExcept
<1>6. h2 = t
  BY <1>1
<1> HIDE DEF t
<1> QED
  BY <1>2, <1>3, <1>4, <1>5, <1>6

(* What change_ref does to a typed heap: the last reference of the chain    *)
(* from t is to v.                                                          *)
LEMMA ChangedHeap ==
  ASSUME NEW f, NEW h, HeapTyped(f, h), NEW t, IsRef(h, t), NEW v, IsValue(h, v),
         NEW h2, h2 = WithRefs(h, LastIn(h)[t], <<v>>)
  PROVE  /\ HeapTyped(f, h2) /\ KeepsTypes(h, h2) /\ Len(h2) = Len(h)
         /\ IsRef(h, LastIn(h)[t])
         /\ \A x \in 1..Len(h) : x # LastIn(h)[t] => h2[x] = h[x]
         /\ \A x : IsRef(h, x) =>
               /\ IsRef(h2, x)
               /\ NextIn(h2)[x] = IF x = LastIn(h)[t] THEN v ELSE NextIn(h)[x]
<1> PICK l : l = LastIn(h)[t]
  OBVIOUS
<1>1. IsRef(h, l)
  BY TypedEnds
<1>2. IsSeq(h) /\ Len(h) \in Nat /\ DOMAIN h = 1..Len(h)
  BY SeqDomain DEF HeapTyped
<1>3. l \in 1..Len(h) /\ h[l].type = "Ref" /\ ObjectTyped(f, h, l, h[l])
  BY <1>1 DEF IsRef, HeapTyped
<1>4. h[l] = Object(h[l].type, h[l].num, h[l].keys, h[l].refs)
  BY <1>3 DEF ObjectTyped
<1>5. h2 = WithRefs(h, l, <<v>>)
  OBVIOUS
<1>6. /\ IsSeq(h2) /\ Len(h2) = Len(h)
      /\ \A y \in 1..Len(h) : y # l => h2[y] = h[y]
      /\ h2[l] = Object(h[l].type, h[l].num, h[l].keys, <<v>>)
  BY <1>2, <1>3, <1>4, <1>5, WrittenRefs
<1>7. /\ h2[l].type = "Ref" /\ h2[l].refs = <<v>>
      /\ h2[l] = Object(h2[l].type, h2[l].num, h2[l].keys, h2[l].refs)
  BY <1>3, <1>6 DEF Object
<1>8. KeepsTypes(h, h2)
  BY <1>2, <1>3, <1>6, <1>7 DEF KeepsTypes
<1>9. IsValue(h2, v) /\ \A x : IsRef(h, x) => IsRef(h2, x)
  BY <1>2, <1>6, <1>8, KeptPointers
<1>10. ObjectTyped(f, h2, l, h2[l])
  <2>1. IsSeq(<<v>>) /\ Len(<<v>>) = 1 /\ <<v>>[1] = v
    BY ShortSeqs
  <2>2. ReferenceTyped(h2, l, h2[l]) /\ IsSeq(h2[l].refs)
    BY <1>7, <1>9, <2>1 DEF ReferenceTyped
  <2>3. "Ref" \notin Plain
    BY DEF Plain
  <2> QED
    BY <1>7, <2>2, <2>3 DEF ObjectTyped
<1>11. HeapTyped(f, h2)
  <2>1. \A x \in 1..Len(h) : \/ h2[x] = h[x]
                             \/ h2[x].type = h[x].type /\ ObjectTyped(f, h2, x, h2[x])
    BY <1>3, <1>6, <1>7, <1>10
  <2>2. \A x \in 1..Len(h2) : ~(x > Len(h))
    BY <1>2, <1>6
  <2>3. Len(h) <= Len(h2)
    BY <1>2, <1>6
  <2> QED
    BY <1>6, <2>1, <2>2, <2>3, HeapStep
<1>12. ASSUME NEW x, IsRef(h, x)
       PROVE  IsRef(h2, x) /\ NextIn(h2)[x] = IF x = l THEN v ELSE NextIn(h)[x]
  <2>1. x \in 1..Len(h) /\ IsRef(h2, x)
    BY <1>9, <1>12 DEF IsRef
  <2>2. x \in RefsOf(h) /\ x \in RefsOf(h2)
    BY <1>11, <1>12, <2>1, TypedChains
  <2>3. NextIn(h)[x] = h[x].refs[1] /\ NextIn(h2)[x] = h2[x].refs[1]
    BY <2>2 DEF NextIn
  <2>4. <<v>>[1] = v
    OBVIOUS
  <2> QED
    BY <1>6, <1>7, <2>1, <2>3, <2>4
<1> QED
  BY <1>1, <1>6, <1>8, <1>11, <1>12

(* The references that end where t does lead to v, and the others where     *)
(* they led; and none ends at another reference.                            *)
LEMMA ChangedEnds ==
  ASSUME NEW f, NEW h, HeapTyped(f, h), NEW t, IsRef(h, t), NEW v, IsValue(h, v),
         NEW h2, h2 = WithRefs(h, LastIn(h)[t], <<v>>),
         NEW x, IsRef(h, x)
  PROVE  /\ LastIn(h2)[x] = LastIn(h)[x]
         /\ EndIn(h2)[x] = IF LastIn(h)[x] = LastIn(h)[t] THEN v ELSE EndIn(h)[x]
<1> PICK l, L, E : l = LastIn(h)[t] /\ L = LastIn(h) /\ E = EndIn(h)
  OBVIOUS
<1> DEFINE E2 == [y \in Ids(h) |-> IF y \in RefsOf(h) /\ L[y] = l THEN v ELSE E[y]]
<1>1. /\ HeapTyped(f, h2) /\ KeepsTypes(h, h2) /\ Len(h2) = Len(h)
      /\ IsRef(h, l)
      /\ \A y : IsRef(h, y) =>
            IsRef(h2, y) /\ NextIn(h2)[y] = IF y = l THEN v ELSE NextIn(h)[y]
  BY ChangedHeap
<1>2. /\ \A y : y \in RefsOf(h) <=> IsRef(h, y)
      /\ \A y : y \in RefsOf(h2) <=> IsRef(h2, y)
      /\ \A y : y \in DOMAIN h <=> IsObject(h, y)
      /\ \A y : y \in DOMAIN h2 <=> IsObject(h2, y)
      /\ \A y : IsValue(h, y) => y \in Ids(h) \ RefsOf(h)
  BY <1>1, TypedChains
<1>3. RefsOf(h2) = RefsOf(h) /\ DOMAIN h2 = DOMAIN h /\ Ids(h2) = Ids(h)
  <2>1. \A y : IsObject(h2, y) <=> IsObject(h, y)
    BY <1>1 DEF IsObject
  <2>2. \A y : IsRef(h2, y) <=> IsRef(h, y)
    BY <1>1 DEF IsRef, KeepsTypes
  <2>3. RefsOf(h2) = RefsOf(h)
    BY <1>2, <2>2
  <2>4. DOMAIN h2 = DOMAIN h
    BY <1>2, <2>1
  <2> QED
    BY <2>3, <2>4 DEF Ids
<1>4. /\ Resolves(E, h) /\ Lasts(L, h)
      /\ \A y : IsValue(h, y) => E[y] = y
      /\ \A y : IsRef(h, y) => E[y] = E[NextIn(h)[y]]
      /\ \A y : IsRef(h, y) =>
            /\ IsRef(h, L[y]) /\ IsValue(h, NextIn(h)[L[y]])
            /\ L[y] = IF IsRef(h, NextIn(h)[y]) THEN L[NextIn(h)[y]] ELSE y
  BY TypedEnds
<1>5. ASSUME NEW y \in RefsOf(h)
      PROVE  IsValue(h, NextIn(h)[y]) \/ IsRef(h, NextIn(h)[y])
  <2>1. NextIn(h)[y] = h[y].refs[1]
    BY DEF NextIn
  <2> QED
    BY <1>2, <2>1, TypedReference
<1>6. IsValue(h, NextIn(h)[l]) /\ ~IsRef(h, NextIn(h)[l]) /\ ~IsRef(h, v)
  BY <1>4 DEF IsValue, IsRef
<1>7. Lasts(L, h2)
  <2>1. \A y \in RefsOf(h) : y \in LastRefs(h2) <=> y \in LastRefs(h)
    BY <1>1, <1>2, <1>3, <1>6 DEF LastRefs
  <2>2. ASSUME NEW y \in RefsOf(h)
        PROVE  (IF y \in LastRefs(h) THEN y ELSE L[NextIn(h)[y]])
                 = IF y \in LastRefs(h2) THEN y ELSE L[NextIn(h2)[y]]
    <3>1. CASE y = l
      <4>1. y \in LastRefs(h)
        BY <1>2, <1>6, <3>1 DEF LastRefs
      <4> QED
        BY <2>1, <4>1
    <3>2. CASE y # l
      BY <1>1, <1>2, <2>1, <3>2
    <3> QED
      BY <3>1, <3>2
  <2>3. L = [y \in RefsOf(h) |-> IF y \in LastRefs(h) THEN y ELSE L[NextIn(h)[y]]]
    BY <1>4, Zenon DEF Lasts, FollowsChains
  <2>4. L = [y \in RefsOf(h) |-> IF y \in LastRefs(h2) THEN y ELSE L[NextIn(h2)[y]]]
    BY <2>2, <2>3, Zenon
  <2> QED
    BY <1>3, <2>4, Zenon DEF Lasts, FollowsChains
<1>8. Resolves(E2, h2)
  <2>1. ASSUME NEW y \in Ids(h)
        PROVE  E2[y] = IF y \in Ids(h2) \ RefsOf(h2) THEN y ELSE E2[NextIn(h2)[y]]
    <3>1. CASE y \notin RefsOf(h)
      <4>1. E[y] = y
        BY <1>4, <3>1, Zenon DEF Resolves, FollowsChains
      <4> QED
        BY <1>3, <3>1, <4>1
    <3>2. CASE y \in RefsOf(h)
      <4>1. IsRef(h, y) /\ y \notin Ids(h2) \ RefsOf(h2)
        BY <1>2, <1>3, <3>2
      <4>2. CASE y = l
        <5>1. NextIn(h2)[y] = v /\ L[y] = l
          BY <1>1, <1>4, <1>6, <4>1, <4>2
        <5>2. v \in Ids(h) \ RefsOf(h) /\ E[v] = v
          BY <1>2, <1>4
        <5> QED
          BY <3>2, <4>1, <5>1, <5>2
      <4>3. CASE y # l
        <5> DEFINE z == NextIn(h)[y]
        <5>1. NextIn(h2)[y] = z /\ E[y] = E[z]
          BY <1>1, <1>4, <4>1, <4>3
        <5>2. (IsValue(h, z) \/ IsRef(h, z)) /\ L[y] = IF IsRef(h, z) THEN L[z] ELSE y
          BY <1>4, <1>5, <3>2, <4>1
        <5>3. z \in Ids(h)
          BY <1>2, <5>2 DEF Ids, IsObject, IsRef, IsValue
        <5> HIDE DEF z
        <5>4. CASE IsRef(h, z)
          <6>1. L[y] = L[z] /\ z \in RefsOf(h)
            BY <1>2, <5>2, <5>4
          <6> QED
            BY <3>2, <4>1, <5>1, <5>3, <6>1
        <5>5. CASE ~IsRef(h, z)
          <6>1. L[y] # l /\ z \notin RefsOf(h)
            BY <1>2, <4>3, <5>2, <5>5
          <6> QED
            BY <3>2, <4>1, <5>1, <5>3, <6>1
        <5> QED
          BY <5>4, <5>5
      <4> QED
        BY <4>2, <4>3
    <3> QED
      BY <3>1, <3>2
  <2>2. E2 = [y \in Ids(h) |-> E2[y]]
    OBVIOUS
  <2> HIDE DEF E2
  <2>3. E2 = [y \in Ids(h) |-> IF y \in Ids(h2) \ RefsOf(h2) THEN y ELSE E2[NextIn(h2)[y]]]
    BY <2>1, <2>2, Zenon
  <2> QED
    BY <1>3, <2>3, Zenon DEF Resolves, FollowsChains
<1>9. LastIn(h2) = L /\ EndIn(h2) = E2
  <2>1. /\ Chains(Ids(h2), Ids(h2) \ RefsOf(h2), NextIn(h2))
        /\ Chains(RefsOf(h2), LastRefs(h2), NextIn(h2))
    BY <1>1, TypedChains
  <2>2. Resolves(EndIn(h2), h2) /\ Lasts(LastIn(h2), h2)
    BY <1>1, TypedEnds
  <2> HIDE DEF E2
  <2>3. LastIn(h2) = L
    BY <1>7, <2>1, <2>2, ChainsEnd DEF Lasts
  <2>4. EndIn(h2) = E2
    BY <1>8, <2>1, <2>2, ChainsEnd DEF Resolves
  <2> QED
    BY <2>3, <2>4
<1>10. x \in RefsOf(h) /\ x \in Ids(h)
  BY <1>2 DEF Ids, IsRef, IsObject
<1>11. E2[x] = IF L[x] = l THEN v ELSE E[x]
  BY <1>10
<1> HIDE DEF E2
<1> QED
  BY <1>9, <1>11

(* Where no reference is written to, all lead where they led.               *)
LEMMA KeptEnds ==
  ASSUME NEW f, NEW h, HeapTyped(f, h), NEW h2, HeapTyped(f, h2), KeepsTypes(h, h2),
         \A x : IsRef(h, x) => h2[x] = h[x]
  PROVE  \A x : IsRef(h, x) => LastIn(h2)[x] = LastIn(h)[x] /\ EndIn(h2)[x] = EndIn(h)[x]
<1> DEFINE B == {x \in RefsOf(h) : LastIn(h2)[x] # LastIn(h)[x] \/ EndIn(h2)[x] # EndIn(h)[x]}
<1>1. /\ \A y : y \in RefsOf(h) <=> IsRef(h, y)
      /\ \A y : y \in RefsOf(h2) <=> IsRef(h2, y)
      /\ RefsOf(h) \subseteq Nat
  BY TypedChains DEF Chains
<1>2. /\ \A y : IsRef(h, y) => IsRef(h2, y)
      /\ \A y : IsValue(h, y) => IsValue(h2, y)
  BY KeptPointers DEF HeapTyped
<1>3. B = {}
  <2>1. SUFFICES ASSUME B # {}
                 PROVE  FALSE
    OBVIOUS
  <2>2. PICK m \in B : \A y \in B : m <= y
    BY <1>1, <2>1, LeastOne
  <2> DEFINE z == NextIn(h)[m]
  <2>3. IsRef(h, m) /\ IsRef(h2, m) /\ m \in Nat
    BY <1>1, <1>2, <2>2
  <2>4. z = h[m].refs[1] /\ NextIn(h2)[m] = h2[m].refs[1]
    BY <1>1, <2>3 DEF NextIn
  <2>5. NextIn(h2)[m] = z
    BY <2>3, <2>4
  <2>6. IsValue(h, z) \/ (IsRef(h, z) /\ z < m)
    BY <2>3, <2>4, TypedReference
  <2>7. /\ LastIn(h)[m] = IF IsRef(h, z) THEN LastIn(h)[z] ELSE m
        /\ EndIn(h)[m] = EndIn(h)[z]
    BY <2>3, TypedEnds
  <2>8. /\ LastIn(h2)[m] = IF IsRef(h2, z) THEN LastIn(h2)[z] ELSE m
        /\ EndIn(h2)[m] = EndIn(h2)[z]
    BY <2>3, <2>5, TypedEnds
  <2> HIDE DEF z, B
  <2>9. CASE IsValue(h, z)
    <3>1. IsValue(h2, z) /\ ~IsRef(h, z) /\ ~IsRef(h2, z)
      BY <1>2, <2>9 DEF IsValue, IsRef
    <3>2. EndIn(h)[z] = z /\ EndIn(h2)[z] = z
      BY <2>9, <3>1, TypedEnds
    <3> QED
      BY <2>2, <2>7, <2>8, <3>1, <3>2 DEF B
  <2>10. CASE IsRef(h, z) /\ z < m
    <3>1. IsRef(h2, z) /\ z \in RefsOf(h) /\ z \in Nat
      BY <1>1, <1>2, <2>10
    <3>2. z \notin B
      BY <2>2, <2>3, <2>10, <3>1
    <3>3. LastIn(h2)[z] = LastIn(h)[z] /\ EndIn(h2)[z] = EndIn(h)[z]
      BY <3>1, <3>2 DEF B
    <3> QED
      BY <2>2, <2>7, <2>8, <2>10, <3>1, <3>3 DEF B
  <2> QED
    BY <2>6, <2>9, <2>10
<1> QED
  BY <1>1, <1>3

-----------------------------------------------------------------------------
(* The types of what the frames hold.                                       *)

FrameTyped(f, h, g) ==
  /\ g.scheme \in DOMAIN f.functions
  /\ AllRefs(h, g.locals) /\ Len(g.locals) = f.functions[g.scheme].locals
  /\ AllRefs(h, g.args) /\ Len(g.args) = f.functions[g.scheme].args
  /\ AllRefs(h, g.captured) /\ Len(g.captured) = Len(f.functions[g.scheme].capture)
  /\ AllObjects(h, g.stack)

FramesTyped(f, h, fs) == \A d \in 1..Len(fs) : FrameTyped(f, h, fs[d])

(* What the machine's types come to, in every state.                        *)
TInv ==
  /\ IInv
  /\ HeapTyped(file, heap)
  /\ FramesTyped(file, heap, frames)
  /\ status \in Statuses

(* The heap has grown, and nothing was written to.                          *)
Grown(h, h2) ==
  /\ Len(h) <= Len(h2)
  /\ \A x \in 1..Len(h) : h2[x] = h[x]

(* What a step leaves typed.                                                *)
TypedAfter == HeapTyped(file, heap') /\ FramesTyped(file, heap', frames')
Unwritten == TypedAfter /\ Grown(heap, heap')

(* A frame keeps its types when the heap does.                              *)
LEMMA KeptFrames ==
  ASSUME NEW f, NEW h, IsSeq(h), NEW h2, IsSeq(h2), KeepsTypes(h, h2),
         NEW fs, FramesTyped(f, h, fs)
  PROVE  FramesTyped(f, h2, fs)
<1>1. /\ \A s : AllObjects(h, s) => AllObjects(h2, s)
      /\ \A s : AllRefs(h, s) => AllRefs(h2, s)
  BY KeptPointers
<1>2. ASSUME NEW d \in 1..Len(fs)
      PROVE  FrameTyped(f, h2, fs[d])
  <2>1. FrameTyped(f, h, fs[d])
    BY DEF FramesTyped
  <2> QED
    BY <1>1, <2>1 DEF FrameTyped
<1> QED
  BY <1>2 DEF FramesTyped

(* Another operand stack.                                                   *)
LEMMA WithStackTyped ==
  ASSUME NEW f, NEW h, NEW g, FrameOK(g), FrameTyped(f, h, g), NEW k, AllObjects(h, k)
  PROVE  FrameTyped(f, h, WithStack(g, k))
<1> DEFINE g2 == WithStack(g, k)
<1>1. g2 = [scheme |-> g.scheme, return |-> g.return, base |-> g.base, locals |-> g.locals,
            args |-> g.args, captured |-> g.captured, stack |-> k]
  BY DEF FrameOK, WithStack
<1>2. /\ g2.scheme = g.scheme /\ g2.locals = g.locals /\ g2.args = g.args
      /\ g2.captured = g.captured /\ g2.stack = k
  BY <1>1
<1> HIDE DEF g2
<1>3. FrameTyped(f, h, g2)
  BY <1>2 DEF FrameTyped
<1> QED
  BY <1>3 DEF g2

(* What is popped is gone, and what is pushed is an object.                 *)
LEMMA ObjectsStacked ==
  ASSUME NEW h, NEW k, AllObjects(h, k), NEW n \in Nat, n <= Len(k), NEW values, AllObjects(h, values)
  PROVE  AllObjects(h, DropLast(k, n) \o values)
<1> DEFINE u == DropLast(k, n) \o values
<1>1. IsSeq(k) /\ IsSeq(values) /\ Len(k) \in Nat /\ Len(values) \in Nat
  BY SeqDomain DEF AllObjects
<1>2. ReplacesLast(k, n, values, u)
  BY <1>1, SeqReplaceLast
<1> HIDE DEF u
<1> DEFINE m == Len(k) - n
<1>3. /\ IsSeq(u) /\ Len(u) = m + Len(values)
      /\ \A i \in 1..m : u[i] = k[i]
      /\ \A i \in 1..Len(values) : u[m + i] = values[i]
  BY <1>2 DEF ReplacesLast
<1>4. m \in Nat /\ m <= Len(k)
  BY <1>1
<1> HIDE DEF m
<1>5. ASSUME NEW i \in 1..Len(u)
      PROVE  IsObject(h, u[i])
  <2>1. CASE i \in 1..m
    <3>1. i \in 1..Len(k) /\ u[i] = k[i]
      BY <1>1, <1>3, <1>4, <2>1
    <3> QED
      BY <3>1 DEF AllObjects
  <2>2. CASE i \notin 1..m
    <3>1. i - m \in 1..Len(values) /\ m + (i - m) = i
      BY <1>1, <1>3, <1>4, <2>2
    <3>2. u[i] = values[i - m]
      BY <1>3, <3>1
    <3> QED
      BY <3>1, <3>2 DEF AllObjects
  <2> QED
    BY <2>1, <2>2
<1>6. AllObjects(h, u)
  BY <1>3, <1>5 DEF AllObjects
<1> QED
  BY <1>6 DEF u

(* Frames of which the top one has popped and pushed.                       *)
LEMMA StackedFrames ==
  ASSUME NEW f, NEW h, NEW fs, IsSeq(fs), Len(fs) > 0, FramesTyped(f, h, fs),
         FrameOK(fs[Len(fs)]), NEW k, AllObjects(h, k)
  PROVE  FramesTyped(f, h, Restacked(fs, k)) /\ Len(Restacked(fs, k)) = Len(fs)
<1> DEFINE D == Len(fs)
           g == WithStack(fs[D], k)
           gs == [fs EXCEPT ![D] = g]
<1>1. D \in Nat /\ D \in 1..D
  BY SeqDomain
<1>2. Restacked(fs, k) = gs
  BY <1>1 DEF Restacked, WithStack
<1>3. FrameTyped(f, h, g)
  BY <1>1, WithStackTyped DEF FramesTyped
<1> HIDE DEF g
<1>4. Len(gs) = D
  BY SeqExcept
<1>5. \A d \in 1..D : gs[d] = IF d = D THEN g ELSE fs[d]
  BY SeqExcept
<1> HIDE DEF gs
<1>6. \A d \in 1..D : FrameTyped(f, h, gs[d])
  BY <1>3, <1>5 DEF FramesTyped
<1> QED
  BY <1>2, <1>4, <1>6 DEF FramesTyped

-----------------------------------------------------------------------------
(* What a running machine finds where it looks.                             *)

(* The invariant says of the top frame.                                     *)
LEMMA TopTyped ==
  ASSUME FilesVerified, TInv, status = "running"
  PROVE  /\ FrameTyped(file, heap, Top) /\ FrameOK(Top) /\ IsSeq(frames) /\ Len(frames) > 0
         /\ IsSeq(heap) /\ Top = frames[Len(frames)] /\ Len(Top.stack) \in Nat
<1>1. /\ Depth \in Nat /\ Depth \in 1..Depth /\ Depth > 0 /\ FrameOK(Top) /\ IsSeq(Top.stack)
  BY Running DEF TInv
<1>2. Top = frames[Len(frames)] /\ Depth = Len(frames)
  BY DEF Top, Depth
<1>3. FrameTyped(file, heap, Top)
  BY <1>1, <1>2 DEF TInv, FramesTyped
<1>4. IsSeq(frames) /\ IsSeq(heap)
  BY DEF TInv, IInv, InStep, HeapTyped
<1>5. Len(Top.stack) \in Nat
  BY <1>1, SeqDomain
<1> QED
  BY <1>1, <1>2, <1>3, <1>4, <1>5

(* The operands of an instruction are objects, and resolve_ref leads each   *)
(* to a value.                                                              *)
LEMMA Operands ==
  ASSUME FilesVerified, TInv, NEW op, Fetched(op),
         NEW n \in Nat, n = Pops(file, Code[pc]), NEW i \in 1..n
  PROVE  /\ IsObject(heap, Operand(i)) /\ IsValue(heap, Resolved(i))
         /\ ObjectTyped(file, heap, Resolved(i), heap[Resolved(i)])
<1>1. status = "running" /\ n <= Len(Top.stack)
  BY DEF Fetched
<1>2. /\ AllObjects(heap, Top.stack) /\ Len(Top.stack) \in Nat
  BY <1>1, TopTyped DEF FrameTyped
<1>3. Len(Top.stack) + 1 - i \in 1..Len(Top.stack)
  BY <1>1, <1>2
<1>4. IsObject(heap, Operand(i))
  BY <1>2, <1>3 DEF AllObjects, Operand
<1>5. IsValue(heap, Resolved(i))
  BY <1>4, TypedEnds, ResolveRefIs DEF TInv, Resolved
<1>6. ObjectTyped(file, heap, Resolved(i), heap[Resolved(i)])
  BY <1>5 DEF IsValue, TInv, HeapTyped
<1> QED
  BY <1>4, <1>5, <1>6

(* A location of the code is of a variable, a reference.                    *)
LEMMA Variables ==
  ASSUME FilesVerified, TInv, NEW op, Fetched(op)
  PROVE  /\ op \in {"LD", "ST"} => IsRef(heap, Variable(Kind, N))
         /\ op = "CLOSURE" =>
              \A k \in 1..Len(Schemes[N].capture) :
                 IsRef(heap, Variable(Schemes[N].capture[k].type, Schemes[N].capture[k].index))
<1>1. status = "running" /\ pc \in DOMAIN Code /\ Code[pc].op = op
  BY DEF Fetched
<1>2. Verified(file, HeightsOf(file)) /\ Top.scheme \in DOMAIN Schemes
  BY <1>1, Running DEF TInv
<1>3. /\ WellFormed(file) /\ Code = file.functions[Top.scheme].code
      /\ Top.scheme \in DOMAIN file.functions
  BY <1>2 DEF Verified, Code, SchemeOf, Schemes
<1> DEFINE scheme == file.functions[Top.scheme]
<1>4. /\ op \in {"LD", "ST"} => Addressable(scheme, Kind, N)
      /\ op = "CLOSURE" =>
           /\ N \in DOMAIN file.functions
           /\ \A k \in DOMAIN file.functions[N].capture :
                 Addressable(scheme, file.functions[N].capture[k].type,
                                     file.functions[N].capture[k].index)
  BY <1>1, <1>3 DEF WellFormed, N, Kind
<1>5. ASSUME NEW type, NEW index, Addressable(scheme, type, index)
      PROVE  IsRef(heap, Variable(type, index))
  <2>1. FrameTyped(file, heap, Top)
    BY <1>1, TopTyped
  <2>2. /\ AllRefs(heap, Top.locals) /\ Len(Top.locals) = scheme.locals
        /\ AllRefs(heap, Top.args) /\ Len(Top.args) = scheme.args
        /\ AllRefs(heap, Top.captured) /\ Len(Top.captured) = Len(scheme.capture)
    BY <2>1 DEF FrameTyped
  <2> HIDE DEF scheme
  <2>3. CASE type = "LOCAL" /\ index \in 1..scheme.locals
    BY <2>2, <2>3 DEF Variable, AllRefs
  <2>4. CASE type = "ARGUMENT" /\ index \in 1..scheme.args
    BY <2>2, <2>4 DEF Variable, AllRefs
  <2>5. CASE type = "CAPTURED" /\ index \in 1..Len(scheme.capture)
    BY <2>2, <2>5 DEF Variable, AllRefs
  <2> QED
    BY <1>5, <2>3, <2>4, <2>5 DEF Addressable
<1>6. op = "CLOSURE" => DOMAIN file.functions[N].capture = 1..Len(file.functions[N].capture)
  <2>1. ASSUME op = "CLOSURE"
        PROVE  IsSeq(file.functions[N].capture)
    BY <1>2, <1>4, <2>1, VerifiedEntry
  <2> QED
    BY <2>1, SeqDomain
<1> HIDE DEF scheme
<1> QED
  BY <1>4, <1>5, <1>6 DEF Schemes

(* Before anything is held in C++ locals, or where nothing is.              *)
LEMMA SafeCollections ==
  ASSUME ~CollectWhileHeld, NEW safe, NEW n
  PROVE  Collections(safe, n) = 0..safe
BY DEF Collections

-----------------------------------------------------------------------------
(* The parts of a step.                                                     *)

(* What has only grown has kept its types.                                  *)
LEMMA GrownKeeps ==
  ASSUME NEW h, NEW h2, Grown(h, h2)
  PROVE  KeepsTypes(h, h2)
BY DEF Grown, KeepsTypes

(* Popping, and pushing objects.                                            *)
LEMMA StackedTyped ==
  ASSUME FilesVerified, TInv, status = "running",
         HeapTyped(file, heap'), KeepsTypes(heap, heap'),
         NEW n \in Nat, n <= Len(Top.stack), NEW values, AllObjects(heap', values),
         Stacked(n, values)
  PROVE  FramesTyped(file, heap', frames')
<1> DEFINE k == DropLast(Top.stack, n) \o values
<1>1. /\ FrameOK(Top) /\ IsSeq(frames) /\ Len(frames) > 0
      /\ IsSeq(heap) /\ Top = frames[Len(frames)]
  BY TopTyped
<1>2. IsSeq(heap')
  BY DEF HeapTyped
<1>3. FramesTyped(file, heap', frames)
  BY <1>1, <1>2, KeptFrames DEF TInv
<1>4. AllObjects(heap', Top.stack)
  <2>1. AllObjects(heap, Top.stack)
    BY TopTyped DEF FrameTyped
  <2> QED
    BY <1>1, <1>2, <2>1, KeptPointers
<1>5. AllObjects(heap', k)
  BY <1>4, ObjectsStacked
<1>6. frames' = Restacked(frames, k)
  BY DEF Stacked, Restacked, Depth
<1> HIDE DEF k
<1>7. FramesTyped(file, heap', Restacked(frames, k))
  BY <1>1, <1>3, <1>5, StackedFrames
<1> QED
  BY <1>6, <1>7

(* An instruction that touches no object.                                   *)
LEMMA TouchesNone ==
  ASSUME FilesVerified, TInv, NEW op, Fetched(op), NEW n \in Nat, n = Pops(file, Code[pc]),
         NEW values, AllObjects(heap, values), Stacked(n, values), UNCHANGED heap
  PROVE  Unwritten
<1>1. status = "running" /\ n <= Len(Top.stack)
  BY DEF Fetched
<1>2. HeapTyped(file, heap') /\ AllObjects(heap', values)
  BY DEF TInv
<1>3. Grown(heap, heap')
  <2>1. Len(heap) \in Nat
    BY SeqDomain DEF TInv, HeapTyped
  <2> QED
    BY <2>1 DEF Grown
<1>4. FramesTyped(file, heap', frames')
  BY <1>1, <1>2, <1>3, GrownKeeps, StackedTyped
<1> QED
  BY <1>2, <1>3, <1>4 DEF Unwritten, TypedAfter

(* One object put at the end of the heap.                                   *)
LEMMA OneMore ==
  ASSUME NEW f, NEW h, HeapTyped(f, h), NEW o, ObjectTyped(f, h, Len(h) + 1, o),
         NEW h2, h2 = h \o << o >>
  PROVE  HeapTyped(f, h2) /\ Grown(h, h2) /\ IsObject(h2, Len(h) + 1) /\ h2[Len(h) + 1] = o
         /\ Len(h2) = Len(h) + 1
<1>1. IsSeq(h) /\ Len(h) \in Nat /\ IsSeq(<< o >>) /\ Len(<< o >>) = 1 /\ << o >>[1] = o
  BY SeqDomain, ShortSeqs DEF HeapTyped
<1> DEFINE one == << o >>
<1> HIDE DEF one
<1>2. IsSeq(one) /\ Len(one) = 1 /\ one[1] = o /\ h2 = h \o one
  BY <1>1 DEF one
<1>3. IsSeq(h2) /\ Len(h2) = Len(h) + 1
  BY <1>1, <1>2, SeqConcat
<1>4. \A x \in 1..Len(h) : h2[x] = h[x]
  BY <1>1, <1>2, SeqConcat
<1>5. KeepsTypes(h, h2)
  BY <1>1, <1>3, <1>4 DEF KeepsTypes
<1>6. ObjectTyped(f, h2, Len(h) + 1, o)
  BY <1>1, <1>3, <1>5, KeptObjects
<1>7. \A i \in 1..Len(one) : ObjectTyped(f, h2, Len(h) + i, one[i])
  <2>1. \A i \in 1..Len(one) : i = 1
    BY <1>2
  <2> QED
    BY <1>2, <1>6, <2>1
<1>8. HeapTyped(f, h2)
  BY <1>2, <1>7, HeapGrows
<1>9. h2[Len(h) + 1] = o
  <2>1. 1 \in 1..Len(one)
    BY <1>2
  <2> QED
    BY <1>1, <1>2, <2>1, SeqConcat
<1>10. Grown(h, h2) /\ IsObject(h2, Len(h) + 1)
  BY <1>1, <1>3, <1>4 DEF Grown, IsObject
<1> QED
  BY <1>3, <1>8, <1>9, <1>10

(* The values an instruction pushes.                                        *)
LEMMA ShortObjects ==
  ASSUME NEW h
  PROVE  /\ AllObjects(h, << >>)
         /\ \A v : IsObject(h, v) => AllObjects(h, << v >>)
         /\ \A v : IsObject(h, v) => AllObjects(h, << v, v >>)
<1>1. AllObjects(h, << >>)
  BY ShortSeqs DEF AllObjects
<1>2. ASSUME NEW v, IsObject(h, v)
      PROVE  AllObjects(h, << v >>) /\ AllObjects(h, << v, v >>)
  <2>1. \A i \in 1..1 : << v >>[i] = v
    OBVIOUS
  <2>2. \A i \in 1..2 : << v, v >>[i] = v
    OBVIOUS
  <2> QED
    BY <1>2, <2>1, <2>2, ShortSeqs DEF AllObjects
<1> QED
  BY <1>1, <1>2

(* An instruction that makes one object and pushes it.                      *)
LEMMA MakesOne ==
  ASSUME FilesVerified, TInv, NEW op, Fetched(op), NEW n \in Nat, n = Pops(file, Code[pc]),
         NEW o, ObjectTyped(file, heap, New, o), Allocating(<< o >>), Stacked(n, <<New>>)
  PROVE  Unwritten
<1>1. status = "running" /\ n <= Len(Top.stack)
  BY DEF Fetched
<1>2. HeapTyped(file, heap') /\ Grown(heap, heap') /\ IsObject(heap', New)
  BY OneMore DEF TInv, Allocating, New
<1>3. AllObjects(heap', <<New>>)
  BY <1>2, ShortObjects
<1>4. FramesTyped(file, heap', frames')
  BY <1>1, <1>2, <1>3, GrownKeeps, StackedTyped
<1> QED
  BY <1>2, <1>4 DEF Unwritten, TypedAfter

-----------------------------------------------------------------------------
(* The instructions that write to no object, one by one.                    *)

(* NONE.                                                                    *)
LEMMA PushNoneTyped ==
  ASSUME FilesVerified, TInv, PushNone
  PROVE  Unwritten
<1>1. Fetched("NONE") /\ Stacked(0, <<NoneId>>) /\ UNCHANGED heap
  BY DEF PushNone
<1>2. IsObject(heap, NoneId)
  BY DEF TInv, HeapTyped, IsValue, IsObject
<1>3. AllObjects(heap, <<NoneId>>)
  BY <1>2, ShortObjects
<1>4. 0 = Pops(file, Code[pc])
  BY <1>1, Arities
<1> QED
  BY <1>1, <1>3, <1>4, TouchesNone

(* CONST, BOOL, STRING.                                                     *)
LEMMA PushLiteralTyped ==
  ASSUME FilesVerified, TInv, PushLiteral
  PROVE  Unwritten
<1>1. PICK op \in {"CONST", "BOOL", "STRING"} : Fetched(op)
  BY DEF PushLiteral
<1>2. Allocating(<<Literal>>) /\ Stacked(0, <<New>>)
  BY DEF PushLiteral
<1>3. ObjectTyped(file, heap, New, Literal)
  <2>1. Code[pc].op = op
    BY <1>1 DEF Fetched
  <2>2. \/ Literal = MakeInt(N)
        \/ Literal = Object("Bool", N, << >>, << >>) \/ Literal = Object("String", 0, <<N>>, << >>)
    BY <1>1, <2>1 DEF Literal
  <2>3. "Bool" \in Plain /\ "String" \in Plain
    BY DEF Plain
  <2> QED
    BY <2>2, <2>3, SimpleObjects
<1>4. 0 = Pops(file, Code[pc])
  BY <1>1, Arities
<1> QED
  BY <1>1, <1>2, <1>3, <1>4, MakesOne

(* LD pushes the variable.                                                  *)
LEMMA LdTyped ==
  ASSUME FilesVerified, TInv, Ld
  PROVE  Unwritten
<1>1. Fetched("LD") /\ Stacked(0, <<Variable(Kind, N)>>) /\ UNCHANGED heap
  BY DEF Ld
<1>2. IsRef(heap, Variable(Kind, N))
  BY <1>1, Variables
<1>3. AllObjects(heap, <<Variable(Kind, N)>>)
  BY <1>2, ShortObjects DEF IsRef, IsObject
<1>4. 0 = Pops(file, Code[pc])
  BY <1>1, Arities
<1> QED
  BY <1>1, <1>3, <1>4, TouchesNone

(* DROP.                                                                    *)
LEMMA DropTyped ==
  ASSUME FilesVerified, TInv, Drop
  PROVE  Unwritten
<1>1. Fetched("DROP") /\ Stacked(1, << >>) /\ UNCHANGED heap
  BY DEF Drop
<1>2. 1 = Pops(file, Code[pc])
  BY <1>1, Arities
<1> QED
  BY <1>1, <1>2, ShortObjects, TouchesNone

(* DUP.                                                                     *)
LEMMA DupTyped ==
  ASSUME FilesVerified, TInv, Dup
  PROVE  Unwritten
<1>1. Fetched("DUP") /\ Stacked(1, <<Operand(1), Operand(1)>>) /\ UNCHANGED heap
  BY DEF Dup
<1>2. 1 = Pops(file, Code[pc]) /\ 1 \in 1..1
  BY <1>1, Arities
<1>3. AllObjects(heap, <<Operand(1), Operand(1)>>)
  BY <1>1, <1>2, Operands, ShortObjects
<1> QED
  BY <1>1, <1>2, <1>3, TouchesNone

(* JMP, and whatever else leaves frames and heap alone.                     *)
LEMMA NothingTyped ==
  ASSUME FilesVerified, TInv, UNCHANGED <<heap, frames>>
  PROVE  Unwritten
<1>1. TypedAfter
  BY DEF TInv, TypedAfter
<1>2. Grown(heap, heap')
  <2>1. Len(heap) \in Nat
    BY SeqDomain DEF TInv, HeapTyped
  <2> QED
    BY <2>1 DEF Grown
<1> QED
  BY <1>1, <1>2 DEF Unwritten

(* CJMPZ.                                                                   *)
LEMMA CJmpZTyped ==
  ASSUME FilesVerified, TInv, CJmpZ
  PROVE  Unwritten
<1>1. Fetched("CJMPZ") /\ Stacked(1, << >>) /\ UNCHANGED heap
  BY DEF CJmpZ
<1>2. 1 = Pops(file, Code[pc])
  BY <1>1, Arities
<1> QED
  BY <1>1, <1>2, ShortObjects, TouchesNone

(* PRINT.                                                                   *)
LEMMA PrintValuesTyped ==
  ASSUME FilesVerified, TInv, PrintValues
  PROVE  Unwritten
<1>1. Fetched("PRINT") /\ Stacked(N, << >>) /\ UNCHANGED heap
  BY DEF PrintValues
<1>2. N = Pops(file, Code[pc]) /\ N \in Nat
  BY <1>1, Arities, Immediates DEF TInv
<1> QED
  BY <1>1, <1>2, ShortObjects, TouchesNone

(* What makes one object: of ISTYPE, LENGTH, RNGSPC and BINOP.              *)
LEMMA BinopValueTyped ==
  ASSUME FilesVerified, TInv, Fetched("BINOP"),
         NEW o, ObjectTyped(file, heap, New, o), NEW c, BinopValue(o, c)
  PROVE  Unwritten
<1>1. Stacked(2, <<New>>) /\ Allocating(<< o >>)
  BY DEF BinopValue
<1>2. 2 = Pops(file, Code[pc])
  BY Arities
<1> QED
  BY <1>1, <1>2, MakesOne

(* BINOP on integers.                                                       *)
LEMMA BinopIntsTyped ==
  ASSUME FilesVerified, TInv, BinopInts
  PROVE  Unwritten
<1> DEFINE a == First.num
           b == Second.num
           o == IntResult(Kind, a, b)
<1>1. Fetched("BINOP") /\ Kind \in IntOps /\ \E c \in Collections(1, 1) : BinopValue(o, c)
  BY DEF BinopInts
<1> HIDE DEF a, b
<1>2. \/ o = MakeInt(a + b) \/ o = MakeInt(a - b) \/ o = MakeInt(a * b) \/ o = MakeInt(Quotient(a, b))
      \/ o = MakeBool(a < b) \/ o = MakeBool(a <= b) \/ o = MakeBool(a > b) \/ o = MakeBool(a >= b)
      \/ o = MakeBool(a = b) \/ o = MakeBool(a # b)
  BY <1>1 DEF IntOps, IntResult
<1> HIDE DEF o
<1>3. ObjectTyped(file, heap, New, o)
  BY <1>2, SimpleObjects, Zenon
<1> QED
  BY <1>1, <1>3, BinopValueTyped

(* BINOP on Booleans, and equality.                                         *)
LEMMA BinopTestsTyped ==
  ASSUME FilesVerified, TInv, BinopBools \/ BinopEqual
  PROVE  Unwritten
<1>1. Fetched("BINOP") /\ \E b, c : BinopValue(MakeBool(b), c)
  <2>1. CASE BinopBools
    BY <2>1, Zenon DEF BinopBools
  <2>2. CASE BinopEqual
    BY <2>2, Zenon DEF BinopEqual
  <2> QED
    BY <2>1, <2>2
<1>2. PICK b, c : BinopValue(MakeBool(b), c)
  BY <1>1
<1>3. ObjectTyped(file, heap, New, MakeBool(b))
  BY SimpleObjects, Zenon
<1> QED
  BY <1>1, <1>2, <1>3, BinopValueTyped

(* References after references.                                             *)
LEMMA RefsConcat ==
  ASSUME NEW h, NEW s, AllRefs(h, s), NEW t, AllRefs(h, t)
  PROVE  AllRefs(h, s \o t)
<1> DEFINE u == s \o t
           m == Len(s)
           n == Len(t)
<1>1. IsSeq(s) /\ IsSeq(t) /\ m \in Nat /\ n \in Nat
  BY SeqDomain DEF AllRefs
<1>2. IsSeq(u) /\ Len(u) = m + n
  BY <1>1, SeqConcat
<1>3. \A i \in 1..m : u[i] = s[i]
  BY <1>1, SeqConcat
<1>4. \A i \in 1..n : u[m + i] = t[i]
  BY <1>1, SeqConcat
<1> HIDE DEF u
<1>5. (\A i \in 1..m : IsRef(h, s[i])) /\ \A i \in 1..n : IsRef(h, t[i])
  BY DEF AllRefs
<1> HIDE DEF m, n
<1>6. ASSUME NEW i \in 1..m + n
      PROVE  IsRef(h, u[i])
  <2>1. CASE i \in 1..m
    BY <1>3, <1>5, <2>1
  <2>2. CASE i \notin 1..m
    <3>1. i - m \in 1..n /\ m + (i - m) = i
      BY <1>1, <2>2
    <3>2. u[i] = t[i - m]
      BY <1>4, <3>1
    <3> QED
      BY <1>5, <3>1, <3>2
  <2> QED
    BY <2>1, <2>2
<1>7. AllRefs(h, u)
  BY <1>2, <1>6 DEF AllRefs
<1> QED
  BY <1>7 DEF u

(* An aggregate.                                                            *)
LEMMA AggregateObject ==
  ASSUME NEW f, NEW h, NEW x, NEW type \in {"Array", "Tuple"}, NEW num,
         NEW keys, IsSeq(keys), NEW refs, AllRefs(h, refs), Len(keys) = Len(refs)
  PROVE  ObjectTyped(f, h, x, Object(type, num, keys, refs))
<1> DEFINE o == Object(type, num, keys, refs)
<1>1. /\ o.type = type /\ o.num = num /\ o.keys = keys /\ o.refs = refs
      /\ o = Object(o.type, o.num, o.keys, o.refs)
  BY DEF Object
<1> HIDE DEF o
<1>2. AggregateTyped(h, o)
  BY <1>1 DEF AggregateTyped
<1>3. o.type \notin Plain /\ o.type # "Ref" /\ o.type # "Func"
  BY <1>1 DEF Plain
<1>4. ObjectTyped(f, h, x, o)
  BY <1>1, <1>2, <1>3 DEF ObjectTyped
<1> QED
  BY <1>4 DEF o

(* Concatenation: as many keys as references.                               *)
LEMMA ConcatenatedTyped ==
  ASSUME NEW f, NEW x, ObjectTyped(f, heap, x, First), NEW y, ObjectTyped(f, heap, y, Second),
         First.type \in Sized, First.type = Second.type
  PROVE  ObjectTyped(f, heap, New, Concatenated)
<1> DEFINE type == First.type
           k == First.keys
           r == First.refs
           k2 == Second.keys
           r2 == Second.refs
           by == Largest(k)
           shifted == Shift(k2, by)
           keys == k \o (IF type = "Array" THEN shifted ELSE k2)
<1>1. Concatenated = Object(type, 0, keys, r \o r2)
  BY DEF Concatenated
<1>2. CASE type = "String"
  <2>1. r = << >> /\ r2 = << >> /\ type \in Plain
    BY <1>2 DEF ObjectTyped, Plain
  <2>2. r \o r2 = << >>
    BY <2>1
  <2>3. ObjectTyped(f, heap, New, Object(type, 0, keys, << >>))
    BY <2>1, SimpleObjects, Zenon
  <2> QED
    BY <1>1, <2>2, <2>3, Zenon
<1>3. CASE type \in {"Array", "Tuple"}
  <2>1. /\ AllRefs(heap, r) /\ IsSeq(k) /\ Len(k) = Len(r)
        /\ AllRefs(heap, r2) /\ IsSeq(k2) /\ Len(k2) = Len(r2)
    BY <1>3 DEF ObjectTyped, AggregateTyped
  <2>2. IsSeq(shifted) /\ Len(shifted) = Len(k2)
    <3>1. DOMAIN k2 = 1..Len(k2) /\ Len(k2) \in Nat
      BY <2>1, SeqDomain
    <3>2. shifted \in [1..Len(k2) -> {k2[i] + by : i \in 1..Len(k2)}]
      BY <3>1 DEF Shift
    <3> HIDE DEF shifted
    <3> QED
      BY <3>1, <3>2, SeqOfFunction
  <2> HIDE DEF shifted, type, k, r, k2, r2, by
  <2>3. AllRefs(heap, r \o r2)
    BY <2>1, RefsConcat
  <2>4. IsSeq(r) /\ IsSeq(r2)
    BY <2>1 DEF AllRefs
  <2>5. Len(r \o r2) = Len(r) + Len(r2)
    BY <2>4, SeqConcat
  <2>6. IsSeq(keys) /\ Len(keys) = Len(k) + Len(k2)
    BY <2>1, <2>2, SeqConcat
  <2> HIDE DEF keys
  <2>7. ObjectTyped(f, heap, New, Object(type, 0, keys, r \o r2))
    BY <1>3, <2>1, <2>3, <2>5, <2>6, AggregateObject
  <2> QED
    BY <1>1, <2>7
<1> QED
  BY <1>2, <1>3 DEF Sized

(* Where nothing is collected while C++ locals hold pointers, no array is   *)
(* spoiled.                                                                 *)
LEMMA BinopConcatTyped ==
  ASSUME FilesVerified, ~CollectWhileHeld, TInv, BinopConcat
  PROVE  Unwritten
<1> DEFINE elements == Len(First.refs) + Len(Second.refs)
           safe == IF First.type # "String" /\ elements > 0 THEN 0 ELSE 1
           n == IF First.type = "Array" THEN 2 ELSE 1
<1>1. /\ Fetched("BINOP") /\ First.type \in Sized /\ First.type = Second.type
      /\ \E c \in Collections(safe, n) :
            BinopValue(IF c > safe THEN Spoiled(First.type) ELSE Concatenated, c)
  BY DEF BinopConcat
<1>2. safe \in 0..1
  OBVIOUS
<1> HIDE DEF safe, n
<1>3. PICK c \in 0..safe : BinopValue(IF c > safe THEN Spoiled(First.type) ELSE Concatenated, c)
  BY <1>1, SafeCollections
<1>4. BinopValue(Concatenated, c)
  <2>1. ~(c > safe)
    BY <1>2
  <2> QED
    BY <1>3, <2>1
<1>5. 2 = Pops(file, Code[pc]) /\ 1 \in 1..2 /\ 2 \in 1..2
  BY <1>1, Arities
<1>6. /\ ObjectTyped(file, heap, Resolved(2), First)
      /\ ObjectTyped(file, heap, Resolved(1), Second)
  BY <1>1, <1>5, Operands DEF First, Second
<1>7. ObjectTyped(file, heap, New, Concatenated)
  BY <1>1, <1>6, ConcatenatedTyped
<1> QED
  BY <1>1, <1>4, <1>7, BinopValueTyped

(* ISTYPE.                                                                  *)
LEMMA IsTypeTyped ==
  ASSUME FilesVerified, TInv, IsType
  PROVE  Unwritten
<1>1. PICK b : Fetched("ISTYPE") /\ Allocating(<<MakeBool(b)>>) /\ Stacked(1, <<New>>)
  BY Zenon DEF IsType
<1>2. ObjectTyped(file, heap, New, MakeBool(b))
  BY SimpleObjects, Zenon
<1>3. 1 = Pops(file, Code[pc])
  BY <1>1, Arities
<1> QED
  BY <1>1, <1>2, <1>3, MakesOne

(* LENGTH.                                                                  *)
LEMMA LengthTyped ==
  ASSUME FilesVerified, TInv, Length
  PROVE  Unwritten
<1>1. PICK i : Fetched("LENGTH") /\ Allocating(<<MakeInt(i)>>) /\ Stacked(1, <<New>>)
  BY Zenon DEF Length
<1>2. ObjectTyped(file, heap, New, MakeInt(i))
  BY SimpleObjects, Zenon
<1>3. 1 = Pops(file, Code[pc])
  BY <1>1, Arities
<1> QED
  BY <1>1, <1>2, <1>3, MakesOne

(* RNGSPC.                                                                  *)
LEMMA RngSpcTyped ==
  ASSUME FilesVerified, TInv, RngSpc
  PROVE  Unwritten
<1>1. PICK i : Fetched("RNGSPC") /\ Allocating(<<MakeInt(i)>>) /\ Stacked(2, <<New>>)
  BY DEF RngSpc
<1>2. ObjectTyped(file, heap, New, MakeInt(i))
  BY SimpleObjects, Zenon
<1>3. 2 = Pops(file, Code[pc])
  BY <1>1, Arities
<1> QED
  BY <1>1, <1>2, <1>3, MakesOne

(* ARRAY.                                                                   *)
LEMMA ArrayTyped ==
  ASSUME FilesVerified, ~CollectWhileHeld, TInv, Array
  PROVE  Unwritten
<1>1. Fetched("ARRAY") /\ Stacked(0, <<New>>)
  BY DEF Array
<1>2. PICK c \in 0..1 : Allocating(<<IF c = 2 THEN Spoiled("Array")
                                     ELSE Object("Array", 0, << >>, << >>)>>)
  BY SafeCollections DEF Array
<1>3. Allocating(<<Object("Array", 0, << >>, << >>)>>)
  <2>1. c # 2
    OBVIOUS
  <2> QED
    BY <1>2, <2>1
<1>4. AllRefs(heap, << >>) /\ IsSeq(<< >>)
  BY ShortSeqs DEF AllRefs
<1>5. ObjectTyped(file, heap, New, Object("Array", 0, << >>, << >>))
  BY <1>4, AggregateObject
<1>6. 0 = Pops(file, Code[pc])
  BY <1>1, Arities
<1> QED
  BY <1>1, <1>3, <1>5, <1>6, MakesOne

(* LDT: the elements of a tuple are references.                             *)
LEMMA LdtTyped ==
  ASSUME FilesVerified, TInv, Ldt
  PROVE  Unwritten
<1> DEFINE tuple == heap[Resolved(1)]
           v == tuple.refs[FieldPosition(tuple)]
<1>1. /\ Fetched("LDT") /\ Stacked(1, << v >>) /\ UNCHANGED heap
      /\ tuple.type = "Tuple" /\ FieldPosition(tuple) \in DOMAIN tuple.refs
  BY DEF Ldt
<1>2. 1 = Pops(file, Code[pc]) /\ 1 \in 1..1
  BY <1>1, Arities
<1>3. ObjectTyped(file, heap, Resolved(1), tuple)
  BY <1>1, <1>2, Operands
<1>4. AllRefs(heap, tuple.refs)
  BY <1>1, <1>3 DEF ObjectTyped, AggregateTyped
<1>5. IsObject(heap, v)
  <2>1. DOMAIN tuple.refs = 1..Len(tuple.refs)
    BY <1>4, SeqDomain DEF AllRefs
  <2> QED
    BY <1>1, <1>4, <2>1 DEF AllRefs, IsRef, IsObject
<1> HIDE DEF v, tuple
<1>6. AllObjects(heap, << v >>)
  BY <1>5, ShortObjects
<1> QED
  BY <1>1, <1>2, <1>6, TouchesNone

(* Where an array has a key.                                                *)
LEMMA PositionTyped ==
  ASSUME NEW f, HeapTyped(f, heap), NEW array, array \in 1..Len(heap), heap[array].type = "Array",
         NEW key \in Range(heap[array].keys)
  PROVE  /\ PositionOf(array, key) \in 1..Len(heap[array].refs)
         /\ heap[array].keys[PositionOf(array, key)] = key
         /\ IsRef(heap, heap[array].refs[PositionOf(array, key)])
<1>1. AggregateTyped(heap, heap[array])
  BY DEF HeapTyped, ObjectTyped
<1>2. \E i \in DOMAIN heap[array].keys : heap[array].keys[i] = key
  BY DEF Range
<1>3. DOMAIN heap[array].keys = 1..Len(heap[array].refs)
  BY <1>1, SeqDomain DEF AggregateTyped
<1>4. /\ PositionOf(array, key) \in DOMAIN heap[array].keys
      /\ heap[array].keys[PositionOf(array, key)] = key
  <2> DEFINE T == {i \in DOMAIN heap[array].keys : heap[array].keys[i] = key}
  <2>1. T \subseteq Nat /\ T # {}
    BY <1>2, <1>3
  <2> HIDE DEF T
  <2>2. \E i \in T : \A j \in T : i <= j
    BY <2>1, LeastOne
  <2>3. Min(T) \in T
    BY <2>2 DEF Min
  <2> QED
    BY <2>3 DEF T, PositionOf
<1> QED
  BY <1>1, <1>4, <1>3 DEF AggregateTyped, AllRefs

(* LDA of an index that is there.                                           *)
LEMMA LdaTyped ==
  ASSUME FilesVerified, TInv, Lda
  PROVE  Unwritten
<1> DEFINE array == Resolved(2)
           key == heap[Resolved(1)].num
           v == heap[array].refs[PositionOf(array, key)]
<1>1. /\ Fetched("LDA") /\ Stacked(2, << v >>) /\ UNCHANGED heap
      /\ heap[array].type = "Array" /\ key \in Range(heap[array].keys)
  BY DEF Lda, Indexable
<1>2. 2 = Pops(file, Code[pc]) /\ 2 \in 1..2
  BY <1>1, Arities
<1>3. IsValue(heap, array)
  BY <1>1, <1>2, Operands
<1> HIDE DEF array, key
<1>4. IsRef(heap, v)
  BY <1>1, <1>3, PositionTyped DEF IsValue, TInv
<1>5. AllObjects(heap, << v >>)
  BY <1>4, ShortObjects DEF IsRef, IsObject
<1> HIDE DEF v
<1> QED
  BY <1>1, <1>2, <1>5, TouchesNone

-----------------------------------------------------------------------------
(* ST and STD: the last reference of the target's chain is to the value.    *)

AssignedTo(t, v) ==
  /\ IsRef(heap, t) /\ IsValue(heap, v)
  /\ heap' = WithRefs(heap, LastIn(heap)[t], << v >>)

(* The types after an assignment.                                           *)
LEMMA AssignedTyped ==
  ASSUME FilesVerified, TInv, NEW op, Fetched(op), NEW n \in Nat, n = Pops(file, Code[pc]),
         Stacked(n, << >>), NEW t, NEW v, AssignedTo(t, v)
  PROVE  TypedAfter
<1>1. status = "running" /\ n <= Len(Top.stack)
  BY DEF Fetched
<1>2. HeapTyped(file, heap') /\ KeepsTypes(heap, heap')
  BY ChangedHeap DEF TInv, AssignedTo
<1>3. AllObjects(heap', << >>)
  BY ShortObjects
<1>4. FramesTyped(file, heap', frames')
  BY <1>1, <1>2, <1>3, StackedTyped
<1> QED
  BY <1>2, <1>4 DEF TypedAfter

(* change_ref of a reference.                                               *)
LEMMA ChangeRefIs ==
  ASSUME NEW t, NEW v, heap' = ChangeRef(t, v), IsRef(heap, t), IsValue(heap, v)
  PROVE  AssignedTo(t, v)
<1>1. LastRef(t) = LastIn(heap)[t]
  BY ResolveRefIs
<1> QED
  BY <1>1, Zenon DEF ChangeRef, WithRefs, AssignedTo

(* ST assigns to the variable.                                              *)
LEMMA StTyped ==
  ASSUME FilesVerified, TInv, St
  PROVE  /\ TypedAfter /\ Executes("ST") /\ status' = "running"
         /\ AssignedTo(Variable(Kind, N), Resolved(1))
<1>1. /\ Fetched("ST") /\ Stacked(1, << >>) /\ UNCHANGED status
      /\ heap' = ChangeRef(Variable(Kind, N), Resolved(1))
  BY DEF St
<1>2. 1 = Pops(file, Code[pc]) /\ 1 \in 1..1
  BY <1>1, Arities
<1>3. IsRef(heap, Variable(Kind, N)) /\ IsValue(heap, Resolved(1))
  BY <1>1, <1>2, Operands, Variables
<1>4. AssignedTo(Variable(Kind, N), Resolved(1))
  BY <1>1, <1>3, ChangeRefIs
<1>5. TypedAfter
  BY <1>1, <1>2, <1>4, AssignedTyped
<1> QED
  BY <1>1, <1>4, <1>5 DEF Executes, Fetched

(* STD to the operand below the value, a reference.                         *)
LEMMA StdTyped ==
  ASSUME FilesVerified, TInv, Std
  PROVE  /\ TypedAfter /\ Executes("STD") /\ status' = "running"
         /\ AssignedTo(Operand(2), Resolved(1))
<1>1. /\ Fetched("STD") /\ Stacked(2, << >>) /\ UNCHANGED status
      /\ heap[Operand(2)].type = "Ref"
      /\ heap' = ChangeRef(Operand(2), Resolved(1))
  BY DEF Std
<1>2. 2 = Pops(file, Code[pc]) /\ 1 \in 1..2 /\ 2 \in 1..2
  BY <1>1, Arities
<1>3. IsRef(heap, Operand(2)) /\ IsValue(heap, Resolved(1))
  BY <1>1, <1>2, Operands DEF IsRef, IsObject
<1>4. AssignedTo(Operand(2), Resolved(1))
  BY <1>1, <1>3, ChangeRefIs
<1>5. TypedAfter
  BY <1>1, <1>2, <1>4, AssignedTyped
<1> QED
  BY <1>1, <1>4, <1>5 DEF Executes, Fetched

-----------------------------------------------------------------------------
(* RET and the end of a function.                                           *)

(* The caller gets one more object on its operand stack.                    *)
LEMMA ReturnsTyped ==
  ASSUME FilesVerified, TInv, status = "running", UNCHANGED heap,
         NEW n, NEW value, IsObject(heap, value), Returns(n, value)
  PROVE  Unwritten
<1> DEFINE D == Depth
           C == D - 1
           lower == DropLast(frames, 1)
           k == lower[C].stack
<1>1. /\ D \in Nat /\ D > 0 /\ D = Len(frames) /\ IsSeq(frames)
      /\ \A d \in 1..D : FrameOK(frames[d])
  BY Running DEF TInv, IInv, InStep, Tiled, Depth
<1>2. HeapTyped(file, heap') /\ FramesTyped(file, heap, frames)
  BY DEF TInv
<1>3. Grown(heap, heap')
  <2>1. Len(heap) \in Nat
    BY SeqDomain DEF TInv, HeapTyped
  <2> QED
    BY <2>1 DEF Grown
<1>4. FramesTyped(file, heap, frames')
  <2>1. CASE D = 1
    <3>1. frames' = << >>
      BY <2>1 DEF Returns
    <3>2. Len(frames') = 0
      BY <3>1
    <3>3. \A d \in 1..Len(frames') : FALSE
      BY <3>2
    <3> QED
      BY <3>3 DEF FramesTyped
  <2>2. CASE D # 1
    <3>1. C \in Nat /\ C > 0 /\ C \in 1..C /\ \A d \in 1..C : d \in 1..D
      BY <1>1, <2>2
    <3>2. frames' = [lower EXCEPT ![C].stack = Append(@, value)]
      BY <2>2 DEF Returns
    <3>3. 1 \in 0..Len(frames) /\ Len(frames) - 1 = C
      BY <1>1
    <3>4. IsSeq(lower) /\ Len(lower) = C
      BY <1>1, <3>3, SeqDropLast
    <3>5. \A d \in 1..C : lower[d] = frames[d]
      BY <1>1, <3>3, SeqDropLast
    <3> HIDE DEF lower, C
    <3>6. FramesTyped(file, heap, lower)
      BY <1>1, <1>2, <3>1, <3>4, <3>5 DEF FramesTyped
    <3>7. FrameOK(lower[C]) /\ FrameTyped(file, heap, lower[C])
      BY <1>1, <3>1, <3>4, <3>5, <3>6 DEF FramesTyped
    <3>8. AllObjects(heap, k)
      BY <3>7 DEF FrameTyped
    <3>9. AllObjects(heap, Append(k, value))
      <4>1. IsSeq(k) /\ Len(k) \in Nat
        BY <3>8, SeqDomain DEF AllObjects
      <4> HIDE DEF k
      <4>2. DropLast(k, 0) \o << value >> = Append(k, value)
        BY <4>1, SeqEqualities
      <4>3. AllObjects(heap, << value >>)
        BY ShortObjects
      <4>4. 0 \in Nat /\ 0 <= Len(k)
        BY <4>1
      <4>5. AllObjects(heap, DropLast(k, 0) \o << value >>)
        BY <3>8, <4>3, <4>4, ObjectsStacked
      <4> QED
        BY <4>2, <4>5
    <3>10. frames' = Restacked(lower, Append(k, value))
      BY <3>2, <3>4 DEF Restacked
    <3>11. Len(lower) > 0
      BY <3>1, <3>4
    <3> HIDE DEF k
    <3>12. FramesTyped(file, heap, Restacked(lower, Append(k, value)))
      BY <3>4, <3>6, <3>7, <3>9, <3>11, StackedFrames
    <3> QED
      BY <3>10, <3>12
  <2> QED
    BY <2>1, <2>2
<1> QED
  BY <1>2, <1>3, <1>4 DEF Unwritten, TypedAfter

(* RET.                                                                     *)
LEMMA RetTyped ==
  ASSUME FilesVerified, TInv, Ret
  PROVE  Unwritten
<1>1. Fetched("RET") /\ Returns(1, Operand(1)) /\ UNCHANGED heap /\ status = "running"
  BY DEF Ret, Fetched
<1>2. Pops(file, Code[pc]) = 1
  BY <1>1 DEF Fetched, Pops
<1>3. IsObject(heap, Operand(1))
  <2>1. 1 \in Nat /\ 1 \in 1..1
    OBVIOUS
  <2> QED
    BY <1>1, <1>2, <2>1, Operands
<1> QED
  BY <1>1, <1>3, ReturnsTyped

(* The end of the code.                                                     *)
LEMMA FallsOffTheEndTyped ==
  ASSUME FilesVerified, TInv, FallsOffTheEnd
  PROVE  Unwritten
<1>1. Returns(0, NoneId) /\ UNCHANGED heap /\ status = "running"
  BY DEF FallsOffTheEnd
<1>2. IsObject(heap, NoneId)
  BY DEF TInv, HeapTyped, IsValue, IsObject
<1> QED
  BY <1>1, <1>2, ReturnsTyped

-----------------------------------------------------------------------------
(* References made together with the object that holds them.                *)

(* boxes are references to objects of h.                                    *)
Boxes(h, n, boxes) ==
  \A k \in 1..n : \E v : boxes[k] = MakeRef(v) /\ IsObject(h, v)

(* Boxes have their types wherever they come after h.                       *)
LEMMA BoxTyped ==
  ASSUME NEW f, NEW h, HeapTyped(f, h), NEW h2, IsSeq(h2), Grown(h, h2),
         NEW v, IsObject(h, v), NEW x \in Nat, x > Len(h)
  PROVE  ObjectTyped(f, h2, x, MakeRef(v))
<1>1. IsSeq(h) /\ Len(h) \in Nat
  BY SeqDomain DEF HeapTyped
<1>2. IsValue(h, v) \/ (IsRef(h, v) /\ v < x)
  BY <1>1 DEF IsObject, IsRef, IsValue
<1>3. IsValue(h2, v) \/ (IsRef(h2, v) /\ v < x)
  BY <1>1, <1>2, GrownKeeps, KeptPointers
<1> QED
  BY <1>3, SimpleObjects

(* h2 is h with n boxes and then the rest at its end.                       *)
Boxed(h, n, boxes, rest, h2) ==
  /\ IsSeq(h2) /\ Len(h2) = Len(h) + n + Len(rest) /\ Grown(h, h2)
  /\ \A k \in 1..n : h2[Len(h) + k] = boxes[k] /\ IsRef(h2, Len(h) + k)
  /\ \A k \in 1..Len(rest) : h2[Len(h) + n + k] = rest[k]

(* Where they are when they have been put at the end of the heap.           *)
LEMMA BoxesAppended ==
  ASSUME NEW h, IsSeq(h), NEW n \in Nat, NEW boxes, IsSeq(boxes), Len(boxes) = n, Boxes(h, n, boxes),
         NEW rest, IsSeq(rest), NEW h2, h2 = h \o (boxes \o rest)
  PROVE  Boxed(h, n, boxes, rest, h2)
<1> DEFINE u == boxes \o rest
<1>1. Len(h) \in Nat /\ Len(rest) \in Nat
  BY SeqDomain
<1>2. IsSeq(u) /\ Len(u) = n + Len(rest)
  BY SeqConcat
<1>3. \A k \in 1..n : u[k] = boxes[k]
  BY SeqConcat
<1>4. \A k \in 1..Len(rest) : u[n + k] = rest[k]
  BY SeqConcat
<1> HIDE DEF u
<1>5. h2 = h \o u
  BY DEF u
<1>6. IsSeq(h2) /\ Len(h2) = Len(h) + n + Len(rest)
  BY <1>1, <1>2, <1>5, SeqConcat, SMTT(30)
<1>7. \A x \in 1..Len(h) : h2[x] = h[x]
  BY <1>2, <1>5, SeqConcat
<1>8. \A k \in 1..n + Len(rest) : h2[Len(h) + k] = u[k]
  BY <1>2, <1>5, SeqConcat
<1>9. Grown(h, h2)
  BY <1>1, <1>6, <1>7 DEF Grown
<1>10. ASSUME NEW k \in 1..n
       PROVE  h2[Len(h) + k] = boxes[k] /\ IsRef(h2, Len(h) + k)
  <2>1. k \in 1..n + Len(rest) /\ Len(h) + k \in 1..Len(h2)
    BY <1>1, <1>6
  <2>2. h2[Len(h) + k] = boxes[k]
    BY <1>3, <1>8, <2>1
  <2>3. PICK v : boxes[k] = MakeRef(v)
    BY DEF Boxes
  <2>4. boxes[k].type = "Ref"
    BY <2>3 DEF MakeRef, Object
  <2> QED
    BY <2>1, <2>2, <2>4 DEF IsRef
<1>11. ASSUME NEW k \in 1..Len(rest)
       PROVE  h2[Len(h) + n + k] = rest[k]
  <2>1. n + k \in 1..n + Len(rest) /\ Len(h) + n + k = Len(h) + (n + k)
    BY <1>1
  <2> QED
    BY <1>4, <1>8, <2>1
<1> QED
  BY <1>6, <1>9, <1>10, <1>11 DEF Boxed

(* They, and what has its type after them, make a typed heap.               *)
LEMMA BoxesTyped ==
  ASSUME NEW f, NEW h, HeapTyped(f, h),
         NEW n \in Nat, NEW boxes, IsSeq(boxes), Len(boxes) = n, Boxes(h, n, boxes),
         NEW rest, IsSeq(rest), NEW h2, h2 = h \o (boxes \o rest),
         \A k \in 1..Len(rest) : ObjectTyped(f, h2, Len(h) + n + k, rest[k])
  PROVE  HeapTyped(f, h2)
<1>1. IsSeq(h) /\ Len(h) \in Nat /\ Len(rest) \in Nat
  BY SeqDomain DEF HeapTyped
<1>2. /\ IsSeq(h2) /\ Len(h2) = Len(h) + n + Len(rest) /\ Grown(h, h2)
      /\ \A k \in 1..n : h2[Len(h) + k] = boxes[k]
      /\ \A k \in 1..Len(rest) : h2[Len(h) + n + k] = rest[k]
  <2>1. Boxed(h, n, boxes, rest, h2)
    BY <1>1, BoxesAppended, Zenon
  <2> QED
    BY <2>1 DEF Boxed
<1>3. ASSUME NEW x \in 1..Len(h2), x > Len(h)
      PROVE  ObjectTyped(f, h2, x, h2[x])
  <2>1. CASE x <= Len(h) + n
    <3>1. x - Len(h) \in 1..n /\ Len(h) + (x - Len(h)) = x
      BY <1>1, <1>3, <2>1
    <3>2. PICK v : boxes[x - Len(h)] = MakeRef(v) /\ IsObject(h, v)
      BY <3>1 DEF Boxes
    <3>3. h2[x] = MakeRef(v)
      BY <1>2, <3>1, <3>2
    <3>4. x \in Nat
      BY <1>1, <1>2
    <3> QED
      BY <1>2, <1>3, <3>2, <3>3, <3>4, BoxTyped
  <2>2. CASE x > Len(h) + n
    <3>1. x - (Len(h) + n) \in 1..Len(rest) /\ Len(h) + n + (x - (Len(h) + n)) = x
      BY <1>1, <1>2, <2>2
    <3>2. h2[x] = rest[x - (Len(h) + n)]
      BY <1>2, <3>1
    <3> QED
      BY <3>1, <3>2
  <2> QED
    BY <1>1, <1>2, <2>1, <2>2
<1>4. Len(h) <= Len(h2) /\ \A x \in 1..Len(h) : h2[x] = h[x]
  BY <1>2 DEF Grown
<1> QED
  BY <1>2, <1>3, <1>4, HeapStep

(* An instruction that makes them and the object, and pushes that.          *)
LEMMA MakesBoxed ==
  ASSUME FilesVerified, TInv, NEW op, Fetched(op), NEW p \in Nat, p = Pops(file, Code[pc]),
         NEW n \in Nat, NEW boxes, IsSeq(boxes), Len(boxes) = n, Boxes(heap, n, boxes),
         NEW o, Allocating(boxes \o << o >>), ObjectTyped(file, heap', Len(heap) + n + 1, o),
         Stacked(p, <<Len(heap) + n + 1>>)
  PROVE  Unwritten
<1>1. status = "running" /\ p <= Len(Top.stack)
  BY DEF Fetched
<1>2. /\ IsSeq(heap) /\ Len(heap) \in Nat
  BY SeqDomain DEF TInv, HeapTyped
<1> DEFINE one == << o >>
<1>3. IsSeq(one) /\ Len(one) = 1 /\ one[1] = o
  BY ShortSeqs
<1>4. heap' = heap \o (boxes \o one)
  BY DEF Allocating
<1> HIDE DEF one
<1>5. Len(heap') = Len(heap) + n + 1 /\ Grown(heap, heap')
  <2>1. Boxed(heap, n, boxes, one, heap')
    BY <1>2, <1>3, <1>4, BoxesAppended, Zenon
  <2> QED
    BY <1>3, <2>1 DEF Boxed
<1>6. \A k \in 1..Len(one) : ObjectTyped(file, heap', Len(heap) + n + k, one[k])
  <2>1. \A k \in 1..Len(one) : k = 1
    BY <1>3
  <2> QED
    BY <1>3, <2>1
<1>7. HeapTyped(file, heap')
  BY <1>3, <1>4, <1>6, BoxesTyped DEF TInv
<1>8. IsObject(heap', Len(heap) + n + 1)
  BY <1>2, <1>5 DEF IsObject
<1>9. AllObjects(heap', <<Len(heap) + n + 1>>)
  BY <1>8, ShortObjects
<1>10. FramesTyped(file, heap', frames')
  BY <1>1, <1>5, <1>7, <1>9, GrownKeeps, StackedTyped
<1> QED
  BY <1>5, <1>7, <1>10 DEF Unwritten, TypedAfter

(* References to boxes.                                                     *)
LEMMA RefsToBoxes ==
  ASSUME NEW h, NEW n \in Nat, NEW boxes, NEW rest, NEW h2, Boxed(h, n, boxes, rest, h2),
         NEW S, NEW refs \in [1..n -> S],
         \A i \in 1..n : \E k \in 1..n : refs[i] = Len(h) + k
  PROVE  AllRefs(h2, refs) /\ Len(refs) = n
<1>1. IsSeq(refs) /\ Len(refs) = n
  BY SeqOfFunction
<1>2. \A i \in 1..n : IsRef(h2, refs[i])
  BY DEF Boxed
<1> QED
  BY <1>1, <1>2 DEF AllRefs

(* TUPLE: its elements, in the order of its names, boxed.                   *)
LEMMA TupleTyped ==
  ASSUME FilesVerified, ~CollectWhileHeld, TInv, Tuple
  PROVE  Unwritten
<1> DEFINE names == file.tuples[N]
           size == Len(names)
           safe == IF size = 0 THEN 1 ELSE 0
           keys == Reverse(names)
           boxes == [k \in 1..size |-> MakeRef(Resolved(k))]
           refs == [i \in 1..size |-> Len(heap) + size + 1 - i]
           tuple == Object("Tuple", 0, keys, refs)
<1>1. Fetched("TUPLE") /\ Stacked(size, <<Len(heap) + size + 1>>)
  BY DEF Tuple
<1>2. names \in Seq(Nat)
  <2>1. Verified(file, HeightsOf(file)) /\ Top.scheme \in DOMAIN Schemes
    BY <1>1, Running DEF Fetched, TInv
  <2>2. /\ WellFormed(file) /\ Code = file.functions[Top.scheme].code
        /\ Top.scheme \in DOMAIN file.functions
    BY <2>1 DEF Verified, Code, SchemeOf, Schemes
  <2> QED
    BY <1>1, <2>2 DEF WellFormed, N, Fetched
<1>3. size \in Nat /\ size = Pops(file, Code[pc])
  BY <1>1, <1>2, Arities
<1>4. IsSeq(keys) /\ Len(keys) = size
  <2>1. keys \in [1..size -> Nat]
    BY <1>2, SMTT(30) DEF Reverse
  <2> HIDE DEF keys, size
  <2> QED
    BY <1>3, <2>1, SeqOfFunction
<1>5. PICK c \in 0..safe :
        Allocating([k \in 1..size |-> MakeRef(IF c = k THEN Stale ELSE Resolved(k))]
           \o <<Object("Tuple", 0, keys, [i \in 1..size |-> IF c > size + 1 - i THEN Stale
                                                            ELSE Len(heap) + size + 1 - i])>>)
  BY SafeCollections DEF Tuple
<1>6. \A k \in 1..size : c # k /\ ~(c > size + 1 - k)
  BY <1>3
<1> HIDE DEF size, keys, safe
<1>7. [k \in 1..size |-> MakeRef(IF c = k THEN Stale ELSE Resolved(k))] = boxes
  BY <1>6
<1>8. [i \in 1..size |-> IF c > size + 1 - i THEN Stale ELSE Len(heap) + size + 1 - i] = refs
  BY <1>6
<1>9. Allocating(boxes \o <<tuple>>)
  BY <1>5, <1>7, <1>8
<1>10. IsSeq(boxes) /\ Len(boxes) = size
  <2>1. boxes \in [1..size -> {MakeRef(Resolved(k)) : k \in 1..size}]
    OBVIOUS
  <2> HIDE DEF boxes
  <2> QED
    BY <1>3, <2>1, SeqOfFunction
<1>11. Boxes(heap, size, boxes)
  <2>1. ASSUME NEW k \in 1..size
        PROVE  boxes[k] = MakeRef(Resolved(k)) /\ IsObject(heap, Resolved(k))
    <3>1. IsValue(heap, Resolved(k))
      BY <1>1, <1>3, Operands
    <3> QED
      BY <3>1 DEF IsValue, IsObject
  <2> HIDE DEF boxes
  <2> QED
    BY <2>1 DEF Boxes
<1>12. /\ refs \in [1..size -> {Len(heap) + size + 1 - i : i \in 1..size}]
       /\ \A i \in 1..size : \E k \in 1..size : refs[i] = Len(heap) + k
  <2>1. Len(heap) \in Nat
    BY SeqDomain DEF TInv, HeapTyped
  <2>2. \A i \in 1..size : size + 1 - i \in 1..size /\ refs[i] = Len(heap) + (size + 1 - i)
    BY <1>3, <2>1
  <2> QED
    BY <2>2
<1> HIDE DEF boxes, refs
<1>13. AllRefs(heap', refs) /\ Len(refs) = size
  <2>1. IsSeq(<<tuple>>) /\ IsSeq(heap)
    BY ShortSeqs DEF TInv, HeapTyped
  <2>2. heap' = heap \o (boxes \o <<tuple>>)
    BY <1>9 DEF Allocating
  <2> HIDE DEF tuple
  <2>3. Boxed(heap, size, boxes, <<tuple>>, heap')
    BY <1>3, <1>10, <1>11, <2>1, <2>2, BoxesAppended, Zenon
  <2> QED
    BY <1>3, <1>12, <2>3, RefsToBoxes
<1>14. ObjectTyped(file, heap', Len(heap) + size + 1, tuple)
  BY <1>4, <1>13, AggregateObject
<1> HIDE DEF tuple
<1> QED
  BY <1>1, <1>3, <1>9, <1>10, <1>11, <1>14, MakesBoxed

(* CLOSURE: one reference for each capture of the scheme.                   *)
LEMMA ClosureTyped ==
  ASSUME FilesVerified, ~CollectWhileHeld, TInv, Closure
  PROVE  Unwritten
<1> DEFINE capture == Schemes[N].capture
           size == Len(capture)
           safe == IF size = 0 THEN 1 ELSE 0
           captured(k) == Variable(capture[k].type, capture[k].index)
           boxes == [k \in 1..size |-> MakeRef(captured(k))]
           refs == [k \in 1..size |-> Len(heap) + k]
           func == Object("Func", N, << >>, refs)
<1>1. Fetched("CLOSURE") /\ Stacked(0, <<Len(heap) + size + 1>>)
  BY DEF Closure
<1>2. N \in DOMAIN Schemes /\ IsSeq(capture)
  <2>1. N \in DOMAIN Schemes
    BY <1>1, Immediates DEF TInv
  <2>2. Verified(file, HeightsOf(file))
    BY <1>1, Running DEF Fetched, TInv
  <2> QED
    BY <2>1, <2>2, VerifiedEntry DEF Schemes
<1>3. size \in Nat /\ 0 = Pops(file, Code[pc])
  BY <1>1, <1>2, Arities, SeqDomain
<1>4. PICK c \in 0..safe :
        Allocating([k \in 1..size |-> MakeRef(IF c = k THEN Stale ELSE captured(k))]
           \o <<Object("Func", N, << >>, [k \in 1..size |-> IF c > k THEN Stale
                                                            ELSE Len(heap) + k])>>)
  BY SafeCollections DEF Closure
<1>5. \A k \in 1..size : c # k /\ ~(c > k)
  BY <1>3
<1>6. \A k \in 1..size : IsObject(heap, captured(k))
  BY <1>1, Variables DEF IsRef, IsObject
<1> HIDE DEF size, safe, captured
<1>7. [k \in 1..size |-> MakeRef(IF c = k THEN Stale ELSE captured(k))] = boxes
  BY <1>5
<1>8. [k \in 1..size |-> IF c > k THEN Stale ELSE Len(heap) + k] = refs
  BY <1>5
<1>9. Allocating(boxes \o <<func>>)
  BY <1>4, <1>7, <1>8
<1>10. IsSeq(boxes) /\ Len(boxes) = size
  <2>1. boxes \in [1..size -> {MakeRef(captured(k)) : k \in 1..size}]
    OBVIOUS
  <2> HIDE DEF boxes
  <2> QED
    BY <1>3, <2>1, SeqOfFunction
<1>11. Boxes(heap, size, boxes)
  <2>1. \A k \in 1..size : boxes[k] = MakeRef(captured(k))
    OBVIOUS
  <2> HIDE DEF boxes
  <2> QED
    BY <1>6, <2>1 DEF Boxes
<1>12. /\ refs \in [1..size -> {Len(heap) + i : i \in 1..size}]
       /\ \A i \in 1..size : refs[i] = Len(heap) + i
  OBVIOUS
<1>13. \A i \in 1..size : \E k \in 1..size : refs[i] = Len(heap) + k
  BY <1>12
<1> HIDE DEF boxes, refs
<1>14. AllRefs(heap', refs) /\ Len(refs) = size
  <2>1. IsSeq(<<func>>) /\ IsSeq(heap)
    BY ShortSeqs DEF TInv, HeapTyped
  <2>2. heap' = heap \o (boxes \o <<func>>)
    BY <1>9 DEF Allocating
  <2> HIDE DEF func
  <2>3. Boxed(heap, size, boxes, <<func>>, heap')
    BY <1>3, <1>10, <1>11, <2>1, <2>2, BoxesAppended, Zenon
  <2> QED
    BY <1>3, <1>12, <1>13, <2>3, RefsToBoxes, ZenonT(30)
<1>15. ObjectTyped(file, heap', Len(heap) + size + 1, func)
  <2>1. /\ func.type = "Func" /\ func.num = N /\ func.refs = refs
        /\ func = Object(func.type, func.num, func.keys, func.refs)
    BY DEF Object
  <2> HIDE DEF func
  <2>2. FunctionTyped(file, heap', func)
    BY <1>2, <1>14, <2>1 DEF FunctionTyped, Schemes, size
  <2>3. "Func" \notin Plain
    BY DEF Plain
  <2> QED
    BY <2>1, <2>2, <2>3 DEF ObjectTyped
<1> HIDE DEF func
<1> QED
  BY <1>1, <1>3, <1>9, <1>10, <1>11, <1>15, MakesBoxed

(* A frame above the others.                                                *)
LEMMA PushedFrame ==
  ASSUME NEW f, NEW h, NEW fs, IsSeq(fs), FramesTyped(f, h, fs), NEW g, FrameTyped(f, h, g)
  PROVE  FramesTyped(f, h, Append(fs, g))
<1> DEFINE D == Len(fs)
           gs == Append(fs, g)
<1>1. D \in Nat
  BY SeqDomain
<1>2. Len(gs) = D + 1
  BY SeqAppend
<1>3. \A d \in 1..D : gs[d] = fs[d]
  BY SeqAppend
<1>4. gs[D + 1] = g
  BY SeqAppend
<1> HIDE DEF gs
<1>5. \A d \in 1..Len(gs) : d \in 1..D \/ d = D + 1
  BY <1>1, <1>2
<1>6. \A d \in 1..D : FrameTyped(f, h, fs[d])
  BY DEF FramesTyped
<1>7. \A d \in 1..Len(gs) : FrameTyped(f, h, gs[d])
  BY <1>3, <1>4, <1>5, <1>6
<1>8. FramesTyped(f, h, gs)
  BY <1>7 DEF FramesTyped
<1> QED
  BY <1>8 DEF gs

(* The variables of a new frame are the references made for them.           *)
LEMMA NewFrameTyped ==
  ASSUME NEW h, IsSeq(h), NEW s \in DOMAIN Schemes,
         NEW l \in Nat, l = Schemes[s].locals, NEW a \in Nat, a = Schemes[s].args,
         NEW boxes, NEW rest, Len(rest) = a, Boxes(h, a, rest), NEW h2, Boxed(h, l, boxes, rest, h2),
         NEW captured, AllRefs(h2, captured), Len(captured) = Len(Schemes[s].capture),
         NEW return, NEW base, NEW g, g = NewFrame(s, return, base, Len(h) + 1, captured)
  PROVE  FrameTyped(file, h2, g)
<1> DEFINE locals == [i \in 1..Schemes[s].locals |-> Len(h) + 1 + i - 1]
           args == [i \in 1..Schemes[s].args |-> Len(h) + 1 + Schemes[s].locals + i - 1]
<1>1. /\ g.scheme = s /\ g.locals = locals /\ g.args = args /\ g.captured = captured
      /\ g.stack = << >>
  BY DEF NewFrame
<1>2. Len(h) \in Nat
  BY SeqDomain
<1>3. AllRefs(h2, locals) /\ Len(locals) = l
  <2>1. locals \in [1..l -> {Len(h) + 1 + i - 1 : i \in 1..l}]
    OBVIOUS
  <2>2. \A i \in 1..l : locals[i] = Len(h) + i
    BY <1>2
  <2> HIDE DEF locals
  <2>3. IsSeq(locals) /\ Len(locals) = l
    BY <2>1, SeqOfFunction
  <2>4. \A i \in 1..l : IsRef(h2, Len(h) + i)
    BY DEF Boxed
  <2> QED
    BY <2>2, <2>3, <2>4 DEF AllRefs
<1>4. AllRefs(h2, args) /\ Len(args) = a
  <2>1. args \in [1..a -> {Len(h) + 1 + l + i - 1 : i \in 1..a}]
    OBVIOUS
  <2>2. \A i \in 1..a : args[i] = Len(h) + l + i
    <3>1. \A i \in 1..a : args[i] = Len(h) + 1 + Schemes[s].locals + i - 1
      OBVIOUS
    <3> HIDE DEF args
    <3>2. \A i \in 1..a : Len(h) + 1 + l + i - 1 = Len(h) + l + i
      BY <1>2
    <3> QED
      BY <3>1, <3>2
  <2> HIDE DEF args
  <2>3. IsSeq(args) /\ Len(args) = a
    BY <2>1, SeqOfFunction
  <2>4. ASSUME NEW i \in 1..a
        PROVE  IsRef(h2, Len(h) + l + i)
    <3>1. h2[Len(h) + l + i] = rest[i] /\ Len(h2) = Len(h) + l + a
      BY DEF Boxed
    <3>2. PICK v : rest[i] = MakeRef(v)
      BY DEF Boxes
    <3>3. rest[i].type = "Ref"
      BY <3>2 DEF MakeRef, Object
    <3>4. Len(h) + l + i \in 1..Len(h2)
      BY <1>2, <3>1
    <3> QED
      BY <3>1, <3>3, <3>4 DEF IsRef
  <2> QED
    BY <2>2, <2>3, <2>4 DEF AllRefs
<1> HIDE DEF locals, args
<1> QED
  BY <1>1, <1>3, <1>4, ShortObjects DEF FrameTyped, Schemes

(* CALLC: the callee's variables are references made for it, its captures   *)
(* the function's.                                                          *)
LEMMA CallCTyped ==
  ASSUME FilesVerified, ~CollectWhileHeld, TInv, CallC
  PROVE  Unwritten
<1> DEFINE func == heap[Resolved(1)]
           s == func.num
           scheme == Schemes[s]
           l == scheme.locals
           n == N + 1
           argument(a) == [i \in 1..N |-> Resolved(1 + N + 1 - i)][a]
           base == Len(roots) - n
           locals == [j \in 1..l |-> MakeRef(NoneId)]
           boxes == [a \in 1..N |-> MakeRef(argument(a))]
           frame == NewFrame(s, pc + 1, base, New, func.refs)
           fs1 == Restacked(frames, DropLast(Top.stack, n))
<1>1. /\ s \in DOMAIN Schemes /\ IsSeq(func.refs) /\ l \in Nat /\ N \in Nat /\ Fetched("CALLC")
  BY CalledFunction DEF TInv
<1>2. /\ Resolved(1) \in DOMAIN heap /\ func.type = "Func" /\ scheme.args = N
  BY DEF CallC
<1>3. PICK c \in {0} :
        /\ Allocating([j \in 1..l |-> MakeRef(IF c = j THEN Stale ELSE NoneId)]
              \o [a \in 1..N |-> MakeRef(IF 0 < c /\ c <= l + a THEN Stale ELSE argument(a))])
        /\ frames' = Append(fs1, NewFrame(s, pc + 1, base, New,
                                    [k \in DOMAIN func.refs |-> IF c > 0 THEN Stale
                                                              ELSE func.refs[k]]))
  <2>1. fs1 = [frames EXCEPT ![Depth].stack = DropLast(@, n)]
    BY DEF Restacked, Top, Depth
  <2>2. \A c \in Collections(0, l + scheme.args) : c = 0
    BY SafeCollections
  <2> HIDE DEF fs1
  <2> QED
    BY <2>1, <2>2 DEF CallC
<1>4. /\ status = "running" /\ n \in Nat /\ n = Pops(file, Code[pc]) /\ n <= Len(Top.stack)
  BY <1>1, Arities DEF Fetched
<1>5. ObjectTyped(file, heap, Resolved(1), func)
  <2>1. 1 \in 1..n
    BY <1>4, <1>1
  <2> QED
    BY <1>1, <1>4, <2>1, Operands
<1>6. AllRefs(heap, func.refs) /\ Len(func.refs) = Len(scheme.capture)
  BY <1>2, <1>5 DEF ObjectTyped, FunctionTyped, Schemes
<1>10. [k \in DOMAIN func.refs |-> IF c > 0 THEN Stale ELSE func.refs[k]] = func.refs
  BY <1>1 DEF IsSeq
<1> HIDE DEF argument, fs1, base, l, s
<1>11. [j \in 1..l |-> MakeRef(IF c = j THEN Stale ELSE NoneId)] = locals
  BY <1>1
<1>12. [a \in 1..N |-> MakeRef(IF 0 < c /\ c <= l + a THEN Stale ELSE argument(a))] = boxes
  OBVIOUS
<1>13. heap' = heap \o (locals \o boxes) /\ frames' = Append(fs1, frame)
  BY <1>3, <1>10, <1>11, <1>12 DEF Allocating
<1>14. IsSeq(locals) /\ Len(locals) = l /\ Boxes(heap, l, locals)
  <2>1. locals \in [1..l -> {MakeRef(NoneId)}] /\ \A k \in 1..l : locals[k] = MakeRef(NoneId)
    OBVIOUS
  <2>2. IsObject(heap, NoneId)
    BY DEF TInv, HeapTyped, IsValue, IsObject
  <2> HIDE DEF locals
  <2> QED
    BY <1>1, <2>1, <2>2, SeqOfFunction DEF Boxes
<1>15. IsSeq(boxes) /\ Len(boxes) = N /\ Boxes(heap, N, boxes)
  <2>1. boxes \in [1..N -> {MakeRef(argument(a)) : a \in 1..N}]
    OBVIOUS
  <2>2. ASSUME NEW a \in 1..N
        PROVE  boxes[a] = MakeRef(argument(a)) /\ IsObject(heap, argument(a))
    <3>1. argument(a) = Resolved(1 + N + 1 - a) /\ 1 + N + 1 - a \in 1..n
      BY <1>1 DEF argument
    <3>2. IsValue(heap, argument(a))
      BY <1>1, <1>4, <3>1, Operands
    <3> QED
      BY <3>2 DEF IsValue, IsObject
  <2> HIDE DEF boxes
  <2>3. IsSeq(boxes) /\ Len(boxes) = N
    BY <1>1, <2>1, SeqOfFunction
  <2> QED
    BY <2>2, <2>3 DEF Boxes
<1> HIDE DEF locals, boxes, frame, n
<1>16. IsSeq(heap) /\ Len(heap) \in Nat /\ HeapTyped(file, heap)
  BY SeqDomain DEF TInv, HeapTyped
<1>17. Boxed(heap, l, locals, boxes, heap')
  BY <1>1, <1>13, <1>14, <1>15, <1>16, BoxesAppended, Zenon
<1>18. Grown(heap, heap') /\ IsSeq(heap')
  BY <1>17 DEF Boxed
<1>19. HeapTyped(file, heap')
  <2>1. \A k \in 1..Len(boxes) : ObjectTyped(file, heap', Len(heap) + l + k, boxes[k])
    <3>1. ASSUME NEW k \in 1..N
          PROVE  ObjectTyped(file, heap', Len(heap) + l + k, boxes[k])
      <4>1. PICK v : boxes[k] = MakeRef(v) /\ IsObject(heap, v)
        BY <1>15 DEF Boxes
      <4>2. Len(heap) + l + k \in Nat /\ Len(heap) + l + k > Len(heap)
        BY <1>1, <1>16
      <4> QED
        BY <1>16, <1>18, <4>1, <4>2, BoxTyped
    <3> QED
      BY <1>15, <3>1
  <2> QED
    BY <1>1, <1>13, <1>14, <1>15, <1>16, <2>1, BoxesTyped, Zenon
<1>20. FrameTyped(file, heap', frame)
  <2>1. AllRefs(heap', func.refs)
    BY <1>6, <1>16, <1>18, GrownKeeps, KeptPointers
  <2>2. frame = NewFrame(s, pc + 1, base, Len(heap) + 1, func.refs)
    BY DEF frame, New
  <2> QED
    BY <1>1, <1>2, <1>6, <1>15, <1>16, <1>17, <2>1, <2>2, NewFrameTyped DEF l
<1>21. FramesTyped(file, heap', fs1) /\ IsSeq(fs1)
  <2>1. /\ FrameOK(Top) /\ IsSeq(frames) /\ Len(frames) > 0 /\ Top = frames[Len(frames)]
        /\ FrameTyped(file, heap, Top) /\ Len(Top.stack) \in Nat
    BY <1>4, TopTyped
  <2>2. FramesTyped(file, heap', frames)
    BY <1>16, <1>18, GrownKeeps, KeptFrames DEF TInv
  <2>3. AllObjects(heap', Top.stack)
    BY <1>16, <1>18, <2>1, GrownKeeps, KeptPointers DEF FrameTyped
  <2>4. AllObjects(heap', DropLast(Top.stack, n))
    <3>1. n \in 0..Len(Top.stack) /\ IsSeq(Top.stack)
      BY <1>4, <2>1, <2>3 DEF AllObjects
    <3>2. IsSeq(DropLast(Top.stack, n))
      BY <3>1, SeqDropLast
    <3>3. DropLast(Top.stack, n) \o << >> = DropLast(Top.stack, n)
      BY <3>2, ShortSeqs, SeqEqualities
    <3>4. AllObjects(heap', DropLast(Top.stack, n) \o << >>)
      BY <1>4, <2>3, ShortObjects, ObjectsStacked
    <3> QED
      BY <3>3, <3>4
  <2> DEFINE k == DropLast(Top.stack, n)
  <2> HIDE DEF k
  <2>5. AllObjects(heap', k) /\ fs1 = Restacked(frames, k)
    BY <2>4 DEF k, fs1
  <2>6. FramesTyped(file, heap', Restacked(frames, k))
    BY <2>1, <2>2, <2>5, StackedFrames
  <2>7. IsSeq(Restacked(frames, k))
    <3>1. PICK D, g : D = Len(frames) /\ g = WithStack(frames[D], k)
      OBVIOUS
    <3>2. Restacked(frames, k) = [frames EXCEPT ![D] = g]
      BY <3>1 DEF Restacked, WithStack
    <3>3. IsSeq([frames EXCEPT ![D] = g])
      BY <2>1, SeqExcept
    <3> QED
      BY <3>2, <3>3
  <2> QED
    BY <2>5, <2>6, <2>7
<1>22. FramesTyped(file, heap', frames')
  BY <1>13, <1>20, <1>21, PushedFrame
<1> QED
  BY <1>18, <1>19, <1>22 DEF Unwritten, TypedAfter

-----------------------------------------------------------------------------
(* Arrays.                                                                  *)

(* t is s with e put at position at.                                        *)
PutIn(s, at, e, t) ==
  /\ IsSeq(t) /\ Len(t) = Len(s) + 1 /\ t[at] = e
  /\ \A i \in 1..Len(s) : i < at => t[i] = s[i]
  /\ \A i \in 1..Len(s) : i >= at => t[i + 1] = s[i]

(* What InsertAt does.                                                      *)
LEMMA SeqInsert ==
  ASSUME NEW s, IsSeq(s), NEW at \in 1..Len(s) + 1, NEW e
  PROVE  PutIn(s, at, e, InsertAt(s, at, e))
<1> DEFINE m == at - 1
           front == SubSeq(s, 1, m)
           back == SubSeq(s, at, Len(s))
           half == front \o << e >>
           whole == half \o back
<1>1. PICK S : s \in Seq(S)
  BY DEF IsSeq
<1>2. Len(s) \in Nat /\ m \in Nat /\ m <= Len(s) /\ at = m + 1
  BY <1>1
<1>3. InsertAt(s, at, e) = whole
  BY DEF InsertAt
<1> HIDE DEF m
<1>4. /\ IsSeq(front) /\ Len(front) = m /\ \A i \in 1..m : front[i] = s[i]
  <2>1. front \in Seq(S) /\ Len(front) = m
    BY <1>1, <1>2
  <2>2. \A i \in 1..m : front[i] = s[i]
    BY <1>1, <1>2
  <2> QED
    BY <2>1, <2>2 DEF IsSeq
<1>5. /\ IsSeq(back) /\ Len(back) = Len(s) - m
      /\ \A i \in 1..Len(s) - m : back[i] = s[m + i]
  <2>1. back \in Seq(S) /\ Len(back) = Len(s) - m
    BY <1>1, <1>2
  <2>2. \A i \in 1..Len(s) - m : back[i] = s[m + i]
    BY <1>1, <1>2
  <2> QED
    BY <2>1, <2>2 DEF IsSeq
<1> HIDE DEF front, back
<1>6. /\ IsSeq(half) /\ Len(half) = at /\ half[at] = e /\ \A i \in 1..m : half[i] = s[i]
  <2>1. half = Append(front, e)
    BY <1>4, SeqEqualities
  <2>2. IsSeq(Append(front, e)) /\ Len(Append(front, e)) = m + 1 /\ Append(front, e)[m + 1] = e
    BY <1>4, SeqAppend
  <2>3. \A i \in 1..m : Append(front, e)[i] = s[i]
    BY <1>4, SeqAppend
  <2> QED
    BY <1>2, <2>1, <2>2, <2>3
<1> HIDE DEF half
<1>7. /\ IsSeq(whole) /\ Len(whole) = at + (Len(s) - m)
      /\ \A i \in 1..at : whole[i] = half[i]
      /\ \A i \in 1..Len(s) - m : whole[at + i] = back[i]
  BY <1>5, <1>6, SeqConcat
<1> HIDE DEF whole
<1>8. Len(whole) = Len(s) + 1 /\ whole[at] = e
  BY <1>2, <1>6, <1>7
<1>9. \A i \in 1..Len(s) : i < at => whole[i] = s[i]
  <2>1. \A i \in 1..Len(s) : i < at => i \in 1..m /\ i \in 1..at
    BY <1>2
  <2> QED
    BY <1>6, <1>7, <2>1
<1>10. ASSUME NEW i \in 1..Len(s), i >= at
       PROVE  whole[i + 1] = s[i]
  <2>1. i - m \in 1..Len(s) - m /\ at + (i - m) = i + 1 /\ m + (i - m) = i
    BY <1>2, <1>10
  <2>2. whole[at + (i - m)] = back[i - m] /\ back[i - m] = s[m + (i - m)]
    BY <1>5, <1>7, <2>1
  <2> QED
    BY <2>1, <2>2
<1>11. PutIn(s, at, e, whole)
  BY <1>7, <1>8, <1>9, <1>10 DEF PutIn
<1> QED
  BY <1>3, <1>11

(* h2 is h but for the data of array x.                                     *)
Rewritten(h, x, keys, refs, h2) ==
  /\ IsSeq(h2) /\ Len(h2) = Len(h)
  /\ \A y \in 1..Len(h) : y # x => h2[y] = h[y]
  /\ h2[x] = Object("Array", h[x].num, keys, refs)

(* What writing both does.                                                  *)
LEMMA WrittenData ==
  ASSUME NEW h, IsSeq(h), NEW x \in 1..Len(h), h[x].type = "Array",
         h[x] = Object(h[x].type, h[x].num, h[x].keys, h[x].refs), NEW keys, NEW refs
  PROVE  /\ Rewritten(h, x, keys, refs, WithRefs(WithKeys(h, x, keys), x, refs))
         /\ Rewritten(h, x, h[x].keys, refs, WithRefs(h, x, refs))
         /\ WithKeys(h, x, keys)[x].refs = h[x].refs
<1> DEFINE o == [h[x] EXCEPT !.keys = keys]
           t == [h EXCEPT ![x] = o]
<1>1. WithKeys(h, x, keys) = t
  BY DEF WithKeys
<1>2. o = Object("Array", h[x].num, keys, h[x].refs)
  BY DEF Object
<1> HIDE DEF o
<1>3. IsSeq(t) /\ Len(t) = Len(h)
  BY SeqExcept
<1>4. \A j \in 1..Len(h) : t[j] = IF j = x THEN o ELSE h[j]
  BY SeqExcept
<1> HIDE DEF t
<1>5. /\ t[x] = Object("Array", h[x].num, keys, h[x].refs)
      /\ t[x].type = "Array" /\ t[x].num = h[x].num /\ t[x].keys = keys /\ t[x].refs = h[x].refs
  BY <1>2, <1>4 DEF Object
<1>6. Rewritten(h, x, keys, refs, WithRefs(t, x, refs))
  <2> DEFINE u == WithRefs(t, x, refs)
  <2>1. x \in 1..Len(t) /\ t[x] = Object(t[x].type, t[x].num, t[x].keys, t[x].refs)
    BY <1>3, <1>5
  <2>2. /\ IsSeq(u) /\ Len(u) = Len(t)
        /\ \A y \in 1..Len(t) : y # x => u[y] = t[y]
        /\ u[x] = Object(t[x].type, t[x].num, t[x].keys, refs)
    BY <1>3, <2>1, WrittenRefs
  <2> HIDE DEF u
  <2>3. Rewritten(h, x, keys, refs, u)
    BY <1>3, <1>4, <1>5, <2>2 DEF Rewritten
  <2> QED
    BY <2>3 DEF u
<1>7. Rewritten(h, x, h[x].keys, refs, WithRefs(h, x, refs))
  <2> DEFINE u == WithRefs(h, x, refs)
  <2>1. /\ IsSeq(u) /\ Len(u) = Len(h)
        /\ \A y \in 1..Len(h) : y # x => u[y] = h[y]
        /\ u[x] = Object(h[x].type, h[x].num, h[x].keys, refs)
    BY WrittenRefs
  <2> HIDE DEF u
  <2>2. Rewritten(h, x, h[x].keys, refs, u)
    BY <2>1 DEF Rewritten
  <2> QED
    BY <2>2 DEF u
<1> QED
  BY <1>1, <1>5, <1>6, <1>7

(* replace_array_data puts key and reference at one position.               *)
LEMMA InsertedIs ==
  ASSUME HeapTyped(file, heap), NEW x \in 1..Len(heap), heap[x].type = "Array", NEW key, NEW ref,
         NEW at \in Places(x, key)
  PROVE  \E keys, refs :
            /\ at \in 1..Len(heap[x].keys) + 1
            /\ PutIn(heap[x].keys, at, key, keys) /\ PutIn(heap[x].refs, at, ref, refs)
            /\ Rewritten(heap, x, keys, refs, Inserted(x, at, key, ref))
<1> DEFINE keys == InsertAt(heap[x].keys, at, key)
           refs == InsertAt(heap[x].refs, at, ref)
<1>1. /\ heap[x] = Object(heap[x].type, heap[x].num, heap[x].keys, heap[x].refs)
      /\ AggregateTyped(heap, heap[x]) /\ IsSeq(heap)
  BY DEF HeapTyped, ObjectTyped
<1>2. IsSeq(heap[x].keys) /\ IsSeq(heap[x].refs) /\ Len(heap[x].keys) = Len(heap[x].refs)
  BY <1>1 DEF AggregateTyped, AllRefs
<1>3. at \in 1..Len(heap[x].keys) + 1
  BY DEF Places
<1>4. WithKeys(heap, x, keys)[x].refs = heap[x].refs
  BY <1>1, WrittenData
<1>5. Inserted(x, at, key, ref) = WithRefs(WithKeys(heap, x, keys), x, refs)
  <2>1. Inserted(x, at, key, ref)
          = WithRefs(WithKeys(heap, x, keys), x, InsertAt(WithKeys(heap, x, keys)[x].refs, at, ref))
    BY DEF Inserted, WithKeys, WithRefs
  <2> QED
    BY <1>4, <2>1
<1>6. PutIn(heap[x].keys, at, key, keys) /\ PutIn(heap[x].refs, at, ref, refs)
  BY <1>2, <1>3, SeqInsert
<1>7. Rewritten(heap, x, keys, refs, WithRefs(WithKeys(heap, x, keys), x, refs))
  BY <1>1, WrittenData
<1> HIDE DEF keys, refs
<1> QED
  BY <1>3, <1>5, <1>6, <1>7

(* What that makes of the heap.                                             *)
ElementIn(f, h, x, keys, refs, h2) ==
  /\ HeapTyped(f, h2) /\ KeepsTypes(h, h2) /\ IsObject(h2, Len(h) + 1)
  /\ \A y \in 1..Len(h) : y # x => h2[y] = h[y]
  /\ h2[x] = Object("Array", h[x].num, keys, refs)

(* A new reference at the end of the heap, an element of array x.           *)
LEMMA ElementPut ==
  ASSUME NEW f, NEW h, HeapTyped(f, h), NEW x \in 1..Len(h), h[x].type = "Array",
         NEW keys, IsSeq(keys), NEW refs, IsSeq(refs), Len(keys) = Len(refs),
         \A i \in 1..Len(refs) : IsRef(h, refs[i]) \/ refs[i] = Len(h) + 1,
         NEW h1, Rewritten(h, x, keys, refs, h1), NEW v, IsValue(h, v),
         NEW h2, h2 = Append(h1, MakeRef(v))
  PROVE  ElementIn(f, h, x, keys, refs, h2)
<1> DEFINE o == Object("Array", h[x].num, keys, refs)
<1>1. IsSeq(h) /\ Len(h) \in Nat
  BY SeqDomain DEF HeapTyped
<1>2. IsSeq(h1) /\ Len(h1) = Len(h)
  BY DEF Rewritten
<1>3. /\ IsSeq(h2) /\ Len(h2) = Len(h) + 1 /\ h2[Len(h) + 1] = MakeRef(v)
      /\ \A y \in 1..Len(h) : h2[y] = h1[y]
  BY <1>2, SeqAppend, SMTT(30)
<1>4. /\ \A y \in 1..Len(h) : y # x => h2[y] = h[y]
      /\ h2[x] = o
  BY <1>3 DEF Rewritten
<1>5. /\ o.type = "Array" /\ o.keys = keys /\ o.refs = refs /\ o = Object(o.type, o.num, o.keys, o.refs)
  BY DEF Object
<1> HIDE DEF o
<1>6. KeepsTypes(h, h2)
  BY <1>1, <1>3, <1>4, <1>5 DEF KeepsTypes
<1>7. (\A r : IsRef(h, r) => IsRef(h2, r)) /\ (\A w : IsValue(h, w) => IsValue(h2, w))
  BY <1>1, <1>3, <1>6, KeptPointers
<1>8. MakeRef(v).type = "Ref"
  BY DEF MakeRef, Object
<1>9. IsRef(h2, Len(h) + 1)
  BY <1>1, <1>3, <1>8 DEF IsRef
<1>10. AllRefs(h2, refs)
  BY <1>7, <1>9 DEF AllRefs
<1>11. ObjectTyped(f, h2, x, h2[x])
  <2>1. AggregateTyped(h2, o)
    BY <1>5, <1>10 DEF AggregateTyped
  <2>2. ObjectTyped(f, h2, x, o)
    BY <1>5, <2>1 DEF ObjectTyped, Plain
  <2> QED
    BY <1>4, <2>2
<1>12. ObjectTyped(f, h2, Len(h) + 1, h2[Len(h) + 1])
  <2>1. IsValue(h2, v)
    BY <1>7
  <2>2. \A y, w : IsValue(h2, w) => ObjectTyped(f, h2, y, MakeRef(w))
    BY SimpleObjects
  <2> QED
    BY <1>3, <2>1, <2>2
<1>13. HeapTyped(f, h2)
  <2>1. \A y \in 1..Len(h) : \/ h2[y] = h[y]
                             \/ h2[y].type = h[y].type /\ ObjectTyped(f, h2, y, h2[y])
    BY <1>4, <1>5, <1>11
  <2>2. \A y \in 1..Len(h2) : y > Len(h) => y = Len(h) + 1
    BY <1>1, <1>3
  <2>3. \A y \in 1..Len(h2) : y > Len(h) => ObjectTyped(f, h2, y, h2[y])
    BY <1>12, <2>2
  <2>4. Len(h) <= Len(h2)
    BY <1>1, <1>3
  <2> QED
    BY <1>3, <2>1, <2>3, <2>4, HeapStep
<1> QED
  BY <1>4, <1>6, <1>9, <1>13 DEF IsRef, IsObject, ElementIn, o

(* Of the objects there were, only array x is written to, and its elements  *)
(* stay where they are but for one that STA replaces.                       *)
ElementStays(o, o2, i) ==
  \E j \in 1..Len(o2.keys) : o2.keys[j] = o.keys[i] /\ o2.refs[j] = o.refs[i]

ArrayWritten(x) ==
  /\ x \in 1..Len(heap) /\ heap[x].type = "Array" /\ KeepsTypes(heap, heap')
  /\ \A y \in 1..Len(heap) : y # x => heap'[y] = heap[y]
  /\ \A i \in 1..Len(heap[x].keys) :
        \/ ElementStays(heap[x], heap'[x], i)
        \/ Executes("STA") /\ x = Resolved(3) /\ heap[x].keys[i] = heap[Resolved(2)].num

(* A key and a reference inserted at one position move elements up.         *)
LEMMA InsertedElements ==
  ASSUME NEW o, NEW n \in Nat, n = Len(o.keys), n = Len(o.refs), NEW at \in 1..n + 1,
         NEW key, NEW ref, NEW o2, PutIn(o.keys, at, key, o2.keys), PutIn(o.refs, at, ref, o2.refs),
         NEW i \in 1..n
  PROVE  ElementStays(o, o2, i)
<1>1. Len(o2.keys) = n + 1
  BY DEF PutIn
<1>2. CASE i < at
  <2>1. i \in 1..n + 1 /\ o2.keys[i] = o.keys[i] /\ o2.refs[i] = o.refs[i]
    BY <1>2 DEF PutIn
  <2> QED
    BY <1>1, <2>1 DEF ElementStays
<1>3. CASE ~(i < at)
  <2>1. i + 1 \in 1..n + 1 /\ i >= at
    BY <1>3
  <2>2. o2.keys[i + 1] = o.keys[i] /\ o2.refs[i + 1] = o.refs[i]
    BY <2>1 DEF PutIn
  <2> QED
    BY <1>1, <2>1, <2>2 DEF ElementStays
<1> QED
  BY <1>2, <1>3

(* A new element.                                                           *)
LEMMA InsertStep ==
  ASSUME HeapTyped(file, heap), NEW x \in 1..Len(heap), heap[x].type = "Array", NEW key,
         NEW at \in Places(x, key), NEW v, IsValue(heap, v),
         heap' = Append(Inserted(x, at, key, New), MakeRef(v))
  PROVE  /\ HeapTyped(file, heap') /\ KeepsTypes(heap, heap') /\ IsObject(heap', New)
         /\ ArrayWritten(x)
<1>1. PICK keys, refs :
         /\ at \in 1..Len(heap[x].keys) + 1
         /\ PutIn(heap[x].keys, at, key, keys) /\ PutIn(heap[x].refs, at, New, refs)
         /\ Rewritten(heap, x, keys, refs, Inserted(x, at, key, New))
  BY InsertedIs
<1> DEFINE n == Len(heap[x].keys)
<1>2. AllRefs(heap, heap[x].refs) /\ IsSeq(heap[x].keys) /\ n = Len(heap[x].refs)
  BY DEF HeapTyped, ObjectTyped, AggregateTyped
<1>3. n \in Nat /\ at \in 1..n + 1
  BY <1>1, <1>2, SeqDomain
<1> HIDE DEF n
<1>4. /\ IsSeq(keys) /\ IsSeq(refs) /\ Len(keys) = n + 1 /\ Len(refs) = n + 1
  BY <1>1, <1>2 DEF PutIn, n
<1>5. ASSUME NEW i \in 1..Len(refs)
      PROVE  IsRef(heap, refs[i]) \/ refs[i] = Len(heap) + 1
  <2>1. CASE i = at
    BY <1>1, <2>1 DEF PutIn, New
  <2>2. CASE i < at
    <3>1. i \in 1..n
      BY <1>3, <1>4, <2>2
    <3>2. refs[i] = heap[x].refs[i]
      BY <1>1, <1>2, <2>2, <3>1 DEF PutIn
    <3> QED
      BY <1>2, <3>1, <3>2 DEF AllRefs
  <2>3. CASE i > at
    <3>1. i - 1 \in 1..n /\ i - 1 >= at /\ (i - 1) + 1 = i
      BY <1>3, <1>4, <2>3
    <3>2. refs[(i - 1) + 1] = heap[x].refs[i - 1]
      BY <1>1, <1>2, <3>1 DEF PutIn
    <3> QED
      BY <1>2, <3>1, <3>2 DEF AllRefs
  <2> QED
    BY <1>3, <1>4, <2>1, <2>2, <2>3
<1>6. /\ HeapTyped(file, heap') /\ KeepsTypes(heap, heap') /\ IsObject(heap', Len(heap) + 1)
      /\ \A y \in 1..Len(heap) : y # x => heap'[y] = heap[y]
      /\ heap'[x] = Object("Array", heap[x].num, keys, refs)
  <2>1. PICK h1 : h1 = Inserted(x, at, key, New)
    OBVIOUS
  <2>2. Rewritten(heap, x, keys, refs, h1) /\ heap' = Append(h1, MakeRef(v))
    BY <1>1, <2>1
  <2>3. Len(keys) = Len(refs)
    BY <1>4
  <2>4. ElementIn(file, heap, x, keys, refs, heap')
    BY <1>4, <1>5, <2>2, <2>3, ElementPut
  <2> QED
    BY <2>4 DEF ElementIn
<1>7. heap'[x].keys = keys /\ heap'[x].refs = refs
  BY <1>6 DEF Object
<1>8. \A i \in 1..n : ElementStays(heap[x], heap'[x], i)
  <2>1. PutIn(heap[x].keys, at, key, heap'[x].keys) /\ PutIn(heap[x].refs, at, New, heap'[x].refs)
    BY <1>1, <1>7
  <2> QED
    BY <1>2, <1>3, <2>1, InsertedElements DEF n
<1> QED
  BY <1>6, <1>8 DEF ArrayWritten, New, n

(* STA of an element that there is.                                         *)
LEMMA ReplaceStep ==
  ASSUME HeapTyped(file, heap), Executes("STA"), NEW x \in 1..Len(heap), heap[x].type = "Array",
         x = Resolved(3), NEW key, key = heap[Resolved(2)].num, key \in Range(heap[x].keys),
         NEW v, IsValue(heap, v),
         heap' = Append([heap EXCEPT ![x].refs[PositionOf(x, key)] = New], MakeRef(v))
  PROVE  /\ HeapTyped(file, heap') /\ KeepsTypes(heap, heap') /\ IsObject(heap', New)
         /\ ArrayWritten(x)
<1>1. PICK p, refs : p = PositionOf(x, key) /\ refs = [heap[x].refs EXCEPT ![p] = New]
  OBVIOUS
<1>2. /\ heap[x] = Object(heap[x].type, heap[x].num, heap[x].keys, heap[x].refs)
      /\ AllRefs(heap, heap[x].refs) /\ IsSeq(heap[x].keys) /\ Len(heap[x].keys) = Len(heap[x].refs)
      /\ IsSeq(heap) /\ IsSeq(heap[x].refs)
  BY DEF HeapTyped, ObjectTyped, AggregateTyped, AllRefs
<1>3. p \in 1..Len(heap[x].refs) /\ heap[x].keys[p] = key
  BY <1>1, PositionTyped
<1>4. /\ IsSeq(refs) /\ Len(refs) = Len(heap[x].refs)
      /\ \A j \in 1..Len(heap[x].refs) : refs[j] = IF j = p THEN New ELSE heap[x].refs[j]
  <2>1. PICK r, new : r = heap[x].refs /\ new = New
    OBVIOUS
  <2>2. IsSeq(r) /\ refs = [r EXCEPT ![p] = new]
    BY <1>1, <1>2, <2>1
  <2> DEFINE t == [r EXCEPT ![p] = new]
  <2>3. IsSeq(t)
    BY <2>2, SeqExcept
  <2>4. Len(t) = Len(r)
    BY <2>2, SeqExcept
  <2>5. \A j \in 1..Len(r) : t[j] = IF j = p THEN new ELSE r[j]
    BY <2>2, SeqExcept
  <2>6. refs = t
    BY <2>2
  <2> HIDE DEF t
  <2> QED
    BY <2>1, <2>3, <2>4, <2>5, <2>6
<1>5. heap' = Append(WithRefs(heap, x, refs), MakeRef(v))
  BY <1>1 DEF WithRefs
<1>6. Rewritten(heap, x, heap[x].keys, refs, WithRefs(heap, x, refs))
  BY <1>2, WrittenData
<1>7. \A j \in 1..Len(refs) : IsRef(heap, refs[j]) \/ refs[j] = Len(heap) + 1
  BY <1>2, <1>4 DEF AllRefs, New
<1>8. /\ HeapTyped(file, heap') /\ KeepsTypes(heap, heap') /\ IsObject(heap', Len(heap) + 1)
      /\ \A y \in 1..Len(heap) : y # x => heap'[y] = heap[y]
      /\ heap'[x] = Object("Array", heap[x].num, heap[x].keys, refs)
  <2>1. PICK h1 : h1 = WithRefs(heap, x, refs)
    OBVIOUS
  <2>2. Rewritten(heap, x, heap[x].keys, refs, h1) /\ heap' = Append(h1, MakeRef(v))
    BY <1>5, <1>6, <2>1
  <2>3. Len(heap[x].keys) = Len(refs)
    BY <1>2, <1>4
  <2>4. ElementIn(file, heap, x, heap[x].keys, refs, heap')
    BY <1>2, <1>4, <1>7, <2>2, <2>3, ElementPut
  <2> QED
    BY <2>4 DEF ElementIn
<1>9. heap'[x].keys = heap[x].keys /\ heap'[x].refs = refs
  BY <1>8 DEF Object
<1>10. ASSUME NEW i \in 1..Len(heap[x].keys)
       PROVE  \/ ElementStays(heap[x], heap'[x], i)
              \/ heap[x].keys[i] = heap[Resolved(2)].num
  <2>1. CASE i = p
    BY <1>3, <2>1
  <2>2. CASE i # p
    <3>1. heap'[x].refs[i] = heap[x].refs[i]
      BY <1>2, <1>4, <1>9, <2>2
    <3> QED
      BY <1>9, <3>1 DEF ElementStays
  <2> QED
    BY <2>1, <2>2
<1> QED
  BY <1>8, <1>10 DEF ArrayWritten, New

(* LDA of an index that is not there.                                       *)
LEMMA LdaInsertsTyped ==
  ASSUME FilesVerified, TInv, LdaInserts
  PROVE  TypedAfter /\ \E x : ArrayWritten(x)
<1>1. PICK x, key, at :
         /\ x = Resolved(2) /\ heap[x].type = "Array" /\ at \in Places(x, key)
         /\ heap' = Append(Inserted(x, at, key, New), MakeRef(NoneId))
  BY DEF LdaInserts, Indexable
<1>2. Fetched("LDA") /\ Stacked(2, <<New>>)
  BY DEF LdaInserts
<1>3. 2 = Pops(file, Code[pc]) /\ 2 \in 1..2 /\ status = "running" /\ 2 <= Len(Top.stack)
  BY <1>2, Arities DEF Fetched
<1>4. x \in 1..Len(heap)
  BY <1>1, <1>2, <1>3, Operands DEF IsValue
<1>5. HeapTyped(file, heap) /\ IsValue(heap, NoneId)
  BY DEF TInv, HeapTyped
<1>6. HeapTyped(file, heap') /\ KeepsTypes(heap, heap') /\ IsObject(heap', New) /\ ArrayWritten(x)
  BY <1>1, <1>4, <1>5, InsertStep
<1>7. AllObjects(heap', <<New>>)
  BY <1>6, ShortObjects
<1>8. FramesTyped(file, heap', frames')
  BY <1>2, <1>3, <1>6, <1>7, StackedTyped
<1> QED
  BY <1>6, <1>8 DEF TypedAfter

(* STA.                                                                     *)
LEMMA StaTyped ==
  ASSUME FilesVerified, TInv, Sta
  PROVE  TypedAfter /\ \E x : ArrayWritten(x)
<1>1. PICK x, key, v, at :
         /\ at \in Places(x, key)
         /\ x = Resolved(3) /\ heap[x].type = "Array" /\ key = heap[Resolved(2)].num
         /\ v = Resolved(1)
         /\ heap' = Append(IF key \in Range(heap[x].keys)
                           THEN [heap EXCEPT ![x].refs[PositionOf(x, key)] = New]
                           ELSE Inserted(x, at, key, New), MakeRef(v))
  BY DEF Sta, Indexable
<1>2. Fetched("STA") /\ Stacked(3, << >>)
  BY DEF Sta
<1>3. /\ 3 = Pops(file, Code[pc]) /\ 3 \in 1..3 /\ 1 \in 1..3 /\ status = "running"
      /\ 3 <= Len(Top.stack) /\ Executes("STA")
  BY <1>2, Arities DEF Fetched, Executes
<1>4. x \in 1..Len(heap) /\ IsValue(heap, v)
  BY <1>1, <1>2, <1>3, Operands DEF IsValue
<1>5. HeapTyped(file, heap)
  BY DEF TInv
<1>6. HeapTyped(file, heap') /\ KeepsTypes(heap, heap') /\ ArrayWritten(x)
  <2>1. CASE key \in Range(heap[x].keys)
    BY <1>1, <1>3, <1>4, <1>5, <2>1, ReplaceStep
  <2>2. CASE key \notin Range(heap[x].keys)
    BY <1>1, <1>4, <1>5, <2>2, InsertStep
  <2> QED
    BY <2>1, <2>2
<1>7. AllObjects(heap', << >>)
  BY ShortObjects
<1>8. FramesTyped(file, heap', frames')
  BY <1>2, <1>3, <1>6, <1>7, StackedTyped
<1> QED
  BY <1>6, <1>8 DEF TypedAfter

-----------------------------------------------------------------------------
(* Every step.                                                              *)

(* The operation of each instruction.                                       *)
LEMMA Operations ==
  /\ PushNone => Fetched("NONE")
  /\ PushLiteral => \E op \in {"CONST", "BOOL", "STRING"} : Fetched(op)
  /\ Ld => Fetched("LD")
  /\ Drop => Fetched("DROP")
  /\ Dup => Fetched("DUP")
  /\ Jmp => Fetched("JMP")
  /\ CJmpZ \/ CJmpZThrows => Fetched("CJMPZ")
  /\ BinopInts \/ BinopBools \/ BinopEqual \/ BinopConcat \/ BinopThrows \/ BinopDividesByZero
        => Fetched("BINOP")
  /\ IsType => Fetched("ISTYPE")
  /\ Length \/ LengthThrows => Fetched("LENGTH")
  /\ RngSpc \/ RngSpcThrows => Fetched("RNGSPC")
  /\ Array => Fetched("ARRAY")
  /\ Tuple => Fetched("TUPLE")
  /\ Ldt \/ LdtThrows => Fetched("LDT")
  /\ Lda \/ LdaInserts \/ LdaThrows => Fetched("LDA")
  /\ Sta => Fetched("STA")
  /\ Closure => Fetched("CLOSURE")
  /\ CallC \/ CallCThrows => Fetched("CALLC")
  /\ Ret => Fetched("RET")
  /\ PrintValues => Fetched("PRINT")
<1>1. /\ PushNone => Fetched("NONE")
      /\ PushLiteral => \E op \in {"CONST", "BOOL", "STRING"} : Fetched(op)
  BY DEF PushNone, PushLiteral
<1>2. (Ld => Fetched("LD")) /\ (Drop => Fetched("DROP")) /\ (Dup => Fetched("DUP"))
  BY Zenon DEF Ld, Drop, Dup
<1>3. (Jmp => Fetched("JMP")) /\ (CJmpZ \/ CJmpZThrows => Fetched("CJMPZ"))
  BY Zenon DEF Jmp, CJmpZ, CJmpZThrows
<1>4. BinopInts \/ BinopBools \/ BinopEqual => Fetched("BINOP")
  BY Zenon DEF BinopInts, BinopBools, BinopEqual
<1>5. BinopConcat \/ BinopThrows \/ BinopDividesByZero => Fetched("BINOP")
  BY Zenon DEF BinopConcat, BinopThrows, BinopDividesByZero
<1>6. (IsType => Fetched("ISTYPE")) /\ (Length \/ LengthThrows => Fetched("LENGTH"))
  BY Zenon DEF IsType, Length, LengthThrows
<1>7. (RngSpc \/ RngSpcThrows => Fetched("RNGSPC")) /\ (Array => Fetched("ARRAY"))
  BY Zenon DEF RngSpc, RngSpcThrows, Array
<1>8. (Tuple => Fetched("TUPLE")) /\ (Ldt \/ LdtThrows => Fetched("LDT"))
  BY Zenon DEF Tuple, Ldt, LdtThrows
<1>9. (Lda \/ LdaInserts \/ LdaThrows => Fetched("LDA")) /\ (Sta => Fetched("STA"))
  BY Zenon DEF Lda, LdaInserts, LdaThrows, Sta
<1>10. (Closure => Fetched("CLOSURE")) /\ (CallC \/ CallCThrows => Fetched("CALLC"))
  BY Zenon DEF Closure, CallC, CallCThrows
<1>11. (Ret => Fetched("RET")) /\ (PrintValues => Fetched("PRINT"))
  BY Zenon DEF Ret, PrintValues
<1> QED
  BY <1>1, <1>2, <1>3, <1>4, <1>5, <1>6, <1>7, <1>8, <1>9, <1>10, <1>11, Zenon

(* Only ST and STD assign.                                                  *)
LEMMA OthersAssignNothing ==
  ASSUME FilesVerified, TInv, Instruction, ~St, ~Std
  PROVE  ~Assigns
<1>1. \A op : Fetched(op) /\ op \notin {"ST", "STD"} => ~Assigns
  BY DEF Fetched, Assigns, Executes
<1>2. StdThrows => ~Assigns
  BY DEF StdThrows, Throw, Assigns
<1>3. FallsOffTheEnd => ~Assigns
  <2>1. ASSUME FallsOffTheEnd
        PROVE  pc \notin DOMAIN Code
    <3>1. status = "running" /\ pc = Len(Code) + 1
      BY <2>1 DEF FallsOffTheEnd
    <3>2. Len(Code) \in Nat /\ DOMAIN Code = 1..Len(Code)
      BY <3>1, Running, VerifiedEntry DEF TInv, Code, SchemeOf, Schemes
    <3> QED
      BY <3>1, <3>2
  <2> QED
    BY <2>1 DEF Assigns, Executes
<1>4. \A op \in {"NONE", "CONST", "BOOL", "STRING", "LD", "DROP", "DUP", "JMP", "CJMPZ", "BINOP",
                 "ISTYPE", "LENGTH", "RNGSPC", "ARRAY", "TUPLE", "LDT", "LDA", "STA", "CLOSURE",
                 "CALLC", "RET", "PRINT"} : op \notin {"ST", "STD"}
  OBVIOUS
<1>5. CASE StdThrows \/ FallsOffTheEnd
  BY <1>2, <1>3, <1>5
<1>6. CASE ~StdThrows /\ ~FallsOffTheEnd
  <2>1. \E op \in {"NONE", "CONST", "BOOL", "STRING", "LD", "DROP", "DUP", "JMP", "CJMPZ", "BINOP",
                   "ISTYPE", "LENGTH", "RNGSPC", "ARRAY", "TUPLE", "LDT", "LDA", "STA", "CLOSURE",
                   "CALLC", "RET", "PRINT"} : Fetched(op)
    BY <1>6, Operations DEF Instruction
  <2> QED
    BY <1>1, <1>4, <2>1
<1> QED
  BY <1>5, <1>6

(* The ways of a step with the heap: it writes to no object there was, or   *)
(* to one array, or assigns.                                                *)
LEMMA StepTyped ==
  ASSUME FilesVerified, ~CollectWhileHeld, TInv, Next
  PROVE  /\ TypedAfter
         /\ \/ Grown(heap, heap') /\ ~Assigns
            \/ (\E x : ArrayWritten(x)) /\ ~Assigns
            \/ Assigns /\ AssignedTo(Target, Resolved(1))
<1>1. CASE Ended
  <2>1. UNCHANGED <<heap, frames>> /\ status # "running"
    BY <1>1 DEF Ended, vars
  <2>2. Unwritten
    BY <2>1, NothingTyped
  <2>3. ~Assigns
    BY <2>1 DEF Assigns, Executes
  <2> QED
    BY <2>2, <2>3 DEF Unwritten
<1>2. CASE St
  <2>1. /\ TypedAfter /\ Executes("ST") /\ status' = "running"
        /\ AssignedTo(Variable(Kind, N), Resolved(1))
    BY <1>2, StTyped
  <2>2. Target = Variable(Kind, N) /\ Assigns
    BY <2>1 DEF Target, Assigns, Executes
  <2> QED
    BY <2>1, <2>2
<1>3. CASE Std
  <2>1. /\ TypedAfter /\ Executes("STD") /\ status' = "running"
        /\ AssignedTo(Operand(2), Resolved(1))
    BY <1>3, StdTyped
  <2>2. Target = Operand(2) /\ Assigns
    BY <2>1 DEF Target, Assigns, Executes
  <2> QED
    BY <2>1, <2>2
<1>4. CASE Instruction /\ ~St /\ ~Std
  <2>1. ~Assigns
    BY <1>4, OthersAssignNothing
  <2>2. CASE LdaInserts \/ Sta
    BY <2>1, <2>2, LdaInsertsTyped, StaTyped
  <2>3. CASE \/ StdThrows \/ CJmpZThrows \/ BinopThrows \/ BinopDividesByZero \/ LengthThrows
             \/ RngSpcThrows \/ LdtThrows \/ LdaThrows \/ CallCThrows \/ Jmp
    <3>1. Throw \/ Wild \/ Jmp
      BY <2>3, Zenon DEF StdThrows, CJmpZThrows, BinopThrows, BinopDividesByZero, LengthThrows,
                RngSpcThrows, LdtThrows, LdaThrows, CallCThrows
    <3>2. UNCHANGED <<heap, frames>>
      BY <3>1 DEF Throw, Wild, Jmp
    <3>3. Unwritten
      BY <3>2, NothingTyped
    <3> QED
      BY <2>1, <3>3 DEF Unwritten
  <2>4. CASE \/ PushNone \/ PushLiteral \/ Ld \/ Drop \/ Dup \/ CJmpZ \/ PrintValues
             \/ Array \/ Tuple \/ Ldt \/ Lda \/ Closure \/ CallC \/ Ret \/ FallsOffTheEnd
    <3>1. Unwritten
      BY <2>4, PushNoneTyped, PushLiteralTyped, LdTyped, DropTyped, DupTyped, CJmpZTyped, PrintValuesTyped,
         ArrayTyped, TupleTyped, LdtTyped, LdaTyped, ClosureTyped, CallCTyped, RetTyped,
         FallsOffTheEndTyped, Zenon
    <3> QED
      BY <2>1, <3>1 DEF Unwritten
  <2>5. CASE BinopInts \/ BinopBools \/ BinopEqual \/ BinopConcat \/ IsType \/ Length \/ RngSpc
    <3>1. Unwritten
      BY <2>5, BinopIntsTyped, BinopTestsTyped, BinopConcatTyped, IsTypeTyped, LengthTyped,
         RngSpcTyped, Zenon
    <3> QED
      BY <2>1, <3>1 DEF Unwritten
  <2> QED
    BY <1>4, <2>2, <2>3, <2>4, <2>5, Zenon DEF Instruction
<1> QED
  BY <1>1, <1>2, <1>3, <1>4, Zenon DEF Next, Instruction

(* The status a step leaves: a collection finds the roots in step.          *)
LEMMA StatusAfter ==
  ASSUME ~CollectWhileHeld, IInv, Instruction
  PROVE  \/ status' \in {"running", "finished", "error"}
         \/ status' = "undefined" /\ (BinopDividesByZero \/ (Ret /\ Depth = 1))
<1>1. \A c : Collected(c) => status' = "running"
  <2>1. RootsAreTheSlots
    BY InStepSuffices DEF IInv
  <2> QED
    BY <2>1 DEF Collected
<1>2. CASE \/ StdThrows \/ CJmpZThrows \/ BinopThrows \/ LengthThrows
           \/ RngSpcThrows \/ LdtThrows \/ LdaThrows \/ CallCThrows
  <2>1. Throw
    BY <1>2, Zenon DEF StdThrows, CJmpZThrows, BinopThrows, LengthThrows,
              RngSpcThrows, LdtThrows, LdaThrows, CallCThrows
  <2> QED
    BY <2>1 DEF Throw
<1>3. CASE BinopDividesByZero
  BY <1>3 DEF BinopDividesByZero, Wild
<1>4. CASE PushNone \/ Ld \/ St \/ Std \/ Drop \/ Dup \/ Jmp \/ CJmpZ \/ Ldt \/ Lda \/ PrintValues
  <2>1. UNCHANGED status
    BY <1>4, Zenon DEF PushNone, Ld, St, Std, Drop, Dup, Jmp, CJmpZ, Ldt, Lda, PrintValues
  <2>2. status = "running"
    BY <1>4, Operations, Zenon DEF Fetched, St, Std
  <2> QED
    BY <2>1, <2>2
<1>5. CASE PushLiteral \/ BinopInts \/ BinopBools \/ BinopEqual \/ BinopConcat
  <2>1. \E c : Collected(c)
    BY <1>5, Zenon DEF PushLiteral, BinopInts, BinopBools, BinopEqual, BinopConcat, BinopValue
  <2> QED
    BY <1>1, <2>1
<1>6. CASE IsType \/ Length \/ RngSpc \/ Array \/ Tuple \/ Closure \/ CallC
  <2>1. \E c : Collected(c)
    BY <1>6, Zenon DEF IsType, Length, RngSpc, Array, Tuple, Closure, CallC
  <2> QED
    BY <1>1, <2>1
<1>7. CASE LdaInserts \/ Sta
  <2>1. \A n : \A c \in Collections(0, n) : c = 0
    BY DEF Collections
  <2>2. \E n : \E c \in Collections(0, n) : status' = IF c > 0 THEN "undefined" ELSE "running"
    BY <1>7, Zenon DEF LdaInserts, Sta
  <2> QED
    BY <2>1, <2>2
<1>8. CASE Ret
  BY <1>8 DEF Ret
<1>9. CASE FallsOffTheEnd
  BY <1>9 DEF FallsOffTheEnd
<1> QED
  BY <1>2, <1>3, <1>4, <1>5, <1>6, <1>7, <1>8, <1>9, Zenon DEF Instruction

(* The program that runs is never another.                                  *)
LEMMA FileStays ==
  ASSUME Next
  PROVE  file' = file
<1>1. CASE Ended
  BY <1>1 DEF Ended, vars
<1>2. CASE \/ StdThrows \/ CJmpZThrows \/ BinopThrows \/ BinopDividesByZero \/ LengthThrows
           \/ RngSpcThrows \/ LdtThrows \/ LdaThrows \/ CallCThrows
  <2>1. Throw \/ Wild
    BY <1>2, Zenon DEF StdThrows, CJmpZThrows, BinopThrows, BinopDividesByZero, LengthThrows,
              RngSpcThrows, LdtThrows, LdaThrows, CallCThrows
  <2> QED
    BY <2>1 DEF Throw, Wild
<1>3. CASE \/ PushNone \/ PushLiteral \/ Ld \/ St \/ Std \/ Drop \/ Dup \/ CJmpZ
           \/ BinopInts \/ BinopBools
  <2>1. Quiet
    BY <1>3, Zenon DEF PushNone, PushLiteral, Ld, St, Std, Drop, Dup, CJmpZ, BinopInts, BinopBools, BinopValue
  <2> QED
    BY <2>1 DEF Quiet
<1>4. CASE BinopEqual \/ BinopConcat \/ IsType \/ Length \/ RngSpc \/ Array \/ Tuple
  <2>1. Quiet
    BY <1>4, Zenon DEF BinopEqual, BinopConcat, BinopValue, IsType, Length, RngSpc, Array, Tuple
  <2> QED
    BY <2>1 DEF Quiet
<1>5. CASE Ldt \/ Lda \/ LdaInserts \/ Sta \/ Closure \/ CallC
  <2>1. Quiet
    BY <1>5, Zenon DEF Ldt, Lda, LdaInserts, Sta, Closure, CallC
  <2> QED
    BY <2>1 DEF Quiet
<1>6. CASE Jmp \/ Ret \/ FallsOffTheEnd \/ PrintValues
  BY <1>6 DEF Jmp, Ret, FallsOffTheEnd, PrintValues
<1> QED
  BY <1>1, <1>2, <1>3, <1>4, <1>5, <1>6, Zenon DEF Next, Instruction

(* Every step keeps the types.                                              *)
LEMMA StepTypes ==
  ASSUME FilesVerified, ~CollectWhileHeld, TInv, [Next]_vars
  PROVE  TInv'
<1>1. IInv'
  BY StepInvariant DEF TInv
<1>2. file' = file /\ HeapTyped(file, heap') /\ FramesTyped(file, heap', frames')
  <2>1. CASE UNCHANGED vars
    BY <2>1 DEF vars, TInv
  <2>2. CASE Next
    <3>1. TypedAfter
      BY <2>2, StepTyped
    <3>2. file' = file
      BY <2>2, FileStays
    <3> QED
      BY <3>1, <3>2 DEF TypedAfter
  <2> QED
    BY <2>1, <2>2
<1>3. status' \in Statuses
  <2>1. CASE UNCHANGED vars \/ Ended
    BY <2>1 DEF vars, Ended, TInv
  <2>2. CASE Instruction
    BY <2>2, StatusAfter DEF TInv, Statuses
  <2> QED
    BY <2>1, <2>2 DEF Next
<1> QED
  BY <1>1, <1>2, <1>3 DEF TInv

(* The types hold when the frame of main has been built.                    *)
LEMMA InitTypes ==
  ASSUME FilesVerified, Init
  PROVE  TInv
<1> DEFINE main == file.main
           s == Schemes[main]
           frame == NewFrame(main, 0, 0, 2, << >>)
           none == Object("None", 0, << >>, << >>)
           boxes == [i \in 1..s.locals |-> MakeRef(NoneId)]
           args == [i \in DOMAIN << >> |-> MakeRef(<< >>[i])]
           h == << none >>
<1>1. IInv
  BY InitInvariant
<1>2. /\ main \in DOMAIN Schemes /\ s.locals \in Nat /\ s.args = 0 /\ s.capture = << >>
  <2>1. PICK k \in DOMAIN Files : file = Files[k]
    BY DEF Init
  <2>2. PICK heights : Verified(file, heights)
    BY <2>1 DEF FilesVerified
  <2>3. WellFormed(file)
    BY <2>2 DEF Verified
  <2> QED
    BY <2>3 DEF WellFormed, Schemes
<1>3. /\ frames = << frame >> /\ heap = h \o (boxes \o args)
  BY DEF Init, FrameObjects
<1>4. HeapTyped(file, h) /\ Len(h) = 1 /\ IsSeq(h) /\ IsObject(h, NoneId)
  <2>1. IsSeq(h) /\ Len(h) = 1 /\ h[1] = none /\ none.type = "None"
    BY ShortSeqs DEF Object
  <2>2. \A x : ObjectTyped(file, h, x, none)
    BY SimpleObjects, Zenon DEF Plain
  <2> HIDE DEF h
  <2>3. \A x \in 1..1 : x = 1
    OBVIOUS
  <2>4. IsValue(h, NoneId) /\ IsObject(h, NoneId)
    BY <2>1 DEF IsValue, IsObject, NoneId
  <2>5. \A x \in 1..Len(h) : ObjectTyped(file, h, x, h[x])
    BY <2>1, <2>2, <2>3
  <2> QED
    BY <2>1, <2>4, <2>5 DEF HeapTyped
<1>5. IsSeq(boxes) /\ Len(boxes) = s.locals /\ Boxes(h, s.locals, boxes)
  <2> DEFINE l == s.locals
  <2>1. boxes \in [1..l -> {MakeRef(NoneId)}] /\ \A k \in 1..l : boxes[k] = MakeRef(NoneId)
    OBVIOUS
  <2>2. l \in Nat
    BY <1>2
  <2> HIDE DEF boxes, l, h
  <2>3. IsSeq(boxes) /\ Len(boxes) = l /\ Boxes(h, l, boxes)
    BY <1>4, <2>1, <2>2, SeqOfFunction DEF Boxes
  <2> QED
    BY <2>3 DEF l
<1>6. IsSeq(args) /\ Len(args) = 0 /\ Boxes(h, 0, args)
  <2>1. args \in [1..0 -> {}]
    OBVIOUS
  <2> HIDE DEF args, h
  <2>2. 0 \in Nat /\ \A k \in 1..0 : FALSE
    OBVIOUS
  <2>3. IsSeq(args) /\ Len(args) = 0
    BY <2>1, <2>2, SeqOfFunction
  <2> QED
    BY <2>2, <2>3 DEF Boxes
<1> HIDE DEF boxes, args, h
<1>7. Boxed(h, s.locals, boxes, args, heap)
  BY <1>2, <1>3, <1>4, <1>5, <1>6, BoxesAppended, Zenon
<1>8. HeapTyped(file, heap)
  <2>1. \A k \in 1..Len(args) : ObjectTyped(file, heap, Len(h) + s.locals + k, args[k])
    BY <1>6
  <2> QED
    BY <1>2, <1>3, <1>4, <1>5, <1>6, <2>1, BoxesTyped, Zenon
<1>9. FrameTyped(file, heap, frame)
  <2>1. AllRefs(heap, << >>) /\ Len(<< >>) = Len(s.capture)
    <3>1. \A i \in 1..Len(<< >>) : FALSE
      OBVIOUS
    <3> QED
      BY <1>2, <3>1, ShortSeqs DEF AllRefs
  <2>2. frame = NewFrame(main, 0, 0, Len(h) + 1, << >>)
    BY <1>4
  <2> HIDE DEF frame
  <2>3. PICK l, a : l = s.locals /\ a = s.args
    OBVIOUS
  <2>4. l \in Nat /\ a \in Nat /\ Boxed(h, l, boxes, args, heap) /\ Len(args) = a /\ Boxes(h, a, args)
    BY <1>2, <1>6, <1>7, <2>3
  <2> QED
    BY <1>2, <1>4, <2>1, <2>2, <2>3, <2>4, NewFrameTyped
<1>10. FramesTyped(file, heap, frames)
  <2>1. Len(frames) = 1 /\ frames[1] = frame /\ \A d \in 1..1 : d = 1
    BY <1>3
  <2> QED
    BY <1>9, <2>1 DEF FramesTyped
<1>11. status \in Statuses
  BY DEF Init, Statuses
<1> QED
  BY <1>1, <1>8, <1>10, <1>11 DEF TInv

-----------------------------------------------------------------------------
(* What the types say.                                                      *)

(* The range of a sequence of objects, or of references.                    *)
LEMMA Ranges ==
  ASSUME NEW h, IsSeq(h), NEW s
  PROVE  /\ AllObjects(h, s) => Range(s) \subseteq DOMAIN h
         /\ AllRefs(h, s) => Range(s) \subseteq RefsOf(h) /\ Range(s) \subseteq DOMAIN h
<1>1. DOMAIN h = 1..Len(h)
  BY SeqDomain
<1>2. IsSeq(s) => DOMAIN s = 1..Len(s)
  BY SeqDomain
<1>3. ASSUME AllObjects(h, s)
      PROVE  Range(s) \subseteq DOMAIN h
  BY <1>1, <1>2, <1>3 DEF AllObjects, IsObject, Range
<1>4. ASSUME AllRefs(h, s)
      PROVE  Range(s) \subseteq RefsOf(h) /\ Range(s) \subseteq DOMAIN h
  BY <1>1, <1>2, <1>4 DEF AllRefs, IsRef, Range, RefsOf
<1> QED
  BY <1>3, <1>4

(* The conjunct of TypeOK about a frame.                                    *)
LEMMA FramePointers ==
  ASSUME TInv, NEW d \in DOMAIN frames
  PROVE  LET f == frames[d]
         IN  /\ Pointers(f) \subseteq DOMAIN heap
             /\ Range(f.locals) \cup Range(f.args) \cup Range(f.captured) \subseteq Refs
             /\ Len(f.locals) = SchemeOf(f).locals
             /\ Len(f.args) = SchemeOf(f).args
             /\ Len(f.captured) = Len(SchemeOf(f).capture)
<1>1. IsSeq(frames) /\ IsSeq(heap)
  BY DEF TInv, IInv, InStep, HeapTyped
<1>2. FrameTyped(file, heap, frames[d])
  <2>1. d \in 1..Len(frames)
    BY <1>1, SeqDomain
  <2> QED
    BY <2>1 DEF TInv, FramesTyped
<1> DEFINE f == frames[d]
<1>3. /\ AllRefs(heap, f.locals) /\ Len(f.locals) = SchemeOf(f).locals
      /\ AllRefs(heap, f.args) /\ Len(f.args) = SchemeOf(f).args
      /\ AllRefs(heap, f.captured) /\ Len(f.captured) = Len(SchemeOf(f).capture)
      /\ AllObjects(heap, f.stack)
  BY <1>2 DEF FrameTyped, SchemeOf, Schemes
<1> HIDE DEF f
<1>4. /\ Range(f.locals) \subseteq RefsOf(heap) /\ Range(f.locals) \subseteq DOMAIN heap
      /\ Range(f.args) \subseteq RefsOf(heap) /\ Range(f.args) \subseteq DOMAIN heap
      /\ Range(f.captured) \subseteq RefsOf(heap) /\ Range(f.captured) \subseteq DOMAIN heap
      /\ Range(f.stack) \subseteq DOMAIN heap
  BY <1>1, <1>3, Ranges
<1>5. Refs = RefsOf(heap)
  BY DEF Refs, RefsOf
<1> QED
  BY <1>3, <1>4, <1>5 DEF Pointers, f

(* The conjunct about an object.                                            *)
LEMMA ObjectPointers ==
  ASSUME TInv, NEW x \in DOMAIN heap
  PROVE  LET o == heap[x]
         IN  /\ o.type \in ValueTypes \cup {"Ref"}
             /\ Range(o.refs) \subseteq DOMAIN heap
             /\ o.type = "Ref" => Len(o.refs) = 1
             /\ o.type \in {"Array", "Tuple", "Func"} => Range(o.refs) \subseteq Refs
             /\ o.type \in {"Array", "Tuple"} => Len(o.keys) = Len(o.refs)
             /\ o.type = "Func" => Len(o.refs) = Len(Schemes[o.num].capture)
<1> DEFINE o == heap[x]
<1>1. IsSeq(heap) /\ DOMAIN heap = 1..Len(heap)
  BY SeqDomain DEF TInv, HeapTyped
<1>2. ObjectTyped(file, heap, x, o)
  BY <1>1 DEF TInv, HeapTyped
<1> HIDE DEF o
<1>3. Refs = RefsOf(heap)
  BY DEF Refs, RefsOf
<1>4. CASE o.type \in Plain
  <2>1. o.refs = << >>
    BY <1>2, <1>4 DEF ObjectTyped
  <2>2. Range(o.refs) = {}
    BY <2>1 DEF Range
  <2> QED
    BY <1>4, <2>2 DEF Plain, ValueTypes, o
<1>5. CASE o.type = "Ref"
  <2>1. ReferenceTyped(heap, x, o) /\ IsSeq(o.refs)
    BY <1>2, <1>5 DEF ObjectTyped
  <2>2. IsObject(heap, o.refs[1]) /\ Len(o.refs) = 1
    BY <2>1 DEF ReferenceTyped, IsValue, IsRef, IsObject
  <2>3. AllObjects(heap, o.refs)
    <3>1. \A i \in 1..1 : i = 1
      OBVIOUS
    <3> QED
      BY <2>1, <2>2, <3>1 DEF AllObjects
  <2>4. Range(o.refs) \subseteq DOMAIN heap
    BY <1>1, <2>3, Ranges
  <2> QED
    BY <1>5, <2>2, <2>4 DEF o
<1>6. CASE o.type \in {"Array", "Tuple"}
  <2>1. AllRefs(heap, o.refs) /\ Len(o.keys) = Len(o.refs)
    BY <1>2, <1>6 DEF ObjectTyped, AggregateTyped
  <2>2. Range(o.refs) \subseteq RefsOf(heap) /\ Range(o.refs) \subseteq DOMAIN heap
    BY <1>1, <2>1, Ranges
  <2> QED
    BY <1>3, <1>6, <2>1, <2>2 DEF ValueTypes, o
<1>7. CASE o.type = "Func"
  <2>1. AllRefs(heap, o.refs) /\ Len(o.refs) = Len(Schemes[o.num].capture)
    BY <1>2, <1>7 DEF ObjectTyped, FunctionTyped, Schemes
  <2>2. Range(o.refs) \subseteq RefsOf(heap) /\ Range(o.refs) \subseteq DOMAIN heap
    BY <1>1, <2>1, Ranges
  <2> QED
    BY <1>3, <1>7, <2>1, <2>2 DEF ValueTypes, o
<1> QED
  BY <1>2, <1>4, <1>5, <1>6, <1>7 DEF ObjectTyped, o

(* Together, with where the program is.                                     *)
LEMMA TypesSuffice ==
  ASSUME FilesVerified, TInv
  PROVE  TypeOK
<1>1. status = "running" => pc \in 1..Len(Code) + 1
  <2>1. ASSUME status = "running"
        PROVE  AtHeight(file, HeightsOf(file), Top, pc, 0)
    <3>1. Followed(file, HeightsOf(file), frames, Depth, pc, 0)
      BY <2>1, Running DEF TInv
    <3> QED
      BY <3>1 DEF Followed, Top
  <2> QED
    BY <2>1 DEF AtHeight, Code, SchemeOf, Schemes
<1>2. status \in Statuses
  BY DEF TInv
<1> QED
  BY <1>1, <1>2, FramePointers, ObjectPointers DEF TypeOK

(* A reference is to a value or to an older reference.                      *)
LEMMA ReferencesOlder ==
  ASSUME TInv
  PROVE  ReferencesEnd
<1>1. \A v : v \in Refs <=> IsRef(heap, v)
  <2>1. DOMAIN heap = 1..Len(heap)
    BY SeqDomain DEF TInv, HeapTyped
  <2> QED
    BY <2>1 DEF Refs, IsRef
<1>2. ASSUME NEW x, IsRef(heap, x), IsRef(heap, heap[x].refs[1])
      PROVE  heap[x].refs[1] < x
  <2>1. IsValue(heap, heap[x].refs[1]) \/ (IsRef(heap, heap[x].refs[1]) /\ heap[x].refs[1] < x)
    BY <1>2, TypedReference DEF TInv
  <2> QED
    BY <1>2, <2>1 DEF IsValue, IsRef
<1> QED
  BY <1>1, <1>2 DEF ReferencesEnd, Referent

-----------------------------------------------------------------------------
(* What a step does to the ends of references, and to objects.              *)

(* Where references lead after a step.                                      *)
LEMMA StepEnds ==
  ASSUME FilesVerified, ~CollectWhileHeld, TInv, Next, NEW x, IsRef(heap, x)
  PROVE  /\ LastIn(heap')[x] = LastIn(heap)[x]
         /\ EndIn(heap')[x] = IF Assigns /\ LastIn(heap)[x] = LastIn(heap)[Target]
                              THEN Resolved(1) ELSE EndIn(heap)[x]
<1>1. PICK h2 : h2 = heap'
  OBVIOUS
<1>2. HeapTyped(file, heap) /\ HeapTyped(file, h2)
  BY <1>1, StepTyped DEF TInv, TypedAfter
<1>3. CASE ~Assigns
  <2>1. KeepsTypes(heap, h2) /\ \A y : IsRef(heap, y) => h2[y] = heap[y]
    <3>1. CASE Grown(heap, heap')
      <4>1. KeepsTypes(heap, h2)
        BY <1>1, <3>1, GrownKeeps
      <4> QED
        BY <1>1, <3>1, <4>1 DEF Grown, IsRef
    <3>2. CASE \E a : ArrayWritten(a)
      BY <1>1, <3>2 DEF ArrayWritten, IsRef
    <3> QED
      BY <1>3, <3>1, <3>2, StepTyped
  <2>2. LastIn(h2)[x] = LastIn(heap)[x] /\ EndIn(h2)[x] = EndIn(heap)[x]
    BY <1>2, <2>1, KeptEnds
  <2> QED
    BY <1>1, <1>3, <2>2
<1>4. CASE Assigns
  <2>1. PICK t, v : t = Target /\ v = Resolved(1)
    OBVIOUS
  <2>2. IsRef(heap, t) /\ IsValue(heap, v) /\ h2 = WithRefs(heap, LastIn(heap)[t], << v >>)
    BY <1>1, <1>4, <2>1, StepTyped DEF AssignedTo
  <2>3. /\ LastIn(h2)[x] = LastIn(heap)[x]
        /\ EndIn(h2)[x] = IF LastIn(heap)[x] = LastIn(heap)[t] THEN v ELSE EndIn(heap)[x]
    BY <1>2, <2>2, ChangedEnds
  <2> QED
    BY <1>1, <1>4, <2>1, <2>3
<1> QED
  BY <1>3, <1>4

(* What AssignmentsReachAliases says of a step.                             *)
ReachesAliases ==
  \A x \in Refs :
     /\ LastRef(x)' = LastRef(x)
     /\ ResolveRef(x)' = IF Assigns /\ LastRef(x) = LastRef(Target)
                         THEN Resolved(1) ELSE ResolveRef(x)

(* resolve_ref and change_ref after a step.                                 *)
EndsFollowed ==
  (\A v : ResolveRef(v) = EndIn(heap)[v]) /\ (\A v : LastRef(v) = LastIn(heap)[v])

(* That is what they are, after a step too.                                 *)
LEMMA NextEnds == EndsFollowed'
<1>1. EndsFollowed
  BY ResolveRefIs DEF EndsFollowed
<1> QED
  BY <1>1, PTL

(* The same of the operators of the machine, now and after the step.        *)
LEMMA StepAliases ==
  ASSUME FilesVerified, ~CollectWhileHeld, TInv, Next
  PROVE  ReachesAliases
<1>1. (\A v : ResolveRef(v)' = EndIn(heap')[v]) /\ (\A v : LastRef(v)' = LastIn(heap')[v])
  BY NextEnds DEF EndsFollowed
<1>2. (\A v : ResolveRef(v) = EndIn(heap)[v]) /\ (\A v : LastRef(v) = LastIn(heap)[v])
  BY ResolveRefIs
<1>3. \A x \in Refs : IsRef(heap, x)
  <2>1. DOMAIN heap = 1..Len(heap)
    BY SeqDomain DEF TInv, HeapTyped
  <2> QED
    BY <2>1 DEF Refs, IsRef
<1>4. ASSUME NEW x \in Refs
      PROVE  /\ LastIn(heap')[x] = LastIn(heap)[x]
             /\ EndIn(heap')[x] = IF Assigns /\ LastIn(heap)[x] = LastIn(heap)[Target]
                                  THEN Resolved(1) ELSE EndIn(heap)[x]
  BY <1>3, StepEnds
<1> QED
  BY <1>1, <1>2, <1>4 DEF ReachesAliases

(* What ObjectsStay says of a step.                                         *)
ObjectsStayed ==
  \A x \in DOMAIN heap :
     /\ heap'[x].type = heap[x].type
     /\ heap[x].type \notin {"Ref", "Array"} => heap'[x] = heap[x]
     /\ heap[x].type = "Array" =>
           \A e \in Elements(x) :
              \/ e \in Elements(x)'
              \/ Executes("STA") /\ x = Resolved(3) /\ e[1] = heap[Resolved(2)].num

(* An object that is the same has the same elements.                        *)
LEMMA SameElements ==
  ASSUME NEW x, heap'[x] = heap[x]
  PROVE  Elements(x)' = Elements(x)
BY DEF Elements

(* What of an array stays, as Elements says it.                             *)
LEMMA WrittenElements ==
  ASSUME TInv, HeapTyped(file, heap'), NEW x, ArrayWritten(x), NEW e \in Elements(x)
  PROVE  \/ e \in Elements(x)'
         \/ Executes("STA") /\ x = Resolved(3) /\ e[1] = heap[Resolved(2)].num
<1>1. PICK i \in DOMAIN heap[x].keys : e = << heap[x].keys[i], heap[x].refs[i] >>
  BY DEF Elements
<1>2. x \in 1..Len(heap) /\ heap[x].type = "Array" /\ KeepsTypes(heap, heap')
  BY DEF ArrayWritten
<1>3. IsSeq(heap[x].keys) /\ IsSeq(heap) /\ Len(heap) \in Nat
  BY <1>2, SeqDomain DEF TInv, HeapTyped, ObjectTyped, AggregateTyped
<1>4. x \in 1..Len(heap') /\ heap'[x].type = "Array"
  <2>1. Len(heap') \in Nat
    BY SeqDomain DEF HeapTyped
  <2> QED
    BY <1>2, <1>3, <2>1 DEF KeepsTypes
<1>5. IsSeq(heap'[x].keys)
  BY <1>4 DEF HeapTyped, ObjectTyped, AggregateTyped
<1>6. i \in 1..Len(heap[x].keys) /\ DOMAIN heap'[x].keys = 1..Len(heap'[x].keys)
  BY <1>3, <1>5, SeqDomain
<1>7. CASE ElementStays(heap[x], heap'[x], i)
  <2>1. PICK j \in 1..Len(heap'[x].keys) :
           heap'[x].keys[j] = heap[x].keys[i] /\ heap'[x].refs[j] = heap[x].refs[i]
    BY <1>7 DEF ElementStays
  <2>2. e = << heap'[x].keys[j], heap'[x].refs[j] >> /\ j \in DOMAIN heap'[x].keys
    BY <1>1, <1>6, <2>1
  <2> QED
    BY <2>2 DEF Elements
<1>8. CASE Executes("STA") /\ x = Resolved(3) /\ heap[x].keys[i] = heap[Resolved(2)].num
  BY <1>1, <1>8
<1> QED
  BY <1>6, <1>7, <1>8 DEF ArrayWritten

(* ST and STD write to a reference, LDA and STA to an array.                *)
LEMMA StepObjects ==
  ASSUME FilesVerified, ~CollectWhileHeld, TInv, Next
  PROVE  ObjectsStayed
<1>1. IsSeq(heap) /\ DOMAIN heap = 1..Len(heap) /\ HeapTyped(file, heap')
  BY StepTyped, SeqDomain DEF TInv, HeapTyped, TypedAfter
<1> SUFFICES ASSUME NEW x \in 1..Len(heap)
             PROVE  /\ heap'[x].type = heap[x].type
                    /\ heap[x].type \notin {"Ref", "Array"} => heap'[x] = heap[x]
                    /\ heap[x].type = "Array" =>
                          \A e \in Elements(x) :
                             \/ e \in Elements(x)'
                             \/ Executes("STA") /\ x = Resolved(3) /\ e[1] = heap[Resolved(2)].num
  BY <1>1 DEF ObjectsStayed
<1>2. CASE heap'[x] = heap[x]
  BY <1>2, SameElements
<1>3. CASE Grown(heap, heap')
  BY <1>2, <1>3 DEF Grown
<1>4. CASE \E a : ArrayWritten(a)
  <2>1. PICK a : ArrayWritten(a)
    BY <1>4
  <2>2. CASE x = a
    BY <1>1, <2>1, <2>2, WrittenElements DEF ArrayWritten, KeepsTypes
  <2>3. CASE x # a
    BY <1>2, <2>1, <2>3 DEF ArrayWritten
  <2> QED
    BY <2>2, <2>3
<1>5. CASE AssignedTo(Target, Resolved(1))
  <2>1. PICK t, v, h2 : t = Target /\ v = Resolved(1) /\ h2 = heap'
    OBVIOUS
  <2>2. IsRef(heap, t) /\ IsValue(heap, v) /\ h2 = WithRefs(heap, LastIn(heap)[t], << v >>)
    BY <1>5, <2>1 DEF AssignedTo
  <2>3. /\ KeepsTypes(heap, h2) /\ IsRef(heap, LastIn(heap)[t])
        /\ \A y \in 1..Len(heap) : y # LastIn(heap)[t] => h2[y] = heap[y]
    BY <2>2, ChangedHeap DEF TInv
  <2>4. CASE x = LastIn(heap)[t]
    BY <2>1, <2>3, <2>4 DEF KeepsTypes, IsRef
  <2>5. CASE x # LastIn(heap)[t]
    BY <1>2, <2>1, <2>3, <2>5
  <2> QED
    BY <2>4, <2>5
<1> QED
  BY <1>3, <1>4, <1>5, StepTyped

-----------------------------------------------------------------------------
(* TypeOK, for every verified file and whatever it computes, when no        *)
(* collection meets a pointer that only a C++ local holds: variables,       *)
(* captures and elements are references, every pointer of a frame or an     *)
(* object is to an object, and a frame and a function have the variables    *)
(* and captures of their scheme, so that no cast of sm_interpreter.cpp is   *)
(* of another object than it says.                                          *)
THEOREM MachineTypesHold ==
  ASSUME FilesVerified, ~CollectWhileHeld
  PROVE  Spec => []TypeOK
<1>1. Init => TInv
  BY InitTypes
<1>2. TInv /\ [Next]_vars => TInv'
  BY StepTypes
<1>3. TInv => TypeOK
  BY TypesSuffice
<1> QED
  BY <1>1, <1>2, <1>3, PTL DEF Spec

(* ReferencesEnd: no assignment, capture or call ever closes a cycle of     *)
(* references, so that the loops of resolve_ref and change_ref end on every *)
(* heap a verified file can make.                                           *)
THEOREM ChainsOfReferencesEnd ==
  ASSUME FilesVerified, ~CollectWhileHeld
  PROVE  Spec => []ReferencesEnd
<1>1. Init => TInv
  BY InitTypes
<1>2. TInv /\ [Next]_vars => TInv'
  BY StepTypes
<1>3. TInv => ReferencesEnd
  BY ReferencesOlder
<1> QED
  BY <1>1, <1>2, <1>3, PTL DEF Spec

(* AssignmentsReachAliases: ST and STD change what is read through the      *)
(* references that share the variable or the element assigned to, and       *)
(* through no others; no instruction changes which references share one.    *)
THEOREM AliasesSeeAssignments ==
  ASSUME FilesVerified, ~CollectWhileHeld
  PROVE  Spec => AssignmentsReachAliases
<1>1. Init => TInv
  BY InitTypes
<1>2. TInv /\ [Next]_vars => TInv'
  BY StepTypes
<1>3. TInv /\ [Next]_vars => [ReachesAliases]_vars
  BY StepAliases
<1>4. Spec => [][ReachesAliases]_vars
  BY <1>1, <1>2, <1>3, PTL DEF Spec
<1> QED
  BY <1>4 DEF ReachesAliases, AssignmentsReachAliases

(* ObjectsStay: but for references assigned to, objects keep what they are, *)
(* and arrays keep their elements under their keys but for one that STA     *)
(* replaces.                                                                *)
THEOREM ObjectsKeepTheirData ==
  ASSUME FilesVerified, ~CollectWhileHeld
  PROVE  Spec => ObjectsStay
<1>1. Init => TInv
  BY InitTypes
<1>2. TInv /\ [Next]_vars => TInv'
  BY StepTypes
<1>3. TInv /\ [Next]_vars => [ObjectsStayed]_vars
  BY StepObjects
<1>4. Spec => [][ObjectsStayed]_vars
  BY <1>1, <1>2, <1>3, PTL DEF Spec
<1> QED
  BY <1>4 DEF ObjectsStayed, ObjectsStay
==============================================================================
