-------------------------- MODULE InterpHeapProofs --------------------------
(***************************************************************************)
(* Proofs about the memory of the tree interpreter, for every set of       *)
(* names, every threshold and every bound.                                 *)
(*                                                                         *)
(* The argument, in the order of the sections.  Between collections a step *)
(* of the program keeps values over the objects and frames there are       *)
(* (QuietStep, ProgramStep); during one, every step keeps what MemoryInv   *)
(* says of moves, of what is left to scan and of what has been met         *)
(* (ScanKeeps, ScanAggregateKeeps).  From there on, types, handles that    *)
(* are translated once and room for the copies follow.  Then what the      *)
(* program sees: no step of the scan changes it (NothingMoves,             *)
(* MovingIsUnseen), so the graph and what its roots reach stay the same    *)
(* through the whole scan, only what is reached is met (ReachedStep), and  *)
(* when all is scanned what has been met is closed (MetIsClosed), hence    *)
(* all that is reached.  Last, the step that makes the copies the heap     *)
(* maps one graph onto the other, node by node (GraphTranslated), and the  *)
(* live part of one onto that of the other (LiveTranslated).               *)
(***************************************************************************)
EXTENDS InterpHeap, TLAPS, FiniteSetTheorems

-----------------------------------------------------------------------------
(* Values, objects and activations *)

(* What is known of a value: only a function has captured frames, only an  *)
(* aggregate a handle. *)
LEMMA ValueFacts ==
  ASSUME NEW hs, NEW fs, NEW v \in DValuesOver(hs, fs)
  PROVE  /\ v.type \in {"None", "Array", "Tuple", "Func"}
         /\ v.env \in Seq(fs) /\ Range(v.env) \subseteq fs
         /\ v.type # "Func" => v.env = << >>
         /\ IsAggregate(v) => v.href \in hs
         /\ ~IsAggregate(v) => v.href = GC_NULL
         /\ v = DValue(v.type, v.href, v.env, v.inLoop)
<1>1. CASE v \in [type : {"None"}, href : {GC_NULL}, env : {<< >>}, inLoop : {FALSE}]
  <2>1. v.type = "None" /\ v.href = GC_NULL /\ v.env = << >>
    BY <1>1
  <2>2. v = DValue(v.type, v.href, v.env, v.inLoop)
    BY <1>1 DEF DValue
  <2>3. << >> \in Seq(fs) /\ Range(<< >>) \subseteq fs
    BY DEF Range
  <2> QED
    BY <2>1, <2>2, <2>3 DEF IsAggregate
<1>2. CASE v \in [type : {"Array", "Tuple"}, href : hs, env : {<< >>}, inLoop : {FALSE}]
  <2>1. v.type \in {"Array", "Tuple"} /\ v.href \in hs /\ v.env = << >>
    BY <1>2
  <2>2. v = DValue(v.type, v.href, v.env, v.inLoop)
    BY <1>2 DEF DValue
  <2>3. << >> \in Seq(fs) /\ Range(<< >>) \subseteq fs
    BY DEF Range
  <2> QED
    BY <2>1, <2>2, <2>3 DEF IsAggregate
<1>3. CASE v \in [type : {"Func"}, href : {GC_NULL}, env : Seq(fs), inLoop : BOOLEAN]
  <2>1. v.type = "Func" /\ v.href = GC_NULL /\ v.env \in Seq(fs)
    BY <1>3
  <2>2. v = DValue(v.type, v.href, v.env, v.inLoop)
    BY <1>3 DEF DValue
  <2>3. Range(v.env) \subseteq fs
    BY <2>1 DEF Range
  <2> QED
    BY <2>1, <2>2, <2>3 DEF IsAggregate
<1> QED
  BY <1>1, <1>2, <1>3 DEF DValuesOver

(* A value is one over other handles and frames when its own are there. *)
LEMMA ValueOver ==
  ASSUME NEW hs, NEW fs, NEW v \in DValuesOver(hs, fs), NEW hs2, NEW fs2,
         IsAggregate(v) => v.href \in hs2, Range(v.env) \subseteq fs2
  PROVE  v \in DValuesOver(hs2, fs2)
<1>1. v.env \in Seq(fs)
  BY ValueFacts
<1>2. \A i \in 1..Len(v.env) : v.env[i] \in fs2
  BY <1>1 DEF Range
<1>3. v.env \in Seq(fs2)
  BY <1>1, <1>2
<1> QED
  BY <1>3 DEF DValuesOver, IsAggregate

LEMMA ValuesGrow ==
  ASSUME NEW hs, NEW fs, NEW hs2, NEW fs2, hs \subseteq hs2, fs \subseteq fs2
  PROVE  DValuesOver(hs, fs) \subseteq DValuesOver(hs2, fs2)
<1>1. ASSUME NEW v \in DValuesOver(hs, fs) PROVE v \in DValuesOver(hs2, fs2)
  BY ValueFacts, ValueOver
<1> QED
  BY <1>1

LEMMA ValuesMade ==
  ASSUME NEW hs, NEW fs
  PROVE  /\ None \in DValuesOver(hs, fs)
         /\ \A v \in DValuesOver(hs, fs) : MovedFrom(v) \in DValuesOver(hs, fs)
         /\ \A kind \in {"Array", "Tuple"}, h \in hs : Aggregate(kind, h) \in DValuesOver(hs, fs)
         /\ \A env \in Seq(fs), b \in BOOLEAN : Func(env, b) \in DValuesOver(hs, fs)
<1>1. << >> \in Seq(fs)
  OBVIOUS
<1>2. None \in DValuesOver(hs, fs)
  BY DEF DValuesOver, None, DValue
<1>3. ASSUME NEW v \in DValuesOver(hs, fs) PROVE MovedFrom(v) \in DValuesOver(hs, fs)
  BY <1>1 DEF DValuesOver, MovedFrom
<1>4. \A kind \in {"Array", "Tuple"}, h \in hs : Aggregate(kind, h) \in DValuesOver(hs, fs)
  BY DEF DValuesOver, Aggregate, DValue
<1>5. \A env \in Seq(fs), b \in BOOLEAN : Func(env, b) \in DValuesOver(hs, fs)
  BY DEF DValuesOver, Func, DValue
<1> QED
  BY <1>2, <1>3, <1>4, <1>5

LEMMA ObjectFacts ==
  ASSUME NEW fwds, NEW values, NEW obj \in ObjectsOver(fwds, values)
  PROVE  /\ obj.kind \in {"Array", "Tuple"} /\ obj.fwd \in fwds
         /\ obj.values \in Seq(values)
         /\ DOMAIN obj.values = 1..Len(obj.values) /\ Len(obj.values) \in Nat
         /\ \A k \in DOMAIN obj.values : obj.values[k] \in values
<1>1. obj.kind \in {"Array", "Tuple"} /\ obj.fwd \in fwds /\ obj.values \in Seq(values)
  BY DEF ObjectsOver
<1> QED
  BY <1>1

LEMMA SequencesGrow ==
  ASSUME NEW S, NEW T, S \subseteq T
  PROVE  Seq(S) \subseteq Seq(T)
OBVIOUS

LEMMA SequenceOfItsRange ==
  ASSUME NEW S, NEW s \in Seq(S)
  PROVE  s \in Seq(Range(s))
<1>1. \A i \in 1..Len(s) : s[i] \in Range(s)
  BY DEF Range
<1> QED
  BY <1>1

LEMMA ObjectsGrow ==
  ASSUME NEW fwds, NEW S, NEW T, S \subseteq T
  PROVE  ObjectsOver(fwds, S) \subseteq ObjectsOver(fwds, T)
BY SequencesGrow DEF ObjectsOver

LEMMA ActivationFacts ==
  ASSUME NEW hs, NEW fs, NEW a \in ActivationsOver(hs, fs)
  PROVE  /\ a.kind \in {"body", "loop", "call"}
         /\ a.kind = "loop" => /\ a.over \in DValuesOver(hs, fs) /\ IsAggregate(a.over)
                               /\ a.iter \in Names /\ a.at \in Nat \ {0} /\ a.moved \in BOOLEAN
         /\ a.kind = "call" => /\ a.saved \in Seq(fs) /\ a.target \in fs \X Names
                               /\ a.target[1] \in Range(a.saved)
         /\ HeldBy(a) \subseteq fs
<1>1. a.kind \in {"body", "loop", "call"}
  BY DEF ActivationsOver
<1>2. a.kind = "loop" => /\ a.over \in DValuesOver(hs, fs) /\ IsAggregate(a.over)
                         /\ a.iter \in Names /\ a.at \in Nat \ {0} /\ a.moved \in BOOLEAN
  BY DEF ActivationsOver
<1>3. a.kind = "call" => /\ a.saved \in Seq(fs) /\ a.target \in fs \X Names
                         /\ a.target[1] \in Range(a.saved)
  BY DEF ActivationsOver
<1>4. HeldBy(a) \subseteq fs
  <2>1. CASE a.kind = "body"
    BY <2>1 DEF HeldBy
  <2>2. CASE a.kind = "loop"
    BY <2>2, <1>2, ValueFacts DEF HeldBy
  <2>3. CASE a.kind = "call"
    BY <2>3, <1>3 DEF HeldBy, Range
  <2> QED
    BY <1>1, <2>1, <2>2, <2>3
<1> QED
  BY <1>1, <1>2, <1>3, <1>4

(* An activation is one over other handles and frames, when those it holds *)
(* are there. *)
LEMMA ActivationOver ==
  ASSUME NEW hs, NEW fs, NEW a \in ActivationsOver(hs, fs), NEW hs2, NEW fs2,
         hs \subseteq hs2, HeldBy(a) \subseteq fs2
  PROVE  a \in ActivationsOver(hs2, fs2)
<1>1. CASE a.kind = "body"
  BY <1>1 DEF ActivationsOver
<1>2. CASE a.kind = "loop"
  <2>1. a.over \in DValuesOver(hs, fs) /\ IsAggregate(a.over)
    BY <1>2, ActivationFacts
  <2>2. a.over \in DValuesOver(hs2, fs2)
    BY <2>1, <1>2, ValueFacts, ValueOver DEF HeldBy
  <2> QED
    BY <1>2, <2>1, <2>2 DEF ActivationsOver
<1>3. CASE a.kind = "call"
  <2>1. a.saved \in Seq(fs) /\ a.target \in fs \X Names /\ a.target[1] \in Range(a.saved)
    BY <1>3, ActivationFacts
  <2>2. \A i \in 1..Len(a.saved) : a.saved[i] \in fs2
    BY <1>3, <2>1 DEF HeldBy, Range
  <2>3. a.saved \in Seq(fs2)
    BY <2>1, <2>2
  <2>4. a.target \in fs2 \X Names
    BY <1>3, <2>1 DEF HeldBy
  <2> QED
    BY <1>3, <2>1, <2>3, <2>4 DEF ActivationsOver
<1> QED
  BY <1>1, <1>2, <1>3, ActivationFacts

-----------------------------------------------------------------------------
(* Sets as sequences, and closures of graphs *)

(* SetToSeq lists every member of a finite set once. *)
LEMMA SetAsSequence ==
  ASSUME NEW S, IsFiniteSet(S)
  PROVE  /\ SetToSeq(S) \in Seq(S) /\ Len(SetToSeq(S)) = Cardinality(S)
         /\ Range(SetToSeq(S)) = S
         /\ \A i, j \in DOMAIN SetToSeq(S) : SetToSeq(S)[i] = SetToSeq(S)[j] => i = j
<1> DEFINE n == Cardinality(S)
<1>1. n \in Nat /\ ExistsBijection(1..n, S)
  BY FS_CardinalityType
<1>2. PICK g \in Bijection(1..n, S) : TRUE
  BY <1>1 DEF ExistsBijection
<1>3. g \in [1..n -> S] /\ IsInjective(g)
  BY <1>2 DEF Bijection, Injection, IsInjective
<1>4. SetToSeq(S) \in [1..n -> S] /\ IsInjective(SetToSeq(S))
  BY <1>3 DEF SetToSeq
<1>5. SetToSeq(S) \in Injection(1..n, S)
  BY <1>4 DEF Injection, IsInjective
<1>6. IsFiniteSet(1..n) /\ Cardinality(1..n) = n
  BY <1>1, FS_Interval
<1>7. SetToSeq(S) \in Surjection(1..n, S)
  BY <1>1, <1>5, <1>6, FS_Injection
<1>8. Range(SetToSeq(S)) = S
  BY <1>4, <1>7 DEF Surjection, Range
<1>9. SetToSeq(S) \in Seq(S) /\ Len(SetToSeq(S)) = n
  BY <1>1, <1>4
<1> QED
  BY <1>4, <1>8, <1>9 DEF IsInjective

(* A closure holds the nodes it starts from, is not left, and lies in      *)
(* every set of nodes that has both properties. *)
LEMMA ClosureFacts ==
  ASSUME NEW succ, NEW r
  PROVE  /\ Closure(succ, r) \subseteq DOMAIN succ
         /\ r \cap DOMAIN succ \subseteq Closure(succ, r)
         /\ \A j \in Closure(succ, r) : succ[j] \cap DOMAIN succ \subseteq Closure(succ, r)
         /\ \A S \in SUBSET DOMAIN succ :
               ( /\ r \cap DOMAIN succ \subseteq S
                 /\ \A j \in S : succ[j] \cap DOMAIN succ \subseteq S )
               => Closure(succ, r) \subseteq S
<1>1. Closure(succ, r) = {i \in DOMAIN succ : \A S \in Closed(succ, r) : i \in S}
  BY DEF Closure
<1>2. \A S \in Closed(succ, r) :
         r \cap DOMAIN succ \subseteq S /\ \A j \in S : succ[j] \cap DOMAIN succ \subseteq S
  BY DEF Closed
<1>3. r \cap DOMAIN succ \subseteq Closure(succ, r)
  BY <1>1, <1>2
<1>4. ASSUME NEW j \in Closure(succ, r), NEW i \in succ[j] \cap DOMAIN succ
      PROVE  i \in Closure(succ, r)
  <2>1. ASSUME NEW S \in Closed(succ, r) PROVE i \in S
    BY <1>1, <1>2, <1>4, <2>1
  <2> QED
    BY <1>1, <2>1
<1>5. ASSUME NEW S \in SUBSET DOMAIN succ, r \cap DOMAIN succ \subseteq S,
             \A j \in S : succ[j] \cap DOMAIN succ \subseteq S
      PROVE  Closure(succ, r) \subseteq S
  <2>1. S \in Closed(succ, r)
    BY <1>5 DEF Closed
  <2> QED
    BY <1>1, <2>1
<1> QED
  BY <1>1, <1>3, <1>4, <1>5

CapturedBy(frame) == EnvsIn(Range(frame))

LEMMA Captured ==
  ASSUME NEW frame
  PROVE  /\ \A n \in DOMAIN frame : Range(frame[n].env) \subseteq CapturedBy(frame)
         /\ \A fs : (\A n \in DOMAIN frame : Range(frame[n].env) \subseteq fs)
                      => CapturedBy(frame) \subseteq fs
BY DEF CapturedBy, EnvsIn, Range

(* The frames that are kept have not changed, hold what is held and what   *)
(* their own closures capture, and lie in any set of frames that does. *)
LEMMA FramesKept ==
  ASSUME NEW fs, FramesBecome(fs)
  PROVE  /\ DOMAIN frames' \subseteq DOMAIN fs
         /\ frames' = [f \in DOMAIN frames' |-> fs[f]]
         /\ Holders' \cap DOMAIN fs \subseteq DOMAIN frames'
         /\ \A f \in DOMAIN frames' : CapturedBy(fs[f]) \cap DOMAIN fs \subseteq DOMAIN frames'
         /\ \A S \in SUBSET DOMAIN fs :
               ( /\ Holders' \cap DOMAIN fs \subseteq S
                 /\ \A f \in S : CapturedBy(fs[f]) \cap DOMAIN fs \subseteq S )
               => DOMAIN frames' \subseteq S
<1> DEFINE captured == [f \in DOMAIN fs |-> CapturedBy(fs[f])]
           kept     == Closure(captured, Holders')
<1>1. frames' = [f \in kept |-> fs[f]]
  BY DEF FramesBecome, Restrict, CapturedBy
<1>2. DOMAIN captured = DOMAIN fs /\ \A f \in DOMAIN fs : captured[f] = CapturedBy(fs[f])
  OBVIOUS
<1>3. DOMAIN frames' = kept
  BY <1>1
<1> HIDE DEF captured
<1>4. /\ kept \subseteq DOMAIN fs
      /\ Holders' \cap DOMAIN fs \subseteq kept
      /\ \A f \in kept : captured[f] \cap DOMAIN fs \subseteq kept
      /\ \A S \in SUBSET DOMAIN fs :
            ( /\ Holders' \cap DOMAIN fs \subseteq S
              /\ \A f \in S : captured[f] \cap DOMAIN fs \subseteq S )
            => kept \subseteq S
  BY <1>2, ClosureFacts
<1> HIDE DEF kept
<1>5. frames' = [f \in DOMAIN frames' |-> fs[f]]
  BY <1>1, <1>3
<1>6. \A f \in kept : CapturedBy(fs[f]) \cap DOMAIN fs \subseteq kept
  BY <1>2, <1>4
<1>7. ASSUME NEW S \in SUBSET DOMAIN fs, Holders' \cap DOMAIN fs \subseteq S,
             \A f \in S : CapturedBy(fs[f]) \cap DOMAIN fs \subseteq S
      PROVE  kept \subseteq S
  <2>1. \A f \in S : captured[f] \cap DOMAIN fs \subseteq S
    BY <1>2, <1>7
  <2> QED
    BY <1>4, <1>7, <2>1
<1> QED
  BY <1>3, <1>4, <1>5, <1>6, <1>7

-----------------------------------------------------------------------------
(* Frames that are pushed and variables that are set *)

LEMMA SetVariable ==
  ASSUME NEW D, NEW V, NEW fs \in FramesOver(D, V),
         NEW x, x[1] \in D, x[2] \in Names, NEW v \in V
  PROVE  /\ Set(fs, x, v) \in FramesOver(D, V) /\ DOMAIN Set(fs, x, v) = D
         /\ Set(fs, x, v)[x[1]][x[2]] = v
<1>2. [fs[x[1]] EXCEPT ![x[2]] = v] \in [Names -> V] /\ fs[x[1]] \in [Names -> V]
  BY DEF FramesOver
<1>3. Set(fs, x, v) = [fs EXCEPT ![x[1]] = [fs[x[1]] EXCEPT ![x[2]] = v]]
  BY DEF Set
<1>4. Set(fs, x, v) \in FramesOver(D, V)
  BY <1>2, <1>3 DEF FramesOver
<1>5. Set(fs, x, v)[x[1]][x[2]] = v
  BY <1>2, <1>3 DEF FramesOver
<1> QED
  BY <1>4, <1>5 DEF FramesOver

LEMMA FramesGrow ==
  ASSUME NEW D, NEW V, NEW W, V \subseteq W
  PROVE  FramesOver(D, V) \subseteq FramesOver(D, W)
BY DEF FramesOver

(* The numbers that push_frame may take. *)
LEMMA UnusedFacts ==
  /\ Unused \in Seq(FrameNumbers \ DOMAIN frames) /\ Len(Unused) \in Nat
  /\ \A i, j \in 1..Len(Unused) : Unused[i] = Unused[j] => i = j
<1> DEFINE free == 1..MaxFrames \ DOMAIN frames
<1>1. MaxFrames \in Nat
  BY HeapAssumption
<1>2. IsFiniteSet(1..MaxFrames)
  BY <1>1, FS_Interval
<1>3. IsFiniteSet(free)
  BY <1>2, FS_Subset
<1>4. /\ SetToSeq(free) \in Seq(free)
      /\ \A i, j \in DOMAIN SetToSeq(free) : SetToSeq(free)[i] = SetToSeq(free)[j] => i = j
  BY <1>3, SetAsSequence
<1>5. Unused = SetToSeq(free)
  BY DEF Unused
<1> HIDE DEF free
<1>6. Unused \in Seq(free) /\ DOMAIN Unused = 1..Len(Unused) /\ Len(Unused) \in Nat
  BY <1>4, <1>5
<1> QED
  BY <1>4, <1>5, <1>6 DEF free, FrameNumbers

LEMMA FramesPushed ==
  ASSUME NEW hs, NEW n \in {1, 2}, MayPush(n), DOMAIN frames \subseteq FrameNumbers,
         frames \in FramesOver(DOMAIN frames, DValuesOver(hs, DOMAIN frames)),
         NEW env \in Seq(DOMAIN frames)
  PROVE  /\ DOMAIN frames \subseteq DOMAIN Pushed(n)
         /\ DOMAIN Pushed(n) \subseteq FrameNumbers
         /\ Pushed(n) \in FramesOver(DOMAIN Pushed(n), DValuesOver(hs, DOMAIN Pushed(n)))
         /\ EnvPushed(env, n) \in Seq(DOMAIN Pushed(n))
         /\ Len(EnvPushed(env, n)) = Len(env) + n
         /\ \A i \in 1..Len(env) : EnvPushed(env, n)[i] = env[i]
         /\ Unused[1] \in DOMAIN Pushed(n)
<1> DEFINE taken == SubSeq(Unused, 1, n)
           D     == DOMAIN frames \cup Range(taken)
           V     == DValuesOver(hs, D)
<1>1. Unused \in Seq(FrameNumbers \ DOMAIN frames) /\ n <= Len(Unused) /\ Len(Unused) \in Nat
  BY UnusedFacts DEF MayPush
<1>2. /\ taken \in Seq(FrameNumbers \ DOMAIN frames) /\ Len(taken) = n
      /\ \A i \in 1..n : taken[i] = Unused[i]
  BY <1>1
<1>4. DOMAIN Pushed(n) = D
  BY DEF Pushed
<1>5. DValuesOver(hs, DOMAIN frames) \subseteq V /\ None \in V
  BY ValuesGrow, ValuesMade
<1>6. Pushed(n) = [f \in D |-> IF f \in DOMAIN frames THEN frames[f] ELSE NewFrame]
  BY DEF Pushed
<1>7. EnvPushed(env, n) = env \o taken
  BY DEF EnvPushed
<1> HIDE DEF taken, V
<1>3. DOMAIN taken = 1..n /\ Range(taken) \subseteq FrameNumbers /\ taken \in Seq(Range(taken))
  <2>1. DOMAIN taken = 1..n
    BY <1>2
  <2>2. Range(taken) \subseteq FrameNumbers
    BY <1>2, <2>1 DEF Range
  <2>3. \A i \in 1..n : taken[i] \in Range(taken)
    BY <2>1 DEF Range
  <2> QED
    BY <1>2, <2>1, <2>2, <2>3
<1>8. Unused[1] \in D
  BY <1>2, <1>3 DEF Range
<1>9. ASSUME NEW f \in D
      PROVE  (IF f \in DOMAIN frames THEN frames[f] ELSE NewFrame) \in [Names -> V]
  <2>1. CASE f \in DOMAIN frames
    BY <2>1, <1>5 DEF FramesOver
  <2>2. CASE f \notin DOMAIN frames
    BY <2>2, <1>5 DEF NewFrame
  <2> QED
    BY <2>1, <2>2
<1>10. Pushed(n) \in FramesOver(D, V)
  BY <1>6, <1>9 DEF FramesOver
<1>11. env \in Seq(D) /\ taken \in Seq(D)
  BY <1>3
<1>12. /\ env \o taken \in Seq(D) /\ Len(env \o taken) = Len(env) + n
       /\ \A i \in 1..Len(env) : (env \o taken)[i] = env[i]
  BY <1>2, <1>11
<1> QED
  BY <1>3, <1>4, <1>7, <1>8, <1>10, <1>12 DEF V

-----------------------------------------------------------------------------
(* Steps outside a collection *)

(* The frames that env_, val_, the activations and the objects hold. *)
HeldFrames ==
  /\ Range(env_) \subseteq Holders
  /\ Range(val_.env) \subseteq Holders
  /\ \A i \in DOMAIN active : HeldBy(active[i]) \subseteq Holders
  /\ \A i \in DOMAIN from_ : \A k \in DOMAIN from_[i].values :
        Range(from_[i].values[k].env) \subseteq Holders
  /\ \A i \in DOMAIN to_ : \A k \in DOMAIN to_[i].values :
        Range(to_[i].values[k].env) \subseteq Holders

LEMMA HoldersHold == HeldFrames
<1>1. ASSUME NEW values, NEW v \in values PROVE Range(v.env) \subseteq EnvsIn(values)
  BY DEF EnvsIn
<1>2. ASSUME NEW objs, NEW i \in DOMAIN objs, NEW k \in DOMAIN objs[i].values
      PROVE  objs[i].values[k] \in ValuesOf(objs)
  BY DEF ValuesOf, Range
<1>3. \A i \in DOMAIN from_ : \A k \in DOMAIN from_[i].values :
         Range(from_[i].values[k].env) \subseteq EnvsIn(ValuesOf(from_))
  BY <1>1, <1>2
<1>4. \A i \in DOMAIN to_ : \A k \in DOMAIN to_[i].values :
         Range(to_[i].values[k].env) \subseteq EnvsIn(ValuesOf(to_))
  BY <1>1, <1>2
<1>5. \A i \in DOMAIN active : HeldBy(active[i]) \subseteq UNION {HeldBy(a) : a \in Range(active)}
  BY DEF Range
<1>6. /\ Range(env_) \subseteq Holders
      /\ Range(val_.env) \subseteq Holders
      /\ UNION {HeldBy(a) : a \in Range(active)} \subseteq Holders
      /\ EnvsIn(ValuesOf(from_)) \subseteq Holders
      /\ EnvsIn(ValuesOf(to_)) \subseteq Holders
  <2> DEFINE held   == UNION {HeldBy(a) : a \in Range(active)}
             inFrom == EnvsIn(ValuesOf(from_))
             inTo   == EnvsIn(ValuesOf(to_))
  <2>1. Holders = Range(env_) \cup Range(val_.env) \cup held \cup inFrom \cup inTo
    BY DEF Holders
  <2> HIDE DEF held, inFrom, inTo
  <2>2. /\ Range(env_) \subseteq Holders
        /\ Range(val_.env) \subseteq Holders
        /\ held \subseteq Holders
        /\ inFrom \subseteq Holders
        /\ inTo \subseteq Holders
    BY <2>1
  <2> QED
    BY <2>2 DEF held, inFrom, inTo
<1> QED
  BY <1>3, <1>4, <1>5, <1>6 DEF HeldFrames

(* What holds in the next state of values over the frames fs, holds over   *)
(* those of fs that are kept. *)
LEMMA KeptValues ==
  ASSUME NEW fs, FramesBecome(fs)
  PROVE  /\ env_' \in Seq(DOMAIN fs) => env_' \in Seq(DOMAIN frames')
         /\ \A hs : val_' \in DValuesOver(hs, DOMAIN fs)
                      => val_' \in DValuesOver(hs, DOMAIN frames')
         /\ \A hs : active' \in Seq(ActivationsOver(hs, DOMAIN fs))
                      => active' \in Seq(ActivationsOver(hs, DOMAIN frames'))
         /\ \A hs, fwds : from_' \in Seq(ObjectsOver(fwds, DValuesOver(hs, DOMAIN fs)))
                      => from_' \in Seq(ObjectsOver(fwds, DValuesOver(hs, DOMAIN frames')))
<1>1. /\ Range(env_') \subseteq Holders'
      /\ Range(val_'.env) \subseteq Holders'
      /\ \A i \in DOMAIN active' : HeldBy(active'[i]) \subseteq Holders'
      /\ \A i \in DOMAIN from_' : \A k \in DOMAIN from_'[i].values :
            Range(from_'[i].values[k].env) \subseteq Holders'
  <2>1. HeldFrames'
    BY HoldersHold, PTL
  <2> QED
    BY <2>1 DEF HeldFrames
<1>2. Holders' \cap DOMAIN fs \subseteq DOMAIN frames'
  BY FramesKept
<1>3. ASSUME env_' \in Seq(DOMAIN fs) PROVE env_' \in Seq(DOMAIN frames')
  <2>1. \A i \in 1..Len(env_') : env_'[i] \in Range(env_') /\ env_'[i] \in DOMAIN fs
    BY <1>3 DEF Range
  <2> QED
    BY <1>1, <1>2, <1>3, <2>1
<1>4. ASSUME NEW hs, val_' \in DValuesOver(hs, DOMAIN fs)
      PROVE  val_' \in DValuesOver(hs, DOMAIN frames')
  <2>1. (IsAggregate(val_') => val_'.href \in hs) /\ Range(val_'.env) \subseteq DOMAIN fs
    BY <1>4, ValueFacts
  <2>2. Range(val_'.env) \subseteq DOMAIN frames'
    BY <1>1, <1>2, <2>1
  <2> QED
    BY <1>4, <2>1, <2>2, ValueOver
<1>5. ASSUME NEW hs, active' \in Seq(ActivationsOver(hs, DOMAIN fs))
      PROVE  active' \in Seq(ActivationsOver(hs, DOMAIN frames'))
  <2>1. ASSUME NEW i \in 1..Len(active') PROVE active'[i] \in ActivationsOver(hs, DOMAIN frames')
    <3>1. active'[i] \in ActivationsOver(hs, DOMAIN fs) /\ i \in DOMAIN active'
      BY <1>5
    <3>2. HeldBy(active'[i]) \subseteq DOMAIN frames'
      BY <1>1, <1>2, <3>1, ActivationFacts
    <3> QED
      BY <3>1, <3>2, ActivationOver
  <2> QED
    BY <1>5, <2>1
<1>6. ASSUME NEW hs, NEW fwds, from_' \in Seq(ObjectsOver(fwds, DValuesOver(hs, DOMAIN fs)))
      PROVE  from_' \in Seq(ObjectsOver(fwds, DValuesOver(hs, DOMAIN frames')))
  <2>1. ASSUME NEW i \in 1..Len(from_')
        PROVE  from_'[i] \in ObjectsOver(fwds, DValuesOver(hs, DOMAIN frames'))
    <3> DEFINE obj == from_'[i]
    <3>1. obj \in ObjectsOver(fwds, DValuesOver(hs, DOMAIN fs)) /\ i \in DOMAIN from_'
      BY <1>6
    <3>2. /\ obj.values \in Seq(DValuesOver(hs, DOMAIN fs))
          /\ DOMAIN obj.values = 1..Len(obj.values)
      BY <3>1, ObjectFacts
    <3>3. ASSUME NEW k \in 1..Len(obj.values)
          PROVE  obj.values[k] \in DValuesOver(hs, DOMAIN frames')
      <4>1. obj.values[k] \in DValuesOver(hs, DOMAIN fs)
        BY <3>2
      <4>2. Range(obj.values[k].env) \subseteq Holders'
        BY <1>1, <3>1, <3>2
      <4>3. /\ IsAggregate(obj.values[k]) => obj.values[k].href \in hs
            /\ Range(obj.values[k].env) \subseteq DOMAIN fs
        BY <4>1, ValueFacts
      <4>4. Range(obj.values[k].env) \subseteq DOMAIN frames'
        BY <1>2, <4>2, <4>3
      <4> QED
        BY <4>1, <4>3, <4>4, ValueOver
    <3>4. obj.values \in Seq(DValuesOver(hs, DOMAIN frames'))
      BY <3>2, <3>3
    <3> HIDE DEF obj
    <3>5. obj \in ObjectsOver(fwds, DValuesOver(hs, DOMAIN frames'))
      BY <3>1, <3>4 DEF ObjectsOver
    <3> QED
      BY <3>5 DEF obj
  <2> QED
    BY <1>6, <2>1
<1> QED
  BY <1>3, <1>4, <1>5, <1>6

LEMMA KeptFrames ==
  ASSUME NEW fs, FramesBecome(fs), NEW hs, fs \in FramesOver(DOMAIN fs, DValuesOver(hs, DOMAIN fs))
  PROVE  frames' \in FramesOver(DOMAIN frames', DValuesOver(hs, DOMAIN frames'))
<1> DEFINE D == DOMAIN frames'
<1>1. D \subseteq DOMAIN fs /\ frames' = [f \in D |-> fs[f]]
  BY FramesKept
<1>2. \A f \in D : CapturedBy(fs[f]) \cap DOMAIN fs \subseteq D
  BY FramesKept
<1> HIDE DEF D
<1>3. ASSUME NEW f \in D, NEW n \in Names PROVE fs[f][n] \in DValuesOver(hs, D)
  <2>1. fs[f][n] \in DValuesOver(hs, DOMAIN fs) /\ n \in DOMAIN fs[f]
    BY <1>1 DEF FramesOver
  <2>2. Range(fs[f][n].env) \subseteq CapturedBy(fs[f])
    BY <2>1, Captured
  <2>3. (IsAggregate(fs[f][n]) => fs[f][n].href \in hs) /\ Range(fs[f][n].env) \subseteq DOMAIN fs
    BY <2>1, ValueFacts
  <2>4. Range(fs[f][n].env) \subseteq D
    BY <1>2, <2>2, <2>3
  <2> QED
    BY <2>1, <2>3, <2>4, ValueOver
<1>4. \A f \in D : fs[f] \in [Names -> DValuesOver(hs, D)]
  <2>1. ASSUME NEW f \in D PROVE fs[f] = [n \in Names |-> fs[f][n]]
    BY <1>1 DEF FramesOver
  <2> QED
    BY <1>3, <2>1
<1>5. frames' \in FramesOver(D, DValuesOver(hs, D))
  BY <1>1, <1>4 DEF FramesOver
<1> QED
  BY <1>5 DEF D

(* A step of the program, which leaves nothing of a collection. *)
LEMMA QuietStep ==
  ASSUME NEW fs, NEW p \in {"next", "run"}, gc \in Control, QuietInv,
         FramesBecome(fs), gc' = [gc EXCEPT !.phase = p], to_' = to_,
         DOMAIN fs \subseteq FrameNumbers,
         fs \in FramesOver(DOMAIN fs, DValuesOver(DOMAIN from_', DOMAIN fs)),
         from_' \in Seq(ObjectsOver({GC_NULL}, DValuesOver(DOMAIN from_', DOMAIN fs))),
         val_' \in DValuesOver(DOMAIN from_', DOMAIN fs),
         active' \in Seq(ActivationsOver(DOMAIN from_', DOMAIN fs)),
         env_' \in Seq(DOMAIN fs)
  PROVE  /\ gc' \in Control /\ gc'.phase = p
         /\ DOMAIN frames' \subseteq FrameNumbers
         /\ env_' \in Seq(DOMAIN frames')
         /\ ~Collecting'
         /\ QuietInv'
<1> DEFINE D == DOMAIN frames'
           H == DOMAIN from_'
<1>1. gc' \in Control /\ gc'.phase = p
  BY DEF Control
<1>2. gc'.todo = gc.todo /\ gc'.done = gc.done /\ gc'.visited = gc.visited /\ gc'.scan = gc.scan
  BY DEF Control
<1>3. ~Collecting'
  BY <1>1 DEF Collecting
<1>4. D \subseteq DOMAIN fs
  BY FramesKept
<1>6. /\ env_' \in Seq(D)
      /\ val_' \in DValuesOver(H, D)
      /\ active' \in Seq(ActivationsOver(H, D))
      /\ from_' \in Seq(ObjectsOver({GC_NULL}, DValuesOver(H, D)))
  BY KeptValues
<1> HIDE DEF D, H
<1>9. frames' \in FramesOver(D, DValuesOver(H, D))
  BY KeptFrames DEF D, H
<1>10. to_' = << >> /\ gc'.todo = << >> /\ gc'.done = {} /\ gc'.visited = {} /\ gc'.scan = 1
  BY <1>2 DEF QuietInv
<1>11. QuietInv'
  BY <1>6, <1>9, <1>10 DEF QuietInv, D, H
<1> QED
  BY <1>1, <1>3, <1>4, <1>6, <1>11 DEF D

(* As long as no exit has left a call, environment e fits the first n of   *)
(* the activations acts. *)
Fits(acts, e, n) == strayed \/ EnvFits(acts, e, n)

(* What the program finds: the variables, what it may read, the loops and  *)
(* the calls in progress. *)
LEMMA ProgramFacts ==
  ASSUME MemoryInv, Running
  PROVE  /\ ~Collecting /\ QuietInv /\ gc \in Control
         /\ DOMAIN frames \subseteq FrameNumbers /\ env_ \in Seq(DOMAIN frames)
         /\ to_ = << >>
         /\ from_ \in Seq(ObjectsOver({GC_NULL}, DValuesOver(DOMAIN from_, DOMAIN frames)))
         /\ frames \in FramesOver(DOMAIN frames, DValuesOver(DOMAIN from_, DOMAIN frames))
         /\ val_ \in DValuesOver(DOMAIN from_, DOMAIN frames)
         /\ active \in Seq(ActivationsOver(DOMAIN from_, DOMAIN frames))
         /\ \A x \in Variables : x[1] \in DOMAIN frames /\ x[2] \in Names
         /\ \A x \in Variables : Variable(x) \in DValuesOver(DOMAIN from_, DOMAIN frames)
         /\ Readable \subseteq DValuesOver(DOMAIN from_, DOMAIN frames)
         /\ Fits(active, env_, Len(active))
         /\ \A c \in Calls : Fits(active, active[c].saved, c - 1)
         /\ capacity \in Nat /\ Len(from_) <= capacity
<1> DEFINE V == DValuesOver(DOMAIN from_, DOMAIN frames)
<1>1. gc.phase = "run"
  BY DEF Running
<1>2. ~Collecting /\ QuietInv
  BY <1>1 DEF Collecting, MemoryInv
<1>3. /\ from_ \in Seq(ObjectsOver({GC_NULL}, V))
      /\ frames \in FramesOver(DOMAIN frames, V)
      /\ val_ \in V
      /\ active \in Seq(ActivationsOver(DOMAIN from_, DOMAIN frames))
      /\ to_ = << >>
  BY <1>2 DEF QuietInv
<1>4. /\ gc \in Control /\ DOMAIN frames \subseteq FrameNumbers /\ env_ \in Seq(DOMAIN frames)
      /\ capacity \in Nat /\ Len(from_) <= capacity
  BY DEF MemoryInv
<1>5. Range(env_) \subseteq DOMAIN frames
  BY <1>4 DEF Range
<1> HIDE DEF V
<1>6. ASSUME NEW x \in Variables
      PROVE  x[1] \in DOMAIN frames /\ x[2] \in Names
  <2>1. x[1] \in Range(env_) /\ x[2] \in Names
    BY DEF Variables
  <2>2. x[1] \in DOMAIN frames
    BY <1>5, <2>1
  <2> QED
    BY <2>1, <2>2
<1>7. ASSUME NEW x \in Variables PROVE Variable(x) \in V
  <2>1. frames[x[1]] \in [Names -> V]
    BY <1>3, <1>6 DEF FramesOver
  <2> QED
    BY <1>6, <2>1 DEF Variable
<1>8. ASSUME NEW x \in Variables, IsAggregate(Variable(x))
      PROVE  Range(from_[Variable(x).href].values) \subseteq V
  <2>1. Variable(x).href \in DOMAIN from_
    BY <1>7, <1>8, ValueFacts DEF V
  <2>2. from_[Variable(x).href] \in ObjectsOver({GC_NULL}, V)
    BY <1>3, <2>1
  <2> QED
    BY <2>2, ObjectFacts DEF Range
<1>9. Readable \subseteq V
  <2>1. {None} \subseteq V
    BY ValuesMade DEF V
  <2>2. {Variable(y) : y \in Variables} \subseteq V
    BY <1>7
  <2>3. UNION {Range(from_[Variable(y).href].values) :
                 y \in {z \in Variables : IsAggregate(Variable(z))}} \subseteq V
    BY <1>8
  <2> QED
    BY <2>1, <2>2, <2>3 DEF Readable
<1>10. Fits(active, env_, Len(active)) /\ \A c \in Calls : Fits(active, active[c].saved, c - 1)
  BY <1>1 DEF MemoryInv, EnvInv, Fits
<1> QED
  BY <1>2, <1>3, <1>4, <1>6, <1>7, <1>9, <1>10 DEF V

-----------------------------------------------------------------------------
(* Environments and activations *)

LEMMA CallsInFacts ==
  ASSUME NEW acts, NEW n \in Nat
  PROVE  /\ CallsIn(acts, n) \subseteq 1..n
         /\ \A m \in 0..n : (\A c \in m + 1..n : acts[c].kind # "call")
                                => CallsIn(acts, m) = CallsIn(acts, n)
         /\ \A c \in 1..n : acts[c].kind = "call" => c \in CallsIn(acts, n)
<1>1. ASSUME NEW m \in 0..n, \A c \in m + 1..n : acts[c].kind # "call"
      PROVE  CallsIn(acts, m) = CallsIn(acts, n)
  <2>1. ASSUME NEW c \in 1..m PROVE c \in 1..n
    OBVIOUS
  <2>2. ASSUME NEW c \in 1..n, acts[c].kind = "call" PROVE c \in 1..m
    BY <1>1, <2>2
  <2> QED
    BY <2>1, <2>2 DEF CallsIn
<1> QED
  BY <1>1 DEF CallsIn

LEMMA EnvFitsPrefix ==
  ASSUME NEW acts, NEW bs, NEW n \in Nat, NEW e,
         \A c \in 1..n : acts[c].kind = bs[c].kind, EnvFits(acts, e, n)
  PROVE  EnvFits(bs, e, n)
<1>1. CallsIn(acts, n) = CallsIn(bs, n)
  BY DEF CallsIn
<1> QED
  BY <1>1 DEF EnvFits

(* The first l elements of a sequence. *)
LEMMA FrontType ==
  ASSUME NEW S, NEW e \in Seq(S), NEW l \in Int, l <= Len(e)
  PROVE  SubSeq(e, 1, l) \in Seq(S)
OBVIOUS

(* There is always a frame. *)
LEMMA EnvFitsFrame ==
  ASSUME NEW acts, NEW n \in Nat, NEW e, Len(e) \in Nat, EnvFits(acts, e, n)
  PROVE  Len(e) >= 1
<1>1. CASE CallsIn(acts, n) = {}
  BY <1>1 DEF EnvFits
<1>2. CASE CallsIn(acts, n) # {}
  <2>1. PICK c \in CallsIn(acts, n) : Len(e) > n - c
    BY <1>2 DEF EnvFits
  <2>2. c \in 1..n
    BY CallsInFacts
  <2> QED
    BY <2>1, <2>2
<1> QED
  BY <1>1, <1>2

(* A body or a loop is entered: one activation more, one frame more. *)
LEMMA EnvFitsEnter ==
  ASSUME NEW acts, NEW n \in Nat, NEW e, NEW e2, Len(e) \in Nat, EnvFits(acts, e, n),
         acts[n + 1].kind # "call", Len(e2) = Len(e) + 1, \A i \in 1..Len(e) : e2[i] = e[i]
  PROVE  EnvFits(acts, e2, n + 1)
<1>1. CallsIn(acts, n) = CallsIn(acts, n + 1) /\ CallsIn(acts, n) \subseteq 1..n
  <2>1. n \in 0..n + 1 /\ \A c \in n + 1..n + 1 : acts[c].kind # "call"
    OBVIOUS
  <2>2. n + 1 \in Nat
    OBVIOUS
  <2> QED
    BY <2>1, <2>2, CallsInFacts
<1>2. CASE CallsIn(acts, n) = {}
  <2>1. Len(e2) = n + 1 + 1 /\ e2[1] = 1
    BY <1>2 DEF EnvFits
  <2> QED
    BY <1>1, <1>2, <2>1 DEF EnvFits
<1>3. CASE CallsIn(acts, n) # {}
  <2>1. PICK c \in CallsIn(acts, n) : (\A d \in CallsIn(acts, n) : d <= c) /\ Len(e) > n - c
    BY <1>3 DEF EnvFits
  <2>2. CallsIn(acts, n + 1) # {} /\ c \in CallsIn(acts, n + 1) /\ \A d \in CallsIn(acts, n + 1) : d <= c
    BY <1>1, <1>3, <2>1
  <2> DEFINE C == CallsIn(acts, n + 1)
             m == n + 1
  <2>3. C # {} /\ \E c1 \in C : (\A d \in C : d <= c1) /\ Len(e2) > m - c1
    <3>1. Len(e2) > m - c
      BY <1>1, <2>1
    <3>2. c \in C /\ C # {} /\ \A d \in C : d <= c
      BY <2>2
    <3> HIDE DEF C, m
    <3> QED
      BY <3>1, <3>2
  <2>4. EnvFits(acts, e2, m) <=> \E c1 \in C : (\A d \in C : d <= c1) /\ Len(e2) > m - c1
    <3> HIDE DEF m
    <3>1. CallsIn(acts, m) # {} /\ C = CallsIn(acts, m)
      BY <2>3 DEF m
    <3> HIDE DEF C
    <3> QED
      BY <3>1 DEF EnvFits
  <2> QED
    BY <2>3, <2>4
<1> QED
  BY <1>2, <1>3

(* Bodies and loops are left, each with its frame. *)
LEMMA EnvFitsLeave ==
  ASSUME NEW acts, NEW n \in Nat, NEW m \in 0..n, NEW S, NEW e \in Seq(S), EnvFits(acts, e, n),
         \A c \in m + 1..n : acts[c].kind # "call"
  PROVE  /\ SubSeq(e, 1, Len(e) - (n - m)) \in Seq(S)
         /\ EnvFits(acts, SubSeq(e, 1, Len(e) - (n - m)), m)
<1> DEFINE l  == Len(e) - (n - m)
           e2 == SubSeq(e, 1, l)
<1>1. CallsIn(acts, m) = CallsIn(acts, n) /\ CallsIn(acts, m) \subseteq 1..m
  BY CallsInFacts
<1>2. Len(e) \in Nat /\ l \in Int /\ l <= Len(e) /\ m \in Nat
  OBVIOUS
<1>3. e2 \in Seq(S) /\ (l >= 1 => Len(e2) = l /\ e2[1] = e[1])
  BY <1>2
<1>4. CASE CallsIn(acts, n) = {}
  <2>1. Len(e) = n + 1 /\ e[1] = 1
    BY <1>4 DEF EnvFits
  <2>2. l = m + 1 /\ l >= 1
    BY <1>2, <2>1
  <2>3. Len(e2) = m + 1 /\ e2[1] = 1
    BY <1>3, <2>1, <2>2
  <2> HIDE DEF e2
  <2>4. EnvFits(acts, e2, m)
    BY <1>1, <1>4, <2>3 DEF EnvFits
  <2> QED
    BY <1>3, <2>4 DEF e2
<1>5. CASE CallsIn(acts, n) # {}
  <2>1. PICK c \in CallsIn(acts, n) : (\A d \in CallsIn(acts, n) : d <= c) /\ Len(e) > n - c
    BY <1>5 DEF EnvFits
  <2>3. c \in 1..m
    BY <1>1
  <2>4. l > m - c /\ l >= 1
    BY <1>2, <2>1, <2>3
  <2>5. Len(e2) > m - c
    BY <1>3, <2>4
  <2> HIDE DEF e2
  <2>2. EnvFits(acts, e2, m)
    BY <1>1, <1>5, <2>1, <2>5 DEF EnvFits
  <2> QED
    BY <1>3, <2>2 DEF e2
<1> QED
  BY <1>4, <1>5

(* A function is called, and its body entered. *)
LEMMA EnvFitsCalled ==
  ASSUME NEW acts, NEW n \in Nat, NEW e, Len(e) \in Nat, Len(e) >= 2,
         acts[n + 1].kind = "call", acts[n + 2].kind # "call"
  PROVE  EnvFits(acts, e, n + 2)
<1>1. n + 2 \in Nat /\ n + 1 \in 1..n + 2
  OBVIOUS
<1>2. n + 1 \in CallsIn(acts, n + 2) /\ CallsIn(acts, n + 2) \subseteq 1..n + 2
  BY <1>1, CallsInFacts
<1>3. \A d \in CallsIn(acts, n + 2) : d <= n + 1
  <2>1. n + 2 \notin CallsIn(acts, n + 2)
    BY DEF CallsIn
  <2> QED
    BY <1>2, <2>1
<1>4. Len(e) > n + 2 - (n + 1)
  OBVIOUS
<1> QED
  BY <1>2, <1>3, <1>4 DEF EnvFits

(* The same, as long as no exit has left a call. *)
LEMMA FitsPrefix ==
  ASSUME NEW acts, NEW bs, NEW n \in Nat, NEW e,
         \A c \in 1..n : acts[c].kind = bs[c].kind, Fits(acts, e, n)
  PROVE  Fits(bs, e, n)
BY EnvFitsPrefix DEF Fits

LEMMA FitsEnter ==
  ASSUME NEW acts, NEW n \in Nat, NEW e, NEW e2, Len(e) \in Nat, Fits(acts, e, n),
         acts[n + 1].kind # "call", Len(e2) = Len(e) + 1, \A i \in 1..Len(e) : e2[i] = e[i]
  PROVE  Fits(acts, e2, n + 1)
BY EnvFitsEnter DEF Fits

LEMMA FitsLeave ==
  ASSUME NEW acts, NEW n \in Nat, NEW m \in 0..n, NEW S, NEW e \in Seq(S), Fits(acts, e, n),
         \A c \in m + 1..n : acts[c].kind # "call"
  PROVE  /\ SubSeq(e, 1, Len(e) - (n - m)) \in Seq(S)
         /\ Fits(acts, SubSeq(e, 1, Len(e) - (n - m)), m)
<1>1. SubSeq(e, 1, Len(e) - (n - m)) \in Seq(S)
  <2>1. Len(e) - (n - m) \in Int /\ Len(e) - (n - m) <= Len(e)
    OBVIOUS
  <2> QED
    BY <2>1, FrontType
<1> QED
  BY <1>1, EnvFitsLeave DEF Fits

LEMMA FitsCalled ==
  ASSUME NEW acts, NEW n \in Nat, NEW e, Len(e) \in Nat, Len(e) >= 2,
         acts[n + 1].kind = "call", acts[n + 2].kind # "call"
  PROVE  Fits(acts, e, n + 2)
BY EnvFitsCalled DEF Fits

(* The activations below number m stay, and what is above them fits. *)
LEMMA EnvStep ==
  ASSUME \A c \in Calls : Fits(active, active[c].saved, c - 1), strayed' = strayed,
         gc'.phase \in {"next", "run"}, gc'.phase = "next" => active' = << >>,
         NEW S, active \in Seq(S), active' \in Seq(S),
         NEW m \in Nat, m <= Len(active), m <= Len(active'),
         \A c \in 1..m : /\ active'[c].kind = active[c].kind
                         /\ active[c].kind = "call" => active'[c].saved = active[c].saved,
         \A c \in m + 1..Len(active') :
            active'[c].kind = "call" => Fits(active', active'[c].saved, c - 1),
         Fits(active', env_', Len(active'))
  PROVE  EnvInv'
<1>1. ASSUME NEW c \in Calls' PROVE Fits(active', active'[c].saved, c - 1)
  <2>1. c \in 1..Len(active') /\ active'[c].kind = "call"
    BY DEF Calls
  <2>2. CASE c > m
    BY <2>1, <2>2
  <2>3. CASE c <= m
    <3>1. c \in 1..m /\ c \in DOMAIN active /\ active[c].kind = "call"
      BY <2>1, <2>3
    <3>2. c \in Calls /\ active'[c].saved = active[c].saved /\ c - 1 \in Nat
      BY <3>1 DEF Calls
    <3>3. Fits(active, active[c].saved, c - 1)
      BY <3>2
    <3>4. \A d \in 1..c - 1 : active[d].kind = active'[d].kind
      BY <3>1
    <3> QED
      BY <3>2, <3>3, <3>4, FitsPrefix
  <2> QED
    BY <2>1, <2>2, <2>3
<1>2. gc'.phase # "clear"
  OBVIOUS
<1>3. ~strayed' => /\ EnvFits(active', env_', Len(active'))
                   /\ \A c \in Calls' : EnvFits(active', active'[c].saved, c - 1)
  BY <1>1 DEF Fits
<1> QED
  BY <1>2, <1>3 DEF EnvInv

(* A step of the program keeps the invariant, when what it leaves fits. *)
LEMMA ProgramStep ==
  ASSUME MemoryInv, Running, Resumes, strayed' = strayed,
         NEW fs, FramesBecome(fs),
         DOMAIN fs \subseteq FrameNumbers,
         fs \in FramesOver(DOMAIN fs, DValuesOver(DOMAIN from_', DOMAIN fs)),
         from_' \in Seq(ObjectsOver({GC_NULL}, DValuesOver(DOMAIN from_', DOMAIN fs))),
         val_' \in DValuesOver(DOMAIN from_', DOMAIN fs),
         active' \in Seq(ActivationsOver(DOMAIN from_', DOMAIN fs)),
         env_' \in Seq(DOMAIN fs),
         capacity' \in Nat, Len(from_') <= capacity',
         NEW m \in Nat, m <= Len(active), m <= Len(active'),
         \A c \in 1..m : /\ active'[c].kind = active[c].kind
                         /\ active[c].kind = "call" => active'[c].saved = active[c].saved,
         \A c \in m + 1..Len(active') :
            active'[c].kind = "call" => Fits(active', active'[c].saved, c - 1),
         Fits(active', env_', Len(active'))
  PROVE  MemoryInv'
<1> DEFINE p == PhaseAfter
<1>1. p \in {"next", "run"} /\ (p = "next" => active' = << >>)
  BY DEF PhaseAfter
<1>2. gc' = [gc EXCEPT !.phase = p] /\ to_' = to_
  BY DEF Resumes
<1>3. gc \in Control /\ QuietInv /\ \A c \in Calls : Fits(active, active[c].saved, c - 1)
  BY ProgramFacts
<1> HIDE DEF p
<1>4. /\ gc' \in Control /\ gc'.phase = p
      /\ DOMAIN frames' \subseteq FrameNumbers
      /\ env_' \in Seq(DOMAIN frames')
      /\ ~Collecting'
      /\ QuietInv'
  BY <1>1, <1>2, <1>3, QuietStep
<1>5. EnvInv'
  <2> DEFINE S == Range(active) \cup Range(active')
  <2>1. active \in Seq(ActivationsOver(DOMAIN from_, DOMAIN frames))
    BY ProgramFacts
  <2>2. \A acts, T : acts \in Seq(T) => acts \in Seq(Range(acts))
    BY SequenceOfItsRange
  <2>3. active \in Seq(Range(active)) /\ active' \in Seq(Range(active'))
    BY <2>1, <2>2
  <2>4. active \in Seq(S) /\ active' \in Seq(S)
    BY <2>3, SequencesGrow
  <2> HIDE DEF S
  <2> QED
    BY <1>1, <1>3, <1>4, <2>4, EnvStep
<1> QED
  BY <1>4, <1>5 DEF MemoryInv

-----------------------------------------------------------------------------
(* The statements of the program *)

LEMMA ActivationsGrow ==
  ASSUME NEW hs, NEW fs, NEW hs2, NEW fs2, hs \subseteq hs2, fs \subseteq fs2
  PROVE  ActivationsOver(hs, fs) \subseteq ActivationsOver(hs2, fs2)
<1>1. ASSUME NEW a \in ActivationsOver(hs, fs) PROVE a \in ActivationsOver(hs2, fs2)
  BY ActivationFacts, ActivationOver
<1> QED
  BY <1>1

(* What is there fits when there are more objects and more frames. *)
LEMMA MemoryGrows ==
  ASSUME MemoryInv, Running, NEW hs, NEW fs, DOMAIN from_ \subseteq hs, DOMAIN frames \subseteq fs
  PROVE  /\ from_ \in Seq(ObjectsOver({GC_NULL}, DValuesOver(hs, fs)))
         /\ val_ \in DValuesOver(hs, fs)
         /\ active \in Seq(ActivationsOver(hs, fs))
         /\ env_ \in Seq(fs)
         /\ frames \in FramesOver(DOMAIN frames, DValuesOver(hs, fs))
         /\ Readable \subseteq DValuesOver(hs, fs)
         /\ \A x \in Variables : Variable(x) \in DValuesOver(hs, fs)
<1> DEFINE V == DValuesOver(DOMAIN from_, DOMAIN frames)
           W == DValuesOver(hs, fs)
           A == ActivationsOver(DOMAIN from_, DOMAIN frames)
           B == ActivationsOver(hs, fs)
<1>1. V \subseteq W
  BY ValuesGrow
<1>2. A \subseteq B
  BY ActivationsGrow
<1>3. /\ from_ \in Seq(ObjectsOver({GC_NULL}, V)) /\ val_ \in V /\ active \in Seq(A)
      /\ env_ \in Seq(DOMAIN frames) /\ Readable \subseteq V
      /\ \A x \in Variables : Variable(x) \in V
      /\ frames \in FramesOver(DOMAIN frames, V)
  BY ProgramFacts
<1> HIDE DEF V, W, A, B
<1>4. ObjectsOver({GC_NULL}, V) \subseteq ObjectsOver({GC_NULL}, W)
  BY <1>1, ObjectsGrow
<1>5. from_ \in Seq(ObjectsOver({GC_NULL}, W))
  BY <1>3, <1>4, SequencesGrow
<1>6. active \in Seq(B) /\ env_ \in Seq(fs)
  BY <1>2, <1>3, SequencesGrow
<1>7. frames \in FramesOver(DOMAIN frames, W)
  BY <1>1, <1>3, FramesGrow
<1>8. val_ \in W /\ Readable \subseteq W /\ \A x \in Variables : Variable(x) \in W
  BY <1>1, <1>3
<1> QED
  BY <1>5, <1>6, <1>7, <1>8 DEF W, B

LEMMA AtStatementRuns == AtStatement => Running
BY DEF AtStatement, Inside

LEMMA LengthsOfActive ==
  ASSUME MemoryInv, Running
  PROVE  /\ Len(active) \in Nat /\ DOMAIN active = 1..Len(active)
         /\ Len(env_) \in Nat /\ Len(from_) \in Nat /\ DOMAIN from_ = 1..Len(from_)
BY ProgramFacts

(* A value is assigned to a variable. *)
LEMMA AssignKeeps ==
  ASSUME MemoryInv, AtStatement, NEW x \in Variables,
         NEW v \in DValuesOver(DOMAIN from_, DOMAIN frames),
         val_' = MovedFrom(v), UNCHANGED <<from_, capacity, env_, active>>,
         Proceeds, FramesBecome(Set(frames, x, v))
  PROVE  MemoryInv'
<1> DEFINE V  == DValuesOver(DOMAIN from_, DOMAIN frames)
           fs == Set(frames, x, v)
<1>1. Running /\ Resumes /\ strayed' = strayed
  BY AtStatementRuns DEF Proceeds
<1>2. /\ x[1] \in DOMAIN frames /\ x[2] \in Names /\ frames \in FramesOver(DOMAIN frames, V)
      /\ DOMAIN frames \subseteq FrameNumbers
  BY <1>1, ProgramFacts
<1> HIDE DEF V
<1>3. fs \in FramesOver(DOMAIN frames, V) /\ DOMAIN fs = DOMAIN frames
  <2> DEFINE D == DOMAIN frames
  <2>1. v \in V
    BY DEF V
  <2>2. x[1] \in D /\ x[2] \in Names /\ frames \in FramesOver(D, V)
    BY <1>2
  <2> HIDE DEF D
  <2>3. Set(frames, x, v) \in FramesOver(D, V) /\ DOMAIN Set(frames, x, v) = D
    BY <2>1, <2>2, SetVariable
  <2> QED
    BY <2>3 DEF D
<1>4. /\ val_' \in V /\ from_' = from_ /\ capacity' = capacity
      /\ env_' = env_ /\ active' = active
  BY ValuesMade DEF V
<1>5. /\ from_ \in Seq(ObjectsOver({GC_NULL}, V)) /\ env_ \in Seq(DOMAIN frames)
      /\ active \in Seq(ActivationsOver(DOMAIN from_, DOMAIN frames))
      /\ Fits(active, env_, Len(active)) /\ capacity \in Nat /\ Len(from_) <= capacity
  BY <1>1, ProgramFacts DEF V
<1>6. Len(active) \in Nat
  BY <1>1, LengthsOfActive
<1> HIDE DEF fs
<1>7. FramesBecome(fs)
  BY DEF fs
<1>8. \A c \in Len(active) + 1..Len(active') : FALSE
  BY <1>4, <1>6
<1>9. DValuesOver(DOMAIN from_', DOMAIN fs) = V
  BY <1>3, <1>4 DEF V
<1>10. ActivationsOver(DOMAIN from_', DOMAIN fs) = ActivationsOver(DOMAIN from_, DOMAIN frames)
  BY <1>3, <1>4
<1>11. /\ fs \in FramesOver(DOMAIN fs, DValuesOver(DOMAIN from_', DOMAIN fs))
       /\ from_' \in Seq(ObjectsOver({GC_NULL}, DValuesOver(DOMAIN from_', DOMAIN fs)))
       /\ val_' \in DValuesOver(DOMAIN from_', DOMAIN fs)
       /\ active' \in Seq(ActivationsOver(DOMAIN from_', DOMAIN fs))
       /\ env_' \in Seq(DOMAIN fs) /\ DOMAIN fs \subseteq FrameNumbers
  BY <1>2, <1>3, <1>4, <1>5, <1>9, <1>10
<1>12. /\ Fits(active', env_', Len(active')) /\ capacity' \in Nat /\ Len(from_') <= capacity'
       /\ Len(active) <= Len(active) /\ Len(active) <= Len(active')
       /\ \A c \in 1..Len(active) :
             /\ active'[c].kind = active[c].kind
             /\ active[c].kind = "call" => active'[c].saved = active[c].saved
  BY <1>4, <1>5, <1>6
<1> QED
  BY <1>1, <1>6, <1>7, <1>8, <1>11, <1>12, ProgramStep

LEMMA AssignVariableKeeps ==
  ASSUME MemoryInv, NEW x \in Variables, NEW v \in Readable, AssignVariable(x, v)
  PROVE  MemoryInv'
<1>1. v \in DValuesOver(DOMAIN from_, DOMAIN frames)
  BY AtStatementRuns, ProgramFacts DEF AssignVariable
<1> QED
  BY <1>1, AssignKeeps DEF AssignVariable

LEMMA InLoopType ==
  ASSUME MemoryInv, Running
  PROVE  InLoop \in BOOLEAN
BY DEF InLoop

LEMMA AssignFuncKeeps ==
  ASSUME MemoryInv, NEW x \in Variables, AssignFunc(x)
  PROVE  MemoryInv'
<1>1. env_ \in Seq(DOMAIN frames)
  BY DEF MemoryInv
<1>2. FuncHere \in DValuesOver(DOMAIN from_, DOMAIN frames)
  <2>1. InLoop \in BOOLEAN
    BY InLoopType, AtStatementRuns DEF AssignFunc
  <2> QED
    BY <1>1, <2>1, ValuesMade DEF FuncHere
<1> QED
  BY <1>2, AssignKeeps DEF AssignFunc

LEMMA ReallocatedFacts ==
  ASSUME NEW hs, NEW fs, NEW a \in ActivationsOver(hs, fs)
  PROVE  /\ Reallocated(a) \in ActivationsOver(hs, fs)
         /\ Reallocated(a).kind = a.kind
         /\ a.kind = "call" => Reallocated(a).saved = a.saved
<1>1. CASE a.kind = "loop" /\ a.over.type = "Array"
  <2>1. a \in [kind : {"loop"}, iter : Names, at : Nat \ {0}, moved : BOOLEAN,
               over : {v \in DValuesOver(hs, fs) : IsAggregate(v)}]
    BY <1>1 DEF ActivationsOver
  <2>2. [a EXCEPT !.moved = TRUE] \in
           [kind : {"loop"}, iter : Names, at : Nat \ {0}, moved : BOOLEAN,
            over : {v \in DValuesOver(hs, fs) : IsAggregate(v)}]
    BY <2>1
  <2>3. Reallocated(a) = [a EXCEPT !.moved = TRUE]
    BY <1>1 DEF Reallocated
  <2>4. Reallocated(a) \in ActivationsOver(hs, fs) /\ Reallocated(a).kind = "loop"
    BY <2>2, <2>3 DEF ActivationsOver
  <2> QED
    BY <1>1, <2>4
<1>2. CASE ~(a.kind = "loop" /\ a.over.type = "Array")
  BY <1>2 DEF Reallocated
<1> QED
  BY <1>1, <1>2

(* The elements that a literal may have. *)
LEMMA ElementListsType ==
  ASSUME NEW V, \A x \in Variables : Variable(x) \in V, NEW values \in ElementLists
  PROVE  values \in Seq(V)
<1> DEFINE read == [x \in Variables |-> Variable(x)]
<1>1. Range(read) \subseteq V
  BY DEF Range
<1> HIDE DEF read
<1>2. ElementLists = UNION {[1..n -> Range(read)] : n \in 0..MaxElements}
  BY DEF ElementLists, read
<1>3. PICK n \in 0..MaxElements : values \in [1..n -> Range(read)]
  BY <1>2
<1>4. n \in Nat
  BY HeapAssumption
<1>5. values \in [1..n -> V]
  BY <1>1, <1>3
<1> QED
  BY <1>4, <1>5

(* An object is made: it goes to the end of from_. *)
LEMMA AssignNewKeeps ==
  ASSUME MemoryInv, NEW x \in Variables, NEW kind \in {"Array", "Tuple"},
         NEW values \in ElementLists, AssignNew(x, kind, values)
  PROVE  MemoryInv'
<1> DEFINE hs  == 1..Len(from_) + 1
           V   == DValuesOver(hs, DOMAIN frames)
           v   == Aggregate(kind, Len(from_) + 1)
           obj == HeapObj(kind, values)
           fs  == Set(frames, x, v)
<1>1. /\ Running /\ Resumes /\ strayed' = strayed /\ PushBack(obj) /\ val_' = v /\ env_' = env_ /\ FramesBecome(fs)
  BY AtStatementRuns DEF AssignNew, Proceeds
<1>2. /\ x[1] \in DOMAIN frames /\ x[2] \in Names /\ DOMAIN frames \subseteq FrameNumbers
      /\ Fits(active, env_, Len(active)) /\ capacity \in Nat /\ Len(from_) <= capacity
  BY <1>1, ProgramFacts
<1>3. /\ Len(active) \in Nat /\ DOMAIN active = 1..Len(active)
      /\ Len(from_) \in Nat /\ DOMAIN from_ = 1..Len(from_)
  BY <1>1, LengthsOfActive
<1>4. DOMAIN from_ \subseteq hs
  BY <1>3
<1>5. /\ from_ \in Seq(ObjectsOver({GC_NULL}, V))
      /\ active \in Seq(ActivationsOver(hs, DOMAIN frames))
      /\ env_ \in Seq(DOMAIN frames)
      /\ frames \in FramesOver(DOMAIN frames, V)
      /\ \A y \in Variables : Variable(y) \in V
  BY <1>1, <1>4, MemoryGrows
<1>6. v \in V
  BY <1>3, ValuesMade
<1>7. fs \in FramesOver(DOMAIN frames, V) /\ DOMAIN fs = DOMAIN frames
  BY <1>2, <1>5, <1>6, SetVariable
<1>8. obj \in ObjectsOver({GC_NULL}, V)
  <2>1. values \in Seq(V)
    BY <1>5, ElementListsType
  <2> QED
    BY <2>1 DEF ObjectsOver, HeapObj
<1> HIDE DEF V, v, obj, fs
<1>9. /\ from_' = Append(from_, obj)
      /\ capacity' = IF ~Full THEN capacity ELSE IF capacity = 0 THEN 1 ELSE 2 * capacity
      /\ active' = IF Full THEN [i \in DOMAIN active |-> Reallocated(active[i])] ELSE active
  BY <1>1 DEF PushBack
<1>10. /\ from_' \in Seq(ObjectsOver({GC_NULL}, V)) /\ Len(from_') = Len(from_) + 1
       /\ DOMAIN from_' = hs
  BY <1>3, <1>5, <1>8, <1>9
<1>11. capacity' \in Nat /\ Len(from_') <= capacity'
  BY <1>2, <1>3, <1>9, <1>10 DEF Full
<1>12. /\ active' \in Seq(ActivationsOver(hs, DOMAIN frames)) /\ Len(active') = Len(active)
       /\ \A c \in 1..Len(active) :
             /\ active'[c].kind = active[c].kind
             /\ active[c].kind = "call" => active'[c].saved = active[c].saved
  <2>1. CASE Full
    <3>1. \A c \in 1..Len(active) : active[c] \in ActivationsOver(hs, DOMAIN frames)
      BY <1>5
    <3>2. active' = [i \in 1..Len(active) |-> Reallocated(active[i])]
      BY <1>3, <1>9, <2>1
    <3>3. \A c \in 1..Len(active) :
             /\ active'[c] \in ActivationsOver(hs, DOMAIN frames)
             /\ active'[c].kind = active[c].kind
             /\ active[c].kind = "call" => active'[c].saved = active[c].saved
      BY <3>1, <3>2, ReallocatedFacts
    <3>4. active' \in Seq(ActivationsOver(hs, DOMAIN frames)) /\ Len(active') = Len(active)
      BY <1>3, <3>2, <3>3
    <3> QED
      BY <3>3, <3>4
  <2>2. CASE ~Full
    BY <1>5, <1>9, <2>2
  <2> QED
    BY <2>1, <2>2
<1>13. Fits(active', env_', Len(active'))
  BY <1>1, <1>2, <1>3, <1>12, FitsPrefix
<1>14. \A c \in Len(active) + 1..Len(active') : FALSE
  BY <1>3, <1>12
<1>15. DValuesOver(DOMAIN from_', DOMAIN fs) = V
  BY <1>7, <1>10 DEF V
<1>16. ActivationsOver(DOMAIN from_', DOMAIN fs) = ActivationsOver(hs, DOMAIN frames)
  BY <1>7, <1>10
<1> HIDE DEF hs
<1>17. /\ fs \in FramesOver(DOMAIN fs, DValuesOver(DOMAIN from_', DOMAIN fs))
       /\ from_' \in Seq(ObjectsOver({GC_NULL}, DValuesOver(DOMAIN from_', DOMAIN fs)))
       /\ val_' \in DValuesOver(DOMAIN from_', DOMAIN fs)
       /\ active' \in Seq(ActivationsOver(DOMAIN from_', DOMAIN fs))
       /\ env_' \in Seq(DOMAIN fs) /\ DOMAIN fs \subseteq FrameNumbers
  BY <1>1, <1>2, <1>5, <1>6, <1>7, <1>10, <1>12, <1>15, <1>16
<1>18. Len(active) <= Len(active) /\ Len(active) <= Len(active')
  BY <1>3, <1>12
<1> QED
  BY <1>1, <1>3, <1>11, <1>12, <1>13, <1>14, <1>17, <1>18, ProgramStep

(* x[k] := v and x.k := v: an object of from_ is changed in place. *)
LEMMA AssignElementKeeps ==
  ASSUME MemoryInv, NEW x \in Variables, NEW v \in Readable, NEW k \in 1..MaxElements,
         AssignElement(x, k, v)
  PROVE  MemoryInv'
<1> DEFINE V    == DValuesOver(DOMAIN from_, DOMAIN frames)
           h    == Variable(x).href
           old  == from_[h].values
           new  == IF k > Len(old) THEN Append(old, v) ELSE [old EXCEPT ![k] = v]
           O    == ObjectsOver({GC_NULL}, V)
<1>1. /\ Running /\ Resumes /\ strayed' = strayed /\ FramesBecome(frames) /\ IsAggregate(Variable(x))
      /\ k <= Len(old) + (IF Variable(x).type = "Array" THEN 1 ELSE 0)
      /\ from_' = [from_ EXCEPT ![h].values = new]
      /\ val_' = IF Variable(x).type = "Array" THEN None ELSE Variable(x)
      /\ capacity' = capacity /\ env_' = env_ /\ active' = active
  BY AtStatementRuns DEF AssignElement, Proceeds
<1>2. /\ from_ \in Seq(O) /\ frames \in FramesOver(DOMAIN frames, V)
      /\ DOMAIN frames \subseteq FrameNumbers /\ env_ \in Seq(DOMAIN frames)
      /\ active \in Seq(ActivationsOver(DOMAIN from_, DOMAIN frames))
      /\ Variable(x) \in V /\ v \in V
      /\ Fits(active, env_, Len(active)) /\ capacity \in Nat /\ Len(from_) <= capacity
  BY <1>1, ProgramFacts
<1>3. Len(active) \in Nat
  BY <1>1, LengthsOfActive
<1>4. h \in DOMAIN from_
  BY <1>1, <1>2, ValueFacts
<1>5. k \in Nat /\ k >= 1
  BY HeapAssumption
<1>6. val_' \in V
  BY <1>1, <1>2, ValuesMade
<1> HIDE DEF V
<1>7. from_[h] \in O /\ old \in Seq(V)
  BY <1>2, <1>4, ObjectFacts
<1> HIDE DEF h
<1>8. new \in Seq(V)
  <2> HIDE DEF old
  <2>1. CASE k > Len(old)
    BY <1>2, <1>7, <2>1
  <2>2. CASE ~(k > Len(old))
    <3>1. k \in DOMAIN old /\ old \in [1..Len(old) -> V] /\ Len(old) \in Nat
      BY <1>5, <1>7, <2>2
    <3>2. [old EXCEPT ![k] = v] \in [1..Len(old) -> V]
      BY <1>2, <3>1
    <3> QED
      BY <2>2, <3>1, <3>2
  <2> QED
    BY <2>1, <2>2
<1> HIDE DEF new
<1>9. from_' \in Seq(O) /\ DOMAIN from_' = DOMAIN from_ /\ Len(from_') = Len(from_)
  <2>1. [from_[h] EXCEPT !.values = new] \in O
    BY <1>7, <1>8 DEF ObjectsOver
  <2>2. from_' = [from_ EXCEPT ![h] = [from_[h] EXCEPT !.values = new]]
    BY <1>1
  <2> HIDE DEF O, old
  <2> QED
    BY <1>2, <1>4, <2>1, <2>2
<1>10. DValuesOver(DOMAIN from_', DOMAIN frames) = V
  BY <1>9 DEF V
<1>11. ActivationsOver(DOMAIN from_', DOMAIN frames) = ActivationsOver(DOMAIN from_, DOMAIN frames)
  BY <1>9
<1>12. /\ frames \in FramesOver(DOMAIN frames, DValuesOver(DOMAIN from_', DOMAIN frames))
       /\ from_' \in Seq(ObjectsOver({GC_NULL}, DValuesOver(DOMAIN from_', DOMAIN frames)))
       /\ val_' \in DValuesOver(DOMAIN from_', DOMAIN frames)
       /\ active' \in Seq(ActivationsOver(DOMAIN from_', DOMAIN frames))
       /\ env_' \in Seq(DOMAIN frames)
  BY <1>1, <1>2, <1>6, <1>9, <1>10, <1>11
<1>13. /\ Fits(active', env_', Len(active')) /\ capacity' \in Nat /\ Len(from_') <= capacity'
       /\ Len(active) <= Len(active) /\ Len(active) <= Len(active')
       /\ \A c \in 1..Len(active) :
             /\ active'[c].kind = active[c].kind
             /\ active[c].kind = "call" => active'[c].saved = active[c].saved
       /\ \A c \in Len(active) + 1..Len(active') : FALSE
  BY <1>1, <1>2, <1>3, <1>9
<1> QED
  BY <1>1, <1>2, <1>3, <1>12, <1>13, ProgramStep

(* Where from_ stays, and the frames there are, with some that are pushed. *)
LEMMA ControlStep ==
  ASSUME MemoryInv, Running, Resumes, strayed' = strayed, from_' = from_, capacity' = capacity,
         NEW fs, FramesBecome(fs), DOMAIN frames \subseteq DOMAIN fs, DOMAIN fs \subseteq FrameNumbers,
         fs \in FramesOver(DOMAIN fs, DValuesOver(DOMAIN from_, DOMAIN fs)),
         val_' \in DValuesOver(DOMAIN from_, DOMAIN fs),
         active' \in Seq(ActivationsOver(DOMAIN from_, DOMAIN fs)),
         env_' \in Seq(DOMAIN fs),
         NEW m \in Nat, m <= Len(active), m <= Len(active'),
         \A c \in 1..m : /\ active'[c].kind = active[c].kind
                         /\ active[c].kind = "call" => active'[c].saved = active[c].saved,
         \A c \in m + 1..Len(active') :
            active'[c].kind = "call" => Fits(active', active'[c].saved, c - 1),
         Fits(active', env_', Len(active'))
  PROVE  MemoryInv'
<1>1. DOMAIN from_ \subseteq DOMAIN from_
  OBVIOUS
<1>2. from_ \in Seq(ObjectsOver({GC_NULL}, DValuesOver(DOMAIN from_, DOMAIN fs)))
  BY <1>1, MemoryGrows
<1>3. capacity \in Nat /\ Len(from_) <= capacity
  BY ProgramFacts
<1>4. /\ fs \in FramesOver(DOMAIN fs, DValuesOver(DOMAIN from_', DOMAIN fs))
      /\ from_' \in Seq(ObjectsOver({GC_NULL}, DValuesOver(DOMAIN from_', DOMAIN fs)))
      /\ val_' \in DValuesOver(DOMAIN from_', DOMAIN fs)
      /\ active' \in Seq(ActivationsOver(DOMAIN from_', DOMAIN fs))
  BY <1>2
<1>5. capacity' \in Nat /\ Len(from_') <= capacity'
  BY <1>3
<1> QED
  BY <1>4, <1>5, ProgramStep

(* The last activation, and an activation that is appended. *)
LEMMA ActiveAppended ==
  ASSUME MemoryInv, Running, NEW a, a.kind # "call",
         NEW A, active \in Seq(A), NEW before \in Seq(A), Len(before) = Len(active), a \in A,
         \A c \in 1..Len(active) :
            /\ before[c].kind = active[c].kind
            /\ active[c].kind = "call" => before[c].saved = active[c].saved,
         active' = Append(before, a),
         NEW S, NEW e \in Seq(S), Len(e) = Len(env_) + 1, \A i \in 1..Len(env_) : e[i] = env_[i],
         env_' = e
  PROVE  /\ active' \in Seq(A)
         /\ Len(active) <= Len(active) /\ Len(active) <= Len(active')
         /\ \A c \in 1..Len(active) :
               /\ active'[c].kind = active[c].kind
               /\ active[c].kind = "call" => active'[c].saved = active[c].saved
         /\ \A c \in Len(active) + 1..Len(active') : active'[c].kind # "call"
         /\ Fits(active', env_', Len(active'))
<1> DEFINE n == Len(active)
<1>1. n \in Nat /\ Len(env_) \in Nat
  BY LengthsOfActive
<1>2. /\ active' \in Seq(A) /\ Len(active') = n + 1 /\ active'[n + 1] = a
      /\ \A c \in 1..n : active'[c] = before[c]
  BY <1>1
<1>3. Fits(active, env_, n)
  BY ProgramFacts
<1>4. \A c \in 1..n : active[c].kind = active'[c].kind
  BY <1>2
<1>5. Fits(active', env_, n)
  BY <1>1, <1>3, <1>4, FitsPrefix
<1>6. Fits(active', env_', n + 1)
  BY <1>1, <1>2, <1>5, FitsEnter
<1>7. \A c \in n + 1..n + 1 : active'[c].kind # "call"
  BY <1>1, <1>2
<1>8. \A c \in 1..n : /\ active'[c].kind = active[c].kind
                      /\ active[c].kind = "call" => active'[c].saved = active[c].saved
  BY <1>2
<1> QED
  BY <1>1, <1>2, <1>6, <1>7, <1>8

LEMMA EnterBodyKeeps ==
  ASSUME MemoryInv, EnterBody
  PROVE  MemoryInv'
<1> DEFINE fs == Pushed(1)
           e  == EnvPushed(env_, 1)
           A  == ActivationsOver(DOMAIN from_, DOMAIN fs)
<1>1. /\ Running /\ Resumes /\ strayed' = strayed /\ FramesBecome(fs) /\ MayPush(1) /\ from_' = from_
      /\ capacity' = capacity /\ env_' = e /\ val_' \in {None, val_}
      /\ active' = Append(active, [kind |-> "body"])
  BY AtStatementRuns DEF EnterBody, Proceeds
<1>2. /\ DOMAIN frames \subseteq FrameNumbers /\ env_ \in Seq(DOMAIN frames)
      /\ frames \in FramesOver(DOMAIN frames, DValuesOver(DOMAIN from_, DOMAIN frames))
  BY <1>1, ProgramFacts
<1>3. /\ DOMAIN frames \subseteq DOMAIN fs /\ DOMAIN fs \subseteq FrameNumbers
      /\ fs \in FramesOver(DOMAIN fs, DValuesOver(DOMAIN from_, DOMAIN fs))
      /\ e \in Seq(DOMAIN fs) /\ Len(e) = Len(env_) + 1
      /\ \A i \in 1..Len(env_) : e[i] = env_[i]
  BY <1>1, <1>2, FramesPushed
<1> HIDE DEF fs, e
<1>4. active \in Seq(A) /\ [kind |-> "body"] \in A
  BY <1>1, <1>3, MemoryGrows DEF ActivationsOver
<1>5. val_' \in DValuesOver(DOMAIN from_, DOMAIN fs)
  BY <1>1, <1>3, MemoryGrows, ValuesMade
<1>6. Len(active) \in Nat /\ [kind |-> "body"].kind # "call"
  BY <1>1, LengthsOfActive
<1> HIDE DEF A
<1>7. /\ active' \in Seq(A)
      /\ Len(active) <= Len(active) /\ Len(active) <= Len(active')
      /\ \A c \in 1..Len(active) :
            /\ active'[c].kind = active[c].kind
            /\ active[c].kind = "call" => active'[c].saved = active[c].saved
      /\ \A c \in Len(active) + 1..Len(active') : active'[c].kind # "call"
      /\ Fits(active', env_', Len(active'))
  BY <1>1, <1>3, <1>4, <1>6, ActiveAppended
<1> QED
  BY <1>1, <1>3, <1>5, <1>6, <1>7, ControlStep DEF A

LEMMA EnterLoopKeeps ==
  ASSUME MemoryInv, NEW y \in Variables, NEW n \in Names, EnterLoop(y, n)
  PROVE  MemoryInv'
<1> DEFINE fs == Pushed(1)
           e  == EnvPushed(env_, 1)
           A  == ActivationsOver(DOMAIN from_, DOMAIN fs)
           a  == [kind |-> "loop", iter |-> n, over |-> Variable(y), at |-> 1, moved |-> FALSE]
<1>1. /\ Running /\ Resumes /\ strayed' = strayed /\ FramesBecome(fs) /\ MayPush(1) /\ from_' = from_
      /\ capacity' = capacity /\ env_' = e /\ val_' = Variable(y) /\ IsAggregate(Variable(y))
      /\ active' = Append(active, a)
  BY AtStatementRuns DEF EnterLoop, Proceeds
<1>2. /\ DOMAIN frames \subseteq FrameNumbers /\ env_ \in Seq(DOMAIN frames)
      /\ frames \in FramesOver(DOMAIN frames, DValuesOver(DOMAIN from_, DOMAIN frames))
  BY <1>1, ProgramFacts
<1>3. /\ DOMAIN frames \subseteq DOMAIN fs /\ DOMAIN fs \subseteq FrameNumbers
      /\ fs \in FramesOver(DOMAIN fs, DValuesOver(DOMAIN from_, DOMAIN fs))
      /\ e \in Seq(DOMAIN fs) /\ Len(e) = Len(env_) + 1
      /\ \A i \in 1..Len(env_) : e[i] = env_[i]
  BY <1>1, <1>2, FramesPushed
<1> HIDE DEF fs, e
<1>4. active \in Seq(A) /\ Variable(y) \in DValuesOver(DOMAIN from_, DOMAIN fs)
  BY <1>1, <1>3, MemoryGrows
<1>5. a \in A
  BY <1>1, <1>4 DEF ActivationsOver
<1>6. Len(active) \in Nat /\ a.kind # "call"
  BY <1>1, LengthsOfActive
<1> HIDE DEF A, a
<1>7. /\ active' \in Seq(A)
      /\ Len(active) <= Len(active) /\ Len(active) <= Len(active')
      /\ \A c \in 1..Len(active) :
            /\ active'[c].kind = active[c].kind
            /\ active[c].kind = "call" => active'[c].saved = active[c].saved
      /\ \A c \in Len(active) + 1..Len(active') : active'[c].kind # "call"
      /\ Fits(active', env_', Len(active'))
  BY <1>1, <1>3, <1>4, <1>5, <1>6, ActiveAppended
<1> QED
  BY <1>1, <1>3, <1>4, <1>6, <1>7, ControlStep DEF A

(* The loop that runs: it is over an object. *)
LEMMA LoopFacts ==
  ASSUME MemoryInv, Inside("loop")
  PROVE  /\ Running /\ Len(active) \in 1..Len(active)
         /\ Loop = active[Len(active)] /\ Loop.kind = "loop" /\ Loop.at \in Nat \ {0}
         /\ Loop.iter \in Names /\ Loop.over.href \in DOMAIN from_
         /\ Elements \in Seq(DValuesOver(DOMAIN from_, DOMAIN frames))
<1> DEFINE V == DValuesOver(DOMAIN from_, DOMAIN frames)
           A == ActivationsOver(DOMAIN from_, DOMAIN frames)
<1>1. Running /\ active # << >> /\ Last(active).kind = "loop"
  BY DEF Inside
<1>2. active \in Seq(A) /\ from_ \in Seq(ObjectsOver({GC_NULL}, V))
  BY <1>1, ProgramFacts
<1>3. Len(active) \in 1..Len(active)
  BY <1>1, <1>2
<1>4. Loop = active[Len(active)] /\ Loop \in A /\ Loop.kind = "loop"
  BY <1>1, <1>2, <1>3 DEF Loop, Last
<1>5. /\ Loop.over \in V /\ IsAggregate(Loop.over) /\ Loop.iter \in Names /\ Loop.at \in Nat \ {0}
  BY <1>4, ActivationFacts
<1>6. Loop.over.href \in DOMAIN from_
  BY <1>5, ValueFacts
<1>7. from_[Loop.over.href] \in ObjectsOver({GC_NULL}, V)
  BY <1>2, <1>6
<1>8. Elements \in Seq(V)
  BY <1>7, ObjectFacts DEF Elements
<1> QED
  BY <1>1, <1>3, <1>4, <1>5, <1>6, <1>8

LEMMA IterateKeeps ==
  ASSUME MemoryInv, Iterate
  PROVE  MemoryInv'
<1> DEFINE pushed == Pushed(1)
           x  == <<Last(env_), Loop.iter>>
           v  == Elements[Loop.at]
           fs == Set(pushed, x, v)
           e  == EnvPushed(env_, 1)
           D  == DOMAIN pushed
           V  == DValuesOver(DOMAIN from_, D)
           A  == ActivationsOver(DOMAIN from_, D)
           k  == Len(active)
           before == [active EXCEPT ![k].at = @ + 1]
           a  == [kind |-> "body"]
<1>1. /\ Inside("loop") /\ Resumes /\ strayed' = strayed /\ FramesBecome(fs) /\ MayPush(1) /\ from_' = from_
      /\ capacity' = capacity /\ env_' = e /\ val_' = val_
      /\ active' = Append(before, a) /\ Loop.at <= Len(Elements) /\ env_ # << >>
  BY DEF Iterate, Returns
<1>2. /\ Running /\ k \in 1..k
      /\ Loop = active[k] /\ Loop.kind = "loop" /\ Loop.at \in Nat \ {0} /\ Loop.iter \in Names
      /\ Elements \in Seq(DValuesOver(DOMAIN from_, DOMAIN frames))
  BY <1>1, LoopFacts
<1>3. /\ DOMAIN frames \subseteq FrameNumbers /\ env_ \in Seq(DOMAIN frames)
      /\ frames \in FramesOver(DOMAIN frames, DValuesOver(DOMAIN from_, DOMAIN frames))
      /\ Fits(active, env_, k)
  BY <1>2, ProgramFacts
<1>4. /\ DOMAIN frames \subseteq D /\ D \subseteq FrameNumbers
      /\ pushed \in FramesOver(D, V)
      /\ e \in Seq(D) /\ Len(e) = Len(env_) + 1
      /\ \A i \in 1..Len(env_) : e[i] = env_[i]
  BY <1>1, <1>3, FramesPushed
<1> HIDE DEF pushed, e
<1>5. active \in Seq(A) /\ val_ \in V
  BY <1>2, <1>4, MemoryGrows
<1>6. v \in V
  <2>1. v \in DValuesOver(DOMAIN from_, DOMAIN frames)
    BY <1>1, <1>2
  <2> QED
    BY <1>4, <2>1, ValuesGrow
<1>7. x[1] \in D /\ x[2] \in Names
  <2>1. Len(env_) \in Nat /\ Len(env_) >= 1
    BY <1>1, <1>2, <1>3, LengthsOfActive
  <2>2. env_[Len(env_)] \in DOMAIN frames
    BY <1>3, <2>1
  <2> QED
    BY <1>2, <1>4, <2>2 DEF Last
<1> HIDE DEF V, v, x
<1>8. fs \in FramesOver(D, V) /\ DOMAIN fs = D
  BY <1>4, <1>6, <1>7, SetVariable
<1>9. /\ before \in Seq(A) /\ Len(before) = k /\ k \in Nat
      /\ \A c \in 1..k : /\ before[c].kind = active[c].kind
                         /\ active[c].kind = "call" => before[c].saved = active[c].saved
  <2>1. active[k] \in [kind : {"loop"}, iter : Names, at : Nat \ {0}, moved : BOOLEAN,
                       over : {w \in V : IsAggregate(w)}]
    BY <1>2, <1>5 DEF ActivationsOver, V
  <2>2. [active[k] EXCEPT !.at = @ + 1] \in
           [kind : {"loop"}, iter : Names, at : Nat \ {0}, moved : BOOLEAN,
            over : {w \in V : IsAggregate(w)}]
    BY <2>1
  <2>3. [active[k] EXCEPT !.at = @ + 1] \in A
    BY <2>2 DEF ActivationsOver, V
  <2>4. before = [active EXCEPT ![k] = [active[k] EXCEPT !.at = @ + 1]] /\ k \in DOMAIN active
    BY <1>2, <1>5
  <2>5. before \in Seq(A) /\ Len(before) = k /\ k \in Nat
    <3> HIDE DEF A
    <3> QED
      BY <1>5, <2>3, <2>4
  <2>6. \A c \in 1..k : c # k => before[c] = active[c]
    BY <1>5, <2>4
  <2>7. before[k] = [active[k] EXCEPT !.at = @ + 1]
    BY <1>5, <2>4
  <2>8. before[k].kind = "loop" /\ active[k].kind = "loop"
    BY <1>2, <2>2, <2>7
  <2> QED
    BY <2>5, <2>6, <2>8
<1>10. a \in A /\ a.kind # "call"
  BY DEF ActivationsOver
<1> HIDE DEF A, a, before, fs
<1>11. /\ active' \in Seq(A)
       /\ Len(active) <= Len(active) /\ Len(active) <= Len(active')
       /\ \A c \in 1..Len(active) :
             /\ active'[c].kind = active[c].kind
             /\ active[c].kind = "call" => active'[c].saved = active[c].saved
       /\ \A c \in Len(active) + 1..Len(active') : active'[c].kind # "call"
       /\ Fits(active', env_', Len(active'))
  BY <1>1, <1>2, <1>4, <1>5, <1>9, <1>10, ActiveAppended
<1>12. /\ DOMAIN frames \subseteq DOMAIN fs /\ DOMAIN fs \subseteq FrameNumbers
       /\ fs \in FramesOver(DOMAIN fs, DValuesOver(DOMAIN from_, DOMAIN fs))
       /\ val_' \in DValuesOver(DOMAIN from_, DOMAIN fs)
       /\ active' \in Seq(ActivationsOver(DOMAIN from_, DOMAIN fs))
       /\ env_' \in Seq(DOMAIN fs)
  BY <1>1, <1>4, <1>5, <1>8, <1>11 DEF V, A
<1> QED
  BY <1>1, <1>2, <1>9, <1>11, <1>12, ControlStep

(* Bodies and loops are left: those above number m. *)
LEMMA LeaveKeeps ==
  ASSUME MemoryInv, Running, NEW m \in 0..Len(active),
         \A c \in m + 1..Len(active) : active[c].kind # "call",
         env_' = SubSeq(env_, 1, Len(env_) - (Len(active) - m)),
         active' = SubSeq(active, 1, m),
         UNCHANGED <<from_, capacity, val_, strayed>>, Resumes, FramesBecome(frames)
  PROVE  MemoryInv'
<1> DEFINE V == DValuesOver(DOMAIN from_, DOMAIN frames)
           A == ActivationsOver(DOMAIN from_, DOMAIN frames)
           k == Len(active)
<1>1. /\ DOMAIN frames \subseteq FrameNumbers /\ env_ \in Seq(DOMAIN frames)
      /\ frames \in FramesOver(DOMAIN frames, V)
      /\ active \in Seq(A) /\ val_ \in V /\ Fits(active, env_, k)
  BY ProgramFacts
<1>2. k \in Nat /\ m \in Nat /\ m <= k
  BY LengthsOfActive
<1>3. env_' \in Seq(DOMAIN frames) /\ Fits(active, env_', m)
  BY <1>1, <1>2, FitsLeave
<1> HIDE DEF A, V
<1>4. active' \in Seq(A) /\ Len(active') = m /\ \A c \in 1..m : active'[c] = active[c]
  BY <1>1, <1>2
<1>5. Fits(active', env_', m)
  BY <1>2, <1>3, <1>4, FitsPrefix
<1>6. /\ m <= Len(active) /\ m <= Len(active')
      /\ \A c \in 1..m : /\ active'[c].kind = active[c].kind
                         /\ active[c].kind = "call" => active'[c].saved = active[c].saved
      /\ \A c \in m + 1..Len(active') : FALSE
      /\ Fits(active', env_', Len(active'))
  BY <1>2, <1>4, <1>5
<1>7. from_' = from_ /\ capacity' = capacity /\ val_' \in DValuesOver(DOMAIN from_, DOMAIN frames)
  BY <1>1 DEF V
<1>8. /\ frames \in FramesOver(DOMAIN frames, DValuesOver(DOMAIN from_, DOMAIN frames))
      /\ active' \in Seq(ActivationsOver(DOMAIN from_, DOMAIN frames))
  BY <1>1, <1>4 DEF V, A
<1> QED
  BY <1>1, <1>2, <1>3, <1>6, <1>7, <1>8, ControlStep

(* The last activation ends. *)
LEMMA LeaveLastKeeps ==
  ASSUME MemoryInv, NEW kind, kind # "call", Inside(kind), env_' = Front(env_),
         active' = Front(active), UNCHANGED <<from_, capacity, val_, strayed>>, Resumes, FramesBecome(frames)
  PROVE  MemoryInv'
<1> DEFINE k == Len(active)
           m == k - 1
<1>1. Running /\ active # << >> /\ active[k].kind = kind
  BY DEF Inside, Last
<1>2. k \in Nat /\ Len(env_) \in Nat
  BY <1>1, LengthsOfActive
<1>3. k >= 1
  BY <1>1, <1>2, ProgramFacts
<1>4. m \in 0..k /\ k - m = 1 /\ \A c \in m + 1..k : active[c].kind # "call"
  BY <1>1, <1>2, <1>3
<1>5. env_' = SubSeq(env_, 1, Len(env_) - (k - m)) /\ active' = SubSeq(active, 1, m)
  BY <1>4 DEF Front
<1> HIDE DEF m
<1> QED
  BY <1>1, <1>4, <1>5, LeaveKeeps

LEMMA ExitLoopKeeps ==
  ASSUME MemoryInv, NEW i \in DOMAIN active, ExitLoop(i)
  PROVE  MemoryInv'
<1> DEFINE k == Len(active)
           m == i - 1
<1>1. /\ Running /\ Resumes /\ strayed' = strayed /\ FramesBecome(frames)
      /\ \A c \in Calls : c < i
  BY AtStatementRuns DEF ExitLoop, Returns
<1>2. k \in Nat /\ Len(env_) \in Nat /\ DOMAIN active = 1..k
  BY <1>1, LengthsOfActive
<1>3. i \in 1..k
  BY <1>2
<1>4. \A c \in m + 1..k : active[c].kind # "call"
  <2>1. \A c \in 1..k : active[c].kind = "call" => c < i
    BY <1>1, <1>2 DEF Calls
  <2> QED
    BY <1>2, <1>3, <2>1
<1>5. m \in 0..k /\ Len(env_) - (k - m) = Len(env_) - (k + 1 - i)
  BY <1>2, <1>3
<1>6. /\ env_' = SubSeq(env_, 1, Len(env_) - (k - m)) /\ active' = SubSeq(active, 1, m)
      /\ UNCHANGED <<from_, capacity, val_>>
  BY <1>5 DEF ExitLoop
<1> HIDE DEF m
<1> QED
  BY <1>1, <1>4, <1>5, <1>6, LeaveKeeps

(* An exit that leaves a call. *)
LEMMA ExitCallKeeps ==
  ASSUME MemoryInv, NEW i \in DOMAIN active, ExitCall(i)
  PROVE  MemoryInv'
<1> DEFINE V == DValuesOver(DOMAIN from_, DOMAIN frames)
           A == ActivationsOver(DOMAIN from_, DOMAIN frames)
           k == Len(active)
           l == Len(env_) - Cardinality((i..k) \ Calls)
           p == PhaseAfter
<1>1. /\ Running /\ Resumes /\ strayed' = TRUE /\ FramesBecome(frames)
      /\ env_' = SubSeq(env_, 1, l) /\ active' = SubSeq(active, 1, i - 1)
      /\ UNCHANGED <<from_, capacity, val_>>
  BY AtStatementRuns DEF ExitCall
<1>2. /\ DOMAIN frames \subseteq FrameNumbers /\ env_ \in Seq(DOMAIN frames)
      /\ frames \in FramesOver(DOMAIN frames, V) /\ from_ \in Seq(ObjectsOver({GC_NULL}, V))
      /\ active \in Seq(A) /\ val_ \in V /\ gc \in Control /\ QuietInv
      /\ capacity \in Nat /\ Len(from_) <= capacity
  BY <1>1, ProgramFacts
<1>3. k \in Nat /\ i \in 1..k
  BY <1>1, LengthsOfActive
<1>4. l \in Int /\ l <= Len(env_)
  <2>1. IsFiniteSet(i..k)
    BY <1>3, FS_Interval
  <2>2. IsFiniteSet((i..k) \ Calls)
    BY <2>1, FS_Difference
  <2>3. Cardinality((i..k) \ Calls) \in Nat
    BY <2>2, FS_CardinalityType
  <2> QED
    BY <1>2, <2>3
<1> HIDE DEF V, A, l
<1>5. env_' \in Seq(DOMAIN frames)
  BY <1>1, <1>2, <1>4, FrontType
<1>6. active' \in Seq(A)
  BY <1>1, <1>2, <1>3
<1>7. p \in {"next", "run"} /\ (p = "next" => active' = << >>)
  BY DEF PhaseAfter
<1>8. gc' = [gc EXCEPT !.phase = p] /\ to_' = to_
  BY <1>1 DEF Resumes
<1> HIDE DEF p
<1>9. /\ from_' \in Seq(ObjectsOver({GC_NULL}, DValuesOver(DOMAIN from_', DOMAIN frames)))
      /\ frames \in FramesOver(DOMAIN frames, DValuesOver(DOMAIN from_', DOMAIN frames))
      /\ val_' \in DValuesOver(DOMAIN from_', DOMAIN frames)
      /\ active' \in Seq(ActivationsOver(DOMAIN from_', DOMAIN frames))
  BY <1>1, <1>2, <1>6 DEF V, A
<1>10. /\ gc' \in Control /\ gc'.phase = p /\ DOMAIN frames' \subseteq FrameNumbers
       /\ env_' \in Seq(DOMAIN frames') /\ ~Collecting' /\ QuietInv'
  BY <1>1, <1>2, <1>5, <1>7, <1>8, <1>9, QuietStep
<1>11. EnvInv'
  BY <1>1, <1>7, <1>10 DEF EnvInv
<1> QED
  BY <1>1, <1>2, <1>10, <1>11 DEF MemoryInv

(* return, and the end of a function: the environment that was saved comes *)
(* back. *)
LEMMA ReturnKeeps ==
  ASSUME MemoryInv, NEW i \in Calls, NEW v \in Readable, Return(i, v)
  PROVE  MemoryInv'
<1> DEFINE V  == DValuesOver(DOMAIN from_, DOMAIN frames)
           A  == ActivationsOver(DOMAIN from_, DOMAIN frames)
           k  == Len(active)
           m  == i - 1
           x  == active[i].target
           set == Set(frames, x, v)
<1>1. /\ Running /\ Resumes /\ strayed' = strayed /\ from_' = from_
      /\ capacity' = capacity /\ env_' = active[i].saved /\ active' = SubSeq(active, 1, m)
      /\ \/ val_' = MovedFrom(v) /\ FramesBecome(set)
         \/ val_' = v /\ FramesBecome(frames)
  BY AtStatementRuns DEF Return, Returns, Inside
<1>2. /\ DOMAIN frames \subseteq FrameNumbers /\ frames \in FramesOver(DOMAIN frames, V)
      /\ active \in Seq(A) /\ v \in V /\ \A c \in Calls : Fits(active, active[c].saved, c - 1)
  BY <1>1, ProgramFacts
<1>3. k \in Nat /\ i \in 1..k /\ active[i].kind = "call" /\ active[i] \in A
  <2>1. k \in Nat /\ DOMAIN active = 1..k
    BY <1>1, LengthsOfActive
  <2> QED
    BY <1>2, <2>1 DEF Calls
<1>4. /\ active[i].saved \in Seq(DOMAIN frames)
      /\ x[1] \in DOMAIN frames /\ x[2] \in Names
  BY <1>3, ActivationFacts
<1>5. val_' \in V
  BY <1>1, <1>2, ValuesMade
<1> HIDE DEF V, A
<1>6. set \in FramesOver(DOMAIN frames, V) /\ DOMAIN set = DOMAIN frames
  BY <1>2, <1>4, SetVariable
<1>7. m \in Nat /\ m <= k
  BY <1>3
<1> HIDE DEF set, m
<1>12. PICK fs \in {set, frames} : FramesBecome(fs)
  BY <1>1
<1>13. fs \in FramesOver(DOMAIN frames, V) /\ DOMAIN fs = DOMAIN frames
  BY <1>2, <1>6
<1>8. active' \in Seq(A) /\ Len(active') = m /\ \A c \in 1..m : active'[c] = active[c]
  BY <1>1, <1>2, <1>3, <1>7
<1>9. Fits(active', env_', m)
  <2>1. Fits(active, env_', m)
    BY <1>1, <1>2 DEF m
  <2> QED
    BY <1>7, <1>8, <2>1, FitsPrefix
<1>10. /\ m <= Len(active) /\ m <= Len(active')
       /\ \A c \in 1..m : /\ active'[c].kind = active[c].kind
                          /\ active[c].kind = "call" => active'[c].saved = active[c].saved
       /\ \A c \in m + 1..Len(active') : FALSE
       /\ Fits(active', env_', Len(active'))
  BY <1>7, <1>8, <1>9
<1>11. /\ DOMAIN frames \subseteq DOMAIN fs /\ DOMAIN fs \subseteq FrameNumbers
       /\ fs \in FramesOver(DOMAIN fs, DValuesOver(DOMAIN from_, DOMAIN fs))
       /\ val_' \in DValuesOver(DOMAIN from_, DOMAIN fs)
       /\ active' \in Seq(ActivationsOver(DOMAIN from_, DOMAIN fs))
       /\ env_' \in Seq(DOMAIN fs)
  BY <1>1, <1>2, <1>4, <1>5, <1>8, <1>13 DEF V, A
<1> QED
  BY <1>1, <1>7, <1>10, <1>11, <1>12, ControlStep

(* A call: two frames go on those of the closure, and what the caller had  *)
(* is saved. *)
LEMMA CallKeeps ==
  ASSUME MemoryInv, NEW x \in Variables, NEW y \in Variables, NEW n \in Names, NEW v \in Readable,
         Call(x, y, n, v)
  PROVE  MemoryInv'
<1> DEFINE pushed == Pushed(2)
           z  == <<Unused[1], n>>
           fs == Set(pushed, z, v)
           env == Variable(y).env
           e  == EnvPushed(env, 2)
           D  == DOMAIN pushed
           V  == DValuesOver(DOMAIN from_, D)
           A  == ActivationsOver(DOMAIN from_, D)
           k  == Len(active)
           a  == [kind |-> "call", saved |-> env_, target |-> x, inLoop |-> Variable(y).inLoop]
           b  == [kind |-> "body"]
<1>1. /\ Running /\ Resumes /\ strayed' = strayed /\ FramesBecome(fs) /\ MayPush(2) /\ val_' = MovedFrom(v)
      /\ from_' = from_ /\ capacity' = capacity /\ env_' = e /\ active' = active \o <<a, b>>
  BY AtStatementRuns DEF Call, Proceeds
<1>2. /\ DOMAIN frames \subseteq FrameNumbers
      /\ frames \in FramesOver(DOMAIN frames, DValuesOver(DOMAIN from_, DOMAIN frames))
      /\ Fits(active, env_, k) /\ x[1] \in DOMAIN frames /\ x[2] \in Names
      /\ Variable(y) \in DValuesOver(DOMAIN from_, DOMAIN frames)
  BY <1>1, ProgramFacts
<1>3. env \in Seq(DOMAIN frames)
  BY <1>2, ValueFacts
<1> HIDE DEF env
<1>4. /\ DOMAIN frames \subseteq D /\ D \subseteq FrameNumbers
      /\ pushed \in FramesOver(D, V)
      /\ e \in Seq(D) /\ Len(e) = Len(env) + 2 /\ Unused[1] \in D
  BY <1>1, <1>2, <1>3, FramesPushed
<1> HIDE DEF pushed, e
<1>5. active \in Seq(A) /\ v \in V /\ env_ \in Seq(D)
  BY <1>1, <1>4, MemoryGrows
<1>6. val_' \in V
  BY <1>1, <1>5, ValuesMade
<1>7. z[1] \in D /\ z[2] \in Names
  BY <1>4
<1> HIDE DEF z, V
<1>8. fs \in FramesOver(D, V) /\ DOMAIN fs = D
  BY <1>4, <1>5, <1>7, SetVariable
<1>9. a \in A /\ b \in A
  <2>1. x \in D \X Names /\ x[1] \in Range(env_)
    <3>1. x \in Range(env_) \X Names
      BY DEF Variables
    <3>2. x[1] \in D
      BY <1>2, <1>4
    <3> QED
      BY <3>1, <3>2
  <2>3. Variable(y).inLoop \in BOOLEAN
    BY <1>2 DEF DValuesOver
  <2>2. a \in [kind : {"call"}, saved : Seq(D), target : D \X Names, inLoop : BOOLEAN]
        /\ a.target[1] \in Range(a.saved)
    BY <1>2, <1>5, <2>1, <2>3
  <2> QED
    BY <2>2 DEF ActivationsOver
<1>10. k \in Nat /\ Len(env) \in Nat
  BY <1>1, <1>3, LengthsOfActive
<1>11. a.kind = "call" /\ a.saved = env_ /\ b.kind # "call"
  OBVIOUS
<1> HIDE DEF A, a, b, fs
<1>12. /\ active' \in Seq(A) /\ Len(active') = k + 2
       /\ \A c \in 1..k : active'[c] = active[c]
       /\ active'[k + 1] = a /\ active'[k + 2] = b
  <2>1. <<a, b>> \in Seq(A) /\ Len(<<a, b>>) = 2 /\ <<a, b>>[1] = a /\ <<a, b>>[2] = b
    BY <1>9
  <2> QED
    BY <1>1, <1>5, <1>10, <2>1
<1>13. Fits(active', env_', k + 2)
  <2>1. Len(env_') \in Nat /\ Len(env_') >= 2
    BY <1>1, <1>4, <1>10
  <2> QED
    BY <1>10, <1>11, <1>12, <2>1, FitsCalled
<1>14. Fits(active', env_, k)
  BY <1>2, <1>10, <1>12, FitsPrefix
<1>15. \A c \in k + 1..Len(active') :
          active'[c].kind = "call" => Fits(active', active'[c].saved, c - 1)
  <2>1. ASSUME NEW c \in k + 1..Len(active'), active'[c].kind = "call"
        PROVE  Fits(active', active'[c].saved, c - 1)
    <3>1. c = k + 1
      BY <1>10, <1>11, <1>12, <2>1
    <3>2. c - 1 = k /\ active'[c].saved = env_
      BY <1>10, <1>11, <1>12, <3>1
    <3> QED
      BY <1>14, <3>2
  <2> QED
    BY <2>1
<1>16. /\ k <= Len(active) /\ k <= Len(active')
       /\ \A c \in 1..k : /\ active'[c].kind = active[c].kind
                          /\ active[c].kind = "call" => active'[c].saved = active[c].saved
       /\ Fits(active', env_', Len(active'))
  BY <1>10, <1>12, <1>13
<1>17. /\ DOMAIN frames \subseteq DOMAIN fs /\ DOMAIN fs \subseteq FrameNumbers
       /\ fs \in FramesOver(DOMAIN fs, DValuesOver(DOMAIN from_, DOMAIN fs))
       /\ val_' \in DValuesOver(DOMAIN from_, DOMAIN fs)
       /\ active' \in Seq(ActivationsOver(DOMAIN from_, DOMAIN fs))
       /\ env_' \in Seq(DOMAIN fs)
  BY <1>1, <1>4, <1>6, <1>8, <1>12 DEF V, A
<1> QED
  BY <1>1, <1>10, <1>15, <1>16, <1>17, ControlStep

(* The steps of the program that move nothing. *)
LEMMA QuietStays ==
  ASSUME MemoryInv, ~Collecting, NEW p \in {"next", "run", "undefined"},
         p = "run" => gc.phase \in {"next", "run"},
         p = "next" => active = << >> /\ gc.phase \in {"next", "run"},
         gc' = [gc EXCEPT !.phase = p],
         UNCHANGED <<from_, to_, capacity, frames, env_, val_, active, strayed>>
  PROVE  MemoryInv'
<1>1. gc \in Control /\ QuietInv /\ EnvInv
  BY DEF MemoryInv
<1>2. /\ gc' \in Control /\ gc'.phase = p
      /\ gc'.todo = gc.todo /\ gc'.done = gc.done /\ gc'.visited = gc.visited /\ gc'.scan = gc.scan
  BY <1>1 DEF Control
<1>3. ~Collecting'
  BY <1>2 DEF Collecting
<1>4. QuietInv'
  BY <1>1, <1>2 DEF QuietInv
<1>5. EnvInv'
  BY <1>1, <1>2 DEF EnvInv, Calls
<1>6. /\ DOMAIN frames' \subseteq FrameNumbers /\ env_' \in Seq(DOMAIN frames')
      /\ capacity' \in Nat /\ Len(from_') <= capacity' /\ strayed' \in BOOLEAN
  BY DEF MemoryInv
<1> QED
  BY <1>2, <1>3, <1>4, <1>5, <1>6 DEF MemoryInv

LEMMA BeginStatementKeeps ==
  ASSUME MemoryInv, BeginStatement
  PROVE  MemoryInv'
BY QuietStays DEF BeginStatement, Collecting

LEMMA LoopRunsPastKeeps ==
  ASSUME MemoryInv, LoopRunsPast
  PROVE  MemoryInv'
BY QuietStays DEF LoopRunsPast, Inside, Running, Collecting

LEMMA OtherStatementKeeps ==
  ASSUME MemoryInv, NEW v \in Readable \cup {FuncHere}, OtherStatement(v)
  PROVE  MemoryInv'
<1> DEFINE V == DValuesOver(DOMAIN from_, DOMAIN frames)
<1>1. /\ Running /\ Resumes /\ strayed' = strayed /\ FramesBecome(frames)
      /\ val_' \in {v, MovedFrom(v)} /\ UNCHANGED <<from_, capacity, env_, active>>
  BY AtStatementRuns DEF OtherStatement, Proceeds
<1>2. /\ DOMAIN frames \subseteq FrameNumbers /\ env_ \in Seq(DOMAIN frames)
      /\ frames \in FramesOver(DOMAIN frames, V)
      /\ active \in Seq(ActivationsOver(DOMAIN from_, DOMAIN frames))
      /\ Fits(active, env_, Len(active)) /\ Readable \subseteq V
  BY <1>1, ProgramFacts
<1>3. FuncHere \in V
  BY <1>1, <1>2, InLoopType, ValuesMade DEF FuncHere
<1>4. val_' \in V
  BY <1>1, <1>2, <1>3, ValuesMade
<1>5. Len(active) \in Nat
  BY <1>1, LengthsOfActive
<1>6. /\ Len(active) <= Len(active) /\ Len(active) <= Len(active')
      /\ \A c \in 1..Len(active) :
            /\ active'[c].kind = active[c].kind
            /\ active[c].kind = "call" => active'[c].saved = active[c].saved
      /\ \A c \in Len(active) + 1..Len(active') : FALSE
      /\ Fits(active', env_', Len(active'))
  BY <1>1, <1>2, <1>5
<1> QED
  BY <1>1, <1>2, <1>4, <1>5, <1>6, ControlStep

LEMMA LeaveBodyKeeps ==
  ASSUME MemoryInv, LeaveBody
  PROVE  MemoryInv'
BY LeaveLastKeeps DEF LeaveBody, Returns

LEMMA LeaveLoopKeeps ==
  ASSUME MemoryInv, LeaveLoop
  PROVE  MemoryInv'
BY LeaveLastKeeps DEF LeaveLoop, Returns

-----------------------------------------------------------------------------
(* Slots and frames, the items that a collection scans *)

LEMMA ItemFacts ==
  /\ IsSlot(ValSlot)
  /\ \A f, n : IsSlot(VarSlot(f, n)) /\ VarSlot(f, n) # ValSlot
  /\ \A h, k : IsSlot(ElemSlot(h, k)) /\ ElemSlot(h, k) # ValSlot
  /\ \A f : ~IsSlot(FrameItem(f)) /\ FrameItem(f) # ValSlot
  /\ \A f, n, g, m : VarSlot(f, n) = VarSlot(g, m) => f = g /\ n = m
  /\ \A h, k, g, m : ElemSlot(h, k) = ElemSlot(g, m) => h = g /\ k = m
  /\ \A f, g : FrameItem(f) = FrameItem(g) => f = g
  /\ \A f, n, h, k : VarSlot(f, n) # ElemSlot(h, k)
  /\ \A f, n, g : VarSlot(f, n) # FrameItem(g)
  /\ \A h, k, g : ElemSlot(h, k) # FrameItem(g)
BY DEF IsSlot, ValSlot, VarSlot, ElemSlot, FrameItem

LEMMA ItemsType ==
  /\ ValSlot \in Items
  /\ \A f \in FrameNumbers, n \in Names : VarSlot(f, n) \in Items
  /\ \A h, k \in Nat : ElemSlot(h, k) \in Items
  /\ \A f \in FrameNumbers : FrameItem(f) \in Items
BY DEF Items, ValSlot, VarSlot, ElemSlot, FrameItem

(* What is at a slot. *)
Placed ==
  /\ At(ValSlot) = val_
  /\ \A f, n : At(VarSlot(f, n)) = frames[f][n]
  /\ \A h, k : At(ElemSlot(h, k)) = to_[h].values[k]

LEMMA SlotsPlaced == Placed
BY DEF Placed, At, ValSlot, VarSlot, ElemSlot

(* The slots there are. *)
SlotsListed ==
  /\ ValSlot \in Slots
  /\ \A f \in DOMAIN frames, n \in Names : VarSlot(f, n) \in Slots
  /\ \A h \in DOMAIN to_ : \A k \in DOMAIN to_[h].values : ElemSlot(h, k) \in Slots
  /\ \A s \in Slots :
        \/ s = ValSlot
        \/ \E f \in DOMAIN frames, n \in Names : s = VarSlot(f, n)
        \/ \E h \in DOMAIN to_ : \E k \in DOMAIN to_[h].values : s = ElemSlot(h, k)

LEMMA SlotsAre == SlotsListed
<1> DEFINE V == {VarSlot(f, n) : f \in DOMAIN frames, n \in Names}
           E == UNION {{ElemSlot(h, k) : k \in DOMAIN to_[h].values} : h \in DOMAIN to_}
<1>1. Slots = {ValSlot} \cup V \cup E
  BY DEF Slots
<1>2. \A s \in V : \E f \in DOMAIN frames, n \in Names : s = VarSlot(f, n)
  OBVIOUS
<1>3. \A s \in E : \E h \in DOMAIN to_ : \E k \in DOMAIN to_[h].values : s = ElemSlot(h, k)
  OBVIOUS
<1>4. \A f \in DOMAIN frames, n \in Names : VarSlot(f, n) \in V
  OBVIOUS
<1>5. \A h \in DOMAIN to_ : \A k \in DOMAIN to_[h].values : ElemSlot(h, k) \in E
  OBVIOUS
<1> HIDE DEF V, E
<1> QED
  BY <1>1, <1>2, <1>3, <1>4, <1>5 DEF SlotsListed

(* The variables of a set of frames, each once. *)
LEMMA SlotsOfFrames ==
  ASSUME NEW fs, IsFiniteSet(fs)
  PROVE  LET S == {VarSlot(f, n) : f \in fs, n \in Names}
         IN  /\ SetToSeq(S) \in Seq(S) /\ Range(SetToSeq(S)) = S
             /\ \A i, j \in DOMAIN SetToSeq(S) : SetToSeq(S)[i] = SetToSeq(S)[j] => i = j
<1> DEFINE S == {VarSlot(f, n) : f \in fs, n \in Names}
<1>1. IsFiniteSet(fs \X Names)
  BY HeapAssumption, FS_Product
<1>2. IsFiniteSet(S)
  <2> DEFINE slot == [x \in fs \X Names |-> VarSlot(x[1], x[2])]
  <2>1. slot \in Surjection(fs \X Names, S)
    <3>1. ASSUME NEW x \in fs \X Names PROVE slot[x] \in S
      <4>1. x[1] \in fs /\ x[2] \in Names /\ slot[x] = VarSlot(x[1], x[2])
        OBVIOUS
      <4> QED
        BY <4>1
    <3>2. ASSUME NEW y \in S PROVE \E x \in fs \X Names : slot[x] = y
      <4>1. PICK f \in fs, n \in Names : y = VarSlot(f, n)
        OBVIOUS
      <4>2. <<f, n>> \in fs \X Names /\ slot[<<f, n>>] = y
        BY <4>1
      <4> QED
        BY <4>2
    <3> HIDE DEF S
    <3>3. slot \in [fs \X Names -> S]
      BY <3>1
    <3> HIDE DEF slot
    <3> QED
      BY <3>2, <3>3 DEF Surjection
  <2> HIDE DEF slot, S
  <2> QED
    BY <1>1, <2>1, FS_Surjection
<1> HIDE DEF S
<1>3. /\ SetToSeq(S) \in Seq(S) /\ Range(SetToSeq(S)) = S
      /\ \A i, j \in DOMAIN SetToSeq(S) : SetToSeq(S)[i] = SetToSeq(S)[j] => i = j
  BY <1>2, SetAsSequence
<1> QED
  BY <1>3 DEF S

(* The variables of a frame, each once. *)
LEMMA FrameSlotsFacts ==
  ASSUME NEW f
  PROVE  /\ FrameSlots(f) \in Seq({VarSlot(f, n) : n \in Names})
         /\ Range(FrameSlots(f)) = {VarSlot(f, n) : n \in Names}
         /\ \A i, j \in DOMAIN FrameSlots(f) : FrameSlots(f)[i] = FrameSlots(f)[j] => i = j
<1> DEFINE S == {VarSlot(f, n) : n \in Names}
           T == {VarSlot(g, n) : g \in {f}, n \in Names}
<1>1. IsFiniteSet({f})
  BY FS_Singleton
<1>2. /\ SetToSeq(T) \in Seq(T) /\ Range(SetToSeq(T)) = T
      /\ \A i, j \in DOMAIN SetToSeq(T) : SetToSeq(T)[i] = SetToSeq(T)[j] => i = j
  BY <1>1, SlotsOfFrames
<1>3. S = T /\ FrameSlots(f) = SetToSeq(S)
  BY DEF FrameSlots
<1> HIDE DEF S, T
<1> QED
  BY <1>2, <1>3 DEF S

(* The variables of the environment, each once. *)
LEMMA RootSlotsFacts ==
  ASSUME MemoryInv
  PROVE  /\ SetToSeq(RootSlots) \in Seq(RootSlots) /\ Range(SetToSeq(RootSlots)) = RootSlots
         /\ \A i, j \in DOMAIN SetToSeq(RootSlots) :
               SetToSeq(RootSlots)[i] = SetToSeq(RootSlots)[j] => i = j
         /\ RootSlots \subseteq Items \ {ValSlot}
         /\ Range(env_) \subseteq DOMAIN frames /\ DOMAIN frames \subseteq FrameNumbers
<1>1. Range(env_) \subseteq DOMAIN frames /\ DOMAIN frames \subseteq FrameNumbers
  BY DEF MemoryInv, Range
<1>2. IsFiniteSet(Range(env_))
  <2>1. IsFiniteSet(FrameNumbers)
    BY HeapAssumption, FS_Interval DEF FrameNumbers
  <2> QED
    BY <1>1, <2>1, FS_Subset
<1>3. RootSlots = {VarSlot(f, n) : f \in Range(env_), n \in Names}
  BY DEF RootSlots
<1>4. ASSUME NEW s \in RootSlots PROVE s \in Items \ {ValSlot}
  <2>1. PICK f \in Range(env_), n \in Names : s = VarSlot(f, n)
    BY <1>3
  <2> QED
    BY <1>1, <2>1, ItemsType, ItemFacts
<1> QED
  BY <1>1, <1>2, <1>3, <1>4, SlotsOfFrames

-----------------------------------------------------------------------------
(* A collection starts *)

(* The roots are slots of variables of the frames that are visited, and    *)
(* val_, each once; nothing has moved. *)
LEMMA CollectionStarts ==
  ASSUME NEW phase \in {"collect", "clear"}, NEW todo \in Seq(Items), NEW visited,
         StartCollection(phase, todo, visited),
         DOMAIN frames' \subseteq FrameNumbers,
         from_' = from_, to_' = << >>, active' = << >>,
         from_ \in Seq(ObjectsOver({GC_NULL}, DValuesOver(DOMAIN from_, DOMAIN frames'))),
         frames' \in FramesOver(DOMAIN frames', DValuesOver(DOMAIN from_, DOMAIN frames')),
         val_' \in DValuesOver(DOMAIN from_, DOMAIN frames'),
         phase = "clear" => env_' = << >>,
         phase = "collect" /\ ~strayed' => EnvFits(active', env_', Len(active')),
         Range(env_') \subseteq visited, visited \subseteq DOMAIN frames',
         IF phase = "clear" THEN val_' = None ELSE ValSlot \in Range(todo),
         \A s \in Range(todo) :
            s = ValSlot \/ \E f \in visited, n \in Names : s = VarSlot(f, n),
         \A f \in visited, n \in Names : VarSlot(f, n) \in Range(todo),
         \A p, q \in DOMAIN todo : todo[p] = todo[q] => p = q
  PROVE  gc' \in Control /\ Collecting' /\ CollectInv' /\ EnvInv'
<1> DEFINE D == DOMAIN frames'
           V == DValuesOver(DOMAIN from_, D)
           W == DValuesOver(Nat, D)
<1>1. /\ gc' = [phase |-> phase, todo |-> todo, visited |-> visited, scan |-> 1,
                reserved |-> Len(from_), done |-> {}]
      /\ Len(from_) \in Nat /\ DOMAIN from_ = 1..Len(from_)
  BY DEF StartCollection
<1>2. /\ gc'.phase = phase /\ gc'.todo = todo /\ gc'.visited = visited /\ gc'.scan = 1
      /\ gc'.reserved = Len(from_) /\ gc'.done = {} /\ gc' \in Control /\ Collecting'
  BY <1>1 DEF Control, Collecting
<1>3. V \subseteq W
  BY <1>1, ValuesGrow
<1>4. /\ from_' \in Seq(ObjectsOver(Nat, V)) /\ to_' \in Seq(ObjectsOver({GC_NULL}, W))
      /\ frames' \in FramesOver(D, W) /\ val_' \in W
  <2>1. ObjectsOver({GC_NULL}, V) \subseteq ObjectsOver(Nat, V)
    BY DEF ObjectsOver, GC_NULL
  <2>2. frames' \in FramesOver(D, W)
    BY <1>3, FramesGrow
  <2>4. from_' \in Seq(ObjectsOver({GC_NULL}, V))
    OBVIOUS
  <2> HIDE DEF V, W
  <2>3. from_' \in Seq(ObjectsOver(Nat, V))
    BY <2>1, <2>4, SequencesGrow
  <2> QED
    BY <1>3, <2>2, <2>3 DEF V
<1> HIDE DEF V, W
<1>5. SlotsListed' /\ Placed'
  BY SlotsAre, SlotsPlaced, PTL
<1>6. DOMAIN to_' = {} /\ Len(to_') = 0
  OBVIOUS
<1>7. \A s \in Slots' : s = ValSlot \/ \E f \in D, n \in Names : s = VarSlot(f, n)
  BY <1>5, <1>6 DEF SlotsListed
<1>8. ASSUME NEW s \in Slots', IsAggregate(At(s)')
      PROVE  At(s)'.href \in DOMAIN from_'
  <2>1. At(s)' \in V
    <3>1. CASE s = ValSlot
      BY <1>5, <3>1 DEF Placed, V
    <3>2. ASSUME NEW f \in D, NEW n \in Names, s = VarSlot(f, n) PROVE At(s)' \in V
      BY <1>5, <3>2 DEF Placed, V, FramesOver
    <3> QED
      BY <1>7, <3>1, <3>2
  <2> QED
    BY <1>8, <2>1, ValueFacts DEF V
<1>9. MovesInv'
  <2>1. \A i \in DOMAIN from_' : from_'[i].fwd = GC_NULL
    BY ObjectFacts
  <2> QED
    BY <1>6, <2>1 DEF MovesInv
<1>10. TodoInv'
  <2>1. ASSUME NEW p \in DOMAIN todo PROVE todo[p] \in Slots' /\ IsSlot(todo[p])
    <3>1. todo[p] \in Range(todo)
      BY DEF Range
    <3>2. CASE todo[p] = ValSlot
      BY <1>5, <3>2, ItemFacts DEF SlotsListed
    <3>3. ASSUME NEW f \in visited, NEW n \in Names, todo[p] = VarSlot(f, n)
          PROVE  todo[p] \in Slots' /\ IsSlot(todo[p])
      BY <1>5, <3>3, ItemFacts DEF SlotsListed
    <3> QED
      BY <3>1, <3>2, <3>3
  <2> QED
    BY <1>2, <2>1 DEF TodoInv
<1>11. MetInv'
  <2>1. Met' = Range(todo)
    BY <1>2 DEF Met
  <2>2. ASSUME NEW f \in D, NEW n \in Names PROVE VarSlot(f, n) \in Range(todo) <=> f \in visited
    BY ItemFacts
  <2> QED
    BY <1>2, <1>6, <2>1, <2>2 DEF MetInv
<1>12. CollectInv'
  BY <1>2, <1>4, <1>6, <1>8, <1>9, <1>10, <1>11 DEF CollectInv, V, W
<1>13. Calls' = {}
  BY DEF Calls
<1>14. EnvInv'
  BY <1>2, <1>13 DEF EnvInv
<1> QED
  BY <1>2, <1>12, <1>14

(* Between the statements of the program nothing is in progress, and there *)
(* is the global frame alone, as long as no exit has left a call. *)
LEMMA BetweenStatements ==
  ASSUME MemoryInv, gc.phase = "next"
  PROVE  active = << >> /\ QuietInv /\ (~strayed => env_ = <<1>>)
<1>1. active = << >> /\ (~strayed => EnvFits(active, env_, Len(active))) /\ QuietInv
  BY DEF MemoryInv, EnvInv, Collecting
<1>2. Len(active) = 0 /\ CallsIn(active, 0) = {}
  BY <1>1 DEF CallsIn
<1>3. ~strayed => Len(env_) = 1 /\ env_[1] = 1
  BY <1>1, <1>2 DEF EnvFits
<1>4. ~strayed => env_ = <<1>>
  BY <1>3 DEF MemoryInv
<1> QED
  BY <1>1, <1>4

LEMMA MaybeGcKeeps ==
  ASSUME MemoryInv, MaybeGc
  PROVE  MemoryInv'
<1> DEFINE E     == Range(env_)
           slots == SetToSeq(RootSlots)
           todo  == <<ValSlot>> \o slots
<1>1. /\ gc.phase = "next" /\ to_' = << >> /\ StartCollection("collect", todo, E)
      /\ UNCHANGED <<from_, capacity, frames, env_, val_, active, strayed>>
  BY DEF MaybeGc, RootFrames
<1>2. active = << >> /\ QuietInv
  BY <1>1, BetweenStatements
<1>3. E \subseteq DOMAIN frames /\ DOMAIN frames \subseteq FrameNumbers
  BY RootSlotsFacts
<1>7. /\ slots \in Seq(RootSlots) /\ Range(slots) = RootSlots
      /\ \A i, j \in DOMAIN slots : slots[i] = slots[j] => i = j
      /\ RootSlots \subseteq Items \ {ValSlot}
  BY RootSlotsFacts
<1>8. RootSlots = {VarSlot(f, n) : f \in E, n \in Names}
  BY DEF RootSlots
<1>9. slots \in Seq(Items) /\ DOMAIN slots = 1..Len(slots) /\ Len(slots) \in Nat
  BY <1>7, SequencesGrow
<1> HIDE DEF slots, E
<1>10. /\ todo \in Seq(Items) /\ Len(todo) = Len(slots) + 1 /\ todo[1] = ValSlot
       /\ \A p \in 2..Len(todo) : todo[p] = slots[p - 1]
  BY <1>9, ItemsType
<1> HIDE DEF todo
<1>11. DOMAIN todo = 1..Len(todo) /\ Len(todo) \in Nat
  BY <1>10
<1>12. \A p \in 2..Len(todo) : todo[p] \in RootSlots /\ todo[p] # ValSlot
  <2>1. ASSUME NEW p \in 2..Len(todo) PROVE todo[p] \in RootSlots
    <3>1. p - 1 \in DOMAIN slots /\ todo[p] = slots[p - 1]
      BY <1>9, <1>10
    <3> QED
      BY <1>7, <3>1 DEF Range
  <2> QED
    BY <1>7, <2>1
<1>13. \A p, q \in DOMAIN todo : todo[p] = todo[q] => p = q
  <2>1. ASSUME NEW p \in DOMAIN todo, NEW q \in DOMAIN todo, todo[p] = todo[q] PROVE p = q
    <3>1. CASE p = 1 \/ q = 1
      BY <1>10, <1>11, <1>12, <2>1, <3>1
    <3>2. CASE p # 1 /\ q # 1
      <4>1. p - 1 \in DOMAIN slots /\ q - 1 \in DOMAIN slots /\ slots[p - 1] = slots[q - 1]
        BY <1>9, <1>10, <1>11, <2>1, <3>2
      <4>2. p - 1 = q - 1
        BY <1>7, <4>1
      <4> QED
        BY <1>11, <4>2
    <3> QED
      BY <3>1, <3>2
  <2> QED
    BY <2>1
<1>14. Range(todo) = {ValSlot} \cup RootSlots
  <2>1. ASSUME NEW s \in RootSlots PROVE s \in Range(todo)
    <3>1. PICK i \in DOMAIN slots : slots[i] = s
      BY <1>7 DEF Range
    <3>2. i + 1 \in DOMAIN todo /\ todo[i + 1] = s
      BY <1>9, <1>10, <1>11, <3>1
    <3> QED
      BY <3>2 DEF Range
  <2>2. ASSUME NEW s \in Range(todo) PROVE s \in {ValSlot} \cup RootSlots
    <3>1. PICK p \in DOMAIN todo : todo[p] = s
      BY DEF Range
    <3> QED
      BY <1>10, <1>11, <1>12, <3>1
  <2>3. ValSlot \in Range(todo)
    BY <1>9, <1>10, <1>11 DEF Range
  <2> QED
    BY <2>1, <2>2, <2>3
<1>16. /\ from_ \in Seq(ObjectsOver({GC_NULL}, DValuesOver(DOMAIN from_, DOMAIN frames)))
       /\ frames \in FramesOver(DOMAIN frames, DValuesOver(DOMAIN from_, DOMAIN frames))
       /\ val_ \in DValuesOver(DOMAIN from_, DOMAIN frames)
  BY <1>2 DEF QuietInv
<1>17. /\ DOMAIN frames' \subseteq FrameNumbers /\ env_' \in Seq(DOMAIN frames')
       /\ capacity' \in Nat /\ Len(from_') <= capacity' /\ strayed' \in BOOLEAN
  BY <1>1 DEF MemoryInv
<1>18. /\ from_' = from_ /\ frames' = frames /\ active' = << >> /\ env_' = env_ /\ val_' = val_
       /\ Range(env_') \subseteq E /\ E \subseteq DOMAIN frames'
  BY <1>1, <1>2, <1>3 DEF E
<1>15. ~strayed' => EnvFits(active', env_', Len(active'))
  BY <1>1 DEF MemoryInv, EnvInv
<1>19. gc' \in Control /\ Collecting' /\ CollectInv' /\ EnvInv'
  <2>1. /\ from_ \in Seq(ObjectsOver({GC_NULL}, DValuesOver(DOMAIN from_, DOMAIN frames')))
        /\ frames' \in FramesOver(DOMAIN frames', DValuesOver(DOMAIN from_, DOMAIN frames'))
        /\ val_' \in DValuesOver(DOMAIN from_, DOMAIN frames')
    BY <1>16, <1>18
  <2> DEFINE phase == "collect"
  <2>2. /\ StartCollection(phase, todo, E) /\ phase \in {"collect", "clear"}
        /\ (phase = "clear" => env_' = << >>)
        /\ (phase = "collect" /\ ~strayed' => EnvFits(active', env_', Len(active')))
        /\ IF phase = "clear" THEN val_' = None ELSE ValSlot \in Range(todo)
        /\ \A s \in Range(todo) : s = ValSlot \/ \E f \in E, n \in Names : s = VarSlot(f, n)
        /\ \A f \in E, n \in Names : VarSlot(f, n) \in Range(todo)
    BY <1>1, <1>8, <1>14, <1>15 DEF todo
  <2> HIDE DEF phase
  <2> QED
    BY <1>1, <1>10, <1>13, <1>17, <1>18, <2>1, <2>2, CollectionStarts
<1> QED
  BY <1>17, <1>19 DEF MemoryInv

LEMMA EndRunKeeps ==
  ASSUME MemoryInv, EndRun
  PROVE  MemoryInv'
<1> DEFINE fs == [f \in DOMAIN frames |-> IF f \in Range(env_) THEN NewFrame ELSE frames[f]]
           V  == DValuesOver(DOMAIN from_, DOMAIN frames)
<1>1. /\ gc.phase = "next" /\ StartCollection("clear", << >>, {}) /\ FramesBecome(fs)
      /\ val_' = None /\ env_' = << >> /\ UNCHANGED <<from_, to_, capacity, active, strayed>>
  BY DEF EndRun
<1>2. active = << >> /\ QuietInv
  BY <1>1, BetweenStatements
<1>3. /\ from_ \in Seq(ObjectsOver({GC_NULL}, V)) /\ frames \in FramesOver(DOMAIN frames, V)
      /\ to_ = << >> /\ DOMAIN frames \subseteq FrameNumbers
      /\ capacity \in Nat /\ Len(from_) <= capacity
  BY <1>2 DEF QuietInv, MemoryInv
<1>4. None \in V
  BY ValuesMade
<1>5. DOMAIN fs = DOMAIN frames /\ fs \in FramesOver(DOMAIN fs, V)
  <2> HIDE DEF V
  <2> QED
    BY <1>3, <1>4 DEF FramesOver, NewFrame
<1> HIDE DEF fs
<1>6. /\ frames' \in FramesOver(DOMAIN frames', DValuesOver(DOMAIN from_, DOMAIN frames'))
      /\ DOMAIN frames' \subseteq DOMAIN frames
  BY <1>1, <1>5, KeptFrames, FramesKept
<1>7. from_' \in Seq(ObjectsOver({GC_NULL}, DValuesOver(DOMAIN from_, DOMAIN frames')))
  BY <1>1, <1>3, <1>5, KeptValues
<1>8. val_' \in DValuesOver(DOMAIN from_, DOMAIN frames')
  BY <1>1, ValuesMade
<1>9. /\ DOMAIN frames' \subseteq FrameNumbers /\ from_' = from_ /\ to_' = << >> /\ active' = << >>
      /\ Range(env_') \subseteq {} /\ Range(<< >>) = {} /\ << >> \in Seq(Items)
      /\ DOMAIN << >> = {} /\ env_' \in Seq(DOMAIN frames')
      /\ capacity' \in Nat /\ Len(from_') <= capacity'
      /\ strayed' \in BOOLEAN
  BY <1>1, <1>2, <1>3, <1>6 DEF Range, MemoryInv
<1>10. gc' \in Control /\ Collecting' /\ CollectInv' /\ EnvInv'
  <2> DEFINE todo  == << >>
             phase == "clear"
  <2>1. /\ todo \in Seq(Items) /\ Range(todo) = {} /\ DOMAIN todo = {}
        /\ StartCollection(phase, todo, {}) /\ phase \in {"collect", "clear"} /\ phase # "collect"
        /\ IF phase = "clear" THEN val_' = None ELSE ValSlot \in Range(todo)
    BY <1>1, <1>9
  <2> HIDE DEF todo, phase
  <2> QED
    BY <1>1, <1>6, <1>7, <1>8, <1>9, <2>1, CollectionStarts
<1> QED
  BY <1>9, <1>10 DEF MemoryInv

LEMMA InitMakes ==
  ASSUME Init
  PROVE  MemoryInv
<1>1. /\ DOMAIN frames = {1} /\ frames = [f \in {1} |-> NewFrame] /\ 1 \in FrameNumbers
  BY HeapAssumption DEF Init, FrameNumbers
<1>2. frames \in FramesOver(DOMAIN frames, DValuesOver(DOMAIN from_, DOMAIN frames))
  <2>1. NewFrame \in [Names -> DValuesOver(DOMAIN from_, DOMAIN frames)]
    BY ValuesMade DEF NewFrame
  <2> QED
    BY <1>1, <2>1 DEF FramesOver
<1>3. /\ gc \in Control /\ gc.phase = "next" /\ gc.todo = << >> /\ gc.done = {}
      /\ gc.visited = {} /\ gc.scan = 1
  BY DEF Init, Control
<1>4. QuietInv
  BY <1>2, <1>3, ValuesMade DEF QuietInv, Init
<1>5. Calls = {} /\ CallsIn(active, 0) = {} /\ Len(active) = 0
  BY DEF Init, Calls, CallsIn
<1>6. EnvFits(active, env_, Len(active))
  BY <1>5 DEF EnvFits, Init
<1>7. EnvInv
  BY <1>3, <1>5, <1>6 DEF EnvInv, Init
<1>8. strayed \in BOOLEAN /\ ~Collecting
  BY <1>3 DEF Init, Collecting
<1>9. env_ \in Seq(DOMAIN frames)
  BY <1>1 DEF Init
<1>10. capacity \in Nat /\ Len(from_) <= capacity
  BY DEF Init
<1> QED
  BY <1>1, <1>3, <1>4, <1>7, <1>8, <1>9, <1>10 DEF MemoryInv

-----------------------------------------------------------------------------
(* What is left to scan *)

(* Items that may be left to scan: slots, each once, and frames. *)
TodoOver(todo, slots, fs) ==
  /\ todo \in Seq(Items)
  /\ \A item \in Range(todo) :
        IF IsSlot(item) THEN item \in slots ELSE \E f \in fs : item = FrameItem(f)
  /\ \A p, q \in DOMAIN todo : todo[p] = todo[q] /\ IsSlot(todo[p]) => p = q

LEMMA CollectFacts ==
  ASSUME MemoryInv, Collecting
  PROVE  /\ CollectInv /\ gc \in Control /\ EnvInv
         /\ gc.phase \in {"collect", "clear"} /\ gc.todo \in Seq(Items)
         /\ TodoOver(gc.todo, Slots \ gc.done, DOMAIN frames) /\ gc.done \subseteq Slots
         /\ DOMAIN frames \subseteq FrameNumbers /\ env_ \in Seq(DOMAIN frames)
         /\ capacity \in Nat /\ Len(from_) <= capacity
         /\ Len(from_) \in Nat /\ DOMAIN from_ = 1..Len(from_)
         /\ Len(to_) \in Nat /\ DOMAIN to_ = 1..Len(to_)
         /\ Slots \subseteq Items
<1>1. CollectInv /\ gc \in Control /\ gc.phase \in {"collect", "clear"} /\ EnvInv
  BY DEF MemoryInv, Collecting
<1>2. gc.phase \in {"collect", "clear"} /\ gc.todo \in Seq(Items)
  BY <1>1 DEF Control
<1>3. TodoOver(gc.todo, Slots \ gc.done, DOMAIN frames) /\ gc.done \subseteq Slots
  <2>1. gc.todo \in Seq(Items) /\ TodoInv
    BY <1>1 DEF Control, CollectInv
  <2> QED
    BY <2>1 DEF TodoInv, TodoOver, Range
<1>4. /\ DOMAIN frames \subseteq FrameNumbers /\ env_ \in Seq(DOMAIN frames)
      /\ capacity \in Nat /\ Len(from_) <= capacity
  BY DEF MemoryInv
<1>5. /\ from_ \in Seq(ObjectsOver(Nat, DValuesOver(DOMAIN from_, DOMAIN frames)))
      /\ to_ \in Seq(ObjectsOver({GC_NULL}, DValuesOver(Nat, DOMAIN frames)))
  BY <1>1 DEF CollectInv
<1>6. /\ Len(from_) \in Nat /\ DOMAIN from_ = 1..Len(from_)
      /\ Len(to_) \in Nat /\ DOMAIN to_ = 1..Len(to_)
  BY <1>5
<1>7. Slots \subseteq Items
  <2>1. ASSUME NEW h \in DOMAIN to_, NEW k \in DOMAIN to_[h].values PROVE ElemSlot(h, k) \in Items
    <3>1. to_[h] \in ObjectsOver({GC_NULL}, DValuesOver(Nat, DOMAIN frames)) /\ h \in Nat
      BY <1>5, <1>6
    <3>2. DOMAIN to_[h].values = 1..Len(to_[h].values) /\ Len(to_[h].values) \in Nat
      BY <3>1, ObjectFacts
    <3>3. k \in Nat
      BY <3>2
    <3> QED
      BY <3>1, <3>3, ItemsType
  <2> QED
    BY <1>4, <2>1, SlotsAre, ItemsType DEF SlotsListed
<1> QED
  BY <1>1, <1>2, <1>3, <1>4, <1>6, <1>7

(* What is at a slot is a value; its handle names an object, or a copy if  *)
(* the slot has been scanned. *)
LEMMA SlotValues ==
  ASSUME MemoryInv, Collecting, NEW s \in Slots
  PROVE  /\ At(s) \in DValuesOver(Nat, DOMAIN frames)
         /\ IsAggregate(At(s)) => At(s).href \in IF s \in gc.done THEN DOMAIN to_ ELSE DOMAIN from_
<1> DEFINE V == DValuesOver(Nat, DOMAIN frames)
<1>1. CollectInv
  BY CollectFacts
<1>2. /\ to_ \in Seq(ObjectsOver({GC_NULL}, V)) /\ frames \in FramesOver(DOMAIN frames, V) /\ val_ \in V
  BY <1>1 DEF CollectInv
<1> HIDE DEF V
<1>3. SlotsListed /\ Placed
  BY SlotsAre, SlotsPlaced
<1>4. CASE s = ValSlot
  BY <1>1, <1>2, <1>3, <1>4 DEF Placed, CollectInv, V
<1>5. ASSUME NEW f \in DOMAIN frames, NEW n \in Names, s = VarSlot(f, n) PROVE At(s) \in V
  BY <1>2, <1>3, <1>5 DEF Placed, FramesOver
<1>6. ASSUME NEW h \in DOMAIN to_, NEW k \in DOMAIN to_[h].values, s = ElemSlot(h, k) PROVE At(s) \in V
  <2>1. to_[h] \in ObjectsOver({GC_NULL}, V)
    BY <1>2
  <2>2. to_[h].values[k] \in V
    BY <2>1, ObjectFacts
  <2> QED
    BY <1>3, <1>6, <2>2 DEF Placed
<1>7. At(s) \in V
  BY <1>2, <1>3, <1>5, <1>6 DEF SlotsListed, Placed
<1> QED
  BY <1>1, <1>7 DEF CollectInv, V

(* The next item, and the rest. *)
LEMMA TodoFacts ==
  ASSUME NEW slots, NEW fs, NEW todo, TodoOver(todo, slots, fs), todo # << >>
  PROVE  /\ Head(todo) \in Range(todo) /\ Range(todo) = {Head(todo)} \cup Range(Tail(todo))
         /\ IsSlot(Head(todo)) => Head(todo) \in slots /\ Head(todo) \notin Range(Tail(todo))
         /\ ~IsSlot(Head(todo)) => \E f \in fs : Head(todo) = FrameItem(f)
         /\ TodoOver(Tail(todo), slots \ {Head(todo)}, fs)
<1> DEFINE t == Head(todo)
           rest == Tail(todo)
           n == Len(todo)
<1>1. todo \in Seq(Items) /\ n \in Nat /\ n >= 1 /\ DOMAIN todo = 1..n
  BY DEF TodoOver
<1>2. t = todo[1] /\ rest \in Seq(Items) /\ DOMAIN rest = 1..n - 1 /\ \A p \in 1..n - 1 : rest[p] = todo[p + 1]
  BY <1>1
<1> HIDE DEF t, rest
<1>3. t \in Range(todo)
  BY <1>1, <1>2 DEF Range
<1>4. ASSUME NEW p \in DOMAIN rest PROVE rest[p] \in Range(todo) /\ rest[p] \in Range(rest)
  <2>1. p + 1 \in DOMAIN todo /\ rest[p] = todo[p + 1]
    BY <1>1, <1>2
  <2> QED
    BY <2>1 DEF Range
<1>5. ASSUME NEW item \in Range(todo) PROVE item = t \/ item \in Range(rest)
  <2>1. PICK p \in DOMAIN todo : todo[p] = item
    BY DEF Range
  <2>2. CASE p = 1
    BY <1>2, <2>1, <2>2
  <2>3. CASE p # 1
    <3>1. p - 1 \in DOMAIN rest /\ rest[p - 1] = todo[p - 1 + 1] /\ p - 1 + 1 = p
      BY <1>1, <1>2, <2>1, <2>3
    <3> QED
      BY <2>1, <3>1 DEF Range
  <2> QED
    BY <2>2, <2>3
<1>6. Range(rest) \subseteq Range(todo)
  BY <1>4 DEF Range
<1>7. Range(todo) = {t} \cup Range(rest)
  BY <1>3, <1>5, <1>6
<1>8. ASSUME IsSlot(t) PROVE t \notin Range(rest)
  <2>1. ASSUME NEW p \in DOMAIN rest, rest[p] = t PROVE FALSE
    <3>1. p + 1 \in DOMAIN todo /\ todo[p + 1] = todo[1] /\ 1 \in DOMAIN todo /\ IsSlot(todo[1])
      BY <1>1, <1>2, <1>8, <2>1
    <3>2. p + 1 = 1
      BY <3>1 DEF TodoOver
    <3> QED
      BY <1>1, <1>2, <3>2
  <2> QED
    BY <2>1 DEF Range
<1>9. \A item \in Range(todo) :
        IF IsSlot(item) THEN item \in slots ELSE \E f \in fs : item = FrameItem(f)
  BY DEF TodoOver
<1>10. \A item \in Range(rest) :
        IF IsSlot(item) THEN item \in slots \ {t} ELSE \E f \in fs : item = FrameItem(f)
  BY <1>6, <1>8, <1>9
<1>11. \A p, q \in DOMAIN rest : rest[p] = rest[q] /\ IsSlot(rest[p]) => p = q
  <2>1. ASSUME NEW p \in DOMAIN rest, NEW q \in DOMAIN rest, rest[p] = rest[q], IsSlot(rest[p])
        PROVE  p = q
    <3>1. /\ p + 1 \in DOMAIN todo /\ q + 1 \in DOMAIN todo /\ todo[p + 1] = todo[q + 1]
          /\ IsSlot(todo[p + 1])
      BY <1>1, <1>2, <2>1
    <3>2. p + 1 = q + 1
      BY <3>1 DEF TodoOver
    <3> QED
      BY <1>2, <3>2
  <2> QED
    BY <2>1
<1>12. TodoOver(rest, slots \ {t}, fs)
  BY <1>2, <1>10, <1>11 DEF TodoOver
<1> QED
  BY <1>3, <1>7, <1>8, <1>9, <1>12 DEF t, rest

LEMMA NextFacts ==
  ASSUME MemoryInv, Scanning
  PROVE  /\ Collecting /\ gc.todo # << >> /\ gc.todo \in Seq(Items)
         /\ Next1 \in Items /\ Range(gc.todo) = {Next1} \cup Range(Tail(gc.todo))
         /\ IsSlot(Next1) =>
               /\ Next1 \in Slots \ gc.done
               /\ Next1 \notin Range(Tail(gc.todo))
               /\ TodoOver(Tail(gc.todo), Slots \ (gc.done \cup {Next1}), DOMAIN frames)
         /\ ~IsSlot(Next1) =>
               /\ \E f \in DOMAIN frames : Next1 = FrameItem(f)
               /\ TodoOver(Tail(gc.todo), Slots \ gc.done, DOMAIN frames)
<1> DEFINE t == Next1
           slots == Slots \ gc.done
<1>1. /\ Collecting /\ gc.todo # << >> /\ gc.todo \in Seq(Items) /\ DOMAIN frames \subseteq FrameNumbers
      /\ TodoOver(gc.todo, slots, DOMAIN frames) /\ Slots \subseteq Items
  BY CollectFacts DEF Scanning
<1>2. t = Head(gc.todo)
  BY DEF Next1
<1> HIDE DEF t, slots
<1>3. /\ Range(gc.todo) = {t} \cup Range(Tail(gc.todo))
      /\ IsSlot(t) => t \in slots /\ t \notin Range(Tail(gc.todo))
      /\ ~IsSlot(t) => \E f \in DOMAIN frames : t = FrameItem(f)
      /\ TodoOver(Tail(gc.todo), slots \ {t}, DOMAIN frames)
  BY <1>1, <1>2, TodoFacts
<1>4. t \in Items
  BY <1>1, <1>3, ItemsType DEF slots
<1>5. slots \ {t} = Slots \ (gc.done \cup {t}) /\ slots \ {t} \subseteq slots
  BY DEF slots
<1>6. TodoOver(Tail(gc.todo), slots, DOMAIN frames)
  BY <1>3, <1>5 DEF TodoOver
<1> QED
  BY <1>1, <1>3, <1>4, <1>5, <1>6 DEF t, slots

(* Items that are put before the rest. *)
Apart(items, rest) == \A s \in Range(items) : IsSlot(s) => s \notin Range(rest)
Joined(items, rest) == items \o rest

LEMMA TodoPrepended ==
  ASSUME NEW slots, NEW fs, NEW items, NEW rest, TodoOver(items, slots, fs),
         TodoOver(rest, slots, fs), Apart(items, rest),
         NEW todo, todo = Joined(items, rest)
  PROVE  /\ TodoOver(todo, slots, fs)
         /\ Range(todo) = Range(items) \cup Range(rest)
<1> DEFINE n == Len(items)
           m == Len(rest)
<1>1. /\ items \in Seq(Items) /\ rest \in Seq(Items) /\ n \in Nat /\ m \in Nat
      /\ DOMAIN items = 1..n /\ DOMAIN rest = 1..m
  BY DEF TodoOver
<1>2. /\ todo \in Seq(Items) /\ DOMAIN todo = 1..n + m
      /\ \A p \in 1..n : todo[p] = items[p]
      /\ \A p \in n + 1..n + m : todo[p] = rest[p - n]
  BY <1>1 DEF Joined
<1>3. \A p \in 1..n + m : IF p <= n THEN p \in DOMAIN items /\ todo[p] = items[p]
                                   ELSE p - n \in DOMAIN rest /\ todo[p] = rest[p - n]
  <2>1. ASSUME NEW p \in 1..n + m
        PROVE  IF p <= n THEN p \in DOMAIN items /\ todo[p] = items[p]
                         ELSE p - n \in DOMAIN rest /\ todo[p] = rest[p - n]
    <3>1. CASE p <= n
      BY <1>1, <1>2, <3>1
    <3>2. CASE ~(p <= n)
      <4>1. p \in n + 1..n + m /\ p - n \in 1..m
        BY <1>1, <3>2
      <4> QED
        BY <1>1, <1>2, <3>2, <4>1
    <3> QED
      BY <3>1, <3>2
  <2> QED
    BY <2>1
<1>4. Range(todo) \subseteq Range(items) \cup Range(rest)
  BY <1>2, <1>3 DEF Range
<1>5. Range(items) \subseteq Range(todo)
  BY <1>1, <1>2 DEF Range
<1>6. Range(rest) \subseteq Range(todo)
  <2>1. ASSUME NEW q \in DOMAIN rest PROVE rest[q] \in Range(todo)
    <3>1. q + n \in n + 1..n + m /\ q + n \in 1..n + m /\ q + n - n = q
      BY <1>1
    <3> QED
      BY <1>2, <3>1 DEF Range
  <2> QED
    BY <2>1 DEF Range
<1>7. \A item \in Range(todo) :
        IF IsSlot(item) THEN item \in slots ELSE \E f \in fs : item = FrameItem(f)
  BY <1>4 DEF TodoOver
<1>8. ASSUME NEW p \in DOMAIN todo, NEW q \in DOMAIN todo, todo[p] = todo[q], IsSlot(todo[p])
      PROVE  p = q
  <2>1. p \in 1..n + m /\ q \in 1..n + m /\ p \in Int /\ q \in Int
    BY <1>1, <1>2
  <2>2. CASE p <= n /\ q <= n
    BY <1>3, <1>8, <2>1, <2>2 DEF TodoOver
  <2>3. CASE ~(p <= n) /\ ~(q <= n)
    <3>1. p - n \in DOMAIN rest /\ q - n \in DOMAIN rest /\ rest[p - n] = rest[q - n] /\ IsSlot(rest[p - n])
      BY <1>3, <1>8, <2>1, <2>3
    <3>2. p - n = q - n
      BY <3>1 DEF TodoOver
    <3> QED
      BY <1>1, <2>1, <3>2
  <2>4. ASSUME NEW i \in DOMAIN items, NEW j \in DOMAIN rest, items[i] = rest[j], IsSlot(items[i]) PROVE FALSE
    BY <2>4 DEF Range, Apart
  <2>5. CASE p <= n /\ ~(q <= n)
    BY <1>3, <1>8, <2>1, <2>4, <2>5
  <2>6. CASE ~(p <= n) /\ q <= n
    BY <1>3, <1>8, <2>1, <2>4, <2>6
  <2> QED
    BY <2>2, <2>3, <2>5, <2>6
<1>9. TodoOver(todo, slots, fs)
  BY <1>2, <1>7, <1>8 DEF TodoOver
<1> QED
  BY <1>4, <1>5, <1>6, <1>9

-----------------------------------------------------------------------------
(* The steps of a collection that move nothing *)

LEMMA ScanKeeps ==
  ASSUME MemoryInv, Collecting, UNCHANGED <<from_, to_, capacity, frames, env_, val_, active, strayed>>,
         NEW todo, NEW visited, NEW scan, NEW done,
         gc' \in Control, gc'.phase = gc.phase, gc'.todo = todo, gc'.visited = visited,
         gc'.scan = scan, gc'.reserved = gc.reserved, gc'.done = done,
         TodoOver(todo, Slots \ done, DOMAIN frames),
         gc.visited \subseteq visited, visited \subseteq DOMAIN frames,
         scan \in 1..Len(to_) + 1, done \subseteq Slots,
         \A s \in Slots : IsAggregate(At(s)) => (s \in done <=> s \in gc.done),
         gc.phase # "clear" => ValSlot \in done \cup Range(todo),
         \A f \in DOMAIN frames, n \in Names :
            VarSlot(f, n) \in done \cup Range(todo) <=> f \in visited,
         \A h \in DOMAIN to_ : \A k \in DOMAIN to_[h].values :
            ElemSlot(h, k) \in done \cup Range(todo) <=> h < scan,
         \A s \in done : \A f \in Range(At(s).env) :
            f \in visited \/ FrameItem(f) \in done \cup Range(todo)
  PROVE  MemoryInv'
<1>1. /\ CollectInv /\ gc \in Control /\ EnvInv
      /\ DOMAIN frames \subseteq FrameNumbers /\ env_ \in Seq(DOMAIN frames)
      /\ capacity \in Nat /\ Len(from_) <= capacity
      /\ Slots \subseteq Items /\ Len(to_) \in Nat
  BY CollectFacts
<1>4. /\ gc'.phase = gc.phase /\ gc'.todo = todo /\ gc'.visited = visited /\ gc'.scan = scan
      /\ gc'.reserved = gc.reserved /\ gc'.done = done
  BY DEF Collecting
<1>6. Slots' = Slots /\ \A s : At(s)' = At(s)
  BY DEF Slots, At
<1>7. TodoInv'
  BY <1>4, <1>6 DEF TodoInv, TodoOver, Range
<1>8. MetInv'
  <2>1. Met' = done \cup Range(todo)
    BY <1>4 DEF Met
  <2>2. Range(env_) \subseteq visited /\ (gc.phase = "clear" => val_ = None)
    BY <1>1 DEF CollectInv, MetInv
  <2> QED
    BY <1>4, <1>6, <2>1, <2>2 DEF MetInv
<1>9. MovesInv'
  <2>1. MovesInv
    BY <1>1 DEF CollectInv
  <2> QED
    BY <2>1 DEF MovesInv
<1>10. \A s \in Slots' : IsAggregate(At(s)') =>
          At(s)'.href \in IF s \in gc'.done THEN DOMAIN to_' ELSE DOMAIN from_'
  BY <1>1, <1>4, <1>6 DEF CollectInv
<1>11. CollectInv'
  BY <1>1, <1>4, <1>7, <1>8, <1>9, <1>10 DEF CollectInv
<1>12. EnvInv' /\ Collecting'
  BY <1>1, <1>4 DEF EnvInv, Calls, Collecting
<1> QED
  BY <1>1, <1>11, <1>12 DEF MemoryInv

(* A slot is scanned, which may leave frames to scan. *)
LEMMA ScanSlotKeeps ==
  ASSUME MemoryInv, Scanning, IsSlot(Next1), ~IsAggregate(At(Next1)),
         UNCHANGED <<from_, to_, capacity, frames, env_, val_, active, strayed>>,
         NEW items, TodoOver(items, {}, DOMAIN frames),
         gc' = [Popped EXCEPT !.todo = items \o @],
         \A f \in Range(At(Next1).env) : FrameItem(f) \in Range(items)
  PROVE  MemoryInv'
<1> DEFINE t     == Next1
           rest  == Tail(gc.todo)
           todo  == Joined(items, rest)
           done  == gc.done \cup {t}
           slots == Slots \ done
           met   == done \cup Range(todo)
<1>1. /\ Collecting /\ gc.todo # << >> /\ CollectInv /\ MetInv /\ gc \in Control
      /\ TodoOver(gc.todo, Slots \ gc.done, DOMAIN frames) /\ gc.done \subseteq Slots
  BY CollectFacts DEF Scanning, CollectInv
<1>2. /\ t \in Slots \ gc.done /\ Range(gc.todo) = {t} \cup Range(rest) /\ t \in Items
      /\ TodoOver(rest, slots, DOMAIN frames)
  BY NextFacts
<1>4. TodoOver(items, slots, DOMAIN frames) /\ \A s \in Range(items) : ~IsSlot(s)
  BY DEF TodoOver
<1> HIDE DEF rest, slots, done
<1>13. TodoOver(items, slots, DOMAIN frames) /\ TodoOver(rest, slots, DOMAIN frames)
  BY <1>2, <1>4
<1>3. todo = Joined(items, rest) /\ Apart(items, rest)
  BY <1>4 DEF Apart
<1> HIDE DEF todo
<1>5. TodoOver(todo, slots, DOMAIN frames) /\ Range(todo) = Range(items) \cup Range(rest)
  BY <1>3, <1>13, TodoPrepended
<1>12. /\ gc' \in Control /\ gc'.phase = gc.phase /\ gc'.todo = todo /\ gc'.visited = gc.visited
       /\ gc'.scan = gc.scan /\ gc'.reserved = gc.reserved /\ gc'.done = done
  <2>1. todo \in Seq(Items) /\ todo = items \o Tail(gc.todo)
    BY <1>5 DEF TodoOver, todo, rest, Joined
  <2>2. gc' = [[gc EXCEPT !.todo = Tail(@), !.done = @ \cup {t}] EXCEPT !.todo = items \o @]
    BY DEF Popped
  <2> HIDE DEF t
  <2>3. /\ gc' \in Control /\ gc'.phase = gc.phase /\ gc'.todo = items \o Tail(gc.todo)
        /\ gc'.visited = gc.visited /\ gc'.scan = gc.scan /\ gc'.reserved = gc.reserved
        /\ gc'.done = gc.done \cup {t}
    <3> DEFINE g == gc
               h == gc'
               j == items \o Tail(gc.todo)
    <3>1. g \in Control /\ t \in Items /\ items \o Tail(g.todo) \in Seq(Items)
      BY <1>1, <1>2, <2>1
    <3>2. h = [[g EXCEPT !.todo = Tail(@), !.done = @ \cup {t}] EXCEPT !.todo = items \o @]
      BY <2>2
    <3> HIDE DEF g, h
    <3>3. /\ h \in Control /\ h.phase = g.phase /\ h.todo = items \o Tail(g.todo)
          /\ h.visited = g.visited /\ h.scan = g.scan /\ h.reserved = g.reserved
          /\ h.done = g.done \cup {t}
      BY <3>1, <3>2 DEF Control
    <3> QED
      BY <3>3 DEF g, h
  <2> QED
    BY <2>1, <2>3 DEF done
<1> HIDE DEF t
<1>6. Met \subseteq met /\ \A s \in met : IsSlot(s) => s \in Met
  BY <1>2, <1>4, <1>5 DEF Met, done
<1>7. /\ done \subseteq Slots
      /\ \A s \in Slots : IsAggregate(At(s)) => (s \in done <=> s \in gc.done)
  BY <1>1, <1>2 DEF t, done
<1>8. gc.visited \subseteq DOMAIN frames /\ gc.scan \in 1..Len(to_) + 1
  BY <1>1 DEF CollectInv, MetInv
<1>9. /\ gc.phase # "clear" => ValSlot \in met
      /\ \A f \in DOMAIN frames, n \in Names : VarSlot(f, n) \in met <=> f \in gc.visited
      /\ \A h \in DOMAIN to_ : \A k \in DOMAIN to_[h].values : ElemSlot(h, k) \in met <=> h < gc.scan
  BY <1>1, <1>6, ItemFacts DEF MetInv
<1>10. \A s \in done : \A f \in Range(At(s).env) : f \in gc.visited \/ FrameItem(f) \in met
  <2>1. \A f \in Range(At(t).env) : FrameItem(f) \in met
    BY <1>5 DEF t
  <2>2. \A s \in gc.done : \A f \in Range(At(s).env) : f \in gc.visited \/ FrameItem(f) \in met
    BY <1>1, <1>6 DEF MetInv
  <2> QED
    BY <2>1, <2>2 DEF done
<1>11. TodoOver(todo, Slots \ done, DOMAIN frames)
  BY <1>5 DEF slots
<1> QED
  BY <1>1, <1>12, <1>7, <1>8, <1>9, <1>10, <1>11, ScanKeeps

LEMMA ScanNoneKeeps ==
  ASSUME MemoryInv, ScanNone
  PROVE  MemoryInv'
<1>1. /\ Scanning /\ IsSlot(Next1) /\ At(Next1).type = "None" /\ gc' = Popped
      /\ UNCHANGED <<from_, to_, capacity, frames, env_, val_, active, strayed>>
  BY DEF ScanNone
<1>2. Next1 \in Slots /\ gc \in Control /\ Collecting
  BY <1>1, CollectFacts, NextFacts
<1>3. At(Next1) \in DValuesOver(Nat, DOMAIN frames)
  BY <1>1, <1>2, SlotValues
<1>4. At(Next1).env = << >> /\ ~IsAggregate(At(Next1))
  BY <1>1, <1>3, ValueFacts DEF IsAggregate
<1>5. gc' = [Popped EXCEPT !.todo = << >> \o @]
  <2>1. Popped.todo \in Seq(Items) /\ Popped = [Popped EXCEPT !.todo = Popped.todo]
    <3>1. Next1 \in Items /\ gc.todo # << >>
      BY <1>1, NextFacts
    <3>2. Popped \in Control
      <4> DEFINE g == gc
                 t == Next1
      <4>1. g \in Control /\ t \in Items /\ g.todo # << >> /\ Popped = [g EXCEPT !.todo = Tail(@), !.done = @ \cup {t}]
        BY <1>2, <3>1 DEF Popped
      <4>2. Tail(g.todo) \in Seq(Items)
        BY <4>1 DEF Control
      <4> HIDE DEF g, t
      <4> QED
        BY <4>1, <4>2 DEF Control
    <3> QED
      BY <3>2 DEF Control
  <2>2. << >> \o Popped.todo = Popped.todo
    BY <2>1
  <2> QED
    BY <1>1, <2>1, <2>2
<1>6. TodoOver(<< >>, {}, DOMAIN frames) /\ Range(<< >>) = {}
  BY DEF TodoOver, Range
<1> QED
  BY <1>1, <1>4, <1>5, <1>6, ScanSlotKeeps DEF Range

LEMMA ScanFuncKeeps ==
  ASSUME MemoryInv, ScanFunc
  PROVE  MemoryInv'
<1> DEFINE env   == At(Next1).env
           items == [i \in DOMAIN env |-> FrameItem(env[i])]
<1>1. /\ Scanning /\ IsSlot(Next1) /\ At(Next1).type = "Func"
      /\ gc' = [Popped EXCEPT !.todo = items \o @]
      /\ UNCHANGED <<from_, to_, capacity, frames, env_, val_, active, strayed>>
  BY DEF ScanFunc
<1>2. Next1 \in Slots /\ DOMAIN frames \subseteq FrameNumbers /\ Collecting
  BY <1>1, CollectFacts, NextFacts
<1>3. At(Next1) \in DValuesOver(Nat, DOMAIN frames)
  BY <1>1, <1>2, SlotValues
<1>4. env \in Seq(DOMAIN frames) /\ ~IsAggregate(At(Next1))
  BY <1>1, <1>3, ValueFacts DEF IsAggregate
<1> HIDE DEF env
<1>5. DOMAIN env = 1..Len(env) /\ \A i \in 1..Len(env) : env[i] \in DOMAIN frames
  BY <1>4
<1>6. items \in Seq(Items) /\ DOMAIN items = DOMAIN env
  <2>1. \A i \in 1..Len(env) : FrameItem(env[i]) \in Items
    BY <1>2, <1>5, ItemsType
  <2> QED
    BY <1>4, <1>5, <2>1
<1>7. \A i \in DOMAIN items : items[i] = FrameItem(env[i]) /\ ~IsSlot(items[i])
  BY <1>6, ItemFacts
<1> HIDE DEF items
<1>8. TodoOver(items, {}, DOMAIN frames)
  BY <1>5, <1>6, <1>7 DEF TodoOver, Range
<1>9. \A f \in Range(env) : FrameItem(f) \in Range(items)
  BY <1>6, <1>7 DEF Range
<1> QED
  BY <1>1, <1>4, <1>8, <1>9, ScanSlotKeeps DEF env

(* A frame that has been visited, and one that has not. *)
LEMMA ScanFrameKeeps ==
  ASSUME MemoryInv, ScanFrame
  PROVE  MemoryInv'
<1> DEFINE t     == Next1
           rest  == Tail(gc.todo)
           slots == Slots \ gc.done
<1>1. /\ Scanning /\ ~IsSlot(t) /\ UNCHANGED <<from_, to_, capacity, frames, env_, val_, active, strayed>>
      /\ gc' = IF t[2] \in gc.visited
               THEN [gc EXCEPT !.todo = Tail(@)]
               ELSE [gc EXCEPT !.todo = FrameSlots(t[2]) \o Tail(@),
                               !.visited = @ \cup {t[2]}]
  BY DEF ScanFrame
<1>2. /\ Collecting /\ CollectInv /\ MetInv /\ gc \in Control /\ gc.done \subseteq Slots
      /\ DOMAIN frames \subseteq FrameNumbers
  BY <1>1, CollectFacts DEF Scanning, CollectInv
<1>3. /\ Range(gc.todo) = {t} \cup Range(rest)
      /\ TodoOver(rest, slots, DOMAIN frames)
      /\ \E f \in DOMAIN frames : t = FrameItem(f)
  BY <1>1, NextFacts
<1>4. PICK f \in DOMAIN frames : t = FrameItem(f)
  BY <1>3
<1>5. t[2] = f
  BY <1>4 DEF FrameItem
<1> HIDE DEF t, rest
<1>6. /\ gc.visited \subseteq DOMAIN frames /\ gc.scan \in 1..Len(to_) + 1
      /\ gc.phase # "clear" => ValSlot \in Met
      /\ \A g \in DOMAIN frames, n \in Names : VarSlot(g, n) \in Met <=> g \in gc.visited
      /\ \A h \in DOMAIN to_ : \A k \in DOMAIN to_[h].values : ElemSlot(h, k) \in Met <=> h < gc.scan
      /\ \A s \in gc.done : \A g \in Range(At(s).env) : g \in gc.visited \/ FrameItem(g) \in Met
  BY <1>2 DEF CollectInv, MetInv
<1>7. Met = gc.done \cup {t} \cup Range(rest)
  BY <1>3 DEF Met
<1>8. CASE f \in gc.visited
  <2> DEFINE met == gc.done \cup Range(rest)
  <2>1. /\ gc' \in Control /\ gc'.phase = gc.phase /\ gc'.todo = rest /\ gc'.visited = gc.visited
        /\ gc'.scan = gc.scan /\ gc'.reserved = gc.reserved /\ gc'.done = gc.done
    <3>1. rest \in Seq(Items) /\ gc' = [gc EXCEPT !.todo = rest]
      BY <1>1, <1>3, <1>5, <1>8 DEF TodoOver, rest, t
    <3> QED
      BY <1>2, <3>1 DEF Control
  <2>2. /\ gc.phase # "clear" => ValSlot \in met
        /\ \A g \in DOMAIN frames, n \in Names : VarSlot(g, n) \in met <=> g \in gc.visited
        /\ \A h \in DOMAIN to_ : \A k \in DOMAIN to_[h].values : ElemSlot(h, k) \in met <=> h < gc.scan
    BY <1>4, <1>6, <1>7, ItemFacts
  <2>3. \A s \in gc.done : \A g \in Range(At(s).env) : g \in gc.visited \/ FrameItem(g) \in met
    BY <1>4, <1>6, <1>7, <1>8, ItemFacts
  <2>4. /\ Collecting /\ UNCHANGED <<from_, to_, capacity, frames, env_, val_, active, strayed>>
        /\ TodoOver(rest, Slots \ gc.done, DOMAIN frames) /\ gc.done \subseteq Slots
    BY <1>1, <1>2, <1>3
  <2> HIDE DEF slots
  <2> QED
    BY <1>6, <2>1, <2>2, <2>3, <2>4, ScanKeeps
<1>9. CASE f \notin gc.visited
  <2> DEFINE items == FrameSlots(f)
             todo  == Joined(items, rest)
             met   == gc.done \cup Range(todo)
             visited == gc.visited \cup {f}
  <2>1. gc' = [gc EXCEPT !.todo = todo, !.visited = visited]
    BY <1>1, <1>2, <1>5, <1>9 DEF rest, t, Joined
  <2>2. /\ items \in Seq({VarSlot(f, n) : n \in Names})
        /\ Range(items) = {VarSlot(f, n) : n \in Names}
        /\ \A i, j \in DOMAIN items : items[i] = items[j] => i = j
    BY FrameSlotsFacts
  <2>3. \A n \in Names : /\ VarSlot(f, n) \in Items /\ VarSlot(f, n) \in Slots
                         /\ VarSlot(f, n) \notin Met /\ IsSlot(VarSlot(f, n))
    BY <1>2, <1>6, <1>9, ItemsType, SlotsAre, ItemFacts DEF SlotsListed
  <2>4. items \in Seq(Items)
    BY <2>2, <2>3, SequencesGrow
  <2> HIDE DEF items
  <2>5. TodoOver(items, slots, DOMAIN frames)
    BY <1>7, <2>2, <2>3, <2>4 DEF TodoOver
  <2>6. todo = Joined(items, rest) /\ Apart(items, rest)
    BY <1>7, <2>2, <2>3 DEF Apart
  <2> HIDE DEF slots, todo
  <2>7. TodoOver(todo, slots, DOMAIN frames) /\ Range(todo) = Range(items) \cup Range(rest)
    BY <1>3, <2>5, <2>6, TodoPrepended
  <2>13. /\ gc' \in Control /\ gc'.phase = gc.phase /\ gc'.todo = todo /\ gc'.visited = visited
         /\ gc'.scan = gc.scan /\ gc'.reserved = gc.reserved /\ gc'.done = gc.done
    <3>1. todo \in Seq(Items) /\ visited \subseteq FrameNumbers
      BY <1>2, <1>6, <2>7 DEF TodoOver
    <3> HIDE DEF visited
    <3> QED
      BY <1>2, <2>1, <3>1 DEF Control
  <2>8. ASSUME NEW s PROVE s \in met <=> (s \in Met /\ (s # t \/ s \in Range(rest) \cup gc.done)) \/ \E n \in Names : s = VarSlot(f, n)
    BY <1>7, <2>2, <2>7
  <2> HIDE DEF met
  <2>9. /\ gc.phase # "clear" => ValSlot \in met
        /\ \A h \in DOMAIN to_ : \A k \in DOMAIN to_[h].values : ElemSlot(h, k) \in met <=> h < gc.scan
    BY <1>4, <1>6, <2>8, ItemFacts
  <2>10. \A g \in DOMAIN frames, n \in Names : VarSlot(g, n) \in met <=> g \in visited
    BY <1>4, <1>6, <2>8, ItemFacts
  <2>11. \A s \in gc.done : \A g \in Range(At(s).env) : g \in visited \/ FrameItem(g) \in met
    BY <1>4, <1>6, <2>8, ItemFacts
  <2>12. TodoOver(todo, Slots \ gc.done, DOMAIN frames) /\ gc.visited \subseteq visited /\ visited \subseteq DOMAIN frames
    BY <1>6, <2>7 DEF slots
  <2> HIDE DEF visited
  <2> QED
    BY <1>1, <1>2, <1>6, <2>13, <2>9, <2>10, <2>11, <2>12, ScanKeeps DEF met
<1> QED
  BY <1>8, <1>9

LEMMA ScanObjKeeps ==
  ASSUME MemoryInv, ScanObj
  PROVE  MemoryInv'
<1> DEFINE h     == gc.scan
           items == [k \in DOMAIN to_[h].values |-> ElemSlot(h, k)]
           met   == gc.done \cup Range(items)
<1>1. /\ Collecting /\ gc.todo = << >> /\ h <= Len(to_)
      /\ gc' = [gc EXCEPT !.scan = @ + 1, !.todo = items]
      /\ UNCHANGED <<from_, to_, capacity, frames, env_, val_, active, strayed>>
  BY DEF ScanObj, Unscanned
<1>2. /\ CollectInv /\ MetInv /\ gc.done \subseteq Slots /\ gc \in Control
      /\ Len(to_) \in Nat /\ DOMAIN to_ = 1..Len(to_) /\ Slots \subseteq Items
  BY <1>1, CollectFacts DEF CollectInv
<1>3. h \in DOMAIN to_ /\ h \in Nat /\ h + 1 \in 1..Len(to_) + 1
  BY <1>1, <1>2 DEF CollectInv
<1>5. /\ gc.visited \subseteq DOMAIN frames /\ Met = gc.done
      /\ gc.phase # "clear" => ValSlot \in Met
      /\ \A g \in DOMAIN frames, n \in Names : VarSlot(g, n) \in Met <=> g \in gc.visited
      /\ \A i \in DOMAIN to_ : \A k \in DOMAIN to_[i].values : ElemSlot(i, k) \in Met <=> i < h
      /\ \A s \in gc.done : \A g \in Range(At(s).env) : g \in gc.visited \/ FrameItem(g) \in Met
  BY <1>1, <1>2 DEF MetInv, Met, Range
<1>6. /\ DOMAIN to_[h].values = 1..Len(to_[h].values) /\ Len(to_[h].values) \in Nat
  <2>1. to_[h] \in ObjectsOver({GC_NULL}, DValuesOver(Nat, DOMAIN frames))
    BY <1>2, <1>3 DEF CollectInv
  <2> QED
    BY <2>1, ObjectFacts
<1> HIDE DEF h
<1>7. \A k \in DOMAIN to_[h].values :
         /\ ElemSlot(h, k) \in Slots /\ ElemSlot(h, k) \notin gc.done
         /\ IsSlot(ElemSlot(h, k)) /\ ElemSlot(h, k) \in Items
  BY <1>2, <1>3, <1>5, SlotsAre, ItemFacts DEF SlotsListed
<1>8. items \in Seq(Items) /\ DOMAIN items = DOMAIN to_[h].values
  BY <1>6, <1>7
<1>9. \A k \in DOMAIN items : items[k] = ElemSlot(h, k)
  BY <1>8
<1> HIDE DEF items
<1>4. /\ gc' \in Control /\ gc'.phase = gc.phase /\ gc'.todo = items /\ gc'.visited = gc.visited
      /\ gc'.scan = h + 1 /\ gc'.reserved = gc.reserved /\ gc'.done = gc.done
  <2>1. gc' = [gc EXCEPT !.scan = @ + 1, !.todo = items] /\ h + 1 \in Nat \ {0} /\ gc.scan = h
    BY <1>1, <1>3 DEF items, h
  <2> QED
    BY <1>2, <1>8, <2>1 DEF Control
<1>10. TodoOver(items, Slots \ gc.done, DOMAIN frames)
  <2>1. \A item \in Range(items) : \E k \in DOMAIN to_[h].values : item = ElemSlot(h, k)
    BY <1>8, <1>9 DEF Range
  <2>2. \A p, q \in DOMAIN items : items[p] = items[q] => p = q
    BY <1>9, ItemFacts
  <2> QED
    BY <1>7, <1>8, <2>1, <2>2 DEF TodoOver
<1>11. \A s : s \in met <=> s \in Met \/ \E k \in DOMAIN to_[h].values : s = ElemSlot(h, k)
  BY <1>5, <1>8, <1>9 DEF Range
<1> HIDE DEF met
<1>12. /\ gc.phase # "clear" => ValSlot \in met
       /\ \A g \in DOMAIN frames, n \in Names : VarSlot(g, n) \in met <=> g \in gc.visited
       /\ \A s \in gc.done : \A g \in Range(At(s).env) : g \in gc.visited \/ FrameItem(g) \in met
  BY <1>5, <1>11, ItemFacts
<1>13. ASSUME NEW i \in DOMAIN to_, NEW k \in DOMAIN to_[i].values
       PROVE  ElemSlot(i, k) \in met <=> i < h + 1
  <2>1. i \in Nat
    BY <1>2
  <2>2. ElemSlot(i, k) \in met <=> i < h \/ i = h
    BY <1>5, <1>11, ItemFacts
  <2> QED
    BY <1>3, <2>1, <2>2
<1> QED
  BY <1>1, <1>2, <1>3, <1>4, <1>5, <1>10, <1>12, <1>13, ScanKeeps DEF met

-----------------------------------------------------------------------------
(* An object is moved, and a slot that names it is redirected *)

LEMMA ValueRetargeted ==
  ASSUME NEW hs, NEW fs, NEW v \in DValuesOver(hs, fs), IsAggregate(v), NEW new \in Nat
  PROVE  /\ [v EXCEPT !.href = new] \in DValuesOver(Nat, fs)
         /\ IsAggregate([v EXCEPT !.href = new])
         /\ [v EXCEPT !.href = new].href = new /\ [v EXCEPT !.href = new].env = v.env
<1>1. v \in [type : {"Array", "Tuple"}, href : hs, env : {<< >>}, inLoop : {FALSE}]
  BY DEF DValuesOver, IsAggregate
<1>2. [v EXCEPT !.href = new] \in [type : {"Array", "Tuple"}, href : Nat, env : {<< >>}, inLoop : {FALSE}]
  BY <1>1
<1> QED
  BY <1>1, <1>2 DEF DValuesOver, IsAggregate

CopiesOver(fs) == ObjectsOver({GC_NULL}, DValuesOver(Nat, fs))

Redirected(objs, h, k, new) == [objs EXCEPT ![h].values[k].href = new]

LEMMA RedirectedFacts ==
  ASSUME NEW fs, NEW objs \in Seq(CopiesOver(fs)), NEW h \in DOMAIN objs,
         NEW k \in DOMAIN objs[h].values, IsAggregate(objs[h].values[k]), NEW new \in Nat
  PROVE  /\ Redirected(objs, h, k, new) \in Seq(CopiesOver(fs))
         /\ DOMAIN Redirected(objs, h, k, new) = DOMAIN objs
         /\ \A g \in DOMAIN objs :
               /\ Redirected(objs, h, k, new)[g].kind = objs[g].kind
               /\ DOMAIN Redirected(objs, h, k, new)[g].values = DOMAIN objs[g].values
               /\ \A j \in DOMAIN objs[g].values :
                     Redirected(objs, h, k, new)[g].values[j] =
                        IF g = h /\ j = k THEN [objs[h].values[k] EXCEPT !.href = new]
                                          ELSE objs[g].values[j]
<1> DEFINE V   == DValuesOver(Nat, fs)
           old == objs[h].values
           v   == [old[k] EXCEPT !.href = new]
           vs  == [old EXCEPT ![k] = v]
           obj == [objs[h] EXCEPT !.values = vs]
           res == Redirected(objs, h, k, new)
<1>1. objs[h] \in ObjectsOver({GC_NULL}, V)
  BY DEF CopiesOver
<1>2. old \in Seq(V) /\ DOMAIN old = 1..Len(old) /\ Len(old) \in Nat /\ old[k] \in V
  BY <1>1, ObjectFacts
<1>3. v \in V
  BY <1>2, ValueRetargeted
<1>4. res = [objs EXCEPT ![h] = obj]
  BY DEF Redirected
<1> HIDE DEF V, v
<1>5. vs \in Seq(V) /\ DOMAIN vs = DOMAIN old /\ vs[k] = v /\ \A j \in DOMAIN old : j # k => vs[j] = old[j]
  <2>1. k \in DOMAIN old
    OBVIOUS
  <2> HIDE DEF old
  <2>2. old \in [1..Len(old) -> V] /\ vs = [old EXCEPT ![k] = v]
    BY <1>2
  <2>3. vs \in [1..Len(old) -> V] /\ vs[k] = v /\ \A j \in DOMAIN old : j # k => vs[j] = old[j]
    BY <1>2, <1>3, <2>1, <2>2
  <2> HIDE DEF vs
  <2> QED
    BY <1>2, <2>3
<1> HIDE DEF vs
<1>6. obj \in ObjectsOver({GC_NULL}, V) /\ obj.values = vs /\ obj.kind = objs[h].kind
  BY <1>1, <1>5 DEF ObjectsOver
<1>7. obj \in CopiesOver(fs)
  BY <1>6 DEF CopiesOver, V
<1> HIDE DEF obj, res
<1>8. res \in Seq(CopiesOver(fs)) /\ DOMAIN res = DOMAIN objs /\ res[h] = obj
      /\ \A g \in DOMAIN objs : g # h => res[g] = objs[g]
  BY <1>4, <1>7
<1>9. ASSUME NEW g \in DOMAIN objs
      PROVE  /\ res[g].kind = objs[g].kind
             /\ DOMAIN res[g].values = DOMAIN objs[g].values
             /\ \A j \in DOMAIN objs[g].values :
                   res[g].values[j] = IF g = h /\ j = k THEN v ELSE objs[g].values[j]
  <2>1. CASE g = h
    BY <1>5, <1>6, <1>8, <2>1
  <2>2. CASE g # h
    BY <1>8, <2>2
  <2> QED
    BY <2>1, <2>2
<1> QED
  BY <1>8, <1>9 DEF res, v

(* evacuate(h): from_ and to_ after it, and the index of the copy. *)
HrefMoved == At(Next1).href
FromMoved == IF MustMove(HrefMoved) THEN Evacuated(HrefMoved) ELSE from_
ToMoved == IF MustMove(HrefMoved) THEN Append(to_, from_[HrefMoved]) ELSE to_
NewHref == IF MustMove(HrefMoved) THEN Len(to_) + 1 ELSE from_[HrefMoved].fwd

ScansAggregate == MemoryInv /\ Scanning /\ IsSlot(Next1) /\ IsAggregate(At(Next1))

LEMMA EvacuateFacts ==
  ASSUME ScansAggregate
  PROVE  /\ HrefMoved \in DOMAIN from_ /\ NewHref \in Nat \ {0}
         /\ ToMoved \in Seq(CopiesOver(DOMAIN frames))
         /\ DOMAIN ToMoved = DOMAIN to_ \cup {NewHref} /\ DOMAIN to_ \subseteq Nat
         /\ Len(ToMoved) \in Nat /\ Len(to_) <= Len(ToMoved) /\ DOMAIN ToMoved = 1..Len(ToMoved)
         /\ \A g \in DOMAIN to_ : ToMoved[g] = to_[g]
         /\ FromMoved \in Seq(ObjectsOver(Nat, DValuesOver(DOMAIN from_, DOMAIN frames)))
         /\ DOMAIN FromMoved = DOMAIN from_ /\ Len(FromMoved) = Len(from_)
         /\ \A i \in DOMAIN from_ : i # HrefMoved => FromMoved[i] = from_[i]
         /\ FromMoved[HrefMoved].fwd = NewHref /\ FromMoved[HrefMoved].values = << >>
         /\ FromMoved[HrefMoved].kind = ToMoved[NewHref].kind
         /\ \A i \in DOMAIN from_ : from_[i].fwd = NewHref => i = HrefMoved
         /\ MustMove(HrefMoved) => /\ ToMoved[NewHref] = from_[HrefMoved]
                                   /\ NewHref \notin DOMAIN to_ /\ NewHref > Len(to_)
         /\ ~MustMove(HrefMoved) => NewHref \in DOMAIN to_
<1> DEFINE h == HrefMoved
           V == DValuesOver(DOMAIN from_, DOMAIN frames)
           O == ObjectsOver(Nat, V)
<1>1. MemoryInv /\ Collecting /\ Next1 \in Slots \ gc.done /\ IsAggregate(At(Next1))
  BY NextFacts DEF ScansAggregate
<1>2. /\ CollectInv /\ MovesInv /\ Len(from_) \in Nat /\ DOMAIN from_ = 1..Len(from_)
      /\ Len(to_) \in Nat /\ DOMAIN to_ = 1..Len(to_)
  BY <1>1, CollectFacts DEF CollectInv
<1>3. h \in DOMAIN from_
  BY <1>1, SlotValues DEF HrefMoved
<1>4. from_ \in Seq(O) /\ to_ \in Seq(CopiesOver(DOMAIN frames))
  BY <1>2 DEF CollectInv, CopiesOver
<1>5. from_[h] \in O
  BY <1>3, <1>4
<1> HIDE DEF h
<1>6. CASE MustMove(h)
  <2>1. from_[h].fwd = GC_NULL
    BY <1>6 DEF MustMove
  <2>2. NewHref = Len(to_) + 1 /\ ToMoved = Append(to_, from_[h]) /\ FromMoved = Evacuated(h)
    BY <1>6 DEF NewHref, ToMoved, FromMoved, h
  <2>3. from_[h] \in CopiesOver(DOMAIN frames)
    <3>1. V \subseteq DValuesOver(Nat, DOMAIN frames)
      BY <1>2, ValuesGrow
    <3> HIDE DEF V
    <3>2. from_[h].values \in Seq(V) /\ from_[h].kind \in {"Array", "Tuple"}
      BY <1>5, ObjectFacts
    <3>3. from_[h].values \in Seq(DValuesOver(Nat, DOMAIN frames))
      BY <3>1, <3>2, SequencesGrow
    <3> QED
      BY <1>5, <2>1, <3>3 DEF CopiesOver, ObjectsOver
  <2>4. /\ ToMoved \in Seq(CopiesOver(DOMAIN frames)) /\ Len(ToMoved) = Len(to_) + 1
        /\ ToMoved[NewHref] = from_[h] /\ \A g \in DOMAIN to_ : ToMoved[g] = to_[g]
    BY <1>2, <1>4, <2>2, <2>3
  <2>5. Hollow(h) \in O /\ Hollow(h).fwd = NewHref /\ Hollow(h).values = << >> /\ Hollow(h).kind = from_[h].kind
    <3> DEFINE obj == from_[h]
               l   == Len(to_) + 1
    <3>1. obj \in [kind : {"Array", "Tuple"}, fwd : Nat, values : Seq(V)] /\ l \in Nat /\ NewHref = l
      BY <1>2, <1>5, <2>2 DEF ObjectsOver
    <3>2. Hollow(h) = [obj EXCEPT !.fwd = l, !.values = << >>]
      BY DEF Hollow
    <3> HIDE DEF V, obj, l
    <3>5. << >> \in Seq(V)
      OBVIOUS
    <3>3. Hollow(h) \in [kind : {"Array", "Tuple"}, fwd : Nat, values : Seq(V)]
      <4> DEFINE none == << >>
      <4>1. none \in Seq(V) /\ Hollow(h) = [obj EXCEPT !.fwd = l, !.values = none]
        BY <3>2, <3>5
      <4> HIDE DEF none
      <4> QED
        BY <3>1, <4>1
    <3>4. Hollow(h).fwd = l /\ Hollow(h).values = << >> /\ Hollow(h).kind = obj.kind
      BY <3>1, <3>2
    <3> QED
      BY <3>1, <3>3, <3>4 DEF obj, ObjectsOver
  <2>6. FromMoved = [from_ EXCEPT ![h] = Hollow(h)]
    BY <2>2 DEF Evacuated
  <2> HIDE DEF O
  <2>7. /\ FromMoved \in Seq(O) /\ DOMAIN FromMoved = DOMAIN from_ /\ Len(FromMoved) = Len(from_)
        /\ \A i \in DOMAIN from_ : i # h => FromMoved[i] = from_[i]
        /\ FromMoved[h] = Hollow(h)
    BY <1>3, <1>4, <2>5, <2>6
  <2>8. \A i \in DOMAIN from_ : from_[i].fwd # NewHref
    BY <1>2, <2>2 DEF MovesInv, GC_NULL
  <2>9. /\ DOMAIN ToMoved = 1..Len(to_) + 1 /\ DOMAIN ToMoved = DOMAIN to_ \cup {NewHref}
        /\ NewHref \notin DOMAIN to_ /\ NewHref > Len(to_) /\ NewHref \in Nat \ {0}
    BY <1>2, <2>2, <2>4
  <2>10. /\ FromMoved[h].fwd = NewHref /\ FromMoved[h].values = << >>
         /\ FromMoved[h].kind = ToMoved[NewHref].kind
    BY <2>4, <2>5, <2>7
  <2>11. Len(ToMoved) \in Nat /\ Len(to_) <= Len(ToMoved) /\ DOMAIN ToMoved = 1..Len(ToMoved)
    BY <1>2, <2>4, <2>9
  <2> HIDE DEF V
  <2> QED
    BY <1>3, <1>6, <2>4, <2>7, <2>8, <2>9, <2>10, <2>11 DEF h, O, V
<1>7. CASE ~MustMove(h)
  <2>1. from_[h].fwd # GC_NULL
    BY <1>7 DEF MustMove
  <2>2. NewHref = from_[h].fwd /\ ToMoved = to_ /\ FromMoved = from_
    BY <1>7 DEF NewHref, ToMoved, FromMoved, h
  <2>3. /\ NewHref \in DOMAIN to_ /\ from_[h].values = << >> /\ to_[NewHref].kind = from_[h].kind
        /\ \A i \in DOMAIN from_ : from_[i].fwd = NewHref => i = h
    BY <1>2, <1>3, <2>1, <2>2 DEF MovesInv
  <2>4. NewHref \in Nat \ {0}
    BY <1>2, <2>3
  <2> HIDE DEF O
  <2> QED
    BY <1>2, <1>3, <1>4, <1>7, <2>2, <2>3, <2>4 DEF h, O
<1> QED
  BY <1>6, <1>7

(* What the step does to the heap. *)
LEMMA RedirectFacts ==
  ASSUME ScansAggregate, ScanAggregate
  PROVE  /\ from_' = FromMoved
         /\ to_' \in Seq(CopiesOver(DOMAIN frames)) /\ DOMAIN to_' = DOMAIN ToMoved
         /\ frames' \in FramesOver(DOMAIN frames, DValuesOver(Nat, DOMAIN frames))
         /\ DOMAIN frames' = DOMAIN frames
         /\ val_' \in DValuesOver(Nat, DOMAIN frames)
         /\ \A g \in DOMAIN ToMoved : /\ to_'[g].kind = ToMoved[g].kind
                                      /\ DOMAIN to_'[g].values = DOMAIN ToMoved[g].values
         /\ \A s \in Slots : At(s)' = IF s = Next1 THEN [At(s) EXCEPT !.href = NewHref] ELSE At(s)
         /\ \A g \in DOMAIN ToMoved \ DOMAIN to_ : \A k \in DOMAIN ToMoved[g].values :
               At(ElemSlot(g, k))' = ToMoved[g].values[k]
         /\ ValSlot # Next1 => val_' = val_
<1> DEFINE t == Next1
           V == DValuesOver(Nat, DOMAIN frames)
           D == DOMAIN frames
<1>1. MemoryInv /\ Collecting /\ t \in Slots /\ IsAggregate(At(t)) /\ CollectInv
  BY NextFacts, CollectFacts DEF ScansAggregate
<1>2. /\ from_' = FromMoved
      /\ to_' = IF t[1] = "elem" THEN Redirected(ToMoved, t[2], t[3], NewHref) ELSE ToMoved
      /\ frames' = IF t[1] = "var" THEN [frames EXCEPT ![t[2]][t[3]].href = NewHref] ELSE frames
      /\ val_' = IF t[1] = "val" THEN [val_ EXCEPT !.href = NewHref] ELSE val_
  BY DEF ScanAggregate, FromMoved, ToMoved, HrefMoved, NewHref, Redirected
<1>3. /\ ToMoved \in Seq(CopiesOver(D)) /\ NewHref \in Nat
      /\ \A g \in DOMAIN to_ : ToMoved[g] = to_[g] /\ g \in DOMAIN ToMoved
  BY EvacuateFacts
<1>4. frames \in FramesOver(D, V) /\ val_ \in V
  BY <1>1 DEF CollectInv
<1>5. SlotsListed /\ Placed /\ Placed'
  BY SlotsAre, SlotsPlaced, PTL
<1>6. [At(t) EXCEPT !.href = NewHref] \in V
  BY <1>1, <1>3, SlotValues, ValueRetargeted
<1> HIDE DEF V, t
<1>7. CASE t = ValSlot
  <2>1. t[1] = "val"
    BY <1>7 DEF ValSlot
  <2>2. to_' = ToMoved /\ frames' = frames /\ val_' = [At(t) EXCEPT !.href = NewHref]
    BY <1>2, <1>5, <1>7, <2>1 DEF Placed
  <2>3. ASSUME NEW s \in Slots
        PROVE  At(s)' = IF s = t THEN [At(s) EXCEPT !.href = NewHref] ELSE At(s)
    <3>1. CASE s = ValSlot
      BY <1>5, <1>7, <2>2, <3>1 DEF Placed
    <3>2. ASSUME NEW f \in DOMAIN frames, NEW n \in Names, s = VarSlot(f, n) PROVE At(s)' = At(s) /\ s # t
      BY <1>5, <1>7, <2>2, <3>2, ItemFacts DEF Placed
    <3>3. ASSUME NEW h \in DOMAIN to_, NEW k \in DOMAIN to_[h].values, s = ElemSlot(h, k)
          PROVE  At(s)' = At(s) /\ s # t
      BY <1>3, <1>5, <1>7, <2>2, <3>3, ItemFacts DEF Placed
    <3> QED
      BY <1>5, <3>1, <3>2, <3>3 DEF SlotsListed
  <2>4. \A g, k : At(ElemSlot(g, k))' = ToMoved[g].values[k]
    BY <1>5, <2>2 DEF Placed
  <2> QED
    BY <1>2, <1>3, <1>4, <1>6, <1>7, <2>2, <2>3, <2>4 DEF t, V
<1>8. ASSUME NEW f \in DOMAIN frames, NEW n \in Names, t = VarSlot(f, n)
      PROVE  /\ to_' = ToMoved /\ val_' = val_ /\ frames' \in FramesOver(D, V) /\ DOMAIN frames' = D
             /\ \A s \in Slots : At(s)' = IF s = t THEN [At(s) EXCEPT !.href = NewHref] ELSE At(s)
  <2>1. t[1] = "var" /\ t[2] = f /\ t[3] = n
    BY <1>8 DEF VarSlot
  <2>2. /\ to_' = ToMoved /\ val_' = val_
        /\ frames' = [frames EXCEPT ![f][n].href = NewHref]
    BY <1>2, <2>1
  <2>3. At(t) = frames[f][n]
    BY <1>5, <1>8 DEF Placed
  <2>4. frames' = [frames EXCEPT ![f] = [frames[f] EXCEPT ![n] = [At(t) EXCEPT !.href = NewHref]]]
    BY <2>2, <2>3
  <2>5. frames[f] \in [Names -> V] /\ [frames[f] EXCEPT ![n] = [At(t) EXCEPT !.href = NewHref]] \in [Names -> V]
    BY <1>4, <1>6 DEF FramesOver
  <2>6. frames' \in FramesOver(D, V) /\ DOMAIN frames' = D
    BY <1>4, <2>4, <2>5 DEF FramesOver
  <2>7. \A g \in D, m \in Names :
           frames'[g][m] = IF g = f /\ m = n THEN [At(t) EXCEPT !.href = NewHref] ELSE frames[g][m]
    BY <1>4, <2>4, <2>5 DEF FramesOver
  <2>8. ASSUME NEW s \in Slots
        PROVE  At(s)' = IF s = t THEN [At(s) EXCEPT !.href = NewHref] ELSE At(s)
    <3>1. CASE s = ValSlot
      BY <1>5, <1>8, <2>2, <3>1, ItemFacts DEF Placed
    <3>2. ASSUME NEW g \in DOMAIN frames, NEW m \in Names, s = VarSlot(g, m)
          PROVE  At(s)' = IF s = t THEN [At(s) EXCEPT !.href = NewHref] ELSE At(s)
      <4>1. At(s)' = frames'[g][m] /\ At(s) = frames[g][m] /\ (s = t <=> g = f /\ m = n)
        BY <1>5, <1>8, <3>2, ItemFacts DEF Placed
      <4> QED
        BY <2>7, <4>1
    <3>3. ASSUME NEW h \in DOMAIN to_, NEW k \in DOMAIN to_[h].values, s = ElemSlot(h, k)
          PROVE  At(s)' = At(s) /\ s # t
      BY <1>3, <1>5, <1>8, <2>2, <3>3, ItemFacts DEF Placed
    <3> QED
      BY <1>5, <3>1, <3>2, <3>3 DEF SlotsListed
  <2> QED
    BY <2>2, <2>6, <2>8
<1>9. ASSUME NEW g \in DOMAIN to_, NEW k \in DOMAIN to_[g].values, t = ElemSlot(g, k)
      PROVE  /\ to_' \in Seq(CopiesOver(D)) /\ DOMAIN to_' = DOMAIN ToMoved
             /\ frames' = frames /\ val_' = val_
             /\ \A h \in DOMAIN ToMoved : /\ to_'[h].kind = ToMoved[h].kind
                                          /\ DOMAIN to_'[h].values = DOMAIN ToMoved[h].values
             /\ \A s \in Slots : At(s)' = IF s = t THEN [At(s) EXCEPT !.href = NewHref] ELSE At(s)
             /\ \A h \in DOMAIN ToMoved \ DOMAIN to_ : \A j \in DOMAIN ToMoved[h].values :
                   to_'[h].values[j] = ToMoved[h].values[j]
  <2>1. t[1] = "elem" /\ t[2] = g /\ t[3] = k
    BY <1>9 DEF ElemSlot
  <2>2. to_' = Redirected(ToMoved, g, k, NewHref) /\ frames' = frames /\ val_' = val_
    BY <1>2, <2>1
  <2>3. /\ g \in DOMAIN ToMoved /\ k \in DOMAIN ToMoved[g].values /\ ToMoved[g].values[k] = At(t)
        /\ IsAggregate(ToMoved[g].values[k])
    BY <1>1, <1>3, <1>5, <1>9 DEF Placed
  <2>4. /\ to_' \in Seq(CopiesOver(D)) /\ DOMAIN to_' = DOMAIN ToMoved
        /\ \A h \in DOMAIN ToMoved :
              /\ to_'[h].kind = ToMoved[h].kind
              /\ DOMAIN to_'[h].values = DOMAIN ToMoved[h].values
              /\ \A j \in DOMAIN ToMoved[h].values :
                    to_'[h].values[j] = IF h = g /\ j = k THEN [ToMoved[g].values[k] EXCEPT !.href = NewHref]
                                                          ELSE ToMoved[h].values[j]
    BY <1>3, <2>2, <2>3, RedirectedFacts
  <2>5. ASSUME NEW s \in Slots
        PROVE  At(s)' = IF s = t THEN [At(s) EXCEPT !.href = NewHref] ELSE At(s)
    <3>1. CASE s = ValSlot
      BY <1>5, <1>9, <2>2, <3>1, ItemFacts DEF Placed
    <3>2. ASSUME NEW f \in DOMAIN frames, NEW n \in Names, s = VarSlot(f, n) PROVE At(s)' = At(s) /\ s # t
      BY <1>5, <1>9, <2>2, <3>2, ItemFacts DEF Placed
    <3>3. ASSUME NEW h \in DOMAIN to_, NEW j \in DOMAIN to_[h].values, s = ElemSlot(h, j)
          PROVE  At(s)' = IF s = t THEN [At(s) EXCEPT !.href = NewHref] ELSE At(s)
      <4>1. At(s)' = to_'[h].values[j] /\ At(s) = to_[h].values[j] /\ (s = t <=> h = g /\ j = k)
        BY <1>5, <1>9, <3>3, ItemFacts DEF Placed
      <4>2. h \in DOMAIN ToMoved /\ ToMoved[h] = to_[h]
        BY <1>3
      <4> QED
        BY <2>3, <2>4, <4>1, <4>2
    <3> QED
      BY <1>5, <3>1, <3>2, <3>3 DEF SlotsListed
  <2>6. \A h \in DOMAIN ToMoved \ DOMAIN to_ : \A j \in DOMAIN ToMoved[h].values :
           to_'[h].values[j] = ToMoved[h].values[j]
    BY <2>4
  <2> QED
    BY <2>2, <2>4, <2>5, <2>6
<1>10. \A g, k : At(ElemSlot(g, k))' = to_'[g].values[k]
  BY <1>5 DEF Placed
<1> DEFINE Goal ==
  /\ from_' = FromMoved
  /\ to_' \in Seq(CopiesOver(D)) /\ DOMAIN to_' = DOMAIN ToMoved
  /\ frames' \in FramesOver(D, V)
  /\ DOMAIN frames' = D
  /\ val_' \in V
  /\ \A g \in DOMAIN ToMoved : /\ to_'[g].kind = ToMoved[g].kind
                               /\ DOMAIN to_'[g].values = DOMAIN ToMoved[g].values
  /\ \A s \in Slots : At(s)' = IF s = t THEN [At(s) EXCEPT !.href = NewHref] ELSE At(s)
  /\ \A g \in DOMAIN ToMoved \ DOMAIN to_ : \A k \in DOMAIN ToMoved[g].values :
        At(ElemSlot(g, k))' = ToMoved[g].values[k]
  /\ ValSlot # t => val_' = val_
<1>11. CASE \E f \in DOMAIN frames, n \in Names : t = VarSlot(f, n)
  <2>1. PICK f \in DOMAIN frames, n \in Names : t = VarSlot(f, n)
    BY <1>11
  <2>2. /\ to_' = ToMoved /\ val_' = val_ /\ frames' \in FramesOver(D, V) /\ DOMAIN frames' = D
        /\ \A s \in Slots : At(s)' = IF s = t THEN [At(s) EXCEPT !.href = NewHref] ELSE At(s)
    BY <1>8, <2>1
  <2>3. Goal
    BY <1>2, <1>3, <1>4, <1>10, <2>2
  <2> QED
    BY <2>3 DEF t, V
<1>12. CASE \E g \in DOMAIN to_ : \E k \in DOMAIN to_[g].values : t = ElemSlot(g, k)
  <2>1. PICK g \in DOMAIN to_ : \E k \in DOMAIN to_[g].values : t = ElemSlot(g, k)
    BY <1>12
  <2>2. PICK k \in DOMAIN to_[g].values : t = ElemSlot(g, k)
    BY <2>1
  <2>3. /\ to_' \in Seq(CopiesOver(D)) /\ DOMAIN to_' = DOMAIN ToMoved
        /\ frames' = frames /\ val_' = val_
        /\ \A h \in DOMAIN ToMoved : /\ to_'[h].kind = ToMoved[h].kind
                                     /\ DOMAIN to_'[h].values = DOMAIN ToMoved[h].values
        /\ \A s \in Slots : At(s)' = IF s = t THEN [At(s) EXCEPT !.href = NewHref] ELSE At(s)
        /\ \A h \in DOMAIN ToMoved \ DOMAIN to_ : \A j \in DOMAIN ToMoved[h].values :
              to_'[h].values[j] = ToMoved[h].values[j]
    BY <1>9, <2>2
  <2>5. \A h \in DOMAIN ToMoved \ DOMAIN to_ : \A j \in DOMAIN ToMoved[h].values :
           At(ElemSlot(h, j))' = ToMoved[h].values[j]
    BY <1>10, <2>3
  <2>4. Goal
    BY <1>2, <1>4, <2>3, <2>5
  <2> QED
    BY <2>4 DEF t, V
<1> QED
  BY <1>1, <1>5, <1>7, <1>11, <1>12 DEF SlotsListed

LEMMA ScanAggregateKeeps ==
  ASSUME MemoryInv, ScanAggregate
  PROVE  MemoryInv'
<1>0. PICK t : t = Next1
  OBVIOUS
<1> DEFINE h    == HrefMoved
           new  == NewHref
           rest == Tail(gc.todo)
           done == gc.done \cup {t}
           D    == DOMAIN frames
<1>1. /\ ScansAggregate /\ Scanning /\ IsSlot(t) /\ IsAggregate(At(t)) /\ gc' = Popped
      /\ UNCHANGED <<capacity, env_, active, strayed>>
  BY <1>0 DEF ScanAggregate, ScansAggregate
<1>2. /\ Collecting /\ CollectInv /\ MetInv /\ MovesInv /\ EnvInv /\ gc \in Control
      /\ gc.phase \in {"collect", "clear"} /\ gc.done \subseteq Slots /\ D \subseteq FrameNumbers
      /\ env_ \in Seq(D) /\ capacity \in Nat /\ Len(from_) <= capacity
      /\ Len(from_) \in Nat /\ DOMAIN from_ = 1..Len(from_)
      /\ Len(to_) \in Nat /\ DOMAIN to_ = 1..Len(to_)
  BY <1>1, CollectFacts DEF Scanning, CollectInv
<1>3. /\ t \in Slots \ gc.done /\ Range(gc.todo) = {t} \cup Range(rest) /\ t \in Items
      /\ TodoOver(rest, Slots \ done, D)
  BY <1>0, <1>1, NextFacts
<1>4. /\ h \in DOMAIN from_ /\ new \in Nat \ {0}
      /\ DOMAIN ToMoved = DOMAIN to_ \cup {new}
      /\ Len(ToMoved) \in Nat /\ Len(to_) <= Len(ToMoved) /\ DOMAIN ToMoved = 1..Len(ToMoved)
      /\ \A g \in DOMAIN to_ : ToMoved[g] = to_[g]
      /\ FromMoved \in Seq(ObjectsOver(Nat, DValuesOver(DOMAIN from_, D)))
      /\ DOMAIN FromMoved = DOMAIN from_ /\ Len(FromMoved) = Len(from_)
      /\ \A i \in DOMAIN from_ : i # h => FromMoved[i] = from_[i]
      /\ FromMoved[h].fwd = new /\ FromMoved[h].values = << >>
      /\ FromMoved[h].kind = ToMoved[new].kind
      /\ \A i \in DOMAIN from_ : from_[i].fwd = new => i = h
      /\ MustMove(h) => /\ ToMoved[new] = from_[h]
                        /\ new \notin DOMAIN to_ /\ new > Len(to_)
      /\ ~MustMove(h) => new \in DOMAIN to_
  BY <1>1, EvacuateFacts
<1>5. /\ from_' = FromMoved
      /\ to_' \in Seq(CopiesOver(D)) /\ DOMAIN to_' = DOMAIN ToMoved
      /\ frames' \in FramesOver(D, DValuesOver(Nat, D))
      /\ DOMAIN frames' = D
      /\ val_' \in DValuesOver(Nat, D)
      /\ \A g \in DOMAIN ToMoved : /\ to_'[g].kind = ToMoved[g].kind
                                   /\ DOMAIN to_'[g].values = DOMAIN ToMoved[g].values
      /\ \A s \in Slots : At(s)' = IF s = t THEN [At(s) EXCEPT !.href = new] ELSE At(s)
      /\ \A g \in DOMAIN ToMoved \ DOMAIN to_ : \A k \in DOMAIN ToMoved[g].values :
            At(ElemSlot(g, k))' = ToMoved[g].values[k]
      /\ ValSlot # t => val_' = val_
  BY <1>0, <1>1, RedirectFacts
<1>6. SlotsListed /\ Placed /\ SlotsListed'
  BY SlotsAre, SlotsPlaced, PTL
<1>7. \A s \in Slots : /\ At(s) \in DValuesOver(Nat, D)
                       /\ IsAggregate(At(s)) => At(s).href \in IF s \in gc.done THEN DOMAIN to_ ELSE DOMAIN from_
  BY <1>2, SlotValues
<1>8. from_[h] \in ObjectsOver(Nat, DValuesOver(DOMAIN from_, D))
  BY <1>2, <1>4 DEF CollectInv
<1>9. Slots \subseteq Slots'
  <2>1. \A g \in DOMAIN to_ : g \in DOMAIN to_' /\ DOMAIN to_'[g].values = DOMAIN to_[g].values
    BY <1>4, <1>5
  <2> QED
    BY <1>5, <1>6, <2>1 DEF SlotsListed
<1>10. ASSUME NEW s \in Slots', s \notin Slots
       PROVE  /\ MustMove(h) /\ \E k \in DOMAIN from_[h].values :
                                   s = ElemSlot(new, k) /\ At(s)' = from_[h].values[k]
              /\ s \notin Met
  <2>1. PICK g \in DOMAIN to_' : \E k \in DOMAIN to_'[g].values : s = ElemSlot(g, k)
    BY <1>5, <1>6, <1>10 DEF SlotsListed
  <2>2. PICK k \in DOMAIN to_'[g].values : s = ElemSlot(g, k)
    BY <2>1
  <2>3. g \notin DOMAIN to_
    BY <1>4, <1>5, <1>6, <1>10, <2>2 DEF SlotsListed
  <2>4. g = new /\ MustMove(h) /\ k \in DOMAIN from_[h].values
    BY <1>4, <1>5, <2>2, <2>3
  <2>5. At(s)' = from_[h].values[k]
    BY <1>4, <1>5, <2>2, <2>3, <2>4
  <2>6. s \notin Range(gc.todo)
    <3>1. IsSlot(s)
      BY <2>2, ItemFacts
    <3>2. \A item \in Range(rest) : IsSlot(item) => item \in Slots
      BY <1>3 DEF TodoOver
    <3> QED
      BY <1>3, <1>10, <3>1, <3>2
  <2> QED
    BY <1>2, <1>10, <2>2, <2>4, <2>5, <2>6 DEF Met
<1>11. /\ gc' \in Control /\ gc'.phase = gc.phase /\ gc'.todo = rest /\ gc'.visited = gc.visited
       /\ gc'.scan = gc.scan /\ gc'.reserved = gc.reserved /\ gc'.done = done
  <2> DEFINE g == gc
             g2 == gc'
  <2>1. g \in Control /\ t \in Items /\ Tail(g.todo) \in Seq(Items)
    BY <1>2, <1>3 DEF TodoOver
  <2>2. g2 = [g EXCEPT !.todo = Tail(@), !.done = @ \cup {t}]
    BY <1>0, <1>1 DEF Popped
  <2> HIDE DEF g, g2
  <2>3. /\ g2 \in Control /\ g2.phase = g.phase /\ g2.todo = Tail(g.todo) /\ g2.visited = g.visited
        /\ g2.scan = g.scan /\ g2.reserved = g.reserved /\ g2.done = g.done \cup {t}
    BY <2>1, <2>2 DEF Control
  <2> QED
    BY <1>2, <2>3 DEF g, g2
<1> HIDE DEF h, new, rest
<1>12. ASSUME NEW s \in Slots', IsAggregate(At(s)')
       PROVE  At(s)'.href \in IF s \in done THEN DOMAIN to_' ELSE DOMAIN from_'
  <2>1. CASE s = t
    <3>1. At(t) \in DValuesOver(Nat, D) /\ At(t)' = [At(t) EXCEPT !.href = new] /\ new \in Nat
      BY <1>3, <1>4, <1>5, <1>7
    <3>2. At(t)'.href = new
      BY <1>1, <3>1, ValueRetargeted
    <3> QED
      BY <1>4, <1>5, <2>1, <3>2
  <2>2. CASE s \in Slots /\ s # t
    <3>1. At(s)' = At(s) /\ (s \in done <=> s \in gc.done)
      BY <1>5, <2>2
    <3> QED
      BY <1>4, <1>5, <1>7, <1>12, <2>2, <3>1
  <2>3. CASE s \notin Slots
    <3>1. PICK k \in DOMAIN from_[h].values : At(s)' = from_[h].values[k]
      BY <1>10, <2>3
    <3>2. At(s)' \in DValuesOver(DOMAIN from_, D)
      BY <1>8, <3>1, ObjectFacts
    <3>3. s \notin done
      BY <1>2, <1>3, <2>3
    <3> QED
      BY <1>4, <1>5, <1>12, <3>2, <3>3, ValueFacts
  <2> QED
    BY <2>1, <2>2, <2>3
<1>13. MovesInv'
  <2>1. ASSUME NEW i \in DOMAIN from_', from_'[i].fwd # GC_NULL
        PROVE  /\ from_'[i].fwd \in DOMAIN to_' /\ from_'[i].values = << >>
               /\ to_'[from_'[i].fwd].kind = from_'[i].kind
    <3>1. CASE i = h
      BY <1>4, <1>5, <3>1
    <3>2. CASE i # h
      <4>1. from_'[i] = from_[i] /\ i \in DOMAIN from_
        BY <1>4, <1>5, <3>2
      <4>2. /\ from_[i].fwd \in DOMAIN to_ /\ from_[i].values = << >>
            /\ to_[from_[i].fwd].kind = from_[i].kind
        BY <1>2, <2>1, <4>1 DEF MovesInv
      <4> QED
        BY <1>4, <1>5, <4>1, <4>2
    <3> QED
      BY <3>1, <3>2
  <2>2. ASSUME NEW i \in DOMAIN from_', NEW j \in DOMAIN from_',
               from_'[i].fwd = from_'[j].fwd, from_'[i].fwd # GC_NULL
        PROVE  i = j
    <3>1. CASE i = h \/ j = h
      BY <1>4, <1>5, <2>2, <3>1
    <3>2. CASE i # h /\ j # h
      BY <1>2, <1>4, <1>5, <2>2, <3>2 DEF MovesInv
    <3> QED
      BY <3>1, <3>2
  <2>3. ASSUME NEW g \in DOMAIN to_' PROVE \E i \in DOMAIN from_' : from_'[i].fwd = g
    <3>1. CASE g = new
      BY <1>4, <1>5, <3>1
    <3>2. CASE g # new
      <4>1. g \in DOMAIN to_ /\ g # GC_NULL
        BY <1>2, <1>4, <1>5, <3>2 DEF GC_NULL
      <4>2. PICK i \in DOMAIN from_ : from_[i].fwd = g
        BY <1>2, <4>1 DEF MovesInv
      <4>3. i # h
        BY <3>2, <4>1, <4>2 DEF new, NewHref, MustMove, h
      <4> QED
        BY <1>4, <1>5, <4>2, <4>3
    <3> QED
      BY <3>1, <3>2
  <2> QED
    BY <2>1, <2>2, <2>3 DEF MovesInv
<1>14. TodoInv'
  <2>1. \A p \in DOMAIN rest : rest[p] \in Range(rest)
    BY DEF Range
  <2>2. \A p \in DOMAIN rest :
           IF IsSlot(rest[p]) THEN rest[p] \in Slots' \ done ELSE \E f \in D : rest[p] = FrameItem(f)
    BY <1>3, <1>9, <2>1 DEF TodoOver
  <2>3. \A p, q \in DOMAIN rest : rest[p] = rest[q] /\ IsSlot(rest[p]) => p = q
    BY <1>3 DEF TodoOver
  <2>4. done \subseteq Slots'
    BY <1>2, <1>3, <1>9
  <2> QED
    BY <1>5, <1>11, <2>2, <2>3, <2>4 DEF TodoInv
<1>15. MetInv'
  <2>1. Met' = Met
    BY <1>3, <1>11 DEF Met
  <2>2. IF gc'.phase = "clear" THEN val_' = None ELSE ValSlot \in Met'
    <3>1. CASE gc.phase = "clear"
      <4>1. val_ = None
        BY <1>2, <3>1 DEF MetInv
      <4>2. ValSlot # t
        BY <1>1, <1>6, <4>1 DEF Placed, IsAggregate, None, DValue
      <4> QED
        BY <1>1, <1>5, <1>11, <3>1, <4>1, <4>2
    <3>2. CASE gc.phase # "clear"
      BY <1>1, <1>2, <1>11, <2>1, <3>2 DEF MetInv
    <3> QED
      BY <3>1, <3>2
  <2>3. \A f \in DOMAIN frames', n \in Names : VarSlot(f, n) \in Met' <=> f \in gc'.visited
    BY <1>2, <1>5, <1>11, <2>1 DEF MetInv
  <2>4. ASSUME NEW g \in DOMAIN to_', NEW k \in DOMAIN to_'[g].values
        PROVE  ElemSlot(g, k) \in Met' <=> g < gc'.scan
    <3>1. CASE g \in DOMAIN to_
      BY <1>2, <1>4, <1>5, <1>11, <2>1, <3>1 DEF MetInv
    <3>2. CASE g \notin DOMAIN to_
      <4>1. g = new /\ new > Len(to_)
        BY <1>4, <1>5, <3>2
      <4>2. gc.scan \in Nat /\ gc.scan <= Len(to_) + 1
        BY <1>2 DEF CollectInv
      <4>3. ~(g < gc'.scan)
        BY <1>2, <1>4, <1>11, <4>1, <4>2
      <4>4. ElemSlot(g, k) \in Slots' /\ ElemSlot(g, k) \notin Slots
        BY <1>6, <3>2, ItemFacts DEF SlotsListed
      <4> QED
        BY <1>10, <2>1, <4>3, <4>4
    <3> QED
      BY <3>1, <3>2
  <2>5. Range(env_') \subseteq gc'.visited /\ gc'.visited \subseteq DOMAIN frames'
    BY <1>1, <1>2, <1>5, <1>11 DEF MetInv
  <2>6. ASSUME NEW s \in gc'.done, NEW f \in Range(At(s)'.env)
        PROVE  f \in gc'.visited \/ FrameItem(f) \in Met'
    <3>1. CASE s = t
      <4>1. At(t) \in DValuesOver(Nat, D) /\ At(t)' = [At(t) EXCEPT !.href = new] /\ new \in Nat
        BY <1>3, <1>4, <1>5, <1>7
      <4>2. At(t)'.env = At(t).env
        BY <1>1, <4>1, ValueRetargeted
      <4>3. At(t).env = << >>
        BY <1>1, <4>1, ValueFacts DEF IsAggregate
      <4> QED
        BY <2>6, <3>1, <4>2, <4>3 DEF Range
    <3>2. CASE s # t
      <4>1. s \in gc.done /\ At(s)' = At(s)
        BY <1>2, <1>5, <1>11, <3>2
      <4> QED
        BY <1>2, <1>11, <2>1, <2>6, <4>1 DEF MetInv
    <3> QED
      BY <3>1, <3>2
  <2> QED
    BY <2>2, <2>3, <2>4, <2>5, <2>6 DEF MetInv
<1>16. CollectInv'
  <2>1. /\ from_' \in Seq(ObjectsOver(Nat, DValuesOver(DOMAIN from_', DOMAIN frames')))
        /\ to_' \in Seq(ObjectsOver({GC_NULL}, DValuesOver(Nat, DOMAIN frames')))
        /\ frames' \in FramesOver(DOMAIN frames', DValuesOver(Nat, DOMAIN frames'))
        /\ val_' \in DValuesOver(Nat, DOMAIN frames')
    BY <1>4, <1>5 DEF CopiesOver
  <2>2. active' = << >> /\ gc'.reserved = Len(from_')
    BY <1>1, <1>2, <1>4, <1>5, <1>11 DEF CollectInv
  <2>3. gc'.scan \in 1..Len(to_') + 1
    <3>1. Len(to_') = Len(ToMoved)
      BY <1>4, <1>5
    <3> QED
      BY <1>2, <1>4, <1>11, <3>1 DEF CollectInv
  <2> QED
    BY <1>11, <1>12, <1>13, <1>14, <1>15, <2>1, <2>2, <2>3 DEF CollectInv
<1>17. EnvInv' /\ Collecting'
  BY <1>1, <1>2, <1>11 DEF EnvInv, Calls, EnvFits, CallsIn, Collecting
<1>18. /\ DOMAIN frames' \subseteq FrameNumbers /\ env_' \in Seq(DOMAIN frames')
       /\ capacity' \in Nat /\ Len(from_') <= capacity'
  BY <1>1, <1>2, <1>4, <1>5
<1>19. strayed' \in BOOLEAN
  BY <1>1 DEF MemoryInv
<1> QED
  BY <1>11, <1>16, <1>17, <1>18, <1>19 DEF MemoryInv

-----------------------------------------------------------------------------
(* The end of a collection *)

(* There are no more copies than objects. *)
LEMMA CopiesFit ==
  ASSUME MemoryInv, Collecting
  PROVE  Len(to_) <= gc.reserved
<1> DEFINE from == [h \in DOMAIN to_ |-> CHOOSE i \in DOMAIN from_ : from_[i].fwd = h]
<1>1. /\ CollectInv /\ MovesInv /\ Len(from_) \in Nat /\ DOMAIN from_ = 1..Len(from_)
      /\ Len(to_) \in Nat /\ DOMAIN to_ = 1..Len(to_)
  BY CollectFacts DEF CollectInv
<1>2. \A h \in DOMAIN to_ : from[h] \in DOMAIN from_ /\ from_[from[h]].fwd = h
  BY <1>1 DEF MovesInv
<1>3. from \in Injection(DOMAIN to_, DOMAIN from_)
  BY <1>2 DEF Injection, IsInjective
<1>4. Cardinality(DOMAIN to_) <= Cardinality(DOMAIN from_)
  <2>1. IsFiniteSet(DOMAIN from_)
    BY <1>1, FS_Interval
  <2> DEFINE S == DOMAIN to_
             T == DOMAIN from_
  <2>2. from \in Injection(S, T) /\ IsFiniteSet(T)
    BY <1>3, <2>1
  <2> HIDE DEF from, S, T
  <2>3. Cardinality(S) <= Cardinality(T)
    BY <2>2, FS_Injection
  <2> QED
    BY <2>3 DEF S, T
<1>5. Cardinality(DOMAIN to_) = Len(to_) /\ Cardinality(DOMAIN from_) = Len(from_)
  <2>1. ASSUME NEW n \in Nat PROVE Cardinality(1..n) = n
    <3>1. Cardinality(1..n) = IF 1 > n THEN 0 ELSE n - 1 + 1
      BY FS_Interval
    <3> QED
      BY <3>1
  <2> QED
    BY <1>1, <2>1
<1> QED
  BY <1>1, <1>4, <1>5 DEF CollectInv

(* When nothing is left to scan, what the frames that were visited, the    *)
(* copies and val_ hold has been scanned: it is over copies, and frames    *)
(* that were visited. *)
ScanIsOver == MemoryInv /\ Collecting /\ gc.todo = << >> /\ ~Unscanned

LEMMA AllScanned ==
  ASSUME ScanIsOver
  PROVE  /\ \A f \in gc.visited, n \in Names : VarSlot(f, n) \in gc.done
         /\ \A h \in DOMAIN to_ : \A k \in DOMAIN to_[h].values : ElemSlot(h, k) \in gc.done
         /\ gc.phase # "clear" => ValSlot \in gc.done
         /\ \A s \in gc.done : At(s) \in DValuesOver(DOMAIN to_, gc.visited)
         /\ \A s \in Slots \ gc.done : s = ValSlot \/ \E f \in DOMAIN frames \ gc.visited, n \in Names : s = VarSlot(f, n)
<1>1. /\ MemoryInv /\ Collecting /\ gc.todo = << >> /\ gc.scan > Len(to_)
      /\ CollectInv /\ MetInv /\ gc.done \subseteq Slots
      /\ Len(to_) \in Nat /\ DOMAIN to_ = 1..Len(to_)
  BY CollectFacts DEF ScanIsOver, Unscanned, CollectInv
<1>2. Met = gc.done
  BY <1>1 DEF Met, Range
<1>3. \A h \in DOMAIN to_ : h < gc.scan
  BY <1>1 DEF CollectInv
<1>4. /\ \A f \in gc.visited, n \in Names : VarSlot(f, n) \in gc.done
      /\ \A h \in DOMAIN to_ : \A k \in DOMAIN to_[h].values : ElemSlot(h, k) \in gc.done
      /\ gc.phase # "clear" => ValSlot \in gc.done
  BY <1>1, <1>2, <1>3 DEF MetInv
<1>5. ASSUME NEW s \in gc.done PROVE At(s) \in DValuesOver(DOMAIN to_, gc.visited)
  <2>1. At(s) \in DValuesOver(Nat, DOMAIN frames) /\ (IsAggregate(At(s)) => At(s).href \in DOMAIN to_)
    BY <1>1, <1>5, SlotValues
  <2>2. \A f : FrameItem(f) \notin gc.done
    BY <1>1, SlotsAre, ItemFacts DEF SlotsListed
  <2>3. Range(At(s).env) \subseteq gc.visited
    BY <1>1, <1>2, <1>5, <2>2 DEF MetInv
  <2> QED
    BY <2>1, <2>3, ValueOver
<1>6. \A s \in Slots \ gc.done : s = ValSlot \/ \E f \in DOMAIN frames \ gc.visited, n \in Names : s = VarSlot(f, n)
  BY <1>4, SlotsAre DEF SlotsListed
<1> QED
  BY <1>4, <1>5, <1>6

LEMMA FinishKeeps ==
  ASSUME MemoryInv, Finish
  PROVE  MemoryInv'
<1> DEFINE D  == DOMAIN frames
           D2 == DOMAIN frames'
           H  == DOMAIN to_
           W  == DValuesOver(H, D)
<1>1. /\ ScanIsOver /\ from_' = to_ /\ to_' = << >> /\ capacity' = gc.reserved
      /\ gc' = [gc EXCEPT !.phase = IF @ = "clear" THEN "ended" ELSE "run",
                          !.visited = {}, !.scan = 1, !.reserved = 0, !.done = {}]
      /\ UNCHANGED <<env_, val_, active, strayed>> /\ FramesBecome(frames)
  BY DEF Finish, ScanIsOver
<1>2. /\ Collecting /\ gc.todo = << >> /\ CollectInv /\ MetInv /\ gc \in Control
      /\ gc.done \subseteq Slots /\ D \subseteq FrameNumbers /\ env_ \in Seq(D)
      /\ Len(to_) \in Nat /\ DOMAIN to_ = 1..Len(to_) /\ EnvInv
      /\ gc.phase \in {"collect", "clear"} /\ strayed \in BOOLEAN
      /\ Len(from_) \in Nat
  BY <1>1, CollectFacts DEF ScanIsOver, CollectInv, MemoryInv
<1>3. gc.visited \subseteq D /\ Range(env_) \subseteq gc.visited
  BY <1>2 DEF MetInv
<1>4. /\ \A f \in gc.visited, n \in Names : VarSlot(f, n) \in gc.done
      /\ \A h \in DOMAIN to_ : \A k \in DOMAIN to_[h].values : ElemSlot(h, k) \in gc.done
      /\ gc.phase # "clear" => ValSlot \in gc.done
      /\ \A s \in gc.done : At(s) \in DValuesOver(H, gc.visited)
  BY <1>1, AllScanned
<1>5. Placed
  BY SlotsPlaced
<1>6. /\ \A f \in gc.visited, n \in Names : frames[f][n] \in DValuesOver(H, gc.visited)
      /\ \A h \in DOMAIN to_ : \A k \in DOMAIN to_[h].values : to_[h].values[k] \in DValuesOver(H, gc.visited)
  BY <1>4, <1>5 DEF Placed
<1>7. val_ \in DValuesOver(H, gc.visited)
  <2>1. CASE gc.phase = "clear"
    BY <1>2, <2>1, ValuesMade DEF MetInv
  <2>2. CASE gc.phase # "clear"
    BY <1>4, <1>5, <2>2 DEF Placed
  <2> QED
    BY <2>1, <2>2
<1>8. DValuesOver(H, gc.visited) \subseteq W
  BY <1>3, ValuesGrow
<1>9. to_ \in Seq(ObjectsOver({GC_NULL}, DValuesOver(H, gc.visited)))
  <2> DEFINE U == DValuesOver(H, gc.visited)
  <2>1. ASSUME NEW h \in 1..Len(to_) PROVE to_[h] \in ObjectsOver({GC_NULL}, U)
    <3>1. to_[h] \in ObjectsOver({GC_NULL}, DValuesOver(Nat, D))
      BY <1>2 DEF CollectInv
    <3>2. to_[h].values \in Seq(DValuesOver(Nat, D)) /\ DOMAIN to_[h].values = 1..Len(to_[h].values)
      BY <3>1, ObjectFacts
    <3>3. \A k \in 1..Len(to_[h].values) : to_[h].values[k] \in U
      BY <1>2, <1>6, <3>2
    <3> HIDE DEF U
    <3>4. to_[h].values \in Seq(U)
      BY <3>2, <3>3
    <3> QED
      BY <3>1, <3>4 DEF ObjectsOver
  <2> HIDE DEF U
  <2> DEFINE O == ObjectsOver({GC_NULL}, U)
             P == ObjectsOver({GC_NULL}, DValuesOver(Nat, D))
  <2>2. to_ \in Seq(P) /\ \A h \in 1..Len(to_) : to_[h] \in O
    BY <1>2, <2>1 DEF CollectInv
  <2> HIDE DEF O, P
  <2>3. to_ \in Seq(O)
    BY <2>2
  <2> QED
    BY <2>3 DEF O, U
<1>10. active = << >> /\ (gc.phase = "collect" /\ ~strayed => EnvFits(active, env_, Len(active)))
  BY <1>2 DEF CollectInv, EnvInv
<1>11. Holders' \subseteq gc.visited
  <2>1. Holders' = Range(env_) \cup Range(val_.env) \cup (UNION {HeldBy(a) : a \in Range(active)})
                     \cup EnvsIn(ValuesOf(to_)) \cup EnvsIn(ValuesOf(<< >>))
    BY <1>1 DEF Holders
  <2>2. Range(val_.env) \subseteq gc.visited
    BY <1>7, ValueFacts
  <2>3. UNION {HeldBy(a) : a \in Range(active)} = {}
    BY <1>10 DEF Range
  <2>4. EnvsIn(ValuesOf(<< >>)) = {}
    BY DEF EnvsIn, ValuesOf
  <2>5. EnvsIn(ValuesOf(to_)) \subseteq gc.visited
    <3>1. ASSUME NEW v \in ValuesOf(to_) PROVE Range(v.env) \subseteq gc.visited
      <4>1. PICK h \in DOMAIN to_ : v \in Range(to_[h].values)
        BY <3>1 DEF ValuesOf
      <4>2. PICK k \in DOMAIN to_[h].values : v = to_[h].values[k]
        BY <4>1 DEF Range
      <4> QED
        BY <1>6, <4>2, ValueFacts
    <3> QED
      BY <3>1 DEF EnvsIn
  <2> QED
    BY <1>3, <2>1, <2>2, <2>3, <2>4, <2>5
<1>12. ASSUME NEW f \in gc.visited PROVE CapturedBy(frames[f]) \subseteq gc.visited
  <2>1. DOMAIN frames[f] = Names
    BY <1>2, <1>3 DEF CollectInv, FramesOver
  <2>2. \A n \in DOMAIN frames[f] : Range(frames[f][n].env) \subseteq gc.visited
    BY <1>6, <1>12, <2>1, ValueFacts
  <2> QED
    BY <2>2, Captured
<1>13. D2 \subseteq gc.visited
  <2> DEFINE S == gc.visited
  <2>1. /\ S \in SUBSET DOMAIN frames /\ Holders' \cap DOMAIN frames \subseteq S
        /\ \A f \in S : CapturedBy(frames[f]) \cap DOMAIN frames \subseteq S
    BY <1>3, <1>11, <1>12
  <2> HIDE DEF S
  <2>2. D2 \subseteq S
    BY <1>1, <2>1, FramesKept
  <2> QED
    BY <2>2 DEF S
<1>14. /\ frames' = [f \in D2 |-> frames[f]] /\ D2 \subseteq D
       /\ \A f \in D2 : CapturedBy(frames[f]) \cap D \subseteq D2
  BY <1>1, FramesKept
<1>15. /\ from_' \in Seq(ObjectsOver({GC_NULL}, W)) /\ val_' \in W /\ env_' \in Seq(D)
  <2> DEFINE O == ObjectsOver({GC_NULL}, DValuesOver(H, gc.visited))
             P == ObjectsOver({GC_NULL}, W)
  <2>1. O \subseteq P /\ to_ \in Seq(O)
    <3> DEFINE U == DValuesOver(H, gc.visited)
    <3> HIDE DEF U, W
    <3>1. ObjectsOver({GC_NULL}, U) \subseteq ObjectsOver({GC_NULL}, W)
      BY <1>8, ObjectsGrow DEF U
    <3> QED
      BY <1>9, <3>1 DEF U
  <2>2. to_ \in Seq(P)
    <3> HIDE DEF O, P
    <3> QED
      BY <2>1, SequencesGrow
  <2> QED
    BY <1>1, <1>2, <1>7, <1>8, <2>2
<1>16. /\ from_' \in Seq(ObjectsOver({GC_NULL}, DValuesOver(H, D2))) /\ env_' \in Seq(D2)
       /\ val_' \in DValuesOver(H, D2)
  BY <1>1, <1>15, KeptValues
<1>17. frames' \in FramesOver(D2, DValuesOver(H, D2))
  <2>1. ASSUME NEW f \in D2, NEW n \in Names PROVE frames[f][n] \in DValuesOver(H, D2)
    <3>1. DOMAIN frames[f] = Names
      BY <1>2, <1>14 DEF CollectInv, FramesOver
    <3>2. frames[f][n] \in DValuesOver(H, gc.visited)
      BY <1>6, <1>13
    <3>3. /\ Range(frames[f][n].env) \subseteq D
          /\ IsAggregate(frames[f][n]) => frames[f][n].href \in H
      BY <1>3, <3>2, ValueFacts
    <3>4. Range(frames[f][n].env) \subseteq CapturedBy(frames[f])
      BY <3>1, Captured
    <3>5. Range(frames[f][n].env) \subseteq D2
      BY <1>14, <3>3, <3>4
    <3> QED
      BY <3>2, <3>3, <3>5, ValueOver
  <2>2. ASSUME NEW f \in D2 PROVE frames[f] \in [Names -> DValuesOver(H, D2)]
    <3>1. frames[f] = [n \in Names |-> frames[f][n]]
      BY <1>2, <1>14 DEF CollectInv, FramesOver
    <3> QED
      BY <2>1, <3>1
  <2> QED
    BY <1>14, <2>2 DEF FramesOver
<1>18. /\ gc' \in Control /\ gc'.phase \in {"ended", "run"} /\ gc'.todo = << >> /\ gc'.done = {}
       /\ gc'.visited = {} /\ gc'.scan = 1 /\ (gc'.phase = "run" => gc.phase = "collect")
  <2> DEFINE g  == gc
             g2 == gc'
             p  == IF gc.phase = "clear" THEN "ended" ELSE "run"
  <2>1. /\ g2 = [g EXCEPT !.phase = p, !.visited = {}, !.scan = 1, !.reserved = 0, !.done = {}]
        /\ g \in Control /\ g.todo = << >> /\ p \in {"ended", "run"} /\ (p = "run" => g.phase = "collect")
    BY <1>1, <1>2
  <2> DEFINE none == {}
             one  == 1
             zero == 0
             P    == {"next", "run", "collect", "clear", "ended", "undefined"}
             F    == SUBSET FrameNumbers
             I    == SUBSET Items
             N    == Nat \ {0}
             T    == Seq(Items)
             R    == [phase : P, todo : T, visited : F, scan : N, reserved : Nat, done : I]
  <2>3. /\ g2 = [g EXCEPT !.phase = p, !.visited = none, !.scan = one, !.reserved = zero, !.done = none]
        /\ g \in R /\ p \in P /\ none \in F /\ none \in I /\ one \in N /\ zero \in Nat
    BY <2>1 DEF Control
  <2> HIDE DEF g, g2, p, none, one, zero, P, F, I, N, T
  <2>4. g2 \in R /\ g2.phase = p /\ g2.todo = g.todo /\ g2.done = none /\ g2.visited = none /\ g2.scan = one
    BY <2>3
  <2>2. /\ g2 \in Control /\ g2.phase = p /\ g2.todo = << >> /\ g2.done = {}
        /\ g2.visited = {} /\ g2.scan = 1
    BY <2>1, <2>4 DEF Control, none, one, P, F, I, N, T
  <2> QED
    BY <2>1, <2>2 DEF g, g2
<1>19. QuietInv'
  <2>1. active' \in Seq(ActivationsOver(DOMAIN from_', DOMAIN frames'))
    BY <1>1, <1>10
  <2> QED
    BY <1>1, <1>16, <1>17, <1>18, <2>1 DEF QuietInv
<1>20. EnvInv'
  <2>1. Calls' = {} /\ CallsIn(active', 0) = {} /\ Len(active') = 0
    BY <1>1, <1>10 DEF Calls, CallsIn
  <2>2. gc'.phase = "run" /\ ~strayed' => EnvFits(active', env_', Len(active'))
    BY <1>1, <1>10, <1>18
  <2> QED
    BY <1>18, <2>1, <2>2 DEF EnvInv
<1>21. DOMAIN frames' \subseteq FrameNumbers /\ ~Collecting' /\ env_' \in Seq(DOMAIN frames')
  BY <1>2, <1>14, <1>16, <1>18 DEF Collecting
<1>22. capacity' \in Nat /\ Len(from_') <= capacity' /\ strayed' \in BOOLEAN
  <2>1. Len(to_) <= gc.reserved
    BY <1>2, CopiesFit
  <2> QED
    BY <1>1, <1>2, <2>1 DEF CollectInv
<1> QED
  BY <1>18, <1>19, <1>20, <1>21, <1>22 DEF MemoryInv

-----------------------------------------------------------------------------
(* The theorems *)

LEMMA StutterKeeps ==
  ASSUME MemoryInv, UNCHANGED vars
  PROVE  MemoryInv'
<1>1. /\ from_' = from_ /\ to_' = to_ /\ capacity' = capacity /\ frames' = frames /\ env_' = env_
      /\ val_' = val_ /\ active' = active /\ strayed' = strayed /\ gc' = gc
  BY DEF vars
<1>2. Slots' = Slots /\ (\A s : At(s)' = At(s)) /\ Met' = Met /\ (Collecting' <=> Collecting)
  BY <1>1 DEF Slots, At, Met, Collecting
<1>3. EnvInv => EnvInv'
  BY <1>1 DEF EnvInv, Calls
<1>4. QuietInv => QuietInv'
  BY <1>1 DEF QuietInv
<1>5. (MovesInv => MovesInv') /\ (TodoInv => TodoInv')
  BY <1>1, <1>2 DEF MovesInv, TodoInv
<1>6. MetInv => MetInv'
  BY <1>1, <1>2 DEF MetInv
<1>7. CollectInv => CollectInv'
  BY <1>1, <1>2, <1>5, <1>6 DEF CollectInv
<1> QED
  BY <1>1, <1>2, <1>3, <1>4, <1>7 DEF MemoryInv

LEMMA StatementKeeps ==
  ASSUME MemoryInv, Statement
  PROVE  MemoryInv'
<1>1. CASE BeginStatement \/ LeaveBody \/ LeaveLoop \/ LoopRunsPast
  BY <1>1, BeginStatementKeeps, LeaveBodyKeeps, LeaveLoopKeeps, LoopRunsPastKeeps
<1>2. CASE EnterBody \/ Iterate \/ EndRun
  BY <1>2, EnterBodyKeeps, IterateKeeps, EndRunKeeps
<1>3. CASE \E i \in DOMAIN active : ExitLoop(i) \/ ExitCall(i)
  BY <1>3, ExitLoopKeeps, ExitCallKeeps
<1>11. CASE \E v \in Readable \cup {FuncHere} : OtherStatement(v)
  BY <1>11, OtherStatementKeeps
<1>4. CASE \E x \in Variables : AssignFunc(x)
  BY <1>4, AssignFuncKeeps
<1>5. CASE \E x \in Variables, n \in Names : EnterLoop(x, n)
  BY <1>5, EnterLoopKeeps
<1>6. CASE \E x \in Variables, v \in Readable : AssignVariable(x, v)
  BY <1>6, AssignVariableKeeps
<1>7. CASE \E x \in Variables, v \in Readable, k \in 1..MaxElements : AssignElement(x, k, v)
  BY <1>7, AssignElementKeeps
<1>8. CASE \E x \in Variables, kind \in {"Array", "Tuple"}, values \in ElementLists :
              AssignNew(x, kind, values)
  BY <1>8, AssignNewKeeps
<1>9. CASE \E x, y \in Variables, n \in Names, v \in Readable : Call(x, y, n, v)
  BY <1>9, CallKeeps
<1>10. CASE \E i \in Calls, v \in Readable : Return(i, v)
  BY <1>10, ReturnKeeps
<1> QED
  BY <1>1, <1>2, <1>3, <1>4, <1>5, <1>6, <1>7, <1>8, <1>9, <1>10, <1>11 DEF Statement

LEMMA MemoryStep == MemoryInv /\ [Next]_vars => MemoryInv'
<1> SUFFICES ASSUME MemoryInv, [Next]_vars
             PROVE  MemoryInv'
  OBVIOUS
<1>1. CASE Statement
  BY <1>1, StatementKeeps
<1>2. CASE CollectStep
  BY <1>2, MaybeGcKeeps, ScanAggregateKeeps, ScanFuncKeeps, ScanNoneKeeps, ScanFrameKeeps,
     ScanObjKeeps, FinishKeeps DEF CollectStep
<1>3. CASE Ended \/ BoundReached \/ UNCHANGED vars
  BY <1>3, StutterKeeps DEF Ended, BoundReached
<1> QED
  BY <1>1, <1>2, <1>3 DEF Next

(* What the interpreter relies on between and during collections: handles  *)
(* name objects (or copies, once they have been scanned), environments and *)
(* closures frames there are; an object has one copy at most and is hollow *)
(* then; what is left to scan has not been scanned, and nothing that the   *)
(* roots, the scanned copies or the visited frames hold is forgotten.      *)
THEOREM MemoryInvariant == Spec => []MemoryInv
<1>1. Init => MemoryInv
  BY InitMakes
<1> QED
  BY <1>1, MemoryStep, PTL DEF Spec

LEMMA ValuesTyped ==
  ASSUME MemoryInv, NEW v \in DValues
  PROVE  v \in DValuesOver(IF Collecting THEN Nat ELSE DOMAIN from_, DOMAIN frames)
<1> DEFINE V == DValuesOver(IF Collecting THEN Nat ELSE DOMAIN from_, DOMAIN frames)
<1>1. /\ \A i \in DOMAIN from_ : \A k \in DOMAIN from_[i].values : from_[i].values[k] \in V
      /\ \A i \in DOMAIN to_ : \A k \in DOMAIN to_[i].values : to_[i].values[k] \in V
      /\ \A f \in DOMAIN frames : \A n \in DOMAIN frames[f] : frames[f][n] \in V
      /\ val_ \in V
  <2>1. CASE Collecting
    <3> DEFINE W == DValuesOver(DOMAIN from_, DOMAIN frames)
    <3>1. /\ from_ \in Seq(ObjectsOver(Nat, W)) /\ to_ \in Seq(ObjectsOver({GC_NULL}, V))
          /\ frames \in FramesOver(DOMAIN frames, V) /\ val_ \in V /\ W \subseteq V
      <4>1. CollectInv /\ DOMAIN from_ \subseteq Nat
        BY <2>1, CollectFacts
      <4> QED
        BY <2>1, <4>1, ValuesGrow DEF CollectInv
    <3> HIDE DEF V, W
    <3>2. \A i \in DOMAIN from_ : from_[i] \in ObjectsOver(Nat, W)
      BY <3>1
    <3>3. \A i \in DOMAIN to_ : to_[i] \in ObjectsOver({GC_NULL}, V)
      BY <3>1
    <3>4. \A i \in DOMAIN from_ : \A k \in DOMAIN from_[i].values : from_[i].values[k] \in W
      BY <3>2, ObjectFacts
    <3>5. \A i \in DOMAIN to_ : \A k \in DOMAIN to_[i].values : to_[i].values[k] \in V
      BY <3>3, ObjectFacts
    <3> QED
      BY <3>1, <3>4, <3>5 DEF FramesOver
  <2>2. CASE ~Collecting
    <3>1. /\ from_ \in Seq(ObjectsOver({GC_NULL}, V)) /\ to_ = << >>
          /\ frames \in FramesOver(DOMAIN frames, V) /\ val_ \in V
      BY <2>2 DEF MemoryInv, QuietInv
    <3> HIDE DEF V
    <3>2. \A i \in DOMAIN from_ : from_[i] \in ObjectsOver({GC_NULL}, V)
      BY <3>1
    <3>3. \A i \in DOMAIN from_ : \A k \in DOMAIN from_[i].values : from_[i].values[k] \in V
      BY <3>2, ObjectFacts
    <3> QED
      BY <3>1, <3>3 DEF FramesOver
  <2> QED
    BY <2>1, <2>2
<1> HIDE DEF V
<1>2. \A v1 \in ValuesOf(from_) \cup ValuesOf(to_) : v1 \in V
  BY <1>1 DEF ValuesOf, Range
<1>3. \A v1 \in UNION {Range(frames[f]) : f \in DOMAIN frames} : v1 \in V
  BY <1>1 DEF Range
<1>4. v \in V
  BY <1>1, <1>2, <1>3 DEF DValues
<1> QED
  BY <1>4 DEF V

LEMMA ObjectsTyped ==
  ASSUME MemoryInv, NEW obj \in Range(from_) \cup Range(to_)
  PROVE  obj.kind \in {"Array", "Tuple"} /\ obj.fwd \in 0..Len(to_)
<1>1. CASE Collecting
  <2> DEFINE O == ObjectsOver(Nat, DValuesOver(DOMAIN from_, DOMAIN frames))
             C == ObjectsOver({GC_NULL}, DValuesOver(Nat, DOMAIN frames))
  <2>1. from_ \in Seq(O) /\ to_ \in Seq(C) /\ MovesInv /\ Len(to_) \in Nat /\ DOMAIN to_ = 1..Len(to_)
    BY <1>1, CollectFacts DEF CollectInv
  <2> HIDE DEF O, C
  <2>2. ASSUME NEW i \in DOMAIN from_, obj = from_[i]
        PROVE  obj.kind \in {"Array", "Tuple"} /\ obj.fwd \in 0..Len(to_)
    <3>1. obj.kind \in {"Array", "Tuple"} /\ obj.fwd \in Nat
      <4>1. obj \in O
        BY <2>1, <2>2
      <4> QED
        BY <4>1, ObjectFacts DEF O
    <3>2. obj.fwd # GC_NULL => obj.fwd \in DOMAIN to_
      BY <2>1, <2>2 DEF MovesInv
    <3> QED
      BY <2>1, <3>1, <3>2 DEF GC_NULL
  <2>3. ASSUME NEW i \in DOMAIN to_, obj = to_[i]
        PROVE  obj.kind \in {"Array", "Tuple"} /\ obj.fwd \in 0..Len(to_)
    <3>1. obj \in C
      BY <2>1, <2>3
    <3>2. obj.kind \in {"Array", "Tuple"} /\ obj.fwd = GC_NULL
      BY <3>1, ObjectFacts DEF C
    <3> QED
      BY <2>1, <3>2 DEF GC_NULL
  <2> QED
    BY <2>2, <2>3 DEF Range
<1>2. CASE ~Collecting
  <2> DEFINE O == ObjectsOver({GC_NULL}, DValuesOver(DOMAIN from_, DOMAIN frames))
  <2>1. from_ \in Seq(O) /\ to_ = << >>
    BY <1>2 DEF MemoryInv, QuietInv
  <2> HIDE DEF O
  <2>2. obj \in O
    BY <2>1 DEF Range
  <2>3. obj.kind \in {"Array", "Tuple"} /\ obj.fwd = GC_NULL
    BY <2>2, ObjectFacts DEF O
  <2> QED
    BY <2>1, <2>3 DEF GC_NULL
<1> QED
  BY <1>1, <1>2

(* No value that the interpreter can reach names an object past the end of *)
(* from_ or a frame that is gone, and the vector from_ fits its buffer.    *)
THEOREM TypeCorrect == Spec => []TypeOK
<1>1. ASSUME MemoryInv PROVE TypeOK
  <2>1. ASSUME NEW v \in DValues
        PROVE  /\ v.type \in {"None", "Array", "Tuple", "Func"}
               /\ Range(v.env) \subseteq DOMAIN frames
               /\ IsAggregate(v) /\ ~Collecting => v.href \in DOMAIN from_
    BY <1>1, <2>1, ValuesTyped, ValueFacts
  <2>2. Range(env_) \subseteq DOMAIN frames /\ Len(from_) <= capacity
    BY <1>1 DEF MemoryInv, Range
  <2>3. gc.phase \in {"next", "run", "collect", "clear", "ended", "undefined"}
    BY <1>1 DEF MemoryInv, Control
  <2> QED
    BY <1>1, <2>1, <2>2, <2>3, ObjectsTyped DEF TypeOK
<1> QED
  BY <1>1, MemoryInvariant, PTL

(* collect() translates the handle of a value once: scan_value() never     *)
(* comes back to a slot that it has been through.                          *)
THEOREM HandlesTranslatedOnce == Spec => []TranslatedOnce
<1>1. ASSUME MemoryInv PROVE TranslatedOnce
  <2>1. ASSUME Scanning PROVE Next1 \notin gc.done
    <3>1. CASE IsSlot(Next1)
      BY <1>1, <2>1, <3>1, NextFacts
    <3>2. CASE ~IsSlot(Next1)
      <4>1. gc.done \subseteq Slots
        BY <1>1, <2>1, CollectFacts DEF Scanning
      <4>2. PICK f \in DOMAIN frames : Next1 = FrameItem(f)
        BY <1>1, <2>1, <3>2, NextFacts
      <4> QED
        BY <4>1, <4>2, SlotsAre, ItemFacts DEF SlotsListed
    <3> QED
      BY <3>1, <3>2
  <2> QED
    BY <2>1 DEF TranslatedOnce
<1> QED
  BY <1>1, MemoryInvariant, PTL

(* The reserve() of collect() is enough: to_ has no more objects than      *)
(* from_, so that evacuate() never moves those that scan_obj holds.        *)
THEOREM ReserveIsEnough == Spec => []ToSpaceNeverGrows
<1>1. MemoryInv => ToSpaceNeverGrows
  BY CopiesFit DEF ToSpaceNeverGrows
<1> QED
  BY <1>1, MemoryInvariant, PTL

(* As long as no exit has left a call, the next statement of the program   *)
(* finds the global frame alone in env_, whatever bodies, loops and calls  *)
(* were left by their end, by return or by an exit of the same function:   *)
(* the guards and the restored environments of src/interpreter.cpp pop all *)
(* that was pushed.                                                        *)
THEOREM ProgramFindsGlobalFrame == Spec => []StatementsStartGlobal
<1>1. MemoryInv => StatementsStartGlobal
  BY BetweenStatements DEF StatementsStartGlobal
<1> QED
  BY <1>1, MemoryInvariant, PTL

-----------------------------------------------------------------------------
(* What the program sees during a collection *)

NamedIs ==
  \A s \in Slots :
    /\ s \in gc.done /\ IsAggregate(At(s)) =>
         \E i \in DOMAIN from_ : from_[i].fwd = At(s).href /\ Named(s) = [At(s) EXCEPT !.href = i]
    /\ ~(s \in gc.done /\ IsAggregate(At(s))) => Named(s) = At(s)

LEMMA NamesAre == MemoryInv /\ Collecting => NamedIs
<1> SUFFICES ASSUME MemoryInv, Collecting
             PROVE  NamedIs
  OBVIOUS
<1>1. ASSUME NEW s \in Slots, s \in gc.done, IsAggregate(At(s))
      PROVE  \E i \in DOMAIN from_ : from_[i].fwd = At(s).href /\ Named(s) = [At(s) EXCEPT !.href = i]
  <2> DEFINE h == At(s).href
             i == Origin(h)
  <2>1. h \in DOMAIN to_ /\ MovesInv
    BY <1>1, SlotValues, CollectFacts DEF CollectInv
  <2>2. Named(s) = [At(s) EXCEPT !.href = i]
    BY <1>1 DEF Named
  <2>3. i \in DOMAIN from_ /\ from_[i].fwd = h
    <3> HIDE DEF h
    <3>1. \E j \in DOMAIN from_ : from_[j].fwd = h
      BY <2>1 DEF MovesInv
    <3> QED
      BY <3>1 DEF Origin
  <2> QED
    BY <2>2, <2>3
<1>2. \A s \in Slots : ~(s \in gc.done /\ IsAggregate(At(s))) => Named(s) = At(s)
  BY DEF Named
<1> QED
  BY <1>1, <1>2 DEF NamedIs

ContentsIs ==
  \A i \in DOMAIN from_ :
    /\ from_[i].fwd = GC_NULL => Contents(i) = from_[i].values
    /\ \A h \in DOMAIN to_ : from_[i].fwd = h =>
         Contents(i) = [k \in DOMAIN to_[h].values |-> Named(ElemSlot(h, k))]

LEMMA ContentsAre == MemoryInv /\ Collecting => ContentsIs
<1> SUFFICES ASSUME MemoryInv, Collecting
             PROVE  ContentsIs
  OBVIOUS
<1>1. \A h \in DOMAIN to_ : h # GC_NULL
  BY CollectFacts DEF GC_NULL
<1> QED
  BY <1>1 DEF ContentsIs, Contents

OriginIn(objs, h) == CHOOSE i \in DOMAIN objs : objs[i].fwd = h

(* Nothing of it changes. *)
Unseen ==
  /\ DOMAIN from_' = DOMAIN from_ /\ DOMAIN frames' = DOMAIN frames /\ env_' = env_ /\ active' = active
  /\ \A s \in Slots : Named(s)' = Named(s)
  /\ \A i \in DOMAIN from_ : Contents(i)' = Contents(i) /\ from_'[i].kind = from_[i].kind

LEMMA NothingMoves ==
  ASSUME MemoryInv, Collecting, UNCHANGED <<from_, to_, frames, env_, val_, active>>,
         \A s \in Slots : IsAggregate(At(s)) => (s \in gc'.done <=> s \in gc.done)
  PROVE  Unseen
<1>1. \A s : At(s)' = At(s)
  BY DEF At
<1>2. ASSUME NEW s \in Slots PROVE Named(s)' = Named(s)
  <2>1. CASE s \in gc.done /\ IsAggregate(At(s))
    <3>1. Named(s) = [At(s) EXCEPT !.href = OriginIn(from_, At(s).href)]
      BY <2>1 DEF Named, Origin, OriginIn
    <3>2. s \in gc'.done /\ IsAggregate(At(s)')
      BY <1>1, <2>1
    <3>3. Named(s)' = [At(s)' EXCEPT !.href = OriginIn(from_', At(s)'.href)]
      BY <3>2 DEF Named, Origin, OriginIn
    <3> QED
      BY <1>1, <3>1, <3>3
  <2>2. CASE ~(s \in gc.done /\ IsAggregate(At(s)))
    <3>1. ~(s \in gc'.done /\ IsAggregate(At(s)'))
      BY <1>1, <2>2
    <3> QED
      BY <1>1, <2>2, <3>1 DEF Named
  <2> QED
    BY <2>1, <2>2
<1>3. ASSUME NEW i \in DOMAIN from_ PROVE Contents(i)' = Contents(i)
  <2>1. CASE from_[i].fwd = GC_NULL
    BY <2>1 DEF Contents
  <2>2. CASE from_[i].fwd # GC_NULL
    <3>1. PICK h : h = from_[i].fwd
      OBVIOUS
    <3>2. h \in DOMAIN to_
      BY <2>2, <3>1, CollectFacts DEF CollectInv, MovesInv
    <3>3. \A k \in DOMAIN to_[h].values : Named(ElemSlot(h, k))' = Named(ElemSlot(h, k))
      BY <1>2, <3>2, SlotsAre DEF SlotsListed
    <3>4. Contents(i) = [k \in DOMAIN to_[h].values |-> Named(ElemSlot(h, k))]
      BY <2>2, <3>1 DEF Contents
    <3>5. from_'[i].fwd = h /\ h # GC_NULL /\ to_' = to_
      BY <2>2, <3>1
    <3>6. Contents(i)' = [k \in DOMAIN to_'[h].values |-> Named(ElemSlot(h, k))']
      BY <3>5 DEF Contents
    <3> QED
      BY <3>3, <3>4, <3>5, <3>6
  <2> QED
    BY <2>1, <2>2
<1> QED
  BY <1>2, <1>3 DEF Unseen

LEMMA RetargetedBack ==
  ASSUME NEW hs, NEW fs, NEW v \in DValuesOver(hs, fs), NEW g
  PROVE  [[v EXCEPT !.href = g] EXCEPT !.href = v.href] = v
<1>1. PICK t, h, e, l : v = [type |-> t, href |-> h, env |-> e, inLoop |-> l]
  BY ValueFacts DEF DValue
<1>2. PICK w : w = [v EXCEPT !.href = g]
  OBVIOUS
<1>3. w = [type |-> t, href |-> g, env |-> e, inLoop |-> l]
  BY <1>1, <1>2
<1>4. [w EXCEPT !.href = v.href] = [type |-> t, href |-> h, env |-> e, inLoop |-> l]
  BY <1>1, <1>3
<1> QED
  BY <1>1, <1>2, <1>4

LEMMA MovingIsUnseen ==
  ASSUME MemoryInv, ScanAggregate
  PROVE  Unseen
<1>0. PICK t : t = Next1
  OBVIOUS
<1> DEFINE h    == HrefMoved
           new  == NewHref
           done == gc.done \cup {t}
           D    == DOMAIN frames
<1>1. /\ ScansAggregate /\ Scanning /\ IsAggregate(At(t)) /\ gc' = Popped
      /\ UNCHANGED <<env_, active>> /\ h = At(t).href
  BY <1>0 DEF ScanAggregate, ScansAggregate, HrefMoved
<1>2. /\ Collecting /\ CollectInv /\ MovesInv /\ gc \in Control /\ gc.done \subseteq Slots /\ t \in Slots \ gc.done
      /\ DOMAIN from_ = 1..Len(from_) /\ GC_NULL \notin DOMAIN to_
  <2>1. t \in Slots \ gc.done
    BY <1>0, <1>1, NextFacts DEF ScanAggregate
  <2>2. Collecting
    BY <1>1 DEF Scanning
  <2> QED
    BY <2>1, <2>2, CollectFacts DEF CollectInv, GC_NULL
<1>3. /\ h \in DOMAIN from_ /\ new \in Nat \ {0}
      /\ DOMAIN ToMoved = DOMAIN to_ \cup {new}
      /\ \A g \in DOMAIN to_ : ToMoved[g] = to_[g]
      /\ DOMAIN FromMoved = DOMAIN from_
      /\ \A i \in DOMAIN from_ : i # h => FromMoved[i] = from_[i]
      /\ FromMoved[h].fwd = new
      /\ FromMoved[h].kind = ToMoved[new].kind
      /\ \A i \in DOMAIN from_ : from_[i].fwd = new => i = h
      /\ MustMove(h) => ToMoved[new] = from_[h] /\ new \notin DOMAIN to_
      /\ ~MustMove(h) => new \in DOMAIN to_
  BY <1>1, EvacuateFacts
<1>4. /\ from_' = FromMoved
      /\ DOMAIN to_' = DOMAIN ToMoved
      /\ DOMAIN frames' = D
      /\ \A g \in DOMAIN ToMoved : DOMAIN to_'[g].values = DOMAIN ToMoved[g].values
      /\ \A s \in Slots : At(s)' = IF s = t THEN [At(s) EXCEPT !.href = new] ELSE At(s)
      /\ \A g \in DOMAIN ToMoved \ DOMAIN to_ : \A k \in DOMAIN ToMoved[g].values :
            At(ElemSlot(g, k))' = ToMoved[g].values[k]
  BY <1>0, <1>1, RedirectFacts
<1>5. MemoryInv' /\ Collecting' /\ gc'.done = done
  <2>1. gc'.phase = gc.phase /\ gc'.done = done
    BY <1>0, <1>1, <1>2 DEF Popped, Control
  <2> QED
    BY <1>2, <2>1, ScanAggregateKeeps DEF Collecting
<1>6. NamedIs /\ NamedIs' /\ ContentsIs /\ ContentsIs'
  BY <1>2, <1>5, NamesAre, ContentsAre, PTL
<1>7. MovesInv' /\ SlotsListed /\ SlotsListed' /\ CollectInv'
  <2>1. CollectInv'
    BY <1>5 DEF MemoryInv
  <2> QED
    BY <2>1, SlotsAre, PTL DEF CollectInv
<1>8. ~MustMove(h) => from_' = from_ /\ from_[h].fwd = new
  BY <1>1, <1>4 DEF FromMoved, NewHref
<1>9. MustMove(h) => from_[h].fwd = GC_NULL
  BY DEF MustMove
<1>10. At(t) \in DValuesOver(Nat, D)
  BY <1>2, SlotValues
<1>11. \A s \in Slots : s \in Slots'
  <2>1. \A g \in DOMAIN to_ : g \in DOMAIN to_' /\ DOMAIN to_'[g].values = DOMAIN to_[g].values
    BY <1>3, <1>4
  <2> QED
    BY <1>4, <1>7, <2>1 DEF SlotsListed
<1>12. \A i \in DOMAIN from_ : from_[i].fwd # GC_NULL => from_'[i].fwd = from_[i].fwd
  BY <1>3, <1>4, <1>8, <1>9
<1> HIDE DEF h, new
<1>13. ASSUME NEW s \in Slots PROVE Named(s)' = Named(s)
  <2>1. CASE s = t
    <3>1. Named(s) = At(s) /\ IsAggregate(At(s))
      BY <1>1, <1>2, <1>6, <2>1 DEF NamedIs
    <3>2. At(s)' = [At(s) EXCEPT !.href = new]
      BY <1>4, <2>1
    <3>3. IsAggregate(At(s)') /\ At(s)'.href = new
      BY <1>3, <1>10, <2>1, <3>1, <3>2, ValueRetargeted
    <3>4. PICK i \in DOMAIN from_' : from_'[i].fwd = new /\ Named(s)' = [At(s)' EXCEPT !.href = i]
      BY <1>5, <1>6, <1>11, <2>1, <3>3 DEF NamedIs
    <3>5. i = h
      BY <1>3, <1>4, <1>7, <3>4 DEF MovesInv, GC_NULL
    <3>6. [[At(s) EXCEPT !.href = new] EXCEPT !.href = At(s).href] = At(s)
      BY <1>10, <2>1, RetargetedBack
    <3>7. h = At(s).href
      BY <1>1, <2>1
    <3> QED
      BY <3>1, <3>2, <3>4, <3>5, <3>6, <3>7
  <2>2. CASE s # t /\ s \in gc.done /\ IsAggregate(At(s))
    <3>1. PICK i \in DOMAIN from_ : from_[i].fwd = At(s).href /\ Named(s) = [At(s) EXCEPT !.href = i]
      BY <1>6, <2>2 DEF NamedIs
    <3>2. At(s)' = At(s) /\ s \in gc'.done /\ s \in Slots'
      BY <1>4, <1>5, <1>11, <2>2
    <3>3. PICK j \in DOMAIN from_' : from_'[j].fwd = At(s).href /\ Named(s)' = [At(s) EXCEPT !.href = j]
      BY <1>6, <2>2, <3>2 DEF NamedIs
    <3>4. At(s).href # GC_NULL
      BY <1>2, <2>2, SlotValues
    <3>5. from_'[i].fwd = At(s).href /\ i \in DOMAIN from_'
      BY <1>3, <1>4, <1>12, <3>1, <3>4
    <3>6. j = i
      BY <1>7, <3>3, <3>4, <3>5 DEF MovesInv
    <3> QED
      BY <3>1, <3>3, <3>6
  <2>3. CASE s # t /\ ~(s \in gc.done /\ IsAggregate(At(s)))
    <3>1. At(s)' = At(s) /\ ~(s \in gc'.done /\ IsAggregate(At(s)')) /\ s \in Slots'
      BY <1>4, <1>5, <1>11, <2>3
    <3> QED
      BY <1>6, <2>3, <3>1 DEF NamedIs
  <2> QED
    BY <2>1, <2>2, <2>3
<1>14. ASSUME NEW i \in DOMAIN from_, NEW g \in DOMAIN to_, from_[i].fwd = g
       PROVE  Contents(i)' = Contents(i)
  <2>1. from_'[i].fwd = g /\ i \in DOMAIN from_' /\ g \in DOMAIN to_'
    BY <1>2, <1>3, <1>4, <1>12, <1>14
  <2>2. DOMAIN to_'[g].values = DOMAIN to_[g].values
    BY <1>3, <1>4
  <2>3. Contents(i) = [k \in DOMAIN to_[g].values |-> Named(ElemSlot(g, k))]
    BY <1>6, <1>14 DEF ContentsIs
  <2>4. Contents(i)' = [k \in DOMAIN to_'[g].values |-> Named(ElemSlot(g, k))']
    BY <1>6, <2>1 DEF ContentsIs
  <2>5. \A k \in DOMAIN to_[g].values : Named(ElemSlot(g, k))' = Named(ElemSlot(g, k))
    BY <1>7, <1>13 DEF SlotsListed
  <2> QED
    BY <2>2, <2>3, <2>4, <2>5
<1>15. ASSUME NEW i \in DOMAIN from_, from_[i].fwd = GC_NULL, i # h
       PROVE  Contents(i)' = Contents(i)
  <2>1. from_'[i] = from_[i] /\ i \in DOMAIN from_'
    BY <1>3, <1>4, <1>15
  <2> QED
    BY <1>6, <1>15, <2>1 DEF ContentsIs
<1>16. ASSUME MustMove(h), NEW i, i = h
       PROVE  Contents(i)' = Contents(i)
  <2>1. Contents(i) = from_[i].values /\ i \in DOMAIN from_
    BY <1>3, <1>6, <1>9, <1>16 DEF ContentsIs
  <2>2. PICK g : g = new
    OBVIOUS
  <2>3. /\ from_'[i].fwd = g /\ i \in DOMAIN from_' /\ g \in DOMAIN to_'
        /\ g \in DOMAIN ToMoved \ DOMAIN to_ /\ ToMoved[g] = from_[i]
        /\ DOMAIN to_'[g].values = DOMAIN from_[i].values
    BY <1>3, <1>4, <1>16, <2>2
  <2>4. Contents(i)' = [k \in DOMAIN to_'[g].values |-> Named(ElemSlot(g, k))']
    BY <1>6, <2>3 DEF ContentsIs
  <2>5. ASSUME NEW k \in DOMAIN from_[i].values PROVE Named(ElemSlot(g, k))' = from_[i].values[k]
    <3>1. At(ElemSlot(g, k))' = from_[i].values[k]
      BY <1>4, <2>3
    <3>2. ElemSlot(g, k) \in Slots' /\ ElemSlot(g, k) \notin Slots
      BY <1>7, <2>3, ItemFacts DEF SlotsListed
    <3>3. ElemSlot(g, k) \notin gc'.done
      BY <1>2, <1>5, <3>2
    <3> QED
      BY <1>6, <3>1, <3>2, <3>3 DEF NamedIs
  <2>6. from_[i].values = [k \in DOMAIN from_[i].values |-> from_[i].values[k]]
    <3> DEFINE O == ObjectsOver(Nat, DValuesOver(DOMAIN from_, D))
    <3>1. from_[i] \in O
      BY <1>2, <2>1 DEF CollectInv
    <3>2. from_[i].values \in Seq(DValuesOver(DOMAIN from_, D))
      BY <3>1, ObjectFacts
    <3> QED
      BY <3>2
  <2> QED
    BY <1>16, <2>1, <2>3, <2>4, <2>5, <2>6
<1>17. \A i \in DOMAIN from_ : Contents(i)' = Contents(i)
  <2>1. \A i \in DOMAIN from_ : from_[i].fwd # GC_NULL => from_[i].fwd \in DOMAIN to_
    BY <1>2 DEF MovesInv
  <2> QED
    BY <1>9, <1>14, <1>15, <1>16, <2>1 DEF MustMove
<1>18. \A i \in DOMAIN from_ : from_'[i].kind = from_[i].kind
  BY <1>3, <1>4, <1>8
<1> QED
  BY <1>1, <1>3, <1>4, <1>13, <1>17, <1>18 DEF Unseen

-----------------------------------------------------------------------------
(* The graph of objects and frames, and what the roots reach in it *)

LEMMA NodesFacts ==
  ASSUME NEW v
  PROVE  /\ \A f \in Range(v.env) : -f \in Nodes(v)
         /\ IsAggregate(v) => v.href \in Nodes(v)
         /\ \A j \in Nodes(v) : (\E f \in Range(v.env) : j = -f) \/ (IsAggregate(v) /\ j = v.href)
BY DEF Nodes, FrameNodes

LEMMA NodesInFacts ==
  ASSUME NEW d, NEW m, m = [k \in d |-> m[k]]
  PROVE  /\ \A k \in d : Nodes(m[k]) \subseteq NodesIn(Range(m))
         /\ \A j \in NodesIn(Range(m)) : \E k \in d : j \in Nodes(m[k])
<1>1. DOMAIN m = d
  OBVIOUS
<1>2. Range(m) = {m[k] : k \in d}
  BY <1>1 DEF Range
<1> QED
  BY <1>2 DEF NodesIn

NodeOf(i) == IF i > 0 THEN NodesIn(Range(Contents(i))) ELSE NodesIn(Range(VariablesOf(-i)))

GraphIs ==
  /\ DOMAIN Graph = DOMAIN from_ \cup FrameNodes(DOMAIN frames)
  /\ \A i \in DOMAIN from_ : i > 0 /\ Graph[i] = NodesIn(Range(Contents(i)))
  /\ \A f \in DOMAIN frames : -f \in DOMAIN Graph /\ Graph[-f] = NodesIn(Range(VariablesOf(f)))
  /\ \A f \in DOMAIN frames : -f \notin DOMAIN from_
  /\ \A f, g \in DOMAIN frames : -f = -g => f = g
  /\ \A j \in FrameNodes(DOMAIN frames) : \E f \in DOMAIN frames : j = -f

LEMMA GraphFacts ==
  ASSUME DOMAIN from_ \subseteq Nat \ {0}, DOMAIN frames \subseteq FrameNumbers
  PROVE  GraphIs
<1>1. Graph = [i \in DOMAIN from_ \cup FrameNodes(DOMAIN frames) |-> NodeOf(i)]
  BY DEF Graph, NodeOf
<1>2. \A f \in DOMAIN frames : f \in Nat \ {0}
  BY HeapAssumption DEF FrameNumbers
<1>3. \A f \in DOMAIN frames : -f \in FrameNodes(DOMAIN frames) /\ ~(-f > 0) /\ -(-f) = f
  BY <1>2 DEF FrameNodes
<1>4. \A j \in FrameNodes(DOMAIN frames) : \E f \in DOMAIN frames : j = -f
  BY DEF FrameNodes
<1>5. ASSUME NEW i \in DOMAIN from_ PROVE i > 0 /\ Graph[i] = NodesIn(Range(Contents(i)))
  <2>1. i > 0 /\ Graph[i] = NodeOf(i)
    BY <1>1
  <2> QED
    BY <2>1 DEF NodeOf
<1>6. ASSUME NEW f \in DOMAIN frames
      PROVE  -f \in DOMAIN Graph /\ Graph[-f] = NodesIn(Range(VariablesOf(f)))
  <2>1. -f \in DOMAIN Graph /\ Graph[-f] = NodeOf(-f) /\ ~(-f > 0) /\ -(-f) = f
    BY <1>1, <1>3
  <2> QED
    BY <2>1 DEF NodeOf
<1> QED
  BY <1>1, <1>2, <1>3, <1>4, <1>5, <1>6 DEF GraphIs

(* The same variables and contents make the same graph and the same view. *)
SameSeen ==
  /\ DOMAIN from_' = DOMAIN from_ /\ DOMAIN frames' = DOMAIN frames /\ env_' = env_ /\ active' = active
  /\ \A f \in DOMAIN frames : VariablesOf(f)' = VariablesOf(f)
  /\ \A i \in DOMAIN from_ : Contents(i)' = Contents(i) /\ from_'[i].kind = from_[i].kind

LEMMA OneGraph ==
  ASSUME NEW G, NEW r
  PROVE  UNION {Closure(graph, r) : graph \in {G}} = Closure(G, r)
OBVIOUS

LEMMA SeenUnchanged ==
  ASSUME DOMAIN from_ \subseteq Nat \ {0}, DOMAIN frames \subseteq FrameNumbers, SameSeen
  PROVE  Graph' = Graph /\ View' = View
<1> DEFINE dom == DOMAIN from_ \cup FrameNodes(DOMAIN frames)
<1>1. /\ DOMAIN from_' = DOMAIN from_ /\ DOMAIN frames' = DOMAIN frames /\ env_' = env_ /\ active' = active
      /\ \A f \in DOMAIN frames : VariablesOf(f)' = VariablesOf(f)
      /\ \A i \in DOMAIN from_ : Contents(i)' = Contents(i)
      /\ \A i \in DOMAIN from_ : from_'[i].kind = from_[i].kind
  BY DEF SameSeen
<1>2. ASSUME NEW i \in dom PROVE NodeOf(i)' = NodeOf(i)
  <2>1. CASE i \in DOMAIN from_
    <3>1. i > 0
      BY <2>1
    <3> QED
      BY <1>1, <2>1, <3>1 DEF NodeOf
  <2>2. CASE i \in FrameNodes(DOMAIN frames)
    <3>1. PICK f \in DOMAIN frames : i = -f
      BY <2>2 DEF FrameNodes
    <3>2. f \in Nat \ {0}
      BY HeapAssumption DEF FrameNumbers
    <3>3. ~(i > 0) /\ -i = f
      BY <3>1, <3>2
    <3>4. VariablesOf(-i)' = VariablesOf(-i)
      BY <1>1, <3>3
    <3> QED
      BY <3>3, <3>4 DEF NodeOf
  <2> QED
    BY <2>1, <2>2
<1>3. Graph' = Graph
  <2>1. Graph = [i \in dom |-> NodeOf(i)]
    BY DEF Graph, NodeOf
  <2>2. Graph' = [i \in DOMAIN from_' \cup FrameNodes(DOMAIN frames') |-> NodeOf(i)']
    BY DEF Graph, NodeOf
  <2> QED
    BY <1>1, <1>2, <2>1, <2>2
<1>4. Live' = Live
  <2>1. LiveRoots' = LiveRoots
    BY <1>1 DEF LiveRoots
  <2>2. Live = Closure(Graph, LiveRoots) /\ Live' = Closure(Graph', LiveRoots')
    BY OneGraph DEF Live
  <2> QED
    BY <1>3, <2>1, <2>2
<1>5. PICK live : live = Live
  OBVIOUS
<1>6. View = [objects |-> [i \in live \cap DOMAIN from_ |-> [kind |-> from_[i].kind, values |-> Contents(i)]],
              frames  |-> [f \in DOMAIN frames \cap FrameNodes(live) |-> VariablesOf(f)],
              active  |-> active]
  BY <1>5 DEF View
<1>7. View' = [objects |-> [i \in live \cap DOMAIN from_' |-> [kind |-> from_'[i].kind, values |-> Contents(i)']],
               frames  |-> [f \in DOMAIN frames' \cap FrameNodes(live) |-> VariablesOf(f)'],
               active  |-> active']
  BY <1>4, <1>5 DEF View
<1>8. /\ [i \in live \cap DOMAIN from_' |-> [kind |-> from_'[i].kind, values |-> Contents(i)']]
           = [i \in live \cap DOMAIN from_ |-> [kind |-> from_[i].kind, values |-> Contents(i)]]
      /\ [f \in DOMAIN frames' \cap FrameNodes(live) |-> VariablesOf(f)']
           = [f \in DOMAIN frames \cap FrameNodes(live) |-> VariablesOf(f)]
  BY <1>1
<1> QED
  BY <1>1, <1>3, <1>6, <1>7, <1>8

(* What nothing sees leaves the graph, and what is reached, as it is. *)
LEMMA UnseenGraph ==
  ASSUME MemoryInv, Collecting, Unseen
  PROVE  Graph' = Graph /\ View' = View /\ Reached' = Reached
<1>1. DOMAIN from_ = 1..Len(from_) /\ Len(from_) \in Nat /\ DOMAIN frames \subseteq FrameNumbers
  BY CollectFacts
<1>2. \A f \in DOMAIN frames : VariablesOf(f)' = VariablesOf(f)
  BY SlotsAre DEF VariablesOf, SlotsListed, Unseen
<1>3. Graph' = Graph /\ View' = View
  BY <1>1, <1>2, SeenUnchanged DEF SameSeen, Unseen
<1>4. Named(ValSlot)' = Named(ValSlot) /\ env_' = env_
  BY SlotsAre DEF SlotsListed, Unseen
<1> QED
  BY <1>3, <1>4 DEF Reached

ReachedFacts ==
  /\ Reached \subseteq DOMAIN Graph
  /\ \A f \in Range(env_) \cap DOMAIN frames : -f \in Reached
  /\ Nodes(Named(ValSlot)) \cap DOMAIN Graph \subseteq Reached
  /\ \A j \in Reached : Graph[j] \cap DOMAIN Graph \subseteq Reached

LEMMA ReachedIsClosed ==
  ASSUME GraphIs
  PROVE  ReachedFacts
<1> DEFINE roots == FrameNodes(Range(env_)) \cup Nodes(Named(ValSlot))
<1>1. /\ Reached \subseteq DOMAIN Graph
      /\ roots \cap DOMAIN Graph \subseteq Reached
      /\ \A j \in Reached : Graph[j] \cap DOMAIN Graph \subseteq Reached
  BY ClosureFacts DEF Reached
<1>2. \A f \in Range(env_) \cap DOMAIN frames : -f \in roots \cap DOMAIN Graph
  BY DEF GraphIs, FrameNodes
<1> QED
  BY <1>1, <1>2 DEF ReachedFacts

(* What a slot names that the scan has met is reached. *)
LEMMA MetIsReached ==
  ASSUME MemoryInv, Collecting, ReachedInv, NEW s \in Slots, s \in Met
  PROVE  /\ Nodes(Named(s)) \cap DOMAIN Graph \subseteq Reached
         /\ GraphIs /\ ReachedFacts
<1>1. /\ CollectInv /\ MovesInv /\ MetInv /\ DOMAIN from_ = 1..Len(from_) /\ Len(from_) \in Nat
      /\ DOMAIN frames \subseteq FrameNumbers /\ DOMAIN to_ = 1..Len(to_)
  BY CollectFacts DEF CollectInv
<1>2. GraphIs /\ ReachedFacts
  BY <1>1, GraphFacts, ReachedIsClosed
<1>3. CASE s = ValSlot
  BY <1>2, <1>3 DEF ReachedFacts
<1>4. ASSUME NEW f \in DOMAIN frames, NEW n \in Names, s = VarSlot(f, n)
      PROVE  Nodes(Named(s)) \cap DOMAIN Graph \subseteq Reached
  <2>1. f \in gc.visited
    BY <1>1, <1>4 DEF MetInv
  <2>2. -f \in Reached
    BY <2>1 DEF ReachedInv, FrameNodes
  <2>3. Graph[-f] \cap DOMAIN Graph \subseteq Reached /\ Graph[-f] = NodesIn(Range(VariablesOf(f)))
    BY <1>2, <2>2 DEF ReachedFacts, GraphIs
  <2>4. VariablesOf(f) = [m \in Names |-> Named(VarSlot(f, m))]
    BY DEF VariablesOf
  <2>5. VariablesOf(f)[n] = Named(s) /\ VariablesOf(f) = [m \in Names |-> VariablesOf(f)[m]]
    BY <1>4, <2>4
  <2>6. Nodes(VariablesOf(f)[n]) \subseteq NodesIn(Range(VariablesOf(f)))
    BY <2>5, NodesInFacts
  <2> QED
    BY <2>3, <2>5, <2>6
<1>5. ASSUME NEW h \in DOMAIN to_, NEW k \in DOMAIN to_[h].values, s = ElemSlot(h, k)
      PROVE  Nodes(Named(s)) \cap DOMAIN Graph \subseteq Reached
  <2>1. PICK i \in DOMAIN from_ : from_[i].fwd = h
    BY <1>1 DEF MovesInv
  <2>2. h # GC_NULL
    BY <1>1 DEF GC_NULL
  <2>3. i \in Reached
    BY <2>1, <2>2 DEF ReachedInv
  <2>4. Graph[i] \cap DOMAIN Graph \subseteq Reached /\ Graph[i] = NodesIn(Range(Contents(i)))
    BY <1>2, <2>3 DEF ReachedFacts, GraphIs
  <2>5. Contents(i) = [m \in DOMAIN to_[h].values |-> Named(ElemSlot(h, m))]
    BY <2>1, ContentsAre DEF ContentsIs
  <2>6. Contents(i)[k] = Named(s) /\ Contents(i) = [m \in DOMAIN to_[h].values |-> Contents(i)[m]]
    BY <1>5, <2>5
  <2>7. Nodes(Contents(i)[k]) \subseteq NodesIn(Range(Contents(i)))
    BY <2>6, NodesInFacts
  <2> QED
    BY <2>4, <2>6, <2>7
<1> QED
  BY <1>2, <1>3, <1>4, <1>5, SlotsAre DEF SlotsListed

(* The next slot names what it holds. *)
LEMMA NextIsReached ==
  ASSUME MemoryInv, Scanning, ReachedInv, IsSlot(Next1)
  PROVE  /\ IsAggregate(At(Next1)) => At(Next1).href \in Reached
         /\ \A f \in Range(At(Next1).env) \cap DOMAIN frames : -f \in Reached
<1>1. /\ Collecting /\ Next1 \in Slots \ gc.done /\ Range(gc.todo) = {Next1} \cup Range(Tail(gc.todo))
  BY NextFacts
<1>2. PICK t : t = Next1
  OBVIOUS
<1>3. t \in Slots /\ t \in Met /\ t \notin gc.done
  BY <1>1, <1>2 DEF Met
<1>4. Nodes(Named(t)) \cap DOMAIN Graph \subseteq Reached /\ GraphIs
  BY <1>1, <1>3, MetIsReached
<1>5. Named(t) = At(t)
  BY <1>3 DEF Named
<1>6. IsAggregate(At(t)) => At(t).href \in DOMAIN Graph
  BY <1>1, <1>3, <1>4, SlotValues DEF GraphIs
<1>7. \A f \in DOMAIN frames : -f \in DOMAIN Graph
  BY <1>4 DEF GraphIs
<1> QED
  BY <1>2, <1>4, <1>5, <1>6, <1>7, NodesFacts

-----------------------------------------------------------------------------
(* Only what is reached is met *)

LEMMA ReachedGrows ==
  ASSUME MemoryInv, Collecting, ReachedInv, Unseen,
         \A i \in DOMAIN from_ : from_'[i].fwd # GC_NULL => from_[i].fwd # GC_NULL \/ i \in Reached,
         \A f \in gc'.visited : f \in gc.visited \/ -f \in Reached,
         \A f \in DOMAIN frames : FrameItem(f) \in Range(gc'.todo)
            => FrameItem(f) \in Range(gc.todo) \/ -f \in Reached
  PROVE  ReachedInv'
<1>1. Reached' = Reached /\ DOMAIN from_' = DOMAIN from_ /\ DOMAIN frames' = DOMAIN frames
  BY UnseenGraph DEF Unseen
<1>2. /\ \A i \in DOMAIN from_ : from_[i].fwd # GC_NULL => i \in Reached
      /\ \A f \in gc.visited : -f \in Reached
      /\ \A f \in DOMAIN frames : FrameItem(f) \in Range(gc.todo) => -f \in Reached
  BY DEF ReachedInv, FrameNodes
<1>3. \A i \in DOMAIN from_' : from_'[i].fwd # GC_NULL => i \in Reached'
  BY <1>1, <1>2
<1>4. FrameNodes(gc'.visited) \subseteq Reached'
  BY <1>1, <1>2 DEF FrameNodes
<1>5. \A f \in DOMAIN frames' : FrameItem(f) \in Range(gc'.todo) => -f \in Reached'
  BY <1>1, <1>2
<1> QED
  BY <1>3, <1>4, <1>5 DEF ReachedInv

(* A step that moves nothing. *)
LEMMA ScanReaches ==
  ASSUME MemoryInv, Collecting, ReachedInv, UNCHANGED <<from_, to_, frames, env_, val_, active>>,
         \A s \in Slots : IsAggregate(At(s)) => (s \in gc'.done <=> s \in gc.done),
         \A f \in gc'.visited : f \in gc.visited \/ -f \in Reached,
         \A f \in DOMAIN frames : FrameItem(f) \in Range(gc'.todo)
            => FrameItem(f) \in Range(gc.todo) \/ -f \in Reached
  PROVE  Unseen /\ ReachedInv'
<1>1. Unseen
  BY NothingMoves
<1> QED
  BY <1>1, ReachedGrows

PoppedDone == gc.done \cup {Next1}

LEMMA PoppedFacts ==
  ASSUME MemoryInv, Scanning
  PROVE  /\ Popped.visited = gc.visited /\ Popped.todo = Tail(gc.todo) /\ Popped.done = PoppedDone
         /\ Tail(gc.todo) \in Seq(Items) /\ Range(Tail(gc.todo)) \subseteq Range(gc.todo)
         /\ gc \in Control /\ Popped \in Control
<1> DEFINE g == gc
           t == Next1
<1>1. g \in Control /\ t \in Items /\ g.todo # << >> /\ Popped = [g EXCEPT !.todo = Tail(@), !.done = @ \cup {t}]
  BY CollectFacts, NextFacts DEF Popped
<1>2. Tail(g.todo) \in Seq(Items)
  BY <1>1 DEF Control
<1>3. Range(Tail(g.todo)) \subseteq Range(g.todo)
  BY NextFacts
<1>4. PoppedDone = g.done \cup {t}
  BY DEF PoppedDone
<1> HIDE DEF g, t
<1>5. /\ Popped.visited = g.visited /\ Popped.todo = Tail(g.todo) /\ Popped.done = g.done \cup {t}
      /\ Popped \in Control
  BY <1>1, <1>2 DEF Control
<1> QED
  BY <1>1, <1>2, <1>3, <1>4, <1>5 DEF g

LEMMA ScanNoneReaches ==
  ASSUME MemoryInv, ScanNone, ReachedInv
  PROVE  Unseen /\ ReachedInv'
<1>1. /\ Scanning /\ IsSlot(Next1) /\ At(Next1).type = "None" /\ gc' = Popped /\ Collecting
      /\ UNCHANGED <<from_, to_, frames, env_, val_, active>>
  BY DEF ScanNone, Scanning
<1>2. gc'.visited = gc.visited /\ gc'.todo = Tail(gc.todo) /\ gc'.done = PoppedDone /\ Range(Tail(gc.todo)) \subseteq Range(gc.todo)
  BY <1>1, PoppedFacts
<1>3. \A s \in Slots : IsAggregate(At(s)) => (s \in gc'.done <=> s \in gc.done)
  BY <1>1, <1>2 DEF PoppedDone, IsAggregate
<1> QED
  BY <1>1, <1>2, <1>3, ScanReaches

LEMMA ScanFuncReaches ==
  ASSUME MemoryInv, ScanFunc, ReachedInv
  PROVE  Unseen /\ ReachedInv'
<1> DEFINE env   == At(Next1).env
           items == [i \in DOMAIN env |-> FrameItem(env[i])]
<1>1. /\ Scanning /\ IsSlot(Next1) /\ At(Next1).type = "Func" /\ Collecting
      /\ gc' = [Popped EXCEPT !.todo = items \o @]
      /\ UNCHANGED <<from_, to_, frames, env_, val_, active>>
  BY DEF ScanFunc, Scanning
<1>2. /\ Popped.visited = gc.visited /\ Popped.todo = Tail(gc.todo) /\ Popped.done = PoppedDone
      /\ Tail(gc.todo) \in Seq(Items) /\ Range(Tail(gc.todo)) \subseteq Range(gc.todo)
      /\ gc \in Control /\ Popped \in Control
  BY <1>1, PoppedFacts
<1>3. Next1 \in Slots /\ DOMAIN frames \subseteq FrameNumbers
  BY <1>1, CollectFacts, NextFacts
<1>4. env \in Seq(DOMAIN frames)
  BY <1>1, <1>3, SlotValues, ValueFacts
<1>5. \A f \in Range(env) \cap DOMAIN frames : -f \in Reached
  BY <1>1, NextIsReached
<1> HIDE DEF env
<1>6. DOMAIN env = 1..Len(env) /\ Len(env) \in Nat /\ \A i \in 1..Len(env) : env[i] \in DOMAIN frames
  BY <1>4
<1>7. \A i \in 1..Len(env) : FrameItem(env[i]) \in Items
  BY <1>3, <1>6, ItemsType
<1>8. items \in Seq(Items) /\ Len(items) = Len(env) /\ \A i \in 1..Len(env) : items[i] = FrameItem(env[i])
  BY <1>6, <1>7
<1>9. gc'.visited = gc.visited /\ gc'.todo = items \o Tail(gc.todo) /\ gc'.done = PoppedDone
  <2> DEFINE p == Popped
             h == gc'
             j == items \o Tail(gc.todo)
  <2>1. p \in Control /\ h = [p EXCEPT !.todo = j]
    BY <1>1, <1>2
  <2> HIDE DEF p, h, j
  <2>2. h.visited = p.visited /\ h.todo = j /\ h.done = p.done
    BY <2>1 DEF Control
  <2> QED
    BY <1>2, <2>2 DEF p, h, j
<1>10. \A s \in Slots : IsAggregate(At(s)) => (s \in gc'.done <=> s \in gc.done)
  BY <1>1, <1>9 DEF PoppedDone, IsAggregate
<1> HIDE DEF items
<1>11. ASSUME NEW f \in DOMAIN frames, FrameItem(f) \in Range(gc'.todo)
       PROVE  FrameItem(f) \in Range(gc.todo) \/ -f \in Reached
  <2> DEFINE rest == Tail(gc.todo)
  <2> HIDE DEF rest
  <2>1. rest \in Seq(Items) /\ gc'.todo = items \o rest
    BY <1>2, <1>9 DEF rest
  <2>2. \A q \in DOMAIN (items \o rest) :
           (\E i \in 1..Len(env) : (items \o rest)[q] = items[i]) \/ (\E i \in DOMAIN rest : (items \o rest)[q] = rest[i])
    <3>1. ASSUME NEW q \in DOMAIN (items \o rest)
          PROVE  (\E i \in 1..Len(env) : (items \o rest)[q] = items[i]) \/ (\E i \in DOMAIN rest : (items \o rest)[q] = rest[i])
      <4>1. CASE q <= Len(items)
        BY <1>8, <2>1, <3>1, <4>1
      <4>2. CASE q > Len(items)
        <5>1. q - Len(items) \in DOMAIN rest /\ (items \o rest)[q] = rest[q - Len(items)]
          BY <1>8, <2>1, <3>1, <4>2
        <5> QED
          BY <5>1
      <4>3. q \in Int /\ Len(items) \in Int
        BY <1>8, <2>1, <3>1
      <4> QED
        BY <4>1, <4>2, <4>3
    <3> QED
      BY <3>1
  <2>3. PICK q \in DOMAIN gc'.todo : gc'.todo[q] = FrameItem(f)
    BY <1>11 DEF Range
  <2>4. CASE \E i \in 1..Len(env) : gc'.todo[q] = items[i]
    <3>1. PICK i \in 1..Len(env) : FrameItem(f) = FrameItem(env[i])
      BY <1>8, <2>3, <2>4
    <3>2. f = env[i] /\ env[i] \in Range(env)
      BY <1>6, <3>1, ItemFacts DEF Range
    <3> QED
      BY <1>5, <3>2
  <2>5. CASE \E i \in DOMAIN rest : gc'.todo[q] = rest[i]
    <3>1. FrameItem(f) \in Range(rest)
      BY <2>3, <2>5 DEF Range
    <3> QED
      BY <1>2, <3>1 DEF rest
  <2> QED
    BY <2>1, <2>2, <2>3, <2>4, <2>5
<1> QED
  BY <1>1, <1>9, <1>10, <1>11, ScanReaches

LEMMA ScanFrameReaches ==
  ASSUME MemoryInv, ScanFrame, ReachedInv
  PROVE  Unseen /\ ReachedInv'
<1> DEFINE t    == Next1
           rest == Tail(gc.todo)
<1>1. /\ Scanning /\ ~IsSlot(t) /\ Collecting /\ UNCHANGED <<from_, to_, frames, env_, val_, active>>
      /\ gc' = IF t[2] \in gc.visited
               THEN [gc EXCEPT !.todo = Tail(@)]
               ELSE [gc EXCEPT !.todo = FrameSlots(t[2]) \o Tail(@),
                               !.visited = @ \cup {t[2]}]
  BY DEF ScanFrame, Scanning
<1>2. /\ Range(gc.todo) = {t} \cup Range(rest) /\ rest \in Seq(Items) /\ gc \in Control
      /\ \E f \in DOMAIN frames : t = FrameItem(f)
  BY <1>1, NextFacts, PoppedFacts
<1>3. PICK f \in DOMAIN frames : t = FrameItem(f)
  BY <1>2
<1>4. t[2] = f /\ -f \in Reached
  <2>1. FrameItem(f) \in Range(gc.todo)
    BY <1>2, <1>3
  <2> QED
    BY <1>1, <1>3, <2>1 DEF FrameItem, ReachedInv
<1> HIDE DEF t, rest
<1>5. CASE f \in gc.visited
  <2>1. gc'.visited = gc.visited /\ gc'.todo = rest /\ gc'.done = gc.done
    BY <1>1, <1>2, <1>4, <1>5 DEF t, rest, Control
  <2> QED
    BY <1>1, <1>2, <2>1, ScanReaches
<1>6. CASE f \notin gc.visited
  <2> DEFINE items == FrameSlots(f)
  <2>1. items \in Seq({VarSlot(f, n) : n \in Names}) /\ Range(items) = {VarSlot(f, n) : n \in Names}
    BY FrameSlotsFacts
  <2> HIDE DEF items
  <2>2. gc'.visited = gc.visited \cup {f} /\ gc'.todo = items \o rest /\ gc'.done = gc.done
    BY <1>1, <1>2, <1>4, <1>6 DEF t, rest, Control, items
  <2>3. ASSUME NEW g, FrameItem(g) \in Range(items \o rest) PROVE FrameItem(g) \in Range(rest)
    <3>1. PICK q \in DOMAIN (items \o rest) : (items \o rest)[q] = FrameItem(g)
      BY <2>3 DEF Range
    <3>2. /\ DOMAIN (items \o rest) = 1..Len(items) + Len(rest) /\ Len(items) \in Nat /\ Len(rest) \in Nat
          /\ q \in Int /\ DOMAIN rest = 1..Len(rest) /\ DOMAIN items = 1..Len(items)
      BY <1>2, <2>1, <3>1
    <3>3. CASE q <= Len(items)
      <4>1. (items \o rest)[q] = items[q] /\ items[q] \in Range(items)
        BY <1>2, <2>1, <3>1, <3>2, <3>3 DEF Range
      <4>2. PICK n \in Names : items[q] = VarSlot(f, n)
        BY <2>1, <4>1
      <4> QED
        BY <3>1, <4>1, <4>2, ItemFacts
    <3>4. CASE q > Len(items)
      <4>1. q - Len(items) \in DOMAIN rest /\ (items \o rest)[q] = rest[q - Len(items)]
        BY <1>2, <2>1, <3>1, <3>2, <3>4
      <4> QED
        BY <3>1, <4>1 DEF Range
    <3> QED
      BY <3>2, <3>3, <3>4
  <2> QED
    BY <1>1, <1>2, <1>4, <2>2, <2>3, ScanReaches
<1> QED
  BY <1>5, <1>6

LEMMA ScanObjReaches ==
  ASSUME MemoryInv, ScanObj, ReachedInv
  PROVE  Unseen /\ ReachedInv'
<1> DEFINE items == [k \in DOMAIN to_[gc.scan].values |-> ElemSlot(gc.scan, k)]
<1>1. /\ Collecting /\ gc' = [gc EXCEPT !.scan = @ + 1, !.todo = items]
      /\ UNCHANGED <<from_, to_, frames, env_, val_, active>> /\ gc \in Control
  BY CollectFacts DEF ScanObj
<1>2. \A f : FrameItem(f) \notin Range(items)
  BY ItemFacts DEF Range
<1> HIDE DEF items
<1>3. gc'.visited = gc.visited /\ gc'.todo = items /\ gc'.done = gc.done
  BY <1>1 DEF Control
<1> QED
  BY <1>1, <1>2, <1>3, ScanReaches

LEMMA ScanAggregateReaches ==
  ASSUME MemoryInv, ScanAggregate, ReachedInv
  PROVE  Unseen /\ ReachedInv'
<1>1. /\ ScansAggregate /\ Scanning /\ IsSlot(Next1) /\ IsAggregate(At(Next1)) /\ gc' = Popped /\ Collecting
  BY DEF ScanAggregate, ScansAggregate, Scanning
<1>2. gc'.visited = gc.visited /\ gc'.todo = Tail(gc.todo) /\ Range(Tail(gc.todo)) \subseteq Range(gc.todo)
  BY <1>1, PoppedFacts
<1>3. Unseen
  BY MovingIsUnseen
<1>4. HrefMoved \in Reached
  BY <1>1, NextIsReached DEF HrefMoved
<1>5. from_' = FromMoved /\ \A i \in DOMAIN from_ : i # HrefMoved => FromMoved[i] = from_[i]
  BY <1>1, EvacuateFacts, RedirectFacts
<1>6. \A i \in DOMAIN from_ : from_'[i].fwd # GC_NULL => from_[i].fwd # GC_NULL \/ i \in Reached
  BY <1>4, <1>5
<1> QED
  BY <1>1, <1>2, <1>3, <1>6, ReachedGrows

LEMMA GraphIsKnown == MemoryInv /\ Collecting => GraphIs /\ ReachedFacts
<1> SUFFICES ASSUME MemoryInv, Collecting
             PROVE  GraphIs /\ ReachedFacts
  OBVIOUS
<1>1. DOMAIN from_ \subseteq Nat \ {0} /\ DOMAIN frames \subseteq FrameNumbers
  BY CollectFacts
<1> QED
  BY <1>1, GraphFacts, ReachedIsClosed

(* Nothing but the roots has been met when a collection starts. *)
LEMMA StartReaches ==
  ASSUME MemoryInv', Collecting',
         \A i \in DOMAIN from_' : from_'[i].fwd = GC_NULL,
         gc'.visited = Range(env_'), \A f : FrameItem(f) \notin Range(gc'.todo)
  PROVE  ReachedInv'
<1>1. GraphIs' /\ ReachedFacts'
  BY GraphIsKnown, PTL
<1>2. Range(env_') \subseteq DOMAIN frames'
  BY DEF MemoryInv, Range
<1>3. \A f \in Range(env_') : -f \in Reached'
  BY <1>1, <1>2 DEF ReachedFacts
<1> QED
  BY <1>3 DEF ReachedInv, FrameNodes

LEMMA MaybeGcReaches ==
  ASSUME MemoryInv, MaybeGc
  PROVE  ReachedInv'
<1> DEFINE slots == SetToSeq(RootSlots)
           todo  == <<ValSlot>> \o slots
<1>1. /\ gc.phase = "next" /\ UNCHANGED <<from_, env_>>
      /\ StartCollection("collect", todo, RootFrames)
  BY DEF MaybeGc
<1>2. QuietInv
  BY <1>1, BetweenStatements
<1>5. gc'.phase = "collect" /\ gc'.todo = todo /\ gc'.visited = Range(env_)
  BY <1>1 DEF StartCollection, RootFrames
<1>6. slots \in Seq(RootSlots) /\ Range(slots) = RootSlots
  BY RootSlotsFacts
<1> HIDE DEF slots
<1>7. ASSUME NEW f PROVE FrameItem(f) \notin Range(todo)
  <2>1. ASSUME NEW q \in DOMAIN todo PROVE todo[q] # FrameItem(f)
    <3>1. DOMAIN todo = 1..Len(slots) + 1 /\ Len(slots) \in Nat /\ DOMAIN slots = 1..Len(slots)
      BY <1>6
    <3>2. CASE q = 1
      <4>1. todo[q] = ValSlot
        BY <1>6, <3>2
      <4> QED
        BY <4>1, ItemFacts
    <3>3. CASE q # 1
      <4>1. q - 1 \in DOMAIN slots /\ todo[q] = slots[q - 1]
        BY <1>6, <2>1, <3>1, <3>3
      <4>2. slots[q - 1] \in Range(slots)
        BY <4>1 DEF Range
      <4>3. PICK g \in Range(env_), n \in Names : todo[q] = VarSlot(g, n)
        BY <1>6, <4>1, <4>2 DEF RootSlots
      <4> QED
        BY <4>3, ItemFacts
    <3> QED
      BY <3>2, <3>3
  <2> QED
    BY <2>1 DEF Range
<1>8. \A i \in DOMAIN from_ : from_[i].fwd = GC_NULL
  <2> DEFINE V == DValuesOver(DOMAIN from_, DOMAIN frames)
  <2>1. from_ \in Seq(ObjectsOver({GC_NULL}, V))
    BY <1>2 DEF QuietInv
  <2> HIDE DEF V
  <2> QED
    BY <2>1, ObjectFacts
<1>9. MemoryInv' /\ Collecting' /\ gc'.visited = Range(env_') /\ \A i \in DOMAIN from_' : from_'[i].fwd = GC_NULL
  BY <1>1, <1>5, <1>8, MaybeGcKeeps DEF Collecting
<1> HIDE DEF todo
<1> QED
  BY <1>5, <1>7, <1>9, StartReaches

LEMMA EndRunReaches ==
  ASSUME MemoryInv, EndRun
  PROVE  ReachedInv'
<1>1. /\ gc.phase = "next" /\ StartCollection("clear", << >>, {}) /\ env_' = << >> /\ from_' = from_
  BY DEF EndRun
<1>2. QuietInv
  BY <1>1, BetweenStatements
<1>3. \A i \in DOMAIN from_ : from_[i].fwd = GC_NULL
  <2> DEFINE V == DValuesOver(DOMAIN from_, DOMAIN frames)
  <2>1. from_ \in Seq(ObjectsOver({GC_NULL}, V))
    BY <1>2 DEF QuietInv
  <2> HIDE DEF V
  <2> QED
    BY <2>1, ObjectFacts
<1>4. gc'.phase = "clear" /\ gc'.todo = << >> /\ gc'.visited = {}
  BY <1>1 DEF StartCollection
<1>5. Range(env_') = {} /\ Range(gc'.todo) = {}
  BY <1>1, <1>4 DEF Range
<1> QED
  BY <1>1, <1>3, <1>4, <1>5, EndRunKeeps, StartReaches DEF Collecting

(* Statements but for the end of the program start no collection, and none *)
(* is run during one. *)
LEMMA StatementIsOutside ==
  ASSUME MemoryInv, Statement, ~EndRun
  PROVE  ~Collecting /\ ~Collecting'
<1>1. gc = [gc EXCEPT !.phase = @] /\ \A p : [gc EXCEPT !.phase = p].phase = p
  BY DEF MemoryInv, Control
<1>2. Resumes => gc'.phase \in {"next", "run"}
  BY <1>1 DEF Resumes, PhaseAfter
<1>3. Proceeds \/ Returns => gc'.phase \in {"next", "run"}
  BY <1>2 DEF Proceeds, Returns
<1>4. CASE BeginStatement \/ LoopRunsPast
  BY <1>1, <1>4 DEF BeginStatement, LoopRunsPast, Inside, Running, Collecting
<1>5. CASE gc.phase = "run" /\ gc'.phase \in {"next", "run"}
  BY <1>5 DEF Collecting
<1>6. CASE EnterBody \/ LeaveBody \/ Iterate \/ LeaveLoop
  BY <1>3, <1>5, <1>6
     DEF EnterBody, LeaveBody, Iterate, LeaveLoop, AtStatement, Inside, Running
<1>7. ASSUME NEW i, ExitLoop(i) \/ ExitCall(i) PROVE ~Collecting /\ ~Collecting'
  BY <1>2, <1>3, <1>5, <1>7 DEF ExitLoop, ExitCall, AtStatement, Inside, Running
<1>15. ASSUME NEW v, OtherStatement(v) PROVE ~Collecting /\ ~Collecting'
  BY <1>3, <1>5, <1>15 DEF OtherStatement, AtStatement, Inside, Running
<1>8. ASSUME NEW x, AssignFunc(x) PROVE ~Collecting /\ ~Collecting'
  BY <1>3, <1>5, <1>8 DEF AssignFunc, AtStatement, Inside, Running
<1>9. ASSUME NEW x, NEW n, EnterLoop(x, n) PROVE ~Collecting /\ ~Collecting'
  BY <1>3, <1>5, <1>9 DEF EnterLoop, AtStatement, Inside, Running
<1>10. ASSUME NEW x, NEW v, AssignVariable(x, v) PROVE ~Collecting /\ ~Collecting'
  BY <1>3, <1>5, <1>10 DEF AssignVariable, AtStatement, Inside, Running
<1>11. ASSUME NEW x, NEW v, NEW k, AssignElement(x, k, v) PROVE ~Collecting /\ ~Collecting'
  BY <1>3, <1>5, <1>11 DEF AssignElement, AtStatement, Inside, Running
<1>12. ASSUME NEW x, NEW kind, NEW values, AssignNew(x, kind, values) PROVE ~Collecting /\ ~Collecting'
  BY <1>3, <1>5, <1>12 DEF AssignNew, AtStatement, Inside, Running
<1>13. ASSUME NEW x, NEW y, NEW n, NEW v, Call(x, y, n, v) PROVE ~Collecting /\ ~Collecting'
  BY <1>3, <1>5, <1>13 DEF Call, AtStatement, Inside, Running
<1>14. ASSUME NEW i, NEW v, Return(i, v) PROVE ~Collecting /\ ~Collecting'
  BY <1>3, <1>5, <1>14 DEF Return, AtStatement, Inside, Running
<1> QED
  BY <1>4, <1>6, <1>7, <1>8, <1>9, <1>10, <1>11, <1>12, <1>13, <1>14, <1>15
     DEF Statement

LEMMA ReachedStep == MemoryInv /\ ReachedInv /\ [Next]_vars => ReachedInv'
<1> SUFFICES ASSUME MemoryInv, ReachedInv, [Next]_vars
             PROVE  ReachedInv'
  OBVIOUS
<1>1. CASE Collecting
  <2>1. CASE UNCHANGED vars
    <3>1. UNCHANGED <<from_, to_, frames, env_, val_, active, gc>>
      BY <2>1 DEF vars
    <3> QED
      BY <1>1, <3>1, ScanReaches
  <2>2. CASE Statement
    <3>1. ~EndRun
      BY <1>1 DEF EndRun, Collecting
    <3> QED
      BY <1>1, <2>2, <3>1, StatementIsOutside
  <2>3. CASE CollectStep
    <3>1. ~MaybeGc
      BY <1>1 DEF MaybeGc, Collecting
    <3>2. CASE Finish
      <4>1. gc \in Control /\ gc'.phase \notin {"collect", "clear"}
        BY <3>2 DEF Finish, MemoryInv, Control
      <4> QED
        BY <4>1 DEF ReachedInv, Collecting
    <3> QED
      BY <2>3, <3>1, <3>2, ScanNoneReaches, ScanFuncReaches, ScanFrameReaches, ScanObjReaches,
         ScanAggregateReaches DEF CollectStep
  <2> QED
    BY <2>1, <2>2, <2>3 DEF Next, Ended, BoundReached
<1>2. CASE ~Collecting
  <2>1. CASE UNCHANGED vars
    BY <1>2, <2>1 DEF vars, Collecting, ReachedInv
  <2>2. CASE EndRun
    BY <2>2, EndRunReaches
  <2>3. CASE Statement /\ ~EndRun
    BY <2>3, StatementIsOutside DEF ReachedInv
  <2>4. CASE MaybeGc
    BY <2>4, MaybeGcReaches
  <2>5. CASE CollectStep /\ ~MaybeGc
    BY <1>2, <2>5 DEF CollectStep, ScanAggregate, ScanFunc, ScanNone, ScanFrame, ScanObj, Finish, Scanning
  <2> QED
    BY <2>1, <2>2, <2>3, <2>4, <2>5 DEF Next, Ended, BoundReached
<1> QED
  BY <1>1, <1>2

(* During a collection nothing is moved, and no frame visited, that the    *)
(* roots do not reach: scan_value and scan_obj of src/gc.cpp follow what   *)
(* the program could follow. *)
THEOREM OnlyReachedIsMet == Spec => []ReachedInv
<1>1. Init => ReachedInv
  BY DEF Init, ReachedInv, Collecting
<1> QED
  BY <1>1, ReachedStep, MemoryInvariant, PTL DEF Spec

-----------------------------------------------------------------------------
(* All that is reached has been met when the scan is over *)

Kept == {i \in DOMAIN from_ : from_[i].fwd # GC_NULL}
MetNodes == Kept \cup FrameNodes(gc.visited)

(* What a slot names that has been scanned has been met. *)
LEMMA DoneIsMet ==
  ASSUME ScanIsOver, NEW s \in gc.done
  PROVE  Nodes(Named(s)) \subseteq MetNodes
<1>1. /\ MemoryInv /\ Collecting /\ s \in Slots /\ At(s) \in DValuesOver(DOMAIN to_, gc.visited)
      /\ GC_NULL \notin DOMAIN to_
  BY AllScanned, CollectFacts DEF ScanIsOver, GC_NULL
<1>2. CASE IsAggregate(At(s))
  <2>1. PICK i \in DOMAIN from_ : from_[i].fwd = At(s).href /\ Named(s) = [At(s) EXCEPT !.href = i]
    BY <1>1, <1>2, NamesAre DEF NamedIs
  <2>2. At(s).href \in DOMAIN to_ /\ At(s).env = << >>
    BY <1>1, <1>2, ValueFacts DEF IsAggregate
  <2>3. i \in Kept
    BY <1>1, <2>1, <2>2 DEF Kept
  <2>4. Named(s).href = i /\ Named(s).env = << >>
    <3>1. PICK t, h, e, l : At(s) = [type |-> t, href |-> h, env |-> e, inLoop |-> l]
      BY <1>1, ValueFacts DEF DValue
    <3> QED
      BY <2>1, <2>2, <3>1
  <2>5. \A j \in Nodes(Named(s)) : j = i
    BY <2>4, NodesFacts DEF Range
  <2> QED
    BY <2>3, <2>5 DEF MetNodes
<1>3. CASE ~IsAggregate(At(s))
  <2>1. Named(s) = At(s)
    BY <1>1, <1>3, NamesAre DEF NamedIs
  <2>2. Range(At(s).env) \subseteq gc.visited
    BY <1>1, ValueFacts
  <2> QED
    BY <1>3, <2>1, <2>2, NodesFacts DEF MetNodes, FrameNodes
<1> QED
  BY <1>2, <1>3

(* What has been met leads to nothing else. *)
LEMMA MetIsClosed ==
  ASSUME ScanIsOver
  PROVE  \A j \in MetNodes : Graph[j] \subseteq MetNodes
<1>1. /\ MemoryInv /\ Collecting /\ CollectInv /\ MovesInv /\ MetInv /\ DOMAIN to_ = 1..Len(to_)
      /\ GraphIs /\ gc.visited \subseteq DOMAIN frames
  BY CollectFacts, GraphIsKnown DEF ScanIsOver, CollectInv, MetInv
<1>2. ASSUME NEW i \in Kept PROVE Graph[i] \subseteq MetNodes
  <2>1. PICK h \in DOMAIN to_ : from_[i].fwd = h
    BY <1>1 DEF Kept, MovesInv
  <2>2. Contents(i) = [k \in DOMAIN to_[h].values |-> Named(ElemSlot(h, k))]
    BY <1>1, <2>1, ContentsAre DEF ContentsIs, Kept
  <2>3. Graph[i] = NodesIn(Range(Contents(i)))
    BY <1>1 DEF GraphIs, Kept
  <2>4. PICK m : m = Contents(i)
    OBVIOUS
  <2>5. m = [k \in DOMAIN to_[h].values |-> m[k]] /\ \A k \in DOMAIN to_[h].values : m[k] = Named(ElemSlot(h, k))
    BY <2>2, <2>4
  <2>6. \A j \in NodesIn(Range(m)) : \E k \in DOMAIN to_[h].values : j \in Nodes(m[k])
    BY <2>5, NodesInFacts
  <2>7. \A k \in DOMAIN to_[h].values : Nodes(m[k]) \subseteq MetNodes
    BY <2>5, AllScanned, DoneIsMet
  <2> QED
    BY <2>3, <2>4, <2>6, <2>7
<1>3. ASSUME NEW f \in gc.visited PROVE Graph[-f] \subseteq MetNodes
  <2>1. Graph[-f] = NodesIn(Range(VariablesOf(f)))
    BY <1>1 DEF GraphIs
  <2>2. PICK m : m = VariablesOf(f)
    OBVIOUS
  <2>3. m = [n \in Names |-> m[n]] /\ \A n \in Names : m[n] = Named(VarSlot(f, n))
    BY <2>2 DEF VariablesOf
  <2>4. \A j \in NodesIn(Range(m)) : \E n \in Names : j \in Nodes(m[n])
    BY <2>3, NodesInFacts
  <2>5. \A n \in Names : Nodes(m[n]) \subseteq MetNodes
    BY <2>3, AllScanned, DoneIsMet
  <2> QED
    BY <2>1, <2>2, <2>4, <2>5
<1> QED
  BY <1>2, <1>3 DEF MetNodes, FrameNodes

LEMMA ReachedIsMet ==
  ASSUME ScanIsOver
  PROVE  Reached \subseteq MetNodes
<1>1. /\ MemoryInv /\ Collecting /\ CollectInv /\ MovesInv /\ MetInv /\ DOMAIN to_ = 1..Len(to_)
      /\ GraphIs /\ gc.visited \subseteq DOMAIN frames
  BY CollectFacts, GraphIsKnown DEF ScanIsOver, CollectInv, MetInv
<1> DEFINE roots == FrameNodes(Range(env_)) \cup Nodes(Named(ValSlot))
<1>2. MetNodes \subseteq DOMAIN Graph
  BY <1>1 DEF MetNodes, Kept, FrameNodes, GraphIs
<1>3. roots \subseteq MetNodes
  <2>1. FrameNodes(Range(env_)) \subseteq MetNodes
    BY <1>1 DEF MetInv, MetNodes, FrameNodes
  <2>2. CASE gc.phase = "clear"
    <3>1. val_ = None
      BY <1>1, <2>2 DEF MetInv
    <3>2. ~IsAggregate(val_) /\ val_.env = << >>
      BY <3>1 DEF None, DValue, IsAggregate
    <3>3. At(ValSlot) = val_
      BY SlotsPlaced DEF Placed
    <3>4. Named(ValSlot) = val_
      BY <3>2, <3>3 DEF Named
    <3>5. Nodes(Named(ValSlot)) = {}
      BY <3>2, <3>4, NodesFacts DEF Range
    <3> QED
      BY <2>1, <3>5
  <2>3. CASE gc.phase # "clear"
    <3>1. ValSlot \in gc.done
      BY <2>3, AllScanned
    <3> QED
      BY <2>1, <3>1, DoneIsMet
  <2> QED
    BY <2>2, <2>3
<1>4. \A j \in MetNodes : Graph[j] \cap DOMAIN Graph \subseteq MetNodes
  BY MetIsClosed
<1>5. Reached = Closure(Graph, roots)
  BY DEF Reached
<1> HIDE DEF roots
<1> QED
  BY <1>2, <1>3, <1>4, <1>5, ClosureFacts

(* There is one copy for each object that has moved. *)
LEMMA OneCopyEach ==
  ASSUME MemoryInv, Collecting
  PROVE  Cardinality(Kept) = Len(to_)
<1>1. /\ CollectInv /\ MovesInv /\ Len(from_) \in Nat /\ DOMAIN from_ = 1..Len(from_)
      /\ Len(to_) \in Nat /\ DOMAIN to_ = 1..Len(to_) /\ GC_NULL \notin DOMAIN to_
  BY CollectFacts DEF CollectInv, GC_NULL
<1> DEFINE copy == [i \in Kept |-> from_[i].fwd]
           S == Kept
           T == DOMAIN to_
<1>2. \A i \in Kept : copy[i] \in T /\ i \in DOMAIN from_ /\ copy[i] = from_[i].fwd /\ from_[i].fwd # GC_NULL
  BY <1>1 DEF Kept, MovesInv
<1>3. \A i, j \in Kept : copy[i] = copy[j] => i = j
  BY <1>1, <1>2 DEF MovesInv
<1>4. \A h \in T : \E i \in Kept : copy[i] = h
  BY <1>1 DEF Kept, MovesInv
<1>5. DOMAIN copy = Kept
  OBVIOUS
<1> HIDE DEF copy, T
<1>6. copy \in Bijection(S, T)
  <2>1. copy \in [S -> T]
    BY <1>2, <1>5 DEF copy
  <2> QED
    BY <1>3, <1>4, <2>1 DEF Bijection, Injection, Surjection, IsInjective
<1>7. IsFiniteSet(T) /\ Cardinality(T) = Len(to_)
  <2>1. ASSUME NEW n \in Nat PROVE IsFiniteSet(1..n) /\ Cardinality(1..n) = n
    <3>1. IsFiniteSet(1..n) /\ Cardinality(1..n) = IF 1 > n THEN 0 ELSE n - 1 + 1
      BY FS_Interval
    <3> QED
      BY <3>1
  <2> QED
    BY <1>1, <2>1 DEF T
<1>8. IsFiniteSet(S)
  <2>1. IsFiniteSet(DOMAIN from_)
    BY <1>1, FS_Interval
  <2> QED
    BY <2>1, FS_Subset DEF Kept
<1>9. ExistsBijection(S, T)
  BY <1>6 DEF ExistsBijection
<1> HIDE DEF S
<1>10. Cardinality(T) = Cardinality(S)
  BY <1>8, <1>9, FS_Bijection
<1> QED
  BY <1>7, <1>10 DEF S

LEMMA KeptIsReached ==
  ASSUME ScanIsOver, ReachedInv
  PROVE  CopiesAreTheLive
<1>1. MemoryInv /\ Collecting /\ GraphIs /\ gc.visited \subseteq DOMAIN frames
  BY GraphIsKnown, CollectFacts DEF ScanIsOver, CollectInv, MetInv
<1>2. Kept \subseteq DOMAIN from_ \cap Reached
  BY <1>1 DEF ReachedInv, Kept
<1>3. DOMAIN from_ \cap Reached \subseteq Kept
  <2>1. Reached \subseteq MetNodes
    BY ReachedIsMet
  <2>2. \A j \in FrameNodes(gc.visited) : j \notin DOMAIN from_
    BY <1>1 DEF FrameNodes, GraphIs
  <2> QED
    BY <2>1, <2>2 DEF MetNodes
<1>4. Kept = DOMAIN from_ \cap Reached /\ Cardinality(Kept) = Len(to_)
  BY <1>1, <1>2, <1>3, OneCopyEach
<1> QED
  BY <1>4 DEF CopiesAreTheLive, Kept, Reached

(* When collect() of src/gc.cpp has scanned all, to_ holds the objects     *)
(* that env_ and val_ reach, each once, and no other: no garbage is kept   *)
(* and nothing live is lost, whatever closures and objects hold each other. *)
THEOREM CollectionKeepsTheLive == Spec => []CopiesAreTheLive
<1>1. MemoryInv /\ ReachedInv => CopiesAreTheLive
  <2>1. ~(Collecting /\ gc.todo = << >> /\ ~Unscanned) => CopiesAreTheLive
    BY DEF CopiesAreTheLive
  <2> QED
    BY <2>1, KeptIsReached DEF ScanIsOver
<1> QED
  BY <1>1, OnlyReachedIsMet, MemoryInvariant, PTL

-----------------------------------------------------------------------------
(* The program cannot tell that a collection ran *)

(* Outside a collection a slot names what it holds. *)
QuietSeen ==
  /\ \A f \in DOMAIN frames : VariablesOf(f) = [n \in Names |-> frames[f][n]]
  /\ \A i \in DOMAIN from_ : Contents(i) = from_[i].values

LEMMA NothingIsNamedAnew ==
  ASSUME gc.done = {}, \A i \in DOMAIN from_ : from_[i].fwd = GC_NULL
  PROVE  QuietSeen
<1>1. ASSUME NEW s PROVE Named(s) = At(s)
  BY DEF Named
<1>2. ASSUME NEW f \in DOMAIN frames PROVE VariablesOf(f) = [n \in Names |-> frames[f][n]]
  BY <1>1, SlotsPlaced DEF VariablesOf, Placed
<1>3. \A i \in DOMAIN from_ : Contents(i) = from_[i].values
  BY DEF Contents
<1> QED
  BY <1>2, <1>3 DEF QuietSeen

StandsStill == gc.done = {} /\ \A i \in DOMAIN from_ : from_[i].fwd = GC_NULL

LEMMA StandsStillSeen == StandsStill => QuietSeen
BY NothingIsNamedAnew DEF StandsStill

LEMMA QuietStandsStill ==
  ASSUME QuietInv
  PROVE  StandsStill
<1> DEFINE V == DValuesOver(DOMAIN from_, DOMAIN frames)
<1>1. from_ \in Seq(ObjectsOver({GC_NULL}, V)) /\ gc.done = {}
  BY DEF QuietInv
<1> HIDE DEF V
<1> QED
  BY <1>1, ObjectFacts DEF StandsStill

LEMMA MaybeGcIsUnseen ==
  ASSUME MemoryInv, MaybeGc
  PROVE  View' = View
<1>1. gc.phase = "next" /\ gc'.done = {} /\ UNCHANGED <<from_, frames, env_, active>>
  BY DEF MaybeGc, StartCollection
<1>2. QuietInv /\ DOMAIN frames \subseteq FrameNumbers
  BY <1>1, BetweenStatements DEF MemoryInv
<1>3. StandsStill
  BY <1>2, QuietStandsStill
<1>4. StandsStill'
  BY <1>1, <1>3 DEF StandsStill
<1>5. QuietSeen /\ QuietSeen'
  BY <1>3, <1>4, StandsStillSeen, PTL
<1>6. DOMAIN from_ \subseteq Nat \ {0}
  BY <1>2 DEF QuietInv
<1>7. \A f \in DOMAIN frames : VariablesOf(f)' = VariablesOf(f)
  BY <1>1, <1>5 DEF QuietSeen
<1>8. \A i \in DOMAIN from_ : Contents(i)' = Contents(i)
  BY <1>1, <1>5 DEF QuietSeen
<1> QED
  BY <1>1, <1>2, <1>6, <1>7, <1>8, SeenUnchanged DEF SameSeen

(* Without an environment and without calls in progress nothing is seen. *)
EmptyView ==
  env_ = << >> /\ active = << >> =>
    View = [objects |-> [i \in {} |-> 0], frames |-> [f \in {} |-> 0], active |-> << >>]

LEMMA ViewIsEmpty == EmptyView
<1> SUFFICES ASSUME env_ = << >>, active = << >>
             PROVE  View = [objects |-> [i \in {} |-> 0], frames |-> [f \in {} |-> 0], active |-> << >>]
  BY DEF EmptyView
<1>1. FrameNodes(Range(env_)) = {} /\ UNION {Locals(a) : a \in Range(active)} = {}
  BY DEF FrameNodes, Range
<1>2. \A g : Closure(g, {}) = {}
  BY DEF Closure, Closed
<1>3. Live = {}
  BY <1>1, <1>2 DEF Live, LiveRoots
<1>4. PICK live : live = Live
  OBVIOUS
<1>5. live \cap DOMAIN from_ = {} /\ DOMAIN frames \cap FrameNodes(live) = {}
  BY <1>3, <1>4 DEF FrameNodes
<1>6. /\ [i \in live \cap DOMAIN from_ |-> [kind |-> from_[i].kind, values |-> Contents(i)]] = [i \in {} |-> 0]
      /\ [f \in DOMAIN frames \cap FrameNodes(live) |-> VariablesOf(f)] = [f \in {} |-> 0]
  BY <1>5
<1> QED
  BY <1>4, <1>6 DEF View

LEMMA NothingIsSeen ==
  ASSUME env_ = << >>, active = << >>, env_' = << >>, active' = active
  PROVE  View' = View
<1>1. EmptyView /\ EmptyView'
  BY ViewIsEmpty, PTL
<1> QED
  BY <1>1 DEF EmptyView

(* A collection that runs, or starts before a statement, is unseen. *)
LEMMA RunningIsUnseen ==
  ASSUME MemoryInv, ReachedInv, Next, Collecting', env_' = env_
  PROVE  View' = View
<1>1. CASE UNCHANGED vars
  BY <1>1 DEF vars, View, Live, LiveRoots, Graph, Contents, VariablesOf, Named, At, Origin
<1>2. CASE Statement
  <2>1. CASE EndRun
    <3>1. env_' = << >> /\ env_ = << >> /\ active = << >> /\ active' = active
      BY <2>1, BetweenStatements DEF EndRun
    <3> QED
      BY <3>1, NothingIsSeen
  <2>2. CASE ~EndRun
    BY <1>2, <2>2, StatementIsOutside
  <2> QED
    BY <2>1, <2>2
<1>3. CASE MaybeGc
  BY <1>3, MaybeGcIsUnseen
<1>4. CASE Finish
  <2>1. gc \in Control /\ gc'.phase \notin {"collect", "clear"}
    BY <1>4 DEF Finish, MemoryInv, Control
  <2> QED
    BY <2>1 DEF Collecting
<1>5. CASE ScanAggregate \/ ScanFunc \/ ScanNone \/ ScanFrame \/ ScanObj
  <2>1. Unseen
    BY <1>5, ScanNoneReaches, ScanFuncReaches, ScanFrameReaches, ScanObjReaches, ScanAggregateReaches
  <2>2. Collecting
    BY <1>5 DEF ScanAggregate, ScanFunc, ScanNone, ScanFrame, ScanObj, Scanning
  <2> QED
    BY <2>1, <2>2, UnseenGraph
<1> QED
  BY <1>1, <1>2, <1>3, <1>4, <1>5 DEF Next, CollectStep, Ended, BoundReached

-----------------------------------------------------------------------------
(* The end of a collection: every object takes the index of its copy *)

(* The node of an object or a frame, when objects go by their new index. *)
To(j) == IF j \in DOMAIN from_ THEN from_[j].fwd ELSE j

TranslatedBack ==
  \A s \in gc.done : /\ Translated(Named(s)) = At(s)
                     /\ Nodes(At(s)) = {To(j) : j \in Nodes(Named(s))}

LEMMA NamesTranslated ==
  ASSUME ScanIsOver
  PROVE  TranslatedBack
<1>1. MemoryInv /\ Collecting /\ gc.done \subseteq Slots /\ GraphIs
  BY CollectFacts, GraphIsKnown DEF ScanIsOver
<1>2. ASSUME NEW s \in gc.done
      PROVE  Translated(Named(s)) = At(s) /\ Nodes(At(s)) = {To(j) : j \in Nodes(Named(s))}
  <2>1. At(s) \in DValuesOver(Nat, DOMAIN frames) /\ s \in Slots
    BY <1>1, <1>2, SlotValues
  <2>2. CASE IsAggregate(At(s))
    <3>1. PICK i \in DOMAIN from_ : from_[i].fwd = At(s).href /\ Named(s) = [At(s) EXCEPT !.href = i]
      BY <1>1, <1>2, <2>1, <2>2, NamesAre DEF NamedIs
    <3>2. PICK t, h, e, l : At(s) = [type |-> t, href |-> h, env |-> e, inLoop |-> l]
      BY <2>1, ValueFacts DEF DValue
    <3>3. Named(s) = [type |-> t, href |-> i, env |-> e, inLoop |-> l] /\ from_[i].fwd = h
      BY <3>1, <3>2
    <3>4. IsAggregate(Named(s)) /\ e = << >>
      BY <2>1, <2>2, <3>2, <3>3, ValueFacts DEF IsAggregate
    <3>5. Translated(Named(s)) = [Named(s) EXCEPT !.href = from_[Named(s).href].fwd]
      BY <3>4 DEF Translated
    <3>6. Translated(Named(s)) = At(s)
      BY <3>2, <3>3, <3>5
    <3>7. \A j : j \in Nodes(Named(s)) <=> j = i
      BY <3>3, <3>4, NodesFacts DEF Range
    <3>8. \A j : j \in Nodes(At(s)) <=> j = h
      BY <2>2, <3>2, <3>4, NodesFacts DEF Range
    <3>9. To(i) = h
      BY <3>1, <3>3 DEF To
    <3> QED
      BY <3>6, <3>7, <3>8, <3>9
  <2>3. CASE ~IsAggregate(At(s))
    <3>1. Named(s) = At(s) /\ Translated(Named(s)) = At(s)
      BY <1>1, <2>1, <2>3, NamesAre DEF NamedIs, Translated
    <3>2. \A j \in Nodes(At(s)) : \E f \in DOMAIN frames : j = -f
      BY <2>1, <2>3, ValueFacts, NodesFacts
    <3>3. \A j \in Nodes(At(s)) : To(j) = j
      BY <1>1, <3>2 DEF To, GraphIs
    <3> QED
      BY <3>1, <3>3
  <2> QED
    BY <2>2, <2>3
<1> QED
  BY <1>2 DEF TranslatedBack

LEMMA NodesTranslated ==
  ASSUME NEW d, NEW m, m = [k \in d |-> m[k]], NEW m2, m2 = [k \in d |-> m2[k]],
         \A k \in d : Nodes(m2[k]) = {To(j) : j \in Nodes(m[k])}
  PROVE  NodesIn(Range(m2)) = {To(j) : j \in NodesIn(Range(m))}
<1>1. /\ \A k \in d : Nodes(m[k]) \subseteq NodesIn(Range(m))
      /\ \A j \in NodesIn(Range(m)) : \E k \in d : j \in Nodes(m[k])
  BY NodesInFacts
<1>2. /\ \A k \in d : Nodes(m2[k]) \subseteq NodesIn(Range(m2))
      /\ \A j \in NodesIn(Range(m2)) : \E k \in d : j \in Nodes(m2[k])
  BY NodesInFacts
<1>3. ASSUME NEW x \in NodesIn(Range(m2)) PROVE \E j \in NodesIn(Range(m)) : x = To(j)
  <2>1. PICK k \in d : x \in Nodes(m2[k])
    BY <1>2
  <2>2. PICK j \in Nodes(m[k]) : x = To(j)
    BY <2>1
  <2> QED
    BY <1>1, <2>2
<1>4. ASSUME NEW j \in NodesIn(Range(m)) PROVE To(j) \in NodesIn(Range(m2))
  <2>1. PICK k \in d : j \in Nodes(m[k])
    BY <1>1
  <2>2. To(j) \in Nodes(m2[k])
    BY <2>1
  <2> QED
    BY <1>2, <2>2
<1> QED
  BY <1>3, <1>4

(* What the objects and frames that have been met hold. *)
MetTranslated ==
  /\ \A i \in Kept : \A h \in DOMAIN to_ : from_[i].fwd = h =>
        /\ TranslatedAll(Contents(i)) = to_[h].values
        /\ NodesIn(Range(to_[h].values)) = {To(j) : j \in Graph[i]}
  /\ \A f \in gc.visited :
        /\ TranslatedAll(VariablesOf(f)) = frames[f]
        /\ NodesIn(Range(frames[f])) = {To(j) : j \in Graph[-f]}

LEMMA MetIsTranslated ==
  ASSUME ScanIsOver
  PROVE  MetTranslated
<1>1. /\ MemoryInv /\ Collecting /\ CollectInv /\ GraphIs /\ gc.visited \subseteq DOMAIN frames
      /\ DOMAIN to_ = 1..Len(to_)
  BY CollectFacts, GraphIsKnown DEF ScanIsOver, CollectInv, MetInv
<1>2. TranslatedBack /\ Placed /\ ContentsIs
  BY <1>1, NamesTranslated, SlotsPlaced, ContentsAre
<1>3. ASSUME NEW i \in Kept, NEW h \in DOMAIN to_, from_[i].fwd = h
      PROVE  /\ TranslatedAll(Contents(i)) = to_[h].values
             /\ NodesIn(Range(to_[h].values)) = {To(j) : j \in Graph[i]}
  <2> DEFINE d == DOMAIN to_[h].values
  <2>1. i \in DOMAIN from_ /\ Graph[i] = NodesIn(Range(Contents(i)))
    BY <1>1 DEF Kept, GraphIs
  <2>2. PICK m : m = Contents(i)
    OBVIOUS
  <2>3. m = [k \in d |-> m[k]] /\ DOMAIN m = d /\ \A k \in d : m[k] = Named(ElemSlot(h, k))
    BY <1>2, <1>3, <2>1, <2>2 DEF ContentsIs
  <2>4. PICK m2 : m2 = to_[h].values
    OBVIOUS
  <2>5. \A k \in d : ElemSlot(h, k) \in gc.done /\ At(ElemSlot(h, k)) = m2[k]
    BY <1>2, <2>4, AllScanned DEF Placed
  <2>6. m2 = [k \in d |-> m2[k]]
    <3> DEFINE V == DValuesOver(Nat, DOMAIN frames)
    <3>1. to_ \in Seq(ObjectsOver({GC_NULL}, V))
      BY <1>1 DEF CollectInv
    <3> HIDE DEF V
    <3>2. to_[h].values \in Seq(V)
      BY <3>1, ObjectFacts
    <3> QED
      BY <2>4, <3>2
  <2>7. \A k \in d : Translated(m[k]) = m2[k] /\ Nodes(m2[k]) = {To(j) : j \in Nodes(m[k])}
    BY <1>2, <2>3, <2>5 DEF TranslatedBack
  <2> HIDE DEF d
  <2>8. TranslatedAll(m) = m2
    BY <2>3, <2>6, <2>7 DEF TranslatedAll
  <2>9. NodesIn(Range(m2)) = {To(j) : j \in NodesIn(Range(m))}
    <3>1. PICK e : e = d
      OBVIOUS
    <3>2. m = [k \in e |-> m[k]] /\ m2 = [k \in e |-> m2[k]]
      BY <2>3, <2>6, <3>1
    <3>3. \A k \in e : Nodes(m2[k]) = {To(j) : j \in Nodes(m[k])}
      BY <2>7, <3>1
    <3> QED
      BY <3>2, <3>3, NodesTranslated, SMTT(30)
  <2> QED
    BY <2>1, <2>2, <2>4, <2>8, <2>9
<1>4. ASSUME NEW f \in gc.visited
      PROVE  /\ TranslatedAll(VariablesOf(f)) = frames[f]
             /\ NodesIn(Range(frames[f])) = {To(j) : j \in Graph[-f]}
  <2> DEFINE d == Names
  <2>1. f \in DOMAIN frames /\ Graph[-f] = NodesIn(Range(VariablesOf(f)))
    BY <1>1 DEF GraphIs
  <2>2. PICK m : m = VariablesOf(f)
    OBVIOUS
  <2>3. m = [k \in d |-> m[k]] /\ DOMAIN m = d /\ \A k \in d : m[k] = Named(VarSlot(f, k))
    BY <2>2 DEF VariablesOf
  <2>4. PICK m2 : m2 = frames[f]
    OBVIOUS
  <2>5. \A k \in d : VarSlot(f, k) \in gc.done /\ At(VarSlot(f, k)) = m2[k]
    BY <1>2, <2>4, AllScanned DEF Placed
  <2>6. m2 = [k \in d |-> m2[k]]
    <3> DEFINE V == DValuesOver(Nat, DOMAIN frames)
    <3>1. frames \in FramesOver(DOMAIN frames, V)
      BY <1>1 DEF CollectInv
    <3> HIDE DEF V
    <3> QED
      BY <2>1, <2>4, <3>1 DEF FramesOver
  <2>7. \A k \in d : Translated(m[k]) = m2[k] /\ Nodes(m2[k]) = {To(j) : j \in Nodes(m[k])}
    BY <1>2, <2>3, <2>5 DEF TranslatedBack
  <2> HIDE DEF d
  <2>8. TranslatedAll(m) = m2
    BY <2>3, <2>6, <2>7 DEF TranslatedAll
  <2>9. NodesIn(Range(m2)) = {To(j) : j \in NodesIn(Range(m))}
    <3>1. PICK e : e = d
      OBVIOUS
    <3>2. m = [k \in e |-> m[k]] /\ m2 = [k \in e |-> m2[k]]
      BY <2>3, <2>6, <3>1
    <3>3. \A k \in e : Nodes(m2[k]) = {To(j) : j \in Nodes(m[k])}
      BY <2>7, <3>1
    <3> QED
      BY <3>2, <3>3, NodesTranslated, SMTT(30)
  <2> QED
    BY <2>1, <2>2, <2>4, <2>8, <2>9
<1> QED
  BY <1>3, <1>4 DEF MetTranslated

Finishes == MemoryInv /\ ReachedInv /\ Finish

(* The heap and the graph after the step. *)
After ==
  /\ from_' = to_ /\ env_' = env_ /\ active' = << >> /\ active = << >>
  /\ DOMAIN frames' \subseteq DOMAIN frames /\ \A f \in DOMAIN frames' : frames'[f] = frames[f]
  /\ Range(env_) \subseteq DOMAIN frames'
  /\ QuietSeen' /\ GraphIs'
  /\ \A x \in DOMAIN Graph' : Graph'[x] \subseteq DOMAIN Graph'

LEMMA QuietGraph ==
  ASSUME MemoryInv, ~Collecting
  PROVE  QuietSeen /\ GraphIs /\ \A x \in DOMAIN Graph : Graph[x] \subseteq DOMAIN Graph
<1> DEFINE V == DValuesOver(DOMAIN from_, DOMAIN frames)
<1>1. QuietInv /\ DOMAIN frames \subseteq FrameNumbers
  BY DEF MemoryInv
<1>2. QuietSeen
  BY <1>1, QuietStandsStill, StandsStillSeen
<1>3. from_ \in Seq(ObjectsOver({GC_NULL}, V)) /\ frames \in FramesOver(DOMAIN frames, V)
  BY <1>1 DEF QuietInv
<1>4. DOMAIN from_ \subseteq Nat \ {0}
  BY <1>3
<1>5. GraphIs
  BY <1>1, <1>4, GraphFacts
<1>6. ASSUME NEW v \in V PROVE Nodes(v) \subseteq DOMAIN Graph
  BY <1>5, <1>6, ValueFacts, NodesFacts DEF GraphIs
<1> HIDE DEF V
<1>7. ASSUME NEW i \in DOMAIN from_ PROVE Graph[i] \subseteq DOMAIN Graph
  <2>1. PICK m : m = from_[i].values
    OBVIOUS
  <2>2. Graph[i] = NodesIn(Range(m))
    BY <1>2, <1>5, <2>1 DEF GraphIs, QuietSeen
  <2>3. m \in Seq(V) /\ DOMAIN m = 1..Len(m)
    BY <1>3, <2>1, ObjectFacts
  <2>4. m = [k \in DOMAIN m |-> m[k]] /\ \A k \in DOMAIN m : m[k] \in V
    BY <2>3
  <2>5. \A j \in NodesIn(Range(m)) : \E k \in DOMAIN m : j \in Nodes(m[k])
    BY <2>4, NodesInFacts
  <2> QED
    BY <1>6, <2>2, <2>4, <2>5
<1>8. ASSUME NEW f \in DOMAIN frames PROVE Graph[-f] \subseteq DOMAIN Graph
  <2>1. PICK m : m = VariablesOf(f)
    OBVIOUS
  <2>2. Graph[-f] = NodesIn(Range(m))
    BY <1>5, <2>1 DEF GraphIs
  <2>3. m = [n \in Names |-> m[n]] /\ \A n \in Names : m[n] \in V
    BY <1>2, <1>3, <2>1 DEF QuietSeen, FramesOver
  <2>4. \A j \in NodesIn(Range(m)) : \E n \in Names : j \in Nodes(m[n])
    BY <2>3, NodesInFacts
  <2> QED
    BY <1>6, <2>2, <2>3, <2>4
<1>9. \A x \in DOMAIN Graph : x \in DOMAIN from_ \/ \E f \in DOMAIN frames : x = -f
  BY <1>5 DEF GraphIs
<1> QED
  BY <1>2, <1>5, <1>7, <1>8, <1>9

QuietGraphInv ==
  MemoryInv /\ ~Collecting =>
     QuietSeen /\ GraphIs /\ \A x \in DOMAIN Graph : Graph[x] \subseteq DOMAIN Graph

LEMMA QuietGraphHolds == QuietGraphInv
BY QuietGraph DEF QuietGraphInv

LEMMA FinishFacts ==
  ASSUME Finishes
  PROVE  ScanIsOver /\ After
<1>1. /\ MemoryInv /\ Finish /\ Collecting /\ gc.todo = << >> /\ ~Unscanned
      /\ from_' = to_ /\ FramesBecome(frames) /\ UNCHANGED <<env_, active>>
  BY DEF Finishes, Finish
<1>2. gc \in Control /\ gc'.phase \notin {"collect", "clear"} /\ active = << >>
  <2>1. gc \in Control /\ CollectInv
    BY <1>1, CollectFacts
  <2>2. gc'.phase \notin {"collect", "clear"}
    BY <1>1, <2>1 DEF Finish, Control
  <2> QED
    BY <2>1, <2>2 DEF CollectInv
<1>3. MemoryInv' /\ ~Collecting'
  BY <1>1, <1>2, FinishKeeps DEF Collecting
<1>4. /\ DOMAIN frames' \subseteq DOMAIN frames
      /\ frames' = [f \in DOMAIN frames' |-> frames[f]]
  BY <1>1, FramesKept
<1>5. Range(env_') \subseteq DOMAIN frames'
  BY <1>3 DEF MemoryInv, Range
<1>6. QuietGraphInv'
  BY QuietGraphHolds, PTL
<1>7. QuietSeen' /\ GraphIs' /\ \A x \in DOMAIN Graph' : Graph'[x] \subseteq DOMAIN Graph'
  BY <1>3, <1>6 DEF QuietGraphInv
<1> QED
  BY <1>1, <1>2, <1>4, <1>5, <1>7 DEF ScanIsOver, After

(* The graph is the same, object by object and frame by frame. *)
LEMMA GraphTranslated ==
  ASSUME Finishes
  PROVE  \A j \in MetNodes : To(j) \in DOMAIN Graph' => Graph'[To(j)] = {To(k) : k \in Graph[j]}
<1>1. ScanIsOver /\ After /\ MetTranslated /\ GraphIs /\ MovesInv
  BY FinishFacts, MetIsTranslated, GraphIsKnown, CollectFacts DEF ScanIsOver, CollectInv
<1>2. ASSUME NEW i \in Kept PROVE Graph'[To(i)] = {To(k) : k \in Graph[i]}
  <2>1. PICK h \in DOMAIN to_ : from_[i].fwd = h
    BY <1>1 DEF Kept, MovesInv
  <2>2. To(i) = h
    BY <2>1 DEF To, Kept
  <2>3. Graph'[h] = NodesIn(Range(Contents(h)'))
    BY <1>1, <2>1 DEF After, GraphIs
  <2>4. Contents(h)' = to_[h].values
    BY <1>1, <2>1 DEF After, QuietSeen
  <2> QED
    BY <1>1, <2>1, <2>2, <2>3, <2>4 DEF MetTranslated
<1>3. ASSUME NEW f \in gc.visited, -f \in DOMAIN Graph'
      PROVE  To(-f) = -f /\ Graph'[-f] = {To(k) : k \in Graph[-f]}
  <2>1. f \in DOMAIN frames /\ -f \notin DOMAIN from_
    BY <1>1, CollectFacts DEF GraphIs, ScanIsOver, CollectInv, MetInv
  <2>2. To(-f) = -f
    BY <2>1 DEF To
  <2>3. f \in DOMAIN frames'
    <3>1. f \in Nat \ {0} /\ DOMAIN to_ \subseteq Nat /\ DOMAIN frames \subseteq Nat
      BY <1>1, <2>1, CollectFacts, HeapAssumption DEF ScanIsOver, FrameNumbers
    <3>2. -f \notin DOMAIN from_'
      BY <1>1, <3>1 DEF After
    <3>3. PICK g \in DOMAIN frames' : -f = -g
      BY <1>1, <1>3, <3>2 DEF After, GraphIs
    <3> QED
      BY <1>1, <2>1, <3>1, <3>3 DEF After, GraphIs
  <2>4. Graph'[-f] = NodesIn(Range(VariablesOf(f)'))
    BY <1>1, <2>3 DEF After, GraphIs
  <2>5. VariablesOf(f)' = frames[f]
    <3> DEFINE V == DValuesOver(Nat, DOMAIN frames)
    <3>1. frames \in FramesOver(DOMAIN frames, V)
      BY <1>1, CollectFacts DEF ScanIsOver, CollectInv
    <3> HIDE DEF V
    <3>2. frames[f] = [n \in Names |-> frames[f][n]]
      BY <2>1, <3>1 DEF FramesOver
    <3>3. VariablesOf(f)' = [n \in Names |-> frames'[f][n]] /\ frames'[f] = frames[f]
      BY <1>1, <2>3 DEF After, QuietSeen
    <3> QED
      BY <3>2, <3>3
  <2> QED
    BY <1>1, <2>2, <2>4, <2>5 DEF MetTranslated
<1>4. \A j \in MetNodes : j \in Kept \/ \E f \in gc.visited : j = -f
  BY DEF MetNodes, FrameNodes
<1>5. \A f \in gc.visited : To(-f) = -f
  BY <1>1, CollectFacts DEF To, GraphIs, ScanIsOver, CollectInv, MetInv
<1> QED
  BY <1>2, <1>3, <1>4, <1>5

(* What is live has been met, and is live under its new index. *)
LEMMA LiveTranslated ==
  ASSUME Finishes
  PROVE  Live \subseteq MetNodes /\ Live' = {To(j) : j \in Live}
<1>1. ScanIsOver /\ After /\ GraphIs /\ MemoryInv /\ Collecting
  BY FinishFacts, GraphIsKnown DEF ScanIsOver
<1>2. LiveRoots = FrameNodes(Range(env_)) /\ LiveRoots' = FrameNodes(Range(env_))
  <2>1. Range(active) = {} /\ Range(active') = {}
    BY <1>1 DEF After, Range
  <2>2. LiveRoots = FrameNodes(Range(env_))
    BY <2>1 DEF LiveRoots
  <2>3. LiveRoots' = FrameNodes(Range(env_'))
    BY <2>1 DEF LiveRoots
  <2> QED
    BY <1>1, <2>2, <2>3 DEF After
<1>3. Live = Closure(Graph, LiveRoots) /\ Live' = Closure(Graph', LiveRoots')
  BY OneGraph DEF Live
<1> DEFINE roots == FrameNodes(Range(env_))
           G == Graph
           H == Graph'
           live == Closure(G, roots)
           liveN == Closure(H, roots)
<1>4. Live = live /\ Live' = liveN
  BY <1>2, <1>3
<1>5. /\ live \subseteq DOMAIN G /\ roots \cap DOMAIN G \subseteq live
      /\ \A j \in live : G[j] \cap DOMAIN G \subseteq live
      /\ \A S \in SUBSET DOMAIN G :
            (roots \cap DOMAIN G \subseteq S /\ \A j \in S : G[j] \cap DOMAIN G \subseteq S) => live \subseteq S
  BY ClosureFacts
<1>6. /\ liveN \subseteq DOMAIN H /\ roots \cap DOMAIN H \subseteq liveN
      /\ \A j \in liveN : H[j] \cap DOMAIN H \subseteq liveN
      /\ \A S \in SUBSET DOMAIN H :
            (roots \cap DOMAIN H \subseteq S /\ \A j \in S : H[j] \cap DOMAIN H \subseteq S) => liveN \subseteq S
  BY ClosureFacts
<1>7. \A j \in roots : j \in DOMAIN G /\ j \in DOMAIN H /\ To(j) = j
  <2>1. ASSUME NEW f \in Range(env_) PROVE -f \in DOMAIN G /\ -f \in DOMAIN H /\ To(-f) = -f
    <3>1. f \in DOMAIN frames /\ f \in DOMAIN frames'
      BY <1>1 DEF After
    <3> QED
      BY <1>1, <3>1 DEF After, GraphIs, To
  <2> QED
    BY <2>1 DEF FrameNodes
<1>8. live \subseteq MetNodes
  <2>1. Reached \subseteq MetNodes
    BY <1>1, ReachedIsMet
  <2>2. Reached \subseteq DOMAIN G /\ \A j \in Reached : G[j] \cap DOMAIN G \subseteq Reached
    BY <1>1, ReachedIsClosed DEF ReachedFacts
  <2>3. roots \subseteq Reached
    <3>1. \A f \in Range(env_) : -f \in Reached
      BY <1>1, ReachedIsClosed DEF ReachedFacts, After
    <3> QED
      BY <3>1 DEF FrameNodes
  <2> QED
    BY <1>5, <2>1, <2>2, <2>3
<1>9. \A j \in MetNodes : G[j] \subseteq MetNodes /\ j \in DOMAIN G
  <2>1. MetNodes \subseteq DOMAIN G
    BY <1>1, CollectFacts DEF MetNodes, Kept, FrameNodes, GraphIs, CollectInv, MetInv
  <2> QED
    BY <1>1, <2>1, MetIsClosed
<1>10. \A j \in MetNodes : To(j) \in DOMAIN H => H[To(j)] = {To(k) : k \in G[j]}
  BY GraphTranslated
<1>11. \A x \in DOMAIN H : H[x] \subseteq DOMAIN H
  BY <1>1 DEF After
<1> HIDE DEF roots, G, H, live, liveN
<1>12. \A j \in live : To(j) \in liveN
  <2> DEFINE S == {j \in live : To(j) \in liveN}
  <2>1. S \in SUBSET DOMAIN G /\ roots \cap DOMAIN G \subseteq S
    BY <1>5, <1>6, <1>7
  <2>2. ASSUME NEW j \in S, NEW k \in G[j] \cap DOMAIN G PROVE k \in S
    <3>1. j \in live /\ k \in live /\ j \in MetNodes
      BY <1>5, <1>8, <2>2
    <3>2. To(j) \in liveN /\ To(j) \in DOMAIN H
      BY <1>6, <2>2
    <3>3. To(k) \in H[To(j)]
      BY <1>10, <2>2, <3>1, <3>2
    <3>4. To(k) \in liveN
      BY <1>6, <1>11, <3>2, <3>3
    <3> QED
      BY <3>1, <3>4
  <2>3. \A j \in S : G[j] \cap DOMAIN G \subseteq S
    BY <2>2
  <2>4. live \subseteq S
    <3> HIDE DEF S
    <3> QED
      BY <1>5, <2>1, <2>3
  <2> QED
    BY <2>4
<1>13. \A x \in liveN : \E j \in live : x = To(j)
  <2> DEFINE S == {x \in DOMAIN H : \E j \in live : x = To(j)}
  <2>1. S \in SUBSET DOMAIN H /\ roots \cap DOMAIN H \subseteq S
    BY <1>5, <1>7
  <2>2. ASSUME NEW x \in S, NEW y \in H[x] \cap DOMAIN H PROVE y \in S
    <3>1. PICK j \in live : x = To(j) /\ x \in DOMAIN H
      BY <2>2
    <3>2. PICK k \in G[j] : y = To(k)
      BY <1>8, <1>10, <2>2, <3>1
    <3>3. k \in live
      BY <1>5, <1>8, <1>9, <3>1, <3>2
    <3> QED
      BY <2>2, <3>2, <3>3
  <2>3. \A x \in S : H[x] \cap DOMAIN H \subseteq S
    BY <2>2
  <2>4. liveN \subseteq S
    <3> HIDE DEF S
    <3> QED
      BY <1>6, <2>1, <2>3
  <2> QED
    BY <2>4
<1>14. liveN = {To(j) : j \in live}
  BY <1>12, <1>13
<1> QED
  BY <1>4, <1>8, <1>14

(* The view after the step is the one before it, by new index. *)
LEMMA FinishIsUnseen ==
  ASSUME Finishes
  PROVE  View' = ViewTranslated
<1>1. /\ ScanIsOver /\ After /\ MetTranslated /\ GraphIs /\ MovesInv /\ Live \subseteq MetNodes
      /\ Live' = {To(j) : j \in Live} /\ DOMAIN to_ \subseteq Nat \ {0} /\ gc.visited \subseteq DOMAIN frames
      /\ DOMAIN frames \subseteq FrameNumbers /\ DOMAIN from_ \subseteq Nat
  BY FinishFacts, LiveTranslated, MetIsTranslated, GraphIsKnown, CollectFacts
     DEF ScanIsOver, CollectInv, MetInv
<1>2. PICK live : live = Live
  OBVIOUS
<1>3. PICK liveN : liveN = Live'
  OBVIOUS
<1> DEFINE objects == [i \in live \cap DOMAIN from_ |-> [kind |-> from_[i].kind, values |-> Contents(i)]]
           fs      == [f \in DOMAIN frames \cap FrameNodes(live) |-> VariablesOf(f)]
           kept    == {from_[i].fwd : i \in DOMAIN objects} \ {GC_NULL}
<1>4. PICK old : old = View
  OBVIOUS
<1>5. old.objects = objects /\ old.frames = fs
  BY <1>2, <1>4 DEF View
<1>6. ViewTranslated =
        [objects |-> [h \in kept |->
                        [kind |-> to_[h].kind, values |-> TranslatedAll(objects[Origin(h)].values)]],
         frames  |-> [f \in DOMAIN fs |-> TranslatedAll(fs[f])],
         active  |-> [i \in DOMAIN active |->
                        IF active[i].kind = "loop"
                        THEN [active[i] EXCEPT !.over = Translated(@)] ELSE active[i]]]
  BY <1>4, <1>5 DEF ViewTranslated
<1>7. View' = [objects |-> [i \in liveN \cap DOMAIN from_' |-> [kind |-> from_'[i].kind, values |-> Contents(i)']],
               frames  |-> [f \in DOMAIN frames' \cap FrameNodes(liveN) |-> VariablesOf(f)'],
               active  |-> active']
  BY <1>3 DEF View
<1>8. live \subseteq MetNodes /\ liveN = {To(j) : j \in live}
  BY <1>1, <1>2, <1>3
<1>9. DOMAIN objects = live \cap DOMAIN from_ /\ DOMAIN fs = DOMAIN frames \cap FrameNodes(live)
  OBVIOUS
<1>10. \A j \in live : j \in Kept \/ \E f \in gc.visited : j = -f
  BY <1>8 DEF MetNodes, FrameNodes
<1>11. \A f \in DOMAIN frames : f \in Nat \ {0} /\ -f \notin DOMAIN from_ /\ -f \notin DOMAIN to_ /\ -(-f) = f /\ To(-f) = -f
  BY <1>1, HeapAssumption DEF FrameNumbers, To
<1>12. ASSUME NEW i \in Kept PROVE /\ i \in DOMAIN from_ /\ To(i) = from_[i].fwd /\ To(i) \in DOMAIN to_
                                  /\ Origin(To(i)) = i
  <2>1. PICK h \in DOMAIN to_ : from_[i].fwd = h
    BY <1>1 DEF Kept, MovesInv
  <2>2. i \in DOMAIN from_ /\ To(i) = h
    BY <2>1 DEF Kept, To
  <2>3. \A j \in DOMAIN from_ : from_[j].fwd = h => j = i
    BY <1>1, <2>1, <2>2 DEF MovesInv, Kept
  <2>4. Origin(h) = i
    BY <2>1, <2>2, <2>3 DEF Origin
  <2> QED
    BY <2>1, <2>2, <2>4
<1>13. liveN \cap DOMAIN to_ = kept
  <2>1. ASSUME NEW h \in liveN \cap DOMAIN to_ PROVE h \in kept
    <3>1. PICK j \in live : h = To(j)
      BY <1>8, <2>1
    <3>2. j \in Kept
      BY <1>1, <1>10, <1>11, <2>1, <3>1
    <3>3. j \in DOMAIN objects /\ h = from_[j].fwd /\ h # GC_NULL
      BY <1>1, <1>9, <1>12, <2>1, <3>1, <3>2 DEF GC_NULL
    <3> QED
      BY <3>3
  <2>2. ASSUME NEW i \in DOMAIN objects, from_[i].fwd # GC_NULL PROVE from_[i].fwd \in liveN \cap DOMAIN to_
    <3>1. i \in live /\ i \in Kept
      BY <1>9, <2>2 DEF Kept
    <3> QED
      BY <1>8, <1>12, <3>1
  <2> QED
    BY <2>1, <2>2
<1>14. ASSUME NEW h \in kept
       PROVE  /\ from_'[h].kind = to_[h].kind
              /\ Contents(h)' = TranslatedAll(objects[Origin(h)].values)
  <2>1. PICK i \in live \cap DOMAIN from_ : h = from_[i].fwd /\ h # GC_NULL
    BY <1>9, <1>14
  <2>2. i \in Kept
    BY <2>1 DEF Kept
  <2>3. h = To(i) /\ h \in DOMAIN to_ /\ Origin(h) = i
    BY <1>12, <2>1, <2>2
  <2>4. objects[i].values = Contents(i)
    BY <2>1
  <2>5. Contents(h)' = to_[h].values
    BY <1>1, <2>3 DEF After, QuietSeen
  <2>6. TranslatedAll(Contents(i)) = to_[h].values
    BY <1>1, <2>1, <2>2, <2>3 DEF MetTranslated
  <2>7. from_'[h].kind = to_[h].kind
    BY <1>1 DEF After
  <2> HIDE DEF objects
  <2> QED
    BY <2>3, <2>4, <2>5, <2>6, <2>7
<1>15. ASSUME NEW f PROVE f \in DOMAIN frames' \cap FrameNodes(liveN) <=> f \in DOMAIN frames \cap FrameNodes(live)
  <2>1. ASSUME f \in DOMAIN frames' \cap FrameNodes(liveN) PROVE f \in DOMAIN frames \cap FrameNodes(live)
    <3>1. PICK x \in liveN : f = -x
      BY <2>1 DEF FrameNodes
    <3>2. PICK j \in live : x = To(j)
      BY <1>8, <3>1
    <3>3. f \in DOMAIN frames /\ f \in Nat \ {0}
      BY <1>1, <1>11, <2>1 DEF After
    <3>4. CASE j \in Kept
      <4>1. x \in Nat \ {0}
        BY <1>1, <1>12, <3>2, <3>4
      <4> QED
        BY <3>1, <3>3, <4>1
    <3>5. ASSUME NEW g \in gc.visited, j = -g PROVE f \in FrameNodes(live)
      <4>1. x = j
        BY <1>1, <1>11, <3>2, <3>5
      <4> QED
        BY <3>1, <4>1 DEF FrameNodes
    <3> QED
      BY <1>10, <3>3, <3>4, <3>5
  <2>2. ASSUME f \in DOMAIN frames \cap FrameNodes(live) PROVE f \in DOMAIN frames' \cap FrameNodes(liveN)
    <3>1. PICK j \in live : f = -j
      BY <2>2 DEF FrameNodes
    <3>2. f \in Nat \ {0} /\ f \in DOMAIN frames
      BY <1>11, <2>2
    <3>3. j \notin Kept
      BY <1>1, <3>1, <3>2 DEF Kept
    <3>4. PICK g \in gc.visited : j = -g
      BY <1>10, <3>3
    <3>5. g = f /\ j = -f
      BY <1>1, <1>11, <3>1, <3>2, <3>4
    <3>6. -f \in liveN
      BY <1>8, <1>11, <3>2, <3>5
    <3>7. f \in FrameNodes(liveN)
      BY <3>1, <3>5, <3>6 DEF FrameNodes
    <3>8. -f \in DOMAIN Graph'
      BY <1>3, <3>6, OneGraph, ClosureFacts DEF Live
    <3>9. PICK e \in DOMAIN frames' : -f = -e
      BY <1>1, <1>11, <3>2, <3>8 DEF After, GraphIs
    <3>10. e = f
      BY <1>1, <1>11, <3>2, <3>9 DEF After, GraphIs
    <3> QED
      BY <3>7, <3>10
  <2> QED
    BY <2>1, <2>2
<1>16. ASSUME NEW f \in DOMAIN frames' \cap FrameNodes(liveN)
       PROVE  VariablesOf(f)' = TranslatedAll(fs[f])
  <2>1. f \in DOMAIN frames \cap FrameNodes(live)
    BY <1>15
  <2>2. fs[f] = VariablesOf(f)
    BY <2>1
  <2>3. f \in gc.visited
    <3>1. PICK j \in live : f = -j
      BY <2>1 DEF FrameNodes
    <3>2. f \in Nat \ {0}
      BY <1>11, <2>1
    <3>3. j \notin Kept
      BY <1>1, <3>1, <3>2 DEF Kept
    <3>4. PICK g \in gc.visited : j = -g
      BY <1>10, <3>3
    <3>5. g = f
      BY <1>1, <1>11, <3>1, <3>2, <3>4
    <3> QED
      BY <3>5
  <2>4. TranslatedAll(VariablesOf(f)) = frames[f]
    BY <1>1, <2>3 DEF MetTranslated
  <2>5. VariablesOf(f)' = frames[f]
    <3> DEFINE V == DValuesOver(Nat, DOMAIN frames)
    <3>1. frames \in FramesOver(DOMAIN frames, V)
      BY <1>1, CollectFacts DEF ScanIsOver, CollectInv
    <3> HIDE DEF V
    <3>2. frames[f] = [n \in Names |-> frames[f][n]]
      BY <2>1, <3>1 DEF FramesOver
    <3>3. VariablesOf(f)' = [n \in Names |-> frames'[f][n]] /\ frames'[f] = frames[f]
      BY <1>1 DEF After, QuietSeen
    <3> QED
      BY <3>2, <3>3
  <2> HIDE DEF fs
  <2> QED
    BY <2>2, <2>4, <2>5
<1>17. active' = [i \in DOMAIN active |->
                    IF active[i].kind = "loop"
                    THEN [active[i] EXCEPT !.over = Translated(@)] ELSE active[i]]
  BY <1>1 DEF After
<1> HIDE DEF objects, fs, kept
<1>18. [i \in liveN \cap DOMAIN from_' |-> [kind |-> from_'[i].kind, values |-> Contents(i)']]
        = [h \in kept |-> [kind |-> to_[h].kind, values |-> TranslatedAll(objects[Origin(h)].values)]]
  <2>1. liveN \cap DOMAIN from_' = kept
    BY <1>1, <1>13 DEF After
  <2> QED
    BY <1>14, <2>1
<1>19. [f \in DOMAIN frames' \cap FrameNodes(liveN) |-> VariablesOf(f)'] = [f \in DOMAIN fs |-> TranslatedAll(fs[f])]
  <2>1. DOMAIN frames' \cap FrameNodes(liveN) = DOMAIN fs
    BY <1>9, <1>15
  <2> QED
    BY <1>16, <2>1
<1> QED
  BY <1>6, <1>7, <1>17, <1>18, <1>19

UnseenStep ==
  /\ Collecting' /\ env_' = env_ => View' = View
  /\ Collecting /\ ~Collecting' => View' = ViewTranslated

LEMMA StepIsUnseen == MemoryInv /\ ReachedInv /\ [Next]_vars => [UnseenStep]_vars
<1> SUFFICES ASSUME MemoryInv, ReachedInv, Next, ~UNCHANGED vars
             PROVE  UnseenStep
  OBVIOUS
<1>1. Collecting' /\ env_' = env_ => View' = View
  BY RunningIsUnseen
<1>2. ASSUME Collecting, ~Collecting' PROVE Finish
  <2>1. gc \in Control
    BY DEF MemoryInv
  <2>2. ~Statement
    <3>1. ~EndRun
      BY <1>2 DEF EndRun, Collecting
    <3> QED
      BY <3>1, <1>2, StatementIsOutside
  <2>3. ~MaybeGc
    BY <1>2 DEF MaybeGc, Collecting
  <2>4. ASSUME ScanAggregate \/ ScanNone \/ ScanFunc \/ ScanFrame \/ ScanObj PROVE FALSE
    <3>1. CASE ScanFrame \/ ScanObj
      BY <1>2, <2>1, <3>1 DEF ScanFrame, ScanObj, Control, Collecting
    <3>2. CASE ScanAggregate \/ ScanNone \/ ScanFunc
      <4>1. Popped.phase = gc.phase /\ Popped \in Control
        <5>1. Popped \in Control
          BY <3>2, PoppedFacts DEF ScanAggregate, ScanNone, ScanFunc
        <5> QED
          BY <2>1, <5>1 DEF Popped, Control
      <4> QED
        BY <1>2, <3>2, <4>1 DEF ScanAggregate, ScanNone, ScanFunc, Control, Collecting
    <3> QED
      BY <2>4, <3>1, <3>2
  <2> QED
    BY <2>2, <2>3, <2>4 DEF Next, CollectStep, Ended, BoundReached
<1>3. Collecting /\ ~Collecting' => View' = ViewTranslated
  BY <1>2, FinishIsUnseen DEF Finishes
<1> QED
  BY <1>1, <1>3 DEF UnseenStep

(* The program cannot tell that collect() of src/gc.cpp ran: what it       *)
(* reaches from its environment is the same graph with the same values at  *)
(* every step, and at the end with every object under the index of its     *)
(* copy. *)
THEOREM CollectionsUnseen == Spec => CollectionsAreUnseen
<1>1. CollectionsAreUnseen <=> [][UnseenStep]_vars
  BY DEF CollectionsAreUnseen, UnseenStep
<1> QED
  BY <1>1, StepIsUnseen, OnlyReachedIsMet, MemoryInvariant, PTL DEF Spec
=============================================================================
