----------------------- MODULE StackDisciplineProofs -----------------------
(* Proofs about the stack machine: a file whose code is verified keeps      *)
(* Heap::roots in step with the frames, whatever it computes and whenever   *)
(* the heap collects.  The argument:                                        *)
(*   - the frames cut the roots into consecutive parts, one a frame, which  *)
(*     are its slots (Tiled); popping and pushing operands, calling and     *)
(*     returning keep it, as long as a frame that goes holds exactly the    *)
(*     operands that its destruction takes off the roots;                   *)
(*   - that it does follows from the heights of the code: every frame is    *)
(*     where its code says it has as many operands as it has (Followed);    *)
(*   - a call needs the function object to be a function of the file, so    *)
(*     the heap comes in too (ObjectsOK).                                   *)
EXTENDS StackDiscipline, TLAPS

-----------------------------------------------------------------------------
(* Sequences of anything: the machine's bookkeeping does not depend on what *)
(* its values are.                                                          *)
IsSeq(s) == \E S : s \in Seq(S)

(* A sequence is its elements: its domain is 1..Len, and Len a natural.     *)
LEMMA SeqDomain ==
  ASSUME NEW s, IsSeq(s)
  PROVE  Len(s) \in Nat /\ DOMAIN s = 1..Len(s)
BY DEF IsSeq

(* What the mathematics of functions makes of a sequence.                   *)
LEMMA SeqOfFunction ==
  ASSUME NEW n \in Nat, NEW S, NEW s \in [1..n -> S]
  PROVE  IsSeq(s) /\ Len(s) = n
<1>1. s \in Seq(S)
  OBVIOUS
<1> QED
  BY <1>1 DEF IsSeq

(* The concatenation of two sequences: its length and its elements.         *)
LEMMA SeqConcat ==
  ASSUME NEW s, NEW t, IsSeq(s), IsSeq(t)
  PROVE  /\ IsSeq(s \o t) /\ Len(s \o t) = Len(s) + Len(t)
         /\ \A i \in 1..Len(s) : (s \o t)[i] = s[i]
         /\ \A i \in 1..Len(t) : (s \o t)[Len(s) + i] = t[i]
<1>1. PICK S : s \in Seq(S)
  BY DEF IsSeq
<1>2. PICK T : t \in Seq(T)
  BY DEF IsSeq
<1>3. s \in Seq(S \cup T) /\ t \in Seq(S \cup T)
  BY <1>1, <1>2
<1>4. s \o t \in Seq(S \cup T)
  BY <1>3
<1>5. Len(s) \in Nat /\ Len(t) \in Nat
  BY <1>3
<1> QED
  BY <1>3, <1>4, <1>5 DEF IsSeq

(* Append: its length and its elements.                                     *)
LEMMA SeqAppend ==
  ASSUME NEW s, NEW v, IsSeq(s)
  PROVE  /\ IsSeq(Append(s, v)) /\ Len(Append(s, v)) = Len(s) + 1
         /\ \A i \in 1..Len(s) : Append(s, v)[i] = s[i]
         /\ Append(s, v)[Len(s) + 1] = v
<1>1. PICK S : s \in Seq(S)
  BY DEF IsSeq
<1>2. s \in Seq(S \cup {v}) /\ v \in S \cup {v}
  BY <1>1
<1>3. Append(s, v) \in Seq(S \cup {v}) /\ Len(s) \in Nat
  BY <1>2
<1> QED
  BY <1>2, <1>3 DEF IsSeq

(* DropLast: its length and its elements.                                   *)
LEMMA SeqDropLast ==
  ASSUME NEW s, IsSeq(s), NEW n \in 0..Len(s)
  PROVE  /\ IsSeq(DropLast(s, n)) /\ Len(DropLast(s, n)) = Len(s) - n
         /\ \A i \in 1..Len(s) - n : DropLast(s, n)[i] = s[i]
<1>1. PICK S : s \in Seq(S)
  BY DEF IsSeq
<1>2. Len(s) \in Nat
  BY <1>1
<1> DEFINE m == Len(s) - n
<1>3. m \in Nat /\ m <= Len(s)
  BY <1>2
<1> HIDE DEF m
<1>4. SubSeq(s, 1, m) \in Seq(S) /\ Len(SubSeq(s, 1, m)) = m
  BY <1>1, <1>2, <1>3
<1>5. \A i \in 1..m : SubSeq(s, 1, m)[i] = s[i]
  BY <1>1, <1>2, <1>3
<1> USE DEF m
<1> QED
  BY <1>4, <1>5 DEF IsSeq, DropLast

(* Replacing an element leaves the length and the others.                   *)
LEMMA SeqExcept ==
  ASSUME NEW s, NEW i, NEW v, IsSeq(s)
  PROVE  /\ IsSeq([s EXCEPT ![i] = v]) /\ Len([s EXCEPT ![i] = v]) = Len(s)
         /\ \A j \in 1..Len(s) : [s EXCEPT ![i] = v][j] = IF j = i THEN v ELSE s[j]
<1>1. PICK S : s \in Seq(S)
  BY DEF IsSeq
<1>2. s \in [1..Len(s) -> S \cup {v}] /\ Len(s) \in Nat
  BY <1>1
<1>3. [s EXCEPT ![i] = v] \in [1..Len(s) -> S \cup {v}]
  BY <1>2
<1>4. IsSeq([s EXCEPT ![i] = v]) /\ Len([s EXCEPT ![i] = v]) = Len(s)
  BY <1>2, <1>3, SeqOfFunction
<1> QED
  BY <1>2, <1>4

(* u is s with its last n elements replaced by those of t.                  *)
ReplacesLast(s, n, t, u) ==
  /\ IsSeq(u) /\ Len(u) = (Len(s) - n) + Len(t)
  /\ \A i \in 1..Len(s) - n : u[i] = s[i]
  /\ \A i \in 1..Len(t) : u[(Len(s) - n) + i] = t[i]

(* That is what dropping and appending does.                                *)
LEMMA SeqReplaceLast ==
  ASSUME NEW s, IsSeq(s), NEW n \in Nat, n <= Len(s), NEW t, IsSeq(t)
  PROVE  ReplacesLast(s, n, t, DropLast(s, n) \o t)
<1> DEFINE k == DropLast(s, n)
           c == Len(s) - n
<1>1. n \in 0..Len(s)
  BY SeqDomain
<1>2. IsSeq(k)
  BY <1>1, SeqDropLast
<1>3. Len(k) = c
  BY <1>1, SeqDropLast
<1>4. \A i \in 1..c : k[i] = s[i]
  BY <1>1, SeqDropLast
<1> HIDE DEF k, c
<1>5. IsSeq(k \o t) /\ Len(k \o t) = Len(k) + Len(t)
  BY <1>2, SeqConcat
<1>6. \A i \in 1..Len(k) : (k \o t)[i] = k[i]
  BY <1>2, SeqConcat
<1>7. \A i \in 1..Len(t) : (k \o t)[Len(k) + i] = t[i]
  BY <1>2, SeqConcat
<1>8. \A i \in 1..c : (k \o t)[i] = s[i]
  BY <1>3, <1>4, <1>6
<1>9. \A i \in 1..Len(t) : (k \o t)[c + i] = t[i]
  BY <1>3, <1>7
<1>10. Len(k \o t) = c + Len(t)
  BY <1>3, <1>5
<1> QED
  BY <1>5, <1>8, <1>9, <1>10 DEF k, c, ReplacesLast

-----------------------------------------------------------------------------
(* Frames and roots *)

FrameOK(f) ==
  /\ f = [scheme |-> f.scheme, return |-> f.return, base |-> f.base, locals |-> f.locals,
          args |-> f.args, captured |-> f.captured, stack |-> f.stack]
  /\ f.base \in Nat
  /\ IsSeq(f.locals) /\ IsSeq(f.args) /\ IsSeq(f.captured) /\ IsSeq(f.stack)

VarSlots(d, f) ==
  SlotsOf(d, "locals", f.locals) \o SlotsOf(d, "args", f.args)
    \o SlotsOf(d, "captured", f.captured)

(* SlotsOf lists one slot for each value.                                   *)
LEMMA SlotsOfLemma ==
  ASSUME NEW d, NEW part, NEW values, IsSeq(values)
  PROVE  /\ IsSeq(SlotsOf(d, part, values))
         /\ Len(SlotsOf(d, part, values)) = Len(values)
         /\ \A i \in 1..Len(values) : SlotsOf(d, part, values)[i] = Slot(d, part, i)
<1> DEFINE slots == SlotsOf(d, part, values)
<1>1. Len(values) \in Nat /\ DOMAIN values = 1..Len(values)
  BY SeqDomain
<1>2. slots \in [1..Len(values) -> {Slot(d, part, i) : i \in 1..Len(values)}]
  BY <1>1 DEF SlotsOf
<1>3. IsSeq(slots) /\ Len(slots) = Len(values)
  BY <1>1, <1>2, SeqOfFunction
<1> QED
  BY <1>1, <1>3 DEF SlotsOf

StackLen(f) == Len(f.stack)

(* The slots of a frame: those of its variables, then those of its stack.   *)
LEMMA FrameSlotsLemma ==
  ASSUME NEW d, NEW f, FrameOK(f)
  PROVE  /\ FrameRoots(f) \in Nat /\ StackLen(f) \in Nat
         /\ IsSeq(FrameSlots(d, f))
         /\ Len(FrameSlots(d, f)) = FrameRoots(f) + StackLen(f)
         /\ \A i \in 1..FrameRoots(f) : FrameSlots(d, f)[i] = VarSlots(d, f)[i]
         /\ \A i \in 1..StackLen(f) : FrameSlots(d, f)[FrameRoots(f) + i] = Slot(d, "stack", i)
<1> DEFINE l == f.locals
           a == f.args
           c == f.captured
           k == f.stack
           L == SlotsOf(d, "locals", l)
           A == SlotsOf(d, "args", a)
           C == SlotsOf(d, "captured", c)
           K == SlotsOf(d, "stack", k)
           vs == VarSlots(d, f)
           fs == FrameSlots(d, f)
           n == FrameRoots(f)
           m == StackLen(f)
<1>1. IsSeq(l) /\ IsSeq(a) /\ IsSeq(c) /\ IsSeq(k)
  BY DEF FrameOK
<1>2. n = Len(c) + Len(l) + Len(a) /\ m = Len(k)
  BY DEF FrameRoots, StackLen
<1>3. vs = (L \o A) \o C
  BY DEF VarSlots
<1>4. fs = vs \o K
  BY DEF VarSlots, FrameSlots
<1> HIDE DEF l, a, c, k, vs, fs, n, m
<1>5. Len(l) \in Nat /\ Len(a) \in Nat /\ Len(c) \in Nat /\ Len(k) \in Nat
  BY <1>1, SeqDomain
<1>6. /\ IsSeq(L) /\ Len(L) = Len(l)
      /\ IsSeq(A) /\ Len(A) = Len(a)
      /\ IsSeq(C) /\ Len(C) = Len(c)
      /\ IsSeq(K) /\ Len(K) = Len(k)
      /\ \A i \in 1..Len(k) : K[i] = Slot(d, "stack", i)
  BY <1>1, SlotsOfLemma
<1> HIDE DEF L, A, C, K
<1>7. IsSeq(L \o A) /\ Len(L \o A) = Len(l) + Len(a)
  BY <1>6, SeqConcat
<1>8. n \in Nat /\ m \in Nat /\ IsSeq(vs) /\ Len(vs) = n
  <2>1. IsSeq(vs) /\ Len(vs) = Len(L \o A) + Len(C)
    BY <1>3, <1>6, <1>7, SeqConcat
  <2> QED
    BY <2>1, <1>2, <1>5, <1>6, <1>7
<1>9. IsSeq(fs) /\ Len(fs) = n + m
  BY <1>2, <1>4, <1>6, <1>8, SeqConcat
<1>10. \A i \in 1..n : fs[i] = vs[i]
  BY <1>4, <1>6, <1>8, SeqConcat
<1>11. \A i \in 1..m : fs[n + i] = Slot(d, "stack", i)
  <2>1. \A i \in 1..Len(K) : fs[Len(vs) + i] = K[i]
    BY <1>4, <1>6, <1>8, SeqConcat
  <2> QED
    BY <2>1, <1>2, <1>6, <1>8
<1> QED
  BY <1>8, <1>9, <1>10, <1>11 DEF vs, fs, n, m

Base(f) == f.base
End(f) == Base(f) + FrameRoots(f) + StackLen(f)

(* The entries of rs from a frame's base on are its slots.                  *)
Listed(d, f, rs) ==
  /\ \A i \in 1..FrameRoots(f) : rs[Base(f) + i] = VarSlots(d, f)[i]
  /\ \A i \in 1..StackLen(f) : rs[Base(f) + FrameRoots(f) + i] = Slot(d, "stack", i)

(* What the numbers of a frame are.                                         *)
LEMMA FrameNumbers ==
  ASSUME NEW f, FrameOK(f)
  PROVE  Base(f) \in Nat /\ FrameRoots(f) \in Nat /\ StackLen(f) \in Nat /\ End(f) \in Nat
<1>1. Base(f) \in Nat
  BY DEF FrameOK, Base
<1>2. FrameRoots(f) \in Nat /\ StackLen(f) \in Nat
  BY FrameSlotsLemma
<1> QED
  BY <1>1, <1>2 DEF End

(* The slots of the first D frames of fs are the first r entries of rs.     *)
Tiled(fs, D, rs, r) ==
  /\ \A d \in 1..D : FrameOK(fs[d]) /\ Listed(d, fs[d], rs)
  /\ \A d \in 1..D : End(fs[d]) <= r
  /\ \A d, e \in 1..D : d < e => End(fs[d]) <= Base(fs[e])
  /\ \A d \in 1..D : d < D => End(fs[d]) = Base(fs[d + 1])
  /\ D > 0 => Base(fs[1]) = 0
  /\ r = IF D = 0 THEN 0 ELSE End(fs[D])

(* The frames below the top one have the entries below its base.            *)
LEMMA TiledDown ==
  ASSUME NEW fs, NEW D \in Nat, NEW rs, NEW r, Tiled(fs, D, rs, r), D > 0
  PROVE  Tiled(fs, D - 1, rs, Base(fs[D]))
<1> DEFINE C == D - 1
<1>1. C \in Nat /\ C + 1 = D /\ D \in 1..D /\ \A d \in 1..C : d \in 1..D /\ d < D
  OBVIOUS
<1>2. \A d \in 1..C : FrameOK(fs[d]) /\ Listed(d, fs[d], rs)
  BY <1>1 DEF Tiled
<1>3. \A d \in 1..C : End(fs[d]) <= Base(fs[D])
  BY <1>1 DEF Tiled
<1>4. \A d, e \in 1..C : d < e => End(fs[d]) <= Base(fs[e])
  BY <1>1 DEF Tiled
<1>5. \A d \in 1..C : End(fs[d]) = Base(fs[d + 1])
  BY <1>1 DEF Tiled
<1>6. Base(fs[1]) = 0
  BY DEF Tiled
<1>7. C = 0 => Base(fs[D]) = 0
  BY <1>1, <1>6
<1>8. C # 0 => C \in 1..C
  BY <1>1
<1>9. C # 0 => Base(fs[D]) = End(fs[C])
  BY <1>1, <1>5, <1>8
<1> HIDE DEF C
<1>10. Base(fs[D]) = IF C = 0 THEN 0 ELSE End(fs[C])
  BY <1>7, <1>9
<1>11. Tiled(fs, C, rs, Base(fs[D]))
  BY <1>2, <1>3, <1>4, <1>5, <1>6, <1>10 DEF Tiled
<1> QED
  BY <1>11 DEF C

(* Nothing else matters to it.                                              *)
LEMMA TiledSame ==
  ASSUME NEW fs, NEW D \in Nat, NEW rs, NEW r \in Nat, Tiled(fs, D, rs, r),
         NEW fs2, \A d \in 1..D : fs2[d] = fs[d],
         NEW rs2, \A i \in 1..r : rs2[i] = rs[i]
  PROVE  Tiled(fs2, D, rs2, r)
<1>1. ASSUME NEW d \in 1..D
      PROVE  FrameOK(fs2[d]) /\ Listed(d, fs2[d], rs2)
  <2> DEFINE f == fs[d]
             b == Base(f)
             n == FrameRoots(f)
             m == StackLen(f)
             vs == VarSlots(d, f)
  <2>1. FrameOK(f) /\ Listed(d, f, rs) /\ End(f) <= r
    BY DEF Tiled
  <2>2. b \in Nat /\ n \in Nat /\ m \in Nat /\ End(f) = b + n + m
    BY <2>1, FrameNumbers DEF End
  <2>3. \A i \in 1..n : rs[b + i] = vs[i]
    BY <2>1 DEF Listed
  <2>4. \A i \in 1..m : rs[b + n + i] = Slot(d, "stack", i)
    BY <2>1 DEF Listed
  <2>5. fs2[d] = f
    OBVIOUS
  <2> HIDE DEF f, b, n, m, vs
  <2>6. b + n + m <= r
    BY <2>1, <2>2
  <2>7. \A i \in 1..n : rs2[b + i] = vs[i]
    <3>1. \A i \in 1..n : b + i \in 1..r
      BY <2>2, <2>6
    <3> QED
      BY <2>3, <3>1
  <2>8. \A i \in 1..m : rs2[b + n + i] = Slot(d, "stack", i)
    <3>1. \A i \in 1..m : b + n + i \in 1..r
      BY <2>2, <2>6
    <3> QED
      BY <2>4, <3>1
  <2> QED
    BY <2>1, <2>5, <2>7, <2>8 DEF Listed, b, n, m, vs
<1>2. \A d \in 1..D : End(fs2[d]) <= r
  BY DEF Tiled
<1>3. \A d, e \in 1..D : d < e => End(fs2[d]) <= Base(fs2[e])
  BY DEF Tiled
<1>4. \A d \in 1..D : d < D => End(fs2[d]) = Base(fs2[d + 1])
  <2>1. \A d \in 1..D : d < D => d + 1 \in 1..D
    OBVIOUS
  <2> QED
    BY <2>1 DEF Tiled
<1>5. D > 0 => 1 \in 1..D /\ D \in 1..D
  OBVIOUS
<1>6. D > 0 => Base(fs2[1]) = 0
  BY <1>5 DEF Tiled
<1>7. r = IF D = 0 THEN 0 ELSE End(fs2[D])
  BY <1>5 DEF Tiled
<1> QED
  BY <1>1, <1>2, <1>3, <1>4, <1>6, <1>7 DEF Tiled

(* A frame on top of them.                                                  *)
LEMMA TiledUp ==
  ASSUME NEW fs, NEW D \in Nat, NEW rs, NEW r \in Nat, Tiled(fs, D, rs, r),
         NEW g, g = fs[D + 1], FrameOK(g), Base(g) = r, Listed(D + 1, g, rs)
  PROVE  Tiled(fs, D + 1, rs, End(g))
<1> DEFINE E == D + 1
<1>1. E \in Nat /\ E > 0 /\ E # 0 /\ \A d \in 1..E : d \in 1..D \/ d = E
  OBVIOUS
<1>2. End(g) \in Nat /\ r <= End(g)
  BY FrameNumbers DEF End
<1>3. \A d \in 1..E : FrameOK(fs[d]) /\ Listed(d, fs[d], rs)
  BY <1>1 DEF Tiled
<1>4. \A d \in 1..E : End(fs[d]) <= End(g)
  <2>1. \A d \in 1..D : FrameOK(fs[d]) /\ End(fs[d]) <= r
    BY DEF Tiled
  <2>2. \A d \in 1..D : End(fs[d]) \in Nat
    BY <2>1, FrameNumbers
  <2>3. \A d \in 1..D : End(fs[d]) <= End(g)
    BY <1>2, <2>1, <2>2
  <2> QED
    BY <1>1, <1>2, <2>3
<1>5. \A d, e \in 1..E : d < e => End(fs[d]) <= Base(fs[e])
  <2>1. ASSUME NEW d \in 1..E, NEW e \in 1..E, d < e
        PROVE  End(fs[d]) <= Base(fs[e])
    <3>1. d \in 1..D
      BY <2>1
    <3>2. CASE e = E
      BY <3>1, <3>2 DEF Tiled
    <3>3. CASE e # E
      BY <1>1, <2>1, <3>1, <3>3 DEF Tiled
    <3> QED
      BY <3>2, <3>3
  <2> QED
    BY <2>1
<1>6. \A d \in 1..E : d < E => End(fs[d]) = Base(fs[d + 1])
  <2>1. ASSUME NEW d \in 1..E, d < E
        PROVE  End(fs[d]) = Base(fs[d + 1])
    <3>1. d \in 1..D
      BY <2>1
    <3>2. CASE d = D
      BY <3>1, <3>2 DEF Tiled
    <3>3. CASE d # D
      BY <3>1, <3>3 DEF Tiled
    <3> QED
      BY <3>2, <3>3
  <2> QED
    BY <2>1
<1>7. Base(fs[1]) = 0
  <2>1. CASE D = 0
    BY <2>1 DEF Tiled
  <2>2. CASE D > 0
    BY <2>2 DEF Tiled
  <2> QED
    BY <2>1, <2>2
<1> HIDE DEF E
<1>8. Tiled(fs, E, rs, End(g))
  <2>1. fs[E] = g
    BY DEF E
  <2> QED
    BY <1>1, <1>3, <1>4, <1>5, <1>6, <1>7, <2>1 DEF Tiled
<1> QED
  BY <1>8 DEF E

(* RootsAreTheSlots, of any frames and roots, with the order of the frames' *)
(* entries, which makes it inductive.                                       *)
InStep(fs, rs) ==
  /\ IsSeq(fs) /\ IsSeq(rs)
  /\ Tiled(fs, Len(fs), rs, Len(rs))

(* The invariant is as strong as the property.                              *)
LEMMA InStepSuffices ==
  ASSUME InStep(frames, roots)
  PROVE  RootsAreTheSlots
<1>1. DOMAIN frames = 1..Depth /\ Depth \in Nat /\ DOMAIN roots = 1..Len(roots) /\ Len(roots) \in Nat
  BY SeqDomain DEF InStep, Depth
<1>2. frames # << >> => Depth > 0
  <2>1. PICK S : frames \in Seq(S)
    BY DEF InStep, IsSeq
  <2>2. Depth = 0 => frames = << >>
    BY <2>1 DEF Depth
  <2> QED
    BY <1>1, <2>2
<1>3. frames # << >> => frames[1].base = 0
  BY <1>2 DEF InStep, Depth, Tiled, Base
<1>4. ASSUME NEW d \in 1..Depth
      PROVE  LET f == frames[d]
                 slots == FrameSlots(d, f)
             IN  /\ \A i \in DOMAIN slots : f.base + i \in DOMAIN roots /\ roots[f.base + i] = slots[i]
                 /\ f.base + Len(slots) = IF d = Depth THEN Len(roots) ELSE frames[d + 1].base
  <2> DEFINE f == frames[d]
             slots == FrameSlots(d, f)
             b == Base(f)
             n == FrameRoots(f)
             m == StackLen(f)
  <2>1. FrameOK(f) /\ Listed(d, f, roots)
    BY <1>1 DEF InStep, Depth, Tiled
  <2>2. b \in Nat /\ n \in Nat /\ m \in Nat /\ End(f) = b + n + m
    BY <2>1, FrameNumbers DEF End
  <2>3. IsSeq(slots) /\ Len(slots) = n + m
    BY <2>1, FrameSlotsLemma, Zenon
  <2>4. \A i \in 1..n : slots[i] = roots[b + i]
    <3>1. \A i \in 1..n : slots[i] = VarSlots(d, f)[i]
      BY <2>1, FrameSlotsLemma, Zenon
    <3> QED
      BY <2>1, <3>1 DEF Listed
  <2>5. \A i \in 1..m : slots[n + i] = roots[b + n + i]
    <3>1. \A i \in 1..m : slots[n + i] = Slot(d, "stack", i)
      BY <2>1, FrameSlotsLemma, Zenon
    <3> QED
      BY <2>1, <3>1 DEF Listed
  <2>6. b + n + m <= Len(roots)
    BY <2>2 DEF InStep, Depth, Tiled
  <2>7. b + (n + m) = IF d = Depth THEN Len(roots) ELSE Base(frames[d + 1])
    <3>1. d = Depth => End(f) = Len(roots)
      BY <1>1 DEF InStep, Depth, Tiled
    <3>2. d < Depth => End(f) = Base(frames[d + 1])
      BY <1>1 DEF InStep, Depth, Tiled
    <3> QED
      BY <1>1, <2>2, <3>1, <3>2
  <2>8. f.base = b /\ frames[d + 1].base = Base(frames[d + 1])
    BY DEF Base
  <2> HIDE DEF slots, b, n, m
  <2>9. DOMAIN slots = 1..n + m
    BY <2>3, SeqDomain
  <2>10. \A i \in DOMAIN slots : b + i \in DOMAIN roots /\ roots[b + i] = slots[i]
    <3>1. ASSUME NEW i \in 1..n + m
          PROVE  b + i \in DOMAIN roots /\ roots[b + i] = slots[i]
      <4>1. b + i \in 1..Len(roots)
        BY <1>1, <2>2, <2>6
      <4>2. CASE i <= n
        BY <1>1, <2>2, <2>4, <4>1, <4>2
      <4>3. CASE i > n
        <5>1. i - n \in 1..m /\ n + (i - n) = i /\ b + n + (i - n) = b + i
          BY <2>2, <4>3
        <5>2. slots[n + (i - n)] = roots[b + n + (i - n)]
          BY <2>5, <5>1
        <5> QED
          BY <1>1, <4>1, <5>1, <5>2
      <4> QED
        BY <2>2, <4>2, <4>3
    <3> QED
      BY <2>9, <3>1
  <2> QED
    BY <2>3, <2>7, <2>8, <2>10 DEF slots
<1> QED
  BY <1>1, <1>3, <1>4 DEF RootsAreTheSlots

WithStack(f, k) == [f EXCEPT !.stack = k]

(* g is f but for its stack, k.                                             *)
HasStack(f, k, g) ==
  /\ FrameOK(g) /\ g.stack = k /\ g.scheme = f.scheme /\ g.return = f.return
  /\ Base(g) = Base(f) /\ FrameRoots(g) = FrameRoots(f) /\ StackLen(g) = Len(k)
  /\ \A d : VarSlots(d, g) = VarSlots(d, f)

(* Replacing the stack leaves the variables and their slots.                *)
LEMMA WithStackLemma ==
  ASSUME NEW f, FrameOK(f), NEW k, IsSeq(k)
  PROVE  HasStack(f, k, WithStack(f, k))
<1> DEFINE g == WithStack(f, k)
<1>1. g = [scheme |-> f.scheme, return |-> f.return, base |-> f.base, locals |-> f.locals,
           args |-> f.args, captured |-> f.captured, stack |-> k]
  BY DEF FrameOK, WithStack
<1>2. /\ g.scheme = f.scheme /\ g.return = f.return /\ g.base = f.base /\ g.locals = f.locals
      /\ g.args = f.args /\ g.captured = f.captured /\ g.stack = k
  BY <1>1
<1>3. FrameOK(g)
  BY <1>1, <1>2 DEF FrameOK
<1>4. FrameRoots(g) = FrameRoots(f)
  BY <1>2 DEF FrameRoots
<1>5. \A d : VarSlots(d, g) = VarSlots(d, f)
  BY <1>2 DEF VarSlots
<1> QED
  BY <1>2, <1>3, <1>4, <1>5 DEF Base, StackLen, HasStack

Restacked(fs, k) == [fs EXCEPT ![Len(fs)].stack = k]

(* The slots of values pushed on j operands.                                *)
Pushed(d, j, values) == [i \in DOMAIN values |-> Slot(d, "stack", j + i)]

(* As many slots as values, with consecutive indices.                       *)
LEMMA PushedLemma ==
  ASSUME NEW d, NEW j, NEW values, IsSeq(values)
  PROVE  /\ IsSeq(Pushed(d, j, values)) /\ Len(Pushed(d, j, values)) = Len(values)
         /\ \A i \in 1..Len(values) : Pushed(d, j, values)[i] = Slot(d, "stack", j + i)
<1> DEFINE new == Pushed(d, j, values)
           v == Len(values)
<1>1. v \in Nat /\ DOMAIN values = 1..v
  BY SeqDomain
<1>2. new \in [1..v -> {Slot(d, "stack", j + i) : i \in 1..v}]
  BY <1>1 DEF Pushed
<1>3. \A i \in 1..v : new[i] = Slot(d, "stack", j + i)
  BY <1>1 DEF Pushed
<1> HIDE DEF new
<1>4. IsSeq(new) /\ Len(new) = v
  BY <1>1, <1>2, SeqOfFunction
<1> QED
  BY <1>3, <1>4 DEF new

(* The top frame becomes g and the entries rs2, those below it unchanged.   *)
TopBecomes(d, f, g, rs, rs2) ==
  /\ IsSeq(rs2) /\ End(g) = Len(rs2) /\ Listed(d, g, rs2)
  /\ \A i \in 1..Base(f) : rs2[i] = rs[i]

(* The entries of a frame that pops n operands and pushes values.           *)
LEMMA ListedStacked ==
  ASSUME NEW d, NEW f, FrameOK(f), NEW rs, IsSeq(rs), Listed(d, f, rs), End(f) = Len(rs),
         NEW n \in Nat, n <= StackLen(f), NEW values, IsSeq(values),
         NEW k2, Len(k2) = (StackLen(f) - n) + Len(values), NEW g, HasStack(f, k2, g)
  PROVE  TopBecomes(d, f, g, rs, DropLast(rs, n) \o Pushed(d, StackLen(f) - n, values))
<1> DEFINE m == StackLen(f)
           rs2 == DropLast(rs, n) \o Pushed(d, m - n, values)
<1>0. n <= m /\ VarSlots(d, g) = VarSlots(d, f)
  BY DEF HasStack
<1> DEFINE new == Pushed(d, m - n, values)
           v == Len(values)
           r == Len(rs)
           b == Base(f)
           q == FrameRoots(f)
           k == m - n
           c == r - n
<1>1. m \in Nat /\ b \in Nat /\ q \in Nat /\ r \in Nat /\ v \in Nat /\ r = b + q + m
  <2>1. r \in Nat /\ v \in Nat
    BY SeqDomain
  <2> QED
    BY <2>1, FrameNumbers DEF End
<1> HIDE DEF r, v, b, q, m, rs2
<1>2. n <= r /\ k \in Nat /\ m = k + n /\ c \in Nat /\ c = b + q + k
  BY <1>0, <1>1
<1> HIDE DEF c, k, new
<1>3. new = Pushed(d, k, values) /\ rs2 = DropLast(rs, n) \o new
  BY DEF new, k, rs2
<1>4. IsSeq(new) /\ Len(new) = v
  BY <1>3, PushedLemma DEF v
<1>5. \A i \in 1..v : new[i] = Slot(d, "stack", k + i)
  BY <1>3, PushedLemma DEF v
<1>6. c = Len(rs) - n /\ n <= Len(rs)
  BY <1>2 DEF c, r
<1>7. /\ IsSeq(rs2) /\ Len(rs2) = c + v
      /\ \A i \in 1..c : rs2[i] = rs[i]
      /\ \A i \in 1..v : rs2[c + i] = new[i]
  <2>1. ReplacesLast(rs, n, new, rs2)
    BY <1>3, <1>4, <1>6, SeqReplaceLast
  <2> QED
    BY <2>1, <1>4, <1>6 DEF ReplacesLast
<1>8. \A i \in 1..c : rs2[i] = rs[i]
  BY <1>7
<1>9. \A i \in 1..b : rs2[i] = rs[i]
  <2>1. \A i \in 1..b : i \in 1..c
    BY <1>1, <1>2
  <2> QED
    BY <1>8, <2>1
<1>10. \A i \in 1..q : rs2[b + i] = VarSlots(d, f)[i]
  <2>1. \A i \in 1..q : rs[b + i] = VarSlots(d, f)[i]
    BY DEF Listed, b, q, m
  <2>2. \A i \in 1..q : b + i \in 1..c
    BY <1>1, <1>2
  <2> QED
    BY <2>1, <2>2, <1>8
<1>11. \A i \in 1..k + v : rs2[b + q + i] = Slot(d, "stack", i)
  <2>1. \A i \in 1..m : rs[b + q + i] = Slot(d, "stack", i)
    BY DEF Listed, b, q, m
  <2>2. ASSUME NEW i \in 1..k
        PROVE  rs2[b + q + i] = Slot(d, "stack", i)
    <3>1. b + q + i \in 1..c /\ i \in 1..m
      BY <1>1, <1>2, <1>6
    <3> QED
      BY <1>8, <2>1, <3>1
  <2>3. ASSUME NEW i \in 1..v
        PROVE  rs2[b + q + (k + i)] = Slot(d, "stack", k + i)
    <3>1. b + q + (k + i) = c + i
      BY <1>1, <1>2, <1>6
    <3> QED
      BY <1>5, <1>7, <3>1
  <2>4. ASSUME NEW i \in 1..k + v
        PROVE  i \in 1..k \/ (i - k \in 1..v /\ i = k + (i - k))
    BY <1>1, <1>2
  <2> QED
    BY <2>2, <2>3, <2>4
<1>12. Base(g) = b /\ FrameRoots(g) = q /\ StackLen(g) = k + v
  BY DEF b, q, k, v, m, HasStack
<1>13. Listed(d, g, rs2)
  BY <1>0, <1>10, <1>11, <1>12 DEF Listed
<1>14. End(g) = Len(rs2)
  <2>1. End(g) = b + q + (k + v)
    BY <1>12 DEF End
  <2>2. Len(rs2) = c + v
    BY <1>7
  <2> QED
    BY <1>1, <1>2, <2>1, <2>2
<1> QED
  BY <1>7, <1>9, <1>13, <1>14 DEF b, m, rs2, TopBecomes

(* fs2 is fs with another stack, of j operands, in the top frame, and rs2   *)
(* its entries.                                                             *)
TopRestacked(fs, fs2, rs2, j) ==
  /\ InStep(fs2, rs2) /\ Len(fs2) = Len(fs)
  /\ \A d \in 1..Len(fs) : d # Len(fs) => fs2[d] = fs[d]
  /\ StackLen(fs2[Len(fs)]) = j
  /\ fs2[Len(fs)].scheme = fs[Len(fs)].scheme /\ fs2[Len(fs)].return = fs[Len(fs)].return

(* Frames stay in step when n operands are popped off the top one and       *)
(* values are pushed.                                                       *)
LEMMA InStepStacked ==
  ASSUME NEW fs, NEW rs, InStep(fs, rs), Len(fs) > 0,
         NEW k, k = fs[Len(fs)].stack, NEW n \in Nat, n <= Len(k), NEW values, IsSeq(values)
  PROVE  TopRestacked(fs, Restacked(fs, DropLast(k, n) \o values),
                      DropLast(rs, n) \o Pushed(Len(fs), Len(k) - n, values),
                      (Len(k) - n) + Len(values))
<1> DEFINE D == Len(fs)
           k2 == DropLast(k, n) \o values
           fs2 == Restacked(fs, k2)
           rs2 == DropLast(rs, n) \o Pushed(D, Len(k) - n, values)
<1> DEFINE f == fs[D]
           g == WithStack(f, k2)
           kept == DropLast(k, n)
           m == Len(k)
           v == Len(values)
           b == Base(f)
           C == D - 1
<1>0. D = Len(fs)
  OBVIOUS
<1>1. /\ D \in Nat /\ D \in 1..D /\ IsSeq(fs) /\ IsSeq(rs)
      /\ Len(rs) \in Nat /\ v \in Nat /\ Tiled(fs, D, rs, Len(rs))
  BY SeqDomain DEF InStep
<1>2. FrameOK(f) /\ Listed(D, f, rs) /\ End(f) = Len(rs)
  BY <1>1 DEF Tiled
<1>3. IsSeq(k) /\ m \in Nat /\ StackLen(f) = m
  <2>1. IsSeq(k)
    BY <1>2 DEF FrameOK
  <2> QED
    BY <2>1, SeqDomain DEF StackLen
<1>4. IsSeq(kept) /\ Len(kept) = m - n
  <2>1. n \in 0..m
    BY <1>3
  <2> QED
    BY <1>3, <2>1, SeqDropLast, Zenon
<1>5. fs2 = [fs EXCEPT ![D] = g]
  BY <1>1 DEF Restacked, WithStack
<1> HIDE DEF m, v, g, f, kept, b, k2, fs2, D, rs2
<1>6. IsSeq(k2) /\ Len(k2) = (m - n) + v
  <2>1. IsSeq(kept \o values) /\ Len(kept \o values) = Len(kept) + Len(values)
    BY <1>4, SeqConcat, Zenon
  <2> QED
    BY <1>4, <2>1 DEF kept, v, k2
<1>7. HasStack(f, k2, g)
  BY <1>2, <1>6, WithStackLemma DEF g
<1>8. /\ IsSeq(fs2) /\ Len(fs2) = D
      /\ \A d \in 1..D : fs2[d] = IF d = D THEN g ELSE fs[d]
  <2> DEFINE gs == [fs EXCEPT ![D] = g]
  <2>1. IsSeq(gs)
    BY <1>1, SeqExcept
  <2>2. Len(gs) = Len(fs)
    BY <1>1, SeqExcept
  <2>3. \A d \in 1..Len(fs) : gs[d] = IF d = D THEN g ELSE fs[d]
    BY <1>1, SeqExcept
  <2>4. fs2 = gs
    BY <1>5
  <2> HIDE DEF gs
  <2> QED
    BY <1>0, <2>1, <2>2, <2>3, <2>4
<1>9. fs2[D] = g /\ \A d \in 1..D : d # D => fs2[d] = fs[d]
  BY <1>1, <1>8
<1>10. /\ IsSeq(rs2) /\ End(g) = Len(rs2) /\ Listed(D, g, rs2)
       /\ \A i \in 1..b : rs2[i] = rs[i]
  <2>1. n <= StackLen(f) /\ rs2 = DropLast(rs, n) \o Pushed(D, StackLen(f) - n, values)
    BY <1>3 DEF m, rs2
  <2>2. Len(k2) = (StackLen(f) - n) + Len(values)
    BY <1>3, <1>6 DEF v
  <2>3. TopBecomes(D, f, g, rs, rs2)
    BY <1>1, <1>2, <1>7, <2>1, <2>2, ListedStacked
  <2> QED
    BY <2>3 DEF TopBecomes, b
<1>11. C \in Nat /\ C + 1 = D /\ \A d \in 1..C : d \in 1..D /\ d # D
  BY <1>1
<1>12. b \in Nat
  BY <1>2, FrameNumbers DEF b
<1>13. Tiled(fs, C, rs, b)
  BY <1>1, TiledDown DEF b, f
<1> HIDE DEF C
<1>14. \A d \in 1..C : fs2[d] = fs[d]
  BY <1>9, <1>11
<1>15. Tiled(fs2, C, rs2, b)
  BY <1>10, <1>11, <1>12, <1>13, <1>14, TiledSame, Zenon
<1>16. Tiled(fs2, C + 1, rs2, End(g))
  <2>1. g = fs2[C + 1] /\ FrameOK(g) /\ Base(g) = b /\ Listed(C + 1, g, rs2)
    BY <1>7, <1>9, <1>10, <1>11 DEF b, HasStack
  <2> QED
    BY <1>11, <1>12, <1>15, <2>1, TiledUp, Zenon
<1>17. InStep(fs2, rs2)
  BY <1>8, <1>10, <1>11, <1>16 DEF InStep
<1> QED
  BY <1>1, <1>6, <1>7, <1>8, <1>9, <1>17 DEF f, m, v, D, k2, fs2, rs2, HasStack, TopRestacked

(* A new frame above them, empty of operands.                               *)
LEMMA InStepPush ==
  ASSUME NEW fs, NEW rs, InStep(fs, rs), NEW g, FrameOK(g), g.stack = << >>, Base(g) = Len(rs)
  PROVE  /\ InStep(Append(fs, g), rs \o FrameSlots(Len(fs) + 1, g))
         /\ Len(Append(fs, g)) = Len(fs) + 1
         /\ \A d \in 1..Len(fs) : Append(fs, g)[d] = fs[d]
         /\ Append(fs, g)[Len(fs) + 1] = g
<1> DEFINE D == Len(fs)
           r == Len(rs)
           fs2 == Append(fs, g)
           new == FrameSlots(D + 1, g)
           rs2 == rs \o new
           q == FrameRoots(g)
           vs == VarSlots(D + 1, g)
<1>1. D \in Nat /\ r \in Nat /\ IsSeq(fs) /\ IsSeq(rs) /\ Tiled(fs, D, rs, r)
  BY SeqDomain DEF InStep
<1>2. StackLen(g) = 0
  BY DEF StackLen
<1>3. /\ IsSeq(fs2) /\ Len(fs2) = D + 1 /\ fs2[D + 1] = g
      /\ \A d \in 1..D : fs2[d] = fs[d]
  BY <1>1, SeqAppend, Zenon
<1>4. q \in Nat /\ IsSeq(new) /\ Len(new) = q + StackLen(g) /\ \A i \in 1..q : new[i] = vs[i]
  BY FrameSlotsLemma, Zenon
<1> HIDE DEF D, fs2, q, vs, new
<1>5. Len(new) = q
  BY <1>2, <1>4
<1>6. /\ IsSeq(rs2) /\ Len(rs2) = Len(rs) + Len(new)
      /\ \A i \in 1..Len(rs) : rs2[i] = rs[i]
      /\ \A i \in 1..Len(new) : rs2[Len(rs) + i] = new[i]
  <2>1. IsSeq(rs2) /\ Len(rs2) = Len(rs) + Len(new)
    BY <1>1, <1>4, SeqConcat
  <2>2. \A i \in 1..Len(rs) : rs2[i] = rs[i]
    BY <1>1, <1>4, SeqConcat
  <2>3. \A i \in 1..Len(new) : rs2[Len(rs) + i] = new[i]
    BY <1>1, <1>4, SeqConcat
  <2> QED
    BY <2>1, <2>2, <2>3
<1> HIDE DEF rs2, r
<1>7. /\ Len(rs2) = r + q /\ \A i \in 1..r : rs2[i] = rs[i]
      /\ \A i \in 1..q : rs2[r + i] = vs[i]
  <2>1. \A i \in 1..q : rs2[r + i] = new[i]
    BY <1>5, <1>6 DEF r
  <2> QED
    BY <1>4, <1>5, <1>6, <2>1 DEF r
<1>8. Tiled(fs2, D, rs2, r)
  BY <1>1, <1>3, <1>7, TiledSame, Zenon
<1>9. Listed(D + 1, g, rs2)
  BY <1>2, <1>7 DEF Listed, r, q, vs
<1>10. Tiled(fs2, D + 1, rs2, End(g))
  BY <1>1, <1>3, <1>8, <1>9, TiledUp, Zenon DEF r
<1>11. End(g) = Len(rs2)
  BY <1>1, <1>2, <1>4, <1>7 DEF End, r, q
<1>12. InStep(fs2, rs2)
  BY <1>3, <1>6, <1>10, <1>11 DEF InStep
<1> QED
  BY <1>3, <1>12 DEF fs2, D, rs2, new

(* The top frame destroyed, with all its entries.                           *)
LEMMA InStepPop ==
  ASSUME NEW fs, NEW rs, InStep(fs, rs), NEW D, D = Len(fs), D > 0,
         NEW n \in Nat, n = StackLen(fs[D]) + FrameRoots(fs[D])
  PROVE  /\ InStep(DropLast(fs, 1), DropLast(rs, n))
         /\ Len(DropLast(fs, 1)) = D - 1
         /\ \A d \in 1..D - 1 : DropLast(fs, 1)[d] = fs[d]
<1> DEFINE f == fs[D]
           r == Len(rs)
           fs2 == DropLast(fs, 1)
           rs2 == DropLast(rs, n)
           b == Base(f)
           C == D - 1
<1>1. D \in Nat /\ D \in 1..D /\ r \in Nat /\ IsSeq(fs) /\ IsSeq(rs) /\ Tiled(fs, D, rs, r)
  BY SeqDomain DEF InStep
<1>2. FrameOK(f) /\ End(f) = r
  BY <1>1 DEF Tiled
<1>3. b \in Nat /\ End(f) = b + n
  <2>1. b \in Nat /\ FrameRoots(f) \in Nat /\ StackLen(f) \in Nat
    BY <1>2, FrameNumbers
  <2> HIDE DEF b, f
  <2>2. n = StackLen(f) + FrameRoots(f) /\ End(f) = b + FrameRoots(f) + StackLen(f)
    BY DEF End, b, f
  <2> QED
    BY <2>1, <2>2
<1>4. 1 \in 0..Len(fs) /\ C \in Nat
  BY <1>1
<1>5. IsSeq(fs2) /\ Len(fs2) = C /\ \A d \in 1..C : fs2[d] = fs[d]
  BY <1>1, <1>4, SeqDropLast, Zenon
<1> HIDE DEF f, fs2, b, r
<1>6. n \in 0..r /\ r - n = b
  BY <1>1, <1>2, <1>3
<1>7. n \in 0..Len(rs)
  BY <1>6 DEF r
<1>8. IsSeq(rs2) /\ Len(rs2) = Len(rs) - n /\ \A i \in 1..Len(rs) - n : rs2[i] = rs[i]
  BY <1>1, <1>7, SeqDropLast, Zenon
<1> HIDE DEF rs2
<1>9. Len(rs2) = b /\ \A i \in 1..b : rs2[i] = rs[i]
  BY <1>6, <1>8 DEF r
<1>10. Tiled(fs, C, rs, b)
  BY <1>1, TiledDown DEF b, f
<1>11. Tiled(fs2, C, rs2, b)
  BY <1>3, <1>4, <1>5, <1>9, <1>10, TiledSame, Zenon
<1>12. InStep(fs2, rs2)
  BY <1>5, <1>8, <1>9, <1>11 DEF InStep
<1> QED
  BY <1>5, <1>12 DEF fs2, rs2

-----------------------------------------------------------------------------
(* The heap: what a function object must be for CALLC to build its frame    *)

ObjectOK(schemes, o) ==
  /\ o = Object(o.type, o.num, o.keys, o.refs)
  /\ o.type = "Func" => o.num \in schemes /\ IsSeq(o.refs)

ObjectsOK(schemes, objects) ==
  /\ IsSeq(objects)
  /\ \A i \in 1..Len(objects) : ObjectOK(schemes, objects[i])

(* An object is well formed if, being a function, it is one of the file.    *)
LEMMA ObjectLemma ==
  ASSUME NEW schemes, NEW type, NEW num, NEW keys, NEW refs,
         type = "Func" => num \in schemes /\ IsSeq(refs)
  PROVE  ObjectOK(schemes, Object(type, num, keys, refs))
<1> DEFINE o == Object(type, num, keys, refs)
<1>1. o.type = type /\ o.num = num /\ o.keys = keys /\ o.refs = refs
  BY DEF Object
<1> HIDE DEF o
<1>2. ObjectOK(schemes, o)
  BY <1>1 DEF o, ObjectOK
<1> QED
  BY <1>2 DEF o

(* The objects that are no functions.                                       *)
LEMMA DataObjects ==
  ASSUME NEW schemes
  PROVE  /\ \A v : ObjectOK(schemes, MakeInt(v))
         /\ \A v : ObjectOK(schemes, MakeBool(v))
         /\ \A v : ObjectOK(schemes, MakeRef(v))
         /\ \A type, num, keys, refs : type # "Func" => ObjectOK(schemes, Object(type, num, keys, refs))
<1>1. \A type, num, keys, refs : type # "Func" => ObjectOK(schemes, Object(type, num, keys, refs))
  BY ObjectLemma
<1>2. \A v : ObjectOK(schemes, MakeInt(v))
  BY <1>1 DEF MakeInt
<1>3. \A v : ObjectOK(schemes, MakeBool(v))
  BY <1>1 DEF MakeBool
<1>4. \A v : ObjectOK(schemes, MakeRef(v))
  BY <1>1 DEF MakeRef
<1> QED
  BY <1>1, <1>2, <1>3, <1>4

(* An object as a sequence of objects.                                      *)
LEMMA ObjectsOfOne ==
  ASSUME NEW schemes, NEW o, ObjectOK(schemes, o)
  PROVE  ObjectsOK(schemes, <<o>>)
<1>1. <<o>> \in Seq({o}) /\ Len(<<o>>) = 1 /\ <<o>>[1] = o
  OBVIOUS
<1>2. \A i \in 1..1 : i = 1
  OBVIOUS
<1> HIDE DEF ObjectOK
<1> QED
  BY <1>1, <1>2 DEF ObjectsOK, IsSeq

(* A function from indices to objects, as a sequence of objects.            *)
LEMMA ObjectsOfMany ==
  ASSUME NEW schemes, NEW n \in Nat, NEW S, NEW s \in [1..n -> S],
         \A i \in 1..n : ObjectOK(schemes, s[i])
  PROVE  ObjectsOK(schemes, s)
<1>1. IsSeq(s) /\ Len(s) = n
  BY SeqOfFunction
<1> QED
  BY <1>1 DEF ObjectsOK

(* Objects followed by objects.                                             *)
LEMMA ObjectsConcat ==
  ASSUME NEW schemes, NEW s, ObjectsOK(schemes, s), NEW t, ObjectsOK(schemes, t)
  PROVE  ObjectsOK(schemes, s \o t)
<1> DEFINE u == s \o t
           m == Len(s)
           n == Len(t)
<1>1. IsSeq(s) /\ IsSeq(t) /\ m \in Nat /\ n \in Nat
  BY SeqDomain DEF ObjectsOK
<1>2. IsSeq(u) /\ Len(u) = m + n
  BY <1>1, SeqConcat
<1>3. \A i \in 1..m : u[i] = s[i]
  BY <1>1, SeqConcat
<1>4. \A i \in 1..n : u[m + i] = t[i]
  BY <1>1, SeqConcat
<1> HIDE DEF u
<1>5. ASSUME NEW i \in 1..m + n
      PROVE  ObjectOK(schemes, u[i])
  <2>1. (\A j \in 1..m : ObjectOK(schemes, s[j])) /\ \A j \in 1..n : ObjectOK(schemes, t[j])
    BY DEF ObjectsOK
  <2> HIDE DEF m, n
  <2>2. CASE i \in 1..m
    BY <1>3, <2>1, <2>2
  <2>3. CASE i \notin 1..m
    <3>1. i - m \in 1..n /\ m + (i - m) = i
      BY <1>1, <1>5, <2>3
    <3> QED
      BY <1>4, <2>1, <3>1
  <2> QED
    BY <2>2, <2>3
<1>6. ObjectsOK(schemes, u)
  BY <1>2, <1>5 DEF ObjectsOK
<1> QED
  BY <1>6 DEF u

(* Writing the refs of an object that is no function, or a sequence to any. *)
LEMMA ObjectsRefs ==
  ASSUME NEW schemes, NEW s, ObjectsOK(schemes, s), NEW x, NEW r,
         x \in 1..Len(s) => s[x].type # "Func" \/ IsSeq(r)
  PROVE  ObjectsOK(schemes, [s EXCEPT ![x].refs = r])
<1> DEFINE o == [s[x] EXCEPT !.refs = r]
           t == [s EXCEPT ![x] = o]
<1>1. [s EXCEPT ![x].refs = r] = t
  OBVIOUS
<1>2. IsSeq(s)
  BY DEF ObjectsOK
<1>3. IsSeq(t)
  BY <1>2, SeqExcept
<1>4. Len(t) = Len(s)
  BY <1>2, SeqExcept
<1>5. \A j \in 1..Len(s) : t[j] = IF j = x THEN o ELSE s[j]
  BY <1>2, SeqExcept
<1> HIDE DEF t
<1>6. x \in 1..Len(s) => ObjectOK(schemes, o)
  <2>1. ASSUME x \in 1..Len(s)
        PROVE  o = Object(s[x].type, s[x].num, s[x].keys, r)
    <3>1. s[x] = Object(s[x].type, s[x].num, s[x].keys, s[x].refs)
      BY <2>1 DEF ObjectsOK, ObjectOK
    <3> QED
      BY <3>1 DEF Object
  <2>2. ASSUME x \in 1..Len(s), s[x].type = "Func"
        PROVE  s[x].num \in schemes
    BY <2>2 DEF ObjectsOK, ObjectOK
  <2> HIDE DEF o
  <2> QED
    BY <2>1, <2>2, ObjectLemma
<1> HIDE DEF o
<1>7. \A j \in 1..Len(s) : ObjectOK(schemes, t[j])
  BY <1>5, <1>6 DEF ObjectsOK
<1> QED
  BY <1>1, <1>3, <1>4, <1>7 DEF ObjectsOK

(* Writing the keys.                                                        *)
WithKeys(s, x, k) == [s EXCEPT ![x].keys = k]

(* No object changes its type or becomes another function.                  *)
LEMMA ObjectsKeys ==
  ASSUME NEW schemes, NEW s, ObjectsOK(schemes, s), NEW x, NEW k
  PROVE  /\ ObjectsOK(schemes, WithKeys(s, x, k))
         /\ x \in 1..Len(s) => WithKeys(s, x, k)[x].type = s[x].type
         /\ Len(WithKeys(s, x, k)) = Len(s)
<1> DEFINE o == [s[x] EXCEPT !.keys = k]
           t == [s EXCEPT ![x] = o]
<1>1. WithKeys(s, x, k) = t
  BY DEF WithKeys
<1>2. IsSeq(s)
  BY DEF ObjectsOK
<1>3. IsSeq(t)
  BY <1>2, SeqExcept
<1>4. Len(t) = Len(s)
  BY <1>2, SeqExcept
<1>5. \A j \in 1..Len(s) : t[j] = IF j = x THEN o ELSE s[j]
  BY <1>2, SeqExcept
<1> HIDE DEF t
<1>6. x \in 1..Len(s) => ObjectOK(schemes, o) /\ o.type = s[x].type
  <2>1. ASSUME x \in 1..Len(s)
        PROVE  o = Object(s[x].type, s[x].num, k, s[x].refs) /\ o.type = s[x].type
    <3>1. s[x] = Object(s[x].type, s[x].num, s[x].keys, s[x].refs)
      BY <2>1 DEF ObjectsOK, ObjectOK
    <3> QED
      BY <3>1 DEF Object
  <2>2. ASSUME x \in 1..Len(s), s[x].type = "Func"
        PROVE  s[x].num \in schemes /\ IsSeq(s[x].refs)
    BY <2>2 DEF ObjectsOK, ObjectOK
  <2> HIDE DEF o
  <2> QED
    BY <2>1, <2>2, ObjectLemma
<1> HIDE DEF o
<1>7. \A j \in 1..Len(s) : ObjectOK(schemes, t[j])
  BY <1>5, <1>6 DEF ObjectsOK
<1> QED
  BY <1>1, <1>3, <1>4, <1>5, <1>6, <1>7 DEF ObjectsOK

-----------------------------------------------------------------------------
(* Control: where each frame is, and the operands its code says it has      *)

(* Frame g is at instruction p, its stack n operands short of the height    *)
(* there.                                                                   *)
AtHeight(f, h, g, p, n) ==
  /\ g.scheme \in DOMAIN f.functions
  /\ p \in 1..Len(f.functions[g.scheme].code) + 1
  /\ h[g.scheme][p] = StackLen(g) + n

(* So are the first D frames of fs, the last of them at p, the others where *)
(* their callee will return to, the result missing.                         *)
Followed(f, h, fs, D, p, n) ==
  /\ AtHeight(f, h, fs[D], p, n)
  /\ \A d \in 1..D : d < D => AtHeight(f, h, fs[d], fs[d + 1].return, 1)

(* The callers of the top frame.                                            *)
LEMMA FollowedDown ==
  ASSUME NEW f, NEW h, NEW fs, NEW D \in Nat, D > 1, NEW p, NEW n, Followed(f, h, fs, D, p, n)
  PROVE  Followed(f, h, fs, D - 1, fs[D].return, 1)
<1>1. D - 1 \in 1..D /\ D - 1 < D /\ (D - 1) + 1 = D
  OBVIOUS
<1>2. AtHeight(f, h, fs[D - 1], fs[D].return, 1)
  BY <1>1 DEF Followed
<1>3. \A d \in 1..D - 1 : d \in 1..D /\ d < D
  OBVIOUS
<1>4. \A d \in 1..D - 1 : AtHeight(f, h, fs[d], fs[d + 1].return, 1)
  BY <1>3 DEF Followed
<1> QED
  BY <1>2, <1>4 DEF Followed

(* Another top frame over the same callers.                                 *)
LEMMA FollowedSame ==
  ASSUME NEW f, NEW h, NEW fs, NEW D \in Nat, D > 0, NEW p, NEW n, Followed(f, h, fs, D, p, n),
         NEW fs2, \A d \in 1..D : d # D => fs2[d] = fs[d], fs2[D].return = fs[D].return,
         NEW q, NEW m, AtHeight(f, h, fs2[D], q, m)
  PROVE  Followed(f, h, fs2, D, q, m)
<1>1. ASSUME NEW d \in 1..D, d < D
      PROVE  AtHeight(f, h, fs2[d], fs2[d + 1].return, 1)
  <2>1. d # D /\ d + 1 \in 1..D
    BY <1>1
  <2>2. fs2[d] = fs[d]
    BY <2>1
  <2>3. fs2[d + 1].return = fs[d + 1].return
    <3>1. CASE d + 1 = D
      BY <3>1
    <3>2. CASE d + 1 # D
      <4>1. fs2[d + 1] = fs[d + 1]
        BY <2>1, <3>2
      <4> QED
        BY <4>1
    <3> QED
      BY <3>1, <3>2
  <2>4. AtHeight(f, h, fs[d], fs[d + 1].return, 1)
    BY <1>1 DEF Followed
  <2> QED
    BY <2>2, <2>3, <2>4
<1> QED
  BY <1>1 DEF Followed

(* A callee on top of a frame that waits for it.                            *)
LEMMA FollowedUp ==
  ASSUME NEW f, NEW h, NEW fs, NEW D \in Nat, D > 0, NEW p, Followed(f, h, fs, D, p, 1),
         fs[D + 1].return = p, NEW q, AtHeight(f, h, fs[D + 1], q, 0)
  PROVE  Followed(f, h, fs, D + 1, q, 0)
<1>1. ASSUME NEW d \in 1..D + 1, d < D + 1
      PROVE  AtHeight(f, h, fs[d], fs[d + 1].return, 1)
  <2>1. d \in 1..D
    BY <1>1
  <2>2. CASE d = D
    BY <2>2 DEF Followed
  <2>3. CASE d # D
    <3>1. d < D
      BY <2>1, <2>3
    <3> QED
      BY <2>1, <3>1 DEF Followed
  <2> QED
    BY <2>2, <2>3
<1> QED
  BY <1>1 DEF Followed

(* What a verified file says of one function.                               *)
LEMMA VerifiedEntry ==
  ASSUME NEW f, NEW h, Verified(f, h), NEW s \in DOMAIN f.functions
  PROVE  /\ Len(f.functions[s].code) \in Nat
         /\ DOMAIN f.functions[s].code = 1..Len(f.functions[s].code)
         /\ f.functions[s].args \in Nat /\ f.functions[s].locals \in Nat
         /\ IsSeq(f.functions[s].capture)
         /\ h[s][1] = 0
<1> DEFINE code == f.functions[s].code
           capture == f.functions[s].capture
<1>1. /\ code \in Seq(Range(code)) /\ capture \in Seq(Range(capture))
      /\ f.functions[s].args \in Nat /\ f.functions[s].locals \in Nat
  BY DEF Verified, WellFormed
<1>2. h[s][1] = 0
  BY DEF Verified, VerifiedCode
<1> HIDE DEF code, capture
<1>3. IsSeq(code) /\ IsSeq(capture)
  BY <1>1 DEF IsSeq
<1>4. Len(code) \in Nat /\ DOMAIN code = 1..Len(code)
  BY <1>3, SeqDomain
<1> QED
  BY <1>1, <1>2, <1>3, <1>4 DEF code, capture

(* What it says of a frame in it.                                           *)
LEMMA VerifiedHeights ==
  ASSUME NEW f, NEW h, Verified(f, h), NEW g, StackLen(g) \in Nat,
         NEW p, AtHeight(f, h, g, p, 0),
         NEW code, code = f.functions[g.scheme].code
  PROVE  /\ p = Len(code) + 1 => StackLen(g) = 0
         /\ p \in DOMAIN code =>
              /\ Pops(f, code[p]) <= StackLen(g)
              /\ code[p].op = "RET" => StackLen(g) = 1
              /\ \A j \in Successors(code, p) :
                    /\ j \in 1..Len(code) + 1
                    /\ h[g.scheme][j] = StackLen(g) - Pops(f, code[p]) + Pushes(code[p])
<1> DEFINE s == g.scheme
           H == h[s]
           k == StackLen(g)
<1>1. s \in DOMAIN f.functions /\ p \in 1..Len(code) + 1 /\ H[p] = k + 0
  BY DEF AtHeight
<1>2. VerifiedCode(f, code, H)
  BY <1>1 DEF Verified
<1> HIDE DEF s, H, k
<1>3. H[p] = k /\ H[p] # Unreached
  BY <1>1 DEF k, Unreached
<1>4. p = Len(code) + 1 => k = 0
  BY <1>2, <1>3 DEF VerifiedCode, Unreached, k
<1>5. DOMAIN H = 1..Len(code) + 1
  BY <1>2 DEF VerifiedCode
<1>6. ASSUME p \in DOMAIN code
      PROVE  /\ Pops(f, code[p]) <= k
             /\ code[p].op = "RET" => k = 1
             /\ \A j \in Successors(code, p) :
                   /\ j \in 1..Len(code) + 1
                   /\ H[j] = k - Pops(f, code[p]) + Pushes(code[p])
  <2>1. /\ Pops(f, code[p]) <= H[p]
        /\ code[p].op = "RET" => H[p] = 1
        /\ \A j \in Successors(code, p) : j \in DOMAIN H /\ H[j] = HeightAfter(f, code, H, p)
    BY <1>2, <1>3, <1>6 DEF VerifiedCode
  <2>2. HeightAfter(f, code, H, p) = k - Pops(f, code[p]) + Pushes(code[p])
    BY <1>3 DEF HeightAfter
  <2> QED
    BY <1>3, <1>5, <2>1, <2>2
<1> QED
  BY <1>4, <1>6 DEF s, H, k

-----------------------------------------------------------------------------
(* The invariant *)

(* The heights of the file that runs.                                       *)
HeightsOf(f) == CHOOSE h : Verified(f, h)

Control(f, fs, p) == Len(fs) > 0 /\ Followed(f, HeightsOf(f), fs, Len(fs), p, 0)

(* The roots follow the frames, the frames follow the code's heights, and   *)
(* every function object is one of the file's functions.                    *)
IInv ==
  /\ \E k \in DOMAIN Files : file = Files[k]
  /\ ObjectsOK(DOMAIN Schemes, heap)
  /\ InStep(frames, roots)
  /\ status = "running" => Control(file, frames, pc)

(* What holds while the machine runs.                                       *)
LEMMA Running ==
  ASSUME FilesVerified, IInv, status = "running"
  PROVE  /\ Verified(file, HeightsOf(file))
         /\ Depth \in Nat /\ Depth > 0 /\ Depth \in 1..Depth /\ DOMAIN frames = 1..Depth
         /\ FrameOK(Top) /\ StackLen(Top) \in Nat /\ FrameRoots(Top) \in Nat
         /\ Top.scheme \in DOMAIN Schemes
         /\ Followed(file, HeightsOf(file), frames, Depth, pc, 0)
         /\ AtHeight(file, HeightsOf(file), Top, pc, 0)
         /\ Len(Code) \in Nat /\ DOMAIN Code = 1..Len(Code)
         /\ IsSeq(Top.locals) /\ IsSeq(Top.args) /\ IsSeq(Top.captured) /\ IsSeq(Top.stack)
<1>1. PICK k \in DOMAIN Files : file = Files[k]
  BY DEF IInv
<1>2. PICK h : Verified(file, h)
  BY <1>1 DEF FilesVerified
<1>3. Verified(file, HeightsOf(file))
  BY <1>2 DEF HeightsOf
<1>4. InStep(frames, roots) /\ Len(frames) > 0
      /\ Followed(file, HeightsOf(file), frames, Len(frames), pc, 0)
  BY DEF IInv, Control
<1>5. Depth \in Nat /\ DOMAIN frames = 1..Depth
  BY <1>4, SeqDomain DEF InStep, Depth
<1>6. Depth > 0 /\ Depth \in 1..Depth
  BY <1>4, <1>5 DEF Depth
<1>7. FrameOK(Top)
  BY <1>4, <1>6 DEF InStep, Tiled, Depth, Top
<1>8. StackLen(Top) \in Nat /\ FrameRoots(Top) \in Nat
  BY <1>7, FrameNumbers
<1>9. AtHeight(file, HeightsOf(file), Top, pc, 0)
  BY <1>4 DEF Followed, Top, Depth
<1>10. Top.scheme \in DOMAIN Schemes
  BY <1>9 DEF AtHeight, Schemes
<1>11. Len(Code) \in Nat /\ DOMAIN Code = 1..Len(Code)
  BY <1>3, <1>10, VerifiedEntry DEF Code, SchemeOf, Schemes
<1>12. Followed(file, HeightsOf(file), frames, Depth, pc, 0)
  BY <1>4 DEF Depth
<1>13. IsSeq(Top.locals) /\ IsSeq(Top.args) /\ IsSeq(Top.captured) /\ IsSeq(Top.stack)
  BY <1>7 DEF FrameOK
<1> QED
  BY <1>3, <1>5, <1>6, <1>7, <1>8, <1>9, <1>10, <1>11, <1>12, <1>13

(* What the code's heights say of the top frame.                            *)
LEMMA RunningHeights ==
  ASSUME FilesVerified, IInv, status = "running"
  PROVE  /\ pc = Len(Code) + 1 => StackLen(Top) = 0
         /\ pc \in DOMAIN Code =>
              /\ Pops(file, Code[pc]) <= StackLen(Top)
              /\ Code[pc].op = "RET" => StackLen(Top) = 1
              /\ \A j \in Successors(Code, pc) :
                    /\ j \in 1..Len(Code) + 1
                    /\ HeightsOf(file)[Top.scheme][j]
                         = StackLen(Top) - Pops(file, Code[pc]) + Pushes(Code[pc])
<1>1. /\ Verified(file, HeightsOf(file)) /\ StackLen(Top) \in Nat
      /\ AtHeight(file, HeightsOf(file), Top, pc, 0)
  BY Running
<1>2. Code = file.functions[Top.scheme].code
  BY DEF Code, SchemeOf, Schemes
<1> QED
  BY <1>1, <1>2, VerifiedHeights

(* An instruction that pops and pushes as the code's heights say, and goes  *)
(* on to one of its successors.                                             *)
LEMMA StackedStep ==
  ASSUME FilesVerified, IInv, status = "running", pc \in DOMAIN Code,
         NEW n \in Nat, n = Pops(file, Code[pc]),
         NEW values, IsSeq(values), Len(values) = Pushes(Code[pc]),
         Stacked(n, values), pc' \in Successors(Code, pc)
  PROVE  InStep(frames', roots') /\ Control(file, frames', pc')
<1> DEFINE D == Len(frames)
           k == Top.stack
           k2 == DropLast(k, n) \o values
           fs2 == frames'
           rs2 == roots'
           h == HeightsOf(file)
           q == pc'
<1>1. InStep(frames, roots) /\ D \in Nat /\ D > 0 /\ k = frames[D].stack /\ StackLen(Top) = Len(k)
      /\ IsSeq(k)
  BY Running DEF IInv, Depth, Top, StackLen
<1>2. n <= Len(k)
  BY <1>1, RunningHeights
<1>3. fs2 = Restacked(frames, k2)
  BY DEF Stacked, Restacked, Depth
<1>4. Len(DropLast(k, n)) = Len(k) - n
  <2>1. Len(k) \in Nat
    BY <1>1, SeqDomain
  <2>2. n \in 0..Len(k)
    BY <1>2, <2>1
  <2> QED
    BY <1>1, <2>2, SeqDropLast
<1>5. rs2 = DropLast(roots, n) \o Pushed(D, Len(k) - n, values)
  BY <1>4 DEF Stacked, Pushed, Depth
<1> HIDE DEF D, k, k2, fs2, rs2, h, q
<1>6. k2 = DropLast(k, n) \o values
  BY DEF k2
<1>7. TopRestacked(frames, fs2, rs2, (Len(k) - n) + Len(values))
  BY <1>1, <1>2, <1>3, <1>5, <1>6, InStepStacked DEF D
<1>8. InStep(fs2, rs2) /\ Len(fs2) = D /\ StackLen(fs2[D]) = (Len(k) - n) + Len(values)
  BY <1>7 DEF TopRestacked, D
<1>9. \A d \in 1..D : d # D => fs2[d] = frames[d]
  BY <1>7 DEF TopRestacked, D
<1>10. fs2[D].scheme = frames[D].scheme /\ fs2[D].return = frames[D].return
  BY <1>7 DEF TopRestacked, D
<1>11. AtHeight(file, h, fs2[D], q, 0)
  <2>1. /\ q \in 1..Len(Code) + 1
        /\ h[Top.scheme][q] = StackLen(Top) - Pops(file, Code[pc]) + Pushes(Code[pc])
    BY RunningHeights DEF q, h
  <2>2. Top.scheme \in DOMAIN Schemes
    BY Running
  <2>3. fs2[D].scheme = Top.scheme
    BY <1>10 DEF Top, Depth, D
  <2>4. StackLen(fs2[D]) = (Len(k) - n) + Len(values)
    BY <1>8
  <2>5. h[Top.scheme][q] = (Len(k) - n) + Len(values)
    BY <1>1, <2>1
  <2>6. Len(k) \in Nat /\ Len(values) \in Nat
    BY <1>1, SeqDomain
  <2> QED
    BY <2>1, <2>2, <2>3, <2>4, <2>5, <2>6 DEF AtHeight, Code, SchemeOf, Schemes
<1>12. Followed(file, h, frames, D, pc, 0)
  BY Running DEF h, D, Depth
<1>13. Followed(file, h, fs2, D, q, 0)
  BY <1>1, <1>9, <1>10, <1>11, <1>12, FollowedSame
<1> QED
  BY <1>1, <1>8, <1>13 DEF Control, fs2, rs2, h, q

-----------------------------------------------------------------------------
(* The steps *)

(* The sequences an instruction pushes.                                     *)
LEMMA ShortSeqs ==
  /\ IsSeq(<< >>) /\ Len(<< >>) = 0
  /\ \A x : IsSeq(<<x>>) /\ Len(<<x>>) = 1
  /\ \A x, y : IsSeq(<<x, y>>) /\ Len(<<x, y>>) = 2
<1>1. << >> \in Seq({}) /\ Len(<< >>) = 0
  OBVIOUS
<1>2. \A x : <<x>> \in Seq({x}) /\ Len(<<x>>) = 1
  OBVIOUS
<1>3. \A x, y : <<x, y>> \in Seq({x, y}) /\ Len(<<x, y>>) = 2
  OBVIOUS
<1> QED
  BY <1>1, <1>2, <1>3 DEF IsSeq

(* What a step has to keep.                                                 *)
LEMMA StepKeeps ==
  ASSUME IInv, file' = file, ObjectsOK(DOMAIN Schemes, heap'),
         InStep(frames', roots'), status' = "running" => Control(file, frames', pc')
  PROVE  IInv'
<1>1. Schemes' = Schemes
  BY DEF Schemes
<1>2. (\E k \in DOMAIN Files : file = Files[k])'
  BY DEF IInv
<1>3. ObjectsOK(DOMAIN Schemes, heap)'
  BY <1>1
<1> QED
  BY <1>2, <1>3 DEF IInv

(* An instruction that goes on to the next one.                             *)
LEMMA AdvanceStep ==
  ASSUME FilesVerified, IInv, NEW op, Fetched(op), op \notin {"JMP", "CJMPZ", "RET"},
         NEW n \in Nat, n = Pops(file, Code[pc]),
         NEW values, IsSeq(values), Len(values) = Pushes(Code[pc]),
         Stacked(n, values), Advance, file' = file, ObjectsOK(DOMAIN Schemes, heap')
  PROVE  IInv'
<1>1. status = "running" /\ pc \in DOMAIN Code /\ Code[pc].op = op
  BY DEF Fetched
<1>2. pc' \in Successors(Code, pc)
  BY <1>1 DEF Successors, Advance
<1>3. InStep(frames', roots') /\ Control(file, frames', pc')
  BY <1>1, <1>2, StackedStep
<1> QED
  BY <1>3, StepKeeps

(* Allocation keeps the heap; so does leaving it alone.                     *)
LEMMA HeapKept ==
  ASSUME IInv
  PROVE  /\ ObjectsOK(DOMAIN Schemes, heap)
         /\ UNCHANGED heap => ObjectsOK(DOMAIN Schemes, heap')
         /\ \A objects : ObjectsOK(DOMAIN Schemes, objects) /\ Allocating(objects)
                           => ObjectsOK(DOMAIN Schemes, heap')
         /\ \A o : ObjectOK(DOMAIN Schemes, o) /\ Allocating(<<o>>)
                     => ObjectsOK(DOMAIN Schemes, heap')
         /\ \A x, v : heap' = [heap EXCEPT ![x].refs = <<v>>] => ObjectsOK(DOMAIN Schemes, heap')
<1> DEFINE S == DOMAIN Schemes
<1>1. ObjectsOK(S, heap)
  BY DEF IInv
<1> HIDE DEF S
<1>2. \A objects : ObjectsOK(S, objects) => ObjectsOK(S, heap \o objects)
  BY <1>1, ObjectsConcat
<1>3. \A o : ObjectOK(S, o) => ObjectsOK(S, heap \o <<o>>)
  BY <1>2, ObjectsOfOne
<1>4. \A x, v : ObjectsOK(S, [heap EXCEPT ![x].refs = <<v>>])
  <2>1. ASSUME NEW x, NEW v
        PROVE  ObjectsOK(S, [heap EXCEPT ![x].refs = <<v>>])
    <3>1. IsSeq(<<v>>)
      BY ShortSeqs
    <3> QED
      BY <1>1, <3>1, ObjectsRefs, Zenon
  <2> QED
    BY <2>1
<1>5. UNCHANGED heap => ObjectsOK(S, heap')
  BY <1>1
<1>6. \A objects : ObjectsOK(S, objects) /\ Allocating(objects) => ObjectsOK(S, heap')
  BY <1>2 DEF Allocating
<1>7. \A o : ObjectOK(S, o) /\ Allocating(<<o>>) => ObjectsOK(S, heap')
  BY <1>3 DEF Allocating
<1>8. \A x, v : heap' = [heap EXCEPT ![x].refs = <<v>>] => ObjectsOK(S, heap')
  <2>1. ASSUME NEW x, NEW v, heap' = [heap EXCEPT ![x].refs = <<v>>]
        PROVE  ObjectsOK(S, heap')
    <3>1. ObjectsOK(S, [heap EXCEPT ![x].refs = <<v>>])
      BY <1>4, Zenon
    <3> QED
      BY <2>1, <3>1, Zenon
  <2> QED
    BY <2>1, Zenon
<1> QED
  BY <1>1, <1>5, <1>6, <1>7, <1>8, Zenon DEF S

(* What the instructions of an advancing step pop and push.                 *)
LEMMA Arities ==
  ASSUME NEW op, Fetched(op)
  PROVE  /\ op \in {"NONE", "CONST", "BOOL", "STRING", "LD", "ARRAY", "CLOSURE"}
              => Pops(file, Code[pc]) = 0 /\ Pushes(Code[pc]) = 1
         /\ op \in {"LDT", "ISTYPE", "LENGTH"} => Pops(file, Code[pc]) = 1 /\ Pushes(Code[pc]) = 1
         /\ op \in {"BINOP", "LDA", "RNGSPC"} => Pops(file, Code[pc]) = 2 /\ Pushes(Code[pc]) = 1
         /\ op \in {"ST", "DROP", "CJMPZ"} => Pops(file, Code[pc]) = 1 /\ Pushes(Code[pc]) = 0
         /\ op = "STD" => Pops(file, Code[pc]) = 2 /\ Pushes(Code[pc]) = 0
         /\ op = "STA" => Pops(file, Code[pc]) = 3 /\ Pushes(Code[pc]) = 0
         /\ op = "DUP" => Pops(file, Code[pc]) = 1 /\ Pushes(Code[pc]) = 2
         /\ op = "TUPLE" => Pops(file, Code[pc]) = Len(file.tuples[N]) /\ Pushes(Code[pc]) = 1
         /\ op = "CALLC" => Pops(file, Code[pc]) = N + 1 /\ Pushes(Code[pc]) = 1
         /\ op = "PRINT" => Pops(file, Code[pc]) = N /\ Pushes(Code[pc]) = 0
BY DEF Fetched, Pops, Pushes, N

(* An instruction that pushes one value, and one that pushes none.          *)
LEMMA PushesOne ==
  ASSUME FilesVerified, IInv, NEW op, Fetched(op), op \notin {"JMP", "CJMPZ", "RET"},
         NEW n \in Nat, n = Pops(file, Code[pc]), Pushes(Code[pc]) = 1,
         NEW v, Stacked(n, <<v>>), Advance, file' = file, ObjectsOK(DOMAIN Schemes, heap')
  PROVE  IInv'
<1>1. IsSeq(<<v>>) /\ Len(<<v>>) = Pushes(Code[pc])
  BY ShortSeqs
<1> QED
  BY <1>1, AdvanceStep

(* The same without a value.                                                *)
LEMMA PushesNone ==
  ASSUME FilesVerified, IInv, NEW op, Fetched(op), op \notin {"JMP", "CJMPZ", "RET"},
         NEW n \in Nat, n = Pops(file, Code[pc]), Pushes(Code[pc]) = 0,
         Stacked(n, << >>), Advance, file' = file, ObjectsOK(DOMAIN Schemes, heap')
  PROVE  IInv'
<1>1. IsSeq(<< >>) /\ Len(<< >>) = Pushes(Code[pc])
  BY ShortSeqs
<1> QED
  BY <1>1, AdvanceStep

(* NONE pushes the heap's own none.                                         *)
LEMMA PushNoneKeeps ==
  ASSUME FilesVerified, IInv, PushNone
  PROVE  IInv'
<1>1. /\ Fetched("NONE") /\ Stacked(0, <<NoneId>>) /\ Advance /\ file' = file
      /\ UNCHANGED heap
  BY DEF PushNone, Quiet
<1>2. 0 = Pops(file, Code[pc]) /\ Pushes(Code[pc]) = 1 /\ ObjectsOK(DOMAIN Schemes, heap')
  BY <1>1, Arities DEF IInv, Schemes
<1> QED
  BY <1>1, <1>2, PushesOne

(* CONST, BOOL, STRING.                                                     *)
LEMMA PushLiteralKeeps ==
  ASSUME FilesVerified, IInv, PushLiteral
  PROVE  IInv'
<1>1. PICK op \in {"CONST", "BOOL", "STRING"} : Fetched(op)
  BY DEF PushLiteral
<1>2. Allocating(<<Literal>>) /\ Stacked(0, <<New>>) /\ Advance /\ file' = file
  BY DEF PushLiteral, Quiet
<1>3. ObjectOK(DOMAIN Schemes, Literal)
  <2>1. Code[pc].op = op
    BY <1>1 DEF Fetched
  <2>2. \/ Literal = MakeInt(N)
        \/ Literal = Object("Bool", N, << >>, << >>) \/ Literal = Object("String", 0, <<N>>, << >>)
    BY <1>1, <2>1 DEF Literal
  <2> QED
    BY <2>2, DataObjects
<1>4. ObjectsOK(DOMAIN Schemes, heap')
  BY <1>2, <1>3, HeapKept
<1>5. 0 = Pops(file, Code[pc]) /\ Pushes(Code[pc]) = 1
  BY <1>1, Arities
<1> QED
  BY <1>1, <1>2, <1>4, <1>5, PushesOne

(* LD pushes a variable and touches no object.                              *)
LEMMA LdKeeps ==
  ASSUME FilesVerified, IInv, Ld
  PROVE  IInv'
<1>1. /\ Fetched("LD") /\ Stacked(0, <<Variable(Kind, N)>>) /\ Advance /\ file' = file
      /\ UNCHANGED heap
  BY DEF Ld, Quiet
<1>2. 0 = Pops(file, Code[pc]) /\ Pushes(Code[pc]) = 1 /\ ObjectsOK(DOMAIN Schemes, heap')
  BY <1>1, Arities, HeapKept
<1> QED
  BY <1>1, <1>2, PushesOne

(* ST writes through a reference: the refs of one object change.            *)
LEMMA StKeeps ==
  ASSUME FilesVerified, IInv, St
  PROVE  IInv'
<1>1. Fetched("ST") /\ Stacked(1, << >>) /\ Advance /\ file' = file
  BY DEF St, Quiet
<1>2. 1 = Pops(file, Code[pc]) /\ Pushes(Code[pc]) = 0
  BY <1>1, Arities
<1>3. ObjectsOK(DOMAIN Schemes, heap')
  BY HeapKept DEF St, ChangeRef
<1> QED
  BY <1>1, <1>2, <1>3, PushesNone

(* STD writes through the reference below the value.                        *)
LEMMA StdKeeps ==
  ASSUME FilesVerified, IInv, Std
  PROVE  IInv'
<1>1. Fetched("STD") /\ Stacked(2, << >>) /\ Advance /\ file' = file
  BY DEF Std, Quiet
<1>2. 2 = Pops(file, Code[pc]) /\ Pushes(Code[pc]) = 0
  BY <1>1, Arities
<1>3. ObjectsOK(DOMAIN Schemes, heap')
  BY HeapKept DEF Std, ChangeRef
<1> QED
  BY <1>1, <1>2, <1>3, PushesNone

(* DROP.                                                                    *)
LEMMA DropKeeps ==
  ASSUME FilesVerified, IInv, Drop
  PROVE  IInv'
<1>1. Fetched("DROP") /\ Stacked(1, << >>) /\ Advance /\ file' = file /\ UNCHANGED heap
  BY DEF Drop, Quiet
<1>2. 1 = Pops(file, Code[pc]) /\ Pushes(Code[pc]) = 0 /\ ObjectsOK(DOMAIN Schemes, heap')
  BY <1>1, Arities, HeapKept
<1> QED
  BY <1>1, <1>2, PushesNone

(* DUP: the only instruction that pushes two.                               *)
LEMMA DupKeeps ==
  ASSUME FilesVerified, IInv, Dup
  PROVE  IInv'
<1>1. /\ Fetched("DUP") /\ Stacked(1, <<Operand(1), Operand(1)>>) /\ Advance /\ file' = file
      /\ UNCHANGED heap
  BY DEF Dup, Quiet
<1>2. 1 = Pops(file, Code[pc]) /\ Pushes(Code[pc]) = 2 /\ ObjectsOK(DOMAIN Schemes, heap')
  BY <1>1, Arities, HeapKept
<1>3. IsSeq(<<Operand(1), Operand(1)>>) /\ Len(<<Operand(1), Operand(1)>>) = Pushes(Code[pc])
  BY <1>2, ShortSeqs
<1> QED
  BY <1>1, <1>2, <1>3, AdvanceStep

(* JMP: the height at its target is the height at the jump.                 *)
LEMMA JmpKeeps ==
  ASSUME FilesVerified, IInv, Jmp
  PROVE  IInv'
<1> DEFINE h == HeightsOf(file)
           q == pc'
<1>1. /\ status = "running" /\ pc \in DOMAIN Code /\ Code[pc].op = "JMP" /\ pc' = N
      /\ UNCHANGED <<file, frames, heap, roots>>
  BY DEF Jmp, Fetched
<1>2. Pops(file, Code[pc]) = 0 /\ Pushes(Code[pc]) = 0 /\ Successors(Code, pc) = {pc'}
  BY <1>1 DEF Pops, Pushes, Successors, N
<1>3. /\ Depth \in Nat /\ Depth > 0 /\ StackLen(Top) \in Nat /\ Top.scheme \in DOMAIN Schemes
      /\ Followed(file, h, frames, Depth, pc, 0)
  BY <1>1, Running
<1>4. q \in 1..Len(Code) + 1 /\ h[Top.scheme][q] = StackLen(Top)
  BY <1>1, <1>2, <1>3, RunningHeights
<1> HIDE DEF h, q
<1>5. AtHeight(file, h, frames[Depth], q, 0)
  BY <1>3, <1>4 DEF AtHeight, Code, SchemeOf, Schemes, Top
<1>6. Followed(file, h, frames, Depth, q, 0)
  BY <1>3, <1>5, FollowedSame
<1>7. Control(file, frames', q)
  BY <1>1, <1>3, <1>6 DEF Control, Depth, h
<1>8. InStep(frames', roots') /\ ObjectsOK(DOMAIN Schemes, heap')
  BY <1>1 DEF IInv
<1> QED
  BY <1>1, <1>7, <1>8, StepKeeps DEF q

(* CJMPZ: both successors have the height without the condition.            *)
LEMMA CJmpZKeeps ==
  ASSUME FilesVerified, IInv, CJmpZ
  PROVE  IInv'
<1>1. /\ Fetched("CJMPZ") /\ Stacked(1, << >>) /\ file' = file /\ UNCHANGED heap
      /\ pc' \in {N, pc + 1}
  BY DEF CJmpZ, Quiet
<1>2. status = "running" /\ pc \in DOMAIN Code /\ Code[pc].op = "CJMPZ"
  BY <1>1 DEF Fetched
<1>3. 1 = Pops(file, Code[pc]) /\ Pushes(Code[pc]) = 0 /\ ObjectsOK(DOMAIN Schemes, heap')
  BY <1>1, Arities, HeapKept
<1>4. pc' \in Successors(Code, pc)
  BY <1>1, <1>2 DEF Successors, N
<1>5. IsSeq(<< >>) /\ Len(<< >>) = Pushes(Code[pc])
  BY <1>3, ShortSeqs
<1>6. InStep(frames', roots') /\ Control(file, frames', pc')
  BY <1>1, <1>2, <1>3, <1>4, <1>5, StackedStep
<1> QED
  BY <1>1, <1>3, <1>6, StepKeeps

(* Where a verified file has its instructions look.                         *)
LEMMA Immediates ==
  ASSUME FilesVerified, IInv, NEW op, Fetched(op)
  PROVE  /\ op = "CLOSURE" => N \in DOMAIN Schemes
         /\ op = "TUPLE" => Len(file.tuples[N]) \in Nat
         /\ op \in {"CALLC", "PRINT"} => N \in Nat
<1>1. status = "running" /\ pc \in DOMAIN Code /\ Code[pc].op = op
  BY DEF Fetched
<1>2. Verified(file, HeightsOf(file)) /\ Top.scheme \in DOMAIN Schemes
  BY <1>1, Running
<1>3. WellFormed(file) /\ Code = file.functions[Top.scheme].code /\ Top.scheme \in DOMAIN file.functions
  BY <1>2 DEF Verified, Code, SchemeOf, Schemes
<1>4. /\ op = "CLOSURE" => N \in DOMAIN file.functions
      /\ op = "TUPLE" => file.tuples[N] \in Seq(Nat)
      /\ op \in {"CALLC", "PRINT"} => N \in Nat
  BY <1>1, <1>3 DEF WellFormed, N
<1>5. \A s \in Seq(Nat) : Len(s) \in Nat
  OBVIOUS
<1> QED
  BY <1>4, <1>5 DEF Schemes

(* Every BINOP pops two and pushes the object it makes.                     *)
LEMMA BinopValueKeeps ==
  ASSUME FilesVerified, IInv, Fetched("BINOP"),
         NEW object, ObjectOK(DOMAIN Schemes, object), NEW c, BinopValue(object, c)
  PROVE  IInv'
<1>1. Stacked(2, <<New>>) /\ Advance /\ file' = file
  BY DEF BinopValue, Quiet
<1>2. 2 = Pops(file, Code[pc]) /\ Pushes(Code[pc]) = 1
  BY Arities
<1>3. ObjectsOK(DOMAIN Schemes, heap')
  BY HeapKept DEF BinopValue
<1> QED
  BY <1>1, <1>2, <1>3, PushesOne

(* BINOP on integers makes an Int or a Bool.                                *)
LEMMA BinopIntsKeeps ==
  ASSUME FilesVerified, IInv, BinopInts
  PROVE  IInv'
<1> DEFINE a == First.num
           b == Second.num
           o == IntResult(Kind, a, b)
<1>1. Fetched("BINOP") /\ Kind \in IntOps /\ \E c \in Collections(1, 1) : BinopValue(o, c)
  BY DEF BinopInts
<1> HIDE DEF a, b
<1>2. \/ o = MakeInt(a + b) \/ o = MakeInt(a - b) \/ o = MakeInt(a * b) \/ o = MakeInt(Quotient(a, b))
      \/ o = MakeBool(a < b) \/ o = MakeBool(a <= b) \/ o = MakeBool(a > b) \/ o = MakeBool(a >= b)
      \/ o = MakeBool(a = b) \/ o = MakeBool(a # b)
  BY <1>1 DEF IntOps, IntResult
<1> HIDE DEF o
<1>3. ObjectOK(DOMAIN Schemes, o)
  BY <1>2, DataObjects, Zenon
<1> QED
  BY <1>1, <1>3, BinopValueKeeps

(* BINOP on Booleans.                                                       *)
LEMMA BinopBoolsKeeps ==
  ASSUME FilesVerified, IInv, BinopBools
  PROVE  IInv'
<1> DEFINE o == MakeBool(First.num # Second.num)
<1>1. Fetched("BINOP") /\ \E c \in Collections(1, 1) : BinopValue(o, c)
  BY DEF BinopBools
<1>2. ObjectOK(DOMAIN Schemes, o)
  BY DataObjects, Zenon
<1> HIDE DEF o
<1> QED
  BY <1>1, <1>2, BinopValueKeeps

(* Equality of strings, arrays and tuples.                                  *)
LEMMA BinopEqualKeeps ==
  ASSUME FilesVerified, IInv, BinopEqual
  PROVE  IInv'
<1> DEFINE o == MakeBool(SameValue = (Kind = "EQ"))
<1>1. Fetched("BINOP") /\ \E c \in Collections(1, 1) : BinopValue(o, c)
  BY DEF BinopEqual
<1>2. ObjectOK(DOMAIN Schemes, o)
  BY DataObjects, Zenon
<1> HIDE DEF o
<1> QED
  BY <1>1, <1>2, BinopValueKeeps

(* Concatenation makes an object of the type of its operands.               *)
LEMMA BinopConcatKeeps ==
  ASSUME FilesVerified, IInv, BinopConcat
  PROVE  IInv'
<1>1. Fetched("BINOP") /\ First.type # "Func"
  BY DEF BinopConcat, Sized
<1>2. \E c : BinopValue(Spoiled(First.type), c) \/ BinopValue(Concatenated, c)
  BY Zenon DEF BinopConcat
<1>3. ObjectOK(DOMAIN Schemes, Spoiled(First.type)) /\ ObjectOK(DOMAIN Schemes, Concatenated)
  BY <1>1, DataObjects, Zenon DEF Spoiled, Concatenated
<1> QED
  BY <1>1, <1>2, <1>3, BinopValueKeeps

(* ISTYPE.                                                                  *)
LEMMA IsTypeKeeps ==
  ASSUME FilesVerified, IInv, IsType
  PROVE  IInv'
<1> DEFINE o == MakeBool(heap[Resolved(1)].type = Kind)
<1>1. Fetched("ISTYPE") /\ Allocating(<<o>>) /\ Stacked(1, <<New>>) /\ Advance /\ file' = file
  BY DEF IsType, Quiet
<1>2. ObjectOK(DOMAIN Schemes, o)
  BY DataObjects, Zenon
<1> HIDE DEF o
<1>3. 1 = Pops(file, Code[pc]) /\ Pushes(Code[pc]) = 1 /\ ObjectsOK(DOMAIN Schemes, heap')
  BY <1>1, <1>2, Arities, HeapKept
<1> QED
  BY <1>1, <1>3, PushesOne

(* LENGTH.                                                                  *)
LEMMA LengthKeeps ==
  ASSUME FilesVerified, IInv, Length
  PROVE  IInv'
<1> DEFINE o == MakeInt(Len(heap[Resolved(1)].keys))
<1>1. Fetched("LENGTH") /\ Allocating(<<o>>) /\ Stacked(1, <<New>>) /\ Advance /\ file' = file
  BY DEF Length, Quiet
<1>2. ObjectOK(DOMAIN Schemes, o)
  BY DataObjects, Zenon
<1> HIDE DEF o
<1>3. 1 = Pops(file, Code[pc]) /\ Pushes(Code[pc]) = 1 /\ ObjectsOK(DOMAIN Schemes, heap')
  BY <1>1, <1>2, Arities, HeapKept
<1> QED
  BY <1>1, <1>3, PushesOne

(* RNGSPC.                                                                  *)
LEMMA RngSpcKeeps ==
  ASSUME FilesVerified, IInv, RngSpc
  PROVE  IInv'
<1>1. PICK i : /\ Fetched("RNGSPC") /\ Allocating(<<MakeInt(i)>>) /\ Stacked(2, <<New>>)
               /\ Advance /\ file' = file
  BY DEF RngSpc, Quiet
<1>2. ObjectOK(DOMAIN Schemes, MakeInt(i))
  BY DataObjects, Zenon
<1>3. 2 = Pops(file, Code[pc]) /\ Pushes(Code[pc]) = 1 /\ ObjectsOK(DOMAIN Schemes, heap')
  BY <1>1, <1>2, Arities, HeapKept
<1> QED
  BY <1>1, <1>3, PushesOne

(* ARRAY makes an array, whatever a collection did to its vector.           *)
LEMMA ArrayKeeps ==
  ASSUME FilesVerified, IInv, Array
  PROVE  IInv'
<1>1. PICK keys, refs : Allocating(<<Object("Array", 0, keys, refs)>>)
  BY DEF Array, Spoiled
<1>2. Fetched("ARRAY") /\ Stacked(0, <<New>>) /\ Advance /\ file' = file
  BY DEF Array, Quiet
<1>3. ObjectOK(DOMAIN Schemes, Object("Array", 0, keys, refs))
  BY DataObjects
<1>4. ObjectsOK(DOMAIN Schemes, heap')
  BY <1>1, <1>3, HeapKept
<1>5. 0 = Pops(file, Code[pc]) /\ Pushes(Code[pc]) = 1
  BY <1>2, Arities
<1> QED
  BY <1>2, <1>4, <1>5, PushesOne

(* LDT replaces the tuple by one of its references.                         *)
LEMMA LdtKeeps ==
  ASSUME FilesVerified, IInv, Ldt
  PROVE  IInv'
<1>1. PICK v : /\ Fetched("LDT") /\ Stacked(1, <<v>>) /\ Advance /\ file' = file
               /\ UNCHANGED heap
  BY DEF Ldt, Quiet
<1>2. 1 = Pops(file, Code[pc]) /\ Pushes(Code[pc]) = 1 /\ ObjectsOK(DOMAIN Schemes, heap')
  BY <1>1, Arities, HeapKept
<1> QED
  BY <1>1, <1>2, PushesOne

(* LDA of an index that is there.                                           *)
LEMMA LdaKeeps ==
  ASSUME FilesVerified, IInv, Lda
  PROVE  IInv'
<1>1. PICK v : /\ Fetched("LDA") /\ Stacked(2, <<v>>) /\ Advance /\ file' = file
               /\ UNCHANGED heap
  BY DEF Lda, Quiet
<1>2. 2 = Pops(file, Code[pc]) /\ Pushes(Code[pc]) = 1 /\ ObjectsOK(DOMAIN Schemes, heap')
  BY <1>1, Arities, HeapKept
<1> QED
  BY <1>1, <1>2, PushesOne

(* Objects followed by one object.                                          *)
LEMMA ObjectsAppend ==
  ASSUME NEW schemes, NEW s, ObjectsOK(schemes, s), NEW o, ObjectOK(schemes, o)
  PROVE  ObjectsOK(schemes, Append(s, o))
<1> DEFINE t == Append(s, o)
           n == Len(s)
<1>1. IsSeq(s) /\ n \in Nat
  BY SeqDomain DEF ObjectsOK
<1>2. IsSeq(t) /\ Len(t) = n + 1
  BY <1>1, SeqAppend
<1>3. t[n + 1] = o
  BY <1>1, SeqAppend
<1>4. \A i \in 1..n : t[i] = s[i]
  BY <1>1, SeqAppend
<1> HIDE DEF t
<1>5. \A i \in 1..n : ObjectOK(schemes, s[i])
  BY DEF ObjectsOK
<1> HIDE DEF n
<1>6. \A i \in 1..n + 1 : i \in 1..n \/ i = n + 1
  BY <1>1
<1>7. \A i \in 1..n + 1 : ObjectOK(schemes, t[i])
  BY <1>3, <1>4, <1>5, <1>6
<1>8. ObjectsOK(schemes, t)
  BY <1>2, <1>7 DEF ObjectsOK
<1> QED
  BY <1>8 DEF t

(* A new key and its reference in an array.                                 *)
LEMMA InsertedKeeps ==
  ASSUME IInv, NEW array, heap[array].type = "Array", NEW at, NEW key, NEW ref
  PROVE  ObjectsOK(DOMAIN Schemes, Inserted(array, at, key, ref))
<1> DEFINE S == DOMAIN Schemes
           keys == InsertAt(heap[array].keys, at, key)
           heap2 == WithKeys(heap, array, keys)
           refs == InsertAt(heap2[array].refs, at, ref)
<1>1. Inserted(array, at, key, ref) = [heap2 EXCEPT ![array].refs = refs]
  BY DEF Inserted, WithKeys
<1>2. ObjectsOK(S, heap)
  BY DEF IInv
<1> HIDE DEF S, keys, refs
<1>3. /\ ObjectsOK(S, heap2) /\ (array \in 1..Len(heap) => heap2[array].type = heap[array].type)
      /\ Len(heap2) = Len(heap)
  BY <1>2, ObjectsKeys
<1> HIDE DEF heap2
<1>4. ObjectsOK(S, [heap2 EXCEPT ![array].refs = refs])
  BY <1>3, ObjectsRefs
<1> QED
  BY <1>1, <1>4 DEF S

(* LDA of an index that is not: the array grows, and no other object.       *)
LEMMA LdaInsertsKeeps ==
  ASSUME FilesVerified, IInv, LdaInserts
  PROVE  IInv'
<1>1. PICK array, at, key :
         /\ heap[array].type = "Array"
         /\ heap' = Append(Inserted(array, at, key, New), MakeRef(NoneId))
  BY DEF LdaInserts, Indexable
<1>2. Fetched("LDA") /\ Stacked(2, <<New>>) /\ Advance /\ file' = file
  BY DEF LdaInserts, Quiet
<1>3. ObjectsOK(DOMAIN Schemes, heap')
  <2>1. ObjectsOK(DOMAIN Schemes, Inserted(array, at, key, New))
    BY <1>1, InsertedKeeps
  <2>2. ObjectOK(DOMAIN Schemes, MakeRef(NoneId))
    BY DataObjects
  <2>3. ObjectsOK(DOMAIN Schemes, Append(Inserted(array, at, key, New), MakeRef(NoneId)))
    BY <2>1, <2>2, ObjectsAppend
  <2> QED
    BY <1>1, <2>3
<1>4. 2 = Pops(file, Code[pc]) /\ Pushes(Code[pc]) = 1
  BY <1>2, Arities
<1> QED
  BY <1>2, <1>3, <1>4, PushesOne

(* STA sets or inserts an element.                                          *)
LEMMA StaKeeps ==
  ASSUME FilesVerified, IInv, Sta
  PROVE  IInv'
<1> DEFINE array == Resolved(3)
           key == heap[Resolved(2)].num
           position == PositionOf(array, key)
           set == [heap EXCEPT ![array].refs[position] = New]
<1>1. PICK at :
         /\ heap[array].type = "Array"
         /\ heap' = Append(IF key \in Range(heap[array].keys) THEN set
                           ELSE Inserted(array, at, key, New), MakeRef(Resolved(1)))
  BY DEF Sta, Indexable
<1>2. Fetched("STA") /\ Stacked(3, << >>) /\ Advance /\ file' = file
  BY DEF Sta, Quiet
<1>3. ObjectsOK(DOMAIN Schemes, set)
  <2> DEFINE r == [heap[array].refs EXCEPT ![position] = New]
  <2>1. set = [heap EXCEPT ![array].refs = r]
    OBVIOUS
  <2>2. ObjectsOK(DOMAIN Schemes, heap)
    BY DEF IInv
  <2> HIDE DEF r, set, position, key
  <2>3. ObjectsOK(DOMAIN Schemes, [heap EXCEPT ![array].refs = r])
    BY <1>1, <2>2, ObjectsRefs
  <2> QED
    BY <2>1, <2>3
<1> HIDE DEF set, key, array
<1>4. ObjectsOK(DOMAIN Schemes, Inserted(array, at, key, New))
  BY <1>1, InsertedKeeps
<1>5. ObjectsOK(DOMAIN Schemes, heap')
  <2>1. ObjectOK(DOMAIN Schemes, MakeRef(Resolved(1)))
    BY DataObjects
  <2>2. /\ ObjectsOK(DOMAIN Schemes, Append(set, MakeRef(Resolved(1))))
        /\ ObjectsOK(DOMAIN Schemes, Append(Inserted(array, at, key, New), MakeRef(Resolved(1))))
    BY <1>3, <1>4, <2>1, ObjectsAppend
  <2> QED
    BY <1>1, <2>2
<1>6. 3 = Pops(file, Code[pc]) /\ Pushes(Code[pc]) = 0
  BY <1>2, Arities
<1> QED
  BY <1>2, <1>5, <1>6, PushesNone

(* PRINT pops as many as its immediate says.                                *)
LEMMA PrintValuesKeeps ==
  ASSUME FilesVerified, IInv, PrintValues
  PROVE  IInv'
<1>1. Fetched("PRINT") /\ Stacked(N, << >>) /\ Advance /\ file' = file /\ UNCHANGED heap
  BY DEF PrintValues
<1>2. N = Pops(file, Code[pc]) /\ Pushes(Code[pc]) = 0 /\ ObjectsOK(DOMAIN Schemes, heap')
  BY <1>1, Arities, HeapKept
<1>3. N \in Nat
  BY <1>1, Immediates
<1> QED
  BY <1>1, <1>2, <1>3, PushesNone

(* A tuple and a closure are made of references and one more object.        *)
LEMMA BoxesAndOne ==
  ASSUME IInv, NEW n \in Nat, NEW S, NEW boxes \in [1..n -> S],
         \A i \in 1..n : \E v : boxes[i] = MakeRef(v),
         NEW o, ObjectOK(DOMAIN Schemes, o), Allocating(boxes \o <<o>>)
  PROVE  ObjectsOK(DOMAIN Schemes, heap')
<1>1. \A i \in 1..n : ObjectOK(DOMAIN Schemes, boxes[i])
  BY DataObjects
<1>2. ObjectsOK(DOMAIN Schemes, boxes)
  BY <1>1, ObjectsOfMany
<1>3. ObjectsOK(DOMAIN Schemes, <<o>>)
  BY ObjectsOfOne
<1>4. ObjectsOK(DOMAIN Schemes, boxes \o <<o>>)
  BY <1>2, <1>3, ObjectsConcat
<1> QED
  BY <1>4, HeapKept

(* TUPLE pops as many as the file has names for it.                         *)
LEMMA TupleKeeps ==
  ASSUME FilesVerified, IInv, Tuple
  PROVE  IInv'
<1> DEFINE size == Len(file.tuples[N])
           box(c, k) == IF c = k THEN Stale ELSE Resolved(k)
           boxes(c) == [k \in 1..size |-> MakeRef(box(c, k))]
           refs(c) == [i \in 1..size |-> IF c > size + 1 - i THEN Stale
                                         ELSE Len(heap) + size + 1 - i]
           keys == Reverse(file.tuples[N])
           tuple(c) == Object("Tuple", 0, keys, refs(c))
<1>1. PICK c : Allocating(boxes(c) \o <<tuple(c)>>)
  BY DEF Tuple
<1>2. PICK v : Stacked(size, <<v>>)
  BY DEF Tuple
<1>3. Fetched("TUPLE") /\ Advance /\ file' = file
  BY DEF Tuple, Quiet
<1>4. size \in Nat
  BY <1>3, Immediates
<1>5. size = Pops(file, Code[pc]) /\ Pushes(Code[pc]) = 1
  BY <1>3, Arities
<1> HIDE DEF size, keys, refs
<1>6. ObjectOK(DOMAIN Schemes, tuple(c))
  BY DataObjects
<1>7. boxes(c) \in [1..size -> {MakeRef(box(c, k)) : k \in 1..size}]
  OBVIOUS
<1>8. \A k \in 1..size : \E w : boxes(c)[k] = MakeRef(w)
  <2>1. \A k \in 1..size : boxes(c)[k] = MakeRef(box(c, k))
    OBVIOUS
  <2> HIDE DEF boxes, box
  <2> QED
    BY <2>1
<1> HIDE DEF boxes, tuple
<1>9. ObjectsOK(DOMAIN Schemes, heap')
  BY <1>1, <1>4, <1>6, <1>7, <1>8, BoxesAndOne
<1> QED
  BY <1>2, <1>3, <1>4, <1>5, <1>9, PushesOne

(* CLOSURE makes a function object of a function of the file.               *)
LEMMA ClosureKeeps ==
  ASSUME FilesVerified, IInv, Closure
  PROVE  IInv'
<1> DEFINE capture == Schemes[N].capture
           size == Len(capture)
           box(c, k) == IF c = k THEN Stale ELSE Variable(capture[k].type, capture[k].index)
           boxes(c) == [k \in 1..size |-> MakeRef(box(c, k))]
           refs(c) == [k \in 1..size |-> IF c > k THEN Stale ELSE Len(heap) + k]
           func(c) == Object("Func", N, << >>, refs(c))
<1>1. PICK c : Allocating(boxes(c) \o <<func(c)>>)
  BY DEF Closure
<1>2. PICK v : Stacked(0, <<v>>)
  BY DEF Closure
<1>3. Fetched("CLOSURE") /\ Advance /\ file' = file
  BY DEF Closure, Quiet
<1>4. N \in DOMAIN Schemes /\ size \in Nat
  <2>1. N \in DOMAIN Schemes
    BY <1>3, Immediates
  <2>2. Verified(file, HeightsOf(file))
    BY <1>3, Running DEF Fetched
  <2>3. IsSeq(file.functions[N].capture)
    BY <2>1, <2>2, VerifiedEntry DEF Schemes
  <2> QED
    BY <2>1, <2>3, SeqDomain DEF Schemes
<1>5. 0 = Pops(file, Code[pc]) /\ Pushes(Code[pc]) = 1
  BY <1>3, Arities
<1> HIDE DEF size
<1>6. refs(c) \in [1..size -> {(IF c > k THEN Stale ELSE Len(heap) + k) : k \in 1..size}]
  OBVIOUS
<1> HIDE DEF refs
<1>7. IsSeq(refs(c))
  BY <1>4, <1>6, SeqOfFunction
<1>8. ObjectOK(DOMAIN Schemes, func(c))
  BY <1>4, <1>7, ObjectLemma
<1>9. boxes(c) \in [1..size -> {MakeRef(box(c, k)) : k \in 1..size}]
  OBVIOUS
<1>10. \A k \in 1..size : \E w : boxes(c)[k] = MakeRef(w)
  <2>1. \A k \in 1..size : boxes(c)[k] = MakeRef(box(c, k))
    OBVIOUS
  <2> HIDE DEF boxes, box
  <2> QED
    BY <2>1
<1> HIDE DEF boxes, func
<1>11. ObjectsOK(DOMAIN Schemes, heap')
  BY <1>1, <1>4, <1>8, <1>9, <1>10, BoxesAndOne
<1> QED
  BY <1>2, <1>3, <1>5, <1>11, PushesOne

(* Sequences of the same elements are the same.                             *)
LEMMA SeqEqualities ==
  ASSUME NEW s, IsSeq(s)
  PROVE  /\ Len(s) = 0 => s = << >>
         /\ \A t : IsSeq(t) /\ Len(t) = 0 => s \o t = s
         /\ \A v : s \o <<v>> = Append(s, v)
         /\ DropLast(s, 0) = s
<1>1. PICK S : s \in Seq(S)
  BY DEF IsSeq
<1>2. Len(s) = 0 => s = << >>
  BY <1>1
<1>3. ASSUME NEW t, IsSeq(t), Len(t) = 0
      PROVE  s \o t = s
  <2>1. t = << >>
    <3>1. PICK T : t \in Seq(T)
      BY <1>3 DEF IsSeq
    <3> QED
      BY <1>3, <3>1
  <2> QED
    BY <1>1, <2>1
<1>4. ASSUME NEW v
      PROVE  s \o <<v>> = Append(s, v)
  <2>1. s \in Seq(S \cup {v}) /\ v \in S \cup {v}
    BY <1>1
  <2> QED
    BY <2>1
<1>5. DropLast(s, 0) = s
  <2>1. Len(s) - 0 = Len(s)
    BY <1>1
  <2>2. SubSeq(s, 1, Len(s)) = s
    BY <1>1
  <2> QED
    BY <2>1, <2>2 DEF DropLast
<1> QED
  BY <1>2, <1>3, <1>4, <1>5

(* The slots of no value, and of one.                                       *)
LEMMA PushedShort ==
  ASSUME NEW d, NEW j
  PROVE  /\ Pushed(d, j, << >>) = << >>
         /\ \A v : Pushed(d, j, <<v>>) = <<Slot(d, "stack", j + 1)>>
<1>1. Pushed(d, j, << >>) = << >>
  <2>1. IsSeq(Pushed(d, j, << >>)) /\ Len(Pushed(d, j, << >>)) = 0
    BY ShortSeqs, PushedLemma
  <2> QED
    BY <2>1, SeqEqualities
<1>2. ASSUME NEW v
      PROVE  Pushed(d, j, <<v>>) = <<Slot(d, "stack", j + 1)>>
  <2>1. DOMAIN <<v>> = {1}
    OBVIOUS
  <2>2. Pushed(d, j, <<v>>) = [i \in {1} |-> Slot(d, "stack", j + i)]
    BY <2>1 DEF Pushed
  <2> DEFINE x == Slot(d, "stack", j + 1)
  <2>3. [i \in {1} |-> Slot(d, "stack", j + i)] = [i \in {1} |-> x]
    OBVIOUS
  <2> HIDE DEF x
  <2>4. <<x>> = [i \in {1} |-> x]
    OBVIOUS
  <2> QED
    BY <2>2, <2>3, <2>4 DEF x
<1> QED
  BY <1>1, <1>2

(* A frame as its constructor leaves it.                                    *)
LEMMA NewFrameLemma ==
  ASSUME NEW s, Schemes[s].locals \in Nat, Schemes[s].args \in Nat, NEW return, NEW base \in Nat,
         NEW first, NEW captured, IsSeq(captured),
         NEW g, g = NewFrame(s, return, base, first, captured)
  PROVE  /\ FrameOK(g) /\ Base(g) = base /\ g.stack = << >> /\ StackLen(g) = 0
         /\ g.scheme = s /\ g.return = return
<1> DEFINE l == Schemes[s].locals
           a == Schemes[s].args
           locals == [i \in 1..l |-> first + i - 1]
           args == [i \in 1..a |-> first + l + i - 1]
<1>1. g = [scheme |-> s, return |-> return, base |-> base, locals |-> locals, args |-> args,
           captured |-> captured, stack |-> << >>]
  BY DEF NewFrame
<1> HIDE DEF l, a
<1>2. l \in Nat /\ a \in Nat
  BY DEF l, a
<1>3. locals \in [1..l -> {first + i - 1 : i \in 1..l}]
      /\ args \in [1..a -> {first + l + i - 1 : i \in 1..a}]
  OBVIOUS
<1> HIDE DEF locals, args
<1>4. IsSeq(locals) /\ IsSeq(args)
  BY <1>2, <1>3, SeqOfFunction
<1>5. /\ g.scheme = s /\ g.return = return /\ g.base = base /\ g.locals = locals
      /\ g.args = args /\ g.captured = captured /\ g.stack = << >>
  BY <1>1
<1>6. FrameOK(g)
  BY <1>1, <1>4, <1>5, ShortSeqs DEF FrameOK
<1> QED
  BY <1>5, <1>6, ShortSeqs DEF Base, StackLen

(* What calling needs of the function object.                               *)
LEMMA CalledFunction ==
  ASSUME FilesVerified, IInv, CallC,
         NEW func, func = heap[Resolved(1)], NEW scheme, scheme = Schemes[func.num]
  PROVE  /\ func.num \in DOMAIN Schemes /\ IsSeq(func.refs)
         /\ scheme.locals \in Nat /\ scheme.args \in Nat
         /\ HeightsOf(file)[func.num][1] = 0
         /\ 1 \in 1..Len(scheme.code) + 1
         /\ N \in Nat /\ Fetched("CALLC")
<1>1. Fetched("CALLC") /\ Resolved(1) \in DOMAIN heap /\ func.type = "Func"
  BY DEF CallC
<1>2. ObjectOK(DOMAIN Schemes, func)
  <2>1. ObjectsOK(DOMAIN Schemes, heap)
    BY DEF IInv
  <2>2. DOMAIN heap = 1..Len(heap)
    BY <2>1, SeqDomain DEF ObjectsOK
  <2> QED
    BY <1>1, <2>1, <2>2 DEF ObjectsOK
<1>3. func.num \in DOMAIN Schemes /\ IsSeq(func.refs)
  BY <1>1, <1>2 DEF ObjectOK
<1>4. Verified(file, HeightsOf(file))
  BY <1>1, Running DEF Fetched
<1>5. /\ scheme.locals \in Nat /\ scheme.args \in Nat /\ HeightsOf(file)[func.num][1] = 0
      /\ Len(scheme.code) \in Nat
  BY <1>3, <1>4, VerifiedEntry DEF Schemes
<1>6. N \in Nat
  BY <1>1, Immediates
<1> QED
  BY <1>1, <1>3, <1>5, <1>6

(* CALLC: the operands go, the frame of the callee comes, at the start of   *)
(* its code with nothing on its operand stack.                              *)
LEMMA CallCKeeps ==
  ASSUME FilesVerified, IInv, CallC
  PROVE  IInv'
<1> DEFINE func == heap[Resolved(1)]
           scheme == Schemes[func.num]
           D == Len(frames)
           k == Top.stack
           m == Len(k)
           n == N + 1
           r == Len(roots)
           k1 == DropLast(k, n)
           fs1 == Restacked(frames, k1)
           rs1 == DropLast(roots, n)
           h == HeightsOf(file)
           f == file
<1>1. /\ func.num \in DOMAIN Schemes /\ IsSeq(func.refs)
      /\ scheme.locals \in Nat /\ scheme.args \in Nat
      /\ h[func.num][1] = 0 /\ 1 \in 1..Len(scheme.code) + 1
      /\ N \in Nat /\ Fetched("CALLC")
  BY CalledFunction
<1>2. PICK locals, args, captured, frame :
         /\ \A l \in 1..scheme.locals : \E v : locals[l] = MakeRef(v)
         /\ \A a \in 1..N : \E v : args[a] = MakeRef(v)
         /\ locals \in [1..scheme.locals -> {locals[l] : l \in 1..scheme.locals}]
         /\ args \in [1..N -> {args[a] : a \in 1..N}]
         /\ IsSeq(captured)
         /\ frame = NewFrame(func.num, pc + 1, r - n, New, captured)
         /\ Allocating(locals \o args)
         /\ frames' = Append(fs1, frame)
         /\ roots' = rs1 \o FrameSlots(D + 1, frame)
  <2> DEFINE arg(i) == Resolved(1 + N + 1 - i)
             base == scheme.locals
             Boxed(c, j, v) == IF 0 < c /\ c <= j THEN Stale ELSE v
             locals(c) == [l \in 1..scheme.locals |-> MakeRef(IF c = l THEN Stale ELSE NoneId)]
             args(c) == [a \in 1..N |-> MakeRef(Boxed(c, base + a, [i \in 1..N |-> arg(i)][a]))]
             captured(c) == [j \in DOMAIN func.refs |-> IF c > 0 THEN Stale ELSE func.refs[j]]
             frame(c) == NewFrame(func.num, pc + 1, r - n, New, captured(c))
  <2>1. PICK c : /\ Allocating(locals(c) \o args(c))
                 /\ frames' = Append([frames EXCEPT ![Depth].stack = DropLast(@, n)], frame(c))
                 /\ roots' = rs1 \o FrameSlots(Depth + 1, frame(c))
    BY DEF CallC
  <2>2. [frames EXCEPT ![Depth].stack = DropLast(@, n)] = fs1
    BY DEF Restacked, Top, Depth
  <2>3. \A l \in 1..scheme.locals : \E v : locals(c)[l] = MakeRef(v)
    OBVIOUS
  <2>4. \A a \in 1..N : \E v : args(c)[a] = MakeRef(v)
    OBVIOUS
  <2>5. /\ locals(c) \in [1..scheme.locals -> {locals(c)[l] : l \in 1..scheme.locals}]
        /\ args(c) \in [1..N -> {args(c)[a] : a \in 1..N}]
    OBVIOUS
  <2>6. IsSeq(captured(c))
    <3> DEFINE size == Len(func.refs)
               C == captured(c)
    <3>1. size \in Nat /\ DOMAIN func.refs = 1..size
      BY <1>1, SeqDomain
    <3>2. C \in [1..size -> {C[j] : j \in 1..size}]
      BY <3>1
    <3> HIDE DEF C, size
    <3>3. IsSeq(C)
      BY <3>1, <3>2, SeqOfFunction
    <3> QED
      BY <3>3 DEF C
  <2> HIDE DEF locals, args, captured, fs1
  <2>7. Allocating(locals(c) \o args(c)) /\ frames' = Append(fs1, frame(c))
        /\ roots' = rs1 \o FrameSlots(D + 1, frame(c))
    BY <2>1, <2>2 DEF Depth
  <2> QED
    BY <2>3, <2>4, <2>5, <2>6, <2>7, Zenon
<1>3. /\ status = "running" /\ pc \in DOMAIN Code /\ file' = file /\ pc' = 1
  BY <1>1 DEF Fetched, CallC, Quiet
<1>4. Pops(file, Code[pc]) = n /\ Pushes(Code[pc]) = 1 /\ Successors(Code, pc) = {pc + 1}
  <2>1. Successors(Code, pc) = {pc + 1}
    BY <1>1 DEF Fetched, Successors
  <2> QED
    BY <1>1, <2>1, Arities
<1>5. /\ InStep(frames, roots) /\ D \in Nat /\ D > 0 /\ k = frames[D].stack /\ StackLen(Top) = m
      /\ IsSeq(k) /\ IsSeq(roots) /\ m \in Nat /\ r \in Nat
  <2>1. InStep(frames, roots) /\ D \in Nat /\ D > 0 /\ StackLen(Top) \in Nat /\ IsSeq(k)
    BY <1>3, Running DEF IInv, Depth
  <2>2. k = frames[D].stack /\ StackLen(Top) = m
    BY DEF Top, Depth, StackLen
  <2>3. IsSeq(roots) /\ r \in Nat
    BY <2>1, SeqDomain DEF InStep
  <2> QED
    BY <2>1, <2>2, <2>3
<1>6. n <= m /\ n \in Nat /\ n <= r
  <2>1. n <= m /\ n \in Nat
    BY <1>1, <1>3, <1>4, <1>5, RunningHeights
  <2>2. FrameOK(Top) /\ End(Top) = r
    BY <1>3, <1>5, Running DEF InStep, Tiled, Top, Depth
  <2>3. Base(Top) \in Nat /\ FrameRoots(Top) \in Nat
    BY <2>2, FrameNumbers
  <2>4. End(Top) = Base(Top) + FrameRoots(Top) + m
    BY <1>5 DEF End
  <2> HIDE DEF r, n, m
  <2> QED
    BY <1>5, <2>1, <2>2, <2>3, <2>4
<1>7. Top.scheme \in DOMAIN Schemes /\ Followed(f, h, frames, D, pc, 0)
  BY <1>3, Running DEF Depth
<1>8. /\ pc + 1 \in 1..Len(Code) + 1
      /\ h[Top.scheme][pc + 1] = StackLen(Top) - Pops(file, Code[pc]) + Pushes(Code[pc])
  BY <1>3, <1>4, RunningHeights
<1>9. TopRestacked(frames, fs1, rs1, m - n)
  <2>1. TopRestacked(frames, Restacked(frames, DropLast(k, n) \o << >>),
                     DropLast(roots, n) \o Pushed(D, m - n, << >>), (m - n) + Len(<< >>))
    BY <1>5, <1>6, ShortSeqs, InStepStacked
  <2>2. n \in 0..m
    BY <1>5, <1>6
  <2>3. IsSeq(DropLast(k, n))
    BY <1>5, <2>2, SeqDropLast
  <2>4. DropLast(k, n) \o << >> = DropLast(k, n)
    BY <2>3, ShortSeqs, SeqEqualities
  <2>5. n \in 0..r
    BY <1>5, <1>6
  <2>6. IsSeq(DropLast(roots, n))
    BY <1>5, <2>5, SeqDropLast
  <2>7. Pushed(D, m - n, << >>) = << >> /\ Len(<< >>) = 0 /\ (m - n) + 0 = m - n
    BY <1>5, <1>6, PushedShort
  <2>8. DropLast(roots, n) \o << >> = DropLast(roots, n)
    BY <2>6, ShortSeqs, SeqEqualities
  <2> QED
    BY <2>1, <2>4, <2>7, <2>8
<1> HIDE DEF func, scheme, D, k, k1, m, n, r, fs1, rs1, h, f
<1>10. /\ InStep(fs1, rs1) /\ Len(fs1) = D /\ StackLen(fs1[D]) = m - n
       /\ fs1[D].scheme = frames[D].scheme /\ fs1[D].return = frames[D].return
  BY <1>9 DEF TopRestacked, D
<1>11. \A d \in 1..D : d # D => fs1[d] = frames[d]
  BY <1>9 DEF TopRestacked, D
<1>12. r - n \in Nat /\ Len(rs1) = r - n
  <2>1. n \in 0..Len(roots)
    BY <1>5, <1>6 DEF r
  <2> QED
    BY <1>5, <1>6, <2>1, SeqDropLast DEF rs1, r
<1>13. /\ FrameOK(frame) /\ Base(frame) = r - n /\ frame.stack = << >> /\ StackLen(frame) = 0
       /\ frame.scheme = func.num /\ frame.return = pc + 1
  BY <1>1, <1>2, <1>12, NewFrameLemma DEF scheme
<1> DEFINE fs2 == Append(fs1, frame)
<1>14. InStep(fs2, rs1 \o FrameSlots(D + 1, frame)) /\ Len(fs2) = D + 1
  BY <1>10, <1>12, <1>13, InStepPush
<1>15. \A d \in 1..D : fs2[d] = fs1[d]
  BY <1>10, <1>12, <1>13, InStepPush
<1>16. fs2[D + 1] = frame
  BY <1>10, <1>12, <1>13, InStepPush
<1> HIDE DEF fs2
<1>17. AtHeight(f, h, fs2[D], pc + 1, 1)
  <2>1. D \in 1..D
    BY <1>5
  <2>2. fs2[D] = fs1[D]
    BY <1>15, <2>1
  <2>3. fs1[D].scheme = Top.scheme
    BY <1>10 DEF Top, Depth, D
  <2>4. h[Top.scheme][pc + 1] = StackLen(fs1[D]) + 1
    BY <1>4, <1>5, <1>6, <1>8, <1>10
  <2> QED
    BY <1>7, <1>8, <2>2, <2>3, <2>4 DEF AtHeight, Code, SchemeOf, Schemes, f
<1>18. Followed(f, h, fs2, D, pc + 1, 1)
  <2>1. D \in 1..D
    BY <1>5
  <2>2. \A d \in 1..D : d # D => fs2[d] = frames[d]
    BY <1>11, <1>15
  <2>3. fs2[D].return = frames[D].return
    BY <1>10, <1>15, <2>1
  <2> QED
    BY <1>5, <1>7, <1>17, <2>2, <2>3, FollowedSame
<1>19. AtHeight(f, h, fs2[D + 1], 1, 0)
  BY <1>1, <1>13, <1>16 DEF AtHeight, Schemes, scheme, f
<1>20. Followed(f, h, fs2, D + 1, 1, 0)
  BY <1>5, <1>13, <1>16, <1>18, <1>19, FollowedUp
<1>21. InStep(frames', roots') /\ Control(file, frames', pc')
  BY <1>2, <1>3, <1>5, <1>14, <1>20 DEF Control, fs2, f, h
<1>22. ObjectsOK(DOMAIN Schemes, heap')
  <2>1. \A l \in 1..scheme.locals : ObjectOK(DOMAIN Schemes, locals[l])
    BY <1>2, DataObjects
  <2>2. \A a \in 1..N : ObjectOK(DOMAIN Schemes, args[a])
    BY <1>2, DataObjects
  <2>3. ObjectsOK(DOMAIN Schemes, locals)
    BY <1>1, <1>2, <2>1, ObjectsOfMany
  <2>4. ObjectsOK(DOMAIN Schemes, args)
    BY <1>1, <1>2, <2>2, ObjectsOfMany
  <2>5. ObjectsOK(DOMAIN Schemes, locals \o args)
    BY <2>3, <2>4, ObjectsConcat
  <2> QED
    BY <1>2, <2>5, HeapKept
<1> QED
  BY <1>3, <1>21, <1>22, StepKeeps

(* The return of a frame that holds n operands, its result among them.      *)
LEMMA ReturnKeeps ==
  ASSUME FilesVerified, IInv, status = "running", NEW n \in Nat, n = StackLen(Top),
         NEW value, Returns(n, value), file' = file, UNCHANGED heap,
         Depth = 1 => status' # "running"
  PROVE  IInv'
<1> DEFINE D == Len(frames)
           C == D - 1
           lower == DropLast(frames, 1)
           left == DropLast(roots, n + FrameRoots(Top))
           k == lower[C].stack
           fs2 == frames'
           rs2 == roots'
           h == HeightsOf(file)
           f == file
           q == frames[D].return
<1>1. /\ InStep(frames, roots) /\ D \in Nat /\ D > 0 /\ Top = frames[D] /\ Depth = D
      /\ FrameRoots(Top) \in Nat /\ Followed(f, h, frames, D, pc, 0)
  BY Running DEF IInv, Depth, Top
<1>2. /\ InStep(lower, left) /\ Len(lower) = C
      /\ \A d \in 1..C : lower[d] = frames[d]
  <2>1. n + FrameRoots(Top) \in Nat /\ n + FrameRoots(Top) = StackLen(frames[D]) + FrameRoots(frames[D])
    BY <1>1
  <2>2. InStep(lower, left) /\ Len(lower) = C
    BY <1>1, <2>1, InStepPop
  <2>3. \A d \in 1..C : lower[d] = frames[d]
    BY <1>1, <2>1, InStepPop
  <2> QED
    BY <2>2, <2>3
<1>3. ObjectsOK(DOMAIN Schemes, heap')
  BY HeapKept
<1>4. CASE D = 1
  <2>1. fs2 = << >> /\ rs2 = left
    BY <1>1, <1>4 DEF Returns
  <2>2. lower = << >>
    <3>1. IsSeq(lower) /\ Len(lower) = 0
      BY <1>2, <1>4 DEF InStep
    <3> QED
      BY <3>1, SeqEqualities
  <2>3. InStep(frames', roots')
    BY <1>2, <2>1, <2>2
  <2> QED
    BY <1>1, <1>3, <1>4, <2>3, StepKeeps
<1>5. CASE D # 1
  <2>1. C \in Nat /\ C > 0 /\ C \in 1..C /\ D > 1 /\ Depth - 1 = C
    BY <1>1, <1>5
  <2>2. /\ fs2 = [lower EXCEPT ![C].stack = Append(@, value)]
        /\ rs2 = Append(left, Slot(C, "stack", Len(frames[C].stack) + 1))
        /\ pc' = q
    BY <1>1, <1>5, <2>1 DEF Returns
  <2>3. lower[C] = frames[C]
    BY <1>2, <2>1
  <2>4. IsSeq(k) /\ IsSeq(left) /\ IsSeq(lower) /\ Len(k) \in Nat
    <3>1. FrameOK(lower[C]) /\ IsSeq(left) /\ IsSeq(lower)
      BY <1>2, <2>1 DEF InStep, Tiled
    <3>2. IsSeq(k)
      BY <3>1 DEF FrameOK
    <3> QED
      BY <3>1, <3>2, SeqDomain
  <2>5. fs2 = Restacked(lower, Append(k, value))
    BY <1>2, <2>2 DEF Restacked
  <2>6. rs2 = Append(left, Slot(C, "stack", Len(k) + 1))
    BY <2>2, <2>3
  <2> HIDE DEF D, C, lower, left, k, fs2, rs2, h, f, q
  <2>7. TopRestacked(lower, fs2, rs2, Len(k) + 1)
    <3>1. TopRestacked(lower, Restacked(lower, DropLast(k, 0) \o <<value>>),
                       DropLast(left, 0) \o Pushed(C, Len(k) - 0, <<value>>),
                       (Len(k) - 0) + Len(<<value>>))
      <4>1. 0 \in Nat /\ 0 <= Len(k) /\ k = lower[Len(lower)].stack /\ Len(lower) > 0
        BY <1>2, <2>1, <2>4 DEF k
      <4>2. IsSeq(<<value>>)
        BY ShortSeqs
      <4> QED
        BY <1>2, <4>1, <4>2, InStepStacked
    <3>2. DropLast(k, 0) = k /\ DropLast(left, 0) = left
      BY <2>4, SeqEqualities
    <3>3. Len(k) - 0 = Len(k) /\ Len(<<value>>) = 1
      BY <2>4, ShortSeqs
    <3>4. k \o <<value>> = Append(k, value)
      BY <2>4, SeqEqualities
    <3>5. Pushed(C, Len(k), <<value>>) = <<Slot(C, "stack", Len(k) + 1)>>
      BY PushedShort
    <3>6. left \o <<Slot(C, "stack", Len(k) + 1)>> = Append(left, Slot(C, "stack", Len(k) + 1))
      BY <2>4, SeqEqualities
    <3> QED
      BY <2>5, <2>6, <3>1, <3>2, <3>3, <3>4, <3>5, <3>6
  <2>8. /\ InStep(fs2, rs2) /\ Len(fs2) = C /\ StackLen(fs2[C]) = Len(k) + 1
        /\ fs2[C].scheme = lower[C].scheme /\ fs2[C].return = lower[C].return
    BY <1>2, <2>7 DEF TopRestacked
  <2>9. \A d \in 1..C : d # C => fs2[d] = lower[d]
    BY <1>2, <2>7 DEF TopRestacked
  <2>10. Followed(f, h, frames, C, q, 1)
    BY <1>1, <2>1, FollowedDown DEF C, q
  <2>11. AtHeight(f, h, fs2[C], q, 0)
    <3>1. AtHeight(f, h, lower[C], q, 1)
      BY <2>3, <2>10 DEF Followed
    <3>2. StackLen(lower[C]) = Len(k)
      BY DEF StackLen, k
    <3> QED
      BY <2>4, <2>8, <3>1, <3>2 DEF AtHeight
  <2>12. Followed(f, h, fs2, C, q, 0)
    <3>1. \A d \in 1..C : d # C => fs2[d] = frames[d]
      BY <1>2, <2>9
    <3>2. fs2[C].return = frames[C].return
      BY <2>3, <2>8
    <3> QED
      BY <2>1, <2>10, <2>11, <3>1, <3>2, FollowedSame
  <2>13. InStep(frames', roots') /\ Control(file, frames', pc')
    BY <2>1, <2>2, <2>8, <2>12 DEF Control, fs2, rs2, f, h
  <2> QED
    BY <1>3, <2>13, StepKeeps
<1> QED
  BY <1>4, <1>5

(* RET finds its value and nothing else, so that the roots it takes off are *)
(* the frame's.                                                             *)
LEMMA RetKeeps ==
  ASSUME FilesVerified, IInv, Ret
  PROVE  IInv'
<1>1. /\ status = "running" /\ pc \in DOMAIN Code /\ Code[pc].op = "RET"
      /\ Returns(1, Operand(1)) /\ file' = file /\ UNCHANGED heap
      /\ Depth = 1 => status' # "running"
  BY DEF Ret, Fetched
<1>2. 1 = StackLen(Top)
  BY <1>1, RunningHeights
<1> QED
  BY <1>1, <1>2, ReturnKeeps

(* At the end of the code there is nothing on the operand stack.            *)
LEMMA FallsOffTheEndKeeps ==
  ASSUME FilesVerified, IInv, FallsOffTheEnd
  PROVE  IInv'
<1>1. /\ status = "running" /\ pc = Len(Code) + 1
      /\ Returns(0, NoneId) /\ file' = file /\ UNCHANGED heap
      /\ Depth = 1 => status' # "running"
  BY DEF FallsOffTheEnd
<1>2. 0 = StackLen(Top)
  BY <1>1, RunningHeights
<1> QED
  BY <1>1, <1>2, ReturnKeeps

(* An exception or undefined behaviour ends the run where it is.            *)
LEMMA EndsKeep ==
  ASSUME FilesVerified, IInv, Throw \/ Wild \/ UNCHANGED vars
  PROVE  IInv'
<1>1. file' = file /\ heap' = heap /\ frames' = frames /\ roots' = roots /\ pc' = pc
      /\ (status' = "running" => status = "running")
  BY DEF Throw, Wild, vars
<1>2. InStep(frames', roots') /\ ObjectsOK(DOMAIN Schemes, heap')
  BY <1>1 DEF IInv
<1>3. status' = "running" => Control(file, frames', pc')
  BY <1>1 DEF IInv
<1> QED
  BY <1>1, <1>2, <1>3, StepKeeps

(* Every step keeps the invariant.                                          *)
LEMMA StepInvariant ==
  ASSUME FilesVerified, IInv, [Next]_vars
  PROVE  IInv'
<1>1. CASE Ended \/ UNCHANGED vars
  BY <1>1, EndsKeep DEF Ended
<1>2. CASE \/ StdThrows \/ CJmpZThrows \/ BinopThrows \/ BinopDividesByZero \/ LengthThrows
           \/ RngSpcThrows \/ LdtThrows \/ LdaThrows \/ CallCThrows
  <2>1. Throw \/ Wild
    BY <1>2, Zenon DEF StdThrows, CJmpZThrows, BinopThrows, BinopDividesByZero, LengthThrows,
              RngSpcThrows, LdtThrows, LdaThrows, CallCThrows
  <2> QED
    BY <2>1, EndsKeep
<1>3. CASE PushNone \/ PushLiteral \/ Ld \/ St \/ Std \/ Drop \/ Dup \/ Jmp \/ CJmpZ
  BY <1>3, PushNoneKeeps, PushLiteralKeeps, LdKeeps, StKeeps, StdKeeps, DropKeeps, DupKeeps, JmpKeeps, CJmpZKeeps,
     Zenon
<1>4. CASE BinopInts \/ BinopBools \/ BinopEqual \/ BinopConcat \/ IsType \/ Length \/ RngSpc
  BY <1>4, BinopIntsKeeps, BinopBoolsKeeps, BinopEqualKeeps, BinopConcatKeeps, IsTypeKeeps,
     LengthKeeps, RngSpcKeeps, Zenon
<1>5. CASE Array \/ Tuple \/ Ldt \/ Lda \/ LdaInserts \/ Sta
  BY <1>5, ArrayKeeps, TupleKeeps, LdtKeeps, LdaKeeps, LdaInsertsKeeps, StaKeeps, Zenon
<1>6. CASE Closure \/ CallC \/ Ret \/ FallsOffTheEnd \/ PrintValues
  BY <1>6, ClosureKeeps, CallCKeeps, RetKeeps, FallsOffTheEndKeeps, PrintValuesKeeps, Zenon
<1> QED
  BY <1>1, <1>2, <1>3, <1>4, <1>5, <1>6, Zenon DEF Next, Instruction

(* The invariant holds when the frame of main has been built.               *)
LEMMA InitInvariant ==
  ASSUME FilesVerified, Init
  PROVE  IInv
<1> DEFINE main == file.main
           s == Schemes[main]
           frame == NewFrame(main, 0, 0, 2, << >>)
           none == Object("None", 0, << >>, << >>)
           boxes == [i \in 1..s.locals |-> MakeRef(NoneId)]
           args == [i \in DOMAIN << >> |-> MakeRef(<< >>[i])]
           h == HeightsOf(file)
<1>1. PICK k \in DOMAIN Files : file = Files[k]
  BY DEF Init
<1>2. Verified(file, h)
  <2>1. \E g : Verified(file, g)
    BY <1>1 DEF FilesVerified
  <2> QED
    BY <2>1 DEF HeightsOf
<1>3. main \in DOMAIN Schemes
  BY <1>2 DEF Verified, WellFormed, Schemes
<1>4. /\ s.locals \in Nat /\ s.args \in Nat /\ h[main][1] = 0
      /\ Len(s.code) \in Nat
  BY <1>2, <1>3, VerifiedEntry DEF Schemes
<1>5. /\ frames = <<frame>> /\ heap = <<none>> \o FrameObjects(main, << >>)
      /\ roots = FrameSlots(1, frame) /\ pc = 1
  BY DEF Init
<1>6. /\ FrameOK(frame) /\ Base(frame) = 0 /\ frame.stack = << >> /\ StackLen(frame) = 0
      /\ frame.scheme = main
  BY <1>4, ShortSeqs, NewFrameLemma
<1> HIDE DEF frame
<1>7. InStep(frames, roots)
  <2>1. InStep(<< >>, << >>)
    <3>1. IsSeq(<< >>) /\ Len(<< >>) = 0
      BY ShortSeqs
    <3>2. \A d \in 1..0 : FALSE
      OBVIOUS
    <3> QED
      BY <3>1, <3>2 DEF InStep, Tiled
  <2>2. Base(frame) = Len(<< >>) /\ Len(<< >>) + 1 = 1
    BY <1>6
  <2>3. InStep(Append(<< >>, frame), << >> \o FrameSlots(1, frame))
    BY <1>6, <2>1, <2>2, InStepPush
  <2>4. Append(<< >>, frame) = <<frame>>
    OBVIOUS
  <2>5. << >> \o FrameSlots(1, frame) = FrameSlots(1, frame)
    <3>1. PICK S : FrameSlots(1, frame) \in Seq(S)
      BY <1>6, FrameSlotsLemma DEF IsSeq
    <3> QED
      BY <3>1
  <2> QED
    BY <1>5, <2>3, <2>4, <2>5
<1>8. ObjectsOK(DOMAIN Schemes, heap)
  <2>1. FrameObjects(main, << >>) = boxes \o args
    BY DEF FrameObjects
  <2>2. /\ boxes \in [1..s.locals -> {MakeRef(NoneId)}]
        /\ \A i \in 1..s.locals : boxes[i] = MakeRef(NoneId)
    OBVIOUS
  <2>3. args \in [1..0 -> {}]
    OBVIOUS
  <2> HIDE DEF boxes, args, s
  <2>4. ObjectsOK(DOMAIN Schemes, boxes)
    <3> DEFINE l == s.locals
    <3>1. \A i \in 1..l : ObjectOK(DOMAIN Schemes, boxes[i])
      BY <2>2, DataObjects
    <3> HIDE DEF l
    <3>2. l \in Nat /\ boxes \in [1..l -> {MakeRef(NoneId)}]
      BY <1>4, <2>2 DEF l
    <3> QED
      BY <3>1, <3>2, ObjectsOfMany
  <2>5. ObjectsOK(DOMAIN Schemes, args)
    <3>1. \A i \in 1..0 : ObjectOK(DOMAIN Schemes, args[i])
      OBVIOUS
    <3> QED
      BY <2>3, <3>1, ObjectsOfMany
  <2>6. ObjectsOK(DOMAIN Schemes, <<none>>)
    <3>1. ObjectOK(DOMAIN Schemes, none)
      BY DataObjects
    <3> QED
      BY <3>1, ObjectsOfOne
  <2>7. ObjectsOK(DOMAIN Schemes, boxes \o args)
    BY <2>4, <2>5, ObjectsConcat
  <2>8. ObjectsOK(DOMAIN Schemes, <<none>> \o (boxes \o args))
    BY <2>6, <2>7, ObjectsConcat
  <2> QED
    BY <1>5, <2>1, <2>8
<1>9. Control(file, frames, pc)
  <2>1. Len(frames) = 1 /\ frames[1] = frame
    BY <1>5
  <2>2. AtHeight(file, h, frame, 1, 0)
    BY <1>3, <1>4, <1>6 DEF AtHeight, Schemes
  <2>3. Followed(file, h, frames, 1, 1, 0)
    <3>1. \A d \in 1..1 : ~(d < 1)
      OBVIOUS
    <3> QED
      BY <2>1, <2>2, <3>1 DEF Followed
  <2> QED
    BY <1>5, <2>1, <2>3 DEF Control
<1> QED
  BY <1>1, <1>7, <1>8, <1>9 DEF IInv

-----------------------------------------------------------------------------
(* Whatever a verified file computes and whenever the heap collects,        *)
(* Heap::roots lists the slots of the frames there are and nothing else:    *)
(* frame constructors, pushes, pops and destructors of src/sm_runtime.hpp   *)
(* add up on every path through interprete().                               *)
THEOREM RootsFollowFrames ==
  ASSUME FilesVerified
  PROVE  Spec => []RootsAreTheSlots
<1>1. Init => IInv
  BY InitInvariant
<1>2. IInv /\ [Next]_vars => IInv'
  BY StepInvariant
<1>3. IInv => RootsAreTheSlots
  BY InStepSuffices DEF IInv
<1> QED
  BY <1>1, <1>2, <1>3, PTL DEF Spec

(* Every frame of a verified file holds the operands that the heights of    *)
(* its code say, the frames that wait for a callee without its result.      *)
THEOREM HeightsAreFollowed ==
  ASSUME FilesVerified
  PROVE  Spec => []HeightsFollowed(HeightsOf(file))
<1>1. Init => IInv
  BY InitInvariant
<1>2. IInv /\ [Next]_vars => IInv'
  BY StepInvariant
<1>3. ASSUME IInv, status = "running", NEW d \in DOMAIN frames
      PROVE  Len(frames[d].stack) = HeightOf(d, HeightsOf(file))
  <2>1. /\ Depth \in Nat /\ d \in 1..Depth
        /\ Followed(file, HeightsOf(file), frames, Depth, pc, 0)
    BY <1>3, Running
  <2>2. StackLen(frames[d]) \in Nat
    <3>1. FrameOK(frames[d])
      BY <1>3, <2>1 DEF IInv, InStep, Tiled, Depth
    <3> QED
      BY <3>1, FrameNumbers
  <2>3. CASE d = Depth
    <3>1. AtHeight(file, HeightsOf(file), frames[d], pc, 0)
      BY <2>1, <2>3 DEF Followed
    <3> QED
      BY <2>2, <2>3, <3>1 DEF AtHeight, HeightOf, StackLen
  <2>4. CASE d # Depth
    <3>1. AtHeight(file, HeightsOf(file), frames[d], frames[d + 1].return, 1)
      BY <2>1, <2>4 DEF Followed
    <3> QED
      BY <2>2, <2>4, <3>1 DEF AtHeight, HeightOf, StackLen
  <2> QED
    BY <2>3, <2>4
<1>4. IInv => HeightsFollowed(HeightsOf(file))
  BY <1>3 DEF HeightsFollowed
<1> QED
  BY <1>1, <1>2, <1>4, PTL DEF Spec

(* OperandsFound, for every verified file: whatever it computes, no pop of  *)
(* interprete() meets an empty operand stack, and a frame that is destroyed *)
(* has nothing on its operand stack but its result.                         *)
THEOREM NoPopUnderflows ==
  ASSUME FilesVerified
  PROVE  Spec => []OperandsFound
<1>1. Init => IInv
  BY InitInvariant
<1>2. IInv /\ [Next]_vars => IInv'
  BY StepInvariant
<1>3. IInv => OperandsFound
  BY RunningHeights DEF OperandsFound, StackLen
<1> QED
  BY <1>1, <1>2, <1>3, PTL DEF Spec
=============================================================================
