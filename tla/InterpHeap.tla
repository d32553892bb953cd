----------------------------- MODULE InterpHeap -----------------------------
(***************************************************************************)
(* The memory of the tree interpreter: class Heap of src/gc.cpp and the    *)
(* parts of src/interpreter.cpp that allocate, hold and move values.       *)
(*                                                                         *)
(* Arrays and tuples live in the vector from_ and are named by their index *)
(* (a GcHandle; GC_NULL is 0 here).  Variables live in frames, which are   *)
(* shared by env_, the environments that calls have saved, and the         *)
(* closures that captured them.  Before a statement of the program, and    *)
(* only there, maybe_gc() may call collect(): Cheney's algorithm over      *)
(* indices, which follows a closure into its frames.  collect() is one     *)
(* value per step here.                                                    *)
(*                                                                         *)
(* The program is any sequence of statements: assignments, literals,       *)
(* closures, expressions, element stores, bodies, loops over an aggregate, *)
(* calls, returns and exits, of a loop of the same function or of one that *)
(* a call is made in.  Scalars and strings hold no handle and are one      *)
(* value here, None.  What fails in the program (a name or an element that *)
(* is not there, an exit that no loop awaits) ends it, and is no step.     *)
(***************************************************************************)
EXTENDS SequencesExt

CONSTANTS
  Names,        \* names of variables
  Threshold,    \* Heap::threshold_
  MaxObjects,   \* bound: size of from_
  MaxElements,  \* bound: elements of an aggregate
  MaxFrames,    \* bound: frames there are at a time
  MaxActive,    \* bound: bodies, loops and calls in progress
  MaxSteps      \* bound: statements of a program that begin

ASSUME HeapAssumption ==
  /\ {Threshold, MaxObjects, MaxElements, MaxFrames, MaxActive, MaxSteps} \subseteq Nat
  /\ MaxFrames > 0
  /\ IsFiniteSet(Names)

VARIABLES
  from_, to_,   \* the heap: sequences of [kind, fwd, values]
  capacity,     \* of the vector from_
  frames,       \* the frames something holds: number -> variables
  env_,         \* Interpreter::env_, frame numbers, the innermost last
  val_,         \* Interpreter::val_
  active,       \* what C++ calls in progress hold: bodies, loops, calls
  steps,        \* how long the program has become
  strayed,      \* whether an exit has left a call so far
  gc            \* [phase, todo, visited, scan, reserved, done]

vars == <<from_, to_, capacity, frames, env_, val_, active, steps, strayed, gc>>

GC_NULL == 0

-----------------------------------------------------------------------------
(* Values *)

(* A DValue: its handle if it is an Array or a Tuple; if it is a Func, the *)
(* captured frames, and whether its literal stands in a loop, so that its  *)
(* body may have an exit of its own.                                       *)
DValue(type, href, env, inLoop) ==
  [type |-> type, href |-> href, env |-> env, inLoop |-> inLoop]

None == DValue("None", GC_NULL, << >>, FALSE)
Aggregate(kind, h) == DValue(kind, h, << >>, FALSE)
Func(env, inLoop) == DValue("Func", GC_NULL, env, inLoop)

IsAggregate(v) == v.type \in {"Array", "Tuple"}

(* What eval() leaves in val_: type and handle are copied, the closure is  *)
(* gone.                                                                   *)
MovedFrom(v) == [v EXCEPT !.env = << >>, !.inLoop = FALSE]

HeapObj(kind, values) == [kind |-> kind, fwd |-> GC_NULL, values |-> values]

NewFrame == [n \in Names |-> None]

-----------------------------------------------------------------------------
(* Frames and who holds them *)

(* The nodes that succ leads to from those in r: no set that holds r and   *)
(* that succ does not leave is without them.                               *)
Closed(succ, r) ==
  {S \in SUBSET DOMAIN succ :
     r \cap DOMAIN succ \subseteq S /\ \A j \in S : succ[j] \cap DOMAIN succ \subseteq S}

Closure(succ, r) == DOMAIN succ \ UNION {DOMAIN succ \ S : S \in Closed(succ, r)}

EnvsIn(values) == UNION {Range(v.env) : v \in values}

ValuesOf(objs) == UNION {Range(objs[i].values) : i \in DOMAIN objs}

HeldBy(a) ==
  CASE a.kind = "body" -> {}
    [] a.kind = "loop" -> Range(a.over.env)
    [] a.kind = "call" -> Range(a.saved)

Holders ==
  Range(env_) \cup Range(val_.env) \cup (UNION {HeldBy(a) : a \in Range(active)})
    \cup EnvsIn(ValuesOf(from_)) \cup EnvsIn(ValuesOf(to_))

(* The frames reached from env_, val_, the calls in progress and the       *)
(* objects.  shared_ptr destroys the others, but for those that hold each  *)
(* other, which nothing reads again.                                       *)
FramesBecome(fs) ==
  LET captured == [f \in DOMAIN fs |-> EnvsIn(Range(fs[f]))]
  IN  frames' = Restrict(fs, Closure(captured, Holders'))

Unused == SetToSeq(1..MaxFrames \ DOMAIN frames)

MayPush(n) == Len(Unused) >= n /\ Len(active) + n <= MaxActive

(* push_frame, n times. *)
EnvPushed(env, n) == env \o SubSeq(Unused, 1, n)
Pushed(n) == [f \in DOMAIN frames \cup Range(SubSeq(Unused, 1, n)) |->
                IF f \in DOMAIN frames THEN frames[f] ELSE NewFrame]

Variables == Range(env_) \X Names
Variable(x) == frames[x[1]][x[2]]
Set(fs, x, v) == [fs EXCEPT ![x[1]][x[2]] = v]

Init ==
  /\ from_ = << >> /\ to_ = << >> /\ capacity = 0
  /\ frames = [f \in {1} |-> NewFrame]
  /\ env_ = <<1>>
  /\ val_ = None
  /\ active = << >>
  /\ steps = 0
  /\ strayed = FALSE
  /\ gc = [phase |-> "next", todo |-> << >>, visited |-> {}, scan |-> 1,
           reserved |-> 0, done |-> {}]

-----------------------------------------------------------------------------
(* The program *)

Running == gc.phase = "run"
Inside(kind) == Running /\ active # << >> /\ Last(active).kind = kind

(* Where statements are: in the program and in bodies. *)
AtStatement == Running /\ (active = << >> \/ Inside("body"))

(* maybe_gc() comes before a statement of the program, not of a body. *)
PhaseAfterTurn == IF Len(active') <= 1 THEN "next" ELSE "run"
PhaseAfter == IF active' = << >> THEN "next" ELSE "run"

Resumes == gc' = [gc EXCEPT !.phase = PhaseAfter] /\ UNCHANGED to_

Proceeds ==
  /\ steps < MaxSteps
  /\ steps' = steps + 1
  /\ UNCHANGED strayed
  /\ Resumes

Returns == Resumes /\ UNCHANGED <<steps, strayed>>

BeginStatement ==
  /\ gc.phase = "next"
  /\ Len(from_) < Threshold
  /\ gc' = [gc EXCEPT !.phase = "run"]
  /\ UNCHANGED <<from_, to_, capacity, frames, env_, val_, active, steps, strayed>>

(* var x := y, x := y, x := y[1], x := none *)
Readable ==
  {None} \cup {Variable(y) : y \in Variables}
    \cup UNION {Range(from_[Variable(y).href].values) :
                  y \in {z \in Variables : IsAggregate(Variable(z))}}

AssignVariable(x, v) ==
  /\ AtStatement
  /\ val_' = MovedFrom(v)
  /\ UNCHANGED <<from_, capacity, env_, active>>
  /\ Proceeds
  /\ FramesBecome(Set(frames, x, v))

(* Calls in progress, and loops over an aggregate. *)
Calls == {i \in DOMAIN active : active[i].kind = "call"}
Loops == {i \in DOMAIN active : active[i].kind = "loop"}

(* The analyser's loop_depth_ > 0, which a function's literal does not     *)
(* reset: a statement of the function called last, or of the program.      *)
InLoop ==
  \E i \in DOMAIN active : /\ \A c \in Calls : c <= i
                           /\ IF i \in Calls THEN active[i].inLoop ELSE i - 1 \notin Calls

FuncHere == Func(env_, InLoop)

(* x := func ... *)
AssignFunc(x) ==
  /\ AtStatement
  /\ val_' = MovedFrom(FuncHere)
  /\ UNCHANGED <<from_, capacity, env_, active>>
  /\ Proceeds
  /\ FramesBecome(Set(frames, x, FuncHere))

(* push_back on from_: a vector that is full moves to a larger buffer, and *)
(* the std::map of an array with it, away from the end() a loop compares   *)
(* with.                                                                   *)
Full == Len(from_) = capacity

Reallocated(a) ==
  IF a.kind = "loop" /\ a.over.type = "Array" THEN [a EXCEPT !.moved = TRUE] ELSE a

PushBack(obj) ==
  /\ Len(from_) < MaxObjects
  /\ from_' = Append(from_, obj)
  /\ capacity' = IF ~Full THEN capacity ELSE IF capacity = 0 THEN 1 ELSE 2 * capacity
  /\ active' = IF Full THEN [i \in DOMAIN active |-> Reallocated(active[i])] ELSE active

(* x := [...] and x := {...}, the elements read from variables. *)
AssignNew(x, kind, values) ==
  LET v == Aggregate(kind, Len(from_) + 1)
  IN  /\ AtStatement
      /\ PushBack(HeapObj(kind, values))
      /\ val_' = v
      /\ UNCHANGED env_
      /\ Proceeds
      /\ FramesBecome(Set(frames, x, v))

(* x[k] := v inserts or overwrites, x.k := v overwrites. *)
AssignElement(x, k, v) ==
  LET h    == Variable(x).href
      old  == from_[h].values
  IN  /\ AtStatement
      /\ IsAggregate(Variable(x))
      /\ k <= Len(old) + (IF Variable(x).type = "Array" THEN 1 ELSE 0)
      /\ from_' = [from_ EXCEPT ![h].values =
                     IF k > Len(old) THEN Append(old, v) ELSE [old EXCEPT ![k] = v]]
      /\ val_' = IF Variable(x).type = "Array" THEN None ELSE Variable(x)
      /\ UNCHANGED <<capacity, env_, active>>
      /\ Proceeds
      /\ FramesBecome(frames)

(* The body of an if, of a while or of an infinite loop, after a condition *)
(* or without one; a loop over a range is one of these in another.         *)
EnterBody ==
  /\ AtStatement
  /\ MayPush(1)
  /\ env_' = EnvPushed(env_, 1)
  /\ active' = Append(active, [kind |-> "body"])
  /\ val_' \in {None, val_}
  /\ UNCHANGED <<from_, capacity>>
  /\ Proceeds
  /\ FramesBecome(Pushed(1))

LeaveBody ==
  /\ Inside("body")
  /\ env_ # << >>
  /\ env_' = Front(env_)
  /\ active' = Front(active)
  /\ UNCHANGED <<from_, capacity, val_>>
  /\ Returns
  /\ FramesBecome(frames)

(* for n in y: the aggregate is held in a local, a frame holds n. *)
EnterLoop(y, n) ==
  /\ AtStatement
  /\ MayPush(1)
  /\ IsAggregate(Variable(y))
  /\ env_' = EnvPushed(env_, 1)
  /\ active' = Append(active, [kind |-> "loop", iter |-> n, over |-> Variable(y),
                              at |-> 1, moved |-> FALSE])
  /\ val_' = Variable(y)
  /\ UNCHANGED <<from_, capacity>>
  /\ Proceeds
  /\ FramesBecome(Pushed(1))

Loop == Last(active)
Elements == from_[Loop.over.href].values

(* run_body: the next element, and the frame of the body. *)
Iterate ==
  /\ Inside("loop")
  /\ Loop.at <= Len(Elements)
  /\ env_ # << >>
  /\ MayPush(1)
  /\ env_' = EnvPushed(env_, 1)
  /\ active' = Append([active EXCEPT ![Len(active)].at = @ + 1], [kind |-> "body"])
  /\ UNCHANGED <<from_, capacity, val_>>
  /\ Returns
  /\ FramesBecome(Set(Pushed(1), <<Last(env_), Loop.iter>>, Elements[Loop.at]))

LeaveLoop ==
  /\ Inside("loop")
  /\ Loop.at > Len(Elements)
  /\ ~Loop.moved
  /\ env_ # << >>
  /\ env_' = Front(env_)
  /\ active' = Front(active)
  /\ UNCHANGED <<from_, capacity, val_>>
  /\ Returns
  /\ FramesBecome(frames)

(* The iterator has come to the end of the map where it is now, and does   *)
(* not meet the end the loop compares it with.                             *)
LoopRunsPast ==
  /\ Inside("loop")
  /\ Loop.at > Len(Elements)
  /\ Loop.moved
  /\ gc' = [gc EXCEPT !.phase = "undefined"]
  /\ UNCHANGED <<from_, to_, capacity, frames, env_, val_, active, steps, strayed>>

(* What an exit may leave: a loop over an aggregate, or a body that is a   *)
(* loop's (not that of a function, nor one that such a loop runs), inside  *)
(* of all the loops over aggregates.                                       *)
Exited(i) ==
  /\ \A j \in Loops : j <= i
  /\ i \notin Calls /\ i - 1 \notin Calls \cup Loops

ExitLoopKeepingItsFrame(i) ==
  /\ AtStatement
  /\ Exited(i)
  /\ \A c \in Calls : c < i
  /\ env_' = SubSeq(env_, 1, Len(env_) - (Len(active) - i))
  /\ active' = SubSeq(active, 1, i - 1)
  /\ UNCHANGED <<from_, capacity, val_>>
  /\ Returns
  /\ FramesBecome(frames)

(* exit: the guards of the bodies, then that of the loop, pop their frames. *)
ExitLoop(i) ==
  /\ AtStatement
  /\ Exited(i)
  /\ \A c \in Calls : c < i
  /\ Len(active) + 1 - i <= Len(env_)
  /\ env_' = SubSeq(env_, 1, Len(env_) - (Len(active) + 1 - i))
  /\ active' = SubSeq(active, 1, i - 1)
  /\ UNCHANGED <<from_, capacity, val_>>
  /\ Returns
  /\ FramesBecome(frames)

(* exit in a function whose literal stands in a loop, but that was called  *)
(* in loop i: call_func passes it on and does not put back the environment *)
(* it has saved, so that the guards outside of it pop the callee's frames. *)
(* A frame popped from an env_ without one is undefined: no step here.     *)
ExitCall(i) ==
  LET left == (i..Len(active)) \ Calls
  IN  /\ AtStatement
      /\ Exited(i)
      /\ \E c \in Calls : i < c /\ active[c].inLoop /\ \A d \in Calls : d <= c
      /\ Cardinality(left) <= Len(env_)
      /\ env_' = SubSeq(env_, 1, Len(env_) - Cardinality(left))
      /\ active' = SubSeq(active, 1, i - 1)
      /\ strayed' = TRUE
      /\ UNCHANGED <<from_, capacity, val_, steps>>
      /\ Resumes
      /\ FramesBecome(frames)

(* x := y(v): the environment of the caller is saved in a local, the frame *)
(* of the parameter n and that of the body go on top of the captured ones. *)
Call(x, y, n, v) ==
  /\ AtStatement
  /\ MayPush(2)
  /\ Variable(y).type = "Func"
  /\ env_' = EnvPushed(Variable(y).env, 2)
  /\ active' = active \o <<[kind |-> "call", saved |-> env_, target |-> x,
                             inLoop |-> Variable(y).inLoop],
                            [kind |-> "body"]>>
  /\ val_' = MovedFrom(v)
  /\ UNCHANGED <<from_, capacity>>
  /\ Proceeds
  /\ FramesBecome(Set(Pushed(2), <<Unused[1], n>>, v))

(* return v, or the end of the function's body: v is assigned, or it stays *)
(* in val_ when the call is a statement.                                   *)
Return(i, v) ==
  /\ i \in Calls
  /\ \A j \in Calls : j <= i
  /\ AtStatement \/ (Inside("call") /\ v = None)
  /\ env_' = active[i].saved
  /\ active' = SubSeq(active, 1, i - 1)
  /\ UNCHANGED <<from_, capacity>>
  /\ Returns
  /\ \/ /\ val_' = MovedFrom(v)
        /\ FramesBecome(Set(frames, active[i].target, v))
     \/ /\ val_' = v
        /\ FramesBecome(frames)

(* A statement that assigns nothing and makes nothing: an expression, whose *)
(* value stays in val_, or print, which moves it out of there.              *)
OtherStatement(v) ==
  /\ AtStatement
  /\ val_' \in {v, MovedFrom(v)}
  /\ UNCHANGED <<from_, capacity, env_, active>>
  /\ Proceeds
  /\ FramesBecome(frames)

-----------------------------------------------------------------------------
(* The collector.  What is left to scan is a stack of slots and frames:    *)
(* scan_value calls itself through the frames of a closure.                *)

ValSlot == <<"val", 0, "">>
VarSlot(f, n) == <<"var", f, n>>
ElemSlot(i, k) == <<"elem", i, k>>
FrameItem(f) == <<"frame", f, "">>

IsSlot(item) == item[1] # "frame"

At(slot) ==
  CASE slot[1] = "val"  -> val_
    [] slot[1] = "var"  -> frames[slot[2]][slot[3]]
    [] slot[1] = "elem" -> to_[slot[2]].values[slot[3]]

FrameSlots(f) == SetToSeq({VarSlot(f, n) : n \in Names})

(* Every frame of env_ is marked as visited, its variables are roots.  The *)
(* frames of env_ are distinct: each was pushed when nothing held it.      *)
RootsUnmarked == {}
RootsAllFrames == DOMAIN frames
RootFrames == Range(env_)

RootSlots == {VarSlot(f, n) : f \in Range(env_), n \in Names}

StartCollection(phase, todo, visited) ==
  gc' = [phase |-> phase, todo |-> todo, visited |-> visited, scan |-> 1,
         reserved |-> Len(from_), done |-> {}]

MaybeGc ==
  /\ gc.phase = "next"
  /\ Len(from_) >= Threshold
  /\ StartCollection("collect", <<ValSlot>> \o SetToSeq(RootSlots), RootFrames)
  /\ to_' = << >>
  /\ UNCHANGED <<from_, capacity, frames, env_, val_, active, steps, strayed>>

Collecting == gc.phase \in {"collect", "clear"}
Next1 == Head(gc.todo)
Scanning == Collecting /\ gc.todo # << >>

Popped == [gc EXCEPT !.todo = Tail(@), !.done = @ \cup {Next1}]

(* evacuate(h): an object moves once, and leaves a hollow that says where. *)
MustMoveAlways(h) == TRUE
MustMove(h) == from_[h].fwd = GC_NULL

HollowWithoutForward(h) == [from_[h] EXCEPT !.values = << >>]
Hollow(h) == [from_[h] EXCEPT !.fwd = Len(to_) + 1, !.values = << >>]

Evacuated(h) == [from_ EXCEPT ![h] = Hollow(h)]

ScanAggregate ==
  LET h == At(Next1).href
  IN  /\ Scanning /\ IsSlot(Next1) /\ IsAggregate(At(Next1))
      /\ LET moved == IF MustMove(h) THEN Append(to_, from_[h]) ELSE to_
             new   == IF MustMove(h) THEN Len(to_) + 1 ELSE from_[h].fwd
         IN  /\ from_' = IF MustMove(h) THEN Evacuated(h) ELSE from_
             /\ to_' = IF Next1[1] = "elem"
                       THEN [moved EXCEPT ![Next1[2]].values[Next1[3]].href = new]
                       ELSE moved
             /\ frames' = IF Next1[1] = "var"
                          THEN [frames EXCEPT ![Next1[2]][Next1[3]].href = new]
                          ELSE frames
             /\ val_' = IF Next1[1] = "val" THEN [val_ EXCEPT !.href = new] ELSE val_
      /\ gc' = Popped
      /\ UNCHANGED <<capacity, env_, active, steps, strayed>>

ScanFunc ==
  /\ Scanning /\ IsSlot(Next1) /\ At(Next1).type = "Func"
  /\ gc' = [Popped EXCEPT !.todo = [i \in DOMAIN At(Next1).env |-> FrameItem(At(Next1).env[i])] \o @]
  /\ UNCHANGED <<from_, to_, capacity, frames, env_, val_, active, steps, strayed>>

ScanNone ==
  /\ Scanning /\ IsSlot(Next1) /\ At(Next1).type = "None"
  /\ gc' = Popped
  /\ UNCHANGED <<from_, to_, capacity, frames, env_, val_, active, steps, strayed>>

ScanFrameAgain ==
  /\ Scanning /\ ~IsSlot(Next1)
  /\ gc' = [gc EXCEPT !.todo = FrameSlots(Next1[2]) \o Tail(@),
                      !.visited = @ \cup {Next1[2]}]
  /\ UNCHANGED <<from_, to_, capacity, frames, env_, val_, active, steps, strayed>>

ScanFrameNever ==
  /\ Scanning /\ ~IsSlot(Next1)
  /\ gc' = [gc EXCEPT !.todo = Tail(@)]
  /\ UNCHANGED <<from_, to_, capacity, frames, env_, val_, active, steps, strayed>>

(* A frame of a closure is scanned when it is met for the first time. *)
ScanFrame ==
  /\ Scanning /\ ~IsSlot(Next1)
  /\ gc' = IF Next1[2] \in gc.visited
           THEN [gc EXCEPT !.todo = Tail(@)]
           ELSE [gc EXCEPT !.todo = FrameSlots(Next1[2]) \o Tail(@),
                           !.visited = @ \cup {Next1[2]}]
  /\ UNCHANGED <<from_, to_, capacity, frames, env_, val_, active, steps, strayed>>

UnscannedButOne == gc.scan < Len(to_)
Unscanned == gc.scan <= Len(to_)

(* scan_obj, the next object of to_. *)
ScanObj ==
  /\ Collecting /\ gc.todo = << >> /\ Unscanned
  /\ gc' = [gc EXCEPT !.scan = @ + 1,
                      !.todo = [k \in DOMAIN to_[gc.scan].values |-> ElemSlot(gc.scan, k)]]
  /\ UNCHANGED <<from_, to_, capacity, frames, env_, val_, active, steps, strayed>>

(* from_ = std::move(to_): from_ takes the buffer that was reserved. *)
Finish ==
  /\ Collecting /\ gc.todo = << >> /\ ~Unscanned
  /\ from_' = to_
  /\ to_' = << >>
  /\ capacity' = gc.reserved
  /\ gc' = [gc EXCEPT !.phase = IF @ = "clear" THEN "ended" ELSE "run",
                      !.visited = {}, !.scan = 1, !.reserved = 0, !.done = {}]
  /\ UNCHANGED <<env_, val_, active, steps, strayed>>
  /\ FramesBecome(frames)

(* The end of Interpreter::run: the frames of env_ are cleared, and a last *)
(* collection without roots empties the heap.                              *)
EndRun ==
  /\ gc.phase = "next"
  /\ StartCollection("clear", << >>, {})
  /\ val_' = None
  /\ env_' = << >>
  /\ UNCHANGED <<from_, to_, capacity, active, steps, strayed>>
  /\ FramesBecome([f \in DOMAIN frames |-> IF f \in Range(env_) THEN NewFrame ELSE frames[f]])

Ended == gc.phase \in {"ended", "undefined"} /\ UNCHANGED vars

(* The program may begin no further statement; a loop whose bodies' frames *)
(* are all captured has none left to use, and one that has lost its own to *)
(* an exit none to put its variable in.                                    *)
BoundReached ==
  /\ Running
  /\ AtStatement => steps = MaxSteps
  /\ Inside("loop") => (MayPush(1) => env_ = << >>)
  /\ UNCHANGED vars

-----------------------------------------------------------------------------
ElementLists == UNION {[1..n -> Range([x \in Variables |-> Variable(x)])] : n \in 0..MaxElements}

Statement ==
  \/ BeginStatement
  \/ EnterBody \/ LeaveBody \/ Iterate \/ LeaveLoop \/ LoopRunsPast
  \/ \E v \in Readable \cup {FuncHere} : OtherStatement(v)
  \/ \E i \in DOMAIN active : ExitLoop(i) \/ ExitCall(i)
  \/ \E x \in Variables : AssignFunc(x)
  \/ \E x \in Variables, n \in Names : EnterLoop(x, n)
  \/ \E x \in Variables, v \in Readable : AssignVariable(x, v)
  \/ \E x \in Variables, v \in Readable, k \in 1..MaxElements : AssignElement(x, k, v)
  \/ \E x \in Variables, kind \in {"Array", "Tuple"}, values \in ElementLists :
        AssignNew(x, kind, values)
  \/ \E x, y \in Variables, n \in Names, v \in Readable : Call(x, y, n, v)
  \/ \E i \in Calls, v \in Readable : Return(i, v)
  \/ EndRun

CollectStep ==
  \/ MaybeGc \/ ScanAggregate \/ ScanFunc \/ ScanNone \/ ScanFrame \/ ScanObj \/ Finish

Next == Statement \/ CollectStep \/ Ended \/ BoundReached

Spec == Init /\ [][Next]_vars

(* The interpreter is one thread: a collection that has begun is not left  *)
(* waiting.  The program need not do anything.                             *)
FairSpec == Spec /\ WF_vars(CollectStep)

-----------------------------------------------------------------------------
(* What the program sees.  During a collection an object goes by the index *)
(* it had in from_, whether it has moved or not and whether the slot that  *)
(* names it has been scanned or not.                                       *)

Origin(h) == CHOOSE i \in DOMAIN from_ : from_[i].fwd = h

Named(slot) ==
  IF slot \in gc.done /\ IsAggregate(At(slot)) THEN [At(slot) EXCEPT !.href = Origin(@)]
                                               ELSE At(slot)

Contents(i) ==
  LET h == from_[i].fwd
  IN  IF h = GC_NULL THEN from_[i].values
      ELSE [k \in DOMAIN to_[h].values |-> Named(ElemSlot(h, k))]

VariablesOf(f) == [n \in Names |-> Named(VarSlot(f, n))]

(* Objects and frames are the nodes of one graph, frame f is node -f. *)
FrameNodes(fs) == {-f : f \in fs}
Nodes(v) == FrameNodes(Range(v.env)) \cup (IF IsAggregate(v) THEN {v.href} ELSE {})
NodesIn(values) == UNION {Nodes(v) : v \in values}

Graph ==
  [i \in DOMAIN from_ \cup FrameNodes(DOMAIN frames) |->
     IF i > 0 THEN NodesIn(Range(Contents(i))) ELSE NodesIn(Range(VariablesOf(-i)))]

(* From the environment, and from what the calls in progress hold in       *)
(* locals.  Bound by \in, the graph is computed once.                      *)
Locals(a) == FrameNodes(HeldBy(a)) \cup (IF a.kind = "loop" THEN Nodes(a.over) ELSE {})
LiveRoots == FrameNodes(Range(env_)) \cup UNION {Locals(a) : a \in Range(active)}
Live == UNION {Closure(graph, LiveRoots) : graph \in {Graph}}

View ==
  LET live == Live
  IN  [objects |-> [i \in live \cap DOMAIN from_ |-> [kind |-> from_[i].kind, values |-> Contents(i)]],
       frames  |-> [f \in DOMAIN frames \cap FrameNodes(live) |-> VariablesOf(f)],
       active  |-> active]

(* The view when every object goes by its new index. *)
Translated(v) == IF IsAggregate(v) THEN [v EXCEPT !.href = from_[@].fwd] ELSE v
TranslatedAll(values) == [k \in DOMAIN values |-> Translated(values[k])]

ViewTranslated ==
  LET old == View
  IN  [objects |-> [h \in {from_[i].fwd : i \in DOMAIN old.objects} \ {GC_NULL} |->
                      [kind |-> to_[h].kind,
                       values |-> TranslatedAll(old.objects[Origin(h)].values)]],
       frames  |-> [f \in DOMAIN old.frames |-> TranslatedAll(old.frames[f])],
       active  |-> [i \in DOMAIN active |->
                      IF active[i].kind = "loop"
                      THEN [active[i] EXCEPT !.over = Translated(@)] ELSE active[i]]]

-----------------------------------------------------------------------------
(* Properties *)

DValues ==
  {val_} \cup (UNION {Range(frames[f]) : f \in DOMAIN frames})
    \cup ValuesOf(from_) \cup ValuesOf(to_)

(* Types; the environment and every closure name frames there are, and     *)
(* outside a collection no value has a handle past the end of from_.       *)
TypeOK ==
  /\ \A obj \in Range(from_) \cup Range(to_) :
        obj.kind \in {"Array", "Tuple"} /\ obj.fwd \in 0..Len(to_)
  /\ \A v \in DValues :
        /\ v.type \in {"None", "Array", "Tuple", "Func"}
        /\ Range(v.env) \subseteq DOMAIN frames
        /\ IsAggregate(v) /\ ~Collecting => v.href \in DOMAIN from_
  /\ Range(env_) \subseteq DOMAIN frames
  /\ Len(from_) <= capacity
  /\ gc.phase \in {"next", "run", "collect", "clear", "ended", "undefined"}

(* collect() meets a value through every root and closure that leads to it,*)
(* but translates its handle once: a second evacuate() would take the new  *)
(* index for an old one, and the value would name another object.          *)
TranslatedOnce == Scanning => Next1 \notin gc.done

(* scan_obj holds references into to_ while evacuate() appends to it: the  *)
(* reserve() of collect() must be enough.                                  *)
ToSpaceNeverGrows == Collecting => Len(to_) <= gc.reserved

(* When the scan is over, to_ holds what can be reached from env_ and from *)
(* what was moved out of val_, each object once, and nothing else.         *)
CopiesAreTheLive ==
  Collecting /\ gc.todo = << >> /\ ~Unscanned =>
    LET kept == {i \in DOMAIN from_ : from_[i].fwd # GC_NULL}
    IN  /\ kept = DOMAIN from_ \cap
                  Closure(Graph, FrameNodes(Range(env_)) \cup Nodes(Named(ValSlot)))
        /\ Cardinality(kept) = Len(to_)

(* However bodies, loops and calls are left (at their end, by exit or by   *)
(* return), a statement of the program starts with the global frame alone, *)
(* as long as no exit has left a call: no frame is lost to the collector,  *)
(* which takes its roots from env_.                                        *)
StatementsStartGlobal == gc.phase = "next" /\ ~strayed => env_ = <<1>>

(* The same of every program, with exits in a function called in a loop.   *)
EveryStatementStartsGlobal == gc.phase = "next" => env_ = <<1>>

(* The program cannot tell that a collection ran: what it can reach, from  *)
(* its environment and from the locals of the calls in progress, stays the *)
(* same graph of objects and frames with the same values in it.            *)
CollectionsAreUnseen ==
  [][ /\ Collecting' /\ env_' = env_ => View' = View
      /\ Collecting /\ ~Collecting' => View' = ViewTranslated ]_vars

(* collect() comes to its end, whatever closures capture each other.       *)
CollectionEnds == Collecting ~> ~Collecting

(* A loop over an aggregate ends with its last element, whatever its body  *)
(* allocates.                                                              *)
LoopsMeetTheirEnd == gc.phase # "undefined"
-----------------------------------------------------------------------------
(* What every state satisfies: the invariant from which the properties     *)
(* above are proved.                                                       *)

FrameNumbers == 1..MaxFrames

Items ==
  {ValSlot} \cup ({"var"} \X FrameNumbers \X Names)
    \cup ({"elem"} \X Nat \X Nat) \cup ({"frame"} \X FrameNumbers \X {""})

Control ==
  [phase : {"next", "run", "collect", "clear", "ended", "undefined"},
   todo : Seq(Items), visited : SUBSET FrameNumbers, scan : Nat \ {0},
   reserved : Nat, done : SUBSET Items]

(* Values whose handles are in hs and whose captured frames are in fs, and *)
(* the objects, frames and activations that hold such values.              *)
DValuesOver(hs, fs) ==
       [type : {"None"}, href : {GC_NULL}, env : {<< >>}, inLoop : {FALSE}]
  \cup [type : {"Array", "Tuple"}, href : hs, env : {<< >>}, inLoop : {FALSE}]
  \cup [type : {"Func"}, href : {GC_NULL}, env : Seq(fs), inLoop : BOOLEAN]

ObjectsOver(fwds, values) ==
  [kind : {"Array", "Tuple"}, fwd : fwds, values : Seq(values)]

FramesOver(fs, values) == [fs -> [Names -> values]]

ActivationsOver(hs, fs) ==
       [kind : {"body"}]
  \cup [kind : {"loop"}, iter : Names, at : Nat \ {0}, moved : BOOLEAN,
        over : {v \in DValuesOver(hs, fs) : IsAggregate(v)}]
  \cup {a \in [kind : {"call"}, saved : Seq(fs), target : fs \X Names, inLoop : BOOLEAN] :
          a.target[1] \in Range(a.saved)}

(* Between collections every handle names an object, every environment and *)
(* closure frames there are, and nothing of a collection is left.          *)
QuietInv ==
  LET values == DValuesOver(DOMAIN from_, DOMAIN frames)
  IN  /\ from_ \in Seq(ObjectsOver({GC_NULL}, values))
      /\ frames \in FramesOver(DOMAIN frames, values)
      /\ val_ \in values
      /\ active \in Seq(ActivationsOver(DOMAIN from_, DOMAIN frames))
      /\ to_ = << >>
      /\ gc.todo = << >> /\ gc.done = {} /\ gc.visited = {} /\ gc.scan = 1

(* As long as no exit has left a call, after the first n activations of    *)
(* acts, environment e has one frame for each activation since the last    *)
(* call, on what the call has put there, or on the global frame.           *)
CallsIn(acts, n) == {c \in 1..n : acts[c].kind = "call"}

EnvFits(acts, e, n) ==
  IF CallsIn(acts, n) = {}
  THEN Len(e) = n + 1 /\ e[1] = 1
  ELSE \E c \in CallsIn(acts, n) : (\A d \in CallsIn(acts, n) : d <= c) /\ Len(e) > n - c

EnvInv ==
  /\ ~strayed =>
        /\ gc.phase \in {"next", "run", "collect"} => EnvFits(active, env_, Len(active))
        /\ \A c \in Calls : EnvFits(active, active[c].saved, c - 1)
  /\ gc.phase = "next" => active = << >>
  /\ gc.phase = "clear" => env_ = << >>

(* The places of the heap where values are, during a collection. *)
Slots ==
  {ValSlot} \cup {VarSlot(f, n) : f \in DOMAIN frames, n \in Names}
    \cup UNION {{ElemSlot(h, k) : k \in DOMAIN to_[h].values} : h \in DOMAIN to_}

(* Every object has at most one copy, and is hollow when it has one; every *)
(* copy is the copy of an object.                                          *)
MovesInv ==
  /\ \A i \in DOMAIN from_ : LET h == from_[i].fwd IN
        h # GC_NULL => h \in DOMAIN to_ /\ from_[i].values = << >> /\ to_[h].kind = from_[i].kind
  /\ \A i, j \in DOMAIN from_ : from_[i].fwd = from_[j].fwd /\ from_[i].fwd # GC_NULL => i = j
  /\ \A h \in DOMAIN to_ : \E i \in DOMAIN from_ : from_[i].fwd = h

(* What is left to scan: slots that have not been scanned, each once, and  *)
(* frames of closures.                                                     *)
TodoInv ==
  /\ \A p \in DOMAIN gc.todo :
        LET item == gc.todo[p]
        IN  IF IsSlot(item) THEN item \in Slots \ gc.done
                            ELSE \E f \in DOMAIN frames : item = FrameItem(f)
  /\ \A p, q \in DOMAIN gc.todo : gc.todo[p] = gc.todo[q] /\ IsSlot(gc.todo[p]) => p = q
  /\ gc.done \subseteq Slots

(* What has been met: the variables of the frames visited, the elements of *)
(* the copies scanned, and val_ unless the program has ended.  The frames  *)
(* of a closure that has been scanned are visited, or will be.             *)
Met == gc.done \cup Range(gc.todo)

MetInv ==
  /\ IF gc.phase = "clear" THEN val_ = None ELSE ValSlot \in Met
  /\ \A f \in DOMAIN frames, n \in Names : VarSlot(f, n) \in Met <=> f \in gc.visited
  /\ \A h \in DOMAIN to_ : \A k \in DOMAIN to_[h].values : ElemSlot(h, k) \in Met <=> h < gc.scan
  /\ Range(env_) \subseteq gc.visited /\ gc.visited \subseteq DOMAIN frames
  /\ \A s \in gc.done : \A f \in Range(At(s).env) : f \in gc.visited \/ FrameItem(f) \in Met

CollectInv ==
  /\ from_ \in Seq(ObjectsOver(Nat, DValuesOver(DOMAIN from_, DOMAIN frames)))
  /\ to_ \in Seq(ObjectsOver({GC_NULL}, DValuesOver(Nat, DOMAIN frames)))
  /\ frames \in FramesOver(DOMAIN frames, DValuesOver(Nat, DOMAIN frames))
  /\ val_ \in DValuesOver(Nat, DOMAIN frames)
  /\ \A s \in Slots : IsAggregate(At(s)) =>
        At(s).href \in IF s \in gc.done THEN DOMAIN to_ ELSE DOMAIN from_
  /\ active = << >>
  /\ gc.reserved = Len(from_)
  /\ gc.scan \in 1..Len(to_) + 1
  /\ MovesInv
  /\ TodoInv
  /\ MetInv

MemoryInv ==
  /\ gc \in Control
  /\ strayed \in BOOLEAN
  /\ DOMAIN frames \subseteq FrameNumbers
  /\ env_ \in Seq(DOMAIN frames)
  /\ capacity \in Nat /\ Len(from_) <= capacity
  /\ IF Collecting THEN CollectInv ELSE QuietInv
  /\ EnvInv

(* Only what the roots of the collection reach has been met: what was      *)
(* moved, the frames visited, and the frames that are left to scan.        *)
Reached == Closure(Graph, FrameNodes(Range(env_)) \cup Nodes(Named(ValSlot)))

ReachedInv ==
  Collecting =>
    /\ \A i \in DOMAIN from_ : from_[i].fwd # GC_NULL => i \in Reached
    /\ FrameNodes(gc.visited) \subseteq Reached
    /\ \A f \in DOMAIN frames : FrameItem(f) \in Range(gc.todo) => -f \in Reached
=============================================================================
