# A verification project for the D compiler

The repository is a compiler and two interpreters for the toy language D
(docs/Project_D_FULL.md): a lexer and a Bison parser build a syntax tree, a
semantic analyser resolves names, and then either a tree-walking interpreter
(`dinterp`) runs the tree, or a compiler turns it into bytecode that a stack
machine with a copying garbage collector runs (`dbci`).  Everything is
sequential; what is hard is in the protocols between the parts: who holds which
pointer while the collector moves objects, what is on the operand stack at each
instruction, which variable a name means in two quite different environments.

Paths below are relative to the repository's `src/` unless they start with
`docs/` or `test/`.

## 1. Inventory

| Part | Files | State it keeps | Operations |
|---|---|---|---|
| Copying collector of the stack machine | gc_heap.hpp | two semispaces with bump pointers, the objects with their `fwd` words, `roots` (addresses of slots), the cached `none` | allocate, make_*, replace_array_data, collect, evacuate, process_ref |
| Stack machine | sm_interpreter.cpp, sm_runtime.* | stack of frames (locals, arguments, captures, operands), `bc_index`, the heap | one per bytecode instruction; resolve_ref, change_ref, concat, print |
| Bytecode compiler | bc_compiler.*, bytecode.* | telescope of functions with their scopes, code buffer, labels, exit labels, tables of functions, tuples and strings | one visitor per node; capture, resolve_labels |
| Syntax tree | ast.*, ast_visitor.hpp | the tree | constructors, visiting |
| Semantic analyser | semantic_analyzer.* | scopes, loop depth, function depth, errors | one visitor per node; declare, resolve |
| Tree interpreter | interpreter.* | environment of shared frames, `val_`, exceptions under way | one visitor per node; call_func, assign_lvalue |
| Copying collector of the tree interpreter | gc.cpp | two vectors of objects named by index, `fwd` | alloc, collect, evacuate, scan_value, scan_obj |
| Lexer | lexer.* | the stream, line and column, the table `_line_size`, where the token began | next, getch, ungetch |
| Parser | parser.y | generated | - |
| Drivers and dumps | dbci.cpp, dinterp.cpp, dbc.cpp, dparser.cpp, dlexer.cpp, print_visitor.*, token_dump.cpp | - | read, run the stages, print |
| Old runtime | runtime.* | - | in no target of CMakeLists.txt |

How they interact.  The analyser stores in every name the number of scopes up to
its declaration; the tree interpreter walks that many frames of its environment,
so it must push a frame wherever the analyser pushed a scope.  The compiler does
its own resolution, and captures a variable in every function between its
declaration and its use.  The compiler owes the machine balanced code: every
instruction reached with one height of the operand stack.  The machine keeps
`Heap::roots` in step with its frames by counting: constructors and pushes append,
pops and destructors remove as many from the back, and nothing records whose
entry is whose.  The collector relies on `roots` to list every pointer that is
used again, and the machine relies on the collector to move all of them.
The tree interpreter has no such list: its collector starts from the environment
and the last value, follows closures into the frames they share with the
environment, and is called only before a statement of the program, where no C++
local holds a handle.  The parser asks the lexer for one token at a time and for
the place of each.

What makes each part correct, and hard:

- *Collector*: a collection keeps what is reachable, once each, with sharing and
  cycles; no pointer is left at an old address; copying never runs out of room; it
  ends, also on rings.  It may strike at any allocation.
- *Machine*: `roots` lists the slots of the living frames in order and no other;
  no instruction pops what is not there; nothing holds a pointer in a C++ local
  across an allocation and uses it afterwards.
- *Compiler*: every construct leaves the stack as it found it, in every nesting;
  a name means the same variable as in the tree interpreter, through captures,
  shadowing and recursion; jumps go where the source says.
- *Collector of the tree interpreter*: frames are shared, so a value can be met along
  many paths and its handle may be translated once only; closures and the frames that
  hold them form rings; statements are left by exceptions, and a frame that
  stays on the environment stays a root.
- *Lexer*: up to two characters are put back, newlines and the end of the file among
  them, and line and column must follow; every text has one division into tokens.
- *The two interpreters*: test/suite/ keeps one expected output per program, to which
  test/dbci_suite_test.cpp:57 holds the machine and test/interp_suite_test.cpp:50 the tree
  interpreter (CMakeLists.txt:130 has the add_test of the latter commented out).

PROJECT.json lists, under "hazards", where these can go wrong, by line.

## 2. Modules

| Module | Models | Proved about |
|---|---|---|
| ObjectGraph | graphs of objects, reachability | |
| ObjectStore | abstract: what a heap promises, without a collector | |
| SmHeap | `struct Heap`, one slot per step of collect() | yes |
| SmHeapRefinement | the mapping from SmHeap to ObjectStore | yes |
| SmHeapProofs, SmHeapCopyProofs, SmHeapSpaceProofs | the proofs about SmHeap | |
| SmHeapRefinementProofs | the proof that SmHeap implements ObjectStore | |
| Bytecode | instruction format, operands taken and left, successors | |
| SmMachine | interprete() and the frames, one instruction per step | yes |
| StackDiscipline | abstract: what the compiler owes the machine | yes |
| StackDisciplineProofs | the proofs about the frames and the roots of SmMachine running verified files | |
| SmMachineProofs | the proofs about its pointers and references | |
| Syntax | the node classes | |
| BcCompiler | the compiler, as a function from trees to files | |
| SemanticAnalyzer | the analyser, as a function from trees to annotated trees | |
| TreeInterpreter | `dinterp`, as a function from trees to outcomes | |
| InterpHeap | the memory of `dinterp`: gc.cpp and what the interpreter allocates, holds and moves | yes |
| InterpHeapProofs | the proofs about InterpHeap | |
| Lexer | Lexer::next, one turn of a loop per step | yes |
| LexerProofs | the proofs about Lexer | |
| MCSmHeap, MCSmMachine, MCInterpHeap, MCLexer | instances for TLC; the programs, and properties that involve several parts | |

### The heap

`mem` maps the address of an object's first word to the object; memory is counted
in 8-byte words and sizes are those of the C++ structs, so that "does it fit" is
the code's question.  `from_space` and `to_space` are the SemiSpace records,
`roots` holds what the listed slots point at, and `gc` is the program counter of
collect(): the root or field that process_ref takes next, the object under
`scanned`, the allocation that waits (`wanted`), and whether collect() has been
entered again from its own call of allocate() (`nested`).  One action is one slot:
ProcessRoot and ScanField are process_ref with evacuate in it; Finish is the swap,
the reset and the new none; FinishCollectsAgain is the same end when the none does
not fit.  Payloads are dropped.

The program that runs on the heap is arbitrary under one condition, the one the
heap puts on its callers and cannot check: what it will use again is in a root
while an allocation collects.  In SmHeap, therefore, allocations of pointerless
objects may collect, and allocations that are handed pointers are made where they
fit.  Whether the machine keeps the condition is the question of SmMachine (run
machine_held: it does not).

### The machine and its compiler

In SmMachine the heap is the store that SmHeap implements: objects keep their
names.  What a collection does to the machine is chosen at every allocation: an
instruction that allocates n times has the choice of which of them collects
last (the none that the heap keeps is no allocation: BC_NONE makes no object, and CALLC
makes one reference for each local and argument); pointers that C++ locals hold at that moment become `Stale`; and a
collection while `roots` disagrees with the frames is undefined behaviour
(status "undefined").  With CollectWhileHeld = FALSE collections strike only
where no local holds a pointer.  pop() of an empty operand stack is undefined and
has no step: the deadlock check finds it.  Exceptions lead to "error".  `base` in a
frame is a ghost, read by properties only.  One action per instruction, and one
for its exception; FallsOffTheEnd is one turn of the loop that follows the switch.

A variable is a reference, and an operand may be one too: resolve_ref and
change_ref follow chains of them, and are recursive functions on the heap
(ResolveRef, LastRef).  The keys of an array are integers, ordered as the code's
size_t orders them (Below: a negative index is above all others).  concat may leave keys
out of order and a key twice; the search then finds the first (PositionOf), and
lower_bound, which is undefined there, one of the places a binary search can
end at (Places).

A loop of `dinterp` over an array is an iterator into the object's map and the end() that
the map had when the loop began (IterateArray).  Objects are never collected in TreeInterpreter,
but `from_` moves when it grows (Room), and a loop that comes to the end of a map
that has moved is undefined: its program has the status "undefined", and no output to
compare with.

BcCompiler, SemanticAnalyzer and TreeInterpreter are pure: the C++ objects' members
are the fields of a record that the visitors thread.  The error that stops
compile() (`map::at` on a label that is not there) or that makes it undefined
(`back()` of an empty vector) is a field too.  They are recursive, so nothing
is proved about them; SmMachine and StackDiscipline reach no recursive operator.

### The memory of the tree interpreter

InterpHeap is the other half of TreeInterpreter, which has values but no heap.
`from_`, `to_` and `capacity` are the two vectors and the size of the buffer of the
first; `frames` are the frames that a shared_ptr holds (FramesBecome drops the
others), `env_` and `val_` the interpreter's members; `active` is the C++ stack:
the bodies, loops and calls in progress with what their locals hold.  `gc` is the
program counter: "next" before a statement of the program, where maybe_gc() may run,
"run" in a statement, "collect" in collect(), whose recursion over values and frames is
the stack `todo`.

The program is any sequence of assignments, literals, closures, expressions, element stores,
bodies, loops, calls, returns and exits; the trees are TreeInterpreter's
business.  The value of an expression, or of a call, that is a statement stays in `val_`, and
is a root of the next collection with all its closure holds (OtherStatement, Return).  The guards
of ~StackGuard and ~EnvGuard are in the actions that leave:
ExitLoop and Return take off in one step what an exception unwinds.

An exit is accepted by the analyser wherever its loop depth is not 0, and a function's
literal does not reset the depth: `inLoop` in a closure says that its literal stands in a loop.
ExitLoop leaves a loop of the same function.  ExitCall leaves the call, and with it a loop that
the call was made in; call_func does not restore `env_` for it, so the guards outside pop
frames of the callee's environment.  What the program has from then on is any environment,
of several frames or of none; `strayed` is a history variable that says so, read by properties only
(StatementsStartGlobal is about programs before that, the run interp_exit after).
EndRun is the last collection of run(), without roots (phase "clear").

A loop
over an aggregate holds an iterator into an object of `from_`; when that vector grows
(Full), the map of an array moves away from the end() that the loop compares with
(Reallocated), and a loop that then comes to its end goes on past it
(LoopRunsPast, phase "undefined").  BoundReached is no step of the program: no statement
is left to begin, the bound on frames keeps a loop from entering its body again, or
a loop has lost its own frame to an exit and has none to put its variable in.

### The lexer

`cursor` is the stream's position with _end_location and _line_size; `past` counts
the reads at the end of the file that were not put back, `ok` collects the asserts
and the condition of putback().  `pc` says which loop of next() is running, `c` is
the character it stopped at.  An action is one turn of a loop with its reads and
what it puts back: Read1 and Read2 are the cursor after one and two reads, Peeked1
and Peeked2 after the last of them has been put back.  The second half of the module says
what the tokens of a text are, without reading it character by character.
A character stands for its class.  The model's stream always takes a character
back, as a string stream and a file with its buffer do.

## 3. Runs

| Run | Checks | Bounds |
|---|---|---|
| heap_graph | TypeOK, HeapInv (the inductive invariant), NoDangling, EvacuationFits, CopiesAreExactlyTheLive, NestedNeverFinishes, ImplementsObjectStore, CollectionEnds, and the invariants the proofs need besides: CopiesInv, CellsInv, NestedInv | 13 words a space, 3 roots, Int, Ref, Tuple and Func of up to 2 fields |
| heap_arrays | WellTyped, RefChainsEnd, ImplementsObjectStore | 18 words, Ref and Array of up to 1 element |
| heap_full | AllocationEnds, *violated* | 11 words |
| machine_programs | TypeOK, RootsAreTheSlots, CompiledCodeIsVerified, OperandsAsCompiled, SameOutput, ReferencesEnd, AssignmentsReachAliases, ObjectsStay, no deadlock | 4509 programs, below |
| machine_held | NoStalePointer, *violated* | 2 programs |
| machine_return | ReturnIsDefined, *violated* | 2 programs |
| machine_exit | ExitLeavesItsLoop, *violated* | 6 programs |
| machine_aggregates | LoopsVisitTheElements, *violated* | 2 programs |
| interp_heap | TypeOK, TranslatedOnce, ToSpaceNeverGrows, CopiesAreTheLive, StatementsStartGlobal, MemoryInv and ReachedInv (the inductive invariants), CollectionsAreUnseen, CollectionEnds | 2 names, collections from 1 object on, 2 objects of 1 element, 4 frames, 3 activations, 4 steps |
| interp_iterate | LoopsMeetTheirEnd, *violated* | 1 name, collections from 2 objects on, 3 objects of 1 element, 3 frames, 2 activations, 4 steps |
| interp_exit | EveryStatementStartsGlobal, *violated* | 1 name, collections from 2 objects on, 2 objects of 1 element, 4 frames, 3 activations, 4 steps |
| lexer | TypeOK, AssertionsHold, LocationsAreThoseOfTheText, TokensAreThoseOfTheText, CommentsAreSkipped, LexingEnds | texts of up to 5 characters of 9 kinds and of up to 3 of 14 |

**Heap bounds.**  13 words hold the heap's none (2) and, for example, a tuple of two
(7) and an integer (3): enough for sharing, for a reference that
closes a ring through a tuple or a closure, for garbage between live objects, for
a space exactly full, and for survivors that leave no room for a none.
18 words hold an array, its vector, the vector that replaces it and a
reference.  Three roots are the none and two slots that share an object.
MaxRoots and MaxElements bound the program that uses the heap, not the heap;
TLC explores every sequence of operations within them.

**Bounds of the tree interpreter's heap.**  Two objects make a ring, an
object shared by two variables or held by itself, and garbage before a live
object, whose index then changes; four frames and three activations make a closure
over a frame that a call has left, frames that capture each other, and a call or
a loop inside a body; two names make a variable met before and after the one that
holds the same object.  Four steps reach all of these and a collection after each,
and a second collection on what the first one moved.  An exit out of a call takes a loop, a closure
made in it and called in it, and the exit in the closure's body: three activations,
four frames and three steps, so that an object can still be made in what is left, and a
collection follow.

**Bounds of the lexer.**  Five characters hold every pair of tokens with something
between them, a newline put back after each kind of token, `1..1` and `1.1.1`, a
string with an escaped quote, and a comment between two lines.  The nine kinds are those that the loops
of next() tell apart; the other five, other operators and white space, behave like one
of these and are in the shorter texts.

**Programs.**  machine_programs takes five families of programs, each a function from the
digits of a number to a program (MCSmMachine):
*Flow*, two control statements nested in every way around three bodies (192);
*Calls*, a function of two statements out of seven (returns from loops that keep
nothing on the stack, recursion, closures over a parameter and a global) used twice in eight ways (1568);
*Operators*, thirteen operators on thirteen values of every type, both ways (2197);
*Arrays*, two operations out of 22 on arrays and tuples that share elements
(484), and two programs on an array with a negative index;
*Order*, two operands out of four, one of which is a call that assigns what others read, taken in
four ways: by an operator, print, an array literal and a call (64);
and two programs with a variable declared without a value in a loop.  Two statements are enough for a statement to find the stack,
the scopes or the heap as another left them, which is where the hazards are.
MaxOut bounds what a program prints (20 lines; none prints that many), and no
program loops for ever, so every behaviour ends in "finished" or "error".

**Fairness.**  FairSpec has WF(Collector): collect() is a call in a
single-threaded program, it runs until it returns.  Nothing is assumed of
the program.  CollectionEnds is stated for collections whose live objects leave
room for a none; without that premise the code does not have it (heap_full).
InterpHeap's FairSpec has WF(CollectStep) for the same reason, with no premise.
Lexer's FairSpec has WF(Step): the parser asks for tokens until it is given YYEOF,
as dump_tokens does, and next() waits for nothing but the stream.
The machine runs need no fairness: they check safety and deadlock.

**SameOutput** is checked for every program that `dinterp` runs to its end with every step
defined (three of *Flow*, nested loops over array literals whose body
makes `from_` move, have no defined end), but for these, on which the two interpreters are known to differ: for ranges that descend
(the machine counts down, the tree interpreter does nothing), calls with missing arguments (none,
against an exception), equality between types and of None, Bool, Func and
aggregates, division (towards zero, against rounding down as docs/Project_D_FULL.md:415
has it), concatenation of tuples with a name in common, loops over tuples,
ranges over other things than integers, negative indices (last in the machine's order,
first in the tree interpreter's), and assignment to an element that an array shares
with the concatenation it was added to (`a + a` holds each element's reference twice
in the machine, copies of the values in the tree interpreter), `t.0`, which in the machine
is the field named by string number 0 of the file, and operands that a later operand
assigns, which the machine reads when the operator is executed (`x + f(1)` with an f that assigns x: a
reference is on its stack, a value in the tree interpreter), with the calls in a print, which the machine
makes from the last, and variables declared without a value in a loop, which in the machine
keep what the iteration before has left (bc_compiler.cpp:94; docs/Project_D_FULL.md:73 has none).  MCSmMachine's
FlowAgreed, CallAgreed, OperatorAgreed, ArrayAgreed and OrderAgreed are these exceptions; the
programs still run, and all other properties are checked on them.

## 4. Findings

1. **AllocationEnds** (gc_heap.hpp:294).  collect() ends with `none = make_none()`,
   which calls collect() when the survivors leave no two words: the same
   survivors, the same call, until the C++ stack is used up.  NestedNeverFinishes is
   the invariant that says so in general.
2. **NoStalePointer** (sm_interpreter.cpp:514 and others).  Instructions that
   allocate several objects keep pointers in locals between them; the run's program loses the
   argument of a call when the reference for a local collects.
3. **ReturnIsDefined** (sm_interpreter.cpp:408).  A return from inside a for loop
   leaves the loop's operand behind; ~Frame removes too few roots; the
   next collection follows a pointer into a destroyed frame.
4. **ExitLeavesItsLoop** (bc_compiler.cpp:421).  exit in a while or a for loop has no
   label of its own.
5. **LoopsVisitTheElements** (bc_compiler.cpp:369).  A loop over a tuple throws; over
   an array with gaps it inserts the elements it misses.  (If an index is below 1, the length
   grows with each element missed and the loop never ends.  No finite instance shows that,
   and no run has such a loop.)
6. **LoopsMeetTheirEnd** (interpreter.cpp:252).  The body of a loop over an array makes
   objects; when `from_` has to grow, its maps move, and the loop's iterator never meets the
   end() taken before.
7. **EveryStatementStartsGlobal** (interpreter.cpp:360).  exit in a function whose literal stands
   in a loop is accepted; when the function is called in another loop, the exit leaves
   the call without restoring `env_`, and the program goes on in what is left of the callee's
   environment.

Programs with the constructs of 3 to 5 are left out of machine_programs and
have runs of their own, so that the passing run says that nothing else goes wrong.
After 7, StatementsStartGlobal speaks of programs in which no exit has left a call.

The lexer departs from the document in two ways, which have no run of their own.
docs/Project_D_FULL.md:287 has a real as two sequences of digits separated by a dot; next() takes every dot
that no other follows, and `1.` and `1.1.1` are each one real (lexer.cpp:188).
docs/Project_D_FULL.md:291 has a string enclosed in quotes; next() lets the end of the file close it
(lexer.cpp:212).  TokensAreThoseOfTheText takes these forms as the code does (StrayDot, Unclosed),
and says that every other literal is in its documented form (InKnownForm).

## 5. Proofs

**The heap.**  SmHeapProofs and the three modules on top of it prove, for every
SpaceWords, MaxRoots, MaxElements and every choice of types, from the three
assumptions of SmHeap (a semispace holds at least a none; types are among those
modelled; an object may have one field, as a reference has, and the program one root):

| Theorem | Spec => | Module |
|---|---|---|
| HeapInvariant | [](HeapInv /\ WaitingInv) | SmHeapProofs |
| TypeCorrect, NothingDangles | []TypeOK, []NoDangling | SmHeapProofs |
| CopiesInvariant, CollectionIsExact | [](CopiesInv /\ LiveInv), []CopiesAreExactlyTheLive | SmHeapCopyProofs |
| CastsAreSafe, ReferenceChainsEnd | []WellTyped, []RefChainsEnd | SmHeapCopyProofs |
| CellsInvariant, EvacuationAlwaysFits | []CellsInv, []EvacuationFits | SmHeapSpaceProofs |
| NestedInvariant, NestedCollectionIsStuck | []NestedInv, []NestedNeverFinishes | SmHeapSpaceProofs |
| HeapImplementsStore | ImplementsObjectStore | SmHeapRefinementProofs |

NoDangling is not inductive: during a collection half of the pointers have moved.
HeapInv adds what it takes.  SpacesInv says that the semispaces are the two halves
and that to_space is empty outside a collection; so an address is in one space or
the other and a swap loses nothing.  LayoutInv says that objects of to_space lie
end to end, so that `scanned` goes from object to object and never lands inside
one.  FromInv says that an object of from_space keeps its old fields, and that its
`fwd` is null or leads to a copy: this is why Forward gives a to_space address.
SlotsInv says which slots have been dealt with: those before `next` and `scanned`
point into to_space, the others still into from_space.  When the scan
ends there are none of the others, and the swap makes to_space the space
all pointers point into.  The proof has one lemma per action over the
invariant, with lemmas for Place, process_ref and the sizes of objects.

CopiesAreExactlyTheLive speaks of the end of a collection.  What holds while it runs is
CopiesInv: to_space holds one copy of each object that has a forwarding pointer and
nothing else, and a field of a copy leads to the copy of what the original's field
leads to if process_ref has been there, to the same object if not.  LiveInv says that
only what the roots reached has been copied.  Reachable is what lies in every set
that holds the roots and is closed under fields, so no induction over paths is needed: at the end of the scan
the copied objects hold the roots and are closed under the fields, hence hold all that is
reachable; conversely a copying step only ever takes an object that a reachable one points at.

EvacuationFits would be a sum over the objects to come.  CellsInv avoids the sum: Cells(A) is the
set of words the objects of A occupy, and the words of from_space are partitioned among its objects, so
that the sizes of the copied objects add up as the cardinality of a union of intervals.  The
copies take as many words as the copied; an object not yet copied lies beside the copied ones in
from_space; so it fits in to_space beside the copies.  NestedInv follows from
CopiesAreExactlyTheLive at the moment a collection ends by starting another: the survivors are all live.
Copied again they take up the same room (CellsInv), in which there was none for a none.

WellTyped is not inductive by itself, because the program could take a vector out of a root; no root
points at one (TypedInv).  RefChainsEnd needs no strengthening but TypedInv.
It is stated as: every set of references that is not empty has one that points out of the set.
A ring in the new state would be a set without; as change_ref points the last reference of a chain at
what is no reference, and a collection maps such a set to one of the old state, there is none.

HeapImplementsStore takes the refinement step by step: outside a collection an
object goes by its address, and each operation of the program is the store's operation of that name
(New, NewArray, Push, Pop, Write, Insert); the lemma NextObjs reduces each case to what the
objects still reachable look like.  A collection is a run of stuttering steps: an object whose slot has
been forwarded goes by the original's name, which CopiesInv makes unique (CopyingIsUnseen).  Finish
and FinishCollectsAgain are one Rename (SwapIsRenaming): new names are forwarding pointers, which are injective, and
everything reachable has one.  NoneInv says that the heap's own none, which has no name, is never confused with an object.

**The machine.**  StackDisciplineProofs proves, for all Files that are Verified (the assumption
FilesVerified), with and without CollectWhileHeld, and for every MaxOut:

- `RootsFollowFrames`: Spec => []RootsAreTheSlots;
- `HeightsAreFollowed`: every frame holds as many operands as its code's heights say;
- `NoPopUnderflows`: no pop meets an empty operand stack, a `RET` finds one operand
  and a function that ends without one finds none.

Nothing is assumed about which values the program computes, so the theorems cover
every path through every verified program, of any depth of calls.  Verified asks for
well-formed immediates (WellFormed) and one height per instruction; the run
machine_programs checks that the compiler delivers both, program by program
(CompiledCodeIsVerified), and finding 3 is a program for which it does not:
its RET is at height 2, and the frame's destructor then removes the wrong roots.

RootsAreTheSlots is not inductive, because a return removes as many roots as the
frame has variables and its pops have removed as many as it had operands; whether
that is all of them depends on the code.  IInv adds three things.  Tiled, in
InStep, is RootsAreTheSlots with the order of the frames' parts of `roots`; three lemmas
take the top frame off, put one on, and change what is above or below.  Followed says
where every frame is in its code and that it has the operands that the heights
give there, one fewer while it waits for a result.  ObjectsOK
says that a Func object is a function of the file, which CALLC needs to build its frame;
so each action is also shown to keep the heap well formed.  There is one lemma per action, the
advancing ones by AdvanceStep; CALLC and the returns, where the frames change,
compose the lemmas about Tiled and Followed.

SmMachineProofs goes on from there to the heap the machine works on, for all verified Files
and every MaxOut, as long as collections strike where no C++ local alone holds a pointer
(the hypothesis ~CollectWhileHeld; without it NoStalePointer is finding 2 and all the rest is lost with it):

| Theorem | Spec => |
|---|---|
| MachineTypesHold | []TypeOK |
| ChainsOfReferencesEnd | []ReferencesEnd |
| AliasesSeeAssignments | AssignmentsReachAliases |
| ObjectsKeepTheirData | ObjectsStay |

The invariant is TInv.  HeapTyped says of each object what its type promises: a
reference is to a value or to an *older* reference, elements and captures are references,
a function has as many captures as its scheme.  FramesTyped says the same of what frames hold; it needs WellFormed
to say that every location is of a variable that the frame has, because operator[] does
not look, and IInv, so that an instruction finds the operands it pops.  Of what type an operand is
nothing is known: it is the instruction's test that says so (Operands).

Resolving a reference is recursion over data, of which no induction theorem can be
instantiated.  It is not needed.  Chain(x) is what every closed set that holds x has in
common; references in it get older, so that its least element (LeastOne) is the end of
the chain.  A function that follows chains to their ends
exists (ChainsHaveEnds) and is the only one (ChainsEnd): ResolveRef and LastRef are that function
(ResolveRefIs), and all that is used of them is that they lead to an end, and that
one step along a chain does not change which.

An instruction keeps TInv in one of three ways (StepTyped).  It adds objects and changes none; or
it rewrites one array (WrittenData, InsertStep, ReplaceStep); or it assigns, which writes to
the last reference of a chain (AssignedTo).  In the first two all chains stay (KeptEnds).  In the third the chains through
that reference end at the value assigned, and no other chain changes (ChangedEnds): this is
AssignmentsReachAliases, and as the value is none of the references, ReferencesEnd with it.
The older-than order is what the code never says: it holds because only a new reference is ever pointed at a
reference, and change_ref only writes values.

**The lexer.**  LexerProofs proves, for every set of texts and every set of keywords (the one
assumption, TextsAssumption, says that texts are made of characters):

- `LexerTypes`: Spec => []TypeOK;
- `NoAssertFails`: Spec => []AssertionsHold;
- `LocationsAreExact`: Spec => []LocationsAreThoseOfTheText;
- `OperatorsAreNoComments`: Spec => []CommentsAreSkipped;
- `TokensAreExact`: Spec => []TokensAreThoseOfTheText, the division of the text as the code
  makes it, laxer than the document for reals and strings (StrayDot, Unclosed).

Whether the line and column are right after a newline has been put back depends on what _line_size
holds, so LocationsAreThoseOfTheText is not inductive.  CursorOK adds TableOK: no entry is
larger than the column its line ends at, the entry of every line left behind is that
column, and the entry of the current line is at least the column reached.  An
empty line is the exception: a line met for the first time gets 1, but one that is read again keeps
what it has, and the column that next_line() sets is not entered; so the newline of an empty line must
never be put back.  PhaseOK shows that it never is: outside strings, whatever next() puts
back comes after a character of the same line.  PhaseOK also knows, in a string,
how many backslashes have just been read (StringOK), which decides whether the
string is closed when the file ends.  GetchKeeps and UngetchKeeps are the two lemmas on
cursors; then there is one lemma per kind of token, and FirstRead, SecondRead,
FirstPutBack, SecondPutBack and BothPutBack are all they use of the cursor.

TokensAreThoseOfTheText speaks of the tokens that were returned, so DivisionInv adds what must
be known while one is in work: ProgressOK, that no place passed is one where the token
ends (so the place where next() stops is the first), that a number is a real just
if it has a dot, and that an operator's first character starts nothing else; and GapOK, that only
white space and comments lie between the last token and this one.  The one place where more is
needed is the quote that closes a string: EvenIsNotEscaped shows that an even number of
backslashes before it, which StringOK counts, excludes the odd number that Escaped asks for.

**The memory of the tree interpreter.**  InterpHeapProofs proves, for every set of names,
every threshold and all bounds, from HeapAssumption (these are numbers, one frame at least may
exist, and there are finitely many names):

- `MemoryInvariant`: Spec => []MemoryInv;
- `TypeCorrect`: Spec => []TypeOK;
- `HandlesTranslatedOnce`: Spec => []TranslatedOnce;
- `ReserveIsEnough`: Spec => []ToSpaceNeverGrows;
- `ProgramFindsGlobalFrame`: Spec => []StatementsStartGlobal, for as long as no exit has left a call
  (afterwards it is false: finding 7);
- `OnlyReachedIsMet`: Spec => []ReachedInv;
- `CollectionKeepsTheLive`: Spec => []CopiesAreTheLive;
- `CollectionsUnseen`: Spec => CollectionsAreUnseen.

MemoryInv is one invariant for two regimes.  Outside a collection, QuietInv says that everything
the program can read (variables, elements, val_, what calls and loops hold in locals) names objects of
`from_` and frames that are still there.  The frames are the difficulty: FramesBecome drops those that nothing holds,
at any statement, and a dropped frame must not be named by a kept one; KeptFrames and KeptValues
show that what Closure keeps is closed.  EnvInv gives the length of `env_`
and of every saved environment, as long as no exit has left a call: one frame for each body and loop since the last call, on top of what
the call put there, or on top of the global frame.  That is what exits and returns need in order to
take off the right number, and why the program finds the global frame alone between two of its statements.
No other theorem needs EnvInv: the collector is exact and unseen in whatever environment
such an exit leaves.

During a collection CollectInv says which slots hold handles of `from_` and which those of `to_`:
exactly the slots in `done`.  For that a slot must not be translated twice, which nothing in the code
records; TodoInv says that a slot is in `todo` once and not in `done`, and MetInv why it stays so: the
variables of a frame have been met if and only if the frame is in `visited`, the elements of a copy if and only
if `scan` has passed it.  MovesInv makes forwarding a one-to-one map from the hollow objects to the
copies, from which ReserveIsEnough counts.  When the scan is over, MetInv leaves nothing in the
visited frames and in the copies that has not been translated (AllScanned), and what is left in the other frames is
held by nobody (FinishKeeps).  There is one lemma per action, over lemmas about values,
environments, activations, slots, the stack of items, and the object and the slot that ScanAggregate changes
(EvacuateFacts, RedirectFacts).

The last three theorems rest on one observation: no step of the scan changes what the program sees.
Named gives a slot's value with the handle it would have had before the collection, and Contents the
elements of an object wherever they are now.  NothingMoves (steps that only move the scan on) and
MovingIsUnseen (ScanAggregate) show that neither changes: the slot that is redirected names the object it named, for
forwarding is one-to-one, and the elements of the object that is moved have become slots that are
not yet scanned.  So the graph of objects and frames, what its roots reach, and the View stay the same from
MaybeGc to Finish.  ReachedInv is then inductive: what the next item names is reached, because its holder
is (NextIsReached).  The converse needs no invariant of its own: when all has been scanned, what has
been met is closed and holds the roots (MetIsClosed), so it holds all that they reach, and MovesInv
counts the copies (OneCopyEach).  At Finish objects change their names.  To maps each node that has been met to its new
name; GraphTranslated shows that it maps the graph before the step onto the one after it, and
LiveTranslated that it maps what is live onto what is live: one inclusion by the minimality of either
closure.  FramesBecome drops frames in the same step, which is harmless since QuietInv holds
after it: what is kept leads nowhere else (QuietGraph).

**Model-checked only**: liveness (fairness and ENABLED are out of the prover's reach); all about the
compiler, the analyser and the tree interpreter, which are recursive operators: SameOutput,
CompiledCodeIsVerified and OperandsAsCompiled.  So the hypothesis FilesVerified of the theorems about the machine
is checked for the programs of machine_programs and proved for none.

## 6. Not modelled

Real numbers; overflow of integers (32 bits in the machine, 64 in the tree
interpreter); the characters of strings; the binary encoding of instructions; BC_STT
and BC_STOP, which the compiler never emits; in InterpHeap, what follows when a frame is
popped from an `env_` that has none (undefined, after an exit out of a call) and an exit that no loop
catches; the value of
a number (std::stoll and std::stod throw when it does not fit), bytes that are no ASCII
character, of which 255 reads as the end of the file in Lexer::getch, and a stream that
refuses a character that is put back; the parser, whose automaton Bison generates;
drivers and dumps, which are straight lines; the old runtime, which no target builds.

## 7. Plan

Done in this order: SmHeap with its abstract store and its proofs; the machine; the
compiler; the analyser and the tree interpreter, as the reference for output; the
proofs about the machine; the memory of the tree interpreter; the lexer and its proofs; the
proofs that the heap is exact, never runs out and implements its store; those about the memory of
the tree interpreter, up to what its program sees of a collection.  Last, the machine's types and references.
InterpHeap is not stated as a refinement of ObjectStore: CollectionsAreUnseen says for it what
that refinement says of SmHeap, in terms of what the program reads.
Left:

1. Programs of three levels in machine_programs; captures two functions deep.
2. A proof that compiled code is verified, for a compiler written without recursive operators.
