----------------------------- MODULE SmMachine ------------------------------
(* The stack machine: interprete() of src/sm_interpreter.cpp with the      *)
(* frames of src/sm_runtime.hpp, one instruction per step.                 *)
(*                                                                         *)
(* The heap is the store that SmHeap implements: an object keeps its name  *)
(* (its index in heap) whatever the collector does.  What a collection may *)
(* do to the machine is what the heap asks of its callers (see SmHeap):    *)
(* every pointer used after it must be in a slot that Heap::roots lists.   *)
(* A pointer that a C++ local holds across a collecting allocation becomes *)
(* Stale, and so does everything built from it; a collection while roots   *)
(* lists a slot of a destroyed frame is undefined behaviour.               *)
(*                                                                         *)
(* Real numbers are left out.  A string is a sequence of literals, each    *)
(* taken to be one character.                                              *)
EXTENDS Bytecode, FiniteSets, SequencesExt

CONSTANTS
  Files,            \* the compiled programs to run, a sequence
  CollectWhileHeld, \* whether a collection may find pointers in C++ locals
  MaxOut            \* bound: lines a program prints

VARIABLES
  file,    \* the program that runs
  frames,  \* Runtime::stack
  heap,    \* the objects, garbage included
  roots,   \* the slots that Heap::roots lists after the heap's own none
  pc,      \* bc_index
  out,     \* what has been printed
  status

vars == <<file, frames, heap, roots, pc, out, status>>

Stale == 0
NoneId == 1

Statuses == {"running", "finished", "error", "undefined"}

-----------------------------------------------------------------------------
(* Objects.  keys are the indices of an array, the name numbers of a tuple *)
(* or the literals of a string; num is the value of Int and Bool, or the   *)
(* scheme of a function.                                                   *)
Object(type, num, keys, refs) ==
  [type |-> type, num |-> num, keys |-> keys, refs |-> refs]
MakeInt(n) == Object("Int", n, << >>, << >>)
MakeBool(b) == Object("Bool", IF b THEN 1 ELSE 0, << >>, << >>)
MakeRef(v)  == Object("Ref", 0, << >>, <<v>>)

New == Len(heap) + 1

Refs == {x \in DOMAIN heap : heap[x].type = "Ref"}
Referent(ref) == heap[ref].refs[1]

(* resolve_ref: the end of the chain of references from v. *)
ResolveRef(v) ==
  LET end[x \in {Stale} \cup DOMAIN heap] == IF x \in Refs THEN end[Referent(x)] ELSE x
  IN  end[v]

(* change_ref: the last reference of the chain. *)
LastRef(ref) ==
  LET end[x \in Refs] == IF Referent(x) \in Refs THEN end[Referent(x)] ELSE x
  IN  end[ref]

ChangeOwnRef(ref, v) == [heap EXCEPT ![ref].refs = <<v>>]
ChangeRef(ref, v) == [heap EXCEPT ![LastRef(ref)].refs = <<v>>]

-----------------------------------------------------------------------------
(* Frames and the slots they own *)

Slot(depth, part, index) == [depth |-> depth, part |-> part, index |-> index]
SlotsOf(depth, part, values) == [i \in DOMAIN values |-> Slot(depth, part, i)]

(* The slots of a frame in the order its constructor and its pushes list   *)
(* them.                                                                   *)
FrameSlots(depth, f) ==
  SlotsOf(depth, "locals", f.locals) \o SlotsOf(depth, "args", f.args)
    \o SlotsOf(depth, "captured", f.captured) \o SlotsOf(depth, "stack", f.stack)

Depth == Len(frames)
Top == frames[Depth]
Operand(i) == Top.stack[Len(Top.stack) + 1 - i]
Resolved(i) == ResolveRef(Operand(i))

Schemes == file.functions
SchemeOf(f) == Schemes[f.scheme]
Code == SchemeOf(Top).code

DropLast(s, n) == SubSeq(s, 1, Len(s) - n)

(* Frame::operator[] *)
Variable(type, index) ==
  CASE type = "LOCAL"    -> Top.locals[index]
    [] type = "ARGUMENT" -> Top.args[index]
    [] type = "CAPTURED" -> Top.captured[index]

(* The constructor of a frame: its locals hold a reference each to the     *)
(* none that the heap keeps (make_none makes no object; a collection puts  *)
(* another in its place, but nothing can tell one none from another), its  *)
(* arguments a reference to their value.  The objects from first on are    *)
(* the new references.  base is a ghost: the roots there were before.      *)
NewFrame(scheme, return, base, first, captured) ==
  LET s == Schemes[scheme]
  IN  [scheme |-> scheme, return |-> return, base |-> base,
       locals |-> [i \in 1..s.locals |-> first + i - 1],
       args |-> [i \in 1..s.args |-> first + s.locals + i - 1],
       captured |-> captured, stack |-> << >>]

FrameObjectsUnboxed(scheme, args) ==
  [i \in 1..Schemes[scheme].locals |-> Object("None", 0, << >>, << >>)]
    \o [i \in DOMAIN args |-> MakeRef(args[i])]

FrameObjects(scheme, args) ==
  [i \in 1..Schemes[scheme].locals |-> MakeRef(NoneId)] \o [i \in DOMAIN args |-> MakeRef(args[i])]

(* Its destructor: as many roots as the frame has variables. *)
FrameRoots(f) == Len(f.captured) + Len(f.locals) + Len(f.args)

Init ==
  /\ \E k \in DOMAIN Files : file = Files[k]
  /\ LET main == file.main
         frame == NewFrame(main, 0, 0, 2, << >>)
     IN  /\ frames = <<frame>>
         /\ heap = <<Object("None", 0, << >>, << >>)>> \o FrameObjects(main, << >>)
         /\ roots = FrameSlots(1, frame)
         /\ status = CASE file.error \notin {"", "undefined"} -> "error"
                       [] file.error = "undefined" -> "undefined"
                       [] Schemes[main].code = << >> -> "undefined"
                       [] OTHER -> "running"
  /\ pc = 1
  /\ out = << >>

(* Heap::roots lists the slots of the frames there are, in the order they  *)
(* came about, and no others: the collector then finds and moves every     *)
(* pointer of the machine, and follows none that is gone.  The frames keep *)
(* no record of their roots: constructor, pushes, pops and destructor must *)
(* add up, whatever a function leaves on its operand stack.                *)
RootsAreTheSlots ==
  /\ frames # << >> => frames[1].base = 0
  /\ \A d \in DOMAIN frames :
        LET f == frames[d]
            slots == FrameSlots(d, f)
        IN  /\ \A i \in DOMAIN slots : f.base + i \in DOMAIN roots /\ roots[f.base + i] = slots[i]
            /\ f.base + Len(slots) = IF d = Depth THEN Len(roots) ELSE frames[d + 1].base

-----------------------------------------------------------------------------
(* The parts of a step *)

(* The instruction at pc, with the operands it pops on the stack: pop() on *)
(* an empty deque is undefined, and no step is given for it.               *)
Fetched(op) ==
  /\ status = "running"
  /\ pc \in DOMAIN Code
  /\ Code[pc].op = op
  /\ Len(Top.stack) >= Pops(file, Code[pc])

N == Code[pc].n
Kind == Code[pc].kind

(* n operands popped, the values pushed; every push and pop of a slot is a *)
(* push_back or a pop_back on roots.                                       *)
Stacked(n, values) ==
  LET kept == DropLast(Top.stack, n)
  IN  /\ frames' = [frames EXCEPT ![Depth].stack = kept \o values]
      /\ roots' = DropLast(roots, n)
                    \o [i \in DOMAIN values |-> Slot(Depth, "stack", Len(kept) + i)]

(* Which of an instruction's n allocations collects last, 0 for none.      *)
(* Until the safe-th, no C++ local holds an address that is used later.    *)
Collections(safe, n) == IF CollectWhileHeld THEN 0..n ELSE 0..safe

(* A collection goes through roots; it needs every entry to be a slot and  *)
(* every slot to have its entry.                                           *)
Collected(c) ==
  status' = IF c > 0 /\ ~RootsAreTheSlots THEN "undefined" ELSE "running"

Allocating(objects) == heap' = heap \o objects
Advance == pc' = pc + 1
Quiet == UNCHANGED <<file, out>>

(* An exception leaves interprete and ends the program. *)
Throw ==
  /\ status' = "error"
  /\ UNCHANGED <<file, frames, heap, roots, pc, out>>

Wild ==
  /\ status' = "undefined"
  /\ UNCHANGED <<file, frames, heap, roots, pc, out>>

-----------------------------------------------------------------------------
(* The instructions *)

(* NONE pushes the none that the heap keeps, and makes no object. *)
PushNone ==
  /\ Fetched("NONE")
  /\ Stacked(0, <<NoneId>>)
  /\ Advance /\ Quiet
  /\ UNCHANGED <<heap, status>>

(* One object and nothing held: CONST, BOOL, STRING. *)
Literal ==
  CASE Code[pc].op = "CONST"  -> MakeInt(N)
    [] Code[pc].op = "BOOL"   -> Object("Bool", N, << >>, << >>)
    [] Code[pc].op = "STRING" -> Object("String", 0, <<N>>, << >>)

PushLiteral ==
  /\ \E op \in {"CONST", "BOOL", "STRING"} : Fetched(op)
  /\ \E c \in Collections(1, 1) : Collected(c)
  /\ Allocating(<<Literal>>)
  /\ Stacked(0, <<New>>)
  /\ Advance /\ Quiet

Ld ==
  /\ Fetched("LD")
  /\ Stacked(0, <<Variable(Kind, N)>>)
  /\ Advance /\ Quiet
  /\ UNCHANGED <<heap, status>>

StUnresolved ==
  /\ Fetched("ST")
  /\ heap' = ChangeRef(Variable(Kind, N), Operand(1))
  /\ Stacked(1, << >>)
  /\ Advance /\ Quiet
  /\ UNCHANGED status

St ==
  /\ Fetched("ST")
  /\ heap' = ChangeRef(Variable(Kind, N), Resolved(1))
  /\ Stacked(1, << >>)
  /\ Advance /\ Quiet
  /\ UNCHANGED status

StdKeepingTheReference ==
  /\ Fetched("STD")
  /\ heap[Operand(2)].type = "Ref"
  /\ heap' = ChangeRef(Operand(2), Resolved(1))
  /\ Stacked(1, << >>)
  /\ Advance /\ Quiet
  /\ UNCHANGED status

(* STD writes through the reference below the value. *)
Std ==
  /\ Fetched("STD")
  /\ heap[Operand(2)].type = "Ref"
  /\ heap' = ChangeRef(Operand(2), Resolved(1))
  /\ Stacked(2, << >>)
  /\ Advance /\ Quiet
  /\ UNCHANGED status

StdThrows ==
  /\ Fetched("STD")
  /\ heap[Operand(2)].type # "Ref"
  /\ Throw

Drop ==
  /\ Fetched("DROP")
  /\ Stacked(1, << >>)
  /\ Advance /\ Quiet
  /\ UNCHANGED <<heap, status>>

Dup ==
  /\ Fetched("DUP")
  /\ Stacked(1, <<Operand(1), Operand(1)>>)
  /\ Advance /\ Quiet
  /\ UNCHANGED <<heap, status>>

Jmp ==
  /\ Fetched("JMP")
  /\ pc' = N
  /\ UNCHANGED <<file, frames, heap, roots, out, status>>

CJmpZ ==
  LET condition == heap[Resolved(1)]
  IN  /\ Fetched("CJMPZ")
      /\ condition.type = "Bool"
      /\ pc' = IF condition.num = 0 THEN N ELSE pc + 1
      /\ Stacked(1, << >>)
      /\ Quiet
      /\ UNCHANGED <<heap, status>>

CJmpZThrows ==
  /\ Fetched("CJMPZ")
  /\ heap[Resolved(1)].type # "Bool"
  /\ Throw

-----------------------------------------------------------------------------
(* BINOP *)

(* C++ division: towards zero. *)
Quotient(a, b) ==
  LET abs(x) == IF x < 0 THEN -x ELSE x
      q == abs(a) \div abs(b)
  IN  IF (a < 0) = (b < 0) THEN q ELSE -q

IntResult(op, a, b) ==
  CASE op = "ADD" -> MakeInt(a + b)
    [] op = "SUB" -> MakeInt(a - b)
    [] op = "MUL" -> MakeInt(a * b)
    [] op = "DIV" -> MakeInt(Quotient(a, b))
    [] op = "LT"  -> MakeBool(a < b)
    [] op = "LE"  -> MakeBool(a <= b)
    [] op = "GT"  -> MakeBool(a > b)
    [] op = "GE"  -> MakeBool(a >= b)
    [] op = "EQ"  -> MakeBool(a = b)
    [] op = "NEQ" -> MakeBool(a # b)

IntOps == {"ADD", "SUB", "MUL", "DIV", "LT", "LE", "GT", "GE", "EQ", "NEQ"}

First == heap[Resolved(2)]
Second == heap[Resolved(1)]

(* Equality of aggregates is identity, of strings it is strcmp. *)
SameValue ==
  IF First.type = "String" /\ Second.type = "String" THEN First.keys = Second.keys
                                                     ELSE Resolved(1) = Resolved(2)

(* The order of size_t: the key of a negative index is above all others.   *)
Below(j, k) == IF (j < 0) = (k < 0) THEN j < k ELSE k < 0

(* concat: the keys of the second array follow the largest of the first,   *)
(* or 0.                                                                   *)
Largest(keys) ==
  CHOOSE k \in {0} \cup Range(keys) : \A j \in {0} \cup Range(keys) : ~Below(k, j)
Shift(keys, by) == [i \in DOMAIN keys |-> keys[i] + by]
Concatenated ==
  Object(First.type, 0,
         First.keys \o (IF First.type = "Array" THEN Shift(Second.keys, Largest(First.keys))
                                                ELSE Second.keys),
         First.refs \o Second.refs)

Spoiled(type) == Object(type, 0, <<0>>, <<Stale>>)

FieldsClash ==
  First.type = "Tuple" /\ (Range(First.keys) \cap Range(Second.keys)) \ {0} # {}

Sized == {"String", "Array", "Tuple"}

BinopValue(object, c) ==
  /\ Collected(c)
  /\ Allocating(<<object>>)
  /\ Stacked(2, <<New>>)
  /\ Advance /\ Quiet

BinopInts ==
  /\ Fetched("BINOP")
  /\ First.type = "Int" /\ Second.type = "Int" /\ Kind \in IntOps
  /\ ~(Kind = "DIV" /\ Second.num = 0)
  /\ \E c \in Collections(1, 1) : BinopValue(IntResult(Kind, First.num, Second.num), c)

(* The only operator on Booleans that the compiler emits. *)
BinopBools ==
  /\ Fetched("BINOP")
  /\ First.type = "Bool" /\ Second.type = "Bool" /\ Kind = "XOR"
  /\ \E c \in Collections(1, 1) : BinopValue(MakeBool(First.num # Second.num), c)

BinopEqual ==
  /\ Fetched("BINOP")
  /\ First.type \in Sized /\ Kind \in {"EQ", "NEQ"}
  /\ \E c \in Collections(1, 1) : BinopValue(MakeBool(SameValue = (Kind = "EQ")), c)

(* A string is copied out before make_string; the elements of an array or *)
(* a tuple are in a C++ vector meanwhile, and so is the vector of an array.*)
BinopConcat ==
  LET elements == Len(First.refs) + Len(Second.refs)
      safe == IF First.type # "String" /\ elements > 0 THEN 0 ELSE 1
  IN  /\ Fetched("BINOP")
      /\ First.type \in Sized /\ Kind = "ADD" /\ First.type = Second.type /\ ~FieldsClash
      /\ \E c \in Collections(safe, IF First.type = "Array" THEN 2 ELSE 1) :
            BinopValue(IF c > safe THEN Spoiled(First.type) ELSE Concatenated, c)

BinopThrows ==
  /\ Fetched("BINOP")
  /\ \/ First.type = "Int" /\ ~(Second.type = "Int" /\ Kind \in IntOps)
     \/ First.type = "Bool" /\ ~(Second.type = "Bool" /\ Kind = "XOR")
     \/ First.type \in {"None", "Func", "Ref"}
     \/ /\ First.type \in Sized /\ Kind \notin {"EQ", "NEQ"}
        /\ Kind # "ADD" \/ First.type # Second.type \/ FieldsClash
  /\ Throw

BinopDividesByZero ==
  /\ Fetched("BINOP")
  /\ First.type = "Int" /\ Second.type = "Int" /\ Kind = "DIV" /\ Second.num = 0
  /\ Wild

IsType ==
  /\ Fetched("ISTYPE")
  /\ \E c \in Collections(1, 1) : Collected(c)
  /\ Allocating(<<MakeBool(heap[Resolved(1)].type = Kind)>>)
  /\ Stacked(1, <<New>>)
  /\ Advance /\ Quiet

Length ==
  LET iterable == heap[Resolved(1)]
  IN  /\ Fetched("LENGTH")
      /\ iterable.type \in Sized
      /\ \E c \in Collections(1, 1) : Collected(c)
      /\ Allocating(<<MakeInt(Len(iterable.keys))>>)
      /\ Stacked(1, <<New>>)
      /\ Advance /\ Quiet

LengthThrows ==
  /\ Fetched("LENGTH")
  /\ heap[Resolved(1)].type \notin Sized
  /\ Throw

(* RNGSPC: one step of a range towards its bound, past it when there. *)
RngSpc ==
  LET iterator == heap[Resolved(1)]
      target == heap[Resolved(2)]
  IN  /\ Fetched("RNGSPC")
      /\ iterator.type = "Int" /\ target.type = "Int"
      /\ \E c \in Collections(1, 1) : Collected(c)
      /\ Allocating(<<MakeInt(IF iterator.num <= target.num THEN iterator.num + 1
                                                         ELSE iterator.num - 1)>>)
      /\ Stacked(2, <<New>>)
      /\ Advance /\ Quiet

RngSpcThrows ==
  /\ Fetched("RNGSPC")
  /\ heap[Resolved(1)].type # "Int" \/ heap[Resolved(2)].type # "Int"
  /\ Throw

-----------------------------------------------------------------------------
(* Aggregates *)

(* make_array keeps the vector in a local while the header is allocated.   *)
Array ==
  /\ Fetched("ARRAY")
  /\ \E c \in Collections(1, 2) :
        /\ Collected(c)
        /\ Allocating(<<IF c = 2 THEN Spoiled("Array")
                                 ELSE Object("Array", 0, << >>, << >>)>>)
  /\ Stacked(0, <<New>>)
  /\ Advance /\ Quiet

(* The k-th element, from the last, is popped, boxed by allocation k, and  *)
(* held until allocation size + 1 makes the tuple.                         *)
Tuple ==
  LET names == file.tuples[N]
      size  == Len(names)
  IN  /\ Fetched("TUPLE")
      /\ \E c \in Collections(IF size = 0 THEN 1 ELSE 0, size + 1) :
            /\ Collected(c)
            /\ Allocating([k \in 1..size |-> MakeRef(IF c = k THEN Stale ELSE Resolved(k))]
                 \o <<Object("Tuple", 0, Reverse(names),
                             [i \in 1..size |-> IF c > size + 1 - i THEN Stale
                                                ELSE Len(heap) + size + 1 - i])>>)
      /\ Stacked(size, <<Len(heap) + size + 1>>)
      /\ Advance /\ Quiet

(* Positions are negative, the numbers of names are not.  The name that    *)
(* has number 1 here is string number 0 of the file, which is what the     *)
(* machine looks for when the program says t.0.                            *)
FieldPosition(tuple) ==
  LET name == IF N = 0 THEN 1 ELSE N
  IN  IF N < 0 THEN -N
      ELSE IF name \in Range(tuple.keys)
           THEN Min({i \in DOMAIN tuple.keys : tuple.keys[i] = name})
           ELSE 0

Ldt ==
  LET tuple == heap[Resolved(1)]
  IN  /\ Fetched("LDT")
      /\ tuple.type = "Tuple"
      /\ FieldPosition(tuple) \in DOMAIN tuple.refs
      /\ Stacked(1, <<tuple.refs[FieldPosition(tuple)]>>)
      /\ Advance /\ Quiet
      /\ UNCHANGED <<heap, status>>

LdtThrows ==
  LET tuple == heap[Resolved(1)]
  IN  /\ Fetched("LDT")
      /\ tuple.type # "Tuple" \/ FieldPosition(tuple) \notin DOMAIN tuple.refs
      /\ Throw

Indexable(array, index) == heap[array].type = "Array" /\ heap[index].type = "Int"

(* concat may leave two elements with one key; the first is found. *)
PositionOf(array, key) ==
  Min({i \in DOMAIN heap[array].keys : heap[array].keys[i] = key})

(* Where lower_bound may put a key: one place if the keys are in order.    *)
(* They may not be, if concat joined arrays with an index below 1; then    *)
(* the search ends at one of the places with a smaller key before it only. *)
Places(array, key) ==
  LET keys == heap[array].keys
  IN  {at \in 1..Len(keys) + 1 : /\ at > 1 => Below(keys[at - 1], key)
                                 /\ at <= Len(keys) => ~Below(keys[at], key)}

InsertedOutOfStep(array, at, key, ref) ==
  [heap EXCEPT ![array].keys = InsertAt(@, at, key), ![array].refs = Append(@, ref)]

(* replace_array_data: key and reference go to the same place. *)
Inserted(array, at, key, ref) ==
  [heap EXCEPT ![array].keys = InsertAt(@, at, key), ![array].refs = InsertAt(@, at, ref)]

Lda ==
  LET array == Resolved(2)
      key == heap[Resolved(1)].num
  IN  /\ Fetched("LDA")
      /\ Indexable(array, Resolved(1))
      /\ key \in Range(heap[array].keys)
      /\ Stacked(2, <<heap[array].refs[PositionOf(array, key)]>>)
      /\ Advance /\ Quiet
      /\ UNCHANGED <<heap, status>>

(* Reading an index that is not there makes an element; the array is held  *)
(* across both allocations.                                                *)
LdaInserts ==
  LET array == Resolved(2)
      key == heap[Resolved(1)].num
  IN  /\ Fetched("LDA")
      /\ Indexable(array, Resolved(1))
      /\ key \notin Range(heap[array].keys)
      /\ \E at \in Places(array, key) :
            heap' = Append(Inserted(array, at, key, New), MakeRef(NoneId))
      /\ \E c \in Collections(0, 2) :
            status' = IF c > 0 THEN "undefined" ELSE "running"
      /\ Stacked(2, <<New>>)
      /\ Advance /\ Quiet

LdaThrows ==
  /\ Fetched("LDA")
  /\ ~Indexable(Resolved(2), Resolved(1))
  /\ Throw

(* STA gives the element a new reference, whether or not it had one.  The  *)
(* compiler emits it for array literals only, so that it never throws.     *)
Sta ==
  LET array == Resolved(3)
      key == heap[Resolved(2)].num
      stored(at) == IF key \in Range(heap[array].keys)
                    THEN [heap EXCEPT ![array].refs[PositionOf(array, key)] = New]
                    ELSE Inserted(array, at, key, New)
  IN  /\ Fetched("STA")
      /\ Indexable(array, Resolved(2))
      /\ \E at \in Places(array, key) : heap' = Append(stored(at), MakeRef(Resolved(1)))
      /\ \E c \in Collections(0, IF key \in Range(heap[array].keys) THEN 1 ELSE 2) :
            status' = IF c > 0 THEN "undefined" ELSE "running"
      /\ Stacked(3, << >>)
      /\ Advance /\ Quiet

-----------------------------------------------------------------------------
(* Functions *)

(* A capture is a reference to the variable's reference.  Allocation k     *)
(* boxes the k-th, and the last makes the function from all of them.       *)
Closure ==
  LET capture == Schemes[N].capture
      size == Len(capture)
  IN  /\ Fetched("CLOSURE")
      /\ \E c \in Collections(IF size = 0 THEN 1 ELSE 0, size + 1) :
            /\ Collected(c)
            /\ Allocating([k \in 1..size |->
                              MakeRef(IF c = k THEN Stale
                                  ELSE Variable(capture[k].type, capture[k].index))]
                 \o <<Object("Func", N, << >>,
                             [k \in 1..size |-> IF c > k THEN Stale ELSE Len(heap) + k])>>)
      /\ Stacked(0, <<Len(heap) + size + 1>>)
      /\ Advance /\ Quiet

(* The values of the arguments and the captures are in C++ vectors while   *)
(* the frame is built, and make_ref holds the value it is given: local l   *)
(* takes allocation l, argument a allocation locals + a.  To call a stale  *)
(* pointer is undefined, and no step is given for it.                      *)
CallC ==
  LET func == heap[Resolved(1)]
      scheme == Schemes[func.num]
      args == [i \in 1..N |-> Resolved(1 + N + 1 - i)]
      Boxed(c, k, v) == IF 0 < c /\ c <= k THEN Stale ELSE v
  IN  /\ Fetched("CALLC")
      /\ Resolved(1) \in DOMAIN heap
      /\ func.type = "Func"
      /\ scheme.args = N
      /\ \E c \in Collections(0, scheme.locals + scheme.args) :
            LET captured == [k \in DOMAIN func.refs |-> IF c > 0 THEN Stale ELSE func.refs[k]]
                frame == NewFrame(func.num, pc + 1, Len(roots) - (N + 1), New, captured)
            IN  /\ Collected(c)
                /\ Allocating([l \in 1..scheme.locals |->
                                  MakeRef(IF c = l THEN Stale ELSE NoneId)]
                     \o [a \in 1..N |-> MakeRef(Boxed(c, scheme.locals + a, args[a]))])
                /\ frames' = Append([frames EXCEPT ![Depth].stack = DropLast(@, N + 1)], frame)
                /\ roots' = DropLast(roots, N + 1) \o FrameSlots(Depth + 1, frame)
      /\ pc' = 1
      /\ Quiet

CallCThrows ==
  LET func == heap[Resolved(1)]
  IN  /\ Fetched("CALLC")
      /\ \/ func.type # "Func"
         \/ func.type = "Func" /\ Schemes[func.num].args # N
      /\ Throw

(* The top frame is destroyed and its caller resumes with the value pushed.*)
ReturnsForgettingArgs(n, value) ==
  LET left == DropLast(roots, n + Len(Top.captured) + Len(Top.locals))
      caller == frames[Depth - 1]
  IN  /\ pc' = Top.return
      /\ IF Depth = 1
         THEN frames' = << >> /\ roots' = left
         ELSE /\ frames' = [DropLast(frames, 1) EXCEPT ![Depth - 1].stack = Append(@, value)]
              /\ roots' = Append(left, Slot(Depth - 1, "stack", Len(caller.stack) + 1))

Returns(n, value) ==
  LET left == DropLast(roots, n + FrameRoots(Top))
      caller == frames[Depth - 1]
  IN  /\ pc' = Top.return
      /\ IF Depth = 1
         THEN frames' = << >> /\ roots' = left
         ELSE /\ frames' = [DropLast(frames, 1) EXCEPT ![Depth - 1].stack = Append(@, value)]
              /\ roots' = Append(left, Slot(Depth - 1, "stack", Len(caller.stack) + 1))

(* After RET from main the test for the end of the code looks at the back  *)
(* of an empty deque.                                                      *)
Ret ==
  /\ Fetched("RET")
  /\ Returns(1, Operand(1))
  /\ status' = IF Depth = 1 THEN "undefined" ELSE "running"
  /\ UNCHANGED <<file, heap, out>>

(* An iteration of the loop after the switch: a function whose code is at  *)
(* its end returns none.                                                   *)
FallsOffTheEnd ==
  /\ status = "running"
  /\ pc = Len(Code) + 1
  /\ Returns(0, NoneId)
  /\ status' = IF Depth = 1 THEN "finished" ELSE "running"
  /\ UNCHANGED <<file, heap, out>>

-----------------------------------------------------------------------------
(* What print writes for v, without the wording. *)
Text(k) == IF k = 0 THEN "" ELSE file.strings[k]
Texts(keys) == [i \in DOMAIN keys |-> Text(keys[i])]

Shown(v) ==
  LET shown[x \in {Stale} \cup DOMAIN heap] ==
        IF x = Stale THEN <<"Stale">>
        ELSE CASE heap[x].type \in {"Int", "Bool"} -> <<heap[x].type, heap[x].num>>
               [] heap[x].type = "Tuple" ->
                    <<"Tuple", Texts(heap[x].keys), [i \in DOMAIN heap[x].refs |->
                                                 shown[ResolveRef(heap[x].refs[i])]]>>
               [] heap[x].type = "Array" ->
                    <<"Array", [i \in DOMAIN heap[x].refs |->
                                   shown[ResolveRef(heap[x].refs[i])]]>>
               [] heap[x].type = "String" -> <<"String", Texts(heap[x].keys)>>
               [] OTHER -> <<heap[x].type>>
  IN  shown[v]

PrintValues ==
  /\ Fetched("PRINT")
  /\ Len(out) < MaxOut
  /\ out' = Append(out, [i \in 1..N |-> Shown(Resolved(i))])
  /\ Stacked(N, << >>)
  /\ Advance
  /\ UNCHANGED <<file, heap, status>>

Instruction ==
  \/ PushNone \/ PushLiteral \/ Ld \/ St \/ Std \/ StdThrows \/ Drop \/ Dup
  \/ Jmp \/ CJmpZ \/ CJmpZThrows
  \/ BinopInts \/ BinopBools \/ BinopEqual \/ BinopConcat \/ BinopThrows \/ BinopDividesByZero
  \/ IsType \/ Length \/ LengthThrows \/ RngSpc \/ RngSpcThrows
  \/ Array \/ Tuple \/ Ldt \/ LdtThrows \/ Lda \/ LdaInserts \/ LdaThrows \/ Sta
  \/ Closure \/ CallC \/ CallCThrows \/ Ret \/ FallsOffTheEnd \/ PrintValues

Ended == status # "running" /\ UNCHANGED vars

Next == Instruction \/ Ended

Spec == Init /\ [][Next]_vars

-----------------------------------------------------------------------------
(* Properties *)

Pointers(f) == Range(f.locals) \cup Range(f.args) \cup Range(f.captured) \cup Range(f.stack)

(* Every pointer is to an object, and to one of the type it is cast to:    *)
(* variables, captures and the elements of aggregates are references.  A   *)
(* frame has the variables, and a function the captures, of its scheme.    *)
TypeOK ==
  /\ status \in Statuses
  /\ status = "running" => pc \in 1..Len(Code) + 1
  /\ \A d \in DOMAIN frames :
        LET f == frames[d]
        IN  /\ Pointers(f) \subseteq DOMAIN heap
            /\ Range(f.locals) \cup Range(f.args) \cup Range(f.captured) \subseteq Refs
            /\ Len(f.locals) = SchemeOf(f).locals
            /\ Len(f.args) = SchemeOf(f).args
            /\ Len(f.captured) = Len(SchemeOf(f).capture)
  /\ \A x \in DOMAIN heap :
        LET o == heap[x]
        IN  /\ o.type \in ValueTypes \cup {"Ref"}
            /\ Range(o.refs) \subseteq DOMAIN heap
            /\ o.type = "Ref" => Len(o.refs) = 1
            /\ o.type \in {"Array", "Tuple", "Func"} => Range(o.refs) \subseteq Refs
            /\ o.type \in {"Array", "Tuple"} => Len(o.keys) = Len(o.refs)
            /\ o.type = "Func" => Len(o.refs) = Len(Schemes[o.num].capture)

(* Whenever a collection runs, what the program still uses is kept and its *)
(* pointers are led to the copies ("CollectKeepsReachableObjects"): no     *)
(* slot and no object holds an address from before a collection.           *)
NoStalePointer ==
  /\ \A d \in DOMAIN frames : Stale \notin Pointers(frames[d])
  /\ \A x \in DOMAIN heap : Stale \notin Range(heap[x].refs)

(* A reference to a reference is to an older one, whatever ST and STD      *)
(* write: the loops of resolve_ref and change_ref end.                     *)
ReferencesEnd == \A x \in Refs : Referent(x) \in Refs => Referent(x) < x

Executes(op) == status = "running" /\ pc \in DOMAIN Code /\ Code[pc].op = op

(* The reference an assignment is to, where it does not throw. *)
Target == IF Code[pc].op = "ST" THEN Variable(Kind, N) ELSE Operand(2)
Assigns == (Executes("ST") \/ Executes("STD")) /\ status' = "running"

(* An assignment is seen through every reference that shares the variable  *)
(* or the element assigned to (a capture, a field, the variable of a loop) *)
(* and through no other, and which references share one never changes.     *)
AssignmentsReachAliases ==
  [][\A x \in Refs :
        /\ LastRef(x)' = LastRef(x)
        /\ ResolveRef(x)' = IF Assigns /\ LastRef(x) = LastRef(Target)
                            THEN Resolved(1) ELSE ResolveRef(x)]_vars

Elements(x) == {<<heap[x].keys[i], heap[x].refs[i]>> : i \in DOMAIN heap[x].keys}

(* No object becomes another one: only references and arrays are written   *)
(* to, and an array keeps its elements where they are, whatever is put     *)
(* between them, but for one that STA puts another in the place of.        *)
ObjectsStay ==
  [][\A x \in DOMAIN heap :
        /\ heap'[x].type = heap[x].type
        /\ heap[x].type \notin {"Ref", "Array"} => heap'[x] = heap[x]
        /\ heap[x].type = "Array" =>
              \A e \in Elements(x) :
                 \/ e \in Elements(x)'
                 \/ Executes("STA") /\ x = Resolved(3) /\ e[1] = heap[Resolved(2)].num]_vars
=============================================================================
