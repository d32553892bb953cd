-------------------------- MODULE TreeInterpreter ---------------------------
(* The tree-walking interpreter (src/interpreter.cpp), on trees that the   *)
(* semantic analyser has annotated.  Every operator takes the              *)
(* interpreter's state and returns the next one, with the value of an      *)
(* expression in val.  A C++ exception on its way up is in signal: "exit", *)
(* "return" (its value in val) or "error"; nothing is evaluated meanwhile. *)
(* "undefined" stands for undefined behaviour.                             *)
(*                                                                         *)
(* Only in modules that TLC runs, and for programs that end.  Integers do  *)
(* not overflow here and reals are left out; objects are kept for ever     *)
(* (their collector is another part of the source, and does not run below  *)
(* 512 of them).                                                           *)
EXTENDS Integers, FiniteSetsExt, SequencesExt

-----------------------------------------------------------------------------
(* DValue: num is the value of an Int or a Bool, the handle of an Array or *)
(* a Tuple, the number of a closure; text is the literals of a String.     *)
Value(type, num, text) == [type |-> type, num |-> num, text |-> text]
None == Value("None", 0, << >>)
MakeInt(n) == Value("Int", n, << >>)
MakeBool(b) == Value("Bool", IF b THEN 1 ELSE 0, << >>)

(* frames are the scopes ever made, env the numbers of those in force,     *)
(* heap the arrays and tuples, closures the function values.               *)
Initial ==
  [env |-> << >>, frames |-> << >>, heap |-> << >>, closures |-> << >>,
   out |-> << >>, val |-> None, signal |-> ""]

Then(s, Rest(_)) == IF s.signal = "" THEN Rest(s) ELSE s
Throw(s) == [s EXCEPT !.signal = "error"]
Yield(s, v) == [s EXCEPT !.val = v]

PushFrame(s) ==
  [s EXCEPT !.frames = Append(@, << >>), !.env = Append(@, Len(s.frames) + 1)]
PopFrame(s) == [s EXCEPT !.env = Front(@)]

(* The name in the scope that is depth from the innermost; a read of a     *)
(* name that is not there makes a none.                                    *)
FrameAt(s, depth) == s.env[Len(s.env) - depth]
Store(s, depth, name, v) == [s EXCEPT !.frames[FrameAt(s, depth)] = (name :> v) @@ @]
Declare(s, name, v) == Store(s, 0, name, v)
Load(s, n) ==
  LET f == s.frames[FrameAt(s, n.depth)]
  IN  IF n.name \in DOMAIN f THEN Yield(s, f[n.name]) ELSE Yield(Store(s, n.depth, n.name, None), None)

(* A new array or tuple: its keys are numbers in order, or names. *)
NewObject(s, type, keys, vals) ==
  Yield([s EXCEPT !.heap = Append(@, [keys |-> keys, vals |-> vals])],
        Value(type, Len(s.heap) + 1, << >>))

ObjectOf(s, v) == s.heap[v.num]

(* arr[key] = v *)
SetElement(s, h, key, v) ==
  LET o == s.heap[h]
      at == 1 + Cardinality({i \in DOMAIN o.keys : o.keys[i] < key})
  IN  IF key \in Range(o.keys) THEN [s EXCEPT !.heap[h].vals[at] = v]
      ELSE [s EXCEPT !.heap[h].keys = InsertAt(@, at, key), !.heap[h].vals = InsertAt(@, at, v)]

FirstWith(o, key) == Min({i \in DOMAIN o.keys : o.keys[i] = key})

RECURSIVE Shown(_, _)
Shown(s, v) ==
  CASE v.type \in {"Int", "Bool"} -> <<v.type, v.num>>
    [] v.type = "String" -> <<"String", v.text>>
    [] v.type = "Array" ->
         <<"Array", [i \in DOMAIN ObjectOf(s, v).vals |-> Shown(s, ObjectOf(s, v).vals[i])]>>
    [] v.type = "Tuple" ->
         <<"Tuple", ObjectOf(s, v).keys,
           [i \in DOMAIN ObjectOf(s, v).vals |-> Shown(s, ObjectOf(s, v).vals[i])]>>
    [] OTHER -> <<v.type>>

-----------------------------------------------------------------------------
(* Operators *)

(* Division rounds down. *)
FloorDiv(a, b) == IF b > 0 THEN a \div b ELSE (-a) \div (-b)

Arithmetic(op, a, b) ==
  CASE op = "ADD" -> MakeInt(a + b)
    [] op = "SUB" -> MakeInt(a - b)
    [] op = "MUL" -> MakeInt(a * b)
    [] op = "DIV" -> MakeInt(FloorDiv(a, b))
    [] op = "LT" -> MakeBool(a < b)
    [] op = "LE" -> MakeBool(a <= b)
    [] op = "GT" -> MakeBool(a > b)
    [] op = "GE" -> MakeBool(a >= b)

(* == of two values; two aggregates are never equal. *)
Equal(l, r) ==
  /\ l.type = r.type
  /\ l.type \in {"None", "Bool", "String", "Int"}
  /\ l.num = r.num /\ l.text = r.text

Concatenated(s, l, r) ==
  LET a == ObjectOf(s, l)
      b == ObjectOf(s, r)
      next == IF a.keys = << >> THEN 1 ELSE Last(a.keys) + 1
      keys == IF l.type = "Tuple" THEN b.keys ELSE [i \in DOMAIN b.keys |-> next + i - 1]
  IN  NewObject(s, l.type, a.keys \o keys, a.vals \o b.vals)

Binary(s, op, l, r) ==
  CASE op = "EQ" -> Yield(s, MakeBool(Equal(l, r)))
    [] op = "NEQ" -> Yield(s, MakeBool(~Equal(l, r)))
    [] op = "DIV" /\ r.type = "Int" /\ r.num = 0 /\ l.type = "Int" ->
         [s EXCEPT !.signal = "undefined"]
    [] l.type = "Int" /\ r.type = "Int" -> Yield(s, Arithmetic(op, l.num, r.num))
    [] op = "ADD" /\ l.type = "String" /\ r.type = "String" ->
         Yield(s, Value("String", 0, l.text \o r.text))
    [] op = "ADD" /\ l.type \in {"Array", "Tuple"} /\ l.type = r.type -> Concatenated(s, l, r)
    [] OTHER -> Throw(s)

Truth(s) == s.val.num = 1

Negated(s, op) ==
  CASE op = "NOT" -> IF s.val.type = "Bool" THEN Yield(s, MakeBool(~Truth(s))) ELSE Throw(s)
    [] s.val.type # "Int" -> Throw(s)
    [] op = "UMINUS" -> Yield(s, MakeInt(-s.val.num))
    [] op = "UPLUS" -> s

-----------------------------------------------------------------------------
(* The visitors.  Eval(s, n) is n.accept. *)
RECURSIVE Eval(_, _), EvalList(_, _, _), ExecAll(_, _), Range_(_, _, _, _),
  IterateArray(_, _, _, _, _), IterateTuple(_, _, _, _), Repeat(_, _)

ExecAll(s, stmts) ==
  IF stmts = << >> \/ s.signal # "" THEN s ELSE ExecAll(Eval(s, Head(stmts)), Tail(stmts))

(* eval(n).is_truthy() *)
Test(s, n) ==
  Then(Eval(s, n), LAMBDA r : IF r.val.type = "Bool" THEN r ELSE Throw(r))

(* The values of nodes from the i-th on, after vals: the state, and them.  *)
EvalList(s, nodes, vals) ==
  IF Len(vals) = Len(nodes) \/ s.signal # "" THEN [state |-> s, vals |-> vals]
  ELSE LET one == Eval(s, nodes[Len(vals) + 1])
       IN  EvalList(one, nodes, Append(vals, one.val))

(* The frame goes whatever happened. *)
Body(s, n) == PopFrame(ExecAll(PushFrame(s), n.stmts))

VarDef(s, n) ==
  LET start == IF n.init.node = "FuncLit" THEN Declare(s, n.name, None) ELSE s
      init == IF n.init.node = "NoNode" THEN Yield(start, None) ELSE Eval(start, n.init)
  IN  Then(init, LAMBDA r : Declare(r, n.name, r.val))

(* A loop ends when its body exits, and goes on when nothing happened. *)
Exited(s) == IF s.signal = "exit" THEN [s EXCEPT !.signal = ""] ELSE s

(* while, and loop without a head. *)
Repeat(s, n) ==
  LET test == IF n.node = "While" THEN Test(s, n.cond) ELSE Yield(s, MakeBool(TRUE))
      done == Eval(test, n.body)
  IN  CASE test.signal # "" \/ ~Truth(test) -> test
        [] done.signal # ""                -> Exited(done)
        [] OTHER                           -> Repeat(done, n)

Named(s, n, v) == IF n.iter = "" THEN s ELSE Declare(s, n.iter, v)

Range_(s, n, v, to) ==
  LET done == Eval(Named(s, n, MakeInt(v)), n.body)
  IN  CASE v > to             -> s
        [] done.signal # ""   -> Exited(done)
        [] OTHER              -> Range_(done, n, v + 1, to)

(* ival, whatever the type is. *)
Ival(v) == IF v.type = "Int" THEN v.num ELSE 0

ForRange(s, n) ==
  LET from == Eval(s, n.from)
      to == Then(from, LAMBDA r : Eval(r, n.to))
  IN  IF to.signal # "" THEN to ELSE PopFrame(Range_(PushFrame(to), n, Ival(from.val), Ival(to.val)))

(* An array is gone through by an iterator into its map, which knows the   *)
(* elements after the one it is at, those assigned meanwhile included, and *)
(* by the end that the map had where it was when the loop began.  Behind   *)
(* the last element the iterator is at the end of the map where it is now: *)
(* if from_ has moved to more room, it is not the end that the loop looks  *)
(* for, and what follows is undefined.                                     *)
After(o, key) == {k \in Range(o.keys) : \A j \in key : k > j}

(* The room of from_ by its size: libstdc++ doubles it. *)
Room(size) == IF size = 0 THEN 0 ELSE Min({2^k : k \in {j \in 0..size : 2^j >= size}})

(* at is the key of the last element seen, in a set; room that of from_    *)
(* when the loop began.                                                    *)
IterateArray(s, n, v, at, room) ==
  LET o == ObjectOf(s, v)
      key == Min(After(o, at))
      done == Eval(Named(s, n, o.vals[FirstWith(o, key)]), n.body)
  IN  CASE After(o, at) = {} /\ at # {} /\ Room(Len(s.heap)) # room ->
             [s EXCEPT !.signal = "undefined"]
        [] After(o, at) = {}  -> s
        [] done.signal # ""   -> Exited(done)
        [] OTHER              -> IterateArray(done, n, v, {key}, room)

(* The elements of a tuple stay where they are, in a vector of its own. *)
IterateTuple(s, n, v, i) ==
  LET vals == ObjectOf(s, v).vals
      done == Eval(Named(s, n, vals[i]), n.body)
  IN  CASE i > Len(vals)      -> s
        [] done.signal # ""   -> Exited(done)
        [] OTHER              -> IterateTuple(done, n, v, i + 1)

ForIter(s, n) ==
  LET over == Eval(s, n.iterable)
  IN  CASE over.signal # "" -> over
        [] over.val.type = "Array" ->
             PopFrame(IterateArray(PushFrame(over), n, over.val, {}, Room(Len(over.heap))))
        [] over.val.type = "Tuple" -> PopFrame(IterateTuple(PushFrame(over), n, over.val, 1))
        [] OTHER -> Throw(over)

If(s, n) ==
  LET test == Test(s, n.cond)
  IN  CASE test.signal # "" -> test
        [] Truth(test) -> Eval(test, IF n.node = "If" THEN n.then ELSE n.stmt)
        [] n.node = "If" /\ n.else.node # "NoNode" -> Eval(test, n.else)
        [] OTHER -> test

(* call_func: missing arguments are none, further ones are dropped.  An    *)
(* exit that leaves the function leaves its scopes in force.               *)
CallFunc(s, f, args) ==
  LET closure == s.closures[f.num]
      inside == PushFrame([s EXCEPT !.env = closure.env])
      bound == FoldLeft(LAMBDA r, i : Declare(r, closure.params[i],
                                              IF i \in DOMAIN args THEN args[i] ELSE None),
                        inside, [i \in DOMAIN closure.params |-> i])
      done == Eval(bound, closure.body)
  IN  CASE done.signal = "" -> [done EXCEPT !.env = s.env, !.val = None]
        [] done.signal = "return" -> [done EXCEPT !.env = s.env, !.signal = ""]
        [] OTHER -> done

Call(s, n) ==
  LET callee == Eval(s, n.callee)
      args == EvalList(callee, n.args, << >>)
  IN  CASE args.state.signal # "" -> args.state
        [] callee.val.type = "Func" -> CallFunc(args.state, callee.val, args.vals)
        [] OTHER -> Throw(args.state)

(* The element that an index or field expression names: the object, the    *)
(* key, and whether they are of the right types.                           *)
Selected(s, n) ==
  LET base == Eval(s, n.base)
      key == IF n.node = "Index" THEN Then(base, LAMBDA r : Eval(r, n.index)) ELSE base
      of == IF n.node = "Index" THEN "Array" ELSE "Tuple"
      fits == base.val.type = of /\ (n.node = "Index" => key.val.type = "Int")
      o == ObjectOf(key, base.val)
  IN  [state |-> Then(key, LAMBDA r : IF fits THEN r ELSE Throw(r)),
       handle |-> base.val.num,
       key |-> key.val.num,
       at |-> IF ~fits \/ key.signal # "" THEN 0
              ELSE CASE n.node = "Index" /\ key.val.num \in Range(o.keys) ->
                          FirstWith(o, key.val.num)
                     [] n.node = "DotField" /\ n.field \in Range(o.keys) -> FirstWith(o, n.field)
                     [] n.node = "DotInt" /\ n.position \in DOMAIN o.vals -> n.position
                     [] OTHER -> 0]

Select(s, n) ==
  LET e == Selected(s, n)
  IN  Then(e.state, LAMBDA r : IF e.at = 0 THEN Throw(r) ELSE Yield(r, r.heap[e.handle].vals[e.at]))

(* The right side is evaluated first. *)
Assign(s, n) ==
  LET rhs == Eval(s, n.rhs)
      e == Selected(rhs, n.lhs)
  IN  IF rhs.signal # "" THEN rhs
      ELSE CASE n.lhs.node = "Resolved" -> Store(rhs, n.lhs.depth, n.lhs.name, rhs.val)
             [] n.lhs.node = "Index" ->
                  Then(e.state, LAMBDA r : SetElement(r, e.handle, e.key, rhs.val))
             [] n.lhs.node \in {"DotField", "DotInt"} ->
                  Then(e.state, LAMBDA r :
                    IF e.at = 0 THEN Throw(r)
                    ELSE [r EXCEPT !.heap[e.handle].vals[e.at] = rhs.val])
             [] OTHER -> Throw(rhs)

(* and and or stop at the operand that decides. *)
Logical(s, n) ==
  LET left == Test(s, n.left)
  IN  Then(left, LAMBDA r :
        IF (n.op = "AND" /\ ~Truth(r)) \/ (n.op = "OR" /\ Truth(r)) THEN r
        ELSE Then(Test(r, n.right), LAMBDA q :
               Yield(q, IF n.op = "XOR" THEN MakeBool(Truth(r) # Truth(q)) ELSE q.val)))

BinOp(s, n) ==
  IF n.op \in {"AND", "OR", "XOR"} THEN Logical(s, n)
  ELSE LET left == Eval(s, n.left)
           right == Then(left, LAMBDA r : Eval(r, n.right))
       IN  Then(right, LAMBDA r : Binary(r, n.op, left.val, right.val))

(* A line is printed value by value; a line cut short is not modelled.     *)
Print_(s, n) ==
  LET e == EvalList(s, n.exprs, << >>)
  IN  Then(e.state, LAMBDA r :
        [r EXCEPT !.out = Append(@, [i \in DOMAIN e.vals |-> Shown(r, e.vals[i])])])

Eval(s, n) ==
  CASE n.node = "IntLit"   -> Yield(s, MakeInt(n.value))
    [] n.node = "BoolLit"  -> Yield(s, MakeBool(n.b))
    [] n.node = "StrLit"   -> Yield(s, Value("String", 0, <<n.text>>))
    [] n.node = "NoneLit"  -> Yield(s, None)
    [] n.node = "Resolved" -> Load(s, n)
    [] n.node = "BinOp"    -> BinOp(s, n)
    [] n.node = "UnaryOp"  -> Then(Eval(s, n.operand), LAMBDA r : Negated(r, n.op))
    [] n.node = "Is"       -> Then(Eval(s, n.operand), LAMBDA r :
                                   Yield(r, MakeBool(r.val.type = n.type)))
    [] n.node = "ArrayLit" -> LET e == EvalList(s, n.elems, << >>)
                              IN  Then(e.state, LAMBDA r :
                                    NewObject(r, "Array", [i \in DOMAIN e.vals |-> i], e.vals))
    [] n.node = "TupleLit" -> LET e == EvalList(s, n.elems, << >>)
                              IN  Then(e.state, LAMBDA r : NewObject(r, "Tuple", n.names, e.vals))
    [] n.node \in {"Index", "DotField", "DotInt"} -> Select(s, n)
    [] n.node = "FuncLit"  ->
         Yield([s EXCEPT !.closures = Append(@, [params |-> n.params, body |-> n.body, env |-> s.env])],
               Value("Func", Len(s.closures) + 1, << >>))
    [] n.node = "Call"     -> Call(s, n)
    [] n.node = "Program"  -> ExecAll(PushFrame(s), n.stmts)
    [] n.node = "Body"     -> Body(s, n)
    [] n.node = "VarDef"   -> VarDef(s, n)
    [] n.node = "Assign"   -> Assign(s, n)
    [] n.node = "Print"    -> Print_(s, n)
    [] n.node = "ExprStmt" -> Eval(s, n.expr)
    [] n.node \in {"If", "IfShort"} -> If(s, n)
    [] n.node \in {"While", "LoopInf"} -> Repeat(s, n)
    [] n.node = "ForRange" -> ForRange(s, n)
    [] n.node = "ForIter"  -> ForIter(s, n)
    [] n.node = "Exit"     -> [s EXCEPT !.signal = "exit"]
    [] n.node = "Return"   ->
         Then(IF n.result.node = "NoNode" THEN Yield(s, None) ELSE Eval(s, n.result),
              LAMBDA r : [r EXCEPT !.signal = "return"])

(* How a program ends and what it prints. *)
Run(program) ==
  LET s == Eval(Initial, program)
      ends == CASE s.signal = "" -> "finished"
                [] s.signal = "undefined" -> "undefined"
                [] OTHER -> "error"
  IN  [status |-> ends, out |-> s.out]
=============================================================================
