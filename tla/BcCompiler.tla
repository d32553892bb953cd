----------------------------- MODULE BcCompiler -----------------------------
(* The bytecode compiler (src/bc_compiler.cpp): a walk over the syntax     *)
(* tree that appends instructions to the code of the function being        *)
(* compiled, with the stack of enclosing functions (telescope) to resolve  *)
(* names in, and the stack of exit labels of the loops.                    *)
(*                                                                         *)
(* A visitor takes the compiler's state and returns the next one.  The     *)
(* first thing that goes wrong is kept in error: "throws" for a C++        *)
(* exception, "undefined" for undefined behaviour.  Only in modules that   *)
(* TLC runs: the walk is a RECURSIVE operator.                             *)
EXTENDS Bytecode, Syntax, FiniteSets, SequencesExt

-----------------------------------------------------------------------------
(* class Function: a function being compiled, and its scopes *)

NewFunction(args) ==
  [args |-> Len(args), locals |-> 0, capture |-> << >>,
   scopes |-> <<[a \in Range(args) |->
                   Location("ARGUMENT", Max({i \in DOMAIN args : args[i] = a}))]>>]

PushScope(f) == [f EXCEPT !.scopes = Append(@, << >>)]
PopScope(f)  == [f EXCEPT !.scopes = SubSeq(@, 1, Len(@) - 1)]

NextLocal(f) == Location("LOCAL", f.locals + 1)

AddLocal(f, name) ==
  [f EXCEPT !.locals = @ + 1,
            !.scopes[Len(f.scopes)] = (name :> NextLocal(f)) @@ @]

NextCaptured(f) == Location("CAPTURED", Len(f.capture) + 1)

AddCaptured(f, name, from) ==
  [f EXCEPT !.capture = Append(@, from),
            !.scopes[1] = (name :> NextCaptured(f)) @@ @]

ResolveIn(f, name) ==
  LET declaring == {k \in DOMAIN f.scopes : name \in DOMAIN f.scopes[k]}
  IN  IF declaring = {} THEN NoLocation ELSE f.scopes[Max(declaring)][name]

-----------------------------------------------------------------------------
(* The compiler's state *)

Initial ==
  [functions |-> << >>, tuples |-> << >>, strings |-> << >>, telescope |-> << >>,
   code |-> << >>, labels |-> 0, exits |-> << >>, error |-> ""]

Fail(st, error) == IF st.error = "" THEN [st EXCEPT !.error = error] ELSE st

Current(st) == Last(st.telescope)
WithCurrent(st, f) == [st EXCEPT !.telescope[Len(st.telescope)] = f]

Emit(st, bc) == [st EXCEPT !.code = Append(@, bc)]
EmitAll(st, bcs) == [st EXCEPT !.code = @ \o bcs]
NewLabels(st, n) == [st EXCEPT !.labels = @ + n]
Label(l) == Op("LABEL", l)

AddString(st, text) ==
  IF text \in Range(st.strings) THEN st ELSE [st EXCEPT !.strings = Append(@, text)]
StringNumber(st, text) == CHOOSE i \in DOMAIN st.strings : st.strings[i] = text

(* The position of label l once the labels are gone. *)
LabelPosition(code, l) ==
  LET k == CHOOSE i \in DOMAIN code : code[i] = Label(l)
  IN  1 + Cardinality({i \in 1..k - 1 : code[i].op # "LABEL"})

Jumps == {"JMP", "CJMPZ"}
HasLabel(code, l) == \E i \in DOMAIN code : code[i] = Label(l)

LabelsMissing(code) ==
  \E i \in DOMAIN code : code[i].op \in Jumps /\ ~HasLabel(code, code[i].n)

(* (The concatenation makes TLC evaluate the sequence once.) *)
ResolvedLabels(code) ==
  LET kept == SelectSeq(code, LAMBDA bc : bc.op # "LABEL")
  IN  << >> \o [i \in DOMAIN kept |->
                  IF kept[i].op \in Jumps /\ HasLabel(code, kept[i].n)
                  THEN [kept[i] EXCEPT !.n = LabelPosition(code, @)] ELSE kept[i]]

PushFunction(st, args) == [st EXCEPT !.telescope = Append(@, NewFunction(args))]

(* The scheme of the innermost function joins the file; map::at throws for *)
(* a label that its code does not hold.                                    *)
PopFunction(st) ==
  LET f == Current(st)
      scheme == [code |-> ResolvedLabels(st.code), args |-> f.args,
                 locals |-> f.locals, capture |-> f.capture]
      done == [st EXCEPT !.functions = Append(@, scheme), !.telescope = Front(@),
                         !.code = << >>]
  IN  IF LabelsMissing(st.code) THEN Fail(done, "throws") ELSE done

(* The location of name in the functions up to the k-th, which captures it *)
(* from the ones around it if it has to.                                   *)
RECURSIVE Capture(_, _, _)
Capture(telescope, name, k) ==
  IF k = 1 THEN [telescope |-> telescope, loc |-> NoLocation]
  ELSE LET there  == ResolveIn(telescope[k - 1], name)
           parent == IF there # NoLocation THEN [telescope |-> telescope, loc |-> there]
                     ELSE Capture(telescope, name, k - 1)
       IN  IF parent.loc = NoLocation THEN parent
           ELSE [telescope |-> [parent.telescope EXCEPT
                                  ![k] = AddCaptured(@, name, parent.loc)],
                 loc |-> NextCaptured(parent.telescope[k])]

Resolve(st, name) ==
  LET here == ResolveIn(Current(st), name)
  IN  IF here # NoLocation THEN [telescope |-> st.telescope, loc |-> here]
      ELSE Capture(st.telescope, name, Len(st.telescope))

-----------------------------------------------------------------------------
(* The visitors *)

RECURSIVE Visit(_, _), VisitAll(_, _)

(* Nothing is visited after an error. *)
VisitAll(st, nodes) ==
  IF nodes = << >> \/ st.error # "" THEN st
  ELSE VisitAll(Visit(st, Head(nodes)), Tail(nodes))

VisitVarDef(st, n) ==
  LET f   == Current(st)
      new == WithCurrent(st, AddLocal(f, n.name))
  IN  IF n.init.node = "NoNode" THEN new
      ELSE Emit(Visit(new, n.init), At("ST", NextLocal(f)))

VisitIdent(st, n) ==
  LET found == Resolve(st, n.name)
  IN  IF found.loc = NoLocation THEN Fail(st, "throws")
      ELSE Emit([st EXCEPT !.telescope = found.telescope], At("LD", found.loc))

VisitBody(st, n) ==
  LET inner == VisitAll(WithCurrent(st, PushScope(Current(st))), n.stmts)
  IN  WithCurrent(inner, PopScope(Current(inner)))

(* The outer code is set aside; the exit labels of the loops are not.      *)
VisitFuncLit(st, n) ==
  LET inner == Visit(PushFunction([st EXCEPT !.code = << >>], n.params), n.body)
      done  == PopFunction(inner)
  IN  Emit([done EXCEPT !.code = st.code], Op("CLOSURE", Len(done.functions)))

VisitBinOp(st, n) ==
  LET left == Visit(st, n.left)
      L1 == left.labels
      L2 == L1 + 1
      labelled == NewLabels(left, 2)
  IN  CASE n.op = "AND" ->
             EmitAll(Visit(Emit(labelled, Op("CJMPZ", L1)), n.right),
                     <<Op("JMP", L2), Label(L1), Op("BOOL", 0), Label(L2)>>)
        [] n.op = "OR" ->
             Emit(Visit(EmitAll(labelled,
                                <<Op("CJMPZ", L1), Op("BOOL", 1), Op("JMP", L2), Label(L1)>>),
                        n.right),
                  Label(L2))
        [] OTHER -> Emit(Visit(left, n.right), Typed("BINOP", n.op))

VisitUnaryOp(st, n) ==
  CASE n.op = "UPLUS" -> Visit(st, n.operand)
    [] n.op = "UMINUS" ->
         Emit(Visit(Emit(st, Op("CONST", 0)), n.operand), Typed("BINOP", "SUB"))
    [] n.op = "NOT" ->
         Emit(Visit(Emit(st, Op("BOOL", 1)), n.operand), Typed("BINOP", "XOR"))

VisitArrayLit(st, n) ==
  FoldLeft(LAMBDA s, i : Emit(Visit(EmitAll(s, <<Op0("DUP"), Op("CONST", i)>>), n.elems[i]),
                              Op0("STA")),
           Emit(st, Op0("ARRAY")), [i \in DOMAIN n.elems |-> i])

(* A field is the number of its name in the string table, 0 for no name;   *)
(* the scheme lists them from the last.                                    *)
VisitTupleLit(st, n) ==
  LET named  == FoldLeft(AddString, st, SelectSeq(n.names, LAMBDA name : name # ""))
      fields == [i \in DOMAIN n.names |->
                   IF n.names[i] = "" THEN 0 ELSE StringNumber(named, n.names[i])]
      scheme == [named EXCEPT !.tuples = Append(@, Reverse(fields))]
  IN  Emit(VisitAll(scheme, n.elems), Op("TUPLE", Len(scheme.tuples)))

VisitDotField(st, n) ==
  LET named == AddString(st, n.field)
  IN  Emit(Visit(named, n.base), Op("LDT", StringNumber(named, n.field)))

CompileIfThen(st, cond, then) ==
  LET L1 == st.labels
      test == Emit(Visit(NewLabels(st, 1), cond), Op("CJMPZ", L1))
  IN  Emit(Visit(test, then), Label(L1))

VisitIf(st, n) ==
  LET L1 == st.labels
      L2 == L1 + 1
      test == Emit(Visit(NewLabels(st, 2), n.cond), Op("CJMPZ", L1))
      then == EmitAll(Visit(test, n.then), <<Op("JMP", L2), Label(L1)>>)
  IN  IF n.else.node = "NoNode" THEN CompileIfThen(st, n.cond, n.then)
      ELSE Emit(Visit(then, n.else), Label(L2))

VisitWhile(st, n) ==
  LET entry == st.labels
      exit == entry + 1
      test == Emit(Visit(Emit(NewLabels(st, 2), Label(entry)), n.cond), Op("CJMPZ", exit))
  IN  EmitAll(Visit(test, n.body), <<Op("JMP", entry), Label(exit)>>)

(* The bound stays on the operand stack while the loop runs. *)
VisitForRangeNoDrop(st, n) ==
  LET L1 == st.labels
      L2 == L1 + 1
      from == Visit(NewLabels(st, 2), n.from)
      fr   == NextLocal(Current(from))
      to   == Visit(Emit(WithCurrent(from, AddLocal(PushScope(Current(from)), n.iter)),
                         At("ST", fr)),
                    n.to)
      body == Visit(Emit(to, Label(L1)), n.body)
      loop == EmitAll(body,
                <<Op0("DUP"), At("LD", fr), Typed("BINOP", "NEQ"), Op("CJMPZ", L2),
                  Op0("DUP"), At("LD", fr), Op0("RNGSPC"), At("ST", fr), Op("JMP", L1),
                  Label(L2)>>)
  IN  WithCurrent(loop, PopScope(Current(loop)))

VisitForRange(st, n) ==
  LET L1 == st.labels
      L2 == L1 + 1
      from == Visit(NewLabels(st, 2), n.from)
      fr   == NextLocal(Current(from))
      to   == Visit(Emit(WithCurrent(from, AddLocal(PushScope(Current(from)), n.iter)),
                         At("ST", fr)),
                    n.to)
      body == Visit(Emit(to, Label(L1)), n.body)
      loop == EmitAll(body,
                <<Op0("DUP"), At("LD", fr), Typed("BINOP", "NEQ"), Op("CJMPZ", L2),
                  Op0("DUP"), At("LD", fr), Op0("RNGSPC"), At("ST", fr), Op("JMP", L1),
                  Label(L2), Op0("DROP")>>)
  IN  WithCurrent(loop, PopScope(Current(loop)))

(* The aggregate stays on the operand stack while the loop runs; an        *)
(* unnamed local counts its positions.                                     *)
VisitForIter(st, n) ==
  LET entry == st.labels
      exit  == entry + 1
      over  == Visit(NewLabels(st, 2), n.iterable)
      var   == NextLocal(Current(over))
      inVar == AddLocal(PushScope(Current(over)), n.iter)
      count == NextLocal(inVar)
      head  == EmitAll(WithCurrent(over, AddLocal(inVar, "")),
                 <<Op("CONST", 0), At("ST", count), Label(entry),
                   Op0("DUP"), Op0("LENGTH"), At("LD", count), Typed("BINOP", "NEQ"),
                   Op("CJMPZ", exit),
                   Op0("DUP"), At("LD", count), Op("CONST", 1), Typed("BINOP", "ADD"),
                   At("ST", count), At("LD", count), Op0("LDA"), At("ST", var)>>)
      body  == Visit(head, n.body)
  IN  EmitAll(WithCurrent(body, PopScope(Current(body))),
              <<Op("JMP", entry), Label(exit), Op0("DROP")>>)

VisitLoopInf(st, n) ==
  LET entry == st.labels
      exit == entry + 1
      into == [Emit(NewLabels(st, 2), Label(entry)) EXCEPT !.exits = Append(@, exit)]
      body == Visit(into, n.body)
  IN  EmitAll([body EXCEPT !.exits = Front(@)], <<Op("JMP", entry), Label(exit)>>)

VisitExit(st) ==
  IF st.exits = << >> THEN Fail(st, "undefined") ELSE Emit(st, Op("JMP", Last(st.exits)))

VisitReturn(st, n) ==
  Emit(IF n.result.node = "NoNode" THEN Emit(st, Op0("NONE")) ELSE Visit(st, n.result),
       Op0("RET"))

VisitCall(st, n) ==
  Emit(Visit(VisitAll(st, n.args), n.callee), Op("CALLC", Len(n.args)))

VisitStrLit(st, n) ==
  LET named == AddString(st, n.text)
  IN  Emit(named, Op("STRING", StringNumber(named, n.text)))

Visit(st, n) ==
  CASE n.node = "IntLit"   -> Emit(st, Op("CONST", n.value))
    [] n.node = "BoolLit"  -> Emit(st, Op("BOOL", IF n.b THEN 1 ELSE 0))
    [] n.node = "NoneLit"  -> Emit(st, Op0("NONE"))
    [] n.node = "StrLit"   -> VisitStrLit(st, n)
    [] n.node = "Ident"    -> VisitIdent(st, n)
    [] n.node = "BinOp"    -> VisitBinOp(st, n)
    [] n.node = "UnaryOp"  -> VisitUnaryOp(st, n)
    [] n.node = "Is"       -> Emit(Visit(st, n.operand), Typed("ISTYPE", n.type))
    [] n.node = "ArrayLit" -> VisitArrayLit(st, n)
    [] n.node = "TupleLit" -> VisitTupleLit(st, n)
    [] n.node = "Index"    -> Emit(Visit(Visit(st, n.base), n.index), Op0("LDA"))
    [] n.node = "DotField" -> VisitDotField(st, n)
    [] n.node = "DotInt"   -> Emit(Visit(st, n.base), Op("LDT", -n.position))
    [] n.node = "FuncLit"  -> VisitFuncLit(st, n)
    [] n.node = "Call"     -> VisitCall(st, n)
    [] n.node = "Program"  -> PopFunction(VisitAll(PushFunction(st, << >>), n.stmts))
    [] n.node = "Body"     -> VisitBody(st, n)
    [] n.node = "VarDef"   -> VisitVarDef(st, n)
    [] n.node = "Assign"   -> Emit(Visit(Visit(st, n.lhs), n.rhs), Op0("STD"))
    [] n.node = "Print"    -> Emit(VisitAll(st, Reverse(n.exprs)), Op("PRINT", Len(n.exprs)))
    [] n.node = "ExprStmt" -> Emit(Visit(st, n.expr), Op0("DROP"))
    [] n.node = "If"       -> VisitIf(st, n)
    [] n.node = "IfShort"  -> CompileIfThen(st, n.cond, n.stmt)
    [] n.node = "While"    -> VisitWhile(st, n)
    [] n.node = "ForRange" -> VisitForRange(st, n)
    [] n.node = "ForIter"  -> VisitForIter(st, n)
    [] n.node = "LoopInf"  -> VisitLoopInf(st, n)
    [] n.node = "Exit"     -> VisitExit(st)
    [] n.node = "Return"   -> VisitReturn(st, n)

(* The file: main is the function finished last. *)
Compile(program) ==
  LET st == Visit(Initial, program)
  IN  [functions |-> st.functions, tuples |-> st.tuples, strings |-> st.strings,
       main |-> Len(st.functions), error |-> st.error]
=============================================================================
