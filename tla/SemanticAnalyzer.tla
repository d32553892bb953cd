-------------------------- MODULE SemanticAnalyzer --------------------------
(* The semantic analyser (src/semantic_analyzer.cpp): a walk over the      *)
(* syntax tree with a stack of scopes that finds what may not be run, and  *)
(* that notes at every use of a name how many scopes out it is declared    *)
(* (resolved_depth).  The tree interpreter finds variables by that number  *)
(* alone.  Only in modules that TLC runs.                                  *)
EXTENDS Syntax, Naturals, FiniteSetsExt, SequencesExt

(* The analyser's state, and the tree as annotated so far. *)
Initial == [scopes |-> <<{}>>, loops |-> 0, funcs |-> 0, errors |-> 0, tree |-> NoNode]

Error(st) == [st EXCEPT !.errors = @ + 1]

PushScope(st) == [st EXCEPT !.scopes = Append(@, {})]
PopScope(st)  == [st EXCEPT !.scopes = Front(@)]

Declare(st, name) ==
  LET k == Len(st.scopes)
  IN  IF name \in st.scopes[k] THEN Error(st)
      ELSE [st EXCEPT !.scopes[k] = @ \cup {name}]

(* The iteration variable of a loop without one has no name. *)
DeclareIter(st, name) == IF name = "" THEN st ELSE Declare(st, name)

VisitIdent(st, n) ==
  LET in == {k \in DOMAIN st.scopes : n.name \in st.scopes[k]}
  IN  IF in = {} THEN [Error(st) EXCEPT !.tree = n]
      ELSE [st EXCEPT !.tree = [node |-> "Resolved", name |-> n.name,
                                depth |-> Len(st.scopes) - Max(in)]]

(* The children of a node in the order they are visited; some are lists. *)
Lists == {"args", "elems", "stmts", "exprs"}
Children(n) ==
  CASE n.node = "BinOp" -> <<"left", "right">>
    [] n.node \in {"UnaryOp", "Is"} -> <<"operand">>
    [] n.node = "Index" -> <<"base", "index">>
    [] n.node \in {"DotField", "DotInt"} -> <<"base">>
    [] n.node = "Call" -> <<"callee", "args">>
    [] n.node \in {"ArrayLit", "TupleLit"} -> <<"elems">>
    [] n.node \in {"Program", "Body"} -> <<"stmts">>
    [] n.node = "Assign" -> <<"lhs", "rhs">>
    [] n.node = "Print" -> <<"exprs">>
    [] n.node = "ExprStmt" -> <<"expr">>
    [] n.node = "If" -> <<"cond", "then", "else">>
    [] n.node = "IfShort" -> <<"cond", "stmt">>
    [] n.node = "While" -> <<"cond", "body">>
    [] n.node = "ForRange" -> <<"from", "to", "body">>
    [] n.node = "ForIter" -> <<"iterable", "body">>
    [] n.node \in {"LoopInf", "FuncLit"} -> <<"body">>
    [] n.node = "Return" -> <<"result">>
    [] n.node = "VarDef" -> <<"init">>
    [] OTHER -> << >>

RECURSIVE Visit(_, _), VisitList(_, _, _)

(* The members of a list from the i-th on. *)
VisitList(st, nodes, i) ==
  IF i > Len(nodes) THEN [st EXCEPT !.tree = nodes]
  ELSE LET one == Visit(st, nodes[i])
       IN  VisitList(one, [nodes EXCEPT ![i] = one.tree], i + 1)

(* The children of n that fields names. *)
RECURSIVE VisitChildren(_, _, _)
VisitChildren(st, n, fields) ==
  IF fields = << >> THEN [st EXCEPT !.tree = n]
  ELSE LET f == Head(fields)
           done == IF f \in Lists THEN VisitList(st, n[f], 1) ELSE Visit(st, n[f])
       IN  VisitChildren(done, [n EXCEPT ![f] = done.tree], Tail(fields))

(* A function is in the scope of its own body, another initial value is    *)
(* not in the scope of the variable.                                       *)
VisitVarDef(st, n) ==
  IF n.init.node = "FuncLit" THEN VisitChildren(Declare(st, n.name), n, <<"init">>)
  ELSE Declare(VisitChildren(st, n, <<"init">>), n.name)

InLoop(st) == [st EXCEPT !.loops = @ + 1]
OutOfLoop(st) == [st EXCEPT !.loops = @ - 1]

(* The bounds, or the aggregate, are outside the scope of the loop. *)
VisitFor(st, n) ==
  LET head == VisitChildren(st, n, Front(Children(n)))
      into == DeclareIter(PushScope(InLoop(head)), n.iter)
  IN  PopScope(OutOfLoop(VisitChildren(into, head.tree, <<"body">>)))

VisitWhile(st, n) ==
  LET head == VisitChildren(st, n, Front(Children(n)))
  IN  OutOfLoop(VisitChildren(InLoop(head), head.tree, <<"body">>))

(* The loops around a function literal still count in its body. *)
VisitFuncLit(st, n) ==
  LET into == FoldLeft(Declare, PushScope([st EXCEPT !.funcs = @ + 1]), n.params)
      body == VisitChildren(into, n, <<"body">>)
  IN  PopScope([body EXCEPT !.funcs = @ - 1])

Visit(st, n) ==
  CASE n.node = "Ident" -> VisitIdent(st, n)
    [] n.node = "VarDef" -> VisitVarDef(st, n)
    [] n.node = "Body" -> PopScope(VisitChildren(PushScope(st), n, <<"stmts">>))
    [] n.node \in {"While", "LoopInf"} -> VisitWhile(st, n)
    [] n.node \in {"ForRange", "ForIter"} -> VisitFor(st, n)
    [] n.node = "FuncLit" -> VisitFuncLit(st, n)
    [] n.node = "Exit" -> [IF st.loops = 0 THEN Error(st) ELSE st EXCEPT !.tree = n]
    [] n.node = "Return" /\ st.funcs = 0 -> VisitChildren(Error(st), n, <<"result">>)
    [] OTHER -> VisitChildren(st, n, Children(n))

Analyzed(program) == Visit(Initial, program)
Accepts(program) == Analyzed(program).errors = 0
=============================================================================
