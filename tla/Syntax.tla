------------------------------- MODULE Syntax -------------------------------
(* The syntax trees of the D language (src/ast.hpp), as the parser builds  *)
(* them: one constructor per node class.  Names are strings; a tuple       *)
(* element has the name "" when the source gives it none.                  *)

NoNode == [node |-> "NoNode"]

IntLit(value)    == [node |-> "IntLit", value |-> value]
BoolLit(b)       == [node |-> "BoolLit", b |-> b]
StrLit(text)     == [node |-> "StrLit", text |-> text]
NoneLit          == [node |-> "NoneLit"]
Ident(name)      == [node |-> "Ident", name |-> name]
BinOp(op, left, right) == [node |-> "BinOp", op |-> op, left |-> left, right |-> right]
UnaryOp(op, operand) == [node |-> "UnaryOp", op |-> op, operand |-> operand]
Is(operand, type) == [node |-> "Is", operand |-> operand, type |-> type]
ArrayLit(elems)  == [node |-> "ArrayLit", elems |-> elems]
TupleLit(names, elems) == [node |-> "TupleLit", names |-> names, elems |-> elems]
Index(base, index) == [node |-> "Index", base |-> base, index |-> index]
DotField(base, field) == [node |-> "DotField", base |-> base, field |-> field]
DotInt(base, position) == [node |-> "DotInt", base |-> base, position |-> position]
FuncLit(params, body) == [node |-> "FuncLit", params |-> params, body |-> body]
Call(callee, args) == [node |-> "Call", callee |-> callee, args |-> args]

Program(stmts)   == [node |-> "Program", stmts |-> stmts]
Body(stmts)      == [node |-> "Body", stmts |-> stmts]
VarDef(name, init) == [node |-> "VarDef", name |-> name, init |-> init]
Assign(lhs, rhs) == [node |-> "Assign", lhs |-> lhs, rhs |-> rhs]
PrintStmt(exprs) == [node |-> "Print", exprs |-> exprs]
ExprStmt(expr)   == [node |-> "ExprStmt", expr |-> expr]
Return(result)   == [node |-> "Return", result |-> result]
Exit             == [node |-> "Exit"]
If(cond, then, else) == [node |-> "If", cond |-> cond, then |-> then, else |-> else]
IfShort(cond, stmt) == [node |-> "IfShort", cond |-> cond, stmt |-> stmt]
While(cond, body) == [node |-> "While", cond |-> cond, body |-> body]
ForRange(iter, from, to, body) ==
  [node |-> "ForRange", iter |-> iter, from |-> from, to |-> to, body |-> body]
ForIter(iter, iterable, body) ==
  [node |-> "ForIter", iter |-> iter, iterable |-> iterable, body |-> body]
LoopInf(body)    == [node |-> "LoopInf", body |-> body]
=============================================================================
