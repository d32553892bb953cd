---------------------------- MODULE MCSmMachine ----------------------------
(* Programs for SmMachine, compiled by BcCompiler.  A family of programs   *)
(* is a function from numbers, whose digits choose the parts.              *)
EXTENDS StackDiscipline, BcCompiler

Sema == INSTANCE SemanticAnalyzer
Tree == INSTANCE TreeInterpreter

(* The part of seq that k chooses; lower parts have taken what it is       *)
(* divided by.                                                             *)
Pick(seq, k) == seq[(k % Len(seq)) + 1]

X == Ident("x")
F == Ident("f")
Plus(e, n) == BinOp("ADD", e, IntLit(n))
Bump == Assign(X, Plus(X, 1))
Say(e) == PrintStmt(<<e>>)

(* A program as dbci compiles it, and whether dinterp is meant to agree on *)
(* what it does.                                                           *)
Loaded(program, agreed) == Compile(program) @@ [source |-> program, agreed |-> agreed]

Accepted == Sema!Accepts(file.source)

(* What dinterp makes of the program. *)
Reference == Tree!Run(Sema!Analyzed(file.source).tree)

-----------------------------------------------------------------------------
(* Flow: every nesting of two statements around every leaf. *)
Leaf == << Body(<<Bump>>), Body(<<Say(X)>>), Body(<<VarDef("i", Plus(X, 1)), ExprStmt(X), Say(Ident("i"))>>) >>

Nests(b) ==
  << If(BinOp("LT", X, IntLit(2)), b, NoNode),
     If(BinOp("LT", X, IntLit(2)), b, Body(<<Bump>>)),
     IfShort(BinOp("AND", BinOp("LT", X, IntLit(2)), UnaryOp("NOT", Is(X, "Bool"))), Bump),
     While(BinOp("LT", X, IntLit(3)), Body(<<Bump, b>>)),
     ForRange("i", IntLit(1), IntLit(2), b),
     ForRange("i", IntLit(2), IntLit(1), b),
     ForIter("i", ArrayLit(<<X, IntLit(5)>>), b),
     LoopInf(Body(<<Bump, b, IfShort(BinOp("GE", X, IntLit(3)), Exit)>>)) >>

FlowProgram(k) ==
  LET inner == Pick(Nests(Pick(Leaf, k \div 64)), k \div 8)
  IN  Program(<<VarDef("x", IntLit(1)), Pick(Nests(Body(<<inner>>)), k), Say(X)>>)

(* A range that descends is empty for dinterp alone. *)
FlowAgreed(k) == 5 \notin {k % 8, (k \div 8) % 8}

-----------------------------------------------------------------------------
(* Calls: a function of two statements, two uses of it. *)
P == Ident("p")
CallF(e) == Call(F, <<e>>)
Adder == FuncLit(<<"q">>, Body(<<Assign(X, BinOp("ADD", X, Ident("q"))),
                                 Return(BinOp("ADD", P, Ident("q")))>>))

InFunction ==
  << Return(Plus(P, 1)),
     Assign(X, BinOp("ADD", X, P)),
     If(BinOp("LT", P, IntLit(3)), Body(<<VarDef("y", P), Assign(X, Plus(Ident("y"), 1))>>), NoNode),
     IfShort(BinOp("GT", P, IntLit(1)), Return(CallF(BinOp("SUB", P, IntLit(1))))),
     While(BinOp("LT", X, IntLit(3)), Body(<<Bump, If(BinOp("EQ", X, P), Body(<<Return(X)>>), NoNode)>>)),
     Return(Adder),
     Return(NoNode) >>

Using ==
  << ExprStmt(CallF(X)),
     If(Is(X, "Int"), Body(<<VarDef("g", CallF(IntLit(2))), Say(Ident("g"))>>), NoNode),
     Say(CallF(X)),
     Assign(X, CallF(IntLit(2))),
     ForRange("i", IntLit(1), IntLit(2), Body(<<ExprStmt(CallF(Ident("i")))>>)),
     Say(Call(CallF(X), <<IntLit(3)>>)),
     Say(Call(F, << >>)), Assign(CallF(X), IntLit(4)) >>

CallProgram(k) ==
  Program(<<VarDef("x", IntLit(1)),
            VarDef("f", FuncLit(<<"p">>, Body(<<Pick(InFunction, k), Pick(InFunction, k \div 7)>>))),
            Pick(Using, k \div 49), Pick(Using, k \div 392), Say(X)>>)

(* Missing arguments are none for dinterp alone. *)
CallAgreed(k) == 6 \notin {(k \div 49) % 8, (k \div 392) % 8}

-----------------------------------------------------------------------------
(* Data: every operator on every two values; arrays and tuples that share. *)
Values ==
  << IntLit(0), IntLit(2), UnaryOp("UMINUS", IntLit(3)), BoolLit(TRUE), BoolLit(FALSE), NoneLit,
     StrLit("s"), StrLit("t"), ArrayLit(<< >>), ArrayLit(<<IntLit(1)>>),
     TupleLit(<<"a", "">>, <<IntLit(1), IntLit(2)>>), TupleLit(<< >>, << >>),
     FuncLit(<< >>, Body(<< >>)) >>

Operators == <<"ADD", "SUB", "MUL", "DIV", "LT", "LE", "GT", "GE", "EQ", "NEQ", "XOR", "AND", "OR">>

OperatorProgram(k) ==
  Program(<<VarDef("x", Pick(Values, k \div 13)),
            Say(BinOp(Pick(Operators, k), X, Pick(Values, k \div 169)))>>)

(* Equality is defined for fewer types by dbci, and the concatenation of   *)
(* tuples whose names clash; division rounds otherwise.                    *)
Kinds == <<"Int", "Int", "Int", "Bool", "Bool", "None", "String", "String", "Array", "Array",
           "Tuple", "Tuple", "Func">>
OperatorAgreed(k) ==
  LET op == Pick(Operators, k)
      left == Pick(Kinds, k \div 13)
      right == Pick(Kinds, k \div 169)
  IN  /\ op # "DIV"
      /\ op \in {"EQ", "NEQ"} => left \in Sized \/ (left = "Int" /\ right = "Int")
      /\ op = "ADD" => left # "Tuple" \/ right # "Tuple"

A == Ident("a")
Elem(n) == Index(A, IntLit(n))
T == Ident("t")

OnArray ==
  << Assign(Elem(1), IntLit(7)), Assign(Elem(3), IntLit(8)), Say(Elem(2)), Say(A),
     Assign(Ident("b"), A), Assign(Index(Ident("b"), IntLit(1)), IntLit(5)), Assign(A, BinOp("ADD", A, A)),
     ForIter("i", A, Body(<<Assign(Ident("i"), IntLit(9))>>)),
     Assign(DotField(T, "u"), A), Assign(DotInt(T, 2), Elem(1)), Say(T),
     Say(DotInt(T, 3)), Say(BinOp("EQ", A, DotField(T, "u"))), Say(Index(T, IntLit(1))),
     Assign(X, IntLit(1)), ForIter("i", T, Body(<< >>)), Say(DotField(T, "z")),
     Say(BinOp("EQ", BinOp("ADD", T, TupleLit(<<"z">>, <<A>>)), T)),
     Say(Elem(4)), Assign(A, IntLit(1)), ForRange("i", IntLit(1), StrLit("s"), Body(<< >>)),
     Say(DotInt(T, 0)) >>

ArrayProgram(k) ==
  Program(<<VarDef("a", ArrayLit(<<IntLit(1), IntLit(2)>>)),
            VarDef("t", TupleLit(<<"u", "">>, <<A, NoneLit>>)),
            VarDef("b", NoneLit), VarDef("x", NoneLit),
            Pick(OnArray, k), Pick(OnArray, k \div 22), Say(A), Say(T)>>)

(* Nor do they agree on = of aggregates, on loops over tuples, on ranges   *)
(* over other things than integers, and on the elements that an array      *)
(* shares with the concatenation it is part of.                            *)
ArrayAgreed(k) ==
  LET first == k % 22
      second == (k \div 22) % 22
  IN  /\ {first, second} \cap {12, 15, 20} = {}
      /\ ~(first = 6 /\ second \in {0, 1})

(* An element at a negative index, which the order of dinterp puts first,   *)
(* and an element inserted into keys that concat has left out of order.     *)
(* A loop over the array would go on adding the elements it looks for.      *)
NegativeProgram(k) ==
  Program(<<VarDef("a", ArrayLit(<<IntLit(1), IntLit(2)>>)),
            Assign(Index(A, UnaryOp("UMINUS", IntLit(1))), IntLit(6)),
            Pick(<<Say(Elem(3)), Assign(A, BinOp("ADD", A, A))>>, k), Say(A),
            Assign(Elem(7), IntLit(8)), Say(A)>>)

-----------------------------------------------------------------------------
(* Two operands of which the second may assign the variable that the first *)
(* reads, or that the first is a reference to.                             *)
Operands == <<X, CallF(IntLit(2)), IntLit(3), Plus(X, 1)>>
Taking(l, r) ==
  << Say(BinOp("ADD", l, r)), PrintStmt(<<l, r>>), Say(ArrayLit(<<l, r>>)),
     Say(Call(Ident("g"), <<l, r>>)) >>

OrderProgram(k) ==
  Program(<<VarDef("x", IntLit(1)),
            VarDef("f", FuncLit(<<"p">>, Body(<<Assign(X, BinOp("ADD", X, P)), Return(X)>>))),
            VarDef("g", FuncLit(<<"p", "q">>, Body(<<Return(BinOp("SUB", P, Ident("q")))>>))),
            Pick(Taking(Pick(Operands, k), Pick(Operands, k \div 4)), k \div 16), Say(X)>>)

(* dinterp takes the value of an operand before it evaluates the next.     *)
(* dbci takes a reference, but in an array literal, and goes through the   *)
(* operands of print from the last.                                        *)
OrderAgreed(k) ==
  LET left == k % 4
      right == (k \div 4) % 4
      form == (k \div 16) % 4
  IN  CASE form \in {0, 3} -> right # 1 \/ left \in {2, 3}
        [] form = 1        -> (right # 1 \/ left = 2) /\ (left # 1 \/ right # 3)
        [] form = 2        -> TRUE

-----------------------------------------------------------------------------
(* A variable declared without a value in a loop: none in dinterp, but in  *)
(* dbci what the iteration before has left, as the none of a local is put  *)
(* there when the frame is built.                                          *)
ValuelessProgram(k) ==
  LET body == Body(<<VarDef("y", NoNode), Say(Ident("y")), Assign(Ident("y"), X), Bump>>)
  IN  Program(<<VarDef("x", IntLit(1)),
                Pick(<<While(BinOp("LT", X, IntLit(3)), body),
                       ForRange("i", IntLit(1), IntLit(2), body)>>, k), Say(X)>>)

(* The runs' programs.  All of them but those for the findings: *)
Everything ==
  [k \in 1..192 + 1568 + 2197 + 484 + 64 + 2 + 2 |->
     CASE k \in 1..192 -> Loaded(FlowProgram(k), FlowAgreed(k))
       [] k \in 193..1760 -> Loaded(CallProgram(k - 192), CallAgreed(k - 192))
       [] k \in 1761..3957 -> Loaded(OperatorProgram(k - 1760), OperatorAgreed(k - 1760))
       [] k \in 3958..4441 -> Loaded(ArrayProgram(k - 3957), ArrayAgreed(k - 3957))
       [] k \in 4442..4505 -> Loaded(OrderProgram(k - 4441), OrderAgreed(k - 4441))
       [] k \in 4506..4507 -> Loaded(NegativeProgram(k), FALSE)
       [] OTHER -> Loaded(ValuelessProgram(k), FALSE)]

(* return from within a for loop, then calls that allocate. *)
ReturnsInFor ==
  LET in == << ForRange("i", IntLit(1), IntLit(2), Body(<<Return(P)>>)),
               ForIter("i", ArrayLit(<<P>>), Body(<<Return(Ident("i"))>>)) >>
  IN  [k \in 1..2 |->
         Loaded(Program(<<VarDef("f", FuncLit(<<"p">>, Body(<<in[k]>>))),
                          Say(CallF(IntLit(2))), Say(CallF(IntLit(3)))>>), TRUE)]

(* exit from the other loops, alone and within an infinite one. *)
ExitsElsewhere ==
  LET leaving == << While(BinOp("LT", X, IntLit(9)), Body(<<Bump, Exit>>)),
                    ForRange("i", IntLit(1), IntLit(3), Body(<<Bump, Exit>>)),
                    ForIter("i", ArrayLit(<<X, X>>), Body(<<Bump, Exit>>)) >>
  IN  [k \in 1..6 |->
         Loaded(Program(<<VarDef("x", IntLit(1)),
                          IF k <= 3 THEN leaving[k]
                          ELSE LoopInf(Body(<<leaving[k - 3],
                                              IfShort(BinOp("GE", X, IntLit(4)), Exit)>>)),
                          Say(X)>>), TRUE)]

(* Loops over tuples and over an array without its first elements. *)
LoopsOverAggregates ==
  LET made == << <<VarDef("a", ArrayLit(<< >>)), Assign(Elem(3), IntLit(7))>>,
                 <<VarDef("a", TupleLit(<<"u", "">>, <<IntLit(7), IntLit(8)>>))>> >>
  IN  [k \in 1..2 |->
         Loaded(Program(made[k] \o <<ForIter("i", A, Body(<<Say(Ident("i"))>>))>>), TRUE)]

-----------------------------------------------------------------------------
(* The height of the operand stack at each instruction of a code, from the *)
(* first instruction that leads to it.                                     *)
RECURSIVE HeightsFrom(_, _, _)
HeightsFrom(f, code, heights) ==
  LET i == Len(heights) + 1
      before == {j \in DOMAIN heights : heights[j] # Unreached /\ i \in Successors(code, j)}
  IN  IF i > Len(code) + 1 THEN heights
      ELSE HeightsFrom(f, code,
             Append(heights, IF before = {} THEN Unreached
                             ELSE HeightAfter(f, code, heights, Min(before))))

Heights(f) == [s \in DOMAIN f.functions |-> HeightsFrom(f, f.functions[s].code, <<0>>)]

(* Compiled code reaches every instruction with one height of the operand  *)
(* stack: no construct leaves an operand behind or takes one too many.     *)
CompiledCodeIsVerified ==
  pc = 1 /\ Depth = 1 => Accepted /\ file.error = "" /\ Verified(file, Heights(file))

(* The machine holds the operands that the code says, in every frame.      *)
OperandsAsCompiled == HeightsFollowed(Heights(file))

(* A program that dinterp runs to its end, with every step defined, dbci   *)
(* runs to its end with the same output: the suite keeps one expected      *)
(* output for both.                                                        *)
SameOutput ==
  status # "running" /\ file.agreed /\ Reference.status = "finished"
    => status = "finished" /\ out = Reference.out

-----------------------------------------------------------------------------
(* Properties that statements of the language or of the tests call for and *)
(* the machine does not have.                                              *)

(* "Return statement performs leaving a function perhaps with returning a  *)
(* result value to the calling context": the caller goes on with all       *)
(* behaviour defined (the programs divide by nothing).                     *)
ReturnIsDefined == status # "undefined"

(* "The exit statement can appear only within loop statements", and ends   *)
(* the loop it is in: while and for as well as loop.                       *)
ExitLeavesItsLoop ==
  status # "running" => status = "finished" /\ out = Reference.out

(* "the loop iterates over all elements of the corresponding aggregate",   *)
(* an array or a tuple, and over nothing else.                             *)
LoopsVisitTheElements ==
  status # "running" => status = "finished" /\ out = Reference.out
=============================================================================
