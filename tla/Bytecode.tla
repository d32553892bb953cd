------------------------------ MODULE Bytecode ------------------------------
(* The stack machine's program format (src/bytecode.hpp): instructions,    *)
(* variable locations, function schemes, and what each instruction takes   *)
(* from and leaves on the operand stack.  Indices start at 1 here.         *)
EXTENDS Integers, Sequences

(* An instruction: its opcode, and its immediates.  kind is the LocTypes   *)
(* of a location, the operator of BINOP or the type of ISTYPE; n is an     *)
(* index, a constant, a count or a jump target.                            *)
Op(op, n) == [op |-> op, kind |-> "", n |-> n]
Op0(op) == Op(op, 0)
Typed(op, kind) == [op |-> op, kind |-> kind, n |-> 0]

Location(type, index) == [type |-> type, index |-> index]
NoLocation == Location("NOWHERE", 0)
At(op, loc) == [op |-> op, kind |-> loc.type, n |-> loc.index]

(* The types of values, as ISTYPE tests them. *)
ValueTypes == {"None", "Int", "Bool", "String", "Array", "Tuple", "Func"}

(* How many operands an instruction of the file pops: the stack_operand    *)
(* comments of the enum, and what the interpreter does.                    *)
Pops(file, bc) ==
  CASE bc.op \in {"BINOP", "LDA", "STD", "RNGSPC"} -> 2
    [] bc.op \in {"LDT", "ST", "RET", "DROP", "DUP", "ISTYPE", "LENGTH", "CJMPZ"} -> 1
    [] bc.op = "STA" -> 3
    [] bc.op = "TUPLE" -> Len(file.tuples[bc.n])
    [] bc.op = "CALLC" -> bc.n + 1
    [] bc.op = "PRINT" -> bc.n
    [] OTHER -> 0

(* How many it has pushed by the time the next instruction of the same     *)
(* function runs.                                                          *)
Pushes(bc) ==
  CASE bc.op = "DUP" -> 2
    [] bc.op \in {"ST", "STA", "STD", "JMP", "RET", "DROP", "CJMPZ", "PRINT"} -> 0
    [] OTHER -> 1

(* Where control can go from instruction i of a code; one past the end is  *)
(* the return that needs no instruction.                                   *)
Successors(code, i) ==
  CASE code[i].op = "JMP" -> {code[i].n}
    [] code[i].op = "CJMPZ" -> {i + 1, code[i].n}
    [] code[i].op = "RET" -> {}
    [] OTHER -> {i + 1}
=============================================================================
