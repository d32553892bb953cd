-------------------------- MODULE StackDiscipline --------------------------
(* What the compiler owes the stack machine: code in which every           *)
(* instruction is reached with one height of the operand stack, so that    *)
(* every pop finds an operand, a RET finds nothing but its value, and the  *)
(* code's end nothing at all; and in which every location is of a variable *)
(* that the frame has.  The source has no such check; that the machine's   *)
(* roots list stays in step with its frames depends on the first, and that *)
(* its pointers are to objects of the types they are cast to on both.      *)
EXTENDS SmMachine

Unreached == -1

HeightAfter(f, code, heights, i) == heights[i] - Pops(f, code[i]) + Pushes(code[i])

(* heights gives the height of the operand stack at each instruction of a  *)
(* code and at its end.                                                    *)
VerifiedCode(f, code, heights) ==
  /\ heights \in [1..Len(code) + 1 -> Nat \cup {Unreached}]
  /\ heights[1] = 0
  /\ heights[Len(code) + 1] \in {0, Unreached}
  /\ \A i \in DOMAIN code : heights[i] # Unreached =>
        /\ Pops(f, code[i]) <= heights[i]
        /\ code[i].op = "RET" => heights[i] = 1
        /\ \A j \in Successors(code, i) :
              j \in DOMAIN heights /\ heights[j] = HeightAfter(f, code, heights, i)

(* A function with that scheme has the variable: operator[] does not look. *)
Addressable(scheme, type, index) ==
  \/ type = "LOCAL" /\ index \in 1..scheme.locals
  \/ type = "ARGUMENT" /\ index \in 1..scheme.args
  \/ type = "CAPTURED" /\ index \in 1..Len(scheme.capture)

(* The parts of a file are where its instructions look for them. *)
WellFormed(f) ==
  /\ f.main \in DOMAIN f.functions
  /\ f.functions[f.main].args = 0 /\ f.functions[f.main].capture = << >>
  /\ \A s \in DOMAIN f.functions :
        LET scheme == f.functions[s]
            code == scheme.code
        IN  /\ scheme.args \in Nat /\ scheme.locals \in Nat
            /\ scheme.capture \in Seq(Range(scheme.capture))
            /\ code \in Seq(Range(code))
            /\ \A i \in DOMAIN code :
                  /\ code[i].op \in {"LD", "ST"} => Addressable(scheme, code[i].kind, code[i].n)
                  /\ code[i].op = "CLOSURE" =>
                        /\ code[i].n \in DOMAIN f.functions
                        /\ \A k \in DOMAIN f.functions[code[i].n].capture :
                              LET variable == f.functions[code[i].n].capture[k]
                              IN  Addressable(scheme, variable.type, variable.index)
                  /\ code[i].op = "TUPLE" => f.tuples[code[i].n] \in Seq(Nat)
                  /\ code[i].op \in {"CALLC", "PRINT"} => code[i].n \in Nat

Verified(f, heights) ==
  /\ WellFormed(f)
  /\ DOMAIN heights = DOMAIN f.functions
  /\ \A s \in DOMAIN f.functions : VerifiedCode(f, f.functions[s].code, heights[s])

FilesVerified == \A k \in DOMAIN Files : \E heights : Verified(Files[k], heights)

(* The height at which frame d is: at pc for the top frame, at the call    *)
(* for the others, without the result that the call will push.             *)
HeightOf(d, heights) ==
  IF d = Depth THEN heights[frames[d].scheme][pc]
  ELSE heights[frames[d].scheme][frames[d + 1].return] - 1

(* Every frame holds as many operands as its code says. *)
HeightsFollowed(heights) ==
  status = "running" => \A d \in DOMAIN frames : Len(frames[d].stack) = HeightOf(d, heights)

(* No instruction pops what its frame has not pushed: a RET takes the only *)
(* operand there is, and a function whose code ends leaves none behind.    *)
(* pop() of src/sm_runtime.hpp does not look.                              *)
OperandsFound ==
  status = "running" =>
    /\ pc \in DOMAIN Code => Pops(file, Code[pc]) <= Len(Top.stack)
    /\ pc \in DOMAIN Code /\ Code[pc].op = "RET" => Len(Top.stack) = 1
    /\ pc = Len(Code) + 1 => Len(Top.stack) = 0
=============================================================================
