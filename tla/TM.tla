--------------------------------- MODULE TM ---------------------------------
(***************************************************************************)
(* The TINY machine (tm.c): loading a program, one instruction, and the    *)
(* commands of its prompt.  Reading or writing one cell past the end of an *)
(* array, which the range checks let through, and an overflow have no      *)
(* defined effect: the machine is then "undefined" and nothing is said of  *)
(* it any more.                                                            *)
(***************************************************************************)
EXTENDS Integers, Sequences

CONSTANTS
  IADDR_SIZE, DADDR_SIZE,  \* 1024 each in the code
  MAXINT,                  \* the largest int, 2^31 - 1; see Word
  Input                    \* bound of the model: the values typed at an IN

ASSUME SizesAssumption == IADDR_SIZE \in Nat \ {0} /\ DADDR_SIZE \in Nat \ {0}
ASSUME WordAssumption ==
  MAXINT \in Nat /\ DADDR_SIZE <= MAXINT /\ Input \subseteq (-MAXINT - 1) .. MAXINT

NO_REGS == 8
PC_REG == 7

VARIABLES
  iMem, dMem, reg,
  iloc, dloc, traceflag, icountflag,
  mode,       \* "off", "command", "go", "step", "done", "undefined"
  stepcnt, stepResult,
  inputs,     \* history: values read since the registers were last reset
  outputs,    \* history: values written since then
  stops,      \* history: times the program stopped since then
  left        \* bound of the model: commands the user may still give

memory == <<iMem, dMem, reg>>
prompt == <<iloc, dloc, traceflag, icountflag>>
history == <<inputs, outputs, stops>>
tmVars == <<memory, prompt, mode, stepcnt, stepResult, history, left>>

Registers == 0 .. NO_REGS - 1
Halt == [iop |-> "HALT", iarg1 |-> 0, iarg2 |-> 0, iarg3 |-> 0]

RROps == {"HALT", "IN", "OUT", "ADD", "SUB", "MUL", "DIV"}
RMOps == {"LD", "ST"}
RAOps == {"LDA", "LDC", "JLT", "JLE", "JGT", "JGE", "JEQ", "JNE"}
Instructions == [iop : RROps \cup RMOps \cup RAOps, iarg1 : Registers, iarg2 : Int, iarg3 : Registers]

\* C's division: towards zero.
Quotient(a, b) ==
  LET abs(x) == IF x < 0 THEN -x ELSE x
      q == abs(a) \div abs(b)
  IN  IF (a < 0) = (b < 0) THEN q ELSE -q

\* dMem and reg as readInstructions and the command 'c' set them.
FreshMemory == [a \in 0 .. DADDR_SIZE - 1 |-> IF a = 0 THEN DADDR_SIZE - 1 ELSE 0]
FreshRegisters == [r \in Registers |-> 0]

\* All but left, whose bound the model chooses.
TMInit ==
  /\ iMem = [a \in 0 .. IADDR_SIZE - 1 |-> Halt]
  /\ dMem = FreshMemory
  /\ reg = FreshRegisters
  /\ iloc = 0 /\ dloc = 0
  /\ traceflag = FALSE /\ icountflag = FALSE
  /\ mode = "off"
  /\ stepcnt = 0
  /\ stepResult = "srOKAY"
  /\ inputs = <<>> /\ outputs = <<>> /\ stops = 0

(***************************************************************************)
(* readInstructions on a list of lines.  A location above IADDR_SIZE ends  *)
(* the program; IADDR_SIZE itself is let through.                          *)
(***************************************************************************)
LastAt(lines, a) == CHOOSE k \in DOMAIN lines :
  lines[k].loc = a /\ \A j \in DOMAIN lines : lines[j].loc = a => j <= k

Instruction(line) ==
  [iop |-> line.iop, iarg1 |-> line.iarg1, iarg2 |-> line.iarg2, iarg3 |-> line.iarg3]

readInstructions(lines) ==
  /\ mode = "off"
  /\ iMem' = [a \in 0 .. IADDR_SIZE - 1 |->
                IF \E k \in DOMAIN lines : lines[k].loc = a
                THEN Instruction(lines[LastAt(lines, a)]) ELSE Halt]
  /\ mode' = CASE \E k \in DOMAIN lines :
                    /\ lines[k].loc = IADDR_SIZE
                    /\ \A j \in 1 .. k : lines[j].loc <= IADDR_SIZE -> "undefined"
               [] \E k \in DOMAIN lines : lines[k].loc > IADDR_SIZE -> "done"
               [] OTHER -> "command"
  /\ UNCHANGED <<dMem, reg, prompt, stepcnt, stepResult, history, left>>

(***************************************************************************)
(* stepTM.  rg is reg with the program counter moved on, v the value that  *)
(* an IN reads; the result is what the step leaves.                        *)
(***************************************************************************)
Outcome(result, rg, dm) ==
  [result |-> result, reg |-> rg, dMem |-> dm, in |-> <<>>, out |-> <<>>]

Set(rg, r, x) == Outcome("srOKAY", [rg EXCEPT ![r] = x], dMem)

\* An arithmetic result that is no int has no defined value.  Addresses are
\* far from the limits: only the four operations are checked.
Word == (-MAXINT - 1) .. MAXINT

SetWord(rg, r, x) == IF x \in Word THEN Set(rg, r, x) ELSE Outcome("undefined", rg, dMem)

Jump(rg, taken, m) ==
  Outcome("srOKAY", IF taken THEN [rg EXCEPT ![PC_REG] = m] ELSE rg, dMem)

RRStep(i, rg, v) ==
  LET r == i.iarg1
      a == rg[i.iarg2]
      b == rg[i.iarg3]
  IN  CASE i.iop = "HALT" -> Outcome("srHALT", rg, dMem)
        [] i.iop = "IN"   -> [Set(rg, r, v) EXCEPT !.in = <<v>>]
        [] i.iop = "OUT"  -> [Outcome("srOKAY", rg, dMem) EXCEPT !.out = <<rg[r]>>]
        [] i.iop = "ADD"  -> SetWord(rg, r, a + b)
        [] i.iop = "SUB"  -> SetWord(rg, r, a - b)
        [] i.iop = "MUL"  -> SetWord(rg, r, a * b)
        [] i.iop = "DIV"  -> IF b # 0 THEN SetWord(rg, r, Quotient(a, b))
                             ELSE Outcome("srZERODIVIDE", rg, dMem)

RMStep(i, rg, m) ==
  CASE m < 0 \/ m > DADDR_SIZE -> Outcome("srDMEM_ERR", rg, dMem)
    [] m = DADDR_SIZE          -> Outcome("undefined", rg, dMem)
    [] i.iop = "LD"            -> Set(rg, i.iarg1, dMem[m])
    [] i.iop = "ST"            -> Outcome("srOKAY", rg, [dMem EXCEPT ![m] = rg[i.iarg1]])

RAStep(i, rg, m) ==
  LET x == rg[i.iarg1]
  IN  CASE i.iop = "LDA" -> Set(rg, i.iarg1, m)
        [] i.iop = "LDC" -> Set(rg, i.iarg1, i.iarg2)
        [] i.iop = "JLT" -> Jump(rg, x < 0, m)
        [] i.iop = "JLE" -> Jump(rg, x <= 0, m)
        [] i.iop = "JGT" -> Jump(rg, x > 0, m)
        [] i.iop = "JGE" -> Jump(rg, x >= 0, m)
        [] i.iop = "JEQ" -> Jump(rg, x = 0, m)
        [] i.iop = "JNE" -> Jump(rg, x # 0, m)

PC == reg[PC_REG]

stepTM(v) ==
  LET i == iMem[PC]
      rg == [reg EXCEPT ![PC_REG] = PC + 1]
      m == i.iarg2 + rg[i.iarg3]
  IN  CASE PC < 0 \/ PC > IADDR_SIZE -> Outcome("srIMEM_ERR", reg, dMem)
        [] PC = IADDR_SIZE           -> Outcome("undefined", rg, dMem)
        [] i.iop \in RROps           -> RRStep(i, rg, v)
        [] i.iop \in RMOps           -> RMStep(i, rg, m)
        [] OTHER                     -> RAStep(i, rg, m)

\* One turn of the loops of 'g' and 's'.  The count of a 'g' is only printed;
\* bound of the model: it stays at MAXINT.
Running == mode \in {"go", "step"}

Execute(v) ==
  /\ Running
  /\ iloc' = PC
  /\ LET o == stepTM(v)
     IN  /\ reg' = o.reg
         /\ dMem' = o.dMem
         /\ inputs' = inputs \o o.in
         /\ outputs' = outputs \o o.out
         /\ stops' = stops + (IF o.result = "srOKAY" THEN 0 ELSE 1)
         /\ stepResult' = o.result
         /\ mode' = CASE o.result = "undefined" -> "undefined"
                      [] o.result # "srOKAY" \/ (mode = "step" /\ stepcnt = 1) -> "command"
                      [] OTHER -> mode
  /\ stepcnt' = CASE mode = "step" -> stepcnt - 1
                   [] mode = "go" /\ stepcnt < MAXINT -> stepcnt + 1
                   [] OTHER -> stepcnt
  /\ UNCHANGED <<iMem, dloc, traceflag, icountflag, left>>

(***************************************************************************)
(* doCommand: what each command does before any instruction runs.  The     *)
(* last command of the bound is always a 'g', so that every run is played  *)
(* to its end.                                                             *)
(***************************************************************************)
Typed == mode = "command" /\ left > 0 /\ left' = left - 1
Other == Typed /\ left > 1

go ==
  /\ Typed
  /\ mode' = "go" /\ stepcnt' = 0 /\ stepResult' = "srOKAY"
  /\ UNCHANGED <<memory, prompt, history>>

step(n) ==
  /\ Other
  /\ mode' = IF n > 0 THEN "step" ELSE "command"
  /\ stepcnt' = n /\ stepResult' = "srOKAY"
  /\ UNCHANGED <<memory, prompt, history>>

\* mutant: the registers keep their values
MutClear ==
  /\ Other
  /\ iloc' = 0 /\ dloc' = 0 /\ stepcnt' = 0 /\ stepResult' = "srOKAY"
  /\ dMem' = FreshMemory
  /\ inputs' = <<>> /\ outputs' = <<>> /\ stops' = 0
  /\ UNCHANGED <<iMem, reg, traceflag, icountflag, mode>>

clear ==
  /\ Other
  /\ iloc' = 0 /\ dloc' = 0 /\ stepcnt' = 0 /\ stepResult' = "srOKAY"
  /\ reg' = FreshRegisters /\ dMem' = FreshMemory
  /\ inputs' = <<>> /\ outputs' = <<>> /\ stops' = 0
  /\ UNCHANGED <<iMem, traceflag, icountflag, mode>>

toggle ==
  /\ Other
  /\ \/ traceflag' = ~traceflag /\ UNCHANGED icountflag
     \/ icountflag' = ~icountflag /\ UNCHANGED traceflag
  /\ stepcnt' = 0 /\ stepResult' = "srOKAY"
  /\ UNCHANGED <<memory, iloc, dloc, mode, history>>

\* 'i' and 'd' with a start b and a count n: the next location to show.
Shown(b, n, size) == IF b < 0 \/ b >= size \/ n <= 0 THEN b ELSE IF b + n < size THEN b + n ELSE size

show(b, n) ==
  /\ Other
  /\ \/ iloc' = Shown(b, n, IADDR_SIZE) /\ UNCHANGED dloc
     \/ dloc' = Shown(b, n, DADDR_SIZE) /\ UNCHANGED iloc
  /\ stepcnt' = 0 /\ stepResult' = "srOKAY"
  /\ UNCHANGED <<memory, traceflag, icountflag, mode, history>>

quit ==
  /\ Other
  /\ mode' = "done"
  /\ UNCHANGED <<memory, prompt, stepcnt, stepResult, history>>

doCommand ==
  \/ go \/ clear \/ toggle \/ quit
  \/ \E n \in 0 .. 2 : step(n)
  \/ \E b \in {-1, 0, IADDR_SIZE}, n \in {1, 2} : show(b, n)
=============================================================================
