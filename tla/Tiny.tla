-------------------------------- MODULE Tiny --------------------------------
(***************************************************************************)
(* The TINY compiler and its machine together: main.c's passes over one    *)
(* source file, each only when no pass before it found an error, then tm   *)
(* on the code file.                                                       *)
(***************************************************************************)
EXTENDS TinyScan, TinyParse, TinyGen, TM

VARIABLES
  source,   \* source.text is the characters of the source file; the rest of
            \* the record is history: what the model wrote the text from
  phase,    \* "parse", "analyze", "generate", "load", "machine" or "rejected"
  Error,
  syntaxTree,
  hashTable,  \* the symbol table: the location of each name
  code        \* the lines of the code file

compiler == <<source, phase, Error, syntaxTree, hashTable, code>>
vars == <<compiler, tmVars>>

InitWith(file, commands) ==
  /\ source = file
  /\ phase = "parse"
  /\ Error = FALSE
  /\ syntaxTree = <<>> /\ hashTable = <<>> /\ code = <<>>
  /\ TMInit
  /\ left = commands

\* syntaxTree = parse();
parse ==
  /\ phase = "parse"
  /\ LET r == Parse(Scan(source.text)) IN syntaxTree' = r.stmts /\ Error' = r.error
  /\ phase' = IF Error' THEN "rejected" ELSE "analyze"
  /\ UNCHANGED <<source, hashTable, code, tmVars>>

\* buildSymtab(syntaxTree); typeCheck(syntaxTree);
analyze ==
  /\ phase = "analyze"
  /\ hashTable' = BuildSymtab(syntaxTree)
  /\ Error' = StmtsError(syntaxTree)
  /\ phase' = IF Error' THEN "rejected" ELSE "generate"
  /\ UNCHANGED <<source, syntaxTree, code, tmVars>>

codeGen ==
  /\ phase = "generate"
  /\ code' = CodeGen(syntaxTree, hashTable)
  /\ phase' = "load"
  /\ UNCHANGED <<source, Error, syntaxTree, hashTable, tmVars>>

load ==
  /\ phase = "load"
  /\ readInstructions(code)
  /\ phase' = "machine"
  /\ UNCHANGED <<source, Error, syntaxTree, hashTable, code>>

command == doCommand /\ UNCHANGED compiler
instruction == (\E v \in Input : Execute(v)) /\ UNCHANGED compiler

Next == parse \/ analyze \/ codeGen \/ load \/ command \/ instruction

\* tm runs on once it is told to go, provided the user answers its INs.
Fairness == WF_vars(instruction)
=============================================================================
