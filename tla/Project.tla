------------------------------- MODULE Project -------------------------------
(***************************************************************************)
(* The two command line tools that follow imports, on the same files:      *)
(* mm0-rs join (Joiner), and then mm0-rs compile (Compiler).                *)
(***************************************************************************)
EXTENDS Compiler

VARIABLES
  calls, working, done, w, status   \* those of Joiner

(* What join sees of the input: bare or not, it follows Ast.imports. *)
Graphs == {[imports |-> i.imports, missing |-> i.missing] : i \in Inputs}
J == INSTANCE Joiner WITH graph <- [imports |-> input.imports, missing |-> input.missing]

jvars == <<calls, working, done, w, status>>

ProjectInit == Init /\ J!Init

JoinStep == UNCHANGED vars /\ J!Next

CompileStep == status # "running" /\ Next /\ UNCHANGED jvars

ProjectNext == JoinStep \/ CompileStep

(* The pool runs every task that can move, and nothing else exists: some   *)
(* step is taken as long as one is possible.                               *)
ProjectSpec == ProjectInit /\ [][ProjectNext]_<<vars, jvars>> /\ WF_<<vars, jvars>>(ProjectNext)

-----------------------------------------------------------------------------
(* The joined text is the program that is compiled: when the compiler finds *)
(* no error at all, the join neither fails nor panics, it has written every *)
(* piece of the files of the compiled environment once, and whatever comes  *)
(* after an import comes after the whole imported file.                     *)
CompiledIsJoined ==
  (exit = "0" /\ AllBare) =>
    /\ status = "finished"
    /\ \A f \in task[<<>>].res.env : \A k \in 1..(Len(Imports(f)) + 1) : Among(<<f, k>>, w)
    /\ \A n \in DOMAIN w : w[n][1] \in task[<<>>].res.env
    /\ \A m, n \in DOMAIN w : (w[m][1] = w[n][1] /\ m < n) => w[m][2] < w[n][2]
    /\ \A n \in DOMAIN w : w[n][2] > 1 =>
         LET r == Imports(w[n][1])[w[n][2] - 1] IN
         \E m \in 1..(n - 1) : w[m] = <<r, Len(Imports(r)) + 1>>

(* Both tools find the cycles: those the compiler reports are cycles, and   *)
(* it writes no output for a project with one; join panics ("import cycle:  *)
(* {:?}") just when a file it reaches imports the file to join, which is on *)
(* the stack and never in `working`, and cuts any other cycle short.        *)
CyclesAreSeen ==
  LET onCycle == \E f \in Reached(input.imports, Main, {}) : Among(Main, Imports(f)) IN
  /\ CompilerSeesCycles
  /\ status = "panicked" => onCycle
  /\ status = "finished" => ~onCycle

=============================================================================
