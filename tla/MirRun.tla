------------------------------- MODULE MirRun -------------------------------
(***************************************************************************)
(* What an optimized procedure is lowered to (mmcc build_vcode.rs), run next *)
(* to the procedure it came from: the source on its variables, the code on    *)
(* the storage of its allocations.  One step runs one block of each.         *)
(***************************************************************************)
EXTENDS MirOpt

CONSTANT Inputs(_)  \* the values of a procedure's parameters: functions on its entry context

VARIABLES
  lowered,  \* "none", "ok", a LowerErr or "panic"
  at,       \* the block that is about to run
  env,      \* the source: the value of every variable defined so far
  mem,      \* the code: the content of every allocation written so far
  said,     \* the source's last observable event
  saidLow   \* and the code's

runVars == <<lowered, at, env, mem, said, saidLow>>
vars == <<optVars, runVars>>

(* The order in which visit_blocks lowers: from each block that may run, along *)
(* the first successor not seen yet, reachable or not.                       *)
RECURSIVE Chain(_, _)
Chain(V, b) ==
  LET fresh == SelectSeq(Succs(cfg[b].term), LAMBDA c : c \notin V.seen)
      W == [V EXCEPT !.order = Append(@, b)]
  IN  IF fresh = <<>> THEN W ELSE Chain([W EXCEPT !.seen = @ \union {fresh[1]}], fresh[1])
VisitFrom(V, b) ==
  IF b \in V.seen \/ IsDead(cfg[b]) THEN V
  ELSE LET W == [V EXCEPT !.seen = @ \union {b}]
       IN  IF cfg[b].reachable THEN Chain(W, b) ELSE W
VisitOrder == FoldLeft(VisitFrom, [seen |-> {}, order |-> <<>>], [b \in DOMAIN cfg |-> b]).order

Stored(v) == AllocOf(allocs, v) # ZERO
GhostUsed(vs) == \E v \in vs : ~Stored(v)

(* build_block: the first problem of a statement or of the terminator. *)
LowerStatement(s) ==
  CASE ~Relevant(s) -> "ok"
    [] Relevant(s) /\ s.s = "let" /\ s.op = "ltinf" -> "InfiniteOp"
    [] Relevant(s) /\ s.s = "let" /\ s.op # "ltinf" /\ GhostUsed(Read(s.op, s.args)) -> "GhostVarUsed"
    [] Relevant(s) /\ s.s = "assign" /\ GhostUsed({s.lhs} \union OperandVars(s.rhs)) -> "GhostVarUsed"
    [] OTHER -> "ok"
LowerTerminator(t) ==
  CASE t.t \in {"unreachable", "dead"} -> "panic"
    [] t.t # "unreachable" /\ GhostUsed(TermUses(t)) -> "GhostVarUsed"
    [] OTHER -> "ok"
LowerBlock(bl) == Append([i \in DOMAIN bl.stmts |-> LowerStatement(bl.stmts[i])], LowerTerminator(bl.term))

(* build_block_args: what is passed to a block must be stored. *)
BlockArgs(b) ==
  LET t == cfg[b].term
  IN  CASE t.t = "jump" -> {t.args[i].v : i \in {j \in DOMAIN t.args : t.args[j].rel}}
        [] t.t = "call" -> {t.rets[i].v : i \in {j \in DOMAIN t.rets : t.rets[j].rel}}
        [] OTHER -> {}

Lower ==
  /\ pass = "optimized"
  /\ pass' = "lowered"
  /\ lowered' =
       IF \E b \in DOMAIN cfg : GhostUsed(BlockArgs(b)) THEN "GhostVarUsed"
       ELSE IF ~cfg[ENTRY].reachable THEN "EntryUnreachable"
       ELSE LET all == FlattenSeq([k \in DOMAIN VisitOrder |-> LowerBlock(cfg[VisitOrder[k]])])
                bad == SelectSeq(all, LAMBDA r : r # "ok")
            IN  IF bad = <<>> THEN "ok" ELSE bad[1]
  /\ UNCHANGED <<prog, graph, queue, dom, cur, state, edges, allocs, types, at, env, mem, said, saidLow>>

(***************************************************************************)
(* Running                                                                  *)
(***************************************************************************)
SrcValue(e, o) == IF "var" \in DOMAIN o THEN e[o.var] ELSE o.const
LowValue(m, o) == IF "var" \in DOMAIN o THEN m[AllocOf(allocs, o.var)] ELSE o.const
Undef == -99  \* not a value of any program considered

(* An operation on what was never written, or on what it does not fit, has   *)
(* no value; the source's proof obligations exclude it there.               *)
Op(op, ty, vals) == IF \E i \in DOMAIN vals : vals[i] = Undef THEN Undef ELSE Eval(op, ty, vals)

SrcStatement(e, s) ==
  IF s.s = "let"
  THEN (s.v :> Op(s.op, s.ty, [i \in DOMAIN s.args |-> SrcValue(e, s.args[i])])) @@ e
  ELSE [r \in {s.vars[i].to : i \in DOMAIN s.vars} |-> SrcValue(e, s.rhs)] @@ e

Put(m, v, x) == [m EXCEPT ![AllocOf(allocs, v)] = x]
(* build_rvalue, and the copy of an assignment; a pun only names its source,  *)
(* and a ghost has nothing to compute.                                      *)
Computes(s) == Relevant(s) /\ (s.s = "let" => s.op \notin {"pun", "ghost"})
LowStatement(m, s) ==
  CASE ~Computes(s) -> m
    [] Computes(s) /\ s.s = "let" ->
         Put(m, s.v, Op(s.op, s.ty, [i \in DOMAIN s.args |-> LowValue(m, s.args[i])]))
    [] Computes(s) /\ s.s = "assign" -> Put(m, s.lhs, LowValue(m, s.rhs))

(* build_jump: the arguments are moved one after the other. *)
LowArgs(m, args) == FoldLeft(LAMBDA n, a : IF a.rel THEN Put(n, a.v, LowValue(n, a.o)) ELSE n, m, args)
SrcArgs(e, args) == [v \in {args[i].v : i \in DOMAIN args} |->
                       SrcValue(e, args[CHOOSE i \in DOMAIN args : args[i].v = v].o)] @@ e

Start ==
  /\ pass = "lowered"
  /\ lowered = "ok"
  /\ pass' = "run"
  /\ \E input \in Inputs(prog) :
       /\ env' = input
       /\ mem' = [a \in DOMAIN allocs.allocs |->
                    LET here == {v \in cfg[ENTRY].relevance : AllocOf(allocs, v) = a}
                    IN  IF here = {} THEN Undef ELSE input[CHOOSE v \in here : TRUE]]
  /\ UNCHANGED <<prog, graph, queue, dom, cur, state, edges, allocs, types, lowered, at, said, saidLow>>

SrcBlock == prog.blocks[at]
LowBlock == cfg[at]
SrcEnd == FoldLeft(SrcStatement, env, SrcBlock.stmts)
LowEnd == FoldLeft(LowStatement, mem, LowBlock.stmts)

(* A source run does not enter a block that cannot lead to an effect: there   *)
(* is a proof of false there, or it would not terminate.                     *)
Possible(b) == \E c \in Accessible(prog.blocks, b) : SideEffecting(prog.blocks[c].term)

(* The code's branch: the source's, unless a pass has cut it. *)
Branch(t, c) == IF c # 0 THEN t.tgts[1].bl ELSE t.tgts[2].bl

Stop == pass' = "stopped" /\ UNCHANGED <<at, env, mem>>
Go(b, e, m) == pass' = "run" /\ at' = b /\ env' = e /\ mem' = m
Says(x, y) == said' = x /\ saidLow' = y
Quiet == UNCHANGED <<said, saidLow>>

(* What the code does with its terminator; the source's is t. *)
RunJump(t, u) ==
  /\ t.t \in {"jump", "jump1"}
  /\ Possible(t.tgt)
  /\ Quiet
  /\ IF t.t = "jump" THEN Go(t.tgt, SrcArgs(SrcEnd, t.args), LowArgs(LowEnd, u.args))
     ELSE Go(t.tgt, SrcEnd, LowEnd)

RunIf(t, u) ==
  LET c == SrcValue(SrcEnd, t.o)
      b == Branch(t, c)
      d == IF u.t = "jump1" THEN u.tgt ELSE Branch(u, LowValue(LowEnd, u.o))
  IN  /\ t.t = "if"
      /\ Possible(b)
      /\ IF b = d THEN Quiet /\ Go(b, SrcEnd, LowEnd)
         ELSE Says("then", "else") /\ Stop

RunAssert(t, u) ==
  LET pass1 == SrcValue(SrcEnd, t.o) # 0
      pass2 == u.t = "assert" /\ LowValue(LowEnd, u.o) # 0
  IN  /\ t.t = "assert"
      /\ pass1 => Possible(t.tgt)
      /\ IF pass1 /\ pass2 THEN Quiet /\ Go(t.tgt, SrcEnd, LowEnd)
         ELSE Says(IF pass1 THEN "passed" ELSE "failed", IF pass2 THEN "passed" ELSE "failed") /\ Stop

RunReturn(t, u) ==
  /\ t.t \in {"return", "exit", "fail"}
  /\ IF t.t = "return"
     THEN LET out == {i \in DOMAIN t.args : t.args[i].rel}
          IN  Says([i \in out |-> SrcValue(SrcEnd, t.args[i].o)], [i \in out |-> LowValue(LowEnd, u.args[i].o)])
     ELSE Says(t.t, u.t)
  /\ Stop

(* The callee sees its relevant arguments and answers with any word; one that *)
(* has no effect answers with what it was given.                             *)
RunCall(t, u) ==
  LET out == {i \in DOMAIN t.args : t.args[i].rel}
      here == [i \in out |-> SrcValue(SrcEnd, t.args[i].o)]
      there == [i \in out |-> LowValue(LowEnd, u.args[i].o)]
      answers == IF t.se THEN 0..1 ELSE {IF out = {} THEN 0 ELSE here[Min(out)]}
  IN  /\ t.t = "call"
      /\ Possible(t.tgt)
      /\ Says(here, there)
      /\ \E x \in answers :
           Go(t.tgt, [v \in {t.rets[i].v : i \in DOMAIN t.rets} |-> x] @@ SrcEnd,
              FoldLeft(LAMBDA m, r : IF r.rel THEN Put(m, r.v, x) ELSE m, LowEnd, u.rets))

RunBlock ==
  /\ pass = "run"
  /\ \/ RunJump(SrcBlock.term, LowBlock.term) \/ RunIf(SrcBlock.term, LowBlock.term)
     \/ RunAssert(SrcBlock.term, LowBlock.term) \/ RunReturn(SrcBlock.term, LowBlock.term)
     \/ RunCall(SrcBlock.term, LowBlock.term)
  /\ UNCHANGED <<prog, graph, queue, dom, cur, state, edges, allocs, types, lowered>>

RunInit ==
  /\ OptInit
  /\ lowered = "none" /\ at = ENTRY
  /\ env = <<>> /\ mem = <<>> /\ said = "none" /\ saidLow = "none"

Compile == (OptNext /\ UNCHANGED runVars) \/ Lower
Next == Compile \/ Start \/ RunBlock

Spec == RunInit /\ [][Next]_vars

(* What a block may rely on is there when it starts: every variable that     *)
(* is relevant on entry has its source value in its allocation, whichever    *)
(* way the block was reached and whatever else has used that allocation.     *)
StorageHoldsValues == pass = "run" =>
  \A v \in LowBlock.relevance : mem[AllocOf(allocs, v)] = env[v]

(* The code calls what the source calls, with the same arguments, takes the  *)
(* same branches and returns the same values, for every input of every       *)
(* program: erasing ghosts, truncating unbounded arithmetic early and        *)
(* sharing storage change nothing that can be observed.                     *)
BehavesAsSource == said = saidLow

(* build_terminator never meets the terminators it calls unreachable!() for. *)
LoweringNeverPanics == lowered # "panic"
=============================================================================
