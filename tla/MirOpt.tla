------------------------------- MODULE MirOpt -------------------------------
(***************************************************************************)
(* Cfg::optimize and Cfg::storage (mmcc mir_opt): reachability, ghost         *)
(* propagation, legalization, ghost propagation again, storage.  Then        *)
(* MirRun lowers and runs the result.  The analyses run on the dataflow      *)
(* engine step by step; what rewrites the blocks is one step per pass.       *)
(***************************************************************************)
EXTENDS Mir, Domains, TLC

CONSTANT Programs  \* the procedures considered: sequences of blocks

VARIABLES
  prog,   \* the procedure as build_mir made it
  pass,   \* where Proc::optimize is
  graph,  \* [cfg, preds, reach]: the blocks, the cached predecessors, the analysis
  queue, dom, cur, state, edges,  \* the dataflow engine
  allocs, \* Allocations: [allocs, vars]
  types   \* the type of every variable, those added by the passes included

optVars == <<prog, pass, graph, queue, dom, cur, state, edges, allocs, types>>
cfg == graph.cfg

(***************************************************************************)
(* Reachability (ghost.rs).                                                 *)
(***************************************************************************)
SideEffecting(t) == \/ t.t \in {"return", "exit", "fail", "assert"}
                    \/ t.t = "call" /\ t.se

GraphOrder(g) == Postorder(g.cfg)
PredNeighbours(g, b) == g.preds[b]
ReachTransfer(g, b, d) == IF SideEffecting(g.cfg[b].term) THEN Reachable ELSE d

Reach == INSTANCE Dataflow WITH
  Order <- GraphOrder, Neighbours <- PredNeighbours, Transfer <- ReachTransfer, Join <- ReachJoin

(* The start of optimize: compute_predecessors, the blocks in reach of the  *)
(* entry Unreachable until shown otherwise, the others Dead.                *)
StartReach ==
  /\ pass = "start"
  /\ pass' = "reach"
  /\ Reach!StartEngine([graph EXCEPT !.preds = Predecessors(cfg)],
       [b \in DOMAIN cfg |-> IF Contains(Postorder(cfg), b) THEN Unreachable ELSE Dead])
  /\ UNCHANGED <<prog, allocs, types>>

RunReach == pass = "reach" /\ Reach!EngineNext /\ UNCHANGED <<prog, pass, allocs, types>>

(* The states are those at the end of a block: its own terminator is added. *)
ReachResult == [b \in DOMAIN cfg |->
  IF dom[b] # Dead /\ SideEffecting(cfg[b].term) THEN Reachable ELSE dom[b]]

(* Cutting one branch off: `if` with one target that cannot matter.  The     *)
(* reachable target is tgts[k] if the first one is tested, but the jump goes *)
(* to the second whichever it is.                                           *)
CutBranch(bl, k) ==
  LET h == bl.term.tgts[k].v
  IN  [bl EXCEPT !.stmts = Append(@, Let(h, FALSE, Zst, "ghost", <<Const(0)>>)),
                 !.term = [t |-> "jump1", tgt |-> bl.term.tgts[2].bl]]

(* Broken variant: an assert that cannot succeed stays one. *)
ApplyReachToNoFail(r, b) == IF r[b] = Reachable /\ cfg[b].term.t = "assert" THEN cfg[b]
                            ELSE IF r[b] = Unreachable THEN [cfg[b] EXCEPT !.reachable = FALSE] ELSE cfg[b]
ApplyReachTo(r, b) ==
  LET bl == cfg[b]
      t == bl.term
      reach(i) == r[t.tgts[i].bl] = Reachable
  IN  CASE r[b] = Dead -> DEAD
        [] r[b] = Unreachable -> [bl EXCEPT !.reachable = FALSE]
        [] r[b] = Reachable /\ t.t = "call" -> [bl EXCEPT !.term.reach = r[t.tgt] = Reachable]
        [] r[b] = Reachable /\ t.t = "assert" /\ r[t.tgt] # Reachable -> [bl EXCEPT !.term = [t |-> "fail"]]
        [] r[b] = Reachable /\ t.t = "if" /\ reach(1) # reach(2) -> CutBranch(bl, IF reach(1) THEN 1 ELSE 2)
        [] OTHER -> bl

ApplyReach ==
  /\ pass = "reach"
  /\ Reach!AtRest
  /\ pass' = "ghost"
  /\ graph' = [graph EXCEPT !.reach = ReachResult,
                            !.cfg = [b \in DOMAIN cfg |-> ApplyReachTo(ReachResult, b)]]
  /\ UNCHANGED <<prog, queue, dom, cur, state, edges, allocs, types>>

(***************************************************************************)
(* Ghost propagation (ghost.rs): which variables a computation needs.        *)
(***************************************************************************)
Need(d, vs) == [d EXCEPT !.vars = @ \union vs]
Active(d, b, vs) == [active |-> b, vars |-> d.vars \union vs]

ApplyTerminator(b, t, d) ==
  CASE t.t = "jump" ->
         LET needed == {i \in DOMAIN t.args : t.args[i].rel /\ t.args[i].v \in d.vars}
             kept == [d EXCEPT !.vars = @ \ {t.args[i].v : i \in DOMAIN t.args}]
         IN  IF needed = {} THEN kept
             ELSE Active(kept, b, UNION {OperandVars(t.args[i].o) : i \in needed})
    [] t.t = "return" -> Active(d, b, RelevantVars(t.args))
    [] t.t = "if" /\ d.active = b -> Need(d, OperandVars(t.o))
    [] t.t = "assert" -> Active(d, b, OperandVars(t.o))
    [] t.t = "call" /\ (~t.reach \/ t.se \/ \E i \in DOMAIN t.rets : t.rets[i].rel /\ t.rets[i].v \in d.vars) ->
         Active(d, b, RelevantVars(t.args))
    [] OTHER -> d

(* apply_rvalue: a copy needs its source but does not itself compute. *)
ApplyRvalue(b, op, args, d) ==
  IF op \in {"use", "pun"} THEN Need(d, ArgVars(args))
  ELSE IF op = "ghost" THEN d ELSE Active(d, b, ArgVars(args))

ApplyStatement(b, s, d) ==
  IF s.s = "let"
  THEN IF s.rel /\ s.v \in d.vars THEN ApplyRvalue(b, s.op, s.args, d) ELSE d
  ELSE LET needed == {i \in DOMAIN s.vars : s.vars[i].rel /\ s.vars[i].to \in d.vars}
       IN  IF needed = {} THEN d
           ELSE Active(d, b, {s.vars[i].from : i \in needed} \union OperandVars(s.rhs))

GhostTransfer(g, b, d) ==
  IF g.reach[b] # Reachable THEN NoDom
  ELSE FoldRight(LAMBDA s, e : ApplyStatement(b, s, e), g.cfg[b].stmts, ApplyTerminator(b, g.cfg[b].term, d))

Ghost == INSTANCE Dataflow WITH
  Order <- GraphOrder, Neighbours <- PredNeighbours, Transfer <- GhostTransfer, Join <- GhostJoin

StartGhost ==
  /\ pass \in {"ghost", "legalized"}
  /\ pass' = IF pass = "ghost" THEN "ghost1" ELSE "ghost2"
  /\ Ghost!StartEngine(graph, [b \in DOMAIN cfg |-> NoDom])
  /\ UNCHANGED <<prog, allocs, types>>

RunGhost == pass \in {"ghost1", "ghost2"} /\ Ghost!EngineNext /\ UNCHANGED <<prog, pass, allocs, types>>

(* get_applied: at the start of a block, not at its end. *)
GhostResult == [b \in DOMAIN cfg |-> GhostTransfer(graph, b, dom[b]).vars]

GhostStatement(res, s) ==
  IF s.s = "let" THEN [s EXCEPT !.rel = s.v \in res]
  ELSE [s EXCEPT !.vars = [i \in DOMAIN @ |-> [@[i] EXCEPT !.rel = s.vars[i].to \in res]]]

(* What is passed to a block is relevant if the block's own context says so. *)
GhostTerminator(res, t) ==
  LET rel(v) == ~IsDead(cfg[t.tgt]) /\ v \in cfg[t.tgt].ctx /\ v \in res[t.tgt]
  IN  CASE t.t = "jump" -> [t EXCEPT !.args = [i \in DOMAIN @ |-> [@[i] EXCEPT !.rel = rel(t.args[i].v)]]]
        [] t.t = "call" -> [t EXCEPT !.rets = [i \in DOMAIN @ |-> [@[i] EXCEPT !.rel = t.reach /\ rel(t.rets[i].v)]]]
        [] OTHER -> t

GhostBlock(res, b) ==
  IF IsDead(cfg[b]) THEN cfg[b]
  ELSE [cfg[b] EXCEPT !.relevance = res[b] \intersect cfg[b].ctx,
                      !.stmts = [i \in DOMAIN @ |-> GhostStatement(res[b], @[i])],
                      !.term = GhostTerminator(res, @)]

ApplyGhost ==
  /\ pass \in {"ghost1", "ghost2"}
  /\ Ghost!AtRest
  /\ pass' = IF pass = "ghost1" THEN "legalize" ELSE "storage"
  /\ graph' = [graph EXCEPT !.cfg = [b \in DOMAIN cfg |-> GhostBlock(GhostResult, b)]]
  /\ UNCHANGED <<prog, queue, dom, cur, state, edges, allocs, types>>

(***************************************************************************)
(* Legalization (legalize.rs): computations on unbounded integers that are   *)
(* only used after truncation are done on machine words.  L is the            *)
(* Legalizer: ok and op are the last Option<PackedOp>.                       *)
(***************************************************************************)
(* infinite_vars: where a relevant variable of an unbounded type is defined. *)
DefinedAt(stmts, v) ==
  {i \in DOMAIN stmts : \E d \in Defs(stmts[i]) : d.v = v /\ d.rel /\ d.ty = Inf}
IsInfinite(stmts, o) == \E v \in OperandVars(o) : DefinedAt(stmts, v) # {}

As(w) == [k |-> "as", ty |-> w]
Into(w) == [k |-> "into", ty |-> w]
Known(L, v, pred) == {g \in L.generated : g.v = v /\ g.pred = pred}
Success(L, o) == [L EXCEPT !.ok = TRUE, !.op = o]
Failure(L) == [L EXCEPT !.ok = FALSE]

RECURSIVE TryLegalize(_, _, _, _)
TryOperand(stmts, L, o, pred) ==
  IF "var" \in DOMAIN o THEN TryLegalize(stmts, L, o.var, pred)
  ELSE IF pred.k = "as" THEN Success(L, Const(Mod(pred.ty, o.const)))
  ELSE IF o.const \in 0..(2^pred.ty - 1) THEN Success(L, o) ELSE Failure(L)

(* The operands one after the other, each under its predicate, until one fails. *)
Collect(ops, L) == [L EXCEPT !.ops = IF L.ok THEN Append(ops, L.op) ELSE ops]
TryOperands(stmts, L, args, preds) ==
  FoldLeft(LAMBDA M, i : IF M.ok THEN Collect(M.ops, TryOperand(stmts, M, args[i], preds[i])) ELSE M,
           [L EXCEPT !.ok = TRUE, !.ops = <<>>], [i \in DOMAIN args |-> i])

(* Add `let fresh: iN = op(operands)` after statement i. *)
Compute(L, i, w, op) ==
  IF ~L.ok THEN L
  ELSE Success([L EXCEPT !.insert = Append(@, [at |-> i, stmt |-> Let(L.max, TRUE, w, op, L.ops)]),
                         !.max = @ + 1], Var(L.max))

(* as_: what keeps its meaning modulo 2^w, and how its operands are needed.  *)
(* Broken variant: a shift count is truncated like what is shifted. *)
MasksAll(s, w) == [i \in DOMAIN s.args |-> As(w)]
Masks(s, w) == [i \in DOMAIN s.args |-> IF s.op = "shl" /\ i = 2 THEN Into(w) ELSE As(w)]
TryDefinition(stmts, L, i, s, pred) ==
  CASE s.s = "assign" /\ Len(s.vars) = 1 -> TryLegalize(stmts, L, s.lhs, pred)
    [] s.s = "let" /\ s.op \in {"use", "cast"} -> TryOperand(stmts, L, s.args[1], pred)
    [] s.s = "let" /\ s.op \in {"neg", "add", "sub", "shl"} /\ pred.k = "as" ->
         Compute(TryOperands(stmts, L, s.args, Masks(s, pred.ty)), i, pred.ty, s.op)
    [] OTHER -> Failure(L)

Remember(L, v, pred) ==
  IF L.ok THEN [L EXCEPT !.generated = @ \union {[v |-> v, pred |-> pred, op |-> L.op]}] ELSE L
TryLegalize(stmts, L, v, pred) ==
  IF DefinedAt(stmts, v) = {} THEN Success(L, Var(v))
  ELSE IF Known(L, v, pred) # {} THEN Success(L, (CHOOSE g \in Known(L, v, pred) : TRUE).op)
  ELSE LET i == Max(DefinedAt(stmts, v))
       IN  Remember(TryDefinition(stmts, L, i, stmts[i], pred), v, pred)

(* legalize_all on one statement: a use that truncates, or compares.        *)
Goals(s) == IF s.op = "ltinf" THEN <<Into(Word), Into(Word)>> ELSE <<As(s.ty)>>
Legalizable(stmts, s) ==
  /\ s.s = "let" /\ Relevant(s)
  /\ \/ s.op = "as" /\ IsInfinite(stmts, s.args[1])
     \/ s.op = "cast" /\ s.ty # Inf /\ IsInfinite(stmts, s.args[1])
     \/ s.op = "ltinf"
(* A cast becomes another name of the word that was computed, or a constant. *)
Legalized(s, ops) ==
  [s EXCEPT !.args = ops,
            !.op = CASE s.op = "cast" -> IF "var" \in DOMAIN ops[1] THEN "pun" ELSE "use"
                     [] s.op = "ltinf" -> "lt"
                     [] OTHER -> s.op]
Replaced(L, i, s) == IF L.ok THEN [L EXCEPT !.stmts[i] = Legalized(s, L.ops)] ELSE L
LegalizeStatement(stmts, L, i) ==
  IF Legalizable(stmts, stmts[i])
  THEN Replaced(TryOperands(stmts, L, stmts[i].args, Goals(stmts[i])), i, stmts[i]) ELSE L

(* VecPatch::apply: what was inserted after statement i, in order. *)
Patched(L) ==
  LET after(i) == SelectSeq(L.insert, LAMBDA p : p.at = i)
      run(i) == <<L.stmts[i]>> \o [k \in DOMAIN after(i) |-> after(i)[k].stmt]
  IN  FlattenSeq([i \in DOMAIN L.stmts |-> run(i)])

Legalizer(stmts, max) == [stmts |-> stmts, insert |-> <<>>, generated |-> {}, max |-> max,
                          ok |-> TRUE, op |-> Const(0), ops |-> <<>>]
LegalizeAll(stmts, max) ==
  FoldRight(LAMBDA i, L : LegalizeStatement(stmts, L, i), [i \in DOMAIN stmts |-> i], Legalizer(stmts, max))

MaxVar == 1 + Max(DOMAIN types)

(* Cfg::legalize, the blocks in order. *)
TypesOf(insert) == [v \in {insert[k].stmt.v : k \in DOMAIN insert} |->
                      (CHOOSE p \in ToSet(insert) : p.stmt.v = v).stmt.ty]
LegalizeInto(acc, b, L) == [cfg |-> [acc.cfg EXCEPT ![b].stmts = Patched(L)], max |-> L.max,
                     types |-> TypesOf(L.insert) @@ acc.types]
LegalizeCfg ==
  FoldLeft(LAMBDA acc, b : LegalizeInto(acc, b, LegalizeAll(cfg[b].stmts, acc.max)),
           [cfg |-> cfg, max |-> MaxVar, types |-> types], [b \in DOMAIN cfg |-> b])
Legalize ==
  /\ pass = "legalize"
  /\ pass' = "legalized"
  /\ \E all \in {LegalizeCfg} : graph' = [graph EXCEPT !.cfg = all.cfg] /\ types' = all.types
  /\ UNCHANGED <<prog, queue, dom, cur, state, edges, allocs>>

(***************************************************************************)
(* Storage (storage.rs): the allocation each relevant variable lives in.     *)
(***************************************************************************)
ZERO == 0
NoAllocs == [allocs |-> <<>>, vars |-> <<>>]
Size(ty) == IF ty = Inf THEN 0 ELSE ty     \* meta(ty).unwrap_or(GHOST)
AllocOf(A, v) == IF v \in DOMAIN A.vars THEN A.vars[v] ELSE ZERO   \* Allocations::get

(* Allocations::insert, push and split. *)
AllocInsert(A, a, v, ty) ==
  [allocs |-> IF Size(ty) # 0 /\ a # ZERO THEN [A.allocs EXCEPT ![a] = @ \union {v}] ELSE A.allocs,
   vars |-> (v :> a) @@ A.vars]
AllocPush(A, v, ty) ==
  IF v \in DOMAIN A.vars THEN A
  ELSE IF Size(ty) = 0 THEN [A EXCEPT !.vars = (v :> ZERO) @@ @]
  ELSE [allocs |-> Append(A.allocs, {v}), vars |-> (v :> Len(A.allocs) + 1) @@ A.vars]
AllocSplit(A, v) ==
  IF A.vars[v] = ZERO THEN A
  ELSE [allocs |-> Append([A.allocs EXCEPT ![A.vars[v]] = @ \ {v}], {v}),
        vars |-> [A.vars EXCEPT ![v] = Len(A.allocs) + 1]]

(* BasicBlock::liveness: the last use of a variable in a block.  Only jumps   *)
(* say what their target still reads.                                       *)
LastUse(bl, init, v) ==
  LET n == Len(bl.stmts) + 1
      implicit == CASE bl.term.t = "jump" -> init[bl.term.tgt] \ {bl.term.args[i].v : i \in DOMAIN bl.term.args}
                    [] bl.term.t = "jump1" -> init[bl.term.tgt]
                    [] OTHER -> {}
      uses == {i \in DOMAIN bl.stmts : v \in StmtUses(bl.stmts[i])}
  IN  IF v \in implicit \union TermUses(bl.term) THEN n ELSE IF uses = {} THEN 0 ELSE Max(uses)
(* Broken variant: what the target reads does not count. *)
LiveAfterHere(S, v) == LastUse(S.bl, [b \in DOMAIN S.init |-> {}], v) > S.i
LiveAfter(S, v) == LastUse(S.bl, S.init, v) > S.i

(* S is the state of the loop over a block's statements: the block as it was, *)
(* the statement, the allocations, the statements made, the next variable.    *)
Emit(S, stmts) == [S EXCEPT !.out = @ \o stmts]

(* A relevant rename.  copy: `from` is read later, so it is copied first and *)
(* the copy assigned; split: something else in its group is, so it leaves.   *)
StoreRename(S, k) ==
  LET r == S.stmt.vars[k]
      a == AllocOf(S.allocs, r.from)
      others == \E x \in S.allocs.allocs[a] : x # r.from /\ LiveAfter(S, x)
      z == S.max
      pushed == AllocPush(S.allocs, z, types[r.from])
      split == AllocSplit(S.allocs, r.from)
      goal(A, b) == [S EXCEPT !.allocs = AllocInsert(A, b, r.to, r.ty)]
  IN  IF ~r.rel \/ r.from \notin DOMAIN S.allocs.vars THEN S
      ELSE IF a = ZERO THEN [S EXCEPT !.stmt.vars[k].rel = FALSE]
      ELSE IF r.from \in S.allocs.allocs[a] /\ LiveAfter(S, r.from) THEN
        [goal(pushed, AllocOf(pushed, z)) EXCEPT
          !.max = @ + 1,
          !.out = Append(@, Let(z, TRUE, types[r.from], "use", <<Var(r.from)>>)),
          !.types = (z :> types[r.from]) @@ @,
          !.stmt.lhs = IF @ = r.from THEN z ELSE @,
          !.stmt.vars = [i \in DOMAIN @ |-> IF @[i].from = r.from THEN [@[i] EXCEPT !.from = z] ELSE @[i]]]
      ELSE IF others THEN goal(split, AllocOf(split, r.from))
      ELSE goal(S.allocs, a)

(* A relevant let: a copy shares the storage of what it copies. *)
StoreLet(S) ==
  LET s == S.stmt
      copies == s.op \in {"use", "pun"} /\ "var" \in DOMAIN s.args[1]
      from == s.args[1].var
      A == IF ~copies THEN AllocPush(S.allocs, s.v, s.ty)
           ELSE IF from \in DOMAIN S.allocs.vars
                THEN AllocInsert(S.allocs, S.allocs.vars[from], s.v, s.ty) ELSE S.allocs
  IN  IF ~s.rel THEN S
      ELSE [S EXCEPT !.allocs = A,
                     !.stmt.rel = IF copies /\ from \notin DOMAIN S.allocs.vars THEN FALSE ELSE AllocOf(A, s.v) # ZERO]

StoreStatement(S, i) ==
  LET S1 == [S EXCEPT !.i = i, !.stmt = S.bl.stmts[i]]
      S2 == IF S1.stmt.s = "let" THEN StoreLet(S1)
            ELSE FoldLeft(StoreRename, S1, [k \in DOMAIN S1.stmt.vars |-> k])
  IN  Emit(S2, <<S2.stmt>>)

(* The variables a block starts with get their storage; the ones that need    *)
(* none become ghosts.                                                      *)
StoreBlock(S, b) ==
  LET bl == S.cfg[b]
      entry == FoldLeft(LAMBDA A, v : AllocPush(A, v, S.types[v]), S.allocs, SetToSeq(bl.relevance))
      start == [S EXCEPT !.bl = bl, !.allocs = entry, !.out = <<>>]
      done == FoldLeft(StoreStatement, start, [i \in DOMAIN bl.stmts |-> i])
      kept == {v \in bl.relevance : AllocOf(entry, v) # ZERO}
  IN  IF IsDead(bl) THEN S
      ELSE [done EXCEPT !.cfg[b] = [bl EXCEPT !.stmts = done.out, !.relevance = kept]]

(* build_allocations.  What blocks start with is taken before any is changed. *)
Storage ==
  LET start == [cfg |-> cfg, init |-> [b \in DOMAIN cfg |-> cfg[b].relevance], allocs |-> NoAllocs,
                types |-> types, max |-> MaxVar, bl |-> DEAD, i |-> 0, out |-> <<>>,
                stmt |-> Let(0, FALSE, Zst, "ghost", <<>>)]
      all == FoldLeft(StoreBlock, start, [b \in DOMAIN cfg |-> b])
  IN  /\ pass = "storage"
      /\ pass' = "optimized"
      /\ graph' = [graph EXCEPT !.cfg = all.cfg]
      /\ allocs' = all.allocs
      /\ types' = all.types
      /\ UNCHANGED <<prog, queue, dom, cur, state, edges>>

(***************************************************************************)
OptInit ==
  /\ prog \in Programs
  /\ pass = "start"
  /\ graph = [cfg |-> prog.blocks, preds |-> <<>>, reach |-> <<>>]
  /\ queue = <<>> /\ dom = <<>> /\ cur = ENTRY /\ state = 0 /\ edges = <<>>
  /\ allocs = NoAllocs
  /\ types = prog.types

OptNext ==
  \/ StartReach \/ RunReach \/ ApplyReach
  \/ StartGhost \/ RunGhost \/ ApplyGhost
  \/ Legalize \/ Storage

(* The analyses come to an end on every loop: a step makes the state of a     *)
(* block climb, at most twice beside its variables, or leaves the states and  *)
(* takes from the queue, or leaves both and takes from the edges.            *)
Climbs(b) == IF pass = "reach" THEN dom[b] < dom'[b]
             ELSE /\ dom[b].vars \subseteq dom'[b].vars
                  /\ dom[b].active # 0 => dom'[b].active \in {dom[b].active, b}
EngineProgresses ==
  [][pass' = pass /\ pass \in {"reach", "ghost1", "ghost2"} =>
       IF dom' # dom THEN \A b \in DOMAIN dom : dom'[b] # dom[b] => Climbs(b)
       ELSE Len(queue') < Len(queue) \/ (queue' = queue /\ Len(edges') < Len(edges))]_optVars

(* The analyses give what they are defined to.  Reachability: a block that   *)
(* the entry reaches is Reachable exactly if some path leads from it to a    *)
(* terminator with an effect (the comment on reachability_analysis).  Ghost  *)
(* propagation solves its equations when its queue is empty, although its    *)
(* states form no lattice: which block a state names depends on the order in *)
(* which states met.                                                         *)
AnalysesAreExact ==
  /\ (pass = "reach" /\ Reach!AtRest) => \A b \in Accessible(cfg, ENTRY) :
       ReachResult[b] = IF \E c \in Accessible(cfg, b) : SideEffecting(cfg[c].term)
                        THEN Reachable ELSE Unreachable
  /\ pass \in {"ghost1", "ghost2"} => Ghost!FixpointAtRest

=============================================================================
