--------------------------------- MODULE Mir ---------------------------------
(***************************************************************************)
(* The mid-level representation of the MMC compiler (mmcc types/mir.rs):     *)
(* blocks of statements ended by a terminator, which the passes of mir_opt   *)
(* rewrite.  Places are locals without projections; a type is its width.     *)
(*                                                                         *)
(*   operand    [var] or [const]                                            *)
(*   Let        [s |-> "let", v, rel, ty, op, args]                          *)
(*   Assign     [s |-> "assign", lhs, rhs, vars], vars of [from, to, rel, ty] *)
(*   block      [ctx, relevance, reachable, stmts, term]                     *)
(*                                                                         *)
(* The statements that only declare labels to the type checker are left out. *)
(***************************************************************************)
EXTENDS Integers, Sequences, FiniteSets, SequencesExt, FiniteSetsExt

CONSTANT Word  \* the bits of the machine word (Size::S64)

ASSUME WordAssumption == Word \in Nat \ {0, 1}

Inf == -1       \* Size::Inf, the unbounded integers
Zst == 0        \* a type without a representation
ENTRY == 1

Var(v) == [var |-> v]
Const(n) == [const |-> n]
OperandVars(o) == IF "var" \in DOMAIN o THEN {o.var} ELSE {}
ArgVars(args) == UNION {OperandVars(args[i]) : i \in DOMAIN args}
RelevantVars(args) == UNION {IF args[i].rel THEN OperandVars(args[i].o) ELSE {} : i \in DOMAIN args}

Let(v, rel, ty, op, args) ==
  [s |-> "let", v |-> v, rel |-> rel, ty |-> ty, op |-> op, args |-> args]
Assign(lhs, rhs, vars) == [s |-> "assign", lhs |-> lhs, rhs |-> rhs, vars |-> vars]
Rename(from, to, rel, ty) == [from |-> from, to |-> to, rel |-> rel, ty |-> ty]

(* Statement::relevant and foreach_def. *)
Relevant(s) == IF s.s = "let" THEN s.rel ELSE \E i \in DOMAIN s.vars : s.vars[i].rel
Defs(s) == IF s.s = "let" THEN {[v |-> s.v, rel |-> s.rel, ty |-> s.ty]}
           ELSE {[v |-> s.vars[i].to, rel |-> s.vars[i].rel, ty |-> s.vars[i].ty] : i \in DOMAIN s.vars}
(* The operands that a relevant rvalue reads. *)
Read(op, args) == IF op = "ghost" THEN {} ELSE ArgVars(args)
(* visit_stmt: the uses in computationally relevant positions. *)
StmtUses(s) ==
  CASE ~Relevant(s) -> {}
    [] s.s = "let" -> Read(s.op, s.args)
    [] s.s = "assign" -> {s.lhs} \union OperandVars(s.rhs)
                         \union {s.vars[i].from : i \in {j \in DOMAIN s.vars : s.vars[j].rel}}
(* visit_terminator. *)
TermUses(t) ==
  CASE t.t \in {"jump", "return", "call"} -> RelevantVars(t.args)
    [] t.t \in {"if", "assert", "unreachable"} -> OperandVars(t.o)
    [] OTHER -> {}

(* Successors, in the order of the iterator. *)
Succs(t) ==
  CASE t.t \in {"jump", "jump1", "assert", "call"} -> <<t.tgt>>
    [] t.t = "if" -> <<t.tgts[1].bl, t.tgts[2].bl>>
    [] OTHER -> <<>>

IsDead(bl) == bl.term.t = "dead"
DEAD == [ctx |-> {}, relevance |-> {}, reachable |-> FALSE, stmts |-> <<>>, term |-> [t |-> "dead"]]

(* predecessors_uncached: one entry per edge, by source block. *)
Predecessors(cfg) ==
  LET into(p, b) == SelectSeq(Succs(cfg[p].term), LAMBDA x : x = b)
      one(p, b) == [i \in DOMAIN into(p, b) |-> p]
  IN  [b \in DOMAIN cfg |-> FlattenSeq([p \in DOMAIN cfg |-> one(p, b)])]

(* Postorder: depth first along the successors, a block after its children. *)
RECURSIVE Visit(_, _, _)
Visit(cfg, po, b) ==
  IF b \in po.visited THEN po
  ELSE LET after == FoldLeft(LAMBDA q, c : Visit(cfg, q, c),
                             [po EXCEPT !.visited = @ \union {b}], Succs(cfg[b].term))
       IN  [after EXCEPT !.out = Append(@, b)]
Postorder(cfg) == Visit(cfg, [visited |-> {}, out |-> <<>>], ENTRY).out

(* Values are integers; a value of a sized type is kept as its bits. *)
Mod(w, n) == IF w = Inf THEN n ELSE n % 2^w
(* The meaning of an rvalue of type `ty` on the values of its operands. *)
Eval(op, ty, vals) ==
  CASE op \in {"use", "cast", "pun", "ghost"} -> vals[1]
    [] op = "as" -> Mod(ty, vals[1])
    [] op = "neg" -> Mod(ty, -vals[1])
    [] op = "add" -> Mod(ty, vals[1] + vals[2])
    [] op = "sub" -> Mod(ty, vals[1] - vals[2])
    [] op = "max" -> IF vals[1] < vals[2] THEN vals[2] ELSE vals[1]
    [] op = "shl" -> IF vals[2] < 0 THEN 0 ELSE Mod(ty, vals[1] * 2^vals[2])
    [] op \in {"lt", "ltinf"} -> IF vals[1] < vals[2] THEN 1 ELSE 0

(* Graph reachability, the reference for the analyses. *)
RECURSIVE Closure(_, _)
Closure(cfg, S) ==
  LET T == S \union UNION {ToSet(Succs(cfg[b].term)) : b \in S}
  IN  IF T = S THEN S ELSE Closure(cfg, T)
Accessible(cfg, b) == Closure(cfg, {b})
=============================================================================
