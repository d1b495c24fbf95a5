-------------------------------- MODULE MCMir --------------------------------
(* Families of small procedures for TLC.  Every procedure has the parameters *)
(* 1, a word, and 2, a flag.                                                *)
EXTENDS MirRun

Bl(ctx, stmts, term) ==
  [ctx |-> ctx, relevance |-> {}, reachable |-> TRUE, stmts |-> stmts, term |-> term]
Jump(tgt, args) == [t |-> "jump", tgt |-> tgt, args |-> args]
Jump1(tgt) == [t |-> "jump1", tgt |-> tgt]
If(o, b1, b2) == [t |-> "if", o |-> o, tgts |-> <<[v |-> 20, bl |-> b1], [v |-> 21, bl |-> b2]>>]
Return(o) == [t |-> "return", args |-> <<[rel |-> TRUE, o |-> o]>>]
Return2(o, q) == [t |-> "return", args |-> <<[rel |-> TRUE, o |-> o], [rel |-> TRUE, o |-> q]>>]
Check(o, tgt) == [t |-> "assert", o |-> o, v |-> 22, tgt |-> tgt]
Call(se, o, tgt, r) ==
  [t |-> "call", se |-> se, args |-> <<[rel |-> TRUE, o |-> o]>>, reach |-> TRUE, tgt |-> tgt,
   rets |-> <<[rel |-> TRUE, v |-> r]>>]
Halt == [t |-> "unreachable", o |-> Const(0)]
Arg(v, o) == [v |-> v, rel |-> TRUE, o |-> o]

Hyps == (20 :> Zst) @@ (21 :> Zst) @@ (22 :> Zst)
Params == (1 :> Word) @@ (2 :> 1)
Copy(v, w) == Let(v, TRUE, Word, "use", <<Var(w)>>)
AddOne(v, w) == Let(v, TRUE, Word, "add", <<Var(w), Const(1)>>)
GhostOf(v, w) == Let(v, FALSE, Zst, "ghost", <<Var(w)>>)
Set(v, w, o) == Assign(w, o, <<Rename(w, v, TRUE, Word)>>)

MCInputs(p) == [{1, 2} -> 0..1] \union {[v \in {1, 2} |-> IF v = 1 THEN 3 ELSE 1]}

(* One block, three statements, then a jump that passes a value on: sharing, *)
(* splitting and copying.                                                   *)
Straight ==
  {[blocks |-> <<Bl({1, 2}, <<s, t, u>>, Jump(2, <<Arg(9, o)>>)), Bl({1, 2, 6, 7, 8, 9}, <<>>, Return2(Var(9), q))>>,
    types |-> (6 :> Word) @@ (7 :> Word) @@ (8 :> Word) @@ (9 :> Word) @@ Params] :
      s \in {Copy(6, 1), AddOne(6, 1)},
      t \in {Copy(7, 6), Copy(7, 1), AddOne(7, 6), Set(7, 1, Var(6)), Set(7, 6, Const(2))},
      u \in {Copy(8, 7), Set(8, 6, Var(7)), Set(8, 7, Const(2)), Set(8, 1, Var(7)), AddOne(8, 7)},
      o \in {Var(1), Var(6), Var(7), Var(8), Const(2)},
      q \in {Var(1), Var(6), Var(7), Var(8)}}

(* A branch whose arms meet, or of which one, e's, ends in a contradiction.  *)
Branching(branches) ==
  {[blocks |-> <<Bl({1, 2}, <<s>>, e.branch),
                 Bl({1, 2, 6, 20}, <<t>>, Jump(4, <<Arg(9, o)>>)),
                 Bl({1, 2, 6, 21}, <<u>>, e.term),
                 Bl({1, 2, 6, 9}, <<>>, Return(q))>>,
    types |-> (6 :> Word) @@ (7 :> Word) @@ (8 :> Word) @@ (9 :> Word) @@ Params @@ Hyps] :
      s \in {Copy(6, 1), AddOne(6, 1)},
      t \in {Copy(7, 6), Set(7, 6, Const(2)), AddOne(7, 6)},
      u \in {Copy(8, 6), Set(8, 6, Var(1))},
      o \in {Var(6), Var(7), Const(2)},
      e \in branches,
      q \in {Var(1), Var(6), Var(9)}}

Diamond == Branching(
  [branch : {If(Var(2), 2, 3), If(Var(2), 3, 2)}, term : {Jump(4, <<Arg(9, Var(8))>>), Jump(4, <<Arg(9, Var(6))>>)}]
  \union {[branch |-> If(Var(2), 3, 2), term |-> Halt]})

(* A loop with a call in its body. *)
Loop ==
  {[blocks |-> <<Bl({1, 2}, <<s>>, Jump(2, <<Arg(9, Const(1)), Arg(10, a)>>)),
                 Bl({1, 2, 6, 9, 10}, <<>>, If(Var(9), 3, 5)),
                 Bl({1, 2, 6, 9, 10, 20}, <<t>>, Call(se, c, 4, 11)),
                 Bl({1, 2, 6, 7, 9, 10, 11, 20}, <<>>, Jump(2, <<Arg(9, d), Arg(10, b)>>)),
                 Bl({1, 2, 6, 9, 10, 21}, <<>>, Return(q))>>,
    types |-> (6 :> Word) @@ (7 :> Word) @@ (9 :> 1) @@ (10 :> Word) @@ (11 :> 1) @@ Params @@ Hyps] :
      s \in {Copy(6, 1), AddOne(6, 1)},
      t \in {Copy(7, 10), AddOne(7, 10), GhostOf(7, 10)},
      a \in {Var(1), Var(6)},
      se \in BOOLEAN,
      c \in {Var(7), Var(6), Const(1)},
      d \in {Const(0), Var(11), Var(2)},
      b \in {Var(7), Var(10), Var(6)},
      q \in {Var(6), Var(10), Const(1)}}

(* Arithmetic on unbounded integers that ends in a machine word. *)
LetInt(v, op, o1, o2) == Let(v, TRUE, Inf, op, <<o1, o2>>)
Legal ==
  {[blocks |-> <<Bl({1, 2}, <<Let(6, TRUE, Inf, "cast", <<Var(1)>>), s, t, u>>, Return(Var(9)))>>,
    types |-> (6 :> Inf) @@ (7 :> Inf) @@ (8 :> Inf) @@ (9 :> Word) @@ Params] :
      s \in {Let(7, TRUE, Inf, "neg", <<Var(6)>>), Let(7, TRUE, Inf, "use", <<Const(-3)>>)}
            \union {LetInt(7, op, Var(6), Const(n)) : op \in {"add", "sub", "shl", "max"}, n \in {1, 7}},
      t \in {LetInt(8, op, o, Var(7)) : op \in {"add", "sub"}, o \in {Var(6), Var(7), Const(-1)}}
            \union {Let(8, TRUE, Inf, "use", <<Var(7)>>), Set(8, 7, Const(1)), LetInt(8, "shl", Var(7), Const(5))},
      u \in {Let(9, TRUE, Word, "as", <<Var(8)>>), Let(9, TRUE, Word, "as", <<Var(7)>>),
             Let(9, TRUE, Word, "ltinf", <<Var(6), Var(7)>>), Let(9, TRUE, Word, "ltinf", <<Var(6), Const(2)>>)}}

(* Asserts, failures, exits and calls.  A call is not followed by a          *)
(* contradiction: no call that does not return is lowered.                   *)
Effects ==
  {[blocks |-> <<Bl({1, 2}, <<s>>, Check(o, 2)),
                 Bl({1, 2, 6, 22}, <<>>, ef[1]),
                 Bl({1, 2, 6, 7, 22}, <<>>, ef[2]),
                 Bl({1, 2, 6}, <<>>, Jump(2, <<>>))>>,
    types |-> (6 :> Word) @@ (7 :> 1) @@ Params @@ Hyps] :
      s \in {Copy(6, 1), AddOne(6, 1)},
      o \in {Var(2), Const(1)},
      ef \in ({Call(TRUE, Var(6), 3, 7), Call(FALSE, Var(6), 3, 7), Jump1(3)}
               \X {[t |-> "exit"], [t |-> "fail"], Return(Var(6)), Return(Var(1)), Jump1(2)})
             \union {<<Jump1(3), Halt>>}}

Working == Straight \union Diamond \union Loop \union Legal \union Effects
=============================================================================
