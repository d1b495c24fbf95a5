------------------------------ MODULE ThmVerify ------------------------------
(***************************************************************************)
(* The checker of mm0-rs: elab/verify.rs, run on every declaration before  *)
(* it enters the environment.  It works on the node graphs of ProofDag and *)
(* compares expressions by their address: a node is <<"heap", i>>,         *)
(* <<"store", p>> or, for a theorem's hypothesis i, <<"hyp", i>>.          *)
(*                                                                         *)
(* A verdict is "ok", "error", or "panic" where the code indexes a map by  *)
(* a node that is not in it.                                               *)
(***************************************************************************)
EXTENDS ProofDag, FiniteSets

At(pf, q) == CASE q[1] = "heap" -> pf.heap[q[2]]
               [] q[1] = "store" -> pf.store[q[2]]
               [] q[1] = "hyp" -> pf.hyps[q[2]]

(* unref.  build never puts a reference on the heap but an argument's own. *)
Unref(pf, q) == IF At(pf, q).k = "Ref" THEN <<"heap", At(pf, q).id>> ELSE q

(* The addresses of the n children of the node at q that start at its k-th. *)
Children(pf, q, k, n) == [i \in 1..n |-> <<"store", At(pf, q).p + k + i - 2>>]

Worse(x, y) == IF x = "ok" THEN y ELSE x

SortOK(env, t, bound) == t.sort = bound.sort /\ (bound.bound => t.bound)

-----------------------------------------------------------------------------
(* load_args and verify_expr_node: an expression's type.  NoDummies stands *)
(* for a theorem's statement, which may have none.                         *)

TypeOf(sort, bound, deps) == [sort |-> sort, bound |-> bound, deps |-> deps]
BadType == TypeOf(0, FALSE, {})

NoDummies == [allowed |-> FALSE, seen |-> {}, bv |-> 0]

BitsBefore(args, i) == Len(BoundArgs(SubSeq(args, 1, i - 1)))

ArgsOK(env, args) ==
  \A i \in DOMAIN args :
    /\ args[i].bound => "strict" \notin env.sorts[args[i].sort]
    /\ ~args[i].bound => \A b \in args[i].deps : b < BitsBefore(args, i)

(* The dependencies of an application: what an argument binds is removed,  *)
(* what the result depends on is added.                                    *)
AppDeps(term, ts) ==
  LET Binding(D) == {j \in DOMAIN term.args : term.args[j].bound /\ term.args[j].deps \subseteq D}
      From1(D) == UNION {ts[j].deps : j \in Binding(D)}
      Before(i) == {j \in Binding(term.args[i].deps) : j < i}
  IN  (UNION {ts[i].deps \ UNION {ts[j].deps : j \in Before(i)} :
                i \in {i \in DOMAIN ts : ~term.args[i].bound}})
        \cup From1(term.ret.deps)

RECURSIVE ExprNode(_, _, _, _, _)
ExprNode(env, x, els, ds, e) ==
  CASE e.k = "Ref" -> [t |-> els[e.id], ds |-> ds, ok |-> TRUE]
    [] e.k = "Dummy" ->
         [t |-> TypeOf(e.aux, TRUE, {ds.bv}),
          ds |-> [ds EXCEPT !.seen = @ \cup {e.id}, !.bv = @ + 1],
          ok |-> /\ ds.allowed /\ e.id \notin ds.seen
                 /\ env.sorts[e.aux] \cap {"strict", "free"} = {}]
    [] e.k = "Term" ->
         LET term == env.terms[e.id]
             Arg(acc, i) ==
               LET Add(r) == [ts |-> Append(acc.ts, r.t), ds |-> r.ds,
                              ok |-> acc.ok /\ r.ok /\ SortOK(env, r.t, term.args[i])]
               IN  Add(ExprNode(env, x, els, acc.ds, x.store[e.p + i - 1]))
             App(acc) ==
               [t |-> IF acc.ok THEN TypeOf(term.ret.sort, FALSE, AppDeps(term, acc.ts)) ELSE BadType,
                ds |-> acc.ds, ok |-> acc.ok]
         IN  App(FoldLeft(Arg, [ts |-> <<>>, ds |-> ds, ok |-> TRUE], Upto(Len(term.args))))

(* The expressions es of x one after the other, on top of the entries els; *)
(* a heap entry becomes one of them.                                       *)
ExprNodes(env, x, start, es, keep) ==
  FoldLeft(LAMBDA acc, e :
             LET Add(r) == [els |-> IF keep THEN Append(acc.els, r.t) ELSE acc.els,
                            ds |-> r.ds, ok |-> acc.ok /\ r.ok, ts |-> Append(acc.ts, r.t)]
             IN  Add(ExprNode(env, x, acc.els, acc.ds, e)),
           start, es)

ExprHeap(env, x, args, ds) ==
  ExprNodes(env, x,
            [els |-> [i \in DOMAIN args |-> TypeOf(args[i].sort, args[i].bound, args[i].deps)],
             ds |-> ds, ok |-> ArgsOK(env, args), ts |-> <<>>],
            SubSeq(x.heap, Len(args) + 1, Len(x.heap)), TRUE)

(* verify_termdef, for a definition with its value x. *)
TermDefOK(env, term, x) ==
  LET head == x.store[Len(x.store)]
      Fits(r) == /\ r.ok
                 /\ r.ts[Len(r.ts)].sort = term.ret.sort
                 /\ r.ts[Len(r.ts)].deps \subseteq term.ret.deps
  IN  /\ "pure" \notin env.sorts[term.ret.sort]
      /\ Fits(ExprNodes(env, x,
                ExprHeap(env, x, term.args,
                         [allowed |-> TRUE, seen |-> {}, bv |-> Len(BoundArgs(term.args))]),
                <<head>>, FALSE))

(* The part of verify_thmdef that an axiom goes through as well. *)
StatementOK(env, th) ==
  LET n == Len(th.hyps) + 1
      Provable(r) ==
        r.ok /\ \A i \in (Len(r.ts) - n + 1)..Len(r.ts) : "provable" \in env.sorts[r.ts[i].sort]
  IN  Provable(ExprNodes(env, th, ExprHeap(env, th, th.args, NoDummies),
                         Append(th.hyps, th.ret), FALSE))

-----------------------------------------------------------------------------
(* Unifier: match the node at q against the expression e of x.  tr and     *)
(* dummy say where the entries of x's heap and its dummies went.           *)

NoNodeAt == <<"none", 0>>

Unifier(x, qs) ==
  [tr |-> [i \in DOMAIN x.heap |-> IF i <= Len(qs) THEN qs[i] ELSE NoNodeAt],
   dummy |-> <<>>, res |-> "ok"]

RECURSIVE UnifyExpr(_, _, _, _, _, _, _)

(* A dummy seen for the first time must avoid the entries matched so far. *)
UnifyDummy(pf, deps, u, e, q) ==
  IF e.id \in DOMAIN u.dummy
  THEN [u EXCEPT !.res = IF u.dummy[e.id] = q THEN @ ELSE "error"]
  ELSE LET met == {u.tr[i] : i \in DOMAIN u.tr} \ {NoNodeAt}
       IN  [u EXCEPT !.dummy = (e.id :> q) @@ @,
                     !.res = IF \E m \in met \cup {q} : m \notin DOMAIN deps THEN "panic"
                             ELSE IF \E m \in met : deps[m] \cap deps[q] # {} THEN "error" ELSE @]

UnifyExpr(env, pf, deps, x, u, e, q0) ==
  LET q == Unref(pf, q0)
  IN  CASE u.res # "ok" -> u
        [] e.k = "Ref" /\ u.tr[e.id] # NoNodeAt ->
             [u EXCEPT !.res = IF u.tr[e.id] = q THEN @ ELSE "error"]
        [] e.k = "Ref" ->
             LET Note(v) == [v EXCEPT !.tr[e.id] = q]
             IN  Note(UnifyExpr(env, pf, deps, x, u, x.heap[e.id], q))
        [] e.k = "Dummy" -> UnifyDummy(pf, deps, u, e, q)
        [] e.k = "Term" ->
             LET n == Len(env.terms[e.id].args)
                 node == At(pf, q)
             IN  IF node.k = "Term" /\ node.id = e.id
                 THEN FoldLeft(LAMBDA v, i : UnifyExpr(env, pf, deps, x, v, x.store[e.p + i - 1],
                                                       <<"store", node.p + i - 1>>), u, Upto(n))
                 ELSE [u EXCEPT !.res = "error"]

-----------------------------------------------------------------------------
(* verify_conv_node: whether the node at c proves lhs = rhs. *)

RECURSIVE ConvNode(_, _, _, _, _, _)
ConvNode(env, pf, s, c, lhs, rhs) ==
  LET node == At(pf, c)
      L == At(pf, lhs)
      R == At(pf, rhs)
      n == Len(env.terms[node.id].args)
      Kid(k) == <<"store", node.p + k - 1>>
      All(f(_)) == FoldLeft(LAMBDA res, i : IF res = "ok" THEN f(i) ELSE res, "ok", Upto(n))
  IN  CASE node.k = "Ref" ->
             IF node.id \in DOMAIN s.els /\ s.els[node.id].k = "conv"
             THEN ConvNode(env, pf, s, <<"heap", node.id>>, lhs, rhs) ELSE "error"
        [] node.k = "Refl" ->
             IF Unref(pf, Kid(1)) = lhs /\ Unref(pf, Kid(1)) = rhs THEN "ok" ELSE "error"
        [] node.k = "Sym" -> ConvNode(env, pf, s, Kid(1), rhs, lhs)
        [] node.k = "Cong" ->
             IF L.k = "Term" /\ L.id = node.id /\ R.k = "Term" /\ R.id = node.id
             THEN All(LAMBDA i : ConvNode(env, pf, s, Kid(i), Unref(pf, <<"store", L.p + i - 1>>),
                                          Unref(pf, <<"store", R.p + i - 1>>)))
             ELSE "error"
        [] node.k = "Unfold" ->
             IF /\ L.k = "Term" /\ L.id = node.id
                /\ env.terms[node.id].isdef
                /\ \A i \in 1..n : Unref(pf, Kid(2 + i)) = Unref(pf, <<"store", L.p + i - 1>>)
             THEN LET x == env.terms[node.id].value
                      Then(u) == IF u.res # "ok" THEN u.res
                                 ELSE ConvNode(env, pf, s, Kid(2), Unref(pf, Kid(1)), rhs)
                  IN  Then(UnifyExpr(env, pf, s.deps, x,
                             Unifier(x, [i \in 1..n |-> Unref(pf, Kid(2 + i))]),
                             x.store[Len(x.store)], Kid(1)))
             ELSE "error"
        [] OTHER -> "error"

-----------------------------------------------------------------------------
(* verify_proof_node.  The checker's state: els, what each heap entry is;  *)
(* deps, by address; the dummies and hypotheses met; res, its verdict.     *)

El(k, at, t) == [k |-> k, at |-> at, t |-> t]

Start(th, pf) ==
  [els |-> [i \in DOMAIN th.args |->
              El("expr", <<"heap", i>>, TypeOf(th.args[i].sort, th.args[i].bound, {}))],
   deps |-> [q \in {<<"heap", i>> : i \in DOMAIN th.args} |-> th.args[q[2]].deps],
   dummies |-> {}, hyps |-> {}, bv |-> Len(BoundArgs(th.args)), res |-> "ok"]

Bad(s, q) == [s |-> [s EXCEPT !.res = Worse(@, "error")], el |-> El("none", q, BadType)]

Check(s, cond) == IF cond THEN s ELSE [s EXCEPT !.res = Worse(@, "error")]

RECURSIVE ProofNode(_, _, _, _)

(* The children at qs in turn, each an element of the wanted kind. *)
ProofNodes(env, pf, s, qs, kind) ==
  FoldLeft(LAMBDA acc, q :
             LET Add(r) == [s |-> Check(r.s, r.el.k = kind), els |-> Append(acc.els, r.el)]
             IN  Add(ProofNode(env, pf, acc.s, q)),
           [s |-> s, els |-> <<>>], qs)

TermNode(env, pf, q, r) ==
  LET term == env.terms[At(pf, q).id]
  IN  IF r.s.res # "ok" \/ \E i \in DOMAIN r.els : ~SortOK(env, r.els[i].t, term.args[i])
      THEN Bad(r.s, q)
      ELSE [s |-> [r.s EXCEPT !.deps =
                     (q :> UNION {r.s.deps[r.els[i].at] : i \in DOMAIN r.els}) @@ @],
            el |-> El("expr", q, TypeOf(term.ret.sort, FALSE, {}))]

(* The arguments of a theorem keep their distance. *)
Disjoint(args, deps, els) ==
  \A i \in DOMAIN args : \A j \in 1..(i - 1) :
    \/ deps[els[i].at] \cap deps[els[j].at] = {}
    \/ ~args[i].bound /\ (~args[j].bound \/ args[j].deps \subseteq args[i].deps)

(* A subproof, and its match with the hypothesis of th it is for. *)
Subproof(env, pf, th, acc, i, r) ==
  [s |-> Check(r.s, r.el.k = "proof"),
   u |-> IF r.s.res = "ok" /\ r.el.k = "proof"
         THEN UnifyExpr(env, pf, r.s.deps, th, acc.u, th.hyps[i], r.el.at) ELSE acc.u]

ThmDone(pf, q, res, acc) ==
  IF Worse(acc.s.res, acc.u.res) # "ok"
  THEN Bad([acc.s EXCEPT !.res = Worse(@, acc.u.res)], q)
  ELSE [s |-> acc.s, el |-> El("proof", Unref(pf, res.el.at), BadType)]

(* The result and then the subproofs against the theorem's statement. *)
ThmMatch(env, pf, q, th, els, res) ==
  IF res.s.res # "ok" \/ res.el.k # "expr" THEN Bad(res.s, q)
  ELSE Only({ThmDone(pf, q, res, acc) :
             acc \in {FoldLeft(LAMBDA acc, i :
                                 Only({Subproof(env, pf, th, acc, i, r) :
                                       r \in {ProofNode(env, pf, acc.s,
                                                <<"store", At(pf, q).p + Len(th.args) + i>>)}}),
                               [s |-> res.s,
                                u |-> UnifyExpr(env, pf, res.s.deps, th,
                                        Unifier(th, [i \in DOMAIN th.args |-> els[i].at]),
                                        th.ret, res.el.at)],
                               Upto(Len(th.hyps)))}})

ThmNode(env, pf, q, th, as) ==
  IF \/ as.s.res # "ok"
     \/ \E i \in DOMAIN th.args : ~SortOK(env, as.els[i].t, th.args[i])
     \/ ~Disjoint(th.args, as.s.deps, as.els)
  THEN Bad(as.s, q)
  ELSE Only({ThmMatch(env, pf, q, th, as.els, res) :
             res \in {ProofNode(env, pf, as.s, <<"store", At(pf, q).p>>)}})

(* The target is not itself checked, and the element keeps its address as  *)
(* the proof has it, be it a reference.                                    *)
ProofConvNode(env, pf, q, r) ==
  LET tgt == <<"store", At(pf, q).p>>
      Done(res) == IF res # "ok" THEN Bad([r.s EXCEPT !.res = res], q)
                   ELSE [s |-> r.s, el |-> El("proof", tgt, BadType)]
  IN  IF r.s.res # "ok" \/ r.el.k # "proof" THEN Bad(r.s, q)
      ELSE Done(ConvNode(env, pf, r.s, <<"store", At(pf, q).p + 1>>, Unref(pf, tgt), r.el.at))

ProofNode(env, pf, s, q) ==
  LET node == At(pf, q)
  IN  CASE s.res # "ok" -> Bad(s, q)
        [] node.k = "Ref" -> [s |-> s, el |-> s.els[node.id]]
        [] node.k = "Dummy" ->
             IF node.id \in s.dummies \/ env.sorts[node.aux] \cap {"strict", "free"} # {}
             THEN Bad(s, q)
             ELSE [s |-> [s EXCEPT !.dummies = @ \cup {node.id}, !.bv = @ + 1,
                                   !.deps = (q :> {s.bv}) @@ @],
                   el |-> El("expr", q, TypeOf(node.aux, TRUE, {}))]
        [] node.k = "Term" ->
             Only({TermNode(env, pf, q, r) :
                   r \in {ProofNodes(env, pf, s, Children(pf, q, 1, Len(env.terms[node.id].args)), "expr")}})
        [] node.k = "Hyp" ->
             IF node.id \in s.hyps THEN Bad(s, q)
             ELSE [s |-> [s EXCEPT !.hyps = @ \cup {node.id}],
                   el |-> El("proof", Unref(pf, <<"store", node.p>>), BadType)]
        [] node.k = "Thm" ->
             Only({ThmNode(env, pf, q, env.thms[node.id], r) :
                   r \in {ProofNodes(env, pf, s, Children(pf, q, 2, Len(env.thms[node.id].args)), "expr")}})
        [] node.k = "Conv" ->
             Only({ProofConvNode(env, pf, q, r) : r \in {ProofNode(env, pf, s, <<"store", node.p + 2>>)}})
        [] OTHER -> [s |-> s, el |-> El("conv", q, BadType)]

-----------------------------------------------------------------------------
(* verify_thmdef: the heap in order, the hypotheses, the proof itself, and *)
(* the statement against what was proved.                                  *)

HeapEntries(env, th, pf) ==
  FoldLeft(LAMBDA s, i : Only({[r.s EXCEPT !.els = Append(@, r.el)] :
                               r \in {ProofNode(env, pf, s, <<"heap", i>>)}}),
           Start(th, pf), SubSeq(Upto(Len(pf.heap)), Len(th.args) + 1, Len(pf.heap)))

DeclaredHyp(env, th, pf, acc, i, h, r) ==
  IF r.s.res # "ok" \/ acc.u.res # "ok" \/ h.k # "Hyp" \/ h.id # i
  THEN [acc EXCEPT !.u.res = Worse(@, Worse(r.s.res, "error"))]
  ELSE [s |-> r.s, u |-> UnifyExpr(env, pf, r.s.deps, th, acc.u, th.hyps[i], <<"store", h.p>>)]

DeclaredHyps(env, th, pf, s) ==
  FoldLeft(LAMBDA acc, i :
             Only({DeclaredHyp(env, th, pf, acc, i, At(pf, Unref(pf, <<"hyp", i>>)), r) :
                   r \in {ProofNode(env, pf, acc.s, <<"hyp", i>>)}}),
           [s |-> s, u |-> Unifier(th, [i \in DOMAIN th.args |-> <<"heap", i>>])],
           Upto(Len(th.hyps)))

Conclusion(env, th, pf, u, r) ==
  CASE r.s.res # "ok" -> r.s.res
    [] r.s.res = "ok" /\ r.el.k # "proof" -> "error"
    [] OTHER -> UnifyExpr(env, pf, r.s.deps, th, u, th.ret, r.el.at).res

ThmOK(env, th, pf) ==
  IF ~StatementOK(env, th) \/ Len(th.hyps) # Len(pf.hyps) THEN "error"
  ELSE Only({IF acc.u.res # "ok" THEN acc.u.res
             ELSE Conclusion(env, th, pf, acc.u, ProofNode(env, pf, acc.s, <<"store", Len(pf.store)>>)) :
             acc \in {DeclaredHyps(env, th, pf, s) : s \in {HeapEntries(env, th, pf)}}})
=============================================================================
