------------------------------ MODULE ProofDag ------------------------------
(***************************************************************************)
(* The proof compacter of mm0-rs: elab/proof.rs, and its use for a theorem *)
(* in elab/local_context.rs.  The elaborator leaves a proof as a lisp      *)
(* value; Dedup hash-conses it, noting which nodes are used twice, and     *)
(* build lays the nodes out: a used-twice node goes on the heap and is     *)
(* referred to, any other is moved into the one place that uses it.        *)
(*                                                                         *)
(* A lisp value is a tree, names resolved:                                 *)
(*   <<"var", i>>  <<"dummy", name, sort>>  <<"hyp", i>>                   *)
(*   <<"term", t, args>>  <<"thm", t, args and subproofs>>                 *)
(*   <<"conv", tgt, conversion, proof>>  <<"sym", conversion>>             *)
(*   <<"unfold", t, args, conversion>>                                     *)
(* and its pointers are told by whether equal trees are one pointer        *)
(* (interned) or each occurrence has its own.  An environment is a record  *)
(* of sorts (sets of modifiers), terms and thms; dependencies are sets.    *)
(***************************************************************************)
EXTENDS Naturals, Sequences, SequencesExt, TLC

Upto(n) == [i \in 1..n |-> i]

(* The element of a singleton: Only({f(x) : x \in {e}}) computes e once. *)
Only(S) == CHOOSE r \in S : TRUE

-----------------------------------------------------------------------------
(* Dedup: vec holds [hash, shared, deps]; fine falls on an error. *)

Hash(k, id, kids) == [k |-> k, id |-> id, kids |-> kids, aux |-> 0]

BoundArgs(args) == SelectSeq(args, LAMBDA a : a.bound)

NewDag(args) ==
  [vec |-> [i \in DOMAIN args |->
              [hash |-> Hash("Ref", i, <<>>), shared |-> TRUE, deps |-> args[i].deps]],
   prev |-> <<>>, bv |-> Len(BoundArgs(args)), fine |-> TRUE]

(* Broken variant: a second use is not recorded. *)
ReuseUnmarked(de, n) == [de |-> de, n |-> n]

Reuse(de, n) == [de |-> [de EXCEPT !.vec[n].shared = TRUE], n |-> n]

HashDeps(de, h) ==
  CASE h.k = "Dummy" -> {de.bv}
    [] h.k = "Term" -> UNION {de.vec[h.kids[i]].deps : i \in DOMAIN h.kids}
    [] OTHER -> {}

AddDirect(de, h) ==
  IF \E i \in DOMAIN de.vec : de.vec[i].hash = h
  THEN Reuse(de, CHOOSE i \in DOMAIN de.vec : de.vec[i].hash = h)
  ELSE [de |-> [de EXCEPT !.vec = Append(@, [hash |-> h, shared |-> FALSE, deps |-> HashDeps(de, h)]),
                          !.bv = IF h.k = "Dummy" THEN @ + 1 ELSE @],
        n |-> Len(de.vec) + 1]

Failed(de) == [de |-> [de EXCEPT !.fine = FALSE], n |-> 1]

Convs == {"Refl", "Sym", "Cong", "Unfold"}
IsConv(de, i) == de.vec[i].hash.k \in Convs

AsConv(r) == IF IsConv(r.de, r.n) THEN r ELSE AddDirect(r.de, Hash("Refl", 0, <<r.n>>))

(* Thread a Dedup through one step per element of s. *)
Each(Step(_, _), de, s) ==
  FoldLeft(LAMBDA acc, x : LET Add(r) == [de |-> r.de, ns |-> Append(acc.ns, r.n)]
                           IN  Add(Step(acc.de, x)),
           [de |-> de, ns |-> <<>>], s)

(* One side of a conversion, as an expression. *)
RECURSIVE ConvSide(_, _, _)
ConvSide(de, i, right) ==
  LET h == de.vec[i].hash
      Term(r) == AddDirect(r.de, Hash("Term", h.id, r.ns))
  IN  CASE h.k = "Refl" -> Reuse(de, h.kids[1])
        [] h.k = "Sym" -> ConvSide(de, h.kids[1], ~right)
        [] h.k = "Cong" -> Term(Each(LAMBDA d, c : ConvSide(d, c, right), de, h.kids))
        [] h.k = "Unfold" /\ right -> ConvSide(de, h.kids[2], TRUE)
        [] OTHER -> Reuse(de, h.aux)

-----------------------------------------------------------------------------
(* Expression and proof nodes.  A node's children lie in the store from p. *)

Node(k, id, aux, p) == [k |-> k, id |-> id, aux |-> aux, p |-> p]
NoNode == Node("None", 0, 0, 0)
RefNode(i) == Node("Ref", i, 0, 0)

(* ProofHash::subst: the instance of a statement at the arguments in map. *)
NoIndex == 0

RECURSIVE Subst(_, _, _, _, _)
Subst(env, th, de, map, e) ==
  CASE e.k = "Ref" /\ map[e.id] # NoIndex ->
         LET Known(r) == [de |-> r.de, map |-> map, n |-> r.n] IN Known(Reuse(de, map[e.id]))
    [] e.k = "Ref" ->
         LET Note(r) == [r EXCEPT !.map[e.id] = r.n] IN Note(Subst(env, th, de, map, th.heap[e.id]))
    [] e.k = "Term" ->
         LET Arg(acc, i) ==
               LET Add(r) == [de |-> r.de, map |-> r.map, ns |-> Append(acc.ns, r.n)]
               IN  Add(Subst(env, th, acc.de, acc.map, th.store[e.p + i - 1]))
             App(acc) ==
               LET Done(r) == [de |-> r.de, map |-> acc.map, n |-> r.n]
               IN  Done(AddDirect(acc.de, Hash("Term", e.id, acc.ns)))
         IN  App(FoldLeft(Arg, [de |-> de, map |-> map, ns |-> <<>>],
                          Upto(Len(env.terms[e.id].args))))

-----------------------------------------------------------------------------
(* dedup and ProofHash::from *)

(* The disjoint variable condition of a theorem's application. *)
Apart(de, args, ns) ==
  \A i \in DOMAIN args :
    IF args[i].bound
    THEN \A j \in 1..(i - 1) : de.vec[ns[j]].deps \cap de.vec[ns[i]].deps = {}
    ELSE \A j \in 1..(i - 1) :
           (args[j].bound /\ args[j].deps \cap args[i].deps = {})
             => de.vec[ns[j]].deps \cap de.vec[ns[i]].deps = {}

RECURSIVE Dedup(_, _, _, _)

(* A sequence of lisp values of the given kinds; a conversion position     *)
(* takes an expression for its reflexivity.                                *)
DedupAll(ctx, de, kinds, es) ==
  Each(LAMBDA d, i : IF kinds[i] = "Conv" THEN AsConv(Dedup(ctx, d, "Conv", es[i]))
                                          ELSE Dedup(ctx, d, kinds[i], es[i]),
       de, Upto(Len(es)))

Kinds(k, n) == [i \in 1..n |-> k]

FromAtom(de, kind, h) ==
  LET Refl(r) == AddDirect(r.de, Hash("Refl", 0, <<r.n>>))
  IN  IF kind = "Conv" THEN Refl(AddDirect(de, h)) ELSE AddDirect(de, h)

FromTerm(t, r) ==
  LET Cong(s) == AddDirect(s.de, Hash("Cong", t, s.ns))
  IN  IF \E i \in DOMAIN r.ns : IsConv(r.de, r.ns[i])
      THEN Cong(Each(LAMBDA d, n : AsConv([de |-> d, n |-> n]), r.de, r.ns))
      ELSE AddDirect(r.de, Hash("Term", t, r.ns))

FromThm(ctx, t, r) ==
  LET th == ctx.env.thms[t]
      n == Len(th.args)
      Map == [i \in DOMAIN th.heap |-> IF i <= n THEN r.ns[i] ELSE NoIndex]
      Apply(s) == AddDirect(s.de, Hash("Thm", t, <<s.n>> \o r.ns))
  IN  IF Apart(r.de, th.args, r.ns)
      THEN Apply(Subst(ctx.env, th, r.de, Map, th.ret))
      ELSE Failed(r.de)

FromUnfold(ctx, e, r) ==
  LET Unfold(lhs, c, s) ==
        AddDirect(s.de, [k |-> "Unfold", id |-> e[2], kids |-> <<s.n, c>> \o r.ns, aux |-> lhs])
      Side(lhs, c) == Unfold(lhs, c.n, ConvSide(c.de, c.n, FALSE))
      Conv(l) == Side(l.n, AsConv(Dedup(ctx, l.de, "Conv", e[4])))
  IN  Conv(AddDirect(r.de, Hash("Term", e[2], r.ns)))

From(ctx, de, kind, e) ==
  LET Join(k, r) == AddDirect(r.de, Hash(k, 0, r.ns))
  IN
  CASE e[1] = "var" -> FromAtom(de, kind, Hash("Ref", e[2], <<>>))
    [] e[1] = "dummy" ->
         IF ctx.env.sorts[e[3]] \cap {"strict", "free"} # {} THEN Failed(de)
         ELSE FromAtom(de, kind, [Hash("Dummy", e[2], <<>>) EXCEPT !.aux = e[3]])
    [] e[1] = "hyp" ->
         Reuse(de, CHOOSE n \in DOMAIN de.vec : de.vec[n].hash.k = "Hyp" /\ de.vec[n].hash.id = e[2])
    [] e[1] = "term" -> FromTerm(e[2], DedupAll(ctx, de, Kinds("Expr", Len(e[3])), e[3]))
    [] e[1] = "thm" ->
         FromThm(ctx, e[2], DedupAll(ctx, de,
           [i \in DOMAIN e[3] |-> IF i <= Len(ctx.env.thms[e[2]].args) THEN "Expr" ELSE "Proof"], e[3]))
    [] e[1] = "conv" -> Join("Conv", DedupAll(ctx, de, <<"Expr", "Conv", "Proof">>, Tail(e)))
    [] e[1] = "sym" -> Join("Sym", DedupAll(ctx, de, <<"Conv">>, Tail(e)))
    [] e[1] = "unfold" -> FromUnfold(ctx, e, DedupAll(ctx, de, Kinds("Expr", Len(e[3])), e[3]))

Dedup(ctx, de, kind, e) ==
  LET Remember(r) == [r EXCEPT !.de.prev = (<<kind, e>> :> r.n) @@ @]
  IN  CASE ~de.fine -> Failed(de)
        [] ctx.interned /\ <<kind, e>> \in DOMAIN de.prev -> Reuse(de, de.prev[<<kind, e>>])
        [] OTHER -> Remember(From(ctx, de, kind, e))

-----------------------------------------------------------------------------
(* build: ids[n] is the node itself, a reference to the heap, or done. *)

Take(b, n) ==
  IF b.ids[n].k = "Ref" \/ b.ids[n] = NoNode THEN [b EXCEPT !.twice = @ \/ b.ids[n] = NoNode]
                                             ELSE [b EXCEPT !.ids[n] = NoNode]

(* Val::take of each of ns, the nodes pushed on the store. *)
TakeAll(b, ns) ==
  FoldLeft(LAMBDA acc, n : [Take(acc, n) EXCEPT !.store = Append(@, acc.ids[n])], b, ns)

BuildNode(b, entry) ==
  LET h == entry.hash
      node == Node(h.k, h.id, h.aux, Len(b.store) + 1)
      Place(c) ==
        IF entry.shared
        THEN [c EXCEPT !.ids = Append(@, RefNode(Len(c.heap) + 1)), !.heap = Append(@, node)]
        ELSE [c EXCEPT !.ids = Append(@, node)]
  IN  Place(TakeAll(b, h.kids))

Build(vec) ==
  FoldLeft(BuildNode, [ids |-> <<>>, heap |-> <<>>, store |-> <<>>, twice |-> FALSE], vec)

(* Take the nodes of ns out of a build: b without their place in the store. *)
Roots(b, ns) ==
  LET Cut(c) == [build |-> [c EXCEPT !.store = b.store],
                 nodes |-> SubSeq(c.store, Len(b.store) + 1, Len(c.store))]
  IN  Cut(TakeAll(b, ns))

-----------------------------------------------------------------------------
(* The declarations of local_context.rs *)

(* A definition's value. *)
BuildExpr(ctx, args, value) ==
  LET Pack(b) == [heap |-> b.heap, store |-> b.store, twice |-> b.twice]
      Finish(r) == Pack(TakeAll(Build(r.de.vec), <<r.n>>))
  IN  Finish(Dedup(ctx, NewDag(args), "Expr", value))

(* An axiom's or a theorem's statement, and the Dedup its proof goes on    *)
(* from.                                                                   *)
BuildThm(ctx, args, hyps, ret) ==
  LET Pack(r, x) ==
        [args |-> args, heap |-> x.build.heap, store |-> x.build.store, twice |-> x.build.twice,
         hyps |-> SubSeq(x.nodes, 1, Len(hyps)), ret |-> x.nodes[Len(hyps) + 1],
         de |-> r.de, is |-> SubSeq(r.ns, 1, Len(hyps))]
      Finish(r) == Pack(r, Roots(Build(r.de.vec), r.ns))
  IN  Finish(DedupAll(ctx, NewDag(args), Kinds("Expr", Len(hyps) + 1), Append(hyps, ret)))

(* The proof of a theorem whose hypotheses all have names. *)
BuildProof(ctx, thm, proof) ==
  LET Pack(fine, x, head) ==
        [heap |-> x.build.heap, store |-> head.store, hyps |-> x.nodes,
         twice |-> head.twice, fine |-> fine]
      Finish(ip, hs, x) == Pack(ip.de.fine, x, TakeAll(x.build, <<ip.n>>))
      Whole(ip, hs) == Finish(ip, hs, Roots(Build(ip.de.vec), hs))
      Prove(h) == Whole(Dedup(ctx, h.de, "Proof", proof), h.ns)
  IN  Prove(Each(LAMBDA d, i : AddDirect(d, Hash("Hyp", i, <<thm.is[i]>>)), thm.de,
                 Upto(Len(thm.is))))
=============================================================================
