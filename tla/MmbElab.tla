------------------------------- MODULE MmbElab -------------------------------
(***************************************************************************)
(* What mm0-rs does with a declaration of an .mm1 file, end to end: the    *)
(* lisp value of a proof is compacted (ProofDag), checked (ThmVerify) and  *)
(* exported (MmbExport), and what was written is imported (MmbImport).     *)
(*                                                                         *)
(* A declaration that mm0-rs refuses is written as well, to compare its    *)
(* checker with mm0-c's.                                                   *)
(***************************************************************************)
EXTENDS Naturals, Sequences, SequencesExt

E == INSTANCE MmbExport
V == INSTANCE ThmVerify
I == INSTANCE MmbImport

NoEnv == [sorts |-> <<>>, terms |-> <<>>, thms |-> <<>>]

-----------------------------------------------------------------------------
(* The tree under a node, to compare two layouts of one proof: a shared    *)
(* node is written out, and a dummy goes by its place in names.            *)

KidCount(en, e) ==
  CASE e.k \in {"Term", "Cong"} -> Len(en.terms[e.id].args)
    [] e.k = "Unfold" -> 2 + Len(en.terms[e.id].args)
    [] e.k = "Thm" -> 1 + Len(en.thms[e.id].args) + Len(en.thms[e.id].hyps)
    [] e.k = "Conv" -> 3
    [] OTHER -> 1

RECURSIVE Tree(_, _, _, _, _)
Tree(en, nargs, names, x, e) ==
  CASE e.k = "Ref" /\ e.id <= nargs -> <<"Var", e.id, <<>>>>
    [] e.k = "Ref" -> Tree(en, nargs, names, x, x.heap[e.id])
    [] e.k = "Dummy" -> <<"Dummy", CHOOSE i \in DOMAIN names : names[i] = e.id, <<>>>>
    [] OTHER -> <<e.k, e.id, [i \in 1..KidCount(en, e) |-> Tree(en, nargs, names, x, x.store[e.p + i - 1])]>>

Root(x) == x.store[Len(x.store)]

StatementTree(en, th) ==
  [i \in 1..(Len(th.hyps) + 1) |->
     Tree(en, Len(th.args), <<>>, th, IF i <= Len(th.hyps) THEN th.hyps[i] ELSE th.ret)]

Numbers(names) == [i \in DOMAIN names |-> i]

-----------------------------------------------------------------------------
(* Elaborating a declaration d in the environment en.  The result is the   *)
(* environment after it, and a record of what is written (its kind, its    *)
(* table entry, its command stream), of the verdict of verify.rs, of the   *)
(* trees of its proof, and of back, what the import of what was written    *)
(* gives: verify.rs' verdict on it or the importer's, and whether it is    *)
(* the same declaration.                                                   *)

Back(verdict, same) == [verdict |-> verdict, same |-> same]

Written(kind, entry, cmds, verdict, trees, back) ==
  [kind |-> kind, entry |-> entry, code |-> cmds, verdict |-> verdict, trees |-> trees, back |-> back]

Panic(en) == [en |-> en, t |-> Written("none", <<>>, <<>>, "panic", <<>>, Back("ok", TRUE))]

AddSort(en, d) ==
  [en |-> [en EXCEPT !.sorts = Append(@, d.mods)],
   t |-> Written("sort", d.mods, <<>>, "ok", <<>>, Back("ok", TRUE))]

TermEntryOf(d, isdef, unify) ==
  [args |-> d.args, ret |-> [bound |-> FALSE, sort |-> d.ret.sort, deps |-> d.ret.deps],
   sort |-> d.ret.sort, isdef |-> isdef, unify |-> unify]

AddTerm(en, d) ==
  [en |-> [en EXCEPT !.terms = Append(@, [args |-> d.args, ret |-> d.ret, isdef |-> FALSE])],
   t |-> Written("term", TermEntryOf(d, FALSE, <<>>), <<>>, "ok", <<>>, Back("ok", TRUE))]

Verdict(ok) == IF ok THEN "ok" ELSE "error"

(* x as it was written, z as it is read. *)
WriteDef(en, d, x, unify, w, z) ==
  [en |-> [en EXCEPT !.terms = Append(@, [args |-> d.args, ret |-> d.ret, isdef |-> TRUE, value |-> x])],
   t |-> Written("def", TermEntryOf(d, TRUE, unify), w.code, Verdict(V!TermDefOK(en, d, x)), <<>>,
                 Back(Verdict(V!TermDefOK(en, d, z)),
                      Tree(en, Len(d.args), w.dummies, x, Root(x))
                        = Tree(en, Len(d.args), Numbers(w.dummies), z, Root(z))))]

AddDef(en, d) ==
  V!Only({IF x.twice THEN Panic(en)
          ELSE V!Only(UNION {
                 {WriteDef(en, d, x, unify, w, z) : w \in {E!DefProof(en, d.args, x)},
                                                    z \in {I!ParseDef(en, Len(d.args), unify)}} :
                 unify \in {E!TermUnify(en, d.args, x)}}) :
          x \in {V!BuildExpr([env |-> en, interned |-> d.interned], d.args, d.value)}})

WithThm(en, th) == [en EXCEPT !.thms = Append(@, th)]
ThmEntryOf(th, unify) == [args |-> th.args, unify |-> unify]

WriteStatement(en, kind, th, unify, y) ==
  [en |-> WithThm(en, th),
   t |-> Written(kind, ThmEntryOf(th, unify),
                 (IF kind = "thm" THEN E!SorryProof(en, th) ELSE E!AxiomProof(en, th)).code,
                 IF ~V!StatementOK(en, th) THEN "error" ELSE IF kind = "thm" THEN "sorry" ELSE "ok", <<>>,
                 Back(Verdict(V!StatementOK(en, y)), StatementTree(en, th) = StatementTree(en, y)))]

(* An axiom, or a theorem whose proof failed to elaborate, is its          *)
(* statement alone; the importer leaves such a theorem without a proof.    *)
AddStatement(en, kind, th) ==
  V!Only(UNION {
    {WriteStatement(en, kind, th, unify, y) : y \in {I!ParseThm(en, th.args, unify)}} :
    unify \in {E!ThmUnify(en, th)}})

ProofTrees(en, n, names, x) ==
  <<Tree(en, n, names, x, Root(x))>> \o [i \in DOMAIN x.hyps |-> Tree(en, n, names, x, x.hyps[i])]

(* The statement y and the proof z as read, for th and its proof's trees.  *)
ReadBack(en, th, trees, names, y, z) ==
  CASE ~z.fine -> Back("unread", FALSE)
    [] z.fine /\ z.twice -> Back("panic", FALSE)
    [] OTHER -> Back(V!ThmOK(en, y, z),
                     /\ StatementTree(en, th) = StatementTree(en, y)
                     /\ ProofTrees(en, Len(th.args), Numbers(names), z) = trees)

WriteProved(en, th, pf, trees, unify, w, y, z) ==
  [en |-> WithThm(en, th),
   t |-> Written("thm", ThmEntryOf(th, unify), w.code, V!ThmOK(en, th, pf), trees,
                 ReadBack(en, th, trees, w.dummies, y, z))]

AddProved(en, th, pf) ==
  V!Only(UNION {
    {WriteProved(en, th, pf, trees, unify, w, y, z) :
       trees \in {ProofTrees(en, Len(th.args), w.dummies, pf)},
       y \in {I!ParseThm(en, th.args, unify)},
       z \in {I!ParseProof(en, Len(th.args), w.code)}} :
    unify \in {E!ThmUnify(en, th)}, w \in {E!ThmProof(en, th, pf)}})

EntryOf(s) == [args |-> s.args, heap |-> s.heap, store |-> s.store, hyps |-> s.hyps, ret |-> s.ret]

AddThm(en, d) ==
  V!Only({
    CASE s.twice -> Panic(en)
      [] ~s.twice /\ d.kind = "axiom" -> AddStatement(en, "axiom", EntryOf(s))
      [] OTHER ->
           V!Only({IF pf.fine /\ pf.twice THEN Panic(en)
                   ELSE IF pf.fine THEN AddProved(en, EntryOf(s), pf)
                   ELSE AddStatement(en, "thm", EntryOf(s)) :
                   pf \in {V!BuildProof([env |-> en, interned |-> d.interned], s, d.proof)}}) :
    s \in {V!BuildThm([env |-> en, interned |-> d.interned], d.args, d.hyps, d.ret)}})

Elaborate(en, d) ==
  CASE d.kind = "sort" -> AddSort(en, d)
    [] d.kind = "term" -> AddTerm(en, d)
    [] d.kind = "def" -> AddDef(en, d)
    [] d.kind \in {"axiom", "thm"} -> AddThm(en, d)

(* The declarations ds in turn, and the environment they make. *)
Elaborated(ds) ==
  FoldLeft(LAMBDA acc, d : V!Only({[en |-> r.en, ts |-> Append(acc.ts, r.t)] : r \in {Elaborate(acc.en, d)}}),
           [en |-> NoEnv, ts |-> <<>>], ds)
=============================================================================
