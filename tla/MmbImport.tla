------------------------------ MODULE MmbImport ------------------------------
(***************************************************************************)
(* The importer of mm0-rs: mmb/import.rs.  It reads the tables and command *)
(* streams of a proof file back into declarations: a unify stream becomes  *)
(* a statement by recursive descent, a proof stream is run on a stack of   *)
(* nodes and what it leaves is laid out by the same build as an elaborated *)
(* proof.  Here nothing is hash-consed: a node is shared when a command    *)
(* refers to its heap entry.                                               *)
(*                                                                         *)
(* Dummies are named by their order.                                       *)
(***************************************************************************)
EXTENDS ProofDag

-----------------------------------------------------------------------------
(* parse_unify *)

StartUnify(nargs, code) ==
  [code |-> code, heap |-> [i \in 1..nargs |-> RefNode(i)], store |-> <<>>,
   fwd |-> Upto(nargs), dummies |-> 0, r |-> NoNode]

(* A saved node is on the heap, and a reference to it in its place. *)
Saved(st, n, node) ==
  [st EXCEPT !.fwd[n] = Len(st.heap) + 1, !.heap = Append(@, node), !.r = RefNode(Len(st.heap) + 1)]

RECURSIVE Go(_, _)
Go(env, st0) ==
  LET c == Head(st0.code)
      st == [st0 EXCEPT !.code = Tail(@)]
      save == c.op = "TermSave"
      n == Len(st.fwd) + 1
      Arg(acc, i) ==
        LET Add(s) == [st |-> s, args |-> Append(acc.args, s.r)] IN Add(Go(env, acc.st))
      App(acc) ==
        LET s == [acc.st EXCEPT !.store = @ \o acc.args]
            node == Node("Term", c.data, 0, Len(acc.st.store) + 1)
        IN  IF save THEN Saved(s, n, node) ELSE [s EXCEPT !.r = node]
  IN  CASE c.op \in {"Term", "TermSave"} ->
             App(FoldLeft(Arg, [st |-> IF save THEN [st EXCEPT !.fwd = Append(@, 0)] ELSE st,
                                args |-> <<>>],
                          Upto(Len(env.terms[c.data].args))))
        [] c.op = "Ref" -> [st EXCEPT !.r = RefNode(st.fwd[c.data])]
        [] c.op = "Dummy" ->
             Saved([st EXCEPT !.fwd = Append(@, 0), !.dummies = @ + 1], n,
                   Node("Dummy", st.dummies + 1, c.data, 0))

(* A definition's value. *)
ParseDef(env, nargs, code) ==
  LET Pack(st) == [heap |-> st.heap, store |-> Append(st.store, st.r)]
  IN  Pack(Go(env, StartUnify(nargs, code)))

(* Broken variant: the hypotheses stay in the order they are read.         *)
AddHypBehind(hyps, h) == Append(hyps, h)

AddHyp(hyps, h) == <<h>> \o hyps

RECURSIVE HypsOf(_, _)
HypsOf(env, acc) ==
  LET Add(s) == HypsOf(env, [st |-> s, hyps |-> AddHyp(acc.hyps, s.r)])
  IN  IF Head(acc.st.code).op = "Hyp" THEN Add(Go(env, [acc.st EXCEPT !.code = Tail(@)])) ELSE acc

(* The conclusion comes first, then the hypotheses from the last. *)
ParseThm(env, args, code) ==
  LET Pack(ret, acc) == [args |-> args, heap |-> acc.st.heap, store |-> acc.st.store,
                         hyps |-> acc.hyps, ret |-> ret]
      Hyps(st) == Pack(st.r, HypsOf(env, [st |-> st, hyps |-> <<>>]))
  IN  Hyps(Go(env, StartUnify(Len(args), code)))

-----------------------------------------------------------------------------
(* parse_proof.  Elements of the stack and the heap: e and e2 are nodes an *)
(* element mentions, n the node it owns; co, for an obligation, is what to *)
(* do with the conversion that will prove it.                              *)

Elem(k, n, e, e2) == [k |-> k, n |-> n, e |-> e, e2 |-> e2]
CoElem(co, e, e2) == [k |-> "coconv", co |-> co, e |-> e, e2 |-> e2]

StartProof(nargs) ==
  [vec |-> [i \in 1..nargs |-> [hash |-> Hash("Ref", i, <<>>), shared |-> TRUE]],
   stack |-> <<>>, heap |-> [i \in 1..nargs |-> Elem("expr", i, i, i)],
   hyps |-> <<>>, dummies |-> 0, fine |-> TRUE]

Wrong(st) == [st EXCEPT !.fine = FALSE]

Last1(st) == st.stack[Len(st.stack)]
Pop(st, n) == [st EXCEPT !.stack = SubSeq(@, 1, Len(@) - n)]
Put(st, el) == [st EXCEPT !.stack = Append(@, el)]
OnHeap(st, el) == [st EXCEPT !.heap = Append(@, el)]
OnTop(st, ks) ==
  /\ Len(st.stack) >= Len(ks)
  /\ \A i \in DOMAIN ks : st.stack[Len(st.stack) - Len(ks) + i].k = ks[i]
Owned(st, n) == [i \in 1..n |-> st.stack[Len(st.stack) - n + i].n]

(* Dedup::push, without a look for an equal node. *)
PushNode(st, h) == [st EXCEPT !.vec = Append(@, [hash |-> h, shared |-> FALSE])]
Newest(st) == Len(st.vec)

(* Broken variant: a reference to the heap is not counted as a use. *)
ShareNot(st, n) == st

Share(st, n) == [st EXCEPT !.vec[n].shared = TRUE]

RECURSIVE ApplyCoConv(_, _, _)

(* The next pair of arguments, or the congruence is complete. *)
ApplyCong(st, co, t, pairs, args) ==
  LET Whole(s) == ApplyCoConv(s, co, Newest(s))
  IN  IF pairs = <<>> THEN Whole(PushNode(st, Hash("Cong", t, args)))
      ELSE Put(st, CoElem([k |-> "Cong", co |-> co, t |-> t, pairs |-> Tail(pairs), args |-> args],
                          Head(pairs)[1], Head(pairs)[2]))

(* The conversion c for the obligation co. *)
ApplyCoConv(st, co, c) ==
  LET Pass(s) == ApplyCoConv(s, co.co, Newest(s))
      Proved(s) == Put(s, Elem("proof", Newest(s), co.tgt, co.tgt))
  IN  CASE co.k = "Conv" -> Proved(PushNode(st, Hash("Conv", 0, <<co.tgt, c, co.pf>>)))
        [] co.k = "Sym" -> Pass(PushNode(st, Hash("Sym", 0, <<c>>)))
        [] co.k = "Cong" -> ApplyCong(st, co.co, co.t, co.pairs, Append(co.args, c))
        [] co.k = "Unfold" ->
             Pass(PushNode(st, [k |-> "Unfold", id |-> co.t, kids |-> <<co.sub, c>> \o co.args,
                                aux |-> co.lhs]))
        [] co.k = "Cut" -> Put(ApplyCoConv(st, co.co, c), Elem("conv", c, co.e, co.e2))

-----------------------------------------------------------------------------
(* apply_cmd *)

TermOf(st, n) == st.vec[n].hash

ImportRef(st, c) ==
  LET el == st.heap[c.data]
      s == Share(st, el.n)
  IN  IF el.k # "conv" THEN Put(s, el)
      ELSE IF OnTop(s, <<"coconv">>) /\ Last1(s).e = el.e /\ Last1(s).e2 = el.e2
      THEN ApplyCoConv(Pop(s, 1), Last1(s).co, el.n)
      ELSE Wrong(s)

ImportTerm(env, st, c) ==
  LET n == Len(env.terms[c.data].args)
      Keep(s, el) == IF c.save THEN Put(OnHeap(s, el), el) ELSE Put(s, el)
      Whole(s) == Keep(s, Elem("expr", Newest(s), Newest(s), Newest(s)))
  IN  IF OnTop(st, Kinds("expr", n))
      THEN Whole(PushNode(Pop(st, n), Hash("Term", c.data, Owned(st, n)))) ELSE Wrong(st)

ImportDummy(st, c) ==
  LET el == Elem("expr", Newest(st) + 1, Newest(st) + 1, Newest(st) + 1)
      Name(s) == PushNode(s, [Hash("Dummy", s.dummies, <<>>) EXCEPT !.aux = c.data])
  IN  Put(OnHeap(Name([st EXCEPT !.dummies = @ + 1]), el), el)

ImportHyp(st) ==
  LET e == Last1(st).n
      Whole(s) == [OnHeap(s, Elem("proof", Newest(s), e, e)) EXCEPT !.hyps = Append(@, Newest(s))]
  IN  IF OnTop(st, <<"expr">>)
      THEN Whole(PushNode(Pop(st, 1), Hash("Hyp", Len(st.hyps) + 1, <<e>>))) ELSE Wrong(st)

ImportThm(env, st, c) ==
  LET th == env.thms[c.data]
      n == Len(th.args)
      h == Len(th.hyps)
      tgt == Last1(st).n
      Whole(s, el) == IF c.save THEN Put(OnHeap(s, el), el) ELSE Put(s, el)
      Applied(s) == Whole(s, Elem("proof", Newest(s), tgt, tgt))
      Kid1(s) == Owned(Pop(s, 1), n) \o Owned(Pop(s, n + 1), h)
  IN  IF OnTop(st, Kinds("proof", h) \o Kinds("expr", n + 1))
      THEN Applied(PushNode(Pop(st, n + h + 1), Hash("Thm", c.data, <<tgt>> \o Kid1(st))))
      ELSE Wrong(st)

ImportConv(st) ==
  LET pf == Last1(st)
      tgt == Last1(Pop(st, 1)).n
  IN  IF OnTop(st, <<"expr", "proof">>)
      THEN Put(Pop(st, 2), CoElem([k |-> "Conv", tgt |-> tgt, pf |-> pf.n], tgt, pf.e))
      ELSE Wrong(st)

(* The node of a reflexivity is taken as it is: not counted as a use.      *)
ImportRefl(st) ==
  LET Whole(s) == ApplyCoConv(s, Last1(st).co, Newest(s))
  IN  IF OnTop(st, <<"coconv">>) /\ Last1(st).e = Last1(st).e2
      THEN Whole(PushNode(Pop(st, 1), Hash("Refl", 0, <<Last1(st).e>>))) ELSE Wrong(st)

ImportCong(st) ==
  LET co == Last1(st)
      a == TermOf(st, co.e)
      b == TermOf(st, co.e2)
  IN  IF OnTop(st, <<"coconv">>) /\ a.k = "Term" /\ b.k = "Term" /\ a.id = b.id
      THEN ApplyCong(Pop(st, 1), co.co, a.id, [i \in DOMAIN a.kids |-> <<a.kids[i], b.kids[i]>>], <<>>)
      ELSE Wrong(st)

ImportUnfold(st) ==
  LET sub == Last1(st).n
      co == Last1(Pop(st, 1))
      a == TermOf(st, co.e)
      Reused == FoldLeft(Share, Pop(st, 2), a.kids)
  IN  IF OnTop(st, <<"coconv", "expr">>) /\ a.k = "Term"
      THEN Put(Reused, CoElem([k |-> "Unfold", co |-> co.co, t |-> a.id, args |-> a.kids,
                               lhs |-> co.e, sub |-> sub], sub, co.e2))
      ELSE Wrong(st)

ImportCut(st) ==
  LET co == Last1(st)
  IN  IF OnTop(st, <<"coconv">>)
      THEN Put(Pop(st, 1), CoElem([k |-> "Cut", co |-> co.co, e |-> co.e, e2 |-> co.e2], co.e, co.e2))
      ELSE Wrong(st)

ApplyCmd(env, st, c) ==
  CASE ~st.fine -> st
    [] c.op = "Ref" -> ImportRef(st, c)
    [] c.op = "Term" -> ImportTerm(env, st, c)
    [] c.op = "Dummy" -> ImportDummy(st, c)
    [] c.op = "Hyp" -> ImportHyp(st)
    [] c.op = "Thm" -> ImportThm(env, st, c)
    [] c.op = "Conv" -> ImportConv(st)
    [] c.op = "Refl" -> ImportRefl(st)
    [] c.op = "Sym" -> IF OnTop(st, <<"coconv">>)
                       THEN Put(Pop(st, 1), CoElem([k |-> "Sym", co |-> Last1(st).co],
                                                   Last1(st).e2, Last1(st).e))
                       ELSE Wrong(st)
    [] c.op = "Cong" -> ImportCong(st)
    [] c.op = "Unfold" -> ImportUnfold(st)
    [] c.op = "ConvCut" -> ImportCut(st)
    [] c.op = "ConvSave" -> IF OnTop(st, <<"conv">>) THEN OnHeap(Pop(st, 1), Last1(st)) ELSE Wrong(st)
    [] c.op = "Save" -> IF st.stack # <<>> /\ Last1(st).k # "coconv" THEN OnHeap(st, Last1(st))
                                                                    ELSE Wrong(st)
    [] OTHER -> Wrong(st)

(* The proof in a stream. *)
ParseProof(env, nargs, code) ==
  LET Pack(x, b) == [heap |-> b.heap, store |-> b.store, hyps |-> x.nodes, twice |-> b.twice, fine |-> TRUE]
      Finish(st, x) == Pack(x, TakeAll(x.build, <<Last1(st).n>>))
      Whole(st) == IF st.fine /\ Len(st.stack) = 1 /\ OnTop(st, <<"proof">>)
                   THEN Finish(st, Roots(Build(st.vec), st.hyps))
                   ELSE [heap |-> <<>>, store |-> <<>>, hyps |-> <<>>, twice |-> FALSE, fine |-> FALSE]
  IN  Whole(FoldLeft(LAMBDA st, c : ApplyCmd(env, st, c), StartProof(nargs), code))
=============================================================================
