------------------------------ MODULE MmbExport ------------------------------
(***************************************************************************)
(* The exporter of mm0-rs: mmb/export.rs.  It turns the declarations of an *)
(* environment into the tables and the command streams that a verifier of  *)
(* .mmb files reads.  A shared node is written out where it is first met,  *)
(* with a command that saves it, and referred to after that: the exporter  *)
(* counts the entries the verifier's heap will have to know the index.     *)
(*                                                                         *)
(* Heap indices count from 1.  Names, the debugging index and the byte     *)
(* layout are left out.                                                    *)
(***************************************************************************)
EXTENDS ProofDag

Cmd(op, data, save) == [op |-> op, data |-> data, save |-> save]
Op(op) == Cmd(op, 0, FALSE)

Unassigned == 0

(* Reorder, with what is written so far; dummies are the names, in order.  *)
Writer(nargs, len) ==
  [code |-> <<>>, map |-> [i \in 1..len |-> IF i <= nargs THEN i ELSE Unassigned],
   idx |-> nargs + 1, save |-> <<>>, dummies |-> <<>>, at |-> 0]

Write(w, c) == [w EXCEPT !.code = Append(@, c)]

(* Broken variant: the entry is not counted. *)
WriteEntryUncounted(w, c) == [w EXCEPT !.code = Append(@, c), !.at = w.idx]

(* A command whose verifier pushes one entry on the heap. *)
WriteEntry(w, c) == [w EXCEPT !.code = Append(@, c), !.at = w.idx, !.idx = @ + 1]

WriteSaved(w, c, save) == IF save THEN WriteEntry(w, c) ELSE Write(w, c)

Kid(x, e, i) == x.store[e.p + i - 1]

-----------------------------------------------------------------------------
(* write_expr_unify: a unify stream, in prefix order.  A shared node waits *)
(* in save until the command that opens it tells its index.                *)

Commit(w, n) ==
  [w EXCEPT !.map = [i \in DOMAIN @ |-> IF \E k \in DOMAIN w.save : w.save[k] = i THEN n ELSE @[i]],
            !.save = <<>>]

OpenTerm(w, t) ==
  IF w.save = <<>> THEN Write(w, Cmd("Term", t, FALSE))
  ELSE WriteEntry(Commit(w, w.idx), Cmd("TermSave", t, TRUE))

RECURSIVE WriteExprUnify(_, _, _, _)
WriteExprUnify(env, x, w, e) ==
  CASE e.k = "Ref" /\ w.map[e.id] = Unassigned ->
         WriteExprUnify(env, x, [w EXCEPT !.save = Append(@, e.id)], x.heap[e.id])
    [] e.k = "Ref" -> Write(Commit(w, w.map[e.id]), Cmd("Ref", w.map[e.id], FALSE))
    [] e.k = "Dummy" -> WriteEntry(Commit(w, w.idx), Cmd("Dummy", e.aux, FALSE))
    [] e.k = "Term" ->
         FoldLeft(LAMBDA v, i : WriteExprUnify(env, x, v, Kid(x, e, i)),
                  OpenTerm(w, e.id), Upto(Len(env.terms[e.id].args)))

UnifyCode(w) == [i \in DOMAIN w.code |-> [op |-> w.code[i].op, data |-> w.code[i].data]]

TermUnify(env, args, x) ==
  UnifyCode(Write(WriteExprUnify(env, x, Writer(Len(args), Len(x.heap)), x.store[Len(x.store)]),
                  Op("End")))

(* The conclusion, then the hypotheses, the last one first. *)
ThmUnify(env, th) ==
  UnifyCode(Write(FoldRight(LAMBDA h, w : WriteExprUnify(env, th, Write(w, Op("Hyp")), h), th.hyps,
                            WriteExprUnify(env, th, Writer(Len(th.args), Len(th.heap)), th.ret)),
                  Op("End")))

-----------------------------------------------------------------------------
(* write_expr_proof: an expression in postfix order; at is its heap index. *)

RECURSIVE WriteExprProof(_, _, _, _, _)
WriteExprProof(env, x, w, e, save) ==
  CASE e.k = "Ref" /\ w.map[e.id] = Unassigned ->
         LET Note(v) == [v EXCEPT !.map[e.id] = v.at]
         IN  Note(WriteExprProof(env, x, w, x.heap[e.id], TRUE))
    [] e.k = "Ref" -> [Write(w, Cmd("Ref", w.map[e.id], FALSE)) EXCEPT !.at = w.map[e.id]]
    [] e.k = "Dummy" ->
         [WriteEntry(w, Cmd("Dummy", e.aux, FALSE)) EXCEPT !.dummies = Append(@, e.id)]
    [] e.k = "Term" ->
         WriteSaved(FoldLeft(LAMBDA v, i : WriteExprProof(env, x, v, Kid(x, e, i), FALSE),
                             w, Upto(Len(env.terms[e.id].args))),
                    Cmd("Term", e.id, save), save)

-----------------------------------------------------------------------------
(* write_proof and write_conv *)

RECURSIVE WriteProof(_, _, _, _, _, _), WriteConv(_, _, _, _, _)

WriteProofs(env, x, w, hyps, es) ==
  FoldLeft(LAMBDA v, e : WriteProof(env, x, v, hyps, e, FALSE), w, es)

Kids(x, e, i, n) == SubSeq(x.store, e.p + i - 1, e.p + i + n - 2)

WriteProof(env, x, w, hyps, e, save) ==
  CASE e.k = "Ref" /\ w.map[e.id] = Unassigned ->
         LET Note(v) == [v EXCEPT !.map[e.id] = v.at]
         IN  Note(WriteProof(env, x, w, hyps, x.heap[e.id], TRUE))
    [] e.k = "Ref" -> [Write(w, Cmd("Ref", w.map[e.id], FALSE)) EXCEPT !.at = w.map[e.id]]
    [] e.k = "Dummy" ->
         [WriteEntry(w, Cmd("Dummy", e.aux, FALSE)) EXCEPT !.dummies = Append(@, e.id)]
    [] e.k = "Term" ->
         WriteSaved(WriteProofs(env, x, w, hyps, Kids(x, e, 1, Len(env.terms[e.id].args))),
                    Cmd("Term", e.id, save), save)
    [] e.k = "Hyp" -> [Write(w, Cmd("Ref", hyps[e.id], FALSE)) EXCEPT !.at = hyps[e.id]]
    [] e.k = "Thm" ->
         LET th == env.thms[e.id]
             n == Len(th.args)
         IN  WriteSaved(WriteProofs(env, x, w, hyps,
                          Kids(x, e, n + 2, Len(th.hyps)) \o Kids(x, e, 2, n) \o Kids(x, e, 1, 1)),
                        Cmd("Thm", e.id, save), save)
    [] e.k = "Conv" ->
         LET Save(v) == IF save THEN WriteEntry(v, Op("Save")) ELSE v
         IN  Save(WriteConv(env, x,
                    Write(WriteProofs(env, x, w, hyps, <<Kid(x, e, 1), Kid(x, e, 3)>>), Op("Conv")),
                    hyps, Kid(x, e, 2)))

(* A shared conversion is proved on the side, by a cut, and then saved; a  *)
(* shared reflexivity is written again.                                    *)
WriteConv(env, x, w, hyps, e) ==
  CASE e.k = "Ref" /\ w.map[e.id] = Unassigned /\ x.heap[e.id].k \in {"Refl", "Ref"} ->
         WriteConv(env, x, w, hyps, x.heap[e.id])
    [] e.k = "Ref" /\ w.map[e.id] = Unassigned ->
         LET Note(v) == [v EXCEPT !.map[e.id] = v.at]
         IN  Note(WriteEntry(WriteConv(env, x, Write(w, Op("ConvCut")), hyps, x.heap[e.id]),
                             Op("ConvSave")))
    [] e.k = "Ref" -> Write(w, Cmd("Ref", w.map[e.id], FALSE))
    [] e.k = "Refl" -> Write(w, Op("Refl"))
    [] e.k = "Sym" -> WriteConv(env, x, Write(w, Op("Sym")), hyps, Kid(x, e, 1))
    [] e.k = "Cong" ->
         FoldLeft(LAMBDA v, i : WriteConv(env, x, v, hyps, Kid(x, e, i)),
                  Write(w, Op("Cong")), Upto(Len(env.terms[e.id].args)))
    [] e.k = "Unfold" ->
         WriteConv(env, x, Write(WriteProof(env, x, w, hyps, Kid(x, e, 1), FALSE), Op("Unfold")),
                   hyps, Kid(x, e, 2))

-----------------------------------------------------------------------------
(* run: what each declaration is written as. *)

DefProof(env, args, x) ==
  WriteExprProof(env, x, Writer(Len(args), Len(x.heap)), x.store[Len(x.store)], FALSE)

AxiomProof(env, th) ==
  WriteExprProof(env, th,
    FoldLeft(LAMBDA w, h : WriteEntry(WriteExprProof(env, th, w, h, FALSE), Op("Hyp")),
             Writer(Len(th.args), Len(th.heap)), th.hyps),
    th.ret, FALSE)

(* A theorem: each hypothesis is written by its expression and becomes an  *)
(* entry of its own, which the proof refers to.                            *)
ThmProof(env, th, x) ==
  LET Expr(h) == Kid(x, IF h.k = "Ref" THEN x.heap[h.id] ELSE h, 1)
      Hyp(acc, h) ==
        LET Entry(w) == [w |-> w, hyps |-> Append(acc.hyps, w.at)]
        IN  Entry(WriteEntry(WriteProof(env, x, acc.w, acc.hyps, Expr(h), FALSE), Op("Hyp")))
      Body(acc) == WriteProof(env, x, acc.w, acc.hyps, x.store[Len(x.store)], FALSE)
  IN  Body(FoldLeft(Hyp, [w |-> Writer(Len(th.args), Len(x.heap)), hyps |-> <<>>], x.hyps))

(* A theorem without a proof: its statement, and Sorry. *)
SorryProof(env, th) == Write(AxiomProof(env, th), Op("Sorry"))
=============================================================================
