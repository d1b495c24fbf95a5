----------------------------- MODULE MCVerifier -----------------------------
(* Small proof files for TLC.  Unify streams are in Polish notation, the   *)
(* conclusion first and the last hypothesis next, as run_unify reads them. *)
EXTENDS VerifierLogic

Reg(s, ds) == [bound |-> FALSE, sort |-> s, deps |-> ds]
Bv(s, b) == [bound |-> TRUE, sort |-> s, deps |-> {b}]

U(op, d) == [op |-> op, data |-> d]
End == U("End", 0)
Hyp == U("Hyp", 0)

TermDecl(args, s) ==
  [args |-> args, ret |-> Reg(s, {}), sort |-> s, isdef |-> FALSE, unify |-> <<>>]
DefDecl(args, s, code) ==
  [args |-> args, ret |-> Reg(s, {}), sort |-> s, isdef |-> TRUE, unify |-> code]
ThmDecl(args, code) == [args |-> args, unify |-> code]

Says(kind, entry) == [kind |-> kind, entry |-> entry]

wff == {"provable"}
not == TermDecl(<<Reg(1, {})>>, 1)

(* Two constants, the axiom c and the claim k, which does not follow.  The *)
(* binder of both takes a place on the heap and in the store.              *)
c   == TermDecl(<<>>, 1)
k   == TermDecl(<<>>, 1)
axC == ThmDecl(<<Bv(2, 0)>>, <<U("Term", 1), End>>)
thK == ThmDecl(<<Bv(2, 0)>>, <<U("Term", 2), End>>)

ConstFile ==
  [sorts |-> <<wff, {}>>, terms |-> <<c, k>>, thms |-> <<axC, thK>>,
   spec |-> <<Says("sort", wff), Says("sort", {}), Says("term", c), Says("term", k),
              Says("axiom", axC), Says("thm", thK)>>]

ConstFiles == {ConstFile}

(* An axiom p |- not p and a theorem p |- not not p, which applies it      *)
(* twice, to the theorem's own hypothesis first.                           *)
axH == ThmDecl(<<Reg(1, {})>>, <<U("Term", 1), U("Ref", 1), Hyp, U("Ref", 1), End>>)
thH == ThmDecl(<<Reg(1, {})>>,
               <<U("Term", 1), U("Term", 1), U("Ref", 1), Hyp, U("Ref", 1), End>>)

HypFile ==
  [sorts |-> <<wff>>, terms |-> <<not>>, thms |-> <<axH, thH>>,
   spec |-> <<Says("sort", wff), Says("term", not), Says("axiom", axH), Says("thm", thH)>>]

(* p |- p, stated twice. *)
id == ThmDecl(<<Reg(1, {})>>, <<U("Ref", 1), Hyp, U("Ref", 1), End>>)

TwiceFile ==
  [sorts |-> <<wff>>, terms |-> <<>>, thms |-> <<id, id>>,
   spec |-> <<Says("sort", wff), Says("thm", id), Says("thm", id)>>]

HypFiles == {HypFile, TwiceFile}

(* A term r {x y: var}: wff, a definition with a dummy, g x := r x .y,    *)
(* whose body the specification leaves out, the axiom r x y for distinct x *)
(* and y, and the claim g x, proved by a conversion.  The dummy must       *)
(* differ from x: r x x does not follow.                                   *)
r   == TermDecl(<<Bv(2, 0), Bv(2, 1)>>, 1)
g   == DefDecl(<<Bv(2, 0)>>, 1, <<U("Term", 1), U("Ref", 1), U("Dummy", 2), End>>)
axR == ThmDecl(<<Bv(2, 0), Bv(2, 1)>>, <<U("Term", 1), U("Ref", 1), U("Ref", 2), End>>)
gx  == ThmDecl(<<Bv(2, 0)>>, <<U("Term", 2), U("Ref", 1), End>>)

DummyFile ==
  [sorts |-> <<wff, {}>>, terms |-> <<r, g>>, thms |-> <<axR, gx>>,
   spec |-> <<Says("sort", wff), Says("sort", {}), Says("term", r), Says("def", [g EXCEPT !.unify = <<>>]),
              Says("axiom", axR), Says("thm", gx)>>]

DummyFiles == {DummyFile}

(* A quantifier all {x: var} (p: wff x), a definition f x p := all x p     *)
(* that binds its x, the axiom  all x p  for x not in p, and the claim     *)
(* all x p  for any p, which does not follow.                              *)
all  == TermDecl(<<Bv(2, 0), Reg(1, {0})>>, 1)
f    == DefDecl(<<Bv(2, 0), Reg(1, {0})>>, 1, <<U("Term", 1), U("Ref", 1), U("Ref", 2), End>>)
axD  == ThmDecl(<<Bv(2, 0), Reg(1, {})>>, <<U("Term", 1), U("Ref", 1), U("Ref", 2), End>>)
bad  == ThmDecl(<<Bv(2, 0), Reg(1, {0})>>, <<U("Term", 1), U("Ref", 1), U("Ref", 2), End>>)

DisjointFile ==
  [sorts |-> <<wff, {}>>, terms |-> <<all, f>>, thms |-> <<axD, bad>>,
   spec |-> <<Says("sort", wff), Says("sort", {}), Says("term", all), Says("def", f),
              Says("axiom", axD), Says("thm", bad)>>]

DisjointFiles == {DisjointFile}

(* The same quantifier and axiom, and a predicate  pred x  that depends on *)
(* its bound argument: the claim  all x (pred x)  does not follow.         *)
pred == [args |-> <<Bv(2, 0)>>, ret |-> Reg(1, {0}), sort |-> 1, isdef |-> FALSE, unify |-> <<>>]
gen  == ThmDecl(<<Bv(2, 0)>>, <<U("Term", 1), U("Ref", 1), U("Term", 2), U("Ref", 1), End>>)

DependentFile ==
  [sorts |-> <<wff, {}>>, terms |-> <<all, pred>>, thms |-> <<axD, gen>>,
   spec |-> <<Says("sort", wff), Says("sort", {}), Says("term", all), Says("term", pred),
              Says("axiom", axD), Says("thm", gen)>>]

DependentFiles == {DependentFile}

(* A definition  q x := pred x  over them. *)
q == [args |-> <<Bv(2, 0)>>, ret |-> Reg(1, {0}), sort |-> 1, isdef |-> TRUE,
      unify |-> <<U("Term", 2), U("Ref", 1), End>>]

ResultFile ==
  [sorts |-> <<wff, {}>>, terms |-> <<all, pred, q>>, thms |-> <<>>,
   spec |-> <<Says("sort", wff), Says("sort", {}), Says("term", all), Says("term", pred),
              Says("def", q)>>]

ResultFiles == {ResultFile}

(* Theorems with as many binders as the unify heap has places, the second   *)
(* proved by the first, and an axiom with one more.                        *)
Binding(n) == ThmDecl([i \in 1..n |-> Reg(1, {})], <<U("Ref", 1), End>>)

WideFile ==
  [sorts |-> <<wff>>, terms |-> <<>>, thms |-> <<Binding(2), Binding(2), Binding(3)>>,
   spec |-> <<Says("sort", wff), Says("axiom", Binding(2)), Says("thm", Binding(2)), Says("axiom", Binding(3))>>]

(* Hypotheses, repeated statements, a definition, too many binders. *)
StatementFiles == HypFiles \cup ResultFiles \cup {WideFile}

(* Constants, definitions, dummies, binders, dependent terms. *)
BareFiles == ConstFiles \cup DummyFiles \cup DisjointFiles \cup DependentFiles \cup ResultFiles
=============================================================================
