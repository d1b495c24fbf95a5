---------------------------- MODULE VerifierLogic ----------------------------
(***************************************************************************)
(* What a run of the kernel is supposed to establish, said without its     *)
(* stack machine: the logic of Metamath Zero over expression trees.  A     *)
(* theorem's instances are the ways to read its unify stream as trees, and *)
(* the derivable statements are the least set closed under the rules.      *)
(* Verifier is checked against it.                                         *)
(***************************************************************************)
EXTENDS Verifier, Integers

Exprs == {a \in DOMAIN store : IsExpr(a)}

-----------------------------------------------------------------------------
(* Expression trees: variables are told apart by their cell, terms are     *)
(* compared by structure.                                                  *)

VarTree(a) == [tag |-> "var", at |-> a]
TermTree(t, xs) == [tag |-> "term", id |-> t, args |-> xs]

(* The bound arguments with a bit in D, of a term with binders A. *)
BoundIn(A, D) == {k \in 1..Len(A) : A[k].bound /\ BitOf(A, k) \in D}

(* What the cell c at address a stands for, m being what earlier ones do:  *)
(* the tree; V, every variable dependency in it; FV, the free ones.  An     *)
(* argument loses the bound variables its binder depends on, and the       *)
(* result has those its own type depends on.                               *)
Means(terms, c, a, m) ==
  IF c.tag = "term"
  THEN LET A == terms[c.id].args
           FVs(K) == UNION {m[c.args[k]].FV : k \in K}
       IN  [tree |-> TermTree(c.id, [i \in DOMAIN c.args |-> m[c.args[i]].tree]),
            V |-> UNION {m[c.args[i]].V : i \in DOMAIN c.args},
            FV |-> (UNION {m[c.args[i]].FV \ FVs(BoundIn(A, A[i].deps)) :
                             i \in {i \in 1..Len(A) : ~A[i].bound}})
                     \cup FVs(BoundIn(A, terms[c.id].ret.deps))]
  ELSE LET D == IF c.tag = "var" THEN c.type.deps ELSE {}
       IN  [tree |-> VarTree(a), V |-> D, FV |-> D]

Meanings(terms, st) ==
  LET m[a \in DOMAIN st] == Means(terms, st[a], a, m) IN m

Meaning(a) == Meanings(file.terms, store)[a]

ResultsAreClosed == \A t \in DOMAIN file.terms : file.terms[t].ret.deps = {}

(* Every disjointness check of the kernel reads the dependencies cached with *)
(* expressions.  Bound variables are told apart by them (BoundVarsTracked);  *)
(* in a proof they cover the free variables and are variables of the        *)
(* expression, unless the tables have a term whose result depends on a      *)
(* bound argument (AcceptedIsProvable); while a definition is checked they  *)
(* are the free variables, whatever the terms bind or depend on             *)
(* (verifier.c:416-418: "FV(e) (Def)").                                     *)
DependenciesAreTracked ==
  /\ BoundVarsTracked
  /\ (pc = "proof" /\ ResultsAreClosed) =>
       \A a \in Exprs : Meaning(a).FV \subseteq Deps(a) /\ Deps(a) \subseteq Meaning(a).V
  /\ (pc = "proof" /\ Mode = "Def") => \A a \in Exprs : Deps(a) = Meaning(a).FV

-----------------------------------------------------------------------------
(* Unify streams as patterns: an expression in Polish notation for the     *)
(* conclusion, then one after each Hyp.                                    *)

(* The commands before the first End, and those an expression begins with. *)
Commands(code) == {k \in DOMAIN code : \A j \in 1..k : code[j].op # "End"}
Reading(code) == {k \in Commands(code) : code[k].op # "Hyp"}

Arity(terms, c) == IF c.op \in {"Term", "TermSave"} THEN Len(terms[c.data].args) ELSE 0

(* How many expressions are still to be read when command k is next.       *)
Pending(terms, code) ==
  LET n[k \in 1..(Len(code) + 1)] ==
        IF k = 1 THEN 1
        ELSE n[k - 1] + (IF code[k - 1].op = "Hyp" THEN 1 ELSE Arity(terms, code[k - 1]) - 1)
  IN  n

(* The next expression after command j that begins with l still to be read *)
(* begins at p; n is Pending(terms, code).                                 *)
Begins(code, n, j, l, p) ==
  LET At(q) == q \in Reading(code) /\ q > j /\ n[q] = l
  IN  At(p) /\ \A q \in 1..(p - 1) : ~At(q)

Place(code, n, j, l) == CHOOSE p \in Reading(code) : Begins(code, n, j, l, p)

(* Where the expressions that belong to command k begin: the hypothesis, or *)
(* the arguments, of which the last is read last, with as many still to be  *)
(* read as before the term.                                                *)
Parts(terms, code, n, k) ==
  IF code[k].op = "Hyp" THEN {n[k] + 1} ELSE n[k]..(n[k] + Arity(terms, code[k]) - 1)

(* None is missing: the stream ends when all are read. *)
Complete(terms, code) ==
  LET n == Pending(terms, code) IN
  /\ \E p \in Reading(code) : Begins(code, n, 0, 1, p)
  /\ \A k \in Commands(code) : \A l \in Parts(terms, code, n, k) :
       \E p \in Reading(code) : Begins(code, n, k, l, p)

Saves(c) == c.op \in {"Dummy", "TermSave"}

(* Command j fills slot d of the heap, above those of the binders. *)
Fills(code, binders, d, j) ==
  Saves(code[j]) /\ d = binders + Cardinality({i \in 1..j : Saves(code[i])})

(* T says what the expressions of the stream are, trees in U. *)
Readings(terms, code, U) ==
  LET n == Pending(terms, code)
  IN  {T \in [Reading(code) -> U] :
         \A k \in Reading(code) :
           code[k].op \in {"Term", "TermSave"} =>
             /\ T[k].tag = "term" /\ T[k].id = code[k].data
             /\ \A i \in 1..Arity(terms, code[k]) :
                  T[k].args[i] = T[Place(code, n, k, n[k] + Arity(terms, code[k]) - i)]}

(* A reference is to one of the trees s for the binders, or on the heap.   *)
Refers(code, s, T) ==
  \A k \in Reading(code) :
    code[k].op = "Ref" =>
      IF code[k].data \in DOMAIN s THEN T[k] = s[code[k].data]
      ELSE \E j \in 1..(k - 1) : Fills(code, Len(s), code[k].data, j) /\ T[k] = T[j]

Conclusion(terms, code, T) == T[Place(code, Pending(terms, code), 0, 1)]
HypsOf(terms, code, T) ==
  LET n == Pending(terms, code)
  IN  {T[Place(code, n, k, n[k] + 1)] : k \in {k \in Commands(code) : code[k].op = "Hyp"}}

Has(code, op) == \E k \in Commands(code) : code[k].op = op

-----------------------------------------------------------------------------
(* The rules, over the trees that a store holds, with the terms of the     *)
(* file and the theorems declared so far.                                  *)

World(terms, thms, cells) ==
  LET m == Meanings(terms, cells)
      exprs == {a \in DOMAIN cells : cells[a].tag \in {"var", "term"}}
  IN  [terms |-> terms, thms |-> thms, cells |-> cells, mean |-> m,
       exprs |-> exprs, trees |-> {m[a].tree : a \in exprs}]

SortOf(w, x) == IF x.tag = "var" THEN w.cells[x.at].type.sort ELSE w.terms[x.id].sort
IsBoundVar(w, x) == x.tag = "var" /\ w.cells[x.at].type.bound
Fits(w, x, b) == SortOf(w, x) = b.sort /\ (b.bound => IsBoundVar(w, x))
FV(w, x) == w.mean[CHOOSE a \in w.exprs : w.mean[a].tree = x].FV
Apart(w, x, y) == FV(w, x) \cap FV(w, y) = {}

(* What x unfolds to: the body of its definition at its arguments, the     *)
(* dummies bound variables of their sorts, distinct from each other and    *)
(* from every variable of the arguments.                                   *)
Unfoldings(w, x) ==
  LET code == w.terms[x.id].unify
      Dummies == {k \in Reading(code) : code[k].op = "Dummy"}
      Fresh(T) == \A k \in Dummies :
        /\ IsBoundVar(w, T[k]) /\ SortOf(w, T[k]) = code[k].data
        /\ \A i \in DOMAIN x.args : Apart(w, T[k], x.args[i])
        /\ \A j \in Dummies \ {k} : T[k] # T[j]
  IN  IF x.tag = "term" /\ w.terms[x.id].isdef /\ ~Has(code, "Hyp") /\ Complete(w.terms, code)
      THEN {<<x, Conclusion(w.terms, code, T)>> :
              T \in {T \in Readings(w.terms, code, w.trees) : Refers(code, x.args, T) /\ Fresh(T)}}
      ELSE {}

(* The pairs one application of a conversion rule adds to C: D are the     *)
(* unfoldings.                                                             *)
ConvStep(U, D, C) ==
  {p \in U \X U :
     LET x == p[1] y == p[2] IN
       \/ x = y
       \/ p \in D
       \/ <<y, x>> \in C
       \/ \E z \in U : <<x, z>> \in C /\ <<z, y>> \in C
       \/ /\ x.tag = "term" /\ y.tag = "term" /\ x.id = y.id
          /\ \A i \in DOMAIN x.args : <<x.args[i], y.args[i]>> \in C}

(* Trees for the binders A of a theorem that fit and keep their distance. *)
Allowed(w, A, s) ==
  /\ \A i \in 1..Len(A) : Fits(w, s[i], A[i])
  /\ \A i \in 1..Len(A) : \A k \in BoundBefore(A, i) :
       (A[i].bound \/ BitOf(A, k) \notin A[i].deps) => Apart(w, s[i], s[k])
  /\ \A i \in 1..Len(A) : A[i].bound =>
       \A j \in 1..(i - 1) : ~A[j].bound => Apart(w, s[i], s[j])

(* The instances of theorem t, each with its hypotheses. *)
Instances(w, t) ==
  LET A == w.thms[t].args
      code == w.thms[t].unify
  IN  IF Has(code, "Dummy") \/ ~Complete(w.terms, code) THEN {}
      ELSE {<<Conclusion(w.terms, code, T), HypsOf(w.terms, code, T)>> :
              T \in {T \in Readings(w.terms, code, w.trees) :
                       \E s \in [1..Len(A) -> w.trees] : Refers(code, s, T) /\ Allowed(w, A, s)}}

(* The statements one application of a rule derives from P: an instance in *)
(* I, or a conversion in C.                                                *)
ProofStepSet(U, I, C, P) ==
  {x \in U : \/ \E r \in I : r[1] = x /\ r[2] \subseteq P
             \/ \E y \in P : <<x, y>> \in C}

(* The least set closed under Step, a function on the subsets of a set. *)
Least(Step, S0) ==
  LET up[S \in DOMAIN Step] == LET R == S \cup Step[S] IN IF R = S THEN S ELSE up[R]
  IN  up[S0]

Convertible(w) ==
  LET D == UNION {Unfoldings(w, x) : x \in w.trees}
  IN  Least([C \in SUBSET (w.trees \X w.trees) |-> ConvStep(w.trees, D, C)], {})

(* What follows from the hypotheses H, C being Convertible(w). *)
Derivable(w, C, H) ==
  LET I == UNION {Instances(w, t) : t \in DOMAIN w.thms}
  IN  Least([P \in SUBSET w.trees |-> ProofStepSet(w.trees, I, C, P)], H)

-----------------------------------------------------------------------------
(* What a proof's stack and heap say of it *)

Now == World(file.terms, [t \in 1..nthms |-> file.thms[t]], store)
Hypotheses(w, hs) == {w.mean[hs[k]].tree : k \in DOMAIN hs}

(* Slot k of the stack s claims a proof in P or a conversion in C, when the *)
(* obligations above it can be met.                                        *)
PairAt(w, s, k) == <<w.mean[s[k].at].tree, w.mean[s[k - 1].at].tree>>
Met(w, C, s, k) == \A j \in (k + 1)..Len(s) : s[j].tag = "coconv" => PairAt(w, s, j) \in C
StackHolds(w, C, P, s) ==
  \A k \in DOMAIN s : Met(w, C, s, k) =>
    /\ s[k].tag = "proof" => w.mean[s[k].at].tree \in P
    /\ s[k].tag = "conv" => PairAt(w, s, k) \in C

(* An entry of the heap h claims so outright. *)
HeapHolds(w, C, P, h) ==
  \A i \in DOMAIN h :
    /\ h[i].tag = "proof" => w.mean[h[i].at].tree \in P
    /\ h[i].tag = "conv" =>
         <<w.mean[w.cells[h[i].at].e1].tree, w.mean[w.cells[h[i].at].e2].tree>> \in C

(* Soundness of the proof checker, at every step of a proof: when the      *)
(* obligations above a slot can be met, what the slot claims is derivable  *)
(* from the hypotheses; what the heap claims is so outright.  A proof ends *)
(* with one proof and no obligation on the stack, which makes the accepted *)
(* conclusion a theorem of the logic.  (For tables without a term whose    *)
(* result depends on a bound argument, as above.)                          *)
ProofsAreDerivable ==
  (pc = "proof" /\ ~sorry /\ ResultsAreClosed) =>
    LET w == Now
        C == Convertible(w)
        P == Derivable(w, C, Hypotheses(w, hstack))
    IN  StackHolds(w, C, P, stack) /\ HeapHolds(w, C, P, heap)

(* README.md: mm0-c "returns 0 only if all the theorems described in the   *)
(* MM0 file are provable".  A theorem without hypotheses that is about to  *)
(* be entered in the table is derivable.                                   *)
AcceptedIsProvable ==
  (pc = "unify" /\ ucall.for = "end" /\ stmt.kind = "thm" /\ ~sorry
     /\ Len(ucode) = 1 /\ ustack = <<>> /\ hstack = <<>>
     /\ \A i \in DOMAIN ThmNow.unify : ThmNow.unify[i].op # "Hyp")
    => LET w == Now IN w.mean[ucall.e].tree \in Derivable(w, Convertible(w), {})

=============================================================================
