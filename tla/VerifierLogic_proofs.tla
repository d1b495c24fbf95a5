------------------------ MODULE VerifierLogic_proofs ------------------------
(***************************************************************************)
(* The kernel against the logic: the dependencies that it caches are those *)
(* of the expressions, and whatever a proof's commands put on the stack or *)
(* the heap follows from the declared theorems and the hypotheses, for     *)
(* every file, every proof stream and every capacity.                      *)
(***************************************************************************)
EXTENDS VerifierLogic, Verifier_proofs, WellFoundedInduction

(* Induction over the numbers, for sets: WFMin with the order of Nat. *)
LEMMA NatOrder ==
  \E R : IsWellFoundedOn(R, Nat) /\ \A k, m \in Nat : k < m => <<k, m>> \in R
<1>1. IsWellFoundedOn(OpToRel(<, Nat), Nat)
  BY NatLessThanWellFounded
<1>2. \A k, m \in Nat : k < m => <<k, m>> \in OpToRel(<, Nat)
  BY DEF OpToRel
<1> QED BY <1>1, <1>2, Zenon

LEMMA NatLeast ==
  ASSUME NEW S, S \subseteq Nat, S # {}
  PROVE \E m \in S : \A k \in S : m <= k
<1>1. PICK R : IsWellFoundedOn(R, Nat) /\ \A k, m \in Nat : k < m => <<k, m>> \in R
  BY NatOrder
<1>2. IsWellFoundedOn(R, Nat)
  BY <1>1, Zenon
<1>3. \E m \in S : \A k \in S : ~ (<<k, m>> \in R)
  BY <1>2, WFMin
<1>4. PICK m \in S : \A k \in S : ~ (<<k, m>> \in R)
  BY <1>3, Zenon
<1>5. \A k \in S : ~ (k < m)
  BY <1>1, <1>4, Zenon
<1>6. \A k \in S : m <= k
  BY <1>5
<1> QED BY <1>6

LEMMA NatAll ==
  ASSUME NEW S, 0 \in S, \A n \in Nat : n \in S => n + 1 \in S
  PROVE \A n \in Nat : n \in S
<1>1. SUFFICES ASSUME Nat \ S # {} PROVE FALSE
  OBVIOUS
<1>2. PICK m \in Nat \ S : \A k \in Nat \ S : m <= k
  BY <1>1, NatLeast
<1>3. m # 0 /\ m - 1 \in Nat /\ m - 1 \in S
  BY <1>2
<1> QED BY <1>2, <1>3

-----------------------------------------------------------------------------
(* The least set closed under a step *)

(* A step that never loses anything by being given more. *)
Monotone(X, Step) ==
  /\ Step \in [SUBSET X -> SUBSET X]
  /\ \A R, S \in SUBSET X : R \subseteq S => Step[R] \subseteq Step[S]

(* What Least computes is closed under the step, and within every closed   *)
(* set that has the first elements.                                        *)
LEMMA LeastIs ==
  ASSUME NEW X, IsFiniteSet(X), NEW Step, Monotone(X, Step), NEW S0 \in SUBSET X
  PROVE  /\ Least(Step, S0) \in SUBSET X
         /\ S0 \subseteq Least(Step, S0)
         /\ Step[Least(Step, S0)] \subseteq Least(Step, S0)
         /\ \A K \in SUBSET X : S0 \subseteq K /\ Step[K] \subseteq K => Least(Step, S0) \subseteq K
<1> DEFINE Next1(S) == S \cup Step[S]
           Body(g, S) == IF Next1(S) = S THEN S ELSE g[Next1(S)]
           h == [S \in SUBSET X |->
                   {x \in X : \A K \in SUBSET X : S \subseteq K /\ Step[K] \subseteq K => x \in K}]
           up == CHOOSE g : g = [S \in SUBSET X |-> Body(g, S)]
           Good(S) == /\ up[S] \in SUBSET X /\ S \subseteq up[S] /\ Step[up[S]] \subseteq up[S]
                      /\ \A K \in SUBSET X : S \subseteq K /\ Step[K] \subseteq K => up[S] \subseteq K
<1>1. DOMAIN Step = SUBSET X /\ \A S \in SUBSET X : Step[S] \in SUBSET X
  BY DEF Monotone
<1>2. \A S \in SUBSET X : Next1(S) \in SUBSET X
  BY <1>1
<1>3. ASSUME NEW S \in SUBSET X PROVE h[S] = Body(h, S)
  <2>1. CASE Next1(S) = S
    <3>1. Step[S] \subseteq S
      BY <2>1
    <3>2. h[S] = S
      BY <3>1
    <3> QED BY <2>1, <3>2
  <2>2. CASE Next1(S) # S
    <3>1. \A K \in SUBSET X : Step[K] \subseteq K => (S \subseteq K <=> Next1(S) \subseteq K)
      BY DEF Monotone
    <3>2. h[S] = h[Next1(S)]
      BY <1>2, <3>1
    <3> QED BY <2>2, <3>2
  <2> QED BY <2>1, <2>2
<1>4. h = [S \in SUBSET X |-> Body(h, S)]
  BY <1>3
<1> HIDE DEF h
<1>5. up = [S \in SUBSET X |-> Body(up, S)]
  BY <1>4
<1>6. Least(Step, S0) = up[S0]
  BY <1>1 DEF Least
<1> HIDE DEF up
<1>7. \A S \in SUBSET X : up[S] = Body(up, S)
  BY <1>5
<1> DEFINE Bad == {S \in SUBSET X : ~Good(S)}
           Sizes == {n \in Nat : \E S \in Bad : n = Cardinality(X \ S)}
<1>8. SUFFICES ASSUME Bad # {} PROVE FALSE
  BY <1>6
<1>9. \A S \in SUBSET X : IsFiniteSet(X \ S) /\ Cardinality(X \ S) \in Nat
  BY FS_Subset, FS_CardinalityType
<1>10. Sizes # {}
  BY <1>8, <1>9
<1>11. PICK m \in Sizes : \A k \in Sizes : m <= k
  <2> HIDE DEF Sizes
  <2>1. Sizes \subseteq Nat
    BY DEF Sizes
  <2> QED BY <1>10, <2>1, NatLeast
<1>12. PICK S \in Bad : m = Cardinality(X \ S)
  BY <1>11
<1>13. CASE Next1(S) = S
  <2>1. up[S] = S /\ Step[S] \subseteq S
    BY <1>7, <1>13
  <2> QED BY <1>12, <2>1
<1>14. CASE Next1(S) # S
  <2> DEFINE R == Next1(S)
  <2>1. up[S] = up[R] /\ R \in SUBSET X
    BY <1>2, <1>7, <1>14
  <2>2. PICK x \in R : x \notin S
    BY <1>14
  <2>3. X \ R \subseteq (X \ S) \ {x} /\ x \in X \ S
    BY <2>1, <2>2
  <2>4. Cardinality((X \ S) \ {x}) = m - 1 /\ IsFiniteSet((X \ S) \ {x})
    <3> HIDE DEF R, Bad, Sizes
    <3>1. IsFiniteSet(X \ S) /\ x \in X \ S
      <4>1. S \in SUBSET X
        BY DEF Bad
      <4> QED BY <1>9, <2>3, <4>1
    <3>2. Cardinality((X \ S) \ {x}) = Cardinality(X \ S) - 1 /\ IsFiniteSet((X \ S) \ {x})
      BY <3>1, FS_RemoveElement, Zenon
    <3> QED BY <1>12, <3>2
  <2>5. Cardinality(X \ R) < m
    <3> HIDE DEF R
    <3>1. X \ R \in SUBSET ((X \ S) \ {x})
      BY <2>3
    <3>2. Cardinality(X \ R) <= m - 1
      BY <2>4, <3>1, FS_Subset
    <3>3. m \in Nat /\ Cardinality(X \ R) \in Nat
      BY <1>9, <2>1
    <3> QED BY <3>2, <3>3
  <2>6. R \notin Bad
    <3> HIDE DEF R, Bad
    <3>1. m \in Nat /\ Cardinality(X \ R) \in Nat
      BY <1>9, <2>1
    <3>2. R \in Bad => Cardinality(X \ R) \in Sizes
      BY <3>1
    <3> HIDE DEF Sizes
    <3> QED BY <1>11, <2>5, <3>1, <3>2
  <2>7. Good(R)
    BY <2>1, <2>6
  <2>8. Good(S)
    <3>1. S \subseteq R
      OBVIOUS
    <3>2. \A K \in SUBSET X : S \subseteq K /\ Step[K] \subseteq K => R \subseteq K
      BY DEF Monotone
    <3> HIDE DEF R
    <3> QED BY <2>1, <2>7, <3>1, <3>2
  <2> QED BY <1>12, <2>8
<1> QED BY <1>13, <1>14

-----------------------------------------------------------------------------
(* What cells stand for *)

(* The arguments of a term are earlier cells, as many as it is declared with. *)
Tidy(terms, st) ==
  /\ st \in Seq(Cell)
  /\ \A a \in DOMAIN st : st[a].tag = "term" =>
       /\ Len(st[a].args) = Len(terms[st[a].id].args)
       /\ DOMAIN st[a].args = 1..Len(st[a].args)
       /\ \A i \in DOMAIN st[a].args : st[a].args[i] \in 1..(a - 1)

LEMMA StoreIsTidy ==
  ASSUME NEW st, NEW f, NEW ns, NEW nt, StoreGood(st, f, ns, nt)
  PROVE  Tidy(f.terms, st)
<1> SUFFICES ASSUME NEW a \in DOMAIN st, st[a].tag = "term"
             PROVE  /\ Len(st[a].args) = Len(f.terms[st[a].id].args)
                    /\ DOMAIN st[a].args = 1..Len(st[a].args)
                    /\ \A i \in DOMAIN st[a].args : st[a].args[i] \in 1..(a - 1)
  BY DEF Tidy, StoreGood
<1>1. st \in Seq(Cell) /\ st[a] \in Cell /\ CellIn(st, a, st[a], f, ns, nt)
  BY DEF StoreGood
<1>2. st[a].args \in Seq(Nat)
  BY <1>1 DEF Cell
<1>3. /\ Len(st[a].args) = Len(f.terms[st[a].id].args)
      /\ \A i \in 1..Len(st[a].args) : st[a].args[i] < a /\ st[a].args[i] \in DOMAIN st
  BY <1>1 DEF CellIn, ExprIn
<1>4. DOMAIN st = 1..Len(st) /\ Len(st) \in Nat
  BY <1>1
<1>5. DOMAIN st[a].args = 1..Len(st[a].args)
  BY <1>2
<1>6. ASSUME NEW i \in DOMAIN st[a].args PROVE st[a].args[i] \in 1..(a - 1)
  <2>1. st[a].args[i] < a /\ st[a].args[i] \in 1..Len(st) /\ a \in 1..Len(st)
    BY <1>3, <1>4, <1>5
  <2> QED BY <1>4, <2>1
<1> QED BY <1>3, <1>5, <1>6

(* A cell's meaning depends on that of its arguments only. *)
LEMMA MeansLocal ==
  ASSUME NEW terms, NEW st, Tidy(terms, st), NEW a \in DOMAIN st, NEW m1, NEW m2,
         \A b \in 1..(a - 1) : m1[b] = m2[b]
  PROVE  Means(terms, st[a], a, m1) = Means(terms, st[a], a, m2)
<1> DEFINE c == st[a]
           A == terms[c.id].args
           FVs(m, K) == UNION {m[c.args[k]].FV : k \in K}
<1>1. CASE c.tag = "term"
  <2>1. DOMAIN c.args = 1..Len(A) /\ \A i \in 1..Len(A) : m1[c.args[i]] = m2[c.args[i]]
    BY <1>1 DEF Tidy
  <2> HIDE DEF c, A
  <2>2. [i \in DOMAIN c.args |-> m1[c.args[i]].tree] = [i \in DOMAIN c.args |-> m2[c.args[i]].tree]
    BY <2>1
  <2>3. UNION {m1[c.args[i]].V : i \in DOMAIN c.args} = UNION {m2[c.args[i]].V : i \in DOMAIN c.args}
    BY <2>1
  <2>4. ASSUME NEW K, K \subseteq 1..Len(A) PROVE FVs(m1, K) = FVs(m2, K)
    BY <2>1, <2>4
  <2>5. \A D : BoundIn(A, D) \subseteq 1..Len(A)
    BY DEF BoundIn
  <2>6. \A D : FVs(m1, BoundIn(A, D)) = FVs(m2, BoundIn(A, D))
    BY <2>4, <2>5
  <2> HIDE DEF FVs
  <2>7. UNION {m1[c.args[i]].FV \ FVs(m1, BoundIn(A, A[i].deps)) : i \in {i \in 1..Len(A) : ~A[i].bound}}
        = UNION {m2[c.args[i]].FV \ FVs(m2, BoundIn(A, A[i].deps)) : i \in {i \in 1..Len(A) : ~A[i].bound}}
    BY <2>1, <2>6
  <2> QED BY <1>1, <2>2, <2>3, <2>6, <2>7 DEF Means, c, A, FVs
<1>2. CASE c.tag # "term"
  BY <1>2 DEF Means
<1> QED BY <1>1, <1>2

(* The recursion over cells ends: it defines a function. *)
LEMMA MeaningsAre ==
  ASSUME NEW terms, NEW st, Tidy(terms, st)
  PROVE  \A a \in DOMAIN st : Meanings(terms, st)[a] = Means(terms, st[a], a, Meanings(terms, st))
<1> DEFINE N == Len(st)
           Upto(n) == \E g : g = [a \in 1..n |-> Means(terms, st[a], a, g)]
           S == {n \in Nat : n <= N => Upto(n)}
<1>1. N \in Nat /\ DOMAIN st = 1..N
  BY DEF Tidy
<1>2. 0 \in S
  <2>1. [a \in 1..0 |-> 0] = [a \in 1..0 |-> Means(terms, st[a], a, [b \in 1..0 |-> 0])]
    OBVIOUS
  <2>2. Upto(0)
    BY <2>1
  <2> QED BY <2>2
<1>3. ASSUME NEW n \in Nat, n \in S PROVE n + 1 \in S
  <2>1. SUFFICES ASSUME n + 1 <= N PROVE Upto(n + 1)
    OBVIOUS
  <2>2. PICK g : g = [a \in 1..n |-> Means(terms, st[a], a, g)]
    BY <1>1, <1>3, <2>1
  <2> DEFINE h == [a \in 1..(n + 1) |-> IF a <= n THEN g[a] ELSE Means(terms, st[a], a, g)]
  <2>3. \A a \in 1..(n + 1) : \A b \in 1..(a - 1) : h[b] = g[b]
    OBVIOUS
  <2>4. \A a \in 1..(n + 1) : Means(terms, st[a], a, h) = Means(terms, st[a], a, g)
    <3> SUFFICES ASSUME NEW a \in 1..(n + 1) PROVE Means(terms, st[a], a, h) = Means(terms, st[a], a, g)
      OBVIOUS
    <3>1. a \in DOMAIN st /\ \A b \in 1..(a - 1) : h[b] = g[b]
      BY <1>1, <2>1, <2>3
    <3> HIDE DEF h
    <3> QED BY <3>1, MeansLocal
  <2>5. \A a \in 1..n : g[a] = Means(terms, st[a], a, g)
    BY <2>2
  <2>6. \A a \in 1..(n + 1) : h[a] = Means(terms, st[a], a, h)
    <3> SUFFICES ASSUME NEW a \in 1..(n + 1) PROVE h[a] = Means(terms, st[a], a, g)
      BY <2>4
    <3>1. CASE a \in 1..n
      BY <2>5, <3>1
    <3>2. CASE a = n + 1
      BY <3>2
    <3> QED BY <3>1, <3>2
  <2>7. h = [a \in 1..(n + 1) |-> Means(terms, st[a], a, h)]
    BY <2>6
  <2> HIDE DEF h
  <2> QED BY <2>7
<1>4. N \in S
  BY <1>1, <1>2, <1>3, NatAll
<1>5. Meanings(terms, st) = [a \in 1..N |-> Means(terms, st[a], a, Meanings(terms, st))]
  <2>1. Upto(N)
    BY <1>1, <1>4
  <2>2. \E g : g = [a \in DOMAIN st |-> Means(terms, st[a], a, g)]
    BY <1>1, <2>1
  <2>3. Meanings(terms, st) = [a \in DOMAIN st |-> Means(terms, st[a], a, Meanings(terms, st))]
    BY <2>2, Zenon DEF Meanings
  <2> QED BY <1>1, <2>3
<1>6. ASSUME NEW a \in 1..N PROVE Meanings(terms, st)[a] = Means(terms, st[a], a, Meanings(terms, st))
  BY <1>5, <1>6
<1> QED BY <1>1, <1>6

(* As the store grows its cells keep their meaning. *)
LEMMA MeaningsGrow ==
  ASSUME NEW terms, NEW st, Tidy(terms, st), NEW more, Tidy(terms, more), Extends(st, more)
  PROVE  \A a \in DOMAIN st : Meanings(terms, more)[a] = Meanings(terms, st)[a]
<1> DEFINE m == Meanings(terms, st)
           w == Meanings(terms, more)
           Bad == {a \in DOMAIN st : w[a] # m[a]}
<1>1. DOMAIN st \subseteq Nat /\ \A a \in DOMAIN st : 1..(a - 1) \subseteq DOMAIN st
  BY DEF Tidy
<1>2. SUFFICES ASSUME Bad # {} PROVE FALSE
  OBVIOUS
<1>3. PICK a \in Bad : \A b \in Bad : a <= b
  <2>1. Bad \subseteq Nat
    BY <1>1
  <2> HIDE DEF Bad
  <2> QED BY <1>2, <2>1, NatLeast
<1>4. \A b \in 1..(a - 1) : w[b] = m[b]
  <2>1. a \in Nat
    BY <1>1
  <2> QED BY <1>1, <1>3, <2>1
<1>5. a \in DOMAIN st /\ a \in DOMAIN more /\ more[a] = st[a]
  BY DEF Extends
<1>6. w[a] = Means(terms, st[a], a, w) /\ m[a] = Means(terms, st[a], a, m)
  BY <1>5, MeaningsAre
<1> HIDE DEF m, w
<1>7. Means(terms, st[a], a, w) = Means(terms, st[a], a, m)
  BY <1>4, <1>5, MeansLocal
<1> QED BY <1>6, <1>7

(* The meaning of the cell that is allocated next. *)
LEMMA MeaningNext ==
  ASSUME NEW terms, NEW st, Tidy(terms, st), NEW x, Tidy(terms, Append(st, x)), x \in Cell
  PROVE  /\ Meanings(terms, Append(st, x))[Len(st) + 1]
              = Means(terms, x, Len(st) + 1, Meanings(terms, st))
         /\ \A a \in DOMAIN st : Meanings(terms, Append(st, x))[a] = Meanings(terms, st)[a]
<1> DEFINE more == Append(st, x)
           m == Meanings(terms, st)
           w == Meanings(terms, more)
<1>1. st \in Seq(Cell)
  BY DEF Tidy
<1>2. /\ Len(st) \in Nat /\ DOMAIN st = 1..Len(st) /\ DOMAIN more = 1..(Len(st) + 1)
      /\ more[Len(st) + 1] = x /\ Extends(st, more) /\ Tidy(terms, more)
  BY <1>1, AppendFacts, AppendExtends
<1> HIDE DEF more
<1>3. \A a \in DOMAIN st : w[a] = m[a]
  BY <1>2, MeaningsGrow DEF more
<1>4. Len(st) + 1 \in DOMAIN more
  BY <1>2
<1>5. w[Len(st) + 1] = Means(terms, more[Len(st) + 1], Len(st) + 1, w)
  BY <1>4, MeaningsAre DEF more
<1> HIDE DEF m, w
<1>6. \A b \in 1..((Len(st) + 1) - 1) : w[b] = m[b]
  BY <1>2, <1>3
<1>7. Means(terms, more[Len(st) + 1], Len(st) + 1, w) = Means(terms, more[Len(st) + 1], Len(st) + 1, m)
  BY <1>2, <1>4, <1>6, MeansLocal
<1> QED BY <1>2, <1>3, <1>5, <1>7 DEF m, w, more

-----------------------------------------------------------------------------
(* The dependencies cached with the cells *)

BoundVar(x) == x.tag = "var" /\ x.type.bound

(* Each bound variable has one of the n dependency bits given out, to itself. *)
Numbered(st, n) ==
  \A a \in DOMAIN st : BoundVar(st[a]) =>
    \E b \in 0..(n - 1) :
      /\ st[a].type.deps = {b}
      /\ \A c \in DOMAIN st \ {a} : BoundVar(st[c]) => b \notin st[c].type.deps

OnlyVarsBound(st) == \A a \in DOMAIN st : st[a].tag = "term" => ~st[a].type.bound

(* They cover the free variables and are variables of the expression, or   *)
(* are the free variables.                                                 *)
Covers(terms, st) ==
  \A a \in DOMAIN st : ExprIn(st, a) =>
    /\ Meanings(terms, st)[a].FV \subseteq st[a].type.deps
    /\ st[a].type.deps \subseteq Meanings(terms, st)[a].V

Exact(terms, st) ==
  \A a \in DOMAIN st : ExprIn(st, a) => st[a].type.deps = Meanings(terms, st)[a].FV

(* A regular binder depends on bound ones before it. *)
BindsBefore(A) ==
  \A i \in 1..Len(A) : ~A[i].bound => \A b \in A[i].deps : b \in Nat /\ b < BitOf(A, i)

(* The inductive invariant.  The first part fails for one variable more    *)
(* than the dependencies have bits, which ProofDummy lets through.         *)
DepsInv ==
  /\ OnlyVarsBound(store)
  /\ nbv <= DepsBits => Numbered(store, nbv)
  /\ ResultsAreClosed => Covers(file.terms, store)
  /\ \A t \in 1..nterms : BindsBefore(file.terms[t].args)
  /\ (pc \in {"proof", "unify"} /\ stmt.kind = "def") =>
       BindsBefore(TermNow.args) /\ Exact(file.terms, store)

(* A variable's dependencies are what it means. *)
LEMMA VarMeans ==
  ASSUME NEW terms, NEW st, Tidy(terms, st), NEW a \in DOMAIN st, st[a].tag = "var"
  PROVE  Meanings(terms, st)[a] = [tree |-> VarTree(a), V |-> st[a].type.deps, FV |-> st[a].type.deps]
<1>1. Meanings(terms, st)[a] = Means(terms, st[a], a, Meanings(terms, st))
  BY MeaningsAre
<1> QED BY <1>1 DEF Means

(* What the arguments that a regular one depends on contribute: those the  *)
(* kernel looks at are some of those the logic does, and all of them when  *)
(* binders depend on earlier ones.                                         *)
LEMMA BoundArgs ==
  ASSUME NEW A \in Seq(Type), NEW i \in 1..(Len(A) + 1), NEW D
  PROVE  /\ {k \in BoundBefore(A, i) : BitOf(A, k) \in D} \subseteq BoundIn(A, D)
         /\ (\A b \in D : b \in Nat /\ b < BitOf(A, i)) =>
              {k \in BoundBefore(A, i) : BitOf(A, k) \in D} = BoundIn(A, D)
         /\ i = Len(A) + 1 => {k \in BoundBefore(A, i) : BitOf(A, k) \in D} = BoundIn(A, D)
<1>1. Len(A) \in Nat
  OBVIOUS
<1>2. {k \in BoundBefore(A, i) : BitOf(A, k) \in D} \subseteq BoundIn(A, D)
  BY <1>1 DEF BoundBefore, BoundIn
<1>3. ASSUME \A b \in D : b \in Nat /\ b < BitOf(A, i), NEW k \in BoundIn(A, D)
      PROVE  k \in BoundBefore(A, i)
  <2>1. k \in 1..Len(A) /\ A[k].bound /\ BitOf(A, k) \in D
    BY DEF BoundIn
  <2>2. BitOf(A, k) < BitOf(A, i) /\ BitOf(A, k) \in Nat /\ BitOf(A, i) \in Nat
    BY <1>3, <2>1, BoundBeforeFinite
  <2>3. ~(i < k)
    <3>1. SUFFICES ASSUME i < k PROVE FALSE
      OBVIOUS
    <3>2. BoundBefore(A, i) \subseteq BoundBefore(A, k)
      BY <1>1, <2>1, <3>1 DEF BoundBefore
    <3>3. IsFiniteSet(BoundBefore(A, k)) /\ IsFiniteSet(BoundBefore(A, i))
      BY <2>1, BoundBeforeFinite
    <3>4. BitOf(A, i) <= BitOf(A, k)
      BY <3>2, <3>3, FS_Subset DEF BitOf
    <3> QED BY <2>2, <3>4
  <2>4. i # k
    BY <2>2
  <2> QED BY <1>1, <2>1, <2>3, <2>4 DEF BoundBefore
<1>4. i = Len(A) + 1 => BoundIn(A, D) \subseteq {k \in BoundBefore(A, i) : BitOf(A, k) \in D}
  BY <1>1 DEF BoundBefore, BoundIn
<1>5. (\A b \in D : b \in Nat /\ b < BitOf(A, i)) =>
         BoundIn(A, D) \subseteq {k \in BoundBefore(A, i) : BitOf(A, k) \in D}
  BY <1>3 DEF BoundIn
<1> QED BY <1>2, <1>4, <1>5

(* What a new term caches. *)
NewDeps(st, mode, A, D, es) ==
  LET Bound(i, E) == UNION {st[es[k]].type.deps : k \in {k \in BoundBefore(A, i) : BitOf(A, k) \in E}}
      Free(i) == st[es[i]].type.deps \ (IF mode = "Def" THEN Bound(i, A[i].deps) ELSE {})
  IN  (UNION {Free(i) : i \in {i \in 1..Len(A) : ~A[i].bound}})
        \cup (IF mode = "Def" THEN Bound(Len(A) + 1, D) ELSE {})

LEMMA NewDepsAre ==
  ASSUME NEW t, NEW es
  PROVE  TermDeps(t, es) = NewDeps(store, Mode, file.terms[t].args, file.terms[t].ret.deps, es)
  BY DEF TermDeps, NewDeps, BoundDeps, FreeDeps, Deps

(* The cell that Term allocates in the mode of the proof. *)
NewTerm(terms, st, mode, c) ==
  LET A == terms[c.id].args IN
  /\ c.tag = "term"
  /\ A \in Seq(Type)
  /\ DOMAIN c.args = 1..Len(A)
  /\ \A i \in 1..Len(A) : ExprIn(st, c.args[i])
  /\ FitIn(st, A, c.args)
  /\ c.type.deps = NewDeps(st, mode, A, terms[c.id].ret.deps, c.args)

(* In a store whose cells are covered it is covered; in one whose cells are *)
(* exact, while a definition is checked, it is exact.                      *)
LEMMA TermTracked ==
  ASSUME NEW terms, NEW st, Tidy(terms, st), OnlyVarsBound(st), NEW mode, NEW c,
         NewTerm(terms, st, mode, c),
         NEW a, NEW mean, mean = Means(terms, c, a, Meanings(terms, st))
  PROVE  /\ (Covers(terms, st) /\ terms[c.id].ret.deps = {})
               => mean.FV \subseteq c.type.deps /\ c.type.deps \subseteq mean.V
         /\ (Exact(terms, st) /\ mode = "Def" /\ BindsBefore(terms[c.id].args))
               => c.type.deps = mean.FV
<1> DEFINE es == c.args
           A == terms[c.id].args
           m == Meanings(terms, st)
           R == {i \in 1..Len(A) : ~A[i].bound}
           D == terms[c.id].ret.deps
           dep(i) == st[es[i]].type.deps
           Bound(i, E) == UNION {dep(k) : k \in {k \in BoundBefore(A, i) : BitOf(A, k) \in E}}
           Free(i) == dep(i) \ (IF mode = "Def" THEN Bound(i, A[i].deps) ELSE {})
           FVs(K) == UNION {m[es[k]].FV : k \in K}
           Rest(i) == m[es[i]].FV \ FVs(BoundIn(A, A[i].deps))
<1>0. /\ A \in Seq(Type) /\ DOMAIN es = 1..Len(A) /\ \A i \in 1..Len(A) : ExprIn(st, es[i])
      /\ FitIn(st, A, es) /\ c.tag = "term" /\ c.type.deps = NewDeps(st, mode, A, D, es)
  BY DEF NewTerm
<1>1. /\ mean.FV = (UNION {Rest(i) : i \in R}) \cup FVs(BoundIn(A, D))
      /\ mean.V = UNION {m[es[i]].V : i \in 1..Len(A)}
  BY <1>0 DEF Means
<1>2. c.type.deps = (UNION {Free(i) : i \in R}) \cup (IF mode = "Def" THEN Bound(Len(A) + 1, D) ELSE {})
  BY <1>0 DEF NewDeps
<1> HIDE DEF A, es
<1>3. ASSUME NEW k \in 1..Len(A), A[k].bound PROVE m[es[k]].FV = dep(k)
  <2>1. ExprIn(st, es[k]) /\ st[es[k]].type.bound
    BY <1>0, <1>3 DEF FitIn, SortsCompatible
  <2>2. es[k] \in DOMAIN st /\ st[es[k]].tag = "var"
    BY <2>1 DEF ExprIn, OnlyVarsBound
  <2>3. Meanings(terms, st)[es[k]] = [tree |-> VarTree(es[k]), V |-> dep(k), FV |-> dep(k)]
    BY <2>2, VarMeans
  <2> QED BY <2>3
<1> HIDE DEF m
<1>4. \A E : \A k \in BoundIn(A, E) : m[es[k]].FV = dep(k) /\ k \in 1..Len(A)
  BY <1>3 DEF BoundIn
<1>5. Len(A) \in Nat /\ Len(A) + 1 \in 1..(Len(A) + 1) /\ \A i \in 1..Len(A) : i \in 1..(Len(A) + 1)
  BY <1>0
<1>6. \A i \in R : i \in 1..Len(A) /\ es[i] \in DOMAIN st /\ ExprIn(st, es[i])
  BY <1>0 DEF ExprIn
<1>7. Bound(Len(A) + 1, D) = FVs(BoundIn(A, D))
  <2>1. {k \in BoundBefore(A, Len(A) + 1) : BitOf(A, k) \in D} = BoundIn(A, D)
    BY <1>0, <1>5, BoundArgs
  <2> HIDE DEF D
  <2> QED BY <1>4, <2>1
<1>8. ASSUME NEW i \in R PROVE Bound(i, A[i].deps) \subseteq FVs(BoundIn(A, A[i].deps))
  <2>1. {k \in BoundBefore(A, i) : BitOf(A, k) \in A[i].deps} \subseteq BoundIn(A, A[i].deps)
    BY <1>0, <1>5, <1>6, BoundArgs
  <2> QED BY <1>4, <2>1
<1>9. ASSUME BindsBefore(A), NEW i \in R PROVE Bound(i, A[i].deps) = FVs(BoundIn(A, A[i].deps))
  <2>1. \A b \in A[i].deps : b \in Nat /\ b < BitOf(A, i)
    BY <1>9 DEF BindsBefore
  <2>2. {k \in BoundBefore(A, i) : BitOf(A, k) \in A[i].deps} = BoundIn(A, A[i].deps)
    BY <1>0, <1>5, <1>6, <2>1, BoundArgs
  <2> QED BY <1>4, <2>2
<1> HIDE DEF Bound, FVs
<1>10. ASSUME Covers(terms, st), D = {}
       PROVE  mean.FV \subseteq c.type.deps /\ c.type.deps \subseteq mean.V
  <2>1. \A i \in R : m[es[i]].FV \subseteq dep(i) /\ dep(i) \subseteq m[es[i]].V
    BY <1>6, <1>10 DEF Covers, m
  <2>2. FVs(BoundIn(A, D)) = {} /\ Bound(Len(A) + 1, D) = {}
    BY <1>7, <1>10 DEF BoundIn, FVs
  <2>3. \A i \in R : Rest(i) \subseteq Free(i) /\ Free(i) \subseteq m[es[i]].V
    BY <1>8, <2>1
  <2> HIDE DEF Rest, Free, R
  <2>4. mean.FV = UNION {Rest(i) : i \in R} /\ c.type.deps = UNION {Free(i) : i \in R}
    BY <1>1, <1>2, <2>2
  <2>5. mean.FV \subseteq c.type.deps
    BY <2>3, <2>4
  <2>6. \A i \in R : m[es[i]].V \subseteq mean.V
    BY <1>1, <1>6
  <2> QED BY <2>3, <2>4, <2>5, <2>6
<1>11. ASSUME Exact(terms, st), mode = "Def", BindsBefore(A) PROVE c.type.deps = mean.FV
  <2>1. \A i \in R : Free(i) = Rest(i)
    BY <1>6, <1>9, <1>11 DEF Exact, m
  <2> HIDE DEF Rest, Free, R
  <2> QED BY <1>1, <1>2, <1>7, <1>11, <2>1
<1> QED BY <1>10, <1>11 DEF A

(* The binders of a statement, as load_args stores them. *)
LEMMA BindersTracked ==
  ASSUME NEW A \in Seq(Type), NEW n \in 0..Len(A), LoadArgs(A, n), NEW terms
  PROVE  /\ OnlyVarsBound(store') /\ Numbered(store', nbv') /\ BindsBefore(A)
         /\ Covers(terms, store') /\ Exact(terms, store')
<1> DEFINE st == [i \in 1..Len(A) |-> [tag |-> "var", type |-> A[i]]]
<1>1. BindersOK(A) /\ store' = st /\ nbv' = NumBound(A)
  BY DEF LoadArgs
<1>2. Len(A) \in Nat /\ \A i \in 1..Len(A) : A[i] \in Type
  OBVIOUS
<1>3. \A i \in 1..Len(A) : st[i] \in Cell /\ st[i].tag = "var" /\ st[i].type = A[i]
  BY <1>2 DEF Cell
<1>4. st \in [1..Len(A) -> Cell]
  BY <1>3
<1> HIDE DEF st
<1>5. st \in Seq(Cell) /\ DOMAIN st = 1..Len(A)
  BY <1>2, <1>4, SeqDef
<1>6. Tidy(terms, st)
  BY <1>3, <1>5 DEF Tidy
<1>7. \A a \in DOMAIN st :
        Meanings(terms, st)[a] = [tree |-> VarTree(a), V |-> st[a].type.deps, FV |-> st[a].type.deps]
  BY <1>3, <1>5, <1>6, VarMeans
<1>8. Covers(terms, st) /\ Exact(terms, st)
  <2> DEFINE m == Meanings(terms, st)
  <2>1. ASSUME NEW a \in DOMAIN st PROVE m[a].V = st[a].type.deps /\ m[a].FV = st[a].type.deps
    <3>1. Meanings(terms, st)[a] = [tree |-> VarTree(a), V |-> st[a].type.deps, FV |-> st[a].type.deps]
      BY <1>7
    <3> QED BY <3>1
  <2> HIDE DEF m
  <2>2. \A a \in DOMAIN st : /\ m[a].FV \subseteq st[a].type.deps /\ st[a].type.deps \subseteq m[a].V
                             /\ st[a].type.deps = m[a].FV
    BY <2>1
  <2> QED BY <2>2 DEF Covers, Exact, m
<1>9. OnlyVarsBound(st)
  BY <1>3, <1>5 DEF OnlyVarsBound
<1>10. BindsBefore(A)
  BY <1>1, <1>2 DEF BindersOK, BindsBefore, Type
<1>11. Numbered(st, NumBound(A))
  <2>1. \A i \in 1..Len(A) : BoundVar(st[i]) <=> A[i].bound
    BY <1>3 DEF BoundVar
  <2>2. \A i \in 1..Len(A) : A[i].bound => A[i].deps = {BitOf(A, i)}
    BY <1>1 DEF BindersOK
  <2>3. \A i \in 1..(Len(A) + 1) : BitOf(A, i) \in Nat
    BY BoundBeforeFinite
  <2>4. ASSUME NEW i \in 1..Len(A), A[i].bound
        PROVE  BitOf(A, i) \in 0..(NumBound(A) - 1)
    <3>1. BitOf(A, i) < NumBound(A)
      BY <1>2, <2>4, BitsDistinct DEF NumBound
    <3>2. NumBound(A) \in Nat /\ BitOf(A, i) \in Nat
      BY <1>2, <2>3 DEF NumBound
    <3> QED BY <3>1, <3>2
  <2>5. ASSUME NEW i \in 1..Len(A), NEW j \in 1..Len(A) \ {i}, A[i].bound, A[j].bound
        PROVE  BitOf(A, i) # BitOf(A, j)
    <3>1. i < j \/ j < i
      OBVIOUS
    <3>2. BitOf(A, i) < BitOf(A, j) \/ BitOf(A, j) < BitOf(A, i)
      BY <2>5, <3>1, BitsDistinct
    <3>3. BitOf(A, i) \in Nat /\ BitOf(A, j) \in Nat
      BY <1>2, <2>3
    <3> QED BY <3>2, <3>3
  <2> SUFFICES ASSUME NEW i \in 1..Len(A), A[i].bound
               PROVE  \E b \in 0..(NumBound(A) - 1) :
                        /\ st[i].type.deps = {b}
                        /\ \A c \in DOMAIN st \ {i} : BoundVar(st[c]) => b \notin st[c].type.deps
    BY <1>5, <2>1 DEF Numbered
  <2>6. st[i].type.deps = {BitOf(A, i)}
    BY <1>3, <2>2
  <2>7. \A c \in DOMAIN st \ {i} : BoundVar(st[c]) => BitOf(A, i) \notin st[c].type.deps
    BY <1>3, <1>5, <2>1, <2>2, <2>5
  <2> QED BY <2>4, <2>6, <2>7
<1> QED BY <1>1, <1>8, <1>9, <1>10, <1>11

(* One cell more. *)
LEMMA CellTracked ==
  ASSUME NEW terms, NEW st, Tidy(terms, st), NEW x \in Cell, Tidy(terms, Append(st, x)),
         NEW mean, mean = Means(terms, x, Len(st) + 1, Meanings(terms, st))
  PROVE  /\ (OnlyVarsBound(st) /\ (x.tag = "term" => ~x.type.bound)) => OnlyVarsBound(Append(st, x))
         /\ (Covers(terms, st) /\
               (x.tag \in {"var", "term"} => mean.FV \subseteq x.type.deps /\ x.type.deps \subseteq mean.V))
              => Covers(terms, Append(st, x))
         /\ (Exact(terms, st) /\ (x.tag \in {"var", "term"} => x.type.deps = mean.FV))
              => Exact(terms, Append(st, x))
         /\ \A n \in Nat : (Numbered(st, n) /\ ~BoundVar(x)) => Numbered(Append(st, x), n)
         /\ \A n \in Nat : (Numbered(st, n) /\ BoundVar(x) /\ x.type.deps = {n})
              => Numbered(Append(st, x), n + 1)
<1> DEFINE more == Append(st, x)
           new == Len(st) + 1
<1>1. st \in Seq(Cell)
  BY DEF Tidy
<1>2. /\ Len(st) \in Nat /\ DOMAIN st = 1..Len(st) /\ DOMAIN more = 1..(Len(st) + 1)
      /\ more[new] = x /\ \A a \in DOMAIN st : more[a] = st[a]
  BY <1>1, AppendFacts
<1>3. /\ Meanings(terms, more)[new] = mean
      /\ \A a \in DOMAIN st : Meanings(terms, more)[a] = Meanings(terms, st)[a]
  BY MeaningNext
<1> HIDE DEF more
<1>4. DOMAIN more = DOMAIN st \cup {new} /\ new \notin DOMAIN st
  BY <1>2
<1> HIDE DEF new
<1>5. (OnlyVarsBound(st) /\ (x.tag = "term" => ~x.type.bound)) => OnlyVarsBound(more)
  BY <1>2, <1>4 DEF OnlyVarsBound
<1>6. (Covers(terms, st) /\
         (x.tag \in {"var", "term"} => mean.FV \subseteq x.type.deps /\ x.type.deps \subseteq mean.V))
        => Covers(terms, more)
  BY <1>2, <1>3, <1>4 DEF Covers, ExprIn
<1>7. (Exact(terms, st) /\ (x.tag \in {"var", "term"} => x.type.deps = mean.FV)) => Exact(terms, more)
  BY <1>2, <1>3, <1>4 DEF Exact, ExprIn
<1>8. ASSUME NEW n \in Nat, Numbered(st, n), ~BoundVar(x) PROVE Numbered(more, n)
  <2>1. \A a \in DOMAIN more : BoundVar(more[a]) => a \in DOMAIN st /\ more[a] = st[a]
    BY <1>2, <1>4, <1>8
  <2> QED BY <1>2, <1>4, <1>8, <2>1 DEF Numbered
<1>9. ASSUME NEW n \in Nat, Numbered(st, n), BoundVar(x), x.type.deps = {n}
      PROVE  Numbered(more, n + 1)
  <2>1. \A a \in DOMAIN st : BoundVar(st[a]) =>
          \E b \in 0..n : /\ b # n /\ st[a].type.deps = {b}
                          /\ \A c \in DOMAIN st \ {a} : BoundVar(st[c]) => b \notin st[c].type.deps
    BY <1>9 DEF Numbered
  <2>2. \A a \in DOMAIN st : BoundVar(st[a]) => n \notin st[a].type.deps
    BY <2>1
  <2>3. ASSUME NEW a \in DOMAIN more, BoundVar(more[a])
        PROVE  \E b \in 0..n : /\ more[a].type.deps = {b}
                               /\ \A c \in DOMAIN more \ {a} :
                                    BoundVar(more[c]) => b \notin more[c].type.deps
    <3>1. CASE a = new
      <4>1. more[a].type.deps = {n} /\ n \in 0..n
        BY <1>2, <1>9, <3>1
      <4>2. \A c \in DOMAIN more \ {a} : BoundVar(more[c]) => n \notin more[c].type.deps
        BY <1>2, <1>4, <2>2, <3>1
      <4> QED BY <4>1, <4>2
    <3>2. CASE a \in DOMAIN st
      <4>1. PICK b \in 0..n : /\ b # n /\ st[a].type.deps = {b}
                              /\ \A c \in DOMAIN st \ {a} : BoundVar(st[c]) => b \notin st[c].type.deps
        BY <1>2, <2>1, <2>3, <3>2
      <4>2. \A c \in DOMAIN more \ {a} : BoundVar(more[c]) => b \notin more[c].type.deps
        BY <1>2, <1>4, <1>9, <4>1
      <4> QED BY <1>2, <3>2, <4>1, <4>2
    <3> QED BY <1>4, <3>1, <3>2
  <2>4. (n + 1) - 1 = n
    OBVIOUS
  <2> QED BY <2>3, <2>4 DEF Numbered
<1> QED BY <1>5, <1>6, <1>7, <1>8, <1>9 DEF more

(* The binders of a term, without the type of its result. *)
LEMMA BindsWithoutResult ==
  ASSUME NEW A \in Seq(Type), NEW r \in Type, BindsBefore(Append(A, r))
  PROVE  BindsBefore(A)
<1> DEFINE B == Append(A, r)
<1>1. Len(A) \in Nat /\ Len(B) = Len(A) + 1 /\ \A i \in 1..Len(A) : B[i] = A[i]
  BY AppendFacts
<1> HIDE DEF B
<1>2. \A i \in 1..Len(A) : BoundBefore(A, i) = BoundBefore(B, i)
  BY <1>1 DEF BoundBefore
<1>3. \A i \in 1..Len(A) : BitOf(A, i) = BitOf(B, i)
  BY <1>2 DEF BitOf
<1> QED BY <1>1, <1>3 DEF BindsBefore, B

(* Commands that leave the store alone. *)
LEMMA DepsUntouched ==
  ASSUME DepsInv, UNCHANGED <<file, nterms, nbv, store, stmt>>,
         pc' \in {"proof", "unify"} => pc \in {"proof", "unify"}
  PROVE  DepsInv'
  BY DEF DepsInv, ResultsAreClosed, TermNow

(* A command of a proof that allocates a cell. *)
LEMMA DepsAlloc ==
  ASSUME DepsInv, StoreGood(store, file, nsorts, nterms), StoreGood(store', file, nsorts, nterms),
         UNCHANGED <<file, nterms, stmt, pc>>, NEW x \in Cell, store' = Append(store, x),
         x.tag = "term" => ~x.type.bound,
         NEW mean, mean = Means(file.terms, x, Len(store) + 1, Meanings(file.terms, store)),
         ResultsAreClosed => (x.tag \in {"var", "term"} =>
                                mean.FV \subseteq x.type.deps /\ x.type.deps \subseteq mean.V),
         (pc \in {"proof", "unify"} /\ stmt.kind = "def") =>
           (x.tag \in {"var", "term"} => x.type.deps = mean.FV),
         nbv' <= DepsBits => ((nbv <= DepsBits => Numbered(store, nbv)) => Numbered(store', nbv'))
  PROVE  DepsInv'
<1>1. Tidy(file.terms, store) /\ Tidy(file.terms, Append(store, x))
  BY StoreIsTidy
<1>2. OnlyVarsBound(store')
  BY <1>1, CellTracked DEF DepsInv
<1>3. ResultsAreClosed => Covers(file.terms, store')
  BY <1>1, CellTracked DEF DepsInv
<1>4. (pc \in {"proof", "unify"} /\ stmt.kind = "def") => Exact(file.terms, store')
  BY <1>1, CellTracked DEF DepsInv
<1> QED BY <1>2, <1>3, <1>4 DEF DepsInv, ResultsAreClosed, TermNow

LEMMA DepsDummy ==
  ASSUME IndInv, IndInv', DepsInv, NEW s \in 1..nsorts, ProofDummy(s)
  PROVE  DepsInv'
<1> DEFINE x == [tag |-> "var",
                 type |-> [bound |-> TRUE, sort |-> s, deps |-> {b \in {nbv} : b < DepsBits}]]
           mean == Means(file.terms, x, Len(store) + 1, Meanings(file.terms, store))
<1>1. /\ nbv <= DepsBits /\ nbv' = nbv + 1 /\ store' = Append(store, x)
      /\ UNCHANGED <<file, nsorts, nterms, stmt, pc>>
  BY DEF ProofDummy, Alloc, theory
<1>2. nbv \in Nat /\ DepsBits \in Nat /\ s \in Nat
  BY VerifierAssumption, Tables DEF IndInv, FlagsInv
<1>3. x \in Cell
  BY <1>2 DEF Cell, Type
<1>4. mean.FV = x.type.deps /\ mean.V = x.type.deps
  BY DEF Means
<1>5. StoreGood(store, file, nsorts, nterms) /\ StoreGood(store', file, nsorts, nterms)
  BY <1>1 DEF IndInv, StoreInv
<1>6. nbv' <= DepsBits => ((nbv <= DepsBits => Numbered(store, nbv)) => Numbered(store', nbv'))
  <2>1. SUFFICES ASSUME nbv + 1 <= DepsBits, Numbered(store, nbv) PROVE Numbered(store', nbv')
    BY <1>1, <1>2
  <2>2. x.type.deps = {nbv} /\ BoundVar(x)
    BY <1>2, <2>1 DEF BoundVar
  <2>3. Tidy(file.terms, store) /\ Tidy(file.terms, Append(store, x))
    BY <1>1, <1>5, StoreIsTidy
  <2> HIDE DEF x
  <2> QED BY <1>1, <1>2, <1>3, <2>1, <2>2, <2>3, CellTracked
<1>7. x.tag = "var"
  OBVIOUS
<1> HIDE DEF x, mean
<1> QED BY <1>1, <1>3, <1>4, <1>5, <1>6, <1>7, DepsAlloc DEF mean

LEMMA DepsTerm ==
  ASSUME IndInv, IndInv', DepsInv, NEW t \in 1..nterms, NEW save \in BOOLEAN, ProofTerm(t, save)
  PROVE  DepsInv'
<1> DEFINE A == file.terms[t].args
           es == Args(stack, Len(A))
           x == [tag |-> "term", id |-> t, args |-> es,
                 type |-> [bound |-> FALSE, sort |-> file.terms[t].sort, deps |-> TermDeps(t, es)]]
           m == Meanings(file.terms, store)
           mean == Means(file.terms, x, Len(store) + 1, m)
<1>1. /\ pc = "proof" /\ nbv' = nbv /\ store' = Append(store, x)
      /\ Tags([i \in 1..Len(A) |-> "expr"]) /\ ArgsFit(A, es)
      /\ UNCHANGED <<file, nsorts, nterms, stmt, pc>>
  BY DEF ProofTerm, Alloc, theory
<1>2. file.terms[t] \in TermEntry /\ t \in 1..Len(file.terms)
  <2>1. nterms \in Nat /\ Len(file.terms) \in Nat /\ nterms <= Len(file.terms)
    BY Tables DEF IndInv, TheoryInv
  <2>2. t \in 1..Len(file.terms)
    BY <2>1
  <2> QED BY <2>2, Tables DEF IndInv
<1>3. A \in Seq(Type) /\ Len(A) \in Nat
  BY <1>2 DEF TermEntry
<1>4. Len(A) \in 0..Len(stack)
  BY <1>1, <1>3, TagsMany DEF IndInv
<1>5. /\ es \in Seq(Nat) /\ Len(es) = Len(A)
      /\ \A i \in 1..Len(A) : ExprIn(store, es[i])
  BY <1>4, ArgsFacts DEF IndInv, StackInv
<1>6. StoreGood(store, file, nsorts, nterms) /\ StoreGood(store', file, nsorts, nterms)
  BY <1>1 DEF IndInv, StoreInv
<1>7. Len(store') = Len(store) + 1 /\ store'[Len(store) + 1] = x /\ store' \in Seq(Cell) /\ Len(store) \in Nat
  <2>1. store \in Seq(Cell) /\ store' \in Seq(Cell)
    BY <1>6 DEF StoreGood
  <2> HIDE DEF x
  <2> QED BY <1>1, <2>1
<1>8. x \in Cell
  <2>1. Len(store) + 1 \in DOMAIN store'
    BY <1>7
  <2> HIDE DEF x
  <2> QED BY <1>7, <2>1
<1>9. /\ x.tag = "term" /\ x.id = t /\ x.args = es /\ ~x.type.bound
      /\ x.type.deps = NewDeps(store, Mode, A, file.terms[t].ret.deps, es)
  BY NewDepsAre
<1>10. Tidy(file.terms, store)
  BY <1>6, StoreIsTidy
<1>11. FitIn(store, A, es) /\ DOMAIN es = 1..Len(A)
  BY <1>1, <1>5 DEF ArgsFit, FitIn
<1> HIDE DEF x
<1>12. /\ (Covers(file.terms, store) /\ file.terms[t].ret.deps = {})
               => mean.FV \subseteq x.type.deps /\ x.type.deps \subseteq mean.V
       /\ (Exact(file.terms, store) /\ Mode = "Def" /\ BindsBefore(A)) => x.type.deps = mean.FV
  <2>1. OnlyVarsBound(store) /\ mean = Means(file.terms, x, Len(store) + 1, Meanings(file.terms, store))
    BY DEF DepsInv
  <2>2. /\ file.terms[x.id].args = A /\ x.args = es /\ file.terms[x.id].ret.deps = file.terms[t].ret.deps
    BY <1>9
  <2> HIDE DEF A, es, mean, m
  <2>4. NewTerm(file.terms, store, Mode, x)
    BY <1>3, <1>5, <1>9, <1>11, <2>2 DEF NewTerm
  <2>3. /\ (Covers(file.terms, store) /\ file.terms[x.id].ret.deps = {})
               => mean.FV \subseteq x.type.deps /\ x.type.deps \subseteq mean.V
        /\ (Exact(file.terms, store) /\ Mode = "Def" /\ BindsBefore(file.terms[x.id].args))
               => x.type.deps = mean.FV
    BY <1>10, <2>1, <2>4, TermTracked
  <2> QED BY <2>2, <2>3
<1>13. BindsBefore(A)
  BY DEF DepsInv
<1> HIDE DEF A, es, mean, m
<1>14. ResultsAreClosed => mean.FV \subseteq x.type.deps /\ x.type.deps \subseteq mean.V
  <2>1. t \in DOMAIN file.terms
    BY <1>2, Tables DEF IndInv, FileOK
  <2> QED BY <1>12, <2>1 DEF DepsInv, ResultsAreClosed
<1>15. (pc \in {"proof", "unify"} /\ stmt.kind = "def") => x.type.deps = mean.FV
  BY <1>12, <1>13 DEF DepsInv, Mode
<1>16. nbv' <= DepsBits => ((nbv <= DepsBits => Numbered(store, nbv)) => Numbered(store', nbv'))
  <2>1. ~BoundVar(x) /\ nbv \in Nat
    BY <1>9 DEF BoundVar, IndInv, FlagsInv
  <2>2. Tidy(file.terms, Append(store, x))
    BY <1>1, <1>6, StoreIsTidy
  <2> QED BY <1>1, <1>8, <1>10, <2>1, <2>2, CellTracked
<1>17. mean = Means(file.terms, x, Len(store) + 1, Meanings(file.terms, store))
  BY DEF mean, m
<1> QED BY <1>1, <1>6, <1>8, <1>9, <1>14, <1>15, <1>16, <1>17, DepsAlloc

LEMMA DepsSaveConv ==
  ASSUME IndInv, IndInv', DepsInv, SaveConv, UNCHANGED <<file, nsorts, nterms, stmt, pc, nbv>>
  PROVE  DepsInv'
<1> DEFINE x == [tag |-> "conv", e1 |-> Top(1).at, e2 |-> Top(2).at]
<1>1. store' = Append(store, x)
  BY DEF SaveConv, Alloc
<1>2. StoreGood(store, file, nsorts, nterms) /\ StoreGood(store', file, nsorts, nterms)
  BY DEF IndInv, StoreInv
<1>3. x \in Cell
  <2>1. store \in Seq(Cell) /\ store' \in Seq(Cell)
    BY <1>2 DEF StoreGood
  <2> HIDE DEF x
  <2>2. Len(store) + 1 \in DOMAIN store' /\ store'[Len(store) + 1] = x
    BY <1>1, <2>1
  <2> QED BY <2>1, <2>2
<1>4. x.tag = "conv"
  OBVIOUS
<1> HIDE DEF x
<1>5. ~BoundVar(x) /\ nbv \in Nat
  BY <1>4 DEF BoundVar, IndInv, FlagsInv
<1>6. Tidy(file.terms, store) /\ Tidy(file.terms, Append(store, x))
  BY <1>1, <1>2, StoreIsTidy
<1>7. nbv' <= DepsBits => ((nbv <= DepsBits => Numbered(store, nbv)) => Numbered(store', nbv'))
  BY <1>1, <1>3, <1>5, <1>6, CellTracked
<1> QED BY <1>1, <1>2, <1>3, <1>4, <1>7, DepsAlloc

LEMMA DepsProof ==
  ASSUME IndInv, IndInv', DepsInv, ProofStep
  PROVE  DepsInv'
<1>1. /\ UNCHANGED <<file, nsorts, nterms, stmt>> /\ pc = "proof" /\ pc' \in {"proof", "unify"}
  BY ProofStepFrame DEF theory
<1>2. CASE \E s \in 1..nsorts : ProofDummy(s)
  BY <1>2, DepsDummy
<1>3. CASE \E t \in 1..nterms, save \in BOOLEAN : ProofTerm(t, save)
  BY <1>3, DepsTerm
<1>4. CASE ProofConvSave \/ ProofSave
  <2>1. UNCHANGED <<pc, nbv>> /\ (SaveConv \/ store' = store)
    BY <1>4 DEF ProofConvSave, ProofSave
  <2> QED BY <1>1, <2>1, DepsSaveConv, DepsUntouched
<1>5. CASE UNCHANGED <<nbv, store>>
  BY <1>1, <1>5, DepsUntouched
<1>6. ASSUME \/ \E i \in DOMAIN heap : ProofRef(i)
             \/ \E t \in 1..nthms, save \in BOOLEAN : ProofThm(t, save)
             \/ ProofHyp \/ ProofConv \/ ProofRefl \/ ProofSymm \/ ProofCong
             \/ ProofUnfold \/ ProofConvCut \/ ProofSorry \/ EndDef \/ EndThm
      PROVE  UNCHANGED <<nbv, store>>
  <2>1. CASE \E i \in DOMAIN heap : ProofRef(i)
    BY <2>1 DEF ProofRef
  <2>2. CASE \E t \in 1..nthms, save \in BOOLEAN : ProofThm(t, save)
    BY <2>2 DEF ProofThm
  <2>3. CASE ProofHyp \/ ProofConv \/ ProofRefl \/ ProofSymm \/ ProofCong
    BY <2>3 DEF ProofHyp, ProofConv, ProofRefl, ProofSymm, ProofCong
  <2>4. CASE ProofUnfold \/ ProofConvCut \/ ProofSorry \/ EndDef \/ EndThm
    BY <2>4 DEF ProofUnfold, ProofConvCut, ProofSorry, EndDef, EndThm, machine
  <2> QED BY <1>6, <2>1, <2>2, <2>3, <2>4
<1> QED BY <1>2, <1>3, <1>4, <1>5, <1>6 DEF ProofStep

LEMMA DepsStatement ==
  ASSUME IndInv, DepsInv, Statement
  PROVE  DepsInv'
<1>1. CASE StmtSort \/ StmtEnd
  <2>1. UNCHANGED <<file, nterms, nbv, store, stmt>> /\ pc' \notin {"proof", "unify"}
    BY <1>1 DEF StmtSort, StmtEnd, machine, theory
  <2> QED BY <2>1, DepsUntouched
<1>2. CASE \E local \in BOOLEAN : StmtTerm(local) \/ StmtDef(local)
  <2> DEFINE A == Append(TermNow.args, TermNow.ret)
  <2>1. PICK local \in BOOLEAN : StmtTerm(local) \/ StmtDef(local)
    BY <1>2
  <2>2. /\ nterms < Len(file.terms) /\ LoadArgs(A, Len(TermNow.args)) /\ pc = "stmt"
        /\ \/ nterms' = nterms + 1 /\ pc' = "stmt" /\ UNCHANGED <<file, stmt>>
           \/ UNCHANGED <<file, nterms>>
    BY <2>1 DEF StmtTerm, StmtDef, TermHeader, theory
  <2>3. TermNow \in TermEntry /\ nterms \in Nat
    <3>1. nterms \in Nat /\ Len(file.terms) \in Nat
      BY Tables DEF IndInv
    <3>2. nterms + 1 \in 1..Len(file.terms)
      BY <2>2, <3>1
    <3> QED BY <3>1, <3>2, Tables DEF IndInv, TermNow
  <2>4. TermNow.args \in Seq(Type) /\ TermNow.ret \in Type
    BY <2>3 DEF TermEntry
  <2>5. A \in Seq(Type) /\ Len(TermNow.args) \in 0..Len(A)
    BY <2>4, AppendFacts
  <2> HIDE DEF A
  <2>6. /\ OnlyVarsBound(store') /\ Numbered(store', nbv') /\ BindsBefore(A)
        /\ Covers(file.terms, store') /\ Exact(file.terms, store')
    BY <2>2, <2>5, BindersTracked
  <2>7. BindsBefore(TermNow.args)
    BY <2>4, <2>6, BindsWithoutResult DEF A
  <2>8. \A t \in 1..nterms' : BindsBefore(file.terms[t].args)
    <3>1. \A t \in 1..nterms' : t \in 1..nterms \/ t = nterms + 1
      BY <2>2, <2>3
    <3> QED BY <2>7, <3>1 DEF DepsInv, TermNow
  <2>9. file' = file /\ (pc' \in {"proof", "unify"} => nterms' = nterms)
    BY <2>2
  <2> QED BY <2>6, <2>7, <2>8, <2>9 DEF DepsInv, TermNow
<1>3. CASE \E kind \in {"axiom", "thm"}, local \in BOOLEAN : StmtThm(kind, local)
  <2>1. PICK kind \in {"axiom", "thm"}, local \in BOOLEAN : StmtThm(kind, local)
    BY <1>3
  <2>2. /\ nthms < Len(file.thms) /\ LoadArgs(ThmNow.args, Len(ThmNow.args))
        /\ stmt' = [kind |-> kind, local |-> local] /\ UNCHANGED <<file, nterms>>
    BY <2>1 DEF StmtThm, theory
  <2>3. ThmNow.args \in Seq(Type)
    <3>1. nthms \in Nat /\ Len(file.thms) \in Nat
      BY Tables DEF IndInv
    <3>2. nthms + 1 \in 1..Len(file.thms)
      BY <2>2, <3>1
    <3> QED BY <3>2, Tables DEF IndInv, ThmNow, ThmEntry
  <2>4. Len(ThmNow.args) \in 0..Len(ThmNow.args)
    BY <2>3
  <2>5. /\ OnlyVarsBound(store') /\ Numbered(store', nbv')
        /\ Covers(file.terms, store') /\ Exact(file.terms, store')
    BY <2>2, <2>3, <2>4, BindersTracked
  <2>6. stmt'.kind # "def"
    BY <2>2
  <2> QED BY <2>2, <2>5, <2>6 DEF DepsInv
<1> QED BY <1>1, <1>2, <1>3 DEF Statement

LEMMA DepsUnify ==
  ASSUME IndInv, DepsInv, UnifyStep
  PROVE  DepsInv'
<1>1. UNCHANGED stmt /\ pc = "unify" /\ (FinishDef \/ FinishThm \/ UNCHANGED theory)
  BY UnifyStepFrame
<1>2. UNCHANGED <<store, nbv>>
  <2>1. CASE UnifyRef \/ UnifyDummy \/ UnifyHypThm \/ UnifyHypEnd
    BY <2>1 DEF UnifyRef, UnifyDummy, UnifyHypThm, UnifyHypEnd, machine
  <2>2. CASE UnifyTerm("Term") \/ UnifyTerm("TermSave")
    BY <2>2 DEF UnifyTerm, machine
  <2>3. CASE FinishDef \/ FinishThm \/ ApplyThm \/ ApplyUnfold
    BY <2>3 DEF FinishDef, FinishThm, ApplyThm, ApplyUnfold, machine
  <2> QED BY <2>1, <2>2, <2>3 DEF UnifyStep
<1>3. CASE UNCHANGED <<file, nterms>>
  BY <1>1, <1>2, <1>3, DepsUntouched
<1>4. CASE FinishDef
  <2>1. pc' = "stmt" /\ nterms' = nterms + 1 /\ ucall.for = "def" /\ file' = file
    BY <1>4 DEF FinishDef, UnifyEnd
  <2>2. stmt.kind = "def" /\ nterms \in Nat
    BY <1>1, <2>1, Tables DEF IndInv, TheoryInv
  <2>3. BindsBefore(TermNow.args)
    BY <1>1, <2>2 DEF DepsInv
  <2>4. \A t \in 1..(nterms + 1) : t \in 1..nterms \/ t = nterms + 1
    BY <2>2
  <2>5. \A t \in 1..(nterms + 1) : BindsBefore(file.terms[t].args)
    BY <2>3, <2>4 DEF DepsInv, TermNow
  <2> QED BY <1>2, <2>1, <2>5 DEF DepsInv, ResultsAreClosed
<1>5. FinishThm \/ UNCHANGED theory => UNCHANGED <<file, nterms>>
  BY DEF FinishThm, theory
<1> QED BY <1>1, <1>3, <1>4, <1>5

LEMMA EmptyTracked ==
  ASSUME NEW terms
  PROVE  /\ OnlyVarsBound(<<>>) /\ Numbered(<<>>, 0) /\ Covers(terms, <<>>) /\ Exact(terms, <<>>)
  BY DEF OnlyVarsBound, Numbered, Covers, Exact

LEMMA DepsInductive ==
  /\ Init => DepsInv
  /\ IndInv /\ IndInv' /\ DepsInv /\ [Next]_vars => DepsInv'
<1>1. Init => DepsInv
  BY EmptyTracked DEF Init, DepsInv
<1>2. ASSUME IndInv, DepsInv, Reject PROVE DepsInv'
  <2>1. store' = <<>> /\ nbv' = 0 /\ UNCHANGED <<file, nterms>> /\ pc' = "rejected"
    BY <1>2 DEF Reject, theory
  <2> QED BY <1>2, <2>1, EmptyTracked DEF DepsInv
<1>3. ASSUME DepsInv, UNCHANGED vars PROVE DepsInv'
  BY <1>3, DepsUntouched DEF vars, theory, machine
<1> QED BY <1>1, <1>2, <1>3, DepsStatement, DepsProof, DepsUnify DEF Next

(* What the invariant says of a state. *)
LEMMA DepsSay ==
  ASSUME IndInv, DepsInv, nbv <= DepsBits
  PROVE  DependenciesAreTracked
<1>1. BoundVarsTracked
  BY DEF BoundVarsTracked, DepsInv, Numbered, BoundVar
<1>2. \A a \in Exprs : a \in DOMAIN store /\ ExprIn(store, a)
  BY DEF Exprs, IsExpr, ExprIn
<1>3. (pc = "proof" /\ ResultsAreClosed) =>
        \A a \in Exprs : Meaning(a).FV \subseteq Deps(a) /\ Deps(a) \subseteq Meaning(a).V
  BY <1>2 DEF DepsInv, Covers, Meaning, Deps
<1>4. (pc = "proof" /\ Mode = "Def") => \A a \in Exprs : Deps(a) = Meaning(a).FV
  BY <1>2 DEF DepsInv, Exact, Meaning, Deps, Mode
<1> QED BY <1>1, <1>3, <1>4 DEF DependenciesAreTracked

(* As long as a statement has at most DepsBits bound variables, the cached *)
(* dependencies that every disjointness check of the kernel reads are      *)
(* those of the expressions, for any tables, proof and capacities.         *)
THEOREM VerifierDependenciesTracked == Spec => [](nbv <= DepsBits => DependenciesAreTracked)
<1>1. IndInv /\ DepsInv => (nbv <= DepsBits => DependenciesAreTracked)
  BY DepsSay
<1> QED BY <1>1, VerifierInductive, DepsInductive, PTL DEF Spec

-----------------------------------------------------------------------------
(* The rules of the logic *)

(* A world whose cells are an acyclic graph. *)
IsWorld(w) ==
  /\ w = World(w.terms, w.thms, w.cells)
  /\ Tidy(w.terms, w.cells)

LEMMA WorldParts ==
  ASSUME NEW w, IsWorld(w)
  PROVE  /\ w.mean = Meanings(w.terms, w.cells)
         /\ w.exprs = {a \in DOMAIN w.cells : ExprIn(w.cells, a)}
         /\ w.trees = {w.mean[a].tree : a \in w.exprs}
         /\ Tidy(w.terms, w.cells)
         /\ IsFiniteSet(w.trees)
<1>1. /\ w.mean = Meanings(w.terms, w.cells)
      /\ w.exprs = {a \in DOMAIN w.cells : ExprIn(w.cells, a)}
      /\ w.trees = {w.mean[a].tree : a \in w.exprs}
  BY DEF IsWorld, World, ExprIn
<1>2. IsFiniteSet(w.exprs)
  <2>1. DOMAIN w.cells = 1..Len(w.cells) /\ Len(w.cells) \in Nat
    BY DEF IsWorld, Tidy
  <2>2. IsFiniteSet(1..Len(w.cells))
    BY <2>1, FS_Interval
  <2> QED BY <1>1, <2>1, <2>2, FS_Subset
<1>3. IsFiniteSet(w.trees)
  <2> DEFINE E == w.exprs
             U == w.trees
             g == [a \in E |-> w.mean[a].tree]
  <2>1. g \in Surjection(E, U)
    <3>1. U = {w.mean[a].tree : a \in E}
      BY <1>1
    <3> HIDE DEF U, E
    <3>2. \A a \in E : g[a] \in U
      BY <3>1
    <3>3. \A x \in U : \E a \in E : g[a] = x
      BY <3>1
    <3> QED BY <3>2, <3>3 DEF Surjection
  <2> HIDE DEF g
  <2> QED BY <1>2, <2>1, FS_Surjection
<1> QED BY <1>1, <1>3 DEF IsWorld

(* The conversions are closed under the rules for them. *)
LEMMA ConversionRules ==
  ASSUME NEW w, IsWorld(w), NEW C, C = Convertible(w)
  PROVE  /\ C \in SUBSET (w.trees \X w.trees)
         /\ \A x \in w.trees : <<x, x>> \in C
         /\ \A x, y \in w.trees : <<y, x>> \in C => <<x, y>> \in C
         /\ \A x, y, z \in w.trees : <<x, z>> \in C /\ <<z, y>> \in C => <<x, y>> \in C
         /\ \A x, y \in w.trees :
              (/\ x.tag = "term" /\ y.tag = "term" /\ x.id = y.id
               /\ \A i \in DOMAIN x.args : <<x.args[i], y.args[i]>> \in C)
                => <<x, y>> \in C
         /\ \A x, y \in w.trees : <<x, y>> \in Unfoldings(w, x) => <<x, y>> \in C
<1> DEFINE U == w.trees
           D == UNION {Unfoldings(w, x) : x \in U}
           Step == [S \in SUBSET (U \X U) |-> ConvStep(U, D, S)]
<1>1. IsFiniteSet(U \X U)
  BY WorldParts, FS_Product
<1>2. C = Least(Step, {})
  BY DEF Convertible
<1> HIDE DEF D, U
<1>3. Monotone(U \X U, Step)
  <2>1. \A S \in SUBSET (U \X U) : ConvStep(U, D, S) \in SUBSET (U \X U)
    BY DEF ConvStep
  <2>2. ASSUME NEW R \in SUBSET (U \X U), NEW S \in SUBSET (U \X U), R \subseteq S
        PROVE  ConvStep(U, D, R) \subseteq ConvStep(U, D, S)
    BY <2>2 DEF ConvStep
  <2> QED BY <2>1, <2>2 DEF Monotone
<1>4. C \in SUBSET (U \X U) /\ Step[C] \subseteq C
  <2> HIDE DEF Step
  <2>1. {} \in SUBSET (U \X U)
    OBVIOUS
  <2> QED BY <1>1, <1>2, <1>3, <2>1, LeastIs
<1>5. ConvStep(U, D, C) \subseteq C
  BY <1>4
<1>6. \A x, y \in U : <<x, y>> \in U \X U
  OBVIOUS
<1>7. \A x, y \in U : (\/ x = y
                       \/ <<x, y>> \in D
                       \/ <<y, x>> \in C
                       \/ \E z \in U : <<x, z>> \in C /\ <<z, y>> \in C
                       \/ /\ x.tag = "term" /\ y.tag = "term" /\ x.id = y.id
                          /\ \A i \in DOMAIN x.args : <<x.args[i], y.args[i]>> \in C)
                      => <<x, y>> \in C
  BY <1>5, <1>6 DEF ConvStep
<1>8. \A x, y \in U : <<x, y>> \in Unfoldings(w, x) => <<x, y>> \in D
  BY DEF D
<1> QED BY <1>4, <1>7, <1>8 DEF U

(* The provable trees have the hypotheses and are closed under the         *)
(* instances of theorems and conversion.                                   *)
LEMMA ProofRules ==
  ASSUME NEW w, IsWorld(w), NEW C, NEW H \in SUBSET w.trees, NEW P, P = Derivable(w, C, H)
  PROVE  /\ P \in SUBSET w.trees
         /\ H \subseteq P
         /\ \A t \in DOMAIN w.thms : \A r \in Instances(w, t) :
              r[1] \in w.trees /\ r[2] \subseteq P => r[1] \in P
         /\ \A x \in w.trees : \A y \in P : <<x, y>> \in C => x \in P
<1> DEFINE U == w.trees
           I == UNION {Instances(w, t) : t \in DOMAIN w.thms}
           Step == [S \in SUBSET U |-> ProofStepSet(U, I, C, S)]
<1>1. IsFiniteSet(U) /\ H \in SUBSET U
  BY WorldParts
<1>2. P = Least(Step, H)
  BY DEF Derivable
<1> HIDE DEF I, U
<1>3. Monotone(U, Step)
  <2>1. \A S \in SUBSET U : ProofStepSet(U, I, C, S) \in SUBSET U
    BY DEF ProofStepSet
  <2>2. ASSUME NEW R \in SUBSET U, NEW S \in SUBSET U, R \subseteq S
        PROVE  ProofStepSet(U, I, C, R) \subseteq ProofStepSet(U, I, C, S)
    BY <2>2 DEF ProofStepSet
  <2> QED BY <2>1, <2>2 DEF Monotone
<1>4. P \in SUBSET U /\ H \subseteq P /\ Step[P] \subseteq P
  <2> HIDE DEF Step
  <2> QED BY <1>1, <1>2, <1>3, LeastIs
<1>5. ProofStepSet(U, I, C, P) \subseteq P
  BY <1>4
<1>6. \A x \in U : \A r \in I : r[1] = x /\ r[2] \subseteq P => x \in P
  BY <1>5 DEF ProofStepSet
<1>7. \A x \in U : \A y \in P : <<x, y>> \in C => x \in P
  BY <1>5 DEF ProofStepSet
<1>8. \A t \in DOMAIN w.thms : Instances(w, t) \subseteq I
  BY DEF I
<1> QED BY <1>4, <1>6, <1>7, <1>8 DEF U

-----------------------------------------------------------------------------
(* Unify streams *)

(* The recursion over the commands of a stream defines a function. *)
LEMMA PendingIs ==
  ASSUME NEW terms, NEW code, Len(code) \in Nat
  PROVE  LET n == Pending(terms, code)
         IN  /\ n[1] = 1
             /\ \A k \in 1..Len(code) :
                  n[k + 1] = n[k] + (IF code[k].op = "Hyp" THEN 1 ELSE Arity(terms, code[k]) - 1)
<1> DEFINE N == Len(code) + 1
           More(k) == IF code[k].op = "Hyp" THEN 1 ELSE Arity(terms, code[k]) - 1
           Body(g, k) == IF k = 1 THEN 1 ELSE g[k - 1] + More(k - 1)
           Upto(m) == \E g : g = [k \in 1..m |-> Body(g, k)]
           S == {m \in Nat : Upto(m)}
           n == Pending(terms, code)
<1> HIDE DEF More
<1>1. 0 \in S
  <2>1. [k \in 1..0 |-> 0] = [k \in 1..0 |-> Body([j \in 1..0 |-> 0], k)]
    OBVIOUS
  <2>2. Upto(0)
    BY <2>1
  <2> QED BY <2>2
<1>2. ASSUME NEW m \in Nat, m \in S PROVE m + 1 \in S
  <2>1. PICK g : g = [k \in 1..m |-> Body(g, k)]
    BY <1>2
  <2> DEFINE h == [k \in 1..(m + 1) |-> Body(g, k)]
  <2>2. \A k \in 1..m : h[k] = g[k]
    <3>1. \A k \in 1..m : g[k] = Body(g, k)
      BY <2>1
    <3>2. \A k \in 1..m : k \in 1..(m + 1) /\ h[k] = Body(g, k)
      OBVIOUS
    <3> HIDE DEF h
    <3> QED BY <3>1, <3>2
  <2>3. \A k \in 1..(m + 1) : Body(h, k) = Body(g, k)
    <3>1. \A k \in 1..(m + 1) : k # 1 => k - 1 \in 1..m
      OBVIOUS
    <3> HIDE DEF h
    <3> QED BY <2>2, <3>1
  <2>4. h = [k \in 1..(m + 1) |-> Body(h, k)]
    <3> HIDE DEF Body
    <3>1. \A k \in 1..(m + 1) : h[k] = Body(h, k)
      BY <2>3
    <3>2. h = [k \in 1..(m + 1) |-> h[k]]
      OBVIOUS
    <3> HIDE DEF h
    <3> QED BY <3>1, <3>2
  <2> HIDE DEF h
  <2>5. Upto(m + 1)
    BY <2>4
  <2> QED BY <2>5
<1>3. N \in Nat /\ N \in S
  <2> HIDE DEF S
  <2>1. N \in Nat
    OBVIOUS
  <2> QED BY <1>1, <1>2, <2>1, NatAll
<1>4. n = [k \in 1..N |-> Body(n, k)]
  <2>1. \E g : g = [k \in 1..N |-> Body(g, k)]
    BY <1>3
  <2> QED BY <2>1, Zenon DEF Pending, More
<1> HIDE DEF n
<1>5. \A k \in 1..N : n[k] = Body(n, k)
  BY <1>4
<1>6. n[1] = 1
  <2>1. 1 \in 1..N
    BY <1>3
  <2> QED BY <1>5, <2>1
<1>7. ASSUME NEW k \in 1..Len(code) PROVE n[k + 1] = n[k] + More(k)
  <2>1. k + 1 \in 1..N /\ k + 1 # 1 /\ (k + 1) - 1 = k
    OBVIOUS
  <2> QED BY <1>5, <2>1
<1> QED BY <1>6, <1>7 DEF n, More

(* The place where an expression begins is the only one. *)
LEMMA PlaceIs ==
  ASSUME NEW code, DOMAIN code = 1..Len(code), NEW n, NEW j, NEW l,
         NEW p \in Reading(code), Begins(code, n, j, l, p)
  PROVE  Place(code, n, j, l) = p
<1>1. \A q \in Reading(code) : q \in Nat /\ q >= 1
  BY DEF Reading, Commands
<1>2. \A q \in Reading(code) : Begins(code, n, j, l, q) => q = p
  <2> SUFFICES ASSUME NEW q \in Reading(code), Begins(code, n, j, l, q) PROVE q = p
    OBVIOUS
  <2>1. q \in Nat /\ p \in Nat /\ q >= 1 /\ p >= 1
    BY <1>1
  <2>2. p > j /\ n[p] = l /\ q > j /\ n[q] = l
    BY DEF Begins
  <2>3. ~(q \in 1..(p - 1)) /\ ~(p \in 1..(q - 1))
    BY <2>2 DEF Begins
  <2> QED BY <2>1, <2>3
<1> QED BY <1>2, Zenon DEF Place

-----------------------------------------------------------------------------
(* A run of the unifier, as a trace: the cell that each command so far was *)
(* about - the one it popped, or a hypothesis that it pushed.              *)

IsTerm(c) == c.op \in {"Term", "TermSave"}

(* The cell x is to be read as the part at level l of command j, of the    *)
(* expression e as a whole if j is 0.                                      *)
IsPart(terms, n, st, code, e, tr, j, l, x) ==
  \/ j = 0 /\ l = 1 /\ x = e
  \/ j # 0 /\ code[j].op = "Hyp" /\ l = n[j] + 1 /\ x = tr[j]
  \/ /\ j # 0 /\ IsTerm(code[j])
     /\ \E i \in 1..Arity(terms, code[j]) :
          l = n[j] + Arity(terms, code[j]) - i /\ x = st[tr[j]].args[i]

(* It has been, or is on the stack. *)
ReadsAt(n, code, j, l, p) == p > j /\ code[p].op # "Hyp" /\ n[p] = l

Due(n, code, us, tr, j, l, x) ==
  \/ \E p \in DOMAIN tr : /\ ReadsAt(n, code, j, l, p)
                          /\ \A r \in 1..(p - 1) : ~ReadsAt(n, code, j, l, r)
                          /\ tr[p] = x
  \/ /\ \A p \in DOMAIN tr : ~ReadsAt(n, code, j, l, p)
     /\ l \in 1..Len(us) /\ us[l] = x

(* The stack of the unifier holds the parts that are still to be read. *)
TraceParts(terms, n, st, code, e, us, tr) ==
  /\ tr \in Seq(Nat) /\ us \in Seq(Nat)
  /\ Len(us) = n[Len(tr) + 1]
  /\ \A j \in DOMAIN tr : n[j] \in Nat /\ (code[j].op # "Hyp" => n[j] >= 1)
  /\ \A j \in 0..Len(tr) : \A l, x :
       IsPart(terms, n, st, code, e, tr, j, l, x) => Due(n, code, us, tr, j, l, x)

LEMMA LevelIn ==
  ASSUME NEW L \in Nat, L >= 1, NEW ar \in Nat, NEW i \in 1..ar
  PROVE  L + ar - i \in 1..(L - 1 + ar)
  OBVIOUS

(* A command that reads the top of the stack, and pushes its arguments, the *)
(* first on top.                                                           *)
LEMMA PartsRead ==
  ASSUME NEW terms, NEW n, NEW st, NEW code, NEW e, NEW us, NEW tr,
         TraceParts(terms, n, st, code, e, us, tr),
         NEW q, q = Len(tr) + 1, code[q].op # "Hyp", Len(us) >= 1,
         NEW ar \in Nat, ar = Arity(terms, code[q]), n[q + 1] = n[q] + (ar - 1),
         NEW us2 \in Seq(Nat), Len(us2) = Len(us) - 1 + ar,
         \A l \in 1..(Len(us) - 1) : us2[l] = us[l],
         IsTerm(code[q]) => \A i \in 1..ar : us2[Len(us) + ar - i] = st[us[Len(us)]].args[i]
  PROVE  TraceParts(terms, n, st, code, e, us2, Append(tr, us[Len(us)]))
<1> DEFINE L == Len(us)
           x0 == us[L]
           t2 == Append(tr, x0)
<1>1. /\ tr \in Seq(Nat) /\ us \in Seq(Nat) /\ L = n[q]
      /\ \A j \in DOMAIN tr : n[j] \in Nat /\ (code[j].op # "Hyp" => n[j] >= 1)
      /\ \A j \in 0..Len(tr) : \A l, x :
           IsPart(terms, n, st, code, e, tr, j, l, x) => Due(n, code, us, tr, j, l, x)
  BY DEF TraceParts
<1>2. L \in Nat /\ x0 \in Nat /\ q \in Nat /\ q >= 1 /\ Len(tr) \in Nat
  <2>1. Len(tr) \in Nat /\ L \in Nat /\ L \in 1..L
    BY <1>1
  <2>2. x0 \in Nat
    BY <1>1, <2>1, ElementOfSeq, SMTT(30)
  <2> HIDE DEF x0, L
  <2> QED BY <2>1, <2>2
<1>3. /\ t2 \in Seq(Nat) /\ Len(t2) = q /\ DOMAIN t2 = 1..q /\ DOMAIN tr = 1..(q - 1)
      /\ t2[q] = x0 /\ \A j \in 1..(q - 1) : t2[j] = tr[j]
  BY <1>1, <1>2, AppendFacts
<1> HIDE DEF t2, x0, L
<1>4. Len(us2) = n[Len(t2) + 1] /\ \A j \in DOMAIN t2 : n[j] \in Nat /\ (code[j].op # "Hyp" => n[j] >= 1)
  <2>1. n[Len(t2) + 1] = L + (ar - 1)
    <3>1. n[Len(t2) + 1] = n[q + 1] /\ L = n[q]
      BY <1>1, <1>3
    <3> QED BY <3>1
  <2>2. \A j \in DOMAIN t2 : j \in DOMAIN tr \/ j = q
    BY <1>2, <1>3
  <2>3. Len(us2) = L + (ar - 1) /\ L >= 1
    BY <1>2 DEF L
  <2> QED BY <1>1, <1>2, <2>1, <2>2, <2>3
<1>5. ASSUME NEW j \in 0..(q - 1), NEW l, NEW x, Due(n, code, us, tr, j, l, x)
      PROVE  Due(n, code, us2, t2, j, l, x)
  <2>1. CASE \E p \in DOMAIN tr : /\ ReadsAt(n, code, j, l, p)
                                  /\ \A r \in 1..(p - 1) : ~ReadsAt(n, code, j, l, r)
                                  /\ tr[p] = x
    <3>1. PICK p \in DOMAIN tr : /\ ReadsAt(n, code, j, l, p)
                                 /\ \A r \in 1..(p - 1) : ~ReadsAt(n, code, j, l, r)
                                 /\ tr[p] = x
      BY <2>1
    <3>2. p \in DOMAIN t2 /\ t2[p] = x
      BY <1>2, <1>3, <3>1
    <3> QED BY <3>1, <3>2 DEF Due
  <2>2. CASE /\ \A p \in DOMAIN tr : ~ReadsAt(n, code, j, l, p)
             /\ l \in 1..Len(us) /\ us[l] = x
    <3>1. CASE l = L
      <4>1. ReadsAt(n, code, j, l, q)
        <5>1. q > j
          BY <1>2
        <5> QED BY <1>1, <3>1, <5>1 DEF ReadsAt
      <4>3. \A r \in 1..(q - 1) : ~ReadsAt(n, code, j, l, r)
        BY <1>3, <2>2
      <4>2. q \in DOMAIN t2 /\ t2[q] = x
        BY <1>2, <1>3, <2>2, <3>1 DEF x0
      <4> QED BY <4>1, <4>2, <4>3 DEF Due
    <3>2. CASE l # L
      <4>1. l \in 1..(L - 1) /\ l \in 1..Len(us2) /\ us2[l] = x
        <5>1. l \in 1..(L - 1) /\ us[l] = x
          BY <1>2, <2>2, <3>2 DEF L
        <5>2. us2[l] = us[l] /\ Len(us2) = L - 1 + ar
          BY <5>1 DEF L
        <5>3. l \in 1..(L - 1 + ar)
          BY <1>2, <5>1
        <5> QED BY <5>1, <5>2, <5>3
      <4>2. \A p \in DOMAIN t2 : ~ReadsAt(n, code, j, l, p)
        <5>1. \A p \in DOMAIN t2 : p \in DOMAIN tr \/ p = q
          BY <1>2, <1>3
        <5>2. ~ReadsAt(n, code, j, l, q)
          BY <1>1, <3>2 DEF ReadsAt
        <5> QED BY <2>2, <5>1, <5>2
      <4> QED BY <4>1, <4>2 DEF Due
    <3> QED BY <3>1, <3>2
  <2> QED BY <1>5, <2>1, <2>2 DEF Due
<1>6. ASSUME NEW j \in 0..(q - 1), NEW l, NEW x, IsPart(terms, n, st, code, e, t2, j, l, x)
      PROVE  IsPart(terms, n, st, code, e, tr, j, l, x)
  <2>1. j # 0 => t2[j] = tr[j]
    <3>1. j # 0 => j \in 1..(q - 1)  BY <1>2
    <3> QED BY <1>3, <3>1
  <2> QED BY <1>6, <2>1 DEF IsPart
<1>7. ASSUME NEW l, NEW x, IsPart(terms, n, st, code, e, t2, q, l, x)
      PROVE  Due(n, code, us2, t2, q, l, x)
  <2>1. PICK i \in 1..ar : l = n[q] + ar - i /\ x = st[x0].args[i] /\ IsTerm(code[q])
    BY <1>2, <1>3, <1>7 DEF IsPart
  <2>2. l \in 1..Len(us2) /\ us2[l] = x
    <3>1. us2[L + ar - i] = st[x0].args[i]
      BY <2>1 DEF L, x0
    <3>2. Len(us2) = L - 1 + ar
      BY DEF L
    <3>3. L >= 1 /\ l = L + ar - i
      BY <1>1, <2>1 DEF L
    <3>4. L + ar - i \in 1..(L - 1 + ar)
      BY <1>2, <2>1, <3>3, LevelIn
    <3>5. l \in 1..Len(us2)
      BY <3>2, <3>3, <3>4
    <3>6. us2[l] = x
      BY <2>1, <3>1, <3>3
    <3> QED BY <3>5, <3>6
  <2>3. \A p \in DOMAIN t2 : ~ReadsAt(n, code, q, l, p)
    BY <1>2, <1>3 DEF ReadsAt
  <2> QED BY <2>2, <2>3 DEF Due
<1>8. \A j \in 0..Len(t2) : j \in 0..(q - 1) \/ j = q
  BY <1>2, <1>3
<1>9. 0..(q - 1) = 0..Len(tr)
  BY <1>2
<1>10. ASSUME NEW j \in 0..Len(t2), NEW l, NEW x, IsPart(terms, n, st, code, e, t2, j, l, x)
       PROVE  Due(n, code, us2, t2, j, l, x)
  <2>1. CASE j = q
    BY <1>7, <1>10, <2>1, Zenon
  <2>2. CASE j \in 0..(q - 1)
    <3>1. IsPart(terms, n, st, code, e, tr, j, l, x) /\ j \in 0..Len(tr)
      BY <1>6, <1>9, <1>10, <2>2, Zenon
    <3>2. Due(n, code, us, tr, j, l, x)
      BY <1>1, <3>1, Zenon
    <3> QED BY <1>5, <2>2, <3>2, Zenon
  <2> QED BY <1>8, <2>1, <2>2
<1>11. TraceParts(terms, n, st, code, e, us2, t2)
  BY <1>3, <1>4, <1>10, Zenon DEF TraceParts
<1> QED BY <1>11 DEF t2, x0, L

(* A hypothesis that is pushed. *)
LEMMA PartsHyp ==
  ASSUME NEW terms, NEW n, NEW st, NEW code, NEW e, NEW us, NEW tr,
         TraceParts(terms, n, st, code, e, us, tr),
         NEW q, q = Len(tr) + 1, code[q].op = "Hyp", n[q + 1] = n[q] + 1, NEW y \in Nat
  PROVE  TraceParts(terms, n, st, code, e, Append(us, y), Append(tr, y))
<1> DEFINE L == Len(us)
           t2 == Append(tr, y)
           u2 == Append(us, y)
<1>1. /\ tr \in Seq(Nat) /\ us \in Seq(Nat) /\ L = n[q]
      /\ \A j \in DOMAIN tr : n[j] \in Nat /\ (code[j].op # "Hyp" => n[j] >= 1)
      /\ \A j \in 0..Len(tr) : \A l, x :
           IsPart(terms, n, st, code, e, tr, j, l, x) => Due(n, code, us, tr, j, l, x)
  BY DEF TraceParts
<1>2. L \in Nat /\ q \in Nat /\ q >= 1 /\ Len(tr) \in Nat
  BY <1>1
<1>3. /\ t2 \in Seq(Nat) /\ Len(t2) = q /\ DOMAIN t2 = 1..q /\ DOMAIN tr = 1..(q - 1)
      /\ t2[q] = y /\ \A j \in 1..(q - 1) : t2[j] = tr[j]
  BY <1>1, <1>2, AppendFacts
<1>4. u2 \in Seq(Nat) /\ Len(u2) = L + 1 /\ u2[L + 1] = y /\ \A l \in 1..L : u2[l] = us[l]
  BY <1>1, AppendFacts
<1> HIDE DEF t2, u2, L
<1>5. Len(u2) = n[Len(t2) + 1] /\ \A j \in DOMAIN t2 : n[j] \in Nat /\ (code[j].op # "Hyp" => n[j] >= 1)
  <2>1. n[Len(t2) + 1] = L + 1
    BY <1>1, <1>3
  <2>2. \A j \in DOMAIN t2 : j \in DOMAIN tr \/ j = q
    BY <1>2, <1>3
  <2> QED BY <1>1, <1>2, <1>4, <2>1, <2>2
<1>6. ASSUME NEW j \in 0..(q - 1), NEW l, NEW x, Due(n, code, us, tr, j, l, x)
      PROVE  Due(n, code, u2, t2, j, l, x)
  <2>1. \A p \in DOMAIN tr : p \in DOMAIN t2 /\ t2[p] = tr[p]
    BY <1>2, <1>3
  <2>2. ~ReadsAt(n, code, j, l, q) /\ \A p \in DOMAIN t2 : p \in DOMAIN tr \/ p = q
    BY <1>2, <1>3 DEF ReadsAt
  <2>3. l \in 1..Len(us) => l \in 1..Len(u2) /\ u2[l] = us[l]
    BY <1>2, <1>4 DEF L
  <2> QED BY <1>6, <2>1, <2>2, <2>3 DEF Due
<1>7. ASSUME NEW j \in 0..(q - 1), NEW l, NEW x, IsPart(terms, n, st, code, e, t2, j, l, x)
      PROVE  IsPart(terms, n, st, code, e, tr, j, l, x)
  <2>1. j # 0 => t2[j] = tr[j]
    BY <1>2, <1>3
  <2> QED BY <1>7, <2>1 DEF IsPart
<1>8. ASSUME NEW l, NEW x, IsPart(terms, n, st, code, e, t2, q, l, x)
      PROVE  Due(n, code, u2, t2, q, l, x)
  <2>1. l = n[q] + 1 /\ x = y
    BY <1>2, <1>3, <1>8 DEF IsPart, IsTerm
  <2>2. l \in 1..Len(u2) /\ u2[l] = x
    BY <1>1, <1>2, <1>4, <2>1
  <2>3. \A p \in DOMAIN t2 : ~ReadsAt(n, code, q, l, p)
    BY <1>2, <1>3 DEF ReadsAt
  <2> QED BY <2>2, <2>3 DEF Due
<1>9. \A j \in 0..Len(t2) : j \in 0..(q - 1) \/ j = q
  BY <1>2, <1>3
<1>10. 0..(q - 1) = 0..Len(tr)
  BY <1>2
<1>11. ASSUME NEW j \in 0..Len(t2), NEW l, NEW x, IsPart(terms, n, st, code, e, t2, j, l, x)
       PROVE  Due(n, code, u2, t2, j, l, x)
  <2>1. CASE j = q
    BY <1>8, <1>11, <2>1, Zenon
  <2>2. CASE j \in 0..(q - 1)
    <3>1. IsPart(terms, n, st, code, e, tr, j, l, x) /\ j \in 0..Len(tr)
      BY <1>7, <1>10, <1>11, <2>2, Zenon
    <3>2. Due(n, code, us, tr, j, l, x)
      BY <1>1, <3>1, Zenon
    <3> QED BY <1>6, <2>2, <3>2, Zenon
  <2> QED BY <1>9, <2>1, <2>2
<1>12. TraceParts(terms, n, st, code, e, u2, t2)
  BY <1>3, <1>4, <1>5, <1>11, Zenon DEF TraceParts
<1> QED BY <1>12 DEF t2, u2

(* The heap of the unifier holds the binders, s, and above them what was   *)
(* saved, in order.                                                        *)
TraceHeap(code, s, uh, tr) ==
  /\ Len(uh) = Len(s) + Cardinality({i \in DOMAIN tr : Saves(code[i])})
  /\ \A i \in DOMAIN s : i \in DOMAIN uh /\ uh[i] = [at |-> s[i], saved |-> FALSE]
  /\ \A d \in DOMAIN uh \ DOMAIN s :
       \E j \in DOMAIN tr : Fills(code, Len(s), d, j) /\ uh[d].at = tr[j]
  /\ \A j \in DOMAIN tr : code[j].op = "Dummy" =>
       \E d \in DOMAIN uh : uh[d] = [at |-> tr[j], saved |-> FALSE]

Distinct(st, a, b) == st[a].type.deps \cap st[b].type.deps = {}

(* What the commands so far have checked of their cells. *)
CellChecked(st, code, s, tr, j) ==
  /\ code[j].op # "End"
  /\ ExprIn(st, tr[j])
  /\ IsTerm(code[j]) => st[tr[j]].tag = "term" /\ st[tr[j]].id = code[j].data
  /\ code[j].op = "Ref" =>
       IF code[j].data \in DOMAIN s THEN tr[j] = s[code[j].data]
       ELSE \E i \in 1..(j - 1) : Fills(code, Len(s), code[j].data, i) /\ tr[j] = tr[i]
  /\ code[j].op = "Dummy" =>
       /\ BoundVar(st[tr[j]]) /\ st[tr[j]].type.sort = code[j].data
       /\ \A i \in DOMAIN s : Distinct(st, s[i], tr[j])
       /\ \A i \in 1..(j - 1) : code[i].op = "Dummy" => Distinct(st, tr[i], tr[j])

TraceCells(st, code, s, tr) == \A j \in DOMAIN tr : CellChecked(st, code, s, tr, j)

LEMMA HeapKept ==
  ASSUME NEW code, NEW s, NEW uh, NEW tr \in Seq(Nat), TraceHeap(code, s, uh, tr),
         NEW x \in Nat, ~Saves(code[Len(tr) + 1])
  PROVE  TraceHeap(code, s, uh, Append(tr, x))
<1> DEFINE t2 == Append(tr, x)
           q == Len(tr) + 1
<1>1. /\ q \in Nat /\ DOMAIN tr = 1..Len(tr) /\ DOMAIN t2 = 1..(Len(tr) + 1)
      /\ \A j \in 1..Len(tr) : t2[j] = tr[j]
  BY AppendFacts
<1>2. DOMAIN t2 = DOMAIN tr \cup {q}
  BY <1>1
<1> HIDE DEF t2
<1>3. {i \in DOMAIN t2 : Saves(code[i])} = {i \in DOMAIN tr : Saves(code[i])}
  BY <1>2
<1>4. code[q].op # "Dummy" /\ \A j \in DOMAIN tr : j \in DOMAIN t2 /\ t2[j] = tr[j]
  BY <1>1, <1>2 DEF Saves
<1>5. \A j \in DOMAIN t2 : code[j].op = "Dummy" => j \in DOMAIN tr
  BY <1>2, <1>4
<1> HIDE DEF q
<1>6. \A d \in DOMAIN uh \ DOMAIN s :
        \E j \in DOMAIN t2 : Fills(code, Len(s), d, j) /\ uh[d].at = t2[j]
  BY <1>4, Zenon DEF TraceHeap
<1>7. \A j \in DOMAIN t2 : code[j].op = "Dummy" =>
        \E d \in DOMAIN uh : uh[d] = [at |-> t2[j], saved |-> FALSE]
  <2> SUFFICES ASSUME NEW j \in DOMAIN t2, code[j].op = "Dummy"
               PROVE  \E d \in DOMAIN uh : uh[d] = [at |-> t2[j], saved |-> FALSE]
    OBVIOUS
  <2>1. j \in DOMAIN tr /\ t2[j] = tr[j]
    BY <1>4, <1>5
  <2> QED BY <2>1 DEF TraceHeap
<1>8. /\ Len(uh) = Len(s) + Cardinality({i \in DOMAIN t2 : Saves(code[i])})
      /\ \A i \in DOMAIN s : i \in DOMAIN uh /\ uh[i] = [at |-> s[i], saved |-> FALSE]
  BY <1>3 DEF TraceHeap
<1> QED BY <1>6, <1>7, <1>8 DEF TraceHeap, t2

LEMMA HeapSaved ==
  ASSUME NEW code, NEW s, NEW uh \in Seq(UHeapItem), NEW tr \in Seq(Nat), Len(s) \in Nat,
         DOMAIN s = 1..Len(s), TraceHeap(code, s, uh, tr), NEW x \in Nat, NEW saved \in BOOLEAN,
         Saves(code[Len(tr) + 1]), code[Len(tr) + 1].op = "Dummy" => ~saved
  PROVE  TraceHeap(code, s, Append(uh, [at |-> x, saved |-> saved]), Append(tr, x))
<1> DEFINE t2 == Append(tr, x)
           item == [at |-> x, saved |-> saved]
           h2 == Append(uh, item)
           q == Len(tr) + 1
           K == {i \in DOMAIN tr : Saves(code[i])}
           K2 == {i \in DOMAIN t2 : Saves(code[i])}
<1>1. /\ q \in Nat /\ DOMAIN tr = 1..Len(tr) /\ DOMAIN t2 = 1..(Len(tr) + 1) /\ t2[q] = x
      /\ \A j \in 1..Len(tr) : t2[j] = tr[j]
  BY AppendFacts
<1>2. DOMAIN t2 = DOMAIN tr \cup {q} /\ q \notin DOMAIN tr /\ DOMAIN t2 = 1..q
  BY <1>1
<1>3. item \in UHeapItem
  BY DEF UHeapItem
<1>4. /\ Len(uh) \in Nat /\ DOMAIN uh = 1..Len(uh) /\ Len(h2) = Len(uh) + 1
      /\ DOMAIN h2 = 1..(Len(uh) + 1) /\ h2[Len(uh) + 1] = item
      /\ \A d \in 1..Len(uh) : h2[d] = uh[d]
  BY <1>3, AppendFacts
<1> HIDE DEF t2, h2, item, q
<1>5. {i \in 1..q : Saves(code[i])} = K \cup {q} /\ {i \in DOMAIN t2 : Saves(code[i])} = K \cup {q}
  BY <1>2 DEF q
<1>6. Cardinality(K \cup {q}) = Cardinality(K) + 1 /\ Cardinality(K) \in Nat
  <2>4. Len(tr) \in Nat /\ IsFiniteSet(1..Len(tr))
    BY FS_Interval
  <2>1. IsFiniteSet(DOMAIN tr) /\ K \subseteq DOMAIN tr
    BY <1>1, <2>4
  <2> HIDE DEF K
  <2>2. IsFiniteSet(K)
    BY <2>1, FS_Subset
  <2>3. q \notin K
    BY <1>2, <2>1
  <2> QED BY <2>2, <2>3, FS_AddElement, FS_CardinalityType
<1>7. Len(uh) = Len(s) + Cardinality(K)
  BY DEF TraceHeap
<1> HIDE DEF K
<1>15. K2 = K \cup {q} /\ K2 = {i \in 1..q : Saves(code[i])}
  BY <1>5
<1> HIDE DEF K2
<1>16. Len(uh) + 1 = Len(s) + Cardinality(K2)
  BY <1>4, <1>6, <1>7, <1>15
<1>8. Len(h2) = Len(s) + Cardinality(K2)
  BY <1>4, <1>16
<1>9. Fills(code, Len(s), Len(uh) + 1, q)
  <2>1. Saves(code[q])
    BY DEF q
  <2> QED BY <1>15, <1>16, <2>1, Zenon DEF Fills
<1>10. \A d \in DOMAIN uh : d \in DOMAIN h2 /\ h2[d] = uh[d]
  BY <1>4
<1>11. \A j \in DOMAIN tr : j \in DOMAIN t2 /\ t2[j] = tr[j]
  BY <1>1, <1>2
<1>12. \A i \in DOMAIN s : i \in DOMAIN h2 /\ h2[i] = [at |-> s[i], saved |-> FALSE]
  BY <1>10 DEF TraceHeap
<1>13. \A d \in DOMAIN h2 \ DOMAIN s :
         \E j \in DOMAIN t2 : Fills(code, Len(s), d, j) /\ h2[d].at = t2[j]
  <2> SUFFICES ASSUME NEW d \in DOMAIN h2 \ DOMAIN s
               PROVE  \E j \in DOMAIN t2 : Fills(code, Len(s), d, j) /\ h2[d].at = t2[j]
    OBVIOUS
  <2>1. CASE d \in DOMAIN uh
    <3>1. PICK j \in DOMAIN tr : Fills(code, Len(s), d, j) /\ uh[d].at = tr[j]
      BY <2>1 DEF TraceHeap
    <3> QED BY <1>10, <1>11, <2>1, <3>1
  <2>2. CASE d = Len(uh) + 1
    <3>1. h2[d].at = t2[q] /\ q \in DOMAIN t2
      BY <1>1, <1>2, <1>4, <2>2 DEF item
    <3> QED BY <1>9, <2>2, <3>1
  <2> QED BY <1>4, <2>1, <2>2
<1>14. \A j \in DOMAIN t2 : code[j].op = "Dummy" =>
         \E d \in DOMAIN h2 : h2[d] = [at |-> t2[j], saved |-> FALSE]
  <2> SUFFICES ASSUME NEW j \in DOMAIN t2, code[j].op = "Dummy"
               PROVE  \E d \in DOMAIN h2 : h2[d] = [at |-> t2[j], saved |-> FALSE]
    OBVIOUS
  <2>1. CASE j \in DOMAIN tr
    <3>1. PICK d \in DOMAIN uh : uh[d] = [at |-> tr[j], saved |-> FALSE]
      BY <2>1 DEF TraceHeap
    <3> QED BY <1>10, <1>11, <2>1, <3>1
  <2>2. CASE j = q
    <3>1. Len(uh) + 1 \in DOMAIN h2 /\ ~saved
      BY <1>4, <2>2 DEF q
    <3>2. h2[Len(uh) + 1] = [at |-> t2[j], saved |-> FALSE]
      BY <1>1, <1>4, <2>2, <3>1 DEF item
    <3> QED BY <3>1, <3>2
  <2> QED BY <1>2, <2>1, <2>2
<1> QED BY <1>8, <1>12, <1>13, <1>14 DEF TraceHeap, t2, h2, item, K2

LEMMA CellsNext ==
  ASSUME NEW st, NEW code, NEW s, NEW tr \in Seq(Nat), TraceCells(st, code, s, tr), NEW x \in Nat,
         CellChecked(st, code, s, Append(tr, x), Len(tr) + 1)
  PROVE  TraceCells(st, code, s, Append(tr, x))
<1> DEFINE t2 == Append(tr, x)
<1>1. /\ Len(tr) \in Nat /\ DOMAIN tr = 1..Len(tr) /\ DOMAIN t2 = 1..(Len(tr) + 1)
      /\ \A j \in 1..Len(tr) : t2[j] = tr[j]
  BY AppendFacts
<1> HIDE DEF t2
<1>2. ASSUME NEW j \in 1..Len(tr) PROVE CellChecked(st, code, s, t2, j)
  <2>1. t2[j] = tr[j] /\ \A i \in 1..(j - 1) : t2[i] = tr[i]
    BY <1>1
  <2>2. CellChecked(st, code, s, tr, j)
    BY <1>1 DEF TraceCells
  <2> QED BY <2>1, <2>2 DEF CellChecked
<1>3. \A j \in DOMAIN t2 : j \in 1..Len(tr) \/ j = Len(tr) + 1
  BY <1>1
<1> QED BY <1>2, <1>3 DEF TraceCells, t2

-----------------------------------------------------------------------------
(* Trees in a world *)

LEMMA TreeParts ==
  /\ \A t, xs : /\ TermTree(t, xs).tag = "term" /\ TermTree(t, xs).id = t
                /\ TermTree(t, xs).args = xs
  /\ \A a : VarTree(a).tag = "var" /\ VarTree(a).at = a
  BY DEF TermTree, VarTree

(* The tree of a term, and its free variables. *)
TreeOf(c, m) == TermTree(c.id, [i \in DOMAIN c.args |-> m[c.args[i]].tree])
FVOf(terms, c, m) ==
  LET A == terms[c.id].args
      FVs(K) == UNION {m[c.args[k]].FV : k \in K}
  IN  (UNION {m[c.args[i]].FV \ FVs(BoundIn(A, A[i].deps)) : i \in {i \in 1..Len(A) : ~A[i].bound}})
        \cup FVs(BoundIn(A, terms[c.id].ret.deps))

LEMMA TermMeans ==
  ASSUME NEW terms, NEW c, c.tag = "term", NEW a, NEW m
  PROVE  /\ Means(terms, c, a, m).tree = TreeOf(c, m)
         /\ Means(terms, c, a, m).FV = FVOf(terms, c, m)
<1> DEFINE V == UNION {m[c.args[i]].V : i \in DOMAIN c.args}
<1>1. Means(terms, c, a, m) = [tree |-> TreeOf(c, m), V |-> V, FV |-> FVOf(terms, c, m)]
  BY Zenon DEF Means, TreeOf, FVOf
<1> HIDE DEF V
<1> QED BY <1>1

LEMMA LeafMeans ==
  ASSUME NEW terms, NEW c, c.tag # "term", NEW a, NEW m
  PROVE  Means(terms, c, a, m).tree = VarTree(a)
  BY DEF Means

(* Cells with the same tree have the same free variables. *)
LEMMA SameTree ==
  ASSUME NEW w, IsWorld(w)
  PROVE  \A a, b \in DOMAIN w.cells : w.mean[a].tree = w.mean[b].tree => w.mean[a].FV = w.mean[b].FV
<1> DEFINE terms == w.terms
           st == w.cells
           m == w.mean
           Bad == {a \in DOMAIN st : \E b \in DOMAIN st : m[a].tree = m[b].tree /\ m[a].FV # m[b].FV}
<1>1. /\ Tidy(terms, st) /\ m = Meanings(terms, st)
      /\ DOMAIN st \subseteq Nat /\ \A a \in DOMAIN st : 1..(a - 1) \subseteq DOMAIN st
  BY WorldParts DEF Tidy
<1>2. SUFFICES ASSUME Bad # {} PROVE FALSE
  OBVIOUS
<1>3. PICK a \in Bad : \A b \in Bad : a <= b
  <2>1. Bad \subseteq Nat
    BY <1>1
  <2> HIDE DEF Bad
  <2> QED BY <1>2, <2>1, NatLeast
<1>4. PICK b \in DOMAIN st : m[a].tree = m[b].tree /\ m[a].FV # m[b].FV
  BY <1>3
<1>5. a \in DOMAIN st /\ a \in Nat
  BY <1>1, <1>3
<1>6. \A c \in 1..(a - 1) : \A d \in DOMAIN st : m[c].tree = m[d].tree => m[c].FV = m[d].FV
  <2>1. \A c \in 1..(a - 1) : c \in DOMAIN st /\ c \notin Bad
    BY <1>1, <1>3, <1>5
  <2> QED BY <2>1
<1> HIDE DEF Bad, m, st, terms
<1>7. m[a] = Means(terms, st[a], a, m) /\ m[b] = Means(terms, st[b], b, m)
  BY <1>1, <1>5, MeaningsAre
<1>8. CASE st[a].tag = "term" /\ st[b].tag = "term"
  <2> DEFINE x == st[a].args
             y == st[b].args
             A == terms[st[a].id].args
             FVs(z, K) == UNION {m[z[k]].FV : k \in K}
  <2>10. /\ m[a].tree = TreeOf(st[a], m) /\ m[b].tree = TreeOf(st[b], m)
         /\ m[a].FV = FVOf(terms, st[a], m) /\ m[b].FV = FVOf(terms, st[b], m)
    BY <1>7, <1>8, TermMeans
  <2>1. /\ m[a].tree = TermTree(st[a].id, [i \in DOMAIN x |-> m[x[i]].tree])
        /\ m[b].tree = TermTree(st[b].id, [i \in DOMAIN y |-> m[y[i]].tree])
    BY <2>10 DEF TreeOf
  <2>2. /\ st[a].id = st[b].id
        /\ [i \in DOMAIN x |-> m[x[i]].tree] = [i \in DOMAIN y |-> m[y[i]].tree]
    <3> DEFINE f == [i \in DOMAIN x |-> m[x[i]].tree]
               g == [i \in DOMAIN y |-> m[y[i]].tree]
    <3>1. TermTree(st[a].id, f) = TermTree(st[b].id, g)
      BY <1>4, <2>1
    <3> HIDE DEF f, g
    <3>2. st[a].id = st[b].id /\ f = g
      BY <3>1, TreeParts
    <3> QED BY <3>2 DEF f, g
  <2>3. DOMAIN x = DOMAIN y /\ \A i \in DOMAIN x : m[x[i]].tree = m[y[i]].tree
    <3> DEFINE f == [i \in DOMAIN x |-> m[x[i]].tree]
               g == [i \in DOMAIN y |-> m[y[i]].tree]
    <3>1. DOMAIN f = DOMAIN x /\ DOMAIN g = DOMAIN y /\ f = g
      BY <2>2
    <3>2. \A i \in DOMAIN x : f[i] = m[x[i]].tree
      OBVIOUS
    <3>3. \A i \in DOMAIN y : g[i] = m[y[i]].tree
      OBVIOUS
    <3> HIDE DEF f, g, x, y
    <3> QED BY <3>1, <3>2, <3>3
  <2>4. /\ DOMAIN x = 1..Len(A)
        /\ \A i \in DOMAIN x : x[i] \in 1..(a - 1)
        /\ \A i \in DOMAIN y : y[i] \in DOMAIN st
    BY <1>1, <1>4, <1>5, <1>8 DEF Tidy
  <2> HIDE DEF x, y
  <2>5. \A i \in 1..Len(A) : m[x[i]].FV = m[y[i]].FV
    BY <1>6, <2>3, <2>4
  <2>6. ASSUME NEW K, K \subseteq 1..Len(A) PROVE FVs(x, K) = FVs(y, K)
    BY <2>5, <2>6
  <2>7. \A D : FVs(x, BoundIn(A, D)) = FVs(y, BoundIn(A, D))
    <3>1. \A D : BoundIn(A, D) \subseteq 1..Len(A)
      BY DEF BoundIn
    <3> QED BY <2>6, <3>1
  <2> HIDE DEF FVs
  <2>8. UNION {m[x[i]].FV \ FVs(x, BoundIn(A, A[i].deps)) : i \in {i \in 1..Len(A) : ~A[i].bound}}
        = UNION {m[y[i]].FV \ FVs(y, BoundIn(A, A[i].deps)) : i \in {i \in 1..Len(A) : ~A[i].bound}}
    BY <2>5, <2>7
  <2>9. m[a].FV = m[b].FV
    <3> DEFINE D == terms[st[a].id].ret.deps
    <3>1. m[a].FV = (UNION {m[x[i]].FV \ FVs(x, BoundIn(A, A[i].deps)) : i \in {i \in 1..Len(A) : ~A[i].bound}})
                      \cup FVs(x, BoundIn(A, D))
      BY <2>10 DEF FVOf, FVs, x, A, D
    <3>2. m[b].FV = (UNION {m[y[i]].FV \ FVs(y, BoundIn(A, A[i].deps)) : i \in {i \in 1..Len(A) : ~A[i].bound}})
                      \cup FVs(y, BoundIn(A, D))
      BY <2>2, <2>10 DEF FVOf, FVs, y, A, D
    <3> HIDE DEF A, D
    <3> QED BY <2>7, <2>8, <3>1, <3>2
  <2> QED BY <1>4, <2>9
<1>9. CASE st[a].tag # "term"
  <2>1. m[a].tree = VarTree(a)
    BY <1>7, <1>9, LeafMeans
  <2>2. st[b].tag # "term"
    <3>1. st[b].tag = "term" => m[b].tree.tag = "term"
      <4>1. st[b].tag = "term" => m[b].tree = TreeOf(st[b], m)
        BY <1>7, TermMeans
      <4> QED BY <4>1, TreeParts DEF TreeOf
    <3>2. m[a].tree.tag = "var"
      BY <2>1, TreeParts
    <3> QED BY <1>4, <3>1, <3>2
  <2>3. m[b].tree = VarTree(b)
    BY <1>7, <2>2, LeafMeans
  <2>4. a = b
    <3>1. VarTree(a) = VarTree(b)
      BY <1>4, <2>1, <2>3
    <3>2. VarTree(a).at = a /\ VarTree(b).at = b
      BY TreeParts
    <3> QED BY <3>1, <3>2
  <2> QED BY <1>4, <2>4
<1>10. CASE st[a].tag = "term" /\ st[b].tag # "term"
  <2>3. m[b].tree = VarTree(b)
    <3>1. Means(terms, st[b], b, m).tree = VarTree(b)
      BY <1>10, LeafMeans
    <3> QED BY <1>7, <3>1
  <2>1. m[b].tree.tag = "var"
    BY <2>3, TreeParts
  <2>2. m[a].tree = TreeOf(st[a], m)
    BY <1>7, <1>10, TermMeans
  <2> QED BY <1>4, <2>1, <2>2, TreeParts DEF TreeOf
<1> QED BY <1>8, <1>9, <1>10

LEMMA FVIs ==
  ASSUME NEW w, IsWorld(w), NEW a \in w.exprs
  PROVE  FV(w, w.mean[a].tree) = w.mean[a].FV
<1>1. \A b \in w.exprs : w.mean[b].tree = w.mean[a].tree => w.mean[b].FV = w.mean[a].FV
  BY SameTree, WorldParts
<1>2. \E b \in w.exprs : w.mean[b].tree = w.mean[a].tree
  OBVIOUS
<1> QED BY <1>1, <1>2, Zenon DEF FV

(* w is a world that the store st may grow to. *)
Grows(terms, st, w) == IsWorld(w) /\ w.terms = terms /\ Extends(st, w.cells)

(* What it makes of the store's expressions. *)
LEMMA CellsInWorld ==
  ASSUME NEW f, NEW ns, NEW nt, NEW st, StoreGood(st, f, ns, nt), NEW w, Grows(f.terms, st, w)
  PROVE  \A a : ExprIn(st, a) =>
           /\ a \in w.exprs /\ w.cells[a] = st[a] /\ w.mean[a].tree \in w.trees
           /\ w.mean[a] = Meanings(f.terms, st)[a]
           /\ st[a].tag = "var" => w.mean[a].tree = VarTree(a)
           /\ st[a].tag = "term" => w.mean[a].tree = TreeOf(st[a], w.mean)
           /\ SortOf(w, w.mean[a].tree) = st[a].type.sort
<1> SUFFICES ASSUME NEW a, ExprIn(st, a)
             PROVE /\ a \in w.exprs /\ w.cells[a] = st[a] /\ w.mean[a].tree \in w.trees
                   /\ w.mean[a] = Meanings(f.terms, st)[a]
                   /\ st[a].tag = "var" => w.mean[a].tree = VarTree(a)
                   /\ st[a].tag = "term" => w.mean[a].tree = TreeOf(st[a], w.mean)
                   /\ SortOf(w, w.mean[a].tree) = st[a].type.sort
  OBVIOUS
<1>1. /\ IsWorld(w) /\ w.terms = f.terms /\ Extends(st, w.cells) /\ Tidy(f.terms, w.cells)
      /\ w.mean = Meanings(f.terms, w.cells) /\ w.exprs = {b \in DOMAIN w.cells : ExprIn(w.cells, b)}
      /\ w.trees = {w.mean[b].tree : b \in w.exprs}
  BY WorldParts DEF Grows
<1>2. a \in DOMAIN st /\ a \in DOMAIN w.cells /\ w.cells[a] = st[a] /\ a \in w.exprs
  BY <1>1, ExprInExtends DEF Extends, ExprIn
<1>3. w.mean[a].tree \in w.trees
  BY <1>1, <1>2
<1>4. w.mean[a] = Meanings(f.terms, st)[a]
  BY <1>1, <1>2, StoreIsTidy, MeaningsGrow
<1>5. w.mean[a] = Means(f.terms, st[a], a, w.mean)
  BY <1>1, <1>2, MeaningsAre
<1>6. st[a].tag = "var" => w.mean[a].tree = VarTree(a)
  BY <1>5, LeafMeans
<1>7. st[a].tag = "term" => w.mean[a].tree = TreeOf(st[a], w.mean)
  BY <1>5, TermMeans
<1>8. SortOf(w, w.mean[a].tree) = st[a].type.sort
  <2>1. CellIn(st, a, st[a], f, ns, nt)
    BY <1>2 DEF StoreGood
  <2>2. st[a].tag = "var" \/ st[a].tag = "term"
    BY DEF ExprIn
  <2> QED BY <1>1, <1>2, <1>6, <1>7, <2>1, <2>2, TreeParts DEF SortOf, TreeOf, CellIn
<1> QED BY <1>2, <1>3, <1>4, <1>6, <1>7, <1>8

-----------------------------------------------------------------------------
(* What the unifier's run shows at the end of its stream *)

(* The unifier has read code as far as uc, with the cells s for the binders *)
(* and the cell e as its target.                                           *)
Trace(terms, code, st, s, e, us, uh, uc, tr) ==
  /\ TraceParts(terms, Pending(terms, code), st, code, e, us, tr)
  /\ TraceHeap(code, s, uh, tr)
  /\ TraceCells(st, code, s, tr)
  /\ code \in Seq(UnifyCmd) /\ uc \in Seq(UnifyCmd)
  /\ Len(uc) + Len(tr) = Len(code)
  /\ \A k \in 1..Len(uc) : uc[k] = code[Len(tr) + k]

(* It has reached the End with nothing left to read. *)
Ended(us, uc) == us = <<>> /\ uc # <<>> /\ uc[1].op = "End"

(* The commands before the End are those of the trace, and every part of    *)
(* one has been read.                                                      *)
LEMMA EndReads ==
  ASSUME NEW terms, NEW code, NEW st, NEW s, NEW e, NEW us, NEW uh, NEW uc, NEW tr,
         Trace(terms, code, st, s, e, us, uh, uc, tr), Ended(us, uc)
  PROVE  /\ tr \in Seq(Nat) /\ DOMAIN tr = 1..Len(tr) /\ DOMAIN code = 1..Len(code)
         /\ Commands(code) = DOMAIN tr
         /\ Reading(code) = {k \in DOMAIN tr : code[k].op # "Hyp"}
         /\ \A j \in 0..Len(tr) : \A l, x :
              IsPart(terms, Pending(terms, code), st, code, e, tr, j, l, x) =>
                \E p \in Reading(code) : Begins(code, Pending(terms, code), j, l, p) /\ tr[p] = x
<1> DEFINE n == Pending(terms, code)
<1> HIDE DEF n
<1>1. /\ TraceParts(terms, n, st, code, e, us, tr) /\ TraceCells(st, code, s, tr)
      /\ code \in Seq(UnifyCmd) /\ uc \in Seq(UnifyCmd)
      /\ Len(uc) + Len(tr) = Len(code) /\ uc[1] = code[Len(tr) + 1]
      /\ us = <<>> /\ Len(uc) >= 1 /\ code[Len(tr) + 1].op = "End"
  BY DEF Trace, Ended, n
<1>2. /\ tr \in Seq(Nat) /\ DOMAIN tr = 1..Len(tr) /\ Len(tr) \in Nat
      /\ DOMAIN code = 1..Len(code) /\ Len(code) \in Nat
      /\ \A j \in 0..Len(tr) : \A l, x :
           IsPart(terms, n, st, code, e, tr, j, l, x) => Due(n, code, us, tr, j, l, x)
  BY <1>1 DEF TraceParts
<1>3. \A j \in DOMAIN tr : code[j].op # "End"
  BY <1>1 DEF TraceCells, CellChecked
<1>4. Commands(code) = DOMAIN tr
  <2>1. DOMAIN tr \subseteq DOMAIN code /\ Len(tr) + 1 \in DOMAIN code
    BY <1>1, <1>2
  <2>2. ASSUME NEW k \in DOMAIN tr PROVE k \in Commands(code)
    <3>1. \A j \in 1..k : j \in DOMAIN tr
      BY <1>2
    <3> QED BY <1>3, <2>1, <3>1 DEF Commands
  <2>3. ASSUME NEW k \in Commands(code) PROVE k \in DOMAIN tr
    <3>1. k \in 1..Len(code) /\ \A j \in 1..k : code[j].op # "End"
      BY <1>2 DEF Commands
    <3>2. ~(Len(tr) + 1 \in 1..k)
      BY <1>1, <3>1
    <3> QED BY <1>2, <3>1, <3>2
  <2> QED BY <2>2, <2>3
<1>5. Reading(code) = {k \in DOMAIN tr : code[k].op # "Hyp"}
  BY <1>4 DEF Reading
<1>6. ASSUME NEW j \in 0..Len(tr), NEW l, NEW x, IsPart(terms, n, st, code, e, tr, j, l, x)
      PROVE  \E p \in Reading(code) : Begins(code, n, j, l, p) /\ tr[p] = x
  <2>1. Due(n, code, us, tr, j, l, x)
    BY <1>2, <1>6
  <2>2. ~(l \in 1..Len(us))
    BY <1>1
  <2>3. PICK p \in DOMAIN tr : /\ ReadsAt(n, code, j, l, p)
                               /\ \A r \in 1..(p - 1) : ~ReadsAt(n, code, j, l, r)
                               /\ tr[p] = x
    BY <2>1, <2>2 DEF Due
  <2>4. p \in Reading(code) /\ p > j /\ n[p] = l
    BY <1>5, <2>3 DEF ReadsAt
  <2>5. \A r \in 1..(p - 1) : ~(r \in Reading(code) /\ r > j /\ n[r] = l)
    BY <1>5, <2>3 DEF ReadsAt
  <2> QED BY <2>3, <2>4, <2>5 DEF Begins
<1> QED BY <1>2, <1>4, <1>5, <1>6 DEF n

(* The terms it has read have the arguments of their declarations. *)
LEMMA TraceArity ==
  ASSUME NEW terms, NEW code, NEW st, NEW s, NEW tr, TraceCells(st, code, s, tr), Tidy(terms, st),
         NEW j \in DOMAIN tr
  PROVE  /\ Arity(terms, code[j]) \in Nat
         /\ IsTerm(code[j]) =>
              /\ tr[j] \in DOMAIN st /\ st[tr[j]].tag = "term" /\ st[tr[j]].id = code[j].data
              /\ Len(st[tr[j]].args) = Arity(terms, code[j])
              /\ DOMAIN st[tr[j]].args = 1..Arity(terms, code[j])
<1>1. CASE IsTerm(code[j])
  <2>1. /\ tr[j] \in DOMAIN st /\ st[tr[j]].tag = "term" /\ st[tr[j]].id = code[j].data
    BY <1>1 DEF TraceCells, CellChecked, ExprIn
  <2>2. /\ Len(st[tr[j]].args) = Len(terms[code[j].data].args)
        /\ DOMAIN st[tr[j]].args = 1..Len(st[tr[j]].args)
    BY <2>1 DEF Tidy
  <2>3. Len(st[tr[j]].args) \in Nat
    <3>1. st[tr[j]] \in Cell
      BY <2>1 DEF Tidy
    <3>2. st[tr[j]].args \in Seq(Nat)
      BY <2>1, <3>1 DEF Cell
    <3> QED BY <3>2
  <2> QED BY <1>1, <2>1, <2>2, <2>3 DEF Arity, IsTerm
<1>2. CASE ~IsTerm(code[j])
  BY <1>2 DEF Arity, IsTerm
<1> QED BY <1>1, <1>2

(* So none is missing. *)
LEMMA EndComplete ==
  ASSUME NEW terms, NEW code, NEW st, NEW s, NEW e, NEW us, NEW uh, NEW uc, NEW tr,
         Trace(terms, code, st, s, e, us, uh, uc, tr), Ended(us, uc),
         Tidy(terms, st)
  PROVE  Complete(terms, code)
<1> DEFINE n == Pending(terms, code)
<1> HIDE DEF n
<1>1. /\ Commands(code) = DOMAIN tr /\ DOMAIN tr = 1..Len(tr) /\ tr \in Seq(Nat)
      /\ DOMAIN code = 1..Len(code)
      /\ \A j \in 0..Len(tr) : \A l, x :
           IsPart(terms, n, st, code, e, tr, j, l, x) =>
             \E p \in Reading(code) : Begins(code, n, j, l, p) /\ tr[p] = x
  BY EndReads DEF n
<1>2. Len(tr) \in Nat /\ \A j \in DOMAIN tr : n[j] \in Nat /\ j \in 0..Len(tr) /\ j # 0
  BY <1>1 DEF Trace, TraceParts, n
<1>3. \E p \in Reading(code) : Begins(code, n, 0, 1, p)
  <2>1. 0 \in 0..Len(tr) /\ IsPart(terms, n, st, code, e, tr, 0, 1, e)
    BY <1>2 DEF IsPart
  <2> QED BY <1>1, <2>1
<1>4. ASSUME NEW k \in Commands(code), NEW l \in Parts(terms, code, n, k)
      PROVE  \E p \in Reading(code) : Begins(code, n, k, l, p)
  <2>1. k \in DOMAIN code /\ k \in DOMAIN tr
    BY <1>1 DEF Commands
  <2>2. \E x : IsPart(terms, n, st, code, e, tr, k, l, x)
    <3>1. CASE code[k].op = "Hyp"
      BY <1>2, <2>1, <3>1 DEF Parts, IsPart
    <3>2. CASE code[k].op # "Hyp"
      <4> DEFINE ar == Arity(terms, code[k])
      <4>0. ar \in Nat
        BY <2>1, TraceArity DEF Trace
      <4>1. ar \in Nat /\ n[k] \in Nat /\ l \in n[k]..(n[k] + ar - 1)
        BY <1>2, <2>1, <3>2, <4>0 DEF Parts
      <4>2. IsTerm(code[k])
        BY <4>1 DEF Arity, IsTerm
      <4>3. n[k] + ar - l \in 1..ar /\ l = n[k] + ar - (n[k] + ar - l)
        <5> HIDE DEF ar
        <5> QED BY <4>1
      <4> QED BY <1>2, <2>1, <4>2, <4>3 DEF IsPart
    <3> QED BY <3>1, <3>2
  <2> QED BY <1>1, <1>2, <2>1, <2>2
<1> QED BY <1>3, <1>4 DEF Complete, n

(* The trees that cells stand for: what commands of the trace are about,   *)
(* which of them are hypotheses, and a list.                               *)
Said(w, code, tr, T) == T = [k \in Reading(code) |-> w.mean[tr[k]].tree]
Pushed(w, code, tr, K) == K = {w.mean[tr[k]].tree : k \in {k \in DOMAIN tr : code[k].op = "Hyp"}}
Trees(w, s, S) == S = [i \in 1..Len(s) |-> w.mean[s[i]].tree]

(* A run of the unifier that has come to the End, on cells that the world w *)
(* has.                                                                    *)
EndIn(f, ns, nt, st, w, code, s, e, us, uh, uc, tr) ==
  /\ StoreGood(st, f, ns, nt) /\ Grows(f.terms, st, w)
  /\ Trace(f.terms, code, st, s, e, us, uh, uc, tr) /\ Ended(us, uc)
  /\ AddrsGood(st, s)

(* T is a reading of the stream with conclusion x and hypotheses K, with S  *)
(* for the binders.                                                        *)
ReadingOf(w, code, T, S, x, K) ==
  /\ T \in Readings(w.terms, code, w.trees)
  /\ Refers(code, S, T)
  /\ Conclusion(w.terms, code, T) = x
  /\ HypsOf(w.terms, code, T) = K

(* What the trace is about, as trees of a world, is a reading of the stream *)
(* with the conclusion e and the hypotheses that were pushed.              *)
LEMMA EndReading ==
  ASSUME NEW f, NEW ns, NEW nt, NEW st, NEW w, NEW code, NEW s, NEW e, NEW us, NEW uh, NEW uc, NEW tr,
         EndIn(f, ns, nt, st, w, code, s, e, us, uh, uc, tr),
         NEW T, Said(w, code, tr, T), NEW S, Trees(w, s, S), NEW K, Pushed(w, code, tr, K)
  PROVE  ReadingOf(w, code, T, S, w.mean[e].tree, K)
<1> DEFINE terms == f.terms
           n == Pending(terms, code)
<1>12. /\ StoreGood(st, f, ns, nt) /\ Grows(f.terms, st, w)
       /\ Trace(f.terms, code, st, s, e, us, uh, uc, tr) /\ Ended(us, uc)
       /\ AddrsGood(st, s)
  BY DEF EndIn
<1>1. /\ Commands(code) = DOMAIN tr /\ DOMAIN tr = 1..Len(tr) /\ tr \in Seq(Nat)
      /\ DOMAIN code = 1..Len(code) /\ Reading(code) = {k \in DOMAIN tr : code[k].op # "Hyp"}
      /\ \A j \in 0..Len(tr) : \A l, x :
           IsPart(terms, n, st, code, e, tr, j, l, x) =>
             \E p \in Reading(code) : Begins(code, n, j, l, p) /\ tr[p] = x
  BY <1>12, EndReads
<1>2. TraceCells(st, code, s, tr) /\ Tidy(terms, st) /\ Len(tr) \in Nat
  BY <1>1, <1>12, StoreIsTidy DEF Trace
<1>11. /\ T = [k \in Reading(code) |-> w.mean[tr[k]].tree]
       /\ S = [i \in 1..Len(s) |-> w.mean[s[i]].tree]
  BY DEF Said, Trees
<1> HIDE DEF n
<1>3. ASSUME NEW j \in 0..Len(tr), NEW l, NEW x, IsPart(terms, n, st, code, e, tr, j, l, x)
      PROVE  /\ Place(code, n, j, l) \in Reading(code) /\ T[Place(code, n, j, l)] = w.mean[x].tree
  <2>1. PICK p \in Reading(code) : Begins(code, n, j, l, p) /\ tr[p] = x
    BY <1>1, <1>3
  <2>2. Place(code, n, j, l) = p
    BY <1>1, <2>1, PlaceIs
  <2> QED BY <1>11, <2>1, <2>2
<1>4. T \in [Reading(code) -> w.trees]
  <2>1. \A k \in DOMAIN tr : ExprIn(st, tr[k])
    BY <1>2 DEF TraceCells, CellChecked
  <2>2. \A k \in Reading(code) : w.mean[tr[k]].tree \in w.trees
    BY <1>1, <1>12, <2>1, CellsInWorld
  <2> QED BY <1>11, <2>2
<1>5. ASSUME NEW k \in Reading(code), code[k].op \in {"Term", "TermSave"}
      PROVE  /\ T[k].tag = "term" /\ T[k].id = code[k].data
             /\ \A i \in 1..Arity(terms, code[k]) :
                  T[k].args[i] = T[Place(code, n, k, n[k] + Arity(terms, code[k]) - i)]
  <2> DEFINE c == st[tr[k]]
             ar == Arity(terms, code[k])
  <2>1. k \in DOMAIN tr /\ IsTerm(code[k]) /\ ExprIn(st, tr[k])
    BY <1>1, <1>2, <1>5 DEF IsTerm, TraceCells, CellChecked
  <2>2. c.tag = "term" /\ c.id = code[k].data /\ DOMAIN c.args = 1..ar
    BY <1>2, <2>1, TraceArity
  <2>8. w.mean[tr[k]].tree = TreeOf(c, w.mean)
    BY <1>12, <2>1, <2>2, CellsInWorld
  <2>7. T[k] = TreeOf(c, w.mean)
    BY <1>11, <2>8
  <2>3. T[k] = TermTree(c.id, [i \in DOMAIN c.args |-> w.mean[c.args[i]].tree])
    BY <2>7 DEF TreeOf
  <2> DEFINE xs == [i \in DOMAIN c.args |-> w.mean[c.args[i]].tree]
  <2>4. \A i \in 1..ar : xs[i] = w.mean[c.args[i]].tree
    BY <2>2
  <2> HIDE DEF xs
  <2>9. T[k] = TermTree(c.id, xs)
    BY <2>3 DEF xs
  <2>5. T[k].tag = "term" /\ T[k].id = code[k].data /\ T[k].args = xs
    BY <2>2, <2>9, TreeParts
  <2>6. ASSUME NEW i \in 1..ar PROVE T[Place(code, n, k, n[k] + ar - i)] = xs[i]
    <3>1. k \in 0..Len(tr) /\ k # 0
      BY <1>1, <1>2, <2>1
    <3>2. IsPart(terms, n, st, code, e, tr, k, n[k] + ar - i, c.args[i])
      BY <2>1, <3>1 DEF IsPart
    <3>3. T[Place(code, n, k, n[k] + ar - i)] = w.mean[c.args[i]].tree
      BY <1>3, <3>1, <3>2
    <3> QED BY <2>4, <3>3
  <2> QED BY <2>5, <2>6
<1>6. T \in Readings(terms, code, w.trees)
  BY <1>4, <1>5 DEF Readings, n
<1>7. Refers(code, S, T)
  <2> SUFFICES ASSUME NEW k \in Reading(code), code[k].op = "Ref"
               PROVE  IF code[k].data \in DOMAIN S THEN T[k] = S[code[k].data]
                      ELSE \E j \in 1..(k - 1) : Fills(code, Len(S), code[k].data, j) /\ T[k] = T[j]
    BY DEF Refers
  <2>1. s \in Seq(Nat) /\ DOMAIN s = 1..Len(s) /\ Len(s) \in Nat
    BY <1>12 DEF AddrsGood
  <2>2. DOMAIN S = DOMAIN s /\ \A i \in DOMAIN s : S[i] = w.mean[s[i]].tree
    BY <1>11, <2>1
  <2>3. Len(S) = Len(s)
    <3> DEFINE S2 == [i \in 1..Len(s) |-> w.mean[s[i]].tree]
    <3>1. Len(S2) = Len(s)
      BY <2>1
    <3> QED BY <1>11, <3>1
  <2>4. IF code[k].data \in DOMAIN s THEN tr[k] = s[code[k].data]
        ELSE \E i \in 1..(k - 1) : Fills(code, Len(s), code[k].data, i) /\ tr[k] = tr[i]
    BY <1>1, <1>2 DEF TraceCells, CellChecked
  <2>5. T[k] = w.mean[tr[k]].tree
    BY <1>11
  <2>6. CASE code[k].data \in DOMAIN s
    BY <2>2, <2>4, <2>5, <2>6
  <2>7. CASE code[k].data \notin DOMAIN s
    <3>1. PICK i \in 1..(k - 1) : Fills(code, Len(s), code[k].data, i) /\ tr[k] = tr[i]
      BY <2>4, <2>7
    <3>2. i \in DOMAIN tr
      BY <1>1, <1>2
    <3>3. i \in Reading(code)
      BY <1>1, <3>1, <3>2 DEF Fills, Saves
    <3>4. T[i] = T[k]
      BY <1>11, <2>5, <3>1, <3>3
    <3> QED BY <2>2, <2>3, <2>7, <3>1, <3>4
  <2> QED BY <2>6, <2>7
<1>8. Conclusion(terms, code, T) = w.mean[e].tree
  <2>1. 0 \in 0..Len(tr) /\ IsPart(terms, n, st, code, e, tr, 0, 1, e)
    BY <1>2 DEF IsPart
  <2> QED BY <1>3, <2>1 DEF Conclusion, n
<1>9. ASSUME NEW k \in DOMAIN tr, code[k].op = "Hyp"
      PROVE  T[Place(code, n, k, n[k] + 1)] = w.mean[tr[k]].tree
  <2>1. k \in 0..Len(tr) /\ k # 0
    BY <1>1, <1>2
  <2>2. IsPart(terms, n, st, code, e, tr, k, n[k] + 1, tr[k])
    BY <1>9, <2>1 DEF IsPart
  <2> QED BY <1>3, <2>1, <2>2
<1>10. HypsOf(terms, code, T) = K
  <2> DEFINE J == {k \in DOMAIN tr : code[k].op = "Hyp"}
  <2>1. HypsOf(terms, code, T) = {T[Place(code, n, k, n[k] + 1)] : k \in J}
    BY <1>1 DEF HypsOf, n
  <2>2. \A k \in J : T[Place(code, n, k, n[k] + 1)] = w.mean[tr[k]].tree
    BY <1>9
  <2> HIDE DEF J
  <2>3. {T[Place(code, n, k, n[k] + 1)] : k \in J} = {w.mean[tr[k]].tree : k \in J}
    BY <2>2
  <2> QED BY <2>1, <2>3 DEF J, Pushed
<1> QED BY <1>6, <1>7, <1>8, <1>10, <1>12 DEF ReadingOf, Grows

(* Cells without a dependency in common stand for trees without a free      *)
(* variable in common.                                                     *)
LEMMA ApartIs ==
  ASSUME NEW f, NEW ns, NEW nt, NEW st, StoreGood(st, f, ns, nt), NEW w, Grows(f.terms, st, w),
         Covers(f.terms, st), NEW a, NEW b, ExprIn(st, a), ExprIn(st, b), Distinct(st, a, b)
  PROVE  Apart(w, w.mean[a].tree, w.mean[b].tree)
<1>1. IsWorld(w) /\ a \in w.exprs /\ b \in w.exprs
  BY CellsInWorld DEF Grows
<1>2. FV(w, w.mean[a].tree) = w.mean[a].FV /\ FV(w, w.mean[b].tree) = w.mean[b].FV
  BY <1>1, FVIs
<1>3. w.mean[a] = Meanings(f.terms, st)[a] /\ w.mean[b] = Meanings(f.terms, st)[b]
  BY CellsInWorld
<1>4. w.mean[a].FV \subseteq st[a].type.deps /\ w.mean[b].FV \subseteq st[b].type.deps
  BY <1>3 DEF Covers, ExprIn
<1> QED BY <1>2, <1>4 DEF Apart, Distinct

(* A cell of a bound type stands for a bound variable. *)
LEMMA BoundIs ==
  ASSUME NEW f, NEW ns, NEW nt, NEW st, StoreGood(st, f, ns, nt), NEW w, Grows(f.terms, st, w),
         OnlyVarsBound(st), NEW a, ExprIn(st, a), st[a].type.bound
  PROVE  st[a].tag = "var" /\ IsBoundVar(w, w.mean[a].tree)
<1>1. st[a].tag = "var"
  BY DEF OnlyVarsBound, ExprIn
<1>2. w.mean[a].tree = VarTree(a) /\ w.cells[a] = st[a]
  BY <1>1, CellsInWorld
<1>3. VarTree(a).tag = "var" /\ VarTree(a).at = a
  BY TreeParts
<1> QED BY <1>1, <1>2, <1>3 DEF IsBoundVar

(* The disjointness checks of Thm, of a store. *)
DisjointIn(st, A, es) ==
  \A i \in 1..Len(A) :
    IF A[i].bound
    THEN \A j \in 1..(i - 1) : Distinct(st, es[j], es[i])
    ELSE \A k \in BoundBefore(A, i) : BitOf(A, k) \in A[i].deps \/ Distinct(st, es[k], es[i])

(* Arguments that pass the checks are allowed by the logic. *)
LEMMA AllowedIs ==
  ASSUME NEW f, NEW ns, NEW nt, NEW st, StoreGood(st, f, ns, nt), NEW w, Grows(f.terms, st, w),
         Covers(f.terms, st), OnlyVarsBound(st), NEW A \in Seq(Type), NEW es, AddrsGood(st, es),
         Len(es) = Len(A), FitIn(st, A, es), DisjointIn(st, A, es),
         NEW S, Trees(w, es, S)
  PROVE  Allowed(w, A, S) /\ S \in [1..Len(A) -> w.trees]
<1>1. /\ Len(A) \in Nat /\ \A i \in 1..Len(A) : ExprIn(st, es[i])
      /\ \A i \in 1..Len(A) : S[i] = w.mean[es[i]].tree
  BY DEF AddrsGood, Trees
<1>2. S \in [1..Len(A) -> w.trees]
  <2>1. \A i \in 1..Len(A) : w.mean[es[i]].tree \in w.trees
    BY <1>1, CellsInWorld
  <2> QED BY <2>1 DEF Trees
<1>3. ASSUME NEW i \in 1..Len(A) PROVE Fits(w, S[i], A[i])
  <2>1. SortsCompatible(st[es[i]].type, A[i]) /\ ExprIn(st, es[i])
    BY <1>1 DEF FitIn
  <2>2. SortOf(w, S[i]) = A[i].sort
    BY <1>1, <2>1, CellsInWorld DEF SortsCompatible
  <2>3. A[i].bound => IsBoundVar(w, S[i])
    <3>1. SUFFICES ASSUME A[i].bound PROVE IsBoundVar(w, S[i])
      OBVIOUS
    <3>2. st[es[i]].type.bound
      BY <2>1, <3>1 DEF SortsCompatible
    <3> QED BY <1>1, <2>1, <3>2, BoundIs
  <2> QED BY <2>2, <2>3 DEF Fits
<1>4. ASSUME NEW i \in 1..Len(A), NEW j \in 1..Len(A), Distinct(st, es[i], es[j])
      PROVE  Apart(w, S[i], S[j]) /\ Apart(w, S[j], S[i])
  <2>1. Apart(w, w.mean[es[i]].tree, w.mean[es[j]].tree)
    BY <1>1, <1>4, ApartIs
  <2> QED BY <1>1, <2>1 DEF Apart
<1>5. ASSUME NEW i \in 1..Len(A), NEW k \in BoundBefore(A, i), A[i].bound \/ BitOf(A, k) \notin A[i].deps
      PROVE  Apart(w, S[i], S[k])
  <2>1. k \in 1..(i - 1) /\ k \in 1..Len(A)
    BY <1>1 DEF BoundBefore
  <2>2. Distinct(st, es[k], es[i])
    BY <1>5, <2>1 DEF DisjointIn
  <2> QED BY <1>4, <2>1, <2>2
<1>6. ASSUME NEW i \in 1..Len(A), A[i].bound, NEW j \in 1..(i - 1)
      PROVE  Apart(w, S[i], S[j])
  <2>1. j \in 1..Len(A)
    BY <1>1
  <2>2. Distinct(st, es[j], es[i])
    BY <1>6 DEF DisjointIn
  <2> QED BY <1>4, <2>1, <2>2
<1> QED BY <1>2, <1>3, <1>5, <1>6 DEF Allowed

(* The unifier returns to Thm, with the hypotheses it has popped in P. *)
ThmCall(f, st, w, A, code, es, e, us, uh, uc, tr, P) ==
  /\ Grows(f.terms, st, w) /\ Covers(f.terms, st) /\ OnlyVarsBound(st)
  /\ AddrsGood(st, es) /\ Len(es) = Len(A) /\ FitIn(st, A, es) /\ DisjointIn(st, A, es)
  /\ ExprIn(st, e) /\ Ended(us, uc)
  /\ Trace(f.terms, code, st, es, e, us, uh, uc, tr)
  /\ \A k \in DOMAIN tr : code[k].op # "Dummy"
  /\ \A k \in DOMAIN tr : code[k].op = "Hyp" => w.mean[tr[k]].tree \in P

(* Then the conclusion is provable.                                        *)
LEMMA ThmApplies ==
  ASSUME NEW f, NEW ns, NEW nt, NEW st, StoreGood(st, f, ns, nt), NEW w, NEW t \in DOMAIN w.thms,
         NEW A \in Seq(Type), A = w.thms[t].args, NEW code, code = w.thms[t].unify,
         NEW C, NEW H \in SUBSET w.trees, NEW P, P = Derivable(w, C, H),
         NEW es, NEW e, NEW us, NEW uh, NEW uc, NEW tr,
         ThmCall(f, st, w, A, code, es, e, us, uh, uc, tr, P)
  PROVE  w.mean[e].tree \in P
<1>0. /\ Grows(f.terms, st, w) /\ Covers(f.terms, st) /\ OnlyVarsBound(st)
      /\ AddrsGood(st, es) /\ Len(es) = Len(A) /\ FitIn(st, A, es) /\ DisjointIn(st, A, es)
      /\ ExprIn(st, e) /\ Ended(us, uc)
      /\ Trace(f.terms, code, st, es, e, us, uh, uc, tr)
      /\ \A k \in DOMAIN tr : code[k].op # "Dummy"
      /\ \A k \in DOMAIN tr : code[k].op = "Hyp" => w.mean[tr[k]].tree \in P
  BY DEF ThmCall
<1> USE <1>0
<1>8. PICK T : Said(w, code, tr, T)
  BY DEF Said
<1>9. PICK S : Trees(w, es, S)
  BY DEF Trees
<1>12. PICK K : Pushed(w, code, tr, K)
  BY DEF Pushed
<1>10. EndIn(f, ns, nt, st, w, code, es, e, us, uh, uc, tr)
  BY DEF EndIn
<1>11. K \subseteq P
  BY <1>12 DEF Pushed
<1>1. ReadingOf(w, code, T, S, w.mean[e].tree, K)
  BY <1>8, <1>9, <1>10, <1>12, EndReading
<1>2. Allowed(w, A, S) /\ S \in [1..Len(A) -> w.trees]
  BY <1>9, AllowedIs
<1>3. Complete(f.terms, code) /\ w.terms = f.terms /\ IsWorld(w)
  BY EndComplete, StoreIsTidy DEF Grows
<1>4. ~Has(code, "Dummy")
  BY EndReads DEF Has
<1> DEFINE r == <<Conclusion(w.terms, code, T), HypsOf(w.terms, code, T)>>
<1>5. r \in Instances(w, t)
  <2>1. \E s \in [1..Len(A) -> w.trees] : Refers(code, s, T) /\ Allowed(w, A, s)
    BY <1>1, <1>2 DEF ReadingOf
  <2> QED BY <1>1, <1>3, <1>4, <2>1 DEF Instances, ReadingOf
<1>6. r[1] = w.mean[e].tree /\ r[2] \subseteq P
  BY <1>1, <1>11 DEF ReadingOf
<1>7. w.mean[e].tree \in w.trees
  BY CellsInWorld
<1> HIDE DEF r
<1> QED BY <1>3, <1>5, <1>6, <1>7, ProofRules

(* Different bound variables stand for different trees. *)
LEMMA DifferentTrees ==
  ASSUME NEW f, NEW ns, NEW nt, NEW st, StoreGood(st, f, ns, nt), NEW w, Grows(f.terms, st, w),
         OnlyVarsBound(st), NEW nb, Numbered(st, nb),
         NEW a, NEW b, ExprIn(st, a), ExprIn(st, b), BoundVar(st[a]), BoundVar(st[b]),
         Distinct(st, a, b)
  PROVE  w.mean[a].tree # w.mean[b].tree
<1>1. st[a].type.deps # {}
  BY DEF Numbered, ExprIn
<1>2. a # b
  BY <1>1 DEF Distinct
<1>3. w.mean[a].tree = VarTree(a) /\ w.mean[b].tree = VarTree(b)
  BY CellsInWorld DEF BoundVar
<1>4. VarTree(a).at = a /\ VarTree(b).at = b
  BY TreeParts
<1> QED BY <1>2, <1>3, <1>4

(* The dummies of a reading V are bound variables of the sorts declared,   *)
(* apart from the arguments and from each other.                           *)
FreshDummies(w, x, code, V) ==
  LET Dummies == {k \in Reading(code) : code[k].op = "Dummy"} IN
  \A k \in Dummies :
    /\ IsBoundVar(w, V[k]) /\ SortOf(w, V[k]) = code[k].data
    /\ \A i \in DOMAIN x.args : Apart(w, V[k], x.args[i])
    /\ \A j \in Dummies \ {k} : V[k] # V[j]

(* Then its conclusion is an unfolding.                                    *)
LEMMA UnfoldingHas ==
  ASSUME NEW w, NEW x, x.tag = "term", w.terms[x.id].isdef,
         NEW code, code = w.terms[x.id].unify, ~Has(code, "Hyp"), Complete(w.terms, code),
         NEW T \in Readings(w.terms, code, w.trees), Refers(code, x.args, T), FreshDummies(w, x, code, T)
  PROVE  <<x, Conclusion(w.terms, code, T)>> \in Unfoldings(w, x)
<1> DEFINE def == w.terms[x.id].unify
           Dummies == {k \in Reading(def) : def[k].op = "Dummy"}
           Fresh(V) == \A k \in Dummies :
             /\ IsBoundVar(w, V[k]) /\ SortOf(w, V[k]) = def[k].data
             /\ \A i \in DOMAIN x.args : Apart(w, V[k], x.args[i])
             /\ \A j \in Dummies \ {k} : V[k] # V[j]
           Chosen == {V \in Readings(w.terms, def, w.trees) : Refers(def, x.args, V) /\ Fresh(V)}
<1>1. /\ ~Has(def, "Hyp") /\ Complete(w.terms, def)
      /\ T \in Readings(w.terms, def, w.trees) /\ Refers(def, x.args, T)
  OBVIOUS
<1>2. FreshDummies(w, x, def, T)
  OBVIOUS
<1>3. Fresh(T)
  BY <1>2 DEF FreshDummies
<1>4. T \in Chosen
  <2> HIDE DEF Fresh, def
  <2> QED BY <1>1, <1>3
<1>5. Unfoldings(w, x) = {<<x, Conclusion(w.terms, def, V)>> : V \in Chosen}
  BY <1>1 DEF Unfoldings
<1>6. <<x, Conclusion(w.terms, def, T)>> \in Unfoldings(w, x)
  <2> HIDE DEF Chosen, def
  <2> QED BY <1>4, <1>5
<1> QED BY <1>6

(* The unifier returns to Unfold. *)
UnfoldCall(f, st, w, nb, code, s, e, us, uh, uc, tr) ==
  /\ Grows(f.terms, st, w) /\ Covers(f.terms, st) /\ OnlyVarsBound(st) /\ Numbered(st, nb)
  /\ AddrsGood(st, s) /\ ExprIn(st, e) /\ Ended(us, uc)
  /\ Trace(f.terms, code, st, s, e, us, uh, uc, tr)
  /\ \A k \in DOMAIN tr : code[k].op # "Hyp"

(* Then the target is an unfolding.                                        *)
LEMMA UnfoldApplies ==
  ASSUME NEW f, NEW ns, NEW nt, NEW st, StoreGood(st, f, ns, nt), NEW w, NEW nb,
         NEW p, ExprIn(st, p), st[p].tag = "term", f.terms[st[p].id].isdef,
         NEW code, code = f.terms[st[p].id].unify, NEW s, s = st[p].args,
         NEW C, C = Convertible(w), NEW e, NEW us, NEW uh, NEW uc, NEW tr,
         UnfoldCall(f, st, w, nb, code, s, e, us, uh, uc, tr)
  PROVE  <<w.mean[p].tree, w.mean[e].tree>> \in C
<1>0. /\ Grows(f.terms, st, w) /\ Covers(f.terms, st) /\ OnlyVarsBound(st) /\ Numbered(st, nb)
      /\ AddrsGood(st, s) /\ ExprIn(st, e) /\ Ended(us, uc)
      /\ Trace(f.terms, code, st, s, e, us, uh, uc, tr)
  BY DEF UnfoldCall
<1> USE <1>0
<1>18. \A k \in DOMAIN tr : code[k].op # "Hyp"
  BY DEF UnfoldCall
<1> DEFINE x == w.mean[p].tree
           Dummies == {k \in Reading(code) : code[k].op = "Dummy"}
<1>1. /\ IsWorld(w) /\ w.terms = f.terms /\ x \in w.trees /\ w.mean[e].tree \in w.trees
      /\ x = TreeOf(st[p], w.mean)
  BY CellsInWorld DEF Grows
<1>2. s \in Seq(Nat) /\ DOMAIN s = 1..Len(s) /\ \A i \in 1..Len(s) : ExprIn(st, s[i])
  BY DEF AddrsGood
<1>3. x.tag = "term" /\ x.id = st[p].id /\ Trees(w, s, x.args)
  <2> DEFINE xs == [i \in DOMAIN s |-> w.mean[s[i]].tree]
  <2>1. x = TermTree(st[p].id, xs)
    BY <1>1 DEF TreeOf
  <2> HIDE DEF xs, x
  <2>2. x.tag = "term" /\ x.id = st[p].id /\ x.args = xs
    BY <2>1, TreeParts
  <2> QED BY <1>2, <2>2 DEF Trees, xs
<1> HIDE DEF x
<1>4. PICK T : Said(w, code, tr, T)
  BY DEF Said
<1>5. PICK K : Pushed(w, code, tr, K)
  BY DEF Pushed
<1>6. EndIn(f, ns, nt, st, w, code, s, e, us, uh, uc, tr)
  BY DEF EndIn
<1>7. ReadingOf(w, code, T, x.args, w.mean[e].tree, K)
  BY <1>3, <1>4, <1>5, <1>6, EndReading
<1>8. /\ Commands(code) = DOMAIN tr /\ DOMAIN tr = 1..Len(tr) /\ Len(tr) \in Nat
      /\ Reading(code) = {k \in DOMAIN tr : code[k].op # "Hyp"}
  <2>1. /\ Commands(code) = DOMAIN tr /\ DOMAIN tr = 1..Len(tr) /\ tr \in Seq(Nat)
        /\ Reading(code) = {k \in DOMAIN tr : code[k].op # "Hyp"}
    BY EndReads, SMTT(30)
  <2> QED BY <2>1
<1>9. Complete(f.terms, code) /\ ~Has(code, "Hyp")
  BY <1>8, <1>18, EndComplete, StoreIsTidy DEF Has
<1>15. \A k \in Dummies : k \in Reading(code) /\ code[k].op = "Dummy"
  OBVIOUS
<1>16. TraceCells(st, code, s, tr) /\ \A k \in Reading(code) : T[k] = w.mean[tr[k]].tree
  BY <1>4 DEF Trace, Said
<1>17. \A k \in Reading(code) : k \in DOMAIN tr
  BY <1>8
<1>19. Grows(f.terms, st, w) /\ Covers(f.terms, st) /\ OnlyVarsBound(st) /\ Numbered(st, nb)
  OBVIOUS
<1> HIDE <1>0
<1> HIDE DEF Dummies
<1>10. ASSUME NEW k \in Dummies
       PROVE  /\ k \in DOMAIN tr /\ T[k] = w.mean[tr[k]].tree /\ ExprIn(st, tr[k])
              /\ BoundVar(st[tr[k]]) /\ st[tr[k]].type.sort = code[k].data
              /\ \A i \in DOMAIN s : Distinct(st, s[i], tr[k])
              /\ \A i \in 1..(k - 1) : code[i].op = "Dummy" => Distinct(st, tr[i], tr[k])
  <2>1. k \in DOMAIN tr /\ T[k] = w.mean[tr[k]].tree /\ code[k].op = "Dummy"
    BY <1>15, <1>16, <1>17
  <2>2. CellChecked(st, code, s, tr, k)
    BY <1>16, <2>1 DEF TraceCells
  <2>3. ExprIn(st, tr[k])
    BY <2>2, Zenon DEF CellChecked
  <2>4. /\ BoundVar(st[tr[k]]) /\ st[tr[k]].type.sort = code[k].data
        /\ \A i \in DOMAIN s : Distinct(st, s[i], tr[k])
        /\ \A i \in 1..(k - 1) : code[i].op = "Dummy" => Distinct(st, tr[i], tr[k])
    BY <2>1, <2>2, Zenon DEF CellChecked
  <2> QED BY <2>1, <2>3, <2>4, Zenon
<1>11. ASSUME NEW k \in Dummies
       PROVE  /\ IsBoundVar(w, T[k]) /\ SortOf(w, T[k]) = code[k].data
              /\ \A i \in DOMAIN x.args : Apart(w, T[k], x.args[i])
  <2>1. IsBoundVar(w, T[k])
    BY <1>10, <1>19, BoundIs DEF BoundVar
  <2>2. SortOf(w, T[k]) = code[k].data
    BY <1>10, <1>19, CellsInWorld
  <2>3. ASSUME NEW i \in DOMAIN x.args PROVE Apart(w, T[k], x.args[i])
    <3>1. i \in DOMAIN s /\ x.args[i] = w.mean[s[i]].tree
      BY <1>2, <1>3 DEF Trees
    <3>2. Distinct(st, tr[k], s[i])
      BY <1>10, <3>1 DEF Distinct
    <3>3. Apart(w, w.mean[tr[k]].tree, w.mean[s[i]].tree)
      BY <1>2, <1>10, <1>19, <3>1, <3>2, ApartIs
    <3> QED BY <1>10, <3>1, <3>3
  <2> QED BY <2>1, <2>2, <2>3
<1>12. ASSUME NEW k \in Dummies, NEW j \in Dummies \ {k}
       PROVE  T[k] # T[j]
  <2>1. Distinct(st, tr[k], tr[j])
    <3>1. k \in Nat /\ j \in Nat /\ k >= 1 /\ j >= 1 /\ k # j
      <4>1. k \in 1..Len(tr) /\ j \in 1..Len(tr)
        BY <1>8, <1>15, <1>17
      <4> QED BY <4>1
    <3>4. \A i \in 1..(j - 1) : code[i].op = "Dummy" => Distinct(st, tr[i], tr[j])
      BY <1>10
    <3>5. \A i \in 1..(k - 1) : code[i].op = "Dummy" => Distinct(st, tr[i], tr[k])
      BY <1>10
    <3>6. code[k].op = "Dummy" /\ code[j].op = "Dummy"
      BY <1>15
    <3>2. CASE k < j
      <4>1. k \in 1..(j - 1)
        BY <3>1, <3>2
      <4> QED BY <3>4, <3>6, <4>1
    <3>3. CASE j < k
      <4>1. j \in 1..(k - 1)
        BY <3>1, <3>3
      <4> QED BY <3>5, <3>6, <4>1 DEF Distinct
    <3> QED BY <3>1, <3>2, <3>3
  <2>2. w.mean[tr[k]].tree # w.mean[tr[j]].tree
    <3>1. /\ ExprIn(st, tr[k]) /\ BoundVar(st[tr[k]])
          /\ ExprIn(st, tr[j]) /\ BoundVar(st[tr[j]])
      BY <1>10, Zenon
    <3> QED BY <1>19, <2>1, <3>1, DifferentTrees
  <2> QED BY <1>10, <2>2, Zenon
<1>13. <<x, w.mean[e].tree>> \in Unfoldings(w, x)
  <2>1. FreshDummies(w, x, code, T)
    BY <1>11, <1>12 DEF FreshDummies, Dummies
  <2>2. code = w.terms[x.id].unify /\ w.terms[x.id].isdef /\ x.tag = "term"
    BY <1>1, <1>3
  <2>3. T \in Readings(w.terms, code, w.trees) /\ Refers(code, x.args, T)
    BY <1>7 DEF ReadingOf
  <2>4. Complete(w.terms, code) /\ ~Has(code, "Hyp")
    BY <1>1, <1>9
  <2>5. <<x, Conclusion(w.terms, code, T)>> \in Unfoldings(w, x)
    BY <2>1, <2>2, <2>3, <2>4, UnfoldingHas
  <2> QED BY <1>7, <2>5 DEF ReadingOf
<1>14. <<x, w.mean[e].tree>> \in C
  BY <1>1, <1>13, ConversionRules
<1> QED BY <1>14 DEF x

-----------------------------------------------------------------------------
(* The stack of a proof, in a world *)

Claims(w, C, P, s, k) ==
  /\ s[k].tag = "proof" => w.mean[s[k].at].tree \in P
  /\ s[k].tag = "conv" => PairAt(w, s, k) \in C

(* The obligations of s above slot m. *)
MetAbove(w, C, s, m) == \A j \in DOMAIN s : j > m /\ s[j].tag = "coconv" => PairAt(w, s, j) \in C

LEMMA HoldsIs ==
  ASSUME NEW w, NEW C, NEW P, NEW s \in Seq(Item)
  PROVE  /\ \A k \in 0..Len(s) : Met(w, C, s, k) <=> MetAbove(w, C, s, k)
         /\ StackHolds(w, C, P, s) <=>
              \A k \in DOMAIN s : MetAbove(w, C, s, k) => Claims(w, C, P, s, k)
<1>1. Len(s) \in Nat /\ DOMAIN s = 1..Len(s)
  OBVIOUS
<1>2. ASSUME NEW k \in 0..Len(s) PROVE Met(w, C, s, k) <=> MetAbove(w, C, s, k)
  <2>1. \A j : j \in (k + 1)..Len(s) <=> j \in DOMAIN s /\ j > k
    BY <1>1
  <2> QED BY <2>1, Zenon DEF Met, MetAbove
<1>3. \A k \in DOMAIN s : k \in 0..Len(s)
  BY <1>1
<1>4. \A k \in DOMAIN s : Met(w, C, s, k) <=> MetAbove(w, C, s, k)
  BY <1>2, <1>3
<1> QED BY <1>2, <1>4, Zenon DEF StackHolds, Claims

(* What is above slot m is replaced.  When the new obligations there imply *)
(* the old ones, and what the new slots claim, the stack holds as before.  *)
LEMMA HoldsReplace ==
  ASSUME NEW w, NEW C, NEW P, NEW s \in Seq(Item), NEW t \in Seq(Item), StackHolds(w, C, P, s),
         Paired(s), NEW m \in Nat, m <= Len(s), m <= Len(t), \A i \in 1..m : t[i] = s[i],
         MetAbove(w, C, t, m) => MetAbove(w, C, s, m),
         \A k \in DOMAIN t : k > m /\ MetAbove(w, C, t, k) => Claims(w, C, P, t, k)
  PROVE  StackHolds(w, C, P, t)
<1>1. /\ Len(s) \in Nat /\ DOMAIN s = 1..Len(s) /\ Len(t) \in Nat /\ DOMAIN t = 1..Len(t)
  OBVIOUS
<1>2. \A k \in 1..m : s[k].tag \in {"conv", "coconv"} => PairAt(w, t, k) = PairAt(w, s, k)
  <2> SUFFICES ASSUME NEW k \in 1..m, s[k].tag \in {"conv", "coconv"}
               PROVE  PairAt(w, t, k) = PairAt(w, s, k)
    OBVIOUS
  <2>1. k \in DOMAIN s
    BY <1>1
  <2>2. k > 1
    BY <2>1 DEF Paired
  <2>3. k - 1 \in 1..m
    BY <2>2
  <2> QED BY <2>3 DEF PairAt
<1>3. ASSUME NEW k \in DOMAIN t, MetAbove(w, C, t, k) PROVE Claims(w, C, P, t, k)
  <2>1. CASE k > m
    BY <1>3, <2>1
  <2>2. CASE k \in 1..m
    <3>1. MetAbove(w, C, t, m)
      BY <1>1, <1>3, <2>2 DEF MetAbove
    <3>2. MetAbove(w, C, s, m)
      BY <3>1
    <3>3. MetAbove(w, C, s, k)
      <4> SUFFICES ASSUME NEW j \in DOMAIN s, j > k, s[j].tag = "coconv"
                   PROVE  PairAt(w, s, j) \in C
        BY DEF MetAbove
      <4>1. CASE j > m
        BY <3>2, <4>1 DEF MetAbove
      <4>2. CASE j <= m
        <5>1. j \in 1..m /\ j \in DOMAIN t /\ t[j] = s[j]
          BY <1>1, <4>2
        <5>2. PairAt(w, t, j) \in C
          BY <1>3, <5>1 DEF MetAbove
        <5> QED BY <1>2, <5>1, <5>2
      <4> QED BY <1>1, <4>1, <4>2
    <3>4. k \in DOMAIN s /\ t[k] = s[k]
      BY <1>1, <2>2
    <3>5. Claims(w, C, P, s, k)
      BY <3>3, <3>4, HoldsIs
    <3> QED BY <1>2, <2>2, <3>4, <3>5 DEF Claims
  <2> QED BY <1>1, <2>1, <2>2
<1> QED BY <1>3, HoldsIs

(* The same, when d elements are popped and es is pushed.                  *)
LEMMA HoldsPush ==
  ASSUME NEW w, NEW C, NEW P, NEW s \in Seq(Item), StackHolds(w, C, P, s), Paired(s),
         NEW d \in 0..Len(s), NEW es \in Seq(Item), Paired(es),
         MetAbove(w, C, es, 0) =>
           \A j \in DOMAIN s : j > Len(s) - d /\ s[j].tag = "coconv" => PairAt(w, s, j) \in C,
         \A k \in DOMAIN es : MetAbove(w, C, es, k) => Claims(w, C, P, es, k)
  PROVE  StackHolds(w, C, P, SubSeq(s, 1, Len(s) - d) \o es)
<1> DEFINE r == SubSeq(s, 1, Len(s) - d)
           t == r \o es
           m == Len(s) - d
<1>1. /\ Len(s) \in Nat /\ DOMAIN s = 1..Len(s) /\ Len(es) \in Nat /\ DOMAIN es = 1..Len(es)
      /\ m \in Nat /\ m <= Len(s)
  OBVIOUS
<1>2. r \in Seq(Item) /\ Len(r) = m /\ \A i \in 1..m : r[i] = s[i]
  BY PrefixFacts
<1> HIDE DEF r, m
<1>3. /\ t \in Seq(Item) /\ Len(t) = m + Len(es) /\ DOMAIN t = 1..(m + Len(es))
      /\ \A i \in 1..m : t[i] = s[i]
      /\ \A i \in (m + 1)..(m + Len(es)) : i - m \in 1..Len(es) /\ t[i] = es[i - m]
  <2>1. r \in Seq(Item) /\ es \in Seq(Item) /\ t = r \o es /\ Len(r) = m
    BY <1>2
  <2>2. /\ r \o es \in Seq(Item)
        /\ Len(r \o es) = Len(r) + Len(es)
        /\ DOMAIN (r \o es) = 1..(Len(r) + Len(es))
        /\ \A i \in 1..Len(r) : (r \o es)[i] = r[i]
        /\ \A i \in (Len(r) + 1)..(Len(r) + Len(es)) :
             i - Len(r) \in 1..Len(es) /\ (r \o es)[i] = es[i - Len(r)]
    <3>1. r \in Seq(Item) /\ es \in Seq(Item)
      BY <2>1
    <3> HIDE DEF t
    <3> QED BY <3>1, ConcatFacts
  <2> HIDE DEF t
  <2>3. \A i \in 1..m : t[i] = s[i]
    BY <1>2, <2>1, <2>2
  <2> QED BY <2>1, <2>2, <2>3
<1> HIDE DEF t
<1>4. \A i \in 1..Len(es) : m + i \in DOMAIN t /\ t[m + i] = es[i]
  <2> SUFFICES ASSUME NEW i \in 1..Len(es) PROVE m + i \in DOMAIN t /\ t[m + i] = es[i]
    OBVIOUS
  <2>1. m + i \in (m + 1)..(m + Len(es)) /\ (m + i) - m = i /\ m + i \in 1..(m + Len(es))
    BY <1>1
  <2>2. t[m + i] = es[(m + i) - m]
    BY <1>3, <2>1
  <2> QED BY <1>3, <2>1, <2>2
<1>5. ASSUME NEW i \in DOMAIN es, es[i].tag \in {"conv", "coconv"}
      PROVE  PairAt(w, t, m + i) = PairAt(w, es, i)
  <2>1. i > 1
    BY <1>5 DEF Paired
  <2>2. i - 1 \in 1..Len(es) /\ m + (i - 1) = (m + i) - 1
    BY <1>1, <2>1
  <2>3. t[(m + i) - 1] = es[i - 1] /\ t[m + i] = es[i]
    BY <1>1, <1>4, <2>2
  <2> QED BY <2>3 DEF PairAt
<1>6. ASSUME NEW k \in 0..Len(es), MetAbove(w, C, t, m + k) PROVE MetAbove(w, C, es, k)
  <2> SUFFICES ASSUME NEW i \in DOMAIN es, i > k, es[i].tag = "coconv" PROVE PairAt(w, es, i) \in C
    BY DEF MetAbove
  <2>1. m + i > m + k /\ m + i \in DOMAIN t /\ t[m + i] = es[i]
    BY <1>1, <1>4
  <2>2. PairAt(w, t, m + i) \in C
    BY <1>6, <2>1 DEF MetAbove
  <2> QED BY <1>5, <2>2
<1>7. MetAbove(w, C, t, m) => MetAbove(w, C, s, m)
  <2>1. 0 \in 0..Len(es) /\ m + 0 = m
    BY <1>1
  <2>2. MetAbove(w, C, t, m) => MetAbove(w, C, es, 0)
    BY <1>6, <2>1
  <2> QED BY <2>2 DEF MetAbove, m
<1>8. ASSUME NEW k \in DOMAIN t, k > m, MetAbove(w, C, t, k) PROVE Claims(w, C, P, t, k)
  <2> DEFINE i == k - m
  <2>1. i \in DOMAIN es /\ i \in 0..Len(es) /\ m + i = k
    BY <1>1, <1>3, <1>8
  <2> HIDE DEF i
  <2>2. MetAbove(w, C, es, i) /\ t[k] = es[i]
    BY <1>1, <1>4, <1>6, <1>8, <2>1
  <2>3. Claims(w, C, P, es, i)
    BY <2>1, <2>2
  <2>4. es[i].tag \in {"conv", "coconv"} => PairAt(w, t, k) = PairAt(w, es, i)
    BY <1>5, <2>1
  <2> QED BY <2>2, <2>3, <2>4 DEF Claims
<1>9. m <= Len(t)
  BY <1>1, <1>3
<1>10. StackHolds(w, C, P, t)
  BY <1>1, <1>3, <1>7, <1>8, <1>9, HoldsReplace
<1> QED BY <1>10 DEF t, r

(* Popping what is no obligation.                                          *)
LEMMA HoldsDrop ==
  ASSUME NEW w, NEW C, NEW P, NEW s \in Seq(Item), StackHolds(w, C, P, s), Paired(s),
         NEW d \in 0..Len(s),
         \A j \in DOMAIN s : j > Len(s) - d /\ s[j].tag = "coconv" => PairAt(w, s, j) \in C
  PROVE  StackHolds(w, C, P, SubSeq(s, 1, Len(s) - d))
<1> DEFINE r == SubSeq(s, 1, Len(s) - d)
<1>1. r \in Seq(Item)
  BY PrefixFacts
<1>2. StackHolds(w, C, P, r \o <<>>)
  <2> DEFINE es == <<>>
  <2>1. es \in Seq(Item) /\ DOMAIN es = {}
    OBVIOUS
  <2> HIDE DEF es
  <2>2. Paired(es) /\ \A k \in DOMAIN es : MetAbove(w, C, es, k) => Claims(w, C, P, es, k)
    BY <2>1 DEF Paired
  <2>3. StackHolds(w, C, P, r \o es)
    BY <2>1, <2>2, HoldsPush
  <2> QED BY <2>3 DEF es
<1> HIDE DEF r
<1>3. r \o <<>> = r
  BY <1>1
<1> QED BY <1>2, <1>3 DEF r

(* The claim of the top slot holds outright.                               *)
LEMMA TopHolds ==
  ASSUME NEW w, NEW C, NEW P, NEW s \in Seq(Item), StackHolds(w, C, P, s), Len(s) > 0
  PROVE  Claims(w, C, P, s, Len(s))
<1>1. Len(s) \in DOMAIN s /\ \A j \in DOMAIN s : ~(j > Len(s))
  OBVIOUS
<1>2. MetAbove(w, C, s, Len(s))
  BY <1>1 DEF MetAbove
<1> QED BY <1>1, <1>2, HoldsIs

-----------------------------------------------------------------------------
(* The commands of a proof, in a world *)

(* C and P are closed under the rules, but for the theorems.               *)
Closed(w, C, P) ==
  /\ \A x \in w.trees : <<x, x>> \in C
  /\ \A x, y \in w.trees : <<y, x>> \in C => <<x, y>> \in C
  /\ \A x, y, z \in w.trees : <<x, z>> \in C /\ <<z, y>> \in C => <<x, y>> \in C
  /\ \A x, y \in w.trees :
       (/\ x.tag = "term" /\ y.tag = "term" /\ x.id = y.id
        /\ \A i \in DOMAIN x.args : <<x.args[i], y.args[i]>> \in C)
         => <<x, y>> \in C
  /\ \A x \in w.trees : \A y \in P : <<x, y>> \in C => x \in P

(* The state is as it should be, in a world that its store may grow to.    *)
HoldsNow(w, C, P) ==
  /\ Grows(file.terms, store, w) /\ Closed(w, C, P)
  /\ StackHolds(w, C, P, stack) /\ HeapHolds(w, C, P, heap)

LEMMA NowFacts ==
  ASSUME IndInv, NEW w, NEW C, NEW P, HoldsNow(w, C, P)
  PROVE  /\ stack \in Seq(Item) /\ Paired(stack) /\ Len(stack) \in Nat /\ DOMAIN stack = 1..Len(stack)
         /\ StackHolds(w, C, P, stack) /\ StackInv /\ Closed(w, C, P)
         /\ \A a : ExprIn(store, a) =>
              /\ w.mean[a].tree \in w.trees
              /\ store[a].tag = "term" => w.mean[a].tree = TreeOf(store[a], w.mean)
         /\ \A k \in DOMAIN stack : ExprIn(store, stack[k].at)
<1>1. StackInv /\ StoreGood(store, file, nsorts, nterms)
  BY DEF IndInv, StoreInv
<1>2. \A a : ExprIn(store, a) =>
        /\ w.mean[a].tree \in w.trees
        /\ store[a].tag = "term" => w.mean[a].tree = TreeOf(store[a], w.mean)
  BY <1>1, CellsInWorld DEF HoldsNow
<1> QED BY <1>1, <1>2 DEF HoldsNow, StackInv, StackGood

(* An obligation and its second expression are popped for es.              *)
LEMMA HoldsObliged ==
  ASSUME IndInv, NEW w, NEW C, NEW P, HoldsNow(w, C, P), Tags(<<"expr", "coconv">>),
         NEW es \in Seq(Item), Paired(es),
         MetAbove(w, C, es, 0) => <<w.mean[Top(1).at].tree, w.mean[Top(2).at].tree>> \in C,
         \A k \in DOMAIN es : MetAbove(w, C, es, k) => Claims(w, C, P, es, k)
  PROVE  StackHolds(w, C, P, Drop(2) \o es)
<1>1. /\ stack \in Seq(Item) /\ Paired(stack) /\ Len(stack) \in Nat /\ DOMAIN stack = 1..Len(stack)
      /\ StackHolds(w, C, P, stack) /\ StackInv
  BY NowFacts
<1>2. 2 \in 0..Len(stack) /\ Top(1).tag = "coconv" /\ Top(2).tag = "expr"
  BY <1>1, TagsTwo
<1>3. Top(1) = stack[Len(stack)] /\ Top(2) = stack[Len(stack) - 1]
  BY <1>1 DEF Top
<1>4. \A j \in DOMAIN stack : j > Len(stack) - 2 /\ stack[j].tag = "coconv" =>
        PairAt(w, stack, j) = <<w.mean[Top(1).at].tree, w.mean[Top(2).at].tree>>
  <2> SUFFICES ASSUME NEW j \in DOMAIN stack, j > Len(stack) - 2, stack[j].tag = "coconv"
               PROVE  PairAt(w, stack, j) = <<w.mean[Top(1).at].tree, w.mean[Top(2).at].tree>>
    OBVIOUS
  <2>1. j = Len(stack) \/ j = Len(stack) - 1
    BY <1>1
  <2>2. j = Len(stack)
    BY <1>2, <1>3, <2>1
  <2> QED BY <1>3, <2>2 DEF PairAt
<1>5. MetAbove(w, C, es, 0) =>
        \A j \in DOMAIN stack : j > Len(stack) - 2 /\ stack[j].tag = "coconv" => PairAt(w, stack, j) \in C
  BY <1>4
<1> QED BY <1>1, <1>2, <1>5, HoldsPush DEF Drop

LEMMA ItemFacts ==
  ASSUME NEW a \in Nat
  PROVE  /\ Expr(a) \in Item /\ Expr(a).tag = "expr" /\ Expr(a).at = a
         /\ Proof(a) \in Item /\ Proof(a).tag = "proof" /\ Proof(a).at = a
         /\ Conv(a) \in Item /\ Conv(a).tag = "conv" /\ Conv(a).at = a
         /\ CoConv(a) \in Item /\ CoConv(a).tag = "coconv" /\ CoConv(a).at = a
  BY DEF Item, Expr, Proof, Conv, CoConv

(* The two expressions of an obligation on top of the stack.               *)
LEMMA ObligedFacts ==
  ASSUME IndInv, NEW w, NEW C, NEW P, HoldsNow(w, C, P), Tags(<<"expr", "coconv">>)
  PROVE  /\ Top(1).at \in Nat /\ Top(2).at \in Nat
         /\ ExprIn(store, Top(1).at) /\ ExprIn(store, Top(2).at)
         /\ w.mean[Top(1).at].tree \in w.trees /\ w.mean[Top(2).at].tree \in w.trees
         /\ Closed(w, C, P)
<1>1. StackInv
  BY NowFacts
<1>2. Top(1) \in Item /\ Top(2) \in Item /\ ExprIn(store, Top(1).at) /\ ExprIn(store, Top(2).at)
  BY <1>1, TagsTwo
<1> QED BY <1>2, NowFacts DEF Item

(* An obligation that holds is popped.                                     *)
LEMMA ObligationMet ==
  ASSUME IndInv, NEW w, NEW C, NEW P, HoldsNow(w, C, P), Tags(<<"expr", "coconv">>),
         <<w.mean[Top(1).at].tree, w.mean[Top(2).at].tree>> \in C
  PROVE  StackHolds(w, C, P, Drop(2))
<1> DEFINE es == <<>>
<1>1. es \in Seq(Item) /\ DOMAIN es = {}
  OBVIOUS
<1>2. Drop(2) \o es = Drop(2)
  <2>1. stack \in Seq(Item) /\ 2 \in 0..Len(stack)
    BY NowFacts, TagsTwo
  <2>2. Drop(2) \in Seq(Item)
    BY <2>1, PrefixFacts DEF Drop
  <2> QED BY <2>2
<1> HIDE DEF es
<1>3. Paired(es) /\ \A k \in DOMAIN es : MetAbove(w, C, es, k) => Claims(w, C, P, es, k)
  BY <1>1 DEF Paired
<1>4. StackHolds(w, C, P, Drop(2) \o es)
  BY <1>1, <1>3, HoldsObliged
<1> QED BY <1>2, <1>4

LEMMA ReflHolds ==
  ASSUME IndInv, NEW w, NEW C, NEW P, HoldsNow(w, C, P), ProofRefl
  PROVE  StackHolds(w, C, P, stack')
<1>1. Tags(<<"expr", "coconv">>) /\ Top(1).at = Top(2).at /\ stack' = Drop(2)
  BY DEF ProofRefl
<1>2. <<w.mean[Top(1).at].tree, w.mean[Top(2).at].tree>> \in C
  BY <1>1, ObligedFacts DEF Closed
<1> QED BY <1>1, <1>2, ObligationMet

(* An obligation that the one pushed implies is popped.                    *)
LEMMA ObligationReplaced ==
  ASSUME IndInv, NEW w, NEW C, NEW P, HoldsNow(w, C, P), Tags(<<"expr", "coconv">>),
         NEW a \in Nat, NEW b \in Nat,
         <<w.mean[b].tree, w.mean[a].tree>> \in C =>
           <<w.mean[Top(1).at].tree, w.mean[Top(2).at].tree>> \in C
  PROVE  StackHolds(w, C, P, Drop(2) \o <<Expr(a), CoConv(b)>>)
<1> DEFINE es == <<Expr(a), CoConv(b)>>
<1>1. /\ es \in Seq(Item) /\ DOMAIN es = {1, 2}
      /\ es[1].tag = "expr" /\ es[1].at = a /\ es[2].tag = "coconv" /\ es[2].at = b
  BY ItemFacts
<1> HIDE DEF es
<1>2. Paired(es) /\ \A k \in DOMAIN es : MetAbove(w, C, es, k) => Claims(w, C, P, es, k)
  BY <1>1 DEF Paired, Claims
<1>3. MetAbove(w, C, es, 0) => <<w.mean[b].tree, w.mean[a].tree>> \in C
  <2>1. PairAt(w, es, 2) = <<w.mean[b].tree, w.mean[a].tree>>
    BY <1>1 DEF PairAt
  <2> QED BY <1>1, <2>1 DEF MetAbove
<1> QED BY <1>1, <1>2, <1>3, HoldsObliged DEF es

LEMMA SymmHolds ==
  ASSUME IndInv, NEW w, NEW C, NEW P, HoldsNow(w, C, P), ProofSymm
  PROVE  StackHolds(w, C, P, stack')
<1>1. Tags(<<"expr", "coconv">>) /\ stack' = Drop(2) \o <<Expr(Top(1).at), CoConv(Top(2).at)>>
  BY DEF ProofSymm, PushOn
<1>2. <<w.mean[Top(2).at].tree, w.mean[Top(1).at].tree>> \in C =>
        <<w.mean[Top(1).at].tree, w.mean[Top(2).at].tree>> \in C
  BY <1>1, ObligedFacts DEF Closed
<1> QED BY <1>1, <1>2, ObligedFacts, ObligationReplaced

LEMMA ConvCutHolds ==
  ASSUME IndInv, NEW w, NEW C, NEW P, HoldsNow(w, C, P), ProofConvCut
  PROVE  StackHolds(w, C, P, stack')
<1> DEFINE a == Top(1).at
           b == Top(2).at
           es == <<Expr(b), Conv(a), Expr(b), CoConv(a)>>
<1>1. Tags(<<"expr", "coconv">>) /\ stack' = Drop(2) \o es
  BY DEF ProofConvCut, PushOn
<1>2. a \in Nat /\ b \in Nat
  BY <1>1, ObligedFacts
<1> HIDE DEF a, b
<1>3. /\ es \in Seq(Item) /\ DOMAIN es = {1, 2, 3, 4}
      /\ es[1].tag = "expr" /\ es[1].at = b /\ es[2].tag = "conv" /\ es[2].at = a
      /\ es[3].tag = "expr" /\ es[3].at = b /\ es[4].tag = "coconv" /\ es[4].at = a
  BY <1>2, ItemFacts
<1> HIDE DEF es
<1>4. PairAt(w, es, 2) = <<w.mean[a].tree, w.mean[b].tree>> /\ PairAt(w, es, 4) = <<w.mean[a].tree, w.mean[b].tree>>
  BY <1>3 DEF PairAt
<1>5. \A k \in 0..3 : MetAbove(w, C, es, k) => <<w.mean[a].tree, w.mean[b].tree>> \in C
  BY <1>3, <1>4 DEF MetAbove
<1>6. Paired(es)
  BY <1>3 DEF Paired
<1>7. \A k \in DOMAIN es : MetAbove(w, C, es, k) => Claims(w, C, P, es, k)
  <2>1. MetAbove(w, C, es, 2) => PairAt(w, es, 2) \in C
    BY <1>4, <1>5
  <2> QED BY <1>3, <2>1 DEF Claims
<1>8. MetAbove(w, C, es, 0) => <<w.mean[a].tree, w.mean[b].tree>> \in C
  BY <1>5
<1> QED BY <1>1, <1>3, <1>6, <1>7, <1>8, HoldsObliged DEF a, b

(* A proof is popped for a proof that an obligation makes one of.          *)
LEMMA ConvHolds ==
  ASSUME IndInv, NEW w, NEW C, NEW P, HoldsNow(w, C, P), ProofConv
  PROVE  StackHolds(w, C, P, stack')
<1> DEFINE b == Top(1).at
           a == Top(2).at
           es == <<Proof(a), Expr(b), CoConv(a)>>
<1>1. Tags(<<"expr", "proof">>) /\ stack' = Drop(2) \o es
  BY DEF ProofConv, PushOn
<1>9. /\ stack \in Seq(Item) /\ Paired(stack) /\ Len(stack) \in Nat /\ DOMAIN stack = 1..Len(stack)
      /\ StackHolds(w, C, P, stack) /\ StackInv /\ Closed(w, C, P)
  BY NowFacts
<1>10. /\ 2 \in 0..Len(stack) /\ Top(1) \in Item /\ Top(2) \in Item
       /\ Top(1).tag = "proof" /\ Top(2).tag = "expr" /\ ExprIn(store, a) /\ ExprIn(store, b)
  BY <1>1, <1>9, TagsTwo
<1>2. a \in Nat /\ b \in Nat /\ w.mean[a].tree \in w.trees
  BY <1>10, NowFacts DEF Item
<1>11. Top(1) = stack[Len(stack)] /\ Top(2) = stack[Len(stack) - 1]
  BY <1>9 DEF Top
<1>12. w.mean[b].tree \in P
  <2>1. Claims(w, C, P, stack, Len(stack))
    BY <1>9, <1>10, TopHolds
  <2> QED BY <1>10, <1>11, <2>1 DEF Claims
<1>13. <<w.mean[a].tree, w.mean[b].tree>> \in C => w.mean[a].tree \in P
  BY <1>2, <1>9, <1>12 DEF Closed
<1>14. \A j \in DOMAIN stack : j > Len(stack) - 2 => stack[j].tag # "coconv"
  <2> SUFFICES ASSUME NEW j \in DOMAIN stack, j > Len(stack) - 2 PROVE stack[j].tag # "coconv"
    OBVIOUS
  <2>1. j = Len(stack) \/ j = Len(stack) - 1
    BY <1>9
  <2> QED BY <1>10, <1>11, <2>1
<1> HIDE DEF a, b
<1>3. /\ es \in Seq(Item) /\ DOMAIN es = {1, 2, 3}
      /\ es[1].tag = "proof" /\ es[1].at = a /\ es[2].tag = "expr" /\ es[2].at = b
      /\ es[3].tag = "coconv" /\ es[3].at = a
  BY <1>2, ItemFacts
<1> HIDE DEF es
<1>4. PairAt(w, es, 3) = <<w.mean[a].tree, w.mean[b].tree>>
  BY <1>3 DEF PairAt
<1>5. MetAbove(w, C, es, 1) => <<w.mean[a].tree, w.mean[b].tree>> \in C
  BY <1>3, <1>4 DEF MetAbove
<1>6. Paired(es)
  BY <1>3 DEF Paired
<1>7. \A k \in DOMAIN es : MetAbove(w, C, es, k) => Claims(w, C, P, es, k)
  <2>1. MetAbove(w, C, es, 1) => w.mean[es[1].at].tree \in P
    BY <1>3, <1>5, <1>13
  <2> QED BY <1>3, <2>1 DEF Claims
<1> QED BY <1>1, <1>3, <1>6, <1>7, <1>9, <1>10, <1>14, HoldsPush DEF Drop

(* Where Cong pushes the i-th of n obligations.                            *)
LEMMA CongSlots ==
  ASSUME NEW n \in Nat, NEW i \in 1..n
  PROVE  /\ 2 * (n - i + 1) \in 1..(2 * n) /\ (2 * (n - i + 1)) % 2 = 0
         /\ 2 * (n - i + 1) - 1 \in 1..(2 * n) /\ (2 * (n - i + 1) - 1) % 2 = 1
         /\ n - ((2 * (n - i + 1) - 1) \div 2) = i
         /\ n - (((2 * (n - i + 1) - 1) - 1) \div 2) = i
<1>1. PICK j \in Nat : j = n - i
  OBVIOUS
<1>2. 2 * (n - i + 1) = 2 * j + 2 /\ 2 * (n - i + 1) - 1 = 2 * j + 1 /\ (2 * (n - i + 1) - 1) - 1 = 2 * j
  BY <1>1
<1>3. (2 * j + 2) % 2 = 0 /\ (2 * j + 1) % 2 = 1 /\ (2 * j + 1) \div 2 = j /\ (2 * j) \div 2 = j
  BY <1>1
<1>4. n - j = i /\ 2 * j + 2 \in 1..(2 * n) /\ 2 * j + 1 \in 1..(2 * n)
  BY <1>1
<1> QED BY <1>2, <1>3, <1>4

LEMMA CongHolds ==
  ASSUME IndInv, NEW w, NEW C, NEW P, HoldsNow(w, C, P), ProofCong
  PROVE  StackHolds(w, C, P, stack')
<1> DEFINE e1 == store[Top(1).at]
           e2 == store[Top(2).at]
           n == Len(e1.args)
           Arg(k) == n - ((k - 1) \div 2)
           es == [k \in 1..(2 * n) |->
                   IF k % 2 = 1 THEN Expr(e2.args[Arg(k)]) ELSE CoConv(e1.args[Arg(k)])]
           x == w.mean[Top(1).at].tree
           y == w.mean[Top(2).at].tree
<1>1. /\ Tags(<<"expr", "coconv">>) /\ stack' = Drop(2) \o es
      /\ e1.tag = "term" /\ e2.tag = "term" /\ e1.id = e2.id
  BY DEF ProofCong, PushOn
<1>2. /\ ExprIn(store, Top(1).at) /\ ExprIn(store, Top(2).at)
      /\ x \in w.trees /\ y \in w.trees /\ Closed(w, C, P)
  BY <1>1, ObligedFacts
<1>3. x = TreeOf(e1, w.mean) /\ y = TreeOf(e2, w.mean)
  BY <1>1, <1>2, NowFacts
<1>4. /\ e1.args \in Seq(Nat) /\ n \in Nat /\ Len(e2.args) = n /\ DOMAIN e1.args = 1..n /\ DOMAIN e2.args = 1..n
      /\ \A i \in 1..n : e1.args[i] \in Nat /\ e2.args[i] \in Nat
  <2>1. StoreInv /\ TheoryInv
    BY DEF IndInv
  <2>2. /\ e1.args \in Seq(Nat) /\ Len(e1.args) = Len(file.terms[e1.id].args)
        /\ \A i \in 1..Len(e1.args) : ExprIn(store, e1.args[i]) /\ e1.args[i] \in Nat
    BY <1>1, <1>2, <2>1, TermCell
  <2>3. /\ e2.args \in Seq(Nat) /\ Len(e2.args) = Len(file.terms[e2.id].args)
        /\ \A i \in 1..Len(e2.args) : ExprIn(store, e2.args[i]) /\ e2.args[i] \in Nat
    BY <1>1, <1>2, <2>1, TermCell
  <2> HIDE DEF e1, e2
  <2>4. Len(e1.args) = Len(e2.args) /\ Len(e1.args) \in Nat
    <3>1. e1.id = e2.id
      BY <1>1
    <3> QED BY <2>2, <2>3, <3>1
  <2> QED BY <2>2, <2>3, <2>4
<1> HIDE DEF e1, e2, n
<1>5. /\ x.tag = "term" /\ y.tag = "term" /\ x.id = y.id /\ DOMAIN x.args = 1..n
      /\ \A i \in 1..n : x.args[i] = w.mean[e1.args[i]].tree /\ y.args[i] = w.mean[e2.args[i]].tree
  <2> DEFINE xs == [i \in DOMAIN e1.args |-> w.mean[e1.args[i]].tree]
             ys == [i \in DOMAIN e2.args |-> w.mean[e2.args[i]].tree]
  <2>1. x = TermTree(e1.id, xs) /\ y = TermTree(e2.id, ys)
    BY <1>3 DEF TreeOf
  <2>4. DOMAIN xs = 1..n /\ \A i \in 1..n : xs[i] = w.mean[e1.args[i]].tree /\ ys[i] = w.mean[e2.args[i]].tree
    BY <1>4
  <2> HIDE DEF xs, ys, x, y
  <2>2. x.tag = "term" /\ x.id = e1.id /\ x.args = xs /\ y.tag = "term" /\ y.id = e2.id /\ y.args = ys
    BY <2>1, TreeParts
  <2> QED BY <1>1, <2>2, <2>4
<1> HIDE DEF x, y
<1>6. \A k \in 1..(2 * n) : Arg(k) \in 1..n
  BY <1>4
<1>7. 2 * n \in Nat /\ es \in [1..(2 * n) -> Item] /\ DOMAIN es = 1..(2 * n)
  BY <1>4, <1>6 DEF Item, Expr, CoConv
<1>8. es \in Seq(Item)
  <2>1. PICK N : N \in Nat /\ es \in [1..N -> Item]
    BY <1>7
  <2> HIDE DEF es
  <2> QED BY <2>1, SeqDef, Zenon
<1>9. /\ \A k \in 1..(2 * n) : k % 2 = 1 => es[k].tag = "expr"
      /\ \A k \in 1..(2 * n) : k % 2 # 1 => es[k].tag = "coconv"
  BY DEF Expr, CoConv
<1>10. \A i \in 1..n :
         LET k == 2 * (n - i + 1)
         IN  /\ k \in 1..(2 * n) /\ es[k].tag = "coconv" /\ es[k].at = e1.args[i]
             /\ es[k - 1].at = e2.args[i]
  <2> SUFFICES ASSUME NEW i \in 1..n
               PROVE  LET k == 2 * (n - i + 1)
                      IN  /\ k \in 1..(2 * n) /\ es[k].tag = "coconv" /\ es[k].at = e1.args[i]
                          /\ es[k - 1].at = e2.args[i]
    OBVIOUS
  <2> DEFINE k == 2 * (n - i + 1)
             l == k - 1
  <2>1. k \in 1..(2 * n) /\ k % 2 = 0 /\ l \in 1..(2 * n) /\ l % 2 = 1 /\ Arg(k) = i /\ Arg(l) = i
    BY <1>4, CongSlots
  <2> HIDE DEF k, l
  <2>2. es[k] = CoConv(e1.args[i])
    <3>1. es[k] = CoConv(e1.args[Arg(k)])
      <4>1. k % 2 # 1
        BY <2>1
      <4> HIDE DEF Arg
      <4> QED BY <2>1, <4>1
    <3> QED BY <2>1, <3>1
  <2>3. es[l] = Expr(e2.args[i])
    <3>1. es[l] = Expr(e2.args[Arg(l)])
      <4> HIDE DEF Arg
      <4> QED BY <2>1
    <3> QED BY <2>1, <3>1
  <2> HIDE DEF es, Arg
  <2>4. es[k].tag = "coconv" /\ es[k].at = e1.args[i] /\ es[l].at = e2.args[i]
    BY <1>4, <2>2, <2>3, ItemFacts
  <2> QED BY <2>1, <2>4 DEF k, l
<1> HIDE DEF es, Arg
<1>11. Paired(es)
  <2>1. ASSUME NEW k \in 1..(2 * n), es[k].tag \in {"conv", "coconv"}
        PROVE  k > 1 /\ es[k - 1].tag = "expr"
    <3>1. k % 2 # 1
      BY <1>9, <2>1
    <3>2. k \in Nat /\ k >= 1 /\ k <= 2 * n
      BY <1>7
    <3>3. k # 1 /\ (k - 1) % 2 = 1 /\ k - 1 \in 1..(2 * n)
      BY <1>7, <3>1, <3>2
    <3> QED BY <1>9, <3>2, <3>3
  <2> QED BY <1>7, <2>1 DEF Paired
<1>12. \A k \in DOMAIN es : Claims(w, C, P, es, k)
  BY <1>7, <1>9 DEF Claims
<1>13. ASSUME MetAbove(w, C, es, 0) PROVE <<x, y>> \in C
  <2>1. \A i \in 1..n : <<x.args[i], y.args[i]>> \in C
    <3> SUFFICES ASSUME NEW i \in 1..n PROVE <<x.args[i], y.args[i]>> \in C
      OBVIOUS
    <3>1. PICK k \in 1..(2 * n) : es[k].tag = "coconv" /\ es[k].at = e1.args[i] /\ es[k - 1].at = e2.args[i]
      BY <1>10
    <3>2. k \in DOMAIN es /\ k > 0
      BY <1>7
    <3>3. PairAt(w, es, k) \in C
      BY <1>13, <3>1, <3>2 DEF MetAbove
    <3> QED BY <1>5, <3>1, <3>3 DEF PairAt
  <2> QED BY <1>2, <1>5, <2>1 DEF Closed
<1> QED BY <1>1, <1>8, <1>11, <1>12, <1>13, HoldsObliged DEF x, y

(* Popping what is no obligation, and pushing what is no conversion.       *)
LEMMA HoldsItem ==
  ASSUME NEW w, NEW C, NEW P, NEW s \in Seq(Item), StackHolds(w, C, P, s), Paired(s),
         NEW d \in 0..Len(s), \A j \in DOMAIN s : j > Len(s) - d => s[j].tag # "coconv",
         NEW x \in Item, x.tag \in {"expr", "proof"}, x.tag = "proof" => w.mean[x.at].tree \in P
  PROVE  StackHolds(w, C, P, SubSeq(s, 1, Len(s) - d) \o <<x>>)
<1> DEFINE es == <<x>>
<1>1. es \in Seq(Item) /\ DOMAIN es = {1} /\ es[1] = x
  OBVIOUS
<1> HIDE DEF es
<1>2. Paired(es) /\ \A k \in DOMAIN es : MetAbove(w, C, es, k) => Claims(w, C, P, es, k)
  BY <1>1 DEF Paired, Claims
<1>3. StackHolds(w, C, P, SubSeq(s, 1, Len(s) - d) \o es)
  BY <1>1, <1>2, HoldsPush
<1> QED BY <1>3 DEF es

(* The same on top of the stack as it is.                                  *)
LEMMA HoldsTop ==
  ASSUME IndInv, NEW w, NEW C, NEW P, HoldsNow(w, C, P),
         NEW x \in Item, x.tag \in {"expr", "proof"}, x.tag = "proof" => w.mean[x.at].tree \in P
  PROVE  StackHolds(w, C, P, stack \o <<x>>)
<1>1. /\ stack \in Seq(Item) /\ Paired(stack) /\ Len(stack) \in Nat /\ DOMAIN stack = 1..Len(stack)
      /\ StackHolds(w, C, P, stack)
  BY NowFacts
<1>2. 0 \in 0..Len(stack) /\ \A j \in DOMAIN stack : j > Len(stack) - 0 => stack[j].tag # "coconv"
  BY <1>1
<1>3. StackHolds(w, C, P, SubSeq(stack, 1, Len(stack) - 0) \o <<x>>)
  BY <1>1, <1>2, HoldsItem
<1>4. SubSeq(stack, 1, Len(stack) - 0) = stack
  BY <1>1
<1> QED BY <1>3, <1>4

(* An entry of the heap whose claim holds.                                 *)
HeapClaims(w, C, P, x) ==
  /\ x.tag = "proof" => w.mean[x.at].tree \in P
  /\ x.tag = "conv" => <<w.mean[w.cells[x.at].e1].tree, w.mean[w.cells[x.at].e2].tree>> \in C

LEMMA HeapHoldsAppend ==
  ASSUME NEW w, NEW C, NEW P, NEW h \in Seq(Item), HeapHolds(w, C, P, h),
         NEW x \in Item, HeapClaims(w, C, P, x)
  PROVE  HeapHolds(w, C, P, Append(h, x))
<1> DEFINE h2 == Append(h, x)
<1>1. /\ DOMAIN h = 1..Len(h) /\ Len(h) \in Nat /\ DOMAIN h2 = 1..(Len(h) + 1)
      /\ h2[Len(h) + 1] = x /\ \A i \in 1..Len(h) : h2[i] = h[i]
  BY AppendFacts
<1> HIDE DEF h2
<1>2. \A i \in DOMAIN h2 : (i \in DOMAIN h /\ h2[i] = h[i]) \/ h2[i] = x
  BY <1>1
<1>3. \A i \in DOMAIN h : HeapClaims(w, C, P, h[i])
  BY DEF HeapHolds, HeapClaims
<1>4. \A i \in DOMAIN h2 : HeapClaims(w, C, P, h2[i])
  BY <1>2, <1>3
<1>5. HeapHolds(w, C, P, h2)
  BY <1>4 DEF HeapHolds, HeapClaims
<1> QED BY <1>5 DEF h2

(* Expressions on top of the stack.                                        *)
LEMMA TagsExprs ==
  ASSUME StackInv, NEW n \in Nat, Tags([i \in 1..n |-> "expr"])
  PROVE  n \in 0..Len(stack) /\ \A j \in DOMAIN stack : j > Len(stack) - n => stack[j].tag # "coconv"
<1> DEFINE ts == [i \in 1..n |-> "expr"]
<1>1. n \in 0..Len(stack) /\ Len(stack) \in Nat
  BY TagsMany
<1>2. ts \in [1..n -> {"expr"}]
  OBVIOUS
<1>3. ts \in Seq({"expr"}) /\ Len(ts) = n
  BY <1>2, SeqDef
<1>4. \A k \in 1..n : ts[k] = "expr"
  OBVIOUS
<1> HIDE DEF ts
<1>5. \A k \in 1..n : stack[Len(stack) - n + k].tag = "expr"
  BY <1>3, <1>4 DEF Tags, ts
<1>6. ASSUME NEW j \in DOMAIN stack, j > Len(stack) - n PROVE stack[j].tag # "coconv"
  <2>1. DOMAIN stack = 1..Len(stack)
    BY DEF StackInv, StackGood
  <2>2. PICK k \in 1..n : j = Len(stack) - n + k
    <3>1. j - (Len(stack) - n) \in 1..n /\ j = Len(stack) - n + (j - (Len(stack) - n))
      BY <1>1, <1>6, <2>1
    <3> QED BY <3>1
  <2>3. stack[j].tag = "expr"
    BY <1>5, <2>2
  <2> QED BY <2>3
<1> QED BY <1>1, <1>6

LEMMA RefHolds ==
  ASSUME IndInv, NEW w, NEW C, NEW P, HoldsNow(w, C, P), NEW i \in DOMAIN heap, ProofRef(i)
  PROVE  StackHolds(w, C, P, stack')
<1>1. HeapItemGood(store, heap[i]) /\ heap[i] \in Item
  BY DEF IndInv, HeapInv, HeapGood, HeapItemGood
<1>2. CASE heap[i].tag = "conv"
  <2>1. /\ Tags(<<"expr", "coconv">>) /\ stack' = Drop(2)
        /\ store[heap[i].at].e1 = Top(1).at /\ store[heap[i].at].e2 = Top(2).at
    BY <1>2 DEF ProofRef
  <2>2. w.cells[heap[i].at] = store[heap[i].at]
    BY <1>1, <1>2 DEF HoldsNow, Grows, Extends, HeapItemGood
  <2>3. <<w.mean[Top(1).at].tree, w.mean[Top(2).at].tree>> \in C
    BY <1>2, <2>1, <2>2 DEF HoldsNow, HeapHolds
  <2> QED BY <2>1, <2>3, ObligationMet
<1>3. CASE heap[i].tag # "conv"
  <2>1. stack' = stack \o <<heap[i]>>
    BY <1>3 DEF ProofRef, PushOn
  <2>2. heap[i].tag \in {"expr", "proof"}
    BY <1>1, <1>3 DEF Item, HeapItemGood
  <2>3. heap[i].tag = "proof" => w.mean[heap[i].at].tree \in P
    BY DEF HoldsNow, HeapHolds
  <2> QED BY <1>1, <2>1, <2>2, <2>3, HoldsTop
<1> QED BY <1>2, <1>3

LEMMA DummyHolds ==
  ASSUME IndInv, NEW w, NEW C, NEW P, HoldsNow(w, C, P), NEW s \in 1..nsorts, ProofDummy(s)
  PROVE  StackHolds(w, C, P, stack') /\ HeapHolds(w, C, P, heap')
<1>1. stack' = stack \o <<Expr(Here)>> /\ heap' = Append(heap, Expr(Here)) /\ Here \in Nat
  BY DEF ProofDummy, PushOn, PushHeap, Here, IndInv, StoreInv, StoreGood
<1>2. Expr(Here) \in Item /\ Expr(Here).tag = "expr"
  BY <1>1, ItemFacts
<1>3. heap \in Seq(Item) /\ HeapHolds(w, C, P, heap)
  BY DEF IndInv, HeapInv, HeapGood, HoldsNow
<1> HIDE DEF Here
<1> QED BY <1>1, <1>2, <1>3, HoldsTop, HeapHoldsAppend DEF HeapClaims

LEMMA TermHolds ==
  ASSUME IndInv, NEW w, NEW C, NEW P, HoldsNow(w, C, P), NEW t \in 1..nterms, NEW save \in BOOLEAN,
         ProofTerm(t, save)
  PROVE  StackHolds(w, C, P, stack') /\ HeapHolds(w, C, P, heap')
<1> DEFINE n == Len(file.terms[t].args)
<1>1. /\ stack' = Drop(n) \o <<Expr(Here)>> /\ SaveIf(save, Expr(Here)) /\ Here \in Nat
      /\ Tags([i \in 1..n |-> "expr"])
  BY DEF ProofTerm, PushOn, Here, IndInv, StoreInv, StoreGood
<1>2. Expr(Here) \in Item /\ Expr(Here).tag = "expr"
  BY <1>1, ItemFacts
<1>3. heap \in Seq(Item) /\ HeapHolds(w, C, P, heap)
  BY DEF IndInv, HeapInv, HeapGood, HoldsNow
<1>4. n \in Nat
  <2>1. t \in 1..Len(file.terms)
    BY DEF IndInv, TheoryInv
  <2>2. file.terms[t] \in TermEntry
    BY <2>1, Tables DEF IndInv
  <2> QED BY <2>2 DEF TermEntry
<1> HIDE DEF n, Here
<1>5. stack \in Seq(Item) /\ Paired(stack) /\ StackHolds(w, C, P, stack) /\ StackInv
  BY NowFacts
<1>6. n \in 0..Len(stack) /\ \A j \in DOMAIN stack : j > Len(stack) - n => stack[j].tag # "coconv"
  BY <1>1, <1>4, <1>5, TagsExprs
<1>7. StackHolds(w, C, P, stack')
  BY <1>1, <1>2, <1>5, <1>6, HoldsItem DEF Drop
<1>8. HeapHolds(w, C, P, heap')
  BY <1>1, <1>2, <1>3, HeapHoldsAppend DEF SaveIf, PushHeap, HeapClaims
<1> QED BY <1>7, <1>8

LEMMA HypHolds ==
  ASSUME IndInv, NEW w, NEW C, NEW P, HoldsNow(w, C, P), ProofHyp,
         w.mean[Top(1).at].tree \in P
  PROVE  StackHolds(w, C, P, stack') /\ HeapHolds(w, C, P, heap')
<1>1. Tags(<<"expr">>) /\ stack' = Drop(1) /\ heap' = Append(heap, Proof(Top(1).at))
  BY DEF ProofHyp, PushHeap
<1>2. stack \in Seq(Item) /\ Paired(stack) /\ StackHolds(w, C, P, stack) /\ StackInv /\ DOMAIN stack = 1..Len(stack)
  BY NowFacts
<1>3. 1 \in 0..Len(stack) /\ Len(stack) \in Nat /\ Top(1) \in Item /\ Top(1).tag = "expr"
  BY <1>1, <1>2, TagsOne
<1>4. \A j \in DOMAIN stack : j > Len(stack) - 1 => stack[j].tag # "coconv"
  <2> SUFFICES ASSUME NEW j \in DOMAIN stack, j > Len(stack) - 1 PROVE stack[j].tag # "coconv"
    OBVIOUS
  <2>1. j = Len(stack) - 1 + 1
    BY <1>2, <1>3
  <2> QED BY <1>3, <2>1 DEF Top
<1>5. StackHolds(w, C, P, stack')
  BY <1>1, <1>2, <1>3, <1>4, HoldsDrop DEF Drop
<1>6. Proof(Top(1).at) \in Item /\ Proof(Top(1).at).tag = "proof" /\ Proof(Top(1).at).at = Top(1).at
  BY <1>3, ItemFacts DEF Item
<1>7. heap \in Seq(Item) /\ HeapHolds(w, C, P, heap)
  BY DEF IndInv, HeapInv, HeapGood, HoldsNow
<1>8. HeapHolds(w, C, P, heap')
  BY <1>1, <1>6, <1>7, HeapHoldsAppend DEF HeapClaims
<1> QED BY <1>5, <1>8

(* A conversion on top of the stack is saved.                              *)
LEMMA SaveConvHolds ==
  ASSUME IndInv, NEW w, NEW C, NEW P, HoldsNow(w, C, P), Extends(store', w.cells),
         Len(stack) > 0, Top(1).tag = "conv", SaveConv
  PROVE  HeapHolds(w, C, P, heap')
<1> DEFINE x == [tag |-> "conv", e1 |-> Top(1).at, e2 |-> Top(2).at]
<1>1. store' = Append(store, x) /\ heap' = Append(heap, Conv(Here)) /\ store \in Seq(Cell) /\ Here \in Nat
  BY DEF SaveConv, Alloc, PushHeap, Here, IndInv, StoreInv, StoreGood
<1>2. x.e1 = Top(1).at /\ x.e2 = Top(2).at
  OBVIOUS
<1> HIDE DEF x
<1>3. Here \in DOMAIN store' /\ store'[Here] = x
  <2>1. store \in Seq(Cell \cup {x}) /\ x \in Cell \cup {x}
    BY <1>1
  <2> QED BY <1>1, <2>1, AppendFacts DEF Here
<1>4. w.cells[Here] = x
  BY <1>3 DEF Extends
<1>5. /\ stack \in Seq(Item) /\ Paired(stack) /\ Len(stack) \in Nat /\ DOMAIN stack = 1..Len(stack)
      /\ StackHolds(w, C, P, stack)
  BY NowFacts
<1>6. Top(1) = stack[Len(stack)] /\ Top(2) = stack[Len(stack) - 1]
  BY <1>5 DEF Top
<1>7. <<w.mean[Top(1).at].tree, w.mean[Top(2).at].tree>> \in C
  <2>1. Claims(w, C, P, stack, Len(stack))
    BY <1>5, TopHolds
  <2> QED BY <1>6, <2>1 DEF Claims, PairAt
<1>8. Conv(Here) \in Item /\ Conv(Here).tag = "conv" /\ Conv(Here).at = Here
  BY <1>1, ItemFacts
<1>9. HeapClaims(w, C, P, Conv(Here))
  BY <1>2, <1>4, <1>7, <1>8 DEF HeapClaims
<1> QED BY <1>1, <1>8, <1>9, HeapHoldsAppend DEF IndInv, HeapInv, HeapGood, HoldsNow

LEMMA ConvSaveHolds ==
  ASSUME IndInv, NEW w, NEW C, NEW P, HoldsNow(w, C, P), Extends(store', w.cells), ProofConvSave
  PROVE  StackHolds(w, C, P, stack') /\ HeapHolds(w, C, P, heap')
<1>1. Tags(<<"expr", "conv">>) /\ SaveConv /\ stack' = Drop(2)
  BY DEF ProofConvSave
<1>2. /\ stack \in Seq(Item) /\ Paired(stack) /\ Len(stack) \in Nat /\ DOMAIN stack = 1..Len(stack)
      /\ StackHolds(w, C, P, stack) /\ StackInv
  BY NowFacts
<1>3. 2 \in 0..Len(stack) /\ Top(1).tag = "conv" /\ Top(2).tag = "expr"
  BY <1>1, <1>2, TagsTwo
<1>4. Top(1) = stack[Len(stack)] /\ Top(2) = stack[Len(stack) - 1]
  BY <1>2 DEF Top
<1>5. \A j \in DOMAIN stack : j > Len(stack) - 2 => stack[j].tag # "coconv"
  <2> SUFFICES ASSUME NEW j \in DOMAIN stack, j > Len(stack) - 2 PROVE stack[j].tag # "coconv"
    OBVIOUS
  <2>1. j = Len(stack) \/ j = Len(stack) - 1
    BY <1>2
  <2> QED BY <1>3, <1>4, <2>1
<1>6. StackHolds(w, C, P, stack')
  BY <1>1, <1>2, <1>3, <1>5, HoldsDrop DEF Drop
<1>7. HeapHolds(w, C, P, heap')
  BY <1>1, <1>2, <1>3, SaveConvHolds
<1> QED BY <1>6, <1>7

LEMMA SaveHolds ==
  ASSUME IndInv, NEW w, NEW C, NEW P, HoldsNow(w, C, P), Extends(store', w.cells), ProofSave
  PROVE  StackHolds(w, C, P, stack') /\ HeapHolds(w, C, P, heap')
<1>1. Len(stack) > 0 /\ stack' = stack
  BY DEF ProofSave
<1>2. CASE Top(1).tag = "conv"
  <2>1. SaveConv
    BY <1>2 DEF ProofSave
  <2> QED BY <1>1, <1>2, <2>1, SaveConvHolds DEF HoldsNow
<1>3. CASE Top(1).tag # "conv"
  <2>1. heap' = Append(heap, Top(1))
    BY <1>3 DEF ProofSave, PushHeap
  <2>2. /\ stack \in Seq(Item) /\ Len(stack) \in Nat /\ DOMAIN stack = 1..Len(stack)
        /\ StackHolds(w, C, P, stack)
    BY NowFacts
  <2>3. Top(1) = stack[Len(stack)] /\ Len(stack) \in DOMAIN stack
    BY <1>1, <2>2 DEF Top
  <2>4. Claims(w, C, P, stack, Len(stack))
    BY <1>1, <2>2, TopHolds
  <2>5. HeapClaims(w, C, P, Top(1)) /\ Top(1) \in Item
    BY <1>3, <2>2, <2>3, <2>4 DEF Claims, HeapClaims
  <2> QED BY <1>1, <2>1, <2>5, HeapHoldsAppend DEF IndInv, HeapInv, HeapGood, HoldsNow
<1> QED BY <1>2, <1>3

(* No command takes a cell, or a hypothesis, away.                         *)
LEMMA NothingLost ==
  ASSUME IndInv, ProofStep
  PROVE  Extends(store, store') /\ Extends(hstack, hstack')
<1>1. \A S : \A s \in Seq(S) : \A x : Extends(s, Append(s, x))
  <2> SUFFICES ASSUME NEW S, NEW s \in Seq(S), NEW x PROVE Extends(s, Append(s, x))
    OBVIOUS
  <2>1. s \in Seq(S \cup {x}) /\ x \in S \cup {x}
    OBVIOUS
  <2>2. /\ Len(s) \in Nat /\ DOMAIN s = 1..Len(s) /\ DOMAIN Append(s, x) = 1..(Len(s) + 1)
        /\ \A i \in 1..Len(s) : Append(s, x)[i] = s[i]
    BY <2>1, AppendFacts
  <2> QED BY <2>2 DEF Extends
<1>2. store \in Seq(Cell) /\ hstack \in Seq(Nat)
  BY DEF IndInv, StoreInv, StoreGood, HypsInv, AddrsGood
<1>3. \A x : store' = Append(store, x) => Extends(store, store')
  BY <1>1, <1>2
<1>4. \A x : hstack' = Append(hstack, x) => Extends(hstack, hstack')
  BY <1>1, <1>2
<1>5. /\ store' = store => Extends(store, store')
      /\ hstack' = hstack => Extends(hstack, hstack')
  BY ExtendsRefl
<1>6. store' = store \/ \E x : store' = Append(store, x)
  <2>1. CASE \E s \in 1..nsorts : ProofDummy(s)
    BY <2>1 DEF ProofDummy, Alloc
  <2>2. CASE \E t \in 1..nterms, save \in BOOLEAN : ProofTerm(t, save)
    BY <2>2 DEF ProofTerm, Alloc
  <2>3. CASE ProofConvSave \/ ProofSave
    BY <2>3 DEF ProofConvSave, ProofSave, SaveConv, Alloc
  <2>4. CASE \E i \in DOMAIN heap : ProofRef(i)
    BY <2>4 DEF ProofRef
  <2>5. CASE \E t \in 1..nthms, save \in BOOLEAN : ProofThm(t, save)
    BY <2>5 DEF ProofThm
  <2>6. CASE ProofHyp \/ ProofConv \/ ProofRefl \/ ProofSymm \/ ProofCong
    BY <2>6 DEF ProofHyp, ProofConv, ProofRefl, ProofSymm, ProofCong
  <2>7. CASE ProofUnfold \/ ProofConvCut \/ ProofSorry \/ EndDef \/ EndThm
    BY <2>7 DEF ProofUnfold, ProofConvCut, ProofSorry, EndDef, EndThm, machine
  <2> QED BY <2>1, <2>2, <2>3, <2>4, <2>5, <2>6, <2>7 DEF ProofStep
<1>7. hstack' = hstack \/ \E x : hstack' = Append(hstack, x)
  <2>1. CASE \E s \in 1..nsorts : ProofDummy(s)
    BY <2>1 DEF ProofDummy
  <2>2. CASE \E t \in 1..nterms, save \in BOOLEAN : ProofTerm(t, save)
    BY <2>2 DEF ProofTerm
  <2>3. CASE ProofConvSave \/ ProofSave
    BY <2>3 DEF ProofConvSave, ProofSave
  <2>4. CASE \E i \in DOMAIN heap : ProofRef(i)
    BY <2>4 DEF ProofRef
  <2>5. CASE \E t \in 1..nthms, save \in BOOLEAN : ProofThm(t, save)
    BY <2>5 DEF ProofThm
  <2>6. CASE ProofHyp \/ ProofConv \/ ProofRefl \/ ProofSymm \/ ProofCong
    BY <2>6 DEF ProofHyp, ProofConv, ProofRefl, ProofSymm, ProofCong
  <2>7. CASE ProofUnfold \/ ProofConvCut \/ ProofSorry \/ EndDef \/ EndThm
    BY <2>7 DEF ProofUnfold, ProofConvCut, ProofSorry, EndDef, EndThm, machine
  <2> QED BY <2>1, <2>2, <2>3, <2>4, <2>5, <2>6, <2>7 DEF ProofStep
<1> QED BY <1>3, <1>4, <1>5, <1>6, <1>7

-----------------------------------------------------------------------------
(* The commands of the unifier, on a trace *)

LEMMA LastIn ==
  ASSUME NEW us \in Seq(Nat), us # <<>>
  PROVE  us[Len(us)] \in Nat /\ Len(us) \in Nat /\ Len(us) >= 1
  OBVIOUS

(* The next command is the head of what is left of the stream.             *)
LEMMA NextCommand ==
  ASSUME NEW terms, NEW code, NEW st, NEW s, NEW e, NEW us, NEW uh, NEW uc, NEW tr,
         Trace(terms, code, st, s, e, us, uh, uc, tr), uc # <<>>,
         NEW n, n = Pending(terms, code), NEW q, q = Len(tr) + 1
  PROVE  /\ q \in 1..Len(code) /\ Head(uc) = code[q] /\ code[q] \in UnifyCmd
         /\ tr \in Seq(Nat) /\ us \in Seq(Nat) /\ TraceParts(terms, n, st, code, e, us, tr)
         /\ n[q + 1] = n[q] + (IF code[q].op = "Hyp" THEN 1 ELSE Arity(terms, code[q]) - 1)
<1>1. /\ TraceParts(terms, n, st, code, e, us, tr) /\ tr \in Seq(Nat) /\ us \in Seq(Nat)
      /\ code \in Seq(UnifyCmd) /\ uc \in Seq(UnifyCmd)
      /\ Len(uc) + Len(tr) = Len(code) /\ \A k \in 1..Len(uc) : uc[k] = code[Len(tr) + k]
  BY DEF Trace, TraceParts
<1>2. Len(uc) \in Nat /\ Len(tr) \in Nat /\ Len(code) \in Nat /\ Len(uc) >= 1 /\ Head(uc) = uc[1]
  BY <1>1
<1>3. q \in 1..Len(code) /\ Head(uc) = code[q]
  BY <1>1, <1>2
<1>4. code[q] \in UnifyCmd
  BY <1>1, <1>3
<1>5. n[q + 1] = n[q] + (IF code[q].op = "Hyp" THEN 1 ELSE Arity(terms, code[q]) - 1)
  BY <1>2, <1>3, PendingIs
<1> QED BY <1>1, <1>3, <1>4, <1>5

LEMMA TraceNext ==
  ASSUME NEW terms, NEW code, NEW st, NEW s, NEW e, NEW us, NEW uh, NEW uc, NEW tr,
         Trace(terms, code, st, s, e, us, uh, uc, tr), uc # <<>>,
         NEW n, n = Pending(terms, code), NEW us2, NEW uh2, NEW x \in Nat,
         TraceParts(terms, n, st, code, e, us2, Append(tr, x)),
         TraceHeap(code, s, uh2, Append(tr, x)),
         CellChecked(st, code, s, Append(tr, x), Len(tr) + 1)
  PROVE  Trace(terms, code, st, s, e, us2, uh2, Tail(uc), Append(tr, x))
<1> DEFINE t2 == Append(tr, x)
           u2 == Tail(uc)
<1>1. /\ tr \in Seq(Nat) /\ TraceCells(st, code, s, tr)
      /\ code \in Seq(UnifyCmd) /\ uc \in Seq(UnifyCmd)
      /\ Len(uc) + Len(tr) = Len(code) /\ \A k \in 1..Len(uc) : uc[k] = code[Len(tr) + k]
  BY DEF Trace, TraceParts
<1>2. /\ u2 \in Seq(UnifyCmd) /\ Len(u2) = Len(uc) - 1 /\ Len(uc) \in Nat /\ Len(uc) >= 1
      /\ \A k \in 1..(Len(uc) - 1) : u2[k] = uc[k + 1]
  BY <1>1
<1>3. Len(t2) = Len(tr) + 1 /\ Len(tr) \in Nat
  BY <1>1, AppendFacts
<1>4. TraceCells(st, code, s, t2)
  BY <1>1, CellsNext
<1> HIDE DEF t2, u2
<1>5. Len(u2) + Len(t2) = Len(code)
  <2>1. Len(uc) \in Nat /\ Len(tr) \in Nat
    BY <1>1
  <2>2. (Len(uc) - 1) + (Len(tr) + 1) = Len(uc) + Len(tr)
    BY <2>1
  <2> QED BY <1>1, <1>2, <1>3, <2>2
<1>6. ASSUME NEW k \in 1..Len(u2) PROVE u2[k] = code[Len(t2) + k]
  <2>1. u2[k] = uc[k + 1] /\ k + 1 \in 1..Len(uc) /\ Len(tr) + (k + 1) = Len(t2) + k
    BY <1>2, <1>3
  <2> QED BY <1>1, <2>1
<1>7. TraceParts(terms, n, st, code, e, us2, t2) /\ TraceHeap(code, s, uh2, t2)
  BY DEF t2
<1>8. Trace(terms, code, st, s, e, us2, uh2, u2, t2)
  BY <1>1, <1>2, <1>4, <1>5, <1>6, <1>7 DEF Trace
<1> QED BY <1>8 DEF t2, u2

(* The start of a call.                                                    *)
LEMMA TraceStart ==
  ASSUME NEW terms, NEW code \in Seq(UnifyCmd), NEW st, NEW s \in Seq(Nat), NEW e \in Nat,
         NEW uh, uh = [i \in DOMAIN s |-> [at |-> s[i], saved |-> FALSE]]
  PROVE  Trace(terms, code, st, s, e, <<e>>, uh, code, <<>>)
<1> DEFINE n == Pending(terms, code)
           tr == <<>>
           us == <<e>>
<1>1. n[1] = 1
  BY PendingIs
<1>2. /\ tr \in Seq(Nat) /\ Len(tr) = 0 /\ DOMAIN tr = {}
      /\ us \in Seq(Nat) /\ Len(us) = 1 /\ us[1] = e /\ DOMAIN us = {1}
  OBVIOUS
<1> HIDE DEF n, tr, us
<1>3. TraceParts(terms, n, st, code, e, us, tr)
  <2>1. Len(us) = n[Len(tr) + 1]
    BY <1>1, <1>2
  <2>2. ASSUME NEW j \in 0..Len(tr), NEW l, NEW x, IsPart(terms, n, st, code, e, tr, j, l, x)
        PROVE  Due(n, code, us, tr, j, l, x)
    <3>1. j = 0
      BY <1>2
    <3>2. l = 1 /\ x = e
      BY <2>2, <3>1 DEF IsPart
    <3> QED BY <1>2, <3>2 DEF Due
  <2> QED BY <1>2, <2>1, <2>2 DEF TraceParts
<1>4. TraceHeap(code, s, uh, tr)
  <2> DEFINE K == {i \in DOMAIN tr : Saves(code[i])}
  <2>1. K = {}
    BY <1>2
  <2>2. Cardinality(K) = 0
    BY <2>1, FS_EmptySet
  <2>3. Len(s) \in Nat /\ DOMAIN s = 1..Len(s)
    OBVIOUS
  <2>4. DOMAIN uh = 1..Len(s) /\ \A i \in DOMAIN s : i \in DOMAIN uh /\ uh[i] = [at |-> s[i], saved |-> FALSE]
    BY <2>3
  <2>5. Len(uh) = Len(s)
    BY <2>3, <2>4
  <2> HIDE DEF K
  <2>6. Len(uh) = Len(s) + Cardinality(K)
    BY <2>2, <2>3, <2>5
  <2>7. DOMAIN uh \ DOMAIN s = {}
    BY <2>3, <2>4
  <2> QED BY <1>2, <2>4, <2>6, <2>7 DEF TraceHeap, K
<1>5. TraceCells(st, code, s, tr)
  BY <1>2 DEF TraceCells
<1>6. Len(code) + Len(tr) = Len(code) /\ \A k \in 1..Len(code) : code[k] = code[Len(tr) + k]
  BY <1>2
<1>7. Trace(terms, code, st, s, e, us, uh, code, tr)
  BY <1>3, <1>4, <1>5, <1>6 DEF Trace, n
<1> QED BY <1>7 DEF us, tr

(* A command that reads the top of the stack and has no arguments.         *)
LEMMA LeafRead ==
  ASSUME NEW terms, NEW code, NEW st, NEW s, NEW e, NEW us, NEW uh, NEW uc, NEW tr,
         Trace(terms, code, st, s, e, us, uh, uc, tr), uc # <<>>,
         NEW n, n = Pending(terms, code), Head(uc).op \in {"Ref", "Dummy"}, us # <<>>,
         NEW us2, us2 = SubSeq(us, 1, Len(us) - 1)
  PROVE  TraceParts(terms, n, st, code, e, us2, Append(tr, us[Len(us)]))
<1> DEFINE q == Len(tr) + 1
<1>1. /\ code[q].op \in {"Ref", "Dummy"} /\ us \in Seq(Nat) /\ TraceParts(terms, n, st, code, e, us, tr)
      /\ n[q + 1] = n[q] + (IF code[q].op = "Hyp" THEN 1 ELSE Arity(terms, code[q]) - 1)
  BY NextCommand
<1> HIDE DEF q
<1>2. code[q].op # "Hyp" /\ ~IsTerm(code[q]) /\ Arity(terms, code[q]) = 0
  BY <1>1 DEF Arity, IsTerm
<1>3. n[q + 1] = n[q] + (0 - 1)
  BY <1>1, <1>2
<1>4. Len(us) \in Nat /\ Len(us) >= 1 /\ 1 \in 0..Len(us)
  BY <1>1
<1>6. us2 \in Seq(Nat) /\ Len(us2) = Len(us) - 1 /\ \A l \in 1..(Len(us) - 1) : us2[l] = us[l]
  BY <1>1, <1>4, PrefixFacts
<1>5. us2 \in Seq(Nat) /\ Len(us2) = Len(us) - 1 + 0 /\ \A l \in 1..(Len(us) - 1) : us2[l] = us[l]
  BY <1>4, <1>6
<1> QED BY <1>1, <1>2, <1>3, <1>4, <1>5, PartsRead DEF q

LEMMA TraceRef ==
  ASSUME NEW terms, NEW code, NEW st, NEW s, NEW e, NEW us, NEW uh, NEW uc, NEW tr,
         Trace(terms, code, st, s, e, us, uh, uc, tr), uc # <<>>,
         Head(uc).op = "Ref", us # <<>>, NEW x, x = us[Len(us)], ExprIn(st, x),
         Head(uc).data \in DOMAIN uh, x = uh[Head(uc).data].at,
         NEW us2, us2 = SubSeq(us, 1, Len(us) - 1)
  PROVE  Trace(terms, code, st, s, e, us2, uh, Tail(uc), Append(tr, x))
<1> DEFINE n == Pending(terms, code)
           q == Len(tr) + 1
           t2 == Append(tr, x)
<1>1. /\ Head(uc) = code[q] /\ us \in Seq(Nat) /\ tr \in Seq(Nat)
  BY NextCommand
<1>2. TraceParts(terms, n, st, code, e, us2, t2)
  BY LeafRead
<1>3. x \in Nat /\ TraceHeap(code, s, uh, tr)
  <2>1. x \in Nat
    BY <1>1, LastIn, Zenon
  <2> QED BY <2>1 DEF Trace
<1> HIDE DEF n
<1>4. TraceHeap(code, s, uh, t2)
  BY <1>1, <1>3, HeapKept DEF Saves
<1>5. /\ Len(tr) \in Nat /\ DOMAIN tr = 1..(q - 1) /\ t2[q] = x /\ \A j \in DOMAIN tr : t2[j] = tr[j]
  BY <1>1, <1>3, AppendFacts
<1> HIDE DEF t2, q
<1>6. CellChecked(st, code, s, t2, q)
  <2> DEFINE d == code[q].data
  <2>1. d \in DOMAIN uh /\ x = uh[d].at /\ code[q].op = "Ref"
    BY <1>1
  <2> HIDE DEF d
  <2>2. IF d \in DOMAIN s THEN t2[q] = s[d]
        ELSE \E i \in 1..(q - 1) : Fills(code, Len(s), d, i) /\ t2[q] = t2[i]
    <3>1. CASE d \in DOMAIN s
      <4>1. uh[d] = [at |-> s[d], saved |-> FALSE]
        BY <1>3, <3>1 DEF TraceHeap
      <4>2. uh[d].at = s[d]
        BY <4>1
      <4> QED BY <1>5, <2>1, <3>1, <4>2
    <3>2. CASE d \notin DOMAIN s
      <4>1. PICK i \in DOMAIN tr : Fills(code, Len(s), d, i) /\ uh[d].at = tr[i]
        BY <1>3, <2>1, <3>2 DEF TraceHeap
      <4> QED BY <1>5, <2>1, <3>2, <4>1
    <3> QED BY <3>1, <3>2
  <2> QED BY <1>5, <2>1, <2>2, Zenon DEF CellChecked, IsTerm, d
<1> QED BY <1>2, <1>3, <1>4, <1>6, TraceNext DEF t2, q, n

(* The arguments of a term replace it on the stack, the first on top.      *)
ArgsOn(us, args, us2) ==
  us2 = SubSeq(us, 1, Len(us) - 1) \o [k \in 1..Len(args) |-> args[Len(args) + 1 - k]]

ArgsTop(us, args, us2) ==
  /\ us2 \in Seq(Nat) /\ Len(us2) = Len(us) - 1 + Len(args)
  /\ \A l \in 1..(Len(us) - 1) : us2[l] = us[l]
  /\ \A i \in 1..Len(args) : us2[Len(us) + Len(args) - i] = args[i]

(* A subterm that is to be saved is on the heap.                           *)
SavedOn(c, uh, x, uh2) ==
  uh2 = IF c.op = "TermSave" THEN Append(uh, [at |-> x, saved |-> TRUE]) ELSE uh

LEMMA ArgsPushed ==
  ASSUME NEW us \in Seq(Nat), us # <<>>, NEW args \in Seq(Nat), NEW us2, ArgsOn(us, args, us2)
  PROVE  ArgsTop(us, args, us2)
<1> DEFINE ar == Len(args)
           r == SubSeq(us, 1, Len(us) - 1)
           b == [k \in 1..ar |-> args[ar + 1 - k]]
           m == Len(us) - 1
<1>1. Len(us) \in Nat /\ Len(us) >= 1 /\ 1 \in 0..Len(us) /\ m \in Nat /\ ar \in Nat
  OBVIOUS
<1>2. r \in Seq(Nat) /\ Len(r) = m /\ \A i \in 1..m : r[i] = us[i]
  BY <1>1, PrefixFacts
<1>3. \A k \in 1..ar : ar + 1 - k \in 1..ar /\ args[ar + 1 - k] \in Nat
  <2>1. \A k \in 1..ar : ar + 1 - k \in 1..ar
    BY <1>1
  <2>2. \A i \in 1..ar : args[i] \in Nat
    OBVIOUS
  <2> QED BY <2>1, <2>2
<1>4. b \in [1..ar -> Nat]
  BY <1>3
<1>5. b \in Seq(Nat) /\ Len(b) = ar
  BY <1>1, <1>4, SeqDef
<1>6. \A i \in 1..ar : b[ar + 1 - i] = args[i]
  <2> SUFFICES ASSUME NEW i \in 1..ar PROVE b[ar + 1 - i] = args[i]
    OBVIOUS
  <2>1. ar + 1 - i \in 1..ar /\ ar + 1 - (ar + 1 - i) = i
    BY <1>1
  <2>2. b[ar + 1 - i] = args[ar + 1 - (ar + 1 - i)]
    BY <2>1
  <2> QED BY <2>1, <2>2
<1>7. us2 = r \o b
  BY DEF ArgsOn
<1> HIDE DEF r, b, m
<1>8. /\ us2 \in Seq(Nat) /\ Len(us2) = m + ar
      /\ \A i \in 1..m : us2[i] = r[i]
      /\ \A i \in (m + 1)..(m + ar) : us2[i] = b[i - m]
  <2>3. r \in Seq(Nat) /\ b \in Seq(Nat)
    BY <1>2, <1>5
  <2>1. /\ r \o b \in Seq(Nat)
        /\ Len(r \o b) = Len(r) + Len(b)
        /\ DOMAIN (r \o b) = 1..(Len(r) + Len(b))
        /\ \A i \in 1..Len(r) : (r \o b)[i] = r[i]
        /\ \A i \in (Len(r) + 1)..(Len(r) + Len(b)) :
             i - Len(r) \in 1..Len(b) /\ (r \o b)[i] = b[i - Len(r)]
    BY <2>3, ConcatFacts, Zenon
  <2>2. Len(r) = m /\ Len(b) = ar
    BY <1>2, <1>5
  <2> QED BY <1>7, <2>1, <2>2, Zenon
<1>9. \A i \in 1..ar : us2[Len(us) + ar - i] = args[i]
  <2> SUFFICES ASSUME NEW i \in 1..ar PROVE us2[Len(us) + ar - i] = args[i]
    OBVIOUS
  <2> DEFINE j == Len(us) + ar - i
  <2>1. j \in (m + 1)..(m + ar) /\ j - m = ar + 1 - i
    BY <1>1 DEF m
  <2> HIDE DEF j
  <2>3. us2[j] = b[j - m]
    BY <1>8, <2>1
  <2>2. us2[j] = b[ar + 1 - i]
    BY <2>1, <2>3
  <2> QED BY <1>6, <2>2 DEF j
<1> QED BY <1>1, <1>2, <1>8, <1>9 DEF m, ArgsTop

LEMMA TraceTerm ==
  ASSUME NEW terms, NEW code, NEW st, NEW s \in Seq(Nat), NEW e, NEW us, NEW uh \in Seq(UHeapItem), NEW uc, NEW tr,
         Trace(terms, code, st, s, e, us, uh, uc, tr), uc # <<>>, Tidy(terms, st),
         IsTerm(Head(uc)), us # <<>>, NEW x, x = us[Len(us)], ExprIn(st, x),
         st[x].tag = "term", st[x].id = Head(uc).data,
         NEW ar, ar = Len(st[x].args),
         NEW us2, ArgsOn(us, st[x].args, us2), NEW uh2, SavedOn(Head(uc), uh, x, uh2)
  PROVE  Trace(terms, code, st, s, e, us2, uh2, Tail(uc), Append(tr, x))
<1> DEFINE n == Pending(terms, code)
           q == Len(tr) + 1
           t2 == Append(tr, x)
<1>1. /\ Head(uc) = code[q] /\ us \in Seq(Nat) /\ tr \in Seq(Nat)
      /\ TraceParts(terms, n, st, code, e, us, tr)
      /\ n[q + 1] = n[q] + (IF code[q].op = "Hyp" THEN 1 ELSE Arity(terms, code[q]) - 1)
  BY NextCommand
<1> HIDE DEF n
<1>2. x \in Nat /\ TraceHeap(code, s, uh, tr)
  <2>1. x \in Nat
    BY <1>1, LastIn, Zenon
  <2> QED BY <2>1 DEF Trace
<1>3. /\ Len(tr) \in Nat /\ DOMAIN tr = 1..(q - 1) /\ t2[q] = x /\ \A j \in DOMAIN tr : t2[j] = tr[j]
  BY <1>1, <1>2, AppendFacts
<1>4. st[x].args \in Seq(Nat) /\ ar = Len(terms[st[x].id].args)
  <2>1. x \in DOMAIN st /\ st \in Seq(Cell)
    BY DEF ExprIn, Tidy
  <2>2. st[x] \in Cell
    BY <2>1
  <2>3. st[x].args \in Seq(Nat)
    BY <2>2 DEF Cell
  <2> QED BY <2>1, <2>3 DEF Tidy
<1>5. /\ us2 \in Seq(Nat) /\ ar \in Nat /\ Len(us2) = Len(us) - 1 + ar
      /\ \A l \in 1..(Len(us) - 1) : us2[l] = us[l]
      /\ \A i \in 1..ar : us2[Len(us) + ar - i] = st[x].args[i]
  <2>1. ArgsTop(us, st[x].args, us2)
    BY <1>1, <1>4, ArgsPushed, Zenon
  <2>2. ar \in Nat
    BY <1>4
  <2> QED BY <2>1, <2>2 DEF ArgsTop
<1>6. IsTerm(code[q]) /\ code[q].op # "Hyp" /\ Arity(terms, code[q]) = ar
  BY <1>1, <1>4 DEF IsTerm, Arity
<1> HIDE DEF q
<1>7. TraceParts(terms, n, st, code, e, us2, t2)
  <2>2. Len(us) >= 1
    BY <1>1, LastIn
  <2>1. Len(us) >= 1 /\ n[q + 1] = n[q] + (ar - 1)
    BY <1>1, <1>6, <2>2
  <2>3. q = Len(tr) + 1 /\ t2 = Append(tr, us[Len(us)])
    BY DEF q
  <2>4. ar \in Nat /\ ar = Arity(terms, code[q])
    BY <1>5, <1>6
  <2>5. IsTerm(code[q]) => \A i \in 1..ar : us2[Len(us) + ar - i] = st[us[Len(us)]].args[i]
    BY <1>5
  <2> HIDE DEF t2
  <2>6. TraceParts(terms, n, st, code, e, us2, Append(tr, us[Len(us)]))
    BY <1>1, <1>5, <1>6, <2>1, <2>3, <2>4, <2>5, PartsRead, ZenonT(40)
  <2> QED BY <2>3, <2>6
<1>8. TraceHeap(code, s, uh2, t2)
  <2>1. CASE code[q].op = "TermSave"
    <3>1. uh2 = Append(uh, [at |-> x, saved |-> TRUE])
      BY <1>1, <2>1 DEF SavedOn
    <3>2. Saves(code[q]) /\ code[q].op # "Dummy"
      BY <2>1 DEF Saves
    <3>3. Len(s) \in Nat /\ DOMAIN s = 1..Len(s)
      OBVIOUS
    <3> QED BY <1>1, <1>2, <3>1, <3>2, <3>3, HeapSaved DEF q
  <2>2. CASE code[q].op # "TermSave"
    <3>1. uh2 = uh /\ ~Saves(code[q])
      BY <1>1, <1>6, <2>2 DEF Saves, IsTerm, SavedOn
    <3> QED BY <1>1, <1>2, <3>1, HeapKept DEF q
  <2> QED BY <2>1, <2>2
<1> HIDE DEF t2
<1>9. CellChecked(st, code, s, t2, q)
  <2>1. code[q].op \notin {"End", "Ref", "Dummy"} /\ code[q].data = st[x].id
    BY <1>1, <1>6 DEF IsTerm
  <2> QED BY <1>3, <2>1 DEF CellChecked
<1> QED BY <1>2, <1>7, <1>8, <1>9, TraceNext DEF t2, q, n

LEMMA TraceDummy ==
  ASSUME NEW terms, NEW code, NEW st, NEW s \in Seq(Nat), NEW e, NEW us, NEW uh \in Seq(UHeapItem), NEW uc, NEW tr,
         Trace(terms, code, st, s, e, us, uh, uc, tr), uc # <<>>,
         Head(uc).op = "Dummy", us # <<>>, NEW x, x = us[Len(us)], ExprIn(st, x),
         BoundVar(st[x]), st[x].type.sort = Head(uc).data,
         \A i \in DOMAIN uh : uh[i].saved \/ Distinct(st, uh[i].at, x),
         NEW us2, us2 = SubSeq(us, 1, Len(us) - 1),
         NEW uh2, uh2 = Append(uh, [at |-> x, saved |-> FALSE])
  PROVE  Trace(terms, code, st, s, e, us2, uh2, Tail(uc), Append(tr, x))
<1> DEFINE n == Pending(terms, code)
           q == Len(tr) + 1
           t2 == Append(tr, x)
<1>1. /\ Head(uc) = code[q] /\ us \in Seq(Nat) /\ tr \in Seq(Nat)
  BY NextCommand
<1>2. TraceParts(terms, n, st, code, e, us2, t2)
  BY LeafRead
<1> HIDE DEF n
<1>3. x \in Nat /\ TraceHeap(code, s, uh, tr)
  <2>1. x \in Nat
    BY <1>1, LastIn, Zenon
  <2> QED BY <2>1 DEF Trace
<1>4. TraceHeap(code, s, uh2, t2)
  <2>1. Saves(code[q]) /\ FALSE \in BOOLEAN
    BY <1>1 DEF Saves
  <2>2. Len(s) \in Nat /\ DOMAIN s = 1..Len(s)
    OBVIOUS
  <2> QED BY <1>1, <1>3, <2>1, <2>2, HeapSaved
<1>5. /\ Len(tr) \in Nat /\ DOMAIN tr = 1..(q - 1) /\ t2[q] = x /\ \A j \in DOMAIN tr : t2[j] = tr[j]
  BY <1>1, <1>3, AppendFacts
<1> HIDE DEF t2, q
<1>6. \A d \in DOMAIN uh : \A a : uh[d] = [at |-> a, saved |-> FALSE] => Distinct(st, a, x)
  <2> SUFFICES ASSUME NEW d \in DOMAIN uh, NEW a, uh[d] = [at |-> a, saved |-> FALSE]
               PROVE  Distinct(st, a, x)
    OBVIOUS
  <2>1. uh[d].at = a /\ ~uh[d].saved
    OBVIOUS
  <2> QED BY <2>1
<1>7. \A i \in DOMAIN s : Distinct(st, s[i], t2[q])
  BY <1>3, <1>5, <1>6 DEF TraceHeap
<1>8. \A i \in 1..(q - 1) : code[i].op = "Dummy" => Distinct(st, t2[i], t2[q])
  <2> SUFFICES ASSUME NEW i \in 1..(q - 1), code[i].op = "Dummy" PROVE Distinct(st, t2[i], t2[q])
    OBVIOUS
  <2>1. i \in DOMAIN tr /\ t2[i] = tr[i]
    BY <1>5
  <2>2. \E d \in DOMAIN uh : uh[d] = [at |-> tr[i], saved |-> FALSE]
    BY <1>3, <2>1 DEF TraceHeap
  <2> QED BY <1>5, <1>6, <2>1, <2>2
<1>9. CellChecked(st, code, s, t2, q)
  <2>1. code[q].op = "Dummy" /\ st[x].type.sort = code[q].data
    BY <1>1
  <2> QED BY <1>5, <1>7, <1>8, <2>1, Zenon DEF CellChecked, IsTerm
<1> QED BY <1>2, <1>3, <1>4, <1>9, TraceNext DEF t2, q, n

LEMMA TraceHyp ==
  ASSUME NEW terms, NEW code, NEW st, NEW s, NEW e, NEW us, NEW uh, NEW uc, NEW tr,
         Trace(terms, code, st, s, e, us, uh, uc, tr), uc # <<>>,
         Head(uc).op = "Hyp", NEW x \in Nat, ExprIn(st, x), NEW us2, us2 = Append(us, x)
  PROVE  Trace(terms, code, st, s, e, us2, uh, Tail(uc), Append(tr, x))
<1> DEFINE n == Pending(terms, code)
           q == Len(tr) + 1
           t2 == Append(tr, x)
<1>1. /\ Head(uc) = code[q] /\ tr \in Seq(Nat) /\ TraceParts(terms, n, st, code, e, us, tr)
      /\ n[q + 1] = n[q] + (IF code[q].op = "Hyp" THEN 1 ELSE Arity(terms, code[q]) - 1)
  BY NextCommand
<1> HIDE DEF n
<1>2. TraceParts(terms, n, st, code, e, us2, t2)
  <2>1. n[q + 1] = n[q] + 1 /\ code[q].op = "Hyp"
    BY <1>1
  <2> QED BY <1>1, <2>1, PartsHyp
<1>3. TraceHeap(code, s, uh, t2)
  <2>1. TraceHeap(code, s, uh, tr) /\ ~Saves(code[q])
    BY <1>1 DEF Trace, Saves
  <2> QED BY <1>1, <2>1, HeapKept
<1>4. t2[q] = x
  BY <1>1, AppendFacts
<1> HIDE DEF t2, q
<1>5. CellChecked(st, code, s, t2, q)
  <2>1. code[q].op = "Hyp"
    BY <1>1
  <2> QED BY <1>4, <2>1 DEF CellChecked, IsTerm
<1> QED BY <1>2, <1>3, <1>5, TraceNext DEF t2, q, n

-----------------------------------------------------------------------------
(* The invariant: what is said of a state's store, stack and heap holds in *)
(* every world that the store may still grow to, from every set of         *)
(* hypotheses with those assumed so far, so that it lasts.                 *)

Declared(f, n) == [t \in 1..n |-> f.thms[t]]

Future(f, n, st, hs, w, H) ==
  /\ Grows(f.terms, st, w) /\ w.thms = Declared(f, n)
  /\ H \in SUBSET w.trees /\ Hypotheses(w, hs) \subseteq H

(* The provable trees of a world. *)
Proved(w, H) == Derivable(w, Convertible(w), H)

Sound(w, H, s, h) ==
  StackHolds(w, Convertible(w), Proved(w, H), s) /\ HeapHolds(w, Convertible(w), Proved(w, H), h)

AlwaysSound(f, n, st, hs, s, h) == \A w, H : Future(f, n, st, hs, w, H) => Sound(w, H, s, h)

(* The unifier applies theorem t to es. *)
ThmRun(f, n, st, hs, e, us, uh, uc, t, es, tr) ==
  /\ t \in 1..n
  /\ AddrsGood(st, es) /\ Len(es) = Len(f.thms[t].args)
  /\ FitIn(st, f.thms[t].args, es) /\ DisjointIn(st, f.thms[t].args, es)
  /\ Trace(f.terms, f.thms[t].unify, st, es, e, us, uh, uc, tr)
  /\ \A k \in DOMAIN tr : f.thms[t].unify[k].op # "Dummy"
  /\ \A w, H : Future(f, n, st, hs, w, H) =>
       \A k \in DOMAIN tr : f.thms[t].unify[k].op = "Hyp" => w.mean[tr[k]].tree \in Proved(w, H)

(* The unifier unfolds the term at p. *)
UnfoldRun(f, st, e, us, uh, uc, p, tr) ==
  /\ ExprIn(st, p) /\ st[p].tag = "term" /\ f.terms[st[p].id].isdef /\ AddrsGood(st, st[p].args)
  /\ Trace(f.terms, f.terms[st[p].id].unify, st, st[p].args, e, us, uh, uc, tr)
  /\ \A k \in DOMAIN tr : f.terms[st[p].id].unify[k].op # "Hyp"

(* The unifier compares a theorem without hypotheses with its statement.   *)
NoHyp(code) == \A k \in DOMAIN code : code[k].op # "Hyp"

EndRun(f, n, st, hs, e, uc) ==
  /\ NoHyp(uc)
  /\ \A w, H : Future(f, n, st, hs, w, H) => w.mean[e].tree \in Proved(w, H)

InProof == pc = "proof" => AlwaysSound(file, nthms, store, hstack, stack, heap)

InThm ==
  (pc = "unify" /\ ucall.for = "thm") =>
    /\ AlwaysSound(file, nthms, store, hstack, stack, heap)
    /\ \E t, es, tr : ThmRun(file, nthms, store, hstack, ucall.e, ustack, uheap, ucode, t, es, tr)

InUnfold ==
  (pc = "unify" /\ ucall.for = "unfold") =>
    \E p, tr : /\ UnfoldRun(file, store, ucall.e, ustack, uheap, ucode, p, tr)
               /\ AlwaysSound(file, nthms, store, hstack, Append(stack, CoConv(p)), heap)

InEnd ==
  (pc = "unify" /\ ucall.for = "end" /\ stmt.kind = "thm" /\ NoHyp(ThmNow.unify)) =>
    EndRun(file, nthms, store, hstack, ucall.e, ucode)

LogicInv ==
  (nbv <= DepsBits /\ ResultsAreClosed /\ ~sorry) => InProof /\ InThm /\ InUnfold /\ InEnd

(* A future of what it grows to is one of what it was. *)
LEMMA FutureBefore ==
  ASSUME NEW f, NEW n, NEW st, NEW st2, Extends(st, st2), NEW hs, NEW hs2, Extends(hs, hs2),
         NEW w, NEW H, Future(f, n, st2, hs2, w, H)
  PROVE  Future(f, n, st, hs, w, H)
<1>1. Extends(st, w.cells)
  BY DEF Future, Grows, Extends
<1>2. Hypotheses(w, hs) \subseteq Hypotheses(w, hs2)
  BY DEF Hypotheses, Extends
<1> QED BY <1>1, <1>2 DEF Future, Grows

LEMMA FutureRules ==
  ASSUME NEW f, NEW n, NEW st, NEW hs, NEW w, NEW H, Future(f, n, st, hs, w, H)
  PROVE  /\ Closed(w, Convertible(w), Proved(w, H)) /\ H \subseteq Proved(w, H)
         /\ Grows(f.terms, st, w) /\ w.thms = Declared(f, n) /\ H \in SUBSET w.trees
<1>1. IsWorld(w) /\ H \in SUBSET w.trees
  BY DEF Future, Grows
<1> DEFINE C == Convertible(w)
           P == Proved(w, H)
<1>2. P = Derivable(w, C, H)
  BY DEF Proved
<1>5. C = Convertible(w)
  OBVIOUS
<1> HIDE DEF C, P
<1>3. /\ \A x \in w.trees : <<x, x>> \in C
      /\ \A x, y \in w.trees : <<y, x>> \in C => <<x, y>> \in C
      /\ \A x, y, z \in w.trees : <<x, z>> \in C /\ <<z, y>> \in C => <<x, y>> \in C
      /\ \A x, y \in w.trees :
           (/\ x.tag = "term" /\ y.tag = "term" /\ x.id = y.id
            /\ \A i \in DOMAIN x.args : <<x.args[i], y.args[i]>> \in C)
             => <<x, y>> \in C
  BY <1>1, <1>5, ConversionRules
<1>4. H \subseteq P /\ \A x \in w.trees : \A y \in P : <<x, y>> \in C => x \in P
  BY <1>1, <1>2, ProofRules
<1>6. Closed(w, C, P)
  BY <1>3, <1>4, Zenon DEF Closed
<1> QED BY <1>1, <1>4, <1>6 DEF C, P, Future

(* The proof goes on. *)
LEMMA SoundNext ==
  ASSUME IndInv, ProofStep, pc' = "proof", ~sorry', AlwaysSound(file, nthms, store, hstack, stack, heap)
  PROVE  AlwaysSound(file, nthms, store', hstack', stack', heap')
<1> SUFFICES ASSUME NEW w, NEW H, Future(file, nthms, store', hstack', w, H)
             PROVE  Sound(w, H, stack', heap')
  BY DEF AlwaysSound
<1>1. Future(file, nthms, store, hstack, w, H)
  BY NothingLost, FutureBefore
<1>2. Sound(w, H, stack, heap)
  BY <1>1 DEF AlwaysSound
<1>3. Extends(store', w.cells)
  BY DEF Future, Grows
<1>4. Closed(w, Convertible(w), Proved(w, H)) /\ H \subseteq Proved(w, H) /\ Grows(file.terms, store, w)
  BY <1>1, FutureRules
<1> DEFINE C == Convertible(w)
           P == Proved(w, H)
<1>5. HoldsNow(w, C, P)
  BY <1>2, <1>4 DEF HoldsNow, Sound
<1>6. StackHolds(w, C, P, stack) /\ HeapHolds(w, C, P, heap)
  BY <1>5 DEF HoldsNow
<1> SUFFICES StackHolds(w, C, P, stack') /\ HeapHolds(w, C, P, heap')
  BY DEF Sound
<1>7. H \subseteq P
  BY <1>4
<1> HIDE DEF C, P
<1>8. CASE \E i \in DOMAIN heap : ProofRef(i)
  <2>1. heap' = heap
    BY <1>8 DEF ProofRef
  <2> QED BY <1>5, <1>6, <1>8, <2>1, RefHolds
<1>9. CASE \E s \in 1..nsorts : ProofDummy(s)
  BY <1>5, <1>9, DummyHolds
<1>10. CASE \E t \in 1..nterms, save \in BOOLEAN : ProofTerm(t, save)
  BY <1>5, <1>10, TermHolds
<1>11. CASE ProofHyp
  <2>1. hstack' = Append(hstack, Top(1).at) /\ Tags(<<"expr">>)
    BY <1>11 DEF ProofHyp
  <2>2. hstack \in Seq(Nat) /\ Top(1).at \in Nat
    <3>1. StackInv
      BY DEF IndInv
    <3>2. Top(1) \in Item
      BY <2>1, <3>1, TagsOne
    <3> QED BY <3>2 DEF IndInv, HypsInv, AddrsGood, Item
  <2>3. Len(hstack) + 1 \in DOMAIN hstack' /\ hstack'[Len(hstack) + 1] = Top(1).at
    BY <2>1, <2>2, AppendFacts
  <2>4. w.mean[Top(1).at].tree \in Hypotheses(w, hstack')
    BY <2>3 DEF Hypotheses
  <2>5. w.mean[Top(1).at].tree \in P
    BY <1>7, <2>4 DEF Future
  <2> QED BY <1>5, <1>11, <2>5, HypHolds
<1>12. CASE ProofConv \/ ProofRefl \/ ProofSymm \/ ProofCong \/ ProofConvCut
  <2>1. heap' = heap
    BY <1>12 DEF ProofConv, ProofRefl, ProofSymm, ProofCong, ProofConvCut
  <2> QED BY <1>5, <1>6, <1>12, <2>1, ConvHolds, ReflHolds, SymmHolds, CongHolds, ConvCutHolds
<1>13. CASE ProofConvSave
  BY <1>3, <1>5, <1>13, ConvSaveHolds
<1>14. CASE ProofSave
  BY <1>3, <1>5, <1>14, SaveHolds
<1>15. ~ProofSorry
  BY DEF ProofSorry
<1>16. ~ \E t \in 1..nthms, save \in BOOLEAN : ProofThm(t, save)
  BY DEF ProofThm, RunUnify
<1>17. ~(ProofUnfold \/ EndDef \/ EndThm)
  BY DEF ProofUnfold, EndDef, EndThm, RunUnify
<1> QED
  BY <1>8, <1>9, <1>10, <1>11, <1>12, <1>13, <1>14, <1>15, <1>16, <1>17 DEF ProofStep

-----------------------------------------------------------------------------
(* The unifier is called *)

(* Thm pops the conclusion and the arguments, all of them expressions.     *)
LEMMA ThmStart ==
  ASSUME IndInv, NEW t \in 1..nthms, NEW save \in BOOLEAN, ProofThm(t, save),
         AlwaysSound(file, nthms, store, hstack, stack, heap)
  PROVE  /\ AlwaysSound(file, nthms, store, hstack, stack', heap)
         /\ \E es : ThmRun(file, nthms, store, hstack, ucall'.e, ustack', uheap', ucode', t, es, <<>>)
<1> DEFINE A == file.thms[t].args
           n == Len(A)
           es == Args(Drop(1), n)
<1>1. /\ StackInv /\ StoreInv /\ TheoryInv
      /\ Tags([i \in 1..(n + 1) |-> "expr"]) /\ stack' = Drop(n + 1)
      /\ ArgsFit(A, es) /\ Disjoint(A, es)
      /\ ucode' = file.thms[t].unify /\ ustack' = <<Top(1).at>> /\ ucall'.e = Top(1).at
      /\ uheap' = [i \in DOMAIN es |-> [at |-> es[i], saved |-> FALSE]]
  BY DEF IndInv, ProofThm, RunUnify
<1>2. file.thms[t] \in ThmEntry
  <2>1. nthms \in Nat /\ Len(file.thms) \in Nat /\ nthms <= Len(file.thms)
    BY <1>1, Tables DEF TheoryInv
  <2>2. t \in 1..Len(file.thms)
    BY <2>1
  <2> QED BY <1>1, <2>2, Tables
<1>3. n \in Nat /\ n + 1 \in Nat /\ file.thms[t].unify \in Seq(UnifyCmd)
  BY <1>2 DEF ThmEntry
<1>4. /\ n + 1 \in 0..Len(stack) /\ Len(stack) \in Nat
      /\ \A j \in DOMAIN stack : j > Len(stack) - (n + 1) => stack[j].tag # "coconv"
  BY <1>1, <1>3, TagsExprs DEF StackInv, StackGood
<1>5. 1 \in 0..Len(stack) /\ n \in 0..(Len(stack) - 1)
  BY <1>3, <1>4
<1>6. stack \in Seq(Item) /\ Paired(stack)
  BY <1>1 DEF StackInv, StackGood
<1>7. AddrsGood(store, es) /\ Len(es) = n
  <2>1. StackGood(store, Drop(1)) /\ Len(Drop(1)) = Len(stack) - 1
    BY <1>1, <1>5, <1>6, DropKeeps, PrefixFacts DEF Drop
  <2>2. n \in 0..Len(Drop(1))
    BY <1>5, <2>1
  <2>3. es \in Seq(Nat) /\ Len(es) = n /\ \A i \in 1..n : ExprIn(store, es[i])
    BY <1>1, <2>1, <2>2, ArgsFacts
  <2> HIDE DEF es
  <2> QED BY <2>3 DEF AddrsGood
<1>8. Top(1).at \in Nat
  <2>1. Len(stack) \in DOMAIN stack /\ Top(1) = stack[Len(stack)]
    BY <1>4, <1>5, <1>6 DEF Top
  <2>2. Top(1) \in Item
    BY <1>6, <2>1
  <2> QED BY <2>2 DEF Item
<1> HIDE DEF es
<1>9. FitIn(store, A, es) /\ DisjointIn(store, A, es)
  BY <1>1 DEF ArgsFit, FitIn, Disjoint, DisjointIn, Distinct, Deps
<1>10. Trace(file.terms, file.thms[t].unify, store, es, Top(1).at, ustack', uheap', ucode', <<>>)
  <2>1. es \in Seq(Nat)
    BY <1>7 DEF AddrsGood
  <2> QED BY <1>1, <1>3, <1>8, <2>1, TraceStart
<1>11. ThmRun(file, nthms, store, hstack, ucall'.e, ustack', uheap', ucode', t, es, <<>>)
  BY <1>1, <1>7, <1>9, <1>10 DEF ThmRun
<1>12. AlwaysSound(file, nthms, store, hstack, stack', heap)
  <2> SUFFICES ASSUME NEW w, NEW H, Future(file, nthms, store, hstack, w, H)
               PROVE  Sound(w, H, stack', heap)
    BY DEF AlwaysSound
  <2>1. Sound(w, H, stack, heap)
    BY DEF AlwaysSound
  <2>2. StackHolds(w, Convertible(w), Proved(w, H), stack')
    BY <1>1, <1>4, <1>6, <2>1, HoldsDrop DEF Drop, Sound
  <2> QED BY <2>1, <2>2 DEF Sound
<1> QED BY <1>11, <1>12

LEMMA PopPush ==
  ASSUME NEW S, NEW s \in Seq(S), 2 \in 0..Len(s)
  PROVE  Append(SubSeq(s, 1, Len(s) - 2), s[Len(s) - 1]) = SubSeq(s, 1, Len(s) - 1)
<1> DEFINE r == SubSeq(s, 1, Len(s) - 2)
           t == SubSeq(s, 1, Len(s) - 1)
           x == s[Len(s) - 1]
<1>1. Len(s) \in Nat /\ 1 \in 0..Len(s) /\ x \in S
  OBVIOUS
<1>2. r \in Seq(S) /\ Len(r) = Len(s) - 2 /\ \A i \in 1..(Len(s) - 2) : r[i] = s[i]
  BY PrefixFacts
<1>3. t \in Seq(S) /\ Len(t) = Len(s) - 1 /\ \A i \in 1..(Len(s) - 1) : t[i] = s[i]
  BY <1>1, PrefixFacts
<1> HIDE DEF r, t
<1>4. /\ Append(r, x) \in Seq(S) /\ Len(Append(r, x)) = Len(r) + 1
      /\ Append(r, x)[Len(r) + 1] = x /\ \A i \in 1..Len(r) : Append(r, x)[i] = r[i]
  BY <1>1, <1>2, AppendFacts
<1>5. Len(Append(r, x)) = Len(t)
  BY <1>1, <1>2, <1>3, <1>4
<1>6. \A i \in 1..Len(t) : Append(r, x)[i] = t[i]
  BY <1>1, <1>2, <1>3, <1>4
<1>7. Append(r, x) = t
  <2> DEFINE v == Append(r, x)
  <2> HIDE DEF v
  <2>1. v \in Seq(S) /\ Len(v) = Len(t) /\ \A i \in 1..Len(t) : v[i] = t[i]
    BY <1>4, <1>5, <1>6 DEF v
  <2>2. v = t
    BY <1>3, <2>1, SeqEqual
  <2> QED BY <2>2 DEF v
<1> QED BY <1>7 DEF r, t

(* Unfold pops the target and the obligation, and keeps its second         *)
(* expression.                                                             *)
LEMMA UnfoldStart ==
  ASSUME IndInv, ProofUnfold, AlwaysSound(file, nthms, store, hstack, stack, heap)
  PROVE  \E p : /\ UnfoldRun(file, store, ucall'.e, ustack', uheap', ucode', p, <<>>)
                /\ AlwaysSound(file, nthms, store, hstack, Append(stack', CoConv(p)), heap)
<1> DEFINE p == Top(2).at
<1>1. /\ StackInv /\ StoreInv /\ TheoryInv
      /\ Tags(<<"coconv", "expr">>) /\ stack' = Drop(2)
      /\ store[p].tag = "term" /\ file.terms[store[p].id].isdef
      /\ ucode' = file.terms[store[p].id].unify /\ ustack' = <<Top(1).at>> /\ ucall'.e = Top(1).at
      /\ uheap' = [i \in DOMAIN store[p].args |-> [at |-> store[p].args[i], saved |-> FALSE]]
  BY DEF IndInv, ProofUnfold, RunUnify
<1>2. /\ 2 \in 0..Len(stack) /\ Len(stack) \in Nat
      /\ ExprIn(store, Top(1).at) /\ Top(1).at \in Nat /\ Top(1).tag = "expr"
      /\ ExprIn(store, p) /\ Top(2).tag = "coconv"
  BY <1>1, TagsTwo, ExprTyped
<1>3. /\ store[p].args \in Seq(Nat) /\ store[p].id \in 1..nterms
      /\ \A i \in 1..Len(store[p].args) : ExprIn(store, store[p].args[i])
  BY <1>1, <1>2, TermCell
<1>4. stack \in Seq(Item) /\ Paired(stack) /\ DOMAIN stack = 1..Len(stack)
  BY <1>1 DEF StackInv, StackGood
<1>5. Append(Drop(2), CoConv(p)) = Drop(1)
  <2>1. Top(2) = stack[Len(stack) - 1] /\ Len(stack) - 1 \in DOMAIN stack
    BY <1>2, <1>4 DEF Top
  <2>2. CoConv(p) = stack[Len(stack) - 1]
    <3>1. Top(2) \in Item
      BY <1>4, <2>1
    <3>2. Top(2) = [tag |-> Top(2).tag, at |-> Top(2).at]
      BY <3>1 DEF Item
    <3> QED BY <1>2, <2>1, <3>2 DEF CoConv
  <2>3. Append(SubSeq(stack, 1, Len(stack) - 2), stack[Len(stack) - 1]) = SubSeq(stack, 1, Len(stack) - 1)
    BY <1>2, <1>4, PopPush
  <2> QED BY <2>2, <2>3 DEF Drop
<1> HIDE DEF p
<1>6. AddrsGood(store, store[p].args)
  <2>1. DOMAIN store[p].args = 1..Len(store[p].args)
    BY <1>3
  <2> QED BY <1>3, <2>1 DEF AddrsGood
<1>7. file.terms[store[p].id].unify \in Seq(UnifyCmd)
  <2>1. nterms \in Nat /\ Len(file.terms) \in Nat /\ nterms <= Len(file.terms)
    BY <1>1, Tables DEF TheoryInv
  <2>2. store[p].id \in 1..Len(file.terms)
    BY <1>3, <2>1
  <2>3. file.terms[store[p].id] \in TermEntry
    BY <1>1, <2>2, Tables
  <2> QED BY <2>3 DEF TermEntry
<1>8. Trace(file.terms, file.terms[store[p].id].unify, store, store[p].args, Top(1).at,
            ustack', uheap', ucode', <<>>)
  BY <1>1, <1>2, <1>3, <1>7, TraceStart
<1>9. UnfoldRun(file, store, ucall'.e, ustack', uheap', ucode', p, <<>>)
  BY <1>1, <1>2, <1>6, <1>8 DEF UnfoldRun
<1>10. AlwaysSound(file, nthms, store, hstack, Append(stack', CoConv(p)), heap)
  <2> SUFFICES ASSUME NEW w, NEW H, Future(file, nthms, store, hstack, w, H)
               PROVE  Sound(w, H, Drop(1), heap)
    BY <1>1, <1>5 DEF AlwaysSound
  <2>1. Sound(w, H, stack, heap)
    BY DEF AlwaysSound
  <2>2. 1 \in 0..Len(stack) /\ \A j \in DOMAIN stack : j > Len(stack) - 1 => stack[j].tag # "coconv"
    <3>1. Top(1) = stack[Len(stack)]
      BY <1>2 DEF Top
    <3>2. \A j \in DOMAIN stack : j > Len(stack) - 1 => j = Len(stack)
      BY <1>2, <1>4
    <3> QED BY <1>2, <3>1, <3>2
  <2>3. StackHolds(w, Convertible(w), Proved(w, H), Drop(1))
    BY <1>4, <2>1, <2>2, HoldsDrop DEF Drop, Sound
  <2> QED BY <2>1, <2>3 DEF Sound
<1> QED BY <1>9, <1>10

(* A proof that ends has one proof on the stack, and no obligation.        *)
LEMMA EndStart ==
  ASSUME IndInv, EndThm, stmt.kind = "thm", NoHyp(ThmNow.unify),
         AlwaysSound(file, nthms, store, hstack, stack, heap)
  PROVE  EndRun(file, nthms, store, hstack, ucall'.e, ucode')
<1>1. /\ StackInv /\ Len(stack) = 1 /\ Tags(<<"proof">>)
      /\ ucode' = ThmNow.unify /\ ucall'.e = Top(1).at
  BY DEF IndInv, EndThm, RunUnify
<1>2. stack \in Seq(Item) /\ Top(1) = stack[Len(stack)] /\ Top(1).tag = "proof"
  BY <1>1, TagsOne DEF StackInv, StackGood, Top
<1>3. ASSUME NEW w, NEW H, Future(file, nthms, store, hstack, w, H)
      PROVE  w.mean[Top(1).at].tree \in Proved(w, H)
  <2>1. StackHolds(w, Convertible(w), Proved(w, H), stack)
    BY <1>3 DEF AlwaysSound, Sound
  <2> DEFINE C == Convertible(w)
             P == Proved(w, H)
  <2>3. Len(stack) > 0 /\ StackHolds(w, C, P, stack)
    BY <1>1, <2>1
  <2> HIDE DEF C, P
  <2>2. Claims(w, C, P, stack, Len(stack))
    BY <1>2, <2>3, TopHolds
  <2> QED BY <1>2, <2>2 DEF Claims, P
<1> QED BY <1>1, <1>3 DEF EndRun

-----------------------------------------------------------------------------
(* The unifier goes on *)

(* A command that reads the cell on top of its stack. *)
LEMMA UnifyTrace ==
  ASSUME IndInv, UnifyRef \/ UnifyTerm("Term") \/ UnifyTerm("TermSave") \/ UnifyDummy,
         NEW code, NEW s \in Seq(Nat), NEW e, NEW tr,
         Trace(file.terms, code, store, s, e, ustack, uheap, ucode, tr)
  PROVE  Trace(file.terms, code, store, s, e, ustack', uheap', ucode', Append(tr, UTop))
<1>1. /\ ustack # <<>> /\ ucode # <<>> /\ ucode' = Tail(ucode)
      /\ \E op : UStep(op)
  BY DEF UnifyRef, UnifyTerm, UnifyDummy, UStep
<1>2. /\ ExprIn(store, UTop) /\ UTop = ustack[Len(ustack)] /\ UDrop = SubSeq(ustack, 1, Len(ustack) - 1)
      /\ uheap \in Seq(UHeapItem)
  BY <1>1, UStepFacts DEF UTop, UDrop, UHeapGood
<1>3. CASE UnifyRef
  <2>1. /\ Head(ucode).op = "Ref" /\ Head(ucode).data \in DOMAIN uheap /\ UTop = uheap[Head(ucode).data].at
        /\ ustack' = UDrop /\ uheap' = uheap
    BY <1>3 DEF UnifyRef, UStep, UData
  <2> QED BY <1>1, <1>2, <2>1, TraceRef
<1>4. CASE UnifyDummy
  <2>1. /\ Head(ucode).op = "Dummy" /\ BoundVar(store[UTop]) /\ store[UTop].type.sort = Head(ucode).data
        /\ \A i \in DOMAIN uheap : uheap[i].saved \/ Distinct(store, uheap[i].at, UTop)
        /\ ustack' = UDrop /\ uheap' = Append(uheap, [at |-> UTop, saved |-> FALSE])
    BY <1>4 DEF UnifyDummy, UStep, UData, BoundVar, Distinct, Deps, PushUHeap
  <2> QED BY <1>1, <1>2, <2>1, TraceDummy
<1>5. ASSUME NEW op \in {"Term", "TermSave"}, UnifyTerm(op)
      PROVE  Trace(file.terms, code, store, s, e, ustack', uheap', ucode', Append(tr, UTop))
  <2>1. /\ Head(ucode).op = op /\ store[UTop].tag = "term" /\ store[UTop].id = Head(ucode).data
        /\ ustack' = UDrop \o [k \in 1..Len(store[UTop].args) |-> store[UTop].args[Len(store[UTop].args) + 1 - k]]
        /\ uheap' = IF op = "TermSave" THEN Append(uheap, [at |-> UTop, saved |-> TRUE]) ELSE uheap
    BY <1>5 DEF UnifyTerm, UStep, UData, PushUHeap
  <2>2. IsTerm(Head(ucode)) /\ SavedOn(Head(ucode), uheap, UTop, uheap')
    BY <2>1 DEF IsTerm, SavedOn
  <2>3. ArgsOn(ustack, store[UTop].args, ustack')
    BY <1>2, <2>1 DEF ArgsOn
  <2>4. Tidy(file.terms, store)
    BY StoreIsTidy DEF IndInv, StoreInv
  <2> QED BY <1>1, <1>2, <2>1, <2>2, <2>3, <2>4, TraceTerm
<1> QED BY <1>3, <1>4, <1>5

LEMMA ThmRunNext ==
  ASSUME NEW f, NEW n, NEW st, NEW hs, NEW e, NEW us, NEW uh, NEW uc, NEW t, NEW es, NEW tr,
         ThmRun(f, n, st, hs, e, us, uh, uc, t, es, tr), uc # <<>>, NEW x \in Nat,
         NEW us2, NEW uh2,
         Trace(f.terms, f.thms[t].unify, st, es, e, us2, uh2, Tail(uc), Append(tr, x)),
         Head(uc).op # "Dummy",
         Head(uc).op = "Hyp" => \A w, H : Future(f, n, st, hs, w, H) => w.mean[x].tree \in Proved(w, H)
  PROVE  ThmRun(f, n, st, hs, e, us2, uh2, Tail(uc), t, es, Append(tr, x))
<1> DEFINE code == f.thms[t].unify
           t2 == Append(tr, x)
<1>1. Trace(f.terms, code, st, es, e, us, uh, uc, tr)
  BY DEF ThmRun
<1>2. tr \in Seq(Nat) /\ Head(uc) = code[Len(tr) + 1]
  BY <1>1, NextCommand
<1>3. \A k \in DOMAIN t2 : (k \in DOMAIN tr /\ t2[k] = tr[k]) \/ (k = Len(tr) + 1 /\ t2[k] = x)
  <2>1. /\ Len(tr) \in Nat /\ DOMAIN tr = 1..Len(tr) /\ DOMAIN t2 = 1..(Len(tr) + 1)
        /\ t2[Len(tr) + 1] = x /\ \A k \in 1..Len(tr) : t2[k] = tr[k]
    BY <1>2, AppendFacts
  <2> HIDE DEF t2
  <2>2. \A k \in DOMAIN t2 : k \in 1..Len(tr) \/ k = Len(tr) + 1
    BY <2>1
  <2> QED BY <2>1, <2>2
<1> HIDE DEF code, t2
<1>4. \A k \in DOMAIN t2 : code[k].op # "Dummy"
  BY <1>2, <1>3 DEF ThmRun, code
<1>5. ASSUME NEW w, NEW H, Future(f, n, st, hs, w, H), NEW k \in DOMAIN t2, code[k].op = "Hyp"
      PROVE  w.mean[t2[k]].tree \in Proved(w, H)
  BY <1>2, <1>3, <1>5 DEF ThmRun, code
<1> QED BY <1>4, <1>5 DEF ThmRun, code, t2

LEMMA UnfoldRunNext ==
  ASSUME NEW f, NEW st, NEW e, NEW us, NEW uh, NEW uc, NEW p, NEW tr,
         UnfoldRun(f, st, e, us, uh, uc, p, tr), uc # <<>>, NEW x \in Nat, NEW us2, NEW uh2,
         Trace(f.terms, f.terms[st[p].id].unify, st, st[p].args, e, us2, uh2, Tail(uc), Append(tr, x)),
         Head(uc).op # "Hyp"
  PROVE  UnfoldRun(f, st, e, us2, uh2, Tail(uc), p, Append(tr, x))
<1> DEFINE code == f.terms[st[p].id].unify
           t2 == Append(tr, x)
<1>1. Trace(f.terms, code, st, st[p].args, e, us, uh, uc, tr)
  BY DEF UnfoldRun
<1>2. tr \in Seq(Nat) /\ Head(uc) = code[Len(tr) + 1]
  BY <1>1, NextCommand
<1>3. \A k \in DOMAIN t2 : k \in DOMAIN tr \/ k = Len(tr) + 1
  BY <1>2, AppendFacts
<1> HIDE DEF code, t2
<1>4. \A k \in DOMAIN t2 : code[k].op # "Hyp"
  BY <1>2, <1>3 DEF UnfoldRun, code
<1> QED BY <1>4 DEF UnfoldRun, code, t2

(* Hyp in a theorem's stream pops a proof.                                 *)
LEMMA HypRun ==
  ASSUME IndInv, UnifyHypThm, AlwaysSound(file, nthms, store, hstack, stack, heap),
         NEW t, NEW es, NEW tr,
         ThmRun(file, nthms, store, hstack, ucall.e, ustack, uheap, ucode, t, es, tr)
  PROVE  /\ AlwaysSound(file, nthms, store, hstack, stack', heap)
         /\ ThmRun(file, nthms, store, hstack, ucall.e, ustack', uheap, ucode', t, es,
                   Append(tr, Top(1).at))
<1> DEFINE x == Top(1).at
<1>1. /\ Head(ucode).op = "Hyp" /\ ucode # <<>> /\ ucode' = Tail(ucode)
      /\ Tags(<<"proof">>) /\ ustack' = Append(ustack, x) /\ stack' = Drop(1)
  BY DEF UnifyHypThm, UStep
<1>2. StackInv /\ stack \in Seq(Item) /\ Paired(stack) /\ DOMAIN stack = 1..Len(stack)
  BY DEF IndInv, StackInv, StackGood
<1>3. /\ 1 \in 0..Len(stack) /\ Len(stack) \in Nat /\ Top(1) \in Item /\ Top(1).tag = "proof"
      /\ ExprIn(store, x)
  BY <1>1, <1>2, TagsOne
<1>4. x \in Nat
  BY <1>3 DEF Item
<1>5. Top(1) = stack[Len(stack)] /\ Len(stack) > 0
  BY <1>2, <1>3 DEF Top
<1> HIDE DEF x
<1>6. ASSUME NEW w, NEW H, Future(file, nthms, store, hstack, w, H)
      PROVE  w.mean[x].tree \in Proved(w, H) /\ Sound(w, H, stack', heap)
  <2> DEFINE C == Convertible(w)
             P == Proved(w, H)
  <2>1. StackHolds(w, C, P, stack) /\ HeapHolds(w, C, P, heap)
    BY <1>6 DEF AlwaysSound, Sound
  <2> HIDE DEF C, P
  <2>2. Claims(w, C, P, stack, Len(stack))
    BY <1>2, <1>5, <2>1, TopHolds
  <2>3. w.mean[x].tree \in P
    BY <1>3, <1>5, <2>2 DEF Claims, x
  <2>4. \A j \in DOMAIN stack : j > Len(stack) - 1 => stack[j].tag # "coconv"
    <3>1. \A j \in DOMAIN stack : j > Len(stack) - 1 => j = Len(stack)
      BY <1>2, <1>3
    <3> QED BY <1>3, <1>5, <3>1
  <2>5. StackHolds(w, C, P, stack')
    BY <1>1, <1>2, <1>3, <2>1, <2>4, HoldsDrop DEF Drop
  <2> QED BY <2>1, <2>3, <2>5 DEF Sound, C, P
<1>7. Trace(file.terms, file.thms[t].unify, store, es, ucall.e, ustack', uheap, ucode', Append(tr, x))
  <2>1. Trace(file.terms, file.thms[t].unify, store, es, ucall.e, ustack, uheap, ucode, tr)
    BY DEF ThmRun
  <2> QED BY <1>1, <1>3, <1>4, <2>1, TraceHyp DEF x
<1>8. ThmRun(file, nthms, store, hstack, ucall.e, ustack', uheap, ucode', t, es, Append(tr, x))
  BY <1>1, <1>4, <1>6, <1>7, ThmRunNext
<1> QED BY <1>6, <1>8 DEF AlwaysSound, x

-----------------------------------------------------------------------------
(* The unifier returns *)

(* What the dependency invariant gives a store.                            *)
LEMMA StoreFacts ==
  ASSUME IndInv, DepsInv, ResultsAreClosed
  PROVE  /\ StoreGood(store, file, nsorts, nterms) /\ Covers(file.terms, store) /\ OnlyVarsBound(store)
         /\ nbv <= DepsBits => Numbered(store, nbv)
  BY DEF IndInv, StoreInv, DepsInv

(* The declared theorems are those of the table.                           *)
LEMMA DeclaredAre ==
  ASSUME IndInv, NEW t \in 1..nthms
  PROVE  /\ t \in DOMAIN Declared(file, nthms) /\ Declared(file, nthms)[t] = file.thms[t]
         /\ file.thms[t].args \in Seq(Type)
<1>1. file.thms[t] \in ThmEntry
  <2>1. nthms \in Nat /\ Len(file.thms) \in Nat /\ nthms <= Len(file.thms)
    BY Tables DEF IndInv, TheoryInv
  <2>2. t \in 1..Len(file.thms)
    BY <2>1
  <2> QED BY <2>2, Tables DEF IndInv
<1> QED BY <1>1 DEF Declared, ThmEntry

(* The conclusion of the theorem is proved.                                *)
LEMMA ThmProves ==
  ASSUME IndInv, DepsInv, ResultsAreClosed, UnifyEnd("thm"), NEW t, NEW es, NEW tr,
         ThmRun(file, nthms, store, hstack, ucall.e, ustack, uheap, ucode, t, es, tr),
         NEW w, NEW H, Future(file, nthms, store, hstack, w, H)
  PROVE  w.mean[ucall.e].tree \in Proved(w, H)
<1>1. /\ t \in 1..nthms /\ AddrsGood(store, es) /\ Len(es) = Len(file.thms[t].args)
      /\ FitIn(store, file.thms[t].args, es) /\ DisjointIn(store, file.thms[t].args, es)
      /\ Trace(file.terms, file.thms[t].unify, store, es, ucall.e, ustack, uheap, ucode, tr)
      /\ \A k \in DOMAIN tr : file.thms[t].unify[k].op # "Dummy"
      /\ \A k \in DOMAIN tr : file.thms[t].unify[k].op = "Hyp" => w.mean[tr[k]].tree \in Proved(w, H)
  BY DEF ThmRun
<1>2. Grows(file.terms, store, w) /\ w.thms = Declared(file, nthms) /\ H \in SUBSET w.trees
  BY DEF Future
<1>3. t \in DOMAIN w.thms /\ w.thms[t] = file.thms[t] /\ file.thms[t].args \in Seq(Type)
  BY <1>1, <1>2, DeclaredAre
<1>4. Ended(ustack, ucode) /\ ExprIn(store, ucall.e)
  <2>1. ucode \in Seq(UnifyCmd) /\ ucode # <<>> /\ Head(ucode).op = "End" /\ ustack = <<>>
    BY DEF UnifyEnd, UStep, IndInv, UnifyInv
  <2> QED BY <2>1, UnifyEndFacts DEF Ended
<1> DEFINE C == Convertible(w)
           P == Proved(w, H)
           A == w.thms[t].args
           code == w.thms[t].unify
<1>5. P = Derivable(w, C, H) /\ A \in Seq(Type)
  BY <1>3 DEF Proved
<1>6. /\ Len(es) = Len(A) /\ FitIn(store, A, es) /\ DisjointIn(store, A, es)
      /\ Trace(file.terms, code, store, es, ucall.e, ustack, uheap, ucode, tr)
      /\ \A k \in DOMAIN tr : code[k].op # "Dummy"
      /\ \A k \in DOMAIN tr : code[k].op = "Hyp" => w.mean[tr[k]].tree \in P
  BY <1>1, <1>3
<1>7. A = w.thms[t].args /\ code = w.thms[t].unify
  OBVIOUS
<1> HIDE DEF C, P, A, code
<1>8. ThmCall(file, store, w, A, code, es, ucall.e, ustack, uheap, ucode, tr, P)
  BY <1>1, <1>2, <1>4, <1>6, StoreFacts DEF ThmCall
<1>9. w.mean[ucall.e].tree \in P
  BY <1>2, <1>3, <1>5, <1>7, <1>8, StoreFacts, ThmApplies
<1> QED BY <1>9 DEF P

LEMMA ThmReturns ==
  ASSUME IndInv, DepsInv, ResultsAreClosed, ApplyThm, NEW t, NEW es, NEW tr,
         ThmRun(file, nthms, store, hstack, ucall.e, ustack, uheap, ucode, t, es, tr),
         AlwaysSound(file, nthms, store, hstack, stack, heap)
  PROVE  AlwaysSound(file, nthms, store, hstack, stack', heap')
<1> SUFFICES ASSUME NEW w, NEW H, Future(file, nthms, store, hstack, w, H)
             PROVE  Sound(w, H, stack', heap')
  BY DEF AlwaysSound
<1> DEFINE x == Proof(ucall.e)
           C == Convertible(w)
           P == Proved(w, H)
<1>1. /\ UnifyEnd("thm") /\ stack' = stack \o <<x>>
      /\ heap' = heap \/ heap' = Append(heap, x)
  BY DEF ApplyThm, PushOn, SaveIf, PushHeap
<1>2. x \in Item /\ x.tag = "proof" /\ x.at = ucall.e
  BY <1>1, UnifyEndFacts, ItemFacts
<1>3. w.mean[ucall.e].tree \in P
  BY <1>1, ThmProves
<1>4. HoldsNow(w, C, P)
  <2>1. Sound(w, H, stack, heap)
    BY DEF AlwaysSound
  <2> QED BY <2>1, FutureRules DEF HoldsNow, Sound
<1> HIDE DEF x, C, P
<1>5. StackHolds(w, C, P, stack')
  BY <1>1, <1>2, <1>3, <1>4, HoldsTop
<1>6. HeapHolds(w, C, P, heap')
  <2>1. heap \in Seq(Item) /\ HeapHolds(w, C, P, heap)
    BY <1>4 DEF IndInv, HeapInv, HeapGood, HoldsNow
  <2>2. HeapClaims(w, C, P, x)
    BY <1>2, <1>3 DEF HeapClaims
  <2> QED BY <1>1, <1>2, <2>1, <2>2, HeapHoldsAppend
<1> QED BY <1>5, <1>6 DEF Sound, C, P

(* The target is an unfolding of the obligation's first expression.        *)
LEMMA UnfoldProves ==
  ASSUME IndInv, DepsInv, ResultsAreClosed, nbv <= DepsBits, UnifyEnd("unfold"), NEW p, NEW tr,
         UnfoldRun(file, store, ucall.e, ustack, uheap, ucode, p, tr),
         NEW w, NEW H, Future(file, nthms, store, hstack, w, H)
  PROVE  <<w.mean[p].tree, w.mean[ucall.e].tree>> \in Convertible(w)
<1>2. Grows(file.terms, store, w)
  BY DEF Future
<1>4. Ended(ustack, ucode) /\ ExprIn(store, ucall.e)
  <2>1. ucode \in Seq(UnifyCmd) /\ ucode # <<>> /\ Head(ucode).op = "End" /\ ustack = <<>>
    BY DEF UnifyEnd, UStep, IndInv, UnifyInv
  <2> QED BY <2>1, UnifyEndFacts DEF Ended
<1> DEFINE C == Convertible(w)
           s == store[p].args
           code == file.terms[store[p].id].unify
<1>5. /\ ExprIn(store, p) /\ store[p].tag = "term" /\ file.terms[store[p].id].isdef
      /\ AddrsGood(store, s) /\ Trace(file.terms, code, store, s, ucall.e, ustack, uheap, ucode, tr)
      /\ \A k \in DOMAIN tr : code[k].op # "Hyp"
  BY DEF UnfoldRun
<1>6. C = Convertible(w) /\ s = store[p].args /\ code = file.terms[store[p].id].unify
  OBVIOUS
<1> HIDE DEF C, s, code
<1>8. UnfoldCall(file, store, w, nbv, code, s, ucall.e, ustack, uheap, ucode, tr)
  BY <1>2, <1>4, <1>5, StoreFacts DEF UnfoldCall
<1>9. <<w.mean[p].tree, w.mean[ucall.e].tree>> \in C
  BY <1>5, <1>6, <1>8, StoreFacts, UnfoldApplies
<1> QED BY <1>9 DEF C

LEMMA UnfoldReturns ==
  ASSUME IndInv, DepsInv, ResultsAreClosed, nbv <= DepsBits, ApplyUnfold, NEW p, NEW tr,
         UnfoldRun(file, store, ucall.e, ustack, uheap, ucode, p, tr), p \in Nat,
         AlwaysSound(file, nthms, store, hstack, Append(stack, CoConv(p)), heap)
  PROVE  AlwaysSound(file, nthms, store, hstack, stack', heap)
<1> SUFFICES ASSUME NEW w, NEW H, Future(file, nthms, store, hstack, w, H)
             PROVE  Sound(w, H, stack', heap)
  BY DEF AlwaysSound
<1> DEFINE x == CoConv(p)
           y == CoConv(ucall.e)
           s == Append(stack, x)
           t == stack \o <<y>>
           m == Len(stack)
           C == Convertible(w)
           P == Proved(w, H)
<1>1. UnifyEnd("unfold") /\ stack' = t
  BY DEF ApplyUnfold, PushOn
<1>2. ucall.e \in Nat /\ ExprIn(store, ucall.e) /\ pc = "unify" /\ ucall.for = "unfold"
  BY <1>1, UnifyEndFacts
<1>3. x \in Item /\ x.tag = "coconv" /\ x.at = p /\ y \in Item /\ y.tag = "coconv" /\ y.at = ucall.e
  BY <1>2, ItemFacts
<1>4. <<w.mean[p].tree, w.mean[ucall.e].tree>> \in C
  BY <1>1, UnfoldProves
<1>5. StackHolds(w, C, P, s) /\ HeapHolds(w, C, P, heap) /\ Closed(w, C, P)
  BY FutureRules DEF AlwaysSound, Sound
<1>6. /\ stack \in Seq(Item) /\ Paired(stack) /\ m \in Nat /\ m >= 1 /\ DOMAIN stack = 1..m
      /\ stack[m].tag = "expr" /\ ExprIn(store, stack[m].at)
  <2>1. stack \in Seq(Item) /\ Paired(stack) /\ stack # <<>> /\ stack[m].tag = "expr"
        /\ \A k \in DOMAIN stack : ExprIn(store, stack[k].at)
    BY <1>2 DEF IndInv, UnifyInv, StackInv, StackGood
  <2> QED BY <2>1
<1> DEFINE b == stack[m].at
<1>7. /\ w.mean[p].tree \in w.trees /\ w.mean[ucall.e].tree \in w.trees /\ w.mean[b].tree \in w.trees
  BY <1>2, <1>6, StoreFacts, CellsInWorld DEF Future, UnfoldRun
<1>8. <<w.mean[ucall.e].tree, w.mean[b].tree>> \in C => <<w.mean[p].tree, w.mean[b].tree>> \in C
  BY <1>4, <1>5, <1>7 DEF Closed
<1> HIDE DEF x, y, C, P
<1>9. /\ s \in Seq(Item) /\ Len(s) = m + 1 /\ DOMAIN s = 1..(m + 1) /\ s[m + 1] = x
      /\ \A i \in 1..m : s[i] = stack[i]
  BY <1>3, <1>6, AppendFacts
<1>10. t = Append(stack, y)
  BY <1>3, <1>6
<1>11. /\ t \in Seq(Item) /\ Len(t) = m + 1 /\ DOMAIN t = 1..(m + 1) /\ t[m + 1] = y
       /\ \A i \in 1..m : t[i] = stack[i]
  <2>1. /\ Append(stack, y) \in Seq(Item) /\ Len(Append(stack, y)) = m + 1
        /\ DOMAIN Append(stack, y) = 1..(m + 1) /\ Append(stack, y)[m + 1] = y
        /\ \A i \in 1..m : Append(stack, y)[i] = stack[i]
    BY <1>3, <1>6, AppendFacts
  <2> HIDE DEF t
  <2> QED BY <1>10, <2>1
<1> HIDE DEF s, t, m
<1>12. (m + 1) - 1 = m /\ m \in 1..m
  BY <1>6
<1>13. PairAt(w, s, m + 1) = <<w.mean[p].tree, w.mean[b].tree>>
  BY <1>3, <1>9, <1>12 DEF PairAt
<1>14. PairAt(w, t, m + 1) = <<w.mean[ucall.e].tree, w.mean[b].tree>>
  BY <1>3, <1>11, <1>12 DEF PairAt
<1>15. \A j \in 1..(m + 1) : j > m <=> j = m + 1
  BY <1>6
<1>16. MetAbove(w, C, t, m) => MetAbove(w, C, s, m)
  <2>1. MetAbove(w, C, t, m) => PairAt(w, t, m + 1) \in C
    BY <1>3, <1>6, <1>11, <1>15 DEF MetAbove
  <2>2. PairAt(w, s, m + 1) \in C => MetAbove(w, C, s, m)
    BY <1>9, <1>15 DEF MetAbove
  <2> QED BY <1>8, <1>13, <1>14, <2>1, <2>2
<1>17. Paired(s)
  <2> SUFFICES ASSUME NEW k \in DOMAIN s, s[k].tag \in {"conv", "coconv"}
               PROVE  k > 1 /\ s[k - 1].tag = "expr"
    BY DEF Paired
  <2>1. CASE k = m + 1
    BY <1>6, <1>9, <1>12, <2>1
  <2>2. CASE k \in 1..m
    <3>1. k > 1 /\ stack[k - 1].tag = "expr"
      BY <1>6, <1>9, <2>2 DEF Paired
    <3>2. k - 1 \in 1..m
      BY <1>6, <2>2, <3>1
    <3> QED BY <1>9, <3>1, <3>2
  <2> QED BY <1>6, <1>9, <2>1, <2>2
<1>18. \A k \in DOMAIN t : k > m /\ MetAbove(w, C, t, k) => Claims(w, C, P, t, k)
  BY <1>3, <1>11, <1>15 DEF Claims
<1>19. m \in Nat /\ m <= Len(s) /\ m <= Len(t) /\ \A i \in 1..m : t[i] = s[i]
  BY <1>6, <1>9, <1>11
<1>20. StackHolds(w, C, P, t)
  BY <1>5, <1>9, <1>11, <1>16, <1>17, <1>18, <1>19, HoldsReplace
<1> QED BY <1>1, <1>5, <1>20 DEF Sound, C, P

-----------------------------------------------------------------------------
(* Every step keeps the invariant *)

(* It says nothing outside of proofs, *)
LEMMA LogicIdle ==
  ASSUME pc' \notin {"proof", "unify"}
  PROVE  LogicInv'
  BY DEF LogicInv, InProof, InThm, InUnfold, InEnd

(* and little when one starts, with nothing on the stack and binders on     *)
(* the heap.                                                               *)
LEMMA LogicBegin ==
  ASSUME pc' = "proof", stack' = <<>>, NEW n, heap' = [i \in 1..n |-> Expr(i)]
  PROVE  LogicInv'
<1>1. \A i \in DOMAIN heap' : heap'[i].tag = "expr"
  BY DEF Expr
<1>2. ASSUME NEW w, NEW H PROVE Sound(w, H, stack', heap')
  BY <1>1 DEF Sound, StackHolds, HeapHolds
<1>3. AlwaysSound(file', nthms', store', hstack', stack', heap')
  BY <1>2 DEF AlwaysSound
<1> QED BY <1>3 DEF LogicInv, InProof, InThm, InUnfold, InEnd

LEMMA LogicStatement ==
  ASSUME Statement
  PROVE  LogicInv'
<1>1. CASE StmtSort \/ StmtEnd \/ \E local \in BOOLEAN : StmtTerm(local)
  BY <1>1, LogicIdle DEF StmtSort, StmtEnd, StmtTerm
<1>2. CASE \E local \in BOOLEAN : StmtDef(local)
  BY <1>2, LogicBegin DEF StmtDef, TermHeader, LoadArgs
<1>3. CASE \E kind \in {"axiom", "thm"}, local \in BOOLEAN : StmtThm(kind, local)
  BY <1>3, LogicBegin DEF StmtThm, LoadArgs
<1> QED BY <1>1, <1>2, <1>3 DEF Statement

(* What a proof step leaves of the conditions. *)
LEMMA ProofCondition ==
  ASSUME IndInv, ProofStep, nbv' <= DepsBits, ~sorry'
  PROVE  nbv <= DepsBits /\ ~sorry /\ UNCHANGED <<file, nthms, stmt>>
<1>1. CASE \E i \in DOMAIN heap : ProofRef(i)
  BY <1>1, ProofStepFrame DEF ProofRef, theory
<1>2. CASE \E t \in 1..nterms, save \in BOOLEAN : ProofTerm(t, save)
  BY <1>2, ProofStepFrame DEF ProofTerm, theory
<1>3. CASE \E t \in 1..nthms, save \in BOOLEAN : ProofThm(t, save)
  BY <1>3, ProofStepFrame DEF ProofThm, theory
<1>4. CASE \E s \in 1..nsorts : ProofDummy(s)
  BY <1>4, ProofStepFrame DEF ProofDummy, theory
<1>5. CASE ProofHyp \/ ProofConv \/ ProofRefl \/ ProofSymm \/ ProofCong
  BY <1>5, ProofStepFrame, SMTT(30) DEF ProofHyp, ProofConv, ProofRefl, ProofSymm, ProofCong, theory
<1>6. CASE ProofUnfold \/ ProofConvCut \/ ProofConvSave \/ ProofSave \/ ProofSorry
  BY <1>6, ProofStepFrame DEF ProofUnfold, ProofConvCut, ProofConvSave, ProofSave, ProofSorry, theory
<1>7. CASE EndDef \/ EndThm
  BY <1>7, ProofStepFrame DEF EndDef, EndThm, theory, machine
<1> QED BY <1>1, <1>2, <1>3, <1>4, <1>5, <1>6, <1>7 DEF ProofStep

LEMMA LogicProof ==
  ASSUME IndInv, LogicInv, ProofStep
  PROVE  LogicInv'
<1> SUFFICES ASSUME nbv' <= DepsBits, ResultsAreClosed', ~sorry'
             PROVE  InProof' /\ InThm' /\ InUnfold' /\ InEnd'
  BY DEF LogicInv
<1>1. /\ nbv <= DepsBits /\ ~sorry /\ UNCHANGED <<file, nthms, stmt>> /\ pc = "proof"
  BY ProofCondition, ProofStepFrame
<1>2. ResultsAreClosed
  BY <1>1 DEF ResultsAreClosed
<1>3. AlwaysSound(file, nthms, store, hstack, stack, heap)
  BY <1>1, <1>2 DEF LogicInv, InProof
<1>4. CASE pc' = "proof"
  <2>1. AlwaysSound(file, nthms, store', hstack', stack', heap')
    BY <1>3, <1>4, SoundNext
  <2> QED BY <1>1, <1>4, <2>1 DEF InProof, InThm, InUnfold, InEnd
<1>5. CASE \E t \in 1..nthms, save \in BOOLEAN : ProofThm(t, save)
  <2>1. PICK t \in 1..nthms, save \in BOOLEAN : ProofThm(t, save)
    BY <1>5
  <2>2. pc' = "unify" /\ ucall'.for = "thm" /\ UNCHANGED <<store, heap, hstack>>
    BY <2>1 DEF ProofThm, RunUnify
  <2>3. /\ AlwaysSound(file, nthms, store, hstack, stack', heap)
        /\ \E es : ThmRun(file, nthms, store, hstack, ucall'.e, ustack', uheap', ucode', t, es, <<>>)
    BY <1>3, <2>1, ThmStart
  <2>4. InThm'
    BY <1>1, <2>2, <2>3 DEF InThm
  <2> QED BY <2>2, <2>4 DEF InProof, InUnfold, InEnd
<1>6. CASE ProofUnfold
  <2>1. pc' = "unify" /\ ucall'.for = "unfold" /\ UNCHANGED <<store, heap, hstack>>
    BY <1>6 DEF ProofUnfold, RunUnify
  <2>2. \E p : /\ UnfoldRun(file, store, ucall'.e, ustack', uheap', ucode', p, <<>>)
               /\ AlwaysSound(file, nthms, store, hstack, Append(stack', CoConv(p)), heap)
    BY <1>3, <1>6, UnfoldStart
  <2>3. InUnfold'
    BY <1>1, <2>1, <2>2 DEF InUnfold
  <2> QED BY <2>1, <2>3 DEF InProof, InThm, InEnd
<1>7. CASE EndDef
  <2>1. pc' = "unify" /\ ucall'.for = "def"
    BY <1>7 DEF EndDef, RunUnify
  <2> QED BY <2>1 DEF InProof, InThm, InUnfold, InEnd
<1>8. CASE EndThm
  <2>1. pc' = "unify" /\ ucall'.for = "end" /\ UNCHANGED <<store, hstack>>
    BY <1>8 DEF EndThm, RunUnify, machine
  <2>2. (stmt.kind = "thm" /\ NoHyp(ThmNow.unify)) => EndRun(file, nthms, store, hstack, ucall'.e, ucode')
    BY <1>3, <1>8, EndStart
  <2>3. InEnd'
    BY <1>1, <2>1, <2>2 DEF InEnd, ThmNow
  <2> QED BY <2>1, <2>3 DEF InProof, InThm, InUnfold
<1>9. pc' = "proof" \/ ProofUnfold \/ EndDef \/ EndThm \/ \E t \in 1..nthms, save \in BOOLEAN : ProofThm(t, save)
  <2>1. CASE \E i \in DOMAIN heap : ProofRef(i)
    BY <1>1, <2>1 DEF ProofRef
  <2>2. CASE \E t \in 1..nterms, save \in BOOLEAN : ProofTerm(t, save)
    BY <1>1, <2>2 DEF ProofTerm
  <2>3. CASE \E s \in 1..nsorts : ProofDummy(s)
    BY <1>1, <2>3 DEF ProofDummy
  <2>4. CASE ProofHyp \/ ProofConv \/ ProofRefl \/ ProofSymm \/ ProofCong
    BY <1>1, <2>4 DEF ProofHyp, ProofConv, ProofRefl, ProofSymm, ProofCong
  <2>5. CASE ProofConvCut \/ ProofConvSave \/ ProofSave \/ ProofSorry
    BY <1>1, <2>5 DEF ProofConvCut, ProofConvSave, ProofSave, ProofSorry
  <2> QED BY <2>1, <2>2, <2>3, <2>4, <2>5 DEF ProofStep
<1> QED BY <1>4, <1>5, <1>6, <1>7, <1>8, <1>9

(* The unifier reads a command: nothing else changes, but for a hypothesis *)
(* that is popped.                                                         *)
LEMMA LogicRead ==
  ASSUME IndInv, LogicInv,
         UnifyRef \/ UnifyTerm("Term") \/ UnifyTerm("TermSave") \/ UnifyDummy
  PROVE  LogicInv'
<1> SUFFICES ASSUME nbv' <= DepsBits, ResultsAreClosed', ~sorry'
             PROVE  InProof' /\ InThm' /\ InUnfold' /\ InEnd'
  BY DEF LogicInv
<1>1. /\ pc = "unify" /\ ucode # <<>> /\ ucode' = Tail(ucode) /\ ustack # <<>>
      /\ UNCHANGED <<file, nthms, stmt, store, stack, heap, hstack, nbv, sorry, pc, ucall>>
      /\ Head(ucode).op # "Hyp" /\ (Head(ucode).op = "Dummy" => UMode = "UDef")
      /\ \E op : UStep(op)
  BY DEF UnifyRef, UnifyTerm, UnifyDummy, UStep, theory, machine
<1>2. InThm /\ InUnfold /\ InEnd
  <2>1. ResultsAreClosed
    BY <1>1 DEF ResultsAreClosed
  <2> QED BY <1>1, <2>1 DEF LogicInv
<1>3. UTop \in Nat
  BY <1>1, UStepFacts
<1>4. InThm'
  <2> SUFFICES ASSUME ucall.for = "thm"
               PROVE  /\ AlwaysSound(file, nthms, store, hstack, stack, heap)
                      /\ \E t, es, tr : ThmRun(file, nthms, store, hstack, ucall.e, ustack', uheap', ucode', t, es, tr)
    BY <1>1 DEF InThm
  <2>1. AlwaysSound(file, nthms, store, hstack, stack, heap)
    BY <1>1, <1>2 DEF InThm
  <2>2. PICK t, es, tr : ThmRun(file, nthms, store, hstack, ucall.e, ustack, uheap, ucode, t, es, tr)
    BY <1>1, <1>2 DEF InThm
  <2>3. Head(ucode).op # "Dummy"
    BY <1>1 DEF UMode
  <2>4. Trace(file.terms, file.thms[t].unify, store, es, ucall.e, ustack', uheap', ucode', Append(tr, UTop))
    <3>1. /\ Trace(file.terms, file.thms[t].unify, store, es, ucall.e, ustack, uheap, ucode, tr)
          /\ es \in Seq(Nat)
      BY <2>2 DEF ThmRun, AddrsGood
    <3> QED BY <3>1, UnifyTrace
  <2>5. ThmRun(file, nthms, store, hstack, ucall.e, ustack', uheap', ucode', t, es, Append(tr, UTop))
    BY <1>1, <1>3, <2>2, <2>3, <2>4, ThmRunNext
  <2> QED BY <2>1, <2>5
<1>5. InUnfold'
  <2> SUFFICES ASSUME ucall.for = "unfold"
               PROVE  \E p, tr : /\ UnfoldRun(file, store, ucall.e, ustack', uheap', ucode', p, tr)
                                 /\ AlwaysSound(file, nthms, store, hstack, Append(stack, CoConv(p)), heap)
    BY <1>1 DEF InUnfold
  <2>1. PICK p, tr : /\ UnfoldRun(file, store, ucall.e, ustack, uheap, ucode, p, tr)
                     /\ AlwaysSound(file, nthms, store, hstack, Append(stack, CoConv(p)), heap)
    BY <1>1, <1>2 DEF InUnfold
  <2>2. Trace(file.terms, file.terms[store[p].id].unify, store, store[p].args, ucall.e,
              ustack', uheap', ucode', Append(tr, UTop))
    <3>1. /\ Trace(file.terms, file.terms[store[p].id].unify, store, store[p].args, ucall.e,
                   ustack, uheap, ucode, tr)
          /\ store[p].args \in Seq(Nat)
      BY <2>1 DEF UnfoldRun, AddrsGood
    <3> QED BY <3>1, UnifyTrace
  <2>3. UnfoldRun(file, store, ucall.e, ustack', uheap', ucode', p, Append(tr, UTop))
    BY <1>1, <1>3, <2>1, <2>2, UnfoldRunNext
  <2> QED BY <2>1, <2>3
<1>6. InEnd'
  <2> SUFFICES ASSUME ucall.for = "end", stmt.kind = "thm", NoHyp(ThmNow.unify)
               PROVE  EndRun(file, nthms, store, hstack, ucall.e, ucode')
    BY <1>1 DEF InEnd, ThmNow
  <2>1. EndRun(file, nthms, store, hstack, ucall.e, ucode)
    BY <1>1, <1>2 DEF InEnd
  <2>2. NoHyp(ucode')
    <3>1. ucode \in Seq(UnifyCmd)
      BY DEF IndInv, UnifyInv
    <3>2. \A k \in DOMAIN ucode' : k + 1 \in DOMAIN ucode /\ ucode'[k] = ucode[k + 1]
      BY <1>1, <3>1
    <3> QED BY <2>1, <3>2 DEF EndRun, NoHyp
  <2> QED BY <2>1, <2>2 DEF EndRun
<1>7. InProof'
  BY <1>1 DEF InProof
<1> QED BY <1>4, <1>5, <1>6, <1>7

LEMMA LogicHyp ==
  ASSUME IndInv, LogicInv, UnifyHypThm \/ UnifyHypEnd
  PROVE  LogicInv'
<1> SUFFICES ASSUME nbv' <= DepsBits, ResultsAreClosed', ~sorry'
             PROVE  InProof' /\ InThm' /\ InUnfold' /\ InEnd'
  BY DEF LogicInv
<1>1. /\ pc = "unify" /\ ucode # <<>> /\ Head(ucode).op = "Hyp"
      /\ UNCHANGED <<file, nthms, stmt, store, heap, nbv, sorry, pc, ucall, uheap>>
  BY DEF UnifyHypThm, UnifyHypEnd, UStep, theory
<1>2. InThm /\ InUnfold /\ InEnd
  <2>1. ResultsAreClosed
    BY <1>1 DEF ResultsAreClosed
  <2> QED BY <1>1, <2>1 DEF LogicInv
<1>3. CASE UnifyHypThm
  <2>1. ucall.for = "thm" /\ hstack' = hstack
    BY <1>3 DEF UnifyHypThm, UMode
  <2>2. /\ AlwaysSound(file, nthms, store, hstack, stack, heap)
        /\ \E t, es, tr : ThmRun(file, nthms, store, hstack, ucall.e, ustack, uheap, ucode, t, es, tr)
    BY <1>1, <1>2, <2>1 DEF InThm
  <2>3. PICK t, es, tr : ThmRun(file, nthms, store, hstack, ucall.e, ustack, uheap, ucode, t, es, tr)
    BY <2>2
  <2>4. /\ AlwaysSound(file, nthms, store, hstack, stack', heap)
        /\ ThmRun(file, nthms, store, hstack, ucall.e, ustack', uheap, ucode', t, es,
                  Append(tr, Top(1).at))
    BY <1>3, <2>2, <2>3, HypRun
  <2>5. InThm'
    BY <1>1, <2>1, <2>4 DEF InThm
  <2> QED BY <1>1, <2>1, <2>5 DEF InProof, InUnfold, InEnd
<1>4. CASE UnifyHypEnd
  <2>1. UMode = "UThmEnd" /\ ucall.for # "thm" /\ ucall.for # "unfold"
    BY <1>4 DEF UnifyHypEnd, UMode
  <2>2. InEnd'
    <3> SUFFICES ASSUME ucall.for = "end", stmt.kind = "thm", NoHyp(ThmNow.unify) PROVE FALSE
      BY <1>1 DEF InEnd, ThmNow
    <3>1. NoHyp(ucode)
      BY <1>1, <1>2 DEF InEnd, EndRun
    <3>2. ucode \in Seq(UnifyCmd)
      BY DEF IndInv, UnifyInv
    <3>3. 1 \in DOMAIN ucode /\ ucode[1].op = "Hyp"
      BY <1>1, <3>2
    <3> QED BY <3>1, <3>3 DEF NoHyp
  <2> QED BY <1>1, <2>1, <2>2 DEF InProof, InThm, InUnfold
<1> QED BY <1>3, <1>4

LEMMA LogicReturn ==
  ASSUME IndInv, DepsInv, LogicInv, ApplyThm \/ ApplyUnfold
  PROVE  LogicInv'
<1> SUFFICES ASSUME nbv' <= DepsBits, ResultsAreClosed', ~sorry'
             PROVE  InProof' /\ InThm' /\ InUnfold' /\ InEnd'
  BY DEF LogicInv
<1>1. /\ pc = "unify" /\ pc' = "proof"
      /\ UNCHANGED <<file, nthms, stmt, store, hstack, nbv, sorry>>
  BY DEF ApplyThm, ApplyUnfold, UnifyEnd, UStep, theory
<1>2. ResultsAreClosed /\ nbv <= DepsBits /\ ~sorry
  BY <1>1 DEF ResultsAreClosed
<1>3. InThm /\ InUnfold
  BY <1>2 DEF LogicInv
<1>4. CASE ApplyThm
  <2>1. ucall.for = "thm"
    BY <1>4 DEF ApplyThm, UnifyEnd
  <2>2. AlwaysSound(file, nthms, store, hstack, stack, heap)
    BY <1>1, <1>3, <2>1 DEF InThm
  <2>3. PICK t, es, tr : ThmRun(file, nthms, store, hstack, ucall.e, ustack, uheap, ucode, t, es, tr)
    BY <1>1, <1>3, <2>1 DEF InThm
  <2>4. AlwaysSound(file, nthms, store, hstack, stack', heap')
    BY <1>2, <1>4, <2>2, <2>3, ThmReturns
  <2> QED BY <1>1, <2>4 DEF InProof, InThm, InUnfold, InEnd
<1>5. CASE ApplyUnfold
  <2>1. ucall.for = "unfold" /\ heap' = heap
    BY <1>5 DEF ApplyUnfold, UnifyEnd
  <2>2. PICK p, tr : /\ UnfoldRun(file, store, ucall.e, ustack, uheap, ucode, p, tr)
                     /\ AlwaysSound(file, nthms, store, hstack, Append(stack, CoConv(p)), heap)
    BY <1>1, <1>3, <2>1 DEF InUnfold
  <2>3. p \in Nat
    <3>1. p \in DOMAIN store /\ store \in Seq(Cell)
      BY <2>2 DEF UnfoldRun, ExprIn, IndInv, StoreInv, StoreGood
    <3> QED BY <3>1
  <2>4. AlwaysSound(file, nthms, store, hstack, stack', heap)
    BY <1>2, <1>5, <2>2, <2>3, UnfoldReturns
  <2> QED BY <1>1, <2>1, <2>4 DEF InProof, InThm, InUnfold, InEnd
<1> QED BY <1>4, <1>5

LEMMA LogicInductive ==
  /\ Init => LogicInv
  /\ IndInv /\ DepsInv /\ LogicInv /\ [Next]_vars => LogicInv'
<1>1. Init => LogicInv
  BY DEF Init, LogicInv, InProof, InThm, InUnfold, InEnd
<1>2. ASSUME IndInv, DepsInv, LogicInv, UnifyStep PROVE LogicInv'
  <2>1. CASE FinishDef \/ FinishThm
    BY <2>1, LogicIdle DEF FinishDef, FinishThm
  <2> QED BY <1>2, <2>1, LogicRead, LogicHyp, LogicReturn DEF UnifyStep
<1>3. ASSUME Reject PROVE LogicInv'
  BY <1>3, LogicIdle DEF Reject
<1>4. ASSUME LogicInv, UNCHANGED vars PROVE LogicInv'
  <2>1. UNCHANGED <<theory, pc, stmt, machine, unifier>>
    BY <1>4 DEF vars
  <2> QED BY <1>4, <2>1 DEF LogicInv, InProof, InThm, InUnfold, InEnd, theory, machine, unifier,
                            ResultsAreClosed, ThmNow
<1> QED BY <1>2, <1>1, <1>3, <1>4, LogicStatement, LogicProof DEF Next

-----------------------------------------------------------------------------
(* What the invariant says of a state *)

(* The state's own world is one that its store may grow to.                *)
LEMMA NowIsFuture ==
  ASSUME IndInv, NEW w, w = Now
  PROVE  /\ Future(file, nthms, store, hstack, w, Hypotheses(w, hstack))
         /\ hstack = <<>> => Future(file, nthms, store, hstack, w, {})
<1>1. /\ w.terms = file.terms /\ w.thms = Declared(file, nthms) /\ w.cells = store
      /\ w = World(w.terms, w.thms, w.cells)
  BY DEF Now, World, Declared
<1>2. StoreGood(store, file, nsorts, nterms)
  BY DEF IndInv, StoreInv
<1>3. Grows(file.terms, store, w)
  BY <1>1, <1>2, StoreIsTidy, ExtendsRefl DEF IsWorld, Grows
<1>4. Hypotheses(w, hstack) \in SUBSET w.trees
  <2>1. \A k \in DOMAIN hstack : ExprIn(store, hstack[k])
    BY DEF IndInv, HypsInv, AddrsGood
  <2> QED BY <1>2, <1>3, <2>1, CellsInWorld DEF Hypotheses
<1>5. hstack = <<>> => Hypotheses(w, hstack) = {}
  BY DEF Hypotheses
<1> QED BY <1>1, <1>3, <1>4, <1>5 DEF Future

LEMMA LogicSays ==
  ASSUME IndInv, LogicInv, nbv <= DepsBits
  PROVE  ProofsAreDerivable /\ (ResultsAreClosed => AcceptedIsProvable)
<1> DEFINE w == Now
           H == Hypotheses(w, hstack)
<1>1. /\ Future(file, nthms, store, hstack, w, H)
      /\ hstack = <<>> => Future(file, nthms, store, hstack, w, {})
  BY NowIsFuture
<1>2. ASSUME pc = "proof", ~sorry, ResultsAreClosed PROVE Sound(w, H, stack, heap)
  BY <1>1, <1>2 DEF LogicInv, InProof, AlwaysSound
<1>3. ProofsAreDerivable
  BY <1>2 DEF ProofsAreDerivable, Sound, Proved
<1>4. ASSUME ResultsAreClosed, pc = "unify", ucall.for = "end", stmt.kind = "thm", ~sorry,
             hstack = <<>>, NoHyp(ThmNow.unify)
      PROVE  w.mean[ucall.e].tree \in Proved(w, {})
  BY <1>1, <1>4 DEF LogicInv, InEnd, EndRun
<1>5. ResultsAreClosed => AcceptedIsProvable
  BY <1>4 DEF AcceptedIsProvable, Proved, NoHyp
<1> QED BY <1>3, <1>5

(* Whatever a proof's commands have put on the stack or the heap follows   *)
(* from the declared theorems and the hypotheses, once the obligations     *)
(* above it are met: for any tables whose results depend on no bound       *)
(* argument, any proof stream and any capacities, as long as a statement   *)
(* has at most DepsBits bound variables.                                   *)
THEOREM VerifierProofsDerivable == Spec => [](nbv <= DepsBits => ProofsAreDerivable)
<1>1. IndInv /\ LogicInv => (nbv <= DepsBits => ProofsAreDerivable)
  BY LogicSays
<1> QED BY <1>1, VerifierInductive, DepsInductive, LogicInductive, PTL DEF Spec

(* A theorem without hypotheses is entered in the table only if it is a    *)
(* theorem of the logic, under the same conditions.  Without the one on    *)
(* the results it is false (AcceptedIsProvable).                           *)
THEOREM VerifierAcceptedIsProvable ==
  Spec => [](nbv <= DepsBits /\ ResultsAreClosed => AcceptedIsProvable)
<1>1. IndInv /\ LogicInv => (nbv <= DepsBits /\ ResultsAreClosed => AcceptedIsProvable)
  BY LogicSays
<1> QED BY <1>1, VerifierInductive, DepsInductive, LogicInductive, PTL DEF Spec

=============================================================================
