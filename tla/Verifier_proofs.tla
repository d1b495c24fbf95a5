--------------------------- MODULE Verifier_proofs ---------------------------
(***************************************************************************)
(* Proofs about the mm0-c kernel: whatever the commands, the stacks and    *)
(* heaps keep their types and capacities, every pointer is to a cell of    *)
(* the right kind, the store is an acyclic graph of well sorted            *)
(* expressions, and conversions and obligations keep their two slots.      *)
(*                                                                         *)
(* The predicates on the store, the stack and the heap are stated here of  *)
(* values, so that lemmas about them need no primes; a state's own         *)
(* predicates in Verifier are instances of them.                           *)
(***************************************************************************)
EXTENDS Verifier, TLAPS, SequenceTheorems, FiniteSetTheorems

ExprIn(st, a) == a \in DOMAIN st /\ st[a].tag \in {"var", "term"}

FitIn(st, A, es) ==
  \A i \in 1..Len(A) : SortsCompatible(st[es[i]].type, A[i])

(* The cell x, stored at address a of st, with ns sorts and nt terms of    *)
(* the file f declared.                                                    *)
CellIn(st, a, x, f, ns, nt) ==
  /\ x.tag = "var" => x.type.sort \in 1..ns
  /\ x.tag = "term" =>
       /\ x.id \in 1..nt
       /\ x.type.sort = f.terms[x.id].sort
       /\ Len(x.args) = Len(f.terms[x.id].args)
       /\ \A i \in 1..Len(x.args) : x.args[i] < a /\ ExprIn(st, x.args[i])
       /\ FitIn(st, f.terms[x.id].args, x.args)
  /\ x.tag = "conv" => ExprIn(st, x.e1) /\ ExprIn(st, x.e2)

StoreGood(st, f, ns, nt) ==
  /\ st \in Seq(Cell)
  /\ \A a \in DOMAIN st : CellIn(st, a, st[a], f, ns, nt)

(* t has the cells of s and perhaps more. *)
Extends(s, t) ==
  /\ DOMAIN s \subseteq DOMAIN t
  /\ \A a \in DOMAIN s : t[a] = s[a]

Paired(s) ==
  \A k \in DOMAIN s :
    s[k].tag \in {"conv", "coconv"} => k > 1 /\ s[k - 1].tag = "expr"

StackGood(st, s) ==
  /\ s \in Seq(Item)
  /\ \A k \in DOMAIN s : ExprIn(st, s[k].at)
  /\ Paired(s)

HeapItemGood(st, x) ==
  /\ x \in Item
  /\ x.tag # "coconv"
  /\ IF x.tag = "conv" THEN x.at \in DOMAIN st /\ st[x.at].tag = "conv"
                       ELSE ExprIn(st, x.at)

HeapGood(st, h) == h \in Seq(Item) /\ \A i \in DOMAIN h : HeapItemGood(st, h[i])

AddrsGood(st, s) == s \in Seq(Nat) /\ \A k \in DOMAIN s : ExprIn(st, s[k])

UHeapItem == [at : Nat, saved : BOOLEAN]
UHeapGood(st, u) == u \in Seq(UHeapItem) /\ \A i \in DOMAIN u : ExprIn(st, u[i].at)

(* The binders of the current statement. *)
NowArgs == IF stmt.kind = "def" THEN TermNow.args ELSE ThmNow.args

(***************************************************************************)
(* The inductive invariant, in parts.                                      *)
(***************************************************************************)
TheoryInv ==
  /\ file \in Files
  /\ pc \in {"stmt", "proof", "unify", "accepted", "sorry", "rejected"}
  /\ nsorts \in 0..Len(file.sorts)
  /\ nterms \in 0..Len(file.terms)
  /\ nthms \in 0..Len(file.thms)
  /\ stmt \in [kind : {"none", "def", "axiom", "thm"}, local : BOOLEAN]
  /\ TermsDeclared
  /\ Current
  /\ (pc \in {"proof", "unify"} /\ stmt.kind = "def") => TermNow.sort \in 1..nsorts
  /\ pc = "unify" => /\ ucall.for = "def" => stmt.kind = "def"
                     /\ ucall.for = "end" => stmt.kind # "def"

FlagsInv ==
  /\ nbv \in 0..(DepsBits + 1)
  /\ sorry \in BOOLEAN /\ anysorry \in BOOLEAN

StoreInv == StoreGood(store, file, nsorts, nterms) /\ Len(store) <= StoreSize

StackInv == StackGood(store, stack) /\ Len(stack) <= StackSize

HeapInv ==
  /\ HeapGood(store, heap) /\ Len(heap) <= HeapSize
  /\ pc \in {"proof", "unify"} =>
       \A i \in 1..Len(NowArgs) : i \in DOMAIN heap /\ ExprIn(store, heap[i].at)

(* A definition has no hypotheses, and those of a theorem are consumed.    *)
HypsInv ==
  /\ AddrsGood(store, hstack) /\ Len(hstack) <= HypStackSize
  /\ (pc = "stmt" \/ stmt.kind = "def") => hstack = <<>>

UnifyInv ==
  /\ ucode \in Seq(UnifyCmd)
  /\ ustack \in Seq(Nat)
  /\ uheap \in Seq(UHeapItem)
  /\ ucall \in [for : {"none", "def", "thm", "unfold", "end"}, e : Nat, save : BOOLEAN]
  /\ pc = "unify" =>
       /\ AddrsGood(store, ustack)
       /\ UHeapGood(store, uheap)
       /\ ExprIn(store, ucall.e)
       /\ ucall.for = "unfold" => stack # <<>> /\ stack[Len(stack)].tag = "expr"

IndInv ==
  /\ TheoryInv /\ FlagsInv /\ StoreInv /\ StackInv /\ HeapInv /\ HypsInv /\ UnifyInv

-----------------------------------------------------------------------------
(* Sequences *)

(* A sequence is a function on 1..Len, and appending keeps what was there. *)
LEMMA AppendFacts ==
  ASSUME NEW S, NEW s \in Seq(S), NEW x \in S
  PROVE  /\ Append(s, x) \in Seq(S)
         /\ Len(s) \in Nat
         /\ Len(Append(s, x)) = Len(s) + 1
         /\ DOMAIN s = 1..Len(s)
         /\ DOMAIN Append(s, x) = 1..(Len(s) + 1)
         /\ Append(s, x)[Len(s) + 1] = x
         /\ \A i \in 1..Len(s) : Append(s, x)[i] = s[i]
  OBVIOUS

(* What is left when the k top elements are dropped is a prefix. *)
LEMMA PrefixFacts ==
  ASSUME NEW S, NEW s \in Seq(S), NEW k \in 0..Len(s)
  PROVE  /\ SubSeq(s, 1, Len(s) - k) \in Seq(S)
         /\ Len(SubSeq(s, 1, Len(s) - k)) = Len(s) - k
         /\ DOMAIN SubSeq(s, 1, Len(s) - k) = 1..(Len(s) - k)
         /\ \A i \in 1..(Len(s) - k) : SubSeq(s, 1, Len(s) - k)[i] = s[i]
  OBVIOUS

(* The elements of a concatenation. *)
LEMMA ConcatFacts ==
  ASSUME NEW S, NEW s \in Seq(S), NEW t \in Seq(S)
  PROVE  /\ s \o t \in Seq(S)
         /\ Len(s \o t) = Len(s) + Len(t)
         /\ DOMAIN (s \o t) = 1..(Len(s) + Len(t))
         /\ \A i \in 1..Len(s) : (s \o t)[i] = s[i]
         /\ \A i \in (Len(s) + 1)..(Len(s) + Len(t)) :
              i - Len(s) \in 1..Len(t) /\ (s \o t)[i] = t[i - Len(s)]
<1>1. /\ s \o t \in Seq(S)
      /\ Len(s \o t) = Len(s) + Len(t)
      /\ \A i \in 1..(Len(s) + Len(t)) :
           (s \o t)[i] = IF i <= Len(s) THEN s[i] ELSE t[i - Len(s)]
  BY ConcatProperties
<1>2. Len(s) \in Nat /\ Len(t) \in Nat
  OBVIOUS
<1>3. DOMAIN (s \o t) = 1..(Len(s) + Len(t))
  BY <1>1
<1>4. \A i \in 1..Len(s) : (s \o t)[i] = s[i]
  BY <1>1, <1>2
<1>5. \A i \in (Len(s) + 1)..(Len(s) + Len(t)) :
        i - Len(s) \in 1..Len(t) /\ (s \o t)[i] = t[i - Len(s)]
  BY <1>1, <1>2
<1> QED
  BY <1>1, <1>3, <1>4, <1>5

-----------------------------------------------------------------------------
(* A store that grows *)

(* A pointer to an expression stays one. *)
LEMMA ExprInExtends ==
  ASSUME NEW s, NEW t, Extends(s, t), NEW a, ExprIn(s, a)
  PROVE  ExprIn(t, a)
  BY DEF Extends, ExprIn

(* So do the predicates on the stack, the heaps and the address lists. *)
LEMMA StackGoodExtends ==
  ASSUME NEW s, NEW t, Extends(s, t), NEW st, StackGood(s, st)
  PROVE  StackGood(t, st)
  BY ExprInExtends DEF StackGood

(* So does an entry of the heap,                                           *)
LEMMA HeapItemGoodExtends ==
  ASSUME NEW s, NEW t, Extends(s, t), NEW x, HeapItemGood(s, x)
  PROVE  HeapItemGood(t, x)
  BY ExprInExtends DEF HeapItemGood, Extends

(* the heap,                                                               *)
LEMMA HeapGoodExtends ==
  ASSUME NEW s, NEW t, Extends(s, t), NEW h, HeapGood(s, h)
  PROVE  HeapGood(t, h)
  BY HeapItemGoodExtends DEF HeapGood

(* and a list of addresses: hypothesis stack, unify stack.                 *)
LEMMA AddrsGoodExtends ==
  ASSUME NEW s, NEW t, Extends(s, t), NEW h, AddrsGood(s, h)
  PROVE  AddrsGood(t, h)
  BY ExprInExtends DEF AddrsGood

(* A cell stays good in a store that has grown. *)
LEMMA CellInExtends ==
  ASSUME NEW s, NEW t, Extends(s, t), NEW a, NEW x, NEW f, NEW ns, NEW nt,
         CellIn(s, a, x, f, ns, nt)
  PROVE  CellIn(t, a, x, f, ns, nt)
<1>1. x.tag = "var" => x.type.sort \in 1..ns
  BY DEF CellIn
<1>2. ASSUME x.tag = "term"
      PROVE  /\ x.id \in 1..nt
             /\ x.type.sort = f.terms[x.id].sort
             /\ Len(x.args) = Len(f.terms[x.id].args)
             /\ \A i \in 1..Len(x.args) : x.args[i] < a /\ ExprIn(t, x.args[i])
             /\ FitIn(t, f.terms[x.id].args, x.args)
  <2>1. /\ x.id \in 1..nt
        /\ x.type.sort = f.terms[x.id].sort
        /\ Len(x.args) = Len(f.terms[x.id].args)
        /\ \A i \in 1..Len(x.args) : x.args[i] < a /\ ExprIn(s, x.args[i])
        /\ FitIn(s, f.terms[x.id].args, x.args)
    BY <1>2 DEF CellIn
  <2>2. \A i \in 1..Len(x.args) : ExprIn(t, x.args[i]) /\ t[x.args[i]] = s[x.args[i]]
    BY <2>1, ExprInExtends DEF Extends, ExprIn
  <2>3. FitIn(t, f.terms[x.id].args, x.args)
    BY <2>1, <2>2 DEF FitIn
  <2> QED
    BY <2>1, <2>2, <2>3
<1>3. x.tag = "conv" => ExprIn(t, x.e1) /\ ExprIn(t, x.e2)
  BY ExprInExtends DEF CellIn
<1> QED
  BY <1>1, <1>2, <1>3 DEF CellIn

(* Append extends. *)
LEMMA AppendExtends ==
  ASSUME NEW S, NEW s \in Seq(S), NEW x \in S
  PROVE  Extends(s, Append(s, x))
  BY AppendFacts DEF Extends

(* A store with a good cell more is good. *)
LEMMA StoreGoodAppend ==
  ASSUME NEW s, NEW f, NEW ns, NEW nt, StoreGood(s, f, ns, nt),
         NEW x \in Cell, CellIn(s, Len(s) + 1, x, f, ns, nt)
  PROVE  StoreGood(Append(s, x), f, ns, nt)
<1> DEFINE t == Append(s, x)
<1>1. s \in Seq(Cell)
  BY DEF StoreGood
<1>2. /\ t \in Seq(Cell)
      /\ DOMAIN s = 1..Len(s) /\ Len(s) \in Nat
      /\ DOMAIN t = 1..(Len(s) + 1)
      /\ t[Len(s) + 1] = x
      /\ \A i \in 1..Len(s) : t[i] = s[i]
  BY <1>1, AppendFacts
<1>3. Extends(s, t)
  BY <1>1, AppendExtends
<1> HIDE DEF t
<1>4. ASSUME NEW a \in DOMAIN t
      PROVE  CellIn(t, a, t[a], f, ns, nt)
  <2>1. CASE a \in DOMAIN s
    <3>1. CellIn(s, a, s[a], f, ns, nt) /\ t[a] = s[a]
      BY <2>1, <1>2 DEF StoreGood
    <3> QED
      BY <3>1, <1>3, CellInExtends
  <2>2. CASE a = Len(s) + 1
    BY <2>2, <1>2, <1>3, CellInExtends
  <2> QED
    BY <1>2, <1>4, <2>1, <2>2
<1> QED
  BY <1>2, <1>4 DEF StoreGood, t

(* A good store stays good when more is declared. *)
LEMMA StoreGoodDeclare ==
  ASSUME NEW s, NEW f, NEW ns \in Nat, NEW nt \in Nat, StoreGood(s, f, ns, nt),
         NEW ns2 \in Nat, NEW nt2 \in Nat, ns <= ns2, nt <= nt2
  PROVE  StoreGood(s, f, ns2, nt2)
<1>1. 1..ns \subseteq 1..ns2 /\ 1..nt \subseteq 1..nt2
  OBVIOUS
<1> QED
  BY <1>1 DEF StoreGood, CellIn

-----------------------------------------------------------------------------
(* The stack *)

(* What is left of a good stack is good. *)
LEMMA StackGoodPrefix ==
  ASSUME NEW st, NEW s, StackGood(st, s), NEW k \in 0..Len(s)
  PROVE  StackGood(st, SubSeq(s, 1, Len(s) - k))
<1> DEFINE p == SubSeq(s, 1, Len(s) - k)
<1>1. s \in Seq(Item) /\ Len(s) \in Nat /\ DOMAIN s = 1..Len(s)
  BY DEF StackGood
<1>2. /\ p \in Seq(Item)
      /\ DOMAIN p = 1..(Len(s) - k)
      /\ \A i \in 1..(Len(s) - k) : p[i] = s[i]
  BY <1>1, PrefixFacts
<1> HIDE DEF p
<1>3. \A i \in DOMAIN p : i \in DOMAIN s /\ p[i] = s[i]
  BY <1>1, <1>2
<1>4. \A i \in DOMAIN p : i > 1 => i - 1 \in DOMAIN p
  BY <1>1, <1>2
<1>5. Paired(p)
  BY <1>3, <1>4 DEF StackGood, Paired
<1>6. \A i \in DOMAIN p : ExprIn(st, p[i].at)
  BY <1>3 DEF StackGood
<1> QED
  BY <1>2, <1>5, <1>6 DEF StackGood, p

(* Pushing a good sequence on a good stack. *)
LEMMA StackGoodConcat ==
  ASSUME NEW st, NEW s, StackGood(st, s), NEW es, StackGood(st, es)
  PROVE  StackGood(st, s \o es)
<1> DEFINE c == s \o es
<1>1. /\ s \in Seq(Item) /\ es \in Seq(Item)
      /\ Len(s) \in Nat /\ Len(es) \in Nat
      /\ DOMAIN s = 1..Len(s) /\ DOMAIN es = 1..Len(es)
  BY DEF StackGood
<1>2. /\ c \in Seq(Item)
      /\ DOMAIN c = 1..(Len(s) + Len(es))
      /\ \A i \in 1..Len(s) : c[i] = s[i]
      /\ \A i \in (Len(s) + 1)..(Len(s) + Len(es)) :
           i - Len(s) \in 1..Len(es) /\ c[i] = es[i - Len(s)]
  BY <1>1, ConcatFacts
<1> HIDE DEF c
<1>3. ASSUME NEW i \in DOMAIN c
      PROVE  /\ ExprIn(st, c[i].at)
             /\ c[i].tag \in {"conv", "coconv"} => i > 1 /\ c[i - 1].tag = "expr"
  <2>1. CASE i \in 1..Len(s)
    <3>1. c[i] = s[i] /\ (i > 1 => c[i - 1] = s[i - 1])
      BY <2>1, <1>1, <1>2
    <3> QED
      BY <3>1, <2>1, <1>1 DEF StackGood, Paired
  <2>2. CASE i \in (Len(s) + 1)..(Len(s) + Len(es))
    <3>1. i - Len(s) \in DOMAIN es /\ c[i] = es[i - Len(s)]
      BY <2>2, <1>1, <1>2
    <3>2. ASSUME c[i].tag \in {"conv", "coconv"}
          PROVE  i > 1 /\ c[i - 1].tag = "expr"
      <4>1. i - Len(s) > 1 /\ es[(i - Len(s)) - 1].tag = "expr"
        BY <3>1, <3>2 DEF StackGood, Paired
      <4>2. i - 1 \in (Len(s) + 1)..(Len(s) + Len(es))
        BY <4>1, <2>2, <1>1
      <4>3. c[i - 1] = es[(i - 1) - Len(s)]
        BY <4>2, <1>2
      <4>4. (i - 1) - Len(s) = (i - Len(s)) - 1 /\ i > 1
        BY <4>1, <2>2, <1>1
      <4> QED
        BY <4>1, <4>3, <4>4
    <3> QED
      BY <3>1, <3>2 DEF StackGood
  <2> QED
    BY <1>1, <1>2, <1>3, <2>1, <2>2
<1>4. Paired(c)
  BY <1>3 DEF Paired
<1> QED
  BY <1>2, <1>3, <1>4 DEF StackGood, c

(* One item that is neither a conversion nor an obligation. *)
LEMMA StackGoodItem ==
  ASSUME NEW st, NEW x \in Item, x.tag \in {"expr", "proof"}, ExprIn(st, x.at)
  PROVE  StackGood(st, <<x>>)
<1>1. <<x>> \in Seq(Item) /\ DOMAIN <<x>> = {1} /\ <<x>>[1] = x
  OBVIOUS
<1> QED
  BY <1>1 DEF StackGood, Paired

(* A conversion or an obligation, its second expression below it. *)
LEMMA StackGoodPair ==
  ASSUME NEW st, NEW x \in Item, NEW y \in Item,
         x.tag = "expr", ExprIn(st, x.at), ExprIn(st, y.at)
  PROVE  StackGood(st, <<x, y>>)
<1>1. /\ <<x, y>> \in Seq(Item) /\ DOMAIN <<x, y>> = 1..2
      /\ <<x, y>>[1] = x /\ <<x, y>>[2] = y
  OBVIOUS
<1>2. \A k \in 1..2 : k = 1 \/ k = 2
  OBVIOUS
<1>3. Paired(<<x, y>>)
  <2> SUFFICES ASSUME NEW k \in 1..2, <<x, y>>[k].tag \in {"conv", "coconv"}
               PROVE  k > 1 /\ <<x, y>>[k - 1].tag = "expr"
    BY <1>1 DEF Paired
  <2>1. k = 2
    BY <1>1, <1>2
  <2> QED
    BY <2>1, <1>1
<1> QED
  BY <1>1, <1>2, <1>3 DEF StackGood

(* An obligation pushed on its second expression, as Unfold leaves it. *)
LEMMA StackGoodOnExpr ==
  ASSUME NEW st, NEW s, StackGood(st, s), s # <<>>, s[Len(s)].tag = "expr",
         NEW x \in Item, ExprIn(st, x.at)
  PROVE  StackGood(st, s \o <<x>>)
<1>1. /\ s \in Seq(Item) /\ Len(s) \in Nat \ {0} /\ DOMAIN s = 1..Len(s)
      /\ <<x>> \in Seq(Item) /\ Len(<<x>>) = 1 /\ <<x>>[1] = x
  BY DEF StackGood
<1> DEFINE c == s \o <<x>>
<1>2. /\ c \in Seq(Item)
      /\ DOMAIN c = 1..(Len(s) + 1)
      /\ \A i \in 1..Len(s) : c[i] = s[i]
      /\ c[Len(s) + 1] = x
  <2>1. /\ c \in Seq(Item)
        /\ DOMAIN c = 1..(Len(s) + Len(<<x>>))
        /\ \A i \in 1..Len(s) : c[i] = s[i]
        /\ \A i \in (Len(s) + 1)..(Len(s) + Len(<<x>>)) :
             i - Len(s) \in 1..Len(<<x>>) /\ c[i] = <<x>>[i - Len(s)]
    BY <1>1, ConcatFacts
  <2>2. Len(s) + 1 \in (Len(s) + 1)..(Len(s) + Len(<<x>>)) /\ (Len(s) + 1) - Len(s) = 1
    BY <1>1
  <2> QED
    BY <2>1, <2>2, <1>1
<1> HIDE DEF c
<1>3. ASSUME NEW i \in DOMAIN c
      PROVE  /\ ExprIn(st, c[i].at)
             /\ c[i].tag \in {"conv", "coconv"} => i > 1 /\ c[i - 1].tag = "expr"
  <2>1. CASE i \in 1..Len(s)
    <3>1. c[i] = s[i] /\ (i > 1 => c[i - 1] = s[i - 1])
      BY <2>1, <1>1, <1>2
    <3> QED
      BY <3>1, <2>1, <1>1 DEF StackGood, Paired
  <2>2. CASE i = Len(s) + 1
    <3>1. i > 1 /\ i - 1 = Len(s) /\ Len(s) \in 1..Len(s)
      BY <2>2, <1>1
    <3> QED
      BY <3>1, <2>2, <1>2
  <2> QED
    BY <1>1, <1>2, <1>3, <2>1, <2>2
<1>4. Paired(c)
  BY <1>3 DEF Paired
<1> QED
  BY <1>2, <1>3, <1>4 DEF StackGood, c

-----------------------------------------------------------------------------
(* The invariant's parts say what Verifier's own predicates say. *)

(* The store's part gives StoreWellFormed.                                 *)
LEMMA StoreInvWellFormed ==
  ASSUME StoreInv
  PROVE  StoreWellFormed
<1> SUFFICES ASSUME NEW a \in DOMAIN store PROVE CellOK(a)
  BY DEF StoreWellFormed
<1>1. CellIn(store, a, store[a], file, nsorts, nterms)
  BY DEF StoreInv, StoreGood
<1> QED
  BY <1>1 DEF CellIn, CellOK, ExprIn, IsExpr, FitIn, ArgsFit

(* The stack's part gives the pairing of its slots.                        *)
LEMMA StackInvPaired ==
  ASSUME StackInv, UnifyInv
  PROVE  ConversionsPaired
  BY DEF StackInv, StackGood, Paired, UnifyInv, ConversionsPaired

(* The parts together give PointersValid.                                  *)
LEMMA InvPointers ==
  ASSUME StackInv, HeapInv, HypsInv, UnifyInv
  PROVE  PointersValid
<1>1. \A k \in DOMAIN stack : IsExpr(stack[k].at)
  BY DEF StackInv, StackGood, ExprIn, IsExpr
<1>2. \A i \in DOMAIN heap :
        IF heap[i].tag = "conv"
        THEN heap[i].at \in DOMAIN store /\ store[heap[i].at].tag = "conv"
        ELSE IsExpr(heap[i].at)
  BY DEF HeapInv, HeapGood, HeapItemGood, ExprIn, IsExpr
<1>3. \A k \in DOMAIN hstack : IsExpr(hstack[k])
  BY DEF HypsInv, AddrsGood, ExprIn, IsExpr
<1>4. pc = "unify" => /\ \A k \in DOMAIN ustack : IsExpr(ustack[k])
                      /\ \A i \in DOMAIN uheap : IsExpr(uheap[i].at)
                      /\ IsExpr(ucall.e)
  BY DEF UnifyInv, AddrsGood, UHeapGood, ExprIn, IsExpr
<1> QED
  BY <1>1, <1>2, <1>3, <1>4 DEF PointersValid

(* The heap's part rules out saved obligations.                            *)
LEMMA HeapInvNoObligation ==
  ASSUME HeapInv
  PROVE  HeapHoldsNoObligation
  BY DEF HeapInv, HeapGood, HeapItemGood, HeapHoldsNoObligation

-----------------------------------------------------------------------------
(* The tests and the moves on the stack *)

(* as_type on the top of the stack: it is there and has the tag.           *)
LEMMA TagsOne ==
  ASSUME StackInv, NEW t, Tags(<<t>>)
  PROVE  /\ 1 \in 0..Len(stack) /\ Len(stack) \in Nat
         /\ Top(1) \in Item /\ Top(1).tag = t /\ ExprIn(store, Top(1).at)
<1>1. /\ stack \in Seq(Item) /\ Len(stack) \in Nat /\ DOMAIN stack = 1..Len(stack)
      /\ Len(<<t>>) = 1 /\ <<t>>[1] = t
  BY DEF StackInv, StackGood
<1>2. Len(stack) >= 1 /\ stack[Len(stack) - 1 + 1].tag = t
  BY <1>1 DEF Tags
<1>3. Len(stack) \in DOMAIN stack /\ Len(stack) - 1 + 1 = Len(stack)
  BY <1>1, <1>2
<1> QED
  BY <1>1, <1>2, <1>3 DEF Top, StackInv, StackGood

(* as_type on the two top elements.                                        *)
LEMMA TagsTwo ==
  ASSUME StackInv, NEW t, NEW u, Tags(<<t, u>>)
  PROVE  /\ 2 \in 0..Len(stack) /\ Len(stack) \in Nat
         /\ Top(1) \in Item /\ Top(1).tag = u /\ ExprIn(store, Top(1).at)
         /\ Top(2) \in Item /\ Top(2).tag = t /\ ExprIn(store, Top(2).at)
<1>1. /\ stack \in Seq(Item) /\ Len(stack) \in Nat /\ DOMAIN stack = 1..Len(stack)
      /\ Len(<<t, u>>) = 2 /\ <<t, u>>[1] = t /\ <<t, u>>[2] = u
  BY DEF StackInv, StackGood
<1>2. /\ Len(stack) >= 2
      /\ stack[Len(stack) - 2 + 1].tag = t /\ stack[Len(stack) - 2 + 2].tag = u
  BY <1>1 DEF Tags
<1>3. /\ Len(stack) \in DOMAIN stack /\ Len(stack) - 1 \in DOMAIN stack
      /\ Len(stack) - 2 + 2 = Len(stack) /\ Len(stack) - 2 + 1 = Len(stack) - 1
      /\ Len(stack) - 1 + 1 = Len(stack)
  BY <1>1, <1>2
<1> QED
  BY <1>1, <1>2, <1>3 DEF Top, StackInv, StackGood

(* Popping keeps the stack good.                                           *)
LEMMA DropKeeps ==
  ASSUME StackInv, NEW k \in 0..Len(stack)
  PROVE  StackGood(store, Drop(k)) /\ Len(Drop(k)) <= StackSize
<1>1. stack \in Seq(Item) /\ Len(stack) \in Nat /\ Len(stack) <= StackSize
  BY DEF StackInv, StackGood
<1>2. StackGood(store, Drop(k))
  BY StackGoodPrefix DEF StackInv, Drop
<1>3. Len(Drop(k)) = Len(stack) - k
  BY <1>1, PrefixFacts DEF Drop
<1> QED
  BY <1>1, <1>2, <1>3, VerifierAssumption

(* push_stack, with its test for the capacity, keeps the stack good.       *)
LEMMA PushKeeps ==
  ASSUME NEW st, NEW s, StackGood(st, s), NEW es, StackGood(st, es), PushOn(s, es)
  PROVE  StackGood(st, stack') /\ Len(stack') <= StackSize
<1>1. s \in Seq(Item) /\ es \in Seq(Item)
  BY DEF StackGood
<1>2. Len(s \o es) = Len(s) + Len(es)
  BY <1>1, ConcatFacts
<1> QED
  BY <1>2, StackGoodConcat DEF PushOn

(* A command that changes nothing but the main stack. *)
LEMMA StackOnly ==
  ASSUME IndInv, pc = "proof",
         StackGood(store, stack'), Len(stack') <= StackSize,
         UNCHANGED <<theory, spec, pc, stmt, store, heap, hstack, nbv, sorry, anysorry, unifier>>
  PROVE  IndInv'
<1> USE DEF IndInv, theory, unifier
<1>1. TheoryInv'
  BY DEF TheoryInv, TermsDeclared, Current, TermNow
<1>2. FlagsInv'
  BY DEF FlagsInv
<1>3. StoreInv' /\ StackInv'
  BY DEF StoreInv, StackInv
<1>4. HeapInv'
  BY DEF HeapInv, NowArgs, TermNow, ThmNow
<1>5. HypsInv'
  BY DEF HypsInv
<1>6. UnifyInv'
  BY DEF UnifyInv
<1> QED
  BY <1>1, <1>2, <1>3, <1>4, <1>5, <1>6

(* Refl pops an obligation with its second expression.                     *)
LEMMA ReflStep ==
  ASSUME IndInv, ProofRefl
  PROVE  IndInv'
<1>1. StackInv /\ pc = "proof" /\ Tags(<<"expr", "coconv">>) /\ stack' = Drop(2)
  BY DEF IndInv, ProofRefl
<1>2. StackGood(store, stack') /\ Len(stack') <= StackSize
  BY <1>1, TagsTwo, DropKeeps
<1> QED
  BY <1>1, <1>2, StackOnly DEF ProofRefl

(* Symm exchanges the two sides of an obligation.                          *)
LEMMA SymmStep ==
  ASSUME IndInv, ProofSymm
  PROVE  IndInv'
<1> DEFINE x == Expr(Top(1).at)
           y == CoConv(Top(2).at)
<1>1. StackInv /\ pc = "proof" /\ Tags(<<"expr", "coconv">>) /\ PushOn(Drop(2), <<x, y>>)
  BY DEF IndInv, ProofSymm
<1>2. /\ StackGood(store, Drop(2))
      /\ Top(1) \in Item /\ ExprIn(store, Top(1).at)
      /\ Top(2) \in Item /\ ExprIn(store, Top(2).at)
  BY <1>1, TagsTwo, DropKeeps
<1>3. /\ x \in Item /\ x.tag = "expr" /\ ExprIn(store, x.at)
      /\ y \in Item /\ ExprIn(store, y.at)
  BY <1>2 DEF Item, Expr, CoConv
<1> HIDE DEF x, y
<1>4. StackGood(store, stack') /\ Len(stack') <= StackSize
  BY <1>1, <1>2, <1>3, StackGoodPair, PushKeeps
<1> QED
  BY <1>1, <1>4, StackOnly DEF ProofSymm

(* Any sequence of good items that keeps pairs together. *)
LEMMA StackGoodSeq ==
  ASSUME NEW st, NEW n \in Nat, NEW es \in [1..n -> Item],
         \A k \in 1..n : ExprIn(st, es[k].at),
         \A k \in 1..n : es[k].tag \in {"conv", "coconv"} => k > 1 /\ es[k - 1].tag = "expr"
  PROVE  StackGood(st, es)
<1>1. es \in Seq(Item) /\ DOMAIN es = 1..n
  BY SeqDef
<1> QED
  BY <1>1 DEF StackGood, Paired

(* Conv pushes a proof, then the obligation over its second expression.    *)
LEMMA ConvStepKeeps ==
  ASSUME IndInv, ProofConv
  PROVE  IndInv'
<1> DEFINE x == Proof(Top(2).at)
           y == Expr(Top(1).at)
           z == CoConv(Top(2).at)
           es == <<x, y, z>>
<1>1. StackInv /\ pc = "proof" /\ Tags(<<"expr", "proof">>) /\ PushOn(Drop(2), es)
  BY DEF IndInv, ProofConv
<1>2. /\ StackGood(store, Drop(2))
      /\ Top(1) \in Item /\ ExprIn(store, Top(1).at)
      /\ Top(2) \in Item /\ ExprIn(store, Top(2).at)
  BY <1>1, TagsTwo, DropKeeps
<1>3. /\ x \in Item /\ x.tag = "proof" /\ ExprIn(store, x.at)
      /\ y \in Item /\ y.tag = "expr" /\ ExprIn(store, y.at)
      /\ z \in Item /\ z.tag = "coconv" /\ ExprIn(store, z.at)
  BY <1>2 DEF Item, Expr, CoConv, Proof
<1> HIDE DEF x, y, z
<1>4. /\ es \in [1..3 -> Item]
      /\ es[1] = x /\ es[2] = y /\ es[3] = z
      /\ \A k \in 1..3 : k = 1 \/ k = 2 \/ k = 3
      /\ 3 - 1 = 2
  BY <1>3
<1> HIDE DEF es
<1>5. StackGood(store, es)
  <2>1. \A k \in 1..3 : ExprIn(store, es[k].at)
    BY <1>3, <1>4
  <2>2. \A k \in 1..3 : es[k].tag \in {"conv", "coconv"} => k > 1 /\ es[k - 1].tag = "expr"
    BY <1>3, <1>4
  <2> QED
    BY <1>4, <2>1, <2>2, StackGoodSeq
<1>6. StackGood(store, stack') /\ Len(stack') <= StackSize
  BY <1>1, <1>2, <1>5, PushKeeps
<1> QED
  BY <1>1, <1>6, StackOnly DEF ProofConv

(* ConvCut pushes an assertion and its obligation, both paired.            *)
LEMMA ConvCutStep ==
  ASSUME IndInv, ProofConvCut
  PROVE  IndInv'
<1> DEFINE x == Expr(Top(2).at)
           y == Conv(Top(1).at)
           z == CoConv(Top(1).at)
           es == <<x, y, x, z>>
<1>1. StackInv /\ pc = "proof" /\ Tags(<<"expr", "coconv">>) /\ PushOn(Drop(2), es)
  BY DEF IndInv, ProofConvCut
<1>2. /\ StackGood(store, Drop(2))
      /\ Top(1) \in Item /\ ExprIn(store, Top(1).at)
      /\ Top(2) \in Item /\ ExprIn(store, Top(2).at)
  BY <1>1, TagsTwo, DropKeeps
<1>3. /\ x \in Item /\ x.tag = "expr" /\ ExprIn(store, x.at)
      /\ y \in Item /\ y.tag = "conv" /\ ExprIn(store, y.at)
      /\ z \in Item /\ z.tag = "coconv" /\ ExprIn(store, z.at)
  BY <1>2 DEF Item, Expr, CoConv, Conv
<1> HIDE DEF x, y, z
<1>4. /\ es \in [1..4 -> Item]
      /\ es[1] = x /\ es[2] = y /\ es[3] = x /\ es[4] = z
      /\ \A k \in 1..4 : k = 1 \/ k = 2 \/ k = 3 \/ k = 4
      /\ 2 - 1 = 1 /\ 4 - 1 = 3
  BY <1>3
<1> HIDE DEF es
<1>5. StackGood(store, es)
  <2>1. \A k \in 1..4 : ExprIn(store, es[k].at)
    BY <1>3, <1>4
  <2>2. \A k \in 1..4 : es[k].tag \in {"conv", "coconv"} => k > 1 /\ es[k - 1].tag = "expr"
    BY <1>3, <1>4
  <2> QED
    BY <1>4, <2>1, <2>2, StackGoodSeq
<1>6. StackGood(store, stack') /\ Len(stack') <= StackSize
  BY <1>1, <1>2, <1>5, PushKeeps
<1> QED
  BY <1>1, <1>6, StackOnly DEF ProofConvCut

(* Ref pushes a heap entry, or meets an obligation by a saved conversion.  *)
LEMMA RefStep ==
  ASSUME IndInv, NEW i \in DOMAIN heap, ProofRef(i)
  PROVE  IndInv'
<1>1. StackInv /\ pc = "proof" /\ HeapItemGood(store, heap[i])
  BY DEF IndInv, ProofRef, HeapInv, HeapGood
<1>2. CASE heap[i].tag = "conv"
  <2>1. Tags(<<"expr", "coconv">>) /\ stack' = Drop(2)
    BY <1>2 DEF ProofRef
  <2>2. StackGood(store, stack') /\ Len(stack') <= StackSize
    BY <1>1, <2>1, TagsTwo, DropKeeps
  <2> QED
    BY <1>1, <2>2, StackOnly DEF ProofRef
<1>3. CASE heap[i].tag # "conv"
  <2>1. PushOn(stack, <<heap[i]>>) /\ StackGood(store, stack)
    BY <1>1, <1>3 DEF ProofRef, StackInv
  <2>2. heap[i] \in Item /\ heap[i].tag \in {"expr", "proof"} /\ ExprIn(store, heap[i].at)
    BY <1>1, <1>3 DEF HeapItemGood, Item
  <2>3. StackGood(store, stack') /\ Len(stack') <= StackSize
    BY <2>1, <2>2, StackGoodItem, PushKeeps
  <2> QED
    BY <1>1, <2>3, StackOnly DEF ProofRef
<1> QED
  BY <1>2, <1>3

(* The declared entries are in the tables, and are well formed. *)
LEMMA Tables ==
  ASSUME TheoryInv
  PROVE  /\ FileOK(file)
         /\ nsorts \in Nat /\ nterms \in Nat /\ nthms \in Nat
         /\ Len(file.sorts) \in Nat /\ Len(file.terms) \in Nat /\ Len(file.thms) \in Nat
         /\ \A t \in 1..Len(file.terms) : file.terms[t] \in TermEntry
         /\ \A t \in 1..Len(file.thms) : file.thms[t] \in ThmEntry
<1>1. FileOK(file)
  BY VerifierAssumption DEF TheoryInv
<1>2. file.terms \in Seq(TermEntry) /\ file.thms \in Seq(ThmEntry) /\ file.sorts \in Seq(SUBSET Flags)
  BY <1>1 DEF FileOK
<1>3. /\ Len(file.sorts) \in Nat /\ Len(file.terms) \in Nat /\ Len(file.thms) \in Nat
      /\ \A t \in 1..Len(file.terms) : file.terms[t] \in TermEntry
      /\ \A t \in 1..Len(file.thms) : file.thms[t] \in ThmEntry
  BY <1>2
<1> QED
  BY <1>1, <1>3 DEF TheoryInv

(* A term cell has the arguments of its declaration. *)
LEMMA TermCell ==
  ASSUME TheoryInv, StoreInv, NEW a, ExprIn(store, a), store[a].tag = "term"
  PROVE  /\ store[a] \in [tag : {"term"}, id : Nat, args : Seq(Nat), type : Type]
         /\ store[a].id \in 1..nterms
         /\ Len(store[a].args) = Len(file.terms[store[a].id].args)
         /\ \A i \in 1..Len(store[a].args) : ExprIn(store, store[a].args[i])
         /\ \A i \in 1..Len(store[a].args) : store[a].args[i] \in Nat
<1>1. a \in DOMAIN store /\ store \in Seq(Cell) /\ CellIn(store, a, store[a], file, nsorts, nterms)
  BY DEF ExprIn, StoreInv, StoreGood
<1>2. store[a] \in Cell
  BY <1>1
<1>3. store[a] \in [tag : {"term"}, id : Nat, args : Seq(Nat), type : Type]
  BY <1>2 DEF Cell
<1>4. store[a].args \in Seq(Nat)
  BY <1>3
<1>5. \A i \in 1..Len(store[a].args) : store[a].args[i] \in Nat
  BY <1>4
<1>6. /\ store[a].id \in 1..nterms
      /\ Len(store[a].args) = Len(file.terms[store[a].id].args)
      /\ \A i \in 1..Len(store[a].args) : ExprIn(store, store[a].args[i])
  BY <1>1 DEF CellIn
<1> QED
  BY <1>3, <1>5, <1>6

(* Cong replaces an obligation by one for each pair of arguments.          *)
LEMMA CongStep ==
  ASSUME IndInv, ProofCong
  PROVE  IndInv'
<1> DEFINE e1 == store[Top(1).at]
           e2 == store[Top(2).at]
           n == Len(e1.args)
           Arg(k) == n - ((k - 1) \div 2)
           es == [k \in 1..(2 * n) |->
                   IF k % 2 = 1 THEN Expr(e2.args[Arg(k)]) ELSE CoConv(e1.args[Arg(k)])]
<1>1. /\ StackInv /\ StoreInv /\ TheoryInv /\ pc = "proof" /\ Tags(<<"expr", "coconv">>)
      /\ e1.tag = "term" /\ e2.tag = "term" /\ e1.id = e2.id
      /\ PushOn(Drop(2), es)
  BY DEF IndInv, ProofCong
<1>2. /\ StackGood(store, Drop(2))
      /\ ExprIn(store, Top(1).at) /\ ExprIn(store, Top(2).at)
  BY <1>1, TagsTwo, DropKeeps
<1>3. /\ e1.args \in Seq(Nat) /\ n \in Nat
      /\ Len(e2.args) = n
      /\ \A i \in 1..n : ExprIn(store, e1.args[i]) /\ e1.args[i] \in Nat
      /\ \A i \in 1..n : ExprIn(store, e2.args[i]) /\ e2.args[i] \in Nat
  <2>1. /\ e1.args \in Seq(Nat) /\ Len(e1.args) = Len(file.terms[e1.id].args)
        /\ \A i \in 1..Len(e1.args) : ExprIn(store, e1.args[i]) /\ e1.args[i] \in Nat
    BY <1>1, <1>2, TermCell
  <2>2. /\ e2.args \in Seq(Nat) /\ Len(e2.args) = Len(file.terms[e2.id].args)
        /\ \A i \in 1..Len(e2.args) : ExprIn(store, e2.args[i]) /\ e2.args[i] \in Nat
    BY <1>1, <1>2, TermCell
  <2> HIDE DEF e1, e2
  <2>3. Len(e1.args) = Len(e2.args) /\ Len(e1.args) \in Nat
    <3>1. e1.id = e2.id
      BY <1>1
    <3> QED
      BY <2>1, <2>2, <3>1
  <2> QED
    BY <2>1, <2>2, <2>3
<1> HIDE DEF e1, e2, n
<1>4. \A k \in 1..(2 * n) : Arg(k) \in 1..n
  BY <1>3
<1>5. 2 * n \in Nat /\ es \in [1..(2 * n) -> Item]
  BY <1>3, <1>4 DEF Item, Expr, CoConv
<1>6. \A k \in 1..(2 * n) : ExprIn(store, es[k].at)
  BY <1>3, <1>4 DEF Expr, CoConv
<1>7. \A k \in 1..(2 * n) : es[k].tag \in {"conv", "coconv"} => k > 1 /\ es[k - 1].tag = "expr"
  <2> SUFFICES ASSUME NEW k \in 1..(2 * n), es[k].tag \in {"conv", "coconv"}
               PROVE  k > 1 /\ es[k - 1].tag = "expr"
    OBVIOUS
  <2>1. k % 2 # 1
    BY DEF Expr
  <2>2. k \in Nat /\ k >= 1 /\ k <= 2 * n /\ 2 * n \in Nat
    BY <1>3
  <2>3. k % 2 = 0
    BY <2>1, <2>2
  <2>4. k # 1 /\ (k - 1) % 2 = 1
    BY <2>2, <2>3
  <2>5. k > 1 /\ k - 1 \in 1..(2 * n) /\ (k - 1) % 2 = 1
    BY <2>2, <2>4
  <2> QED
    BY <2>5 DEF Expr
<1> HIDE DEF es
<1>8. StackGood(store, es)
  BY <1>5, <1>6, <1>7, StackGoodSeq
<1>9. StackGood(store, stack') /\ Len(stack') <= StackSize
  BY <1>1, <1>2, <1>8, PushKeeps
<1> QED
  BY <1>1, <1>9, StackOnly DEF ProofCong

-----------------------------------------------------------------------------
(* Commands that allocate, save or assume *)

(* A good entry more on the heap.                                          *)
LEMMA HeapGoodAppend ==
  ASSUME NEW st, NEW h, HeapGood(st, h), NEW x, HeapItemGood(st, x)
  PROVE  HeapGood(st, Append(h, x)) /\ Extends(h, Append(h, x)) /\ Len(Append(h, x)) = Len(h) + 1
<1>1. h \in Seq(Item) /\ x \in Item
  BY DEF HeapGood, HeapItemGood
<1> DEFINE g == Append(h, x)
<1>2. /\ g \in Seq(Item) /\ Len(h) \in Nat /\ Len(g) = Len(h) + 1
      /\ DOMAIN h = 1..Len(h) /\ DOMAIN g = 1..(Len(h) + 1)
      /\ g[Len(h) + 1] = x /\ \A i \in 1..Len(h) : g[i] = h[i]
  BY <1>1, AppendFacts
<1> HIDE DEF g
<1>3. \A i \in DOMAIN g : i \in DOMAIN h \/ i = Len(h) + 1
  BY <1>2
<1>4. \A i \in DOMAIN g : HeapItemGood(st, g[i])
  BY <1>2, <1>3 DEF HeapGood
<1>5. Extends(h, g)
  BY <1>2 DEF Extends
<1> QED
  BY <1>2, <1>4, <1>5 DEF HeapGood, g

(* push_heap, with its test for the capacity, keeps the heap good.         *)
LEMMA PushHeapKeeps ==
  ASSUME NEW st, HeapGood(st, heap), NEW x, HeapItemGood(st, x), PushHeap(x)
  PROVE  HeapGood(st, heap') /\ Len(heap') <= HeapSize /\ Extends(heap, heap')
<1>1. heap \in Seq(Item) /\ Len(heap) \in Nat /\ HeapSize \in Nat
  BY VerifierAssumption DEF HeapGood
<1> QED
  BY <1>1, HeapGoodAppend DEF PushHeap

(* The Save variant of a command pushes on the heap what it pushes on the stack. *)
LEMMA SaveIfKeeps ==
  ASSUME NEW st, HeapGood(st, heap), Len(heap) <= HeapSize,
         NEW x, HeapItemGood(st, x), NEW save, SaveIf(save, x)
  PROVE  HeapGood(st, heap') /\ Len(heap') <= HeapSize /\ Extends(heap, heap')
<1>1. CASE save
  BY <1>1, PushHeapKeeps DEF SaveIf
<1>2. CASE ~save
  BY <1>2 DEF SaveIf, Extends
<1> QED
  BY <1>1, <1>2

(* ALLOC of a good cell keeps the store good and only adds to it.          *)
LEMMA AllocKeeps ==
  ASSUME StoreInv, NEW x \in Cell, CellIn(store, Len(store) + 1, x, file, nsorts, nterms), Alloc(x)
  PROVE  /\ StoreGood(store', file, nsorts, nterms) /\ Len(store') <= StoreSize
         /\ Extends(store, store')
         /\ Here \in DOMAIN store' /\ Here \in Nat /\ store'[Here] = x
<1>1. store \in Seq(Cell) /\ StoreGood(store, file, nsorts, nterms)
  BY DEF StoreInv, StoreGood
<1>2. StoreGood(Append(store, x), file, nsorts, nterms) /\ Extends(store, Append(store, x))
  BY <1>1, StoreGoodAppend, AppendExtends
<1>3. /\ Len(store) \in Nat /\ Len(Append(store, x)) = Len(store) + 1
      /\ DOMAIN Append(store, x) = 1..(Len(store) + 1)
      /\ Append(store, x)[Len(store) + 1] = x
  BY <1>1, AppendFacts
<1>4. StoreSize \in Nat
  BY VerifierAssumption
<1>5. store' = Append(store, x) /\ Len(store) < StoreSize
  BY DEF Alloc
<1>6. Len(store) + 1 \in 1..(Len(store) + 1) /\ Len(store) + 1 \in Nat
  BY <1>3
<1> QED
  BY <1>2, <1>3, <1>4, <1>5, <1>6 DEF Here

(* A command that leaves the theory, the statement and the unifier alone,  *)
(* and only grows the store and the heap.                                  *)
LEMMA CommandKeeps ==
  ASSUME IndInv, pc = "proof",
         UNCHANGED <<theory, spec, pc, stmt, anysorry, unifier>>,
         StoreGood(store', file, nsorts, nterms), Len(store') <= StoreSize,
         Extends(store, store'),
         StackGood(store', stack'), Len(stack') <= StackSize,
         HeapGood(store', heap'), Len(heap') <= HeapSize, Extends(heap, heap'),
         AddrsGood(store', hstack'), Len(hstack') <= HypStackSize,
         stmt.kind = "def" => hstack' = <<>>,
         nbv' \in 0..(DepsBits + 1), sorry' \in BOOLEAN
  PROVE  IndInv'
<1> USE DEF IndInv, theory, unifier
<1>1. TheoryInv'
  BY DEF TheoryInv, TermsDeclared, Current, TermNow
<1>2. FlagsInv'
  BY DEF FlagsInv
<1>3. StoreInv' /\ StackInv'
  BY DEF StoreInv, StackInv
<1>4. HeapInv'
  <2>1. \A i \in 1..Len(NowArgs) : i \in DOMAIN heap /\ ExprIn(store, heap[i].at)
    BY DEF HeapInv
  <2>2. \A i \in 1..Len(NowArgs) : i \in DOMAIN heap' /\ ExprIn(store', heap'[i].at)
    BY <2>1, ExprInExtends DEF Extends
  <2>3. NowArgs' = NowArgs
    BY DEF NowArgs, TermNow, ThmNow
  <2> QED
    BY <2>2, <2>3 DEF HeapInv
<1>5. HypsInv'
  BY DEF HypsInv
<1>6. UnifyInv'
  BY DEF UnifyInv
<1> QED
  BY <1>1, <1>2, <1>3, <1>4, <1>5, <1>6

(* A store that grows keeps the stack, the heap and the hypotheses. *)
LEMMA GrowthKeeps ==
  ASSUME IndInv, NEW st, Extends(store, st)
  PROVE  /\ StackGood(st, stack) /\ HeapGood(st, heap) /\ AddrsGood(st, hstack)
         /\ Len(stack) <= StackSize /\ Len(heap) <= HeapSize /\ Len(hstack) <= HypStackSize
  BY StackGoodExtends, HeapGoodExtends, AddrsGoodExtends DEF IndInv, StackInv, HeapInv, HypsInv

(* A store extends itself.                                                 *)
LEMMA ExtendsRefl == \A s : Extends(s, s)
  BY DEF Extends

(* An expression of a good store has a type with a declared sort.          *)
LEMMA ExprTyped ==
  ASSUME StoreInv, NEW a, ExprIn(store, a)
  PROVE  store[a].type \in Type /\ a \in Nat
<1>1. store \in Seq(Cell) /\ a \in DOMAIN store
  BY DEF StoreInv, StoreGood, ExprIn
<1>2. store[a] \in Cell /\ a \in Nat
  BY <1>1
<1> QED
  BY <1>2 DEF Cell, ExprIn

(* Hyp moves an expression to the hypotheses and its proof to the heap.    *)
LEMMA HypStep ==
  ASSUME IndInv, ProofHyp
  PROVE  IndInv'
<1> DEFINE a == Top(1).at
<1>1. /\ StackInv /\ StoreInv /\ HypsInv /\ HeapInv /\ FlagsInv
      /\ pc = "proof" /\ stmt.kind # "def" /\ Tags(<<"expr">>) /\ stack' = Drop(1)
      /\ Len(hstack) < HypStackSize /\ hstack' = Append(hstack, a) /\ PushHeap(Proof(a))
      /\ UNCHANGED <<theory, spec, pc, stmt, store, nbv, sorry, anysorry, unifier>>
  BY DEF IndInv, ProofHyp, Mode
<1>2. ExprIn(store, a) /\ a \in Nat /\ StackGood(store, stack') /\ Len(stack') <= StackSize
  BY <1>1, TagsOne, DropKeeps, ExprTyped
<1> HIDE DEF a
<1>3. HeapItemGood(store, Proof(a))
  BY <1>2 DEF HeapItemGood, Proof, Item
<1>4. HeapGood(store, heap') /\ Len(heap') <= HeapSize /\ Extends(heap, heap')
  BY <1>1, <1>3, PushHeapKeeps DEF HeapInv
<1>5. AddrsGood(store, hstack') /\ Len(hstack') <= HypStackSize
  <2>1. hstack \in Seq(Nat)
    BY <1>1 DEF HypsInv, AddrsGood
  <2>2. /\ hstack' \in Seq(Nat) /\ Len(hstack) \in Nat /\ Len(hstack') = Len(hstack) + 1
        /\ DOMAIN hstack = 1..Len(hstack) /\ DOMAIN hstack' = 1..(Len(hstack) + 1)
        /\ hstack'[Len(hstack) + 1] = a /\ \A i \in 1..Len(hstack) : hstack'[i] = hstack[i]
    BY <1>1, <1>2, <2>1, AppendFacts
  <2>3. \A i \in DOMAIN hstack' : i \in DOMAIN hstack \/ i = Len(hstack) + 1
    BY <2>2
  <2>4. \A i \in DOMAIN hstack' : ExprIn(store, hstack'[i])
    BY <1>1, <1>2, <2>2, <2>3 DEF HypsInv, AddrsGood
  <2>5. HypStackSize \in Nat
    BY VerifierAssumption
  <2> QED
    BY <1>1, <2>2, <2>4, <2>5 DEF AddrsGood
<1>6. StoreGood(store, file, nsorts, nterms) /\ Len(store) <= StoreSize /\ Extends(store, store')
  BY <1>1, ExtendsRefl DEF StoreInv
<1> QED
  BY <1>1, <1>2, <1>4, <1>5, <1>6, CommandKeeps DEF FlagsInv

(* A conversion on top of the stack, with its second expression below it,  *)
(* is saved as a cell that a heap entry points to.                         *)
LEMMA SaveConvKeeps ==
  ASSUME IndInv, ExprIn(store, Top(1).at), ExprIn(store, Top(2).at), SaveConv
  PROVE  /\ StoreGood(store', file, nsorts, nterms) /\ Len(store') <= StoreSize
         /\ Extends(store, store')
         /\ HeapGood(store', heap') /\ Len(heap') <= HeapSize /\ Extends(heap, heap')
<1> DEFINE x == [tag |-> "conv", e1 |-> Top(1).at, e2 |-> Top(2).at]
<1>1. StoreInv /\ Alloc(x) /\ PushHeap(Conv(Here))
  BY DEF IndInv, SaveConv
<1>2. x \in Cell /\ x.tag = "conv" /\ x.e1 = Top(1).at /\ x.e2 = Top(2).at
  BY <1>1, ExprTyped DEF Cell
<1> HIDE DEF x
<1>3. CellIn(store, Len(store) + 1, x, file, nsorts, nterms)
  BY <1>2 DEF CellIn
<1>4. /\ StoreGood(store', file, nsorts, nterms) /\ Len(store') <= StoreSize
      /\ Extends(store, store')
      /\ Here \in DOMAIN store' /\ Here \in Nat /\ store'[Here] = x
  BY <1>1, <1>2, <1>3, AllocKeeps
<1>5. HeapGood(store', heap)
  BY <1>4, GrowthKeeps
<1>6. HeapItemGood(store', Conv(Here))
  BY <1>2, <1>4 DEF HeapItemGood, Conv, Item
<1> QED
  BY <1>1, <1>4, <1>5, <1>6, PushHeapKeeps

(* ConvSave moves a conversion into a cell of its own and to the heap.     *)
LEMMA ConvSaveStep ==
  ASSUME IndInv, ProofConvSave
  PROVE  IndInv'
<1>1. /\ StackInv /\ HypsInv /\ FlagsInv
      /\ pc = "proof" /\ Tags(<<"expr", "conv">>) /\ SaveConv /\ stack' = Drop(2)
      /\ UNCHANGED <<theory, spec, pc, stmt, hstack, nbv, sorry, anysorry, unifier>>
  BY DEF IndInv, ProofConvSave
<1>2. /\ ExprIn(store, Top(1).at) /\ ExprIn(store, Top(2).at)
      /\ StackGood(store, stack') /\ Len(stack') <= StackSize
  BY <1>1, TagsTwo, DropKeeps
<1>3. /\ StoreGood(store', file, nsorts, nterms) /\ Len(store') <= StoreSize
      /\ Extends(store, store')
      /\ HeapGood(store', heap') /\ Len(heap') <= HeapSize /\ Extends(heap, heap')
  BY <1>1, <1>2, SaveConvKeeps
<1>4. StackGood(store', stack')
  BY <1>2, <1>3, StackGoodExtends
<1>5. AddrsGood(store', hstack') /\ Len(hstack') <= HypStackSize
  BY <1>1, <1>3, GrowthKeeps
<1> QED
  BY <1>1, <1>2, <1>3, <1>4, <1>5, CommandKeeps DEF HypsInv, FlagsInv

(* Save keeps the top on the stack; under a conversion it reads the slot below. *)
LEMMA SaveStep ==
  ASSUME IndInv, ProofSave
  PROVE  IndInv'
<1>1. /\ StackInv /\ StoreInv /\ HeapInv /\ HypsInv /\ FlagsInv
      /\ pc = "proof" /\ Len(stack) > 0 /\ Top(1).tag # "coconv"
      /\ UNCHANGED <<theory, spec, pc, stmt, stack, hstack, nbv, sorry, anysorry, unifier>>
  BY DEF IndInv, ProofSave
<1>2. /\ stack \in Seq(Item) /\ Len(stack) \in DOMAIN stack /\ DOMAIN stack = 1..Len(stack)
      /\ Top(1) = stack[Len(stack)] /\ Top(2) = stack[Len(stack) - 1]
  BY <1>1 DEF StackInv, StackGood, Top
<1>3. Top(1) \in Item /\ ExprIn(store, Top(1).at)
  BY <1>1, <1>2 DEF StackInv, StackGood
<1>4. /\ StoreGood(store', file, nsorts, nterms) /\ Len(store') <= StoreSize
      /\ Extends(store, store')
      /\ HeapGood(store', heap') /\ Len(heap') <= HeapSize /\ Extends(heap, heap')
  <2>1. CASE Top(1).tag = "conv"
    <3>1. Len(stack) > 1 /\ stack[Len(stack) - 1].tag = "expr"
      BY <2>1, <1>1, <1>2 DEF StackInv, StackGood, Paired
    <3>2. ExprIn(store, Top(2).at)
      BY <3>1, <1>1, <1>2 DEF StackInv, StackGood
    <3>3. SaveConv
      BY <2>1 DEF ProofSave
    <3> QED
      BY <3>2, <3>3, <1>3, SaveConvKeeps
  <2>2. CASE Top(1).tag # "conv"
    <3>1. PushHeap(Top(1)) /\ UNCHANGED store
      BY <2>2 DEF ProofSave
    <3>2. HeapItemGood(store, Top(1))
      BY <2>2, <1>1, <1>3 DEF HeapItemGood
    <3>3. HeapGood(store, heap') /\ Len(heap') <= HeapSize /\ Extends(heap, heap')
      BY <3>1, <3>2, <1>1, PushHeapKeeps DEF HeapInv
    <3> QED
      BY <3>1, <3>3, <1>1, ExtendsRefl DEF StoreInv
  <2> QED
    BY <2>1, <2>2
<1>5. /\ StackGood(store', stack') /\ Len(stack') <= StackSize
      /\ AddrsGood(store', hstack') /\ Len(hstack') <= HypStackSize
  BY <1>1, <1>4, GrowthKeeps
<1> QED
  BY <1>1, <1>4, <1>5, CommandKeeps DEF HypsInv, FlagsInv

(* Sorry turns an expression into a proof, or drops a conversion with both slots. *)
LEMMA SorryStep ==
  ASSUME IndInv, ProofSorry
  PROVE  IndInv'
<1>1. /\ StackInv /\ StoreInv /\ HeapInv /\ HypsInv /\ FlagsInv
      /\ pc = "proof" /\ sorry' = TRUE
      /\ UNCHANGED <<theory, spec, pc, stmt, store, heap, hstack, nbv, anysorry, unifier>>
  BY DEF IndInv, ProofSorry
<1>2. StackGood(store, stack') /\ Len(stack') <= StackSize
  <2>1. CASE Tags(<<"expr">>) /\ stack' = Append(Drop(1), Proof(Top(1).at))
    <3> DEFINE x == Proof(Top(1).at)
    <3>1. /\ 1 \in 0..Len(stack) /\ StackGood(store, Drop(1))
          /\ Top(1) \in Item /\ ExprIn(store, Top(1).at)
      BY <2>1, <1>1, TagsOne, DropKeeps
    <3>2. x \in Item /\ x.tag = "proof" /\ ExprIn(store, x.at)
      BY <3>1 DEF Item, Proof
    <3> HIDE DEF x
    <3>3. Drop(1) \in Seq(Item) /\ Len(Drop(1)) = Len(stack) - 1 /\ Len(stack) \in Nat
      <4>1. stack \in Seq(Item) /\ Len(stack) \in Nat
        BY <1>1 DEF StackInv, StackGood
      <4> QED
        BY <3>1, <4>1, PrefixFacts DEF Drop
    <3>4. stack' = Drop(1) \o <<x>>
      BY <2>1, <3>2, <3>3 DEF x
    <3>5. StackGood(store, stack')
      BY <3>1, <3>2, <3>4, StackGoodItem, StackGoodConcat
    <3>6. Len(stack') = Len(stack)
      BY <2>1, <3>2, <3>3, AppendFacts DEF x
    <3> QED
      BY <3>5, <3>6, <1>1 DEF StackInv
  <2>2. CASE Tags(<<"expr", "conv">>) /\ stack' = Drop(2)
    BY <2>2, <1>1, TagsTwo, DropKeeps
  <2> QED
    BY <2>1, <2>2 DEF ProofSorry
<1>3. /\ StoreGood(store', file, nsorts, nterms) /\ Len(store') <= StoreSize
      /\ Extends(store, store') /\ Extends(heap, heap')
      /\ HeapGood(store', heap') /\ Len(heap') <= HeapSize
      /\ AddrsGood(store', hstack') /\ Len(hstack') <= HypStackSize
  BY <1>1, ExtendsRefl DEF StoreInv, HeapInv, HypsInv
<1> QED
  BY <1>1, <1>2, <1>3, CommandKeeps DEF HypsInv, FlagsInv

(* Dummy allocates a bound variable and counts it.                         *)
LEMMA DummyStep ==
  ASSUME IndInv, NEW s \in 1..nsorts, ProofDummy(s)
  PROVE  IndInv'
<1> DEFINE x == [tag |-> "var",
                 type |-> [bound |-> TRUE, sort |-> s, deps |-> {b \in {nbv} : b < DepsBits}]]
<1>1. /\ StackInv /\ StoreInv /\ HeapInv /\ HypsInv /\ FlagsInv /\ TheoryInv
      /\ pc = "proof" /\ nbv <= DepsBits /\ nbv' = nbv + 1
      /\ Alloc(x) /\ PushOn(stack, <<Expr(Here)>>) /\ PushHeap(Expr(Here))
      /\ UNCHANGED <<theory, spec, pc, stmt, hstack, sorry, anysorry, unifier>>
  BY DEF IndInv, ProofDummy
<1>2. nbv \in Nat /\ DepsBits \in Nat /\ nbv' \in 0..(DepsBits + 1) /\ s \in Nat
  BY <1>1, VerifierAssumption DEF FlagsInv
<1>3. x \in Cell /\ x.tag = "var" /\ x.type.sort = s
  BY <1>2 DEF Cell, Type
<1> HIDE DEF x
<1>4. CellIn(store, Len(store) + 1, x, file, nsorts, nterms)
  BY <1>3 DEF CellIn
<1>5. /\ StoreGood(store', file, nsorts, nterms) /\ Len(store') <= StoreSize
      /\ Extends(store, store')
      /\ Here \in DOMAIN store' /\ Here \in Nat /\ store'[Here] = x
  BY <1>1, <1>3, <1>4, AllocKeeps
<1>6. Expr(Here) \in Item /\ Expr(Here).tag = "expr" /\ Expr(Here).at = Here /\ ExprIn(store', Here)
  BY <1>3, <1>5 DEF Expr, Item, ExprIn
<1>7. /\ StackGood(store', stack) /\ HeapGood(store', heap)
      /\ AddrsGood(store', hstack') /\ Len(hstack') <= HypStackSize
  BY <1>1, <1>5, GrowthKeeps
<1>8. StackGood(store', stack') /\ Len(stack') <= StackSize
  BY <1>1, <1>6, <1>7, StackGoodItem, PushKeeps
<1>9. HeapItemGood(store', Expr(Here))
  BY <1>6 DEF HeapItemGood
<1>10. HeapGood(store', heap') /\ Len(heap') <= HeapSize /\ Extends(heap, heap')
  BY <1>1, <1>7, <1>9, PushHeapKeeps
<1> QED
  BY <1>1, <1>2, <1>5, <1>7, <1>8, <1>10, CommandKeeps DEF HypsInv, FlagsInv

-----------------------------------------------------------------------------
(* Applying a term and a theorem *)

(* The n arguments on top of the stack s. *)
LEMMA ArgsFacts ==
  ASSUME StoreInv, NEW s, StackGood(store, s), NEW n \in 0..Len(s)
  PROVE  /\ Args(s, n) \in Seq(Nat) /\ Len(Args(s, n)) = n
         /\ \A i \in 1..n : ExprIn(store, Args(s, n)[i]) /\ Args(s, n)[i] \in Nat
<1>1. s \in Seq(Item) /\ Len(s) \in Nat /\ DOMAIN s = 1..Len(s)
  BY DEF StackGood
<1>2. \A i \in 1..n : Len(s) - n + i \in DOMAIN s
  BY <1>1
<1>3. \A i \in 1..n : ExprIn(store, s[Len(s) - n + i].at)
  BY <1>2 DEF StackGood
<1>4. \A i \in 1..n : s[Len(s) - n + i].at \in Nat
  BY <1>3, ExprTyped
<1>5. n \in Nat
  BY <1>1
<1>6. Args(s, n) \in Seq(Nat) /\ Len(Args(s, n)) = n
  <2>1. Args(s, n) \in [1..n -> Nat]
    BY <1>4 DEF Args
  <2>2. Args(s, n) \in Seq(Nat)
    BY <1>5, <2>1, SeqDef
  <2> QED
    BY <1>5, <2>1, <2>2
<1> QED
  BY <1>3, <1>4, <1>6 DEF Args

(* A run of n expressions on top is n arguments. *)
LEMMA TagsMany ==
  ASSUME StackInv, NEW n \in Nat, Tags([i \in 1..n |-> "expr"])
  PROVE  n \in 0..Len(stack) /\ Len(stack) \in Nat
<1>1. [i \in 1..n |-> "expr"] \in [1..n -> {"expr"}]
  OBVIOUS
<1>2. [i \in 1..n |-> "expr"] \in Seq({"expr"})
  BY <1>1, SeqDef
<1>3. Len([i \in 1..n |-> "expr"]) = n
  BY <1>1, <1>2
<1>4. Len(stack) \in Nat /\ Len(stack) >= n
  BY <1>3 DEF Tags, StackInv, StackGood
<1> QED
  BY <1>4

(* The cached dependencies are dependency bits. *)
LEMMA TermDepsTyped ==
  ASSUME StoreInv, NEW t, NEW es, file.terms[t] \in TermEntry,
         Len(es) = Len(file.terms[t].args),
         \A i \in 1..Len(es) : ExprIn(store, es[i])
  PROVE  TermDeps(t, es) \in SUBSET Nat
<1> DEFINE A == file.terms[t].args
<1>1. A \in Seq(Type) /\ Len(A) \in Nat
  BY DEF TermEntry
<1>2. \A i \in 1..Len(A) : Deps(es[i]) \subseteq Nat
  BY ExprTyped DEF Deps, Type
<1> HIDE DEF A
<1>3. \A i \in 1..(Len(A) + 1) : BoundBefore(A, i) \subseteq 1..Len(A)
  BY <1>1 DEF BoundBefore
<1>4. \A i \in 1..(Len(A) + 1) : \A D : BoundDeps(A, es, i, D) \subseteq Nat
  BY <1>2, <1>3 DEF BoundDeps
<1>5. BoundDeps(A, es, Len(A) + 1, file.terms[t].ret.deps) \subseteq Nat
  BY <1>1, <1>4
<1>6. \A i \in 1..Len(A) : FreeDeps(A, es, i) \subseteq Nat
  BY <1>2 DEF FreeDeps
<1>7. UNION {FreeDeps(A, es, i) : i \in {i \in 1..Len(A) : ~A[i].bound}} \subseteq Nat
  BY <1>6
<1> QED
  BY <1>5, <1>7 DEF TermDeps, A

(* Term pops arguments that fit and pushes the new expression.             *)
LEMMA TermStep ==
  ASSUME IndInv, NEW t \in 1..nterms, NEW save \in BOOLEAN, ProofTerm(t, save)
  PROVE  IndInv'
<1> DEFINE A == file.terms[t].args
           n == Len(A)
           es == Args(stack, n)
           ty == [bound |-> FALSE, sort |-> file.terms[t].sort, deps |-> TermDeps(t, es)]
           x == [tag |-> "term", id |-> t, args |-> es, type |-> ty]
<1>1. /\ StackInv /\ StoreInv /\ HeapInv /\ HypsInv /\ FlagsInv /\ TheoryInv
      /\ pc = "proof" /\ Tags([i \in 1..n |-> "expr"]) /\ ArgsFit(A, es)
      /\ Alloc(x) /\ PushOn(Drop(n), <<Expr(Here)>>) /\ SaveIf(save, Expr(Here))
      /\ UNCHANGED <<theory, spec, pc, stmt, hstack, nbv, sorry, anysorry, unifier>>
  BY DEF IndInv, ProofTerm
<1>2. /\ file.terms[t] \in TermEntry /\ t \in Nat
      /\ nterms <= Len(file.terms) /\ file.terms[t].sort \in 1..nsorts
  <2>1. /\ nterms \in Nat /\ Len(file.terms) \in Nat /\ nterms <= Len(file.terms)
        /\ file.terms[t].sort \in 1..nsorts
    BY <1>1, Tables DEF TheoryInv, TermsDeclared
  <2>2. t \in 1..Len(file.terms) /\ t \in Nat
    BY <2>1
  <2> QED
    BY <1>1, <2>1, <2>2, Tables
<1>3. n \in Nat /\ file.terms[t].sort \in Nat
  BY <1>2 DEF TermEntry
<1>4. n \in 0..Len(stack)
  BY <1>1, <1>3, TagsMany
<1>5. /\ es \in Seq(Nat) /\ Len(es) = n
      /\ \A i \in 1..n : ExprIn(store, es[i]) /\ es[i] \in Nat
  BY <1>1, <1>4, ArgsFacts DEF StackInv
<1>6. ty \in Type
  <2>1. TermDeps(t, es) \in SUBSET Nat
    BY <1>1, <1>2, <1>5, TermDepsTyped
  <2> QED
    BY <1>3, <2>1 DEF Type
<1>7. /\ x \in Cell /\ x.tag = "term" /\ x.id = t /\ x.args = es
      /\ x.type.sort = file.terms[t].sort
  BY <1>2, <1>5, <1>6 DEF Cell
<1>8. \A i \in 1..n : es[i] < Len(store) + 1
  <2>1. store \in Seq(Cell) /\ Len(store) \in Nat /\ DOMAIN store = 1..Len(store)
    BY <1>1 DEF StoreInv, StoreGood
  <2> QED
    BY <1>5, <2>1 DEF ExprIn
<1>9. FitIn(store, A, es)
  BY <1>1 DEF ArgsFit, FitIn
<1> HIDE DEF x, ty, es
<1>10. CellIn(store, Len(store) + 1, x, file, nsorts, nterms)
  BY <1>5, <1>7, <1>8, <1>9 DEF CellIn
<1>11. /\ StoreGood(store', file, nsorts, nterms) /\ Len(store') <= StoreSize
       /\ Extends(store, store')
       /\ Here \in DOMAIN store' /\ Here \in Nat /\ store'[Here] = x
  BY <1>1, <1>7, <1>10, AllocKeeps
<1>12. Expr(Here) \in Item /\ Expr(Here).tag = "expr" /\ Expr(Here).at = Here /\ ExprIn(store', Here)
  BY <1>7, <1>11 DEF Expr, Item, ExprIn
<1>13. /\ HeapGood(store', heap) /\ Len(heap) <= HeapSize
       /\ AddrsGood(store', hstack') /\ Len(hstack') <= HypStackSize
  BY <1>1, <1>11, GrowthKeeps
<1>14. StackGood(store', Drop(n))
  BY <1>1, <1>4, <1>11, DropKeeps, StackGoodExtends
<1>15. StackGood(store', stack') /\ Len(stack') <= StackSize
  BY <1>1, <1>12, <1>14, StackGoodItem, PushKeeps
<1>16. HeapItemGood(store', Expr(Here))
  BY <1>12 DEF HeapItemGood
<1>17. HeapGood(store', heap') /\ Len(heap') <= HeapSize /\ Extends(heap, heap')
  BY <1>1, <1>13, <1>16, SaveIfKeeps
<1> QED
  BY <1>1, <1>11, <1>13, <1>15, <1>17, CommandKeeps DEF HypsInv, FlagsInv

-----------------------------------------------------------------------------
(* Calling the unifier *)

(* run_unify is called on an expression, with a heap of expressions. *)
LEMMA BeginUnify ==
  ASSUME IndInv, pc = "proof",
         NEW code \in Seq(UnifyCmd), NEW target, ExprIn(store, target),
         NEW subst, AddrsGood(store, subst),
         NEW call \in [for : {"def", "thm", "unfold", "end"}, e : Nat, save : BOOLEAN],
         ExprIn(store, call.e),
         call.for = "def" => stmt.kind = "def",
         call.for = "end" => stmt.kind # "def",
         call.for = "unfold" => stack' # <<>> /\ stack'[Len(stack')].tag = "expr",
         RunUnify(code, target, subst, call),
         StackGood(store, stack'), Len(stack') <= StackSize,
         anysorry' \in BOOLEAN,
         UNCHANGED <<theory, spec, stmt, store, heap, hstack, nbv, sorry>>
  PROVE  IndInv'
<1> USE DEF theory
<1>1. /\ pc' = "unify" /\ ucode' = code /\ ustack' = <<target>> /\ ucall' = call
      /\ uheap' = [i \in DOMAIN subst |-> [at |-> subst[i], saved |-> FALSE]]
  BY DEF RunUnify
<1>2. TheoryInv'
  BY <1>1 DEF IndInv, TheoryInv, TermsDeclared, Current, TermNow
<1>3. FlagsInv' /\ StoreInv' /\ StackInv'
  BY DEF IndInv, FlagsInv, StoreInv, StackInv
<1>4. HeapInv'
  BY DEF IndInv, HeapInv, NowArgs, TermNow, ThmNow
<1>5. HypsInv'
  BY <1>1 DEF IndInv, HypsInv
<1>6. AddrsGood(store, ustack')
  <2>1. target \in Nat
    BY ExprTyped DEF IndInv
  <2> QED
    BY <1>1, <2>1 DEF AddrsGood
<1>7. UHeapGood(store, uheap')
  <2>1. subst \in Seq(Nat) /\ Len(subst) \in Nat /\ DOMAIN subst = 1..Len(subst)
    BY DEF AddrsGood
  <2>2. uheap' \in [1..Len(subst) -> UHeapItem]
    BY <1>1, <2>1 DEF UHeapItem
  <2>3. uheap' \in Seq(UHeapItem)
    BY <2>1, <2>2, SeqDef
  <2>4. \A i \in DOMAIN uheap' : ExprIn(store, uheap'[i].at)
    BY <1>1 DEF AddrsGood
  <2> QED
    BY <2>3, <2>4 DEF UHeapGood
<1>8. UnifyInv'
  BY <1>1, <1>6, <1>7 DEF UnifyInv, AddrsGood, UHeapGood
<1> QED
  BY <1>2, <1>3, <1>4, <1>5, <1>8 DEF IndInv

(* The table entry of the current statement. *)
LEMMA CurrentEntry ==
  ASSUME IndInv, pc \in {"proof", "unify"}
  PROVE  /\ stmt.kind = "def" => TermNow \in TermEntry /\ nterms + 1 \in 1..Len(file.terms)
         /\ stmt.kind # "def" => ThmNow \in ThmEntry /\ nthms + 1 \in 1..Len(file.thms)
<1>1. /\ nterms \in Nat /\ nthms \in Nat
      /\ Len(file.terms) \in Nat /\ Len(file.thms) \in Nat
      /\ \A t \in 1..Len(file.terms) : file.terms[t] \in TermEntry
      /\ \A t \in 1..Len(file.thms) : file.thms[t] \in ThmEntry
  BY Tables DEF IndInv
<1>2. IF stmt.kind = "def" THEN nterms < Len(file.terms) ELSE nthms < Len(file.thms)
  BY DEF IndInv, TheoryInv, Current
<1>3. stmt.kind = "def" => nterms + 1 \in 1..Len(file.terms)
  BY <1>1, <1>2
<1>4. stmt.kind # "def" => nthms + 1 \in 1..Len(file.thms)
  BY <1>1, <1>2
<1> QED
  BY <1>1, <1>3, <1>4 DEF TermNow, ThmNow

(* The binders of the current statement, read from the heap. *)
LEMMA BindersGood ==
  ASSUME IndInv, pc = "proof"
  PROVE  AddrsGood(store, Binders(Len(NowArgs)))
<1>1. Len(NowArgs) \in Nat
  BY CurrentEntry DEF NowArgs, TermEntry, ThmEntry
<1>2. \A i \in 1..Len(NowArgs) : ExprIn(store, heap[i].at) /\ heap[i].at \in Nat
  BY ExprTyped DEF IndInv, HeapInv
<1>3. Binders(Len(NowArgs)) \in [1..Len(NowArgs) -> Nat]
  BY <1>2 DEF Binders
<1>4. Binders(Len(NowArgs)) \in Seq(Nat)
  BY <1>1, <1>3, SeqDef
<1> QED
  BY <1>2, <1>4 DEF AddrsGood, Binders

(* The end of a definition calls the unifier on its value and the binders. *)
LEMMA EndDefStep ==
  ASSUME IndInv, EndDef
  PROVE  IndInv'
<1> DEFINE call == [for |-> "def", e |-> Top(1).at, save |-> FALSE]
<1>1. /\ StackInv /\ StoreInv /\ pc = "proof" /\ stmt.kind = "def" /\ Tags(<<"expr">>)
      /\ RunUnify(TermNow.unify, Top(1).at, Binders(Len(TermNow.args)), call)
      /\ UNCHANGED <<theory, spec, stmt, machine, anysorry>>
  BY DEF IndInv, EndDef
<1>2. ExprIn(store, Top(1).at) /\ Top(1).at \in Nat
  BY <1>1, TagsOne, ExprTyped
<1>3. TermNow.unify \in Seq(UnifyCmd) /\ NowArgs = TermNow.args
  BY <1>1, CurrentEntry DEF TermEntry, NowArgs
<1>4. AddrsGood(store, Binders(Len(TermNow.args)))
  BY <1>1, <1>3, BindersGood
<1>5. /\ call \in [for : {"def", "thm", "unfold", "end"}, e : Nat, save : BOOLEAN]
      /\ call.for = "def" /\ call.e = Top(1).at
  BY <1>2
<1>6. /\ StackGood(store, stack') /\ Len(stack') <= StackSize
      /\ anysorry' \in BOOLEAN
  BY <1>1 DEF IndInv, StackInv, FlagsInv, machine
<1> HIDE DEF call
<1> QED
  BY <1>1, <1>2, <1>3, <1>4, <1>5, <1>6, BeginUnify DEF machine

(* The end of an axiom or a theorem calls it on the conclusion.            *)
LEMMA EndThmStep ==
  ASSUME IndInv, EndThm
  PROVE  IndInv'
<1> DEFINE call == [for |-> "end", e |-> Top(1).at, save |-> FALSE]
<1>1. /\ StackInv /\ StoreInv /\ pc = "proof" /\ stmt.kind # "def"
      /\ Tags(<<"expr">>) \/ Tags(<<"proof">>)
      /\ RunUnify(ThmNow.unify, Top(1).at, Binders(Len(ThmNow.args)), call)
      /\ anysorry' = (anysorry \/ sorry)
      /\ UNCHANGED <<theory, spec, stmt, machine>>
  BY DEF IndInv, EndThm
<1>2. ExprIn(store, Top(1).at) /\ Top(1).at \in Nat
  BY <1>1, TagsOne, ExprTyped
<1>3. ThmNow.unify \in Seq(UnifyCmd) /\ NowArgs = ThmNow.args
  BY <1>1, CurrentEntry DEF ThmEntry, NowArgs
<1>4. AddrsGood(store, Binders(Len(ThmNow.args)))
  BY <1>1, <1>3, BindersGood
<1>5. /\ call \in [for : {"def", "thm", "unfold", "end"}, e : Nat, save : BOOLEAN]
      /\ call.for = "end" /\ call.e = Top(1).at
  BY <1>2
<1>6. StackGood(store, stack') /\ Len(stack') <= StackSize
  BY <1>1 DEF IndInv, StackInv, machine
<1>7. anysorry' \in BOOLEAN
  BY <1>1 DEF IndInv, FlagsInv
<1> HIDE DEF call
<1> QED
  BY <1>1, <1>2, <1>3, <1>4, <1>5, <1>6, <1>7, BeginUnify DEF machine

(* Thm calls it on the theorem's stream with the arguments popped.         *)
LEMMA ThmStep ==
  ASSUME IndInv, NEW t \in 1..nthms, NEW save \in BOOLEAN, ProofThm(t, save)
  PROVE  IndInv'
<1> DEFINE n == Len(file.thms[t].args)
           es == Args(Drop(1), n)
           call == [for |-> "thm", e |-> Top(1).at, save |-> save]
<1>1. /\ StackInv /\ StoreInv /\ TheoryInv /\ pc = "proof"
      /\ Tags([i \in 1..(n + 1) |-> "expr"])
      /\ stack' = Drop(n + 1)
      /\ RunUnify(file.thms[t].unify, Top(1).at, es, call)
      /\ UNCHANGED <<theory, spec, stmt, store, heap, hstack, nbv, sorry, anysorry>>
  BY DEF IndInv, ProofThm
<1>2. file.thms[t] \in ThmEntry
  <2>1. nthms \in Nat /\ Len(file.thms) \in Nat /\ nthms <= Len(file.thms)
    BY <1>1, Tables DEF TheoryInv
  <2>2. t \in 1..Len(file.thms)
    BY <2>1
  <2> QED
    BY <1>1, <2>2, Tables
<1>3. n \in Nat /\ n + 1 \in Nat /\ file.thms[t].unify \in Seq(UnifyCmd)
  BY <1>2 DEF ThmEntry
<1>4. n + 1 \in 0..Len(stack) /\ Len(stack) \in Nat
  BY <1>1, <1>3, TagsMany
<1>5. 1 \in 0..Len(stack) /\ n \in 0..(Len(stack) - 1)
  BY <1>3, <1>4
<1>6. StackGood(store, Drop(1)) /\ Len(Drop(1)) = Len(stack) - 1
  <2>1. stack \in Seq(Item)
    BY <1>1 DEF StackInv, StackGood
  <2> QED
    BY <1>1, <1>5, <2>1, DropKeeps, PrefixFacts DEF Drop
<1>7. AddrsGood(store, es)
  <2>1. n \in 0..Len(Drop(1))
    BY <1>5, <1>6
  <2>2. es \in Seq(Nat) /\ Len(es) = n /\ \A i \in 1..n : ExprIn(store, es[i])
    BY <1>1, <1>6, <2>1, ArgsFacts
  <2> HIDE DEF es
  <2> QED
    BY <2>2 DEF AddrsGood
<1>8. ExprIn(store, Top(1).at) /\ Top(1).at \in Nat
  <2>1. Len(stack) \in DOMAIN stack /\ Top(1) = stack[Len(stack)]
    BY <1>1, <1>4, <1>5 DEF StackInv, StackGood, Top
  <2> QED
    BY <1>1, <2>1, ExprTyped DEF StackInv, StackGood
<1>9. StackGood(store, stack') /\ Len(stack') <= StackSize /\ anysorry' \in BOOLEAN
  BY <1>1, <1>4, DropKeeps DEF IndInv, FlagsInv
<1>10. /\ call \in [for : {"def", "thm", "unfold", "end"}, e : Nat, save : BOOLEAN]
       /\ call.for = "thm" /\ call.e = Top(1).at
  BY <1>8
<1> HIDE DEF call, es
<1> QED
  BY <1>1, <1>3, <1>7, <1>8, <1>9, <1>10, BeginUnify

(* Unfold calls it on a definition and leaves the right side on top.       *)
LEMMA UnfoldStep ==
  ASSUME IndInv, ProofUnfold
  PROVE  IndInv'
<1> DEFINE p == store[Top(2).at]
           call == [for |-> "unfold", e |-> Top(1).at, save |-> FALSE]
<1>1. /\ StackInv /\ StoreInv /\ TheoryInv /\ pc = "proof"
      /\ Tags(<<"coconv", "expr">>)
      /\ p.tag = "term"
      /\ RunUnify(file.terms[p.id].unify, Top(1).at, p.args, call)
      /\ stack' = Drop(2)
      /\ UNCHANGED <<theory, spec, stmt, store, heap, hstack, nbv, sorry, anysorry>>
  BY DEF IndInv, ProofUnfold
<1>2. /\ 2 \in 0..Len(stack) /\ Len(stack) \in Nat
      /\ ExprIn(store, Top(1).at) /\ Top(1).at \in Nat
      /\ ExprIn(store, Top(2).at) /\ Top(2).tag = "coconv"
  BY <1>1, TagsTwo, ExprTyped
<1>3. /\ p.args \in Seq(Nat) /\ p.id \in 1..nterms
      /\ \A i \in 1..Len(p.args) : ExprIn(store, p.args[i])
  BY <1>1, <1>2, TermCell
<1> HIDE DEF p
<1>4. AddrsGood(store, p.args)
  <2>1. DOMAIN p.args = 1..Len(p.args)
    BY <1>3
  <2> QED
    BY <1>3, <2>1 DEF AddrsGood
<1>5. file.terms[p.id].unify \in Seq(UnifyCmd)
  <2>1. nterms \in Nat /\ Len(file.terms) \in Nat /\ nterms <= Len(file.terms)
    BY <1>1, Tables DEF TheoryInv
  <2>2. p.id \in 1..Len(file.terms)
    BY <1>3, <2>1
  <2>3. file.terms[p.id] \in TermEntry
    BY <1>1, <2>2, Tables
  <2> QED
    BY <2>3 DEF TermEntry
<1>6. StackGood(store, stack') /\ Len(stack') <= StackSize /\ anysorry' \in BOOLEAN
  BY <1>1, <1>2, DropKeeps DEF IndInv, FlagsInv
<1>7. stack' # <<>> /\ stack'[Len(stack')].tag = "expr"
  <2>1. stack \in Seq(Item) /\ DOMAIN stack = 1..Len(stack)
    BY <1>1 DEF StackInv, StackGood
  <2>2. Len(stack) - 1 \in DOMAIN stack /\ stack[Len(stack) - 1].tag = "coconv"
    BY <1>2, <2>1 DEF Top
  <2>3. Len(stack) - 1 > 1 /\ stack[(Len(stack) - 1) - 1].tag = "expr"
    BY <1>1, <2>2 DEF StackInv, StackGood, Paired
  <2>4. /\ Len(stack') = Len(stack) - 2
        /\ \A i \in 1..(Len(stack) - 2) : stack'[i] = stack[i]
    BY <1>1, <1>2, <2>1, PrefixFacts DEF Drop
  <2>5. Len(stack) - 2 \in 1..(Len(stack) - 2) /\ (Len(stack) - 1) - 1 = Len(stack) - 2
    BY <1>2, <2>3
  <2> QED
    BY <2>3, <2>4, <2>5
<1>8. /\ call \in [for : {"def", "thm", "unfold", "end"}, e : Nat, save : BOOLEAN]
      /\ call.for = "unfold" /\ call.e = Top(1).at
  BY <1>2
<1> HIDE DEF call
<1> QED
  BY <1>1, <1>2, <1>4, <1>5, <1>6, <1>7, <1>8, BeginUnify

-----------------------------------------------------------------------------
(* The commands of the unifier *)

(* A unify command that is not the last one. *)
LEMMA UnifyKeeps ==
  ASSUME IndInv, pc = "unify",
         UNCHANGED <<theory, spec, pc, stmt, store, heap, nbv, sorry, anysorry, ucall>>,
         ucode' \in Seq(UnifyCmd),
         AddrsGood(store, ustack'), UHeapGood(store, uheap'),
         StackGood(store, stack'), Len(stack') <= StackSize,
         AddrsGood(store, hstack'), Len(hstack') <= HypStackSize,
         stmt.kind = "def" => hstack' = <<>>,
         ucall.for = "unfold" => stack' = stack
  PROVE  IndInv'
<1> USE DEF theory
<1>1. TheoryInv' /\ FlagsInv' /\ StoreInv' /\ StackInv'
  BY DEF IndInv, TheoryInv, TermsDeclared, Current, TermNow, FlagsInv, StoreInv, StackInv
<1>2. HeapInv' /\ HypsInv'
  BY DEF IndInv, HeapInv, HypsInv, NowArgs, TermNow, ThmNow
<1>3. UnifyInv'
  BY DEF IndInv, UnifyInv, AddrsGood, UHeapGood
<1> QED
  BY <1>1, <1>2, <1>3 DEF IndInv

(* The command read, and the top of the unify stack. *)
LEMMA UStepFacts ==
  ASSUME IndInv, NEW op, UStep(op)
  PROVE  /\ pc = "unify" /\ ucode' \in Seq(UnifyCmd)
         /\ ustack # <<>> => ExprIn(store, UTop) /\ UTop \in Nat /\ AddrsGood(store, UDrop)
         /\ UHeapGood(store, uheap) /\ AddrsGood(store, ustack)
<1>1. /\ pc = "unify" /\ ucode # <<>> /\ ucode' = Tail(ucode)
      /\ ucode \in Seq(UnifyCmd)
      /\ AddrsGood(store, ustack) /\ UHeapGood(store, uheap)
  BY DEF UStep, IndInv, UnifyInv
<1>2. ucode' \in Seq(UnifyCmd)
  BY <1>1
<1>3. /\ ustack \in Seq(Nat) /\ DOMAIN ustack = 1..Len(ustack) /\ Len(ustack) \in Nat
      /\ \A k \in DOMAIN ustack : ExprIn(store, ustack[k])
  BY <1>1 DEF AddrsGood
<1>4. ASSUME ustack # <<>>
      PROVE  ExprIn(store, UTop) /\ UTop \in Nat /\ AddrsGood(store, UDrop)
  <2>1. Len(ustack) \in DOMAIN ustack /\ 1 \in 0..Len(ustack)
    BY <1>3, <1>4
  <2>2. /\ UDrop \in Seq(Nat) /\ DOMAIN UDrop = 1..(Len(ustack) - 1)
        /\ \A i \in 1..(Len(ustack) - 1) : UDrop[i] = ustack[i]
    BY <1>3, <2>1, PrefixFacts, SMTT(60) DEF UDrop
  <2>3. \A i \in DOMAIN UDrop : i \in DOMAIN ustack /\ UDrop[i] = ustack[i]
    BY <1>3, <2>2
  <2>4. UTop \in Nat
    BY <1>3, <2>1 DEF UTop
  <2> QED
    BY <1>3, <2>1, <2>2, <2>3, <2>4 DEF UTop, AddrsGood
<1> QED
  BY <1>1, <1>2, <1>3, <1>4

(* An address of an expression more.                                       *)
LEMMA AddrsGoodAppend ==
  ASSUME NEW st, NEW s, AddrsGood(st, s), NEW a \in Nat, ExprIn(st, a)
  PROVE  AddrsGood(st, Append(s, a))
<1> DEFINE t == Append(s, a)
<1>1. s \in Seq(Nat)
  BY DEF AddrsGood
<1>2. /\ t \in Seq(Nat) /\ Len(s) \in Nat
      /\ DOMAIN s = 1..Len(s) /\ DOMAIN t = 1..(Len(s) + 1)
      /\ t[Len(s) + 1] = a /\ \A i \in 1..Len(s) : t[i] = s[i]
  BY <1>1, AppendFacts
<1> HIDE DEF t
<1>3. \A i \in DOMAIN t : i \in DOMAIN s \/ i = Len(s) + 1
  BY <1>2
<1>4. \A i \in DOMAIN t : ExprIn(st, t[i])
  BY <1>2, <1>3 DEF AddrsGood
<1> QED
  BY <1>2, <1>4 DEF AddrsGood, t

(* push_uheap keeps the unify heap good.                                   *)
LEMMA PushUHeapKeeps ==
  ASSUME UHeapGood(store, uheap), NEW a \in Nat, ExprIn(store, a), NEW saved \in BOOLEAN,
         PushUHeap(a, saved)
  PROVE  UHeapGood(store, uheap')
<1> DEFINE x == [at |-> a, saved |-> saved]
<1>1. uheap \in Seq(UHeapItem) /\ x \in UHeapItem /\ x.at = a /\ uheap' = Append(uheap, x)
  BY DEF UHeapGood, UHeapItem, PushUHeap
<1> HIDE DEF x
<1>2. /\ uheap' \in Seq(UHeapItem) /\ Len(uheap) \in Nat
      /\ DOMAIN uheap = 1..Len(uheap) /\ DOMAIN uheap' = 1..(Len(uheap) + 1)
      /\ uheap'[Len(uheap) + 1] = x /\ \A i \in 1..Len(uheap) : uheap'[i] = uheap[i]
  BY <1>1, AppendFacts
<1>3. \A i \in DOMAIN uheap' : i \in DOMAIN uheap \/ i = Len(uheap) + 1
  BY <1>2
<1>4. \A i \in DOMAIN uheap' : ExprIn(store, uheap'[i].at)
  BY <1>1, <1>2, <1>3 DEF UHeapGood
<1> QED
  BY <1>2, <1>4 DEF UHeapGood

(* The machine outside the unifier is in order. *)
LEMMA UnifyFrame ==
  ASSUME IndInv
  PROVE  /\ StackGood(store, stack) /\ Len(stack) <= StackSize
         /\ AddrsGood(store, hstack) /\ Len(hstack) <= HypStackSize
         /\ stmt.kind = "def" => hstack = <<>>
  BY DEF IndInv, StackInv, HypsInv

(* URef pops an expression.                                                *)
LEMMA UnifyRefStep ==
  ASSUME IndInv, UnifyRef
  PROVE  IndInv'
<1>1. /\ UStep("Ref") /\ ustack # <<>> /\ ustack' = UDrop
      /\ UNCHANGED <<theory, spec, pc, stmt, machine, anysorry, uheap, ucall>>
  BY DEF UnifyRef
<1>2. /\ pc = "unify" /\ ucode' \in Seq(UnifyCmd)
      /\ AddrsGood(store, ustack') /\ UHeapGood(store, uheap')
  BY <1>1, UStepFacts
<1> QED
  BY <1>1, <1>2, UnifyFrame, UnifyKeeps DEF machine

(* UDummy moves a variable to the unify heap.                              *)
LEMMA UnifyDummyStep ==
  ASSUME IndInv, UnifyDummy
  PROVE  IndInv'
<1>1. /\ UStep("Dummy") /\ ustack # <<>> /\ ustack' = UDrop /\ PushUHeap(UTop, FALSE)
      /\ UNCHANGED <<theory, spec, pc, stmt, machine, anysorry, ucall>>
  BY DEF UnifyDummy
<1>2. /\ pc = "unify" /\ ucode' \in Seq(UnifyCmd) /\ ExprIn(store, UTop) /\ UTop \in Nat
      /\ AddrsGood(store, ustack') /\ UHeapGood(store, uheap)
  BY <1>1, UStepFacts
<1>3. UHeapGood(store, uheap')
  BY <1>1, <1>2, PushUHeapKeeps
<1> QED
  BY <1>1, <1>2, <1>3, UnifyFrame, UnifyKeeps DEF machine

(* UTerm replaces a term by its arguments, which are expressions.          *)
LEMMA UnifyTermStep ==
  ASSUME IndInv, NEW op, UnifyTerm(op)
  PROVE  IndInv'
<1> DEFINE p == store[UTop]
           n == Len(p.args)
           es == [k \in 1..n |-> p.args[n + 1 - k]]
<1>1. /\ UStep(op) /\ ustack # <<>> /\ p.tag = "term" /\ ustack' = UDrop \o es
      /\ IF op = "TermSave" THEN PushUHeap(UTop, TRUE) ELSE UNCHANGED uheap
      /\ UNCHANGED <<theory, spec, pc, stmt, machine, anysorry, ucall>>
  BY DEF UnifyTerm
<1>2. /\ pc = "unify" /\ ucode' \in Seq(UnifyCmd) /\ ExprIn(store, UTop) /\ UTop \in Nat
      /\ AddrsGood(store, UDrop) /\ UHeapGood(store, uheap)
  BY <1>1, UStepFacts
<1>3. /\ p.args \in Seq(Nat) /\ \A i \in 1..n : ExprIn(store, p.args[i]) /\ p.args[i] \in Nat
  BY <1>1, <1>2, TermCell DEF IndInv
<1> HIDE DEF p
<1>4. n \in Nat
  BY <1>3
<1> HIDE DEF n
<1>5. \A k \in 1..n : n + 1 - k \in 1..n
  BY <1>4
<1>6. es \in [1..n -> Nat] /\ \A k \in 1..n : ExprIn(store, es[k])
  BY <1>3, <1>5 DEF n
<1> HIDE DEF es
<1>7. es \in Seq(Nat) /\ Len(es) = n /\ DOMAIN es = 1..n
  BY <1>4, <1>6, SeqDef
<1>8. UDrop \in Seq(Nat) /\ Len(UDrop) \in Nat /\ DOMAIN UDrop = 1..Len(UDrop)
  BY <1>2 DEF AddrsGood
<1>9. /\ ustack' \in Seq(Nat)
      /\ DOMAIN ustack' = 1..(Len(UDrop) + Len(es))
      /\ \A i \in 1..Len(UDrop) : ustack'[i] = UDrop[i]
      /\ \A i \in (Len(UDrop) + 1)..(Len(UDrop) + Len(es)) :
           i - Len(UDrop) \in 1..Len(es) /\ ustack'[i] = es[i - Len(UDrop)]
  BY <1>1, <1>7, <1>8, ConcatFacts
<1>10. \A i \in DOMAIN ustack' :
         i \in 1..Len(UDrop) \/ i \in (Len(UDrop) + 1)..(Len(UDrop) + Len(es))
  BY <1>4, <1>7, <1>8, <1>9
<1>11. \A i \in 1..Len(UDrop) : ExprIn(store, UDrop[i])
  BY <1>2, <1>8 DEF AddrsGood
<1>12. \A i \in DOMAIN ustack' : ExprIn(store, ustack'[i])
  BY <1>6, <1>7, <1>9, <1>10, <1>11
<1>13. UHeapGood(store, uheap')
  BY <1>1, <1>2, PushUHeapKeeps
<1>14. AddrsGood(store, ustack')
  BY <1>9, <1>12 DEF AddrsGood
<1> QED
  BY <1>1, <1>2, <1>13, <1>14, UnifyFrame, UnifyKeeps DEF machine

(* UHyp of an applied theorem moves a proof from the main stack to the unify stack. *)
LEMMA UnifyHypThmStep ==
  ASSUME IndInv, UnifyHypThm
  PROVE  IndInv'
<1> DEFINE a == Top(1).at
<1>1. /\ UStep("Hyp") /\ ucall.for # "unfold" /\ Tags(<<"proof">>)
      /\ ustack' = Append(ustack, a) /\ stack' = Drop(1)
      /\ UNCHANGED <<theory, spec, pc, stmt, store, heap, hstack, nbv, sorry, anysorry, uheap, ucall>>
  BY DEF UnifyHypThm, UMode
<1>2. /\ pc = "unify" /\ ucode' \in Seq(UnifyCmd)
      /\ AddrsGood(store, ustack) /\ UHeapGood(store, uheap)
  BY <1>1, UStepFacts
<1>3. /\ ExprIn(store, a) /\ a \in Nat
      /\ StackGood(store, stack') /\ Len(stack') <= StackSize
  BY <1>1, TagsOne, DropKeeps, ExprTyped DEF IndInv
<1> HIDE DEF a
<1>4. AddrsGood(store, ustack')
  BY <1>1, <1>2, <1>3, AddrsGoodAppend
<1> QED
  BY <1>1, <1>2, <1>3, <1>4, UnifyFrame, UnifyKeeps

(* UHyp of the statement's own stream takes one of its hypotheses.         *)
LEMMA UnifyHypEndStep ==
  ASSUME IndInv, UnifyHypEnd
  PROVE  IndInv'
<1>1. /\ UStep("Hyp") /\ hstack # <<>>
      /\ ustack' = <<hstack[Len(hstack)]>>
      /\ hstack' = SubSeq(hstack, 1, Len(hstack) - 1)
      /\ UNCHANGED <<theory, spec, pc, stmt, store, stack, heap, nbv, sorry, anysorry, uheap, ucall>>
  BY DEF UnifyHypEnd
<1>2. /\ pc = "unify" /\ ucode' \in Seq(UnifyCmd) /\ UHeapGood(store, uheap)
  BY <1>1, UStepFacts
<1>3. /\ AddrsGood(store, hstack) /\ stmt.kind # "def" /\ Len(hstack) <= HypStackSize
      /\ hstack \in Seq(Nat) /\ Len(hstack) \in Nat /\ DOMAIN hstack = 1..Len(hstack)
  BY <1>1 DEF IndInv, HypsInv, AddrsGood
<1>4. Len(hstack) \in DOMAIN hstack /\ 1 \in 0..Len(hstack)
  BY <1>1, <1>3
<1>5. /\ hstack' \in Seq(Nat) /\ Len(hstack') = Len(hstack) - 1
      /\ DOMAIN hstack' = 1..(Len(hstack) - 1)
      /\ \A i \in 1..(Len(hstack) - 1) : hstack'[i] = hstack[i]
  BY <1>1, <1>3, <1>4, PrefixFacts
<1>6. \A i \in DOMAIN hstack' : i \in DOMAIN hstack /\ hstack'[i] = hstack[i]
  BY <1>3, <1>5, SMTT(60)
<1>7. AddrsGood(store, hstack')
  BY <1>3, <1>5, <1>6 DEF AddrsGood
<1>8. Len(hstack') <= HypStackSize
  BY <1>3, <1>5, VerifierAssumption
<1>9. AddrsGood(store, ustack')
  <2>1. hstack[Len(hstack)] \in Nat /\ ExprIn(store, hstack[Len(hstack)])
    BY <1>3, <1>4 DEF AddrsGood
  <2> QED
    BY <1>1, <2>1 DEF AddrsGood
<1> QED
  BY <1>1, <1>2, <1>3, <1>7, <1>8, <1>9, UnifyFrame, UnifyKeeps

(* The end of the unify stream. *)
LEMMA UnifyEndFacts ==
  ASSUME IndInv, NEW for, UnifyEnd(for)
  PROVE  /\ pc = "unify" /\ ucall.for = for
         /\ for = "end" => hstack = <<>>
         /\ ExprIn(store, ucall.e) /\ ucall.e \in Nat /\ ucall.save \in BOOLEAN
         /\ pc' # "unify" => UnifyInv'
<1>1. UStep("End") /\ ucall.for = for /\ ucall' = NoCall /\ UNCHANGED <<ustack, uheap>>
  BY DEF UnifyEnd
<1>2. pc = "unify" /\ ucode' \in Seq(UnifyCmd)
  BY <1>1, UStepFacts
<1>3. for = "end" => hstack = <<>>
  BY <1>1 DEF UnifyEnd, UMode
<1>4. ExprIn(store, ucall.e) /\ ucall.e \in Nat /\ ucall.save \in BOOLEAN
  BY <1>2 DEF IndInv, UnifyInv
<1>5. NoCall \in [for : {"none", "def", "thm", "unfold", "end"}, e : Nat, save : BOOLEAN]
  BY DEF NoCall
<1>6. pc' # "unify" => UnifyInv'
  BY <1>1, <1>2, <1>5 DEF IndInv, UnifyInv
<1> QED
  BY <1>1, <1>2, <1>3, <1>4, <1>6

(* A definition whose value was unified is declared.                       *)
LEMMA FinishDefStep ==
  ASSUME IndInv, FinishDef
  PROVE  IndInv'
<1>1. /\ UnifyEnd("def") /\ nterms' = nterms + 1 /\ pc' = "stmt"
      /\ UNCHANGED <<file, nsorts, nthms, stmt, machine, anysorry>>
  BY DEF FinishDef
<1>2. pc = "unify" /\ ucall.for = "def" /\ UnifyInv'
  BY <1>1, UnifyEndFacts
<1>3. stmt.kind = "def" /\ TermNow.sort \in 1..nsorts
  BY <1>2 DEF IndInv, TheoryInv
<1>4. nterms \in Nat /\ nsorts \in Nat /\ nterms < Len(file.terms) /\ Len(file.terms) \in Nat
  BY <1>2, <1>3, Tables DEF IndInv, TheoryInv, Current
<1>5. TermsDeclared'
  <2>1. \A t \in 1..nterms : file.terms[t].sort \in 1..nsorts
    BY DEF IndInv, TheoryInv, TermsDeclared
  <2>2. \A t \in 1..(nterms + 1) : t \in 1..nterms \/ t = nterms + 1
    BY <1>4
  <2> QED
    BY <1>1, <1>3, <2>1, <2>2 DEF TermsDeclared, TermNow
<1>6. nterms' \in 0..Len(file.terms)
  BY <1>1, <1>4
<1>7. TheoryInv'
  BY <1>1, <1>5, <1>6 DEF IndInv, TheoryInv, Current
<1>8. StoreGood(store, file, nsorts, nterms + 1)
  BY <1>4, StoreGoodDeclare DEF IndInv, StoreInv
<1>9. StoreInv'
  BY <1>1, <1>8 DEF IndInv, StoreInv, machine
<1>10. FlagsInv' /\ StackInv' /\ HeapInv'
  BY <1>1 DEF IndInv, FlagsInv, StackInv, HeapInv, machine
<1>11. HypsInv'
  BY <1>1, <1>3 DEF IndInv, HypsInv, machine
<1> QED
  BY <1>2, <1>7, <1>9, <1>10, <1>11 DEF IndInv

(* So is an axiom or a theorem, its hypotheses being consumed.             *)
LEMMA FinishThmStep ==
  ASSUME IndInv, FinishThm
  PROVE  IndInv'
<1>1. /\ UnifyEnd("end") /\ nthms' = nthms + 1 /\ pc' = "stmt"
      /\ UNCHANGED <<file, nsorts, nterms, stmt, machine, anysorry>>
  BY DEF FinishThm
<1>2. pc = "unify" /\ ucall.for = "end" /\ hstack = <<>> /\ UnifyInv'
  BY <1>1, UnifyEndFacts
<1>3. nthms \in Nat /\ nthms < Len(file.thms) /\ Len(file.thms) \in Nat
  BY <1>2, Tables DEF IndInv, TheoryInv, Current
<1>4. nthms' \in 0..Len(file.thms)
  BY <1>1, <1>3
<1>5. TheoryInv'
  BY <1>1, <1>4 DEF IndInv, TheoryInv, Current, TermsDeclared
<1>6. FlagsInv' /\ StoreInv' /\ StackInv' /\ HeapInv'
  BY <1>1 DEF IndInv, FlagsInv, StoreInv, StackInv, HeapInv, machine
<1>7. HypsInv'
  BY <1>1, <1>2 DEF IndInv, HypsInv, machine
<1> QED
  BY <1>2, <1>5, <1>6, <1>7 DEF IndInv

(* What the callers in run_proof do: back to the proof, with more on the   *)
(* stack and perhaps on the heap.                                          *)
LEMMA ApplyKeeps ==
  ASSUME IndInv, pc = "unify", pc' = "proof", UnifyInv',
         StackGood(store, stack'), Len(stack') <= StackSize,
         HeapGood(store, heap'), Len(heap') <= HeapSize, Extends(heap, heap'),
         UNCHANGED <<theory, spec, stmt, store, hstack, nbv, sorry, anysorry>>
  PROVE  IndInv'
<1> USE DEF theory
<1>1. TheoryInv' /\ FlagsInv' /\ StoreInv' /\ StackInv' /\ HypsInv'
  BY DEF IndInv, TheoryInv, TermsDeclared, Current, TermNow, FlagsInv, StoreInv, StackInv, HypsInv
<1>2. HeapInv'
  <2>1. \A i \in 1..Len(NowArgs) : i \in DOMAIN heap /\ ExprIn(store, heap[i].at)
    BY DEF IndInv, HeapInv
  <2>2. \A i \in 1..Len(NowArgs) : i \in DOMAIN heap' /\ ExprIn(store, heap'[i].at)
    BY <2>1 DEF Extends
  <2>3. NowArgs' = NowArgs
    BY DEF NowArgs, TermNow, ThmNow
  <2> QED
    BY <2>2, <2>3 DEF HeapInv
<1> QED
  BY <1>1, <1>2 DEF IndInv

(* On return to Thm the conclusion's proof is pushed, and saved if asked for. *)
LEMMA ApplyThmStep ==
  ASSUME IndInv, ApplyThm
  PROVE  IndInv'
<1> DEFINE x == Proof(ucall.e)
<1>1. /\ UnifyEnd("thm") /\ PushOn(stack, <<x>>) /\ SaveIf(ucall.save, x)
      /\ pc' = "proof"
      /\ UNCHANGED <<theory, spec, stmt, store, hstack, nbv, sorry, anysorry>>
  BY DEF ApplyThm
<1>2. /\ pc = "unify" /\ UnifyInv' /\ ExprIn(store, ucall.e) /\ ucall.e \in Nat
      /\ ucall.save \in BOOLEAN
  BY <1>1, UnifyEndFacts
<1>3. x \in Item /\ x.tag = "proof" /\ ExprIn(store, x.at) /\ HeapItemGood(store, x)
  BY <1>2 DEF Proof, Item, HeapItemGood
<1> HIDE DEF x
<1>4. StackGood(store, stack') /\ Len(stack') <= StackSize
  BY <1>1, <1>3, UnifyFrame, StackGoodItem, PushKeeps
<1>5. HeapGood(store, heap') /\ Len(heap') <= HeapSize /\ Extends(heap, heap')
  BY <1>1, <1>2, <1>3, SaveIfKeeps DEF IndInv, HeapInv
<1> QED
  BY <1>1, <1>2, <1>4, <1>5, ApplyKeeps

(* On return to Unfold the obligation is pushed over its right side.       *)
LEMMA ApplyUnfoldStep ==
  ASSUME IndInv, ApplyUnfold
  PROVE  IndInv'
<1> DEFINE x == CoConv(ucall.e)
<1>1. /\ UnifyEnd("unfold") /\ PushOn(stack, <<x>>) /\ pc' = "proof"
      /\ UNCHANGED <<theory, spec, stmt, store, heap, hstack, nbv, sorry, anysorry>>
  BY DEF ApplyUnfold
<1>2. /\ pc = "unify" /\ UnifyInv' /\ ExprIn(store, ucall.e) /\ ucall.e \in Nat
      /\ stack # <<>> /\ stack[Len(stack)].tag = "expr"
  BY <1>1, UnifyEndFacts DEF IndInv, UnifyInv
<1>3. x \in Item /\ ExprIn(store, x.at)
  BY <1>2 DEF CoConv, Item
<1> HIDE DEF x
<1>4. StackGood(store, stack) /\ stack \in Seq(Item)
  BY UnifyFrame DEF StackGood
<1>5. stack' = stack \o <<x>> /\ Len(stack') <= StackSize
  <2>1. Len(stack \o <<x>>) = Len(stack) + Len(<<x>>)
    BY <1>3, <1>4, ConcatFacts
  <2> QED
    BY <1>1, <2>1 DEF PushOn
<1>6. StackGood(store, stack')
  BY <1>2, <1>3, <1>4, <1>5, StackGoodOnExpr
<1>7. HeapGood(store, heap') /\ Len(heap') <= HeapSize /\ Extends(heap, heap')
  BY <1>1, ExtendsRefl DEF IndInv, HeapInv
<1> QED
  BY <1>1, <1>2, <1>5, <1>6, <1>7, ApplyKeeps

-----------------------------------------------------------------------------
(* Binders *)

(* Finitely many bound binders come before the i-th.                       *)
LEMMA BoundBeforeFinite ==
  ASSUME NEW A, NEW i \in Nat
  PROVE  IsFiniteSet(BoundBefore(A, i)) /\ BitOf(A, i) \in Nat
<1>1. IsFiniteSet(1..(i - 1))
  BY FS_Interval
<1>2. BoundBefore(A, i) \subseteq 1..(i - 1)
  BY DEF BoundBefore
<1>3. IsFiniteSet(BoundBefore(A, i))
  BY <1>1, <1>2, FS_Subset
<1> QED
  BY <1>3, FS_CardinalityType DEF BitOf

(* Two bound binders have two dependency bits, the later one the higher. *)
LEMMA BitsDistinct ==
  ASSUME NEW A, NEW j \in Nat \ {0}, NEW k \in Nat, j < k, A[j].bound
  PROVE  BitOf(A, j) < BitOf(A, k)
<1> DEFINE B == BoundBefore(A, j)
           C == BoundBefore(A, k)
<1>1. IsFiniteSet(B) /\ IsFiniteSet(C)
  BY BoundBeforeFinite
<1>2. j \notin B
  BY DEF BoundBefore
<1>3. B \cup {j} \subseteq C
  BY DEF BoundBefore
<1> HIDE DEF B, C
<1>4. Cardinality(B \cup {j}) = Cardinality(B) + 1
  BY <1>1, <1>2, FS_AddElement
<1>5. Cardinality(B \cup {j}) <= Cardinality(C)
  BY <1>1, <1>3, FS_Subset
<1>6. Cardinality(B) \in Nat /\ Cardinality(C) \in Nat
  BY <1>1, FS_CardinalityType
<1>7. Cardinality(B) < Cardinality(C)
  BY <1>4, <1>5, <1>6
<1> QED
  BY <1>7 DEF BitOf, B, C

(* Checked binders fit the dependency bits: there are no more bound ones   *)
(* than bits, by the pigeonhole principle.                                 *)
LEMMA NumBoundFits ==
  ASSUME NEW A \in Seq(Type), BindersOK(A)
  PROVE  NumBound(A) \in 0..(DepsBits + 1)
<1> DEFINE n == Len(A)
           B == BoundBefore(A, n + 1)
           T == 0..(DepsBits - 1)
           f == [k \in B |-> BitOf(A, k)]
<1>1. n \in Nat /\ n + 1 \in Nat /\ DepsBits \in Nat
  BY VerifierAssumption
<1>2. IsFiniteSet(B) /\ NumBound(A) \in Nat /\ NumBound(A) = Cardinality(B)
  BY <1>1, BoundBeforeFinite DEF NumBound, BitOf
<1>3. IsFiniteSet(T) /\ Cardinality(T) = DepsBits
  <2>1. 0 \in Int /\ DepsBits - 1 \in Int
    BY <1>1
  <2>2. IsFiniteSet(T) /\ Cardinality(T) = IF 0 > DepsBits - 1 THEN 0 ELSE DepsBits - 1 - 0 + 1
    BY <2>1, FS_Interval
  <2> QED
    BY <1>1, <2>2
<1>4. \A k \in B : k \in 1..n /\ A[k].bound
  BY <1>1 DEF BoundBefore
<1>5. f \in [B -> T]
  <2>1. ASSUME NEW k \in B PROVE BitOf(A, k) \in T
    <3>1. k \in 1..n /\ A[k].bound /\ k \in Nat
      BY <1>4
    <3>2. BitOf(A, k) < DepsBits
      BY <3>1 DEF BindersOK
    <3>3. BitOf(A, k) \in Nat
      BY <3>1, BoundBeforeFinite
    <3> QED
      BY <1>1, <3>2, <3>3
  <2> QED
    BY <2>1
<1>6. ASSUME NEW x \in B, NEW y \in B, f[x] = f[y]
      PROVE  x = y
  <2>1. /\ x \in Nat \ {0} /\ A[x].bound /\ y \in Nat \ {0} /\ A[y].bound
        /\ BitOf(A, x) = BitOf(A, y)
    BY <1>4, <1>6
  <2>2. BitOf(A, x) \in Nat
    BY <2>1, BoundBeforeFinite
  <2>3. ~(x < y) /\ ~(y < x)
    BY <2>1, <2>2, BitsDistinct
  <2> QED
    BY <2>1, <2>3
<1> HIDE DEF B, T, f
<1>7. ~(Cardinality(T) < Cardinality(B))
  BY <1>2, <1>3, <1>5, <1>6, FS_PigeonHole
<1> QED
  BY <1>1, <1>2, <1>3, <1>7

-----------------------------------------------------------------------------
(* The statements *)

(* load_args makes a good store, a good heap and a bounded count of variables. *)
LEMMA LoadArgsKeeps ==
  ASSUME NEW A \in Seq(Type), NEW n \in 0..Len(A), LoadArgs(A, n)
  PROVE  /\ StoreGood(store', file, nsorts, nterms) /\ Len(store') <= StoreSize
         /\ HeapGood(store', heap') /\ Len(heap') <= HeapSize
         /\ \A i \in 1..n : i \in DOMAIN heap' /\ ExprIn(store', heap'[i].at)
         /\ nbv' \in 0..(DepsBits + 1)
<1> DEFINE st == [i \in 1..Len(A) |-> [tag |-> "var", type |-> A[i]]]
           h == [i \in 1..n |-> Expr(i)]
<1>1. /\ BindersOK(A) /\ Len(A) <= HeapSize /\ Len(A) <= StoreSize
      /\ store' = st /\ heap' = h /\ nbv' = NumBound(A)
  BY DEF LoadArgs
<1>2. Len(A) \in Nat /\ n \in Nat /\ n <= Len(A) /\ HeapSize \in Nat /\ StoreSize \in Nat
  BY VerifierAssumption
<1>3. \A i \in 1..Len(A) : st[i] \in Cell /\ st[i].tag = "var" /\ st[i].type = A[i]
  BY DEF Cell
<1>4. st \in [1..Len(A) -> Cell]
  BY <1>3
<1>5. \A i \in 1..Len(A) : A[i].sort \in 1..nsorts
  BY <1>1 DEF BindersOK
<1> HIDE DEF st
<1>6. st \in Seq(Cell) /\ Len(st) = Len(A) /\ DOMAIN st = 1..Len(A)
  BY <1>2, <1>4, SeqDef
<1>7. StoreGood(st, file, nsorts, nterms)
  BY <1>3, <1>5, <1>6 DEF StoreGood, CellIn
<1>8. \A i \in 1..n : /\ h[i] \in Item /\ h[i].tag = "expr" /\ h[i].at = i
                      /\ ExprIn(st, h[i].at)
  <2> SUFFICES ASSUME NEW i \in 1..n
               PROVE  Expr(i) \in Item /\ Expr(i).tag = "expr" /\ Expr(i).at = i /\ ExprIn(st, i)
    BY DEF Expr
  <2>1. i \in Nat /\ i \in 1..Len(A)
    BY <1>2
  <2> QED
    BY <1>3, <1>6, <2>1 DEF Item, Expr, ExprIn
<1>9. h \in [1..n -> Item]
  BY <1>8
<1> HIDE DEF h
<1>10. h \in Seq(Item) /\ Len(h) = n /\ DOMAIN h = 1..n
  BY <1>2, <1>9, SeqDef
<1>11. HeapGood(st, h)
  BY <1>8, <1>10 DEF HeapGood, HeapItemGood
<1>12. nbv' \in 0..(DepsBits + 1)
  BY <1>1, NumBoundFits
<1>13. Len(st) <= StoreSize /\ Len(h) <= HeapSize
  BY <1>1, <1>2, <1>6, <1>10
<1> QED
  BY <1>1, <1>7, <1>8, <1>10, <1>11, <1>12, <1>13

(* Nothing points anywhere. *)
LEMMA NothingGood ==
  ASSUME NEW st
  PROVE  StackGood(st, <<>>) /\ HeapGood(st, <<>>) /\ AddrsGood(st, <<>>)
  BY DEF StackGood, Paired, HeapGood, AddrsGood

(* A sort is declared: what is stored stays good.                          *)
LEMMA SortStep ==
  ASSUME IndInv, StmtSort
  PROVE  IndInv'
<1> USE DEF machine, unifier
<1>1. /\ pc = "stmt" /\ nsorts < Len(file.sorts) /\ nsorts' = nsorts + 1
      /\ UNCHANGED <<file, nterms, nthms, pc, stmt, machine, anysorry, unifier>>
  BY DEF StmtSort
<1>2. nsorts \in Nat /\ nterms \in Nat /\ Len(file.sorts) \in Nat
  BY Tables DEF IndInv
<1>3. nsorts' \in 0..Len(file.sorts) /\ 1..nsorts \subseteq 1..(nsorts + 1)
  BY <1>1, <1>2
<1>4. TheoryInv'
  BY <1>1, <1>3 DEF IndInv, TheoryInv, TermsDeclared, Current
<1>5. StoreGood(store, file, nsorts + 1, nterms)
  BY <1>2, StoreGoodDeclare DEF IndInv, StoreInv
<1>6. StoreInv'
  BY <1>1, <1>5 DEF IndInv, StoreInv
<1>7. FlagsInv' /\ StackInv' /\ HeapInv' /\ HypsInv'
  BY <1>1 DEF IndInv, FlagsInv, StackInv, HeapInv, HypsInv
<1>8. UnifyInv'
  BY <1>1 DEF IndInv, UnifyInv
<1> QED
  BY <1>4, <1>6, <1>7, <1>8 DEF IndInv

(* The header common to a term and a definition. *)
LEMMA HeaderKeeps ==
  ASSUME IndInv, TermHeader
  PROVE  /\ nterms \in Nat /\ nterms < Len(file.terms) /\ Len(file.terms) \in Nat
         /\ TermNow.sort \in 1..nsorts
         /\ StoreGood(store', file, nsorts, nterms) /\ Len(store') <= StoreSize
         /\ HeapGood(store', heap') /\ Len(heap') <= HeapSize
         /\ \A i \in 1..Len(TermNow.args) : i \in DOMAIN heap' /\ ExprIn(store', heap'[i].at)
         /\ nbv' \in 0..(DepsBits + 1)
         /\ stack' = <<>>
<1> DEFINE A == Append(TermNow.args, TermNow.ret)
<1>1. /\ nterms < Len(file.terms) /\ TermNow.sort \in 1..nsorts
      /\ LoadArgs(A, Len(TermNow.args)) /\ stack' = <<>>
  BY DEF TermHeader
<1>2. nterms \in Nat /\ Len(file.terms) \in Nat
  BY Tables DEF IndInv
<1>3. TermNow \in TermEntry
  <2>1. nterms + 1 \in 1..Len(file.terms)
    BY <1>1, <1>2
  <2> QED
    BY <2>1, Tables DEF IndInv, TermNow
<1>4. TermNow.args \in Seq(Type) /\ TermNow.ret \in Type
  BY <1>3 DEF TermEntry
<1>5. A \in Seq(Type) /\ Len(A) = Len(TermNow.args) + 1 /\ Len(TermNow.args) \in Nat
  BY <1>4, AppendFacts
<1> HIDE DEF A
<1>6. Len(TermNow.args) \in 0..Len(A)
  BY <1>5
<1> QED
  BY <1>1, <1>2, <1>5, <1>6, LoadArgsKeeps

(* A term is declared after load_args reset store and heap.                *)
LEMMA TermStmtStep ==
  ASSUME IndInv, NEW local, StmtTerm(local)
  PROVE  IndInv'
<1> USE DEF unifier
<1>1. /\ pc = "stmt" /\ TermHeader /\ nterms' = nterms + 1
      /\ UNCHANGED <<file, nsorts, nthms, pc, stmt, hstack, sorry, anysorry, unifier>>
  BY DEF StmtTerm
<1>2. /\ nterms \in Nat /\ nterms < Len(file.terms) /\ Len(file.terms) \in Nat
      /\ TermNow.sort \in 1..nsorts
      /\ StoreGood(store', file, nsorts, nterms) /\ Len(store') <= StoreSize
      /\ HeapGood(store', heap') /\ Len(heap') <= HeapSize
      /\ nbv' \in 0..(DepsBits + 1)
      /\ stack' = <<>>
  BY <1>1, HeaderKeeps
<1>3. TermsDeclared'
  <2>1. \A t \in 1..nterms : file.terms[t].sort \in 1..nsorts
    BY DEF IndInv, TheoryInv, TermsDeclared
  <2>2. \A t \in 1..(nterms + 1) : t \in 1..nterms \/ t = nterms + 1
    BY <1>2
  <2> QED
    BY <1>1, <1>2, <2>1, <2>2 DEF TermsDeclared, TermNow
<1>4. nterms' \in 0..Len(file.terms)
  BY <1>1, <1>2
<1>5. TheoryInv'
  BY <1>1, <1>3, <1>4 DEF IndInv, TheoryInv, Current
<1>6. StoreInv'
  <2>1. nsorts \in Nat
    BY Tables DEF IndInv
  <2>2. nterms + 1 \in Nat /\ nterms <= nterms + 1
    BY <1>2
  <2>3. StoreGood(store', file, nsorts, nterms + 1)
    BY <1>2, <2>1, <2>2, StoreGoodDeclare
  <2> QED
    BY <1>1, <1>2, <2>3 DEF StoreInv
<1>7. HypsInv'
  BY <1>1, NothingGood DEF IndInv, HypsInv
<1>8. StackInv'
  <2>1. Len(<<>>) = 0 /\ 0 <= StackSize
    BY VerifierAssumption
  <2> QED
    BY <1>2, <2>1, NothingGood DEF StackInv
<1>9. HeapInv' /\ FlagsInv'
  BY <1>1, <1>2 DEF IndInv, HeapInv, FlagsInv
<1>10. UnifyInv'
  BY <1>1 DEF IndInv, UnifyInv
<1> QED
  BY <1>5, <1>6, <1>7, <1>8, <1>9, <1>10 DEF IndInv

(* A statement whose proof is about to run. *)
LEMMA BeginProof ==
  ASSUME IndInv, pc = "stmt", pc' = "proof", stack' = <<>>, hstack' = <<>>,
         StoreGood(store', file, nsorts, nterms), Len(store') <= StoreSize,
         HeapGood(store', heap'), Len(heap') <= HeapSize,
         \A i \in 1..Len(NowArgs') : i \in DOMAIN heap' /\ ExprIn(store', heap'[i].at),
         nbv' \in 0..(DepsBits + 1), sorry' = FALSE,
         stmt' \in [kind : {"def", "axiom", "thm"}, local : BOOLEAN],
         stmt'.kind = "def" => nterms < Len(file.terms) /\ TermNow.sort \in 1..nsorts,
         stmt'.kind # "def" => nthms < Len(file.thms),
         UNCHANGED <<theory, spec, anysorry, unifier>>
  PROVE  IndInv'
<1> USE DEF theory, unifier
<1>1. TheoryInv'
  <2>1. TermsDeclared'
    BY DEF IndInv, TheoryInv, TermsDeclared
  <2>2. Current'
    BY DEF Current
  <2>3. stmt' \in [kind : {"none", "def", "axiom", "thm"}, local : BOOLEAN]
    OBVIOUS
  <2>4. stmt'.kind = "def" => TermNow'.sort \in 1..nsorts'
    BY DEF TermNow
  <2> QED
    BY <2>1, <2>2, <2>3, <2>4 DEF IndInv, TheoryInv
<1>2. FlagsInv' /\ StoreInv' /\ HeapInv'
  BY DEF IndInv, FlagsInv, StoreInv, HeapInv
<1>3. StackInv' /\ HypsInv'
  <2>1. Len(<<>>) = 0 /\ 0 <= StackSize /\ 0 <= HypStackSize
    BY VerifierAssumption
  <2> QED
    BY <2>1, NothingGood DEF StackInv, HypsInv
<1>4. UnifyInv'
  BY DEF IndInv, UnifyInv
<1> QED
  BY <1>1, <1>2, <1>3, <1>4 DEF IndInv

(* A definition's proof begins.                                            *)
LEMMA DefStmtStep ==
  ASSUME IndInv, NEW local \in BOOLEAN, StmtDef(local)
  PROVE  IndInv'
<1>1. /\ pc = "stmt" /\ TermHeader /\ pc' = "proof" /\ sorry' = FALSE
      /\ stmt' = [kind |-> "def", local |-> local]
      /\ UNCHANGED <<theory, spec, hstack, anysorry, unifier>>
  BY DEF StmtDef
<1>2. hstack' = <<>>
  BY <1>1 DEF IndInv, HypsInv
<1>3. NowArgs' = TermNow.args
  BY <1>1 DEF NowArgs, TermNow, theory
<1>4. stmt' \in [kind : {"def", "axiom", "thm"}, local : BOOLEAN] /\ stmt'.kind = "def"
  BY <1>1
<1> QED
  BY <1>1, <1>2, <1>3, <1>4, HeaderKeeps, BeginProof

(* The proof of an axiom or a theorem begins.                              *)
LEMMA ThmStmtStep ==
  ASSUME IndInv, NEW kind \in {"axiom", "thm"}, NEW local \in BOOLEAN, StmtThm(kind, local)
  PROVE  IndInv'
<1>1. /\ pc = "stmt" /\ nthms < Len(file.thms) /\ pc' = "proof" /\ sorry' = FALSE
      /\ LoadArgs(ThmNow.args, Len(ThmNow.args))
      /\ stack' = <<>> /\ hstack' = <<>>
      /\ stmt' = [kind |-> kind, local |-> local]
      /\ UNCHANGED <<theory, spec, anysorry, unifier>>
  BY DEF StmtThm
<1>2. stmt' \in [kind : {"def", "axiom", "thm"}, local : BOOLEAN] /\ stmt'.kind # "def"
  BY <1>1
<1>3. NowArgs' = ThmNow.args
  BY <1>1, <1>2 DEF NowArgs, ThmNow, theory
<1>4. ThmNow.args \in Seq(Type)
  <2>1. nthms \in Nat /\ Len(file.thms) \in Nat
    BY Tables DEF IndInv
  <2>2. nthms + 1 \in 1..Len(file.thms)
    BY <1>1, <2>1
  <2>3. ThmNow \in ThmEntry
    BY <2>2, Tables DEF IndInv, ThmNow
  <2> QED
    BY <2>3 DEF ThmEntry
<1>5. Len(ThmNow.args) \in 0..Len(ThmNow.args)
  BY <1>4
<1>6. /\ StoreGood(store', file, nsorts, nterms) /\ Len(store') <= StoreSize
      /\ HeapGood(store', heap') /\ Len(heap') <= HeapSize
      /\ \A i \in 1..Len(ThmNow.args) : i \in DOMAIN heap' /\ ExprIn(store', heap'[i].at)
      /\ nbv' \in 0..(DepsBits + 1)
  BY <1>1, <1>4, <1>5, LoadArgsKeeps
<1> QED
  BY <1>1, <1>2, <1>3, <1>6, BeginProof

(* The verdict changes nothing else.                                       *)
LEMMA EndStep ==
  ASSUME IndInv, StmtEnd
  PROVE  IndInv'
<1> USE DEF theory, machine, unifier
<1>1. /\ pc = "stmt" /\ pc' \in {"sorry", "accepted"}
      /\ UNCHANGED <<theory, stmt, machine, anysorry, unifier>>
  BY DEF StmtEnd
<1>2. TheoryInv' /\ FlagsInv' /\ StoreInv' /\ StackInv'
  BY <1>1 DEF IndInv, TheoryInv, TermsDeclared, Current, FlagsInv, StoreInv, StackInv
<1>3. HeapInv' /\ HypsInv' /\ UnifyInv'
  BY <1>1 DEF IndInv, HeapInv, HypsInv, UnifyInv
<1> QED
  BY <1>2, <1>3 DEF IndInv

(* A failed ENSURE leaves nothing behind.                                  *)
LEMMA RejectStep ==
  ASSUME IndInv, Reject
  PROVE  IndInv'
<1> USE DEF theory
<1>1. /\ pc' = "rejected"
      /\ store' = <<>> /\ stack' = <<>> /\ heap' = <<>> /\ hstack' = <<>>
      /\ ucode' = <<>> /\ ustack' = <<>> /\ uheap' = <<>>
      /\ nbv' = 0 /\ sorry' = FALSE /\ ucall' = NoCall
      /\ UNCHANGED <<theory, stmt, anysorry>>
  BY DEF Reject
<1>2. /\ {StackSize, HeapSize, StoreSize, HypStackSize} \subseteq Nat /\ DepsBits \in Nat
      /\ Len(<<>>) = 0
  BY VerifierAssumption
<1>3. TheoryInv'
  BY <1>1 DEF IndInv, TheoryInv, TermsDeclared, Current
<1>4. FlagsInv'
  <2>1. nbv' \in 0..(DepsBits + 1)
    BY <1>1, <1>2
  <2>2. sorry' \in BOOLEAN /\ anysorry' \in BOOLEAN
    BY <1>1 DEF IndInv, FlagsInv
  <2> QED
    BY <2>1, <2>2 DEF FlagsInv
<1>5. StoreInv' /\ StackInv' /\ HeapInv' /\ HypsInv'
  <2>1. StoreGood(<<>>, file, nsorts, nterms)
    BY DEF StoreGood
  <2>2. /\ Len(<<>>) <= StoreSize /\ Len(<<>>) <= StackSize
        /\ Len(<<>>) <= HeapSize /\ Len(<<>>) <= HypStackSize
    BY <1>2
  <2>3. StoreInv'
    BY <1>1, <2>1, <2>2 DEF StoreInv
  <2> QED
    BY <1>1, <2>2, <2>3, NothingGood DEF StackInv, HeapInv, HypsInv
<1>6. UnifyInv'
  BY <1>1 DEF UnifyInv, NoCall
<1> QED
  BY <1>3, <1>4, <1>5, <1>6 DEF IndInv

-----------------------------------------------------------------------------
(* The theorems *)

(* The invariant holds at the start.                                       *)
LEMMA InitInv ==
  ASSUME Init
  PROVE  IndInv
<1>1. /\ {StackSize, HeapSize, StoreSize, HypStackSize} \subseteq Nat /\ DepsBits \in Nat
      /\ Len(<<>>) = 0
  BY VerifierAssumption
<1>2. /\ Len(<<>>) <= StoreSize /\ Len(<<>>) <= StackSize
      /\ Len(<<>>) <= HeapSize /\ Len(<<>>) <= HypStackSize
  BY <1>1
<1>3. TheoryInv
  <2>1. FileOK(file)
    BY VerifierAssumption DEF Init
  <2>2. Len(file.sorts) \in Nat /\ Len(file.terms) \in Nat /\ Len(file.thms) \in Nat
    BY <2>1 DEF FileOK
  <2>3. TermsDeclared
    BY DEF Init, TermsDeclared
  <2> QED
    BY <2>2, <2>3 DEF Init, TheoryInv, Current, NoStmt
<1>4. FlagsInv
  <2>1. nbv \in 0..(DepsBits + 1)
    BY <1>1 DEF Init
  <2>2. sorry \in BOOLEAN /\ anysorry \in BOOLEAN
    BY DEF Init
  <2> QED
    BY <2>1, <2>2 DEF FlagsInv
<1>5. StoreInv
  BY <1>2 DEF Init, StoreInv, StoreGood
<1>6. StackInv /\ HeapInv /\ HypsInv
  BY <1>2, NothingGood DEF Init, StackInv, HeapInv, HypsInv
<1>7. UnifyInv
  BY DEF Init, UnifyInv, NoCall
<1> QED
  BY <1>3, <1>4, <1>5, <1>6, <1>7 DEF IndInv

(* Every step of the statement loop keeps the invariant,                   *)
LEMMA StatementStep ==
  ASSUME IndInv, Statement
  PROVE  IndInv'
  BY SortStep, TermStmtStep, DefStmtStep, ThmStmtStep, EndStep DEF Statement

(* every proof command,                                                    *)
LEMMA ProofStepKeeps ==
  ASSUME IndInv, ProofStep
  PROVE  IndInv'
<1>1. CASE \E i \in DOMAIN heap : ProofRef(i)
  BY <1>1, RefStep
<1>2. CASE \E s \in 1..nsorts : ProofDummy(s)
  BY <1>2, DummyStep
<1>3. CASE \E t \in 1..nterms, save \in BOOLEAN : ProofTerm(t, save)
  BY <1>3, TermStep
<1>4. CASE \E t \in 1..nthms, save \in BOOLEAN : ProofThm(t, save)
  BY <1>4, ThmStep
<1>5. CASE ProofHyp \/ ProofSave \/ ProofSorry \/ EndDef \/ EndThm
  BY <1>5, HypStep, SaveStep, SorryStep, EndDefStep, EndThmStep
<1>6. CASE ProofConv \/ ProofRefl \/ ProofSymm \/ ProofCong
             \/ ProofUnfold \/ ProofConvCut \/ ProofConvSave
  BY <1>6, ConvStepKeeps, ReflStep, SymmStep, CongStep, UnfoldStep, ConvCutStep, ConvSaveStep
<1> QED
  BY <1>1, <1>2, <1>3, <1>4, <1>5, <1>6 DEF ProofStep

(* every unify command,                                                    *)
LEMMA UnifyStepKeeps ==
  ASSUME IndInv, UnifyStep
  PROVE  IndInv'
  BY UnifyRefStep, UnifyTermStep, UnifyDummyStep, UnifyHypThmStep, UnifyHypEndStep,
     FinishDefStep, FinishThmStep, ApplyThmStep, ApplyUnfoldStep DEF UnifyStep

(* and a stutter.                                                          *)
LEMMA StutterStep ==
  ASSUME IndInv, UNCHANGED vars
  PROVE  IndInv'
<1> USE DEF vars, theory, machine, unifier
<1>1. TheoryInv' /\ FlagsInv' /\ StoreInv' /\ StackInv'
  BY DEF IndInv, TheoryInv, TermsDeclared, Current, TermNow, FlagsInv, StoreInv, StackInv
<1>2. HeapInv' /\ HypsInv'
  BY DEF IndInv, HeapInv, HypsInv, NowArgs, TermNow, ThmNow
<1>3. UnifyInv'
  BY DEF IndInv, UnifyInv
<1> QED
  BY <1>1, <1>2, <1>3 DEF IndInv

(* The inductive invariant holds of every run of the kernel, on any file   *)
(* and with any streams.                                                   *)
THEOREM VerifierInductive == Spec => []IndInv
<1>1. Init => IndInv
  BY InitInv
<1>2. IndInv /\ [Next]_vars => IndInv'
  BY StatementStep, ProofStepKeeps, UnifyStepKeeps, RejectStep, StutterStep DEF Next
<1> QED
  BY <1>1, <1>2, PTL DEF Spec

(* Every cell points to earlier cells only, with the number and the sorts  *)
(* of arguments of its declaration: expressions are finite and well sorted.*)
THEOREM VerifierStoreWellFormed == Spec => []StoreWellFormed
<1>1. IndInv => StoreWellFormed
  BY StoreInvWellFormed DEF IndInv
<1> QED
  BY <1>1, VerifierInductive, PTL

(* Every pointer on a stack or a heap is to an allocated cell of the kind  *)
(* the code casts it to.                                                   *)
THEOREM VerifierPointersValid == Spec => []PointersValid
<1>1. IndInv => PointersValid
  BY InvPointers DEF IndInv
<1> QED
  BY <1>1, VerifierInductive, PTL

(* Conversions and obligations keep their second expression below them, so *)
(* the unchecked read of Save is of an expression, and the obligation that *)
(* Unfold leaves half done is whole again when the unifier returns.        *)
THEOREM VerifierConversionsPaired == Spec => []ConversionsPaired
<1>1. IndInv => ConversionsPaired
  BY StackInvPaired DEF IndInv
<1> QED
  BY <1>1, VerifierInductive, PTL

(* No obligation is ever saved on the heap, from where Ref could push it   *)
(* any number of times.                                                    *)
THEOREM VerifierHeapHoldsNoObligation == Spec => []HeapHoldsNoObligation
<1>1. IndInv => HeapHoldsNoObligation
  BY HeapInvNoObligation DEF IndInv
<1> QED
  BY <1>1, VerifierInductive, PTL

-----------------------------------------------------------------------------
(* What the steps leave alone *)

(* While a proof runs nothing is declared and the statement is the same.   *)
LEMMA ProofStepFrame ==
  ASSUME ProofStep
  PROVE  /\ UNCHANGED <<stmt, theory, spec>> /\ pc = "proof" /\ pc' \in {"proof", "unify"}
         /\ anysorry => anysorry'
<1> USE DEF theory, machine
<1>1. CASE \E i \in DOMAIN heap : ProofRef(i)
  BY <1>1 DEF ProofRef
<1>2. CASE \E s \in 1..nsorts : ProofDummy(s)
  BY <1>2 DEF ProofDummy
<1>3. CASE \E t \in 1..nterms, save \in BOOLEAN : ProofTerm(t, save)
  BY <1>3 DEF ProofTerm
<1>4. CASE \E t \in 1..nthms, save \in BOOLEAN : ProofThm(t, save)
  BY <1>4 DEF ProofThm, RunUnify
<1>5. CASE ProofHyp \/ ProofConv \/ ProofRefl \/ ProofSymm \/ ProofCong
  <2>1. CASE ProofHyp \/ ProofConv
    BY <2>1 DEF ProofHyp, ProofConv
  <2>2. CASE ProofRefl \/ ProofSymm \/ ProofCong
    BY <2>2 DEF ProofRefl, ProofSymm, ProofCong
  <2> QED
    BY <1>5, <2>1, <2>2
<1>6. CASE ProofUnfold \/ EndDef \/ EndThm
  <2>1. CASE ProofUnfold
    BY <2>1 DEF ProofUnfold, RunUnify
  <2>2. CASE EndDef
    BY <2>2 DEF EndDef, RunUnify
  <2>3. CASE EndThm
    <3>1. pc = "proof" /\ pc' = "unify" /\ UNCHANGED <<stmt, theory, spec>>
      BY <2>3 DEF EndThm, RunUnify
    <3>2. anysorry => anysorry'
      BY <2>3 DEF EndThm
    <3> QED
      BY <3>1, <3>2
  <2> QED
    BY <1>6, <2>1, <2>2, <2>3
<1>7. CASE ProofConvCut \/ ProofConvSave \/ ProofSave \/ ProofSorry
  BY <1>7 DEF ProofConvCut, ProofConvSave, ProofSave, ProofSorry
<1> QED
  BY <1>1, <1>2, <1>3, <1>4, <1>5, <1>6, <1>7 DEF ProofStep

(* Of the unifier's steps only the last one of a theorem declares one. *)
LEMMA UnifyStepFrame ==
  ASSUME UnifyStep
  PROVE  /\ UNCHANGED <<stmt, anysorry, sorry>> /\ pc = "unify"
         /\ pc' \in {"unify", "proof", "stmt"}
         /\ FinishDef \/ FinishThm \/ UNCHANGED <<theory, spec>>
         /\ pc' = "stmt" => ucall.for \in {"def", "end"}
         /\ pc' # "unify" \/ ucall' = ucall
<1> USE DEF theory, machine
<1>1. CASE UnifyRef \/ UnifyDummy \/ UnifyHypThm \/ UnifyHypEnd
  BY <1>1 DEF UnifyRef, UnifyDummy, UnifyHypThm, UnifyHypEnd, UStep
<1>2. CASE UnifyTerm("Term") \/ UnifyTerm("TermSave")
  BY <1>2 DEF UnifyTerm, UStep
<1>3. CASE FinishDef \/ FinishThm \/ ApplyThm \/ ApplyUnfold
  BY <1>3 DEF FinishDef, FinishThm, ApplyThm, ApplyUnfold, UnifyEnd, UStep
<1> QED
  BY <1>1, <1>2, <1>3 DEF UnifyStep

-----------------------------------------------------------------------------
(* Room in the unifier's arrays *)

(* What has been declared, or is being matched with its own statement, has *)
(* binders for which the unify heap has room, for push_uheap has counted   *)
(* them; so Thm and Unfold need not.                                       *)
RoomInv ==
  /\ Len(ustack) <= UStackSize /\ Len(uheap) <= UHeapSize
  /\ \A t \in 1..nthms : Len(file.thms[t].args) <= UHeapSize
  /\ \A t \in 1..nterms : file.terms[t].isdef => Len(file.terms[t].args) <= UHeapSize
  /\ pc = "unify" => /\ ucall.for = "def" => Len(TermNow.args) <= UHeapSize
                     /\ ucall.for = "end" => Len(ThmNow.args) <= UHeapSize

(* A step that declares nothing and calls nothing has to look at the two   *)
(* arrays only.                                                            *)
LEMMA RoomFrame ==
  ASSUME RoomInv, UNCHANGED theory,
         Len(ustack') <= UStackSize, Len(uheap') <= UHeapSize,
         pc' = "unify" => pc = "unify" /\ ucall' = ucall
  PROVE  RoomInv'
  BY DEF RoomInv, theory, TermNow, ThmNow

(* A call of the unifier with n binders, counted now or when what is used   *)
(* was declared.                                                           *)
LEMMA RoomCall ==
  ASSUME RoomInv, UNCHANGED theory, NEW code, NEW target, NEW n \in Nat, NEW subst, NEW call,
         DOMAIN subst = 1..n, n <= UHeapSize, RunUnify(code, target, subst, call),
         call.for = "def" => Len(TermNow.args) <= UHeapSize,
         call.for = "end" => Len(ThmNow.args) <= UHeapSize
  PROVE  RoomInv'
<1>1. ustack' = <<target>> /\ ucall' = call /\ uheap' = [i \in 1..n |-> [at |-> subst[i], saved |-> FALSE]]
  BY DEF RunUnify
<1>2. Len(ustack') <= UStackSize
  BY <1>1, VerifierAssumption
<1>3. Len(uheap') = n
  BY <1>1
<1> QED
  BY <1>1, <1>2, <1>3 DEF RoomInv, theory, TermNow, ThmNow

(* A statement declares no theorem, and no term with a definition.         *)
LEMMA RoomStatement ==
  ASSUME IndInv, RoomInv, Statement
  PROVE  RoomInv'
<1>1. CASE StmtSort \/ StmtEnd
  <2>1. UNCHANGED <<file, nterms, nthms, unifier>> /\ pc' # "unify"
    BY <1>1 DEF StmtSort, StmtEnd, theory
  <2> QED
    BY <2>1 DEF RoomInv, unifier
<1>2. CASE \E local \in BOOLEAN : StmtTerm(local)
  <2>1. /\ UNCHANGED <<file, nthms, unifier>> /\ pc' # "unify"
        /\ nterms' = nterms + 1 /\ ~file.terms[nterms + 1].isdef
    BY <1>2 DEF StmtTerm, TermNow
  <2>2. nterms \in Nat
    BY Tables DEF IndInv
  <2>3. \A t \in 1..(nterms + 1) : t \in 1..nterms \/ t = nterms + 1
    BY <2>2
  <2>4. \A t \in 1..nterms' : file.terms[t].isdef => Len(file.terms[t].args) <= UHeapSize
    BY <2>1, <2>3 DEF RoomInv
  <2> QED
    BY <2>1, <2>4 DEF RoomInv, unifier
<1>3. CASE \/ \E local \in BOOLEAN : StmtDef(local)
           \/ \E kind \in {"axiom", "thm"}, local \in BOOLEAN : StmtThm(kind, local)
  <2>1. UNCHANGED <<file, nterms, nthms, unifier>> /\ pc' # "unify"
    BY <1>3 DEF StmtDef, StmtThm, theory
  <2> QED
    BY <2>1 DEF RoomInv, unifier
<1> QED
  BY <1>1, <1>2, <1>3 DEF Statement

(* A proof command calls the unifier with as many binders as a theorem or  *)
(* definition declared before, or as it has just counted.                  *)
LEMMA RoomProof ==
  ASSUME IndInv, RoomInv, ProofStep
  PROVE  RoomInv'
<1>1. UNCHANGED theory /\ pc = "proof"
  BY ProofStepFrame
<1>2. CASE \E t \in 1..nthms, save \in BOOLEAN : ProofThm(t, save)
  <2>1. PICK t \in 1..nthms, save \in BOOLEAN : ProofThm(t, save)
    BY <1>2
  <2> DEFINE n == Len(file.thms[t].args)
             es == Args(Drop(1), n)
             call == [for |-> "thm", e |-> Top(1).at, save |-> save]
  <2>2. RunUnify(file.thms[t].unify, Top(1).at, es, call)
    BY <2>1 DEF ProofThm
  <2>3. n \in Nat /\ n <= UHeapSize
    <3>1. t \in 1..Len(file.thms)
      BY Tables DEF IndInv, TheoryInv
    <3>2. file.thms[t].args \in Seq(Type)
      BY <3>1, Tables DEF IndInv, ThmEntry
    <3> QED
      BY <3>2 DEF RoomInv
  <2>4. DOMAIN es = 1..n
    BY DEF Args
  <2>5. call.for = "thm"
    OBVIOUS
  <2> HIDE DEF n, es, call
  <2> QED
    BY <1>1, <2>2, <2>3, <2>4, <2>5, RoomCall
<1>3. CASE ProofUnfold
  <2> DEFINE p == store[Top(2).at]
             n == Len(p.args)
             call == [for |-> "unfold", e |-> Top(1).at, save |-> FALSE]
  <2>1. /\ Tags(<<"coconv", "expr">>) /\ p.tag = "term" /\ file.terms[p.id].isdef
        /\ RunUnify(file.terms[p.id].unify, Top(1).at, p.args, call)
    BY <1>3 DEF ProofUnfold
  <2>2. ExprIn(store, Top(2).at)
    BY <2>1, TagsTwo DEF IndInv
  <2>3. p.id \in 1..nterms /\ n = Len(file.terms[p.id].args) /\ p.args \in Seq(Nat)
    BY <2>1, <2>2, TermCell DEF IndInv
  <2> HIDE DEF p
  <2>4. n \in Nat /\ DOMAIN p.args = 1..n
    BY <2>3
  <2>5. n <= UHeapSize
    BY <2>1, <2>3 DEF RoomInv
  <2>6. call.for = "unfold"
    OBVIOUS
  <2> HIDE DEF n, call
  <2> QED
    BY <1>1, <2>1, <2>4, <2>5, <2>6, RoomCall
<1>4. CASE EndDef
  <2> DEFINE n == Len(TermNow.args)
             call == [for |-> "def", e |-> Top(1).at, save |-> FALSE]
  <2>1. n <= UHeapSize /\ RunUnify(TermNow.unify, Top(1).at, Binders(n), call)
    BY <1>4 DEF EndDef
  <2>2. n \in Nat
    BY <1>1, <1>4, CurrentEntry DEF EndDef, TermEntry
  <2>3. DOMAIN Binders(n) = 1..n
    BY DEF Binders
  <2>4. call.for = "def"
    OBVIOUS
  <2> HIDE DEF call
  <2> QED
    BY <1>1, <2>1, <2>2, <2>3, <2>4, RoomCall
<1>5. CASE EndThm
  <2> DEFINE n == Len(ThmNow.args)
             call == [for |-> "end", e |-> Top(1).at, save |-> FALSE]
  <2>1. n <= UHeapSize /\ RunUnify(ThmNow.unify, Top(1).at, Binders(n), call)
    BY <1>5 DEF EndThm
  <2>2. n \in Nat
    BY <1>1, <1>5, CurrentEntry DEF EndThm, ThmEntry
  <2>3. DOMAIN Binders(n) = 1..n
    BY DEF Binders
  <2>4. call.for = "end"
    OBVIOUS
  <2> HIDE DEF call
  <2> QED
    BY <1>1, <2>1, <2>2, <2>3, <2>4, RoomCall
<1>6. CASE /\ ~EndDef /\ ~EndThm /\ ~ProofUnfold
           /\ ~(\E t \in 1..nthms, save \in BOOLEAN : ProofThm(t, save))
  <2>1. UNCHANGED <<unifier, pc>>
    BY <1>6 DEF ProofStep, ProofRef, ProofDummy, ProofTerm, ProofHyp, ProofConv, ProofRefl,
       ProofSymm, ProofCong, ProofConvCut, ProofConvSave, ProofSave, ProofSorry
  <2> QED
    BY <1>1, <2>1, RoomFrame DEF RoomInv, unifier
<1> QED
  BY <1>2, <1>3, <1>4, <1>5, <1>6

(* A unify command pops, or pushes when there is room.                     *)
LEMMA RoomCommand ==
  ASSUME IndInv, RoomInv,
         \/ UnifyRef \/ UnifyTerm("Term") \/ UnifyTerm("TermSave")
         \/ UnifyDummy \/ UnifyHypThm \/ UnifyHypEnd
  PROVE  RoomInv'
<1>1. UNCHANGED <<theory, pc, ucall>>
  BY DEF UnifyRef, UnifyTerm, UnifyDummy, UnifyHypThm, UnifyHypEnd, UStep
<1>2. pc = "unify"
  BY DEF UnifyRef, UnifyTerm, UnifyDummy, UnifyHypThm, UnifyHypEnd, UStep
<1>3. /\ ustack \in Seq(Nat) /\ Len(ustack) \in Nat /\ Len(ustack) <= UStackSize
      /\ uheap \in Seq(UHeapItem) /\ Len(uheap) \in Nat /\ Len(uheap) <= UHeapSize
      /\ UStackSize \in Nat /\ UHeapSize \in Nat
  BY VerifierAssumption DEF IndInv, UnifyInv, RoomInv
<1>4. ustack # <<>> => UDrop \in Seq(Nat) /\ Len(UDrop) <= UStackSize
  <2> SUFFICES ASSUME ustack # <<>> PROVE UDrop \in Seq(Nat) /\ Len(UDrop) <= UStackSize
    OBVIOUS
  <2>1. 1 \in 0..Len(ustack)
    BY <1>3
  <2>2. UDrop \in Seq(Nat) /\ Len(UDrop) = Len(ustack) - 1
    BY <1>3, <2>1, PrefixFacts DEF UDrop
  <2> QED
    BY <1>3, <2>2
<1>5. ASSUME NEW a \in Nat, NEW saved \in BOOLEAN, PushUHeap(a, saved)
      PROVE  Len(uheap') <= UHeapSize
  <2>1. [at |-> a, saved |-> saved] \in UHeapItem
    BY DEF UHeapItem
  <2>2. uheap' = Append(uheap, [at |-> a, saved |-> saved]) /\ Len(uheap) < UHeapSize
    BY <1>5 DEF PushUHeap
  <2>3. Len(uheap') = Len(uheap) + 1
    BY <1>3, <2>1, <2>2, AppendFacts
  <2> QED
    BY <1>3, <2>2, <2>3
<1>6. ustack # <<>> => UTop \in Nat
  BY <1>3 DEF UTop
<1>7. Len(ustack') <= UStackSize /\ Len(uheap') <= UHeapSize
  <2>1. CASE UnifyRef
    BY <2>1, <1>3, <1>4 DEF UnifyRef
  <2>2. ASSUME NEW op, op = "Term" \/ op = "TermSave", UnifyTerm(op)
        PROVE  Len(ustack') <= UStackSize /\ Len(uheap') <= UHeapSize
    <3> DEFINE p == store[UTop]
               n == Len(p.args)
               args == [k \in 1..n |-> p.args[n + 1 - k]]
    <3>1. /\ UStep(op) /\ ustack # <<>> /\ p.tag = "term"
          /\ Len(UDrop) + n <= UStackSize /\ ustack' = UDrop \o args
          /\ IF op = "TermSave" THEN PushUHeap(UTop, TRUE) ELSE UNCHANGED uheap
      BY <2>2 DEF UnifyTerm
    <3>2. ExprIn(store, UTop)
      BY <3>1, UStepFacts
    <3>3. p.args \in Seq(Nat)
      BY <3>1, <3>2, TermCell DEF IndInv
    <3> HIDE DEF p
    <3>4. n \in Nat /\ \A k \in 1..n : p.args[n + 1 - k] \in Nat
      BY <3>3
    <3>5. args \in Seq(Nat) /\ Len(args) = n
      BY <3>4
    <3> HIDE DEF args, n
    <3>6. Len(ustack') = Len(UDrop) + n
      BY <1>4, <3>1, <3>5, ConcatFacts
    <3>7. Len(uheap') <= UHeapSize
      BY <1>3, <1>5, <1>6, <3>1
    <3> QED
      BY <3>1, <3>6, <3>7
  <2>3. CASE UnifyDummy
    BY <2>3, <1>4, <1>5, <1>6 DEF UnifyDummy
  <2>4. CASE UnifyHypThm
    <3>1. Tags(<<"proof">>) /\ Len(ustack) < UStackSize /\ ustack' = Append(ustack, Top(1).at) /\ UNCHANGED uheap
      BY <2>4 DEF UnifyHypThm
    <3>2. Top(1).at \in Nat
      BY <3>1, TagsOne DEF IndInv, Item
    <3>3. Len(ustack') = Len(ustack) + 1
      BY <1>3, <3>1, <3>2, AppendFacts
    <3> QED
      BY <1>3, <3>1, <3>3
  <2>5. CASE UnifyHypEnd
    <3>1. ustack' = <<hstack[Len(hstack)]>> /\ Len(ustack) < UStackSize /\ UNCHANGED uheap
      BY <2>5 DEF UnifyHypEnd
    <3>2. Len(ustack') = 1
      BY <3>1
    <3> QED
      BY <1>3, <3>1, <3>2
  <2> QED
    BY <2>1, <2>2, <2>3, <2>4, <2>5
<1> QED
  BY <1>1, <1>2, <1>7, RoomFrame

(* When a statement is matched its entry joins the declared ones, with the *)
(* binders that were counted before the match.                             *)
LEMMA RoomReturn ==
  ASSUME IndInv, RoomInv, FinishDef \/ FinishThm \/ ApplyThm \/ ApplyUnfold
  PROVE  RoomInv'
<1>1. pc = "unify" /\ UNCHANGED <<ustack, uheap>> /\ pc' # "unify"
  BY DEF FinishDef, FinishThm, ApplyThm, ApplyUnfold, UnifyEnd, UStep
<1>2. nterms \in Nat /\ nthms \in Nat
  BY Tables DEF IndInv
<1>3. CASE FinishDef
  <2>1. nterms' = nterms + 1 /\ UNCHANGED <<file, nthms>> /\ ucall.for = "def"
    BY <1>3 DEF FinishDef, UnifyEnd
  <2>2. \A t \in 1..(nterms + 1) : t \in 1..nterms \/ t = nterms + 1
    BY <1>2
  <2>3. Len(file.terms[nterms + 1].args) <= UHeapSize
    BY <1>1, <2>1 DEF RoomInv, TermNow
  <2>4. \A t \in 1..nterms' : file.terms[t].isdef => Len(file.terms[t].args) <= UHeapSize
    BY <2>1, <2>2, <2>3 DEF RoomInv
  <2> QED
    BY <1>1, <2>1, <2>4 DEF RoomInv
<1>4. CASE FinishThm
  <2>1. nthms' = nthms + 1 /\ UNCHANGED <<file, nterms>> /\ ucall.for = "end"
    BY <1>4 DEF FinishThm, UnifyEnd
  <2>2. \A t \in 1..(nthms + 1) : t \in 1..nthms \/ t = nthms + 1
    BY <1>2
  <2>3. Len(file.thms[nthms + 1].args) <= UHeapSize
    BY <1>1, <2>1 DEF RoomInv, ThmNow
  <2>4. \A t \in 1..nthms' : Len(file.thms[t].args) <= UHeapSize
    BY <2>1, <2>2, <2>3 DEF RoomInv
  <2> QED
    BY <1>1, <2>1, <2>4 DEF RoomInv
<1>5. CASE ApplyThm \/ ApplyUnfold
  <2>1. UNCHANGED theory
    BY <1>5 DEF ApplyThm, ApplyUnfold
  <2> QED
    BY <1>1, <2>1, RoomFrame DEF RoomInv
<1> QED
  BY <1>3, <1>4, <1>5

(* There is room in the unifier's arrays in every run.                     *)
LEMMA RoomInductive ==
  /\ Init => RoomInv
  /\ IndInv /\ RoomInv /\ [Next]_vars => RoomInv'
<1>1. ASSUME Init PROVE RoomInv
  <2>1. /\ ustack = <<>> /\ uheap = <<>> /\ nterms = 0 /\ nthms = 0 /\ pc # "unify"
    BY <1>1 DEF Init
  <2>2. Len(<<>>) = 0 /\ 0 <= UStackSize /\ 0 <= UHeapSize /\ 1..0 = {}
    BY VerifierAssumption
  <2> QED
    BY <2>1, <2>2 DEF RoomInv
<1>2. ASSUME RoomInv, Reject PROVE RoomInv'
  <2>1. UNCHANGED theory /\ ustack' = <<>> /\ uheap' = <<>> /\ pc' # "unify"
    BY <1>2 DEF Reject
  <2>2. Len(<<>>) <= UStackSize /\ Len(<<>>) <= UHeapSize
    BY VerifierAssumption
  <2> QED
    BY <1>2, <2>1, <2>2, RoomFrame
<1>3. ASSUME RoomInv, UNCHANGED vars PROVE RoomInv'
  BY <1>3, RoomFrame DEF RoomInv, vars, unifier
<1>4. ASSUME IndInv, RoomInv, UnifyStep PROVE RoomInv'
  BY <1>4, RoomCommand, RoomReturn DEF UnifyStep
<1> QED
  BY <1>1, <1>2, <1>3, <1>4, RoomStatement, RoomProof DEF Next

(* The parts together give TypeOK.                                         *)
LEMMA InvTypes ==
  ASSUME IndInv, RoomInv
  PROVE  TypeOK
<1>1. /\ store \in Seq(Cell) /\ Len(store) <= StoreSize
      /\ stack \in Seq(Item) /\ Len(stack) <= StackSize
      /\ heap \in Seq(Item) /\ Len(heap) <= HeapSize
      /\ hstack \in Seq(Nat) /\ Len(hstack) <= HypStackSize
      /\ Len(ustack) <= UStackSize /\ Len(uheap) <= UHeapSize
  BY DEF IndInv, StoreInv, StoreGood, StackInv, StackGood, HeapInv, HeapGood, HypsInv, AddrsGood, RoomInv
<1> QED
  BY <1>1 DEF IndInv, TheoryInv, FlagsInv, UnifyInv, UHeapItem, TypeOK

(* The state is well typed, and none of the six arrays ever holds more      *)
(* than the code declares for it: the ENSUREs of the push macros are       *)
(* enough, also where the unifier writes without one.                      *)
THEOREM VerifierTypeOK == Spec => []TypeOK
<1>1. IndInv /\ RoomInv => TypeOK
  BY InvTypes
<1> QED
  BY <1>1, RoomInductive, VerifierInductive, PTL DEF Spec

-----------------------------------------------------------------------------
(* Two properties of the statement loop, each with an invariant of its own *)

(* The local bit is never honoured on an axiom. *)
AxiomsPublic == stmt.kind = "axiom" => ~stmt.local

(* An axiom is never a local statement: no opcode says so.                 *)
LEMMA AxiomsPublicInductive ==
  /\ Init => AxiomsPublic
  /\ AxiomsPublic /\ [Next]_vars => AxiomsPublic'
<1>1. Init => AxiomsPublic
  BY DEF Init, AxiomsPublic, NoStmt
<1>2. ASSUME AxiomsPublic, Statement PROVE AxiomsPublic'
  BY <1>2 DEF AxiomsPublic, Statement, StmtSort, StmtTerm, StmtDef, StmtThm, StmtEnd
<1>3. ASSUME AxiomsPublic, UNCHANGED stmt PROVE AxiomsPublic'
  BY <1>3 DEF AxiomsPublic
<1>4. Reject \/ UNCHANGED vars => UNCHANGED stmt
  BY DEF Reject, vars
<1> QED
  BY <1>1, <1>2, <1>3, <1>4, ProofStepFrame, UnifyStepFrame DEF Next

(* No axiom enters the table of theorems without being the next statement  *)
(* of the .mm0 file.                                                       *)
THEOREM VerifierAxiomsAreSpecified == Spec => AxiomsAreSpecified
<1> DEFINE Matches == (nthms' # nthms /\ stmt.kind = "axiom") =>
                        /\ spec # <<>>
                        /\ Head(spec).kind = "axiom" /\ Head(spec).entry = ThmNow
                        /\ spec' = Tail(spec)
<1>1. ASSUME AxiomsPublic, FinishThm PROVE Matches
  BY <1>1 DEF AxiomsPublic, FinishThm, SpecUnlessLocal, ParseUntil
<1>2. Statement \/ Reject \/ UNCHANGED vars => nthms' = nthms
  BY DEF Statement, StmtSort, StmtTerm, StmtDef, StmtThm, StmtEnd, Reject, vars, theory
<1>3. ProofStep => nthms' = nthms
  BY ProofStepFrame DEF theory
<1>4. UnifyStep => FinishThm \/ nthms' = nthms
  BY UnifyStepFrame DEF theory, FinishDef
<1>5. AxiomsPublic /\ [Next]_vars => [Matches]_vars
  BY <1>1, <1>2, <1>3, <1>4 DEF Next
<1> QED
  BY <1>5, AxiomsPublicInductive, PTL DEF Spec, AxiomsAreSpecified

(* A proof that used Sorry is remembered from the end of its proof stream; *)
(* a definition's proof cannot use it.                                     *)
SorryRemembered ==
  /\ sorry /\ pc = "stmt" => anysorry
  /\ sorry /\ pc = "unify" /\ ucall.for = "end" => anysorry
  /\ sorry => stmt.kind # "def"

(* The flag is never cleared, and no file is accepted while it is set. *)
Doomed == anysorry /\ pc # "accepted"

(* After a proof with Sorry the flag g_uses_sorry is set, and the file not accepted. *)
LEMMA SorryRememberedInductive ==
  ASSUME IndInv, SorryRemembered, [Next]_vars
  PROVE  SorryRemembered'
<1> USE DEF theory, machine, unifier
<1>1. CASE Statement
  <2>1. CASE StmtSort \/ StmtEnd \/ \E local \in BOOLEAN : StmtTerm(local)
    BY <2>1 DEF SorryRemembered, StmtSort, StmtEnd, StmtTerm
  <2>2. CASE \/ \E local \in BOOLEAN : StmtDef(local)
             \/ \E kind \in {"axiom", "thm"}, local \in BOOLEAN : StmtThm(kind, local)
    BY <2>2 DEF SorryRemembered, StmtDef, StmtThm
  <2> QED
    BY <1>1, <2>1, <2>2 DEF Statement
<1>2. CASE ProofStep
  <2>1. /\ UNCHANGED stmt /\ pc' \in {"proof", "unify"}
    BY <1>2, ProofStepFrame
  <2>2. sorry' => stmt.kind # "def"
    <3>1. CASE ProofSorry
      BY <3>1 DEF ProofSorry, Mode
    <3>2. CASE ~ProofSorry
      <4>1. sorry' = sorry
        BY <1>2, <3>2 DEF ProofStep, ProofRef, ProofDummy, ProofTerm, ProofThm, ProofHyp,
           ProofConv, ProofRefl, ProofSymm, ProofCong, ProofUnfold, ProofConvCut,
           ProofConvSave, ProofSave, EndDef, EndThm
      <4> QED
        BY <4>1 DEF SorryRemembered
    <3> QED
      BY <3>1, <3>2
  <2>3. (sorry' /\ pc' = "unify" /\ ucall'.for = "end") => anysorry'
    <3>1. CASE EndThm
      BY <3>1 DEF EndThm
    <3>2. CASE EndDef
      BY <3>2 DEF EndDef, RunUnify
    <3>3. CASE ProofUnfold
      BY <3>3 DEF ProofUnfold, RunUnify
    <3>4. CASE \E t \in 1..nthms, save \in BOOLEAN : ProofThm(t, save)
      BY <3>4 DEF ProofThm, RunUnify
    <3>5. CASE ~EndThm /\ ~EndDef /\ ~ProofUnfold
               /\ ~(\E t \in 1..nthms, save \in BOOLEAN : ProofThm(t, save))
      <4>1. pc' = "proof"
        BY <1>2, <3>5 DEF ProofStep, ProofRef, ProofDummy, ProofTerm, ProofHyp,
           ProofConv, ProofRefl, ProofSymm, ProofCong, ProofConvCut,
           ProofConvSave, ProofSave, ProofSorry
      <4> QED
        BY <4>1
    <3> QED
      BY <3>1, <3>2, <3>3, <3>4, <3>5
  <2> QED
    BY <2>1, <2>2, <2>3 DEF SorryRemembered
<1>3. CASE UnifyStep
  <2>1. /\ UNCHANGED <<stmt, anysorry, sorry>> /\ pc = "unify"
        /\ pc' = "stmt" => ucall.for \in {"def", "end"}
        /\ pc' # "unify" \/ ucall' = ucall
    BY <1>3, UnifyStepFrame
  <2>2. ucall.for = "def" => stmt.kind = "def"
    BY <2>1 DEF IndInv, TheoryInv
  <2> QED
    BY <2>1, <2>2 DEF SorryRemembered
<1>4. CASE Reject
  BY <1>4 DEF Reject, SorryRemembered
<1>5. CASE UNCHANGED vars
  BY <1>5 DEF vars, SorryRemembered
<1> QED
  BY <1>1, <1>2, <1>3, <1>4, <1>5 DEF Next

(* Once the flag is set it stays set and the file is never accepted.       *)
LEMMA DoomedStable ==
  ASSUME Doomed, [Next]_vars
  PROVE  Doomed'
<1>1. CASE Statement
  BY <1>1 DEF Doomed, Statement, StmtSort, StmtTerm, StmtDef, StmtThm, StmtEnd
<1>2. CASE ProofStep
  BY <1>2, ProofStepFrame DEF Doomed
<1>3. CASE UnifyStep
  BY <1>3, UnifyStepFrame DEF Doomed
<1>4. CASE Reject \/ UNCHANGED vars
  BY <1>4 DEF Doomed, Reject, vars
<1> QED
  BY <1>1, <1>2, <1>3, <1>4 DEF Next

(* Once a theorem whose proof used Sorry is in the table the file is never *)
(* accepted, whatever is proved after it.                                  *)
THEOREM VerifierSorryIsReported == Spec => SorryIsReported
<1>1. Init => SorryRemembered
  BY DEF Init, SorryRemembered
<1>2. IndInv /\ SorryRemembered /\ [Next]_vars => SorryRemembered'
  BY SorryRememberedInductive
<1>3. Doomed /\ [Next]_vars => Doomed'
  BY DoomedStable
<1>4. SorryRemembered => ((sorry /\ pc = "stmt") => Doomed)
  BY DEF SorryRemembered, Doomed
<1>5. Doomed => pc # "accepted"
  BY DEF Doomed
<1> QED
  BY <1>1, <1>2, <1>3, <1>4, <1>5, VerifierInductive, PTL DEF Spec, SorryIsReported

-----------------------------------------------------------------------------
(* The statements of the .mm0 file *)

(* What is left of the .mm0 file is its end.                               *)
SpecIsEnd ==
  /\ file.spec \in Seq(SpecStatement)
  /\ spec \in Seq(SpecStatement)
  /\ Len(spec) <= Len(file.spec)
  /\ \A i \in DOMAIN spec : spec[i] = file.spec[Matched + i]

(* A statement read with the next entry of its table goes after all others. *)
LEMMA InOrderNext ==
  ASSUME NEW m \in Nat, NEW n \in Nat, NEW D \in SUBSET (1..m), NEW R, NEW Q,
         InOrderOf(D, 1..n, R), R \subseteq Q, <<m + 1, n + 1>> \in Q
  PROVE  InOrderOf(D \cup {m + 1}, 1..(n + 1), Q)
<1>1. PICK f \in [D -> 1..n] : \A i \in D :
        <<i, f[i]>> \in R /\ \A j \in D : j < i => f[j] < f[i]
  BY DEF InOrderOf
<1> DEFINE E == D \cup {m + 1}
           g == [i \in E |-> IF i = m + 1 THEN n + 1 ELSE f[i]]
<1>2. g \in [E -> 1..(n + 1)]
  OBVIOUS
<1>3. ASSUME NEW i \in E
      PROVE  <<i, g[i]>> \in Q /\ \A j \in E : j < i => g[j] < g[i]
  <2>1. CASE i = m + 1
    <3>1. \A j \in E : j < i => g[j] < g[i]
      BY <2>1
    <3> QED
      BY <2>1, <3>1
  <2>2. CASE i # m + 1
    <3>1. i \in D /\ g[i] = f[i] /\ i <= m
      BY <2>2
    <3>2. \A j \in E : j < i => j \in D /\ g[j] = f[j]
      BY <3>1
    <3> QED
      BY <1>1, <3>1, <3>2
  <2> QED
    BY <2>1, <2>2
<1> HIDE DEF g
<1>4. QED
  BY <1>2, <1>3 DEF InOrderOf

(* An entry that no statement is read with changes nothing for the others.  *)
LEMMA InOrderLocal ==
  ASSUME NEW n \in Nat, NEW D, NEW R, NEW Q, InOrderOf(D, 1..n, R), R \subseteq Q
  PROVE  InOrderOf(D, 1..(n + 1), Q)
<1>1. PICK f \in [D -> 1..n] : \A i \in D :
        <<i, f[i]>> \in R /\ \A j \in D : j < i => f[j] < f[i]
  BY DEF InOrderOf
<1>2. f \in [D -> 1..(n + 1)]
  OBVIOUS
<1> QED
  BY <1>1, <1>2 DEF InOrderOf

(* parse_until takes the next statement of the .mm0 file, which is of the   *)
(* kind and says what the entry says.                                       *)
LEMMA ParseUntilMatches ==
  ASSUME SpecIsEnd, file' = file, NEW kind, NEW entry, ParseUntil(kind, entry)
  PROVE  /\ SpecIsEnd' /\ Matched \in Nat /\ Matched' = Matched + 1
         /\ file.spec[Matched + 1].kind = kind
         /\ \/ file.spec[Matched + 1].entry = entry
            \/ kind = "def" /\ file.spec[Matched + 1].entry = [entry EXCEPT !.unify = <<>>]
         /\ \A kinds : Stated(kinds) \in SUBSET (1..Matched)
         /\ \A kinds : Stated(kinds)' = IF kind \in kinds THEN Stated(kinds) \cup {Matched + 1}
                                                        ELSE Stated(kinds)
<1>1. /\ spec # <<>> /\ spec' = Tail(spec) /\ Head(spec).kind = kind
      /\ Head(spec).entry = entry \/ (kind = "def" /\ Head(spec).entry = [entry EXCEPT !.unify = <<>>])
  BY DEF ParseUntil
<1>2. /\ Len(spec) \in Nat /\ Len(spec) > 0 /\ 1 \in DOMAIN spec /\ Head(spec) = spec[1]
      /\ spec' \in Seq(SpecStatement) /\ Len(spec') = Len(spec) - 1
      /\ \A i \in DOMAIN spec' : i \in Nat /\ i + 1 \in DOMAIN spec /\ spec'[i] = spec[i + 1]
  BY <1>1 DEF SpecIsEnd
<1>3. Len(file.spec) \in Nat /\ Len(spec) <= Len(file.spec)
  BY DEF SpecIsEnd
<1>4. Matched \in Nat /\ Matched' = Matched + 1
  BY <1>2, <1>3 DEF Matched
<1>5. file.spec[Matched + 1] = Head(spec)
  BY <1>2 DEF SpecIsEnd
<1>6. SpecIsEnd'
  <2>1. ASSUME NEW i \in DOMAIN spec' PROVE spec'[i] = file.spec[Matched' + i]
    <3>1. spec'[i] = file.spec[Matched + (i + 1)]
      BY <1>2 DEF SpecIsEnd
    <3>2. Matched + (i + 1) = Matched' + i
      BY <1>2, <1>4
    <3> QED
      BY <3>1, <3>2
  <2> QED
    BY <1>2, <1>3, <2>1 DEF SpecIsEnd
<1>7. ASSUME NEW kinds
      PROVE  Stated(kinds)' = IF kind \in kinds THEN Stated(kinds) \cup {Matched + 1} ELSE Stated(kinds)
  <2>1. Stated(kinds)' = {i \in 1..(Matched + 1) : file.spec[i].kind \in kinds}
    BY <1>4 DEF Stated
  <2>2. file.spec[Matched + 1].kind = kind
    BY <1>1, <1>5
  <2> QED
    BY <1>4, <2>1, <2>2 DEF Stated
<1>8. \A kinds : Stated(kinds) \in SUBSET (1..Matched)
  BY DEF Stated
<1> QED
  BY <1>1, <1>4, <1>5, <1>6, <1>7, <1>8

(* The pairs of a statement and an entry that agree, for each table; more    *)
(* of both only add pairs.                                                  *)
SortPairs == {x \in Stated({"sort"}) \X (1..nsorts) : SaysSort(x[1], x[2])}
TermPairs == {x \in Stated({"term", "def"}) \X (1..nterms) : SaysTerm(x[1], x[2])}
ThmPairs == {x \in Stated({"axiom", "thm"}) \X (1..nthms) : SaysThm(x[1], x[2])}

SpecInv == SpecIsEnd /\ SortsFollowed /\ TermsFollowed /\ ThmsFollowed

(* A table that does not grow while other statements are read.              *)
LEMMA SpecAside ==
  ASSUME SpecInv, file' = file
  PROVE  /\ Stated({"sort"})' = Stated({"sort"}) /\ nsorts' = nsorts => SortsFollowed'
         /\ Stated({"term", "def"})' = Stated({"term", "def"}) /\ nterms' = nterms => TermsFollowed'
         /\ Stated({"axiom", "thm"})' = Stated({"axiom", "thm"}) /\ nthms' = nthms => ThmsFollowed'
BY DEF SpecInv, SortsFollowed, TermsFollowed, ThmsFollowed, SaysSort, SaysTerm, SaysThm

LEMMA SortRead ==
  ASSUME IndInv, SpecInv, StmtSort
  PROVE  SpecInv'
<1> DEFINE D == Stated({"sort"})
<1>1. /\ file' = file /\ nsorts' = nsorts + 1 /\ UNCHANGED <<nterms, nthms>>
      /\ ParseUntil("sort", file.sorts[nsorts + 1])
  BY DEF StmtSort
<1>2. nsorts \in Nat
  BY DEF IndInv, TheoryInv
<1>3. /\ SpecIsEnd' /\ Matched \in Nat /\ Matched' = Matched + 1
      /\ file.spec[Matched + 1].kind = "sort"
      /\ file.spec[Matched + 1].entry = file.sorts[nsorts + 1]
      /\ \A kinds : Stated(kinds) \in SUBSET (1..Matched)
      /\ \A kinds : Stated(kinds)' = IF "sort" \in kinds THEN Stated(kinds) \cup {Matched + 1} ELSE Stated(kinds)
  <2>1. SpecIsEnd
    BY DEF SpecInv
  <2> DEFINE kind == "sort"
             entry == file.sorts[nsorts + 1]
  <2>2. file' = file /\ ParseUntil(kind, entry)
    BY <1>1
  <2>3. kind # "def"
    OBVIOUS
  <2> HIDE DEF kind, entry
  <2>4. /\ SpecIsEnd' /\ Matched \in Nat /\ Matched' = Matched + 1
        /\ file.spec[Matched + 1].kind = kind
        /\ file.spec[Matched + 1].entry = entry
        /\ \A kinds : Stated(kinds) \in SUBSET (1..Matched)
        /\ \A kinds : Stated(kinds)' = IF kind \in kinds THEN Stated(kinds) \cup {Matched + 1} ELSE Stated(kinds)
    BY <2>1, <2>2, <2>3, ParseUntilMatches
  <2> QED
    BY <2>4 DEF kind, entry
<1>4. /\ Stated({"sort"})' = D \cup {Matched + 1}
      /\ Stated({"term", "def"})' = Stated({"term", "def"})
      /\ Stated({"axiom", "thm"})' = Stated({"axiom", "thm"})
  BY <1>3
<1>5. SortPairs \subseteq SortPairs' /\ <<Matched + 1, nsorts + 1>> \in SortPairs'
  BY <1>1, <1>2, <1>3, <1>4 DEF SortPairs, SaysSort
<1>6. InOrderOf(D \cup {Matched + 1}, 1..(nsorts + 1), SortPairs')
  <2>1. InOrderOf(D, 1..nsorts, SortPairs) /\ D \in SUBSET (1..Matched)
    BY <1>3 DEF SpecInv, SortsFollowed, SortPairs
  <2> QED
    BY <1>2, <1>3, <1>5, <2>1, InOrderNext
<1>7. Cardinality(D \cup {Matched + 1}) = nsorts + 1
  <2>1. D \subseteq 1..Matched /\ Matched + 1 \notin D
    BY <1>3
  <2>2. IsFiniteSet(D)
    BY <1>3, <2>1, FS_Interval, FS_Subset
  <2> QED
    BY <2>1, <2>2, FS_AddElement DEF SpecInv, SortsFollowed
<1>8. SortsFollowed'
  BY <1>1, <1>4, <1>6, <1>7 DEF SortsFollowed, SortPairs
<1> QED
  BY <1>1, <1>3, <1>4, <1>8, SpecAside DEF SpecInv

(* A term or a definition enters its table, local or read.                   *)
LEMMA TermRead ==
  ASSUME IndInv, SpecInv, NEW local \in BOOLEAN, NEW kind \in {"term", "def"},
         SpecUnlessLocal(local, kind, TermNow), kind = "def" <=> TermNow.isdef,
         nterms' = nterms + 1, UNCHANGED <<file, nsorts, nthms>>
  PROVE  SpecInv'
<1> DEFINE D == Stated({"term", "def"})
<1>1. nterms \in Nat
  BY DEF IndInv, TheoryInv
<1>2. CASE local
  <2>1. spec' = spec
    BY <1>2 DEF SpecUnlessLocal
  <2>2. SpecIsEnd' /\ \A kinds : Stated(kinds)' = Stated(kinds)
    BY <2>1 DEF SpecInv, SpecIsEnd, Stated, Matched
  <2>3. TermPairs \subseteq TermPairs'
    BY <1>1, <2>2 DEF TermPairs, SaysTerm
  <2>4. InOrderOf(D, 1..(nterms + 1), TermPairs')
    BY <1>1, <2>3, InOrderLocal DEF SpecInv, TermsFollowed, TermPairs
  <2>5. TermsFollowed'
    BY <2>2, <2>4 DEF TermsFollowed, TermPairs
  <2> QED
    BY <2>2, <2>5, SpecAside DEF SpecInv
<1>3. CASE ~local
  <2>1. /\ SpecIsEnd' /\ Matched \in Nat /\ Matched' = Matched + 1
        /\ file.spec[Matched + 1].kind = kind
        /\ \/ file.spec[Matched + 1].entry = TermNow
           \/ kind = "def" /\ file.spec[Matched + 1].entry = [TermNow EXCEPT !.unify = <<>>]
        /\ \A kinds : Stated(kinds) \in SUBSET (1..Matched)
        /\ \A kinds : Stated(kinds)' = IF kind \in kinds THEN Stated(kinds) \cup {Matched + 1} ELSE Stated(kinds)
    <3>1. SpecIsEnd /\ ParseUntil(kind, TermNow)
      BY <1>3 DEF SpecInv, SpecUnlessLocal
    <3> QED
      BY <3>1, ParseUntilMatches
  <2>2. /\ Stated({"term", "def"})' = D \cup {Matched + 1}
        /\ Stated({"sort"})' = Stated({"sort"})
        /\ Stated({"axiom", "thm"})' = Stated({"axiom", "thm"})
    BY <2>1
  <2>3. SaysTerm(Matched + 1, nterms + 1)
    BY <2>1 DEF SaysTerm, TermNow
  <2>4. TermPairs \subseteq TermPairs' /\ <<Matched + 1, nterms + 1>> \in TermPairs'
    BY <1>1, <2>1, <2>2, <2>3 DEF TermPairs, SaysTerm
  <2>5. InOrderOf(D \cup {Matched + 1}, 1..(nterms + 1), TermPairs')
    <3>1. InOrderOf(D, 1..nterms, TermPairs) /\ D \in SUBSET (1..Matched)
      BY <2>1 DEF SpecInv, TermsFollowed, TermPairs
    <3> QED
      BY <1>1, <2>1, <2>4, <3>1, InOrderNext
  <2>6. TermsFollowed'
    BY <2>2, <2>5 DEF TermsFollowed, TermPairs
  <2> QED
    BY <2>1, <2>2, <2>6, SpecAside DEF SpecInv
<1> QED
  BY <1>2, <1>3

(* An axiom or a theorem enters its table.                                   *)
LEMMA ThmRead ==
  ASSUME IndInv, SpecInv, NEW local \in BOOLEAN, NEW kind \in {"axiom", "thm"},
         SpecUnlessLocal(local, kind, ThmNow),
         nthms' = nthms + 1, UNCHANGED <<file, nsorts, nterms>>
  PROVE  SpecInv'
<1> DEFINE D == Stated({"axiom", "thm"})
<1>1. nthms \in Nat
  BY DEF IndInv, TheoryInv
<1>2. CASE local
  <2>1. spec' = spec
    BY <1>2 DEF SpecUnlessLocal
  <2>2. SpecIsEnd' /\ \A kinds : Stated(kinds)' = Stated(kinds)
    BY <2>1 DEF SpecInv, SpecIsEnd, Stated, Matched
  <2>3. ThmPairs \subseteq ThmPairs'
    BY <1>1, <2>2 DEF ThmPairs, SaysThm
  <2>4. InOrderOf(D, 1..(nthms + 1), ThmPairs')
    BY <1>1, <2>3, InOrderLocal DEF SpecInv, ThmsFollowed, ThmPairs
  <2>5. ThmsFollowed'
    BY <2>2, <2>4 DEF ThmsFollowed, ThmPairs
  <2> QED
    BY <2>2, <2>5, SpecAside DEF SpecInv
<1>3. CASE ~local
  <2>1. /\ SpecIsEnd' /\ Matched \in Nat /\ Matched' = Matched + 1
        /\ file.spec[Matched + 1].entry = ThmNow
        /\ \A kinds : Stated(kinds) \in SUBSET (1..Matched)
        /\ \A kinds : Stated(kinds)' = IF kind \in kinds THEN Stated(kinds) \cup {Matched + 1} ELSE Stated(kinds)
    <3>1. SpecIsEnd /\ ParseUntil(kind, ThmNow)
      BY <1>3 DEF SpecInv, SpecUnlessLocal
    <3>2. kind # "def"
      OBVIOUS
    <3> QED
      BY <3>1, <3>2, ParseUntilMatches
  <2>2. /\ Stated({"axiom", "thm"})' = D \cup {Matched + 1}
        /\ Stated({"sort"})' = Stated({"sort"})
        /\ Stated({"term", "def"})' = Stated({"term", "def"})
    BY <2>1
  <2>3. SaysThm(Matched + 1, nthms + 1)
    BY <2>1 DEF SaysThm, ThmNow
  <2>4. ThmPairs \subseteq ThmPairs' /\ <<Matched + 1, nthms + 1>> \in ThmPairs'
    BY <1>1, <2>1, <2>2, <2>3 DEF ThmPairs, SaysThm
  <2>5. InOrderOf(D \cup {Matched + 1}, 1..(nthms + 1), ThmPairs')
    <3>1. InOrderOf(D, 1..nthms, ThmPairs) /\ D \in SUBSET (1..Matched)
      BY <2>1 DEF SpecInv, ThmsFollowed, ThmPairs
    <3> QED
      BY <1>1, <2>1, <2>4, <3>1, InOrderNext
  <2>6. ThmsFollowed'
    BY <2>2, <2>5 DEF ThmsFollowed, ThmPairs
  <2> QED
    BY <2>1, <2>2, <2>6, SpecAside DEF SpecInv
<1> QED
  BY <1>2, <1>3

(* The proof of a definition runs only for an entry that is one.             *)
DefIsNow == (pc \in {"proof", "unify"} /\ stmt.kind = "def") => TermNow.isdef

LEMMA DefIsNowKept ==
  ASSUME DefIsNow, [Next]_vars
  PROVE  DefIsNow'
<1> USE DEF DefIsNow, TermNow, theory
<1>1. CASE Statement
  <2>1. CASE StmtSort \/ StmtEnd
    BY <2>1 DEF StmtSort, StmtEnd
  <2>2. ASSUME NEW local \in BOOLEAN, StmtTerm(local) \/ StmtDef(local)
        PROVE  DefIsNow'
    BY <2>2 DEF StmtTerm, StmtDef, TermHeader
  <2>3. ASSUME NEW kind \in {"axiom", "thm"}, NEW local \in BOOLEAN, StmtThm(kind, local)
        PROVE  DefIsNow'
    BY <2>3 DEF StmtThm
  <2> QED
    BY <1>1, <2>1, <2>2, <2>3 DEF Statement
<1>2. CASE ProofStep
  BY <1>2, ProofStepFrame
<1>3. CASE UnifyStep
  <2>1. CASE FinishDef \/ FinishThm
    BY <2>1 DEF FinishDef, FinishThm
  <2>2. CASE UNCHANGED <<theory, spec>>
    BY <1>3, <2>2, UnifyStepFrame
  <2> QED
    BY <1>3, <2>1, <2>2, UnifyStepFrame
<1>4. CASE Reject \/ UNCHANGED vars
  BY <1>4 DEF Reject, vars
<1> QED
  BY <1>1, <1>2, <1>3, <1>4 DEF Next

(* A step that declares nothing reads nothing.                               *)
LEMMA SpecUntouched ==
  ASSUME SpecInv, UNCHANGED <<theory, spec>>
  PROVE  SpecInv'
BY DEF SpecInv, theory, SpecIsEnd, SortsFollowed, TermsFollowed, ThmsFollowed,
       Stated, Matched, SaysSort, SaysTerm, SaysThm

LEMMA SpecInvKept ==
  ASSUME IndInv, DefIsNow, SpecInv, [Next]_vars
  PROVE  SpecInv'
<1>1. CASE StmtSort
  BY <1>1, SortRead
<1>2. ASSUME NEW local \in BOOLEAN, StmtTerm(local) PROVE SpecInv'
  <2>1. /\ SpecUnlessLocal(local, "term", TermNow) /\ ("term" = "def" <=> TermNow.isdef)
        /\ nterms' = nterms + 1 /\ UNCHANGED <<file, nsorts, nthms>>
    BY <1>2 DEF StmtTerm
  <2> QED
    BY <2>1, TermRead
<1>3. ASSUME NEW local \in BOOLEAN, StmtDef(local) PROVE SpecInv'
  BY <1>3, SpecUntouched DEF StmtDef
<1>4. ASSUME NEW kind \in {"axiom", "thm"}, NEW local \in BOOLEAN, StmtThm(kind, local) PROVE SpecInv'
  BY <1>4, SpecUntouched DEF StmtThm
<1>5. CASE StmtEnd
  BY <1>5, SpecUntouched DEF StmtEnd
<1>6. CASE ProofStep
  BY <1>6, ProofStepFrame, SpecUntouched
<1>7. CASE FinishDef
  <2>1. pc = "unify" /\ ucall.for = "def" /\ stmt.local \in BOOLEAN
    BY <1>7 DEF FinishDef, UnifyEnd, UStep, IndInv, TheoryInv
  <2>2. TermNow.isdef
    BY <2>1 DEF IndInv, TheoryInv, DefIsNow
  <2>3. /\ SpecUnlessLocal(stmt.local, "def", TermNow)
        /\ nterms' = nterms + 1 /\ UNCHANGED <<file, nsorts, nthms>>
    BY <1>7 DEF FinishDef
  <2> QED
    BY <2>1, <2>2, <2>3, TermRead
<1>8. CASE FinishThm
  <2>1. pc = "unify" /\ ucall.for = "end" /\ stmt.local \in BOOLEAN
    BY <1>8 DEF FinishThm, UnifyEnd, UStep, IndInv, TheoryInv
  <2>2. stmt.kind \in {"axiom", "thm"}
    BY <2>1 DEF IndInv, TheoryInv, Current
  <2>3. /\ SpecUnlessLocal(stmt.local, stmt.kind, ThmNow)
        /\ nthms' = nthms + 1 /\ UNCHANGED <<file, nsorts, nterms>>
    BY <1>8 DEF FinishThm
  <2> QED
    BY <2>1, <2>2, <2>3, ThmRead
<1>9. CASE UnifyStep
  BY <1>7, <1>8, <1>9, UnifyStepFrame, SpecUntouched
<1>10. CASE Reject \/ UNCHANGED vars
  BY <1>10, SpecUntouched DEF Reject, vars
<1> QED
  BY <1>1, <1>2, <1>3, <1>4, <1>5, <1>6, <1>9, <1>10 DEF Next, Statement

(* No file is accepted with statements of the .mm0 file left.                *)
NothingLeft == pc = "accepted" => spec = <<>>

LEMMA NothingLeftKept ==
  ASSUME NothingLeft, [Next]_vars
  PROVE  NothingLeft'
<1>1. CASE Statement
  BY <1>1 DEF NothingLeft, Statement, StmtSort, StmtTerm, StmtDef, StmtThm, StmtEnd
<1>2. CASE ProofStep
  BY <1>2, ProofStepFrame DEF NothingLeft
<1>3. CASE UnifyStep
  BY <1>3, UnifyStepFrame DEF NothingLeft
<1>4. CASE Reject \/ UNCHANGED vars
  BY <1>4 DEF NothingLeft, Reject, vars
<1> QED
  BY <1>1, <1>2, <1>3, <1>4 DEF Next

(* Whatever the file, its tables say what the .mm0 file says, in its order:  *)
(* every sort, and every term, definition, axiom and theorem that it states;  *)
(* the file is accepted only when nothing of it is left.                     *)
THEOREM VerifierSpecificationFollowed == Spec => []SpecificationFollowed
<1>1. Init => DefIsNow /\ NothingLeft
  BY DEF Init, DefIsNow, NothingLeft
<1>2. Init => SpecInv
  <2> SUFFICES ASSUME Init PROVE SpecInv
    OBVIOUS
  <2>1. file.spec \in Seq(SpecStatement) /\ spec = file.spec /\ nsorts = 0 /\ nterms = 0 /\ nthms = 0
    BY VerifierAssumption DEF Init, FileOK
  <2>2. Matched = 0 /\ SpecIsEnd
    BY <2>1 DEF Matched, SpecIsEnd
  <2>3. \A kinds : Stated(kinds) = {}
    BY <2>2 DEF Stated
  <2>4. \A R : InOrderOf({}, 1..0, R)
    <3>1. [i \in {} |-> 0] \in [{} -> 1..0]
      OBVIOUS
    <3> QED
      BY <3>1 DEF InOrderOf
  <2>5. Cardinality({}) = 0
    BY FS_EmptySet
  <2> QED
    BY <2>1, <2>2, <2>3, <2>4, <2>5 DEF SpecInv, SortsFollowed, TermsFollowed, ThmsFollowed
<1>3. DefIsNow /\ [Next]_vars => DefIsNow'
  BY DefIsNowKept
<1>4. IndInv /\ DefIsNow /\ SpecInv /\ [Next]_vars => SpecInv'
  BY SpecInvKept
<1>5. NothingLeft /\ [Next]_vars => NothingLeft'
  BY NothingLeftKept
<1>6. SpecInv /\ NothingLeft => SpecificationFollowed
  BY DEF SpecInv, NothingLeft, SpecificationFollowed
<1> QED
  BY <1>1, <1>2, <1>3, <1>4, <1>5, <1>6, VerifierInductive, PTL DEF Spec
=============================================================================
