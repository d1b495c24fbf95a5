------------------------------ MODULE Verifier ------------------------------
(***************************************************************************)
(* The trusted kernel of mm0-c: verifier.c.  A proof file (.mmb) holds     *)
(* three tables - sorts, terms, theorems - and a stream of statements that *)
(* declares their entries in order.  Definitions, axioms and theorems      *)
(* carry a stream of stack-machine commands (run_proof) whose result is    *)
(* compared with the unify stream of the table entry (run_unify).          *)
(*                                                                         *)
(* The tables are chosen in Init from Files and never change.  The         *)
(* statement and proof streams are arbitrary input: every step may execute *)
(* any command.  A command whose checks (ENSURE) fail exits the program;   *)
(* so does an unknown opcode, so rejection is one action, always enabled.  *)
(*                                                                         *)
(* Addresses, heap slots and table indices count from 1 (the code's from   *)
(* 0), and the store is counted in cells, not bytes.  A type - 64 bits in  *)
(* the code - is a record of its bound flag, its sort and its set of       *)
(* dependency bits.                                                        *)
(***************************************************************************)
EXTENDS Naturals, Sequences, FiniteSets

CONSTANTS
  Files,       \* the candidate inputs: tables of the .mmb, statements of the .mm0
  DepsBits,    \* width of TYPE_DEPS_MASK (55)
  StackSize, HeapSize, StoreSize, HypStackSize, UStackSize, UHeapSize,
  Bare         \* the build option BARE, which leaves Sorry out

Flags == {"pure", "strict", "provable", "free"}

Type == [bound : BOOLEAN, sort : Nat, deps : SUBSET Nat]

UnifyCmd == [op : {"End", "Ref", "Term", "TermSave", "Dummy", "Hyp"}, data : Nat]

TermEntry == [args : Seq(Type), ret : Type, sort : Nat, isdef : BOOLEAN,
              unify : Seq(UnifyCmd)]

ThmEntry == [args : Seq(Type), unify : Seq(UnifyCmd)]

SpecStatement ==
  [kind : {"sort"}, entry : SUBSET Flags]
    \cup [kind : {"term", "def"}, entry : TermEntry]
    \cup [kind : {"axiom", "thm"}, entry : ThmEntry]

FileOK(f) ==
  /\ f.sorts \in Seq(SUBSET Flags)
  /\ f.terms \in Seq(TermEntry)
  /\ f.thms \in Seq(ThmEntry)
  /\ f.spec \in Seq(SpecStatement)

ASSUME VerifierAssumption ==
  /\ \A f \in Files : FileOK(f)
  /\ {DepsBits, StackSize, HeapSize, StoreSize,
      HypStackSize, UStackSize, UHeapSize} \subseteq Nat
  /\ UStackSize > 0      \* run_unify writes its first slot without a check
  /\ Bare \in BOOLEAN

VARIABLES
  file,        \* the tables read
  spec,        \* the statements of the .mm0 file not yet matched by parse_until
  pc,          \* the loop that runs, or the verdict
  nsorts, nterms, nthms,   \* how many entries of each table are declared
  stmt,        \* the statement being checked
  store,       \* cells allocated by ALLOC
  stack, heap, hstack,     \* main stack, heap, hypothesis stack
  nbv,         \* log2 of g_next_bv: the number of bound variables
  sorry,       \* uses_sorry, local to run_proof
  anysorry,    \* g_uses_sorry
  ucode,       \* the rest of the unify stream
  ustack, uheap,
  ucall        \* what run_unify was called for

theory == <<file, nsorts, nterms, nthms>>
machine == <<store, stack, heap, hstack, nbv, sorry>>
unifier == <<ucode, ustack, uheap, ucall>>
vars == <<theory, spec, pc, stmt, machine, anysorry, unifier>>

Expr(a) == [tag |-> "expr", at |-> a]
Proof(a) == [tag |-> "proof", at |-> a]
Conv(a) == [tag |-> "conv", at |-> a]       \* a = e2, e2 below on the stack
CoConv(a) == [tag |-> "coconv", at |-> a]   \* a =?= e2, e2 below on the stack

NoCall == [for |-> "none", e |-> 0, save |-> FALSE]
NoStmt == [kind |-> "none", local |-> FALSE]

Init ==
  /\ file \in Files
  /\ spec = file.spec
  /\ pc = "stmt"
  /\ nsorts = 0 /\ nterms = 0 /\ nthms = 0
  /\ stmt = NoStmt
  /\ store = <<>> /\ stack = <<>> /\ heap = <<>> /\ hstack = <<>>
  /\ nbv = 0
  /\ sorry = FALSE /\ anysorry = FALSE
  /\ ucode = <<>> /\ ustack = <<>> /\ uheap = <<>>
  /\ ucall = NoCall

-----------------------------------------------------------------------------
(* Types and binders *)

SortsCompatible(from, to) == from.sort = to.sort /\ (to.bound => from.bound)

(* The bound binders before the i-th of A. *)
BoundBefore(A, i) == {k \in 1..(i - 1) : A[k].bound}

(* The dependency bit of the i-th binder of A, if it is bound. *)
BitOf(A, i) == Cardinality(BoundBefore(A, i))

NumBound(A) == BitOf(A, Len(A) + 1)

(* The checks of load_args. *)
BindersOK(A) ==
  \A i \in 1..Len(A) :
    /\ A[i].sort \in 1..nsorts
    /\ IF A[i].bound
       THEN /\ "strict" \notin file.sorts[A[i].sort]
            /\ BitOf(A, i) < DepsBits
            /\ A[i].deps = {BitOf(A, i)}
       ELSE \A b \in A[i].deps : b < BitOf(A, i)

(* load_args: one variable for each binder, on the store and on the heap.  *)
(* The caller keeps the first n of them on the heap.                       *)
LoadArgs(A, n) ==
  /\ BindersOK(A)
  /\ Len(A) <= HeapSize /\ Len(A) <= StoreSize
  /\ store' = [i \in 1..Len(A) |-> [tag |-> "var", type |-> A[i]]]
  /\ heap' = [i \in 1..n |-> Expr(i)]
  /\ nbv' = NumBound(A)

-----------------------------------------------------------------------------
(* The statement loop of verify() *)

TermNow == file.terms[nterms + 1]
ThmNow == file.thms[nthms + 1]

(* parse_until: the next statement of the .mm0 file is of this kind and    *)
(* says what the table says; a def there may leave its body out.           *)
ParseUntil(kind, entry) ==
  /\ spec # <<>>
  /\ Head(spec).kind = kind
  /\ Head(spec).entry = entry \/ (kind = "def" /\ Head(spec).entry = [entry EXCEPT !.unify = <<>>])
  /\ spec' = Tail(spec)

SpecUnlessLocal(local, kind, entry) ==
  IF local THEN UNCHANGED spec ELSE ParseUntil(kind, entry)

StmtSort ==
  /\ pc = "stmt"
  /\ nsorts < Len(file.sorts)
  /\ ParseUntil("sort", file.sorts[nsorts + 1])
  /\ nsorts' = nsorts + 1
  /\ UNCHANGED <<file, nterms, nthms, pc, stmt, machine, anysorry, unifier>>

(* The header checks and load_args common to a term and a def. *)
TermHeader ==
  /\ nterms < Len(file.terms)
  /\ TermNow.sort \in 1..nsorts
  /\ "pure" \notin file.sorts[TermNow.sort]
  /\ TermNow.ret.sort = TermNow.sort /\ ~TermNow.ret.bound
  /\ LoadArgs(Append(TermNow.args, TermNow.ret), Len(TermNow.args))
  /\ stack' = <<>>

StmtTerm(local) ==
  /\ pc = "stmt"
  /\ TermHeader
  /\ ~TermNow.isdef
  /\ SpecUnlessLocal(local, "term", TermNow)
  /\ nterms' = nterms + 1
  /\ UNCHANGED <<file, nsorts, nthms, pc, stmt, hstack, sorry, anysorry, unifier>>

StmtDef(local) ==
  /\ pc = "stmt"
  /\ TermHeader
  /\ TermNow.isdef
  /\ stmt' = [kind |-> "def", local |-> local]
  /\ sorry' = FALSE
  /\ pc' = "proof"
  /\ UNCHANGED <<theory, spec, hstack, anysorry, unifier>>

(* Broken variant: the main stack keeps what the last statement left. *)
StmtThmKeepsStack(kind, local) ==
  /\ pc = "stmt"
  /\ kind = "axiom" => ~local
  /\ nthms < Len(file.thms)
  /\ LoadArgs(ThmNow.args, Len(ThmNow.args))
  /\ hstack' = <<>>
  /\ stmt' = [kind |-> kind, local |-> local]
  /\ sorry' = FALSE
  /\ pc' = "proof"
  /\ UNCHANGED <<theory, spec, stack, anysorry, unifier>>

(* Broken variant: the local bit is honoured on an axiom. *)
StmtThmLocalAxiom(kind, local) ==
  /\ pc = "stmt"
  /\ nthms < Len(file.thms)
  /\ LoadArgs(ThmNow.args, Len(ThmNow.args))
  /\ stack' = <<>> /\ hstack' = <<>>
  /\ stmt' = [kind |-> kind, local |-> local]
  /\ sorry' = FALSE
  /\ pc' = "proof"
  /\ UNCHANGED <<theory, spec, anysorry, unifier>>

(* CMD_STMT_AXIOM, CMD_STMT_THM, CMD_STMT_LOCAL_THM *)
StmtThm(kind, local) ==
  /\ pc = "stmt"
  /\ kind = "axiom" => ~local
  /\ nthms < Len(file.thms)
  /\ LoadArgs(ThmNow.args, Len(ThmNow.args))
  /\ stack' = <<>> /\ hstack' = <<>>
  /\ stmt' = [kind |-> kind, local |-> local]
  /\ sorry' = FALSE
  /\ pc' = "proof"
  /\ UNCHANGED <<theory, spec, anysorry, unifier>>

(* Broken variant: no parse_until(CMD_END), the .mm0 file may go on. *)
StmtEndEarly ==
  /\ pc = "stmt"
  /\ nsorts = Len(file.sorts) /\ nterms = Len(file.terms) /\ nthms = Len(file.thms)
  /\ pc' = IF anysorry THEN "sorry" ELSE "accepted"
  /\ UNCHANGED <<theory, spec, stmt, machine, anysorry, unifier>>

(* The end of the statement stream: every entry declared, then sorry, then *)
(* parse_until(CMD_END).                                                   *)
StmtEnd ==
  /\ pc = "stmt"
  /\ nsorts = Len(file.sorts) /\ nterms = Len(file.terms) /\ nthms = Len(file.thms)
  /\ \/ anysorry /\ pc' = "sorry"
     \/ ~anysorry /\ spec = <<>> /\ pc' = "accepted"
  /\ UNCHANGED <<theory, spec, stmt, machine, anysorry, unifier>>

-----------------------------------------------------------------------------
(* The commands of run_proof *)

Mode == IF stmt.kind = "def" THEN "Def" ELSE "Thm"

Top(k) == stack[Len(stack) - k + 1]          \* Top(1) is the top
Drop(k) == SubSeq(stack, 1, Len(stack) - k)

(* The k top elements have these tags, the deepest first. *)
Tags(ts) ==
  /\ Len(stack) >= Len(ts)
  /\ \A k \in 1..Len(ts) : stack[Len(stack) - Len(ts) + k].tag = ts[k]

(* Push the sequence es on what is left of the stack. *)
PushOn(s, es) ==
  /\ Len(s) + Len(es) <= StackSize
  /\ stack' = s \o es

PushHeap(x) == Len(heap) < HeapSize /\ heap' = Append(heap, x)

SaveIf(save, x) == IF save THEN PushHeap(x) ELSE UNCHANGED heap

Alloc(cell) == Len(store) < StoreSize /\ store' = Append(store, cell)

Here == Len(store) + 1                        \* the address Alloc returns

Deps(a) == store[a].type.deps

(* The n expressions on top of s, the deepest first. *)
Args(s, n) == [i \in 1..n |-> s[Len(s) - n + i].at]

ProofRef(i) ==
  /\ pc = "proof"
  /\ i \in DOMAIN heap
  /\ IF heap[i].tag = "conv"
     THEN /\ Tags(<<"expr", "coconv">>)
          /\ store[heap[i].at].e1 = Top(1).at
          /\ store[heap[i].at].e2 = Top(2).at
          /\ stack' = Drop(2)
     ELSE PushOn(stack, <<heap[i]>>)
  /\ UNCHANGED <<theory, spec, pc, stmt, store, heap, hstack, nbv, sorry, anysorry, unifier>>

(* The test `(g_next_bv >> 56) == 0` lets bit DepsBits through, which is   *)
(* outside TYPE_DEPS_MASK: that variable's dependencies read as empty.     *)
ProofDummy(s) ==
  /\ pc = "proof"
  /\ s \in 1..nsorts
  /\ file.sorts[s] \cap {"strict", "free"} = {}
  /\ nbv <= DepsBits
  /\ nbv' = nbv + 1
  /\ Alloc([tag |-> "var",
            type |-> [bound |-> TRUE, sort |-> s,
                      deps |-> {b \in {nbv} : b < DepsBits}]])
  /\ PushOn(stack, <<Expr(Here)>>)
  /\ PushHeap(Expr(Here))
  /\ UNCHANGED <<theory, spec, pc, stmt, hstack, sorry, anysorry, unifier>>

(* The dependency set cached in (t es): the bound arguments of t count     *)
(* only in Def mode, where they are removed from the arguments they bind   *)
(* and added when the result depends on them.                              *)
BoundDeps(A, es, i, D) ==
  UNION {Deps(es[k]) : k \in {k \in BoundBefore(A, i) : BitOf(A, k) \in D}}

FreeDeps(A, es, i) ==
  Deps(es[i]) \ (IF Mode = "Def" THEN BoundDeps(A, es, i, A[i].deps) ELSE {})

(* Broken variant: the dependencies of the result are not added. *)
TermDepsClosed(t, es) ==
  LET A == file.terms[t].args
  IN  UNION {FreeDeps(A, es, i) : i \in {i \in 1..Len(A) : ~A[i].bound}}

TermDeps(t, es) ==
  LET A == file.terms[t].args
  IN  (UNION {FreeDeps(A, es, i) : i \in {i \in 1..Len(A) : ~A[i].bound}})
        \cup (IF Mode = "Def"
              THEN BoundDeps(A, es, Len(A) + 1, file.terms[t].ret.deps) ELSE {})

ArgsFit(A, es) ==
  \A i \in 1..Len(A) : SortsCompatible(store[es[i]].type, A[i])

(* Broken variant: the arguments' sorts are not compared. *)
ProofTermUnsorted(t, save) ==
  LET n == Len(file.terms[t].args)
      es == Args(stack, n)
  IN  /\ pc = "proof"
      /\ t \in 1..nterms
      /\ Tags([i \in 1..n |-> "expr"])
      /\ Alloc([tag |-> "term", id |-> t, args |-> es,
                type |-> [bound |-> FALSE, sort |-> file.terms[t].sort,
                          deps |-> TermDeps(t, es)]])
      /\ PushOn(Drop(n), <<Expr(Here)>>)
      /\ SaveIf(save, Expr(Here))
      /\ UNCHANGED <<theory, spec, pc, stmt, hstack, nbv, sorry, anysorry, unifier>>

ProofTerm(t, save) ==
  LET A == file.terms[t].args
      n == Len(A)
      es == Args(stack, n)
  IN  /\ pc = "proof"
      /\ t \in 1..nterms
      /\ Tags([i \in 1..n |-> "expr"])
      /\ ArgsFit(A, es)
      /\ Alloc([tag |-> "term", id |-> t, args |-> es,
                type |-> [bound |-> FALSE, sort |-> file.terms[t].sort,
                          deps |-> TermDeps(t, es)]])
      /\ PushOn(Drop(n), <<Expr(Here)>>)
      /\ SaveIf(save, Expr(Here))
      /\ UNCHANGED <<theory, spec, pc, stmt, hstack, nbv, sorry, anysorry, unifier>>

(* The disjoint variable checks of Thm: a bound argument shares no         *)
(* dependency with an earlier one, and a regular argument shares one with  *)
(* a bound argument only when its binder says so.                          *)
Disjoint(A, es) ==
  \A i \in 1..Len(A) :
    IF A[i].bound
    THEN \A j \in 1..(i - 1) : Deps(es[j]) \cap Deps(es[i]) = {}
    ELSE \A k \in BoundBefore(A, i) :
           BitOf(A, k) \in A[i].deps \/ Deps(es[k]) \cap Deps(es[i]) = {}

RunUnify(code, target, subst, call) ==
  /\ ucode' = code
  /\ ustack' = <<target>>
  /\ uheap' = [i \in DOMAIN subst |-> [at |-> subst[i], saved |-> FALSE]]
  /\ ucall' = call
  /\ pc' = "unify"

ProofThm(t, save) ==
  LET A == file.thms[t].args
      n == Len(A)
      es == Args(Drop(1), n)
  IN  /\ pc = "proof"
      /\ Mode = "Thm"
      /\ t \in 1..nthms
      /\ Tags([i \in 1..(n + 1) |-> "expr"])
      /\ ArgsFit(A, es)
      /\ Disjoint(A, es)
      /\ stack' = Drop(n + 1)
      /\ RunUnify(file.thms[t].unify, Top(1).at, es,
                  [for |-> "thm", e |-> Top(1).at, save |-> save])
      /\ UNCHANGED <<theory, spec, stmt, store, heap, hstack, nbv, sorry, anysorry>>

ProofHyp ==
  /\ pc = "proof"
  /\ Mode = "Thm"
  /\ Tags(<<"expr">>)
  /\ Len(hstack) < HypStackSize
  /\ "provable" \in file.sorts[store[Top(1).at].type.sort]
  /\ hstack' = Append(hstack, Top(1).at)
  /\ PushHeap(Proof(Top(1).at))
  /\ stack' = Drop(1)
  /\ UNCHANGED <<theory, spec, pc, stmt, store, nbv, sorry, anysorry, unifier>>

(* Broken variant: the obligation's sides are pushed in the other order. *)
ProofConvReversed ==
  /\ pc = "proof"
  /\ Tags(<<"expr", "proof">>)
  /\ PushOn(Drop(2), <<Proof(Top(2).at), CoConv(Top(2).at), Expr(Top(1).at)>>)
  /\ UNCHANGED <<theory, spec, pc, stmt, store, heap, hstack, nbv, sorry, anysorry, unifier>>

ProofConv ==
  /\ pc = "proof"
  /\ Tags(<<"expr", "proof">>)
  /\ PushOn(Drop(2), <<Proof(Top(2).at), Expr(Top(1).at), CoConv(Top(2).at)>>)
  /\ UNCHANGED <<theory, spec, pc, stmt, store, heap, hstack, nbv, sorry, anysorry, unifier>>

ProofRefl ==
  /\ pc = "proof"
  /\ Tags(<<"expr", "coconv">>)
  /\ Top(1).at = Top(2).at
  /\ stack' = Drop(2)
  /\ UNCHANGED <<theory, spec, pc, stmt, store, heap, hstack, nbv, sorry, anysorry, unifier>>

ProofSymm ==
  /\ pc = "proof"
  /\ Tags(<<"expr", "coconv">>)
  /\ PushOn(Drop(2), <<Expr(Top(1).at), CoConv(Top(2).at)>>)
  /\ UNCHANGED <<theory, spec, pc, stmt, store, heap, hstack, nbv, sorry, anysorry, unifier>>

(* One obligation for each argument, the last argument's deepest. *)
ProofCong ==
  /\ pc = "proof"
  /\ Tags(<<"expr", "coconv">>)
  /\ LET e1 == store[Top(1).at]
         e2 == store[Top(2).at]
         n == Len(e1.args)
         Arg(k) == n - ((k - 1) \div 2)
     IN  /\ e1.tag = "term" /\ e2.tag = "term"
         /\ e1.id = e2.id
         /\ PushOn(Drop(2), [k \in 1..(2 * n) |->
                               IF k % 2 = 1 THEN Expr(e2.args[Arg(k)])
                                            ELSE CoConv(e1.args[Arg(k)])])
  /\ UNCHANGED <<theory, spec, pc, stmt, store, heap, hstack, nbv, sorry, anysorry, unifier>>

ProofUnfold ==
  /\ pc = "proof"
  /\ Tags(<<"coconv", "expr">>)
  /\ LET p == store[Top(2).at]
     IN  /\ p.tag = "term"
         /\ file.terms[p.id].isdef
         /\ RunUnify(file.terms[p.id].unify, Top(1).at, p.args,
                     [for |-> "unfold", e |-> Top(1).at, save |-> FALSE])
  /\ stack' = Drop(2)
  /\ UNCHANGED <<theory, spec, stmt, store, heap, hstack, nbv, sorry, anysorry>>

(* Broken variant: the assertion is pushed without its obligation. *)
ProofConvCutFree ==
  /\ pc = "proof"
  /\ Tags(<<"expr", "coconv">>)
  /\ stack' = Append(Drop(1), Conv(Top(1).at))
  /\ UNCHANGED <<theory, spec, pc, stmt, store, heap, hstack, nbv, sorry, anysorry, unifier>>

ProofConvCut ==
  /\ pc = "proof"
  /\ Tags(<<"expr", "coconv">>)
  /\ LET e1 == Top(1).at
         e2 == Top(2).at
     IN  PushOn(Drop(2), <<Expr(e2), Conv(e1), Expr(e2), CoConv(e1)>>)
  /\ UNCHANGED <<theory, spec, pc, stmt, store, heap, hstack, nbv, sorry, anysorry, unifier>>

(* A heap entry for a conversion points to a store cell of its two sides. *)
SaveConv ==
  /\ Alloc([tag |-> "conv", e1 |-> Top(1).at, e2 |-> Top(2).at])
  /\ PushHeap(Conv(Here))

ProofConvSave ==
  /\ pc = "proof"
  /\ Tags(<<"expr", "conv">>)
  /\ SaveConv
  /\ stack' = Drop(2)
  /\ UNCHANGED <<theory, spec, pc, stmt, hstack, nbv, sorry, anysorry, unifier>>

(* Broken variant: an obligation can be saved. *)
ProofSaveAny ==
  /\ pc = "proof"
  /\ Len(stack) > 0
  /\ IF Top(1).tag = "conv" THEN SaveConv
                            ELSE PushHeap(Top(1)) /\ UNCHANGED store
  /\ UNCHANGED <<theory, spec, pc, stmt, stack, hstack, nbv, sorry, anysorry, unifier>>

(* Save reads the slot under a conversion without a check. *)
ProofSave ==
  /\ pc = "proof"
  /\ Len(stack) > 0
  /\ Top(1).tag # "coconv"
  /\ IF Top(1).tag = "conv" THEN SaveConv
                            ELSE PushHeap(Top(1)) /\ UNCHANGED store
  /\ UNCHANGED <<theory, spec, pc, stmt, stack, hstack, nbv, sorry, anysorry, unifier>>

(* On an expression, a proof of it; otherwise a conversion is dropped. *)
ProofSorry ==
  /\ ~Bare
  /\ pc = "proof"
  /\ Mode = "Thm"
  /\ sorry' = TRUE
  /\ \/ /\ Tags(<<"expr">>)
        /\ stack' = Append(Drop(1), Proof(Top(1).at))
     \/ /\ Tags(<<"expr", "conv">>)
        /\ stack' = Drop(2)
  /\ UNCHANGED <<theory, spec, pc, stmt, store, heap, hstack, nbv, anysorry, unifier>>

(* The end of the proof stream: the checks of the result in verify(), then *)
(* run_unify against the table entry, the binders as its heap.             *)
Binders(n) == [i \in 1..n |-> heap[i].at]

EndDef ==
  /\ pc = "proof"
  /\ stmt.kind = "def"
  /\ Len(stack) = 1 /\ Tags(<<"expr">>)
  /\ SortsCompatible(store[Top(1).at].type, TermNow.ret)
  /\ Deps(Top(1).at) \subseteq TermNow.ret.deps
  /\ Len(TermNow.args) <= UHeapSize
  /\ RunUnify(TermNow.unify, Top(1).at, Binders(Len(TermNow.args)),
              [for |-> "def", e |-> Top(1).at, save |-> FALSE])
  /\ UNCHANGED <<theory, spec, stmt, machine, anysorry>>

(* Broken variant: g_uses_sorry is overwritten by the last proof's flag. *)
EndThmForgets ==
  /\ pc = "proof"
  /\ stmt.kind # "def"
  /\ Len(stack) = 1
  /\ Tags(IF stmt.kind = "axiom" THEN <<"expr">> ELSE <<"proof">>)
  /\ "provable" \in file.sorts[store[Top(1).at].type.sort]
  /\ Len(ThmNow.args) <= UHeapSize
  /\ anysorry' = sorry
  /\ RunUnify(ThmNow.unify, Top(1).at, Binders(Len(ThmNow.args)),
              [for |-> "end", e |-> Top(1).at, save |-> FALSE])
  /\ UNCHANGED <<theory, spec, stmt, machine>>

(* Broken variant: the binders of a theorem are not counted before they go  *)
(* on the unify heap.                                                      *)
EndThmUncounted ==
  /\ pc = "proof"
  /\ stmt.kind # "def"
  /\ Len(stack) = 1
  /\ Tags(IF stmt.kind = "axiom" THEN <<"expr">> ELSE <<"proof">>)
  /\ "provable" \in file.sorts[store[Top(1).at].type.sort]
  /\ anysorry' = (anysorry \/ sorry)
  /\ RunUnify(ThmNow.unify, Top(1).at, Binders(Len(ThmNow.args)),
              [for |-> "end", e |-> Top(1).at, save |-> FALSE])
  /\ UNCHANGED <<theory, spec, stmt, machine>>

EndThm ==
  /\ pc = "proof"
  /\ stmt.kind # "def"
  /\ Len(stack) = 1
  /\ Tags(IF stmt.kind = "axiom" THEN <<"expr">> ELSE <<"proof">>)
  /\ "provable" \in file.sorts[store[Top(1).at].type.sort]
  /\ Len(ThmNow.args) <= UHeapSize
  /\ anysorry' = (anysorry \/ sorry)
  /\ RunUnify(ThmNow.unify, Top(1).at, Binders(Len(ThmNow.args)),
              [for |-> "end", e |-> Top(1).at, save |-> FALSE])
  /\ UNCHANGED <<theory, spec, stmt, machine>>

-----------------------------------------------------------------------------
(* The commands of run_unify *)

UMode == CASE ucall.for \in {"def", "unfold"} -> "UDef"
           [] ucall.for = "thm" -> "UThm"
           [] OTHER -> "UThmEnd"

UStep(op) ==
  /\ pc = "unify"
  /\ ucode # <<>>
  /\ Head(ucode).op = op
  /\ ucode' = Tail(ucode)

UData == Head(ucode).data
UTop == ustack[Len(ustack)]
UDrop == SubSeq(ustack, 1, Len(ustack) - 1)

PushUHeap(a, saved) ==
  /\ Len(uheap) < UHeapSize
  /\ uheap' = Append(uheap, [at |-> a, saved |-> saved])

UnifyRef ==
  /\ UStep("Ref")
  /\ UData \in DOMAIN uheap
  /\ ustack # <<>> /\ UTop = uheap[UData].at
  /\ ustack' = UDrop
  /\ UNCHANGED <<theory, spec, pc, stmt, machine, anysorry, uheap, ucall>>

(* The arguments replace the term, the first on top. *)
UnifyTerm(op) ==
  /\ UStep(op)
  /\ ustack # <<>>
  /\ LET p == store[UTop]
         n == Len(p.args)
     IN  /\ p.tag = "term" /\ p.id = UData
         /\ Len(UDrop) + n <= UStackSize
         /\ ustack' = UDrop \o [k \in 1..n |-> p.args[n + 1 - k]]
  /\ IF op = "TermSave" THEN PushUHeap(UTop, TRUE) ELSE UNCHANGED uheap
  /\ UNCHANGED <<theory, spec, pc, stmt, machine, anysorry, ucall>>

(* A dummy of a definition: a bound variable of the sort, disjoint from    *)
(* every entry of the unify heap that is not a saved subterm.              *)
UnifyDummy ==
  /\ UStep("Dummy")
  /\ UMode = "UDef"
  /\ ustack # <<>>
  /\ store[UTop].tag = "var"
  /\ store[UTop].type.bound /\ store[UTop].type.sort = UData
  /\ \A i \in DOMAIN uheap :
       uheap[i].saved \/ Deps(uheap[i].at) \cap Deps(UTop) = {}
  /\ PushUHeap(UTop, FALSE)
  /\ ustack' = UDrop
  /\ UNCHANGED <<theory, spec, pc, stmt, machine, anysorry, ucall>>

(* A hypothesis: a proof popped from the main stack when a theorem is      *)
(* applied, a declared hypothesis when its own statement is checked.       *)
UnifyHypThm ==
  /\ UStep("Hyp")
  /\ UMode = "UThm"
  /\ Tags(<<"proof">>)
  /\ Len(ustack) < UStackSize
  /\ ustack' = Append(ustack, Top(1).at)
  /\ stack' = Drop(1)
  /\ UNCHANGED <<theory, spec, pc, stmt, store, heap, hstack, nbv, sorry, anysorry, uheap, ucall>>

UnifyHypEnd ==
  /\ UStep("Hyp")
  /\ UMode = "UThmEnd"
  /\ ustack = <<>> /\ hstack # <<>>
  /\ Len(ustack) < UStackSize
  /\ ustack' = <<hstack[Len(hstack)]>>
  /\ hstack' = SubSeq(hstack, 1, Len(hstack) - 1)
  /\ UNCHANGED <<theory, spec, pc, stmt, store, stack, heap, nbv, sorry, anysorry, uheap, ucall>>

(* END, and what each caller does when run_unify returns. *)
UnifyEnd(for) ==
  /\ UStep("End")
  /\ ucall.for = for
  /\ UMode = "UThmEnd" => hstack = <<>>
  /\ ustack = <<>>
  /\ ucall' = NoCall
  /\ UNCHANGED <<ustack, uheap>>

FinishDef ==
  /\ UnifyEnd("def")
  /\ SpecUnlessLocal(stmt.local, "def", TermNow)
  /\ nterms' = nterms + 1
  /\ pc' = "stmt"
  /\ UNCHANGED <<file, nsorts, nthms, stmt, machine, anysorry>>

FinishThm ==
  /\ UnifyEnd("end")
  /\ SpecUnlessLocal(stmt.local, stmt.kind, ThmNow)
  /\ nthms' = nthms + 1
  /\ pc' = "stmt"
  /\ UNCHANGED <<file, nsorts, nterms, stmt, machine, anysorry>>

ApplyThm ==
  /\ UnifyEnd("thm")
  /\ PushOn(stack, <<Proof(ucall.e)>>)
  /\ SaveIf(ucall.save, Proof(ucall.e))
  /\ pc' = "proof"
  /\ UNCHANGED <<theory, spec, stmt, store, hstack, nbv, sorry, anysorry>>

ApplyUnfold ==
  /\ UnifyEnd("unfold")
  /\ PushOn(stack, <<CoConv(ucall.e)>>)
  /\ pc' = "proof"
  /\ UNCHANGED <<theory, spec, stmt, store, heap, hstack, nbv, sorry, anysorry>>

-----------------------------------------------------------------------------
(* Any ENSURE that fails, in any loop, exits the program: its memory goes. *)
Reject ==
  /\ pc \in {"stmt", "proof", "unify"}
  /\ pc' = "rejected"
  /\ store' = <<>> /\ stack' = <<>> /\ heap' = <<>> /\ hstack' = <<>>
  /\ ucode' = <<>> /\ ustack' = <<>> /\ uheap' = <<>>
  /\ nbv' = 0 /\ sorry' = FALSE /\ ucall' = NoCall
  /\ UNCHANGED <<theory, spec, stmt, anysorry>>

Statement ==
  \/ StmtSort
  \/ \E local \in BOOLEAN : StmtTerm(local) \/ StmtDef(local)
  \/ \E kind \in {"axiom", "thm"}, local \in BOOLEAN : StmtThm(kind, local)
  \/ StmtEnd

ProofStep ==
  \/ \E i \in DOMAIN heap : ProofRef(i)
  \/ \E s \in 1..nsorts : ProofDummy(s)
  \/ \E t \in 1..nterms, save \in BOOLEAN : ProofTerm(t, save)
  \/ \E t \in 1..nthms, save \in BOOLEAN : ProofThm(t, save)
  \/ ProofHyp \/ ProofConv \/ ProofRefl \/ ProofSymm \/ ProofCong
  \/ ProofUnfold \/ ProofConvCut \/ ProofConvSave \/ ProofSave \/ ProofSorry
  \/ EndDef \/ EndThm

UnifyStep ==
  \/ UnifyRef \/ UnifyTerm("Term") \/ UnifyTerm("TermSave")
  \/ UnifyDummy \/ UnifyHypThm \/ UnifyHypEnd
  \/ FinishDef \/ FinishThm \/ ApplyThm \/ ApplyUnfold

Next == Statement \/ ProofStep \/ UnifyStep \/ Reject

Spec == Init /\ [][Next]_vars

-----------------------------------------------------------------------------
(* Properties *)

Item == [tag : {"expr", "proof", "conv", "coconv"}, at : Nat]

Cell ==
  [tag : {"var"}, type : Type]
    \cup [tag : {"term"}, id : Nat, args : Seq(Nat), type : Type]
    \cup [tag : {"conv"}, e1 : Nat, e2 : Nat]

(* The state is well typed, and none of the six arrays outgrows its        *)
(* capacity.  The push macros check most writes.  The rest are safe for    *)
(* reasons elsewhere: run_unify starts with the target in its first slot   *)
(* (verifier.c:214), and Thm and Unfold set the size of the unify heap     *)
(* unchecked (484, 586), to a number of binders that was counted when the  *)
(* statement of the theorem or definition they use was checked (746, 782). *)
TypeOK ==
  /\ file \in Files
  /\ pc \in {"stmt", "proof", "unify", "accepted", "sorry", "rejected"}
  /\ nsorts \in 0..Len(file.sorts)
  /\ nterms \in 0..Len(file.terms)
  /\ nthms \in 0..Len(file.thms)
  /\ stmt \in [kind : {"none", "def", "axiom", "thm"}, local : BOOLEAN]
  /\ store \in Seq(Cell) /\ Len(store) <= StoreSize
  /\ stack \in Seq(Item) /\ Len(stack) <= StackSize
  /\ heap \in Seq(Item) /\ Len(heap) <= HeapSize
  /\ hstack \in Seq(Nat) /\ Len(hstack) <= HypStackSize
  /\ nbv \in 0..(DepsBits + 1)
  /\ sorry \in BOOLEAN /\ anysorry \in BOOLEAN
  /\ ucode \in Seq(UnifyCmd)
  /\ ustack \in Seq(Nat) /\ Len(ustack) <= UStackSize
  /\ uheap \in Seq([at : Nat, saved : BOOLEAN]) /\ Len(uheap) <= UHeapSize
  /\ ucall \in [for : {"none", "def", "thm", "unfold", "end"}, e : Nat, save : BOOLEAN]

(* Which table entry the current statement is about is in range. *)
Current ==
  /\ pc \in {"proof", "unify"} =>
       IF stmt.kind = "def" THEN nterms < Len(file.terms)
                            ELSE stmt.kind # "none" /\ nthms < Len(file.thms)
  /\ pc = "unify" => ucall.for # "none"

IsExpr(a) == a \in DOMAIN store /\ store[a].tag \in {"var", "term"}

(* Every declared term has declared sorts. *)
TermsDeclared == \A t \in 1..nterms : file.terms[t].sort \in 1..nsorts

(* Cells point to earlier cells only, so an expression is a finite tree;   *)
(* a term has the number and sorts of arguments of its declaration.        *)
CellOK(a) ==
  LET c == store[a] IN
    /\ c.tag = "var" => c.type.sort \in 1..nsorts
    /\ c.tag = "term" =>
         /\ c.id \in 1..nterms
         /\ c.type.sort = file.terms[c.id].sort
         /\ Len(c.args) = Len(file.terms[c.id].args)
         /\ \A i \in 1..Len(c.args) : c.args[i] < a /\ IsExpr(c.args[i])
         /\ ArgsFit(file.terms[c.id].args, c.args)
    /\ c.tag = "conv" => IsExpr(c.e1) /\ IsExpr(c.e2)

(* The expression graph is acyclic, well sorted and uses only declared     *)
(* terms, so no recursion over it can fail to end (mmb.md: "Cyclic terms   *)
(* are not legal in MMB files").                                           *)
StoreWellFormed == \A a \in DOMAIN store : CellOK(a)

(* The code reads an expression through a pointer without looking at its   *)
(* tag (get_expr), and a conversion's cell through a cast: every pointer   *)
(* held by a stack or a heap is to a cell of the right kind.               *)
PointersValid ==
  /\ \A k \in DOMAIN stack : IsExpr(stack[k].at)
  /\ \A i \in DOMAIN heap :
       IF heap[i].tag = "conv"
       THEN heap[i].at \in DOMAIN store /\ store[heap[i].at].tag = "conv"
       ELSE IsExpr(heap[i].at)
  /\ \A k \in DOMAIN hstack : IsExpr(hstack[k])
  /\ pc = "unify" =>
       /\ \A k \in DOMAIN ustack : IsExpr(ustack[k])
       /\ \A i \in DOMAIN uheap : IsExpr(uheap[i].at)
       /\ IsExpr(ucall.e)

(* Conversions and obligations take two slots, their second expression     *)
(* below: Save reads that slot without a check (verifier.c:620-624).  When *)
(* Unfold calls the unifier the obligation's left side is off the stack    *)
(* and its right side is on top.                                           *)
ConversionsPaired ==
  /\ \A k \in DOMAIN stack :
       stack[k].tag \in {"conv", "coconv"} => k > 1 /\ stack[k - 1].tag = "expr"
  /\ (pc = "unify" /\ ucall.for = "unfold") =>
       stack # <<>> /\ stack[Len(stack)].tag = "expr"

(* mmb.md: the heap "can contain all kinds of stack elements except        *)
(* e1 =?= e2".                                                             *)
HeapHoldsNoObligation == \A i \in DOMAIN heap : heap[i].tag # "coconv"

(* A bound variable has a dependency bit, and no other bound variable      *)
(* shares it: the disjointness checks can tell any two apart.  (README of  *)
(* mm0-c: at most 55 bound variables.)                                     *)
BoundVarsTracked ==
  \A a \in DOMAIN store :
    (store[a].tag = "var" /\ store[a].type.bound) =>
      /\ store[a].type.deps # {}
      /\ \A b \in DOMAIN store \ {a} :
           (store[b].tag = "var" /\ store[b].type.bound)
             => store[a].type.deps \cap store[b].type.deps = {}

(* What parse_until has matched so far: the statements of these kinds among *)
(* the first of the .mm0 file.                                             *)
Matched == Len(file.spec) - Len(spec)
Stated(kinds) == {i \in 1..Matched : file.spec[i].kind \in kinds}

(* The i-th statement of the .mm0 file says what the k-th entry of a table  *)
(* says; a def there may leave its body out.                               *)
SaysSort(i, k) == file.spec[i].entry = file.sorts[k]

SaysTerm(i, k) ==
  /\ file.spec[i].kind = "def" <=> file.terms[k].isdef
  /\ \/ file.spec[i].entry = file.terms[k]
     \/ file.spec[i].kind = "def" /\ file.spec[i].entry = [file.terms[k] EXCEPT !.unify = <<>>]

SaysThm(i, k) == file.spec[i].entry = file.thms[k]

(* Every one of the stated finds an entry, in the order of both; the pairs  *)
(* of a statement and an entry that agree are given.                       *)
InOrderOf(stated, entries, agree) ==
  \E f \in [stated -> entries] : \A i \in stated :
    <<i, f[i]>> \in agree /\ \A j \in stated : j < i => f[j] < f[i]

(* The statements of the .mm0 file are matched in order, each by a checked *)
(* table entry: an accepted file has proved every axiom and theorem of the *)
(* specification, and no sort is declared behind its back.                 *)
SortsFollowed ==
  /\ InOrderOf(Stated({"sort"}), 1..nsorts,
       {x \in Stated({"sort"}) \X (1..nsorts) : SaysSort(x[1], x[2])})
  /\ Cardinality(Stated({"sort"})) = nsorts

TermsFollowed ==
  InOrderOf(Stated({"term", "def"}), 1..nterms,
    {x \in Stated({"term", "def"}) \X (1..nterms) : SaysTerm(x[1], x[2])})

ThmsFollowed ==
  InOrderOf(Stated({"axiom", "thm"}), 1..nthms,
    {x \in Stated({"axiom", "thm"}) \X (1..nthms) : SaysThm(x[1], x[2])})

SpecificationFollowed ==
  /\ SortsFollowed /\ TermsFollowed /\ ThmsFollowed
  /\ pc = "accepted" => spec = <<>>

(* No axiom enters the table without its statement in the .mm0 file. *)
AxiomsAreSpecified ==
  [][(nthms' # nthms /\ stmt.kind = "axiom") =>
       /\ spec # <<>>
       /\ Head(spec).kind = "axiom" /\ Head(spec).entry = ThmNow
       /\ spec' = Tail(spec)]_vars

(* A theorem whose proof used Sorry is never forgotten: once it is in the  *)
(* table the file is not accepted, whatever is proved after it.  (mmb.md:  *)
(* verifiers "are required to report failure for proofs using Sorry".)     *)
SorryIsReported == []((sorry /\ pc = "stmt") => [](pc # "accepted"))

=============================================================================
