------------------------------ MODULE Formula ------------------------------
(* The text of an MM0 file between its $ signs. A file declares notations, *)
(* which mm0-rs and mm0-c both read; then it, or a file that imports it,   *)
(* states a definition or an axiom, which mm0-rs elaborates, prints as it  *)
(* does on a hover or in the output, and would read again, and which mm0-c *)
(* reads with the binders that mm0-rs has found.                           *)
EXTENDS Infer, MathPrinter, MathC

CONSTANTS
  Files,        \* sequences of notation commands
  Statements,   \* declarations whose formulas are trees
  Texts(_, _)   \* what may be written for a tree with the notations there are

VARIABLES todo, pe, errors, c, phase, out
vars == <<todo, pe, errors, c, phase, out>>

NoOutcome == <<>>
Init ==
  /\ todo \in Files
  /\ pe = NoNotations /\ errors = FALSE
  /\ c = CInit
  /\ phase = "notations"
  /\ out = NoOutcome

(* One notation command: mm0-rs goes on after an error, mm0-c does not. *)
Declare ==
  /\ phase = "notations" /\ todo # <<>>
  /\ LET r == ElabNota(pe, Head(todo)) IN pe' = r.pe /\ errors' = (errors \/ ~r.ok)
  /\ c' = CNota(c, Head(todo))
  /\ todo' = Tail(todo)
  /\ UNCHANGED <<phase, out>>

(* The declaration is in the same file, *)
Stay ==
  /\ phase = "notations" /\ todo = <<>>
  /\ phase' = "statements"
  /\ UNCHANGED <<todo, pe, errors, c, out>>

(* or in one that imports it: the order of a hash map is any order. *)
Import ==
  /\ phase = "notations" /\ todo = <<>> /\ ~errors
  /\ \E ps \in SetToSeqs(DOMAIN pe.prefixes), is \in SetToSeqs(DOMAIN pe.infixes) : pe' = Merge(pe, ps, is)
  /\ phase' = "statements"
  /\ UNCHANGED <<todo, errors, c, out>>

-----------------------------------------------------------------------------
(* A declaration as it is printed: its arguments with their types, no dummies. *)

InOrder(xs) == SelectSeq(Names, LAMBDA x : x \in xs)
PrintedBinder(a) == [x |-> a.x, kind |-> IF a.bound THEN "bound" ELSE "reg", sort |-> a.sort, deps |-> InOrder(a.deps)]
PrintedDecl(env, r) ==
  [k |-> r.k, bis |-> [i \in DOMAIN r.args |-> PrintedBinder(r.args[i])], ret |-> r.ret, deps |-> InOrder(r.deps),
   es |-> [i \in DOMAIN r.es |-> Printed(env, r.es[i])]]

(* The declaration as it has to be written for mm0-c: all that was inferred is said. *)
DummyBinder(y) == [x |-> y.x, kind |-> "dummy", sort |-> y.sort, deps |-> <<>>]
Explicit(d, r) ==
  [d EXCEPT !.bis = [i \in DOMAIN r.args |-> PrintedBinder(r.args[i])] \o [i \in 1..Cardinality(r.dummies) |-> DummyBinder(SetToSeq(r.dummies)[i])],
            !.ret = r.ret, !.deps = InOrder(r.deps)]

Outcome(d, r) ==
  [d |-> d, r |-> r,
   back |-> IF r.ok THEN ElabDecl(pe, PrintedDecl(pe, r)) ELSE r,
   reads |-> IF ~c.ok \/ errors THEN [ok |-> FALSE, es |-> <<>>]
             ELSE CDecl(c, IF r.ok THEN Explicit(d, r) ELSE d)]

Stated(d) == Outcome(d, ElabDecl(pe, d))
State ==
  /\ phase = "statements" /\ out = NoOutcome
  /\ \E d \in Statements, style \in {"full", "flat", "list"} :
       out' = Stated([d EXCEPT !.es = [i \in DOMAIN d.es |-> Texts(pe, d.es[i])[style]]])
  /\ UNCHANGED <<todo, pe, errors, c, phase>>

Next == Declare \/ Stay \/ Import \/ State
Spec == Init /\ [][Next]_vars

-----------------------------------------------------------------------------
(* The level of an operator that is open on the right, and which way it    *)
(* associates; a prefix notation ending in a variable counts as right.     *)
Open(env) ==
  {<<env.consts[tk], env.infixes[tk].assoc>> : tk \in DOMAIN env.infixes}
  \cup {<<env.consts[tk], "right">> :
          tk \in {t \in DOMAIN env.prefixes : env.prefixes[t].lits # <<>> /\ IsVar(Last(env.prefixes[t].lits))}}
Uniform(env) == \A a, b \in Open(env) : a[1] = b[1] => a[2] = b[2]
Associative(env) == \A tk \in DOMAIN env.infixes : env.infixes[tk].assoc # "none"
Printable(env) == \A tk \in DOMAIN env.infixes : env.infixes[tk].assoc = "right" => EndsInVar(env.infixes[tk])

Meaning(r) == [k |-> r.k, args |-> r.args, es |-> r.es, ret |-> r.ret, deps |-> r.deps, dummies |-> r.dummies]

(* Where every level has one direction, what mm0-rs prints of a definition *)
(* or an axiom, without its coercions, its dummies and the parentheses     *)
(* that precedence allows to leave out, elaborates to the same definition  *)
(* or axiom, in its own file and after an import, and with no warning of   *)
(* unnecessary parentheses; and no formula makes the parser panic, unless  *)
(* an infix notation has been accepted without an associativity.           *)
PrintedReadsBack ==
  out # NoOutcome /\ ~errors =>
    /\ Associative(pe) => ~out.r.panic /\ ~out.back.panic
    /\ out.r.ok /\ Associative(pe) /\ Uniform(pe) =>
         /\ out.back.ok
         /\ Meaning(out.back) = Meaning(out.r)
         /\ Printable(pe) => ~out.back.warn

(* The regular arguments of a tree may be anything, its bound ones are     *)
(* bound variables of the very sort.                                       *)
RECURSIVE BoundFit(_, _)
BoundFit(vs, e) ==
  e.h \in DOMAIN Terms =>
    \A i \in DOMAIN e.a :
      LET arg == Terms[e.h].args[i]
      IN IF arg.bound THEN /\ e.a[i].h \in DOMAIN vs
                           /\ vs[e.a[i].h].k = "bound" /\ vs[e.a[i].h].sort = arg.sort
         ELSE BoundFit(vs, e.a[i])
DepsFit(d, e) == d.k = "def" => ExprDeps(Binders(d).vars, e) \subseteq Range(d.deps)

(* Where both programs accept the notations of a file: a formula that      *)
(* mm0-rs accepts is accepted by mm0-c, once what mm0-rs has inferred is    *)
(* written out, and is the same tree with the same coercions; and one that *)
(* mm0-c reads is refused by mm0-rs only for a bound argument that is not  *)
(* a variable of its sort or a dependency that the type does not name,     *)
(* which mm0-c leaves to the proof file. The two parsers decide where an   *)
(* operand ends by different rules: mm0-c by the level of the operator     *)
(* before, mm0-rs by the associativity of the operator that follows.       *)
FormulasAgree ==
  out # NoOutcome /\ ~errors /\ c.ok =>
    IF out.r.ok THEN out.reads.ok /\ out.reads.es = out.r.es
    ELSE out.reads.ok =>
      \E i \in DOMAIN out.reads.es :
        ~BoundFit(Binders(out.d).vars, out.reads.es[i]) \/ ~DepsFit(out.d, out.reads.es[i])
=============================================================================
