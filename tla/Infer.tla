------------------------------- MODULE Infer -------------------------------
(* How mm0-rs elaborates a def or an axiom (elab_decl): the binders, the   *)
(* formulas, the variables whose sort or kind is left to be inferred, and  *)
(* the arguments that come out. A declaration d has k, bis, ret, deps and  *)
(* es: the value of a def; the hypotheses and the conclusion of an axiom.  *)
(* A binder is [x, kind, sort, deps], with kind "bound", "reg" or "dummy", *)
(* and sort "" where the type is left out; the type of a def, ret with its *)
(* deps, may be left out too.                                              *)
(* A variable in scope is [k, new, sort, deps, must, late, ctx]: new for a *)
(* dummy or a variable seen first in use, must for one used where only a   *)
(* bound variable can be, late for one no binder depends on, and ctx the   *)
(* sorts that the uses of a variable of unknown sort ask for.              *)
EXTENDS MathParser, FiniteSets, Functions

CONSTANTS
  Sorts,
  Names  \* the names of the variables, in the order of the alphabet

Known(k, new, sort, deps) ==
  [k |-> k, new |-> new, sort |-> sort, deps |-> deps, must |-> FALSE, late |-> FALSE, ctx |-> {}]
Unknown(new, must, ctx) ==
  [k |-> "unknown", new |-> new, sort |-> "", deps |-> <<>>, must |-> must, late |-> new, ctx |-> ctx]
FirstUse == Unknown(TRUE, FALSE, {})

(* lc: the variables, those of the binders in order, and whether nothing was refused. *)
NoVars == [vars |-> <<>>, order |-> <<>>, ok |-> TRUE]
Refused(lc) == [lc EXCEPT !.ok = FALSE]
Var(lc, x) == IF x \in DOMAIN lc.vars THEN lc.vars[x] ELSE FirstUse
SetVar(lc, x, v) == [lc EXCEPT !.vars = Put(@, x, v)]

(* The variables that a type depends on are bound variables of a binder. *)
DependOn(lc, y) ==
  LET v == Var(lc, y)
  IN CASE v.k = "unknown" -> SetVar(lc, y, [v EXCEPT !.must = TRUE, !.late = FALSE])
       [] v.k = "reg" \/ (v.k = "bound" /\ v.new) -> Refused(lc)
       [] v.k = "bound" /\ ~v.new -> lc

Binder(lc, b) ==
  LET typed == IF b.kind = "reg" THEN FoldLeft(DependOn, lc, b.deps)
               ELSE IF b.deps = <<>> THEN lc ELSE Refused(lc)
      v == IF b.sort = "" THEN Unknown(b.kind = "dummy", b.kind # "reg", {"unknown"})
           ELSE IF b.kind = "reg" THEN Known("reg", FALSE, b.sort, b.deps)
           ELSE Known("bound", b.kind = "dummy", b.sort, <<>>)
      scope == IF b.x \in DOMAIN typed.vars THEN Refused(typed) ELSE typed
  IN SetVar(IF b.kind = "dummy" THEN scope ELSE [scope EXCEPT !.order = Append(@, b.x)], b.x, v)

-----------------------------------------------------------------------------
(* Elaborating a tree. The target is a sort, <<sort>> for an argument that *)
(* must be a bound variable, "provable" or "unknown". A variable of        *)
(* unknown sort stays a hole that names the context it was used in.        *)

Node(h, a, hole) == [h |-> h, a |-> a, hole |-> hole]
Elab(e, lc) == [ok |-> TRUE, e |-> e, lc |-> lc]
NoElab(lc) == [ok |-> FALSE, lc |-> Refused(lc)]

(* The coercions of a path, put around a tree that may still have holes. *)
Around(e, from, tgt) ==
  LET to == IF tgt = "provable" THEN ProvableOf(from) ELSE tgt
  IN IF from = to THEN e ELSE FoldLeft(LAMBDA x, t : Node(t, <<x>>, ""), e, Paths[<<from, to>>])

CoerceTo(lc, e, from, tgt) ==
  CASE tgt = "unknown" -> Elab(e, lc)
    [] tgt # "unknown" -> IF Fits(from, tgt) THEN Elab(Around(e, from, tgt), lc) ELSE NoElab(lc)

ArgTarget(arg) == [bound |-> arg.bound, sort |-> arg.sort]
Regular(tgt) == [bound |-> FALSE, sort |-> tgt]

Atom(lc, x, tgt) ==
  LET v == Var(lc, x)
  IN CASE v.k = "unknown" ->
            Elab(Node(x, <<>>, tgt.sort),
                 SetVar(lc, x, [v EXCEPT !.must = @ \/ tgt.bound, !.ctx = @ \cup {tgt.sort}]))
       [] v.k = "bound" /\ tgt.bound ->
            IF v.sort = tgt.sort THEN Elab(Node(x, <<>>, ""), lc) ELSE NoElab(lc)
       [] v.k = "reg" /\ tgt.bound -> NoElab(lc)
       [] v.k # "unknown" /\ ~tgt.bound -> CoerceTo(lc, Node(x, <<>>, ""), v.sort, tgt.sort)

RECURSIVE Elaborate(_, _, _), ElabArgs(_, _, _, _)

ElabArgs(lc, t, es, done) ==
  IF Len(done) = Len(es) THEN Elab(done, lc)
  ELSE LET i == Len(done) + 1
       IN Then(Elaborate(lc, es[i], ArgTarget(Terms[t].args[i])),
               LAMBDA r : ElabArgs(r.lc, t, es, Append(done, r.e)))

List(lc, e, tgt) ==
  IF e.h \in DOMAIN lc.vars \/ e.h \notin DOMAIN Terms THEN NoElab(lc)
  ELSE IF Len(e.a) # Nargs(e.h) THEN NoElab(lc)
  ELSE Then(ElabArgs(lc, e.h, e.a, <<>>),
         LAMBDA r : IF tgt.bound THEN NoElab(r.lc)
                    ELSE CoerceTo(r.lc, Node(e.h, r.e, ""), Terms[e.h].ret, tgt.sort))

Elaborate(lc, e, tgt) ==
  IF e.a = <<>> /\ (e.h \in DOMAIN lc.vars \/ e.h \notin DOMAIN Terms) THEN Atom(lc, e.h, tgt)
  ELSE List(lc, e, tgt)

-----------------------------------------------------------------------------
(* What is left to be inferred when the declaration has been read. *)

Asked(v) == v.ctx \ {"provable", "unknown"}
SortChoices(v) ==
  IF Asked(v) # {}
  THEN {s \in Asked(v) : ("provable" \in v.ctx => HasProvable(s)) /\ \A t \in Asked(v) : Coercible(s, t)}
  ELSE LET from == IF "provable" \in v.ctx THEN ProvableSorts ELSE Sorts
       IN IF Cardinality(from) = 1 THEN from ELSE {}

IsOpen(v) == v.k = "unknown"
Inconsistent(v) == IsOpen(v) /\ SortChoices(v) = {}
BecomesBound(v, isDef) == (isDef /\ v.new) \/ v.must
StaysDummy(v, isDef) == BecomesBound(v, isDef) /\ isDef /\ v.late
BecomesArg(v, isDef) == IsOpen(v) /\ v.new /\ ~StaysDummy(v, isDef)
Settled(v, isDef) ==
  IF ~IsOpen(v) THEN v
  ELSE Known(IF BecomesBound(v, isDef) THEN "bound" ELSE "reg", v.new /\ StaysDummy(v, isDef),
             CHOOSE s \in SortChoices(v) : TRUE, <<>>)

FinalizeVars(lc, isDef) ==
  LET vs == lc.vars
  IN IF \E x \in DOMAIN vs : Inconsistent(vs[x]) THEN Refused(lc)
     ELSE [lc EXCEPT !.vars = [x \in DOMAIN vs |-> Settled(vs[x], isDef)],
                     !.order = SelectSeq(Names, LAMBDA x : x \in DOMAIN vs /\ BecomesArg(vs[x], isDef)) \o @]

RECURSIVE Resolved(_, _), ExprDeps(_, _)
Resolved(vs, e) ==
  CASE e.hole = "" -> Tree(e.h, [i \in DOMAIN e.a |-> Resolved(vs, e.a[i])])
    [] e.hole = "unknown" -> Tree(e.h, <<>>)
    [] OTHER -> Coerced(Tree(e.h, <<>>), vs[e.h].sort, e.hole)

VarDeps(v, x) == IF v.k = "bound" THEN {x} ELSE Range(v.deps)

(* The bound variables that a value depends on, those its head binds taken out. *)
ExprDeps(vs, e) ==
  IF e.h \notin DOMAIN Terms THEN VarDeps(vs[e.h], e.h)
  ELSE LET t == Terms[e.h]
           kid == [i \in DOMAIN e.a |-> ExprDeps(vs, e.a[i])]
       IN UNION {kid[i] \ UNION {kid[j] : j \in t.args[i].deps} : i \in {j \in DOMAIN e.a : ~t.args[j].bound}}
          \cup UNION {kid[j] : j \in t.deps}

InferSort(vs, e) == IF e.h \in DOMAIN Terms THEN Terms[e.h].ret ELSE vs[e.h].sort
Dummies(vs) == {x \in DOMAIN vs : vs[x].new /\ vs[x].k = "bound"}
Arg(v, x) == [x |-> x, bound |-> v.k = "bound", sort |-> v.sort, deps |-> IF v.k = "bound" THEN {} ELSE Range(v.deps)]
ArgsOf(lc) == [i \in DOMAIN lc.order |-> Arg(lc.vars[lc.order[i]], lc.order[i])]

RECURSIVE HeadsOf(_)
HeadsOf(e) == {e.h} \cup UNION {HeadsOf(e.a[i]) : i \in DOMAIN e.a}

-----------------------------------------------------------------------------
(* A declaration. g holds the scope, the formulas read so far, and what    *)
(* the parser said of them.                                                *)

Read(g, r, p) == [g EXCEPT !.lc = r.lc, !.es = Append(@, r.e), !.warn = @ \/ p.at.warn, !.panic = @ \/ p.at.panic]
NotRead(g, lc, p) == [g EXCEPT !.lc = Refused(lc), !.warn = @ \/ p.at.warn, !.panic = @ \/ p.at.panic]
ReadFormula(pe, g, text, tgt) ==
  LET elab(p, r) == IF r.ok THEN Read(g, r, p) ELSE NotRead(g, r.lc, p)
      parsed(p) == IF p.ok THEN elab(p, Elaborate(g.lc, p.e, tgt)) ELSE NotRead(g, g.lc, p)
  IN parsed(ParseFormula(pe, text))

Binders(d) == FoldLeft(Binder, NoVars, d.bis)
Begin(d) == [lc |-> IF d.k = "def" /\ d.ret # "" THEN FoldLeft(DependOn, Binders(d), d.deps) ELSE Binders(d),
             es |-> <<>>, warn |-> FALSE, panic |-> FALSE]
TargetOf(d) == Regular(IF d.k = "axiom" THEN "provable" ELSE IF d.ret = "" THEN "unknown" ELSE d.ret)

Rejection(g) == [ok |-> FALSE, panic |-> g.panic]

AcceptAxiom(g, es) ==
  IF Dummies(g.lc.vars) \cap UNION {HeadsOf(es[i]) : i \in DOMAIN es} # {} THEN Rejection(g)
  ELSE [ok |-> TRUE, panic |-> FALSE, warn |-> g.warn, k |-> "axiom", args |-> ArgsOf(g.lc), es |-> es,
        ret |-> "", deps |-> {}, dummies |-> {}]

AcceptDef(g, d, e) ==
  LET vs == g.lc.vars
      sort == InferSort(vs, e)
      deps == ExprDeps(vs, e)
      allowed == IF d.ret = "" THEN DOMAIN vs \ Dummies(vs) ELSE Range(d.deps)
  IN IF ~(deps \subseteq allowed) THEN Rejection(g)
     ELSE [ok |-> TRUE, panic |-> FALSE, warn |-> g.warn, k |-> "def", args |-> ArgsOf(g.lc), es |-> <<e>>,
           ret |-> sort, deps |-> IF d.ret = "" THEN deps ELSE Range(d.deps),
           dummies |-> {[x |-> x, sort |-> vs[x].sort] : x \in Dummies(vs) \cap HeadsOf(e)}]

Concluded(g, d, lc) ==
  LET es == [i \in DOMAIN g.es |-> Resolved(lc.vars, g.es[i])]
      h == [g EXCEPT !.lc = lc]
  IN IF ~lc.ok THEN Rejection(g) ELSE IF d.k = "def" THEN AcceptDef(h, d, es[1]) ELSE AcceptAxiom(h, es)

ElabDecl(pe, d) ==
  LET finish(g) == Concluded(g, d, FinalizeVars(g.lc, d.k = "def"))
  IN finish(FoldLeft(LAMBDA g, text : ReadFormula(pe, g, text, TargetOf(d)), Begin(d), d.es))
=============================================================================
