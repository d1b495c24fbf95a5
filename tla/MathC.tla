------------------------------- MODULE MathC -------------------------------
(* The notations of mm0-c's parser and its reading of formulas, which      *)
(* gives each part its sort and its coercions at once. A refusal ends the  *)
(* program.                                                                *)
EXTENDS MathParser, Functions

CInit == [ok |-> TRUE, precs |-> <<>>, prefix |-> <<>>, infix |-> <<>>, assoc |-> <<>>]
CFail(c) == [c EXCEPT !.ok = FALSE]
CThen(c, Op(_)) == IF c.ok THEN Op(c) ELSE c

(* A new entry, or one that says the same as before. *)
Consistent(f, x, v) == x \in DOMAIN f => f[x] = v
SetPrec(c, tk, p) ==
  [c EXCEPT !.ok = tk \notin {"(", ")"} /\ Consistent(c.precs, tk, p), !.precs = Put(@, tk, p)]
InsertPrecAssoc(c, p, right) ==
  [c EXCEPT !.ok = Consistent(c.assoc, p, right), !.assoc = Put(@, p, right)]

CPrefix(c, n) ==
  CThen(SetPrec(c, n.tk, n.prec),
    LAMBDA d : LET e == [d EXCEPT !.prefix = Put(@, n.tk, [term |-> n.term, lits |-> PrefixLits(n)])]
               IN IF Nargs(n.term) = 0 THEN e ELSE InsertPrecAssoc(e, n.prec, TRUE))

CInfix(c, n) ==
  CThen(SetPrec(c, n.tk, n.prec),
    LAMBDA d : IF Nargs(n.term) # 2 \/ n.prec >= MaxPrec - 1 THEN CFail(d)
               ELSE InsertPrecAssoc([d EXCEPT !.infix = Put(@, n.tk, [term |-> n.term, right |-> n.k = "infixr"])],
                                    n.prec, n.k = "infixr"))

(* A variable's level is set by what follows it: Max before a variable,    *)
(* one more than a token's, the notation's own at the end.                 *)
CLevel(n, j) ==
  IF j = Len(n.lits) THEN n.lits[1].prec
  ELSE IF IsVar(n.lits[j + 1]) THEN MaxPrec ELSE n.lits[j + 1].prec + 1
CLits(n) ==
  [k \in 1..(Len(n.lits) - 1) |->
    IF IsVar(n.lits[k + 1]) THEN V(n.lits[k + 1].var, CLevel(n, k + 1)) ELSE n.lits[k + 1]]
TooHigh(n) ==
  \E j \in 2..(Len(n.lits) - 1) :
    IsVar(n.lits[j]) /\ ~IsVar(n.lits[j + 1]) /\ n.lits[j + 1].prec >= MaxPrec - 1

CNotation(c, n) ==
  IF IsVar(n.lits[1]) \/ n.nargs # Nargs(n.term) \/ TooHigh(n) THEN CFail(c)
  ELSE CThen(FoldLeft(LAMBDA d, l : CThen(d, LAMBDA x : IF IsVar(l) THEN x ELSE SetPrec(x, l.tk, l.prec)), c, n.lits),
         LAMBDA d : LET e == [d EXCEPT !.prefix = Put(@, n.lits[1].tk, [term |-> n.term, lits |-> CLits(n)])]
                    IN IF IsVar(Last(n.lits)) THEN InsertPrecAssoc(e, n.lits[1].prec, TRUE) ELSE e)

CNota(c, n) ==
  CThen(c, LAMBDA x : CASE n.k = "prefix" -> CPrefix(x, n)
                        [] n.k = "notation" -> CNotation(x, n)
                        [] OTHER -> CInfix(x, n))

-----------------------------------------------------------------------------
(* s holds the tables c, the text and the sorts of the variables in scope. *)

CGot(e, sort, at) == [ok |-> TRUE, e |-> e, sort |-> sort, at |-> at]

Coerce(r, tgt) ==
  IF Fits(r.sort, tgt) THEN [r EXCEPT !.e = Coerced(r.e, r.sort, tgt), !.sort = tgt] ELSE Fail(r.at)

CTree(t, args, at) == CGot(Tree(t, [i \in 1..Nargs(t) |-> args[i]]), Terms[t].ret, at)

RECURSIVE CExpr(_, _, _), CLhs(_, _, _), CRhs(_, _, _), CLiterals(_, _, _, _, _)

CLiterals(s, t, lits, args, at) ==
  IF lits = <<>> THEN CTree(t, args, at)
  ELSE IF IsVar(Head(lits))
  THEN Then(CExpr(s, Head(lits).prec, at),
         LAMBDA r : Then(Coerce(r, Terms[t].args[Head(lits).var].sort),
           LAMBDA x : CLiterals(s, t, Tail(lits), Put(args, Head(lits).var, x.e), x.at)))
  ELSE IF Tok(s, at) = Head(lits).tk THEN CLiterals(s, t, Tail(lits), args, Skip(at))
  ELSE Fail(at)

(* A term by its name takes as many arguments as it has. *)
CApp(s, t, p, at) ==
  IF Nargs(t) > 0 /\ p > APP_PREC THEN Fail(at)
  ELSE CLiterals(s, t, [i \in 1..Nargs(t) |-> V(i, MaxPrec)], <<>>, at)

CPrefixExpr(s, p, at) ==
  LET tk == Tok(s, at)
  IN CASE tk = "(" ->
            Then(CExpr(s, 0, Skip(at)),
                 LAMBDA r : IF Tok(s, r.at) = ")" THEN [r EXCEPT !.at = Skip(@)] ELSE Fail(r.at))
       [] tk \in DOMAIN s.c.prefix ->
            IF s.c.precs[tk] >= p
            THEN CLiterals(s, s.c.prefix[tk].term, s.c.prefix[tk].lits, <<>>, Skip(at)) ELSE Fail(at)
       [] tk \in DOMAIN s.sorts \ DOMAIN s.c.prefix -> CGot(Tree(tk, <<>>), s.sorts[tk], Skip(at))
       [] tk \in DOMAIN Terms \ (DOMAIN s.sorts \cup DOMAIN s.c.prefix) -> CApp(s, tk, p, Skip(at))
       [] OTHER -> Fail(at)

(* The level of a right operand is one above the operator's unless it      *)
(* associates to the right; operators at that level or above belong to it. *)
CRhs(s, p2, r) ==
  LET tk == Tok(s, r.at)
  IN IF tk \in DOMAIN s.c.infix /\ s.c.precs[tk] >= p2
     THEN Then(CLhs(s, s.c.precs[tk], r), LAMBDA x : CRhs(s, p2, x)) ELSE r

CBinary(t, l, r) ==
  Then(Coerce(l, Terms[t].args[1].sort),
    LAMBDA x : Then(Coerce(r, Terms[t].args[2].sort), LAMBDA y : CTree(t, <<x.e, y.e>>, y.at)))

CLhs(s, p, l) ==
  LET tk == Tok(s, l.at)
      p2 == IF s.c.infix[tk].right THEN s.c.precs[tk] ELSE s.c.precs[tk] + 1
  IN IF tk \in DOMAIN s.c.infix /\ s.c.precs[tk] >= p
     THEN Then(CPrefixExpr(s, p2, Skip(l.at)),
            LAMBDA r0 : Then(CRhs(s, p2, r0),
              LAMBDA r : Then(CBinary(s.c.infix[tk].term, l, r), LAMBDA x : CLhs(s, p, x))))
     ELSE l

CExpr(s, p, at) == Then(CPrefixExpr(s, p, at), LAMBDA l : CLhs(s, p, l))

(* $ text $, coerced to tgt *)
CFormula(c, sorts, text, tgt) ==
  Then(CExpr([c |-> c, text |-> text, sorts |-> sorts], 0, Start),
    LAMBDA r : Then(Coerce(r, tgt), LAMBDA x : IF x.at.i = Len(text) + 1 THEN x ELSE Fail(x.at)))

-----------------------------------------------------------------------------
(* binders: every variable has its type, dummies occur in definitions only, *)
(* and a type depends on bound variables declared before it.                *)

Earlier(d, j) == {d.bis[i].x : i \in {i \in 1..(j - 1) : d.bis[i].kind = "bound"}}
BinderFits(d, j) ==
  LET b == d.bis[j]
  IN /\ b.sort # ""
     /\ \A i \in 1..(j - 1) : d.bis[i].x # b.x
     /\ b.kind = "dummy" => d.k = "def"
     /\ IF b.kind = "reg" THEN \A y \in Range(b.deps) : y \in Earlier(d, j) ELSE b.deps = <<>>
CBinders(d) ==
  /\ \A j \in DOMAIN d.bis : BinderFits(d, j)
  /\ d.k = "def" => d.ret # "" /\ \A y \in Range(d.deps) : y \in Earlier(d, Len(d.bis) + 1)

SortOf(d, x) == d.bis[CHOOSE i \in DOMAIN d.bis : d.bis[i].x = x].sort
ReadOne(c, sorts, got, text, tgt) ==
  LET read(r) == IF r.ok THEN [got EXCEPT !.es = Append(@, r.e)] ELSE [got EXCEPT !.ok = FALSE]
  IN IF got.ok THEN read(CFormula(c, sorts, text, tgt)) ELSE got

CDecl(c, d) ==
  LET sorts == [x \in {d.bis[i].x : i \in DOMAIN d.bis} |-> SortOf(d, x)]
  IN IF ~CBinders(d) THEN [ok |-> FALSE, es |-> <<>>]
     ELSE FoldLeft(LAMBDA g, text : ReadOne(c, sorts, g, text, IF d.k = "def" THEN d.ret ELSE "provable"),
                   [ok |-> TRUE, es |-> <<>>], d.es)
=============================================================================
