---------------------------- MODULE MathPrinter ----------------------------
(* How mm0-rs prints an elaborated tree: by the first notation of its head, *)
(* without its coercions, and in the shape of a list where there is no      *)
(* other. A printed tree is [q, text]: the highest precedence it needs no   *)
(* parentheses at, and its tokens.                                          *)
EXTENDS MathParser

CONSTANT CoeTerms  \* the terms declared as coercions

Pp(q, text) == [q |-> q, text |-> text]
IsApp(e) == e.h \in DOMAIN Terms /\ Len(e.a) = Nargs(e.h)
Enclosed(text) == <<"(">> \o text \o <<")">>
IsChain(t, e) == IsApp(e) /\ e.h = t
EndsInVar(info) == Len(info.lits) > 2 /\ IsVar(Last(info.lits))

RECURSIVE PpLisp(_), PpExpr(_, _), InfixL(_, _, _), InfixR(_, _, _)

PpLisp(e) == IF e.a = <<>> THEN <<e.h>> ELSE Enclosed(<<e.h>> \o FlattenSeq([i \in DOMAIN e.a |-> PpLisp(e.a[i])]))

(* Broken variant: no parentheses for an operand one level too low. *)
WithParensLate(r, p) == IF p - 1 > r.q THEN Enclosed(r.text) ELSE r.text
WithParens(r, p) == IF p > r.q THEN Enclosed(r.text) ELSE r.text
ExprParen(pe, e, p) == WithParens(PpExpr(pe, e), p)

Lit(pe, l, args) == IF IsVar(l) THEN ExprParen(pe, args[l.var], l.prec) ELSE <<l.tk>>
Lits(pe, lits, args) == FlattenSeq([i \in DOMAIN lits |-> Lit(pe, lits[i], args)])

(* A chain of one operator is printed without asking for the level of the  *)
(* operand that continues it.                                              *)
InfixL(pe, info, args) ==
  LET l == info.lits[1]
  IN (IF IsChain(info.term, args[l.var]) THEN InfixL(pe, info, args[l.var].a)
      ELSE ExprParen(pe, args[l.var], l.prec))
     \o Lits(pe, Tail(info.lits), args)

InfixR(pe, info, args) ==
  LET l == Last(info.lits)
  IN Lits(pe, Front(info.lits), args)
     \o (IF IsChain(info.term, args[l.var]) THEN InfixR(pe, info, args[l.var].a)
         ELSE ExprParen(pe, args[l.var], l.prec))

(* A right associative notation that does not end in a variable is not     *)
(* printed; one without associativity is a panic.                          *)
Panicked == <<"panic">>
InfixNota(pe, e, info, q) ==
  CASE info.assoc = "left" -> Pp(q, InfixL(pe, info, e.a))
    [] info.assoc = "right" /\ EndsInVar(info) -> Pp(q, InfixR(pe, info, e.a))
    [] info.assoc = "right" /\ ~EndsInVar(info) -> Pp(MaxPrec, PpLisp(e))
    [] info.assoc = "none" -> Pp(q, Panicked)

FirstNota(pe, e, nota) ==
  IF nota[2] THEN InfixNota(pe, e, pe.infixes[nota[1]], pe.consts[nota[1]])
  ELSE Pp(pe.consts[nota[1]], <<nota[1]>> \o Lits(pe, pe.prefixes[nota[1]].lits, e.a))

AppForm(pe, e) ==
  IF e.a = <<>> THEN Pp(MaxPrec, <<e.h>>)
  ELSE Pp(APP_PREC, <<e.h>> \o FlattenSeq([i \in DOMAIN e.a |-> ExprParen(pe, e.a[i], MaxPrec)]))

PpExpr(pe, e) ==
  CASE ~IsApp(e) -> Pp(MaxPrec, PpLisp(e))
    [] IsApp(e) /\ e.h \in CoeTerms -> PpExpr(pe, e.a[1])
    [] IsApp(e) /\ e.h \notin CoeTerms ->
         IF pe.nota[e.h] = <<>> THEN AppForm(pe, e) ELSE FirstNota(pe, e, pe.nota[e.h][1])

(* The text of $ ... $. *)
Printed(pe, e) == ExprParen(pe, e, 0)
=============================================================================
