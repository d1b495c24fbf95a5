----------------------------- MODULE MathParser -----------------------------
(* The precedence parser of mm0-rs for the text between two $. The text is *)
(* a sequence of tokens. A result is the tree, the precedence q it was     *)
(* read at, and par, the precedence inside if it is in parentheses; at is  *)
(* the parser's state, which an error leaves where it was found.           *)
EXTENDS Notation

CONSTANT Idents  \* the tokens that are identifiers

End == "$"
NoParens == -1

Start == [i |-> 1, warn |-> FALSE, panic |-> FALSE]
Got(e, q, par, at) == [ok |-> TRUE, e |-> e, q |-> q, par |-> par, at |-> at]
Fail(at) == [ok |-> FALSE, at |-> at]
Panic(at) == Fail([at EXCEPT !.panic = TRUE])
Then(r, Op(_)) == IF r.ok THEN Op(r) ELSE r

Tok(s, at) == IF at.i <= Len(s.text) THEN s.text[at.i] ELSE End
Skip(at) == [at EXCEPT !.i = @ + 1]
Prec(s, tk) == s.pe.consts[tk]
Operators(s) == DOMAIN s.pe.infixes
Starters(s) == DOMAIN s.pe.prefixes

(* Parentheses around what the level p would have taken without them. *)
CheckParen(r, p) ==
  IF r.par = NoParens THEN r
  ELSE [r EXCEPT !.par = NoParens, !.at.warn = @ \/ p <= r.par]

RECURSIVE Expr(_, _, _), Lhs(_, _, _), Rhs(_, _, _), Literals(_, _, _, _), Args(_, _, _)

(* The rest of a notation: args holds what is read so far. *)
Literals(s, lits, args, at) ==
  IF lits = <<>> THEN [ok |-> TRUE, args |-> args, at |-> at]
  ELSE IF IsVar(Head(lits))
  THEN Then(Expr(s, Head(lits).prec, at),
            LAMBDA r : Literals(s, Tail(lits), Put(args, Head(lits).var, r.e), r.at))
  ELSE IF Tok(s, at) = Head(lits).tk THEN Literals(s, Tail(lits), args, Skip(at))
  ELSE Fail(at)

AppOf(info, args) == Tree(info.term, [i \in 1..Nargs(info.term) |-> args[i]])

Prenex(s, info, q, at) ==
  Then(Literals(s, info.lits, <<>>, at), LAMBDA r : Got(AppOf(info, r.args), q, NoParens, r.at))

(* As many arguments as there are; the one that fails is given back, with  *)
(* the warnings found in it.                                               *)
Args(s, es, at) ==
  Then([x |-> Expr(s, MaxPrec, at), ok |-> TRUE],
       LAMBDA r : IF r.x.ok THEN Args(s, Append(es, r.x.e), r.x.at)
                  ELSE [ok |-> ~r.x.at.panic, es |-> es, at |-> [r.x.at EXCEPT !.i = at.i]])

Application(s, x, p, at) ==
  IF p > APP_PREC THEN Got(Tree(x, <<>>), MaxPrec, NoParens, at)
  ELSE Then(Args(s, <<>>, at),
            LAMBDA r : Got(Tree(x, r.es), IF r.es = <<>> THEN MaxPrec ELSE APP_PREC, NoParens, r.at))

Parens(s, at) ==
  Then(Expr(s, 0, at),
       LAMBDA r : IF Tok(s, r.at) = ")" THEN Got(r.e, MaxPrec, r.q, Skip(r.at)) ELSE Fail(r.at))

Prefix(s, p, at) ==
  LET tk == Tok(s, at)
  IN CASE tk = "(" -> Parens(s, Skip(at))
       [] tk \in DOMAIN s.pe.consts ->
            IF tk \in Starters(s) /\ Prec(s, tk) >= p
            THEN Prenex(s, s.pe.prefixes[tk], Prec(s, tk), Skip(at)) ELSE Fail(at)
       [] tk \in Idents \ DOMAIN s.pe.consts -> Application(s, tk, p, Skip(at))
       [] OTHER -> Fail(at)

(* Broken variant: an operator at the level of the one before belongs to its right operand. *)
RhsAnyAssoc(s, p1, r) ==
  LET tk == Tok(s, r.at)
  IN IF tk \notin Operators(s) THEN r
     ELSE IF s.pe.infixes[tk].assoc = "none" THEN Panic(r.at)
     ELSE IF Prec(s, tk) >= p1 THEN Then(Lhs(s, Prec(s, tk), r), LAMBDA r2 : Rhs(s, p1, r2)) ELSE r

(* The operators that bind tighter than the one at p1, or as tight and to  *)
(* the right, belong to its right operand r.                               *)
Rhs(s, p1, r) ==
  LET tk == Tok(s, r.at)
      assoc == s.pe.infixes[tk].assoc
  IN IF tk \notin Operators(s) THEN r
     ELSE IF assoc = "none" THEN Panic(r.at)
     ELSE IF Prec(s, tk) > p1 \/ (assoc = "right" /\ Prec(s, tk) = p1)
     THEN Then(Lhs(s, Prec(s, tk), r), LAMBDA r2 : Rhs(s, p1, r2))
     ELSE r

(* What follows the operator's token: the literals up to a last variable,  *)
(* which is read as a right operand.                                       *)
Operands(s, lits, p1, args, at) ==
  IF lits # <<>> /\ IsVar(Last(lits))
  THEN Then(Literals(s, Front(lits), args, at),
         LAMBDA m : Then(Prefix(s, Last(lits).prec, m.at),
           LAMBDA r0 : Then(Rhs(s, p1, r0),
             LAMBDA r1 : Then(CheckParen(r1, Last(lits).prec),
               LAMBDA r : [ok |-> TRUE, args |-> Put(m.args, Last(lits).var, r.e), at |-> r.at]))))
  ELSE Literals(s, lits, args, at)

Applied(s, info, p1, l) ==
  Then(Operands(s, SubSeq(info.lits, 3, Len(info.lits)), p1, info.lits[1].var :> l.e, Skip(l.at)),
       LAMBDA r : Got(AppOf(info, r.args), IF p1 < l.q THEN p1 ELSE l.q, NoParens, r.at))

Lhs(s, p, l) ==
  LET tk == Tok(s, l.at)
  IN IF tk \in Operators(s) /\ Prec(s, tk) >= p
     THEN Then(Applied(s, s.pe.infixes[tk], Prec(s, tk), CheckParen(l, s.pe.infixes[tk].lits[1].prec)),
               LAMBDA r : Lhs(s, p, r))
     ELSE l

Expr(s, p, at) ==
  Then(Prefix(s, p, at), LAMBDA l : Then(Lhs(s, p, l), LAMBDA r : CheckParen(r, p)))

ParseFormula(pe, text) ==
  Then(Expr([pe |-> pe, text |-> text], 0, Start),
       LAMBDA r : IF r.at.i = Len(text) + 1 THEN r ELSE Fail(r.at))
=============================================================================
