------------------------------ MODULE Notation ------------------------------
(* What formulas are made of, the declared terms and sorts and the paths that *)
(* the declared coercions make between sorts (see Coercions); and the      *)
(* notations of a file in mm0-rs: the tables of ParserEnv, what a          *)
(* prefix, infixl, infixr or notation command adds to them, and what an    *)
(* import copies. A tree is [h, a]: a head, which is a term or a variable,  *)
(* and its arguments. A precedence is a number below MaxPrec. A literal is  *)
(* V(i, p), the ith argument read at level p, or C(tk, p), a token and its  *)
(* level.                                                                  *)
EXTENDS Integers, Sequences, SequencesExt

CONSTANTS
  Terms,          \* [name -> [args |-> Seq([bound, sort, deps]), ret |-> sort, deps |-> bound arguments]]
  Paths,          \* [<<from, to>> -> sequence of terms]
  ProvableSorts

Nargs(t) == Len(Terms[t].args)
Tree(h, a) == [h |-> h, a |-> a]

(* The sort that a proposition of sort s is proved in. *)
HasProvable(s) == s \in ProvableSorts \/ \E t \in ProvableSorts : <<s, t>> \in DOMAIN Paths
ProvableOf(s) ==
  IF s \in ProvableSorts THEN s ELSE CHOOSE t \in ProvableSorts : <<s, t>> \in DOMAIN Paths

ApplyCoe(e, from, to) ==
  IF from = to THEN e ELSE FoldLeft(LAMBDA x, t : Tree(t, <<x>>), e, Paths[<<from, to>>])
Coercible(from, to) == from = to \/ <<from, to>> \in DOMAIN Paths

(* A target is a sort or "provable". *)
Fits(from, tgt) == IF tgt = "provable" THEN HasProvable(from) ELSE Coercible(from, tgt)
Coerced(e, from, tgt) == ApplyCoe(e, from, IF tgt = "provable" THEN ProvableOf(from) ELSE tgt)

-----------------------------------------------------------------------------

MaxPrec == 65535
APP_PREC == 1024

V(i, p) == [var |-> i, tk |-> "", prec |-> p]
C(tk, p) == [var |-> 0, tk |-> tk, prec |-> p]
IsVar(l) == l.var # 0
Without(f, x) == [y \in DOMAIN f \ {x} |-> f[y]]
Put(f, x, v) == (x :> v) @@ Without(f, x)

(* An operation on the tables that may fail: the tables after it, and whether it succeeded. *)
Done(pe) == [ok |-> TRUE, pe |-> pe]
Failed(pe) == [ok |-> FALSE, pe |-> pe]
AndThen(r, Op(_)) == IF r.ok THEN Op(r.pe) ELSE r

NoNotations == [consts |-> <<>>, prefixes |-> <<>>, infixes |-> <<>>, nota |-> [t \in DOMAIN Terms |-> <<>>]]

(* A token has one precedence, whatever it is used for. *)
AddConst(pe, tk, p) ==
  IF tk \in {"(", ")"} THEN Failed(pe)
  ELSE IF tk \notin DOMAIN pe.consts THEN Done([pe EXCEPT !.consts = Put(@, tk, p)])
  ELSE IF pe.consts[tk] = p THEN Done(pe) ELSE Failed(pe)

(* A token starts at most one prefix and one infix notation; a term may    *)
(* have several notations, of which the first is printed.                  *)
AddNota(pe, tk, infix, info) ==
  LET listed == [pe EXCEPT !.nota[info.term] = Append(@, <<tk, infix>>)]
  IN IF infix
     THEN IF tk \in DOMAIN pe.infixes THEN Failed(listed)
          ELSE Done([listed EXCEPT !.infixes = Put(@, tk, info)])
     ELSE IF tk \in DOMAIN pe.prefixes THEN Failed(listed)
          ELSE Done([listed EXCEPT !.prefixes = Put(@, tk, info)])

Info(t, assoc, lits) == [term |-> t, assoc |-> assoc, lits |-> lits]

PrefixLits(n) == [i \in 1..Nargs(n.term) |-> V(i, IF i = Nargs(n.term) THEN n.prec ELSE MaxPrec)]
InfixLits(n) ==
  LET right == n.k = "infixr"
  IN <<V(1, IF right THEN n.prec + 1 ELSE n.prec), C(n.tk, n.prec), V(2, IF right THEN n.prec ELSE n.prec + 1)>>

ElabSimpleNota(pe, n) ==
  LET infix == n.k # "prefix"
      info == IF infix THEN Info(n.term, IF n.k = "infixr" THEN "right" ELSE "left", InfixLits(n))
              ELSE Info(n.term, "right", PrefixLits(n))
  IN IF infix /\ (n.prec = MaxPrec \/ Nargs(n.term) # 2) THEN Failed(pe)
     ELSE AndThen(AddConst(pe, n.tk, n.prec), LAMBDA q : AddNota(q, n.tk, infix, info))

-----------------------------------------------------------------------------
(* notation t x1 ... xn = literals : precedence associativity.             *)
(* n.assoc is "none" where the last part is left out.                      *)

OutOfRange == -1
Bump(yes, p) == IF ~yes THEN p ELSE IF p = MaxPrec THEN OutOfRange ELSE p + 1

LeadAt(n) == IF IsVar(n.lits[1]) THEN 2 ELSE 1
Lead(n) == n.lits[LeadAt(n)]
IsInfix(n) == LeadAt(n) = 2
AssocOf(n) ==
  IF ~IsInfix(n) THEN "right" ELSE IF Len(n.lits) = 2 THEN "left" ELSE n.assoc

(* The level of the variable at position j: that of the operator at the    *)
(* end, one above the token that follows, or MaxPrec before another variable.  *)
LevelAt(n, j) ==
  IF j = Len(n.lits)
  THEN IF AssocOf(n) = "none" THEN OutOfRange ELSE Bump(AssocOf(n) = "left", Lead(n).prec)
  ELSE IF IsVar(n.lits[j + 1]) THEN MaxPrec ELSE Bump(TRUE, n.lits[j + 1].prec)
FirstLevel(n) == Bump(n.assoc = "right", Lead(n).prec)

AddVar(g, i, p) ==
  [g EXCEPT !.ok = p # OutOfRange /\ i \in g.unused, !.unused = @ \ {i}, !.lits = Append(@, V(i, p))]
AddTok(g, l) ==
  LET r == AddConst(g.pe, l.tk, l.prec) IN [g EXCEPT !.ok = r.ok, !.pe = r.pe, !.lits = Append(@, l)]
AddLit(n, g, j) ==
  IF ~g.ok THEN g
  ELSE IF IsVar(n.lits[j]) THEN AddVar(g, n.lits[j].var, LevelAt(n, j)) ELSE AddTok(g, n.lits[j])

ElabGenNota(pe, n) ==
  LET g0 == [pe |-> pe, ok |-> TRUE, lits |-> <<>>, unused |-> 1..n.nargs]
      lead == IF IsInfix(n) THEN AddTok(AddVar(g0, n.lits[1].var, FirstLevel(n)), Lead(n))
              ELSE [AddTok(g0, Lead(n)) EXCEPT !.lits = <<>>]
      g == FoldLeft(LAMBDA a, j : AddLit(n, a, j), lead, [k \in 1..(Len(n.lits) - LeadAt(n)) |-> LeadAt(n) + k])
  IN IF \/ n.nargs # Nargs(n.term)
        \/ IsInfix(n) /\ n.assoc # "none" /\ n.prec # Lead(n).prec
        \/ IsInfix(n) /\ FirstLevel(n) = OutOfRange
     THEN Failed(pe)
     ELSE IF ~g.ok \/ g.unused # {} THEN Failed(g.pe)
     ELSE AddNota(g.pe, Lead(n).tk, IsInfix(n), Info(n.term, AssocOf(n), g.lits))

ElabNota(pe, n) == IF n.k = "notation" THEN ElabGenNota(pe, n) ELSE ElabSimpleNota(pe, n)

(* A file that imports this one alone reads the tables in the order of     *)
(* their hash maps, prefix notations first: ps and is are those orders.    *)
Merge(pe, ps, is) ==
  LET consts == [NoNotations EXCEPT !.consts = pe.consts]
      prefixed == FoldLeft(LAMBDA q, tk : AddNota(q, tk, FALSE, pe.prefixes[tk]).pe, consts, ps)
  IN FoldLeft(LAMBDA q, tk : AddNota(q, tk, TRUE, pe.infixes[tk]).pe, prefixed, is)
=============================================================================
