------------------------------ MODULE MCFormula ------------------------------
(* A sort of propositions, a sort nat with a coercion to it, and one term   *)
(* of each shape; files that give them notations at levels that meet.       *)
EXTENDS Formula

Reg(s, ds) == [bound |-> FALSE, sort |-> s, deps |-> ds]
Bv(s) == [bound |-> TRUE, sort |-> s, deps |-> {}]
Term(args, ret) == [args |-> args, ret |-> ret, deps |-> {}]

MCSorts == {"wff", "nat"}
MCProvable == {"wff"}
MCPaths == (<<"nat", "wff">> :> <<"tr">>)
MCCoeTerms == {"tr"}
MCTerms ==
  [tr |-> Term(<<Reg("nat", {})>>, "wff"),
   not |-> Term(<<Reg("wff", {})>>, "wff"),
   imp |-> Term(<<Reg("wff", {}), Reg("wff", {})>>, "wff"),
   all |-> Term(<<Bv("nat"), Reg("wff", {1})>>, "wff"),
   add |-> Term(<<Reg("nat", {}), Reg("nat", {})>>, "nat"),
   zero |-> Term(<<>>, "nat")]
MCNames == <<"m", "n", "p", "q", "x", "y">>
MCIdents == DOMAIN MCTerms \cup Range(MCNames)

-----------------------------------------------------------------------------
Simple(k, t, tk, prec) == <<[k |-> k, term |-> t, tk |-> tk, prec |-> prec]>>
General(t, lits, assoc, prec) ==
  <<[k |-> "notation", term |-> t, nargs |-> Len(MCTerms[t].args), lits |-> lits, assoc |-> assoc, prec |-> prec]>>

NotNotas == {<<>>, Simple("prefix", "not", "~", 1), Simple("prefix", "not", "~", 2), Simple("prefix", "not", "~", MaxPrec),
             General("not", <<C("|", MaxPrec), V(1, 0), C("]", 0)>>, "none", 0)}
ImpNotas == {<<>>, Simple("infixr", "imp", "->", 1), Simple("infixr", "imp", "->", 2), Simple("infixl", "imp", "->", 2)}
AddNotas == {<<>>, Simple("infixl", "add", "+", 2), Simple("infixr", "add", "+", 2), Simple("infixl", "add", "+", 3),
             Simple("prefix", "add", "+", 2),
             General("add", <<V(1, 0), C("[", 2), V(2, 0), C("]", 0)>>, "left", 2)}
AllNota == General("all", <<C("A.", 1), V(1, 0), V(2, 0)>>, "none", 0)

Common ==
  {f \o g \o h : f \in NotNotas, g \in ImpNotas, h \in AddNotas} \cup {f \o g \o AllNota : f \in NotNotas, g \in ImpNotas}

(* Several notations of a term, tokens used twice, levels beyond those of  *)
(* applications, and commands that are refused.                            *)
Twice == Simple("infixr", "imp", "->", 2) \o Simple("prefix", "imp", "=>", 1) \o Simple("infixl", "imp", "=>", 1)
High == Simple("infixr", "imp", "->", 1025) \o Simple("prefix", "not", "~", 1024)
Loose == General("add", <<V(1, 0), C("[", 2), V(2, 0), C("]", 0)>>, "none", 0)
Special ==
  {Twice, High, Loose \o Simple("infixr", "imp", "->", 1), Loose \o Simple("infixr", "imp", "->", 3),
   General("add", <<V(1, 0), C("[", 2), V(2, 0), C("]", 0)>>, "right", 2) \o Simple("infixr", "imp", "->", 1),
   General("imp", <<V(2, 0), C("<-", 2), V(1, 0)>>, "left", 2) \o Simple("prefix", "not", "~", 3),
   General("not", <<V(1, 0), C("!", 3)>>, "none", 0) \o Simple("infixl", "imp", "->", 2),
   General("imp", <<C("if", 1), V(1, 0), C("->", 2), V(2, 0)>>, "none", 0) \o Simple("infixr", "add", "->", 2),
   Simple("infixr", "imp", "->", 2) \o Simple("infixl", "add", "->", 2),
   Simple("infixr", "imp", "->", MaxPrec), Simple("prefix", "imp", "(", 1),
   Simple("infixr", "imp", "->", 2) \o Simple("prefix", "not", "->", 3),
   Simple("infixr", "imp", "->", 2) \o Simple("prefix", "not", "->", 2),
   General("imp", <<C("if", 1), V(1, 0)>>, "none", 0), General("not", <<C("|", 1), V(1, 0), V(1, 0)>>, "none", 0),
   General("imp", <<V(1, 0), C("->", 2), V(2, 0)>>, "none", 0), General("imp", <<V(1, 0), C("->", 2), V(2, 0)>>, "right", 1)}

-----------------------------------------------------------------------------
v(x) == Tree(x, <<>>)
A(t, es) == Tree(t, es)
not(e) == A("not", <<e>>)
imp(e, f) == A("imp", <<e, f>>)
all(e, f) == A("all", <<e, f>>)
add(e, f) == A("add", <<e, f>>)
m == v("m")
n == v("n")
p == v("p")
q == v("q")
x == v("x")
y == v("y")

Props ==
  {imp(imp(p, q), imp(q, p)), imp(not(p), q), not(imp(p, not(q))), imp(p, imp(not(q), p)), imp(imp(p, not(q)), p),
   imp(add(m, n), not(p)), imp(all(x, p), all(y, imp(x, y))), not(add(m, add(n, x))), imp(p, add(m, n)),
   all(x, add(x, add(m, x))), imp(add(add(m, n), m), add(m, add(n, m))), all(m, p), not(all(x, add(p, x)))}
Closed == imp(all(x, all(y, imp(x, y))), all(x, x))
Nats == {add(add(m, n), add(n, m)), add(m, v("zero")), m, add(m, imp(p, q))}

B(z, kind, sort, deps) == [x |-> z, kind |-> kind, sort |-> sort, deps |-> deps]
Typed == <<B("m", "reg", "nat", <<>>), B("n", "reg", "nat", <<>>), B("x", "bound", "nat", <<>>),
           B("p", "reg", "wff", <<"x">>), B("q", "reg", "wff", <<>>), B("y", "dummy", "nat", <<>>)>>
Partly == <<B("m", "reg", "", <<>>), B("y", "dummy", "", <<>>), B("p", "reg", "wff", <<"x">>)>>

Decl(k, bis, ret, deps, es) == [k |-> k, bis |-> bis, ret |-> ret, deps |-> deps, es |-> es]
MCStatements ==
  {Decl("def", Typed, "wff", <<"x">>, <<e>>) : e \in Props}
  \cup {Decl("def", Partly, ret, <<>>, <<e>>) : ret \in {"wff", ""}, e \in Props}
  \cup {Decl("def", Typed, ret, <<>>, <<e>>) : ret \in {"wff", "nat", ""}, e \in Nats}
  \cup {Decl("axiom", bis, "", <<>>, <<p, e>>) : bis \in {Partly, SubSeq(Typed, 1, 5)}, e \in Props}
  \cup {Decl("def", <<>>, "wff", <<>>, <<Closed>>), Decl("def", <<>>, "", <<>>, <<Closed>>)}

(* A tree with the parentheses that it needs, without any, and as a list. *)
MCTexts(env, e) ==
  LET assoc(a) == IF a = "none" THEN "left" ELSE a
      said == [env EXCEPT !.infixes = [tk \in DOMAIN @ |-> [@[tk] EXCEPT !.assoc = assoc(@)]]]
      texts(full) == [full |-> full, flat |-> SelectSeq(full, LAMBDA tk : tk \notin {"(", ")"}),
                      list |-> Printed(NoNotations, e)]
  IN texts(Printed(said, e))
MCFiles == Common \cup Special
=============================================================================
