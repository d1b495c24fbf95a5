-------------------------------- MODULE MCMmb --------------------------------
(* A theory with a definition, a quantifier and a definition that binds a  *)
(* dummy; theorems about them by hypotheses, axioms and conversions, right *)
(* and wrong, with and without sharing in the elaborator's output.         *)
EXTENDS MmbPipeline

L == INSTANCE MmbElab

Reg(s, ds) == [bound |-> FALSE, sort |-> s, deps |-> ds]
Bv(s, b) == [bound |-> TRUE, sort |-> s, deps |-> {b}]
Ret(s, ds) == [sort |-> s, deps |-> ds]

p == <<"var", 1>>
q == <<"var", 2>>
y == <<"dummy", 1, 2>>
z == <<"dummy", 2, 2>>
h == <<"hyp", 1>>
App(t, es) == <<"term", t, es>>
im(a, b) == App(1, <<a, b>>)
d(a) == App(2, <<a>>)
all(x, a) == App(3, <<x, a>>)
ex(a) == App(4, <<a>>)

Term(args, ret) == [kind |-> "term", args |-> args, ret |-> ret]
Def(args, ret, value, interned) ==
  [kind |-> "def", args |-> args, ret |-> ret, value |-> value, interned |-> interned]
Axiom(args, hyps, ret) ==
  [kind |-> "axiom", args |-> args, hyps |-> hyps, ret |-> ret, interned |-> FALSE]
Thm(args, hyps, ret, proof, interned) ==
  [kind |-> "thm", args |-> args, hyps |-> hyps, ret |-> ret, proof |-> proof, interned |-> interned]

wff == Ret(1, {})
OneProp == <<Reg(1, {})>>
Bound1(ds) == <<Bv(2, 0), Reg(1, ds)>>

Base ==
  << [kind |-> "sort", mods |-> {"provable"}], [kind |-> "sort", mods |-> {}],
     Term(<<Reg(1, {}), Reg(1, {})>>, wff),                      \* im
     Def(OneProp, wff, im(p, p), FALSE),                         \* d p := im p p
     Term(Bound1({0}), wff),                                     \* all {x} (p x)
     Def(OneProp, wff, all(y, p), FALSE),                        \* ex p := all .y p
     Axiom(<<Reg(1, {}), Reg(1, {})>>, <<p, q>>, im(p, q)),      \* 1 both
     Axiom(OneProp, <<>>, im(p, p)),                             \* 2 id
     Axiom(Bound1({0}), <<q>>, all(p, q)),                       \* 3 gen
     Axiom(Bound1({}), <<q>>, all(p, q)) >>                      \* 4 sep, x not in p

both(a, b, s, t) == <<"thm", 1, <<a, b, s, t>>>>
id(a) == <<"thm", 2, <<a>>>>
gen(x, a, s) == <<"thm", 3, <<x, a, s>>>>
sep(x, a, s) == <<"thm", 4, <<x, a, s>>>>
conv(tgt, c, s) == <<"conv", tgt, c, s>>

-----------------------------------------------------------------------------
(* Conversions c with their sides l and r. *)

K(c, l, r) == [c |-> c, l |-> l, r |-> r]
Refl(a) == K(a, a, a)
Sym(k) == K(<<"sym", k.c>>, k.r, k.l)
Cong(k, m) == K(im(k.c, m.c), im(k.l, m.l), im(k.r, m.r))
CongD(k) == K(d(k.c), d(k.l), d(k.r))
Unf(a) == K(<<"unfold", 2, <<a>>, im(a, a)>>, d(a), im(a, a))
UnfTo(k) == K(<<"unfold", 2, <<k.l>>, Cong(k, k).c>>, d(k.l), im(k.r, k.r))

K0 == {Refl(p), Refl(d(p))}
K1 == K0 \cup {Unf(p), Sym(Unf(p)), Sym(Refl(d(p))), Unf(d(p))}
K2 == K1 \cup {Cong(k, m) : k \in K1, m \in K1} \cup {UnfTo(k) : k \in K1}
         \cup {CongD(k) : k \in K1} \cup {Sym(Cong(k, k)) : k \in K1}

Right(k, i) == Thm(OneProp, <<k.r>>, k.l, conv(k.l, k.c, h), i)

(* The same subproof twice. *)
Doubled(k, i) ==
  LET s == conv(k.l, k.c, h) IN Thm(OneProp, <<k.r>>, im(k.l, k.l), both(k.l, k.l, s, s), i)

(* One conversion after another. *)
Nested(k, m, i) == Thm(OneProp, <<m.r>>, k.l, conv(k.l, k.c, conv(m.l, m.c, h)), i)

(* A claim that the conversion may or may not justify. *)
Claims == {p, d(p), im(p, p), im(d(p), p)}
Wrong(k, l, r, i) == Thm(OneProp, <<r>>, l, conv(l, k.c, h), i)

Converting ==
  UNION {{Right(k, i) : k \in K2} \cup {Doubled(k, i) : k \in K2}
           \cup {Wrong(k, l, r, i) : k \in K1, l \in Claims, r \in Claims}
         : i \in BOOLEAN}

Chained0 ==
  UNION {{Nested(k, m, i) : k \in {k \in K2 : k.r = m.l}} : m \in K1, i \in BOOLEAN}

(* ex a from its body at v, right when v is apart from a. *)
Bodies == {q, all(p, q)}
Generalized(v, b) ==
  IF b = q THEN {sep(v, q, h), gen(v, q, h)} ELSE {gen(v, b, gen(p, q, h)), sep(v, b, gen(p, q, h))}

Binding ==
  UNION {
    {Thm(Bound1(ds), <<q>>, all(p, q), s, i) :
       ds \in {{}, {0}}, s \in {gen(p, q, h), sep(p, q, h)}}
    \cup UNION {{Thm(Bound1(ds), <<q>>, ex(a), conv(ex(a), <<"unfold", 4, <<a>>, all(v, b)>>, s), i) :
                  ds \in {{}, {0}}, a \in Bodies, s \in Generalized(v, b)} : v \in {p, y}, b \in Bodies}
    \cup {Thm(OneProp, <<>>, im(a, a), id(b), i) : a \in Claims, b \in Claims}
    : i \in BOOLEAN}

Defining ==
  UNION {
    {Def(OneProp, wff, a, i) :
       a \in {p, d(p), im(d(p), d(p)), all(y, p), im(all(y, p), all(y, p)), all(y, all(z, p)),
              all(y, all(y, p)), y, im(p, im(im(p, p), im(p, p)))}}
    \cup {Def(Bound1(ds), Ret(1, rs), a, i) :
            ds \in {{}, {0}}, rs \in {{}, {0}},
            a \in {q, all(p, q), im(all(p, q), q), im(all(p, all(p, q)), all(y, q)), p}}
    : i \in BOOLEAN}

(* Several hypotheses, with and without parts in common. *)
TwoProps == <<Reg(1, {}), Reg(1, {})>>
h2 == <<"hyp", 2>>
Props == {p, d(p), im(p, q)}
Several ==
  UNION {
    {Thm(TwoProps, hs, im(hs[1], hs[2]), both(hs[1], hs[2], s, t), i) :
       hs \in {<<a, b>> : a \in Props, b \in Props}, s \in {h, h2}, t \in {h, h2}}
    \cup {Axiom(TwoProps, hs, im(a, b)) : hs \in {<<a, b>> : a \in Props, b \in Props}, a \in {p, d(p)}, b \in {q, d(p)}}
    : i \in BOOLEAN}

Mixed == Several \cup Converting \cup Chained0 \cup Binding \cup Defining

Declarations == L!Elaborated(Base)
BaseTheory == Declarations.ts
MixedCandidates == {L!Elaborate(Declarations.en, x).t : x \in Mixed}

(* A definition with two dummies, unfolded to one variable and to two. *)
twice(a, b) == App(1, <<a, b>>)
f == App(2, <<>>)

TwoDummies ==
  << [kind |-> "sort", mods |-> {"provable"}], [kind |-> "sort", mods |-> {}],
     Term(<<Bv(2, 0), Bv(2, 1)>>, wff),                          \* twice {x y}
     Def(<<>>, wff, twice(y, z), FALSE) >>                       \* f := twice .y .z

Unfolding ==
  {Thm(<<Bv(2, 0), Bv(2, 1)>>, <<twice(v, w)>>, f, conv(f, <<"unfold", 2, <<>>, twice(v, w)>>, h), i) :
     v \in {p, q}, w \in {p, q}, i \in BOOLEAN}

DummiesDeclarations == L!Elaborated(TwoDummies)
DummiesTheory == DummiesDeclarations.ts
DummiesCandidates == {L!Elaborate(DummiesDeclarations.en, x).t : x \in Unfolding}

NoFiles == {[sorts |-> <<>>, terms |-> <<>>, thms |-> <<>>, spec |-> <<>>]}
=============================================================================
