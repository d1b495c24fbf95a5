-------------------------- MODULE Coercions_proofs --------------------------
(***************************************************************************)
(* Proofs about the coercion tables of mm0-c and mm0-rs.  Both keep the    *)
(* pairs of sorts joined by one declared coercion or by two; with at most  *)
(* three sorts that is every pair joined by a path, and what the tables    *)
(* test before they grow is that paths stay unique.                         *)
(***************************************************************************)
EXTENDS Coercions, TLAPS, WellFoundedInduction, SequenceTheorems, FiniteSetTheorems

-----------------------------------------------------------------------------
(* Graphs on a set V of sorts, with the edges E. *)

Closed(E, S) == \A e \in E : e[1] \in S => e[2] \in S
Reach(V, E, s) == {t \in V : \A S \in SUBSET V : (s \in S /\ Closed(E, S)) => t \in S}
Unique(V, E) ==
  /\ \A e \in E : e[1] \notin Reach(V, E, e[2])
  /\ \A d, e \in E : (d # e /\ d[1] = e[1]) => Reach(V, E, d[2]) \cap Reach(V, E, e[2]) = {}

AtMostThree(V) ==
  \A a, b, c, d \in V : a = b \/ a = c \/ a = d \/ b = c \/ b = d \/ c = d

(* A table H of the pairs joined by one edge or by two: no cycle, and no     *)
(* edge beside a path.                                                       *)
IsTable(V, E, H) ==
  /\ E \subseteq V \X V
  /\ H \subseteq V \X V
  /\ \A s, t \in V : <<s, t>> \in H
       <=> (<<s, t>> \in E \/ \E m \in V : <<s, m>> \in E /\ <<m, t>> \in E)
  /\ \A s, t \in V : ~(<<s, t>> \in H /\ <<t, s>> \in H)
  /\ \A s, m, t \in V : ~(<<s, m>> \in E /\ <<m, t>> \in E /\ <<s, t>> \in E)

(* What is tested before an edge from a to b is added ... *)
Admits(V, H, a, b) ==
  /\ a # b
  /\ <<b, a>> \notin H
  /\ <<a, b>> \notin H
  /\ \A s \in V : <<s, a>> \in H => <<s, b>> \notin H
  /\ \A t \in V : <<b, t>> \in H => <<a, t>> \notin H

(* ... and the table with it. *)
Grown(V, H, a, b) ==
  H \cup {p \in V \X V : \/ p = <<a, b>>
                         \/ p[2] = b /\ <<p[1], a>> \in H
                         \/ p[1] = a /\ <<b, p[2]>> \in H}

(* A sort reaches itself and what its edges lead to. *)
LEMMA ReachSelf ==
  ASSUME NEW V, NEW E, NEW s \in V
  PROVE s \in Reach(V, E, s)
BY DEF Reach

LEMMA ReachStep ==
  ASSUME NEW V, NEW E, NEW s, NEW t \in Reach(V, E, s), NEW u \in V, <<t, u>> \in E
  PROVE u \in Reach(V, E, s)
<1>1. SUFFICES ASSUME NEW S \in SUBSET V, s \in S, Closed(E, S) PROVE u \in S
  BY DEF Reach
<1>2. t \in S
  BY <1>1 DEF Reach
<1> QED BY <1>1, <1>2 DEF Closed

(* No closed set that holds the start misses a sort reached. *)
LEMMA ReachLeast ==
  ASSUME NEW V, NEW E, NEW S \in SUBSET V, NEW s \in S, Closed(E, S)
  PROVE Reach(V, E, s) \subseteq S
BY DEF Reach

(* More edges reach more. *)
LEMMA ReachGrows ==
  ASSUME NEW V, NEW E, NEW F, E \subseteq F, NEW s
  PROVE Reach(V, E, s) \subseteq Reach(V, F, s)
BY DEF Reach, Closed

(* In a table of at most three sorts, what is reached has an entry. *)
LEMMA TableReach ==
  ASSUME NEW V, NEW E, NEW H, IsTable(V, E, H), AtMostThree(V), NEW s \in V
  PROVE \A t \in V : t \in Reach(V, E, s) <=> t = s \/ <<s, t>> \in H
<1> DEFINE S == {t \in V : t = s \/ <<s, t>> \in H}
<1>1. ASSUME NEW t \in S, NEW u \in V, <<t, u>> \in E
      PROVE u \in S
  <2>1. CASE t = s
    BY <1>1, <2>1 DEF IsTable
  <2>2. CASE t # s /\ <<s, t>> \in E
    BY <1>1, <2>2 DEF IsTable
  <2>3. CASE t # s /\ <<s, t>> \notin E
    <3>1. PICK m \in V : <<s, m>> \in E /\ <<m, t>> \in E
      BY <1>1, <2>3 DEF IsTable
    <3>2. s # m /\ m # t /\ t # u /\ u # m
      BY <1>1, <3>1 DEF IsTable
    <3>3. u = s
      BY <1>1, <2>3, <3>1, <3>2 DEF AtMostThree
    <3> QED BY <3>3
  <2> QED BY <1>1, <2>1, <2>2, <2>3
<1>2. Closed(E, S)
  <2>1. \A e \in E : e = <<e[1], e[2]>> /\ e[1] \in V /\ e[2] \in V
    BY DEF IsTable
  <2> QED BY <1>1, <2>1 DEF Closed
<1>3. Reach(V, E, s) \subseteq S
  BY <1>2, ReachLeast
<1>4. ASSUME NEW t \in V, <<s, t>> \in H
      PROVE t \in Reach(V, E, s)
  <2>1. CASE <<s, t>> \in E
    BY <2>1, ReachSelf, ReachStep
  <2>2. CASE <<s, t>> \notin E
    <3>1. PICK m \in V : <<s, m>> \in E /\ <<m, t>> \in E
      BY <1>4, <2>2 DEF IsTable
    <3>2. m \in Reach(V, E, s)
      BY <3>1, ReachSelf, ReachStep
    <3> QED BY <3>1, <3>2, ReachStep
  <2> QED BY <2>1, <2>2
<1> QED BY <1>3, <1>4, ReachSelf

(* A table of at most three sorts has unique paths. *)
LEMMA TableUnique ==
  ASSUME NEW V, NEW E, NEW H, IsTable(V, E, H), AtMostThree(V)
  PROVE Unique(V, E)
<1>1. \A e \in E : e[1] \in V /\ e[2] \in V /\ <<e[1], e[2]>> \in E /\ e = <<e[1], e[2]>>
  <2>1. \A e \in E : e = <<e[1], e[2]>> /\ e[1] \in V /\ e[2] \in V
    BY DEF IsTable
  <2> QED BY <2>1
<1>0. \A s, t \in V : t \in Reach(V, E, s) => t = s \/ <<s, t>> \in H
  BY TableReach
<1>2. ASSUME NEW e \in E, e[1] \in Reach(V, E, e[2])
      PROVE FALSE
  <2>1. e[1] = e[2] \/ <<e[2], e[1]>> \in H
    BY <1>0, <1>1, <1>2
  <2>2. e[1] \in V /\ e[2] \in V /\ <<e[1], e[2]>> \in E
    BY <1>1
  <2>3. <<e[1], e[2]>> \in H
    BY <2>2 DEF IsTable
  <2> QED BY <2>1, <2>2, <2>3 DEF IsTable
<1>3. ASSUME NEW a \in V, NEW b \in V, NEW c \in V, <<a, b>> \in E, <<a, c>> \in E, b # c,
             NEW x \in V, x = b \/ <<b, x>> \in H, x = c \/ <<c, x>> \in H
      PROVE FALSE
  <2>1. <<a, b>> \in H /\ <<a, c>> \in H /\ a # b /\ a # c
    BY <1>3 DEF IsTable
  <2>2. ASSUME NEW p \in {b, c}, NEW q \in {b, c}, p # q, <<p, q>> \in H
        PROVE FALSE
    <3>1. <<p, q>> \notin E
      BY <1>3, <2>2 DEF IsTable
    <3>2. PICK m \in V : <<p, m>> \in E /\ <<m, q>> \in E
      BY <1>3, <2>2, <3>1 DEF IsTable
    <3>3. m # p /\ m # q
      BY <1>3, <3>1, <3>2 DEF IsTable
    <3>4. m = a
      BY <1>3, <2>1, <2>2, <3>3 DEF AtMostThree
    <3> QED BY <1>3, <2>1, <2>2, <3>2, <3>4 DEF IsTable
  <2>3. x # b /\ x # c
    BY <1>3, <2>2
  <2>4. x # a
    BY <1>3, <2>1, <2>3 DEF IsTable
  <2> QED BY <1>3, <2>1, <2>3, <2>4 DEF AtMostThree
<1>4. ASSUME NEW d \in E, NEW e \in E, d # e, d[1] = e[1],
             NEW x \in Reach(V, E, d[2]) \cap Reach(V, E, e[2])
      PROVE FALSE
  <2>1. x \in V
    BY DEF Reach
  <2>2. x = d[2] \/ <<d[2], x>> \in H
    BY <1>0, <1>1, <2>1
  <2>3. x = e[2] \/ <<e[2], x>> \in H
    BY <1>0, <1>1, <2>1
  <2>4. d[2] # e[2]
    BY <1>1, <1>4
  <2>5. <<d[1], d[2]>> \in E /\ <<d[1], e[2]>> \in E
    BY <1>1, <1>4
  <2>6. d[1] \in V /\ d[2] \in V /\ e[2] \in V
    BY <1>1
  <2> QED BY <1>3, <2>1, <2>2, <2>3, <2>4, <2>5, <2>6
<1> QED BY <1>2, <1>4 DEF Unique

(* One edge away: entries that are joined with a new edge were declared.     *)
LEMMA NextToEdge ==
  ASSUME NEW V, NEW E, NEW H, IsTable(V, E, H), AtMostThree(V),
         NEW a \in V, NEW b \in V, Admits(V, H, a, b)
  PROVE /\ \A s \in V : <<s, a>> \in H => <<s, a>> \in E /\ s # a /\ s # b
        /\ \A t \in V : <<b, t>> \in H => <<b, t>> \in E /\ t # a /\ t # b
<1>4. \A s, t \in V : <<s, t>> \in E => <<s, t>> \in H
  BY DEF IsTable
<1>5. \A s, t \in V : ~(<<s, t>> \in H /\ <<t, s>> \in H)
  BY DEF IsTable
<1>6. ASSUME NEW s \in V, <<s, a>> \in H
      PROVE <<s, a>> \in E /\ s # a /\ s # b
  <2>1. s # a /\ s # b /\ a # b
    BY <1>5, <1>6 DEF Admits
  <2>2. SUFFICES ASSUME <<s, a>> \notin E PROVE FALSE
    BY <2>1
  <2>3. PICK m \in V : <<s, m>> \in E /\ <<m, a>> \in E
    BY <1>6, <2>2 DEF IsTable
  <2>4. m # s /\ m # a
    BY <1>4, <1>5, <2>3
  <2>5. m = b
    BY <2>1, <2>4 DEF AtMostThree
  <2> QED BY <1>4, <2>3, <2>5 DEF Admits
<1>7. ASSUME NEW t \in V, <<b, t>> \in H
      PROVE <<b, t>> \in E /\ t # a /\ t # b
  <2>1. t # a /\ t # b /\ a # b
    BY <1>5, <1>7 DEF Admits
  <2>2. SUFFICES ASSUME <<b, t>> \notin E PROVE FALSE
    BY <2>1
  <2>3. PICK m \in V : <<b, m>> \in E /\ <<m, t>> \in E
    BY <1>7, <2>2 DEF IsTable
  <2>4. m # b /\ m # t
    BY <1>4, <1>5, <2>3
  <2>5. m = a
    BY <2>1, <2>4 DEF AtMostThree
  <2> QED BY <1>4, <2>3, <2>5 DEF Admits
<1> QED BY <1>6, <1>7

(* Adding an admitted edge to a table of at most three sorts makes the       *)
(* table of the edges with it.                                               *)
LEMMA TableGrows ==
  ASSUME NEW V, NEW E, NEW H, IsTable(V, E, H), AtMostThree(V),
         NEW a \in V, NEW b \in V, Admits(V, H, a, b)
  PROVE IsTable(V, E \cup {<<a, b>>}, Grown(V, H, a, b))
<1> DEFINE E2 == E \cup {<<a, b>>}
           H2 == Grown(V, H, a, b)
<1>1. E2 \subseteq V \X V /\ H2 \subseteq V \X V
  BY DEF IsTable, Grown
<1>2. \A s, t \in V : <<s, t>> \in E2 <=> (<<s, t>> \in E \/ (s = a /\ t = b))
  OBVIOUS
<1>3. \A s, t \in V : <<s, t>> \in H2 <=>
        (<<s, t>> \in H \/ (s = a /\ t = b) \/ (t = b /\ <<s, a>> \in H) \/ (s = a /\ <<b, t>> \in H))
  BY DEF Grown
<1>4. \A s, t \in V : <<s, t>> \in E => <<s, t>> \in H
  BY DEF IsTable
<1>5. \A s, t \in V : ~(<<s, t>> \in H /\ <<t, s>> \in H)
  BY DEF IsTable
(* Three sorts: what leads to a, or on from b, is one edge away. *)
<1>6. \A s \in V : <<s, a>> \in H => <<s, a>> \in E /\ s # a /\ s # b
  BY NextToEdge
<1>7. \A t \in V : <<b, t>> \in H => <<b, t>> \in E /\ t # a /\ t # b
  BY NextToEdge
<1>8. \A s, t \in V : <<s, t>> \in H2
        => (<<s, t>> \in E2 \/ \E m \in V : <<s, m>> \in E2 /\ <<m, t>> \in E2)
  <2> SUFFICES ASSUME NEW s \in V, NEW t \in V, <<s, t>> \in H2
               PROVE <<s, t>> \in E2 \/ \E m \in V : <<s, m>> \in E2 /\ <<m, t>> \in E2
    OBVIOUS
  <2>1. CASE <<s, t>> \in H
    BY <1>2, <2>1 DEF IsTable
  <2>2. CASE s = a /\ t = b
    BY <2>2
  <2>3. CASE t = b /\ <<s, a>> \in H
    BY <1>2, <1>6, <2>3
  <2>4. CASE s = a /\ <<b, t>> \in H
    BY <1>2, <1>7, <2>4
  <2> QED BY <1>3, <2>1, <2>2, <2>3, <2>4
<1>9. \A s, t \in V :
        (<<s, t>> \in E2 \/ \E m \in V : <<s, m>> \in E2 /\ <<m, t>> \in E2) => <<s, t>> \in H2
  <2>1. \A s, t \in V : <<s, t>> \in E2 => <<s, t>> \in H2
    BY <1>2, <1>3, <1>4
  <2>2. ASSUME NEW s \in V, NEW t \in V, NEW m \in V, <<s, m>> \in E2, <<m, t>> \in E2
        PROVE <<s, t>> \in H2
    <3>1. CASE <<s, m>> \in E /\ <<m, t>> \in E
      BY <1>3, <3>1 DEF IsTable
    <3>2. CASE <<s, m>> \in E /\ m = a /\ t = b
      BY <1>3, <1>4, <3>2
    <3>3. CASE s = a /\ m = b /\ <<m, t>> \in E
      BY <1>3, <1>4, <3>3
    <3>4. CASE s = a /\ m = b /\ m = a /\ t = b
      BY <3>4 DEF Admits
    <3> QED BY <1>2, <2>2, <3>1, <3>2, <3>3, <3>4
  <2> QED BY <2>1, <2>2
<1>10. ASSUME NEW s \in V, NEW t \in V, <<s, t>> \in H2, <<t, s>> \in H2
       PROVE FALSE
  <2>1. \A x, y \in V : <<x, y>> \in H2 =>
          \/ <<x, y>> \in H
          \/ x = a /\ y = b
          \/ y = b /\ <<x, a>> \in H /\ x # a /\ x # b
          \/ x = a /\ <<b, y>> \in H /\ y # a /\ y # b
    BY <1>3, <1>6, <1>7
  <2>2. a # b /\ <<b, a>> \notin H /\ <<a, b>> \notin H
    BY DEF Admits
  <2>3. \A x \in V : <<x, a>> \in H => <<x, b>> \notin H /\ <<b, x>> \notin H
    <3> SUFFICES ASSUME NEW x \in V, <<x, a>> \in H, <<b, x>> \in H PROVE FALSE
      BY DEF Admits
    <3>1. <<b, x>> \in E /\ <<x, a>> \in E
      BY <1>6, <1>7
    <3> QED BY <2>2, <3>1 DEF IsTable
  <2>4. \A x \in V : <<b, x>> \in H => <<a, x>> \notin H
    BY DEF Admits
  <2> QED BY <1>5, <1>10, <2>1, <2>2, <2>3, <2>4
<1>11. ASSUME NEW s \in V, NEW m \in V, NEW t \in V,
              <<s, m>> \in E2, <<m, t>> \in E2, <<s, t>> \in E2
       PROVE FALSE
  <2>1. a # b /\ <<b, a>> \notin H /\ <<a, b>> \notin H
    BY DEF Admits
  <2>2. CASE <<s, m>> \in E /\ <<m, t>> \in E /\ <<s, t>> \in E
    BY <2>2 DEF IsTable
  <2>3. CASE s = a /\ m = b
    BY <1>2, <1>4, <1>5, <1>11, <2>1, <2>3 DEF Admits
  <2>4. CASE m = a /\ t = b
    BY <1>2, <1>4, <1>5, <1>11, <2>1, <2>4 DEF Admits
  <2>5. CASE s = a /\ t = b /\ <<s, m>> \in E /\ <<m, t>> \in E
    BY <2>1, <2>5 DEF IsTable
  <2> QED BY <1>2, <1>11, <2>2, <2>3, <2>4, <2>5
<1> HIDE DEF E2, H2
<1>12. IsTable(V, E2, H2)
  BY <1>1, <1>8, <1>9, <1>10, <1>11 DEF IsTable
<1> QED BY <1>12 DEF E2, H2

(* A refused edge is in the table already, or would break uniqueness.        *)
LEMMA RefusedBreaks ==
  ASSUME NEW V, NEW E, NEW H, IsTable(V, E, H),
         NEW a \in V, NEW b \in V, ~Admits(V, H, a, b)
  PROVE <<a, b>> \in E \/ ~Unique(V, E \cup {<<a, b>>})
<1> DEFINE E2 == E \cup {<<a, b>>}
<1> SUFFICES ASSUME <<a, b>> \notin E, Unique(V, E2)
             PROVE FALSE
  OBVIOUS
<1>1. \A s, t \in V : <<s, t>> \in E2 <=> (<<s, t>> \in E \/ (s = a /\ t = b))
  OBVIOUS
<1>2. \A x \in V : \A y \in Reach(V, E2, x) : \A z \in V : <<y, z>> \in E2 => z \in Reach(V, E2, x)
  BY ReachStep
<1>3. \A x \in V : x \in Reach(V, E2, x)
  BY ReachSelf
(* An entry starts with an edge. *)
<1>4. ASSUME NEW s \in V, NEW t \in V, <<s, t>> \in H
      PROVE \E x \in V : <<s, x>> \in E /\ t \in Reach(V, E2, x) /\ (x = t \/ <<x, t>> \in E)
  BY <1>1, <1>2, <1>3, <1>4 DEF IsTable
<1>5. ASSUME NEW s \in V, NEW t \in V, <<s, t>> \in H
      PROVE t \in Reach(V, E2, s)
  <2>1. CASE <<s, t>> \in E
    BY <1>1, <1>2, <1>3, <2>1
  <2>2. CASE <<s, t>> \notin E
    <3>1. PICK m \in V : <<s, m>> \in E /\ <<m, t>> \in E
      BY <1>5, <2>2 DEF IsTable
    <3>2. m \in Reach(V, E2, s)
      BY <1>1, <1>2, <1>3, <3>1
    <3> QED BY <1>1, <1>2, <3>1, <3>2
  <2> QED BY <2>1, <2>2
<1>6. \A s, x, y \in V : \A z \in Reach(V, E2, x) \cap Reach(V, E2, y) :
        <<s, x>> \in E2 /\ <<s, y>> \in E2 => x = y
  <2> SUFFICES ASSUME NEW s \in V, NEW x \in V, NEW y \in V, NEW z \in Reach(V, E2, x) \cap Reach(V, E2, y),
                      <<s, x>> \in E2, <<s, y>> \in E2, x # y
               PROVE FALSE
    OBVIOUS
  <2>1. <<s, x>> # <<s, y>>
    OBVIOUS
  <2>2. Reach(V, E2, <<s, x>>[2]) \cap Reach(V, E2, <<s, y>>[2]) = {}
    BY <2>1 DEF Unique
  <2> QED BY <2>2
<1>7. a \notin Reach(V, E2, b)
  <2>1. <<a, b>>[1] \notin Reach(V, E2, <<a, b>>[2])
    BY DEF Unique
  <2> QED BY <2>1
<1>8. a # b
  BY <1>3, <1>7
<1>9. <<b, a>> \notin H
  BY <1>5, <1>7
<1>10. <<a, b>> \notin H
  BY <1>1, <1>3, <1>4, <1>6
<1>11. ASSUME NEW s \in V, <<s, a>> \in H, <<s, b>> \in H
       PROVE FALSE
  <2>1. PICK x \in V : <<s, x>> \in E /\ a \in Reach(V, E2, x) /\ (x = a \/ <<x, a>> \in E)
    BY <1>4, <1>11
  <2>2. PICK y \in V : <<s, y>> \in E /\ b \in Reach(V, E2, y) /\ (y = b \/ <<y, b>> \in E)
    BY <1>4, <1>11
  <2>3. b \in Reach(V, E2, x)
    BY <1>1, <1>2, <2>1
  <2>4. x = y
    BY <1>1, <1>6, <2>1, <2>2, <2>3
  <2>5. x # a
    BY <1>8, <2>2, <2>4
  <2>6. y # b
    BY <1>7, <2>1, <2>4
  <2>7. <<x, a>> \in E2 /\ <<x, b>> \in E2
    BY <1>1, <2>1, <2>2, <2>4, <2>5, <2>6
  <2>8. b \in Reach(V, E2, a) /\ b \in Reach(V, E2, b)
    BY <1>1, <1>2, <1>3
  <2> QED BY <1>6, <1>8, <2>7, <2>8
<1>12. ASSUME NEW t \in V, <<b, t>> \in H, <<a, t>> \in H
       PROVE FALSE
  <2>1. t \in Reach(V, E2, b)
    BY <1>5, <1>12
  <2>2. PICK x \in V : <<a, x>> \in E /\ t \in Reach(V, E2, x) /\ (x = t \/ <<x, t>> \in E)
    BY <1>4, <1>12
  <2>3. x = b
    BY <1>1, <1>6, <2>1, <2>2
  <2> QED BY <2>2, <2>3
<1> QED BY <1>8, <1>9, <1>10, <1>11, <1>12 DEF Admits

-----------------------------------------------------------------------------
(* The table of mm0-c. *)

CColumn == C!Sort \cup {C!PROV}
CEntries == {p \in C!Known \X C!Known : C!Has(p[1], p[2])}

(* The sorts seen so far, and entries for these only. *)
CType ==
  /\ num_sorts \in 0..NumSorts
  /\ coes \in [C!Sort \X CColumn -> [tag : {"empty", "one", "trans", "prov"}, trans : Nat]]
  /\ declared \subseteq C!Known \X C!Known
  /\ provable \subseteq C!Known
  /\ failed \in BOOLEAN
  /\ failed => num_sorts > 0
  /\ \A s \in C!Sort : \A t \in CColumn :
       C!Has(s, t) => s \in C!Known /\ t \in C!Known \cup {C!PROV}

(* An entry is a declared coercion, or goes through a sort one coercion      *)
(* away from both.                                                          *)
CSteps ==
  /\ IsTable(C!Known, declared, CEntries)
  /\ \A s, t \in C!Known : <<s, t>> \in declared => coes[<<s, t>>].tag = "one"
  /\ \A s, t \in C!Known : C!Has(s, t) /\ <<s, t>> \notin declared =>
       /\ coes[<<s, t>>].tag = "trans"
       /\ <<s, coes[<<s, t>>].trans>> \in declared
       /\ <<coes[<<s, t>>].trans, t>> \in declared

(* The column PROV: a provable sort, or the first coercion towards one. No   *)
(* coercion joins two provable sorts.                                       *)
CProv ==
  /\ \A s \in C!Known : s \in provable <=> coes[<<s, C!PROV>>].tag = "prov"
  /\ \A s \in C!Known : C!Has(s, C!PROV) /\ s \notin provable =>
       /\ coes[<<s, C!PROV>>].tag = "trans"
       /\ <<s, coes[<<s, C!PROV>>].trans>> \in declared
       /\ C!Has(coes[<<s, C!PROV>>].trans, C!PROV)
  /\ \A s, t \in C!Known : <<s, t>> \in declared /\ t \in provable =>
       s \notin provable /\ C!Has(s, C!PROV)

CInv == CType /\ CProv /\ (num_sorts <= 3 => CSteps)

(* The table after a declaration, entry by entry. *)
LEMMA CExtended ==
  ASSUME CType, NEW s1, NEW s2, C!DeclareCoercion(s1, s2)
  PROVE /\ coes' \in [C!Sort \X CColumn -> [tag : {"empty", "one", "trans", "prov"}, trans : Nat]]
        /\ \A s \in C!Sort : \A t \in CColumn :
             coes'[<<s, t>>] =
               IF t = s2 /\ s \in C!Lefts(s1) THEN C!TRANS(s1)
               ELSE IF s = s1 /\ t = s2 THEN C!ONE
               ELSE IF s = s1 /\ (t \in C!Rights(s2) \/ (t = C!PROV /\ C!Has(s2, C!PROV))) THEN C!TRANS(s2)
               ELSE coes[<<s, t>>]
<1>1. s1 \in Nat /\ s2 \in Nat
  BY DEF C!DeclareCoercion, C!Known, CType
<1>2. DOMAIN coes = C!Sort \X CColumn
  BY DEF CType
<1>3. coes' = C!Extended(s1, s2)
  BY DEF C!DeclareCoercion
<1>4. coes' = [p \in C!Sort \X CColumn |->
     IF p[2] = s2 /\ p[1] \in C!Lefts(s1) THEN C!TRANS(s1)
     ELSE IF p = <<s1, s2>> THEN C!ONE
     ELSE IF p[1] = s1 /\ (p[2] \in C!Rights(s2) \/ (p[2] = C!PROV /\ C!Has(s2, C!PROV))) THEN C!TRANS(s2)
     ELSE coes[p]]
  BY <1>2, <1>3 DEF C!Extended
<1>5. C!TRANS(s1) \in [tag : {"empty", "one", "trans", "prov"}, trans : Nat]
  BY <1>1 DEF C!TRANS
<1>6. C!TRANS(s2) \in [tag : {"empty", "one", "trans", "prov"}, trans : Nat]
  BY <1>1 DEF C!TRANS
<1>7. C!ONE \in [tag : {"empty", "one", "trans", "prov"}, trans : Nat]
  BY DEF C!ONE
<1>8. \A p \in C!Sort \X CColumn : coes[p] \in [tag : {"empty", "one", "trans", "prov"}, trans : Nat]
  BY DEF CType
<1>9. coes' \in [C!Sort \X CColumn -> [tag : {"empty", "one", "trans", "prov"}, trans : Nat]]
  BY <1>4, <1>5, <1>6, <1>7, <1>8
<1>10. ASSUME NEW s \in C!Sort, NEW t \in CColumn
       PROVE coes'[<<s, t>>] =
               IF t = s2 /\ s \in C!Lefts(s1) THEN C!TRANS(s1)
               ELSE IF s = s1 /\ t = s2 THEN C!ONE
               ELSE IF s = s1 /\ (t \in C!Rights(s2) \/ (t = C!PROV /\ C!Has(s2, C!PROV))) THEN C!TRANS(s2)
               ELSE coes[<<s, t>>]
  BY <1>4, <1>10
<1> QED BY <1>9, <1>10

(* A sort without edges changes no table. *)
LEMMA TableWider ==
  ASSUME NEW V, NEW E, NEW H, IsTable(V, E, H), NEW W, V \subseteq W
  PROVE IsTable(W, E, H)
<1>1. E \subseteq V \X V /\ H \subseteq V \X V
  BY DEF IsTable
<1>2. \A s, t \in W : <<s, t>> \in E \/ <<s, t>> \in H => s \in V /\ t \in V
  BY <1>1
<1>3. E \subseteq W \X W /\ H \subseteq W \X W
  BY <1>1
<1>4. \A s, t \in W : <<s, t>> \in H
       <=> (<<s, t>> \in E \/ \E m \in W : <<s, m>> \in E /\ <<m, t>> \in E)
  BY <1>2 DEF IsTable
<1>5. \A s, t \in W : ~(<<s, t>> \in H /\ <<t, s>> \in H)
  BY <1>2 DEF IsTable
<1>6. \A s, m, t \in W : ~(<<s, m>> \in E /\ <<m, t>> \in E /\ <<s, t>> \in E)
  BY <1>2 DEF IsTable
<1> QED BY <1>3, <1>4, <1>5, <1>6 DEF IsTable

LEMMA CKnown ==
  ASSUME CType
  PROVE /\ C!Known \subseteq C!Sort
        /\ C!Known \subseteq CColumn
        /\ C!PROV \in CColumn
        /\ C!PROV \notin C!Sort
        /\ C!Sort \subseteq CColumn
        /\ C!Known \subseteq Nat
BY CoercionsAssumption DEF CType, C!Known, C!Sort, C!PROV, CColumn

LEMMA CThree ==
  ASSUME num_sorts \in Nat, num_sorts <= 3
  PROVE AtMostThree(C!Known)
BY DEF AtMostThree, C!Known

LEMMA CSortKeeps ==
  ASSUME CInv, NEW p \in BOOLEAN, C!DeclareSort(p)
  PROVE CInv'
<1> USE DEF CInv
<1>0. num_sorts \in Nat /\ NumSorts \in Nat
  BY CoercionsAssumption DEF CType
<1>1. num_sorts \in C!Sort /\ num_sorts' = num_sorts + 1 /\ num_sorts' \in 0..NumSorts
  BY CoercionsAssumption DEF CType, C!DeclareSort, C!Sort
<1>2. C!Known' = C!Known \cup {num_sorts} /\ num_sorts \notin C!Known /\ C!Known' \subseteq C!Sort
  BY <1>0, <1>1 DEF C!Known, C!Sort
<1>3. UNCHANGED <<declared, failed>> /\ provable' = IF p THEN provable \cup {num_sorts} ELSE provable
  BY DEF C!DeclareSort
<1>4. coes' = IF p THEN [coes EXCEPT ![<<num_sorts, C!PROV>>] = C!PROVABLE] ELSE coes
  BY DEF C!DeclareSort
<1>5. coes' \in [C!Sort \X CColumn -> [tag : {"empty", "one", "trans", "prov"}, trans : Nat]]
  BY <1>1, <1>4, CKnown DEF CType, C!PROVABLE
<1>6. \A s \in C!Sort : \A t \in CColumn :
        coes'[<<s, t>>] = IF p /\ s = num_sorts /\ t = C!PROV THEN C!PROVABLE ELSE coes[<<s, t>>]
  BY <1>1, <1>4, CKnown DEF CType
<1>7. \A s \in C!Sort : \A t \in CColumn :
        C!Has(s, t)' <=> C!Has(s, t) \/ (p /\ s = num_sorts /\ t = C!PROV)
  <2> SUFFICES ASSUME NEW s \in C!Sort, NEW t \in CColumn
               PROVE coes'[<<s, t>>].tag # "empty"
                       <=> coes[<<s, t>>].tag # "empty" \/ (p /\ s = num_sorts /\ t = C!PROV)
    BY DEF C!Has
  <2>1. CASE p /\ s = num_sorts /\ t = C!PROV
    BY <1>6, <2>1 DEF C!PROVABLE
  <2>2. CASE ~(p /\ s = num_sorts /\ t = C!PROV)
    BY <1>6, <2>2
  <2> QED BY <2>1, <2>2
<1>8. \A s \in C!Sort : \A t \in CColumn : C!Has(s, t) => s \in C!Known /\ t \in C!Known \cup {C!PROV}
  BY DEF CType
<1>9. CType'
  <2>1. (declared \subseteq C!Known \X C!Known)' /\ (provable \subseteq C!Known)'
    BY <1>2, <1>3 DEF CType
  <2>2. (failed \in BOOLEAN)' /\ (failed => num_sorts > 0)'
    BY <1>1, <1>3 DEF CType
  <2>3. (\A s \in C!Sort : \A t \in CColumn :
           C!Has(s, t) => s \in C!Known /\ t \in C!Known \cup {C!PROV})'
    <3> SUFFICES ASSUME NEW s \in C!Sort, NEW t \in CColumn, C!Has(s, t)'
                 PROVE s \in C!Known' /\ t \in C!Known' \cup {C!PROV}
      BY DEF CColumn, C!Sort, C!PROV
    <3> QED BY <1>2, <1>7, <1>8
  <2> QED BY <1>1, <1>5, <2>1, <2>2, <2>3 DEF CType, C!Sort, CColumn, C!PROV
<1>10. CProv'
  <2>1. (\A s \in C!Known : s \in provable <=> coes[<<s, C!PROV>>].tag = "prov")'
    <3> SUFFICES ASSUME NEW s \in C!Known'
                 PROVE s \in provable' <=> coes'[<<s, C!PROV>>].tag = "prov"
      BY DEF C!PROV
    <3>1. CASE s \in C!Known
      BY <1>2, <1>3, <1>6, <3>1, CKnown DEF CProv
    <3>2. CASE s = num_sorts
      <4>1. ~C!Has(s, C!PROV) /\ s \notin provable
        BY <1>1, <1>2, <1>8, <3>2, CKnown DEF CType
      <4> QED BY <1>1, <1>3, <1>6, <3>2, <4>1, CKnown DEF C!Has, C!PROVABLE
    <3> QED BY <1>2, <3>1, <3>2
  <2>2. (\A s \in C!Known : C!Has(s, C!PROV) /\ s \notin provable =>
           /\ coes[<<s, C!PROV>>].tag = "trans"
           /\ <<s, coes[<<s, C!PROV>>].trans>> \in declared
           /\ C!Has(coes[<<s, C!PROV>>].trans, C!PROV))'
    <3> SUFFICES ASSUME NEW s \in C!Known', C!Has(s, C!PROV)', s \notin provable'
                 PROVE /\ coes'[<<s, C!PROV>>].tag = "trans"
                       /\ <<s, coes'[<<s, C!PROV>>].trans>> \in declared'
                       /\ coes'[<<coes'[<<s, C!PROV>>].trans, C!PROV>>].tag # "empty"
      BY DEF C!PROV, C!Has
    <3>1. s \in C!Known /\ C!Has(s, C!PROV) /\ s \notin provable
      BY <1>1, <1>2, <1>3, <1>7, <1>8, CKnown
    <3>2. coes'[<<s, C!PROV>>] = coes[<<s, C!PROV>>]
      BY <1>2, <1>6, <3>1, CKnown
    <3>3. <<s, coes[<<s, C!PROV>>].trans>> \in declared /\ coes[<<s, C!PROV>>].tag = "trans"
          /\ C!Has(coes[<<s, C!PROV>>].trans, C!PROV)
      BY <3>1 DEF CProv
    <3>4. coes[<<s, C!PROV>>].trans \in C!Known
      BY <3>3 DEF CType
    <3>5. \A m \in C!Known : C!Has(m, C!PROV) => coes'[<<m, C!PROV>>].tag # "empty"
      BY <1>7, CKnown DEF C!Has
    <3>6. coes'[<<coes[<<s, C!PROV>>].trans, C!PROV>>].tag # "empty"
      BY <3>3, <3>4, <3>5
    <3> QED BY <1>3, <3>2, <3>3, <3>6
  <2>3. (\A s, t \in C!Known : <<s, t>> \in declared /\ t \in provable =>
           s \notin provable /\ C!Has(s, C!PROV))'
    <3> SUFFICES ASSUME NEW s \in C!Known', NEW t \in C!Known', <<s, t>> \in declared', t \in provable'
                 PROVE s \notin provable' /\ C!Has(s, C!PROV)'
      BY DEF C!PROV, C!Has
    <3>1. s \in C!Known /\ t \in C!Known
      BY <1>3 DEF CType
    <3>2. t \in provable
      BY <1>2, <1>3, <3>1
    <3>3. s \notin provable /\ C!Has(s, C!PROV)
      BY <1>3, <3>1, <3>2 DEF CProv
    <3> QED BY <1>2, <1>3, <1>7, <3>1, <3>3, CKnown
  <2> QED BY <2>1, <2>2, <2>3 DEF CProv
<1>11. ASSUME num_sorts' <= 3
       PROVE CSteps'
  <2>1. CSteps
    BY <1>1, <1>11 DEF CType
  <2>2. CEntries' = CEntries
    <3>1. \A s, t \in C!Known' : C!Has(s, t)' <=> s \in C!Known /\ t \in C!Known /\ C!Has(s, t)
      BY <1>2, <1>7, <1>8, CKnown
    <3>2. CEntries' = {q \in C!Known' \X C!Known' : C!Has(q[1], q[2])'}
      BY DEF CEntries, C!Has
    <3> QED BY <1>2, <3>1, <3>2 DEF CEntries
  <2>3. IsTable(C!Known', declared', CEntries')
    BY <1>2, <1>3, <2>1, <2>2, TableWider DEF CSteps
  <2>4. \A s, t \in C!Known' : C!Has(s, t)' \/ <<s, t>> \in declared' => s \in C!Known /\ t \in C!Known
    BY <1>2, <1>3, <1>7, <1>8, CKnown DEF CType
  <2>5. \A s, t \in C!Known : coes'[<<s, t>>] = coes[<<s, t>>] /\ (C!Has(s, t)' <=> C!Has(s, t))
    BY <1>6, <1>7, CKnown
  <2>6. (\A s, t \in C!Known : <<s, t>> \in declared => coes[<<s, t>>].tag = "one")'
    BY <1>3, <2>1, <2>4, <2>5 DEF CSteps
  <2>7. \A s, t \in C!Known' : C!Has(s, t)' /\ <<s, t>> \notin declared' =>
          /\ coes'[<<s, t>>].tag = "trans"
          /\ <<s, coes'[<<s, t>>].trans>> \in declared'
          /\ <<coes'[<<s, t>>].trans, t>> \in declared'
    BY <1>3, <2>1, <2>4, <2>5 DEF CSteps
  <2> QED BY <2>3, <2>6, <2>7 DEF CSteps, IsTable, C!Has
<1> QED BY <1>9, <1>10, <1>11

(* What the loops of KW_COERCION test is what TableGrows asks for, and they  *)
(* extend the table as it says.                                             *)
LEMMA CAdmits ==
  ASSUME CType, NEW s1 \in C!Known, NEW s2 \in C!Known
  PROVE /\ Admits(C!Known, CEntries, s1, s2)
             => C!NoCycleSeen(s1, s2)
        /\ C!NoCycleSeen(s1, s2) /\ C!NoDiamondSeen(s1, s2)
             => Admits(C!Known, CEntries, s1, s2)
        /\ Admits(C!Known, CEntries, s1, s2) /\ ~(C!Has(s2, C!PROV) /\ C!Has(s1, C!PROV))
             => C!NoDiamondSeen(s1, s2)
<1>1. \A s, t \in C!Known : <<s, t>> \in CEntries <=> C!Has(s, t)
  BY DEF CEntries
<1>2. \A s, t \in C!Known : (s \in C!Lefts(t) <=> C!Has(s, t)) /\ (t \in C!Rights(s) <=> C!Has(s, t))
  BY DEF C!Lefts, C!Rights
<1>3. \A s, t : s \in C!Lefts(t) \/ s \in C!Rights(t) => s \in C!Known
  BY DEF C!Lefts, C!Rights
<1>4. C!NoCycleSeen(s1, s2) <=> (~C!Has(s2, s1) /\ s1 # s2)
  BY <1>2 DEF C!NoCycleSeen
<1>5. C!NoDiamondSeen(s1, s2) <=>
        /\ \A s \in C!Known : C!Has(s, s1) => ~C!Has(s, s2)
        /\ ~C!Has(s1, s2)
        /\ \A t \in C!Known : C!Has(s2, t) => ~C!Has(s1, t)
        /\ ~(C!Has(s2, C!PROV) /\ C!Has(s1, C!PROV))
  BY <1>2, <1>3 DEF C!NoDiamondSeen
<1>6. Admits(C!Known, CEntries, s1, s2) <=>
        /\ s1 # s2 /\ ~C!Has(s2, s1) /\ ~C!Has(s1, s2)
        /\ \A s \in C!Known : C!Has(s, s1) => ~C!Has(s, s2)
        /\ \A t \in C!Known : C!Has(s2, t) => ~C!Has(s1, t)
  BY <1>1 DEF Admits
<1> QED BY <1>4, <1>5, <1>6

(* The pairs of known sorts after a declaration. *)
LEMMA CGrows ==
  ASSUME CType, NEW s1, NEW s2, C!DeclareCoercion(s1, s2)
  PROVE /\ s1 \in C!Known /\ s2 \in C!Known
        /\ Admits(C!Known, CEntries, s1, s2)
        /\ CEntries' = Grown(C!Known, CEntries, s1, s2)
        /\ \A s, t \in C!Known :
             coes'[<<s, t>>] =
               IF t = s2 /\ C!Has(s, s1) THEN C!TRANS(s1)
               ELSE IF s = s1 /\ t = s2 THEN C!ONE
               ELSE IF s = s1 /\ C!Has(s2, t) THEN C!TRANS(s2)
               ELSE coes[<<s, t>>]
<1>1. s1 \in C!Known /\ s2 \in C!Known
  BY DEF C!DeclareCoercion
<1>2. Admits(C!Known, CEntries, s1, s2)
  BY <1>1, CAdmits DEF C!DeclareCoercion
<1>3. ASSUME NEW s \in C!Known, NEW t \in C!Known
      PROVE coes'[<<s, t>>] =
               IF t = s2 /\ C!Has(s, s1) THEN C!TRANS(s1)
               ELSE IF s = s1 /\ t = s2 THEN C!ONE
               ELSE IF s = s1 /\ C!Has(s2, t) THEN C!TRANS(s2)
               ELSE coes[<<s, t>>]
  <2>1. s \in C!Sort /\ t \in CColumn /\ t # C!PROV
    BY CKnown
  <2>2. (s \in C!Lefts(s1) <=> C!Has(s, s1)) /\ (t \in C!Rights(s2) <=> C!Has(s2, t))
    BY DEF C!Lefts, C!Rights
  <2> QED BY <2>1, <2>2, CExtended
<1>4. C!Known' = C!Known
  BY DEF C!DeclareCoercion, C!Known
<1>5. C!TRANS(s1).tag # "empty" /\ C!TRANS(s2).tag # "empty" /\ C!ONE.tag # "empty"
  BY DEF C!TRANS, C!ONE
<1>6. \A s, t \in C!Known : coes'[<<s, t>>].tag # "empty" <=>
        (C!Has(s, t) \/ (s = s1 /\ t = s2) \/ (t = s2 /\ C!Has(s, s1)) \/ (s = s1 /\ C!Has(s2, t)))
  BY <1>3, <1>5 DEF C!Has
<1>7. CEntries' = {p \in C!Known \X C!Known : coes'[<<p[1], p[2]>>].tag # "empty"}
  BY <1>4 DEF CEntries, C!Has
<1>8. \A p \in C!Known \X C!Known : p \in CEntries' <=> p \in Grown(C!Known, CEntries, s1, s2)
  <2> SUFFICES ASSUME NEW s \in C!Known, NEW t \in C!Known
               PROVE <<s, t>> \in CEntries' <=> <<s, t>> \in Grown(C!Known, CEntries, s1, s2)
    OBVIOUS
  <2>1. \A x, y \in C!Known : <<x, y>> \in CEntries <=> C!Has(x, y)
    BY DEF CEntries
  <2>2. <<s, t>> \in CEntries' <=> coes'[<<s, t>>].tag # "empty"
    BY <1>7
  <2>3. <<s, t>> \in Grown(C!Known, CEntries, s1, s2) <=>
          (<<s, t>> \in CEntries \/ (s = s1 /\ t = s2) \/ (t = s2 /\ <<s, s1>> \in CEntries)
            \/ (s = s1 /\ <<s2, t>> \in CEntries))
    BY <1>1 DEF Grown
  <2> QED BY <1>1, <1>6, <2>1, <2>2, <2>3
<1>9. CEntries' \subseteq C!Known \X C!Known /\ Grown(C!Known, CEntries, s1, s2) \subseteq C!Known \X C!Known
  BY <1>7 DEF Grown, CEntries
<1>10. CEntries' = Grown(C!Known, CEntries, s1, s2)
  BY <1>8, <1>9
<1> QED BY <1>1, <1>2, <1>3, <1>10

LEMMA CCoercionKeepsType ==
  ASSUME CInv, NEW s1, NEW s2, C!DeclareCoercion(s1, s2)
  PROVE CType'
<1> USE DEF CInv
<1>1. s1 \in C!Known /\ s2 \in C!Known
  BY DEF C!DeclareCoercion
<1>2. UNCHANGED <<num_sorts, provable, failed>> /\ declared' = declared \cup {<<s1, s2>>}
  BY DEF C!DeclareCoercion
<1>3. C!Known' = C!Known
  BY <1>2 DEF C!Known
<1>4. ASSUME NEW s \in C!Sort, NEW t \in CColumn, coes'[<<s, t>>].tag # "empty"
      PROVE s \in C!Known /\ t \in C!Known \cup {C!PROV}
  <2>1. C!Has(s, t) \/ (t = s2 /\ s \in C!Lefts(s1))
        \/ (s = s1 /\ (t = s2 \/ t \in C!Rights(s2) \/ t = C!PROV))
    <3>1. CType
      OBVIOUS
    <3>2. coes'[<<s, t>>] =
            IF t = s2 /\ s \in C!Lefts(s1) THEN C!TRANS(s1)
            ELSE IF s = s1 /\ t = s2 THEN C!ONE
            ELSE IF s = s1 /\ (t \in C!Rights(s2) \/ (t = C!PROV /\ C!Has(s2, C!PROV))) THEN C!TRANS(s2)
            ELSE coes[<<s, t>>]
      BY <1>4, <3>1, CExtended
    <3> QED BY <1>4, <3>2 DEF C!Has
  <2>2. C!Has(s, t) => s \in C!Known /\ t \in C!Known \cup {C!PROV}
    BY DEF CType
  <2> QED BY <1>1, <2>1, <2>2 DEF C!Lefts, C!Rights
<1>5. (\A s \in C!Sort : \A t \in CColumn :
        C!Has(s, t) => s \in C!Known /\ t \in C!Known \cup {C!PROV})'
  BY <1>3, <1>4 DEF C!Has, C!Sort, CColumn, C!PROV
<1>6. coes' \in [C!Sort \X CColumn -> [tag : {"empty", "one", "trans", "prov"}, trans : Nat]]
  BY CExtended
<1>7. (coes \in [C!Sort \X CColumn -> [tag : {"empty", "one", "trans", "prov"}, trans : Nat]])'
  BY <1>6 DEF C!Sort, CColumn, C!PROV
<1>8. declared' \subseteq C!Known' \X C!Known' /\ provable' \subseteq C!Known'
  BY <1>1, <1>2, <1>3 DEF CType
<1>9. num_sorts' \in 0..NumSorts /\ failed' \in BOOLEAN /\ (failed' => num_sorts' > 0)
  BY <1>2 DEF CType
<1> QED BY <1>5, <1>7, <1>8, <1>9 DEF CType

LEMMA CCoercionKeepsProv ==
  ASSUME CInv, NEW s1, NEW s2, C!DeclareCoercion(s1, s2)
  PROVE CProv'
<1> USE DEF CInv
<1>1. s1 \in C!Known /\ s2 \in C!Known /\ s1 # s2
  BY CGrows DEF Admits
<1>2. UNCHANGED <<num_sorts, provable, failed>> /\ declared' = declared \cup {<<s1, s2>>}
  BY DEF C!DeclareCoercion
<1>3. C!Known' = C!Known
  BY <1>2 DEF C!Known
<1>4. ~(C!Has(s2, C!PROV) /\ C!Has(s1, C!PROV))
  BY DEF C!DeclareCoercion, C!NoDiamondSeen
<1>5. \A s \in C!Known :
        coes'[<<s, C!PROV>>] = IF s = s1 /\ C!Has(s2, C!PROV) THEN C!TRANS(s2) ELSE coes[<<s, C!PROV>>]
  <2>1. \A s : s \in C!Lefts(s1) \/ s \in C!Rights(s2) => s \in C!Known
    BY DEF C!Lefts, C!Rights
  <2>2. s2 # C!PROV /\ C!PROV \notin C!Rights(s2)
    BY <1>1, <2>1, CKnown
  <2> QED BY <2>2, CExtended, CKnown
<1>6. \A s \in C!Known : coes'[<<s, C!PROV>>].tag # "empty" <=> C!Has(s, C!PROV) \/ (s = s1 /\ C!Has(s2, C!PROV))
  BY <1>5 DEF C!Has, C!TRANS
<1>7. \A s \in C!Known : (s \in provable <=> coes[<<s, C!PROV>>].tag = "prov")
                         /\ (s \in provable => C!Has(s, C!PROV))
  BY DEF CProv, C!Has
<1>8. \A s \in C!Known : s \in provable' <=> coes'[<<s, C!PROV>>].tag = "prov"
  BY <1>1, <1>2, <1>4, <1>5, <1>7 DEF C!TRANS
<1>9. ASSUME NEW s \in C!Known, coes'[<<s, C!PROV>>].tag # "empty", s \notin provable'
      PROVE /\ coes'[<<s, C!PROV>>].tag = "trans"
            /\ <<s, coes'[<<s, C!PROV>>].trans>> \in declared'
            /\ coes'[<<coes'[<<s, C!PROV>>].trans, C!PROV>>].tag # "empty"
  <2>1. CASE s = s1 /\ C!Has(s2, C!PROV)
    <3>1. coes'[<<s, C!PROV>>].tag = "trans" /\ coes'[<<s, C!PROV>>].trans = s2
      BY <1>5, <2>1 DEF C!TRANS
    <3> QED BY <1>1, <1>2, <1>6, <2>1, <3>1
  <2>2. CASE ~(s = s1 /\ C!Has(s2, C!PROV))
    <3>1. coes'[<<s, C!PROV>>] = coes[<<s, C!PROV>>] /\ C!Has(s, C!PROV)
      BY <1>5, <1>6, <1>9, <2>2
    <3>2. /\ coes[<<s, C!PROV>>].tag = "trans"
          /\ <<s, coes[<<s, C!PROV>>].trans>> \in declared
          /\ C!Has(coes[<<s, C!PROV>>].trans, C!PROV)
      BY <1>2, <1>9, <3>1 DEF CProv
    <3>3. coes[<<s, C!PROV>>].trans \in C!Known
      BY <3>2 DEF CType
    <3> QED BY <1>2, <1>6, <3>1, <3>2, <3>3
  <2> QED BY <2>1, <2>2
<1>10. ASSUME NEW s \in C!Known, NEW t \in C!Known, <<s, t>> \in declared', t \in provable'
       PROVE s \notin provable' /\ coes'[<<s, C!PROV>>].tag # "empty"
  <2>1. CASE <<s, t>> \in declared
    BY <1>2, <1>6, <1>10, <2>1 DEF CProv
  <2>2. CASE s = s1 /\ t = s2
    BY <1>2, <1>4, <1>6, <1>7, <1>10, <2>2
  <2> QED BY <1>2, <1>10, <2>1, <2>2
<1>11. \A s, t \in C!Known' : <<s, t>> \in declared' /\ t \in provable' =>
         s \notin provable' /\ coes'[<<s, C!PROV>>].tag # "empty"
  BY <1>3, <1>10
<1> QED BY <1>3, <1>8, <1>9, <1>11 DEF CProv, C!Has, C!PROV

LEMMA CCoercionKeepsSteps ==
  ASSUME CInv, num_sorts <= 3, NEW s1, NEW s2, C!DeclareCoercion(s1, s2)
  PROVE CSteps'
<1> DEFINE V == C!Known
<1>1. CType /\ CSteps /\ AtMostThree(V)
  BY CThree DEF CInv, CType
<1>2. s1 \in V /\ s2 \in V /\ Admits(V, CEntries, s1, s2) /\ CEntries' = Grown(V, CEntries, s1, s2)
  BY <1>1, CGrows
<1>3. UNCHANGED <<num_sorts, provable, failed>> /\ declared' = declared \cup {<<s1, s2>>} /\ V' = V
  BY DEF C!DeclareCoercion, C!Known
<1>4. IsTable(V, declared', CEntries')
  BY <1>1, <1>2, <1>3, TableGrows DEF CSteps
<1>5. /\ \A s \in V : <<s, s1>> \in CEntries => <<s, s1>> \in declared /\ s # s1 /\ s # s2
      /\ \A t \in V : <<s2, t>> \in CEntries => <<s2, t>> \in declared /\ t # s1 /\ t # s2
  BY <1>1, <1>2, NextToEdge DEF CSteps
<1>6. \A s, t \in V : <<s, t>> \in CEntries <=> C!Has(s, t)
  BY DEF CEntries
<1>7. \A s, t \in V :
        coes'[<<s, t>>] =
          IF t = s2 /\ <<s, s1>> \in CEntries THEN C!TRANS(s1)
          ELSE IF s = s1 /\ t = s2 THEN C!ONE
          ELSE IF s = s1 /\ <<s2, t>> \in CEntries THEN C!TRANS(s2)
          ELSE coes[<<s, t>>]
  <2> SUFFICES ASSUME NEW s \in V, NEW t \in V
               PROVE coes'[<<s, t>>] =
                       IF t = s2 /\ C!Has(s, s1) THEN C!TRANS(s1)
                       ELSE IF s = s1 /\ t = s2 THEN C!ONE
                       ELSE IF s = s1 /\ C!Has(s2, t) THEN C!TRANS(s2)
                       ELSE coes[<<s, t>>]
    BY <1>2, <1>6
  <2> QED BY <1>1, CGrows
<1>8. \A s, t \in V : <<s, t>> \in declared => <<s, t>> \in CEntries /\ coes[<<s, t>>].tag = "one"
  BY <1>1 DEF CSteps, IsTable
<1>9. ASSUME NEW s \in V, NEW t \in V, <<s, t>> \in declared'
      PROVE coes'[<<s, t>>].tag = "one"
  <2>1. CASE s = s1 /\ t = s2
    <3>1. <<s, s1>> \notin CEntries
      BY <1>2, <1>5, <2>1
    <3>2. coes'[<<s, t>>] = C!ONE
      BY <1>7, <2>1, <3>1
    <3> QED BY <3>2 DEF C!ONE
  <2>2. CASE <<s, t>> \in declared
    BY <1>2, <1>7, <1>8, <2>2 DEF Admits
  <2> QED BY <1>3, <1>9, <2>1, <2>2
<1>10. ASSUME NEW s \in V, NEW t \in V, coes'[<<s, t>>].tag # "empty", <<s, t>> \notin declared'
       PROVE /\ coes'[<<s, t>>].tag = "trans"
             /\ <<s, coes'[<<s, t>>].trans>> \in declared'
             /\ <<coes'[<<s, t>>].trans, t>> \in declared'
  <2>1. CASE t = s2 /\ <<s, s1>> \in CEntries
    <3>1. coes'[<<s, t>>] = C!TRANS(s1)
      BY <1>7, <2>1
    <3> QED BY <1>2, <1>3, <1>5, <2>1, <3>1 DEF C!TRANS
  <2>2. CASE s = s1 /\ t = s2
    BY <1>3, <1>10, <2>2
  <2>3. CASE s = s1 /\ <<s2, t>> \in CEntries
    <3>1. coes'[<<s, t>>] = C!TRANS(s2)
      BY <1>2, <1>5, <1>7, <2>3
    <3> QED BY <1>2, <1>3, <1>5, <2>3, <3>1 DEF C!TRANS
  <2>4. CASE ~(t = s2 /\ <<s, s1>> \in CEntries) /\ ~(s = s1 /\ t = s2) /\ ~(s = s1 /\ <<s2, t>> \in CEntries)
    <3>1. coes'[<<s, t>>] = coes[<<s, t>>]
      BY <1>7, <2>4
    <3>2. C!Has(s, t) /\ <<s, t>> \notin declared
      BY <1>3, <1>10, <3>1 DEF C!Has
    <3> QED BY <1>1, <1>3, <3>1, <3>2 DEF CSteps
  <2> QED BY <2>1, <2>2, <2>3, <2>4
<1>11. IsTable(V', declared', CEntries')
  BY <1>3, <1>4
<1>12. (\A s, t \in V : <<s, t>> \in declared => coes[<<s, t>>].tag = "one")'
  BY <1>3, <1>9
<1>13. \A s, t \in V' : coes'[<<s, t>>].tag # "empty" /\ <<s, t>> \notin declared' =>
         /\ coes'[<<s, t>>].tag = "trans"
         /\ <<s, coes'[<<s, t>>].trans>> \in declared'
         /\ <<coes'[<<s, t>>].trans, t>> \in declared'
  BY <1>3, <1>10
<1> QED BY <1>11, <1>12, <1>13 DEF CSteps, IsTable, C!Has

(* Steps that leave the table alone. *)
LEMMA CSame ==
  ASSUME CInv, UNCHANGED <<num_sorts, coes, declared, provable>>, CType'
  PROVE CInv'
<1>1. C!Known' = C!Known /\ CEntries' = CEntries
  BY DEF C!Known, CEntries, C!Has
<1>2. CProv'
  BY <1>1 DEF CInv, CProv, C!Has, C!PROV
<1>3. ASSUME num_sorts' <= 3 PROVE CSteps'
  <2>1. CSteps
    BY <1>3 DEF CInv
  <2>2. IsTable(C!Known', declared', CEntries')
    BY <1>1, <2>1 DEF CSteps
  <2>3. \A s, t \in C!Known' : <<s, t>> \in declared' => coes'[<<s, t>>].tag = "one"
    BY <1>1, <2>1 DEF CSteps
  <2>4. \A s, t \in C!Known' : coes'[<<s, t>>].tag # "empty" /\ <<s, t>> \notin declared' =>
          /\ coes'[<<s, t>>].tag = "trans"
          /\ <<s, coes'[<<s, t>>].trans>> \in declared'
          /\ <<coes'[<<s, t>>].trans, t>> \in declared'
    BY <1>1, <2>1 DEF CSteps, C!Has
  <2> QED BY <2>2, <2>3, <2>4 DEF CSteps, IsTable, C!Has
<1> QED BY <1>2, <1>3 DEF CInv

(* What every step of mm0-c keeps. *)
LEMMA CStep ==
  ASSUME CInv, [C!Next]_cvars
  PROVE CInv'
<1>1. ASSUME NEW p \in BOOLEAN, C!DeclareSort(p) PROVE CInv'
  BY <1>1, CSortKeeps
<1>2. ASSUME NEW s1 \in C!Sort, NEW s2 \in C!Sort, C!DeclareCoercion(s1, s2) PROVE CInv'
  <2>1. num_sorts' = num_sorts
    BY <1>2 DEF C!DeclareCoercion
  <2> QED BY <1>2, <2>1, CCoercionKeepsType, CCoercionKeepsProv, CCoercionKeepsSteps DEF CInv
<1>3. ASSUME NEW s1 \in C!Sort, NEW s2 \in C!Sort, C!RefuseCoercion(s1, s2) PROVE CInv'
  <2>1. UNCHANGED <<num_sorts, coes, declared, provable>> /\ failed' = TRUE /\ s1 \in C!Known
    BY <1>3 DEF C!RefuseCoercion
  <2>2. num_sorts > 0
    BY <2>1 DEF CInv, CType, C!Known
  <2>3. CType'
    BY <2>1, <2>2 DEF CInv, CType, C!Known, C!Has, CColumn, C!Sort, C!PROV
  <2> QED BY <2>1, <2>3, CSame
<1>4. CASE UNCHANGED cvars
  <2>1. CType'
    BY <1>4 DEF cvars, CInv, CType, C!Known, C!Has, CColumn, C!Sort, C!PROV
  <2> QED BY <1>4, <2>1, CSame DEF cvars
<1> QED BY <1>1, <1>2, <1>3, <1>4 DEF C!Next

(* An empty table. *)
LEMMA CEmpty ==
  /\ C!Init => CInv
  /\ BothFinish /\ CInv => CInv'
<1>1. ASSUME num_sorts = 0, declared = {}, provable = {}, failed = FALSE,
             coes = [p \in C!Sort \X CColumn |-> C!EMPTY]
      PROVE CInv
  <2>1. C!Known = {}
    BY <1>1 DEF C!Known
  <2>2. \A s \in C!Sort : \A t \in CColumn : ~C!Has(s, t)
    BY <1>1 DEF C!Has, C!EMPTY
  <2>3. CEntries = {}
    BY <2>1 DEF CEntries
  <2>4. coes \in [C!Sort \X CColumn -> [tag : {"empty", "one", "trans", "prov"}, trans : Nat]]
    BY <1>1 DEF C!EMPTY
  <2>0. 0 \in 0..NumSorts
    BY CoercionsAssumption
  <2>5. CType
    BY <1>1, <2>0, <2>1, <2>2, <2>4 DEF CType
  <2>6. CProv
    BY <2>1 DEF CProv
  <2>7. CSteps
    BY <1>1, <2>1, <2>3 DEF CSteps, IsTable
  <2> QED BY <2>5, <2>6, <2>7 DEF CInv
<1>2. C!Init => CInv
  BY <1>1 DEF C!Init, CColumn
<1>3. ASSUME BothFinish, CInv PROVE CInv'
  <2>1. num_sorts' = 0 /\ declared' = {} /\ provable' = {} /\ failed' = FALSE
        /\ coes' = [p \in C!Sort \X CColumn |-> C!EMPTY]
    BY <1>3 DEF BothFinish, CInv, CType
  <2>2. (C!Known = {} /\ CEntries = {})'
    BY <2>1 DEF C!Known, CEntries
  <2>3. \A s \in C!Sort : \A t \in CColumn : coes'[<<s, t>>].tag = "empty"
    BY <2>1 DEF C!EMPTY
  <2>4. coes' \in [C!Sort \X CColumn -> [tag : {"empty", "one", "trans", "prov"}, trans : Nat]]
    BY <2>1 DEF C!EMPTY
  <2>0. 0 \in 0..NumSorts
    BY CoercionsAssumption
  <2>5. CType'
    BY <2>0, <2>1, <2>2, <2>3, <2>4 DEF CType, C!Has, C!Sort, CColumn, C!PROV
  <2>6. CProv'
    BY <2>2 DEF CProv
  <2>7. CSteps'
    BY <2>1, <2>2 DEF CSteps, IsTable
  <2> QED BY <2>5, <2>6, <2>7 DEF CInv
<1> QED BY <1>2, <1>3

-----------------------------------------------------------------------------
(* mm0-c implements the graph of coercions. *)

(* Sorts without edges add nothing to what is reached. *)
LEMMA ReachWider ==
  ASSUME NEW V, NEW W, V \subseteq W, NEW E, E \subseteq V \X V, NEW s \in V
  PROVE Reach(W, E, s) = Reach(V, E, s)
<1>1. \A e \in E : e[1] \in V /\ e[2] \in V
  OBVIOUS
<1>2. Closed(E, V)
  BY <1>1 DEF Closed
<1>3. ASSUME NEW t \in Reach(W, E, s) PROVE t \in Reach(V, E, s)
  BY <1>2 DEF Reach
<1>4. ASSUME NEW t \in Reach(V, E, s), NEW S \in SUBSET W, s \in S, Closed(E, S)
      PROVE t \in S
  <2>1. Closed(E, S \cap V)
    BY <1>1, <1>4 DEF Closed
  <2>2. t \in S \cap V
    BY <1>4, <2>1 DEF Reach
  <2> QED BY <2>2
<1>5. Reach(V, E, s) \subseteq Reach(W, E, s)
  BY <1>4 DEF Reach
<1> QED BY <1>3, <1>5

LEMMA UniqueWider ==
  ASSUME NEW V, NEW W, V \subseteq W, NEW E, E \subseteq V \X V
  PROVE Unique(W, E) <=> Unique(V, E)
<1>1. \A e \in E : e[2] \in V
  OBVIOUS
<1>2. \A e \in E : Reach(W, E, e[2]) = Reach(V, E, e[2])
  BY <1>1, ReachWider
<1> QED BY <1>2 DEF Unique

LEMMA CFrom ==
  ASSUME NEW E, E \subseteq C!Known \X C!Known, CType
  PROVE /\ \A s \in C!Known : C!Graph!From(E, s) = Reach(C!Known, E, s)
        /\ C!Graph!UniquePaths(E) <=> Unique(C!Known, E)
<1>1. \A s : C!Graph!From(E, s) = Reach(C!Sort, E, s)
  BY DEF C!Graph!From, Reach, Closed
<1>2. C!Graph!UniquePaths(E) <=> Unique(C!Sort, E)
  BY <1>1 DEF C!Graph!UniquePaths, Unique
<1>3. \A s \in C!Known : Reach(C!Sort, E, s) = Reach(C!Known, E, s)
  BY ReachWider, CKnown
<1>4. Unique(C!Sort, E) <=> Unique(C!Known, E)
  BY UniqueWider, CKnown
<1> QED BY <1>1, <1>2, <1>3, <1>4

(* The column PROV is right: from the sort a provable sort is reached. *)
LEMMA CProvReaches ==
  ASSUME CInv, num_sorts <= 3, NEW s \in C!Known, C!Has(s, C!PROV)
  PROVE \E t \in provable : t = s \/ <<s, t>> \in CEntries
<1>1. CSteps /\ CProv /\ CType /\ AtMostThree(C!Known)
  BY CThree DEF CInv, CType
<1>2. ASSUME NEW x \in C!Known, C!Has(x, C!PROV), x \notin provable
      PROVE \E m \in C!Known : <<x, m>> \in declared /\ C!Has(m, C!PROV)
  BY <1>1, <1>2 DEF CProv, CType
<1>3. \A x, y \in C!Known : <<x, y>> \in declared => <<x, y>> \in CEntries
  BY <1>1 DEF CSteps, IsTable
<1>4. \A x, y, z \in C!Known : <<x, y>> \in declared /\ <<y, z>> \in declared => <<x, z>> \in CEntries
  BY <1>1 DEF CSteps, IsTable
<1>5. \A x, y \in C!Known : ~(<<x, y>> \in CEntries /\ <<y, x>> \in CEntries)
  BY <1>1 DEF CSteps, IsTable
<1>6. CASE s \in provable
  BY <1>6
<1>7. CASE s \notin provable
  <2>1. PICK m \in C!Known : <<s, m>> \in declared /\ C!Has(m, C!PROV)
    BY <1>2, <1>7
  <2>2. CASE m \in provable
    BY <1>3, <2>1, <2>2
  <2>3. CASE m \notin provable
    <3>1. PICK n \in C!Known : <<m, n>> \in declared /\ C!Has(n, C!PROV)
      BY <1>2, <2>1, <2>3
    <3>2. CASE n \in provable
      BY <1>4, <2>1, <3>1, <3>2
    <3>3. CASE n \notin provable
      <4>1. PICK k \in C!Known : <<n, k>> \in declared
        BY <1>2, <3>1, <3>3
      <4>2. <<s, m>> \in CEntries /\ <<m, n>> \in CEntries /\ <<n, k>> \in CEntries
            /\ <<s, n>> \in CEntries /\ <<m, k>> \in CEntries
        BY <1>3, <1>4, <2>1, <3>1, <4>1
      <4>3. s # m /\ m # n /\ n # k /\ s # n /\ m # k /\ s # k
        BY <1>5, <4>2
      <4> QED BY <1>1, <4>3 DEF AtMostThree
    <3> QED BY <3>2, <3>3
  <2> QED BY <2>2, <2>3
<1> QED BY <1>6, <1>7

(* An accepted declaration keeps the paths unique. *)
LEMMA CAccepts ==
  ASSUME CInv, num_sorts <= 3, NEW s1, NEW s2, C!DeclareCoercion(s1, s2)
  PROVE C!Graph!Accept(s1, s2)
<1>1. CType /\ CSteps
  BY DEF CInv
<1>2. UNCHANGED <<num_sorts, provable, failed>> /\ declared' = declared \cup {<<s1, s2>>} /\ ~failed
  BY DEF C!DeclareCoercion
<1>3. C!Known' = C!Known
  BY <1>2 DEF C!Known
<1>4. s1 \in C!Known /\ s2 \in C!Known /\ Admits(C!Known, CEntries, s1, s2)
      /\ CEntries' = Grown(C!Known, CEntries, s1, s2)
  BY <1>1, CGrows
<1>5. IsTable(C!Known, declared', CEntries')
  BY <1>1, <1>2, <1>4, CThree, TableGrows DEF CSteps, CType
<1>6. Unique(C!Known, declared')
  BY <1>1, <1>5, CThree, TableUnique DEF CType
<1>7. declared' \subseteq C!Known \X C!Known
  BY <1>5 DEF IsTable
<1>8. C!Graph!UniquePaths(declared \cup {<<s1, s2>>})
  BY <1>1, <1>2, <1>6, <1>7, CFrom
<1>9. <<s1, s2>> \notin declared
  BY <1>1, <1>4 DEF Admits, CSteps, IsTable
<1> QED BY <1>2, <1>8, <1>9 DEF C!Graph!Accept

(* What is refused though the table admits it makes a second way to a        *)
(* provable sort.                                                           *)
LEMMA CRefusesSecondWay ==
  ASSUME CInv, num_sorts <= 3, NEW s1, NEW s2, C!RefuseCoercion(s1, s2),
         Admits(C!Known, CEntries, s1, s2), NEW E, E = declared \cup {<<s1, s2>>}
  PROVE \E t, u \in provable : t # u /\ t \in Reach(C!Known, E, s1) /\ u \in Reach(C!Known, E, s1)
<1> DEFINE V == C!Known
<1>1. CType /\ CSteps /\ AtMostThree(V)
  BY CThree DEF CInv, CType
<1>2. s1 \in V /\ s2 \in V
  BY DEF C!RefuseCoercion
<1>3. E \subseteq V \X V /\ IsTable(V, declared, CEntries)
  BY <1>1, <1>2 DEF CType, CSteps
<1>4. C!Has(s1, C!PROV) /\ C!Has(s2, C!PROV)
  BY <1>1, <1>2, CAdmits DEF C!RefuseCoercion
<1>5. PICK t \in provable : t = s1 \/ <<s1, t>> \in CEntries
  BY <1>2, <1>4, CProvReaches
<1>6. PICK u \in provable : u = s2 \/ <<s2, u>> \in CEntries
  BY <1>2, <1>4, CProvReaches
<1>7. t \in V /\ u \in V
  BY <1>1 DEF CType
<1>8. t # u
  BY <1>2, <1>5, <1>6, <1>7 DEF Admits
<1>9. t \in Reach(V, E, s1)
  <2>1. t \in Reach(V, declared, s1)
    BY <1>1, <1>2, <1>3, <1>5, <1>7, TableReach
  <2> QED BY <2>1, ReachGrows
<1>10. u \in Reach(V, E, s1)
  <2>1. u \in Reach(V, E, s2)
    <3>1. u \in Reach(V, declared, s2)
      BY <1>1, <1>2, <1>3, <1>6, <1>7, TableReach
    <3> QED BY <3>1, ReachGrows
  <2>2. s2 \in Reach(V, E, s1)
    BY <1>2, ReachSelf, ReachStep
  <2>3. Closed(E, Reach(V, E, s1))
    BY <1>3, ReachStep DEF Closed
  <2>4. Reach(V, E, s2) \subseteq Reach(V, E, s1)
    <3>1. Reach(V, E, s1) \in SUBSET V
      BY DEF Reach
    <3> QED BY <2>2, <2>3, <3>1, ReachLeast
  <2> QED BY <2>1, <2>4
<1> QED BY <1>8, <1>9, <1>10

(* What is refused would break the promise, or makes a second way to a       *)
(* provable sort.                                                           *)
LEMMA CRefuses ==
  ASSUME CInv, num_sorts <= 3, NEW s1, NEW s2, C!RefuseCoercion(s1, s2)
  PROVE C!Graph!Refuse(s1, s2)
<1> DEFINE E == declared \cup {<<s1, s2>>}
           V == C!Known
<1>1. CType /\ CSteps
  BY DEF CInv
<1>2. UNCHANGED <<num_sorts, declared, provable>> /\ ~failed /\ failed' = TRUE /\ s1 \in V /\ s2 \in V
  BY DEF C!RefuseCoercion
<1>3. E \subseteq V \X V /\ IsTable(V, declared, CEntries)
  BY <1>1, <1>2 DEF CType, CSteps
<1>4. (\A s \in V : C!Graph!From(E, s) = Reach(V, E, s)) /\ (C!Graph!UniquePaths(E) <=> Unique(V, E))
  BY <1>1, <1>3, CFrom
<1>5. CASE ~Admits(V, CEntries, s1, s2)
  <2>1. <<s1, s2>> \in declared \/ ~C!Graph!UniquePaths(E)
    BY <1>2, <1>3, <1>4, <1>5, RefusedBreaks
  <2> QED BY <1>2, <2>1 DEF C!Graph!Refuse
<1>6. CASE Admits(V, CEntries, s1, s2)
  <2>1. PICK t \in provable, u \in provable : t # u /\ t \in Reach(V, E, s1) /\ u \in Reach(V, E, s1)
    BY <1>6, CRefusesSecondWay
  <2>2. s1 \in C!Sort
    BY <1>1, <1>2, CKnown
  <2>3. C!Graph!TwoWaysToProvable(E, provable)
    <3>1. t \in C!Graph!From(E, s1) /\ u \in C!Graph!From(E, s1)
      BY <1>2, <1>4, <2>1
    <3> HIDE DEF E
    <3> QED BY <2>1, <2>2, <3>1 DEF C!Graph!TwoWaysToProvable
  <2> QED BY <1>2, <2>3 DEF C!Graph!Refuse
<1> QED BY <1>5, <1>6

(* A step of mm0-c is one of the graph, or changes none of its variables.    *)
LEMMA CStepIsGraphStep ==
  ASSUME CInv, [C!Next]_cvars, num_sorts <= 3
  PROVE [C!Graph!GNext]_(C!Graph!gvars)
<1>1. ASSUME NEW p \in BOOLEAN, C!DeclareSort(p) PROVE C!Graph!GNext \/ UNCHANGED C!Graph!gvars
  <2>1. UNCHANGED <<declared, failed>> /\ ~failed
        /\ provable' = IF p THEN provable \cup {num_sorts} ELSE provable
    BY <1>1 DEF C!DeclareSort
  <2>2. num_sorts \in C!Sort /\ num_sorts \notin provable
    BY <1>1, CoercionsAssumption DEF C!DeclareSort, CInv, CType, C!Known, C!Sort
  <2>3. CASE p
    <3>1. C!Graph!NewProvable(num_sorts)
      BY <2>1, <2>2, <2>3 DEF C!Graph!NewProvable
    <3> QED BY <2>2, <3>1 DEF C!Graph!GNext
  <2>4. CASE ~p
    BY <2>1, <2>4 DEF C!Graph!gvars
  <2> QED BY <2>3, <2>4
<1>2. ASSUME NEW s1 \in C!Sort, NEW s2 \in C!Sort, C!DeclareCoercion(s1, s2) PROVE C!Graph!GNext
  BY <1>2, CAccepts DEF C!Graph!GNext
<1>3. ASSUME NEW s1 \in C!Sort, NEW s2 \in C!Sort, C!RefuseCoercion(s1, s2) PROVE C!Graph!GNext
  BY <1>3, CRefuses DEF C!Graph!GNext
<1>4. CASE UNCHANGED cvars
  BY <1>4 DEF cvars, C!Graph!gvars
<1> QED BY <1>1, <1>2, <1>3, <1>4 DEF C!Next

(* At the end of the file an empty table is left. *)
LEMMA FinishIsNoStep ==
  ASSUME CInv, BothFinish, num_sorts' >= num_sorts
  PROVE UNCHANGED C!Graph!gvars
<1>1. num_sorts = 0
  BY DEF CInv, CType, BothFinish
<1>2. C!Known = {}
  BY <1>1 DEF C!Known
<1>3. declared = {} /\ provable = {} /\ failed = FALSE
  BY <1>1, <1>2 DEF CInv, CType
<1> QED BY <1>3 DEF BothFinish, C!Graph!gvars

(* What the two parsers together do to the table of mm0-c. *)
LEMMA BothStep ==
  ASSUME [BothNext]_allvars, CInv
  PROVE [C!Next]_cvars \/ BothFinish
<1>1. ASSUME NEW n \in Names, BothDeclareSort(n) PROVE [C!Next]_cvars
  <2>1. CASE UNCHANGED cvars
    BY <2>1
  <2>2. CASE C!DeclareSort(n \in Provable) /\ n \in Provable
    <3>1. C!DeclareSort(TRUE)
      BY <2>2 DEF C!DeclareSort
    <3> QED BY <3>1 DEF C!Next
  <2>3. CASE C!DeclareSort(n \in Provable) /\ n \notin Provable
    <3>1. C!DeclareSort(FALSE)
      BY <2>3 DEF C!DeclareSort
    <3> QED BY <3>1 DEF C!Next
  <2> QED BY <1>1, <2>1, <2>2, <2>3 DEF BothDeclareSort
<1>2. ASSUME NEW m \in Names, NEW n \in Names, BothDeclareCoercion(m, n) PROVE [C!Next]_cvars
  <2>1. CASE UNCHANGED cvars
    BY <2>1
  <2>2. CASE C!DeclareCoercion(CNum(m), CNum(n)) \/ C!RefuseCoercion(CNum(m), CNum(n))
    <3>1. CNum(m) \in C!Known /\ CNum(n) \in C!Known
      BY <2>2 DEF C!DeclareCoercion, C!RefuseCoercion
    <3>2. CNum(m) \in C!Sort /\ CNum(n) \in C!Sort
      BY <3>1, CKnown DEF CInv
    <3> QED BY <2>2, <3>2 DEF C!Next
  <2> QED BY <1>2, <2>1, <2>2 DEF BothDeclareCoercion
<1>3. ASSUME OnlyRs \/ UNCHANGED allvars PROVE [C!Next]_cvars
  BY <1>3 DEF OnlyRs, allvars, cvars
<1> QED BY <1>1, <1>2, <1>3 DEF BothNext

(* The invariant of the table of mm0-c. *)
LEMMA CInvariant == BothSpec => []CInv
<1>1. BothInit => CInv
  BY CEmpty DEF BothInit
<1>2. CInv /\ [BothNext]_allvars => CInv'
  BY BothStep, CStep, CEmpty
<1> QED BY <1>1, <1>2, PTL DEF BothSpec

(* While a file has at most three sorts, whatever it declares and in         *)
(* whatever order, the table of mm0-c accepts and refuses coercions as the   *)
(* graph of unique paths does (parser.c, KW_COERCION).                      *)
THEOREM TableImplementsGraph == BothSpec => ImplementsGraph
<1>1. BothInit => C!Graph!GInit
  BY DEF BothInit, C!Init, C!Graph!GInit
<1>2. CInv /\ [BothNext]_allvars =>
        [(num_sorts <= 3 /\ num_sorts' >= num_sorts) => C!Graph!GNext]_(C!Graph!gvars)
  BY BothStep, CStepIsGraphStep, FinishIsNoStep
<1> QED BY <1>1, <1>2, CInvariant, PTL DEF BothSpec, ImplementsGraph

-----------------------------------------------------------------------------
(* coerce() of mm0-c. *)

(* Induction over the numbers, for sets: WFMin with the order of Nat. *)
LEMMA NatIsOrdered ==
  \E R : IsWellFoundedOn(R, Nat) /\ \A k, m \in Nat : k < m => <<k, m>> \in R
<1>1. IsWellFoundedOn(OpToRel(<, Nat), Nat)
  BY NatLessThanWellFounded
<1>2. \A k, m \in Nat : k < m => <<k, m>> \in OpToRel(<, Nat)
  BY DEF OpToRel
<1> QED BY <1>1, <1>2, Zenon

LEMMA NatLeast ==
  ASSUME NEW S, S \subseteq Nat, S # {}
  PROVE \E m \in S : \A k \in S : m <= k
<1>1. PICK R : IsWellFoundedOn(R, Nat) /\ \A k, m \in Nat : k < m => <<k, m>> \in R
  BY NatIsOrdered
<1>2. IsWellFoundedOn(R, Nat)
  BY <1>1, Zenon
<1>3. \E m \in S : \A k \in S : ~ (<<k, m>> \in R)
  BY <1>2, WFMin
<1>4. PICK m \in S : \A k \in S : ~ (<<k, m>> \in R)
  BY <1>3, Zenon
<1>5. \A k \in S : ~ (k < m)
  BY <1>1, <1>4, Zenon
<1>6. \A k \in S : m <= k
  BY <1>5
<1> QED BY <1>6

LEMMA NatAll ==
  ASSUME NEW S, 0 \in S, \A n \in Nat : n \in S => n + 1 \in S
  PROVE \A n \in Nat : n \in S
<1>1. SUFFICES ASSUME Nat \ S # {} PROVE FALSE
  OBVIOUS
<1>2. PICK m \in Nat \ S : \A k \in Nat \ S : m <= k
  BY <1>1, NatLeast
<1>3. m # 0 /\ m - 1 \in Nat /\ m - 1 \in S
  BY <1>2
<1> QED BY <1>2, <1>3

(* The recursion of coerce() is well founded: it defines a function. *)
LEMMA CoerceIs ==
  ASSUME CType
  PROVE \A n \in 1..C!Depth : C!coerce[n] = C!CoerceOnce(C!coerce[n - 1])
<1> DEFINE Base == [p \in C!Pairs |-> IF p[1] = p[2] THEN <<p[1]>> ELSE <<>>]
           Body(g, k) == IF k = 0 THEN Base ELSE C!CoerceOnce(g[k - 1])
           Upto(n) == \E g : g = [k \in 0..n |-> Body(g, k)]
           S == {n \in Nat : Upto(n)}
<1>1. C!Depth \in Nat
  BY CoercionsAssumption DEF C!Depth
<1>2. 0 \in S
  <2>1. [k \in {0} |-> Base] = [k \in 0..0 |-> Body([j \in {0} |-> Base], k)]
    OBVIOUS
  <2> QED BY <2>1
<1>3. ASSUME NEW n \in Nat, n \in S
      PROVE n + 1 \in S
  <2>1. PICK g : g = [k \in 0..n |-> Body(g, k)]
    BY <1>3
  <2> DEFINE h == [k \in 0..(n + 1) |-> IF k <= n THEN g[k] ELSE C!CoerceOnce(g[n])]
  <2> HIDE DEF Base
  <2>2. \A k \in 0..n : g[k] = Body(g, k)
    BY <2>1
  <2>3. \A k \in 1..(n + 1) : h[k - 1] = g[k - 1]
    OBVIOUS
  <2>4. \A k \in 0..(n + 1) : h[k] = Body(h, k)
    <3> SUFFICES ASSUME NEW k \in 0..(n + 1) PROVE h[k] = Body(h, k)
      OBVIOUS
    <3>1. CASE k = 0
      BY <2>2, <3>1
    <3>2. CASE k \in 1..n
      BY <2>2, <2>3, <3>2
    <3>3. CASE k = n + 1
      <4>1. h[k] = C!CoerceOnce(g[n]) /\ k - 1 = n /\ k # 0
        BY <3>3
      <4> QED BY <2>3, <3>3, <4>1
    <3> QED BY <3>1, <3>2, <3>3
  <2>5. h = [k \in 0..(n + 1) |-> Body(h, k)]
    BY <2>4
  <2> HIDE DEF h
  <2>6. Upto(n + 1)
    BY <2>5
  <2> QED BY <2>6
<1>4. C!Depth \in S
  BY <1>1, <1>2, <1>3, NatAll
<1>5. C!coerce = [k \in 0..C!Depth |-> Body(C!coerce, k)]
  BY <1>4 DEF C!coerce
<1> HIDE DEF Base
<1>6. ASSUME NEW n \in 1..C!Depth PROVE C!coerce[n] = C!CoerceOnce(C!coerce[n - 1])
  BY <1>1, <1>5, <1>6
<1> QED BY <1>6

(* What coerce() answers, by the kind of the entry. *)
LEMMA CoerceEntry ==
  ASSUME CType, NEW n \in 1..C!Depth, NEW s \in C!Sort, NEW t \in CColumn, s # t
  PROVE LET entry == coes[<<s, t>>]
            f == C!coerce[n]
            g == C!coerce[n - 1]
        IN /\ entry.tag = "one" => f[<<s, t>>] = <<s, t>>
           /\ entry.tag = "prov" => f[<<s, t>>] = <<s>>
           /\ entry.tag = "trans" =>
                f[<<s, t>>] = C!Joined(g[<<s, entry.trans>>], g[<<entry.trans, t>>])
<1> DEFINE f == C!coerce[n]
           g == C!coerce[n - 1]
           entry == coes[<<s, t>>]
<1>1. f = C!CoerceOnce(g)
  BY CoerceIs
<1> HIDE DEF f, g
<1>2. <<s, t>> \in C!Pairs
  BY DEF C!Pairs, CColumn
<1>3. f[<<s, t>>] =
        IF <<s, t>>[1] = <<s, t>>[2] THEN <<<<s, t>>[1]>>
        ELSE CASE entry.tag = "empty" -> <<>>
               [] entry.tag = "one" -> <<s, t>>
               [] entry.tag = "prov" -> <<<<s, t>>[1]>>
               [] entry.tag = "trans" ->
                    C!Joined(g[<<<<s, t>>[1], entry.trans>>], g[<<entry.trans, <<s, t>>[2]>>])
  BY <1>1, <1>2 DEF C!CoerceOnce
<1>4. <<s, t>>[1] = s /\ <<s, t>>[2] = t
  OBVIOUS
<1>5. entry.tag = "one" => f[<<s, t>>] = <<s, t>>
  BY <1>3, <1>4
<1>6. entry.tag = "prov" => f[<<s, t>>] = <<s>>
  BY <1>3, <1>4
<1>7. entry.tag = "trans" => f[<<s, t>>] = C!Joined(g[<<s, entry.trans>>], g[<<entry.trans, t>>])
  BY <1>3, <1>4
<1> QED BY <1>5, <1>6, <1>7 DEF f, g

LEMMA JoinedPaths ==
  ASSUME NEW s, NEW m, NEW t
  PROVE /\ C!Joined(<<s, m>>, <<m, t>>) = <<s, m, t>>
        /\ C!Joined(<<s, m>>, <<m>>) = <<s, m>>
<1>1. Tail(<<m, t>>) = <<t>> /\ Tail(<<m>>) = <<>>
  OBVIOUS
<1>2. <<s, m>> \o <<t>> = <<s, m, t>> /\ <<s, m>> \o <<>> = <<s, m>>
  <2> DEFINE S == {s, m, t}
  <2>1. <<s, m>> \in Seq(S) /\ t \in S
    OBVIOUS
  <2>2. <<s, m>> \o <<>> = <<s, m>>
    BY <2>1, ConcatEmptySeq
  <2>3. <<s, m>> \o <<t>> = Append(<<s, m>>, t)
    BY <2>1, AppendIsConcat
  <2>4. Append(<<s, m>>, t) = <<s, m, t>>
    <3> DEFINE q == Append(<<s, m>>, t)
               r == <<s, m, t>>
    <3>1. q \in Seq(S) /\ r \in Seq(S)
      BY <2>1
    <3>2. Len(q) = 3 /\ Len(r) = 3
      BY <2>1
    <3>3. \A i \in 1..3 : q[i] = r[i]
      BY <2>1
    <3> HIDE DEF q, r
    <3>4. q = r
      BY <3>1, <3>2, <3>3, SeqEqual
    <3> QED BY <3>4 DEF q, r
  <2>5. <<s, m>> \o <<t>> = <<s, m, t>>
    BY <2>3, <2>4, Zenon
  <2> QED BY <2>2, <2>5, Zenon
<1>3. <<s, m>> # <<>> /\ <<m, t>> # <<>> /\ <<m>> # <<>>
  OBVIOUS
<1> QED BY <1>1, <1>2, <1>3 DEF C!Joined

(* A chain of declared coercions from s to t. *)
LeadsTo(path, s, t) ==
  /\ path # <<>>
  /\ path[1] = s
  /\ path[Len(path)] = t
  /\ \A n \in 1..(Len(path) - 1) : <<path[n], path[n + 1]>> \in declared

LEMMA ShortPaths ==
  /\ \A s : LeadsTo(<<s>>, s, s)
  /\ \A s, t : <<s, t>> \in declared => LeadsTo(<<s, t>>, s, t)
  /\ \A s, m, t : <<s, m>> \in declared /\ <<m, t>> \in declared => LeadsTo(<<s, m, t>>, s, t)
BY DEF LeadsTo

(* An entry between known sorts is followed in two calls. *)
LEMMA CoerceSteps ==
  ASSUME CInv, num_sorts <= 3, NEW s \in C!Known, NEW t \in C!Known, C!Has(s, t)
  PROVE LeadsTo(C!coerce[C!Depth][<<s, t>>], s, t)
<1>1. CType /\ CSteps /\ s \in C!Sort /\ t \in C!Sort /\ t \in CColumn /\ C!Known \subseteq C!Sort
      /\ C!Known \subseteq CColumn
  BY CKnown DEF CInv
<1>2. C!Depth \in 2..C!Depth /\ C!Depth \in 1..C!Depth /\ C!Depth - 1 \in 1..C!Depth
  BY CoercionsAssumption DEF C!Depth
<1>3. s # t
  BY <1>1 DEF CSteps, IsTable, CEntries
<1>4. \A x, y \in C!Known : <<x, y>> \in declared => x # y /\ coes[<<x, y>>].tag = "one"
  BY <1>1 DEF CSteps, IsTable
<1>5. CASE <<s, t>> \in declared
  <2>1. C!coerce[C!Depth][<<s, t>>] = <<s, t>>
    BY <1>1, <1>2, <1>4, <1>5, CoerceEntry
  <2> QED BY <1>5, <2>1, ShortPaths
<1>6. CASE <<s, t>> \notin declared
  <2> DEFINE m == coes[<<s, t>>].trans
             D == C!Depth
  <2>1. coes[<<s, t>>].tag = "trans" /\ <<s, m>> \in declared /\ <<m, t>> \in declared
    BY <1>1, <1>6 DEF CSteps
  <2>2. m \in C!Known
    BY <1>1, <2>1 DEF CType
  <2>3. C!coerce[D][<<s, t>>] = C!Joined(C!coerce[D - 1][<<s, m>>], C!coerce[D - 1][<<m, t>>])
    BY <1>1, <1>2, <1>3, <2>1, CoerceEntry
  <2> HIDE DEF m
  <2>4. C!coerce[D - 1][<<s, m>>] = <<s, m>>
    BY <1>1, <1>2, <1>4, <2>1, <2>2, CoerceEntry
  <2>5. C!coerce[D - 1][<<m, t>>] = <<m, t>>
    BY <1>1, <1>2, <1>4, <2>1, <2>2, CoerceEntry
  <2>6. C!coerce[D][<<s, t>>] = <<s, m, t>>
    BY <2>3, <2>4, <2>5, JoinedPaths
  <2> QED BY <2>1, <2>6, ShortPaths
<1> QED BY <1>5, <1>6

(* An entry in the column PROV is followed in three. *)
LEMMA CoerceToProvable ==
  ASSUME CInv, num_sorts <= 3, NEW s \in C!Known, C!Has(s, C!PROV)
  PROVE \E t \in provable : LeadsTo(C!coerce[C!Depth][<<s, C!PROV>>], s, t)
<1> DEFINE D == C!Depth
           F(n, x, y) == C!coerce[n][<<x, y>>]
           Next1(x) == coes[<<x, C!PROV>>].trans
<1>1. CType /\ CProv /\ CSteps /\ AtMostThree(C!Known) /\ C!Known \subseteq C!Sort /\ C!Known \subseteq CColumn
      /\ C!PROV \in CColumn /\ \A x \in C!Known : x # C!PROV
  BY CKnown, CThree DEF CInv, CType
<1>2. D \in Nat /\ D \in 1..D /\ D - 1 \in 1..D
  BY CoercionsAssumption DEF C!Depth
<1>3. \A x, y \in C!Known : x # y => D - 2 \in 1..D
  <2> SUFFICES ASSUME NEW x \in C!Known, NEW y \in C!Known, x # y, D < 3 PROVE FALSE
    BY <1>2
  <2>1. NumSorts = 1
    BY CoercionsAssumption DEF C!Depth
  <2> QED BY <1>1, <2>1 DEF C!Sort
<1>4. \A x, y \in C!Known : <<x, y>> \in declared =>
        /\ x # y /\ <<x, y>> \in CEntries
        /\ \A n \in 1..D : F(n, x, y) = <<x, y>>
  <2>1. \A x, y \in C!Known : <<x, y>> \in declared => x # y /\ coes[<<x, y>>].tag = "one" /\ <<x, y>> \in CEntries
    BY <1>1 DEF CSteps, IsTable
  <2>2. ASSUME NEW x \in C!Known, NEW y \in C!Known, <<x, y>> \in declared, NEW n \in 1..D
        PROVE F(n, x, y) = <<x, y>>
    BY <1>1, <2>1, <2>2, CoerceEntry
  <2> QED BY <2>1, <2>2
<1>5. ASSUME NEW x \in C!Known, x \in provable, NEW n \in 1..D
      PROVE F(n, x, C!PROV) = <<x>>
  <2>1. coes[<<x, C!PROV>>].tag = "prov"
    BY <1>1, <1>5, SMTT(30) DEF CProv
  <2>2. x \in C!Sort /\ C!PROV \in CColumn /\ x # C!PROV /\ n \in 1..C!Depth
    BY <1>1
  <2> QED BY <1>1, <2>1, <2>2, CoerceEntry
<1>6. ASSUME NEW x \in C!Known, C!Has(x, C!PROV), x \notin provable
      PROVE /\ coes[<<x, C!PROV>>].tag = "trans"
            /\ Next1(x) \in C!Known /\ <<x, Next1(x)>> \in declared /\ C!Has(Next1(x), C!PROV)
  BY <1>1, <1>6 DEF CProv, CType
<1>7. ASSUME NEW x \in C!Known, C!Has(x, C!PROV), x \notin provable, NEW n \in 1..D
      PROVE F(n, x, C!PROV) = C!Joined(F(n - 1, x, Next1(x)), F(n - 1, Next1(x), C!PROV))
  BY <1>1, <1>6, <1>7, CoerceEntry
<1> HIDE DEF F, Next1, D
<1>8. CASE s \in provable
  <2>1. F(D, s, C!PROV) = <<s>>
    BY <1>2, <1>5, <1>8
  <2> QED BY <1>8, <2>1, ShortPaths DEF F, D
<1>9. CASE s \notin provable
  <2> DEFINE m == Next1(s)
  <2>1. m \in C!Known /\ <<s, m>> \in declared /\ C!Has(m, C!PROV)
    BY <1>6, <1>9
  <2>2. F(D, s, C!PROV) = C!Joined(F(D - 1, s, m), F(D - 1, m, C!PROV))
    BY <1>2, <1>7, <1>9
  <2> HIDE DEF m
  <2>3. F(D - 1, s, m) = <<s, m>>
    BY <1>2, <1>4, <2>1
  <2>4. CASE m \in provable
    <3>1. F(D - 1, m, C!PROV) = <<m>>
      BY <1>2, <1>5, <2>1, <2>4
    <3>2. F(D, s, C!PROV) = <<s, m>>
      BY <2>2, <2>3, <3>1, JoinedPaths
    <3> QED BY <2>1, <2>4, <3>2, ShortPaths DEF F, D
  <2>5. CASE m \notin provable
    <3> DEFINE k == Next1(m)
    <3>1. k \in C!Known /\ <<m, k>> \in declared /\ C!Has(k, C!PROV)
      BY <1>6, <2>1, <2>5
    <3>2. F(D - 1, m, C!PROV) = C!Joined(F(D - 1 - 1, m, k), F(D - 1 - 1, k, C!PROV))
      BY <1>2, <1>7, <2>1, <2>5
    <3> HIDE DEF k
    <3>3. k \in provable
      <4>1. SUFFICES ASSUME k \notin provable PROVE FALSE
        OBVIOUS
      <4>2. PICK l \in C!Known : <<k, l>> \in declared
        BY <1>6, <3>1, <4>1
      <4>3. \A x, y, z \in C!Known : <<x, y>> \in declared /\ <<y, z>> \in declared => <<x, z>> \in CEntries
        BY <1>1 DEF CSteps, IsTable
      <4>4. \A x, y \in C!Known : ~(<<x, y>> \in CEntries /\ <<y, x>> \in CEntries)
        BY <1>1 DEF CSteps, IsTable
      <4>5. <<s, m>> \in CEntries /\ <<m, k>> \in CEntries /\ <<k, l>> \in CEntries
            /\ <<s, k>> \in CEntries /\ <<m, l>> \in CEntries
        BY <1>4, <2>1, <3>1, <4>2, <4>3
      <4>6. s # m /\ m # k /\ k # l /\ s # k /\ m # l /\ s # l
        BY <2>1, <3>1, <4>2, <4>4, <4>5
      <4> QED BY <1>1, <2>1, <3>1, <4>6 DEF AtMostThree
    <3>4. D - 1 - 1 = D - 2 /\ D - 2 \in 1..D
      BY <1>2, <1>3, <1>4, <2>1
    <3>5. F(D - 1 - 1, m, k) = <<m, k>>
      BY <1>4, <2>1, <3>1, <3>4
    <3>6. F(D - 1 - 1, k, C!PROV) = <<k>>
      BY <1>5, <3>1, <3>3, <3>4
    <3>7. F(D - 1, m, C!PROV) = <<m, k>>
      BY <3>2, <3>5, <3>6, JoinedPaths
    <3>8. F(D, s, C!PROV) = <<s, m, k>>
      BY <2>2, <2>3, <3>7, JoinedPaths
    <3> QED BY <2>1, <3>1, <3>3, <3>8, ShortPaths DEF F, D
  <2> QED BY <2>4, <2>5
<1> QED BY <1>8, <1>9

LEMMA CFollows ==
  ASSUME CInv, num_sorts <= 3
  PROVE C!CoerceFollowsDeclarations
<1>1. SUFFICES ASSUME NEW s \in C!Sort, NEW t \in C!Sort \cup {C!PROV}, C!Has(s, t)
      PROVE LET path == C!coerce[C!Depth][<<s, t>>] IN
            /\ path # <<>>
            /\ path[1] = s
            /\ IF t = C!PROV THEN path[Len(path)] \in provable ELSE path[Len(path)] = t
            /\ \A n \in 1..(Len(path) - 1) : <<path[n], path[n + 1]>> \in declared
  BY DEF C!CoerceFollowsDeclarations, C!Last
<1> DEFINE path == C!coerce[C!Depth][<<s, t>>]
<1>2. s \in C!Known /\ t \in C!Known \cup {C!PROV}
  BY <1>1 DEF CInv, CType, CColumn
<1>3. CASE t = C!PROV
  <2>1. PICK u \in provable : LeadsTo(path, s, u)
    BY <1>1, <1>2, <1>3, CoerceToProvable
  <2> HIDE DEF path
  <2>2. /\ path # <<>>
        /\ path[1] = s
        /\ path[Len(path)] \in provable
        /\ \A n \in 1..(Len(path) - 1) : <<path[n], path[n + 1]>> \in declared
    BY <2>1 DEF LeadsTo
  <2> QED BY <1>3, <2>2 DEF path
<1>4. CASE t # C!PROV
  <2>1. LeadsTo(path, s, t)
    BY <1>1, <1>2, <1>4, CoerceSteps
  <2> HIDE DEF path
  <2>2. /\ path # <<>>
        /\ path[1] = s
        /\ path[Len(path)] = t
        /\ \A n \in 1..(Len(path) - 1) : <<path[n], path[n + 1]>> \in declared
    BY <2>1 DEF LeadsTo
  <2> QED BY <1>4, <2>2 DEF path
<1> QED BY <1>3, <1>4

(* What coerce inserts for an entry is a chain of declared coercions, in any  *)
(* file of at most three sorts (parser.c, coerce).                          *)
THEOREM CoerceIsTyped == BothSpec => [](num_sorts <= 3 => C!CoerceFollowsDeclarations)
<1>1. CInv => (num_sorts <= 3 => C!CoerceFollowsDeclarations)
  BY CFollows
<1> QED BY <1>1, CInvariant, PTL

-----------------------------------------------------------------------------
(* The environments of mm0-rs. *)

Coe == [site : Nat \X Nat, from : Names, to : Names]

(* A chain of coercions that leads from the sort with id s to that with t.   *)
Chain(sorts, path, s, t) ==
  /\ path \in Seq(Coe)
  /\ path # <<>>
  /\ path[1].from = sorts[s]
  /\ path[Len(path)].to = sorts[t]
  /\ \A n \in 1..(Len(path) - 1) : path[n].to = path[n + 1].from

IsEnv(e) ==
  /\ e = [sorts |-> e.sorts, coes |-> e.coes, coe_prov |-> e.coe_prov, decls |-> e.decls, err |-> e.err]
  /\ e.sorts \in Seq(Names)
  /\ Len(e.sorts) <= NumSorts
  /\ \A s, t \in DOMAIN e.sorts : e.sorts[s] = e.sorts[t] => s = t
  /\ Entries(e) \subseteq (DOMAIN e.sorts) \X (DOMAIN e.sorts)
  /\ \A p \in Entries(e) : Chain(e.sorts, e.coes[p], p[1], p[2])
  /\ e.err \in BOOLEAN

Ones(e) == {p \in Entries(e) : Len(e.coes[p]) = 1}
Between(e, c, p) == c.from = e.sorts[p[1]] /\ c.to = e.sorts[p[2]]

(* Without an error: the entries of one coercion, with those still to be     *)
(* added, are the declared ones; with at most three sorts the others are     *)
(* their compositions; and coe_prov is up to date.                          *)
Exact(e, left) ==
  ~e.err =>
    /\ Len(e.sorts) <= 3 => IsTable(DOMAIN e.sorts, Ones(e), Entries(e))
    /\ \A c \in e.decls : \E p \in Ones(e) \cup left : Between(e, c, p)
    /\ \A p \in Ones(e) \cup left : \E c \in e.decls : Between(e, c, p)
    /\ ProvsOk(e, e.coes)
    /\ e.coe_prov = Provs(e, e.coes)

IsDone == \E S : done \in Seq(S) /\ \A e \in S : IsEnv(e) /\ Exact(e, {})

LeftToAdd == {m[1] : m \in pending}

RsInv ==
  /\ IsEnv(cur)
  /\ IsDone
  /\ own \in Nat
  /\ merging \in BOOLEAN
  /\ ~merging => pending = {}
  /\ \A m \in pending :
       /\ m[1] \in (DOMAIN cur.sorts) \X (DOMAIN cur.sorts)
       /\ m[2] \in Coe
       /\ Between(cur, m[2], m[1])
  /\ Exact(cur, LeftToAdd)

(* The sorts of an imported file keep their ids in an empty environment.     *)
LEMMA WithAllSorts ==
  ASSUME NEW new \in Seq(Names), \A s, t \in DOMAIN new : new[s] = new[t] => s = t
  PROVE WithSorts(<<>>, new) = new
<1> DEFINE L == Len(new)
           Body(g, n) == IF n = 0 THEN <<>> ELSE WithSort(g[n - 1], new[n])
           h == [n \in 0..L |-> SubSeq(new, 1, n)]
           added == CHOOSE g : g = [n \in 0..L |-> Body(g, n)]
<1>1. L \in Nat /\ new \in [1..L -> Names]
  OBVIOUS
<1>2. \A n \in 0..L : SubSeq(new, 1, n) \in Seq(Names) /\ Len(SubSeq(new, 1, n)) = n
                      /\ \A k \in 1..n : SubSeq(new, 1, n)[k] = new[k]
  BY <1>1
<1>3. SubSeq(new, 1, 0) = <<>> /\ SubSeq(new, 1, L) = new
  OBVIOUS
<1>4. ASSUME NEW n \in 1..L
      PROVE WithSort(SubSeq(new, 1, n - 1), new[n]) = SubSeq(new, 1, n)
  <2> DEFINE q == SubSeq(new, 1, n - 1)
             r == SubSeq(new, 1, n)
  <2>1. q \in Seq(Names) /\ Len(q) = n - 1 /\ \A k \in 1..(n - 1) : q[k] = new[k]
    BY <1>1, <1>2
  <2>2. ~\E s \in DOMAIN q : q[s] = new[n]
    BY <1>1, <2>1
  <2>3. r \in Seq(Names) /\ Len(r) = n /\ \A k \in 1..n : r[k] = new[k]
    BY <1>2
  <2> HIDE DEF q, r
  <2>4. new[n] \in Names
    BY <1>1
  <2>5. Append(q, new[n]) \in Seq(Names) /\ Len(Append(q, new[n])) = n
        /\ \A k \in 1..n : Append(q, new[n])[k] = r[k]
    BY <2>1, <2>3, <2>4, AppendProperties
  <2>6. Append(q, new[n]) = r
    BY <2>3, <2>5, SeqEqual
  <2>7. WithSort(q, new[n]) = r
    BY <2>2, <2>6 DEF WithSort
  <2> QED BY <2>7 DEF q, r
<1>5. \A n \in 0..L : h[n] = Body(h, n)
  <2> SUFFICES ASSUME NEW n \in 0..L PROVE h[n] = Body(h, n)
    OBVIOUS
  <2>1. CASE n = 0
    BY <1>1, <1>3, <2>1
  <2>2. CASE n # 0
    <3>1. n \in 1..L /\ h[n - 1] = SubSeq(new, 1, n - 1) /\ h[n] = SubSeq(new, 1, n)
      BY <1>1, <2>2
    <3> QED BY <1>4, <2>2, <3>1
  <2> QED BY <2>1, <2>2
<1>6. \E g : g = [n \in 0..L |-> Body(g, n)]
  <2>1. h = [n \in 0..L |-> Body(h, n)]
    BY <1>5
  <2> HIDE DEF h
  <2> QED BY <2>1
<1>7. added = [n \in 0..L |-> Body(added, n)]
  BY <1>6
<1> HIDE DEF added
<1>8. added[0] = <<>> /\ \A n \in 1..L : added[n] = WithSort(added[n - 1], new[n])
  BY <1>1, <1>7
<1> DEFINE S == {n \in Nat : n <= L => added[n] = SubSeq(new, 1, n)}
<1>9. 0 \in S
  BY <1>3, <1>8
<1>10. ASSUME NEW n \in Nat, n \in S PROVE n + 1 \in S
  <2>1. CASE n + 1 <= L
    <3>1. added[n] = SubSeq(new, 1, n) /\ n + 1 \in 1..L /\ (n + 1) - 1 = n
      BY <1>1, <1>10, <2>1
    <3>2. added[n + 1] = WithSort(SubSeq(new, 1, n), new[n + 1])
      BY <1>8, <3>1
    <3> QED BY <1>4, <3>1, <3>2
  <2>2. CASE ~(n + 1 <= L)
    BY <2>2
  <2> QED BY <2>1, <2>2
<1>11. L \in S
  BY <1>1, <1>9, <1>10, NatAll
<1>12. added[L] = new
  BY <1>1, <1>3, <1>11
<1> QED BY <1>12 DEF WithSorts, added

(* A chain goes on with a coercion from its end, and one leads to its start. *)
LEMMA ChainAppend ==
  ASSUME NEW sorts, NEW path, NEW s, NEW t, NEW u, Chain(sorts, path, s, t),
         NEW c \in Coe, c.from = sorts[t], c.to = sorts[u]
  PROVE Chain(sorts, Append(path, c), s, u) /\ Len(Append(path, c)) # 1
<1>1. path \in Seq(Coe) /\ Len(path) \in Nat /\ Len(path) >= 1
  BY DEF Chain
<1>2. /\ Append(path, c) \in Seq(Coe) /\ Len(Append(path, c)) = Len(path) + 1
      /\ \A n \in 1..Len(path) : Append(path, c)[n] = path[n]
      /\ Append(path, c)[Len(path) + 1] = c
  BY <1>1, AppendProperties
<1> DEFINE q == Append(path, c)
<1> HIDE DEF q
<1>3. q[1].from = sorts[s] /\ q[Len(q)].to = sorts[u]
  BY <1>1, <1>2 DEF Chain, q
<1>4. \A n \in 1..(Len(q) - 1) : q[n].to = q[n + 1].from
  <2> SUFFICES ASSUME NEW n \in 1..Len(path) PROVE q[n].to = q[n + 1].from
    BY <1>1, <1>2 DEF q
  <2>1. CASE n = Len(path)
    BY <1>1, <1>2, <2>1 DEF Chain, q
  <2>2. CASE n # Len(path)
    <3>1. n \in 1..(Len(path) - 1) /\ n + 1 \in 1..Len(path)
      BY <1>1, <2>2
    <3> QED BY <1>2, <3>1 DEF Chain, q
  <2> QED BY <2>1, <2>2
<1>5. q \in Seq(Coe) /\ q # <<>> /\ Len(q) # 1
  BY <1>1, <1>2 DEF q
<1> QED BY <1>3, <1>4, <1>5 DEF Chain, q

LEMMA ChainCons ==
  ASSUME NEW sorts, NEW path, NEW s, NEW t, NEW u, Chain(sorts, path, s, t),
         NEW c \in Coe, c.from = sorts[u], c.to = sorts[s]
  PROVE Chain(sorts, <<c>> \o path, u, t) /\ Len(<<c>> \o path) # 1
<1>1. path \in Seq(Coe) /\ Len(path) \in Nat /\ Len(path) >= 1
  BY DEF Chain
<1>0. <<c>> \in Seq(Coe) /\ Len(<<c>>) = 1 /\ <<c>>[1] = c
  OBVIOUS
<1> DEFINE q == <<c>> \o path
<1>2. /\ q \in Seq(Coe) /\ Len(q) = 1 + Len(path)
      /\ q[1] = c
      /\ \A n \in 1..Len(path) : q[n + 1] = path[n]
  BY <1>0, <1>1, ConcatProperties
<1> HIDE DEF q
<1>3. q[1].from = sorts[u] /\ q[Len(q)].to = sorts[t]
  BY <1>1, <1>2 DEF Chain
<1>4. \A n \in 1..(Len(q) - 1) : q[n].to = q[n + 1].from
  <2> SUFFICES ASSUME NEW n \in 1..Len(path) PROVE q[n].to = q[n + 1].from
    BY <1>1, <1>2
  <2>1. CASE n = 1
    BY <1>1, <1>2, <2>1 DEF Chain
  <2>2. CASE n # 1
    <3>1. n - 1 \in 1..(Len(path) - 1) /\ (n - 1) + 1 = n /\ n - 1 \in 1..Len(path) /\ n \in 1..Len(path)
      BY <1>1, <2>2
    <3>2. q[n] = path[n - 1] /\ q[n + 1] = path[n]
      BY <1>2, <3>1
    <3>3. path[n - 1].to = path[n].from
      BY <3>1 DEF Chain
    <3> QED BY <3>2, <3>3
  <2> QED BY <2>1, <2>2
<1>5. q \in Seq(Coe) /\ q # <<>> /\ Len(q) # 1
  BY <1>1, <1>2
<1> QED BY <1>3, <1>4, <1>5 DEF Chain, q

(* A new coercion between two sorts of an environment. *)
CanAdd(e, s1, s2, c) ==
  /\ s1 \in DOMAIN e.sorts /\ s2 \in DOMAIN e.sorts
  /\ c \in Coe
  /\ Between(e, c, <<s1, s2>>)

(* What is to be added: chains between sorts of the environment, of more     *)
(* than one coercion unless it is the new one.                              *)
LEMMA TodoIs ==
  ASSUME NEW e, IsEnv(e), NEW s1, NEW s2, NEW c, CanAdd(e, s1, s2, c),
         NEW V, V = DOMAIN e.sorts, NEW todo, todo = Todo(e, s1, s2, c)
  PROVE /\ \A s, t \in V : <<s, t>> \in DOMAIN todo <=>
             \/ s = s1 /\ t = s2
             \/ t = s2 /\ <<s, s1>> \in Entries(e)
             \/ s = s1 /\ <<s2, t>> \in Entries(e)
        /\ DOMAIN todo \subseteq V \X V
        /\ \A p \in DOMAIN todo :
             /\ Chain(e.sorts, todo[p], p[1], p[2])
             /\ p # <<s1, s2>> => Len(todo[p]) # 1
        /\ <<s1, s2>> \in DOMAIN todo
        /\ todo[<<s1, s2>>] = <<c>>
<1> DEFINE lefts == {<<sl, s2>> : sl \in {s \in V : <<s, s1>> \in Entries(e)}}
           rights == {<<s1, sr>> : sr \in {s \in V : <<s2, s>> \in Entries(e)}}
           D == lefts \cup {<<s1, s2>>} \cup rights
<1>1. todo = [p \in D |->
        IF p = <<s1, s2>> THEN <<c>>
        ELSE IF p \in lefts THEN Append(e.coes[<<p[1], s1>>], c)
        ELSE <<c>> \o e.coes[<<s2, p[2]>>]]
  BY Zenon DEF Todo
<1>2. s1 \in V /\ s2 \in V /\ c \in Coe /\ c.from = e.sorts[s1] /\ c.to = e.sorts[s2]
  BY DEF CanAdd, Between
<1>3. \A p \in Entries(e) : Chain(e.sorts, e.coes[p], p[1], p[2])
  BY DEF IsEnv
<1>4. ASSUME NEW sl \in V, <<sl, s1>> \in Entries(e)
      PROVE Chain(e.sorts, Append(e.coes[<<sl, s1>>], c), sl, s2) /\ Len(Append(e.coes[<<sl, s1>>], c)) # 1
  <2>1. Chain(e.sorts, e.coes[<<sl, s1>>], sl, s1)
    BY <1>3, <1>4
  <2> QED BY <1>2, <2>1, ChainAppend
<1>5. ASSUME NEW sr \in V, <<s2, sr>> \in Entries(e)
      PROVE Chain(e.sorts, <<c>> \o e.coes[<<s2, sr>>], s1, sr) /\ Len(<<c>> \o e.coes[<<s2, sr>>]) # 1
  <2>1. Chain(e.sorts, e.coes[<<s2, sr>>], s2, sr)
    BY <1>3, <1>5
  <2> QED BY <1>2, <2>1, ChainCons
<1>6. Chain(e.sorts, <<c>>, s1, s2)
  BY <1>2 DEF Chain
<1>7. DOMAIN todo = D
  BY <1>1
<1>8. ASSUME NEW p \in D
      PROVE /\ Chain(e.sorts, todo[p], p[1], p[2])
            /\ p # <<s1, s2>> => Len(todo[p]) # 1
  <2>0. todo[p] = IF p = <<s1, s2>> THEN <<c>>
                  ELSE IF p \in lefts THEN Append(e.coes[<<p[1], s1>>], c)
                  ELSE <<c>> \o e.coes[<<s2, p[2]>>]
    BY <1>1
  <2>1. CASE p = <<s1, s2>>
    BY <1>6, <2>0, <2>1
  <2>2. CASE p # <<s1, s2>> /\ p \in lefts
    <3>1. PICK sl \in V : p = <<sl, s2>> /\ <<sl, s1>> \in Entries(e)
      BY <2>2
    <3>2. todo[p] = Append(e.coes[<<sl, s1>>], c) /\ p[1] = sl /\ p[2] = s2
      BY <2>0, <2>2, <3>1
    <3> QED BY <1>4, <3>1, <3>2
  <2>3. CASE p # <<s1, s2>> /\ p \notin lefts
    <3>1. PICK sr \in V : p = <<s1, sr>> /\ <<s2, sr>> \in Entries(e)
      BY <2>3
    <3>2. todo[p] = <<c>> \o e.coes[<<s2, sr>>] /\ p[1] = s1 /\ p[2] = sr
      BY <2>0, <2>3, <3>1
    <3> QED BY <1>5, <3>1, <3>2
  <2> QED BY <2>1, <2>2, <2>3
<1>9. todo[<<s1, s2>>] = <<c>> /\ <<s1, s2>> \in D
  BY <1>1
<1>10. D \subseteq V \X V
  <2>1. \A sl \in V : <<sl, s2>> \in V \X V
    BY <1>2
  <2>2. \A sr \in V : <<s1, sr>> \in V \X V
    BY <1>2
  <2>3. lefts \subseteq V \X V
    BY <2>1, Zenon
  <2>4. rights \subseteq V \X V
    BY <2>2, Zenon
  <2> HIDE DEF lefts, rights
  <2> QED BY <1>2, <2>3, <2>4
<1>11. \A s, t \in V : <<s, t>> \in D <=>
             \/ s = s1 /\ t = s2
             \/ t = s2 /\ <<s, s1>> \in Entries(e)
             \/ s = s1 /\ <<s2, t>> \in Entries(e)
  BY <1>2
<1> HIDE DEF D
<1> QED BY <1>7, <1>8, <1>9, <1>10, <1>11

(* What is inserted keeps the environment, also when an error ends it.       *)
LEMMA InsertedKeepsEnv ==
  ASSUME NEW e, IsEnv(e), NEW V, V = DOMAIN e.sorts, NEW todo, NEW keys \in SUBSET (V \X V),
         \A p \in keys : Chain(e.sorts, todo[p], p[1], p[2]),
         NEW new, new.coes = Inserted(e, todo, keys), new.sorts = e.sorts, new.err \in BOOLEAN,
         new = [sorts |-> new.sorts, coes |-> new.coes, coe_prov |-> new.coe_prov, decls |-> new.decls, err |-> new.err]
  PROVE IsEnv(new)
<1>1. /\ Entries(new) = Entries(e) \cup keys
      /\ \A p \in Entries(new) : new.coes[p] = IF p \in keys THEN todo[p] ELSE e.coes[p]
  BY DEF Entries, Inserted
<1>2. Entries(new) \subseteq (DOMAIN new.sorts) \X (DOMAIN new.sorts)
  <2>1. Entries(e) \subseteq V \X V
    BY DEF IsEnv
  <2> QED BY <1>1, <2>1
<1>3. \A p \in Entries(new) : Chain(new.sorts, new.coes[p], p[1], p[2])
  BY <1>1 DEF IsEnv
<1> QED BY <1>2, <1>3 DEF IsEnv

(* update_provs keeps the environment. *)
LEMMA ProvsKeepEnv ==
  ASSUME NEW e, IsEnv(e)
  PROVE LET new == UpdateProvs(e) IN
        /\ IsEnv(new)
        /\ new.sorts = e.sorts /\ new.coes = e.coes /\ new.decls = e.decls
        /\ new.err = (e.err \/ ~ProvsOk(e, e.coes))
        /\ ProvsOk(e, e.coes) => new.coe_prov = Provs(e, e.coes)
<1> DEFINE new == UpdateProvs(e)
<1>0. e.err \in BOOLEAN /\ e = [sorts |-> e.sorts, coes |-> e.coes, coe_prov |-> e.coe_prov, decls |-> e.decls, err |-> e.err]
  BY DEF IsEnv
<1>1. /\ new = [sorts |-> new.sorts, coes |-> new.coes, coe_prov |-> new.coe_prov, decls |-> new.decls, err |-> new.err]
      /\ new.sorts = e.sorts /\ new.coes = e.coes /\ new.decls = e.decls
      /\ new.err = (e.err \/ ~ProvsOk(e, e.coes)) /\ new.err \in BOOLEAN
      /\ ProvsOk(e, e.coes) => new.coe_prov = Provs(e, e.coes)
  <2>1. CASE ProvsOk(e, e.coes)
    <3>1. new = [e EXCEPT !.coe_prov = Provs(e, e.coes)]
      BY <2>1 DEF UpdateProvs
    <3> HIDE DEF new
    <3> QED BY <1>0, <2>1, <3>1
  <2>2. CASE ~ProvsOk(e, e.coes)
    <3>1. new = [e EXCEPT !.err = TRUE]
      BY <2>2 DEF UpdateProvs
    <3> HIDE DEF new
    <3> QED BY <1>0, <2>2, <3>1
  <2> QED BY <2>1, <2>2
<1> HIDE DEF new
<1>2. IsEnv(new)
  BY <1>1 DEF IsEnv, Entries
<1> QED BY <1>1, <1>2 DEF new

(* What add_coe leaves: an error; or the same entries, the coercion being    *)
(* there; or the new entries with the old ones, none of these bad.           *)
LEMMA AddCoeIs ==
  ASSUME NEW e, IsEnv(e), NEW s1, NEW s2, NEW c, CanAdd(e, s1, s2, c),
         NEW V, V = DOMAIN e.sorts, NEW todo, todo = Todo(e, s1, s2, c),
         NEW new \in AddCoe(e, s1, s2, c)
  PROVE /\ IsEnv(new)
        /\ new.sorts = e.sorts /\ new.decls = e.decls
        /\ e.err => new.err
        /\ ~new.err =>
             /\ ProvsOk(e, new.coes)
             /\ new.coe_prov = Provs(e, new.coes)
             /\ \/ IsOne(e, <<s1, s2>>) /\ e.coes[<<s1, s2>>] = <<c>> /\ new.coes = e.coes
                \/ (\A p \in DOMAIN todo : ~Bad(e, p)) /\ new.coes = Inserted(e, todo, DOMAIN todo)
        /\ (new.err /\ ~e.err) =>
             \/ IsOne(e, <<s1, s2>>) /\ e.coes[<<s1, s2>>] = <<c>> /\ ~ProvsOk(e, e.coes)
             \/ \E p \in DOMAIN todo : Bad(e, p)
             \/ /\ \A p \in DOMAIN todo : ~Bad(e, p)
                /\ ~ProvsOk(e, Inserted(e, todo, DOMAIN todo))
<1>0. e.err \in BOOLEAN /\ e = [sorts |-> e.sorts, coes |-> e.coes, coe_prov |-> e.coe_prov, decls |-> e.decls, err |-> e.err]
  BY DEF IsEnv
<1> DEFINE same == IsOne(e, <<s1, s2>>) /\ e.coes[<<s1, s2>>] = <<c>>
           bad == \E p \in DOMAIN todo : Bad(e, p)
<1>1. DOMAIN todo \subseteq V \X V /\ (\A p \in DOMAIN todo : Chain(e.sorts, todo[p], p[1], p[2]))
      /\ <<s1, s2>> \in DOMAIN todo
  BY TodoIs
<1>2. CASE same
  <2>1. new = UpdateProvs(e)
    BY <1>2 DEF AddCoe
  <2>2. ProvsOk(e, e.coes) \/ ~ProvsOk(e, e.coes)
    OBVIOUS
  <2> QED BY <1>0, <1>2, <2>1, <2>2, ProvsKeepEnv
<1>3. CASE ~same /\ bad
  <2>1. PICK keys \in InsertedBeforeError(e, todo, s1, s2) :
          new = [e EXCEPT !.coes = Inserted(e, todo, keys), !.err = TRUE]
    BY <1>3 DEF AddCoe
  <2>2. keys \subseteq DOMAIN todo
    BY <1>1 DEF InsertedBeforeError
  <2>3. /\ new = [sorts |-> new.sorts, coes |-> new.coes, coe_prov |-> new.coe_prov, decls |-> new.decls, err |-> new.err]
        /\ new.sorts = e.sorts /\ new.decls = e.decls /\ new.err = TRUE
        /\ new.coes = Inserted(e, todo, keys)
    BY <1>0, <2>1
  <2>4. keys \in SUBSET (V \X V) /\ \A p \in keys : Chain(e.sorts, todo[p], p[1], p[2])
    BY <1>1, <2>2
  <2>5. IsEnv(new)
    BY <2>3, <2>4, InsertedKeepsEnv
  <2> QED BY <1>3, <2>3, <2>5
<1>4. CASE ~same /\ ~bad
  <2> DEFINE f == [e EXCEPT !.coes = Inserted(e, todo, DOMAIN todo)]
  <2>1. new = UpdateProvs(f)
    BY <1>4 DEF AddCoe
  <2>2. /\ f = [sorts |-> f.sorts, coes |-> f.coes, coe_prov |-> f.coe_prov, decls |-> f.decls, err |-> f.err]
        /\ f.sorts = e.sorts /\ f.decls = e.decls /\ f.err = e.err
        /\ f.coes = Inserted(e, todo, DOMAIN todo)
    BY <1>0
  <2> HIDE DEF f
  <2>3. IsEnv(f)
    BY <1>0, <1>1, <2>2, InsertedKeepsEnv
  <2>4. \A k : ProvsOk(f, k) = ProvsOk(e, k) /\ Provs(f, k) = Provs(e, k)
    BY <2>2 DEF ProvsOk, Provs, Targets
  <2>5. /\ IsEnv(new)
        /\ new.sorts = f.sorts /\ new.coes = f.coes /\ new.decls = f.decls
        /\ new.err = (f.err \/ ~ProvsOk(f, f.coes))
        /\ ProvsOk(f, f.coes) => new.coe_prov = Provs(f, f.coes)
    BY <2>1, <2>3, ProvsKeepEnv
  <2> QED BY <1>0, <1>4, <2>2, <2>4, <2>5
<1> QED BY <1>2, <1>3, <1>4

LEMMA AddCoeKeepsEnv ==
  ASSUME NEW e, IsEnv(e), NEW s1, NEW s2, NEW c, CanAdd(e, s1, s2, c), NEW new \in AddCoe(e, s1, s2, c)
  PROVE IsEnv(new) /\ new.sorts = e.sorts /\ new.decls = e.decls /\ (e.err => new.err)
<1> DEFINE V == DOMAIN e.sorts
           todo == Todo(e, s1, s2, c)
<1>1. V = DOMAIN e.sorts /\ todo = Todo(e, s1, s2, c)
  OBVIOUS
<1> HIDE DEF V, todo
<1>2. /\ IsEnv(new)
      /\ new.sorts = e.sorts /\ new.decls = e.decls
      /\ e.err => new.err
      /\ ~new.err =>
             /\ ProvsOk(e, new.coes)
             /\ new.coe_prov = Provs(e, new.coes)
             /\ \/ IsOne(e, <<s1, s2>>) /\ e.coes[<<s1, s2>>] = <<c>> /\ new.coes = e.coes
                \/ (\A p \in DOMAIN todo : ~Bad(e, p)) /\ new.coes = Inserted(e, todo, DOMAIN todo)
  BY <1>1, AddCoeIs
<1> QED BY <1>2

(* If no entry is bad, the table grows as it should. *)
LEMMA NoneBadGrows ==
  ASSUME NEW e, IsEnv(e), NEW s1, NEW s2, NEW c, CanAdd(e, s1, s2, c),
         NEW V, V = DOMAIN e.sorts, NEW todo, todo = Todo(e, s1, s2, c),
         NEW new, new.coes = Inserted(e, todo, DOMAIN todo)
  PROVE /\ Entries(new) = Grown(V, Entries(e), s1, s2)
        /\ (\A p \in DOMAIN todo : ~Bad(e, p)) => Ones(new) = Ones(e) \cup {<<s1, s2>>}
<1>1. /\ \A s, t \in V : <<s, t>> \in DOMAIN todo <=>
             \/ s = s1 /\ t = s2
             \/ t = s2 /\ <<s, s1>> \in Entries(e)
             \/ s = s1 /\ <<s2, t>> \in Entries(e)
      /\ DOMAIN todo \subseteq V \X V
      /\ \A p \in DOMAIN todo : p # <<s1, s2>> => Len(todo[p]) # 1
      /\ <<s1, s2>> \in DOMAIN todo
      /\ todo[<<s1, s2>>] = <<c>>
  BY TodoIs
<1>2. Entries(e) \subseteq V \X V /\ s1 \in V /\ s2 \in V
  BY DEF IsEnv, CanAdd
<1>3. Entries(new) = Entries(e) \cup DOMAIN todo
      /\ \A p \in Entries(new) : new.coes[p] = IF p \in DOMAIN todo THEN todo[p] ELSE e.coes[p]
  BY DEF Entries, Inserted
<1>4. Entries(new) = Grown(V, Entries(e), s1, s2)
  <2>1. \A p \in V \X V : p = <<p[1], p[2]>> /\ p[1] \in V /\ p[2] \in V
    OBVIOUS
  <2>2. \A p \in V \X V : p \in DOMAIN todo <=>
           (p = <<s1, s2>> \/ (p[2] = s2 /\ <<p[1], s1>> \in Entries(e)) \/ (p[1] = s1 /\ <<s2, p[2]>> \in Entries(e)))
    BY <1>1, <2>1
  <2>3. DOMAIN todo = {p \in V \X V : (\/ p = <<s1, s2>>
                                       \/ p[2] = s2 /\ <<p[1], s1>> \in Entries(e)
                                       \/ p[1] = s1 /\ <<s2, p[2]>> \in Entries(e))}
    BY <1>1, <2>2
  <2> QED BY <1>3, <2>3 DEF Grown
<1>5. ASSUME \A p \in DOMAIN todo : ~Bad(e, p)
      PROVE Ones(new) = Ones(e) \cup {<<s1, s2>>}
  <2>1. \A p \in DOMAIN todo : p \notin Entries(e)
    BY <1>5 DEF Bad
  <2>2. Len(todo[<<s1, s2>>]) = 1
    BY <1>1
  <2> QED BY <1>1, <1>3, <2>1, <2>2 DEF Ones
<1> QED BY <1>4, <1>5

(* No entry is bad just when the table admits the new edge. *)
LEMMA NoneBadAdmits ==
  ASSUME NEW e, IsEnv(e), NEW s1, NEW s2, NEW c, CanAdd(e, s1, s2, c),
         NEW V, V = DOMAIN e.sorts, NEW todo, todo = Todo(e, s1, s2, c)
  PROVE (\A p \in DOMAIN todo : ~Bad(e, p)) <=> Admits(V, Entries(e), s1, s2)
<1>0. /\ \A s, t \in V : <<s, t>> \in DOMAIN todo <=>
             \/ s = s1 /\ t = s2
             \/ t = s2 /\ <<s, s1>> \in Entries(e)
             \/ s = s1 /\ <<s2, t>> \in Entries(e)
      /\ DOMAIN todo \subseteq V \X V
      /\ \A p \in DOMAIN todo : p # <<s1, s2>> => Len(todo[p]) # 1
      /\ <<s1, s2>> \in DOMAIN todo
      /\ todo[<<s1, s2>>] = <<c>>
  BY TodoIs
<1>1. \A s, t \in V : <<s, t>> \in DOMAIN todo <=>
             \/ s = s1 /\ t = s2
             \/ t = s2 /\ <<s, s1>> \in Entries(e)
             \/ s = s1 /\ <<s2, t>> \in Entries(e)
  BY <1>0
<1>2. s1 \in V /\ s2 \in V
  BY DEF CanAdd
<1>3. (\A p \in DOMAIN todo : ~Bad(e, p)) <=>
        \A s, t \in V : <<s, t>> \in DOMAIN todo => s # t /\ <<s, t>> \notin Entries(e)
  <2>1. \A p \in V \X V : p = <<p[1], p[2]>> /\ p[1] \in V /\ p[2] \in V
    OBVIOUS
  <2>2. \A s, t \in V : Bad(e, <<s, t>>) <=> (s = t \/ <<s, t>> \in Entries(e))
    BY DEF Bad
  <2> QED BY <1>0, <2>1, <2>2
<1>4. (\A s, t \in V : <<s, t>> \in DOMAIN todo => s # t /\ <<s, t>> \notin Entries(e))
        <=> Admits(V, Entries(e), s1, s2)
  BY <1>1, <1>2 DEF Admits
<1> QED BY <1>3, <1>4

LEMMA EnvThree ==
  ASSUME NEW e, IsEnv(e), Len(e.sorts) <= 3
  PROVE AtMostThree(DOMAIN e.sorts)
<1>1. DOMAIN e.sorts = 1..Len(e.sorts) /\ Len(e.sorts) \in Nat /\ Len(e.sorts) <= 3
  BY CoercionsAssumption DEF IsEnv
<1> QED BY <1>1 DEF AtMostThree

(* add_coe keeps the entries exact: c may be a new declaration, or one of    *)
(* those left to be added.                                                  *)
LEMMA AddCoeExact ==
  ASSUME NEW e, IsEnv(e), NEW left, Exact(e, left),
         NEW s1, NEW s2, NEW c, CanAdd(e, s1, s2, c), NEW new \in AddCoe(e, s1, s2, c),
         NEW f, f.sorts = new.sorts, f.coes = new.coes, f.coe_prov = new.coe_prov, f.err = new.err,
         e.decls \subseteq f.decls, \A d \in f.decls : d \in e.decls \/ d = c,
         \E d \in f.decls : Between(e, d, <<s1, s2>>),
         NEW left2, left2 \cup {<<s1, s2>>} = left \cup {<<s1, s2>>}
  PROVE Exact(f, left2)
<1> DEFINE V == DOMAIN e.sorts
           todo == Todo(e, s1, s2, c)
           p == <<s1, s2>>
<1>1. SUFFICES ASSUME ~f.err
      PROVE /\ Len(f.sorts) <= 3 => IsTable(DOMAIN f.sorts, Ones(f), Entries(f))
            /\ \A d \in f.decls : \E q \in Ones(f) \cup left2 : Between(f, d, q)
            /\ \A q \in Ones(f) \cup left2 : \E d \in f.decls : Between(f, d, q)
            /\ ProvsOk(f, f.coes)
            /\ f.coe_prov = Provs(f, f.coes)
  BY DEF Exact
<1>2. /\ IsEnv(new)
      /\ new.sorts = e.sorts /\ ~e.err
      /\ ProvsOk(e, new.coes)
      /\ new.coe_prov = Provs(e, new.coes)
      /\ \/ IsOne(e, p) /\ e.coes[p] = <<c>> /\ new.coes = e.coes
         \/ (\A q \in DOMAIN todo : ~Bad(e, q)) /\ new.coes = Inserted(e, todo, DOMAIN todo)
  BY <1>1, AddCoeIs DEF IsEnv
<1>3. /\ Len(e.sorts) <= 3 => IsTable(V, Ones(e), Entries(e))
      /\ \A d \in e.decls : \E q \in Ones(e) \cup left : Between(e, d, q)
      /\ \A q \in Ones(e) \cup left : \E d \in e.decls : Between(e, d, q)
  BY <1>2 DEF Exact
<1>4. ProvsOk(f, f.coes) /\ f.coe_prov = Provs(f, f.coes)
  BY <1>2 DEF ProvsOk, Provs, Targets
<1>5. (Len(e.sorts) <= 3 => IsTable(V, Ones(f), Entries(f))) /\ Ones(f) = Ones(e) \cup {p}
  <2>1. CASE IsOne(e, p) /\ e.coes[p] = <<c>> /\ new.coes = e.coes
    <3>1. Entries(f) = Entries(e) /\ Ones(f) = Ones(e)
      BY <2>1 DEF Entries, Ones
    <3>2. p \in Ones(e)
      BY <2>1 DEF IsOne, Ones
    <3> QED BY <1>3, <3>1, <3>2
  <2>2. CASE (\A q \in DOMAIN todo : ~Bad(e, q)) /\ new.coes = Inserted(e, todo, DOMAIN todo)
    <3>1. Entries(f) = Grown(V, Entries(e), s1, s2) /\ Ones(f) = Ones(e) \cup {p}
      BY <2>2, NoneBadGrows
    <3>2. Admits(V, Entries(e), s1, s2)
      BY <2>2, NoneBadAdmits
    <3>3. s1 \in V /\ s2 \in V
      BY DEF CanAdd
    <3>4. Len(e.sorts) <= 3 => AtMostThree(V)
      BY EnvThree
    <3> HIDE DEF V, todo
    <3> QED BY <1>3, <3>1, <3>2, <3>3, <3>4, TableGrows
  <2> QED BY <1>2, <2>1, <2>2
<1>6. Ones(f) \cup left2 = Ones(e) \cup left \cup {p}
  BY <1>5
<1>7. Between(e, c, p)
  BY DEF CanAdd
<1>8. \A d, q : Between(f, d, q) = Between(e, d, q)
  BY <1>2 DEF Between
<1>9. \A d \in f.decls : \E q \in Ones(f) \cup left2 : Between(f, d, q)
  BY <1>3, <1>6, <1>7, <1>8
<1>10. \A q \in Ones(f) \cup left2 : \E d \in f.decls : Between(f, d, q)
  BY <1>3, <1>6, <1>8
<1> QED BY <1>2, <1>4, <1>5, <1>9, <1>10

(* A new sort has no entries. *)
LEMMA DeclareSortKeeps ==
  ASSUME RsInv, NEW n \in Names, DeclareSort(n), Len(cur.sorts) < NumSorts
  PROVE RsInv'
<1>1. /\ ~merging /\ pending = {} /\ UNCHANGED <<done, pending, merging, own>>
      /\ cur' = [cur EXCEPT !.sorts = Append(cur.sorts, n)]
      /\ \A s \in DOMAIN cur.sorts : cur.sorts[s] # n
  BY DEF RsInv, DeclareSort, WithSort, HasSort
<1>2. IsEnv(cur) /\ Exact(cur, {})
  BY <1>1 DEF RsInv, LeftToAdd
<1> DEFINE L == Len(cur.sorts)
<1>3. cur.sorts \in Seq(Names) /\ L \in Nat /\ DOMAIN cur.sorts = 1..L /\ L < NumSorts /\ NumSorts \in Nat
  BY <1>2, CoercionsAssumption DEF IsEnv
<1>4. /\ Append(cur.sorts, n) \in Seq(Names) /\ Len(Append(cur.sorts, n)) = L + 1
      /\ \A k \in 1..L : Append(cur.sorts, n)[k] = cur.sorts[k]
      /\ Append(cur.sorts, n)[L + 1] = n
  BY <1>3, AppendProperties
<1>5. /\ cur' = [sorts |-> cur'.sorts, coes |-> cur'.coes, coe_prov |-> cur'.coe_prov, decls |-> cur'.decls, err |-> cur'.err]
      /\ cur'.sorts = Append(cur.sorts, n)
      /\ cur'.coes = cur.coes /\ cur'.coe_prov = cur.coe_prov /\ cur'.decls = cur.decls /\ cur'.err = cur.err
  BY <1>1, <1>2 DEF IsEnv
<1> DEFINE V == DOMAIN cur.sorts
           W == DOMAIN cur'.sorts
<1>6. W = 1..(L + 1) /\ V = 1..L /\ \A k \in V : cur'.sorts[k] = cur.sorts[k]
  BY <1>3, <1>4, <1>5
<1>7. \A s, t \in W : cur'.sorts[s] = cur'.sorts[t] => s = t
  <2> SUFFICES ASSUME NEW s \in W, NEW t \in W, cur'.sorts[s] = cur'.sorts[t], s # t PROVE FALSE
    OBVIOUS
  <2>1. \A k \in W : k \in V \/ k = L + 1
    BY <1>3, <1>6
  <2>2. cur'.sorts[L + 1] = n
    BY <1>4, <1>5
  <2> QED BY <1>1, <1>2, <1>6, <2>1, <2>2 DEF IsEnv
<1>8. Entries(cur') = Entries(cur) /\ Ones(cur') = Ones(cur) /\ Entries(cur) \subseteq V \X V
  BY <1>2, <1>5 DEF Entries, Ones, IsEnv
<1>9. ASSUME NEW q \in Entries(cur)
      PROVE Chain(cur'.sorts, cur'.coes[q], q[1], q[2]) /\ q \in W \X W
  <2>1. Chain(cur.sorts, cur.coes[q], q[1], q[2])
    BY <1>2 DEF IsEnv
  <2>2. q[1] \in V /\ q[2] \in V
    BY <1>8
  <2>3. V \subseteq W
    BY <1>3, <1>6
  <2>4. q \in V \X V
    BY <1>8
  <2>5. Chain(cur'.sorts, cur'.coes[q], q[1], q[2])
    BY <1>5, <1>6, <2>1, <2>2 DEF Chain
  <2>6. V \X V \subseteq W \X W
    BY <2>3
  <2> QED BY <2>4, <2>5, <2>6
<1>10. IsEnv(cur')
  <2>1. cur'.sorts \in Seq(Names) /\ Len(cur'.sorts) <= NumSorts
    BY <1>3, <1>4, <1>5
  <2>2. cur'.err \in BOOLEAN
    BY <1>2, <1>5 DEF IsEnv
  <2> HIDE DEF L, V
  <2> QED BY <1>5, <1>7, <1>8, <1>9, <2>1, <2>2 DEF IsEnv
<1>11. Exact(cur', {})
  <2>1. SUFFICES ASSUME ~cur.err
        PROVE /\ Len(cur'.sorts) <= 3 => IsTable(W, Ones(cur), Entries(cur))
              /\ \A c \in cur.decls : \E q \in Ones(cur) \cup {} : Between(cur', c, q)
              /\ \A q \in Ones(cur) \cup {} : \E c \in cur.decls : Between(cur', c, q)
              /\ ProvsOk(cur', cur.coes)
              /\ cur.coe_prov = Provs(cur', cur.coes)
    BY <1>5, <1>8 DEF Exact
  <2>2. /\ L <= 3 => IsTable(V, Ones(cur), Entries(cur))
        /\ \A c \in cur.decls : \E q \in Ones(cur) : Between(cur, c, q)
        /\ \A q \in Ones(cur) : \E c \in cur.decls : Between(cur, c, q)
        /\ ProvsOk(cur, cur.coes)
        /\ cur.coe_prov = Provs(cur, cur.coes)
    BY <1>2, <2>1 DEF Exact
  <2>3. \A q \in Ones(cur) : q[1] \in V /\ q[2] \in V
    BY <1>8 DEF Ones
  <2>4. \A q \in Ones(cur) : \A c : Between(cur', c, q) <=> Between(cur, c, q)
    BY <1>6, <2>3 DEF Between
  <2>5. V \subseteq W
    BY <1>3, <1>6
  <2>6. Len(cur'.sorts) <= 3 => IsTable(W, Ones(cur), Entries(cur))
    BY <1>3, <1>4, <1>5, <2>2, <2>5, TableWider
  <2>7. \A s, t : <<s, t>> \in DOMAIN cur.coes => s \in V /\ t \in V
    BY <1>8 DEF Entries
  <2>8. \A s : Targets(cur', cur.coes, s) = Targets(cur, cur.coes, s)
    BY <1>6, <2>5, <2>7 DEF Targets
  <2>9. \A s : s \notin V => Targets(cur, cur.coes, s) = {}
    BY <2>7 DEF Targets
  <2>10. ProvsOk(cur', cur.coes)
    BY <2>2, <2>8, <2>9 DEF ProvsOk
  <2>11. {s \in W : Targets(cur', cur.coes, s) # {}} = {s \in V : Targets(cur, cur.coes, s) # {}}
    BY <2>5, <2>8, <2>9
  <2>12. Provs(cur', cur.coes) = Provs(cur, cur.coes)
    BY <2>8, <2>11 DEF Provs
  <2> QED BY <2>2, <2>4, <2>6, <2>10, <2>12
<1>12. LeftToAdd' = {} /\ IsDone' /\ own' \in Nat /\ merging' \in BOOLEAN /\ ~merging' /\ pending' = {}
  BY <1>1 DEF RsInv, LeftToAdd, IsDone
<1> QED BY <1>10, <1>11, <1>12 DEF RsInv

(* The sort of a name, and what a coercion declared between two names is.    *)
LEMMA IdIs ==
  ASSUME NEW e, NEW n, HasSort(e, n)
  PROVE IdOf(e, n) \in DOMAIN e.sorts /\ e.sorts[IdOf(e, n)] = n
BY DEF HasSort, IdOf

NewCoe(m, n) == [site |-> <<Len(done) + 1, own + 1>>, from |-> m, to |-> n]

LEMMA NewCoeIs ==
  ASSUME RsInv, NEW m \in Names, NEW n \in Names, DeclareCoercion(m, n)
  PROVE /\ CanAdd(cur, IdOf(cur, m), IdOf(cur, n), NewCoe(m, n))
        /\ \E e \in AddCoe(cur, IdOf(cur, m), IdOf(cur, n), NewCoe(m, n)) :
             cur' = [e EXCEPT !.decls = e.decls \cup {NewCoe(m, n)}]
<1> DEFINE c == NewCoe(m, n)
<1>1. Len(done) \in Nat /\ own \in Nat
  BY DEF RsInv, IsDone
<1>2. c \in Coe /\ c.from = m /\ c.to = n
  BY <1>1 DEF Coe, NewCoe
<1>3. HasSort(cur, m) /\ HasSort(cur, n)
  BY DEF DeclareCoercion
<1>4. CanAdd(cur, IdOf(cur, m), IdOf(cur, n), c)
  BY <1>2, <1>3, IdIs DEF CanAdd, Between
<1>5. cur' \in {[e EXCEPT !.decls = @ \cup {c}] : e \in AddCoe(cur, IdOf(cur, m), IdOf(cur, n), c)}
  BY DEF DeclareCoercion, NewCoe
<1> QED BY <1>4, <1>5

LEMMA DeclareCoercionKeeps ==
  ASSUME RsInv, NEW m \in Names, NEW n \in Names, DeclareCoercion(m, n)
  PROVE RsInv'
<1> DEFINE c == NewCoe(m, n)
           s1 == IdOf(cur, m)
           s2 == IdOf(cur, n)
<1>1. ~merging /\ pending = {} /\ UNCHANGED <<done, pending, merging>> /\ own' = own + 1
  BY DEF RsInv, DeclareCoercion
<1>2. IsEnv(cur) /\ Exact(cur, {})
  BY <1>1 DEF RsInv, LeftToAdd
<1>3. CanAdd(cur, s1, s2, c)
  BY NewCoeIs
<1>4. PICK e \in AddCoe(cur, s1, s2, c) : cur' = [e EXCEPT !.decls = e.decls \cup {c}]
  BY NewCoeIs
<1> HIDE DEF c, s1, s2
<1>5. IsEnv(e) /\ e.sorts = cur.sorts /\ e.decls = cur.decls
  BY <1>2, <1>3, <1>4, AddCoeKeepsEnv
<1>6. /\ cur' = [sorts |-> cur'.sorts, coes |-> cur'.coes, coe_prov |-> cur'.coe_prov, decls |-> cur'.decls, err |-> cur'.err]
      /\ cur'.sorts = e.sorts /\ cur'.coes = e.coes /\ cur'.coe_prov = e.coe_prov /\ cur'.err = e.err
      /\ cur'.decls = cur.decls \cup {c}
  BY <1>4, <1>5 DEF IsEnv
<1>7. IsEnv(cur')
  BY <1>5, <1>6 DEF IsEnv, Entries
<1>8. Exact(cur', {})
  <2>1. c \in cur'.decls /\ cur.decls \subseteq cur'.decls /\ \A d \in cur'.decls : d \in cur.decls \/ d = c
    BY <1>6
  <2>2. Between(cur, c, <<s1, s2>>)
    BY <1>3 DEF CanAdd
  <2>3. \E d \in cur'.decls : Between(cur, d, <<s1, s2>>)
    BY <2>1, <2>2
  <2> QED BY <1>2, <1>3, <1>4, <1>6, <2>1, <2>3, AddCoeExact
<1>9. LeftToAdd' = {} /\ IsDone' /\ own' \in Nat /\ merging' \in BOOLEAN /\ ~merging' /\ pending' = {}
  BY <1>1 DEF RsInv, LeftToAdd, IsDone
<1> QED BY <1>7, <1>8, <1>9 DEF RsInv

(* An import into an empty environment: all that was declared is left to add. *)
LEMMA ImportKeeps ==
  ASSUME RsInv, ~ImportAnytime, NEW j \in DOMAIN done, Import(j)
  PROVE RsInv'
<1> DEFINE old == done[j]
<1>1. /\ ~merging /\ merging' = TRUE /\ cur = Empty /\ UNCHANGED <<done, own>>
      /\ cur' = [cur EXCEPT !.sorts = WithSorts(cur.sorts, old.sorts), !.decls = cur.decls \cup old.decls,
                            !.err = cur.err \/ old.err]
      /\ pending' = {<<p, old.coes[p][1]>> : p \in {p \in Entries(old) : IsOne(old, p)}}
  BY DEF Import
<1>2. IsEnv(old) /\ Exact(old, {})
  <2>1. PICK S : done \in Seq(S) /\ \A e \in S : IsEnv(e) /\ Exact(e, {})
    BY DEF RsInv, IsDone
  <2>2. done[j] \in S
    BY <2>1
  <2> QED BY <2>1, <2>2
<1> HIDE DEF old
<1>3. WithSorts(<<>>, old.sorts) = old.sorts
  BY <1>2, WithAllSorts DEF IsEnv
<1>4. /\ cur' = [sorts |-> cur'.sorts, coes |-> cur'.coes, coe_prov |-> cur'.coe_prov, decls |-> cur'.decls, err |-> cur'.err]
      /\ cur'.sorts = old.sorts /\ cur'.coes = [p \in {} |-> <<>>] /\ cur'.coe_prov = [s \in {} |-> 0]
      /\ cur'.decls = old.decls /\ cur'.err = (FALSE \/ old.err)
  BY <1>1, <1>3 DEF Empty
<1>5. cur'.err = old.err /\ cur'.err \in BOOLEAN
  BY <1>2, <1>4 DEF IsEnv
<1>6. Entries(cur') = {} /\ Ones(cur') = {}
  BY <1>4 DEF Entries, Ones
<1>7. IsEnv(cur')
  BY <1>2, <1>4, <1>5, <1>6 DEF IsEnv
<1>8. {p \in Entries(old) : IsOne(old, p)} = Ones(old)
  BY DEF IsOne, Ones
<1>9. LeftToAdd' = Ones(old)
  <2>1. pending' = {<<p, old.coes[p][1]>> : p \in Ones(old)}
    BY <1>1, <1>8
  <2>2. \A x : x \in pending' <=> \E p \in Ones(old) : x = <<p, old.coes[p][1]>>
    BY <2>1
  <2>3. \A q : q \in {x[1] : x \in pending'} <=> q \in Ones(old)
    <3>1. ASSUME NEW q \in Ones(old) PROVE q \in {x[1] : x \in pending'}
      <4>1. <<q, old.coes[q][1]>> \in pending' /\ <<q, old.coes[q][1]>>[1] = q
        BY <2>2
      <4> QED BY <4>1, Zenon
    <3>2. ASSUME NEW x \in pending' PROVE x[1] \in Ones(old)
      BY <2>2
    <3> QED BY <3>1, <3>2
  <2> QED BY <2>3 DEF LeftToAdd
<1>10. \A x \in pending' :
        /\ x[1] \in (DOMAIN cur'.sorts) \X (DOMAIN cur'.sorts)
        /\ x[2] \in Coe
        /\ Between(cur', x[2], x[1])
  <2> SUFFICES ASSUME NEW p \in Ones(old)
               PROVE /\ p \in (DOMAIN old.sorts) \X (DOMAIN old.sorts)
                     /\ old.coes[p][1] \in Coe
                     /\ Between(cur', old.coes[p][1], p)
    BY <1>1, <1>4, <1>8
  <2>1. p \in Entries(old) /\ Len(old.coes[p]) = 1
    BY DEF Ones
  <2>2. Chain(old.sorts, old.coes[p], p[1], p[2])
    BY <1>2, <2>1 DEF IsEnv
  <2>3. p \in (DOMAIN old.sorts) \X (DOMAIN old.sorts)
    BY <1>2, <2>1 DEF IsEnv
  <2>4. old.coes[p][1] \in Coe /\ old.coes[p][1].from = old.sorts[p[1]] /\ old.coes[p][1].to = old.sorts[p[2]]
    BY <2>1, <2>2 DEF Chain
  <2> QED BY <1>4, <2>3, <2>4 DEF Between
<1>11. Exact(cur', LeftToAdd')
  <2>1. SUFFICES ASSUME ~old.err
        PROVE /\ Len(old.sorts) <= 3 => IsTable(DOMAIN old.sorts, {}, {})
              /\ \A c \in old.decls : \E q \in {} \cup Ones(old) : Between(cur', c, q)
              /\ \A q \in {} \cup Ones(old) : \E c \in old.decls : Between(cur', c, q)
              /\ ProvsOk(cur', cur'.coes)
              /\ cur'.coe_prov = Provs(cur', cur'.coes)
    BY <1>4, <1>5, <1>6, <1>9 DEF Exact
  <2>2. /\ \A c \in old.decls : \E q \in Ones(old) \cup {} : Between(old, c, q)
        /\ \A q \in Ones(old) \cup {} : \E c \in old.decls : Between(old, c, q)
    BY <1>2, <2>1 DEF Exact
  <2>3. \A c, q : Between(cur', c, q) = Between(old, c, q)
    BY <1>4 DEF Between
  <2>4. \A s : Targets(cur', cur'.coes, s) = {}
    BY <1>4 DEF Targets
  <2>5. ProvsOk(cur', cur'.coes)
    BY <2>4 DEF ProvsOk
  <2>6. {s \in DOMAIN cur'.sorts : Targets(cur', cur'.coes, s) # {}} = {}
    BY <2>4
  <2>7. Provs(cur', cur'.coes) = [s \in {} |-> 0]
    BY <2>6 DEF Provs
  <2>8. IsTable(DOMAIN old.sorts, {}, {})
    BY DEF IsTable
  <2> QED BY <1>4, <2>2, <2>3, <2>5, <2>7, <2>8
<1>12. IsDone' /\ own' \in Nat /\ merging' \in BOOLEAN /\ merging'
  BY <1>1 DEF RsInv, IsDone
<1> QED BY <1>7, <1>10, <1>11, <1>12 DEF RsInv

LEMMA MergeCoercionKeeps ==
  ASSUME RsInv, NEW m \in pending, MergeCoercion(m)
  PROVE RsInv'
<1> DEFINE s1 == m[1][1]
           s2 == m[1][2]
           c == m[2]
<1>1. merging /\ UNCHANGED <<done, merging, own>> /\ pending' = pending \ {m} /\ cur' \in AddCoe(cur, s1, s2, c)
  BY DEF MergeCoercion
<1>2. IsEnv(cur) /\ Exact(cur, LeftToAdd)
  BY DEF RsInv
<1>3. m[1] = <<s1, s2>> /\ CanAdd(cur, s1, s2, c)
  BY DEF RsInv, CanAdd
<1>4. IsEnv(cur') /\ cur'.sorts = cur.sorts /\ cur'.decls = cur.decls /\ (cur.err => cur'.err)
  BY <1>1, <1>2, <1>3, AddCoeKeepsEnv
<1>5. LeftToAdd' \cup {m[1]} = LeftToAdd \cup {m[1]} /\ m[1] \in LeftToAdd
  BY <1>1 DEF LeftToAdd
<1>6. Exact(cur', LeftToAdd')
  <2>1. SUFFICES ASSUME ~cur.err PROVE Exact(cur', LeftToAdd')
    BY <1>2, <1>4 DEF Exact, IsEnv
  <2>2. \E d \in cur.decls : Between(cur, d, <<s1, s2>>)
    BY <1>2, <1>3, <1>5, <2>1 DEF Exact
  <2> HIDE DEF s1, s2, c
  <2> QED BY <1>1, <1>2, <1>3, <1>4, <1>5, <2>2, AddCoeExact
<1>7. \A x \in pending' :
        /\ x[1] \in (DOMAIN cur'.sorts) \X (DOMAIN cur'.sorts)
        /\ x[2] \in Coe
        /\ Between(cur', x[2], x[1])
  BY <1>1, <1>4 DEF RsInv, Between
<1>8. IsDone' /\ own' \in Nat /\ merging' \in BOOLEAN /\ merging'
  BY <1>1 DEF RsInv, IsDone
<1> QED BY <1>4, <1>6, <1>7, <1>8 DEF RsInv

LEMMA MergeEndKeeps ==
  ASSUME RsInv, MergeEnd
  PROVE RsInv'
<1>1. pending = {} /\ ~merging' /\ cur' = UpdateProvs(cur) /\ UNCHANGED <<done, pending, own>> /\ merging' = FALSE
  BY DEF MergeEnd
<1>2. IsEnv(cur) /\ Exact(cur, {}) /\ LeftToAdd' = {}
  BY <1>1 DEF RsInv, LeftToAdd
<1>3. /\ IsEnv(cur')
      /\ cur'.sorts = cur.sorts /\ cur'.coes = cur.coes /\ cur'.decls = cur.decls
      /\ cur'.err = (cur.err \/ ~ProvsOk(cur, cur.coes))
      /\ ProvsOk(cur, cur.coes) => cur'.coe_prov = Provs(cur, cur.coes)
  BY <1>1, <1>2, ProvsKeepEnv
<1>4. Exact(cur', {})
  <2>1. SUFFICES ASSUME ~cur'.err PROVE Exact(cur', {})
    BY DEF Exact
  <2>2. ~cur.err /\ cur.coe_prov = Provs(cur, cur.coes) /\ ProvsOk(cur, cur.coes)
    BY <1>2, <1>3, <2>1 DEF Exact, IsEnv
  <2>3. cur'.err = cur.err /\ cur'.coe_prov = cur.coe_prov
    BY <1>2, <1>3, <2>2 DEF IsEnv
  <2>4. cur' = cur
    BY <1>2, <1>3, <2>3 DEF IsEnv
  <2> QED BY <1>2, <2>4
<1>5. IsDone' /\ own' \in Nat /\ merging' \in BOOLEAN
  BY <1>1 DEF RsInv, IsDone
<1> QED BY <1>1, <1>2, <1>3, <1>4, <1>5 DEF RsInv

LEMMA EmptyIsEnv == IsEnv(Empty) /\ Exact(Empty, {})
<1>1. Entries(Empty) = {} /\ Ones(Empty) = {} /\ DOMAIN Empty.sorts = {}
  BY DEF Empty, Entries, Ones
<1>2. IsEnv(Empty)
  <2>1. Len(Empty.sorts) <= NumSorts /\ Empty.sorts \in Seq(Names)
    BY CoercionsAssumption DEF Empty
  <2> QED BY <1>1, <2>1 DEF IsEnv, Empty
<1>3. ProvsOk(Empty, Empty.coes)
  BY <1>1 DEF ProvsOk
<1>4. {s \in DOMAIN Empty.sorts : Targets(Empty, Empty.coes, s) # {}} = {}
  BY <1>1
<1>5. Empty.coe_prov = Provs(Empty, Empty.coes)
  <2>1. Empty.coe_prov = [s \in {} |-> 0]
    BY DEF Empty
  <2> QED BY <1>4, <2>1 DEF Provs
<1>6. IsTable(DOMAIN Empty.sorts, Ones(Empty), Entries(Empty))
  BY <1>1 DEF IsTable
<1>7. Empty.decls = {}
  BY DEF Empty
<1> QED BY <1>1, <1>2, <1>3, <1>5, <1>6, <1>7 DEF Exact

LEMMA FinishKeeps ==
  ASSUME RsInv, Finish
  PROVE RsInv'
<1>1. ~merging /\ pending = {} /\ done' = Append(done, cur) /\ cur' = Empty /\ own' = 0 /\ UNCHANGED <<pending, merging>>
  BY DEF RsInv, Finish
<1>2. IsEnv(cur) /\ Exact(cur, {}) /\ LeftToAdd' = {}
  BY <1>1 DEF RsInv, LeftToAdd
<1>3. PICK S : done \in Seq(S) /\ \A e \in S : IsEnv(e) /\ Exact(e, {})
  BY DEF RsInv, IsDone
<1>4. IsDone'
  <2>1. done \in Seq(S \cup {cur})
    BY <1>3
  <2>2. done' \in Seq(S \cup {cur})
    BY <1>1, <2>1
  <2>3. \A e \in S \cup {cur} : IsEnv(e) /\ Exact(e, {})
    BY <1>2, <1>3
  <2> QED BY <2>2, <2>3 DEF IsDone
<1>5. IsEnv(cur') /\ Exact(cur', {})
  BY <1>1, EmptyIsEnv
<1>6. own' \in Nat /\ merging' \in BOOLEAN /\ pending' = {}
  BY <1>1 DEF RsInv
<1> QED BY <1>2, <1>4, <1>5, <1>6 DEF RsInv

(* The invariant of mm0-rs, for files whose import comes first. *)
LEMMA RsInvariant == ~ImportAnytime => (BothSpec => []RsInv)
<1> SUFFICES ASSUME ~ImportAnytime PROVE BothSpec => []RsInv
  OBVIOUS
<1>1. BothInit => RsInv
  <2> SUFFICES ASSUME BothInit PROVE RsInv
    OBVIOUS
  <2>1. done = <<>> /\ cur = Empty /\ pending = {} /\ merging = FALSE /\ own = 0
    BY DEF BothInit, Init
  <2>2. IsDone
    BY <2>1 DEF IsDone
  <2> QED BY <2>1, <2>2, EmptyIsEnv DEF RsInv, LeftToAdd
<1>2. RsInv /\ [BothNext]_allvars => RsInv'
  <2> SUFFICES ASSUME RsInv, [BothNext]_allvars PROVE RsInv'
    OBVIOUS
  <2>1. ASSUME NEW n \in Names, BothDeclareSort(n) PROVE RsInv'
    BY <2>1, DeclareSortKeeps DEF BothDeclareSort
  <2>2. ASSUME NEW m \in Names, NEW n \in Names, BothDeclareCoercion(m, n) PROVE RsInv'
    BY <2>2, DeclareCoercionKeeps DEF BothDeclareCoercion
  <2>3. CASE BothFinish
    BY <2>3, FinishKeeps DEF BothFinish
  <2>4. CASE OnlyRs
    BY <2>4, ImportKeeps, MergeCoercionKeeps, MergeEndKeeps DEF OnlyRs
  <2>5. CASE UNCHANGED allvars
    BY <2>5 DEF allvars, vars, RsInv, IsDone, LeftToAdd
  <2> QED BY <2>1, <2>2, <2>3, <2>4, <2>5 DEF BothNext
<1> QED BY <1>1, <1>2, PTL DEF BothSpec

(* Whatever is declared and imported, a coercion that mm0-rs finds between   *)
(* two sorts is a chain of declared ones that leads from the one to the      *)
(* other (elab/environment.rs, add_coe_raw).                                *)
THEOREM ChainsAreTyped == ~ImportAnytime => (BothSpec => []CoercionsAreTyped)
<1> SUFFICES ASSUME ~ImportAnytime PROVE BothSpec => []CoercionsAreTyped
  OBVIOUS
<1>1. RsInv => CoercionsAreTyped
  <2> SUFFICES ASSUME RsInv, NEW p \in Entries(cur)
               PROVE LET path == cur.coes[p] IN
                     /\ {p[1], p[2]} \subseteq DOMAIN cur.sorts
                     /\ path[1].from = cur.sorts[p[1]]
                     /\ path[Len(path)].to = cur.sorts[p[2]]
                     /\ \A n \in 1..(Len(path) - 1) : path[n].to = path[n + 1].from
    BY DEF CoercionsAreTyped
  <2>1. Chain(cur.sorts, cur.coes[p], p[1], p[2]) /\ p \in (DOMAIN cur.sorts) \X (DOMAIN cur.sorts)
    BY DEF RsInv, IsEnv
  <2> QED BY <2>1 DEF Chain
<1>2. BothSpec => []RsInv
  BY RsInvariant
<1> QED BY <1>1, <1>2, PTL

(* Both parsers' entries are chains of declared coercions, in files of at    *)
(* most three sorts whose import comes first.                               *)
THEOREM CoercionsEntriesAreTyped ==
  (NumSorts <= 3 /\ ~ImportAnytime) => (BothSpec => []EntriesAreTyped)
<1> SUFFICES ASSUME NumSorts <= 3, ~ImportAnytime PROVE BothSpec => []EntriesAreTyped
  OBVIOUS
<1>1. BothSpec => []CoercionsAreTyped
  BY ChainsAreTyped
<1>2. CInv => num_sorts <= 3
  BY CoercionsAssumption DEF CInv, CType
<1> QED BY <1>1, <1>2, CInvariant, CoerceIsTyped, PTL DEF EntriesAreTyped

-----------------------------------------------------------------------------
(* The graph of the names, and that of the ids. *)

Image(f, E) == {<<f[p[1]], f[p[2]]>> : p \in E}

LEMMA ReachImage ==
  ASSUME NEW V, NEW W, NEW E \in SUBSET (V \X V), NEW f, \A t \in V : f[t] \in W,
         \A s, t \in V : f[s] = f[t] => s = t, NEW s \in V
  PROVE \A t \in V : f[t] \in Reach(W, Image(f, E), f[s]) <=> t \in Reach(V, E, s)
<1> DEFINE D == Image(f, E)
           S == {f[t] : t \in Reach(V, E, s)}
           T == {t \in V : f[t] \in Reach(W, D, f[s])}
<1>1. \A d : d \in D <=> \E p \in E : d = <<f[p[1]], f[p[2]]>>
  BY DEF Image
<1>2. \A p \in E : p[1] \in V /\ p[2] \in V /\ <<p[1], p[2]>> \in E
  <2>1. \A p \in E : p = <<p[1], p[2]>> /\ p[1] \in V /\ p[2] \in V
    OBVIOUS
  <2> QED BY <2>1
<1>3. Reach(V, E, s) \subseteq V
  BY DEF Reach
<1>4. S \in SUBSET W /\ f[s] \in S
  BY <1>3, ReachSelf
<1>5. Closed(D, S)
  <2> SUFFICES ASSUME NEW p \in E, f[p[1]] \in S PROVE f[p[2]] \in S
    BY <1>1 DEF Closed
  <2>1. PICK t \in Reach(V, E, s) : f[p[1]] = f[t]
    OBVIOUS
  <2>2. p[1] = t
    BY <1>2, <1>3, <2>1
  <2>3. p[2] \in Reach(V, E, s)
    BY <1>2, <2>2, ReachStep
  <2> QED BY <2>3
<1>6. Reach(W, D, f[s]) \subseteq S
  BY <1>4, <1>5, ReachLeast
<1>7. T \in SUBSET V /\ s \in T
  BY ReachSelf
<1>8. Closed(E, T)
  <2> SUFFICES ASSUME NEW p \in E, p[1] \in T PROVE p[2] \in T
    BY DEF Closed
  <2>1. <<f[p[1]], f[p[2]]>> \in D /\ f[p[2]] \in W /\ p[2] \in V
    BY <1>1, <1>2
  <2>2. f[p[1]] \in Reach(W, D, f[s])
    OBVIOUS
  <2> HIDE DEF D
  <2>3. f[p[2]] \in Reach(W, D, f[s])
    BY <2>1, <2>2, ReachStep
  <2> QED BY <2>1, <2>3
<1>9. Reach(V, E, s) \subseteq T
  BY <1>7, <1>8, ReachLeast
<1> QED BY <1>3, <1>6, <1>9

LEMMA UniqueImage ==
  ASSUME NEW V, NEW W, NEW E \in SUBSET (V \X V), NEW f, \A t \in V : f[t] \in W,
         \A s, t \in V : f[s] = f[t] => s = t, Unique(V, E)
  PROVE Unique(W, Image(f, E))
<1> DEFINE D == Image(f, E)
<1>1. \A d : d \in D <=> \E p \in E : d = <<f[p[1]], f[p[2]]>>
  BY DEF Image
<1>2. \A p \in E : p = <<p[1], p[2]>> /\ p[1] \in V /\ p[2] \in V
  OBVIOUS
<1>3. \A s, t \in V : f[t] \in Reach(W, D, f[s]) <=> t \in Reach(V, E, s)
  BY ReachImage
<1>4. \A p \in E : f[p[1]] \notin Reach(W, D, f[p[2]])
  BY <1>2, <1>3 DEF Unique
<1>5. ASSUME NEW p \in E, NEW q \in E, p # q, f[p[1]] = f[q[1]],
             NEW x \in Reach(W, D, f[p[2]]) \cap Reach(W, D, f[q[2]])
      PROVE FALSE
  <2>1. p[1] = q[1] /\ p[2] \in V /\ q[2] \in V
    BY <1>2, <1>5
  <2> DEFINE S == {f[t] : t \in Reach(V, E, p[2])}
  <2>2. Reach(W, D, f[p[2]]) \subseteq S
    <3>1. Reach(V, E, p[2]) \subseteq V
      BY DEF Reach
    <3>2. S \in SUBSET W /\ f[p[2]] \in S
      BY <2>1, <3>1, ReachSelf
    <3>3. Closed(D, S)
      <4> SUFFICES ASSUME NEW r \in E, f[r[1]] \in S PROVE f[r[2]] \in S
        BY <1>1 DEF Closed
      <4>1. PICK t \in Reach(V, E, p[2]) : f[r[1]] = f[t]
        OBVIOUS
      <4>2. r[1] = t /\ <<r[1], r[2]>> \in E /\ r[2] \in V
        BY <1>2, <3>1, <4>1
      <4>3. r[2] \in Reach(V, E, p[2])
        BY <4>2, ReachStep
      <4> QED BY <4>3
    <3> QED BY <3>2, <3>3, ReachLeast
  <2>3. PICK t \in Reach(V, E, p[2]) : x = f[t]
    BY <2>2
  <2>4. t \in V
    BY DEF Reach
  <2>5. t \in Reach(V, E, q[2])
    BY <1>3, <2>1, <2>3, <2>4
  <2> QED BY <1>5, <2>1, <2>5 DEF Unique
<1>6. \A d \in D : d[1] \notin Reach(W, D, d[2])
  BY <1>1, <1>4
<1>7. ASSUME NEW d \in D, NEW e \in D, d # e, d[1] = e[1]
      PROVE Reach(W, D, d[2]) \cap Reach(W, D, e[2]) = {}
  <2>1. PICK p \in E : d = <<f[p[1]], f[p[2]]>>
    BY <1>1
  <2>2. PICK q \in E : e = <<f[q[1]], f[q[2]]>>
    BY <1>1
  <2>3. p # q /\ f[p[1]] = f[q[1]] /\ d[2] = f[p[2]] /\ e[2] = f[q[2]]
    BY <1>7, <2>1, <2>2
  <2> QED BY <1>5, <2>3
<1> QED BY <1>6, <1>7 DEF Unique

(* Without an error and outside an import, the entries of one coercion are   *)
(* the declared ones.                                                       *)
LEMMA DeclaredIs ==
  ASSUME RsInv, ~cur.err, ~merging
  PROVE /\ Declared = Image(cur.sorts, Ones(cur))
        /\ Ones(cur) \subseteq (DOMAIN cur.sorts) \X (DOMAIN cur.sorts)
<1>1. LeftToAdd = {} /\ IsEnv(cur)
  BY DEF RsInv, LeftToAdd
<1>2. /\ \A c \in cur.decls : \E q \in Ones(cur) : Between(cur, c, q)
      /\ \A q \in Ones(cur) : \E c \in cur.decls : Between(cur, c, q)
  BY <1>1 DEF RsInv, Exact
<1>3. \A x : x \in Declared <=> \E c \in cur.decls : x = <<c.from, c.to>>
  BY DEF Declared
<1>4. \A x : x \in Image(cur.sorts, Ones(cur)) <=> \E q \in Ones(cur) : x = <<cur.sorts[q[1]], cur.sorts[q[2]]>>
  BY DEF Image
<1>5. \A x : x \in Declared <=> x \in Image(cur.sorts, Ones(cur))
  BY <1>2, <1>3, <1>4 DEF Between
<1>6. Ones(cur) \subseteq (DOMAIN cur.sorts) \X (DOMAIN cur.sorts)
  BY <1>1 DEF IsEnv, Ones
<1> QED BY <1>5, <1>6

LEMMA FromIs ==
  ASSUME NEW E, NEW x
  PROVE Graph!From(E, x) = Reach(Names, E, x)
BY DEF Graph!From, Reach, Closed

LEMMA CleanIsExact ==
  ASSUME RsInv, NumSorts <= 3, ~cur.err, ~merging
  PROVE CleanGraphIsExact
<1> DEFINE f == cur.sorts
           V == DOMAIN cur.sorts
           E == Ones(cur)
           H == Entries(cur)
<1>0. Len(cur.sorts) <= 3
  BY CoercionsAssumption DEF RsInv, IsEnv
<1>1. IsEnv(cur) /\ IsTable(V, E, H) /\ ProvsOk(cur, cur.coes) /\ cur.coe_prov = Provs(cur, cur.coes)
  BY <1>0 DEF RsInv, Exact
<1>2. AtMostThree(V)
  BY <1>0, <1>1, EnvThree
<1>3. Declared = Image(f, E) /\ E \subseteq V \X V
  BY DeclaredIs
<1>4. (\A t \in V : f[t] \in Names) /\ \A s, t \in V : f[s] = f[t] => s = t
  BY <1>1 DEF IsEnv
<1>5. Unique(V, E)
  BY <1>1, <1>2, TableUnique
<1>6. E \in SUBSET (V \X V)
  BY <1>3
<1> HIDE DEF f, V, E, H
<1>7. Unique(Names, Declared)
  BY <1>3, <1>4, <1>5, <1>6, UniqueImage
<1>8. Graph!UniquePaths(Declared)
  BY <1>7, FromIs DEF Graph!UniquePaths, Unique
<1>9. ASSUME NEW s \in V, NEW t \in V, s # t, f[t] \in Graph!From(Declared, f[s])
      PROVE <<s, t>> \in H
  <2>1. t \in Reach(V, E, s)
    BY <1>3, <1>4, <1>6, <1>9, FromIs, ReachImage
  <2> QED BY <1>1, <1>2, <1>9, <2>1, TableReach
<1>10. ASSUME NEW s \in V, NEW t \in V
       PROVE (s \in DOMAIN cur.coe_prov /\ cur.coe_prov[s] = t) <=> (<<s, t>> \in H /\ f[t] \in Provable)
  <2> DEFINE T == Targets(cur, cur.coes, s)
  <2>1. t \in T <=> (<<s, t>> \in H /\ f[t] \in Provable)
    BY DEF Targets, H, f, V, Entries
  <2>2. \A x, y \in T : x = y
    BY <1>1 DEF ProvsOk, V
  <2>3. (s \in DOMAIN cur.coe_prov <=> T # {}) /\ (T # {} => cur.coe_prov[s] = CHOOSE x \in T : TRUE)
    BY <1>1 DEF Provs, V
  <2> HIDE DEF T
  <2>4. T # {} => (CHOOSE x \in T : TRUE) \in T
    OBVIOUS
  <2> QED BY <2>1, <2>2, <2>3, <2>4
<1> QED BY <1>8, <1>9, <1>10 DEF CleanGraphIsExact, f, V, H

(* In a file of at most three sorts accepted without an error, paths are     *)
(* unique, every path is found, and every sort that coerces to a provable    *)
(* one has it in coe_prov (elab/environment.rs, add_coe and update_provs).   *)
THEOREM CoercionsCleanGraphIsExact ==
  (NumSorts <= 3 /\ ~ImportAnytime) => (BothSpec => []CleanGraphIsExact)
<1> SUFFICES ASSUME NumSorts <= 3, ~ImportAnytime PROVE BothSpec => []CleanGraphIsExact
  OBVIOUS
<1>1. RsInv => CleanGraphIsExact
  <2>1. (cur.err \/ merging) => CleanGraphIsExact
    BY DEF CleanGraphIsExact
  <2> QED BY <2>1, CleanIsExact
<1>2. BothSpec => []RsInv
  BY RsInvariant
<1> QED BY <1>1, <1>2, PTL

-----------------------------------------------------------------------------
(* The two parsers. *)

(* Of two coercions from a sort to provable sorts the second is refused. *)
CSink == \A s, t, u \in C!Known :
  <<s, t>> \in declared /\ <<s, u>> \in declared /\ t \in provable /\ u \in provable => t = u

(* While mm0-c reads on, the ids of mm0-rs are those of mm0-c plus one, and  *)
(* there are no errors; the sites of the coercions are those used so far.    *)
SameFile ==
  /\ ~cur.err
  /\ num_sorts = Len(cur.sorts)
  /\ \A k \in C!Known : k \in provable <=> cur.sorts[k + 1] \in Provable
  /\ \A s, t \in C!Known : <<s, t>> \in declared <=> <<s + 1, t + 1>> \in Ones(cur)
  /\ \A s, t \in C!Known : <<s, t>> \in CEntries <=> <<s + 1, t + 1>> \in Entries(cur)
  /\ \A p \in Ones(cur) : cur.coes[p][1].site[2] <= own

AgreeInv ==
  done = <<>> =>
    /\ ~merging
    /\ num_sorts <= 3 =>
         /\ ~failed => SameFile
         /\ failed => cur.err \/ Graph!TwoWaysToProvable(Declared, Provable)

AllInv == RsInv /\ CInv /\ CSink /\ AgreeInv

LEMMA CSinkKept ==
  ASSUME CInv, CSink, [C!Next]_cvars
  PROVE CSink'
<1>0. CType /\ CProv /\ \A s, t : <<s, t>> \in declared => s \in C!Known /\ t \in C!Known
  BY DEF CInv, CType
<1>1. ASSUME NEW p \in BOOLEAN, C!DeclareSort(p) PROVE CSink'
  <2>1. declared' = declared /\ provable' \subseteq provable \cup {num_sorts} /\ num_sorts \notin C!Known
    BY <1>0, <1>1 DEF C!DeclareSort, C!Known, CType
  <2>2. \A s, t : <<s, t>> \in declared' /\ t \in provable' => <<s, t>> \in declared /\ t \in provable
    BY <1>0, <2>1
  <2> QED BY <1>0, <2>2 DEF CSink
<1>2. ASSUME NEW a, NEW b, C!DeclareCoercion(a, b) PROVE CSink'
  <2>1. /\ declared' = declared \cup {<<a, b>>} /\ UNCHANGED <<num_sorts, provable>>
        /\ a \in C!Known /\ b \in C!Known /\ ~(C!Has(b, C!PROV) /\ C!Has(a, C!PROV))
    BY <1>2 DEF C!DeclareCoercion, C!NoDiamondSeen
  <2>2. C!Known' = C!Known
    BY <2>1 DEF C!Known
  <2>3. \A t \in C!Known : t \in provable => C!Has(t, C!PROV)
    BY <1>0 DEF CProv, C!Has
  <2>4. \A t \in C!Known : ~(<<a, t>> \in declared /\ t \in provable /\ b \in provable)
    BY <1>0, <2>1, <2>3 DEF CProv
  <2>5. \A s, t : <<s, t>> \in declared' <=> (<<s, t>> \in declared \/ (s = a /\ t = b))
    BY <2>1
  <2> QED BY <2>1, <2>2, <2>4, <2>5 DEF CSink
<1>3. ASSUME UNCHANGED <<declared, provable, num_sorts>> PROVE CSink'
  BY <1>3 DEF CSink, C!Known
<1>4. ASSUME NEW a, NEW b, C!RefuseCoercion(a, b) PROVE CSink'
  BY <1>3, <1>4 DEF C!RefuseCoercion
<1>5. CASE UNCHANGED cvars
  BY <1>3, <1>5 DEF cvars
<1> QED BY <1>1, <1>2, <1>4, <1>5 DEF C!Next

(* In a table of at most three sorts no sort has entries for two provable    *)
(* sorts, if none has edges to two and none joins two.                      *)
LEMMA OneProvable ==
  ASSUME NEW V, NEW E, NEW H, NEW P, IsTable(V, E, H), AtMostThree(V),
         \A s, t \in V : <<s, t>> \in E /\ t \in P => s \notin P,
         \A s, t, u \in V : <<s, t>> \in E /\ <<s, u>> \in E /\ t \in P /\ u \in P => t = u,
         NEW s \in V, NEW t \in V, NEW u \in V, <<s, t>> \in H, <<s, u>> \in H, t \in P, u \in P
  PROVE t = u
<1>1. SUFFICES ASSUME t # u PROVE FALSE
  OBVIOUS
<1>2. \A x, y \in V : <<x, y>> \in E => <<x, y>> \in H
  BY DEF IsTable
<1>3. \A x, y \in V : ~(<<x, y>> \in H /\ <<y, x>> \in H)
  BY DEF IsTable
<1>4. s # t /\ s # u
  BY <1>3
<1>5. ASSUME NEW x \in {t, u}, <<s, x>> \notin E PROVE FALSE
  <2>1. PICK m \in V : <<s, m>> \in E /\ <<m, x>> \in E
    BY <1>5 DEF IsTable
  <2>2. m # s /\ m # x
    BY <1>2, <1>3, <2>1
  <2>3. m \in {t, u}
    BY <1>1, <1>4, <2>2 DEF AtMostThree
  <2>4. m \in P /\ x \in P
    BY <2>3
  <2> QED BY <2>1, <2>4
<1> QED BY <1>1, <1>5

(* The ids of the two, and what the tables admit. *)
LEMMA SameIds ==
  ASSUME SameFile, IsEnv(cur), num_sorts \in Nat
  PROVE /\ C!Known \subseteq Nat
        /\ \A k \in Nat : k \in C!Known <=> k + 1 \in DOMAIN cur.sorts
        /\ \A s \in DOMAIN cur.sorts : s - 1 \in C!Known /\ s \in Nat /\ (s - 1) + 1 = s
BY DEF SameFile, IsEnv, C!Known

LEMMA SameAdmits ==
  ASSUME SameFile, IsEnv(cur), num_sorts \in Nat, NEW a \in C!Known, NEW b \in C!Known
  PROVE /\ Admits(C!Known, CEntries, a, b) <=> Admits(DOMAIN cur.sorts, Entries(cur), a + 1, b + 1)
        /\ \A s, t \in C!Known : <<s, t>> \in Grown(C!Known, CEntries, a, b)
             <=> <<s + 1, t + 1>> \in Grown(DOMAIN cur.sorts, Entries(cur), a + 1, b + 1)
<1> DEFINE V == DOMAIN cur.sorts
           K == C!Known
           G == CEntries
           H == Entries(cur)
<1>1. \A s, t \in K : <<s, t>> \in G <=> <<s + 1, t + 1>> \in H
  BY DEF SameFile
<1>2. K \subseteq Nat /\ (\A k \in Nat : k \in K <=> k + 1 \in V)
      /\ \A s \in V : s - 1 \in K /\ s \in Nat /\ (s - 1) + 1 = s
  BY SameIds
<1> HIDE DEF V, K, G, H
<1>3. \A s, t \in K : s + 1 = t + 1 <=> s = t
  BY <1>2
<1>4. (\A s \in K : <<s, a>> \in G => <<s, b>> \notin G)
        <=> \A s \in V : <<s, a + 1>> \in H => <<s, b + 1>> \notin H
  <2>1. \A s \in K : s + 1 \in V /\ (<<s, a>> \in G <=> <<s + 1, a + 1>> \in H)
                     /\ (<<s, b>> \in G <=> <<s + 1, b + 1>> \in H)
    BY <1>1, <1>2 DEF K
  <2>2. \A s \in V : (<<s - 1, a>> \in G <=> <<s, a + 1>> \in H) /\ (<<s - 1, b>> \in G <=> <<s, b + 1>> \in H)
    BY <1>1, <1>2 DEF K
  <2> QED BY <1>2, <2>1, <2>2
<1>5. (\A t \in K : <<b, t>> \in G => <<a, t>> \notin G)
        <=> \A t \in V : <<b + 1, t>> \in H => <<a + 1, t>> \notin H
  <2>1. \A s \in K : s + 1 \in V /\ (<<a, s>> \in G <=> <<a + 1, s + 1>> \in H)
                     /\ (<<b, s>> \in G <=> <<b + 1, s + 1>> \in H)
    BY <1>1, <1>2 DEF K
  <2>2. \A s \in V : (<<a, s - 1>> \in G <=> <<a + 1, s>> \in H) /\ (<<b, s - 1>> \in G <=> <<b + 1, s>> \in H)
    BY <1>1, <1>2 DEF K
  <2> QED BY <1>2, <2>1, <2>2
<1>6. a \in K /\ b \in K
  BY DEF K
<1>7. Admits(K, G, a, b) <=> Admits(V, H, a + 1, b + 1)
  BY <1>1, <1>3, <1>4, <1>5, <1>6 DEF Admits
<1>8. ASSUME NEW s \in K, NEW t \in K
      PROVE <<s, t>> \in Grown(K, G, a, b) <=> <<s + 1, t + 1>> \in Grown(V, H, a + 1, b + 1)
  <2>1. <<s, t>> \in Grown(K, G, a, b) <=>
          (<<s, t>> \in G \/ (s = a /\ t = b) \/ (t = b /\ <<s, a>> \in G) \/ (s = a /\ <<b, t>> \in G))
    BY DEF Grown
  <2>2. s + 1 \in V /\ t + 1 \in V
    BY <1>2
  <2> DEFINE x == s + 1
             y == t + 1
             d == a + 1
             e == b + 1
  <2>3. x \in V /\ y \in V
    BY <2>2
  <2>4. (x = d <=> s = a) /\ (y = e <=> t = b)
    BY <1>3, <1>6
  <2>5. (<<x, y>> \in H <=> <<s, t>> \in G) /\ (<<x, d>> \in H <=> <<s, a>> \in G) /\ (<<e, y>> \in H <=> <<b, t>> \in G)
    BY <1>1, <1>6
  <2> HIDE DEF x, y, d, e
  <2>6. <<x, y>> \in Grown(V, H, d, e) <=>
          (<<x, y>> \in H \/ (x = d /\ y = e) \/ (y = e /\ <<x, d>> \in H) \/ (x = d /\ <<e, y>> \in H))
    BY <2>3 DEF Grown
  <2>7. <<x, y>> \in Grown(V, H, d, e) <=> <<s, t>> \in Grown(K, G, a, b)
    BY <2>1, <2>4, <2>5, <2>6
  <2> QED BY <2>7 DEF x, y, d, e
<1> QED BY <1>7, <1>8 DEF V, K, G, H

(* A new coercion is not the same again. *)
LEMMA NeverSame ==
  ASSUME RsInv, SameFile, NEW m, NEW n, NEW p
  PROVE ~(IsOne(cur, p) /\ cur.coes[p] = <<NewCoe(m, n)>>)
<1>1. SUFFICES ASSUME IsOne(cur, p), cur.coes[p] = <<NewCoe(m, n)>> PROVE FALSE
  OBVIOUS
<1>2. p \in Ones(cur)
  BY <1>1 DEF IsOne, Ones
<1>3. cur.coes[p][1].site[2] <= own /\ own \in Nat
  BY <1>2 DEF SameFile, RsInv
<1>4. cur.coes[p][1].site[2] = own + 1
  BY <1>1 DEF NewCoe
<1> QED BY <1>3, <1>4

(* More coercions make no fewer ways. *)
LEMMA TwoWaysGrow ==
  ASSUME NEW D, NEW E, D \subseteq E, Graph!TwoWaysToProvable(D, Provable)
  PROVE Graph!TwoWaysToProvable(E, Provable)
<1>1. \A x : Graph!From(D, x) \subseteq Graph!From(E, x)
  BY FromIs, ReachGrows
<1> QED BY <1>1 DEF Graph!TwoWaysToProvable

(* mm0-c accepts: mm0-rs makes the same entries and reports nothing. *)
LEMMA AgreeAccepted ==
  ASSUME RsInv, SameFile, CInv, num_sorts <= 3, CInv', CSink',
         NEW m \in Names, NEW n \in Names, DeclareCoercion(m, n), C!DeclareCoercion(CNum(m), CNum(n))
  PROVE SameFile'
<1> DEFINE K == C!Known
           V == DOMAIN cur.sorts
           H == Entries(cur)
           a == CNum(m)
           b == CNum(n)
           s1 == IdOf(cur, m)
           s2 == IdOf(cur, n)
           c == NewCoe(m, n)
           todo == Todo(cur, s1, s2, c)
           new == Inserted(cur, todo, DOMAIN todo)
<1>1. IsEnv(cur) /\ CType /\ num_sorts \in Nat /\ ~cur.err
  BY DEF RsInv, CInv, CType, SameFile
<1>2. /\ a \in K /\ b \in K
      /\ Admits(K, CEntries, a, b)
      /\ CEntries' = Grown(K, CEntries, a, b)
  BY <1>1, CGrows
<1>3. declared' = declared \cup {<<a, b>>} /\ UNCHANGED <<num_sorts, provable, failed>> /\ K' = K
  BY DEF C!DeclareCoercion, C!Known
<1>4. CanAdd(cur, s1, s2, c) /\ \E e \in AddCoe(cur, s1, s2, c) : cur' = [e EXCEPT !.decls = e.decls \cup {c}]
  BY NewCoeIs
<1>5. PICK e \in AddCoe(cur, s1, s2, c) : cur' = [e EXCEPT !.decls = e.decls \cup {c}]
  BY <1>4
<1>6. a + 1 = s1 /\ b + 1 = s2
  <2>1. s1 \in V /\ s2 \in V
    BY <1>4 DEF CanAdd
  <2> QED BY <1>1, <2>1, SameIds DEF CNum
<1>7. K \subseteq Nat /\ (\A k \in Nat : k \in K <=> k + 1 \in V)
      /\ \A s \in V : s - 1 \in K /\ s \in Nat /\ (s - 1) + 1 = s
  BY <1>1, SameIds
<1>8. Admits(V, H, s1, s2)
      /\ \A s, t \in K : <<s, t>> \in CEntries' <=> <<s + 1, t + 1>> \in Grown(V, H, s1, s2)
  BY <1>1, <1>2, <1>6, SameAdmits
<1>9. \A p \in DOMAIN todo : ~Bad(cur, p)
  BY <1>1, <1>4, <1>8, NoneBadAdmits
<1>10. DOMAIN new = Grown(V, H, s1, s2)
  <2> DEFINE f == [coes |-> new]
  <2>1. f.coes = new /\ Entries(f) = DOMAIN new
    BY DEF Entries
  <2> HIDE DEF f
  <2> QED BY <1>1, <1>4, <2>1, NoneBadGrows
<1> HIDE DEF K, V, H, a, b, s1, s2, c, todo, new
<1>11. ProvsOk(cur, new)
  <2> SUFFICES ASSUME NEW s \in V, NEW t \in Targets(cur, new, s), NEW u \in Targets(cur, new, s) PROVE t = u
    BY DEF ProvsOk, V
  <2>1. t \in V /\ u \in V /\ <<s, t>> \in DOMAIN new /\ <<s, u>> \in DOMAIN new
        /\ cur.sorts[t] \in Provable /\ cur.sorts[u] \in Provable
    BY DEF Targets, V
  <2> DEFINE x == s - 1
             y == t - 1
             z == u - 1
  <2>2. x \in K /\ y \in K /\ z \in K /\ x + 1 = s /\ y + 1 = t /\ z + 1 = u
    BY <1>7, <2>1
  <2> HIDE DEF x, y, z
  <2>3. <<x, y>> \in CEntries' /\ <<x, z>> \in CEntries'
    BY <1>8, <1>10, <2>1, <2>2
  <2>4. y \in provable' /\ z \in provable'
    BY <1>3, <2>1, <2>2 DEF SameFile, K
  <2>5. num_sorts' \in Nat /\ num_sorts' <= 3
    BY <1>1, <1>3
  <2>6. IsTable(K, declared', CEntries') /\ AtMostThree(K)
    <3>1. IsTable(C!Known', declared', CEntries')
      BY <2>5 DEF CInv, CSteps
    <3> QED BY <1>1, <1>3, <3>1, CThree DEF K
  <2>7. /\ \A s0, t0 \in K : <<s0, t0>> \in declared' /\ t0 \in provable' => s0 \notin provable'
        /\ \A s0, t0, u0 \in K : <<s0, t0>> \in declared' /\ <<s0, u0>> \in declared'
             /\ t0 \in provable' /\ u0 \in provable' => t0 = u0
    <3>1. CProv' /\ CSink' /\ C!Known' = K
      BY <1>3 DEF CInv, K
    <3>2. \A s0, t0 \in K : <<s0, t0>> \in declared' /\ t0 \in provable' => s0 \notin provable'
      BY <3>1 DEF CProv
    <3> QED BY <3>1, <3>2 DEF CSink
  <2>8. y = z
    BY <2>2, <2>3, <2>4, <2>6, <2>7, OneProvable
  <2> QED BY <2>2, <2>8
<1>12. ~(IsOne(cur, <<s1, s2>>) /\ cur.coes[<<s1, s2>>] = <<c>>)
  BY NeverSame DEF c
<1>13. IsEnv(e) /\ e.sorts = cur.sorts
  BY <1>1, <1>4, <1>5, AddCoeKeepsEnv
<1>14. ~e.err /\ e.coes = new
  <2>1. /\ ~e.err =>
             \/ IsOne(cur, <<s1, s2>>) /\ cur.coes[<<s1, s2>>] = <<c>> /\ e.coes = cur.coes
             \/ (\A p \in DOMAIN todo : ~Bad(cur, p)) /\ e.coes = Inserted(cur, todo, DOMAIN todo)
        /\ (e.err /\ ~cur.err) =>
             \/ IsOne(cur, <<s1, s2>>) /\ cur.coes[<<s1, s2>>] = <<c>> /\ ~ProvsOk(cur, cur.coes)
             \/ \E p \in DOMAIN todo : Bad(cur, p)
             \/ /\ \A p \in DOMAIN todo : ~Bad(cur, p)
                /\ ~ProvsOk(cur, Inserted(cur, todo, DOMAIN todo))
    BY <1>1, <1>4, <1>5, AddCoeIs DEF todo
  <2> QED BY <1>1, <1>9, <1>11, <1>12, <2>1 DEF new
<1>15. cur'.sorts = cur.sorts /\ cur'.coes = new /\ cur'.err = e.err /\ own' = own + 1
  <2>1. own' = own + 1
    BY DEF DeclareCoercion
  <2>2. e = [sorts |-> e.sorts, coes |-> e.coes, coe_prov |-> e.coe_prov, decls |-> e.decls, err |-> e.err]
    BY <1>13 DEF IsEnv
  <2>3. cur'.sorts = e.sorts /\ cur'.coes = e.coes /\ cur'.err = e.err
    BY <1>5, <2>2
  <2> QED BY <1>13, <1>14, <2>1, <2>3
<1>16. Ones(cur') = Ones(cur) \cup {<<s1, s2>>}
  <2> DEFINE f == cur'
  <2>1. f.coes = Inserted(cur, todo, DOMAIN todo) /\ todo = Todo(cur, s1, s2, c) /\ V = DOMAIN cur.sorts
    BY <1>15 DEF new, todo, V
  <2> HIDE DEF f
  <2>2. /\ Entries(f) = Grown(V, Entries(cur), s1, s2)
        /\ (\A p \in DOMAIN todo : ~Bad(cur, p)) => Ones(f) = Ones(cur) \cup {<<s1, s2>>}
    BY <1>1, <1>4, <2>1, NoneBadGrows
  <2> QED BY <1>9, <2>2 DEF f
<1>17. \A p \in Ones(cur') : cur'.coes[p][1].site[2] <= own'
  <2>1. own \in Nat /\ \A p \in Ones(cur) : cur.coes[p][1].site[2] <= own
    BY DEF RsInv, SameFile
  <2>2. todo[<<s1, s2>>] = <<c>> /\ <<s1, s2>> \in DOMAIN todo
    BY <1>1, <1>4, TodoIs DEF todo
  <2> SUFFICES ASSUME NEW p \in Ones(cur') PROVE new[p][1].site[2] <= own + 1
    BY <1>15
  <2>4. CASE p = <<s1, s2>>
    <3>1. new[p] = <<c>>
      BY <2>2, <2>4 DEF new, Inserted
    <3>2. new[p][1].site[2] = own + 1
      BY <3>1 DEF c, NewCoe
    <3> QED BY <2>1, <3>2
  <2>5. CASE p # <<s1, s2>>
    <3>1. p \in Ones(cur) /\ p \in Entries(cur)
      BY <1>16, <2>5 DEF Ones
    <3>2. p \notin DOMAIN todo
      BY <1>9, <3>1 DEF Bad
    <3>3. new[p] = cur.coes[p]
      BY <3>1, <3>2 DEF new, Inserted
    <3>4. cur.coes[p] \in Seq(Coe) /\ Len(cur.coes[p]) = 1
      BY <1>1, <3>1 DEF IsEnv, Chain, Ones
    <3>5. cur.coes[p][1] \in Coe
      BY <3>4
    <3>6. cur.coes[p][1].site[2] \in Nat
      BY <3>5 DEF Coe
    <3> QED BY <2>1, <3>1, <3>3, <3>6
  <2> QED BY <2>4, <2>5
<1>18. \A s, t \in K : <<s, t>> \in declared' <=> <<s + 1, t + 1>> \in Ones(cur')
  <2> SUFFICES ASSUME NEW s \in K, NEW t \in K
               PROVE <<s, t>> \in declared' <=> <<s + 1, t + 1>> \in Ones(cur')
    OBVIOUS
  <2>1. <<s, t>> \in declared <=> <<s + 1, t + 1>> \in Ones(cur)
    BY DEF SameFile, K
  <2>2. (s = a /\ t = b) <=> (s + 1 = s1 /\ t + 1 = s2)
    BY <1>2, <1>6, <1>7
  <2>3. <<s + 1, t + 1>> \in Ones(cur') <=> (<<s + 1, t + 1>> \in Ones(cur) \/ (s + 1 = s1 /\ t + 1 = s2))
    BY <1>16
  <2>4. <<s, t>> \in declared' <=> (<<s, t>> \in declared \/ (s = a /\ t = b))
    BY <1>3
  <2> QED BY <2>1, <2>2, <2>3, <2>4
<1>19. \A s, t \in K : <<s, t>> \in CEntries' <=> <<s + 1, t + 1>> \in Entries(cur')
  BY <1>8, <1>10, <1>15 DEF Entries
<1>20. \A k \in K : k \in provable' <=> cur'.sorts[k + 1] \in Provable
  BY <1>3, <1>15 DEF SameFile, K
<1>21. ~cur'.err /\ num_sorts' = Len(cur'.sorts)
  BY <1>3, <1>14, <1>15 DEF SameFile
<1>22. C!Known' = K
  BY <1>3 DEF K
<1> QED BY <1>17, <1>18, <1>19, <1>20, <1>21, <1>22 DEF SameFile

(* mm0-c refuses: mm0-rs reports an error, or there are two ways to provable *)
(* sorts.                                                                   *)
LEMMA AgreeRefused ==
  ASSUME RsInv, SameFile, CInv, num_sorts <= 3,
         NEW m \in Names, NEW n \in Names, DeclareCoercion(m, n), C!RefuseCoercion(CNum(m), CNum(n))
  PROVE cur'.err \/ Graph!TwoWaysToProvable(Declared', Provable)
<1> DEFINE K == C!Known
           V == DOMAIN cur.sorts
           H == Entries(cur)
           a == CNum(m)
           b == CNum(n)
           s1 == IdOf(cur, m)
           s2 == IdOf(cur, n)
           c == NewCoe(m, n)
           todo == Todo(cur, s1, s2, c)
<1>1. IsEnv(cur) /\ CType /\ num_sorts \in Nat /\ ~cur.err /\ a \in K /\ b \in K /\ ~merging
  BY DEF RsInv, CInv, CType, SameFile, C!RefuseCoercion, DeclareCoercion
<1>2. CanAdd(cur, s1, s2, c) /\ \E e \in AddCoe(cur, s1, s2, c) : cur' = [e EXCEPT !.decls = e.decls \cup {c}]
  BY NewCoeIs
<1>3. PICK e \in AddCoe(cur, s1, s2, c) : cur' = [e EXCEPT !.decls = e.decls \cup {c}]
  BY <1>2
<1>4. a + 1 = s1 /\ b + 1 = s2
  <2>1. s1 \in V /\ s2 \in V
    BY <1>2 DEF CanAdd
  <2> QED BY <1>1, <2>1, SameIds DEF CNum
<1>5. cur.sorts[s1] = m /\ cur.sorts[s2] = n
  BY IdIs DEF DeclareCoercion
<1>6. K \subseteq Nat /\ \A k \in Nat : k \in K <=> k + 1 \in V
  BY <1>1, SameIds
<1>7. ~(IsOne(cur, <<s1, s2>>) /\ cur.coes[<<s1, s2>>] = <<c>>)
  BY NeverSame DEF c
<1>8. Admits(K, CEntries, a, b) <=> Admits(V, H, s1, s2)
  BY <1>1, <1>4, SameAdmits
<1>9. (\A p \in DOMAIN todo : ~Bad(cur, p)) <=> Admits(V, H, s1, s2)
  BY <1>1, <1>2, NoneBadAdmits
<1> HIDE DEF K, V, H, a, b, s1, s2, c, todo
<1>10. IsEnv(e) /\ e.decls = cur.decls
  BY <1>1, <1>2, <1>3, AddCoeKeepsEnv
<1>11. cur'.err = e.err /\ cur'.decls = cur.decls \cup {c}
  BY <1>3, <1>10 DEF IsEnv
<1>12. CASE ~Admits(K, CEntries, a, b)
  <2>1. ~e.err =>
             \/ IsOne(cur, <<s1, s2>>) /\ cur.coes[<<s1, s2>>] = <<c>> /\ e.coes = cur.coes
             \/ (\A p \in DOMAIN todo : ~Bad(cur, p)) /\ e.coes = Inserted(cur, todo, DOMAIN todo)
    <3>1. todo = Todo(cur, s1, s2, c) /\ V = DOMAIN cur.sorts
      BY DEF todo, V
    <3> QED BY <1>1, <1>2, <1>3, <3>1, AddCoeIs
  <2>2. e.err
    BY <1>7, <1>8, <1>9, <1>12, <2>1, <1>10 DEF IsEnv
  <2> QED BY <1>11, <2>2
<1>13. CASE Admits(K, CEntries, a, b)
  <2> DEFINE E == declared \cup {<<a, b>>}
             f == [k \in K |-> cur.sorts[k + 1]]
  <2>1. PICK t \in provable, u \in provable : t # u /\ t \in Reach(K, E, a) /\ u \in Reach(K, E, a)
    BY <1>13, CRefusesSecondWay DEF K, a, b
  <2>2. E \in SUBSET (K \X K)
    BY <1>1 DEF CType, K
  <2>3. (\A k \in K : f[k] \in Names) /\ \A j, k \in K : f[j] = f[k] => j = k
    <3>1. \A k \in K : k + 1 \in V /\ f[k] = cur.sorts[k + 1]
      BY <1>6
    <3>2. \A j, k \in V : cur.sorts[j] \in Names /\ (cur.sorts[j] = cur.sorts[k] => j = k)
      BY <1>1 DEF IsEnv, V
    <3> HIDE DEF f
    <3>3. \A j, k \in K : f[j] = f[k] => j + 1 = k + 1
      BY <3>1, <3>2
    <3>4. \A j, k \in K : j + 1 = k + 1 => j = k
      BY <1>6
    <3> QED BY <3>1, <3>2, <3>3, <3>4
  <2>4. f[a] = m /\ f[b] = n
    BY <1>1, <1>4, <1>5 DEF K, a, b
  <2>5. t \in K /\ u \in K
    BY <1>1 DEF CType, K
  <2>6. f[t] \in Provable /\ f[u] \in Provable
    BY <2>5 DEF SameFile, K
  <2>7. Image(f, E) \subseteq Declared'
    <3> SUFFICES ASSUME NEW p \in E PROVE <<f[p[1]], f[p[2]]>> \in Declared'
      BY DEF Image
    <3>1. \A x : x \in Declared' <=> \E d \in cur'.decls : x = <<d.from, d.to>>
      BY DEF Declared
    <3>2. CASE p = <<a, b>>
      <4>1. c \in cur'.decls /\ c.from = m /\ c.to = n
        BY <1>11 DEF c, NewCoe
      <4> QED BY <2>4, <3>1, <3>2, <4>1
    <3>3. CASE p \in declared
      <4>1. p[1] \in K /\ p[2] \in K /\ p = <<p[1], p[2]>>
        BY <2>2
      <4>2. <<p[1] + 1, p[2] + 1>> \in Ones(cur)
        BY <3>3, <4>1 DEF SameFile, K
      <4>3. <<cur.sorts[p[1] + 1], cur.sorts[p[2] + 1]>> \in Image(cur.sorts, Ones(cur))
        <5> DEFINE x == p[1] + 1
                   y == p[2] + 1
        <5>1. <<x, y>> \in Ones(cur)
          BY <4>2
        <5> HIDE DEF x, y
        <5>2. <<x, y>>[1] = x /\ <<x, y>>[2] = y
          OBVIOUS
        <5>3. <<cur.sorts[x], cur.sorts[y]>> \in Image(cur.sorts, Ones(cur))
          BY <5>1, <5>2 DEF Image
        <5> QED BY <5>3 DEF x, y
      <4>4. <<f[p[1]], f[p[2]]>> \in Declared
        BY <1>1, <4>1, <4>3, DeclaredIs
      <4>5. \E d \in cur.decls : <<f[p[1]], f[p[2]]>> = <<d.from, d.to>>
        BY <4>4 DEF Declared
      <4> QED BY <1>11, <3>1, <4>5
    <3> QED BY <3>2, <3>3
  <2>8. \A k \in K : f[k] \in Reach(Names, Image(f, E), f[a]) <=> k \in Reach(K, E, a)
    <3> HIDE DEF f, E
    <3> QED BY <1>1, <2>2, <2>3, ReachImage DEF K, a
  <2>9. f[t] # f[u]
    BY <2>1, <2>3, <2>5
  <2>10. f[a] \in Names
    BY <2>4
  <2> HIDE DEF E, f
  <2>11. Graph!TwoWaysToProvable(Image(f, E), Provable)
    <3>1. f[t] \in Graph!From(Image(f, E), f[a]) /\ f[u] \in Graph!From(Image(f, E), f[a])
      BY <2>1, <2>5, <2>8, FromIs
    <3> QED BY <2>6, <2>9, <2>10, <3>1 DEF Graph!TwoWaysToProvable
  <2> QED BY <2>7, <2>11, TwoWaysGrow
<1> QED BY <1>12, <1>13

(* A sort declared in both files. *)
LEMMA AgreeSort ==
  ASSUME RsInv, SameFile, CInv, NEW n \in Names, DeclareSort(n), C!DeclareSort(n \in Provable)
  PROVE SameFile'
<1>1. IsEnv(cur) /\ CType /\ num_sorts \in Nat /\ ~cur.err /\ NumSorts \in Nat
  BY CoercionsAssumption DEF RsInv, CInv, CType, SameFile
<1>2. UNCHANGED own /\ cur' = [cur EXCEPT !.sorts = Append(cur.sorts, n)]
  BY DEF DeclareSort, WithSort, HasSort
<1> DEFINE L == Len(cur.sorts)
           K == C!Known
<1>3. /\ cur'.sorts = Append(cur.sorts, n)
      /\ cur'.coes = cur.coes /\ cur'.err = cur.err
  BY <1>1, <1>2 DEF IsEnv
<1>4. cur.sorts \in Seq(Names) /\ L \in Nat /\ L = num_sorts
  BY <1>1 DEF IsEnv, SameFile
<1>5. /\ Len(cur'.sorts) = L + 1
      /\ \A k \in 1..L : cur'.sorts[k] = cur.sorts[k]
      /\ cur'.sorts[L + 1] = n
  BY <1>3, <1>4, AppendProperties
<1>6. /\ num_sorts' = num_sorts + 1 /\ num_sorts < NumSorts /\ declared' = declared
      /\ provable' = IF n \in Provable THEN provable \cup {num_sorts} ELSE provable
      /\ coes' = IF n \in Provable THEN [coes EXCEPT ![<<num_sorts, C!PROV>>] = C!PROVABLE] ELSE coes
  BY DEF C!DeclareSort
<1>7. C!Known' = K \cup {num_sorts} /\ num_sorts \notin K /\ C!Known' \subseteq C!Sort
  BY <1>1, <1>6 DEF C!Known, C!Sort
<1>8. \A k \in C!Known' : k \in provable' <=> cur'.sorts[k + 1] \in Provable
  <2>1. provable \subseteq K
    BY <1>1 DEF CType
  <2>2. \A k \in K : k + 1 \in 1..L
    BY <1>1, <1>4 DEF C!Known
  <2>3. \A k \in K : k \in provable <=> cur.sorts[k + 1] \in Provable
    BY DEF SameFile
  <2> HIDE DEF K, L
  <2>4. ASSUME NEW k \in K PROVE k \in provable' <=> cur'.sorts[k + 1] \in Provable
    <3>1. cur'.sorts[k + 1] = cur.sorts[k + 1]
      BY <1>5, <2>2
    <3>2. k # num_sorts
      BY <1>7
    <3> QED BY <1>6, <2>3, <3>1, <3>2
  <2>5. num_sorts \in provable' <=> cur'.sorts[num_sorts + 1] \in Provable
    BY <1>4, <1>5, <1>6, <1>7, <2>1
  <2> QED BY <1>7, <2>4, <2>5
<1>9. CEntries' = CEntries
  <2>1. \A s, t \in C!Known' : C!PROV # t /\ <<s, t>> \in C!Sort \X CColumn
    BY <1>7, CoercionsAssumption DEF C!Sort, C!PROV, CColumn
  <2>2. \A s, t \in C!Known' : coes'[<<s, t>>] = coes[<<s, t>>]
    BY <1>1, <1>6, <2>1 DEF CType
  <2>3. \A s, t \in C!Known' : coes[<<s, t>>].tag # "empty" => s \in K /\ t \in K
    <3> SUFFICES ASSUME NEW s \in C!Known', NEW t \in C!Known', coes[<<s, t>>].tag # "empty"
                 PROVE s \in K /\ t \in K
      OBVIOUS
    <3>1. C!Has(s, t) /\ s \in C!Sort /\ t \in CColumn /\ t # C!PROV
      BY <2>1 DEF C!Has
    <3> QED BY <1>1, <3>1 DEF CType
  <2>4. CEntries' = {p \in C!Known' \X C!Known' : coes'[<<p[1], p[2]>>].tag # "empty"}
    BY DEF CEntries, C!Has
  <2>5. CEntries = {p \in K \X K : coes[<<p[1], p[2]>>].tag # "empty"}
    BY DEF CEntries, C!Has
  <2> QED BY <1>7, <2>2, <2>3, <2>4, <2>5
<1>10. Entries(cur') = Entries(cur) /\ Ones(cur') = Ones(cur)
  BY <1>3 DEF Entries, Ones
<1>11. \A s, t \in C!Known' : <<s, t>> \in declared' <=> <<s + 1, t + 1>> \in Ones(cur')
  <2>1. declared \subseteq K \X K
    BY <1>1 DEF CType
  <2>2. \A x, y : <<x, y>> \in Ones(cur) => x \in 1..L /\ y \in 1..L
    BY <1>1, <1>4 DEF IsEnv, Ones
  <2>3. \A s, t \in C!Known' : s \notin K \/ t \notin K => <<s + 1, t + 1>> \notin Ones(cur)
    BY <1>4, <1>7, <2>2
  <2> QED BY <1>6, <1>10, <2>1, <2>3 DEF SameFile
<1>12. \A s, t \in C!Known' : <<s, t>> \in CEntries' <=> <<s + 1, t + 1>> \in Entries(cur')
  <2>1. CEntries \subseteq K \X K
    BY DEF CEntries
  <2>2. \A x, y : <<x, y>> \in Entries(cur) => x \in 1..L /\ y \in 1..L
    BY <1>1, <1>4 DEF IsEnv
  <2>3. \A s, t \in C!Known' : s \notin K \/ t \notin K => <<s + 1, t + 1>> \notin Entries(cur)
    BY <1>4, <1>7, <2>2
  <2> QED BY <1>9, <1>10, <2>1, <2>3 DEF SameFile
<1>13. \A p \in Ones(cur') : cur'.coes[p][1].site[2] <= own'
  BY <1>2, <1>3, <1>10 DEF SameFile
<1>14. ~cur'.err /\ num_sorts' = Len(cur'.sorts)
  BY <1>1, <1>3, <1>4, <1>5, <1>6
<1> QED BY <1>8, <1>11, <1>12, <1>13, <1>14 DEF SameFile

(* After the refusal nothing is taken back. *)
LEMMA AgreeSticks ==
  ASSUME cur.err \/ Graph!TwoWaysToProvable(Declared, Provable),
         cur.err => cur'.err, cur.decls \subseteq cur'.decls
  PROVE cur'.err \/ Graph!TwoWaysToProvable(Declared', Provable)
<1>1. Declared \subseteq Declared'
  BY DEF Declared
<1> QED BY <1>1, TwoWaysGrow

LEMMA AgreeStep ==
  ASSUME AllInv, CInv', CSink', [BothNext]_allvars
  PROVE AgreeInv'
<1>0. RsInv /\ CInv /\ AgreeInv /\ IsEnv(cur) /\ CType /\ num_sorts \in Nat
  BY DEF AllInv, RsInv, CInv, CType
<1> SUFFICES ASSUME done' = <<>>
             PROVE /\ ~merging'
                   /\ num_sorts' <= 3 =>
                        /\ ~failed' => SameFile'
                        /\ failed' => cur'.err \/ Graph!TwoWaysToProvable(Declared', Provable)
  BY DEF AgreeInv
<1>1. ASSUME NEW n \in Names, BothDeclareSort(n)
      PROVE /\ ~merging'
            /\ num_sorts' <= 3 =>
                 /\ ~failed' => SameFile'
                 /\ failed' => cur'.err \/ Graph!TwoWaysToProvable(Declared', Provable)
  <2>1. DeclareSort(n) /\ done = <<>> /\ ~merging'
    BY <1>1 DEF BothDeclareSort, DeclareSort
  <2>2. cur'.decls = cur.decls /\ cur'.err = cur.err
    BY <1>0, <2>1 DEF DeclareSort, IsEnv
  <2>3. CASE ~failed
    <3>1. C!DeclareSort(n \in Provable)
      BY <1>1, <2>1, <2>3 DEF BothDeclareSort, FirstFile
    <3>2. ~failed' /\ (num_sorts' <= 3 => num_sorts <= 3)
      BY <1>0, <2>3, <3>1 DEF C!DeclareSort
    <3>3. num_sorts <= 3 => SameFile
      BY <1>0, <2>1, <2>3 DEF AgreeInv
    <3> QED BY <1>0, <2>1, <3>1, <3>2, <3>3, AgreeSort
  <2>4. CASE failed
    <3>1. UNCHANGED cvars
      BY <1>1, <2>4 DEF BothDeclareSort, FirstFile
    <3>2. failed' = failed /\ num_sorts' = num_sorts
      BY <3>1 DEF cvars
    <3>3. num_sorts <= 3 => cur.err \/ Graph!TwoWaysToProvable(Declared, Provable)
      BY <1>0, <2>1, <2>4 DEF AgreeInv
    <3> QED BY <2>1, <2>2, <2>4, <3>2, <3>3, AgreeSticks
  <2> QED BY <2>3, <2>4
<1>2. ASSUME NEW m \in Names, NEW n \in Names, BothDeclareCoercion(m, n)
      PROVE /\ ~merging'
            /\ num_sorts' <= 3 =>
                 /\ ~failed' => SameFile'
                 /\ failed' => cur'.err \/ Graph!TwoWaysToProvable(Declared', Provable)
  <2>1. DeclareCoercion(m, n) /\ done = <<>> /\ ~merging'
    BY <1>2 DEF BothDeclareCoercion, DeclareCoercion
  <2>2. CASE ~failed
    <3>1. C!DeclareCoercion(CNum(m), CNum(n)) \/ C!RefuseCoercion(CNum(m), CNum(n))
      BY <1>2, <2>1, <2>2 DEF BothDeclareCoercion, FirstFile
    <3>2. num_sorts <= 3 => SameFile
      BY <1>0, <2>1, <2>2 DEF AgreeInv
    <3>3. CASE C!DeclareCoercion(CNum(m), CNum(n))
      <4>1. ~failed' /\ num_sorts' = num_sorts
        BY <2>2, <3>3 DEF C!DeclareCoercion
      <4> QED BY <1>0, <2>1, <3>2, <3>3, <4>1, AgreeAccepted
    <3>4. CASE C!RefuseCoercion(CNum(m), CNum(n))
      <4>1. failed' /\ num_sorts' = num_sorts
        BY <3>4 DEF C!RefuseCoercion
      <4> QED BY <1>0, <2>1, <3>2, <3>4, <4>1, AgreeRefused
    <3> QED BY <3>1, <3>3, <3>4
  <2>3. CASE failed
    <3>1. failed' = failed /\ num_sorts' = num_sorts
      BY <1>2, <2>3 DEF BothDeclareCoercion, FirstFile, cvars
    <3>2. num_sorts <= 3 => cur.err \/ Graph!TwoWaysToProvable(Declared, Provable)
      BY <1>0, <2>1, <2>3 DEF AgreeInv
    <3>3. CanAdd(cur, IdOf(cur, m), IdOf(cur, n), NewCoe(m, n))
      BY <1>0, <2>1, NewCoeIs
    <3>4. PICK e \in AddCoe(cur, IdOf(cur, m), IdOf(cur, n), NewCoe(m, n)) :
            cur' = [e EXCEPT !.decls = e.decls \cup {NewCoe(m, n)}]
      BY <1>0, <2>1, NewCoeIs
    <3>5. IsEnv(e) /\ e.sorts = cur.sorts /\ e.decls = cur.decls /\ (cur.err => e.err)
      BY <1>0, <3>3, <3>4, AddCoeKeepsEnv
    <3>6. (cur.err => cur'.err) /\ cur.decls \subseteq cur'.decls
      BY <3>4, <3>5 DEF IsEnv
    <3> QED BY <2>1, <2>3, <3>1, <3>2, <3>6, AgreeSticks
  <2> QED BY <2>2, <2>3
<1>3. ~BothFinish
  <2> SUFFICES ASSUME BothFinish PROVE FALSE
    OBVIOUS
  <2>2. done' = Append(done, cur)
    BY DEF BothFinish, Finish
  <2>3. PICK S : done \in Seq(S)
    BY <1>0 DEF RsInv, IsDone
  <2>4. done \in Seq(S \cup {cur})
    BY <2>3
  <2>5. Len(Append(done, cur)) # 0
    <3>1. cur \in S \cup {cur}
      OBVIOUS
    <3>2. Len(Append(done, cur)) = Len(done) + 1 /\ Len(done) \in Nat
      BY <2>4, <3>1, AppendProperties
    <3> QED BY <3>2
  <2> QED BY <2>2, <2>5
<1>4. ~OnlyRs
  <2> SUFFICES ASSUME OnlyRs PROVE FALSE
    OBVIOUS
  <2>1. done = <<>>
    BY DEF OnlyRs, Import, MergeCoercion, MergeEnd
  <2>2. ~merging
    BY <1>0, <2>1 DEF AgreeInv
  <2> QED BY <2>1, <2>2 DEF OnlyRs, MergeCoercion, MergeEnd
<1>5. CASE UNCHANGED allvars
  <2>1. done = <<>> /\ UNCHANGED <<cur, merging, own, num_sorts, coes, declared, provable, failed>>
    BY <1>5 DEF allvars, vars, cvars
  <2>2. SameFile' = SameFile /\ Declared' = Declared
    BY <2>1 DEF SameFile, Declared, C!Known, CEntries, C!Has
  <2>3. /\ ~merging
        /\ num_sorts <= 3 =>
             /\ ~failed => SameFile
             /\ failed => cur.err \/ Graph!TwoWaysToProvable(Declared, Provable)
    BY <1>0, <2>1 DEF AgreeInv
  <2> QED BY <2>1, <2>2, <2>3
<1> QED BY <1>1, <1>2, <1>3, <1>4, <1>5 DEF BothNext

(* The inductive invariant of both parsers, for files whose import comes     *)
(* first: ids, entries, declarations, the column PROV and the maps to        *)
(* provable sorts fit together (parser.c, KW_COERCION; elab/environment.rs,  *)
(* add_coe and ParserEnv::merge).                                           *)
THEOREM CoercionsInductive == ~ImportAnytime => (BothSpec => []AllInv)
<1> SUFFICES ASSUME ~ImportAnytime PROVE BothSpec => []AllInv
  OBVIOUS
<1>1. BothInit => CSink /\ AgreeInv
  <2> SUFFICES ASSUME BothInit PROVE CSink /\ AgreeInv
    OBVIOUS
  <2>1. num_sorts = 0 /\ declared = {} /\ ~failed /\ cur = Empty /\ ~merging
    BY DEF BothInit, Init, C!Init
  <2>2. C!Known = {}
    BY <2>1 DEF C!Known
  <2>3. ~cur.err /\ cur.sorts = <<>> /\ Ones(cur) = {}
    BY <2>1 DEF Empty, Ones, Entries
  <2>4. SameFile
    BY <2>1, <2>2, <2>3 DEF SameFile
  <2> QED BY <2>1, <2>2, <2>4 DEF CSink, AgreeInv
<1>2. RsInv /\ CInv /\ CInv' /\ CSink /\ AgreeInv /\ [BothNext]_allvars => CSink' /\ AgreeInv'
  <2> SUFFICES ASSUME RsInv, CInv, CInv', CSink, AgreeInv, [BothNext]_allvars PROVE CSink' /\ AgreeInv'
    OBVIOUS
  <2>1. CSink'
    <3>1. CASE BothFinish
      <4>1. declared' = {}
        BY <3>1 DEF BothFinish
      <4> QED BY <4>1 DEF CSink
    <3>2. CASE [C!Next]_cvars
      BY <3>2, CSinkKept
    <3> QED BY <3>1, <3>2, BothStep
  <2> QED BY <2>1, AgreeStep DEF AllInv
<1>3. BothSpec => []RsInv
  BY RsInvariant
<1> QED BY <1>1, <1>2, <1>3, CInvariant, PTL DEF BothSpec, AllInv

(* On a first file of at most three sorts the two parsers agree: what mm0-rs *)
(* reports as an error mm0-c refuses, and the other way round but for a      *)
(* second way to provable sorts (parser.c, KW_COERCION; elab/environment.rs, *)
(* add_coe).                                                                *)
THEOREM CoercionsParsersAgree == ~ImportAnytime => (BothSpec => []ParsersAgree)
<1> SUFFICES ASSUME ~ImportAnytime PROVE BothSpec => []ParsersAgree
  OBVIOUS
<1>1. AllInv => ParsersAgree
  BY DEF AllInv, AgreeInv, SameFile, ParsersAgree
<1>2. BothSpec => []AllInv
  BY CoercionsInductive
<1> QED BY <1>1, <1>2, PTL

=============================================================================
