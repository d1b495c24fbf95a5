----------------------------- MODULE CoercionsRs -----------------------------
(***************************************************************************)
(* Coercions in the environments of mm0-rs (elab/environment.rs, ParserEnv *)
(* and Environment::merge).  Files are elaborated one after the other; a   *)
(* file declares sorts and coercions and imports files elaborated before.  *)
(* An error is reported and elaboration goes on.                            *)
(*                                                                         *)
(* A sort is its name, a SortId its place in the environment's vector; a    *)
(* coercion declaration is [site, from, to], the names being the type of   *)
(* its term.  A Coe is the sequence of the declarations it applies.         *)
(***************************************************************************)
EXTENDS Naturals, Sequences

CONSTANTS
  Names,         \* sort names
  Provable,      \* the names of the provable sorts
  NumFiles,      \* bound: files
  MaxCoes,       \* bound: coercions a file declares, for each file
  ImportAnytime  \* FALSE: a file has one import at most, and that comes first

ASSUME CoercionsRsAssumption ==
  /\ Provable \subseteq Names
  /\ NumFiles \in Nat /\ MaxCoes \in [1..NumFiles -> Nat]
  /\ ImportAnytime \in BOOLEAN

VARIABLES
  done,     \* the environments of the files elaborated
  cur,      \* the environment being built
  pending,  \* while an import is merged: the coercions still to be added
  merging,  \* an import is being merged
  own       \* coercions declared by the current file

vars == <<done, cur, pending, merging, own>>

Coercion == [site : (1..NumFiles) \X Nat, from : Names, to : Names]

(* sorts, pe.coes and pe.coe_prov; decls collects the declarations made in  *)
(* the file or imported, err that an error was reported in one of these.    *)
Empty == [sorts |-> <<>>, coes |-> [p \in {} |-> <<>>], coe_prov |-> [s \in {} |-> 0],
          decls |-> {}, err |-> FALSE]

Init == done = <<>> /\ cur = Empty /\ pending = {} /\ merging = FALSE /\ own = 0

IdOf(e, name) == CHOOSE s \in DOMAIN e.sorts : e.sorts[s] = name
HasSort(e, name) == \E s \in DOMAIN e.sorts : e.sorts[s] = name
Entries(e) == DOMAIN e.coes
IsOne(e, p) == p \in Entries(e) /\ Len(e.coes[p]) = 1

(* add_sort: a name already there keeps its id. *)
WithSort(sorts, name) ==
  IF \E s \in DOMAIN sorts : sorts[s] = name THEN sorts ELSE Append(sorts, name)

WithSorts(sorts, new) ==
  LET added[n \in 0..Len(new)] == IF n = 0 THEN sorts ELSE WithSort(added[n - 1], new[n])
  IN added[Len(new)]

DeclareSort(name) ==
  /\ ~merging
  /\ ~HasSort(cur, name)
  /\ cur' = [cur EXCEPT !.sorts = WithSort(@, name)]
  /\ UNCHANGED <<done, pending, merging, own>>

(* Broken variant: the paths that go on from the target are forgotten. *)
TodoLeft(e, s1, s2, c) ==
  LET lefts == {<<sl, s2>> : sl \in {s \in DOMAIN e.sorts : <<s, s1>> \in Entries(e)}}
  IN [p \in lefts \cup {<<s1, s2>>} |->
        IF p = <<s1, s2>> THEN <<c>> ELSE Append(e.coes[<<p[1], s1>>], c)]

(* Broken variant: what leads on from s2 is put before c. *)
TodoSwapped(e, s1, s2, c) ==
  LET lefts == {<<sl, s2>> : sl \in {s \in DOMAIN e.sorts : <<s, s1>> \in Entries(e)}}
      rights == {<<s1, sr>> : sr \in {s \in DOMAIN e.sorts : <<s2, s>> \in Entries(e)}}
  IN [p \in lefts \cup {<<s1, s2>>} \cup rights |->
        IF p = <<s1, s2>> THEN <<c>>
        ELSE IF p \in lefts THEN Append(e.coes[<<p[1], s1>>], c)
        ELSE Append(e.coes[<<s2, p[2]>>], c)]

(* The entries add_coe_raw wants to add: what leads to s1 followed by c, c,  *)
(* and c followed by what leads on from s2.                                  *)
Todo(e, s1, s2, c) ==
  LET lefts == {<<sl, s2>> : sl \in {s \in DOMAIN e.sorts : <<s, s1>> \in Entries(e)}}
      rights == {<<s1, sr>> : sr \in {s \in DOMAIN e.sorts : <<s2, s>> \in Entries(e)}}
  IN [p \in lefts \cup {<<s1, s2>>} \cup rights |->
        IF p = <<s1, s2>> THEN <<c>>
        ELSE IF p \in lefts THEN Append(e.coes[<<p[1], s1>>], c)
        ELSE <<c>> \o e.coes[<<s2, p[2]>>]]

(* Broken variant: cycles are not seen. *)
BadIfEntry(e, p) == p \in Entries(e)

(* "coercion cycle detected" or "coercion diamond detected". *)
Bad(e, p) == p[1] = p[2] \/ p \in Entries(e)

Inserted(e, todo, keys) ==
  [p \in Entries(e) \cup keys |-> IF p \in keys THEN todo[p] ELSE e.coes[p]]

(* What the loop of add_coe_raw inserts before it stops at a bad entry: the *)
(* entries come left ones first, then <<s1, s2>>, then right ones, the left *)
(* and the right ones in the order of a hash map.                           *)
InsertedBeforeError(e, todo, s1, s2) ==
  LET left == {p \in DOMAIN todo : p[2] = s2 /\ p # <<s1, s2>>}
      right == DOMAIN todo \ (left \cup {<<s1, s2>>})
      good(ps) == {p \in ps : ~Bad(e, p)}
  IN IF \E p \in left : Bad(e, p) THEN SUBSET good(left)
     ELSE IF Bad(e, <<s1, s2>>) THEN {left}
     ELSE {left \cup {<<s1, s2>>} \cup r : r \in SUBSET good(right)}

Targets(e, coes, s) == {t \in DOMAIN e.sorts : <<s, t>> \in DOMAIN coes /\ e.sorts[t] \in Provable}

ProvsOk(e, coes) == \A s \in DOMAIN e.sorts : \A t, u \in Targets(e, coes, s) : t = u
Provs(e, coes) ==
  [s \in {s \in DOMAIN e.sorts : Targets(e, coes, s) # {}} |-> CHOOSE t \in Targets(e, coes, s) : TRUE]

(* update_provs: an error if two coercions lead to provable sorts, and then *)
(* the old map stays.                                                       *)
UpdateProvs(e) == IF ProvsOk(e, e.coes) THEN [e EXCEPT !.coe_prov = Provs(e, e.coes)]
                  ELSE [e EXCEPT !.err = TRUE]

(* add_coe: the same declaration again is ignored; otherwise all entries are *)
(* added and the map to the provable sorts renewed, or a bad one ends it.    *)
AddCoe(e, s1, s2, c) ==
  LET todo == Todo(e, s1, s2, c) IN
  IF IsOne(e, <<s1, s2>>) /\ e.coes[<<s1, s2>>] = <<c>> THEN {UpdateProvs(e)}
  ELSE IF \E p \in DOMAIN todo : Bad(e, p)
  THEN {[e EXCEPT !.coes = Inserted(e, todo, keys), !.err = TRUE] : keys \in InsertedBeforeError(e, todo, s1, s2)}
  ELSE {UpdateProvs([e EXCEPT !.coes = Inserted(e, todo, DOMAIN todo)])}

(* coercion t: s1 > s2; for a new term t of that type. *)
DeclareCoercion(from, to) ==
  /\ ~merging
  /\ own < MaxCoes[Len(done) + 1]
  /\ HasSort(cur, from) /\ HasSort(cur, to)
  /\ LET c == [site |-> <<Len(done) + 1, own + 1>>, from |-> from, to |-> to] IN
     cur' \in {[e EXCEPT !.decls = @ \cup {c}] : e \in AddCoe(cur, IdOf(cur, from), IdOf(cur, to), c)}
  /\ own' = own + 1
  /\ UNCHANGED <<done, pending, merging>>

(* An import: Environment::merge first adds the sorts in their order, and    *)
(* ParserEnv::merge then adds every declared coercion of the other map ...   *)
Import(j) ==
  /\ ~merging
  /\ ImportAnytime \/ cur = Empty
  /\ merging' = TRUE
  /\ cur' = [cur EXCEPT !.sorts = WithSorts(@, done[j].sorts), !.decls = @ \cup done[j].decls,
                      !.err = @ \/ done[j].err]
  /\ pending' = {<<p, done[j].coes[p][1]>> : p \in {p \in Entries(done[j]) : IsOne(done[j], p)}}
  /\ UNCHANGED <<done, own>>

(* ... with the ids of the other environment, in the order of a hash map ... *)
MergeCoercion(m) ==
  /\ merging
  /\ cur' \in AddCoe(cur, m[1][1], m[1][2], m[2])
  /\ pending' = pending \ {m}
  /\ UNCHANGED <<done, merging, own>>

(* ... and renews the map to the provable sorts. *)
MergeEnd ==
  /\ merging
  /\ pending = {}
  /\ merging' = FALSE
  /\ cur' = UpdateProvs(cur)
  /\ UNCHANGED <<done, pending, own>>

Finish ==
  /\ ~merging
  /\ Len(done) + 1 < NumFiles
  /\ done' = Append(done, cur)
  /\ cur' = Empty
  /\ own' = 0
  /\ UNCHANGED <<pending, merging>>

Next ==
  \/ \E n \in Names : DeclareSort(n)
  \/ \E m, n \in Names : DeclareCoercion(m, n)
  \/ \E j \in DOMAIN done : Import(j)
  \/ \E m \in pending : MergeCoercion(m)
  \/ MergeEnd
  \/ Finish

Spec == Init /\ [][Next]_vars

-----------------------------------------------------------------------------
Declared == {<<c.from, c.to>> : c \in cur.decls}
Graph == INSTANCE CoercionGraph WITH
  Sort <- Names, declared <- Declared,
  provable <- Provable, failed <- cur.err

(* "A map of sort pairs s1,s2 to the coercion c: s1 -> s2": an entry is a   *)
(* chain of terms whose types lead from the one sort to the other.          *)
CoercionsAreTyped ==
  \A p \in Entries(cur) :
    LET path == cur.coes[p] IN
    /\ {p[1], p[2]} \subseteq DOMAIN cur.sorts
    /\ path[1].from = cur.sorts[p[1]]
    /\ path[Len(path)].to = cur.sorts[p[2]]
    /\ \A n \in 1..(Len(path) - 1) : path[n].to = path[n + 1].from

(* A file accepted without an error has at most one path between two sorts, *)
(* and with the import done every such path is found, and coe_prov gives    *)
(* every sort that coerces to a provable sort that sort, and no other.      *)
CleanGraphIsExact ==
  (~cur.err /\ ~merging) =>
    /\ Graph!UniquePaths(Declared)
    /\ \A s, t \in DOMAIN cur.sorts :
         /\ (s # t /\ cur.sorts[t] \in Graph!From(Declared, cur.sorts[s])) => <<s, t>> \in Entries(cur)
         /\ (s \in DOMAIN cur.coe_prov /\ cur.coe_prov[s] = t)
              <=> (<<s, t>> \in Entries(cur) /\ cur.sorts[t] \in Provable)

=============================================================================
