----------------------------- MODULE CoercionsC -----------------------------
(***************************************************************************)
(* The coercion table of the mm0-c parser (parser.c, KW_SORT, KW_COERCION  *)
(* and coerce): g_coes[s1][s2] says how to turn an expression of sort s1   *)
(* into one of sort s2, and an extra column PROV is a sink for the provable *)
(* sorts.  A failed ENSURE ends the program.                                *)
(***************************************************************************)
EXTENDS Naturals, Sequences, SequencesExt

CONSTANTS
  NumSorts   \* bound: sorts a file declares

Sort == 0..(NumSorts - 1)
PROV == NumSorts

VARIABLES
  num_sorts,  \* g_num_sorts
  coes,       \* g_coes
  declared,   \* the coercions of the file read so far
  provable,   \* its provable sorts
  failed      \* an ENSURE has failed

vars == <<num_sorts, coes, declared, provable, failed>>

(* The empty entry, a declared coercion, a path through m, the sink.  The   *)
(* term of COE_ONE is the one coercion declared for the entry.              *)
EMPTY == [tag |-> "empty", trans |-> 0]
ONE == [tag |-> "one", trans |-> 0]
TRANS(m) == [tag |-> "trans", trans |-> m]
PROVABLE == [tag |-> "prov", trans |-> 0]

Init ==
  /\ num_sorts = 0
  /\ coes = [p \in Sort \X (Sort \cup {PROV}) |-> EMPTY]
  /\ declared = {} /\ provable = {} /\ failed = FALSE

Known == 0..(num_sorts - 1)
Has(s, t) == coes[<<s, t>>].tag # "empty"

DeclareSort(isProvable) ==
  /\ ~failed
  /\ num_sorts < NumSorts
  /\ num_sorts' = num_sorts + 1
  /\ coes' = IF isProvable THEN [coes EXCEPT ![<<num_sorts, PROV>>] = PROVABLE] ELSE coes
  /\ provable' = IF isProvable THEN provable \cup {num_sorts} ELSE provable
  /\ UNCHANGED <<declared, failed>>

(* The three loops of KW_COERCION.  The ENSUREs are over entries the loops  *)
(* themselves leave alone, so they can be tested beforehand.                *)
Lefts(s1) == {sl \in Known : Has(sl, s1)}
Rights(s2) == {sr \in Known : Has(s2, sr)}

NoCycleSeen(s1, s2) == s2 \notin Lefts(s1) /\ s1 # s2 /\ s1 \notin Rights(s2)

(* Broken variant: the loop over the right side does not test. *)
NoDiamondSeenLeft(s1, s2) ==
  /\ \A sl \in Lefts(s1) : ~Has(sl, s2)
  /\ ~Has(s1, s2)
  /\ ~(Has(s2, PROV) /\ Has(s1, PROV))

NoDiamondSeen(s1, s2) ==
  /\ \A sl \in Lefts(s1) : ~Has(sl, s2)
  /\ ~Has(s1, s2)
  /\ \A sr \in Rights(s2) : ~Has(s1, sr)
  /\ ~(Has(s2, PROV) /\ Has(s1, PROV))

Extended(s1, s2) ==
  [p \in DOMAIN coes |->
     IF p[2] = s2 /\ p[1] \in Lefts(s1) THEN TRANS(s1)
     ELSE IF p = <<s1, s2>> THEN ONE
     ELSE IF p[1] = s1 /\ (p[2] \in Rights(s2) \/ (p[2] = PROV /\ Has(s2, PROV))) THEN TRANS(s2)
     ELSE coes[p]]

DeclareCoercion(s1, s2) ==
  /\ ~failed
  /\ {s1, s2} \subseteq Known
  /\ NoCycleSeen(s1, s2)
  /\ NoDiamondSeen(s1, s2)
  /\ coes' = Extended(s1, s2)
  /\ declared' = declared \cup {<<s1, s2>>}
  /\ UNCHANGED <<num_sorts, provable, failed>>

RefuseCoercion(s1, s2) ==
  /\ ~failed
  /\ {s1, s2} \subseteq Known
  /\ ~(NoCycleSeen(s1, s2) /\ NoDiamondSeen(s1, s2))
  /\ failed' = TRUE
  /\ UNCHANGED <<num_sorts, coes, declared, provable>>

Next ==
  \/ \E p \in BOOLEAN : DeclareSort(p)
  \/ \E s1, s2 \in Sort : DeclareCoercion(s1, s2) \/ RefuseCoercion(s1, s2)

Spec == Init /\ [][Next]_vars

(* coerce(): the sorts an expression of sort s goes through on its way to t, *)
(* or <<>> for a type mismatch, for every pair <<s, t>>.  `fuel` bounds the   *)
(* depth of the recursion; the bound is met only by a call that would not   *)
(* return.                                                                  *)
Depth == 2 * NumSorts
Pairs == Sort \X (Sort \cup {PROV})

Joined(first, last) == IF first = <<>> \/ last = <<>> THEN <<>> ELSE first \o Tail(last)

(* One call, its recursive calls answered by `inner`. *)
CoerceOnce(inner) ==
  [p \in Pairs |->
    LET entry == coes[p] IN
    IF p[1] = p[2] THEN <<p[1]>>
    ELSE CASE entry.tag = "empty" -> <<>>
           [] entry.tag = "one" -> p
           [] entry.tag = "prov" -> <<p[1]>>
           [] entry.tag = "trans" ->
                Joined(inner[<<p[1], entry.trans>>], inner[<<entry.trans, p[2]>>])]

coerce[fuel \in 0..Depth] ==
  IF fuel = 0 THEN [p \in Pairs |-> IF p[1] = p[2] THEN <<p[1]>> ELSE <<>>]
  ELSE CoerceOnce(coerce[fuel - 1])

-----------------------------------------------------------------------------
Graph == INSTANCE CoercionGraph

(* Whatever was declared in whatever order, an entry of the table leads     *)
(* coerce along declared coercions to the sort asked for, to a provable     *)
(* sort in the column PROV, and coerce returns.                             *)
CoerceFollowsDeclarations ==
  \A s \in Sort : \A t \in Sort \cup {PROV} :
    Has(s, t) =>
      LET path == coerce[Depth][<<s, t>>] IN
      /\ path # <<>>
      /\ path[1] = s
      /\ IF t = PROV THEN Last(path) \in provable ELSE Last(path) = t
      /\ \A n \in 1..(Len(path) - 1) : <<path[n], path[n + 1]>> \in declared

=============================================================================
