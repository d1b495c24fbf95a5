------------------------------ MODULE Coercions ------------------------------
(***************************************************************************)
(* The two parsers side by side: mm0-c (CoercionsC) reads the declarations *)
(* that mm0-rs (CoercionsRs) elaborates as its first file.  mm0-c knows no *)
(* imports, so it stops reading with that file.                             *)
(***************************************************************************)
EXTENDS CoercionsRs

CONSTANTS
  NumSorts   \* bound: sorts of a file

ASSUME CoercionsAssumption == NumSorts \in Nat \ {0}

VARIABLES
  num_sorts, coes, declared, provable, failed   \* those of CoercionsC

C == INSTANCE CoercionsC

cvars == <<num_sorts, coes, declared, provable, failed>>
allvars == <<vars, cvars>>

FirstFile == done = <<>> /\ ~failed

BothInit == Init /\ C!Init

(* A declaration is read by both, until mm0-c has refused one.  The second  *)
(* file begins with its import: without one it would be like the first.     *)
BothDeclareSort(name) ==
  /\ Len(cur.sorts) < NumSorts
  /\ done = <<>> \/ cur # Empty
  /\ DeclareSort(name)
  /\ IF FirstFile THEN C!DeclareSort(name \in Provable) ELSE UNCHANGED cvars

CNum(name) == IdOf(cur, name) - 1

BothDeclareCoercion(from, to) ==
  /\ DeclareCoercion(from, to)
  /\ IF FirstFile
     THEN C!DeclareCoercion(CNum(from), CNum(to)) \/ C!RefuseCoercion(CNum(from), CNum(to))
     ELSE UNCHANGED cvars

(* At the end of the first file mm0-c is done. *)
BothFinish ==
  /\ Finish
  /\ num_sorts' = 0
  /\ coes' = [p \in DOMAIN coes |-> C!EMPTY]
  /\ declared' = {} /\ provable' = {} /\ failed' = FALSE

OnlyRs ==
  /\ (\E j \in DOMAIN done : Import(j)) \/ (\E m \in pending : MergeCoercion(m)) \/ MergeEnd
  /\ UNCHANGED cvars

BothNext ==
  \/ \E n \in Names : BothDeclareSort(n)
  \/ \E m, n \in Names : BothDeclareCoercion(m, n)
  \/ BothFinish
  \/ OnlyRs

BothSpec == BothInit /\ [][BothNext]_allvars

-----------------------------------------------------------------------------
(* While there are at most three sorts the table of mm0-c accepts exactly   *)
(* what the language allows: every step is one of CoercionGraph.            *)
ImplementsGraph ==
  C!Graph!GInit /\ [][(num_sorts <= 3 /\ num_sorts' >= num_sorts) => C!Graph!GNext]_(C!Graph!gvars)

(* Whatever was declared in whatever order, an entry of the table is a      *)
(* chain of declared coercions that leads from the one sort to the other:   *)
(* the chains of mm0-rs and what mm0-c's coerce inserts.                    *)
EntriesAreTyped == CoercionsAreTyped /\ C!CoerceFollowsDeclarations

(* mm0-c and mm0-rs agree on a file of at most three sorts: the one refuses *)
(* it just when the other reports an error, except that only mm0-c minds a  *)
(* coercion from one provable sort to another.                              *)
ParsersAgree ==
  (done = <<>> /\ num_sorts <= 3) =>
    /\ cur.err => failed
    /\ failed => cur.err \/ Graph!TwoWaysToProvable(Declared, Provable)

=============================================================================
