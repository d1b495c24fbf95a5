---------------------------- MODULE CoercionGraph ----------------------------
(***************************************************************************)
(* What coercion declarations promise (mm0.md, "Formula parsing"): sorts   *)
(* and coercions form a graph with at most one path from a sort to another. *)
(* A declaration that would break this is refused, one that makes a second  *)
(* way to a provable sort may be, and a refusal ends the parse.             *)
(***************************************************************************)
EXTENDS Naturals

CONSTANTS Sort

VARIABLES
  declared,  \* the coercions accepted so far, pairs of sorts
  provable,  \* the provable sorts
  failed     \* a declaration has been refused

gvars == <<declared, provable, failed>>

(* From(E, s): the sorts reached from s along E, as the least closed set. *)
From(E, s) == {t \in Sort : \A S \in SUBSET Sort :
                 (s \in S /\ \A e \in E : e[1] \in S => e[2] \in S) => t \in S}

(* At most one path joins two sorts: no cycle, no diamond. *)
UniquePaths(E) ==
  /\ \A e \in E : e[1] \notin From(E, e[2])
  /\ \A d, e \in E : (d # e /\ d[1] = e[1]) => From(E, d[2]) \cap From(E, e[2]) = {}

(* Two ways lead from some sort to a provable sort. *)
TwoWaysToProvable(E, P) ==
  \E s \in Sort : \E t, u \in P : t # u /\ {t, u} \subseteq From(E, s)

GInit == declared = {} /\ provable = {} /\ failed = FALSE

NewProvable(s) ==
  /\ ~failed
  /\ s \notin provable
  /\ provable' = provable \cup {s}
  /\ UNCHANGED <<declared, failed>>

Accept(s1, s2) ==
  /\ ~failed
  /\ <<s1, s2>> \notin declared
  /\ UniquePaths(declared \cup {<<s1, s2>>})
  /\ declared' = declared \cup {<<s1, s2>>}
  /\ UNCHANGED <<provable, failed>>

Refuse(s1, s2) ==
  /\ ~failed
  /\ LET E == declared \cup {<<s1, s2>>} IN
       <<s1, s2>> \in declared \/ ~UniquePaths(E) \/ TwoWaysToProvable(E, provable)
  /\ failed' = TRUE
  /\ UNCHANGED <<declared, provable>>

GNext == \E s1 \in Sort : NewProvable(s1) \/ \E s2 \in Sort : Accept(s1, s2) \/ Refuse(s1, s2)

GSpec == GInit /\ [][GNext]_gvars

=============================================================================
