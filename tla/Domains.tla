------------------------------- MODULE Domains -------------------------------
(* The states of the MIR analyses and how they are joined (mmcc mir_opt:    *)
(* Reachability in ghost.rs, GhostDom and GhostDoms::join).                 *)
EXTENDS Naturals

Dead == 0
Unreachable == 1
Reachable == 2
(* Reachability::join keeps the larger. *)
ReachJoin(b, d, e) == IF d < e THEN e ELSE d

(* `active` is None (0) or the block whose computation makes a branch matter. *)
NoDom == [active |-> 0, vars |-> {}]
(* Two different reasons to run become a reason to branch here. *)
GhostJoin(b, d, e) ==
  [vars |-> d.vars \union e.vars,
   active |-> IF d.active = 0 THEN e.active
              ELSE IF e.active # 0 /\ d.active # e.active THEN b ELSE d.active]
=============================================================================
