----------------------------- MODULE ImportGraph -----------------------------
(* Import graphs: `imports` gives every file the sequence of its imports.   *)
EXTENDS Naturals, Sequences

CONSTANTS Files

Among(x, s) == \E n \in DOMAIN s : s[n] = x

(* The files reached from `main` by imports of files outside `except`, as   *)
(* the least set closed under them.                                         *)
Closed(imports, S, except) == \A f \in S \ except : \A g \in Files : Among(g, imports[f]) => g \in S
Reached(imports, main, except) ==
  {f \in Files : \A S \in SUBSET Files : main \in S /\ Closed(imports, S, except) => f \in S}

(* Every nonempty set of reached files has a member importing none of them. *)
AcyclicFrom(imports, main) ==
  \A S \in SUBSET Reached(imports, main, {}) :
    S # {} => \E f \in S : \A g \in S : ~Among(g, imports[f])

(* Every cycle is entered at one file only: without the imports of files    *)
(* that every way to the importer leads through, the graph has no cycle.    *)
ReducibleFrom(imports, main) ==
  \A S \in SUBSET Reached(imports, main, {}) :
    S # {} => \E f \in S : \A g \in S :
      Among(g, imports[f]) => g = f \/ f \notin Reached(imports, main, {g})

=============================================================================
