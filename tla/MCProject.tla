----------------------------- MODULE MCProject ------------------------------
(* Instance of Project for TLC.  Every import graph on a few files, with *)
(* at most two imports to a file, combined with a few choices of errors.    *)
EXTENDS Project, FiniteSets, Functions

CONSTANTS First
ASSUME MCProjectAssumption == First \in Files \ {Main}

Lists == {<<>>} \cup {<<f>> : f \in Files} \cup
         {<<p[1], p[2]>> : p \in Files \X Files}
NoErrors == [f \in Files |-> None]
NoneWrapped == [f \in Files |-> {}]

Plain(imports) ==
  [imports |-> imports, wrapped |-> NoneWrapped, missing |-> {},
   parse |-> NoErrors, elab |-> NoErrors, warn_as_error |-> FALSE]

(* Graphs: every import graph, no error, up to exchanging the two files    *)
(* other than Main: the first of them that Main imports is First.  What     *)
(* they import does not matter if Main imports neither.                     *)
Canonical(imports) ==
  LET others == {n \in DOMAIN imports[Main] : imports[Main][n] # Main} IN
  IF others = {} THEN \A f \in Files \ {Main} : imports[f] = <<>>
  ELSE \E n \in others : imports[Main][n] = First /\ \A k \in others : n <= k
GraphInputs == {Plain(imports) : imports \in {m \in [Files -> Lists] : Canonical(m)}}

(* Errors: chains, forks and triangles, and one way back to Main; one file  *)
(* has a parse error, or an elaboration error, or is missing.               *)
OneError(i) ==
  {[i EXCEPT !.parse[f] = l, !.warn_as_error = strict] : f \in Files, l \in Level, strict \in BOOLEAN} \cup
  {[i EXCEPT !.elab[f] = l, !.warn_as_error = strict] : f \in Files, l \in Level, strict \in BOOLEAN} \cup
  {[i EXCEPT !.missing = {f}] : f \in Files \ {Main}}
ErrorInputs == UNION {OneError(Plain(imports)) :
  imports \in {m \in [Files -> Lists] :
     /\ Canonical(m) /\ Cardinality(Range(m[Main])) = Len(m[Main]) /\ Main \notin Range(m[Main])
     /\ m[First] \in {<<>>} \cup {<<g>> : g \in Files \ {Main, First}}
     /\ \A f \in Files \ {Main, First} : m[f] \in {<<>>, <<Main>>}}}

(* Wrapped: Main imports one file under a doc comment. *)
WrappedInputs ==
  {[Plain([f \in Files |-> IF f = Main THEN <<g>> ELSE <<>>]) EXCEPT !.wrapped[Main] = {1}] : g \in Files}

AllInputs == GraphInputs \cup ErrorInputs \cup WrappedInputs

=============================================================================
