------------------------------- MODULE Joiner -------------------------------
(***************************************************************************)
(* mm0-rs join (joiner.rs): a file and everything it imports written into  *)
(* one, every import replaced by the text of the imported file unless that *)
(* text has been written before.  The recursion of Joiner::write is an     *)
(* explicit stack of calls here.                                           *)
(*                                                                         *)
(* The text of a file with n imports is n + 1 pieces; <<f, k>> is the piece *)
(* of f before its k-th import, or after its last one.                      *)
(***************************************************************************)
EXTENDS Naturals, Sequences, SequencesExt, ImportGraph

CONSTANTS
  Main,    \* the file to join
  Graphs   \* the import graphs considered, and the files that cannot be read

VARIABLES
  graph,    \* chosen at the start
  calls,    \* the active calls of write: [file, next]; `stack` is their files
  working,  \* the set of the same name
  done,     \* the list of the same name
  w,        \* the pieces written
  status    \* "running", "finished", "failed" (an io::Error) or "panicked"

vars == <<graph, calls, working, done, w, status>>

Imports(f) == graph.imports[f]
Call(f) == [file |-> f, next |-> 1]
Top == calls[Len(calls)]

Init ==
  /\ graph \in Graphs
  /\ calls = <<Call(Main)>>
  /\ working = {}
  /\ done = <<>>
  /\ w = <<>>
  /\ status = "running"

AtImport(r) ==
  /\ status = "running"
  /\ Top.next <= Len(Imports(Top.file))
  /\ r = Imports(Top.file)[Top.next]

Write == w' = Append(w, <<Top.file, Top.next>>)
Advanced == [calls EXCEPT ![Len(calls)].next = @ + 1]

(* canonicalize fails before anything is written. *)
ImportMissing(r) ==
  /\ AtImport(r)
  /\ r \in graph.missing
  /\ status' = "failed"
  /\ UNCHANGED <<graph, calls, working, done, w>>

(* The file has been written, or is being written: nothing more to do. *)
ImportAgain(r) ==
  /\ AtImport(r)
  /\ r \notin graph.missing
  /\ r \in working
  /\ Write
  /\ calls' = Advanced
  /\ UNCHANGED <<graph, working, done, status>>

OnStack(r) == \E n \in DOMAIN calls : calls[n].file = r

(* Broken variant: a file seen before is taken for a cycle. *)
ImportCycleAgain(r) ==
  /\ AtImport(r)
  /\ r \in working
  /\ Write
  /\ status' = "panicked"
  /\ UNCHANGED <<graph, calls, working, done>>

(* write(r) finds r on the stack.  *)
ImportCycle(r) ==
  /\ AtImport(r)
  /\ r \notin graph.missing \cup working
  /\ OnStack(r)
  /\ Write
  /\ working' = working \cup {r}
  /\ status' = "panicked"
  /\ UNCHANGED <<graph, calls, done>>

(* Broken variant: the import is followed once the file itself is written.  *)
ImportFirstLater(r) ==
  /\ AtImport(r)
  /\ r \notin graph.missing \cup working
  /\ ~OnStack(r)
  /\ Write
  /\ working' = working \cup {r}
  /\ calls' = <<Call(r)>> \o Advanced
  /\ UNCHANGED <<graph, done, status>>

ImportFirst(r) ==
  /\ AtImport(r)
  /\ r \notin graph.missing \cup working
  /\ ~OnStack(r)
  /\ Write
  /\ working' = working \cup {r}
  /\ calls' = Append(Advanced, Call(r))
  /\ UNCHANGED <<graph, done, status>>

(* The rest of the file, and the end of the call. *)
Return ==
  /\ status = "running"
  /\ Top.next > Len(Imports(Top.file))
  /\ Write
  /\ done' = Append(done, Top.file)
  /\ calls' = Front(calls)
  /\ status' = IF Len(calls) = 1 THEN "finished" ELSE "running"
  /\ UNCHANGED <<graph, working>>

Next ==
  \/ \E r \in Files : ImportMissing(r) \/ ImportAgain(r) \/ ImportCycle(r) \/ ImportFirst(r)
  \/ Return

Spec == Init /\ [][Next]_vars

=============================================================================
