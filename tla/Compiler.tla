------------------------------ MODULE Compiler ------------------------------
(***************************************************************************)
(* The batch compiler of mm0-rs (compiler.rs, with the import loop of      *)
(* elab.rs): every file is elaborated by one task of a thread pool; an     *)
(* import spawns a task and the importer later awaits its answer; a file   *)
(* somebody else is elaborating is waited for; cycles are detected along   *)
(* the path of imports that led to a task.                                 *)
(*                                                                         *)
(* A task is named by the positions of the imports that led to it: <<>> is *)
(* the task of Main, run by the main thread, and Append(i, k) serves the   *)
(* k-th import of task i.  What a file declares is abstracted to the file: *)
(* an environment is the set of files whose declarations it holds.         *)
(***************************************************************************)
EXTENDS Naturals, Sequences, ImportGraph

CONSTANTS
  Main,    \* the input file
  Inputs   \* the sources and options considered, see Input

None == 0      \* no message; ErrorLevel starts at 1
Warning == 2
Error == 3
Level == None..Error

(* What the compiler reads: the imports of each file in order (Ast.imports) *)
(* and which of them stand under a doc comment or an annotation, the paths  *)
(* that cannot be read, the highest level among the parse errors and among  *)
(* the elaboration errors a file has of its own, and the -W option.         *)
Input == [imports : [Files -> Seq(Files)], wrapped : [Files -> SUBSET Nat],
          missing : SUBSET Files, parse : [Files -> Level], elab : [Files -> Level],
          warn_as_error : BOOLEAN]

ASSUME CompilerAssumption ==
  /\ Main \in Files
  /\ Inputs \subseteq Input
  /\ \A i \in Inputs : Main \notin i.missing

VARIABLES
  input,    \* chosen at the start, never changed
  task,     \* the tasks spawned so far
  chan,     \* the oneshot channels of the imports: Pending or an answer
  cache,    \* VirtualFile.parsed of every file
  emitted,  \* MAX_EMITTED_ERROR
  exit      \* "running", or the exit code of the process

vars == <<input, task, chan, cache, emitted, exit>>

MaxOf(a, b) == IF a < b THEN b ELSE a

(* ElabResult, and a channel that holds none yet. *)
Ok(env) == [tag |-> "ok", env |-> env, cyc |-> <<>>]
ImportCycle(cyc) == [tag |-> "cycle", env |-> {}, cyc |-> cyc]
Pending == [tag |-> "pending", env |-> {}, cyc |-> <<>>]

(* Option<FileCache> *)
NotStarted == [tag |-> "none", senders |-> <<>>, env |-> {}]
InProgress(senders) == [tag |-> "busy", senders |-> senders, env |-> {}]
Ready(env) == [tag |-> "ready", senders |-> <<>>, env |-> env]

(* A call of elaborate(): the file, the path of imports that led to it, and *)
(* the locals of the call and of its ElabFuture.                            *)
NewTask(f, rd) ==
  [file |-> f, rd |-> rd, pc |-> "start", next |-> 1, level |-> None,
   cyc |-> <<>>, env |-> {}, res |-> Pending]

Imports(f) == input.imports[f]

Init ==
  /\ input \in Inputs
  /\ task = [i \in {<<>>} |-> NewTask(Main, <<>>)]
  /\ chan = [i \in {} |-> Pending]
  /\ cache = [f \in Files |-> NotStarted]
  /\ emitted = None
  /\ exit = "running"

At(i, pc) == exit = "running" /\ i \in DOMAIN task /\ task[i].pc = pc

(* The task may run on this file: it marks it as in progress, ... *)
StartFirst(i) ==
  LET f == task[i].file IN
  /\ At(i, "start")
  /\ cache[f].tag = "none"
  /\ cache' = [cache EXCEPT ![f] = InProgress(<<>>)]
  /\ task' = [task EXCEPT ![i].pc = "parse"]
  /\ UNCHANGED <<input, chan, emitted, exit>>

(* Broken variant: whoever finds the file in progress elaborates it too. *)
StartAgain(i) ==
  LET f == task[i].file IN
  /\ At(i, "start")
  /\ cache[f].tag \in {"none", "busy"}
  /\ cache' = [cache EXCEPT ![f] = InProgress(<<>>)]
  /\ task' = [task EXCEPT ![i].pc = "parse"]
  /\ UNCHANGED <<input, chan, emitted, exit>>

(* ... or leaves a sender with the task that is at it, ... *)
StartWaits(i) ==
  LET f == task[i].file IN
  /\ At(i, "start")
  /\ cache[f].tag = "busy"
  /\ cache' = [cache EXCEPT ![f].senders = Append(@, i)]
  /\ task' = [task EXCEPT ![i].pc = "wait"]
  /\ UNCHANGED <<input, chan, emitted, exit>>

(* ... or answers from the cache. *)
StartReady(i) ==
  LET f == task[i].file IN
  /\ At(i, "start")
  /\ cache[f].tag = "ready"
  /\ task' = [task EXCEPT ![i].pc = "send", ![i].res = Ok(cache[f].env)]
  /\ UNCHANGED <<input, chan, cache, emitted, exit>>

(* parse() and the report of its errors. *)
Parse(i) ==
  /\ At(i, "parse")
  /\ emitted' = MaxOf(emitted, input.parse[task[i].file])
  /\ task' = [task EXCEPT ![i].pc = "import"]
  /\ UNCHANGED <<input, chan, cache, exit>>

(* Broken variant: the path is compared with the files above, not with the *)
(* importing file itself.                                                   *)
ClosesCycleAbove(i, p) == Among(p, task[i].rd)

(* rd.contains(&p), where rd holds the importing file too. *)
ClosesCycle(i, p) == Among(p, Append(task[i].rd, task[i].file))

(* recv_dep for every import: an unreadable file is an error of the        *)
(* importer, a file on the path gets the path for an answer, any other a   *)
(* task.  The tasks start on their own, so spawning them one by one or at  *)
(* once makes no difference.                                               *)
Import(i) ==
  LET f == task[i].file
      rd == Append(task[i].rd, f)
      readable == {k \in DOMAIN Imports(f) : Imports(f)[k] \notin input.missing}
      cyclic == {k \in readable : ClosesCycle(i, Imports(f)[k])}
      channels == {Append(i, k) : k \in readable}
      spawned == {Append(i, k) : k \in readable \ cyclic}
      target(j) == Imports(f)[j[Len(j)]]
  IN
  /\ At(i, "import")
  /\ chan' = [j \in DOMAIN chan \cup channels |->
                IF j \notin channels THEN chan[j]
                ELSE IF j \in spawned THEN Pending ELSE ImportCycle(rd)]
  /\ task' = [j \in DOMAIN task \cup spawned |->
                IF j \in spawned THEN NewTask(target(j), rd)
                ELSE IF j # i THEN task[j]
                ELSE [task[i] EXCEPT !.pc = "await",
                        !.level = IF readable = DOMAIN Imports(f) THEN input.elab[f] ELSE Error]]
  /\ UNCHANGED <<input, cache, emitted, exit>>

AtImport(i, k) == At(i, "await") /\ task[i].next = k /\ k \in DOMAIN Imports(task[i].file)

(* elab_stmt yields ElabStmt::Import only for a bare import statement: its  *)
(* cases for doc comments and annotations drop the answer of the call on    *)
(* the statement below.                                                     *)
Yields(i, k) == Append(i, k) \in DOMAIN chan /\ k \notin input.wrapped[task[i].file]

AwaitSkips(i, k) ==
  /\ AtImport(i, k)
  /\ ~Yields(i, k)
  /\ task' = [task EXCEPT ![i].next = k + 1]
  /\ UNCHANGED <<input, chan, cache, emitted, exit>>

(* Broken variant: the environment of the import replaces the current one. *)
AwaitReplaces(i, k) ==
  /\ AtImport(i, k)
  /\ Yields(i, k)
  /\ chan[Append(i, k)].tag = "ok"
  /\ task' = [task EXCEPT ![i].next = k + 1, ![i].env = chan[Append(i, k)].env]
  /\ UNCHANGED <<input, chan, cache, emitted, exit>>

(* The environment of the import is merged. *)
AwaitMerges(i, k) ==
  /\ AtImport(i, k)
  /\ Yields(i, k)
  /\ chan[Append(i, k)].tag = "ok"
  /\ task' = [task EXCEPT ![i].next = k + 1, ![i].env = @ \cup chan[Append(i, k)].env]
  /\ UNCHANGED <<input, chan, cache, emitted, exit>>

(* An import cycle is an error at the import, and the first one found is    *)
(* what the file's own importers will hear.                                 *)
AwaitCycle(i, k) ==
  /\ AtImport(i, k)
  /\ Yields(i, k)
  /\ chan[Append(i, k)].tag = "cycle"
  /\ task' = [task EXCEPT ![i].next = k + 1, ![i].level = Error,
                          ![i].cyc = IF @ = <<>> THEN chan[Append(i, k)].cyc ELSE @]
  /\ UNCHANGED <<input, chan, cache, emitted, exit>>

(* Broken variant: the last error level replaces the highest. *)
ReportLast(i) ==
  /\ At(i, "await")
  /\ task[i].next > Len(Imports(task[i].file))
  /\ emitted' = task[i].level
  /\ task' = [task EXCEPT ![i].pc = "finish", ![i].env = @ \cup {task[i].file}]
  /\ UNCHANGED <<input, chan, cache, exit>>

(* All statements done: the errors are printed and their level recorded. *)
Report(i) ==
  /\ At(i, "await")
  /\ task[i].next > Len(Imports(task[i].file))
  /\ emitted' = MaxOf(emitted, task[i].level)
  /\ task' = [task EXCEPT ![i].pc = "finish", ![i].env = @ \cup {task[i].file}]
  /\ UNCHANGED <<input, chan, cache, exit>>

Result(i) == IF task[i].cyc = <<>> THEN Ok(task[i].env) ELSE ImportCycle(task[i].cyc)

(* Under the lock of the file: broadcast to the waiting tasks, and Ready.   *)
Finish(i) ==
  LET f == task[i].file IN
  /\ At(i, "finish")
  /\ task' = [j \in DOMAIN task |->
                IF j = i \/ Among(j, cache[f].senders)
                THEN [task[j] EXCEPT !.pc = "send", !.res = Result(i)]
                ELSE task[j]]
  /\ cache' = [cache EXCEPT ![f] = Ready(task[i].env)]
  /\ UNCHANGED <<input, chan, emitted, exit>>

(* elaborate_and_send: the answer goes to the importer. *)
Send(i) ==
  /\ At(i, "send")
  /\ i # <<>>
  /\ chan' = [chan EXCEPT ![i] = task[i].res]
  /\ task' = [task EXCEPT ![i].pc = "done"]
  /\ UNCHANGED <<input, cache, emitted, exit>>

Threshold == IF input.warn_as_error THEN Warning ELSE Error

(* The exit code, `level` being what export added. *)
ExitCode(level) == IF Threshold <= MaxOf(emitted, level) THEN "1" ELSE "0"

(* Args::main: no environment without exit code 1; otherwise the output is *)
(* written, which may fail or report messages of its own.                  *)
MainNoEnv ==
  /\ At(<<>>, "send")
  /\ task[<<>>].res.tag # "ok"
  /\ exit' = "1"
  /\ UNCHANGED <<input, task, chan, cache, emitted>>

MainExports(level) ==
  /\ At(<<>>, "send")
  /\ task[<<>>].res.tag = "ok"
  /\ emitted' = MaxOf(emitted, level)
  /\ task' = [task EXCEPT ![<<>>].pc = "exported"]
  /\ exit' = ExitCode(level)
  /\ UNCHANGED <<input, chan, cache>>

MainFails ==
  /\ At(<<>>, "send")
  /\ task[<<>>].res.tag = "ok"
  /\ exit' = "1"
  /\ UNCHANGED <<input, task, chan, cache, emitted>>

Start(i) == StartFirst(i) \/ StartWaits(i) \/ StartReady(i)
Await(i) == \E k \in DOMAIN Imports(task[i].file) :
              AwaitSkips(i, k) \/ AwaitMerges(i, k) \/ AwaitCycle(i, k)
TaskStep(i) == Start(i) \/ Parse(i) \/ Import(i) \/ Await(i) \/ Report(i) \/ Finish(i) \/ Send(i)
MainStep == MainNoEnv \/ (\E l \in Level : MainExports(l)) \/ MainFails

Next == (\E i \in DOMAIN task : TaskStep(i)) \/ MainStep

Spec == Init /\ [][Next]_vars

-----------------------------------------------------------------------------
Elaborating(i) == task[i].pc \in {"parse", "import", "await", "finish"}
(* A file in progress has exactly one task elaborating it, and any other   *)
(* file has none: no file is elaborated twice, none is abandoned.  A task   *)
(* that waits is known to the task it waits for: no wait is lost.           *)
OneElaborator ==
  /\ \A f \in Files :
       /\ \A i, j \in DOMAIN task :
            (task[i].file = f /\ task[j].file = f /\ Elaborating(i) /\ Elaborating(j)) => i = j
       /\ cache[f].tag = "busy" <=> \E i \in DOMAIN task : task[i].file = f /\ Elaborating(i)
  /\ \A i \in DOMAIN task :
       task[i].pc = "wait" =>
         /\ cache[task[i].file].tag = "busy"
         /\ Among(i, cache[task[i].file].senders)

ImportedBy(f, g) == Among(g, Imports(f))

(* A reported cycle is one: the list is a path of imports from Main whose  *)
(* last file imports a file of the list.                                   *)
RealCycle(cyc) ==
  /\ cyc # <<>>
  /\ cyc[1] = Main
  /\ \A n \in 1..(Len(cyc) - 1) : ImportedBy(cyc[n], cyc[n + 1])
  /\ \E n \in DOMAIN cyc : ImportedBy(cyc[Len(cyc)], cyc[n])

Needed == Reached(input.imports, Main, {})

AllBare == \A f \in Files : input.wrapped[f] = {}

(* Exit code 0 is given only if the whole project is clean: every file Main *)
(* depends on was read and elaborated without an error of the level that    *)
(* counts, whichever task came to it first.                                 *)
ExitZeroMeansClean ==
  (exit = "0" /\ AllBare) =>
    \A f \in Needed :
      /\ f \notin input.missing
      /\ cache[f].tag = "ready"
      /\ input.parse[f] < Threshold
      /\ input.elab[f] < Threshold

(* Cycles the compiler reports are cycles, and an output file is written    *)
(* only if no import of the project is on one, although a file whose        *)
(* elaboration met a cycle answers Ok to those who ask for it later.        *)
CompilerSeesCycles ==
  /\ \A i \in DOMAIN chan : chan[i].tag = "cycle" => RealCycle(chan[i].cyc)
  /\ (task[<<>>].pc = "exported" /\ AllBare /\ input.missing = {}) => AcyclicFrom(input.imports, Main)

(* The environment exported holds everything the imports reach. *)
OutputIsComplete ==
  (task[<<>>].pc = "exported" /\ AllBare /\ input.missing = {}) =>
    task[<<>>].res.env = Needed

(* The compiler terminates unless some cycle can be entered at two files:   *)
(* an import that closes a cycle is found to do so, whatever the order of   *)
(* the tasks, if every way to the importer leads through the imported file, *)
(* and along the other imports no task can wait for itself.                 *)
Terminates == ReducibleFrom(input.imports, Main) => <>(exit # "running")

=============================================================================
