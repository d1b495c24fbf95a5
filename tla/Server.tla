------------------------------- MODULE Server -------------------------------
(***************************************************************************)
(* The elaboration jobs of the mm0-rs language server (server.rs): the     *)
(* client opens and changes files, each notification spawns jobs on a      *)
(* thread pool, a job that meets an import asks for the imported file,     *)
(* and a finished elaboration wakes the files that depend on it.           *)
(*                                                                         *)
(* A section under a mutex is one action; between two of them any other    *)
(* job may run.  What an elaboration computes is determined by the version *)
(* of the text and the results of the imports, so a hash <<version, hashes *)
(* of the imports>> stands for the environment as well.                    *)
(***************************************************************************)
EXTENDS Naturals, Sequences, SequencesExt, FiniteSets

CONSTANTS
  Files,
  Projects    \* the settings considered: what the files import on disk; what the
              \* client may make them import, which never opens a file it has no
              \* text for; whether the client is patient, which is to wait for the
              \* server to be at rest before it does anything; and a bound on the
              \* notifications it sends

ASSUME ServerAssumption ==
  /\ \A p \in Projects :
       /\ p.disk \in [Files -> Seq(Files)] /\ p.patient \in BOOLEAN
       /\ \A f \in Files : p.texts[f] \subseteq Seq(Files)

VARIABLES
  project,     \* chosen at the start
  vfs,         \* the files loaded: version and text; version 0 is None
  parsed,      \* VirtualFile.parsed
  downstream,  \* VirtualFile.downstream
  jobs,        \* SERVER.threads with the locals of each job, by a number
  diag,        \* the last version diagnostics were sent for
  opened,      \* the client's version of each file it has open, or 0
  events,      \* notifications sent
  stopping     \* run() has left its loop

client == <<project, opened, events, stopping>>
vars == <<project, vfs, parsed, downstream, jobs, diag, opened, events, stopping>>

Loaded == DOMAIN vfs
Job == DOMAIN jobs

(* ElabResult.  The hash of a result that is not Ok is not used. *)
Ok(hash) == [tag |-> "ok", hash |-> hash]
Canceled == [tag |-> "canceled", hash |-> <<>>]
ImportCycle == [tag |-> "cycle", hash |-> <<>>]
Pending == [tag |-> "pending", hash |-> <<>>]

(* The states of `parsed`: None, InProgress by a job, Ready. *)
None == [tag |-> "none"]
InProgress(version, job, senders) ==
  [tag |-> "busy", version |-> version, job |-> job, senders |-> senders]
Ready(hash, res, deps) == [tag |-> "ready", hash |-> hash, res |-> res, deps |-> deps]

(* A new job.  `send` is where its result goes: <<>>, or an import <<i, k>> *)
(* of job i; `rd` are the files above it.                                   *)
NewJob(path, send, rd) ==
  [path |-> path, send |-> send, rd |-> rd, cancel |-> FALSE, pc |-> "start", v |-> 0,
   version |-> 0, imports |-> <<>>, old_deps |-> <<>>, deps |-> <<>>, recv |-> <<>>,
   next |-> 1, toks |-> <<>>, cyc |-> FALSE, canceled |-> FALSE, res |-> Pending]

(* Job::spawn, for a set of new jobs: each gets a number that is neither    *)
(* that of a job nor that of one a job will answer.                         *)
InUse(js) == DOMAIN js \cup {js[i].send[1] : i \in {i \in DOMAIN js : js[i].send # <<>>}}
Free(js, new) == 1..(Cardinality(InUse(js)) + Cardinality(new)) \ InUse(js)
Spawned(js, new) ==
  LET number == CHOOSE m \in Injection(new, Free(js, new)) : TRUE
      at == [n \in {number[u] : u \in new} |-> CHOOSE u \in new : number[u] = n]
  IN  [n \in DOMAIN js \cup DOMAIN at |-> IF n \in DOMAIN at THEN at[n] ELSE js[n]]

(* The jobs that elaborate the files fs anew. *)
DepChange(fs) == {NewJob(f, <<>>, <<>>) : f \in fs}

(* get_or_insert: a file not there is read from disk. *)
GetOrInsert(f) ==
  [g \in Loaded \cup {f} |-> IF g \in Loaded THEN vfs[g] ELSE [version |-> 0, text |-> project.disk[g]]]

Init ==
  /\ project \in Projects
  /\ vfs = [f \in {} |-> [version |-> 0, text |-> <<>>]]
  /\ parsed = [f \in Files |-> None]
  /\ downstream = [f \in Files |-> {}]
  /\ jobs = [i \in {} |-> NewJob(CHOOSE f \in Files : TRUE, <<>>, <<>>)]
  /\ diag = [f \in Files |-> 0]
  /\ opened = [f \in Files |-> 0]
  /\ events = 0 /\ stopping = FALSE

-----------------------------------------------------------------------------
(* The client, and Server::run. *)

Notify(f) ==
  /\ ~stopping
  /\ project.patient => jobs = <<>>
  /\ project.texts[f] # {}
  /\ events < project.bound
  /\ events' = events + 1
  /\ opened' = [opened EXCEPT ![f] = @ + 1]

(* open_virt.  If the file is there already its text stays as it is. *)
OpenLoaded(f) ==
  /\ opened[f] = 0
  /\ f \in Loaded
  /\ Notify(f)
  /\ jobs' = Spawned(Spawned(jobs, DepChange(downstream[f])), DepChange({f}))
  /\ UNCHANGED <<project, vfs, parsed, downstream, diag, stopping>>

OpenNew(f, text) ==
  /\ opened[f] = 0
  /\ f \notin Loaded
  /\ Notify(f)
  /\ vfs' = [g \in Loaded \cup {f} |-> IF g = f THEN [version |-> 1, text |-> text] ELSE vfs[g]]
  /\ jobs' = Spawned(jobs, DepChange({f}))
  /\ UNCHANGED <<project, parsed, downstream, diag, stopping>>

(* Vfs::update, with the option to elaborate on every change. *)
Change(f, text) ==
  /\ opened[f] > 0
  /\ Notify(f)
  /\ vfs' = [vfs EXCEPT ![f] = [version |-> opened[f] + 1, text |-> text]]
  /\ jobs' = Spawned(jobs, DepChange({f}))
  /\ UNCHANGED <<project, parsed, downstream, diag, stopping>>

(* The end of run(): every job is asked to stop; run() then waits for the  *)
(* list of jobs to become empty.                                           *)
Shutdown ==
  /\ ~stopping
  /\ project.patient => jobs = <<>>
  /\ stopping' = TRUE
  /\ jobs' = [i \in Job |-> [jobs[i] EXCEPT !.cancel = TRUE]]
  /\ UNCHANGED <<project, vfs, parsed, downstream, diag, opened, events>>

-----------------------------------------------------------------------------
(* elaborate, step by step. *)

At(i, pc) == jobs[i].pc = pc
Path(i) == jobs[i].path
Cache(i) == parsed[Path(i)]

(* Another job may be in a section under the lock of f.parsed, and try_lock *)
(* fails.                                                                   *)
MayBeLocked(f, i) == \E j \in Job \ {i} : Path(j) = f /\ jobs[j].pc \in {"lock", "publish"}

(* The version is read before the lock is taken. *)
Start(i) ==
  /\ At(i, "start")
  /\ vfs' = GetOrInsert(Path(i))
  /\ jobs' = [jobs EXCEPT ![i].v = vfs'[Path(i)].version, ![i].pc = "lock"]
  /\ UNCHANGED <<parsed, downstream, diag, client>>

Begin(i, js, old_deps, senders) ==
  /\ parsed' = [parsed EXCEPT ![Path(i)] = InProgress(jobs[i].v, i, senders)]
  /\ jobs' = [js EXCEPT ![i].old_deps = old_deps, ![i].pc = "read"]
  /\ UNCHANGED <<vfs, downstream, diag, client>>

(* Nothing known. *)
LockNone(i) ==
  /\ At(i, "lock")
  /\ Cache(i).tag = "none"
  /\ Begin(i, jobs, <<>>, <<>>)

(* The same version in progress: wait for its result. *)
LockWaits(i) ==
  /\ At(i, "lock")
  /\ Cache(i).tag = "busy"
  /\ Cache(i).version = jobs[i].v
  /\ parsed' = [parsed EXCEPT ![Path(i)].senders = Append(@, i)]
  /\ jobs' = [jobs EXCEPT ![i].pc = "wait"]
  /\ UNCHANGED <<vfs, downstream, diag, client>>

Stop(js, j) == IF j \in DOMAIN js THEN [js EXCEPT ![j].cancel = TRUE] ELSE js

(* Broken variant: those who wait for the other version are not taken over: *)
(* they are on no list any more.                                           *)
LockSupersedesAlone(i) ==
  /\ At(i, "lock")
  /\ Cache(i).tag = "busy"
  /\ Cache(i).version # jobs[i].v
  /\ Begin(i, Stop(jobs, Cache(i).job), <<>>, <<>>)

(* Another version in progress: cancel it and take those who wait for it. *)
LockSupersedes(i) ==
  /\ At(i, "lock")
  /\ Cache(i).tag = "busy"
  /\ Cache(i).version # jobs[i].v
  /\ Begin(i, Stop(jobs, Cache(i).job), <<>>, Cache(i).senders)

(* The hash the file would have now; a file it depends on may be locked. *)
UpToDate(i) ==
  LET deps == Cache(i).deps IN
  /\ \A k \in DOMAIN deps : parsed[deps[k]].tag = "ready"
  /\ Cache(i).hash = <<jobs[i].v, [k \in DOMAIN deps |-> parsed[deps[k]].hash]>>

LockReady(i) ==
  /\ At(i, "lock")
  /\ Cache(i).tag = "ready"
  /\ UpToDate(i)
  /\ jobs' = [jobs EXCEPT ![i].res = Cache(i).res, ![i].pc = "end"]
  /\ UNCHANGED <<vfs, parsed, downstream, diag, client>>

LockStale(i) ==
  /\ At(i, "lock")
  /\ Cache(i).tag = "ready"
  /\ UpToDate(i) => \E k \in DOMAIN Cache(i).deps : MayBeLocked(Cache(i).deps[k], i)
  /\ Begin(i, jobs, IF Cache(i).res.tag = "ok" THEN Cache(i).deps ELSE <<>>, <<>>)

(* The text is read after the lock is released: it may be newer than v. *)
ReadText(i) ==
  /\ At(i, "read")
  /\ LET t == vfs[Path(i)] IN
     jobs' = [jobs EXCEPT ![i].version = t.version, ![i].imports = t.text,
                          ![i].pc = IF t.text = <<>> THEN "elab" ELSE "import"]
  /\ UNCHANGED <<vfs, parsed, downstream, diag, client>>

(* recv_dep, for every import before the first statement is elaborated. *)
NextImport(i, p) ==
  /\ At(i, "import")
  /\ p = jobs[i].imports[jobs[i].next]

Rd(i) == Append(jobs[i].rd, Path(i))
Received(i, res, dep) ==
  LET last == jobs[i].next = Len(jobs[i].imports) IN
  [jobs EXCEPT ![i].recv = Append(@, res), ![i].deps = @ \o dep,
               ![i].next = IF last THEN 1 ELSE @ + 1, ![i].pc = IF last THEN "elab" ELSE @]

ImportCloses(i, p) ==
  /\ NextImport(i, p)
  /\ p \in ToSet(Rd(i))
  /\ vfs' = GetOrInsert(p)
  /\ jobs' = Received(i, ImportCycle, <<>>)
  /\ UNCHANGED <<parsed, downstream, diag, client>>

(* A result that is ready is used as it is. *)
ImportReady(i, p) ==
  /\ NextImport(i, p)
  /\ p \notin ToSet(Rd(i))
  /\ parsed[p].tag = "ready"
  /\ vfs' = GetOrInsert(p)
  /\ jobs' = Received(i, parsed[p].res, <<p>>)
  /\ UNCHANGED <<parsed, downstream, diag, client>>

ImportSpawns(i, p) ==
  /\ NextImport(i, p)
  /\ p \notin ToSet(Rd(i))
  /\ parsed[p].tag = "ready" => MayBeLocked(p, i)
  /\ vfs' = GetOrInsert(p)
  /\ jobs' = Spawned(Received(i, Pending, <<p>>), {NewJob(p, <<i, jobs[i].next>>, Rd(i))})
  /\ UNCHANGED <<parsed, downstream, diag, client>>

(* ElabFuture::poll: the flag is tested before a statement ... *)
ElabStmts(i) ==
  /\ At(i, "elab")
  /\ jobs' = [jobs EXCEPT ![i].pc =
       IF jobs[i].cancel \/ jobs[i].next > Len(jobs[i].imports) THEN "check" ELSE "await"]
  /\ UNCHANGED <<vfs, parsed, downstream, diag, client>>

(* ... and not while an import is awaited. *)
Await(i) ==
  LET j == jobs[i]
      r == j.recv[j.next]
  IN
  /\ At(i, "await")
  /\ r # Pending
  /\ jobs' = [jobs EXCEPT ![i] =
       CASE r.tag = "ok" -> [j EXCEPT !.toks = Append(j.toks, r.hash), !.next = j.next + 1, !.pc = "elab"]
         [] r.tag = "cycle" -> [j EXCEPT !.cyc = TRUE, !.next = j.next + 1, !.pc = "elab"]
         [] r.tag = "canceled" -> [j EXCEPT !.cancel = TRUE, !.pc = "check"]]
  /\ UNCHANGED <<vfs, parsed, downstream, diag, client>>

(* update_downstream goes through the imports there were, for those there   *)
(* are no more, and then through those there are, for the new ones: at each *)
(* index of Todo, from n on, a file is to be told.                          *)
Visited(j) == j.old_deps \o j.deps
Todo(j, n) ==
  {m \in DOMAIN Visited(j) :
     m >= n /\ Visited(j)[m] \notin ToSet(IF m <= Len(j.old_deps) THEN j.deps ELSE j.old_deps)}
UpdateFrom(j, n) == IF Todo(j, n) = {} THEN "publish" ELSE "update"

(* Was it canceled, did the text change?  This is asked once. *)
Check(i) ==
  /\ At(i, "check")
  /\ LET j == jobs[i]
         hash == <<j.version, j.toks>>
         res == IF j.cancel THEN Canceled ELSE IF j.cyc THEN ImportCycle ELSE Ok(hash)
     IN jobs' = [jobs EXCEPT ![i].canceled = j.cancel, ![i].res = res, ![i].next = 1,
          ![i].pc = IF j.cancel THEN "publish"
                    ELSE IF vfs[j.path].version = j.version THEN "diag" ELSE UpdateFrom(j, 1)]
  /\ UNCHANGED <<vfs, parsed, downstream, diag, client>>

SendDiagnostics(i) ==
  /\ At(i, "diag")
  /\ diag' = [diag EXCEPT ![Path(i)] = jobs[i].version]
  /\ jobs' = [jobs EXCEPT ![i].pc = UpdateFrom(jobs[i], 1)]
  /\ UNCHANGED <<vfs, parsed, downstream, client>>

UpdateDownstream(i) ==
  LET j == jobs[i] IN
  /\ At(i, "update")
  /\ \E m \in Todo(j, j.next) :
       LET p == Visited(j)[m] IN
       /\ \A l \in Todo(j, j.next) : m <= l
       /\ downstream' = [downstream EXCEPT ![p] = IF m <= Len(j.old_deps) THEN @ \ {j.path} ELSE @ \cup {j.path}]
       /\ jobs' = [jobs EXCEPT ![i].next = m + 1, ![i].pc = UpdateFrom(j, m + 1)]
  /\ UNCHANGED <<vfs, parsed, diag, client>>

(* The result goes to all who wait for the file, whoever's InProgress that  *)
(* is by now, and is kept unless the job was canceled.                      *)
Answered(js, waiting, res) ==
  [i \in DOMAIN js |-> IF i \in waiting THEN [js[i] EXCEPT !.res = res, !.pc = "end"] ELSE js[i]]

(* Broken variant: a canceled job leaves its InProgress on the file. *)
PublishUnlessCanceled(i) ==
  LET j == jobs[i]
      waiting == IF Cache(i).tag = "busy" THEN ToSet(Cache(i).senders) ELSE {}
  IN
  /\ At(i, "publish")
  /\ parsed' = IF j.canceled THEN parsed
               ELSE [parsed EXCEPT ![j.path] = Ready(<<j.version, j.toks>>, j.res, j.deps)]
  /\ jobs' = Answered([jobs EXCEPT ![i].pc = IF j.canceled THEN "end" ELSE "notify"], waiting, j.res)
  /\ UNCHANGED <<vfs, downstream, diag, client>>

Publish(i) ==
  LET j == jobs[i]
      waiting == IF Cache(i).tag = "busy" THEN ToSet(Cache(i).senders) ELSE {}
  IN
  /\ At(i, "publish")
  /\ parsed' = [parsed EXCEPT ![j.path] =
       IF j.canceled THEN None ELSE Ready(<<j.version, j.toks>>, j.res, j.deps)]
  /\ jobs' = Answered([jobs EXCEPT ![i].pc = IF j.canceled THEN "end" ELSE "notify"], waiting, j.res)
  /\ UNCHANGED <<vfs, downstream, diag, client>>

(* Broken variant: the dependent files are not told. *)
TellNobody(i) ==
  /\ At(i, "notify")
  /\ jobs' = [jobs EXCEPT ![i].pc = "end"]
  /\ UNCHANGED <<vfs, parsed, downstream, diag, client>>

Tell(i) ==
  /\ At(i, "notify")
  /\ jobs' = Spawned([jobs EXCEPT ![i].pc = "end"], DepChange(downstream[Path(i)]))
  /\ UNCHANGED <<vfs, parsed, downstream, diag, client>>

(* The result is sent to the importer, if there is one and it still listens; *)
(* the job leaves the list.                                                  *)
End(i) ==
  LET rest == [j \in Job \ {i} |-> jobs[j]]
      send == jobs[i].send
  IN
  /\ At(i, "end")
  /\ jobs' = IF send # <<>> /\ send[1] \in Job \ {i}
             THEN [rest EXCEPT ![send[1]].recv[send[2]] = jobs[i].res] ELSE rest
  /\ UNCHANGED <<vfs, parsed, downstream, diag, client>>

JobStep(i) ==
  \/ Start(i)
  \/ LockNone(i) \/ LockWaits(i) \/ LockSupersedes(i) \/ LockReady(i) \/ LockStale(i)
  \/ ReadText(i)
  \/ \E p \in Files : ImportCloses(i, p) \/ ImportReady(i, p) \/ ImportSpawns(i, p)
  \/ ElabStmts(i) \/ Await(i)
  \/ Check(i) \/ SendDiagnostics(i) \/ UpdateDownstream(i)
  \/ Publish(i) \/ Tell(i) \/ End(i)

Jobs == \E i \in Job : JobStep(i)

Next ==
  \/ \E f \in Files : OpenLoaded(f) \/ \E t \in project.texts[f] : OpenNew(f, t) \/ Change(f, t)
  \/ Shutdown
  \/ Jobs

Spec == Init /\ [][Next]_vars

(* The pool runs the jobs that can move. *)
FairSpec == Spec /\ WF_vars(Jobs)

-----------------------------------------------------------------------------
(* No wait is lost: a job that waits for a file in progress is on the list  *)
(* of the job at work on it, which has not given its result yet, and an     *)
(* import not answered has a job that will answer it.  And a file in        *)
(* progress has a job at work on it that will say so.                       *)
AtWork == {"read", "import", "elab", "await", "check", "diag", "update", "publish"}
NoLostWaiter ==
  /\ \A i \in Job :
       /\ At(i, "wait") =>
            /\ Cache(i).tag = "busy"
            /\ \E k \in DOMAIN Cache(i).senders : Cache(i).senders[k] = i
       /\ \A k \in DOMAIN jobs[i].recv :
            jobs[i].recv[k] = Pending => \E j \in Job : jobs[j].send = <<i, k>>
  /\ \A f \in Files : parsed[f].tag = "busy" =>
       LET i == parsed[f].job IN i \in Job /\ Path(i) = f /\ jobs[i].pc \in AtWork

(* The server comes to rest, also when it is shut down. *)
ComesToRest == []<>(jobs = <<>>)

Fresh(f) ==
  /\ parsed[f].tag = "ready"
  /\ parsed[f].hash =
       <<vfs[f].version, [k \in DOMAIN vfs[f].text |-> parsed[vfs[f].text[k]].hash]>>

(* At rest, what the server knows of a file is about its text and those of  *)
(* the files it imports, and just its importers are known to depend on it.  *)
(* (If the client waits for rest, and no file is reached by two ways.)      *)
Rest == jobs = <<>> /\ ~stopping /\ project.patient

Importers(f) == {g \in Loaded : f \in ToSet(vfs[g].text)}

RestIsFresh ==
  Rest => \A f \in Loaded :
            Fresh(f) /\ diag[f] = vfs[f].version /\ downstream[f] = Importers(f)

=============================================================================
