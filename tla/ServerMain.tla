----------------------------- MODULE ServerMain -----------------------------
(***************************************************************************)
(* Server::run of the mm0-rs language server with the jobs it spawns and    *)
(* its logger (server.rs): requests are answered from the thread pool,      *)
(* cancelled by the client, and overtaken by the shutdown, which stops the   *)
(* logger, asks every job to stop and waits for the list of jobs to become   *)
(* empty.  What a job elaborates is in module Server; here it is time that   *)
(* passes, and messages that are logged.                                    *)
(***************************************************************************)
EXTENDS Logger, FiniteSets

CONSTANTS
  Main,      \* the thread of run(); the other Threads are those of jobs 1, 2, ...
  Clients    \* what a client may send: sequences of messages

ASSUME MainAssumption == Main = 0 /\ Threads \subseteq Nat /\ Main \in Threads

(* A client numbers its requests, no two alike (JSON-RPC).  The bound: there  *)
(* is a thread for the job that each message may spawn.                      *)
ASSUME ClientAssumption ==
  \A c \in Clients :
    /\ c \in Seq([m : {"request", "cancel", "edit", "shutdown"}, id : Nat])
    /\ DOMAIN c \subseteq Threads
    /\ \A i \in DOMAIN c : c[i].m = "request" =>
         c[i].id # 0 /\ \A k \in DOMAIN c : c[k].m = "request" /\ c[k].id = c[i].id => k = i

VARIABLES
  inbox,     \* conn.receiver: what the client has yet to say
  mpc,       \* where run() is
  jobs,      \* the jobs spawned, in order: what they are, where they are
  threads,   \* SERVER.threads: the numbers of the jobs on the list
  reqs,      \* SERVER.reqs: the requests not answered yet
  answers    \* responses sent, in order

loggerVars == <<queue, logged, signal, lpc, batch, printed, cancel, spc>>
mainVars == <<inbox, mpc, jobs, threads, reqs, answers>>
serverVars == <<queue, logged, signal, lpc, batch, printed, cancel, spc,
                inbox, mpc, jobs, threads, reqs, answers>>

Request(id) == [m |-> "request", id |-> id]
Cancel(id) == [m |-> "cancel", id |-> id]
Edit == [m |-> "edit", id |-> 0]           \* didOpen, didChange, didClose, didSave
ShutdownRequest == [m |-> "shutdown", id |-> 0]

ServerInit ==
  /\ Init
  /\ inbox \in Clients
  /\ mpc = "recv"
  /\ jobs = <<>> /\ threads = <<>> /\ reqs = {} /\ answers = <<>>

-----------------------------------------------------------------------------
(* The loop of run(). *)

Receive(m) ==
  /\ mpc = "recv"
  /\ inbox # <<>>
  /\ Head(inbox).m = m
  /\ inbox' = Tail(inbox)

(* Job::spawn: a request enters the table, every job the list. *)
Spawn(id) ==
  /\ jobs' = Append(jobs, [id |-> id, pc |-> "run", cancel |-> FALSE])
  /\ threads' = Append(threads, Len(jobs) + 1)

TakeRequest ==
  /\ Receive("request")
  /\ reqs' = reqs \union {Head(inbox).id}
  /\ Spawn(Head(inbox).id)
  /\ UNCHANGED <<loggerVars, mpc, answers>>

(* Broken variant: a request that is cancelled leaves the list and the table. *)
TakeCancelDrops ==
  /\ Receive("cancel")
  /\ LET gone == {i \in DOMAIN jobs : jobs[i].id = Head(inbox).id /\ jobs[i].id \in reqs}
     IN  /\ jobs' = [i \in DOMAIN jobs |-> IF i \in gone THEN [jobs[i] EXCEPT !.pc = "gone"] ELSE jobs[i]]
         /\ threads' = SelectSeq(threads, LAMBDA i : i \notin gone)
  /\ reqs' = reqs \ {Head(inbox).id}
  /\ UNCHANGED <<loggerVars, mpc, answers>>

(* The flag of a request is set while it is in the table; nobody reads it:    *)
(* the elaboration it waits for has a flag of its own.                      *)
TakeCancel ==
  /\ Receive("cancel")
  /\ jobs' = [i \in DOMAIN jobs |->
       IF jobs[i].id = Head(inbox).id /\ jobs[i].id \in reqs THEN [jobs[i] EXCEPT !.cancel = TRUE] ELSE jobs[i]]
  /\ UNCHANGED <<loggerVars, mpc, threads, reqs, answers>>

(* A notification about a text is logged and then spawns its job. *)
TakeEdit ==
  /\ Receive("edit")
  /\ Push(Main)
  /\ mpc' = "edit"
  /\ UNCHANGED <<jobs, threads, reqs, answers>>

LogEdit == mpc = "edit" /\ Signal(Main) /\ UNCHANGED mainVars

SpawnElaborate ==
  /\ mpc = "edit"
  /\ ~signal[Main]
  /\ Spawn(0)
  /\ mpc' = "recv"
  /\ UNCHANGED <<loggerVars, inbox, reqs, answers>>

(* handle_shutdown answers and waits for the exit notification; without it    *)
(* the error is printed and the loop goes on.                               *)
TakeShutdown ==
  /\ Receive("shutdown")
  /\ mpc' \in {"left", "recv"}
  /\ UNCHANGED <<loggerVars, jobs, threads, reqs, answers>>

(* RecvError: the client has gone. *)
Disconnect ==
  /\ mpc = "recv"
  /\ inbox = <<>>
  /\ mpc' = "left"
  /\ UNCHANGED <<loggerVars, inbox, jobs, threads, reqs, answers>>

(* After the loop: the logger is stopped first, ... *)
StopLogger ==
  /\ mpc = "left"
  /\ StopStore \/ StopStep
  /\ UNCHANGED mainVars

(* ... then every job on the list is asked to stop ... *)
CancelJobs ==
  /\ mpc = "left"
  /\ spc = "joined"
  /\ jobs' = [i \in DOMAIN jobs |-> IF Contains(threads, i) THEN [jobs[i] EXCEPT !.cancel = TRUE] ELSE jobs[i]]
  /\ mpc' = "wait"
  /\ UNCHANGED <<loggerVars, inbox, threads, reqs, answers>>

(* ... and run() waits; main empties the table. *)
AwaitJobs ==
  /\ mpc = "wait"
  /\ mpc' = IF threads = <<>> THEN "exit" ELSE "asleep"
  /\ reqs' = IF threads = <<>> THEN {} ELSE reqs
  /\ UNCHANGED <<loggerVars, inbox, jobs, threads, answers>>

MainStep ==
  \/ TakeRequest \/ TakeCancel \/ TakeEdit \/ LogEdit \/ SpawnElaborate
  \/ TakeShutdown \/ StopLogger \/ CancelJobs \/ AwaitJobs

-----------------------------------------------------------------------------
(* The jobs. *)

At(i, pc) == jobs[i].pc = pc
GoTo(i, pc) == jobs' = [jobs EXCEPT ![i].pc = pc]

LogFromJob(i) == At(i, "run") /\ Push(i) /\ UNCHANGED mainVars
SignalFromJob(i) == Signal(i) /\ UNCHANGED mainVars

Elaborated(i) ==
  /\ At(i, "run")
  /\ ~signal[i]
  /\ GoTo(i, IF jobs[i].id = 0 THEN "leave" ELSE "finish")
  /\ UNCHANGED <<loggerVars, inbox, mpc, threads, reqs, answers>>

(* RequestHandler::finish: out of the table, then the answer. *)
Finish(i) ==
  /\ At(i, "finish")
  /\ reqs' = reqs \ {jobs[i].id}
  /\ GoTo(i, "answer")
  /\ UNCHANGED <<loggerVars, inbox, mpc, threads, answers>>

(* swap_remove_front: the front takes the place of the job that leaves. *)
Without(s, i) ==
  LET k == CHOOSE k \in DOMAIN s : s[k] = i
  IN  Tail([s EXCEPT ![k] = s[1]])

(* Broken variant: a job leaves the list and never answers. *)
AnswerLate(i) ==
  /\ At(i, "answer")
  /\ threads' = Without(threads, i)
  /\ answers' = answers
  /\ GoTo(i, "notify")
  /\ UNCHANGED <<loggerVars, inbox, mpc, reqs>>

Answer(i) ==
  /\ At(i, "answer")
  /\ answers' = Append(answers, jobs[i].id)
  /\ GoTo(i, "leave")
  /\ UNCHANGED <<loggerVars, inbox, mpc, threads, reqs>>

Leave(i) ==
  /\ At(i, "leave")
  /\ threads' = Without(threads, i)
  /\ GoTo(i, "notify")
  /\ UNCHANGED <<loggerVars, inbox, mpc, reqs, answers>>

(* Broken variant: the job that leaves wakes nobody. *)
NotifyNone(i) == At(i, "notify") /\ GoTo(i, "gone") /\ UNCHANGED <<loggerVars, inbox, mpc, threads, reqs, answers>>

NotifyAll(i) ==
  /\ At(i, "notify")
  /\ mpc' = IF mpc = "asleep" THEN "wait" ELSE mpc
  /\ GoTo(i, "gone")
  /\ UNCHANGED <<loggerVars, inbox, threads, reqs, answers>>

JobStep(i) == Elaborated(i) \/ Finish(i) \/ Answer(i) \/ Leave(i) \/ NotifyAll(i)

ServerNext ==
  \/ MainStep \/ Disconnect
  \/ \E i \in DOMAIN jobs : LogFromJob(i) \/ SignalFromJob(i) \/ JobStep(i)
  \/ (LoggerStep \/ SpuriousWakeup) /\ UNCHANGED mainVars

(* The threads run, and elaborations end (Server's ComesToRest).  Nothing    *)
(* makes a client leave or a job log.                                       *)
ServerSpec ==
  /\ ServerInit
  /\ [][ServerNext]_serverVars
  /\ WF_serverVars(MainStep)
  /\ WF_serverVars(LoggerStep /\ UNCHANGED mainVars)
  /\ \A i \in Threads \ {Main} :
       WF_serverVars(i \in DOMAIN jobs /\ (SignalFromJob(i) \/ JobStep(i)))

-----------------------------------------------------------------------------
Answers(id) == Cardinality({k \in DOMAIN answers : answers[k] = id})

(* When the server has left run(), every request it took has been answered,   *)
(* once, whether it was cancelled or the shutdown overtook it, and no job is  *)
(* left that could touch the tables main empties.                           *)
ExitIsComplete ==
  mpc = "exit" => \A i \in DOMAIN jobs :
    /\ jobs[i].pc \in {"notify", "gone"}
    /\ jobs[i].id # 0 => Answers(jobs[i].id) = 1

(* A request is answered, whatever the client and the shutdown do meanwhile. *)
RequestsAreAnswered ==
  \A id \in Threads \ {Main} :
    (\E i \in DOMAIN jobs : jobs[i].id = id) ~> (Answers(id) = 1)

(* The server exits once it has left its loop, unless the signal that stops   *)
(* its logger falls between the logger's test of the flag and its wait: then  *)
(* the join never returns.                                                  *)
Exits == (spc = "stored" /\ lpc # "wait") ~> mpc = "exit"
=============================================================================
