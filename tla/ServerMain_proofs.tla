-------------------------- MODULE ServerMain_proofs --------------------------
(* The loop of the server is a client of the logger: what is proved of the   *)
(* logger holds of it in the server.  Its own inductive invariant says which *)
(* jobs are on the list, and which requests have their answer.               *)
EXTENDS ServerMain, TLAPS, FiniteSetTheorems

-----------------------------------------------------------------------------
(* The logger by itself. *)

(* The logger's state keeps its type: queue, batch and output hold only    *)
(* messages that log() has pushed, and the counters stay in their bound.   *)
THEOREM LoggerTypeOK == Spec => []TypeOK
<1> USE LoggerAssumption
<1>1. Init => TypeOK
  <2> USE DEF Init
  <2>1. Init => /\ queue \in Seq(Message)
                /\ batch \in Seq(Message)
                /\ printed \in Seq(Message)
    OBVIOUS
  <2>2. Init => logged \in [Threads -> 0..MaxMsgs]
    OBVIOUS
  <2>3. Init => signal \in [Threads -> BOOLEAN] /\ cancel \in BOOLEAN
    OBVIOUS
  <2> QED
    BY <2>1, <2>2, <2>3 DEF TypeOK
<1>2. TypeOK /\ [Next]_vars => TypeOK'
  <2> SUFFICES ASSUME TypeOK, [Next]_vars
               PROVE  TypeOK'
    OBVIOUS
  <2> USE DEF TypeOK
  <2>1. ASSUME NEW t \in Threads, Push(t) PROVE TypeOK'
    <3>1. <<t, logged[t] + 1>> \in Message
      BY <2>1 DEF Push, Message
    <3> QED
      BY <2>1, <3>1 DEF Push
  <2>2. ASSUME NEW t \in Threads, Signal(t) PROVE TypeOK'
    BY <2>2 DEF Signal, Notify
  <2>3. CASE Test
    BY <2>3 DEF Test
  <2>4. CASE Sleep \/ SpuriousWakeup
    BY <2>4 DEF Sleep, SpuriousWakeup
  <2>5. CASE Swap
    BY <2>5 DEF Swap
  <2>6. CASE Drain
    <3>1. CASE batch = <<>>
      BY <2>6, <3>1 DEF Drain
    <3>2. CASE batch # <<>>
      <4>1. Head(batch) \in Message /\ Tail(batch) \in Seq(Message)
        BY <3>2
      <4>2. Append(printed, Head(batch)) \in Seq(Message)
        BY <4>1
      <4> QED
        BY <2>6, <3>2, <4>1, <4>2 DEF Drain
    <3> QED
      BY <3>1, <3>2
  <2>7. CASE StopStore \/ StopStep
    BY <2>7 DEF StopStore, StopStep, StopNotify, StopJoin, Notify
  <2>8. CASE UNCHANGED vars
    BY <2>8 DEF vars
  <2> QED
    BY <2>1, <2>2, <2>3, <2>4, <2>5, <2>6, <2>7, <2>8 DEF Next, LoggerStep
<1> QED
  BY <1>1, <1>2, PTL DEF Spec

-----------------------------------------------------------------------------
(* The journal of a thread that logs its next message is still in order.     *)
LEMMA AppendInOrder ==
  ASSUME NEW j \in Seq(Message), NEW c \in [Threads -> 0..MaxMsgs], InOrder(j, c),
         NEW t \in Threads, c[t] < MaxMsgs
  PROVE  InOrder(Append(j, <<t, c[t] + 1>>), [c EXCEPT ![t] = @ + 1])
<1> DEFINE e == <<t, c[t] + 1>>
           k == Append(j, e)
           d == [c EXCEPT ![t] = @ + 1]
           last == Len(j) + 1
<1>1. /\ last \in DOMAIN k /\ k[last] = e
      /\ \A i \in DOMAIN j : i \in DOMAIN k /\ i < last /\ k[i] = j[i] /\ j[i] \in Message
      /\ \A i \in DOMAIN k : i \in Nat /\ i <= last /\ (i # last => i \in DOMAIN j)
  <2>1. e \in Message
    BY LoggerAssumption DEF Message
  <2> HIDE DEF e
  <2>2. DOMAIN j = 1..Len(j) /\ DOMAIN k = 1..(Len(j) + 1) /\ Len(j) \in Nat
    BY <2>1
  <2>3. k[last] = e /\ \A i \in DOMAIN j : k[i] = j[i] /\ j[i] \in Message
    BY <2>1
  <2> QED
    BY <2>2, <2>3
<1>2. \A m \in Message : m[1] \in Threads /\ m[2] \in Nat
  BY LoggerAssumption DEF Message
<1>3. c[t] \in Nat /\ d[t] = c[t] + 1 /\ \A u \in Threads : c[u] \in Nat /\ d[u] \in Nat /\ d[u] >= c[u] /\ (u # t => d[u] = c[u])
  BY LoggerAssumption
<1>4. e[1] = t /\ e[2] = c[t] + 1 /\ e = <<t, c[t] + 1>>
  OBVIOUS
<1> HIDE DEF e, k, d, last
<1>5. \A u \in Threads : \A n \in 1..d[u] : \E i \in DOMAIN k : k[i] = <<u, n>>
  <2> SUFFICES ASSUME NEW u \in Threads, NEW n \in 1..d[u]
               PROVE  \E i \in DOMAIN k : k[i] = <<u, n>>
    OBVIOUS
  <2>1. CASE n \in 1..c[u]
    <3>1. PICK i \in DOMAIN j : j[i] = <<u, n>>
      BY <2>1 DEF InOrder
    <3> QED
      BY <1>1, <3>1
  <2>2. CASE n \notin 1..c[u]
    <3>1. u = t /\ n = c[t] + 1
      BY <1>3, <2>2
    <3> QED
      BY <1>1, <1>4, <3>1
  <2> QED
    BY <2>1, <2>2
<1>6. ASSUME NEW i \in DOMAIN k
      PROVE  k[i][2] <= d[k[i][1]]
  <2>1. CASE i \in DOMAIN j
    <3>1. j[i][2] <= c[j[i][1]]
      BY <2>1 DEF InOrder
    <3> QED
      BY <1>1, <1>2, <1>3, <2>1, <3>1
  <2>2. CASE i = last
    BY <1>1, <1>3, <1>4, <2>2
  <2> QED
    BY <1>1, <2>1, <2>2
<1>7. ASSUME NEW i \in DOMAIN k, NEW m \in DOMAIN k, i < m, k[i][1] = k[m][1]
      PROVE  k[i][2] < k[m][2]
  <2>1. i \in DOMAIN j
    BY <1>1, <1>7 DEF last
  <2>2. CASE m \in DOMAIN j
    BY <1>1, <1>7, <2>1, <2>2 DEF InOrder
  <2>3. CASE m = last
    <3>1. k[i] = j[i] /\ k[m] = e /\ j[i][1] = t
      BY <1>1, <1>4, <1>7, <2>1, <2>3
    <3>2. j[i][2] <= c[t] /\ j[i][2] \in Nat
      BY <1>1, <1>2, <2>1, <3>1 DEF InOrder
    <3> QED
      BY <1>3, <1>4, <3>1, <3>2
  <2> QED
    BY <1>1, <2>2, <2>3
<1>8. InOrder(k, d)
  BY <1>5, <1>6, <1>7 DEF InOrder
<1> QED
  BY <1>8 DEF k, d, e

(* What the drain takes from the batch it prints, and what the swap takes    *)
(* from the queue it puts into an empty batch: the journal stays as it is.   *)
LEMMA JournalMoves ==
  ASSUME NEW p \in Seq(Message), NEW b \in Seq(Message), NEW q \in Seq(Message)
  PROVE  /\ p \o b \o q \in Seq(Message)
         /\ b # <<>> => Append(p, Head(b)) \o Tail(b) \o q = p \o b \o q
         /\ p \o q \o <<>> = p \o <<>> \o q
         /\ \A e \in Message : p \o b \o Append(q, e) = Append(p \o b \o q, e)
<1>1. b # <<>> => Append(p, Head(b)) \o Tail(b) = p \o b
  OBVIOUS
<1>2. \A e \in Message : p \o b \o Append(q, e) = Append(p \o b \o q, e)
  OBVIOUS
<1>3. p \o q \o <<>> = p \o <<>> \o q
  OBVIOUS
<1>4. p \o b \o q \in Seq(Message)
  OBVIOUS
<1> QED
  BY <1>1, <1>2, <1>3, <1>4

(* A step of the logger keeps the journal exact.                             *)
LEMMA JournalKept ==
  ASSUME TypeOK, ExactlyOnceInOrder, [Next]_vars
  PROVE  ExactlyOnceInOrder'
<1> USE DEF TypeOK
<1>1. /\ Journal \in Seq(Message)
      /\ InOrder(Journal, logged)
  BY JournalMoves DEF ExactlyOnceInOrder, Journal
<1>2. InOrder(Journal', logged') => ExactlyOnceInOrder'
  BY DEF InOrder, ExactlyOnceInOrder
<1>3. CASE Journal' = Journal /\ logged' = logged
  BY <1>1, <1>2, <1>3
<1>4. ASSUME NEW t \in Threads, Push(t) PROVE ExactlyOnceInOrder'
  <2>1. <<t, logged[t] + 1>> \in Message
    BY <1>4, LoggerAssumption DEF Push, Message
  <2>2. Journal' = Append(Journal, <<t, logged[t] + 1>>)
    BY <1>4, <2>1, JournalMoves, SMTT(60) DEF Push, Journal
  <2>3. InOrder(Append(Journal, <<t, logged[t] + 1>>), [logged EXCEPT ![t] = @ + 1])
    BY <1>1, <1>4, AppendInOrder DEF Push
  <2>4. InOrder(Journal', logged')
    BY <1>4, <2>2, <2>3 DEF Push
  <2> QED
    BY <1>2, <2>4
<1>5. ASSUME NEW t \in Threads, Signal(t) PROVE ExactlyOnceInOrder'
  BY <1>3, <1>5 DEF Signal, Journal
<1>6. CASE Test \/ Sleep \/ SpuriousWakeup \/ StopStore \/ StopStep
  BY <1>3, <1>6 DEF Test, Sleep, SpuriousWakeup, StopStore, StopStep, StopNotify, StopJoin, Journal
<1>7. CASE Swap
  BY <1>3, <1>7, JournalMoves DEF Swap, Journal
<1>8. CASE Drain
  <2>1. CASE batch = <<>>
    BY <1>3, <1>8, <2>1 DEF Drain, Journal
  <2>2. CASE batch # <<>>
    <3>1. Append(printed, Head(batch)) \o Tail(batch) \o queue = printed \o batch \o queue
      BY <2>2, JournalMoves
    <3>2. Journal' = Journal /\ logged' = logged
      BY <1>8, <2>2, <3>1 DEF Drain, Journal
    <3> QED
      BY <1>3, <3>2
  <2> QED
    BY <2>1, <2>2
<1>9. CASE UNCHANGED vars
  BY <1>3, <1>9 DEF vars, Journal
<1> QED
  BY <1>4, <1>5, <1>6, <1>7, <1>8, <1>9 DEF Next, LoggerStep

(* No message is lost, repeated or reordered between log() and the client,   *)
(* whatever the threads, the logger and the stop do meanwhile.               *)
THEOREM LoggerExactlyOnce == Spec => []ExactlyOnceInOrder
<1>1. Init => ExactlyOnceInOrder
  <2> SUFFICES ASSUME Init PROVE ExactlyOnceInOrder
    OBVIOUS
  <2>1. Journal = <<>> /\ DOMAIN Journal = {}
    BY DEF Init, Journal
  <2>2. \A t \in Threads : 1..logged[t] = {}
    BY DEF Init
  <2> QED
    BY <2>1, <2>2 DEF ExactlyOnceInOrder, InOrder
<1>2. TypeOK /\ ExactlyOnceInOrder /\ [Next]_vars => ExactlyOnceInOrder'
  BY JournalKept
<1> QED
  BY <1>1, <1>2, LoggerTypeOK, PTL DEF Spec

-----------------------------------------------------------------------------
(* The main loop and its jobs. *)

ClientMessage == [m : {"request", "cancel", "edit", "shutdown"}, id : Nat]
Job == [id : Nat, pc : {"run", "finish", "answer", "leave", "notify", "gone"}, cancel : BOOLEAN]

ServerType ==
  /\ inbox \in Seq(ClientMessage)
  /\ mpc \in {"recv", "edit", "left", "wait", "asleep", "exit"}
  /\ jobs \in Seq(Job)
  /\ threads \in Seq(Nat)
  /\ reqs \in SUBSET Nat
  /\ answers \in Seq(Nat)

(* There is a thread for the jobs spawned and those still to spawn.          *)
RoomForJobs ==
  1..(Len(jobs) + Len(inbox) + (IF mpc = "edit" THEN 1 ELSE 0)) \subseteq Threads

(* The list holds every job that has not left, once, and is empty at exit.   *)
HasLeft(job) == job.pc \in {"notify", "gone"}

ListIsExact ==
  /\ \A k \in DOMAIN threads : threads[k] \in DOMAIN jobs /\ ~HasLeft(jobs[threads[k]])
  /\ \A i \in DOMAIN jobs : ~HasLeft(jobs[i]) => \E k \in DOMAIN threads : threads[k] = i
  /\ \A k, l \in DOMAIN threads : threads[k] = threads[l] => k = l
  /\ mpc = "exit" => threads = <<>>

(* No two requests, taken or to come, have one number.                       *)
NumbersDiffer ==
  /\ \A i, j \in DOMAIN jobs : jobs[i].id # 0 /\ jobs[i].id = jobs[j].id => i = j
  /\ \A i \in DOMAIN jobs, k \in DOMAIN inbox :
       inbox[k].m = "request" => inbox[k].id # jobs[i].id
  /\ \A k \in DOMAIN inbox : inbox[k].m = "request" =>
       inbox[k].id # 0 /\ \A l \in DOMAIN inbox : inbox[l].m = "request" /\ inbox[l].id = inbox[k].id => l = k

(* A request has its answer from the step that sends it on, and one only.    *)
HasAnswered(job) == job.pc \in {"leave", "notify", "gone"}

AnsweredOnce ==
  /\ \A i \in DOMAIN jobs : jobs[i].pc \in {"finish", "answer"} => jobs[i].id # 0
  /\ \A i \in DOMAIN jobs : jobs[i].id # 0 =>
       (HasAnswered(jobs[i]) <=> \E k \in DOMAIN answers : answers[k] = jobs[i].id)
  /\ \A k \in DOMAIN answers : \E i \in DOMAIN jobs : jobs[i].id = answers[k] /\ answers[k] # 0
  /\ \A k, l \in DOMAIN answers : answers[k] = answers[l] => k = l

ServerInv == ServerType /\ RoomForJobs /\ ListIsExact /\ NumbersDiffer /\ AnsweredOnce

-----------------------------------------------------------------------------
(* Sequences: a tail, an element appended, the one that leaves the list.     *)

LEMMA TailFacts ==
  ASSUME NEW S, NEW s \in Seq(S), s # <<>>
  PROVE  /\ Tail(s) \in Seq(S) /\ Len(Tail(s)) = Len(s) - 1 /\ Len(s) \in Nat /\ Len(s) > 0
         /\ 1 \in DOMAIN s /\ Head(s) = s[1] /\ s[1] \in S
         /\ \A k \in DOMAIN Tail(s) : k \in Nat /\ k + 1 \in DOMAIN s /\ k + 1 # 1 /\ Tail(s)[k] = s[k + 1]
OBVIOUS

LEMMA AppendFacts ==
  ASSUME NEW S, NEW s \in Seq(S), NEW e \in S
  PROVE  /\ Append(s, e) \in Seq(S)
         /\ Len(s) \in Nat /\ Len(Append(s, e)) = Len(s) + 1
         /\ DOMAIN s = 1..Len(s) /\ DOMAIN Append(s, e) = 1..(Len(s) + 1)
         /\ Len(s) + 1 \in DOMAIN Append(s, e) /\ Append(s, e)[Len(s) + 1] = e
         /\ Len(s) + 1 \notin DOMAIN s
         /\ \A i \in DOMAIN s : i \in DOMAIN Append(s, e) /\ Append(s, e)[i] = s[i]
         /\ \A i \in DOMAIN Append(s, e) : i # Len(s) + 1 => i \in DOMAIN s
OBVIOUS

(* swap_remove_front takes one element out and keeps every other, once.      *)
LEMMA WithoutFacts ==
  ASSUME NEW s \in Seq(Nat), NEW i, \E k \in DOMAIN s : s[k] = i,
         \A k, l \in DOMAIN s : s[k] = s[l] => k = l
  PROVE  /\ Without(s, i) \in Seq(Nat)
         /\ \A k, l \in DOMAIN Without(s, i) : Without(s, i)[k] = Without(s, i)[l] => k = l
         /\ \A k \in DOMAIN Without(s, i) : Without(s, i)[k] # i /\ \E l \in DOMAIN s : s[l] = Without(s, i)[k]
         /\ \A l \in DOMAIN s : s[l] # i => \E k \in DOMAIN Without(s, i) : Without(s, i)[k] = s[l]
<1> DEFINE at == CHOOSE k \in DOMAIN s : s[k] = i
           r == [s EXCEPT ![at] = s[1]]
<1>1. at \in DOMAIN s /\ s[at] = i
  OBVIOUS
<1> HIDE DEF at
<1>2. /\ s # <<>> /\ Len(s) \in Nat /\ DOMAIN s = 1..Len(s) /\ 1 \in DOMAIN s
      /\ \A k \in DOMAIN s : s[k] \in Nat
  BY <1>1
<1>3. /\ r \in Seq(Nat) /\ Len(r) = Len(s) /\ r # <<>>
      /\ \A k \in DOMAIN s : r[k] = IF k = at THEN s[1] ELSE s[k]
  BY <1>1, <1>2
<1> HIDE DEF r
<1>4. /\ Tail(r) \in Seq(Nat) /\ DOMAIN Tail(r) = 1..(Len(s) - 1)
      /\ \A k \in 1..(Len(s) - 1) : k \in Nat /\ k + 1 \in DOMAIN s /\ Tail(r)[k] = IF k + 1 = at THEN s[1] ELSE s[k + 1]
  BY <1>2, <1>3, SMTT(60)
<1>5. Without(s, i) = Tail(r)
  BY DEF Without, r, at
<1> DEFINE from(k) == IF k + 1 = at THEN 1 ELSE k + 1
<1>6. ASSUME NEW k \in 1..(Len(s) - 1)
      PROVE  from(k) \in DOMAIN s /\ from(k) # at /\ Tail(r)[k] = s[from(k)]
  <2>1. CASE k + 1 = at
    BY <1>2, <1>4, <2>1
  <2>2. CASE k + 1 # at
    BY <1>4, <2>2
  <2> QED
    BY <2>1, <2>2
<1>7. \A k, l \in 1..(Len(s) - 1) : from(k) = from(l) => k = l
  BY <1>1, <1>2
<1> HIDE DEF from
<1>9. \A k, l \in 1..(Len(s) - 1) : Tail(r)[k] = Tail(r)[l] => k = l
  BY <1>6, <1>7
<1>10. \A k \in 1..(Len(s) - 1) : Tail(r)[k] # i /\ \E l \in DOMAIN s : s[l] = Tail(r)[k]
  BY <1>1, <1>6
<1>8. ASSUME NEW l \in DOMAIN s, s[l] # i
      PROVE  \E k \in 1..(Len(s) - 1) : Tail(r)[k] = s[l]
  <2>1. CASE l = 1
    <3>1. at # 1 /\ at - 1 \in 1..(Len(s) - 1) /\ (at - 1) + 1 = at
      BY <1>1, <1>2, <1>8, <2>1
    <3> QED
      BY <1>4, <2>1, <3>1
  <2>2. CASE l # 1
    <3>1. l # at /\ l - 1 \in 1..(Len(s) - 1) /\ (l - 1) + 1 = l
      BY <1>1, <1>2, <1>8, <2>2
    <3> QED
      BY <1>4, <3>1
  <2> QED
    BY <2>1, <2>2
<1> QED
  BY <1>4, <1>5, <1>8, <1>9, <1>10, ZenonT(60)

-----------------------------------------------------------------------------
(* What the invariant says depends on the number and the place of each job,   *)
(* not on its flag: asking jobs to stop keeps it.                             *)
LEMMA FlagsKeep ==
  ASSUME ServerInv, jobs' \in Seq(Job), Len(jobs') = Len(jobs),
         \A i \in DOMAIN jobs : jobs'[i].id = jobs[i].id /\ jobs'[i].pc = jobs[i].pc,
         UNCHANGED <<threads, answers>>, mpc' = "exit" => threads = <<>>
  PROVE  ListIsExact' /\ AnsweredOnce'
<1>1. DOMAIN jobs' = DOMAIN jobs
  BY DEF ServerInv, ServerType
<1>2. \A i \in DOMAIN jobs : HasLeft(jobs'[i]) = HasLeft(jobs[i]) /\ HasAnswered(jobs'[i]) = HasAnswered(jobs[i])
  BY DEF HasLeft, HasAnswered
<1>3. \A k \in DOMAIN threads : threads[k] \in DOMAIN jobs
  BY DEF ServerInv, ListIsExact
<1>4. ListIsExact'
  BY <1>1, <1>2, <1>3 DEF ServerInv, ListIsExact
<1>5. AnsweredOnce'
  BY <1>1, <1>2 DEF ServerInv, AnsweredOnce
<1> QED
  BY <1>4, <1>5

(* A job that is spawned runs, is on the list, and has not answered.          *)
LEMMA SpawnKeeps ==
  ASSUME ServerInv, NEW n \in Nat, Spawn(n), mpc' # "exit", answers' = answers,
         \A i \in DOMAIN jobs : n # 0 => jobs[i].id # n
  PROVE  /\ jobs' \in Seq(Job) /\ threads' \in Seq(Nat) /\ Len(jobs') = Len(jobs) + 1
         /\ DOMAIN jobs \subseteq DOMAIN jobs' /\ \A i \in DOMAIN jobs : jobs'[i] = jobs[i]
         /\ \A i \in DOMAIN jobs' : i \notin DOMAIN jobs => i = Len(jobs) + 1 /\ jobs'[i].id = n
         /\ ListIsExact' /\ AnsweredOnce'
<1> DEFINE new == Len(jobs) + 1
           job == [id |-> n, pc |-> "run", cancel |-> FALSE]
<1>1. job \in Job /\ jobs' = Append(jobs, job) /\ jobs \in Seq(Job)
  BY DEF Spawn, Job, ServerInv, ServerType
<1>2. threads \in Seq(Nat) /\ threads' = Append(threads, new) /\ new \in Nat
  BY <1>1 DEF Spawn, ServerInv, ServerType
<1>3. job.id = n /\ job.pc = "run"
  OBVIOUS
<1> HIDE DEF job
<1>4. /\ jobs' \in Seq(Job) /\ Len(jobs') = Len(jobs) + 1
      /\ DOMAIN jobs \subseteq DOMAIN jobs' /\ \A i \in DOMAIN jobs : jobs'[i] = jobs[i]
      /\ new \in DOMAIN jobs' /\ jobs'[new] = job /\ new \notin DOMAIN jobs
      /\ \A i \in DOMAIN jobs' : i # new => i \in DOMAIN jobs
  BY <1>1, AppendFacts
<1>5. /\ threads' \in Seq(Nat)
      /\ DOMAIN threads \subseteq DOMAIN threads' /\ \A k \in DOMAIN threads : threads'[k] = threads[k]
      /\ Len(threads) + 1 \in DOMAIN threads' /\ threads'[Len(threads) + 1] = new
      /\ \A k \in DOMAIN threads' : k # Len(threads) + 1 => k \in DOMAIN threads
  BY <1>2, AppendFacts
<1> HIDE DEF new
<1>6. /\ ~HasLeft(jobs'[new]) /\ ~HasAnswered(jobs'[new]) /\ jobs'[new].pc \notin {"finish", "answer"}
      /\ \A i \in DOMAIN jobs : HasLeft(jobs'[i]) = HasLeft(jobs[i]) /\ HasAnswered(jobs'[i]) = HasAnswered(jobs[i])
  BY <1>3, <1>4 DEF HasLeft, HasAnswered
<1>7. ListIsExact'
  <2>1. \A k \in DOMAIN threads : threads[k] \in DOMAIN jobs /\ ~HasLeft(jobs[threads[k]])
    BY DEF ServerInv, ListIsExact
  <2>2. \A k \in DOMAIN threads' : threads'[k] \in DOMAIN jobs' /\ ~HasLeft(jobs'[threads'[k]])
    <3> SUFFICES ASSUME NEW k \in DOMAIN threads'
                 PROVE  threads'[k] \in DOMAIN jobs' /\ ~HasLeft(jobs'[threads'[k]])
      OBVIOUS
    <3>1. CASE k = Len(threads) + 1
      BY <1>4, <1>5, <1>6, <3>1 DEF HasLeft
    <3>2. CASE k \in DOMAIN threads
      BY <1>4, <1>5, <2>1, <3>2 DEF HasLeft
    <3> QED
      BY <1>5, <3>1, <3>2
  <2>3. ASSUME NEW i \in DOMAIN jobs', ~HasLeft(jobs'[i])
        PROVE  \E k \in DOMAIN threads' : threads'[k] = i
    <3>1. CASE i = new
      BY <1>5, <3>1
    <3>2. CASE i \in DOMAIN jobs
      BY <1>5, <1>6, <2>3, <3>2 DEF ServerInv, ListIsExact
    <3> QED
      BY <1>4, <3>1, <3>2
  <2>4. ASSUME NEW k \in DOMAIN threads', NEW l \in DOMAIN threads', threads'[k] = threads'[l]
        PROVE  k = l
    <3>1. \A m \in DOMAIN threads : threads'[m] # new
      BY <1>4, <1>5, <2>1
    <3>2. CASE k \in DOMAIN threads /\ l \in DOMAIN threads
      BY <1>5, <2>4, <3>2 DEF ServerInv, ListIsExact
    <3> QED
      BY <1>5, <2>4, <3>1, <3>2
  <2> QED
    BY <2>2, <2>3, <2>4 DEF ListIsExact, HasLeft
<1>8. AnsweredOnce'
  <2>1. \A i \in DOMAIN jobs' : jobs'[i].pc \in {"finish", "answer"} => jobs'[i].id # 0
    BY <1>4, <1>6 DEF ServerInv, AnsweredOnce
  <2>2. ASSUME NEW i \in DOMAIN jobs', jobs'[i].id # 0
        PROVE  HasAnswered(jobs'[i]) <=> \E k \in DOMAIN answers : answers[k] = jobs'[i].id
    <3>1. CASE i = new
      <4>1. jobs'[i].id = n
        BY <1>3, <1>4, <3>1
      <4>2. \A k \in DOMAIN answers : answers[k] # n
        BY <2>2, <4>1 DEF ServerInv, AnsweredOnce
      <4> QED
        BY <1>6, <3>1, <4>1, <4>2 DEF HasAnswered
    <3>2. CASE i \in DOMAIN jobs
      BY <1>4, <1>6, <2>2, <3>2 DEF ServerInv, AnsweredOnce
    <3> QED
      BY <1>4, <3>1, <3>2
  <2>3. \A k \in DOMAIN answers : \E i \in DOMAIN jobs' : jobs'[i].id = answers[k] /\ answers[k] # 0
    BY <1>4 DEF ServerInv, AnsweredOnce
  <2> QED
    BY <2>1, <2>2, <2>3 DEF ServerInv, AnsweredOnce, HasAnswered
<1> QED
  BY <1>3, <1>4, <1>5, <1>7, <1>8 DEF new

(* A job that moves on from a place to the next, its number kept.             *)
LEMMA GoToFacts ==
  ASSUME ServerType, NEW i \in DOMAIN jobs,
         NEW pc \in {"run", "finish", "answer", "leave", "notify", "gone"}, GoTo(i, pc)
  PROVE  /\ jobs' \in Seq(Job) /\ Len(jobs') = Len(jobs) /\ DOMAIN jobs' = DOMAIN jobs
         /\ \A k \in DOMAIN jobs : jobs'[k].id = jobs[k].id /\ (k # i => jobs'[k] = jobs[k])
         /\ jobs'[i].pc = pc
<1>1. jobs \in Seq(Job) /\ jobs' = [jobs EXCEPT ![i].pc = pc]
  BY DEF ServerType, GoTo
<1>2. \A j \in Job : [j EXCEPT !.pc = pc] \in Job /\ [j EXCEPT !.pc = pc].pc = pc /\ [j EXCEPT !.pc = pc].id = j.id
  BY DEF Job
<1>3. /\ jobs[i] \in Job /\ DOMAIN jobs = 1..Len(jobs) /\ Len(jobs) \in Nat
      /\ jobs'[i] = [jobs[i] EXCEPT !.pc = pc] /\ DOMAIN jobs' = DOMAIN jobs
      /\ \A k \in DOMAIN jobs : k # i => jobs'[k] = jobs[k]
  BY <1>1
<1>4. jobs' \in Seq(Job) /\ Len(jobs') = Len(jobs)
  BY <1>1, <1>2, <1>3
<1>5. jobs'[i].pc = pc /\ \A k \in DOMAIN jobs : jobs'[k].id = jobs[k].id
  BY <1>2, <1>3, ZenonT(60)
<1> QED
  BY <1>3, <1>4, <1>5

(* The flags of some jobs are set.                                            *)
LEMMA FlagFacts ==
  ASSUME ServerType, NEW S,
         jobs' = [i \in DOMAIN jobs |-> IF i \in S THEN [jobs[i] EXCEPT !.cancel = TRUE] ELSE jobs[i]]
  PROVE  /\ jobs' \in Seq(Job) /\ Len(jobs') = Len(jobs) /\ DOMAIN jobs' = DOMAIN jobs
         /\ \A i \in DOMAIN jobs : jobs'[i].id = jobs[i].id /\ jobs'[i].pc = jobs[i].pc
<1>1. \A j \in Job : [j EXCEPT !.cancel = TRUE] \in Job /\ [j EXCEPT !.cancel = TRUE].pc = j.pc /\ [j EXCEPT !.cancel = TRUE].id = j.id
  BY DEF Job
<1>2. DOMAIN jobs = 1..Len(jobs) /\ Len(jobs) \in Nat /\ \A i \in DOMAIN jobs : jobs[i] \in Job
  BY DEF ServerType
<1>3. DOMAIN jobs' = 1..Len(jobs) /\ \A i \in DOMAIN jobs : jobs'[i] = IF i \in S THEN [jobs[i] EXCEPT !.cancel = TRUE] ELSE jobs[i]
  BY <1>2
<1>4. jobs' \in Seq(Job) /\ Len(jobs') = Len(jobs)
  <2>1. \A i \in 1..Len(jobs) : jobs'[i] \in Job
    BY <1>1, <1>2, <1>3
  <2>2. jobs' = [i \in 1..Len(jobs) |-> jobs'[i]]
    BY <1>2
  <2> QED
    BY <1>2, <2>1, <2>2
<1> QED
  BY <1>1, <1>2, <1>3, <1>4

(* Numbers stay apart while the jobs keep theirs and no message comes.        *)
LEMMA NumbersKeep ==
  ASSUME ServerInv, DOMAIN jobs' = DOMAIN jobs, inbox' = inbox,
         \A i \in DOMAIN jobs : jobs'[i].id = jobs[i].id
  PROVE  NumbersDiffer'
BY DEF ServerInv, NumbersDiffer

(* A message that is received, spawns no job and leaves the numbers alone.    *)
LEMMA ReceiveKeeps ==
  ASSUME ServerInv, inbox # <<>>, inbox' = Tail(inbox), Len(jobs') = Len(jobs),
         \A i \in DOMAIN jobs : jobs'[i].id = jobs[i].id,
         jobs' \in Seq(Job), mpc # "edit"
  PROVE  RoomForJobs' /\ NumbersDiffer' /\ inbox' \in Seq(ClientMessage)
<1>1. inbox \in Seq(ClientMessage) /\ jobs \in Seq(Job) /\ Len(jobs) \in Nat
  BY DEF ServerInv, ServerType
<1>2. inbox' \in Seq(ClientMessage) /\ Len(inbox') = Len(inbox) - 1 /\ Len(inbox) \in Nat /\ Len(inbox) > 0
  BY <1>1, TailFacts
<1>3. \A k \in DOMAIN inbox' : k \in Nat /\ k + 1 \in DOMAIN inbox /\ inbox'[k] = inbox[k + 1]
  BY <1>1, TailFacts
<1>4. DOMAIN jobs' = DOMAIN jobs
  BY <1>1
<1>5. RoomForJobs'
  BY <1>1, <1>2 DEF ServerInv, RoomForJobs
<1>6. NumbersDiffer'
  <2>1. \A i \in DOMAIN jobs, k \in DOMAIN inbox' : inbox'[k].m = "request" => inbox'[k].id # jobs[i].id
    BY <1>3 DEF ServerInv, NumbersDiffer
  <2>2. ASSUME NEW k \in DOMAIN inbox', inbox'[k].m = "request"
        PROVE  inbox'[k].id # 0 /\ \A l \in DOMAIN inbox' : inbox'[l].m = "request" /\ inbox'[l].id = inbox'[k].id => l = k
    <3>1. inbox[k + 1].id # 0 /\ \A l \in DOMAIN inbox : inbox[l].m = "request" /\ inbox[l].id = inbox[k + 1].id => l = k + 1
      BY <1>3, <2>2 DEF ServerInv, NumbersDiffer
    <3> QED
      BY <1>3, <3>1
  <2> QED
    BY <1>4, <2>1, <2>2 DEF ServerInv, NumbersDiffer
<1> QED
  BY <1>2, <1>5, <1>6

-----------------------------------------------------------------------------
(* The steps of run().                                                        *)

LEMMA TakeRequestKeeps == ServerInv /\ TakeRequest => ServerInv'
<1> SUFFICES ASSUME ServerInv, TakeRequest PROVE ServerInv'
  OBVIOUS
<1> DEFINE n == inbox[1].id
<1>1. /\ inbox \in Seq(ClientMessage) /\ inbox # <<>> /\ inbox' = Tail(inbox)
      /\ mpc = "recv" /\ mpc' = "recv" /\ answers' = answers
  BY DEF TakeRequest, Receive, ServerInv, ServerType
<1>2. /\ inbox' \in Seq(ClientMessage) /\ Len(inbox') = Len(inbox) - 1 /\ Len(inbox) \in Nat /\ Len(inbox) > 0
      /\ 1 \in DOMAIN inbox /\ Head(inbox) = inbox[1] /\ inbox[1] \in ClientMessage
      /\ \A k \in DOMAIN inbox' : k \in Nat /\ k + 1 \in DOMAIN inbox /\ k + 1 # 1 /\ inbox'[k] = inbox[k + 1]
  BY <1>1, TailFacts
<1>3. n \in Nat /\ inbox[1].m = "request" /\ Spawn(n) /\ reqs' = reqs \union {n}
  BY <1>2 DEF TakeRequest, Receive, ClientMessage
<1>4. n # 0 /\ \A i \in DOMAIN jobs : jobs[i].id # n
  BY <1>2, <1>3 DEF ServerInv, NumbersDiffer
<1> HIDE DEF n
<1>5. /\ jobs' \in Seq(Job) /\ threads' \in Seq(Nat) /\ Len(jobs') = Len(jobs) + 1
      /\ DOMAIN jobs \subseteq DOMAIN jobs' /\ \A i \in DOMAIN jobs : jobs'[i] = jobs[i]
      /\ \A i \in DOMAIN jobs' : i \notin DOMAIN jobs => i = Len(jobs) + 1 /\ jobs'[i].id = n
      /\ ListIsExact' /\ AnsweredOnce'
  <2>1. mpc' # "exit"
    BY <1>1
  <2> QED
    BY <1>1, <1>3, <1>4, <2>1, SpawnKeeps
<1>6. RoomForJobs'
  <2>1. Len(jobs) \in Nat
    BY DEF ServerInv, ServerType
  <2> QED
    BY <1>1, <1>2, <1>5, <2>1 DEF ServerInv, RoomForJobs
<1>7. NumbersDiffer'
  <2>1. \A i, j \in DOMAIN jobs' : jobs'[i].id # 0 /\ jobs'[i].id = jobs'[j].id => i = j
    BY <1>4, <1>5 DEF ServerInv, NumbersDiffer
  <2>2. ASSUME NEW k \in DOMAIN inbox', inbox'[k].m = "request"
        PROVE  /\ \A i \in DOMAIN jobs' : inbox'[k].id # jobs'[i].id
               /\ inbox'[k].id # 0
               /\ \A l \in DOMAIN inbox' : inbox'[l].m = "request" /\ inbox'[l].id = inbox'[k].id => l = k
    <3>1. /\ inbox[k + 1].m = "request" /\ k + 1 \in DOMAIN inbox
          /\ \A l \in DOMAIN inbox : inbox[l].m = "request" /\ inbox[l].id = inbox[k + 1].id => l = k + 1
          /\ inbox[k + 1].id # 0 /\ \A i \in DOMAIN jobs : inbox[k + 1].id # jobs[i].id
      BY <1>2, <2>2 DEF ServerInv, NumbersDiffer
    <3>2. inbox[k + 1].id # n
      BY <1>2, <1>3, <3>1 DEF n
    <3> QED
      BY <1>2, <1>5, <3>1, <3>2
  <2> QED
    BY <2>1, <2>2 DEF NumbersDiffer
<1>8. ServerType'
  BY <1>1, <1>2, <1>3, <1>5 DEF ServerInv, ServerType
<1> QED
  BY <1>5, <1>6, <1>7, <1>8 DEF ServerInv

LEMMA TakeCancelKeeps == ServerInv /\ TakeCancel => ServerInv'
<1> SUFFICES ASSUME ServerInv, TakeCancel PROVE ServerInv'
  OBVIOUS
<1> DEFINE asked == {i \in DOMAIN jobs : jobs[i].id = Head(inbox).id /\ jobs[i].id \in reqs}
<1>1. /\ inbox # <<>> /\ inbox' = Tail(inbox) /\ mpc = "recv" /\ UNCHANGED <<mpc, threads, reqs, answers>>
      /\ jobs' = [i \in DOMAIN jobs |->
           IF i \in asked THEN [jobs[i] EXCEPT !.cancel = TRUE] ELSE jobs[i]]
  BY DEF TakeCancel, Receive
<1>2. /\ jobs' \in Seq(Job) /\ Len(jobs') = Len(jobs)
      /\ \A i \in DOMAIN jobs : jobs'[i].id = jobs[i].id /\ jobs'[i].pc = jobs[i].pc
  BY <1>1, FlagFacts DEF ServerInv
<1>3. RoomForJobs' /\ NumbersDiffer' /\ inbox' \in Seq(ClientMessage)
  <2>1. mpc # "edit"
    BY <1>1
  <2> QED
    BY <1>1, <1>2, <2>1, ReceiveKeeps
<1>4. ListIsExact' /\ AnsweredOnce'
  BY <1>1, <1>2, FlagsKeep
<1> QED
  BY <1>1, <1>2, <1>3, <1>4 DEF ServerInv, ServerType

LEMMA OtherMessagesKeep == ServerInv /\ (TakeEdit \/ TakeShutdown) => ServerInv'
<1> SUFFICES ASSUME ServerInv, TakeEdit \/ TakeShutdown PROVE ServerInv'
  OBVIOUS
<1>1. /\ inbox # <<>> /\ inbox' = Tail(inbox) /\ mpc = "recv" /\ mpc' \in {"edit", "left", "recv"}
      /\ UNCHANGED <<jobs, threads, reqs, answers>>
  BY DEF TakeEdit, TakeShutdown, Receive
<1>2. jobs \in Seq(Job) /\ Len(jobs) \in Nat /\ inbox \in Seq(ClientMessage)
  BY DEF ServerInv, ServerType
<1>3. RoomForJobs' /\ NumbersDiffer' /\ inbox' \in Seq(ClientMessage)
  <2>1. NumbersDiffer' /\ inbox' \in Seq(ClientMessage)
    BY <1>1, <1>2, ReceiveKeeps
  <2>2. Len(inbox') = Len(inbox) - 1 /\ Len(inbox) \in Nat /\ Len(inbox) > 0
    BY <1>1, <1>2, TailFacts
  <2>3. RoomForJobs'
    BY <1>1, <1>2, <2>2 DEF ServerInv, RoomForJobs
  <2> QED
    BY <2>1, <2>3
<1>4. ListIsExact' /\ AnsweredOnce'
  BY <1>1, <1>2, FlagsKeep
<1> QED
  BY <1>1, <1>2, <1>3, <1>4 DEF ServerInv, ServerType

LEMMA SpawnElaborateKeeps == ServerInv /\ SpawnElaborate => ServerInv'
<1> SUFFICES ASSUME ServerInv, SpawnElaborate PROVE ServerInv'
  OBVIOUS
<1>1. mpc = "edit" /\ mpc' = "recv" /\ Spawn(0) /\ UNCHANGED <<inbox, reqs, answers>>
  BY DEF SpawnElaborate
<1>2. /\ jobs' \in Seq(Job) /\ threads' \in Seq(Nat) /\ Len(jobs') = Len(jobs) + 1
      /\ DOMAIN jobs \subseteq DOMAIN jobs' /\ \A i \in DOMAIN jobs : jobs'[i] = jobs[i]
      /\ \A i \in DOMAIN jobs' : i \notin DOMAIN jobs => i = Len(jobs) + 1 /\ jobs'[i].id = 0
      /\ ListIsExact' /\ AnsweredOnce'
  <2>1. mpc' # "exit" /\ 0 \in Nat
    BY <1>1
  <2> QED
    BY <1>1, <2>1, SpawnKeeps
<1>3. Len(jobs) \in Nat /\ Len(inbox) \in Nat
  BY DEF ServerInv, ServerType
<1>4. RoomForJobs'
  BY <1>1, <1>2, <1>3 DEF ServerInv, RoomForJobs
<1>5. NumbersDiffer'
  BY <1>1, <1>2 DEF ServerInv, NumbersDiffer
<1> QED
  BY <1>1, <1>2, <1>4, <1>5 DEF ServerInv, ServerType

(* Leaving the loop, asking the jobs to stop, and waiting for them.           *)
LEMMA LeavingKeeps == ServerInv /\ (Disconnect \/ CancelJobs \/ AwaitJobs) => ServerInv'
<1> SUFFICES ASSUME ServerInv, Disconnect \/ CancelJobs \/ AwaitJobs PROVE ServerInv'
  OBVIOUS
<1>1. /\ UNCHANGED <<inbox, threads, answers>> /\ mpc # "edit"
      /\ mpc' \in {"left", "wait", "asleep", "exit"} /\ (mpc' = "exit" => threads = <<>>)
      /\ reqs' \in {reqs, {}}
  BY DEF Disconnect, CancelJobs, AwaitJobs
<1> DEFINE listed == {i \in DOMAIN jobs : Contains(threads, i)}
<1>2. \/ jobs' = jobs
      \/ jobs' = [i \in DOMAIN jobs |-> IF i \in listed THEN [jobs[i] EXCEPT !.cancel = TRUE] ELSE jobs[i]]
  BY DEF Disconnect, CancelJobs, AwaitJobs
<1>3. /\ jobs' \in Seq(Job) /\ Len(jobs') = Len(jobs) /\ DOMAIN jobs' = DOMAIN jobs
      /\ \A i \in DOMAIN jobs : jobs'[i].id = jobs[i].id /\ jobs'[i].pc = jobs[i].pc
  BY <1>2, FlagFacts DEF ServerInv, ServerType
<1>4. ListIsExact' /\ AnsweredOnce'
  BY <1>1, <1>3, FlagsKeep
<1>5. RoomForJobs'
  BY <1>1, <1>3 DEF ServerInv, RoomForJobs
<1>6. NumbersDiffer'
  BY <1>1, <1>3, NumbersKeep
<1> QED
  BY <1>1, <1>3, <1>4, <1>5, <1>6 DEF ServerInv, ServerType

LEMMA AsideKeeps == ServerInv /\ UNCHANGED mainVars => ServerInv'
BY DEF mainVars, ServerInv, ServerType, RoomForJobs, ListIsExact, NumbersDiffer, AnsweredOnce

-----------------------------------------------------------------------------
(* The steps of a job.                                                        *)

(* Up to the answer: the job stays on the list, and nothing is answered.      *)
LEMMA WorkKeeps ==
  ASSUME ServerInv, NEW i \in DOMAIN jobs, Elaborated(i) \/ Finish(i)
  PROVE  ServerInv'
<1>1. PICK pc \in {"finish", "answer", "leave"} :
        /\ GoTo(i, pc) /\ jobs[i].pc \in {"run", "finish"}
        /\ pc = "leave" => jobs[i].id = 0
        /\ pc # "leave" => jobs[i].id # 0
        /\ UNCHANGED <<inbox, mpc, threads, answers>> /\ reqs' \in SUBSET Nat
  BY DEF Elaborated, Finish, At, ServerInv, ServerType, AnsweredOnce
<1>2. /\ jobs' \in Seq(Job) /\ Len(jobs') = Len(jobs) /\ DOMAIN jobs' = DOMAIN jobs
      /\ \A k \in DOMAIN jobs : jobs'[k].id = jobs[k].id /\ (k # i => jobs'[k] = jobs[k])
      /\ jobs'[i].pc = pc
  BY <1>1, GoToFacts DEF ServerInv
<1>3. ListIsExact'
  <2>1. \A k \in DOMAIN jobs : HasLeft(jobs'[k]) <=> HasLeft(jobs[k])
    BY <1>1, <1>2 DEF HasLeft
  <2> QED
    BY <1>1, <1>2, <2>1 DEF ServerInv, ListIsExact
<1>4. AnsweredOnce'
  <2>1. \A k \in DOMAIN jobs : jobs[k].id # 0 => (HasAnswered(jobs'[k]) <=> HasAnswered(jobs[k]))
    BY <1>1, <1>2 DEF HasAnswered
  <2>2. \A k \in DOMAIN jobs : jobs'[k].pc \in {"finish", "answer"} => jobs'[k].id # 0
    BY <1>1, <1>2 DEF ServerInv, AnsweredOnce
  <2> QED
    BY <1>1, <1>2, <2>1, <2>2 DEF ServerInv, AnsweredOnce
<1>5. NumbersDiffer'
  BY <1>1, <1>2, NumbersKeep
<1>6. ServerType' /\ RoomForJobs'
  BY <1>1, <1>2 DEF ServerInv, ServerType, RoomForJobs
<1> QED
  BY <1>3, <1>4, <1>5, <1>6 DEF ServerInv

(* The answer: the number was not answered, and is now, once.                 *)
LEMMA AnswerKeeps ==
  ASSUME ServerInv, NEW i \in DOMAIN jobs, Answer(i)
  PROVE  ServerInv'
<1> DEFINE n == jobs[i].id
<1>1. /\ jobs[i].pc = "answer" /\ GoTo(i, "leave") /\ answers' = Append(answers, n)
      /\ UNCHANGED <<inbox, mpc, threads, reqs>>
  BY DEF Answer, At
<1>2. /\ jobs' \in Seq(Job) /\ Len(jobs') = Len(jobs) /\ DOMAIN jobs' = DOMAIN jobs
      /\ \A k \in DOMAIN jobs : jobs'[k].id = jobs[k].id /\ (k # i => jobs'[k] = jobs[k])
      /\ jobs'[i].pc = "leave"
  BY <1>1, GoToFacts DEF ServerInv
<1>3. n \in Nat /\ n # 0 /\ \A k \in DOMAIN answers : answers[k] # n
  <2>1. n \in Nat
    <3>1. jobs[i] \in Job
      BY DEF ServerInv, ServerType
    <3> QED
      BY <3>1 DEF Job
  <2>2. n # 0 /\ ~HasAnswered(jobs[i])
    BY <1>1 DEF ServerInv, AnsweredOnce, HasAnswered
  <2> QED
    BY <2>1, <2>2 DEF ServerInv, AnsweredOnce
<1>4. /\ answers' \in Seq(Nat)
      /\ Len(answers) + 1 \in DOMAIN answers' /\ answers'[Len(answers) + 1] = n
      /\ \A k \in DOMAIN answers : k \in DOMAIN answers' /\ answers'[k] = answers[k]
      /\ \A k \in DOMAIN answers' : k # Len(answers) + 1 => k \in DOMAIN answers
  BY <1>1, <1>3, AppendFacts DEF ServerInv, ServerType
<1>5. ListIsExact'
  <2>1. \A k \in DOMAIN jobs : HasLeft(jobs'[k]) <=> HasLeft(jobs[k])
    BY <1>1, <1>2 DEF HasLeft
  <2> QED
    BY <1>1, <1>2, <2>1 DEF ServerInv, ListIsExact
<1>6. AnsweredOnce'
  <2>1. \A k \in DOMAIN jobs : jobs'[k].pc \in {"finish", "answer"} => jobs'[k].id # 0
    BY <1>2 DEF ServerInv, AnsweredOnce
  <2>2. ASSUME NEW k \in DOMAIN jobs, jobs[k].id # 0
        PROVE  HasAnswered(jobs'[k]) <=> \E l \in DOMAIN answers' : answers'[l] = jobs[k].id
    <3>1. CASE k = i
      BY <1>2, <1>4, <3>1 DEF HasAnswered
    <3>2. CASE k # i
      <4>1. jobs[k].id # n
        BY <2>2, <3>2 DEF ServerInv, NumbersDiffer
      <4>2. HasAnswered(jobs[k]) <=> \E l \in DOMAIN answers : answers[l] = jobs[k].id
        BY <2>2 DEF ServerInv, AnsweredOnce
      <4> QED
        BY <1>2, <1>4, <3>2, <4>1, <4>2
    <3> QED
      BY <3>1, <3>2
  <2>3. \A l \in DOMAIN answers' : \E k \in DOMAIN jobs : jobs[k].id = answers'[l] /\ answers'[l] # 0
    BY <1>3, <1>4 DEF ServerInv, AnsweredOnce
  <2>4. ASSUME NEW k \in DOMAIN answers', NEW l \in DOMAIN answers', answers'[k] = answers'[l]
        PROVE  k = l
    <3>1. CASE k \in DOMAIN answers /\ l \in DOMAIN answers
      BY <1>4, <2>4, <3>1 DEF ServerInv, AnsweredOnce
    <3> QED
      BY <1>3, <1>4, <2>4, <3>1
  <2> QED
    BY <1>2, <2>1, <2>2, <2>3, <2>4 DEF AnsweredOnce
<1>7. NumbersDiffer'
  BY <1>1, <1>2, NumbersKeep
<1>8. ServerType' /\ RoomForJobs'
  BY <1>1, <1>2, <1>4 DEF ServerInv, ServerType, RoomForJobs
<1> QED
  BY <1>5, <1>6, <1>7, <1>8 DEF ServerInv

(* Leaving the list, which the job is on, so that it was not empty.           *)
LEMMA LeaveKeeps ==
  ASSUME ServerInv, NEW i \in DOMAIN jobs, Leave(i)
  PROVE  ServerInv'
<1> DEFINE rest == Without(threads, i)
<1>1. /\ jobs[i].pc = "leave" /\ GoTo(i, "notify") /\ threads' = rest
      /\ UNCHANGED <<inbox, mpc, reqs, answers>>
  BY DEF Leave, At
<1>2. /\ jobs' \in Seq(Job) /\ Len(jobs') = Len(jobs) /\ DOMAIN jobs' = DOMAIN jobs
      /\ \A k \in DOMAIN jobs : jobs'[k].id = jobs[k].id /\ (k # i => jobs'[k] = jobs[k])
      /\ jobs'[i].pc = "notify"
  BY <1>1, GoToFacts DEF ServerInv
<1>3. \E k \in DOMAIN threads : threads[k] = i
  BY <1>1 DEF ServerInv, ListIsExact, HasLeft
<1>4. /\ threads \in Seq(Nat) /\ mpc # "exit"
      /\ \A k, l \in DOMAIN threads : threads[k] = threads[l] => k = l
  BY <1>3 DEF ServerInv, ServerType, ListIsExact
<1>5. /\ rest \in Seq(Nat)
      /\ \A k, l \in DOMAIN rest : rest[k] = rest[l] => k = l
      /\ \A k \in DOMAIN rest : rest[k] # i /\ \E l \in DOMAIN threads : threads[l] = rest[k]
      /\ \A l \in DOMAIN threads : threads[l] # i => \E k \in DOMAIN rest : rest[k] = threads[l]
  BY <1>3, <1>4, WithoutFacts
<1> HIDE DEF rest
<1>6. ListIsExact'
  <2>1. HasLeft(jobs'[i]) /\ \A k \in DOMAIN jobs : k # i => HasLeft(jobs'[k]) = HasLeft(jobs[k])
    BY <1>2 DEF HasLeft
  <2>2. \A k \in DOMAIN rest : rest[k] \in DOMAIN jobs /\ ~HasLeft(jobs'[rest[k]])
    BY <1>5, <2>1 DEF ServerInv, ListIsExact
  <2>3. \A k \in DOMAIN jobs : ~HasLeft(jobs'[k]) => \E l \in DOMAIN rest : rest[l] = k
    BY <1>5, <2>1 DEF ServerInv, ListIsExact
  <2> QED
    BY <1>1, <1>2, <1>4, <1>5, <2>2, <2>3 DEF ListIsExact
<1>7. AnsweredOnce'
  <2>1. \A k \in DOMAIN jobs : HasAnswered(jobs'[k]) <=> HasAnswered(jobs[k])
    BY <1>1, <1>2 DEF HasAnswered
  <2>2. \A k \in DOMAIN jobs : jobs'[k].pc \in {"finish", "answer"} => jobs'[k].id # 0
    BY <1>2 DEF ServerInv, AnsweredOnce
  <2> QED
    BY <1>1, <1>2, <2>1, <2>2 DEF ServerInv, AnsweredOnce
<1>8. NumbersDiffer'
  BY <1>1, <1>2, NumbersKeep
<1>9. ServerType' /\ RoomForJobs'
  BY <1>1, <1>2, <1>5 DEF ServerInv, ServerType, RoomForJobs
<1> QED
  BY <1>6, <1>7, <1>8, <1>9 DEF ServerInv

LEMMA NotifyAllKeeps ==
  ASSUME ServerInv, NEW i \in DOMAIN jobs, NotifyAll(i)
  PROVE  ServerInv'
<1>1. /\ jobs[i].pc = "notify" /\ GoTo(i, "gone") /\ UNCHANGED <<inbox, threads, reqs, answers>>
      /\ mpc' = IF mpc = "asleep" THEN "wait" ELSE mpc
  BY DEF NotifyAll, At
<1>2. /\ jobs' \in Seq(Job) /\ Len(jobs') = Len(jobs) /\ DOMAIN jobs' = DOMAIN jobs
      /\ \A k \in DOMAIN jobs : jobs'[k].id = jobs[k].id /\ (k # i => jobs'[k] = jobs[k])
      /\ jobs'[i].pc = "gone"
  BY <1>1, GoToFacts DEF ServerInv
<1>3. ListIsExact'
  <2>1. \A k \in DOMAIN jobs : HasLeft(jobs'[k]) <=> HasLeft(jobs[k])
    BY <1>1, <1>2 DEF HasLeft
  <2> QED
    BY <1>1, <1>2, <2>1 DEF ServerInv, ListIsExact
<1>4. AnsweredOnce'
  <2>1. \A k \in DOMAIN jobs : HasAnswered(jobs'[k]) <=> HasAnswered(jobs[k])
    BY <1>1, <1>2 DEF HasAnswered
  <2>2. \A k \in DOMAIN jobs : jobs'[k].pc \in {"finish", "answer"} => jobs'[k].id # 0
    BY <1>2 DEF ServerInv, AnsweredOnce
  <2> QED
    BY <1>1, <1>2, <2>1, <2>2 DEF ServerInv, AnsweredOnce
<1>5. NumbersDiffer'
  BY <1>1, <1>2, NumbersKeep
<1>6. ServerType' /\ RoomForJobs'
  BY <1>1, <1>2 DEF ServerInv, ServerType, RoomForJobs
<1> QED
  BY <1>3, <1>4, <1>5, <1>6 DEF ServerInv

-----------------------------------------------------------------------------
(* Of the loop and of its logger.                                             *)

LEMMA ServerInvKept == ServerInv /\ [ServerNext]_serverVars => ServerInv'
<1> SUFFICES ASSUME ServerInv, [ServerNext]_serverVars PROVE ServerInv'
  OBVIOUS
<1>1. CASE TakeRequest
  BY <1>1, TakeRequestKeeps
<1>2. CASE TakeCancel
  BY <1>2, TakeCancelKeeps
<1>3. CASE TakeEdit \/ TakeShutdown
  BY <1>3, OtherMessagesKeep
<1>4. CASE SpawnElaborate
  BY <1>4, SpawnElaborateKeeps
<1>5. CASE Disconnect \/ CancelJobs \/ AwaitJobs
  BY <1>5, LeavingKeeps
<1>6. CASE LogEdit \/ StopLogger
  BY <1>6, AsideKeeps DEF LogEdit, StopLogger
<1>7. ASSUME NEW i \in DOMAIN jobs, LogFromJob(i) \/ SignalFromJob(i) \/ JobStep(i)
      PROVE  ServerInv'
  <2>1. CASE LogFromJob(i) \/ SignalFromJob(i)
    BY <2>1, AsideKeeps DEF LogFromJob, SignalFromJob
  <2>2. CASE Elaborated(i) \/ Finish(i)
    BY <2>2, WorkKeeps
  <2>3. CASE Answer(i)
    BY <2>3, AnswerKeeps
  <2>4. CASE Leave(i)
    BY <2>4, LeaveKeeps
  <2>5. CASE NotifyAll(i)
    BY <2>5, NotifyAllKeeps
  <2> QED
    BY <1>7, <2>1, <2>2, <2>3, <2>4, <2>5 DEF JobStep
<1>8. CASE UNCHANGED serverVars
  BY <1>8, AsideKeeps DEF serverVars, mainVars
<1>9. CASE MainStep
  BY <1>1, <1>2, <1>3, <1>4, <1>5, <1>6, <1>9 DEF MainStep
<1>10. CASE (LoggerStep \/ SpuriousWakeup) /\ UNCHANGED mainVars
  BY <1>10, AsideKeeps
<1> QED
  BY <1>5, <1>7, <1>8, <1>9, <1>10 DEF ServerNext

LEMMA ServerInvInit == ServerInit => ServerInv
<1> SUFFICES ASSUME ServerInit PROVE ServerInv
  OBVIOUS
<1> USE DEF ServerInit
<1>1. /\ inbox \in Seq(ClientMessage) /\ DOMAIN inbox \subseteq Threads
      /\ \A i \in DOMAIN inbox : inbox[i].m = "request" =>
           inbox[i].id # 0 /\ \A k \in DOMAIN inbox : inbox[k].m = "request" /\ inbox[k].id = inbox[i].id => k = i
  BY ClientAssumption DEF ClientMessage
<1>2. Len(jobs) = 0 /\ DOMAIN jobs = {} /\ DOMAIN threads = {} /\ DOMAIN answers = {}
  OBVIOUS
<1>3. ServerType
  BY <1>1 DEF ServerType
<1>4. RoomForJobs
  BY <1>1, <1>2 DEF RoomForJobs
<1> QED
  BY <1>1, <1>2, <1>3, <1>4 DEF ServerInv, ListIsExact, NumbersDiffer, AnsweredOnce

(* The invariant of the loop: the list of jobs is exact, the numbers of       *)
(* requests differ, and a request is answered from its answer on, once.       *)
THEOREM ServerInductive == ServerSpec => []ServerInv
BY ServerInvInit, ServerInvKept, PTL DEF ServerSpec

(* Every step of the server is a step of its logger, or none: only run() and  *)
(* its jobs log, each on a thread of its own, and only run() stops the logger.*)
LEMMA ServerStepIsLoggerStep == ServerInv /\ [ServerNext]_serverVars => [Next]_vars
<1> SUFFICES ASSUME ServerInv, [ServerNext]_serverVars PROVE [Next]_vars
  OBVIOUS
<1>1. DOMAIN jobs \subseteq Threads /\ Main \in Threads
  <2>1. Len(jobs) \in Nat /\ Len(inbox) \in Nat /\ DOMAIN jobs = 1..Len(jobs)
    BY DEF ServerInv, ServerType
  <2> QED
    BY <2>1, MainAssumption DEF ServerInv, RoomForJobs
<1>2. CASE UNCHANGED loggerVars
  BY <1>2 DEF loggerVars, vars
<1>3. CASE TakeEdit \/ LogEdit
  BY <1>1, <1>3 DEF TakeEdit, LogEdit, Next
<1>4. CASE StopLogger \/ LoggerStep \/ SpuriousWakeup
  BY <1>4 DEF StopLogger, Next
<1>5. ASSUME NEW i \in DOMAIN jobs, LogFromJob(i) \/ SignalFromJob(i) PROVE [Next]_vars
  BY <1>1, <1>5 DEF LogFromJob, SignalFromJob, Next
<1>6. ASSUME NEW i \in DOMAIN jobs, JobStep(i) PROVE [Next]_vars
  BY <1>2, <1>6 DEF JobStep, Elaborated, Finish, Answer, Leave, NotifyAll
<1>7. CASE TakeRequest \/ TakeCancel \/ SpawnElaborate \/ TakeShutdown \/ Disconnect \/ CancelJobs \/ AwaitJobs
  BY <1>2, <1>7 DEF TakeRequest, TakeCancel, SpawnElaborate, TakeShutdown, Disconnect, CancelJobs, AwaitJobs
<1>8. CASE UNCHANGED serverVars
  BY <1>2, <1>8 DEF serverVars, loggerVars
<1> QED
  BY <1>3, <1>4, <1>5, <1>6, <1>7, <1>8 DEF ServerNext, MainStep

(* The server implements its logger: what is proved of Logger's Spec, for any *)
(* threads that log and any moment of the stop, holds in the server.          *)
THEOREM ServerImplementsLogger == ServerSpec => Spec
<1>1. ServerInit => Init
  BY DEF ServerInit
<1>2. ServerInv /\ [ServerNext]_serverVars => [Next]_vars
  BY ServerStepIsLoggerStep
<1> QED
  BY <1>1, <1>2, ServerInductive, PTL DEF ServerSpec, Spec

(* In the server, too, no log message is lost, repeated or reordered.         *)
THEOREM ServerLogsExactlyOnce == ServerSpec => [](TypeOK /\ ExactlyOnceInOrder)
BY ServerImplementsLogger, LoggerTypeOK, LoggerExactlyOnce, PTL

(* When the server has left run(), every request it took has been answered,   *)
(* once, and no job is left that could touch the tables: the wait ends only   *)
(* with an empty list, and a job answers before it leaves the list.           *)
THEOREM ServerExitIsComplete == ServerSpec => []ExitIsComplete
<1>1. ServerInv => ExitIsComplete
  <2> SUFFICES ASSUME ServerInv, mpc = "exit", NEW i \in DOMAIN jobs
               PROVE  /\ jobs[i].pc \in {"notify", "gone"}
                      /\ jobs[i].id # 0 => Answers(jobs[i].id) = 1
    BY DEF ExitIsComplete
  <2>1. HasLeft(jobs[i])
    BY DEF ServerInv, ListIsExact
  <2>2. ASSUME jobs[i].id # 0 PROVE Answers(jobs[i].id) = 1
    <3>1. PICK k \in DOMAIN answers : answers[k] = jobs[i].id
      BY <2>1, <2>2 DEF ServerInv, AnsweredOnce, HasLeft, HasAnswered
    <3>2. {l \in DOMAIN answers : answers[l] = jobs[i].id} = {k}
      BY <3>1 DEF ServerInv, AnsweredOnce
    <3> QED
      BY <3>2, FS_Singleton DEF Answers
  <2> QED
    BY <2>1, <2>2 DEF HasLeft
<1> QED
  BY <1>1, ServerInductive, PTL
=============================================================================
