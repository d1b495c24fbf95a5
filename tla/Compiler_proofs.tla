--------------------------- MODULE Compiler_proofs ---------------------------
(***************************************************************************)
(* What holds of every run of Compiler, whatever the import graph, the     *)
(* errors and the order of the tasks.                                      *)
(***************************************************************************)
EXTENDS Compiler, SequenceTheorems, TLAPS

Keys == Seq(Nat)
Message == [tag : {"pending", "ok", "cycle"}, env : SUBSET Files, cyc : Seq(Files)]
Task == [file : Files, rd : Seq(Files),
         pc : {"start", "wait", "parse", "import", "await", "finish", "send", "done", "exported"},
         next : Nat, level : Level, cyc : Seq(Files), env : SUBSET Files, res : Message]
FileCache == [tag : {"none", "busy", "ready"}, senders : Seq(Keys), env : SUBSET Files]

CompilerType ==
  /\ input \in Inputs
  /\ task \in [DOMAIN task -> Task]
  /\ chan \in [DOMAIN chan -> Message]
  /\ cache \in [Files -> FileCache]
  /\ emitted \in Level
  /\ exit \in {"running", "0", "1"}

(* A task elaborates its file, has elaborated it, or does neither: it got   *)
(* its answer from another.                                                 *)
Elaborates(t) == t.pc \in {"parse", "import", "await", "finish"}
Ended(t) == t.pc \in {"send", "done", "exported"}
Elaborated(t) == Ended(t) /\ t.env # {}
Imported(t) == t.pc \in {"await", "finish"} \/ Elaborated(t)
Reported(t) == t.pc = "finish" \/ Elaborated(t)

(* i leads to j. *)
Above(i, j) == Len(i) < Len(j) /\ \A n \in 1..Len(i) : i[n] = j[n]

(* The tasks and channels form a tree: there is a channel for each readable *)
(* import of a task that has come to them, and for nothing else.            *)
ChannelsAre ==
  /\ <<>> \notin DOMAIN chan
  /\ DOMAIN chan \subseteq Keys
  /\ \A i \in Keys, k \in Nat :
       Append(i, k) \in DOMAIN chan <=>
         /\ i \in DOMAIN task
         /\ Imported(task[i])
         /\ k \in DOMAIN Imports(task[i].file)
         /\ Imports(task[i].file)[k] \notin input.missing
TreeIs ==
  /\ <<>> \in DOMAIN task
  /\ DOMAIN task \subseteq {<<>>} \cup DOMAIN chan
  /\ \A j \in DOMAIN task, i \in Keys : Above(i, j) => i \in DOMAIN task
  /\ task[<<>>].file = Main
  /\ task[<<>>].rd = <<>>
  /\ task[<<>>].pc # "wait"
  /\ Ended(task[<<>>]) => task[<<>>].env # {}
  /\ \A i \in DOMAIN task, k \in Nat : Append(i, k) \in DOMAIN task =>
       /\ task[Append(i, k)].file = Imports(task[i].file)[k]
       /\ task[Append(i, k)].rd = Append(task[i].rd, task[i].file)

(* A file is left to one task, the others wait for it or come later. *)
OwnersAre ==
  /\ \A i, j \in DOMAIN task :
       /\ Elaborates(task[i]) \/ Elaborated(task[i])
       /\ Elaborates(task[j]) \/ Elaborated(task[j])
       /\ task[i].file = task[j].file
       => i = j
  /\ \A i \in DOMAIN task :
       /\ Elaborates(task[i]) => cache[task[i].file].tag = "busy"
       /\ Elaborated(task[i]) => cache[task[i].file] = Ready(task[i].env)
  /\ \A f \in Files : cache[f].tag # "none" =>
       \E i \in DOMAIN task : task[i].file = f /\ (Elaborates(task[i]) \/ Elaborated(task[i]))
WaitersAre ==
  /\ \A i \in DOMAIN task : task[i].pc = "wait" =>
       cache[task[i].file].tag = "busy" /\ Among(i, cache[task[i].file].senders)
  /\ \A f \in Files : \A n \in DOMAIN cache[f].senders :
       /\ cache[f].senders[n] \in DOMAIN task
       /\ task[cache[f].senders[n]].pc = "wait"
       /\ task[cache[f].senders[n]].file = f

(* A task that has not come to its imports has nothing yet. *)
FreshTask(t) ==
  t.pc \in {"start", "wait", "parse", "import"} =>
    t.next = 1 /\ t.env = {} /\ t.cyc = <<>> /\ t.level = None

(* What a task has sent, and what it will send. *)
AnswerTask(i, t) ==
  /\ i # <<>> => chan[i] = IF t.pc = "done" THEN t.res ELSE Pending
  /\ Ended(t) =>
       /\ t.res.tag # "pending"
       /\ t.res.tag = "ok" => cache[t.file] = Ready(t.res.env)
       /\ Elaborated(t) => (t.res.tag = "ok" <=> t.cyc = <<>>)

(* What a task has made of the answers to its imports so far. *)
Heard(t, m) ==
  /\ m.tag # "pending"
  /\ m.tag = "cycle" => t.cyc # <<>> /\ t.level = Error
  /\ m.tag = "ok" => m.env \subseteq t.env
ImportsTask(i, t) ==
  Imported(t) =>
    /\ \A k \in DOMAIN Imports(t.file) :
         /\ k < t.next /\ Append(i, k) \in DOMAIN chan /\ k \notin input.wrapped[t.file] =>
              Heard(t, chan[Append(i, k)])
         /\ Imports(t.file)[k] \in input.missing => t.level = Error
    /\ t.level \in {input.elab[t.file], Error}
    /\ Reported(t) => /\ Len(Imports(t.file)) < t.next
                      /\ t.level <= emitted
                      /\ t.file \in t.env
ParsedTask(t) == t.pc = "import" \/ Imported(t) => input.parse[t.file] <= emitted

(* An environment with a file has all that file's environment has. *)
EnvironmentTask(t) ==
  /\ \A g \in t.env : \/ g = t.file /\ t.pc = "finish"
                      \/ cache[g].tag = "ready" /\ cache[g].env \subseteq t.env
  /\ t.file \in Needed /\ t.env \subseteq Needed

(* The path to a task is a path, the cycles it reports are cycles. *)
PathTo(rd, f) ==
  /\ \A n \in 1..(Len(rd) - 1) : ImportedBy(rd[n], rd[n + 1])
  /\ rd # <<>> => rd[1] = Main /\ ImportedBy(rd[Len(rd)], f)
  /\ rd = <<>> => f = Main
CycleTask(t) ==
  /\ PathTo(t.rd, t.file)
  /\ t.cyc # <<>> => RealCycle(t.cyc)
  /\ t.res.tag = "cycle" => RealCycle(t.res.cyc)

TaskIs(i, t) ==
  /\ FreshTask(t) /\ AnswerTask(i, t) /\ ImportsTask(i, t)
  /\ ParsedTask(t) /\ EnvironmentTask(t) /\ CycleTask(t)
TasksAre == \A i \in DOMAIN task : TaskIs(i, task[i])

AnswersAre ==
  \A j \in DOMAIN chan :
    /\ j \notin DOMAIN task => chan[j].tag = "cycle"
    /\ chan[j].tag = "cycle" => RealCycle(chan[j].cyc)

(* Nothing below a task that has met no cycle has met one. *)
Sound(t) == Reported(t) /\ t.cyc = <<>>
CleanBelow ==
  AllBare => \A i, j \in DOMAIN task :
    Above(i, j) /\ Sound(task[i]) => task[j].pc = "done" /\ task[j].res.tag = "ok"

(* The files elaborated without meeting a cycle are on none. *)
Clean == {f \in Files : \E i \in DOMAIN task :
            task[i].file = f /\ Elaborated(task[i]) /\ task[i].cyc = <<>>}
CleanAcyclic ==
  AllBare => \A S \in SUBSET Clean :
    S # {} => \E f \in S : \A g \in S : ~ImportedBy(f, g)

ExitIs ==
  /\ task[<<>>].pc = "exported" => exit # "running" /\ task[<<>>].res.tag = "ok"
  /\ exit = "0" => emitted < Threshold /\ task[<<>>].pc = "exported"

CompilerInv ==
  /\ CompilerType /\ ChannelsAre /\ TreeIs /\ OwnersAre /\ WaitersAre
  /\ TasksAre /\ AnswersAre /\ CleanBelow /\ CleanAcyclic /\ ExitIs

-----------------------------------------------------------------------------
(* Keys: the key of an import determines the importer and the position. *)
LEMMA KeyAppend ==
  ASSUME NEW i \in Keys, NEW j \in Keys, NEW k \in Nat, NEW l \in Nat
  PROVE  /\ Append(i, k) \in Keys
         /\ Append(i, k) # <<>>
         /\ Append(i, k) # i
         /\ Append(i, k) = Append(j, l) => i = j /\ k = l
<1>1. Append(i, k) \in Keys /\ Len(Append(i, k)) = Len(i) + 1
  BY DEF Keys
<1>2. Append(i, k) # <<>> /\ Append(i, k) # i
  BY <1>1 DEF Keys
<1>3. Append(i, k) = Append(j, l) => i = j /\ k = l
  BY AppendInjective DEF Keys
<1>4. QED
  BY <1>1, <1>2, <1>3

LEMMA KeySplit ==
  ASSUME NEW j \in Keys, j # <<>>
  PROVE  \E i \in Keys, k \in Nat : j = Append(i, k)
<1>. DEFINE i == SubSeq(j, 1, Len(j) - 1)
<1>1. Len(j) \in Nat \ {0}
  BY DEF Keys
<1>2. i \in Keys /\ j[Len(j)] \in Nat
  BY <1>1 DEF Keys
<1>3. j = Append(i, j[Len(j)])
  BY <1>1, <1>2 DEF Keys
<1>4. QED
  BY <1>2, <1>3

(* What leads to an import is its importer and what leads to the importer. *)
LEMMA AboveAppend ==
  ASSUME NEW i \in Keys, NEW j \in Keys, NEW k \in Nat
  PROVE  Above(i, Append(j, k)) <=> i = j \/ Above(i, j)
<1>. DEFINE a == Append(j, k)
<1>1. /\ Len(a) = Len(j) + 1
      /\ \A n \in 1..Len(j) : a[n] = j[n]
      /\ Len(i) \in Nat /\ Len(j) \in Nat
  BY DEF Keys
<1>. HIDE DEF a
<1>2. Above(i, a) <=> i = j \/ Above(i, j)
  <2>1. CASE Len(i) < Len(j)
    BY <1>1, <2>1 DEF Above, Keys
  <2>2. CASE Len(i) > Len(j)
    BY <1>1, <2>2 DEF Above, Keys
  <2>3. CASE Len(i) = Len(j)
    <3>1. Above(i, a) <=> \A n \in 1..Len(i) : i[n] = j[n]
      BY <1>1, <2>3 DEF Above
    <3>2. (\A n \in 1..Len(i) : i[n] = j[n]) <=> i = j
      BY <2>3, SeqEqual DEF Keys
    <3>3. ~Above(i, j)
      BY <1>1, <2>3 DEF Above
    <3>4. QED
      BY <3>1, <3>2, <3>3
  <2>4. QED
    BY <1>1, <2>1, <2>2, <2>3
<1>3. QED
  BY <1>2 DEF a

(* The way from i to j starts with an import of i. *)
LEMMA AboveChild ==
  ASSUME NEW i \in Keys, NEW j \in Keys, Above(i, j)
  PROVE  \E k \in Nat : Append(i, k) = j \/ Above(Append(i, k), j)
<1>. DEFINE k == j[Len(i) + 1]
<1>. DEFINE c == Append(i, k)
<1>1. k \in Nat /\ Len(i) \in Nat /\ Len(j) \in Nat /\ Len(i) < Len(j)
  BY DEF Keys, Above
<1>2. c \in Keys /\ Len(c) = Len(i) + 1
  BY <1>1 DEF Keys
<1>3. \A n \in 1..Len(c) : c[n] = j[n]
  BY <1>1 DEF Keys, Above
<1>. HIDE DEF c
<1>4. CASE Len(c) = Len(j)
  <2>1. c = j
    BY <1>2, <1>3, <1>4, SeqEqual DEF Keys
  <2>2. QED
    BY <1>1, <2>1 DEF c
<1>5. CASE Len(c) < Len(j)
  <2>1. Above(c, j)
    BY <1>3, <1>5 DEF Above
  <2>2. QED
    BY <1>1, <2>1 DEF c
<1>6. QED
  BY <1>1, <1>2, <1>4, <1>5

-----------------------------------------------------------------------------
(* What a step that spawns nothing keeps. *)
LEMMA TreeKept ==
  ASSUME ChannelsAre, TreeIs, input' = input,
         DOMAIN task' = DOMAIN task, DOMAIN chan' = DOMAIN chan,
         \A j \in DOMAIN task :
           /\ task'[j].file = task[j].file
           /\ task'[j].rd = task[j].rd
           /\ Imported(task'[j]) <=> Imported(task[j]),
         task'[<<>>].pc # "wait",
         Ended(task'[<<>>]) => task'[<<>>].env # {}
  PROVE  ChannelsAre' /\ TreeIs'
<1>1. ChannelsAre'
  BY DEF ChannelsAre, Imports
<1>2. TreeIs'
  <2>1. <<>> \in DOMAIN task
    BY DEF TreeIs
  <2>2. \A i \in DOMAIN task, k \in Nat : Append(i, k) \in DOMAIN task =>
          /\ task'[Append(i, k)].file = Imports(task[i].file)[k]
          /\ task'[Append(i, k)].rd = Append(task[i].rd, task[i].file)
    BY DEF TreeIs
  <2>3. \A i \in DOMAIN task, k \in Nat : Append(i, k) \in DOMAIN task =>
          /\ task'[Append(i, k)].file = Imports(task'[i].file)[k]
          /\ task'[Append(i, k)].rd = Append(task'[i].rd, task'[i].file)
    BY <2>2
  <2>4. QED
    BY <2>1, <2>3 DEF TreeIs, Imports
<1>3. QED
  BY <1>1, <1>2

(* ... and one that neither takes up a file nor finishes one. *)
LEMMA OwnersKept ==
  ASSUME OwnersAre, WaitersAre, cache' = cache, DOMAIN task' = DOMAIN task,
         \A j \in DOMAIN task :
           /\ task'[j].file = task[j].file
           /\ Elaborates(task'[j]) <=> Elaborates(task[j])
           /\ Elaborated(task'[j]) <=> Elaborated(task[j])
           /\ Elaborated(task[j]) => task'[j].env = task[j].env
           /\ task'[j].pc = "wait" <=> task[j].pc = "wait"
  PROVE  OwnersAre' /\ WaitersAre'
<1>1. OwnersAre'
  BY DEF OwnersAre
<1>2. WaitersAre'
  BY DEF WaitersAre
<1>3. QED
  BY <1>1, <1>2

LEMMA InputFacts ==
  ASSUME input \in Inputs
  PROVE  /\ Main \in Files
         /\ \A f \in Files :
              /\ input.imports[f] \in Seq(Files)
              /\ input.parse[f] \in Level
              /\ input.elab[f] \in Level
         /\ Threshold \in Level
  BY CompilerAssumption DEF Input, Threshold, Level, None, Warning, Error

(* What a task holds stays true while others work: levels rise, a file that *)
(* is ready stays as it is, and an answer that was there does too.          *)
LEMMA TaskKept ==
  ASSUME NEW i, NEW u \in Task, TaskIs(i, u),
         input \in Inputs, input' = input,
         emitted \in Level, emitted' \in Level, emitted <= emitted',
         \A f \in Files : cache[f].tag = "ready" => cache'[f] = cache[f],
         i # <<>> => chan'[i] = chan[i],
         \A k \in DOMAIN Imports(u.file) : Append(i, k) \in DOMAIN chan' /\ Imported(u) =>
           /\ Append(i, k) \in DOMAIN chan
           /\ chan[Append(i, k)].tag # "pending" => chan'[Append(i, k)] = chan[Append(i, k)]
  PROVE  TaskIs(i, u)'
<1>1. u.file \in Files /\ u.level \in Level /\ u.env \subseteq Files
  BY DEF Task
<1>2. FreshTask(u)'
  BY DEF TaskIs, FreshTask
<1>3. AnswerTask(i, u)'
  BY <1>1 DEF TaskIs, AnswerTask, Ready
<1>4. ImportsTask(i, u)'
  <2>. SUFFICES ASSUME Imported(u) PROVE ImportsTask(i, u)'
    BY DEF ImportsTask
  <2>1. \A k \in DOMAIN Imports(u.file) :
          /\ k < u.next /\ Append(i, k) \in DOMAIN chan /\ k \notin input.wrapped[u.file] =>
              Heard(u, chan[Append(i, k)])
          /\ Imports(u.file)[k] \in input.missing => u.level = Error
    BY DEF TaskIs, ImportsTask
  <2>2. \A k \in DOMAIN Imports(u.file) :
          /\ k < u.next /\ Append(i, k) \in DOMAIN chan' /\ k \notin input.wrapped[u.file] =>
              Heard(u, chan'[Append(i, k)])
          /\ Imports(u.file)[k] \in input.missing => u.level = Error
    BY <2>1 DEF Heard
  <2>3. /\ u.level \in {input.elab[u.file], Error}
        /\ Reported(u) => /\ Len(Imports(u.file)) < u.next
                          /\ u.level <= emitted'
                          /\ u.file \in u.env
    BY <1>1 DEF TaskIs, ImportsTask, Level, None, Error
  <2>4. QED
    BY <2>2, <2>3 DEF ImportsTask, Imports
<1>5. ParsedTask(u)'
  BY <1>1, InputFacts DEF TaskIs, ParsedTask, Level, None, Error
<1>6. EnvironmentTask(u)'
  BY <1>1 DEF TaskIs, EnvironmentTask, Needed
<1>7. CycleTask(u)'
  BY DEF TaskIs, CycleTask, PathTo, RealCycle, ImportedBy, Imports
<1>8. QED
  BY <1>2, <1>3, <1>4, <1>5, <1>6, <1>7 DEF TaskIs

(* A step of one task that takes up no file, finishes none, spawns nothing  *)
(* and sends nothing.                                                       *)
LEMMA QuietStep ==
  ASSUME CompilerInv, NEW i \in DOMAIN task, NEW t \in Task,
         task' = [task EXCEPT ![i] = t],
         UNCHANGED <<input, chan, cache>>,
         emitted' \in Level, emitted <= emitted',
         exit' \in {"running", "0", "1"},
         t.file = task[i].file, t.rd = task[i].rd,
         Imported(t) <=> Imported(task[i]),
         Elaborates(t) <=> Elaborates(task[i]),
         Elaborated(t) <=> Elaborated(task[i]),
         Elaborated(t) => t.env = task[i].env /\ t.cyc = task[i].cyc,
         task[i].pc # "wait", t.pc # "wait", task[i].pc # "done",
         i = <<>> /\ Ended(t) => t.env # {},
         TaskIs(i, t)',
         Sound(t) => Sound(task[i]) \/ ~AllBare \/
           \A j \in DOMAIN task : Above(i, j) => task[j].pc = "done" /\ task[j].res.tag = "ok",
         ExitIs'
  PROVE  CompilerInv'
<1>1. /\ DOMAIN task' = DOMAIN task
      /\ task'[i] = t
      /\ \A j \in DOMAIN task : j # i => task'[j] = task[j]
  OBVIOUS
<1>2. CompilerType'
  BY <1>1 DEF CompilerInv, CompilerType
<1>3. ChannelsAre' /\ TreeIs'
  <2>1. <<>> \in DOMAIN task /\ task[<<>>].pc # "wait" /\ (Ended(task[<<>>]) => task[<<>>].env # {})
    BY DEF CompilerInv, TreeIs
  <2>2. task'[<<>>].pc # "wait" /\ (Ended(task'[<<>>]) => task'[<<>>].env # {})
    BY <1>1, <2>1
  <2>3. \A j \in DOMAIN task :
          /\ task'[j].file = task[j].file
          /\ task'[j].rd = task[j].rd
          /\ Imported(task'[j]) <=> Imported(task[j])
    BY <1>1
  <2>4. QED
    BY <1>1, <2>2, <2>3, TreeKept DEF CompilerInv
<1>4. OwnersAre' /\ WaitersAre'
  <2>1. \A j \in DOMAIN task :
          /\ task'[j].file = task[j].file
          /\ Elaborates(task'[j]) <=> Elaborates(task[j])
          /\ Elaborated(task'[j]) <=> Elaborated(task[j])
          /\ Elaborated(task[j]) => task'[j].env = task[j].env
          /\ task'[j].pc = "wait" <=> task[j].pc = "wait"
    BY <1>1
  <2>2. QED
    BY <1>1, <2>1, OwnersKept DEF CompilerInv
<1>5. TasksAre'
  <2>1. \A j \in DOMAIN task : j # i => TaskIs(j, task[j])'
    <3>. SUFFICES ASSUME NEW j \in DOMAIN task, j # i PROVE TaskIs(j, task[j])'
      OBVIOUS
    <3>1. task[j] \in Task /\ TaskIs(j, task[j]) /\ task'[j] = task[j]
      BY <1>1 DEF CompilerInv, CompilerType, TasksAre
    <3>2. input \in Inputs /\ emitted \in Level
      BY DEF CompilerInv, CompilerType
    <3>3. QED
      BY <3>1, <3>2, TaskKept
  <2>2. QED
    BY <1>1, <2>1 DEF TasksAre
<1>6. AnswersAre'
  BY <1>1 DEF CompilerInv, AnswersAre, RealCycle, ImportedBy, Imports
<1>7. CleanBelow'
  <2>1. AllBare' <=> AllBare
    BY DEF AllBare
  <2>2. SUFFICES ASSUME AllBare, NEW a \in DOMAIN task, NEW j \in DOMAIN task,
                        Above(a, j), Sound(task'[a])
                 PROVE  task'[j].pc = "done" /\ task'[j].res.tag = "ok"
    BY <1>1, <2>1 DEF CleanBelow
  <2>3. task[j].pc = "done" /\ task[j].res.tag = "ok"
    BY <1>1, <2>2 DEF CompilerInv, CleanBelow
  <2>4. QED
    BY <1>1, <2>3
<1>8. CleanAcyclic'
  <2>1. Clean' = Clean
    BY <1>1 DEF Clean
  <2>2. QED
    BY <2>1 DEF CompilerInv, CleanAcyclic, AllBare, ImportedBy, Imports
<1>9. QED
  BY <1>2, <1>3, <1>4, <1>5, <1>6, <1>7, <1>8 DEF CompilerInv

LEMMA TaskFacts ==
  ASSUME CompilerInv, NEW i \in DOMAIN task
  PROVE  /\ i \in Keys
         /\ task[i] \in Task
         /\ TaskIs(i, task[i])
         /\ Imports(task[i].file) \in Seq(Files)
         /\ exit = "running" => task[<<>>].pc # "exported"
         /\ exit = "running" /\ exit' = exit /\ task'[<<>>].pc # "exported" => ExitIs'
<1>1. i \in Keys
  <2>1. <<>> \in Keys
    BY DEF Keys
  <2>2. QED
    BY <2>1 DEF CompilerInv, TreeIs, ChannelsAre
<1>2. task[i] \in Task /\ TaskIs(i, task[i])
  BY DEF CompilerInv, CompilerType, TasksAre
<1>3. Imports(task[i].file) \in Seq(Files)
  BY <1>2, InputFacts DEF CompilerInv, CompilerType, Task, Imports
<1>4. exit = "running" => task[<<>>].pc # "exported"
  BY DEF CompilerInv, ExitIs
<1>5. exit = "running" /\ exit' = exit /\ task'[<<>>].pc # "exported" => ExitIs'
  BY DEF ExitIs
<1>6. QED
  BY <1>1, <1>2, <1>3, <1>4, <1>5

LEMMA MaxFacts ==
  ASSUME NEW a \in Level, NEW b \in Level
  PROVE  MaxOf(a, b) \in Level /\ a <= MaxOf(a, b) /\ b <= MaxOf(a, b)
  BY DEF MaxOf, Level, None, Error

LEMMA ParseKeeps ==
  ASSUME CompilerInv, NEW i \in DOMAIN task, Parse(i)
  PROVE  CompilerInv'
<1>1. /\ task[i] \in Task /\ TaskIs(i, task[i]) /\ i \in Keys
      /\ task[i].pc = "parse" /\ exit = "running"
      /\ task[i].file \in Files
  BY TaskFacts DEF Parse, At, Task
<1>2. PICK t \in Task :
      /\ t.pc = "import" /\ t.file = task[i].file /\ t.rd = task[i].rd /\ t.env = task[i].env
      /\ t.cyc = task[i].cyc /\ t.res = task[i].res /\ t.next = task[i].next /\ t.level = task[i].level
      /\ task' = [task EXCEPT ![i] = t]
  <2>. DEFINE t == [task[i] EXCEPT !.pc = "import"]
  <2>1. t \in Task /\ task' = [task EXCEPT ![i] = t]
    BY <1>1 DEF Parse, Task
  <2>2. QED
    BY <1>1, <2>1 DEF Task
<1>3. /\ UNCHANGED <<input, chan, cache>>
      /\ exit' = "running"
      /\ emitted' \in Level /\ emitted <= emitted'
      /\ input.parse[t.file] <= emitted'
  BY <1>1, <1>2, InputFacts, MaxFacts DEF Parse, CompilerInv, CompilerType
<1>4. /\ ~Imported(t) /\ ~Elaborated(t) /\ ~Ended(t) /\ Elaborates(t) /\ ~Sound(t)
      /\ ~Imported(task[i]) /\ ~Elaborated(task[i]) /\ Elaborates(task[i])
  BY <1>1, <1>2 DEF Imported, Elaborated, Elaborates, Ended, Sound, Reported
<1>5. TaskIs(i, t)'
  <2>1. FreshTask(t)' /\ AnswerTask(i, t)'
    BY <1>1, <1>2, <1>3, <1>4 DEF TaskIs, FreshTask, AnswerTask
  <2>2. ImportsTask(i, t)' /\ ParsedTask(t)'
    BY <1>3, <1>4 DEF ImportsTask, ParsedTask
  <2>3. EnvironmentTask(t)' /\ CycleTask(t)'
    BY <1>1, <1>2, <1>3 DEF TaskIs, EnvironmentTask, CycleTask, FreshTask, Needed, PathTo, RealCycle, ImportedBy, Imports
  <2>4. QED
    BY <2>1, <2>2, <2>3 DEF TaskIs
<1>6. ExitIs'
  BY <1>1, <1>2, <1>3, TaskFacts
<1>7. QED
  BY <1>1, <1>2, <1>3, <1>4, <1>5, <1>6, QuietStep

LEMMA StartReadyKeeps ==
  ASSUME CompilerInv, NEW i \in DOMAIN task, StartReady(i), i # <<>>
  PROVE  CompilerInv'
<1>1. /\ task[i] \in Task /\ TaskIs(i, task[i]) /\ i \in Keys
      /\ task[i].pc = "start" /\ exit = "running"
      /\ task[i].file \in Files
      /\ cache[task[i].file].tag = "ready"
      /\ cache[task[i].file] \in FileCache
  BY TaskFacts DEF StartReady, At, Task, CompilerInv, CompilerType
<1>2. /\ Ok(cache[task[i].file].env) \in Message
      /\ Ok(cache[task[i].file].env).tag = "ok"
      /\ Ok(cache[task[i].file].env).env = cache[task[i].file].env
  BY <1>1 DEF Ok, Message, FileCache
<1>3. PICK t \in Task :
      /\ t.pc = "send" /\ t.file = task[i].file /\ t.rd = task[i].rd /\ t.env = task[i].env
      /\ t.cyc = task[i].cyc /\ t.next = task[i].next /\ t.level = task[i].level
      /\ t.res.tag = "ok" /\ t.res.env = cache[t.file].env
      /\ task' = [task EXCEPT ![i] = t]
  <2>. DEFINE t == [task[i] EXCEPT !.pc = "send", !.res = Ok(cache[task[i].file].env)]
  <2>1. t \in Task /\ task' = [task EXCEPT ![i] = t]
    BY <1>1, <1>2 DEF StartReady, Task
  <2>2. QED
    BY <1>1, <1>2, <2>1 DEF Task
<1>4. /\ UNCHANGED <<input, chan, cache, exit, emitted>>
      /\ emitted \in Level /\ emitted <= emitted'
  BY DEF StartReady, CompilerInv, CompilerType, Level, None, Error
<1>5. t.env = {}
  BY <1>1, <1>3 DEF TaskIs, FreshTask
<1>6. /\ ~Imported(t) /\ ~Elaborated(t) /\ ~Elaborates(t) /\ ~Sound(t)
      /\ ~Imported(task[i]) /\ ~Elaborated(task[i]) /\ ~Elaborates(task[i])
  BY <1>1, <1>3, <1>5 DEF Imported, Elaborated, Elaborates, Ended, Sound, Reported
<1>7. cache[t.file] = Ready(t.res.env)
  <2>1. \E j \in DOMAIN task : task[j].file = t.file /\ Elaborated(task[j])
    BY <1>1, <1>3 DEF CompilerInv, OwnersAre
  <2>2. cache[t.file].tag = "ready" /\ \E j \in DOMAIN task : cache[t.file] = Ready(task[j].env)
    BY <1>1, <1>3, <2>1 DEF CompilerInv, OwnersAre
  <2>3. QED
    BY <2>2, <1>3 DEF Ready
<1>8. TaskIs(i, t)'
  <2>1. FreshTask(t)' /\ AnswerTask(i, t)'
    BY <1>1, <1>3, <1>4, <1>6, <1>7 DEF TaskIs, FreshTask, AnswerTask
  <2>2. ImportsTask(i, t)' /\ ParsedTask(t)'
    BY <1>3, <1>6 DEF ImportsTask, ParsedTask
  <2>3. EnvironmentTask(t)' /\ CycleTask(t)'
    BY <1>1, <1>3, <1>4, <1>5 DEF TaskIs, EnvironmentTask, CycleTask, Needed, PathTo, RealCycle, ImportedBy, Imports
  <2>4. QED
    BY <2>1, <2>2, <2>3 DEF TaskIs
<1>9. ExitIs'
  BY <1>1, <1>3, <1>4, TaskFacts
<1>10. QED
  BY <1>1, <1>3, <1>4, <1>6, <1>8, <1>9, QuietStep

(* A task that goes on to its next import. *)
LEMMA AwaitStep ==
  ASSUME CompilerInv, NEW i \in DOMAIN task, NEW k, AtImport(i, k), NEW t \in Task,
         task' = [task EXCEPT ![i] = t],
         UNCHANGED <<input, chan, cache, emitted, exit>>,
         t.pc = "await", t.next = k + 1,
         t.file = task[i].file, t.rd = task[i].rd, t.res = task[i].res,
         task[i].env \subseteq t.env,
         t.level \in {task[i].level, Error},
         task[i].cyc # <<>> => t.cyc # <<>>,
         Yields(i, k) => Heard(t, chan[Append(i, k)]),
         EnvironmentTask(t),
         t.cyc # <<>> => RealCycle(t.cyc)
  PROVE  CompilerInv'
<1>1. /\ task[i] \in Task /\ TaskIs(i, task[i]) /\ i \in Keys
      /\ task[i].pc = "await" /\ exit = "running" /\ task[i].next = k
      /\ task[i].file \in Files
      /\ k \in Nat
  BY TaskFacts DEF AtImport, At, Task
<1>2. emitted \in Level /\ emitted <= emitted'
  BY DEF CompilerInv, CompilerType, Level, None, Error
<1>3. /\ Imported(t) /\ ~Elaborated(t) /\ Elaborates(t) /\ ~Sound(t) /\ ~Reported(t) /\ ~Ended(t)
      /\ Imported(task[i]) /\ ~Elaborated(task[i]) /\ Elaborates(task[i])
  BY <1>1 DEF Imported, Elaborated, Elaborates, Ended, Sound, Reported
<1>4. TaskIs(i, t)'
  <2>1. FreshTask(t)' /\ AnswerTask(i, t)'
    BY <1>1, <1>3 DEF TaskIs, FreshTask, AnswerTask
  <2>2. ImportsTask(i, t)'
    <3>1. /\ \A l \in DOMAIN Imports(t.file) :
              /\ l < k /\ Append(i, l) \in DOMAIN chan /\ l \notin input.wrapped[t.file] =>
                   Heard(task[i], chan[Append(i, l)])
              /\ Imports(t.file)[l] \in input.missing => t.level = Error
          /\ t.level \in {input.elab[t.file], Error}
      BY <1>1, <1>3 DEF TaskIs, ImportsTask
    <3>2. \A m : Heard(task[i], m) => Heard(t, m)
      BY DEF Heard
    <3>3. Append(i, k) \in DOMAIN chan /\ k \notin input.wrapped[t.file] => Heard(t, chan[Append(i, k)])
      BY DEF Yields
    <3>4. \A l \in DOMAIN Imports(t.file) : l < t.next => l < k \/ l = k
      <4>1. DOMAIN Imports(t.file) \subseteq Nat
        BY <1>1, InputFacts DEF Imports, CompilerInv, CompilerType
      <4>2. QED
        BY <1>1, <4>1
    <3>5. \A l \in DOMAIN Imports(t.file) :
            l < t.next /\ Append(i, l) \in DOMAIN chan /\ l \notin input.wrapped[t.file] =>
              Heard(t, chan[Append(i, l)])
      BY <3>1, <3>2, <3>3, <3>4
    <3>6. QED
      BY <1>3, <3>1, <3>5 DEF ImportsTask, Imports, Heard
  <2>3. ParsedTask(t)'
    BY <1>1, <1>3 DEF TaskIs, ParsedTask
  <2>4. EnvironmentTask(t)' /\ CycleTask(t)'
    BY <1>1 DEF TaskIs, EnvironmentTask, CycleTask, Needed, PathTo, RealCycle, ImportedBy, Imports
  <2>5. QED
    BY <2>1, <2>2, <2>3, <2>4 DEF TaskIs
<1>5. ExitIs'
  BY <1>1, TaskFacts
<1>6. exit' \in {"running", "0", "1"} /\ emitted' \in Level
  BY <1>1, <1>2
<1>7. QED
  BY <1>1, <1>2, <1>3, <1>4, <1>5, <1>6, QuietStep

(* The answer to an import, if it is there, is what was found of its file. *)
LEMMA AnswerFacts ==
  ASSUME CompilerInv, NEW i \in DOMAIN task, NEW k \in DOMAIN Imports(task[i].file),
         Append(i, k) \in DOMAIN chan
  PROVE  LET g == Imports(task[i].file)[k]
             m == chan[Append(i, k)] IN
         /\ g \in Files
         /\ ImportedBy(task[i].file, g)
         /\ m \in Message
         /\ m.tag = "ok" => cache[g] = Ready(m.env) /\ m.env \subseteq Needed
         /\ m.tag = "cycle" => m.cyc # <<>> /\ RealCycle(m.cyc)
         /\ m.tag # "pending" /\ Append(i, k) \in DOMAIN task =>
              task[Append(i, k)].pc = "done" /\ task[Append(i, k)].res = m
<1>. DEFINE f == task[i].file
            g == Imports(f)[k]
            c == Append(i, k)
            m == chan[c]
<1>1. /\ task[i] \in Task /\ TaskIs(i, task[i]) /\ i \in Keys
      /\ Imports(f) \in Seq(Files) /\ f \in Files
  BY TaskFacts DEF Task
<1>2. k \in Nat /\ g \in Files /\ ImportedBy(f, g)
  BY <1>1 DEF ImportedBy, Among
<1>3. c \in Keys /\ c # <<>>
  BY <1>1, <1>2, KeyAppend
<1>4. m \in Message
  BY DEF CompilerInv, CompilerType
<1>5. m.tag = "cycle" => RealCycle(m.cyc)
  BY DEF CompilerInv, AnswersAre
<1>6. c \in DOMAIN task => task[c].file = g /\ task[c] \in Task /\ TaskIs(c, task[c])
  BY <1>2, TaskFacts DEF CompilerInv, TreeIs
<1>7. c \notin DOMAIN task => m.tag = "cycle"
  BY DEF CompilerInv, AnswersAre
<1>8. Pending.tag = "pending"
  BY DEF Pending
<1>. HIDE DEF m, c, g, f
<1>9. m.tag # "pending" /\ c \in DOMAIN task => task[c].pc = "done" /\ task[c].res = m
  BY <1>3, <1>6, <1>8 DEF TaskIs, AnswerTask, m
<1>10. m.tag = "ok" => cache[g] = Ready(m.env)
  BY <1>6, <1>7, <1>9 DEF TaskIs, AnswerTask, Ended
<1>11. m.tag = "ok" => m.env \subseteq Needed
  <2>. SUFFICES ASSUME m.tag = "ok" PROVE m.env \subseteq Needed
    OBVIOUS
  <2>1. PICK j \in DOMAIN task : task[j].file = g /\ (Elaborates(task[j]) \/ Elaborated(task[j]))
    BY <1>2, <1>10 DEF CompilerInv, OwnersAre, Ready, g, f
  <2>2. cache[g] = Ready(task[j].env)
    BY <2>1, <1>10 DEF CompilerInv, OwnersAre, Ready
  <2>3. task[j].env = m.env
    BY <2>2, <1>10 DEF Ready
  <2>4. TaskIs(j, task[j])
    BY TaskFacts
  <2>5. QED
    BY <2>3, <2>4 DEF TaskIs, EnvironmentTask
<1>12. m.tag = "cycle" => m.cyc # <<>>
  BY <1>5 DEF RealCycle
<1>13. QED
  BY <1>2, <1>4, <1>5, <1>9, <1>10, <1>11, <1>12 DEF m, c, g, f

LEMMA TaskGoesOn ==
  ASSUME NEW u \in Task, NEW n \in Nat
  PROVE  /\ \A e \in SUBSET Files : [u EXCEPT !.next = n, !.env = e] \in Task
         /\ \A l \in Level, c \in Seq(Files) : [u EXCEPT !.next = n, !.level = l, !.cyc = c] \in Task
  BY DEF Task

LEMMA AwaitKeeps ==
  ASSUME CompilerInv, NEW i \in DOMAIN task, Await(i)
  PROVE  CompilerInv'
<1>1. PICK k \in DOMAIN Imports(task[i].file) :
        AwaitSkips(i, k) \/ AwaitMerges(i, k) \/ AwaitCycle(i, k)
  BY DEF Await
<1>. DEFINE m == chan[Append(i, k)]
<1>2. /\ AtImport(i, k)
      /\ task[i] \in Task /\ TaskIs(i, task[i])
      /\ task[i].pc = "await"
      /\ k \in Nat
  BY <1>1, TaskFacts DEF AtImport, At, Task, AwaitSkips, AwaitMerges, AwaitCycle
<1>3. EnvironmentTask(task[i]) /\ (task[i].cyc # <<>> => RealCycle(task[i].cyc))
  BY <1>2 DEF TaskIs, CycleTask
<1>4. Yields(i, k) =>
        /\ m \in Message
        /\ m.tag = "ok" =>
             /\ m.env \subseteq Needed
             /\ \A g \in m.env : cache[g].tag = "ready" /\ cache[g].env \subseteq m.env
        /\ m.tag = "cycle" => m.cyc # <<>> /\ RealCycle(m.cyc)
  <2>1. ASSUME Yields(i, k), m.tag = "ok"
        PROVE  \A g \in m.env : cache[g].tag = "ready" /\ cache[g].env \subseteq m.env
    <3>. DEFINE h == Imports(task[i].file)[k]
    <3>1. h \in Files /\ cache[h] = Ready(m.env)
      BY <2>1, AnswerFacts DEF Yields
    <3>. HIDE DEF h, m
    <3>2. PICK j \in DOMAIN task : task[j].file = h /\ (Elaborates(task[j]) \/ Elaborated(task[j]))
      BY <3>1 DEF CompilerInv, OwnersAre, Ready
    <3>3. cache[h] = Ready(task[j].env) /\ Elaborated(task[j])
      BY <3>1, <3>2 DEF CompilerInv, OwnersAre, Ready
    <3>4. task[j].env = m.env
      BY <3>1, <3>3 DEF Ready
    <3>5. TaskIs(j, task[j]) /\ task[j].pc # "finish"
      BY <3>3, TaskFacts DEF Elaborated, Ended
    <3>6. QED
      BY <3>4, <3>5 DEF TaskIs, EnvironmentTask
  <2>2. QED
    BY <2>1, AnswerFacts DEF Yields
<1>5. CASE AwaitSkips(i, k)
  <2>1. PICK t \in Task :
          /\ task' = [task EXCEPT ![i] = t]
          /\ t.pc = "await" /\ t.next = k + 1
          /\ t.file = task[i].file /\ t.rd = task[i].rd /\ t.res = task[i].res
          /\ t.env = task[i].env /\ t.level = task[i].level /\ t.cyc = task[i].cyc
    <3>. DEFINE t == [task[i] EXCEPT !.next = k + 1]
    <3>1. t \in Task
      BY <1>2, SMTT(60) DEF Task
    <3>2. task' = [task EXCEPT ![i] = t]
      BY <1>5 DEF AwaitSkips
    <3>3. QED
      BY <1>2, <3>1, <3>2 DEF Task
  <2>2. EnvironmentTask(t)
    BY <1>2, <1>3, <2>1 DEF EnvironmentTask
  <2>3. QED
    BY <1>2, <1>3, <1>5, <2>1, <2>2, AwaitStep DEF AwaitSkips
<1>6. CASE AwaitMerges(i, k)
  <2>1. Yields(i, k) /\ m.tag = "ok" /\ m \in Message
    BY <1>4, <1>6 DEF AwaitMerges
  <2>2. PICK t \in Task :
          /\ task' = [task EXCEPT ![i] = t]
          /\ t.pc = "await" /\ t.next = k + 1
          /\ t.file = task[i].file /\ t.rd = task[i].rd /\ t.res = task[i].res
          /\ t.env = task[i].env \cup m.env /\ t.level = task[i].level /\ t.cyc = task[i].cyc
    <3>. DEFINE t == [task[i] EXCEPT !.next = k + 1, !.env = @ \cup m.env]
    <3>1. m.env \subseteq Files
      BY <2>1 DEF Message
    <3>2. t \in Task
      <4>. HIDE DEF m
      <4>1. PICK e \in SUBSET Files : e = task[i].env \cup m.env
        BY <1>2, <3>1 DEF Task
      <4>2. k + 1 \in Nat
        BY <1>2
      <4>3. [task[i] EXCEPT !.next = k + 1, !.env = e] \in Task
        BY <1>2, <4>1, <4>2, TaskGoesOn
      <4>4. QED
        BY <4>1, <4>3
    <3>3. task' = [task EXCEPT ![i] = t]
      BY <1>6 DEF AwaitMerges
    <3>. HIDE DEF m
    <3>4. QED
      BY <1>2, <3>2, <3>3 DEF Task
  <2>. HIDE DEF m
  <2>3. EnvironmentTask(t)
    BY <1>2, <1>3, <1>4, <2>1, <2>2 DEF EnvironmentTask
  <2>4. Heard(t, m)
    BY <2>1, <2>2 DEF Heard
  <2>5. /\ UNCHANGED <<input, chan, cache, emitted, exit>>
        /\ task[i].env \subseteq t.env
        /\ Heard(t, chan[Append(i, k)])
    BY <1>6, <2>2, <2>4 DEF AwaitMerges, m
  <2>6. QED
    BY <1>2, <1>3, <2>2, <2>3, <2>5, AwaitStep
<1>7. CASE AwaitCycle(i, k)
  <2>1. Yields(i, k) /\ m.tag = "cycle" /\ m \in Message
    BY <1>4, <1>7 DEF AwaitCycle
  <2>2. PICK t \in Task :
          /\ task' = [task EXCEPT ![i] = t]
          /\ t.pc = "await" /\ t.next = k + 1
          /\ t.file = task[i].file /\ t.rd = task[i].rd /\ t.res = task[i].res
          /\ t.env = task[i].env /\ t.level = Error
          /\ t.cyc = IF task[i].cyc = <<>> THEN m.cyc ELSE task[i].cyc
    <3>. DEFINE t == [task[i] EXCEPT !.next = k + 1, !.level = Error,
                                     !.cyc = IF @ = <<>> THEN m.cyc ELSE @]
    <3>1. m.cyc \in Seq(Files)
      BY <2>1 DEF Message
    <3>2. t \in Task
      <4>. HIDE DEF m
      <4>1. Error \in Level
        BY DEF Level, None, Error
      <4>2. (IF task[i].cyc = <<>> THEN m.cyc ELSE task[i].cyc) \in Seq(Files)
        BY <1>2, <3>1 DEF Task
      <4>3. k + 1 \in Nat
        BY <1>2
      <4>4. QED
        BY <1>2, <4>1, <4>2, <4>3, TaskGoesOn
    <3>3. task' = [task EXCEPT ![i] = t]
      BY <1>7 DEF AwaitCycle
    <3>. HIDE DEF m
    <3>4. QED
      BY <1>2, <3>2, <3>3 DEF Task
  <2>. HIDE DEF m
  <2>3. EnvironmentTask(t)
    BY <1>2, <1>3, <2>2 DEF EnvironmentTask
  <2>4. t.cyc # <<>> /\ RealCycle(t.cyc)
    BY <1>3, <1>4, <2>1, <2>2
  <2>5. Heard(t, m)
    BY <2>1, <2>2, <2>4 DEF Heard
  <2>6. QED
    BY <1>2, <1>7, <2>2, <2>3, <2>4, <2>5, AwaitStep DEF AwaitCycle, m
<1>8. QED
  BY <1>1, <1>5, <1>6, <1>7

(* A task that leads to another has come to its imports, and the way goes   *)
(* on with one of them.                                                     *)
LEMMA WayDown ==
  ASSUME CompilerInv, NEW i \in DOMAIN task, NEW j \in DOMAIN task, Above(i, j)
  PROVE  /\ Imported(task[i])
         /\ \E k \in DOMAIN Imports(task[i].file) :
              /\ Append(i, k) \in DOMAIN task
              /\ Append(i, k) \in DOMAIN chan
              /\ j = Append(i, k) \/ Above(Append(i, k), j)
<1>1. i \in Keys /\ j \in Keys
  BY TaskFacts
<1>2. PICK k \in Nat : Append(i, k) = j \/ Above(Append(i, k), j)
  BY <1>1, AboveChild
<1>. DEFINE c == Append(i, k)
<1>3. c \in Keys /\ c # <<>>
  BY <1>1, <1>2, KeyAppend
<1>4. c \in DOMAIN task
  BY <1>2, <1>3 DEF CompilerInv, TreeIs
<1>5. c \in DOMAIN chan
  BY <1>3, <1>4 DEF CompilerInv, TreeIs
<1>6. Imported(task[i]) /\ k \in DOMAIN Imports(task[i].file)
  BY <1>1, <1>2, <1>5 DEF CompilerInv, ChannelsAre
<1>7. QED
  BY <1>2, <1>4, <1>5, <1>6

(* Once a task has all answers and none of them is a cycle, everything it   *)
(* led to is done without one.                                              *)
LEMMA AllBelowClean ==
  ASSUME CompilerInv, AllBare, NEW i \in DOMAIN task,
         task[i].pc = "await", task[i].next > Len(Imports(task[i].file)), task[i].cyc = <<>>,
         NEW j \in DOMAIN task, Above(i, j)
  PROVE  task[j].pc = "done" /\ task[j].res.tag = "ok"
<1>1. PICK k \in DOMAIN Imports(task[i].file) :
        /\ Append(i, k) \in DOMAIN task
        /\ Append(i, k) \in DOMAIN chan
        /\ j = Append(i, k) \/ Above(Append(i, k), j)
  BY WayDown
<1>. DEFINE c == Append(i, k)
<1>2. /\ TaskIs(i, task[i]) /\ task[i] \in Task /\ TaskIs(c, task[c])
      /\ Imports(task[i].file) \in Seq(Files)
  BY <1>1, TaskFacts
<1>3. k < task[i].next /\ k \notin input.wrapped[task[i].file]
  BY <1>2 DEF Task, AllBare
<1>4. Imported(task[i])
  BY DEF Imported
<1>5. Heard(task[i], chan[c])
  BY <1>1, <1>2, <1>3, <1>4 DEF TaskIs, ImportsTask
<1>6. chan[c].tag = "ok"
  <2>1. chan[c].tag \in {"pending", "ok", "cycle"}
    BY <1>1 DEF CompilerInv, CompilerType, Message
  <2>2. QED
    BY <1>5, <2>1 DEF Heard
<1>7. task[c].pc = "done" /\ task[c].res.tag = "ok"
  BY <1>1, <1>6, AnswerFacts
<1>8. CASE Above(c, j)
  <2>1. Imported(task[c])
    BY <1>1, <1>8, WayDown
  <2>2. Elaborated(task[c]) /\ Ended(task[c])
    BY <1>7, <2>1 DEF Imported, Elaborated
  <2>3. Sound(task[c])
    BY <1>2, <1>7, <2>2 DEF TaskIs, AnswerTask, Sound, Reported
  <2>4. QED
    BY <1>1, <1>8, <2>3 DEF CompilerInv, CleanBelow
<1>9. QED
  BY <1>1, <1>7, <1>8

LEMMA ReportKeeps ==
  ASSUME CompilerInv, NEW i \in DOMAIN task, Report(i)
  PROVE  CompilerInv'
<1>1. /\ task[i] \in Task /\ TaskIs(i, task[i]) /\ i \in Keys
      /\ task[i].pc = "await" /\ exit = "running"
      /\ task[i].next > Len(Imports(task[i].file))
      /\ task[i].file \in Files /\ task[i].level \in Level
  BY TaskFacts DEF Report, At, Task
<1>2. PICK t \in Task :
      /\ task' = [task EXCEPT ![i] = t]
      /\ t.pc = "finish" /\ t.file = task[i].file /\ t.rd = task[i].rd
      /\ t.env = task[i].env \cup {task[i].file}
      /\ t.cyc = task[i].cyc /\ t.res = task[i].res /\ t.next = task[i].next /\ t.level = task[i].level
  <2>. DEFINE t == [task[i] EXCEPT !.pc = "finish", !.env = @ \cup {task[i].file}]
  <2>1. task[i].env \cup {task[i].file} \in SUBSET Files
    BY <1>1 DEF Task
  <2>2. t \in Task
    BY <1>1, <2>1 DEF Task
  <2>3. task' = [task EXCEPT ![i] = t]
    BY DEF Report
  <2>4. QED
    BY <1>1, <2>2, <2>3 DEF Task
<1>3. /\ UNCHANGED <<input, chan, cache>>
      /\ exit' = "running"
      /\ emitted' \in Level /\ emitted <= emitted'
      /\ t.level <= emitted'
      /\ emitted \in Level
  BY <1>1, <1>2, MaxFacts DEF Report, CompilerInv, CompilerType
<1>4. /\ Imported(t) /\ ~Elaborated(t) /\ ~Ended(t) /\ Elaborates(t)
      /\ Imported(task[i]) /\ ~Elaborated(task[i]) /\ Elaborates(task[i])
  BY <1>1, <1>2 DEF Imported, Elaborated, Elaborates, Ended
<1>5. TaskIs(i, t)'
  <2>1. FreshTask(t)' /\ AnswerTask(i, t)'
    BY <1>1, <1>2, <1>3, <1>4 DEF TaskIs, FreshTask, AnswerTask
  <2>2. ImportsTask(i, t)'
    <3>1. /\ \A k \in DOMAIN Imports(t.file) :
              /\ k < t.next /\ Append(i, k) \in DOMAIN chan /\ k \notin input.wrapped[t.file] =>
                   Heard(task[i], chan[Append(i, k)])
              /\ Imports(t.file)[k] \in input.missing => t.level = Error
          /\ t.level \in {input.elab[t.file], Error}
      BY <1>1, <1>2, <1>4 DEF TaskIs, ImportsTask
    <3>2. \A m : Heard(task[i], m) => Heard(t, m)
      BY <1>2 DEF Heard
    <3>3. \A k \in DOMAIN Imports(t.file) :
            k < t.next /\ Append(i, k) \in DOMAIN chan /\ k \notin input.wrapped[t.file] =>
              Heard(t, chan[Append(i, k)])
      BY <3>1, <3>2
    <3>4. Len(Imports(t.file)) < t.next /\ t.file \in t.env
      <4>1. Len(Imports(t.file)) \in Nat /\ t.next \in Nat
        BY <1>1, TaskFacts, <1>2 DEF Task
      <4>2. QED
        BY <1>1, <1>2, <4>1
    <3>5. QED
      BY <1>3, <3>1, <3>3, <3>4 DEF ImportsTask, Imports, Heard
  <2>3. ParsedTask(t)'
    BY <1>1, <1>2, <1>3, <1>4, InputFacts DEF TaskIs, ParsedTask, CompilerInv, CompilerType, Level, None, Error
  <2>4. EnvironmentTask(t)'
    BY <1>1, <1>2, <1>3 DEF TaskIs, EnvironmentTask, Needed
  <2>5. CycleTask(t)'
    BY <1>1, <1>2, <1>3 DEF TaskIs, CycleTask, PathTo, RealCycle, ImportedBy, Imports
  <2>6. QED
    BY <2>1, <2>2, <2>3, <2>4, <2>5 DEF TaskIs
<1>6. ExitIs'
  <2>1. task'[<<>>].pc # "exported"
    BY <1>1, <1>2, TaskFacts DEF CompilerInv, TreeIs
  <2>2. QED
    BY <1>1, <1>3, <2>1, TaskFacts
<1>7. Sound(t) => ~AllBare \/
        \A j \in DOMAIN task : Above(i, j) => task[j].pc = "done" /\ task[j].res.tag = "ok"
  BY <1>1, <1>2, AllBelowClean DEF Sound
<1>8. QED
  BY <1>1, <1>2, <1>3, <1>4, <1>5, <1>6, <1>7, QuietStep

LEMMA MainKeeps ==
  ASSUME CompilerInv, MainStep
  PROVE  CompilerInv'
<1>1. CASE MainNoEnv \/ MainFails
  <2>1. UNCHANGED <<input, task, chan, cache, emitted>> /\ exit' = "1" /\ task[<<>>].pc = "send"
    BY <1>1 DEF MainNoEnv, MainFails, At
  <2>2. ExitIs'
    BY <2>1 DEF ExitIs
  <2>3. CompilerType' /\ ChannelsAre' /\ TreeIs' /\ OwnersAre' /\ WaitersAre'
    BY <2>1 DEF CompilerInv, CompilerType, ChannelsAre, TreeIs, OwnersAre, WaitersAre, Imports
  <2>4. TasksAre'
    <3>. SUFFICES ASSUME NEW j \in DOMAIN task PROVE TaskIs(j, task[j])'
      BY <2>1 DEF TasksAre
    <3>1. task[j] \in Task /\ TaskIs(j, task[j]) /\ input \in Inputs /\ emitted \in Level
      BY TaskFacts DEF CompilerInv, CompilerType
    <3>2. emitted <= emitted'
      BY <2>1, <3>1 DEF Level, None, Error
    <3>3. QED
      BY <2>1, <3>1, <3>2, TaskKept
  <2>5. AnswersAre' /\ CleanBelow' /\ CleanAcyclic'
    BY <2>1 DEF CompilerInv, AnswersAre, CleanBelow, CleanAcyclic, Clean, AllBare, RealCycle, ImportedBy, Imports
  <2>6. QED
    BY <2>2, <2>3, <2>4, <2>5 DEF CompilerInv
<1>2. ASSUME NEW l \in Level, MainExports(l)
      PROVE  CompilerInv'
  <2>. DEFINE i == <<>>
  <2>1. /\ i \in DOMAIN task /\ task[i].pc = "send" /\ exit = "running" /\ task[i].res.tag = "ok"
    BY <1>2 DEF MainExports, At
  <2>2. task[i] \in Task /\ TaskIs(i, task[i])
    BY <2>1, TaskFacts
  <2>3. PICK t \in Task :
      /\ task' = [task EXCEPT ![i] = t]
      /\ t.pc = "exported" /\ t.file = task[i].file /\ t.rd = task[i].rd /\ t.env = task[i].env
      /\ t.cyc = task[i].cyc /\ t.res = task[i].res /\ t.next = task[i].next /\ t.level = task[i].level
    <3>. DEFINE t == [task[i] EXCEPT !.pc = "exported"]
    <3>1. t \in Task
      BY <2>2 DEF Task
    <3>2. task' = [task EXCEPT ![i] = t]
      BY <1>2 DEF MainExports
    <3>3. QED
      BY <2>2, <3>1, <3>2 DEF Task
  <2>4. /\ UNCHANGED <<input, chan, cache>>
        /\ exit' = ExitCode(l) /\ emitted' = MaxOf(emitted, l)
        /\ emitted' \in Level /\ emitted <= emitted'
        /\ emitted \in Level /\ input \in Inputs
    BY <1>2, MaxFacts DEF MainExports, CompilerInv, CompilerType
  <2>5. task[i].env # {}
    BY <2>1 DEF CompilerInv, TreeIs, Ended
  <2>6. /\ Imported(t) /\ Elaborated(t) /\ ~Elaborates(t) /\ Reported(t) /\ Ended(t)
        /\ Imported(task[i]) /\ Elaborated(task[i]) /\ ~Elaborates(task[i]) /\ Reported(task[i])
        /\ Ended(task[i])
    BY <2>1, <2>3, <2>5 DEF Imported, Elaborated, Elaborates, Ended, Reported
  <2>7. TaskIs(i, t)'
    <3>1. TaskIs(i, t)
      <4>1. FreshTask(t) /\ AnswerTask(i, t)
        BY <2>1, <2>2, <2>3, <2>6 DEF TaskIs, FreshTask, AnswerTask
      <4>2. ImportsTask(i, t) /\ ParsedTask(t)
        BY <2>2, <2>3, <2>6 DEF TaskIs, ImportsTask, ParsedTask, Heard
      <4>3. EnvironmentTask(t) /\ CycleTask(t)
        BY <2>1, <2>2, <2>3 DEF TaskIs, EnvironmentTask, CycleTask
      <4>4. QED
        BY <4>1, <4>2, <4>3 DEF TaskIs
    <3>2. QED
      BY <2>4, <3>1, TaskKept
  <2>8. ExitIs'
    <3>1. Threshold' = Threshold
      BY <2>4 DEF Threshold
    <3>2. exit' = "0" => emitted' < Threshold
      BY <2>4, InputFacts DEF ExitCode, Level, None, Error
    <3>3. exit' # "running"
      BY <2>4 DEF ExitCode
    <3>4. task'[<<>>].pc = "exported" /\ task'[<<>>].res.tag = "ok"
      BY <2>1, <2>3
    <3>5. QED
      BY <3>1, <3>2, <3>3, <3>4 DEF ExitIs
  <2>9. Sound(t) => Sound(task[i])
    BY <2>3, <2>6 DEF Sound
  <2>10. exit' \in {"running", "0", "1"}
    BY <2>4 DEF ExitCode
  <2>. HIDE DEF i
  <2>11. QED
    BY <2>1, <2>3, <2>4, <2>5, <2>6, <2>7, <2>8, <2>9, <2>10, QuietStep
<1>3. QED
  BY <1>1, <1>2 DEF MainStep

-----------------------------------------------------------------------------
(* The steps that take up a file, wait for it, or send an answer. *)
LEMMA StartFirstKeeps ==
  ASSUME CompilerInv, NEW i \in DOMAIN task, StartFirst(i)
  PROVE  CompilerInv'
<1>. DEFINE f == task[i].file
<1>1. /\ task[i] \in Task /\ TaskIs(i, task[i]) /\ i \in Keys
      /\ task[i].pc = "start" /\ exit = "running"
      /\ f \in Files /\ cache[f].tag = "none"
  BY TaskFacts DEF StartFirst, At, Task
<1>2. PICK t \in Task :
      /\ task' = [task EXCEPT ![i] = t]
      /\ t.pc = "parse" /\ t.file = f /\ t.rd = task[i].rd /\ t.env = task[i].env
      /\ t.cyc = task[i].cyc /\ t.res = task[i].res /\ t.next = task[i].next /\ t.level = task[i].level
  <2>. DEFINE t == [task[i] EXCEPT !.pc = "parse"]
  <2>1. t \in Task
    BY <1>1 DEF Task
  <2>2. task' = [task EXCEPT ![i] = t]
    BY DEF StartFirst
  <2>3. QED
    BY <1>1, <2>1, <2>2 DEF Task
<1>3. /\ DOMAIN task' = DOMAIN task /\ task'[i] = t
      /\ \A j \in DOMAIN task : j # i => task'[j] = task[j]
      /\ cache' = [cache EXCEPT ![f] = InProgress(<<>>)]
      /\ UNCHANGED <<input, chan, emitted, exit>>
  BY <1>2 DEF StartFirst
<1>4. /\ cache \in [Files -> FileCache] /\ InProgress(<<>>) \in FileCache
      /\ InProgress(<<>>).tag = "busy" /\ InProgress(<<>>).senders = <<>>
      /\ emitted \in Level /\ emitted <= emitted' /\ input \in Inputs
  BY <1>3 DEF CompilerInv, CompilerType, FileCache, InProgress, Keys, Level, None, Error
<1>5. /\ cache' \in [Files -> FileCache]
      /\ cache'[f].tag = "busy" /\ DOMAIN cache'[f].senders = {}
      /\ \A g \in Files : g # f => cache'[g] = cache[g]
  BY <1>1, <1>3, <1>4
<1>. HIDE DEF f
<1>6. /\ ~Imported(t) /\ ~Elaborated(t) /\ Elaborates(t) /\ ~Ended(t) /\ ~Sound(t)
      /\ ~Imported(task[i]) /\ ~Elaborated(task[i]) /\ ~Elaborates(task[i]) /\ ~Ended(task[i])
  BY <1>1, <1>2 DEF Imported, Elaborated, Elaborates, Ended, Sound, Reported
<1>7. \A j \in DOMAIN task : task[j].file = f => ~Elaborates(task[j]) /\ ~Elaborated(task[j]) /\ task[j].pc # "wait"
  <2>1. \A e : Ready(e).tag = "ready"
    BY DEF Ready
  <2>2. QED
    BY <1>1, <2>1 DEF CompilerInv, OwnersAre, WaitersAre
<1>8. CompilerType'
  BY <1>2, <1>3, <1>4, <1>5 DEF CompilerInv, CompilerType
<1>9. ChannelsAre' /\ TreeIs'
  <2>1. task'[<<>>].pc # "wait" /\ (Ended(task'[<<>>]) => task'[<<>>].env # {})
    BY <1>2, <1>3, <1>6 DEF CompilerInv, TreeIs
  <2>2. \A j \in DOMAIN task :
          /\ task'[j].file = task[j].file
          /\ task'[j].rd = task[j].rd
          /\ Imported(task'[j]) <=> Imported(task[j])
    BY <1>2, <1>3, <1>6 DEF f
  <2>3. QED
    BY <1>3, <2>1, <2>2, TreeKept DEF CompilerInv
<1>10. OwnersAre'
  <2>1. ASSUME NEW a \in DOMAIN task, NEW b \in DOMAIN task,
               Elaborates(task'[a]) \/ Elaborated(task'[a]), Elaborates(task'[b]) \/ Elaborated(task'[b]),
               task'[a].file = task'[b].file
        PROVE  a = b
    <3>1. CASE a = i \/ b = i
      BY <1>2, <1>3, <1>7, <2>1, <3>1
    <3>2. CASE a # i /\ b # i
      BY <1>3, <2>1, <3>2 DEF CompilerInv, OwnersAre
    <3>3. QED
      BY <3>1, <3>2
  <2>2. ASSUME NEW a \in DOMAIN task
        PROVE  /\ Elaborates(task'[a]) => cache'[task'[a].file].tag = "busy"
               /\ Elaborated(task'[a]) => cache'[task'[a].file] = Ready(task'[a].env)
    <3>1. CASE a = i
      BY <1>2, <1>3, <1>5, <1>6, <3>1
    <3>2. CASE a # i
      <4>1. task'[a] = task[a] /\ task[a].file \in Files
        BY <1>3, <3>2, TaskFacts DEF Task
      <4>2. Elaborates(task[a]) \/ Elaborated(task[a]) => task[a].file # f
        BY <1>7
      <4>3. QED
        BY <1>5, <4>1, <4>2 DEF CompilerInv, OwnersAre
    <3>3. QED
      BY <3>1, <3>2
  <2>3. ASSUME NEW g \in Files, cache'[g].tag # "none"
        PROVE  \E a \in DOMAIN task : task'[a].file = g /\ (Elaborates(task'[a]) \/ Elaborated(task'[a]))
    <3>1. CASE g = f
      BY <1>2, <1>3, <1>6, <3>1
    <3>2. CASE g # f
      <4>1. PICK a \in DOMAIN task : task[a].file = g /\ (Elaborates(task[a]) \/ Elaborated(task[a]))
        BY <1>5, <2>3, <3>2 DEF CompilerInv, OwnersAre
      <4>2. a # i
        BY <3>2, <4>1 DEF f
      <4>3. QED
        BY <1>3, <4>1, <4>2
    <3>3. QED
      BY <3>1, <3>2
  <2>4. QED
    BY <1>3, <2>1, <2>2, <2>3 DEF OwnersAre
<1>11. WaitersAre'
  <2>1. ASSUME NEW a \in DOMAIN task, task'[a].pc = "wait"
        PROVE  cache'[task'[a].file].tag = "busy" /\ Among(a, cache'[task'[a].file].senders)
    <3>1. a # i /\ task'[a] = task[a] /\ task[a].file \in Files
      BY <1>2, <1>3, <2>1, TaskFacts DEF Task
    <3>2. task[a].file # f
      BY <1>7, <2>1, <3>1
    <3>3. QED
      BY <1>5, <2>1, <3>1, <3>2 DEF CompilerInv, WaitersAre
  <2>2. ASSUME NEW g \in Files, NEW n \in DOMAIN cache'[g].senders
        PROVE  /\ cache'[g].senders[n] \in DOMAIN task
               /\ task'[cache'[g].senders[n]].pc = "wait"
               /\ task'[cache'[g].senders[n]].file = g
    <3>1. g # f /\ cache'[g] = cache[g]
      BY <1>5
    <3>2. /\ cache[g].senders[n] \in DOMAIN task
          /\ task[cache[g].senders[n]].pc = "wait"
          /\ task[cache[g].senders[n]].file = g
      BY <3>1 DEF CompilerInv, WaitersAre
    <3>3. QED
      BY <1>1, <1>3, <3>1, <3>2
  <2>3. QED
    BY <1>3, <2>1, <2>2 DEF WaitersAre
<1>12. TasksAre'
  <2>1. \A g \in Files : cache[g].tag = "ready" => cache'[g] = cache[g]
    BY <1>1, <1>5
  <2>2. \A j \in DOMAIN task : j # i => TaskIs(j, task[j])'
    <3>. SUFFICES ASSUME NEW j \in DOMAIN task, j # i PROVE TaskIs(j, task[j])'
      OBVIOUS
    <3>1. task[j] \in Task /\ TaskIs(j, task[j]) /\ task'[j] = task[j]
      BY <1>3, TaskFacts
    <3>2. QED
      BY <1>3, <1>4, <2>1, <3>1, TaskKept
  <2>3. TaskIs(i, t)
    <3>1. FreshTask(t) /\ AnswerTask(i, t)
      BY <1>1, <1>2, <1>6 DEF TaskIs, FreshTask, AnswerTask
    <3>2. ImportsTask(i, t) /\ ParsedTask(t)
      BY <1>2, <1>6 DEF ImportsTask, ParsedTask
    <3>3. EnvironmentTask(t) /\ CycleTask(t)
      BY <1>1, <1>2 DEF TaskIs, EnvironmentTask, CycleTask, FreshTask, f
    <3>4. QED
      BY <3>1, <3>2, <3>3 DEF TaskIs
  <2>4. TaskIs(i, t)'
    BY <1>3, <1>4, <2>1, <2>3, TaskKept
  <2>5. QED
    BY <1>3, <2>2, <2>4 DEF TasksAre
<1>13. AnswersAre'
  BY <1>3 DEF CompilerInv, AnswersAre, RealCycle, ImportedBy, Imports
<1>14. CleanBelow'
  <2>1. SUFFICES ASSUME AllBare, NEW a \in DOMAIN task, NEW j \in DOMAIN task,
                        Above(a, j), Sound(task'[a])
                 PROVE  task'[j].pc = "done" /\ task'[j].res.tag = "ok"
    BY <1>3 DEF CleanBelow, AllBare
  <2>2. a # i /\ task'[a] = task[a]
    BY <1>3, <1>6, <2>1
  <2>3. task[j].pc = "done" /\ task[j].res.tag = "ok"
    BY <2>1, <2>2 DEF CompilerInv, CleanBelow
  <2>4. QED
    BY <1>1, <1>3, <2>3
<1>15. CleanAcyclic'
  <2>1. Clean' = Clean
    BY <1>3, <1>6 DEF Clean
  <2>2. QED
    BY <1>3, <2>1 DEF CompilerInv, CleanAcyclic, AllBare, ImportedBy, Imports
<1>16. ExitIs'
  BY <1>1, <1>2, <1>3, TaskFacts
<1>17. QED
  BY <1>8, <1>9, <1>10, <1>11, <1>12, <1>13, <1>14, <1>15, <1>16 DEF CompilerInv

(* The main thread is the first to come to its file. *)
LEMMA MainIsFirst ==
  ASSUME CompilerInv, task[<<>>].pc = "start"
  PROVE  cache[Main].tag = "none"
<1>. SUFFICES ASSUME cache[Main].tag # "none" PROVE FALSE
  OBVIOUS
<1>1. <<>> \in DOMAIN task
  BY DEF CompilerInv, TreeIs
<1>2. Main \in Files
  BY CompilerAssumption
<1>3. PICK a \in DOMAIN task : Elaborates(task[a]) \/ Elaborated(task[a])
  BY <1>2 DEF CompilerInv, OwnersAre
<1>4. a \in Keys /\ a # <<>>
  BY <1>3, TaskFacts DEF Elaborates, Elaborated, Ended
<1>5. Above(<<>>, a)
  BY <1>4 DEF Above, Keys
<1>6. Imported(task[<<>>])
  BY <1>1, <1>5, WayDown
<1>7. QED
  BY <1>6 DEF Imported, Elaborated, Ended

LEMMA StartWaitsKeeps ==
  ASSUME CompilerInv, NEW i \in DOMAIN task, StartWaits(i)
  PROVE  CompilerInv'
<1>. DEFINE f == task[i].file
<1>1. /\ task[i] \in Task /\ TaskIs(i, task[i]) /\ i \in Keys
      /\ task[i].pc = "start" /\ exit = "running"
      /\ f \in Files /\ cache[f].tag = "busy" /\ cache[f] \in FileCache
  BY TaskFacts DEF StartWaits, At, Task, CompilerInv, CompilerType
<1>2. i # <<>>
  BY <1>1, MainIsFirst DEF CompilerInv, TreeIs
<1>3. PICK t \in Task :
      /\ task' = [task EXCEPT ![i] = t]
      /\ t.pc = "wait" /\ t.file = f /\ t.rd = task[i].rd /\ t.env = task[i].env
      /\ t.cyc = task[i].cyc /\ t.res = task[i].res /\ t.next = task[i].next /\ t.level = task[i].level
  <2>. DEFINE t == [task[i] EXCEPT !.pc = "wait"]
  <2>1. t \in Task
    BY <1>1 DEF Task
  <2>2. task' = [task EXCEPT ![i] = t]
    BY DEF StartWaits
  <2>3. QED
    BY <1>1, <2>1, <2>2 DEF Task
<1>. DEFINE q == cache[f].senders
<1>4. q \in Seq(Keys) /\ Append(q, i) \in Seq(Keys)
  BY <1>1 DEF FileCache
<1>5. /\ DOMAIN Append(q, i) = DOMAIN q \cup {Len(q) + 1}
      /\ Append(q, i)[Len(q) + 1] = i
      /\ \A n \in DOMAIN q : Append(q, i)[n] = q[n]
  BY <1>4, SMTT(60)
<1>6. /\ DOMAIN task' = DOMAIN task /\ task'[i] = t
      /\ \A j \in DOMAIN task : j # i => task'[j] = task[j]
      /\ cache' = [cache EXCEPT ![f] = [cache[f] EXCEPT !.senders = Append(q, i)]]
      /\ UNCHANGED <<input, chan, emitted, exit>>
  BY <1>3 DEF StartWaits
<1>7. cache \in [Files -> FileCache] /\ emitted \in Level /\ emitted <= emitted' /\ input \in Inputs
  BY <1>6 DEF CompilerInv, CompilerType, Level, None, Error
<1>8. /\ cache' \in [Files -> FileCache]
      /\ cache'[f].senders = Append(q, i)
      /\ \A g \in Files : cache'[g].tag = cache[g].tag
      /\ \A g \in Files : g # f => cache'[g] = cache[g]
  <2>. HIDE DEF q, f
  <2>1. [cache[f] EXCEPT !.senders = Append(q, i)] \in FileCache
    BY <1>1, <1>4 DEF FileCache
  <2>2. /\ [cache[f] EXCEPT !.senders = Append(q, i)].senders = Append(q, i)
        /\ [cache[f] EXCEPT !.senders = Append(q, i)].tag = cache[f].tag
    BY <1>1 DEF FileCache
  <2>3. QED
    BY <1>1, <1>6, <1>7, <2>1, <2>2
<1>. HIDE DEF f, q
<1>9. t.env = {}
  BY <1>1, <1>3 DEF TaskIs, FreshTask
<1>10. /\ ~Imported(t) /\ ~Elaborated(t) /\ ~Elaborates(t) /\ ~Ended(t) /\ ~Sound(t)
       /\ ~Imported(task[i]) /\ ~Elaborated(task[i]) /\ ~Elaborates(task[i])
  BY <1>1, <1>3 DEF Imported, Elaborated, Elaborates, Ended, Sound, Reported
<1>11. CompilerType'
  BY <1>3, <1>6, <1>8 DEF CompilerInv, CompilerType
<1>12. ChannelsAre' /\ TreeIs'
  <2>1. task'[<<>>].pc # "wait" /\ (Ended(task'[<<>>]) => task'[<<>>].env # {})
    BY <1>2, <1>6 DEF CompilerInv, TreeIs
  <2>2. \A j \in DOMAIN task :
          /\ task'[j].file = task[j].file
          /\ task'[j].rd = task[j].rd
          /\ Imported(task'[j]) <=> Imported(task[j])
    BY <1>3, <1>6, <1>10 DEF f
  <2>3. QED
    BY <1>6, <2>1, <2>2, TreeKept DEF CompilerInv
<1>13. /\ \A j \in DOMAIN task :
            /\ task'[j].file = task[j].file /\ task[j].file \in Files
            /\ Elaborates(task'[j]) <=> Elaborates(task[j])
            /\ Elaborated(task'[j]) <=> Elaborated(task[j])
            /\ task'[j].env = task[j].env
       /\ \A g \in Files : cache[g].tag = "ready" => cache'[g] = cache[g]
  BY <1>1, <1>3, <1>6, <1>8, <1>10, TaskFacts DEF f, Task
<1>14. OwnersAre'
  <2>1. \A j \in DOMAIN task :
          /\ Elaborates(task'[j]) => cache'[task'[j].file].tag = "busy"
          /\ Elaborated(task'[j]) => cache'[task'[j].file] = Ready(task'[j].env)
    <3>1. \A e : Ready(e).tag = "ready"
      BY DEF Ready
    <3>2. QED
      BY <1>8, <1>13, <3>1 DEF CompilerInv, OwnersAre
  <2>2. \A a, b \in DOMAIN task :
          /\ Elaborates(task'[a]) \/ Elaborated(task'[a])
          /\ Elaborates(task'[b]) \/ Elaborated(task'[b])
          /\ task'[a].file = task'[b].file
          => a = b
    BY <1>13 DEF CompilerInv, OwnersAre
  <2>3. \A g \in Files : cache'[g].tag # "none" =>
          \E a \in DOMAIN task : task'[a].file = g /\ (Elaborates(task'[a]) \/ Elaborated(task'[a]))
    BY <1>8, <1>13 DEF CompilerInv, OwnersAre
  <2>4. QED
    BY <1>6, <2>1, <2>2, <2>3 DEF OwnersAre
<1>15. WaitersAre'
  <2>1. ASSUME NEW a \in DOMAIN task, task'[a].pc = "wait"
        PROVE  cache'[task'[a].file].tag = "busy" /\ Among(a, cache'[task'[a].file].senders)
    <3>1. CASE a = i
      <4>1. Len(q) + 1 \in DOMAIN Append(q, i) /\ Append(q, i)[Len(q) + 1] = i
        BY <1>5
      <4>2. Among(i, Append(q, i))
        BY <4>1 DEF Among
      <4>3. QED
        BY <1>1, <1>3, <1>6, <1>8, <3>1, <4>2
    <3>2. CASE a # i
      <4>1. /\ task'[a] = task[a] /\ task[a].file \in Files
            /\ cache[task[a].file].tag = "busy" /\ Among(a, cache[task[a].file].senders)
        BY <1>6, <1>13, <2>1, <3>2 DEF CompilerInv, WaitersAre
      <4>2. Among(a, cache'[task[a].file].senders)
        <5>1. CASE task[a].file = f
          <6>1. PICK n \in DOMAIN q : q[n] = a
            BY <4>1, <5>1 DEF Among, q
          <6>2. n \in DOMAIN Append(q, i) /\ Append(q, i)[n] = a
            BY <1>5, <6>1
          <6>3. QED
            BY <1>8, <5>1, <6>2 DEF Among
        <5>2. CASE task[a].file # f
          BY <1>8, <4>1, <5>2
        <5>3. QED
          BY <5>1, <5>2
      <4>3. QED
        BY <1>8, <4>1, <4>2
    <3>3. QED
      BY <3>1, <3>2
  <2>2. ASSUME NEW g \in Files, NEW n \in DOMAIN cache'[g].senders
        PROVE  /\ cache'[g].senders[n] \in DOMAIN task
               /\ task'[cache'[g].senders[n]].pc = "wait"
               /\ task'[cache'[g].senders[n]].file = g
    <3>1. CASE g = f /\ n = Len(q) + 1
      BY <1>3, <1>5, <1>6, <1>8, <3>1
    <3>2. CASE ~(g = f /\ n = Len(q) + 1)
      <4>1. n \in DOMAIN cache[g].senders /\ cache'[g].senders[n] = cache[g].senders[n]
        BY <1>5, <1>8, <3>2 DEF q
      <4>2. /\ cache[g].senders[n] \in DOMAIN task
            /\ task[cache[g].senders[n]].pc = "wait"
            /\ task[cache[g].senders[n]].file = g
        BY <4>1 DEF CompilerInv, WaitersAre
      <4>3. QED
        BY <1>1, <1>6, <4>1, <4>2
    <3>3. QED
      BY <3>1, <3>2
  <2>3. QED
    BY <1>6, <2>1, <2>2 DEF WaitersAre
<1>16. TasksAre'
  <2>1. TaskIs(i, t)
    <3>1. FreshTask(t) /\ AnswerTask(i, t)
      BY <1>1, <1>3, <1>10 DEF TaskIs, FreshTask, AnswerTask
    <3>2. ImportsTask(i, t) /\ ParsedTask(t)
      BY <1>3, <1>10 DEF ImportsTask, ParsedTask
    <3>3. EnvironmentTask(t) /\ CycleTask(t)
      BY <1>1, <1>3, <1>9 DEF TaskIs, EnvironmentTask, CycleTask, FreshTask, f
    <3>4. QED
      BY <3>1, <3>2, <3>3 DEF TaskIs
  <2>2. \A j \in DOMAIN task : task'[j] \in Task /\ TaskIs(j, task'[j])
    BY <1>6, <2>1, TaskFacts
  <2>3. \A u \in Task, j \in DOMAIN task : TaskIs(j, u) => TaskIs(j, u)'
    BY <1>6, <1>7, <1>13, TaskKept
  <2>4. \A j \in DOMAIN task : TaskIs(j, task[j])'
    BY <2>2, <2>3
  <2>5. QED
    BY <1>6, <2>4 DEF TasksAre
<1>17. AnswersAre'
  BY <1>6 DEF CompilerInv, AnswersAre, RealCycle, ImportedBy, Imports
<1>18. CleanBelow'
  <2>1. SUFFICES ASSUME AllBare, NEW a \in DOMAIN task, NEW j \in DOMAIN task,
                        Above(a, j), Sound(task'[a])
                 PROVE  task'[j].pc = "done" /\ task'[j].res.tag = "ok"
    BY <1>6 DEF CleanBelow, AllBare
  <2>2. a # i /\ task'[a] = task[a]
    BY <1>6, <1>10, <2>1
  <2>3. task[j].pc = "done" /\ task[j].res.tag = "ok"
    BY <2>1, <2>2 DEF CompilerInv, CleanBelow
  <2>4. QED
    BY <1>1, <1>6, <2>3
<1>19. CleanAcyclic'
  <2>1. Clean' = Clean
    BY <1>6, <1>10 DEF Clean
  <2>2. QED
    BY <1>6, <2>1 DEF CompilerInv, CleanAcyclic, AllBare, ImportedBy, Imports
<1>20. ExitIs'
  BY <1>1, <1>3, <1>6, TaskFacts
<1>21. QED
  BY <1>11, <1>12, <1>14, <1>15, <1>16, <1>17, <1>18, <1>19, <1>20 DEF CompilerInv

LEMMA SendKeeps ==
  ASSUME CompilerInv, NEW i \in DOMAIN task, Send(i)
  PROVE  CompilerInv'
<1>1. /\ task[i] \in Task /\ TaskIs(i, task[i]) /\ i \in Keys
      /\ task[i].pc = "send" /\ exit = "running" /\ i # <<>>
      /\ task[i].file \in Files
  BY TaskFacts DEF Send, At, Task
<1>2. PICK t \in Task :
      /\ task' = [task EXCEPT ![i] = t]
      /\ t.pc = "done" /\ t.file = task[i].file /\ t.rd = task[i].rd /\ t.env = task[i].env
      /\ t.cyc = task[i].cyc /\ t.res = task[i].res /\ t.next = task[i].next /\ t.level = task[i].level
  <2>. DEFINE t == [task[i] EXCEPT !.pc = "done"]
  <2>1. t \in Task
    BY <1>1 DEF Task
  <2>2. task' = [task EXCEPT ![i] = t]
    BY DEF Send
  <2>3. QED
    BY <1>1, <2>1, <2>2 DEF Task
<1>3. i \in DOMAIN chan /\ chan[i] = Pending /\ chan \in [DOMAIN chan -> Message]
  BY <1>1 DEF CompilerInv, CompilerType, TreeIs, TaskIs, AnswerTask
<1>4. /\ DOMAIN task' = DOMAIN task /\ task'[i] = t
      /\ \A j \in DOMAIN task : j # i => task'[j] = task[j]
      /\ DOMAIN chan' = DOMAIN chan /\ chan'[i] = t.res
      /\ \A j : j # i => chan'[j] = chan[j] \/ j \notin DOMAIN chan
      /\ UNCHANGED <<input, cache, emitted, exit>>
  BY <1>2, <1>3 DEF Send
<1>5. chan' \in [DOMAIN chan' -> Message]
  <2>1. t.res \in Message /\ chan' = [chan EXCEPT ![i] = t.res]
    BY <1>1, <1>2 DEF Task, Send
  <2>2. QED
    BY <1>3, <2>1
<1>6. emitted \in Level /\ emitted <= emitted' /\ input \in Inputs
  BY <1>4 DEF CompilerInv, CompilerType, Level, None, Error
<1>7. /\ Imported(t) <=> Imported(task[i])
      /\ Elaborated(t) <=> Elaborated(task[i])
      /\ Elaborates(t) <=> Elaborates(task[i])
      /\ Reported(t) <=> Reported(task[i])
      /\ Sound(t) <=> Sound(task[i])
      /\ Ended(t) /\ Ended(task[i])
  BY <1>1, <1>2 DEF Imported, Elaborated, Elaborates, Ended, Sound, Reported
<1>8. CompilerType'
  BY <1>2, <1>4, <1>5 DEF CompilerInv, CompilerType
<1>9. ChannelsAre' /\ TreeIs'
  <2>1. task'[<<>>].pc # "wait" /\ (Ended(task'[<<>>]) => task'[<<>>].env # {})
    BY <1>1, <1>4 DEF CompilerInv, TreeIs
  <2>2. \A j \in DOMAIN task :
          /\ task'[j].file = task[j].file
          /\ task'[j].rd = task[j].rd
          /\ Imported(task'[j]) <=> Imported(task[j])
    BY <1>2, <1>4, <1>7
  <2>3. QED
    BY <1>4, <2>1, <2>2, TreeKept DEF CompilerInv
<1>10. OwnersAre' /\ WaitersAre'
  <2>1. \A j \in DOMAIN task :
          /\ task'[j].file = task[j].file
          /\ Elaborates(task'[j]) <=> Elaborates(task[j])
          /\ Elaborated(task'[j]) <=> Elaborated(task[j])
          /\ Elaborated(task[j]) => task'[j].env = task[j].env
          /\ task'[j].pc = "wait" <=> task[j].pc = "wait"
    BY <1>1, <1>2, <1>4, <1>7
  <2>2. QED
    BY <1>4, <2>1, OwnersKept DEF CompilerInv
<1>11. TasksAre'
  <2>1. Pending.tag = "pending"
    BY DEF Pending
  <2>2. \A j \in DOMAIN task : j # i => TaskIs(j, task[j])'
    <3>. SUFFICES ASSUME NEW j \in DOMAIN task, j # i PROVE TaskIs(j, task[j])'
      OBVIOUS
    <3>1. task[j] \in Task /\ TaskIs(j, task[j]) /\ task'[j] = task[j]
      BY <1>4, TaskFacts
    <3>2. j # <<>> => chan'[j] = chan[j]
      BY <1>4 DEF CompilerInv, TreeIs
    <3>3. \A k : Append(j, k) \in DOMAIN chan' /\ Imported(task[j]) =>
            /\ Append(j, k) \in DOMAIN chan
            /\ chan[Append(j, k)].tag # "pending" => chan'[Append(j, k)] = chan[Append(j, k)]
      BY <1>3, <1>4, <2>1
    <3>4. QED
      BY <1>4, <1>6, <3>1, <3>2, <3>3, TaskKept
  <2>3. FreshTask(t)'
    BY <1>2 DEF FreshTask
  <2>4. AnswerTask(i, t)'
    BY <1>1, <1>2, <1>4, <1>7 DEF TaskIs, AnswerTask
  <2>5. ImportsTask(i, t)'
    <3>. SUFFICES ASSUME Imported(t) PROVE ImportsTask(i, t)'
      BY DEF ImportsTask
    <3>1. /\ \A k \in DOMAIN Imports(t.file) :
              /\ k < t.next /\ Append(i, k) \in DOMAIN chan /\ k \notin input.wrapped[t.file] =>
                   Heard(task[i], chan[Append(i, k)])
              /\ Imports(t.file)[k] \in input.missing => t.level = Error
          /\ t.level \in {input.elab[t.file], Error}
          /\ Reported(t) => /\ Len(Imports(t.file)) < t.next
                            /\ t.level <= emitted
                            /\ t.file \in t.env
      BY <1>1, <1>2, <1>7 DEF TaskIs, ImportsTask
    <3>2. \A m : Heard(task[i], m) => Heard(t, m)
      BY <1>2 DEF Heard
    <3>3. \A k \in DOMAIN Imports(t.file) : Append(i, k) # i
      BY <1>1, <1>2, TaskFacts, KeyAppend
    <3>4. \A k \in DOMAIN Imports(t.file) :
            k < t.next /\ Append(i, k) \in DOMAIN chan' /\ k \notin input.wrapped[t.file] =>
              Heard(t, chan'[Append(i, k)])
      BY <1>4, <3>1, <3>2, <3>3
    <3>5. QED
      BY <1>4, <3>1, <3>4 DEF ImportsTask, Imports, Heard
  <2>6. ParsedTask(t)' /\ EnvironmentTask(t)'
    BY <1>1, <1>2, <1>4, <1>7 DEF TaskIs, ParsedTask, EnvironmentTask, Needed
  <2>7. CycleTask(t)'
    BY <1>1, <1>2, <1>4 DEF TaskIs, CycleTask, PathTo, RealCycle, ImportedBy, Imports
  <2>8. QED
    BY <1>4, <2>2, <2>3, <2>4, <2>5, <2>6, <2>7 DEF TasksAre, TaskIs
<1>12. AnswersAre'
  <2>1. t.res.tag = "cycle" => RealCycle(t.res.cyc)
    BY <1>1, <1>2 DEF TaskIs, CycleTask
  <2>2. \A j \in DOMAIN chan :
          /\ j \notin DOMAIN task => chan'[j].tag = "cycle"
          /\ chan'[j].tag = "cycle" => RealCycle(chan'[j].cyc)
    BY <1>4, <2>1 DEF CompilerInv, AnswersAre
  <2>3. QED
    BY <1>4, <2>2 DEF AnswersAre, RealCycle, ImportedBy, Imports
<1>13. CleanBelow'
  <2>1. SUFFICES ASSUME AllBare, NEW a \in DOMAIN task, NEW j \in DOMAIN task,
                        Above(a, j), Sound(task'[a])
                 PROVE  task'[j].pc = "done" /\ task'[j].res.tag = "ok"
    BY <1>4 DEF CleanBelow, AllBare
  <2>2. Sound(task[a])
    BY <1>4, <1>7, <2>1
  <2>3. task[j].pc = "done" /\ task[j].res.tag = "ok"
    BY <2>1, <2>2 DEF CompilerInv, CleanBelow
  <2>4. QED
    BY <1>1, <1>4, <2>3
<1>14. CleanAcyclic'
  <2>1. Clean' = Clean
    BY <1>2, <1>4, <1>7 DEF Clean
  <2>2. QED
    BY <1>4, <2>1 DEF CompilerInv, CleanAcyclic, AllBare, ImportedBy, Imports
<1>15. ExitIs'
  BY <1>1, <1>2, <1>4, TaskFacts
<1>16. QED
  BY <1>8, <1>9, <1>10, <1>11, <1>12, <1>13, <1>14, <1>15 DEF CompilerInv

-----------------------------------------------------------------------------
(* The imports of a file Main depends on are files Main depends on. *)
LEMMA NeededClosed ==
  ASSUME NEW f \in Needed, NEW g \in Files, ImportedBy(f, g)
  PROVE  g \in Needed
<1>1. SUFFICES ASSUME NEW S \in SUBSET Files, Main \in S, Closed(input.imports, S, {})
               PROVE  g \in S
  BY DEF Needed, Reached
<1>2. f \in S
  BY <1>1 DEF Needed, Reached
<1>3. QED
  BY <1>1, <1>2 DEF Closed, ImportedBy, Imports

LEMMA MainNeeded == Main \in Needed
  BY CompilerAssumption DEF Needed, Reached

(* A task spawned for an import is a new one. *)
LEMMA NewTaskFacts ==
  ASSUME NEW g \in Files, NEW rd \in Seq(Files)
  PROVE  LET u == NewTask(g, rd) IN
         /\ u \in Task
         /\ u.pc = "start" /\ u.file = g /\ u.rd = rd /\ u.next = 1 /\ u.level = None
         /\ u.cyc = <<>> /\ u.env = {} /\ u.res = Pending
         /\ ~Imported(u) /\ ~Elaborates(u) /\ ~Ended(u) /\ ~Elaborated(u) /\ ~Reported(u)
<1>. DEFINE u == NewTask(g, rd)
<1>1. Pending \in Message
  BY DEF Pending, Message
<1>2. None \in Level
  BY DEF Level, None, Error
<1>3. /\ u.pc = "start" /\ u.file = g /\ u.rd = rd /\ u.next = 1 /\ u.level = None
      /\ u.cyc = <<>> /\ u.env = {} /\ u.res = Pending
  BY DEF NewTask
<1>4. u \in Task
  BY <1>1, <1>2 DEF NewTask, Task
<1>. HIDE DEF u
<1>5. ~Imported(u) /\ ~Elaborates(u) /\ ~Ended(u) /\ ~Elaborated(u) /\ ~Reported(u)
  BY <1>3 DEF Imported, Elaborates, Ended, Elaborated, Reported
<1>6. QED
  BY <1>3, <1>4, <1>5 DEF u

LEMMA ImportKeeps ==
  ASSUME CompilerInv, NEW i \in DOMAIN task, Import(i)
  PROVE  CompilerInv'
<1>. DEFINE f == task[i].file
            rd == Append(task[i].rd, f)
            readable == {k \in DOMAIN Imports(f) : Imports(f)[k] \notin input.missing}
            cyclic == {k \in readable : ClosesCycle(i, Imports(f)[k])}
            channels == {Append(i, k) : k \in readable}
            spawned == {Append(i, k) : k \in readable \ cyclic}
            lev == IF readable = DOMAIN Imports(f) THEN input.elab[f] ELSE Error
<1>1. /\ task[i] \in Task /\ TaskIs(i, task[i]) /\ i \in Keys
      /\ task[i].pc = "import" /\ exit = "running"
      /\ f \in Files /\ task[i].rd \in Seq(Files)
      /\ Imports(f) \in Seq(Files)
  BY TaskFacts DEF Import, At, Task
<1>2. rd \in Seq(Files) /\ Len(rd) = Len(task[i].rd) + 1 /\ rd[Len(rd)] = f
      /\ \A n \in 1..Len(task[i].rd) : rd[n] = task[i].rd[n]
  BY <1>1
<1>3. /\ readable \subseteq Nat /\ cyclic \subseteq readable
      /\ \A k \in readable : Imports(f)[k] \in Files /\ ImportedBy(f, Imports(f)[k])
      /\ \A k \in cyclic : Among(Imports(f)[k], rd)
      /\ lev \in Level
      /\ lev \in {input.elab[f], Error}
      /\ \A k \in DOMAIN Imports(f) : Imports(f)[k] \in input.missing => lev = Error
  BY <1>1, InputFacts DEF ImportedBy, Among, ClosesCycle, CompilerInv, CompilerType, Level, None, Error
<1>4. /\ chan' = [j \in DOMAIN chan \cup channels |->
                   IF j \notin channels THEN chan[j]
                   ELSE IF j \in spawned THEN Pending ELSE ImportCycle(rd)]
      /\ task' = [j \in DOMAIN task \cup spawned |->
                   IF j \in spawned THEN NewTask(Imports(f)[j[Len(j)]], rd)
                   ELSE IF j # i THEN task[j]
                   ELSE [task[i] EXCEPT !.pc = "await", !.level = lev]]
      /\ UNCHANGED <<input, cache, emitted, exit>>
  BY DEF Import
<1>. HIDE DEF rd, lev
<1>5. PICK t \in Task :
      /\ t = [task[i] EXCEPT !.pc = "await", !.level = lev]
      /\ t.pc = "await" /\ t.file = f /\ t.rd = task[i].rd /\ t.env = task[i].env
      /\ t.cyc = task[i].cyc /\ t.res = task[i].res /\ t.next = task[i].next /\ t.level = lev
  <2>. DEFINE t == [task[i] EXCEPT !.pc = "await", !.level = lev]
  <2>. HIDE DEF readable, cyclic, channels, spawned
  <2>1. t \in Task
    BY <1>1, <1>3 DEF Task
  <2>2. QED
    BY <1>1, <2>1 DEF Task
<1>. HIDE DEF f, cyclic
<1>6. /\ \A k \in Nat : Append(i, k) \in channels <=> k \in readable
      /\ \A k \in Nat : Append(i, k) \in spawned <=> k \in readable \ cyclic
      /\ \A j \in Keys, k \in Nat : j # i => Append(j, k) \notin channels
      /\ channels \subseteq Keys \ {<<>>} /\ i \notin channels
      /\ spawned \subseteq channels
      /\ \A c \in channels : \E k \in readable : c = Append(i, k)
      /\ \A c \in spawned : \E k \in readable \ cyclic : c = Append(i, k) /\ c[Len(c)] = k
  <2>. HIDE DEF readable
  <2>1. \A k \in Nat : Append(i, k) \in channels <=> k \in readable
    BY <1>1, <1>3, KeyAppend
  <2>2. \A k \in Nat : Append(i, k) \in spawned <=> k \in readable \ cyclic
    BY <1>1, <1>3, KeyAppend
  <2>3. \A j \in Keys, k \in Nat : j # i => Append(j, k) \notin channels
    BY <1>1, <1>3, KeyAppend
  <2>4. channels \subseteq Keys \ {<<>>} /\ i \notin channels
    <3>1. \A k \in Nat : Append(i, k) \in Keys /\ Append(i, k) # <<>> /\ Append(i, k) # i
      BY <1>1, KeyAppend
    <3>2. QED
      BY <1>3, <3>1
  <2>5. \A k \in Nat : Append(i, k)[Len(Append(i, k))] = k
    BY <1>1 DEF Keys
  <2>6. QED
    BY <1>3, <2>1, <2>2, <2>3, <2>4, <2>5
<1>. HIDE DEF channels, spawned
<1>7. /\ ~Imported(task[i]) /\ Elaborates(task[i]) /\ ~Elaborated(task[i]) /\ ~Ended(task[i])
      /\ Imported(t) /\ Elaborates(t) /\ ~Elaborated(t) /\ ~Ended(t) /\ ~Reported(t) /\ ~Sound(t)
  BY <1>1, <1>5 DEF Imported, Elaborates, Elaborated, Ended, Reported, Sound
<1>8. channels \cap DOMAIN chan = {} /\ spawned \cap DOMAIN task = {}
  <2>1. \A k \in Nat : Append(i, k) \notin DOMAIN chan
    BY <1>1, <1>7 DEF CompilerInv, ChannelsAre
  <2>2. channels \cap DOMAIN chan = {}
    <3>1. \A c \in channels : \E k \in Nat : c = Append(i, k)
      BY <1>3, <1>6
    <3>2. QED
      BY <2>1, <3>1
  <2>3. \A c \in DOMAIN task : c \in DOMAIN chan \/ c = <<>>
    BY DEF CompilerInv, TreeIs
  <2>4. QED
    BY <1>6, <2>2, <2>3
<1>9. /\ DOMAIN chan' = DOMAIN chan \cup channels
      /\ \A j \in DOMAIN chan : chan'[j] = chan[j]
      /\ \A c \in spawned : chan'[c] = Pending
      /\ \A c \in channels \ spawned : chan'[c] = ImportCycle(rd)
  BY <1>4, <1>6, <1>8
<1>10. /\ DOMAIN task' = DOMAIN task \cup spawned
       /\ task'[i] = t
       /\ \A j \in DOMAIN task : j # i => task'[j] = task[j]
       /\ \A c \in spawned : \E k \in readable \ cyclic :
            c = Append(i, k) /\ task'[c] = NewTask(Imports(f)[k], rd)
  BY <1>4, <1>5, <1>6, <1>8
<1>11. /\ emitted \in Level /\ emitted <= emitted' /\ input \in Inputs
       /\ \A g \in Files : cache[g].tag = "ready" => cache'[g] = cache[g]
  BY <1>4 DEF CompilerInv, CompilerType, Level, None, Error
<1>12. \A c \in spawned : \E k \in readable \ cyclic :
         /\ c = Append(i, k) /\ c \in Keys /\ c # <<>> /\ c # i
         /\ task'[c] \in Task /\ task'[c].pc = "start"
         /\ task'[c].file = Imports(f)[k] /\ task'[c].rd = rd
         /\ task'[c].next = 1 /\ task'[c].level = None /\ task'[c].cyc = <<>>
         /\ task'[c].env = {} /\ task'[c].res = Pending
         /\ ~Imported(task'[c]) /\ ~Elaborates(task'[c]) /\ ~Elaborated(task'[c])
         /\ ~Ended(task'[c]) /\ ~Reported(task'[c])
  BY <1>2, <1>3, <1>6, <1>10, NewTaskFacts
<1>13. /\ PathTo(task[i].rd, f) /\ (\A g \in Files : ImportedBy(f, g) => PathTo(rd, g))
       /\ \A n \in 1..(Len(rd) - 1) : ImportedBy(rd[n], rd[n + 1])
       /\ rd # <<>> /\ rd[1] = Main
  <2>1. PathTo(task[i].rd, f)
    BY <1>1 DEF TaskIs, CycleTask, f
  <2>2. \A n \in 1..(Len(rd) - 1) : ImportedBy(rd[n], rd[n + 1])
    BY <1>1, <1>2, <2>1, SMTT(60) DEF PathTo
  <2>3. rd # <<>> /\ rd[1] = Main
    <3>1. Len(rd) > 0
      BY <1>1, <1>2
    <3>2. CASE task[i].rd = <<>>
      <4>1. Len(task[i].rd) = 0 /\ f = Main
        BY <2>1, <3>2 DEF PathTo
      <4>2. Len(rd) = 1 /\ rd[Len(rd)] = f
        BY <1>2, <4>1
      <4>3. rd[1] = Main
        BY <4>1, <4>2
      <4>4. QED
        BY <1>2, <3>1, <4>3
    <3>3. CASE task[i].rd # <<>>
      BY <1>1, <1>2, <2>1, <3>3 DEF PathTo
    <3>4. QED
      BY <1>2, <3>1, <3>2, <3>3
  <2>4. \A g \in Files : ImportedBy(f, g) => PathTo(rd, g)
    BY <1>2, <2>2, <2>3 DEF PathTo
  <2>5. QED
    BY <2>1, <2>2, <2>3, <2>4
<1>14. CompilerType'
  <2>1. task' \in [DOMAIN task' -> Task]
    <3>1. \A j \in DOMAIN task' : task'[j] \in Task
      BY <1>10, <1>12, TaskFacts
    <3>2. QED
      BY <1>4, <3>1
  <2>2. chan' \in [DOMAIN chan' -> Message]
    <3>1. Pending \in Message /\ ImportCycle(rd) \in Message
      BY <1>2 DEF Pending, ImportCycle, Message
    <3>2. \A j \in DOMAIN chan' : chan'[j] \in Message
      BY <1>9, <3>1 DEF CompilerInv, CompilerType
    <3>3. QED
      BY <1>4, <3>2
  <2>3. QED
    BY <1>4, <2>1, <2>2 DEF CompilerInv, CompilerType
<1>15. ChannelsAre'
  <2>1. <<>> \notin DOMAIN chan' /\ DOMAIN chan' \subseteq Keys
    BY <1>6, <1>9 DEF CompilerInv, ChannelsAre
  <2>2. ASSUME NEW k \in Nat
        PROVE  Append(i, k) \in DOMAIN chan' <=>
                 /\ i \in DOMAIN task'
                 /\ Imported(task'[i])
                 /\ k \in DOMAIN Imports(task'[i].file)
                 /\ Imports(task'[i].file)[k] \notin input.missing
    <3>1. Append(i, k) \notin DOMAIN chan
      BY <1>1, <1>7 DEF CompilerInv, ChannelsAre
    <3>2. QED
      BY <1>5, <1>6, <1>7, <1>9, <1>10, <3>1 DEF readable
  <2>3. ASSUME NEW j \in Keys, j # i, NEW k \in Nat
        PROVE  Append(j, k) \in DOMAIN chan' <=>
                 /\ j \in DOMAIN task'
                 /\ Imported(task'[j])
                 /\ k \in DOMAIN Imports(task'[j].file)
                 /\ Imports(task'[j].file)[k] \notin input.missing
    <3>1. Append(j, k) \in DOMAIN chan' <=> Append(j, k) \in DOMAIN chan
      BY <1>6, <1>9, <2>3
    <3>2. Append(j, k) \in DOMAIN chan <=>
            /\ j \in DOMAIN task
            /\ Imported(task[j])
            /\ k \in DOMAIN Imports(task[j].file)
            /\ Imports(task[j].file)[k] \notin input.missing
      BY DEF CompilerInv, ChannelsAre
    <3>3. CASE j \in DOMAIN task
      BY <1>10, <2>3, <3>1, <3>2, <3>3
    <3>4. CASE j \in spawned
      BY <1>8, <1>12, <3>1, <3>2, <3>4
    <3>5. CASE j \notin DOMAIN task'
      BY <1>10, <3>1, <3>2, <3>5
    <3>6. QED
      BY <1>10, <3>3, <3>4, <3>5
  <2>4. QED
    BY <1>4, <2>1, <2>2, <2>3 DEF ChannelsAre, Imports
<1>16. TreeIs'
  <2>1. <<>> \in DOMAIN task' /\ DOMAIN task' \subseteq {<<>>} \cup DOMAIN chan'
    BY <1>6, <1>9, <1>10 DEF CompilerInv, TreeIs
  <2>2. ASSUME NEW j \in DOMAIN task', NEW a \in Keys, Above(a, j)
        PROVE  a \in DOMAIN task'
    <3>1. CASE j \in DOMAIN task
      BY <1>10, <2>2, <3>1 DEF CompilerInv, TreeIs
    <3>2. CASE j \in spawned
      <4>1. PICK k \in readable : j = Append(i, k)
        BY <1>6, <3>2
      <4>2. k \in Nat
        BY <1>3, <4>1
      <4>3. a = i \/ Above(a, i)
        BY <1>1, <2>2, <4>1, <4>2, AboveAppend
      <4>4. QED
        BY <1>10, <4>3 DEF CompilerInv, TreeIs
    <3>3. QED
      BY <1>10, <3>1, <3>2
  <2>3. /\ task'[<<>>].file = Main
        /\ task'[<<>>].rd = <<>>
        /\ task'[<<>>].pc # "wait"
        /\ Ended(task'[<<>>]) => task'[<<>>].env # {}
    BY <1>5, <1>7, <1>10, ZenonT(60) DEF CompilerInv, TreeIs, f
  <2>4. ASSUME NEW a \in DOMAIN task', NEW k \in Nat, Append(a, k) \in DOMAIN task'
        PROVE  /\ task'[Append(a, k)].file = Imports(task'[a].file)[k]
               /\ task'[Append(a, k)].rd = Append(task'[a].rd, task'[a].file)
    <3>1. CASE a = i
      <4>1. Append(i, k) \notin DOMAIN task
        <5>1. Append(i, k) \notin DOMAIN chan
          BY <1>1, <1>7 DEF CompilerInv, ChannelsAre
        <5>2. QED
          BY <1>1, <5>1, KeyAppend DEF CompilerInv, TreeIs
      <4>2. Append(i, k) \in spawned
        BY <1>10, <2>4, <3>1, <4>1
      <4>3. task'[Append(i, k)].file = Imports(f)[k] /\ task'[Append(i, k)].rd = rd
        <5>1. PICK l \in readable \ cyclic :
                /\ Append(i, k) = Append(i, l)
                /\ task'[Append(i, k)].file = Imports(f)[l] /\ task'[Append(i, k)].rd = rd
          BY <1>12, <4>2
        <5>2. k = l
          BY <1>1, <1>3, <5>1, KeyAppend
        <5>3. QED
          BY <5>1, <5>2
      <4>4. QED
        BY <1>5, <1>10, <3>1, <4>3 DEF rd
    <3>2. CASE a # i
      <4>1. a \in Keys
        BY <1>12, <1>10, TaskFacts
      <4>2. Append(a, k) \in DOMAIN task
        BY <1>6, <1>10, <2>4, <3>2, <4>1
      <4>3. Append(a, k) \in DOMAIN chan
        BY <4>1, <4>2, KeyAppend DEF CompilerInv, TreeIs
      <4>4. a \in DOMAIN task
        BY <4>1, <4>3 DEF CompilerInv, ChannelsAre
      <4>5. task'[a] = task[a]
        BY <1>10, <3>2, <4>4
      <4>6. /\ task[Append(a, k)].file = Imports(task[a].file)[k]
            /\ task[Append(a, k)].rd = Append(task[a].rd, task[a].file)
        BY <4>2, <4>4 DEF CompilerInv, TreeIs
      <4>7. /\ task'[Append(a, k)].file = task[Append(a, k)].file
            /\ task'[Append(a, k)].rd = task[Append(a, k)].rd
        BY <1>5, <1>10, <4>2 DEF f
      <4>8. QED
        BY <4>5, <4>6, <4>7
    <3>3. QED
      BY <3>1, <3>2
  <2>5. input' = input
    BY <1>4
  <2>6. \A a \in DOMAIN task' : Imports(task[a].file)' = Imports(task'[a].file)
    BY <2>5 DEF Imports
  <2>7. \A a \in DOMAIN task', k \in Nat : Append(a, k) \in DOMAIN task' =>
          /\ task'[Append(a, k)].file = Imports(task[a].file)'[k]
          /\ task'[Append(a, k)].rd = Append(task'[a].rd, task'[a].file)
    BY <2>4, <2>6
  <2>8. QED
    BY <2>1, <2>2, <2>3, <2>7 DEF TreeIs
<1>17. /\ \A j \in DOMAIN task :
            /\ task'[j].file = task[j].file /\ task'[j].env = task[j].env
            /\ Elaborates(task'[j]) <=> Elaborates(task[j])
            /\ Elaborated(task'[j]) <=> Elaborated(task[j])
            /\ task'[j].pc = "wait" <=> task[j].pc = "wait"
       /\ \A c \in spawned : ~Elaborates(task'[c]) /\ ~Elaborated(task'[c]) /\ task'[c].pc # "wait"
  BY <1>1, <1>5, <1>7, <1>10, <1>12 DEF f
<1>18. OwnersAre'
  <2>1. \A a \in DOMAIN task' :
          /\ Elaborates(task'[a]) => cache[task'[a].file].tag = "busy"
          /\ Elaborated(task'[a]) => cache[task'[a].file] = Ready(task'[a].env)
    BY <1>10, <1>17 DEF CompilerInv, OwnersAre
  <2>2. \A a, b \in DOMAIN task' :
          /\ Elaborates(task'[a]) \/ Elaborated(task'[a])
          /\ Elaborates(task'[b]) \/ Elaborated(task'[b])
          /\ task'[a].file = task'[b].file
          => a = b
    BY <1>10, <1>17 DEF CompilerInv, OwnersAre
  <2>3. \A g \in Files : cache[g].tag # "none" =>
          \E a \in DOMAIN task' : task'[a].file = g /\ (Elaborates(task'[a]) \/ Elaborated(task'[a]))
    BY <1>10, <1>17 DEF CompilerInv, OwnersAre
  <2>4. QED
    BY <1>4, <2>1, <2>2, <2>3 DEF OwnersAre
<1>19. WaitersAre'
  <2>1. \A j \in DOMAIN task' : task'[j].pc = "wait" =>
          j \in DOMAIN task /\ task[j].pc = "wait" /\ task'[j].file = task[j].file
    BY <1>10, <1>17
  <2>2. \A j \in DOMAIN task : task[j].pc = "wait" =>
          j \in DOMAIN task' /\ task'[j].pc = "wait" /\ task'[j].file = task[j].file
    BY <1>10, <1>17
  <2>3. WaitersAre /\ cache' = cache
    BY <1>4 DEF CompilerInv
  <2>4. QED
    BY <2>1, <2>2, <2>3 DEF WaitersAre
<1>20. TasksAre'
  <2>1. ASSUME NEW j \in DOMAIN task, j # i PROVE TaskIs(j, task[j])'
    <3>1. task[j] \in Task /\ TaskIs(j, task[j]) /\ task'[j] = task[j] /\ j \in Keys
          /\ Imports(task[j].file) \in Seq(Files)
      BY <1>10, <2>1, TaskFacts
    <3>2. j # <<>> => chan'[j] = chan[j]
      BY <1>9 DEF CompilerInv, TreeIs
    <3>3. \A k \in DOMAIN Imports(task[j].file) : Append(j, k) \in DOMAIN chan' =>
            Append(j, k) \in DOMAIN chan /\ chan'[Append(j, k)] = chan[Append(j, k)]
      <4>1. DOMAIN Imports(task[j].file) \subseteq Nat
        BY <3>1
      <4>2. \A k \in DOMAIN Imports(task[j].file) : Append(j, k) \notin channels
        BY <1>6, <2>1, <3>1, <4>1
      <4>3. QED
        BY <1>9, <4>2
    <3>4. QED
      BY <1>4, <1>11, <3>1, <3>2, <3>3, TaskKept
  <2>2. TaskIs(i, t)'
    <3>1. FreshTask(t)'
      BY <1>5 DEF FreshTask
    <3>2. AnswerTask(i, t)'
      <4>1. i # <<>> => chan[i] = Pending /\ chan'[i] = chan[i]
        BY <1>1, <1>9 DEF TaskIs, AnswerTask, CompilerInv, TreeIs
      <4>2. QED
        BY <1>5, <1>7, <4>1 DEF AnswerTask, Pending
    <3>3. ImportsTask(i, t)'
      <4>1. t.next = 1 /\ \A k \in DOMAIN Imports(f) : ~(k < 1)
        BY <1>1, <1>5 DEF TaskIs, FreshTask
      <4>2. QED
        BY <1>3, <1>4, <1>5, <1>7, <4>1 DEF ImportsTask, Imports
    <3>4. ParsedTask(t)'
      BY <1>1, <1>4, <1>5 DEF TaskIs, ParsedTask, f
    <3>5. EnvironmentTask(t)' /\ CycleTask(t)'
      BY <1>1, <1>4, <1>5 DEF TaskIs, EnvironmentTask, CycleTask, FreshTask, Needed, PathTo, RealCycle, ImportedBy, Imports, f
    <3>6. QED
      BY <3>1, <3>2, <3>3, <3>4, <3>5 DEF TaskIs
  <2>3. ASSUME NEW c \in spawned PROVE TaskIs(c, task[c])'
    <3>1. PICK k \in readable \ cyclic :
         /\ c = Append(i, k)
         /\ task'[c].pc = "start"
         /\ task'[c].file = Imports(f)[k] /\ task'[c].rd = rd
         /\ task'[c].next = 1 /\ task'[c].level = None /\ task'[c].cyc = <<>>
         /\ task'[c].env = {} /\ task'[c].res = Pending
         /\ ~Imported(task'[c]) /\ ~Ended(task'[c])
      BY <1>12
    <3>2. Imports(f)[k] \in Files /\ ImportedBy(f, Imports(f)[k])
      BY <1>3, <3>1
    <3>3. FreshTask(task[c])'
      BY <3>1 DEF FreshTask
    <3>4. AnswerTask(c, task[c])'
      BY <1>9, <3>1 DEF AnswerTask
    <3>5. ImportsTask(c, task[c])' /\ ParsedTask(task[c])'
      BY <3>1 DEF ImportsTask, ParsedTask
    <3>6. EnvironmentTask(task[c])'
      <4>1. f \in Needed
        BY <1>1 DEF TaskIs, EnvironmentTask, f
      <4>2. Imports(f)[k] \in Needed
        BY <3>2, <4>1, NeededClosed
      <4>3. QED
        BY <1>4, <3>1, <4>2 DEF EnvironmentTask, Needed
    <3>7. CycleTask(task[c])'
      <4>1. PathTo(rd, Imports(f)[k])
        BY <1>13, <3>2
      <4>2. Pending.tag # "cycle"
        BY DEF Pending
      <4>3. \A r, g : PathTo(r, g) => PathTo(r, g)'
        BY <1>4 DEF PathTo, ImportedBy, Imports
      <4>4. QED
        BY <3>1, <4>1, <4>2, <4>3 DEF CycleTask
    <3>8. QED
      BY <3>3, <3>4, <3>5, <3>6, <3>7 DEF TaskIs
  <2>4. QED
    BY <1>10, <2>1, <2>2, <2>3 DEF TasksAre
<1>21. AnswersAre'
  <2>1. ASSUME NEW c \in channels \ spawned PROVE RealCycle(rd)
    <3>1. PICK k \in readable : c = Append(i, k)
      BY <1>6, <2>1
    <3>2. k \in cyclic
      BY <1>3, <1>6, <2>1, <3>1
    <3>3. Among(Imports(f)[k], rd) /\ ImportedBy(f, Imports(f)[k])
      BY <1>3, <3>2
    <3>4. \E n \in DOMAIN rd : ImportedBy(rd[Len(rd)], rd[n])
      BY <1>2, <3>3 DEF Among
    <3>5. rd # <<>> /\ rd[1] = Main /\ \A n \in 1..(Len(rd) - 1) : ImportedBy(rd[n], rd[n + 1])
      BY <1>13
    <3>6. QED
      BY <3>4, <3>5 DEF RealCycle
  <2>2. Pending.tag # "cycle" /\ ImportCycle(rd).tag = "cycle" /\ ImportCycle(rd).cyc = rd
    BY DEF Pending, ImportCycle
  <2>3. \A j \in DOMAIN chan' :
          /\ j \notin DOMAIN task' => chan'[j].tag = "cycle"
          /\ chan'[j].tag = "cycle" => RealCycle(chan'[j].cyc)
    BY <1>9, <1>10, <2>1, <2>2 DEF CompilerInv, AnswersAre
  <2>4. \A c : RealCycle(c) => RealCycle(c)'
    BY <1>4 DEF RealCycle, ImportedBy, Imports
  <2>5. QED
    BY <2>3, <2>4 DEF AnswersAre
<1>22. CleanBelow'
  <2>1. SUFFICES ASSUME AllBare, NEW a \in DOMAIN task', NEW j \in DOMAIN task',
                        Above(a, j), Sound(task'[a])
                 PROVE  task'[j].pc = "done" /\ task'[j].res.tag = "ok"
    BY <1>4, ZenonT(60) DEF CleanBelow, AllBare
  <2>2. a \in DOMAIN task /\ a # i /\ task'[a] = task[a] /\ a \in Keys
    BY <1>7, <1>10, <1>12, <2>1, TaskFacts DEF Sound
  <2>3. ~Above(a, i)
    BY <1>1, <2>1, <2>2 DEF CompilerInv, CleanBelow
  <2>4. j \notin spawned
    <3>. SUFFICES ASSUME j \in spawned PROVE FALSE
      OBVIOUS
    <3>1. PICK k \in readable : j = Append(i, k)
      BY <1>6
    <3>2. QED
      BY <1>1, <1>3, <2>1, <2>2, <2>3, <3>1, AboveAppend
  <2>5. j \in DOMAIN task /\ j # i /\ task'[j] = task[j]
    BY <1>10, <2>1, <2>3, <2>4
  <2>6. QED
    BY <2>1, <2>2, <2>5 DEF CompilerInv, CleanBelow
<1>23. CleanAcyclic'
  <2>1. Clean' = Clean
    BY <1>7, <1>10, <1>17 DEF Clean
  <2>2. QED
    BY <1>4, <2>1 DEF CompilerInv, CleanAcyclic, AllBare, ImportedBy, Imports
<1>24. ExitIs'
  <2>1. task'[<<>>].pc # "exported"
    BY <1>1, <1>5, <1>10, TaskFacts DEF CompilerInv, TreeIs
  <2>2. QED
    BY <1>1, <1>4, <2>1, TaskFacts
<1>25. QED
  BY <1>14, <1>15, <1>16, <1>18, <1>19, <1>20, <1>21, <1>22, <1>23, <1>24 DEF CompilerInv

-----------------------------------------------------------------------------
(* No task is ever given a file that cannot be read. *)
LEMMA FileReadable ==
  ASSUME CompilerInv, NEW i \in DOMAIN task
  PROVE  task[i].file \notin input.missing
<1>1. i \in Keys /\ input \in Inputs
  BY TaskFacts DEF CompilerInv, CompilerType
<1>2. CASE i = <<>>
  BY <1>1, <1>2, CompilerAssumption DEF CompilerInv, TreeIs
<1>3. CASE i # <<>>
  <2>1. PICK j \in Keys, k \in Nat : i = Append(j, k)
    BY <1>1, <1>3, KeySplit
  <2>2. i \in DOMAIN chan
    BY <1>3 DEF CompilerInv, TreeIs
  <2>3. j \in DOMAIN task /\ Imports(task[j].file)[k] \notin input.missing
    BY <2>1, <2>2 DEF CompilerInv, ChannelsAre
  <2>4. task[i].file = Imports(task[j].file)[k]
    BY <2>1, <2>3 DEF CompilerInv, TreeIs
  <2>5. QED
    BY <2>3, <2>4
<1>4. QED
  BY <1>2, <1>3

(* The imports of a file elaborated without a cycle are ready. *)
LEMMA CleanImportsReady ==
  ASSUME CompilerInv, AllBare,
         NEW i \in DOMAIN task, Reported(task[i]), task[i].cyc = <<>>,
         NEW g \in Files, ImportedBy(task[i].file, g), g \notin input.missing
  PROVE  cache[g].tag = "ready" /\ cache[g].env \subseteq task[i].env
<1>. DEFINE f == task[i].file
<1>1. /\ TaskIs(i, task[i]) /\ task[i] \in Task /\ i \in Keys
      /\ Imports(f) \in Seq(Files) /\ f \in Files
  BY TaskFacts DEF Task
<1>2. PICK k \in DOMAIN Imports(f) : Imports(f)[k] = g
  BY DEF ImportedBy, Among
<1>. HIDE DEF f
<1>3. k \in Nat /\ k \notin input.wrapped[f]
  BY <1>1, <1>2 DEF AllBare
<1>4. Imported(task[i])
  BY DEF Reported, Imported
<1>5. k < task[i].next
  <2>1. Len(Imports(f)) < task[i].next /\ task[i].next \in Nat /\ Len(Imports(f)) \in Nat
    BY <1>1, <1>4 DEF TaskIs, ImportsTask, Task, f
  <2>2. k <= Len(Imports(f))
    BY <1>1, <1>2
  <2>3. QED
    BY <1>3, <2>1, <2>2
<1>. DEFINE c == Append(i, k)
            m == chan[c]
<1>6. c \in DOMAIN chan
  BY <1>1, <1>2, <1>3, <1>4 DEF CompilerInv, ChannelsAre, f
<1>7. Heard(task[i], m)
  BY <1>1, <1>2, <1>3, <1>4, <1>5, <1>6 DEF TaskIs, ImportsTask, f
<1>8. m.tag = "ok"
  <2>1. m.tag \in {"pending", "ok", "cycle"}
    BY <1>6 DEF CompilerInv, CompilerType, Message
  <2>2. QED
    BY <1>7, <2>1 DEF Heard
<1>9. cache[g] = Ready(m.env)
  BY <1>2, <1>6, <1>8, AnswerFacts DEF f
<1>10. m.env \subseteq task[i].env
  BY <1>7, <1>8 DEF Heard
<1>11. QED
  BY <1>9, <1>10 DEF Ready

LEMMA FinishKeeps ==
  ASSUME CompilerInv, NEW i \in DOMAIN task, Finish(i)
  PROVE  CompilerInv'
<1>. DEFINE f == task[i].file
            q == cache[f].senders
            W == {j \in DOMAIN task : Among(j, q)}
<1>1. /\ task[i] \in Task /\ TaskIs(i, task[i]) /\ i \in Keys
      /\ task[i].pc = "finish" /\ exit = "running"
      /\ f \in Files
      /\ task[i].env \subseteq Files /\ task[i].cyc \in Seq(Files)
  BY TaskFacts DEF Finish, At, Task
<1>2. PICK R : R = Result(i)
  OBVIOUS
<1>3. /\ R \in Message /\ R.tag \in {"ok", "cycle"}
      /\ R.tag = "ok" <=> task[i].cyc = <<>>
      /\ R.tag = "ok" => R.env = task[i].env
      /\ R.tag = "cycle" => RealCycle(R.cyc)
  <2>1. CASE task[i].cyc = <<>>
    <3>1. R = Ok(task[i].env)
      BY <1>2, <2>1 DEF Result
    <3>2. QED
      BY <1>1, <2>1, <3>1 DEF Ok, Message
  <2>2. CASE task[i].cyc # <<>>
    <3>1. R = ImportCycle(task[i].cyc) /\ RealCycle(task[i].cyc)
      BY <1>1, <1>2, <2>2 DEF Result, TaskIs, CycleTask
    <3>2. QED
      BY <1>1, <2>2, <3>1 DEF ImportCycle, Message
  <2>3. QED
    BY <2>1, <2>2
<1>4. /\ task' = [j \in DOMAIN task |->
                   IF j = i \/ Among(j, q) THEN [task[j] EXCEPT !.pc = "send", !.res = R] ELSE task[j]]
      /\ cache' = [cache EXCEPT ![f] = Ready(task[i].env)]
      /\ UNCHANGED <<input, chan, emitted, exit>>
  BY <1>2 DEF Finish
<1>5. \A u \in Task : LET v == [u EXCEPT !.pc = "send", !.res = R] IN
         /\ v \in Task
         /\ v.pc = "send" /\ v.file = u.file /\ v.rd = u.rd /\ v.env = u.env
         /\ v.cyc = u.cyc /\ v.res = R /\ v.next = u.next /\ v.level = u.level
  BY <1>3 DEF Task
<1>. HIDE DEF q, f
<1>6. Elaborates(task[i]) /\ ~Elaborated(task[i]) /\ Imported(task[i]) /\ Reported(task[i])
  BY <1>1 DEF Elaborates, Elaborated, Ended, Imported, Reported
<1>7. f \in task[i].env /\ task[i].env \subseteq Needed
  BY <1>1, <1>6 DEF TaskIs, ImportsTask, EnvironmentTask, f
<1>8. cache[f].tag = "busy"
  BY <1>6 DEF CompilerInv, OwnersAre, f
<1>9. \A j \in W : /\ task[j].pc = "wait" /\ task[j].file = f /\ j # <<>> /\ j # i
                   /\ task[j] \in Task /\ TaskIs(j, task[j])
                   /\ task[j].env = {} /\ task[j].cyc = <<>>
  <2>. SUFFICES ASSUME NEW j \in W
       PROVE  /\ task[j].pc = "wait" /\ task[j].file = f /\ j # <<>> /\ j # i
              /\ task[j] \in Task /\ TaskIs(j, task[j])
              /\ task[j].env = {} /\ task[j].cyc = <<>>
    OBVIOUS
  <2>1. task[j].pc = "wait" /\ task[j].file = f
    BY <1>1 DEF CompilerInv, WaitersAre, Among, q
  <2>2. j # <<>> /\ j # i
    BY <1>1, <2>1 DEF CompilerInv, TreeIs
  <2>3. task[j] \in Task /\ TaskIs(j, task[j])
    BY TaskFacts
  <2>4. task[j].env = {} /\ task[j].cyc = <<>>
    BY <2>1, <2>3 DEF TaskIs, FreshTask
  <2>5. QED
    BY <2>1, <2>2, <2>3, <2>4
<1>10. \A j \in DOMAIN task : task[j].pc = "wait" /\ task[j].file = f => j \in W
  BY DEF CompilerInv, WaitersAre, q
<1>11. DOMAIN task' = DOMAIN task /\ \A j \in DOMAIN task : j # i /\ j \notin W => task'[j] = task[j]
  BY <1>4
<1>12. PICK t \in Task :
      /\ task'[i] = t
      /\ t.pc = "send" /\ t.file = f /\ t.rd = task[i].rd /\ t.env = task[i].env
      /\ t.cyc = task[i].cyc /\ t.res = R /\ t.next = task[i].next /\ t.level = task[i].level
  BY <1>1, <1>4, <1>5 DEF f
<1>13. \A j \in W :
         /\ task'[j] \in Task
         /\ task'[j].pc = "send" /\ task'[j].file = f /\ task'[j].rd = task[j].rd
         /\ task'[j].env = {} /\ task'[j].cyc = <<>> /\ task'[j].res = R
         /\ task'[j].next = task[j].next /\ task'[j].level = task[j].level
  BY <1>4, <1>5, <1>9, ZenonT(60)
<1>. HIDE DEF W
<1>14. W \subseteq DOMAIN task
  BY DEF W
<1>15. /\ cache \in [Files -> FileCache] /\ Ready(task[i].env) \in FileCache
       /\ emitted \in Level /\ emitted <= emitted' /\ input \in Inputs
  <2>1. Ready(task[i].env) \in FileCache
    BY <1>1 DEF FileCache, Ready
  <2>2. emitted' = emitted
    BY <1>4
  <2>3. QED
    BY <2>1, <2>2 DEF CompilerInv, CompilerType, Level, None, Error
<1>16. /\ cache' \in [Files -> FileCache]
       /\ cache'[f] = Ready(task[i].env)
       /\ \A g \in Files : g # f => cache'[g] = cache[g]
       /\ \A g \in Files : cache[g].tag = "ready" => cache'[g] = cache[g]
  BY <1>1, <1>4, <1>8, <1>15
<1>17. /\ Imported(t) /\ Elaborated(t) /\ ~Elaborates(t) /\ Reported(t) /\ Ended(t)
       /\ Sound(t) <=> Sound(task[i])
  BY <1>1, <1>6, <1>7, <1>12 DEF Imported, Elaborated, Elaborates, Reported, Ended, Sound
<1>18. \A j \in W :
         /\ ~Imported(task'[j]) /\ ~Elaborated(task'[j]) /\ ~Elaborates(task'[j])
         /\ ~Reported(task'[j]) /\ Ended(task'[j])
         /\ ~Imported(task[j]) /\ ~Elaborated(task[j]) /\ ~Elaborates(task[j])
         /\ ~Reported(task[j])
  BY <1>9, <1>13 DEF Imported, Elaborated, Elaborates, Reported, Ended
<1>19. \A j \in DOMAIN task : j # i /\ (Elaborates(task[j]) \/ Elaborated(task[j])) => task[j].file # f
  BY <1>6 DEF CompilerInv, OwnersAre, f
<1>20. /\ \A j \in DOMAIN task :
            /\ task'[j].file = task[j].file /\ task[j].file \in Files
            /\ task'[j].rd = task[j].rd
            /\ task'[j].env = task[j].env
            /\ task'[j].cyc = task[j].cyc
            /\ Imported(task'[j]) <=> Imported(task[j])
            /\ Reported(task'[j]) <=> Reported(task[j])
       /\ \A j \in DOMAIN task : j # i =>
            /\ Elaborates(task'[j]) <=> Elaborates(task[j])
            /\ Elaborated(task'[j]) <=> Elaborated(task[j])
  <2>. SUFFICES ASSUME NEW j \in DOMAIN task
       PROVE  /\ task'[j].file = task[j].file /\ task[j].file \in Files
              /\ task'[j].rd = task[j].rd
              /\ task'[j].env = task[j].env
              /\ task'[j].cyc = task[j].cyc
              /\ Imported(task'[j]) <=> Imported(task[j])
              /\ Reported(task'[j]) <=> Reported(task[j])
              /\ j # i =>
                 /\ Elaborates(task'[j]) <=> Elaborates(task[j])
                 /\ Elaborated(task'[j]) <=> Elaborated(task[j])
    OBVIOUS
  <2>1. task[j].file \in Files
    BY TaskFacts DEF Task
  <2>2. CASE j = i
    BY <1>6, <1>12, <1>17, <2>1, <2>2 DEF f
  <2>3. CASE j \in W
    BY <1>9, <1>13, <1>18, <2>1, <2>3
  <2>4. CASE j # i /\ j \notin W
    BY <1>11, <2>1, <2>4
  <2>5. QED
    BY <2>2, <2>3, <2>4
<1>21. CompilerType'
  <2>1. \A j \in DOMAIN task : task'[j] \in Task
    BY <1>11, <1>12, <1>13, TaskFacts
  <2>2. task' \in [DOMAIN task' -> Task]
    BY <1>4, <2>1
  <2>3. QED
    BY <1>4, <1>16, <2>2 DEF CompilerInv, CompilerType
<1>22. ChannelsAre' /\ TreeIs'
  <2>1. task'[<<>>].pc # "wait" /\ (Ended(task'[<<>>]) => task'[<<>>].env # {})
    <3>1. <<>> \in DOMAIN task /\ task[<<>>].pc # "wait" /\ (Ended(task[<<>>]) => task[<<>>].env # {})
      BY DEF CompilerInv, TreeIs
    <3>2. <<>> \notin W
      BY <1>9
    <3>3. CASE i = <<>>
      BY <1>7, <1>12, <3>3
    <3>4. CASE i # <<>>
      BY <1>11, <3>1, <3>2, <3>4
    <3>5. QED
      BY <3>3, <3>4
  <2>2. input' = input /\ DOMAIN chan' = DOMAIN chan
    BY <1>4
  <2>3. QED
    BY <1>11, <1>20, <2>1, <2>2, TreeKept DEF CompilerInv
<1>23. OwnersAre'
  <2>1. \A a, b \in DOMAIN task :
          /\ Elaborates(task'[a]) \/ Elaborated(task'[a])
          /\ Elaborates(task'[b]) \/ Elaborated(task'[b])
          /\ task'[a].file = task'[b].file
          => a = b
    <3>1. \A a \in DOMAIN task : Elaborates(task'[a]) \/ Elaborated(task'[a]) =>
            Elaborates(task[a]) \/ Elaborated(task[a])
      BY <1>6, <1>20
    <3>2. QED
      BY <1>20, <3>1 DEF CompilerInv, OwnersAre
  <2>2. ASSUME NEW a \in DOMAIN task
        PROVE  /\ Elaborates(task'[a]) => cache'[task'[a].file].tag = "busy"
               /\ Elaborated(task'[a]) => cache'[task'[a].file] = Ready(task'[a].env)
    <3>1. CASE a = i
      BY <1>12, <1>16, <1>17, <3>1
    <3>2. CASE a # i
      <4>1. /\ Elaborates(task[a]) => cache[task[a].file].tag = "busy"
            /\ Elaborated(task[a]) => cache[task[a].file] = Ready(task[a].env)
        BY DEF CompilerInv, OwnersAre
      <4>2. /\ task'[a].file = task[a].file /\ task'[a].env = task[a].env /\ task[a].file \in Files
            /\ Elaborates(task'[a]) <=> Elaborates(task[a])
            /\ Elaborated(task'[a]) <=> Elaborated(task[a])
        BY <1>20, <3>2
      <4>3. Elaborates(task[a]) \/ Elaborated(task[a]) => cache'[task[a].file] = cache[task[a].file]
        BY <1>16, <1>19, <3>2, <4>2
      <4>4. QED
        BY <4>1, <4>2, <4>3
    <3>3. QED
      BY <3>1, <3>2
  <2>3. ASSUME NEW g \in Files, cache'[g].tag # "none"
        PROVE  \E a \in DOMAIN task : task'[a].file = g /\ (Elaborates(task'[a]) \/ Elaborated(task'[a]))
    <3>1. CASE g = f
      BY <1>12, <1>17, <3>1
    <3>2. CASE g # f
      <4>1. PICK a \in DOMAIN task : task[a].file = g /\ (Elaborates(task[a]) \/ Elaborated(task[a]))
        BY <1>16, <2>3, <3>2 DEF CompilerInv, OwnersAre
      <4>2. a # i
        BY <3>2, <4>1 DEF f
      <4>3. QED
        BY <1>20, <4>1, <4>2
    <3>3. QED
      BY <3>1, <3>2
  <2>4. QED
    BY <1>11, <2>1, <2>2, <2>3 DEF OwnersAre
<1>24. WaitersAre'
  <2>1. ASSUME NEW a \in DOMAIN task, task'[a].pc = "wait"
        PROVE  cache'[task'[a].file].tag = "busy" /\ Among(a, cache'[task'[a].file].senders)
    <3>1. a # i /\ a \notin W
      BY <1>12, <1>13, <2>1
    <3>2. task'[a] = task[a] /\ task[a].file # f /\ task[a].file \in Files
      BY <1>10, <1>11, <1>20, <2>1, <3>1
    <3>3. QED
      BY <1>16, <2>1, <3>2 DEF CompilerInv, WaitersAre
  <2>2. ASSUME NEW g \in Files, NEW n \in DOMAIN cache'[g].senders
        PROVE  /\ cache'[g].senders[n] \in DOMAIN task
               /\ task'[cache'[g].senders[n]].pc = "wait"
               /\ task'[cache'[g].senders[n]].file = g
    <3>1. g # f
      <4>1. Ready(task[i].env).senders = <<>>
        BY DEF Ready
      <4>2. QED
        BY <1>16, <2>2, <4>1
    <3>2. cache'[g] = cache[g]
      BY <1>16, <3>1
    <3>3. /\ cache[g].senders[n] \in DOMAIN task
          /\ task[cache[g].senders[n]].pc = "wait"
          /\ task[cache[g].senders[n]].file = g
      BY <3>2 DEF CompilerInv, WaitersAre
    <3>4. QED
      BY <1>1, <1>9, <1>11, <3>1, <3>2, <3>3
  <2>3. QED
    BY <1>11, <2>1, <2>2 DEF WaitersAre
<1>25. TasksAre'
  <2>1. ASSUME NEW j \in DOMAIN task, j # i, j \notin W PROVE TaskIs(j, task[j])'
    <3>1. task[j] \in Task /\ TaskIs(j, task[j]) /\ task'[j] = task[j]
      BY <1>11, <2>1, TaskFacts
    <3>2. QED
      BY <1>4, <1>15, <1>16, <3>1, TaskKept
  <2>2. ASSUME NEW j \in W PROVE TaskIs(j, task[j])'
    <3>1. FreshTask(task[j])'
      BY <1>13 DEF FreshTask
    <3>2. AnswerTask(j, task[j])'
      <4>1. chan'[j] = Pending
        BY <1>4, <1>9 DEF TaskIs, AnswerTask
      <4>2. QED
        BY <1>3, <1>13, <1>16, <1>18, <4>1 DEF AnswerTask, Ready, Pending
    <3>3. ImportsTask(j, task[j])' /\ ParsedTask(task[j])'
      BY <1>13, <1>18 DEF ImportsTask, ParsedTask
    <3>4. EnvironmentTask(task[j])'
      BY <1>4, <1>9, <1>13, ZenonT(60) DEF TaskIs, EnvironmentTask, Needed
    <3>5. CycleTask(task[j])'
      <4>1. CycleTask(task[j])
        BY <1>9 DEF TaskIs
      <4>2. PathTo(task'[j].rd, task'[j].file)
        BY <1>9, <1>13, <4>1 DEF CycleTask
      <4>3. \A r, g : PathTo(r, g) => PathTo(r, g)'
        BY <1>4 DEF PathTo, ImportedBy, Imports
      <4>4. \A c : RealCycle(c) => RealCycle(c)'
        BY <1>4 DEF RealCycle, ImportedBy, Imports
      <4>5. QED
        BY <1>3, <1>13, <4>2, <4>3, <4>4 DEF CycleTask
    <3>6. QED
      BY <3>1, <3>2, <3>3, <3>4, <3>5 DEF TaskIs
  <2>3. TaskIs(i, t)'
    <3>1. FreshTask(t)'
      BY <1>12 DEF FreshTask
    <3>2. AnswerTask(i, t)'
      <4>1. i # <<>> => chan'[i] = Pending
        BY <1>1, <1>4 DEF TaskIs, AnswerTask
      <4>2. QED
        BY <1>3, <1>12, <1>16, <4>1 DEF AnswerTask, Pending
    <3>3. ImportsTask(i, t)' /\ ParsedTask(t)'
      BY <1>1, <1>4, <1>6, <1>12, <1>17, ZenonT(60) DEF TaskIs, ImportsTask, ParsedTask, Heard, Imports, f
    <3>4. EnvironmentTask(t)'
      <4>1. \A g \in t.env : cache'[g].tag = "ready" /\ cache'[g].env \subseteq t.env
        <5>. SUFFICES ASSUME NEW g \in t.env PROVE cache'[g].tag = "ready" /\ cache'[g].env \subseteq t.env
          OBVIOUS
        <5>1. CASE g = f
          BY <1>12, <1>16, <5>1 DEF Ready
        <5>2. CASE g # f
          <6>1. cache[g].tag = "ready" /\ cache[g].env \subseteq t.env
            BY <1>1, <1>12, <5>2 DEF TaskIs, EnvironmentTask, f
          <6>2. g \in Files
            BY <1>1, <1>12
          <6>3. QED
            BY <1>16, <6>1, <6>2
        <5>3. QED
          BY <5>1, <5>2
      <4>2. Needed' = Needed
        BY <1>4 DEF Needed
      <4>3. QED
        BY <1>7, <1>12, <4>1, <4>2 DEF EnvironmentTask
    <3>5. CycleTask(t)'
      <4>1. PathTo(t.rd, t.file) /\ (t.cyc # <<>> => RealCycle(t.cyc))
        BY <1>1, <1>12 DEF TaskIs, CycleTask, f
      <4>2. \A r, g : PathTo(r, g) => PathTo(r, g)'
        BY <1>4 DEF PathTo, ImportedBy, Imports
      <4>3. \A c : RealCycle(c) => RealCycle(c)'
        BY <1>4 DEF RealCycle, ImportedBy, Imports
      <4>4. QED
        BY <1>3, <1>12, <4>1, <4>2, <4>3 DEF CycleTask
    <3>6. QED
      BY <3>1, <3>2, <3>3, <3>4, <3>5 DEF TaskIs
  <2>4. QED
    BY <1>11, <1>12, <2>1, <2>2, <2>3 DEF TasksAre
<1>26. AnswersAre'
  <2>1. \A c : RealCycle(c) => RealCycle(c)'
    BY <1>4 DEF RealCycle, ImportedBy, Imports
  <2>2. chan' = chan
    BY <1>4
  <2>3. QED
    BY <1>11, <2>1, <2>2 DEF CompilerInv, AnswersAre
<1>27. CleanBelow'
  <2>1. SUFFICES ASSUME AllBare, NEW a \in DOMAIN task, NEW j \in DOMAIN task,
                        Above(a, j), Sound(task'[a])
                 PROVE  task'[j].pc = "done" /\ task'[j].res.tag = "ok"
    <3>1. input' = input
      BY <1>4
    <3>2. QED
      BY <1>11, <3>1 DEF CleanBelow, AllBare
  <2>2. Sound(task[a])
    BY <1>20, <2>1 DEF Sound
  <2>3. task[j].pc = "done" /\ task[j].res.tag = "ok"
    BY <2>1, <2>2 DEF CompilerInv, CleanBelow
  <2>4. j # i /\ j \notin W
    BY <1>1, <1>9, <2>3
  <2>5. QED
    BY <1>11, <2>3, <2>4
<1>28. CleanAcyclic'
  <2>1. SUFFICES ASSUME AllBare, NEW S \in SUBSET Clean', S # {}
                 PROVE  \E a \in S : \A b \in S : ~ImportedBy(a, b)
    BY <1>4 DEF CleanAcyclic, AllBare, ImportedBy, Imports
  <2>2. S \subseteq Files
    BY DEF Clean
  <2>3. \A a \in S : a # f => a \in Clean
    <3>. SUFFICES ASSUME NEW a \in S, a # f PROVE a \in Clean
      OBVIOUS
    <3>1. PICK j \in DOMAIN task : task'[j].file = a /\ Elaborated(task'[j]) /\ task'[j].cyc = <<>>
      BY <1>11 DEF Clean
    <3>2. j # i
      BY <1>12, <3>1
    <3>3. task[j].file = a /\ Elaborated(task[j]) /\ task[j].cyc = <<>>
      BY <1>20, <3>1, <3>2
    <3>4. QED
      BY <2>2, <3>3 DEF Clean
  <2>4. \A a \in Clean : ImportedBy(a, f) => cache[f].tag = "ready"
    <3>. SUFFICES ASSUME NEW a \in Clean, ImportedBy(a, f) PROVE cache[f].tag = "ready"
      OBVIOUS
    <3>1. PICK j \in DOMAIN task : task[j].file = a /\ Elaborated(task[j]) /\ task[j].cyc = <<>>
      BY DEF Clean
    <3>2. f \notin input.missing
      BY <1>1, FileReadable DEF f
    <3>3. QED
      BY <1>1, <2>1, <3>1, <3>2, CleanImportsReady DEF Reported
  <2>5. CASE f \notin S
    BY <2>1, <2>3, <2>5 DEF CompilerInv, CleanAcyclic
  <2>6. CASE f \in S
    <3>1. task[i].cyc = <<>>
      <4>1. PICK j \in DOMAIN task : task'[j].file = f /\ Elaborated(task'[j]) /\ task'[j].cyc = <<>>
        BY <1>11, <2>6 DEF Clean
      <4>2. j = i
        BY <1>19, <1>20, <4>1
      <4>3. QED
        BY <1>12, <4>1, <4>2
    <3>2. ~ImportedBy(f, f)
      <4>1. f \notin input.missing
        BY <1>1, FileReadable DEF f
      <4>2. ImportedBy(f, f) => cache[f].tag = "ready"
        BY <1>1, <1>6, <2>1, <3>1, <4>1, CleanImportsReady DEF f
      <4>3. QED
        BY <1>8, <4>2
    <3>3. CASE S \ {f} = {}
      BY <2>6, <3>2, <3>3
    <3>4. CASE S \ {f} # {}
      <4>1. S \ {f} \in SUBSET Clean
        BY <2>3
      <4>2. PICK a \in S \ {f} : \A b \in S \ {f} : ~ImportedBy(a, b)
        BY <2>1, <3>4, <4>1 DEF CompilerInv, CleanAcyclic
      <4>3. ~ImportedBy(a, f)
        BY <1>1, <1>8, <2>4, <4>1, <4>2
      <4>4. QED
        BY <4>2, <4>3
    <3>5. QED
      BY <3>3, <3>4
  <2>7. QED
    BY <2>5, <2>6
<1>29. ExitIs'
  <2>1. <<>> \in DOMAIN task /\ <<>> \notin W /\ task[<<>>].pc # "exported"
    BY <1>1, <1>9, TaskFacts DEF CompilerInv, TreeIs
  <2>2. task'[<<>>].pc # "exported"
    BY <1>11, <1>12, <2>1
  <2>3. QED
    BY <1>1, <1>4, <2>2, TaskFacts
<1>30. QED
  BY <1>21, <1>22, <1>23, <1>24, <1>25, <1>26, <1>27, <1>28, <1>29 DEF CompilerInv

-----------------------------------------------------------------------------
LEMMA CompilerStarts ==
  ASSUME Init
  PROVE  CompilerInv
<1>. DEFINE t == NewTask(Main, <<>>)
<1>1. /\ input \in Inputs /\ Main \in Files
      /\ task = [i \in {<<>>} |-> t]
      /\ chan = [i \in {} |-> Pending]
      /\ cache = [f \in Files |-> NotStarted]
      /\ emitted = None /\ exit = "running"
  BY CompilerAssumption DEF Init
<1>2. /\ t \in Task
      /\ t.pc = "start" /\ t.file = Main /\ t.rd = <<>> /\ t.next = 1 /\ t.level = None
      /\ t.cyc = <<>> /\ t.env = {} /\ t.res = Pending
      /\ ~Imported(t) /\ ~Elaborates(t) /\ ~Ended(t) /\ ~Elaborated(t) /\ ~Reported(t)
  <2>1. <<>> \in Seq(Files)
    OBVIOUS
  <2>2. QED
    BY <1>1, <2>1, NewTaskFacts
<1>. HIDE DEF t
<1>3. DOMAIN task = {<<>>} /\ task[<<>>] = t /\ DOMAIN chan = {}
  BY <1>1
<1>4. NotStarted \in FileCache /\ NotStarted.tag = "none" /\ DOMAIN NotStarted.senders = {}
  BY DEF NotStarted, FileCache
<1>5. \A f \in Files : cache[f] = NotStarted
  BY <1>1
<1>6. CompilerType
  <2>1. None \in Level
    BY DEF Level, None, Error
  <2>2. task \in [DOMAIN task -> Task] /\ chan \in [DOMAIN chan -> Message]
    BY <1>1, <1>2
  <2>3. cache \in [Files -> FileCache]
    BY <1>1, <1>4
  <2>4. QED
    BY <1>1, <2>1, <2>2, <2>3 DEF CompilerType
<1>7. ChannelsAre
  <2>1. \A i \in Keys, k \in Nat : ~(i \in DOMAIN task /\ Imported(task[i]))
    BY <1>2, <1>3
  <2>2. QED
    BY <1>3, <2>1 DEF ChannelsAre
<1>8. TreeIs
  <2>1. \A i \in Keys : ~Above(i, <<>>)
    BY DEF Above, Keys
  <2>2. \A k \in Nat : Append(<<>>, k) # <<>>
    <3>1. <<>> \in Keys
      BY DEF Keys
    <3>2. QED
      BY <3>1, KeyAppend
  <2>3. QED
    BY <1>2, <1>3, <2>1, <2>2 DEF TreeIs
<1>9. OwnersAre
  BY <1>2, <1>3, <1>4, <1>5 DEF OwnersAre
<1>10. WaitersAre
  BY <1>2, <1>3, <1>4, <1>5 DEF WaitersAre
<1>11. TasksAre
  <2>1. FreshTask(t) /\ AnswerTask(<<>>, t) /\ ImportsTask(<<>>, t) /\ ParsedTask(t)
    BY <1>2 DEF FreshTask, AnswerTask, ImportsTask, ParsedTask
  <2>2. EnvironmentTask(t)
    BY <1>2, MainNeeded DEF EnvironmentTask
  <2>3. CycleTask(t)
    BY <1>2 DEF CycleTask, PathTo, Pending
  <2>4. QED
    BY <1>3, <2>1, <2>2, <2>3 DEF TasksAre, TaskIs
<1>12. AnswersAre
  BY <1>3 DEF AnswersAre
<1>13. CleanBelow
  BY <1>2, <1>3 DEF CleanBelow, Sound
<1>14. CleanAcyclic
  <2>1. Clean = {}
    BY <1>2, <1>3 DEF Clean
  <2>2. QED
    BY <2>1 DEF CleanAcyclic
<1>15. ExitIs
  BY <1>1, <1>2, <1>3 DEF ExitIs
<1>16. QED
  BY <1>6, <1>7, <1>8, <1>9, <1>10, <1>11, <1>12, <1>13, <1>14, <1>15 DEF CompilerInv

LEMMA CompilerSteps ==
  ASSUME CompilerInv, [Next]_vars
  PROVE  CompilerInv'
<1>1. ASSUME NEW i \in DOMAIN task, TaskStep(i)
      PROVE  CompilerInv'
  <2>1. CASE Start(i)
    <3>1. CASE StartReady(i)
      <4>1. i # <<>>
        BY <3>1, MainIsFirst DEF StartReady, At, CompilerInv, TreeIs
      <4>2. QED
        BY <3>1, <4>1, StartReadyKeeps
    <3>2. QED
      BY <2>1, <3>1, StartFirstKeeps, StartWaitsKeeps DEF Start
  <2>2. QED
    BY <1>1, <2>1, ParseKeeps, ImportKeeps, AwaitKeeps, ReportKeeps, FinishKeeps, SendKeeps DEF TaskStep
<1>2. CASE UNCHANGED vars
  <2>1. UNCHANGED <<input, task, chan, cache, emitted, exit>>
    BY <1>2 DEF vars
  <2>2. CompilerType' /\ ChannelsAre' /\ TreeIs' /\ OwnersAre' /\ WaitersAre' /\ ExitIs'
    BY <2>1 DEF CompilerInv, CompilerType, ChannelsAre, TreeIs, OwnersAre, WaitersAre, ExitIs, Threshold, Imports
  <2>3. TasksAre'
    <3>. SUFFICES ASSUME NEW j \in DOMAIN task PROVE TaskIs(j, task[j])'
      BY <2>1 DEF TasksAre
    <3>1. task[j] \in Task /\ TaskIs(j, task[j]) /\ input \in Inputs /\ emitted \in Level
      BY TaskFacts DEF CompilerInv, CompilerType
    <3>2. emitted <= emitted'
      BY <2>1, <3>1 DEF Level, None, Error
    <3>3. QED
      BY <2>1, <3>1, <3>2, TaskKept
  <2>4. AnswersAre' /\ CleanBelow' /\ CleanAcyclic'
    BY <2>1 DEF CompilerInv, AnswersAre, CleanBelow, CleanAcyclic, Clean, AllBare, RealCycle, ImportedBy, Imports
  <2>5. QED
    BY <2>2, <2>3, <2>4 DEF CompilerInv
<1>3. QED
  BY <1>1, <1>2, MainKeeps DEF Next

(* The invariant holds of every run of the compiler. *)
THEOREM CompilerInductive == Spec => []CompilerInv
<1>1. Init => CompilerInv
  BY CompilerStarts
<1>2. CompilerInv /\ [Next]_vars => CompilerInv'
  BY CompilerSteps
<1>3. QED
  BY <1>1, <1>2, PTL DEF Spec

LEMMA OneElaboratorHolds ==
  ASSUME CompilerInv
  PROVE  OneElaborator
<1>1. \A i \in DOMAIN task : Elaborates(task[i]) <=> Elaborating(i)
  BY DEF Elaborates, Elaborating
<1>2. ASSUME NEW f \in Files
      PROVE  cache[f].tag = "busy" <=> \E i \in DOMAIN task : task[i].file = f /\ Elaborating(i)
  <2>1. cache[f].tag = "busy" => \E i \in DOMAIN task : task[i].file = f /\ Elaborates(task[i])
    <3>1. \A e : Ready(e).tag = "ready"
      BY DEF Ready
    <3>2. QED
      BY <3>1 DEF CompilerInv, OwnersAre
  <2>2. QED
    BY <1>1, <2>1 DEF CompilerInv, OwnersAre
<1>3. \A f \in Files : \A i, j \in DOMAIN task :
        (task[i].file = f /\ task[j].file = f /\ Elaborating(i) /\ Elaborating(j)) => i = j
  BY <1>1 DEF CompilerInv, OwnersAre
<1>4. \A i \in DOMAIN task : task[i].pc = "wait" =>
        cache[task[i].file].tag = "busy" /\ Among(i, cache[task[i].file].senders)
  BY DEF CompilerInv, WaitersAre
<1>5. QED
  BY <1>2, <1>3, <1>4 DEF OneElaborator

(* No file is elaborated twice, none is abandoned, no wait is lost: the     *)
(* lock of a file makes one task its owner and the senders left there are   *)
(* just the tasks that wait.                                                *)
THEOREM CompilerOneElaborator == Spec => []OneElaborator
<1>1. CompilerInv => OneElaborator
  BY OneElaboratorHolds
<1>2. QED
  BY <1>1, CompilerInductive, PTL

(* Once the output is written everything Main needs was elaborated without  *)
(* meeting a cycle, and its environment holds all of it.                    *)
LEMMA ExportedFacts ==
  ASSUME CompilerInv, task[<<>>].pc = "exported", AllBare
  PROVE  /\ Elaborated(task[<<>>]) /\ cache[Main] = Ready(task[<<>>].env)
         /\ cache[Main] = Ready(task[<<>>].res.env)
         /\ \A f \in Files : cache[f].tag = "ready" =>
              /\ f \in Clean
              /\ \A g \in Files : ImportedBy(f, g) /\ g \notin input.missing =>
                   cache[g].tag = "ready" /\ cache[g].env \subseteq cache[f].env
<1>. DEFINE m == <<>>
<1>1. /\ m \in DOMAIN task /\ m \in Keys /\ TaskIs(m, task[m])
      /\ task[m].file = Main
      /\ task[m].res.tag = "ok"
  BY TaskFacts DEF CompilerInv, TreeIs, ExitIs
<1>2. Elaborated(task[m]) /\ Ended(task[m])
  BY <1>1 DEF CompilerInv, TreeIs, Elaborated, Ended
<1>3. cache[Main] = Ready(task[m].env) /\ cache[Main] = Ready(task[m].res.env)
  BY <1>1, <1>2 DEF CompilerInv, OwnersAre, TaskIs, AnswerTask
<1>4. Sound(task[m])
  BY <1>1, <1>2 DEF TaskIs, AnswerTask, Sound, Reported
<1>5. ASSUME NEW i \in DOMAIN task, Elaborates(task[i]) \/ Elaborated(task[i])
      PROVE  Elaborated(task[i]) /\ task[i].cyc = <<>>
  <2>1. CASE i = m
    BY <1>2, <1>4, <2>1 DEF Sound
  <2>2. CASE i # m
    <3>1. Above(m, i)
      <4>1. i \in Keys
        BY TaskFacts
      <4>2. QED
        BY <2>2, <4>1 DEF Above, Keys
    <3>2. task[i].pc = "done" /\ task[i].res.tag = "ok"
      BY <1>1, <1>4, <3>1 DEF CompilerInv, CleanBelow
    <3>3. Elaborated(task[i]) /\ Ended(task[i])
      BY <1>5, <3>2 DEF Elaborates, Ended
    <3>4. TaskIs(i, task[i])
      BY TaskFacts
    <3>5. QED
      BY <3>2, <3>3, <3>4 DEF TaskIs, AnswerTask
  <2>3. QED
    BY <2>1, <2>2
<1>6. ASSUME NEW f \in Files, cache[f].tag = "ready"
      PROVE  /\ f \in Clean
             /\ \A g \in Files : ImportedBy(f, g) /\ g \notin input.missing =>
                  cache[g].tag = "ready" /\ cache[g].env \subseteq cache[f].env
  <2>1. PICK i \in DOMAIN task : task[i].file = f /\ (Elaborates(task[i]) \/ Elaborated(task[i]))
    BY <1>6 DEF CompilerInv, OwnersAre
  <2>2. Elaborated(task[i]) /\ task[i].cyc = <<>> /\ Reported(task[i])
    BY <1>5, <2>1 DEF Reported
  <2>3. cache[f] = Ready(task[i].env)
    BY <2>1, <2>2 DEF CompilerInv, OwnersAre
  <2>4. cache[f].env = task[i].env
    BY <2>3 DEF Ready
  <2>5. QED
    BY <2>1, <2>2, <2>4, CleanImportsReady DEF Clean
<1>7. QED
  BY <1>2, <1>3, <1>6

(* A set of files that holds Main and what its files import holds all that  *)
(* is needed.                                                               *)
LEMMA NeededIsLeast ==
  ASSUME NEW S \in SUBSET Files, Main \in S,
         \A f \in S : \A g \in Files : ImportedBy(f, g) => g \in S
  PROVE  Needed \subseteq S
<1>1. Closed(input.imports, S, {})
  BY DEF Closed, ImportedBy, Imports
<1>2. QED
  BY <1>1 DEF Needed, Reached

(* What is needed was elaborated, if it could be read. *)
LEMMA ExportedIsNeeded ==
  ASSUME CompilerInv, task[<<>>].pc = "exported", AllBare, Needed \cap input.missing = {}
  PROVE  task[<<>>].res.env = Needed /\ AcyclicFrom(input.imports, Main)
<1>. DEFINE E == task[<<>>].env
<1>1. /\ Elaborated(task[<<>>]) /\ cache[Main] = Ready(E)
      /\ cache[Main] = Ready(task[<<>>].res.env)
  BY ExportedFacts
<1>2. task[<<>>].res.env = E
  BY <1>1 DEF Ready
<1>3. /\ <<>> \in DOMAIN task /\ task[<<>>].file = Main
      /\ task[<<>>] \in Task /\ TaskIs(<<>>, task[<<>>])
  BY TaskFacts DEF CompilerInv, TreeIs
<1>4. E \subseteq Files /\ E \subseteq Needed /\ Main \in E
  BY <1>1, <1>3 DEF Task, TaskIs, EnvironmentTask, ImportsTask, Imported, Reported
<1>5. \A g \in E : cache[g].tag = "ready" /\ cache[g].env \subseteq E
  <2>1. task[<<>>].pc # "finish"
    BY <1>1 DEF Elaborated, Ended
  <2>2. QED
    BY <1>3, <2>1 DEF TaskIs, EnvironmentTask
<1>6. \A f \in Files : cache[f].tag = "ready" => f \in cache[f].env
  <2>. SUFFICES ASSUME NEW f \in Files, cache[f].tag = "ready" PROVE f \in cache[f].env
    OBVIOUS
  <2>1. PICK i \in DOMAIN task : task[i].file = f /\ (Elaborates(task[i]) \/ Elaborated(task[i]))
    BY DEF CompilerInv, OwnersAre
  <2>2. Elaborated(task[i]) /\ cache[f] = Ready(task[i].env)
    BY <2>1 DEF CompilerInv, OwnersAre
  <2>3. TaskIs(i, task[i])
    BY TaskFacts
  <2>4. f \in task[i].env
    BY <2>1, <2>2, <2>3 DEF TaskIs, ImportsTask, Imported, Reported
  <2>5. QED
    BY <2>2, <2>4 DEF Ready
<1>. HIDE DEF E
<1>7. \A f \in E : \A g \in Files : ImportedBy(f, g) => g \in E
  <2>. SUFFICES ASSUME NEW f \in E, NEW g \in Files, ImportedBy(f, g) PROVE g \in E
    OBVIOUS
  <2>1. f \in Files /\ cache[f].tag = "ready" /\ cache[f].env \subseteq E
    BY <1>4, <1>5
  <2>2. g \notin input.missing
    BY <1>4, NeededClosed
  <2>3. cache[g].tag = "ready" /\ cache[g].env \subseteq cache[f].env
    BY <2>1, <2>2, ExportedFacts
  <2>4. QED
    BY <1>6, <2>1, <2>3
<1>8. Needed \subseteq E
  BY <1>4, <1>7, NeededIsLeast
<1>9. AcyclicFrom(input.imports, Main)
  <2>1. E \subseteq Clean
    BY <1>4, <1>5, ExportedFacts
  <2>2. \A T \in SUBSET Needed : T # {} => \E f \in T : \A g \in T : ~ImportedBy(f, g)
    BY <1>8, <2>1 DEF CompilerInv, CleanAcyclic
  <2>3. QED
    BY <2>2 DEF AcyclicFrom, Needed, ImportedBy, Imports
<1>10. QED
  BY <1>2, <1>4, <1>8, <1>9

(* The output holds what the imports reach, no less although files are      *)
(* elaborated once for whoever comes first, and no more.                    *)
THEOREM CompilerOutputIsComplete == Spec => []OutputIsComplete
<1>1. CompilerInv => OutputIsComplete
  BY ExportedIsNeeded DEF OutputIsComplete
<1>2. QED
  BY <1>1, CompilerInductive, PTL

LEMMA CompilerSeesCyclesHolds ==
  ASSUME CompilerInv
  PROVE  CompilerSeesCycles
  BY ExportedIsNeeded DEF CompilerInv, AnswersAre, CompilerSeesCycles

(* Every cycle reported is one, and no output is written for a project with *)
(* a cycle.                                                                 *)
THEOREM CompilerCyclesAreSeen == Spec => []CompilerSeesCycles
<1>1. CompilerInv => CompilerSeesCycles
  BY CompilerSeesCyclesHolds
<1>2. QED
  BY <1>1, CompilerInductive, PTL

LEMMA ExitZeroMeansCleanHolds ==
  ASSUME CompilerInv
  PROVE  ExitZeroMeansClean
<1>. SUFFICES ASSUME exit = "0", AllBare
              PROVE  \A f \in Needed :
                       /\ f \notin input.missing
                       /\ cache[f].tag = "ready"
                       /\ input.parse[f] < Threshold
                       /\ input.elab[f] < Threshold
  BY DEF ExitZeroMeansClean
<1>1. emitted < Threshold /\ task[<<>>].pc = "exported"
  BY DEF CompilerInv, ExitIs
<1>2. emitted \in Level /\ input \in Inputs /\ Threshold <= Error
  BY DEF CompilerInv, CompilerType, Threshold, Warning, Error
<1>3. emitted < Error /\ Threshold \in Level
  BY <1>1, <1>2, InputFacts DEF Level, None, Error
<1>4. ASSUME NEW f \in Files, cache[f].tag = "ready"
      PROVE  /\ input.parse[f] < Threshold
             /\ input.elab[f] < Threshold
             /\ \A g \in Files : ImportedBy(f, g) => g \notin input.missing /\ cache[g].tag = "ready"
  <2>1. PICK i \in DOMAIN task : task[i].file = f /\ (Elaborates(task[i]) \/ Elaborated(task[i]))
    BY <1>4 DEF CompilerInv, OwnersAre
  <2>2. Elaborated(task[i]) /\ Imported(task[i]) /\ Reported(task[i])
    BY <1>4, <2>1 DEF CompilerInv, OwnersAre, Imported, Reported
  <2>3. /\ TaskIs(i, task[i]) /\ task[i] \in Task /\ i \in Keys
        /\ Imports(f) \in Seq(Files)
    BY <2>1, TaskFacts
  <2>4. /\ task[i].level <= emitted /\ Len(Imports(f)) < task[i].next
        /\ task[i].level \in {input.elab[f], Error}
        /\ input.parse[f] <= emitted
    BY <2>1, <2>2, <2>3 DEF TaskIs, ImportsTask, ParsedTask
  <2>5. task[i].level < Error /\ task[i].level \in Level
    BY <1>2, <1>3, <2>3, <2>4 DEF Task, Level, None, Error
  <2>6. input.elab[f] < Threshold /\ input.parse[f] < Threshold
    <3>1. task[i].level = input.elab[f]
      BY <2>4, <2>5 DEF Error
    <3>2. input.elab[f] <= emitted
      BY <2>4, <3>1
    <3>3. input.elab[f] \in Level /\ input.parse[f] \in Level
      BY <1>2, InputFacts
    <3>4. QED
      BY <1>1, <1>2, <1>3, <2>4, <3>2, <3>3 DEF Level, None, Error
  <2>7. ASSUME NEW g \in Files, ImportedBy(f, g)
        PROVE  g \notin input.missing /\ cache[g].tag = "ready"
    <3>1. PICK k \in DOMAIN Imports(f) : Imports(f)[k] = g
      BY <2>7 DEF ImportedBy, Among
    <3>2. k \in Nat /\ k < task[i].next /\ k \notin input.wrapped[f]
      <4>1. task[i].next \in Nat /\ Len(Imports(f)) \in Nat /\ k \in 1..Len(Imports(f))
        BY <2>3, <3>1 DEF Task
      <4>2. QED
        BY <2>4, <4>1 DEF AllBare
    <3>3. g \notin input.missing
      BY <2>1, <2>2, <2>3, <2>5, <3>1 DEF TaskIs, ImportsTask, Error
    <3>. DEFINE m == chan[Append(i, k)]
    <3>4. Append(i, k) \in DOMAIN chan
      BY <2>1, <2>2, <2>3, <3>1, <3>2, <3>3 DEF CompilerInv, ChannelsAre
    <3>5. Heard(task[i], m)
      BY <2>1, <2>2, <2>3, <3>1, <3>2, <3>4 DEF TaskIs, ImportsTask
    <3>6. m.tag = "ok"
      <4>1. m.tag \in {"pending", "ok", "cycle"}
        BY <3>4 DEF CompilerInv, CompilerType, Message
      <4>2. QED
        BY <2>5, <3>5, <4>1 DEF Heard, Error
    <3>7. cache[g] = Ready(m.env)
      BY <2>1, <3>1, <3>4, <3>6, AnswerFacts
    <3>8. QED
      BY <3>3, <3>7 DEF Ready
  <2>8. QED
    BY <2>6, <2>7
<1>. DEFINE S == {f \in Files : cache[f].tag = "ready" /\ f \notin input.missing}
<1>5. Main \in S
  <2>1. Main \in Files /\ Main \notin input.missing
    BY <1>2, CompilerAssumption
  <2>2. task[<<>>].file = Main /\ Elaborated(task[<<>>]) /\ <<>> \in DOMAIN task
    BY <1>1 DEF CompilerInv, TreeIs, Elaborated, Ended
  <2>3. cache[Main].tag = "ready"
    <3>1. cache[Main] = Ready(task[<<>>].env)
      BY <2>2 DEF CompilerInv, OwnersAre
    <3>2. QED
      BY <3>1 DEF Ready
  <2>4. QED
    BY <2>1, <2>3
<1>6. \A f \in S : \A g \in Files : ImportedBy(f, g) => g \in S
  BY <1>4
<1>7. Needed \subseteq S
  BY <1>5, <1>6, NeededIsLeast
<1>8. QED
  BY <1>4, <1>7

(* Exit code 0 is given only if every file Main depends on was read and     *)
(* elaborated without an error that counts.                                 *)
THEOREM CompilerExitZeroMeansClean == Spec => []ExitZeroMeansClean
<1>1. CompilerInv => ExitZeroMeansClean
  BY ExitZeroMeansCleanHolds
<1>2. QED
  BY <1>1, CompilerInductive, PTL

=============================================================================
