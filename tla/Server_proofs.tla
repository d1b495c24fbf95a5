---------------------------- MODULE Server_proofs ----------------------------
(***************************************************************************)
(* What holds of every run of the elaboration jobs, whatever the order of  *)
(* the jobs: no wait is lost, whatever the client does and the files        *)
(* import; and what is known of the files at rest is up to date, if the     *)
(* client waits for rest and no file is reached by two ways.                *)
(***************************************************************************)
EXTENDS Server, FiniteSetTheorems, FunctionTheorems, TLAPS

Fields == {"path", "send", "rd", "cancel", "pc", "v", "version", "imports", "old_deps",
           "deps", "recv", "next", "toks", "cyc", "canceled", "res"}
IsList(s) == Len(s) \in Nat /\ s = [k \in 1..Len(s) |-> s[k]]
IsAnswer(r) == r.tag \in {"ok", "cycle", "canceled"}

(* A job by itself: the answers to its imports are numbered as the imports  *)
(* are, and it has a result once it has checked for changes.                *)
JobIs(u) ==
  /\ DOMAIN u = Fields
  /\ u.path \in Files
  /\ u.pc \in {"start", "lock", "wait", "notify", "end"} \cup AtWork
  /\ u.imports \in Seq(Files)
  /\ IsList(u.recv)
  /\ \A k \in DOMAIN u.recv : u.recv[k] = Pending \/ IsAnswer(u.recv[k])
  /\ u.pc \in {"start", "lock", "wait", "read"} => u.next = 1 /\ u.recv = <<>>
  /\ u.pc = "import" => u.next \in 1..Len(u.imports) /\ Len(u.recv) = u.next - 1
  /\ u.pc = "elab" => u.next \in Nat \ {0} /\ Len(u.recv) = Len(u.imports)
  /\ u.pc = "await" => u.next \in DOMAIN u.recv /\ Len(u.recv) = Len(u.imports)
  /\ u.pc \in {"diag", "update", "publish", "notify", "end"} => IsAnswer(u.res)

(* What is known of file f: if it is in progress there is a job at work on  *)
(* it, and just the jobs that wait for it have left a sender.               *)
ParsedIs(js, f, p) ==
  /\ p.tag \in {"none", "busy", "ready"}
  /\ p.tag = "ready" => IsAnswer(p.res)
  /\ p.tag = "busy" =>
       /\ p = InProgress(p.version, p.job, p.senders)
       /\ p.job \in DOMAIN js /\ js[p.job].path = f /\ js[p.job].pc \in AtWork
       /\ IsList(p.senders)
       /\ \A k \in DOMAIN p.senders :
            p.senders[k] \in DOMAIN js /\ js[p.senders[k]].path = f /\ js[p.senders[k]].pc = "wait"

WaitsFor(p, i) == p.tag = "busy" /\ \E k \in DOMAIN p.senders : p.senders[k] = i

Consistent(js, ps, loaded) ==
  /\ IsFiniteSet(DOMAIN js)
  /\ \A i \in DOMAIN js : JobIs(js[i]) /\ (js[i].pc # "start" => js[i].path \in loaded)
  /\ ps = [f \in Files |-> ps[f]]
  /\ \A f \in Files : ParsedIs(js, f, ps[f])
  /\ \A i \in DOMAIN js : js[i].pc = "wait" => WaitsFor(ps[js[i].path], i)

(* Who will answer for an import not answered yet. *)
Answerable(js) ==
  \A i \in DOMAIN js : \A k \in DOMAIN js[i].recv :
    js[i].recv[k] = Pending => \E j \in DOMAIN js : js[j].send = <<i, k>>

FilesAre ==
  /\ project \in Projects
  /\ vfs = [f \in Loaded |-> vfs[f]] /\ Loaded \subseteq Files
  /\ \A f \in Loaded : vfs[f].text \in Seq(Files)
  /\ downstream \in [Files -> SUBSET Files]
  /\ \A f \in Files : IsFiniteSet(downstream[f])

ServerInv == FilesAre /\ Consistent(jobs, parsed, Loaded) /\ Answerable(jobs)

-----------------------------------------------------------------------------
(* There are enough free numbers. *)
LEMMA EnoughNumbers ==
  ASSUME NEW js, IsFiniteSet(DOMAIN js), NEW new, IsFiniteSet(new)
  PROVE  Injection(new, Free(js, new)) # {}
<1>. DEFINE A == {i \in DOMAIN js : js[i].send # <<>>}
            T == {js[i].send[1] : i \in A}
            c == Cardinality(InUse(js))
            d == Cardinality(new)
<1>1. IsFiniteSet(T)
  <2>1. IsFiniteSet(A)
    BY FS_Subset
  <2>2. [i \in A |-> js[i].send[1]] \in Surjection(A, T)
    BY DEF Surjection
  <2>3. QED
    BY <2>1, <2>2, FS_Surjection
<1>2. IsFiniteSet(InUse(js)) /\ c \in Nat /\ d \in Nat
  <2>1. IsFiniteSet(InUse(js))
    BY <1>1, FS_Union DEF InUse
  <2>2. QED
    BY <2>1, FS_CardinalityType
<1>. HIDE DEF A, T, c, d
<1>3. PICK e \in Nat : e = c + d
  BY <1>2
<1>4. PICK F : F = Free(js, new) /\ F = (1..e) \ InUse(js)
  BY <1>3 DEF Free, c, d
<1>5. IsFiniteSet(F) /\ Cardinality(F) \in Nat /\ d <= Cardinality(F)
  <2>. DEFINE taken == (1..e) \cap InUse(js)
  <2>1. IsFiniteSet(1..e) /\ Cardinality(1..e) = e
    <3>1. e \in Int /\ 1 \in Int /\ (IF 1 > e THEN 0 ELSE e - 1 + 1) = e
      BY <1>3
    <3>2. QED
      BY <3>1, FS_Interval
  <2>2. IsFiniteSet((1..e) \ InUse(js)) /\ Cardinality((1..e) \ InUse(js)) = Cardinality(1..e) - Cardinality(taken)
    BY <2>1, FS_Difference
  <2>3. Cardinality(taken) <= c /\ IsFiniteSet(taken)
    BY <1>2, FS_Subset DEF c
  <2>4. Cardinality(taken) \in Nat /\ Cardinality(F) \in Nat
    BY <1>4, <2>2, <2>3, FS_CardinalityType
  <2>. HIDE DEF taken
  <2>5. QED
    BY <1>2, <1>3, <1>4, <2>1, <2>2, <2>3, <2>4
<1>6. ExistsInjection(new, 1..d)
  <2>1. ExistsBijection(1..d, new)
    BY FS_CardinalityType DEF d
  <2>2. ExistsBijection(new, 1..d)
    BY <2>1, Fun_ExistsBijSymmetric
  <2>3. QED
    BY <2>2 DEF ExistsBijection, ExistsInjection, Bijection
<1>7. ExistsInjection(1..d, 1..Cardinality(F))
  <2>1. \A k \in 1..d : k \in 1..Cardinality(F)
    BY <1>2, <1>5
  <2>2. [k \in 1..d |-> k] \in Injection(1..d, 1..Cardinality(F))
    BY <2>1 DEF Injection, IsInjective
  <2>3. QED
    BY <2>2 DEF ExistsInjection
<1>8. ExistsInjection(1..Cardinality(F), F)
  <2>1. ExistsBijection(1..Cardinality(F), F)
    BY <1>5, FS_CardinalityType
  <2>2. QED
    BY <2>1 DEF ExistsBijection, ExistsInjection, Bijection
<1>9. ExistsInjection(new, F)
  BY <1>6, <1>7, <1>8, Fun_ExistsInjTransitive
<1>10. QED
  BY <1>4, <1>9 DEF ExistsInjection

(* The jobs there were stay as they are, and each new one is there: at a     *)
(* number of N.                                                             *)
SpawnIs(s, js, new, N) ==
  /\ N \cap DOMAIN js = {} /\ IsFiniteSet(DOMAIN js \cup N)
  /\ DOMAIN s = DOMAIN js \cup N
  /\ \A n \in DOMAIN js : s[n] = js[n]
  /\ \A n \in N : s[n] \in new /\ \A l \in N : s[l] = s[n] => l = n
  /\ \A u \in new : \E n \in N : s[n] = u

LEMMA SpawnedFacts ==
  ASSUME NEW js, IsFiniteSet(DOMAIN js), NEW new, IsFiniteSet(new)
  PROVE  \E N : SpawnIs(Spawned(js, new), js, new, N)
<1>1. PICK m : m = CHOOSE x \in Injection(new, Free(js, new)) : TRUE
  OBVIOUS
<1>2. m \in Injection(new, Free(js, new))
  BY <1>1, EnoughNumbers
<1>3. m \in [new -> Free(js, new)] /\ \A u, v \in new : m[u] = m[v] => u = v
  BY <1>2 DEF Injection, IsInjective
<1>. DEFINE N == {m[u] : u \in new}
            at == [n \in N |-> CHOOSE u \in new : m[u] = n]
<1>4. \A u \in new : m[u] \in N /\ at[m[u]] = u
  BY <1>3
<1>5. \A n \in N : at[n] \in new /\ m[at[n]] = n
  BY <1>3, <1>4
<1>6. N \cap DOMAIN js = {}
  BY <1>3 DEF Free, InUse
<1>7. IsFiniteSet(DOMAIN js \cup N)
  <2>1. [u \in new |-> m[u]] \in Surjection(new, N)
    BY DEF Surjection
  <2>2. IsFiniteSet(N)
    BY <2>1, FS_Surjection
  <2>3. QED
    BY <2>2, FS_Union
<1>8. Spawned(js, new) = [n \in DOMAIN js \cup N |-> IF n \in N THEN at[n] ELSE js[n]]
  BY <1>1 DEF Spawned
<1>. HIDE DEF at, N
<1>9. PICK s : s = Spawned(js, new)
  OBVIOUS
<1>10. SpawnIs(s, js, new, N)
  BY <1>4, <1>5, <1>6, <1>7, <1>8, <1>9 DEF SpawnIs
<1>11. QED
  BY <1>9, <1>10

-----------------------------------------------------------------------------
LEMMA NewJobFacts ==
  ASSUME NEW f \in Files, NEW send, NEW rd
  PROVE  LET u == NewJob(f, send, rd) IN
         JobIs(u) /\ u.pc = "start" /\ u.path = f /\ u.send = send /\ u.recv = <<>>
<1>. DEFINE u == NewJob(f, send, rd)
<1>1. /\ DOMAIN u = Fields /\ u.pc = "start" /\ u.path = f /\ u.send = send
      /\ u.recv = <<>> /\ u.next = 1 /\ u.imports = <<>>
  BY DEF NewJob, Fields
<1>. HIDE DEF u
<1>2. IsList(<<>>) /\ DOMAIN <<>> = {} /\ <<>> \in Seq(Files)
  BY DEF IsList
<1>3. JobIs(u)
  BY <1>1, <1>2 DEF JobIs
<1>4. QED
  BY <1>1, <1>3 DEF u

LEMMA DepChangeFacts ==
  ASSUME NEW fs \in SUBSET Files, IsFiniteSet(fs)
  PROVE  /\ IsFiniteSet(DepChange(fs))
         /\ \A u \in DepChange(fs) : JobIs(u) /\ u.pc = "start" /\ u.recv = <<>>
<1>1. [f \in fs |-> NewJob(f, <<>>, <<>>)] \in Surjection(fs, DepChange(fs))
  BY DEF Surjection, DepChange
<1>2. IsFiniteSet(DepChange(fs))
  BY <1>1, FS_Surjection
<1>3. \A u \in DepChange(fs) : JobIs(u) /\ u.pc = "start" /\ u.recv = <<>>
  BY NewJobFacts DEF DepChange
<1>4. QED
  BY <1>2, <1>3

(* New jobs change nothing for those there were. *)
LEMMA ConsistentSpawned ==
  ASSUME NEW js, NEW ps, NEW loaded, Consistent(js, ps, loaded),
         NEW new, IsFiniteSet(new), \A u \in new : JobIs(u) /\ u.pc = "start"
  PROVE  Consistent(Spawned(js, new), ps, loaded)
<1>0. IsFiniteSet(DOMAIN js)
  BY DEF Consistent
<1>1. PICK s : s = Spawned(js, new)
  OBVIOUS
<1>2. PICK N : SpawnIs(s, js, new, N)
  BY <1>0, <1>1, SpawnedFacts
<1>3. \A n \in DOMAIN s : \/ n \in DOMAIN js /\ s[n] = js[n]
                          \/ JobIs(s[n]) /\ s[n].pc = "start"
  BY <1>2 DEF SpawnIs
<1>4. \A i \in DOMAIN s : JobIs(s[i]) /\ (s[i].pc # "start" => s[i].path \in loaded)
  BY <1>3 DEF Consistent
<1>5. \A f \in Files : ParsedIs(s, f, ps[f])
  BY <1>2 DEF Consistent, ParsedIs, SpawnIs
<1>6. \A i \in DOMAIN s : s[i].pc = "wait" => WaitsFor(ps[s[i].path], i)
  BY <1>3 DEF Consistent
<1>7. Consistent(s, ps, loaded)
  BY <1>2, <1>4, <1>5, <1>6 DEF Consistent, SpawnIs
<1>8. QED
  BY <1>1, <1>7

LEMMA AnswerableSpawned ==
  ASSUME NEW js, IsFiniteSet(DOMAIN js), Answerable(js),
         NEW new, IsFiniteSet(new), \A u \in new : u.recv = <<>>
  PROVE  Answerable(Spawned(js, new))
<1>1. PICK s : s = Spawned(js, new)
  OBVIOUS
<1>2. PICK N : SpawnIs(s, js, new, N)
  BY <1>1, SpawnedFacts
<1>3. \A n \in DOMAIN s : \/ n \in DOMAIN js /\ s[n] = js[n]
                          \/ s[n].recv = <<>>
  BY <1>2 DEF SpawnIs
<1>4. \A n \in DOMAIN s : \A k \in DOMAIN s[n].recv : n \in DOMAIN js /\ s[n] = js[n]
  <2>1. DOMAIN <<>> = {}
    OBVIOUS
  <2>2. QED
    BY <1>3, <2>1
<1>5. Answerable(s)
  <2>1. \A n \in DOMAIN js : n \in DOMAIN s /\ s[n] = js[n]
    BY <1>2 DEF SpawnIs
  <2>2. QED
    BY <1>4, <2>1 DEF Answerable
<1>6. QED
  BY <1>1, <1>5

(* A job may go on by itself while it neither starts nor ends its work on a *)
(* file, nor waits.                                                         *)
MovedTo(s, js, i, v) ==
  DOMAIN s = DOMAIN js /\ s[i] = v /\ \A n \in DOMAIN js : n # i => s[n] = js[n]

LEMMA ConsistentMoved ==
  ASSUME NEW js, NEW ps, NEW loaded, Consistent(js, ps, loaded),
         NEW i \in DOMAIN js, NEW v, JobIs(v), v.path = js[i].path,
         v.pc # "start" => v.path \in loaded,
         js[i].pc # "wait", v.pc # "wait", js[i].pc \in AtWork => v.pc \in AtWork,
         NEW s, MovedTo(s, js, i, v)
  PROVE  Consistent(s, ps, loaded)
<1>2. DOMAIN s = DOMAIN js /\ s[i] = v /\ \A n \in DOMAIN js : n # i => s[n] = js[n]
  BY DEF MovedTo
<1>3. \A n \in DOMAIN s : JobIs(s[n]) /\ (s[n].pc # "start" => s[n].path \in loaded)
  BY <1>2 DEF Consistent
<1>4. \A f \in Files : ParsedIs(s, f, ps[f])
  BY <1>2 DEF Consistent, ParsedIs
<1>5. \A n \in DOMAIN s : s[n].pc = "wait" => WaitsFor(ps[s[n].path], n)
  BY <1>2 DEF Consistent
<1>6. QED
  BY <1>2, <1>3, <1>4, <1>5 DEF Consistent

LEMMA AnswerableMoved ==
  ASSUME NEW js, Answerable(js), NEW i \in DOMAIN js, NEW v, v.send = js[i].send,
         \A k \in DOMAIN v.recv : v.recv[k] = Pending => k \in DOMAIN js[i].recv /\ js[i].recv[k] = Pending,
         NEW s, MovedTo(s, js, i, v)
  PROVE  Answerable(s)
<1>1. DOMAIN s = DOMAIN js /\ \A n \in DOMAIN js : s[n].send = js[n].send
  BY DEF MovedTo
<1>2. SUFFICES ASSUME NEW n \in DOMAIN s, NEW k \in DOMAIN s[n].recv, s[n].recv[k] = Pending
               PROVE  \E m \in DOMAIN s : s[m].send = <<n, k>>
  BY ZenonT(30) DEF Answerable
<1>3. k \in DOMAIN js[n].recv /\ js[n].recv[k] = Pending
  BY <1>1, <1>2 DEF MovedTo
<1>4. QED
  BY <1>1, <1>2, <1>3 DEF Answerable

(* Files are loaded, never dropped. *)
LEMMA ConsistentLoaded ==
  ASSUME NEW js, NEW ps, NEW loaded, Consistent(js, ps, loaded), NEW more, loaded \subseteq more
  PROVE  Consistent(js, ps, more)
  BY DEF Consistent

LEMMA FilesLoaded ==
  ASSUME FilesAre, NEW f \in Files
  PROVE  LET v == GetOrInsert(f) IN
         /\ v = [g \in DOMAIN v |-> v[g]] /\ DOMAIN v = Loaded \cup {f} /\ DOMAIN v \subseteq Files
         /\ \A g \in DOMAIN v : v[g].text \in Seq(Files)
<1>. DEFINE v == GetOrInsert(f)
<1>1. /\ v = [g \in DOMAIN v |-> v[g]] /\ DOMAIN v = Loaded \cup {f} /\ DOMAIN v \subseteq Files
      /\ \A g \in DOMAIN v : g \in Loaded => v[g] = vfs[g]
      /\ \A g \in DOMAIN v : g \notin Loaded => v[g].text = project.disk[g]
  BY DEF GetOrInsert, FilesAre
<1>2. \A g \in Files : project.disk[g] \in Seq(Files)
  BY ServerAssumption DEF FilesAre
<1>. HIDE DEF v
<1>3. \A g \in DOMAIN v : v[g].text \in Seq(Files)
  <2>2. SUFFICES ASSUME NEW g \in DOMAIN v PROVE v[g].text \in Seq(Files)
    OBVIOUS
  <2>3. CASE g \in Loaded
    <3>1. vfs[g].text \in Seq(Files)
      BY <2>3 DEF FilesAre
    <3>2. v[g] = vfs[g]
      BY <1>1, <2>3
    <3>3. QED
      BY <3>1, <3>2
  <2>4. CASE g \notin Loaded
    BY <1>1, <1>2, <2>4
  <2>5. QED
    BY <2>3, <2>4
<1>4. QED
  BY <1>1, <1>3 DEF v

-----------------------------------------------------------------------------
(* The steps of a job that concern nobody else. *)
LEMMA FilesStay ==
  ASSUME FilesAre, UNCHANGED <<project, vfs, downstream>>
  PROVE  FilesAre' /\ Loaded' = Loaded
  BY DEF FilesAre, Loaded

LEMMA FilesGrow ==
  ASSUME FilesAre, NEW f \in Files, vfs' = GetOrInsert(f), UNCHANGED <<project, downstream>>
  PROVE  FilesAre' /\ Loaded' = Loaded \cup {f}
<1>1. PICK v : v = GetOrInsert(f)
  OBVIOUS
<1>2. /\ v = [g \in DOMAIN v |-> v[g]] /\ DOMAIN v = Loaded \cup {f} /\ DOMAIN v \subseteq Files
      /\ \A g \in DOMAIN v : v[g].text \in Seq(Files)
  BY <1>1, FilesLoaded
<1>3. vfs' = v
  BY <1>1
<1>4. QED
  BY <1>2, <1>3 DEF FilesAre, Loaded

LEMMA MoveKeeps ==
  ASSUME ServerInv, NEW i \in Job, NEW v, JobIs(v), v.path = jobs[i].path, v.send = jobs[i].send,
         v.pc # "start" => v.path \in Loaded',
         jobs[i].pc # "wait", v.pc # "wait", jobs[i].pc \in AtWork => v.pc \in AtWork,
         \A k \in DOMAIN v.recv :
           v.recv[k] = Pending => k \in DOMAIN jobs[i].recv /\ jobs[i].recv[k] = Pending,
         MovedTo(jobs', jobs, i, v), parsed' = parsed, FilesAre', Loaded \subseteq Loaded'
  PROVE  ServerInv'
<1>1. Consistent(jobs, parsed, Loaded')
  BY ConsistentLoaded DEF ServerInv
<1>2. i \in DOMAIN jobs
  BY DEF Job
<1>3. Consistent(jobs', parsed, Loaded')
  BY <1>1, <1>2, ConsistentMoved
<1>4. Answerable(jobs')
  BY <1>2, AnswerableMoved DEF ServerInv
<1>5. QED
  BY <1>3, <1>4 DEF ServerInv

LEMMA JobFacts ==
  ASSUME ServerInv, NEW i \in Job
  PROVE  /\ JobIs(jobs[i]) /\ Fields = DOMAIN jobs[i] /\ i \in DOMAIN jobs
         /\ jobs[i].path \in Files
         /\ jobs[i].pc # "start" => jobs[i].path \in Loaded
         /\ jobs[i].pc = "wait" => WaitsFor(parsed[jobs[i].path], i)
         /\ ParsedIs(jobs, jobs[i].path, parsed[jobs[i].path])
  BY DEF ServerInv, Consistent, Job, JobIs

LEMMA StartKeeps ==
  ASSUME ServerInv, NEW i \in Job, Start(i)
  PROVE  ServerInv'
<1>1. /\ JobIs(jobs[i]) /\ Fields = DOMAIN jobs[i] /\ i \in DOMAIN jobs
      /\ jobs[i].path \in Files /\ jobs[i].pc = "start"
  BY JobFacts DEF Start, At
<1>2. FilesAre' /\ Loaded' = Loaded \cup {jobs[i].path}
  BY <1>1, FilesGrow DEF Start, ServerInv, Path, client
<1>3. PICK x : jobs' = [jobs EXCEPT ![i].v = x, ![i].pc = "lock"]
  BY DEF Start
<1>4. PICK v : v = [jobs[i] EXCEPT !.v = x, !.pc = "lock"]
  OBVIOUS
<1>5. MovedTo(jobs', jobs, i, v)
  BY <1>1, <1>3, <1>4 DEF MovedTo
<1>6. /\ v.pc = "lock" /\ DOMAIN v = DOMAIN jobs[i]
      /\ \A k \in Fields \ {"pc", "v"} : v[k] = jobs[i][k]
  BY <1>1, <1>4 DEF Fields
<1>7. /\ v.path = jobs[i].path /\ v.send = jobs[i].send /\ v.recv = jobs[i].recv
      /\ v.imports = jobs[i].imports /\ v.next = jobs[i].next
  BY <1>6 DEF Fields
<1>8. JobIs(v)
  BY <1>1, <1>6, <1>7 DEF JobIs
<1>9. QED
  BY <1>1, <1>2, <1>5, <1>6, <1>7, <1>8, MoveKeeps DEF Start, client, AtWork

LEMMA ReadTextKeeps ==
  ASSUME ServerInv, NEW i \in Job, ReadText(i)
  PROVE  ServerInv'
<1>1. /\ JobIs(jobs[i]) /\ Fields = DOMAIN jobs[i] /\ i \in DOMAIN jobs
      /\ jobs[i].path \in Loaded /\ jobs[i].pc = "read"
  BY JobFacts DEF ReadText, At
<1>2. FilesAre' /\ Loaded' = Loaded
  BY FilesStay DEF ReadText, ServerInv, client
<1>0. PICK x, t : x = vfs[Path(i)].version /\ t = vfs[Path(i)].text
  OBVIOUS
<1>3. /\ t \in Seq(Files)
      /\ jobs' = [jobs EXCEPT ![i].version = x, ![i].imports = t,
                              ![i].pc = IF t = <<>> THEN "elab" ELSE "import"]
  <2>1. vfs[Path(i)].text \in Seq(Files)
    BY <1>1 DEF ServerInv, FilesAre, Path
  <2>2. QED
    BY <1>0, <2>1 DEF ReadText
<1>4. PICK v : v = [jobs[i] EXCEPT !.version = x, !.imports = t, !.pc = IF t = <<>> THEN "elab" ELSE "import"]
  OBVIOUS
<1>5. MovedTo(jobs', jobs, i, v)
  BY <1>1, <1>3, <1>4 DEF MovedTo
<1>6. /\ v.pc = (IF t = <<>> THEN "elab" ELSE "import") /\ DOMAIN v = DOMAIN jobs[i] /\ v.imports = t
      /\ \A k \in Fields \ {"pc", "version", "imports"} : v[k] = jobs[i][k]
  BY <1>1, <1>4 DEF Fields
<1>7. v.path = jobs[i].path /\ v.send = jobs[i].send /\ v.recv = <<>> /\ v.next = 1
  BY <1>1, <1>6 DEF Fields, JobIs
<1>8. JobIs(v)
  <2>1. Len(<<>>) = 0 /\ IsList(<<>>) /\ DOMAIN <<>> = {}
    BY DEF IsList
  <2>2. t # <<>> => Len(t) \in Nat \ {0}
    BY <1>3
  <2>3. QED
    BY <1>1, <1>3, <1>6, <1>7, <2>1, <2>2 DEF JobIs, AtWork
<1>9. v.pc \in AtWork /\ v.pc # "wait" /\ v.path \in Loaded' /\ DOMAIN v.recv = {}
  BY <1>1, <1>2, <1>6, <1>7 DEF AtWork
<1>10. QED
  BY <1>1, <1>2, <1>5, <1>7, <1>8, <1>9, MoveKeeps DEF ReadText, client, AtWork

LEMMA AppendIsList ==
  ASSUME NEW q, IsList(q), NEW x
  PROVE  LET r == Append(q, x) IN
         /\ IsList(r) /\ Len(r) = Len(q) + 1 /\ DOMAIN r = DOMAIN q \cup {Len(q) + 1}
         /\ \A k \in DOMAIN q : r[k] = q[k]
         /\ r[Len(q) + 1] = x
<1>1. PICK n \in Nat : n = Len(q) /\ q = [k \in 1..n |-> q[k]] /\ DOMAIN q = 1..n
  BY DEF IsList
<1>2. PICK r : r = Append(q, x)
  OBVIOUS
<1>3. /\ DOMAIN r = 1..(n + 1) /\ Len(r) = n + 1 /\ r = [k \in 1..(n + 1) |-> r[k]]
      /\ r[n + 1] = x /\ \A k \in 1..n : r[k] = q[k]
  BY <1>1, <1>2
<1>4. IsList(r)
  BY <1>3 DEF IsList
<1>5. DOMAIN r = DOMAIN q \cup {n + 1}
  BY <1>1, <1>3
<1>6. QED
  BY <1>1, <1>2, <1>3, <1>4, <1>5

(* What an import gets of those it asks for: an answer, or the promise of   *)
(* one.                                                                     *)
LEMMA ReceivedFacts ==
  ASSUME ServerInv, NEW i \in Job, NEW p \in Files, NextImport(i, p),
         NEW res, res = Pending \/ IsAnswer(res), NEW dep
  PROVE  \E v : /\ MovedTo(Received(i, res, dep), jobs, i, v)
                /\ JobIs(v) /\ v.path = jobs[i].path /\ v.send = jobs[i].send /\ v.pc \in AtWork
                /\ v.pc # "wait" /\ v.path \in Loaded
                /\ DOMAIN v.recv = DOMAIN jobs[i].recv \cup {jobs[i].next}
                /\ \A k \in DOMAIN jobs[i].recv : v.recv[k] = jobs[i].recv[k]
                /\ v.recv[jobs[i].next] = res
<1>1. /\ JobIs(jobs[i]) /\ Fields = DOMAIN jobs[i] /\ i \in DOMAIN jobs
      /\ jobs[i].path \in Loaded /\ jobs[i].pc = "import"
  BY JobFacts DEF NextImport, At
<1>2. /\ jobs[i].imports \in Seq(Files) /\ jobs[i].next \in 1..Len(jobs[i].imports)
      /\ Len(jobs[i].imports) \in Nat /\ IsList(jobs[i].recv)
      /\ Len(jobs[i].recv) = jobs[i].next - 1
      /\ \A k \in DOMAIN jobs[i].recv : jobs[i].recv[k] = Pending \/ IsAnswer(jobs[i].recv[k])
  BY <1>1 DEF JobIs
<1>3. PICK r : r = Append(jobs[i].recv, res)
  OBVIOUS
<1>4. /\ IsList(r) /\ Len(r) = jobs[i].next
      /\ DOMAIN r = DOMAIN jobs[i].recv \cup {jobs[i].next}
      /\ \A k \in DOMAIN jobs[i].recv : r[k] = jobs[i].recv[k]
      /\ r[jobs[i].next] = res
  <2>1. IsList(jobs[i].recv) /\ Len(jobs[i].recv) + 1 = jobs[i].next
    BY <1>2
  <2>2. QED
    BY <1>3, <2>1, AppendIsList
<1>5. PICK d, x, c : /\ c = (IF jobs[i].next = Len(jobs[i].imports) THEN "elab" ELSE "import")
                     /\ x = (IF jobs[i].next = Len(jobs[i].imports) THEN 1 ELSE jobs[i].next + 1)
                     /\ d = jobs[i].deps \o dep
  OBVIOUS
<1>6. PICK v : v = [jobs[i] EXCEPT !.recv = r, !.deps = d, !.next = x, !.pc = c]
  OBVIOUS
<1>7. /\ v.pc = c /\ v.recv = r /\ v.next = x /\ DOMAIN v = DOMAIN jobs[i]
      /\ \A k \in Fields \ {"pc", "recv", "next", "deps"} : v[k] = jobs[i][k]
  BY <1>1, <1>6 DEF Fields
<1>8. v.path = jobs[i].path /\ v.send = jobs[i].send /\ v.imports = jobs[i].imports
  BY <1>7 DEF Fields
<1>9. MovedTo(Received(i, res, dep), jobs, i, v)
  <2>1. Received(i, res, dep) = [jobs EXCEPT ![i] = v]
    BY <1>1, <1>3, <1>5, <1>6 DEF Received, Fields
  <2>2. QED
    BY <1>1, <2>1 DEF MovedTo
<1>10. JobIs(v)
  <2>1. \A k \in DOMAIN r : r[k] = Pending \/ IsAnswer(r[k])
    BY <1>2, <1>4
  <2>2. /\ c = "import" => x \in 1..Len(v.imports) /\ Len(r) = x - 1
        /\ c = "elab" => x \in Nat \ {0} /\ Len(r) = Len(v.imports)
        /\ c \in {"import", "elab"}
    BY <1>2, <1>4, <1>5, <1>8
  <2>3. QED
    BY <1>1, <1>2, <1>4, <1>7, <1>8, <2>1, <2>2 DEF JobIs, AtWork
<1>11. v.pc \in AtWork /\ v.pc # "wait" /\ v.path \in Loaded
  BY <1>1, <1>5, <1>7, <1>8 DEF AtWork
<1>12. QED
  BY <1>4, <1>7, <1>8, <1>9, <1>10, <1>11

LEMMA ImportAnsweredKeeps ==
  ASSUME ServerInv, NEW i \in Job, NEW p \in Files, ImportCloses(i, p) \/ ImportReady(i, p)
  PROVE  ServerInv'
<1>1. NextImport(i, p) /\ vfs' = GetOrInsert(p) /\ UNCHANGED <<parsed, project, downstream>>
  BY DEF ImportCloses, ImportReady, client
<1>2. FilesAre' /\ Loaded' = Loaded \cup {p}
  BY <1>1, FilesGrow DEF ServerInv
<1>3. PICK res, dep : IsAnswer(res) /\ jobs' = Received(i, res, dep)
  <2>1. CASE ImportCloses(i, p)
    BY <2>1 DEF ImportCloses, ImportCycle, IsAnswer
  <2>2. CASE ImportReady(i, p)
    <3>1. IsAnswer(parsed[p].res)
      BY <2>2 DEF ImportReady, ServerInv, Consistent, ParsedIs
    <3>2. QED
      BY <2>2, <3>1 DEF ImportReady
  <2>3. QED
    BY <2>1, <2>2
<1>4. PICK v : /\ MovedTo(jobs', jobs, i, v)
               /\ JobIs(v) /\ v.path = jobs[i].path /\ v.send = jobs[i].send /\ v.pc \in AtWork
               /\ v.pc # "wait" /\ v.path \in Loaded
               /\ DOMAIN v.recv = DOMAIN jobs[i].recv \cup {jobs[i].next}
               /\ \A k \in DOMAIN jobs[i].recv : v.recv[k] = jobs[i].recv[k]
               /\ v.recv[jobs[i].next] = res
  BY <1>1, <1>3, ReceivedFacts
<1>5. \A k \in DOMAIN v.recv :
        v.recv[k] = Pending => k \in DOMAIN jobs[i].recv /\ jobs[i].recv[k] = Pending
  BY <1>3, <1>4 DEF Pending, IsAnswer
<1>6. jobs[i].pc = "import" /\ v.path \in Loaded'
  BY <1>1, <1>2, <1>4 DEF NextImport, At
<1>7. QED
  BY <1>1, <1>2, <1>4, <1>5, <1>6, MoveKeeps

LEMMA ImportSpawnsKeeps ==
  ASSUME ServerInv, NEW i \in Job, NEW p \in Files, ImportSpawns(i, p)
  PROVE  ServerInv'
<1>1. NextImport(i, p) /\ vfs' = GetOrInsert(p) /\ UNCHANGED <<parsed, project, downstream>>
  BY DEF ImportSpawns, client
<1>2. FilesAre' /\ Loaded' = Loaded \cup {p}
  BY <1>1, FilesGrow DEF ServerInv
<1>3. PICK s : s = Received(i, Pending, <<p>>)
  OBVIOUS
<1>4. PICK v : /\ MovedTo(s, jobs, i, v)
               /\ JobIs(v) /\ v.path = jobs[i].path /\ v.send = jobs[i].send /\ v.pc \in AtWork
               /\ v.pc # "wait" /\ v.path \in Loaded
               /\ DOMAIN v.recv = DOMAIN jobs[i].recv \cup {jobs[i].next}
               /\ \A k \in DOMAIN jobs[i].recv : v.recv[k] = jobs[i].recv[k]
               /\ v.recv[jobs[i].next] = Pending
  BY <1>1, <1>3, ReceivedFacts
<1>5. PICK u : u = NewJob(p, <<i, jobs[i].next>>, Rd(i))
  OBVIOUS
<1>6. JobIs(u) /\ u.pc = "start" /\ u.send = <<i, jobs[i].next>> /\ u.recv = <<>>
  BY <1>5, NewJobFacts
<1>7. i \in DOMAIN jobs /\ jobs[i].pc = "import"
  BY <1>1 DEF NextImport, At, Job
<1>8. Consistent(s, parsed, Loaded')
  <2>1. Consistent(jobs, parsed, Loaded')
    BY <1>2, ConsistentLoaded DEF ServerInv
  <2>2. QED
    BY <1>2, <1>4, <1>7, <2>1, ConsistentMoved
<1>9. IsFiniteSet({u})
  BY FS_Singleton
<1>10. Consistent(Spawned(s, {u}), parsed, Loaded')
  BY <1>6, <1>8, <1>9, ConsistentSpawned
<1>11. Answerable(Spawned(s, {u}))
  <2>1. PICK t : t = Spawned(s, {u})
    OBVIOUS
  <2>2. IsFiniteSet(DOMAIN s)
    BY <1>8 DEF Consistent
  <2>3. PICK N : SpawnIs(t, s, {u}, N)
    BY <1>9, <2>1, <2>2, SpawnedFacts
  <2>4. DOMAIN t = DOMAIN s \cup N /\ DOMAIN s = DOMAIN jobs
    BY <1>4, <2>3 DEF SpawnIs, MovedTo
  <2>5. PICK n \in DOMAIN t : t[n] = u
    BY <2>3, <2>4 DEF SpawnIs
  <2>6. \A m \in DOMAIN s : t[m] = s[m] /\ s[m].send = jobs[m].send
    BY <1>4, <2>3 DEF SpawnIs, MovedTo
  <2>7. \A m \in DOMAIN t : \/ m \in DOMAIN s /\ t[m] = s[m]
                            \/ t[m].recv = <<>>
    BY <1>6, <2>3 DEF SpawnIs
  <2>8. SUFFICES ASSUME NEW m \in DOMAIN t, NEW k \in DOMAIN t[m].recv, t[m].recv[k] = Pending
                 PROVE  \E j \in DOMAIN t : t[j].send = <<m, k>>
    BY <2>1 DEF Answerable
  <2>9. m \in DOMAIN jobs /\ t[m] = s[m]
    <3>1. DOMAIN <<>> = {}
      OBVIOUS
    <3>2. QED
      BY <2>4, <2>7, <3>1
  <2>10. CASE m = i /\ k = jobs[i].next
    BY <1>6, <2>5, <2>10
  <2>11. CASE ~(m = i /\ k = jobs[i].next)
    <3>1. k \in DOMAIN jobs[m].recv /\ jobs[m].recv[k] = Pending
      BY <1>4, <2>8, <2>9, <2>11 DEF MovedTo
    <3>2. PICK j \in DOMAIN jobs : jobs[j].send = <<m, k>>
      BY <2>9, <3>1 DEF ServerInv, Answerable
    <3>3. QED
      BY <2>4, <2>6, <3>2
  <2>12. QED
    BY <2>10, <2>11
<1>12. jobs' = Spawned(s, {u}) /\ parsed' = parsed
  BY <1>1, <1>3, <1>5 DEF ImportSpawns
<1>13. QED
  BY <1>2, <1>10, <1>11, <1>12 DEF ServerInv

(* The steps that leave the text and the answers as they are. *)
Quiet(v, u) ==
  /\ DOMAIN v = Fields
  /\ v.path = u.path /\ v.send = u.send /\ v.imports = u.imports /\ v.recv = u.recv

LEMMA QuietKeeps ==
  ASSUME ServerInv, NEW i \in Job, NEW v, Quiet(v, jobs[i]),
         jobs[i].pc \notin {"start", "wait"},
         v.pc \in {"elab", "await", "check", "diag", "update", "publish", "end"},
         jobs[i].pc \in AtWork => v.pc # "end",
         v.pc \in {"elab", "await"} => Len(v.recv) = Len(v.imports) /\ v.next \in Nat \ {0},
         v.pc = "await" => v.next \in DOMAIN v.recv,
         v.pc \in {"diag", "update", "publish", "end"} => IsAnswer(v.res),
         MovedTo(jobs', jobs, i, v), parsed' = parsed, FilesAre', Loaded' = Loaded
  PROVE  ServerInv'
<1>1. JobIs(jobs[i]) /\ jobs[i].path \in Loaded
  BY JobFacts
<1>2. JobIs(v)
  BY <1>1 DEF JobIs, Quiet, AtWork
<1>3. v.pc # "wait" /\ (jobs[i].pc \in AtWork => v.pc \in AtWork) /\ v.path \in Loaded'
  BY <1>1 DEF AtWork, Quiet
<1>4. \A k \in DOMAIN v.recv :
        v.recv[k] = Pending => k \in DOMAIN jobs[i].recv /\ jobs[i].recv[k] = Pending
  BY DEF Quiet
<1>5. QED
  BY <1>2, <1>3, <1>4, MoveKeeps DEF Quiet

LEMMA LockReadyKeeps ==
  ASSUME ServerInv, NEW i \in Job, LockReady(i)
  PROVE  ServerInv'
<1>1. /\ JobIs(jobs[i]) /\ Fields = DOMAIN jobs[i] /\ i \in DOMAIN jobs /\ jobs[i].pc = "lock"
      /\ ParsedIs(jobs, jobs[i].path, parsed[jobs[i].path])
  BY JobFacts DEF LockReady, At
<1>2. FilesAre' /\ Loaded' = Loaded
  BY FilesStay DEF LockReady, ServerInv, client
<1>3. PICK x : x = Cache(i).res
  OBVIOUS
<1>4. IsAnswer(x)
  BY <1>1, <1>3 DEF ParsedIs, LockReady, Cache, Path
<1>5. PICK v : v = [jobs[i] EXCEPT !.res = x, !.pc = "end"]
  OBVIOUS
<1>6. MovedTo(jobs', jobs, i, v)
  BY <1>1, <1>3, <1>5 DEF MovedTo, LockReady
<1>7. v.pc = "end" /\ v.res = x /\ Quiet(v, jobs[i])
  BY <1>1, <1>5 DEF Quiet, Fields
<1>8. QED
  BY <1>1, <1>2, <1>4, <1>6, <1>7, QuietKeeps DEF LockReady, client, AtWork

LEMMA ElabStmtsKeeps ==
  ASSUME ServerInv, NEW i \in Job, ElabStmts(i)
  PROVE  ServerInv'
<1>1. /\ JobIs(jobs[i]) /\ Fields = DOMAIN jobs[i] /\ i \in DOMAIN jobs /\ jobs[i].pc = "elab"
  BY JobFacts DEF ElabStmts, At
<1>2. FilesAre' /\ Loaded' = Loaded
  BY FilesStay DEF ElabStmts, ServerInv, client
<1>3. PICK c : c = IF jobs[i].cancel \/ jobs[i].next > Len(jobs[i].imports) THEN "check" ELSE "await"
  OBVIOUS
<1>4. PICK v : v = [jobs[i] EXCEPT !.pc = c]
  OBVIOUS
<1>5. MovedTo(jobs', jobs, i, v)
  BY <1>1, <1>3, <1>4 DEF MovedTo, ElabStmts
<1>6. v.pc = c /\ v.next = jobs[i].next /\ Quiet(v, jobs[i])
  BY <1>1, <1>4 DEF Quiet, Fields
<1>7. c \in {"check", "await"}
  BY <1>3
<1>8. /\ Len(v.recv) = Len(v.imports) /\ v.next \in Nat \ {0}
      /\ c = "await" => v.next \in DOMAIN v.recv
  <2>1. /\ jobs[i].next \in Nat \ {0} /\ Len(jobs[i].recv) = Len(jobs[i].imports)
        /\ Len(jobs[i].imports) \in Nat /\ DOMAIN jobs[i].recv = 1..Len(jobs[i].imports)
    BY <1>1 DEF JobIs, IsList
  <2>2. c = "await" => ~(jobs[i].next > Len(jobs[i].imports))
    BY <1>3
  <2>3. QED
    BY <1>6, <2>1, <2>2 DEF Quiet
<1>9. QED
  BY <1>1, <1>2, <1>5, <1>6, <1>7, <1>8, QuietKeeps DEF ElabStmts, client

LEMMA AwaitKeeps ==
  ASSUME ServerInv, NEW i \in Job, Await(i)
  PROVE  ServerInv'
<1>1. /\ JobIs(jobs[i]) /\ Fields = DOMAIN jobs[i] /\ i \in DOMAIN jobs /\ jobs[i].pc = "await"
  BY JobFacts DEF Await, At
<1>2. FilesAre' /\ Loaded' = Loaded
  BY FilesStay DEF Await, ServerInv, client
<1>3. PICK x : x = jobs[i].recv[jobs[i].next]
  OBVIOUS
<1>4. IsAnswer(x) /\ jobs[i].next \in Nat \ {0} /\ Len(jobs[i].recv) = Len(jobs[i].imports)
  <2>1. jobs[i].next \in DOMAIN jobs[i].recv /\ Len(jobs[i].recv) = Len(jobs[i].imports)
    BY <1>1 DEF JobIs
  <2>2. IsList(jobs[i].recv) /\ IsAnswer(x)
    BY <1>1, <1>3, <2>1 DEF JobIs, Await
  <2>3. DOMAIN jobs[i].recv = 1..Len(jobs[i].recv) /\ Len(jobs[i].recv) \in Nat
    BY <2>2 DEF IsList
  <2>4. jobs[i].next \in Nat \ {0}
    BY <2>1, <2>3
  <2>5. QED
    BY <2>1, <2>2, <2>4
<1>5. PICK y : y = Append(jobs[i].toks, x.hash)
  OBVIOUS
<1>6. \E v : /\ Quiet(v, jobs[i]) /\ MovedTo(jobs', jobs, i, v)
             /\ v.pc = "check" \/ (v.pc = "elab" /\ v.next = jobs[i].next + 1)
  <2>1. CASE x.tag = "ok"
    <3>1. PICK v : v = [jobs[i] EXCEPT !.toks = y, !.next = jobs[i].next + 1, !.pc = "elab"]
      OBVIOUS
    <3>2. v.pc = "elab" /\ v.next = jobs[i].next + 1 /\ Quiet(v, jobs[i])
      BY <1>1, <3>1 DEF Quiet, Fields
    <3>3. jobs' = [jobs EXCEPT ![i] = v]
      BY <1>1, <1>3, <1>5, <2>1, <3>1 DEF Await
    <3>4. QED
      BY <1>1, <3>2, <3>3 DEF MovedTo
  <2>2. CASE x.tag = "cycle"
    <3>1. PICK v : v = [jobs[i] EXCEPT !.cyc = TRUE, !.next = jobs[i].next + 1, !.pc = "elab"]
      OBVIOUS
    <3>2. v.pc = "elab" /\ v.next = jobs[i].next + 1 /\ Quiet(v, jobs[i])
      BY <1>1, <3>1 DEF Quiet, Fields
    <3>3. jobs' = [jobs EXCEPT ![i] = v]
      BY <1>1, <1>3, <2>2, <3>1 DEF Await
    <3>4. QED
      BY <1>1, <3>2, <3>3 DEF MovedTo
  <2>3. CASE x.tag = "canceled"
    <3>1. PICK v : v = [jobs[i] EXCEPT !.cancel = TRUE, !.pc = "check"]
      OBVIOUS
    <3>2. v.pc = "check" /\ Quiet(v, jobs[i])
      BY <1>1, <3>1 DEF Quiet, Fields
    <3>3. jobs' = [jobs EXCEPT ![i] = v]
      BY <1>1, <1>3, <2>3, <3>1 DEF Await
    <3>4. QED
      BY <1>1, <3>2, <3>3 DEF MovedTo
  <2>4. QED
    BY <1>4, <2>1, <2>2, <2>3 DEF IsAnswer
<1>7. PICK v : /\ Quiet(v, jobs[i]) /\ MovedTo(jobs', jobs, i, v)
               /\ v.pc = "check" \/ (v.pc = "elab" /\ v.next = jobs[i].next + 1)
  BY <1>6
<1>8. /\ v.pc \in {"elab", "await"} => Len(v.recv) = Len(v.imports) /\ v.next \in Nat \ {0}
      /\ v.pc \in {"elab", "check"}
  BY <1>4, <1>7 DEF Quiet
<1>9. QED
  BY <1>1, <1>2, <1>7, <1>8, QuietKeeps DEF Await, client

LEMMA CheckKeeps ==
  ASSUME ServerInv, NEW i \in Job, Check(i)
  PROVE  ServerInv'
<1>1. /\ JobIs(jobs[i]) /\ Fields = DOMAIN jobs[i] /\ i \in DOMAIN jobs /\ jobs[i].pc = "check"
  BY JobFacts DEF Check, At
<1>2. FilesAre' /\ Loaded' = Loaded
  BY FilesStay DEF Check, ServerInv, client
<1>3. PICK c, x, y :
        /\ c = (IF jobs[i].cancel THEN "publish"
                ELSE IF vfs[jobs[i].path].version = jobs[i].version THEN "diag" ELSE UpdateFrom(jobs[i], 1))
        /\ x = (IF jobs[i].cancel THEN Canceled
                ELSE IF jobs[i].cyc THEN ImportCycle ELSE Ok(<<jobs[i].version, jobs[i].toks>>))
        /\ y = jobs[i].cancel
  OBVIOUS
<1>4. c \in {"publish", "diag", "update"} /\ IsAnswer(x)
  BY <1>3 DEF UpdateFrom, IsAnswer, Canceled, ImportCycle, Ok
<1>5. PICK v : v = [jobs[i] EXCEPT !.canceled = y, !.res = x, !.next = 1, !.pc = c]
  OBVIOUS
<1>6. MovedTo(jobs', jobs, i, v)
  <2>1. jobs' = [jobs EXCEPT ![i].canceled = y, ![i].res = x, ![i].next = 1, ![i].pc = c]
    BY <1>3 DEF Check
  <2>2. QED
    BY <1>1, <1>5, <2>1 DEF MovedTo
<1>7. v.pc = c /\ v.res = x /\ Quiet(v, jobs[i])
  BY <1>1, <1>5 DEF Quiet, Fields
<1>8. QED
  BY <1>1, <1>2, <1>4, <1>6, <1>7, QuietKeeps DEF Check, client

LEMMA SendDiagnosticsKeeps ==
  ASSUME ServerInv, NEW i \in Job, SendDiagnostics(i)
  PROVE  ServerInv'
<1>1. /\ JobIs(jobs[i]) /\ Fields = DOMAIN jobs[i] /\ i \in DOMAIN jobs /\ jobs[i].pc = "diag"
  BY JobFacts DEF SendDiagnostics, At
<1>2. FilesAre' /\ Loaded' = Loaded
  BY FilesStay DEF SendDiagnostics, ServerInv, client
<1>3. PICK c : c = UpdateFrom(jobs[i], 1)
  OBVIOUS
<1>4. c \in {"publish", "update"} /\ IsAnswer(jobs[i].res)
  BY <1>1, <1>3 DEF UpdateFrom, JobIs
<1>5. PICK v : v = [jobs[i] EXCEPT !.pc = c]
  OBVIOUS
<1>6. MovedTo(jobs', jobs, i, v)
  BY <1>1, <1>3, <1>5 DEF MovedTo, SendDiagnostics
<1>7. v.pc = c /\ v.res = jobs[i].res /\ Quiet(v, jobs[i])
  BY <1>1, <1>5 DEF Quiet, Fields
<1>8. QED
  BY <1>1, <1>2, <1>4, <1>6, <1>7, QuietKeeps DEF SendDiagnostics, client

LEMMA UpdateDownstreamKeeps ==
  ASSUME ServerInv, NEW i \in Job, UpdateDownstream(i)
  PROVE  ServerInv'
<1>1. /\ JobIs(jobs[i]) /\ Fields = DOMAIN jobs[i] /\ i \in DOMAIN jobs /\ jobs[i].pc = "update"
      /\ jobs[i].path \in Files
  BY JobFacts DEF UpdateDownstream, At
<1>0. PICK m \in Todo(jobs[i], jobs[i].next) :
        LET p == Visited(jobs[i])[m] IN
        /\ downstream' = [downstream EXCEPT ![p] = IF m <= Len(jobs[i].old_deps) THEN @ \ {jobs[i].path}
                                                   ELSE @ \cup {jobs[i].path}]
        /\ jobs' = [jobs EXCEPT ![i].next = m + 1, ![i].pc = UpdateFrom(jobs[i], m + 1)]
  BY DEF UpdateDownstream
<1>2. FilesAre' /\ Loaded' = Loaded
  <2>1. PICK p, D : /\ downstream' = [downstream EXCEPT ![p] = D]
                    /\ D = downstream[p] \ {jobs[i].path} \/ D = downstream[p] \cup {jobs[i].path}
    <3>1. PICK p : p = Visited(jobs[i])[m]
      OBVIOUS
    <3>2. PICK D : D = IF m <= Len(jobs[i].old_deps) THEN downstream[p] \ {jobs[i].path}
                       ELSE downstream[p] \cup {jobs[i].path}
      OBVIOUS
    <3>3. downstream' = [downstream EXCEPT ![p] = D]
      BY <1>0, <3>1, <3>2
    <3>4. QED
      BY <3>2, <3>3
  <2>2. downstream \in [Files -> SUBSET Files] /\ \A f \in Files : IsFiniteSet(downstream[f])
    BY DEF ServerInv, FilesAre
  <2>3. p \in Files => D \subseteq Files /\ IsFiniteSet(D)
    <3>1. SUFFICES ASSUME p \in Files PROVE D \subseteq Files /\ IsFiniteSet(D)
      OBVIOUS
    <3>2. IsFiniteSet({jobs[i].path}) /\ IsFiniteSet(downstream[p]) /\ downstream[p] \subseteq Files
      BY <2>2, <3>1, FS_Singleton
    <3>3. IsFiniteSet(downstream[p] \ {jobs[i].path}) /\ IsFiniteSet(downstream[p] \cup {jobs[i].path})
      BY <3>2, FS_Union, FS_Difference
    <3>4. QED
      BY <1>1, <2>1, <3>2, <3>3
  <2>4. downstream' \in [Files -> SUBSET Files] /\ \A f \in Files : IsFiniteSet(downstream'[f])
    BY <2>1, <2>2, <2>3
  <2>5. vfs' = vfs /\ project' = project
    BY DEF UpdateDownstream, client
  <2>6. QED
    BY <2>4, <2>5 DEF ServerInv, FilesAre, Loaded
<1>3. PICK c, x : c = UpdateFrom(jobs[i], m + 1) /\ x = m + 1
  OBVIOUS
<1>4. c \in {"publish", "update"} /\ IsAnswer(jobs[i].res)
  BY <1>1, <1>3 DEF UpdateFrom, JobIs
<1>5. PICK v : v = [jobs[i] EXCEPT !.next = x, !.pc = c]
  OBVIOUS
<1>6. MovedTo(jobs', jobs, i, v)
  <2>1. jobs' = [jobs EXCEPT ![i].next = x, ![i].pc = c]
    BY <1>0, <1>3
  <2>2. QED
    BY <1>1, <1>5, <2>1 DEF MovedTo
<1>7. v.pc = c /\ v.res = jobs[i].res /\ Quiet(v, jobs[i])
  BY <1>1, <1>5 DEF Quiet, Fields
<1>8. QED
  BY <1>1, <1>2, <1>4, <1>6, <1>7, QuietKeeps DEF UpdateDownstream, client

-----------------------------------------------------------------------------
(* The steps by which a job takes a file, waits for it and gives it back.   *)

(* Whether a job has been asked to stop is of no concern here. *)
Same(v, u) ==
  JobIs(v) /\ v.path = u.path /\ v.pc = u.pc /\ v.send = u.send /\ v.recv = u.recv

LEMMA CanceledIs ==
  ASSUME NEW u, JobIs(u)
  PROVE  Same([u EXCEPT !.cancel = TRUE], u)
<1>1. PICK v : v = [u EXCEPT !.cancel = TRUE]
  OBVIOUS
<1>2. DOMAIN v = DOMAIN u /\ \A k \in DOMAIN u : k # "cancel" => v[k] = u[k]
  BY <1>1
<1>3. DOMAIN u = Fields
  BY DEF JobIs
<1>4. /\ v.path = u.path /\ v.pc = u.pc /\ v.send = u.send /\ v.recv = u.recv /\ v.imports = u.imports
      /\ v.next = u.next /\ v.res = u.res
  BY <1>2, <1>3 DEF Fields
<1>5. JobIs(v)
  BY <1>2, <1>4 DEF JobIs
<1>6. QED
  BY <1>1, <1>4, <1>5 DEF Same

LEMMA SameKeeps ==
  ASSUME NEW js, NEW ps, NEW loaded, Consistent(js, ps, loaded), Answerable(js),
         NEW s, DOMAIN s = DOMAIN js, \A n \in DOMAIN js : Same(s[n], js[n])
  PROVE  Consistent(s, ps, loaded) /\ Answerable(s)
<1>1. \A f \in Files : ParsedIs(s, f, ps[f])
  BY DEF Consistent, ParsedIs, Same
<1>2. Consistent(s, ps, loaded)
  BY <1>1 DEF Consistent, Same
<1>3. \A n \in DOMAIN s : s[n].recv = js[n].recv /\ s[n].send = js[n].send
  BY DEF Same
<1>4. Answerable(s)
  <2>1. SUFFICES ASSUME NEW n \in DOMAIN js, NEW k \in DOMAIN js[n].recv, js[n].recv[k] = Pending
                 PROVE  \E m \in DOMAIN js : s[m].send = <<n, k>>
    BY <1>3 DEF Answerable
  <2>2. PICK m \in DOMAIN js : js[m].send = <<n, k>>
    BY <2>1 DEF Answerable
  <2>3. QED
    BY <1>3, <2>2
<1>5. QED
  BY <1>2, <1>4

(* What is known of a file stays true if the jobs of the file stay what they *)
(* are: at work, or waiting.                                               *)
LEMMA ParsedStays ==
  ASSUME NEW js, NEW s, NEW f, NEW p, ParsedIs(js, f, p),
         \A n \in DOMAIN js : js[n].path = f =>
           /\ n \in DOMAIN s /\ s[n].path = f
           /\ js[n].pc = "wait" => s[n].pc = "wait"
           /\ js[n].pc \in AtWork => s[n].pc \in AtWork
  PROVE  ParsedIs(s, f, p)
<1>1. SUFFICES ASSUME p.tag = "busy"
               PROVE  /\ p.job \in DOMAIN s /\ s[p.job].path = f /\ s[p.job].pc \in AtWork
                      /\ \A k \in DOMAIN p.senders :
                           p.senders[k] \in DOMAIN s /\ s[p.senders[k]].path = f /\ s[p.senders[k]].pc = "wait"
  BY DEF ParsedIs
<1>2. p.job \in DOMAIN s /\ s[p.job].path = f /\ s[p.job].pc \in AtWork
  BY <1>1 DEF ParsedIs
<1>3. ASSUME NEW k \in DOMAIN p.senders
      PROVE  p.senders[k] \in DOMAIN s /\ s[p.senders[k]].path = f /\ s[p.senders[k]].pc = "wait"
  BY <1>1, <1>3 DEF ParsedIs
<1>4. QED
  BY <1>2, <1>3

LEMMA BeginKeeps ==
  ASSUME ServerInv, NEW i \in Job, jobs[i].pc = "lock",
         NEW js, Consistent(js, parsed, Loaded), Answerable(js), DOMAIN js = Job,
         js[i].pc = "lock", js[i].path = jobs[i].path,
         NEW old_deps, NEW senders,
         IF Cache(i).tag = "busy" THEN senders = Cache(i).senders ELSE senders = <<>>,
         Begin(i, js, old_deps, senders)
  PROVE  ServerInv'
<1>1. FilesAre' /\ Loaded' = Loaded
  BY FilesStay DEF Begin, ServerInv, client
<1>2. PICK f \in Files : f = jobs[i].path
  BY JobFacts
<1>3. PICK v : v = [js[i] EXCEPT !.old_deps = old_deps, !.pc = "read"]
  OBVIOUS
<1>4. PICK p : p = InProgress(jobs[i].v, i, senders)
  OBVIOUS
<1>5. /\ JobIs(js[i]) /\ i \in DOMAIN js /\ DOMAIN js[i] = Fields
      /\ f \in Loaded /\ ParsedIs(js, f, parsed[f])
  BY <1>2, JobFacts DEF Consistent, JobIs
<1>6. MovedTo(jobs', js, i, v)
  BY <1>3, <1>5 DEF MovedTo, Begin
<1>7. v.pc = "read" /\ v.recv = js[i].recv /\ v.next = js[i].next /\ Quiet(v, js[i])
  BY <1>3, <1>5 DEF Quiet, Fields
<1>8. JobIs(v)
  BY <1>5, <1>7 DEF JobIs, Quiet, AtWork
<1>9. parsed' = [parsed EXCEPT ![f] = p]
  BY <1>2, <1>4 DEF Begin, Path
<1>10. /\ parsed' = [g \in Files |-> parsed'[g]] /\ parsed'[f] = p
       /\ \A g \in Files : g # f => parsed'[g] = parsed[g]
  BY <1>9 DEF ServerInv, Consistent
<1>11. /\ p.tag = "busy" /\ p.version = jobs[i].v /\ p.job = i /\ p.senders = senders
       /\ p = InProgress(p.version, p.job, p.senders)
  BY <1>4 DEF InProgress
<1>12. /\ IsList(senders)
       /\ \A k \in DOMAIN senders :
            senders[k] \in DOMAIN js /\ js[senders[k]].path = f /\ js[senders[k]].pc = "wait"
  <2>1. IsList(<<>>) /\ DOMAIN <<>> = {}
    BY DEF IsList
  <2>2. QED
    BY <1>2, <1>5, <2>1 DEF ParsedIs, Cache, Path
<1>13. DOMAIN jobs' = DOMAIN js /\ jobs'[i] = v /\ \A n \in DOMAIN js : n # i => jobs'[n] = js[n]
  BY <1>6 DEF MovedTo
<1>14. \A n \in DOMAIN jobs' : JobIs(jobs'[n]) /\ (jobs'[n].pc # "start" => jobs'[n].path \in Loaded)
  BY <1>2, <1>5, <1>7, <1>8, <1>13 DEF Consistent, Quiet
<1>15. \A g \in Files : ParsedIs(jobs', g, parsed'[g])
  <2>1. ParsedIs(jobs', f, p)
    <3>1. i \in DOMAIN jobs' /\ jobs'[i].path = f /\ jobs'[i].pc = "read"
      BY <1>2, <1>5, <1>7, <1>13 DEF Quiet
    <3>2. ASSUME NEW k \in DOMAIN senders
          PROVE  senders[k] \in DOMAIN jobs' /\ jobs'[senders[k]].path = f /\ jobs'[senders[k]].pc = "wait"
      <4>1. senders[k] \in DOMAIN js /\ js[senders[k]].path = f /\ js[senders[k]].pc = "wait"
        BY <1>12, <3>2
      <4>2. senders[k] # i
        BY <4>1
      <4>3. QED
        BY <1>13, <4>1, <4>2
    <3>3. QED
      BY <1>11, <1>12, <3>1, <3>2 DEF ParsedIs, AtWork
  <2>2. ASSUME NEW g \in Files, g # f PROVE ParsedIs(jobs', g, parsed[g])
    <3>1. ParsedIs(js, g, parsed[g])
      BY DEF Consistent
    <3>2. \A n \in DOMAIN js : js[n].path = g => n # i
      BY <1>2, <2>2
    <3>3. QED
      BY <1>13, <3>1, <3>2, ParsedStays
  <2>3. QED
    BY <1>10, <2>1, <2>2
<1>16. \A n \in DOMAIN jobs' : jobs'[n].pc = "wait" => WaitsFor(parsed'[jobs'[n].path], n)
  <2>1. SUFFICES ASSUME NEW n \in DOMAIN jobs', jobs'[n].pc = "wait"
                 PROVE  WaitsFor(parsed'[jobs'[n].path], n)
    OBVIOUS
  <2>2. n # i /\ jobs'[n] = js[n] /\ WaitsFor(parsed[js[n].path], n) /\ js[n].path \in Files
    BY <1>7, <1>13, <2>1 DEF Consistent, JobIs
  <2>3. CASE js[n].path = f
    <3>1. senders = parsed[f].senders
      BY <1>2, <2>2, <2>3 DEF WaitsFor, Cache, Path
    <3>2. QED
      BY <1>10, <1>11, <2>2, <2>3, <3>1 DEF WaitsFor
  <2>4. CASE js[n].path # f
    BY <1>10, <2>2, <2>4
  <2>5. QED
    BY <2>3, <2>4
<1>17. Consistent(jobs', parsed', Loaded)
  BY <1>10, <1>13, <1>14, <1>15, <1>16 DEF Consistent
<1>18. Answerable(jobs')
  BY <1>5, <1>6, <1>7, AnswerableMoved DEF Quiet
<1>19. QED
  BY <1>1, <1>17, <1>18 DEF ServerInv

LEMMA LockBeginsKeeps ==
  ASSUME ServerInv, NEW i \in Job, LockNone(i) \/ LockSupersedes(i) \/ LockStale(i)
  PROVE  ServerInv'
<1>1. jobs[i].pc = "lock" /\ i \in DOMAIN jobs /\ JobIs(jobs[i])
  BY JobFacts DEF LockNone, LockSupersedes, LockStale, At
<1>2. Consistent(jobs, parsed, Loaded) /\ Answerable(jobs)
  BY DEF ServerInv
<1>3. CASE LockNone(i)
  BY <1>1, <1>2, <1>3, BeginKeeps DEF LockNone, Job
<1>4. CASE LockStale(i)
  <2>1. PICK d : Begin(i, jobs, d, <<>>) /\ Cache(i).tag = "ready"
    BY <1>4 DEF LockStale
  <2>2. QED
    BY <1>1, <1>2, <2>1, BeginKeeps DEF Job
<1>5. CASE LockSupersedes(i)
  <2>1. Begin(i, Stop(jobs, Cache(i).job), <<>>, Cache(i).senders) /\ Cache(i).tag = "busy"
    BY <1>5 DEF LockSupersedes
  <2>2. PICK js : js = Stop(jobs, Cache(i).job)
    OBVIOUS
  <2>3. DOMAIN js = DOMAIN jobs /\ \A n \in DOMAIN jobs : Same(js[n], jobs[n])
    <3>1. \A n \in DOMAIN jobs : JobIs(jobs[n])
      BY <1>2 DEF Consistent
    <3>2. \A n \in DOMAIN jobs : Same(jobs[n], jobs[n]) /\ Same([jobs[n] EXCEPT !.cancel = TRUE], jobs[n])
      BY <3>1, CanceledIs DEF Same
    <3>3. CASE Cache(i).job \in DOMAIN jobs
      <4>1. js = [jobs EXCEPT ![Cache(i).job] = [jobs[Cache(i).job] EXCEPT !.cancel = TRUE]]
        BY <2>2, <3>3 DEF Stop
      <4>2. QED
        BY <3>2, <3>3, <4>1
    <3>4. CASE Cache(i).job \notin DOMAIN jobs
      BY <2>2, <3>2, <3>4 DEF Stop
    <3>5. QED
      BY <3>3, <3>4
  <2>4. Consistent(js, parsed, Loaded) /\ Answerable(js)
    BY <1>2, <2>3, SameKeeps
  <2>5. js[i].pc = "lock" /\ js[i].path = jobs[i].path /\ DOMAIN js = Job
    BY <1>1, <2>3 DEF Same, Job
  <2>6. Begin(i, js, <<>>, Cache(i).senders)
    BY <2>1, <2>2
  <2>7. QED
    BY <1>1, <2>1, <2>4, <2>5, <2>6, BeginKeeps
<1>6. QED
  BY <1>3, <1>4, <1>5

LEMMA LockWaitsKeeps ==
  ASSUME ServerInv, NEW i \in Job, LockWaits(i)
  PROVE  ServerInv'
<1>1. FilesAre' /\ Loaded' = Loaded
  BY FilesStay DEF LockWaits, ServerInv, client
<1>2. PICK f \in Files : f = jobs[i].path
  BY JobFacts
<1>3. /\ JobIs(jobs[i]) /\ Fields = DOMAIN jobs[i] /\ i \in DOMAIN jobs /\ jobs[i].pc = "lock"
      /\ f \in Loaded /\ ParsedIs(jobs, f, parsed[f]) /\ parsed[f].tag = "busy"
  BY <1>2, JobFacts DEF LockWaits, At, Cache, Path
<1>4. PICK v : v = [jobs[i] EXCEPT !.pc = "wait"]
  OBVIOUS
<1>5. PICK q : q = Append(parsed[f].senders, i)
  OBVIOUS
<1>6. PICK p : p = InProgress(parsed[f].version, parsed[f].job, q)
  OBVIOUS
<1>7. DOMAIN jobs' = DOMAIN jobs /\ jobs'[i] = v /\ \A n \in DOMAIN jobs : n # i => jobs'[n] = jobs[n]
  BY <1>3, <1>4 DEF LockWaits
<1>8. v.pc = "wait" /\ v.next = jobs[i].next /\ Quiet(v, jobs[i])
  BY <1>3, <1>4 DEF Quiet, Fields
<1>9. JobIs(v)
  BY <1>3, <1>8 DEF JobIs, Quiet, AtWork
<1>10. /\ IsList(q) /\ i \in {q[k] : k \in DOMAIN q}
       /\ \A n : (\E k \in DOMAIN parsed[f].senders : parsed[f].senders[k] = n) => \E k \in DOMAIN q : q[k] = n
       /\ \A k \in DOMAIN q : q[k] = i \/ \E m \in DOMAIN parsed[f].senders : q[k] = parsed[f].senders[m]
  <2>1. IsList(parsed[f].senders)
    BY <1>3 DEF ParsedIs
  <2>2. PICK x : x = parsed[f].senders
    OBVIOUS
  <2>3. /\ IsList(q) /\ DOMAIN q = DOMAIN x \cup {Len(x) + 1} /\ q[Len(x) + 1] = i
        /\ \A k \in DOMAIN x : q[k] = x[k]
    BY <1>5, <2>1, <2>2, AppendIsList
  <2>4. QED
    BY <2>2, <2>3
<1>11. /\ p.tag = "busy" /\ p.version = parsed[f].version /\ p.job = parsed[f].job /\ p.senders = q
       /\ p = InProgress(p.version, p.job, p.senders)
  BY <1>6 DEF InProgress
<1>12. /\ parsed' = [g \in Files |-> parsed'[g]] /\ parsed'[f] = p
       /\ \A g \in Files : g # f => parsed'[g] = parsed[g]
  <2>1. parsed' = [parsed EXCEPT ![f] = [parsed[f] EXCEPT !.senders = q]]
    BY <1>2, <1>5 DEF LockWaits, Path
  <2>2. parsed[f] = InProgress(parsed[f].version, parsed[f].job, parsed[f].senders)
    BY <1>3 DEF ParsedIs
  <2>3. PICK a, b, c : a = parsed[f].version /\ b = parsed[f].job /\ c = parsed[f].senders
    OBVIOUS
  <2>4. parsed[f] = [tag |-> "busy", version |-> a, job |-> b, senders |-> c]
    BY <2>2, <2>3 DEF InProgress
  <2>5. [parsed[f] EXCEPT !.senders = q] = [tag |-> "busy", version |-> a, job |-> b, senders |-> q]
    BY <2>4
  <2>6. parsed' = [parsed EXCEPT ![f] = p]
    BY <1>6, <2>1, <2>3, <2>5 DEF InProgress
  <2>7. QED
    BY <2>6 DEF ServerInv, Consistent
<1>13. \A n \in DOMAIN jobs' : JobIs(jobs'[n]) /\ (jobs'[n].pc # "start" => jobs'[n].path \in Loaded)
  BY <1>2, <1>3, <1>7, <1>8, <1>9 DEF Consistent, Quiet, ServerInv
<1>14. \A g \in Files : ParsedIs(jobs', g, parsed'[g])
  <2>1. ParsedIs(jobs', f, p)
    <3>1. \A k \in DOMAIN q : q[k] \in DOMAIN jobs' /\ jobs'[q[k]].path = f /\ jobs'[q[k]].pc = "wait"
      <4>1. \A m \in DOMAIN parsed[f].senders : LET n == parsed[f].senders[m] IN
              n \in DOMAIN jobs /\ jobs[n].path = f /\ jobs[n].pc = "wait"
        BY <1>3 DEF ParsedIs
      <4>2. \A n \in DOMAIN jobs : jobs[n].path = f /\ jobs[n].pc = "wait" =>
              n \in DOMAIN jobs' /\ jobs'[n].path = f /\ jobs'[n].pc = "wait"
        BY <1>3, <1>7
      <4>3. i \in DOMAIN jobs' /\ jobs'[i].path = f /\ jobs'[i].pc = "wait"
        BY <1>2, <1>3, <1>7, <1>8 DEF Quiet
      <4>4. QED
        BY <1>10, <4>1, <4>2, <4>3
    <3>2. p.job \in DOMAIN jobs' /\ jobs'[p.job].path = f /\ jobs'[p.job].pc \in AtWork
      BY <1>3, <1>7, <1>11 DEF ParsedIs, AtWork
    <3>3. QED
      BY <1>10, <1>11, <3>1, <3>2 DEF ParsedIs
  <2>2. ASSUME NEW g \in Files, g # f PROVE ParsedIs(jobs', g, parsed[g])
    <3>1. ParsedIs(jobs, g, parsed[g])
      BY DEF ServerInv, Consistent
    <3>2. \A n \in DOMAIN jobs : jobs[n].path = g => n # i
      BY <1>2, <2>2
    <3>3. QED
      BY <1>7, <3>1, <3>2, ParsedStays
  <2>3. QED
    BY <1>12, <2>1, <2>2
<1>15. \A n \in DOMAIN jobs' : jobs'[n].pc = "wait" => WaitsFor(parsed'[jobs'[n].path], n)
  <2>1. WaitsFor(p, i)
    BY <1>10, <1>11 DEF WaitsFor
  <2>2. \A n : WaitsFor(parsed[f], n) => WaitsFor(p, n)
    BY <1>10, <1>11 DEF WaitsFor
  <2>3. SUFFICES ASSUME NEW n \in DOMAIN jobs', jobs'[n].pc = "wait"
                 PROVE  WaitsFor(parsed'[jobs'[n].path], n)
    OBVIOUS
  <2>4. CASE n = i
    BY <1>2, <1>7, <1>8, <1>12, <2>1, <2>4 DEF Quiet
  <2>5. CASE n # i
    <3>1. jobs'[n] = jobs[n] /\ WaitsFor(parsed[jobs[n].path], n) /\ jobs[n].path \in Files
      BY <1>7, <2>3, <2>5 DEF Consistent, JobIs, ServerInv
    <3>2. QED
      BY <1>12, <2>2, <3>1
  <2>6. QED
    BY <2>4, <2>5
<1>16. Consistent(jobs', parsed', Loaded)
  BY <1>7, <1>12, <1>13, <1>14, <1>15 DEF Consistent, ServerInv
<1>17. Answerable(jobs')
  <2>1. MovedTo(jobs', jobs, i, v)
    BY <1>7 DEF MovedTo
  <2>2. QED
    BY <1>3, <1>8, <2>1, AnswerableMoved DEF Quiet, ServerInv
<1>18. QED
  BY <1>1, <1>16, <1>17 DEF ServerInv

(* An answer may take a place in the list of answers. *)
AnsweredTo(v, u, k, res) ==
  /\ JobIs(v) /\ v.path = u.path /\ v.pc = u.pc /\ v.send = u.send
  /\ DOMAIN v.recv = DOMAIN u.recv
  /\ \A m \in DOMAIN u.recv : IF m = k THEN v.recv[m] = res ELSE v.recv[m] = u.recv[m]

LEMMA AnsweredIs ==
  ASSUME NEW u, JobIs(u), NEW k, NEW res, IsAnswer(res)
  PROVE  AnsweredTo([u EXCEPT !.recv[k] = res], u, k, res)
<1>1. PICK r : r = [u.recv EXCEPT ![k] = res]
  OBVIOUS
<1>2. PICK v : v = [u EXCEPT !.recv = r]
  OBVIOUS
<1>3. DOMAIN u = Fields
  BY DEF JobIs
<1>4. DOMAIN v = Fields /\ v.recv = r /\ \A x \in Fields : x # "recv" => v[x] = u[x]
  BY <1>2, <1>3 DEF Fields
<1>5. /\ v.path = u.path /\ v.pc = u.pc /\ v.send = u.send /\ v.imports = u.imports
      /\ v.next = u.next /\ v.res = u.res
  BY <1>4 DEF Fields
<1>6. /\ DOMAIN r = DOMAIN u.recv
      /\ \A m \in DOMAIN u.recv : IF m = k THEN r[m] = res ELSE r[m] = u.recv[m]
  BY <1>1
<1>7. IsList(r) /\ Len(r) = Len(u.recv) /\ (u.recv = <<>> => r = <<>>)
  <2>1. PICK q, n : q = u.recv /\ n = Len(u.recv)
    OBVIOUS
  <2>2. n \in Nat /\ q = [m \in 1..n |-> q[m]]
    BY <2>1 DEF JobIs, IsList
  <2>3. DOMAIN r = 1..n /\ r = [m \in 1..n |-> r[m]] /\ Len(r) = n
    <3>1. DOMAIN q = 1..n
      BY <2>2
    <3>2. r = [m \in 1..n |-> IF m = k THEN res ELSE q[m]]
      BY <1>1, <2>1, <3>1
    <3>3. QED
      BY <2>2, <3>2
  <2>4. q = <<>> => r = <<>>
    BY <1>1, <2>1
  <2>5. QED
    BY <2>1, <2>2, <2>3, <2>4 DEF IsList
<1>8. \A m \in DOMAIN r : r[m] = Pending \/ IsAnswer(r[m])
  BY <1>6 DEF JobIs
<1>9. JobIs(v)
  BY <1>4, <1>5, <1>6, <1>7, <1>8 DEF JobIs
<1>10. [u EXCEPT !.recv[k] = res] = v
  BY <1>1, <1>2, <1>3 DEF Fields
<1>11. QED
  BY <1>4, <1>5, <1>6, <1>9, <1>10 DEF AnsweredTo

LEMMA PublishKeeps ==
  ASSUME ServerInv, NEW i \in Job, Publish(i)
  PROVE  ServerInv'
<1>1. FilesAre' /\ Loaded' = Loaded
  BY FilesStay DEF Publish, ServerInv, client
<1>2. PICK f \in Files : f = jobs[i].path
  BY JobFacts
<1>3. /\ JobIs(jobs[i]) /\ Fields = DOMAIN jobs[i] /\ i \in DOMAIN jobs /\ jobs[i].pc = "publish"
      /\ f \in Loaded /\ ParsedIs(jobs, f, parsed[f])
  BY <1>2, JobFacts DEF Publish, At
<1>4. PICK res : res = jobs[i].res /\ IsAnswer(res)
  BY <1>3 DEF JobIs
<1>5. PICK W : W = IF parsed[f].tag = "busy" THEN ToSet(parsed[f].senders) ELSE {}
  OBVIOUS
<1>6. PICK c : c = IF jobs[i].canceled THEN "end" ELSE "notify"
  OBVIOUS
<1>7. PICK p : p = IF jobs[i].canceled THEN None ELSE Ready(<<jobs[i].version, jobs[i].toks>>, res, jobs[i].deps)
  OBVIOUS
<1>8. p.tag \in {"none", "ready"} /\ (p.tag = "ready" => IsAnswer(p.res))
  BY <1>4, <1>7 DEF None, Ready
<1>9. \A n \in DOMAIN jobs : n \in W <=> (jobs[n].pc = "wait" /\ jobs[n].path = f)
  <2>1. \A n \in DOMAIN jobs : jobs[n].pc = "wait" /\ jobs[n].path = f => n \in W
    BY <1>2, <1>5 DEF ServerInv, Consistent, WaitsFor, ToSet
  <2>2. \A n \in W : jobs[n].pc = "wait" /\ jobs[n].path = f
    BY <1>3, <1>5 DEF ParsedIs, ToSet
  <2>3. QED
    BY <2>1, <2>2
<1>10. /\ parsed' = [g \in Files |-> parsed'[g]] /\ parsed'[f] = p
       /\ \A g \in Files : g # f => parsed'[g] = parsed[g]
  <2>1. parsed' = [parsed EXCEPT ![f] = p]
    BY <1>2, <1>4, <1>7 DEF Publish
  <2>2. QED
    BY <2>1 DEF ServerInv, Consistent
<1>11. /\ DOMAIN jobs' = DOMAIN jobs
       /\ jobs'[i] = [jobs[i] EXCEPT !.pc = c]
       /\ \A n \in W \cap DOMAIN jobs : jobs'[n] = [jobs[n] EXCEPT !.res = res, !.pc = "end"]
       /\ \A n \in DOMAIN jobs : n # i /\ n \notin W => jobs'[n] = jobs[n]
  <2>1. jobs' = Answered([jobs EXCEPT ![i].pc = c], W, res)
    BY <1>2, <1>4, <1>5, <1>6 DEF Publish, Cache, Path
  <2>2. i \notin W
    BY <1>3, <1>9
  <2>3. QED
    BY <1>3, <2>1, <2>2 DEF Answered
<1>12. \A n \in DOMAIN jobs :
         /\ JobIs(jobs'[n]) /\ jobs'[n].path = jobs[n].path
         /\ jobs'[n].send = jobs[n].send /\ jobs'[n].recv = jobs[n].recv
         /\ n = i => jobs'[n].pc \in {"end", "notify"}
         /\ n # i /\ n \in W => jobs'[n].pc = "end"
         /\ n # i /\ n \notin W => jobs'[n].pc = jobs[n].pc
  <2>1. SUFFICES ASSUME NEW n \in DOMAIN jobs
                 PROVE  /\ JobIs(jobs'[n]) /\ jobs'[n].path = jobs[n].path
                        /\ jobs'[n].send = jobs[n].send /\ jobs'[n].recv = jobs[n].recv
                        /\ n = i => jobs'[n].pc \in {"end", "notify"}
                        /\ n # i /\ n \in W => jobs'[n].pc = "end"
                        /\ n # i /\ n \notin W => jobs'[n].pc = jobs[n].pc
    OBVIOUS
  <2>2. JobIs(jobs[n]) /\ DOMAIN jobs[n] = Fields
    BY DEF ServerInv, Consistent, JobIs
  <2>3. CASE n = i
    <3>1. PICK v : v = [jobs[i] EXCEPT !.pc = c]
      OBVIOUS
    <3>2. v.pc = c /\ v.res = jobs[i].res /\ Quiet(v, jobs[i]) /\ c \in {"end", "notify"}
      BY <1>3, <1>6, <3>1 DEF Quiet, Fields
    <3>3. JobIs(v)
      BY <1>3, <1>4, <3>2 DEF JobIs, Quiet, AtWork
    <3>4. QED
      BY <1>11, <2>3, <3>1, <3>2, <3>3 DEF Quiet
  <2>4. CASE n # i /\ n \in W
    <3>1. PICK v : v = [jobs[n] EXCEPT !.res = res, !.pc = "end"]
      OBVIOUS
    <3>2. v.pc = "end" /\ v.res = res /\ Quiet(v, jobs[n])
      BY <2>2, <3>1 DEF Quiet, Fields
    <3>3. JobIs(v)
      BY <1>4, <2>2, <3>2 DEF JobIs, Quiet, AtWork
    <3>4. QED
      BY <1>11, <2>4, <3>1, <3>2, <3>3 DEF Quiet
  <2>5. CASE n # i /\ n \notin W
    BY <1>11, <2>2, <2>5
  <2>6. QED
    BY <2>3, <2>4, <2>5
<1>13. \A n \in DOMAIN jobs' : JobIs(jobs'[n]) /\ (jobs'[n].pc # "start" => jobs'[n].path \in Loaded)
  BY <1>2, <1>3, <1>9, <1>11, <1>12 DEF Consistent, ServerInv
<1>14. \A g \in Files : ParsedIs(jobs', g, parsed'[g])
  <2>1. ParsedIs(jobs', f, p)
    BY <1>8 DEF ParsedIs
  <2>2. \A g \in Files : g # f => ParsedIs(jobs', g, parsed[g])
    <3>1. \A n \in DOMAIN jobs : jobs[n].path # f => jobs'[n].path = jobs[n].path /\ jobs'[n].pc = jobs[n].pc
      BY <1>2, <1>9, <1>12
    <3>2. \A g \in Files : ParsedIs(jobs, g, parsed[g])
      BY DEF ServerInv, Consistent
    <3>3. DOMAIN jobs' = DOMAIN jobs
      BY <1>11
    <3>4. QED
      BY <3>1, <3>2, <3>3 DEF ParsedIs
  <2>3. QED
    BY <1>10, <2>1, <2>2
<1>15. \A n \in DOMAIN jobs' : jobs'[n].pc = "wait" => WaitsFor(parsed'[jobs'[n].path], n)
  <2>1. SUFFICES ASSUME NEW n \in DOMAIN jobs', jobs'[n].pc = "wait"
                 PROVE  WaitsFor(parsed'[jobs'[n].path], n)
    OBVIOUS
  <2>2. n \in DOMAIN jobs /\ n # i /\ n \notin W /\ jobs[n].pc = "wait" /\ jobs'[n].path = jobs[n].path
    BY <1>11, <1>12, <2>1
  <2>3. jobs[n].path # f /\ jobs[n].path \in Files /\ WaitsFor(parsed[jobs[n].path], n)
    BY <1>9, <2>2 DEF ServerInv, Consistent, JobIs
  <2>4. QED
    BY <1>10, <2>2, <2>3
<1>16. Consistent(jobs', parsed', Loaded)
  BY <1>10, <1>11, <1>13, <1>14, <1>15 DEF Consistent, ServerInv
<1>17. Answerable(jobs')
  <2>1. \A n \in DOMAIN jobs : jobs'[n].send = jobs[n].send /\ jobs'[n].recv = jobs[n].recv
    BY <1>12
  <2>2. DOMAIN jobs' = DOMAIN jobs
    BY <1>11
  <2>3. SUFFICES ASSUME NEW n \in DOMAIN jobs, NEW k \in DOMAIN jobs[n].recv, jobs[n].recv[k] = Pending
                 PROVE  \E m \in DOMAIN jobs : jobs'[m].send = <<n, k>>
    BY <2>1, <2>2 DEF Answerable
  <2>4. PICK m \in DOMAIN jobs : jobs[m].send = <<n, k>>
    BY <2>3 DEF Answerable, ServerInv
  <2>5. QED
    BY <2>1, <2>4
<1>18. QED
  BY <1>1, <1>16, <1>17 DEF ServerInv

LEMMA EndKeeps ==
  ASSUME ServerInv, NEW i \in Job, End(i)
  PROVE  ServerInv'
<1>1. FilesAre' /\ Loaded' = Loaded
  BY FilesStay DEF End, ServerInv, client
<1>2. JobIs(jobs[i]) /\ i \in DOMAIN jobs /\ jobs[i].pc = "end"
  BY JobFacts DEF End, At
<1>3. PICK res : res = jobs[i].res /\ IsAnswer(res)
  BY <1>2 DEF JobIs
<1>4. PICK t, k : t = jobs[i].send[1] /\ k = jobs[i].send[2]
  OBVIOUS
<1>5. PICK told : told = (jobs[i].send # <<>> /\ t \in Job \ {i})
  OBVIOUS
<1>6. DOMAIN jobs' = DOMAIN jobs \ {i}
  BY <1>4, <1>5 DEF End, Job
<1>7. \A n \in DOMAIN jobs \ {i} :
        IF told /\ n = t THEN jobs'[n] = [jobs[n] EXCEPT !.recv[k] = res] ELSE jobs'[n] = jobs[n]
  BY <1>3, <1>4, <1>5 DEF End, Job
<1>8. \A n \in DOMAIN jobs' :
        /\ n \in DOMAIN jobs /\ n # i
        /\ JobIs(jobs'[n]) /\ jobs'[n].path = jobs[n].path /\ jobs'[n].pc = jobs[n].pc
        /\ jobs'[n].send = jobs[n].send
        /\ DOMAIN jobs'[n].recv = DOMAIN jobs[n].recv
        /\ \A m \in DOMAIN jobs[n].recv :
             IF told /\ n = t /\ m = k THEN jobs'[n].recv[m] = res ELSE jobs'[n].recv[m] = jobs[n].recv[m]
  <2>1. SUFFICES ASSUME NEW n \in DOMAIN jobs'
                 PROVE  /\ n \in DOMAIN jobs /\ n # i
                        /\ JobIs(jobs'[n]) /\ jobs'[n].path = jobs[n].path /\ jobs'[n].pc = jobs[n].pc
                        /\ jobs'[n].send = jobs[n].send
                        /\ DOMAIN jobs'[n].recv = DOMAIN jobs[n].recv
                        /\ \A m \in DOMAIN jobs[n].recv :
                             IF told /\ n = t /\ m = k THEN jobs'[n].recv[m] = res
                             ELSE jobs'[n].recv[m] = jobs[n].recv[m]
    OBVIOUS
  <2>2. n \in DOMAIN jobs /\ n # i /\ JobIs(jobs[n])
    BY <1>6 DEF ServerInv, Consistent
  <2>3. CASE told /\ n = t
    <3>1. PICK v : v = [jobs[n] EXCEPT !.recv[k] = res]
      OBVIOUS
    <3>2. AnsweredTo(v, jobs[n], k, res)
      BY <1>3, <2>2, <3>1, AnsweredIs
    <3>3. jobs'[n] = v
      BY <1>7, <2>2, <2>3, <3>1
    <3>4. QED
      BY <2>2, <2>3, <3>2, <3>3 DEF AnsweredTo
  <2>4. CASE ~(told /\ n = t)
    <3>1. jobs'[n] = jobs[n]
      BY <1>7, <2>2, <2>4
    <3>2. QED
      BY <2>2, <2>4, <3>1
  <2>5. QED
    BY <2>3, <2>4
<1>9. IsFiniteSet(DOMAIN jobs')
  <2>1. IsFiniteSet(DOMAIN jobs)
    BY DEF ServerInv, Consistent
  <2>2. QED
    BY <1>6, <2>1, FS_Subset
<1>10. parsed' = parsed
  BY DEF End
<1>11. \A f \in Files : ParsedIs(jobs', f, parsed[f])
  <2>1. \A n \in DOMAIN jobs : n # i => n \in DOMAIN jobs' /\ jobs'[n].path = jobs[n].path /\ jobs'[n].pc = jobs[n].pc
    BY <1>6, <1>8
  <2>2. jobs[i].pc \notin AtWork \cup {"wait"}
    BY <1>2 DEF AtWork
  <2>3. \A f \in Files : ParsedIs(jobs, f, parsed[f])
    BY DEF ServerInv, Consistent
  <2>4. QED
    BY <2>1, <2>2, <2>3 DEF ParsedIs
<1>12. Consistent(jobs', parsed', Loaded)
  BY <1>8, <1>9, <1>10, <1>11 DEF Consistent, ServerInv
<1>13. Answerable(jobs')
  <2>1. SUFFICES ASSUME NEW n \in DOMAIN jobs', NEW m \in DOMAIN jobs'[n].recv, jobs'[n].recv[m] = Pending
                 PROVE  \E j \in DOMAIN jobs' : jobs'[j].send = <<n, m>>
    BY DEF Answerable
  <2>2. n \in DOMAIN jobs /\ n # i /\ m \in DOMAIN jobs[n].recv
    BY <1>8
  <2>3. Pending # res
    BY <1>3 DEF Pending, IsAnswer
  <2>4. ~(told /\ n = t /\ m = k) /\ jobs[n].recv[m] = Pending
    BY <1>8, <2>1, <2>2, <2>3
  <2>5. PICK j \in DOMAIN jobs : jobs[j].send = <<n, m>>
    BY <2>2, <2>4 DEF ServerInv, Answerable
  <2>6. j # i
    <3>1. SUFFICES ASSUME j = i PROVE FALSE
      OBVIOUS
    <3>2. t = n /\ k = m /\ jobs[i].send # <<>>
      BY <1>4, <2>5, <3>1
    <3>3. told
      BY <1>5, <2>2, <3>2 DEF Job
    <3>4. QED
      BY <2>4, <3>2, <3>3
  <2>7. j \in DOMAIN jobs' /\ jobs'[j].send = <<n, m>>
    BY <1>6, <1>8, <2>5, <2>6
  <2>8. QED
    BY <2>7
<1>14. QED
  BY <1>1, <1>12, <1>13 DEF ServerInv

-----------------------------------------------------------------------------
(* The jobs spawned for no other job. *)
LEMMA DepChangeKeeps ==
  ASSUME NEW js, NEW ps, NEW loaded, Consistent(js, ps, loaded), Answerable(js),
         NEW fs \in SUBSET Files, IsFiniteSet(fs)
  PROVE  Consistent(Spawned(js, DepChange(fs)), ps, loaded) /\ Answerable(Spawned(js, DepChange(fs)))
<1>1. PICK new : new = DepChange(fs)
  OBVIOUS
<1>2. IsFiniteSet(new) /\ \A u \in new : JobIs(u) /\ u.pc = "start" /\ u.recv = <<>>
  BY <1>1, DepChangeFacts
<1>3. Consistent(Spawned(js, new), ps, loaded)
  BY <1>2, ConsistentSpawned
<1>4. IsFiniteSet(DOMAIN js)
  BY DEF Consistent
<1>5. Answerable(Spawned(js, new))
  BY <1>2, <1>4, AnswerableSpawned
<1>6. QED
  BY <1>1, <1>3, <1>5

LEMMA TellKeeps ==
  ASSUME ServerInv, NEW i \in Job, Tell(i)
  PROVE  ServerInv'
<1>1. /\ JobIs(jobs[i]) /\ Fields = DOMAIN jobs[i] /\ i \in DOMAIN jobs /\ jobs[i].pc = "notify"
      /\ jobs[i].path \in Files /\ jobs[i].path \in Loaded
  BY JobFacts DEF Tell, At
<1>2. FilesAre' /\ Loaded' = Loaded
  BY FilesStay DEF Tell, ServerInv, client
<1>3. PICK v : v = [jobs[i] EXCEPT !.pc = "end"]
  OBVIOUS
<1>4. PICK js : js = [jobs EXCEPT ![i].pc = "end"]
  OBVIOUS
<1>5. MovedTo(js, jobs, i, v)
  BY <1>1, <1>3, <1>4 DEF MovedTo
<1>6. v.pc = "end" /\ v.res = jobs[i].res /\ Quiet(v, jobs[i])
  BY <1>1, <1>3 DEF Quiet, Fields
<1>7. JobIs(v)
  BY <1>1, <1>6 DEF JobIs, Quiet, AtWork
<1>8. Consistent(js, parsed, Loaded)
  BY <1>1, <1>5, <1>6, <1>7, ConsistentMoved DEF Quiet, ServerInv, AtWork
<1>9. Answerable(js)
  BY <1>1, <1>5, <1>6, AnswerableMoved DEF Quiet, ServerInv
<1>10. PICK fs \in SUBSET Files : fs = downstream[Path(i)] /\ IsFiniteSet(fs)
  BY <1>1 DEF ServerInv, FilesAre, Path
<1>11. jobs' = Spawned(js, DepChange(fs)) /\ parsed' = parsed
  BY <1>4, <1>10 DEF Tell
<1>12. QED
  BY <1>2, <1>8, <1>9, <1>10, <1>11, DepChangeKeeps DEF ServerInv

LEMMA NotifyKeeps ==
  ASSUME ServerInv, NEW f \in Files, NEW t \in project.texts[f],
         OpenLoaded(f) \/ OpenNew(f, t) \/ Change(f, t)
  PROVE  ServerInv'
<1>1. Consistent(jobs, parsed, Loaded) /\ Answerable(jobs)
  BY DEF ServerInv
<1>0. PICK one : one = {f}
  OBVIOUS
<1>2. one = {f} /\ one \in SUBSET Files /\ IsFiniteSet(one)
  BY <1>0, FS_Singleton
<1>3. t \in Seq(Files)
  BY ServerAssumption DEF ServerInv, FilesAre
<1>4. CASE OpenLoaded(f)
  <2>1. PICK fs \in SUBSET Files : fs = downstream[f] /\ IsFiniteSet(fs)
    BY DEF ServerInv, FilesAre
  <2>2. PICK js : js = Spawned(jobs, DepChange(fs))
    OBVIOUS
  <2>3. Consistent(js, parsed, Loaded) /\ Answerable(js)
    BY <1>1, <2>1, <2>2, DepChangeKeeps
  <2>4. jobs' = Spawned(js, DepChange(one)) /\ UNCHANGED <<parsed, project, vfs, downstream>>
    BY <1>2, <1>4, <2>1, <2>2 DEF OpenLoaded
  <2>5. FilesAre' /\ Loaded' = Loaded
    BY <2>4, FilesStay DEF ServerInv
  <2>6. QED
    BY <1>2, <2>3, <2>4, <2>5, DepChangeKeeps DEF ServerInv
<1>5. CASE OpenNew(f, t) \/ Change(f, t)
  <2>1. FilesAre' /\ Loaded \subseteq Loaded'
    <3>1. PICK g, x : g = [version |-> x, text |-> t]
                      /\ (\/ vfs' = [h \in Loaded \cup {f} |-> IF h = f THEN g ELSE vfs[h]]
                          \/ vfs' = [vfs EXCEPT ![f] = g])
      BY <1>5 DEF OpenNew, Change
    <3>2. g.text = t
      BY <3>1
    <3>3. /\ DOMAIN vfs' \in {Loaded, Loaded \cup {f}} /\ vfs' = [h \in DOMAIN vfs' |-> vfs'[h]]
          /\ \A h \in DOMAIN vfs' : vfs'[h] = g \/ (h \in Loaded /\ vfs'[h] = vfs[h])
      BY <3>1 DEF ServerInv, FilesAre, Loaded
    <3>4. \A h \in DOMAIN vfs' : vfs'[h].text \in Seq(Files)
      BY <1>3, <3>2, <3>3 DEF ServerInv, FilesAre
    <3>5. UNCHANGED <<project, downstream>>
      BY <1>5 DEF OpenNew, Change
    <3>6. QED
      BY <3>3, <3>4, <3>5 DEF ServerInv, FilesAre, Loaded
  <2>2. jobs' = Spawned(jobs, DepChange(one)) /\ parsed' = parsed
    BY <1>2, <1>5 DEF OpenNew, Change
  <2>3. Consistent(jobs, parsed, Loaded')
    BY <1>1, <2>1, ConsistentLoaded
  <2>4. QED
    BY <1>1, <1>2, <2>1, <2>2, <2>3, DepChangeKeeps DEF ServerInv
<1>6. QED
  BY <1>4, <1>5

LEMMA OpenLoadedHasText ==
  ASSUME NEW f, OpenLoaded(f)
  PROVE  \E t : t \in project.texts[f]
  BY DEF OpenLoaded, Notify

LEMMA ShutdownKeeps ==
  ASSUME ServerInv, Shutdown
  PROVE  ServerInv'
<1>1. FilesAre' /\ Loaded' = Loaded
  BY FilesStay DEF Shutdown, ServerInv
<1>2. Consistent(jobs, parsed, Loaded) /\ Answerable(jobs)
  BY DEF ServerInv
<1>3. DOMAIN jobs' = DOMAIN jobs /\ \A n \in DOMAIN jobs : jobs'[n] = [jobs[n] EXCEPT !.cancel = TRUE]
  BY DEF Shutdown, Job
<1>4. \A n \in DOMAIN jobs : Same([jobs[n] EXCEPT !.cancel = TRUE], jobs[n])
  BY <1>2, CanceledIs DEF Consistent
<1>5. \A n \in DOMAIN jobs : Same(jobs'[n], jobs[n])
  BY <1>3, <1>4
<1>6. Consistent(jobs', parsed, Loaded) /\ Answerable(jobs')
  BY <1>2, <1>3, <1>5, SameKeeps
<1>7. QED
  BY <1>1, <1>6 DEF ServerInv, Shutdown

LEMMA JobsStart ==
  ASSUME Init
  PROVE  ServerInv
<1>1. PICK u : jobs = [i \in {} |-> u]
  BY DEF Init
<1>2. DOMAIN jobs = {} /\ IsFiniteSet(DOMAIN jobs)
  BY <1>1, FS_EmptySet
<1>3. Loaded = {} /\ vfs = [f \in Loaded |-> vfs[f]]
  BY DEF Init, Loaded
<1>4. downstream \in [Files -> SUBSET Files] /\ \A f \in Files : IsFiniteSet(downstream[f])
  BY FS_EmptySet DEF Init
<1>5. FilesAre
  BY <1>3, <1>4 DEF Init, FilesAre
<1>6. parsed = [f \in Files |-> parsed[f]] /\ \A f \in Files : parsed[f].tag = "none"
  BY DEF Init, None
<1>7. Consistent(jobs, parsed, Loaded)
  BY <1>2, <1>6 DEF Consistent, ParsedIs
<1>8. Answerable(jobs)
  BY <1>2 DEF Answerable
<1>9. QED
  BY <1>5, <1>7, <1>8 DEF ServerInv

LEMMA JobStepKeeps ==
  ASSUME ServerInv, NEW i \in Job, JobStep(i)
  PROVE  ServerInv'
<1>1. \/ Start(i) \/ LockNone(i) \/ LockWaits(i) \/ LockSupersedes(i) \/ LockReady(i) \/ LockStale(i)
      \/ ReadText(i) \/ (\E p \in Files : ImportCloses(i, p) \/ ImportReady(i, p) \/ ImportSpawns(i, p))
      \/ ElabStmts(i) \/ Await(i) \/ Check(i) \/ SendDiagnostics(i) \/ UpdateDownstream(i)
      \/ Publish(i) \/ Tell(i) \/ End(i)
  BY DEF JobStep
<1>2. CASE \E p \in Files : ImportCloses(i, p) \/ ImportReady(i, p) \/ ImportSpawns(i, p)
  BY <1>2, ImportAnsweredKeeps, ImportSpawnsKeeps
<1>3. QED
  BY <1>1, <1>2, StartKeeps, LockBeginsKeeps, LockWaitsKeeps, LockReadyKeeps, ReadTextKeeps,
     ElabStmtsKeeps, AwaitKeeps, CheckKeeps, SendDiagnosticsKeeps, UpdateDownstreamKeeps,
     PublishKeeps, TellKeeps, EndKeeps

LEMMA ServerStepKeeps ==
  ASSUME ServerInv, [Next]_vars
  PROVE  ServerInv'
<1>1. CASE \E f \in Files : OpenLoaded(f)
  BY <1>1, OpenLoadedHasText, NotifyKeeps
<1>2. CASE \E f \in Files : \E t \in project.texts[f] : OpenNew(f, t) \/ Change(f, t)
  BY <1>2, NotifyKeeps
<1>3. CASE Shutdown
  BY <1>3, ShutdownKeeps
<1>4. CASE Jobs
  BY <1>4, JobStepKeeps DEF Jobs
<1>5. CASE UNCHANGED vars
  BY <1>5 DEF vars, ServerInv, FilesAre, Loaded
<1>6. QED
  BY <1>1, <1>2, <1>3, <1>4, <1>5 DEF Next

(* Whatever the client does, the files import and the order of the steps,  *)
(* the jobs, what is known of the files, and the lists of those who wait   *)
(* agree with each other.                                                  *)
THEOREM JobsInductive == Spec => []ServerInv
<1>1. Init => ServerInv
  BY JobsStart
<1>2. ServerInv /\ [Next]_vars => ServerInv'
  BY ServerStepKeeps
<1>3. QED
  BY <1>1, <1>2, PTL DEF Spec

(* No wait is lost: whoever found its file in progress, or has asked for an *)
(* import, has a job that owes it the answer; and a file in progress has a  *)
(* job at work on it.  (Jobs may still owe each other, where files import   *)
(* each other.)                                                             *)
THEOREM ServerNoLostWaiter == Spec => []NoLostWaiter
<1>1. ServerInv => NoLostWaiter
  <2>1. SUFFICES ASSUME ServerInv PROVE NoLostWaiter
    OBVIOUS
  <2>2. \A i \in Job : At(i, "wait") => WaitsFor(Cache(i), i)
    BY <2>1, JobFacts DEF At, Cache, Path
  <2>3. \A i \in Job : \A k \in DOMAIN jobs[i].recv :
          jobs[i].recv[k] = Pending => \E j \in Job : jobs[j].send = <<i, k>>
    BY <2>1 DEF ServerInv, Answerable, Job
  <2>4. \A f \in Files : parsed[f].tag = "busy" =>
          parsed[f].job \in Job /\ jobs[parsed[f].job].path = f /\ jobs[parsed[f].job].pc \in AtWork
    BY <2>1 DEF ServerInv, Consistent, ParsedIs, Job
  <2>5. QED
    BY <2>2, <2>3, <2>4 DEF NoLostWaiter, WaitsFor, Path
<1>2. QED
  BY <1>1, JobsInductive, PTL

-----------------------------------------------------------------------------
(* What the server knows at rest. *)

(* No file is reached by two ways: only up[f] ever imports f, and once, and *)
(* no file imports itself through others.                                   *)
ImportsOf(f, text, up, rank) ==
  \A k \in DOMAIN text :
    /\ up[text[k]] = f /\ rank[text[k]] < rank[f]
    /\ \A l \in DOMAIN text : text[l] = text[k] => l = k

Tree(p, up, rank) ==
  /\ up \in [Files -> Files] /\ rank \in [Files -> Nat]
  /\ \A f \in Files : \A text \in {p.disk[f]} \cup p.texts[f] : ImportsOf(f, text, up, rank)

IsForest(p) == \E up, rank : Tree(p, up, rank)

Early == {"start", "lock"}
Asking == {"import", "elab", "await"}
Asked == {"check", "diag", "update", "publish", "notify"}
Working == AtWork \cup {"notify"}

(* The answer r is what is known of file p. *)
Tells(ps, p, r) == ps[p].tag = "ready" /\ r = Ok(ps[p].hash)

(* How far job u, at number i, is with its file, of which t is the version  *)
(* and text and d the version of the diagnostics: nobody cancels it, nobody *)
(* else is at work on the file, and what it was told is still so.           *)
Doing(u, i, ps, t, d) ==
  /\ ~u.cancel /\ ~u.canceled /\ ~u.cyc /\ u.pc # "wait"
  /\ u.pc # "start" => u.v = t.version
  /\ u.pc \in AtWork => ps[u.path] = InProgress(t.version, i, <<>>)
  /\ u.pc \in Early \cup {"read"} => u.deps = <<>> /\ u.toks = <<>>
  /\ u.pc \in Asking \cup Asked => u.imports = t.text /\ u.version = t.version
  /\ u.pc = "import" => u.toks = <<>> /\ u.deps = SubSeq(t.text, 1, u.next - 1)
  /\ u.pc \in {"elab", "await"} \cup Asked => u.deps = t.text
  /\ u.pc \in {"elab", "await"} =>
       /\ IsList(u.toks) /\ u.next = Len(u.toks) + 1 /\ u.next <= Len(t.text) + 1
       /\ \A k \in 1..Len(u.toks) : u.recv[k] = Ok(u.toks[k])
  /\ u.pc \in Asking =>
       \A k \in DOMAIN u.recv : u.recv[k] = Pending \/ Tells(ps, t.text[k], u.recv[k])
  /\ u.pc \in Asked =>
       /\ \A k \in DOMAIN t.text : ps[t.text[k]].tag = "ready"
       /\ u.toks = [k \in DOMAIN t.text |-> ps[t.text[k]].hash]
  /\ u.pc \in Asked \ {"check"} => u.res = Ok(<<t.version, u.toks>>)
  /\ u.pc \in {"update", "publish", "notify"} => d = t.version
  /\ u.pc = "update" => u.next \in Nat
  /\ u.pc = "diag" => u.next = 1
  /\ u.pc = "notify" => ps[u.path] = Ready(<<t.version, u.toks>>, u.res, t.text)
  /\ (u.pc = "end" /\ u.send # <<>>) => Tells(ps, u.path, u.res)

(* The result for file f is about its text t and about what is known of its *)
(* imports, those in O aside.                                               *)
Settled(ps, t, d, f, O) ==
  /\ d = t.version
  /\ ps[f].tag = "ready"
  /\ ps[f].hash = <<t.version, ps[f].hash[2]>>
  /\ ps[f].deps = t.text
  /\ ps[f].hash[2] = [k \in DOMAIN t.text |-> ps[f].hash[2][k]]
  /\ \A k \in DOMAIN t.text : t.text[k] \in O \/ Tells(ps, t.text[k], Ok(ps[f].hash[2][k]))

(* The jobs not ended are of three kinds.  One leads: it is at work on file *)
(* x, or will be, and goes on to the file that imports x.                   *)
Leads(u, ps, t, d, x) ==
  /\ u.path = x /\ u.send = <<>>
  /\ u.pc \in Early =>
       \/ ps[x] = None
       \/ /\ ps[x].tag = "ready"
          /\ ps[x].hash[1] = t.version => ps[x].deps = t.text /\ d = t.version

(* Others read, for a job at work, a file that was not loaded. *)
Reads(u, ps, ds, rank, x) ==
  /\ u.send # <<>> /\ rank[u.path] < rank[x]
  /\ ds[u.path] = {}
  /\ u.pc \in Early => ps[u.path] = None

Ended(js, f) == \A j \in DOMAIN js : js[j].path = f => js[j].pc = "end"

(* Others will find that there is nothing to do. *)
Idle(js, ps, vs, dg, rank, x, i) ==
  LET f == js[i].path IN
  /\ js[i].pc \in Early /\ rank[f] < rank[x]
  /\ Settled(ps, vs[f], dg[f], f, {})
  /\ \A k \in DOMAIN vs[f].text : Ended(js, vs[f].text[k])

Kind(js, ps, vs, ds, dg, rank, x, i) ==
  LET u == js[i] f == u.path IN
  \/ Leads(u, ps, vs[f], dg[f], x)
  \/ Reads(u, ps, ds, rank, x)
  \/ Idle(js, ps, vs, dg, rank, x, i)

Alone(js, i) == \A j \in DOMAIN js : j # i /\ js[j].path = js[i].path => js[j].pc = "end"

(* Job i owes an answer to an import of another, and no other job does. *)
Owes(js, i) ==
  LET s == js[i].send IN
  s # <<>> =>
    /\ s = <<s[1], s[2]>>
    /\ s[1] \in DOMAIN js /\ js[s[1]].pc \in Asking
    /\ s[2] \in DOMAIN js[s[1]].recv /\ js[s[1]].recv[s[2]] = Pending
    /\ js[s[1]].imports[s[2]] = js[i].path
    /\ \A j \in DOMAIN js : js[j].send = s => j = i

(* The importers of x may not know of it yet. *)
Behind(js, x) == {f \in {x} : \E i \in DOMAIN js : js[i].path = f /\ js[i].pc \in Working}

(* Is the file of job u known to depend on p? *)
Told(u, p) == \E m \in DOMAIN Visited(u) : m < u.next /\ Visited(u)[m] = p
Counts(u, p) ==
  CASE u.pc = "publish" -> p \in ToSet(u.deps)
    [] u.pc = "update" -> IF p \in ToSet(u.old_deps) THEN p \in ToSet(u.deps) \/ ~Told(u, p) ELSE Told(u, p)
    [] OTHER -> p \in ToSet(u.old_deps)

DependsOn(js, ps, g, p) ==
  \/ ps[g].tag = "ready" /\ p \in ToSet(ps[g].deps)
  \/ ps[g].tag = "busy" /\ Counts(js[ps[g].job], p)

IsDeps(deps, f, vs, up, rank) ==
  deps \in Seq(Files) /\ \A k \in DOMAIN deps : deps[k] \in DOMAIN vs /\ up[deps[k]] = f /\ rank[deps[k]] < rank[f]

Knows(u, vs, up, rank) ==
  /\ IsDeps(u.old_deps, u.path, vs, up, rank) /\ IsDeps(u.deps, u.path, vs, up, rank)
  /\ IsList(u.rd) /\ \A k \in DOMAIN u.rd : u.rd[k] \in Files /\ rank[u.path] < rank[u.rd[k]]

WaveJob(js, ps, vs, ds, dg, up, rank, x, i) ==
  LET u == js[i] f == u.path IN
  /\ f \in DOMAIN vs
  /\ Doing(u, i, ps, vs[f], dg[f])
  /\ Knows(u, vs, up, rank)
  /\ Owes(js, i)
  /\ u.pc # "end" =>
       /\ Kind(js, ps, vs, ds, dg, rank, x, i)
       /\ Alone(js, i) \/ Idle(js, ps, vs, dg, rank, x, i)

WaveFile(js, ps, vs, dg, op, up, rank, x, E, f) ==
  /\ vs[f].version \in Nat /\ vs[f].version <= op[f]
  /\ ImportsOf(f, vs[f].text, up, rank)
  /\ Ended(js, f) /\ f \notin E => Settled(ps, vs[f], dg[f], f, Behind(js, x))

WaveParsed(ps, vs, up, rank, op, f) ==
  /\ f \notin DOMAIN vs => ps[f] = None /\ op[f] = 0
  /\ ps[f].tag = "ready" =>
       ps[f] = Ready(ps[f].hash, Ok(ps[f].hash), ps[f].deps) /\ IsDeps(ps[f].deps, f, vs, up, rank)

KnowsImporters(js, ps, ds) == \A f, p \in Files : f \in ds[p] <=> DependsOn(js, ps, f, p)

Wave(js, ps, vs, ds, dg, op, up, rank, x, E) ==
  /\ DOMAIN js = {} \/ x \in Files
  /\ \A i \in DOMAIN js : WaveJob(js, ps, vs, ds, dg, up, rank, x, i)
  /\ \A f \in DOMAIN vs : WaveFile(js, ps, vs, dg, op, up, rank, x, E, f)
  /\ \A f \in Files : WaveParsed(ps, vs, up, rank, op, f)
  /\ KnowsImporters(js, ps, ds)
  /\ op \in [Files -> Nat] /\ dg = [f \in Files |-> dg[f]]

WaveNow(up, rank, x, E) == Wave(jobs, parsed, vfs, downstream, diag, opened, up, rank, x, E)

FreshInv ==
  (project.patient /\ ~stopping) =>
    \A up, rank : Tree(project, up, rank) => \E x : WaveNow(up, rank, x, {})

-----------------------------------------------------------------------------
(* What a job has been told stays true while what it has seen does.         *)
SeesSame(u, t, ps, ps2) ==
  /\ (u.pc # "end" \/ u.send # <<>>) => ps2[u.path] = ps[u.path]
  /\ u.pc \in Asking => \A k \in DOMAIN u.recv : u.recv[k] = Pending \/ ps2[t.text[k]] = ps[t.text[k]]
  /\ u.pc \in Asked => \A k \in DOMAIN t.text : ps2[t.text[k]] = ps[t.text[k]]

LEMMA DoingStays ==
  ASSUME NEW u, NEW i, NEW ps, NEW ps2, NEW t, NEW d, NEW d2,
         Doing(u, i, ps, t, d), d2 \in {d, t.version}, SeesSame(u, t, ps, ps2)
  PROVE  Doing(u, i, ps2, t, d2)
<1>1. u.pc \in AtWork \cup {"notify"} => ps2[u.path] = ps[u.path]
  BY DEF SeesSame, AtWork
<1>2. u.pc \in Asking =>
        \A k \in DOMAIN u.recv : u.recv[k] = Pending \/ Tells(ps2, t.text[k], u.recv[k])
  BY DEF Doing, SeesSame, Tells
<1>3. u.pc \in Asked =>
       /\ \A k \in DOMAIN t.text : ps2[t.text[k]].tag = "ready"
       /\ u.toks = [k \in DOMAIN t.text |-> ps2[t.text[k]].hash]
  BY DEF Doing, SeesSame
<1>4. (u.pc = "end" /\ u.send # <<>>) => Tells(ps2, u.path, u.res)
  BY DEF Doing, SeesSame, Tells
<1> QED BY <1>1, <1>2, <1>3, <1>4 DEF Doing

LEMMA SettledStays ==
  ASSUME NEW ps, NEW ps2, NEW t, NEW d, NEW d2, NEW f, NEW O, NEW O2,
         Settled(ps, t, d, f, O), d2 \in {d, t.version}, ps2[f] = ps[f],
         \A k \in DOMAIN t.text :
           t.text[k] \in O2 \/ (t.text[k] \notin O /\ ps2[t.text[k]] = ps[t.text[k]])
  PROVE  Settled(ps2, t, d2, f, O2)
<1>1. \A k \in DOMAIN t.text : t.text[k] \in O2 \/ Tells(ps2, t.text[k], Ok(ps2[f].hash[2][k]))
  BY DEF Settled, Tells
<1> QED BY <1>1 DEF Settled

(* A job not ended goes on from u to v. *)
Goes(u, v) ==
  /\ v.path = u.path /\ v.send = u.send /\ v.rd = u.rd
  /\ u.pc # "end" /\ v.pc # "end"
  /\ v.pc \in Early => u.pc \in Early
  /\ u.pc \in Working => v.pc \in Working
  /\ u.pc \in Asking =>
       \A k \in DOMAIN u.recv : u.recv[k] = Pending =>
         v.pc \in Asking /\ v.imports = u.imports /\ k \in DOMAIN v.recv /\ v.recv[k] = Pending

LEMMA OwesMoved ==
  ASSUME NEW js, NEW i \in DOMAIN js, NEW v, NEW s, MovedTo(s, js, i, v), Goes(js[i], v),
         NEW j \in DOMAIN js, Owes(js, j)
  PROVE  Owes(s, j)
<1>1. DOMAIN s = DOMAIN js /\ \A n \in DOMAIN js : s[n].send = js[n].send /\ s[n].path = js[n].path
  BY DEF MovedTo, Goes
<1>2. SUFFICES ASSUME js[j].send # <<>> PROVE Owes(s, j)
  BY <1>1 DEF Owes
<1> DEFINE a == js[j].send[1]
           k == js[j].send[2]
<1>3. /\ js[j].send = <<a, k>> /\ a \in DOMAIN js /\ js[a].pc \in Asking
      /\ k \in DOMAIN js[a].recv /\ js[a].recv[k] = Pending /\ js[a].imports[k] = js[j].path
      /\ \A n \in DOMAIN js : js[n].send = js[j].send => n = j
  BY <1>2 DEF Owes
<1>4. s[a].pc \in Asking /\ k \in DOMAIN s[a].recv /\ s[a].recv[k] = Pending /\ s[a].imports = js[a].imports
  BY <1>3 DEF MovedTo, Goes
<1> QED BY <1>1, <1>3, <1>4 DEF Owes

(* Nobody else is concerned that what is known of the file of job i changes. *)
Unseen(js, ps, ps2, vs, i) ==
  /\ \A g \in Files : g # js[i].path => ps2[g] = ps[g]
  /\ \A j \in DOMAIN js : j # i => SeesSame(js[j], vs[js[j].path], ps, ps2)

Typed(js, vs, up, rank) ==
  /\ \A i \in DOMAIN js : JobIs(js[i])
  /\ DOMAIN vs \subseteq Files /\ \A f \in DOMAIN vs : vs[f].text \in Seq(Files)
  /\ up \in [Files -> Files] /\ rank \in [Files -> Nat]

LEMMA IdleStays ==
  ASSUME NEW js, NEW ps, NEW vs, NEW dg, NEW up, NEW rank, NEW x, NEW j \in DOMAIN js,
         Typed(js, vs, up, rank), js[j].path \in DOMAIN vs, Idle(js, ps, vs, dg, rank, x, j),
         NEW s, j \in DOMAIN s, s[j].path = js[j].path, s[j].pc \in Early,
         \A k \in DOMAIN vs[js[j].path].text : Ended(s, vs[js[j].path].text[k]),
         NEW dg2, dg2[js[j].path] \in {dg[js[j].path], vs[js[j].path].version},
         NEW ps2, ps2[js[j].path] = ps[js[j].path],
         \A k \in DOMAIN vs[js[j].path].text : ps2[vs[js[j].path].text[k]] = ps[vs[js[j].path].text[k]]
  PROVE  Idle(s, ps2, vs, dg2, rank, x, j)
<1> DEFINE f == js[j].path
<1>1. Settled(ps, vs[f], dg[f], f, {}) /\ rank[f] < rank[x]
  BY DEF Idle
<1>2. Settled(ps2, vs[f], dg2[f], f, {})
  <2> HIDE DEF f
  <2> QED BY <1>1, SettledStays DEF f
<1> QED BY <1>1, <1>2 DEF Idle

(* A step of job i that does not end it. *)
LEMMA MoveWave ==
  ASSUME NEW js, NEW ps, NEW vs, NEW ds, NEW dg, NEW op, NEW up, NEW rank, NEW x, NEW E,
         Typed(js, vs, up, rank), Wave(js, ps, vs, ds, dg, op, up, rank, x, E),
         NEW i \in DOMAIN js, NEW v, NEW s, MovedTo(s, js, i, v), Goes(js[i], v),
         NEW ps2, NEW ds2, NEW dg2, Unseen(js, ps, ps2, vs, i),
         \/ ps2 = ps /\ (v.pc \in Early \/ ~Idle(js, ps, vs, dg, rank, x, i))
         \/ /\ js[i].path = x \/ ps[js[i].path].tag # "ready"
            /\ v.pc \in Working /\ ~Idle(js, ps, vs, dg, rank, x, i),
         dg2 = [g \in Files |-> dg2[g]],
         \A g \in DOMAIN vs : dg2[g] \in {dg[g], vs[g].version},
         \A j \in DOMAIN js : Reads(js[j], ps, ds, rank, x) => ds2[js[j].path] = {},
         Doing(v, i, ps2, vs[v.path], dg2[v.path]), Knows(v, vs, up, rank),
         \A f \in Files : WaveParsed(ps2, vs, up, rank, op, f),
         KnowsImporters(s, ps2, ds2)
  PROVE  Wave(s, ps2, vs, ds2, dg2, op, up, rank, x, E)
<1>1. /\ DOMAIN s = DOMAIN js /\ s[i] = v /\ \A n \in DOMAIN js : n # i => s[n] = js[n]
      /\ v.path = js[i].path /\ js[i].pc # "end" /\ v.pc # "end"
  BY DEF MovedTo, Goes
<1>2. \A f : Ended(s, f) <=> Ended(js, f)
  BY <1>1 DEF Ended
<1>3. \A j \in DOMAIN js : WaveJob(js, ps, vs, ds, dg, up, rank, x, j)
  BY DEF Wave
<1>4. ASSUME NEW j \in DOMAIN js, j = i => v.pc \in Early /\ ps2 = ps, Idle(js, ps, vs, dg, rank, x, j)
      PROVE  Idle(s, ps2, vs, dg2, rank, x, j)
  <2> DEFINE f == js[j].path
  <2>1. f \in DOMAIN vs /\ s[j].path = f /\ s[j].pc \in Early
    BY <1>1, <1>3, <1>4 DEF WaveJob, Idle
  <2>2. \A k \in DOMAIN vs[f].text : Ended(js, vs[f].text[k])
    BY <1>4 DEF Idle
  <2>3. \A k \in DOMAIN vs[f].text : vs[f].text[k] # js[i].path /\ vs[f].text[k] \in Files
    BY <1>1, <2>1, <2>2 DEF Ended, Typed
  <2>4. ps2[f] = ps[f]
    <3>1. CASE j = i
      BY <1>4, <3>1
    <3>2. CASE j # i
      <4>1. SeesSame(js[j], vs[f], ps, ps2) /\ js[j].pc # "end"
        BY <1>4, <3>2 DEF Unseen, Idle, Early
      <4> QED BY <4>1 DEF SeesSame
    <3> QED BY <3>1, <3>2
  <2>5. \A k \in DOMAIN vs[f].text : ps2[vs[f].text[k]] = ps[vs[f].text[k]]
    BY <2>3 DEF Unseen
  <2>6. dg2[f] \in {dg[f], vs[f].version}
    BY <2>1
  <2>7. \A k \in DOMAIN vs[f].text : Ended(s, vs[f].text[k])
    BY <1>2, <2>2
  <2> QED BY <1>1, <1>4, <2>1, <2>4, <2>5, <2>6, <2>7, IdleStays
<1>5. \A j \in DOMAIN js : Alone(js, j) => Alone(s, j)
  BY <1>1 DEF Alone
<1>6. WaveJob(s, ps2, vs, ds2, dg2, up, rank, x, i)
  <2> DEFINE f == js[i].path
  <2>1. /\ f \in DOMAIN vs /\ Owes(js, i) /\ Kind(js, ps, vs, ds, dg, rank, x, i)
        /\ Alone(js, i) \/ Idle(js, ps, vs, dg, rank, x, i)
    BY <1>1, <1>3 DEF WaveJob
  <2>2. Owes(s, i)
    BY <2>1, OwesMoved
  <2>3. v.pc \notin Early => ~Idle(js, ps, vs, dg, rank, x, i)
    BY DEF Working, Early, AtWork
  <2>4. v.pc \in Early => ps2 = ps /\ js[i].pc \in Early
    BY DEF Working, Early, AtWork, Goes
  <2>5. Leads(js[i], ps, vs[f], dg[f], x) => Leads(v, ps2, vs[f], dg2[f], x)
    BY <2>1, <2>4 DEF Leads, Goes
  <2>6. Reads(js[i], ps, ds, rank, x) => Reads(v, ps2, ds2, rank, x)
    BY <2>1, <2>4 DEF Reads, Goes
  <2>7. Idle(js, ps, vs, dg, rank, x, i) => Idle(s, ps2, vs, dg2, rank, x, i)
    BY <1>4, <2>3, <2>4
  <2>8. Kind(s, ps2, vs, ds2, dg2, rank, x, i)
    BY <1>1, <2>1, <2>5, <2>6, <2>7 DEF Kind
  <2> QED BY <1>1, <1>5, <2>1, <2>2, <2>7, <2>8 DEF WaveJob
<1>7. ASSUME NEW j \in DOMAIN js, j # i PROVE WaveJob(s, ps2, vs, ds2, dg2, up, rank, x, j)
  <2> DEFINE f == js[j].path
  <2>1. /\ f \in DOMAIN vs /\ Owes(js, j) /\ Doing(js[j], j, ps, vs[f], dg[f]) /\ Knows(js[j], vs, up, rank)
        /\ js[j].pc # "end" => /\ Kind(js, ps, vs, ds, dg, rank, x, j)
                               /\ Alone(js, j) \/ Idle(js, ps, vs, dg, rank, x, j)
    BY <1>3 DEF WaveJob
  <2>2. SeesSame(js[j], vs[f], ps, ps2) /\ dg2[f] \in {dg[f], vs[f].version}
    BY <1>7, <2>1 DEF Unseen
  <2>3. s[j] = js[j] /\ Owes(s, j)
    BY <1>1, <1>7, <2>1, OwesMoved
  <2>4. Doing(s[j], j, ps2, vs[f], dg2[f])
    <3> HIDE DEF f
    <3> QED BY <2>1, <2>2, <2>3, DoingStays DEF f
  <2>5. js[j].pc # "end" => ps2[f] = ps[f]
    BY <2>2 DEF SeesSame
  <2>6. Idle(js, ps, vs, dg, rank, x, j) => Idle(s, ps2, vs, dg2, rank, x, j)
    BY <1>4, <1>7
  <2>7. js[j].pc # "end" => Kind(s, ps2, vs, ds2, dg2, rank, x, j)
    <3>1. SUFFICES ASSUME js[j].pc # "end", Kind(js, ps, vs, ds, dg, rank, x, j)
                   PROVE  Kind(s, ps2, vs, ds2, dg2, rank, x, j)
      BY <2>1
    <3>2. Leads(js[j], ps, vs[f], dg[f], x) => Leads(s[j], ps2, vs[f], dg2[f], x)
      BY <2>2, <2>3, <2>5, <3>1 DEF Leads
    <3>3. Reads(js[j], ps, ds, rank, x) => Reads(s[j], ps2, ds2, rank, x)
      BY <2>3, <2>5, <3>1 DEF Reads
    <3> QED BY <2>3, <2>6, <3>1, <3>2, <3>3 DEF Kind
  <2> QED BY <1>5, <2>1, <2>3, <2>4, <2>6, <2>7 DEF WaveJob
<1>8. ASSUME NEW f \in DOMAIN vs PROVE WaveFile(s, ps2, vs, dg2, op, up, rank, x, E, f)
  <2>1. /\ vs[f].version \in Nat /\ vs[f].version <= op[f] /\ ImportsOf(f, vs[f].text, up, rank)
        /\ Ended(js, f) /\ f \notin E => Settled(ps, vs[f], dg[f], f, Behind(js, x))
    BY DEF Wave, WaveFile
  <2>2. SUFFICES ASSUME Ended(js, f), f \notin E PROVE Settled(ps2, vs[f], dg2[f], f, Behind(s, x))
    BY <1>2, <2>1 DEF WaveFile
  <2>3. Settled(ps, vs[f], dg[f], f, Behind(js, x)) /\ dg2[f] \in {dg[f], vs[f].version}
    BY <2>1, <2>2
  <2>4. f # js[i].path /\ f \in Files /\ ps2[f] = ps[f]
    BY <1>1, <2>2 DEF Ended, Unseen, Typed
  <2>5. Behind(js, x) \subseteq Behind(s, x)
    BY <1>1 DEF Behind, Goes
  <2>6. ASSUME NEW k \in DOMAIN vs[f].text, vs[f].text[k] \notin Behind(s, x)
        PROVE  vs[f].text[k] \notin Behind(js, x) /\ ps2[vs[f].text[k]] = ps[vs[f].text[k]]
    <3>1. vs[f].text[k] \notin Behind(js, x) /\ vs[f].text[k] \in Files
      BY <2>5, <2>6 DEF Typed
    <3>2. Tells(ps, vs[f].text[k], Ok(ps[f].hash[2][k]))
      BY <2>3, <3>1 DEF Settled
    <3>3. CASE vs[f].text[k] = js[i].path /\ ps2 # ps
      <4>1. js[i].path = x /\ v.pc \in Working
        BY <3>2, <3>3 DEF Tells
      <4> QED BY <1>1, <2>6, <3>3, <4>1 DEF Behind
    <3>4. CASE vs[f].text[k] # js[i].path
      BY <3>1, <3>4 DEF Unseen
    <3> QED BY <3>1, <3>3, <3>4
  <2> HIDE DEF Behind
  <2> QED BY <2>3, <2>4, <2>6, SettledStays
<1> QED BY <1>1, <1>6, <1>7, <1>8 DEF Wave

(* Who sees the result of a file that a job is at work on. *)
LEMMA JobRank ==
  ASSUME NEW js, NEW ps, NEW vs, NEW ds, NEW dg, NEW op, NEW up, NEW rank, NEW x, NEW E,
         Typed(js, vs, up, rank), Wave(js, ps, vs, ds, dg, op, up, rank, x, E),
         NEW i \in DOMAIN js
  PROVE  /\ x \in Files /\ js[i].path \in DOMAIN vs /\ js[i].path \in Files
         /\ rank[js[i].path] \in Nat /\ rank[x] \in Nat
         /\ js[i].pc # "end" => rank[js[i].path] <= rank[x]
<1>1. x \in Files /\ WaveJob(js, ps, vs, ds, dg, up, rank, x, i)
  BY DEF Wave
<1>2. js[i].path \in DOMAIN vs /\ js[i].path \in Files
  BY <1>1 DEF WaveJob, Typed
<1>3. rank[js[i].path] \in Nat /\ rank[x] \in Nat
  BY <1>1, <1>2 DEF Typed
<1>4. js[i].pc # "end" => js[i].path = x \/ rank[js[i].path] < rank[x]
  BY <1>1 DEF WaveJob, Kind, Leads, Reads, Idle
<1> QED BY <1>1, <1>2, <1>3, <1>4

Sees(js, vs, up, rank, i) ==
  LET t == vs[js[i].path].text IN
  /\ js[i].imports = t /\ t \in Seq(Files)
  /\ js[i].pc \in Asking => DOMAIN js[i].recv \subseteq DOMAIN t
  /\ \A k \in DOMAIN t :
       /\ t[k] \in Files /\ up[t[k]] = js[i].path /\ rank[t[k]] < rank[js[i].path]
       /\ \A l \in DOMAIN t : t[l] = t[k] => l = k

LEMMA ImportIs ==
  ASSUME NEW js, NEW ps, NEW vs, NEW ds, NEW dg, NEW op, NEW up, NEW rank, NEW x, NEW E,
         Typed(js, vs, up, rank), Wave(js, ps, vs, ds, dg, op, up, rank, x, E),
         NEW i \in DOMAIN js, js[i].pc \in Asking \cup Asked
  PROVE  Sees(js, vs, up, rank, i)
<1> DEFINE f == js[i].path
           t == vs[f].text
<1>1. /\ f \in DOMAIN vs /\ Doing(js[i], i, ps, vs[f], dg[f])
  BY DEF Wave, WaveJob
<1>2. js[i].imports = t /\ t \in Seq(Files) /\ ImportsOf(f, t, up, rank)
  BY <1>1 DEF Doing, Typed, Wave, WaveFile
<1>3. js[i].pc \in Asking => DOMAIN js[i].recv \subseteq DOMAIN t
  <2>1. SUFFICES ASSUME js[i].pc \in Asking PROVE DOMAIN js[i].recv \subseteq DOMAIN t
    OBVIOUS
  <2>2. JobIs(js[i])
    BY DEF Typed
  <2>3. Len(t) \in Nat /\ DOMAIN t = 1..Len(t)
    BY <1>2
  <2>4. Len(js[i].recv) \in Nat /\ DOMAIN js[i].recv = 1..Len(js[i].recv) /\ Len(js[i].recv) <= Len(t)
    <3> HIDE DEF t
    <3> QED BY <1>2, <2>1, <2>2, <2>3 DEF JobIs, IsList, Asking
  <2> QED BY <2>3, <2>4
<1> QED BY <1>2, <1>3 DEF ImportsOf, Sees

LEMMA AskersAreOne ==
  ASSUME NEW js, NEW ps, NEW vs, NEW ds, NEW dg, NEW op, NEW up, NEW rank, NEW x, NEW E,
         Wave(js, ps, vs, ds, dg, op, up, rank, x, E),
         NEW i \in DOMAIN js, js[i].pc \notin Early, NEW j \in DOMAIN js, js[j].path = js[i].path,
         js[i].pc # "end", js[j].pc # "end"
  PROVE  i = j
<1>1. Alone(js, i) \/ Idle(js, ps, vs, dg, rank, x, i)
  BY DEF Wave, WaveJob
<1> QED BY <1>1 DEF Alone, Idle

LEMMA OwedIs ==
  ASSUME NEW js, NEW ps, NEW vs, NEW ds, NEW dg, NEW op, NEW up, NEW rank, NEW x, NEW E,
         Typed(js, vs, up, rank), Wave(js, ps, vs, ds, dg, op, up, rank, x, E),
         NEW i \in DOMAIN js, js[i].send # <<>>
  PROVE  \E a, k :
           /\ a \in DOMAIN js /\ js[i].send = <<a, k>> /\ js[a].pc \in Asking
           /\ k \in DOMAIN js[a].recv /\ js[a].recv[k] = Pending
           /\ k \in DOMAIN vs[js[a].path].text /\ vs[js[a].path].text[k] = js[i].path
           /\ \A j \in DOMAIN js : js[j].send = js[i].send => j = i
<1>1. Owes(js, i)
  BY DEF Wave, WaveJob
<1>2. PICK a, k :
         /\ a \in DOMAIN js /\ js[i].send = <<a, k>> /\ js[a].pc \in Asking
         /\ k \in DOMAIN js[a].recv /\ js[a].recv[k] = Pending
         /\ js[a].imports[k] = js[i].path
         /\ \A j \in DOMAIN js : js[j].send = js[i].send => j = i
  BY <1>1 DEF Owes
<1>3. k \in DOMAIN vs[js[a].path].text /\ vs[js[a].path].text[k] = js[i].path
  BY <1>2, ImportIs DEF Sees
<1> QED BY <1>2, <1>3

LEMMA OnlyAskersSee ==
  ASSUME NEW js, NEW ps, NEW vs, NEW ds, NEW dg, NEW op, NEW up, NEW rank, NEW x, NEW E,
         Typed(js, vs, up, rank), Wave(js, ps, vs, ds, dg, op, up, rank, x, E),
         NEW i \in DOMAIN js, js[i].pc # "end", ~Idle(js, ps, vs, dg, rank, x, i),
         NEW j \in DOMAIN js, j # i
  PROVE  /\ js[j].path = js[i].path /\ js[j].pc = "end" => js[j].send = <<>>
         /\ js[j].pc \in Asking => \A k \in DOMAIN js[j].recv :
              vs[js[j].path].text[k] = js[i].path => js[j].recv[k] = Pending
         /\ js[j].pc \in Asked => \A k \in DOMAIN vs[js[j].path].text : vs[js[j].path].text[k] # js[i].path
<1> DEFINE p == js[i].path
           t(n) == vs[js[n].path].text
<1>1. Leads(js[i], ps, vs[p], dg[p], x) \/ Reads(js[i], ps, ds, rank, x)
  BY DEF Wave, WaveJob, Kind
<1>2. CASE p = x
  <2>1. ASSUME NEW n \in DOMAIN js, js[n].pc \in Asking \cup Asked, NEW k \in DOMAIN t(n), t(n)[k] = p PROVE FALSE
    <3>0. Sees(js, vs, up, rank, n)
      BY <2>1, ImportIs
    <3>1. rank[x] < rank[js[n].path]
      BY <1>2, <2>1, <3>0 DEF Sees
    <3>2. /\ rank[js[n].path] <= rank[x] /\ rank[js[n].path] \in Nat /\ rank[x] \in Nat
      BY <2>1, JobRank DEF Asking, Asked
    <3> QED BY <3>1, <3>2
  <2>2. js[j].path = p => js[j].send = <<>>
    <3>1. SUFFICES ASSUME js[j].path = p, js[j].send # <<>> PROVE FALSE
      OBVIOUS
    <3>2. PICK a, k : a \in DOMAIN js /\ js[j].send = <<a, k>> /\ js[a].pc \in Asking /\ k \in DOMAIN t(a) /\ t(a)[k] = p
      BY <3>1, OwedIs
    <3> QED BY <2>1, <3>2
  <2>3. js[j].pc \in Asking => DOMAIN js[j].recv \subseteq DOMAIN t(j)
    BY ImportIs DEF Sees
  <2> QED BY <2>1, <2>2, <2>3
<1>3. CASE Reads(js[i], ps, ds, rank, x)
  <2>1. js[i].send # <<>>
    BY <1>3 DEF Reads
  <2>2. PICK a, k0 :
           /\ a \in DOMAIN js /\ js[i].send = <<a, k0>> /\ js[a].pc \in Asking
           /\ k0 \in DOMAIN js[a].recv /\ js[a].recv[k0] = Pending
           /\ k0 \in DOMAIN t(a) /\ t(a)[k0] = p
           /\ \A n \in DOMAIN js : js[n].send = js[i].send => n = i
    BY <2>1, OwedIs
  <2>3. ASSUME NEW n \in DOMAIN js, js[n].pc \in Asking \cup Asked, NEW k \in DOMAIN t(n), t(n)[k] = p
        PROVE  n = a /\ k = k0
    <3>0. Sees(js, vs, up, rank, n) /\ Sees(js, vs, up, rank, a)
      BY <2>2, <2>3, ImportIs
    <3>1. up[p] = js[n].path
      BY <2>3, <3>0 DEF Sees
    <3>2. up[p] = js[a].path /\ \A l \in DOMAIN t(a) : t(a)[l] = p => l = k0
      BY <2>2, <3>0 DEF Sees
    <3>3. n = a
      BY <2>2, <2>3, <3>1, <3>2, AskersAreOne DEF Asking, Asked, Early
    <3> QED BY <2>3, <3>2, <3>3
  <2>4. js[j].path = p /\ js[j].pc = "end" => js[j].send = <<>>
    <3>1. SUFFICES ASSUME js[j].path = p, js[j].send # <<>> PROVE FALSE
      OBVIOUS
    <3>2. PICK b, k : b \in DOMAIN js /\ js[j].send = <<b, k>> /\ js[b].pc \in Asking /\ k \in DOMAIN t(b) /\ t(b)[k] = p
      BY <3>1, OwedIs
    <3>3. b = a /\ k = k0
      BY <2>3, <3>2
    <3> QED BY <2>2, <3>2, <3>3
  <2>5. js[j].pc \in Asking => DOMAIN js[j].recv \subseteq DOMAIN t(j)
    BY ImportIs DEF Sees
  <2>6. ASSUME js[j].pc \in Asking, NEW k \in DOMAIN js[j].recv, t(j)[k] = p PROVE js[j].recv[k] = Pending
    BY <2>2, <2>3, <2>5, <2>6
  <2>7. ASSUME js[j].pc \in Asked, NEW k \in DOMAIN t(j) PROVE t(j)[k] # p
    BY <2>2, <2>3, <2>7 DEF Asking, Asked
  <2> QED BY <2>4, <2>6, <2>7
<1> QED BY <1>1, <1>2, <1>3 DEF Leads

(* What becomes known of the file of a job that is alone with it concerns   *)
(* nobody.                                                                  *)
LEMMA AloneUnseen ==
  ASSUME NEW js, NEW ps, NEW vs, NEW ds, NEW dg, NEW op, NEW up, NEW rank, NEW x, NEW E,
         Typed(js, vs, up, rank), Wave(js, ps, vs, ds, dg, op, up, rank, x, E),
         NEW i \in DOMAIN js, js[i].pc # "end", ~Idle(js, ps, vs, dg, rank, x, i),
         NEW ps2, \A g \in Files : g # js[i].path => ps2[g] = ps[g]
  PROVE  Unseen(js, ps, ps2, vs, i)
<1>1. Alone(js, i)
  BY DEF Wave, WaveJob
<1>2. ASSUME NEW j \in DOMAIN js, j # i PROVE SeesSame(js[j], vs[js[j].path], ps, ps2)
  <2>1. /\ js[j].path = js[i].path /\ js[j].pc = "end" => js[j].send = <<>>
        /\ js[j].pc \in Asking => \A k \in DOMAIN js[j].recv :
             vs[js[j].path].text[k] = js[i].path => js[j].recv[k] = Pending
        /\ js[j].pc \in Asked => \A k \in DOMAIN vs[js[j].path].text : vs[js[j].path].text[k] # js[i].path
    BY <1>2, OnlyAskersSee
  <2>2. js[j].path \in Files
    BY JobRank
  <2>3. js[j].pc # "end" => js[j].path # js[i].path
    BY <1>1, <1>2 DEF Alone
  <2>4. js[j].pc \in Asking \cup Asked =>
          /\ \A k \in DOMAIN vs[js[j].path].text : vs[js[j].path].text[k] \in Files
          /\ js[j].pc \in Asking => DOMAIN js[j].recv \subseteq DOMAIN vs[js[j].path].text
    BY ImportIs DEF Sees
  <2> QED BY <2>1, <2>2, <2>3, <2>4 DEF SeesSame
<1> QED BY <1>2 DEF Unseen

-----------------------------------------------------------------------------
(* The steps by which a job goes on and nothing new is known of its file.   *)
LEMMA StateTyped ==
  ASSUME ServerInv, NEW up, NEW rank, Tree(project, up, rank)
  PROVE  Typed(jobs, vfs, up, rank)
  BY DEF ServerInv, FilesAre, Consistent, Tree, Typed, Loaded

LEMMA WaveJobNow ==
  ASSUME NEW up, NEW rank, NEW x, NEW E, WaveNow(up, rank, x, E), NEW i \in Job
  PROVE  /\ WaveJob(jobs, parsed, vfs, downstream, diag, up, rank, x, i)
         /\ x \in Files /\ i \in DOMAIN jobs
         /\ Doing(jobs[i], i, parsed, vfs[jobs[i].path], diag[jobs[i].path])
         /\ Knows(jobs[i], vfs, up, rank)
  BY DEF WaveNow, Wave, Job, WaveJob

LEMMA GoOnWith ==
  ASSUME ServerInv, NEW up, NEW rank, NEW vs, Typed(jobs, vs, up, rank), NEW x, NEW E,
         Wave(jobs, parsed, vs, downstream, diag, opened, up, rank, x, E),
         NEW i \in Job, NEW v, NEW s, MovedTo(s, jobs, i, v), Goes(jobs[i], v), NEW dg2,
         dg2 = [g \in Files |-> dg2[g]], \A g \in DOMAIN vs : dg2[g] \in {diag[g], vs[g].version},
         v.pc \in Early \/ jobs[i].pc \notin Early,
         Doing(v, i, parsed, vs[v.path], dg2[v.path]), Knows(v, vs, up, rank),
         \A p \in Files : Counts(v, p) <=> Counts(jobs[i], p)
  PROVE  Wave(s, parsed, vs, downstream, dg2, opened, up, rank, x, E)
<1>1. i \in DOMAIN jobs
  BY DEF Job
<1>3. Unseen(jobs, parsed, parsed, vs, i)
  BY DEF Unseen, SeesSame
<1>4. \A f \in Files : WaveParsed(parsed, vs, up, rank, opened, f)
  BY DEF Wave
<1>5. KnowsImporters(s, parsed, downstream)
  <2>1. \A g \in Files : parsed[g].tag = "busy" => parsed[g].job \in DOMAIN jobs
    BY DEF ServerInv, Consistent, ParsedIs
  <2>2. \A n \in DOMAIN jobs : \A p \in Files : Counts(s[n], p) <=> Counts(jobs[n], p)
    BY DEF MovedTo
  <2>3. \A g, p \in Files : DependsOn(s, parsed, g, p) <=> DependsOn(jobs, parsed, g, p)
    BY <2>1, <2>2 DEF DependsOn
  <2> QED BY <2>3 DEF Wave, KnowsImporters
<1>6. \A j \in DOMAIN jobs : Reads(jobs[j], parsed, downstream, rank, x) => downstream[jobs[j].path] = {}
  BY DEF Reads
<1>7. v.pc \in Early \/ ~Idle(jobs, parsed, vs, diag, rank, x, i)
  BY DEF Idle
<1> QED BY <1>1, <1>3, <1>4, <1>5, <1>6, <1>7, MoveWave

LEMMA GoOn ==
  ASSUME ServerInv, NEW up, NEW rank, Tree(project, up, rank), NEW x, NEW E, WaveNow(up, rank, x, E),
         NEW i \in Job, NEW v, MovedTo(jobs', jobs, i, v), Goes(jobs[i], v),
         UNCHANGED <<parsed, vfs, opened, downstream>>,
         diag' = [g \in Files |-> diag'[g]], \A g \in Loaded : diag'[g] \in {diag[g], vfs[g].version},
         v.pc \in Early \/ jobs[i].pc \notin Early,
         Doing(v, i, parsed, vfs[v.path], diag'[v.path]), Knows(v, vfs, up, rank),
         \A p \in Files : Counts(v, p) <=> Counts(jobs[i], p)
  PROVE  WaveNow(up, rank, x, E)'
<1>1. Typed(jobs, vfs, up, rank)
  BY StateTyped
<1>2. Wave(jobs, parsed, vfs, downstream, diag, opened, up, rank, x, E)
  BY DEF WaveNow
<1>3. Wave(jobs', parsed, vfs, downstream, diag', opened, up, rank, x, E)
  BY <1>1, <1>2, GoOnWith DEF Loaded
<1> QED BY <1>3 DEF WaveNow

(* The fields of a job that a step leaves alone. *)
Kept(v, u, F) == DOMAIN v = Fields /\ \A k \in Fields \ F : v[k] = u[k]

LEMMA StartGoesOn ==
  ASSUME ServerInv, NEW up, NEW rank, Tree(project, up, rank), NEW x, WaveNow(up, rank, x, {}),
         NEW i \in Job, Start(i)
  PROVE  WaveNow(up, rank, x, {})'
<1> DEFINE u == jobs[i]
           f == jobs[i].path
<1>1. /\ JobIs(u) /\ Fields = DOMAIN u /\ i \in DOMAIN jobs /\ u.pc = "start"
  BY JobFacts DEF Start, At
<1>2. Doing(u, i, parsed, vfs[f], diag[f]) /\ Knows(u, vfs, up, rank) /\ f \in Loaded
  BY WaveJobNow DEF WaveJob, Loaded
<1>3. vfs' = vfs
  <2>1. vfs = [g \in Loaded |-> vfs[g]] /\ Loaded \cup {f} = Loaded
    BY <1>2 DEF ServerInv, FilesAre
  <2> QED BY <1>2, <2>1 DEF Start, GetOrInsert, Path
<1>4. PICK v : v = [u EXCEPT !.v = vfs[f].version, !.pc = "lock"]
  OBVIOUS
<1>5. MovedTo(jobs', jobs, i, v)
  BY <1>1, <1>3, <1>4 DEF MovedTo, Start, Path
<1>6. Kept(v, u, {"v", "pc"}) /\ v.pc = "lock" /\ v.v = vfs[f].version
  BY <1>1, <1>4 DEF Kept, Fields
<1>7. /\ v.path = u.path /\ v.send = u.send /\ v.rd = u.rd /\ v.cancel = u.cancel
      /\ v.canceled = u.canceled /\ v.cyc = u.cyc /\ v.deps = u.deps /\ v.toks = u.toks
      /\ v.old_deps = u.old_deps
  BY <1>6 DEF Kept, Fields
<1>8. Doing(v, i, parsed, vfs[f], diag[f])
  BY <1>1, <1>2, <1>6, <1>7 DEF Doing, AtWork, Asking, Asked, Early
<1>9. Goes(u, v) /\ Knows(v, vfs, up, rank)
  BY <1>1, <1>2, <1>6, <1>7 DEF Goes, Early, Working, AtWork, Asking, Knows
<1>10. \A p \in Files : Counts(v, p) <=> Counts(u, p)
  BY <1>1, <1>6, <1>7 DEF Counts
<1>11. UNCHANGED <<parsed, opened, downstream, diag>> /\ diag = [g \in Files |-> diag[g]]
  BY DEF Start, client, WaveNow, Wave
<1> QED BY <1>3, <1>5, <1>6, <1>7, <1>8, <1>9, <1>10, <1>11, GoOn DEF Early

LEMMA OkFacts == \A h : Ok(h).tag = "ok" /\ Ok(h).hash = h /\ Ok(h) # Pending
<1>1. Pending.tag = "pending"
  BY DEF Pending
<1>2. ASSUME NEW h PROVE Ok(h).tag = "ok" /\ Ok(h).hash = h
  BY DEF Ok
<1> QED BY <1>1, <1>2

LEMMA ReadTextGoesOn ==
  ASSUME ServerInv, NEW up, NEW rank, Tree(project, up, rank), NEW x, WaveNow(up, rank, x, {}),
         NEW i \in Job, ReadText(i)
  PROVE  WaveNow(up, rank, x, {})'
<1> DEFINE u == jobs[i]
           f == jobs[i].path
           t == vfs[f]
<1>1. /\ JobIs(u) /\ Fields = DOMAIN u /\ i \in DOMAIN jobs /\ u.pc = "read" /\ t.text \in Seq(Files)
  BY JobFacts DEF ReadText, At, ServerInv, FilesAre
<1>2. Doing(u, i, parsed, t, diag[f]) /\ Knows(u, vfs, up, rank)
  BY WaveJobNow
<1>3. PICK c : c = IF t.text = <<>> THEN "elab" ELSE "import"
  OBVIOUS
<1>4. PICK v : v = [u EXCEPT !.version = t.version, !.imports = t.text, !.pc = c]
  OBVIOUS
<1>5. MovedTo(jobs', jobs, i, v)
  BY <1>1, <1>3, <1>4 DEF MovedTo, ReadText, Path
<1>6. Kept(v, u, {"version", "imports", "pc"}) /\ v.pc = c /\ v.version = t.version /\ v.imports = t.text
  BY <1>1, <1>4 DEF Kept, Fields
<1>7. /\ v.path = u.path /\ v.send = u.send /\ v.rd = u.rd /\ v.cancel = u.cancel
      /\ v.canceled = u.canceled /\ v.cyc = u.cyc /\ v.deps = u.deps /\ v.toks = u.toks
      /\ v.old_deps = u.old_deps /\ v.v = u.v /\ v.next = u.next /\ v.recv = u.recv
  BY <1>6 DEF Kept, Fields
<1>8. u.deps = <<>> /\ u.toks = <<>> /\ u.next = 1 /\ DOMAIN u.recv = {} /\ ~u.cancel /\ ~u.canceled /\ ~u.cyc
  BY <1>1, <1>2 DEF Doing, JobIs
<1>9. Doing(v, i, parsed, t, diag[f])
  <2>1. v.v = t.version /\ parsed[f] = InProgress(t.version, i, <<>>)
    BY <1>1, <1>2, <1>7 DEF Doing, AtWork
  <2>2. c \in {"elab", "import"} /\ (c = "elab" => t.text = <<>>)
    BY <1>3
  <2>3. SubSeq(t.text, 1, 1 - 1) = <<>>
    BY <1>1
  <2>4. IsList(<<>>) /\ Len(<<>>) = 0 /\ Len(t.text) \in Nat
    BY <1>1 DEF IsList
  <2>5. 1 = Len(<<>>) + 1 /\ 1 <= Len(t.text) + 1 /\ \A k \in 1..Len(<<>>) : v.recv[k] = Ok(v.toks[k])
    BY <2>4
  <2> HIDE DEF t, f, u
  <2> QED BY <1>6, <1>7, <1>8, <2>1, <2>2, <2>3, <2>4, <2>5 DEF Doing, AtWork, Asking, Asked, Early, f, u
<1>10. Goes(u, v) /\ Knows(v, vfs, up, rank)
  BY <1>1, <1>2, <1>3, <1>6, <1>7 DEF Goes, Early, Working, AtWork, Asking, Knows
<1>11. \A p \in Files : Counts(v, p) <=> Counts(u, p)
  BY <1>1, <1>3, <1>6, <1>7 DEF Counts
<1>12. UNCHANGED <<vfs, parsed, opened, downstream, diag>> /\ diag = [g \in Files |-> diag[g]]
  BY DEF ReadText, client, WaveNow, Wave
<1> QED BY <1>1, <1>5, <1>7, <1>9, <1>10, <1>11, <1>12, GoOn DEF Early

LEMMA ElabStmtsGoesOn ==
  ASSUME ServerInv, NEW up, NEW rank, Tree(project, up, rank), NEW x, WaveNow(up, rank, x, {}),
         NEW i \in Job, ElabStmts(i)
  PROVE  WaveNow(up, rank, x, {})'
<1> DEFINE u == jobs[i]
           f == jobs[i].path
           t == vfs[f]
<1>1. /\ JobIs(u) /\ Fields = DOMAIN u /\ i \in DOMAIN jobs /\ u.pc = "elab" /\ t.text \in Seq(Files)
  BY JobFacts DEF ElabStmts, At, ServerInv, FilesAre
<1>2. Doing(u, i, parsed, t, diag[f]) /\ Knows(u, vfs, up, rank)
  BY WaveJobNow
<1>3. PICK c : c = IF u.next > Len(u.imports) THEN "check" ELSE "await"
  OBVIOUS
<1>4. PICK v : v = [u EXCEPT !.pc = c]
  OBVIOUS
<1>5. MovedTo(jobs', jobs, i, v)
  <2>1. ~u.cancel
    BY <1>2 DEF Doing
  <2> QED BY <1>1, <1>3, <1>4, <2>1 DEF MovedTo, ElabStmts
<1>6. Kept(v, u, {"pc"}) /\ v.pc = c
  BY <1>1, <1>4 DEF Kept, Fields
<1>7. /\ v.path = u.path /\ v.send = u.send /\ v.rd = u.rd /\ v.cancel = u.cancel
      /\ v.canceled = u.canceled /\ v.cyc = u.cyc /\ v.deps = u.deps /\ v.toks = u.toks
      /\ v.old_deps = u.old_deps /\ v.v = u.v /\ v.next = u.next /\ v.recv = u.recv
      /\ v.version = u.version /\ v.imports = u.imports
  BY <1>6 DEF Kept, Fields
<1>8. /\ ~u.cancel /\ ~u.canceled /\ ~u.cyc /\ u.v = t.version
      /\ parsed[f] = InProgress(t.version, i, <<>>)
      /\ u.imports = t.text /\ u.version = t.version /\ u.deps = t.text
      /\ IsList(u.toks) /\ u.next = Len(u.toks) + 1 /\ u.next <= Len(t.text) + 1
      /\ \A k \in 1..Len(u.toks) : u.recv[k] = Ok(u.toks[k])
      /\ \A k \in DOMAIN u.recv : u.recv[k] = Pending \/ Tells(parsed, t.text[k], u.recv[k])
  BY <1>1, <1>2 DEF Doing, AtWork, Asking, Asked
<1>9. c = "check" => /\ \A k \in DOMAIN u.recv : u.recv[k] = Ok(u.toks[k])
                     /\ DOMAIN u.recv = DOMAIN t.text /\ DOMAIN u.toks = DOMAIN t.text
  <2>1. Len(t.text) \in Nat /\ Len(u.toks) \in Nat /\ DOMAIN t.text = 1..Len(t.text)
        /\ DOMAIN u.toks = 1..Len(u.toks) /\ DOMAIN u.recv = 1..Len(t.text)
    BY <1>1, <1>8 DEF IsList, JobIs
  <2>2. c = "check" => u.next > Len(t.text)
    BY <1>3, <1>8
  <2>3. c = "check" => Len(u.toks) = Len(t.text)
    <3> HIDE DEF t, u
    <3> QED BY <1>8, <2>1, <2>2
  <2> QED BY <1>8, <2>1, <2>3
<1>10. c = "check" => /\ \A k \in DOMAIN t.text : parsed[t.text[k]].tag = "ready"
                      /\ u.toks = [k \in DOMAIN t.text |-> parsed[t.text[k]].hash]
  <2>1. SUFFICES ASSUME c = "check"
                 PROVE  /\ \A k \in DOMAIN t.text : parsed[t.text[k]].tag = "ready" /\ u.toks[k] = parsed[t.text[k]].hash
                        /\ u.toks = [k \in DOMAIN t.text |-> u.toks[k]]
    OBVIOUS
  <2>2. ASSUME NEW k \in DOMAIN t.text PROVE parsed[t.text[k]].tag = "ready" /\ u.toks[k] = parsed[t.text[k]].hash
    <3>1. k \in DOMAIN u.recv /\ u.recv[k] = Ok(u.toks[k]) /\ u.recv[k] # Pending
      BY <1>9, <2>1, OkFacts
    <3>2. parsed[t.text[k]].tag = "ready" /\ Ok(u.toks[k]) = Ok(parsed[t.text[k]].hash)
      BY <1>8, <3>1 DEF Tells
    <3> QED BY <3>2, OkFacts
  <2>3. u.toks = [k \in DOMAIN u.toks |-> u.toks[k]]
    BY <1>8 DEF IsList
  <2> QED BY <1>9, <2>1, <2>2, <2>3
<1>11. Doing(v, i, parsed, t, diag[f])
  <2>1. c \in {"check", "await"}
    BY <1>3
  <2> HIDE DEF t, f, u
  <2> QED BY <1>6, <1>7, <1>8, <1>10, <2>1 DEF Doing, AtWork, Asking, Asked, Early, f, u
<1>12. Goes(u, v)
  <2>1. c = "check" => \A k \in DOMAIN u.recv : u.recv[k] # Pending
    BY <1>9, OkFacts
  <2> QED BY <1>1, <1>3, <1>6, <1>7, <2>1 DEF Goes, Early, Working, AtWork, Asking
<1>13. Knows(v, vfs, up, rank)
  BY <1>2, <1>7 DEF Knows
<1>14. \A p \in Files : Counts(v, p) <=> Counts(u, p)
  BY <1>1, <1>3, <1>6, <1>7 DEF Counts
<1>15. UNCHANGED <<vfs, parsed, opened, downstream, diag>> /\ diag = [g \in Files |-> diag[g]]
  BY DEF ElabStmts, client, WaveNow, Wave
<1> QED BY <1>1, <1>5, <1>7, <1>11, <1>12, <1>13, <1>14, <1>15, GoOn DEF Early

LEMMA PrefixGrows ==
  ASSUME NEW S, NEW t \in Seq(S), NEW n \in 1..Len(t)
  PROVE  /\ SubSeq(t, 1, n - 1) \o <<t[n]>> = SubSeq(t, 1, n)
         /\ SubSeq(t, 1, (n + 1) - 1) = SubSeq(t, 1, n)
         /\ SubSeq(t, 1, Len(t)) = t
         /\ SubSeq(t, 1, n) \in Seq(S) /\ DOMAIN SubSeq(t, 1, n) = 1..n
         /\ \A k \in 1..n : SubSeq(t, 1, n)[k] = t[k]
  OBVIOUS

LEMMA ReceivedWave ==
  ASSUME ServerInv, NEW up, NEW rank, NEW vs, Typed(jobs, vs, up, rank), NEW x, NEW E,
         Wave(jobs, parsed, vs, downstream, diag, opened, up, rank, x, E),
         NEW i \in Job, NEW p \in DOMAIN vs, NextImport(i, p),
         NEW res, res = Pending \/ Tells(parsed, p, res)
  PROVE  Wave(Received(i, res, <<p>>), parsed, vs, downstream, diag, opened, up, rank, x, E)
<1> DEFINE u == jobs[i]
           f == jobs[i].path
           t == vs[f]
           n == jobs[i].next
           last == n = Len(t.text)
<1>1. /\ JobIs(u) /\ Fields = DOMAIN u /\ i \in DOMAIN jobs /\ u.pc = "import"
  BY JobFacts DEF NextImport, At
<1>2. Doing(u, i, parsed, t, diag[f]) /\ Knows(u, vs, up, rank) /\ f \in DOMAIN vs /\ t.text \in Seq(Files)
  BY <1>1 DEF Wave, WaveJob, Typed
<1>3. Sees(jobs, vs, up, rank, i)
  BY <1>1, ImportIs DEF Asking
<1>4. /\ ~u.cancel /\ ~u.canceled /\ ~u.cyc /\ u.v = t.version
      /\ parsed[f] = InProgress(t.version, i, <<>>)
      /\ u.imports = t.text /\ u.version = t.version /\ u.deps = SubSeq(t.text, 1, n - 1)
      /\ u.toks = <<>>
      /\ \A k \in DOMAIN u.recv : u.recv[k] = Pending \/ Tells(parsed, t.text[k], u.recv[k])
  BY <1>1, <1>2 DEF Doing, AtWork, Asking, Asked
<1>5. n \in 1..Len(t.text) /\ Len(t.text) \in Nat /\ Len(u.recv) = n - 1 /\ IsList(u.recv) /\ p = t.text[n]
  BY <1>1, <1>2, <1>4 DEF JobIs, NextImport
<1>6. PICK r : r = Append(u.recv, res)
  OBVIOUS
<1>7. /\ DOMAIN r = DOMAIN u.recv \cup {n} /\ \A k \in DOMAIN u.recv : r[k] = u.recv[k]
      /\ r[n] = res
  <2>1. Len(u.recv) + 1 = n
    BY <1>5
  <2> QED BY <1>5, <1>6, <2>1, AppendIsList
<1>8. PICK d : d = u.deps \o <<p>>
  OBVIOUS
<1>9. /\ d = SubSeq(t.text, 1, n) /\ d = SubSeq(t.text, 1, (n + 1) - 1) /\ (last => d = t.text)
      /\ d \in Seq(Files) /\ DOMAIN d = 1..n /\ \A k \in 1..n : d[k] = t.text[k]
  <2>1. t.text \in Seq(Files) /\ n \in 1..Len(t.text) /\ d = SubSeq(t.text, 1, n - 1) \o <<t.text[n]>>
    BY <1>2, <1>4, <1>5, <1>8
  <2> HIDE DEF t, n
  <2> QED BY <2>1, PrefixGrows
<1>10. PICK c, m : c = (IF last THEN "elab" ELSE "import") /\ m = (IF last THEN 1 ELSE n + 1)
  OBVIOUS
<1>11. PICK v : v = [u EXCEPT !.recv = r, !.deps = d, !.next = m, !.pc = c]
  OBVIOUS
<1>12. MovedTo(Received(i, res, <<p>>), jobs, i, v)
  <2>1. Received(i, res, <<p>>) = [jobs EXCEPT ![i] = v]
    BY <1>1, <1>4, <1>6, <1>8, <1>10, <1>11 DEF Received, Fields
  <2> QED BY <1>1, <2>1 DEF MovedTo
<1>13. Kept(v, u, {"recv", "deps", "next", "pc"}) /\ v.recv = r /\ v.deps = d /\ v.next = m /\ v.pc = c
  BY <1>1, <1>11 DEF Kept, Fields
<1>14. /\ v.path = u.path /\ v.send = u.send /\ v.rd = u.rd /\ v.cancel = u.cancel
       /\ v.canceled = u.canceled /\ v.cyc = u.cyc /\ v.toks = u.toks
       /\ v.old_deps = u.old_deps /\ v.v = u.v /\ v.version = u.version /\ v.imports = u.imports
  BY <1>13 DEF Kept, Fields
<1>15. \A k \in DOMAIN r : r[k] = Pending \/ Tells(parsed, t.text[k], r[k])
  BY <1>4, <1>5, <1>7
<1>16. Doing(v, i, parsed, t, diag[f])
  <2>1. c \in {"elab", "import"} /\ (c = "elab" => d = t.text /\ m = 1) /\ (c = "import" => m = n + 1)
    BY <1>9, <1>10
  <2>2. IsList(<<>>) /\ Len(<<>>) = 0
    BY DEF IsList
  <2>3. 1 = Len(<<>>) + 1 /\ 1 <= Len(t.text) + 1 /\ \A k \in 1..Len(<<>>) : r[k] = Ok(v.toks[k])
    BY <1>5, <2>2
  <2>4. c = "import" => d = SubSeq(t.text, 1, m - 1)
    BY <1>9, <2>1
  <2> HIDE DEF t, f, u, n, last
  <2> QED BY <1>4, <1>13, <1>14, <1>15, <2>1, <2>2, <2>3, <2>4 DEF Doing, AtWork, Asking, Asked, Early, f, u
<1>17. Goes(u, v)
  <2>1. c \in {"elab", "import"}
    BY <1>10
  <2>2. \A k \in DOMAIN u.recv : k \in DOMAIN v.recv /\ v.recv[k] = u.recv[k]
    BY <1>7, <1>13
  <2> HIDE DEF u, n
  <2> QED BY <1>1, <1>13, <1>14, <2>1, <2>2 DEF Goes, Early, Working, AtWork, Asking
<1>18. Knows(v, vs, up, rank)
  <2>1. \A k \in 1..n : d[k] \in DOMAIN vs /\ up[d[k]] = f /\ rank[d[k]] < rank[f]
    <3>1. IsDeps(u.deps, f, vs, up, rank)
      BY <1>2 DEF Knows
    <3>2. \A k \in 1..n : k = n \/ k \in 1..(n - 1)
      BY <1>5
    <3>3. \A k \in 1..(n - 1) : k \in DOMAIN u.deps /\ d[k] = u.deps[k]
      <4>1. t.text \in Seq(Files) /\ u.deps = SubSeq(t.text, 1, n - 1) /\ n \in 1..Len(t.text) /\ Len(t.text) \in Nat
        BY <1>2, <1>4, <1>5
      <4>2. \A k \in 1..n : d[k] = t.text[k]
        BY <1>9
      <4> HIDE DEF n, f, t, u
      <4>3. DOMAIN u.deps = 1..(n - 1) /\ \A k \in 1..(n - 1) : u.deps[k] = t.text[k]
        BY <4>1
      <4>4. \A k \in 1..(n - 1) : k \in 1..n
        BY <4>1
      <4> QED BY <4>2, <4>3, <4>4
    <3>4. d[n] = p /\ up[p] = f /\ rank[p] < rank[f]
      <4>1. n \in DOMAIN t.text /\ n \in 1..n
        BY <1>2, <1>5
      <4>2. \A k \in DOMAIN t.text : up[t.text[k]] = f /\ rank[t.text[k]] < rank[f]
        BY <1>3 DEF Sees
      <4>3. up[t.text[n]] = f /\ rank[t.text[n]] < rank[f]
        BY <4>1, <4>2
      <4>4. d[n] = t.text[n]
        BY <1>9, <4>1
      <4> QED BY <1>5, <4>3, <4>4
    <3> HIDE DEF n, f, t
    <3> QED BY <3>1, <3>2, <3>3, <3>4 DEF IsDeps
  <2>2. IsDeps(d, f, vs, up, rank)
    BY <1>9, <2>1 DEF IsDeps
  <2> QED BY <1>2, <1>13, <1>14, <2>2 DEF Knows
<1>19. \A q \in Files : Counts(v, q) <=> Counts(u, q)
  BY <1>1, <1>10, <1>13, <1>14 DEF Counts
<1>20. diag = [g \in Files |-> diag[g]]
  BY DEF Wave
<1> QED BY <1>1, <1>12, <1>14, <1>16, <1>17, <1>18, <1>19, <1>20, GoOnWith DEF Early

LEMMA ImportReadyGoesOn ==
  ASSUME ServerInv, NEW up, NEW rank, Tree(project, up, rank), NEW x, WaveNow(up, rank, x, {}),
         NEW i \in Job, NEW p \in Files, ImportReady(i, p)
  PROVE  WaveNow(up, rank, x, {})'
<1>1. Wave(jobs, parsed, vfs, downstream, diag, opened, up, rank, x, {}) /\ Typed(jobs, vfs, up, rank)
  BY StateTyped DEF WaveNow
<1>2. WaveParsed(parsed, vfs, up, rank, opened, p) /\ parsed[p].tag = "ready"
  BY <1>1 DEF Wave, ImportReady
<1>3. p \in Loaded /\ Tells(parsed, p, parsed[p].res)
  <2>1. parsed[p].tag # None.tag
    BY <1>2 DEF None
  <2>2. p \in Loaded
    BY <1>2, <2>1 DEF WaveParsed, Loaded
  <2>3. parsed[p] = Ready(parsed[p].hash, Ok(parsed[p].hash), parsed[p].deps)
    BY <1>2 DEF WaveParsed
  <2>4. \A h, r, d : Ready(h, r, d).res = r
    BY DEF Ready
  <2>5. parsed[p].res = Ok(parsed[p].hash)
    BY <2>3, <2>4
  <2> QED BY <1>2, <2>2, <2>5 DEF Tells
<1>4. vfs' = vfs
  <2>1. vfs = [g \in Loaded |-> vfs[g]] /\ Loaded \cup {p} = Loaded
    BY <1>3 DEF ServerInv, FilesAre
  <2> QED BY <1>3, <2>1 DEF ImportReady, GetOrInsert
<1>5. Wave(Received(i, parsed[p].res, <<p>>), parsed, vfs, downstream, diag, opened, up, rank, x, {})
  <2>1. p \in DOMAIN vfs /\ NextImport(i, p)
    BY <1>3 DEF Loaded, ImportReady
  <2> QED BY <1>1, <1>3, <2>1, ReceivedWave
<1> QED BY <1>4, <1>5 DEF ImportReady, WaveNow, client

LEMMA AwaitGoesOn ==
  ASSUME ServerInv, NEW up, NEW rank, Tree(project, up, rank), NEW x, WaveNow(up, rank, x, {}),
         NEW i \in Job, Await(i)
  PROVE  WaveNow(up, rank, x, {})'
<1> DEFINE u == jobs[i]
           f == jobs[i].path
           t == vfs[f]
           n == jobs[i].next
           r == jobs[i].recv[n]
<1>1. /\ JobIs(u) /\ Fields = DOMAIN u /\ i \in DOMAIN jobs /\ u.pc = "await" /\ r # Pending
  BY JobFacts DEF Await, At
<1>2. Doing(u, i, parsed, t, diag[f]) /\ Knows(u, vfs, up, rank)
  BY WaveJobNow
<1>3. /\ ~u.cancel /\ ~u.canceled /\ ~u.cyc /\ u.v = t.version
      /\ parsed[f] = InProgress(t.version, i, <<>>)
      /\ u.imports = t.text /\ u.version = t.version /\ u.deps = t.text
      /\ IsList(u.toks) /\ n = Len(u.toks) + 1 /\ n <= Len(t.text) + 1
      /\ \A k \in 1..Len(u.toks) : u.recv[k] = Ok(u.toks[k])
      /\ \A k \in DOMAIN u.recv : u.recv[k] = Pending \/ Tells(parsed, t.text[k], u.recv[k])
  BY <1>1, <1>2 DEF Doing, AtWork, Asking, Asked
<1>4. n \in DOMAIN u.recv /\ DOMAIN u.recv = 1..Len(t.text) /\ Len(t.text) \in Nat /\ Len(u.toks) \in Nat
  BY <1>1, <1>3 DEF JobIs, IsList
<1>5. r.tag = "ok" /\ r = Ok(r.hash)
  <2>1. r = Ok(parsed[t.text[n]].hash)
    BY <1>1, <1>3, <1>4 DEF Tells
  <2> HIDE DEF r
  <2> QED BY <2>1, OkFacts
<1>6. PICK q : q = Append(u.toks, r.hash)
  OBVIOUS
<1>7. /\ IsList(q) /\ Len(q) = n /\ \A k \in 1..Len(u.toks) : q[k] = u.toks[k]
      /\ q[n] = r.hash
  <2>1. DOMAIN u.toks = 1..Len(u.toks)
    BY <1>3 DEF IsList
  <2> QED BY <1>3, <1>6, <2>1, AppendIsList
<1>8. PICK v : v = [u EXCEPT !.toks = q, !.next = n + 1, !.pc = "elab"]
  OBVIOUS
<1>9. MovedTo(jobs', jobs, i, v)
  <2>1. jobs' = [jobs EXCEPT ![i] = v]
    BY <1>1, <1>5, <1>6, <1>8 DEF Await
  <2> QED BY <1>1, <2>1 DEF MovedTo
<1>10. Kept(v, u, {"toks", "next", "pc"}) /\ v.toks = q /\ v.next = n + 1 /\ v.pc = "elab"
  BY <1>1, <1>8 DEF Kept, Fields
<1>11. /\ v.path = u.path /\ v.send = u.send /\ v.rd = u.rd /\ v.cancel = u.cancel
       /\ v.canceled = u.canceled /\ v.cyc = u.cyc /\ v.deps = u.deps /\ v.recv = u.recv
       /\ v.old_deps = u.old_deps /\ v.v = u.v /\ v.version = u.version /\ v.imports = u.imports
  BY <1>10 DEF Kept, Fields
<1>12. /\ n + 1 = Len(q) + 1 /\ n + 1 <= Len(t.text) + 1
       /\ \A k \in 1..Len(q) : u.recv[k] = Ok(q[k])
  <2>1. n \in 1..Len(t.text) /\ n \in Nat /\ n <= Len(t.text)
    BY <1>4
  <2>2. \A k \in 1..Len(q) : k = n \/ k \in 1..Len(u.toks)
    BY <1>3, <1>4, <1>7
  <2>3. u.recv[n] = Ok(q[n])
    BY <1>5, <1>7
  <2>4. \A k \in 1..Len(u.toks) : u.recv[k] = Ok(q[k])
    BY <1>3, <1>7
  <2> HIDE DEF n, u, t
  <2> QED BY <1>7, <2>1, <2>2, <2>3, <2>4
<1>13. Doing(v, i, parsed, t, diag[f])
  <2> HIDE DEF t, f, u, n, r
  <2> QED BY <1>3, <1>7, <1>10, <1>11, <1>12 DEF Doing, AtWork, Asking, Asked, Early, f, u
<1>14. Goes(u, v)
  BY <1>1, <1>10, <1>11 DEF Goes, Early, Working, AtWork, Asking
<1>15. Knows(v, vfs, up, rank)
  BY <1>2, <1>11 DEF Knows
<1>16. \A p \in Files : Counts(v, p) <=> Counts(u, p)
  BY <1>1, <1>10, <1>11 DEF Counts
<1>17. UNCHANGED <<vfs, parsed, opened, downstream, diag>> /\ diag = [g \in Files |-> diag[g]]
  BY DEF Await, client, WaveNow, Wave
<1> QED BY <1>1, <1>9, <1>11, <1>13, <1>14, <1>15, <1>16, <1>17, GoOn DEF Early

(* The imports there were come first, then those there are.                 *)
LEMMA ConcatIs ==
  ASSUME NEW S, NEW a \in Seq(S), NEW b \in Seq(S)
  PROVE  /\ Len(a) \in Nat
         /\ \A m \in DOMAIN (a \o b) : m \in Nat /\ m >= 1
         /\ \A m \in DOMAIN a : m \in DOMAIN (a \o b) /\ m <= Len(a) /\ (a \o b)[m] = a[m]
         /\ \A m \in DOMAIN b :
              Len(a) + m \in DOMAIN (a \o b) /\ ~(Len(a) + m <= Len(a)) /\ (a \o b)[Len(a) + m] = b[m]
         /\ \A m \in DOMAIN (a \o b) : m <= Len(a) => m \in DOMAIN a /\ (a \o b)[m] = a[m]
         /\ \A m \in DOMAIN (a \o b) :
              ~(m <= Len(a)) => m - Len(a) \in DOMAIN b /\ (a \o b)[m] = b[m - Len(a)]
<1>1. PICK ab : ab = a \o b
  OBVIOUS
<1>2. /\ Len(a) \in Nat /\ Len(b) \in Nat /\ DOMAIN a = 1..Len(a) /\ DOMAIN b = 1..Len(b)
      /\ DOMAIN ab = 1..(Len(a) + Len(b))
      /\ \A m \in 1..(Len(a) + Len(b)) : ab[m] = IF m <= Len(a) THEN a[m] ELSE b[m - Len(a)]
  BY <1>1
<1>3. \A m \in 1..Len(a) : m \in 1..(Len(a) + Len(b)) /\ m <= Len(a)
  BY <1>2
<1>4. \A m \in 1..Len(b) :
        /\ Len(a) + m \in 1..(Len(a) + Len(b)) /\ ~(Len(a) + m <= Len(a)) /\ (Len(a) + m) - Len(a) = m
  BY <1>2
<1>5. \A m \in 1..(Len(a) + Len(b)) :
        /\ m \in Nat /\ m >= 1 /\ (m <= Len(a) => m \in 1..Len(a))
        /\ ~(m <= Len(a)) => m - Len(a) \in 1..Len(b)
  BY <1>2
<1>6. \A m \in DOMAIN a : m \in DOMAIN ab /\ m <= Len(a) /\ ab[m] = a[m]
  BY <1>2, <1>3
<1>7. \A m \in DOMAIN b : Len(a) + m \in DOMAIN ab /\ ~(Len(a) + m <= Len(a)) /\ ab[Len(a) + m] = b[m]
  <2>1. SUFFICES ASSUME NEW m \in 1..Len(b)
                 PROVE  Len(a) + m \in DOMAIN ab /\ ~(Len(a) + m <= Len(a)) /\ ab[Len(a) + m] = b[m]
    BY <1>2
  <2>2. Len(a) + m \in 1..(Len(a) + Len(b)) /\ ~(Len(a) + m <= Len(a)) /\ (Len(a) + m) - Len(a) = m
    BY <1>4
  <2>3. ab[Len(a) + m] = b[(Len(a) + m) - Len(a)]
    BY <1>2, <2>2
  <2> QED BY <1>2, <2>2, <2>3
<1>8. \A m \in DOMAIN ab : m <= Len(a) => m \in DOMAIN a /\ ab[m] = a[m]
  BY <1>2, <1>5
<1>9. \A m \in DOMAIN ab : ~(m <= Len(a)) => m - Len(a) \in DOMAIN b /\ ab[m] = b[m - Len(a)]
  BY <1>2, <1>5
<1>10. \A m \in DOMAIN ab : m \in Nat /\ m >= 1
  BY <1>2, <1>5
<1> QED BY <1>1, <1>2, <1>6, <1>7, <1>8, <1>9, <1>10

VisitedIs(u, vis, lo) ==
  /\ vis = Visited(u) /\ lo = Len(u.old_deps) /\ lo \in Nat
  /\ \A m \in DOMAIN vis : m \in Nat /\ m >= 1
  /\ \A p \in ToSet(u.old_deps) : \E m \in DOMAIN vis : m <= lo /\ vis[m] = p
  /\ \A p \in ToSet(u.deps) : \E m \in DOMAIN vis : ~(m <= lo) /\ vis[m] = p
  /\ \A m \in DOMAIN vis : IF m <= lo THEN vis[m] \in ToSet(u.old_deps) ELSE vis[m] \in ToSet(u.deps)

LEMMA VisitedFacts ==
  ASSUME NEW u, u.old_deps \in Seq(Files), u.deps \in Seq(Files)
  PROVE  \E vis, lo : VisitedIs(u, vis, lo)
<1>1. PICK a \in Seq(Files), b \in Seq(Files) : a = u.old_deps /\ b = u.deps
  OBVIOUS
<1>2. PICK vis, lo : vis = a \o b /\ lo = Len(a)
  OBVIOUS
<1>3. /\ lo \in Nat /\ \A m \in DOMAIN vis : m \in Nat /\ m >= 1
      /\ \A m \in DOMAIN a : m \in DOMAIN vis /\ m <= lo /\ vis[m] = a[m]
      /\ \A m \in DOMAIN b : lo + m \in DOMAIN vis /\ ~(lo + m <= lo) /\ vis[lo + m] = b[m]
      /\ \A m \in DOMAIN vis : m <= lo => m \in DOMAIN a /\ vis[m] = a[m]
      /\ \A m \in DOMAIN vis : ~(m <= lo) => m - lo \in DOMAIN b /\ vis[m] = b[m - lo]
  BY <1>2, ConcatIs
<1>4. ToSet(a) = {a[m] : m \in DOMAIN a} /\ ToSet(b) = {b[m] : m \in DOMAIN b}
  BY DEF ToSet
<1>5. \A p \in ToSet(a) : \E m \in DOMAIN vis : m <= lo /\ vis[m] = p
  BY <1>3, <1>4
<1>6. \A p \in ToSet(b) : \E m \in DOMAIN vis : ~(m <= lo) /\ vis[m] = p
  BY <1>3, <1>4
<1>7. \A m \in DOMAIN vis : IF m <= lo THEN vis[m] \in ToSet(a) ELSE vis[m] \in ToSet(b)
  BY <1>3, <1>4
<1>8. VisitedIs(u, vis, lo)
  BY <1>1, <1>2, <1>3, <1>5, <1>6, <1>7 DEF VisitedIs, Visited
<1> QED BY <1>8

(* What a job has told of its imports is right before the first is told ... *)
LEMMA NoneTold ==
  ASSUME NEW u, NEW v, v.old_deps = u.old_deps, v.deps = u.deps, v.next = 1,
         u.pc \notin {"update", "publish"}, v.pc = UpdateFrom(v, 1),
         u.old_deps \in Seq(Files), u.deps \in Seq(Files), NEW p
  PROVE  Counts(v, p) <=> Counts(u, p)
<1>1. PICK vis, lo : VisitedIs(v, vis, lo)
  BY VisitedFacts
<1>2. ~Told(v, p) /\ vis = Visited(v)
  BY <1>1 DEF Told, VisitedIs
<1>3. CASE Todo(v, 1) = {}
  <2>1. \A m \in DOMAIN vis : vis[m] \in ToSet(IF m <= lo THEN v.deps ELSE v.old_deps)
    BY <1>1, <1>3 DEF Todo, VisitedIs
  <2>2. p \in ToSet(v.deps) <=> p \in ToSet(v.old_deps)
    BY <1>1, <2>1 DEF VisitedIs
  <2> QED BY <1>3, <2>2 DEF Counts, UpdateFrom
<1>4. CASE Todo(v, 1) # {}
  BY <1>2, <1>4 DEF Counts, UpdateFrom
<1> QED BY <1>3, <1>4

(* ... and when one more is: q, at index m.                                 *)
LEMMA OneTold ==
  ASSUME NEW u, NEW v, v.old_deps = u.old_deps, v.deps = u.deps,
         u.pc = "update", u.next \in Nat, u.old_deps \in Seq(Files), u.deps \in Seq(Files),
         NEW m \in Todo(u, u.next), \A l \in Todo(u, u.next) : m <= l,
         v.next = m + 1, v.pc = UpdateFrom(v, m + 1), NEW p
  PROVE  /\ m \in Nat
         /\ Visited(u)[m] = p => (Counts(v, p) <=> ~(m <= Len(u.old_deps)))
         /\ Visited(u)[m] # p => (Counts(v, p) <=> Counts(u, p))
         /\ ~(m <= Len(u.old_deps)) => Visited(u)[m] \in ToSet(u.deps)
<1>1. PICK vis, lo : VisitedIs(u, vis, lo)
  BY VisitedFacts
<1> DEFINE old == ToSet(u.old_deps)
           new == ToSet(u.deps)
           On(l) == vis[l] \notin (IF l <= lo THEN new ELSE old)
<1>2. /\ lo \in Nat /\ lo = Len(u.old_deps) /\ vis = Visited(u) /\ vis = Visited(v)
      /\ \A l \in DOMAIN vis : l \in Nat /\ l >= 1
      /\ \A r \in old : \E l \in DOMAIN vis : l <= lo /\ vis[l] = r
      /\ \A r \in new : \E l \in DOMAIN vis : ~(l <= lo) /\ vis[l] = r
      /\ \A l \in DOMAIN vis : IF l <= lo THEN vis[l] \in old ELSE vis[l] \in new
  BY <1>1 DEF VisitedIs, Visited
<1>3. \A n \in Nat : \A l : l \in Todo(u, n) <=> l \in DOMAIN vis /\ l >= n /\ On(l)
  BY <1>2 DEF Todo
<1>4. \A n \in Nat : Todo(v, n) = Todo(u, n)
  BY DEF Todo, Visited
<1>5. m \in DOMAIN vis /\ m \in Nat /\ m >= u.next /\ On(m) /\ m + 1 \in Nat
  BY <1>2, <1>3
<1>6. \A l \in DOMAIN vis : l >= u.next /\ On(l) => l >= m
  BY <1>2, <1>3
<1> HIDE DEF old, new
<1>7. Told(v, p) <=> \E l \in DOMAIN vis : l < m + 1 /\ vis[l] = p
  BY <1>2 DEF Told
<1>8. Told(u, p) <=> \E l \in DOMAIN vis : l < u.next /\ vis[l] = p
  BY <1>2 DEF Told
<1>9. Counts(u, p) <=> IF p \in old THEN p \in new \/ ~Told(u, p) ELSE Told(u, p)
  BY DEF Counts, old, new
<1> DEFINE Part == IF p \in old THEN p \in new \/ ~Told(v, p) ELSE Told(v, p)
<1>10. Counts(v, p) <=> Part
  <2>1. CASE Todo(v, m + 1) # {}
    BY <2>1 DEF Counts, UpdateFrom, old, new
  <2>2. CASE Todo(v, m + 1) = {}
    <3>1. \A l \in DOMAIN vis : On(l) => l < m + 1
      BY <1>2, <1>3, <1>4, <1>5, <2>2
    <3>2. p \in new <=> Part
      <4>1. CASE p \in old /\ p \in new
        BY <4>1
      <4>2. CASE p \in old /\ p \notin new
        BY <1>2, <1>7, <3>1, <4>2
      <4>3. CASE p \notin old /\ p \in new
        BY <1>2, <1>7, <3>1, <4>3
      <4>4. CASE p \notin old /\ p \notin new
        BY <1>2, <1>7, <4>4
      <4> QED BY <4>1, <4>2, <4>3, <4>4
    <3>3. Counts(v, p) <=> p \in new
      BY <2>2 DEF Counts, UpdateFrom, new
    <3> QED BY <3>2, <3>3
  <2> QED BY <2>1, <2>2
<1>11. ASSUME vis[m] = p PROVE Part <=> ~(m <= lo)
  BY <1>2, <1>5, <1>7, <1>11
<1>12. ASSUME vis[m] # p PROVE Part <=> Counts(u, p)
  <2>1. ASSUME NEW l \in DOMAIN vis, l < m + 1, vis[l] = p PROVE l < u.next \/ (p \in old /\ p \in new)
    BY <1>2, <1>5, <1>6, <1>12, <2>1
  <2>2. \A l \in DOMAIN vis : l < u.next => l < m + 1
    BY <1>2, <1>5
  <2>3. Told(u, p) => Told(v, p)
    BY <1>7, <1>8, <2>2
  <2>4. Told(v, p) => Told(u, p) \/ (p \in old /\ p \in new)
    BY <1>7, <1>8, <2>1
  <2> QED BY <1>9, <2>3, <2>4
<1>13. ~(m <= lo) => vis[m] \in new
  BY <1>2, <1>5
<1> QED BY <1>2, <1>5, <1>10, <1>11, <1>12, <1>13 DEF new

LEMMA CheckGoesOn ==
  ASSUME ServerInv, NEW up, NEW rank, Tree(project, up, rank), NEW x, WaveNow(up, rank, x, {}),
         NEW i \in Job, Check(i)
  PROVE  WaveNow(up, rank, x, {})'
<1> DEFINE u == jobs[i]
           f == jobs[i].path
           t == vfs[f]
<1>1. /\ JobIs(u) /\ Fields = DOMAIN u /\ i \in DOMAIN jobs /\ u.pc = "check"
  BY JobFacts DEF Check, At
<1>2. Doing(u, i, parsed, t, diag[f]) /\ Knows(u, vfs, up, rank)
  BY WaveJobNow
<1>3. /\ u.cancel = FALSE \/ ~u.cancel
      /\ ~u.cancel /\ ~u.cyc /\ ~u.canceled /\ u.v = t.version /\ u.version = t.version
  BY <1>1, <1>2 DEF Doing, AtWork, Asking, Asked
<1>4. PICK r : r = Ok(<<u.version, u.toks>>)
  OBVIOUS
<1>5. PICK v : v = [u EXCEPT !.canceled = u.cancel, !.res = r, !.next = 1, !.pc = "diag"]
  OBVIOUS
<1>6. MovedTo(jobs', jobs, i, v)
  <2>1. jobs' = [jobs EXCEPT ![i] = v]
    BY <1>1, <1>3, <1>4, <1>5 DEF Check
  <2> QED BY <1>1, <2>1 DEF MovedTo
<1>7. Kept(v, u, {"canceled", "res", "next", "pc"}) /\ v.canceled = u.cancel /\ v.res = r /\ v.next = 1 /\ v.pc = "diag"
  BY <1>1, <1>5 DEF Kept, Fields
<1>8. /\ v.path = u.path /\ v.send = u.send /\ v.rd = u.rd /\ v.cancel = u.cancel
      /\ v.cyc = u.cyc /\ v.deps = u.deps /\ v.recv = u.recv /\ v.toks = u.toks
      /\ v.old_deps = u.old_deps /\ v.v = u.v /\ v.version = u.version /\ v.imports = u.imports
  BY <1>7 DEF Kept, Fields
<1>9. Doing(v, i, parsed, t, diag[f])
  <2> HIDE DEF t, f, u
  <2> QED BY <1>1, <1>2, <1>3, <1>4, <1>7, <1>8 DEF Doing, AtWork, Asking, Asked, Early, f, u
<1>10. Goes(u, v)
  BY <1>1, <1>7, <1>8 DEF Goes, Early, Working, AtWork, Asking
<1>11. Knows(v, vfs, up, rank)
  BY <1>2, <1>8 DEF Knows
<1>12. \A p \in Files : Counts(v, p) <=> Counts(u, p)
  BY <1>1, <1>7, <1>8 DEF Counts
<1>13. UNCHANGED <<vfs, parsed, opened, downstream, diag>> /\ diag = [g \in Files |-> diag[g]]
  BY DEF Check, client, WaveNow, Wave
<1> QED BY <1>1, <1>6, <1>8, <1>9, <1>10, <1>11, <1>12, <1>13, GoOn DEF Early

LEMMA DepsAreFiles ==
  ASSUME NEW u, NEW vs, NEW up, NEW rank, Knows(u, vs, up, rank)
  PROVE  u.old_deps \in Seq(Files) /\ u.deps \in Seq(Files)
  BY DEF Knows, IsDeps

LEMMA SendDiagnosticsGoesOn ==
  ASSUME ServerInv, NEW up, NEW rank, Tree(project, up, rank), NEW x, WaveNow(up, rank, x, {}),
         NEW i \in Job, SendDiagnostics(i)
  PROVE  WaveNow(up, rank, x, {})'
<1> DEFINE u == jobs[i]
           f == jobs[i].path
           t == vfs[f]
<1>1. /\ JobIs(u) /\ Fields = DOMAIN u /\ i \in DOMAIN jobs /\ u.pc = "diag" /\ f \in Files
  BY JobFacts DEF SendDiagnostics, At, JobIs
<1>2. Doing(u, i, parsed, t, diag[f]) /\ Knows(u, vfs, up, rank)
  BY WaveJobNow
<1>3. u.version = t.version /\ u.next = 1
  BY <1>1, <1>2 DEF Doing, AtWork, Asking, Asked
<1>4. PICK c : c = UpdateFrom(u, 1)
  OBVIOUS
<1>5. PICK v : v = [u EXCEPT !.pc = c]
  OBVIOUS
<1>6. MovedTo(jobs', jobs, i, v)
  BY <1>1, <1>4, <1>5 DEF MovedTo, SendDiagnostics
<1>7. Kept(v, u, {"pc"}) /\ v.pc = c /\ c \in {"update", "publish"}
  BY <1>1, <1>4, <1>5 DEF Kept, Fields, UpdateFrom
<1>8. /\ v.path = u.path /\ v.send = u.send /\ v.rd = u.rd /\ v.cancel = u.cancel
      /\ v.cyc = u.cyc /\ v.deps = u.deps /\ v.recv = u.recv /\ v.toks = u.toks /\ v.canceled = u.canceled
      /\ v.old_deps = u.old_deps /\ v.v = u.v /\ v.version = u.version /\ v.imports = u.imports
      /\ v.res = u.res /\ v.next = u.next
  BY <1>7 DEF Kept, Fields
<1>9. diag = [g \in Files |-> diag[g]]
  BY DEF WaveNow, Wave
<1>10. diag' = [diag EXCEPT ![f] = t.version]
  BY <1>3 DEF SendDiagnostics, Path
<1>11. /\ diag' = [g \in Files |-> diag'[g]] /\ diag'[f] = t.version
       /\ \A g \in Loaded : diag'[g] \in {diag[g], vfs[g].version}
  <2>1. Loaded \subseteq Files
    BY DEF ServerInv, FilesAre
  <2> HIDE DEF t
  <2>2. diag' = [g \in Files |-> IF g = f THEN t.version ELSE diag[g]]
    BY <1>9, <1>10
  <2> QED BY <1>1, <2>1, <2>2 DEF t
<1>12. Doing(v, i, parsed, t, diag'[f])
  <2> HIDE DEF t, f, u
  <2> QED BY <1>1, <1>2, <1>3, <1>7, <1>8, <1>11 DEF Doing, AtWork, Asking, Asked, Early, f, u
<1>13. Goes(u, v)
  BY <1>1, <1>7, <1>8 DEF Goes, Early, Working, AtWork, Asking
<1>14. Knows(v, vfs, up, rank)
  BY <1>2, <1>8 DEF Knows
<1>15. \A p \in Files : Counts(v, p) <=> Counts(u, p)
  <2>1. v.pc = UpdateFrom(v, 1)
    BY <1>4, <1>7, <1>8 DEF UpdateFrom, Todo, Visited
  <2>2. u.old_deps \in Seq(Files) /\ u.deps \in Seq(Files)
    BY <1>2, DepsAreFiles
  <2> HIDE DEF u
  <2> QED BY <1>1, <1>3, <1>8, <2>1, <2>2, NoneTold
<1>16. UNCHANGED <<vfs, parsed, opened, downstream>>
  BY DEF SendDiagnostics, client
<1> QED BY <1>1, <1>6, <1>8, <1>11, <1>12, <1>13, <1>14, <1>15, <1>16, GoOn DEF Early

LEMMA UpdateDownstreamGoesOn ==
  ASSUME ServerInv, NEW up, NEW rank, Tree(project, up, rank), NEW x, WaveNow(up, rank, x, {}),
         NEW i \in Job, UpdateDownstream(i)
  PROVE  WaveNow(up, rank, x, {})'
<1> DEFINE u == jobs[i]
           f == jobs[i].path
           t == vfs[f]
<1>1. /\ JobIs(u) /\ Fields = DOMAIN u /\ i \in DOMAIN jobs /\ u.pc = "update" /\ f \in Files
  BY JobFacts DEF UpdateDownstream, At, JobIs
<1>2. Doing(u, i, parsed, t, diag[f]) /\ Knows(u, vfs, up, rank)
  BY WaveJobNow
<1>3. /\ u.next \in Nat /\ u.deps = t.text /\ parsed[f] = InProgress(t.version, i, <<>>)
      /\ \A k \in DOMAIN t.text : parsed[t.text[k]].tag = "ready"
      /\ u.old_deps \in Seq(Files) /\ u.deps \in Seq(Files)
  BY <1>1, <1>2, DepsAreFiles DEF Doing, AtWork, Asked
<1>4. PICK m \in Todo(u, u.next) :
        /\ \A l \in Todo(u, u.next) : m <= l
        /\ downstream' = [downstream EXCEPT ![Visited(u)[m]] = IF m <= Len(u.old_deps) THEN @ \ {f} ELSE @ \cup {f}]
        /\ jobs' = [jobs EXCEPT ![i].next = m + 1, ![i].pc = UpdateFrom(u, m + 1)]
  BY DEF UpdateDownstream
<1>5. PICK p, lo : p = Visited(u)[m] /\ lo = Len(u.old_deps)
  OBVIOUS
<1>6. PICK c : c = UpdateFrom(u, m + 1)
  OBVIOUS
<1>7. PICK v : v = [u EXCEPT !.next = m + 1, !.pc = c]
  OBVIOUS
<1>8. MovedTo(jobs', jobs, i, v)
  <2>1. jobs' = [jobs EXCEPT ![i] = v]
    BY <1>1, <1>4, <1>6, <1>7
  <2> QED BY <1>1, <2>1 DEF MovedTo
<1>9. Kept(v, u, {"next", "pc"}) /\ v.next = m + 1 /\ v.pc = c /\ c \in {"update", "publish"}
  <2>1. c \in {"update", "publish"}
    BY <1>6 DEF UpdateFrom
  <2> HIDE DEF u
  <2> QED BY <1>1, <1>7, <2>1 DEF Kept, Fields
<1>10. /\ v.path = u.path /\ v.send = u.send /\ v.rd = u.rd /\ v.cancel = u.cancel
      /\ v.cyc = u.cyc /\ v.deps = u.deps /\ v.recv = u.recv /\ v.toks = u.toks /\ v.canceled = u.canceled
      /\ v.old_deps = u.old_deps /\ v.v = u.v /\ v.version = u.version /\ v.imports = u.imports
      /\ v.res = u.res
  BY <1>9 DEF Kept, Fields
<1>11. \A q : /\ m \in Nat
              /\ p = q => (Counts(v, q) <=> ~(m <= lo))
              /\ p # q => (Counts(v, q) <=> Counts(u, q))
              /\ ~(m <= lo) => p \in ToSet(u.deps)
  <2>1. v.pc = UpdateFrom(v, m + 1)
    BY <1>6, <1>9, <1>10 DEF UpdateFrom, Todo, Visited
  <2> HIDE DEF u
  <2>2. m \in Todo(u, u.next) /\ \A l \in Todo(u, u.next) : m <= l
    BY <1>4
  <2> QED BY <1>1, <1>3, <1>5, <1>9, <1>10, <2>1, <2>2, OneTold
<1>12. Doing(v, i, parsed, t, diag[f])
  <2>1. m \in Nat
    BY <1>11
  <2> HIDE DEF t, f, u
  <2>2. /\ ~u.cancel /\ ~u.canceled /\ ~u.cyc /\ u.v = t.version
        /\ parsed[u.path] = InProgress(t.version, i, <<>>)
        /\ u.imports = t.text /\ u.version = t.version /\ u.deps = t.text
        /\ \A k \in DOMAIN t.text : parsed[t.text[k]].tag = "ready"
        /\ u.toks = [k \in DOMAIN t.text |-> parsed[t.text[k]].hash]
        /\ u.res = Ok(<<t.version, u.toks>>) /\ diag[f] = t.version
    BY <1>1, <1>2 DEF Doing, AtWork, Asked
  <2>3. /\ v.pc \in {"update", "publish"} /\ v.next \in Nat
        /\ ~v.cancel /\ ~v.canceled /\ ~v.cyc /\ v.v = t.version
        /\ parsed[v.path] = InProgress(t.version, i, <<>>)
        /\ v.imports = t.text /\ v.version = t.version /\ v.deps = t.text
        /\ v.toks = u.toks /\ v.res = Ok(<<t.version, u.toks>>)
    BY <1>9, <1>10, <2>1, <2>2
  <2> QED BY <2>2, <2>3 DEF Doing, AtWork, Asking, Asked, Early
<1>13. Goes(u, v) /\ Knows(v, vfs, up, rank)
  BY <1>1, <1>2, <1>9, <1>10 DEF Goes, Early, Working, AtWork, Asking, Knows
<1>14. /\ Wave(jobs, parsed, vfs, downstream, diag, opened, up, rank, x, {}) /\ Typed(jobs, vfs, up, rank)
       /\ diag = [g \in Files |-> diag[g]]
  BY StateTyped DEF WaveNow, Wave
<1>15. /\ \A q \in Files : downstream'[q] \subseteq Files
       /\ \A g, q \in Files : g \in downstream'[q] <=> IF g = f /\ q = p THEN ~(m <= lo) ELSE g \in downstream[q]
  <2>1. downstream \in [Files -> SUBSET Files] /\ downstream' = [downstream EXCEPT ![p] = IF m <= lo THEN @ \ {f} ELSE @ \cup {f}]
    BY <1>4, <1>5 DEF ServerInv, FilesAre
  <2> HIDE DEF f
  <2> QED BY <1>1, <2>1
<1>16. KnowsImporters(jobs', parsed, downstream')
  <2>1. ASSUME NEW g \in Files, NEW q \in Files PROVE g \in downstream'[q] <=> DependsOn(jobs', parsed, g, q)
    <3>1. g \in downstream[q] <=> DependsOn(jobs, parsed, g, q)
      BY <1>14 DEF Wave, KnowsImporters
    <3>2. CASE g # f
      <4>1. parsed[g].tag = "busy" => parsed[g].job \in DOMAIN jobs /\ parsed[g].job # i
        BY <3>2 DEF ServerInv, Consistent, ParsedIs
      <4>2. DependsOn(jobs', parsed, g, q) <=> DependsOn(jobs, parsed, g, q)
        BY <1>8, <4>1 DEF DependsOn, MovedTo
      <4> QED BY <1>15, <3>1, <3>2, <4>2
    <3>3. CASE g = f
      <4>1. parsed[g].tag = "busy" /\ parsed[g].job = i
        BY <1>3, <3>3 DEF InProgress
      <4>2. (DependsOn(jobs', parsed, g, q) <=> Counts(v, q)) /\ (DependsOn(jobs, parsed, g, q) <=> Counts(u, q))
        BY <1>8, <4>1 DEF DependsOn, MovedTo
      <4> QED BY <1>11, <1>15, <3>1, <3>3, <4>2
    <3> QED BY <3>2, <3>3
  <2> QED BY <2>1 DEF KnowsImporters
<1>17. ASSUME NEW j \in DOMAIN jobs, Reads(jobs[j], parsed, downstream, rank, x)
       PROVE  downstream'[jobs[j].path] = {}
  <2>1. downstream[jobs[j].path] = {} /\ jobs[j].path \in Files /\ jobs[j].send # <<>>
    BY <1>14, <1>17, JobRank DEF Reads
  <2>2. downstream'[jobs[j].path] \subseteq Files
    BY <1>15, <2>1
  <2>3. SUFFICES ASSUME jobs[j].path = p, ~(m <= lo) PROVE FALSE
    BY <1>15, <2>1, <2>2
  <2>4. PICK k \in DOMAIN t.text : t.text[k] = p
    BY <1>3, <1>11, <2>3 DEF ToSet
  <2>5. Sees(jobs, vfs, up, rank, i)
    BY <1>1, <1>14, ImportIs DEF Asked
  <2>6. up[p] = f
    BY <2>4, <2>5 DEF Sees
  <2>7. PICK b, l : b \in DOMAIN jobs /\ jobs[b].pc \in Asking /\ l \in DOMAIN vfs[jobs[b].path].text /\ vfs[jobs[b].path].text[l] = p
    <3>1. PICK b, l : b \in DOMAIN jobs /\ jobs[j].send = <<b, l>> /\ jobs[b].pc \in Asking
                      /\ l \in DOMAIN vfs[jobs[b].path].text /\ vfs[jobs[b].path].text[l] = jobs[j].path
      <4> HIDE DEF f, u, t
      <4> QED BY <1>14, <2>1, OwedIs
    <3> QED BY <2>3, <3>1
  <2>8. Sees(jobs, vfs, up, rank, b)
    BY <1>14, <2>7, ImportIs
  <2>9. up[p] = jobs[b].path
    BY <2>7, <2>8 DEF Sees
  <2>10. i = b
    <3>1. u.pc \notin Early /\ u.pc # "end" /\ jobs[b].pc # "end" /\ jobs[b].path = jobs[i].path
      BY <1>1, <2>6, <2>7, <2>9 DEF Early, Asking
    <3> QED BY <1>1, <1>14, <2>7, <3>1, AskersAreOne
  <2>11. jobs[b].pc \in Asking
    BY <2>7
  <2>12. jobs[i].pc \notin Asking
    BY <1>1 DEF Asking
  <2> QED BY <2>10, <2>11, <2>12
<1>18. Unseen(jobs, parsed, parsed, vfs, i)
  BY DEF Unseen, SeesSame
<1>19. \A g \in Files : WaveParsed(parsed, vfs, up, rank, opened, g)
  BY <1>14 DEF Wave
<1>20. ~Idle(jobs, parsed, vfs, diag, rank, x, i)
  BY <1>1 DEF Idle, Early
<1>21. Wave(jobs', parsed, vfs, downstream', diag, opened, up, rank, x, {})
  BY <1>1, <1>8, <1>10, <1>12, <1>13, <1>14, <1>16, <1>17, <1>18, <1>19, <1>20, MoveWave
<1> QED BY <1>21 DEF WaveNow, UpdateDownstream, client

-----------------------------------------------------------------------------
(* The steps by which a job begins and ends its work on a file.             *)
LEMMA LockFacts ==
  ASSUME ServerInv, NEW up, NEW rank, Tree(project, up, rank), NEW x, WaveNow(up, rank, x, {}),
         NEW i \in Job, At(i, "lock")
  PROVE  /\ JobIs(jobs[i]) /\ Fields = DOMAIN jobs[i] /\ i \in DOMAIN jobs /\ jobs[i].pc = "lock"
         /\ jobs[i].path \in Files /\ jobs[i].path \in Loaded
         /\ Kind(jobs, parsed, vfs, downstream, diag, rank, x, i)
         /\ Alone(jobs, i) \/ Idle(jobs, parsed, vfs, diag, rank, x, i)
         /\ Cache(i).tag # "busy"
<1>1. /\ JobIs(jobs[i]) /\ Fields = DOMAIN jobs[i] /\ i \in DOMAIN jobs /\ jobs[i].pc = "lock"
      /\ jobs[i].path \in Files
  BY JobFacts DEF At, JobIs
<1>2. /\ jobs[i].path \in Loaded /\ Kind(jobs, parsed, vfs, downstream, diag, rank, x, i)
      /\ Alone(jobs, i) \/ Idle(jobs, parsed, vfs, diag, rank, x, i)
  BY <1>1, WaveJobNow DEF WaveJob, Loaded
<1>3. ASSUME Cache(i).tag = "busy" PROVE FALSE
  <2>1. PICK j \in DOMAIN jobs : jobs[j].path = jobs[i].path /\ jobs[j].pc \in AtWork
    BY <1>1, <1>3 DEF ServerInv, Consistent, ParsedIs, Cache, Path
  <2>2. ~Idle(jobs, parsed, vfs, diag, rank, x, i)
    BY <1>3 DEF Idle, Settled, Cache, Path
  <2>3. j # i /\ jobs[j].pc # "end"
    BY <1>1, <2>1 DEF AtWork
  <2> QED BY <1>2, <2>1, <2>2, <2>3 DEF Alone
<1> QED BY <1>1, <1>2, <1>3

LEMMA BeginGoesOn ==
  ASSUME ServerInv, NEW up, NEW rank, Tree(project, up, rank), NEW x, WaveNow(up, rank, x, {}),
         NEW i \in Job, At(i, "lock"), NEW od, Begin(i, jobs, od, <<>>),
         ~Idle(jobs, parsed, vfs, diag, rank, x, i), IsDeps(od, jobs[i].path, vfs, up, rank),
         \A p \in Files : DependsOn(jobs, parsed, jobs[i].path, p) <=> p \in ToSet(od)
  PROVE  WaveNow(up, rank, x, {})'
<1> DEFINE u == jobs[i]
           f == jobs[i].path
           t == vfs[f]
<1>1. /\ JobIs(u) /\ Fields = DOMAIN u /\ i \in DOMAIN jobs /\ u.pc = "lock" /\ f \in Files /\ f \in Loaded
      /\ Kind(jobs, parsed, vfs, downstream, diag, rank, x, i)
  BY LockFacts
<1>2. Doing(u, i, parsed, t, diag[f]) /\ Knows(u, vfs, up, rank)
  BY WaveJobNow
<1>3. /\ ~u.cancel /\ ~u.cyc /\ ~u.canceled /\ u.v = t.version /\ u.deps = <<>> /\ u.toks = <<>>
  BY <1>1, <1>2 DEF Doing, Early
<1>4. PICK v : v = [u EXCEPT !.old_deps = od, !.pc = "read"]
  OBVIOUS
<1>5. MovedTo(jobs', jobs, i, v)
  <2>1. jobs' = [jobs EXCEPT ![i] = v]
    BY <1>1, <1>4 DEF Begin
  <2> QED BY <1>1, <2>1 DEF MovedTo
<1>6. Kept(v, u, {"old_deps", "pc"}) /\ v.old_deps = od /\ v.pc = "read"
  BY <1>1, <1>4 DEF Kept, Fields
<1>7. /\ v.path = u.path /\ v.send = u.send /\ v.rd = u.rd /\ v.cancel = u.cancel
      /\ v.cyc = u.cyc /\ v.deps = u.deps /\ v.recv = u.recv /\ v.toks = u.toks /\ v.canceled = u.canceled
      /\ v.v = u.v
  BY <1>6 DEF Kept, Fields
<1>8. /\ Wave(jobs, parsed, vfs, downstream, diag, opened, up, rank, x, {}) /\ Typed(jobs, vfs, up, rank)
      /\ diag = [g \in Files |-> diag[g]]
  BY StateTyped DEF WaveNow, Wave
<1>9. /\ parsed'[f] = InProgress(t.version, i, <<>>) /\ \A g \in Files : g # f => parsed'[g] = parsed[g]
  <2>1. parsed = [g \in Files |-> parsed[g]] /\ parsed' = [parsed EXCEPT ![f] = InProgress(t.version, i, <<>>)]
    BY <1>3 DEF ServerInv, Consistent, Begin, Path
  <2> HIDE DEF f, t
  <2> QED BY <1>1, <2>1
<1>10. Doing(v, i, parsed', t, diag[f])
  <2> HIDE DEF t, f, u
  <2> QED BY <1>1, <1>2, <1>3, <1>6, <1>7, <1>9 DEF Doing, AtWork, Asking, Asked, Early, f, u
<1>11. Goes(u, v) /\ Knows(v, vfs, up, rank)
  BY <1>1, <1>2, <1>6, <1>7 DEF Goes, Early, Working, AtWork, Asking, Knows
<1>12. Unseen(jobs, parsed, parsed', vfs, i)
  BY <1>1, <1>8, <1>9, AloneUnseen
<1>13. f = x \/ parsed[f].tag # "ready"
  BY <1>1 DEF Kind, Leads, Reads, Early, None
<1>14. ASSUME NEW g \in Files PROVE WaveParsed(parsed', vfs, up, rank, opened, g)
  <2>1. WaveParsed(parsed, vfs, up, rank, opened, g)
    BY <1>8 DEF Wave
  <2>2. CASE g = f
    BY <1>1, <1>9, <2>2 DEF WaveParsed, InProgress, Loaded
  <2>3. CASE g # f
    BY <1>9, <2>1, <2>3 DEF WaveParsed
  <2> QED BY <2>2, <2>3
<1>15. KnowsImporters(jobs', parsed', downstream)
  <2>1. ASSUME NEW g \in Files, NEW q \in Files PROVE g \in downstream[q] <=> DependsOn(jobs', parsed', g, q)
    <3>1. g \in downstream[q] <=> DependsOn(jobs, parsed, g, q)
      BY <1>8 DEF Wave, KnowsImporters
    <3>2. CASE g # f
      <4>1. parsed[g].tag = "busy" => parsed[g].job \in DOMAIN jobs /\ parsed[g].job # i
        BY <3>2 DEF ServerInv, Consistent, ParsedIs
      <4>2. DependsOn(jobs', parsed', g, q) <=> DependsOn(jobs, parsed, g, q)
        BY <1>5, <1>9, <3>2, <4>1 DEF DependsOn, MovedTo
      <4> QED BY <3>1, <4>2
    <3>3. CASE g = f
      <4>1. parsed'[g].tag = "busy" /\ parsed'[g].job = i
        BY <1>9, <3>3 DEF InProgress
      <4>2. DependsOn(jobs', parsed', g, q) <=> q \in ToSet(od)
        BY <1>5, <1>6, <4>1 DEF DependsOn, MovedTo, Counts
      <4> QED BY <3>1, <3>3, <4>2
    <3> QED BY <3>2, <3>3
  <2> QED BY <2>1 DEF KnowsImporters
<1>16. \A j \in DOMAIN jobs : Reads(jobs[j], parsed, downstream, rank, x) => downstream[jobs[j].path] = {}
  BY DEF Reads
<1>17. v.pc \in Working
  BY <1>6 DEF Working, AtWork
<1>18. Wave(jobs', parsed', vfs, downstream, diag, opened, up, rank, x, {})
  BY <1>1, <1>5, <1>7, <1>8, <1>10, <1>11, <1>12, <1>13, <1>14, <1>15, <1>16, <1>17, MoveWave
<1> QED BY <1>18 DEF WaveNow, Begin, client

LEMMA EmptyIsList == <<>> \in Seq(Files) /\ ToSet(<<>>) = {} /\ DOMAIN <<>> = {} /\ IsList(<<>>)
<1>1. <<>> \in Seq(Files) /\ DOMAIN <<>> = {} /\ IsList(<<>>)
  BY DEF IsList
<1> QED BY <1>1 DEF ToSet

LEMMA LockNoneGoesOn ==
  ASSUME ServerInv, NEW up, NEW rank, Tree(project, up, rank), NEW x, WaveNow(up, rank, x, {}),
         NEW i \in Job, LockNone(i)
  PROVE  WaveNow(up, rank, x, {})'
<1>1. At(i, "lock") /\ parsed[jobs[i].path].tag = "none" /\ Begin(i, jobs, <<>>, <<>>)
  BY DEF LockNone, Cache, Path
<1>2. ~Idle(jobs, parsed, vfs, diag, rank, x, i)
  BY <1>1 DEF Idle, Settled
<1>3. IsDeps(<<>>, jobs[i].path, vfs, up, rank)
  BY EmptyIsList DEF IsDeps
<1>4. \A p \in Files : DependsOn(jobs, parsed, jobs[i].path, p) <=> p \in ToSet(<<>>)
  BY <1>1, EmptyIsList DEF DependsOn
<1> QED BY <1>1, <1>2, <1>3, <1>4, BeginGoesOn

LEMMA LockStaleGoesOn ==
  ASSUME ServerInv, NEW up, NEW rank, Tree(project, up, rank), NEW x, WaveNow(up, rank, x, {}),
         NEW i \in Job, LockStale(i)
  PROVE  WaveNow(up, rank, x, {})'
<1> DEFINE f == jobs[i].path
           t == vfs[f]
           h == parsed[f].hash
<1>1. /\ At(i, "lock") /\ parsed[f].tag = "ready"
      /\ UpToDate(i) => \E k \in DOMAIN Cache(i).deps : MayBeLocked(Cache(i).deps[k], i)
  BY DEF LockStale, Cache, Path
<1>2. f \in Files /\ f \in Loaded /\ jobs[i].pc = "lock"
  BY <1>1, LockFacts
<1>3. WaveParsed(parsed, vfs, up, rank, opened, f)
  BY <1>2 DEF WaveNow, Wave
<1>4. parsed[f].res.tag = "ok" /\ IsDeps(parsed[f].deps, f, vfs, up, rank)
  <2>1. parsed[f] = Ready(h, Ok(h), parsed[f].deps)
    BY <1>1, <1>3 DEF WaveParsed
  <2>2. \A a, r, d : Ready(a, r, d).res = r
    BY DEF Ready
  <2>3. parsed[f].res = Ok(h)
    BY <2>1, <2>2
  <2> QED BY <1>1, <1>3, <2>3, OkFacts DEF WaveParsed
<1>5. Begin(i, jobs, parsed[f].deps, <<>>)
  BY <1>4 DEF LockStale, Cache, Path
<1>6. ASSUME Idle(jobs, parsed, vfs, diag, rank, x, i) PROVE FALSE
  <2>1. Settled(parsed, t, diag[f], f, {}) /\ \A k \in DOMAIN t.text : Ended(jobs, t.text[k])
    BY <1>6 DEF Idle
  <2>2. jobs[i].v = t.version
    <3>1. Doing(jobs[i], i, parsed, vfs[jobs[i].path], diag[jobs[i].path])
      BY WaveJobNow
    <3> QED BY <1>2, <3>1 DEF Doing
  <2>3. UpToDate(i)
    <3>1. /\ parsed[f].deps = t.text /\ h = <<t.version, h[2]>> /\ h[2] = [k \in DOMAIN t.text |-> h[2][k]]
          /\ \A k \in DOMAIN t.text : Tells(parsed, t.text[k], Ok(h[2][k]))
      BY <2>1 DEF Settled
    <3>2. \A k \in DOMAIN t.text : parsed[t.text[k]].tag = "ready" /\ h[2][k] = parsed[t.text[k]].hash
      <4> HIDE DEF t, h
      <4> QED BY <3>1, OkFacts DEF Tells
    <3>3. h[2] = [k \in DOMAIN t.text |-> parsed[t.text[k]].hash]
      <4> HIDE DEF h
      <4> QED BY <3>1, <3>2
    <3>4. h = <<jobs[i].v, [k \in DOMAIN t.text |-> parsed[t.text[k]].hash]>>
      <4> HIDE DEF h, t
      <4> QED BY <3>1, <3>3, <2>2
    <3> QED BY <3>1, <3>2, <3>4 DEF UpToDate, Cache, Path
  <2>4. PICK k \in DOMAIN t.text : MayBeLocked(t.text[k], i)
    BY <1>1, <2>1, <2>3 DEF Settled, Cache, Path
  <2> QED BY <2>1, <2>4 DEF MayBeLocked, Ended, Job, Path
<1>7. \A p \in Files : DependsOn(jobs, parsed, f, p) <=> p \in ToSet(parsed[f].deps)
  BY <1>1 DEF DependsOn
<1> QED BY <1>1, <1>4, <1>5, <1>6, <1>7, BeginGoesOn

(* A job never waits, supersedes another or meets a cycle here. *)
LEMMA NoneConflicts ==
  ASSUME ServerInv, NEW up, NEW rank, Tree(project, up, rank), NEW x, WaveNow(up, rank, x, {}), NEW i \in Job
  PROVE  ~LockWaits(i) /\ ~LockSupersedes(i) /\ \A p \in Files : ~ImportCloses(i, p)
<1>1. ~LockWaits(i) /\ ~LockSupersedes(i)
  BY LockFacts DEF LockWaits, LockSupersedes
<1>2. ASSUME NEW p \in Files, ImportCloses(i, p) PROVE FALSE
  <2> DEFINE f == jobs[i].path
             rd == jobs[i].rd
             n == jobs[i].next
  <2>1. /\ At(i, "import") /\ p = jobs[i].imports[n] /\ p \in ToSet(Append(rd, f))
    BY <1>2 DEF ImportCloses, NextImport, Rd, Path
  <2>2. JobIs(jobs[i]) /\ jobs[i].pc = "import" /\ i \in DOMAIN jobs /\ f \in Files
    BY <2>1, JobFacts DEF At, JobIs
  <2>3. Knows(jobs[i], vfs, up, rank)
    BY WaveJobNow
  <2>4. Sees(jobs, vfs, up, rank, i)
    BY <2>2, StateTyped, ImportIs DEF WaveNow, Asking
  <2>5. n \in DOMAIN jobs[i].imports
    BY <2>2 DEF JobIs
  <2>6. rank[p] < rank[f] /\ rank[p] \in Nat /\ rank[f] \in Nat
    BY <2>1, <2>2, <2>4, <2>5 DEF Sees, Tree
  <2>7. IsList(rd) /\ \A k \in DOMAIN rd : rank[f] < rank[rd[k]]
    BY <2>3 DEF Knows
  <2>8. PICK l : l = Append(rd, f)
    OBVIOUS
  <2>9. PICK k \in DOMAIN l : l[k] = p
    BY <2>1, <2>8 DEF ToSet
  <2>10. \A k1 \in DOMAIN l : l[k1] = f \/ (k1 \in DOMAIN rd /\ l[k1] = rd[k1])
    <3> HIDE DEF rd, f
    <3> QED BY <2>7, <2>8, AppendIsList
  <2> QED BY <2>6, <2>7, <2>9, <2>10
<1> QED BY <1>1, <1>2

LEMMA ProgressFacts ==
  \A a, b, c : LET p == InProgress(a, b, c) IN p.tag = "busy" /\ p.job = b /\ p.senders = c
  BY DEF InProgress

LEMMA PublishGoesOn ==
  ASSUME ServerInv, NEW up, NEW rank, Tree(project, up, rank), NEW x, WaveNow(up, rank, x, {}),
         NEW i \in Job, Publish(i)
  PROVE  WaveNow(up, rank, x, {})'
<1> DEFINE u == jobs[i]
           f == jobs[i].path
           t == vfs[f]
<1>1. /\ JobIs(u) /\ Fields = DOMAIN u /\ i \in DOMAIN jobs /\ u.pc = "publish" /\ f \in Files
  BY JobFacts DEF Publish, At, JobIs
<1>2. Doing(u, i, parsed, t, diag[f]) /\ Knows(u, vfs, up, rank) /\ f \in Loaded
  BY WaveJobNow DEF WaveJob, Loaded
<1>3. /\ ~u.cancel /\ ~u.cyc /\ ~u.canceled /\ u.v = t.version /\ u.version = t.version
      /\ u.deps = t.text /\ u.imports = t.text /\ parsed[f] = InProgress(t.version, i, <<>>)
      /\ u.res = Ok(<<t.version, u.toks>>) /\ diag[f] = t.version
      /\ \A k \in DOMAIN t.text : parsed[t.text[k]].tag = "ready"
      /\ u.toks = [k \in DOMAIN t.text |-> parsed[t.text[k]].hash]
  BY <1>1, <1>2 DEF Doing, AtWork, Asking, Asked
<1>30. parsed[f].tag = "busy" /\ parsed[f].job = i /\ parsed[f].senders = <<>>
  <2> HIDE DEF f, t
  <2> QED BY <1>3, ProgressFacts
<1>4. PICK v : v = [u EXCEPT !.pc = "notify"]
  OBVIOUS
<1>5. PICK r : r = Ready(<<t.version, u.toks>>, u.res, u.deps)
  OBVIOUS
<1>6. jobs' = [jobs EXCEPT ![i] = v] /\ parsed' = [parsed EXCEPT ![f] = r]
  <2>1. (IF Cache(i).tag = "busy" THEN ToSet(Cache(i).senders) ELSE {}) = {}
    BY <1>30, EmptyIsList DEF Cache, Path
  <2>2. /\ jobs' = Answered([jobs EXCEPT ![i].pc = IF u.canceled THEN "end" ELSE "notify"], {}, u.res)
        /\ parsed' = [parsed EXCEPT ![f] = IF u.canceled THEN None ELSE Ready(<<u.version, u.toks>>, u.res, u.deps)]
    BY <2>1 DEF Publish
  <2>3. parsed' = [parsed EXCEPT ![f] = r]
    BY <1>3, <1>5, <2>2
  <2>4. PICK js : js = [jobs EXCEPT ![i] = v]
    OBVIOUS
  <2>5. jobs' = Answered(js, {}, u.res)
    BY <1>1, <1>3, <1>4, <2>2, <2>4
  <2>6. js = [n \in DOMAIN js |-> js[n]]
    BY <2>4
  <2>7. Answered(js, {}, u.res) = js
    BY <2>6 DEF Answered
  <2> QED BY <2>3, <2>4, <2>5, <2>7
<1>7. MovedTo(jobs', jobs, i, v)
  BY <1>1, <1>6 DEF MovedTo
<1>8. Kept(v, u, {"pc"}) /\ v.pc = "notify"
  BY <1>1, <1>4 DEF Kept, Fields
<1>9. /\ v.path = u.path /\ v.send = u.send /\ v.rd = u.rd /\ v.cancel = u.cancel
      /\ v.cyc = u.cyc /\ v.deps = u.deps /\ v.recv = u.recv /\ v.toks = u.toks /\ v.canceled = u.canceled
      /\ v.v = u.v /\ v.version = u.version /\ v.imports = u.imports /\ v.res = u.res /\ v.old_deps = u.old_deps
  BY <1>8 DEF Kept, Fields
<1>10. /\ Wave(jobs, parsed, vfs, downstream, diag, opened, up, rank, x, {}) /\ Typed(jobs, vfs, up, rank)
       /\ diag = [g \in Files |-> diag[g]]
  BY StateTyped DEF WaveNow, Wave
<1>11. /\ parsed'[f] = r /\ \A g \in Files : g # f => parsed'[g] = parsed[g]
  <2>1. parsed = [g \in Files |-> parsed[g]]
    BY DEF ServerInv, Consistent
  <2> HIDE DEF f
  <2> QED BY <1>1, <1>6, <2>1
<1>12. \A k \in DOMAIN t.text : parsed'[t.text[k]] = parsed[t.text[k]]
  <2>1. Sees(jobs, vfs, up, rank, i)
    BY <1>1, <1>10, ImportIs DEF Asked
  <2>2. \A k \in DOMAIN t.text : t.text[k] \in Files /\ rank[t.text[k]] < rank[f]
    BY <2>1 DEF Sees
  <2>3. rank[f] \in Nat
    BY <1>1, <1>10 DEF Typed
  <2>4. \A k \in DOMAIN t.text : t.text[k] # f
    BY <2>2, <2>3
  <2> QED BY <1>11, <2>2, <2>4
<1>13. Doing(v, i, parsed', t, diag[f])
  <2>1. \A k \in DOMAIN t.text : parsed'[t.text[k]].tag = "ready"
    BY <1>3, <1>12
  <2>2. v.toks = [k \in DOMAIN t.text |-> parsed'[t.text[k]].hash]
    BY <1>3, <1>9, <1>12
  <2>3. parsed'[v.path] = Ready(<<t.version, v.toks>>, v.res, t.text)
    BY <1>3, <1>5, <1>9, <1>11
  <2> HIDE DEF t, f, u
  <2> QED BY <1>3, <1>8, <1>9, <2>1, <2>2, <2>3 DEF Doing, AtWork, Asking, Asked, Early, f, u
<1>14. Goes(u, v) /\ Knows(v, vfs, up, rank)
  BY <1>1, <1>2, <1>8, <1>9 DEF Goes, Early, Working, AtWork, Asking, Knows
<1>15. ~Idle(jobs, parsed, vfs, diag, rank, x, i)
  BY <1>1 DEF Idle, Early
<1>16. Unseen(jobs, parsed, parsed', vfs, i)
  BY <1>1, <1>10, <1>11, <1>15, AloneUnseen
<1>17. /\ r.tag = "ready" /\ r.deps = u.deps /\ r = Ready(r.hash, Ok(r.hash), r.deps)
  BY <1>3, <1>5 DEF Ready
<1>18. ASSUME NEW g \in Files PROVE WaveParsed(parsed', vfs, up, rank, opened, g)
  <2>1. WaveParsed(parsed, vfs, up, rank, opened, g)
    BY <1>10 DEF Wave
  <2>2. CASE g = f
    <3>1. IsDeps(u.deps, f, vfs, up, rank)
      BY <1>2 DEF Knows
    <3> QED BY <1>2, <1>11, <1>17, <2>2, <3>1 DEF WaveParsed, Loaded
  <2>3. CASE g # f
    BY <1>11, <2>1, <2>3 DEF WaveParsed
  <2> QED BY <2>2, <2>3
<1>19. KnowsImporters(jobs', parsed', downstream)
  <2>1. ASSUME NEW g \in Files, NEW q \in Files PROVE g \in downstream[q] <=> DependsOn(jobs', parsed', g, q)
    <3>1. g \in downstream[q] <=> DependsOn(jobs, parsed, g, q)
      BY <1>10 DEF Wave, KnowsImporters
    <3>2. CASE g # f
      <4>1. parsed[g].tag = "busy" => parsed[g].job \in DOMAIN jobs /\ parsed[g].job # i
        BY <3>2 DEF ServerInv, Consistent, ParsedIs
      <4>2. DependsOn(jobs', parsed', g, q) <=> DependsOn(jobs, parsed, g, q)
        BY <1>7, <1>11, <3>2, <4>1 DEF DependsOn, MovedTo
      <4> QED BY <3>1, <4>2
    <3>3. CASE g = f
      <4>1. parsed[g].tag = "busy" /\ parsed[g].job = i
        BY <1>30, <3>3
      <4>2. DependsOn(jobs, parsed, g, q) <=> q \in ToSet(u.deps)
        BY <1>1, <4>1 DEF DependsOn, Counts
      <4>3. DependsOn(jobs', parsed', g, q) <=> q \in ToSet(u.deps)
        BY <1>11, <1>17, <3>3 DEF DependsOn
      <4> QED BY <3>1, <4>2, <4>3
    <3> QED BY <3>2, <3>3
  <2> QED BY <2>1 DEF KnowsImporters
<1>20. \A j \in DOMAIN jobs : Reads(jobs[j], parsed, downstream, rank, x) => downstream[jobs[j].path] = {}
  BY DEF Reads
<1>21. v.pc \in Working /\ parsed[f].tag # "ready"
  BY <1>8, <1>30 DEF Working, AtWork
<1>22. Wave(jobs', parsed', vfs, downstream, diag, opened, up, rank, x, {})
  BY <1>1, <1>7, <1>9, <1>10, <1>13, <1>14, <1>15, <1>16, <1>18, <1>19, <1>20, <1>21, MoveWave
<1> QED BY <1>22 DEF WaveNow, Publish, client

Workers(js, ps) ==
  \A f \in Files : ps[f].tag = "busy" =>
    LET i == ps[f].job IN i \in DOMAIN js /\ js[i].path = f /\ js[i].pc \in AtWork

LEMMA WorkersNow == ServerInv => Workers(jobs, parsed)
  BY DEF ServerInv, Consistent, ParsedIs, Workers

(* Job i ends and its file is settled. *)
LEMMA FinishWave ==
  ASSUME NEW js, NEW ps, NEW vs, NEW ds, NEW dg, NEW op, NEW up, NEW rank, NEW x, NEW E,
         Typed(js, vs, up, rank), Workers(js, ps), Wave(js, ps, vs, ds, dg, op, up, rank, x, E),
         NEW i \in DOMAIN js, js[i].pc \in {"lock", "notify"},
         NEW v, v.path = js[i].path, v.send = js[i].send, v.pc = "end", Knows(v, vs, up, rank),
         Doing(v, i, ps, vs[v.path], dg[v.path]),
         NEW s, MovedTo(s, js, i, v),
         Settled(ps, vs[v.path], dg[v.path], v.path, {}),
         NEW E2, E \subseteq E2,
         \A g \in DOMAIN vs : Ended(js, g) /\ g \notin E2 =>
           \A k \in DOMAIN vs[g].text : vs[g].text[k] \in Behind(js, x) => vs[g].text[k] \in Behind(s, x)
  PROVE  Wave(s, ps, vs, ds, dg, op, up, rank, x, E2)
<1>1. /\ DOMAIN s = DOMAIN js /\ s[i] = v /\ \A n \in DOMAIN js : n # i => s[n] = js[n]
      /\ js[i].pc # "end" /\ js[i].pc \notin Asking
  BY DEF MovedTo, Asking
<1>2. \A f : Ended(js, f) => Ended(s, f)
  BY <1>1 DEF Ended
<1>3. \A f : f # v.path => (Ended(s, f) <=> Ended(js, f))
  BY <1>1 DEF Ended
<1>4. \A j \in DOMAIN js : WaveJob(js, ps, vs, ds, dg, up, rank, x, j)
  BY DEF Wave
<1>5. ASSUME NEW j \in DOMAIN js PROVE Owes(s, j)
  <2>1. Owes(js, j) /\ s[j].send = js[j].send /\ s[j].path = js[j].path /\ \A n \in DOMAIN js : s[n].send = js[n].send
    BY <1>1, <1>4 DEF WaveJob
  <2>2. SUFFICES ASSUME js[j].send # <<>> PROVE Owes(s, j)
    BY <2>1 DEF Owes
  <2>3. PICK a, k : a = js[j].send[1] /\ k = js[j].send[2]
    OBVIOUS
  <2>4. /\ js[j].send = <<a, k>> /\ a \in DOMAIN js /\ js[a].pc \in Asking
        /\ k \in DOMAIN js[a].recv /\ js[a].recv[k] = Pending /\ js[a].imports[k] = js[j].path
        /\ \A n \in DOMAIN js : js[n].send = js[j].send => n = j
    BY <2>1, <2>2, <2>3 DEF Owes
  <2>5. s[a] = js[a]
    BY <1>1, <2>4
  <2> QED BY <1>1, <2>1, <2>3, <2>4, <2>5 DEF Owes
<1>6. \A j \in DOMAIN js : j # i => (Idle(js, ps, vs, dg, rank, x, j) => Idle(s, ps, vs, dg, rank, x, j))
  BY <1>1, <1>2 DEF Idle
<1>7. \A j \in DOMAIN js : Alone(js, j) => Alone(s, j)
  BY <1>1 DEF Alone
<1>8. ASSUME NEW j \in DOMAIN js PROVE WaveJob(s, ps, vs, ds, dg, up, rank, x, j)
  <2>1. CASE j = i
    <3>1. v.path \in DOMAIN vs
      BY <1>4 DEF WaveJob
    <3> QED BY <1>1, <1>5, <2>1, <3>1 DEF WaveJob
  <2>2. CASE j # i
    <3>1. s[j] = js[j]
      BY <1>1, <2>2
    <3>2. Kind(js, ps, vs, ds, dg, rank, x, j) => Kind(s, ps, vs, ds, dg, rank, x, j)
      BY <1>6, <2>2, <3>1 DEF Kind
    <3> QED BY <1>4, <1>5, <1>6, <1>7, <2>2, <3>1, <3>2 DEF WaveJob
  <2> QED BY <2>1, <2>2
<1>9. ASSUME NEW f \in DOMAIN vs PROVE WaveFile(s, ps, vs, dg, op, up, rank, x, E2, f)
  <2>1. WaveFile(js, ps, vs, dg, op, up, rank, x, E, f)
    BY DEF Wave
  <2>2. SUFFICES ASSUME Ended(s, f), f \notin E2 PROVE Settled(ps, vs[f], dg[f], f, Behind(s, x))
    BY <2>1 DEF WaveFile
  <2>3. CASE f = v.path
    <3>1. Settled(ps, vs[f], dg[f], f, {})
      BY <2>3
    <3> HIDE DEF Behind
    <3> QED BY <3>1 DEF Settled
  <2>4. CASE f # v.path
    <3>1. Ended(js, f) /\ f \notin E
      BY <1>3, <2>2, <2>4
    <3>2. Settled(ps, vs[f], dg[f], f, Behind(js, x))
      BY <2>1, <3>1 DEF WaveFile
    <3>3. \A k \in DOMAIN vs[f].text : vs[f].text[k] \in Behind(js, x) => vs[f].text[k] \in Behind(s, x)
      BY <2>2, <3>1
    <3> HIDE DEF Behind
    <3> QED BY <3>2, <3>3 DEF Settled
  <2> QED BY <2>3, <2>4
<1>10. KnowsImporters(s, ps, ds)
  <2>1. \A f \in Files : ps[f].tag = "busy" => s[ps[f].job] = js[ps[f].job]
    BY <1>1 DEF Workers, AtWork
  <2>2. \A f, p \in Files : DependsOn(s, ps, f, p) <=> DependsOn(js, ps, f, p)
    BY <2>1 DEF DependsOn
  <2> QED BY <2>2 DEF Wave, KnowsImporters
<1> QED BY <1>1, <1>8, <1>9, <1>10 DEF Wave

(* When nobody is at work on x any more, another file may take its place.   *)
LEMMA RebaseWave ==
  ASSUME NEW js, NEW ps, NEW vs, NEW ds, NEW dg, NEW op, NEW up, NEW rank, NEW x, NEW E,
         Typed(js, vs, up, rank), Wave(js, ps, vs, ds, dg, op, up, rank, x, E),
         NEW x2 \in Files, DOMAIN js = {} \/ (Ended(js, x) /\ rank[x] <= rank[x2])
  PROVE  Wave(js, ps, vs, ds, dg, op, up, rank, x2, E)
<1>1. Behind(js, x) = {}
  BY DEF Behind, Ended, Working, AtWork
<1>2. ASSUME NEW f \in DOMAIN vs PROVE WaveFile(js, ps, vs, dg, op, up, rank, x2, E, f)
  <2>1. WaveFile(js, ps, vs, dg, op, up, rank, x, E, f)
    BY DEF Wave
  <2> HIDE DEF Behind
  <2>2. Settled(ps, vs[f], dg[f], f, {}) => Settled(ps, vs[f], dg[f], f, Behind(js, x2))
    BY DEF Settled
  <2> QED BY <1>1, <2>1, <2>2 DEF WaveFile
<1>3. ASSUME NEW j \in DOMAIN js PROVE WaveJob(js, ps, vs, ds, dg, up, rank, x2, j)
  <2>1. WaveJob(js, ps, vs, ds, dg, up, rank, x, j) /\ Ended(js, x) /\ rank[x] <= rank[x2]
    BY DEF Wave
  <2>2. x \in Files /\ js[j].path \in Files /\ rank[x] \in Nat /\ rank[x2] \in Nat /\ rank[js[j].path] \in Nat
    BY JobRank DEF Typed
  <2>3. rank[js[j].path] < rank[x] => rank[js[j].path] < rank[x2]
    BY <2>1, <2>2
  <2>4. Idle(js, ps, vs, dg, rank, x, j) => Idle(js, ps, vs, dg, rank, x2, j)
    BY <2>3 DEF Idle
  <2>5. Reads(js[j], ps, ds, rank, x) => Reads(js[j], ps, ds, rank, x2)
    BY <2>3 DEF Reads
  <2>6. js[j].pc # "end" => ~Leads(js[j], ps, vs[js[j].path], dg[js[j].path], x)
    BY <2>1 DEF Leads, Ended
  <2>7. js[j].pc # "end" => Kind(js, ps, vs, ds, dg, rank, x2, j)
    BY <2>1, <2>4, <2>5, <2>6 DEF WaveJob, Kind
  <2> QED BY <2>1, <2>4, <2>7 DEF WaveJob
<1> QED BY <1>2, <1>3 DEF Wave

(* Job n is new, for file g. *)
SpawnWaveIs(s, js, g, send, rd, n) ==
  /\ n \notin DOMAIN js /\ DOMAIN s = DOMAIN js \cup {n}
  /\ s[n] = NewJob(g, send, rd) /\ \A j \in DOMAIN js : s[j] = js[j]

NewOwes(js, g, send) ==
  send # <<>> =>
    /\ send = <<send[1], send[2]>>
    /\ send[1] \in DOMAIN js /\ js[send[1]].pc \in Asking
    /\ send[2] \in DOMAIN js[send[1]].recv /\ js[send[1]].recv[send[2]] = Pending
    /\ js[send[1]].imports[send[2]] = g
    /\ \A j \in DOMAIN js : js[j].send # send

NewIdle(js, ps, vs, dg, rank, x, g) ==
  /\ rank[g] < rank[x]
  /\ Settled(ps, vs[g], dg[g], g, {})
  /\ \A k \in DOMAIN vs[g].text : Ended(js, vs[g].text[k])

LEMMA SpawnWave ==
  ASSUME NEW js, NEW ps, NEW vs, NEW ds, NEW dg, NEW op, NEW up, NEW rank, NEW x, NEW E,
         Typed(js, vs, up, rank), Workers(js, ps), Wave(js, ps, vs, ds, dg, op, up, rank, x, E), x \in Files,
         NEW g \in DOMAIN vs, NEW send, NEW rd, NEW n, NEW s, SpawnWaveIs(s, js, g, send, rd, n),
         IsList(rd), \A k \in DOMAIN rd : rd[k] \in Files /\ rank[g] < rank[rd[k]], NewOwes(js, g, send),
         \/ /\ Ended(js, g)
            /\ \/ Leads(NewJob(g, send, rd), ps, vs[g], dg[g], x)
               \/ Reads(NewJob(g, send, rd), ps, ds, rank, x)
               \/ NewIdle(js, ps, vs, dg, rank, x, g)
         \/ /\ NewIdle(js, ps, vs, dg, rank, x, g)
            /\ \A j \in DOMAIN js : js[j].path = g /\ js[j].pc # "end" => Idle(js, ps, vs, dg, rank, x, j),
         \A j \in DOMAIN js : Idle(js, ps, vs, dg, rank, x, j) =>
           \A k \in DOMAIN vs[js[j].path].text : vs[js[j].path].text[k] # g,
         NEW E2, E \subseteq E2 \cup {g}
  PROVE  Wave(s, ps, vs, ds, dg, op, up, rank, x, E2)
<1> DEFINE u == NewJob(g, send, rd)
<1>0. /\ u.path = g /\ u.send = send /\ u.rd = rd /\ u.cancel = FALSE /\ u.canceled = FALSE /\ u.cyc = FALSE
      /\ u.pc = "start" /\ u.deps = <<>> /\ u.old_deps = <<>> /\ u.toks = <<>> /\ u.recv = <<>>
  BY DEF NewJob
<1> HIDE DEF u
<1>1. /\ n \notin DOMAIN js /\ DOMAIN s = DOMAIN js \cup {n} /\ s[n] = u
      /\ \A j \in DOMAIN js : s[j] = js[j] /\ j # n
  BY DEF SpawnWaveIs, u
<1>2. \A f : f # g => (Ended(s, f) <=> Ended(js, f))
  BY <1>0, <1>1 DEF Ended
<1>3. ~Ended(s, g)
  BY <1>0, <1>1 DEF Ended
<1>4. \A j \in DOMAIN js : WaveJob(js, ps, vs, ds, dg, up, rank, x, j)
  BY DEF Wave
<1>5. \A j \in DOMAIN js : Idle(js, ps, vs, dg, rank, x, j) => Idle(s, ps, vs, dg, rank, x, j)
  BY <1>1, <1>2 DEF Idle
<1>6. rank \in [Files -> Nat] /\ g \in Files /\ DOMAIN vs[g].text = 1..Len(vs[g].text)
      /\ \A k \in DOMAIN vs[g].text : vs[g].text[k] \in Files /\ vs[g].text[k] # g
  <2>1. rank \in [Files -> Nat] /\ g \in Files /\ vs[g].text \in Seq(Files)
    BY DEF Typed
  <2>2. ImportsOf(g, vs[g].text, up, rank)
    BY DEF Wave, WaveFile
  <2>3. \A k \in DOMAIN vs[g].text : rank[vs[g].text[k]] < rank[g]
    BY <2>2 DEF ImportsOf
  <2>4. \A k \in DOMAIN vs[g].text : vs[g].text[k] \in Files
    BY <2>1
  <2> QED BY <2>1, <2>3, <2>4
<1>7. NewIdle(js, ps, vs, dg, rank, x, g) => Idle(s, ps, vs, dg, rank, x, n)
  <2>1. SUFFICES ASSUME NewIdle(js, ps, vs, dg, rank, x, g) PROVE Idle(s, ps, vs, dg, rank, x, n)
    OBVIOUS
  <2>2. \A k \in DOMAIN vs[g].text : Ended(s, vs[g].text[k])
    BY <1>2, <1>6, <2>1 DEF NewIdle
  <2>3. s[n].path = g /\ s[n].pc \in Early
    BY <1>0, <1>1 DEF Early
  <2> QED BY <2>1, <2>2, <2>3 DEF NewIdle, Idle
<1>8. ASSUME NEW j \in DOMAIN s PROVE Owes(s, j)
  <2>1. PICK t : t = s[j].send
    OBVIOUS
  <2>2. SUFFICES ASSUME t # <<>> PROVE Owes(s, j)
    BY <2>1 DEF Owes
  <2>3. PICK a, k : a = t[1] /\ k = t[2]
    OBVIOUS
  <2>4. /\ t = <<a, k>> /\ a \in DOMAIN js /\ js[a].pc \in Asking
        /\ k \in DOMAIN js[a].recv /\ js[a].recv[k] = Pending /\ js[a].imports[k] = s[j].path
        /\ \A l \in DOMAIN js : js[l].send = t => l = j
    <3>1. CASE j = n
      BY <1>0, <1>1, <2>1, <2>2, <2>3, <3>1 DEF NewOwes
    <3>2. CASE j # n
      <4>1. j \in DOMAIN js /\ s[j] = js[j] /\ Owes(js, j)
        BY <1>1, <1>4, <3>2 DEF WaveJob
      <4> QED BY <2>1, <2>2, <2>3, <4>1 DEF Owes
    <3> QED BY <3>1, <3>2
  <2>5. s[n].send = t => n = j
    <3>1. SUFFICES ASSUME send = t, n # j PROVE FALSE
      BY <1>0, <1>1
    <3>2. j \in DOMAIN js /\ js[j].send = send /\ send # <<>>
      BY <1>1, <2>1, <2>2, <3>1
    <3> QED BY <3>2 DEF NewOwes
  <2>6. \A l \in DOMAIN s : s[l].send = t => l = j
    BY <1>1, <2>4, <2>5
  <2>7. a \in DOMAIN s /\ s[a] = js[a]
    BY <1>1, <2>4
  <2> QED BY <2>1, <2>3, <2>4, <2>6, <2>7 DEF Owes
<1>9. WaveJob(s, ps, vs, ds, dg, up, rank, x, n)
  <2>1. Doing(u, n, ps, vs[g], dg[g])
    BY <1>0 DEF Doing, AtWork, Asking, Asked, Early
  <2>2. Knows(u, vs, up, rank)
    BY <1>0, EmptyIsList DEF Knows, IsDeps
  <2>3. Kind(s, ps, vs, ds, dg, rank, x, n)
    BY <1>0, <1>1, <1>7 DEF Kind, u
  <2>4. Alone(s, n) \/ Idle(s, ps, vs, dg, rank, x, n)
    BY <1>0, <1>1, <1>7 DEF Alone, Ended
  <2> QED BY <1>0, <1>1, <1>8, <2>1, <2>2, <2>3, <2>4 DEF WaveJob
<1>10. ASSUME NEW j \in DOMAIN js PROVE WaveJob(s, ps, vs, ds, dg, up, rank, x, j)
  <2>1. s[j] = js[j] /\ j \in DOMAIN s
    BY <1>1
  <2>2. Kind(js, ps, vs, ds, dg, rank, x, j) => Kind(s, ps, vs, ds, dg, rank, x, j)
    BY <1>5, <2>1 DEF Kind
  <2>3. js[j].pc # "end" /\ Alone(js, j) => Alone(s, j) \/ Idle(js, ps, vs, dg, rank, x, j)
    <3>1. js[j].path = g => js[j].pc = "end" \/ Idle(js, ps, vs, dg, rank, x, j)
      BY DEF Ended
    <3> QED BY <1>0, <1>1, <3>1 DEF Alone
  <2> QED BY <1>4, <1>5, <1>8, <2>1, <2>2, <2>3 DEF WaveJob
<1>11. Behind(s, x) = Behind(js, x)
  BY <1>0, <1>1 DEF Behind, Working, AtWork
<1>12. ASSUME NEW f \in DOMAIN vs PROVE WaveFile(s, ps, vs, dg, op, up, rank, x, E2, f)
  <2>1. WaveFile(js, ps, vs, dg, op, up, rank, x, E, f)
    BY DEF Wave
  <2>2. Ended(s, f) => f # g /\ Ended(js, f)
    BY <1>2, <1>3
  <2> QED BY <1>11, <2>1, <2>2 DEF WaveFile
<1>13. KnowsImporters(s, ps, ds)
  <2>1. \A f \in Files : ps[f].tag = "busy" => s[ps[f].job] = js[ps[f].job]
    BY <1>1 DEF Workers
  <2>2. \A f, p \in Files : DependsOn(s, ps, f, p) <=> DependsOn(js, ps, f, p)
    BY <2>1 DEF DependsOn
  <2> QED BY <2>2 DEF Wave, KnowsImporters
<1> QED BY <1>1, <1>9, <1>10, <1>12, <1>13 DEF Wave

LEMMA LockReadyGoesOn ==
  ASSUME ServerInv, NEW up, NEW rank, Tree(project, up, rank), NEW x, WaveNow(up, rank, x, {}),
         NEW i \in Job, LockReady(i)
  PROVE  WaveNow(up, rank, x, {})'
<1> DEFINE u == jobs[i]
           f == jobs[i].path
           t == vfs[f]
           h == parsed[f].hash
<1>1. /\ At(i, "lock") /\ parsed[f].tag = "ready" /\ UpToDate(i)
      /\ jobs' = [jobs EXCEPT ![i].res = parsed[f].res, ![i].pc = "end"]
      /\ UNCHANGED <<vfs, parsed, downstream, diag, opened>>
  BY DEF LockReady, Cache, Path, client
<1>2. /\ JobIs(u) /\ Fields = DOMAIN u /\ i \in DOMAIN jobs /\ u.pc = "lock" /\ f \in Files /\ f \in Loaded
      /\ Kind(jobs, parsed, vfs, downstream, diag, rank, x, i)
  BY <1>1, LockFacts
<1>3. Doing(u, i, parsed, t, diag[f]) /\ Knows(u, vfs, up, rank)
  BY WaveJobNow
<1>4. WaveParsed(parsed, vfs, up, rank, opened, f)
  BY <1>2 DEF WaveNow, Wave
<1>5. parsed[f].res = Ok(h)
  <2>1. parsed[f] = Ready(h, Ok(h), parsed[f].deps)
    BY <1>1, <1>4 DEF WaveParsed
  <2>2. \A a, r, d : Ready(a, r, d).res = r
    BY DEF Ready
  <2> QED BY <2>1, <2>2
<1>6. u.v = t.version /\ ~u.cancel /\ ~u.canceled /\ ~u.cyc
  BY <1>2, <1>3 DEF Doing
<1>7. /\ \A k \in DOMAIN parsed[f].deps : parsed[parsed[f].deps[k]].tag = "ready"
      /\ h = <<t.version, [k \in DOMAIN parsed[f].deps |-> parsed[parsed[f].deps[k]].hash]>>
  BY <1>1, <1>6 DEF UpToDate, Cache, Path
<1>8. Settled(parsed, t, diag[f], f, {})
  <2>1. parsed[f] # None
    BY <1>1 DEF None
  <2>2. CASE Leads(u, parsed, t, diag[f], x)
    <3>1. h[1] = t.version => parsed[f].deps = t.text /\ diag[f] = t.version
      BY <1>2, <2>1, <2>2 DEF Leads, Early
    <3>2. parsed[f].deps = t.text /\ diag[f] = t.version
      <4>1. PICK a, b : h = <<a, b>> /\ a = t.version
        BY <1>7
      <4>2. h[1] = a
        BY <4>1
      <4> HIDE DEF h, t
      <4> QED BY <3>1, <4>1, <4>2
    <3>3. PICK q : q = [k \in DOMAIN t.text |-> parsed[t.text[k]].hash]
      OBVIOUS
    <3>4. h = <<t.version, q>> /\ h[2] = q /\ q = [k \in DOMAIN t.text |-> q[k]]
      <4>1. h = <<t.version, q>>
        BY <1>7, <3>2, <3>3
      <4> HIDE DEF h, t
      <4> QED BY <3>3, <4>1
    <3>5. \A k \in DOMAIN t.text : parsed[t.text[k]].tag = "ready" /\ q[k] = parsed[t.text[k]].hash
      <4> HIDE DEF h, t
      <4> QED BY <1>7, <3>2, <3>3
    <3> QED BY <1>1, <3>2, <3>4, <3>5 DEF Settled, Tells
  <2>3. CASE Reads(u, parsed, downstream, rank, x)
    BY <1>2, <2>1, <2>3 DEF Reads, Early
  <2>4. CASE Idle(jobs, parsed, vfs, diag, rank, x, i)
    BY <2>4 DEF Idle
  <2> QED BY <1>2, <2>2, <2>3, <2>4 DEF Kind
<1>9. PICK v : v = [u EXCEPT !.res = parsed[f].res, !.pc = "end"]
  OBVIOUS
<1>10. MovedTo(jobs', jobs, i, v)
  <2>1. jobs' = [jobs EXCEPT ![i] = v]
    BY <1>1, <1>2, <1>9
  <2> QED BY <1>2, <2>1 DEF MovedTo
<1>11. Kept(v, u, {"res", "pc"}) /\ v.res = parsed[f].res /\ v.pc = "end"
  BY <1>2, <1>9 DEF Kept, Fields
<1>12. /\ v.path = u.path /\ v.send = u.send /\ v.rd = u.rd /\ v.cancel = u.cancel
       /\ v.cyc = u.cyc /\ v.deps = u.deps /\ v.canceled = u.canceled
       /\ v.v = u.v /\ v.old_deps = u.old_deps
  BY <1>11 DEF Kept, Fields
<1>13. Doing(v, i, parsed, t, diag[f])
  <2>1. Tells(parsed, v.path, v.res)
    BY <1>1, <1>5, <1>11, <1>12 DEF Tells
  <2> HIDE DEF t, f, u
  <2> QED BY <1>6, <1>11, <1>12, <2>1 DEF Doing, AtWork, Asking, Asked, Early
<1>14. Knows(v, vfs, up, rank)
  BY <1>3, <1>12 DEF Knows
<1>15. Behind(jobs, x) \subseteq Behind(jobs', x)
  BY <1>2, <1>10 DEF Behind, MovedTo, Working, AtWork
<1>16. /\ Wave(jobs, parsed, vfs, downstream, diag, opened, up, rank, x, {}) /\ Typed(jobs, vfs, up, rank)
       /\ Workers(jobs, parsed)
  BY StateTyped, WorkersNow DEF WaveNow
<1>17. Wave(jobs', parsed, vfs, downstream, diag, opened, up, rank, x, {})
  <2>1. jobs[i].pc \in {"lock", "notify"} /\ {} \subseteq {}
    BY <1>2
  <2>2. \A g \in DOMAIN vfs : \A k \in DOMAIN vfs[g].text : vfs[g].text[k] \in Behind(jobs, x) => vfs[g].text[k] \in Behind(jobs', x)
    BY <1>15
  <2> HIDE DEF Behind
  <2> QED BY <1>2, <1>8, <1>10, <1>11, <1>12, <1>13, <1>14, <1>16, <2>1, <2>2, FinishWave
<1> QED BY <1>1, <1>17 DEF WaveNow

(* The text of a file no job is for changes, or the client's version does.  *)
TextIs(vs2, vs, op2, op, p, up, rank) ==
  /\ DOMAIN vs2 = DOMAIN vs \cup {p} /\ DOMAIN vs2 \subseteq Files
  /\ \A g \in DOMAIN vs : g # p => vs2[g] = vs[g]
  /\ op2 \in [Files -> Nat] /\ \A g \in Files : g # p => op2[g] = op[g]
  /\ vs2[p].version \in Nat /\ vs2[p].version <= op2[p] /\ ImportsOf(p, vs2[p].text, up, rank)

LEMMA TextWave ==
  ASSUME NEW js, NEW ps, NEW vs, NEW ds, NEW dg, NEW op, NEW up, NEW rank, NEW x, NEW E,
         Wave(js, ps, vs, ds, dg, op, up, rank, x, E), NEW p \in Files,
         \A j \in DOMAIN js : js[j].path # p,
         NEW vs2, NEW op2, TextIs(vs2, vs, op2, op, p, up, rank), NEW E2, E \subseteq E2, p \in E2
  PROVE  Wave(js, ps, vs2, ds, dg, op2, up, rank, x, E2)
<1>0. /\ DOMAIN vs2 = DOMAIN vs \cup {p} /\ DOMAIN vs2 \subseteq Files
      /\ \A g \in DOMAIN vs : g # p => vs2[g] = vs[g]
      /\ op2 \in [Files -> Nat] /\ \A g \in Files : g # p => op2[g] = op[g]
      /\ vs2[p].version \in Nat /\ vs2[p].version <= op2[p] /\ ImportsOf(p, vs2[p].text, up, rank)
  BY DEF TextIs
<1>1. \A deps, f : IsDeps(deps, f, vs, up, rank) => IsDeps(deps, f, vs2, up, rank)
  BY <1>0 DEF IsDeps
<1>2. ASSUME NEW j \in DOMAIN js PROVE WaveJob(js, ps, vs2, ds, dg, up, rank, x, j)
  <2>1. WaveJob(js, ps, vs, ds, dg, up, rank, x, j)
    BY DEF Wave
  <2>2. js[j].path \in DOMAIN vs2 /\ vs2[js[j].path] = vs[js[j].path]
    BY <1>0, <2>1 DEF WaveJob
  <2>3. Knows(js[j], vs2, up, rank)
    BY <1>1, <2>1 DEF WaveJob, Knows
  <2>4. Idle(js, ps, vs, dg, rank, x, j) => Idle(js, ps, vs2, dg, rank, x, j)
    BY <2>2 DEF Idle
  <2>5. Kind(js, ps, vs, ds, dg, rank, x, j) => Kind(js, ps, vs2, ds, dg, rank, x, j)
    BY <2>2, <2>4 DEF Kind
  <2> QED BY <2>1, <2>2, <2>3, <2>4, <2>5 DEF WaveJob
<1>3. ASSUME NEW f \in DOMAIN vs2 PROVE WaveFile(js, ps, vs2, dg, op2, up, rank, x, E2, f)
  <2>1. CASE f = p
    BY <1>0, <2>1 DEF WaveFile
  <2>2. CASE f # p
    <3>1. WaveFile(js, ps, vs, dg, op, up, rank, x, E, f) /\ vs2[f] = vs[f] /\ op2[f] = op[f]
      BY <1>0, <2>2 DEF Wave
    <3> QED BY <3>1 DEF WaveFile
  <2> QED BY <2>1, <2>2
<1>4. ASSUME NEW f \in Files PROVE WaveParsed(ps, vs2, up, rank, op2, f)
  <2>1. WaveParsed(ps, vs, up, rank, op, f)
    BY DEF Wave
  <2> QED BY <1>0, <1>1, <2>1 DEF WaveParsed
<1> QED BY <1>0, <1>2, <1>3, <1>4 DEF Wave

-----------------------------------------------------------------------------
(* The steps that make new jobs.                                            *)
LEMMA SpawnedOne ==
  ASSUME NEW js, IsFiniteSet(DOMAIN js), NEW g, NEW send, NEW rd
  PROVE  \E n : SpawnWaveIs(Spawned(js, {NewJob(g, send, rd)}), js, g, send, rd, n)
<1>1. PICK u : u = NewJob(g, send, rd)
  OBVIOUS
<1>2. PICK s : s = Spawned(js, {u})
  OBVIOUS
<1>3. IsFiniteSet({u})
  BY FS_Singleton
<1>4. PICK N : SpawnIs(s, js, {u}, N)
  BY <1>2, <1>3, SpawnedFacts
<1>5. PICK n \in N : s[n] = u
  BY <1>4 DEF SpawnIs
<1>6. N = {n}
  BY <1>4, <1>5 DEF SpawnIs
<1>7. SpawnWaveIs(s, js, g, send, rd, n)
  BY <1>1, <1>4, <1>5, <1>6 DEF SpawnIs, SpawnWaveIs
<1> QED BY <1>1, <1>2, <1>7

LEMMA SpawnedNone ==
  ASSUME NEW js, IsFiniteSet(DOMAIN js), js = [j \in DOMAIN js |-> js[j]]
  PROVE  Spawned(js, {}) = js
<1>1. PICK s : s = Spawned(js, {})
  OBVIOUS
<1>2. s = [n \in DOMAIN s |-> s[n]]
  BY <1>1 DEF Spawned
<1>3. PICK N : SpawnIs(s, js, {}, N)
  BY <1>1, FS_EmptySet, SpawnedFacts
<1>4. N = {}
  BY <1>3 DEF SpawnIs
<1>5. DOMAIN s = DOMAIN js /\ \A n \in DOMAIN js : s[n] = js[n]
  BY <1>3, <1>4 DEF SpawnIs
<1> QED BY <1>1, <1>2, <1>5

LEMMA SpawnTyped ==
  ASSUME NEW js, NEW vs, NEW up, NEW rank, NEW ps, Typed(js, vs, up, rank), Workers(js, ps),
         NEW g \in Files, NEW send, NEW rd, NEW n, NEW s, SpawnWaveIs(s, js, g, send, rd, n),
         IsFiniteSet(DOMAIN js)
  PROVE  Typed(s, vs, up, rank) /\ Workers(s, ps) /\ IsFiniteSet(DOMAIN s)
<1>1. JobIs(NewJob(g, send, rd))
  BY NewJobFacts
<1>2. /\ n \notin DOMAIN js /\ DOMAIN s = DOMAIN js \cup {n}
      /\ s[n] = NewJob(g, send, rd) /\ \A j \in DOMAIN js : s[j] = js[j]
  BY DEF SpawnWaveIs
<1>3. Typed(s, vs, up, rank)
  BY <1>1, <1>2 DEF Typed
<1>4. Workers(s, ps)
  BY <1>2 DEF Workers
<1>5. IsFiniteSet(DOMAIN s)
  BY <1>2, FS_AddElement
<1> QED BY <1>3, <1>4, <1>5

LEMMA DepChangeIs ==
  /\ DepChange({}) = {}
  /\ \A f : DepChange({f}) = {NewJob(f, <<>>, <<>>)}
<1>1. DepChange({}) = {}
  BY DEF DepChange
<1>2. ASSUME NEW f PROVE DepChange({f}) = {NewJob(f, <<>>, <<>>)}
  BY DEF DepChange
<1> QED BY <1>1, <1>2

LEMMA ReceivedAsks ==
  ASSUME ServerInv, NEW i \in Job, NEW p, NextImport(i, p), NEW res, NEW dep
  PROVE  LET v == Received(i, res, dep)[i] IN v.pc \in Asking /\ v.imports = jobs[i].imports
<1>1. i \in DOMAIN jobs /\ Fields = DOMAIN jobs[i] /\ jobs[i].pc = "import"
  BY JobFacts DEF NextImport, At
<1>2. PICK r, d, x, c : /\ r = Append(jobs[i].recv, res) /\ d = jobs[i].deps \o dep
                        /\ x = (IF jobs[i].next = Len(jobs[i].imports) THEN 1 ELSE jobs[i].next + 1)
                        /\ c = (IF jobs[i].next = Len(jobs[i].imports) THEN "elab" ELSE "import")
  OBVIOUS
<1>3. PICK v : v = [jobs[i] EXCEPT !.recv = r, !.deps = d, !.next = x, !.pc = c]
  OBVIOUS
<1>4. Received(i, res, dep)[i] = v
  BY <1>1, <1>2, <1>3 DEF Received, Fields
<1>5. v.pc = c /\ v.imports = jobs[i].imports
  BY <1>1, <1>3 DEF Fields
<1> QED BY <1>2, <1>4, <1>5 DEF Asking

(* Whether file p, which job i asks for, is loaded: if it is, its result is *)
(* settled, and is not used only because it may be locked.                  *)
AskedFor(i, p, rank, x, up) ==
  LET u == jobs[i] IN
  /\ i \in DOMAIN jobs /\ p \in Files /\ u.path \in Files
  /\ rank[p] < rank[x] /\ rank[p] < rank[u.path] /\ up[p] = u.path
  /\ u.imports[u.next] = p /\ u.next \notin DOMAIN u.recv /\ u.pc = "import"
  /\ \A j \in DOMAIN jobs : jobs[j].send # <<i, u.next>>
  /\ \A j \in DOMAIN jobs : Idle(jobs, parsed, vfs, diag, rank, x, j) =>
       \A k \in DOMAIN vfs[jobs[j].path].text : vfs[jobs[j].path].text[k] # p
  /\ p \in DOMAIN vfs =>
       /\ NewIdle(jobs, parsed, vfs, diag, rank, x, p)
       /\ \A j \in DOMAIN jobs : jobs[j].path = p /\ jobs[j].pc # "end" => Idle(jobs, parsed, vfs, diag, rank, x, j)

LEMMA AskedForIs ==
  ASSUME ServerInv, NEW up, NEW rank, Tree(project, up, rank), NEW x, WaveNow(up, rank, x, {}),
         NEW i \in Job, NEW p \in Files, NextImport(i, p), parsed[p].tag = "ready" => MayBeLocked(p, i)
  PROVE  AskedFor(i, p, rank, x, up)
<1> DEFINE u == jobs[i]
           f == jobs[i].path
           n == jobs[i].next
           t == vfs[f]
<1>1. /\ JobIs(u) /\ i \in DOMAIN jobs /\ u.pc = "import" /\ f \in Files /\ p = u.imports[n]
  BY JobFacts DEF NextImport, At, JobIs
<1>2. /\ Wave(jobs, parsed, vfs, downstream, diag, opened, up, rank, x, {}) /\ Typed(jobs, vfs, up, rank)
  BY StateTyped DEF WaveNow
<1>3. Sees(jobs, vfs, up, rank, i)
  BY <1>1, <1>2, ImportIs DEF Asking
<1>4. n \in DOMAIN t.text /\ t.text[n] = p /\ u.imports = t.text
  BY <1>1, <1>3 DEF Sees, JobIs
<1>5. /\ up[p] = f /\ rank[p] < rank[f]
      /\ \A l \in DOMAIN t.text : t.text[l] = p => l = n
  BY <1>3, <1>4 DEF Sees
<1>6. rank[p] \in Nat /\ rank[f] \in Nat /\ rank[x] \in Nat /\ rank[f] <= rank[x]
  <2>1. rank[f] \in Nat /\ rank[x] \in Nat /\ rank[f] <= rank[x]
    <3>1. jobs[i].pc # "end"
      BY <1>1
    <3> QED BY <1>1, <1>2, <3>1, JobRank
  <2> QED BY <1>2, <2>1 DEF Typed
<1>7. rank[p] < rank[x] /\ p # x
  BY <1>5, <1>6
<1>8. n \notin DOMAIN u.recv
  BY <1>1 DEF JobIs, IsList
<1>9. ASSUME NEW a \in DOMAIN jobs, jobs[a].pc \in Asking \cup Asked \cup Early, up[p] = jobs[a].path PROVE a = i
  <2>1. u.pc \notin Early /\ u.pc # "end" /\ jobs[a].pc # "end" /\ jobs[a].path = jobs[i].path
    BY <1>1, <1>5, <1>9 DEF Early, Asking, Asked
  <2> QED BY <1>1, <1>2, <2>1, AskersAreOne
<1>10. ASSUME NEW j \in DOMAIN jobs, jobs[j].send # <<>> PROVE jobs[j].path # p /\ jobs[j].send # <<i, n>>
  <2>1. PICK a, k :
           /\ a \in DOMAIN jobs /\ jobs[j].send = <<a, k>> /\ jobs[a].pc \in Asking
           /\ k \in DOMAIN jobs[a].recv
           /\ k \in DOMAIN vfs[jobs[a].path].text /\ vfs[jobs[a].path].text[k] = jobs[j].path
    BY <1>2, <1>10, OwedIs
  <2>2. Sees(jobs, vfs, up, rank, a)
    BY <1>2, <2>1, ImportIs
  <2>3. up[jobs[j].path] = jobs[a].path
    BY <2>1, <2>2 DEF Sees
  <2>4. jobs[j].path # p
    <3>1. SUFFICES ASSUME jobs[j].path = p PROVE FALSE
      OBVIOUS
    <3>2. a = i
      BY <1>9, <2>1, <2>3, <3>1
    <3> QED BY <1>5, <1>8, <2>1, <3>1, <3>2
  <2>5. jobs[j].send # <<i, n>>
    <3>1. SUFFICES ASSUME <<a, k>> = <<i, n>> PROVE FALSE
      BY <2>1
    <3>2. a = i /\ k = n
      BY <3>1
    <3> QED BY <1>8, <2>1, <3>2
  <2> QED BY <2>4, <2>5
<1>11. ASSUME NEW j \in DOMAIN jobs, Idle(jobs, parsed, vfs, diag, rank, x, j),
              NEW k \in DOMAIN vfs[jobs[j].path].text, vfs[jobs[j].path].text[k] = p
       PROVE  FALSE
  <2>1. jobs[j].path \in DOMAIN vfs /\ jobs[j].pc \in Early
    BY <1>2, <1>11 DEF Wave, WaveJob, Idle
  <2>2. ImportsOf(jobs[j].path, vfs[jobs[j].path].text, up, rank)
    BY <1>2, <2>1 DEF Wave, WaveFile
  <2>3. up[p] = jobs[j].path
    BY <1>11, <2>2 DEF ImportsOf
  <2>4. j = i
    BY <1>9, <2>1, <2>3
  <2> QED BY <1>1, <2>1, <2>4 DEF Early
<1>12. ASSUME p \in DOMAIN vfs
       PROVE  /\ NewIdle(jobs, parsed, vfs, diag, rank, x, p)
              /\ \A j \in DOMAIN jobs : jobs[j].path = p /\ jobs[j].pc # "end" => Idle(jobs, parsed, vfs, diag, rank, x, j)
  <2>1. ASSUME NEW j \in DOMAIN jobs, jobs[j].path = p, jobs[j].pc # "end" PROVE Idle(jobs, parsed, vfs, diag, rank, x, j)
    <3>1. Kind(jobs, parsed, vfs, downstream, diag, rank, x, j)
      BY <1>2, <2>1 DEF Wave, WaveJob
    <3> QED BY <1>7, <1>10, <2>1, <3>1 DEF Kind, Leads, Reads
  <2>2. ASSUME Ended(jobs, p) PROVE FALSE
    <3>1. Settled(parsed, vfs[p], diag[p], p, Behind(jobs, x))
      BY <1>2, <1>12, <2>2 DEF Wave, WaveFile
    <3>2. parsed[p].tag = "ready"
      BY <3>1 DEF Settled
    <3>3. PICK j \in Job : jobs[j].path = p /\ jobs[j].pc \in {"lock", "publish"}
      BY <3>2 DEF MayBeLocked, Path
    <3> QED BY <2>2, <3>3 DEF Ended, Job
  <2>3. PICK j \in DOMAIN jobs : jobs[j].path = p /\ jobs[j].pc # "end"
    BY <2>2 DEF Ended
  <2>4. Idle(jobs, parsed, vfs, diag, rank, x, j)
    BY <2>1, <2>3
  <2>5. NewIdle(jobs, parsed, vfs, diag, rank, x, p)
    BY <2>3, <2>4 DEF Idle, NewIdle
  <2> QED BY <2>1, <2>5
<1>13. \A j \in DOMAIN jobs : jobs[j].send # <<i, n>>
  <2>1. <<i, n>> # <<>>
    OBVIOUS
  <2> QED BY <1>10, <2>1
<1>14. \A j \in DOMAIN jobs : Idle(jobs, parsed, vfs, diag, rank, x, j) =>
         \A k \in DOMAIN vfs[jobs[j].path].text : vfs[jobs[j].path].text[k] # p
  BY <1>11
<1> HIDE DEF f, n, u
<1> QED BY <1>1, <1>5, <1>7, <1>8, <1>12, <1>13, <1>14 DEF AskedFor, f, n, u

(* Whatever counts as an import of a job is one it had or has.              *)
LEMMA CountsKnown ==
  ASSUME NEW w, NEW vs, NEW up, NEW rank, Knows(w, vs, up, rank), NEW p, Counts(w, p)
  PROVE  p \in DOMAIN vs /\ up[p] = w.path /\ rank[p] < rank[w.path]
<1>1. /\ IsDeps(w.old_deps, w.path, vs, up, rank) /\ IsDeps(w.deps, w.path, vs, up, rank)
      /\ w.old_deps \in Seq(Files) /\ w.deps \in Seq(Files)
  BY DEF Knows, IsDeps
<1>2. PICK vis, lo : VisitedIs(w, vis, lo)
  BY <1>1, VisitedFacts
<1>3. Told(w, p) => p \in ToSet(w.old_deps) \/ p \in ToSet(w.deps)
  BY <1>2 DEF Told, VisitedIs
<1>4. p \in ToSet(w.old_deps) \/ p \in ToSet(w.deps)
  BY <1>3 DEF Counts
<1> QED BY <1>1, <1>4 DEF IsDeps, ToSet

LEMMA ImportSpawnsGoesOn ==
  ASSUME ServerInv, NEW up, NEW rank, Tree(project, up, rank), NEW x, WaveNow(up, rank, x, {}),
         NEW i \in Job, NEW p \in Files, ImportSpawns(i, p)
  PROVE  WaveNow(up, rank, x, {})'
<1> DEFINE u == jobs[i]
           n == jobs[i].next
<1>1. /\ NextImport(i, p) /\ vfs' = GetOrInsert(p) /\ p \notin ToSet(Rd(i))
      /\ parsed[p].tag = "ready" => MayBeLocked(p, i)
      /\ jobs' = Spawned(Received(i, Pending, <<p>>), {NewJob(p, <<i, n>>, Rd(i))})
      /\ UNCHANGED <<parsed, downstream, diag, opened>>
  BY DEF ImportSpawns, client
<1>2. AskedFor(i, p, rank, x, up)
  BY <1>1, AskedForIs
<1>3. PICK vs : /\ vs = vfs' /\ vs = GetOrInsert(p) /\ DOMAIN vs = DOMAIN vfs \cup {p} /\ DOMAIN vs \subseteq Files
                /\ \A g \in DOMAIN vs : vs[g].text \in Seq(Files)
  BY <1>1, FilesLoaded DEF ServerInv, Loaded
<1>4. /\ \A g \in DOMAIN vfs : vs[g] = vfs[g]
      /\ p \notin DOMAIN vfs => vs[p].version = 0 /\ vs[p].text = project.disk[p]
      /\ p \in DOMAIN vfs => vs = vfs
  <2>1. vs = [g \in DOMAIN vfs \cup {p} |-> IF g \in DOMAIN vfs THEN vfs[g] ELSE [version |-> 0, text |-> project.disk[g]]]
    BY <1>3 DEF GetOrInsert, Loaded
  <2>2. vfs = [g \in DOMAIN vfs |-> vfs[g]]
    BY DEF ServerInv, FilesAre, Loaded
  <2>3. p \in DOMAIN vfs => vs = vfs
    <3>1. SUFFICES ASSUME p \in DOMAIN vfs PROVE vs = vfs
      OBVIOUS
    <3>2. DOMAIN vfs \cup {p} = DOMAIN vfs
      BY <3>1
    <3> QED BY <2>1, <2>2, <3>2
  <2> QED BY <2>1, <2>3
<1>5. PICK js : js = Received(i, Pending, <<p>>)
  OBVIOUS
<1>6. PICK v : /\ MovedTo(js, jobs, i, v)
               /\ JobIs(v) /\ v.path = jobs[i].path /\ v.send = jobs[i].send /\ v.pc \in AtWork
               /\ DOMAIN v.recv = DOMAIN jobs[i].recv \cup {n}
               /\ v.recv[n] = Pending
  BY <1>1, <1>5, ReceivedFacts
<1>7. /\ i \in DOMAIN jobs /\ DOMAIN js = DOMAIN jobs /\ js[i] = v /\ \A j \in DOMAIN jobs : j # i => js[j] = jobs[j]
      /\ v.pc \in Asking /\ v.imports = u.imports
  <2>1. Received(i, Pending, <<p>>)[i].pc \in Asking /\ Received(i, Pending, <<p>>)[i].imports = jobs[i].imports
    BY <1>1, ReceivedAsks
  <2> QED BY <1>2, <1>5, <1>6, <2>1 DEF MovedTo, AskedFor
<1>8. /\ Wave(jobs, parsed, vfs, downstream, diag, opened, up, rank, x, {}) /\ Typed(jobs, vfs, up, rank)
      /\ Workers(jobs, parsed) /\ IsFiniteSet(DOMAIN jobs)
  BY StateTyped, WorkersNow DEF WaveNow, ServerInv, Consistent
<1>9. Typed(jobs, vs, up, rank) /\ Typed(js, vs, up, rank) /\ Workers(js, parsed) /\ IsFiniteSet(DOMAIN js)
  <2>1. Typed(jobs, vs, up, rank)
    BY <1>3, <1>8 DEF Typed
  <2>2. Typed(js, vs, up, rank)
    BY <1>6, <1>7, <2>1 DEF Typed
  <2>3. Workers(js, parsed)
    BY <1>6, <1>7, <1>8 DEF Workers
  <2> QED BY <1>7, <1>8, <2>1, <2>2, <2>3
<1>10. PICK E : E = IF p \in DOMAIN vfs THEN {} ELSE {p}
  OBVIOUS
<1>11. Wave(jobs, parsed, vs, downstream, diag, opened, up, rank, x, E)
  <2>1. CASE p \in DOMAIN vfs
    BY <1>4, <1>8, <1>10, <2>1
  <2>2. CASE p \notin DOMAIN vfs
    <3>1. opened \in [Files -> Nat] /\ \A j \in DOMAIN jobs : jobs[j].path # p
      BY <1>8, <2>2 DEF Wave, WaveJob
    <3>2. ImportsOf(p, vs[p].text, up, rank)
      BY <1>4, <2>2 DEF Tree
    <3>3. vs[p].version \in Nat /\ vs[p].version <= opened[p]
      BY <1>4, <2>2, <3>1
    <3>4. TextIs(vs, vfs, opened, opened, p, up, rank)
      <4>1. DOMAIN vs = DOMAIN vfs \cup {p} /\ \A g \in DOMAIN vfs : vs[g] = vfs[g]
        BY <1>3, <1>4
      <4>2. DOMAIN vs \subseteq Files
        BY <1>8, <4>1 DEF Typed
      <4> QED BY <3>1, <3>2, <3>3, <4>1, <4>2 DEF TextIs
    <3>5. p \in E /\ {} \subseteq E
      BY <1>10, <2>2
    <3> QED BY <1>8, <3>1, <3>4, <3>5, TextWave
  <2> QED BY <2>1, <2>2
<1>12. Wave(js, parsed, vs, downstream, diag, opened, up, rank, x, E)
  <2>1. p \in DOMAIN vs
    BY <1>3
  <2> QED BY <1>1, <1>5, <1>9, <1>11, <2>1, ReceivedWave
<1>13. PICK m : SpawnWaveIs(jobs', js, p, <<i, n>>, Rd(i), m)
  BY <1>1, <1>5, <1>9, SpawnedOne
<1>14. \A f : Ended(js, f) <=> Ended(jobs, f)
  BY <1>2, <1>6, <1>7 DEF Ended, AskedFor, AtWork
<1>15. \A j \in DOMAIN jobs : Idle(js, parsed, vs, diag, rank, x, j) => Idle(jobs, parsed, vfs, diag, rank, x, j) /\ j # i
  <2>1. SUFFICES ASSUME NEW j \in DOMAIN jobs, Idle(js, parsed, vs, diag, rank, x, j)
                 PROVE  Idle(jobs, parsed, vfs, diag, rank, x, j) /\ j # i
    OBVIOUS
  <2>2. j # i
    BY <1>6, <1>7, <2>1 DEF Idle, AtWork, Early
  <2>3. js[j] = jobs[j] /\ jobs[j].path \in DOMAIN vfs /\ vs[jobs[j].path] = vfs[jobs[j].path]
    BY <1>4, <1>7, <1>8, <2>2 DEF Wave, WaveJob
  <2> QED BY <1>14, <2>1, <2>2, <2>3 DEF Idle
<1>16. \A j \in DOMAIN js : Idle(js, parsed, vs, diag, rank, x, j) =>
         \A k \in DOMAIN vs[js[j].path].text : vs[js[j].path].text[k] # p
  <2>1. SUFFICES ASSUME NEW j \in DOMAIN jobs, Idle(js, parsed, vs, diag, rank, x, j),
                        NEW k \in DOMAIN vs[js[j].path].text
                 PROVE  vs[js[j].path].text[k] # p
    BY <1>7
  <2>2. Idle(jobs, parsed, vfs, diag, rank, x, j) /\ js[j] = jobs[j]
    BY <1>7, <1>15, <2>1
  <2>3. vs[jobs[j].path] = vfs[jobs[j].path]
    BY <1>4, <1>8 DEF Wave, WaveJob
  <2> QED BY <1>2, <2>1, <2>2, <2>3 DEF AskedFor
<1>17. NewOwes(js, p, <<i, n>>)
  <2>1. <<i, n>>[1] = i /\ <<i, n>>[2] = n
    OBVIOUS
  <2>2. \A j \in DOMAIN js : js[j].send # <<i, n>>
    BY <1>2, <1>6, <1>7 DEF AskedFor
  <2>3. i \in DOMAIN js /\ js[i].pc \in Asking /\ n \in DOMAIN js[i].recv /\ js[i].recv[n] = Pending /\ js[i].imports[n] = p
    BY <1>2, <1>6, <1>7 DEF AskedFor
  <2>4. PICK e : e = <<i, n>>
    OBVIOUS
  <2>5. NewOwes(js, p, e)
    BY <2>1, <2>2, <2>3, <2>4 DEF NewOwes
  <2> QED BY <2>4, <2>5
<1>18. IsList(Rd(i)) /\ \A k \in DOMAIN Rd(i) : Rd(i)[k] \in Files /\ rank[p] < rank[Rd(i)[k]]
  <2>1. IsList(u.rd) /\ \A k \in DOMAIN u.rd : u.rd[k] \in Files /\ rank[u.path] < rank[u.rd[k]]
    BY WaveJobNow DEF Knows
  <2>2. PICK l : l = Append(u.rd, u.path) /\ l = Rd(i)
    BY DEF Rd, Path
  <2>3. IsList(l) /\ \A k \in DOMAIN l : l[k] = u.path \/ (k \in DOMAIN u.rd /\ l[k] = u.rd[k])
    <3>1. PICK rd, f : rd = u.rd /\ f = u.path
      OBVIOUS
    <3>2. IsList(rd) /\ l = Append(rd, f)
      BY <2>1, <2>2, <3>1
    <3>3. IsList(l) /\ \A k \in DOMAIN l : l[k] = f \/ (k \in DOMAIN rd /\ l[k] = rd[k])
      BY <3>2, AppendIsList
    <3> QED BY <3>1, <3>3
  <2>4. rank[p] < rank[u.path] /\ u.path \in Files /\ rank \in [Files -> Nat]
    BY <1>2, <1>8 DEF AskedFor, Typed
  <2>5. ASSUME NEW k \in DOMAIN l PROVE l[k] \in Files /\ rank[p] < rank[l[k]]
    <3>1. l[k] \in Files /\ (l[k] = u.path \/ rank[u.path] < rank[l[k]])
      BY <2>1, <2>3, <2>4
    <3>2. PICK a \in Nat, b \in Nat, c \in Nat : a = rank[p] /\ b = rank[u.path] /\ c = rank[l[k]]
      BY <2>4, <3>1
    <3> QED BY <2>4, <3>1, <3>2
  <2> QED BY <2>2, <2>3, <2>5
<1>19. \/ /\ Ended(js, p)
          /\ \/ Leads(NewJob(p, <<i, n>>, Rd(i)), parsed, vs[p], diag[p], x)
             \/ Reads(NewJob(p, <<i, n>>, Rd(i)), parsed, downstream, rank, x)
             \/ NewIdle(js, parsed, vs, diag, rank, x, p)
       \/ /\ NewIdle(js, parsed, vs, diag, rank, x, p)
          /\ \A j \in DOMAIN js : js[j].path = p /\ js[j].pc # "end" => Idle(js, parsed, vs, diag, rank, x, j)
  <2>1. CASE p \in DOMAIN vfs
    <3>1. /\ NewIdle(jobs, parsed, vfs, diag, rank, x, p) /\ vs = vfs
          /\ \A j \in DOMAIN jobs : jobs[j].path = p /\ jobs[j].pc # "end" => Idle(jobs, parsed, vfs, diag, rank, x, j)
      BY <1>2, <1>4, <2>1 DEF AskedFor
    <3>2. NewIdle(js, parsed, vs, diag, rank, x, p)
      BY <1>14, <3>1 DEF NewIdle
    <3>3. ASSUME NEW j \in DOMAIN js, js[j].path = p, js[j].pc # "end" PROVE Idle(js, parsed, vs, diag, rank, x, j)
      <4>1. j # i
        <5>1. v.path # p
          BY <1>2, <1>6, <1>8 DEF AskedFor, Typed
        <5> QED BY <1>7, <3>3, <5>1
      <4>2. js[j] = jobs[j] /\ Idle(jobs, parsed, vfs, diag, rank, x, j)
        BY <1>7, <3>1, <3>3, <4>1
      <4> QED BY <1>14, <3>1, <4>2 DEF Idle
    <3> QED BY <3>2, <3>3
  <2>2. CASE p \notin DOMAIN vfs
    <3>1. \A j \in DOMAIN jobs : jobs[j].path # p
      BY <1>8, <2>2 DEF Wave, WaveJob
    <3>2. Ended(js, p)
      BY <1>14, <3>1 DEF Ended
    <3>3. downstream[p] = {}
      <4>1. ASSUME NEW g \in Files PROVE ~DependsOn(jobs, parsed, g, p)
        <5>1. CASE parsed[g].tag = "ready"
          <6>1. IsDeps(parsed[g].deps, g, vfs, up, rank)
            BY <1>8, <5>1 DEF Wave, WaveParsed
          <6>2. p \notin ToSet(parsed[g].deps)
            BY <2>2, <6>1 DEF IsDeps, ToSet
          <6> QED BY <5>1, <6>2 DEF DependsOn
        <5>2. CASE parsed[g].tag = "busy"
          <6>1. PICK w : w = jobs[parsed[g].job]
            OBVIOUS
          <6>2. Knows(w, vfs, up, rank)
            BY <1>8, <5>2, <6>1 DEF Workers, Wave, WaveJob
          <6>3. ~Counts(w, p)
            BY <2>2, <6>2, CountsKnown DEF IsDeps
          <6> QED BY <5>2, <6>1, <6>3 DEF DependsOn
        <5> QED BY <5>1, <5>2 DEF DependsOn
      <4>2. downstream[p] \subseteq Files
        BY DEF ServerInv, FilesAre
      <4> QED BY <1>8, <4>1, <4>2 DEF Wave, KnowsImporters
    <3>4. parsed[p] = None
      BY <1>8, <2>2 DEF Wave, WaveParsed
    <3>5. rank[p] < rank[x] /\ <<i, n>> # <<>>
      BY <1>2 DEF AskedFor
    <3>6. PICK w : w = NewJob(p, <<i, n>>, Rd(i))
      OBVIOUS
    <3>7. w.path = p /\ w.send = <<i, n>>
      BY <3>6 DEF NewJob
    <3>8. Reads(w, parsed, downstream, rank, x)
      BY <3>3, <3>4, <3>5, <3>7 DEF Reads
    <3> QED BY <3>2, <3>6, <3>8
  <2> QED BY <2>1, <2>2
<1>20. x \in Files /\ p \in DOMAIN vs /\ E \subseteq {} \cup {p}
  BY <1>2, <1>3, <1>8, <1>10 DEF Wave, AskedFor
<1>21. Wave(jobs', parsed, vs, downstream, diag, opened, up, rank, x, {})
  <2>1. PICK send, rd : send = <<i, n>> /\ rd = Rd(i)
    OBVIOUS
  <2> HIDE DEF n, u
  <2> QED BY <1>9, <1>12, <1>13, <1>16, <1>17, <1>18, <1>19, <1>20, <2>1, SpawnWave
<1> QED BY <1>1, <1>3, <1>21 DEF WaveNow

-----------------------------------------------------------------------------
(* A job that has ended leaves, and its answer arrives.                     *)
SameButRecv(v, u) ==
  /\ v.path = u.path /\ v.send = u.send /\ v.rd = u.rd /\ v.cancel = u.cancel /\ v.pc = u.pc /\ v.v = u.v
  /\ v.version = u.version /\ v.imports = u.imports /\ v.old_deps = u.old_deps /\ v.deps = u.deps
  /\ v.next = u.next /\ v.toks = u.toks /\ v.cyc = u.cyc /\ v.canceled = u.canceled /\ v.res = u.res
  /\ DOMAIN v.recv = DOMAIN u.recv

Arrives(s, js, i) ==
  /\ DOMAIN s = DOMAIN js \ {i}
  /\ \A j \in DOMAIN s :
       /\ SameButRecv(s[j], js[j])
       /\ \A k \in DOMAIN js[j].recv :
            s[j].recv[k] = IF js[i].send = <<j, k>> THEN js[i].res ELSE js[j].recv[k]

LEMMA DoingArrives ==
  ASSUME NEW js, NEW ps, NEW vs, NEW ds, NEW dg, NEW op, NEW up, NEW rank, NEW x, NEW E,
         Typed(js, vs, up, rank), Wave(js, ps, vs, ds, dg, op, up, rank, x, E),
         NEW i \in DOMAIN js, js[i].pc = "end", NEW s, Arrives(s, js, i), NEW j \in DOMAIN s
  PROVE  Doing(s[j], j, ps, vs[js[j].path], dg[js[j].path])
<1> DEFINE t == vs[js[j].path]
<1>1. PICK u, v : u = js[j] /\ v = s[j]
  OBVIOUS
<1>2. /\ j \in DOMAIN js /\ Doing(u, j, ps, t, dg[js[j].path]) /\ SameButRecv(v, u) /\ JobIs(u)
      /\ \A k \in DOMAIN u.recv : v.recv[k] = IF js[i].send = <<j, k>> THEN js[i].res ELSE u.recv[k]
  BY <1>1 DEF Arrives, Wave, WaveJob, Typed
<1>3. ASSUME u.pc \in Asking, NEW k \in DOMAIN u.recv, js[i].send = <<j, k>>
      PROVE  u.recv[k] = Pending /\ Tells(ps, t.text[k], js[i].res)
  <2>1. <<j, k>> # <<>> /\ <<j, k>>[1] = j /\ <<j, k>>[2] = k
    OBVIOUS
  <2>2. u.recv[k] = Pending /\ u.imports[k] = js[i].path
    <3>1. Owes(js, i)
      BY DEF Wave, WaveJob
    <3> QED BY <1>1, <1>3, <2>1, <3>1 DEF Owes
  <2>3. Tells(ps, js[i].path, js[i].res)
    <3>1. Doing(js[i], i, ps, vs[js[i].path], dg[js[i].path])
      BY DEF Wave, WaveJob
    <3> QED BY <1>3, <2>1, <3>1 DEF Doing
  <2>4. u.imports = t.text
    BY <1>2, <1>3 DEF Doing
  <2> QED BY <2>2, <2>3, <2>4
<1> HIDE DEF t
<1>4. u.pc \in Asking => \A k \in DOMAIN v.recv : v.recv[k] = Pending \/ Tells(ps, t.text[k], v.recv[k])
  <2>1. SUFFICES ASSUME u.pc \in Asking, NEW k \in DOMAIN u.recv
                 PROVE  v.recv[k] = Pending \/ Tells(ps, t.text[k], v.recv[k])
    BY <1>2 DEF SameButRecv
  <2>2. u.recv[k] = Pending \/ Tells(ps, t.text[k], u.recv[k])
    BY <1>2, <2>1 DEF Doing
  <2> QED BY <1>2, <1>3, <2>1, <2>2
<1>5. u.pc \in {"elab", "await"} => \A k \in 1..Len(u.toks) : v.recv[k] = Ok(u.toks[k])
  <2>1. SUFFICES ASSUME u.pc \in {"elab", "await"}, NEW k \in 1..Len(u.toks) PROVE v.recv[k] = Ok(u.toks[k])
    OBVIOUS
  <2>2. u.recv[k] = Ok(u.toks[k]) /\ u.recv[k] # Pending
    BY <1>2, <2>1, OkFacts DEF Doing
  <2>3. k \in DOMAIN u.recv
    <3>1. /\ Len(u.recv) = Len(u.imports) /\ IsList(u.recv) /\ u.imports \in Seq(Files) /\ u.imports = t.text
          /\ u.next = Len(u.toks) + 1 /\ u.next <= Len(t.text) + 1 /\ IsList(u.toks)
      BY <1>2, <2>1 DEF JobIs, Doing, Asking
    <3>2. PICK a \in Nat, b \in Nat : a = Len(u.toks) /\ b = Len(u.recv) /\ DOMAIN u.recv = 1..b /\ a + 1 <= b + 1
      BY <3>1 DEF IsList
    <3> QED BY <2>1, <3>2
  <2> QED BY <1>2, <1>3, <2>1, <2>2, <2>3 DEF Asking
<1>6. Doing(v, j, ps, t, dg[js[j].path])
  <2> HIDE DEF Asking
  <2>1. u.pc \in {"elab", "await"} => u.pc \in Asking
    BY DEF Asking
  <2>2. /\ v.path = u.path /\ v.send = u.send /\ v.cancel = u.cancel /\ v.pc = u.pc /\ v.v = u.v
        /\ v.version = u.version /\ v.imports = u.imports /\ v.deps = u.deps
        /\ v.next = u.next /\ v.toks = u.toks /\ v.cyc = u.cyc /\ v.canceled = u.canceled /\ v.res = u.res
    BY <1>2 DEF SameButRecv
  <2> QED BY <1>2, <1>4, <1>5, <2>2 DEF Doing
<1> QED BY <1>1, <1>6 DEF t

LEMMA ArrivesWave ==
  ASSUME NEW js, NEW ps, NEW vs, NEW ds, NEW dg, NEW op, NEW up, NEW rank, NEW x, NEW E,
         Typed(js, vs, up, rank), Workers(js, ps), Wave(js, ps, vs, ds, dg, op, up, rank, x, E),
         NEW i \in DOMAIN js, js[i].pc = "end", NEW s, Arrives(s, js, i)
  PROVE  Wave(s, ps, vs, ds, dg, op, up, rank, x, E)
<1>1. /\ DOMAIN s = DOMAIN js \ {i}
      /\ \A j \in DOMAIN s : SameButRecv(s[j], js[j])
  BY DEF Arrives
<1>2. \A f : Ended(s, f) <=> Ended(js, f)
  BY <1>1 DEF Ended, SameButRecv
<1>3. ASSUME NEW j \in DOMAIN s PROVE WaveJob(s, ps, vs, ds, dg, up, rank, x, j)
  <2>1. PICK u, v : u = js[j] /\ v = s[j]
    OBVIOUS
  <2>2. /\ v.path = u.path /\ v.send = u.send /\ v.rd = u.rd /\ v.cancel = u.cancel /\ v.pc = u.pc
        /\ v.old_deps = u.old_deps /\ v.deps = u.deps
    BY <1>1, <2>1 DEF SameButRecv
  <2>3. WaveJob(js, ps, vs, ds, dg, up, rank, x, j) /\ j \in DOMAIN js /\ j # i
    BY <1>1 DEF Wave
  <2>4. Owes(s, j)
    <3>1. Owes(js, j)
      BY <2>3 DEF WaveJob
    <3>2. SUFFICES ASSUME u.send # <<>> PROVE Owes(s, j)
      BY <2>1, <2>2 DEF Owes
    <3>3. PICK a, k : a = u.send[1] /\ k = u.send[2]
      OBVIOUS
    <3>4. /\ u.send = <<a, k>> /\ a \in DOMAIN js /\ js[a].pc \in Asking
          /\ k \in DOMAIN js[a].recv /\ js[a].recv[k] = Pending /\ js[a].imports[k] = u.path
          /\ \A n \in DOMAIN js : js[n].send = u.send => n = j
      BY <2>1, <3>1, <3>2, <3>3 DEF Owes
    <3>5. a \in DOMAIN s /\ js[i].send # <<a, k>>
      BY <1>1, <2>3, <3>4 DEF Asking
    <3>6. s[a].recv[k] = Pending
      BY <3>4, <3>5 DEF Arrives
    <3>7. s[a].pc = js[a].pc /\ DOMAIN s[a].recv = DOMAIN js[a].recv /\ s[a].imports = js[a].imports
      BY <1>1, <3>5 DEF SameButRecv
    <3>8. \A n \in DOMAIN s : s[n].send = u.send => n = j
      BY <1>1, <3>4 DEF SameButRecv
    <3> QED BY <2>1, <2>2, <3>3, <3>4, <3>5, <3>6, <3>7, <3>8 DEF Owes
  <2>5. Doing(s[j], j, ps, vs[v.path], dg[v.path])
    BY <2>1, <2>2, DoingArrives
  <2>6. Idle(js, ps, vs, dg, rank, x, j) => Idle(s, ps, vs, dg, rank, x, j)
    BY <1>2, <2>1, <2>2 DEF Idle
  <2>7. Kind(js, ps, vs, ds, dg, rank, x, j) => Kind(s, ps, vs, ds, dg, rank, x, j)
    BY <2>1, <2>2, <2>6 DEF Kind, Leads, Reads
  <2>8. Alone(js, j) => Alone(s, j)
    BY <1>1 DEF Alone, SameButRecv
  <2>9. Knows(v, vs, up, rank)
    BY <2>1, <2>2, <2>3 DEF WaveJob, Knows
  <2> QED BY <2>1, <2>2, <2>3, <2>4, <2>5, <2>6, <2>7, <2>8, <2>9 DEF WaveJob
<1>4. Behind(s, x) = Behind(js, x)
  BY <1>1 DEF Behind, SameButRecv, Working, AtWork
<1>5. ASSUME NEW f \in DOMAIN vs PROVE WaveFile(s, ps, vs, dg, op, up, rank, x, E, f)
  BY <1>2, <1>4 DEF Wave, WaveFile
<1>6. KnowsImporters(s, ps, ds)
  <2>1. \A f \in Files : ps[f].tag = "busy" => ps[f].job \in DOMAIN s
    BY <1>1 DEF Workers, AtWork
  <2>2. \A j \in DOMAIN s : \A p : Counts(s[j], p) <=> Counts(js[j], p)
    <3>1. SUFFICES ASSUME NEW j \in DOMAIN s, NEW p PROVE Counts(s[j], p) <=> Counts(js[j], p)
      OBVIOUS
    <3>2. PICK u, v : u = js[j] /\ v = s[j] /\ SameButRecv(v, u)
      BY <1>1
    <3>3. Told(v, p) <=> Told(u, p)
      BY <3>2 DEF Told, Visited, SameButRecv
    <3> QED BY <3>2, <3>3 DEF Counts, SameButRecv
  <2>3. \A f, p \in Files : DependsOn(s, ps, f, p) <=> DependsOn(js, ps, f, p)
    BY <2>1, <2>2 DEF DependsOn
  <2> QED BY <2>3 DEF Wave, KnowsImporters
<1> QED BY <1>1, <1>3, <1>5, <1>6 DEF Wave

LEMMA EndGoesOn ==
  ASSUME ServerInv, NEW up, NEW rank, Tree(project, up, rank), NEW x, WaveNow(up, rank, x, {}),
         NEW i \in Job, End(i)
  PROVE  WaveNow(up, rank, x, {})'
<1>1. /\ i \in DOMAIN jobs /\ jobs[i].pc = "end" /\ UNCHANGED <<vfs, parsed, downstream, diag, opened>>
  BY DEF End, At, Job, client
<1>2. /\ Wave(jobs, parsed, vfs, downstream, diag, opened, up, rank, x, {}) /\ Typed(jobs, vfs, up, rank)
      /\ Workers(jobs, parsed)
  BY StateTyped, WorkersNow DEF WaveNow
<1>3. PICK send, res : send = jobs[i].send /\ res = jobs[i].res
  OBVIOUS
<1>4. PICK rest : rest = [j \in DOMAIN jobs \ {i} |-> jobs[j]]
  OBVIOUS
<1>5. jobs' = IF send # <<>> /\ send[1] \in DOMAIN jobs \ {i}
              THEN [rest EXCEPT ![send[1]].recv[send[2]] = res] ELSE rest
  BY <1>3, <1>4 DEF End, Job
<1>6. send # <<>> => send = <<send[1], send[2]>> /\ send[1] \in DOMAIN jobs \ {i}
  <2>1. Owes(jobs, i)
    BY <1>1, <1>2 DEF Wave, WaveJob
  <2> QED BY <1>1, <1>3, <2>1 DEF Owes, Asking
<1>7. \A j \in DOMAIN jobs \ {i} : SameButRecv(rest[j], jobs[j]) /\ rest[j] = jobs[j] /\ DOMAIN jobs[j] = Fields
  BY <1>2, <1>4 DEF SameButRecv, Typed, JobIs
<1>8. CASE send = <<>>
  <2>1. \A j, k : send # <<j, k>>
    BY <1>8
  <2>2. jobs' = rest /\ DOMAIN rest = DOMAIN jobs \ {i}
    BY <1>4, <1>5, <1>8
  <2>3. Arrives(jobs', jobs, i)
    BY <1>3, <1>7, <2>1, <2>2 DEF Arrives
  <2> QED BY <1>1, <1>2, <2>3, ArrivesWave DEF WaveNow
<1>9. CASE send # <<>>
  <2>1. PICK a, k : a = send[1] /\ k = send[2] /\ send = <<a, k>> /\ a \in DOMAIN jobs \ {i}
    BY <1>6, <1>9
  <2>2. PICK r : r = [jobs[a].recv EXCEPT ![k] = res]
    OBVIOUS
  <2>3. PICK v : v = [jobs[a] EXCEPT !.recv = r]
    OBVIOUS
  <2>4. /\ DOMAIN jobs' = DOMAIN jobs \ {i} /\ jobs'[a] = v
        /\ \A j \in DOMAIN jobs' : j # a => jobs'[j] = jobs[j]
    <3>1. jobs' = [rest EXCEPT ![a] = v]
      BY <1>4, <1>5, <1>9, <2>1, <2>2, <2>3
    <3> QED BY <1>4, <2>1, <3>1
  <2>5. Kept(v, jobs[a], {"recv"}) /\ v.recv = r
    BY <1>7, <2>1, <2>3 DEF Kept, Fields
  <2>6. SameButRecv(v, jobs[a])
    <3>1. DOMAIN r = DOMAIN jobs[a].recv
      BY <2>2
    <3> QED BY <2>5, <3>1 DEF Kept, SameButRecv, Fields
  <2>7. \A l \in DOMAIN jobs[a].recv : r[l] = IF l = k THEN res ELSE jobs[a].recv[l]
    BY <2>2
  <2>8. \A j, l : send = <<j, l>> <=> j = a /\ l = k
    BY <2>1
  <2>9. Arrives(jobs', jobs, i)
    <3>1. ASSUME NEW j \in DOMAIN jobs'
          PROVE  /\ SameButRecv(jobs'[j], jobs[j])
                 /\ \A l \in DOMAIN jobs[j].recv :
                      jobs'[j].recv[l] = IF jobs[i].send = <<j, l>> THEN jobs[i].res ELSE jobs[j].recv[l]
      <4>1. CASE j = a
        BY <1>3, <2>4, <2>5, <2>6, <2>7, <2>8, <4>1
      <4>2. CASE j # a
        BY <1>3, <1>7, <2>4, <2>8, <4>2
      <4> QED BY <4>1, <4>2
    <3> QED BY <2>4, <3>1 DEF Arrives
  <2> QED BY <1>1, <1>2, <2>9, ArrivesWave DEF WaveNow
<1> QED BY <1>8, <1>9

-----------------------------------------------------------------------------
(* Who is told that a file has a new result.                                *)
LEMMA DownstreamIs ==
  ASSUME NEW js, NEW ps, NEW vs, NEW ds, NEW dg, NEW op, NEW up, NEW rank, NEW x, NEW E,
         Workers(js, ps), Wave(js, ps, vs, ds, dg, op, up, rank, x, E),
         NEW g \in Files, NEW p \in Files, g \in ds[p]
  PROVE  g \in DOMAIN vs /\ p \in DOMAIN vs /\ up[p] = g /\ rank[p] < rank[g]
<1>1. DependsOn(js, ps, g, p)
  BY DEF Wave, KnowsImporters
<1>2. WaveParsed(ps, vs, up, rank, op, g)
  BY DEF Wave
<1>3. CASE ps[g].tag = "ready" /\ p \in ToSet(ps[g].deps)
  <2>1. g \in DOMAIN vs
    BY <1>2, <1>3 DEF WaveParsed, None
  <2>2. IsDeps(ps[g].deps, g, vs, up, rank)
    BY <1>2, <1>3 DEF WaveParsed
  <2> QED BY <1>3, <2>1, <2>2 DEF IsDeps, ToSet
<1>4. CASE ps[g].tag = "busy" /\ Counts(js[ps[g].job], p)
  <2>1. PICK w : w = js[ps[g].job]
    OBVIOUS
  <2>2. w.path = g /\ g \in DOMAIN vs /\ Knows(w, vs, up, rank)
    BY <1>4, <2>1 DEF Workers, Wave, WaveJob
  <2> QED BY <1>4, <2>1, <2>2, CountsKnown
<1> QED BY <1>1, <1>3, <1>4 DEF DependsOn

LEMMA DownstreamIsOne ==
  ASSUME NEW js, NEW ps, NEW vs, NEW ds, NEW dg, NEW op, NEW up, NEW rank, NEW x, NEW E,
         Workers(js, ps), Wave(js, ps, vs, ds, dg, op, up, rank, x, E),
         NEW p \in Files, ds[p] \subseteq Files
  PROVE  ds[p] = {} \/ \E g \in Files : ds[p] = {g}
<1>1. \A g \in ds[p] : g = up[p]
  BY DownstreamIs
<1>2. ds[p] = {} \/ ds[p] = {up[p]}
  BY <1>1
<1> QED BY <1>2

(* No job that will find nothing to do asks for a file above it. *)
LEMMA IdleIsBelow ==
  ASSUME NEW js, NEW ps, NEW vs, NEW ds, NEW dg, NEW op, NEW up, NEW rank, NEW x, NEW E,
         Typed(js, vs, up, rank), Wave(js, ps, vs, ds, dg, op, up, rank, x, E),
         NEW g \in Files, rank[x] <= rank[g],
         NEW j \in DOMAIN js, Idle(js, ps, vs, dg, rank, x, j)
  PROVE  \A k \in DOMAIN vs[js[j].path].text : vs[js[j].path].text[k] # g
<1> DEFINE f == js[j].path
<1>1. f \in Files /\ f \in DOMAIN vs /\ x \in Files
  BY JobRank
<1>2. ImportsOf(f, vs[f].text, up, rank) /\ rank[f] < rank[x]
  BY <1>1 DEF Wave, WaveFile, Idle
<1>3. PICK a \in Nat, b \in Nat, c \in Nat : a = rank[f] /\ b = rank[x] /\ c = rank[g]
  BY <1>1 DEF Typed
<1>4. SUFFICES ASSUME NEW k \in DOMAIN vs[f].text, vs[f].text[k] = g PROVE FALSE
  OBVIOUS
<1>5. c < a
  BY <1>2, <1>3, <1>4 DEF ImportsOf
<1> QED BY <1>2, <1>3, <1>5

LEMMA SettledLeads ==
  ASSUME NEW ps, NEW t, NEW d, NEW g, NEW O, Settled(ps, t, d, g, O)
  PROVE  Leads(NewJob(g, <<>>, <<>>), ps, t, d, g)
<1>1. PICK u : u = NewJob(g, <<>>, <<>>)
  OBVIOUS
<1>2. u.path = g /\ u.send = <<>>
  BY <1>1 DEF NewJob
<1>3. ps[g].tag = "ready" /\ ps[g].deps = t.text /\ d = t.version
  BY DEF Settled
<1>4. Leads(u, ps, t, d, g)
  BY <1>2, <1>3 DEF Leads
<1> QED BY <1>1, <1>4

(* A new job for a file settled, which nobody is at work on. *)
LEMMA SpawnLeads ==
  ASSUME NEW js, NEW ps, NEW vs, NEW ds, NEW dg, NEW op, NEW up, NEW rank, NEW E,
         NEW g \in DOMAIN vs, g \in Files,
         Typed(js, vs, up, rank), Workers(js, ps), Wave(js, ps, vs, ds, dg, op, up, rank, g, E),
         NEW n, NEW s, SpawnWaveIs(s, js, g, <<>>, <<>>, n), Ended(js, g),
         Leads(NewJob(g, <<>>, <<>>), ps, vs[g], dg[g], g),
         NEW E2, E \subseteq E2 \cup {g}
  PROVE  Wave(s, ps, vs, ds, dg, op, up, rank, g, E2)
<1>1. PICK send, rd : send = <<>> /\ rd = <<>>
  OBVIOUS
<1>2. IsList(rd) /\ DOMAIN rd = {}
  BY <1>1, EmptyIsList
<1>3. NewOwes(js, g, send)
  BY <1>1 DEF NewOwes
<1>4. rank[g] \in Nat /\ rank[g] <= rank[g]
  BY DEF Typed
<1>5. \A j \in DOMAIN js : Idle(js, ps, vs, dg, rank, g, j) =>
        \A k \in DOMAIN vs[js[j].path].text : vs[js[j].path].text[k] # g
  BY <1>4, IdleIsBelow
<1>6. SpawnWaveIs(s, js, g, send, rd, n) /\ Leads(NewJob(g, send, rd), ps, vs[g], dg[g], g)
  BY <1>1
<1> QED BY <1>2, <1>3, <1>5, <1>6, SpawnWave

LEMMA TellGoesOn ==
  ASSUME ServerInv, NEW up, NEW rank, Tree(project, up, rank), NEW x, WaveNow(up, rank, x, {}),
         NEW i \in Job, Tell(i)
  PROVE  \E x2 : WaveNow(up, rank, x2, {})'
<1> DEFINE f == jobs[i].path
           t == vfs[f]
<1>1. /\ i \in DOMAIN jobs /\ jobs[i].pc = "notify" /\ UNCHANGED <<vfs, parsed, downstream, diag, opened>>
      /\ JobIs(jobs[i]) /\ Fields = DOMAIN jobs[i] /\ f \in Files /\ f \in DOMAIN vfs
  BY JobFacts DEF Tell, At, client, Loaded
<1>2. /\ Wave(jobs, parsed, vfs, downstream, diag, opened, up, rank, x, {}) /\ Typed(jobs, vfs, up, rank)
      /\ Workers(jobs, parsed) /\ x \in Files /\ IsFiniteSet(DOMAIN jobs) /\ downstream[f] \subseteq Files
  BY <1>1, StateTyped, WorkersNow DEF WaveNow, Wave, ServerInv, Consistent, FilesAre
<1>3. PICK fin : fin = [jobs EXCEPT ![i].pc = "end"]
  OBVIOUS
<1>4. PICK v : v = [jobs[i] EXCEPT !.pc = "end"]
  OBVIOUS
<1>5. MovedTo(fin, jobs, i, v) /\ DOMAIN fin = DOMAIN jobs /\ fin = [j \in DOMAIN fin |-> fin[j]]
  BY <1>1, <1>3, <1>4 DEF MovedTo
<1>6. Kept(v, jobs[i], {"pc"}) /\ v.pc = "end"
  BY <1>1, <1>4 DEF Kept, Fields
<1>7. /\ v.path = f /\ v.send = jobs[i].send /\ v.rd = jobs[i].rd /\ v.cancel = jobs[i].cancel
      /\ v.cyc = jobs[i].cyc /\ v.deps = jobs[i].deps /\ v.canceled = jobs[i].canceled /\ v.res = jobs[i].res
      /\ v.v = jobs[i].v /\ v.old_deps = jobs[i].old_deps
  BY <1>6 DEF Kept, Fields
<1>8. Doing(jobs[i], i, parsed, t, diag[f]) /\ Knows(jobs[i], vfs, up, rank)
  BY WaveJobNow
<1>9. PICK q : q = jobs[i].toks
  OBVIOUS
<1>10. /\ parsed[f] = Ready(<<t.version, q>>, Ok(<<t.version, q>>), t.text) /\ diag[f] = t.version
       /\ \A k \in DOMAIN t.text : parsed[t.text[k]].tag = "ready"
       /\ q = [k \in DOMAIN t.text |-> parsed[t.text[k]].hash] /\ jobs[i].res = Ok(<<t.version, q>>)
  BY <1>1, <1>8, <1>9 DEF Doing, Asked
<1>11. /\ parsed[f].tag = "ready" /\ parsed[f].hash = <<t.version, q>> /\ parsed[f].deps = t.text
  <2> HIDE DEF t
  <2> QED BY <1>10 DEF Ready
<1>12. Settled(parsed, t, diag[f], f, {})
  <2>1. PICK h : h = parsed[f].hash
    OBVIOUS
  <2>2. h = <<t.version, h[2]>> /\ h[2] = q
    BY <1>11, <2>1
  <2>3. \A k \in DOMAIN t.text : Tells(parsed, t.text[k], Ok(q[k]))
    <3> HIDE DEF t
    <3> QED BY <1>10 DEF Tells
  <2>4. q = [k \in DOMAIN t.text |-> q[k]]
    <3> HIDE DEF t
    <3> QED BY <1>10
  <2> HIDE DEF t, f
  <2> QED BY <1>10, <1>11, <2>1, <2>2, <2>3, <2>4 DEF Settled
<1>13. Doing(v, i, parsed, t, diag[f])
  <2>1. Tells(parsed, v.path, v.res)
    BY <1>7, <1>10, <1>11 DEF Tells
  <2>2. ~v.cancel /\ ~v.canceled /\ ~v.cyc /\ v.v = t.version
    BY <1>1, <1>7, <1>8 DEF Doing
  <2> HIDE DEF t, f
  <2> QED BY <1>6, <2>1, <2>2 DEF Doing, AtWork, Asking, Asked, Early
<1>14. Knows(v, vfs, up, rank)
  BY <1>7, <1>8 DEF Knows
<1>15. ASSUME NEW E2, \A g \in DOMAIN vfs : Ended(jobs, g) /\ g \notin E2 =>
                 \A k \in DOMAIN vfs[g].text : vfs[g].text[k] \in Behind(jobs, x) => vfs[g].text[k] \in Behind(fin, x)
       PROVE  Wave(fin, parsed, vfs, downstream, diag, opened, up, rank, x, E2)
  <2>1. jobs[i].pc \in {"lock", "notify"} /\ {} \subseteq E2
    BY <1>1
  <2> HIDE DEF Behind
  <2> QED BY <1>1, <1>2, <1>5, <1>6, <1>7, <1>12, <1>13, <1>14, <1>15, <2>1, FinishWave
<1>16. jobs' = Spawned(fin, DepChange(downstream[f]))
  BY <1>3 DEF Tell, Path
<1>17. downstream[f] = {} \/ \E g \in Files : downstream[f] = {g}
  BY <1>1, <1>2, DownstreamIsOne
<1>18. downstream[f] = {} => jobs' = fin
  BY <1>2, <1>5, <1>16, DepChangeIs, SpawnedNone
<1>19. (Leads(jobs[i], parsed, t, diag[f], x) \/ Reads(jobs[i], parsed, downstream, rank, x)) /\ Alone(jobs, i)
  BY <1>1, <1>2 DEF Wave, WaveJob, Kind, Idle, Early
<1>20. CASE downstream[f] = {}
  <2>1. ASSUME NEW g \in DOMAIN vfs, Ended(jobs, g), NEW k \in DOMAIN vfs[g].text, vfs[g].text[k] \in Behind(jobs, x)
        PROVE  vfs[g].text[k] \in Behind(fin, x)
    <3>1. vfs[g].text[k] = x
      BY <2>1 DEF Behind
    <3>2. CASE f = x
      <4>1. Settled(parsed, vfs[g], diag[g], g, Behind(jobs, x)) /\ g \in Files
        BY <1>2, <2>1 DEF Wave, WaveFile, Typed
      <4>2. parsed[g].tag = "ready" /\ x \in ToSet(parsed[g].deps)
        BY <2>1, <3>1, <4>1 DEF Settled, ToSet
      <4>3. g \in downstream[x]
        BY <1>2, <4>1, <4>2 DEF Wave, KnowsImporters, DependsOn
      <4> QED BY <1>20, <3>2, <4>3
    <3>3. CASE f # x
      BY <1>1, <1>5, <2>1, <3>3 DEF Behind, MovedTo
    <3> QED BY <3>2, <3>3
  <2>2. Wave(fin, parsed, vfs, downstream, diag, opened, up, rank, x, {})
    BY <1>15, <2>1
  <2> QED BY <1>1, <1>18, <1>20, <2>2 DEF WaveNow
<1>21. ASSUME NEW g \in Files, downstream[f] = {g} PROVE WaveNow(up, rank, g, {})'
  <2>1. f = x
    <3>1. downstream[f] # {}
      BY <1>21
    <3> QED BY <1>19, <3>1 DEF Leads, Reads
  <2>2. g \in DOMAIN vfs /\ up[x] = g /\ rank[x] < rank[g]
    BY <1>1, <1>2, <1>21, <2>1, DownstreamIs
  <2>3. PICK a \in Nat, b \in Nat : a = rank[x] /\ b = rank[g] /\ a < b /\ a <= b
    <3>1. rank[x] \in Nat /\ rank[g] \in Nat
      BY <1>2 DEF Typed
    <3>2. rank[x] <= rank[g]
      BY <2>2, <3>1
    <3> QED BY <2>2, <3>1, <3>2
  <2>4. Ended(jobs, g)
    <3>1. SUFFICES ASSUME NEW j \in DOMAIN jobs, jobs[j].path = g, jobs[j].pc # "end" PROVE FALSE
      BY DEF Ended
    <3>2. rank[g] <= rank[x]
      BY <1>2, <3>1, JobRank
    <3> QED BY <2>3, <3>2
  <2>5. Settled(parsed, vfs[g], diag[g], g, Behind(jobs, x))
    BY <1>2, <2>2, <2>4 DEF Wave, WaveFile
  <2>6. Wave(fin, parsed, vfs, downstream, diag, opened, up, rank, x, {g})
    <3>1. \A h \in DOMAIN vfs : h # g => \A k \in DOMAIN vfs[h].text : vfs[h].text[k] \notin Behind(jobs, x)
      <4>1. \A h \in DOMAIN vfs : \A k \in DOMAIN vfs[h].text : up[vfs[h].text[k]] = h
        BY <1>2 DEF Wave, WaveFile, ImportsOf
      <4> QED BY <2>2, <4>1 DEF Behind
    <3> HIDE DEF Behind
    <3> QED BY <1>15, <3>1
  <2>7. Ended(fin, x) /\ Ended(fin, g)
    BY <1>1, <1>5, <1>6, <1>19, <2>1, <2>4 DEF Alone, Ended, MovedTo
  <2>8. Typed(fin, vfs, up, rank) /\ Workers(fin, parsed)
    <3>1. JobIs(v)
      BY <1>1, <1>6, <1>7 DEF JobIs, Kept, Fields, AtWork
    <3>2. Typed(fin, vfs, up, rank)
      BY <1>2, <1>5, <3>1 DEF Typed, MovedTo
    <3>3. Workers(fin, parsed)
      BY <1>1, <1>2, <1>5 DEF Workers, MovedTo, AtWork
    <3> QED BY <3>2, <3>3
  <2>9. Wave(fin, parsed, vfs, downstream, diag, opened, up, rank, g, {g})
    <3>1. rank[x] <= rank[g]
      BY <2>3
    <3> QED BY <2>6, <2>7, <2>8, <3>1, RebaseWave
  <2>10. jobs' = Spawned(fin, {NewJob(g, <<>>, <<>>)})
    BY <1>16, <1>21, DepChangeIs
  <2>11. PICK n : SpawnWaveIs(jobs', fin, g, <<>>, <<>>, n)
    BY <1>2, <1>5, <2>10, SpawnedOne
  <2>12. Leads(NewJob(g, <<>>, <<>>), parsed, vfs[g], diag[g], g)
    BY <2>5, SettledLeads
  <2>13. Wave(jobs', parsed, vfs, downstream, diag, opened, up, rank, g, {})
    <3>1. {g} \subseteq {} \cup {g}
      OBVIOUS
    <3> QED BY <2>2, <2>7, <2>8, <2>9, <2>11, <2>12, <3>1, SpawnLeads
  <2> QED BY <1>1, <2>13 DEF WaveNow
<1> QED BY <1>17, <1>20, <1>21

-----------------------------------------------------------------------------
(* The client, when there are no jobs.                                      *)
NoJobs == DOMAIN jobs = {} /\ jobs = [j \in DOMAIN jobs |-> jobs[j]] /\ IsFiniteSet(DOMAIN jobs)

LEMMA NoJobsIs == jobs = <<>> => NoJobs
<1>1. SUFFICES ASSUME jobs = <<>> PROVE NoJobs
  OBVIOUS
<1>2. DOMAIN jobs = {}
  BY <1>1, EmptyIsList
<1>3. <<>> = [j \in {} |-> <<>>[j]]
  OBVIOUS
<1>4. jobs = [j \in DOMAIN jobs |-> jobs[j]]
  BY <1>1, <1>2, <1>3
<1> QED BY <1>2, <1>4, FS_EmptySet DEF NoJobs

(* At rest everything loaded is settled. *)
LEMMA RestSettled ==
  ASSUME NEW up, NEW rank, NEW x, WaveNow(up, rank, x, {}), DOMAIN jobs = {},
         NEW f \in DOMAIN vfs
  PROVE  /\ vfs[f].version \in Nat /\ vfs[f].version <= opened[f]
         /\ ImportsOf(f, vfs[f].text, up, rank)
         /\ Settled(parsed, vfs[f], diag[f], f, {})
<1>1. WaveFile(jobs, parsed, vfs, diag, opened, up, rank, x, {}, f)
  BY DEF WaveNow, Wave
<1>2. Ended(jobs, f) /\ Behind(jobs, x) = {}
  BY DEF Ended, Behind
<1> QED BY <1>1, <1>2 DEF WaveFile

(* The client has a new version of file f. *)
LEMMA ClientWave ==
  ASSUME ServerInv, NEW up, NEW rank, Tree(project, up, rank), NEW x, WaveNow(up, rank, x, {}), NoJobs,
         NEW f \in Files, opened' = [opened EXCEPT ![f] = @ + 1],
         NEW vs2, DOMAIN vs2 = DOMAIN vfs \cup {f}, \A g \in DOMAIN vfs : g # f => vs2[g] = vfs[g],
         vs2[f].version \in Nat, vs2[f].version <= opened[f] + 1, vs2[f].text \in Seq(Files),
         ImportsOf(f, vs2[f].text, up, rank), NEW g \in Files
  PROVE  /\ Typed(jobs, vs2, up, rank)
         /\ Wave(jobs, parsed, vs2, downstream, diag, opened', up, rank, g, {f})
<1>1. Wave(jobs, parsed, vfs, downstream, diag, opened, up, rank, x, {}) /\ Typed(jobs, vfs, up, rank)
  BY StateTyped DEF WaveNow
<1>2. opened \in [Files -> Nat]
  BY <1>1 DEF Wave
<1>3. opened' \in [Files -> Nat] /\ opened'[f] = opened[f] + 1 /\ \A h \in Files : h # f => opened'[h] = opened[h]
  BY <1>2
<1>4. DOMAIN jobs = {} /\ DOMAIN vs2 \subseteq Files
  BY <1>1 DEF NoJobs, Typed
<1>5. Typed(jobs, vs2, up, rank)
  BY <1>1, <1>4 DEF Typed
<1>6. PICK op2 : op2 = opened'
  OBVIOUS
<1>7. Wave(jobs, parsed, vs2, downstream, diag, op2, up, rank, x, {f})
  <2>1. TextIs(vs2, vfs, op2, opened, f, up, rank)
    BY <1>3, <1>4, <1>6 DEF TextIs
  <2>2. \A j \in DOMAIN jobs : jobs[j].path # f
    BY <1>4
  <2>3. PICK one : one = {f} /\ {} \subseteq one /\ f \in one
    OBVIOUS
  <2>4. Wave(jobs, parsed, vs2, downstream, diag, op2, up, rank, x, one)
    BY <1>1, <2>1, <2>2, <2>3, TextWave
  <2> QED BY <2>3, <2>4
<1>9. Wave(jobs, parsed, vs2, downstream, diag, op2, up, rank, g, {f})
  BY <1>4, <1>5, <1>7, RebaseWave
<1> QED BY <1>5, <1>6, <1>9

LEMMA NewTextGoesOn ==
  ASSUME ServerInv, project.patient, NEW up, NEW rank, Tree(project, up, rank), NEW x, WaveNow(up, rank, x, {}),
         NEW f \in Files, NEW text \in project.texts[f], OpenNew(f, text) \/ Change(f, text)
  PROVE  \E x2 : WaveNow(up, rank, x2, {})'
<1>1. /\ NoJobs /\ opened' = [opened EXCEPT ![f] = @ + 1] /\ UNCHANGED <<parsed, downstream, diag>>
      /\ jobs' = Spawned(jobs, DepChange({f}))
  BY NoJobsIs DEF OpenNew, Change, Notify
<1>2. text \in Seq(Files) /\ ImportsOf(f, text, up, rank)
  BY ServerAssumption DEF ServerInv, FilesAre, Tree
<1>3. opened \in [Files -> Nat] /\ WaveParsed(parsed, vfs, up, rank, opened, f)
  BY DEF WaveNow, Wave
<1>4. /\ DOMAIN vfs' = DOMAIN vfs \cup {f} /\ \A g \in DOMAIN vfs : g # f => vfs'[g] = vfs[g]
      /\ vfs'[f] = [version |-> opened[f] + 1, text |-> text]
      /\ f \notin DOMAIN vfs \/ opened[f] > 0
  <2>1. CASE OpenNew(f, text)
    <3>1. opened[f] + 1 = 1
      BY <2>1, <1>3 DEF OpenNew
    <3> QED BY <2>1, <3>1 DEF OpenNew, Loaded
  <2>2. CASE Change(f, text)
    <3>1. f \in DOMAIN vfs
      BY <1>3, <2>2 DEF Change, WaveParsed
    <3> QED BY <2>2, <3>1 DEF Change
  <2> QED BY <2>1, <2>2
<1>5. PICK b \in Nat : b = opened[f]
  BY <1>3
<1>6. vfs'[f].version = b + 1 /\ vfs'[f].text = text /\ b + 1 \in Nat /\ b + 1 <= b + 1
  BY <1>4, <1>5
<1>7. PICK vs2 : vs2 = vfs'
  OBVIOUS
<1>8. /\ Typed(jobs, vs2, up, rank)
      /\ Wave(jobs, parsed, vs2, downstream, diag, opened', up, rank, f, {f})
  BY <1>1, <1>2, <1>4, <1>5, <1>6, <1>7, ClientWave
<1>9. Leads(NewJob(f, <<>>, <<>>), parsed, vs2[f], diag[f], f)
  <2>1. PICK u : u = NewJob(f, <<>>, <<>>)
    OBVIOUS
  <2>2. u.path = f /\ u.send = <<>>
    BY <2>1 DEF NewJob
  <2>3. parsed[f] = None \/ (parsed[f].tag = "ready" /\ parsed[f].hash[1] # vs2[f].version)
    <3>1. CASE f \notin DOMAIN vfs
      BY <1>3, <3>1 DEF WaveParsed
    <3>2. CASE f \in DOMAIN vfs
      <4>1. vfs[f].version \in Nat /\ vfs[f].version <= b /\ Settled(parsed, vfs[f], diag[f], f, {})
        BY <1>1, <1>5, <3>2, RestSettled DEF NoJobs
      <4>2. PICK h : h = parsed[f].hash /\ h = <<vfs[f].version, h[2]>>
        BY <4>1 DEF Settled
      <4>3. h[1] = vfs[f].version
        BY <4>2
      <4> QED BY <1>6, <1>7, <4>1, <4>2, <4>3 DEF Settled
    <3> QED BY <3>1, <3>2
  <2>4. Leads(u, parsed, vs2[f], diag[f], f)
    BY <2>2, <2>3 DEF Leads
  <2> QED BY <2>1, <2>4
<1>10. PICK n : SpawnWaveIs(jobs', jobs, f, <<>>, <<>>, n)
  <2>1. jobs' = Spawned(jobs, {NewJob(f, <<>>, <<>>)})
    BY <1>1, DepChangeIs
  <2> QED BY <1>1, <2>1, SpawnedOne DEF NoJobs
<1>11. Ended(jobs, f) /\ {f} \subseteq {} \cup {f} /\ Workers(jobs, parsed) /\ f \in DOMAIN vs2
  BY <1>1, <1>4, <1>7, WorkersNow DEF NoJobs, Ended
<1>12. Wave(jobs', parsed, vs2, downstream, diag, opened', up, rank, f, {})
  <2>1. PICK op2 : op2 = opened'
    OBVIOUS
  <2> QED BY <1>8, <1>9, <1>10, <1>11, <2>1, SpawnLeads
<1> QED BY <1>1, <1>7, <1>12 DEF WaveNow

LEMMA OpenLoadedGoesOn ==
  ASSUME ServerInv, project.patient, NEW up, NEW rank, Tree(project, up, rank), NEW x, WaveNow(up, rank, x, {}),
         NEW f \in Files, OpenLoaded(f)
  PROVE  \E x2 : WaveNow(up, rank, x2, {})'
<1>1. /\ NoJobs /\ opened' = [opened EXCEPT ![f] = @ + 1] /\ UNCHANGED <<vfs, parsed, downstream, diag>>
      /\ jobs' = Spawned(Spawned(jobs, DepChange(downstream[f])), DepChange({f})) /\ f \in DOMAIN vfs
  BY NoJobsIs DEF OpenLoaded, Notify, Loaded
<1>2. /\ Wave(jobs, parsed, vfs, downstream, diag, opened, up, rank, x, {}) /\ Typed(jobs, vfs, up, rank)
      /\ Workers(jobs, parsed) /\ downstream[f] \subseteq Files
  BY StateTyped, WorkersNow DEF WaveNow, ServerInv, FilesAre
<1>3. \A g \in DOMAIN vfs : Settled(parsed, vfs[g], diag[g], g, {})
  BY <1>1, RestSettled DEF NoJobs
<1>4. PICK op2 : op2 = opened'
  OBVIOUS
<1>5. \A g \in Files : Wave(jobs, parsed, vfs, downstream, diag, op2, up, rank, g, {f})
  <2>1. PICK a \in Nat, b \in Nat : a = vfs[f].version /\ b = opened[f] /\ a <= b
    <3>1. opened[f] \in Nat
      BY <1>2 DEF Wave
    <3> QED BY <1>1, <3>1, RestSettled DEF NoJobs
  <2>2. a <= b + 1
    BY <2>1
  <2>3. DOMAIN vfs = DOMAIN vfs \cup {f} /\ vfs[f].text \in Seq(Files) /\ ImportsOf(f, vfs[f].text, up, rank)
    BY <1>1, <1>2, RestSettled DEF Typed, NoJobs
  <2> QED BY <1>1, <1>4, <2>1, <2>2, <2>3, ClientWave
<1>6. PICK j1 : j1 = Spawned(jobs, DepChange(downstream[f]))
  OBVIOUS
<1>7. jobs' = Spawned(j1, {NewJob(f, <<>>, <<>>)})
  BY <1>1, <1>6, DepChangeIs
<1>8. CASE downstream[f] = {}
  <2>1. j1 = jobs
    BY <1>1, <1>6, <1>8, DepChangeIs, SpawnedNone DEF NoJobs
  <2>2. PICK n : SpawnWaveIs(jobs', jobs, f, <<>>, <<>>, n)
    BY <1>1, <1>7, <2>1, SpawnedOne DEF NoJobs
  <2>3. Leads(NewJob(f, <<>>, <<>>), parsed, vfs[f], diag[f], f)
    BY <1>1, <1>3, SettledLeads
  <2>4. Ended(jobs, f) /\ {f} \subseteq {} \cup {f}
    BY <1>1 DEF NoJobs, Ended
  <2>5. Wave(jobs', parsed, vfs, downstream, diag, op2, up, rank, f, {})
    BY <1>1, <1>2, <1>5, <2>2, <2>3, <2>4, SpawnLeads
  <2> QED BY <1>1, <1>4, <2>5 DEF WaveNow
<1>9. ASSUME NEW g \in Files, downstream[f] = {g} PROVE WaveNow(up, rank, g, {})'
  <2>1. g \in DOMAIN vfs /\ rank[f] < rank[g] /\ rank[f] \in Nat /\ rank[g] \in Nat
    <3>1. g \in downstream[f]
      BY <1>9
    <3> QED BY <1>2, <3>1, DownstreamIs DEF Typed
  <2>2. PICK n : SpawnWaveIs(j1, jobs, g, <<>>, <<>>, n)
    <3>1. j1 = Spawned(jobs, {NewJob(g, <<>>, <<>>)})
      BY <1>6, <1>9, DepChangeIs
    <3> QED BY <1>1, <3>1, SpawnedOne DEF NoJobs
  <2>3. Leads(NewJob(g, <<>>, <<>>), parsed, vfs[g], diag[g], g)
    BY <1>3, <2>1, SettledLeads
  <2>4. Ended(jobs, g) /\ {f} \subseteq {f} \cup {g}
    BY <1>1 DEF NoJobs, Ended
  <2>5. Wave(j1, parsed, vfs, downstream, diag, op2, up, rank, g, {f})
    BY <1>2, <1>5, <2>1, <2>2, <2>3, <2>4, SpawnLeads
  <2>6. Typed(j1, vfs, up, rank) /\ Workers(j1, parsed) /\ IsFiniteSet(DOMAIN j1)
    BY <1>1, <1>2, <2>2, SpawnTyped DEF NoJobs
  <2>7. \A j \in DOMAIN j1 : j1[j].path = g
    <3>1. PICK u : u = NewJob(g, <<>>, <<>>)
      OBVIOUS
    <3>2. u.path = g
      BY <3>1 DEF NewJob
    <3> QED BY <1>1, <2>2, <3>1, <3>2 DEF SpawnWaveIs, NoJobs
  <2>8. PICK m : SpawnWaveIs(jobs', j1, f, <<>>, <<>>, m)
    BY <1>7, <2>6, SpawnedOne
  <2>9. Ended(j1, f) /\ f # g
    BY <2>1, <2>7 DEF Ended
  <2>10. NewIdle(j1, parsed, vfs, diag, rank, g, f)
    <3>1. ASSUME NEW k \in DOMAIN vfs[f].text PROVE Ended(j1, vfs[f].text[k])
      <4>1. vfs[f].text[k] \in Files /\ rank[vfs[f].text[k]] < rank[f]
        <5>1. ImportsOf(f, vfs[f].text, up, rank) /\ vfs[f].text \in Seq(Files)
          BY <1>1, <1>2, RestSettled DEF NoJobs, Typed
        <5> QED BY <5>1, <3>1 DEF ImportsOf
      <4>2. rank[vfs[f].text[k]] \in Nat
        BY <1>2, <4>1 DEF Typed
      <4>3. vfs[f].text[k] # g
        BY <2>1, <4>1, <4>2
      <4> QED BY <2>7, <4>3 DEF Ended
    <3> QED BY <1>1, <1>3, <2>1, <3>1 DEF NewIdle
  <2>11. \A j \in DOMAIN j1 : ~Idle(j1, parsed, vfs, diag, rank, g, j)
    <3>1. \A j \in DOMAIN j1 : Idle(j1, parsed, vfs, diag, rank, g, j) => rank[g] < rank[g]
      BY <2>7 DEF Idle
    <3> QED BY <2>1, <3>1
  <2>12. PICK send, rd : send = <<>> /\ rd = <<>>
    OBVIOUS
  <2>13. IsList(rd) /\ DOMAIN rd = {} /\ NewOwes(j1, f, send)
    BY <2>12, EmptyIsList DEF NewOwes
  <2>14. SpawnWaveIs(jobs', j1, f, send, rd, m) /\ {f} \subseteq {} \cup {f}
    BY <2>8, <2>12
  <2>15. Wave(jobs', parsed, vfs, downstream, diag, op2, up, rank, g, {})
    BY <1>1, <2>5, <2>6, <2>9, <2>10, <2>11, <2>13, <2>14, SpawnWave
  <2> QED BY <1>1, <1>4, <2>15 DEF WaveNow
<1>10. downstream[f] = {} \/ \E g \in Files : downstream[f] = {g}
  BY <1>2, DownstreamIsOne
<1> QED BY <1>8, <1>9, <1>10

-----------------------------------------------------------------------------
LEMMA FreshStarts ==
  ASSUME Init
  PROVE  FreshInv
<1>1. SUFFICES ASSUME NEW up, NEW rank PROVE WaveNow(up, rank, up, {})
  BY DEF FreshInv
<1>2. DOMAIN jobs = {} /\ DOMAIN vfs = {}
  <2>1. PICK u : jobs = [i \in {} |-> u]
    BY DEF Init
  <2> QED BY <2>1 DEF Init
<1>3. /\ \A f \in Files : parsed[f] = None /\ opened[f] = 0 /\ downstream[f] = {}
      /\ opened \in [Files -> Nat] /\ diag = [f \in Files |-> diag[f]]
  BY DEF Init
<1>4. \A f \in Files : WaveParsed(parsed, vfs, up, rank, opened, f)
  BY <1>3 DEF WaveParsed, None
<1>5. KnowsImporters(jobs, parsed, downstream)
  BY <1>3 DEF KnowsImporters, DependsOn, None
<1> QED BY <1>2, <1>3, <1>4, <1>5 DEF WaveNow, Wave

LEMMA JobGoesOn ==
  ASSUME ServerInv, NEW up, NEW rank, Tree(project, up, rank), NEW x, WaveNow(up, rank, x, {}),
         NEW i \in Job, JobStep(i)
  PROVE  \E x2 : WaveNow(up, rank, x2, {})'
<1>1. \/ Start(i) \/ LockNone(i) \/ LockReady(i) \/ LockStale(i)
      \/ ReadText(i) \/ (\E p \in Files : ImportReady(i, p) \/ ImportSpawns(i, p))
      \/ ElabStmts(i) \/ Await(i) \/ Check(i) \/ SendDiagnostics(i) \/ UpdateDownstream(i)
      \/ Publish(i) \/ Tell(i) \/ End(i)
  BY NoneConflicts DEF JobStep
<1>2. CASE \E p \in Files : ImportReady(i, p) \/ ImportSpawns(i, p)
  BY <1>2, ImportReadyGoesOn, ImportSpawnsGoesOn
<1>3. CASE Start(i) \/ LockNone(i) \/ LockReady(i) \/ LockStale(i) \/ ReadText(i)
  BY <1>3, StartGoesOn, LockNoneGoesOn, LockReadyGoesOn, LockStaleGoesOn, ReadTextGoesOn
<1>4. CASE ElabStmts(i) \/ Await(i) \/ Check(i) \/ SendDiagnostics(i) \/ UpdateDownstream(i)
  BY <1>4, ElabStmtsGoesOn, AwaitGoesOn, CheckGoesOn, SendDiagnosticsGoesOn, UpdateDownstreamGoesOn
<1>5. CASE Publish(i) \/ End(i)
  BY <1>5, PublishGoesOn, EndGoesOn
<1>6. CASE Tell(i)
  BY <1>6, TellGoesOn
<1> QED BY <1>1, <1>2, <1>3, <1>4, <1>5, <1>6

LEMMA JobLeavesClient ==
  ASSUME NEW i, JobStep(i)
  PROVE  project' = project /\ stopping' = stopping
<1>1. CASE Start(i) \/ LockWaits(i) \/ LockReady(i) \/ ReadText(i) \/ ElabStmts(i) \/ Await(i)
  BY <1>1 DEF Start, LockWaits, LockReady, ReadText, ElabStmts, Await, client
<1>2. CASE LockNone(i) \/ LockSupersedes(i) \/ LockStale(i)
  <2>1. \A js, old_deps, senders : Begin(i, js, old_deps, senders) => project' = project /\ stopping' = stopping
    BY DEF Begin, client
  <2> QED BY <1>2, <2>1 DEF LockNone, LockSupersedes, LockStale
<1>3. CASE \E p \in Files : ImportCloses(i, p) \/ ImportReady(i, p) \/ ImportSpawns(i, p)
  BY <1>3 DEF ImportCloses, ImportReady, ImportSpawns, client
<1>4. CASE Check(i) \/ SendDiagnostics(i) \/ UpdateDownstream(i)
  BY <1>4 DEF Check, SendDiagnostics, UpdateDownstream, client
<1>5. CASE Publish(i) \/ Tell(i) \/ End(i)
  BY <1>5 DEF Publish, Tell, End, client
<1> QED BY <1>1, <1>2, <1>3, <1>4, <1>5 DEF JobStep

LEMMA FreshStep ==
  ASSUME ServerInv, FreshInv, [Next]_vars
  PROVE  FreshInv'
<1>1. project' = project
  BY JobLeavesClient DEF Next, Jobs, OpenLoaded, OpenNew, Change, Shutdown, vars
<1>2. ~stopping' => ~stopping /\ ~Shutdown
  BY JobLeavesClient DEF Next, Jobs, OpenLoaded, OpenNew, Change, Shutdown, vars
<1>3. SUFFICES ASSUME project.patient, ~stopping', NEW up, NEW rank, Tree(project, up, rank)
               PROVE  \E x : WaveNow(up, rank, x, {})'
  BY <1>1 DEF FreshInv
<1>4. PICK x : WaveNow(up, rank, x, {})
  BY <1>2, <1>3 DEF FreshInv
<1>5. CASE UNCHANGED vars
  <2>1. WaveNow(up, rank, x, {})'
    BY <1>4, <1>5 DEF vars, WaveNow
  <2> QED BY <2>1
<1>6. CASE Jobs
  BY <1>3, <1>4, <1>6, JobGoesOn DEF Jobs
<1>7. CASE \E f \in Files : OpenLoaded(f) \/ \E t \in project.texts[f] : OpenNew(f, t) \/ Change(f, t)
  BY <1>3, <1>4, <1>7, NewTextGoesOn, OpenLoadedGoesOn
<1> QED BY <1>2, <1>3, <1>5, <1>6, <1>7 DEF Next

LEMMA RestFresh ==
  ASSUME ServerInv, FreshInv, IsForest(project)
  PROVE  RestIsFresh
<1>1. SUFFICES ASSUME Rest, NEW f \in Loaded
               PROVE  Fresh(f) /\ diag[f] = vfs[f].version /\ downstream[f] = Importers(f)
  BY DEF RestIsFresh
<1>2. PICK up, rank : Tree(project, up, rank)
  BY DEF IsForest
<1>3. PICK x : WaveNow(up, rank, x, {})
  BY <1>1, <1>2 DEF Rest, FreshInv
<1>4. DOMAIN jobs = {} /\ f \in DOMAIN vfs /\ DOMAIN vfs \subseteq Files
  BY <1>1, NoJobsIs DEF Rest, NoJobs, Loaded, ServerInv, FilesAre
<1>5. \A g \in DOMAIN vfs : Settled(parsed, vfs[g], diag[g], g, {})
  BY <1>3, <1>4, RestSettled
<1>6. Fresh(f)
  <2>1. PICK h, q, t : h = parsed[f].hash /\ q = h[2] /\ t = vfs[f]
    OBVIOUS
  <2>2. /\ parsed[f].tag = "ready" /\ h = <<t.version, q>> /\ q = [k \in DOMAIN t.text |-> q[k]]
        /\ \A k \in DOMAIN t.text : Tells(parsed, t.text[k], Ok(q[k]))
    BY <1>4, <1>5, <2>1 DEF Settled
  <2>3. ASSUME NEW k \in DOMAIN t.text PROVE q[k] = parsed[t.text[k]].hash
    <3>1. Ok(q[k]) = Ok(parsed[t.text[k]].hash)
      BY <2>2 DEF Tells
    <3> QED BY <3>1, OkFacts
  <2>4. q = [k \in DOMAIN t.text |-> parsed[t.text[k]].hash]
    BY <2>2, <2>3
  <2> QED BY <2>1, <2>2, <2>4 DEF Fresh
<1>7. downstream[f] = Importers(f)
  <2>1. downstream[f] \subseteq Files
    BY <1>4 DEF ServerInv, FilesAre
  <2>2. Wave(jobs, parsed, vfs, downstream, diag, opened, up, rank, x, {}) /\ Workers(jobs, parsed)
    BY <1>3, WorkersNow DEF WaveNow
  <2>3. ASSUME NEW g \in DOMAIN vfs PROVE g \in downstream[f] <=> f \in ToSet(vfs[g].text)
    <3>1. g \in downstream[f] <=> DependsOn(jobs, parsed, g, f)
      BY <1>4, <2>2, <2>3 DEF Wave, KnowsImporters
    <3>2. parsed[g].tag = "ready" /\ parsed[g].deps = vfs[g].text
      BY <1>5, <2>3 DEF Settled
    <3> QED BY <3>1, <3>2 DEF DependsOn
  <2>4. \A g \in downstream[f] : g \in DOMAIN vfs
    BY <1>4, <2>1, <2>2, DownstreamIs
  <2> QED BY <2>3, <2>4 DEF Importers, Loaded
<1>8. diag[f] = vfs[f].version
  BY <1>4, <1>5 DEF Settled
<1> QED BY <1>6, <1>7, <1>8

(* At rest, what the server knows of every loaded file, its result, the     *)
(* diagnostics sent and the files that depend on it, is about the text the  *)
(* file has and the results of those it imports, however many jobs ran and  *)
(* in whatever order: if no file of the project is reached by two ways and  *)
(* the client waits for rest before it goes on.                             *)
THEOREM ServerRestIsFresh == Spec => [](IsForest(project) => RestIsFresh)
<1>1. Init => FreshInv
  BY FreshStarts
<1>2. ServerInv /\ FreshInv /\ [Next]_vars => FreshInv'
  BY FreshStep
<1>3. ServerInv /\ FreshInv => (IsForest(project) => RestIsFresh)
  BY RestFresh
<1> QED BY <1>1, <1>2, <1>3, JobsInductive, PTL DEF Spec

=============================================================================
