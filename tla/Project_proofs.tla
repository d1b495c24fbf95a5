--------------------------- MODULE Project_proofs ---------------------------
(***************************************************************************)
(* What holds of join followed by compile, whatever the files.             *)
(***************************************************************************)
EXTENDS Project, Compiler_proofs

JoinType ==
  /\ calls \in Seq([file : Files, next : Nat \ {0}])
  /\ working \subseteq Files
  /\ w \in Seq(Files \X (Nat \ {0}))
  /\ status \in {"running", "finished", "failed", "panicked"}

Going == status \in {"running", "finished"}
Started == working \cup {Main}
Last(f) == Len(Imports(f)) + 1
OnStack(f) == \E n \in DOMAIN calls : calls[n].file = f

(* The stack: Main at the bottom, no file twice, and each call made at the  *)
(* import its caller has just passed.                                       *)
StackIs ==
  /\ status = "running" => calls # <<>>
  /\ status = "finished" => calls = <<>>
  /\ calls # <<>> => calls[1].file = Main
  /\ \A m, n \in DOMAIN calls : calls[m].file = calls[n].file => m = n
  /\ \A n \in DOMAIN calls :
       /\ calls[n].next <= Last(calls[n].file)
       /\ n > 1 => calls[n].file \in working
  /\ \A m, n \in DOMAIN calls : n = m + 1 =>
       /\ calls[m].next > 1
       /\ Imports(calls[m].file)[calls[m].next - 1] = calls[n].file

(* Of a file on the stack the pieces before its next import are written,    *)
(* of any other that was started all pieces, of the rest nothing.           *)
PiecesAre ==
  /\ \A n \in DOMAIN calls : \A k \in Nat :
       Among(<<calls[n].file, k>>, w) <=> k \in 1..(calls[n].next - 1)
  /\ \A f \in Started : ~OnStack(f) => \A k \in Nat : Among(<<f, k>>, w) <=> k \in 1..Last(f)
  /\ \A n \in DOMAIN w : w[n][1] \in Started
  /\ \A m, n \in DOMAIN w : w[m][1] = w[n][1] /\ m < n => w[m][2] < w[n][2]

(* The imports passed so far have been started. *)
ImportsStarted ==
  /\ Main \notin working
  /\ \A n \in DOMAIN calls : \A k \in 1..(calls[n].next - 1) : Imports(calls[n].file)[k] \in working
  /\ \A f \in Started : ~OnStack(f) => \A k \in DOMAIN Imports(f) : Imports(f)[k] \in working

(* Without a cycle an imported file is whole when what follows is written.  *)
WholeBefore ==
  AcyclicFrom(input.imports, Main) =>
    /\ \A n \in DOMAIN w : w[n][2] > 1 =>
         LET r == Imports(w[n][1])[w[n][2] - 1] IN \E m \in 1..(n - 1) : w[m] = <<r, Last(r)>>
    /\ \A n \in DOMAIN calls : n = Len(calls) /\ calls[n].next > 1 =>
         LET r == Imports(calls[n].file)[calls[n].next - 1] IN Among(<<r, Last(r)>>, w)

JoinInv ==
  /\ JoinType
  /\ Started \subseteq Needed
  /\ Going => StackIs /\ PiecesAre /\ ImportsStarted /\ WholeBefore
  /\ status = "failed" => Needed \cap input.missing # {}
  /\ status = "panicked" => /\ \E f \in Needed : ImportedBy(f, Main)
                            /\ ~AcyclicFrom(input.imports, Main)
  /\ status = "running" => exit = "running"

-----------------------------------------------------------------------------
(* What each step of join does, its definitions expanded. *)
AtNext(r) ==
  /\ status = "running"
  /\ calls[Len(calls)].next <= Len(Imports(calls[Len(calls)].file))
  /\ r = Imports(calls[Len(calls)].file)[calls[Len(calls)].next]
Writes == w' = Append(w, <<calls[Len(calls)].file, calls[Len(calls)].next>>)
Advanced == [calls EXCEPT ![Len(calls)].next = @ + 1]
Advances == calls' = Advanced
Pushes(r) == calls' = Append(Advanced, [file |-> r, next |-> 1])
Pops == calls' = SubSeq(calls, 1, Len(calls) - 1)

LEMMA JoinSteps ==
  ASSUME J!Next
  PROVE  \/ \E r \in Files : /\ AtNext(r) /\ r \in input.missing
                             /\ status' = "failed" /\ UNCHANGED <<calls, working, w>>
         \/ \E r \in Files : /\ AtNext(r) /\ r \in working
                             /\ Writes /\ Advances /\ UNCHANGED <<working, status>>
         \/ \E r \in Files : /\ AtNext(r) /\ r \notin working /\ OnStack(r)
                             /\ Writes /\ status' = "panicked"
                             /\ working' = working \cup {r} /\ UNCHANGED calls
         \/ \E r \in Files : /\ AtNext(r) /\ r \notin working /\ ~OnStack(r)
                             /\ Writes /\ Pushes(r)
                             /\ working' = working \cup {r} /\ UNCHANGED status
         \/ /\ status = "running" /\ Writes
            /\ calls[Len(calls)].next > Len(Imports(calls[Len(calls)].file))
            /\ Pops
            /\ status' = IF Len(calls) = 1 THEN "finished" ELSE "running"
            /\ UNCHANGED working
<1>1. CASE J!Return
  BY <1>1 DEF J!Return, J!Write, J!Top, J!Imports, J!Front, Writes, Imports, Pops
<1>2. ASSUME NEW r \in Files, J!ImportMissing(r) \/ J!ImportAgain(r) \/ J!ImportCycle(r) \/ J!ImportFirst(r)
      PROVE  /\ AtNext(r)
             /\ \/ r \in input.missing /\ status' = "failed" /\ UNCHANGED <<calls, working, w>>
                \/ r \in working /\ Writes /\ Advances /\ UNCHANGED <<working, status>>
                \/ /\ r \notin working /\ OnStack(r) /\ Writes /\ status' = "panicked"
                   /\ working' = working \cup {r} /\ UNCHANGED calls
                \/ /\ r \notin working /\ ~OnStack(r) /\ Writes
                   /\ Pushes(r)
                   /\ working' = working \cup {r} /\ UNCHANGED status
  <2>1. J!AtImport(r) <=> AtNext(r)
    BY DEF J!AtImport, J!Top, J!Imports, AtNext, Imports
  <2>2. (J!Write <=> Writes) /\ J!Advanced = Advanced /\ (J!OnStack(r) <=> OnStack(r))
    BY DEF J!Write, J!Top, Writes, J!Advanced, Advanced, J!OnStack, OnStack
  <2>3. CASE J!ImportMissing(r)
    BY <2>1, <2>3 DEF J!ImportMissing
  <2>4. CASE J!ImportAgain(r)
    BY <2>1, <2>2, <2>4 DEF J!ImportAgain, Advances
  <2>5. CASE J!ImportCycle(r)
    BY <2>1, <2>2, <2>5 DEF J!ImportCycle
  <2>6. CASE J!ImportFirst(r)
    BY <2>1, <2>2, <2>6 DEF J!ImportFirst, J!Call, Pushes
  <2>7. QED
    BY <1>2, <2>3, <2>4, <2>5, <2>6
<1>3. QED
  BY <1>1, <1>2 DEF J!Next

LEMMA InputStays ==
  ASSUME Next
  PROVE  input' = input /\ (exit' = exit \/ exit = "running")
<1>1. ASSUME NEW i \in DOMAIN task, TaskStep(i)
      PROVE  input' = input /\ exit' = exit
  BY <1>1 DEF TaskStep, Start, StartFirst, StartWaits, StartReady, Parse, Import, Await,
     AwaitSkips, AwaitMerges, AwaitCycle, Report, Finish, Send
<1>2. ASSUME MainStep
      PROVE  input' = input /\ exit = "running"
  BY <1>2 DEF MainStep, MainNoEnv, MainExports, MainFails, At
<1>3. QED
  BY <1>1, <1>2 DEF Next

(* Together with join, compile is the compiler. *)
THEOREM ProjectImplementsCompiler == ProjectSpec => Spec
<1>1. ProjectInit => Init
  BY DEF ProjectInit
<1>2. [ProjectNext]_<<vars, jvars>> => [Next]_vars
  BY DEF ProjectNext, JoinStep, CompileStep
<1>3. QED
  BY <1>1, <1>2, PTL DEF ProjectSpec, Spec

-----------------------------------------------------------------------------
(* The call at work: its file, and the import it has come to. *)
LEMMA TopFacts ==
  ASSUME JoinInv, input \in Inputs, status = "running"
  PROVE  /\ Len(calls) \in Nat \ {0} /\ DOMAIN calls = 1..Len(calls)
         /\ \A n \in DOMAIN calls : /\ calls[n] \in [file : Files, next : Nat \ {0}]
                                    /\ calls[n].file \in Started
         /\ Imports(calls[Len(calls)].file) \in Seq(Files)
         /\ calls[1].file = Main
         /\ \A x \in Files \X (Nat \ {0}) : x = <<x[1], x[2]>> /\ x[1] \in Files /\ x[2] \in Nat \ {0}
<1>1. StackIs /\ JoinType /\ calls # <<>>
  BY DEF JoinInv, Going, StackIs
<1>2. Len(calls) \in Nat \ {0} /\ DOMAIN calls = 1..Len(calls)
  BY <1>1 DEF JoinType
<1>3. calls[1].file = Main
  BY <1>1 DEF StackIs
<1>4. ASSUME NEW n \in DOMAIN calls
      PROVE  calls[n] \in [file : Files, next : Nat \ {0}] /\ calls[n].file \in Started
  <2>1. calls[n] \in [file : Files, next : Nat \ {0}]
    <3>. DEFINE Calls == [file : Files, next : Nat \ {0}]
    <3>1. calls \in Seq(Calls)
      BY <1>1 DEF JoinType
    <3>. HIDE DEF Calls
    <3>2. calls[n] \in Calls
      BY <1>2, <3>1
    <3>3. QED
      BY <3>2 DEF Calls
  <2>2. n = 1 \/ calls[n].file \in working
    BY <1>1, <1>2 DEF StackIs
  <2>3. QED
    BY <1>3, <2>1, <2>2 DEF Started
<1>5. Imports(calls[Len(calls)].file) \in Seq(Files)
  BY <1>2, <1>4, InputFacts DEF Imports
<1>6. QED
  BY <1>2, <1>3, <1>4, <1>5

LEMMA Written ==
  ASSUME w \in Seq(Files \X (Nat \ {0})), NEW f \in Files, NEW k \in Nat \ {0},
         w' = Append(w, <<f, k>>)
  PROVE  /\ w' \in Seq(Files \X (Nat \ {0}))
         /\ Len(w) \in Nat /\ DOMAIN w = 1..Len(w) /\ DOMAIN w' = 1..(Len(w) + 1)
         /\ \A n \in DOMAIN w : w'[n] = w[n]
         /\ w'[Len(w) + 1] = <<f, k>>
         /\ \A x : Among(x, w') <=> Among(x, w) \/ x = <<f, k>>
<1>1. /\ w' \in Seq(Files \X (Nat \ {0}))
      /\ Len(w) \in Nat /\ DOMAIN w = 1..Len(w) /\ DOMAIN w' = 1..(Len(w) + 1)
      /\ \A n \in DOMAIN w : w'[n] = w[n]
      /\ w'[Len(w) + 1] = <<f, k>>
  OBVIOUS
<1>2. \A x : Among(x, w') <=> Among(x, w) \/ x = <<f, k>>
  BY <1>1, SMTT(60) DEF Among
<1>3. QED
  BY <1>1, <1>2

(* What the next piece of the file at work does to the pieces written. *)
LEMMA PieceWritten ==
  ASSUME JoinInv, input \in Inputs, input' = input, status = "running", Writes,
         working \subseteq working'
  PROVE  /\ \A n \in DOMAIN w' : w'[n][1] \in Started'
         /\ \A m, n \in DOMAIN w' : w'[m][1] = w'[n][1] /\ m < n => w'[m][2] < w'[n][2]
         /\ AcyclicFrom(input.imports, Main) => \A n \in DOMAIN w' : w'[n][2] > 1 =>
              LET r == Imports(w'[n][1])[w'[n][2] - 1] IN \E m \in 1..(n - 1) : w'[m] = <<r, Last(r)>>
<1>1. PICK t \in DOMAIN calls : t = Len(calls)
  BY TopFacts
<1>2. PICK f \in Files, k \in Nat \ {0} : f = calls[t].file /\ k = calls[t].next
  BY TopFacts
<1>3. w' = Append(w, <<f, k>>) /\ w \in Seq(Files \X (Nat \ {0}))
  BY <1>1, <1>2 DEF Writes, JoinInv, JoinType
<1>4. /\ Len(w) \in Nat /\ DOMAIN w = 1..Len(w) /\ DOMAIN w' = 1..(Len(w) + 1)
      /\ \A n \in DOMAIN w : w'[n] = w[n]
      /\ w'[Len(w) + 1] = <<f, k>>
  BY <1>3, Written
<1>5. f \in Started
  BY <1>2, TopFacts
<1>6. PiecesAre /\ WholeBefore
  BY DEF JoinInv, Going
<1>7. \A n \in DOMAIN w' : w'[n][1] \in Started'
  BY <1>4, <1>5, <1>6 DEF Started, PiecesAre
<1>8. ASSUME NEW m \in DOMAIN w', NEW n \in DOMAIN w', w'[m][1] = w'[n][1], m < n
      PROVE  w'[m][2] < w'[n][2]
  <2>1. CASE n \in DOMAIN w
    <3>1. m \in DOMAIN w
      BY <1>4, <1>8, <2>1
    <3>2. QED
      BY <1>4, <1>6, <1>8, <2>1, <3>1 DEF PiecesAre
  <2>2. CASE n = Len(w) + 1
    <3>1. m \in DOMAIN w
      BY <1>4, <1>8, <2>2
    <3>2. PICK l \in Nat \ {0} : w[m] = <<f, l>>
      <4>1. w[m] \in Files \X (Nat \ {0}) /\ w[m][1] = f
        BY <1>3, <1>4, <1>8, <2>2, <3>1
      <4>2. w[m] = <<f, w[m][2]>> /\ w[m][2] \in Nat \ {0}
        BY <4>1
      <4>3. QED
        BY <4>2
    <3>3. Among(<<f, l>>, w)
      BY <3>1, <3>2 DEF Among
    <3>4. l \in 1..(k - 1)
      BY <1>2, <1>6, <3>3 DEF PiecesAre
    <3>5. QED
      BY <1>4, <2>2, <3>1, <3>2, <3>4
  <2>3. QED
    BY <1>4, <2>1, <2>2
<1>9. ASSUME AcyclicFrom(input.imports, Main), NEW n \in DOMAIN w', w'[n][2] > 1
      PROVE  LET r == Imports(w'[n][1])[w'[n][2] - 1] IN \E m \in 1..(n - 1) : w'[m] = <<r, Last(r)>>
  <2>1. CASE n \in DOMAIN w
    <3>. DEFINE r == Imports(w[n][1])[w[n][2] - 1]
    <3>1. w'[n] = w[n]
      BY <1>4, <2>1
    <3>2. PICK m \in 1..(n - 1) : w[m] = <<r, Last(r)>>
      BY <1>6, <1>9, <2>1, <3>1 DEF WholeBefore
    <3>3. m \in DOMAIN w
      BY <1>4, <2>1
    <3>4. w'[m] = <<r, Last(r)>>
      BY <1>4, <3>2, <3>3
    <3>5. QED
      BY <3>1, <3>4
  <2>2. CASE n = Len(w) + 1
    <3>. DEFINE r == Imports(f)[k - 1]
    <3>1. w'[n][1] = f /\ w'[n][2] = k /\ k > 1
      BY <1>4, <1>9, <2>2
    <3>2. Among(<<r, Last(r)>>, w)
      BY <1>1, <1>2, <1>6, <1>9, <3>1 DEF WholeBefore
    <3>3. PICK m \in DOMAIN w : w[m] = <<r, Last(r)>>
      BY <3>2 DEF Among
    <3>4. m \in 1..(n - 1) /\ w'[m] = <<r, Last(r)>>
      BY <1>4, <2>2, <3>3
    <3>5. QED
      BY <3>1, <3>4
  <2>3. QED
    BY <1>4, <2>1, <2>2
<1>10. QED
  BY <1>7, <1>8, <1>9

-----------------------------------------------------------------------------
LEMMA NextImport ==
  ASSUME JoinInv, input \in Inputs, NEW r \in Files, AtNext(r)
  PROVE  /\ calls[Len(calls)].next \in DOMAIN Imports(calls[Len(calls)].file)
         /\ ImportedBy(calls[Len(calls)].file, r)
         /\ calls[Len(calls)].file \in Needed
         /\ r \in Needed
<1>. DEFINE top == calls[Len(calls)]
<1>1. /\ Len(calls) \in DOMAIN calls
      /\ Imports(top.file) \in Seq(Files)
  BY TopFacts DEF AtNext
<1>2. top.next \in Nat \ {0} /\ top.file \in Needed
  BY <1>1, TopFacts DEF AtNext, JoinInv
<1>3. top.next \in DOMAIN Imports(top.file)
  BY <1>1, <1>2 DEF AtNext
<1>4. ImportedBy(top.file, r)
  BY <1>3 DEF AtNext, ImportedBy, Among
<1>5. r \in Needed
  BY <1>2, <1>4, NeededClosed
<1>6. QED
  BY <1>2, <1>3, <1>4, <1>5

LEMMA ImportMissingKeeps ==
  ASSUME JoinInv, input \in Inputs, input' = input, exit' = exit,
         NEW r \in Files, AtNext(r), r \in input.missing,
         status' = "failed", UNCHANGED <<calls, working, w>>
  PROVE  JoinInv'
<1>1. JoinType' /\ Started' \subseteq Needed' /\ ~Going'
  BY DEF JoinInv, JoinType, Started, Needed, Going
<1>2. (Needed \cap input.missing # {})'
  BY NextImport DEF Needed
<1>3. QED
  BY <1>1, <1>2 DEF JoinInv

(* Without a cycle no file on the stack is imported again. *)
LEMMA NoBackEdge ==
  ASSUME JoinInv, input \in Inputs, AcyclicFrom(input.imports, Main), NEW r \in Files, AtNext(r)
  PROVE  ~OnStack(r)
<1>. SUFFICES ASSUME OnStack(r) PROVE FALSE
  OBVIOUS
<1>1. PICK m \in DOMAIN calls : calls[m].file = r
  BY DEF OnStack
<1>2. PICK n : n = Len(calls) /\ n \in Nat \ {0} /\ DOMAIN calls = 1..n
  BY TopFacts DEF AtNext
<1>. DEFINE S == {calls[q].file : q \in m..n}
<1>3. S \in SUBSET Needed /\ r \in S
  BY <1>1, <1>2, TopFacts, SMTT(60) DEF AtNext, JoinInv
<1>4. PICK f \in S : \A g \in S : ~ImportedBy(f, g)
  BY <1>3 DEF AcyclicFrom, Needed, ImportedBy, Imports
<1>5. PICK q \in m..n : f = calls[q].file
  BY <1>4
<1>6. CASE q = n
  BY <1>2, <1>3, <1>4, <1>5, <1>6, NextImport
<1>7. CASE q # n
  <2>1. q \in DOMAIN calls /\ q + 1 \in DOMAIN calls /\ q + 1 \in m..n
    BY <1>1, <1>2, <1>5, <1>7
  <2>. DEFINE k == calls[q].next - 1
  <2>2. calls[q].next > 1 /\ Imports(f)[k] = calls[q + 1].file /\ calls[q].next <= Last(f)
    BY <1>5, <2>1 DEF AtNext, JoinInv, Going, StackIs
  <2>3. calls[q].next \in Nat /\ Imports(f) \in Seq(Files)
    <3>1. calls[q].next \in Nat /\ f \in Files
      BY <1>5, <2>1, TopFacts DEF AtNext
    <3>2. QED
      BY <3>1, InputFacts DEF Imports
  <2>4. k \in DOMAIN Imports(f)
    BY <2>2, <2>3 DEF Last
  <2>5. ImportedBy(f, calls[q + 1].file)
    BY <2>2, <2>4 DEF ImportedBy, Among
  <2>6. QED
    BY <1>4, <2>1, <2>5
<1>8. QED
  BY <1>6, <1>7

LEMMA ImportCycleKeeps ==
  ASSUME JoinInv, input \in Inputs, input' = input, exit' = exit,
         NEW r \in Files, AtNext(r), r \notin working, OnStack(r),
         Writes, status' = "panicked", working' = working \cup {r}, UNCHANGED calls
  PROVE  JoinInv'
<1>1. PICK f \in Needed : f = calls[Len(calls)].file /\ ImportedBy(f, r)
  BY NextImport
<1>2. r = Main
  BY TopFacts DEF AtNext, OnStack, JoinInv, Going, StackIs
<1>3. JoinType'
  <2>1. Len(calls) \in DOMAIN calls
    BY TopFacts DEF AtNext
  <2>2. PICK a \in Files, k \in Nat \ {0} : a = calls[Len(calls)].file /\ k = calls[Len(calls)].next
    BY <2>1, TopFacts DEF AtNext
  <2>3. w' = Append(w, <<a, k>>)
    BY <2>2 DEF Writes
  <2>4. QED
    BY <2>3, Written DEF JoinInv, JoinType
<1>4. Started' \subseteq Needed' /\ ~Going' /\ f \in Needed'
  BY <1>2, MainNeeded DEF JoinInv, Started, Needed, Going
<1>5. ImportedBy(f, Main)'
  BY <1>1, <1>2 DEF ImportedBy, Imports
<1>6. ~AcyclicFrom(input.imports, Main)'
  BY NoBackEdge
<1>7. QED
  BY <1>3, <1>4, <1>5, <1>6 DEF JoinInv

LEMMA ImportAgainKeeps ==
  ASSUME JoinInv, input \in Inputs, input' = input, exit' = exit,
         NEW r \in Files, AtNext(r), r \in working,
         Writes, Advances, UNCHANGED <<working, status>>
  PROVE  JoinInv'
<1>1. PICK n : n = Len(calls) /\ n \in Nat \ {0} /\ DOMAIN calls = 1..n
  BY TopFacts DEF AtNext
<1>2. PICK f \in Files, k \in Nat \ {0} : f = calls[n].file /\ k = calls[n].next
  BY <1>1, TopFacts DEF AtNext
<1>3. /\ w' = Append(w, <<f, k>>)
      /\ status = "running" /\ r = Imports(f)[k] /\ k <= Len(Imports(f))
      /\ Imports(f) \in Seq(Files)
  BY <1>1, <1>2, TopFacts DEF Writes, AtNext
<1>4. /\ w' \in Seq(Files \X (Nat \ {0}))
      /\ \A x : Among(x, w') <=> Among(x, w) \/ x = <<f, k>>
  BY <1>3, Written DEF JoinInv, JoinType
<1>5. /\ DOMAIN calls' = 1..n /\ Len(calls') = n
      /\ calls' \in Seq([file : Files, next : Nat \ {0}])
      /\ \A m \in 1..n : calls'[m].file = calls[m].file
      /\ \A m \in 1..n : m # n => calls'[m].next = calls[m].next
      /\ calls'[n].next = k + 1
  <2>. DEFINE Calls == [file : Files, next : Nat \ {0}]
  <2>1. calls \in Seq(Calls) /\ calls[n] \in Calls
    BY <1>1, TopFacts DEF JoinInv, JoinType, AtNext
  <2>2. calls' = [calls EXCEPT ![n] = [calls[n] EXCEPT !.next = k + 1]]
    BY <1>1, <1>2 DEF Advances, Advanced
  <2>3. PICK c \in Calls : c = [calls[n] EXCEPT !.next = k + 1] /\ c.file = f /\ c.next = k + 1
    <3>1. \A a \in Calls : LET b == [a EXCEPT !.next = k + 1] IN
            b \in Calls /\ b.file = a.file /\ b.next = k + 1
      OBVIOUS
    <3>2. QED
      BY <1>2, <2>1, <3>1
  <2>. HIDE DEF Calls
  <2>4. calls' = [calls EXCEPT ![n] = c]
    BY <2>2, <2>3
  <2>5. calls' \in Seq(Calls) /\ Len(calls') = n /\ DOMAIN calls' = 1..n
    BY <1>1, <2>1, <2>4
  <2>6. \A m \in 1..n : calls'[m] = IF m = n THEN c ELSE calls[m]
    BY <1>1, <2>4
  <2>7. QED
    BY <1>1, <1>2, <2>3, <2>5, <2>6 DEF Calls
<1>6. \A g : OnStack(g)' <=> OnStack(g)
  BY <1>1, <1>5 DEF OnStack
<1>7. \A g : Imports(g)' = Imports(g) /\ Last(g)' = Last(g)
  BY DEF Imports, Last
<1>8. StackIs /\ PiecesAre /\ ImportsStarted /\ WholeBefore /\ JoinType
  BY <1>3 DEF JoinInv, Going
<1>9. StackIs'
  <2>1. status' = "running" /\ calls' # <<>> /\ calls'[1].file = Main
    BY <1>1, <1>3, <1>5, TopFacts
  <2>2. \A m, o \in 1..n : calls'[m].file = calls'[o].file => m = o
    BY <1>1, <1>5, <1>8 DEF StackIs
  <2>3. \A m \in 1..n : /\ calls'[m].next <= Last(calls'[m].file)
                        /\ m > 1 => calls'[m].file \in working
    <3>1. \A m \in 1..n : calls[m].next <= Last(calls[m].file) /\ (m > 1 => calls[m].file \in working)
      BY <1>1, <1>8 DEF StackIs
    <3>2. k + 1 <= Last(f)
      BY <1>3 DEF Last
    <3>3. QED
      BY <1>1, <1>2, <1>5, <3>1, <3>2
  <2>4. \A m, o \in 1..n : o = m + 1 =>
          calls'[m].next > 1 /\ Imports(calls'[m].file)[calls'[m].next - 1] = calls'[o].file
    BY <1>1, <1>5, <1>8, SMTT(60) DEF StackIs
  <2>5. QED
    BY <1>5, <1>7, <2>1, <2>2, <2>3, <2>4 DEF StackIs
<1>10. PiecesAre'
  <2>1. \A m \in 1..n : \A l \in Nat : Among(<<calls'[m].file, l>>, w') <=> l \in 1..(calls'[m].next - 1)
    <3>. SUFFICES ASSUME NEW m \in 1..n, NEW l \in Nat
                  PROVE  Among(<<calls[m].file, l>>, w') <=> l \in 1..(calls'[m].next - 1)
      BY <1>5
    <3>1. Among(<<calls[m].file, l>>, w) <=> l \in 1..(calls[m].next - 1)
      BY <1>1, <1>8 DEF PiecesAre
    <3>2. CASE m = n
      <4>1. Among(<<f, l>>, w') <=> l \in 1..(k - 1) \/ l = k
        BY <1>2, <1>4, <3>1, <3>2
      <4>2. QED
        BY <1>2, <1>5, <3>2, <4>1, SMTT(60)
    <3>3. CASE m # n
      <4>1. calls[m].file # f
        BY <1>1, <1>2, <1>8, <3>3 DEF StackIs
      <4>2. QED
        BY <1>4, <1>5, <3>1, <3>3, <4>1
    <3>4. QED
      BY <3>2, <3>3
  <2>2. \A g \in Started : ~OnStack(g) => \A l \in Nat : Among(<<g, l>>, w') <=> l \in 1..Last(g)
    <3>1. OnStack(f)
      BY <1>1, <1>2 DEF OnStack
    <3>2. QED
      BY <1>4, <1>8, <3>1 DEF PiecesAre
  <2>3. /\ \A m \in DOMAIN w' : w'[m][1] \in Started'
        /\ \A m, o \in DOMAIN w' : w'[m][1] = w'[o][1] /\ m < o => w'[m][2] < w'[o][2]
    BY <1>3, PieceWritten
  <2>4. Started' = Started
    BY DEF Started
  <2>5. QED
    BY <1>5, <1>6, <1>7, <2>1, <2>2, <2>3, <2>4 DEF PiecesAre
<1>11. ImportsStarted'
  <2>1. \A m \in 1..n : \A l \in 1..(calls'[m].next - 1) : Imports(calls'[m].file)[l] \in working
    <3>. SUFFICES ASSUME NEW m \in 1..n, NEW l \in 1..(calls'[m].next - 1)
                  PROVE  Imports(calls[m].file)[l] \in working
      BY <1>5
    <3>1. CASE m = n
      <4>1. l = k \/ l \in 1..(k - 1)
        BY <1>1, <1>5, <3>1
      <4>2. \A q \in 1..(k - 1) : Imports(f)[q] \in working
        BY <1>1, <1>2, <1>8 DEF ImportsStarted
      <4>3. QED
        BY <1>2, <1>3, <3>1, <4>1, <4>2
    <3>2. CASE m # n
      BY <1>1, <1>5, <1>8, <3>2 DEF ImportsStarted
    <3>3. QED
      BY <3>1, <3>2
  <2>2. Started' = Started
    BY DEF Started
  <2>3. QED
    BY <1>5, <1>6, <1>7, <1>8, <2>1, <2>2 DEF ImportsStarted
<1>12. WholeBefore'
  <2>1. SUFFICES ASSUME AcyclicFrom(input.imports, Main)
                 PROVE  Among(<<r, Last(r)>>, w')
    <3>1. AcyclicFrom(input.imports, Main) => \A m \in DOMAIN w' : w'[m][2] > 1 =>
            LET s == Imports(w'[m][1])[w'[m][2] - 1] IN \E o \in 1..(m - 1) : w'[o] = <<s, Last(s)>>
      BY <1>3, PieceWritten
    <3>2. calls'[n].file = f /\ calls'[n].next - 1 = k
      BY <1>1, <1>2, <1>5
    <3>3. Imports(calls'[n].file)[calls'[n].next - 1] = r
      BY <1>3, <3>2
    <3>4. AcyclicFrom(input.imports, Main) => \A m \in DOMAIN calls' : m = Len(calls') /\ calls'[m].next > 1 =>
            LET s == Imports(calls'[m].file)[calls'[m].next - 1] IN Among(<<s, Last(s)>>, w')
      BY <1>5, <2>1, <3>3
    <3>5. QED
      BY <1>7, <3>1, <3>4 DEF WholeBefore
  <2>2. ~OnStack(r)
    BY <2>1, NoBackEdge
  <2>3. Last(r) \in Nat /\ Last(r) \in 1..Last(r)
    <3>1. Imports(r) \in Seq(Files)
      BY InputFacts DEF Imports
    <3>2. QED
      BY <3>1 DEF Last
  <2>4. QED
    BY <1>4, <1>8, <2>2, <2>3 DEF PiecesAre, Started
<1>13. JoinType' /\ Started' \subseteq Needed' /\ (status = "running" => exit = "running")'
  BY <1>4, <1>5 DEF JoinInv, JoinType, Started, Needed
<1>14. QED
  BY <1>3, <1>9, <1>10, <1>11, <1>12, <1>13 DEF JoinInv

LEMMA ImportFirstKeeps ==
  ASSUME JoinInv, input \in Inputs, input' = input, exit' = exit,
         NEW r \in Files, AtNext(r), r \notin working, ~OnStack(r),
         Writes, Pushes(r),
         working' = working \cup {r}, UNCHANGED status
  PROVE  JoinInv'
<1>1. PICK n : n = Len(calls) /\ n \in Nat \ {0} /\ DOMAIN calls = 1..n
  BY TopFacts DEF AtNext
<1>2. PICK f \in Files, k \in Nat \ {0} : f = calls[n].file /\ k = calls[n].next
  BY <1>1, TopFacts DEF AtNext
<1>3. /\ w' = Append(w, <<f, k>>)
      /\ status = "running" /\ r = Imports(f)[k] /\ k <= Len(Imports(f))
      /\ Imports(f) \in Seq(Files)
  BY <1>1, <1>2, TopFacts DEF Writes, AtNext
<1>4. /\ w' \in Seq(Files \X (Nat \ {0}))
      /\ \A x : Among(x, w') <=> Among(x, w) \/ x = <<f, k>>
  BY <1>3, Written DEF JoinInv, JoinType
<1>5. /\ DOMAIN calls' = 1..(n + 1) /\ Len(calls') = n + 1
      /\ calls' \in Seq([file : Files, next : Nat \ {0}])
      /\ \A m \in 1..n : calls'[m].file = calls[m].file
      /\ \A m \in 1..n : m # n => calls'[m].next = calls[m].next
      /\ calls'[n].next = k + 1
      /\ calls'[n + 1].file = r /\ calls'[n + 1].next = 1
  <2>. DEFINE Calls == [file : Files, next : Nat \ {0}]
  <2>1. calls \in Seq(Calls) /\ calls[n] \in Calls
    BY <1>1, TopFacts DEF JoinInv, JoinType, AtNext
  <2>2. Advanced = [calls EXCEPT ![n] = [calls[n] EXCEPT !.next = k + 1]]
    BY <1>1, <1>2 DEF Advanced
  <2>3. PICK c \in Calls : c = [calls[n] EXCEPT !.next = k + 1] /\ c.file = f /\ c.next = k + 1
    <3>1. \A a \in Calls : LET b == [a EXCEPT !.next = k + 1] IN
            b \in Calls /\ b.file = a.file /\ b.next = k + 1
      OBVIOUS
    <3>2. QED
      BY <1>2, <2>1, <3>1
  <2>4. PICK d \in Calls : d = [file |-> r, next |-> 1] /\ d.file = r /\ d.next = 1
    <3>1. [file |-> r, next |-> 1] \in Calls
      OBVIOUS
    <3>2. QED
      BY <3>1
  <2>. HIDE DEF Calls
  <2>5. PICK s : s = [calls EXCEPT ![n] = c]
    OBVIOUS
  <2>6. s \in Seq(Calls) /\ Len(s) = n /\ \A m \in 1..n : s[m] = IF m = n THEN c ELSE calls[m]
    BY <1>1, <2>1, <2>5
  <2>7. calls' = Append(s, d)
    BY <2>2, <2>3, <2>4, <2>5 DEF Pushes
  <2>8. /\ calls' \in Seq(Calls) /\ Len(calls') = n + 1 /\ DOMAIN calls' = 1..(n + 1)
        /\ \A m \in 1..n : calls'[m] = s[m]
        /\ calls'[n + 1] = d
    BY <1>1, <2>6, <2>7
  <2>9. QED
    BY <1>1, <1>2, <2>3, <2>4, <2>6, <2>8, SMTT(60) DEF Calls
<1>6. \A g : OnStack(g)' <=> OnStack(g) \/ g = r
  <2>1. 1..(n + 1) = (1..n) \cup {n + 1}
    BY <1>1
  <2>2. QED
    BY <1>1, <1>5, <2>1 DEF OnStack
<1>7. \A g : Imports(g)' = Imports(g) /\ Last(g)' = Last(g)
  BY DEF Imports, Last
<1>8. StackIs /\ PiecesAre /\ ImportsStarted /\ WholeBefore /\ JoinType
  BY <1>3 DEF JoinInv, Going
<1>9. r \notin Started /\ r # f /\ Started' = Started \cup {r}
  <2>1. OnStack(Main) /\ OnStack(f)
    BY <1>1, <1>2, <1>3, TopFacts DEF OnStack
  <2>2. QED
    BY <2>1 DEF Started
<1>10. \A m \in 1..(n + 1) : m \in 1..n \/ m = n + 1
  BY <1>1
<1>11. StackIs'
  <2>1. status' = "running" /\ calls' # <<>> /\ calls'[1].file = Main
    BY <1>1, <1>3, <1>5, TopFacts
  <2>2. \A m, o \in 1..(n + 1) : calls'[m].file = calls'[o].file => m = o
    <3>1. \A m, o \in 1..n : calls[m].file = calls[o].file => m = o
      BY <1>1, <1>8 DEF StackIs
    <3>2. \A m \in 1..n : calls[m].file # r
      BY <1>1 DEF OnStack
    <3>3. QED
      BY <1>5, <1>10, <3>1, <3>2
  <2>3. \A m \in 1..(n + 1) : /\ calls'[m].next <= Last(calls'[m].file)
                              /\ m > 1 => calls'[m].file \in working'
    <3>1. \A m \in 1..n : calls[m].next <= Last(calls[m].file) /\ (m > 1 => calls[m].file \in working)
      BY <1>1, <1>8 DEF StackIs
    <3>2. k + 1 <= Last(f)
      BY <1>3 DEF Last
    <3>3. 1 <= Last(r)
      <4>1. Imports(r) \in Seq(Files)
        BY InputFacts DEF Imports
      <4>2. QED
        BY <4>1 DEF Last
    <3>4. QED
      BY <1>1, <1>2, <1>5, <1>10, <3>1, <3>2, <3>3
  <2>4. \A m, o \in 1..(n + 1) : o = m + 1 =>
          calls'[m].next > 1 /\ Imports(calls'[m].file)[calls'[m].next - 1] = calls'[o].file
    <3>1. \A m, o \in 1..n : o = m + 1 =>
            calls[m].next > 1 /\ Imports(calls[m].file)[calls[m].next - 1] = calls[o].file
      BY <1>1, <1>8 DEF StackIs
    <3>. SUFFICES ASSUME NEW m \in 1..n, NEW o \in 1..(n + 1), o = m + 1
                  PROVE  calls'[m].next > 1 /\ Imports(calls'[m].file)[calls'[m].next - 1] = calls'[o].file
      BY <1>1
    <3>2. CASE m = n
      BY <1>1, <1>2, <1>3, <1>5, <3>2
    <3>3. CASE m # n
      <4>1. o \in 1..n
        BY <1>1, <3>3
      <4>2. QED
        BY <1>1, <1>5, <3>1, <3>3, <4>1, SMTT(60)
    <3>4. QED
      BY <3>2, <3>3
  <2>5. QED
    BY <1>5, <1>7, <2>1, <2>2, <2>3, <2>4 DEF StackIs
<1>12. PiecesAre'
  <2>1. \A m \in 1..(n + 1) : \A l \in Nat :
          Among(<<calls'[m].file, l>>, w') <=> l \in 1..(calls'[m].next - 1)
    <3>. SUFFICES ASSUME NEW m \in 1..(n + 1), NEW l \in Nat
                  PROVE  Among(<<calls'[m].file, l>>, w') <=> l \in 1..(calls'[m].next - 1)
      OBVIOUS
    <3>1. m # n + 1 => (Among(<<calls[m].file, l>>, w) <=> l \in 1..(calls[m].next - 1))
      BY <1>1, <1>8, <1>10 DEF PiecesAre
    <3>2. CASE m = n
      <4>1. Among(<<f, l>>, w') <=> l \in 1..(k - 1) \/ l = k
        BY <1>1, <1>2, <1>4, <3>1, <3>2
      <4>2. calls'[m].file = f /\ calls'[m].next - 1 = k
        BY <1>1, <1>2, <1>5, <3>2
      <4>3. l \in 1..k <=> l \in 1..(k - 1) \/ l = k
        OBVIOUS
      <4>4. QED
        BY <4>1, <4>2, <4>3
    <3>3. CASE m \in 1..n /\ m # n
      <4>1. calls[m].file # f
        BY <1>1, <1>2, <1>8, <3>3 DEF StackIs
      <4>2. calls'[m].file = calls[m].file /\ calls'[m].next = calls[m].next /\ m # n + 1
        BY <1>1, <1>5, <3>3
      <4>3. Among(<<calls[m].file, l>>, w') <=> Among(<<calls[m].file, l>>, w)
        BY <1>4, <4>1
      <4>4. QED
        BY <3>1, <4>2, <4>3
    <3>4. CASE m = n + 1
      <4>1. ~Among(<<r, l>>, w)
        BY <1>8, <1>9 DEF PiecesAre, Among
      <4>2. ~Among(<<r, l>>, w')
        BY <1>4, <1>9, <4>1
      <4>3. calls'[m].file = r /\ calls'[m].next - 1 = 0
        BY <1>5, <3>4
      <4>4. l \notin 1..(calls'[m].next - 1)
        BY <4>3
      <4>5. QED
        BY <4>2, <4>3, <4>4
    <3>5. QED
      BY <1>10, <3>2, <3>3, <3>4
  <2>2. \A g \in Started' : ~OnStack(g)' => \A l \in Nat : Among(<<g, l>>, w') <=> l \in 1..Last(g)
    <3>1. OnStack(f)
      BY <1>1, <1>2 DEF OnStack
    <3>2. QED
      BY <1>4, <1>6, <1>8, <1>9, <3>1 DEF PiecesAre
  <2>3. /\ \A m \in DOMAIN w' : w'[m][1] \in Started'
        /\ \A m, o \in DOMAIN w' : w'[m][1] = w'[o][1] /\ m < o => w'[m][2] < w'[o][2]
    BY <1>3, PieceWritten
  <2>4. QED
    BY <1>5, <1>7, <2>1, <2>2, <2>3 DEF PiecesAre
<1>13. ImportsStarted'
  <2>1. \A m \in 1..(n + 1) : \A l \in 1..(calls'[m].next - 1) : Imports(calls'[m].file)[l] \in working'
    <3>. SUFFICES ASSUME NEW m \in 1..n, NEW l \in 1..(calls'[m].next - 1)
                  PROVE  Imports(calls[m].file)[l] \in working'
      BY <1>5, <1>10, SMTT(60)
    <3>1. CASE m = n
      <4>1. l = k \/ l \in 1..(k - 1)
        BY <1>1, <1>5, <3>1
      <4>2. \A q \in 1..(k - 1) : Imports(f)[q] \in working
        BY <1>1, <1>2, <1>8 DEF ImportsStarted
      <4>3. QED
        BY <1>2, <1>3, <3>1, <4>1, <4>2
    <3>2. CASE m # n
      BY <1>1, <1>5, <1>8, <3>2 DEF ImportsStarted
    <3>3. QED
      BY <3>1, <3>2
  <2>2. \A g \in Started' : ~OnStack(g)' => \A l \in DOMAIN Imports(g) : Imports(g)[l] \in working'
    BY <1>6, <1>8, <1>9 DEF ImportsStarted
  <2>3. Main \notin working'
    BY <1>8, <1>9 DEF ImportsStarted, Started
  <2>4. QED
    BY <1>5, <1>7, <2>1, <2>2, <2>3 DEF ImportsStarted
<1>14. WholeBefore'
  <2>1. AcyclicFrom(input.imports, Main) => \A m \in DOMAIN w' : w'[m][2] > 1 =>
          LET s == Imports(w'[m][1])[w'[m][2] - 1] IN \E o \in 1..(m - 1) : w'[o] = <<s, Last(s)>>
    BY <1>3, PieceWritten
  <2>2. \A m \in DOMAIN calls' : ~(m = Len(calls') /\ calls'[m].next > 1)
    BY <1>1, <1>5
  <2>3. QED
    BY <1>7, <2>1, <2>2 DEF WholeBefore
<1>15. JoinType'
  BY <1>4, <1>5 DEF JoinInv, JoinType
<1>16. Started' \subseteq Needed' /\ (status = "running" => exit = "running")'
  <2>1. r \in Needed /\ Started \subseteq Needed
    BY NextImport DEF JoinInv
  <2>2. Needed' = Needed
    BY DEF Needed
  <2>3. QED
    BY <1>9, <2>1, <2>2 DEF JoinInv
<1>17. QED
  BY <1>3, <1>11, <1>12, <1>13, <1>14, <1>15, <1>16 DEF JoinInv

LEMMA ReturnKeeps ==
  ASSUME JoinInv, input \in Inputs, input' = input, exit' = exit,
         status = "running", Writes,
         calls[Len(calls)].next > Len(Imports(calls[Len(calls)].file)),
         Pops,
         status' = IF Len(calls) = 1 THEN "finished" ELSE "running",
         UNCHANGED working
  PROVE  JoinInv'
<1>1. PICK n : n = Len(calls) /\ n \in Nat \ {0} /\ DOMAIN calls = 1..n
  BY TopFacts
<1>2. PICK f \in Files, k \in Nat \ {0} : f = calls[n].file /\ k = calls[n].next
  BY <1>1, TopFacts
<1>3. StackIs /\ PiecesAre /\ ImportsStarted /\ WholeBefore /\ JoinType
  BY DEF JoinInv, Going
<1>4. /\ w' = Append(w, <<f, k>>)
      /\ Imports(f) \in Seq(Files) /\ k = Last(f) /\ f \in Started
  <2>1. Imports(f) \in Seq(Files) /\ k > Len(Imports(f)) /\ k <= Last(f) /\ f \in Started
    BY <1>1, <1>2, <1>3, TopFacts DEF StackIs
  <2>2. QED
    BY <1>1, <1>2, <2>1 DEF Writes, Last
<1>5. /\ w' \in Seq(Files \X (Nat \ {0}))
      /\ \A x : Among(x, w') <=> Among(x, w) \/ x = <<f, k>>
  BY <1>3, <1>4, Written DEF JoinType
<1>6. /\ DOMAIN calls' = 1..(n - 1) /\ Len(calls') = n - 1
      /\ calls' \in Seq([file : Files, next : Nat \ {0}])
      /\ \A m \in 1..(n - 1) : calls'[m] = calls[m]
  <2>. DEFINE Calls == [file : Files, next : Nat \ {0}]
  <2>1. calls \in Seq(Calls)
    BY <1>3 DEF JoinType
  <2>. HIDE DEF Calls
  <2>2. calls' \in Seq(Calls) /\ Len(calls') = n - 1 /\ \A m \in 1..(n - 1) : calls'[m] = calls[m]
    BY <1>1, <2>1 DEF Pops
  <2>3. QED
    BY <1>1, <2>2 DEF Calls
<1>below. \A m \in 1..(n - 1) : m \in 1..n /\ m # n /\ m # 0 /\ n \in 1..n
  BY <1>1
<1>7. \A g : OnStack(g)' <=> OnStack(g) /\ g # f
  <2>1. \A m \in 1..n : m = n \/ m \in 1..(n - 1)
    BY <1>1
  <2>2. \A m \in 1..n : calls[m].file = f <=> m = n
    BY <1>1, <1>2, <1>3 DEF StackIs
  <2>3. \A g : OnStack(g) <=> \E m \in 1..n : calls[m].file = g
    BY <1>1 DEF OnStack
  <2>4. \A g : OnStack(g)' <=> \E m \in 1..(n - 1) : calls[m].file = g
    BY <1>6 DEF OnStack
  <2>5. QED
    BY <1>below, <2>1, <2>2, <2>3, <2>4
<1>8. \A g : Imports(g)' = Imports(g) /\ Last(g)' = Last(g)
  BY DEF Imports, Last
<1>9. StackIs'
  <2>1. /\ status' = "running" => calls' # <<>>
        /\ status' = "finished" => calls' = <<>>
    <3>1. n = 1 => calls' = <<>>
      BY <1>6
    <3>2. n # 1 => Len(calls') # 0
      BY <1>1, <1>6
    <3>3. status' = IF n = 1 THEN "finished" ELSE "running"
      BY <1>1
    <3>4. QED
      BY <3>1, <3>2, <3>3
  <2>2. calls' # <<>> => calls'[1].file = Main
    <3>1. calls' # <<>> => 1 \in 1..(n - 1)
      BY <1>1, <1>6
    <3>2. QED
      BY <1>6, <3>1, TopFacts
  <2>3. \A m, o \in 1..(n - 1) : calls'[m].file = calls'[o].file => m = o
    <3>1. \A m, o \in 1..n : calls[m].file = calls[o].file => m = o
      BY <1>1, <1>3 DEF StackIs
    <3>2. QED
      BY <1>6, <1>below, <3>1
  <2>4. \A m \in 1..(n - 1) : /\ calls'[m].next <= Last(calls'[m].file)
                              /\ m > 1 => calls'[m].file \in working
    BY <1>1, <1>3, <1>6, <1>below DEF StackIs
  <2>5. \A m, o \in 1..(n - 1) : o = m + 1 =>
          calls'[m].next > 1 /\ Imports(calls'[m].file)[calls'[m].next - 1] = calls'[o].file
    <3>1. \A m, o \in 1..n : o = m + 1 =>
            calls[m].next > 1 /\ Imports(calls[m].file)[calls[m].next - 1] = calls[o].file
      BY <1>1, <1>3 DEF StackIs
    <3>2. QED
      BY <1>6, <1>below, <3>1, SMTT(60)
  <2>6. QED
    BY <1>6, <1>8, <2>1, <2>2, <2>3, <2>4, <2>5 DEF StackIs
<1>10. Started' = Started
  BY DEF Started
<1>11. PiecesAre'
  <2>1. \A m \in 1..(n - 1) : \A l \in Nat :
          Among(<<calls'[m].file, l>>, w') <=> l \in 1..(calls'[m].next - 1)
    <3>. SUFFICES ASSUME NEW m \in 1..(n - 1), NEW l \in Nat
                  PROVE  Among(<<calls[m].file, l>>, w') <=> l \in 1..(calls[m].next - 1)
      BY <1>6
    <3>1. calls[m].file # f
      <4>1. m \in 1..n /\ n \in 1..n /\ m # n
        BY <1>below
      <4>2. \A a, b \in 1..n : calls[a].file = calls[b].file => a = b
        BY <1>1, <1>3 DEF StackIs
      <4>3. QED
        BY <1>2, <4>1, <4>2
    <3>2. QED
      BY <1>1, <1>3, <1>5, <1>below, <3>1 DEF PiecesAre
  <2>2. \A g \in Started : ~OnStack(g)' => \A l \in Nat : Among(<<g, l>>, w') <=> l \in 1..Last(g)
    <3>. SUFFICES ASSUME NEW g \in Started, ~OnStack(g)', NEW l \in Nat
                  PROVE  Among(<<g, l>>, w') <=> l \in 1..Last(g)
      OBVIOUS
    <3>1. CASE g = f
      <4>1. Among(<<f, l>>, w) <=> l \in 1..(k - 1)
        BY <1>1, <1>2, <1>3 DEF PiecesAre
      <4>2. Among(<<f, l>>, w') <=> l \in 1..(k - 1) \/ l = k
        BY <1>5, <4>1
      <4>3. QED
        BY <1>4, <3>1, <4>2
    <3>2. CASE g # f
      <4>1. Among(<<g, l>>, w) <=> l \in 1..Last(g)
        BY <1>3, <1>7, <3>2 DEF PiecesAre
      <4>2. QED
        BY <1>5, <3>2, <4>1
    <3>3. QED
      BY <3>1, <3>2
  <2>3. /\ \A m \in DOMAIN w' : w'[m][1] \in Started'
        /\ \A m, o \in DOMAIN w' : w'[m][1] = w'[o][1] /\ m < o => w'[m][2] < w'[o][2]
    BY PieceWritten
  <2>4. QED
    BY <1>6, <1>8, <1>10, <2>1, <2>2, <2>3 DEF PiecesAre
<1>12. ImportsStarted'
  <2>1. \A m \in 1..(n - 1) : \A l \in 1..(calls'[m].next - 1) : Imports(calls'[m].file)[l] \in working
    BY <1>1, <1>3, <1>6, <1>below DEF ImportsStarted
  <2>2. \A g \in Started : ~OnStack(g)' => \A l \in DOMAIN Imports(g) : Imports(g)[l] \in working
    <3>1. \A l \in DOMAIN Imports(f) : Imports(f)[l] \in working
      <4>1. DOMAIN Imports(f) = 1..(k - 1)
        BY <1>4 DEF Last
      <4>2. QED
        BY <1>1, <1>2, <1>3, <4>1 DEF ImportsStarted
    <3>2. QED
      BY <1>3, <1>7, <3>1 DEF ImportsStarted
  <2>3. Main \notin working
    BY <1>3 DEF ImportsStarted
  <2>4. QED
    BY <1>6, <1>8, <1>10, <2>1, <2>2, <2>3 DEF ImportsStarted
<1>13. WholeBefore'
  <2>1. AcyclicFrom(input.imports, Main) => \A m \in DOMAIN w' : w'[m][2] > 1 =>
          LET s == Imports(w'[m][1])[w'[m][2] - 1] IN \E o \in 1..(m - 1) : w'[o] = <<s, Last(s)>>
    BY PieceWritten
  <2>2. \A m \in DOMAIN calls' : m = Len(calls') /\ calls'[m].next > 1 =>
          LET s == Imports(calls'[m].file)[calls'[m].next - 1] IN Among(<<s, Last(s)>>, w')
    <3>. SUFFICES ASSUME NEW m \in 1..(n - 1), m = n - 1
                  PROVE  Among(<<Imports(calls[m].file)[calls[m].next - 1],
                                 Last(Imports(calls[m].file)[calls[m].next - 1])>>, w')
      BY <1>6
    <3>1. Imports(calls[m].file)[calls[m].next - 1] = f
      <4>1. m \in 1..n /\ n \in 1..n /\ n = m + 1
        BY <1>1, <1>6
      <4>2. \A a, b \in 1..n : b = a + 1 => Imports(calls[a].file)[calls[a].next - 1] = calls[b].file
        BY <1>1, <1>3 DEF StackIs
      <4>3. QED
        BY <1>2, <4>1, <4>2
    <3>2. QED
      BY <1>4, <1>5, <3>1
  <2>3. QED
    BY <1>8, <2>1, <2>2 DEF WholeBefore
<1>14. JoinType'
  BY <1>3, <1>5, <1>6 DEF JoinType
<1>15. Started' \subseteq Needed' /\ (status' = "running" => exit' = "running")
  BY <1>10 DEF JoinInv, Needed
<1>16. QED
  BY <1>9, <1>11, <1>12, <1>13, <1>14, <1>15 DEF JoinInv

-----------------------------------------------------------------------------
LEMMA JoinStarts ==
  ASSUME ProjectInit
  PROVE  JoinInv
<1>1. /\ calls = <<[file |-> Main, next |-> 1]>> /\ working = {} /\ w = <<>>
      /\ status = "running" /\ input \in Inputs /\ exit = "running" /\ Main \in Files
  BY CompilerAssumption DEF ProjectInit, Init, J!Init, J!Call
<1>2. /\ DOMAIN calls = {1} /\ Len(calls) = 1 /\ calls # <<>>
      /\ calls[1].file = Main /\ calls[1].next = 1
  BY <1>1
<1>3. JoinType
  <2>. DEFINE Calls == [file : Files, next : Nat \ {0}]
  <2>1. [file |-> Main, next |-> 1] \in Calls
    BY <1>1
  <2>. HIDE DEF Calls
  <2>2. calls \in Seq(Calls) /\ w \in Seq(Files \X (Nat \ {0}))
    BY <1>1, <2>1
  <2>3. QED
    BY <1>1, <2>2 DEF JoinType, Calls
<1>4. Started = {Main} /\ Started \subseteq Needed
  BY <1>1, MainNeeded DEF Started
<1>5. OnStack(Main) /\ \A x : ~Among(x, w)
  BY <1>1, <1>2 DEF OnStack, Among
<1>6. 1 <= Last(Main)
  <2>1. Imports(Main) \in Seq(Files)
    BY <1>1, InputFacts DEF Imports
  <2>2. QED
    BY <2>1 DEF Last
<1>7. StackIs
  BY <1>1, <1>2, <1>6 DEF StackIs
<1>8. PiecesAre
  <2>1. \A k \in Nat : k \notin 1..(calls[1].next - 1)
    BY <1>2
  <2>2. DOMAIN w = {}
    BY <1>1
  <2>3. QED
    BY <1>2, <1>4, <1>5, <2>1, <2>2 DEF PiecesAre
<1>9. ImportsStarted
  <2>1. \A k \in Nat : k \notin 1..(calls[1].next - 1)
    BY <1>2
  <2>2. 1..(calls[1].next - 1) = {}
    BY <1>2
  <2>3. QED
    BY <1>1, <1>2, <1>4, <1>5, <2>2 DEF ImportsStarted
<1>10. WholeBefore
  <2>1. DOMAIN w = {} /\ ~(calls[1].next > 1)
    BY <1>1, <1>2
  <2>2. QED
    BY <1>2, <2>1 DEF WholeBefore
<1>11. QED
  BY <1>1, <1>3, <1>4, <1>7, <1>8, <1>9, <1>10 DEF JoinInv

LEMMA JoinStays ==
  ASSUME JoinInv, input' = input, UNCHANGED <<calls, working, w, status>>,
         status = "running" => exit' = exit
  PROVE  JoinInv'
<1>1. /\ \A g : Imports(g)' = Imports(g) /\ Last(g)' = Last(g) /\ (OnStack(g)' <=> OnStack(g))
      /\ Needed' = Needed /\ Started' = Started /\ (Going' <=> Going)
  BY DEF Imports, Last, OnStack, Needed, Started, Going
<1>2. JoinType' /\ (StackIs => StackIs') /\ (ImportsStarted => ImportsStarted')
  BY <1>1 DEF JoinInv, JoinType, StackIs, ImportsStarted
<1>3. PiecesAre => PiecesAre'
  BY <1>1 DEF PiecesAre
<1>4. WholeBefore => WholeBefore'
  BY <1>1 DEF WholeBefore
<1>5. (\E f \in Needed : ImportedBy(f, Main)) => (\E f \in Needed : ImportedBy(f, Main))'
  BY <1>1 DEF ImportedBy
<1>6. QED
  BY <1>1, <1>2, <1>3, <1>4, <1>5 DEF JoinInv

LEMMA ProjectSteps ==
  ASSUME CompilerInv, JoinInv, [ProjectNext]_<<vars, jvars>>
  PROVE  JoinInv'
<1>1. input \in Inputs
  BY DEF CompilerInv, CompilerType
<1>2. CASE JoinStep
  <2>1. input' = input /\ exit' = exit /\ J!Next
    BY <1>2 DEF JoinStep, vars
  <2>2. QED
    BY <1>1, <2>1, JoinSteps, ImportMissingKeeps, ImportAgainKeeps, ImportCycleKeeps,
       ImportFirstKeeps, ReturnKeeps
<1>3. CASE CompileStep
  <2>1. input' = input /\ status # "running" /\ UNCHANGED <<calls, working, w, status>>
    BY <1>3, InputStays DEF CompileStep, jvars
  <2>2. QED
    BY <2>1, JoinStays
<1>4. CASE UNCHANGED <<vars, jvars>>
  <2>1. input' = input /\ exit' = exit /\ UNCHANGED <<calls, working, w, status>>
    BY <1>4 DEF vars, jvars
  <2>2. QED
    BY <2>1, JoinStays
<1>5. QED
  BY <1>2, <1>3, <1>4 DEF ProjectNext

(* The invariant of join, and that of the compiler, hold of every run of    *)
(* the one and then the other.                                              *)
THEOREM ProjectInductive == ProjectSpec => [](CompilerInv /\ JoinInv)
<1>1. ProjectInit => JoinInv
  BY JoinStarts
<1>2. CompilerInv /\ JoinInv /\ [ProjectNext]_<<vars, jvars>> => JoinInv'
  BY ProjectSteps
<1>3. Spec => []CompilerInv
  BY CompilerInductive
<1>4. QED
  BY <1>1, <1>2, <1>3, ProjectImplementsCompiler, PTL DEF ProjectSpec

(* Of every file one task is the elaborator, exit code 0 means that the     *)
(* project is clean, and the output holds all of it.                        *)
THEOREM ProjectCompiles == ProjectSpec => [](OneElaborator /\ OutputIsComplete /\ ExitZeroMeansClean)
<1>1. Spec => []OneElaborator
  BY CompilerOneElaborator
<1>2. Spec => []OutputIsComplete
  BY CompilerOutputIsComplete
<1>3. Spec => []ExitZeroMeansClean
  BY CompilerExitZeroMeansClean
<1>4. QED
  BY <1>1, <1>2, <1>3, ProjectImplementsCompiler, PTL

(* When the join has ended it has been through all files the first imports. *)
LEMMA FinishedFacts ==
  ASSUME JoinInv, status = "finished", input \in Inputs
  PROVE  /\ Started = Needed
         /\ \A f \in Needed : ~OnStack(f)
         /\ \A f \in Needed : ~ImportedBy(f, Main)
<1>1. StackIs /\ ImportsStarted /\ Started \subseteq Needed /\ working \subseteq Files
  BY DEF JoinInv, Going, JoinType
<1>2. \A f : ~OnStack(f)
  BY <1>1 DEF StackIs, OnStack
<1>3. \A f \in Started : \A g : ImportedBy(f, g) => g \in working
  BY <1>1, <1>2 DEF ImportsStarted, ImportedBy, Among
<1>4. Needed \subseteq Started
  BY <1>1, <1>3, NeededIsLeast, CompilerAssumption DEF Started
<1>5. Main \notin working
  BY <1>1 DEF ImportsStarted
<1>6. QED
  BY <1>1, <1>2, <1>3, <1>4, <1>5

(* Both tools find the cycles. *)
THEOREM ProjectCyclesAreSeen == ProjectSpec => []CyclesAreSeen
<1>1. CompilerInv /\ JoinInv => CyclesAreSeen
  <2>. SUFFICES ASSUME CompilerInv, JoinInv PROVE CyclesAreSeen
    OBVIOUS
  <2>1. CompilerSeesCycles
    BY CompilerSeesCyclesHolds
  <2>2. status = "panicked" => \E f \in Needed : ImportedBy(f, Main)
    BY DEF JoinInv
  <2>3. status = "finished" => ~\E f \in Needed : ImportedBy(f, Main)
    BY FinishedFacts DEF CompilerInv, CompilerType
  <2>4. QED
    BY <2>1, <2>2, <2>3 DEF CyclesAreSeen, Needed, ImportedBy
<1>2. QED
  BY <1>1, ProjectInductive, PTL

(* The joined text is the program that is compiled. *)
THEOREM ProjectCompiledIsJoined == ProjectSpec => []CompiledIsJoined
<1>1. CompilerInv /\ JoinInv => CompiledIsJoined
  <2>. SUFFICES ASSUME CompilerInv, JoinInv, exit = "0", AllBare
                PROVE  /\ status = "finished"
                       /\ \A f \in task[<<>>].res.env : \A k \in 1..(Len(Imports(f)) + 1) : Among(<<f, k>>, w)
                       /\ \A n \in DOMAIN w : w[n][1] \in task[<<>>].res.env
                       /\ \A m, n \in DOMAIN w : (w[m][1] = w[n][1] /\ m < n) => w[m][2] < w[n][2]
                       /\ \A n \in DOMAIN w : w[n][2] > 1 =>
                            LET r == Imports(w[n][1])[w[n][2] - 1] IN
                            \E m \in 1..(n - 1) : w[m] = <<r, Len(Imports(r)) + 1>>
    BY DEF CompiledIsJoined
  <2>1. input \in Inputs /\ task[<<>>].pc = "exported"
    BY DEF CompilerInv, CompilerType, ExitIs
  <2>2. Needed \cap input.missing = {}
    BY ExitZeroMeansCleanHolds DEF ExitZeroMeansClean
  <2>3. task[<<>>].res.env = Needed /\ AcyclicFrom(input.imports, Main)
    BY <2>1, <2>2, ExportedIsNeeded
  <2>4. status = "finished"
    BY <2>2, <2>3 DEF JoinInv, JoinType
  <2>5. Started = Needed /\ \A f \in Needed : ~OnStack(f)
    BY <2>1, <2>4, FinishedFacts
  <2>6. PiecesAre /\ WholeBefore
    BY <2>4 DEF JoinInv, Going
  <2>7. \A f \in Needed : \A k \in 1..(Len(Imports(f)) + 1) : Among(<<f, k>>, w)
    <3>1. \A f \in Needed : f \in Started /\ Len(Imports(f)) \in Nat
      <4>1. \A f \in Needed : Imports(f) \in Seq(Files)
        BY <2>1, InputFacts DEF Needed, Reached, Imports
      <4>2. QED
        BY <2>5, <4>1
    <3>2. \A f \in Needed : \A k \in Nat : Among(<<f, k>>, w) <=> k \in 1..(Len(Imports(f)) + 1)
      BY <2>5, <2>6 DEF PiecesAre, Last
    <3>. SUFFICES ASSUME NEW f \in Needed, NEW k \in 1..(Len(Imports(f)) + 1)
                  PROVE  Among(<<f, k>>, w)
      OBVIOUS
    <3>3. k \in Nat
      BY <3>1
    <3>4. QED
      BY <3>2, <3>3
  <2>8. /\ \A n \in DOMAIN w : w[n][1] \in Needed
        /\ \A m, n \in DOMAIN w : (w[m][1] = w[n][1] /\ m < n) => w[m][2] < w[n][2]
    BY <2>5, <2>6 DEF PiecesAre
  <2>9. \A n \in DOMAIN w : w[n][2] > 1 =>
          LET r == Imports(w[n][1])[w[n][2] - 1] IN
          \E m \in 1..(n - 1) : w[m] = <<r, Len(Imports(r)) + 1>>
    BY <2>3, <2>6 DEF WholeBefore, Last
  <2>10. QED
    BY <2>3, <2>4, <2>7, <2>8, <2>9
<1>2. QED
  BY <1>1, ProjectInductive, PTL

=============================================================================
