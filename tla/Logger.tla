------------------------------- MODULE Logger -------------------------------
(***************************************************************************)
(* The logging thread of the mm0-rs language server (server.rs, `log`,     *)
(* `struct Logger`).  Worker threads push messages on a vector guarded by  *)
(* a mutex and signal a condition variable; the logger thread waits on it, *)
(* takes the whole vector and sends the messages to the client; the main   *)
(* thread stops it by a flag, a signal and a join.                         *)
(*                                                                         *)
(* Every mutex section of the code is one statement whose guard is dropped *)
(* at its end, so each section is one action here and the mutex itself     *)
(* needs no variable.  A message is <<thread, n>>, the n-th of its thread. *)
(***************************************************************************)
EXTENDS Naturals, Sequences, SequencesExt

CONSTANTS
  Threads,     \* threads that call log()
  MaxMsgs      \* bound: messages one thread logs

ASSUME LoggerAssumption == MaxMsgs \in Nat

VARIABLES
  queue,       \* the vector under LOGGER.0
  logged,      \* logged[t]: how many messages t has pushed
  signal,      \* signal[t]: t has pushed and not yet called notify_one
  lpc,         \* where the logger thread stands in its loop
  batch,       \* the local vector `messages` being drained
  printed,     \* what log_message has sent to the client, in order
  cancel,      \* the AtomicBool shared by Logger and its thread
  spc          \* where the main thread stands in Logger::stop

vars == <<queue, logged, signal, lpc, batch, printed, cancel, spc>>

Message == Threads \X (1..MaxMsgs)

TypeOK ==
  /\ queue \in Seq(Message)
  /\ logged \in [Threads -> 0..MaxMsgs]
  /\ signal \in [Threads -> BOOLEAN]
  /\ lpc \in {"test", "wait", "asleep", "awake", "drain", "exit"}
  /\ batch \in Seq(Message)
  /\ lpc # "drain" => batch = <<>>
  /\ printed \in Seq(Message)
  /\ cancel \in BOOLEAN
  /\ spc \in {"serving", "stored", "joining", "joined"}

Init ==
  /\ queue = <<>>
  /\ logged = [t \in Threads |-> 0]
  /\ signal = [t \in Threads |-> FALSE]
  /\ lpc = "test"
  /\ batch = <<>>
  /\ printed = <<>>
  /\ cancel = FALSE
  /\ spc = "serving"

(* log(): push under the mutex ... *)
Push(t) ==
  /\ ~signal[t]
  /\ logged[t] < MaxMsgs
  /\ logged' = [logged EXCEPT ![t] = @ + 1]
  /\ queue' = Append(queue, <<t, logged[t] + 1>>)
  /\ signal' = [signal EXCEPT ![t] = TRUE]
  /\ UNCHANGED <<lpc, batch, printed, cancel, spc>>

(* Broken variant: the signal wakes nobody. *)
NotifyNobody == UNCHANGED lpc

(* notify_one wakes the logger only if it is waiting at that moment. *)
Notify == lpc' = IF lpc = "asleep" THEN "awake" ELSE lpc

(* ... then, the mutex released, notify_one. *)
Signal(t) ==
  /\ signal[t]
  /\ signal' = [signal EXCEPT ![t] = FALSE]
  /\ Notify
  /\ UNCHANGED <<queue, logged, batch, printed, cancel, spc>>

(* while !cancel.load(..) *)
Test ==
  /\ lpc = "test"
  /\ lpc' = IF cancel THEN "exit" ELSE "wait"
  /\ UNCHANGED <<queue, logged, signal, batch, printed, cancel, spc>>

(* uwait(ulock()): the wait is unconditional, whatever the queue holds. *)
Sleep ==
  /\ lpc = "wait"
  /\ lpc' = "asleep"
  /\ UNCHANGED <<queue, logged, signal, batch, printed, cancel, spc>>

(* A condition variable may wake its waiter without a signal. *)
SpuriousWakeup ==
  /\ lpc = "asleep"
  /\ lpc' = "awake"
  /\ UNCHANGED <<queue, logged, signal, batch, printed, cancel, spc>>

(* Broken variant: the queue is copied and not cleared. *)
SwapCopies ==
  /\ lpc = "awake"
  /\ batch' = queue
  /\ lpc' = "drain"
  /\ UNCHANGED <<queue, logged, signal, printed, cancel, spc>>

(* mem::swap(messages, queue): the drained local vector becomes the queue. *)
Swap ==
  /\ lpc = "awake"
  /\ batch' = queue
  /\ queue' = batch
  /\ lpc' = "drain"
  /\ UNCHANGED <<logged, signal, printed, cancel, spc>>

(* Broken variant: only the first message of the batch is sent. *)
DrainFirst ==
  /\ lpc = "drain"
  /\ lpc' = "test"
  /\ printed' = IF batch = <<>> THEN printed ELSE Append(printed, Head(batch))
  /\ batch' = IF batch = <<>> THEN batch ELSE Tail(batch)
  /\ UNCHANGED <<queue, logged, signal, cancel, spc>>

(* One message of messages.drain(..), or the end of the loop body. *)
Drain ==
  /\ lpc = "drain"
  /\ IF batch = <<>>
     THEN lpc' = "test" /\ UNCHANGED <<batch, printed>>
     ELSE /\ printed' = Append(printed, Head(batch))
          /\ batch' = Tail(batch)
          /\ UNCHANGED lpc
  /\ UNCHANGED <<queue, logged, signal, cancel, spc>>

(* Logger::stop stores the flag without the mutex ... *)
StopStore ==
  /\ spc = "serving"
  /\ cancel' = TRUE
  /\ spc' = "stored"
  /\ UNCHANGED <<queue, logged, signal, lpc, batch, printed>>

(* ... signals ... *)
StopNotify ==
  /\ spc = "stored"
  /\ Notify
  /\ spc' = "joining"
  /\ UNCHANGED <<queue, logged, signal, batch, printed, cancel>>

(* ... and joins the thread. *)
StopJoin ==
  /\ spc = "joining"
  /\ lpc = "exit"
  /\ spc' = "joined"
  /\ UNCHANGED <<queue, logged, signal, lpc, batch, printed, cancel>>

(* The steps of the logger thread, and of the thread that stops it. *)
LoggerStep == Test \/ Sleep \/ Swap \/ Drain
StopStep == StopNotify \/ StopJoin

Next ==
  \/ \E t \in Threads : Push(t) \/ Signal(t)
  \/ LoggerStep
  \/ SpuriousWakeup
  \/ StopStore
  \/ StopStep

Spec == Init /\ [][Next]_vars

-----------------------------------------------------------------------------
(* Everything a thread has logged is in exactly one place - printed, in    *)
(* the batch or in the queue - and in the order it was logged: the swap    *)
(* neither loses nor repeats nor reorders a message.                       *)
InOrder(journal, count) ==
  /\ \A t \in Threads : \A n \in 1..count[t] : \E i \in DOMAIN journal : journal[i] = <<t, n>>
  /\ \A i \in DOMAIN journal : journal[i][2] <= count[journal[i][1]]
  /\ \A i, k \in DOMAIN journal :
       i < k /\ journal[i][1] = journal[k][1] => journal[i][2] < journal[k][2]

Journal == printed \o batch \o queue

ExactlyOnceInOrder == InOrder(Journal, logged)

(* A message whose signal finds the logger asleep reaches the client: the  *)
(* whole queue is taken, the messages whose own signal was lost included,  *)
(* unless the server stops first.                                          *)
SignalledIsPrinted ==
  \A t \in Threads, n \in 1..MaxMsgs :
    (signal[t] /\ logged[t] = n /\ lpc = "asleep")
      ~> (cancel \/ \E i \in DOMAIN printed : printed[i] = <<t, n>>)

=============================================================================
