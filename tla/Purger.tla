------------------------------- MODULE Purger -------------------------------
(***************************************************************************)
(* The purge queue (utils/purger.cpp): callers add paths to a bounded      *)
(* queue, detached workers send them to Nginx, retry what failed and give  *)
(* up after try_max tries; stop() sends the workers home.                  *)
(*                                                                         *)
(* The queue is protected by the mutex `queue_lock'.  A critical section   *)
(* that touches only what the mutex protects is one action that needs the  *)
(* mutex free; the one in which a worker decides to wait is taken apart,   *)
(* because a wake-up sent between the decision and the wait is lost.       *)
(***************************************************************************)
EXTENDS Integers, Sequences, FiniteSets

CONSTANTS Workers,     \* the worker threads, thread_max of them
          Callers,     \* threads that call add()
          Owner,       \* the one of them that also calls stop()
          Tasks,       \* the add() calls made, each with its path
          Nobody,      \* no thread
          NoTask,
          QueueMax,    \* queue_max
          TryMax,      \* try_max
          MaxSpurious  \* bound on spurious wake-ups

ASSUME PurgerAssumption ==
  /\ Owner \in Callers /\ Nobody \notin Workers \union Callers /\ NoTask \notin Tasks
  /\ Workers \intersect Callers = {} /\ IsFiniteSet(Workers) /\ IsFiniteSet(Callers)
  /\ QueueMax \in Nat /\ TryMax \in Nat \ {0} /\ MaxSpurious \in Nat

VARIABLES
  purge_queue,     \* the tasks waiting, oldest first
  tries,           \* the counter queued with each task
  queue_lock,      \* the thread that holds the mutex across actions
  stop_signal,
  running_worker,
  waiting,         \* workers blocked in worker_cv and not yet woken
  wpc, task,       \* where each worker is, and the task it works on
  cpc,             \* where each caller is
  fate,            \* "new", "rejected" by add, "accepted", then "done" or "failed"
  spurious

vars == <<purge_queue, tries, queue_lock, stop_signal, running_worker, waiting,
          wpc, task, cpc, fate, spurious>>

\* The constructor has started the workers; none has seen the queue yet.
Init ==
  /\ purge_queue = <<>> /\ tries = [t \in Tasks |-> 0] /\ queue_lock = Nobody
  /\ stop_signal = FALSE /\ running_worker = Cardinality(Workers) /\ waiting = {}
  /\ wpc = [w \in Workers |-> "acquire"] /\ task = [w \in Workers |-> NoTask]
  /\ cpc = [c \in Callers |-> "idle"] /\ fate = [t \in Tasks |-> "new"]
  /\ spurious = 0

-----------------------------------------------------------------------------
Free == queue_lock = Nobody
WorkerGoes(w, from, to) == wpc[w] = from /\ wpc' = [wpc EXCEPT ![w] = to]
CallerGoes(c, from, to) == cpc[c] = from /\ cpc' = [cpc EXCEPT ![c] = to]
Ends(t, how) == fate' = [fate EXCEPT ![t] = how]

\* notify_one: one of the threads blocked, if there is one.
WakeOne == IF waiting = {} THEN UNCHANGED waiting
                           ELSE \E w \in waiting : waiting' = waiting \ {w}

-----------------------------------------------------------------------------
(* worker(): under the lock.                                               *)

Lock(w) ==
  /\ Free /\ w \notin waiting /\ WorkerGoes(w, "acquire", "check") /\ queue_lock' = w
  /\ UNCHANGED <<purge_queue, tries, stop_signal, running_worker, waiting, task, cpc, fate, spurious>>

\* The predicate of the wait is false ...
Decide(w) ==
  /\ purge_queue = <<>> /\ ~stop_signal /\ WorkerGoes(w, "check", "block")
  /\ UNCHANGED <<purge_queue, tries, queue_lock, stop_signal, running_worker, waiting, task, cpc, fate, spurious>>

\* ... and the worker releases the lock and blocks, in one step; when it is
\* woken it takes the lock and looks again.
Block(w) ==
  /\ WorkerGoes(w, "block", "acquire") /\ waiting' = waiting \union {w} /\ queue_lock' = Nobody
  /\ UNCHANGED <<purge_queue, tries, stop_signal, running_worker, task, cpc, fate, spurious>>

SpuriousWakeUp(w) ==
  /\ w \in waiting /\ spurious < MaxSpurious
  /\ waiting' = waiting \ {w} /\ spurious' = spurious + 1
  /\ UNCHANGED <<purge_queue, tries, queue_lock, stop_signal, running_worker, wpc, task, cpc, fate>>

\* The worker leaves; it is counted out while it still holds the lock.
Exit(w) ==
  /\ stop_signal /\ WorkerGoes(w, "check", "exit") /\ running_worker' = running_worker - 1
  /\ UNCHANGED <<purge_queue, tries, queue_lock, stop_signal, waiting, task, cpc, fate, spurious>>

Unlock(w) ==
  /\ WorkerGoes(w, "exit", "gone") /\ queue_lock' = Nobody
  /\ UNCHANGED <<purge_queue, tries, stop_signal, running_worker, waiting, task, cpc, fate, spurious>>

Pop(w) ==
  /\ ~stop_signal /\ purge_queue # <<>> /\ WorkerGoes(w, "check", "work")
  /\ task' = [task EXCEPT ![w] = Head(purge_queue)] /\ purge_queue' = Tail(purge_queue)
  /\ tries' = [tries EXCEPT ![Head(purge_queue)] = @ + 1] /\ queue_lock' = Nobody
  /\ UNCHANGED <<stop_signal, running_worker, waiting, cpc, fate, spurious>>

-----------------------------------------------------------------------------
(* worker(): the request and what follows it.                              *)

Drops(w, to) == WorkerGoes(w, "work", to) /\ task' = [task EXCEPT ![w] = NoTask]

Succeed(w) ==
  /\ Drops(w, "acquire") /\ Ends(task[w], "done")
  /\ UNCHANGED <<purge_queue, tries, queue_lock, stop_signal, running_worker, waiting, cpc, spurious>>

MayRetry(t) == tries[t] < TryMax

GiveUp(w) ==
  /\ Drops(w, "acquire") /\ ~MayRetry(task[w]) /\ Ends(task[w], "failed")
  /\ UNCHANGED <<purge_queue, tries, queue_lock, stop_signal, running_worker, waiting, cpc, spurious>>

Requeue(w) ==
  /\ Drops(w, "notify") /\ MayRetry(task[w]) /\ Free /\ Len(purge_queue) < QueueMax
  /\ purge_queue' = Append(purge_queue, task[w])
  /\ UNCHANGED <<tries, queue_lock, stop_signal, running_worker, waiting, cpc, fate, spurious>>

\* Mutant: a task that does not fit is dropped without a word.
OverflowSilently(w) ==
  /\ Drops(w, "acquire") /\ MayRetry(task[w]) /\ Free /\ Len(purge_queue) >= QueueMax
  /\ UNCHANGED <<purge_queue, tries, queue_lock, stop_signal, running_worker, waiting, cpc, fate, spurious>>

Overflow(w) ==
  /\ Drops(w, "acquire") /\ MayRetry(task[w]) /\ Free /\ Len(purge_queue) >= QueueMax
  /\ Ends(task[w], "failed")
  /\ UNCHANGED <<purge_queue, tries, queue_lock, stop_signal, running_worker, waiting, cpc, spurious>>

NotifyRetry(w) ==
  /\ WorkerGoes(w, "notify", "acquire") /\ WakeOne
  /\ UNCHANGED <<purge_queue, tries, queue_lock, stop_signal, running_worker, task, cpc, fate, spurious>>

-----------------------------------------------------------------------------
(* add() and stop().                                                       *)

\* Mutant: the new task is announced to nobody.
AcceptUnnotified(c, t) ==
  /\ Free /\ CallerGoes(c, "idle", "idle") /\ fate[t] = "new" /\ Len(purge_queue) < QueueMax
  /\ purge_queue' = Append(purge_queue, t) /\ Ends(t, "accepted")
  /\ UNCHANGED <<tries, queue_lock, stop_signal, running_worker, waiting, wpc, task, spurious>>

Accept(c, t) ==
  /\ Free /\ CallerGoes(c, "idle", "notify") /\ fate[t] = "new" /\ Len(purge_queue) < QueueMax
  /\ purge_queue' = Append(purge_queue, t) /\ Ends(t, "accepted")
  /\ UNCHANGED <<tries, queue_lock, stop_signal, running_worker, waiting, wpc, task, spurious>>

NotifyAdd(c) ==
  /\ CallerGoes(c, "notify", "idle") /\ WakeOne
  /\ UNCHANGED <<purge_queue, tries, queue_lock, stop_signal, running_worker, wpc, task, fate, spurious>>

Reject(c, t) ==
  /\ Free /\ cpc[c] = "idle" /\ fate[t] = "new" /\ Len(purge_queue) >= QueueMax
  /\ Ends(t, "rejected")
  /\ UNCHANGED <<purge_queue, tries, queue_lock, stop_signal, running_worker, waiting, wpc, task, cpc, spurious>>

StopBegin ==
  /\ ~stop_signal /\ CallerGoes(Owner, "idle", "stop")
  /\ UNCHANGED <<purge_queue, tries, queue_lock, stop_signal, running_worker, waiting, wpc, task, fate, spurious>>

\* Mutant: the flag is atomic, so the lock looks superfluous.
StopSetUnlocked ==
  /\ CallerGoes(Owner, "stop", "wake") /\ stop_signal' = TRUE
  /\ UNCHANGED <<purge_queue, tries, queue_lock, running_worker, waiting, wpc, task, fate, spurious>>

StopSet ==
  /\ Free /\ CallerGoes(Owner, "stop", "wake") /\ stop_signal' = TRUE
  /\ UNCHANGED <<purge_queue, tries, queue_lock, running_worker, waiting, wpc, task, fate, spurious>>

StopWake ==
  /\ CallerGoes(Owner, "wake", "spin") /\ waiting' = {}
  /\ UNCHANGED <<purge_queue, tries, queue_lock, stop_signal, running_worker, wpc, task, fate, spurious>>

\* stop() polls the number of workers.
StopSpin == cpc[Owner] = "spin" /\ running_worker # 0 /\ UNCHANGED vars

\* Mutant: the last worker is not waited for.
StopReturnEarly ==
  /\ running_worker <= 1 /\ CallerGoes(Owner, "spin", "stopped")
  /\ UNCHANGED <<purge_queue, tries, queue_lock, stop_signal, running_worker, waiting, wpc, task, fate, spurious>>

StopReturn ==
  /\ running_worker = 0 /\ CallerGoes(Owner, "spin", "stopped")
  /\ UNCHANGED <<purge_queue, tries, queue_lock, stop_signal, running_worker, waiting, wpc, task, fate, spurious>>

-----------------------------------------------------------------------------
WorkerStep(w) == \/ Lock(w) \/ Decide(w) \/ Block(w) \/ Exit(w) \/ Unlock(w) \/ Pop(w)
                 \/ Succeed(w) \/ GiveUp(w) \/ Requeue(w) \/ Overflow(w) \/ NotifyRetry(w)

InCall == \/ \E c \in Callers : NotifyAdd(c)
          \/ StopSet \/ StopWake \/ StopReturn

Call == StopBegin \/ \E c \in Callers, t \in Tasks : Accept(c, t) \/ Reject(c, t)

\* Nothing has to happen any more.
Ended == cpc[Owner] = "stopped" /\ (\A w \in Workers : wpc[w] = "gone") /\ UNCHANGED vars

Next == (\E w \in Workers : WorkerStep(w) \/ SpuriousWakeUp(w)) \/ InCall \/ StopSpin \/ Call \/ Ended

\* Threads that have something to do are scheduled, and a request ends, by
\* its timeout at the latest; nobody has to call add() or stop().
Spec == Init /\ [][Next]_vars /\ WF_vars(InCall) /\ \A w \in Workers : WF_vars(WorkerStep(w))

-----------------------------------------------------------------------------
(* Properties.                                                             *)

\* A task that add() accepted and nobody has reported on is in one place,
\* the queue or one worker's hands, and any other task is in none: nothing
\* is purged twice at a time, reported twice, forgotten or
\* tried more than try_max times (purger.cpp:66-67, 82-95).
Places(t) == Cardinality({i \in DOMAIN purge_queue : purge_queue[i] = t})
               + Cardinality({w \in Workers : task[w] = t})
TaskConserved == \A t \in Tasks : /\ Places(t) = IF fate[t] = "accepted" THEN 1 ELSE 0
                                 /\ tries[t] <= TryMax

\* No wake-up is lost: while a worker sleeps, each queued task has a worker
\* on its way to the queue or a notify_one() still to come, so no task waits
\* for a busy worker when there is an idle one (purger.cpp:55-58, 86-88,
\* 109-110).
OnTheWay == {w \in Workers \ waiting : wpc[w] \in {"acquire", "check"}}
Announced == {w \in Workers : wpc[w] = "notify"} \union {c \in Callers : cpc[c] = "notify"}
NoLostWakeUp ==
  waiting # {} /\ ~stop_signal => Len(purge_queue) <= Cardinality(OnTheWay \union Announced)

\* When stop() returns no worker sleeps, holds a task or will touch the
\* queue again; one may still have the mutex to release (purger.cpp:60-64,
\* 125-133).
QuietAfterStop ==
  cpc[Owner] = "stopped" => /\ waiting = {}
                            /\ \A w \in Workers : wpc[w] \in {"exit", "gone"} /\ task[w] = NoTask

\* One notify_all() is enough: stop() returns ("all of the worker must quit
\* with once notify", purger.cpp:131).
StopReturns == cpc[Owner] = "stop" ~> cpc[Owner] = "stopped"

\* A task that was accepted ends as done or as failed, unless the queue is
\* stopped first; then it is dropped without a report (purger.cpp:60-64,
\* 82-98).
TasksEnd == \A t \in Tasks : fate[t] = "accepted" ~> fate[t] \in {"done", "failed"} \/ stop_signal
=============================================================================
