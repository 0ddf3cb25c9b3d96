---------------------------- MODULE AsyncDeleter ----------------------------
(***************************************************************************)
(* The file deleter (io/async_deleter.cpp): an owner submits files, a pool *)
(* of threads that run an asio io_context removes them, and stop() waits   *)
(* until none is left before it joins the pool.                            *)
(*                                                                         *)
(* Of asio the model keeps what the class relies on: posted handlers and   *)
(* the work guard are outstanding work; a context without any, or that was *)
(* told to, is stopped, and io.run() returns in every thread as soon as    *)
(* its handler does; a stopped context keeps its handlers for a restart.   *)
(***************************************************************************)
EXTENDS Naturals, FiniteSets

CONSTANTS Threads,    \* the slots of thread_pool
          Files,      \* the files submitted, each once
          Owner,      \* the thread that calls run, submit, stop and force_stop
          Nobody,     \* no thread
          NoFile,
          MaxRuns,    \* bound on calls of run()
          MaxForced   \* bound on calls of force_stop(), destructor included

ASSUME DeleterAssumption ==
  /\ Owner \notin Threads /\ Nobody \notin Threads \union {Owner} /\ NoFile \notin Files
  /\ IsFiniteSet(Threads) /\ Threads # {} /\ IsFiniteSet(Files)
  /\ MaxRuns \in Nat /\ MaxForced \in Nat

VARIABLES
  posted,           \* handlers queued in the context
  unfinished,       \* handlers posted and not yet returned from
  removed,          \* files whose remove_all has been tried
  working_jobs, running_threads,
  guarded,          \* the work guard holds the context
  stopped,          \* the context's stopped flag
  cv_lock,          \* the holder of the mutex across actions
  asleep,           \* the owner is blocked in cv.wait
  tpc, file,        \* where each thread is, and its file
  opc, submitting,  \* where the owner is, and the file being submitted
  returns,          \* where the call in progress takes the owner
  runs, forced

vars == <<posted, unfinished, removed, working_jobs, running_threads, guarded, stopped,
          cv_lock, asleep, tpc, file, opc, submitting, returns, runs, forced>>
jobs == <<posted, unfinished, removed, working_jobs>>
pool == <<running_threads, tpc, file>>
call == <<submitting, returns, runs, forced>>

Init ==
  /\ posted = {} /\ unfinished = {} /\ removed = {} /\ working_jobs = 0 /\ running_threads = 0
  /\ guarded = FALSE /\ stopped = FALSE /\ cv_lock = Nobody /\ asleep = FALSE
  /\ tpc = [t \in Threads |-> "none"] /\ file = [t \in Threads |-> NoFile]
  /\ opc = "idle" /\ submitting = NoFile /\ returns = "idle" /\ runs = 0 /\ forced = 0

Free == cv_lock = Nobody
ThreadGoes(t, from, to) == tpc[t] = from /\ tpc' = [tpc EXCEPT ![t] = to]
OwnerGoes(from, to) == opc = from /\ opc' = to
StopsIfIdle(guard, work) == stopped' = (stopped \/ (~guard /\ work = {}))
PoolExists == \E t \in Threads : tpc[t] # "none"

-----------------------------------------------------------------------------
(* The threads of the pool.                                                *)

Start(t) == /\ ThreadGoes(t, "start", "run") /\ running_threads' = running_threads + 1
            /\ UNCHANGED <<jobs, guarded, stopped, cv_lock, asleep, file, opc, call>>

Take(t, f) ==
  /\ ThreadGoes(t, "run", "remove") /\ ~stopped
  /\ f \in posted /\ posted' = posted \ {f} /\ file' = [file EXCEPT ![t] = f]
  /\ UNCHANGED <<unfinished, removed, working_jobs, running_threads, guarded, stopped,
                 cv_lock, asleep, opc, call>>

\* remove_all; whatever comes of it, the job goes on.
Remove(t) == /\ ThreadGoes(t, "remove", "count") /\ removed' = removed \union {file[t]}
             /\ UNCHANGED <<posted, unfinished, working_jobs, running_threads, guarded, stopped,
                            cv_lock, asleep, file, opc, call>>

\* Mutant: only the last but one job is announced.
FewLeftExactly == working_jobs = 2

\* fetch_sub returns the value before; at 2 or less the owner may be waiting.
FewLeft == working_jobs <= 2

CountOff(t) == /\ ThreadGoes(t, "count", IF FewLeft THEN "notify" ELSE "finish")
               /\ working_jobs' = working_jobs - 1
               /\ UNCHANGED <<posted, unfinished, removed, running_threads, guarded, stopped,
                              cv_lock, asleep, file, opc, call>>

\* Lock, notify_all, unlock.
Notify(t) == /\ Free /\ ThreadGoes(t, "notify", "finish") /\ asleep' = FALSE
             /\ UNCHANGED <<jobs, running_threads, guarded, stopped, cv_lock, file, opc, call>>

\* The handler returns to the context, which may have run out of work.
Finish(t) == /\ ThreadGoes(t, "finish", "run") /\ unfinished' = unfinished \ {file[t]}
             /\ file' = [file EXCEPT ![t] = NoFile] /\ StopsIfIdle(guarded, unfinished')
             /\ UNCHANGED <<posted, removed, working_jobs, running_threads, guarded,
                            cv_lock, asleep, opc, call>>

Leave(t) == /\ ThreadGoes(t, "run", "left") /\ stopped
            /\ running_threads' = running_threads - 1
            /\ UNCHANGED <<jobs, guarded, stopped, cv_lock, asleep, file, opc, call>>

-----------------------------------------------------------------------------
(* run() and submit().                                                     *)

\* With threads counted as running it throws.  The count is made by the
\* threads themselves: before they have started, clear() destroys joinable
\* threads, and the program is terminated.
Run == /\ opc = "idle" /\ running_threads = 0 /\ runs < MaxRuns /\ runs' = runs + 1
       /\ guarded' = TRUE /\ stopped' = FALSE
       /\ IF PoolExists
            THEN opc' = "terminated" /\ UNCHANGED tpc
            ELSE tpc' = [t \in Threads |-> "start"] /\ UNCHANGED opc
       /\ UNCHANGED <<jobs, running_threads, cv_lock, asleep, file, submitting, returns, forced>>

Submit(f) == /\ OwnerGoes("idle", "post") /\ f \notin unfinished \union removed
             /\ submitting' = f /\ working_jobs' = working_jobs + 1
             /\ UNCHANGED <<posted, unfinished, removed, pool, guarded, stopped, cv_lock, asleep,
                            returns, runs, forced>>

Post == /\ OwnerGoes("post", "idle") /\ submitting' = NoFile
        /\ posted' = posted \union {submitting} /\ unfinished' = unfinished \union {submitting}
        /\ UNCHANGED <<removed, working_jobs, pool, guarded, stopped, cv_lock, asleep,
                       returns, runs, forced>>

-----------------------------------------------------------------------------
(* stop().  Before the first run() there is no guard to reset.             *)

ReleaseGuard(to) == /\ runs > 0 /\ OwnerGoes("idle", to)
                    /\ guarded' = FALSE /\ StopsIfIdle(FALSE, unfinished)

Stop == /\ ReleaseGuard("lock") /\ returns' = "idle"
        /\ UNCHANGED <<jobs, pool, cv_lock, asleep, submitting, runs, forced>>

LockOwner == /\ Free /\ ~asleep /\ OwnerGoes("lock", "check") /\ cv_lock' = Owner
             /\ UNCHANGED <<jobs, pool, guarded, stopped, asleep, call>>

\* Jobs are left: release the lock and block, to take it and look again.
Wait == /\ working_jobs # 0 /\ OwnerGoes("check", "lock") /\ asleep' = TRUE /\ cv_lock' = Nobody
        /\ UNCHANGED <<jobs, pool, guarded, stopped, call>>

SpuriousWakeUp == /\ asleep /\ asleep' = FALSE
                  /\ UNCHANGED <<jobs, pool, guarded, stopped, cv_lock, opc, call>>

\* Mutant: a wake-up is trusted, although it may come with one job left.
StopContextEarly == /\ working_jobs <= 1 /\ OwnerGoes("check", "join") /\ stopped' = TRUE
                    /\ UNCHANGED <<jobs, pool, guarded, cv_lock, asleep, call>>

\* The lock stays with the owner until stop() returns.
StopContext == /\ working_jobs = 0 /\ OwnerGoes("check", "join") /\ stopped' = TRUE
               /\ UNCHANGED <<jobs, pool, guarded, cv_lock, asleep, call>>

\* Mutant: one thread is enough.
JoinOne == /\ \E t \in Threads : tpc[t] = "left"
           /\ OwnerGoes("join", returns) /\ cv_lock' = Nobody
           /\ tpc' = [t \in Threads |-> IF tpc[t] = "left" THEN "none" ELSE tpc[t]]
           /\ UNCHANGED <<jobs, running_threads, file, guarded, stopped, asleep, call>>

\* wait_thread() joins every thread that is there; the mutex is released,
\* if stop() held it.
Join == /\ \A t \in Threads : tpc[t] \in {"none", "left"}
        /\ OwnerGoes("join", returns) /\ cv_lock' = Nobody
        /\ tpc' = [t \in Threads |-> "none"]
        /\ UNCHANGED <<jobs, running_threads, file, guarded, stopped, asleep, call>>

\* force_stop(), and the destructor, which calls it.
ForceStop(then) ==
  /\ forced < MaxForced /\ forced' = forced + 1
  /\ ReleaseGuard("force") /\ returns' = then
  /\ UNCHANGED <<jobs, pool, cv_lock, asleep, submitting, runs>>

\* Mutant: it takes the lock as stop() does.
ForceContextLocked == /\ Free /\ OwnerGoes("force", "join") /\ stopped' = TRUE /\ cv_lock' = Owner
                      /\ UNCHANGED <<jobs, pool, guarded, asleep, call>>

ForceContext == /\ OwnerGoes("force", "join") /\ stopped' = TRUE
                /\ UNCHANGED <<jobs, pool, guarded, cv_lock, asleep, call>>

-----------------------------------------------------------------------------
ThreadStep(t) == /\ opc # "terminated"
                 /\ \/ Start(t) \/ (\E f \in Files : Take(t, f)) \/ Remove(t) \/ CountOff(t)
                    \/ Notify(t) \/ Finish(t) \/ Leave(t)

InCall == Post \/ LockOwner \/ Wait \/ StopContext \/ ForceContext \/ Join

Call == \/ Run \/ (\E f \in Files : Submit(f)) \/ Stop
        \/ \E then \in {"idle", "destroyed"} : ForceStop(then)

Next == (\E t \in Threads : ThreadStep(t)) \/ InCall \/ Call \/ SpuriousWakeUp

\* Threads are scheduled and a call goes on; the owner need not make one.
\* A thread that asks for the mutex again and again gets it.
Spec == /\ Init /\ [][Next]_vars /\ WF_vars(InCall)
        /\ \A t \in Threads : WF_vars(ThreadStep(t)) /\ SF_vars(Notify(t))

-----------------------------------------------------------------------------
(* Properties.                                                             *)

\* stop() drains: when it stops the context, every file submitted before has
\* been tried, also those a force_stop() had left in the context
\* (async_deleter.cpp:50-57).
StopDrains == opc = "join" /\ cv_lock = Owner => unfinished \subseteq removed /\ posted = {}

\* No file is removed in two threads at a time, or again after a forced stop
\* and a restart, and once a call has joined the pool nothing of the pool is
\* left running, so that run() can be called again (async_deleter.cpp:13-30,
\* 41-58).
PoolIsClean ==
  /\ \A t, u \in Threads : t # u /\ file[t] # NoFile => file[t] # file[u]
  /\ \A t \in Threads : tpc[t] = "remove" => file[t] \notin removed \union posted
  /\ (\A t \in Threads : tpc[t] = "none") => running_threads = 0
  /\ opc \in {"idle", "post"} /\ runs > 0 /\ ~guarded => \A t \in Threads : tpc[t] = "none"

\* force_stop() and the destructor return, whatever jobs are left
\* (async_deleter.cpp:41-48).
ForceStopReturns == opc = "force" ~> opc \in {"idle", "destroyed"}

\* While there is a pool to do the jobs, the wait in stop() ends
\* (async_deleter.cpp:52-54).
WaitEnds == opc = "lock" /\ PoolExists ~> opc = "join"

\* stop() of a running pool returns, as the test expects of it
\* (test/deleter_test.cpp:10-12).  It does not: the owner joins the pool with
\* cv_lock in its hands, and the thread that counted off the last job may
\* still want it to notify.
StopReturns == opc = "lock" /\ PoolExists ~> opc = "idle"
=============================================================================
