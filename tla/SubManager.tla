----------------------------- MODULE SubManager -----------------------------
(***************************************************************************)
(* The Redis subscriber (redis/redis_subscriber.cpp): a thread inside      *)
(* connect() runs the event loop of one asynchronous connection; the owner *)
(* subscribes and takes the object down with uninit(), as                  *)
(* test/redis_subscriber_test.cpp does.  A stretch of code under           *)
(* connect_lock is one action; the loop's callbacks take no lock.          *)
(*                                                                         *)
(* Of hiredis and libevent the model keeps what the class relies on: the   *)
(* connect callback comes once, the disconnect callback if it had          *)
(* succeeded; a connection that fails, is lost or is disconnected is freed *)
(* by the library with its events, while redis_ctx still points at it; a   *)
(* loop without events ends.  Races inside the library are left out, and   *)
(* so is command_callback, which hands replies on and keeps nothing.       *)
(***************************************************************************)
EXTENDS Integers

CONSTANTS MaxInits,     \* bound on calls of init()
          MaxConnects,  \* bound on calls of connect()
          MaxSpurious   \* bound on wake-ups nobody asked for

ASSUME SubAssumption == MaxInits \in Nat /\ MaxConnects \in Nat /\ MaxSpurious \in Nat

VARIABLES
  redis,       \* the RedisSub exists, and with it its event base
  redis_ctx,   \* "null", "connecting", "connected", or "freed": dangling
  running, status,
  lpc,         \* the thread in connect(): "out", "unlocked", "dispatch", "relock"
  opc,         \* the owner: "idle", "asleep" in cv.wait, or "woken"
  fate,        \* of the latest connection: "none" if nothing was heard of it,
               \* "up", "failed", or "refused" by RedisSub::connect
  earlier,     \* what the callbacks last reported of the connections before
               \* it, since init(): "none", "up" or "failed"
  result,      \* how the last connect() ended
  undefined,   \* a freed context, or a RedisSub that is gone, was used
  reentered,   \* connect() was called while uninit() was in progress
  inits, connects, spurious

history == <<fate, earlier, result>>
bounds == <<inits, connects, spurious, reentered>>
subVars == <<redis, redis_ctx, running, status, lpc, opc, history, undefined, bounds>>

Live == redis_ctx \in {"connecting", "connected"}

SubInit == /\ redis = FALSE /\ redis_ctx = "null" /\ running = FALSE /\ status = 0
        /\ lpc = "out" /\ opc = "idle"
        /\ fate = "none" /\ earlier = "none" /\ result = "none" /\ undefined = FALSE
        /\ reentered = FALSE /\ inits = 0 /\ connects = 0 /\ spurious = 0

LoopGoes(from, to) == lpc = from /\ lpc' = to

-----------------------------------------------------------------------------
(* The owner.  init() takes no lock; it is called on an object without a   *)
(* RedisSub.                                                               *)

ManagerInit == /\ opc = "idle" /\ ~redis /\ inits < MaxInits /\ inits' = inits + 1
               /\ status' = 0 /\ running' = FALSE /\ redis' = TRUE /\ redis_ctx' = "null"
               /\ fate' = "none" /\ earlier' = "none" /\ result' = "none"
               /\ UNCHANGED <<lpc, opc, undefined, connects, spurious, reentered>>

\* With no RedisSub it returns -1, with a null context it throws.
Subscribe == /\ opc = "idle" /\ redis /\ redis_ctx # "null"
             /\ undefined' = (redis_ctx = "freed")
             /\ UNCHANGED <<redis, redis_ctx, running, status, lpc, opc, history, bounds>>

\* delete redis: its destructor forgets the context without freeing it.
Free == redis' = FALSE /\ status' = 0 /\ redis_ctx' = "null"

\* No loop is running: free at once.
UninitIdle == /\ opc = "idle" /\ redis /\ ~running /\ Free
              /\ UNCHANGED <<running, lpc, opc, history, undefined, bounds>>

\* RedisSub::disconnect.  The library frees the context at once, and the
\* disconnect callback runs in the owner's thread.
SubDisconnect == /\ redis_ctx' = (IF redis_ctx = "null" THEN "null" ELSE "freed")
              /\ undefined' = (redis_ctx = "freed")
              /\ status' = (IF redis_ctx = "connected" THEN 0 ELSE status)

\* Mutant: the wait is left out.
UninitNoWait == /\ opc = "idle" /\ redis /\ running /\ opc' = "woken" /\ SubDisconnect
                /\ UNCHANGED <<redis, running, lpc, history, bounds>>

\* A loop is running: disconnect, and wait for connect() to leave it.
Uninit == /\ opc = "idle" /\ redis /\ running /\ opc' = "asleep" /\ SubDisconnect
          /\ UNCHANGED <<redis, running, lpc, history, bounds>>

\* cv.wait has no predicate, so any wake-up will do.
SpuriousWakeUp == /\ opc = "asleep" /\ spurious < MaxSpurious /\ spurious' = spurious + 1
                  /\ opc' = "woken"
                  /\ UNCHANGED <<redis, redis_ctx, running, status, lpc, history,
                                 undefined, inits, connects, reentered>>

\* A loop that still runs does so on an event base that is gone.
UninitEnd == /\ opc = "woken" /\ opc' = "idle" /\ Free /\ undefined' = (lpc = "dispatch")
             /\ UNCHANGED <<running, lpc, history, bounds>>

-----------------------------------------------------------------------------
(* connect().                                                              *)

\* What the callbacks reported last.
Reported == IF fate \in {"up", "failed"} THEN fate ELSE earlier

Enter == /\ lpc = "out" /\ redis /\ connects < MaxConnects /\ connects' = connects + 1
         /\ earlier' = Reported
         /\ reentered' = (reentered \/ opc # "idle")
         /\ UNCHANGED <<redis, status, opc, undefined, inits, spurious>>

\* RedisSub::connect gets no context, or one in error: free it and throw.
ConnectRefused == /\ Enter /\ redis_ctx' = "null" /\ running' = FALSE
                  /\ fate' = "refused" /\ result' = "threw" /\ UNCHANGED lpc

\* The context cannot be attached to the loop: it is freed, but err is zero
\* and connect() goes on as if all were well.
ConnectUnattached == /\ Enter /\ redis_ctx' = "null" /\ running' = TRUE /\ lpc' = "unlocked"
                     /\ fate' = "none" /\ UNCHANGED result

ConnectAttached == /\ Enter /\ redis_ctx' = "connecting" /\ running' = TRUE /\ lpc' = "unlocked"
                   /\ fate' = "none" /\ UNCHANGED result

\* redis->run() reads the pointer after the lock was released.
Run == /\ LoopGoes("unlocked", "dispatch") /\ undefined' = ~redis
       /\ UNCHANGED <<redis, redis_ctx, running, status, opc, history, bounds>>

\* Mutant: connect() notifies only when it returns normally.
NotifyOnReturn == opc' = IF opc = "asleep" /\ status # -1 THEN "woken" ELSE opc

NotifyOne == opc' = IF opc = "asleep" THEN "woken" ELSE opc

\* connect()'s last stretch under the lock.
Epilogue == /\ LoopGoes("relock", "out") /\ running' = FALSE /\ NotifyOne
            /\ result' = (IF status = -1 THEN "threw" ELSE "returned")
            /\ UNCHANGED <<redis, redis_ctx, status, fate, earlier, undefined, bounds>>

-----------------------------------------------------------------------------
(* The event loop and its callbacks.                                       *)

Looping == lpc = "dispatch" /\ UNCHANGED <<redis, running, lpc, opc, earlier, result, undefined, bounds>>

SubConnected == /\ Looping /\ redis_ctx = "connecting" /\ redis_ctx' = "connected"
                /\ status' = 1 /\ fate' = "up"

\* Mutant: a callback with a result other than OK leaves the status alone.
FailureIgnored == UNCHANGED status

\* connect_callback and disconnect_callback with an error.
Failure == status' = -1

\* The connection cannot be made, or times out, or is lost; the library
\* frees it.
ConnectionEnds == Looping /\ Live /\ redis_ctx' = "freed" /\ Failure /\ fate' = "failed"

\* Mutant: the loop notifies when it ends, before connect() has the lock.
LoopEndsNotifying == /\ ~Live /\ LoopGoes("dispatch", "relock") /\ NotifyOne
                     /\ UNCHANGED <<redis, redis_ctx, running, status, history, undefined, bounds>>

LoopEnds == /\ ~Live /\ LoopGoes("dispatch", "relock")
            /\ UNCHANGED <<redis, redis_ctx, running, status, opc, history, undefined, bounds>>

-----------------------------------------------------------------------------
LoopRuns == ~undefined /\ (Run \/ LoopEnds \/ Epilogue)
LoopHears == ~undefined /\ (SubConnected \/ ConnectionEnds)
OwnerCalls == ~undefined /\ (ManagerInit \/ Subscribe \/ UninitIdle \/ Uninit)
ThreadCalls == ~undefined /\ (ConnectRefused \/ ConnectUnattached \/ ConnectAttached)
OwnerWakes == ~undefined /\ UninitEnd

SubNext == LoopRuns \/ LoopHears \/ OwnerCalls \/ ThreadCalls \/ OwnerWakes \/ (~undefined /\ SpuriousWakeUp)

\* The thread in connect() runs, and its loop notices what is left of its
\* events; an owner that was woken goes on.
SubSpec == SubInit /\ [][SubNext]_subVars /\ WF_subVars(LoopRuns) /\ WF_subVars(OwnerWakes)

-----------------------------------------------------------------------------
(* Properties.                                                             *)

\* Every variable holds a value of its type, and the status says whether
\* there is a connection: 1 if and only if it is up
\* (redis_subscriber.cpp:209-228).
TypeOK ==
  /\ redis \in BOOLEAN /\ redis_ctx \in {"null", "connecting", "connected", "freed"}
  /\ running \in BOOLEAN /\ status \in {-1, 0, 1}
  /\ lpc \in {"out", "unlocked", "dispatch", "relock"} /\ opc \in {"idle", "asleep", "woken"}
  /\ fate \in {"none", "up", "failed", "refused"} /\ earlier \in {"none", "up", "failed"}
  /\ result \in {"none", "returned", "threw"}
  /\ undefined \in BOOLEAN /\ reentered \in BOOLEAN
  /\ inits \in 0 .. MaxInits /\ connects \in 0 .. MaxConnects /\ spurious \in 0 .. MaxSpurious
  /\ ~undefined => (status = 1 <=> redis_ctx = "connected")

\* Nobody but connect() itself ended the wait of uninit(), and no other
\* connect() came in between.
Undisturbed == spurious = 0 /\ ~reentered

\* However uninit(), subscribe() and the loop interleave, a freed context or
\* event base is used only after the server or the network ended the
\* connection and before connect() is called again, or when the wait in
\* uninit() was disturbed (redis_subscriber.cpp:94-102, 157-161, 184-186).
SafeUntilLost == Undisturbed /\ undefined => fate = "failed"

\* When connect() throws.  The status is not reset on entry, so a connection
\* that nothing was heard of (it could not be attached to the loop, or
\* uninit() disconnected it while it was being made) is blamed for an earlier
\* one, if that is what the callbacks reported last since init().  A
\* connection that came up is never blamed for another, and one that failed
\* is always reported (redis_subscriber.cpp:143-148, 174-195, 209-228).
BlamedForEarlier == fate = "none" /\ earlier = "failed"
FailureIsReported ==
  Undisturbed /\ lpc = "out" /\ result # "none" =>
    (result = "threw" <=> fate \in {"refused", "failed"} \/ BlamedForEarlier)

\* When uninit() returns, no thread is left in connect(), and nothing was
\* taken from under its event loop (redis_subscriber.cpp:150-166).
UninitAfterConnect == Undisturbed /\ ~undefined /\ ~redis => lpc = "out" /\ ~running

\* uninit() returns: the notification is neither missed, as it is sent under
\* the lock, nor left out when connect() throws
\* (redis_subscriber.cpp:157-161, 188-194).
UninitReturns == opc = "asleep" ~> opc = "idle" \/ undefined
=============================================================================
