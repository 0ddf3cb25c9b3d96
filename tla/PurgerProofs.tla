---------------------------- MODULE PurgerProofs ----------------------------
(***************************************************************************)
(* The safety of the purge queue, for any number of workers, callers and   *)
(* tasks.  Of the tasks: the queue and the workers' hands hold exactly the *)
(* accepted ones, each once, and what is queued may still be tried.  Of    *)
(* the stop: running_worker counts the workers that have not left, and who *)
(* sleeps, or has a task, has not.                                         *)
(***************************************************************************)
EXTENDS Purger, FiniteSetTheorems, TLAPS

WorkerPlaces == {"acquire", "check", "block", "exit", "gone", "work", "notify"}
CallerPlaces == {"idle", "notify", "stop", "wake", "spin", "stopped"}
Fates == {"new", "rejected", "accepted", "done", "failed"}

TypeOK == /\ purge_queue \in Seq(Tasks) /\ tries \in [Tasks -> Nat]
          /\ stop_signal \in BOOLEAN /\ waiting \subseteq Workers
          /\ wpc \in [Workers -> WorkerPlaces] /\ task \in [Workers -> Tasks \union {NoTask}]
          /\ cpc \in [Callers -> CallerPlaces] /\ fate \in [Tasks -> Fates]

Queued(t) == \E i \in 1 .. Len(purge_queue) : purge_queue[i] = t
Held(t) == \E w \in Workers : task[w] = t

\* Each accepted task is in one place, and it is there once.
Once == /\ \A i, j \in 1 .. Len(purge_queue) : purge_queue[i] = purge_queue[j] => i = j
        /\ \A v, w \in Workers : task[v] = task[w] /\ task[v] # NoTask => v = w
        /\ \A t \in Tasks : ~(Queued(t) /\ Held(t))
        /\ \A t \in Tasks : fate[t] = "accepted" <=> Queued(t) \/ Held(t)

Tried == \A t \in Tasks : /\ tries[t] <= TryMax
                          /\ Queued(t) => tries[t] < TryMax
                          /\ fate[t] = "new" => tries[t] = 0

\* Where a worker is says what it has and whether it may sleep.
Working == \A w \in Workers : /\ task[w] # NoTask <=> wpc[w] = "work"
                              /\ w \in waiting => wpc[w] = "acquire"

TasksInv == TypeOK /\ Once /\ Tried /\ Working

-----------------------------------------------------------------------------
LEMMA InitTasks == Init => TasksInv
<1> SUFFICES ASSUME Init PROVE TasksInv  OBVIOUS
<1>1. TypeOK
  <2>1. purge_queue \in Seq(Tasks) /\ tries \in [Tasks -> Nat]  BY DEF Init
  <2>2. stop_signal \in BOOLEAN /\ waiting \subseteq Workers  BY DEF Init
  <2>3. wpc \in [Workers -> WorkerPlaces] /\ task \in [Workers -> Tasks \union {NoTask}]
    BY DEF Init, WorkerPlaces
  <2>4. cpc \in [Callers -> CallerPlaces] /\ fate \in [Tasks -> Fates]
    BY DEF Init, CallerPlaces, Fates
  <2>5. QED  BY <2>1, <2>2, <2>3, <2>4 DEF TypeOK
<1>2. \A t \in Tasks : ~Queued(t) /\ ~Held(t)
  <2>1. Len(purge_queue) = 0  BY DEF Init
  <2>2. QED  BY <2>1, PurgerAssumption DEF Init, Queued, Held
<1>3. Once
  <2>1. Len(purge_queue) = 0 /\ \A w \in Workers : task[w] = NoTask  BY DEF Init
  <2>2. \A t \in Tasks : fate[t] # "accepted"  BY DEF Init
  <2>3. QED  BY <1>2, <2>1, <2>2 DEF Once
<1>4. Tried  BY <1>2, PurgerAssumption DEF Init, Tried
<1>5. Working  BY DEF Init, Working
<1>6. QED  BY <1>1, <1>3, <1>4, <1>5 DEF TasksInv

\* Steps that touch neither the queue nor a task.
LEMMA TasksStay ==
  ASSUME TasksInv, TypeOK', Working', UNCHANGED <<purge_queue, tries, task, fate>> PROVE TasksInv'
BY DEF TasksInv, Once, Tried, Queued, Held

\* A task enters the queue, from an add() or from a worker's hands.
LEMMA Enqueued ==
  ASSUME TypeOK, NEW t \in Tasks, purge_queue' = Append(purge_queue, t)
  PROVE  /\ purge_queue' \in Seq(Tasks) /\ Len(purge_queue') = Len(purge_queue) + 1
         /\ \A i \in 1 .. Len(purge_queue) : purge_queue'[i] = purge_queue[i]
         /\ purge_queue'[Len(purge_queue) + 1] = t
         /\ \A u \in Tasks : Queued(u)' <=> Queued(u) \/ u = t
<1>1. Len(purge_queue) \in Nat /\ purge_queue \in Seq(Tasks)  BY DEF TypeOK
<1>2. /\ purge_queue' \in Seq(Tasks) /\ Len(purge_queue') = Len(purge_queue) + 1
      /\ \A i \in 1 .. Len(purge_queue) : purge_queue'[i] = purge_queue[i]
      /\ purge_queue'[Len(purge_queue) + 1] = t
  BY <1>1
<1>3. QED  BY <1>1, <1>2 DEF Queued

\* The oldest task leaves it.
LEMMA Dequeued ==
  ASSUME TypeOK, purge_queue # <<>>, purge_queue' = Tail(purge_queue)
  PROVE  /\ purge_queue' \in Seq(Tasks) /\ Len(purge_queue') = Len(purge_queue) - 1
         /\ Len(purge_queue) \in Nat \ {0}
         /\ Head(purge_queue) = purge_queue[1] /\ Head(purge_queue) \in Tasks
         /\ \A i \in 1 .. Len(purge_queue') : purge_queue'[i] = purge_queue[i + 1]
BY DEF TypeOK

LEMMA PopTasks == ASSUME TasksInv, NEW w \in Workers, Pop(w) PROVE TasksInv'
<1> DEFINE t == Head(purge_queue)
<1>1. /\ wpc[w] = "check" /\ wpc' = [wpc EXCEPT ![w] = "work"] /\ purge_queue # <<>>
      /\ task' = [task EXCEPT ![w] = t] /\ purge_queue' = Tail(purge_queue)
      /\ tries' = [tries EXCEPT ![t] = tries[t] + 1]
      /\ UNCHANGED <<stop_signal, waiting, cpc, fate>>
  BY DEF Pop, WorkerGoes
<1>2. /\ purge_queue' \in Seq(Tasks) /\ Len(purge_queue') = Len(purge_queue) - 1
      /\ Len(purge_queue) \in Nat \ {0} /\ t = purge_queue[1] /\ t \in Tasks
      /\ \A i \in 1 .. Len(purge_queue') : purge_queue'[i] = purge_queue[i + 1]
  BY <1>1, Dequeued DEF TasksInv
<1> HIDE DEF t
<1>3. /\ tries' \in [Tasks -> Nat] /\ task' \in [Workers -> Tasks \union {NoTask}]
      /\ wpc' \in [Workers -> WorkerPlaces]
  BY <1>1, <1>2 DEF TasksInv, TypeOK, WorkerPlaces
<1>4. TypeOK'  BY <1>1, <1>2, <1>3 DEF TasksInv, TypeOK
<1>5. /\ task'[w] = t /\ \A v \in Workers \ {w} : task'[v] = task[v]
      /\ wpc'[w] = "work" /\ \A v \in Workers \ {w} : wpc'[v] = wpc[v]
      /\ task[w] = NoTask
  BY <1>1 DEF TasksInv, TypeOK, Working
<1>6. Queued(t)  BY <1>2 DEF Queued
<1>7. \A u \in Tasks : Queued(u)' <=> Queued(u) /\ u # t
  <2>1. ASSUME NEW u \in Tasks, Queued(u)' PROVE Queued(u) /\ u # t
    <3>1. PICK i \in 1 .. Len(purge_queue') : purge_queue'[i] = u  BY <2>1 DEF Queued
    <3>2. i + 1 \in 1 .. Len(purge_queue) /\ purge_queue[i + 1] = u /\ i + 1 # 1  BY <1>2, <3>1
    <3>3. 1 \in 1 .. Len(purge_queue)  BY <1>2
    <3>4. u # t  BY <1>2, <3>2, <3>3 DEF TasksInv, Once
    <3>5. QED  BY <3>2, <3>4 DEF Queued
  <2>2. ASSUME NEW u \in Tasks, Queued(u), u # t PROVE Queued(u)'
    <3>1. PICK i \in 1 .. Len(purge_queue) : purge_queue[i] = u  BY <2>2 DEF Queued
    <3>2. i # 1  BY <1>2, <2>2, <3>1
    <3>3. i - 1 \in 1 .. Len(purge_queue') /\ purge_queue'[i - 1] = u
      <4>1. i - 1 \in 1 .. Len(purge_queue')  BY <1>2, <3>1, <3>2
      <4>2. (i - 1) + 1 = i  BY <3>1
      <4>3. QED  BY <1>2, <3>1, <4>1, <4>2
    <3>4. QED  BY <3>3 DEF Queued
  <2>3. QED  BY <2>1, <2>2
<1>8. \A u \in Tasks : Held(u)' <=> Held(u) \/ u = t
  BY <1>2, <1>5, PurgerAssumption DEF Held
<1>9. Once'
  <2>1. \A i, j \in 1 .. Len(purge_queue') : purge_queue'[i] = purge_queue'[j] => i = j
    <3> SUFFICES ASSUME NEW i \in 1 .. Len(purge_queue'), NEW j \in 1 .. Len(purge_queue'),
                        purge_queue'[i] = purge_queue'[j]
                 PROVE  i = j
      OBVIOUS
    <3>1. i + 1 \in 1 .. Len(purge_queue) /\ j + 1 \in 1 .. Len(purge_queue)  BY <1>2
    <3>2. i + 1 = j + 1  BY <1>2, <3>1 DEF TasksInv, Once
    <3>3. QED  BY <3>2
  <2>2. \A v, x \in Workers : task'[v] = task'[x] /\ task'[v] # NoTask => v = x
    BY <1>2, <1>5, <1>6 DEF TasksInv, Once, Held
  <2>3. \A u \in Tasks : ~(Queued(u)' /\ Held(u)')  BY <1>7, <1>8 DEF TasksInv, Once
  <2>4. \A u \in Tasks : fate'[u] = "accepted" <=> Queued(u)' \/ Held(u)'
    BY <1>1, <1>6, <1>7, <1>8 DEF TasksInv, Once
  <2>5. QED  BY <2>1, <2>2, <2>3, <2>4 DEF Once
<1>10. Tried'
  <2>1. /\ tries'[t] = tries[t] + 1 /\ tries[t] \in Nat
        /\ \A u \in Tasks \ {t} : tries'[u] = tries[u]
    BY <1>1, <1>2 DEF TasksInv, TypeOK
  <2>2. tries[t] < TryMax /\ TryMax \in Nat  BY <1>2, <1>6, PurgerAssumption DEF TasksInv, Tried
  <2>3. fate[t] = "accepted"  BY <1>2, <1>6 DEF TasksInv, Once
  <2>4. QED  BY <1>1, <1>7, <2>1, <2>2, <2>3 DEF TasksInv, Tried
<1>11. Working'
  <2>1. t # NoTask  BY <1>2, PurgerAssumption
  <2>2. w \notin waiting  BY <1>1 DEF TasksInv, Working
  <2>3. QED  BY <1>1, <1>5, <2>1, <2>2 DEF TasksInv, Working
<1>12. QED  BY <1>4, <1>9, <1>10, <1>11 DEF TasksInv

\* A worker has reported on its task, one way or another.
LEMMA ReportTasks ==
  ASSUME TasksInv, NEW w \in Workers, Succeed(w) \/ GiveUp(w) \/ Overflow(w) PROVE TasksInv'
<1> DEFINE t == task[w]
<1>1. /\ wpc[w] = "work" /\ wpc' = [wpc EXCEPT ![w] = "acquire"]
      /\ task' = [task EXCEPT ![w] = NoTask]
      /\ UNCHANGED <<purge_queue, tries, stop_signal, waiting, cpc>>
      /\ \E how \in {"done", "failed"} : fate' = [fate EXCEPT ![t] = how]
  BY DEF Succeed, GiveUp, Overflow, Drops, WorkerGoes, Ends
<1>2. t \in Tasks /\ Held(t)
  BY <1>1, PurgerAssumption DEF TasksInv, TypeOK, Working, Held
<1> HIDE DEF t
<1>3. /\ task' \in [Workers -> Tasks \union {NoTask}] /\ wpc' \in [Workers -> WorkerPlaces]
      /\ fate' \in [Tasks -> Fates]
  BY <1>1 DEF TasksInv, TypeOK, WorkerPlaces, Fates
<1>4. TypeOK'  BY <1>1, <1>3 DEF TasksInv, TypeOK
<1>5. /\ task'[w] = NoTask /\ \A v \in Workers \ {w} : task'[v] = task[v]
      /\ wpc'[w] = "acquire" /\ \A v \in Workers \ {w} : wpc'[v] = wpc[v]
      /\ fate'[t] \in {"done", "failed"} /\ \A u \in Tasks \ {t} : fate'[u] = fate[u]
  BY <1>1, <1>2 DEF TasksInv, TypeOK
<1>6. \A v \in Workers \ {w} : task[v] # t
  <2>1. task[w] = t  BY DEF t
  <2>2. QED  BY <1>2, <2>1, PurgerAssumption DEF TasksInv, Once
<1>7. \A u \in Tasks : Held(u)' <=> Held(u) /\ u # t
  <2>1. task[w] = t  BY DEF t
  <2>2. \A u \in Tasks : u # NoTask  BY PurgerAssumption
  <2>3. QED  BY <1>5, <1>6, <2>1, <2>2 DEF Held
<1>8. \A u \in Tasks : Queued(u)' <=> Queued(u)  BY <1>1 DEF Queued
<1>9. Once'
  <2>1. \A i, j \in 1 .. Len(purge_queue') : purge_queue'[i] = purge_queue'[j] => i = j
    BY <1>1 DEF TasksInv, Once
  <2>2. \A v, x \in Workers : task'[v] = task'[x] /\ task'[v] # NoTask => v = x
    BY <1>5 DEF TasksInv, Once
  <2>3. \A u \in Tasks : ~(Queued(u)' /\ Held(u)')  BY <1>7, <1>8 DEF TasksInv, Once
  <2>4. \A u \in Tasks : fate'[u] = "accepted" <=> Queued(u)' \/ Held(u)'
    BY <1>2, <1>5, <1>7, <1>8 DEF TasksInv, Once
  <2>5. QED  BY <2>1, <2>2, <2>3, <2>4 DEF Once
<1>10. Tried'  BY <1>1, <1>5, <1>8 DEF TasksInv, Tried
<1>11. Working'  BY <1>1, <1>5 DEF TasksInv, Working
<1>12. QED  BY <1>4, <1>9, <1>10, <1>11 DEF TasksInv

\* A worker puts its task back at the end of the queue.
LEMMA RequeueTasks == ASSUME TasksInv, NEW w \in Workers, Requeue(w) PROVE TasksInv'
<1> DEFINE t == task[w]
<1>1. /\ wpc[w] = "work" /\ wpc' = [wpc EXCEPT ![w] = "notify"]
      /\ task' = [task EXCEPT ![w] = NoTask]
      /\ purge_queue' = Append(purge_queue, t) /\ tries[t] < TryMax
      /\ UNCHANGED <<tries, stop_signal, waiting, cpc, fate>>
  BY DEF Requeue, Drops, WorkerGoes, MayRetry
<1>2. t \in Tasks /\ Held(t)
  BY <1>1, PurgerAssumption DEF TasksInv, TypeOK, Working, Held
<1>3. task[w] = t  OBVIOUS
<1> HIDE DEF t
<1>4. /\ purge_queue' \in Seq(Tasks) /\ Len(purge_queue') = Len(purge_queue) + 1
      /\ \A i \in 1 .. Len(purge_queue) : purge_queue'[i] = purge_queue[i]
      /\ purge_queue'[Len(purge_queue) + 1] = t
      /\ \A u \in Tasks : Queued(u)' <=> Queued(u) \/ u = t
  BY <1>1, <1>2, Enqueued DEF TasksInv
<1>5. /\ task' \in [Workers -> Tasks \union {NoTask}] /\ wpc' \in [Workers -> WorkerPlaces]
  BY <1>1 DEF TasksInv, TypeOK, WorkerPlaces
<1>6. TypeOK'  BY <1>1, <1>4, <1>5 DEF TasksInv, TypeOK
<1>7. /\ task'[w] = NoTask /\ \A v \in Workers \ {w} : task'[v] = task[v]
      /\ wpc'[w] = "notify" /\ \A v \in Workers \ {w} : wpc'[v] = wpc[v]
  BY <1>1 DEF TasksInv, TypeOK
<1>8. \A u \in Tasks : Held(u)' <=> Held(u) /\ u # t
  <2>1. \A v \in Workers \ {w} : task[v] # t  BY <1>2, <1>3, PurgerAssumption DEF TasksInv, Once
  <2>2. \A u \in Tasks : u # NoTask  BY PurgerAssumption
  <2>3. QED  BY <1>3, <1>7, <2>1, <2>2 DEF Held
<1>9. ~Queued(t)  BY <1>2 DEF TasksInv, Once
<1>10. Once'
  <2>1. \A i, j \in 1 .. Len(purge_queue') : purge_queue'[i] = purge_queue'[j] => i = j
    <3>1. Len(purge_queue) \in Nat  BY DEF TasksInv, TypeOK
    <3>2. \A i \in 1 .. Len(purge_queue) : purge_queue[i] # t  BY <1>9 DEF Queued
    <3>3. QED  BY <1>4, <3>1, <3>2 DEF TasksInv, Once
  <2>2. \A v, x \in Workers : task'[v] = task'[x] /\ task'[v] # NoTask => v = x
    BY <1>7 DEF TasksInv, Once
  <2>3. \A u \in Tasks : ~(Queued(u)' /\ Held(u)')  BY <1>4, <1>8 DEF TasksInv, Once
  <2>4. \A u \in Tasks : fate'[u] = "accepted" <=> Queued(u)' \/ Held(u)'
    BY <1>1, <1>2, <1>4, <1>8 DEF TasksInv, Once
  <2>5. QED  BY <2>1, <2>2, <2>3, <2>4 DEF Once
<1>11. Tried'  BY <1>1, <1>4 DEF TasksInv, Tried
<1>12. Working'  BY <1>1, <1>7 DEF TasksInv, Working
<1>13. QED  BY <1>6, <1>10, <1>11, <1>12 DEF TasksInv

\* add() takes a task in.
LEMMA AcceptTasks ==
  ASSUME TasksInv, NEW c \in Callers, NEW t \in Tasks, Accept(c, t) PROVE TasksInv'
<1>1. /\ fate[t] = "new" /\ fate' = [fate EXCEPT ![t] = "accepted"]
      /\ cpc' = [cpc EXCEPT ![c] = "notify"] /\ purge_queue' = Append(purge_queue, t)
      /\ UNCHANGED <<tries, stop_signal, waiting, wpc, task>>
  BY DEF Accept, CallerGoes, Ends
<1>2. /\ purge_queue' \in Seq(Tasks) /\ Len(purge_queue') = Len(purge_queue) + 1
      /\ \A i \in 1 .. Len(purge_queue) : purge_queue'[i] = purge_queue[i]
      /\ purge_queue'[Len(purge_queue) + 1] = t
      /\ \A u \in Tasks : Queued(u)' <=> Queued(u) \/ u = t
  BY <1>1, Enqueued DEF TasksInv
<1>3. cpc' \in [Callers -> CallerPlaces] /\ fate' \in [Tasks -> Fates]
  BY <1>1 DEF TasksInv, TypeOK, CallerPlaces, Fates
<1>4. TypeOK'  BY <1>1, <1>2, <1>3 DEF TasksInv, TypeOK
<1>5. fate'[t] = "accepted" /\ \A u \in Tasks \ {t} : fate'[u] = fate[u]
  BY <1>1 DEF TasksInv, TypeOK
<1>6. ~Queued(t) /\ ~Held(t)  BY <1>1 DEF TasksInv, Once
<1>7. \A u \in Tasks : Held(u)' <=> Held(u)  BY <1>1 DEF Held
<1>8. Once'
  <2>1. \A i, j \in 1 .. Len(purge_queue') : purge_queue'[i] = purge_queue'[j] => i = j
    <3>1. Len(purge_queue) \in Nat  BY DEF TasksInv, TypeOK
    <3>2. \A i \in 1 .. Len(purge_queue) : purge_queue[i] # t  BY <1>6 DEF Queued
    <3>3. QED  BY <1>2, <3>1, <3>2 DEF TasksInv, Once
  <2>2. \A v, x \in Workers : task'[v] = task'[x] /\ task'[v] # NoTask => v = x
    BY <1>1 DEF TasksInv, Once
  <2>3. \A u \in Tasks : ~(Queued(u)' /\ Held(u)')  BY <1>2, <1>6, <1>7 DEF TasksInv, Once
  <2>4. \A u \in Tasks : fate'[u] = "accepted" <=> Queued(u)' \/ Held(u)'
    BY <1>2, <1>5, <1>7 DEF TasksInv, Once
  <2>5. QED  BY <2>1, <2>2, <2>3, <2>4 DEF Once
<1>9. Tried'
  <2>1. tries[t] = 0 /\ TryMax \in Nat \ {0}  BY <1>1, PurgerAssumption DEF TasksInv, Tried
  <2>2. QED  BY <1>1, <1>2, <1>5, <2>1 DEF TasksInv, Tried
<1>10. Working'  BY <1>1 DEF TasksInv, Working
<1>11. QED  BY <1>4, <1>8, <1>9, <1>10 DEF TasksInv

\* add() turns one away.
LEMMA RejectTasks ==
  ASSUME TasksInv, NEW c \in Callers, NEW t \in Tasks, Reject(c, t) PROVE TasksInv'
<1>1. /\ fate[t] = "new" /\ fate' = [fate EXCEPT ![t] = "rejected"]
      /\ UNCHANGED <<purge_queue, tries, stop_signal, waiting, wpc, task, cpc>>
  BY DEF Reject, Ends
<1>2. fate' \in [Tasks -> Fates]  BY <1>1 DEF TasksInv, TypeOK, Fates
<1>3. TypeOK'  BY <1>1, <1>2 DEF TasksInv, TypeOK
<1>4. fate'[t] = "rejected" /\ \A u \in Tasks \ {t} : fate'[u] = fate[u]
  BY <1>1 DEF TasksInv, TypeOK
<1>5. \A u \in Tasks : (Queued(u)' <=> Queued(u)) /\ (Held(u)' <=> Held(u))
  BY <1>1 DEF Queued, Held
<1>6. Once'
  <2>1. \A u \in Tasks : fate'[u] = "accepted" <=> fate[u] = "accepted"  BY <1>1, <1>4
  <2>2. \A i, j \in 1 .. Len(purge_queue') : purge_queue'[i] = purge_queue'[j] => i = j
    BY <1>1 DEF TasksInv, Once
  <2>3. \A v, x \in Workers : task'[v] = task'[x] /\ task'[v] # NoTask => v = x
    BY <1>1 DEF TasksInv, Once
  <2>4. QED  BY <1>5, <2>1, <2>2, <2>3 DEF TasksInv, Once
<1>7. Tried'  BY <1>1, <1>4, <1>5 DEF TasksInv, Tried
<1>8. Working'  BY <1>1 DEF TasksInv, Working
<1>9. QED  BY <1>3, <1>6, <1>7, <1>8 DEF TasksInv

\* The other steps move a worker from place to place ...
Moved(w) == /\ wpc' \in [Workers -> WorkerPlaces] /\ waiting' \subseteq Workers
            /\ \A v \in Workers \ {w} : wpc'[v] = wpc[v] /\ (v \in waiting' => v \in waiting)
            /\ wpc[w] # "work" /\ wpc'[w] # "work"
            /\ w \in waiting' => wpc'[w] = "acquire"

LEMMA MoveTasks ==
  ASSUME TasksInv, NEW w \in Workers,
         Lock(w) \/ Decide(w) \/ Block(w) \/ SpuriousWakeUp(w) \/ Exit(w) \/ Unlock(w) \/ NotifyRetry(w)
  PROVE  TasksInv'
<1>1. UNCHANGED <<purge_queue, tries, task, fate, cpc, stop_signal>>
  BY DEF Lock, Decide, Block, SpuriousWakeUp, Exit, Unlock, NotifyRetry
<1>2. Moved(w)
  <2>1. ASSUME NEW to \in WorkerPlaces \ {"work"}, wpc' = [wpc EXCEPT ![w] = to]
        PROVE  wpc' \in [Workers -> WorkerPlaces] /\ wpc'[w] = to /\ \A v \in Workers \ {w} : wpc'[v] = wpc[v]
    BY <2>1 DEF TasksInv, TypeOK
  <2>2. waiting \subseteq Workers /\ \A v \in Workers : v \in waiting => wpc[v] = "acquire"
    BY DEF TasksInv, TypeOK, Working
  <2>3. Lock(w) => Moved(w)  BY <2>1, <2>2 DEF Lock, WorkerGoes, Moved, WorkerPlaces
  <2>4. Decide(w) => Moved(w)  BY <2>1, <2>2 DEF Decide, WorkerGoes, Moved, WorkerPlaces
  <2>5. Block(w) => Moved(w)  BY <2>1, <2>2 DEF Block, WorkerGoes, Moved, WorkerPlaces
  <2>6. SpuriousWakeUp(w) => Moved(w)
    BY <2>2 DEF SpuriousWakeUp, Moved, WorkerPlaces, TasksInv, TypeOK
  <2>7. Exit(w) => Moved(w)  BY <2>1, <2>2 DEF Exit, WorkerGoes, Moved, WorkerPlaces
  <2>8. Unlock(w) => Moved(w)  BY <2>1, <2>2 DEF Unlock, WorkerGoes, Moved, WorkerPlaces
  <2>9. NotifyRetry(w) => Moved(w)
    BY <2>1, <2>2 DEF NotifyRetry, WorkerGoes, WakeOne, Moved, WorkerPlaces
  <2>10. QED  BY <2>3, <2>4, <2>5, <2>6, <2>7, <2>8, <2>9
<1>3. TypeOK'  BY <1>1, <1>2 DEF Moved, TasksInv, TypeOK
<1>4. Working'  BY <1>1, <1>2 DEF Moved, TasksInv, Working
<1>5. QED  BY <1>1, <1>3, <1>4, TasksStay

\* ... or a caller on its way.
LEMMA CallTasks ==
  ASSUME TasksInv,
         (\E c \in Callers : NotifyAdd(c)) \/ StopBegin \/ StopSet \/ StopWake \/ StopReturn
  PROVE  TasksInv'
<1>1. UNCHANGED <<purge_queue, tries, task, fate, wpc>>
  BY DEF NotifyAdd, StopBegin, StopSet, StopWake, StopReturn
<1>2. waiting' \subseteq waiting
  BY DEF NotifyAdd, StopBegin, StopSet, StopWake, StopReturn, WakeOne
<1>3. stop_signal' \in BOOLEAN
  BY DEF NotifyAdd, StopBegin, StopSet, StopWake, StopReturn, TasksInv, TypeOK
<1>4. \E c \in Callers, to \in CallerPlaces : cpc' = [cpc EXCEPT ![c] = to]
  BY PurgerAssumption DEF NotifyAdd, StopBegin, StopSet, StopWake, StopReturn, CallerGoes, CallerPlaces
<1>5. cpc' \in [Callers -> CallerPlaces]  BY <1>4 DEF TasksInv, TypeOK
<1>6. TypeOK'  BY <1>1, <1>2, <1>3, <1>5 DEF TasksInv, TypeOK
<1>7. Working'  BY <1>1, <1>2 DEF TasksInv, Working
<1>8. QED  BY <1>1, <1>6, <1>7, TasksStay

LEMMA NextTasks == TasksInv /\ [Next]_vars => TasksInv'
<1> SUFFICES ASSUME TasksInv, [Next]_vars PROVE TasksInv'  OBVIOUS
<1>1. ASSUME NEW w \in Workers, WorkerStep(w) \/ SpuriousWakeUp(w) PROVE TasksInv'
  BY <1>1, MoveTasks, PopTasks, ReportTasks, RequeueTasks DEF WorkerStep
<1>2. ASSUME InCall \/ StopBegin PROVE TasksInv'  BY <1>2, CallTasks DEF InCall
<1>3. ASSUME NEW c \in Callers, NEW t \in Tasks, Accept(c, t) \/ Reject(c, t) PROVE TasksInv'
  BY <1>3, AcceptTasks, RejectTasks
<1>4. ASSUME UNCHANGED vars PROVE TasksInv'
  <2>1. UNCHANGED <<purge_queue, tries, task, fate>>  BY <1>4 DEF vars
  <2>2. TypeOK' /\ Working'  BY <1>4 DEF vars, TasksInv, TypeOK, Working
  <2>3. QED  BY <2>1, <2>2, TasksStay
<1>5. QED  BY <1>1, <1>2, <1>3, <1>4 DEF Next, Call, StopSpin, Ended

LEMMA TasksInvariant == Spec => []TasksInv
BY InitTasks, NextTasks, PTL DEF Spec

\* A task that add() accepted is in one place, and once, until it is reported
\* on, and no task is tried more than try_max times.
THEOREM TasksAreKept == Spec => []TaskConserved
<1>1. ASSUME TasksInv PROVE TaskConserved
  <2> SUFFICES ASSUME NEW t \in Tasks
               PROVE  Places(t) = (IF fate[t] = "accepted" THEN 1 ELSE 0) /\ tries[t] <= TryMax
    BY DEF TaskConserved
  <2> DEFINE Q == {i \in DOMAIN purge_queue : purge_queue[i] = t}
             H == {w \in Workers : task[w] = t}
  <2>1. DOMAIN purge_queue = 1 .. Len(purge_queue)  BY <1>1 DEF TasksInv, TypeOK
  <2>2. t # NoTask  BY PurgerAssumption
  <2>3. ASSUME Queued(t) PROVE Cardinality(Q) = 1
    <3>1. PICK i \in 1 .. Len(purge_queue) : purge_queue[i] = t  BY <2>3 DEF Queued
    <3>2. Q = {i}  BY <1>1, <2>1, <3>1 DEF TasksInv, Once
    <3>3. QED  BY <3>2, FS_Singleton
  <2>4. ASSUME ~Queued(t) PROVE Cardinality(Q) = 0
    <3>1. Q = {}  BY <2>1, <2>4 DEF Queued
    <3>2. QED  BY <3>1, FS_EmptySet
  <2>5. ASSUME Held(t) PROVE Cardinality(H) = 1
    <3>1. PICK w \in Workers : task[w] = t  BY <2>5 DEF Held
    <3>2. H = {w}  BY <1>1, <2>2, <3>1 DEF TasksInv, Once
    <3>3. QED  BY <3>2, FS_Singleton
  <2>6. ASSUME ~Held(t) PROVE Cardinality(H) = 0
    <3>1. H = {}  BY <2>6 DEF Held
    <3>2. QED  BY <3>1, FS_EmptySet
  <2>7. /\ ~(Queued(t) /\ Held(t)) /\ (fate[t] = "accepted" <=> Queued(t) \/ Held(t))
        /\ tries[t] <= TryMax
    BY <1>1 DEF TasksInv, Once, Tried
  <2>8. Places(t) = Cardinality(Q) + Cardinality(H)  BY DEF Places
  <2> HIDE DEF Q, H
  <2>9. QED  BY <2>3, <2>4, <2>5, <2>6, <2>7, <2>8
<1>2. QED  BY <1>1, TasksInvariant, PTL

-----------------------------------------------------------------------------
(* The stop. *)

Present == {w \in Workers : wpc[w] \notin {"exit", "gone"}}

\* running_worker counts those present, and stop() has seen it at zero.
StopInv == /\ running_worker = Cardinality(Present)
           /\ cpc[Owner] = "stopped" => running_worker = 0

LEMMA InitStop == Init => StopInv
<1> SUFFICES ASSUME Init PROVE StopInv  OBVIOUS
<1>1. Present = Workers  BY DEF Init, Present
<1>2. cpc[Owner] = "idle"  BY PurgerAssumption DEF Init
<1>3. QED  BY <1>1, <1>2 DEF Init, StopInv

\* A worker that goes from one place to another, neither of them the way out.
LEMMA PresentStays ==
  ASSUME TypeOK, NEW w \in Workers, NEW to, wpc' = [wpc EXCEPT ![w] = to],
         wpc[w] \in {"exit", "gone"} <=> to \in {"exit", "gone"}
  PROVE  Present' = Present
<1>1. \A v \in Workers : wpc'[v] = IF v = w THEN to ELSE wpc[v]  BY DEF TypeOK
<1>2. QED  BY <1>1 DEF Present

LEMMA NextStop == TasksInv /\ StopInv /\ [Next]_vars => StopInv'
<1> SUFFICES ASSUME TasksInv, StopInv, [Next]_vars PROVE StopInv'  OBVIOUS
<1>1. TypeOK  BY DEF TasksInv
<1>2. IsFiniteSet(Present) /\ Cardinality(Present) \in Nat
  <2>1. Present \subseteq Workers /\ IsFiniteSet(Workers)  BY PurgerAssumption DEF Present
  <2>2. QED  BY <2>1, FS_Subset, FS_CardinalityType
<1>3. ASSUME NEW w \in Workers, Exit(w) PROVE StopInv'
  <2>1. /\ wpc[w] = "check" /\ wpc' = [wpc EXCEPT ![w] = "exit"]
        /\ running_worker' = running_worker - 1 /\ cpc' = cpc
    BY <1>3 DEF Exit, WorkerGoes
  <2>2. \A v \in Workers : wpc'[v] = IF v = w THEN "exit" ELSE wpc[v]  BY <1>1, <2>1 DEF TypeOK
  <2>3. w \in Present /\ Present' = Present \ {w}  BY <2>1, <2>2 DEF Present
  <2>4. Cardinality(Present') = Cardinality(Present) - 1  BY <1>2, <2>3, FS_RemoveElement
  <2>5. running_worker # 0
    <3>1. Present # {}  BY <2>3
    <3>2. Cardinality(Present) # 0  BY <1>2, <3>1, FS_EmptySet
    <3>3. QED  BY <3>2 DEF StopInv
  <2>6. QED  BY <2>1, <2>4, <2>5 DEF StopInv
<1>4. ASSUME NEW w \in Workers, Lock(w) \/ Decide(w) \/ Block(w) \/ Unlock(w) \/ Pop(w) \/ Succeed(w)
                                \/ GiveUp(w) \/ Requeue(w) \/ Overflow(w) \/ NotifyRetry(w)
      PROVE  StopInv'
  <2>1. UNCHANGED <<running_worker, cpc>>
    BY <1>4 DEF Lock, Decide, Block, Unlock, Pop, Succeed, GiveUp, Requeue, Overflow, NotifyRetry
  <2>2. \E to : /\ wpc' = [wpc EXCEPT ![w] = to]
                /\ wpc[w] \in {"exit", "gone"} <=> to \in {"exit", "gone"}
    <3>1. \/ WorkerGoes(w, "acquire", "check") \/ WorkerGoes(w, "check", "block")
          \/ WorkerGoes(w, "block", "acquire") \/ WorkerGoes(w, "exit", "gone")
          \/ WorkerGoes(w, "check", "work") \/ WorkerGoes(w, "work", "acquire")
          \/ WorkerGoes(w, "work", "notify") \/ WorkerGoes(w, "notify", "acquire")
      BY <1>4 DEF Lock, Decide, Block, Unlock, Pop, Succeed, GiveUp, Requeue, Overflow, NotifyRetry, Drops
    <3>2. QED  BY <3>1 DEF WorkerGoes
  <2>3. Present' = Present  BY <1>1, <2>2, PresentStays
  <2>4. QED  BY <2>1, <2>3 DEF StopInv
<1>5. ASSUME UNCHANGED <<wpc, running_worker>>, cpc'[Owner] = "stopped" => running_worker = 0 PROVE StopInv'
  BY <1>5 DEF StopInv, Present
<1>6. ASSUME NEW w \in Workers, SpuriousWakeUp(w) PROVE StopInv'
  BY <1>5, <1>6 DEF SpuriousWakeUp, StopInv
<1>7. ASSUME InCall \/ StopBegin PROVE StopInv'
  <2>1. UNCHANGED <<wpc, running_worker>>
    BY <1>7 DEF InCall, NotifyAdd, StopBegin, StopSet, StopWake, StopReturn
  <2>2. cpc \in [Callers -> CallerPlaces] /\ Owner \in Callers  BY <1>1, PurgerAssumption DEF TypeOK
  <2>3. cpc'[Owner] = "stopped" => cpc[Owner] = "stopped" \/ running_worker = 0
    BY <1>7, <2>2 DEF InCall, NotifyAdd, StopBegin, StopSet, StopWake, StopReturn, CallerGoes
  <2>4. QED  BY <1>5, <2>1, <2>3 DEF StopInv
<1>8. ASSUME NEW c \in Callers, NEW t \in Tasks, Accept(c, t) \/ Reject(c, t) PROVE StopInv'
  <2>1. UNCHANGED <<wpc, running_worker>>  BY <1>8 DEF Accept, Reject
  <2>2. cpc'[Owner] = "stopped" => cpc[Owner] = "stopped"
    BY <1>1, <1>8, PurgerAssumption DEF Accept, Reject, CallerGoes, TypeOK
  <2>3. QED  BY <1>5, <2>1, <2>2 DEF StopInv
<1>9. ASSUME UNCHANGED vars PROVE StopInv'  BY <1>5, <1>9 DEF vars, StopInv
<1>10. QED
  BY <1>3, <1>4, <1>6, <1>7, <1>8, <1>9 DEF Next, WorkerStep, Call, StopSpin, Ended

\* When stop() has returned no worker sleeps, has a task or will look at the
\* queue again.
THEOREM StopIsQuiet == Spec => []QuietAfterStop
<1>1. ASSUME TasksInv, StopInv PROVE QuietAfterStop
  <2> SUFFICES ASSUME cpc[Owner] = "stopped"
               PROVE  waiting = {} /\ \A w \in Workers : wpc[w] \in {"exit", "gone"} /\ task[w] = NoTask
    BY DEF QuietAfterStop
  <2>1. IsFiniteSet(Present)  BY PurgerAssumption, FS_Subset, Present \subseteq Workers DEF Present
  <2>2. Present = {}  BY <1>1, <2>1, FS_EmptySet DEF StopInv
  <2>3. \A w \in Workers : wpc[w] \in {"exit", "gone"}  BY <2>2 DEF Present
  <2>4. QED  BY <1>1, <2>3 DEF TasksInv, TypeOK, Working
<1>2. QED  BY <1>1, TasksInvariant, InitStop, NextStop, PTL DEF Spec

-----------------------------------------------------------------------------
(* Wake-ups.                                                               *)

\* The mutex is held by the worker whose critical section was taken apart,
\* and what it has decided by stays true until it blocks.
LockInv == \A w \in Workers : /\ wpc[w] \in {"check", "block", "exit"} <=> queue_lock = w
                              /\ wpc[w] = "block" => purge_queue = <<>>

LEMMA InitLock == Init => LockInv
BY PurgerAssumption DEF Init, LockInv

LEMMA NextLock == TypeOK /\ LockInv /\ [Next]_vars => LockInv'
<1> SUFFICES ASSUME TypeOK, LockInv, [Next]_vars PROVE LockInv'
  OBVIOUS
<1>1. ASSUME NEW w \in Workers, NEW to, wpc' = [wpc EXCEPT ![w] = to]
      PROVE  wpc'[w] = to /\ \A v \in Workers \ {w} : wpc'[v] = wpc[v]
  BY <1>1 DEF TypeOK
<1> USE PurgerAssumption DEF WorkerGoes, Free, LockInv
<1>2. ASSUME NEW w \in Workers, Lock(w) PROVE LockInv'  BY <1>1, <1>2 DEF Lock
<1>3. ASSUME NEW w \in Workers, Decide(w) PROVE LockInv'  BY <1>1, <1>3 DEF Decide
<1>4. ASSUME NEW w \in Workers, Block(w) \/ Unlock(w) PROVE LockInv'
  <2>1. \E to \in {"acquire", "gone"} : wpc' = [wpc EXCEPT ![w] = to]  BY <1>4 DEF Block, Unlock
  <2>2. wpc'[w] \in {"acquire", "gone"} /\ \A v \in Workers \ {w} : wpc'[v] = wpc[v]
    BY <1>1, <2>1
  <2>3. queue_lock = w /\ queue_lock' = Nobody /\ purge_queue' = purge_queue
    BY <1>4 DEF Block, Unlock
  <2>4. QED  BY <2>2, <2>3
<1>5. ASSUME NEW w \in Workers, Exit(w) PROVE LockInv'  BY <1>1, <1>5 DEF Exit
<1>6. ASSUME NEW w \in Workers, Pop(w) PROVE LockInv'  BY <1>1, <1>6 DEF Pop
<1>7. ASSUME NEW w \in Workers, Succeed(w) \/ GiveUp(w) \/ Overflow(w) \/ NotifyRetry(w)
      PROVE  LockInv'
  BY <1>1, <1>7 DEF Succeed, GiveUp, Overflow, NotifyRetry, Drops
<1>8. ASSUME NEW w \in Workers, Requeue(w) PROVE LockInv'
  BY <1>1, <1>8 DEF Requeue, Drops
<1>9. ASSUME NEW c \in Callers, NEW t \in Tasks, Accept(c, t) PROVE LockInv'
  BY <1>9 DEF Accept
<1>10. ASSUME UNCHANGED <<purge_queue, queue_lock, wpc>> PROVE LockInv'
  BY <1>10
<1>11. (\E w \in Workers : SpuriousWakeUp(w)) \/ InCall \/ StopSpin \/ StopBegin \/ Ended
         \/ (\E c \in Callers, t \in Tasks : Reject(c, t)) \/ UNCHANGED vars
       => UNCHANGED <<purge_queue, queue_lock, wpc>>
  BY DEF SpuriousWakeUp, InCall, NotifyAdd, StopSet, StopWake, StopReturn, StopSpin, StopBegin, Ended,
         Reject, vars
<1>12. QED
  BY <1>2, <1>3, <1>4, <1>5, <1>6, <1>7, <1>8, <1>9, <1>10, <1>11 DEF Next, WorkerStep, Call

\* The threads that will look at the queue, or wake one that will.
Alert == OnTheWay \union Announced

LEMMA AlertIsFinite == IsFiniteSet(Alert) /\ Cardinality(Alert) \in Nat
<1>1. IsFiniteSet(Workers \union Callers)  BY PurgerAssumption, FS_Union
<1>2. Alert \subseteq Workers \union Callers  BY DEF Alert, OnTheWay, Announced
<1>3. QED  BY <1>1, <1>2, FS_Subset, FS_CardinalityType

\* How its number changes: with one who joins, and with one who leaves when
\* another joins.
LEMMA AlertJoined ==
  ASSUME NEW x, x \notin Alert, Alert' = Alert \union {x}
  PROVE  Cardinality(Alert') = Cardinality(Alert) + 1
BY AlertIsFinite, FS_AddElement

LEMMA AlertLeft ==
  ASSUME NEW x, x \in Alert, Alert' = Alert \ {x}
  PROVE  Cardinality(Alert') = Cardinality(Alert) - 1
BY AlertIsFinite, FS_RemoveElement

LEMMA AlertGrown ==
  ASSUME Alert \subseteq Alert'
  PROVE  Cardinality(Alert) <= Cardinality(Alert')
<1>1. IsFiniteSet(Alert')
  <2>1. IsFiniteSet(Workers \union Callers)  BY PurgerAssumption, FS_Union
  <2>2. Alert' \subseteq Workers \union Callers  BY DEF Alert, OnTheWay, Announced
  <2>3. QED  BY <2>1, <2>2, FS_Subset
<1>2. QED  BY <1>1, FS_Subset

LEMMA AlertSwapped ==
  ASSUME NEW x, NEW y, x \in Alert, y \notin Alert, Alert' = (Alert \ {x}) \union {y}
  PROVE  Cardinality(Alert') = Cardinality(Alert)
<1>1. IsFiniteSet(Alert \ {x}) /\ Cardinality(Alert \ {x}) = Cardinality(Alert) - 1
  BY AlertIsFinite, FS_RemoveElement
<1>2. y \notin Alert \ {x}  OBVIOUS
<1>3. Cardinality(Alert') = Cardinality(Alert \ {x}) + 1  BY <1>1, <1>2, FS_AddElement
<1>4. QED  BY <1>1, <1>3, AlertIsFinite

\* A worker that is not asleep goes on.
LEMMA WorkerAlert ==
  ASSUME TypeOK, Working, NEW w \in Workers, NEW to, wpc' = [wpc EXCEPT ![w] = to],
         w \notin waiting, UNCHANGED <<waiting, cpc>>
  PROVE  /\ Alert' = IF to \in {"acquire", "check", "notify"} THEN Alert \union {w} ELSE Alert \ {w}
         /\ w \in Alert <=> wpc[w] \in {"acquire", "check", "notify"}
<1>1. wpc'[w] = to /\ \A v \in Workers \ {w} : wpc'[v] = wpc[v]  BY DEF TypeOK
<1>2. w \notin Callers  BY PurgerAssumption
<1>3. QED  BY <1>1, <1>2 DEF Alert, OnTheWay, Announced

\* A caller does.
LEMMA CallerAlert ==
  ASSUME TypeOK, NEW c \in Callers, NEW to, cpc' = [cpc EXCEPT ![c] = to], UNCHANGED <<waiting, wpc>>
  PROVE  /\ Alert' = IF to = "notify" THEN Alert \union {c} ELSE Alert \ {c}
         /\ c \in Alert <=> cpc[c] = "notify"
<1>1. cpc'[c] = to /\ \A d \in Callers \ {c} : cpc'[d] = cpc[d]  BY DEF TypeOK
<1>2. c \notin Workers  BY PurgerAssumption
<1>3. QED  BY <1>1, <1>2 DEF Alert, OnTheWay, Announced

LEMMA InitAwake == Init => NoLostWakeUp
BY DEF Init, NoLostWakeUp

LEMMA NextAwake == TasksInv /\ LockInv /\ NoLostWakeUp /\ [Next]_vars => NoLostWakeUp'
<1> SUFFICES ASSUME TasksInv, LockInv, NoLostWakeUp, [Next]_vars, waiting' # {}, ~stop_signal'
             PROVE  Len(purge_queue') <= Cardinality(Alert')
  BY DEF NoLostWakeUp, Alert
<1>1. TypeOK /\ Working /\ purge_queue \in Seq(Tasks) /\ Len(purge_queue) \in Nat
  BY DEF TasksInv, TypeOK
<1>2. waiting # {} /\ ~stop_signal => Len(purge_queue) <= Cardinality(Alert)
  BY DEF NoLostWakeUp, Alert
<1>3. Cardinality(Alert) \in Nat /\ Cardinality(Alert') \in Nat
  <2>1. Cardinality(Alert) \in Nat  BY AlertIsFinite
  <2>2. IsFiniteSet(Alert')
    <3>1. IsFiniteSet(Workers \union Callers)  BY PurgerAssumption, FS_Union
    <3>2. Alert' \subseteq Workers \union Callers  BY DEF Alert, OnTheWay, Announced
    <3>3. QED  BY <3>1, <3>2, FS_Subset
  <2>3. QED  BY <2>1, <2>2, FS_CardinalityType
<1> DEFINE Goal == Len(purge_queue') <= Cardinality(Alert')
\* Nobody more asleep, nothing more queued, nobody less alert.
<1>4. ASSUME waiting # {}, ~stop_signal, purge_queue' = purge_queue, Alert \subseteq Alert' PROVE Goal
  BY <1>1, <1>2, <1>3, <1>4, AlertGrown
<1>5. ASSUME NEW w \in Workers, Lock(w) PROVE Goal
  BY <1>1, <1>4, <1>5, WorkerAlert DEF Lock, WorkerGoes
<1>6. ASSUME NEW w \in Workers, Decide(w) \/ Block(w) PROVE Goal
  <2>1. purge_queue' = <<>>  BY <1>6 DEF Decide, Block, LockInv, WorkerGoes
  <2>2. QED  BY <1>3, <2>1
<1>7. ASSUME NEW w \in Workers, SpuriousWakeUp(w) PROVE Goal
  <2>1. waiting' \subseteq waiting /\ UNCHANGED <<purge_queue, wpc, cpc, stop_signal>>
    BY <1>7 DEF SpuriousWakeUp
  <2>2. QED  BY <1>4, <2>1 DEF Alert, OnTheWay, Announced
<1>8. ASSUME NEW w \in Workers, Exit(w) PROVE Goal
  BY <1>8 DEF Exit
<1>9. ASSUME NEW w \in Workers, Unlock(w) PROVE Goal
  <2>1. w \notin waiting  BY <1>1, <1>9 DEF Unlock, WorkerGoes, Working
  <2>2. w \notin Alert /\ Alert' = Alert \ {w}
    BY <1>1, <1>9, <2>1, WorkerAlert DEF Unlock, WorkerGoes
  <2>3. QED  BY <1>4, <1>9, <2>2 DEF Unlock
<1>10. ASSUME NEW w \in Workers, Pop(w) PROVE Goal
  <2>1. /\ wpc[w] = "check" /\ wpc' = [wpc EXCEPT ![w] = "work"] /\ waiting # {} /\ ~stop_signal
        /\ purge_queue # <<>> /\ purge_queue' = Tail(purge_queue) /\ UNCHANGED <<waiting, cpc>>
    BY <1>10 DEF Pop, WorkerGoes
  <2>2. w \notin waiting  BY <1>1, <2>1 DEF Working
  <2>3. w \in Alert /\ Alert' = Alert \ {w}
    <3>1. w \in Alert  BY <2>1, <2>2 DEF Alert, OnTheWay
    <3>2. Alert' = IF "work" \in {"acquire", "check", "notify"} THEN Alert \union {w} ELSE Alert \ {w}
      BY <1>1, <2>1, <2>2, WorkerAlert
    <3>3. QED  BY <3>1, <3>2
  <2>4. Len(purge_queue') = Len(purge_queue) - 1  BY <1>1, <2>1
  <2>5. Cardinality(Alert') = Cardinality(Alert) - 1  BY <2>3, AlertLeft
  <2>6. QED  BY <1>1, <1>2, <1>3, <2>1, <2>4, <2>5
<1>11. ASSUME NEW w \in Workers, Succeed(w) \/ GiveUp(w) \/ Overflow(w) PROVE Goal
  <2>1. /\ wpc[w] = "work" /\ wpc' = [wpc EXCEPT ![w] = "acquire"]
        /\ UNCHANGED <<purge_queue, waiting, cpc, stop_signal>>
    BY <1>11 DEF Succeed, GiveUp, Overflow, Drops, WorkerGoes
  <2>2. w \notin waiting  BY <1>1, <2>1 DEF Working
  <2>3. Alert' = Alert \union {w}  BY <1>1, <2>1, <2>2, WorkerAlert
  <2>4. QED  BY <1>4, <2>1, <2>3
<1>12. ASSUME NEW w \in Workers, Requeue(w) PROVE Goal
  <2>1. /\ wpc[w] = "work" /\ wpc' = [wpc EXCEPT ![w] = "notify"] /\ task[w] # NoTask
        /\ UNCHANGED <<waiting, cpc, stop_signal>>
    BY <1>1, <1>12 DEF Requeue, Drops, WorkerGoes, Working
  <2>2. w \notin waiting  BY <1>1, <2>1 DEF Working
  <2>3. w \notin Alert /\ Alert' = Alert \union {w}  BY <1>1, <2>1, <2>2, WorkerAlert
  <2>4. Len(purge_queue') = Len(purge_queue) + 1
    BY <1>1, <1>12, <2>1 DEF Requeue, TypeOK
  <2>5. Cardinality(Alert') = Cardinality(Alert) + 1  BY <2>3, AlertJoined
  <2>6. QED  BY <1>1, <1>2, <1>3, <2>1, <2>4, <2>5
\* The worker that wakes another goes to the queue itself.
<1>13. ASSUME NEW w \in Workers, NotifyRetry(w) PROVE Goal
  <2>1. /\ wpc[w] = "notify" /\ wpc' = [wpc EXCEPT ![w] = "acquire"] /\ waiting' \subseteq waiting
        /\ UNCHANGED <<purge_queue, cpc, stop_signal>>
    BY <1>13 DEF NotifyRetry, WorkerGoes, WakeOne
  <2>2. w \notin waiting  BY <1>1, <2>1 DEF Working
  <2>3. wpc'[w] = "acquire" /\ \A v \in Workers \ {w} : wpc'[v] = wpc[v]  BY <1>1, <2>1 DEF TypeOK
  <2>4. Alert \subseteq Alert'  BY <2>1, <2>2, <2>3 DEF Alert, OnTheWay, Announced
  <2>5. QED  BY <1>4, <2>1, <2>4
<1>14. ASSUME NEW c \in Callers, NEW t \in Tasks, Accept(c, t) PROVE Goal
  <2>1. /\ cpc[c] = "idle" /\ cpc' = [cpc EXCEPT ![c] = "notify"]
        /\ purge_queue' = Append(purge_queue, t) /\ UNCHANGED <<waiting, wpc, stop_signal>>
    BY <1>14 DEF Accept, CallerGoes
  <2>2. c \notin Alert /\ Alert' = Alert \union {c}  BY <1>1, <2>1, CallerAlert
  <2>3. Len(purge_queue') = Len(purge_queue) + 1  BY <1>1, <2>1
  <2>4. Cardinality(Alert') = Cardinality(Alert) + 1  BY <2>2, AlertJoined
  <2>5. QED  BY <1>1, <1>2, <1>3, <2>1, <2>3, <2>4
\* The caller that wakes a worker is replaced by it.
<1>15. ASSUME NEW c \in Callers, NotifyAdd(c) PROVE Goal
  <2>1. /\ cpc[c] = "notify" /\ cpc' = [cpc EXCEPT ![c] = "idle"] /\ waiting # {}
        /\ UNCHANGED <<purge_queue, wpc, stop_signal>>
    BY <1>15 DEF NotifyAdd, CallerGoes, WakeOne
  <2>2. PICK v \in waiting : waiting' = waiting \ {v}
    BY <1>15, <2>1 DEF NotifyAdd, WakeOne
  <2>3. v \in Workers /\ wpc[v] = "acquire" /\ v \notin Callers
    BY <1>1, PurgerAssumption DEF TypeOK, Working
  <2>4. cpc'[c] = "idle" /\ \A d \in Callers \ {c} : cpc'[d] = cpc[d]  BY <1>1, <2>1 DEF TypeOK
  <2>5. c \notin Workers  BY PurgerAssumption
  <2>6. c \in Alert /\ v \notin Alert
    BY <2>1, <2>3, <2>5 DEF Alert, OnTheWay, Announced
  <2>7. OnTheWay' = OnTheWay \union {v}  BY <2>1, <2>2, <2>3 DEF OnTheWay
  <2>8. Announced' = Announced \ {c}  BY <2>1, <2>4, <2>5 DEF Announced
  <2>9. c \notin OnTheWay /\ c # v  BY <2>3, <2>5 DEF OnTheWay
  <2>10. Alert' = (Alert \ {c}) \union {v}  BY <2>7, <2>8, <2>9 DEF Alert
  <2>11. QED  BY <1>1, <1>2, <1>3, <2>1, <2>6, <2>10, AlertSwapped
<1>16. ASSUME UNCHANGED <<purge_queue, waiting, wpc, stop_signal>>,
              \A c \in Callers : cpc[c] = "notify" => cpc'[c] = "notify"
       PROVE  Goal
  BY <1>4, <1>16 DEF Alert, OnTheWay, Announced
<1>17. ASSUME StopBegin \/ StopReturn PROVE Goal
  <2>1. cpc \in [Callers -> CallerPlaces] /\ Owner \in Callers  BY <1>1, PurgerAssumption DEF TypeOK
  <2>2. QED  BY <1>16, <1>17, <2>1 DEF StopBegin, StopReturn, CallerGoes
<1>18. ASSUME NEW c \in Callers, NEW t \in Tasks, Reject(c, t) PROVE Goal
  BY <1>16, <1>18 DEF Reject
<1>19. ASSUME UNCHANGED vars PROVE Goal  BY <1>16, <1>19 DEF vars
<1>20. ~StopSet /\ ~StopWake  BY DEF StopSet, StopWake
<1> HIDE DEF Goal
<1>21. ASSUME NEW w \in Workers, WorkerStep(w) \/ SpuriousWakeUp(w) PROVE Goal
  BY <1>5, <1>6, <1>7, <1>8, <1>9, <1>10, <1>11, <1>12, <1>13, <1>21 DEF WorkerStep
<1>22. ASSUME InCall \/ Call PROVE Goal
  BY <1>14, <1>15, <1>17, <1>18, <1>20, <1>22 DEF InCall, Call
<1>23. ASSUME StopSpin \/ Ended PROVE Goal  BY <1>19, <1>23 DEF StopSpin, Ended
<1>24. Goal  BY <1>19, <1>21, <1>22, <1>23 DEF Next
<1>25. QED  BY <1>24 DEF Goal

\* No wake-up is lost: while a worker sleeps, each queued task has a worker on
\* its way to the queue, or one that will be woken.
THEOREM WakeUpsArrive == Spec => []NoLostWakeUp
<1>1. TasksInv => TypeOK  BY DEF TasksInv
<1>2. QED
  BY <1>1, TasksInvariant, InitLock, NextLock, InitAwake, NextAwake, PTL DEF Spec
=============================================================================
