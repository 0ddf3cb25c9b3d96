------------------------------ MODULE IoProofs ------------------------------
(***************************************************************************)
(* The safety of the two components that run an asio context.              *)
(*                                                                         *)
(* The file deleter, for any number of threads and files: where each file  *)
(* is, what the two counters count, and what the owner knows at each place *)
(* of stop().  The receiver, for any datagrams and any number of stops:    *)
(* its chain of receives does not end while it runs, and is a single one   *)
(* until the first stop.                                                   *)
(***************************************************************************)
EXTENDS AsyncDeleter, Receiver, FiniteSetTheorems, SequenceTheorems, TLAPS

-----------------------------------------------------------------------------
(* The deleter.                                                            *)

ThreadPlaces == {"none", "start", "run", "remove", "count", "notify", "finish", "left"}
OwnerPlaces == {"idle", "post", "lock", "check", "join", "force", "terminated", "destroyed"}
Busy == {"remove", "count", "notify", "finish"}

TypeOK == /\ posted \subseteq Files /\ unfinished \subseteq Files /\ removed \subseteq Files
          /\ tpc \in [Threads -> ThreadPlaces] /\ file \in [Threads -> Files \union {NoFile}]
          /\ opc \in OwnerPlaces /\ returns \in {"idle", "destroyed"}

\* A submitted file is posted, then in the hands of one thread, which tries it
\* once, then finished.
Placed ==
  /\ posted \subseteq unfinished \ removed
  /\ \A t \in Threads : IF tpc[t] \in Busy THEN file[t] \in unfinished \ posted ELSE file[t] = NoFile
  /\ \A t, u \in Threads : t # u /\ file[t] # NoFile => file[t] # file[u]
  /\ \A f \in unfinished : f \in posted \/ \E t \in Threads : file[t] = f
  /\ \A t \in Threads : tpc[t] \in Busy => (file[t] \in removed <=> tpc[t] # "remove")
  /\ opc = "post" => submitting \in Files \ (unfinished \union removed)

FilesInv == TypeOK /\ Placed

-----------------------------------------------------------------------------
(* Where the files are.                                                    *)

LEMMA InitFiles == Init => FilesInv
BY DEF Init, FilesInv, TypeOK, Placed, ThreadPlaces, OwnerPlaces, Busy

LEMMA ThreadMoves ==
  ASSUME TypeOK, NEW t \in Threads, NEW to \in ThreadPlaces, tpc' = [tpc EXCEPT ![t] = to]
  PROVE  /\ tpc' \in [Threads -> ThreadPlaces] /\ tpc'[t] = to
         /\ \A u \in Threads \ {t} : tpc'[u] = tpc[u]
BY DEF TypeOK

\* A thread that keeps its file, and the file where it is.
LEMMA KeepsFile ==
  ASSUME FilesInv, NEW t \in Threads, NEW to \in ThreadPlaces, tpc' = [tpc EXCEPT ![t] = to],
         tpc[t] \in Busy <=> to \in Busy, tpc[t] = "remove" <=> to = "remove",
         UNCHANGED <<posted, unfinished, removed, file, opc, submitting, returns>>
  PROVE  FilesInv'
<1>1. /\ tpc' \in [Threads -> ThreadPlaces] /\ tpc'[t] = to
      /\ \A u \in Threads \ {t} : tpc'[u] = tpc[u]
  BY ThreadMoves DEF FilesInv
<1>2. TypeOK'  BY <1>1 DEF FilesInv, TypeOK
<1>3. \A u \in Threads : (tpc'[u] \in Busy <=> tpc[u] \in Busy) /\ (tpc'[u] = "remove" <=> tpc[u] = "remove")
  BY <1>1
<1>4. Placed'  BY <1>3 DEF FilesInv, Placed
<1>5. QED  BY <1>2, <1>4 DEF FilesInv

LEMMA TakeFiles ==
  ASSUME FilesInv, NEW t \in Threads, NEW f \in Files, Take(t, f) PROVE FilesInv'
<1>1. /\ tpc[t] = "run" /\ tpc' = [tpc EXCEPT ![t] = "remove"] /\ f \in posted
      /\ posted' = posted \ {f} /\ file' = [file EXCEPT ![t] = f]
      /\ UNCHANGED <<unfinished, removed, opc, submitting, returns>>
  BY DEF Take, ThreadGoes, call
<1>2. /\ tpc' \in [Threads -> ThreadPlaces] /\ tpc'[t] = "remove"
      /\ \A u \in Threads \ {t} : tpc'[u] = tpc[u]
  BY <1>1, ThreadMoves DEF FilesInv, ThreadPlaces
<1>3. /\ file' \in [Threads -> Files \union {NoFile}] /\ file'[t] = f
      /\ \A u \in Threads \ {t} : file'[u] = file[u]
  BY <1>1 DEF FilesInv, TypeOK
<1>4. TypeOK'  BY <1>1, <1>2, <1>3 DEF FilesInv, TypeOK
<1>5. Placed /\ f # NoFile /\ "remove" \in Busy /\ "run" \notin Busy /\ posted \subseteq Files
  BY DeleterAssumption DEF FilesInv, Busy, TypeOK
<1>6. f \in unfinished /\ f \notin removed /\ \A u \in Threads : file[u] # f
  <2>1. f \in unfinished \ removed  BY <1>1, <1>5 DEF Placed
  <2>2. \A u \in Threads : file[u] \notin posted  BY <1>5, DeleterAssumption DEF Placed
  <2>3. QED  BY <1>1, <2>1, <2>2
<1>7. \A u \in Threads : IF tpc'[u] \in Busy THEN file'[u] \in unfinished \ posted' ELSE file'[u] = NoFile
  BY <1>1, <1>2, <1>3, <1>5, <1>6 DEF Placed
<1>8. \A u, v \in Threads : u # v /\ file'[u] # NoFile => file'[u] # file'[v]
  BY <1>3, <1>5, <1>6 DEF Placed
<1>9. \A g \in unfinished : g \in posted' \/ \E u \in Threads : file'[u] = g
  <2> SUFFICES ASSUME NEW g \in unfinished, g \notin posted' PROVE \E u \in Threads : file'[u] = g
    OBVIOUS
  <2>1. CASE g = f  BY <1>3, <2>1
  <2>2. CASE g # f
    <3>1. PICK u \in Threads : file[u] = g  BY <1>1, <1>5, <2>2 DEF Placed
    <3>2. u # t  BY <1>1, <1>5, <3>1, DeleterAssumption DEF Placed, FilesInv, TypeOK
    <3>3. QED  BY <1>3, <3>1, <3>2
  <2>3. QED  BY <2>1, <2>2
<1>10. \A u \in Threads : tpc'[u] \in Busy => (file'[u] \in removed <=> tpc'[u] # "remove")
  BY <1>2, <1>3, <1>5, <1>6 DEF Placed
<1>11. Placed'  BY <1>1, <1>5, <1>7, <1>8, <1>9, <1>10 DEF Placed
<1>12. QED  BY <1>4, <1>11 DEF FilesInv

LEMMA RemoveFiles == ASSUME FilesInv, NEW t \in Threads, Remove(t) PROVE FilesInv'
<1>1. /\ tpc[t] = "remove" /\ tpc' = [tpc EXCEPT ![t] = "count"] /\ removed' = removed \union {file[t]}
      /\ UNCHANGED <<posted, unfinished, file, opc, submitting, returns>>
  BY DEF Remove, ThreadGoes, call
<1>2. /\ tpc' \in [Threads -> ThreadPlaces] /\ tpc'[t] = "count"
      /\ \A u \in Threads \ {t} : tpc'[u] = tpc[u]
  BY <1>1, ThreadMoves DEF FilesInv, ThreadPlaces
<1>3. Placed /\ tpc[t] \in Busy /\ "count" \in Busy /\ file[t] \in unfinished \ posted
  BY <1>1 DEF FilesInv, Placed, Busy
<1>4. file[t] \in Files /\ file[t] # NoFile
  BY <1>3, DeleterAssumption DEF FilesInv, TypeOK
<1>5. TypeOK'  BY <1>1, <1>2, <1>4 DEF FilesInv, TypeOK
<1>6. \A u \in Threads \ {t} : file[u] # file[t]  BY <1>3, <1>4 DEF Placed
<1>7. \A u \in Threads : tpc'[u] \in Busy => (file[u] \in removed' <=> tpc'[u] # "remove")
  BY <1>1, <1>2, <1>3, <1>6 DEF Placed
<1>8. \A u \in Threads : tpc'[u] \in Busy <=> tpc[u] \in Busy  BY <1>2, <1>3
<1>9. opc = "post" => submitting # file[t]  BY <1>3 DEF Placed
<1>10. Placed'  BY <1>1, <1>3, <1>7, <1>8, <1>9 DEF Placed
<1>11. QED  BY <1>5, <1>10 DEF FilesInv

LEMMA FinishFiles == ASSUME FilesInv, NEW t \in Threads, Finish(t) PROVE FilesInv'
<1>1. /\ tpc[t] = "finish" /\ tpc' = [tpc EXCEPT ![t] = "run"]
      /\ unfinished' = unfinished \ {file[t]} /\ file' = [file EXCEPT ![t] = NoFile]
      /\ UNCHANGED <<posted, removed, opc, submitting, returns>>
  BY DEF Finish, ThreadGoes, call
<1>2. /\ tpc' \in [Threads -> ThreadPlaces] /\ tpc'[t] = "run"
      /\ \A u \in Threads \ {t} : tpc'[u] = tpc[u]
  BY <1>1, ThreadMoves DEF FilesInv, ThreadPlaces
<1>3. /\ file' \in [Threads -> Files \union {NoFile}] /\ file'[t] = NoFile
      /\ \A u \in Threads \ {t} : file'[u] = file[u]
  BY <1>1 DEF FilesInv, TypeOK
<1>4. TypeOK'  BY <1>1, <1>2, <1>3 DEF FilesInv, TypeOK
<1>5. Placed /\ "run" \notin Busy /\ file[t] \in unfinished \ posted
  BY <1>1 DEF FilesInv, Placed, Busy
<1>6. file[t] # NoFile /\ \A u \in Threads \ {t} : file[u] # file[t]
  BY <1>5, DeleterAssumption DEF FilesInv, TypeOK, Placed
<1>7. \A u \in Threads : IF tpc'[u] \in Busy THEN file'[u] \in unfinished' \ posted ELSE file'[u] = NoFile
  BY <1>1, <1>2, <1>3, <1>5, <1>6 DEF Placed
<1>8. \A u, v \in Threads : u # v /\ file'[u] # NoFile => file'[u] # file'[v]
  BY <1>3, <1>5 DEF Placed
<1>9. \A g \in unfinished' : g \in posted \/ \E u \in Threads : file'[u] = g
  BY <1>1, <1>3, <1>5 DEF Placed
<1>10. \A u \in Threads : tpc'[u] \in Busy => (file'[u] \in removed <=> tpc'[u] # "remove")
  BY <1>2, <1>3, <1>5 DEF Placed
<1>11. posted \subseteq unfinished' \ removed  BY <1>1, <1>5 DEF Placed
<1>12. Placed'  BY <1>1, <1>5, <1>7, <1>8, <1>9, <1>10, <1>11 DEF Placed
<1>13. QED  BY <1>4, <1>12 DEF FilesInv

LEMMA ThreadFiles == ASSUME FilesInv, NEW t \in Threads, ThreadStep(t) PROVE FilesInv'
<1> USE DEF ThreadGoes, ThreadPlaces, Busy
<1>1. CASE Start(t)  BY <1>1, KeepsFile DEF Start, jobs, call
<1>2. CASE CountOff(t)
  <2>1. \E to \in {"notify", "finish"} : tpc' = [tpc EXCEPT ![t] = to]  BY <1>2 DEF CountOff
  <2>2. tpc[t] = "count" /\ UNCHANGED <<posted, unfinished, removed, file, opc, submitting, returns>>
    BY <1>2 DEF CountOff, call
  <2>3. QED  BY <2>1, <2>2, KeepsFile
<1>3. CASE Notify(t)  BY <1>3, KeepsFile DEF Notify, jobs, call
<1>4. CASE Leave(t)  BY <1>4, KeepsFile DEF Leave, jobs, call
<1>5. QED
  BY <1>1, <1>2, <1>3, <1>4, TakeFiles, RemoveFiles, FinishFiles DEF ThreadStep

\* The owner moves files only in submit().
LEMMA OwnerFiles ==
  ASSUME FilesInv, UNCHANGED <<posted, unfinished, removed, file, submitting>>,
         \/ tpc' = tpc
         \/ /\ \A t \in Threads : tpc[t] \notin Busy
            /\ tpc' \in [Threads -> ThreadPlaces \ Busy],
         opc' \in OwnerPlaces \ {"post"}, returns' \in {"idle", "destroyed"}
  PROVE  FilesInv'
<1>1. TypeOK'  BY DEF FilesInv, TypeOK
<1>2. \A t \in Threads : (tpc'[t] \in Busy <=> tpc[t] \in Busy) /\ (tpc'[t] \in Busy => tpc'[t] = tpc[t])
  OBVIOUS
<1>3. Placed'  BY <1>2 DEF FilesInv, Placed
<1>4. QED  BY <1>1, <1>3 DEF FilesInv

LEMMA SubmitFiles ==
  ASSUME FilesInv, (\E f \in Files : Submit(f)) \/ Post PROVE FilesInv'
<1>1. ASSUME NEW f \in Files, Submit(f) PROVE FilesInv'
  <2>1. /\ f \notin unfinished \union removed /\ submitting' = f /\ opc' = "post"
        /\ UNCHANGED <<posted, unfinished, removed, tpc, file, returns>>
    BY <1>1 DEF Submit, OwnerGoes, pool
  <2>2. TypeOK'  BY <2>1 DEF FilesInv, TypeOK, OwnerPlaces
  <2>3. Placed'  BY <2>1 DEF FilesInv, Placed
  <2>4. QED  BY <2>2, <2>3 DEF FilesInv
<1>2. CASE Post
  <2>1. /\ opc = "post" /\ opc' = "idle" /\ posted' = posted \union {submitting}
        /\ unfinished' = unfinished \union {submitting} /\ UNCHANGED <<removed, tpc, file, returns>>
    BY <1>2 DEF Post, OwnerGoes, pool
  <2>2. Placed /\ submitting \in Files \ (unfinished \union removed) /\ unfinished \subseteq Files
    BY <2>1 DEF FilesInv, Placed, TypeOK
  <2>3. TypeOK'  BY <2>1, <2>2 DEF FilesInv, TypeOK, OwnerPlaces
  <2>4. \A t \in Threads : tpc[t] \in Busy => file[t] # submitting  BY <2>2 DEF Placed
  <2>5. Placed'  BY <2>1, <2>2, <2>4 DEF Placed
  <2>6. QED  BY <2>3, <2>5 DEF FilesInv
<1>3. QED  BY <1>1, <1>2


LEMMA StepFiles == FilesInv /\ [Next]_vars => FilesInv'
<1> SUFFICES ASSUME FilesInv, [Next]_vars PROVE FilesInv'
  OBVIOUS
<1> USE DEF OwnerGoes, OwnerPlaces, jobs, pool, call
<1>1. returns \in {"idle", "destroyed"}  BY DEF FilesInv, TypeOK
<1>2. CASE LockOwner \/ Wait \/ StopContext \/ ForceContext \/ Stop
  BY <1>1, <1>2, OwnerFiles DEF LockOwner, Wait, StopContext, ForceContext, Stop, ReleaseGuard
<1>3. ASSUME NEW then \in {"idle", "destroyed"}, ForceStop(then) PROVE FilesInv'
  BY <1>3, OwnerFiles DEF ForceStop, ReleaseGuard
<1>4. CASE Join
  <2>1. /\ tpc' = [t \in Threads |-> "none"] /\ \A t \in Threads : tpc[t] \in {"none", "left"}
        /\ opc' \in {"idle", "destroyed"}
        /\ UNCHANGED <<posted, unfinished, removed, file, submitting, returns>>
    BY <1>1, <1>4 DEF Join
  <2>2. tpc' \in [Threads -> ThreadPlaces \ Busy] /\ \A t \in Threads : tpc[t] \notin Busy
    BY <2>1 DEF ThreadPlaces, Busy
  <2>3. QED  BY <1>1, <2>1, <2>2, OwnerFiles
<1>5. CASE Run
  <2>1. UNCHANGED <<posted, unfinished, removed, file, submitting, returns>>  BY <1>5 DEF Run
  <2>2. CASE PoolExists
    BY <1>1, <1>5, <2>1, <2>2, OwnerFiles DEF Run
  <2>3. CASE ~PoolExists
    <3>1. tpc' = [t \in Threads |-> "start"] /\ opc' = "idle"  BY <1>5, <2>3 DEF Run
    <3>2. tpc' \in [Threads -> ThreadPlaces \ Busy] /\ \A t \in Threads : tpc[t] \notin Busy
      BY <2>3, <3>1 DEF PoolExists, ThreadPlaces, Busy
    <3>3. QED  BY <1>1, <2>1, <3>1, <3>2, OwnerFiles
  <2>4. QED  BY <2>2, <2>3
<1>6. CASE SpuriousWakeUp \/ UNCHANGED vars
  BY <1>6 DEF SpuriousWakeUp, vars, FilesInv, TypeOK, Placed
<1>7. QED
  BY <1>2, <1>3, <1>4, <1>5, <1>6, ThreadFiles, SubmitFiles DEF Next, InCall, Call

LEMMA FilesInvariant == Spec => []FilesInv
BY InitFiles, StepFiles, PTL DEF Spec

-----------------------------------------------------------------------------
(* What the counters count.                                                *)

OnHand(f) == \E t \in Threads : tpc[t] \in {"remove", "count"} /\ file[t] = f

\* The files submitted, or about to be, and not yet counted off.
Uncounted == {f \in Files : f \in posted \/ OnHand(f) \/ (opc = "post" /\ submitting = f)}

\* The threads inside io.run().
AtWork == {t \in Threads : tpc[t] \notin {"none", "start", "left"}}

Counts == working_jobs = Cardinality(Uncounted) /\ running_threads = Cardinality(AtWork)

LEMMA FiniteSets ==
  /\ IsFiniteSet(Uncounted) /\ Cardinality(Uncounted) \in Nat
  /\ IsFiniteSet(AtWork) /\ Cardinality(AtWork) \in Nat
<1>1. Uncounted \subseteq Files /\ AtWork \subseteq Threads  BY DEF Uncounted, AtWork
<1>2. QED  BY <1>1, DeleterAssumption, FS_Subset, FS_CardinalityType

LEMMA InitCounts == Init => Counts
<1> SUFFICES ASSUME Init PROVE Counts
  OBVIOUS
<1>1. Uncounted = {}  BY DEF Init, Uncounted, OnHand
<1>2. AtWork = {}  BY DEF Init, AtWork
<1>3. QED  BY <1>1, <1>2, FS_EmptySet DEF Init, Counts

LEMMA ThreadCounts == ASSUME FilesInv, Counts, NEW t \in Threads, ThreadStep(t) PROVE Counts'
<1> USE DEF ThreadGoes
<1>1. TypeOK /\ Placed  BY DEF FilesInv
<1>2. ASSUME NEW to \in ThreadPlaces, tpc' = [tpc EXCEPT ![t] = to]
      PROVE  tpc'[t] = to /\ \A u \in Threads \ {t} : tpc'[u] = tpc[u]
  BY <1>1, <1>2, ThreadMoves
<1>3. ASSUME NEW to \in ThreadPlaces, tpc' = [tpc EXCEPT ![t] = to],
             tpc[t] \notin {"none", "start", "left"}, to \notin {"none", "start", "left"}
      PROVE  AtWork' = AtWork
  BY <1>2, <1>3 DEF AtWork
<1>4. ASSUME NEW to \in ThreadPlaces, tpc' = [tpc EXCEPT ![t] = to],
             tpc[t] \notin {"remove", "count"}, to \notin {"remove", "count"},
             UNCHANGED <<posted, opc, submitting>>, \A u \in Threads \ {t} : file'[u] = file[u]
      PROVE  Uncounted' = Uncounted
  BY <1>2, <1>4 DEF Uncounted, OnHand
<1>5. CASE Start(t)
  <2>1. /\ tpc[t] = "start" /\ tpc' = [tpc EXCEPT ![t] = "run"] /\ "run" \in ThreadPlaces
        /\ running_threads' = running_threads + 1
        /\ UNCHANGED <<posted, working_jobs, file, opc, submitting>>
    BY <1>5 DEF Start, jobs, call, ThreadPlaces
  <2>2. Uncounted' = Uncounted  BY <1>4, <2>1
  <2>3. t \notin AtWork /\ AtWork' = AtWork \union {t}  BY <1>2, <2>1 DEF AtWork
  <2>4. Cardinality(AtWork') = Cardinality(AtWork) + 1  BY <2>3, FiniteSets, FS_AddElement
  <2>5. QED  BY <2>1, <2>2, <2>4 DEF Counts
<1>6. ASSUME NEW f \in Files, Take(t, f) PROVE Counts'
  <2>1. /\ tpc[t] = "run" /\ tpc' = [tpc EXCEPT ![t] = "remove"] /\ "remove" \in ThreadPlaces
        /\ f \in posted /\ posted' = posted \ {f} /\ file' = [file EXCEPT ![t] = f]
        /\ UNCHANGED <<working_jobs, running_threads, opc, submitting>>
    BY <1>6 DEF Take, call, ThreadPlaces
  <2>2. AtWork' = AtWork  BY <1>3, <2>1
  <2>3. file'[t] = f /\ \A u \in Threads \ {t} : file'[u] = file[u]
    BY <1>1, <2>1 DEF TypeOK
  <2>4. \A g \in Files : OnHand(g)' <=> OnHand(g) \/ g = f
    BY <1>2, <2>1, <2>3 DEF OnHand
  <2>5. Uncounted' = Uncounted  BY <2>1, <2>4 DEF Uncounted
  <2>6. QED  BY <2>1, <2>2, <2>5 DEF Counts
<1>7. CASE Remove(t)
  <2>1. /\ tpc[t] = "remove" /\ tpc' = [tpc EXCEPT ![t] = "count"] /\ "count" \in ThreadPlaces
        /\ UNCHANGED <<posted, working_jobs, running_threads, file, opc, submitting>>
    BY <1>7 DEF Remove, call, ThreadPlaces
  <2>2. AtWork' = AtWork  BY <1>3, <2>1
  <2>3. \A g \in Files : OnHand(g)' <=> OnHand(g)  BY <1>2, <2>1 DEF OnHand
  <2>4. Uncounted' = Uncounted  BY <2>1, <2>3 DEF Uncounted
  <2>5. QED  BY <2>1, <2>2, <2>4 DEF Counts
<1>8. CASE CountOff(t)
  <2>1. PICK to \in {"notify", "finish"} : tpc' = [tpc EXCEPT ![t] = to]  BY <1>8 DEF CountOff
  <2>2. /\ tpc[t] = "count" /\ to \in ThreadPlaces /\ working_jobs' = working_jobs - 1
        /\ UNCHANGED <<posted, unfinished, removed, running_threads, file, opc, submitting>>
    BY <1>8 DEF CountOff, call, ThreadPlaces
  <2>3. AtWork' = AtWork  BY <1>3, <2>1, <2>2
  <2>4. file[t] \in unfinished \ posted /\ file[t] \in Files /\ file[t] # NoFile
    BY <1>1, <2>2, DeleterAssumption DEF Placed, Busy, TypeOK
  <2>5. \A g \in Files : OnHand(g)' <=> OnHand(g) /\ g # file[t]
    <3>1. \A u \in Threads \ {t} : file[u] # file[t]  BY <1>1, <2>4 DEF Placed
    <3>2. QED  BY <1>2, <2>1, <2>2, <3>1 DEF OnHand
  <2>6. opc = "post" => submitting # file[t]  BY <1>1, <2>4 DEF Placed
  <2>7. OnHand(file[t])  BY <2>2 DEF OnHand
  <2>8. file[t] \in Uncounted  BY <2>4, <2>7 DEF Uncounted
  <2>9. Uncounted' = Uncounted \ {file[t]}  BY <2>2, <2>4, <2>5, <2>6 DEF Uncounted
  <2>10. Cardinality(Uncounted') = Cardinality(Uncounted) - 1
    BY <2>8, <2>9, FiniteSets, FS_RemoveElement
  <2>11. QED  BY <2>2, <2>3, <2>10 DEF Counts
<1>9. CASE Notify(t)
  <2>1. /\ tpc[t] = "notify" /\ tpc' = [tpc EXCEPT ![t] = "finish"] /\ "finish" \in ThreadPlaces
        /\ UNCHANGED <<posted, working_jobs, running_threads, file, opc, submitting>>
    BY <1>9 DEF Notify, jobs, call, ThreadPlaces
  <2>2. AtWork' = AtWork /\ Uncounted' = Uncounted  BY <1>3, <1>4, <2>1
  <2>3. QED  BY <2>1, <2>2 DEF Counts
<1>10. CASE Finish(t)
  <2>1. /\ tpc[t] = "finish" /\ tpc' = [tpc EXCEPT ![t] = "run"] /\ "run" \in ThreadPlaces
        /\ file' = [file EXCEPT ![t] = NoFile]
        /\ UNCHANGED <<posted, working_jobs, running_threads, opc, submitting>>
    BY <1>10 DEF Finish, call, ThreadPlaces
  <2>2. \A u \in Threads \ {t} : file'[u] = file[u]  BY <1>1, <2>1 DEF TypeOK
  <2>3. AtWork' = AtWork /\ Uncounted' = Uncounted  BY <1>3, <1>4, <2>1, <2>2
  <2>4. QED  BY <2>1, <2>3 DEF Counts
<1>11. CASE Leave(t)
  <2>1. /\ tpc[t] = "run" /\ tpc' = [tpc EXCEPT ![t] = "left"] /\ "left" \in ThreadPlaces
        /\ running_threads' = running_threads - 1
        /\ UNCHANGED <<posted, working_jobs, file, opc, submitting>>
    BY <1>11 DEF Leave, jobs, call, ThreadPlaces
  <2>2. Uncounted' = Uncounted  BY <1>4, <2>1
  <2>3. t \in AtWork /\ AtWork' = AtWork \ {t}  BY <1>2, <2>1 DEF AtWork
  <2>4. Cardinality(AtWork') = Cardinality(AtWork) - 1  BY <2>3, FiniteSets, FS_RemoveElement
  <2>5. QED  BY <2>1, <2>2, <2>4 DEF Counts
<1>12. QED
  BY <1>5, <1>6, <1>7, <1>8, <1>9, <1>10, <1>11 DEF ThreadStep

LEMMA StepCounts == FilesInv /\ Counts /\ [Next]_vars => Counts'
<1> SUFFICES ASSUME FilesInv, Counts, [Next]_vars PROVE Counts'
  OBVIOUS
<1> USE DEF OwnerGoes, jobs, pool, call
<1>1. ASSUME UNCHANGED <<posted, working_jobs, running_threads, tpc, file>>,
             (opc' = "post" /\ opc = "post" /\ submitting' = submitting) \/ "post" \notin {opc, opc'}
      PROVE  Counts'
  BY <1>1 DEF Counts, Uncounted, OnHand, AtWork
<1>2. CASE LockOwner \/ Wait \/ StopContext \/ ForceContext \/ Stop
  BY <1>1, <1>2 DEF LockOwner, Wait, StopContext, ForceContext, Stop, ReleaseGuard
<1>3. ASSUME NEW then \in {"idle", "destroyed"}, ForceStop(then) PROVE Counts'
  BY <1>1, <1>3 DEF ForceStop, ReleaseGuard
<1>4. ASSUME \A t \in Threads : tpc[t] \in {"none", "left"} /\ tpc'[t] \in {"none", "start"},
             opc \in {"idle", "join"}, opc' \in {"idle", "destroyed"},
             UNCHANGED <<posted, working_jobs, running_threads, file>>
      PROVE  Counts'
  <2>1. AtWork' = AtWork  BY <1>4 DEF AtWork
  <2>2. Uncounted' = Uncounted  BY <1>4 DEF Uncounted, OnHand
  <2>3. QED  BY <1>4, <2>1, <2>2 DEF Counts
<1>5. CASE Join
  <2>1. returns \in {"idle", "destroyed"}  BY DEF FilesInv, TypeOK
  <2>2. QED  BY <1>4, <1>5, <2>1 DEF Join
<1>6. CASE Run
  <2>1. CASE PoolExists  BY <1>1, <1>6, <2>1 DEF Run
  <2>2. CASE ~PoolExists  BY <1>4, <1>6, <2>2 DEF Run, PoolExists
  <2>3. QED  BY <2>1, <2>2
<1>7. ASSUME NEW f \in Files, Submit(f) PROVE Counts'
  <2>1. /\ opc = "idle" /\ opc' = "post" /\ f \notin unfinished \union removed /\ submitting' = f
        /\ working_jobs' = working_jobs + 1 /\ UNCHANGED <<posted, running_threads, tpc, file>>
    BY <1>7 DEF Submit
  <2>2. f \notin posted /\ ~OnHand(f)
    BY <2>1 DEF OnHand, FilesInv, Placed, Busy
  <2>3. f \notin Uncounted /\ Uncounted' = Uncounted \union {f} /\ AtWork' = AtWork
    BY <2>1, <2>2 DEF Uncounted, OnHand, AtWork
  <2>4. Cardinality(Uncounted') = Cardinality(Uncounted) + 1  BY <2>3, FiniteSets, FS_AddElement
  <2>5. QED  BY <2>1, <2>3, <2>4 DEF Counts
<1>8. CASE Post
  <2>1. Uncounted' = Uncounted /\ AtWork' = AtWork
    BY <1>8 DEF Post, Uncounted, OnHand, AtWork, FilesInv, Placed
  <2>2. QED  BY <1>8, <2>1 DEF Post, Counts
<1>9. CASE SpuriousWakeUp \/ UNCHANGED vars
  BY <1>9 DEF SpuriousWakeUp, vars, Counts, Uncounted, OnHand, AtWork
<1>10. QED
  BY <1>2, <1>3, <1>5, <1>6, <1>7, <1>8, <1>9, ThreadCounts DEF Next, InCall, Call

-----------------------------------------------------------------------------
(* What the owner knows.                                                   *)

\* stop() holds the lock from its look at the jobs until it has joined;
\* between calls the pool is guarded or gone; and an owner that sleeps though
\* no job is left is about to be notified.
OwnerInv ==
  /\ cv_lock = Owner => opc \in {"check", "join"}
  /\ opc = "join" /\ cv_lock = Owner => working_jobs = 0
  /\ opc \in {"idle", "post"} /\ ~guarded => \A t \in Threads : tpc[t] = "none"
  /\ asleep => opc = "lock"
  /\ asleep /\ working_jobs = 0 => \E t \in Threads : tpc[t] = "notify"

LEMMA InitOwner == Init => OwnerInv
BY DeleterAssumption DEF Init, OwnerInv

LEMMA StepOwner == FilesInv /\ Counts /\ OwnerInv /\ [Next]_vars => OwnerInv'
<1> SUFFICES ASSUME FilesInv, Counts, OwnerInv, [Next]_vars PROVE OwnerInv'
  OBVIOUS
<1>1. TypeOK /\ working_jobs \in Nat /\ Owner # Nobody
  BY FiniteSets, DeleterAssumption DEF FilesInv, Counts
<1> USE DEF OwnerGoes, ThreadGoes, jobs, pool, call
<1>2. ASSUME NEW t \in Threads, ThreadStep(t) PROVE OwnerInv'
  <2>1. UNCHANGED <<cv_lock, opc, guarded>>
    BY <1>2 DEF ThreadStep, Start, Take, Remove, CountOff, Notify, Finish, Leave
  <2>2. tpc[t] # "none"
    BY <1>2 DEF ThreadStep, Start, Take, Remove, CountOff, Notify, Finish, Leave
  <2>3. ~(opc \in {"idle", "post"} /\ ~guarded)  BY <2>2 DEF OwnerInv
  <2>4. asleep' => asleep
    BY <1>2 DEF ThreadStep, Start, Take, Remove, CountOff, Notify, Finish, Leave
  <2>5. opc = "join" /\ cv_lock = Owner => working_jobs' = 0
    <3>1. CASE CountOff(t)
      <4>1. OnHand(file[t])  BY <3>1 DEF CountOff, OnHand
      <4>2. file[t] \in Files
        BY <1>1, <3>1, DeleterAssumption DEF CountOff, FilesInv, Placed, Busy, TypeOK
      <4>3. Uncounted # {}  BY <4>1, <4>2 DEF Uncounted
      <4>4. working_jobs # 0  BY <4>3, FiniteSets, FS_EmptySet DEF Counts
      <4>5. QED  BY <4>4 DEF OwnerInv
    <3>2. CASE ~CountOff(t)
      <4>1. working_jobs' = working_jobs
        BY <1>2, <3>2 DEF ThreadStep, Start, Take, Remove, Notify, Finish, Leave
      <4>2. QED  BY <4>1 DEF OwnerInv
    <3>3. QED  BY <3>1, <3>2
  <2>6. asleep' /\ working_jobs' = 0 => \E u \in Threads : tpc'[u] = "notify"
    <3>1. CASE CountOff(t)
      <4>1. working_jobs' = working_jobs - 1 /\ tpc' = [tpc EXCEPT ![t] = IF FewLeft THEN "notify" ELSE "finish"]
        BY <3>1 DEF CountOff
      <4>2. working_jobs' = 0 => FewLeft  BY <1>1, <4>1 DEF FewLeft
      <4>3. FewLeft => tpc'[t] = "notify"  BY <1>1, <4>1 DEF TypeOK
      <4>4. QED  BY <4>2, <4>3
    <3>2. CASE Notify(t)  BY <3>2 DEF Notify
    <3>3. ASSUME NEW from, NEW to, tpc[t] = from, from # "notify", tpc' = [tpc EXCEPT ![t] = to],
                 working_jobs' = working_jobs, asleep' = asleep
          PROVE  asleep' /\ working_jobs' = 0 => \E u \in Threads : tpc'[u] = "notify"
      <4>1. \A u \in Threads : tpc[u] = "notify" => tpc'[u] = "notify"  BY <1>1, <3>3 DEF TypeOK
      <4>2. QED  BY <3>3, <4>1 DEF OwnerInv
    <3>4. CASE Start(t) \/ (\E f \in Files : Take(t, f)) \/ Remove(t) \/ Finish(t) \/ Leave(t)
      BY <3>3, <3>4 DEF Start, Take, Remove, Finish, Leave
    <3>5. QED  BY <1>2, <3>1, <3>2, <3>4 DEF ThreadStep
  <2>7. QED  BY <2>1, <2>3, <2>4, <2>5, <2>6 DEF OwnerInv
<1>3. CASE LockOwner  BY <1>1, <1>3 DEF LockOwner, OwnerInv
<1>4. CASE Wait  BY <1>1, <1>4 DEF Wait, OwnerInv
<1>5. CASE StopContext  BY <1>1, <1>5 DEF StopContext, OwnerInv
<1>6. CASE ForceContext  BY <1>1, <1>6 DEF ForceContext, OwnerInv
<1>7. CASE Stop  BY <1>1, <1>7 DEF Stop, ReleaseGuard, OwnerInv
<1>8. ASSUME NEW then \in {"idle", "destroyed"}, ForceStop(then) PROVE OwnerInv'
  BY <1>1, <1>8 DEF ForceStop, ReleaseGuard, OwnerInv
<1>9. CASE Join
  <2>1. returns \in {"idle", "destroyed"}  BY <1>1 DEF TypeOK
  <2>2. QED  BY <1>1, <1>9, <2>1 DEF Join, OwnerInv
<1>10. CASE Run  BY <1>1, <1>10 DEF Run, OwnerInv
<1>11. ASSUME NEW f \in Files, Submit(f) PROVE OwnerInv'
  BY <1>1, <1>11 DEF Submit, OwnerInv
<1>12. CASE Post  BY <1>1, <1>12 DEF Post, OwnerInv
<1>13. CASE SpuriousWakeUp \/ UNCHANGED vars
  BY <1>13 DEF SpuriousWakeUp, vars, OwnerInv
<1>14. QED
  BY <1>2, <1>3, <1>4, <1>5, <1>6, <1>7, <1>8, <1>9, <1>10, <1>11, <1>12, <1>13
  DEF Next, InCall, Call

DeleterInv == FilesInv /\ Counts /\ OwnerInv

\* In every state of the deleter the files are in one place each, the two
\* counters count them and the threads, and stop() knows what it relies on
\* (async_deleter.cpp:7-81).
THEOREM DeleterInvariant == Spec => []DeleterInv
BY InitFiles, StepFiles, InitCounts, StepCounts, InitOwner, StepOwner, PTL DEF Spec, DeleterInv

\* When stop() stops the context, every file submitted before has been tried.
THEOREM StopDrainsThePool == Spec => []StopDrains
<1>1. DeleterInv => StopDrains
  <2> SUFFICES ASSUME DeleterInv, opc = "join", cv_lock = Owner
               PROVE  unfinished \subseteq removed /\ posted = {}
    BY DEF StopDrains
  <2>1. Placed /\ TypeOK /\ Counts /\ working_jobs = 0
    BY DEF DeleterInv, FilesInv, OwnerInv
  <2>2. Uncounted = {}  BY <2>1, FiniteSets, FS_EmptySet DEF Counts
  <2>3. posted = {}  BY <2>1, <2>2 DEF Uncounted, TypeOK
  <2>4. ASSUME NEW f \in unfinished PROVE f \in removed
    <3>1. PICK t \in Threads : file[t] = f  BY <2>1, <2>3 DEF Placed
    <3>2. f \in Files /\ f # NoFile  BY <2>1, DeleterAssumption DEF TypeOK
    <3>3. tpc[t] \in Busy  BY <2>1, <3>1, <3>2 DEF Placed
    <3>4. ~OnHand(f)  BY <2>2, <3>2 DEF Uncounted
    <3>5. tpc[t] # "remove"  BY <3>1, <3>4 DEF OnHand
    <3>6. QED  BY <2>1, <3>1, <3>3, <3>5 DEF Placed
  <2>5. QED  BY <2>3, <2>4
<1>2. QED  BY <1>1, DeleterInvariant, PTL

\* No file is in two threads or removed twice, and between calls a pool that
\* is not guarded is gone.
THEOREM PoolStaysClean == Spec => []PoolIsClean
<1>1. DeleterInv => PoolIsClean
  <2> SUFFICES ASSUME DeleterInv PROVE PoolIsClean
    OBVIOUS
  <2>1. Placed /\ Counts /\ OwnerInv  BY DEF DeleterInv, FilesInv
  <2>2. \A t \in Threads : tpc[t] = "remove" => file[t] \notin removed \union posted
    BY <2>1 DEF Placed, Busy
  <2>3. (\A t \in Threads : tpc[t] = "none") => running_threads = 0
    <3>1. (\A t \in Threads : tpc[t] = "none") => AtWork = {}  BY DEF AtWork
    <3>2. QED  BY <2>1, <3>1, FS_EmptySet DEF Counts
  <2>4. QED  BY <2>1, <2>2, <2>3 DEF Placed, OwnerInv, PoolIsClean
<1>2. QED  BY <1>1, DeleterInvariant, PTL

\* The announcement of the last jobs is enough: an owner that sleeps in stop()
\* when no job is left has a thread that will wake it, although a thread
\* notifies only when its fetch_sub returned two or less.
THEOREM SleeperIsNotified ==
  Spec => [](asleep /\ working_jobs = 0 => \E t \in Threads : tpc[t] = "notify")
<1>1. DeleterInv => (asleep /\ working_jobs = 0 => \E t \in Threads : tpc[t] = "notify")
  BY DEF DeleterInv, OwnerInv
<1>2. QED  BY <1>1, DeleterInvariant, PTL

-----------------------------------------------------------------------------
(* The receiver.                                                           *)

Results == {"ok", "failed", "aborted"}
Handlers == [result : Results, line : Lines \union {NoLine}]
IoPlaces == {"off", "run", "receive", "gone"}

\* The thread runs exactly when it says so.
ReceiverTypes ==
  /\ is_running \in BOOLEAN /\ pending \in Nat /\ stops \in Nat
  /\ ready \in Seq(Handlers) /\ buffer \in Lines \union {NoLine}
  /\ received \in Seq(Lines \union {NoLine}) /\ delivered \in Seq(Lines \union {NoLine})
  /\ io_at \in IoPlaces /\ (thread_running <=> io_at \in {"run", "receive"})

\* Until the first stop there is one chain at most, none before the first
\* start, and what it received last is in the buffer or was delivered.
Links == pending + Len(ready) + (IF io_at = "receive" THEN 1 ELSE 0)
OneChain ==
  stops = 0 => /\ Links <= 1
               /\ is_running \/ Links = 0
               /\ IF ready # <<>> /\ ready[1].result = "ok"
                    THEN ready[1].line = buffer /\ received = Append(delivered, buffer)
                    ELSE received = delivered

ReceiverInv == ReceiverTypes /\ ChainAlive /\ OneChain

LEMMA OneAtMost == ASSUME NEW a \in Nat, NEW b \in Nat, a + b <= 1 PROVE b = 0 \/ (b = 1 /\ a = 0)
OBVIOUS

LEMMA ReceiverStarts == ReceiverInit => ReceiverInv
<1> SUFFICES ASSUME ReceiverInit PROVE ReceiverInv  OBVIOUS
<1> USE DEF ReceiverInit
<1>1. ReceiverTypes
  <2>1. /\ is_running \in BOOLEAN /\ pending \in Nat /\ stops \in Nat
        /\ buffer \in Lines \union {NoLine}
    OBVIOUS
  <2>2. /\ ready \in Seq(Handlers)
        /\ received \in Seq(Lines \union {NoLine}) /\ delivered \in Seq(Lines \union {NoLine})
    OBVIOUS
  <2>3. io_at \in IoPlaces /\ (thread_running <=> io_at \in {"run", "receive"})  BY DEF IoPlaces
  <2>4. QED  BY ONLY <2>1, <2>2, <2>3 DEF ReceiverTypes
<1>2. ChainAlive  BY DEF ChainAlive
<1>3. OneChain  BY DEF OneChain, Links
<1>4. QED  BY <1>1, <1>2, <1>3 DEF ReceiverInv

\* What is queued stays so when the socket is cancelled or closed.
LEMMA AbortedJoin ==
  ASSUME ReceiverTypes, ready' = ready \o Aborted
  PROVE  /\ ready' \in Seq(Handlers) /\ Len(ready') = Len(ready) + pending
         /\ \A i \in DOMAIN ready : ready'[i] = ready[i]
         /\ \A i \in DOMAIN ready' \ DOMAIN ready : ready'[i].result = "aborted"
<1>1. \A i \in 1 .. pending : /\ Done("aborted", NoLine) \in Handlers
                               /\ Done("aborted", NoLine).result = "aborted"
  BY DEF Done, Handlers, Results
<1>2. Aborted \in Seq(Handlers) /\ Len(Aborted) = pending
  <2>1. Aborted \in [1 .. pending -> Handlers]  BY <1>1 DEF Aborted
  <2>2. QED  BY <2>1 DEF ReceiverTypes
<1>3. \A i \in 1 .. pending : Aborted[i].result = "aborted"  BY <1>1 DEF Aborted
<1>4. ready \in Seq(Handlers) /\ pending \in Nat  BY DEF ReceiverTypes
<1> HIDE DEF Aborted
<1>5. ready' \in Seq(Handlers) /\ Len(ready') = Len(ready) + pending
  BY <1>2, <1>4, ConcatProperties
<1>6. \A i \in DOMAIN ready : ready'[i] = ready[i]  BY <1>2, <1>4
<1>7. \A i \in DOMAIN ready' \ DOMAIN ready : ready'[i] = Aborted[i - Len(ready)] /\ i - Len(ready) \in 1 .. pending
  BY <1>2, <1>4, <1>5
<1>8. QED  BY <1>3, <1>5, <1>6, <1>7

\* A start goes on where nothing is left of an earlier chain, or after a stop.
LEMMA StartKeeps == ReceiverInv /\ ReceiveStart => ReceiverInv'
<1> SUFFICES ASSUME ReceiverInv, ReceiveStart PROVE ReceiverInv'  OBVIOUS
<1> USE DEF ReceiverInv, ReceiveStart, traffic, Open
<1>1. ReceiverTypes'  BY DEF ReceiverTypes
<1>2. ChainAlive'  BY DEF ChainAlive, ReceiverTypes
<1>3. OneChain'
  <2>1. stops = 0 => Links = 0  BY DEF OneChain
  <2>2. stops = 0 => Links' = 1  BY <2>1 DEF Links, ReceiverTypes
  <2>3. QED  BY <2>2 DEF OneChain, ReceiverTypes
<1>4. QED  BY <1>1, <1>2, <1>3

LEMMA StopKeeps == ReceiverInv /\ ReceiveStop => ReceiverInv'
<1> SUFFICES ASSUME ReceiverInv, ReceiveStop PROVE ReceiverInv'  OBVIOUS
<1>1. ready' \in Seq(Handlers)  BY AbortedJoin DEF ReceiverInv, ReceiveStop
<1> USE DEF ReceiverInv, ReceiveStop, traffic
<1>2. ReceiverTypes'
  <2>1. pending' = 0 /\ is_running' = FALSE /\ stops' = stops + 1 /\ stops \in Nat  BY DEF ReceiverTypes
  <2>2. is_running' \in BOOLEAN  BY <2>1
  <2>3. pending' \in Nat  BY <2>1
  <2>4. stops' \in Nat  BY <2>1
  <2>5. QED  BY <1>1, <2>2, <2>3, <2>4 DEF ReceiverTypes
<1>3. ChainAlive'  BY DEF ChainAlive
<1>4. OneChain'
  <2>1. stops' # 0  BY DEF ReceiverTypes
  <2>2. QED  BY <2>1 DEF OneChain
<1>5. QED  BY <1>2, <1>3, <1>4

LEMMA CloseKeeps == ReceiverInv /\ Destroy => ReceiverInv'
<1> SUFFICES ASSUME ReceiverInv, Destroy PROVE ReceiverInv'  OBVIOUS
<1>1. /\ ready' \in Seq(Handlers) /\ Len(ready') = Len(ready) + pending
      /\ \A i \in DOMAIN ready : ready'[i] = ready[i]
      /\ \A i \in DOMAIN ready' \ DOMAIN ready : ready'[i].result = "aborted"
  BY AbortedJoin DEF ReceiverInv, Destroy
<1> USE DEF ReceiverInv, Destroy, traffic, bounds
<1>2. ReceiverTypes'  BY <1>1 DEF ReceiverTypes
<1>3. ChainAlive'  BY DEF ChainAlive, Open
<1>4. OneChain'
  <2> SUFFICES ASSUME stops = 0 PROVE OneChain'  BY DEF OneChain
  <2>1. Links' = Links  BY <1>1 DEF Links, ReceiverTypes
  <2>2. ready' # <<>> /\ ready'[1].result = "ok" <=> ready # <<>> /\ ready[1].result = "ok"
    <3>1. ready \in Seq(Handlers)  BY DEF ReceiverTypes
    <3>2. CASE ready = <<>>
      <4>1. DOMAIN ready = {}  BY <3>2
      <4>2. QED  BY <1>1, <3>2, <4>1
    <3>3. CASE ready # <<>>
      <4>1. 1 \in DOMAIN ready /\ Len(ready) >= 1  BY <3>1, <3>3
      <4>2. ready' # <<>>  BY <1>1, <3>1, <4>1 DEF ReceiverTypes
      <4>3. QED  BY <1>1, <3>3, <4>1, <4>2
    <3>4. QED  BY <3>2, <3>3
  <2>3. ready # <<>> => ready'[1] = ready[1]  BY <1>1 DEF ReceiverTypes
  <2>4. QED  BY <2>1, <2>2, <2>3 DEF OneChain
<1>5. QED  BY <1>2, <1>3, <1>4

\* A receive completes or fails: its handler goes on with the chain.
LEMMA SocketKeeps ==
  ASSUME ReceiverInv, NEW h \in Handlers, h.result # "aborted",
         Open /\ pending > 0 /\ pending' = pending - 1 /\ ready' = Append(ready, h),
         IF h.result = "ok" THEN buffer' = h.line /\ received' = Append(received, h.line)
                            ELSE UNCHANGED <<buffer, received>>,
         UNCHANGED <<is_running, thread_running, owner_at, io_at, delivered, stops>>
  PROVE  ReceiverInv'
<1>1. pending \in Nat /\ pending' \in Nat /\ ready \in Seq(Handlers)
  BY DEF ReceiverInv, ReceiverTypes
<1>2. /\ ready' \in Seq(Handlers) /\ Len(ready') = Len(ready) + 1
      /\ \A i \in 1 .. Len(ready) : ready'[i] = ready[i]
      /\ ready'[Len(ready) + 1] = h
  BY <1>1, AppendProperties
<1>3. h.line \in Lines \union {NoLine}  BY DEF Handlers
<1>4. buffer' \in Lines \union {NoLine} /\ received' \in Seq(Lines \union {NoLine})
  <2>1. buffer \in Lines \union {NoLine} /\ received \in Seq(Lines \union {NoLine})
    BY DEF ReceiverInv, ReceiverTypes
  <2>2. Append(received, h.line) \in Seq(Lines \union {NoLine})  BY <1>3, <2>1, AppendProperties
  <2>3. QED  BY <1>3, <2>1, <2>2
<1>5. ReceiverTypes'  BY <1>1, <1>2, <1>4 DEF ReceiverInv, ReceiverTypes
<1>6. ChainAlive'
  <2>1. Len(ready) + 1 \in DOMAIN ready'  BY <1>1, <1>2
  <2>2. QED  BY <1>2, <2>1 DEF ChainAlive
<1>7. OneChain'
  <2> SUFFICES ASSUME stops = 0 PROVE OneChain'  BY DEF OneChain
  <2>1. Links <= 1 /\ (is_running \/ Links = 0)  BY DEF ReceiverInv, OneChain
  <2>2. io_at # "receive" /\ Len(ready) = 0 /\ pending = 1 /\ is_running
    BY <1>1, <2>1 DEF Links
  <2>3. received = delivered  BY <1>1, <2>2 DEF ReceiverInv, OneChain
  <2>4. Links' <= 1 /\ is_running'  BY <1>2, <2>2 DEF Links
  <2>5. ready'[1] = h  BY <1>2, <2>2
  <2>6. ready' # <<>> /\ ready'[1].result = "ok"
          => ready'[1].line = buffer' /\ received' = Append(delivered', buffer')
    BY <2>3, <2>5
  <2>7. ready' # <<>>  BY <1>2, <2>2
  <2>8. ready'[1].result # "ok" => received' = delivered'  BY <2>3, <2>5
  <2>9. QED  BY <2>4, <2>6, <2>7, <2>8 DEF OneChain
<1>8. QED  BY <1>5, <1>6, <1>7 DEF ReceiverInv

\* A handler is called: the chain is now with the io thread, unless the
\* receive was aborted.
LEMMA HandlerKeeps ==
  ASSUME ReceiverInv, HandleLine \/ HandleError \/ HandleAborted
  PROVE  ReceiverInv'
<1>1. PICK result \in Results :
        /\ Handles(result)
        /\ io_at' = (IF result = "aborted" THEN io_at ELSE "receive")
        /\ delivered' = (IF result = "ok" THEN Append(delivered, buffer) ELSE delivered)
        /\ UNCHANGED <<is_running, thread_running, pending, buffer, owner_at, received, stops>>
  BY DEF HandleLine, HandleError, HandleAborted, Results, traffic, bounds
<1>2. ready \in Seq(Handlers) /\ pending \in Nat  BY DEF ReceiverInv, ReceiverTypes
<1>3. ready # <<>> /\ ready' = Tail(ready) /\ ready[1].result = result /\ io_at = "run"
  BY <1>1, <1>2 DEF Handles
<1>4. /\ ready' \in Seq(Handlers) /\ Len(ready') = Len(ready) - 1
      /\ \A i \in 1 .. Len(ready') : ready'[i] = ready[i + 1]
  BY <1>2, <1>3, HeadTailProperties
<1>5. ReceiverTypes'
  <2>1. buffer \in Lines \union {NoLine} /\ delivered \in Seq(Lines \union {NoLine})
    BY DEF ReceiverInv, ReceiverTypes
  <2>2. delivered' \in Seq(Lines \union {NoLine})  BY <1>1, <2>1, AppendProperties
  <2>3. io_at' \in {"run", "receive"}  BY <1>1, <1>3
  <2>4. QED  BY <1>1, <1>3, <1>4, <2>2, <2>3 DEF ReceiverInv, ReceiverTypes, IoPlaces
<1>6. ChainAlive'
  <2> SUFFICES ASSUME is_running, Open, pending = 0, result = "aborted"
               PROVE  \E i \in DOMAIN ready' : ready'[i].result # "aborted"
    BY <1>1, <1>2 DEF ChainAlive, Open
  <2>1. PICK i \in DOMAIN ready : ready[i].result # "aborted"
    BY <1>3 DEF ReceiverInv, ChainAlive
  <2>2. i # 1 /\ i \in 1 .. Len(ready)  BY <1>2, <1>3, <2>1
  <2>3. i - 1 \in 1 .. Len(ready') /\ (i - 1) + 1 = i  BY <1>2, <1>4, <2>2
  <2>4. i - 1 \in DOMAIN ready' /\ ready'[i - 1] = ready[i]  BY <1>4, <2>3
  <2>5. QED  BY <2>1, <2>4
<1>7. OneChain'
  <2> SUFFICES ASSUME stops = 0 PROVE OneChain'  BY <1>1 DEF OneChain
  <2>1. /\ Links <= 1 /\ (is_running \/ Links = 0)
        /\ IF result = "ok" THEN received = Append(delivered, buffer) ELSE received = delivered
    BY <1>3 DEF ReceiverInv, OneChain
  <2>2. Len(ready) >= 1  BY <1>2, <1>3
  <2>3. Len(ready) = 1 /\ pending = 0 /\ is_running
    <3>1. Links = pending + Len(ready)  BY <1>2, <1>3 DEF Links
    <3>2. Len(ready) \in Nat  BY <1>2
    <3>3. pending + Len(ready) <= 1  BY <2>1, <3>1
    <3>4. Len(ready) = 1 /\ pending = 0
      <4>1. Len(ready) # 0  BY <2>2
      <4>2. QED  BY <1>2, <3>2, <3>3, <4>1, OneAtMost
    <3>5. Links = 1  BY ONLY <3>1, <3>4
    <3>6. QED  BY <2>1, <3>4, <3>5
  <2>4. Len(ready') = 0 /\ ready' = <<>>  BY <1>4, <2>3
  <2>5. Links' <= 1  BY <1>1, <2>3, <2>4 DEF Links
  <2>6. received' = delivered'  BY <1>1, <2>1
  <2>7. QED  BY <1>1, <2>3, <2>4, <2>5, <2>6 DEF OneChain
<1>8. QED  BY <1>5, <1>6, <1>7 DEF ReceiverInv

\* The handler's own receive() starts the next one, or fails if the socket
\* has been closed.
LEMMA ReceiveKeeps == ReceiverInv /\ Receive => ReceiverInv'
<1> SUFFICES ASSUME ReceiverInv, Receive PROVE ReceiverInv'  OBVIOUS
<1>1. /\ io_at = "receive" /\ io_at' = "run"
      /\ UNCHANGED <<is_running, thread_running, buffer, owner_at, received, delivered, stops>>
  BY DEF Receive, traffic, bounds
<1>2. ready \in Seq(Handlers) /\ pending \in Nat  BY DEF ReceiverInv, ReceiverTypes
<1>3. Done("failed", NoLine) \in Handlers /\ Done("failed", NoLine).result = "failed"
  BY DEF Done, Handlers, Results
<1> DEFINE h == Done("failed", NoLine)
<1>4. \/ Open /\ pending' = pending + 1 /\ ready' = ready
      \/ ~Open /\ pending' = pending /\ ready' = Append(ready, h)
  BY DEF Receive
<1> HIDE DEF h
<1>5. ~Open => /\ ready' \in Seq(Handlers) /\ ready' # <<>> /\ Len(ready') = Len(ready) + 1
               /\ \A i \in 1 .. Len(ready) : ready'[i] = ready[i]
               /\ ready'[Len(ready) + 1] = h
  BY <1>2, <1>3, <1>4, AppendProperties DEF h
<1>6. ReceiverTypes'
  <2>1. pending' \in Nat /\ ready' \in Seq(Handlers)  BY <1>2, <1>4, <1>5
  <2>2. QED  BY <1>1, <2>1 DEF ReceiverInv, ReceiverTypes, IoPlaces
<1>7. ChainAlive'
  <2>1. Open => pending' > 0  BY <1>2, <1>4
  <2>2. QED  BY <1>1, <2>1 DEF ChainAlive, Open
<1>8. OneChain'
  <2> SUFFICES ASSUME stops = 0 PROVE OneChain'  BY <1>1 DEF OneChain
  <2>1. Links <= 1 /\ (is_running \/ Links = 0)  BY DEF ReceiverInv, OneChain
  <2>2. Links = pending + Len(ready) + 1 /\ Len(ready) \in Nat  BY <1>1, <1>2 DEF Links
  <2>3. pending = 0 /\ Len(ready) = 0 /\ is_running  BY ONLY <1>2, <2>1, <2>2
  <2>4. ready = <<>> /\ received = delivered  BY <1>2, <2>3 DEF ReceiverInv, OneChain
  <2>5. Links' = 1
    <3>1. Links' = pending' + Len(ready')  BY <1>1, <1>2, <1>4, <1>5 DEF Links
    <3>2. CASE Open  BY <1>4, <2>3, <3>1, <3>2
    <3>3. CASE ~Open
      <4>1. pending' = 0 /\ Len(ready') = 1  BY <1>4, <1>5, <2>3, <3>3
      <4>2. QED  BY ONLY <3>1, <4>1
    <3>4. QED  BY <3>2, <3>3
  <2>6. ready' = <<>> \/ ready'[1].result = "failed"  BY <1>3, <1>4, <1>5, <2>3, <2>4 DEF h
  <2>7. Links' <= 1  BY <2>5
  <2>8. QED  BY <1>1, <2>3, <2>4, <2>6, <2>7 DEF OneChain
<1>9. QED  BY <1>6, <1>7, <1>8 DEF ReceiverInv

LEMMA ReceiverStep == ReceiverInv /\ [ReceiverNext]_receiverVars => ReceiverInv'
<1> SUFFICES ASSUME ReceiverInv, [ReceiverNext]_receiverVars PROVE ReceiverInv'  OBVIOUS
<1>1. CASE IoRun
  <2>1. ReceiverTypes'  BY <1>1 DEF IoRun, traffic, bounds, ReceiverInv, ReceiverTypes, IoPlaces
  <2>2. io_at # "receive" /\ io_at' = "run"  BY <1>1 DEF IoRun, ReceiverInv, ReceiverTypes
  <2>3. ChainAlive' /\ OneChain'
    BY <1>1, <2>2 DEF IoRun, traffic, bounds, Open, ReceiverInv, ChainAlive, OneChain, Links
  <2>4. QED  BY <2>1, <2>3 DEF ReceiverInv
<1>2. CASE IoLeave
  <2>1. ReceiverTypes'  BY <1>2 DEF IoLeave, traffic, bounds, ReceiverInv, ReceiverTypes, IoPlaces
  <2>2. ChainAlive' /\ OneChain'
    BY <1>2 DEF IoLeave, traffic, bounds, Open, ReceiverInv, ChainAlive, OneChain, Links
  <2>3. QED  BY <2>1, <2>2 DEF ReceiverInv
<1>3. CASE IoStop \/ Destroyed \/ \E line \in Lines : Send(line)
  <2>1. ReceiverTypes'
    BY <1>3 DEF IoStop, Destroyed, Send, traffic, bounds, ReceiverInv, ReceiverTypes
  <2>2. ChainAlive' /\ OneChain'
    BY <1>3 DEF IoStop, Destroyed, Send, traffic, bounds, Open, ReceiverInv, ChainAlive, OneChain, Links
  <2>3. QED  BY <2>1, <2>2 DEF ReceiverInv
<1>4. ASSUME NEW line \in Lines, Complete(line) PROVE ReceiverInv'
  <2> DEFINE h == Done("ok", line)
  <2>1. h \in Handlers /\ h.result = "ok" /\ h.line = line  BY DEF Done, Handlers, Results
  <2>2. /\ Open /\ pending > 0 /\ pending' = pending - 1 /\ ready' = Append(ready, h)
        /\ buffer' = line /\ received' = Append(received, line)
        /\ UNCHANGED <<is_running, thread_running, owner_at, io_at, delivered, stops>>
    BY <1>4 DEF Complete, bounds
  <2> HIDE DEF h
  <2>3. QED  BY <2>1, <2>2, SocketKeeps
<1>5. CASE Fail
  <2> DEFINE h == Done("failed", NoLine)
  <2>1. h \in Handlers /\ h.result = "failed"  BY DEF Done, Handlers, Results
  <2>2. /\ Open /\ pending > 0 /\ pending' = pending - 1 /\ ready' = Append(ready, h)
        /\ UNCHANGED <<is_running, thread_running, buffer, owner_at, io_at, received, delivered, stops>>
    BY <1>5 DEF Fail, traffic
  <2> HIDE DEF h
  <2>3. QED  BY <2>1, <2>2, SocketKeeps
<1>6. CASE UNCHANGED receiverVars
  BY <1>6 DEF receiverVars, ReceiverInv, ReceiverTypes, ChainAlive, Open, OneChain, Links
<1>7. QED
  BY <1>1, <1>2, <1>3, <1>4, <1>5, <1>6, StartKeeps, StopKeeps, CloseKeeps, HandlerKeeps, ReceiveKeeps
  DEF ReceiverNext, Calls, Socket, IoThread, Ended

\* In every state of the receiver the chain lives while it runs, and is a
\* single one until the first stop (receiver.cpp:28-107).
THEOREM ReceiverInvariant == ReceiverSpec => []ReceiverInv
BY ReceiverStarts, ReceiverStep, PTL DEF ReceiverSpec

\* While the receiver runs, a receive is pending or a handler that starts the
\* next one is on its way: failed receives and any number of stops and starts
\* do not end the chain (receiver.cpp:73-85, 98-105).
THEOREM ChainStaysAlive == ReceiverSpec => []ChainAlive
<1>1. ReceiverInv => ChainAlive  BY DEF ReceiverInv
<1>2. QED  BY <1>1, ReceiverInvariant, PTL

\* Until the first stop, what the callback was given is what was received, in
\* the same order, up to what is queued, though every receive uses the same
\* buffer (receiver.cpp:94-107).
THEOREM LinesComeIntact == ReceiverSpec => []DeliveredIntact
<1>1. ReceiverInv => DeliveredIntact
  <2> SUFFICES ASSUME ReceiverInv, stops = 0
               PROVE  /\ Len(received) = Len(delivered) + LinesUpTo(Len(ready))
                      /\ \A i \in DOMAIN delivered : delivered[i] = received[i]
                      /\ \A i \in DOMAIN ready : ready[i].result = "ok" =>
                                        ready[i].line = received[Len(delivered) + LinesUpTo(i)]
    BY DEF DeliveredIntact
  <2>1. /\ ready \in Seq(Handlers) /\ pending \in Nat /\ buffer \in Lines \union {NoLine}
        /\ received \in Seq(Lines \union {NoLine}) /\ delivered \in Seq(Lines \union {NoLine})
    BY DEF ReceiverInv, ReceiverTypes
  <2>2. Links <= 1 /\ Len(ready) \in Nat  BY <2>1 DEF ReceiverInv, OneChain
  <2>3. Len(ready) = 0 \/ Len(ready) = 1
    <3>1. Links = pending + Len(ready) \/ Links = pending + Len(ready) + 1  BY <2>1, <2>2 DEF Links
    <3>2. pending + Len(ready) <= 1  BY <2>1, <2>2, <3>1
    <3>3. QED  BY <2>1, <2>2, <3>2, OneAtMost
  <2>4. CASE ready # <<>> /\ ready[1].result = "ok"
    <3>1. received = Append(delivered, buffer) /\ ready[1].line = buffer  BY <2>4 DEF ReceiverInv, OneChain
    <3>2. /\ Len(received) = Len(delivered) + 1 /\ received[Len(delivered) + 1] = buffer
          /\ \A i \in 1 .. Len(delivered) : received[i] = delivered[i]
      BY <2>1, <3>1, AppendProperties
    <3>3. Len(ready) = 1 /\ DOMAIN ready = {1}  BY <2>1, <2>3, <2>4
    <3>4. {j \in 1 .. 1 : ready[j].result = "ok"} = {1}  BY <2>4
    <3>5. LinesUpTo(1) = 1  BY <3>4, FS_Singleton DEF LinesUpTo
    <3>6. QED  BY <2>1, <3>1, <3>2, <3>3, <3>5
  <2>5. CASE ~(ready # <<>> /\ ready[1].result = "ok")
    <3>1. received = delivered  BY <2>5 DEF ReceiverInv, OneChain
    <3>2. \A j \in 1 .. Len(ready) : ready[j].result # "ok"  BY <2>1, <2>3, <2>5
    <3>3. {j \in 1 .. Len(ready) : ready[j].result = "ok"} = {}  BY <3>2
    <3>4. LinesUpTo(Len(ready)) = 0  BY <3>3, FS_EmptySet DEF LinesUpTo
    <3>5. \A i \in DOMAIN ready : ready[i].result # "ok"  BY <2>1, <3>2
    <3>6. Len(delivered) + 0 = Len(delivered)  BY <2>1
    <3>7. QED  BY <3>1, <3>4, <3>5, <3>6
  <2>6. QED  BY <2>4, <2>5
<1>2. QED  BY <1>1, ReceiverInvariant, PTL
=============================================================================
