----------------------------- MODULE LruProofs -----------------------------
(***************************************************************************)
(* Theorems about LruSqlite, and about LruStartup, which extends it, for   *)
(* every set of keys, sizes and limits and every bound on the counter and  *)
(* on the faults: first types, the order of the table and the books of a   *)
(* history without faults, then what is kept through crashes and failed    *)
(* statements (lost counters, batches, the total), last which databases a  *)
(* manager is started on.                                                  *)
(***************************************************************************)
EXTENDS LruStartup, DiskUsageProofs

-----------------------------------------------------------------------------
(* Types.  The call in progress names a key the next statement can use.    *)

Growing == op.kind \in {"put_update", "update"}

CallOK ==
  /\ op.kind = "insert" => op.key \in Keys \ rows
  /\ Growing => op.key \in Keys /\ (op.evicted \/ op.key \in rows)
  /\ IF pc \in {"evict", "commit"} THEN op.kind # "none" ELSE op = NoOp
  /\ pc = "commit" => op.kind # "trim" /\ ~op.evicted

TypeInv == TypeOK /\ CallOK

\* The record of a call, and the record of no call.
LEMMA CallFields ==
  ASSUME NEW kind \in {"none", "insert", "put_update", "update", "trim"},
         NEW k \in Keys \union {NoKey}, NEW s \in Nat, NEW r \in Nat
  PROVE  /\ Call(kind, k, s, r) \in Op
         /\ Call(kind, k, s, r).kind = kind /\ Call(kind, k, s, r).key = k
         /\ Call(kind, k, s, r).size = s /\ Call(kind, k, s, r).required = r
         /\ ~Call(kind, k, s, r).evicted
BY DEF Call, Op

LEMMA NoOpFields == NoOp \in Op /\ NoOp.kind = "none" /\ NoOp.required = 0 /\ ~NoOp.evicted
BY CallFields DEF NoOp

LEMMA TrimFields ==
  LET call == Call("trim", NoKey, 0, 0)
  IN  call \in Op /\ call.kind = "trim" /\ call.size = 0 /\ call.required = 0
BY CallFields

LEMMA InitType == Init => TypeInv
BY LruAssumption, NoOpFields DEF Init, TypeInv, TypeOK, CallOK, Growing, Meta, ZeroMeta

LEMMA LifecycleType == TypeInv /\ Lifecycle => TypeInv'
<1> SUFFICES ASSUME TypeInv, Lifecycle PROVE TypeInv'
  OBVIOUS
<1> USE LruAssumption, NoOpFields DEF TypeInv, TypeOK, CallOK, Growing
<1>1. CASE Construct  BY <1>1 DEF Construct
<1>2. CASE InitAccept
  <2>1. op = NoOp  BY <1>2 DEF InitAccept
  <2>2. CASE disk.cache_size > disk.max_size
    BY <1>2, <2>1, <2>2, TrimFields DEF InitAccept, Begin
  <2>3. CASE ~(disk.cache_size > disk.max_size)
    <3>1. pc' = "idle" /\ op' = NoOp  BY <1>2, <2>1, <2>3 DEF InitAccept
    <3>2. QED  BY <1>2, <3>1 DEF InitAccept
  <2>4. QED  BY <2>2, <2>3
<1>3. CASE InitRefuse  BY <1>3 DEF InitRefuse
<1>4. CASE DestroyUninitialised
  BY <1>4 DEF DestroyUninitialised, Stop, ZeroMeta, Meta
<1>5. CASE Backup  BY <1>5 DEF Backup
<1>6. CASE Close  BY <1>6 DEF Close, Stop, ZeroMeta, Meta
<1>7. QED  BY <1>1, <1>2, <1>3, <1>4, <1>5, <1>6 DEF Lifecycle

LEMMA CallType == TypeInv /\ CallStep => TypeInv'
<1> SUFFICES ASSUME TypeInv, CallStep PROVE TypeInv'
  OBVIOUS
<1> USE LruAssumption DEF TypeInv, TypeOK, CallOK, Growing
<1>1. ASSUME NEW k \in Keys, NEW s \in Sizes, PutAbsent(k, s) PROVE TypeInv'
  <2>1. pc' = "evict" /\ op' = Call("insert", k, s, s)
    BY <1>1 DEF PutAbsent, Begin
  <2>2. op' \in Op /\ op'.kind = "insert" /\ op'.key = k
    BY <2>1, CallFields
  <2>3. QED  BY <1>1, <2>1, <2>2 DEF PutAbsent
<1>2. ASSUME NEW k \in Keys, NEW s \in Sizes, PutPresent(k, s) PROVE TypeInv'
  <2>1. meta' \in Meta /\ sequence' \in [Keys -> Nat]
    BY <1>2 DEF PutPresent, Renewed, Meta
  <2>2. CASE s > size[k]
    <3>1. s - size[k] \in Nat  BY <2>2
    <3>2. pc' = "evict" /\ op' = Call("put_update", k, s, s - size[k])
      BY <1>2, <2>2 DEF PutPresent, Begin
    <3>3. op' \in Op /\ op'.kind = "put_update" /\ op'.key = k
      BY <3>1, <3>2, CallFields
    <3>4. QED  BY <1>2, <2>1, <3>2, <3>3 DEF PutPresent, Renewed
  <2>3. CASE ~(s > size[k])  BY <1>2, <2>1, <2>3 DEF PutPresent, Renewed
  <2>4. QED  BY <2>2, <2>3
<1>3. ASSUME NEW k \in Keys, NEW s \in Sizes, Update(k, s) PROVE TypeInv'
  <2>1. /\ op' \in Op /\ op'.kind = "update" /\ op'.key = k /\ ~op'.evicted
        /\ pc' \in {"evict", "commit"}
    <3>1. CASE s > size[k]
      <4>1. s - size[k] \in Nat  BY <3>1
      <4>2. pc' = "evict" /\ op' = Call("update", k, s, s - size[k])
        BY <1>3, <3>1 DEF Update, Begin
      <4>3. QED  BY <4>1, <4>2, CallFields
    <3>2. CASE ~(s > size[k])
      <4>1. pc' = "commit" /\ op' = Call("update", k, s, 0)
        BY <1>3, <3>2 DEF Update
      <4>2. QED  BY <4>1, CallFields
    <3>3. QED  BY <3>1, <3>2
  <2>2. QED  BY <1>3, <2>1 DEF Update
<1>4. ASSUME NEW k \in Keys, Renew(k) PROVE TypeInv'
  BY <1>4 DEF Renew, Renewed, Meta
<1>5. ASSUME NEW max \in Limits, Resize(max) PROVE TypeInv'
  <2>1. op' \in Op /\ op'.kind = "trim" /\ pc' = "evict"
    BY <1>5, TrimFields DEF Resize, Begin
  <2>2. meta' \in Meta  BY <1>5 DEF Resize, Meta
  <2>3. QED  BY <1>5, <2>1, <2>2 DEF Resize
<1>6. QED  BY <1>1, <1>2, <1>3, <1>4, <1>5 DEF CallStep

LEMMA ContinueType == TypeInv /\ Continue => TypeInv'
<1> SUFFICES ASSUME TypeInv, Continue PROVE TypeInv'
  OBVIOUS
<1> USE LruAssumption, NoOpFields DEF TypeInv, TypeOK, CallOK, Growing, Return
<1>1. ASSUME NEW k \in Keys, EvictOldest(k) PROVE TypeInv'
  <2>1. op' \in Op /\ op'.kind = op.kind /\ op'.key = op.key
    BY <1>1 DEF EvictOldest, Op
  <2>2. op'.evicted \/ k # op.key
    BY <1>1 DEF EvictOldest, Op
  <2>3. op.evicted => op'.evicted
    BY <1>1 DEF EvictOldest, Op
  <2>4. meta' \in Meta /\ size' \in [Keys -> Nat] /\ sequence' \in [Keys -> Nat]
    BY <1>1 DEF EvictOldest, Oldest, Delete, Meta
  <2>5. QED  BY <1>1, <2>1, <2>2, <2>3, <2>4 DEF EvictOldest, Oldest, Delete
<1>2. ASSUME NEW k \in Keys, EvictUnderflow(k) PROVE TypeInv'
  BY <1>2 DEF EvictUnderflow, Oldest, Delete, RemoveCallback
<1>3. CASE EvictEmpty  BY <1>3 DEF EvictEmpty, RemoveCallback
<1>4. CASE EvictDone
  <2>1. files' \subseteq Keys  BY <1>4 DEF EvictDone, RemoveCallback
  <2>2. CASE op.kind = "trim" \/ op.evicted
    BY <1>4, <2>1, <2>2 DEF EvictDone
  <2>3. CASE ~(op.kind = "trim" \/ op.evicted)
    <3>1. op.kind # "none" /\ ~op.evicted /\ pc' = "commit" /\ op' = op
      BY <1>4, <2>3 DEF EvictDone
    <3>2. QED  BY <1>4, <2>1, <2>3, <3>1 DEF EvictDone
  <2>4. QED  BY <2>2, <2>3
<1>5. CASE Insert
  <2>1. op.key \in Keys /\ op.size \in Nat  BY <1>5 DEF Insert, Op
  <2>2. meta' \in Meta
    <3>1. meta.cache_size + op.size \in Nat /\ meta.sequence + 1 \in Nat
      BY <2>1 DEF Meta
    <3>2. QED  BY <1>5, <3>1 DEF Insert, Meta
  <2>3. size' \in [Keys -> Nat] /\ sequence' \in [Keys -> Nat]
    BY <1>5, <2>1 DEF Insert, Meta
  <2>4. QED  BY <1>5, <2>1, <2>2, <2>3 DEF Insert
<1>6. CASE UpdateContent
  <2>1. op.key \in Keys /\ op.size \in Nat /\ size[op.key] \in Nat
    <3>1. op.kind \in {"put_update", "update"}  BY <1>6 DEF UpdateContent, Op
    <3>2. QED  BY <3>1 DEF Op
  <2>2. meta' \in Meta  BY <1>6, <2>1 DEF UpdateContent, Resized, Meta
  <2>3. size' \in [Keys -> Nat]  BY <1>6, <2>1 DEF UpdateContent
  <2>4. QED  BY <1>6, <2>2, <2>3 DEF UpdateContent
<1>7. CASE UpdateUnderflow  BY <1>7 DEF UpdateUnderflow
<1>8. QED  BY <1>1, <1>2, <1>3, <1>4, <1>5, <1>6, <1>7 DEF Continue

LEMMA FaultType == TypeInv /\ FaultStep => TypeInv'
<1> SUFFICES ASSUME TypeInv, FaultStep PROVE TypeInv'
  OBVIOUS
<1> USE LruAssumption, NoOpFields DEF TypeInv, TypeOK, CallOK, Growing, Return, Fault
<1>1. CASE DeleteFails  BY <1>1 DEF DeleteFails
<1>2. CASE InsertFails  BY <1>2 DEF InsertFails
<1>3. CASE UpdateFails
  <2>1. op.key \in Keys /\ op.size \in Nat /\ size[op.key] \in Nat
    <3>1. op.kind \in {"put_update", "update"}  BY <1>3 DEF UpdateFails, Op
    <3>2. QED  BY <3>1 DEF Op
  <2>2. meta' \in Meta  BY <1>3, <2>1 DEF UpdateFails, Resized, Meta
  <2>3. QED  BY <1>3, <2>2 DEF UpdateFails
<1>4. CASE Crash  BY <1>4 DEF Crash, Stop, ZeroMeta, Meta
<1>5. QED  BY <1>1, <1>2, <1>3, <1>4 DEF FaultStep

LEMMA StepType == TypeInv /\ [Next]_vars => TypeInv'
<1>1. TypeInv /\ UNCHANGED vars => TypeInv'
  BY DEF vars, TypeInv, TypeOK, CallOK, Growing
<1>2. QED  BY <1>1, LifecycleType, CallType, ContinueType, FaultType DEF Next

\* Every variable keeps its type; in particular no size_t of the manager is
\* ever taken below zero, after any sequence of calls, crashes and failures.
THEOREM TypeCorrect == Spec => []TypeOK
<1>1. TypeInv => TypeOK  BY DEF TypeInv
<1>2. QED  BY <1>1, InitType, StepType, PTL DEF Spec

\* Every call in progress names a key that its next statement can use
\* (algo_lru_sqlite.cpp:50-190).
THEOREM TypeInvariant == Spec => []TypeInv
BY InitType, StepType, PTL DEF Spec

-----------------------------------------------------------------------------
(* The order of the table.                                                 *)

\* While the manager runs no row is newer than the counter.
LEMMA CounterBounds ==
  ASSUME TypeInv, SequenceOrder, Running, NEW j \in rows
  PROVE  sequence[j] <= meta.sequence
BY DEF SequenceOrder, Newest

\* A row that gets the next number becomes the newest, and stays alone there.
LEMMA NextNumber ==
  ASSUME TypeInv, SequenceOrder, Running, NEW k \in Keys,
         rows' = rows \union {k}, meta'.sequence = meta.sequence + 1,
         sequence' = [sequence EXCEPT ![k] = meta.sequence + 1]
  PROVE  SequenceOrder'
<1>1. sequence \in [Keys -> Nat] /\ rows \subseteq Keys /\ meta.sequence \in Nat
  BY DEF TypeInv, TypeOK, Meta
<1>2. sequence'[k] = meta.sequence + 1 /\ \A j \in rows' \ {k} : j \in rows /\ sequence'[j] = sequence[j]
  BY <1>1
<1>3. \A j \in rows' \ {k} : sequence'[j] < sequence'[k]
  BY <1>1, <1>2, CounterBounds
<1>4. \A j \in rows' : sequence'[j] \in Nat
  BY <1>1, <1>2
<1>5. \A i, j \in rows' : sequence'[i] = sequence'[j] => i = j
  BY <1>1, <1>2, <1>3, <1>4 DEF SequenceOrder
<1>6. Newest(k)' /\ sequence'[k] = meta'.sequence
  BY <1>1, <1>2, <1>3, <1>4 DEF Newest
<1>7. QED  BY <1>5, <1>6 DEF SequenceOrder

\* The newest row is deleted last, so the counter keeps its row.
LEMMA DeleteOldest ==
  ASSUME TypeInv, SequenceOrder, NEW k \in Keys, Oldest(k), Delete(k),
         Running, meta'.sequence = meta.sequence
  PROVE  SequenceOrder'
<1>1. sequence \in [Keys -> Nat] /\ rows \subseteq Keys
  BY DEF TypeInv, TypeOK
<1>2. \A j \in rows' : j \in rows /\ j # k /\ sequence'[j] = sequence[j]
  BY <1>1 DEF Delete
<1>3. PICK n \in rows : Newest(n) /\ sequence[n] = meta.sequence
  BY DEF SequenceOrder, Oldest
<1>4. ASSUME NEW j \in rows' PROVE n # k
  <2>1. SUFFICES ASSUME n = k PROVE FALSE
    OBVIOUS
  <2>2. sequence[j] = sequence[k]
    BY <1>1, <1>2, <1>3, <2>1 DEF Oldest, Newest
  <2>3. QED  BY <1>2, <2>2 DEF SequenceOrder, Oldest
<1>5. rows' # {} => n \in rows' /\ Newest(n)' /\ sequence'[n] = meta'.sequence
  BY <1>2, <1>3, <1>4 DEF Newest, Delete
<1>6. \A i, j \in rows' : sequence'[i] = sequence'[j] => i = j
  BY <1>2 DEF SequenceOrder
<1>7. QED  BY <1>5, <1>6 DEF SequenceOrder

\* A step that leaves the table, its order and the counter alone.
LEMMA SameOrder ==
  ASSUME SequenceOrder, UNCHANGED <<rows, sequence>>,
         Running' => Running /\ meta'.sequence = meta.sequence
  PROVE  SequenceOrder'
BY DEF SequenceOrder, Newest

LEMMA InitOrder == Init => SequenceOrder
BY DEF Init, SequenceOrder, Running

LEMMA StepOrder == TypeInv /\ SequenceOrder /\ [Next]_vars => SequenceOrder'
<1> SUFFICES ASSUME TypeInv, SequenceOrder, [Next]_vars PROVE SequenceOrder'
  OBVIOUS
<1>1. CASE Lifecycle
  <2>1. CASE InitAccept
    <3>1. meta' = disk /\ rows' = rows /\ sequence' = sequence
      BY <2>1 DEF InitAccept
    <3>2. rows # {} => \E k \in rows : Newest(k) /\ sequence[k] = disk.sequence
      BY <2>1 DEF InitAccept, Accepts
    <3>3. QED  BY <3>1, <3>2 DEF SequenceOrder, Newest
  <2>2. CASE Construct \/ InitRefuse \/ DestroyUninitialised
    <3>1. ~Running' /\ UNCHANGED <<rows, sequence>>
      BY <2>2 DEF Construct, InitRefuse, DestroyUninitialised, Stop, Running
    <3>2. QED  BY <3>1, SameOrder
  <2>3. CASE Backup \/ Close
    <3>1. UNCHANGED <<rows, sequence>> /\ (Running' => UNCHANGED <<pc, meta>>)
      BY <2>3 DEF Backup, Close, Stop, Running
    <3>2. QED  BY <3>1, SameOrder DEF Running
  <2>4. QED  BY <1>1, <2>1, <2>2, <2>3 DEF Lifecycle
<1>2. CASE CallStep
  <2>1. ASSUME NEW k \in Keys, pc = "idle", k \in rows, Renewed(k) PROVE SequenceOrder'
    <3>1. rows' = rows \union {k} /\ meta'.sequence = meta.sequence + 1
      BY <2>1 DEF Renewed, TypeInv, TypeOK, Meta
    <3>2. sequence' = [sequence EXCEPT ![k] = meta.sequence + 1]
      BY <2>1 DEF Renewed
    <3>3. QED  BY <2>1, <3>1, <3>2, NextNumber DEF Running
  <2>2. ASSUME NEW k \in Keys, NEW s \in Sizes, PutPresent(k, s) PROVE SequenceOrder'
    BY <2>1, <2>2 DEF PutPresent
  <2>3. ASSUME NEW k \in Keys, Renew(k) PROVE SequenceOrder'
    BY <2>1, <2>3 DEF Renew
  <2>4. ASSUME NEW k \in Keys, NEW s \in Sizes, PutAbsent(k, s) \/ Update(k, s)
        PROVE  SequenceOrder'
    <3>1. Running /\ UNCHANGED <<rows, sequence, meta>>
      BY <2>4 DEF PutAbsent, Update, Running
    <3>2. QED  BY <3>1, SameOrder
  <2>5. ASSUME NEW max \in Limits, Resize(max) PROVE SequenceOrder'
    <3>1. Running /\ UNCHANGED <<rows, sequence>> /\ meta'.sequence = meta.sequence
      BY <2>5 DEF Resize, Running, TypeInv, TypeOK, Meta
    <3>2. QED  BY <3>1, SameOrder
  <2>6. QED  BY <1>2, <2>2, <2>3, <2>4, <2>5 DEF CallStep
<1>3. CASE Continue
  <2>1. ASSUME NEW k \in Keys, EvictOldest(k) \/ EvictUnderflow(k) PROVE SequenceOrder'
    <3>1. Running /\ Oldest(k) /\ Delete(k) /\ meta'.sequence = meta.sequence
      BY <2>1 DEF EvictOldest, EvictUnderflow, Running, TypeInv, TypeOK, Meta
    <3>2. QED  BY <3>1, DeleteOldest
  <2>2. CASE Insert
    <3>1. op.key \in Keys /\ Running /\ rows' = rows \union {op.key}
      BY <2>2 DEF Insert, TypeInv, CallOK, Running
    <3>2. meta'.sequence = meta.sequence + 1
      BY <2>2 DEF Insert, TypeInv, TypeOK, Meta
    <3>3. sequence' = [sequence EXCEPT ![op.key] = meta.sequence + 1]
      BY <2>2 DEF Insert
    <3>4. QED  BY <3>1, <3>2, <3>3, NextNumber
  <2>3. CASE EvictEmpty \/ EvictDone \/ UpdateContent \/ UpdateUnderflow
    <3>1. Running /\ UNCHANGED <<rows, sequence>> /\ meta'.sequence = meta.sequence
      BY <2>3 DEF EvictEmpty, EvictDone, UpdateContent, UpdateUnderflow, Resized,
                  Running, TypeInv, TypeOK, Meta
    <3>2. QED  BY <3>1, SameOrder
  <2>4. QED  BY <1>3, <2>1, <2>2, <2>3 DEF Continue
<1>4. CASE FaultStep
  <2>1. UNCHANGED <<rows, sequence>>
    BY <1>4 DEF FaultStep, DeleteFails, InsertFails, UpdateFails, Crash, Stop
  <2>2. Running' => Running /\ meta'.sequence = meta.sequence
    BY <1>4 DEF FaultStep, DeleteFails, InsertFails, UpdateFails, Crash, Stop, Resized,
                Running, TypeInv, TypeOK, Meta
  <2>3. QED  BY <2>1, <2>2, SameOrder
<1>5. CASE UNCHANGED vars
  BY <1>5, SameOrder DEF vars, Running
<1>6. QED  BY <1>1, <1>2, <1>3, <1>4, <1>5 DEF Next

\* The rows of the table are in the order of their last use at every moment,
\* and the counter of a running manager is that of the newest row: crashes
\* and failed statements never make two rows share a number.
THEOREM OrderIsKept == Spec => []SequenceOrder
<1>1. Init => TypeInv /\ SequenceOrder  BY InitType, InitOrder
<1>2. TypeInv /\ SequenceOrder /\ [Next]_vars => (TypeInv /\ SequenceOrder)'
  BY StepType, StepOrder
<1>3. QED  BY <1>1, <1>2, PTL DEF Spec

-----------------------------------------------------------------------------
(* The table implements an LRU cache.                                      *)

\* A row that gets the next number is the most recent one.
LEMMA NumberIsTouch ==
  ASSUME TypeInv, SequenceOrder, Running, NEW k \in Keys,
         rows' = rows \union {k},
         sequence' = [sequence EXCEPT ![k] = meta.sequence + 1]
  PROVE  Older' = (Older \ ({k} \X rows)) \union ((rows \ {k}) \X {k})
<1>1. sequence \in [Keys -> Nat] /\ rows \subseteq Keys /\ meta.sequence \in Nat
  BY DEF TypeInv, TypeOK, Meta
<1>2. sequence'[k] = meta.sequence + 1 /\ \A j \in rows \ {k} : sequence'[j] = sequence[j]
  BY <1>1
<1>3. \A j \in rows : sequence[j] <= meta.sequence
  BY CounterBounds
<1>4. \A j \in rows \ {k} : sequence'[j] < sequence'[k] /\ ~(sequence'[k] < sequence'[j])
  BY <1>1, <1>2, <1>3
<1>5. ASSUME NEW i \in rows', NEW j \in rows'
      PROVE  sequence'[i] < sequence'[j] <=>
               \/ i # k /\ j # k /\ sequence[i] < sequence[j]
               \/ i # k /\ j = k
  BY <1>1, <1>2, <1>4
<1>6. ASSUME NEW i \in rows', NEW j \in rows'
      PROVE  <<i, j>> \in Older' <=>
               <<i, j>> \in (Older \ ({k} \X rows)) \union ((rows \ {k}) \X {k})
  <2>1. <<i, j>> \in Older' <=> sequence'[i] < sequence'[j]
    BY DEF Older
  <2>2. CASE j = k
    BY <1>1, <1>5, <2>1, <2>2 DEF Older
  <2>3. CASE j # k
    BY <1>1, <1>5, <2>1, <2>3 DEF Older
  <2>4. QED  BY <2>2, <2>3
<1>7. Older' \subseteq rows' \X rows' /\ Older \subseteq rows' \X rows'
  BY DEF Older
<1>8. (rows \ {k}) \X {k} \subseteq rows' \X rows'
  OBVIOUS
<1>9. QED
  BY <1>6, <1>7, <1>8

LEMMA InitRefines == Init => Recency!Init
BY DEF Init, Recency!Init, Older

LEMMA StepRefines == TypeInv /\ SequenceOrder /\ [Next]_vars => [Recency!Next]_Recency!vars
<1> SUFFICES ASSUME TypeInv, SequenceOrder, [Next]_vars
             PROVE  [Recency!Next]_Recency!vars
  OBVIOUS
<1>1. ASSUME UNCHANGED <<rows, sequence>> PROVE UNCHANGED Recency!vars
  BY <1>1 DEF Recency!vars, Older
<1>2. ASSUME NEW k \in Keys, pc = "idle", k \in rows, Renewed(k) PROVE Recency!Touch(k)
  <2>1. rows' = rows /\ rows' = rows \union {k}  BY <1>2 DEF Renewed
  <2>2. Older' = (Older \ ({k} \X rows)) \union ((rows \ {k}) \X {k})
    BY <1>2, <2>1, NumberIsTouch DEF Renewed, Running
  <2>3. QED  BY <1>2, <2>1, <2>2 DEF Recency!Touch
<1>3. ASSUME Insert PROVE Recency!Add(op.key)
  <2>1. op.key \in Keys \ rows /\ rows' = rows \union {op.key}
    BY <1>3 DEF Insert, TypeInv, CallOK
  <2>2. Older' = (Older \ ({op.key} \X rows)) \union ((rows \ {op.key}) \X {op.key})
    BY <1>3, <2>1, NumberIsTouch DEF Insert, Running
  <2>3. Older \intersect ({op.key} \X rows) = {} /\ rows \ {op.key} = rows
    BY <2>1 DEF Older
  <2>4. Older' = Older \union (rows \X {op.key})
    BY <2>2, <2>3
  <2>5. QED  BY <2>1, <2>4 DEF Recency!Add
<1>4. ASSUME NEW k \in Keys, Oldest(k), Delete(k) PROVE Recency!Evict(k)
  <2>1. sequence \in [Keys -> Nat] /\ rows \subseteq Keys  BY DEF TypeInv, TypeOK
  <2>2. k \in rows /\ rows' = rows \ {k}  BY <1>4 DEF Oldest, Delete
  <2>3. \A j \in rows \ {k} : sequence[k] < sequence[j]
    BY <1>4, <2>1 DEF Oldest, SequenceOrder
  <2>4. \A j \in rows \ {k} : <<k, j>> \in Older
    BY <2>2, <2>3 DEF Older
  <2>5. \A j \in rows' : sequence'[j] = sequence[j]
    BY <1>4, <2>1 DEF Delete
  <2>6. Older' = Older \intersect (rows' \X rows')
    BY <2>2, <2>5 DEF Older
  <2>7. QED  BY <2>2, <2>4, <2>6 DEF Recency!Evict
<1>5. CASE Lifecycle
  BY <1>1, <1>5 DEF Lifecycle, Construct, InitAccept, InitRefuse, DestroyUninitialised,
                    Backup, Close, Stop
<1>6. CASE CallStep
  <2>1. ASSUME NEW k \in Keys, NEW s \in Sizes, PutPresent(k, s) PROVE Recency!Next
    BY <1>2, <2>1 DEF PutPresent, Recency!Next
  <2>2. ASSUME NEW k \in Keys, Renew(k) PROVE Recency!Next
    BY <1>2, <2>2 DEF Renew, Recency!Next
  <2>3. ASSUME NEW k \in Keys, NEW s \in Sizes, PutAbsent(k, s) \/ Update(k, s)
        PROVE  UNCHANGED Recency!vars
    BY <1>1, <2>3 DEF PutAbsent, Update
  <2>4. ASSUME NEW max \in Limits, Resize(max) PROVE UNCHANGED Recency!vars
    BY <1>1, <2>4 DEF Resize
  <2>5. QED  BY <1>6, <2>1, <2>2, <2>3, <2>4 DEF CallStep
<1>7. CASE Continue
  <2>1. ASSUME NEW k \in Keys, EvictOldest(k) \/ EvictUnderflow(k) PROVE Recency!Next
    BY <1>4, <2>1 DEF EvictOldest, EvictUnderflow, Recency!Next
  <2>2. ASSUME Insert PROVE Recency!Next
    <3>1. op.key \in Keys  BY <2>2 DEF Insert, TypeInv, CallOK
    <3>2. QED  BY <1>3, <2>2, <3>1 DEF Recency!Next
  <2>3. CASE EvictEmpty \/ EvictDone \/ UpdateContent \/ UpdateUnderflow
    BY <1>1, <2>3 DEF EvictEmpty, EvictDone, UpdateContent, UpdateUnderflow
  <2>4. QED  BY <1>7, <2>1, <2>2, <2>3 DEF Continue
<1>8. CASE FaultStep
  BY <1>1, <1>8 DEF FaultStep, DeleteFails, InsertFails, UpdateFails, Crash, Stop
<1>9. CASE UNCHANGED vars
  BY <1>1, <1>9 DEF vars
<1>10. QED  BY <1>5, <1>6, <1>7, <1>8, <1>9 DEF Next

\* The table behaves as the abstract cache does: through crashes, restarts
\* and failed statements, the only key that ever leaves is the one used
\* longest ago.
THEOREM ImplementsRecencyCache == Spec => IsRecencyCache
<1>1. TypeInv /\ SequenceOrder /\ [Next]_vars => (TypeInv /\ SequenceOrder)'
  BY StepType, StepOrder
<1>2. QED
  BY <1>1, InitType, InitOrder, InitRefines, StepRefines, PTL
     DEF Spec, IsRecencyCache, Recency!Spec

-----------------------------------------------------------------------------
(* Without faults the books are exact.                                     *)

\* What the total and the call in progress say, as long as nothing failed.
\* Between Close and the next init() the row of metaLRU takes the place of
\* meta_lru.
Total == IF Running THEN meta.cache_size ELSE disk.cache_size

Room ==
  /\ pc = "idle" => meta.cache_size <= meta.max_size
  /\ pc = "commit" => ~Over
  /\ pc \in {"evict", "commit"} => op.size <= meta.max_size /\ op.required <= meta.max_size
  /\ op.kind = "insert" => op.required = op.size
  /\ Growing /\ ~op.evicted => op.size <= size[op.key] + op.required
  /\ op.kind = "put_update" => /\ ~op.evicted
                               /\ op.required = op.size - size[op.key]
                               /\ Newest(op.key)
  /\ op.kind \in {"none", "trim"} => op.required = 0

BooksInv == /\ IsFiniteSet(Blocks(rows, size))
            /\ faults = 0 => Total = Usage(rows, size) /\ Room

IInv == TypeInv /\ SequenceOrder /\ BooksInv

\* The naturals the arithmetic below is about.
LEMMA Numbers ==
  ASSUME TypeInv
  PROVE  /\ rows \subseteq Keys /\ size \in [Keys -> Nat] /\ sequence \in [Keys -> Nat]
         /\ meta.cache_size \in Nat /\ meta.max_size \in Nat /\ meta.sequence \in Nat
         /\ disk.cache_size \in Nat /\ disk.max_size \in Nat /\ disk.sequence \in Nat
         /\ op.size \in Nat /\ op.required \in Nat /\ faults \in Nat
BY DEF TypeInv, TypeOK, Meta, Op

LEMMA DeleteUsage ==
  ASSUME TypeInv, IsFiniteSet(Blocks(rows, size)), NEW k \in rows, Delete(k)
  PROVE  /\ IsFiniteSet(Blocks(rows, size))'
         /\ Usage(rows, size) = Usage(rows, size)' + size[k]
         /\ Usage(rows, size)' \in Nat
<1>1. size[k] \in Nat /\ rows' = rows \ {k} /\ \A j \in rows \ {k} : size[j] = size'[j]
  BY Numbers DEF Delete
<1>2. /\ IsFiniteSet(Blocks(rows \ {k}, size))
      /\ Usage(rows, size) = Usage(rows \ {k}, size) + size[k]
  BY <1>1, UsageRemove
<1>3. /\ Blocks(rows \ {k}, size) = Blocks(rows \ {k}, size')
      /\ Usage(rows \ {k}, size) = Usage(rows \ {k}, size')
  BY <1>1, UsageSame
<1>4. QED  BY <1>1, <1>2, <1>3, UsageType

LEMMA InsertUsage ==
  ASSUME TypeInv, IsFiniteSet(Blocks(rows, size)), NEW k \in Keys \ rows, NEW n \in Nat,
         rows' = rows \union {k}, size' = [size EXCEPT ![k] = n]
  PROVE  /\ IsFiniteSet(Blocks(rows, size))'
         /\ Usage(rows, size)' = Usage(rows, size) + n
<1>1. size'[k] = n /\ size'[k] \in Nat /\ \A j \in rows : size[j] = size'[j]
  BY Numbers
<1>2. Blocks(rows, size) = Blocks(rows, size') /\ Usage(rows, size) = Usage(rows, size')
  BY <1>1, UsageSame
<1>3. ASSUME NEW R, NEW tz, R = rows, tz = size'
      PROVE  /\ IsFiniteSet(Blocks(R \union {k}, tz))
             /\ Usage(R \union {k}, tz) = Usage(R, tz) + tz[k]
  <2>1. k \notin R /\ tz[k] \in Nat /\ IsFiniteSet(Blocks(R, tz))
    BY <1>1, <1>2, <1>3
  <2>2. QED  BY ONLY <2>1, UsageAdd
<1>4. QED  BY <1>1, <1>2, <1>3

LEMMA UpdateUsage ==
  ASSUME TypeInv, IsFiniteSet(Blocks(rows, size)), NEW k \in rows, NEW n \in Nat,
         rows' = rows, size' = [size EXCEPT ![k] = n]
  PROVE  /\ IsFiniteSet(Blocks(rows, size))'
         /\ Usage(rows, size)' = Usage(rows, size) - size[k] + n
<1>1. /\ size[k] \in Nat /\ size'[k] = n /\ size'[k] \in Nat
      /\ \A j \in rows \ {k} : size[j] = size'[j]
  BY Numbers
<1>2. Blocks(rows \ {k}, size) = Blocks(rows \ {k}, size')
  BY <1>1, UsageSame
<1>3. ASSUME NEW R, NEW sz, NEW tz, R = rows, sz = size, tz = size'
      PROVE  /\ IsFiniteSet(Blocks(R, tz))
             /\ Usage(R, tz) = Usage(R, sz) - sz[k] + tz[k]
  <2>1. /\ k \in R /\ sz[k] \in Nat /\ tz[k] \in Nat /\ IsFiniteSet(Blocks(R, sz))
        /\ Blocks(R \ {k}, sz) = Blocks(R \ {k}, tz)
    BY <1>1, <1>2, <1>3
  <2>2. QED  BY ONLY <2>1, UsageResize
<1>4. /\ IsFiniteSet(Blocks(rows, size'))
      /\ Usage(rows, size') = Usage(rows, size) - size[k] + size'[k]
  BY ONLY <1>3
<1>5. Blocks(rows, size)' = Blocks(rows, size') /\ Usage(rows, size)' = Usage(rows, size')
  OBVIOUS
<1>6. QED  BY <1>1, <1>4, <1>5

LEMMA InitBooks == Init => BooksInv
BY UsageEmpty, NoOpFields DEF Init, BooksInv, Total, Room, Running, Growing

LEMMA LifecycleBooks == IInv /\ Lifecycle => BooksInv'
<1> SUFFICES ASSUME IInv, Lifecycle PROVE BooksInv'
  OBVIOUS
<1>1. TypeInv /\ BooksInv /\ UNCHANGED <<rows, size, sequence>>
  BY DEF IInv, Lifecycle, Construct, InitAccept, InitRefuse, DestroyUninitialised,
         Backup, Close, Stop
<1>2. IsFiniteSet(Blocks(rows, size))' /\ Usage(rows, size)' = Usage(rows, size)
  BY <1>1 DEF BooksInv
<1> SUFFICES ASSUME faults' = 0 PROVE Total' = Total /\ Room' /\ faults = 0
  BY <1>1, <1>2 DEF BooksInv
<1> USE Numbers DEF BooksInv, Total, Room, Running, Growing, Newest
<1>3. CASE Construct  BY <1>1, <1>3 DEF Construct
<1>4. CASE InitAccept
  <2>1. CASE disk.cache_size > disk.max_size
    BY <1>1, <1>4, <2>1, TrimFields DEF InitAccept, Begin
  <2>2. CASE ~(disk.cache_size > disk.max_size)
    BY <1>1, <1>4, <2>2 DEF InitAccept
  <2>3. QED  BY <2>1, <2>2
<1>5. CASE InitRefuse  BY <1>1, <1>5 DEF InitRefuse
<1>6. CASE DestroyUninitialised
  <2>1. faults = 0 /\ meta = disk  BY <1>1, <1>6 DEF DestroyUninitialised
  <2>2. QED  BY <1>1, <1>6, <2>1, NoOpFields DEF DestroyUninitialised, Stop
<1>7. CASE Backup  BY <1>1, <1>7 DEF Backup
<1>8. CASE Close  BY <1>1, <1>8, NoOpFields DEF Close, Stop
<1>9. QED  BY <1>3, <1>4, <1>5, <1>6, <1>7, <1>8 DEF Lifecycle

LEMMA CallBooks == IInv /\ CallStep => BooksInv'
<1> SUFFICES ASSUME IInv, CallStep PROVE BooksInv'
  OBVIOUS
<1>1. TypeInv /\ SequenceOrder /\ BooksInv /\ pc = "idle" /\ UNCHANGED <<rows, size, faults>>
  BY DEF IInv, CallStep, PutAbsent, PutPresent, Update, Renew, Renewed, Resize
<1>2. IsFiniteSet(Blocks(rows, size))' /\ Usage(rows, size)' = Usage(rows, size)
  BY <1>1 DEF BooksInv
<1> SUFFICES ASSUME faults' = 0 PROVE Total' = Total /\ Room'
  BY <1>1, <1>2 DEF BooksInv
<1>3. TypeInv'  BY <1>1, CallType
<1>4. /\ meta.cache_size = Total /\ meta.cache_size <= meta.max_size /\ Room
  BY <1>1 DEF BooksInv, Total, Room, Running
<1>5. ASSUME NEW k \in Keys, NEW s \in Sizes, PutAbsent(k, s) PROVE Total' = Total /\ Room'
  <2>1. s \in Nat /\ s <= meta.max_size /\ meta' = meta
    BY <1>5, LruAssumption DEF PutAbsent, ValidSize
  <2>2. pc' = "evict" /\ op' = Call("insert", k, s, s)
    BY <1>5 DEF PutAbsent, Begin
  <2>3. op'.kind = "insert" /\ op'.size = s /\ op'.required = s
    BY <2>1, <2>2, CallFields
  <2>4. QED  BY <1>4, <2>1, <2>2, <2>3 DEF Total, Room, Running, Growing
<1>6. ASSUME NEW k \in Keys, k \in rows, Renewed(k)
      PROVE  /\ meta'.cache_size = meta.cache_size /\ meta'.max_size = meta.max_size
             /\ Newest(k)'
  <2>1. sequence' = [sequence EXCEPT ![k] = meta.sequence + 1] /\ rows' = rows
    BY <1>6 DEF Renewed
  <2>2. \A j \in rows : sequence[j] <= meta.sequence
    BY <1>1, CounterBounds DEF Running
  <2>3. Newest(k)'  BY <1>1, <1>6, <2>1, <2>2, Numbers DEF Newest
  <2>4. QED  BY <1>1, <1>6, <2>3 DEF Renewed, TypeInv, TypeOK, Meta
<1>7. ASSUME NEW k \in Keys, NEW s \in Sizes, PutPresent(k, s) PROVE Total' = Total /\ Room'
  <2>1. s \in Nat /\ s <= meta.max_size /\ size[k] \in Nat /\ k \in rows
    BY <1>1, <1>7, LruAssumption, Numbers DEF PutPresent, ValidSize
  <2>2. /\ meta'.cache_size = meta.cache_size /\ meta'.max_size = meta.max_size
        /\ Newest(k)'
    BY <1>6, <1>7, <2>1 DEF PutPresent
  <2>3. CASE s > size[k]
    <3>1. s - size[k] \in Nat /\ s - size[k] <= meta.max_size
      BY <1>1, <2>1, <2>3, Numbers
    <3>2. pc' = "evict" /\ op' = Call("put_update", k, s, s - size[k])
      BY <1>7, <2>3 DEF PutPresent, Begin
    <3>3. /\ op'.kind = "put_update" /\ op'.key = k
          /\ op'.size = s /\ op'.required = s - size[k] /\ ~op'.evicted
      BY <2>1, <3>1, <3>2, CallFields
    <3>4. QED
      BY <1>1, <1>4, <2>1, <2>2, <3>1, <3>2, <3>3, Numbers DEF Total, Room, Running, Growing
  <2>4. CASE ~(s > size[k])
    <3>1. UNCHANGED <<pc, op>>  BY <1>7, <2>4 DEF PutPresent
    <3>2. op = NoOp  BY <1>1 DEF TypeInv, CallOK
    <3>3. QED
      BY <1>1, <1>4, <2>2, <3>1, <3>2, NoOpFields DEF Total, Room, Running, Growing
  <2>5. QED  BY <2>3, <2>4
<1>8. ASSUME NEW k \in Keys, NEW s \in Sizes, Update(k, s) PROVE Total' = Total /\ Room'
  <2>1. s \in Nat /\ s <= meta.max_size /\ size[k] \in Nat /\ meta' = meta
    BY <1>1, <1>8, LruAssumption, Numbers DEF Update, ValidSize
  <2>2. CASE s > size[k]
    <3>1. s - size[k] \in Nat /\ s - size[k] <= meta.max_size
      BY <1>1, <2>1, <2>2, Numbers
    <3>2. pc' = "evict" /\ op' = Call("update", k, s, s - size[k])
      BY <1>8, <2>2 DEF Update, Begin
    <3>3. /\ op'.kind = "update" /\ op'.key = k
          /\ op'.size = s /\ op'.required = s - size[k]
      BY <2>1, <3>1, <3>2, CallFields
    <3>4. QED
      BY <1>1, <1>4, <2>1, <3>1, <3>2, <3>3, Numbers DEF Total, Room, Running, Growing
  <2>3. CASE ~(s > size[k])
    <3>1. pc' = "commit" /\ op' = Call("update", k, s, 0)
      BY <1>8, <2>3 DEF Update
    <3>2. op'.kind = "update" /\ op'.key = k /\ op'.size = s /\ op'.required = 0
      BY <2>1, <3>1, CallFields
    <3>3. QED
      BY <1>1, <1>4, <2>1, <2>3, <3>1, <3>2, Numbers DEF Total, Room, Running, Growing, Over
  <2>4. QED  BY <2>2, <2>3
<1>9. ASSUME NEW k \in Keys, Renew(k) PROVE Total' = Total /\ Room'
  <2>1. /\ meta'.cache_size = meta.cache_size /\ meta'.max_size = meta.max_size
        /\ UNCHANGED <<pc, op>> /\ op = NoOp
    BY <1>1, <1>6, <1>9 DEF Renew, TypeInv, CallOK
  <2>2. QED  BY <1>1, <1>4, <2>1, NoOpFields DEF Total, Room, Running, Growing
<1>10. ASSUME NEW max \in Limits, Resize(max) PROVE Total' = Total /\ Room'
  <2>1. /\ meta'.cache_size = meta.cache_size /\ meta'.max_size = max /\ max \in Nat
    BY <1>1, <1>10, LruAssumption DEF Resize, TypeInv, TypeOK, Meta
  <2>2. /\ pc' = "evict" /\ op'.kind = "trim" /\ op'.size = 0 /\ op'.required = 0
    BY <1>10, TrimFields DEF Resize, Begin
  <2>3. QED  BY <1>1, <1>4, <2>1, <2>2 DEF Total, Room, Running, Growing
<1>11. QED  BY <1>5, <1>7, <1>8, <1>9, <1>10 DEF CallStep

\* A deletion takes the entry's size off the total, and never the entry of a
\* put() that makes room for its own larger size: that entry is the newest,
\* so it would be the last one, and alone it fits.
LEMMA EvictBooks ==
  ASSUME IInv, faults = 0, NEW k \in Keys, EvictOldest(k)
  PROVE  BooksInv'
<1>1. TypeInv /\ SequenceOrder /\ IsFiniteSet(Blocks(rows, size)) /\ Room
  BY DEF IInv, BooksInv
<1>2. pc = "evict" /\ pc' = "evict" /\ faults' = 0 /\ k \in rows /\ Delete(k) /\ Over
  BY DEF EvictOldest, Oldest
<1>3. /\ meta'.cache_size = meta.cache_size - size[k]
      /\ meta'.max_size = meta.max_size
  BY <1>1 DEF EvictOldest, TypeInv, TypeOK, Meta
<1>4. /\ IsFiniteSet(Blocks(rows, size))'
      /\ Usage(rows, size) = Usage(rows, size)' + size[k]
      /\ Usage(rows, size)' \in Nat
  BY <1>1, <1>2, DeleteUsage
<1>5. meta.cache_size = Usage(rows, size)
  BY <1>2 DEF IInv, BooksInv, Total, Running
<1>6. Total' = Usage(rows, size)'
  BY <1>1, <1>2, <1>3, <1>4, <1>5, Numbers DEF Total, Running
<1>7. /\ op'.kind = op.kind /\ op'.key = op.key
      /\ op'.size = op.size /\ op'.required = op.required
      /\ op'.evicted = IF k = op.key THEN TRUE ELSE op.evicted
  BY <1>1 DEF EvictOldest, TypeInv, TypeOK, Op
<1>8. ASSUME Growing, ~op'.evicted PROVE op'.size <= size'[op'.key] + op'.required
  <2>1. k # op.key /\ ~op.evicted  BY <1>7, <1>8
  <2>2. size'[op.key] = size[op.key]  BY <1>1, <1>2, <2>1, Numbers DEF Delete
  <2>3. QED  BY <1>1, <1>7, <1>8, <2>1, <2>2 DEF Room
<1>9. ASSUME op.kind = "put_update"
      PROVE  /\ ~op'.evicted /\ Newest(op.key)'
             /\ op'.required = op'.size - size'[op'.key]
  <2>1. op.key \in rows /\ Newest(op.key) /\ ~op.evicted /\ op.required = op.size - size[op.key]
    BY <1>1, <1>9 DEF Room, Newest
  <2>2. ASSUME k = op.key PROVE FALSE
    <3>1. \A j \in rows : sequence[j] = sequence[k]
      BY <1>1, <1>2, <2>1, <2>2, Numbers DEF EvictOldest, Oldest, Newest
    <3>2. rows' = {}
      BY <1>2, <3>1, <1>1 DEF SequenceOrder, Delete
    <3>3. Usage(rows, size)' = 0  BY <3>2, UsageEmpty
    <3>4. meta.cache_size = size[k]  BY <1>1, <1>2, <1>4, <1>5, <3>3, Numbers
    <3>5. op.size <= meta.max_size  BY <1>1, <1>2 DEF Room
    <3>6. QED  BY <1>1, <1>2, <2>1, <2>2, <3>4, <3>5, Numbers DEF Over
  <2>3. size'[op.key] = size[op.key] /\ \A j \in rows' : j \in rows /\ sequence'[j] = sequence[j]
    BY <1>1, <1>2, <2>1, <2>2, Numbers DEF Delete
  <2>4. op.key \in rows'  BY <1>2, <2>1, <2>2 DEF Delete
  <2>5. Newest(op.key)'  BY <1>7, <2>1, <2>3, <2>4 DEF Newest
  <2>6. ~op'.evicted  BY <1>7, <2>1, <2>2
  <2>7. QED  BY <1>7, <2>1, <2>3, <2>5, <2>6
<1>10. Room'
  BY <1>1, <1>2, <1>3, <1>7, <1>8, <1>9 DEF Room, Growing
<1>11. QED  BY <1>4, <1>6, <1>10 DEF BooksInv

LEMMA ContinueBooks == IInv /\ Continue => BooksInv'
<1> SUFFICES ASSUME IInv, Continue PROVE BooksInv'
  OBVIOUS
<1>1. TypeInv /\ SequenceOrder /\ IsFiniteSet(Blocks(rows, size)) /\ Running
  BY DEF IInv, BooksInv, Running, Continue, EvictOldest, EvictUnderflow, EvictEmpty,
         EvictDone, Insert, UpdateContent, UpdateUnderflow
<1>2. faults' = faults
  BY DEF Continue, EvictOldest, EvictUnderflow, EvictEmpty, EvictDone, Insert,
         UpdateContent, UpdateUnderflow
<1>3. faults = 0 => meta.cache_size = Usage(rows, size) /\ Room
  BY <1>1 DEF IInv, BooksInv, Total
<1>4. Usage(rows, size) \in Nat  BY <1>1, UsageType
<1>5. ASSUME NEW k \in Keys, EvictOldest(k) PROVE BooksInv'
  <2>1. IsFiniteSet(Blocks(rows, size))'
    BY <1>1, <1>5, DeleteUsage DEF EvictOldest, Oldest
  <2>2. QED  BY <1>2, <1>5, <2>1, EvictBooks DEF BooksInv
<1>6. ASSUME NEW k \in Keys, EvictUnderflow(k) PROVE BooksInv'
  <2>1. k \in rows /\ Delete(k) /\ meta.cache_size < size[k]
    BY <1>6 DEF EvictUnderflow, Oldest
  <2>2. /\ IsFiniteSet(Blocks(rows, size))' /\ Usage(rows, size)' \in Nat
        /\ Usage(rows, size) = Usage(rows, size)' + size[k]
    BY <1>1, <2>1, DeleteUsage
  <2>3. faults # 0  BY <1>1, <1>3, <2>1, <2>2, Numbers
  <2>4. QED  BY <1>2, <2>2, <2>3 DEF BooksInv
<1>7. ASSUME Return, UNCHANGED <<rows, size, meta>>, faults = 0 => meta.cache_size <= meta.max_size
      PROVE  BooksInv'
  BY <1>1, <1>2, <1>3, <1>7, NoOpFields DEF BooksInv, Total, Room, Running, Return, Growing
<1>8. CASE EvictEmpty
  <2>1. Usage(rows, size) = 0  BY <1>8, UsageEmpty DEF EvictEmpty
  <2>2. QED  BY <1>1, <1>3, <1>7, <1>8, <2>1, Numbers DEF EvictEmpty
<1>9. CASE EvictDone
  <2>1. meta.cache_size <= meta.max_size  BY <1>1, <1>9, Numbers DEF EvictDone, Over
  <2>2. CASE op.kind = "trim" \/ op.evicted
    BY <1>7, <1>9, <2>1, <2>2 DEF EvictDone
  <2>3. CASE ~(op.kind = "trim" \/ op.evicted)
    <3>1. /\ pc = "evict" /\ pc' = "commit" /\ ~Over
          /\ UNCHANGED <<rows, size, sequence, meta, op>>
      BY <1>9, <2>3 DEF EvictDone
    <3>2. faults = 0 => Room'
      BY <1>3, <3>1 DEF Room, Over, Growing, Newest
    <3>3. QED  BY <1>1, <1>2, <1>3, <3>1, <3>2 DEF BooksInv, Total, Running
  <2>4. QED  BY <2>2, <2>3
<1>10. CASE Insert
  <2>1. /\ op.key \in Keys \ rows /\ rows' = rows \union {op.key}
        /\ size' = [size EXCEPT ![op.key] = op.size] /\ op.size \in Nat
    BY <1>1, <1>10, Numbers DEF Insert, TypeInv, CallOK
  <2>2. IsFiniteSet(Blocks(rows, size))' /\ Usage(rows, size)' = Usage(rows, size) + op.size
    BY <1>1, <2>1, InsertUsage
  <2>3. meta'.cache_size = meta.cache_size + op.size /\ meta'.max_size = meta.max_size
    BY <1>1, <1>10 DEF Insert, TypeInv, TypeOK, Meta
  <2>4. faults = 0 => meta'.cache_size <= meta'.max_size
    BY <1>1, <1>3, <1>10, <2>3, Numbers DEF Insert, Room, Over
  <2>5. pc' = "idle" /\ op' = NoOp  BY <1>10 DEF Insert, Return
  <2>6. QED
    BY <1>2, <1>3, <2>2, <2>3, <2>4, <2>5, NoOpFields
       DEF BooksInv, Total, Room, Running, Growing
<1>11. CASE UpdateContent
  <2>1. Growing /\ ~op.evicted /\ op.key \in rows /\ op.size \in Nat
    BY <1>1, <1>11, Numbers DEF UpdateContent, TypeInv, TypeOK, CallOK, Growing, Op
  <2>2. rows' = rows /\ size' = [size EXCEPT ![op.key] = op.size] /\ size[op.key] \in Nat
    BY <1>1, <1>11, <2>1, Numbers DEF UpdateContent
  <2>3. /\ IsFiniteSet(Blocks(rows, size))'
        /\ Usage(rows, size)' = Usage(rows, size) - size[op.key] + op.size
    BY <1>1, <2>1, <2>2, UpdateUsage
  <2>4. /\ meta'.cache_size = meta.cache_size - size[op.key] + op.size
        /\ meta'.max_size = meta.max_size
    BY <1>1, <1>11 DEF UpdateContent, Resized, TypeInv, TypeOK, Meta
  <2>5. faults = 0 => meta'.cache_size <= meta'.max_size
    BY <1>1, <1>3, <1>11, <2>1, <2>2, <2>4, Numbers DEF UpdateContent, Room, Over
  <2>6. pc' = "idle" /\ op' = NoOp  BY <1>11 DEF UpdateContent, Return
  <2>7. QED
    BY <1>2, <1>3, <2>3, <2>4, <2>5, <2>6, NoOpFields
       DEF BooksInv, Total, Room, Running, Growing
<1>12. CASE UpdateUnderflow
  <2>1. Growing /\ op.key \in rows /\ meta.cache_size < size[op.key]
    BY <1>1, <1>12 DEF UpdateUnderflow, TypeInv, TypeOK, CallOK, Growing, Op
  <2>2. Usage(rows, size) = Usage(rows \ {op.key}, size) + size[op.key]
        /\ Usage(rows \ {op.key}, size) \in Nat
    BY <1>1, <2>1, Numbers, UsageRemove, UsageType
  <2>3. faults # 0  BY <1>1, <1>3, <2>1, <2>2, Numbers
  <2>4. QED  BY <1>7, <1>12, <2>3 DEF UpdateUnderflow
<1>13. QED
  BY <1>5, <1>6, <1>8, <1>9, <1>10, <1>11, <1>12 DEF Continue

LEMMA FaultBooks == IInv /\ FaultStep => BooksInv'
<1> SUFFICES ASSUME IInv, FaultStep PROVE BooksInv'
  OBVIOUS
<1>1. faults \in Nat /\ IsFiniteSet(Blocks(rows, size))
  BY Numbers DEF IInv, BooksInv
<1>2. faults' = faults + 1 /\ UNCHANGED <<rows, size>>
  BY DEF FaultStep, DeleteFails, InsertFails, UpdateFails, Crash, Fault, Stop
<1>3. QED  BY <1>1, <1>2 DEF BooksInv

LEMMA StepBooks == IInv /\ [Next]_vars => IInv'
<1> SUFFICES ASSUME IInv, [Next]_vars PROVE IInv'
  OBVIOUS
<1>1. TypeInv' /\ SequenceOrder'
  BY StepType, StepOrder DEF IInv
<1>2. ASSUME UNCHANGED vars PROVE BooksInv'
  BY <1>2 DEF vars, IInv, BooksInv, Total, Room, Running, Growing, Over, Newest
<1>3. BooksInv'
  BY <1>2, LifecycleBooks, CallBooks, ContinueBooks, FaultBooks DEF Next
<1>4. QED  BY <1>1, <1>3 DEF IInv

\* The three layers together: types and calls, order, and the books of a
\* history without faults.
THEOREM Invariant == Spec => []IInv
<1>1. Init => IInv  BY InitType, InitOrder, InitBooks DEF IInv
<1>2. QED  BY <1>1, StepBooks, PTL DEF Spec

LEMMA FitsHere == IInv => Fits
<1> SUFFICES ASSUME IInv PROVE Fits
  OBVIOUS
<1>1. TypeInv /\ IsFiniteSet(Blocks(rows, size))  BY DEF IInv, BooksInv
<1>2. Usage(rows, size) \in Nat  BY <1>1, UsageType
<1>3. QED  BY <1>1, <1>2, Numbers DEF IInv, BooksInv, Total, Room, Fits, Drift

\* Without faults the total equals the bytes in the table, and between calls
\* the cache is within its limit.
THEOREM CacheFits == Spec => []Fits
BY FitsHere, Invariant, PTL

\* Without faults put() never evicts the cached key it was called for.
THEOREM PutIsSafe == Spec => []PutKeepsItsKey
<1>1. IInv => PutKeepsItsKey
  BY DEF IInv, BooksInv, Room, PutKeepsItsKey, Newest
<1>2. QED  BY <1>1, Invariant, PTL

LEMMA NoDbErrorHere == IInv => NoDbError
<1> SUFFICES ASSUME IInv, faults = 0 PROVE NoDbError
  BY DEF NoDbError
<1>1. TypeInv /\ IsFiniteSet(Blocks(rows, size)) /\ Room
  BY DEF IInv, BooksInv
<1>2. Running => meta.cache_size = Usage(rows, size)
  BY DEF IInv, BooksInv, Total
<1>3. ASSUME NEW k \in rows PROVE size[k] <= Usage(rows, size)
  <2>1. size[k] \in Nat  BY <1>1, Numbers
  <2>2. IsFiniteSet(Blocks(rows \ {k}, size)) /\ Usage(rows, size) = Usage(rows \ {k}, size) + size[k]
    BY <1>1, <2>1, UsageRemove
  <2>3. Usage(rows \ {k}, size) \in Nat  BY <2>2, UsageType
  <2>4. QED  BY <2>1, <2>2, <2>3
<1>4. ASSUME pc = "evict", Over PROVE rows # {}
  <2>1. rows = {} => meta.cache_size = 0
    BY <1>2, <1>4, UsageEmpty DEF Running
  <2>2. QED  BY <1>1, <1>4, <2>1, Numbers DEF Over, Room
<1>5. ASSUME pc = "commit" PROVE IF op.kind = "insert" THEN op.key \notin rows
                                 ELSE op.key \in rows /\ size[op.key] <= meta.cache_size
  BY <1>1, <1>2, <1>3, <1>5 DEF TypeInv, TypeOK, CallOK, Growing, Op, Running
<1>6. QED  BY <1>2, <1>3, <1>4, <1>5 DEF NoDbError, Running

\* Without faults no call ends in a "db error" exception.
THEOREM NoCallThrows == Spec => []NoDbError
BY NoDbErrorHere, Invariant, PTL

-----------------------------------------------------------------------------
(* Lost counters.  A row that was numbered since the last backup() is      *)
(* ahead of the counter on the disk.                                       *)

Ahead == \A k \in unsaved \intersect rows : disk.sequence < sequence[k]

RecoveryInv ==
  /\ Ahead
  /\ pc = "down" => meta = ZeroMeta
  /\ pc = "new" => meta = ZeroMeta \/ meta = disk
  /\ Running => disk.sequence <= meta.sequence

LEMMA InitRecovery == Init => RecoveryInv
BY DEF Init, RecoveryInv, Ahead, Running

\* A row that gets the next number is ahead as well.
LEMMA NumberedAhead ==
  ASSUME TypeInv, RecoveryInv, Running, NEW k \in Keys,
         sequence' = [sequence EXCEPT ![k] = meta.sequence + 1],
         disk' = disk, rows' = rows \union {k}, unsaved' = unsaved \union {k}
  PROVE  Ahead'
<1>1. /\ sequence \in [Keys -> Nat] /\ rows \subseteq Keys
      /\ meta.sequence \in Nat /\ disk.sequence \in Nat
  BY DEF TypeInv, TypeOK, Meta
<1>2. ASSUME NEW j \in (unsaved \intersect rows)' PROVE disk.sequence < sequence'[j]
  <2>1. CASE j = k  BY <1>1, <2>1 DEF RecoveryInv
  <2>2. CASE j # k  BY <1>1, <1>2, <2>2 DEF RecoveryInv, Ahead
  <2>3. QED  BY <2>1, <2>2
<1>3. QED  BY <1>2 DEF Ahead

LEMMA LifecycleRecovery == TypeInv /\ RecoveryInv /\ Lifecycle => RecoveryInv'
<1> SUFFICES ASSUME TypeInv, RecoveryInv, Lifecycle PROVE RecoveryInv'
  OBVIOUS
<1>1. /\ disk.sequence \in Nat /\ meta.sequence \in Nat /\ ZeroMeta.sequence = 0
      /\ \A k \in rows : sequence[k] \in Nat
  BY DEF TypeInv, TypeOK, Meta, ZeroMeta
<1> USE DEF RecoveryInv, Ahead, Running
<1>2. CASE Construct  BY <1>2 DEF Construct
<1>3. CASE InitAccept  BY <1>1, <1>3 DEF InitAccept, Begin
<1>4. CASE InitRefuse  BY <1>4 DEF InitRefuse
<1>5. CASE DestroyUninitialised
  <2>1. /\ disk' = meta /\ pc' = "down" /\ meta' = ZeroMeta
        /\ UNCHANGED <<rows, sequence, unsaved>>
    BY <1>5 DEF DestroyUninitialised, Stop
  <2>2. disk'.sequence <= disk.sequence
    BY <1>1, <1>5, <2>1 DEF DestroyUninitialised
  <2>3. ASSUME NEW k \in unsaved \intersect rows PROVE disk'.sequence < sequence[k]
    <3>1. disk.sequence < sequence[k] /\ sequence[k] \in Nat  BY <1>1
    <3>2. disk'.sequence \in Nat  BY <1>1, <2>1
    <3>3. QED  BY <1>1, <2>2, <3>1, <3>2
  <2>4. QED  BY <2>1, <2>3
<1>6. CASE Backup  BY <1>1, <1>6 DEF Backup
<1>7. CASE Close  BY <1>7 DEF Close, Stop
<1>8. QED  BY <1>2, <1>3, <1>4, <1>5, <1>6, <1>7 DEF Lifecycle

LEMMA CallRecovery == TypeInv /\ RecoveryInv /\ CallStep => RecoveryInv'
<1> SUFFICES ASSUME TypeInv, RecoveryInv, CallStep PROVE RecoveryInv'
  OBVIOUS
<1>1. disk.sequence \in Nat /\ meta.sequence \in Nat /\ meta \in Meta
  BY DEF TypeInv, TypeOK, Meta
<1>2. pc = "idle" /\ Running /\ pc' \in {"idle", "evict", "commit"}
  BY DEF CallStep, PutAbsent, PutPresent, Update, Renew, Resize, Begin, Running
<1>3. ASSUME UNCHANGED <<rows, sequence, disk, unsaved>>, meta'.sequence = meta.sequence
      PROVE  RecoveryInv'
  BY <1>2, <1>3 DEF RecoveryInv, Ahead, Running
<1>4. ASSUME NEW k \in Keys, k \in rows, Renewed(k) PROVE RecoveryInv'
  <2>1. rows' = rows \union {k}  BY <1>4 DEF Renewed
  <2>2. Ahead'  BY <1>2, <1>4, <2>1, NumberedAhead DEF Renewed
  <2>3. disk' = disk /\ meta'.sequence = meta.sequence + 1
    BY <1>1, <1>4 DEF Renewed, Meta
  <2>4. QED  BY <1>1, <1>2, <2>2, <2>3 DEF RecoveryInv, Running
<1>5. ASSUME NEW k \in Keys, NEW s \in Sizes, PutAbsent(k, s) PROVE RecoveryInv'
  BY <1>3, <1>5 DEF PutAbsent
<1>6. ASSUME NEW k \in Keys, NEW s \in Sizes, PutPresent(k, s) PROVE RecoveryInv'
  BY <1>4, <1>6 DEF PutPresent
<1>7. ASSUME NEW k \in Keys, NEW s \in Sizes, Update(k, s) PROVE RecoveryInv'
  BY <1>3, <1>7 DEF Update
<1>8. ASSUME NEW k \in Keys, Renew(k) PROVE RecoveryInv'
  BY <1>4, <1>8 DEF Renew
<1>9. ASSUME NEW max \in Limits, Resize(max) PROVE RecoveryInv'
  BY <1>1, <1>3, <1>9 DEF Resize, Meta
<1>10. QED  BY <1>5, <1>6, <1>7, <1>8, <1>9 DEF CallStep

LEMMA ContinueRecovery == TypeInv /\ RecoveryInv /\ Continue => RecoveryInv'
<1> SUFFICES ASSUME TypeInv, RecoveryInv, Continue PROVE RecoveryInv'
  OBVIOUS
<1>1. /\ disk.sequence \in Nat /\ meta.sequence \in Nat /\ meta \in Meta
      /\ sequence \in [Keys -> Nat] /\ rows \subseteq Keys
  BY DEF TypeInv, TypeOK, Meta
<1>2. Running /\ Running' /\ disk' = disk
  BY DEF Continue, EvictOldest, EvictUnderflow, EvictEmpty, EvictDone, Insert, UpdateContent,
         UpdateUnderflow, Return, Running
<1>3. ASSUME Ahead', meta'.sequence \in Nat, meta.sequence <= meta'.sequence PROVE RecoveryInv'
  BY <1>1, <1>2, <1>3 DEF RecoveryInv, Running
<1>4. ASSUME NEW k \in Keys, Delete(k), unsaved' = unsaved PROVE Ahead'
  <2>1. \A j \in rows' : j \in rows /\ sequence'[j] = sequence[j]
    BY <1>1, <1>4 DEF Delete
  <2>2. QED  BY <1>2, <1>4, <2>1 DEF RecoveryInv, Ahead
<1>5. ASSUME NEW k \in Keys, EvictOldest(k) PROVE RecoveryInv'
  <2>1. meta'.sequence = meta.sequence  BY <1>1, <1>5 DEF EvictOldest, Meta
  <2>2. QED  BY <1>1, <1>3, <1>4, <1>5, <2>1 DEF EvictOldest
<1>6. ASSUME NEW k \in Keys, EvictUnderflow(k) PROVE RecoveryInv'
  BY <1>1, <1>3, <1>4, <1>6 DEF EvictUnderflow
<1>7. ASSUME UNCHANGED <<rows, sequence, unsaved>>, meta'.sequence = meta.sequence
      PROVE  RecoveryInv'
  BY <1>1, <1>2, <1>3, <1>7 DEF RecoveryInv, Ahead
<1>8. CASE Insert
  <2>1. op.key \in Keys  BY <1>8 DEF Insert, TypeInv, CallOK
  <2>2. Ahead'  BY <1>2, <1>8, <2>1, NumberedAhead DEF Insert
  <2>3. meta'.sequence = meta.sequence + 1  BY <1>1, <1>8 DEF Insert, Meta
  <2>4. QED  BY <1>1, <1>3, <2>2, <2>3
<1>9. CASE UpdateContent
  <2>1. meta'.sequence = meta.sequence  BY <1>1, <1>9 DEF UpdateContent, Resized, Meta
  <2>2. QED  BY <1>7, <1>9, <2>1 DEF UpdateContent
<1>10. CASE EvictEmpty \/ EvictDone \/ UpdateUnderflow
  BY <1>7, <1>10 DEF EvictEmpty, EvictDone, UpdateUnderflow
<1>11. QED  BY <1>5, <1>6, <1>8, <1>9, <1>10 DEF Continue

LEMMA FaultRecovery == TypeInv /\ RecoveryInv /\ FaultStep => RecoveryInv'
<1> SUFFICES ASSUME TypeInv, RecoveryInv, FaultStep PROVE RecoveryInv'
  OBVIOUS
<1>1. UNCHANGED <<rows, sequence, disk, unsaved>>
  BY DEF FaultStep, DeleteFails, InsertFails, UpdateFails, Crash, Stop
<1>2. CASE Crash  BY <1>1, <1>2 DEF Crash, Stop, RecoveryInv, Ahead, Running
<1>3. CASE DeleteFails \/ InsertFails \/ UpdateFails
  <2>1. Running /\ pc' = "idle" /\ meta'.sequence = meta.sequence
    BY <1>3 DEF DeleteFails, InsertFails, UpdateFails, Resized, Return, Running,
                TypeInv, TypeOK, Meta
  <2>2. QED  BY <1>1, <2>1 DEF RecoveryInv, Ahead, Running
<1>4. QED  BY <1>2, <1>3 DEF FaultStep

LEMMA StepRecovery == TypeInv /\ RecoveryInv /\ [Next]_vars => RecoveryInv'
<1>1. RecoveryInv /\ UNCHANGED vars => RecoveryInv'
  BY DEF vars, RecoveryInv, Ahead, Running
<1>2. QED
  BY <1>1, LifecycleRecovery, CallRecovery, ContinueRecovery, FaultRecovery DEF Next

\* A start is accepted only if nothing inserted or renewed since the last
\* backup() is in the table.
THEOREM CounterLossIsNoticed == Spec => LossIsNoticed
<1>1. TypeInv /\ RecoveryInv /\ [Next]_vars => [InitAccept => unsaved \intersect rows = {}]_vars
  <2> SUFFICES ASSUME TypeInv, Ahead, InitAccept, NEW j \in unsaved \intersect rows PROVE FALSE
    BY DEF RecoveryInv
  <2>1. PICK k \in rows : Newest(k) /\ sequence[k] = disk.sequence
    BY DEF InitAccept, Accepts
  <2>2. disk.sequence < sequence[j] /\ sequence[j] <= sequence[k]
    BY <2>1 DEF Ahead, Newest
  <2>3. disk.sequence \in Nat /\ sequence[j] \in Nat
    BY DEF TypeInv, TypeOK, Meta
  <2>4. QED  BY <2>1, <2>2, <2>3
<1>2. Init => TypeInv /\ RecoveryInv  BY InitType, InitRecovery
<1>3. TypeInv /\ RecoveryInv /\ [Next]_vars => (TypeInv /\ RecoveryInv)'
  BY StepType, StepRecovery
<1>4. QED  BY <1>1, <1>2, <1>3, PTL DEF Spec, LossIsNoticed

-----------------------------------------------------------------------------
(* Batches.  What was deleted and not handed over is in `removed', and     *)
(* apart from the rows; every key the manager answers for has its file.    *)

DeliveryInv ==
  /\ pc # "evict" => removed = {}
  /\ rows \union removed \union Pending \subseteq files
  /\ removed \intersect (rows \union Pending) = {}
  /\ Pending # {} => ~op.evicted

LEMMA InitDelivery == Init => DeliveryInv
BY NoOpFields DEF Init, DeliveryInv, Pending

LEMMA NothingPending == ASSUME op' = NoOp PROVE Pending' = {}
BY NoOpFields DEF Pending

LEMMA LifecycleDelivery == TypeInv /\ DeliveryInv /\ Lifecycle => DeliveryInv'
<1> SUFFICES ASSUME TypeInv, DeliveryInv, Lifecycle PROVE DeliveryInv'
  OBVIOUS
<1>1. removed = {} /\ removed' = {} /\ pc # "evict" /\ UNCHANGED <<rows, files>>
  BY DEF DeliveryInv, Lifecycle, Construct, InitAccept, InitRefuse, DestroyUninitialised,
         Backup, Close, Stop
<1>2. Pending' = {}
  <2>1. CASE InitAccept /\ disk.cache_size > disk.max_size
    BY <2>1, TrimFields DEF InitAccept, Begin, Pending
  <2>2. CASE ~(InitAccept /\ disk.cache_size > disk.max_size)
    <3>1. op = NoOp
      BY DEF TypeInv, CallOK, Lifecycle, Construct, InitAccept, InitRefuse,
             DestroyUninitialised, Backup, Close
    <3>2. op' = NoOp
      BY <2>2, <3>1 DEF Lifecycle, Construct, InitAccept, InitRefuse, DestroyUninitialised,
                        Backup, Close, Stop
    <3>3. QED  BY <3>2, NothingPending
  <2>3. QED  BY <2>1, <2>2
<1>3. QED  BY <1>1, <1>2 DEF DeliveryInv

LEMMA CallDelivery == TypeInv /\ DeliveryInv /\ CallStep => DeliveryInv'
<1> SUFFICES ASSUME TypeInv, DeliveryInv, CallStep PROVE DeliveryInv'
  OBVIOUS
<1>1. removed = {} /\ removed' = {} /\ rows' = rows /\ rows \subseteq files /\ op = NoOp
  BY DEF DeliveryInv, TypeInv, CallOK, CallStep, PutAbsent, PutPresent, Update, Renew, Renewed,
         Resize
<1>2. ASSUME Pending' \subseteq files', files \subseteq files', Pending' # {} => ~op'.evicted
      PROVE  DeliveryInv'
  BY <1>1, <1>2 DEF DeliveryInv
<1>3. ASSUME NEW k \in Keys, NEW s \in Sizes, PutAbsent(k, s) PROVE DeliveryInv'
  <2>1. op'.key = k /\ ~op'.evicted  BY <1>3, LruAssumption, CallFields DEF PutAbsent, Begin
  <2>2. QED  BY <1>2, <1>3, <2>1 DEF PutAbsent, Pending
<1>4. ASSUME op'.kind # "insert", files' = files PROVE DeliveryInv'
  BY <1>2, <1>4 DEF Pending
<1>5. ASSUME NEW k \in Keys, NEW s \in Sizes, PutPresent(k, s) PROVE DeliveryInv'
  <2>1. CASE s > size[k]
    <3>1. s \in Nat /\ s - size[k] \in Nat
      BY <2>1, LruAssumption, Numbers
    <3>2. op'.kind = "put_update"
      BY <1>5, <2>1, <3>1, CallFields DEF PutPresent, Begin
    <3>3. QED  BY <1>4, <1>5, <3>2 DEF PutPresent
  <2>2. CASE ~(s > size[k])
    BY <1>1, <1>4, <1>5, <2>2, NoOpFields DEF PutPresent
  <2>3. QED  BY <2>1, <2>2
<1>6. ASSUME NEW k \in Keys, NEW s \in Sizes, Update(k, s) PROVE DeliveryInv'
  <2>1. s \in Nat /\ size[k] \in Nat  BY LruAssumption, Numbers
  <2>2. op'.kind = "update"
    <3>1. CASE s > size[k]
      <4>1. s - size[k] \in Nat  BY <2>1, <3>1
      <4>2. QED  BY <1>6, <2>1, <3>1, <4>1, CallFields DEF Update, Begin
    <3>2. CASE ~(s > size[k])
      BY <1>6, <2>1, <3>2, CallFields DEF Update
    <3>3. QED  BY <3>1, <3>2
  <2>3. QED  BY <1>4, <1>6, <2>2 DEF Update
<1>7. ASSUME NEW k \in Keys, Renew(k) PROVE DeliveryInv'
  BY <1>1, <1>4, <1>7, NoOpFields DEF Renew
<1>8. ASSUME NEW max \in Limits, Resize(max) PROVE DeliveryInv'
  BY <1>4, <1>8, TrimFields DEF Resize, Begin
<1>9. QED  BY <1>3, <1>5, <1>6, <1>7, <1>8 DEF CallStep

LEMMA ContinueDelivery == TypeInv /\ DeliveryInv /\ Continue => DeliveryInv'
<1> SUFFICES ASSUME TypeInv, DeliveryInv, Continue PROVE DeliveryInv'
  OBVIOUS
<1>1. ASSUME Return, rows' \subseteq files' PROVE DeliveryInv'
  BY <1>1, NothingPending DEF Return, DeliveryInv
<1>2. ASSUME NEW k \in Keys, EvictOldest(k) PROVE DeliveryInv'
  <2>1. op'.kind = op.kind /\ op'.key = op.key
    BY <1>2 DEF EvictOldest, TypeInv, TypeOK, Op
  <2>2. Pending' = Pending  BY <2>1 DEF Pending
  <2>3. k \in rows /\ k \notin Pending
    BY <1>2 DEF EvictOldest, Oldest, Pending, TypeInv, CallOK
  <2>4. Pending # {} => op' = op  BY <1>2, <2>3 DEF EvictOldest, Pending
  <2>5. QED  BY <1>2, <2>2, <2>3, <2>4 DEF DeliveryInv, EvictOldest, Delete
<1>3. ASSUME NEW k \in Keys, EvictUnderflow(k) PROVE DeliveryInv'
  BY <1>1, <1>3 DEF EvictUnderflow, Delete, RemoveCallback, DeliveryInv
<1>4. CASE EvictEmpty
  BY <1>1, <1>4 DEF EvictEmpty
<1>5. CASE EvictDone
  <2>1. files' = files \ removed /\ removed' = {} /\ rows' = rows
    BY <1>5 DEF EvictDone, RemoveCallback, Return
  <2>2. Pending' \subseteq Pending
    BY <1>5, NothingPending DEF EvictDone, Return, Pending
  <2>3. Pending' # {} => op' = op  BY <1>5, NothingPending DEF EvictDone, Return
  <2>4. QED  BY <2>1, <2>2, <2>3 DEF DeliveryInv
<1>6. CASE Insert
  BY <1>1, <1>6 DEF Insert, DeliveryInv, Pending
<1>7. CASE UpdateContent \/ UpdateUnderflow
  BY <1>1, <1>7 DEF UpdateContent, UpdateUnderflow, DeliveryInv
<1>8. QED  BY <1>2, <1>3, <1>4, <1>5, <1>6, <1>7 DEF Continue

LEMMA FaultDelivery == DeliveryInv /\ FaultStep => DeliveryInv'
<1> SUFFICES ASSUME DeliveryInv, FaultStep PROVE DeliveryInv'
  OBVIOUS
<1>1. removed' = {} /\ op' = NoOp /\ UNCHANGED <<rows, files>>
  BY DEF FaultStep, DeleteFails, InsertFails, UpdateFails, Crash, Stop, Return
<1>2. QED  BY <1>1, NothingPending DEF DeliveryInv

LEMMA StepDelivery == TypeInv /\ DeliveryInv /\ [Next]_vars => DeliveryInv'
<1>1. DeliveryInv /\ UNCHANGED vars => DeliveryInv'
  BY DEF vars, DeliveryInv, Pending
<1>2. QED
  BY <1>1, LifecycleDelivery, CallDelivery, ContinueDelivery, FaultDelivery DEF Next

\* One step without a fault orphans at most the file of the put() it ends.
LEMMA NoNewOrphans ==
  ASSUME TypeInv, DeliveryInv, [Next]_vars, faults' = faults
  PROVE  Orphans' \subseteq Orphans \union Pending
<1>1. ASSUME files' = files, rows' = rows, removed = {} PROVE Orphans' \subseteq Orphans \union Pending
  BY <1>1 DEF Orphans
<1>2. CASE UNCHANGED vars  BY <1>2 DEF vars, Orphans, Pending
<1>3. CASE Lifecycle
  BY <1>1, <1>3 DEF DeliveryInv, Lifecycle, Construct, InitAccept, InitRefuse, DestroyUninitialised,
         Backup, Close, Stop
<1>4. CASE CallStep
  <2>1. ASSUME NEW k \in Keys, NEW s \in Sizes, PutAbsent(k, s)
        PROVE  Orphans' \subseteq Orphans \union Pending
    <3>1. Pending' = {k}
      BY <2>1, LruAssumption, CallFields DEF PutAbsent, Begin, Pending
    <3>2. QED  BY <2>1, <3>1 DEF PutAbsent, Orphans, DeliveryInv
  <2>2. CASE \E k \in Keys, s \in Sizes : PutPresent(k, s) \/ Update(k, s)
    BY <1>1, <2>2 DEF PutPresent, Renewed, Update, DeliveryInv
  <2>3. CASE (\E k \in Keys : Renew(k)) \/ (\E max \in Limits : Resize(max))
    BY <1>1, <2>3 DEF Renew, Renewed, Resize, DeliveryInv
  <2>4. QED  BY <1>4, <2>1, <2>2, <2>3 DEF CallStep
<1>5. CASE Continue
  <2>1. CASE \E k \in Keys : EvictOldest(k)
    BY <2>1 DEF EvictOldest, Delete, Orphans
  <2>2. CASE \E k \in Keys : EvictUnderflow(k)
    BY <2>2 DEF EvictUnderflow, Delete, RemoveCallback, Orphans
  <2>3. CASE EvictEmpty  BY <2>3 DEF EvictEmpty, RemoveCallback, Orphans
  <2>4. CASE EvictDone
    BY <2>4 DEF EvictDone, RemoveCallback, Orphans, Return
  <2>5. CASE Insert  BY <2>5 DEF Insert, Orphans, Return, Pending, DeliveryInv
  <2>6. CASE UpdateContent \/ UpdateUnderflow
    BY <1>1, <2>6 DEF UpdateContent, UpdateUnderflow, DeliveryInv
  <2>7. QED  BY <1>5, <2>1, <2>2, <2>3, <2>4, <2>5, <2>6 DEF Continue
<1>6. CASE FaultStep
  <2>1. faults' = faults + 1 /\ faults \in Nat
    BY <1>6 DEF FaultStep, DeleteFails, InsertFails, UpdateFails, Crash, Fault, TypeInv, TypeOK
  <2>2. QED  BY <2>1
<1>7. QED  BY <1>2, <1>3, <1>4, <1>5, <1>6 DEF Next

\* Also after faults a row that leaves the table takes its file with it.
THEOREM NoBatchIsLost == Spec => BatchIsDelivered
<1>1. TypeInv /\ DeliveryInv /\ [Next]_vars
        => [faults' = faults => Orphans' \subseteq Orphans \union Pending]_vars
  BY NoNewOrphans
<1>2. Init => TypeInv /\ DeliveryInv  BY InitType, InitDelivery
<1>3. TypeInv /\ DeliveryInv /\ [Next]_vars => (TypeInv /\ DeliveryInv)'
  BY StepType, StepDelivery
<1>4. QED  BY <1>1, <1>2, <1>3, PTL DEF Spec, BatchIsDelivered

-----------------------------------------------------------------------------
(* Without faults there are no orphans at all: where a pending insertion   *)
(* ends, it ends as a row.                                                 *)

LEMMA StepFiles ==
  ASSUME IInv, DeliveryInv, [Next]_vars, faults = 0 => Orphans = {}
  PROVE  faults' = 0 => Orphans' = {}
<1> SUFFICES ASSUME faults' = 0 PROVE Orphans' = {}
  OBVIOUS
<1>1. TypeInv /\ NoDbError  BY NoDbErrorHere DEF IInv
<1>2. faults = 0
  <2>1. faults' \in {faults, faults + 1}
    BY DEF Next, vars, Lifecycle, Construct, InitAccept, InitRefuse, DestroyUninitialised, Backup,
           Close, CallStep, PutAbsent, PutPresent, Renewed, Update, Renew, Resize, Continue,
           EvictOldest, EvictUnderflow, EvictEmpty, EvictDone, Insert, UpdateContent,
           UpdateUnderflow, FaultStep, DeleteFails, InsertFails, UpdateFails, Crash, Fault
  <2>2. QED  BY <1>1, <2>1 DEF TypeInv, TypeOK
<1>3. Orphans' \subseteq Pending  BY <1>1, <1>2, NoNewOrphans
<1>4. ASSUME Pending' = Pending PROVE Orphans' = {}
  BY <1>3, <1>4 DEF Orphans
<1>5. CASE Pending = {}  BY <1>3, <1>5
<1>6. CASE Pending # {}
  <2>1. op.kind = "insert" /\ pc \in {"evict", "commit"}
    BY <1>1, <1>6, NoOpFields DEF Pending, TypeInv, CallOK
  <2>2. CASE UNCHANGED vars  BY <1>4, <2>2 DEF vars, Pending
  <2>3. CASE Continue
    <3>1. ASSUME NEW k \in Keys, EvictOldest(k) PROVE Orphans' = {}
      <4>1. op'.kind = op.kind /\ op'.key = op.key
        BY <1>1, <3>1 DEF EvictOldest, TypeInv, TypeOK, Op
      <4>2. QED  BY <1>4, <4>1 DEF Pending
    <3>2. ASSUME NEW k \in Keys, EvictUnderflow(k) PROVE FALSE
      <4>1. size[k] <= meta.cache_size
        BY <1>1, <1>2, <3>2 DEF EvictUnderflow, Oldest, NoDbError
      <4>2. meta.cache_size < size[k]  BY <3>2 DEF EvictUnderflow
      <4>3. size[k] \in Nat /\ meta.cache_size \in Nat  BY <1>1, Numbers
      <4>4. QED  BY <4>1, <4>2, <4>3
    <3>3. CASE EvictDone
      BY <1>4, <1>6, <2>1, <3>3 DEF EvictDone, DeliveryInv, Pending
    <3>4. CASE Insert
      BY <1>3, <3>4 DEF Insert, Pending, Orphans
    <3>5. ~(EvictEmpty \/ UpdateContent \/ UpdateUnderflow)
      BY <1>1, <1>2, <2>1 DEF EvictEmpty, UpdateContent, UpdateUnderflow, NoDbError
    <3>6. QED  BY <2>3, <3>1, <3>2, <3>3, <3>4, <3>5 DEF Continue
  <2>4. CASE FaultStep
    <3>1. faults' = faults + 1
      BY <2>4 DEF FaultStep, DeleteFails, InsertFails, UpdateFails, Crash, Fault
    <3>2. QED  BY <1>2, <3>1
  <2>5. ~(Lifecycle \/ CallStep)
    BY <2>1 DEF Lifecycle, Construct, InitAccept, InitRefuse, DestroyUninitialised, Backup, Close,
                CallStep, PutAbsent, PutPresent, Update, Renew, Resize
  <2>6. QED  BY <2>2, <2>3, <2>4, <2>5 DEF Next
<1>7. QED  BY <1>5, <1>6

\* Every row has its file, and without faults every file has its row or is on
\* its way out.
THEOREM FilesFollowTable == Spec => []FilesMatch
<1> DEFINE FilesInv == IInv /\ DeliveryInv /\ (faults = 0 => Orphans = {})
<1>1. Init => FilesInv
  BY InitType, InitOrder, InitBooks, InitDelivery DEF IInv, Init, Orphans
<1>2. FilesInv /\ [Next]_vars => FilesInv'
  BY StepBooks, StepDelivery, StepFiles DEF IInv
<1>3. FilesInv => FilesMatch  BY DEF DeliveryInv, FilesMatch
<1>4. QED  BY <1>1, <1>2, <1>3, PTL DEF Spec

-----------------------------------------------------------------------------
(* The total.                                                              *)

\* One step moves the table and the total alike, unless a statement fails or
\* the oldest entry is larger than the total.
LEMMA StepDrift ==
  ASSUME IInv, [Next]_vars, Running, Running', faults' = faults,
         \A k \in rows : Oldest(k) => meta.cache_size >= size[k]
  PROVE  Drift' = Drift
<1>1. TypeInv /\ IsFiniteSet(Blocks(rows, size))  BY DEF IInv, BooksInv
<1>2. meta \in Meta /\ Usage(rows, size) \in Nat
  BY <1>1, UsageType DEF TypeInv, TypeOK
<1>3. ASSUME UNCHANGED <<rows, size>>, meta'.cache_size = meta.cache_size PROVE Drift' = Drift
  BY <1>3 DEF Drift
<1>4. CASE UNCHANGED vars  BY <1>3, <1>4 DEF vars
<1>5. CASE Lifecycle
  BY <1>3, <1>5 DEF Lifecycle, Construct, InitAccept, InitRefuse, DestroyUninitialised, Backup, Close,
                    Stop, Running
<1>6. CASE CallStep
  BY <1>2, <1>3, <1>6 DEF CallStep, PutAbsent, PutPresent, Renewed, Update, Renew, Resize, Meta
<1>7. CASE Continue
  <2>1. ASSUME NEW k \in Keys, EvictOldest(k) PROVE Drift' = Drift
    <3>1. k \in rows /\ Delete(k)  BY <2>1 DEF EvictOldest, Oldest
    <3>2. Usage(rows, size) = Usage(rows, size)' + size[k] /\ Usage(rows, size)' \in Nat
      BY <1>1, <3>1, DeleteUsage
    <3>3. meta'.cache_size = meta.cache_size - size[k]
      BY <1>2, <2>1 DEF EvictOldest, Meta
    <3>4. size[k] \in Nat /\ meta.cache_size \in Nat  BY <1>1, Numbers
    <3>5. QED  BY <1>2, <3>2, <3>3, <3>4 DEF Drift
  <2>2. ASSUME NEW k \in Keys, EvictUnderflow(k) PROVE Drift' = Drift
    <3>1. size[k] \in Nat /\ meta.cache_size \in Nat  BY <1>1, Numbers
    <3>2. meta.cache_size >= size[k] /\ meta.cache_size < size[k]
      BY <2>2 DEF EvictUnderflow, Oldest
    <3>3. QED  BY <3>1, <3>2
  <2>3. CASE EvictEmpty \/ EvictDone \/ UpdateUnderflow
    BY <1>3, <2>3 DEF EvictEmpty, EvictDone, UpdateUnderflow
  <2>4. CASE Insert
    <3>1. /\ op.key \in Keys \ rows /\ rows' = rows \union {op.key}
          /\ size' = [size EXCEPT ![op.key] = op.size] /\ op.size \in Nat
      BY <1>1, <2>4, Numbers DEF Insert, TypeInv, CallOK
    <3>2. Usage(rows, size)' = Usage(rows, size) + op.size  BY <1>1, <3>1, InsertUsage
    <3>3. meta'.cache_size = meta.cache_size + op.size  BY <1>2, <2>4 DEF Insert, Meta
    <3>4. meta.cache_size \in Nat  BY <1>1, Numbers
    <3>5. QED  BY <1>2, <3>1, <3>2, <3>3, <3>4 DEF Drift
  <2>5. CASE UpdateContent
    <3>1. /\ op.key \in rows /\ rows' = rows /\ op.size \in Nat /\ size[op.key] \in Nat
          /\ size' = [size EXCEPT ![op.key] = op.size]
      BY <1>1, <2>5, Numbers DEF UpdateContent, TypeInv, TypeOK, CallOK, Growing, Op
    <3>2. Usage(rows, size)' = Usage(rows, size) - size[op.key] + op.size
      BY <1>1, <3>1, UpdateUsage
    <3>3. meta'.cache_size = meta.cache_size - size[op.key] + op.size
      BY <1>2, <2>5 DEF UpdateContent, Resized, Meta
    <3>4. meta.cache_size \in Nat  BY <1>1, Numbers
    <3>5. QED  BY <1>2, <3>1, <3>2, <3>3, <3>4 DEF Drift
  <2>6. QED  BY <1>7, <2>1, <2>2, <2>3, <2>4, <2>5 DEF Continue
<1>8. CASE FaultStep
  <2>1. faults' = faults + 1 /\ faults \in Nat
    BY <1>1, <1>8, Numbers DEF FaultStep, DeleteFails, InsertFails, UpdateFails, Crash, Fault
  <2>2. QED  BY <2>1
<1>9. QED  BY <1>4, <1>5, <1>6, <1>7, <1>8 DEF Next

\* The total follows the table, also when a fault has already parted them.
THEOREM TotalIsKept == Spec => TotalFollowsTable
<1>1. IInv /\ [Next]_vars
        => [Running /\ Running' /\ faults' = faults
              /\ (\A k \in rows : Oldest(k) => meta.cache_size >= size[k]) => Drift' = Drift]_vars
  BY StepDrift
<1>2. QED  BY <1>1, Invariant, PTL DEF Spec, TotalFollowsTable

-----------------------------------------------------------------------------
(* The row of metaLRU comes last, and without it there are no limits to    *)
(* read; each statement of the constructor finds what those before made.   *)

Db == [file : BOOLEAN, cache : BOOLEAN, meta : BOOLEAN, index : BOOLEAN, row : BOOLEAN]

RowIsLast ==
  /\ db.row => db.file /\ db.cache /\ db.meta /\ db.index
  /\ ~db.row => disk = ZeroMeta
  /\ Running => db.row

MetaIsRead == /\ pc = "down" => meta = ZeroMeta
              /\ pc = "new" => meta = ZeroMeta \/ meta = disk

InOrder ==
  /\ spc # "ready" => pc = "down"
  /\ spc = "create_cache" => is_new /\ db.file
  /\ spc = "check_cache" => ~is_new
  /\ spc = "create_meta" => is_new /\ db.file /\ db.cache
  /\ spc = "index" /\ is_new => db.file /\ db.cache /\ db.meta
  /\ spc = "insert_meta" => is_new /\ db.file /\ db.cache /\ db.meta /\ db.index

StartInv == db \in Db /\ RowIsLast /\ MetaIsRead /\ InOrder

LEMMA InitStarts == StartInit => StartInv
BY DEF StartInit, StartInv, Db, NoDb, RowIsLast, MetaIsRead, InOrder, Running

\* A step of the manager works with limits it has read from the row.
LEMMA ManagerWorks ==
  ASSUME RowIsLast, MetaIsRead, Next, db' = db
  PROVE  RowIsLast' /\ MetaIsRead'
<1> USE DEF RowIsLast, MetaIsRead, Running
<1>1. ZeroMeta.max_size = 0  BY DEF ZeroMeta
<1>2. CASE Lifecycle
  <2>1. CASE Construct  BY <2>1 DEF Construct
  <2>2. CASE InitAccept  BY <1>1, <2>2 DEF InitAccept, Accepts, Begin
  <2>3. CASE InitRefuse  BY <2>3 DEF InitRefuse
  <2>4. CASE DestroyUninitialised  BY <2>4 DEF DestroyUninitialised, Stop
  <2>5. CASE Backup  BY <2>5 DEF Backup
  <2>6. CASE Close  BY <2>6 DEF Close, Stop
  <2>7. QED  BY <1>2, <2>1, <2>2, <2>3, <2>4, <2>5, <2>6 DEF Lifecycle
<1>3. ASSUME Running, pc' \in {"idle", "evict", "commit"}, disk' = disk
      PROVE  RowIsLast' /\ MetaIsRead'
  BY <1>3
<1>4. CASE CallStep
  BY <1>3, <1>4 DEF CallStep, PutAbsent, PutPresent, Renewed, Update, Renew, Resize, Begin
<1>5. CASE Continue
  BY <1>3, <1>5 DEF Continue, EvictOldest, EvictUnderflow, EvictEmpty, EvictDone, Insert,
                    UpdateContent, UpdateUnderflow, Return
<1>6. CASE FaultStep
  <2>1. CASE Crash  BY <2>1 DEF Crash, Stop
  <2>2. CASE DeleteFails \/ InsertFails \/ UpdateFails
    BY <1>3, <2>2 DEF DeleteFails, InsertFails, UpdateFails, Return
  <2>3. QED  BY <1>6, <2>1, <2>2 DEF FaultStep
<1>7. QED  BY <1>2, <1>4, <1>5, <1>6 DEF Next

LEMMA StepStarts == StartInv /\ [StartNext]_startVars => StartInv'
<1> SUFFICES ASSUME StartInv, [StartNext]_startVars PROVE StartInv'
  OBVIOUS
<1>1. db \in Db /\ RowIsLast /\ MetaIsRead /\ InOrder  BY DEF StartInv
<1>2. ASSUME UNCHANGED vars, spc' # "ready" => spc # "ready" PROVE MetaIsRead' /\ (spc' # "ready" => pc' = "down")
  BY <1>1, <1>2 DEF vars, MetaIsRead, InOrder
<1>3. ASSUME UNCHANGED <<pc, disk>>, db'.row = db.row,
             db.row => db'.file /\ db'.cache /\ db'.meta /\ db'.index
      PROVE  RowIsLast'
  BY <1>1, <1>3 DEF RowIsLast, Running
<1> USE DEF Goes, StartInv
<1>4. CASE UNCHANGED startVars
  BY <1>1, <1>4 DEF startVars, start, vars, RowIsLast, MetaIsRead, InOrder, Running
<1>5. CASE Open  BY <1>1, <1>2, <1>3, <1>5 DEF Open, vars, Db, RowIsLast, InOrder
<1>6. CASE CreateCache  BY <1>1, <1>2, <1>3, <1>6 DEF CreateCache, vars, Db, RowIsLast, InOrder
<1>7. CASE CreateMeta  BY <1>1, <1>2, <1>3, <1>7 DEF CreateMeta, vars, Db, RowIsLast, InOrder
<1>8. CASE Check  BY <1>1, <1>2, <1>3, <1>8 DEF Check, vars, RowIsLast, InOrder
<1>9. CASE CreateIndex
  <2>1. db' \in Db /\ db'.index /\ db'.file = db.file /\ db'.cache = db.cache
        /\ db'.meta = db.meta /\ db'.row = db.row
    BY <1>1, <1>9 DEF CreateIndex, Db
  <2>2. pc = "down" /\ UNCHANGED <<vars, is_new>> /\ spc' = IF is_new THEN "insert_meta" ELSE "ready"
    BY <1>1, <1>9 DEF CreateIndex, InOrder
  <2>3. RowIsLast' /\ MetaIsRead'  BY <1>1, <1>3, <2>1, <2>2 DEF RowIsLast, MetaIsRead, vars
  <2>4. InOrder'  BY <1>1, <1>9, <2>1, <2>2 DEF CreateIndex, InOrder, vars
  <2>5. QED  BY <2>1, <2>3, <2>4
<1>10. CASE NoCacheTable
  BY <1>1, <1>2, <1>3, <1>10 DEF NoCacheTable, vars, RowIsLast, InOrder
<1>11. ASSUME NEW max \in Limits, InsertMeta(max) PROVE StartInv'
  <2>1. db' \in Db /\ db'.row /\ db'.file /\ db'.cache /\ db'.meta /\ db'.index
    BY <1>1, <1>11 DEF InsertMeta, Db, InOrder
  <2>2. pc = "down" /\ pc' = "down" /\ meta' = meta /\ spc' = "ready"
    BY <1>1, <1>11 DEF InsertMeta, InOrder
  <2>3. QED  BY <1>1, <2>1, <2>2 DEF RowIsLast, MetaIsRead, InOrder, Running
<1>12. CASE StartFails
  BY <1>1, <1>3, <1>12 DEF StartFails, RowIsLast, MetaIsRead, InOrder
<1>13. CASE NoMetaTable
  BY <1>1, <1>13 DEF NoMetaTable, Stop, RowIsLast, MetaIsRead, InOrder, Running
<1>14. CASE Serves
  <2>1. Next /\ db' = db /\ spc' = IF pc' = "down" THEN "down" ELSE "ready"
    BY <1>14 DEF Serves
  <2>2. RowIsLast' /\ MetaIsRead'  BY <1>1, <2>1, ManagerWorks
  <2>3. InOrder'  BY <2>1 DEF InOrder
  <2>4. QED  BY <1>1, <2>1, <2>2, <2>3
<1>15. QED
  BY <1>4, <1>5, <1>6, <1>7, <1>8, <1>9, <1>10, <1>11, <1>12, <1>13, <1>14 DEF StartNext, Boots

\* A start makes its statements in the order of the code, the meta row last.
THEOREM StartInvariant == StartSpec => []StartInv
BY InitStarts, StepStarts, PTL DEF StartSpec

\* Whatever is left of the starts before, a manager is only ever at work on a
\* database that has its file, tables, index and meta row.
THEOREM OnlyCompleteIsServed == StartSpec => []ServesOnlyComplete
<1>1. StartInv => ServesOnlyComplete
  BY DEF StartInv, Db, FullDb, RowIsLast, ServesOnlyComplete
<1>2. QED  BY <1>1, StartInvariant, PTL

\* A start that was cut short is never made good.
THEOREM NeverCompleted == StartSpec => CutShortForGood
<1>1. StartInv /\ StartInv' /\ [StartNext]_startVars => [CutShort => CutShort' /\ ~Running']_startVars
  <2> SUFFICES ASSUME StartInv, StartInv', StartNext, CutShort PROVE CutShort' /\ ~Running'
    OBVIOUS
  <2>1. ~db.row /\ db.file /\ InOrder /\ db \in Db  BY DEF CutShort, StartInv
  <2> USE DEF CutShort, Goes
  <2>2. Open => CutShort'  BY <2>1 DEF Open, Db
  <2>3. (CreateCache \/ CreateMeta) => CutShort'  BY <2>1 DEF CreateCache, CreateMeta, InOrder
  <2>4. Check => CutShort'  BY <2>1 DEF Check
  <2>5. CreateIndex => CutShort'  BY <2>1 DEF CreateIndex, Db
  <2>6. NoCacheTable => CutShort'  BY <2>1 DEF NoCacheTable
  <2>7. (\E max \in Limits : InsertMeta(max)) => CutShort'  BY <2>1 DEF InsertMeta, InOrder
  <2>8. StartFails => CutShort'  BY <2>1 DEF StartFails
  <2>9. NoMetaTable => CutShort'  BY <2>1 DEF NoMetaTable
  <2>10. Serves => CutShort'  BY <2>1 DEF Serves
  <2>11. CutShort'
    BY <2>2, <2>3, <2>4, <2>5, <2>6, <2>7, <2>8, <2>9, <2>10 DEF StartNext, Boots
  <2>12. QED  BY <2>11 DEF StartInv, RowIsLast
<1>2. QED  BY <1>1, StartInvariant, PTL DEF StartSpec, CutShortForGood

-----------------------------------------------------------------------------
(* The manager's own invariant holds of the joined system too, and what a  *)
(* start finds on the disk is what was last saved.                         *)

Booting == spc \notin {"down", "ready"}

Limited == /\ ~db.row => rows = {}
           /\ Booting /\ is_new => ~db.row
           /\ Running => meta.max_size # 0

\* A row that was saved and not disturbed is one init() accepts ...
Saved == faults = 0 /\ db.row /\ pc \in {"down", "new"} => Accepts(disk)

\* ... and a database nobody cut short is not there or complete.
Uncut == faults = 0 => /\ spc = "down" => db \in {NoDb, FullDb}
                       /\ spc \in {"check_cache", "ready"} => db = FullDb
                       /\ spc = "index" /\ ~is_new => db = FullDb

WholeInv == StartInv /\ IInv /\ Limited /\ Saved /\ Uncut

LEMMA InitWhole == StartInit => WholeInv
<1> SUFFICES ASSUME StartInit PROVE WholeInv
  OBVIOUS
<1>1. StartInv  BY InitStarts
<1>2. IInv
  <2>1. TypeInv
    BY NoOpFields DEF StartInit, TypeInv, TypeOK, CallOK, ZeroMeta, Meta, Growing
  <2>2. SequenceOrder  BY DEF StartInit, SequenceOrder, Running
  <2>3. BooksInv
    BY UsageEmpty, NoOpFields DEF StartInit, BooksInv, Total, Room, Running, Growing, ZeroMeta
  <2>4. QED  BY <2>1, <2>2, <2>3 DEF IInv
<1>3. Limited /\ Saved /\ Uncut  BY DEF StartInit, Limited, Saved, Uncut, Running, Booting, NoDb
<1>4. QED  BY <1>1, <1>2, <1>3 DEF WholeInv

\* Nothing a start does disturbs the manager that is not running.
LEMMA StartKeepsInvariant == StartInv /\ IInv /\ Limited /\ [StartNext]_startVars => IInv'
<1> SUFFICES ASSUME StartInv, IInv, Limited, [StartNext]_startVars PROVE IInv'
  OBVIOUS
<1>1. ASSUME UNCHANGED vars \/ Next PROVE IInv'  BY <1>1, StepBooks
<1>2. ASSUME NEW max \in Limits, InsertMeta(max) PROVE IInv'
  <2>1. pc = "down" /\ rows = {}
    BY <1>2 DEF InsertMeta, Goes, StartInv, InOrder, Limited, Booting
  <2>2. /\ disk' = [cache_size |-> 0, max_size |-> max, sequence |-> 0]
        /\ UNCHANGED <<rows, size, sequence, meta, pc, op, removed, files, unsaved, faults>>
    BY <1>2 DEF InsertMeta
  <2>3. disk' \in Meta  BY <2>2, LruAssumption DEF Meta
  <2>4. TypeInv'  BY <2>2, <2>3 DEF IInv, TypeInv, TypeOK, CallOK, Growing
  <2>5. SequenceOrder'  BY <2>1, <2>2 DEF SequenceOrder, Running
  <2>6. BooksInv'
    <3>1. Room' <=> Room  BY <2>2 DEF Room, Over, Growing, Newest
    <3>2. Usage(rows, size) = 0  BY <2>1, UsageEmpty
    <3>3. Total' = 0  BY <2>1, <2>2 DEF Total, Running
    <3>4. QED  BY <2>2, <3>1, <3>2, <3>3 DEF IInv, BooksInv
  <2>7. QED  BY <2>4, <2>5, <2>6 DEF IInv
<1>3. CASE StartFails
  <2>1. faults' = faults + 1 /\ faults \in Nat
    BY <1>3, Numbers DEF StartFails, Fault, IInv
  <2>2. UNCHANGED <<rows, size, sequence, disk, meta, pc, op, removed, files, unsaved>>
    BY <1>3 DEF StartFails
  <2>3. TypeInv'  BY <2>1, <2>2 DEF IInv, TypeInv, TypeOK, CallOK, Growing
  <2>4. SequenceOrder'  BY <2>2 DEF IInv, SequenceOrder, Running, Newest
  <2>5. BooksInv'  BY <2>1, <2>2 DEF IInv, BooksInv
  <2>6. QED  BY <2>3, <2>4, <2>5 DEF IInv
<1>4. CASE NoMetaTable
  <2>1. pc = "new" /\ Stop /\ UNCHANGED <<disk, unsaved, faults>>  BY <1>4 DEF NoMetaTable
  <2>2. TypeInv'
    BY <2>1, NoOpFields DEF Stop, IInv, TypeInv, TypeOK, CallOK, ZeroMeta, Meta, Growing
  <2>3. SequenceOrder'  BY <2>1 DEF Stop, IInv, SequenceOrder, Running, Newest
  <2>4. Room'  BY <2>1, NoOpFields DEF Stop, Room, Growing
  <2>5. Total' = Total  BY <2>1 DEF Stop, Total, Running
  <2>6. BooksInv'  BY <2>1, <2>4, <2>5 DEF Stop, IInv, BooksInv
  <2>7. QED  BY <2>2, <2>3, <2>6 DEF IInv
<1>5. QED
  BY <1>1, <1>2, <1>3, <1>4
  DEF StartNext, Boots, Open, CreateCache, CreateMeta, Check, CreateIndex, NoCacheTable, Serves,
      startVars

\* A step of the manager leaves rows only with a limit in force ...
LEMMA ManagerLimited ==
  ASSUME StartInv, IInv, Limited, Next, db' = db, spc = "ready", spc' \in {"down", "ready"} PROVE Limited'
<1>1. ASSUME Running => db.row, ~db.row => rows = {} PROVE ~db.row => rows' = {}
  <2> SUFFICES ASSUME ~db.row PROVE rows' = {}  OBVIOUS
  <2>1. ~Running /\ rows = {}  BY <1>1
  <2>2. CASE Lifecycle
    BY <2>1, <2>2 DEF Lifecycle, Construct, InitAccept, InitRefuse, DestroyUninitialised, Backup,
                      Close, Stop
  <2>3. ~CallStep /\ ~Continue
    BY <2>1 DEF CallStep, PutAbsent, PutPresent, Update, Renew, Resize, Continue, EvictOldest,
                EvictUnderflow, EvictEmpty, EvictDone, Insert, UpdateContent, UpdateUnderflow, Running
  <2>4. CASE FaultStep
    BY <2>1, <2>4 DEF FaultStep, DeleteFails, InsertFails, UpdateFails, Crash, Stop
  <2>5. QED  BY <2>2, <2>3, <2>4 DEF Next
<1>2. ~db'.row => rows' = {}  BY <1>1 DEF StartInv, RowIsLast, Limited
<1>3. Running' => meta'.max_size # 0
  <2> USE DEF Meta
  <2>0. meta \in Meta  BY DEF IInv, TypeInv, TypeOK
  <2>1. CASE Construct \/ InitRefuse  BY <2>1 DEF Construct, InitRefuse, Running
  <2>2. CASE InitAccept  BY <2>2 DEF InitAccept, Accepts
  <2>3. CASE DestroyUninitialised \/ Close \/ Crash
    BY <2>3 DEF DestroyUninitialised, Close, Crash, Stop, Running
  <2>4. ASSUME Running, meta'.max_size = meta.max_size PROVE meta'.max_size # 0
    BY <2>4 DEF Limited
  <2>5. CASE Backup  BY <2>4, <2>5 DEF Backup, Running
  <2>6. CASE CallStep
    <3>1. ASSUME NEW max \in Limits, Resize(max) PROVE meta'.max_size # 0
      BY <2>0, <3>1, LruAssumption DEF Resize
    <3>2. CASE \/ \E k \in Keys, s \in Sizes : PutAbsent(k, s) \/ PutPresent(k, s) \/ Update(k, s)
               \/ \E k \in Keys : Renew(k)
      BY <2>0, <2>4, <3>2 DEF PutAbsent, PutPresent, Update, Renew, Renewed, Running
    <3>3. QED  BY <2>6, <3>1, <3>2 DEF CallStep
  <2>7. CASE Continue
    BY <2>0, <2>4, <2>7 DEF Continue, EvictOldest, EvictUnderflow, EvictEmpty, EvictDone, Insert,
                      UpdateContent, Resized, UpdateUnderflow, Running
  <2>8. CASE DeleteFails \/ InsertFails \/ UpdateFails
    BY <2>0, <2>4, <2>8 DEF DeleteFails, InsertFails, UpdateFails, Resized, Running
  <2>9. QED
    BY <2>1, <2>2, <2>3, <2>5, <2>6, <2>7, <2>8 DEF Next, Lifecycle, FaultStep
<1>4. QED  BY <1>2, <1>3 DEF Limited, Booting

LEMMA StepLimited == StartInv /\ IInv /\ Limited /\ [StartNext]_startVars => Limited'
<1> SUFFICES ASSUME StartInv, IInv, Limited, [StartNext]_startVars PROVE Limited'
  OBVIOUS
<1>1. db \in Db /\ RowIsLast /\ InOrder  BY DEF StartInv
<1> USE DEF Goes, Booting
<1>2. ASSUME UNCHANGED vars, db'.row = db.row, spc' \notin {"down", "ready"} /\ is_new' => ~db.row
      PROVE  Limited'
  BY <1>2 DEF vars, Limited, Running
<1>3. CASE UNCHANGED startVars  BY <1>2, <1>3 DEF startVars, start, Limited
<1>4. CASE Open  BY <1>1, <1>2, <1>4 DEF Open, Db, RowIsLast
<1>5. CASE CreateCache \/ CreateMeta
  BY <1>1, <1>2, <1>5 DEF CreateCache, CreateMeta, Db, Limited
<1>6. CASE Check \/ NoCacheTable  BY <1>2, <1>6 DEF Check, NoCacheTable, Limited
<1>7. CASE CreateIndex  BY <1>1, <1>2, <1>7 DEF CreateIndex, Db, Limited
<1>8. ASSUME NEW max \in Limits, InsertMeta(max) PROVE Limited'
  BY <1>1, <1>8 DEF InsertMeta, Db, InOrder, Limited, Running
<1>9. CASE StartFails  BY <1>9 DEF StartFails, Limited, Running
<1>10. CASE NoMetaTable  BY <1>10 DEF NoMetaTable, Stop, Limited, Running
<1>11. CASE Serves
  <2>1. Next /\ db' = db /\ spc = "ready" /\ spc' \in {"down", "ready"}  BY <1>11 DEF Serves
  <2>2. QED  BY <2>1, ManagerLimited
<1>12. QED
  BY <1>3, <1>4, <1>5, <1>6, <1>7, <1>8, <1>9, <1>10, <1>11 DEF StartNext, Boots

\* What a running manager would save now is accepted when nothing has failed.
LEMMA BooksAreAccepted ==
  ASSUME IInv, faults = 0, Running, meta.max_size # 0 PROVE Accepts(meta)
<1>1. TypeInv /\ IsFiniteSet(Blocks(rows, size)) /\ meta.cache_size = Usage(rows, size)
  BY DEF IInv, BooksInv, Total
<1>2. CASE rows = {}
  <2>1. meta.cache_size = 0  BY <1>1, <1>2, UsageEmpty
  <2>2. QED  BY <1>2, <2>1 DEF Accepts
<1>3. CASE rows # {}
  <2>1. PICK k \in rows : Newest(k) /\ sequence[k] = meta.sequence
    BY <1>3 DEF IInv, SequenceOrder
  <2>2. size[k] \in Nat  BY <1>1, Numbers
  <2>3. IsFiniteSet(Blocks(rows \ {k}, size)) /\ Usage(rows, size) = Usage(rows \ {k}, size) + size[k]
    BY <1>1, <2>2, UsageRemove
  <2>4. Usage(rows \ {k}, size) \in Nat  BY <2>3, UsageType
  <2>5. size[k] <= meta.cache_size  BY <1>1, <2>2, <2>3, <2>4
  <2>6. QED  BY <1>3, <2>1, <2>5 DEF Accepts
<1>4. QED  BY <1>2, <1>3

\* Nothing heals a fault.
LEMMA FaultsGrow == Next => faults' \in {faults, faults + 1}
BY DEF Next, Lifecycle, Construct, InitAccept, InitRefuse, DestroyUninitialised, Backup, Close,
       CallStep, PutAbsent, PutPresent, Update, Renew, Renewed, Resize,
       Continue, EvictOldest, EvictUnderflow, EvictEmpty, EvictDone, Insert, UpdateContent,
       UpdateUnderflow, FaultStep, DeleteFails, InsertFails, UpdateFails, Crash, Fault

LEMMA ManagerSaves ==
  ASSUME WholeInv, Next, db' = db, faults' = 0, db.row, pc' \in {"down", "new"}
  PROVE  Accepts(disk)'
<1>1. faults = 0
  <2>1. faults \in Nat  BY Numbers DEF WholeInv, IInv
  <2>2. QED  BY <2>1, FaultsGrow
<1>2. ASSUME pc \in {"down", "new"}, UNCHANGED <<rows, size, sequence, disk>> PROVE Accepts(disk)'
  BY <1>1, <1>2 DEF WholeInv, Saved, Accepts, Newest
<1>3. CASE Construct \/ InitRefuse  BY <1>2, <1>3 DEF Construct, InitRefuse
<1>4. CASE InitAccept  BY <1>4 DEF InitAccept, Begin
<1>5. CASE DestroyUninitialised
  <2>1. meta = disk  BY <1>1, <1>5 DEF DestroyUninitialised
  <2>2. QED  BY <1>2, <1>5, <2>1 DEF DestroyUninitialised, Stop
<1>6. CASE Backup  BY <1>6 DEF Backup
<1>7. CASE Close
  <2>1. Running /\ disk' = meta /\ UNCHANGED <<rows, size, sequence>>
    BY <1>7 DEF Close, Stop, Running
  <2>2. meta.max_size # 0 /\ IInv  BY <2>1 DEF WholeInv, Limited
  <2>3. QED  BY <1>1, <2>1, <2>2, BooksAreAccepted DEF Accepts, Newest
<1>8. ~CallStep /\ ~Continue
  BY DEF CallStep, PutAbsent, PutPresent, Update, Renew, Resize, Begin, Continue, EvictOldest,
         EvictUnderflow, EvictEmpty, EvictDone, Insert, UpdateContent, UpdateUnderflow, Return
<1>9. ~FaultStep
  BY <1>1 DEF FaultStep, DeleteFails, InsertFails, UpdateFails, Crash, Fault
<1>10. QED  BY <1>3, <1>4, <1>5, <1>6, <1>7, <1>8, <1>9 DEF Next, Lifecycle

\* Only a fault cuts a start short.
LEMMA StepUncut == WholeInv /\ [StartNext]_startVars => Uncut'
<1> SUFFICES ASSUME WholeInv, [StartNext]_startVars, faults' = 0 PROVE Uncut'
  BY DEF Uncut
<1>1. db \in Db /\ InOrder /\ Uncut /\ faults \in Nat /\ RowIsLast
  BY Numbers DEF WholeInv, StartInv, IInv
<1>2. ASSUME faults = 0, db' = db, spc \in {"check_cache", "ready"} PROVE Uncut'
  BY <1>1, <1>2 DEF Uncut
<1> USE DEF Goes, FullDb, NoDb
<1>3. CASE UNCHANGED startVars  BY <1>1, <1>3 DEF startVars, start, vars, Uncut
<1>4. CASE Open
  <2>1. faults = 0 /\ spc = "down" /\ db' = [db EXCEPT !.file = TRUE]  BY <1>4 DEF Open, vars
  <2>2. CASE db = NoDb
    <3>1. spc' = "create_cache"  BY <1>4, <2>2 DEF Open
    <3>2. QED  BY <3>1 DEF Uncut
  <2>3. CASE db = FullDb
    <3>1. spc' = "check_cache" /\ db' = FullDb  BY <1>4, <2>1, <2>3 DEF Open
    <3>2. QED  BY <3>1 DEF Uncut
  <2>4. QED  BY <1>1, <2>1, <2>2, <2>3 DEF Uncut
<1>5. CASE CreateCache \/ CreateMeta
  BY <1>1, <1>5 DEF CreateCache, CreateMeta, InOrder, Uncut, vars
<1>6. CASE Check  BY <1>2, <1>6 DEF Check, vars
<1>7. CASE CreateIndex \/ NoCacheTable
  <2>1. faults = 0 /\ spc = "index" /\ is_new' = is_new
    BY <1>7 DEF CreateIndex, NoCacheTable, vars
  <2>2. CASE is_new
    BY <1>1, <1>7, <2>1, <2>2 DEF CreateIndex, NoCacheTable, InOrder, Uncut
  <2>3. CASE ~is_new
    BY <1>1, <1>7, <2>1, <2>3 DEF CreateIndex, NoCacheTable, Uncut
  <2>4. QED  BY <2>2, <2>3
<1>8. ASSUME NEW max \in Limits, InsertMeta(max) PROVE Uncut'
  BY <1>1, <1>8 DEF InsertMeta, Db, InOrder, Uncut
<1>9. CASE StartFails  BY <1>1, <1>9 DEF StartFails, Fault
<1>10. CASE NoMetaTable  BY <1>1, <1>10 DEF NoMetaTable, Uncut
<1>11. CASE Serves
  <2>1. faults = 0  BY <1>1, <1>11, FaultsGrow DEF Serves
  <2>2. QED  BY <1>1, <1>11, <2>1 DEF Serves, Uncut
<1>12. QED
  BY <1>3, <1>4, <1>5, <1>6, <1>7, <1>8, <1>9, <1>10, <1>11 DEF StartNext, Boots

LEMMA StepSaved == WholeInv /\ [StartNext]_startVars => Saved'
<1> SUFFICES ASSUME WholeInv, [StartNext]_startVars, faults' = 0, db'.row, pc' \in {"down", "new"}
             PROVE  Accepts(disk)'
  BY DEF Saved
<1>1. db \in Db /\ InOrder /\ Saved /\ Limited /\ faults \in Nat
  BY Numbers DEF WholeInv, StartInv, IInv
<1>2. ASSUME UNCHANGED vars, db.row PROVE Accepts(disk)'
  BY <1>1, <1>2 DEF vars, Saved, Accepts, Newest
<1> USE DEF Goes
<1>3. CASE UNCHANGED startVars  BY <1>2, <1>3 DEF startVars, start
<1>4. CASE Open \/ CreateCache \/ CreateMeta \/ Check \/ CreateIndex \/ NoCacheTable
  <2>1. UNCHANGED vars /\ db'.row = db.row
    BY <1>1, <1>4 DEF Open, CreateCache, CreateMeta, Check, CreateIndex, NoCacheTable, Db
  <2>2. QED  BY <1>2, <2>1
<1>5. ASSUME NEW max \in Limits, InsertMeta(max) PROVE Accepts(disk)'
  <2>1. rows = {} /\ rows' = {}
    BY <1>1, <1>5 DEF InsertMeta, InOrder, Limited, Booting
  <2>2. disk'.cache_size = 0 /\ disk'.max_size = max /\ max # 0
    BY <1>5, LruAssumption DEF InsertMeta
  <2>3. QED  BY <2>1, <2>2 DEF Accepts
<1>6. CASE StartFails  BY <1>1, <1>6 DEF StartFails, Fault
<1>7. CASE NoMetaTable
  BY <1>1, <1>7 DEF NoMetaTable, Stop, Saved, Accepts, Newest
<1>8. CASE Serves  BY <1>8, ManagerSaves DEF Serves
<1>9. QED
  BY <1>3, <1>4, <1>5, <1>6, <1>7, <1>8 DEF StartNext, Boots

\* A start, the manager and the database it finds, together.
THEOREM WholeInvariant == StartSpec => []WholeInv
<1>1. WholeInv /\ [StartNext]_startVars => WholeInv'
  <2> SUFFICES ASSUME WholeInv, [StartNext]_startVars PROVE WholeInv'
    OBVIOUS
  <2>1. StartInv'  BY StepStarts DEF WholeInv
  <2>2. IInv' /\ Limited'  BY StartKeepsInvariant, StepLimited DEF WholeInv
  <2>3. Saved' /\ Uncut'  BY StepSaved, StepUncut
  <2>4. QED  BY <2>1, <2>2, <2>3 DEF WholeInv
<1>2. QED  BY <1>1, InitWhole, PTL DEF StartSpec

\* A program whose starts and runs were never interrupted is never turned
\* away, neither by the index nor by init().
THEOREM UninterruptedStarts == StartSpec => []StartsUnlessFault
<1>1. WholeInv => StartsUnlessFault
  <2> SUFFICES ASSUME WholeInv, faults = 0
               PROVE  /\ spc = "index" => db.cache
                      /\ spc = "ready" /\ pc \in {"down", "new"} => db = FullDb /\ Accepts(disk)
    BY DEF StartsUnlessFault
  <2>1. spc = "index" => db.cache
    BY DEF WholeInv, StartInv, InOrder, Uncut, FullDb
  <2>2. spc = "ready" => db = FullDb  BY DEF WholeInv, Uncut
  <2>3. QED  BY <2>1, <2>2 DEF WholeInv, Saved, FullDb
<1>2. QED  BY <1>1, WholeInvariant, PTL

\* What the manager promises of a database made for it, it keeps on one that
\* any history of starts, whole or cut short, has left.
THEOREM StartedManagerKeepsBooks == StartSpec => [](SequenceOrder /\ Fits /\ NoDbError)
<1>1. WholeInv => SequenceOrder /\ Fits /\ NoDbError
  BY FitsHere, NoDbErrorHere DEF WholeInv, IInv
<1>2. QED  BY <1>1, WholeInvariant, PTL

\* So is the LRU cache it stands for.
THEOREM StartedImplementsRecencyCache == StartSpec => IsRecencyCache
<1>1. StartInit => Recency!Init  BY DEF StartInit, Recency!Init, Older
<1>2. WholeInv /\ [StartNext]_startVars => [Recency!Next]_Recency!vars
  <2> SUFFICES ASSUME WholeInv, [StartNext]_startVars PROVE [Recency!Next]_Recency!vars
    OBVIOUS
  <2>1. CASE UNCHANGED vars \/ Next  BY <2>1, StepRefines DEF WholeInv, IInv
  <2>2. CASE StartFails \/ NoMetaTable \/ \E max \in Limits : InsertMeta(max)
    <3>1. UNCHANGED <<rows, sequence>>  BY <2>2 DEF StartFails, NoMetaTable, Stop, InsertMeta
    <3>2. QED  BY <3>1 DEF Recency!vars, Older
  <2>3. QED
    BY <2>1, <2>2
    DEF StartNext, Boots, Open, CreateCache, CreateMeta, Check, CreateIndex, NoCacheTable, Serves,
        startVars
<1>3. QED  BY <1>1, <1>2, WholeInvariant, PTL DEF StartSpec, IsRecencyCache, Recency!Spec
=============================================================================
