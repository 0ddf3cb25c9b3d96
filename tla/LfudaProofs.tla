---------------------------- MODULE LfudaProofs ----------------------------
(***************************************************************************)
(* Theorems about LfudaSqlite, for every set of keys, sizes, limits and    *)
(* times and every bound on counts, aging and faults.                      *)
(***************************************************************************)
EXTENDS LfudaSqlite, DiskUsageProofs

-----------------------------------------------------------------------------
(* Types, and what the call in progress may rely on: the key of an         *)
(* insertion has no row, that of an update has one unless it is marked.    *)

TypeOK ==
  /\ rows \subseteq Keys /\ size \in [Keys -> Nat] /\ stat \in [Keys -> Stat]
  /\ disk \in Meta /\ meta \in Meta
  /\ pc \in {"down", "new", "idle", "evict", "commit"} /\ op \in Op
  /\ removed \subseteq Keys /\ files \subseteq Keys /\ faults \in Nat

Updating == op.kind = "update"

CallOK ==
  /\ op.kind = "insert" => op.key \in Keys \ rows
  /\ Updating => op.key \in Keys /\ (op.evicted \/ op.key \in rows)
  /\ IF pc \in {"evict", "commit"} THEN op.kind # "none" ELSE op = NoOp
  /\ pc = "commit" => op.kind # "trim" /\ ~op.evicted

TypeInv == TypeOK /\ CallOK

\* The record of a call, and the record of no call.
LEMMA CallFields ==
  ASSUME NEW kind \in {"none", "insert", "update", "trim"},
         NEW k \in Keys \union {NoKey}, NEW s \in Nat, NEW t \in Nat, NEW r \in Nat
  PROVE  /\ Call(kind, k, s, t, r) \in Op
         /\ Call(kind, k, s, t, r).kind = kind /\ Call(kind, k, s, t, r).key = k
         /\ Call(kind, k, s, t, r).size = s /\ Call(kind, k, s, t, r).required = r
         /\ ~Call(kind, k, s, t, r).evicted
BY DEF Call, Op

LEMMA NoOpFields == NoOp \in Op /\ NoOp.kind = "none" /\ NoOp.required = 0 /\ ~NoOp.evicted
BY CallFields DEF NoOp

LEMMA TrimFields ==
  LET call == Call("trim", NoKey, 0, 0, 0)
  IN  call \in Op /\ call.kind = "trim" /\ call.size = 0 /\ call.required = 0
BY CallFields

\* The naturals the arithmetic below is about.
LEMMA Numbers ==
  ASSUME TypeInv
  PROVE  /\ rows \subseteq Keys /\ size \in [Keys -> Nat]
         /\ meta.cache_size \in Nat /\ meta.max_size \in Nat /\ meta.global_aging \in Nat
         /\ disk.cache_size \in Nat /\ disk.max_size \in Nat /\ disk.global_aging \in Nat
         /\ op.size \in Nat /\ op.required \in Nat /\ op.time \in Nat /\ faults \in Nat
BY DEF TypeInv, TypeOK, Meta, Op

LEMMA StatNumbers ==
  ASSUME TypeInv, NEW k \in Keys
  PROVE  stat[k].timestamp \in Nat /\ stat[k].freq \in Nat /\ stat[k].eff \in Nat
BY DEF TypeInv, TypeOK, Stat

LEMMA InitType == Init => TypeInv
<1> SUFFICES ASSUME Init PROVE TypeInv
  OBVIOUS
<1>1. PICK max \in Limits : disk = [cache_size |-> 0, max_size |-> max, global_aging |-> 0]
  BY DEF Init
<1>2. disk \in Meta /\ meta \in Meta
  BY <1>1, LfudaAssumption DEF Init, Meta, ZeroMeta
<1>3. stat \in [Keys -> Stat]
  <2>1. ZeroStat \in Stat  BY DEF ZeroStat, Stat
  <2>2. QED  BY <2>1 DEF Init
<1>4. TypeOK  BY <1>2, <1>3, NoOpFields DEF Init, TypeOK
<1>5. CallOK  BY NoOpFields DEF Init, CallOK, Updating
<1>6. QED  BY <1>4, <1>5 DEF TypeInv

LEMMA LifecycleType == TypeInv /\ Lifecycle => TypeInv'
<1> SUFFICES ASSUME TypeInv, Lifecycle PROVE TypeInv'
  OBVIOUS
<1> USE LfudaAssumption, NoOpFields DEF TypeInv, TypeOK, CallOK, Updating
<1>1. CASE Construct  BY <1>1 DEF Construct
<1>2. CASE InitAccept
  <2>1. op = NoOp  BY <1>2 DEF InitAccept
  <2>2. CASE disk.cache_size > disk.max_size
    BY <1>2, <2>1, <2>2, TrimFields DEF InitAccept, Begin
  <2>3. CASE ~(disk.cache_size > disk.max_size)
    <3>1. pc' = "idle" /\ op' = NoOp  BY <1>2, <2>1, <2>3 DEF InitAccept
    <3>2. QED  BY <1>2, <3>1 DEF InitAccept
  <2>4. QED  BY <2>2, <2>3
<1>3. CASE InitRefuse  BY <1>3 DEF InitRefuse
<1>4. CASE DestroyUninitialised
  BY <1>4 DEF DestroyUninitialised, Stop, ZeroMeta, Meta
<1>5. CASE Backup  BY <1>5 DEF Backup
<1>6. CASE Close  BY <1>6 DEF Close, Stop, ZeroMeta, Meta
<1>7. QED  BY <1>1, <1>2, <1>3, <1>4, <1>5, <1>6 DEF Lifecycle

\* What a use makes of an entry.
LEMMA RenewedFields ==
  ASSUME TypeInv, NEW k \in Keys, NEW t \in Times, Renewed(k, t)
  PROVE  /\ stat' \in [Keys -> Stat]
         /\ stat'[k].freq = stat[k].freq + 1
         /\ stat'[k].eff = stat[k].freq + 1 + meta.global_aging
         /\ \A j \in Keys \ {k} : stat'[j] = stat[j]
<1> DEFINE used == [timestamp |-> MaxTime(stat[k].timestamp, t), freq |-> stat[k].freq + 1,
                    eff |-> stat[k].freq + 1 + meta.global_aging]
<1>1. stat \in [Keys -> Stat] /\ stat[k] \in Stat /\ meta.global_aging \in Nat /\ t \in Nat
  BY LfudaAssumption DEF TypeInv, TypeOK, Meta
<1>2. MaxTime(stat[k].timestamp, t) \in Nat  BY <1>1 DEF MaxTime, Stat
<1>3. used \in Stat  BY <1>1, <1>2 DEF Stat
<1>4. stat' = [stat EXCEPT ![k] = used]
  BY <1>1 DEF Renewed, Stat
<1>5. QED  BY <1>1, <1>3, <1>4

LEMMA CallType == TypeInv /\ CallStep => TypeInv'
<1> SUFFICES ASSUME TypeInv, CallStep PROVE TypeInv'
  OBVIOUS
<1> USE LfudaAssumption DEF TypeInv, TypeOK, CallOK, Updating
<1>1. ASSUME NEW k \in Keys, NEW s \in Sizes, NEW t \in Times, PutAbsent(k, s, t) PROVE TypeInv'
  <2>1. pc' = "evict" /\ op' = Call("insert", k, s, t, s)
    BY <1>1 DEF PutAbsent, Begin
  <2>2. op' \in Op /\ op'.kind = "insert" /\ op'.key = k
    <3>1. s \in Nat /\ t \in Nat  OBVIOUS
    <3>2. QED  BY ONLY <2>1, <3>1, CallFields
  <2>3. QED  BY <1>1, <2>1, <2>2 DEF PutAbsent
<1>2. ASSUME NEW k \in Keys, NEW s \in Sizes, NEW t \in Times, PutPresent(k, s, t) PROVE TypeInv'
  <2>1. stat' \in [Keys -> Stat]  BY <1>2, RenewedFields DEF PutPresent
  <2>2. CASE s > size[k]
    <3>1. s \in Nat /\ t \in Nat /\ s - size[k] \in Nat  BY <2>2
    <3>2. pc' = "evict" /\ op' = Call("update", k, s, t, s - size[k])
      BY <1>2, <2>2 DEF PutPresent, Begin
    <3>3. op' \in Op /\ op'.kind = "update" /\ op'.key = k
      BY ONLY <3>1, <3>2, CallFields
    <3>4. QED  BY <1>2, <2>1, <3>2, <3>3 DEF PutPresent, Renewed
  <2>3. CASE ~(s > size[k])  BY <1>2, <2>1, <2>3 DEF PutPresent, Renewed
  <2>4. QED  BY <2>2, <2>3
<1>3. ASSUME NEW k \in Keys, NEW s \in Sizes, Update(k, s) PROVE TypeInv'
  <2>1. /\ op' \in Op /\ op'.kind = "update" /\ op'.key = k /\ ~op'.evicted
        /\ pc' \in {"evict", "commit"}
    <3>1. CASE s > size[k]
      <4>1. s \in Nat /\ s - size[k] \in Nat  BY <3>1
      <4>2. pc' = "evict" /\ op' = Call("update", k, s, 0, s - size[k])
        BY <1>3, <3>1 DEF Update, Begin
      <4>3. QED  BY ONLY <4>1, <4>2, CallFields
    <3>2. CASE ~(s > size[k])
      <4>1. pc' = "commit" /\ op' = Call("update", k, s, 0, 0)
        BY <1>3, <3>2 DEF Update
      <4>2. QED  BY <4>1, CallFields
    <3>3. QED  BY <3>1, <3>2
  <2>2. QED  BY <1>3, <2>1 DEF Update
<1>4. ASSUME NEW k \in Keys, NEW t \in Times, Renew(k, t) PROVE TypeInv'
  <2>1. stat' \in [Keys -> Stat]  BY <1>4, RenewedFields DEF Renew
  <2>2. QED  BY <1>4, <2>1 DEF Renew, Renewed
<1>5. ASSUME NEW max \in Limits, Resize(max) PROVE TypeInv'
  <2>1. op' \in Op /\ op'.kind = "trim" /\ pc' = "evict"
    BY <1>5, TrimFields DEF Resize, Begin
  <2>2. meta' \in Meta  BY <1>5 DEF Resize, Meta
  <2>3. QED  BY <1>5, <2>1, <2>2 DEF Resize
<1>6. QED  BY <1>1, <1>2, <1>3, <1>4, <1>5 DEF CallStep

\* A deletion leaves zeros behind.
LEMMA DeleteType ==
  ASSUME TypeInv, NEW k \in Keys, Delete(k)
  PROVE  /\ rows' \subseteq Keys /\ size' \in [Keys -> Nat] /\ stat' \in [Keys -> Stat]
         /\ \A j \in rows' : j \in rows /\ j # k /\ size'[j] = size[j] /\ stat'[j] = stat[j]
<1>1. ZeroStat \in Stat  BY DEF ZeroStat, Stat
<1>2. QED  BY <1>1 DEF Delete, TypeInv, TypeOK

LEMMA ContinueType == TypeInv /\ Continue => TypeInv'
<1> SUFFICES ASSUME TypeInv, Continue PROVE TypeInv'
  OBVIOUS
<1> USE LfudaAssumption, NoOpFields DEF TypeInv, TypeOK, CallOK, Updating, Return
<1>1. ASSUME NEW k \in Keys, EvictWorst(k) PROVE TypeInv'
  <2>1. op' \in Op /\ op'.kind = op.kind /\ op'.key = op.key
    BY <1>1 DEF EvictWorst, Op
  <2>2. op'.evicted \/ k # op.key  BY <1>1 DEF EvictWorst, Op
  <2>3. op.evicted => op'.evicted  BY <1>1 DEF EvictWorst, Op
  <2>4. rows' = rows \ {k} /\ size' \in [Keys -> Nat] /\ stat' \in [Keys -> Stat]
    BY <1>1, DeleteType DEF EvictWorst, Delete
  <2>5. meta' \in Meta
    <3>1. stat[k].eff \in Nat /\ meta.cache_size - size[k] \in Nat
      BY <1>1, StatNumbers, Numbers DEF EvictWorst
    <3>2. QED  BY <1>1, <3>1 DEF EvictWorst, Meta
  <2>6. QED  BY <1>1, <2>1, <2>2, <2>3, <2>4, <2>5 DEF EvictWorst, Worst
<1>2. ASSUME NEW k \in Keys, EvictUnderflow(k) PROVE TypeInv'
  <2>1. rows' \subseteq Keys /\ size' \in [Keys -> Nat] /\ stat' \in [Keys -> Stat]
    BY <1>2, DeleteType DEF EvictUnderflow
  <2>2. QED  BY <1>2, <2>1 DEF EvictUnderflow, RemoveCallback
<1>3. CASE EvictEmpty  BY <1>3 DEF EvictEmpty, RemoveCallback
<1>4. CASE EvictDone
  <2>1. files' \subseteq Keys  BY <1>4 DEF EvictDone, RemoveCallback
  <2>2. CASE op.kind = "trim" \/ op.evicted
    BY <1>4, <2>1, <2>2 DEF EvictDone
  <2>3. CASE ~(op.kind = "trim" \/ op.evicted)
    <3>1. op.kind # "none" /\ ~op.evicted /\ pc' = "commit" /\ op' = op
      BY <1>4, <2>3 DEF EvictDone
    <3>2. QED  BY <1>4, <2>1, <2>3, <3>1 DEF EvictDone
  <2>4. QED  BY <2>2, <2>3
<1>5. CASE Insert
  <2>1. op.key \in Keys /\ op.size \in Nat /\ op.time \in Nat  BY <1>5 DEF Insert, Op
  <2>2. meta' \in Meta  BY <1>5, <2>1 DEF Insert, Meta
  <2>3. size' \in [Keys -> Nat]  BY <1>5, <2>1 DEF Insert
  <2>4. stat' \in [Keys -> Stat]
    <3>1. [timestamp |-> op.time, freq |-> 1, eff |-> meta.global_aging + 1] \in Stat
      BY <2>1, Numbers DEF Stat
    <3>2. QED  BY <1>5, <2>1, <3>1 DEF Insert
  <2>5. QED  BY <1>5, <2>1, <2>2, <2>3, <2>4 DEF Insert
<1>6. CASE UpdateContent
  <2>1. op.key \in Keys /\ op.size \in Nat /\ size[op.key] \in Nat
    BY <1>6 DEF UpdateContent, Op
  <2>2. meta' \in Meta  BY <1>6, <2>1 DEF UpdateContent, Resized, Meta
  <2>3. size' \in [Keys -> Nat]  BY <1>6, <2>1 DEF UpdateContent
  <2>4. QED  BY <1>6, <2>2, <2>3 DEF UpdateContent
<1>7. CASE UpdateUnderflow  BY <1>7 DEF UpdateUnderflow
<1>8. QED  BY <1>1, <1>2, <1>3, <1>4, <1>5, <1>6, <1>7 DEF Continue

LEMMA FaultType == TypeInv /\ FaultStep => TypeInv'
<1> SUFFICES ASSUME TypeInv, FaultStep PROVE TypeInv'
  OBVIOUS
<1> USE LfudaAssumption, NoOpFields DEF TypeInv, TypeOK, CallOK, Updating, Return, Fault
<1>1. CASE DeleteFails  BY <1>1 DEF DeleteFails
<1>2. CASE InsertFails  BY <1>2 DEF InsertFails
<1>3. CASE UpdateFails
  <2>1. op.key \in Keys /\ op.size \in Nat /\ size[op.key] \in Nat
    BY <1>3 DEF UpdateFails, Op
  <2>2. meta' \in Meta  BY <1>3, <2>1 DEF UpdateFails, Resized, Meta
  <2>3. QED  BY <1>3, <2>2 DEF UpdateFails
<1>4. CASE Crash  BY <1>4 DEF Crash, Stop, ZeroMeta, Meta
<1>5. QED  BY <1>1, <1>2, <1>3, <1>4 DEF FaultStep

LEMMA StepType == TypeInv /\ [Next]_vars => TypeInv'
<1>1. TypeInv /\ UNCHANGED vars => TypeInv'
  BY DEF vars, TypeInv, TypeOK, CallOK, Updating
<1>2. QED  BY <1>1, LifecycleType, CallType, ContinueType, FaultType DEF Next

\* Every variable keeps its type through crashes and failed statements; in
\* particular no size_t of the manager is ever taken below zero.
THEOREM TypeCorrect == Spec => []TypeOK
<1>1. TypeInv => TypeOK  BY DEF TypeInv
<1>2. QED  BY <1>1, InitType, StepType, PTL DEF Spec

-----------------------------------------------------------------------------
(* The aging factor.                                                       *)

\* Only init() takes the factor from the disk, and from there on it grows:
\* each victim's value is at least the factor of the moment.
AgingInv ==
  /\ AgingIsFloor
  /\ pc = "down" => meta = ZeroMeta
  /\ pc = "new" => meta = ZeroMeta \/ meta = disk
  /\ Running => disk.global_aging <= meta.global_aging

LEMMA InitAging == Init => AgingInv
BY DEF Init, AgingInv, AgingIsFloor, Running

\* The victim's value is at most that of any row that stays.
LEMMA WorstIsLeast ==
  ASSUME TypeInv, NEW k \in Keys, Worst(k), NEW j \in rows
  PROVE  stat[k].eff <= stat[j].eff
<1>1. stat[k].eff \in Nat /\ stat[j].eff \in Nat
  BY StatNumbers, Numbers
<1>2. ASSUME stat[j].eff < stat[k].eff PROVE Precedes(Rank(j), Rank(k))
  <2>1. 1 \in DOMAIN Rank(j) /\ Rank(j)[1] = stat[j].eff /\ Rank(k)[1] = stat[k].eff
    BY DEF Rank
  <2>2. \A h \in 1 .. (1 - 1) : Rank(j)[h] = Rank(k)[h]
    OBVIOUS
  <2>3. QED  BY <1>2, <2>1, <2>2 DEF Precedes
<1>3. QED  BY <1>1, <1>2 DEF Worst

\* A step of a running manager that leaves the factor alone and gives an
\* entry, if any, a value above it.
LEMMA SameFactor ==
  ASSUME TypeInv, AgingInv, Running, Running', disk' = disk,
         meta'.global_aging = meta.global_aging,
         \A j \in rows' : \/ j \in rows /\ stat'[j] = stat[j]
                         \/ /\ stat'[j].eff \in Nat
                            /\ meta.global_aging <= stat'[j].eff
  PROVE  AgingInv'
<1>1. disk.global_aging \in Nat /\ meta.global_aging \in Nat  BY Numbers
<1>2. disk.global_aging <= meta.global_aging  BY DEF AgingInv
<1>3. ASSUME NEW j \in rows'
      PROVE  disk.global_aging <= stat'[j].eff /\ meta.global_aging <= stat'[j].eff
  <2>1. CASE j \in rows /\ stat'[j] = stat[j]
    BY <2>1 DEF AgingInv, AgingIsFloor
  <2>2. CASE stat'[j].eff \in Nat /\ meta.global_aging <= stat'[j].eff
    BY <1>1, <1>2, <2>2
  <2>3. QED  BY <1>3, <2>1, <2>2
<1>4. QED  BY <1>2, <1>3 DEF AgingInv, AgingIsFloor, Running

LEMMA LifecycleAging == TypeInv /\ AgingInv /\ Lifecycle => AgingInv'
<1> SUFFICES ASSUME TypeInv, AgingInv, Lifecycle PROVE AgingInv'
  OBVIOUS
<1>1. /\ disk.global_aging \in Nat /\ meta.global_aging \in Nat /\ ZeroMeta.global_aging = 0
      /\ \A k \in rows : stat[k].eff \in Nat
  BY Numbers, StatNumbers DEF ZeroMeta
<1> USE DEF AgingInv, AgingIsFloor, Running
<1>2. CASE Construct  BY <1>2 DEF Construct
<1>3. CASE InitAccept  BY <1>1, <1>3 DEF InitAccept, Begin
<1>4. CASE InitRefuse  BY <1>4 DEF InitRefuse
<1>5. CASE DestroyUninitialised
  <2>1. /\ disk' = meta /\ pc' = "down" /\ meta' = ZeroMeta /\ UNCHANGED <<rows, stat>>
        /\ meta = ZeroMeta \/ meta = disk
    BY <1>5 DEF DestroyUninitialised, Stop
  <2>2. QED  BY <1>1, <2>1
<1>6. CASE Backup  BY <1>1, <1>6 DEF Backup
<1>7. CASE Close  BY <1>1, <1>7 DEF Close, Stop
<1>8. QED  BY <1>2, <1>3, <1>4, <1>5, <1>6, <1>7 DEF Lifecycle

\* A use puts an entry above the factor.
LEMMA RenewedAging ==
  ASSUME TypeInv, NEW k \in Keys, NEW t \in Times, Renewed(k, t)
  PROVE  \A j \in rows' : \/ j \in rows /\ stat'[j] = stat[j]
                         \/ /\ stat'[j].eff \in Nat
                            /\ meta.global_aging <= stat'[j].eff
<1>1. rows' = rows /\ rows \subseteq Keys /\ meta.global_aging \in Nat /\ stat[k].freq \in Nat
  BY Numbers, StatNumbers DEF Renewed
<1>2. stat'[k].eff = stat[k].freq + 1 + meta.global_aging
  BY RenewedFields
<1>3. \A j \in Keys \ {k} : stat'[j] = stat[j]  BY RenewedFields
<1>4. stat'[k].eff \in Nat /\ meta.global_aging <= stat'[k].eff  BY <1>1, <1>2
<1>5. QED  BY <1>1, <1>3, <1>4

LEMMA CallAging == TypeInv /\ AgingInv /\ CallStep => AgingInv'
<1> SUFFICES ASSUME TypeInv, AgingInv, CallStep PROVE AgingInv'
  OBVIOUS
<1>1. Running /\ Running' /\ disk' = disk
  BY DEF CallStep, PutAbsent, PutPresent, Renewed, Update, Renew, Resize, Begin, Running
<1>2. ASSUME NEW k \in Keys, NEW t \in Times, Renewed(k, t) PROVE AgingInv'
  <2>1. meta' = meta  BY <1>2 DEF Renewed
  <2>2. QED  BY <1>1, <1>2, <2>1, RenewedAging, SameFactor
<1>3. ASSUME UNCHANGED <<rows, stat>>, meta'.global_aging = meta.global_aging PROVE AgingInv'
  BY <1>1, <1>3, SameFactor
<1>4. ASSUME NEW k \in Keys, NEW s \in Sizes, NEW t \in Times, PutAbsent(k, s, t) PROVE AgingInv'
  BY <1>3, <1>4 DEF PutAbsent
<1>5. ASSUME NEW k \in Keys, NEW s \in Sizes, NEW t \in Times, PutPresent(k, s, t) PROVE AgingInv'
  BY <1>2, <1>5 DEF PutPresent
<1>6. ASSUME NEW k \in Keys, NEW t \in Times, Renew(k, t) PROVE AgingInv'
  BY <1>2, <1>6 DEF Renew
<1>7. ASSUME NEW k \in Keys, NEW s \in Sizes, Update(k, s) PROVE AgingInv'
  BY <1>3, <1>7 DEF Update
<1>8. ASSUME NEW max \in Limits, Resize(max) PROVE AgingInv'
  BY <1>3, <1>8 DEF Resize, TypeInv, TypeOK, Meta
<1>9. QED  BY <1>4, <1>5, <1>6, <1>7, <1>8 DEF CallStep

LEMMA ContinueAging == TypeInv /\ AgingInv /\ Continue => AgingInv'
<1> SUFFICES ASSUME TypeInv, AgingInv, Continue PROVE AgingInv'
  OBVIOUS
<1>1. Running /\ Running' /\ disk' = disk /\ meta \in Meta
  BY DEF Continue, EvictWorst, EvictUnderflow, EvictEmpty, EvictDone, Insert, UpdateContent,
         UpdateUnderflow, Return, Running, TypeInv, TypeOK
<1>2. ASSUME UNCHANGED <<rows, stat>>, meta'.global_aging = meta.global_aging PROVE AgingInv'
  BY <1>1, <1>2, SameFactor
<1>3. ASSUME NEW k \in Keys, EvictWorst(k) PROVE AgingInv'
  <2>1. k \in rows /\ Worst(k) /\ Delete(k) /\ meta'.global_aging = stat[k].eff
    BY <1>1, <1>3 DEF EvictWorst, Worst, Meta
  <2>2. ASSUME NEW j \in rows'
        PROVE  disk.global_aging <= stat'[j].eff /\ stat[k].eff <= stat'[j].eff
    <3>1. j \in rows /\ stat'[j] = stat[j]  BY <2>1, <2>2, DeleteType
    <3>2. stat[k].eff <= stat[j].eff  BY <2>1, <3>1, WorstIsLeast
    <3>3. QED  BY <3>1, <3>2 DEF AgingInv, AgingIsFloor
  <2>3. disk.global_aging <= stat[k].eff  BY <2>1 DEF AgingInv, AgingIsFloor
  <2>4. QED  BY <1>1, <2>1, <2>2, <2>3 DEF AgingInv, AgingIsFloor, Running
<1>4. ASSUME NEW k \in Keys, EvictUnderflow(k) PROVE AgingInv'
  <2>1. \A j \in rows' : j \in rows /\ stat'[j] = stat[j]
    BY <1>4, DeleteType DEF EvictUnderflow
  <2>2. meta' = meta  BY <1>4 DEF EvictUnderflow
  <2>3. QED  BY <1>1, <2>1, <2>2, SameFactor
<1>5. CASE Insert
  <2>1. op.key \in Keys /\ rows' = rows \union {op.key}
    BY <1>5 DEF Insert, TypeInv, CallOK
  <2>2. meta'.global_aging = meta.global_aging /\ meta.global_aging \in Nat
    BY <1>1, <1>5 DEF Insert, Meta
  <2>3. stat'[op.key].eff = meta.global_aging + 1 /\ \A j \in Keys \ {op.key} : stat'[j] = stat[j]
    BY <1>5, <2>1 DEF Insert, TypeInv, TypeOK
  <2>4. stat'[op.key].eff \in Nat /\ meta.global_aging <= stat'[op.key].eff
    BY <2>2, <2>3
  <2>5. rows \subseteq Keys  BY Numbers
  <2>6. \A j \in rows' : \/ j \in rows /\ stat'[j] = stat[j]
                         \/ /\ stat'[j].eff \in Nat
                            /\ meta.global_aging <= stat'[j].eff
    BY <2>1, <2>3, <2>4, <2>5
  <2>7. QED  BY <1>1, <2>2, <2>6, SameFactor
<1>6. CASE UpdateContent
  BY <1>1, <1>2, <1>6 DEF UpdateContent, Resized, Meta
<1>7. CASE EvictEmpty \/ EvictDone \/ UpdateUnderflow
  BY <1>2, <1>7 DEF EvictEmpty, EvictDone, UpdateUnderflow
<1>8. QED  BY <1>3, <1>4, <1>5, <1>6, <1>7 DEF Continue

LEMMA FaultAging == TypeInv /\ AgingInv /\ FaultStep => AgingInv'
<1> SUFFICES ASSUME TypeInv, AgingInv, FaultStep PROVE AgingInv'
  OBVIOUS
<1>1. UNCHANGED <<rows, stat, disk>>
  BY DEF FaultStep, DeleteFails, InsertFails, UpdateFails, Crash, Stop
<1>2. CASE Crash  BY <1>1, <1>2 DEF Crash, Stop, AgingInv, AgingIsFloor, Running
<1>3. CASE DeleteFails \/ InsertFails \/ UpdateFails
  <2>1. Running /\ pc' = "idle" /\ meta'.global_aging = meta.global_aging
    BY <1>3 DEF DeleteFails, InsertFails, UpdateFails, Resized, Return, Running,
                TypeInv, TypeOK, Meta
  <2>2. QED  BY <1>1, <2>1 DEF AgingInv, AgingIsFloor, Running
<1>4. QED  BY <1>2, <1>3 DEF FaultStep

LEMMA StepAging == TypeInv /\ AgingInv /\ [Next]_vars => AgingInv'
<1>1. AgingInv /\ UNCHANGED vars => AgingInv'
  BY DEF vars, AgingInv, AgingIsFloor, Running
<1>2. QED  BY <1>1, LifecycleAging, CallAging, ContinueAging, FaultAging DEF Next

\* No cached entry is worth less than the aging factor, in memory or saved,
\* whatever crashes have set it back.
THEOREM FactorIsFloor == Spec => []AgingIsFloor
<1>1. Init => TypeInv /\ AgingInv  BY InitType, InitAging
<1>2. TypeInv /\ AgingInv /\ [Next]_vars => (TypeInv /\ AgingInv)'
  BY StepType, StepAging
<1>3. AgingInv => AgingIsFloor  BY DEF AgingInv
<1>4. QED  BY <1>1, <1>2, <1>3, PTL DEF Spec

-----------------------------------------------------------------------------
(* What a use is worth.  Without faults the factor in force is never an    *)
(* older one, so an entry's value is at most its count above the factor,   *)
(* and the next use, which takes the factor of the moment, exceeds it.     *)

Factor == IF Running THEN meta.global_aging ELSE disk.global_aging
UsesInv == faults = 0 => \A k \in rows : stat[k].eff <= stat[k].freq + Factor

\* A step that does not lower the factor, and leaves every entry as it is or
\* gives it what its count and the factor say.
LEMMA RaisedFactor ==
  ASSUME TypeInv, TypeInv', UsesInv, faults' = 0 => faults = 0, Factor <= Factor',
         \A j \in rows' : \/ j \in rows /\ stat'[j] = stat[j]
                         \/ stat'[j].eff <= stat'[j].freq + Factor'
  PROVE  UsesInv'
<1> SUFFICES ASSUME faults' = 0, NEW j \in rows' PROVE stat'[j].eff <= stat'[j].freq + Factor'
  BY DEF UsesInv
<1>1. Factor \in Nat /\ Factor' \in Nat
  BY DEF Factor, TypeInv, TypeOK, Meta
<1>2. CASE j \in rows /\ stat'[j] = stat[j]
  <2>1. stat[j].eff <= stat[j].freq + Factor  BY <1>2 DEF UsesInv
  <2>2. stat[j].eff \in Nat /\ stat[j].freq \in Nat  BY <1>2, StatNumbers, Numbers
  <2>3. QED  BY <1>1, <1>2, <2>1, <2>2
<1>3. CASE stat'[j].eff <= stat'[j].freq + Factor'  BY <1>3
<1>4. QED  BY <1>2, <1>3

LEMMA InitUses == Init => UsesInv
BY DEF Init, UsesInv

LEMMA StepUses == TypeInv /\ AgingInv /\ UsesInv /\ [Next]_vars => UsesInv'
<1> SUFFICES ASSUME TypeInv, AgingInv, UsesInv, [Next]_vars PROVE UsesInv'
  OBVIOUS
<1>1. TypeInv'  BY StepType
<1>2. /\ meta.global_aging \in Nat /\ disk.global_aging \in Nat /\ faults \in Nat
      /\ meta \in Meta
  BY Numbers DEF TypeInv, TypeOK
<1>3. ASSUME UNCHANGED <<rows, stat>>, faults' = 0 => faults = 0 /\ Factor' = Factor
      PROVE  UsesInv'
  BY <1>3 DEF UsesInv
<1>4. CASE UNCHANGED vars  BY <1>3, <1>4 DEF vars, Factor, Running
<1>5. CASE Lifecycle
  <2>1. UNCHANGED <<rows, stat>>
    BY <1>5 DEF Lifecycle, Construct, InitAccept, InitRefuse, DestroyUninitialised, Backup, Close, Stop
  <2>2. CASE DestroyUninitialised
    BY <1>2, <1>3, <2>1, <2>2 DEF DestroyUninitialised, Stop, Factor, Running
  <2>3. CASE InitAccept
    BY <1>3, <2>1, <2>3 DEF InitAccept, Begin, Factor, Running
  <2>4. CASE Construct \/ InitRefuse \/ Backup \/ Close
    BY <1>3, <2>1, <2>4 DEF Construct, InitRefuse, Backup, Close, Stop, Factor, Running
  <2>5. QED  BY <1>5, <2>2, <2>3, <2>4 DEF Lifecycle
<1>6. CASE CallStep
  <2>1. Running /\ Running' /\ faults' = faults
    BY <1>6 DEF CallStep, PutAbsent, PutPresent, Renewed, Update, Renew, Resize, Begin, Running
  <2>2. ASSUME NEW k \in Keys, NEW t \in Times, Renewed(k, t) PROVE UsesInv'
    <3>1. rows' = rows /\ rows \subseteq Keys /\ Factor' = Factor /\ Factor = meta.global_aging
      BY <2>1, <2>2, Numbers DEF Renewed, Factor
    <3>2. stat[k].freq \in Nat  BY StatNumbers
    <3>3. stat'[k].eff <= stat'[k].freq + Factor'
      BY <1>2, <2>2, <3>1, <3>2, RenewedFields
    <3>4. \A j \in Keys \ {k} : stat'[j] = stat[j]  BY <2>2, RenewedFields
    <3>5. \A j \in rows' : \/ j \in rows /\ stat'[j] = stat[j]
                           \/ stat'[j].eff <= stat'[j].freq + Factor'
      BY <3>1, <3>3, <3>4
    <3>6. Factor <= Factor'  BY <1>2, <3>1
    <3>7. QED  BY <1>1, <2>1, <3>5, <3>6, RaisedFactor
  <2>3. CASE UNCHANGED <<rows, stat>> /\ meta'.global_aging = meta.global_aging
    BY <1>3, <2>1, <2>3 DEF Factor
  <2>4. QED
    BY <1>2, <1>6, <2>2, <2>3 DEF CallStep, PutAbsent, PutPresent, Update, Renew, Resize, Meta
<1>7. CASE Continue
  <2>1. Running /\ Running' /\ faults' = faults /\ Factor = meta.global_aging
        /\ Factor' = meta'.global_aging
    BY <1>7 DEF Continue, EvictWorst, EvictUnderflow, EvictEmpty, EvictDone, Insert, UpdateContent,
                UpdateUnderflow, Return, Running, Factor
  <2>2. ASSUME NEW k \in Keys, EvictWorst(k) PROVE UsesInv'
    <3>1. \A j \in rows' : j \in rows /\ stat'[j] = stat[j]
      BY <2>2, DeleteType DEF EvictWorst
    <3>2. meta.global_aging <= meta'.global_aging
      BY <1>2, <2>1, <2>2 DEF EvictWorst, Worst, AgingInv, AgingIsFloor, Meta
    <3>3. QED  BY <1>1, <2>1, <3>1, <3>2, RaisedFactor
  <2>3. ASSUME NEW k \in Keys, EvictUnderflow(k) PROVE UsesInv'
    <3>1. \A j \in rows' : j \in rows /\ stat'[j] = stat[j]
      BY <2>3, DeleteType DEF EvictUnderflow
    <3>2. Factor <= Factor'  BY <1>2, <2>1, <2>3 DEF EvictUnderflow
    <3>3. QED  BY <1>1, <2>1, <3>1, <3>2, RaisedFactor
  <2>4. CASE Insert
    <3>1. op.key \in Keys /\ rows' = rows \union {op.key} /\ rows \subseteq Keys
      BY <2>4, Numbers DEF Insert, TypeInv, CallOK
    <3>2. meta'.global_aging = meta.global_aging  BY <1>2, <2>4 DEF Insert, Meta
    <3>3. /\ stat'[op.key].eff = meta.global_aging + 1 /\ stat'[op.key].freq = 1
          /\ \A j \in Keys \ {op.key} : stat'[j] = stat[j]
      BY <2>4, <3>1 DEF Insert, TypeInv, TypeOK
    <3>4. stat'[op.key].eff <= stat'[op.key].freq + Factor'
      BY <1>2, <2>1, <3>2, <3>3
    <3>5. \A j \in rows' : \/ j \in rows /\ stat'[j] = stat[j]
                           \/ stat'[j].eff <= stat'[j].freq + Factor'
      BY <3>1, <3>3, <3>4
    <3>6. Factor <= Factor'  BY <1>2, <2>1, <3>2
    <3>7. QED  BY <1>1, <2>1, <3>5, <3>6, RaisedFactor
  <2>5. CASE UpdateContent
    BY <1>2, <1>3, <2>1, <2>5 DEF UpdateContent, Resized, Meta
  <2>6. CASE EvictEmpty \/ EvictDone \/ UpdateUnderflow
    BY <1>3, <2>1, <2>6 DEF EvictEmpty, EvictDone, UpdateUnderflow
  <2>7. QED  BY <1>7, <2>2, <2>3, <2>4, <2>5, <2>6 DEF Continue
<1>8. CASE FaultStep
  <2>1. faults' = faults + 1
    BY <1>8 DEF FaultStep, DeleteFails, InsertFails, UpdateFails, Crash, Fault
  <2>2. QED  BY <1>2, <2>1 DEF UsesInv
<1>9. QED  BY <1>4, <1>5, <1>6, <1>7, <1>8 DEF Next

\* One step: what raises a count raises the value.
LEMMA CountedUse ==
  ASSUME TypeInv, UsesInv, [Next]_vars, faults = 0, NEW k \in rows \intersect rows',
         stat'[k].freq > stat[k].freq
  PROVE  stat'[k].eff > stat[k].eff
<1>1. rows \subseteq Keys /\ stat[k].eff \in Nat /\ stat[k].freq \in Nat
  BY StatNumbers, Numbers
<1>2. stat'[k] # stat[k]  BY <1>1
<1>3. ASSUME NEW j \in Keys, Delete(j) PROVE FALSE
  BY <1>2, <1>3, DeleteType
<1>4. ~Insert
  <2>1. SUFFICES ASSUME Insert PROVE FALSE
    OBVIOUS
  <2>2. op.key \notin rows  BY <2>1 DEF Insert, TypeInv, CallOK
  <2>3. stat'[k] = stat[k]  BY <1>1, <2>1, <2>2 DEF Insert, TypeInv, TypeOK
  <2>4. QED  BY <1>2, <2>3
<1>5. ASSUME NEW j \in Keys, NEW t \in Times, Running, Renewed(j, t)
      PROVE  stat'[k].eff > stat[k].eff
  <2>1. j = k  BY <1>1, <1>2, <1>5, RenewedFields
  <2>2. stat'[k].eff = stat[k].freq + 1 + meta.global_aging
    BY <1>5, <2>1, RenewedFields
  <2>3. stat[k].eff <= stat[k].freq + meta.global_aging
    BY <1>5 DEF UsesInv, Factor
  <2>4. meta.global_aging \in Nat  BY Numbers
  <2>5. QED  BY <1>1, <2>2, <2>3, <2>4
<1>6. CASE CallStep
  <2>1. \E j \in Keys, t \in Times : Running /\ Renewed(j, t)
    BY <1>2, <1>6 DEF CallStep, PutAbsent, PutPresent, Renew, Update, Resize, Running
  <2>2. QED  BY <1>5, <2>1
<1>7. ~(UNCHANGED vars) /\ ~Lifecycle /\ ~FaultStep
  BY <1>2 DEF vars, Lifecycle, Construct, InitAccept, InitRefuse, DestroyUninitialised, Backup, Close,
              Stop, FaultStep, DeleteFails, InsertFails, UpdateFails, Crash
<1>8. ~Continue
  BY <1>2, <1>3, <1>4 DEF Continue, EvictWorst, EvictUnderflow, EvictEmpty, EvictDone, UpdateContent,
                          UpdateUnderflow
<1>9. QED  BY <1>6, <1>7, <1>8 DEF Next

\* Without faults every use raises the value of the entry used.
THEOREM UseIsWorth == Spec => UseRaisesValue
<1> DEFINE Inv == TypeInv /\ AgingInv /\ UsesInv
<1>1. Inv /\ [Next]_vars
        => [faults = 0 => \A k \in rows \intersect rows' :
              stat'[k].freq > stat[k].freq => stat'[k].eff > stat[k].eff]_vars
  BY CountedUse
<1>2. Init => Inv  BY InitType, InitAging, InitUses
<1>3. Inv /\ [Next]_vars => Inv'
  BY StepType, StepAging, StepUses
<1>4. QED  BY <1>1, <1>2, <1>3, PTL DEF Spec, UseRaisesValue

-----------------------------------------------------------------------------
(* Batches.  What was deleted and not handed over is in `removed', apart   *)
(* from the rows; every key the manager answers for has its file.          *)

DeliveryInv ==
  /\ pc # "evict" => removed = {}
  /\ rows \union removed \union Pending \subseteq files
  /\ removed \intersect (rows \union Pending) = {}
  /\ Pending # {} => ~op.evicted

LEMMA InitDelivery == Init => DeliveryInv
BY NoOpFields DEF Init, DeliveryInv, Pending

LEMMA NothingPending == ASSUME op' = NoOp PROVE Pending' = {}
BY NoOpFields DEF Pending

LEMMA LifecycleDelivery == TypeInv /\ DeliveryInv /\ Lifecycle => DeliveryInv'
<1> SUFFICES ASSUME TypeInv, DeliveryInv, Lifecycle PROVE DeliveryInv'
  OBVIOUS
<1>1. removed = {} /\ removed' = {} /\ pc # "evict" /\ UNCHANGED <<rows, files>>
  BY DEF DeliveryInv, Lifecycle, Construct, InitAccept, InitRefuse, DestroyUninitialised,
         Backup, Close, Stop
<1>2. Pending' = {}
  <2>1. CASE InitAccept /\ disk.cache_size > disk.max_size
    BY <2>1, TrimFields DEF InitAccept, Begin, Pending
  <2>2. CASE ~(InitAccept /\ disk.cache_size > disk.max_size)
    <3>1. op = NoOp
      BY DEF TypeInv, CallOK, Lifecycle, Construct, InitAccept, InitRefuse,
             DestroyUninitialised, Backup, Close
    <3>2. op' = NoOp
      BY <2>2, <3>1 DEF Lifecycle, Construct, InitAccept, InitRefuse, DestroyUninitialised,
                        Backup, Close, Stop
    <3>3. QED  BY <3>2, NothingPending
  <2>3. QED  BY <2>1, <2>2
<1>3. QED  BY <1>1, <1>2 DEF DeliveryInv

\* The naturals a call is made of.
LEMMA CallNumbers ==
  ASSUME TypeInv, NEW k \in Keys, NEW s \in Sizes
  PROVE  /\ s \in Nat /\ size[k] \in Nat
         /\ s > size[k] => s - size[k] \in Nat
BY LfudaAssumption, Numbers

LEMMA PutAbsentOp ==
  ASSUME TypeInv, NEW k \in Keys, NEW s \in Sizes, NEW t \in Times, PutAbsent(k, s, t)
  PROVE  /\ op'.kind = "insert" /\ op'.key = k /\ ~op'.evicted
         /\ op'.size = s /\ op'.required = s
<1>1. s \in Nat /\ t \in Nat  BY LfudaAssumption
<1>2. op' = Call("insert", k, s, t, s)  BY DEF PutAbsent, Begin
<1>3. QED  BY ONLY <1>1, <1>2, CallFields

LEMMA PutPresentOp ==
  ASSUME TypeInv, NEW k \in Keys, NEW s \in Sizes, NEW t \in Times, PutPresent(k, s, t), s > size[k]
  PROVE  /\ op'.kind = "update" /\ op'.key = k /\ pc' = "evict"
         /\ op'.size = s /\ op'.required = s - size[k]
<1>1. s \in Nat /\ t \in Nat /\ s - size[k] \in Nat  BY LfudaAssumption, CallNumbers
<1>2. op' = Call("update", k, s, t, s - size[k]) /\ pc' = "evict"  BY DEF PutPresent, Begin
<1>3. QED  BY ONLY <1>1, <1>2, CallFields

LEMMA UpdateOp ==
  ASSUME TypeInv, NEW k \in Keys, NEW s \in Sizes, Update(k, s)
  PROVE  /\ op'.kind = "update" /\ op'.key = k /\ op'.size = s
         /\ IF s > size[k] THEN pc' = "evict" /\ op'.required = s - size[k]
                           ELSE pc' = "commit" /\ op'.required = 0
<1>1. s \in Nat  BY CallNumbers
<1>2. CASE s > size[k]
  <2>1. s - size[k] \in Nat  BY <1>2, CallNumbers
  <2>2. op' = Call("update", k, s, 0, s - size[k]) /\ pc' = "evict"
    BY <1>2 DEF Update, Begin
  <2>3. op'.kind = "update" /\ op'.key = k /\ op'.size = s /\ op'.required = s - size[k]
    BY ONLY <1>1, <2>1, <2>2, CallFields
  <2>4. QED  BY <1>2, <2>2, <2>3
<1>3. CASE ~(s > size[k])
  <2>1. op' = Call("update", k, s, 0, 0) /\ pc' = "commit"
    BY <1>3 DEF Update
  <2>2. op'.kind = "update" /\ op'.key = k /\ op'.size = s /\ op'.required = 0
    BY ONLY <1>1, <2>1, CallFields
  <2>3. QED  BY <1>3, <2>1, <2>2
<1>4. QED  BY <1>2, <1>3

LEMMA CallDelivery == TypeInv /\ DeliveryInv /\ CallStep => DeliveryInv'
<1> SUFFICES ASSUME TypeInv, DeliveryInv, CallStep PROVE DeliveryInv'
  OBVIOUS
<1>1. removed = {} /\ removed' = {} /\ rows' = rows /\ rows \subseteq files /\ op = NoOp
  BY DEF DeliveryInv, TypeInv, CallOK, CallStep, PutAbsent, PutPresent, Update, Renew, Renewed,
         Resize
<1>2. ASSUME Pending' \subseteq files', files \subseteq files', Pending' # {} => ~op'.evicted,
             Pending' \intersect removed' = {}
      PROVE  DeliveryInv'
  BY <1>1, <1>2 DEF DeliveryInv
<1>3. ASSUME NEW k \in Keys, NEW s \in Sizes, NEW t \in Times, PutAbsent(k, s, t)
      PROVE  DeliveryInv'
  <2>1. op'.key = k /\ ~op'.evicted  BY <1>3, PutAbsentOp
  <2>2. QED  BY <1>1, <1>2, <1>3, <2>1 DEF PutAbsent, Pending
<1>4. ASSUME op'.kind # "insert", files' = files PROVE DeliveryInv'
  BY <1>2, <1>4 DEF Pending
<1>5. ASSUME NEW k \in Keys, NEW s \in Sizes, NEW t \in Times, PutPresent(k, s, t)
      PROVE  DeliveryInv'
  <2>1. CASE s > size[k]
    BY <1>4, <1>5, <2>1, PutPresentOp DEF PutPresent
  <2>2. CASE ~(s > size[k])
    BY <1>1, <1>4, <1>5, <2>2, NoOpFields DEF PutPresent
  <2>3. QED  BY <2>1, <2>2
<1>6. ASSUME NEW k \in Keys, NEW s \in Sizes, Update(k, s) PROVE DeliveryInv'
  BY <1>4, <1>6, UpdateOp DEF Update
<1>7. ASSUME NEW k \in Keys, NEW t \in Times, Renew(k, t) PROVE DeliveryInv'
  BY <1>1, <1>4, <1>7, NoOpFields DEF Renew
<1>8. ASSUME NEW max \in Limits, Resize(max) PROVE DeliveryInv'
  BY <1>4, <1>8, TrimFields DEF Resize, Begin
<1>9. QED  BY <1>3, <1>5, <1>6, <1>7, <1>8 DEF CallStep

LEMMA ContinueDelivery == TypeInv /\ DeliveryInv /\ Continue => DeliveryInv'
<1> SUFFICES ASSUME TypeInv, DeliveryInv, Continue PROVE DeliveryInv'
  OBVIOUS
<1>1. ASSUME Return, rows' \subseteq files' PROVE DeliveryInv'
  BY <1>1, NothingPending DEF Return, DeliveryInv
<1>2. ASSUME NEW k \in Keys, EvictWorst(k) PROVE DeliveryInv'
  <2>1. op'.kind = op.kind /\ op'.key = op.key
    BY <1>2 DEF EvictWorst, TypeInv, TypeOK, Op
  <2>2. Pending' = Pending  BY <2>1 DEF Pending
  <2>3. k \in rows /\ k \notin Pending
    BY <1>2 DEF EvictWorst, Worst, Pending, TypeInv, CallOK
  <2>4. Pending # {} => op' = op  BY <1>2, <2>3 DEF EvictWorst, Pending
  <2>5. QED  BY <1>2, <2>2, <2>3, <2>4 DEF DeliveryInv, EvictWorst, Delete
<1>3. ASSUME NEW k \in Keys, EvictUnderflow(k) PROVE DeliveryInv'
  BY <1>1, <1>3 DEF EvictUnderflow, Delete, RemoveCallback, DeliveryInv
<1>4. CASE EvictEmpty
  BY <1>1, <1>4 DEF EvictEmpty
<1>5. CASE EvictDone
  <2>1. files' = files \ removed /\ removed' = {} /\ rows' = rows
    BY <1>5 DEF EvictDone, RemoveCallback, Return
  <2>2. Pending' \subseteq Pending
    BY <1>5, NothingPending DEF EvictDone, Return, Pending
  <2>3. Pending' # {} => op' = op  BY <1>5, NothingPending DEF EvictDone, Return
  <2>4. QED  BY <2>1, <2>2, <2>3 DEF DeliveryInv
<1>6. CASE Insert
  BY <1>1, <1>6 DEF Insert, DeliveryInv, Pending
<1>7. CASE UpdateContent \/ UpdateUnderflow
  BY <1>1, <1>7 DEF UpdateContent, UpdateUnderflow, DeliveryInv
<1>8. QED  BY <1>2, <1>3, <1>4, <1>5, <1>6, <1>7 DEF Continue

LEMMA FaultDelivery == DeliveryInv /\ FaultStep => DeliveryInv'
<1> SUFFICES ASSUME DeliveryInv, FaultStep PROVE DeliveryInv'
  OBVIOUS
<1>1. removed' = {} /\ op' = NoOp /\ UNCHANGED <<rows, files>>
  BY DEF FaultStep, DeleteFails, InsertFails, UpdateFails, Crash, Stop, Return
<1>2. QED  BY <1>1, NothingPending DEF DeliveryInv

LEMMA StepDelivery == TypeInv /\ DeliveryInv /\ [Next]_vars => DeliveryInv'
<1>1. DeliveryInv /\ UNCHANGED vars => DeliveryInv'
  BY DEF vars, DeliveryInv, Pending
<1>2. QED
  BY <1>1, LifecycleDelivery, CallDelivery, ContinueDelivery, FaultDelivery DEF Next

\* One step without a fault orphans at most the file of the put() it ends.
LEMMA NoNewOrphans ==
  ASSUME TypeInv, DeliveryInv, [Next]_vars, faults' = faults
  PROVE  Orphans' \subseteq Orphans \union Pending
<1>1. ASSUME files' = files, rows' = rows, removed = {} PROVE Orphans' \subseteq Orphans \union Pending
  BY <1>1 DEF Orphans
<1>2. CASE UNCHANGED vars  BY <1>2 DEF vars, Orphans, Pending
<1>3. CASE Lifecycle
  BY <1>1, <1>3 DEF DeliveryInv, Lifecycle, Construct, InitAccept, InitRefuse, DestroyUninitialised,
         Backup, Close, Stop
<1>4. CASE CallStep
  <2>1. ASSUME NEW k \in Keys, NEW s \in Sizes, NEW t \in Times, PutAbsent(k, s, t)
        PROVE  Orphans' \subseteq Orphans \union Pending
    <3>1. Pending' = {k}
      BY <2>1, PutAbsentOp DEF Pending
    <3>2. QED  BY <2>1, <3>1 DEF PutAbsent, Orphans, DeliveryInv
  <2>2. CASE \/ \E k \in Keys, s \in Sizes, t \in Times : PutPresent(k, s, t)
             \/ \E k \in Keys, s \in Sizes : Update(k, s)
    BY <1>1, <2>2 DEF PutPresent, Renewed, Update, DeliveryInv
  <2>3. CASE (\E k \in Keys, t \in Times : Renew(k, t)) \/ (\E max \in Limits : Resize(max))
    BY <1>1, <2>3 DEF Renew, Renewed, Resize, DeliveryInv
  <2>4. QED  BY <1>4, <2>1, <2>2, <2>3 DEF CallStep
<1>5. CASE Continue
  <2>1. CASE \E k \in Keys : EvictWorst(k)
    BY <2>1 DEF EvictWorst, Delete, Orphans
  <2>2. CASE \E k \in Keys : EvictUnderflow(k)
    BY <2>2 DEF EvictUnderflow, Delete, RemoveCallback, Orphans
  <2>3. CASE EvictEmpty  BY <2>3 DEF EvictEmpty, RemoveCallback, Orphans
  <2>4. CASE EvictDone
    BY <2>4 DEF EvictDone, RemoveCallback, Orphans, Return
  <2>5. CASE Insert  BY <2>5 DEF Insert, Orphans, Return, Pending, DeliveryInv
  <2>6. CASE UpdateContent \/ UpdateUnderflow
    BY <1>1, <2>6 DEF UpdateContent, UpdateUnderflow, DeliveryInv
  <2>7. QED  BY <1>5, <2>1, <2>2, <2>3, <2>4, <2>5, <2>6 DEF Continue
<1>6. CASE FaultStep
  <2>1. faults' = faults + 1 /\ faults \in Nat
    BY <1>6, Numbers DEF FaultStep, DeleteFails, InsertFails, UpdateFails, Crash, Fault
  <2>2. QED  BY <2>1
<1>7. QED  BY <1>2, <1>3, <1>4, <1>5, <1>6 DEF Next

\* Also after faults a row that leaves the table takes its file with it.
THEOREM NoBatchIsLost == Spec => BatchIsDelivered
<1>1. TypeInv /\ DeliveryInv /\ [Next]_vars
        => [faults' = faults => Orphans' \subseteq Orphans \union Pending]_vars
  BY NoNewOrphans
<1>2. Init => TypeInv /\ DeliveryInv  BY InitType, InitDelivery
<1>3. TypeInv /\ DeliveryInv /\ [Next]_vars => (TypeInv /\ DeliveryInv)'
  BY StepType, StepDelivery
<1>4. QED  BY <1>1, <1>2, <1>3, PTL DEF Spec, BatchIsDelivered

-----------------------------------------------------------------------------
(* Without faults the books are exact: the total is the bytes of the       *)
(* table, and the room that a call made is still there when it commits.    *)

Total == IF Running THEN meta.cache_size ELSE disk.cache_size

Room ==
  /\ pc = "idle" => meta.cache_size <= meta.max_size
  /\ pc = "commit" => ~Over
  /\ pc \in {"evict", "commit"} => op.size <= meta.max_size /\ op.required <= meta.max_size
  /\ op.kind = "insert" => op.required = op.size
  /\ Updating /\ ~op.evicted => op.size <= size[op.key] + op.required
  /\ op.kind \in {"none", "trim"} => op.required = 0

BooksInv == /\ IsFiniteSet(Blocks(rows, size))
            /\ faults = 0 => Total = Usage(rows, size) /\ Room

LEMMA DeleteUsage ==
  ASSUME TypeInv, IsFiniteSet(Blocks(rows, size)), NEW k \in rows, Delete(k)
  PROVE  /\ IsFiniteSet(Blocks(rows, size))'
         /\ Usage(rows, size) = Usage(rows, size)' + size[k]
         /\ Usage(rows, size)' \in Nat
<1>1. size[k] \in Nat /\ rows' = rows \ {k} /\ \A j \in rows \ {k} : size[j] = size'[j]
  BY Numbers DEF Delete
<1>2. /\ IsFiniteSet(Blocks(rows \ {k}, size))
      /\ Usage(rows, size) = Usage(rows \ {k}, size) + size[k]
  BY <1>1, UsageRemove
<1>3. /\ Blocks(rows \ {k}, size) = Blocks(rows \ {k}, size')
      /\ Usage(rows \ {k}, size) = Usage(rows \ {k}, size')
  BY <1>1, UsageSame
<1>4. QED  BY <1>1, <1>2, <1>3, UsageType

LEMMA InsertUsage ==
  ASSUME TypeInv, IsFiniteSet(Blocks(rows, size)), NEW k \in Keys \ rows, NEW n \in Nat,
         rows' = rows \union {k}, size' = [size EXCEPT ![k] = n]
  PROVE  /\ IsFiniteSet(Blocks(rows, size))'
         /\ Usage(rows, size)' = Usage(rows, size) + n
<1>1. size'[k] = n /\ size'[k] \in Nat /\ \A j \in rows : size[j] = size'[j]
  BY Numbers
<1>2. Blocks(rows, size) = Blocks(rows, size') /\ Usage(rows, size) = Usage(rows, size')
  BY <1>1, UsageSame
<1>3. ASSUME NEW R, NEW tz, R = rows, tz = size'
      PROVE  /\ IsFiniteSet(Blocks(R \union {k}, tz))
             /\ Usage(R \union {k}, tz) = Usage(R, tz) + tz[k]
  <2>1. k \notin R /\ tz[k] \in Nat /\ IsFiniteSet(Blocks(R, tz))
    BY <1>1, <1>2, <1>3
  <2>2. QED  BY ONLY <2>1, UsageAdd
<1>4. QED  BY <1>1, <1>2, <1>3

LEMMA UpdateUsage ==
  ASSUME TypeInv, IsFiniteSet(Blocks(rows, size)), NEW k \in rows, NEW n \in Nat,
         rows' = rows, size' = [size EXCEPT ![k] = n]
  PROVE  /\ IsFiniteSet(Blocks(rows, size))'
         /\ Usage(rows, size)' = Usage(rows, size) - size[k] + n
<1>1. /\ size[k] \in Nat /\ size'[k] = n /\ size'[k] \in Nat
      /\ \A j \in rows \ {k} : size[j] = size'[j]
  BY Numbers
<1>2. Blocks(rows \ {k}, size) = Blocks(rows \ {k}, size')
  BY <1>1, UsageSame
<1>3. ASSUME NEW R, NEW sz, NEW tz, R = rows, sz = size, tz = size'
      PROVE  /\ IsFiniteSet(Blocks(R, tz))
             /\ Usage(R, tz) = Usage(R, sz) - sz[k] + tz[k]
  <2>1. /\ k \in R /\ sz[k] \in Nat /\ tz[k] \in Nat /\ IsFiniteSet(Blocks(R, sz))
        /\ Blocks(R \ {k}, sz) = Blocks(R \ {k}, tz)
    BY <1>1, <1>2, <1>3
  <2>2. QED  BY ONLY <2>1, UsageResize
<1>4. /\ IsFiniteSet(Blocks(rows, size'))
      /\ Usage(rows, size') = Usage(rows, size) - size[k] + size'[k]
  BY ONLY <1>3
<1>5. Blocks(rows, size)' = Blocks(rows, size') /\ Usage(rows, size)' = Usage(rows, size')
  OBVIOUS
<1>6. QED  BY <1>1, <1>4, <1>5

LEMMA InitBooks == Init => BooksInv
<1> SUFFICES ASSUME Init PROVE BooksInv
  OBVIOUS
<1>1. rows = {} /\ disk.cache_size = 0 /\ pc = "down" /\ op = NoOp  BY DEF Init
<1>2. QED  BY <1>1, UsageEmpty, NoOpFields DEF BooksInv, Total, Room, Running, Updating

LEMMA LifecycleBooks == TypeInv /\ BooksInv /\ Lifecycle => BooksInv'
<1> SUFFICES ASSUME TypeInv, BooksInv, Lifecycle PROVE BooksInv'
  OBVIOUS
<1>1. UNCHANGED <<rows, size>>
  BY DEF Lifecycle, Construct, InitAccept, InitRefuse, DestroyUninitialised, Backup, Close, Stop
<1>2. IsFiniteSet(Blocks(rows, size))' /\ Usage(rows, size)' = Usage(rows, size)
  BY <1>1 DEF BooksInv
<1> SUFFICES ASSUME faults' = 0 PROVE Total' = Total /\ Room' /\ faults = 0
  BY <1>1, <1>2 DEF BooksInv
<1> USE Numbers DEF BooksInv, Total, Room, Running, Updating
<1>3. CASE Construct  BY <1>1, <1>3 DEF Construct
<1>4. CASE InitAccept
  <2>1. CASE disk.cache_size > disk.max_size
    BY <1>1, <1>4, <2>1, TrimFields DEF InitAccept, Begin
  <2>2. CASE ~(disk.cache_size > disk.max_size)
    BY <1>1, <1>4, <2>2 DEF InitAccept
  <2>3. QED  BY <2>1, <2>2
<1>5. CASE InitRefuse  BY <1>1, <1>5 DEF InitRefuse
<1>6. CASE DestroyUninitialised
  <2>1. faults = 0 /\ meta = disk  BY <1>1, <1>6 DEF DestroyUninitialised
  <2>2. QED  BY <1>1, <1>6, <2>1, NoOpFields DEF DestroyUninitialised, Stop
<1>7. CASE Backup  BY <1>1, <1>7 DEF Backup
<1>8. CASE Close  BY <1>1, <1>8, NoOpFields DEF Close, Stop
<1>9. QED  BY <1>3, <1>4, <1>5, <1>6, <1>7, <1>8 DEF Lifecycle

LEMMA CallBooks == TypeInv /\ BooksInv /\ CallStep => BooksInv'
<1> SUFFICES ASSUME TypeInv, BooksInv, CallStep PROVE BooksInv'
  OBVIOUS
<1>1. pc = "idle" /\ UNCHANGED <<rows, size, faults>> /\ op = NoOp
  BY DEF CallStep, PutAbsent, PutPresent, Update, Renew, Renewed, Resize, TypeInv, CallOK
<1>2. IsFiniteSet(Blocks(rows, size))' /\ Usage(rows, size)' = Usage(rows, size)
  BY <1>1 DEF BooksInv
<1> SUFFICES ASSUME faults' = 0 PROVE Total' = Total /\ Room'
  BY <1>1, <1>2 DEF BooksInv
<1>3. meta.cache_size = Total /\ meta.cache_size <= meta.max_size
  BY <1>1 DEF BooksInv, Total, Room, Running
<1>4. ASSUME NEW k \in Keys, NEW s \in Sizes, NEW t \in Times, PutAbsent(k, s, t)
      PROVE  Total' = Total /\ Room'
  <2>1. s \in Nat /\ s <= meta.max_size /\ meta' = meta /\ pc' = "evict"
    BY <1>4, LfudaAssumption DEF PutAbsent, ValidSize, Begin
  <2>2. op'.kind = "insert" /\ op'.size = s /\ op'.required = s
    BY <1>4, PutAbsentOp
  <2>3. QED  BY <1>3, <2>1, <2>2 DEF Total, Room, Running, Updating
<1>5. ASSUME NEW k \in Keys, NEW s \in Sizes, NEW t \in Times, PutPresent(k, s, t)
      PROVE  Total' = Total /\ Room'
  <2>1. /\ s \in Nat /\ s <= meta.max_size /\ size[k] \in Nat /\ meta' = meta
        /\ size[k] \in Nat /\ size' = size
    BY <1>1, <1>5, CallNumbers DEF PutPresent, ValidSize, Renewed
  <2>2. CASE s > size[k]
    <3>1. s - size[k] \in Nat /\ s - size[k] <= meta.max_size
      BY <2>1, <2>2, Numbers
    <3>2. /\ op'.kind = "update" /\ op'.key = k /\ pc' = "evict"
          /\ op'.size = s /\ op'.required = s - size[k]
      BY <1>5, <2>2, PutPresentOp
    <3>3. QED  BY <1>3, <2>1, <3>1, <3>2, Numbers DEF Total, Room, Running, Updating
  <2>3. CASE ~(s > size[k])
    <3>1. UNCHANGED <<pc, op>>  BY <1>5, <2>3 DEF PutPresent
    <3>2. QED
      BY <1>1, <1>3, <2>1, <3>1, NoOpFields DEF Total, Room, Running, Updating
  <2>4. QED  BY <2>2, <2>3
<1>6. ASSUME NEW k \in Keys, NEW s \in Sizes, Update(k, s) PROVE Total' = Total /\ Room'
  <2>1. /\ s \in Nat /\ s <= meta.max_size /\ size[k] \in Nat /\ meta' = meta
        /\ size' = size
    BY <1>1, <1>6, CallNumbers DEF Update, ValidSize
  <2>2. op'.kind = "update" /\ op'.key = k /\ op'.size = s
    BY <1>6, UpdateOp
  <2>3. CASE s > size[k]
    <3>1. s - size[k] \in Nat /\ s - size[k] <= meta.max_size
      BY <2>1, <2>3, Numbers
    <3>2. pc' = "evict" /\ op'.required = s - size[k]
      BY <1>6, <2>3, UpdateOp
    <3>3. QED  BY <1>3, <2>1, <2>2, <3>1, <3>2, Numbers DEF Total, Room, Running, Updating
  <2>4. CASE ~(s > size[k])
    <3>1. pc' = "commit" /\ op'.required = 0
      BY <1>6, <2>4, UpdateOp
    <3>2. QED  BY <1>3, <2>1, <2>2, <2>4, <3>1, Numbers DEF Total, Room, Running, Updating, Over
  <2>5. QED  BY <2>3, <2>4
<1>7. ASSUME NEW k \in Keys, NEW t \in Times, Renew(k, t) PROVE Total' = Total /\ Room'
  <2>1. UNCHANGED <<pc, op, meta>>  BY <1>7 DEF Renew, Renewed
  <2>2. QED  BY <1>1, <1>3, <2>1, NoOpFields DEF Total, Room, Running, Updating
<1>8. ASSUME NEW max \in Limits, Resize(max) PROVE Total' = Total /\ Room'
  <2>1. meta'.cache_size = meta.cache_size /\ meta'.max_size = max /\ max \in Nat
    BY <1>8, LfudaAssumption DEF Resize, TypeInv, TypeOK, Meta
  <2>2. pc' = "evict" /\ op'.kind = "trim" /\ op'.size = 0 /\ op'.required = 0
    BY <1>8, TrimFields DEF Resize, Begin
  <2>3. QED  BY <1>3, <2>1, <2>2 DEF Total, Room, Running, Updating
<1>9. QED  BY <1>4, <1>5, <1>6, <1>7, <1>8 DEF CallStep

\* A deletion takes the entry's size off the total; the entry of the call
\* keeps its size unless it is the victim, and then it is marked.
LEMMA EvictBooks ==
  ASSUME TypeInv, BooksInv, faults = 0, NEW k \in Keys, EvictWorst(k)
  PROVE  BooksInv'
<1>1. IsFiniteSet(Blocks(rows, size)) /\ Room  BY DEF BooksInv
<1>2. pc = "evict" /\ pc' = "evict" /\ faults' = 0 /\ k \in rows /\ Delete(k)
  BY DEF EvictWorst, Worst
<1>3. /\ meta'.cache_size = meta.cache_size - size[k]
      /\ meta'.max_size = meta.max_size
  BY DEF EvictWorst, TypeInv, TypeOK, Meta
<1>4. /\ IsFiniteSet(Blocks(rows, size))'
      /\ Usage(rows, size) = Usage(rows, size)' + size[k]
      /\ Usage(rows, size)' \in Nat
  BY <1>1, <1>2, DeleteUsage
<1>5. meta.cache_size = Usage(rows, size)
  BY <1>2 DEF BooksInv, Total, Running
<1>6. Total' = Usage(rows, size)'
  BY <1>2, <1>3, <1>4, <1>5, Numbers DEF Total, Running
<1>7. /\ op'.kind = op.kind /\ op'.key = op.key
      /\ op'.size = op.size /\ op'.required = op.required
      /\ op'.evicted = IF k = op.key THEN TRUE ELSE op.evicted
  BY DEF EvictWorst, TypeInv, TypeOK, Op
<1>8. ASSUME Updating, ~op'.evicted PROVE op'.size <= size'[op'.key] + op'.required
  <2>1. k # op.key /\ ~op.evicted /\ op.key \in Keys
    BY <1>7, <1>8 DEF TypeInv, CallOK
  <2>2. size'[op.key] = size[op.key]  BY <1>2, <2>1, Numbers DEF Delete
  <2>3. QED  BY <1>1, <1>7, <1>8, <2>1, <2>2 DEF Room
<1>9. Room'
  BY <1>1, <1>2, <1>3, <1>7, <1>8 DEF Room, Updating
<1>10. QED  BY <1>4, <1>6, <1>9 DEF BooksInv

LEMMA ContinueBooks == TypeInv /\ BooksInv /\ Continue => BooksInv'
<1> SUFFICES ASSUME TypeInv, BooksInv, Continue PROVE BooksInv'
  OBVIOUS
<1>1. IsFiniteSet(Blocks(rows, size)) /\ Running
  BY DEF BooksInv, Running, Continue, EvictWorst, EvictUnderflow, EvictEmpty,
         EvictDone, Insert, UpdateContent, UpdateUnderflow
<1>2. faults' = faults
  BY DEF Continue, EvictWorst, EvictUnderflow, EvictEmpty, EvictDone, Insert,
         UpdateContent, UpdateUnderflow
<1>3. faults = 0 => meta.cache_size = Usage(rows, size) /\ Room
  BY <1>1 DEF BooksInv, Total
<1>4. Usage(rows, size) \in Nat  BY <1>1, UsageType
<1>5. ASSUME NEW k \in Keys, EvictWorst(k) PROVE BooksInv'
  <2>1. IsFiniteSet(Blocks(rows, size))'
    BY <1>1, <1>5, DeleteUsage DEF EvictWorst, Worst
  <2>2. QED  BY <1>2, <1>5, <2>1, EvictBooks DEF BooksInv
<1>6. ASSUME NEW k \in Keys, EvictUnderflow(k) PROVE BooksInv'
  <2>1. k \in rows /\ Delete(k) /\ meta.cache_size < size[k]
    BY <1>6 DEF EvictUnderflow, Worst
  <2>2. /\ IsFiniteSet(Blocks(rows, size))' /\ Usage(rows, size)' \in Nat
        /\ Usage(rows, size) = Usage(rows, size)' + size[k]
    BY <1>1, <2>1, DeleteUsage
  <2>3. faults # 0  BY <1>3, <2>1, <2>2, Numbers
  <2>4. QED  BY <1>2, <2>2, <2>3 DEF BooksInv
<1>7. ASSUME Return, UNCHANGED <<rows, size, meta>>, faults = 0 => meta.cache_size <= meta.max_size
      PROVE  BooksInv'
  BY <1>1, <1>2, <1>3, <1>7, NoOpFields DEF BooksInv, Total, Room, Running, Return, Updating
<1>8. CASE EvictEmpty
  <2>1. Usage(rows, size) = 0  BY <1>8, UsageEmpty DEF EvictEmpty
  <2>2. QED  BY <1>1, <1>3, <1>7, <1>8, <2>1, Numbers DEF EvictEmpty
<1>9. CASE EvictDone
  <2>1. meta.cache_size <= meta.max_size  BY <1>9, Numbers DEF EvictDone, Over
  <2>2. CASE op.kind = "trim" \/ op.evicted
    BY <1>7, <1>9, <2>1, <2>2 DEF EvictDone
  <2>3. CASE ~(op.kind = "trim" \/ op.evicted)
    <3>1. /\ pc = "evict" /\ pc' = "commit" /\ ~Over
          /\ UNCHANGED <<rows, size, meta, op>>
      BY <1>9, <2>3 DEF EvictDone
    <3>2. faults = 0 => Room'
      BY <1>3, <3>1 DEF Room, Over, Updating
    <3>3. QED  BY <1>1, <1>2, <1>3, <3>1, <3>2 DEF BooksInv, Total, Running
  <2>4. QED  BY <2>2, <2>3
<1>10. CASE Insert
  <2>1. /\ op.key \in Keys \ rows /\ rows' = rows \union {op.key}
        /\ size' = [size EXCEPT ![op.key] = op.size] /\ op.size \in Nat
    BY <1>10, Numbers DEF Insert, TypeInv, CallOK
  <2>2. IsFiniteSet(Blocks(rows, size))' /\ Usage(rows, size)' = Usage(rows, size) + op.size
    BY <1>1, <2>1, InsertUsage
  <2>3. meta'.cache_size = meta.cache_size + op.size /\ meta'.max_size = meta.max_size
    BY <1>10 DEF Insert, TypeInv, TypeOK, Meta
  <2>4. faults = 0 => meta'.cache_size <= meta'.max_size
    BY <1>3, <1>10, <2>3, Numbers DEF Insert, Room, Over
  <2>5. pc' = "idle" /\ op' = NoOp  BY <1>10 DEF Insert, Return
  <2>6. QED
    BY <1>2, <1>3, <2>2, <2>3, <2>4, <2>5, NoOpFields
       DEF BooksInv, Total, Room, Running, Updating
<1>11. CASE UpdateContent
  <2>1. Updating /\ ~op.evicted /\ op.key \in rows /\ op.size \in Nat
    BY <1>11, Numbers DEF UpdateContent, TypeInv, CallOK, Updating
  <2>2. rows' = rows /\ size' = [size EXCEPT ![op.key] = op.size] /\ size[op.key] \in Nat
    BY <1>11, <2>1, Numbers DEF UpdateContent
  <2>3. /\ IsFiniteSet(Blocks(rows, size))'
        /\ Usage(rows, size)' = Usage(rows, size) - size[op.key] + op.size
    BY <1>1, <2>1, <2>2, UpdateUsage
  <2>4. /\ meta'.cache_size = meta.cache_size - size[op.key] + op.size
        /\ meta'.max_size = meta.max_size
    BY <1>11 DEF UpdateContent, Resized, TypeInv, TypeOK, Meta
  <2>5. faults = 0 => meta'.cache_size <= meta'.max_size
    BY <1>3, <1>11, <2>1, <2>2, <2>4, Numbers DEF UpdateContent, Room, Over
  <2>6. pc' = "idle" /\ op' = NoOp  BY <1>11 DEF UpdateContent, Return
  <2>7. QED
    BY <1>2, <1>3, <2>3, <2>4, <2>5, <2>6, NoOpFields
       DEF BooksInv, Total, Room, Running, Updating
<1>12. CASE UpdateUnderflow
  <2>1. op.key \in rows /\ meta.cache_size < size[op.key]
    BY <1>12 DEF UpdateUnderflow, TypeInv, CallOK, Updating
  <2>2. Usage(rows, size) = Usage(rows \ {op.key}, size) + size[op.key]
        /\ Usage(rows \ {op.key}, size) \in Nat
    BY <1>1, <2>1, Numbers, UsageRemove, UsageType
  <2>3. faults # 0  BY <1>3, <2>1, <2>2, Numbers
  <2>4. QED  BY <1>7, <1>12, <2>3 DEF UpdateUnderflow
<1>13. QED
  BY <1>5, <1>6, <1>8, <1>9, <1>10, <1>11, <1>12 DEF Continue

LEMMA FaultBooks == TypeInv /\ BooksInv /\ FaultStep => BooksInv'
<1> SUFFICES ASSUME TypeInv, BooksInv, FaultStep PROVE BooksInv'
  OBVIOUS
<1>1. faults \in Nat /\ IsFiniteSet(Blocks(rows, size))
  BY Numbers DEF BooksInv
<1>2. faults' = faults + 1 /\ UNCHANGED <<rows, size>>
  BY DEF FaultStep, DeleteFails, InsertFails, UpdateFails, Crash, Fault, Stop
<1>3. QED  BY <1>1, <1>2 DEF BooksInv

LEMMA StepBooks == TypeInv /\ BooksInv /\ [Next]_vars => BooksInv'
<1>1. BooksInv /\ UNCHANGED vars => BooksInv'
  BY DEF vars, BooksInv, Total, Room, Running, Updating, Over
<1>2. QED
  BY <1>1, LifecycleBooks, CallBooks, ContinueBooks, FaultBooks DEF Next

\* Without faults the total equals the bytes in the table, between calls the
\* cache is within its limit, and no call ends in a "db error" exception,
\* also when making room evicts the entry the call is about.
THEOREM CacheFits == Spec => []Fits
<1>1. Init => TypeInv /\ BooksInv  BY InitType, InitBooks
<1>2. TypeInv /\ BooksInv /\ [Next]_vars => (TypeInv /\ BooksInv)'
  BY StepType, StepBooks
<1>3. TypeInv /\ BooksInv => Fits
  <2> SUFFICES ASSUME TypeInv, BooksInv, faults = 0, Running
               PROVE  /\ Drift = 0
                      /\ pc = "idle" => meta.cache_size <= meta.max_size
                      /\ pc = "evict" /\ Over => rows # {}
                      /\ pc = "commit" => (op.key \in rows) = (op.kind = "update")
    BY DEF Fits
  <2>1. meta.cache_size = Usage(rows, size) /\ Room /\ IsFiniteSet(Blocks(rows, size))
    BY DEF BooksInv, Total
  <2>2. Drift = 0
    <3>1. Usage(rows, size) \in Nat  BY <2>1, UsageType
    <3>2. QED  BY <2>1, <3>1 DEF Drift
  <2>3. ASSUME pc = "evict", Over PROVE rows # {}
    <3>1. rows = {} => meta.cache_size = 0  BY <2>1, UsageEmpty
    <3>2. QED  BY <2>1, <2>3, <3>1, Numbers DEF Over, Room
  <2>4. ASSUME pc = "commit" PROVE (op.key \in rows) = (op.kind = "update")
    <3>1. op.kind \in {"insert", "update"} /\ ~op.evicted
      BY <2>4 DEF TypeInv, TypeOK, CallOK, Op
    <3>2. CASE op.kind = "insert"
      BY <3>2 DEF TypeInv, CallOK
    <3>3. CASE op.kind = "update"
      BY <3>1, <3>3 DEF TypeInv, CallOK, Updating
    <3>4. QED  BY <3>1, <3>2, <3>3
  <2>5. pc = "idle" => meta.cache_size <= meta.max_size  BY <2>1 DEF Room
  <2>6. QED  BY <2>2, <2>3, <2>4, <2>5
<1>4. QED  BY <1>1, <1>2, <1>3, PTL DEF Spec
=============================================================================
