---------------------------- MODULE MemoryProofs ----------------------------
(***************************************************************************)
(* Proofs about the managers in memory, for any keys, sizes and limits.    *)
(* They rest on what remove_cache leaves: for the list its longest         *)
(* beginning that fits, for the ordered set the entries that no victim is  *)
(* worth more than.                                                        *)
(***************************************************************************)
EXTENDS MCMemory, DiskUsageProofs, SequenceTheorems, WellFoundedInduction

-----------------------------------------------------------------------------
(* Finite sets.                                                            *)

\* On a finite set a function into the integers has a greatest value.  Of
\* the sets of arguments that lie above a given one, one is minimal.
LEMMA Greatest ==
  ASSUME NEW S, IsFiniteSet(S), S # {}, NEW f, \A x \in S : f[x] \in Int
  PROVE  \E x \in S : \A y \in S : f[y] <= f[x]
<1> DEFINE Above(x) == {y \in S : f[y] > f[x]}
           R == StrictSubsetOrdering(S)
           T == {Above(x) : x \in S}
<1>1. IsWellFoundedOn(R, FiniteSubsetsOf(S))  BY FS_StrictSubsetOrderingWellFounded
<1>2. FiniteSubsetsOf(S) = SUBSET S  BY FS_FiniteSubsetsOfFinite
<1>3. T \subseteq SUBSET S /\ T # {}  OBVIOUS
<1> HIDE DEF R, T
<1>4. \E A \in T : \A B \in T : ~(<<B, A>> \in R)  BY <1>1, <1>2, <1>3, WFMin
<1>5. PICK x \in S : \A B \in T : ~(<<B, Above(x)>> \in R)  BY <1>4 DEF T
<1>6. SUFFICES ASSUME NEW y \in S, f[y] > f[x] PROVE FALSE  BY <1>5
<1>7. Above(y) \subseteq Above(x) /\ Above(y) # Above(x)  BY <1>6
<1>8. <<Above(y), Above(x)>> \in R  BY <1>7 DEF R, StrictSubsetOrdering
<1>9. QED  BY <1>5, <1>8 DEF T

\* Max finds it.
LEMMA MaxIsGreatest ==
  ASSUME NEW S \in SUBSET Int, IsFiniteSet(S), S # {}
  PROVE  Max(S) \in S /\ \A x \in S : x <= Max(S)
<1> DEFINE f == [x \in S |-> x]
<1>1. PICK x \in S : \A y \in S : f[y] <= f[x]  BY Greatest
<1>2. \A y \in S : x >= y  BY <1>1
<1>3. QED  BY <1>2 DEF Max

\* The bytes of two disjoint sets of entries add up.
LEMMA UsageSplit ==
  ASSUME NEW R, NEW S, NEW sz, R \intersect S = {}, IsFiniteSet(Blocks(R \union S, sz))
  PROVE  /\ IsFiniteSet(Blocks(R, sz)) /\ IsFiniteSet(Blocks(S, sz))
         /\ Usage(R \union S, sz) = Usage(R, sz) + Usage(S, sz)
<1>1. Blocks(R \union S, sz) = Blocks(R, sz) \union Blocks(S, sz)  BY DEF Blocks
<1>2. Blocks(R, sz) \intersect Blocks(S, sz) = {}  BY DEF Blocks
<1>3. IsFiniteSet(Blocks(R, sz)) /\ IsFiniteSet(Blocks(S, sz))  BY <1>1, FS_Subset
<1> DEFINE r == Blocks(R, sz)
           s == Blocks(S, sz)
<1> HIDE DEF r, s
<1>4. IsFiniteSet(r) /\ IsFiniteSet(s) /\ r \intersect s = {}  BY <1>2, <1>3 DEF r, s
<1>5. Cardinality(r \union s) = Cardinality(r) + Cardinality(s) - Cardinality(r \intersect s)
  BY <1>4, FS_Union
<1>6. Cardinality(r \union s) = Cardinality(r) + Cardinality(s)
  <2>1. Cardinality(r) \in Nat /\ Cardinality(s) \in Nat  BY <1>4, FS_CardinalityType
  <2>2. Cardinality(r \intersect s) = 0  BY <1>4, FS_EmptySet
  <2>3. QED  BY <1>5, <2>1, <2>2
<1>7. QED  BY <1>1, <1>3, <1>6 DEF Usage, r, s

-----------------------------------------------------------------------------
(* The LRU manager.                                                        *)

Ordered(list) == \A i, j \in DOMAIN list : i < j => used[list[i]] > used[list[j]]

ListTypes == /\ cache_list \in Seq(Keys) /\ size \in [Keys -> Nat]
             /\ saved \in [list : Seq(Keys), size : [Keys -> Nat]]
             /\ used \in [Keys -> Nat] /\ uses \in Nat

\* A saved list is in order as well; while there is one, the cache is empty
\* and nothing is used.
ListOrder == /\ Ordered(cache_list) /\ Ordered(saved.list)
             /\ cache_list # <<>> => saved = Empty
             /\ \A k \in Keys : used[k] <= uses

ListTotal ==
  /\ max_size \in Nat /\ IsFiniteSet(Blocks(Range(saved.list), saved.size))
  /\ ~undefined => IsFiniteSet(Blocks(Entries, size)) /\ TotalFits

ListInv == ListTypes /\ ListOrder /\ ListTotal

\* A beginning of the list.
LEMMA Beginning ==
  ASSUME ListTypes, NEW n \in 0 .. Len(cache_list)
  PROVE  /\ First(n) \in Seq(Keys) /\ Len(First(n)) = n
         /\ \A i \in 1 .. n : First(n)[i] = cache_list[i]
         /\ Range(First(n)) \subseteq Entries /\ Entries \subseteq Keys
<1>1. /\ First(n) \in Seq(Keys) /\ Len(First(n)) = n
      /\ \A i \in 1 .. n : First(n)[i] = cache_list[i]
  BY DEF ListTypes, First
<1>2. DOMAIN First(n) = 1 .. n /\ DOMAIN cache_list = 1 .. Len(cache_list)
  BY <1>1 DEF ListTypes
<1>3. Range(First(n)) \subseteq Entries  BY <1>1, <1>2 DEF Entries, Range
<1>4. Entries \subseteq Keys  BY <1>2 DEF Entries, Range, ListTypes
<1>5. QED  BY <1>1, <1>3, <1>4

\* What remove_cache leaves is a beginning, empty or small enough.
LEMMA KeptFits ==
  ASSUME ListTypes, NEW required, NEW max
  PROVE  LET n == Kept(required, max) IN n \in 0 .. Len(cache_list) /\ (n = 0 \/ Room(n, max - required))
<1> DEFINE S == {n \in 0 .. Len(cache_list) : n = 0 \/ Room(n, max - required)}
<1>1. Len(cache_list) \in Nat  BY DEF ListTypes
<1>2. IsFiniteSet(0 .. Len(cache_list))  BY <1>1, FS_Interval
<1>3. S \in SUBSET Int /\ IsFiniteSet(S) /\ 0 \in S  BY <1>1, <1>2, FS_Subset
<1>4. Max(S) \in S  BY <1>3, MaxIsGreatest
<1>5. QED  BY <1>4 DEF Kept

\* Its bytes are the total after the evictions.
LEMMA RemovedIsExact ==
  ASSUME ListInv, ~undefined, NEW n \in 0 .. Len(cache_list)
  PROVE  /\ IsFiniteSet(Blocks(Range(First(n)), size))
         /\ Removed(n) = Usage(Range(First(n)), size) /\ Removed(n) \in Nat
<1>1. Range(First(n)) \subseteq Entries  BY Beginning DEF ListInv
<1>2. Range(First(n)) \union Gone(n) = Entries /\ Range(First(n)) \intersect Gone(n) = {}
  BY <1>1 DEF Gone
<1>3. IsFiniteSet(Blocks(Entries, size)) /\ cache_size = Usage(Entries, size)
  BY DEF ListInv, ListTotal, TotalFits
<1>4. /\ IsFiniteSet(Blocks(Range(First(n)), size)) /\ IsFiniteSet(Blocks(Gone(n), size))
      /\ cache_size = Usage(Range(First(n)), size) + Usage(Gone(n), size)
  BY <1>2, <1>3, UsageSplit
<1>5. Usage(Range(First(n)), size) \in Nat /\ Usage(Gone(n), size) \in Nat  BY <1>4, UsageType
<1>6. QED  BY <1>4, <1>5 DEF Removed

LEMMA ListInit == Init => ListInv
<1> SUFFICES ASSUME Init PROVE ListInv
  OBVIOUS
<1>1. ListTypes  BY DEF Init, ListTypes, Empty
<1>2. ListOrder  BY DEF Init, ListOrder, Ordered, Empty
<1>3. Entries = {} /\ Range(saved.list) = {}  BY DEF Init, Entries, Range, Empty
<1>4. ListTotal
  <2>1. max_size \in Nat \ {0} /\ cache_size = 0  BY LruMemoryAssumption DEF Init
  <2>2. Usage(Entries, size) = 0 /\ IsFiniteSet(Blocks(Entries, size))  BY <1>3, UsageEmpty
  <2>3. IsFiniteSet(Blocks(Range(saved.list), saved.size))  BY <1>3, UsageEmpty
  <2>4. QED  BY <2>1, <2>2, <2>3 DEF ListTotal, TotalFits
<1>5. QED  BY <1>1, <1>2, <1>4 DEF ListInv

\* remove_cache alone: the list loses its end.
LEMMA TrimKeeps ==
  ASSUME ListInv, NEW n \in 0 .. Len(cache_list), cache_list' = First(n)
  PROVE  /\ cache_list' \in Seq(Keys) /\ Ordered(cache_list')
         /\ cache_list' # <<>> => cache_list # <<>>
<1>1. /\ First(n) \in Seq(Keys) /\ Len(First(n)) = n
      /\ \A i \in 1 .. n : First(n)[i] = cache_list[i]
  BY Beginning DEF ListInv
<1>2. DOMAIN First(n) = 1 .. n /\ DOMAIN cache_list = 1 .. Len(cache_list)
  BY <1>1 DEF ListInv, ListTypes
<1>3. Ordered(First(n))  BY <1>1, <1>2 DEF Ordered, ListInv, ListOrder
<1>4. cache_list = <<>> => First(n) = <<>>  BY <1>1, <1>2
<1>5. QED  BY <1>1, <1>3, <1>4

LEMMA ListPutAbsent ==
  ASSUME ListInv, NEW k \in Keys, NEW s \in Sizes, PutAbsent(k, s), ~undefined
  PROVE  ListInv'
<1> DEFINE n == Kept(s, max_size)
           list == <<k>> \o First(n)
<1>1. ListTypes /\ ListOrder /\ ListTotal /\ s \in Nat  BY LruMemoryAssumption DEF ListInv
<1>2. n \in 0 .. Len(cache_list) /\ (n = 0 \/ Room(n, max_size - s))  BY <1>1, KeptFits
<1>3. /\ cache_list' = list /\ size' = [Without(size, Gone(n)) EXCEPT ![k] = s]
      /\ cache_size' = Removed(n) + s /\ saved' = Empty /\ undefined' = undefined
      /\ max_size' = max_size /\ k \notin Entries
      /\ uses' = uses + 1 /\ used' = [used EXCEPT ![k] = uses + 1]
  BY DEF PutAbsent, UsedNow
<1> HIDE DEF n, list
<1>4. /\ First(n) \in Seq(Keys) /\ Len(First(n)) = n
      /\ \A i \in 1 .. n : First(n)[i] = cache_list[i]
      /\ Range(First(n)) \subseteq Entries /\ Entries \subseteq Keys
  BY <1>1, <1>2, Beginning
<1>5. /\ list \in Seq(Keys) /\ Len(list) = n + 1 /\ list[1] = k
      /\ \A i \in 2 .. n + 1 : list[i] = First(n)[i - 1]
  BY <1>2, <1>4 DEF list
<1>6. DOMAIN list = 1 .. n + 1 /\ DOMAIN First(n) = 1 .. n
      /\ DOMAIN cache_list = 1 .. Len(cache_list)
  BY <1>1, <1>4, <1>5 DEF ListTypes
<1>7. ListTypes'
  <2>1. Without(size, Gone(n)) \in [Keys -> Nat]  BY <1>1 DEF ListTypes, Without
  <2>2. size' \in [Keys -> Nat]  BY <1>1, <1>3, <2>1
  <2>3. saved' \in [list : Seq(Keys), size : [Keys -> Nat]]  BY <1>3 DEF Empty
  <2>4. QED  BY <1>1, <1>3, <1>5, <2>2, <2>3 DEF ListTypes
<1>8. ListOrder'
  <2>1. ASSUME NEW i \in 2 .. n + 1
        PROVE  /\ i - 1 \in DOMAIN cache_list /\ list[i] = cache_list[i - 1]
               /\ list[i] # k /\ list[i] \in Keys
    <3>1. i - 1 \in 1 .. n /\ i - 1 \in DOMAIN cache_list  BY <1>2, <1>6
    <3>2. list[i] = cache_list[i - 1]  BY <1>4, <1>5, <3>1
    <3>3. cache_list[i - 1] \in Entries  BY <3>1 DEF Entries, Range
    <3>4. QED  BY <1>3, <1>4, <3>1, <3>2, <3>3
  <2>2. ASSUME NEW i \in 1 .. n + 1, NEW j \in 1 .. n + 1, i < j
        PROVE  used'[list[i]] > used'[list[j]]
    <3>1. j \in 2 .. n + 1  BY <1>2, <2>2
    <3>2. used'[list[j]] = used[list[j]] /\ used[list[j]] <= uses /\ used[list[j]] \in Nat
      BY <1>1, <1>3, <2>1, <3>1 DEF ListTypes, ListOrder
    <3>3. CASE i = 1
      <4>1. used'[list[i]] = uses + 1  BY <1>1, <1>3, <1>5, <3>3 DEF ListTypes
      <4>2. QED  BY <1>1, <3>2, <4>1 DEF ListTypes
    <3>4. CASE i # 1
      <4>1. i \in 2 .. n + 1  BY <1>2, <3>4
      <4>2. used'[list[i]] = used[list[i]]  BY <1>1, <1>3, <2>1, <4>1 DEF ListTypes
      <4>3. used[cache_list[i - 1]] > used[cache_list[j - 1]]
        <5>1. i - 1 \in DOMAIN cache_list /\ j - 1 \in DOMAIN cache_list  BY <2>1, <3>1, <4>1
        <5>2. i - 1 < j - 1  BY <1>2, <2>2
        <5>3. QED  BY <1>1, <5>1, <5>2 DEF ListOrder, Ordered
      <4>4. QED  BY <2>1, <3>1, <3>2, <4>1, <4>2, <4>3
    <3>5. QED  BY <3>3, <3>4
  <2>3. Ordered(cache_list)'  BY <1>3, <1>6, <2>2 DEF Ordered
  <2>4. Ordered(saved.list)'  BY <1>3 DEF Ordered, Empty
  <2>5. \A j \in Keys : used'[j] <= uses'  BY <1>1, <1>3 DEF ListTypes, ListOrder
  <2>6. QED  BY <1>3, <2>3, <2>4, <2>5 DEF ListOrder
<1>9. ListTotal'
  <2>1. Entries' = Range(First(n)) \union {k}
    <3>1. \A x \in Entries' : x \in Range(First(n)) \union {k}
      BY <1>2, <1>3, <1>5, <1>6 DEF Entries, Range
    <3>2. k \in Entries'  BY <1>2, <1>3, <1>5, <1>6 DEF Entries, Range
    <3>3. ASSUME NEW i \in 1 .. n PROVE First(n)[i] \in Entries'
      <4>1. i + 1 \in 2 .. n + 1 /\ i + 1 \in DOMAIN list /\ (i + 1) - 1 = i  BY <1>2, <1>6
      <4>2. list[i + 1] = First(n)[i]  BY <1>5, <4>1
      <4>3. QED  BY <1>3, <4>1, <4>2 DEF Entries, Range
    <3>4. QED  BY <1>6, <3>1, <3>2, <3>3 DEF Range
  <2>2. \A j \in Range(First(n)) : size'[j] = size[j]
    BY <1>1, <1>3, <1>4 DEF Gone, Without, ListTypes
  <2>3. /\ IsFiniteSet(Blocks(Range(First(n)), size)) /\ Removed(n) \in Nat
        /\ Removed(n) = Usage(Range(First(n)), size)
    BY <1>2, RemovedIsExact
  <2>4. /\ IsFiniteSet(Blocks(Range(First(n)), size'))
        /\ Removed(n) = Usage(Range(First(n)), size')
    BY <2>2, <2>3, UsageSame
  <2>5. size'[k] = s  BY <1>1, <1>3 DEF Without, ListTypes
  <2>6. k \notin Range(First(n))  BY <1>3, <1>4
  <2>7. IsFiniteSet(Blocks(Entries', size')) /\ Usage(Entries', size') = Removed(n) + s
    BY <1>1, <2>1, <2>4, <2>5, <2>6, UsageAdd
  <2>8. cache_size' > max_size' => Len(cache_list') = 1
    BY <1>1, <1>2, <1>3, <1>5, <2>3 DEF Room, Removed, ListTotal
  <2>9. Range(<<>>) = {} /\ saved'.list = <<>>  BY <1>3 DEF Range, Empty
  <2>10. QED  BY <1>1, <1>3, <2>7, <2>8, <2>9, UsageEmpty DEF ListTotal, TotalFits
<1>10. QED  BY <1>7, <1>8, <1>9 DEF ListInv

LEMMA ListPutPresent ==
  ASSUME ListInv, NEW k \in Keys, NEW s \in Sizes, PutPresent(k, s), ~undefined
  PROVE  ListInv'
<1> DEFINE n == Kept(s - size[k], max_size)
<1>1. ListTypes /\ ListOrder /\ ListTotal /\ s \in Nat /\ size[k] \in Nat
  BY LruMemoryAssumption DEF ListInv, ListTypes
<1>2. k \in Entries /\ UNCHANGED <<max_size, saved, restored, used, uses>>  BY DEF PutPresent
<1>3. CASE s > size[k]
  <2>1. n \in 0 .. Len(cache_list) /\ (n = 0 \/ Room(n, max_size - (s - size[k])))
    BY <1>1, KeptFits
  <2>2. /\ cache_list' = First(n) /\ undefined' = (k \in Gone(n))
        /\ size' = [Without(size, Gone(n)) EXCEPT ![k] = s]
        /\ cache_size' = Removed(n) - size[k] + s
    BY <1>3 DEF PutPresent
  <2> HIDE DEF n
  <2>3. cache_list' \in Seq(Keys) /\ Ordered(cache_list') /\ (cache_list' # <<>> => cache_list # <<>>)
    BY <2>1, <2>2, TrimKeeps
  <2>4. ListTypes'
    <3>1. Without(size, Gone(n)) \in [Keys -> Nat]  BY <1>1 DEF ListTypes, Without
    <3>2. size' \in [Keys -> Nat]  BY <1>1, <2>2, <3>1
    <3>3. QED  BY <1>1, <1>2, <2>3, <3>2 DEF ListTypes
  <2>5. ListOrder'  BY <1>1, <1>2, <2>3 DEF ListOrder, Ordered
  <2>6. ASSUME ~undefined'
        PROVE  /\ IsFiniteSet(Blocks(Entries', size')) /\ cache_size' = Usage(Entries', size')
               /\ cache_size' <= max_size'
    <3> DEFINE R == Range(First(n))
    <3>1. k \in R  BY <1>2, <2>2, <2>6 DEF Gone
    <3>2. IsFiniteSet(Blocks(R, size)) /\ Removed(n) = Usage(R, size) /\ Removed(n) \in Nat
      BY <2>1, RemovedIsExact
    <3>3. /\ Len(First(n)) = n /\ First(n) \in Seq(Keys) /\ R \subseteq Keys
      BY <1>1, <2>1, Beginning
    <3>4. n # 0  BY <3>1, <3>3 DEF Range
    <3>5. size'[k] = s  BY <1>1, <2>2 DEF Without, ListTypes
    <3>6. \A j \in R \ {k} : size'[j] = size[j]
      BY <1>1, <2>2, <3>3 DEF Gone, Without, ListTypes
    <3>7. Entries' = R  BY <2>2 DEF Entries
    <3> HIDE DEF R
    <3>8. size[k] \in Nat /\ s \in Nat  BY <1>1
    <3>9. IsFiniteSet(Blocks(R, size')) /\ Usage(R, size') = Usage(R, size) - size[k] + s
      <4> DEFINE others == R \ {k}
      <4>1. IsFiniteSet(Blocks(others, size)) /\ Usage(R, size) = Usage(others, size) + size[k]
        BY <3>1, <3>2, <3>8, UsageRemove
      <4>2. k \notin others /\ others \union {k} = R  BY <3>1
      <4>3. \A j \in others : size[j] = size'[j]  BY <3>6
      <4> HIDE DEF others
      <4>4. /\ IsFiniteSet(Blocks(others, size'))
            /\ Usage(others, size') = Usage(others, size) /\ Usage(others, size) \in Nat
        BY <4>1, <4>3, UsageSame, UsageType
      <4>5. IsFiniteSet(Blocks(R, size')) /\ Usage(R, size') = Usage(others, size') + size'[k]
        <5>1. size'[k] \in Nat /\ k \notin others /\ IsFiniteSet(Blocks(others, size'))
          BY <3>5, <3>8, <4>2, <4>4
        <5>2. /\ IsFiniteSet(Blocks(others \union {k}, size'))
              /\ Usage(others \union {k}, size') = Usage(others, size') + size'[k]
          BY ONLY <5>1, UsageAdd
        <5>3. QED  BY ONLY <4>2, <5>2
      <4>6. QED  BY <3>2, <3>5, <3>8, <4>1, <4>4, <4>5
    <3>10. Removed(n) <= max_size - (s - size[k])  BY <2>1, <3>4 DEF Room, Removed
    <3>11. Removed(n) - size[k] + s <= max_size  BY <1>1, <3>2, <3>10 DEF ListTotal
    <3>12. QED  BY <1>2, <2>2, <3>2, <3>7, <3>9, <3>11
  <2>7. ListTotal'
    <3>1. cache_size' <= max_size' => ~(cache_size' > max_size') \/ undefined'
      BY <1>1, <1>2, <2>2, <2>1, RemovedIsExact DEF ListTotal
    <3>2. QED  BY <1>1, <1>2, <2>6, <3>1 DEF ListTotal, TotalFits
  <2>8. QED  BY <2>4, <2>5, <2>7 DEF ListInv
<1>4. CASE ~(s > size[k])
  <2>1. UNCHANGED <<cache_list, undefined, size, cache_size>>  BY <1>4 DEF PutPresent
  <2>2. QED
    BY <1>2, <2>1 DEF ListInv, ListTypes, ListOrder, Ordered, ListTotal, TotalFits, Entries
<1>5. QED  BY <1>3, <1>4

\* The list with one entry moved to the front holds the same entries, and the
\* others keep their order.
LEMMA ListRenew ==
  ASSUME ListInv, NEW k \in Keys, Renew(k)
  PROVE  ListInv'
<1> DEFINE p == Place(k)
           from(i) == IF i <= p THEN i - 1 ELSE i
           N == Len(cache_list)
<1>1. ListTypes /\ ListOrder /\ ListTotal  BY DEF ListInv
<1>2. N \in Nat /\ DOMAIN cache_list = 1 .. N  BY <1>1 DEF ListTypes
<1>3. p \in 1 .. N /\ cache_list[p] = k
  <2>1. \E i \in DOMAIN cache_list : cache_list[i] = k  BY DEF Renew, Entries, Range
  <2>2. QED  BY <1>2, <2>1 DEF Place
<1>4. /\ cache_list' = Renewed(k) /\ uses' = uses + 1 /\ used' = [used EXCEPT ![k] = uses + 1]
      /\ UNCHANGED <<size, cache_size, max_size, saved, undefined, restored>>
  BY DEF Renew, UsedNow
<1>5. /\ Renewed(k) = [i \in 1 .. N |-> IF i = 1 THEN k ELSE cache_list[from(i)]]
  BY <1>2 DEF Renewed
<1> HIDE DEF p
<1>6. \A i \in 2 .. N : from(i) \in 1 .. N /\ from(i) # p  BY <1>2, <1>3
<1>7. \A i \in 2 .. N, j \in 2 .. N : i < j => from(i) < from(j)  BY <1>2, <1>3
<1>8. \A i \in 1 .. N : i # p => \E j \in 2 .. N : from(j) = i
  <2>1. ASSUME NEW i \in 1 .. N, i # p PROVE \E j \in 2 .. N : from(j) = i
    <3>1. CASE i < p
      <4>1. i + 1 \in 2 .. N /\ from(i + 1) = i  BY <1>2, <1>3, <3>1
      <4>2. QED  BY <4>1
    <3>2. CASE i > p
      <4>1. i \in 2 .. N /\ from(i) = i  BY <1>2, <1>3, <3>2
      <4>2. QED  BY <4>1
    <3>3. QED  BY <1>2, <1>3, <2>1, <3>1, <3>2
  <2>2. QED  BY <2>1
<1> HIDE DEF from
<1>9. \A i \in 1 .. N : i # p => cache_list[i] # k
  <2>1. ASSUME NEW i \in 1 .. N, i # p, cache_list[i] = k PROVE FALSE
    <3>1. used[k] \in Nat  BY <1>1 DEF ListTypes
    <3>2. i < p \/ p < i  BY <1>2, <1>3, <2>1
    <3>3. used[k] > used[k]  BY <1>1, <1>2, <1>3, <2>1, <3>2 DEF ListOrder, Ordered
    <3>4. QED  BY <3>1, <3>3
  <2>2. QED  BY <2>1
<1> DEFINE list == Renewed(k)
<1>10. /\ DOMAIN list = 1 .. N /\ list[1] = k
       /\ \A i \in 2 .. N : list[i] = cache_list[from(i)] /\ list[i] # k /\ list[i] \in Keys
  <2>1. DOMAIN list = 1 .. N /\ list[1] = k  BY <1>2, <1>3, <1>5
  <2>2. \A i \in 2 .. N : i \in 1 .. N /\ i # 1  BY <1>2
  <2>3. \A i \in 2 .. N : list[i] = cache_list[from(i)]  BY <1>5, <2>2
  <2>4. \A i \in 1 .. N : cache_list[i] \in Keys  BY <1>1, <1>2 DEF ListTypes
  <2>5. QED  BY <1>6, <1>9, <2>1, <2>3, <2>4
<1> HIDE DEF list
<1>11. list \in Seq(Keys)
  <2>1. \A i \in 1 .. N : list[i] \in Keys
    <3>1. \A i \in 1 .. N : i = 1 \/ i \in 2 .. N  BY <1>2
    <3>2. QED  BY <1>10, <3>1
  <2>2. list \in [1 .. N -> Keys]  BY <1>5, <1>10, <2>1 DEF list
  <2>3. QED  BY <1>2, <2>2
<1>12. Range(list) = Entries
  <2>1. ASSUME NEW x \in Range(list) PROVE x \in Entries
    <3>1. PICK i \in 1 .. N : x = list[i]  BY <1>10 DEF Range
    <3>2. i = 1 \/ i \in 2 .. N  BY <1>2
    <3>3. CASE i = 1  BY <1>2, <1>3, <1>10, <3>1, <3>3 DEF Entries, Range
    <3>4. CASE i \in 2 .. N  BY <1>2, <1>6, <1>10, <3>1, <3>4 DEF Entries, Range
    <3>5. QED  BY <3>2, <3>3, <3>4
  <2>2. ASSUME NEW i \in 1 .. N PROVE cache_list[i] \in Range(list)
    <3>1. CASE i = p
      <4>1. 1 \in 1 .. N  BY <1>2, <1>3
      <4>2. QED  BY <1>3, <1>10, <3>1, <4>1 DEF Range
    <3>2. CASE i # p
      <4>1. PICK j \in 2 .. N : from(j) = i  BY <1>8, <3>2
      <4>2. j \in 1 .. N  BY <1>2
      <4>3. QED  BY <1>10, <4>1, <4>2 DEF Range
    <3>3. QED  BY <3>1, <3>2
  <2>3. QED  BY <1>2, <2>1, <2>2 DEF Entries, Range
<1>13. ListTypes'  BY <1>1, <1>4, <1>11 DEF ListTypes, list
<1>14. ListOrder'
  <2>1. ASSUME NEW i \in 1 .. N, NEW j \in 1 .. N, i < j PROVE used'[list[i]] > used'[list[j]]
    <3>1. j \in 2 .. N  BY <1>2, <2>1
    <3>2. used'[list[j]] = used[list[j]] /\ used[list[j]] <= uses /\ used[list[j]] \in Nat
      BY <1>1, <1>4, <1>10, <3>1 DEF ListTypes, ListOrder
    <3>3. CASE i = 1
      <4>1. used'[list[i]] = uses + 1  BY <1>1, <1>4, <1>10, <3>3 DEF ListTypes
      <4>2. uses + 1 > used[list[j]]  BY <1>1, <3>2 DEF ListTypes
      <4>3. QED  BY <3>2, <4>1, <4>2
    <3>4. CASE i # 1
      <4>1. i \in 2 .. N  BY <1>2, <3>4
      <4>2. used'[list[i]] = used[list[i]]  BY <1>1, <1>4, <1>10, <4>1 DEF ListTypes
      <4>3. from(i) \in 1 .. N /\ from(j) \in 1 .. N /\ from(i) < from(j)
        BY <1>6, <1>7, <2>1, <3>1, <4>1
      <4>4. used[cache_list[from(i)]] > used[cache_list[from(j)]]
        BY <1>1, <1>2, <4>3 DEF ListOrder, Ordered
      <4>5. QED  BY <1>10, <3>1, <3>2, <4>1, <4>2, <4>4
    <3>5. QED  BY <3>3, <3>4
  <2>2. Ordered(cache_list)'  BY <1>4, <1>10, <2>1 DEF Ordered, list
  <2>3. saved = Empty
    <3>1. cache_list # <<>>  BY <1>2, <1>3
    <3>2. QED  BY <1>1, <3>1 DEF ListOrder
  <2>4. Ordered(saved.list)'  BY <1>4, <2>3 DEF Ordered, Empty
  <2>5. \A j \in Keys : used'[j] <= uses'  BY <1>1, <1>4 DEF ListTypes, ListOrder
  <2>6. QED  BY <1>4, <2>2, <2>3, <2>4, <2>5 DEF ListOrder
<1>15. ListTotal'
  <2>1. Entries' = Entries  BY <1>4, <1>12 DEF Entries, list
  <2>2. Len(cache_list') = Len(cache_list)  BY <1>2, <1>4, <1>10, <1>11 DEF list
  <2>3. QED  BY <1>1, <1>4, <2>1, <2>2 DEF ListTotal, TotalFits
<1>16. QED  BY <1>13, <1>14, <1>15 DEF ListInv

LEMMA ListResize ==
  ASSUME ListInv, NEW max \in Limits, Resize(max), ~undefined
  PROVE  ListInv'
<1> DEFINE n == Kept(0, max)
<1>1. ListTypes /\ ListOrder /\ ListTotal /\ max \in Nat  BY LruMemoryAssumption DEF ListInv
<1>2. n \in 0 .. Len(cache_list) /\ (n = 0 \/ Room(n, max - 0))  BY <1>1, KeptFits
<1>3. /\ cache_list' = First(n) /\ size' = Without(size, Gone(n)) /\ cache_size' = Removed(n)
      /\ max_size' = max /\ UNCHANGED <<saved, undefined, used, uses>>
  BY DEF Resize
<1> HIDE DEF n
<1> DEFINE R == Range(First(n))
<1>4. cache_list' \in Seq(Keys) /\ Ordered(cache_list') /\ (cache_list' # <<>> => cache_list # <<>>)
  BY <1>2, <1>3, TrimKeeps
<1>5. ListTypes'
  <2>1. size' \in [Keys -> Nat]  BY <1>1, <1>3 DEF ListTypes, Without
  <2>2. QED  BY <1>1, <1>3, <1>4, <2>1 DEF ListTypes
<1>6. ListOrder'  BY <1>1, <1>3, <1>4 DEF ListOrder, Ordered
<1>7. IsFiniteSet(Blocks(R, size)) /\ Removed(n) = Usage(R, size) /\ Removed(n) \in Nat
  BY <1>2, RemovedIsExact
<1>8. Len(First(n)) = n /\ First(n) \in Seq(Keys) /\ R \subseteq Keys
  BY <1>1, <1>2, Beginning
<1>9. \A j \in R : size'[j] = size[j]  BY <1>1, <1>3, <1>8 DEF Gone, Without, ListTypes
<1>10. Entries' = R  BY <1>3 DEF Entries
<1>11. Removed(n) <= max
  <2>1. CASE n = 0
    <3>1. R = {}  BY <1>8, <2>1 DEF Range
    <3>2. QED  BY <1>1, <1>7, <3>1, UsageEmpty
  <2>2. CASE n # 0  BY <1>1, <1>2, <1>7, <2>2 DEF Room, Removed
  <2>3. QED  BY <2>1, <2>2
<1> HIDE DEF R
<1>12. IsFiniteSet(Blocks(R, size')) /\ cache_size' = Usage(R, size')
  BY <1>3, <1>7, <1>9, UsageSame
<1>13. ~(cache_size' > max_size')  BY <1>1, <1>3, <1>7, <1>11
<1>14. ListTotal'  BY <1>1, <1>3, <1>10, <1>12, <1>13 DEF ListTotal, TotalFits
<1>15. QED  BY <1>5, <1>6, <1>14 DEF ListInv

LEMMA ListSaving ==
  ASSUME ListInv, Backup \/ Restore, ~undefined
  PROVE  ListInv'
<1>1. ListTypes /\ ListOrder /\ ListTotal  BY DEF ListInv
<1>2. CASE Backup
  <2>1. /\ saved' = [list |-> cache_list, size |-> size] /\ cache_list' = <<>>
        /\ size' = [j \in Keys |-> 0] /\ cache_size' = 0
        /\ UNCHANGED <<max_size, undefined, used, uses>>
    BY <1>2 DEF Backup
  <2>2. ListTypes'  BY <1>1, <2>1 DEF ListTypes
  <2>3. ListOrder'  BY <1>1, <2>1 DEF ListOrder, Ordered
  <2>4. Entries' = {}  BY <2>1 DEF Entries, Range
  <2>5. IsFiniteSet(Blocks(Entries', size')) /\ cache_size' = Usage(Entries', size')
    BY <2>1, <2>4, UsageEmpty
  <2>6. IsFiniteSet(Blocks(Range(saved'.list), saved'.size))
    BY <1>1, <2>1 DEF ListTotal, Entries
  <2>7. ListTotal'  BY <1>1, <2>1, <2>5, <2>6 DEF ListTotal, TotalFits
  <2>8. QED  BY <2>2, <2>3, <2>7 DEF ListInv
<1>3. CASE Restore
  <2>1. /\ saved' = Empty /\ cache_list' = saved.list /\ size' = saved.size /\ restored' = TRUE
        /\ cache_size' = Usage(Range(saved.list), saved.size)
        /\ UNCHANGED <<max_size, undefined, used, uses>>
    BY <1>3 DEF Restore
  <2>2. ListTypes'
    <3>1. saved' \in [list : Seq(Keys), size : [Keys -> Nat]]  BY <2>1 DEF Empty
    <3>2. QED  BY <1>1, <2>1, <3>1 DEF ListTypes
  <2>3. ListOrder'  BY <1>1, <2>1 DEF ListOrder, Ordered, Empty
  <2>4. Range(saved'.list) = {}  BY <2>1 DEF Range, Empty
  <2>5. IsFiniteSet(Blocks(Range(saved'.list), saved'.size))  BY <2>4, UsageEmpty
  <2>6. ListTotal'  BY <1>1, <2>1, <2>5 DEF ListTotal, TotalFits, Entries
  <2>7. QED  BY <2>2, <2>3, <2>6 DEF ListInv
<1>4. QED  BY <1>2, <1>3

LEMMA ListStep == ListInv /\ [Next]_vars => ListInv'
<1> SUFFICES ASSUME ListInv, [Next]_vars PROVE ListInv'
  OBVIOUS
<1>1. ASSUME NEW k \in Keys, NEW s \in Sizes, Update(k, s), ~undefined PROVE ListInv'
  BY <1>1 DEF Update, ListInv, ListTypes, ListOrder, Ordered, ListTotal, TotalFits, Entries
<1>2. CASE UNCHANGED vars
  BY <1>2 DEF vars, ListInv, ListTypes, ListOrder, Ordered, ListTotal, TotalFits, Entries
<1>3. QED
  BY <1>1, <1>2, ListPutAbsent, ListPutPresent, ListRenew, ListResize, ListSaving DEF Next

\* In every state of the LRU manager the list is in the order of use and the
\* total is that of the list (algo_lru.cpp).
THEOREM ListInvariant == Spec => []ListInv
BY ListInit, ListStep, PTL DEF Spec

\* The list of the LRU manager stays in the order of use, through evictions,
\* backups and restores, so that what is evicted from its end was used
\* longest ago (algo_lru.cpp:8-30, 41-44, 78, 109-114).
THEOREM ListIsLeastRecentLast == Spec => []ListIsRecency
<1>1. ListInv => ListIsRecency  BY DEF ListInv, ListOrder, Ordered, ListIsRecency
<1>2. QED  BY <1>1, ListInvariant, PTL

-----------------------------------------------------------------------------
(* The LFUDA manager.                                                      *)

Stats == [timestamp : Times \union {0}, freq : Nat, eff : Nat]

SetTypes == /\ entries \in SUBSET Keys /\ IsFiniteSet(entries) /\ aging \in Nat
            /\ lfuda_size \in [Keys -> Nat] /\ stat \in [Keys -> Stats]
            /\ lfuda_saved \in [entries : SUBSET Keys, size : [Keys -> Nat],
                                stat : [Keys -> Stats], aging : Nat]
            /\ IsFiniteSet(lfuda_saved.entries)

\* The factor is a floor under the entries, and so is the one that is saved.
SetFloor == /\ Lfuda!AgingIsFloor
            /\ \A k \in lfuda_saved.entries : lfuda_saved.aging <= lfuda_saved.stat[k].eff

SetTotal == /\ IsFiniteSet(Blocks(lfuda_saved.entries, lfuda_saved.size))
            /\ ~lfuda_undefined => /\ IsFiniteSet(Blocks(entries, lfuda_size))
                                   /\ lfuda_total = Usage(entries, lfuda_size)

SetInv == SetTypes /\ SetFloor /\ SetTotal

\* The instance means the same by bytes and by a maximum.
LEMMA SameUsage == ASSUME NEW R, NEW sz PROVE Lfuda!Usage(R, sz) = Usage(R, sz)
<1>1. \A S : Lfuda!Cardinality(S) = Cardinality(S)  BY DEF Cardinality, Lfuda!Cardinality
<1>2. QED  BY <1>1 DEF Usage, Lfuda!Usage, Blocks, Lfuda!Blocks

LEMMA SameMax == ASSUME NEW S PROVE Lfuda!Max(S) = Max(S)
BY DEF Max, Lfuda!Max

\* Entries of which none is worth more than one that stays.
Cheap(gone) == /\ gone \in SUBSET entries
               /\ \A v \in gone, k \in entries \ gone : stat[v].eff <= stat[k].eff

LEMMA VictimsAreCheap ==
  ASSUME SetTypes, NEW bytes, NEW gone \in Lfuda!Victims(bytes)
  PROVE  Cheap(gone)
<1>1. gone \in SUBSET entries /\ \A v \in gone, k \in entries \ gone : ~Lfuda!Precedes(k, v)
  BY DEF Lfuda!Victims
<1>2. \A k \in entries : stat[k].eff \in Nat  BY DEF SetTypes, Stats
<1>3. ASSUME NEW v \in gone, NEW k \in entries \ gone PROVE stat[v].eff <= stat[k].eff
  <2>1. ~(stat[k].eff < stat[v].eff)  BY <1>1, <1>3 DEF Lfuda!Precedes
  <2>2. QED  BY <1>1, <1>2, <1>3, <2>1
<1>4. QED  BY <1>1, <1>3 DEF Cheap

\* What cheap victims leave: a factor below the entries that stay, and the
\* bytes of these.
LEMMA CheapLeave ==
  ASSUME SetInv, ~lfuda_undefined, NEW gone, Cheap(gone)
  PROVE  /\ Lfuda!AgingAfter(gone) \in Nat
         /\ \A k \in entries \ gone : Lfuda!AgingAfter(gone) <= stat[k].eff
         /\ IsFiniteSet(entries \ gone) /\ IsFiniteSet(Blocks(entries \ gone, lfuda_size))
         /\ lfuda_total - Lfuda!Usage(gone, lfuda_size) = Usage(entries \ gone, lfuda_size)
         /\ Usage(entries \ gone, lfuda_size) \in Nat
<1>1. SetTypes /\ SetFloor /\ SetTotal /\ gone \in SUBSET entries  BY DEF SetInv, Cheap
<1>2. /\ Lfuda!AgingAfter(gone) \in Nat
      /\ \A k \in entries \ gone : Lfuda!AgingAfter(gone) <= stat[k].eff
  <2>1. CASE gone = {}
    BY <1>1, <2>1 DEF Lfuda!AgingAfter, SetTypes, SetFloor, Lfuda!AgingIsFloor
  <2>2. CASE gone # {}
    <3> DEFINE worth == [v \in gone |-> stat[v].eff]
               S == {stat[v].eff : v \in gone}
    <3>1. \A v \in gone : worth[v] \in Nat /\ worth[v] = stat[v].eff
      BY <1>1 DEF SetTypes, Stats
    <3>2. IsFiniteSet(gone)  BY <1>1, FS_Subset DEF SetTypes
    <3>3. PICK v \in gone : \A w \in gone : worth[w] <= worth[v]
      <4>1. \A v \in gone : worth[v] \in Int  BY <3>1
      <4> HIDE DEF worth
      <4>2. QED  BY <2>2, <3>2, <4>1, Greatest
    <3>4. stat[v].eff \in S /\ \A x \in S : stat[v].eff >= x  BY <3>1, <3>3
    <3>5. Max(S) \in S  BY <3>4 DEF Max
    <3>6. Lfuda!AgingAfter(gone) = Max(S)  BY <2>2, SameMax DEF Lfuda!AgingAfter
    <3>7. PICK w \in gone : Lfuda!AgingAfter(gone) = stat[w].eff  BY <3>5, <3>6
    <3>8. QED  BY <3>1, <3>7 DEF Cheap
  <2>3. QED  BY <2>1, <2>2
<1>3. IsFiniteSet(entries \ gone)  BY <1>1, FS_Difference DEF SetTypes
<1> DEFINE kept == entries \ gone
<1>4. kept \union gone = entries /\ kept \intersect gone = {}  BY <1>1
<1> HIDE DEF kept
<1>5. IsFiniteSet(Blocks(entries, lfuda_size)) /\ lfuda_total = Usage(entries, lfuda_size)
  BY <1>1 DEF SetTotal
<1>6. /\ IsFiniteSet(Blocks(kept, lfuda_size)) /\ IsFiniteSet(Blocks(gone, lfuda_size))
      /\ lfuda_total = Usage(kept, lfuda_size) + Usage(gone, lfuda_size)
  BY <1>4, <1>5, UsageSplit
<1>7. Usage(kept, lfuda_size) \in Nat /\ Usage(gone, lfuda_size) \in Nat  BY <1>6, UsageType
<1>8. lfuda_total - Lfuda!Usage(gone, lfuda_size) = Usage(kept, lfuda_size)
  BY <1>6, <1>7, SameUsage
<1>9. QED  BY <1>2, <1>3, <1>6, <1>7, <1>8 DEF kept

LEMMA SetInit == Lfuda!Init => SetInv
<1> SUFFICES ASSUME Lfuda!Init PROVE SetInv
  OBVIOUS
<1> USE DEF Lfuda!Init, Lfuda!Empty, Lfuda!NoSizes, Lfuda!NoStats, Lfuda!ZeroStat
<1>1. lfuda_size \in [Keys -> Nat] /\ stat \in [Keys -> Stats]  BY DEF Stats
<1>2. IsFiniteSet(entries) /\ IsFiniteSet(lfuda_saved.entries)  BY FS_EmptySet
<1>3. SetTypes  BY <1>1, <1>2 DEF SetTypes
<1>4. SetFloor  BY DEF SetFloor, Lfuda!AgingIsFloor
<1>5. entries = {} /\ lfuda_saved.entries = {} /\ lfuda_total = 0  OBVIOUS
<1>6. SetTotal  BY <1>5, UsageEmpty DEF SetTotal
<1>7. QED  BY <1>3, <1>4, <1>6 DEF SetInv

\* The records of the entries that stay are as they were.
LEMMA WithoutTypes ==
  ASSUME SetTypes, NEW gone
  PROVE  /\ Lfuda!SizesWithout(gone) \in [Keys -> Nat]
         /\ Lfuda!StatsWithout(gone) \in [Keys -> Stats]
         /\ \A k \in Keys \ gone : /\ Lfuda!SizesWithout(gone)[k] = lfuda_size[k]
                                   /\ Lfuda!StatsWithout(gone)[k] = stat[k]
<1>1. Lfuda!ZeroStat \in Stats  BY DEF Stats, Lfuda!ZeroStat
<1>2. QED  BY <1>1 DEF SetTypes, Lfuda!SizesWithout, Lfuda!StatsWithout

LEMMA SetPutAbsent ==
  ASSUME SetInv, ~lfuda_undefined, NEW k \in Keys, NEW s \in Sizes, NEW t \in Times,
         Lfuda!PutAbsent(k, s, t)
  PROVE  SetInv'
<1>1. SetTypes /\ SetFloor /\ SetTotal /\ s \in Nat  BY LruMemoryAssumption DEF SetInv
<1>2. PICK gone \in Lfuda!Victims(lfuda_max - s) :
        /\ entries' = (entries \ gone) \union {k}
        /\ aging' = Lfuda!AgingAfter(gone)
        /\ lfuda_size' = [Lfuda!SizesWithout(gone) EXCEPT ![k] = s]
        /\ stat' = [Lfuda!StatsWithout(gone) EXCEPT ![k] =
                      [timestamp |-> t, freq |-> 1, eff |-> aging' + 1]]
        /\ lfuda_total' = lfuda_total - Lfuda!Usage(gone, lfuda_size) + s
  BY DEF Lfuda!PutAbsent
<1>3. k \notin entries /\ lfuda_saved' = Lfuda!Empty /\ lfuda_undefined' = lfuda_undefined
  BY DEF Lfuda!PutAbsent
<1>4. Cheap(gone)  BY <1>1, <1>2, VictimsAreCheap
<1> DEFINE kept == entries \ gone
<1>5. /\ aging' \in Nat /\ \A j \in kept : aging' <= stat[j].eff
      /\ IsFiniteSet(kept) /\ IsFiniteSet(Blocks(kept, lfuda_size))
      /\ lfuda_total - Lfuda!Usage(gone, lfuda_size) = Usage(kept, lfuda_size)
      /\ Usage(kept, lfuda_size) \in Nat
  BY <1>2, <1>4, CheapLeave
<1>6. kept \subseteq Keys \ gone /\ k \notin kept  BY <1>1, <1>3 DEF SetTypes
<1>7. /\ lfuda_size' \in [Keys -> Nat] /\ lfuda_size'[k] = s
      /\ \A j \in kept : lfuda_size'[j] = lfuda_size[j]
  BY <1>1, <1>2, <1>6, WithoutTypes
<1>8. /\ stat' \in [Keys -> Stats] /\ stat'[k].eff = aging' + 1
      /\ \A j \in kept : stat'[j] = stat[j]
  <2>1. [timestamp |-> t, freq |-> 1, eff |-> aging' + 1] \in Stats
    <3>1. aging' + 1 \in Nat  BY <1>5
    <3>2. QED  BY <3>1 DEF Stats
  <2>2. QED  BY <1>1, <1>2, <1>6, <2>1, WithoutTypes
<1>9. entries' = kept \union {k}  BY <1>2
<1> HIDE DEF kept
<1>10. /\ lfuda_saved' \in [entries : SUBSET Keys, size : [Keys -> Nat],
                            stat : [Keys -> Stats], aging : Nat]
       /\ lfuda_saved'.entries = {}
  BY <1>3 DEF Lfuda!Empty, Lfuda!NoSizes, Lfuda!NoStats, Lfuda!ZeroStat, Stats
<1>11. SetTypes'
  <2>1. IsFiniteSet(entries')  BY <1>5, <1>9, FS_AddElement
  <2>2. entries' \in SUBSET Keys  BY <1>6, <1>9
  <2>3. IsFiniteSet(lfuda_saved'.entries)  BY <1>10, FS_EmptySet
  <2>4. QED  BY <1>5, <1>7, <1>8, <1>10, <2>1, <2>2, <2>3 DEF SetTypes
<1>12. SetFloor'
  <2>1. \A j \in entries' : aging' <= stat'[j].eff  BY <1>5, <1>8, <1>9
  <2>2. QED  BY <1>10, <2>1 DEF SetFloor, Lfuda!AgingIsFloor
<1>13. SetTotal'
  <2>1. /\ IsFiniteSet(Blocks(kept, lfuda_size'))
        /\ Usage(kept, lfuda_size') = Usage(kept, lfuda_size)
    BY <1>5, <1>7, UsageSame
  <2>2. lfuda_size'[k] \in Nat /\ k \notin kept  BY <1>1, <1>6, <1>7
  <2>3. /\ IsFiniteSet(Blocks(kept \union {k}, lfuda_size'))
        /\ Usage(kept \union {k}, lfuda_size') = Usage(kept, lfuda_size') + lfuda_size'[k]
    BY ONLY <2>1, <2>2, UsageAdd
  <2>4. lfuda_total' = Usage(entries', lfuda_size')
    BY <1>2, <1>5, <1>7, <1>9, <2>1, <2>3
  <2>5. IsFiniteSet(Blocks(lfuda_saved'.entries, lfuda_saved'.size))  BY <1>10, UsageEmpty
  <2>6. QED  BY <1>9, <2>3, <2>4, <2>5 DEF SetTotal
<1>14. QED  BY <1>11, <1>12, <1>13 DEF SetInv

\* update_size: the total moves by the difference, unless the entry itself
\* was evicted.
LEMMA SetUpdateSize ==
  ASSUME SetInv, ~lfuda_undefined, NEW k \in Keys, NEW s \in Sizes, k \in entries,
         Lfuda!UpdateSize(k, s), UNCHANGED <<lfuda_max, lfuda_saved>>
  PROVE  SetInv'
<1>1. SetTypes /\ SetFloor /\ SetTotal /\ s \in Nat  BY LruMemoryAssumption DEF SetInv
<1>2. PICK gone \in IF s > lfuda_size[k] THEN Lfuda!Victims(lfuda_max - (s - lfuda_size[k])) ELSE {{}} :
        /\ entries' = entries \ gone /\ lfuda_undefined' = (k \in gone)
        /\ aging' = Lfuda!AgingAfter(gone)
        /\ lfuda_size' = [Lfuda!SizesWithout(gone) EXCEPT ![k] = s]
        /\ stat' = Lfuda!StatsWithout(gone)
        /\ lfuda_total' = lfuda_total - Lfuda!Usage(gone, lfuda_size) - lfuda_size[k] + s
  BY DEF Lfuda!UpdateSize
<1>3. Cheap(gone)
  <2>1. CASE gone = {}  BY <2>1 DEF Cheap
  <2>2. CASE gone # {}
    <3>1. gone \in Lfuda!Victims(lfuda_max - (s - lfuda_size[k]))  BY <1>2, <2>2
    <3>2. QED  BY <1>1, <3>1, VictimsAreCheap
  <2>3. QED  BY <2>1, <2>2
<1> DEFINE kept == entries \ gone
<1>4. /\ aging' \in Nat /\ \A j \in kept : aging' <= stat[j].eff
      /\ IsFiniteSet(kept) /\ IsFiniteSet(Blocks(kept, lfuda_size))
      /\ lfuda_total - Lfuda!Usage(gone, lfuda_size) = Usage(kept, lfuda_size)
      /\ Usage(kept, lfuda_size) \in Nat
  BY <1>2, <1>3, CheapLeave
<1>5. kept \subseteq Keys \ gone  BY <1>1 DEF SetTypes
<1>6. /\ lfuda_size' \in [Keys -> Nat] /\ lfuda_size'[k] = s
      /\ \A j \in kept \ {k} : lfuda_size'[j] = lfuda_size[j]
  BY <1>1, <1>2, <1>5, WithoutTypes
<1>7. stat' \in [Keys -> Stats] /\ \A j \in kept : stat'[j] = stat[j]
  BY <1>1, <1>2, <1>5, WithoutTypes
<1>8. entries' = kept /\ (~lfuda_undefined' => k \in kept)  BY <1>2
<1> HIDE DEF kept
<1>9. SetTypes'  BY <1>1, <1>4, <1>5, <1>6, <1>7, <1>8 DEF SetTypes
<1>10. SetFloor'  BY <1>1, <1>4, <1>7, <1>8 DEF SetFloor, Lfuda!AgingIsFloor
<1>11. ASSUME k \in kept
       PROVE  /\ IsFiniteSet(Blocks(kept, lfuda_size'))
              /\ Usage(kept, lfuda_size') = Usage(kept, lfuda_size) - lfuda_size[k] + s
  <2> DEFINE others == kept \ {k}
  <2>1. lfuda_size[k] \in Nat  BY <1>1 DEF SetTypes
  <2>2. IsFiniteSet(Blocks(others, lfuda_size)) /\ Usage(kept, lfuda_size) = Usage(others, lfuda_size) + lfuda_size[k]
    BY <1>4, <1>11, <2>1, UsageRemove
  <2>3. k \notin others /\ others \union {k} = kept  BY <1>11
  <2>4. \A j \in others : lfuda_size[j] = lfuda_size'[j]  BY <1>6
  <2> HIDE DEF others
  <2>5. /\ IsFiniteSet(Blocks(others, lfuda_size'))
        /\ Usage(others, lfuda_size') = Usage(others, lfuda_size) /\ Usage(others, lfuda_size) \in Nat
    BY <2>2, <2>4, UsageSame, UsageType
  <2>6. lfuda_size'[k] \in Nat /\ k \notin others /\ IsFiniteSet(Blocks(others, lfuda_size'))
    BY <1>1, <1>6, <2>3, <2>5
  <2>7. /\ IsFiniteSet(Blocks(others \union {k}, lfuda_size'))
        /\ Usage(others \union {k}, lfuda_size') = Usage(others, lfuda_size') + lfuda_size'[k]
    BY ONLY <2>6, UsageAdd
  <2>8. /\ IsFiniteSet(Blocks(kept, lfuda_size'))
        /\ Usage(kept, lfuda_size') = Usage(others, lfuda_size') + lfuda_size'[k]
    BY ONLY <2>3, <2>7
  <2>9. Usage(kept, lfuda_size') = Usage(others, lfuda_size) + s  BY ONLY <1>6, <2>5, <2>8
  <2>10. s \in Nat  BY <1>1
  <2>11. Usage(others, lfuda_size) + s = Usage(kept, lfuda_size) - lfuda_size[k] + s
    BY ONLY <2>1, <2>2, <2>5, <2>10
  <2>12. QED  BY <2>8, <2>9, <2>11
<1>12. SetTotal'
  <2>1. lfuda_total' = Usage(kept, lfuda_size) - lfuda_size[k] + s  BY <1>2, <1>4
  <2>2. QED  BY <1>1, <1>8, <1>11, <2>1 DEF SetTotal
<1>13. QED  BY <1>9, <1>10, <1>12 DEF SetInv

LEMMA SetRenew ==
  ASSUME SetInv, ~lfuda_undefined, NEW k \in Keys, NEW t \in Times, Lfuda!Renew(k, t)
  PROVE  SetInv'
<1>1. SetTypes /\ SetFloor /\ SetTotal  BY DEF SetInv
<1>2. /\ stat' = [stat EXCEPT ![k] = [timestamp |-> t, freq |-> stat[k].freq + 1,
                                      eff |-> stat[k].freq + 1 + aging]]
      /\ UNCHANGED <<entries, lfuda_size, lfuda_total, lfuda_max, aging, lfuda_saved, lfuda_undefined>>
  BY DEF Lfuda!Renew, Lfuda!Renewed
<1>3. stat[k].freq \in Nat /\ aging \in Nat  BY <1>1 DEF SetTypes, Stats
<1>4. stat[k].freq + 1 \in Nat /\ stat[k].freq + 1 + aging \in Nat  BY <1>3
<1>5. [timestamp |-> t, freq |-> stat[k].freq + 1, eff |-> stat[k].freq + 1 + aging] \in Stats
  BY <1>4 DEF Stats
<1>6. stat' \in [Keys -> Stats]  BY <1>1, <1>2, <1>5 DEF SetTypes
<1>7. SetTypes'  BY <1>1, <1>2, <1>6 DEF SetTypes
<1>8. SetFloor'
  <2>1. \A j \in entries : aging <= stat'[j].eff
    <3>1. stat'[k].eff = stat[k].freq + 1 + aging  BY <1>1, <1>2 DEF SetTypes
    <3>2. \A j \in entries \ {k} : stat'[j] = stat[j]  BY <1>1, <1>2 DEF SetTypes
    <3>3. \A j \in entries : aging <= stat[j].eff  BY <1>1 DEF SetFloor, Lfuda!AgingIsFloor
    <3>4. aging <= stat'[k].eff  BY <1>3, <3>1
    <3>5. QED  BY <3>2, <3>3, <3>4
  <2>2. QED  BY <1>1, <1>2, <2>1 DEF SetFloor, Lfuda!AgingIsFloor
<1>9. SetTotal'  BY <1>1, <1>2 DEF SetTotal
<1>10. QED  BY <1>7, <1>8, <1>9 DEF SetInv

LEMMA SetResize ==
  ASSUME SetInv, ~lfuda_undefined, NEW max \in Limits, Lfuda!Resize(max)
  PROVE  SetInv'
<1>1. SetTypes /\ SetFloor /\ SetTotal  BY DEF SetInv
<1>2. PICK gone \in Lfuda!Victims(max) :
        /\ entries' = entries \ gone /\ aging' = Lfuda!AgingAfter(gone)
        /\ lfuda_size' = Lfuda!SizesWithout(gone) /\ stat' = Lfuda!StatsWithout(gone)
        /\ lfuda_total' = lfuda_total - Lfuda!Usage(gone, lfuda_size)
  BY DEF Lfuda!Resize
<1>3. UNCHANGED <<lfuda_saved, lfuda_undefined>>  BY DEF Lfuda!Resize
<1>4. Cheap(gone)  BY <1>1, <1>2, VictimsAreCheap
<1> DEFINE kept == entries \ gone
<1>5. /\ aging' \in Nat /\ \A j \in kept : aging' <= stat[j].eff
      /\ IsFiniteSet(kept) /\ IsFiniteSet(Blocks(kept, lfuda_size))
      /\ lfuda_total' = Usage(kept, lfuda_size)
  BY <1>2, <1>4, CheapLeave
<1>6. kept \subseteq Keys \ gone  BY <1>1 DEF SetTypes
<1>7. /\ lfuda_size' \in [Keys -> Nat] /\ stat' \in [Keys -> Stats]
      /\ \A j \in kept : lfuda_size'[j] = lfuda_size[j] /\ stat'[j] = stat[j]
  BY <1>1, <1>2, <1>6, WithoutTypes
<1>8. entries' = kept  BY <1>2
<1> HIDE DEF kept
<1>9. SetTypes'  BY <1>1, <1>3, <1>5, <1>6, <1>7, <1>8 DEF SetTypes
<1>10. SetFloor'  BY <1>1, <1>3, <1>5, <1>7, <1>8 DEF SetFloor, Lfuda!AgingIsFloor
<1>11. /\ IsFiniteSet(Blocks(kept, lfuda_size'))
       /\ Usage(kept, lfuda_size') = Usage(kept, lfuda_size)
  BY <1>5, <1>7, UsageSame
<1>12. SetTotal'  BY <1>1, <1>3, <1>5, <1>8, <1>11 DEF SetTotal
<1>13. QED  BY <1>9, <1>10, <1>12 DEF SetInv

LEMMA SetSaving ==
  ASSUME SetInv, ~lfuda_undefined, Lfuda!Backup \/ Lfuda!Restore
  PROVE  SetInv'
<1>1. SetTypes /\ SetFloor /\ SetTotal  BY DEF SetInv
<1>2. Lfuda!ZeroStat \in Stats  BY DEF Stats, Lfuda!ZeroStat
<1>3. CASE Lfuda!Backup
  <2>1. /\ lfuda_saved' = [entries |-> entries, size |-> lfuda_size, stat |-> stat, aging |-> aging]
        /\ entries' = {} /\ lfuda_size' = [k \in Keys |-> 0] /\ stat' = [k \in Keys |-> Lfuda!ZeroStat]
        /\ lfuda_total' = 0 /\ UNCHANGED <<lfuda_max, aging, lfuda_undefined>>
    BY <1>3 DEF Lfuda!Backup, Lfuda!NoSizes, Lfuda!NoStats
  <2>2. SetTypes'  BY <1>1, <1>2, <2>1, FS_EmptySet DEF SetTypes
  <2>3. SetFloor'  BY <1>1, <2>1 DEF SetFloor, Lfuda!AgingIsFloor
  <2>4. SetTotal'  BY <1>1, <2>1, UsageEmpty DEF SetTotal
  <2>5. QED  BY <2>2, <2>3, <2>4 DEF SetInv
<1>4. CASE Lfuda!Restore
  <2>1. /\ lfuda_saved' = Lfuda!Empty /\ entries' = lfuda_saved.entries
        /\ lfuda_size' = lfuda_saved.size /\ stat' = lfuda_saved.stat /\ aging' = lfuda_saved.aging
        /\ lfuda_total' = Lfuda!Usage(lfuda_saved.entries, lfuda_saved.size)
        /\ UNCHANGED <<lfuda_max, lfuda_undefined>>
    BY <1>4 DEF Lfuda!Restore
  <2>2. /\ lfuda_saved' \in [entries : SUBSET Keys, size : [Keys -> Nat],
                             stat : [Keys -> Stats], aging : Nat]
        /\ lfuda_saved'.entries = {}
    BY <1>2, <2>1 DEF Lfuda!Empty, Lfuda!NoSizes, Lfuda!NoStats
  <2>3. SetTypes'  BY <1>1, <2>1, <2>2, FS_EmptySet DEF SetTypes
  <2>4. SetFloor'  BY <1>1, <2>1, <2>2 DEF SetFloor, Lfuda!AgingIsFloor
  <2>5. lfuda_total' = Usage(entries', lfuda_size')  BY <2>1, SameUsage
  <2>6. IsFiniteSet(Blocks(lfuda_saved'.entries, lfuda_saved'.size))  BY <2>2, UsageEmpty
  <2>7. SetTotal'  BY <1>1, <2>1, <2>5, <2>6 DEF SetTotal
  <2>8. QED  BY <2>3, <2>4, <2>7 DEF SetInv
<1>5. QED  BY <1>3, <1>4

LEMMA SetStep == SetInv /\ [Lfuda!Next]_(Lfuda!vars) => SetInv'
<1> SUFFICES ASSUME SetInv, [Lfuda!Next]_(Lfuda!vars) PROVE SetInv'
  OBVIOUS
<1>1. ASSUME NEW k \in Keys, NEW s \in Sizes, ~lfuda_undefined,
             Lfuda!PutPresent(k, s) \/ Lfuda!Update(k, s)
      PROVE  SetInv'
  <2>1. \/ Lfuda!UpdateSize(k, s)
        \/ UNCHANGED <<entries, lfuda_size, stat, lfuda_total, aging, lfuda_undefined>>
    BY <1>1 DEF Lfuda!PutPresent, Lfuda!Update
  <2>2. k \in entries /\ UNCHANGED <<lfuda_max, lfuda_saved>>
    BY <1>1 DEF Lfuda!PutPresent, Lfuda!Update
  <2>3. CASE Lfuda!UpdateSize(k, s)  BY <1>1, <2>2, <2>3, SetUpdateSize
  <2>4. CASE UNCHANGED <<entries, lfuda_size, stat, lfuda_total, aging, lfuda_undefined>>
    BY <2>2, <2>4 DEF SetInv, SetTypes, SetFloor, Lfuda!AgingIsFloor, SetTotal
  <2>5. QED  BY <2>1, <2>3, <2>4
<1>2. CASE UNCHANGED Lfuda!vars
  BY <1>2 DEF Lfuda!vars, SetInv, SetTypes, SetFloor, Lfuda!AgingIsFloor, SetTotal
<1>3. QED
  BY <1>1, <1>2, SetPutAbsent, SetRenew, SetResize, SetSaving DEF Lfuda!Next

\* The factor is a floor, and the total is exact, in every state of the
\* LFUDA manager (algo_lfuda.cpp).
THEOREM SetInvariant == Lfuda!Spec => []SetInv
BY SetInit, SetStep, PTL DEF Lfuda!Spec

-----------------------------------------------------------------------------
(* Either manager.                                                         *)

\* Whichever manager the program has, it starts and steps as its own module
\* says and the other one rests.
LEMMA EitherSteps ==
  /\ MCInit => Init /\ Lfuda!Init
  /\ [MCNext]_<<vars, lfudaVars, lfuda>> => [Next]_vars /\ [Lfuda!Next]_(Lfuda!vars)
BY DEF MCInit, MCNext, lfudaVars, Lfuda!vars

LEMMA EitherInvariant == MCSpec => [](ListInv /\ SetInv)
<1>1. MCInit => ListInv /\ SetInv  BY EitherSteps, ListInit, SetInit
<1>2. ListInv /\ SetInv /\ [MCNext]_<<vars, lfudaVars, lfuda>> => (ListInv /\ SetInv)'
  BY EitherSteps, ListStep, SetStep
<1>3. QED  BY <1>1, <1>2, PTL DEF MCSpec

\* The aging factor of the LFUDA manager never passes the value of an entry:
\* what was evicted was worth no more than what stayed, also over a backup
\* (algo_lfuda.cpp:8-26, 41, 61, 94-95).
THEOREM FactorIsFloor == MCSpec => []AgingIsFloor
<1>1. SetInv => AgingIsFloor  BY DEF SetInv, SetFloor, AgingIsFloor
<1>2. QED  BY <1>1, EitherInvariant, PTL

\* Both managers count the bytes they hold exactly until an iterator that
\* points at no entry is used, and the LRU one stays within its limit or
\* holds one entry, or what init() left untrimmed
\* (algo_lru.cpp:15-18, 41-42, 106-126; algo_lfuda.cpp:8-15, 41, 96, 106-116).
THEOREM ManagersCountExactly == MCSpec => []TotalsAreExact
<1>1. ListInv => TotalFits  BY DEF ListInv, ListTotal, TotalFits
<1>2. SetInv => Lfuda!TotalIsExact  BY SameUsage DEF SetInv, SetTotal, Lfuda!TotalIsExact
<1>3. ListInv /\ SetInv => TotalsAreExact  BY <1>1, <1>2 DEF TotalsAreExact
<1>4. QED  BY <1>3, EitherInvariant, PTL
=============================================================================
