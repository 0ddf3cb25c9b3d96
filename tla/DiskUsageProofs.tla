-------------------------- MODULE DiskUsageProofs --------------------------
(***************************************************************************)
(* How Usage changes when an entry is added, removed or resized.  No lemma *)
(* asks for a finite R: the finiteness of the blocks is all that is needed *)
(* and is itself carried from R to R with an entry more or less.           *)
(***************************************************************************)
EXTENDS DiskUsage, FiniteSetTheorems, TLAPS

\* An empty table occupies nothing.
LEMMA UsageEmpty ==
  ASSUME NEW sz
  PROVE  IsFiniteSet(Blocks({}, sz)) /\ Usage({}, sz) = 0
<1>1. Blocks({}, sz) = {}  BY DEF Blocks
<1>2. QED  BY <1>1, FS_EmptySet DEF Usage

\* The bytes of a table are a natural number.
LEMMA UsageType ==
  ASSUME NEW R, NEW sz, IsFiniteSet(Blocks(R, sz))
  PROVE  Usage(R, sz) \in Nat
BY FS_CardinalityType DEF Usage

\* Only the sizes of the entries in the table count.
LEMMA UsageSame ==
  ASSUME NEW R, NEW sz, NEW tz, \A k \in R : sz[k] = tz[k]
  PROVE  Blocks(R, sz) = Blocks(R, tz) /\ Usage(R, sz) = Usage(R, tz)
<1>1. Blocks(R, sz) = Blocks(R, tz)  BY DEF Blocks
<1>2. QED  BY <1>1 DEF Usage

\* An entry of n bytes has n blocks.
LEMMA EntryBlocks ==
  ASSUME NEW k, NEW n \in Nat
  PROVE  IsFiniteSet({k} \X (1 .. n)) /\ Cardinality({k} \X (1 .. n)) = n
<1>1. IsFiniteSet(1 .. n) /\ Cardinality(1 .. n) = n  BY FS_Interval
<1>2. IsFiniteSet({k}) /\ Cardinality({k}) = 1  BY FS_Singleton
<1>3. IsFiniteSet({k} \X (1 .. n)) /\ Cardinality({k} \X (1 .. n)) = 1 * n
  BY <1>1, <1>2, FS_Product
<1>4. QED  BY <1>3

\* A new entry adds its size to the bytes of the table.
LEMMA UsageAdd ==
  ASSUME NEW R, NEW sz, NEW k, k \notin R, sz[k] \in Nat, IsFiniteSet(Blocks(R, sz))
  PROVE  /\ IsFiniteSet(Blocks(R \union {k}, sz))
         /\ Usage(R \union {k}, sz) = Usage(R, sz) + sz[k]
<1> DEFINE own == {k} \X (1 .. sz[k])
<1>1. Blocks(R \union {k}, sz) = Blocks(R, sz) \union own
  BY DEF Blocks
<1>2. Blocks(R, sz) \intersect own = {}
  BY DEF Blocks
<1>3. IsFiniteSet(own) /\ Cardinality(own) = sz[k]
  BY EntryBlocks
<1> HIDE DEF own
<1>4. /\ IsFiniteSet(Blocks(R, sz) \union own)
      /\ Cardinality(Blocks(R, sz) \union own) =
           Cardinality(Blocks(R, sz)) + sz[k] - Cardinality({})
  BY <1>2, <1>3, FS_Union
<1>5. Cardinality({}) = 0  BY FS_EmptySet
<1>6. Cardinality(Blocks(R, sz)) \in Nat  BY FS_CardinalityType
<1>7. Cardinality(Blocks(R \union {k}, sz)) = Cardinality(Blocks(R, sz)) + sz[k] - 0
  BY <1>1, <1>4, <1>5
<1>8. Cardinality(Blocks(R \union {k}, sz)) = Cardinality(Blocks(R, sz)) + sz[k]
  BY <1>6, <1>7
<1>9. QED  BY <1>1, <1>4, <1>8 DEF Usage

\* A deleted entry takes its size off the bytes of the table.
LEMMA UsageRemove ==
  ASSUME NEW R, NEW sz, NEW k \in R, sz[k] \in Nat, IsFiniteSet(Blocks(R, sz))
  PROVE  /\ IsFiniteSet(Blocks(R \ {k}, sz))
         /\ Usage(R, sz) = Usage(R \ {k}, sz) + sz[k]
<1>1. Blocks(R \ {k}, sz) \in SUBSET Blocks(R, sz)  BY DEF Blocks
<1>2. IsFiniteSet(Blocks(R \ {k}, sz))  BY <1>1, FS_Subset
<1>3. (R \ {k}) \union {k} = R /\ k \notin R \ {k}  OBVIOUS
<1>4. Usage((R \ {k}) \union {k}, sz) = Usage(R \ {k}, sz) + sz[k]
  BY <1>2, <1>3, UsageAdd
<1>5. QED  BY <1>2, <1>3, <1>4

\* An entry whose size changes moves the bytes of the table by the difference.
LEMMA UsageResize ==
  ASSUME NEW R, NEW sz, NEW tz, NEW k, k \in R, sz[k] \in Nat, tz[k] \in Nat,
         Blocks(R \ {k}, sz) = Blocks(R \ {k}, tz), IsFiniteSet(Blocks(R, sz))
  PROVE  /\ IsFiniteSet(Blocks(R, tz))
         /\ Usage(R, tz) = Usage(R, sz) - sz[k] + tz[k]
<1> DEFINE S == R \ {k}
<1>1. S \union {k} = R /\ k \notin S  OBVIOUS
<1>2. IsFiniteSet(Blocks(S, sz)) /\ Usage(R, sz) = Usage(S, sz) + sz[k]
  BY UsageRemove
<1>3. Blocks(S, sz) = Blocks(S, tz) /\ Usage(S, sz) = Usage(S, tz)
  BY DEF Usage
<1> HIDE DEF S
<1>4. /\ IsFiniteSet(Blocks(S \union {k}, tz))
      /\ Usage(S \union {k}, tz) = Usage(S, tz) + tz[k]
  BY <1>1, <1>2, <1>3, UsageAdd
<1>5. Usage(S, tz) \in Nat  BY <1>2, <1>3, UsageType
<1>6. IsFiniteSet(Blocks(R, tz)) /\ Usage(R, tz) = Usage(S, tz) + tz[k]
  BY <1>1, <1>4
<1>7. Usage(R, tz) = Usage(R, sz) - sz[k] + tz[k]
  BY <1>2, <1>3, <1>5, <1>6
<1>8. QED  BY <1>6, <1>7
=============================================================================
