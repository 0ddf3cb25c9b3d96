----------------------------- MODULE Serializer -----------------------------
(***************************************************************************)
(* serialize() and deserialize() of RedisAdapter (redis_adapter.h): values *)
(* as one string of bytes whose order is the order of the values, so that  *)
(* Redis can sort by it.                                                   *)
(*                                                                         *)
(* A byte is a digit below Base, a 32-bit number has Short of them and a   *)
(* 64-bit number Long; the program has Base = 256, Short = 4, Long = 8.    *)
(* The shifts and masks of the code are digits of a number, and            *)
(* exclusive-or with the top bit is addition of half the range.            *)
(***************************************************************************)
EXTENDS Integers, Sequences

CONSTANTS Base, Short, Long

ASSUME SerializerAssumption == /\ Base \in Nat \ {0} /\ Base % 2 = 0
                               /\ Short \in Nat \ {0} /\ Long \in Nat \ {0}

Types == {"int", "int64", "uint64", "string"}
Width(type) == IF type \in {"int", "string"} THEN Short ELSE Long
Byte == 0 .. Base - 1

Power[n \in Nat] == IF n = 0 THEN 1 ELSE Base * Power[n - 1]

Digits(n, w) == [i \in 1 .. w |-> (n \div Power[w - i]) % Base]
Number(digits) ==
  LET u[i \in 0 .. Len(digits)] == IF i = 0 THEN 0 ELSE u[i - 1] * Base + digits[i]
  IN u[Len(digits)]

Half(w) == Power[w] \div 2

\* Mutant: negative numbers in two's complement, as they are.
FlippedNot(u, w) == u % Power[w]

\* u ^ 0x80...0
Flipped(u, w) == (u + Half(w)) % Power[w]
AsSigned(u, w) == IF u < Half(w) THEN u ELSE u - Power[w]

\* serialize_impl: a string has its length, cut to 32 bits, in front.
SerializeImpl(type, v) ==
  CASE type \in {"int", "int64"} -> Digits(Flipped(v, Width(type)), Width(type))
    [] type = "uint64" -> Digits(v, Long)
    [] type = "string" -> Digits(Len(v), Short) \o v

Serialize(types, vals) ==
  LET s[i \in 0 .. Len(types)] == IF i = 0 THEN <<>> ELSE s[i - 1] \o SerializeImpl(types[i], vals[i])
  IN s[Len(types)]

\* Mutant: the offset is not moved over the text of a string.
LengthUncounted(type, u) == Width(type)

\* deserialize_impl: the bytes it goes over, and what it makes of them.
Length(type, u) == Width(type) + IF type = "string" THEN u ELSE 0
Value(type, u, text) == CASE type \in {"int", "int64"} -> AsSigned(Flipped(u, Width(type)), Width(type))
                          [] type = "uint64" -> u
                          [] type = "string" -> text

Refused == [ok |-> FALSE, offset |-> 0, vals |-> <<>>]
DeserializeImpl(str, so_far, type) ==
  LET from == so_far.offset
      u == Number(SubSeq(str, from + 1, from + Width(type)))
      to == from + Length(type, u)
  IN IF ~so_far.ok \/ from + Width(type) > Len(str) \/ to > Len(str) THEN Refused
     ELSE [ok |-> TRUE, offset |-> to,
           vals |-> Append(so_far.vals, Value(type, u, SubSeq(str, from + Width(type) + 1, to)))]

\* deserialize: every value, and nothing left over.
Deserialize(types, str) ==
  LET read[i \in 0 .. Len(types)] == IF i = 0 THEN [ok |-> TRUE, offset |-> 0, vals |-> <<>>]
                                     ELSE DeserializeImpl(str, read[i - 1], types[i])
      all == read[Len(types)]
  IN IF all.ok /\ all.offset = Len(str) THEN all ELSE Refused

-----------------------------------------------------------------------------
(* A program stores a record under its string, or is given some string.    *)

Texts == UNION {[1 .. n -> Byte] : n \in 0 .. Power[Short] - 1}
Values(type) == CASE type = "string" -> Texts
                  [] type = "uint64" -> 0 .. Power[Long] - 1
                  [] OTHER -> -Half(Width(type)) .. Half(Width(type)) - 1
Records(types) == IF Len(types) = 1 THEN {<<v>> : v \in Values(types[1])}
                  ELSE {<<v, w>> : v \in Values(types[1]), w \in Values(types[2])}

VARIABLES shape,  \* the types of the record's one or two fields
          record, \* the values stored, or <<>>
          str     \* the string

conversion == <<shape, record, str>>

NoConversion == shape = <<>> /\ record = <<>> /\ str = <<>>
ConversionInit == shape \in [1 .. 1 -> Types] \union [1 .. 2 -> Types] /\ record = <<>> /\ str = <<>>

Store(vals) == /\ str = <<>> /\ record' = vals /\ str' = Serialize(shape, vals)
               /\ UNCHANGED shape
Given(bytes) == /\ str = <<>> /\ str' = bytes /\ UNCHANGED <<shape, record>>
Forget == str # <<>> /\ record' = <<>> /\ str' = <<>> /\ UNCHANGED shape

ConversionNext == \/ \E vals \in Records(shape) : Store(vals)
                  \/ \E n \in 1 .. 2 * Long : \E bytes \in [1 .. n -> Byte] : Given(bytes)
                  \/ Forget

-----------------------------------------------------------------------------
(* Properties.                                                             *)

\* deserialize() returns what was stored, and accepts nothing that
\* serialize() would not have made of the values it returns: no prefix, no
\* extension, no other string (redis_adapter.h:93-102, 164-285).
DeserializeInverts ==
  LET read == Deserialize(shape, str) IN
  /\ record # <<>> => read.ok /\ read.vals = record
  /\ read.ok /\ str # <<>> => Serialize(shape, read.vals) = str

\* The bytes of numbers compare as the numbers do, field by field, over the
\* change of sign too; only strings must come last, as they are "not sorted"
\* (redis_adapter.h:166-199).
Before(s, t) == \E i \in DOMAIN s \intersect DOMAIN t :
                  s[i] < t[i] /\ \A j \in 1 .. i - 1 : s[j] = t[j]
OrderPreserved ==
  record # <<>> /\ (\A i \in DOMAIN shape : shape[i] # "string") =>
    \A other \in Records(shape) :
      Before(record, other) <=> Before(str, Serialize(shape, other))
=============================================================================
