--------------------------- MODULE MCRedisAdapter ---------------------------
(* The two halves of redis_adapter.h, one at a time: a client at work, or a  *)
(* record under conversion.                                                  *)
EXTENDS RedisClient, Serializer

MCInit == Init /\ (NoConversion \/ (~upper_retry /\ max_tries = 1 /\ ConversionInit))
MCNext == \/ shape = <<>> /\ Next /\ UNCHANGED conversion
          \/ shape # <<>> /\ ConversionNext /\ UNCHANGED vars
MCSpec == MCInit /\ [][MCNext]_<<vars, conversion>>
=============================================================================
