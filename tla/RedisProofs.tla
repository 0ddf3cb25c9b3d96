---------------------------- MODULE RedisProofs ----------------------------
(***************************************************************************)
(* Proofs about the Redis code: the client, the subscriber, and the        *)
(* conversion of values.                                                   *)
(*                                                                         *)
(* The client (RedisClient): which answer a command returns, how often the *)
(* server executes it, and that the second attempt of command_impl hides   *)
(* all but failures of the network during the same call and contexts that  *)
(* no call repairs; with any number of tries, a single one included.       *)
(*                                                                         *)
(* The subscriber (SubManager), for any number of connections.             *)
(* What a step may rely on is known only while nobody disturbed the wait   *)
(* of uninit(): then `running' says that a thread is in connect(), an      *)
(* owner asleep has a loop to wait for, an owner woken has none, and a     *)
(* context is left dangling by a lost connection alone.                    *)
(*                                                                         *)
(* The conversion (Serializer), for records of any number of fields and    *)
(* every even base.  Its loops are recursive functions; that they exist,   *)
(* and what they compute, follows by induction, which is used here as: a   *)
(* set of numbers that has 0 and with each number the next has them all.   *)
(* The digits of a number are told by the quotients by the powers of the   *)
(* base (Leading), from which both directions and the order follow.        *)
(***************************************************************************)
EXTENDS MCRedisAdapter, SubManager, SequenceTheorems, WellFoundedInduction, TLAPS

-----------------------------------------------------------------------------
(* RedisClient.                                                            *)

ClientPlaces == {"idle", "connect", "reconnect", "send", "await", "failed", "raise"}
Trying == {"reconnect", "send", "await", "failed", "raise"}

ClientFlags == upper_retry \in BOOLEAN /\ connected \in BOOLEAN /\ troubled \in BOOLEAN
ClientStates == ctx \in {"null", "ok", "io", "eof", "other"} /\ pc \in ClientPlaces
ClientNumbers == /\ max_tries \in Nat \ {0} /\ round \in {0, 1, 2} /\ try \in 0 .. max_tries
                 /\ call \in Nat /\ answer \in Nat /\ executed \in Nat
                 /\ garbled \in Nat /\ troubles \in Nat
ClientTypes == ClientFlags /\ ClientStates /\ ClientNumbers

-----------------------------------------------------------------------------
(* The socket.  A context without an error has no answer on its way, or is *)
(* being read and has exactly that of the present command: a late answer   *)
(* stays behind in a socket that is given up before it is used again.      *)

Socket ==
  /\ pc = "await" => ctx = "ok"
  /\ ctx = "ok" => /\ pc \in {"idle", "send", "await"}
                   /\ wire = IF pc = "await" THEN <<call>> ELSE <<>>
  /\ pc = "await" => call >= 1 /\ executed >= 1
  /\ pc = "send" => call >= 1
  /\ answer # 0 => answer = call /\ executed >= 1
  /\ round # 0 => call >= 1

-----------------------------------------------------------------------------
(* The loops.  Each try of each attempt sends once.                        *)

TriesBefore == IF round = 2 THEN max_tries ELSE 0

Budget ==
  /\ round = 0 <=> pc = "idle" \/ (pc = "connect" /\ round # 2)
  /\ pc \in Trying => try >= 1
  /\ pc = "reconnect" => try < max_tries
  /\ pc = "send" => executed <= TriesBefore + (try - 1)
  /\ pc \in Trying => executed <= TriesBefore + try
  /\ pc = "connect" /\ round = 2 => executed <= max_tries
  /\ executed <= 2 * max_tries

-----------------------------------------------------------------------------
(* A call during which the network holds, on a context that is not stuck.  *)
(* Its first attempt fails only on a context that is not connected, left    *)
(* by a failed reconnect() of an earlier call, or makes it so; the second   *)
(* attempt then begins with a new socket and finds no error.                *)

HonestFlag == /\ pc \in {"connect", "reconnect"} => ~connected
              /\ ctx = "null" => ~connected
              /\ ctx = "ok" => connected
              /\ pc = "failed" => ctx \in Errors

Calm == ~troubled /\ ~Stuck

CalmCall ==
  /\ Calm /\ round = 1 =>
       /\ pc \in {"send", "failed"} /\ ctx \in Lost => try = 1
       /\ pc = "raise" => ~connected
  /\ Calm /\ round = 2 => pc = "connect" \/ (pc \in {"send", "await"} /\ ctx = "ok")

RedisInv == ClientTypes /\ Socket /\ Budget /\ HonestFlag /\ CalmCall

\* The loops go round once at least.
LEMMA Tries == ASSUME max_tries \in Nat \ {0} PROVE 0 \in 0 .. max_tries /\ 1 \in 0 .. max_tries
OBVIOUS

LEMMA InitInv == Init => RedisInv
<1> SUFFICES ASSUME Init PROVE RedisInv
  OBVIOUS
<1> USE DEF Init
<1>1. ClientFlags  BY DEF ClientFlags
<1>2. ClientStates  BY DEF ClientStates, ClientPlaces
<1>3. ClientNumbers  BY RedisAssumption DEF ClientNumbers
<1>4. Socket  BY DEF Socket
<1>5. Budget  BY <1>3 DEF ClientNumbers, Budget, Trying, TriesBefore
<1>6. HonestFlag /\ CalmCall  BY DEF HonestFlag, Calm, CalmCall, Stuck
<1>7. QED  BY <1>1, <1>2, <1>3, <1>4, <1>5, <1>6 DEF RedisInv, ClientTypes

\* The queue of one answer that the client works with.
LEMMA OneAnswer == ASSUME NEW c PROVE /\ Append(<<>>, c) = <<c>>
                                      /\ Head(<<c>>) = c /\ Tail(<<c>>) = <<>>
OBVIOUS

-----------------------------------------------------------------------------
(* Each part is kept by every step.                                        *)

LEMMA KeepFlags == RedisInv /\ [Next]_vars => ClientFlags'
<1> SUFFICES ASSUME ClientFlags, [Next]_vars PROVE ClientFlags'
  BY DEF RedisInv, ClientTypes
<1> USE DEF ClientFlags, config
<1>1. CASE Connect \/ Disconnect \/ Connected \/ Reconnected
  BY <1>1 DEF Connect, Disconnect, Connected, Reconnected, NewSocket, link, network
<1>2. CASE NotConnected \/ SendLost \/ AnswerLost
  BY <1>2 DEF NotConnected, SendLost, AnswerLost, Trouble
<1>3. CASE Command \/ SendRefused \/ Send \/ Answered \/ AnswerGarbled
  BY <1>3 DEF Command, SendRefused, Send, Answered, AnswerGarbled, link, network
<1>4. CASE Retry \/ Raise  BY <1>4 DEF Retry, Raise, link, network
<1>5. CASE UNCHANGED vars  BY <1>5 DEF vars
<1>6. QED  BY <1>1, <1>2, <1>3, <1>4, <1>5 DEF Next

LEMMA KeepStates == RedisInv /\ [Next]_vars => ClientStates'
<1> SUFFICES ASSUME ClientStates, [Next]_vars PROVE ClientStates'
  BY DEF RedisInv, ClientTypes
<1> USE DEF ClientStates, ClientPlaces, Lost
<1>1. CASE Connect \/ Disconnect \/ Connected \/ Reconnected
  BY <1>1 DEF Connect, Disconnect, Connected, Reconnected, NewSocket, link
<1>2. CASE NotConnected  BY <1>2 DEF NotConnected, Throw
<1>3. CASE Command \/ SendRefused \/ Send \/ SendLost
  BY <1>3 DEF Command, SendRefused, Send, SendLost, link
<1>4. CASE Answered \/ AnswerLost \/ AnswerGarbled  BY <1>4 DEF Answered, AnswerLost, AnswerGarbled
<1>5. CASE Retry \/ Raise  BY <1>5 DEF Retry, Raise, Throw, link
<1>6. CASE UNCHANGED vars  BY <1>6 DEF vars
<1>7. QED  BY <1>1, <1>2, <1>3, <1>4, <1>5, <1>6 DEF Next

LEMMA KeepNumbers == RedisInv /\ [Next]_vars => ClientNumbers'
<1> SUFFICES ASSUME RedisInv, [Next]_vars PROVE ClientNumbers'
  OBVIOUS
<1> USE Tries DEF ClientNumbers, config
<1>1. ClientNumbers /\ Socket /\ Budget  BY DEF RedisInv, ClientTypes
<1>2. CASE Connect \/ Disconnect  BY <1>1, <1>2 DEF Connect, Disconnect, loop, outcome, network
<1>3. CASE Connected  BY <1>1, <1>3 DEF Connected, outcome, network
<1>4. CASE Reconnected
  <2>1. try + 1 \in 0 .. max_tries  BY <1>1, <1>4 DEF Reconnected, Budget
  <2>2. QED  BY <1>1, <1>4, <2>1 DEF Reconnected, outcome, network
<1>5. CASE NotConnected  BY <1>1, <1>5 DEF NotConnected, Trouble, Throw, outcome
<1>6. CASE Command  BY <1>1, <1>6 DEF Command
<1>7. CASE SendRefused \/ Send \/ SendLost
  <2>1. SendLost => troubles' \in Nat /\ UNCHANGED <<config, loop, outcome, garbled>>
    BY <1>1 DEF SendLost, Trouble
  <2>2. SendRefused => ClientNumbers'  BY <1>1 DEF SendRefused, loop, outcome, network
  <2>3. Send => ClientNumbers'  BY <1>1 DEF Send, loop, network
  <2>4. QED  BY <1>1, <1>7, <2>1, <2>2, <2>3 DEF loop, outcome
<1>8. CASE Answered
  <2>1. Head(wire) = call  BY <1>1, <1>8, OneAnswer DEF Answered, Socket
  <2>2. QED  BY <1>1, <1>8, <2>1 DEF Answered, network
<1>9. CASE AnswerLost \/ AnswerGarbled
  <2>1. AnswerLost => troubles' \in Nat /\ UNCHANGED garbled  BY <1>1 DEF AnswerLost, Trouble
  <2>2. AnswerGarbled => garbled' \in Nat /\ UNCHANGED troubles  BY <1>1 DEF AnswerGarbled
  <2>3. UNCHANGED <<config, loop, outcome>>  BY <1>9 DEF AnswerLost, AnswerGarbled
  <2>4. QED  BY <1>1, <1>9, <2>1, <2>2, <2>3 DEF loop, outcome
<1>10. CASE Retry
  <2>1. ~OutOfTries => try + 1 \in 0 .. max_tries  BY <1>1 DEF OutOfTries
  <2>2. QED  BY <1>1, <1>10, <2>1 DEF Retry, outcome, network
<1>11. CASE Raise  BY <1>1, <1>11 DEF Raise, Throw, outcome, network
<1>12. CASE UNCHANGED vars  BY <1>1, <1>12 DEF vars
<1>13. QED
  BY <1>2, <1>3, <1>4, <1>5, <1>6, <1>7, <1>8, <1>9, <1>10, <1>11, <1>12 DEF Next

LEMMA KeepSocket == RedisInv /\ [Next]_vars => Socket'
<1> SUFFICES ASSUME RedisInv, [Next]_vars PROVE Socket'
  OBVIOUS
<1> USE DEF Socket, Errors, Lost, config
<1>1. ClientTypes /\ Socket /\ Budget  BY DEF RedisInv
<1>2. CASE Connect \/ Disconnect  BY <1>1, <1>2 DEF Connect, Disconnect, link, loop, outcome, network
<1>3. CASE Connected  BY <1>1, <1>3 DEF Connected, NewSocket, outcome, network
<1>4. CASE Reconnected
  <2>1. call >= 1  BY <1>1, <1>4 DEF Reconnected, Budget
  <2>2. QED  BY <1>1, <1>4, <2>1 DEF Reconnected, NewSocket, outcome, network
<1>5. CASE NotConnected  BY <1>1, <1>5 DEF NotConnected, Trouble, Throw, outcome
<1>6. CASE Command  BY <1>1, <1>6 DEF Command, link, ClientTypes, ClientNumbers
<1>7. CASE SendRefused \/ SendLost
  BY <1>1, <1>7 DEF SendRefused, SendLost, Trouble, link, loop, outcome, network
<1>8. CASE Send
  <2>1. wire' = <<call>>  BY <1>1, <1>8, OneAnswer DEF Send
  <2>2. QED  BY <1>1, <1>8, <2>1 DEF Send, ClientTypes, ClientNumbers, loop, network
<1>9. CASE Answered
  <2>1. answer' = call /\ wire' = <<>>  BY <1>1, <1>9, OneAnswer DEF Answered
  <2>2. QED  BY <1>1, <1>9, <2>1 DEF Answered, network
<1>10. CASE AnswerLost \/ AnswerGarbled
  BY <1>1, <1>10 DEF AnswerLost, AnswerGarbled, Trouble, loop, outcome
<1>11. CASE Retry  BY <1>1, <1>11 DEF Retry, Budget, outcome, network
<1>12. CASE Raise  BY <1>1, <1>12 DEF Raise, Budget, Throw, link, outcome, network
<1>13. CASE UNCHANGED vars  BY <1>1, <1>13 DEF vars, link, loop, outcome, network
<1>14. QED
  BY <1>2, <1>3, <1>4, <1>5, <1>6, <1>7, <1>8, <1>9, <1>10, <1>11, <1>12, <1>13 DEF Next

LEMMA KeepBudget == RedisInv /\ [Next]_vars => Budget'
<1> SUFFICES ASSUME RedisInv, [Next]_vars PROVE Budget'
  OBVIOUS
<1> USE DEF Budget, TriesBefore, Trying, config
<1>1. ClientTypes /\ Budget  BY DEF RedisInv
<1>2. max_tries \in Nat \ {0} /\ try \in Nat /\ try <= max_tries /\ executed \in Nat /\ round \in {0, 1, 2}
  BY <1>1 DEF ClientTypes, ClientNumbers
<1>3. CASE Connect \/ Disconnect
  BY <1>1, <1>3 DEF Connect, Disconnect, link, loop, outcome, network
<1>4. CASE Connected  BY <1>1, <1>2, <1>4 DEF Connected, outcome
<1>5. CASE Reconnected  BY <1>1, <1>2, <1>5 DEF Reconnected, outcome
<1>6. CASE NotConnected  BY <1>1, <1>2, <1>6 DEF NotConnected, Throw, outcome
<1>7. CASE Command  BY <1>1, <1>2, <1>7 DEF Command
<1>8. CASE SendRefused \/ Send \/ SendLost
  BY <1>1, <1>2, <1>8 DEF SendRefused, Send, SendLost, loop, outcome
<1>9. CASE Answered \/ AnswerLost \/ AnswerGarbled
  BY <1>1, <1>2, <1>9 DEF Answered, AnswerLost, AnswerGarbled, loop, outcome
<1>10. CASE Retry  BY <1>1, <1>2, <1>10 DEF Retry, OutOfTries, outcome
<1>11. CASE Raise  BY <1>1, <1>2, <1>11 DEF Raise, Throw, link, outcome
<1>12. CASE UNCHANGED vars  BY <1>1, <1>12 DEF vars
<1>13. QED
  BY <1>3, <1>4, <1>5, <1>6, <1>7, <1>8, <1>9, <1>10, <1>11, <1>12 DEF Next

LEMMA KeepHonestFlag == RedisInv /\ [Next]_vars => HonestFlag'
<1> SUFFICES ASSUME RedisInv, [Next]_vars PROVE HonestFlag'
  OBVIOUS
<1> USE DEF HonestFlag, Errors, Lost
<1>1. ClientTypes /\ HonestFlag  BY DEF RedisInv
<1>2. CASE Connect \/ Disconnect  BY <1>1, <1>2 DEF Connect, Disconnect, link
<1>3. CASE Connected \/ Reconnected  BY <1>1, <1>3 DEF Connected, Reconnected, NewSocket
<1>4. CASE NotConnected  BY <1>1, <1>4 DEF NotConnected, Throw
<1>5. CASE Command \/ SendRefused \/ Send \/ SendLost
  BY <1>1, <1>5 DEF Command, SendRefused, Send, SendLost, link
<1>6. CASE Answered \/ AnswerLost \/ AnswerGarbled
  BY <1>1, <1>6 DEF Answered, AnswerLost, AnswerGarbled
<1>7. CASE Retry  BY <1>1, <1>7 DEF Retry
<1>8. CASE Raise  BY <1>1, <1>8 DEF Raise, Throw, link
<1>9. CASE UNCHANGED vars  BY <1>1, <1>9 DEF vars
<1>10. QED  BY <1>2, <1>3, <1>4, <1>5, <1>6, <1>7, <1>8, <1>9 DEF Next

\* How a context gets stuck, and that no step within a call gets it out.
LEMMA StuckSteps == RedisInv /\ [Next]_vars => [StuckByError /\ StuckForGood]_vars
<1> SUFFICES ASSUME RedisInv, Next PROVE StuckByError /\ StuckForGood
  OBVIOUS
<1> USE DEF StuckByError, StuckForGood, Stuck, Broken, Errors, Lost, config
<1>1. ClientTypes /\ Socket /\ Budget /\ HonestFlag  BY DEF RedisInv
<1>2. CASE Connect \/ Disconnect  BY <1>1, <1>2 DEF Connect, Disconnect, link
<1>3. CASE Connected \/ Reconnected
  BY <1>1, <1>3 DEF Connected, Reconnected, NewSocket, HonestFlag
<1>4. CASE NotConnected  BY <1>1, <1>4 DEF NotConnected, HonestFlag
<1>5. CASE Command \/ SendRefused \/ Send  BY <1>1, <1>5 DEF Command, SendRefused, Send, link
<1>6. CASE SendLost \/ AnswerLost
  <2>1. troubles' # troubles  BY <1>1, <1>6 DEF SendLost, AnswerLost, Trouble, ClientTypes, ClientNumbers
  <2>2. ctx = "ok"  BY <1>1, <1>6 DEF SendLost, AnswerLost, Socket
  <2>3. QED  BY <1>6, <2>1, <2>2 DEF SendLost, AnswerLost
<1>7. CASE Answered \/ AnswerGarbled
  <2>1. ctx = "ok"  BY <1>1, <1>7 DEF Answered, AnswerGarbled, Socket
  <2>2. AnswerGarbled => garbled' # garbled  BY <1>1 DEF AnswerGarbled, ClientTypes, ClientNumbers
  <2>3. QED  BY <1>7, <2>1, <2>2 DEF Answered, AnswerGarbled
<1>8. CASE Retry
  <2>1. max_tries = 1 => OutOfTries
    BY <1>1, <1>8 DEF Retry, OutOfTries, Budget, Trying, ClientTypes, ClientNumbers
  <2>2. QED  BY <1>1, <1>8, <2>1 DEF Retry, Repairs
<1>9. CASE Raise  BY <1>1, <1>9 DEF Raise, link
<1>10. QED  BY <1>2, <1>3, <1>4, <1>5, <1>6, <1>7, <1>8, <1>9 DEF Next

LEMMA KeepCalm == RedisInv /\ [Next]_vars => CalmCall'
<1> SUFFICES ASSUME RedisInv, [Next]_vars PROVE CalmCall'
  OBVIOUS
<1> USE DEF CalmCall, Calm, Errors, Lost, config
<1>1. ClientTypes /\ Socket /\ Budget /\ HonestFlag /\ CalmCall  BY DEF RedisInv
<1>2. Stuck => Stuck' \/ pc = "idle"  BY StuckSteps DEF StuckForGood, Stuck, vars, config
<1>3. CASE Connect \/ Disconnect
  BY <1>1, <1>3 DEF Connect, Disconnect, Budget, link, loop, network
<1>4. CASE Connected \/ Reconnected
  BY <1>1, <1>2, <1>4 DEF Connected, Reconnected, NewSocket, Budget, network
<1>5. CASE NotConnected \/ SendLost \/ AnswerLost
  BY <1>5 DEF NotConnected, SendLost, AnswerLost, Trouble
<1>6. CASE Command  BY <1>1, <1>6 DEF Command
<1>7. CASE SendRefused  BY <1>1, <1>2, <1>7 DEF SendRefused, link, loop, network
<1>8. CASE Send  BY <1>1, <1>2, <1>8 DEF Send, loop, network
<1>9. CASE Answered  BY <1>9 DEF Answered
<1>10. CASE AnswerGarbled
  <2>1. ctx = "ok" /\ connected  BY <1>1, <1>10 DEF AnswerGarbled, Socket, HonestFlag
  <2>2. Stuck'  BY <1>10, <2>1 DEF AnswerGarbled, Stuck
  <2>3. QED  BY <2>2
<1>11. CASE Retry
  <2>1. ctx \in Errors /\ try \in Nat /\ max_tries \in Nat \ {0}
    BY <1>1, <1>11 DEF Retry, HonestFlag, ClientTypes, ClientNumbers
  <2>2. Calm /\ round = 1 /\ OutOfTries => ~connected
    BY <1>1, <1>11, <2>1 DEF Retry, OutOfTries, Stuck
  <2>3. QED  BY <1>1, <1>2, <1>11, <2>1, <2>2 DEF Retry, Repairs, network
<1>12. CASE Raise
  BY <1>1, <1>2, <1>12 DEF Raise, Throw, network
<1>13. CASE UNCHANGED vars  BY <1>1, <1>13 DEF vars, Stuck
<1>14. QED
  BY <1>3, <1>4, <1>5, <1>6, <1>7, <1>8, <1>9, <1>10, <1>11, <1>12, <1>13 DEF Next

-----------------------------------------------------------------------------
(* The results.                                                            *)

\* In every state of the client the socket in use holds no answer but that
\* of the present command, and the attempts are within their budget
\* (redis_base.cpp, redis_adapter.h).
THEOREM RedisInvariant == Spec => []RedisInv
<1>1. RedisInv /\ [Next]_vars => RedisInv'
  BY KeepFlags, KeepStates, KeepNumbers, KeepSocket, KeepBudget, KeepHonestFlag, KeepCalm
  DEF RedisInv, ClientTypes
<1>2. QED  BY InitInv, <1>1, PTL DEF Spec

\* However many commands time out, a command is given the answer to itself,
\* nothing is left to be read between two, and no command is executed more
\* often than the two nested loops allow.
THEOREM AnswersAreTheirOwn == Spec => []AnswersMatch
<1>1. RedisInv => AnswersMatch
  BY DEF RedisInv, Socket, Budget, AnswersMatch, AnswerIsFresh, NothingIsLeft, RetriesAreBounded
<1>2. QED  BY <1>1, RedisInvariant, PTL

\* command_impl with its second attempt throws only if the network failed
\* during that very call or the context is stuck; a garbled answer, or a
\* failure met by a single try, is what gets it stuck, and no call gets it out.
THEOREM SecondAttemptRecovers == Spec => RecoversByItself
<1>1. RedisInv /\ [Next]_vars => [ThrowsOnlyInTrouble]_vars
  <2> SUFFICES ASSUME RedisInv, Next, Throws, upper_retry, ~troubled'
               PROVE  Stuck'
    BY DEF ThrowsOnlyInTrouble
  <2>1. ClientTypes /\ Socket /\ CalmCall  BY DEF RedisInv
  <2>2. CASE NotConnected  BY <2>2 DEF NotConnected, Trouble
  <2>3. CASE Answered
    <3>1. answer' = call /\ call >= 1  BY <2>1, <2>3, OneAnswer DEF Answered, Socket
    <3>2. QED  BY <3>1 DEF Throws
  <2>4. CASE Raise
    <3>1. round = 2 /\ pc = "raise" /\ troubled' = troubled /\ Stuck' = Stuck
      BY <2>1, <2>4
      DEF Throws, Raise, ClientTypes, ClientFlags, ClientStates, ClientNumbers, network, link,
          config, Stuck
    <3>2. QED  BY <2>1, <3>1 DEF CalmCall, Calm
  <2>5. QED
    BY <2>2, <2>3, <2>4
    DEF Throws, Next, Connect, Disconnect, Connected, Reconnected, Command, SendRefused, Send,
        SendLost, AnswerLost, AnswerGarbled, Retry
<1>2. RedisInv /\ [Next]_vars => [ThrowsOnlyInTrouble /\ StuckByError /\ StuckForGood]_vars
  BY <1>1, StuckSteps
<1>3. QED  BY <1>2, RedisInvariant, PTL DEF Spec, RecoversByItself

-----------------------------------------------------------------------------
(* SubManager.                                                             *)

(* The parts of TypeOK. *)

Counts == inits \in 0 .. MaxInits /\ connects \in 0 .. MaxConnects /\ spurious \in 0 .. MaxSpurious
Flags == redis \in BOOLEAN /\ running \in BOOLEAN /\ undefined \in BOOLEAN /\ reentered \in BOOLEAN
Places == /\ redis_ctx \in {"null", "connecting", "connected", "freed"} /\ status \in {-1, 0, 1}
          /\ lpc \in {"out", "unlocked", "dispatch", "relock"} /\ opc \in {"idle", "asleep", "woken"}
          /\ fate \in {"none", "up", "failed", "refused"} /\ earlier \in {"none", "up", "failed"}
          /\ result \in {"none", "returned", "threw"}
\* A connection is up only inside the loop.
StatusTells == ~undefined => /\ status = 1 <=> redis_ctx = "connected"
                             /\ redis_ctx = "connected" => lpc = "dispatch"

\* The flag, the two threads and the RedisSub agree.
ThreadsAgree == Undisturbed /\ ~undefined =>
  /\ running <=> lpc # "out"
  /\ opc = "asleep" => lpc # "out"
  /\ opc = "woken" => lpc = "out"
  /\ redis \/ (lpc = "out" /\ opc = "idle")

\* What is known of the connection outside uninit(), and of its failure: the
\* status is -1 if and only if the callbacks last reported one.
FailureKnown == Undisturbed /\ ~undefined =>
  /\ opc = "idle" /\ redis_ctx = "freed" => fate = "failed"
  /\ redis => (status = -1 <=> Reported = "failed")
  /\ redis_ctx = "connected" => fate = "up"
  /\ lpc # "out" => fate # "refused"

Typed == Counts /\ Flags /\ Places /\ StatusTells
Agreed == ThreadsAgree /\ FailureKnown /\ SafeUntilLost /\ FailureIsReported
SubInv == Typed /\ Agreed

-----------------------------------------------------------------------------
LEMMA TypedIsTypeOK == Typed => TypeOK
BY DEF Typed, Counts, Flags, Places, StatusTells, TypeOK

LEMMA InitSub == SubInit => SubInv
<1>1. SubInit => Counts  BY SubAssumption DEF SubInit, Counts
<1>2. SubInit => Flags  BY DEF SubInit, Flags
<1>3. SubInit => Places  BY DEF SubInit, Places
<1>4. SubInit => StatusTells  BY DEF SubInit, StatusTells
<1>5. SubInit => Agreed
  BY DEF SubInit, Agreed, Undisturbed, ThreadsAgree, FailureKnown, SafeUntilLost, FailureIsReported, Reported
<1>6. QED  BY <1>1, <1>2, <1>3, <1>4, <1>5 DEF SubInv, Typed

\* The counters.
LEMMA StepCounts == Counts /\ SubNext => Counts'
<1> SUFFICES ASSUME Counts, SubNext PROVE Counts'  OBVIOUS
<1> USE SubAssumption DEF Counts, bounds
<1>1. OwnerCalls => Counts'  BY DEF OwnerCalls, ManagerInit, Subscribe, UninitIdle, Uninit
<1>2. UninitEnd \/ SpuriousWakeUp => Counts'  BY DEF UninitEnd, SpuriousWakeUp
<1>3. ThreadCalls => Counts'
  BY DEF ThreadCalls, ConnectRefused, ConnectUnattached, ConnectAttached, Enter
<1>4. LoopRuns \/ LoopHears => Counts'
  BY DEF LoopRuns, LoopHears, Run, LoopEnds, Epilogue, SubConnected, ConnectionEnds, Looping
<1>5. QED  BY <1>1, <1>2, <1>3, <1>4 DEF SubNext, OwnerWakes

\* All the rest, action by action.
Kept == Flags /\ Places /\ StatusTells /\ Agreed

LEMMA OwnerKeeps == SubInv /\ OwnerCalls => Kept'
<1> SUFFICES ASSUME SubInv, OwnerCalls PROVE Kept'  OBVIOUS
<1>1. ~undefined  BY DEF OwnerCalls
<1> USE <1>1 DEF SubInv, Typed, Agreed, Kept, bounds, history
<1>2. Flags'
  <2>1. ManagerInit \/ UninitIdle \/ Uninit => Flags'
    BY DEF Flags, ManagerInit, UninitIdle, Uninit, Free, SubDisconnect
  <2>2. Subscribe => Flags'  BY DEF Subscribe, Flags
  <2>3. QED  BY <2>1, <2>2 DEF OwnerCalls
<1>3. Places'
  BY DEF OwnerCalls, Places, ManagerInit, Subscribe, UninitIdle, Uninit, Free, SubDisconnect
<1>4. StatusTells'
  BY DEF OwnerCalls, Flags, Places, StatusTells, ManagerInit, Subscribe, UninitIdle, Uninit, Free, SubDisconnect
<1> USE DEF Flags, Places, Undisturbed, ThreadsAgree, FailureKnown, SafeUntilLost, FailureIsReported,
          Reported, BlamedForEarlier
<1>5. ManagerInit => Agreed'  BY DEF ManagerInit
<1>6. Subscribe => Agreed'  BY DEF Subscribe
<1>7. UninitIdle => Agreed'  BY DEF UninitIdle, Free
<1>8. Uninit => Agreed'  BY DEF Uninit, SubDisconnect
<1>9. QED  BY <1>2, <1>3, <1>4, <1>5, <1>6, <1>7, <1>8 DEF OwnerCalls

LEMMA WaitKeeps == SubInv /\ ~undefined /\ (UninitEnd \/ SpuriousWakeUp) => Kept'
<1> SUFFICES ASSUME SubInv, ~undefined, UninitEnd \/ SpuriousWakeUp PROVE Kept'  OBVIOUS
<1> USE DEF SubInv, Typed, Agreed, Kept, bounds, history
<1>1. Flags'  BY DEF Flags, UninitEnd, SpuriousWakeUp, Free
<1>2. Places'  BY DEF Places, UninitEnd, SpuriousWakeUp, Free
<1>3. StatusTells'  BY DEF Places, StatusTells, UninitEnd, SpuriousWakeUp, Free
<1> USE DEF Flags, Places, Undisturbed, ThreadsAgree, FailureKnown, SafeUntilLost, FailureIsReported,
          Reported, BlamedForEarlier
<1>4. UninitEnd => Agreed'  BY DEF UninitEnd, Free
<1>5. SpuriousWakeUp => Agreed'
  <2>1. SpuriousWakeUp => spurious' # 0  BY DEF SpuriousWakeUp, Counts
  <2>2. QED  BY <2>1 DEF SpuriousWakeUp
<1>6. QED  BY <1>1, <1>2, <1>3, <1>4, <1>5

LEMMA ThreadKeeps == SubInv /\ ThreadCalls => Kept'
<1> SUFFICES ASSUME SubInv, ThreadCalls PROVE Kept'  OBVIOUS
<1>1. ~undefined  BY DEF ThreadCalls
<1>2. lpc = "out" /\ redis /\ earlier' = Reported /\ UNCHANGED <<redis, status, opc, undefined, spurious>>
  BY DEF ThreadCalls, ConnectRefused, ConnectUnattached, ConnectAttached, Enter
<1>3. reentered' \in BOOLEAN /\ (~reentered' => ~reentered /\ opc = "idle")
  BY DEF ThreadCalls, ConnectRefused, ConnectUnattached, ConnectAttached, Enter, SubInv, Typed, Flags
<1>4. \/ /\ redis_ctx' = "null" /\ running' = FALSE /\ fate' = "refused" /\ result' = "threw" /\ lpc' = "out"
      \/ /\ redis_ctx' \in {"null", "connecting"} /\ running' = TRUE /\ lpc' = "unlocked"
         /\ fate' = "none" /\ result' = result
  BY <1>2 DEF ThreadCalls, ConnectRefused, ConnectUnattached, ConnectAttached
<1> USE <1>1, <1>2, <1>3, <1>4 DEF SubInv, Typed, Agreed, Kept
<1>5. Flags'
  <2>1. running' \in BOOLEAN  OBVIOUS
  <2>2. QED  BY <2>1 DEF Flags
<1>6. Places'  BY DEF Places, Reported
<1>7. StatusTells'
  <2>1. status # 1  BY DEF StatusTells
  <2>2. QED  BY <2>1 DEF StatusTells
<1> USE DEF Flags, Places, Undisturbed, ThreadsAgree, FailureKnown, SafeUntilLost, FailureIsReported,
          Reported, BlamedForEarlier
<1>8. ThreadsAgree'  OBVIOUS
<1>9. FailureKnown'  OBVIOUS
<1>10. SafeUntilLost' /\ FailureIsReported'  OBVIOUS
<1>11. QED  BY <1>5, <1>6, <1>7, <1>8, <1>9, <1>10

LEMMA LoopKeeps == SubInv /\ (LoopRuns \/ LoopHears) => Kept'
<1> SUFFICES ASSUME SubInv, LoopRuns \/ LoopHears PROVE Kept'  OBVIOUS
<1>1. ~undefined  BY DEF LoopRuns, LoopHears
<1> USE <1>1 DEF SubInv, Typed, Agreed, Kept, LoopRuns, LoopHears, Run, LoopEnds, Epilogue,
                 NotifyOne, SubConnected, ConnectionEnds, Failure, LoopGoes, Looping, Live,
                 bounds, history
<1>2. Flags'  BY DEF Flags
<1>3. Places'  BY DEF Places
<1>4. StatusTells'  BY DEF Flags, Places, StatusTells
<1> USE DEF Flags, Places, Undisturbed, ThreadsAgree, FailureKnown, SafeUntilLost, FailureIsReported,
          Reported, BlamedForEarlier
<1>5. Run => Agreed'  OBVIOUS
<1>6. LoopEnds => Agreed'  OBVIOUS
<1>7. Epilogue => Agreed'  OBVIOUS
<1>8. SubConnected => Agreed'  OBVIOUS
<1>9. ConnectionEnds => Agreed'  OBVIOUS
<1>10. QED  BY <1>2, <1>3, <1>4, <1>5, <1>6, <1>7, <1>8, <1>9

LEMMA NextSub == SubInv /\ [SubNext]_subVars => SubInv'
<1>1. SubInv /\ UNCHANGED subVars => SubInv'
  BY DEF SubInv, Typed, Agreed, Counts, Flags, Places, StatusTells, Undisturbed, ThreadsAgree,
         FailureKnown, SafeUntilLost, FailureIsReported,
          Reported, BlamedForEarlier, subVars, bounds, history
<1>2. SubInv /\ SubNext => Counts'  BY StepCounts DEF SubInv, Typed
<1>3. SubInv /\ SubNext => Kept'
  BY OwnerKeeps, WaitKeeps, ThreadKeeps, LoopKeeps DEF SubNext, OwnerWakes
<1>4. QED  BY <1>1, <1>2, <1>3 DEF SubInv, Typed, Kept

LEMMA SubInvariant == SubSpec => []SubInv
BY InitSub, NextSub, PTL DEF SubSpec

\* Types, and status = 1 exactly while the connection is up.
THEOREM SubTypeCorrect == SubSpec => []TypeOK
<1>1. SubInv => TypeOK  BY TypedIsTypeOK DEF SubInv
<1>2. QED  BY <1>1, SubInvariant, PTL

\* Whoever uses a dangling context does so after the connection was lost.
THEOREM DanglesOnlyWhenLost == SubSpec => []SafeUntilLost
<1>1. SubInv => SafeUntilLost  BY DEF SubInv, Agreed
<1>2. QED  BY <1>1, SubInvariant, PTL

\* connect() throws exactly when its connection failed, or when nothing was
\* heard of it and the last thing heard of those before it was a failure.
THEOREM ConnectReports == SubSpec => []FailureIsReported
<1>1. SubInv => FailureIsReported  BY DEF SubInv, Agreed
<1>2. QED  BY <1>1, SubInvariant, PTL

\* uninit() returns only when connect() is over.
THEOREM UninitIsLast == SubSpec => []UninitAfterConnect
<1>1. SubInv => UninitAfterConnect
  BY DEF SubInv, Agreed, ThreadsAgree, UninitAfterConnect
<1>2. QED  BY <1>1, SubInvariant, PTL

-----------------------------------------------------------------------------
(* Serializer: numbers and loops.                                          *)

\* A set of natural numbers has a least one ...
LEMMA LeastNumber ==
  ASSUME NEW T \in SUBSET Nat, T # {}
  PROVE  \E n \in T : \A m \in T : n <= m
<1>1. PICK n \in T : \A m \in T : ~(<<m, n>> \in OpToRel(<, Nat))
  BY NatLessThanWellFounded, WFMin
<1>2. \A m \in T : ~(m < n)  BY <1>1 DEF OpToRel
<1>3. QED  BY <1>2

\* ... and has them all if it has 0 and with each number the next.
LEMMA Induction ==
  ASSUME NEW T, 0 \in T, \A n \in Nat : n \in T => n + 1 \in T
  PROVE  \A n \in Nat : n \in T
<1> SUFFICES ASSUME Nat \ T # {} PROVE FALSE  OBVIOUS
<1>1. PICK n \in Nat \ T : \A m \in Nat \ T : n <= m  BY LeastNumber
<1>2. n - 1 \in Nat /\ n - 1 < n  BY <1>1
<1>3. n - 1 \in T /\ (n - 1) + 1 = n  BY <1>1, <1>2
<1>4. QED  BY <1>1, <1>2, <1>3

\* The same below a bound.
LEMMA InductionUpTo ==
  ASSUME NEW N \in Nat, NEW T, 0 \in T, \A n \in 1 .. N : n - 1 \in T => n \in T
  PROVE  \A n \in 0 .. N : n \in T
<1> DEFINE U == {n \in Nat : n <= N => n \in T}
<1>1. 0 \in U  OBVIOUS
<1>2. ASSUME NEW n \in Nat, n \in U PROVE n + 1 \in U
  <2> SUFFICES ASSUME n + 1 <= N PROVE n + 1 \in T  OBVIOUS
  <2>1. n \in T /\ n + 1 \in 1 .. N /\ (n + 1) - 1 = n  BY <1>2
  <2>2. QED  BY <2>1
<1> HIDE DEF U
<1>3. \A n \in Nat : n \in U  BY <1>1, <1>2, Induction
<1>4. QED  BY <1>3 DEF U

\* What is defined step by step is defined: there are functions on the
\* beginnings of the numbers, any two agree, and together they are one.
StepByStep(f, S, x0, step) ==
  f \in [Nat -> S] /\ f[0] = x0 /\ \A n \in Nat : f[n + 1] = step[n][f[n]]

LEMMA Recursion ==
  ASSUME NEW S, NEW x0 \in S, NEW step \in [Nat -> [S -> S]]
  PROVE  \E f : StepByStep(f, S, x0, step)
<1> DEFINE Steps(N) == {f \in [0 .. N -> S] : f[0] = x0 /\ \A n \in 0 .. N - 1 : f[n + 1] = step[n][f[n]]}
           T == {N \in Nat : Steps(N) # {}}
<1>1. 0 \in T
  <2>1. [n \in 0 .. 0 |-> x0] \in Steps(0)  OBVIOUS
  <2>2. QED  BY <2>1
<1>2. ASSUME NEW N \in Nat, N \in T PROVE N + 1 \in T
  <2>1. PICK f : f \in Steps(N)  BY <1>2
  <2> DEFINE g == [n \in 0 .. N + 1 |-> IF n = N + 1 THEN step[N][f[N]] ELSE f[n]]
  <2>2. f[N] \in S /\ step[N] \in [S -> S]  BY <2>1
  <2>3. step[N][f[N]] \in S  BY <2>2
  <2>4. g \in [0 .. N + 1 -> S]  BY <2>1, <2>3
  <2>5. g[0] = x0  BY <2>1
  <2>6. \A n \in 0 .. N : g[n + 1] = step[n][g[n]]  BY <2>1
  <2>7. (N + 1) - 1 = N /\ N + 1 \in Nat  OBVIOUS
  <2> HIDE DEF g
  <2>8. g \in Steps(N + 1)  BY <2>4, <2>5, <2>6, <2>7
  <2> HIDE DEF Steps
  <2>9. QED  BY <2>7, <2>8
<1>3. \A N \in Nat : N \in T
  <2> HIDE DEF T
  <2> QED  BY <1>1, <1>2, Induction
<1>4. ASSUME NEW N \in Nat, NEW M \in Nat, NEW f \in Steps(N), NEW g \in Steps(M), N <= M
      PROVE  \A n \in 0 .. N : f[n] = g[n]
  <2> DEFINE U == {n \in 0 .. N : f[n] = g[n]}
  <2>1. 0 \in U  OBVIOUS
  <2>2. ASSUME NEW n \in 1 .. N, n - 1 \in U PROVE n \in U
    <3>1. n - 1 \in 0 .. N - 1 /\ n - 1 \in 0 .. M - 1 /\ (n - 1) + 1 = n  BY <1>4
    <3>2. f[n] = step[n - 1][f[n - 1]] /\ g[n] = step[n - 1][g[n - 1]]  BY <3>1
    <3>3. QED  BY <2>2, <3>2
  <2> HIDE DEF U
  <2>3. \A n \in 0 .. N : n \in U  BY <2>1, <2>2, InductionUpTo
  <2>4. QED  BY <2>3 DEF U
<1> DEFINE h == [n \in Nat |-> (CHOOSE f : f \in Steps(n))[n]]
<1>5. \A N \in Nat : (CHOOSE f : f \in Steps(N)) \in Steps(N)  BY <1>3
<1> HIDE DEF T
<1>6. h \in [Nat -> S]
  <2>1. ASSUME NEW N \in Nat, NEW f \in Steps(N) PROVE f[N] \in S  OBVIOUS
  <2> HIDE DEF Steps
  <2>2. QED  BY <1>5, <2>1
<1>7. h[0] = x0
  <2>1. \A f \in Steps(0) : f[0] = x0  OBVIOUS
  <2> HIDE DEF Steps
  <2>2. QED  BY <1>5, <2>1
<1>8. ASSUME NEW n \in Nat PROVE h[n + 1] = step[n][h[n]]
  <2> DEFINE f == CHOOSE e : e \in Steps(n)
             g == CHOOSE e : e \in Steps(n + 1)
  <2>1. n + 1 \in Nat /\ n <= n + 1 /\ n \in 0 .. (n + 1) - 1 /\ n \in 0 .. n  OBVIOUS
  <2>2. f \in Steps(n) /\ g \in Steps(n + 1)  BY <1>5, <2>1
  <2>3. h[n] = f[n] /\ h[n + 1] = g[n + 1]  BY <2>1
  <2> HIDE DEF f, g, h
  <2>4. g[n + 1] = step[n][g[n]]  BY <2>1, <2>2
  <2> HIDE DEF Steps
  <2>5. f[n] = g[n]  BY <1>4, <2>1, <2>2
  <2>6. QED  BY <2>3, <2>4, <2>5
<1> HIDE DEF h
<1>9. QED  BY <1>6, <1>7, <1>8 DEF StepByStep

\* The same up to a bound, which is how the code's loops go.
UpTo(f, N, S, x0, step) ==
  f \in [0 .. N -> S] /\ f[0] = x0 /\ \A i \in 1 .. N : f[i] = step[i][f[i - 1]]

LEMMA RecursionUpTo ==
  ASSUME NEW N \in Nat, NEW S, NEW x0 \in S, NEW step \in [1 .. N -> [S -> S]]
  PROVE  \E f : UpTo(f, N, S, x0, step)
<1> DEFINE more == [n \in Nat |-> IF n + 1 \in 1 .. N THEN step[n + 1] ELSE [x \in S |-> x]]
<1>1. more \in [Nat -> [S -> S]]  OBVIOUS
<1>2. \A i \in 1 .. N : i - 1 \in Nat /\ more[i - 1] = step[i]
  <2>1. \A i \in 1 .. N : i - 1 \in Nat /\ (i - 1) + 1 = i  OBVIOUS
  <2>2. QED  BY <2>1
<1> HIDE DEF more
<1>3. PICK g : StepByStep(g, S, x0, more)  BY <1>1, Recursion
<1>4. g \in [Nat -> S] /\ g[0] = x0 /\ \A n \in Nat : g[n + 1] = more[n][g[n]]  BY <1>3 DEF StepByStep
<1>5. \A i \in 1 .. N : g[i] = step[i][g[i - 1]]
  <2>1. \A i \in 1 .. N : (i - 1) + 1 = i  OBVIOUS
  <2>2. QED  BY <1>2, <1>4, <2>1
<1> DEFINE f == [i \in 0 .. N |-> g[i]]
<1>6. UpTo(f, N, S, x0, step)
  <2>1. f \in [0 .. N -> S]  BY <1>4
  <2>2. f[0] = x0  BY <1>4
  <2>3. \A i \in 1 .. N : i \in 0 .. N /\ i - 1 \in 0 .. N  OBVIOUS
  <2>4. \A i \in 1 .. N : f[i] = g[i] /\ f[i - 1] = g[i - 1]  BY <2>3
  <2> HIDE DEF f
  <2>5. QED  BY <1>5, <2>1, <2>2, <2>4 DEF UpTo
<1>7. QED  BY <1>6

-----------------------------------------------------------------------------
(* Division.                                                               *)

\* Quotient and remainder are the only two of their kind ...
LEMMA QuotientIs ==
  ASSUME NEW n \in Nat, NEW p \in Nat \ {0}, NEW q \in Nat, NEW r \in Nat, r < p, n = q * p + r
  PROVE  n \div p = q /\ n % p = r
OBVIOUS

\* ... and there are such two.
LEMMA Division ==
  ASSUME NEW n \in Nat, NEW p \in Nat \ {0}
  PROVE  n \div p \in Nat /\ n % p \in 0 .. p - 1 /\ n = (n \div p) * p + (n % p)
<1>1. n \div p \in Nat  OBVIOUS
<1>2. n % p \in 0 .. p - 1  OBVIOUS
<1>3. n = (n \div p) * p + (n % p)  OBVIOUS
<1>4. QED  BY <1>1, <1>2, <1>3

\* Dividing by b * p is dividing by p and then by b.
LEMMA DivisionTwice ==
  ASSUME NEW n \in Nat, NEW p \in Nat \ {0}, NEW b \in Nat \ {0}
  PROVE  n \div p = (n \div (b * p)) * b + ((n \div p) % b)
<1>1. PICK m \in Nat, r \in 0 .. p - 1 : m = n \div p /\ n = m * p + r  BY Division
<1>2. PICK q \in Nat, t \in 0 .. b - 1 : q = m \div b /\ t = m % b /\ m = q * b + t  BY Division
<1>3. n = q * (b * p) + (t * p + r)
  <2>1. m = q * b + t  BY <1>2
  <2>2. m * p = q * (b * p) + t * p  BY <2>1
  <2>3. QED  BY <1>1, <2>2
<1>4. t * p + r \in Nat /\ t * p + r < b * p
  <2>1. t * p \in Nat /\ t * p <= (b - 1) * p  OBVIOUS
  <2>2. (b - 1) * p = b * p - p  OBVIOUS
  <2>3. QED  BY <2>1, <2>2
<1>5. b * p \in Nat \ {0}  OBVIOUS
<1>6. n \div (b * p) = q  BY <1>3, <1>4, <1>5, QuotientIs
<1>7. m = (n \div (b * p)) * b + (m % b)  BY <1>2, <1>6
<1>8. QED  BY <1>1, <1>7

\* A greater number has no smaller quotient.
LEMMA QuotientsGrow ==
  ASSUME NEW m \in Nat, NEW n \in Nat, NEW p \in Nat \ {0}, m <= n
  PROVE  m \div p <= n \div p
<1> DEFINE a == m \div p
           b == n \div p
           r == m % p
           t == n % p
<1>1. a \in Nat /\ r \in 0 .. p - 1 /\ m = a * p + r  BY Division
<1>2. b \in Nat /\ t \in 0 .. p - 1 /\ n = b * p + t  BY Division
<1> HIDE DEF a, b, r, t
<1>3. SUFFICES ASSUME b + 1 <= a PROVE FALSE  BY <1>1, <1>2 DEF a, b
<1>4. (b + 1) * p <= a * p  BY <1>1, <1>2, <1>3
<1>5. (b + 1) * p = b * p + p  BY <1>2
<1>6. b * p \in Nat /\ a * p \in Nat  BY <1>1, <1>2
<1>7. QED  BY <1>1, <1>2, <1>4, <1>5, <1>6

-----------------------------------------------------------------------------
(* Powers of the base.                                                     *)

\* The powers exist, are not zero, and each is the base times the one before.
LEMMA PowerSteps ==
  /\ Power \in [Nat -> Nat \ {0}] /\ Power[0] = 1
  /\ \A n \in Nat : Power[n + 1] = Base * Power[n]
<1> DEFINE P == Nat \ {0}
           step == [n \in Nat |-> [x \in P |-> Base * x]]
           Solves(p) == p = [n \in Nat |-> IF n = 0 THEN 1 ELSE Base * p[n - 1]]
<1>1. Base \in P  BY SerializerAssumption
<1>2. \A x \in P : Base * x \in P  BY <1>1
<1>3. step \in [Nat -> [P -> P]] /\ 1 \in P  BY <1>2
<1> HIDE DEF step, P
<1>4. \E f : StepByStep(f, P, 1, step)  BY <1>3, Recursion
<1>5. PICK f : f \in [Nat -> P] /\ f[0] = 1 /\ \A n \in Nat : f[n + 1] = step[n][f[n]]  BY <1>4 DEF StepByStep
<1>6. \A n \in Nat : f[n + 1] = Base * f[n]  BY <1>5 DEF step
<1> USE DEF P
<1>7. Solves(f)
  <2>1. ASSUME NEW n \in Nat PROVE f[n] = IF n = 0 THEN 1 ELSE Base * f[n - 1]
    <3>1. CASE n = 0  BY <1>5, <3>1
    <3>2. CASE n # 0
      <4>1. n - 1 \in Nat /\ (n - 1) + 1 = n  BY <3>2
      <4>2. QED  BY <1>6, <3>2, <4>1
    <3>3. QED  BY <3>1, <3>2
  <2>2. QED  BY <1>5, <2>1
<1>8. Solves(Power)
  <2>1. Power = CHOOSE p : Solves(p)  BY DEF Power
  <2> HIDE DEF Solves
  <2>2. QED  BY <1>7, <2>1
<1>9. Power[0] = 1  BY <1>8
<1>10. \A n \in Nat : Power[n + 1] = Base * Power[n]
  <2> SUFFICES ASSUME NEW n \in Nat PROVE Power[n + 1] = Base * Power[n]  OBVIOUS
  <2>1. n + 1 \in Nat /\ n + 1 # 0 /\ (n + 1) - 1 = n  OBVIOUS
  <2>2. QED  BY <1>8, <2>1
<1>11. \A n \in Nat : Power[n] \in P
  <2> DEFINE T == {n \in Nat : Power[n] \in P}
  <2>1. 0 \in T  BY <1>9
  <2>2. ASSUME NEW n \in Nat, n \in T PROVE n + 1 \in T  BY <1>2, <1>10, <2>2
  <2> HIDE DEF T
  <2>3. \A n \in Nat : n \in T  BY <2>1, <2>2, Induction
  <2>4. QED  BY <2>3 DEF T
<1>12. Power = [n \in Nat |-> Power[n]]  BY <1>8
<1>13. QED  BY <1>9, <1>10, <1>11, <1>12

\* Half the range, twice, is the range.
LEMMA HalfTwice ==
  ASSUME NEW w \in Nat \ {0}
  PROVE  Half(w) \in Nat \ {0} /\ Power[w] = 2 * Half(w)
<1>1. PICK c \in Nat : Base = c * 2 + 0
  <2>1. Base \in Nat /\ 2 \in Nat \ {0} /\ Base % 2 = 0  BY SerializerAssumption
  <2>2. Base \div 2 \in Nat /\ Base = (Base \div 2) * 2 + (Base % 2)  BY <2>1, Division
  <2>3. QED  BY <2>1, <2>2
<1>2. PICK p \in Nat \ {0} : Power[w] = Base * p
  <2>1. w - 1 \in Nat /\ (w - 1) + 1 = w  OBVIOUS
  <2>2. QED  BY <2>1, PowerSteps
<1>3. c # 0  BY <1>1, SerializerAssumption
<1>4. c * p \in Nat \ {0} /\ Power[w] = (c * p) * 2 + 0  BY <1>1, <1>2, <1>3
<1>5. Power[w] \in Nat  BY PowerSteps
<1>6. Power[w] \div 2 = c * p  BY <1>4, <1>5, QuotientIs
<1>7. QED  BY <1>4, <1>6 DEF Half

-----------------------------------------------------------------------------
(* Digits and the number they make.                                        *)

\* The leading i of the w digits of n, as a number.
Leading(n, w, i) == n \div Power[w - i]

\* Each digit adds to the leading ones what makes the next.
LEMMA LeadingSteps ==
  ASSUME NEW n \in Nat, NEW w \in Nat
  PROVE  /\ \A i \in 0 .. w : Leading(n, w, i) \in Nat
         /\ Leading(n, w, w) = n
         /\ n < Power[w] => Leading(n, w, 0) = 0
         /\ Digits(n, w) \in [1 .. w -> Byte]
         /\ \A i \in 1 .. w : Leading(n, w, i) = Leading(n, w, i - 1) * Base + Digits(n, w)[i]
<1>1. \A i \in 0 .. w : w - i \in Nat /\ Power[w - i] \in Nat \ {0}
  <2>1. \A i \in 0 .. w : w - i \in Nat  OBVIOUS
  <2>2. QED  BY <2>1, PowerSteps
<1>2. \A i \in 0 .. w : Leading(n, w, i) \in Nat  BY <1>1, Division DEF Leading
<1>3. Leading(n, w, w) = n
  <2>1. w - w = 0 /\ n = n * 1 + 0  OBVIOUS
  <2>2. n \div 1 = n  BY <2>1, QuotientIs
  <2>3. QED  BY <2>1, <2>2, PowerSteps DEF Leading
<1>4. ASSUME n < Power[w] PROVE Leading(n, w, 0) = 0
  <2>1. w - 0 = w /\ Power[w] \in Nat \ {0}  BY PowerSteps
  <2>2. n = 0 * Power[w] + n  BY <2>1
  <2>3. n \div Power[w] = 0  BY <1>4, <2>1, <2>2, QuotientIs
  <2>4. QED  BY <2>1, <2>3 DEF Leading
<1>5. ASSUME NEW i \in 1 .. w
      PROVE  /\ Digits(n, w)[i] \in Byte
             /\ Leading(n, w, i) = Leading(n, w, i - 1) * Base + Digits(n, w)[i]
  <2>1. /\ i \in 0 .. w /\ w - i \in Nat /\ (w - i) + 1 = w - (i - 1)  OBVIOUS
  <2>2. PICK p \in Nat \ {0} : p = Power[w - i] /\ Power[w - (i - 1)] = Base * p  BY <2>1, PowerSteps
  <2>3. Base \in Nat \ {0}  BY SerializerAssumption
  <2>4. Digits(n, w)[i] = (n \div p) % Base  BY <2>2 DEF Digits
  <2>5. n \div p = (n \div (Base * p)) * Base + ((n \div p) % Base)  BY <2>3, DivisionTwice
  <2>6. (n \div p) % Base \in 0 .. Base - 1
    <3>1. n \div p \in Nat  BY Division
    <3>2. QED  BY <2>3, <3>1, Division
  <2>7. QED  BY <2>2, <2>4, <2>5, <2>6 DEF Leading, Byte
<1>6. Digits(n, w) \in [1 .. w -> Byte]
  <2>1. Digits(n, w) = [i \in 1 .. w |-> Digits(n, w)[i]]  BY DEF Digits
  <2>2. QED  BY <1>5, <2>1
<1>7. QED  BY <1>2, <1>3, <1>4, <1>5, <1>6

\* What Number goes through.
NumberRun(u, d) ==
  /\ u \in [0 .. Len(d) -> Nat] /\ u[0] = 0
  /\ \A i \in 1 .. Len(d) : u[i] = u[i - 1] * Base + d[i]

\* Its loop gives it.
LEMMA NumberSteps ==
  ASSUME NEW d \in Seq(Byte)
  PROVE  \E u : NumberRun(u, d) /\ Number(d) = u[Len(d)]
<1> DEFINE N == Len(d)
           Solves(u) == u = [i \in 0 .. N |-> IF i = 0 THEN 0 ELSE u[i - 1] * Base + d[i]]
           step == [i \in 1 .. N |-> [x \in Nat |-> x * Base + d[i]]]
           u == CHOOSE u : Solves(u)
<1>1. N \in Nat /\ d \in [1 .. N -> Byte] /\ Base \in Nat \ {0}  BY SerializerAssumption
<1> HIDE DEF N
<1>2. ASSUME NEW i \in 1 .. N, NEW x \in Nat PROVE x * Base + d[i] \in Nat
  <2>1. x * Base \in Nat /\ d[i] \in Nat  BY <1>1 DEF Byte
  <2>2. QED  BY <2>1
<1>3. step \in [1 .. N -> [Nat -> Nat]] /\ 0 \in Nat  BY <1>2
<1> HIDE DEF step
<1>4. PICK f : UpTo(f, N, Nat, 0, step)  BY <1>1, <1>3, RecursionUpTo
<1>5. /\ f \in [0 .. N -> Nat] /\ f[0] = 0
      /\ \A i \in 1 .. N : f[i] = step[i][f[i - 1]] /\ f[i - 1] \in Nat
  <2>1. \A i \in 1 .. N : i - 1 \in 0 .. N  BY <1>1
  <2>2. QED  BY <1>4, <2>1 DEF UpTo
<1>6. \A i \in 1 .. N : f[i] = f[i - 1] * Base + d[i]  BY <1>5 DEF step
<1>7. Solves(f)
  <2>1. \A i \in 0 .. N : i = 0 \/ i \in 1 .. N  OBVIOUS
  <2>2. \A i \in 0 .. N : f[i] = IF i = 0 THEN 0 ELSE f[i - 1] * Base + d[i]  BY <1>5, <1>6, <2>1
  <2>3. f = [i \in 0 .. N |-> f[i]]  BY <1>5
  <2>4. QED  BY <2>2, <2>3
<1>8. Solves(u)
  <2> HIDE DEF Solves
  <2> QED  BY <1>7
<1>9. Number(d) = u[N]  BY DEF Number, N
<1> HIDE DEF u
<1>10. u[0] = 0  BY <1>1, <1>8
<1>11. \A i \in 1 .. N : u[i] = u[i - 1] * Base + d[i]
  <2>1. \A i \in 1 .. N : i \in 0 .. N /\ i # 0  OBVIOUS
  <2>2. QED  BY <1>8, <2>1
<1>12. \A i \in 0 .. N : u[i] \in Nat
  <2> DEFINE T == {i \in 0 .. N : u[i] \in Nat}
  <2>1. 0 \in T  BY <1>1, <1>10
  <2>2. ASSUME NEW i \in 1 .. N, i - 1 \in T PROVE i \in T
    <3>1. i \in 0 .. N /\ u[i - 1] \in Nat  BY <1>1, <2>2
    <3>2. u[i] \in Nat  BY <1>2, <1>11, <3>1
    <3>3. QED  BY <3>1, <3>2
  <2> HIDE DEF T
  <2>3. \A i \in 0 .. N : i \in T  BY <1>1, <2>1, <2>2, InductionUpTo
  <2>4. QED  BY <2>3 DEF T
<1>13. u \in [0 .. N -> Nat]  BY <1>8, <1>12
<1>14. QED  BY <1>9, <1>10, <1>11, <1>13 DEF NumberRun, N

\* With one digit more a number below p is below b * p, and it can be taken
\* apart again in one way only.
LEMMA OneMoreDigit ==
  ASSUME NEW b \in Nat \ {0}, NEW a \in Nat, NEW d \in 0 .. b - 1
  PROVE  /\ \A p \in Nat : a < p => a * b + d < b * p
         /\ \A c \in Nat, e \in 0 .. b - 1 : a * b + d = c * b + e => a = c /\ d = e
<1>1. ASSUME NEW p \in Nat, a < p PROVE a * b + d < b * p
  <2>1. (a + 1) * b <= p * b  BY <1>1
  <2>2. (a + 1) * b = a * b + b /\ p * b = b * p  OBVIOUS
  <2>3. a * b \in Nat /\ b * p \in Nat  OBVIOUS
  <2>4. QED  BY <2>1, <2>2, <2>3
<1>2. ASSUME NEW c \in Nat, NEW e \in 0 .. b - 1, a * b + d = c * b + e PROVE a = c /\ d = e
  <2>1. PICK n \in Nat : n = a * b + d /\ n = c * b + e
    <3>1. a * b + d \in Nat  OBVIOUS
    <3>2. QED  BY <1>2, <3>1
  <2>2. n \div b = a /\ n % b = d  BY <2>1, QuotientIs
  <2>3. n \div b = c /\ n % b = e  BY <2>1, QuotientIs
  <2>4. QED  BY <2>2, <2>3
<1>3. QED  BY <1>1, <1>2

\* The number of the digits of n is n.
LEMMA NumberOfDigits ==
  ASSUME NEW w \in Nat, NEW n \in Nat, n < Power[w]
  PROVE  Digits(n, w) \in Seq(Byte) /\ Len(Digits(n, w)) = w /\ Number(Digits(n, w)) = n
<1> DEFINE d == Digits(n, w)
<1>1. d \in [1 .. w -> Byte]  BY LeadingSteps
<1>2. \A i \in 1 .. w : Leading(n, w, i) = Leading(n, w, i - 1) * Base + d[i]  BY LeadingSteps
<1> HIDE DEF d
<1>3. d \in Seq(Byte) /\ Len(d) = w  BY <1>1
<1>4. PICK u : NumberRun(u, d) /\ Number(d) = u[w]  BY <1>3, NumberSteps
<1>5. u[0] = 0 /\ \A i \in 1 .. w : u[i] = u[i - 1] * Base + d[i]  BY <1>3, <1>4 DEF NumberRun
<1> DEFINE T == {i \in 0 .. w : u[i] = Leading(n, w, i)}
<1>6. 0 \in T
  <2>1. Leading(n, w, 0) = 0  BY LeadingSteps
  <2>2. 0 \in 0 .. w  OBVIOUS
  <2>3. QED  BY <1>5, <2>1, <2>2
<1>7. \A i \in 1 .. w : i - 1 \in T => i \in T
  <2>1. \A i \in 1 .. w : i \in 0 .. w  OBVIOUS
  <2>2. QED  BY <1>2, <1>5, <2>1
<1> HIDE DEF T
<1>8. \A i \in 0 .. w : i \in T  BY <1>6, <1>7, InductionUpTo
<1>9. u[w] = Leading(n, w, w)  BY <1>8 DEF T
<1>10. u[w] = n  BY <1>9, LeadingSteps
<1>11. QED  BY <1>3, <1>4, <1>10 DEF d

\* The digits of the number of some digits are these.
LEMMA DigitsOfNumber ==
  ASSUME NEW d \in Seq(Byte)
  PROVE  Number(d) \in 0 .. Power[Len(d)] - 1 /\ Digits(Number(d), Len(d)) = d
<1>1. PICK w \in Nat : w = Len(d) /\ d \in [1 .. w -> Byte]  OBVIOUS
<1>2. PICK u : NumberRun(u, d) /\ Number(d) = u[w]  BY <1>1, NumberSteps
<1>3. /\ \A i \in 0 .. w : u[i] \in Nat
      /\ u[0] = 0 /\ \A i \in 1 .. w : u[i] = u[i - 1] * Base + d[i]
  BY <1>1, <1>2 DEF NumberRun
<1>4. Base \in Nat \ {0} /\ Byte = 0 .. Base - 1  BY SerializerAssumption DEF Byte
<1>5. \A i \in 0 .. w : u[i] < Power[i]
  <2> DEFINE T == {i \in 0 .. w : u[i] < Power[i]}
  <2>1. 0 \in T
    <3>1. 0 \in 0 .. w /\ u[0] = 0 /\ Power[0] = 1  BY <1>3, PowerSteps
    <3>2. u[0] < Power[0]  BY <3>1
    <3>3. QED  BY <3>1, <3>2
  <2>2. ASSUME NEW i \in 1 .. w, i - 1 \in T PROVE i \in T
    <3>1. i \in 0 .. w /\ i - 1 \in Nat /\ i - 1 \in 0 .. w /\ (i - 1) + 1 = i  OBVIOUS
    <3>2. PICK p \in Nat : p = Power[i - 1] /\ Power[i] = Base * p  BY <3>1, PowerSteps
    <3>3. PICK a \in Nat : a = u[i - 1] /\ a < p  BY <1>3, <2>2, <3>1, <3>2
    <3>4. PICK e \in 0 .. Base - 1 : e = d[i]  BY <1>1, <1>4
    <3>5. a * Base + e < Base * p  BY <1>4, <3>3, OneMoreDigit
    <3>6. u[i] < Power[i]  BY <1>3, <3>2, <3>3, <3>4, <3>5
    <3>7. QED  BY <3>1, <3>6
  <2> HIDE DEF T
  <2>3. \A i \in 0 .. w : i \in T  BY <2>1, <2>2, InductionUpTo
  <2>4. QED  BY <2>3 DEF T
<1>6. PICK n \in Nat : n = u[w] /\ n < Power[w]  BY <1>3, <1>5
<1> DEFINE g == Digits(n, w)
<1>7. /\ \A i \in 0 .. w : Leading(n, w, i) \in Nat
      /\ Leading(n, w, w) = n
      /\ g \in [1 .. w -> Byte]
      /\ \A i \in 1 .. w : Leading(n, w, i) = Leading(n, w, i - 1) * Base + g[i]
  BY LeadingSteps
<1> HIDE DEF g
<1>8. ASSUME NEW i \in 1 .. w, Leading(n, w, i) = u[i]
      PROVE  Leading(n, w, i - 1) = u[i - 1] /\ g[i] = d[i]
  <2>1. i - 1 \in 0 .. w  OBVIOUS
  <2>2. PICK a \in Nat, e \in 0 .. Base - 1 : a = u[i - 1] /\ e = d[i]  BY <1>1, <1>3, <1>4, <2>1
  <2>3. PICK c \in Nat, f \in 0 .. Base - 1 : c = Leading(n, w, i - 1) /\ f = g[i]  BY <1>4, <1>7, <2>1
  <2>4. a * Base + e = c * Base + f  BY <1>3, <1>7, <1>8, <2>2, <2>3
  <2>5. a = c /\ e = f  BY <1>4, <2>4, OneMoreDigit
  <2>6. QED  BY <2>2, <2>3, <2>5
<1>9. \A k \in 0 .. w : Leading(n, w, w - k) = u[w - k]
  <2> DEFINE T == {k \in 0 .. w : Leading(n, w, w - k) = u[w - k]}
  <2>1. 0 \in T
    <3>1. w - 0 = w  OBVIOUS
    <3>2. QED  BY <1>6, <1>7, <3>1
  <2>2. ASSUME NEW k \in 1 .. w, k - 1 \in T PROVE k \in T
    <3>1. k \in 0 .. w /\ w - (k - 1) \in 1 .. w /\ (w - (k - 1)) - 1 = w - k  OBVIOUS
    <3>2. Leading(n, w, w - k) = u[w - k]  BY <1>8, <2>2, <3>1
    <3>3. QED  BY <3>1, <3>2
  <2> HIDE DEF T
  <2>3. \A k \in 0 .. w : k \in T  BY <2>1, <2>2, InductionUpTo
  <2>4. QED  BY <2>3 DEF T
<1>10. \A i \in 1 .. w : g[i] = d[i]
  <2>1. \A i \in 1 .. w : w - i \in 0 .. w /\ w - (w - i) = i  OBVIOUS
  <2>2. QED  BY <1>8, <1>9, <2>1
<1>11. g = d  BY <1>1, <1>7, <1>10
<1>12. Power[w] \in Nat  BY PowerSteps
<1>13. QED  BY <1>1, <1>2, <1>6, <1>11, <1>12 DEF g

-----------------------------------------------------------------------------
(* The order of strings.                                                   *)

\* Of two different strings of a length exactly one is before the other.
LEMMA Lexicographic ==
  ASSUME NEW n \in Nat, NEW s \in [1 .. n -> Int], NEW t \in [1 .. n -> Int]
  PROVE  /\ ~(Before(s, t) /\ Before(t, s))
         /\ s = t => ~Before(s, t)
         /\ s # t => Before(s, t) \/ Before(t, s)
<1>1. ASSUME Before(s, t), Before(t, s) PROVE FALSE
  <2>1. PICK i \in 1 .. n : s[i] < t[i] /\ \A j \in 1 .. i - 1 : s[j] = t[j]  BY <1>1 DEF Before
  <2>2. PICK k \in 1 .. n : t[k] < s[k] /\ \A j \in 1 .. k - 1 : t[j] = s[j]  BY <1>1 DEF Before
  <2>3. s[i] \in Int /\ t[i] \in Int /\ s[k] \in Int /\ t[k] \in Int  OBVIOUS
  <2>4. CASE i < k
    <3>1. i \in 1 .. k - 1  BY <2>4
    <3>2. QED  BY <2>1, <2>2, <2>3, <3>1
  <2>5. CASE k < i
    <3>1. k \in 1 .. i - 1  BY <2>5
    <3>2. QED  BY <2>1, <2>2, <2>3, <3>1
  <2>6. CASE i = k  BY <2>1, <2>2, <2>3, <2>6
  <2>7. QED  BY <2>4, <2>5, <2>6
<1>2. s = t => ~Before(s, t)  BY DEF Before
<1>3. ASSUME s # t PROVE Before(s, t) \/ Before(t, s)
  <2> DEFINE D == {i \in 1 .. n : s[i] # t[i]}
  <2>1. D \in SUBSET Nat /\ D # {}  BY <1>3
  <2> HIDE DEF D
  <2>2. PICK i \in D : \A j \in D : i <= j  BY <2>1, LeastNumber
  <2>3. i \in 1 .. n /\ s[i] # t[i]  BY <2>2 DEF D
  <2>4. \A j \in 1 .. i - 1 : s[j] = t[j]
    <3>1. SUFFICES ASSUME NEW j \in 1 .. i - 1, s[j] # t[j] PROVE FALSE  OBVIOUS
    <3>2. j \in 1 .. n /\ ~(i <= j)  BY <2>3
    <3>3. QED  BY <2>2, <3>1, <3>2 DEF D
  <2>5. s[i] \in Int /\ t[i] \in Int  BY <2>3
  <2>6. s[i] < t[i] \/ t[i] < s[i]  BY <2>3, <2>5
  <2>7. i \in DOMAIN s \intersect DOMAIN t  BY <2>3
  <2>8. QED  BY <2>4, <2>6, <2>7 DEF Before
<1>4. QED  BY <1>1, <1>2, <1>3

\* The digits of a smaller number are before those of a greater.
LEMMA DigitsInOrder ==
  ASSUME NEW w \in Nat, NEW m \in Nat, NEW n \in Nat, m < n, n < Power[w]
  PROVE  Before(Digits(m, w), Digits(n, w))
<1> DEFINE s == Digits(m, w)
           t == Digits(n, w)
           D == {i \in 0 .. w : Leading(m, w, i) # Leading(n, w, i)}
<1>1. Power[w] \in Nat /\ m < Power[w]
  <2>1. Power[w] \in Nat  BY PowerSteps
  <2>2. QED  BY <2>1
<1>2. /\ \A i \in 0 .. w : Leading(m, w, i) \in Nat
      /\ Leading(m, w, w) = m /\ Leading(m, w, 0) = 0
      /\ s \in [1 .. w -> Byte]
      /\ \A i \in 1 .. w : Leading(m, w, i) = Leading(m, w, i - 1) * Base + s[i]
  BY <1>1, LeadingSteps
<1>3. /\ \A i \in 0 .. w : Leading(n, w, i) \in Nat
      /\ Leading(n, w, w) = n /\ Leading(n, w, 0) = 0
      /\ t \in [1 .. w -> Byte]
      /\ \A i \in 1 .. w : Leading(n, w, i) = Leading(n, w, i - 1) * Base + t[i]
  BY LeadingSteps
<1>4. \A i \in 0 .. w : Leading(m, w, i) <= Leading(n, w, i)
  <2>1. \A i \in 0 .. w : w - i \in Nat  OBVIOUS
  <2>2. \A i \in 0 .. w : Power[w - i] \in Nat \ {0}  BY <2>1, PowerSteps
  <2>3. m <= n  OBVIOUS
  <2>4. QED  BY <2>2, <2>3, QuotientsGrow DEF Leading
<1> HIDE DEF s, t
<1>5. Base \in Nat \ {0} /\ Byte = 0 .. Base - 1  BY SerializerAssumption DEF Byte
<1>6. D \in SUBSET Nat /\ w \in D  BY <1>2, <1>3
<1>7. PICK i \in D : \A j \in D : i <= j
  <2> HIDE DEF D
  <2> QED  BY <1>6, LeastNumber
<1>8. i \in 1 .. w /\ Leading(m, w, i) # Leading(n, w, i)  BY <1>2, <1>3
<1>9. \A j \in 0 .. i - 1 : Leading(m, w, j) = Leading(n, w, j)
  <2>1. SUFFICES ASSUME NEW j \in 0 .. i - 1, Leading(m, w, j) # Leading(n, w, j) PROVE FALSE  OBVIOUS
  <2>2. j \in 0 .. w /\ ~(i <= j)  BY <1>8
  <2>3. QED  BY <1>7, <2>1, <2>2
<1>10. s[i] < t[i]
  <2>1. i \in 0 .. w /\ i - 1 \in 0 .. i - 1 /\ i - 1 \in 0 .. w  BY <1>8
  <2>2. PICK a \in Nat : a = Leading(m, w, i - 1) /\ a = Leading(n, w, i - 1)  BY <1>2, <1>9, <2>1
  <2>3. PICK e \in 0 .. Base - 1, f \in 0 .. Base - 1 : e = s[i] /\ f = t[i]  BY <1>2, <1>3, <1>5, <1>8
  <2>4. a * Base + e # a * Base + f  BY <1>2, <1>3, <1>8, <2>2, <2>3
  <2>5. a * Base + e <= a * Base + f  BY <1>2, <1>3, <1>4, <1>8, <2>1, <2>2, <2>3
  <2>6. a * Base \in Nat  BY <1>5
  <2>7. e < f  BY <2>4, <2>5, <2>6
  <2>8. QED  BY <2>3, <2>7
<1>11. ASSUME NEW j \in 1 .. i - 1 PROVE s[j] = t[j]
  <2>1. j \in 1 .. w /\ j \in 0 .. w /\ j - 1 \in 0 .. w /\ j \in 0 .. i - 1 /\ j - 1 \in 0 .. i - 1  BY <1>8
  <2>2. PICK a \in Nat : a = Leading(m, w, j - 1) /\ a = Leading(n, w, j - 1)  BY <1>2, <1>9, <2>1
  <2>3. PICK e \in 0 .. Base - 1, f \in 0 .. Base - 1 : e = s[j] /\ f = t[j]  BY <1>2, <1>3, <1>5, <2>1
  <2>4. a * Base + e = a * Base + f  BY <1>2, <1>3, <1>9, <2>1, <2>2, <2>3
  <2>5. e = f  BY <1>5, <2>4, OneMoreDigit
  <2>6. QED  BY <2>3, <2>5
<1>12. i \in DOMAIN s \intersect DOMAIN t  BY <1>2, <1>3, <1>8
<1>13. Before(s, t)  BY <1>10, <1>11, <1>12 DEF Before
<1>14. QED  BY <1>13 DEF s, t

-----------------------------------------------------------------------------
(* One value.                                                              *)

Numeric == Types \ {"string"}

\* What is added to a number before its digits are taken.
Shift(type) == IF type = "uint64" THEN 0 ELSE Half(Width(type))

\* A number is written as the digits of what is not negative, and read from
\* that as itself.
LEMMA NumberAsDigits ==
  ASSUME NEW type \in Numeric, NEW v \in Values(type), NEW text
  PROVE  /\ v \in Int /\ v + Shift(type) \in 0 .. Power[Width(type)] - 1
         /\ SerializeImpl(type, v) = Digits(v + Shift(type), Width(type))
         /\ Value(type, v + Shift(type), text) = v
<1>1. PICK w \in Nat \ {0} : w = Width(type)  BY SerializerAssumption DEF Width
<1>2. PICK h \in Nat \ {0} : h = Half(w) /\ Power[w] = 2 * h  BY HalfTwice
<1>3. CASE type = "uint64"
  <2>1. Width(type) = Long /\ Shift(type) = 0 /\ v \in 0 .. Power[Long] - 1  BY <1>3 DEF Width, Shift, Values
  <2>2. Power[Long] \in Nat  BY <1>1, <1>2, <2>1
  <2>3. v \in Int /\ v + 0 = v  BY <2>1, <2>2
  <2>4. SerializeImpl(type, v) = Digits(v, Long)  BY <1>3 DEF SerializeImpl
  <2>5. Value(type, v, text) = v  BY <1>3 DEF Value
  <2>6. QED  BY <2>1, <2>3, <2>4, <2>5
<1>4. CASE type \in {"int", "int64"}
  <2>1. Shift(type) = h /\ v \in -h .. h - 1  BY <1>1, <1>2, <1>4 DEF Shift, Values
  <2>2. PICK u \in 0 .. 2 * h - 1 : u = v + h  BY <2>1
  <2>3. Flipped(v, w) = u
    <3>1. u = 0 * (2 * h) + u /\ 2 * h \in Nat \ {0} /\ u \in Nat /\ u < 2 * h  OBVIOUS
    <3>2. u % (2 * h) = u  BY <3>1, QuotientIs
    <3>3. QED  BY <1>2, <2>2, <3>2 DEF Flipped
  <2>4. AsSigned(Flipped(u, w), w) = v
    <3>1. CASE u < h
      <4>1. u + h = 0 * (2 * h) + (u + h) /\ 2 * h \in Nat \ {0} /\ u + h \in Nat /\ u + h < 2 * h  BY <3>1
      <4>2. (u + h) % (2 * h) = u + h  BY <4>1, QuotientIs
      <4>3. Flipped(u, w) = u + h  BY <1>2, <4>2 DEF Flipped
      <4>4. ~(u + h < h) /\ (u + h) - 2 * h = v  BY <2>1, <2>2, <3>1
      <4>5. QED  BY <1>2, <4>3, <4>4 DEF AsSigned
    <3>2. CASE h <= u
      <4>1. u - h \in Nat /\ u + h \in Nat /\ u + h = 1 * (2 * h) + (u - h) /\ 2 * h \in Nat \ {0} /\ u - h < 2 * h  BY <3>2
      <4>2. (u + h) % (2 * h) = u - h  BY <4>1, QuotientIs
      <4>3. Flipped(u, w) = u - h  BY <1>2, <4>2 DEF Flipped
      <4>4. u - h < h /\ u - h = v  BY <2>1, <2>2
      <4>5. QED  BY <1>2, <4>3, <4>4 DEF AsSigned
    <3>3. QED  BY <3>1, <3>2
  <2>5. SerializeImpl(type, v) = Digits(u, w)  BY <1>1, <1>4, <2>3 DEF SerializeImpl
  <2>6. Value(type, u, text) = v  BY <1>1, <1>4, <2>4 DEF Value
  <2>7. v \in Int  BY <2>1
  <2>8. u \in 0 .. Power[w] - 1  BY <1>2
  <2>9. QED  BY <1>1, <2>1, <2>2, <2>5, <2>6, <2>7, <2>8
<1>5. QED  BY <1>3, <1>4 DEF Numeric, Types

\* Any number of the width is read as a value that is written as it.
LEMMA DigitsAsNumber ==
  ASSUME NEW type \in Numeric, NEW u \in 0 .. Power[Width(type)] - 1, NEW text
  PROVE  Value(type, u, text) \in Values(type) /\ SerializeImpl(type, Value(type, u, text)) = Digits(u, Width(type))
<1>1. PICK w \in Nat \ {0} : w = Width(type)  BY SerializerAssumption DEF Width
<1>2. PICK h \in Nat \ {0} : h = Half(w) /\ Power[w] = 2 * h  BY HalfTwice
<1>3. CASE type = "uint64"
  <2>1. Width(type) = Long /\ Value(type, u, text) = u  BY <1>3 DEF Width, Value
  <2>2. u \in Values(type)  BY <1>3, <2>1 DEF Values
  <2>3. SerializeImpl(type, u) = Digits(u, Long)  BY <1>3 DEF SerializeImpl
  <2>4. QED  BY <2>1, <2>2, <2>3
<1>4. CASE type \in {"int", "int64"}
  <2>1. u \in 0 .. 2 * h - 1  BY <1>1, <1>2
  <2>2. PICK v \in -h .. h - 1 : v = u - h  BY <2>1
  <2>3. v \in Values(type)  BY <1>1, <1>2, <1>4 DEF Values
  <2>4. Shift(type) = h  BY <1>1, <1>2, <1>4 DEF Shift
  <2>5. v + h = u  BY <2>1, <2>2
  <2>6. SerializeImpl(type, v) = Digits(v + h, w) /\ Value(type, v + h, text) = v  BY <1>1, <2>3, <2>4, NumberAsDigits
  <2>7. QED  BY <1>1, <2>3, <2>5, <2>6
<1>5. QED  BY <1>3, <1>4 DEF Numeric, Types

\* Strings of bytes.
LEMMA Associative ==
  ASSUME NEW a \in Seq(Byte), NEW b \in Seq(Byte), NEW c \in Seq(Byte)
  PROVE  a \o (b \o c) = (a \o b) \o c
OBVIOUS

\* The middle of three is found by its place.
LEMMA Middle ==
  ASSUME NEW a \in Seq(Byte), NEW b \in Seq(Byte), NEW c \in Seq(Byte)
  PROVE  /\ (a \o b) \o c \in Seq(Byte) /\ Len((a \o b) \o c) = Len(a) + Len(b) + Len(c)
         /\ SubSeq((a \o b) \o c, Len(a) + 1, Len(a) + Len(b)) = b
<1> DEFINE s == (a \o b) \o c
           t == SubSeq(s, Len(a) + 1, Len(a) + Len(b))
<1>1. s \in Seq(Byte) /\ Len(s) = Len(a) + Len(b) + Len(c)  OBVIOUS
<1>2. \A i \in 1 .. Len(b) : s[Len(a) + i] = b[i]  OBVIOUS
<1> HIDE DEF s
<1>3. Len(a) \in Nat /\ Len(b) \in Nat /\ Len(c) \in Nat  OBVIOUS
<1>4. t \in Seq(Byte) /\ Len(t) = Len(b)  BY <1>1, <1>3
<1>5. \A i \in 1 .. Len(b) : t[i] = s[Len(a) + i]  BY <1>1, <1>3
<1> HIDE DEF t
<1>6. t = b  BY <1>2, <1>4, <1>5
<1>7. QED  BY <1>1, <1>6 DEF s, t

\* A field has bytes.
LEMMA Widths ==
  ASSUME NEW type \in Types
  PROVE  Width(type) \in Nat \ {0} /\ (type = "string" => Width(type) = Short)
BY SerializerAssumption DEF Width, Types

\* The bytes of a value are what the code says it goes over.
LEMMA ValueBytes ==
  ASSUME NEW type \in Types, NEW v \in Values(type)
  PROVE  /\ SerializeImpl(type, v) \in Seq(Byte)
         /\ type # "string" => Len(SerializeImpl(type, v)) = Width(type)
         /\ type = "string" => /\ v \in Seq(Byte) /\ Len(v) \in 0 .. Power[Short] - 1
                               /\ SerializeImpl(type, v) = Digits(Len(v), Short) \o v
                               /\ Len(SerializeImpl(type, v)) = Short + Len(v)
<1>1. CASE type = "string"
  <2>1. v \in Texts  BY <1>1 DEF Values
  <2>2. PICK n \in 0 .. Power[Short] - 1 : v \in [1 .. n -> Byte]  BY <2>1 DEF Texts
  <2>3. Short \in Nat /\ Power[Short] \in Nat  BY SerializerAssumption, PowerSteps
  <2>4. v \in Seq(Byte) /\ Len(v) = n /\ n \in Nat /\ n < Power[Short]  BY <2>2, <2>3
  <2>5. Digits(n, Short) \in Seq(Byte) /\ Len(Digits(n, Short)) = Short  BY <2>3, <2>4, NumberOfDigits
  <2>6. SerializeImpl(type, v) = Digits(Len(v), Short) \o v  BY <1>1 DEF SerializeImpl
  <2> DEFINE d == Digits(n, Short)
  <2> HIDE DEF d
  <2>7. d \o v \in Seq(Byte) /\ Len(d \o v) = Short + Len(v)  BY <2>3, <2>4, <2>5, ConcatProperties DEF d
  <2>8. SerializeImpl(type, v) = d \o v  BY <2>4, <2>6 DEF d
  <2>9. QED  BY <1>1, <2>2, <2>4, <2>6, <2>7, <2>8
<1>2. CASE type # "string"
  <2>1. type \in Numeric  BY <1>2 DEF Numeric
  <2>2. PICK n \in 0 .. Power[Width(type)] - 1 : SerializeImpl(type, v) = Digits(n, Width(type))
    BY <2>1, NumberAsDigits
  <2>3. Width(type) \in Nat /\ Power[Width(type)] \in Nat  BY Widths, PowerSteps
  <2>4. n \in Nat /\ n < Power[Width(type)]  BY <2>3
  <2>5. QED  BY <1>2, <2>2, <2>3, <2>4, NumberOfDigits
<1>3. QED  BY <1>1, <1>2

At(offset, vals) == [ok |-> TRUE, offset |-> offset, vals |-> vals]

ReadBetween(a, b, c, type, v, vals) ==
  DeserializeImpl((a \o b) \o c, At(Len(a), vals), type) = At(Len(a) + Len(b), Append(vals, v))

\* One value is read from where its bytes begin, whatever surrounds them.
LEMMA ValueReadBack ==
  ASSUME NEW type \in Types, NEW v \in Values(type), NEW a \in Seq(Byte), NEW c \in Seq(Byte), NEW vals,
         NEW b, b = SerializeImpl(type, v)
  PROVE  ReadBetween(a, b, c, type, v, vals)
<1> DEFINE s == (a \o b) \o c
           from == Len(a)
           w == Width(type)
           u == Number(SubSeq(s, from + 1, from + w))
           to == from + Length(type, u)
           text == SubSeq(s, from + w + 1, to)
<1>1. b \in Seq(Byte)  BY ValueBytes
<1>2. s \in Seq(Byte) /\ Len(s) = from + Len(b) + Len(c) /\ SubSeq(s, from + 1, from + Len(b)) = b
  BY <1>1, Middle
<1>3. from \in Nat /\ Len(b) \in Nat /\ Len(c) \in Nat  BY <1>1
<1>4. w \in Nat \ {0}  BY Widths
<1>5. from + w <= Len(s) /\ to = from + Len(b) /\ Value(type, u, text) = v
  <2>1. CASE type # "string"
    <3>1. type \in Numeric  BY <2>1 DEF Numeric
    <3>2. PICK n \in 0 .. Power[w] - 1 : n = v + Shift(type) /\ b = Digits(n, w)
      BY <3>1, NumberAsDigits
    <3>3. Power[w] \in Nat  BY <1>4, PowerSteps
    <3>4. Len(b) = w /\ Number(b) = n  BY <1>4, <3>2, <3>3, NumberOfDigits
    <3>5. u = n  BY <1>2, <3>4
    <3>6. Length(type, u) = w + 0  BY <2>1 DEF Length
    <3>7. Value(type, n, text) = v  BY <3>1, <3>2, NumberAsDigits
    <3> HIDE DEF s, from, w, u, to, text
    <3>8. to = from + w  BY <1>3, <1>4, <3>6 DEF to
    <3>9. QED  BY <1>2, <1>3, <3>4, <3>5, <3>7, <3>8
  <2>2. CASE type = "string"
    <3>1. /\ v \in Seq(Byte) /\ Len(v) \in 0 .. Power[Short] - 1
          /\ b = Digits(Len(v), Short) \o v /\ Len(b) = Short + Len(v)
      BY <2>2, ValueBytes
    <3>2. w = Short  BY <2>2, Widths
    <3>3. Power[w] \in Nat  BY <1>4, PowerSteps
    <3> DEFINE d == Digits(Len(v), w)
    <3>4. d \in Seq(Byte) /\ Len(d) = w /\ Number(d) = Len(v)
      BY <1>4, <3>1, <3>2, <3>3, NumberOfDigits
    <3>5. Len(v) \in Nat /\ Len(b) = w + Len(v) /\ b = d \o v  BY <3>1, <3>2
    <3> HIDE DEF s, from, w, u, to, text, d
    <3>6. s = (a \o d) \o (v \o c) /\ s = ((a \o d) \o v) \o c
      <4>1. s = (a \o (d \o v)) \o c  BY <3>5 DEF s
      <4>2. a \o (d \o v) = (a \o d) \o v  BY <3>1, <3>4, Associative
      <4>3. a \o d \in Seq(Byte)  BY <3>4
      <4>4. ((a \o d) \o v) \o c = (a \o d) \o (v \o c)  BY <3>1, <4>3, Associative
      <4>5. QED  BY <4>1, <4>2, <4>4
    <3>7. v \o c \in Seq(Byte) /\ a \o d \in Seq(Byte) /\ Len(a \o d) = from + w
      BY <1>4, <3>1, <3>4, ConcatProperties DEF from
    <3>8. SubSeq(s, from + 1, from + w) = d  BY <3>4, <3>6, <3>7, Middle DEF from
    <3>9. u = Len(v)  BY <3>4, <3>8 DEF u
    <3>10. Length(type, u) = w + Len(v)  BY <2>2, <3>9 DEF Length, w
    <3>11. to = from + w + Len(v)  BY <1>3, <1>4, <3>5, <3>10 DEF to
    <3>12. SubSeq(s, from + w + 1, from + w + Len(v)) = v  BY <3>1, <3>6, <3>7, Middle
    <3>13. text = v  BY <3>11, <3>12 DEF text
    <3>14. Value(type, u, text) = v  BY <2>2, <3>13 DEF Value
    <3>15. QED  BY <1>2, <1>3, <1>4, <3>5, <3>11, <3>14
  <2>3. QED  BY <2>1, <2>2
<1>6. to <= Len(s)  BY <1>2, <1>3, <1>5
<1>7. DeserializeImpl(s, At(from, vals), type)
        = IF ~TRUE \/ from + w > Len(s) \/ to > Len(s) THEN Refused
          ELSE [ok |-> TRUE, offset |-> to, vals |-> Append(vals, Value(type, u, text))]
  BY Zenon DEF DeserializeImpl, At
<1> HIDE DEF to, u, text, w, s
<1>8. from + w \in Nat /\ Len(s) \in Nat /\ to \in Nat  BY <1>2, <1>3, <1>4, <1>5
<1>9. ~(from + w > Len(s)) /\ ~(to > Len(s))  BY <1>5, <1>6, <1>8
<1>10. DeserializeImpl(s, At(from, vals), type) = At(Len(a) + Len(b), Append(vals, v))  BY <1>5, <1>7, <1>9 DEF At
<1>11. QED  BY <1>10 DEF s, from, ReadBetween

\* Two adjacent pieces are the piece of both.
LEMMA Adjacent ==
  ASSUME NEW s \in Seq(Byte), NEW i \in Nat, NEW j \in Nat, NEW k \in Nat, i <= j, j <= k, k <= Len(s)
  PROVE  /\ SubSeq(s, i + 1, j) \in Seq(Byte) /\ Len(SubSeq(s, i + 1, j)) = j - i
         /\ SubSeq(s, i + 1, j) \o SubSeq(s, j + 1, k) = SubSeq(s, i + 1, k)
<1>1. SubSeq(s, i + 1, j) \in Seq(Byte) /\ Len(SubSeq(s, i + 1, j)) = j - i  OBVIOUS
<1>2. /\ i + 1 \in 1 .. Len(s) + 1 /\ j \in (i + 1) - 1 .. Len(s) /\ k \in j .. Len(s)
  OBVIOUS
<1>3. SubSeq(s, i + 1, j) \o SubSeq(s, j + 1, k) = SubSeq(s, i + 1, k)  BY <1>2, ConcatAdjacentSubSeq
<1>4. QED  BY <1>1, <1>3

\* The same at the beginning.
LEMMA FrontAndNext ==
  ASSUME NEW s \in Seq(Byte), NEW j \in Nat, NEW k \in Nat, j <= k, k <= Len(s)
  PROVE  SubSeq(s, 1, j) \o SubSeq(s, j + 1, k) = SubSeq(s, 1, k)
<1>1. 1 \in 1 .. Len(s) + 1 /\ j \in 1 - 1 .. Len(s) /\ k \in j .. Len(s)  OBVIOUS
<1>2. QED  BY <1>1, ConcatAdjacentSubSeq

AllValues == UNION {Values(type) : type \in Types}
Reads(s) == [ok : BOOLEAN, offset : 0 .. Len(s), vals : Seq(AllValues)]

\* What is read from somewhere is a value whose bytes are there.
LEMMA ValueMadeBack ==
  ASSUME NEW type \in Types, NEW s \in Seq(Byte), NEW x \in Reads(s), DeserializeImpl(s, x, type).ok
  PROVE  /\ x.ok
         /\ \E to \in x.offset + 1 .. Len(s), v \in Values(type) :
              /\ DeserializeImpl(s, x, type) = [ok |-> TRUE, offset |-> to, vals |-> Append(x.vals, v)]
              /\ SerializeImpl(type, v) = SubSeq(s, x.offset + 1, to)
<1> DEFINE r == DeserializeImpl(s, x, type)
           from == x.offset
           vals == x.vals
           w == Width(type)
           d == SubSeq(s, from + 1, from + w)
           u == Number(d)
           to == from + Length(type, u)
           text == SubSeq(s, from + w + 1, to)
           v == Value(type, u, text)
<1>1. from \in 0 .. Len(s)  BY DEF Reads
<1>2. /\ x.ok /\ from + w <= Len(s) /\ to <= Len(s)
      /\ r = [ok |-> TRUE, offset |-> to, vals |-> Append(vals, v)]
  <2>1. r = IF ~x.ok \/ from + w > Len(s) \/ to > Len(s) THEN Refused
            ELSE [ok |-> TRUE, offset |-> to, vals |-> Append(vals, v)]
    BY Zenon DEF DeserializeImpl
  <2>2. Refused.ok = FALSE  BY DEF Refused
  <2>3. r.ok  OBVIOUS
  <2> HIDE DEF r, from, vals, to, w, v
  <2>4. x.ok /\ ~(from + w > Len(s)) /\ ~(to > Len(s)) /\ r = [ok |-> TRUE, offset |-> to, vals |-> Append(vals, v)]
    BY <2>1, <2>2, <2>3, Zenon
  <2>5. w \in Nat  BY Widths DEF w
  <2>6. Length(type, u) \in Nat
    <3>1. from \in Nat /\ from + w \in Nat /\ from <= from + w /\ from + w <= Len(s)  BY <1>1, <2>4, <2>5
    <3>2. d \in Seq(Byte)  BY <3>1, Adjacent
    <3> HIDE DEF d
    <3>3. u \in 0 .. Power[Len(d)] - 1  BY <3>2, DigitsOfNumber
    <3> HIDE DEF u
    <3>4. u \in Nat  BY <3>3
    <3>5. QED  BY <2>5, <3>4 DEF Length, w
  <2>7. Len(s) \in Nat /\ from \in Nat  BY <1>1
  <2>8. to \in Nat  BY <2>6, <2>7 DEF to
  <2>9. from + w <= Len(s) /\ to <= Len(s)  BY <2>4, <2>5, <2>8, <2>7
  <2>10. QED  BY <2>4, <2>9
<1> HIDE DEF r, from, vals
<1>3. w \in Nat \ {0} /\ from \in Nat /\ Len(s) \in Nat  BY <1>1, Widths
<1>4. d \in Seq(Byte) /\ Len(d) = w
  <2> HIDE DEF w, to
  <2>1. from + w \in Nat /\ from <= from + w /\ (from + w) - from = w  BY <1>3
  <2>2. QED  BY <1>2, <1>3, <2>1, Adjacent
<1>5. u \in 0 .. Power[w] - 1 /\ Digits(u, w) = d  BY <1>4, DigitsOfNumber
<1>6. Power[w] \in Nat  BY <1>3, PowerSteps
<1> DEFINE Found == \E y \in from + 1 .. Len(s), z \in Values(type) :
                      /\ r = [ok |-> TRUE, offset |-> y, vals |-> Append(vals, z)]
                      /\ SerializeImpl(type, z) = SubSeq(s, from + 1, y)
<1>7. ASSUME type # "string" PROVE Found
  <2>1. type \in Numeric  BY <1>7 DEF Numeric
  <2>2. v \in Values(type) /\ SerializeImpl(type, v) = d  BY <1>5, <2>1, DigitsAsNumber
  <2> HIDE DEF w, d, u, v
  <2>3. to = from + w
    <3>1. Length(type, u) = w + 0  BY <1>7 DEF Length, w
    <3>2. QED  BY <1>3, <3>1
  <2> HIDE DEF to
  <2>4. to \in from + 1 .. Len(s)  BY <1>2, <1>3, <2>3
  <2>5. d = SubSeq(s, from + 1, to)  BY <2>3 DEF d
  <2>6. QED  BY <1>2, <2>2, <2>4, <2>5
<1>8. ASSUME type = "string" PROVE Found
  <2>1. w = Short  BY <1>8, Widths
  <2> HIDE DEF w, d, u
  <2>2. u \in Nat /\ u < Power[Short]  BY <1>5, <1>6, <2>1
  <2>3. Length(type, u) = w + u  BY <1>8 DEF Length, w
  <2>4. to = (from + w) + u  BY <1>3, <2>2, <2>3
  <2>5. v = text  BY <1>8 DEF Value
  <2> HIDE DEF to, v
  <2>6. from + w \in Nat /\ to \in Nat /\ from <= from + w /\ from + w <= to /\ to - (from + w) = u
    BY <1>3, <2>2, <2>4
  <2>7. text \in Seq(Byte) /\ Len(text) = u
    <3>1. to <= to  BY <2>6
    <3>2. QED  BY <1>2, <2>6, <3>1, Adjacent
  <2>8. d \o text = SubSeq(s, from + 1, to)  BY <1>2, <1>3, <2>6, Adjacent DEF d
  <2> HIDE DEF text
  <2>9. text \in Texts
    <3>1. u \in 0 .. Power[Short] - 1  BY <1>5, <2>1
    <3>2. text \in [1 .. u -> Byte]  BY <2>7
    <3>3. QED  BY <3>1, <3>2 DEF Texts
  <2>10. v \in Values(type)  BY <1>8, <2>5, <2>9 DEF Values
  <2>11. SerializeImpl(type, v) = d \o text
    <3>1. SerializeImpl(type, v) = Digits(Len(v), Short) \o v  BY <1>8 DEF SerializeImpl
    <3>2. QED  BY <1>5, <2>1, <2>5, <2>7, <3>1
  <2>12. to \in from + 1 .. Len(s)  BY <1>2, <1>3, <2>2, <2>4
  <2>13. QED  BY <1>2, <2>8, <2>10, <2>11, <2>12
<1>9. Found  BY <1>7, <1>8
<1>10. QED  BY <1>2, <1>9 DEF r, from, vals

-----------------------------------------------------------------------------
(* A record.                                                               *)

IsRecord(types, vals) == /\ vals \in [1 .. Len(types) -> AllValues]
                     /\ \A i \in 1 .. Len(types) : vals[i] \in Values(types[i])

\* What Serialize goes through.
SerializeRun(s, types, vals) ==
  /\ s \in [0 .. Len(types) -> Seq(Byte)] /\ s[0] = <<>>
  /\ \A i \in 1 .. Len(types) : s[i] = s[i - 1] \o SerializeImpl(types[i], vals[i])

\* Its loop gives it.
LEMMA SerializeSteps ==
  ASSUME NEW types \in Seq(Types), NEW vals, IsRecord(types, vals)
  PROVE  \E s : SerializeRun(s, types, vals) /\ Serialize(types, vals) = s[Len(types)]
<1> DEFINE N == Len(types)
           b == [i \in 1 .. N |-> SerializeImpl(types[i], vals[i])]
           Solves(s) == s = [i \in 0 .. N |-> IF i = 0 THEN <<>> ELSE s[i - 1] \o SerializeImpl(types[i], vals[i])]
           step == [i \in 1 .. N |-> [x \in Seq(Byte) |-> x \o b[i]]]
           s == CHOOSE s : Solves(s)
<1>1. N \in Nat /\ \A i \in 1 .. N : types[i] \in Types /\ vals[i] \in Values(types[i])  BY DEF IsRecord
<1> HIDE DEF N
<1>2. \A i \in 1 .. N : b[i] \in Seq(Byte) /\ b[i] = SerializeImpl(types[i], vals[i])  BY <1>1, ValueBytes
<1> HIDE DEF b
<1>3. step \in [1 .. N -> [Seq(Byte) -> Seq(Byte)]] /\ <<>> \in Seq(Byte)  BY <1>2
<1> HIDE DEF step
<1>4. PICK f : UpTo(f, N, Seq(Byte), <<>>, step)  BY <1>1, <1>3, RecursionUpTo
<1>5. /\ f \in [0 .. N -> Seq(Byte)] /\ f[0] = <<>>
      /\ \A i \in 1 .. N : f[i] = step[i][f[i - 1]] /\ f[i - 1] \in Seq(Byte)
  <2>1. \A i \in 1 .. N : i - 1 \in 0 .. N  BY <1>1
  <2>2. QED  BY <1>4, <2>1 DEF UpTo
<1>6. \A i \in 1 .. N : f[i] = f[i - 1] \o b[i]  BY <1>5 DEF step
<1>7. Solves(f)
  <2>1. \A i \in 0 .. N : i = 0 \/ i \in 1 .. N  OBVIOUS
  <2>2. \A i \in 0 .. N : f[i] = IF i = 0 THEN <<>> ELSE f[i - 1] \o SerializeImpl(types[i], vals[i])
    BY <1>2, <1>5, <1>6, <2>1
  <2>3. f = [i \in 0 .. N |-> f[i]]  BY <1>5
  <2>4. QED  BY <2>2, <2>3
<1>8. Solves(s)
  <2> HIDE DEF Solves
  <2> QED  BY <1>7
<1>9. Serialize(types, vals) = s[N]  BY DEF Serialize, N
<1> HIDE DEF s
<1>10. s[0] = <<>>  BY <1>1, <1>8
<1>11. \A i \in 1 .. N : s[i] = s[i - 1] \o SerializeImpl(types[i], vals[i])
  <2>1. \A i \in 1 .. N : i \in 0 .. N /\ i # 0  OBVIOUS
  <2>2. QED  BY <1>8, <2>1
<1>12. \A i \in 0 .. N : s[i] \in Seq(Byte)
  <2> DEFINE T == {i \in 0 .. N : s[i] \in Seq(Byte)}
  <2>1. 0 \in T
    <3>1. 0 \in 0 .. N /\ <<>> \in Seq(Byte)  BY <1>1
    <3>2. QED  BY <1>10, <3>1
  <2>2. ASSUME NEW i \in 1 .. N, i - 1 \in T PROVE i \in T
    <3>1. i \in 0 .. N /\ s[i - 1] \in Seq(Byte)  BY <1>1, <2>2
    <3>2. b[i] \in Seq(Byte) /\ s[i] = s[i - 1] \o b[i]  BY <1>2, <1>11
    <3>3. s[i - 1] \o b[i] \in Seq(Byte)  BY <3>1, <3>2
    <3>4. QED  BY <3>1, <3>2, <3>3
  <2> HIDE DEF T
  <2>3. \A i \in 0 .. N : i \in T  BY <1>1, <2>1, <2>2, InductionUpTo
  <2>4. QED  BY <2>3 DEF T
<1>13. s \in [0 .. N -> Seq(Byte)]  BY <1>8, <1>12
<1>14. QED  BY <1>9, <1>10, <1>11, <1>13 DEF SerializeRun, N

\* What is written first stays in front.
Begins(a, z) == \E c \in Seq(Byte) : z = a \o c

LEMMA SerializePrefix ==
  ASSUME NEW types \in Seq(Types), NEW vals, NEW s, SerializeRun(s, types, vals), IsRecord(types, vals)
  PROVE  \A i \in 0 .. Len(types) : Begins(s[i], s[Len(types)])
<1>1. PICK N \in Nat : N = Len(types)  OBVIOUS
<1>2. /\ \A i \in 0 .. N : s[i] \in Seq(Byte)
      /\ \A i \in 1 .. N : s[i] = s[i - 1] \o SerializeImpl(types[i], vals[i])
      /\ \A i \in 1 .. N : SerializeImpl(types[i], vals[i]) \in Seq(Byte)
  <2>1. \A i \in 0 .. N : s[i] \in Seq(Byte)  BY <1>1 DEF SerializeRun
  <2>2. \A i \in 1 .. N : s[i] = s[i - 1] \o SerializeImpl(types[i], vals[i])  BY <1>1 DEF SerializeRun
  <2>3. \A i \in 1 .. N : types[i] \in Types /\ vals[i] \in Values(types[i])  BY <1>1 DEF IsRecord
  <2>4. \A i \in 1 .. N : SerializeImpl(types[i], vals[i]) \in Seq(Byte)  BY <2>3, ValueBytes
  <2>5. QED  BY <2>1, <2>2, <2>4
<1> DEFINE T == {k \in 0 .. N : \E c \in Seq(Byte) : s[N] = s[N - k] \o c}
<1>3. 0 \in T
  <2>1. N - 0 = N /\ s[N] \in Seq(Byte)  BY <1>2
  <2>2. s[N] = s[N] \o <<>> /\ <<>> \in Seq(Byte)  BY <2>1
  <2>3. 0 \in 0 .. N  OBVIOUS
  <2>4. QED  BY <2>1, <2>2, <2>3
<1>4. ASSUME NEW k \in 1 .. N, k - 1 \in T PROVE k \in T
  <2>1. PICK c \in Seq(Byte) : s[N] = s[N - (k - 1)] \o c  BY <1>4
  <2>2. PICK i \in 1 .. N : i = N - (k - 1) /\ i - 1 = N - k /\ i - 1 \in 0 .. N
    <3>1. N - (k - 1) \in 1 .. N /\ (N - (k - 1)) - 1 = N - k /\ N - k \in 0 .. N  OBVIOUS
    <3>2. QED  BY <3>1
  <2>3. PICK b \in Seq(Byte) : b = SerializeImpl(types[i], vals[i])  BY <1>2
  <2>4. s[N] = (s[i - 1] \o b) \o c  BY <1>2, <2>1, <2>2, <2>3
  <2>5. s[i - 1] \in Seq(Byte)  BY <1>2, <2>2
  <2>6. b \o c \in Seq(Byte)  OBVIOUS
  <2>7. s[i - 1] \o (b \o c) = (s[i - 1] \o b) \o c  BY <2>5, Associative
  <2>8. k \in 0 .. N  OBVIOUS
  <2>9. QED  BY <2>2, <2>4, <2>6, <2>7, <2>8
<1> HIDE DEF T
<1>5. \A k \in 0 .. N : k \in T  BY <1>3, <1>4, InductionUpTo
<1>6. \A i \in 0 .. N : N - i \in 0 .. N /\ N - (N - i) = i  OBVIOUS
<1>7. \A k \in 0 .. N : \E c \in Seq(Byte) : s[N] = s[N - k] \o c  BY <1>5 DEF T
<1>8. \A i \in 0 .. N : \E c \in Seq(Byte) : s[N] = s[i] \o c
  <2> SUFFICES ASSUME NEW i \in 0 .. N PROVE \E c \in Seq(Byte) : s[N] = s[i] \o c  OBVIOUS
  <2>1. PICK k \in 0 .. N : k = N - i /\ N - k = i  BY <1>6
  <2>2. PICK c \in Seq(Byte) : s[N] = s[N - k] \o c  BY <1>7
  <2>3. s[N] = s[i] \o c  BY <2>1, <2>2
  <2>4. QED  BY <2>3
<1>9. QED  BY <1>1, <1>8 DEF Begins

\* From a sound place one value more is read, or nothing.
LEMMA OneRead ==
  ASSUME NEW s \in Seq(Byte), NEW x \in Reads(s), NEW type \in Types
  PROVE  DeserializeImpl(s, x, type) \in Reads(s) /\ (DeserializeImpl(s, x, type).ok => x.ok)
<1> DEFINE r == DeserializeImpl(s, x, type)
<1>1. Refused \in Reads(s) /\ ~Refused.ok  BY DEF Refused, Reads
<1>2. x.ok \in BOOLEAN /\ x.offset \in 0 .. Len(s) /\ x.vals \in Seq(AllValues)
  BY DEF Reads
<1>3. CASE ~x.ok
  <2>1. r = Refused  BY <1>3, Zenon DEF DeserializeImpl
  <2>2. QED  BY <1>1, <2>1
<1>4. CASE x.ok
  <2>1. r = Refused \/ r.ok
    <3>1. \A c, y : (IF c THEN Refused ELSE [ok |-> TRUE, offset |-> y[1], vals |-> y[2]]) = Refused
                    \/ (IF c THEN Refused ELSE [ok |-> TRUE, offset |-> y[1], vals |-> y[2]]).ok
      OBVIOUS
    <3>2. QED  BY DEF DeserializeImpl
  <2>2. ASSUME r.ok PROVE r \in Reads(s)
    <3>1. PICK to \in x.offset + 1 .. Len(s), v \in Values(type) :
             r = [ok |-> TRUE, offset |-> to, vals |-> Append(x.vals, v)]
      BY <2>2, ValueMadeBack
    <3> HIDE DEF r
    <3>2. v \in AllValues  BY DEF AllValues
    <3>3. Append(x.vals, v) \in Seq(AllValues) /\ to \in 0 .. Len(s)  BY <1>2, <3>2
    <3>4. QED  BY <3>1, <3>3 DEF Reads
  <2>3. QED  BY <1>1, <1>4, <2>1, <2>2
<1>5. QED  BY <1>3, <1>4

\* What Deserialize goes through.
Start == [ok |-> TRUE, offset |-> 0, vals |-> <<>>]
DeserializeRun(r, types, s) ==
  /\ r \in [0 .. Len(types) -> Reads(s)] /\ r[0] = Start
  /\ \A i \in 1 .. Len(types) : r[i] = DeserializeImpl(s, r[i - 1], types[i])

\* Its loop gives it.
LEMMA DeserializeSteps ==
  ASSUME NEW types \in Seq(Types), NEW s \in Seq(Byte)
  PROVE  \E r : /\ DeserializeRun(r, types, s)
                /\ Deserialize(types, s) = IF r[Len(types)].ok /\ r[Len(types)].offset = Len(s)
                                           THEN r[Len(types)] ELSE Refused
<1> DEFINE N == Len(types)
           Solves(r) == r = [i \in 0 .. N |-> IF i = 0 THEN [ok |-> TRUE, offset |-> 0, vals |-> <<>>]
                                              ELSE DeserializeImpl(s, r[i - 1], types[i])]
           step == [i \in 1 .. N |-> [x \in Reads(s) |-> DeserializeImpl(s, x, types[i])]]
           r == CHOOSE r : Solves(r)
<1>1. N \in Nat /\ \A i \in 1 .. N : types[i] \in Types  OBVIOUS
<1>2. Start \in Reads(s)  BY DEF Start, Reads
<1>3. \A i \in 1 .. N, x \in Reads(s) : DeserializeImpl(s, x, types[i]) \in Reads(s)  BY <1>1, OneRead
<1>4. Deserialize(types, s) = IF r[N].ok /\ r[N].offset = Len(s) THEN r[N] ELSE Refused
  BY Zenon DEF Deserialize
<1> HIDE DEF N
<1>5. step \in [1 .. N -> [Reads(s) -> Reads(s)]]  BY <1>3
<1> HIDE DEF step
<1>6. PICK f : UpTo(f, N, Reads(s), Start, step)  BY <1>1, <1>2, <1>5, RecursionUpTo
<1>7. /\ f \in [0 .. N -> Reads(s)] /\ f[0] = Start
      /\ \A i \in 1 .. N : f[i] = step[i][f[i - 1]] /\ f[i - 1] \in Reads(s)
  <2>1. \A i \in 1 .. N : i - 1 \in 0 .. N  BY <1>1
  <2>2. QED  BY <1>6, <2>1 DEF UpTo
<1>8. \A i \in 1 .. N : f[i] = DeserializeImpl(s, f[i - 1], types[i])  BY <1>7 DEF step
<1>9. Solves(f)
  <2>1. \A i \in 0 .. N : i = 0 \/ i \in 1 .. N  OBVIOUS
  <2>2. \A i \in 0 .. N : f[i] = IF i = 0 THEN Start ELSE DeserializeImpl(s, f[i - 1], types[i])
    BY <1>7, <1>8, <2>1
  <2>3. f = [i \in 0 .. N |-> f[i]]  BY <1>7
  <2>4. QED  BY <2>2, <2>3 DEF Start
<1>10. Solves(r)
  <2> HIDE DEF Solves
  <2> QED  BY <1>9
<1> HIDE DEF r
<1>11. r[0] = Start  BY <1>1, <1>10 DEF Start
<1>12. \A i \in 1 .. N : r[i] = DeserializeImpl(s, r[i - 1], types[i])
  <2>1. \A i \in 1 .. N : i \in 0 .. N /\ i # 0  OBVIOUS
  <2>2. QED  BY <1>10, <2>1
<1>13. \A i \in 0 .. N : r[i] \in Reads(s)
  <2> DEFINE T == {i \in 0 .. N : r[i] \in Reads(s)}
  <2>1. 0 \in T
    <3>1. 0 \in 0 .. N  BY <1>1
    <3>2. QED  BY <1>2, <1>11, <3>1
  <2>2. ASSUME NEW i \in 1 .. N, i - 1 \in T PROVE i \in T
    <3>1. i \in 0 .. N /\ r[i - 1] \in Reads(s)  BY <1>1, <2>2
    <3>2. r[i] \in Reads(s)  BY <1>3, <1>12, <3>1
    <3>3. QED  BY <3>1, <3>2
  <2> HIDE DEF T
  <2>3. \A i \in 0 .. N : i \in T  BY <1>1, <2>1, <2>2, InductionUpTo
  <2>4. QED  BY <2>3 DEF T
<1>14. r \in [0 .. N -> Reads(s)]  BY <1>10, <1>13
<1>15. DeserializeRun(r, types, s)  BY <1>11, <1>12, <1>14 DEF DeserializeRun, N
<1>16. QED  BY <1>4, <1>15 DEF N

\* A beginning and the next element.
LEMMA OneLonger ==
  ASSUME NEW S, NEW v \in Seq(S), NEW i \in 1 .. Len(v)
  PROVE  Append(SubSeq(v, 1, i - 1), v[i]) = SubSeq(v, 1, i)
<1> DEFINE a == SubSeq(v, 1, i - 1)
           b == SubSeq(v, 1, i)
<1>1. a \in Seq(S) /\ Len(a) = i - 1 /\ \A j \in 1 .. i - 1 : a[j] = v[j]  OBVIOUS
<1>2. b \in Seq(S) /\ Len(b) = i /\ \A j \in 1 .. i : b[j] = v[j]  OBVIOUS
<1> HIDE DEF a, b
<1>3. v[i] \in S  OBVIOUS
<1> DEFINE c == Append(a, v[i])
<1>4. c \in Seq(S) /\ Len(c) = i /\ \A j \in 1 .. i : c[j] = v[j]  BY <1>1, <1>3
<1> HIDE DEF c
<1>5. c = b  BY <1>2, <1>4
<1>6. QED  BY <1>5 DEF a, b, c

\* deserialize() of what serialize() made gives the values back, for any
\* number of fields, text of any bytes among them (redis_adapter.h:93-102,
\* 164-285).
THEOREM RecordReadBack ==
  ASSUME NEW types \in Seq(Types), NEW vals, IsRecord(types, vals)
  PROVE  /\ Serialize(types, vals) \in Seq(Byte)
         /\ Deserialize(types, Serialize(types, vals)).ok
         /\ Deserialize(types, Serialize(types, vals)).vals = vals
<1>1. PICK N \in Nat : N = Len(types)  OBVIOUS
<1>2. PICK s : SerializeRun(s, types, vals) /\ Serialize(types, vals) = s[N]  BY <1>1, SerializeSteps
<1>3. /\ \A i \in 0 .. N : s[i] \in Seq(Byte)
      /\ s[0] = <<>>
      /\ \A i \in 1 .. N : s[i] = s[i - 1] \o SerializeImpl(types[i], vals[i])
  BY <1>1, <1>2 DEF SerializeRun
<1>4. \A i \in 1 .. N : types[i] \in Types /\ vals[i] \in Values(types[i])  BY <1>1 DEF IsRecord
<1>5. vals \in Seq(AllValues) /\ Len(vals) = N  BY <1>1 DEF IsRecord
<1>6. \A i \in 0 .. N : \E c \in Seq(Byte) : s[N] = s[i] \o c
  <2>1. SerializeRun(s, types, vals)  BY <1>2
  <2>2. \A i \in 0 .. Len(types) : Begins(s[i], s[Len(types)])  BY <2>1, SerializePrefix
  <2>3. QED  BY <1>1, <2>2 DEF Begins
<1>7. PICK z \in Seq(Byte) : z = s[N]
  <2>1. N \in 0 .. N  OBVIOUS
  <2>2. QED  BY <1>3, <2>1
<1>8. PICK r : /\ DeserializeRun(r, types, z)
               /\ Deserialize(types, z) = IF r[N].ok /\ r[N].offset = Len(z) THEN r[N] ELSE Refused
  BY <1>1, DeserializeSteps
<1>9. r[0] = Start /\ \A i \in 1 .. N : r[i] = DeserializeImpl(z, r[i - 1], types[i])
  BY <1>1, <1>8 DEF DeserializeRun
<1> DEFINE Read(i) == At(Len(s[i]), SubSeq(vals, 1, i))
           T == {i \in 0 .. N : r[i] = Read(i)}
<1>10. 0 \in T
  <2>1. SubSeq(vals, 1, 0) = <<>> /\ Len(<<>>) = 0  BY <1>5
  <2>2. Read(0) = Start  BY <1>3, <2>1 DEF Start, At
  <2>3. 0 \in 0 .. N  OBVIOUS
  <2>4. QED  BY <1>9, <2>2, <2>3
<1>11. ASSUME NEW i \in 1 .. N, i - 1 \in T PROVE i \in T
  <2>1. i \in 0 .. N /\ i - 1 \in 0 .. N  OBVIOUS
  <2>2. PICK a \in Seq(Byte) : a = s[i - 1]  BY <1>3, <2>1
  <2>3. PICK b \in Seq(Byte) : b = SerializeImpl(types[i], vals[i])  BY <1>4, ValueBytes
  <2>4. PICK c \in Seq(Byte) : z = s[i] \o c  BY <1>6, <1>7, <2>1
  <2>5. s[i] = a \o b  BY <1>3, <2>2, <2>3
  <2>6. z = (a \o b) \o c  BY <2>4, <2>5
  <2>7. PICK before : before = SubSeq(vals, 1, i - 1)  OBVIOUS
  <2>8. PICK type \in Types : type = types[i]  BY <1>4
  <2>9. PICK v \in Values(type) : v = vals[i] /\ b = SerializeImpl(type, v)  BY <1>4, <2>3, <2>8
  <2>10. r[i] = At(Len(a) + Len(b), Append(before, v))
    <3>1. r[i - 1] = At(Len(a), before)  BY <1>11, <2>2, <2>7
    <3>2. r[i] = DeserializeImpl((a \o b) \o c, At(Len(a), before), type)  BY <1>9, <2>6, <2>8, <3>1
    <3>3. ReadBetween(a, b, c, type, v, before)  BY <2>9, ValueReadBack
    <3>4. QED  BY <3>2, <3>3 DEF ReadBetween
  <2>11. Len(s[i]) = Len(a) + Len(b)  BY <2>5
  <2>12. Append(SubSeq(vals, 1, i - 1), vals[i]) = SubSeq(vals, 1, i)  BY <1>5, OneLonger
  <2>13. r[i] = Read(i)  BY <2>7, <2>9, <2>10, <2>11, <2>12
  <2>14. QED  BY <2>1, <2>13
<1> HIDE DEF T
<1>12. \A i \in 0 .. N : i \in T  BY <1>10, <1>11, InductionUpTo
<1>13. r[N] = Read(N)
  <2>1. N \in 0 .. N  OBVIOUS
  <2>2. QED  BY <1>12, <2>1 DEF T
<1>14. SubSeq(vals, 1, N) = vals  BY <1>5, SubSeqFull
<1>15. r[N] = [ok |-> TRUE, offset |-> Len(z), vals |-> vals]  BY <1>7, <1>13, <1>14 DEF At
<1>16. Deserialize(types, z) = [ok |-> TRUE, offset |-> Len(z), vals |-> vals]  BY <1>8, <1>15
<1>17. QED  BY <1>2, <1>7, <1>16

\* And it accepts no other string: what it returns is a record of the types,
\* and serialize() makes of it the very string that was given.
THEOREM RecordMadeBack ==
  ASSUME NEW types \in Seq(Types), NEW s \in Seq(Byte), Deserialize(types, s).ok
  PROVE  /\ IsRecord(types, Deserialize(types, s).vals)
         /\ Serialize(types, Deserialize(types, s).vals) = s
<1>1. PICK N \in Nat : N = Len(types)  OBVIOUS
<1>2. PICK r : /\ DeserializeRun(r, types, s)
               /\ Deserialize(types, s) = IF r[N].ok /\ r[N].offset = Len(s) THEN r[N] ELSE Refused
  BY <1>1, DeserializeSteps
<1>3. r[N].ok /\ r[N].offset = Len(s) /\ Deserialize(types, s) = r[N]
  <2>1. ~Refused.ok  BY DEF Refused
  <2>2. QED  BY <1>2, <2>1
<1>4. /\ r[0] = Start
      /\ \A i \in 0 .. N : r[i] \in Reads(s)
      /\ \A i \in 1 .. N : r[i] = DeserializeImpl(s, r[i - 1], types[i])
  BY <1>1, <1>2 DEF DeserializeRun
<1>5. \A i \in 1 .. N : types[i] \in Types  BY <1>1
<1>6. \A i \in 1 .. N : i \in 0 .. N /\ i - 1 \in 0 .. N  OBVIOUS
<1>7. \A i \in 0 .. N : r[i].ok
  <2> DEFINE T == {k \in 0 .. N : r[N - k].ok}
  <2>1. 0 \in T
    <3>1. N - 0 = N /\ 0 \in 0 .. N  OBVIOUS
    <3>2. QED  BY <1>3, <3>1
  <2>2. ASSUME NEW k \in 1 .. N, k - 1 \in T PROVE k \in T
    <3>1. PICK i \in 1 .. N : i = N - (k - 1) /\ i - 1 = N - k
      <4>1. N - (k - 1) \in 1 .. N /\ (N - (k - 1)) - 1 = N - k  OBVIOUS
      <4>2. QED  BY <4>1
    <3>2. r[i].ok  BY <2>2, <3>1
    <3>3. r[i - 1] \in Reads(s) /\ types[i] \in Types  BY <1>4, <1>5, <1>6
    <3>4. r[i - 1].ok  BY <1>4, <3>2, <3>3, ValueMadeBack
    <3>5. k \in 0 .. N  OBVIOUS
    <3>6. QED  BY <3>1, <3>4, <3>5
  <2> HIDE DEF T
  <2>3. \A k \in 0 .. N : k \in T  BY <2>1, <2>2, InductionUpTo
  <2>4. \A i \in 0 .. N : N - i \in 0 .. N /\ N - (N - i) = i  OBVIOUS
  <2>5. QED  BY <2>3, <2>4 DEF T
<1> DEFINE Step(i, v) == /\ r[i].vals = Append(r[i - 1].vals, v)
                         /\ r[i].offset \in r[i - 1].offset + 1 .. Len(s)
                         /\ SerializeImpl(types[i], v) = SubSeq(s, r[i - 1].offset + 1, r[i].offset)
<1>8. ASSUME NEW i \in 1 .. N PROVE \E v \in Values(types[i]) : Step(i, v)
  <2>1. r[i - 1] \in Reads(s) /\ types[i] \in Types /\ DeserializeImpl(s, r[i - 1], types[i]).ok
    BY <1>4, <1>5, <1>6, <1>7
  <2>2. PICK to \in r[i - 1].offset + 1 .. Len(s), v \in Values(types[i]) :
           /\ DeserializeImpl(s, r[i - 1], types[i]) = [ok |-> TRUE, offset |-> to, vals |-> Append(r[i - 1].vals, v)]
           /\ SerializeImpl(types[i], v) = SubSeq(s, r[i - 1].offset + 1, to)
    BY <2>1, ValueMadeBack
  <2>3. r[i] = [ok |-> TRUE, offset |-> to, vals |-> Append(r[i - 1].vals, v)]  BY <1>4, <2>2
  <2>4. r[i].offset = to /\ r[i].vals = Append(r[i - 1].vals, v)  BY <2>3
  <2>5. QED  BY <2>2, <2>4
<1> DEFINE vals == [i \in 1 .. N |-> CHOOSE v \in Values(types[i]) : Step(i, v)]
<1>9. \A i \in 1 .. N : vals[i] \in Values(types[i]) /\ Step(i, vals[i])
  <2> HIDE DEF Step
  <2> QED  BY <1>8
<1>10. IsRecord(types, vals)
  <2>1. \A i \in 1 .. N : vals[i] \in AllValues  BY <1>5, <1>9 DEF AllValues
  <2>2. vals \in [1 .. N -> AllValues]  BY <2>1
  <2> HIDE DEF vals
  <2>3. QED  BY <1>1, <1>9, <2>2 DEF IsRecord
<1> HIDE DEF vals
<1>11. vals \in Seq(AllValues) /\ Len(vals) = N  BY <1>1, <1>10 DEF IsRecord
<1>12. PICK w : SerializeRun(w, types, vals) /\ Serialize(types, vals) = w[N]  BY <1>1, <1>10, SerializeSteps
<1>13. w[0] = <<>> /\ \A i \in 1 .. N : w[i] = w[i - 1] \o SerializeImpl(types[i], vals[i])
  BY <1>1, <1>12 DEF SerializeRun
<1> DEFINE T == {i \in 0 .. N : r[i].vals = SubSeq(vals, 1, i) /\ w[i] = SubSeq(s, 1, r[i].offset)}
<1>14. 0 \in T
  <2>1. SubSeq(vals, 1, 0) = <<>> /\ SubSeq(s, 1, 0) = <<>>  BY <1>11
  <2>2. r[0].vals = <<>> /\ r[0].offset = 0  BY <1>4 DEF Start
  <2>3. 0 \in 0 .. N  OBVIOUS
  <2>4. QED  BY <1>13, <2>1, <2>2, <2>3
<1>15. ASSUME NEW i \in 1 .. N, i - 1 \in T PROVE i \in T
  <2>1. r[i - 1].vals = SubSeq(vals, 1, i - 1) /\ w[i - 1] = SubSeq(s, 1, r[i - 1].offset)  BY <1>15
  <2>2. PICK from \in Nat, to \in Nat : from = r[i - 1].offset /\ to = r[i].offset /\ from <= to /\ to <= Len(s)
    <3>1. r[i - 1].offset \in 0 .. Len(s)  BY <1>4, <1>6 DEF Reads
    <3>2. r[i].offset \in r[i - 1].offset + 1 .. Len(s)  BY <1>9
    <3>3. QED  BY <3>1, <3>2
  <2>3. r[i].vals = SubSeq(vals, 1, i)
    <3>1. r[i].vals = Append(SubSeq(vals, 1, i - 1), vals[i])  BY <1>9, <2>1
    <3>2. QED  BY <1>11, <3>1, OneLonger
  <2>4. w[i] = SubSeq(s, 1, to)
    <3>1. w[i] = SubSeq(s, 1, from) \o SubSeq(s, from + 1, to)  BY <1>9, <1>13, <2>1, <2>2
    <3>2. QED  BY <2>2, <3>1, FrontAndNext
  <2>5. QED  BY <1>6, <2>2, <2>3, <2>4
<1> HIDE DEF T
<1>16. \A i \in 0 .. N : i \in T  BY <1>14, <1>15, InductionUpTo
<1>17. r[N].vals = SubSeq(vals, 1, N) /\ w[N] = SubSeq(s, 1, r[N].offset)
  <2>1. N \in 0 .. N  OBVIOUS
  <2>2. QED  BY <1>16, <2>1 DEF T
<1>18. SubSeq(vals, 1, N) = vals /\ SubSeq(s, 1, Len(s)) = s  BY <1>11, SubSeqFull
<1>19. Deserialize(types, s).vals = vals /\ w[N] = s  BY <1>3, <1>17, <1>18
<1>20. QED  BY <1>10, <1>12, <1>19

-----------------------------------------------------------------------------
(* The order of records.                                                   *)

\* Strings that begin alike are ordered by what comes next.
LEMMA BeforeInside ==
  ASSUME NEW a \in Seq(Byte), NEW b \in Seq(Byte), NEW d \in Seq(Byte), NEW c \in Seq(Byte), NEW e \in Seq(Byte),
         Len(b) = Len(d), Before(b, d)
  PROVE  Before((a \o b) \o c, (a \o d) \o e)
<1> DEFINE s == (a \o b) \o c
           t == (a \o d) \o e
<1>1. PICK i \in 1 .. Len(b) : b[i] < d[i] /\ \A j \in 1 .. i - 1 : b[j] = d[j]  BY DEF Before
<1>2. Len(a) \in Nat /\ Len(b) \in Nat /\ Len(c) \in Nat /\ Len(e) \in Nat  OBVIOUS
<1>3. s \in Seq(Byte) /\ Len(s) = Len(a) + Len(b) + Len(c)  BY Middle
<1>4. t \in Seq(Byte) /\ Len(t) = Len(a) + Len(b) + Len(e)  BY Middle
<1>5. \A j \in 1 .. Len(a) : s[j] = a[j] /\ t[j] = a[j]  OBVIOUS
<1>6. \A j \in 1 .. Len(b) : s[Len(a) + j] = b[j] /\ t[Len(a) + j] = d[j]  OBVIOUS
<1> HIDE DEF s, t
<1>7. PICK k \in Nat : k = Len(a) + i  BY <1>2
<1>8. k \in DOMAIN s \intersect DOMAIN t  BY <1>2, <1>3, <1>4, <1>7
<1>9. s[k] < t[k]  BY <1>1, <1>6, <1>7
<1>10. ASSUME NEW j \in 1 .. k - 1 PROVE s[j] = t[j]
  <2>1. CASE j <= Len(a)
    <3>1. j \in 1 .. Len(a)  BY <1>2, <2>1
    <3>2. QED  BY <1>5, <3>1
  <2>2. CASE Len(a) < j
    <3>1. PICK l \in 1 .. i - 1 : j = Len(a) + l
      <4>1. j - Len(a) \in 1 .. i - 1 /\ j = Len(a) + (j - Len(a))  BY <1>2, <1>7, <2>2
      <4>2. QED  BY <4>1
    <3>2. l \in 1 .. Len(b)  OBVIOUS
    <3>3. QED  BY <1>1, <1>6, <3>1, <3>2
  <2>3. QED  BY <1>2, <2>1, <2>2
<1>11. Before(s, t)  BY <1>8, <1>9, <1>10 DEF Before
<1>12. QED  BY <1>11 DEF s, t

Numbers(types) == \A i \in 1 .. Len(types) : types[i] # "string"

\* Records before one another have strings before one another, of one length.
LEMMA RecordsInOrder ==
  ASSUME NEW types \in Seq(Types), Numbers(types),
         NEW x, IsRecord(types, x), NEW y, IsRecord(types, y)
  PROVE  /\ x \in [1 .. Len(types) -> Int]
         /\ Len(Serialize(types, x)) = Len(Serialize(types, y))
         /\ Before(x, y) => Before(Serialize(types, x), Serialize(types, y))
<1>1. PICK N \in Nat : N = Len(types)  OBVIOUS
<1>2. ASSUME NEW i \in 1 .. N
      PROVE  /\ types[i] \in Numeric /\ x[i] \in Values(types[i]) /\ y[i] \in Values(types[i])
             /\ x[i] \in Int
             /\ SerializeImpl(types[i], x[i]) \in Seq(Byte)
             /\ SerializeImpl(types[i], y[i]) \in Seq(Byte)
             /\ Len(SerializeImpl(types[i], x[i])) = Len(SerializeImpl(types[i], y[i]))
             /\ x[i] < y[i] => Before(SerializeImpl(types[i], x[i]), SerializeImpl(types[i], y[i]))
  <2>1. PICK type \in Numeric : type = types[i] /\ type \in Types /\ type # "string"
    BY <1>1 DEF Numbers, Numeric
  <2>2. PICK v \in Values(type), u \in Values(type) : v = x[i] /\ u = y[i]  BY <1>1, <2>1 DEF IsRecord
  <2>3. PICK w \in Nat : w = Width(type)  BY <2>1, Widths
  <2>4. PICK n \in 0 .. Power[w] - 1 : v \in Int /\ n = v + Shift(type) /\ SerializeImpl(type, v) = Digits(n, w)
    BY <2>3, NumberAsDigits
  <2>5. PICK m \in 0 .. Power[w] - 1 : u \in Int /\ m = u + Shift(type) /\ SerializeImpl(type, u) = Digits(m, w)
    BY <2>3, NumberAsDigits
  <2>6. Power[w] \in Nat  BY PowerSteps
  <2>7. n \in Nat /\ m \in Nat /\ n < Power[w] /\ m < Power[w]  BY <2>6
  <2>8. Shift(type) \in Int
    <3>1. Width(type) \in Nat \ {0}  BY <2>1, Widths
    <3>2. QED  BY <3>1, HalfTwice DEF Shift
  <2>9. ASSUME v < u PROVE Before(SerializeImpl(type, v), SerializeImpl(type, u))
    <3>1. n < m  BY <2>4, <2>5, <2>8, <2>9
    <3>2. QED  BY <2>4, <2>5, <2>7, <3>1, DigitsInOrder
  <2>10. /\ SerializeImpl(type, v) \in Seq(Byte) /\ SerializeImpl(type, u) \in Seq(Byte)
         /\ Len(SerializeImpl(type, v)) = Len(SerializeImpl(type, u))
    BY <2>1, ValueBytes
  <2>11. QED  BY <2>1, <2>2, <2>4, <2>9, <2>10
<1>3. x \in [1 .. N -> Int]
  <2>1. x = [i \in 1 .. N |-> x[i]]  BY <1>1 DEF IsRecord
  <2>2. QED  BY <1>2, <2>1
<1>4. PICK s : SerializeRun(s, types, x) /\ Serialize(types, x) = s[N]  BY <1>1, SerializeSteps
<1>5. PICK t : SerializeRun(t, types, y) /\ Serialize(types, y) = t[N]  BY <1>1, SerializeSteps
<1>6. /\ \A i \in 0 .. N : s[i] \in Seq(Byte)
      /\ s[0] = <<>>
      /\ \A i \in 1 .. N : s[i] = s[i - 1] \o SerializeImpl(types[i], x[i])
  BY <1>1, <1>4 DEF SerializeRun
<1>7. /\ \A i \in 0 .. N : t[i] \in Seq(Byte)
      /\ t[0] = <<>>
      /\ \A i \in 1 .. N : t[i] = t[i - 1] \o SerializeImpl(types[i], y[i])
  BY <1>1, <1>5 DEF SerializeRun
<1>8. Len(s[N]) = Len(t[N])
  <2> DEFINE T == {i \in 0 .. N : Len(s[i]) = Len(t[i])}
  <2>1. 0 \in T
    <3>1. 0 \in 0 .. N  OBVIOUS
    <3>2. QED  BY <1>6, <1>7, <3>1
  <2>2. ASSUME NEW i \in 1 .. N, i - 1 \in T PROVE i \in T
    <3>1. i \in 0 .. N /\ i - 1 \in 0 .. N  OBVIOUS
    <3>2. PICK a \in Seq(Byte), b \in Seq(Byte) : a = s[i - 1] /\ b = SerializeImpl(types[i], x[i])  BY <1>2, <1>6, <3>1
    <3>3. PICK c \in Seq(Byte), d \in Seq(Byte) : c = t[i - 1] /\ d = SerializeImpl(types[i], y[i])  BY <1>2, <1>7, <3>1
    <3>4. Len(a) = Len(c) /\ Len(b) = Len(d)  BY <1>2, <2>2, <3>2, <3>3
    <3>5. Len(a \o b) = Len(a) + Len(b) /\ Len(c \o d) = Len(c) + Len(d)  BY ConcatProperties
    <3>6. Len(a \o b) = Len(c \o d)  BY <3>4, <3>5
    <3>7. s[i] = a \o b /\ t[i] = c \o d  BY <1>6, <1>7, <3>2, <3>3
    <3>8. QED  BY <3>1, <3>6, <3>7
  <2> HIDE DEF T
  <2>3. \A i \in 0 .. N : i \in T  BY <2>1, <2>2, InductionUpTo
  <2>4. N \in 0 .. N  OBVIOUS
  <2>5. QED  BY <2>3, <2>4 DEF T
<1>9. ASSUME Before(x, y) PROVE Before(s[N], t[N])
  <2>1. PICK i \in 1 .. N : x[i] < y[i] /\ \A j \in 1 .. i - 1 : x[j] = y[j]  BY <1>3, <1>9 DEF Before
  <2>2. i \in 0 .. N /\ i - 1 \in 0 .. N  OBVIOUS
  <2>3. s[i - 1] = t[i - 1]
    <3> DEFINE T == {j \in 0 .. i - 1 : s[j] = t[j]}
    <3>1. 0 \in T
      <4>1. 0 \in 0 .. i - 1  OBVIOUS
      <4>2. QED  BY <1>6, <1>7, <4>1
    <3>2. ASSUME NEW j \in 1 .. i - 1, j - 1 \in T PROVE j \in T
      <4>1. j \in 1 .. N /\ j \in 0 .. i - 1 /\ s[j - 1] = t[j - 1] /\ x[j] = y[j]  BY <2>1, <3>2
      <4>2. s[j] = t[j]  BY <1>6, <1>7, <4>1
      <4>3. QED  BY <4>1, <4>2
    <3> HIDE DEF T
    <3>3. i - 1 \in Nat /\ i - 1 \in 0 .. i - 1  OBVIOUS
    <3>4. \A j \in 0 .. i - 1 : j \in T  BY <3>1, <3>2, <3>3, InductionUpTo
    <3>5. QED  BY <3>3, <3>4 DEF T
  <2>4. PICK a \in Seq(Byte) : a = s[i - 1] /\ a = t[i - 1]  BY <1>6, <2>2, <2>3
  <2>5. PICK b \in Seq(Byte), d \in Seq(Byte) :
           /\ b = SerializeImpl(types[i], x[i]) /\ d = SerializeImpl(types[i], y[i])
           /\ Len(b) = Len(d) /\ Before(b, d)
    BY <1>2, <2>1
  <2>6. s[i] = a \o b /\ t[i] = a \o d  BY <1>6, <1>7, <2>4, <2>5
  <2>7. Begins(s[i], s[N]) /\ Begins(t[i], t[N])  BY <1>1, <1>4, <1>5, <2>2, SerializePrefix
  <2>8. PICK c \in Seq(Byte), e \in Seq(Byte) : s[N] = (a \o b) \o c /\ t[N] = (a \o d) \o e
    BY <2>6, <2>7 DEF Begins
  <2>9. Before((a \o b) \o c, (a \o d) \o e)  BY <2>5, BeforeInside
  <2>10. QED  BY <2>8, <2>9
<1>10. QED  BY <1>1, <1>3, <1>4, <1>5, <1>8, <1>9

\* Records of numbers, signed or not, compare as their strings do
\* (redis_adapter.h:166-199), for any number of fields.
THEOREM StringsInOrder ==
  ASSUME NEW types \in Seq(Types), Numbers(types),
         NEW x, IsRecord(types, x), NEW y, IsRecord(types, y)
  PROVE  Before(x, y) <=> Before(Serialize(types, x), Serialize(types, y))
<1> DEFINE s == Serialize(types, x)
           t == Serialize(types, y)
<1>1. PICK N \in Nat : N = Len(types) /\ x \in [1 .. N -> Int] /\ y \in [1 .. N -> Int]
  <2>1. Len(types) \in Nat  OBVIOUS
  <2>2. QED  BY <2>1, RecordsInOrder
<1>2. s \in Seq(Byte) /\ t \in Seq(Byte) /\ Len(s) = Len(t)  BY RecordReadBack, RecordsInOrder
<1>3. Before(x, y) => Before(s, t)  BY RecordsInOrder
<1>4. Before(y, x) => Before(t, s)  BY RecordsInOrder
<1>5. x = y => s = t  OBVIOUS
<1> HIDE DEF s, t
<1>6. PICK L \in Nat : s \in [1 .. L -> Int] /\ t \in [1 .. L -> Int]
  <2>1. \A b \in Byte : b \in Int  BY SerializerAssumption DEF Byte
  <2>2. Len(s) \in Nat /\ s \in [1 .. Len(s) -> Int] /\ t \in [1 .. Len(s) -> Int]  BY <1>2, <2>1
  <2>3. QED  BY <2>2
<1>7. x = y \/ Before(x, y) \/ Before(y, x)  BY <1>1, Lexicographic
<1>8. ~(Before(s, t) /\ Before(t, s)) /\ (s = t => ~Before(s, t))  BY <1>6, Lexicographic
<1>9. Before(x, y) <=> Before(s, t)  BY <1>3, <1>4, <1>5, <1>7, <1>8
<1>10. QED  BY <1>9 DEF s, t

-----------------------------------------------------------------------------
(* The program of MCRedisAdapter that stores records and is given strings. *)

\* A string that goes with a record is the record's.
ConversionInv ==
  /\ shape \in Seq(Types) /\ str \in Seq(Byte)
  /\ shape = <<>> => record = <<>> /\ str = <<>>
  /\ shape # <<>> => shape \in [1 .. 1 -> Types] \union [1 .. 2 -> Types]
  /\ record # <<>> => IsRecord(shape, record) /\ str = Serialize(shape, record)

LEMMA ShapesAreTypes ==
  ASSUME NEW n \in Nat \ {0}, NEW types \in [1 .. n -> Types]
  PROVE  types \in Seq(Types) /\ Len(types) = n /\ types # <<>>
OBVIOUS

\* The records a program chooses from are records of the types.
LEMMA RecordsAreRecords ==
  ASSUME NEW types \in [1 .. 1 -> Types] \union [1 .. 2 -> Types], NEW x \in Records(types)
  PROVE  types \in Seq(Types) /\ IsRecord(types, x)
<1>1. ASSUME NEW type \in Types, NEW v \in Values(type) PROVE v \in AllValues  BY DEF AllValues
<1>2. CASE types \in [1 .. 1 -> Types]
  <2>1. types \in Seq(Types) /\ Len(types) = 1 /\ types[1] \in Types
    <3>1. 1 \in Nat \ {0} /\ 1 \in 1 .. 1  OBVIOUS
    <3>2. types \in Seq(Types) /\ Len(types) = 1  BY <1>2, <3>1, ShapesAreTypes, Zenon
    <3>3. QED  BY <1>2, <3>1, <3>2
  <2>2. PICK v \in Values(types[1]) : x = <<v>>  BY <2>1 DEF Records
  <2>3. v \in AllValues  BY <1>1, <2>1
  <2>4. x \in [1 .. 1 -> AllValues] /\ \A i \in 1 .. 1 : x[i] = v /\ i = 1  BY <2>2, <2>3
  <2>5. QED  BY <2>1, <2>4 DEF IsRecord
<1>3. CASE types \in [1 .. 2 -> Types]
  <2>1. types \in Seq(Types) /\ Len(types) = 2 /\ types[1] \in Types /\ types[2] \in Types
    <3>1. 2 \in Nat \ {0} /\ 1 \in 1 .. 2 /\ 2 \in 1 .. 2  OBVIOUS
    <3>2. types \in Seq(Types) /\ Len(types) = 2  BY <1>3, <3>1, ShapesAreTypes, Zenon
    <3>3. QED  BY <1>3, <3>1, <3>2
  <2>2. PICK v \in Values(types[1]), w \in Values(types[2]) : x = <<v, w>>  BY <2>1 DEF Records
  <2>3. v \in AllValues /\ w \in AllValues  BY <1>1, <2>1
  <2>4. x \in [1 .. 2 -> AllValues] /\ x[1] = v /\ x[2] = w  BY <2>2, <2>3
  <2>5. \A i \in 1 .. 2 : i = 1 \/ i = 2  OBVIOUS
  <2>6. \A i \in 1 .. 2 : x[i] \in Values(types[i])  BY <2>2, <2>4, <2>5
  <2>7. QED  BY <2>1, <2>4, <2>6 DEF IsRecord
<1>4. QED  BY <1>2, <1>3

\* A record with a field has bytes.
LEMMA NoEmptyString ==
  ASSUME NEW types \in Seq(Types), types # <<>>, NEW x, IsRecord(types, x)
  PROVE  Serialize(types, x) # <<>>
<1>1. PICK N \in Nat : N = Len(types) /\ 1 \in 1 .. N /\ 1 \in 0 .. N  OBVIOUS
<1>2. PICK s : SerializeRun(s, types, x) /\ Serialize(types, x) = s[N]  BY <1>1, SerializeSteps
<1>3. PICK b \in Seq(Byte) : b = SerializeImpl(types[1], x[1]) /\ Len(b) > 0
  <2>1. types[1] \in Types /\ x[1] \in Values(types[1])  BY <1>1 DEF IsRecord
  <2>2. PICK type \in Types : type = types[1]  BY <2>1
  <2>3. PICK v \in Values(type) : v = x[1]  BY <2>1, <2>2
  <2>4. Width(type) \in Nat \ {0} /\ (type = "string" => Width(type) = Short)  BY Widths
  <2>5. SerializeImpl(type, v) \in Seq(Byte)  BY ValueBytes
  <2>6. Len(SerializeImpl(type, v)) > 0
    <3>1. CASE type # "string"
      <4>1. Len(SerializeImpl(type, v)) = Width(type)  BY <3>1, ValueBytes
      <4>2. QED  BY <2>4, <4>1
    <3>2. CASE type = "string"
      <4>1. v \in Seq(Byte) /\ Len(SerializeImpl(type, v)) = Short + Len(v)  BY <3>2, ValueBytes
      <4>2. Len(v) \in Nat  BY <4>1
      <4>3. QED  BY <2>4, <3>2, <4>1, <4>2
    <3>3. QED  BY <3>1, <3>2
  <2>7. QED  BY <2>2, <2>3, <2>5, <2>6
<1>4. s[1] = b
  <2>1. 1 - 1 = 0  OBVIOUS
  <2>2. s[0] = <<>> /\ s[1] = s[1 - 1] \o SerializeImpl(types[1], x[1])  BY <1>1, <1>2 DEF SerializeRun
  <2>3. s[1] = <<>> \o b  BY <1>3, <2>1, <2>2
  <2>4. QED  BY <2>3
<1>5. Begins(s[1], s[N])  BY <1>1, <1>2, SerializePrefix
<1>6. PICK c \in Seq(Byte) : s[N] = b \o c  BY <1>4, <1>5 DEF Begins
<1>7. Len(b \o c) > 0  BY <1>3
<1>8. b \o c # <<>>  BY <1>7
<1>9. QED  BY <1>2, <1>6, <1>8

LEMMA ConversionStarts == MCInit => ConversionInv
<1>1. <<>> \in Seq(Types) /\ <<>> \in Seq(Byte)  OBVIOUS
<1>2. \A x \in [1 .. 1 -> Types] \union [1 .. 2 -> Types] : x \in Seq(Types) /\ x # <<>>
  <2>1. 1 \in Nat \ {0} /\ 2 \in Nat \ {0}  OBVIOUS
  <2>2. ASSUME NEW x \in [1 .. 1 -> Types] PROVE x \in Seq(Types) /\ x # <<>>  BY <2>1, ShapesAreTypes, Zenon
  <2>3. ASSUME NEW x \in [1 .. 2 -> Types] PROVE x \in Seq(Types) /\ x # <<>>  BY <2>1, ShapesAreTypes, Zenon
  <2>4. QED  BY <2>2, <2>3
<1>3. QED  BY <1>1, <1>2 DEF MCInit, NoConversion, ConversionInit, ConversionInv

LEMMA ConversionKeeps == ConversionInv /\ [MCNext]_<<vars, conversion>> => ConversionInv'
<1> SUFFICES ASSUME ConversionInv, [MCNext]_<<vars, conversion>> PROVE ConversionInv'  OBVIOUS
<1>1. ASSUME UNCHANGED conversion PROVE ConversionInv'  BY <1>1 DEF ConversionInv, conversion
<1>2. ASSUME shape # <<>>, NEW x \in Records(shape), Store(x) PROVE ConversionInv'
  <2>1. shape \in [1 .. 1 -> Types] \union [1 .. 2 -> Types]  BY <1>2 DEF ConversionInv
  <2>2. shape \in Seq(Types) /\ IsRecord(shape, x)  BY <2>1, RecordsAreRecords
  <2>3. Serialize(shape, x) \in Seq(Byte)  BY <2>2, RecordReadBack
  <2>4. shape' = shape /\ record' = x /\ str' = Serialize(shape, x)  BY <1>2 DEF Store
  <2>5. QED  BY <1>2, <2>1, <2>2, <2>3, <2>4 DEF ConversionInv
<1>3. ASSUME shape # <<>>, NEW n \in 1 .. 2 * Long, NEW bytes \in [1 .. n -> Byte], Given(bytes) PROVE ConversionInv'
  <2>1. n \in Nat  BY SerializerAssumption
  <2>2. bytes \in Seq(Byte)  BY <2>1
  <2>3. record = <<>>
    <3>1. str = <<>>  BY <1>3 DEF Given
    <3>2. SUFFICES ASSUME record # <<>> PROVE FALSE  OBVIOUS
    <3>3. shape \in Seq(Types) /\ IsRecord(shape, record) /\ Serialize(shape, record) = <<>>  BY <3>1, <3>2 DEF ConversionInv
    <3>4. QED  BY <1>3, <3>3, NoEmptyString
  <2>4. shape' = shape /\ record' = record /\ str' = bytes  BY <1>3 DEF Given
  <2>5. QED  BY <1>3, <2>2, <2>3, <2>4 DEF ConversionInv
<1>4. ASSUME shape # <<>>, Forget PROVE ConversionInv'
  <2>1. <<>> \in Seq(Byte)  OBVIOUS
  <2>2. QED  BY <1>4, <2>1 DEF Forget, ConversionInv
<1>5. QED  BY <1>1, <1>2, <1>3, <1>4 DEF MCNext, ConversionNext, conversion

LEMMA ConversionInvariant == MCSpec => []ConversionInv
<1>1. MCInit => ConversionInv  BY ConversionStarts
<1>2. ConversionInv /\ [MCNext]_<<vars, conversion>> => ConversionInv'  BY ConversionKeeps
<1>3. QED  BY <1>1, <1>2, PTL DEF MCSpec

\* deserialize() returns what was stored, and accepts nothing that serialize()
\* would not have made of the values it returns (redis_adapter.h:93-102,
\* 164-285).
THEOREM RecordsAreInverted == MCSpec => []DeserializeInverts
<1>1. ConversionInv => DeserializeInverts
  <2> SUFFICES ASSUME ConversionInv PROVE DeserializeInverts  OBVIOUS
  <2>1. shape \in Seq(Types) /\ str \in Seq(Byte)  BY DEF ConversionInv
  <2>2. ASSUME record # <<>>
        PROVE  Deserialize(shape, str).ok /\ Deserialize(shape, str).vals = record
    <3>1. IsRecord(shape, record) /\ str = Serialize(shape, record)  BY <2>2 DEF ConversionInv
    <3>2. QED  BY <2>1, <3>1, RecordReadBack
  <2>3. ASSUME Deserialize(shape, str).ok
        PROVE  Serialize(shape, Deserialize(shape, str).vals) = str
    BY <2>1, <2>3, RecordMadeBack
  <2>4. QED  BY <2>2, <2>3 DEF DeserializeInverts
<1>2. QED  BY <1>1, ConversionInvariant, PTL

\* The bytes of a record of numbers compare as the numbers do, field by field
\* and over the change of sign (redis_adapter.h:166-199).
THEOREM NumbersKeepOrder == MCSpec => []OrderPreserved
<1>1. ConversionInv => OrderPreserved
  <2> SUFFICES ASSUME ConversionInv, record # <<>>, \A i \in DOMAIN shape : shape[i] # "string",
                      NEW other \in Records(shape)
               PROVE  Before(record, other) <=> Before(str, Serialize(shape, other))
    BY DEF OrderPreserved
  <2>1. /\ shape \in [1 .. 1 -> Types] \union [1 .. 2 -> Types]
        /\ IsRecord(shape, record) /\ str = Serialize(shape, record)
    BY DEF ConversionInv
  <2>2. shape \in Seq(Types) /\ IsRecord(shape, other)  BY <2>1, RecordsAreRecords
  <2>3. Numbers(shape)  BY <2>2 DEF Numbers
  <2>4. QED  BY <2>1, <2>2, <2>3, StringsInOrder
<1>2. QED  BY <1>1, ConversionInvariant, PTL
=============================================================================
