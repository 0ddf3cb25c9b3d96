---------------------------- MODULE RedisClient ----------------------------
(***************************************************************************)
(* The synchronous Redis client: RedisBase (redis_base.h, redis_base.cpp)  *)
(* with the second attempt of RedisAdapter::command_impl                   *)
(* (redis_adapter.h).  One thread uses it.                                 *)
(*                                                                         *)
(* Of hiredis it keeps: a context that has seen an error neither sends nor *)
(* receives until redisReconnect gives it a new socket; a timeout does not *)
(* unsend the command, whose answer may still be on its way in the old     *)
(* socket.  Every failure of the network, and every answer that comes too  *)
(* late, is one `trouble'.                                                 *)
(***************************************************************************)
EXTENDS Naturals, Sequences

CONSTANTS MaxTries,     \* bound on max_tries
          MaxCalls,     \* bound on commands
          MaxTroubles,  \* bound on failures of the network
          MaxGarbled    \* bound on answers that are no RESP

ASSUME RedisAssumption == /\ MaxTries \in Nat \ {0} /\ MaxCalls \in Nat
                          /\ MaxTroubles \in Nat /\ MaxGarbled \in Nat

VARIABLES
  upper_retry, \* whether the adapter makes a second attempt
  max_tries,   \* the constructor's max_retries, and one
  ctx,         \* redis_ctx: "null", "ok" or the kind of its error
  connected,
  wire,        \* calls answered by the server on the present socket, unread
  pc,          \* "idle", "connect", "reconnect", "send", "await", "failed" or "raise"
  round,       \* the adapter's attempt: 1 or 2; 0 outside command_impl
  try,         \* the loop of command() ...
  attempt,     \* ... and that of connect() or reconnect() within it
  call,        \* number of the present, or last, command
  answer,      \* the call whose answer was returned; 0 for an exception
  executed,    \* how often the server executed the present command
  troubled,    \* the network failed during the present call
  troubles, garbled

config == <<upper_retry, max_tries>>
vars == <<config, ctx, connected, wire, pc, round, try, attempt, call, answer, executed,
          troubled, troubles, garbled>>
link == <<ctx, connected, wire>>
loop == <<round, try, attempt>>
outcome == <<call, answer, executed>>
network == <<troubled, troubles, garbled>>

Lost == {"io", "eof"}
Errors == Lost \union {"other"}

Init == /\ upper_retry \in BOOLEAN /\ max_tries \in 1 .. MaxTries
        /\ ctx = "null" /\ connected = FALSE /\ wire = <<>>
        /\ pc = "idle" /\ round = 0 /\ try = 0 /\ attempt = 0
        /\ call = 0 /\ answer = 0 /\ executed = 0
        /\ troubled = FALSE /\ troubles = 0 /\ garbled = 0

-----------------------------------------------------------------------------
(* The network.                                                            *)

Trouble == /\ troubles < MaxTroubles /\ troubles' = troubles + 1 /\ troubled' = TRUE
           /\ UNCHANGED garbled

-----------------------------------------------------------------------------
(* connect(), disconnect(), reconnect().                                   *)

\* An exception leaves command_impl, or connect() called by the program.
Throw == pc' = "idle" /\ answer' = 0 /\ round' = 0 /\ UNCHANGED <<call, executed>>

\* With a context left over connect() throws, and nothing changes.
Connect == /\ pc = "idle" /\ ctx = "null" /\ pc' = "connect" /\ attempt' = 1 /\ troubled' = FALSE
           /\ UNCHANGED <<config, link, round, try, outcome, troubles, garbled>>

Disconnect == /\ pc = "idle" /\ ctx # "null"
              /\ ctx' = "null" /\ connected' = FALSE /\ wire' = <<>>
              /\ UNCHANGED <<config, pc, loop, outcome, network>>

\* Mutant: the error is cleared and the socket kept.
NewSocketKept == ctx' = "ok" /\ connected' = TRUE /\ UNCHANGED wire

\* A new socket: nothing of the old one can be read any more.
NewSocket == ctx' = "ok" /\ connected' = TRUE /\ wire' = <<>>

\* connect() of the program, or of reset() in the middle of a command.
Connected == /\ pc = "connect" /\ NewSocket
             /\ IF round = 0 THEN pc' = "idle" /\ UNCHANGED try ELSE pc' = "send" /\ try' = 1
             /\ UNCHANGED <<config, round, attempt, outcome, network>>

Reconnected == /\ pc = "reconnect" /\ NewSocket /\ pc' = "send" /\ try' = try + 1
               /\ UNCHANGED <<config, round, attempt, outcome, network>>

\* A failed attempt leaves a context with an error; the last one throws,
\* in reconnect() to command() and so to the adapter, in connect() to the
\* program.
NotConnected ==
  /\ pc \in {"connect", "reconnect"} /\ Trouble
  /\ ctx' \in {"io", "other"} /\ wire' = <<>>
  /\ CASE attempt < max_tries -> attempt' = attempt + 1 /\ UNCHANGED <<pc, round, outcome>>
       [] attempt = max_tries /\ pc = "reconnect" -> pc' = "raise" /\ UNCHANGED <<attempt, round, outcome>>
       [] OTHER -> Throw /\ UNCHANGED attempt
  /\ UNCHANGED <<config, connected, try>>

-----------------------------------------------------------------------------
(* command().                                                              *)

Command == /\ pc = "idle" /\ ctx # "null" /\ call < MaxCalls
           /\ pc' = "send" /\ round' = 1 /\ try' = 1 /\ call' = call + 1
           /\ answer' = 0 /\ executed' = 0 /\ troubled' = FALSE
           /\ UNCHANGED <<config, link, attempt, troubles, garbled>>

\* redisCommand on a context with an error returns NULL at once ...
SendRefused == /\ pc = "send" /\ ctx \in Errors /\ pc' = "failed"
               /\ UNCHANGED <<config, link, loop, outcome, network>>

\* ... otherwise the command goes out, and is executed unless it is lost.
Send == /\ pc = "send" /\ ctx = "ok" /\ pc' = "await"
        /\ executed' = executed + 1 /\ wire' = Append(wire, call)
        /\ UNCHANGED <<config, ctx, connected, loop, call, answer, network>>

SendLost == /\ pc = "send" /\ ctx = "ok" /\ Trouble /\ ctx' \in Lost /\ pc' = "failed"
            /\ UNCHANGED <<config, connected, wire, loop, outcome>>

Answered == /\ pc = "await" /\ answer' = Head(wire) /\ wire' = Tail(wire)
            /\ pc' = "idle" /\ round' = 0
            /\ UNCHANGED <<config, ctx, connected, try, attempt, call, executed, network>>

\* The answer is late, or the connection is gone.
AnswerLost == /\ pc = "await" /\ Trouble /\ ctx' \in Lost /\ pc' = "failed"
              /\ UNCHANGED <<config, connected, wire, loop, outcome>>

\* The reader finds something else than an answer: a protocol error.
AnswerGarbled == /\ pc = "await" /\ garbled < MaxGarbled /\ garbled' = garbled + 1
                 /\ ctx' = "other" /\ wire' = Tail(wire) /\ pc' = "failed"
                 /\ UNCHANGED <<config, connected, loop, outcome, troubled, troubles>>

\* Mutant: only a closed connection is repaired, not one that timed out.
RepairsEof == ctx = "eof"

\* Which errors command() answers with reconnect().
Repairs == ctx \in Lost

OutOfTries == try = max_tries

\* No reply: throw, reconnect, or just try again.
Retry ==
  /\ pc = "failed"
  /\ IF OutOfTries THEN pc' = "raise" /\ UNCHANGED <<connected, attempt, try>>
     ELSE IF Repairs THEN pc' = "reconnect" /\ connected' = FALSE /\ attempt' = 1 /\ UNCHANGED try
     ELSE pc' = "send" /\ try' = try + 1 /\ UNCHANGED <<connected, attempt>>
  /\ UNCHANGED <<config, ctx, wire, round, outcome, network>>

\* command_impl: try again by itself, after a reset() unless connected.
Raise ==
  /\ pc = "raise"
  /\ IF round = 1 /\ upper_retry
       THEN /\ round' = 2
            /\ IF connected
                 THEN pc' = "send" /\ try' = 1 /\ UNCHANGED <<link, attempt>>
                 ELSE /\ ctx' = "null" /\ connected' = FALSE /\ wire' = <<>>
                      /\ pc' = "connect" /\ attempt' = 1 /\ UNCHANGED try
            /\ UNCHANGED outcome
       ELSE Throw /\ UNCHANGED <<link, try, attempt>>
  /\ UNCHANGED <<config, network>>

-----------------------------------------------------------------------------
Next == \/ Connect \/ Disconnect \/ Connected \/ Reconnected \/ NotConnected
        \/ Command \/ SendRefused \/ Send \/ SendLost
        \/ Answered \/ AnswerLost \/ AnswerGarbled \/ Retry \/ Raise

Spec == Init /\ [][Next]_vars

-----------------------------------------------------------------------------
(* Properties.                                                             *)

\* An answer that arrives after its command has timed out is never taken for
\* that of a later command or a later try, and nothing is left to be read
\* when a call returns one (redis_base.h:88-90, redis_base.cpp:63-83).
AnswerIsFresh == answer # 0 => answer = call /\ executed >= 1
NothingIsLeft == pc = "idle" /\ ctx = "ok" => wire = <<>>

\* And however the two attempts and their retries nest, a command is executed
\* at most once per try of either (redis_base.h:73-93, redis_adapter.h:109-129).
RetriesAreBounded == executed <= 2 * max_tries
AnswersMatch == AnswerIsFresh /\ NothingIsLeft /\ RetriesAreBounded

\* What no call repairs, although the flag says connected: a protocol error,
\* and with a single try, which throws before it could reconnect, any error.
Stuck == connected /\ ctx \in (IF max_tries = 1 THEN Errors ELSE {"other"})

\* With the adapter's second attempt a call throws only if the network failed
\* during that very call, or the context is stuck: "this func will throw
\* exception only if there is a connection/io issue" (redis_base.h:66-67),
\* whatever state an earlier failure left the connection in.  A garbled
\* answer, or with a single try a failure, is what gets it stuck, and only
\* disconnect(), called by the program, gets it out
\* (redis_base.h:82-90, redis_adapter.h:109-129).
Throws == pc # "idle" /\ pc' = "idle" /\ round # 0 /\ answer' = 0
Broken == garbled' # garbled \/ (max_tries = 1 /\ troubles' # troubles)

ThrowsOnlyInTrouble == Throws /\ upper_retry => troubled' \/ Stuck'
StuckByError == Stuck' => Stuck \/ Broken
StuckForGood == Stuck => Stuck' \/ pc = "idle"
RecoversByItself == [][ThrowsOnlyInTrouble /\ StuckByError /\ StuckForGood]_vars
=============================================================================
