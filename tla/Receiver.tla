------------------------------ MODULE Receiver ------------------------------
(***************************************************************************)
(* The receiver of log lines (io/receiver.cpp): one thread runs an asio    *)
(* io_context; each receive handler passes its datagram to the callback    *)
(* and starts the next receive, a chain that receive_start() begins and    *)
(* receive_stop() cancels from another thread.  All receives share one     *)
(* buffer.  The model starts after init().  A datagram stands for what was *)
(* received of it: one longer than the buffer is cut short by the receive. *)
(*                                                                         *)
(* Of asio it keeps: a receive that completes fills the buffer and queues  *)
(* its handler; cancel() and close() queue the handlers of the receives    *)
(* still pending as aborted, and leave those already queued as they are.   *)
(***************************************************************************)
EXTENDS Naturals, Sequences, FiniteSets

CONSTANTS Lines,      \* the datagrams sent, each once
          NoLine,
          MaxStarts,  \* bound on calls of receive_start()
          MaxStops,   \* bound on calls of receive_stop()
          MaxErrors   \* bound on receives that fail

ASSUME ReceiverAssumption ==
  NoLine \notin Lines /\ MaxStarts \in Nat /\ MaxStops \in Nat /\ MaxErrors \in Nat

VARIABLES
  is_running, thread_running,
  pending,    \* receives started and not completed
  ready,      \* handlers queued, each with its result
  buffer,
  owner_at,        \* where the owner is: "idle"; "closed", "wait" (in the destructor); "destroyed"
  io_at,        \* where the io thread is
  sent, received,  \* datagrams sent; and received, in order
  delivered,  \* what the callback was given, in order
  starts, stops, errors

receiverVars == <<is_running, thread_running, pending, ready, buffer, owner_at, io_at,
                  sent, received, delivered, starts, stops, errors>>
traffic == <<sent, received, delivered>>
bounds == <<starts, stops, errors>>

Done(result, line) == [result |-> result, line |-> line]
Aborted == [i \in 1 .. pending |-> Done("aborted", NoLine)]
Open == owner_at = "idle"

ReceiverInit ==
  /\ is_running = FALSE /\ thread_running = FALSE /\ pending = 0 /\ ready = <<>>
  /\ buffer = NoLine /\ owner_at = "idle" /\ io_at = "off"
  /\ sent = {} /\ received = <<>> /\ delivered = <<>>
  /\ starts = 0 /\ stops = 0 /\ errors = 0

-----------------------------------------------------------------------------
(* The owner.                                                              *)

\* Mutant: without the check that throws.
ReceiveStartAgain ==
  /\ Open /\ starts < MaxStarts /\ starts' = starts + 1
  /\ pending' = pending + 1 /\ is_running' = TRUE
  /\ UNCHANGED <<thread_running, ready, buffer, owner_at, io_at, traffic, stops, errors>>

ReceiveStart ==
  /\ Open /\ ~is_running /\ starts < MaxStarts /\ starts' = starts + 1
  /\ pending' = pending + 1 /\ is_running' = TRUE
  /\ UNCHANGED <<thread_running, ready, buffer, owner_at, io_at, traffic, stops, errors>>

ReceiveStop ==
  /\ Open /\ is_running /\ stops < MaxStops /\ stops' = stops + 1
  /\ ready' = ready \o Aborted /\ pending' = 0 /\ is_running' = FALSE
  /\ UNCHANGED <<thread_running, buffer, owner_at, io_at, traffic, starts, errors>>

IoRun == /\ Open /\ ~thread_running /\ thread_running' = TRUE /\ io_at' = "run"
         /\ UNCHANGED <<is_running, pending, ready, buffer, owner_at, traffic, bounds>>

\* The destructor: close, then reset the guard and stop the context ...
Destroy == /\ Open /\ owner_at' = "closed" /\ ready' = ready \o Aborted /\ pending' = 0
           /\ UNCHANGED <<is_running, thread_running, buffer, io_at, traffic, bounds>>

IoStop == /\ owner_at = "closed" /\ owner_at' = "wait"
               /\ UNCHANGED <<is_running, thread_running, pending, ready, buffer, io_at, traffic, bounds>>

\* ... and wait for the thread before the members are deleted.
Destroyed == /\ owner_at = "wait" /\ ~thread_running /\ owner_at' = "destroyed"
             /\ UNCHANGED <<is_running, thread_running, pending, ready, buffer, io_at, traffic, bounds>>

-----------------------------------------------------------------------------
(* The socket.                                                             *)

Send(line) == /\ Open /\ line \notin sent /\ sent' = sent \union {line}
              /\ UNCHANGED <<is_running, thread_running, pending, ready, buffer, owner_at, io_at,
                             received, delivered, bounds>>

Waiting == {line \in sent : \A i \in DOMAIN received : received[i] # line}

Complete(line) ==
  /\ Open /\ pending > 0 /\ line \in Waiting
  /\ pending' = pending - 1 /\ buffer' = line /\ received' = Append(received, line)
  /\ ready' = Append(ready, Done("ok", line))
  /\ UNCHANGED <<is_running, thread_running, owner_at, io_at, sent, delivered, bounds>>

Fail == /\ Open /\ pending > 0 /\ errors < MaxErrors /\ errors' = errors + 1
        /\ pending' = pending - 1 /\ ready' = Append(ready, Done("failed", NoLine))
        /\ UNCHANGED <<is_running, thread_running, buffer, owner_at, io_at, traffic, starts, stops>>

-----------------------------------------------------------------------------
(* The io thread.                                                          *)

Handles(result) ==
  /\ owner_at \in {"idle", "closed"} /\ io_at = "run"
  /\ ready # <<>> /\ Head(ready).result = result /\ ready' = Tail(ready)

\* The callback is given what the buffer holds now.
HandleLine ==
  /\ Handles("ok") /\ io_at' = "receive" /\ delivered' = Append(delivered, buffer)
  /\ UNCHANGED <<is_running, thread_running, pending, buffer, owner_at, sent, received, bounds>>

\* Mutant: any error ends the chain.
HandleErrorLast ==
  /\ Handles("failed") /\ io_at' = "run"
  /\ UNCHANGED <<is_running, thread_running, pending, buffer, owner_at, traffic, bounds>>

HandleError ==
  /\ Handles("failed") /\ io_at' = "receive"
  /\ UNCHANGED <<is_running, thread_running, pending, buffer, owner_at, traffic, bounds>>

HandleAborted ==
  /\ Handles("aborted")
  /\ UNCHANGED <<is_running, thread_running, pending, buffer, owner_at, io_at, traffic, bounds>>

\* receive() at the end of the handler; on a closed socket it fails at once.
Receive ==
  /\ io_at = "receive" /\ io_at' = "run"
  /\ IF Open THEN pending' = pending + 1 /\ UNCHANGED ready
             ELSE ready' = Append(ready, Done("failed", NoLine)) /\ UNCHANGED pending
  /\ UNCHANGED <<is_running, thread_running, buffer, owner_at, traffic, bounds>>

\* The context is stopped: io.run() returns and the thread says so.
IoLeave == /\ owner_at = "wait" /\ io_at = "run" /\ io_at' = "gone" /\ thread_running' = FALSE
         /\ UNCHANGED <<is_running, pending, ready, buffer, owner_at, traffic, bounds>>

-----------------------------------------------------------------------------
Calls == ReceiveStart \/ ReceiveStop \/ IoRun \/ Destroy
Socket == (\E line \in Lines : Complete(line)) \/ Fail
IoThread == HandleLine \/ HandleError \/ HandleAborted \/ Receive \/ IoLeave

Ended == owner_at = "destroyed" /\ UNCHANGED receiverVars

ReceiverNext == Calls \/ IoStop \/ Destroyed \/ (\E line \in Lines : Send(line)) \/ Socket \/ IoThread \/ Ended

\* The io thread is scheduled, a receive that can complete does, and the
\* destructor goes on.
ReceiverSpec ==
  /\ ReceiverInit /\ [][ReceiverNext]_receiverVars
  /\ WF_receiverVars(IoThread) /\ WF_receiverVars(Socket)
  /\ WF_receiverVars(IoStop) /\ WF_receiverVars(Destroyed)

-----------------------------------------------------------------------------
(* Properties.                                                             *)

\* While the receiver is running a receive is pending or a handler that will
\* start one is on its way: neither failed receives nor a stop and a start
\* in quick succession end the chain (receiver.cpp:73-85, 98-105).
ChainAlive == is_running /\ Open =>
                \/ pending > 0 \/ io_at = "receive"
                \/ \E i \in DOMAIN ready : ready[i].result # "aborted"

\* Until it is stopped for the first time, each datagram received reaches the
\* callback once, in order and unchanged, although the buffer is shared: what
\* was delivered is the beginning of what was received, and the handlers that
\* are queued have the rest (receiver.cpp:74, 94-107).
LinesUpTo(i) == Cardinality({j \in 1 .. i : ready[j].result = "ok"})
DeliveredIntact ==
  stops = 0 => /\ Len(received) = Len(delivered) + LinesUpTo(Len(ready))
               /\ \A i \in DOMAIN delivered : delivered[i] = received[i]
               /\ \A i \in DOMAIN ready : ready[i].result = "ok" =>
                                  ready[i].line = received[Len(delivered) + LinesUpTo(i)]

\* A line sent while the receiver runs is delivered, unless it is stopped or
\* destroyed first (receiver.cpp:94-107).
LinesArrive ==
  \A line \in Lines : stops = 0 /\ is_running /\ thread_running /\ line \in sent
                        ~> (\E i \in DOMAIN delivered : delivered[i] = line) \/ ~Open \/ stops > 0

=============================================================================
