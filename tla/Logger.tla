------------------------------- MODULE Logger -------------------------------
(***************************************************************************)
(* The logger (utils/logger.cpp, logger.h): threads put single messages    *)
(* under a shared lock, or collect a MultiLog and submit it under the      *)
(* exclusive lock, while others change levels through atomics and without  *)
(* a lock.  should_log[i] says ahead of time whether any sink would take a *)
(* message of level i.                                                     *)
(*                                                                         *)
(* setup() assigns pointers the other calls read; it is called while       *)
(* nothing else is in a call.  spdlog keeps the order of what one of its   *)
(* loggers is given; a message is its writer, call and level.              *)
(***************************************************************************)
EXTENDS Integers, Sequences

CONSTANTS Writers,    \* threads that log
          Setters,    \* threads that call set_level and set_stderr
          Nobody,
          PutLevels,  \* levels at which they log
          SetLevels,  \* levels they set, valid or not
          MaxCalls,   \* bound on the calls of a writer
          MaxSets,    \* bound on all calls of set_level and set_stderr
          MaxBatch    \* bound on the length of a MultiLog

LogLevels == 1 .. 5  \* CRITICAL, ERROR, WARN, INFO, DEBUG; 0 is OFF
WARN == 3
INFO == 4
DEBUG == 5
Loggers == {"stdout", "stderr", "files"}

ASSUME LoggerAssumption ==
  /\ Nobody \notin Writers /\ PutLevels \subseteq LogLevels /\ SetLevels \subseteq Int
  /\ MaxCalls \in Nat /\ MaxSets \in Nat /\ MaxBatch \in Nat

VARIABLES
  loggers,          \* those of logger_stdout, logger_stderr, logger_files that exist
  console, files,   \* logger_level_console and logger_level_files
  stderr_enabled, should_log,
  readers, writer,  \* logger_lock: its shared holders, its exclusive one
  wpc, logs,        \* a writer's place, and the levels of the messages it holds
  calls,            \* calls a writer has made
  spc, arg, max,    \* the next step of a set_level(), its arguments, its max_level while needed
  sets,
  overlapped,       \* two calls of set_level() were in progress at once
  written,          \* what each spdlog logger was given
  missing           \* loggers that do not exist and were used: a null pointer

setting == <<spc, arg, max, sets, overlapped>>
writing == <<readers, writer, wpc, logs, calls, written, missing>>
vars == <<loggers, console, files, stderr_enabled, should_log, setting, writing>>

NoArg == [types |-> {}, level |-> 0]
Quiet == wpc = [w \in Writers |-> "idle"] /\ spc = [s \in Setters |-> 0]

Init == /\ loggers = {} /\ console = 0 /\ files = 0 /\ stderr_enabled = FALSE
        /\ should_log = [i \in LogLevels |-> FALSE]
        /\ readers = {} /\ writer = Nobody
        /\ wpc = [w \in Writers |-> "idle"] /\ logs = [w \in Writers |-> <<>>]
        /\ calls = [w \in Writers |-> 0] /\ sets = 0 /\ overlapped = FALSE
        /\ spc = [s \in Setters |-> 0] /\ arg = [s \in Setters |-> NoArg]
        /\ max = [s \in Setters |-> 0]
        /\ written = [l \in Loggers |-> <<>>] /\ missing = {}

-----------------------------------------------------------------------------
(* setup(): a logger that exists is left as it is, a new one starts at     *)
(* INFO.  stderr has no level of its own.                                  *)

Setup(asked) ==
  LET new == asked \ loggers IN
  /\ Quiet /\ new # {} /\ loggers' = loggers \union new
  /\ console' = (IF "stdout" \in new THEN INFO ELSE console)
  /\ files' = (IF "files" \in new THEN INFO ELSE files)
  /\ stderr_enabled' = (stderr_enabled \/ "stderr" \in new)
  /\ should_log' = [i \in LogLevels |-> should_log[i] \/ (i <= INFO /\ new # {"stderr"})]
  /\ UNCHANGED <<setting, writing>>

-----------------------------------------------------------------------------
(* set_level(): each load and store of an atomic is a step.  spc numbers   *)
(* them: 1, 2 store the levels, 3, 4 load them, 5 to 9 store the flags.    *)

SetLevel(s, types, level) ==
  /\ spc[s] = 0 /\ sets < MaxSets /\ sets' = sets + 1
  /\ spc' = [spc EXCEPT ![s] = 1]
  /\ arg' = [arg EXCEPT ![s] = [types |-> types, level |-> level]]
  /\ overlapped' = (overlapped \/ \E t \in Setters \ {s} : spc[t] # 0)
  /\ UNCHANGED <<loggers, console, files, stderr_enabled, should_log, max, writing>>

At(s, step) == spc[s] = step /\ spc' = [spc EXCEPT ![s] = (step + 1) % 10]
               /\ UNCHANGED <<loggers, stderr_enabled, sets, overlapped, writing>>

\* A level is stored if its logger exists and it is a level.
Stores(s, type, logger) == /\ type \in arg[s].types /\ logger \in loggers
                           /\ arg[s].level \in {0} \union LogLevels

StoreConsole(s) == /\ At(s, 1) /\ UNCHANGED <<files, should_log, arg, max>>
                   /\ console' = (IF Stores(s, "console", "stdout") THEN arg[s].level ELSE console)

StoreFiles(s) == /\ At(s, 2) /\ UNCHANGED <<console, should_log, max>>
                 /\ arg' = [arg EXCEPT ![s] = NoArg]
                 /\ files' = (IF Stores(s, "files", "files") THEN arg[s].level ELSE files)

LoadConsole(s) == /\ At(s, 3) /\ max' = [max EXCEPT ![s] = console]
                  /\ UNCHANGED <<console, files, should_log, arg>>

\* Mutant: only the level of the files counts.
LoadFilesOnly(s) == /\ At(s, 4) /\ max' = [max EXCEPT ![s] = files]
                    /\ UNCHANGED <<console, files, should_log, arg>>

LoadFiles(s) == /\ At(s, 4) /\ max' = [max EXCEPT ![s] = IF files > @ THEN files ELSE @]
                /\ UNCHANGED <<console, files, should_log, arg>>

StoreFlag(s, i) == /\ At(s, i + 4) /\ should_log' = [should_log EXCEPT ![i] = (i <= max[s])]
                   /\ max' = (IF i = DEBUG THEN [max EXCEPT ![s] = 0] ELSE max)
                   /\ UNCHANGED <<console, files, arg>>

SetStderr(enable) == /\ enable # stderr_enabled /\ stderr_enabled' = enable
                     /\ sets < MaxSets /\ sets' = sets + 1
                     /\ UNCHANGED <<loggers, console, files, should_log, spc, arg, max,
                                    overlapped, writing>>

-----------------------------------------------------------------------------
(* Writing.  A writer in a call waits for the lock ("shared", "exclusive"),*)
(* and then gives each of its messages to the console ("console"), to the  *)
(* files ("files") and drops it.                                           *)

Goes(w, from, to) == /\ wpc[w] = from /\ wpc' = [wpc EXCEPT ![w] = to]
                     /\ UNCHANGED <<loggers, console, files, stderr_enabled, should_log, setting>>
Level(w) == Head(logs[w])
Unlocked == UNCHANGED <<readers, writer, written, missing>>

\* put_critical to put_debug, and the templates of the same names.
Put(w, l) == /\ should_log[l] /\ Goes(w, "idle", "shared") /\ logs' = [logs EXCEPT ![w] = <<l>>]
             /\ calls[w] < MaxCalls /\ calls' = [calls EXCEPT ![w] = @ + 1] /\ Unlocked

\* new_multi(zone) is min = 0.  With a level, it is nullptr if nobody wants it.
NewMulti(w, min) == /\ min # 0 => should_log[min]
                    /\ Goes(w, "idle", "collecting") /\ calls[w] < MaxCalls
                    /\ calls' = [calls EXCEPT ![w] = @ + 1] /\ UNCHANGED logs /\ Unlocked

MultiPut(w, l) == /\ Goes(w, "collecting", "collecting") /\ should_log[l] /\ Len(logs[w]) < MaxBatch
                  /\ logs' = [logs EXCEPT ![w] = Append(@, l)] /\ UNCHANGED calls /\ Unlocked

\* pop() takes the oldest message, not the one put last.
MultiPop(w) == /\ Goes(w, "collecting", "collecting") /\ logs[w] # <<>>
               /\ logs' = [logs EXCEPT ![w] = Tail(@)] /\ UNCHANGED calls /\ Unlocked

\* submit(); an empty MultiLog is let go without the lock.
Submit(w) == /\ Goes(w, "collecting", IF logs[w] = <<>> THEN "idle" ELSE "exclusive")
             /\ UNCHANGED <<logs, calls>> /\ Unlocked

LockShared(w) == /\ Goes(w, "shared", "console") /\ writer = Nobody
                 /\ readers' = readers \union {w}
                 /\ UNCHANGED <<writer, logs, calls, written, missing>>

\* Mutant: submit() takes the lock shared.
LockExclusiveShared(w) == /\ Goes(w, "exclusive", "console") /\ writer = Nobody
                          /\ readers' = readers \union {w}
                          /\ UNCHANGED <<writer, logs, calls, written, missing>>

LockExclusive(w) == /\ Goes(w, "exclusive", "console") /\ writer = Nobody /\ readers = {}
                    /\ writer' = w
                    /\ UNCHANGED <<readers, logs, calls, written, missing>>

Give(w, logger) == /\ missing' = missing \union ({logger} \ loggers)
                   /\ written' = [written EXCEPT ![logger] =
                                     Append(@, [by |-> w, call |-> calls[w], level |-> Level(w)])]

\* Where the console's messages of a level go.
Console(l) == IF l <= WARN /\ stderr_enabled THEN "stderr" ELSE "stdout"

ToConsole(w) == /\ Goes(w, "console", "files")
                /\ IF console >= Level(w) THEN Give(w, Console(Level(w)))
                                          ELSE UNCHANGED <<written, missing>>
                /\ UNCHANGED <<readers, writer, logs, calls>>

ToFiles(w) ==
  LET last == Len(logs[w]) = 1 IN
  /\ Goes(w, "files", IF last THEN "idle" ELSE "console")
  /\ IF files >= Level(w) THEN Give(w, "files") ELSE UNCHANGED <<written, missing>>
  /\ logs' = [logs EXCEPT ![w] = Tail(@)] /\ UNCHANGED calls
  /\ IF last THEN readers' = readers \ {w} /\ writer' = Nobody
             ELSE UNCHANGED <<readers, writer>>

-----------------------------------------------------------------------------
SetLevelGoes(s) == \/ StoreConsole(s) \/ StoreFiles(s) \/ LoadConsole(s) \/ LoadFiles(s)
                   \/ \E i \in LogLevels : StoreFlag(s, i)
Collects(w) == \/ \E min \in {0} \union PutLevels : NewMulti(w, min)
               \/ \E l \in PutLevels : MultiPut(w, l)
               \/ MultiPop(w) \/ Submit(w)
Writes(w) == LockShared(w) \/ LockExclusive(w) \/ ToConsole(w) \/ ToFiles(w)

\* A null pointer ends the behaviour: set_stderr(true) does not ask whether
\* there is a stderr logger.  set_level() is called for the console, or for
\* both types at once.
Next == /\ missing = {}
        /\ \/ \E asked \in SUBSET Loggers : Setup(asked)
           \/ \E s \in Setters, types \in {{"console"}, {"console", "files"}}, level \in SetLevels :
                SetLevel(s, types, level)
           \/ \E s \in Setters : SetLevelGoes(s)
           \/ \E enable \in BOOLEAN : SetStderr(enable)
           \/ \E w \in Writers, l \in PutLevels : Put(w, l)
           \/ \E w \in Writers : Collects(w) \/ Writes(w)

Spec == Init /\ [][Next]_vars

-----------------------------------------------------------------------------
(* Properties.                                                             *)

\* "The logging level can be changed on the fly" (logger.h:3): when no call of
\* set_level() is in progress, a message of a level passes the early test
\* exactly if some sink wants it, whatever was set up and set before.  It
\* takes that no two calls of set_level() ever overlapped: their flags may
\* stay those of a maximum that was already out of date (logger.cpp:113-120).
FlagsFollowLevels ==
  ~overlapped /\ spc = [s \in Setters |-> 0] =>
    \A i \in LogLevels : should_log[i] <=> i <= console \/ i <= files

\* What was submitted as one MultiLog stands together in each sink, with no
\* other thread's message in between (logger.h:115-146, logger.cpp:139-167).
BatchStaysTogether ==
  \A l \in Loggers : \A i, k \in DOMAIN written[l] :
    LET message(n) == <<written[l][n].by, written[l][n].call>> IN
    message(i) = message(k) => \A j \in i .. k : message(j) = message(i)

=============================================================================
