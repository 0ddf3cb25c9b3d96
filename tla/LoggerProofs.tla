---------------------------- MODULE LoggerProofs ----------------------------
(***************************************************************************)
(* The two invariants of the logger, for any threads, levels and lengths.  *)
(*                                                                         *)
(* The flags: a set_level() that runs alone has, at each of its steps, the *)
(* maximum and the flags right as far as it has got.  The batches: a       *)
(* message is given only by a thread that holds the lock, a shared holder  *)
(* has one message and no sink has it twice, and an exclusive holder's     *)
(* messages are the last of every sink that has any of them.               *)
(***************************************************************************)
EXTENDS Logger, TLAPS

Wanted(i) == i <= console \/ i <= files

\* Levels, and a level of OFF for what was not set up.
LevelsOK == /\ loggers \subseteq Loggers
            /\ console \in {0} \union LogLevels /\ files \in {0} \union LogLevels
            /\ "stdout" \notin loggers => console = 0
            /\ "files" \notin loggers => files = 0
            /\ should_log \in [LogLevels -> BOOLEAN]
            /\ spc \in [Setters -> 0 .. 9] /\ max \in [Setters -> {0} \union LogLevels]
            /\ overlapped \in BOOLEAN

Alone == \A s, t \in Setters : spc[s] # 0 /\ spc[t] # 0 => s = t

\* How far the one that is in a call has got.
MaxSoFar == \A s \in Setters :
              /\ spc[s] = 4 => max[s] = console
              /\ spc[s] \in 5 .. 9 => \A i \in LogLevels : i <= max[s] <=> Wanted(i)
FlagsSoFar == \A s \in Setters, i \in LogLevels :
                spc[s] > i + 4 => (should_log[i] <=> Wanted(i))

FlagsInv == LevelsOK /\ (~overlapped => Alone /\ MaxSoFar /\ FlagsSoFar /\ FlagsFollowLevels)

-----------------------------------------------------------------------------
LEMMA InitFlags == Init => FlagsInv
<1> SUFFICES ASSUME Init PROVE FlagsInv  OBVIOUS
<1>1. \A s \in Setters : spc[s] = 0  BY DEF Init
<1>2. \A i \in LogLevels : ~should_log[i] /\ ~Wanted(i)  BY DEF Init, Wanted, LogLevels
<1>3. LevelsOK
  <2>1. should_log \in [LogLevels -> BOOLEAN] /\ overlapped \in BOOLEAN  BY DEF Init
  <2>2. spc \in [Setters -> 0 .. 9] /\ max \in [Setters -> {0} \union LogLevels]  BY DEF Init
  <2>3. loggers = {} /\ console = 0 /\ files = 0  BY DEF Init
  <2>4. QED  BY <2>1, <2>2, <2>3 DEF LevelsOK
<1>4. Alone /\ MaxSoFar  BY <1>1 DEF Alone, MaxSoFar
<1>5. FlagsSoFar  BY <1>1, <1>2 DEF FlagsSoFar
<1>6. FlagsFollowLevels  BY <1>2 DEF FlagsFollowLevels, Wanted
<1>7. QED  BY <1>3, <1>4, <1>5, <1>6 DEF FlagsInv

\* What no step of a writer and no set_stderr() touches.
flagVars == <<loggers, console, files, should_log, spc, max, overlapped>>

LEMMA FlagsStay == FlagsInv /\ UNCHANGED flagVars => FlagsInv'
BY DEF FlagsInv, LevelsOK, Alone, MaxSoFar, FlagsSoFar, FlagsFollowLevels, Wanted, flagVars

LEMMA SetupFlags == ASSUME FlagsInv, NEW asked \in SUBSET Loggers, Setup(asked) PROVE FlagsInv'
<1> DEFINE new == asked \ loggers
<1>1. /\ loggers' = loggers \union new /\ new \subseteq Loggers
      /\ console' = (IF "stdout" \in new THEN 4 ELSE console)
      /\ files' = (IF "files" \in new THEN 4 ELSE files)
      /\ should_log' = [i \in LogLevels |-> should_log[i] \/ (i <= 4 /\ new # {"stderr"})]
      /\ UNCHANGED <<spc, max, overlapped>> /\ new # {}
      /\ spc = [s \in Setters |-> 0]
  BY DEF Setup, setting, Quiet, INFO
<1>2. LevelsOK'
  BY <1>1 DEF FlagsInv, LevelsOK, Loggers, LogLevels
<1>3. ASSUME ~overlapped, NEW i \in LogLevels PROVE should_log'[i] <=> Wanted(i)'
  <2>1. should_log[i] <=> Wanted(i)  BY <1>1, <1>3 DEF FlagsInv, FlagsFollowLevels, Wanted
  <2>2. i \in 1 .. 5 /\ console \in 0 .. 5 /\ files \in 0 .. 5  BY DEF FlagsInv, LevelsOK, LogLevels
  <2>3. CASE new = {"stderr"}
    <3>1. UNCHANGED <<console, files>> /\ should_log'[i] = should_log[i]
      BY <1>1, <2>3 DEF FlagsInv, LevelsOK
    <3>2. QED  BY <2>1, <3>1 DEF Wanted
  <2>4. CASE new # {"stderr"}
    <3>1. should_log'[i] <=> should_log[i] \/ i <= 4  BY <1>1, <2>4 DEF FlagsInv, LevelsOK
    <3>2. "stdout" \in new \/ "files" \in new  BY <1>1, <2>4 DEF Loggers
    <3>3. "stdout" \in new => console = 0  BY DEF FlagsInv, LevelsOK
    <3>4. "files" \in new => files = 0  BY DEF FlagsInv, LevelsOK
    <3>5. Wanted(i)' <=> Wanted(i) \/ i <= 4  BY <1>1, <2>2, <3>2, <3>3, <3>4 DEF Wanted
    <3>6. QED  BY <2>1, <3>1, <3>5
  <2>5. QED  BY <2>3, <2>4
<1>4. ~overlapped' => Alone' /\ MaxSoFar' /\ FlagsSoFar' /\ FlagsFollowLevels'
  <2>1. \A s \in Setters : spc'[s] = 0  BY <1>1
  <2>2. ~overlapped' => ~overlapped  BY <1>1
  <2>3. Alone' /\ MaxSoFar'  BY <2>1 DEF Alone, MaxSoFar
  <2>4. FlagsSoFar'  BY <2>1 DEF FlagsSoFar, LogLevels
  <2>5. ~overlapped' => FlagsFollowLevels'  BY <1>3, <2>2 DEF FlagsFollowLevels, Wanted
  <2>6. QED  BY <2>3, <2>4, <2>5
<1>5. QED  BY <1>2, <1>4 DEF FlagsInv

\* A call begins.
LEMMA SetLevelFlags ==
  ASSUME FlagsInv, NEW s \in Setters, NEW types, NEW level, SetLevel(s, types, level) PROVE FlagsInv'
<1>1. /\ spc[s] = 0 /\ spc' = [spc EXCEPT ![s] = 1]
      /\ UNCHANGED <<loggers, console, files, should_log, max>>
  BY DEF SetLevel
<1>2. overlapped' \in BOOLEAN /\ (~overlapped' => ~overlapped /\ \A t \in Setters \ {s} : spc[t] = 0)
  BY DEF SetLevel, FlagsInv, LevelsOK
<1>3. LevelsOK'  BY <1>1, <1>2 DEF FlagsInv, LevelsOK
<1>4. ~overlapped' => Alone'  BY <1>1, <1>2 DEF Alone, FlagsInv, LevelsOK
<1>5. ~overlapped' => MaxSoFar' /\ FlagsSoFar'
  BY <1>1, <1>2 DEF MaxSoFar, FlagsSoFar, FlagsInv, LevelsOK, LogLevels, Wanted
<1>6. FlagsFollowLevels'  BY <1>1 DEF FlagsFollowLevels, FlagsInv, LevelsOK
<1>7. QED  BY <1>3, <1>4, <1>5, <1>6 DEF FlagsInv

\* A call goes on: one step of s, the others' places unchanged.
LEMMA StepFlags == ASSUME FlagsInv, NEW s \in Setters, SetLevelGoes(s) PROVE FlagsInv'
<1>1. PICK step \in 1 .. 9 : At(s, step)
  BY DEF SetLevelGoes, StoreConsole, StoreFiles, LoadConsole, LoadFiles, StoreFlag, LogLevels
<1>2. /\ spc[s] = step /\ spc' = [spc EXCEPT ![s] = (step + 1) % 10]
      /\ UNCHANGED <<loggers, overlapped>>
  BY <1>1 DEF At
<1>3. spc' \in [Setters -> 0 .. 9] /\ spc'[s] = (IF step = 9 THEN 0 ELSE step + 1)
  BY <1>1, <1>2 DEF FlagsInv, LevelsOK
<1>4. ~overlapped => \A t \in Setters \ {s} : spc[t] = 0 /\ spc'[t] = 0
  BY <1>1, <1>2 DEF FlagsInv, LevelsOK, Alone
<1>5. ~overlapped => Alone'  BY <1>2, <1>3, <1>4 DEF Alone
<1> DEFINE Goal == ~overlapped => MaxSoFar' /\ FlagsSoFar' /\ FlagsFollowLevels'
<1>6. ASSUME StoreConsole(s) \/ StoreFiles(s) PROVE LevelsOK' /\ Goal
  <2>1. step \in {1, 2} /\ UNCHANGED <<should_log, max>>  BY <1>1, <1>6 DEF At, StoreConsole, StoreFiles
  <2>2. /\ console' \in {0} \union LogLevels /\ files' \in {0} \union LogLevels
        /\ "stdout" \notin loggers => console' = 0
        /\ "files" \notin loggers => files' = 0
    BY <1>6 DEF StoreConsole, StoreFiles, Stores, FlagsInv, LevelsOK
  <2>3. LevelsOK'  BY <1>2, <1>3, <2>1, <2>2 DEF FlagsInv, LevelsOK
  <2>4. spc'[s] \in {2, 3}  BY <1>3, <2>1
  <2>5. Goal  BY <1>4, <2>4 DEF MaxSoFar, FlagsSoFar, FlagsFollowLevels, LogLevels
  <2>6. QED  BY <2>3, <2>5
<1>7. ASSUME LoadConsole(s) PROVE LevelsOK' /\ Goal
  <2>1. step = 3 /\ UNCHANGED <<console, files, should_log>> /\ max' = [max EXCEPT ![s] = console]
    BY <1>1, <1>7 DEF At, LoadConsole
  <2>2. LevelsOK'  BY <1>2, <1>3, <2>1 DEF FlagsInv, LevelsOK
  <2>3. spc'[s] = 4 /\ max'[s] = console'  BY <1>3, <2>1 DEF FlagsInv, LevelsOK
  <2>4. Goal  BY <1>4, <2>3 DEF MaxSoFar, FlagsSoFar, FlagsFollowLevels, LogLevels
  <2>5. QED  BY <2>2, <2>4
<1>8. ASSUME LoadFiles(s) PROVE LevelsOK' /\ Goal
  <2>1. /\ step = 4 /\ UNCHANGED <<console, files, should_log>>
        /\ max' = [max EXCEPT ![s] = IF files > max[s] THEN files ELSE max[s]]
    BY <1>1, <1>8 DEF At, LoadFiles
  <2>2. LevelsOK'  BY <1>2, <1>3, <2>1 DEF FlagsInv, LevelsOK
  <2>3. spc'[s] = 5 /\ max'[s] = (IF files > max[s] THEN files ELSE max[s])
    BY <1>3, <2>1 DEF FlagsInv, LevelsOK
  <2>4. ~overlapped => \A i \in LogLevels : i <= max'[s] <=> Wanted(i)'
    <3>1. ~overlapped => max[s] = console  BY <1>2, <2>1 DEF FlagsInv, MaxSoFar
    <3>2. console \in 0 .. 5 /\ files \in 0 .. 5  BY DEF FlagsInv, LevelsOK, LogLevels
    <3>3. QED  BY <2>1, <2>3, <3>1, <3>2 DEF Wanted, LogLevels
  <2>5. Goal  BY <1>4, <2>3, <2>4 DEF MaxSoFar, FlagsSoFar, FlagsFollowLevels, LogLevels
  <2>6. QED  BY <2>2, <2>5
<1>9. ASSUME NEW f \in LogLevels, StoreFlag(s, f) PROVE LevelsOK' /\ Goal
  <2>1. /\ step = f + 4 /\ UNCHANGED <<console, files>>
        /\ should_log' = [should_log EXCEPT ![f] = (f <= max[s])]
        /\ f # 5 => max' = max
        /\ f = 5 => max' = [max EXCEPT ![s] = 0]
    BY <1>1, <1>9 DEF At, StoreFlag, DEBUG, LogLevels
  <2>2. f \in 1 .. 5  BY DEF LogLevels
  <2>3. (f <= max[s]) \in BOOLEAN  OBVIOUS
  <2>4. should_log' \in [LogLevels -> BOOLEAN]  BY <2>1, <2>3 DEF FlagsInv, LevelsOK
  <2>5. max' \in [Setters -> {0} \union LogLevels]  BY <2>1 DEF FlagsInv, LevelsOK
  <2>6. LevelsOK'  BY <1>2, <1>3, <2>1, <2>4, <2>5 DEF FlagsInv, LevelsOK
  <2>7. ~overlapped => \A i \in LogLevels : i <= max[s] <=> Wanted(i)'
    BY <1>2, <2>1, <2>2 DEF FlagsInv, MaxSoFar, Wanted
  <2>8. ~overlapped => \A i \in LogLevels : i <= f => (should_log'[i] <=> Wanted(i)')
    <3>1. SUFFICES ASSUME ~overlapped, NEW i \in LogLevels, i <= f
                   PROVE should_log'[i] <=> Wanted(i)'
      OBVIOUS
    <3>2. i = f => (should_log'[i] <=> i <= max[s])  BY <2>1 DEF FlagsInv, LevelsOK
    <3>3. i # f => should_log'[i] = should_log[i] /\ spc[s] > i + 4
      BY <1>2, <2>1, <3>1 DEF FlagsInv, LevelsOK, LogLevels
    <3>4. i # f => (should_log'[i] <=> Wanted(i)')
      BY <2>1, <3>1, <3>3 DEF FlagsInv, FlagsSoFar, Wanted
    <3>5. QED  BY <2>7, <3>1, <3>2, <3>4
  <2>9. spc'[s] = (IF f = 5 THEN 0 ELSE f + 5)  BY <1>3, <2>1, <2>2
  <2>10. ~overlapped => MaxSoFar'
    <3>1. f # 5 => max'[s] = max[s]  BY <2>1
    <3>2. QED  BY <1>4, <2>2, <2>7, <2>9, <3>1 DEF MaxSoFar
  <2>11. ~overlapped => FlagsSoFar'  BY <1>4, <2>2, <2>8, <2>9 DEF FlagsSoFar, LogLevels
  <2>12. ~overlapped => FlagsFollowLevels'
    <3>1. f = 5 \/ spc' # [t \in Setters |-> 0]  BY <2>2, <2>9
    <3>2. f = 5 => \A i \in LogLevels : i <= f  BY DEF LogLevels
    <3>3. QED  BY <2>8, <3>1, <3>2 DEF FlagsFollowLevels, Wanted
  <2>13. QED  BY <2>6, <2>10, <2>11, <2>12
<1>10. LevelsOK' /\ Goal  BY <1>6, <1>7, <1>8, <1>9 DEF SetLevelGoes
<1>11. QED  BY <1>2, <1>5, <1>10 DEF FlagsInv

LEMMA NextFlags == FlagsInv /\ [Next]_vars => FlagsInv'
<1> SUFFICES ASSUME FlagsInv, [Next]_vars PROVE FlagsInv'  OBVIOUS
<1>1. ASSUME NEW enable \in BOOLEAN, SetStderr(enable) PROVE FlagsInv'
  BY <1>1, FlagsStay DEF SetStderr, flagVars
<1>2. ASSUME NEW w \in Writers, NEW l \in PutLevels, Put(w, l) PROVE FlagsInv'
  BY <1>2, FlagsStay DEF Put, Goes, setting, flagVars
<1>3. ASSUME NEW w \in Writers, Collects(w) \/ Writes(w) PROVE FlagsInv'
  BY <1>3, FlagsStay DEF Collects, Writes, NewMulti, MultiPut, MultiPop, Submit, LockShared,
     LockExclusive, ToConsole, ToFiles, Goes, setting, flagVars
<1>4. CASE UNCHANGED vars  BY <1>4, FlagsStay DEF vars, setting, flagVars
<1>5. QED  BY <1>1, <1>2, <1>3, <1>4, SetupFlags, SetLevelFlags, StepFlags DEF Next

\* Whatever was set up and set, the early test agrees with the levels when the
\* calls that set them did not overlap.
THEOREM EarlyTestAgrees == Spec => []FlagsFollowLevels
<1>1. FlagsInv => FlagsFollowLevels  BY DEF FlagsInv, FlagsFollowLevels
<1>2. QED  BY <1>1, InitFlags, NextFlags, PTL DEF Spec

-----------------------------------------------------------------------------
(* The batches.  c is the number of a call of w. *)

Message == [by : Writers, call : Nat, level : LogLevels]

Together(s) == \A i, k \in DOMAIN s :
                 s[i].by = s[k].by /\ s[i].call = s[k].call =>
                   \A j \in i .. k : s[j].by = s[i].by /\ s[j].call = s[i].call
Lacks(s, w, c) == \A i \in DOMAIN s : ~(s[i].by = w /\ s[i].call = c)
Ends(s, w, c) == \A i \in DOMAIN s : s[i].by = w /\ s[i].call = c =>
                   \A j \in i .. Len(s) : s[j].by = w /\ s[j].call = c
Numbered(s) == \A i \in DOMAIN s : s[i].call <= calls[s[i].by]

SinksOK == /\ written \in [Loggers -> Seq(Message)]
           /\ calls \in [Writers -> Nat] /\ logs \in [Writers -> Seq(LogLevels)]
           /\ wpc \in [Writers -> {"idle", "collecting", "shared", "exclusive", "console", "files"}]
           /\ readers \subseteq Writers /\ writer \in Writers \union {Nobody}

\* Who gives messages holds the lock; a shared holder has one message.
LockOK == /\ writer # Nobody => readers = {}
          /\ \A w \in Writers :
               /\ wpc[w] \in {"console", "files"} <=> w \in readers \/ w = writer
               /\ wpc[w] = "shared" \/ w \in readers => Len(logs[w]) = 1
               /\ wpc[w] = "exclusive" \/ w = writer => logs[w] # <<>>

\* What the sinks have of the calls in progress.
Given == \A w \in Writers :
           /\ \/ wpc[w] \in {"collecting", "shared", "exclusive"}
              \/ w \in readers /\ wpc[w] = "console"
              => \A l \in Loggers : Lacks(written[l], w, calls[w])
           /\ w \in readers /\ wpc[w] = "files" => Lacks(written["files"], w, calls[w])
           /\ w = writer => \A l \in Loggers : Ends(written[l], w, calls[w])

SinksInv == /\ SinksOK /\ LockOK /\ Given
            /\ \A l \in Loggers : Numbered(written[l]) /\ Together(written[l])

LEMMA Appended ==
  ASSUME NEW s \in Seq(Message), NEW m \in Message, Together(s), Ends(s, m.by, m.call)
  PROVE  Together(Append(s, m)) /\ Ends(Append(s, m), m.by, m.call)
<1> DEFINE t == Append(s, m)
<1>1. /\ t \in Seq(Message) /\ Len(t) = Len(s) + 1 /\ Len(s) \in Nat
      /\ DOMAIN t = 1 .. Len(t) /\ DOMAIN s = 1 .. Len(s)
      /\ t[Len(t)] = m /\ \A i \in 1 .. Len(s) : t[i] = s[i]
  OBVIOUS
<1> HIDE DEF t
<1>2. Ends(t, m.by, m.call)  BY <1>1 DEF Ends
<1>3. Together(t)
  <2> SUFFICES ASSUME NEW i \in DOMAIN t, NEW k \in DOMAIN t, NEW j \in i .. k,
                      t[i].by = t[k].by /\ t[i].call = t[k].call
               PROVE  t[j].by = t[i].by /\ t[j].call = t[i].call
    BY DEF Together
  <2>1. k \in 1 .. Len(s) => i \in 1 .. Len(s) /\ j \in 1 .. Len(s)  BY <1>1
  <2>2. k \in 1 .. Len(s) => t[j].by = t[i].by /\ t[j].call = t[i].call
    BY <1>1, <2>1 DEF Together
  <2>3. k = Len(t) => t[i].by = m.by /\ t[i].call = m.call /\ j \in i .. Len(t)  BY <1>1
  <2>4. k = Len(t) => t[j].by = t[i].by /\ t[j].call = t[i].call  BY <1>2, <2>3 DEF Ends
  <2>5. QED  BY <1>1, <2>2, <2>4
<1>4. QED  BY <1>2, <1>3 DEF t

LEMMA AppendedOthers ==
  ASSUME NEW s \in Seq(Message), NEW m \in Message, NEW v, NEW c, v # m.by, Lacks(s, v, c)
  PROVE  Lacks(Append(s, m), v, c)
<1>1. /\ DOMAIN Append(s, m) = 1 .. Len(s) + 1 /\ DOMAIN s = 1 .. Len(s) /\ Len(s) \in Nat
      /\ Append(s, m)[Len(s) + 1] = m /\ \A i \in 1 .. Len(s) : Append(s, m)[i] = s[i]
  OBVIOUS
<1>2. QED  BY <1>1 DEF Lacks

LEMMA AppendedNumbered ==
  ASSUME NEW s \in Seq(Message), NEW m \in Message, Numbered(s), m.call <= calls[m.by]
  PROVE  Numbered(Append(s, m))
<1>1. /\ DOMAIN Append(s, m) = 1 .. Len(s) + 1 /\ DOMAIN s = 1 .. Len(s) /\ Len(s) \in Nat
      /\ Append(s, m)[Len(s) + 1] = m /\ \A i \in 1 .. Len(s) : Append(s, m)[i] = s[i]
  OBVIOUS
<1>2. QED  BY <1>1 DEF Numbered

LEMMA LacksEnds == ASSUME NEW s, NEW w, NEW c, Lacks(s, w, c) PROVE Ends(s, w, c)
BY DEF Lacks, Ends

LEMMA InitSinks == Init => SinksInv
<1> SUFFICES ASSUME Init PROVE SinksInv  OBVIOUS
<1>1. SinksOK
  <2>1. written \in [Loggers -> Seq(Message)]  BY DEF Init
  <2>2. calls \in [Writers -> Nat] /\ logs \in [Writers -> Seq(LogLevels)]  BY DEF Init
  <2>3. wpc \in [Writers -> {"idle", "collecting", "shared", "exclusive", "console", "files"}]
    BY DEF Init
  <2>4. readers \subseteq Writers /\ writer \in Writers \union {Nobody}  BY DEF Init
  <2>5. QED  BY <2>1, <2>2, <2>3, <2>4 DEF SinksOK
<1>2. \A w \in Writers : wpc[w] = "idle" /\ w \notin readers /\ w # writer
  BY LoggerAssumption DEF Init
<1>3. LockOK /\ Given  BY <1>2 DEF Init, LockOK, Given
<1>4. \A l \in Loggers : Numbered(written[l]) /\ Together(written[l])
  <2>1. \A l \in Loggers : written[l] = <<>>  BY DEF Init
  <2>2. QED  BY <2>1 DEF Numbered, Together
<1>5. QED  BY <1>1, <1>3, <1>4 DEF SinksInv

LEMMA SinksStay == SinksInv /\ UNCHANGED writing => SinksInv'
BY DEF SinksInv, SinksOK, LockOK, Given, Numbered, Together, Lacks, Ends, writing

\* A writer begins a call.
LEMMA BeginSinks ==
  ASSUME SinksInv, NEW w \in Writers,
         \/ \E l \in PutLevels : Put(w, l)
         \/ \E min \in {0} \union PutLevels : NewMulti(w, min)
  PROVE  SinksInv'
<1>1. /\ wpc[w] = "idle" /\ calls' = [calls EXCEPT ![w] = calls[w] + 1]
      /\ UNCHANGED <<readers, writer, written>>
  BY DEF Put, NewMulti, Goes, Unlocked
<1>2. \/ wpc' = [wpc EXCEPT ![w] = "collecting"] /\ logs' = logs
      \/ wpc' = [wpc EXCEPT ![w] = "shared"] /\ \E l \in LogLevels : logs' = [logs EXCEPT ![w] = <<l>>]
  BY LoggerAssumption DEF Put, NewMulti, Goes
<1>3. SinksOK'
  <2>1. \A l \in LogLevels : <<l>> \in Seq(LogLevels)  OBVIOUS
  <2>2. logs' \in [Writers -> Seq(LogLevels)]  BY <1>2, <2>1 DEF SinksInv, SinksOK
  <2>3. wpc' \in [Writers -> {"idle", "collecting", "shared", "exclusive", "console", "files"}]
    BY <1>2 DEF SinksInv, SinksOK
  <2>4. calls' \in [Writers -> Nat]  BY <1>1 DEF SinksInv, SinksOK
  <2>5. QED  BY <1>1, <2>2, <2>3, <2>4 DEF SinksInv, SinksOK
<1>4. w \notin readers /\ w # writer  BY <1>1 DEF SinksInv, LockOK
<1>5. LockOK'
  <2>1. ASSUME NEW l \in LogLevels, logs' = [logs EXCEPT ![w] = <<l>>]
        PROVE  Len(logs'[w]) = 1 /\ \A v \in Writers \ {w} : logs'[v] = logs[v]
    BY <2>1 DEF SinksInv, SinksOK
  <2>2. QED  BY <1>1, <1>2, <1>4, <2>1 DEF SinksInv, SinksOK, LockOK
<1>6. \A l \in Loggers : Lacks(written[l], w, calls'[w])
  BY <1>1 DEF SinksInv, SinksOK, Numbered, Lacks, Message
<1>7. Given'
  <2>1. ASSUME NEW v \in Writers \ {w}
        PROVE  calls'[v] = calls[v] /\ wpc'[v] = wpc[v] /\ v \in Writers
    BY <1>1, <1>2 DEF SinksInv, SinksOK
  <2>2. QED  BY <1>1, <1>4, <1>6, <2>1 DEF SinksInv, SinksOK, Given
<1>8. ASSUME NEW l \in Loggers PROVE Numbered(written[l])' /\ Together(written[l])'
  <2>1. written'[l] = written[l] /\ written[l] \in Seq(Message)  BY <1>1 DEF SinksInv, SinksOK
  <2>2. Numbered(written[l]) /\ Together(written[l])  BY DEF SinksInv
  <2>3. ASSUME NEW i \in DOMAIN written[l]
        PROVE  written[l][i].call <= calls'[written[l][i].by]
    <3>1. written[l][i] \in Message  BY <2>1
    <3>2. written[l][i].call \in Nat /\ written[l][i].by \in Writers  BY <3>1 DEF Message
    <3>3. \A v \in Writers : calls[v] \in Nat /\ calls'[v] \in Nat /\ calls'[v] >= calls[v]
      BY <1>1 DEF SinksInv, SinksOK
    <3>4. written[l][i].call <= calls[written[l][i].by]  BY <2>2 DEF Numbered
    <3>5. QED  BY <3>2, <3>3, <3>4
  <2>4. QED  BY <2>1, <2>2, <2>3 DEF Numbered, Together
<1>9. QED  BY <1>3, <1>5, <1>7, <1>8 DEF SinksInv

\* Nothing is given: the sinks and the numbers of the calls stay.
LEMMA SinksRest ==
  ASSUME SinksInv, SinksOK', LockOK', Given', UNCHANGED <<written, calls>> PROVE SinksInv'
BY DEF SinksInv, Numbered, Together

\* A MultiLog is filled, emptied and submitted.
LEMMA CollectSinks ==
  ASSUME SinksInv, NEW w \in Writers,
         (\E l \in PutLevels : MultiPut(w, l)) \/ MultiPop(w) \/ Submit(w)
  PROVE  SinksInv'
<1>1. /\ wpc[w] = "collecting" /\ UNCHANGED <<readers, writer, written, calls>>
      /\ wpc' = [wpc EXCEPT ![w] = wpc'[w]]
      /\ wpc'[w] \in {"collecting", "idle", "exclusive"}
  BY DEF MultiPut, MultiPop, Submit, Goes, Unlocked, SinksInv, SinksOK
<1>2. /\ \E q \in Seq(LogLevels) : logs' = [logs EXCEPT ![w] = q]
      /\ wpc'[w] = "exclusive" => logs' = logs /\ logs[w] # <<>>
  <2>1. logs[w] \in Seq(LogLevels)  BY DEF SinksInv, SinksOK
  <2>2. ASSUME NEW l \in PutLevels, MultiPut(w, l)
        PROVE  logs' = [logs EXCEPT ![w] = Append(logs[w], l)] /\ Append(logs[w], l) \in Seq(LogLevels)
               /\ wpc'[w] = "collecting"
    BY <2>1, <2>2, LoggerAssumption DEF MultiPut, Goes, SinksInv, SinksOK
  <2>3. MultiPop(w) => logs' = [logs EXCEPT ![w] = Tail(logs[w])] /\ Tail(logs[w]) \in Seq(LogLevels)
                       /\ wpc'[w] = "collecting"
    BY <2>1 DEF MultiPop, Goes, SinksInv, SinksOK
  <2>4. Submit(w) => /\ logs' = logs /\ logs = [logs EXCEPT ![w] = logs[w]]
                     /\ wpc'[w] = "exclusive" => logs[w] # <<>>
    BY DEF Submit, Goes, SinksInv, SinksOK
  <2>5. QED  BY <2>1, <2>2, <2>3, <2>4
<1>3. SinksOK'
  <2>1. logs' \in [Writers -> Seq(LogLevels)]  BY <1>2 DEF SinksInv, SinksOK
  <2>2. wpc' \in [Writers -> {"idle", "collecting", "shared", "exclusive", "console", "files"}]
    BY <1>1 DEF SinksInv, SinksOK
  <2>3. QED  BY <1>1, <2>1, <2>2 DEF SinksInv, SinksOK
<1>4. w \notin readers /\ w # writer  BY <1>1 DEF SinksInv, LockOK
<1>5. ASSUME NEW v \in Writers \ {w} PROVE wpc'[v] = wpc[v] /\ logs'[v] = logs[v]
  BY <1>1, <1>2 DEF SinksInv, SinksOK
<1>6. LockOK'  BY <1>1, <1>2, <1>4, <1>5 DEF SinksInv, LockOK
<1>7. Given'  BY <1>1, <1>4, <1>5 DEF SinksInv, Given
<1>8. QED  BY <1>1, <1>3, <1>6, <1>7, SinksRest

\* The lock is taken, shared or alone.
LEMMA LockSinks ==
  ASSUME SinksInv, NEW w \in Writers, LockShared(w) \/ LockExclusive(w) PROVE SinksInv'
<1>1. /\ wpc[w] \in {"shared", "exclusive"} /\ writer = Nobody
      /\ wpc' = [wpc EXCEPT ![w] = "console"] /\ UNCHANGED <<logs, written, calls>>
  BY DEF LockShared, LockExclusive, Goes
<1>2. \/ wpc[w] = "shared" /\ readers' = readers \union {w} /\ writer' = Nobody
      \/ wpc[w] = "exclusive" /\ readers = {} /\ readers' = {} /\ writer' = w
  BY DEF LockShared, LockExclusive, Goes
<1>3. SinksOK'  BY <1>1, <1>2 DEF SinksInv, SinksOK
<1>4. wpc'[w] = "console" /\ \A v \in Writers \ {w} : wpc'[v] = wpc[v]
  BY <1>1 DEF SinksInv, SinksOK
<1>5. Nobody \notin Writers /\ \A v \in Writers : v # writer  BY <1>1, LoggerAssumption
<1>6. LockOK'  BY <1>1, <1>2, <1>4, <1>5 DEF SinksInv, LockOK
<1>7. \A l \in Loggers : Lacks(written[l], w, calls[w]) /\ Ends(written[l], w, calls[w])
  BY <1>1, LacksEnds DEF SinksInv, Given
<1>8. Given'  BY <1>1, <1>2, <1>4, <1>5, <1>7 DEF SinksInv, Given
<1>9. QED  BY <1>1, <1>3, <1>6, <1>8, SinksRest

\* A holder of the lock gives its message to a logger.
LEMMA GiveSinks ==
  ASSUME SinksInv, NEW w \in Writers, NEW logger \in Loggers, Give(w, logger), logs[w] # <<>>,
         Ends(written[logger], w, calls[w]), calls' = calls
  PROVE  /\ written' \in [Loggers -> Seq(Message)]
         /\ \A l \in Loggers : Numbered(written[l])' /\ Together(written[l])'
         /\ \A l \in Loggers : Ends(written[l], w, calls[w]) => Ends(written'[l], w, calls[w])
         /\ \A l \in Loggers, v \in Writers \ {w} :
              Lacks(written[l], v, calls[v]) => Lacks(written'[l], v, calls[v])
         /\ \A l \in Loggers \ {logger} : written'[l] = written[l]
<1> DEFINE m == [by |-> w, call |-> calls[w], level |-> Level(w)]
<1>1. m \in Message /\ m.by = w /\ m.call = calls[w]
  <2>1. logs[w] \in Seq(LogLevels) /\ calls[w] \in Nat  BY DEF SinksInv, SinksOK
  <2>2. Level(w) \in LogLevels  BY <2>1 DEF Level
  <2>3. QED  BY <2>1, <2>2 DEF Message
<1>2. /\ written' = [written EXCEPT ![logger] = Append(written[logger], m)]
      /\ written[logger] \in Seq(Message)
  BY DEF Give, SinksInv, SinksOK
<1> HIDE DEF m
<1>3. written'[logger] = Append(written[logger], m) /\ \A l \in Loggers \ {logger} : written'[l] = written[l]
  BY <1>2 DEF SinksInv, SinksOK
<1>4. Append(written[logger], m) \in Seq(Message)  BY <1>1, <1>2
<1>5. written' \in [Loggers -> Seq(Message)]  BY <1>2, <1>4 DEF SinksInv, SinksOK
<1>6. Together(written'[logger]) /\ Ends(written'[logger], w, calls[w])
  BY <1>1, <1>2, <1>3, Appended DEF SinksInv
<1>7. calls[w] <= calls[w]  BY DEF SinksInv, SinksOK
<1>8. Numbered(written'[logger])  BY <1>1, <1>2, <1>3, <1>7, AppendedNumbered DEF SinksInv
<1>9. ASSUME NEW l \in Loggers PROVE Numbered(written[l])' /\ Together(written[l])'
  <2>1. Numbered(written'[l]) /\ Together(written'[l])  BY <1>3, <1>6, <1>8 DEF SinksInv
  <2>2. Numbered(written[l])'  BY <2>1 DEF Numbered
  <2>3. Together(written[l])'  BY <2>1 DEF Together
  <2>4. QED  BY <2>2, <2>3
<1>10. \A v \in Writers \ {w} : Lacks(written[logger], v, calls[v]) => Lacks(written'[logger], v, calls[v])
  BY <1>1, <1>2, <1>3, AppendedOthers
<1>11. QED  BY <1>3, <1>5, <1>6, <1>9, <1>10

LEMMA EmptyLength == Len(<<>>) = 0
OBVIOUS

\* The console has its turn.
LEMMA ConsoleSinks == ASSUME SinksInv, NEW w \in Writers, ToConsole(w) PROVE SinksInv'
<1>1. /\ wpc[w] = "console" /\ wpc' = [wpc EXCEPT ![w] = "files"]
      /\ UNCHANGED <<readers, writer, logs, calls>>
  BY DEF ToConsole, Goes
<1>2. /\ w \in readers \/ w = writer
      /\ w \in readers => \A l \in Loggers : Lacks(written[l], w, calls[w])
      /\ logs[w] # <<>>
  <2>1. w \in readers \/ w = writer  BY <1>1 DEF SinksInv, LockOK
  <2>2. w \in readers => \A l \in Loggers : Lacks(written[l], w, calls[w])
    BY <1>1 DEF SinksInv, Given
  <2>3. logs[w] \in Seq(LogLevels)  BY DEF SinksInv, SinksOK
  <2>4. w \in readers => Len(logs[w]) = 1  BY DEF SinksInv, LockOK
  <2>5. w = writer => logs[w] # <<>>  BY DEF SinksInv, LockOK
  <2>6. w \in readers => logs[w] # <<>>
    <3>1. w \in readers => Len(logs[w]) # 0  BY <2>3, <2>4
    <3>2. QED  BY <3>1, EmptyLength
  <2>7. QED  BY <2>1, <2>2, <2>3, <2>4, <2>5, <2>6
<1>3. \A l \in Loggers : Ends(written[l], w, calls[w])
  BY <1>1, <1>2, LacksEnds DEF SinksInv, Given
<1>4. wpc'[w] = "files" /\ \A v \in Writers \ {w} : wpc'[v] = wpc[v]
  BY <1>1 DEF SinksInv, SinksOK
<1>5. LockOK'  BY <1>1, <1>4 DEF SinksInv, LockOK
<1>6. SinksOK' \/ written' \notin [Loggers -> Seq(Message)]  BY <1>1 DEF SinksInv, SinksOK
<1>7. \A v \in Writers \ {w} : w = writer => v # writer /\ v \notin readers
  BY LoggerAssumption DEF SinksInv, LockOK
<1>8. \A v \in Writers \ {w} : w \in readers => v # writer
  BY LoggerAssumption DEF SinksInv, LockOK
<1>9. ASSUME Give(w, Console(Level(w))) PROVE SinksInv'
  <2> DEFINE logger == Console(Level(w))
  <2>1. logger \in Loggers /\ logger # "files"  BY DEF Console, Loggers
  <2> HIDE DEF logger
  <2>2. /\ written' \in [Loggers -> Seq(Message)]
        /\ \A l \in Loggers : Numbered(written[l])' /\ Together(written[l])'
        /\ \A l \in Loggers : Ends(written'[l], w, calls[w])
        /\ \A l \in Loggers, v \in Writers \ {w} :
             Lacks(written[l], v, calls[v]) => Lacks(written'[l], v, calls[v])
        /\ written'["files"] = written["files"]
    <3>1. Give(w, logger)  BY <1>9 DEF logger
    <3>2. "files" \in Loggers \ {logger}  BY <2>1 DEF Loggers
    <3>3. QED  BY <1>1, <1>2, <1>3, <2>1, <3>1, <3>2, GiveSinks
  <2>3. Given'
    BY <1>1, <1>2, <1>4, <1>7, <1>8, <2>2 DEF SinksInv, Given, Loggers
  <2>4. QED  BY <1>5, <1>6, <2>2, <2>3 DEF SinksInv
<1>10. ASSUME written' = written PROVE SinksInv'
  <2>1. Given'  BY <1>1, <1>2, <1>4, <1>10 DEF SinksInv, Given, Loggers
  <2>2. SinksOK'  BY <1>6, <1>10 DEF SinksInv, SinksOK
  <2>3. QED  BY <1>1, <1>5, <1>10, <2>1, <2>2, SinksRest
<1>11. QED  BY <1>9, <1>10 DEF ToConsole

\* The files have theirs; the message is dropped, and after the last one the
\* lock.
LEMMA FilesSinks == ASSUME SinksInv, NEW w \in Writers, ToFiles(w) PROVE SinksInv'
<1> DEFINE last == Len(logs[w]) = 1
<1>1. /\ wpc[w] = "files" /\ wpc' = [wpc EXCEPT ![w] = IF last THEN "idle" ELSE "console"]
      /\ logs' = [logs EXCEPT ![w] = Tail(logs[w])] /\ calls' = calls
      /\ last => readers' = readers \ {w} /\ writer' = Nobody
      /\ ~last => UNCHANGED <<readers, writer>>
  BY DEF ToFiles, Goes
<1>2. /\ w \in readers \/ w = writer
      /\ w \in readers => last /\ Lacks(written["files"], w, calls[w])
      /\ logs[w] # <<>> /\ logs[w] \in Seq(LogLevels)
  <2>1. w \in readers \/ w = writer  BY <1>1 DEF SinksInv, LockOK
  <2>2. w \in readers => Lacks(written["files"], w, calls[w])  BY <1>1 DEF SinksInv, Given
  <2>3. logs[w] \in Seq(LogLevels)  BY DEF SinksInv, SinksOK
  <2>4. w \in readers => Len(logs[w]) = 1  BY DEF SinksInv, LockOK
  <2>5. w = writer => logs[w] # <<>>  BY DEF SinksInv, LockOK
  <2>6. w \in readers => logs[w] # <<>>
    <3>1. w \in readers => Len(logs[w]) # 0  BY <2>3, <2>4
    <3>2. QED  BY <3>1, EmptyLength
  <2>7. QED  BY <2>1, <2>2, <2>3, <2>4, <2>5, <2>6
<1>3. Ends(written["files"], w, calls[w])
  BY <1>1, <1>2, LacksEnds DEF SinksInv, Given, Loggers
<1>4. \A v \in Writers \ {w} : wpc'[v] = wpc[v] /\ logs'[v] = logs[v]
  BY <1>1 DEF SinksInv, SinksOK
<1>5. /\ wpc'[w] = (IF last THEN "idle" ELSE "console")
      /\ logs'[w] = Tail(logs[w]) /\ Tail(logs[w]) \in Seq(LogLevels) /\ (~last => Tail(logs[w]) # <<>>)
  <2>1. wpc'[w] = (IF last THEN "idle" ELSE "console") /\ logs'[w] = Tail(logs[w])
    BY <1>1 DEF SinksInv, SinksOK
  <2>2. Tail(logs[w]) \in Seq(LogLevels) /\ Len(Tail(logs[w])) = Len(logs[w]) - 1
        /\ Len(logs[w]) \in Nat /\ Len(logs[w]) # 0
    BY <1>2
  <2>3. ~last => Len(Tail(logs[w])) # 0  BY <2>2
  <2>4. ~last => Tail(logs[w]) # <<>>  BY <2>3, EmptyLength
  <2>5. QED  BY <2>1, <2>2, <2>4
<1>6. \A v \in Writers \ {w} : w = writer => v # writer /\ v \notin readers
  BY LoggerAssumption DEF SinksInv, LockOK
<1>7. \A v \in Writers \ {w} : w \in readers => v # writer
  BY LoggerAssumption DEF SinksInv, LockOK
<1>8. w = writer => w \notin readers  BY LoggerAssumption DEF SinksInv, LockOK
<1> HIDE DEF last
<1>9. LockOK'
  <2>1. CASE last
    <3>1. \A v \in Writers : v # Nobody  BY LoggerAssumption
    <3>2. QED  BY <1>1, <1>2, <1>4, <1>5, <1>6, <1>7, <2>1, <3>1 DEF SinksInv, LockOK
  <2>2. CASE ~last
    <3>1. w = writer /\ UNCHANGED <<readers, writer>>  BY <1>1, <1>2, <2>2
    <3>2. QED  BY <1>1, <1>4, <1>5, <1>6, <1>8, <2>2, <3>1 DEF SinksInv, LockOK
  <2>3. QED  BY <2>1, <2>2
<1>10. SinksOK' \/ written' \notin [Loggers -> Seq(Message)]
  <2>1. logs' \in [Writers -> Seq(LogLevels)]  BY <1>1, <1>5 DEF SinksInv, SinksOK
  <2>2. wpc' \in [Writers -> {"idle", "collecting", "shared", "exclusive", "console", "files"}]
    BY <1>1 DEF SinksInv, SinksOK
  <2>3. readers' \subseteq Writers /\ writer' \in Writers \union {Nobody}
    BY <1>1 DEF SinksInv, SinksOK
  <2>4. QED  BY <1>1, <2>1, <2>2, <2>3 DEF SinksInv, SinksOK
<1>11. ASSUME \/ written' = written
              \/ /\ \A l \in Loggers : Ends(written[l], w, calls[w]) => Ends(written'[l], w, calls[w])
                 /\ \A l \in Loggers, v \in Writers \ {w} :
                      Lacks(written[l], v, calls[v]) => Lacks(written'[l], v, calls[v])
       PROVE  Given'
  <2>1. /\ \A l \in Loggers : Ends(written[l], w, calls[w]) => Ends(written'[l], w, calls[w])
        /\ \A l \in Loggers, v \in Writers \ {w} :
             Lacks(written[l], v, calls[v]) => Lacks(written'[l], v, calls[v])
    BY <1>11
  <2>2. \A v \in Writers \ {w} : v # writer /\ v # writer'
    BY <1>1, <1>2, <1>6, <1>7, LoggerAssumption
  <2>3. \A v \in Writers \ {w} : v \in readers' <=> v \in readers  BY <1>1
  <2>4. w \notin readers' /\ (w = writer' => w = writer)
    BY <1>1, <1>2, <1>8, LoggerAssumption
  <2>5. QED  BY <1>1, <1>4, <1>5, <2>1, <2>2, <2>3, <2>4 DEF SinksInv, Given, Loggers
<1>12. ASSUME Give(w, "files") PROVE SinksInv'
  <2>1. "files" \in Loggers  BY DEF Loggers
  <2>2. /\ written' \in [Loggers -> Seq(Message)]
        /\ \A l \in Loggers : Numbered(written[l])' /\ Together(written[l])'
        /\ \A l \in Loggers : Ends(written[l], w, calls[w]) => Ends(written'[l], w, calls[w])
        /\ \A l \in Loggers, v \in Writers \ {w} :
             Lacks(written[l], v, calls[v]) => Lacks(written'[l], v, calls[v])
    BY <1>1, <1>2, <1>3, <1>12, <2>1, GiveSinks
  <2>3. Given'  BY <1>11, <2>2
  <2>4. QED  BY <1>9, <1>10, <2>2, <2>3 DEF SinksInv
<1>13. ASSUME written' = written PROVE SinksInv'
  <2>1. SinksOK'  BY <1>10, <1>13 DEF SinksInv, SinksOK
  <2>2. QED  BY <1>1, <1>9, <1>11, <1>13, <2>1, SinksRest
<1>14. QED  BY <1>12, <1>13 DEF ToFiles

LEMMA NextSinks == SinksInv /\ [Next]_vars => SinksInv'
<1> SUFFICES ASSUME SinksInv, [Next]_vars PROVE SinksInv'  OBVIOUS
<1>1. ASSUME NEW asked \in SUBSET Loggers, Setup(asked) PROVE SinksInv'
  BY <1>1, SinksStay DEF Setup, writing
<1>2. ASSUME NEW s \in Setters, SetLevelGoes(s) \/ (\E types, level : SetLevel(s, types, level))
      PROVE SinksInv'
  <2>1. UNCHANGED writing
    BY <1>2 DEF SetLevelGoes, SetLevel, StoreConsole, StoreFiles, LoadConsole, LoadFiles, StoreFlag, At
  <2>2. QED  BY <2>1, SinksStay
<1>3. ASSUME NEW enable \in BOOLEAN, SetStderr(enable) PROVE SinksInv'
  BY <1>3, SinksStay DEF SetStderr
<1>4. ASSUME NEW w \in Writers, NEW l \in PutLevels, Put(w, l) PROVE SinksInv'
  BY <1>4, BeginSinks
<1>5. ASSUME NEW w \in Writers, Collects(w) PROVE SinksInv'
  BY <1>5, BeginSinks, CollectSinks DEF Collects
<1>6. ASSUME NEW w \in Writers, Writes(w) PROVE SinksInv'
  BY <1>6, LockSinks, ConsoleSinks, FilesSinks DEF Writes
<1>7. CASE UNCHANGED vars  BY <1>7, SinksStay DEF vars, writing
<1>8. QED  BY <1>1, <1>2, <1>3, <1>4, <1>5, <1>6, <1>7 DEF Next

\* A MultiLog stands together in every sink.
THEOREM BatchesAreWhole == Spec => []BatchStaysTogether
<1>1. SinksInv => BatchStaysTogether  BY DEF SinksInv, Together, BatchStaysTogether
<1>2. QED  BY <1>1, InitSinks, NextSinks, PTL DEF Spec
=============================================================================
