----------------------------- MODULE LogConsole -----------------------------
(***************************************************************************)
(* The logger: the buffer that any thread logs into and the console of the *)
(* user interface empties, woken once for a burst; and the log file, which *)
(* an application or an operator of a host opens under its own name, after *)
(* the files of earlier runs were moved up by one. A message is the number *)
(* of those that passed the level before it, a file the run that wrote it. *)
(***************************************************************************)
EXTENDS Naturals, Sequences

CONSTANTS
  MaxEntries,   \* of the buffer
  MaxRows,      \* of the console
  MaxRecent,    \* shown over the view, for Lifetime
  Lifetime,
  KeepRuns,     \* log files kept of a target
  LogTargets,   \* the names under which files are opened
  MaxLogs,      \* bound: messages logged
  MaxTime,      \* bound: the clock
  MaxRuns,      \* bound: files opened
  MaxConsoles   \* bound: consoles made, and crashes

ASSUME LogAssumption ==
  /\ MaxRows \in 1..MaxEntries /\ MaxEntries \in Nat /\ MaxRecent \in 1..MaxRows
  /\ KeepRuns \in Nat /\ KeepRuns >= 2
  /\ {Lifetime, MaxLogs, MaxTime, MaxRuns, MaxConsoles} \subseteq Nat

VARIABLES
  level,       \* of the logger: "all" or "errors"
  logged,      \* messages that passed it
  entries,     \* buffer_sink
  wakeup,      \* it has a function to wake the console
  console,     \* LogModel: "none", "wakes" (in its constructor) or "open"
  posted,      \* calls of takeLogEntries in the queue of the user interface
  rows, recent,
  timer,       \* when expireRecentEntries is due, or <<>>
  clock,
  fileSink,    \* the target whose file is written, or <<>>
  logFiles,    \* of each target: the run in the base file, then in .1, .2 ...
  rotation,    \* enable_file_logging: the target and the file to move next, or <<>>
  consoles, crashes,
  missed,      \* history: messages that were taken by consoles that are gone
  runs,        \* history: files opened, the earlier ones included
  overwritten  \* history: runs whose file a rename or an opening replaced

bufferVars == <<level, logged, entries>>
consoleVars == <<wakeup, console, rows, recent, timer, consoles, missed>>
fileVars == <<fileSink, logFiles, rotation, runs, overwritten>>
logVars == <<bufferVars, consoleVars, posted, clock, crashes, fileVars>>

(* What the last n runs left.                                                *)
EarlierFiles(n) == [i \in 0..(KeepRuns - 1) |-> IF i < n THEN KeepRuns - i ELSE 0]

ProgramStarts ==
  /\ level' = "all" /\ logged' = 0 /\ entries' = <<>>
  /\ wakeup' = FALSE /\ console' = "none" /\ posted' = 0
  /\ rows' = <<>> /\ recent' = <<>> /\ timer' = <<>>
  /\ fileSink' = <<>> /\ rotation' = <<>> /\ missed' = 0

LogInit ==
  /\ level = "all" /\ logged = 0 /\ entries = <<>>
  /\ wakeup = FALSE /\ console = "none" /\ posted = 0
  /\ rows = <<>> /\ recent = <<>> /\ timer = <<>> /\ clock = 0
  /\ fileSink = <<>> /\ rotation = <<>> /\ missed = 0 /\ consoles = 0 /\ crashes = 0
  /\ runs = KeepRuns /\ overwritten = {}
  /\ \E n \in {0, KeepRuns} : logFiles = [t \in LogTargets |-> EarlierFiles(n)]

-----------------------------------------------------------------------------
(* The newest n of a sequence.                                               *)
Newest(s, n) == IF Len(s) <= n THEN s ELSE SubSeq(s, Len(s) - n + 1, Len(s))

(* Slip: the buffer is asked whether it is empty after the message is in it. *)
WakesLate == entries' = <<>>

(* sink_it_: one message of a burst wakes the console.                       *)
Wakes == entries = <<>>

(* A message that passes the level, or one that does not.                    *)
Sink(passes) ==
  IF ~passes THEN UNCHANGED <<logged, entries, posted>>
  ELSE /\ logged' = logged + 1
       /\ entries' = Newest(Append(entries, logged + 1), MaxEntries)
       /\ posted' = IF Wakes /\ wakeup THEN posted + 1 ELSE posted

Passes(severity) == level = "all" \/ severity = "error"

Log(severity) ==
  /\ logged < MaxLogs /\ Passes(severity) /\ Sink(TRUE)
  /\ UNCHANGED <<level, consoleVars, clock, crashes, fileVars>>

SetLogLevel(l) ==
  /\ rotation = <<>> /\ l # level /\ level' = l
  /\ UNCHANGED <<logged, entries, posted, consoleVars, clock, crashes, fileVars>>

-----------------------------------------------------------------------------
(* LogModel: the constructor sets the wakeup first and then takes what there *)
(* is; other threads log in between.                                         *)
OpenConsole ==
  /\ rotation = <<>> /\ console = "none" /\ consoles < MaxConsoles
  /\ wakeup' = TRUE /\ console' = "wakes"
  /\ consoles' = consoles + 1
  /\ UNCHANGED <<rows, recent, timer, missed, bufferVars, posted, clock, crashes, fileVars>>

(* scheduleRecentEntryExpiry                                                 *)
Due(shown) == IF shown = <<>> THEN <<>> ELSE <<Head(shown).expires>>

TakeLogEntries ==
  IF entries = <<>> THEN UNCHANGED <<entries, rows, recent, timer>>
  ELSE LET pending == Newest(entries, MaxRows)
       IN /\ entries' = <<>>
          /\ rows' = Newest(rows \o pending, MaxRows)
          /\ recent' = Newest(recent \o [k \in DOMAIN pending |->
                                [entry |-> pending[k], expires |-> clock + Lifetime]], MaxRecent)
          /\ timer' = Due(recent')

FirstTake ==
  /\ rotation = <<>> /\ console = "wakes" /\ console' = "open"
  /\ TakeLogEntries
  /\ UNCHANGED <<level, logged, wakeup, consoles, missed, posted, clock, crashes, fileVars>>

PostedTake ==
  /\ rotation = <<>> /\ console = "open" /\ posted > 0 /\ posted' = posted - 1
  /\ TakeLogEntries
  /\ UNCHANGED <<level, logged, wakeup, console, consoles, missed, clock, crashes, fileVars>>

ExpireRecentEntries ==
  /\ rotation = <<>> /\ timer # <<>> /\ Head(timer) <= clock
  /\ \E n \in 0..Len(recent) :
       /\ \A k \in 1..n : recent[k].expires <= clock
       /\ n < Len(recent) => recent[n + 1].expires > clock
       /\ recent' = SubSeq(recent, n + 1, Len(recent))
  /\ timer' = Due(recent')
  /\ UNCHANGED <<wakeup, console, rows, consoles, missed, bufferVars, posted, clock, crashes,
                 fileVars>>

(* The queued calls of an object go with it.                                 *)
CloseConsole ==
  /\ rotation = <<>> /\ console = "open"
  /\ console' = "none" /\ wakeup' = FALSE /\ posted' = 0
  /\ rows' = <<>> /\ recent' = <<>> /\ timer' = <<>>
  /\ missed' = logged - Len(entries)
  /\ UNCHANGED <<consoles, bufferVars, clock, crashes, fileVars>>

(* Time matters while something recent is shown.                            *)
LogClock ==
  /\ clock < MaxTime /\ timer # <<>> /\ clock' = clock + 1
  /\ UNCHANGED <<bufferVars, consoleVars, posted, crashes, fileVars>>

-----------------------------------------------------------------------------
(* enable_file_logging: nothing if the file is the one that is written; else *)
(* the oldest file is removed, the others are moved, the base file last.     *)
EnableFileLogging(t) ==
  /\ rotation = <<>> /\ fileSink # <<t>> /\ runs < KeepRuns + MaxRuns /\ logged < MaxLogs
  /\ fileSink' = <<>>
  /\ logFiles' = [logFiles EXCEPT ![t][KeepRuns - 1] = 0]
  /\ rotation' = <<t, 1>>
  /\ UNCHANGED <<runs, overwritten, bufferVars, consoleVars, posted, clock, crashes>>

(* Slip: the files are moved in the order of their numbers.                  *)
InOrder(k) == k - 1

MovedAt(k) == KeepRuns - 1 - k     \* the number of the k-th file to be moved

Replaced(t, i) == IF logFiles[t][i] = 0 THEN {} ELSE {logFiles[t][i]}

MoveLogFile ==
  /\ rotation # <<>> /\ rotation[2] < KeepRuns
  /\ LET t == rotation[1]  i == MovedAt(rotation[2])
     IN IF logFiles[t][i] = 0 THEN UNCHANGED <<logFiles, overwritten>>
        ELSE /\ logFiles' = [logFiles EXCEPT ![t][i + 1] = logFiles[t][i], ![t][i] = 0]
             /\ overwritten' = overwritten \cup Replaced(t, i + 1)
  /\ rotation' = <<rotation[1], rotation[2] + 1>>
  /\ UNCHANGED <<fileSink, runs, bufferVars, consoleVars, posted, clock, crashes>>

OpenLogFile(opens) ==
  /\ rotation # <<>> /\ rotation[2] = KeepRuns
  /\ rotation' = <<>>
  /\ IF opens
     THEN /\ runs' = runs + 1 /\ fileSink' = <<rotation[1]>>
          /\ logFiles' = [logFiles EXCEPT ![rotation[1]][0] = runs + 1]
          /\ overwritten' = overwritten \cup Replaced(rotation[1], 0)
     ELSE UNCHANGED <<runs, fileSink, logFiles, overwritten>>
  /\ Sink(Passes(IF opens THEN "info" ELSE "error"))
  /\ UNCHANGED <<level, consoleVars, clock, crashes>>

DisableFileLogging ==
  /\ rotation = <<>> /\ fileSink # <<>> /\ fileSink' = <<>> /\ logged < MaxLogs
  /\ Sink(Passes("info"))
  /\ UNCHANGED <<level, logFiles, rotation, runs, overwritten, consoleVars, clock, crashes>>

(* The program ends anywhere, as when a rename throws, and is started again. *)
Crash ==
  /\ crashes < MaxConsoles /\ crashes' = crashes + 1
  /\ ProgramStarts
  /\ UNCHANGED <<clock, consoles, logFiles, runs, overwritten>>

LogNext ==
  \/ (\E s \in {"info", "error"} : Log(s)) \/ (\E l \in {"all", "errors"} : SetLogLevel(l))
  \/ OpenConsole \/ FirstTake \/ PostedTake \/ ExpireRecentEntries \/ CloseConsole \/ LogClock
  \/ (\E t \in LogTargets : EnableFileLogging(t)) \/ MoveLogFile
  \/ (\E opens \in BOOLEAN : OpenLogFile(opens)) \/ DisableFileLogging \/ Crash

LogSpec == LogInit /\ [][LogNext]_logVars

-----------------------------------------------------------------------------
(* PROPERTIES                                                                *)

(* Whenever no call is queued, an open console shows exactly the newest      *)
(* messages, in order: no burst, whatever its size, no message logged while  *)
(* the console is being made, and none that comes during a take is left in   *)
(* the buffer without a call that will fetch it. What it shows as recent are *)
(* the last of its rows, and a timer runs that will hide them.               *)
ConsoleShowsNewest ==
  console = "open" =>
    /\ posted = 0 =>
         rows = Newest([k \in 1..(logged - missed) |-> missed + k], MaxRows)
    /\ [k \in DOMAIN recent |-> recent[k].entry] = Newest(rows, Len(recent))
    /\ recent # <<>> => timer = <<Head(recent).expires>>

(* However often files are opened, under several names, and wherever the     *)
(* program ends while it moves them, no run's file is replaced by another's: *)
(* only the oldest is removed; and the files are in the order of their runs. *)
RotationKeepsRuns ==
  /\ overwritten = {}
  /\ \A t \in LogTargets : \A i, j \in DOMAIN logFiles[t] :
       i < j /\ logFiles[t][i] # 0 => logFiles[t][j] < logFiles[t][i]
=============================================================================
