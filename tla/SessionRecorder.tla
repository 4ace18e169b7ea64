--------------------------- MODULE SessionRecorder ---------------------------
(***************************************************************************)
(* The session recorder: the user interface starts and stops a recording,  *)
(* a recorder thread queues a frame thirty times a second, a writer thread *)
(* takes them off and hands each to the pool that writes the files.        *)
(*                                                                         *)
(* stop_recording() only clears a flag. A start that follows before the    *)
(* recorder thread and its writer are gone starts a second pair beside the *)
(* first and then waits, the user interface with it, for the first to end: *)
(* `Pairs' has two members, and `overlapped' remembers that it happened.   *)
(* The queue is made for one producer and one consumer; what two of each   *)
(* may do to its memory is left out, they use it one at a time here.       *)
(***************************************************************************)
EXTENDS Naturals, Sequences, FiniteSets

CONSTANTS
  FrameQueueMax,   \* frame_queue_max
  DepthModulus,    \* the counter _queue_depth counts modulo this
  MaxFrames,       \* bound: frames of one recording
  MaxTakes         \* bound: recordings

ASSUME RecorderAssumption ==
  /\ FrameQueueMax \in Nat \ {0} /\ MaxFrames \in Nat /\ MaxTakes \in Nat
  /\ DepthModulus \in Nat /\ DepthModulus > FrameQueueMax + 2

Pairs == {1, 2}

VARIABLES
  recording,      \* _recording
  writing,        \* _file_writing
  frame,          \* _current_frame
  depth,          \* _queue_depth
  dropped,        \* _dropped_frames
  clips,          \* _frame_queue: [take, index]
  inFlight,       \* the frames the pool is writing, _writes_in_flight of them
  recorder,       \* per pair, the recorder thread: "gone", "loop", "count" or "join"
  writer,         \* per pair, the writer: "gone", "new", "run", "drain" or "wait"
  hand,           \* per pair, the frame its writer has taken off, or <<>>
  replaced,       \* the pair whose stop was requested by a later start
  take,           \* recordings started
  disk,           \* the files: index |-> the recording that wrote it last
  unopened,       \* history: index |-> the last recording that could not open that file
  overlapped      \* history: this recording began before the last had ended

threads == <<recorder, writer, hand, replaced>>
counters == <<frame, depth, dropped>>
recorderVars == <<recording, writing, counters, clips, inFlight, threads, take, disk,
                  unopened, overlapped>>

Gone(p) == recorder[p] = "gone"
Stopping(p) == p \in replaced \/ ~recording
UserBlocked == \A p \in Pairs : ~Gone(p)    \* in start_recording, joining the old thread

RecorderInit ==
  /\ recording = FALSE /\ writing = FALSE
  /\ frame = 0 /\ depth = 0 /\ dropped = 0
  /\ clips = <<>> /\ inFlight = {}
  /\ recorder = [p \in Pairs |-> "gone"] /\ writer = [p \in Pairs |-> "gone"]
  /\ hand = [p \in Pairs |-> <<>>]
  /\ replaced = {}
  /\ take = 0
  /\ disk = [i \in 0..MaxFrames |-> 0] /\ unopened = [i \in 0..MaxFrames |-> 0]
  /\ overlapped = FALSE

-----------------------------------------------------------------------------
(* The button: start while not recording, stop while recording.              *)
StartRecording ==
  /\ ~recording /\ ~UserBlocked /\ take < MaxTakes
  /\ frame' = 0 /\ depth' = 0 /\ dropped' = 0
  /\ recording' = TRUE
  /\ take' = take + 1
  /\ \E p \in Pairs :
       /\ Gone(p)
       /\ recorder' = [recorder EXCEPT ![p] = "loop"]
       /\ writer' = [writer EXCEPT ![p] = "new"]
       /\ replaced' = {q \in Pairs \ {p} : ~Gone(q)}
       /\ overlapped' = (replaced' # {})
  /\ UNCHANGED <<writing, clips, inFlight, hand, disk, unopened>>

StopRecording ==
  /\ recording /\ ~UserBlocked
  /\ recording' = FALSE
  /\ UNCHANGED <<writing, counters, clips, inFlight, threads, take, disk, unopened,
                 overlapped>>

-----------------------------------------------------------------------------
(* The recorder thread. The depth is counted after the frame is enqueued.    *)
RecordFrame(p) ==
  /\ recorder[p] = "loop" /\ ~Stopping(p) /\ frame < MaxFrames
  /\ IF depth < FrameQueueMax
     THEN /\ clips' = Append(clips, [take |-> take, index |-> frame])
          /\ recorder' = [recorder EXCEPT ![p] = "count"]
          /\ UNCHANGED <<frame, dropped>>
     ELSE /\ dropped' = dropped + 1
          /\ frame' = frame + 1
          /\ UNCHANGED <<clips, recorder>>
  /\ UNCHANGED <<recording, writing, depth, inFlight, writer, hand, replaced, take,
                 disk, unopened, overlapped>>

CountFrame(p) ==
  /\ recorder[p] = "count"
  /\ depth' = (depth + 1) % DepthModulus
  /\ frame' = frame + 1
  /\ recorder' = [recorder EXCEPT ![p] = "loop"]
  /\ UNCHANGED <<recording, writing, dropped, clips, inFlight, writer, hand, replaced,
                 take, disk, unopened, overlapped>>

(* The loop ends, and the writer's jthread is asked to stop and joined.      *)
EndLoop(p) ==
  /\ recorder[p] = "loop" /\ Stopping(p)
  /\ recorder' = [recorder EXCEPT ![p] = "join"]
  /\ UNCHANGED <<recording, writing, counters, clips, inFlight, writer, hand, replaced,
                 take, disk, unopened, overlapped>>

RecorderGone(p) ==
  /\ recorder[p] = "join" /\ writer[p] = "gone"
  /\ recorder' = [recorder EXCEPT ![p] = "gone"]
  /\ replaced' = replaced \ {p}
  /\ UNCHANGED <<recording, writing, counters, clips, inFlight, writer, hand, take,
                 disk, unopened, overlapped>>

-----------------------------------------------------------------------------
(* The writer thread: a loop until it is asked to stop, then a drain.        *)
WriterBegins(p) ==
  /\ writer[p] = "new"
  /\ writer' = [writer EXCEPT ![p] = "run"]
  /\ writing' = TRUE
  /\ UNCHANGED <<recording, counters, clips, inFlight, recorder, hand, replaced, take,
                 disk, unopened, overlapped>>

TakeFrame(p) ==
  /\ writer[p] \in {"run", "drain"} /\ hand[p] = <<>> /\ clips # <<>>
  /\ hand' = [hand EXCEPT ![p] = <<Head(clips)>>]
  /\ clips' = Tail(clips)
  /\ UNCHANGED <<recording, writing, counters, inFlight, recorder, writer, replaced,
                 take, disk, unopened, overlapped>>

WriteFrame(p) ==
  /\ hand[p] # <<>>
  /\ depth' = (depth + DepthModulus - 1) % DepthModulus
  /\ inFlight' = inFlight \cup {hand[p][1]}
  /\ hand' = [hand EXCEPT ![p] = <<>>]
  /\ UNCHANGED <<recording, writing, frame, dropped, clips, recorder, writer, replaced,
                 take, disk, unopened, overlapped>>

(* Slip: the writer ends with its loop.                                      *)
SkipDrain(p) ==
  /\ writer[p] = "run" /\ recorder[p] = "join" /\ hand[p] = <<>>
  /\ writer' = [writer EXCEPT ![p] = "wait"]
  /\ UNCHANGED <<recording, writing, counters, clips, inFlight, recorder, hand,
                 replaced, take, disk, unopened, overlapped>>

StartDrain(p) ==
  /\ writer[p] = "run" /\ recorder[p] = "join" /\ hand[p] = <<>>
  /\ writer' = [writer EXCEPT ![p] = "drain"]
  /\ UNCHANGED <<recording, writing, counters, clips, inFlight, recorder, hand,
                 replaced, take, disk, unopened, overlapped>>

Drained(p) ==
  /\ writer[p] = "drain" /\ hand[p] = <<>> /\ clips = <<>>
  /\ writer' = [writer EXCEPT ![p] = "wait"]
  /\ UNCHANGED <<recording, writing, counters, clips, inFlight, recorder, hand,
                 replaced, take, disk, unopened, overlapped>>

WriterGone(p) ==
  /\ writer[p] = "wait" /\ inFlight = {}
  /\ writer' = [writer EXCEPT ![p] = "gone"]
  /\ writing' = FALSE
  /\ UNCHANGED <<recording, counters, clips, inFlight, recorder, hand, replaced, take,
                 disk, unopened, overlapped>>

(* A task of the pool, in any order; the path is the same in every recording.*)
(* A file that cannot be opened is logged, and its frame is gone: neither    *)
(* _dropped_frames nor anything else counts it. What becomes of the bytes    *)
(* after the file has been opened is not looked at.                          *)
FileWritten ==
  \E clip \in inFlight :
    /\ inFlight' = inFlight \ {clip}
    /\ \/ /\ disk' = [disk EXCEPT ![clip.index] = clip.take]
          /\ UNCHANGED unopened
       \/ /\ unopened' = [unopened EXCEPT ![clip.index] = clip.take]
          /\ UNCHANGED disk
    /\ UNCHANGED <<recording, writing, counters, clips, threads, take, overlapped>>

-----------------------------------------------------------------------------
ThreadSteps(p) ==
  \/ RecordFrame(p) \/ CountFrame(p) \/ EndLoop(p) \/ RecorderGone(p)
  \/ WriterBegins(p) \/ TakeFrame(p) \/ WriteFrame(p) \/ StartDrain(p) \/ Drained(p)
  \/ WriterGone(p)

RecorderNext ==
  \/ StartRecording \/ StopRecording \/ FileWritten
  \/ \E p \in Pairs : ThreadSteps(p)

RecorderSpec == RecorderInit /\ [][RecorderNext]_recorderVars

-----------------------------------------------------------------------------
(* When a recording has ended and everything is at rest, the queue is empty, *)
(* nothing claims to be writing, and every frame of the recording is in its  *)
(* file, or was counted as dropped, or its file could not be opened: a stop  *)
(* loses nothing, however deep the queue was. A frame whose file could not   *)
(* be opened is lost without being counted anywhere. A recording that began  *)
(* before the last had ended shares its counters, queue and files with it,   *)
(* and nothing of the kind holds.                                            *)
Settled(i) == take \in {disk[i], unopened[i]}
RestIsComplete ==
  (\A p \in Pairs : Gone(p)) =>
    /\ clips = <<>> /\ inFlight = {} /\ ~writing
    /\ ~overlapped =>
         Cardinality({i \in 0..MaxFrames : i < frame /\ Settled(i)}) + dropped = frame
=============================================================================
