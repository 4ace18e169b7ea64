-------------------------- MODULE SessionPlayback --------------------------
(***************************************************************************)
(* The playback of a session (src/src/session/session.cc): one master      *)
(* clock that scrubs every sequence device of the session, and the calls   *)
(* the UI makes into it.                                                   *)
(*                                                                         *)
(* Two threads drive the devices.  Both change _playback under             *)
(* _playback_mutex, release it, and only then scrub the devices one after  *)
(* the other: by writing the device's configuration, which no lock         *)
(* protects, and then by asking the device, under its _device_mutex, to    *)
(* apply it.  A device that plays by itself ticks on a thread of its own.  *)
(* The fraction of a frame in _playback_accum is not kept: an iteration of *)
(* the clock advances by any whole number of frames up to a bound.         *)
(***************************************************************************)
EXTENDS Integers

CONSTANTS
  DeviceCount,  (* devices of the workspace, in the order of its list      *)
  Counts,       (* frame counts a device takes; 0: it is not a sequence    *)
  Ranges,       (* in and out points and loop mode of a device's sequence  *)
  Positions,    (* frames the UI scrubs to                                 *)
  LoopRegions,  (* in and out points the UI sets                           *)
  Timelines,    (* timelines of the configurations applied to the session  *)
  MaxAdvance,   (* bound: frames one iteration of the clock advances by    *)
  MaxCalls,     (* bound: calls of the UI                                  *)
  MaxEdits      (* bound: loads, membership changes, devices set playing   *)

Timeline == [looping : BOOLEAN, start : Nat, current : Nat, end : Int,
             length : Int]

ASSUME PlaybackAssumption ==
  /\ DeviceCount \in Nat
  /\ Counts \subseteq Nat
  /\ Ranges \subseteq [in : Int, out : Int, looping : BOOLEAN]
  /\ Positions \subseteq Int
  /\ LoopRegions \subseteq [in : Int, out : Int]
  /\ Timelines \subseteq Timeline
  /\ MaxAdvance \in Nat
  /\ MaxCalls \in Nat
  /\ MaxEdits \in Nat

Devices == 1 .. DeviceCount

VARIABLES
  playback,     (* _playback                                               *)
  configFrame,  (* _config.timeline.current_frame                          *)
  cached,       (* _cached_total_frames, _cached_session_length,           *)
                (* _cached_has_sequence                                    *)
  loop,         (* update_loop: where it is, and its locals                *)
  scrub,        (* scrub_devices, in the UI thread and in the update loop  *)
  device,       (* each device: whether the session includes it, its frame *)
                (* count, its sequence configuration, the frame it shows   *)
  ticking,      (* the devices inside PlyDevice::tick                      *)
  calls,        (* the calls the UI has made                               *)
  edits         (* the edits made to the devices                           *)

vars == <<playback, configFrame, cached, loop, scrub, device, ticking, calls,
          edits>>

Larger(a, b) == IF a > b THEN a ELSE b

Smaller(a, b) == IF a < b THEN a ELSE b

Clamp(x, low, high) == Larger(low, Smaller(x, high))

Idle == [at |-> "idle", frame |-> 0, todo |-> {}]

ScrubTo(f) == [at |-> "gather", frame |-> f, todo |-> {}]

(* A session whose devices have been loaded and show their first frame.    *)
Init ==
  /\ \E tl \in Timelines :
       /\ playback = [playing |-> FALSE, looping |-> tl.looping,
                      start |-> tl.start, end |-> tl.end,
                      length |-> tl.length,
                      current |-> Larger(tl.start, tl.current)]
       /\ configFrame = tl.current
  /\ cached = [total |-> 1, length |-> 1, has |-> FALSE]
  /\ loop = [at |-> "collect", total |-> 1, has |-> FALSE, lastLength |-> -1,
             lastHas |-> FALSE]
  /\ scrub = [t \in {"ui", "clock"} |-> Idle]
  /\ \E count \in [Devices -> Counts], range \in [Devices -> Ranges] :
       device = [d \in Devices |->
                   [member |-> TRUE, count |-> count[d], range |-> range[d],
                    playing |-> FALSE, asked |-> 0, shown |-> 0]]
  /\ ticking = {}
  /\ calls = 0
  /\ edits = 0

(***************************************************************************)
(* The calls of the UI.                                                    *)
(***************************************************************************)
UiCall ==
  /\ scrub["ui"].at = "idle"
  /\ calls < MaxCalls
  /\ calls' = calls + 1
  /\ UNCHANGED <<cached, loop, device, ticking, edits>>

UiScrubs(f) == scrub' = [scrub EXCEPT !["ui"] = ScrubTo(f)]

Play ==
  /\ UiCall
  /\ playback' = [playback EXCEPT !.playing = TRUE]
  /\ UiScrubs(playback.current)
  /\ UNCHANGED configFrame

Pause ==
  /\ UiCall
  /\ playback' = [playback EXCEPT !.playing = FALSE]
  /\ UNCHANGED <<configFrame, scrub>>

Stop ==
  /\ UiCall
  /\ LET frame == Larger(0, playback.start) IN
       /\ playback' = [playback EXCEPT !.playing = FALSE, !.current = frame]
       /\ UiScrubs(frame)
  /\ UNCHANGED configFrame

Scrub(f) ==
  /\ UiCall
  /\ LET frame == Larger(playback.start, f) IN
       /\ playback' = [playback EXCEPT !.current = frame]
       /\ UiScrubs(frame)
  /\ UNCHANGED configFrame

SetLoop(region) ==
  /\ UiCall
  /\ playback' = [playback EXCEPT !.start = Larger(0, region.in),
                                  !.end = region.out]
  /\ UNCHANGED <<configFrame, scrub>>

SetLooping(on) ==
  /\ UiCall
  /\ playback' = [playback EXCEPT !.looping = on]
  /\ UNCHANGED <<configFrame, scrub>>

(* A new configuration moves the session only if its own frame changed,    *)
(* and moves no device.                                                    *)
UpdateConfig(tl) ==
  /\ UiCall
  /\ LET frame == IF tl.current # configFrame THEN tl.current
                                              ELSE playback.current IN
       playback' = [playing |-> playback.playing, looping |-> tl.looping,
                    start |-> Larger(0, tl.start), end |-> tl.end,
                    length |-> tl.length,
                    current |-> Larger(Larger(0, tl.start), frame)]
  /\ configFrame' = tl.current
  /\ UNCHANGED scrub

(***************************************************************************)
(* Scrubbing the devices, by either thread.                                *)
(***************************************************************************)
Included(ds) == {d \in DOMAIN ds : ds[d].member}

Gather(t) ==
  /\ scrub[t].at = "gather"
  /\ scrub' = [scrub EXCEPT ![t].at = "write", ![t].todo = Included(device)]
  /\ UNCHANGED <<playback, configFrame, cached, loop, device, ticking, calls,
                 edits>>

IsFirst(d, ds) == d \in ds /\ \A e \in ds : d <= e

(* The frame of a device whose cycle runs along with the session.          *)
PhaseFrame(range, count, f) ==
  LET out == IF range.out > -1 THEN Smaller(range.out, count - 1)
                               ELSE count - 1
      in == Clamp(range.in, 0, out) IN
  IF range.looping THEN in + (f % (out - in + 1)) ELSE Smaller(in + f, out)

(* A slip: the device goes on playing by itself.                           *)
WriteFrameOnly(t, d) ==
  /\ scrub[t].at = "write"
  /\ IsFirst(d, scrub[t].todo)
  /\ device[d].count > 0
  /\ device' = [device EXCEPT
       ![d].asked = PhaseFrame(device[d].range, device[d].count,
                               Larger(0, scrub[t].frame))]
  /\ scrub' = [scrub EXCEPT ![t].at = "apply"]
  /\ UNCHANGED <<playback, configFrame, cached, loop, ticking, calls, edits>>

WriteDevice(t, d) ==
  /\ scrub[t].at = "write"
  /\ IsFirst(d, scrub[t].todo)
  /\ device[d].count > 0
  /\ device' = [device EXCEPT
       ![d].playing = FALSE,
       ![d].asked = PhaseFrame(device[d].range, device[d].count,
                               Larger(0, scrub[t].frame))]
  /\ scrub' = [scrub EXCEPT ![t].at = "apply"]
  /\ UNCHANGED <<playback, configFrame, cached, loop, ticking, calls, edits>>

SkipDevice(t, d) ==
  /\ scrub[t].at = "write"
  /\ IsFirst(d, scrub[t].todo)
  /\ device[d].count = 0
  /\ scrub' = [scrub EXCEPT ![t].todo = @ \ {d}]
  /\ UNCHANGED <<playback, configFrame, cached, loop, device, ticking, calls,
                 edits>>

(* The range as the device reads it.                                       *)
First(d) == Clamp(device[d].range.in, 0, device[d].count - 1)

Last(d) ==
  IF device[d].range.out < 0 THEN device[d].count - 1
  ELSE Clamp(device[d].range.out, First(d), device[d].count - 1)

(* The device takes its mutex and shows the frame its configuration asks   *)
(* for by then.                                                            *)
ApplyDevice(t, d) ==
  /\ scrub[t].at = "apply"
  /\ IsFirst(d, scrub[t].todo)
  /\ d \notin ticking
  /\ IF device[d].count > 0
     THEN LET frame == Clamp(device[d].asked, First(d), Last(d)) IN
          device' = [device EXCEPT ![d].asked = frame, ![d].shown = frame]
     ELSE UNCHANGED device
  /\ scrub' = [scrub EXCEPT ![t].at = "write", ![t].todo = @ \ {d}]
  /\ UNCHANGED <<playback, configFrame, cached, loop, ticking, calls, edits>>

EndScrub(t) ==
  /\ scrub[t].at = "write"
  /\ scrub[t].todo = {}
  /\ scrub' = [scrub EXCEPT ![t] = Idle]
  /\ loop' = IF t = "clock" THEN [loop EXCEPT !.at = "collect"] ELSE loop
  /\ UNCHANGED <<playback, configFrame, cached, device, ticking, calls, edits>>

(***************************************************************************)
(* The update loop: collect the devices, publish the length, advance.      *)
(***************************************************************************)
Sequences == {d \in Included(device) : device[d].count > 0}

(* The length of the longest sequence, and one frame when there is none.   *)
DeviceTotals == {1} \union {device[d].count : d \in Sequences}

IsDeviceTotal(n) == n >= 1 /\ \A d \in Sequences : n >= device[d].count

Collect ==
  /\ loop.at = "collect"
  /\ \E total \in DeviceTotals :
       /\ IsDeviceTotal(total)
       /\ loop' = [loop EXCEPT !.at = "publish", !.total = total,
                               !.has = Sequences # {}]
  /\ UNCHANGED <<playback, configFrame, cached, scrub, device, ticking, calls,
                 edits>>

ResolveLength(total) ==
  IF playback.length > 0 THEN playback.length ELSE Larger(1, total)

News ==
  \/ ResolveLength(loop.total) # loop.lastLength
  \/ loop.has # loop.lastHas

PublishLength ==
  /\ loop.at = "publish"
  /\ News
  /\ cached' = [total |-> loop.total, length |-> ResolveLength(loop.total),
                has |-> loop.has]
  /\ loop' = [loop EXCEPT !.at = "clock",
                          !.lastLength = ResolveLength(loop.total),
                          !.lastHas = loop.has]
  /\ UNCHANGED <<playback, configFrame, scrub, device, ticking, calls, edits>>

PublishNothing ==
  /\ loop.at = "publish"
  /\ ~News
  /\ loop' = [loop EXCEPT !.at = "clock"]
  /\ UNCHANGED <<playback, configFrame, cached, scrub, device, ticking, calls,
                 edits>>

(* The loop region the clock plays, from the cached number of frames.      *)
LastFrame == Larger(0, ResolveLength(cached.total) - 1)

LoopIn == Clamp(playback.start, 0, LastFrame)

LoopOut ==
  IF playback.end < 0 THEN LastFrame ELSE Clamp(playback.end, LoopIn, LastFrame)

(* A slip: a session outside the region plays on from where it is.         *)
Unsnapped == playback.current

Snapped ==
  IF playback.current < LoopIn \/ playback.current > LoopOut
  THEN LoopIn ELSE playback.current

Wrapped(frame, in, out) == in + ((frame - in) % (out - in + 1))

Landing(advance) ==
  IF Snapped + advance <= LoopOut THEN Snapped + advance
  ELSE IF playback.looping THEN Wrapped(Snapped + advance, LoopIn, LoopOut)
                           ELSE LoopOut

(* A slip: the end of the region does not stop the clock.                  *)
PlaysForever(advance) == TRUE

PlaysOn(advance) == playback.looping \/ Snapped + advance <= LoopOut

Advance(advance) ==
  /\ loop.at = "clock"
  /\ playback.playing
  /\ advance > 0
  /\ playback' = [playback EXCEPT !.current = Landing(advance),
                                  !.playing = PlaysOn(advance)]
  /\ scrub' = [scrub EXCEPT !["clock"] = ScrubTo(Landing(advance))]
  /\ loop' = [loop EXCEPT !.at = "scrub"]
  /\ UNCHANGED <<configFrame, cached, device, ticking, calls, edits>>

(* Less than a frame has passed: the session may still be moved into its   *)
(* loop region, and its devices are not.                                   *)
HoldFrame ==
  /\ loop.at = "clock"
  /\ playback.playing
  /\ playback' = [playback EXCEPT !.current = Snapped]
  /\ loop' = [loop EXCEPT !.at = "collect"]
  /\ UNCHANGED <<configFrame, cached, scrub, device, ticking, calls, edits>>

NotPlaying ==
  /\ loop.at = "clock"
  /\ ~playback.playing
  /\ loop' = [loop EXCEPT !.at = "collect"]
  /\ UNCHANGED <<playback, configFrame, cached, scrub, device, ticking, calls,
                 edits>>

(***************************************************************************)
(* The devices, and those who edit them.                                   *)
(***************************************************************************)
TickBegins(d) ==
  /\ d \notin ticking
  /\ device[d].member /\ device[d].count > 0 /\ device[d].playing
  /\ device[d].range.looping \/ device[d].shown < Last(d)
  /\ ticking' = ticking \union {d}
  /\ UNCHANGED <<playback, configFrame, cached, loop, scrub, device, calls,
                 edits>>

TickAtEnd(d) ==
  /\ d \notin ticking
  /\ device[d].member /\ device[d].count > 0 /\ device[d].playing
  /\ ~device[d].range.looping /\ device[d].shown >= Last(d)
  /\ device' = [device EXCEPT ![d].playing = FALSE]
  /\ UNCHANGED <<playback, configFrame, cached, loop, scrub, ticking, calls,
                 edits>>

(* The tick moves on by a frame and writes it into the configuration,      *)
(* whatever a scrub has written there since the tick began.                *)
TickEnds(d) ==
  /\ d \in ticking
  /\ LET from == IF device[d].shown < First(d) \/ device[d].shown > Last(d)
                 THEN First(d) ELSE device[d].shown
         ends == from + 1 > Last(d)
         frame == IF ~ends THEN from + 1
                  ELSE IF device[d].range.looping THEN First(d) ELSE Last(d) IN
       device' = [device EXCEPT
         ![d].shown = frame,
         ![d].asked = IF frame = from THEN @ ELSE frame,
         ![d].playing = @ /\ (~ends \/ device[d].range.looping)]
  /\ ticking' = ticking \ {d}
  /\ UNCHANGED <<playback, configFrame, cached, loop, scrub, calls, edits>>

Edit ==
  /\ edits < MaxEdits
  /\ edits' = edits + 1
  /\ UNCHANGED <<playback, configFrame, cached, loop, scrub, ticking, calls>>

(* A load starts at the first frame, whatever the configuration asks for.  *)
Load(d, count) ==
  /\ Edit
  /\ d \notin ticking
  /\ device' = [device EXCEPT ![d].count = count, ![d].shown = 0]

ChangeMembership(d) ==
  /\ Edit
  /\ device' = [device EXCEPT ![d].member = ~@]

SetDevicePlaying(d) ==
  /\ Edit
  /\ device' = [device EXCEPT ![d].playing = TRUE]

UiNext ==
  \/ Play \/ Pause \/ Stop
  \/ \E f \in Positions : Scrub(f)
  \/ \E region \in LoopRegions : SetLoop(region)
  \/ \E on \in BOOLEAN : SetLooping(on)
  \/ \E tl \in Timelines : UpdateConfig(tl)

ScrubNext(t) ==
  \/ Gather(t)
  \/ \E d \in Devices :
       WriteDevice(t, d) \/ SkipDevice(t, d) \/ ApplyDevice(t, d)
  \/ EndScrub(t)

ClockNext ==
  \/ Collect \/ PublishLength \/ PublishNothing \/ HoldFrame \/ NotPlaying
  \/ \E n \in 1 .. MaxAdvance : Advance(n)

DeviceNext(d) ==
  \/ TickBegins(d) \/ TickAtEnd(d) \/ TickEnds(d)
  \/ \E count \in Counts : Load(d, count)
  \/ ChangeMembership(d) \/ SetDevicePlaying(d)

Next ==
  \/ UiNext
  \/ ClockNext
  \/ \E t \in {"ui", "clock"} : ScrubNext(t)
  \/ \E d \in Devices : DeviceNext(d)

Spec == Init /\ [][Next]_vars

(***************************************************************************)
(* The update loop never blocks, and an iteration adds the time that has   *)
(* passed to the accumulator, so that whole frames keep falling due while  *)
(* the session plays.  A call of the UI runs to its end, and so does a     *)
(* tick; the tick thread sleeps between two ticks, so that a scrub gets    *)
(* the mutex of the device.  Nobody has to call, edit or tick.             *)
(***************************************************************************)
Fairness ==
  /\ WF_vars(ClockNext)
  /\ SF_vars(\E n \in 1 .. MaxAdvance : Advance(n))
  /\ \A t \in {"ui", "clock"} :
       /\ WF_vars(ScrubNext(t))
       /\ SF_vars(\E d \in Devices : ApplyDevice(t, d))
  /\ \A d \in Devices : WF_vars(TickEnds(d))

FairSpec == Spec /\ Fairness

(***************************************************************************)
(* Properties.                                                             *)
(***************************************************************************)
Playback == [playing : BOOLEAN, looping : BOOLEAN, start : Nat, end : Int,
             length : Int, current : Nat]

DeviceState == [member : BOOLEAN, count : Nat,
                range : [in : Int, out : Int, looping : BOOLEAN],
                playing : BOOLEAN, asked : Nat, shown : Nat]

(* Every variable has its type: the session's frame and the frames of the  *)
(* devices never become negative.                                          *)
TypeOK ==
  /\ playback \in Playback
  /\ configFrame \in Nat
  /\ cached \in [total : Nat \ {0}, length : Nat \ {0}, has : BOOLEAN]
  /\ loop \in [at : {"collect", "publish", "clock", "scrub"},
               total : Nat \ {0}, has : BOOLEAN, lastLength : Int,
               lastHas : BOOLEAN]
  /\ scrub \in [{"ui", "clock"} -> [at : {"idle", "gather", "write", "apply"},
                                    frame : Nat, todo : SUBSET Devices]]
  /\ device \in [Devices -> DeviceState]
  /\ ticking \subseteq Devices
  /\ calls \in 0 .. MaxCalls
  /\ edits \in 0 .. MaxEdits

(* The frame n steps of one frame lead to, in a region that is looped or   *)
(* played once: what the jumps of advance_playback and scrub_devices stand *)
(* for.                                                                    *)
Stepping(from, in, out, looping, n) ==
  LET after[k \in 0 .. n] ==
        IF k = 0 THEN from
        ELSE IF after[k - 1] < out THEN after[k - 1] + 1
        ELSE IF looping THEN in ELSE out IN
  after[n]

(* The clock never leaves the loop region in force, wherever the session   *)
(* was before.                                                             *)
AdvanceStaysInLoop ==
  [][loop.at = "clock" /\ loop'.at = "scrub" =>
       playback'.current \in LoopIn .. LoopOut]_vars

(* When the clock stops a session that is played once, the session stands  *)
(* at its out point: the last frame is not cut off.                        *)
OneShotStopsAtOut ==
  [][loop'.at = "scrub" /\ loop.at = "clock" /\ ~playback'.playing =>
       playback'.current = LoopOut]_vars

(* Every sequence device of the session shows the frame its own cycle is   *)
(* at, counted from its in point, after as many frames as the session is   *)
(* at ("phase-locked to session", session.cc:208).                         *)
InPhase ==
  \A d \in Sequences :
    device[d].shown =
      Stepping(First(d), First(d), Last(d), device[d].range.looping,
               playback.current)

AtRest ==
  /\ scrub["ui"].at = "idle"
  /\ loop.at # "scrub"
  /\ ticking = {}

(* A session that is paused and has no scrub under way shows its devices   *)
(* at its own frame: what "snap devices to current" of a stop or a scrub   *)
(* leaves behind.                                                          *)
PausedInPhase == AtRest /\ ~playback.playing => InPhase

(* A session with no length of its own, whose timeline shows the length of *)
(* its longest sequence, plays that length.                                *)
PlaysTheLengthItShows ==
  loop.at = "clock" /\ playback.length <= 0 /\ cached.length = loop.total =>
    ResolveLength(cached.total) = cached.length

(* A session that goes on playing brings its devices back into phase, and  *)
(* every iteration of the clock leaves them there, whatever calls, ticks,  *)
(* loads and overtaking scrubs have done to them before.                   *)
PlayingRealigns ==
  <>[]playback.playing => <>[](loop.at # "scrub" => InPhase)

(* A session that is played once stops.                                    *)
OneShotEnds == []<>(~playback.playing \/ playback.looping)
=============================================================================
