-------------------------- MODULE Services_proofs ---------------------------
(***************************************************************************)
(* Proofs about session playback and the services beside the pipeline,     *)
(* each for every value of its constants: the clock of a session, the      *)
(* recorder of sessions, the metrics endpoint, the log and its console,    *)
(* and the publishers to MQTT and OSC.                                     *)
(***************************************************************************)
EXTENDS SessionPlayback, SessionRecorder, MetricsServer, LogConsole, ExternalPublishers,
        SequenceTheorems, FiniteSetTheorems, TLAPS

-----------------------------------------------------------------------------
(* SessionPlayback: the clock never leaves the loop region, nor stops short  *)
(* of its end, for every number of devices, every frame count, loop range and*)
(* timeline.                                                                 *)

(* A remainder lies below its divisor: what the two wraps rest on.         *)
LEMMA Modulo == ASSUME NEW a \in Int, NEW b \in Nat \ {0}
                PROVE a % b \in 0 .. b - 1
  BY Z3

(* The frame a device is asked for exists, whatever its range and wherever *)
(* the session is.                                                         *)
LEMMA PhaseFrameType ==
  ASSUME NEW range \in [in : Int, out : Int, looping : BOOLEAN],
         NEW count \in Nat \ {0}, NEW f \in Nat
  PROVE PhaseFrame(range, count, f) \in 0 .. count - 1
<1> DEFINE out == IF range.out > -1 THEN Smaller(range.out, count - 1)
                                    ELSE count - 1
           in == Clamp(range.in, 0, out)
<1>1. out \in 0 .. count - 1
  BY DEF Smaller
<1>2. in \in 0 .. out
  <2>1. range.in \in Int
    OBVIOUS
  <2> HIDE DEF out
  <2> QED
    BY <1>1, <2>1 DEF Clamp, Larger, Smaller
<1>3. f % (out - in + 1) \in 0 .. out - in
  <2>1. out - in + 1 \in Nat \ {0}
    BY <1>1, <1>2
  <2> HIDE DEF out, in
  <2>2. f % (out - in + 1) \in 0 .. (out - in + 1) - 1
    BY <2>1, Modulo
  <2> QED
    BY <2>2, <1>1, <1>2
<1>4. CASE range.looping
  <2>1. PhaseFrame(range, count, f) = in + (f % (out - in + 1))
    BY <1>4 DEF PhaseFrame
  <2> HIDE DEF out, in
  <2>2. PICK r \in 0 .. out - in : r = f % (out - in + 1)
    BY <1>3
  <2> QED
    BY <2>1, <2>2, <1>1, <1>2
<1>5. CASE ~range.looping
  <2>1. PhaseFrame(range, count, f) = Smaller(in + f, out)
    BY <1>5 DEF PhaseFrame
  <2> HIDE DEF out, in
  <2> QED
    BY <2>1, <1>1, <1>2 DEF Smaller
<1> QED
  BY <1>4, <1>5

(* The device clamps the frame it is asked for into the range it reads.    *)
LEMMA ShownType ==
  ASSUME NEW d, NEW x \in Int, device[d] \in DeviceState, device[d].count > 0
  PROVE /\ First(d) \in 0 .. device[d].count - 1
        /\ Last(d) \in First(d) .. device[d].count - 1
        /\ Clamp(x, First(d), Last(d)) \in Nat
<1>1. device[d].range.in \in Int /\ device[d].range.out \in Int
        /\ device[d].count \in Nat
  BY DEF DeviceState
<1>2. First(d) \in 0 .. device[d].count - 1
  BY <1>1 DEF First, Clamp, Larger, Smaller
<1>3. Last(d) \in First(d) .. device[d].count - 1
  <2>1. First(d) \in Int /\ device[d].count - 1 \in Int
          /\ First(d) <= device[d].count - 1
    BY <1>1, <1>2
  <2> QED
    BY <1>1, <2>1 DEF Last, Clamp, Larger, Smaller
<1>4. Clamp(x, First(d), Last(d)) \in First(d) .. Last(d)
  BY <1>1, <1>2, <1>3 DEF Clamp, Larger, Smaller
<1> QED
  BY <1>1, <1>2, <1>3, <1>4

(* The length in force is never empty, and neither is the loop region.     *)
LEMMA LoopRegion ==
  ASSUME TypeOK
  PROVE /\ \A n \in Nat : ResolveLength(n) \in Nat \ {0}
        /\ LoopIn \in Nat
        /\ LoopOut \in Nat
        /\ LoopIn <= LoopOut
        /\ Snapped \in LoopIn .. LoopOut
<1>1. playback.start \in Nat /\ playback.end \in Int
        /\ playback.current \in Nat /\ playback.length \in Int
        /\ cached.total \in Nat
  BY DEF TypeOK, Playback
<1>2. \A n \in Nat : ResolveLength(n) \in Nat \ {0}
  BY <1>1 DEF ResolveLength, Larger
<1>3. LastFrame \in Nat
  BY <1>1, <1>2 DEF LastFrame, Larger
<1>4. LoopIn \in 0 .. LastFrame
  BY <1>1, <1>3 DEF LoopIn, Clamp, Larger, Smaller
<1>5. LoopOut \in LoopIn .. LastFrame
  BY <1>1, <1>3, <1>4 DEF LoopOut, Clamp, Larger, Smaller
<1>6. Snapped \in LoopIn .. LoopOut
  BY <1>1, <1>3, <1>4, <1>5 DEF Snapped
<1> QED
  BY <1>2, <1>3, <1>4, <1>5, <1>6

(* Wrapping into a loop region stays in it.                                *)
LEMMA WrapStays ==
  ASSUME NEW target \in Int, NEW in \in Int, NEW out \in Int, in <= out
  PROVE Wrapped(target, in, out) \in in .. out
<1>1. out - in + 1 \in Nat \ {0} /\ target - in \in Int
  OBVIOUS
<1>2. PICK r \in 0 .. (out - in + 1) - 1 : r = (target - in) % (out - in + 1)
  BY <1>1, Modulo
<1>3. Wrapped(target, in, out) = in + r
  BY <1>2 DEF Wrapped
<1> QED
  BY <1>2, <1>3

(* Wherever the advance ends, it ends in the loop region.                  *)
LEMMA LandingInLoop ==
  ASSUME TypeOK, NEW advance \in Nat
  PROVE Landing(advance) \in LoopIn .. LoopOut
<1>1. /\ LoopIn \in Nat /\ LoopOut \in Nat /\ LoopIn <= LoopOut
      /\ Snapped \in LoopIn .. LoopOut
  BY LoopRegion
<1>2. Wrapped(Snapped + advance, LoopIn, LoopOut) \in LoopIn .. LoopOut
  <2>1. /\ Snapped + advance \in Int /\ LoopIn \in Int /\ LoopOut \in Int
        /\ LoopIn <= LoopOut
    BY <1>1
  <2> QED
    BY <2>1, WrapStays
<1> QED
  BY <1>1, <1>2 DEF Landing

(***************************************************************************)
(* Types.  A tick runs only in a device that has a sequence, because the   *)
(* load that would take the sequence away waits for the device's mutex:    *)
(* without this the tick could end on a frame that does not exist.         *)
(***************************************************************************)
PlaybackIInv == TypeOK /\ \A d \in ticking : device[d].count > 0

(* The initial states satisfy the invariant.                               *)
LEMMA PlaybackInit == Init => PlaybackIInv
<1> SUFFICES ASSUME Init PROVE PlaybackIInv
  OBVIOUS
<1>1. PICK tl \in Timelines :
        /\ playback = [playing |-> FALSE, looping |-> tl.looping,
                       start |-> tl.start, end |-> tl.end,
                       length |-> tl.length,
                       current |-> Larger(tl.start, tl.current)]
        /\ configFrame = tl.current
  BY DEF Init
<1>2. tl \in Timeline
  BY PlaybackAssumption
<1>3. playback \in Playback /\ configFrame \in Nat
  BY <1>1, <1>2 DEF Timeline, Playback, Larger
<1>4. device \in [Devices -> DeviceState]
  <2>1. PICK count \in [Devices -> Counts], range \in [Devices -> Ranges] :
          device = [d \in Devices |->
                     [member |-> TRUE, count |-> count[d], range |-> range[d],
                      playing |-> FALSE, asked |-> 0, shown |-> 0]]
    BY DEF Init
  <2>2. ASSUME NEW d \in Devices
        PROVE count[d] \in Nat /\ range[d] \in [in : Int, out : Int, looping : BOOLEAN]
    BY PlaybackAssumption
  <2> QED
    BY <2>1, <2>2 DEF DeviceState
<1>5. cached \in [total : Nat \ {0}, length : Nat \ {0}, has : BOOLEAN]
  BY DEF Init
<1>6. loop \in [at : {"collect", "publish", "clock", "scrub"},
                total : Nat \ {0}, has : BOOLEAN, lastLength : Int,
                lastHas : BOOLEAN]
  BY DEF Init
<1>7. scrub \in [{"ui", "clock"} -> [at : {"idle", "gather", "write", "apply"},
                                     frame : Nat, todo : SUBSET Devices]]
  BY DEF Init, Idle
<1>8. ticking = {} /\ calls \in 0 .. MaxCalls /\ edits \in 0 .. MaxEdits
  BY PlaybackAssumption DEF Init
<1> QED
  BY <1>3, <1>4, <1>5, <1>6, <1>7, <1>8 DEF PlaybackIInv, TypeOK

ScrubState == [at : {"idle", "gather", "write", "apply"}, frame : Nat,
               todo : SUBSET Devices]

(* A call of the UI keeps the types: whatever frame it is given, the       *)
(* session ends on one that is not negative.                               *)
LEMMA PlaybackUiStep == PlaybackIInv /\ UiNext => PlaybackIInv'
<1> SUFFICES ASSUME PlaybackIInv, UiNext PROVE PlaybackIInv'
  OBVIOUS
<1>1. /\ playback \in Playback /\ configFrame \in Nat /\ calls \in 0 .. MaxCalls
      /\ scrub \in [{"ui", "clock"} -> ScrubState]
  BY DEF PlaybackIInv, TypeOK, ScrubState
<1>2. UiCall
  BY DEF UiNext, Play, Pause, Stop, Scrub, SetLoop, SetLooping, UpdateConfig
<1>3. calls' \in 0 .. MaxCalls
  BY <1>1, <1>2, PlaybackAssumption DEF UiCall
<1>4. ASSUME NEW f \in Nat PROVE ScrubTo(f) \in ScrubState
  BY DEF ScrubTo, ScrubState
<1>5. ASSUME NEW f \in Nat, UiScrubs(f)
      PROVE scrub' \in [{"ui", "clock"} -> ScrubState]
  BY <1>1, <1>4, <1>5 DEF UiScrubs
<1>6. /\ playback' \in Playback /\ configFrame' \in Nat
      /\ scrub' \in [{"ui", "clock"} -> ScrubState]
  <2>1. CASE Play
    <3>1. playback.current \in Nat
      BY <1>1 DEF Playback
    <3> QED
      BY <2>1, <3>1, <1>1, <1>5 DEF Play, Playback
  <2>2. CASE Pause
    BY <2>2, <1>1 DEF Pause, Playback
  <2>3. CASE Stop
    <3>1. Larger(0, playback.start) \in Nat
      BY <1>1 DEF Playback, Larger
    <3> QED
      BY <2>3, <3>1, <1>1, <1>5 DEF Stop, Playback
  <2>4. ASSUME NEW f \in Positions, Scrub(f) PROVE <1>6!:
    <3>1. Larger(playback.start, f) \in Nat
      BY <1>1, PlaybackAssumption DEF Playback, Larger
    <3> QED
      BY <2>4, <3>1, <1>1, <1>5 DEF Scrub, Playback
  <2>5. ASSUME NEW region \in LoopRegions, SetLoop(region) PROVE <1>6!:
    <3>1. region \in [in : Int, out : Int]
      BY PlaybackAssumption
    <3>2. Larger(0, region.in) \in Nat /\ region.out \in Int
      BY <3>1 DEF Larger
    <3> QED
      BY <2>5, <3>2, <1>1 DEF SetLoop, Playback
  <2>6. ASSUME NEW on \in BOOLEAN, SetLooping(on) PROVE <1>6!:
    BY <2>6, <1>1 DEF SetLooping, Playback
  <2>7. ASSUME NEW tl \in Timelines, UpdateConfig(tl) PROVE <1>6!:
    <3>1. tl \in Timeline
      BY PlaybackAssumption
    <3> DEFINE target == IF tl.current # configFrame THEN tl.current
                                                    ELSE playback.current
    <3>2. Larger(0, tl.start) \in Nat
      BY <3>1 DEF Timeline, Larger
    <3>3. Larger(Larger(0, tl.start), target) \in Nat
      BY <3>1, <3>2, <1>1 DEF Timeline, Playback, Larger
    <3>4. playback' = [playing |-> playback.playing, looping |-> tl.looping,
                       start |-> Larger(0, tl.start), end |-> tl.end,
                       length |-> tl.length,
                       current |-> Larger(Larger(0, tl.start), target)]
      BY <2>7 DEF UpdateConfig
    <3>5. playback' \in Playback
      <4> HIDE DEF target
      <4> QED
        BY <3>1, <3>2, <3>3, <3>4, <1>1 DEF Timeline, Playback
    <3> QED
      BY <2>7, <3>1, <3>5, <1>1 DEF UpdateConfig, Timeline
  <2> QED
    BY <2>1, <2>2, <2>3, <2>4, <2>5, <2>6, <2>7 DEF UiNext
<1> QED
  BY <1>2, <1>3, <1>6 DEF PlaybackIInv, TypeOK, UiCall, ScrubState

(* Scrubbing keeps the types: every frame written into a device's          *)
(* configuration, and every frame it then shows, exists.                   *)
LEMMA PlaybackScrubStep ==
  ASSUME PlaybackIInv, NEW t \in {"ui", "clock"}, ScrubNext(t)
  PROVE PlaybackIInv'
<1>1. /\ scrub \in [{"ui", "clock"} -> ScrubState]
      /\ device \in [Devices -> DeviceState]
      /\ scrub[t] \in ScrubState
  BY DEF PlaybackIInv, TypeOK, ScrubState
<1>2. CASE Gather(t)
  <2>1. Included(device) \in SUBSET Devices
    BY <1>1 DEF Included
  <2>2. scrub' \in [{"ui", "clock"} -> ScrubState]
    BY <1>1, <1>2, <2>1 DEF Gather, ScrubState
  <2> QED
    BY <1>2, <2>2 DEF Gather, PlaybackIInv, TypeOK, ScrubState
<1>3. ASSUME NEW d \in Devices, WriteDevice(t, d) PROVE PlaybackIInv'
  <2>1. device[d] \in DeviceState /\ device[d].count \in Nat \ {0}
    BY <1>1, <1>3 DEF WriteDevice, DeviceState
  <2>2. Larger(0, scrub[t].frame) \in Nat
    BY <1>1 DEF ScrubState, Larger
  <2>3. PICK target : target = PhaseFrame(device[d].range, device[d].count,
                                        Larger(0, scrub[t].frame))
    OBVIOUS
  <2>4. target \in Nat
    <3>1. device[d].range \in [in : Int, out : Int, looping : BOOLEAN]
      BY <2>1 DEF DeviceState
    <3>2. PhaseFrame(device[d].range, device[d].count,
                     Larger(0, scrub[t].frame)) \in 0 .. device[d].count - 1
      BY <2>1, <2>2, <3>1, PhaseFrameType
    <3> QED
      BY <2>1, <2>3, <3>2
  <2>5. device' = [device EXCEPT ![d].playing = FALSE, ![d].asked = target]
    BY <1>3, <2>3 DEF WriteDevice
  <2>6. device' \in [Devices -> DeviceState]
    BY <1>1, <2>4, <2>5, ZenonT(30) DEF DeviceState
  <2>7. \A e \in Devices : device'[e].count = device[e].count
    BY <1>1, <2>5 DEF DeviceState
  <2>8. scrub' \in [{"ui", "clock"} -> ScrubState]
    BY <1>1, <1>3 DEF WriteDevice, ScrubState
  <2> QED
    BY <1>3, <2>6, <2>7, <2>8 DEF WriteDevice, PlaybackIInv, TypeOK, ScrubState
<1>4. ASSUME NEW d \in Devices, SkipDevice(t, d) PROVE PlaybackIInv'
  <2>1. scrub' \in [{"ui", "clock"} -> ScrubState]
    BY <1>1, <1>4 DEF SkipDevice, ScrubState
  <2> QED
    BY <1>4, <2>1 DEF SkipDevice, PlaybackIInv, TypeOK, ScrubState
<1>5. ASSUME NEW d \in Devices, ApplyDevice(t, d) PROVE PlaybackIInv'
  <2>1. scrub' \in [{"ui", "clock"} -> ScrubState]
    BY <1>1, <1>5 DEF ApplyDevice, ScrubState
  <2>2. /\ device' \in [Devices -> DeviceState]
        /\ \A e \in Devices : device'[e].count = device[e].count
    <3>1. CASE device[d].count > 0
      <4>1. PICK target : target = Clamp(device[d].asked, First(d), Last(d))
        OBVIOUS
      <4>2. device[d].asked \in Int /\ device[d] \in DeviceState
        BY <1>1 DEF DeviceState
      <4>3. target \in Nat
        BY <3>1, <4>1, <4>2, ShownType
      <4>4. device' = [device EXCEPT ![d].asked = target, ![d].shown = target]
        BY <1>5, <3>1, <4>1 DEF ApplyDevice
      <4> QED
        BY <1>1, <4>3, <4>4, ZenonT(30) DEF DeviceState
    <3>2. CASE ~(device[d].count > 0)
      BY <1>1, <1>5, <3>2 DEF ApplyDevice
    <3> QED
      BY <3>1, <3>2
  <2> QED
    BY <1>5, <2>1, <2>2 DEF ApplyDevice, PlaybackIInv, TypeOK, ScrubState
<1>6. CASE EndScrub(t)
  <2>1. scrub' \in [{"ui", "clock"} -> ScrubState]
    BY <1>1, <1>6 DEF EndScrub, Idle, ScrubState
  <2> QED
    BY <1>6, <2>1 DEF EndScrub, PlaybackIInv, TypeOK, ScrubState
<1> QED
  BY <1>2, <1>3, <1>4, <1>5, <1>6 DEF ScrubNext

(* An iteration of the clock keeps the types.                              *)
LEMMA PlaybackClockStep == PlaybackIInv /\ ClockNext => PlaybackIInv'
<1> SUFFICES ASSUME PlaybackIInv, ClockNext PROVE PlaybackIInv'
  OBVIOUS
<1>1. TypeOK
  BY DEF PlaybackIInv
<1>2. CASE Collect
  <2>1. PICK total \in DeviceTotals :
          /\ IsDeviceTotal(total)
          /\ loop' = [loop EXCEPT !.at = "publish", !.total = total,
                                  !.has = Sequences # {}]
    BY <1>2 DEF Collect
  <2>2. total \in Nat \ {0}
    BY <2>1, <1>1 DEF DeviceTotals, IsDeviceTotal, Sequences, Included, TypeOK,
                      DeviceState
  <2>3. (Sequences # {}) \in BOOLEAN
    OBVIOUS
  <2> QED
    BY <1>2, <2>1, <2>2, <2>3 DEF Collect, PlaybackIInv, TypeOK
<1>3. CASE PublishLength
  <2>1. loop.total \in Nat \ {0}
    BY <1>1 DEF TypeOK
  <2>2. ResolveLength(loop.total) \in Nat \ {0}
    BY <1>1, <2>1, LoopRegion
  <2>3. cached' \in [total : Nat \ {0}, length : Nat \ {0}, has : BOOLEAN]
    BY <1>1, <1>3, <2>1, <2>2 DEF PublishLength, TypeOK
  <2>4. loop' \in [at : {"collect", "publish", "clock", "scrub"},
                   total : Nat \ {0}, has : BOOLEAN, lastLength : Int,
                   lastHas : BOOLEAN]
    <3>1. PICK length : length = ResolveLength(loop.total)
      OBVIOUS
    <3>2. loop' = [loop EXCEPT !.at = "clock", !.lastLength = length,
                               !.lastHas = loop.has]
      BY <1>3, <3>1 DEF PublishLength
    <3>3. length \in Int /\ loop.has \in BOOLEAN
      BY <1>1, <2>2, <3>1 DEF TypeOK
    <3> QED
      BY <1>1, <3>2, <3>3 DEF TypeOK
  <2> QED
    BY <1>3, <2>3, <2>4 DEF PublishLength, PlaybackIInv, TypeOK
<1>4. CASE PublishNothing
  BY <1>4 DEF PublishNothing, PlaybackIInv, TypeOK
<1>5. CASE HoldFrame
  <2>1. Snapped \in Nat
    BY <1>1, LoopRegion
  <2>2. playback' \in Playback
    BY <1>1, <1>5, <2>1 DEF HoldFrame, TypeOK, Playback
  <2> QED
    BY <1>5, <2>2 DEF HoldFrame, PlaybackIInv, TypeOK
<1>6. CASE NotPlaying
  BY <1>6 DEF NotPlaying, PlaybackIInv, TypeOK
<1>7. ASSUME NEW n \in 1 .. MaxAdvance, Advance(n) PROVE PlaybackIInv'
  <2>1. n \in Nat
    BY PlaybackAssumption
  <2>2. Landing(n) \in Nat
    BY <1>1, <2>1, LoopRegion, LandingInLoop
  <2>3. PlaysOn(n) \in BOOLEAN
    BY <1>1 DEF PlaysOn, TypeOK, Playback
  <2>4. playback' \in Playback
    BY <1>1, <1>7, <2>2, <2>3 DEF Advance, TypeOK, Playback
  <2>5. ScrubTo(Landing(n)) \in ScrubState
    BY <2>2 DEF ScrubTo, ScrubState
  <2>6. scrub' \in [{"ui", "clock"} -> ScrubState]
    BY <1>1, <1>7, <2>5 DEF Advance, TypeOK, ScrubState
  <2> QED
    BY <1>7, <2>4, <2>6 DEF Advance, PlaybackIInv, TypeOK, ScrubState
<1> QED
  BY <1>2, <1>3, <1>4, <1>5, <1>6, <1>7 DEF ClockNext

(* The devices and their editors keep the types: a tick ends on a frame of *)
(* the sequence it began with.                                             *)
LEMMA PlaybackDeviceStep ==
  ASSUME PlaybackIInv, NEW d \in Devices, DeviceNext(d)
  PROVE PlaybackIInv'
<1>1. /\ device \in [Devices -> DeviceState]
      /\ device[d] \in DeviceState
      /\ edits \in 0 .. MaxEdits
  BY DEF PlaybackIInv, TypeOK
<1>2. CASE TickBegins(d)
  BY <1>2 DEF TickBegins, PlaybackIInv, TypeOK
<1>3. CASE TickAtEnd(d)
  <2>1. /\ device' \in [Devices -> DeviceState]
        /\ \A e \in Devices : device'[e].count = device[e].count
    BY <1>1, <1>3 DEF TickAtEnd, DeviceState
  <2> QED
    BY <1>3, <2>1 DEF TickAtEnd, PlaybackIInv, TypeOK
<1>4. CASE TickEnds(d)
  <2> DEFINE from == IF device[d].shown < First(d) \/ device[d].shown > Last(d)
                     THEN First(d) ELSE device[d].shown
             ends == from + 1 > Last(d)
             target == IF ~ends THEN from + 1
                      ELSE IF device[d].range.looping THEN First(d) ELSE Last(d)
             asked == IF target = from THEN device[d].asked ELSE target
             playing == device[d].playing /\ (~ends \/ device[d].range.looping)
  <2>1. device[d].count > 0
    BY <1>4 DEF TickEnds, PlaybackIInv
  <2>2. First(d) \in Nat /\ Last(d) \in Nat
    BY <1>1, <2>1, ShownType DEF DeviceState
  <2>3. target \in Nat
    BY <1>1, <2>2 DEF DeviceState
  <2>4. asked \in Nat /\ playing \in BOOLEAN
    <3> HIDE DEF target, from, ends
    <3> QED
      BY <1>1, <2>3 DEF DeviceState
  <2>5. device' = [device EXCEPT ![d].shown = target, ![d].asked = asked,
                                 ![d].playing = playing]
    BY <1>4 DEF TickEnds
  <2>6. /\ device' \in [Devices -> DeviceState]
        /\ \A e \in Devices : device'[e].count = device[e].count
    <3> HIDE DEF target, asked, playing
    <3> QED
      BY <1>1, <2>3, <2>4, <2>5 DEF DeviceState
  <2> QED
    BY <1>4, <2>6 DEF TickEnds, PlaybackIInv, TypeOK
<1>5. ASSUME Edit PROVE edits' \in 0 .. MaxEdits
  BY <1>1, <1>5, PlaybackAssumption DEF Edit
<1>6. ASSUME NEW count \in Counts, Load(d, count) PROVE PlaybackIInv'
  <2>1. count \in Nat
    BY PlaybackAssumption
  <2>2. /\ device' \in [Devices -> DeviceState]
        /\ \A e \in Devices \ {d} : device'[e].count = device[e].count
    BY <1>1, <1>6, <2>1 DEF Load, DeviceState
  <2> QED
    BY <1>5, <1>6, <2>2 DEF Load, Edit, PlaybackIInv, TypeOK
<1>7. CASE ChangeMembership(d)
  <2>1. /\ device' \in [Devices -> DeviceState]
        /\ \A e \in Devices : device'[e].count = device[e].count
    BY <1>1, <1>7 DEF ChangeMembership, DeviceState
  <2> QED
    BY <1>5, <1>7, <2>1 DEF ChangeMembership, Edit, PlaybackIInv, TypeOK
<1>8. CASE SetDevicePlaying(d)
  <2>1. /\ device' \in [Devices -> DeviceState]
        /\ \A e \in Devices : device'[e].count = device[e].count
    BY <1>1, <1>8 DEF SetDevicePlaying, DeviceState
  <2> QED
    BY <1>5, <1>8, <2>1 DEF SetDevicePlaying, Edit, PlaybackIInv, TypeOK
<1> QED
  BY <1>2, <1>3, <1>4, <1>6, <1>7, <1>8 DEF DeviceNext

(* Every step, and every stutter, preserves the invariant.                 *)
LEMMA PlaybackInductive == PlaybackIInv /\ [Next]_vars => PlaybackIInv'
<1> SUFFICES ASSUME PlaybackIInv, [Next]_vars PROVE PlaybackIInv'
  OBVIOUS
<1>1. CASE UNCHANGED vars
  BY <1>1 DEF vars, PlaybackIInv, TypeOK
<1>2. CASE Next
  BY <1>2, PlaybackUiStep, PlaybackScrubStep, PlaybackClockStep, PlaybackDeviceStep DEF Next
<1> QED
  BY <1>1, <1>2

(* The invariant holds of every reachable state.                           *)
LEMMA PlaybackInvariance == Spec => []PlaybackIInv
  BY PlaybackInit, PlaybackInductive, PTL DEF Spec

(* Every variable keeps its type, for any devices, ranges, timelines and   *)
(* bounds: neither the session nor a device ever stands on a frame below   *)
(* its first.                                                              *)
THEOREM PlaybackTypes == Spec => []TypeOK
<1>1. PlaybackIInv => TypeOK
  BY DEF PlaybackIInv
<1> QED
  BY <1>1, PlaybackInvariance, PTL

(* A step that takes the clock from its decision to the scrub is an        *)
(* advance.                                                                *)
LEMMA OnlyAdvanceScrubs ==
  ASSUME TypeOK, [Next]_vars, loop.at = "clock", loop'.at = "scrub"
  PROVE \E n \in 1 .. MaxAdvance : Advance(n)
<1> USE DEF TypeOK
<1>1. loop' # loop
  OBVIOUS
<1>2. Next
  BY <1>1 DEF vars
<1>3. ~UiNext
  BY <1>1 DEF UiNext, Play, Pause, Stop, Scrub, SetLoop, SetLooping,
              UpdateConfig, UiCall
<1>4. ASSUME NEW t \in {"ui", "clock"} PROVE ~ScrubNext(t)
  <2>1. ~EndScrub(t)
    BY <1>1 DEF EndScrub
  <2> QED
    BY <2>1, <1>1 DEF ScrubNext, Gather, WriteDevice, SkipDevice, ApplyDevice
<1>5. ASSUME NEW d \in Devices PROVE ~DeviceNext(d)
  BY <1>1 DEF DeviceNext, TickBegins, TickAtEnd, TickEnds, Load,
              ChangeMembership, SetDevicePlaying, Edit
<1>6. ClockNext
  BY <1>2, <1>3, <1>4, <1>5 DEF Next
<1> QED
  <2>1. ~Collect /\ ~PublishLength /\ ~PublishNothing
    BY DEF Collect, PublishLength, PublishNothing
  <2>2. ~HoldFrame /\ ~NotPlaying
    BY DEF HoldFrame, NotPlaying
  <2> QED
    BY <1>6, <2>1, <2>2 DEF ClockNext

(* Whatever the UI and the configurations have set, an advance of the      *)
(* clock lands in the loop region in force.                                *)
THEOREM ClockStaysInLoop == Spec => AdvanceStaysInLoop
<1>1. PlaybackIInv /\ [Next]_vars =>
        (loop.at = "clock" /\ loop'.at = "scrub" =>
           playback'.current \in LoopIn .. LoopOut)
  <2> SUFFICES ASSUME PlaybackIInv, [Next]_vars, loop.at = "clock", loop'.at = "scrub"
               PROVE playback'.current \in LoopIn .. LoopOut
    OBVIOUS
  <2>1. TypeOK
    BY DEF PlaybackIInv
  <2>2. PICK n \in 1 .. MaxAdvance : Advance(n)
    BY <2>1, OnlyAdvanceScrubs
  <2>3. Landing(n) \in LoopIn .. LoopOut
    <3>1. n \in Nat
      BY PlaybackAssumption
    <3> QED
      BY <2>1, <3>1, LandingInLoop
  <2>4. playback'.current = Landing(n)
    BY <2>1, <2>2 DEF Advance, TypeOK, Playback
  <2> QED
    BY <2>3, <2>4
<1> QED
  BY <1>1, PlaybackInvariance, PTL DEF Spec, AdvanceStaysInLoop

(* A session that is played once and that the clock stops stands at the    *)
(* out point of its loop region.                                           *)
THEOREM OneShotReachesOut == Spec => OneShotStopsAtOut
<1>1. PlaybackIInv /\ [Next]_vars =>
        (loop'.at = "scrub" /\ loop.at = "clock" /\ ~playback'.playing =>
           playback'.current = LoopOut)
  <2> SUFFICES ASSUME PlaybackIInv, [Next]_vars, loop.at = "clock", loop'.at = "scrub",
                      ~playback'.playing
               PROVE playback'.current = LoopOut
    OBVIOUS
  <2>1. TypeOK
    BY DEF PlaybackIInv
  <2>2. PICK n \in 1 .. MaxAdvance : Advance(n)
    BY <2>1, OnlyAdvanceScrubs
  <2>3. /\ playback'.current = Landing(n)
        /\ playback'.playing = PlaysOn(n)
    BY <2>1, <2>2 DEF Advance, TypeOK, Playback
  <2>4. ~playback.looping /\ ~(Snapped + n <= LoopOut)
    BY <2>3 DEF PlaysOn
  <2> QED
    BY <2>3, <2>4 DEF Landing
<1> QED
  BY <1>1, PlaybackInvariance, PTL DEF Spec, OneShotStopsAtOut

-----------------------------------------------------------------------------
(* SessionRecorder: a stop loses nothing of a recording that ran alone, for*)
(* every length of the queue, modulus of the depth counter, number of frames*)
(* and of recordings.                                                      *)

Clip == [take : Nat, index : 0 .. MaxFrames]

RecorderTypeOK ==
  /\ recording \in BOOLEAN /\ writing \in BOOLEAN /\ overlapped \in BOOLEAN
  /\ frame \in Nat /\ depth \in Nat /\ dropped \in Nat /\ take \in Nat
  /\ clips \in Seq(Clip) /\ inFlight \subseteq Clip
  /\ recorder \in [Pairs -> {"gone", "loop", "count", "join"}]
  /\ writer \in [Pairs -> {"gone", "new", "run", "drain", "wait"}]
  /\ hand \in [Pairs -> {<<>>} \cup {<<c>> : c \in Clip}]
  /\ replaced \subseteq Pairs
  /\ disk \in [0 .. MaxFrames -> Nat] /\ unopened \in [0 .. MaxFrames -> Nat]

(* A writer ends before its recorder, drains only behind it, and leaves     *)
(* nothing that it has taken; while there is work somebody is there for it. *)
ThreadInv ==
  /\ \A p \in Pairs :
       /\ recorder[p] = "gone" => writer[p] = "gone"
       /\ recorder[p] \in {"loop", "count"} => writer[p] \in {"new", "run"}
       /\ hand[p] # <<>> => writer[p] \in {"run", "drain"}
  /\ clips # <<>> => \E p \in Pairs : writer[p] \in {"new", "run", "drain"}
  /\ inFlight # {} \/ writing => \E p \in Pairs : writer[p] # "gone"

(* Where a frame may be whose file has not been tried yet.                  *)
Queued == {clips[k] : k \in DOMAIN clips}
Handed == {c \in Clip : \E p \in Pairs : hand[p] = <<c>>}
Held == Queued \cup Handed \cup inFlight

Counting == \E p \in Pairs : recorder[p] = "count"
OfTake(i) == [take |-> take, index |-> i]
Safe(i) == Settled(i) \/ OfTake(i) \in Held
SafeFrames == {i \in 0 .. MaxFrames : i < frame /\ Safe(i)}

(* A recording that runs alone: what is held is of it, nothing is ahead of  *)
(* the recorder, and each frame so far is safe or was counted as dropped.   *)
AloneInv ==
  take > 0 /\ ~overlapped =>
    /\ \A p, q \in Pairs : p # q => Gone(p) \/ Gone(q)
    /\ frame <= MaxFrames /\ (Counting => frame < MaxFrames /\ Safe(frame))
    /\ \A c \in Held : c.take = take
    /\ \A i \in 0 .. MaxFrames : Safe(i) => i < frame \/ (Counting /\ i = frame)
    /\ Cardinality(SafeFrames) + dropped = frame

(* No file is of a recording that is still to come, and before the first     *)
(* nothing has happened.                                                    *)
PastInv ==
  /\ take = 0 => frame = 0 /\ dropped = 0 /\ \A p \in Pairs : Gone(p)
  /\ \A i \in 0 .. MaxFrames : disk[i] <= take /\ unopened[i] <= take
  /\ \A c \in Held : c.take <= take

RecorderInv == RecorderTypeOK /\ ThreadInv /\ AloneInv /\ PastInv

-----------------------------------------------------------------------------
(* The first element of a queue and the others are what it holds.           *)
LEMMA HeadTail ==
  ASSUME NEW S, NEW s \in Seq(S), s # <<>>
  PROVE  /\ Head(s) \in S /\ Tail(s) \in Seq(S)
         /\ {s[k] : k \in DOMAIN s} = {Head(s)} \cup {Tail(s)[k] : k \in DOMAIN Tail(s)}
<1>1. /\ Len(s) \in Nat /\ Len(s) > 0 /\ DOMAIN s = 1 .. Len(s)
      /\ Head(s) = s[1] /\ s[1] \in S
      /\ Tail(s) \in Seq(S) /\ DOMAIN Tail(s) = 1 .. Len(s) - 1
      /\ \A k \in 1 .. Len(s) - 1 : Tail(s)[k] = s[k + 1]
  OBVIOUS
<1>2. ASSUME NEW k \in DOMAIN s
      PROVE  s[k] = Head(s) \/ \E j \in DOMAIN Tail(s) : Tail(s)[j] = s[k]
  <2>1. CASE k = 1
    BY <1>1, <2>1
  <2>2. CASE k # 1
    <3>1. k - 1 \in DOMAIN Tail(s) /\ Tail(s)[k - 1] = s[k]
      BY ONLY <1>1, <1>2, <2>2
    <3>2. QED
      BY ONLY <3>1
  <2>3. QED
    BY <2>1, <2>2
<1>3. ASSUME NEW k \in DOMAIN Tail(s)
      PROVE  \E j \in DOMAIN s : s[j] = Tail(s)[k]
  <2>1. k + 1 \in DOMAIN s /\ s[k + 1] = Tail(s)[k]
    BY ONLY <1>1, <1>3
  <2>2. QED
    BY ONLY <2>1
<1>4. Head(s) \in {s[k] : k \in DOMAIN s}
  <2>1. 1 \in DOMAIN s /\ Head(s) = s[1]
    BY ONLY <1>1
  <2>2. QED
    BY ONLY <2>1
<1>5. {s[k] : k \in DOMAIN s} \subseteq {Head(s)} \cup {Tail(s)[k] : k \in DOMAIN Tail(s)}
  BY ONLY <1>2, Zenon
<1>6. {Head(s)} \cup {Tail(s)[k] : k \in DOMAIN Tail(s)} \subseteq {s[k] : k \in DOMAIN s}
  BY ONLY <1>3, <1>4, Zenon
<1>7. Head(s) \in S /\ Tail(s) \in Seq(S)
  BY ONLY <1>1
<1>8. QED
  BY ONLY <1>5, <1>6, <1>7, Zenon

(* What a frame that is enqueued adds to what the queue holds.              *)
LEMMA Appended ==
  ASSUME NEW S, NEW s \in Seq(S), NEW e \in S
  PROVE  /\ Append(s, e) \in Seq(S) /\ Append(s, e) # <<>>
         /\ LET t == Append(s, e)
            IN {t[k] : k \in DOMAIN t} = {s[k] : k \in DOMAIN s} \cup {e}
<1> DEFINE t == Append(s, e)
<1>1. /\ Len(s) \in Nat /\ DOMAIN s = 1 .. Len(s)
      /\ t \in Seq(S) /\ DOMAIN t = 1 .. Len(s) + 1 /\ t # <<>>
      /\ \A k \in 1 .. Len(s) : t[k] = s[k]
      /\ t[Len(s) + 1] = e
  OBVIOUS
<1>2. \A k \in DOMAIN t : t[k] = e \/ \E j \in DOMAIN s : t[k] = s[j]
  BY ONLY <1>1
<1>3. \A j \in DOMAIN s : j \in DOMAIN t /\ t[j] = s[j]
  BY ONLY <1>1
<1>4. \E k \in DOMAIN t : t[k] = e
  BY ONLY <1>1
<1>5. {t[k] : k \in DOMAIN t} = {s[k] : k \in DOMAIN s} \cup {e}
  <2>1. {t[k] : k \in DOMAIN t} \subseteq {s[k] : k \in DOMAIN s} \cup {e}
    BY ONLY <1>2, Zenon
  <2>2. {s[k] : k \in DOMAIN s} \cup {e} \subseteq {t[k] : k \in DOMAIN t}
    BY ONLY <1>3, <1>4, Zenon
  <2>3. QED
    BY ONLY <2>1, <2>2, Zenon
<1>6. QED
  BY ONLY <1>1, <1>5

(* What is held has the type of a clip.                                     *)
LEMMA HeldType == ASSUME RecorderTypeOK PROVE Held \subseteq Clip
<1>1. \A k \in DOMAIN clips : clips[k] \in Clip
  BY DEF RecorderTypeOK
<1>2. QED
  BY <1>1, Zenon DEF RecorderTypeOK, Held, Queued, Handed

(* Each step keeps the types.                                               *)
LEMMA RecorderTypeStep ==
  ASSUME RecorderTypeOK, [RecorderNext]_recorderVars
  PROVE  RecorderTypeOK'
<1>1. CASE StartRecording
  BY <1>1 DEF RecorderTypeOK, StartRecording
<1>2. CASE StopRecording
  BY <1>2 DEF RecorderTypeOK, StopRecording, counters, threads
<1>3. CASE FileWritten
  <2>1. PICK clip \in inFlight : FileWritten!(clip)
    BY <1>3 DEF FileWritten
  <2>2. clip \in Clip
    BY <2>1 DEF RecorderTypeOK
  <2>3. QED
    BY <2>1, <2>2 DEF RecorderTypeOK, Clip, counters, threads
<1>4. ASSUME NEW p \in Pairs, RecordFrame(p) PROVE RecorderTypeOK'
  <2>1. CASE depth < FrameQueueMax
    <3>1. [take |-> take, index |-> frame] \in Clip
      BY <1>4, RecorderAssumption DEF RecorderTypeOK, RecordFrame, Clip
    <3>2. clips' = Append(clips, [take |-> take, index |-> frame])
      BY <1>4, <2>1 DEF RecordFrame
    <3>3. clips' \in Seq(Clip)
      BY <3>1, <3>2, Appended DEF RecorderTypeOK
    <3>4. QED
      BY <1>4, <2>1, <3>3 DEF RecorderTypeOK, RecordFrame
  <2>2. CASE ~(depth < FrameQueueMax)
    BY <1>4, <2>2 DEF RecorderTypeOK, RecordFrame
  <2>3. QED
    BY <2>1, <2>2
<1>5. ASSUME NEW p \in Pairs, CountFrame(p) PROVE RecorderTypeOK'
  <2>1. (depth + 1) % DepthModulus \in Nat
    BY RecorderAssumption DEF RecorderTypeOK
  <2>2. QED
    BY <1>5, <2>1 DEF RecorderTypeOK, CountFrame
<1>6. ASSUME NEW p \in Pairs, EndLoop(p) PROVE RecorderTypeOK'
  BY <1>6 DEF RecorderTypeOK, EndLoop, counters
<1>7. ASSUME NEW p \in Pairs, RecorderGone(p) PROVE RecorderTypeOK'
  BY <1>7 DEF RecorderTypeOK, RecorderGone, counters
<1>8. ASSUME NEW p \in Pairs, WriterBegins(p) PROVE RecorderTypeOK'
  BY <1>8 DEF RecorderTypeOK, WriterBegins, counters
<1>9. ASSUME NEW p \in Pairs, TakeFrame(p) PROVE RecorderTypeOK'
  <2>1. Head(clips) \in Clip /\ Tail(clips) \in Seq(Clip)
    BY <1>9, HeadTail DEF RecorderTypeOK, TakeFrame
  <2>2. QED
    BY <1>9, <2>1 DEF RecorderTypeOK, TakeFrame, counters
<1>10. ASSUME NEW p \in Pairs, WriteFrame(p) PROVE RecorderTypeOK'
  <2>1. PICK c \in Clip : hand[p] = <<c>>
    BY <1>10, Zenon DEF RecorderTypeOK, WriteFrame
  <2>2. hand[p][1] \in Clip
    BY <2>1
  <2>3. (depth + DepthModulus - 1) % DepthModulus \in Nat
    BY RecorderAssumption DEF RecorderTypeOK
  <2>4. QED
    BY <1>10, <2>2, <2>3 DEF RecorderTypeOK, WriteFrame
<1>11. ASSUME NEW p \in Pairs, StartDrain(p) \/ Drained(p) PROVE RecorderTypeOK'
  BY <1>11 DEF RecorderTypeOK, StartDrain, Drained, counters
<1>12. ASSUME NEW p \in Pairs, WriterGone(p) PROVE RecorderTypeOK'
  BY <1>12 DEF RecorderTypeOK, WriterGone, counters
<1>13. CASE UNCHANGED recorderVars
  BY <1>13 DEF RecorderTypeOK, recorderVars, counters, threads
<1>14. QED
  BY <1>1, <1>2, <1>3, <1>4, <1>5, <1>6, <1>7, <1>8, <1>9, <1>10, <1>11, <1>12, <1>13
     DEF RecorderNext, ThreadSteps

(* Each step keeps the threads in order.                                    *)
LEMMA ThreadStep ==
  ASSUME RecorderTypeOK, ThreadInv, [RecorderNext]_recorderVars
  PROVE  ThreadInv'
<1>1. CASE StartRecording
  <2>1. PICK p \in Pairs :
          /\ recorder' = [recorder EXCEPT ![p] = "loop"]
          /\ writer' = [writer EXCEPT ![p] = "new"]
    BY <1>1 DEF StartRecording
  <2>2. QED
    BY <1>1, <2>1 DEF StartRecording, ThreadInv, RecorderTypeOK, Gone
<1>2. CASE StopRecording
  BY <1>2 DEF ThreadInv, StopRecording, counters, threads
<1>3. CASE FileWritten
  <2>1. inFlight # {}
    BY <1>3 DEF FileWritten
  <2>2. QED
    BY <1>3, <2>1 DEF FileWritten, ThreadInv, counters, threads
<1>4. ASSUME NEW p \in Pairs, RecordFrame(p) PROVE ThreadInv'
  BY <1>4 DEF RecordFrame, ThreadInv, RecorderTypeOK
<1>5. ASSUME NEW p \in Pairs, CountFrame(p) PROVE ThreadInv'
  BY <1>5 DEF CountFrame, ThreadInv, RecorderTypeOK
<1>6. ASSUME NEW p \in Pairs, EndLoop(p) PROVE ThreadInv'
  BY <1>6 DEF EndLoop, ThreadInv, RecorderTypeOK, counters
<1>7. ASSUME NEW p \in Pairs, RecorderGone(p) PROVE ThreadInv'
  BY <1>7 DEF RecorderGone, ThreadInv, RecorderTypeOK, counters
<1>8. ASSUME NEW p \in Pairs, WriterBegins(p) PROVE ThreadInv'
  BY <1>8 DEF WriterBegins, ThreadInv, RecorderTypeOK, counters
<1>9. ASSUME NEW p \in Pairs, TakeFrame(p) PROVE ThreadInv'
  <2>1. \E q \in Pairs : writer[q] \in {"new", "run", "drain"}
    BY <1>9 DEF TakeFrame, ThreadInv
  <2>2. \A q \in Pairs : hand'[q] # <<>> => hand[q] # <<>> \/ q = p
    BY <1>9 DEF TakeFrame, RecorderTypeOK
  <2>3. QED
    BY <1>9, <2>1, <2>2 DEF TakeFrame, ThreadInv, counters
<1>10. ASSUME NEW p \in Pairs, WriteFrame(p) PROVE ThreadInv'
  <2>1. writer[p] \in {"run", "drain"}
    BY <1>10 DEF WriteFrame, ThreadInv
  <2>2. \A q \in Pairs : hand'[q] # <<>> => hand[q] # <<>>
    BY <1>10 DEF WriteFrame, RecorderTypeOK
  <2>3. QED
    BY <1>10, <2>1, <2>2 DEF WriteFrame, ThreadInv
<1>11. ASSUME NEW p \in Pairs, StartDrain(p) PROVE ThreadInv'
  BY <1>11 DEF StartDrain, ThreadInv, RecorderTypeOK, counters
<1>12. ASSUME NEW p \in Pairs, Drained(p) PROVE ThreadInv'
  BY <1>12 DEF Drained, ThreadInv, RecorderTypeOK, counters
<1>13. ASSUME NEW p \in Pairs, WriterGone(p) PROVE ThreadInv'
  BY <1>13 DEF WriterGone, ThreadInv, RecorderTypeOK, counters
<1>14. CASE UNCHANGED recorderVars
  BY <1>14 DEF ThreadInv, recorderVars, counters, threads
<1>15. QED
  BY <1>1, <1>2, <1>3, <1>4, <1>5, <1>6, <1>7, <1>8, <1>9, <1>10, <1>11, <1>12, <1>13, <1>14
     DEF RecorderNext, ThreadSteps

(* What becomes of the frames that are not yet in a file: a frame that is   *)
(* enqueued joins them, one that is written leaves them, and they only      *)
(* change hands otherwise.                                                  *)
LEMMA HeldStep ==
  ASSUME RecorderTypeOK, NEW p \in Pairs
  PROVE  /\ RecordFrame(p) /\ depth < FrameQueueMax => Held' = Held \cup {OfTake(frame)}
         /\ TakeFrame(p) => Held' = Held
         /\ WriteFrame(p) => Held' = Held
         /\ UNCHANGED <<clips, inFlight, hand>> => Held' = Held
<1>1. ASSUME RecordFrame(p), depth < FrameQueueMax PROVE Held' = Held \cup {OfTake(frame)}
  <2>1. clips' = Append(clips, OfTake(frame)) /\ UNCHANGED <<hand, inFlight>>
    BY <1>1 DEF RecordFrame, OfTake
  <2>2. OfTake(frame) \in Clip
    BY <1>1, RecorderAssumption DEF RecorderTypeOK, RecordFrame, OfTake, Clip
  <2>3. clips \in Seq(Clip)
    BY DEF RecorderTypeOK
  <2>4. Queued' = Queued \cup {OfTake(frame)}
    BY ONLY <2>1, <2>2, <2>3, Appended DEF Queued
  <2>5. Handed' = Handed
    BY <2>1 DEF Handed
  <2>6. QED
    BY <2>1, <2>4, <2>5 DEF Held
<1>2. ASSUME TakeFrame(p) PROVE Held' = Held
  <2>1. /\ clips # <<>> /\ clips' = Tail(clips) /\ hand[p] = <<>>
        /\ hand' = [hand EXCEPT ![p] = <<Head(clips)>>] /\ UNCHANGED inFlight
    BY <1>2 DEF TakeFrame
  <2>2. Head(clips) \in Clip /\ Queued = {Head(clips)} \cup Queued'
    <3>1. clips \in Seq(Clip)
      BY DEF RecorderTypeOK
    <3>2. clips # <<>> /\ clips' = Tail(clips)
      BY <2>1
    <3>3. /\ Head(clips) \in Clip
          /\ {clips[k] : k \in DOMAIN clips}
               = {Head(clips)} \cup {Tail(clips)[k] : k \in DOMAIN Tail(clips)}
      BY ONLY <3>1, <3>2, HeadTail
    <3>4. Queued' = {Tail(clips)[k] : k \in DOMAIN Tail(clips)}
      BY <3>2 DEF Queued
    <3>5. QED
      BY <3>3, <3>4 DEF Queued
  <2>3. Handed' = Handed \cup {Head(clips)}
    <3>1. \A q \in Pairs, c \in Clip :
            hand'[q] = <<c>> <=> (q = p /\ c = Head(clips)) \/ (q # p /\ hand[q] = <<c>>)
      BY <2>1 DEF RecorderTypeOK
    <3>2. \A c \in Clip : hand[p] # <<c>>
      BY <2>1
    <3>3. QED
      BY <2>2, <3>1, <3>2 DEF Handed
  <2>4. QED
    BY <2>1, <2>2, <2>3 DEF Held
<1>3. ASSUME WriteFrame(p) PROVE Held' = Held
  <2>1. PICK e \in Clip : hand[p] = <<e>>
    BY <1>3, Zenon DEF RecorderTypeOK, WriteFrame
  <2>2. /\ inFlight' = inFlight \cup {e} /\ hand' = [hand EXCEPT ![p] = <<>>]
        /\ UNCHANGED clips
    BY <1>3, <2>1 DEF WriteFrame
  <2>3. \A q \in Pairs, c \in Clip : hand'[q] = <<c>> <=> q # p /\ hand[q] = <<c>>
    BY <2>2 DEF RecorderTypeOK
  <2>4. \A c \in Clip : hand[p] = <<c>> <=> c = e
    BY <2>1
  <2>5. Handed = Handed' \cup {e} \/ Handed = Handed'
    BY <2>3, <2>4 DEF Handed
  <2>6. e \in Handed
    BY <2>1 DEF Handed
  <2>7. QED
    BY <2>2, <2>3, <2>4, <2>5, <2>6 DEF Held, Queued, Handed
<1>4. ASSUME UNCHANGED <<clips, inFlight, hand>> PROVE Held' = Held
  BY <1>4 DEF Held, Queued, Handed
<1>5. QED
  BY <1>1, <1>2, <1>3, <1>4

(* Nothing is held when every thread has ended.                             *)
LEMMA NobodyHolds ==
  ASSUME RecorderTypeOK, ThreadInv, \A p \in Pairs : Gone(p)
  PROVE  clips = <<>> /\ inFlight = {} /\ ~writing /\ Held = {}
<1>1. \A p \in Pairs : writer[p] = "gone" /\ hand[p] = <<>>
  BY DEF ThreadInv, Gone
<1>2. clips = <<>> /\ inFlight = {} /\ ~writing
  BY <1>1 DEF ThreadInv
<1>3. Queued = {} /\ Handed = {}
  BY <1>1, <1>2 DEF Queued, Handed
<1>4. QED
  BY <1>2, <1>3 DEF Held

(* A step that moves no frame and counts none keeps both invariants.        *)
LEMMA SameAlone ==
  ASSUME PastInv, AloneInv, Held' = Held,
         UNCHANGED <<frame, dropped, take, disk, unopened, overlapped>>,
         \A p \in Pairs : Gone(p) => Gone(p)',
         Counting' <=> Counting
  PROVE  PastInv' /\ AloneInv'
<1>1. \A i \in 0 .. MaxFrames : Safe(i)' <=> Safe(i)
  BY DEF Safe, Settled, OfTake
<1>2. SafeFrames' = SafeFrames
  BY <1>1 DEF SafeFrames
<1>3. Safe(frame)' <=> Safe(frame)
  BY DEF Safe, Settled, OfTake
<1>4. PastInv'
  BY DEF PastInv
<1>5. AloneInv'
  BY <1>1, <1>2, <1>3 DEF AloneInv
<1>6. QED
  BY <1>4, <1>5

(* A recording that begins alone finds nothing of its own.                  *)
LEMMA StartStep ==
  ASSUME RecorderTypeOK, ThreadInv, AloneInv, PastInv, StartRecording
  PROVE  PastInv' /\ AloneInv'
<1>1. /\ frame' = 0 /\ dropped' = 0 /\ take' = take + 1
      /\ UNCHANGED <<clips, inFlight, hand, disk, unopened>>
  BY DEF StartRecording
<1>2. PICK p \in Pairs :
        /\ Gone(p) /\ recorder' = [recorder EXCEPT ![p] = "loop"]
        /\ replaced' = {q \in Pairs \ {p} : ~Gone(q)}
        /\ overlapped' = (replaced' # {})
  BY DEF StartRecording
<1>3. Held' = Held
  BY <1>1, HeldStep DEF Pairs
<1>4. PastInv'
  <2>1. take \in Nat /\ \A c \in Held : c.take \in Nat
    BY HeldType DEF RecorderTypeOK, Clip
  <2>2. \A i \in 0 .. MaxFrames : disk[i] \in Nat /\ unopened[i] \in Nat
    BY DEF RecorderTypeOK
  <2>3. QED
    BY <1>1, <1>3, <2>1, <2>2 DEF PastInv
<1>5. ASSUME ~overlapped' PROVE AloneInv'
  <2>1. \A q \in Pairs : Gone(q)
    BY <1>2, <1>5
  <2>2. Held = {}
    BY <2>1, NobodyHolds
  <2>3. take \in Nat /\ \A i \in 0 .. MaxFrames :
          disk[i] \in Nat /\ disk[i] <= take /\ unopened[i] \in Nat /\ unopened[i] <= take
    BY DEF PastInv, RecorderTypeOK
  <2>4. \A i \in 0 .. MaxFrames : ~Safe(i)'
    BY <1>1, <1>3, <2>2, <2>3 DEF Safe, Settled
  <2>5. \A q \in Pairs : recorder'[q] # "count" /\ (q # p => recorder'[q] = "gone")
    BY <1>2, <2>1 DEF Gone, RecorderTypeOK
  <2>6. SafeFrames' = {}
    BY <1>1, <2>4 DEF SafeFrames
  <2>7. Cardinality(SafeFrames') + dropped' = frame'
    BY <1>1, <2>6, FS_EmptySet
  <2>8. frame' <= MaxFrames'
    BY <1>1, RecorderAssumption
  <2>9. QED
    BY <1>3, <2>2, <2>4, <2>5, <2>7, <2>8 DEF AloneInv, Gone, Counting
<1>6. CASE overlapped'
  BY <1>4, <1>6 DEF AloneInv
<1>7. QED
  BY <1>4, <1>5, <1>6 DEF AloneInv

(* The recorder of a recording that is alone is the only thread at it, and  *)
(* what it enqueues or drops is the frame after those so far.               *)
LEMMA RecordStep ==
  ASSUME RecorderTypeOK, ThreadInv, AloneInv, PastInv, NEW p \in Pairs, RecordFrame(p)
  PROVE  PastInv' /\ AloneInv'
<1>1. /\ recorder[p] = "loop" /\ frame < MaxFrames
      /\ UNCHANGED <<take, disk, unopened, overlapped, inFlight, hand>>
  BY DEF RecordFrame
<1>2. take > 0 /\ take \in Nat /\ frame \in Nat /\ dropped \in Nat
  BY <1>1 DEF PastInv, RecorderTypeOK, Gone
<1>3. frame \in 0 .. MaxFrames
  BY <1>1, <1>2, RecorderAssumption
<1>4. ASSUME ~overlapped
      PROVE  ~Counting /\ ~Safe(frame) /\ \A q \in Pairs : q # p => recorder[q] = "gone"
  <2>1. \A q \in Pairs : q # p => recorder[q] = "gone"
    BY <1>1, <1>2, <1>4 DEF AloneInv, Gone
  <2>2. ~Counting
    BY <1>1, <2>1 DEF Counting
  <2>3. QED
    BY <1>2, <1>3, <1>4, <2>1, <2>2 DEF AloneInv
<1>5. CASE depth < FrameQueueMax
  <2>1. Held' = Held \cup {OfTake(frame)}
    BY <1>5, HeldStep
  <2>2. UNCHANGED <<frame, dropped>> /\ recorder' = [recorder EXCEPT ![p] = "count"]
    BY <1>5 DEF RecordFrame
  <2>3. OfTake(frame).take = take
    BY DEF OfTake
  <2>4. PastInv'
    BY <1>1, <1>2, <2>1, <2>2, <2>3 DEF PastInv
  <2>5. ASSUME ~overlapped PROVE AloneInv'
    <3>1. Counting' /\ \A q \in Pairs : q # p => recorder'[q] = "gone"
      BY <1>4, <2>2, <2>5 DEF Counting, RecorderTypeOK
    <3>2. \A i \in 0 .. MaxFrames : OfTake(i)' = OfTake(i)
      BY <1>1 DEF OfTake
    <3>3. \A i \in 0 .. MaxFrames : OfTake(i) = OfTake(frame) <=> i = frame
      BY <1>3 DEF OfTake
    <3>4. \A i \in 0 .. MaxFrames : Safe(i)' <=> Safe(i) \/ i = frame
      BY <1>1, <2>1, <3>2, <3>3 DEF Safe, Settled
    <3>5. SafeFrames' = SafeFrames
      BY <1>2, <2>2, <3>4 DEF SafeFrames
    <3>6. Safe(frame)'
      BY <1>1, <1>3, <2>1, <2>2 DEF Safe, Settled, OfTake
    <3>7. \A p_1, q \in Pairs : p_1 # q => Gone(p_1)' \/ Gone(q)'
      BY <3>1 DEF Gone
    <3>8. \A c \in Held' : c.take = take'
      BY <1>1, <1>2, <2>1, <2>3, <2>5 DEF AloneInv
    <3>9. \A i \in 0 .. MaxFrames : Safe(i)' => i < frame' \/ (Counting' /\ i = frame')
      BY <1>2, <1>4, <2>2, <2>5, <3>1, <3>4 DEF AloneInv
    <3>10. Cardinality(SafeFrames') + dropped' = frame'
      BY <1>2, <2>2, <2>5, <3>5 DEF AloneInv
    <3>11. frame' < MaxFrames
      BY <1>1, <2>2
    <3>12. QED
      BY <1>2, <2>2, <3>1, <3>6, <3>7, <3>8, <3>9, <3>10, <3>11, RecorderAssumption DEF AloneInv
  <2>6. QED
    BY <1>1, <2>4, <2>5 DEF AloneInv
<1>6. CASE ~(depth < FrameQueueMax)
  <2>1. Held' = Held
    BY <1>6, HeldStep DEF RecordFrame
  <2>2. frame' = frame + 1 /\ dropped' = dropped + 1 /\ UNCHANGED recorder
    BY <1>6 DEF RecordFrame
  <2>3. PastInv'
    BY <1>1, <1>2, <2>1, <2>2 DEF PastInv
  <2>4. ASSUME ~overlapped PROVE AloneInv'
    <3>1. \A i \in 0 .. MaxFrames : Safe(i)' <=> Safe(i)
      BY <1>1, <2>1 DEF Safe, Settled, OfTake
    <3>2. SafeFrames' = SafeFrames
      BY <1>2, <1>3, <1>4, <2>2, <2>4, <3>1 DEF SafeFrames
    <3>3. ~Counting'
      BY <1>4, <2>2, <2>4 DEF Counting
    <3>4. Cardinality(SafeFrames') + dropped' = frame'
      <4>1. Cardinality(SafeFrames) + dropped = frame
        BY <1>2, <2>4 DEF AloneInv
      <4>2. Cardinality(SafeFrames) \in Nat
        <5>1. IsFiniteSet(0 .. MaxFrames)
          BY FS_Interval, RecorderAssumption
        <5>2. IsFiniteSet(SafeFrames)
          BY <5>1, FS_Subset DEF SafeFrames
        <5>3. QED
          BY <5>2, FS_CardinalityType
      <4>3. QED
        BY <1>2, <2>2, <3>2, <4>1, <4>2
    <3>5. frame' <= MaxFrames
      BY <1>1, <1>2, <2>2, RecorderAssumption
    <3>6. \A i \in 0 .. MaxFrames : Safe(i)' => i < frame'
      BY <1>2, <1>4, <2>2, <2>4, <3>1 DEF AloneInv
    <3>7. \A q, r \in Pairs : q # r => Gone(q)' \/ Gone(r)'
      BY <1>2, <2>2, <2>4 DEF AloneInv, Gone
    <3>8. \A c \in Held' : c.take = take'
      BY <1>1, <1>2, <2>1, <2>4 DEF AloneInv
    <3>9. QED
      BY <3>3, <3>4, <3>5, <3>6, <3>7, <3>8 DEF AloneInv
  <2>5. QED
    BY <1>1, <2>3, <2>4 DEF AloneInv
<1>7. QED
  BY <1>5, <1>6

(* A frame is counted once it is enqueued, and then is one of those so far. *)
LEMMA CountStep ==
  ASSUME RecorderTypeOK, ThreadInv, AloneInv, PastInv, NEW p \in Pairs, CountFrame(p)
  PROVE  PastInv' /\ AloneInv'
<1>1. /\ recorder[p] = "count" /\ frame' = frame + 1
      /\ recorder' = [recorder EXCEPT ![p] = "loop"]
      /\ UNCHANGED <<take, disk, unopened, overlapped, clips, inFlight, hand, dropped>>
  BY DEF CountFrame
<1>2. take > 0 /\ take \in Nat /\ frame \in Nat /\ dropped \in Nat
  BY <1>1 DEF PastInv, RecorderTypeOK, Gone
<1>3. Held' = Held
  BY <1>1, HeldStep
<1>4. PastInv'
  BY <1>1, <1>2, <1>3 DEF PastInv
<1>5. ASSUME ~overlapped PROVE AloneInv'
  <2>1. Counting
    BY <1>1 DEF Counting
  <2>2. /\ \A q, r \in Pairs : q # r => Gone(q) \/ Gone(r)
        /\ frame < MaxFrames /\ Safe(frame)
        /\ \A c \in Held : c.take = take
        /\ \A i \in 0 .. MaxFrames : Safe(i) => i < frame \/ i = frame
        /\ Cardinality(SafeFrames) + dropped = frame
    BY <1>2, <1>5, <2>1 DEF AloneInv
  <2>3. \A q \in Pairs : q # p => recorder[q] = "gone"
    BY <1>1, <2>2 DEF Gone
  <2>4. ~Counting' /\ \A q \in Pairs : q # p => recorder'[q] = "gone"
    BY <1>1, <2>3 DEF Counting, RecorderTypeOK
  <2>5. \A i \in 0 .. MaxFrames : Safe(i)' <=> Safe(i)
    BY <1>1, <1>3 DEF Safe, Settled, OfTake
  <2>6. frame \in 0 .. MaxFrames
    BY <1>2, <2>2, RecorderAssumption
  <2>7. SafeFrames' = SafeFrames \cup {frame} /\ frame \notin SafeFrames
    BY <1>1, <1>2, <2>2, <2>5, <2>6 DEF SafeFrames
  <2>8. IsFiniteSet(SafeFrames) /\ Cardinality(SafeFrames) \in Nat
    <3>1. IsFiniteSet(0 .. MaxFrames)
      BY FS_Interval, RecorderAssumption
    <3>2. IsFiniteSet(SafeFrames)
      BY <3>1, FS_Subset DEF SafeFrames
    <3>3. QED
      BY <3>2, FS_CardinalityType
  <2>9. Cardinality(SafeFrames') = Cardinality(SafeFrames) + 1
    BY <2>7, <2>8, FS_AddElement
  <2>10. Cardinality(SafeFrames') + dropped' = frame'
    BY <1>1, <1>2, <2>2, <2>8, <2>9
  <2>11. \A i \in 0 .. MaxFrames : Safe(i)' => i < frame'
    BY <1>1, <1>2, <2>2, <2>5
  <2>12. \A q, r \in Pairs : q # r => Gone(q)' \/ Gone(r)'
    BY <2>4 DEF Gone
  <2>13. frame' <= MaxFrames /\ \A c \in Held' : c.take = take'
    BY <1>1, <1>2, <1>3, <2>2, RecorderAssumption
  <2>14. QED
    BY <2>4, <2>10, <2>11, <2>12, <2>13 DEF AloneInv
<1>6. QED
  BY <1>1, <1>4, <1>5 DEF AloneInv

(* A clip that reaches its file leaves the frames that are held, and the    *)
(* frame it is of is as safe as before.                                     *)
LEMMA FileStep ==
  ASSUME RecorderTypeOK, ThreadInv, AloneInv, PastInv, FileWritten
  PROVE  PastInv' /\ AloneInv'
<1>1. PICK clip \in inFlight :
        /\ inFlight' = inFlight \ {clip}
        /\ \/ disk' = [disk EXCEPT ![clip.index] = clip.take] /\ UNCHANGED unopened
           \/ unopened' = [unopened EXCEPT ![clip.index] = clip.take] /\ UNCHANGED disk
        /\ UNCHANGED <<frame, dropped, take, overlapped, recorder, clips, hand>>
  BY DEF FileWritten, counters, threads
<1>2. clip \in Clip /\ clip \in Held /\ clip.index \in 0 .. MaxFrames /\ clip.take \in Nat
  BY <1>1, HeldType DEF Held, Clip
<1>3. Held' \subseteq Held /\ Held \ {clip} \subseteq Held'
  BY <1>1 DEF Held, Queued, Handed
<1>4. \A i \in 0 .. MaxFrames :
        /\ i # clip.index => disk'[i] = disk[i] /\ unopened'[i] = unopened[i]
        /\ i = clip.index =>
             \/ (disk'[i] = clip.take /\ unopened'[i] = unopened[i])
             \/ (unopened'[i] = clip.take /\ disk'[i] = disk[i])
  BY <1>1, <1>2 DEF RecorderTypeOK
<1>5. PastInv'
  BY <1>1, <1>2, <1>3, <1>4 DEF PastInv, Gone
<1>6. ASSUME take > 0, ~overlapped PROVE AloneInv'
  <2>1. clip.take = take /\ clip = OfTake(clip.index)
    BY <1>2, <1>6 DEF AloneInv, OfTake, Clip
  <2>2. \A i \in 0 .. MaxFrames : i # clip.index => OfTake(i) # clip
    BY <1>2 DEF OfTake
  <2>3. \A i \in 0 .. MaxFrames : Safe(i)' <=> Safe(i)
    <3>1. ASSUME NEW i \in 0 .. MaxFrames PROVE Safe(i)' <=> Safe(i)
      <4>1. OfTake(i)' = OfTake(i)
        BY <1>1 DEF OfTake
      <4>2. CASE i = clip.index
        BY <1>1, <1>2, <1>4, <2>1, <4>2 DEF Safe, Settled
      <4>3. CASE i # clip.index
        BY <1>1, <1>3, <1>4, <2>2, <4>1, <4>3 DEF Safe, Settled
      <4>4. QED
        BY <4>2, <4>3
    <3>2. QED
      BY <3>1
  <2>4. SafeFrames' = SafeFrames
    BY <1>1, <2>3 DEF SafeFrames
  <2>5. Counting' <=> Counting
    BY <1>1 DEF Counting
  <2>6. Counting => Safe(frame)'
    <3>1. Counting => Safe(frame) /\ frame \in 0 .. MaxFrames
      BY <1>6, RecorderAssumption DEF AloneInv, RecorderTypeOK
    <3>2. Safe(frame)' <=> Settled(frame)' \/ OfTake(frame)' \in Held'
      BY <1>1 DEF Safe, Settled, OfTake
    <3>3. frame \in 0 .. MaxFrames => (Safe(frame) <=> Settled(frame)' \/ OfTake(frame)' \in Held')
      BY <1>1, <2>3 DEF Safe, Settled, OfTake
    <3>4. QED
      BY <3>1, <3>2, <3>3
  <2>7. QED
    BY <1>1, <1>3, <1>6, <2>3, <2>4, <2>5, <2>6 DEF AloneInv, Gone
<1>7. QED
  BY <1>1, <1>5, <1>6 DEF AloneInv

(* The recorder starts in its invariant. *)
LEMMA RecorderInitially == RecorderInit => RecorderInv
<1> SUFFICES ASSUME RecorderInit PROVE RecorderInv
  OBVIOUS
<1>1. RecorderTypeOK
  <2>1. clips \in Seq(Clip) /\ inFlight \subseteq Clip
    BY DEF RecorderInit
  <2>2. hand \in [Pairs -> {<<>>} \cup {<<c>> : c \in Clip}]
    BY DEF RecorderInit
  <2>3. disk \in [0 .. MaxFrames -> Nat] /\ unopened \in [0 .. MaxFrames -> Nat]
    BY DEF RecorderInit
  <2>4. QED
    BY <2>1, <2>2, <2>3 DEF RecorderInit, RecorderTypeOK
<1>2. ThreadInv
  BY DEF RecorderInit, ThreadInv
<1>3. AloneInv
  BY DEF RecorderInit, AloneInv
<1>4. Held = {}
  BY DEF RecorderInit, Held, Queued, Handed
<1>5. PastInv
  BY <1>4 DEF RecorderInit, PastInv, Gone
<1>6. QED
  BY <1>1, <1>2, <1>3, <1>5 DEF RecorderInv

(* Every step of the recorder keeps its invariant. *)
LEMMA RecorderSteps == RecorderInv /\ [RecorderNext]_recorderVars => RecorderInv'
<1> SUFFICES ASSUME RecorderInv, [RecorderNext]_recorderVars PROVE RecorderInv'
  OBVIOUS
<1> USE DEF RecorderInv
<1>1. RecorderTypeOK'
  BY RecorderTypeStep
<1>2. ThreadInv'
  BY ThreadStep
<1>3. PastInv' /\ AloneInv'
  <2>1. CASE StartRecording
    BY <2>1, StartStep
  <2>2. CASE FileWritten
    BY <2>2, FileStep
  <2>3. ASSUME NEW p \in Pairs, RecordFrame(p) PROVE PastInv' /\ AloneInv'
    BY <2>3, RecordStep
  <2>4. ASSUME NEW p \in Pairs, CountFrame(p) PROVE PastInv' /\ AloneInv'
    BY <2>4, CountStep
  <2>5. ASSUME NEW p \in Pairs, TakeFrame(p) \/ WriteFrame(p) PROVE PastInv' /\ AloneInv'
    <3>1. Held' = Held
      BY <2>5, HeldStep
    <3>2. UNCHANGED <<frame, dropped, take, disk, unopened, overlapped, recorder>>
      BY <2>5 DEF TakeFrame, WriteFrame, counters
    <3>3. QED
      BY <3>1, <3>2, SameAlone DEF Gone, Counting
  <2>6. ASSUME NEW p \in Pairs, EndLoop(p) \/ RecorderGone(p) PROVE PastInv' /\ AloneInv'
    <3>1. UNCHANGED <<frame, dropped, take, disk, unopened, overlapped, clips, inFlight, hand>>
      BY <2>6 DEF EndLoop, RecorderGone, counters
    <3>2. Held' = Held
      BY <2>6, <3>1, HeldStep
    <3>3. \A q \in Pairs : /\ Gone(q) => Gone(q)'
                           /\ recorder'[q] = "count" <=> recorder[q] = "count"
      BY <2>6 DEF EndLoop, RecorderGone, RecorderTypeOK, Gone
    <3>4. QED
      BY <3>1, <3>2, <3>3, SameAlone DEF Counting
  <2>7. CASE \/ StopRecording \/ UNCHANGED recorderVars
             \/ \E p \in Pairs : WriterBegins(p) \/ StartDrain(p) \/ Drained(p) \/ WriterGone(p)
    <3>1. UNCHANGED <<frame, dropped, take, disk, unopened, overlapped, clips, inFlight, hand, recorder>>
      BY <2>7 DEF StopRecording, recorderVars, WriterBegins, StartDrain, Drained, WriterGone,
                  counters, threads
    <3>2. Held' = Held
      BY <3>1, HeldStep DEF Pairs
    <3>3. QED
      BY <3>1, <3>2, SameAlone DEF Gone, Counting
  <2>8. QED
    BY <2>1, <2>2, <2>3, <2>4, <2>5, <2>6, <2>7 DEF RecorderNext, ThreadSteps
<1>4. QED
  BY <1>1, <1>2, <1>3

-----------------------------------------------------------------------------
(* A recording that began after the last had ended loses no frame: when     *)
(* everything is at rest each one is in its file, was counted as dropped, or *)
(* is one whose file could not be opened, for queues of any length.         *)
THEOREM NoFrameIsLost == RecorderSpec => []RestIsComplete
<1>1. RecorderInv => RestIsComplete
  <2> SUFFICES ASSUME RecorderInv, \A p \in Pairs : Gone(p)
               PROVE  /\ clips = <<>> /\ inFlight = {} /\ ~writing
                      /\ ~overlapped =>
                           Cardinality({i \in 0 .. MaxFrames : i < frame /\ Settled(i)})
                             + dropped = frame
    BY DEF RestIsComplete
  <2>1. clips = <<>> /\ inFlight = {} /\ ~writing /\ Held = {}
    BY NobodyHolds DEF RecorderInv
  <2>2. {i \in 0 .. MaxFrames : i < frame /\ Settled(i)} = SafeFrames
    BY <2>1 DEF SafeFrames, Safe, Settled
  <2>3. ASSUME take = 0, ~overlapped PROVE Cardinality(SafeFrames) + dropped = frame
    <3>1. frame = 0 /\ dropped = 0
      BY <2>3 DEF RecorderInv, PastInv
    <3>2. SafeFrames = {}
      BY <3>1 DEF SafeFrames
    <3>3. Cardinality(SafeFrames) + dropped = frame
      BY <3>1, <3>2, FS_EmptySet
    <3>4. QED
      BY <3>3
  <2>4. ASSUME take # 0, ~overlapped PROVE Cardinality(SafeFrames) + dropped = frame
    <3>1. take > 0
      BY <2>4 DEF RecorderInv, RecorderTypeOK
    <3>2. QED
      BY <2>4, <3>1 DEF RecorderInv, AloneInv
  <2>5. QED
    BY <2>1, <2>2, <2>3, <2>4
<1>2. QED
  BY <1>1, RecorderInitially, RecorderSteps, PTL DEF RecorderSpec

-----------------------------------------------------------------------------
(* MetricsServer: however the setters are called, the endpoint ends up where*)
(* the settings say, unless a control thread is overtaken by a newer one.  *)

FirstEndpoint == CHOOSE a \in Endpoints : TRUE
Settings == [enable : BOOLEAN, address : Endpoints \cup {FirstEndpoint}]

MetricsTypeOK ==
  /\ setting \in Settings /\ controls \in Seq(Settings)
  /\ unrun \in Seq(Changes)
  /\ server # <<>> => DOMAIN server = {"address", "registry", "shown"}

(* The endpoint is as a setting wants it.                                   *)
Follows(c) ==
  IF ~c.enable THEN server = <<>>
  ELSE IF server = <<>> THEN c \in refused
  ELSE server.address = c.address

(* Until a thread is overtaken the newest control thread carries the present *)
(* settings, and when it has run they are in force.                          *)
NewestInv ==
  ~overtaken => IF controls = <<>> THEN Follows(setting)
                ELSE controls[Len(controls)] = setting

MetricsInv == MetricsTypeOK /\ NewestInv

-----------------------------------------------------------------------------
(* A setter that changes something starts a control thread with what it set. *)
LEMMA AssignStep ==
  ASSUME MetricsInv, NEW c \in Changes, Assign(WithChange(c)), unrun' \in Seq(Changes),
         UNCHANGED <<overtaken, server, refused>>
  PROVE  MetricsInv'
<1>1. WithChange(c) \in Settings
  <2>1. CASE c \in {"enable"} \X BOOLEAN
    <3>1. c[1] = "enable" /\ c[2] \in BOOLEAN
      BY <2>1
    <3>2. QED
      BY <3>1 DEF WithChange, MetricsInv, MetricsTypeOK, Settings
  <2>2. CASE c \in {"address"} \X Endpoints
    <3>1. c[1] = "address" /\ c[2] \in Endpoints
      BY <2>2
    <3>2. QED
      BY <3>1 DEF WithChange, MetricsInv, MetricsTypeOK, Settings
  <2>3. QED
    BY <2>1, <2>2 DEF Changes
<1>2. CASE WithChange(c) = setting
  BY <1>2 DEF Assign, MetricsInv, MetricsTypeOK, NewestInv, Follows
<1>3. CASE WithChange(c) # setting
  <2>1. setting' = WithChange(c) /\ controls' = Append(controls, WithChange(c))
    BY <1>3 DEF Assign
  <2>2. controls \in Seq(Settings)
    BY DEF MetricsInv, MetricsTypeOK
  <2>3. controls' \in Seq(Settings) /\ controls' # <<>>
        /\ controls'[Len(controls')] = WithChange(c)
    BY <1>1, <2>1, <2>2
  <2>4. MetricsTypeOK'
    BY <1>1, <2>1, <2>3 DEF MetricsInv, MetricsTypeOK
  <2>5. QED
    BY <2>1, <2>3, <2>4 DEF MetricsInv, NewestInv
<1>4. QED
  BY <1>2, <1>3

(* set_enabled does what it was started for.                                 *)
LEMMA SetEnabledFollows ==
  ASSUME MetricsInv, NEW c \in Settings, NEW binds \in BOOLEAN, SetEnabled(c, binds)
  PROVE  Follows(c)' /\ (server' # <<>> => DOMAIN server' = {"address", "registry", "shown"})
<1>1. CASE ~c.enable
  BY <1>1 DEF SetEnabled, Follows
<1>2. CASE c.enable /\ KeepsServer(c)
  BY <1>2 DEF SetEnabled, KeepsServer, Follows, MetricsInv, MetricsTypeOK
<1>3. CASE c.enable /\ ~KeepsServer(c)
  <2>1. CASE binds
    <3>1. server' = [address |-> c.address, registry |-> registries', shown |-> Shown]
      BY <1>3, <2>1 DEF SetEnabled
    <3>2. DOMAIN server' = {"address", "registry", "shown"} /\ server'.address = c.address
      BY <3>1
    <3>3. server' # <<>>
      BY <3>2
    <3>4. QED
      BY <1>3, <3>2, <3>3 DEF Follows
  <2>2. CASE ~binds
    BY <1>3, <2>2 DEF SetEnabled, Follows
  <2>3. QED
    BY <2>1, <2>2
<1>4. QED
  BY <1>1, <1>2, <1>3

(* The oldest thread of several leaves the newest where it is; the last one  *)
(* puts the settings in force.                                               *)
LEMMA ControlStep ==
  ASSUME MetricsInv, NEW i \in DOMAIN controls, NEW binds \in BOOLEAN, ControlRuns(i, binds)
  PROVE  MetricsInv'
<1>1. /\ SetEnabled(controls[i], binds)
      /\ controls' = [k \in 1..(Len(controls) - 1) |-> controls[IF k < i THEN k ELSE k + 1]]
      /\ overtaken' = (overtaken \/ i > 1) /\ UNCHANGED <<setting, unrun>>
  BY DEF ControlRuns
<1>2. controls \in Seq(Settings) /\ Len(controls) \in Nat \ {0} /\ i \in 1..Len(controls)
      /\ controls[i] \in Settings
  BY DEF MetricsInv, MetricsTypeOK
<1> PICK c \in Settings : c = controls[i]
  BY <1>2
<1>3. Follows(c)' /\ (server' # <<>> => DOMAIN server' = {"address", "registry", "shown"})
  <2>1. SetEnabled(c, binds)
    BY <1>1
  <2>2. QED
    BY <2>1, SetEnabledFollows
<1>4. controls' \in Seq(Settings) /\ Len(controls') = Len(controls) - 1
  <2>1. \A k \in 1..(Len(controls) - 1) : controls[IF k < i THEN k ELSE k + 1] \in Settings
    BY <1>2
  <2>2. QED
    BY <1>1, <1>2, <2>1
<1>5. MetricsTypeOK'
  BY <1>1, <1>3, <1>4 DEF MetricsInv, MetricsTypeOK
<1>6. ASSUME ~overtaken' PROVE IF controls' = <<>> THEN Follows(setting)'
                               ELSE controls'[Len(controls')] = setting
  <2>1. i = 1 /\ ~overtaken
    <3>1. ~(i > 1) /\ ~overtaken
      BY <1>1, <1>6, Zenon
    <3>2. QED
      BY <1>2, <3>1
  <2>2. controls[Len(controls)] = setting
    BY <1>2, <2>1 DEF MetricsInv, NewestInv
  <2>3. CASE Len(controls) = 1
    <3>1. controls' = <<>> /\ c = setting'
      BY <1>1, <1>4, <2>1, <2>2, <2>3
    <3>2. QED
      BY <1>1, <1>3, <3>1 DEF Follows
  <2>4. CASE Len(controls) # 1
    <3>1. Len(controls') \in 1..(Len(controls) - 1) /\ controls' # <<>>
      BY <1>2, <1>4, <2>4
    <3>2. controls'[Len(controls')] = controls[Len(controls)]
      BY <1>1, <1>2, <1>4, <2>1, <3>1
    <3>3. QED
      BY <2>2, <3>1, <3>2
  <2>5. QED
    BY <2>3, <2>4
<1>7. QED
  BY <1>1, <1>5, <1>6 DEF MetricsInv, NewestInv

(* What is flushed changes only what the server shows.                       *)
LEMMA FlushStep ==
  ASSUME MetricsInv, EndFlush PROVE MetricsInv'
<1>1. UNCHANGED <<setting, controls, unrun, overtaken, refused>>
  BY DEF EndFlush, settingVars
<1>2. PICK shown : server' = server \/ (server # <<>> /\ server' = [server EXCEPT !.shown = shown])
  BY DEF EndFlush
<1>3. CASE server' = server
  BY <1>1, <1>3 DEF MetricsInv, MetricsTypeOK, NewestInv, Follows
<1>4. CASE server # <<>> /\ server' = [server EXCEPT !.shown = shown]
  <2>1. DOMAIN server = {"address", "registry", "shown"}
    BY <1>4 DEF MetricsInv, MetricsTypeOK
  <2>2. DOMAIN server' = {"address", "registry", "shown"} /\ server'.address = server.address
    BY <1>4, <2>1
  <2>3. server' # <<>>
    BY <2>2
  <2>4. QED
    BY <1>1, <1>4, <2>2, <2>3 DEF MetricsInv, MetricsTypeOK, NewestInv, Follows
<1>5. QED
  BY <1>2, <1>3, <1>4

-----------------------------------------------------------------------------
(* The strengthened invariant holds when the settings are loaded.            *)
LEMMA MetricsInitially == MetricsInit => MetricsInv
<1> SUFFICES ASSUME MetricsInit PROVE MetricsInv
  OBVIOUS
<1>1. setting \in Settings /\ controls = <<setting>> /\ unrun = <<>> /\ server = <<>>
  BY DEF MetricsInit, Settings, FirstEndpoint
<1>2. controls \in Seq(Settings) /\ controls # <<>> /\ controls[Len(controls)] = setting
  BY <1>1
<1>3. QED
  BY <1>1, <1>2 DEF MetricsInv, MetricsTypeOK, NewestInv

(* And every step of the settings, their threads and the metrics keeps it.   *)
LEMMA MetricsSteps == MetricsInv /\ [MetricsNext]_metricsVars => MetricsInv'
<1> SUFFICES ASSUME MetricsInv, [MetricsNext]_metricsVars PROVE MetricsInv'
  OBVIOUS
<1>1. unrun \in Seq(Changes)
  BY DEF MetricsInv, MetricsTypeOK
<1>2. CASE UNCHANGED <<setting, controls, unrun, overtaken, refused, server>>
  BY <1>2 DEF MetricsInv, MetricsTypeOK, NewestInv, Follows
<1>3. ASSUME NEW c \in Changes, SetHere(c) PROVE MetricsInv'
  <2>1. Assign(WithChange(c)) /\ UNCHANGED <<unrun, overtaken, server, refused>>
    BY <1>3 DEF SetHere
  <2>2. QED
    BY <1>1, <2>1, AssignStep
<1>4. ASSUME NEW c \in Changes, SetElsewhere(c) PROVE MetricsInv'
  <2>1. unrun' = Append(unrun, c)
        /\ UNCHANGED <<setting, controls, overtaken, server, refused>>
    BY <1>4 DEF SetElsewhere
  <2>2. unrun' \in Seq(Changes)
    BY <1>1, <1>4, <2>1
  <2>3. QED
    BY <2>1, <2>2 DEF MetricsInv, MetricsTypeOK, NewestInv, Follows
<1>5. CASE RunSetter
  <2>1. /\ unrun # <<>> /\ Assign(WithChange(Head(unrun))) /\ unrun' = Tail(unrun)
        /\ UNCHANGED <<overtaken, server, refused>>
    BY <1>5 DEF RunSetter
  <2>2. Head(unrun) \in Changes /\ unrun' \in Seq(Changes)
    BY <1>1, <2>1
  <2>3. QED
    BY <2>1, <2>2, AssignStep
<1>6. CASE JoinControl \/ SetGauge \/ SetCounter \/ ObserveDuration \/ RestartCount \/ Record
           \/ BeginFlush \/ UNCHANGED metricsVars
  <2>1. UNCHANGED <<setting, controls, unrun, overtaken, refused, server>>
    BY <1>6 DEF JoinControl, SetGauge, SetCounter, ObserveDuration, Enqueue, RestartCount, Record,
         BeginFlush, metricsVars, settingVars
  <2>2. QED
    BY <1>2, <2>1
<1>7. CASE EndFlush
  BY <1>7, FlushStep
<1>8. CASE \E i \in DOMAIN controls, binds \in BOOLEAN : ControlRuns(i, binds)
  BY <1>8, ControlStep
<1>9. QED
  BY <1>3, <1>4, <1>5, <1>6, <1>7, <1>8 DEF MetricsNext

(* When no control thread is left, the endpoint is served at the address of  *)
(* the settings, could not be bound there, or is switched off, as they say   *)
(* (AppSettings, its control thread and set_enabled).                        *)
THEOREM EndpointFollows == MetricsSpec => []ServerFollowsSettings
<1>1. MetricsInv => ServerFollowsSettings
  BY DEF MetricsInv, NewestInv, Follows, ServerFollowsSettings
<1>2. QED
  BY <1>1, MetricsInitially, MetricsSteps, PTL DEF MetricsSpec

-----------------------------------------------------------------------------
(* MetricsServer: what a scrape shows adds up. Every total on its way has a  *)
(* date, how much had been counted in all by then.                           *)

Kinds == {"gauge", "counter", "histogram"}
Waiting == {<<>>} \cup {<<v>> : v \in Nat}
MeasuresTypeOK ==
  /\ queued \in Seq([kind : Kinds, value : Nat])
  /\ pending \in [gauge : Waiting, counter : Waiting, histogram : Seq(Nat)]
  /\ cache \in [registry : Nat, total : Nat] /\ registries \in Nat
  /\ source \in [gauge : Nat, total : Nat, observed : Nat]
  /\ counted \in [all : Nat, restarts : Nat] /\ updateCalls \in Nat
  /\ server # <<>> => /\ DOMAIN server = {"address", "registry", "shown"}
                      /\ server.registry \in Nat \ {0}
                      /\ server.shown \in [gauge : Nat, counter : Nat, observed : Nat]
  /\ flushing # <<>> => flushing = <<flushing[1]>> /\ flushing[1] \in Nat

(* A registry is never taken up again: one that has shown something is the   *)
(* one whose last total is kept.                                             *)
Matched == server # <<>> /\ cache.registry = server.registry
RegistriesInv ==
  /\ cache.registry <= registries
  /\ server # <<>> => /\ server.registry = registries
                      /\ cache.registry # server.registry => server.shown = Shown
  /\ flushing # <<>> =>
       /\ flushing[1] <= registries
       /\ server # <<>> /\ flushing[1] # server.registry => cache.registry # server.registry

(* The observations that wait come after those that are shown.               *)
Seen == (IF server = <<>> THEN 0 ELSE server.shown.observed) + Len(pending.histogram)
ObservedInv ==
  /\ Seen <= source.observed
  /\ \A i \in 1..Len(queued) : queued[i].kind = "histogram" =>
       /\ Seen < queued[i].value /\ queued[i].value <= source.observed
       /\ \A j \in 1..Len(queued) :
            i < j /\ queued[j].kind = "histogram" => queued[i].value < queued[j].value

(* The newest value of a series is its last in the queue, else the pending   *)
(* one, else what is shown, if anything is.                                  *)
Latest(q, waiting, matched, now, shown, kind) ==
  /\ \A i \in 1..Len(q) :
       /\ q[i].kind = kind
       /\ \A j \in 1..Len(q) : i < j => q[j].kind # kind
       => q[i].value = now
  /\ (\A i \in 1..Len(q) : q[i].kind # kind) =>
       /\ waiting # <<>> => waiting[1] = now
       /\ waiting = <<>> /\ matched => shown \in {0, now}
LatestInv ==
  /\ Latest(queued, pending.gauge, Matched, source.gauge, server.shown.gauge, "gauge")
  /\ counted.restarts = 0 =>
       /\ Latest(queued, pending.counter, Matched, source.total, server.shown.counter, "counter")
       /\ Matched => server.shown.counter = cache.total

(* From one total to a later one no more is added than was counted between;  *)
(* and a count that was never restarted grows.                               *)
Grows(v, h, w, k, restarts) == h + Increment(w, v) <= k /\ (restarts = 0 => v <= w)
DatedQueue(h, p, b) ==
  \A i \in 1..Len(queued) : queued[i].kind = "counter" =>
    /\ h[i] \in Nat /\ queued[i].value <= h[i]
    /\ Grows(queued[i].value, h[i], source.total, counted.all, counted.restarts)
    /\ \A j \in 1..Len(queued) : i < j /\ queued[j].kind = "counter" =>
         Grows(queued[i].value, h[i], queued[j].value, h[j], counted.restarts)
    /\ pending.counter # <<>> =>
         Grows(pending.counter[1], p, queued[i].value, h[i], counted.restarts)
    /\ Matched => Grows(cache.total, b, queued[i].value, h[i], counted.restarts)
DatedPending(p, b) ==
  pending.counter # <<>> =>
    /\ pending.counter[1] <= p
    /\ Grows(pending.counter[1], p, source.total, counted.all, counted.restarts)
    /\ Matched => Grows(cache.total, b, pending.counter[1], p, counted.restarts)
DatedShown(b) ==
  Matched => /\ server.shown.counter <= b
             /\ Grows(cache.total, b, source.total, counted.all, counted.restarts)
Dated(h, p, b) == DatedQueue(h, p, b) /\ DatedPending(p, b) /\ DatedShown(b)
CountInv ==
  /\ source.total <= counted.all
  /\ \E h, p, b : p \in Nat /\ b \in Nat /\ Dated(h, p, b)

MeasuresIInv == MeasuresTypeOK /\ RegistriesInv /\ ObservedInv /\ LatestInv /\ CountInv

(* What a scrape shows follows.                                              *)
LEMMA MeasuresAddUp == MeasuresIInv => MetricsAddUp
<1> SUFFICES ASSUME MeasuresIInv, server # <<>> 
             PROVE  /\ server.shown.counter <= counted.all
                    /\ server.shown.observed <= source.observed
                    /\ queued = <<>> /\ pending = NothingPending
                       /\ cache.registry = server.registry /\ counted.restarts = 0
                       => /\ server.shown.counter \in {0, source.total}
                          /\ server.shown.gauge \in {0, source.gauge}
  BY DEF MetricsAddUp
<1>1. /\ server.shown \in [gauge : Nat, counter : Nat, observed : Nat]
      /\ cache.total \in Nat /\ source.total \in Nat /\ source.observed \in Nat
      /\ counted.all \in Nat /\ Len(pending.histogram) \in Nat
  BY DEF MeasuresIInv, MeasuresTypeOK
<1>2. server.shown.counter <= counted.all
  <2>1. CASE cache.registry # server.registry
    <3>1. server.shown.counter = 0
      BY <2>1 DEF MeasuresIInv, RegistriesInv, Shown
    <3> QED
      BY <1>1, <3>1
  <2>2. CASE cache.registry = server.registry
    <3>1. PICK h, p, b : b \in Nat /\ Dated(h, p, b)
      BY DEF MeasuresIInv, CountInv
    <3>2. /\ server.shown.counter <= b
          /\ Grows(cache.total, b, source.total, counted.all, counted.restarts)
      BY <2>2, <3>1 DEF Dated, DatedQueue, DatedPending, DatedShown, Matched
    <3>3. b + Increment(source.total, cache.total) <= counted.all
      BY <3>2 DEF Grows
    <3>4. Increment(source.total, cache.total) \in Nat
      BY <1>1 DEF Increment
    <3> QED
      BY <1>1, <3>1, <3>2, <3>3, <3>4
  <2> QED
    BY <2>1, <2>2
<1>3. server.shown.observed <= source.observed
  BY <1>1 DEF MeasuresIInv, ObservedInv, Seen
<1>4. ASSUME queued = <<>>, pending = NothingPending,
             cache.registry = server.registry, counted.restarts = 0
      PROVE  /\ server.shown.counter \in {0, source.total}
             /\ server.shown.gauge \in {0, source.gauge}
  <2>1. Matched /\ Len(queued) = 0 /\ pending["gauge"] = <<>> /\ pending["counter"] = <<>>
    BY <1>4 DEF Matched, NothingPending
  <2>2. Latest(queued, pending.gauge, Matched, source.gauge, server.shown.gauge, "gauge")
        /\ Latest(queued, pending.counter, Matched, source.total, server.shown.counter, "counter")
    BY <1>4 DEF MeasuresIInv, LatestInv
  <2> QED
    BY <2>1, <2>2 DEF Latest
<1> QED
  BY <1>2, <1>3, <1>4

(* At first nothing is counted.                                              *)
LEMMA MeasuresInit == MetricsInit => MeasuresIInv
<1> SUFFICES ASSUME MetricsInit
             PROVE  MeasuresIInv
  OBVIOUS
<1>1. /\ queued = <<>> /\ pending = NothingPending /\ server = <<>> /\ flushing = <<>>
      /\ registries = 0 /\ cache = [registry |-> 0, total |-> 0]
      /\ source = [gauge |-> 0, total |-> 0, observed |-> 0]
      /\ counted = [all |-> 0, restarts |-> 0] /\ updateCalls = 0
  BY DEF MetricsInit
<1>2. /\ Len(queued) = 0 /\ Len(pending.histogram) = 0
      /\ pending.counter = <<>> /\ pending.gauge = <<>>
  BY <1>1 DEF NothingPending
<1>3. MeasuresTypeOK
  BY <1>1 DEF MeasuresTypeOK, NothingPending, Kinds, Waiting
<1>4. RegistriesInv
  BY <1>1 DEF RegistriesInv
<1>5. ObservedInv
  BY <1>1, <1>2 DEF ObservedInv, Seen
<1>6. LatestInv
  BY <1>1, <1>2 DEF LatestInv, Latest, Matched, NothingPending
<1>7. CountInv
  <2>1. Dated(0, 0, 0)
    BY <1>1, <1>2 DEF Dated, DatedQueue, DatedPending, DatedShown, Matched
  <2> QED
    BY <1>1, <2>1 DEF CountInv
<1> QED
  BY <1>3, <1>4, <1>5, <1>6, <1>7 DEF MeasuresIInv

(* The shapes, as the proofs need them.                                      *)
LEMMA MeasuresTypes ==
  ASSUME MeasuresIInv
  PROVE  /\ Len(queued) \in Nat
         /\ \A k \in 1..Len(queued) : queued[k].kind \in Kinds /\ queued[k].value \in Nat
         /\ source.gauge \in Nat /\ source.total \in Nat /\ source.observed \in Nat
         /\ counted.all \in Nat /\ counted.restarts \in Nat /\ Seen \in Nat
         /\ cache.registry \in Nat /\ cache.total \in Nat
         /\ pending.counter # <<>> => pending.counter[1] \in Nat
         /\ pending.gauge # <<>> => pending.gauge[1] \in Nat
<1>1. /\ queued \in Seq([kind : Kinds, value : Nat])
      /\ pending \in [gauge : Waiting, counter : Waiting, histogram : Seq(Nat)]
      /\ cache \in [registry : Nat, total : Nat]
      /\ source \in [gauge : Nat, total : Nat, observed : Nat]
      /\ counted \in [all : Nat, restarts : Nat]
  BY DEF MeasuresIInv, MeasuresTypeOK
<1>2. Len(queued) \in Nat /\ \A k \in 1..Len(queued) : queued[k] \in [kind : Kinds, value : Nat]
  <2> DEFINE U == [kind : Kinds, value : Nat]
  <2>1. queued \in Seq(U)
    BY <1>1
  <2> HIDE DEF U
  <2>2. Len(queued) \in Nat /\ \A k \in 1..Len(queued) : queued[k] \in U
    BY <2>1
  <2> QED
    BY <2>2 DEF U
<1>3. Seen \in Nat
  <2>1. Len(pending.histogram) \in Nat
    BY <1>1
  <2>2. server # <<>> => server.shown.observed \in Nat
    BY DEF MeasuresIInv, MeasuresTypeOK
  <2> QED
    BY <2>1, <2>2 DEF Seen
<1>4. /\ pending.counter \in Waiting /\ pending.gauge \in Waiting
      /\ \A s \in Waiting : s # <<>> => s[1] \in Nat
  <2>1. \A s \in Waiting : s # <<>> => s[1] \in Nat
    BY DEF Waiting
  <2> QED
    BY <1>1, <2>1
<1>5. /\ source.gauge \in Nat /\ source.total \in Nat /\ source.observed \in Nat
      /\ counted.all \in Nat /\ counted.restarts \in Nat
      /\ cache.registry \in Nat /\ cache.total \in Nat
  BY <1>1
<1>6. \A k \in 1..Len(queued) : queued[k].kind \in Kinds /\ queued[k].value \in Nat
  BY <1>2
<1> QED
  BY <1>2, <1>3, <1>4, <1>5, <1>6

measureVars ==
  <<server, registries, queued, pending, cache, flushing, source, counted, updateCalls>>

(* Calls of setters and joins touch none of it.                              *)
LEMMA MeasuresStay == MeasuresIInv /\ UNCHANGED measureVars => MeasuresIInv'
<1> SUFFICES ASSUME MeasuresIInv, UNCHANGED measureVars
             PROVE  MeasuresIInv'
  OBVIOUS
<1> USE DEF measureVars
<1>1. MeasuresTypeOK'
  BY DEF MeasuresIInv, MeasuresTypeOK
<1>2. RegistriesInv'
  BY DEF MeasuresIInv, RegistriesInv
<1>3. ObservedInv'
  BY DEF MeasuresIInv, ObservedInv, Seen
<1>4. LatestInv'
  BY DEF MeasuresIInv, LatestInv, Latest, Matched
<1>5. CountInv'
  <2>1. PICK h, p, b : p \in Nat /\ b \in Nat /\ Dated(h, p, b)
    BY DEF MeasuresIInv, CountInv
  <2>2. Dated(h, p, b)'
    BY <2>1 DEF Dated, DatedQueue, DatedPending, DatedShown, Grows, Matched
  <2>3. source'.total <= counted'.all
    BY DEF MeasuresIInv, CountInv
  <2> QED
    BY <2>1, <2>2, <2>3 DEF CountInv
<1> QED
  BY <1>1, <1>2, <1>3, <1>4, <1>5 DEF MeasuresIInv

(* A server made anew has a registry that was never used before.             *)
LEMMA MeasuresControl ==
  ASSUME MeasuresIInv, NEW i, NEW binds \in BOOLEAN, ControlRuns(i, binds)
  PROVE  MeasuresIInv'
<1>1. SetEnabled(controls[i], binds)
      /\ UNCHANGED <<queued, pending, cache, flushing, source, counted, updateCalls>>
  BY DEF ControlRuns, flushVars
<1>2. CASE UNCHANGED <<server, registries>>
  BY <1>1, <1>2, MeasuresStay DEF measureVars
<1>3. CASE /\ registries' \in {registries, registries + 1}
           /\ server' = <<>> \/ /\ registries' = registries + 1
                                /\ server' = [address |-> controls[i].address,
                                              registry |-> registries', shown |-> Shown]
  <2> DEFINE anew == /\ DOMAIN server' = {"address", "registry", "shown"}
                     /\ server'.registry = registries' /\ server'.shown = Shown
                     /\ registries' = registries + 1
  <2>1. registries \in Nat /\ registries' \in Nat /\ registries <= registries'
        /\ cache.registry \in Nat /\ cache.registry <= registries
        /\ (flushing # <<>> => flushing[1] \in Nat /\ flushing[1] <= registries)
    BY <1>3 DEF MeasuresIInv, MeasuresTypeOK, RegistriesInv
  <2>2. server' = <<>> \/ anew
    BY <1>3
  <2> HIDE DEF anew
  <2>3. anew => cache.registry # server'.registry
    BY <2>1 DEF anew
  <2>4. ~Matched'
    BY <1>1, <2>2, <2>3 DEF Matched
  <2>5. MeasuresTypeOK'
    <3>1. server' # <<>> => /\ DOMAIN server' = {"address", "registry", "shown"}
                            /\ server'.registry \in Nat \ {0}
                            /\ server'.shown \in [gauge : Nat, counter : Nat, observed : Nat]
      BY <2>1, <2>2 DEF anew, Shown
    <3> QED
      BY <1>1, <2>1, <3>1 DEF MeasuresIInv, MeasuresTypeOK
  <2>6. RegistriesInv'
    <3>1. server' # <<>> => /\ server'.registry = registries'
                            /\ cache'.registry # server'.registry
                            /\ server'.shown = Shown
      BY <1>1, <2>2, <2>3 DEF anew
    <3>2. cache'.registry <= registries' /\ (flushing' # <<>> => flushing'[1] <= registries')
      BY <1>1, <2>1
    <3> QED
      BY <3>1, <3>2 DEF RegistriesInv
  <2>7. ObservedInv'
    <3>1. Seen \in Nat /\ Seen' \in Nat /\ Seen' <= Seen
      <4>1. Len(pending.histogram) \in Nat /\ pending' = pending
        BY <1>1 DEF MeasuresIInv, MeasuresTypeOK
      <4>2. (IF server' = <<>> THEN 0 ELSE server'.shown.observed) = 0
        BY <2>2 DEF anew, Shown
      <4>3. server # <<>> => server.shown.observed \in Nat
        BY DEF MeasuresIInv, MeasuresTypeOK
      <4> QED
        BY <4>1, <4>2, <4>3 DEF Seen
    <3>2. source.observed \in Nat /\ \A k \in 1..Len(queued) : queued[k].value \in Nat
      BY MeasuresTypes
    <3> QED
      BY <1>1, <3>1, <3>2 DEF MeasuresIInv, ObservedInv
  <2>8. LatestInv'
    BY <1>1, <2>4 DEF MeasuresIInv, LatestInv, Latest
  <2>9. CountInv'
    <3>1. PICK h, p, b : p \in Nat /\ b \in Nat /\ Dated(h, p, b)
      BY DEF MeasuresIInv, CountInv
    <3>2. Dated(h, p, b)'
      BY <1>1, <2>4, <3>1 DEF Dated, DatedQueue, DatedPending, DatedShown, Grows
    <3>3. source'.total <= counted'.all
      BY <1>1 DEF MeasuresIInv, CountInv
    <3> QED
      BY <3>1, <3>2, <3>3 DEF CountInv
  <2> QED
    BY <2>5, <2>6, <2>7, <2>8, <2>9 DEF MeasuresIInv
<1> QED
  BY <1>1, <1>2, <1>3 DEF SetEnabled

(* An update is queued behind the others.                                    *)
LEMMA QueueGrows ==
  ASSUME MeasuresIInv, NEW u \in [kind : Kinds, value : Nat], queued' = Append(queued, u)
  PROVE  /\ queued' \in Seq([kind : Kinds, value : Nat])
         /\ Len(queued') = Len(queued) + 1 /\ Len(queued) \in Nat
         /\ queued'[Len(queued) + 1] = u
         /\ \A k \in 1..Len(queued) : queued'[k] = queued[k]
         /\ \A k \in 1..Len(queued') : k \in 1..Len(queued) \/ k = Len(queued) + 1
<1>1. queued \in Seq([kind : Kinds, value : Nat])
  BY DEF MeasuresIInv, MeasuresTypeOK
<1> QED
  BY <1>1

(* A kind that is not the one added keeps its newest value; the one added has*)
(* it in the queue.                                                          *)
LEMMA LatestGrows ==
  ASSUME MeasuresIInv, NEW u \in [kind : Kinds, value : Nat], queued' = Append(queued, u),
         NEW waiting, NEW matched, NEW kind, NEW before, NEW now, NEW shown,
         Latest(queued, waiting, matched, before, shown, kind),
         (u.kind = kind /\ u.value = now) \/ (u.kind # kind /\ now = before)
  PROVE  Latest(queued', waiting, matched, now, shown, kind)
<1>1. /\ Len(queued') = Len(queued) + 1 /\ Len(queued) \in Nat
      /\ queued'[Len(queued) + 1] = u
      /\ \A k \in 1..Len(queued) : queued'[k] = queued[k]
  BY QueueGrows
<1>2. ASSUME NEW i \in 1..Len(queued'), queued'[i].kind = kind,
             \A j \in 1..Len(queued') : i < j => queued'[j].kind # kind
      PROVE  queued'[i].value = now
  <2>1. CASE i = Len(queued) + 1
    BY <1>1, <1>2, <2>1
  <2>2. CASE i # Len(queued) + 1
    <3>1. i \in 1..Len(queued) /\ Len(queued) + 1 \in 1..Len(queued') /\ i < Len(queued) + 1
      BY <1>1, <2>2
    <3>2. u.kind # kind /\ now = before
      BY <1>1, <1>2, <3>1
    <3>3. \A j \in 1..Len(queued) : i < j => queued[j].kind # kind
      BY <1>1, <1>2
    <3>4. queued[i].kind = kind /\ queued'[i] = queued[i]
      BY <1>1, <1>2, <3>1
    <3>5. queued[i].value = before
      BY <3>1, <3>3, <3>4 DEF Latest
    <3> QED
      BY <3>2, <3>4, <3>5
  <2> QED
    BY <2>1, <2>2
<1>3. ASSUME \A i \in 1..Len(queued') : queued'[i].kind # kind
      PROVE  /\ waiting # <<>> => waiting[1] = now
             /\ waiting = <<>> /\ matched => shown \in {0, now}
  <2>1. u.kind # kind /\ now = before
    BY <1>1, <1>3
  <2>2. \A i \in 1..Len(queued) : queued[i].kind # kind
    BY <1>1, <1>3
  <2> QED
    BY <2>1, <2>2 DEF Latest
<1> QED
  BY <1>2, <1>3 DEF Latest

(* A later total in a later count.                                           *)
LEMMA GrowsOn ==
  ASSUME NEW v \in Nat, NEW h \in Nat, NEW w \in Nat, NEW k \in Nat,
         Grows(v, h, w, k, counted.restarts)
  PROVE  Grows(v, h, w + 1, k + 1, counted.restarts)
BY DEF Grows, Increment

(* What is measured changes, and an update is queued.                        *)
LEMMA MeasuresGrow ==
  ASSUME MeasuresIInv, SetGauge \/ SetCounter \/ ObserveDuration
  PROVE  MeasuresIInv'
<1>1. PICK u : /\ queued' = Append(queued, u) /\ u \in [kind : Kinds, value : Nat]
               /\ UNCHANGED <<server, registries, pending, cache, flushing>>
               /\ updateCalls' = updateCalls + 1
               /\ \/ /\ u.kind = "gauge" /\ u.value = updateCalls + 1 /\ counted' = counted
                     /\ source' = [source EXCEPT !.gauge = updateCalls + 1]
                  \/ /\ u.kind = "counter" /\ u.value = source.total + 1
                     /\ source' = [source EXCEPT !.total = source.total + 1]
                     /\ counted' = [counted EXCEPT !.all = counted.all + 1]
                  \/ /\ u.kind = "histogram" /\ u.value = source.observed + 1
                     /\ counted' = counted
                     /\ source' = [source EXCEPT !.observed = source.observed + 1]
  <2>1. /\ updateCalls + 1 \in Nat /\ source.total + 1 \in Nat /\ source.observed + 1 \in Nat
    <3>1. updateCalls \in Nat
      BY DEF MeasuresIInv, MeasuresTypeOK
    <3>2. source.total \in Nat /\ source.observed \in Nat
      BY MeasuresTypes
    <3> QED
      BY <3>1, <3>2
  <2>2. CASE SetGauge
    <3> DEFINE u == [kind |-> "gauge", value |-> updateCalls + 1]
    <3>1. u \in [kind : Kinds, value : Nat] /\ queued' = Append(queued, u)
          /\ u.kind = "gauge" /\ u.value = updateCalls + 1
      BY <2>1, <2>2 DEF Kinds, SetGauge, Enqueue
    <3> QED
      BY <2>2, <3>1 DEF SetGauge, Enqueue, flushVars
  <2>3. CASE SetCounter
    <3> DEFINE u == [kind |-> "counter", value |-> source.total + 1]
    <3>1. u \in [kind : Kinds, value : Nat] /\ queued' = Append(queued, u)
          /\ u.kind = "counter" /\ u.value = source.total + 1
      BY <2>1, <2>3 DEF Kinds, SetCounter, Enqueue
    <3> QED
      BY <2>3, <3>1 DEF SetCounter, Enqueue, flushVars
  <2>4. CASE ObserveDuration
    <3> DEFINE u == [kind |-> "histogram", value |-> source.observed + 1]
    <3>1. u \in [kind : Kinds, value : Nat] /\ queued' = Append(queued, u)
          /\ u.kind = "histogram" /\ u.value = source.observed + 1
      BY <2>1, <2>4 DEF Kinds, ObserveDuration, Enqueue
    <3> QED
      BY <2>4, <3>1 DEF ObserveDuration, Enqueue, flushVars
  <2> QED
    BY <2>2, <2>3, <2>4
<1>2. /\ queued' \in Seq([kind : Kinds, value : Nat])
      /\ Len(queued') = Len(queued) + 1 /\ Len(queued) \in Nat
      /\ queued'[Len(queued) + 1] = u
      /\ \A k \in 1..Len(queued) : queued'[k] = queued[k]
      /\ \A k \in 1..Len(queued') : k \in 1..Len(queued) \/ k = Len(queued) + 1
  BY <1>1, QueueGrows
<1>3. /\ \A k \in 1..Len(queued) : queued[k].kind \in Kinds /\ queued[k].value \in Nat
      /\ source.gauge \in Nat /\ source.total \in Nat /\ source.observed \in Nat
      /\ counted.all \in Nat /\ counted.restarts \in Nat /\ Seen \in Nat
      /\ cache.registry \in Nat /\ cache.total \in Nat
      /\ pending.counter # <<>> => pending.counter[1] \in Nat
  BY MeasuresTypes
<1>4. /\ DOMAIN source = {"gauge", "total", "observed"} /\ DOMAIN counted = {"all", "restarts"}
      /\ updateCalls \in Nat
      /\ source \in [gauge : Nat, total : Nat, observed : Nat]
      /\ counted \in [all : Nat, restarts : Nat]
  BY DEF MeasuresIInv, MeasuresTypeOK
<1>5. /\ source' \in [gauge : Nat, total : Nat, observed : Nat]
      /\ counted' \in [all : Nat, restarts : Nat] /\ counted'.restarts = counted.restarts
      /\ source'.gauge = IF u.kind = "gauge" THEN u.value ELSE source.gauge
      /\ source'.total = IF u.kind = "counter" THEN source.total + 1 ELSE source.total
      /\ counted'.all = IF u.kind = "counter" THEN counted.all + 1 ELSE counted.all
      /\ source'.observed = IF u.kind = "histogram" THEN source.observed + 1 ELSE source.observed
      /\ (u.kind = "counter" => u.value = source.total + 1)
      /\ (u.kind = "histogram" => u.value = source.observed + 1)
  <2>1. CASE u.kind = "gauge"
    <3>1. u.value \in Nat /\ source' = [source EXCEPT !.gauge = u.value] /\ counted' = counted
      BY <1>1, <2>1
    <3> QED
      BY <1>4, <2>1, <3>1
  <2>2. CASE u.kind = "counter"
    <3>1. /\ u.value = source.total + 1 /\ source.total + 1 \in Nat /\ counted.all + 1 \in Nat
          /\ source' = [source EXCEPT !.total = source.total + 1]
          /\ counted' = [counted EXCEPT !.all = counted.all + 1]
      BY <1>1, <1>3, <2>2
    <3> QED
      BY <1>4, <2>2, <3>1
  <2>3. CASE u.kind = "histogram"
    <3>1. /\ u.value = source.observed + 1 /\ source.observed + 1 \in Nat /\ counted' = counted
          /\ source' = [source EXCEPT !.observed = source.observed + 1]
      BY <1>1, <1>3, <2>3
    <3> QED
      BY <1>4, <2>3, <3>1
  <2> QED
    BY <1>1, <2>1, <2>2, <2>3
<1>6. Matched' = Matched /\ Seen' = Seen
  BY <1>1 DEF Matched, Seen
<1>7. MeasuresTypeOK'
  <2>1. updateCalls' \in Nat
    BY <1>1, <1>4
  <2> QED
    BY <1>1, <1>2, <1>5, <2>1 DEF MeasuresIInv, MeasuresTypeOK
<1>8. RegistriesInv'
  BY <1>1 DEF MeasuresIInv, RegistriesInv
<1>9. ObservedInv'
  <2> DEFINE n == Len(queued) + 1
  <2>1. Seen' <= source'.observed /\ source.observed <= source'.observed
    BY <1>3, <1>5, <1>6 DEF MeasuresIInv, ObservedInv
  <2>2. ASSUME NEW i \in 1..Len(queued'), queued'[i].kind = "histogram"
        PROVE  Seen' < queued'[i].value /\ queued'[i].value <= source'.observed
    <3>1. CASE i = n
      <4>1. /\ queued'[i].value = source.observed + 1 /\ source'.observed = source.observed + 1
            /\ Seen <= source.observed
        BY <1>2, <1>5, <2>2, <3>1 DEF MeasuresIInv, ObservedInv
      <4> QED
        BY <1>3, <1>6, <4>1
    <3>2. CASE i \in 1..Len(queued)
      <4>1. queued'[i] = queued[i] /\ queued[i].value \in Nat
        BY <1>2, <1>3, <3>2
      <4>2. Seen < queued[i].value /\ queued[i].value <= source.observed
        BY <2>2, <3>2, <4>1 DEF MeasuresIInv, ObservedInv
      <4> QED
        BY <1>3, <1>5, <1>6, <2>1, <4>1, <4>2
    <3> QED
      BY <1>2, <3>1, <3>2
  <2>3. ASSUME NEW i \in 1..Len(queued'), queued'[i].kind = "histogram",
               NEW j \in 1..Len(queued'), i < j, queued'[j].kind = "histogram"
        PROVE  queued'[i].value < queued'[j].value
    <3> HIDE DEF n
    <3>1. i \in 1..Len(queued) /\ queued'[i] = queued[i] /\ queued[i].value \in Nat
      <4>1. i \in 1..Len(queued)
        BY <1>2, <2>3
      <4> QED
        BY <1>2, <1>3, <4>1
    <3> USE DEF n
    <3>2. CASE j = n
      <4>1. queued[i].value <= source.observed
        BY <2>3, <3>1 DEF MeasuresIInv, ObservedInv
      <4>2. queued'[j].value = source.observed + 1
        BY <1>2, <1>5, <2>3, <3>2
      <4> QED
        BY <1>3, <3>1, <4>1, <4>2
    <3>3. CASE j \in 1..Len(queued)
      <4>1. queued'[j] = queued[j]
        BY <1>2, <3>3
      <4> QED
        BY <2>3, <3>1, <3>3, <4>1 DEF MeasuresIInv, ObservedInv
    <3> QED
      BY <1>2, <3>2, <3>3
  <2> QED
    BY <2>1, <2>2, <2>3 DEF ObservedInv
<1>10. LatestInv'
  <2>1. /\ Latest(queued, pending.gauge, Matched, source.gauge, server.shown.gauge, "gauge")
        /\ counted.restarts = 0 =>
             /\ Latest(queued, pending.counter, Matched, source.total, server.shown.counter,
                       "counter")
             /\ Matched => server.shown.counter = cache.total
    BY DEF MeasuresIInv, LatestInv
  <2>2. Latest(queued', pending'.gauge, Matched', source'.gauge, server'.shown.gauge, "gauge")
    <3>1. \/ u.kind = "gauge" /\ u.value = source'.gauge
          \/ u.kind # "gauge" /\ source'.gauge = source.gauge
      BY <1>5
    <3>2. Latest(queued', pending.gauge, Matched, source'.gauge, server.shown.gauge, "gauge")
      BY <1>1, <2>1, <3>1, LatestGrows
    <3> QED
      BY <1>1, <1>6, <3>2
  <2>3. ASSUME counted.restarts = 0
        PROVE  Latest(queued', pending'.counter, Matched', source'.total,
                      server'.shown.counter, "counter")
    <3>1. \/ u.kind = "counter" /\ u.value = source'.total
          \/ u.kind # "counter" /\ source'.total = source.total
      BY <1>5
    <3>2. Latest(queued', pending.counter, Matched, source'.total, server.shown.counter, "counter")
      BY <1>1, <2>1, <2>3, <3>1, LatestGrows
    <3> QED
      BY <1>1, <1>6, <3>2
  <2> QED
    BY <1>1, <1>5, <1>6, <2>1, <2>2, <2>3 DEF LatestInv
<1>11. CountInv'
  <2>1. PICK h, p, b : p \in Nat /\ b \in Nat /\ Dated(h, p, b)
    BY DEF MeasuresIInv, CountInv
  <2> DEFINE n == Len(queued) + 1
  <2>2. PICK g : g[n] = counted.all + 1 /\ \A i \in 1..Len(queued) : g[i] = h[i]
    <3> DEFINE f == [i \in 1..n |-> IF i = n THEN counted.all + 1 ELSE h[i]]
    <3>1. f[n] = counted.all + 1 /\ \A i \in 1..Len(queued) : f[i] = h[i]
      BY <1>2
    <3> QED
      BY <3>1
  <2>3. source'.total <= counted'.all /\ source'.total \in Nat /\ counted'.all \in Nat
        /\ source.total <= counted.all
    BY <1>3, <1>5 DEF MeasuresIInv, CountInv
  <2>4. ASSUME NEW v \in Nat, NEW k \in Nat,
               Grows(v, k, source.total, counted.all, counted.restarts)
        PROVE  Grows(v, k, source'.total, counted'.all, counted.restarts)
    <3>1. CASE u.kind = "counter"
      <4>1. Grows(v, k, source.total + 1, counted.all + 1, counted.restarts)
        BY <1>3, <2>4, GrowsOn
      <4> QED
        BY <1>5, <3>1, <4>1 DEF Grows
    <3>2. CASE u.kind # "counter"
      BY <1>5, <2>4, <3>2 DEF Grows
    <3> QED
      BY <3>1, <3>2
  <2>6. ASSUME NEW i \in 1..Len(queued), queued[i].kind = "counter"
        PROVE  /\ queued'[i] = queued[i] /\ queued[i].value \in Nat
               /\ g[i] = h[i] /\ h[i] \in Nat /\ queued[i].value <= h[i]
               /\ Grows(queued[i].value, h[i], source.total, counted.all, counted.restarts)
    BY <1>2, <1>3, <2>1, <2>2, <2>6 DEF Dated, DatedQueue, DatedPending, DatedShown
  <2>7. n \in 1..Len(queued') /\ queued'[n] = u
    BY <1>2
  <2>8. ASSUME u.kind = "counter"
        PROVE  /\ queued'[n].value = source'.total /\ g[n] = counted'.all
               /\ Grows(queued'[n].value, g[n], source'.total, counted'.all, counted.restarts)
    <3>1. queued'[n].value = source'.total /\ g[n] = counted'.all
      BY <1>5, <2>2, <2>7, <2>8
    <3> QED
      BY <2>3, <3>1 DEF Grows, Increment
  <2>9. ASSUME NEW i \in 1..Len(queued'), queued'[i].kind = "counter"
        PROVE  /\ g[i] \in Nat /\ queued'[i].value <= g[i]
               /\ Grows(queued'[i].value, g[i], source'.total, counted'.all, counted.restarts)
    <3>1. CASE i = n
      BY <2>3, <2>7, <2>8, <2>9, <3>1
    <3>2. CASE i \in 1..Len(queued)
      <4>1. queued[i].kind = "counter"
        BY <1>2, <2>9, <3>2
      <4> QED
        BY <2>4, <2>6, <3>2, <4>1
    <3> QED
      BY <1>2, <3>1, <3>2
  <2>10. ASSUME NEW i \in 1..Len(queued'), queued'[i].kind = "counter",
                NEW j \in 1..Len(queued'), i < j, queued'[j].kind = "counter"
         PROVE  Grows(queued'[i].value, g[i], queued'[j].value, g[j], counted.restarts)
    <3>1. i \in 1..Len(queued) /\ queued[i].kind = "counter" /\ queued'[i] = queued[i]
      BY <1>2, <2>10
    <3>2. CASE j = n
      <4>1. queued'[j].value = source'.total /\ g[j] = counted'.all
        BY <2>7, <2>8, <2>10, <3>2
      <4>2. Grows(queued'[i].value, g[i], source'.total, counted'.all, counted.restarts)
        BY <2>9, <2>10
      <4> QED
        BY <4>1, <4>2
    <3>3. CASE j \in 1..Len(queued)
      <4>1. queued[j].kind = "counter" /\ queued'[j] = queued[j] /\ g[j] = h[j]
        BY <1>2, <2>2, <2>10, <3>3
      <4>2. Grows(queued[i].value, h[i], queued[j].value, h[j], counted.restarts)
        BY <2>1, <2>10, <3>1, <3>3, <4>1 DEF Dated, DatedQueue, DatedPending, DatedShown
      <4>3. Grows(queued[i].value, h[i], queued[j].value, h[j], counted.restarts)
        BY <1>5, <4>2 DEF Grows
      <4> QED
        BY <2>6, <3>1, <4>1, <4>3 DEF Grows
    <3> QED
      BY <1>2, <3>2, <3>3
  <2>11. ASSUME pending.counter # <<>>
         PROVE  /\ pending.counter[1] <= p
                /\ Grows(pending.counter[1], p, source'.total, counted'.all, counted.restarts)
                /\ Matched => Grows(cache.total, b, pending.counter[1], p, counted.restarts)
    <3>1. /\ pending.counter[1] <= p /\ pending.counter[1] \in Nat
          /\ Grows(pending.counter[1], p, source.total, counted.all, counted.restarts)
          /\ Matched => Grows(cache.total, b, pending.counter[1], p, counted.restarts)
      BY <1>3, <2>1, <2>11 DEF Dated, DatedQueue, DatedPending, DatedShown
    <3>2. Grows(pending.counter[1], p, source'.total, counted'.all, counted.restarts)
      BY <2>1, <2>4, <3>1
    <3> QED
      BY <1>5, <3>1, <3>2 DEF Grows
  <2>12. ASSUME Matched
         PROVE  /\ server.shown.counter <= b
                /\ Grows(cache.total, b, source'.total, counted'.all, counted.restarts)
    <3>1. /\ server.shown.counter <= b
          /\ Grows(cache.total, b, source.total, counted.all, counted.restarts)
      BY <2>1, <2>12 DEF Dated, DatedQueue, DatedPending, DatedShown
    <3> QED
      BY <1>3, <2>1, <2>4, <3>1
  <2>13. ASSUME NEW v \in Nat, NEW k \in Nat,
                Grows(v, k, source'.total, counted'.all, counted.restarts),
                \A j \in 1..Len(queued) : queued[j].kind = "counter" =>
                  Grows(v, k, queued[j].value, h[j], counted.restarts)
         PROVE  \A j \in 1..Len(queued') : queued'[j].kind = "counter" =>
                  Grows(v, k, queued'[j].value, g[j], counted.restarts)
    <3> SUFFICES ASSUME NEW j \in 1..Len(queued'), queued'[j].kind = "counter"
                 PROVE  Grows(v, k, queued'[j].value, g[j], counted.restarts)
      OBVIOUS
    <3>1. CASE j = n
      <4>1. queued'[j].value = source'.total /\ g[j] = counted'.all
        BY <2>7, <2>8, <3>1
      <4> QED
        BY <2>13, <4>1
    <3>2. CASE j \in 1..Len(queued)
      <4>1. queued[j].kind = "counter" /\ queued'[j] = queued[j] /\ g[j] = h[j]
        BY <1>2, <2>2, <3>2
      <4>2. Grows(v, k, queued[j].value, h[j], counted.restarts)
        BY <2>13, <3>2, <4>1
      <4> QED
        BY <1>5, <4>1, <4>2 DEF Grows
    <3> QED
      BY <1>2, <3>1, <3>2
  <2>14. Dated(g, p, b)'
    <3>1. ASSUME NEW i \in 1..Len(queued'), queued'[i].kind = "counter"
          PROVE  /\ pending'.counter # <<>> =>
                      Grows(pending'.counter[1], p, queued'[i].value, g[i], counted.restarts)
                 /\ Matched' => Grows(cache'.total, b, queued'[i].value, g[i], counted.restarts)
      <4>1. ASSUME pending.counter # <<>>
            PROVE  Grows(pending.counter[1], p, queued'[i].value, g[i], counted.restarts)
        <5>1. \A j \in 1..Len(queued) : queued[j].kind = "counter" =>
                Grows(pending.counter[1], p, queued[j].value, h[j], counted.restarts)
          BY <2>1, <4>1 DEF Dated, DatedQueue, DatedPending, DatedShown
        <5>2. \A j \in 1..Len(queued') : queued'[j].kind = "counter" =>
                Grows(pending.counter[1], p, queued'[j].value, g[j], counted.restarts)
          BY <1>3, <2>1, <2>11, <2>13, <4>1, <5>1
        <5> QED
          BY <3>1, <5>2
      <4>2. ASSUME Matched
            PROVE  Grows(cache.total, b, queued'[i].value, g[i], counted.restarts)
        <5>1. \A j \in 1..Len(queued) : queued[j].kind = "counter" =>
                Grows(cache.total, b, queued[j].value, h[j], counted.restarts)
          BY <2>1, <4>2 DEF Dated, DatedQueue, DatedPending, DatedShown
        <5>2. \A j \in 1..Len(queued') : queued'[j].kind = "counter" =>
                Grows(cache.total, b, queued'[j].value, g[j], counted.restarts)
          BY <1>3, <2>1, <2>12, <2>13, <4>2, <5>1
        <5> QED
          BY <3>1, <5>2
      <4> QED
        BY <1>1, <1>6, <4>1, <4>2
    <3>2. pending' = pending /\ Matched' = Matched /\ cache' = cache /\ server' = server
      BY <1>1, <1>6
    <3> QED
      <4>1. counted'.restarts = counted.restarts
        BY <1>5
      <4>2. \A i \in 1..Len(queued') : queued'[i].kind = "counter" =>
              /\ g[i] \in Nat /\ queued'[i].value <= g[i]
              /\ Grows(queued'[i].value, g[i], source'.total, counted'.all, counted'.restarts)
              /\ \A j \in 1..Len(queued') : i < j /\ queued'[j].kind = "counter" =>
                   Grows(queued'[i].value, g[i], queued'[j].value, g[j], counted'.restarts)
              /\ pending'.counter # <<>> =>
                   Grows(pending'.counter[1], p, queued'[i].value, g[i], counted'.restarts)
              /\ Matched' => Grows(cache'.total, b, queued'[i].value, g[i], counted'.restarts)
        BY <2>9, <2>10, <3>1, <4>1
      <4>3. pending'.counter # <<>> =>
              /\ pending'.counter[1] <= p
              /\ Grows(pending'.counter[1], p, source'.total, counted'.all, counted'.restarts)
              /\ Matched' => Grows(cache'.total, b, pending'.counter[1], p, counted'.restarts)
        BY <2>11, <3>2, <4>1
      <4>4. Matched' => /\ server'.shown.counter <= b
                        /\ Grows(cache'.total, b, source'.total, counted'.all, counted'.restarts)
        BY <2>12, <3>2, <4>1
      <4> QED
        <5>1. DatedQueue(g, p, b)'
          BY <4>2 DEF DatedQueue
        <5>2. DatedPending(p, b)' /\ DatedShown(b)'
          BY <4>3, <4>4 DEF DatedPending, DatedShown
        <5> QED
          BY <5>1, <5>2 DEF Dated
  <2> QED
    BY <2>1, <2>3, <2>14 DEF CountInv
<1> QED
  BY <1>7, <1>8, <1>9, <1>10, <1>11 DEF MeasuresIInv

(* A restart is the end of counts that only grow.                            *)
LEMMA MeasuresRestart == ASSUME MeasuresIInv, RestartCount PROVE MeasuresIInv'
<1>1. /\ UNCHANGED <<server, registries, queued, pending, cache, flushing, updateCalls>>
      /\ counted' = [counted EXCEPT !.restarts = counted.restarts + 1]
      /\ source' = [source EXCEPT !.total = 0]
  BY DEF RestartCount, flushVars
<1>2. /\ Len(queued) \in Nat /\ cache.total \in Nat
      /\ \A k \in 1..Len(queued) : queued[k].kind \in Kinds /\ queued[k].value \in Nat
      /\ counted.all \in Nat /\ counted.restarts \in Nat
      /\ pending.counter # <<>> => pending.counter[1] \in Nat
  BY MeasuresTypes
<1>3. /\ source \in [gauge : Nat, total : Nat, observed : Nat]
      /\ counted \in [all : Nat, restarts : Nat]
  BY DEF MeasuresIInv, MeasuresTypeOK
<1>4. /\ source' \in [gauge : Nat, total : Nat, observed : Nat]
      /\ counted' \in [all : Nat, restarts : Nat]
      /\ source'.gauge = source.gauge /\ source'.observed = source.observed /\ source'.total = 0
      /\ counted'.all = counted.all /\ counted'.restarts # 0
  BY <1>1, <1>2, <1>3
<1>5. Matched' = Matched /\ Seen' = Seen
  BY <1>1 DEF Matched, Seen
<1>6. MeasuresTypeOK'
  BY <1>1, <1>4 DEF MeasuresIInv, MeasuresTypeOK
<1>7. RegistriesInv'
  BY <1>1 DEF MeasuresIInv, RegistriesInv
<1>8. ObservedInv'
  BY <1>1, <1>4, <1>5 DEF MeasuresIInv, ObservedInv
<1>9. LatestInv'
  BY <1>1, <1>4, <1>5 DEF MeasuresIInv, LatestInv
<1>10. CountInv'
  <2>1. PICK h, p, b : p \in Nat /\ b \in Nat /\ Dated(h, p, b)
    BY DEF MeasuresIInv, CountInv
  <2>2. ASSUME NEW v \in Nat, NEW k \in Nat,
               Grows(v, k, source.total, counted.all, counted.restarts)
        PROVE  Grows(v, k, 0, counted.all, counted'.restarts)
    <3>1. source.total \in Nat
      BY <1>3
    <3>2. k <= counted.all
      BY <1>2, <2>2, <3>1 DEF Grows, Increment
    <3>3. k + Increment(0, v) = k
      BY DEF Increment
    <3> QED
      BY <1>4, <3>2, <3>3 DEF Grows
  <2>3. ASSUME NEW v, NEW k, NEW w, NEW m, Grows(v, k, w, m, counted.restarts)
        PROVE  Grows(v, k, w, m, counted'.restarts)
    BY <1>4, <2>3 DEF Grows
  <2>4. DatedQueue(h, p, b)'
    <3>1. ASSUME NEW i \in 1..Len(queued), queued[i].kind = "counter"
          PROVE  /\ h[i] \in Nat /\ queued[i].value <= h[i]
                 /\ Grows(queued[i].value, h[i], 0, counted.all, counted'.restarts)
                 /\ \A j \in 1..Len(queued) : i < j /\ queued[j].kind = "counter" =>
                      Grows(queued[i].value, h[i], queued[j].value, h[j], counted'.restarts)
                 /\ pending.counter # <<>> =>
                      Grows(pending.counter[1], p, queued[i].value, h[i], counted'.restarts)
                 /\ Matched => Grows(cache.total, b, queued[i].value, h[i], counted'.restarts)
      <4>1. /\ h[i] \in Nat /\ queued[i].value <= h[i]
            /\ Grows(queued[i].value, h[i], source.total, counted.all, counted.restarts)
            /\ \A j \in 1..Len(queued) : i < j /\ queued[j].kind = "counter" =>
                 Grows(queued[i].value, h[i], queued[j].value, h[j], counted.restarts)
            /\ pending.counter # <<>> =>
                 Grows(pending.counter[1], p, queued[i].value, h[i], counted.restarts)
            /\ Matched => Grows(cache.total, b, queued[i].value, h[i], counted.restarts)
        BY <2>1, <3>1 DEF Dated, DatedQueue
      <4>2. Grows(queued[i].value, h[i], 0, counted.all, counted'.restarts)
        BY <1>2, <2>2, <4>1
      <4> QED
        BY <2>3, <4>1, <4>2
    <3> QED
      BY <1>1, <1>4, <1>5, <3>1 DEF DatedQueue
  <2>5. DatedPending(p, b)'
    <3>1. ASSUME pending.counter # <<>>
          PROVE  /\ pending.counter[1] <= p
                 /\ Grows(pending.counter[1], p, 0, counted.all, counted'.restarts)
                 /\ Matched => Grows(cache.total, b, pending.counter[1], p, counted'.restarts)
      <4>1. /\ pending.counter[1] <= p
            /\ Grows(pending.counter[1], p, source.total, counted.all, counted.restarts)
            /\ Matched => Grows(cache.total, b, pending.counter[1], p, counted.restarts)
        BY <2>1, <3>1 DEF Dated, DatedPending
      <4> QED
        BY <1>2, <2>1, <2>2, <2>3, <3>1, <4>1
    <3> QED
      BY <1>1, <1>4, <1>5, <3>1 DEF DatedPending
  <2>6. DatedShown(b)'
    <3>1. ASSUME Matched
          PROVE  /\ server.shown.counter <= b
                 /\ Grows(cache.total, b, 0, counted.all, counted'.restarts)
      <4>1. /\ server.shown.counter <= b
            /\ Grows(cache.total, b, source.total, counted.all, counted.restarts)
        BY <2>1, <3>1 DEF Dated, DatedShown
      <4> QED
        BY <1>2, <2>1, <2>2, <4>1
    <3> QED
      BY <1>1, <1>4, <1>5, <3>1 DEF DatedShown
  <2>7. source'.total <= counted'.all
    BY <1>2, <1>4
  <2> QED
    BY <2>1, <2>4, <2>5, <2>6, <2>7 DEF CountInv, Dated
<1> QED
  BY <1>6, <1>7, <1>8, <1>9, <1>10 DEF MeasuresIInv

(* The oldest update leaves the queue.                                       *)
LEMMA QueueShrinks ==
  ASSUME MeasuresIInv, queued # <<>>, queued' = Tail(queued)
  PROVE  /\ queued' \in Seq([kind : Kinds, value : Nat])
         /\ Len(queued) \in Nat /\ 1 \in 1..Len(queued) /\ Len(queued') = Len(queued) - 1
         /\ \A k \in 1..Len(queued') : k + 1 \in 1..Len(queued) /\ queued'[k] = queued[k + 1]
         /\ \A k \in 1..Len(queued) : k = 1 \/ k - 1 \in 1..Len(queued')
         /\ Head(queued) = queued[1] /\ queued[1] \in [kind : Kinds, value : Nat]
<1> DEFINE U == [kind : Kinds, value : Nat]
<1>1. queued \in Seq(U)
  BY DEF MeasuresIInv, MeasuresTypeOK
<1> HIDE DEF U
<1>2. /\ queued' \in Seq(U)
      /\ Len(queued) \in Nat /\ Len(queued) # 0 /\ Len(queued') = Len(queued) - 1
      /\ \A k \in 1..Len(queued') : k + 1 \in 1..Len(queued) /\ queued'[k] = queued[k + 1]
      /\ Head(queued) = queued[1]
  BY <1>1
<1>3. 1 \in 1..Len(queued) /\ \A k \in 1..Len(queued) : k = 1 \/ k - 1 \in 1..Len(queued')
  BY <1>2
<1>4. queued[1] \in U
  BY <1>1, <1>3
<1> QED
  BY <1>2, <1>3, <1>4 DEF U

(* An update that is recorded is still the newest.                           *)
LEMMA LatestRecorded ==
  ASSUME MeasuresIInv, queued # <<>>, queued' = Tail(queued),
         NEW waiting, NEW later, NEW matched, NEW kind, NEW now, NEW shown,
         Latest(queued, waiting, matched, now, shown, kind),
         IF queued[1].kind = kind THEN later = <<queued[1].value>> ELSE later = waiting
  PROVE  Latest(queued', later, matched, now, shown, kind)
<1>1. /\ Len(queued) \in Nat /\ 1 \in 1..Len(queued) /\ Len(queued') = Len(queued) - 1
      /\ \A k \in 1..Len(queued') : k + 1 \in 1..Len(queued) /\ queued'[k] = queued[k + 1]
      /\ \A k \in 1..Len(queued) : k = 1 \/ k - 1 \in 1..Len(queued')
  BY QueueShrinks
<1>2. ASSUME NEW i \in 1..Len(queued'), queued'[i].kind = kind,
             \A j \in 1..Len(queued') : i < j => queued'[j].kind # kind
      PROVE  queued'[i].value = now
  <2>1. i + 1 \in 1..Len(queued) /\ queued'[i] = queued[i + 1]
    BY <1>1
  <2>2. ASSUME NEW j \in 1..Len(queued), i + 1 < j
        PROVE  queued[j].kind # kind
    <3>1. j - 1 \in 1..Len(queued') /\ i < j - 1
      BY <1>1, <2>2
    <3>2. queued'[j - 1] = queued[(j - 1) + 1] /\ (j - 1) + 1 = j
      BY <1>1, <3>1
    <3> QED
      BY <1>2, <3>1, <3>2
  <2> QED
    BY <1>2, <2>1, <2>2 DEF Latest
<1>3. ASSUME \A i \in 1..Len(queued') : queued'[i].kind # kind
      PROVE  /\ later # <<>> => later[1] = now
             /\ later = <<>> /\ matched => shown \in {0, now}
  <2>1. ASSUME NEW j \in 1..Len(queued), j # 1
        PROVE  queued[j].kind # kind
    <3>1. j - 1 \in 1..Len(queued')
      BY <1>1, <2>1
    <3>2. queued'[j - 1] = queued[(j - 1) + 1] /\ (j - 1) + 1 = j
      BY <1>1, <3>1
    <3> QED
      BY <1>3, <3>1, <3>2
  <2>2. CASE queued[1].kind = kind
    <3>1. \A j \in 1..Len(queued) : 1 < j => queued[j].kind # kind
      BY <2>1
    <3>2. queued[1].value = now
      BY <1>1, <2>2, <3>1 DEF Latest
    <3> QED
      BY <2>2, <3>2
  <2>3. CASE queued[1].kind # kind
    <3>1. \A j \in 1..Len(queued) : queued[j].kind # kind
      BY <2>1, <2>3
    <3> QED
      BY <2>3, <3>1 DEF Latest
  <2> QED
    BY <2>2, <2>3
<1> QED
  BY <1>2, <1>3 DEF Latest

(* Recording moves an update on.                                             *)
LEMMA MeasuresRecord == ASSUME MeasuresIInv, Record PROVE MeasuresIInv'
<1> DEFINE u == queued[1]
<1>1. /\ queued # <<>> /\ queued' = Tail(queued) /\ flushing = <<>>
      /\ UNCHANGED <<server, registries, cache, flushing, source, counted, updateCalls>>
  BY DEF Record
<1>2. /\ queued' \in Seq([kind : Kinds, value : Nat])
      /\ Len(queued) \in Nat /\ 1 \in 1..Len(queued) /\ Len(queued') = Len(queued) - 1
      /\ \A k \in 1..Len(queued') : k + 1 \in 1..Len(queued) /\ queued'[k] = queued[k + 1]
      /\ \A k \in 1..Len(queued) : k = 1 \/ k - 1 \in 1..Len(queued')
      /\ Head(queued) = u /\ u \in [kind : Kinds, value : Nat]
  BY <1>1, QueueShrinks
<1>3. pending' = [pending EXCEPT ![u.kind] =
                    IF u.kind = "histogram" THEN Append(pending[u.kind], u.value) ELSE <<u.value>>]
  BY <1>2 DEF Record
<1>4. /\ pending \in [gauge : Waiting, counter : Waiting, histogram : Seq(Nat)]
      /\ u.kind \in Kinds /\ u.value \in Nat
  BY <1>2 DEF MeasuresIInv, MeasuresTypeOK
<1> HIDE DEF u
<1>5. /\ pending'.gauge = IF u.kind = "gauge" THEN <<u.value>> ELSE pending.gauge
      /\ pending'.counter = IF u.kind = "counter" THEN <<u.value>> ELSE pending.counter
      /\ pending'.histogram = IF u.kind = "histogram" THEN Append(pending.histogram, u.value)
                              ELSE pending.histogram
      /\ pending' \in [gauge : Waiting, counter : Waiting, histogram : Seq(Nat)]
  <2>1. <<u.value>> \in Waiting
    BY <1>4 DEF Waiting
  <2>2. Append(pending.histogram, u.value) \in Seq(Nat)
    BY <1>4
  <2>3. CASE u.kind = "gauge"
    BY <1>3, <1>4, <2>1, <2>3
  <2>4. CASE u.kind = "counter"
    BY <1>3, <1>4, <2>1, <2>4
  <2>5. CASE u.kind = "histogram"
    BY <1>3, <1>4, <2>2, <2>5
  <2> QED
    BY <1>4, <2>3, <2>4, <2>5 DEF Kinds
<1>6. /\ \A k \in 1..Len(queued) : queued[k].kind \in Kinds /\ queued[k].value \in Nat
      /\ source.observed \in Nat /\ Seen \in Nat
  BY MeasuresTypes
<1>7. Matched' = Matched
  BY <1>1 DEF Matched
<1>8. Seen' = IF u.kind = "histogram" THEN Seen + 1 ELSE Seen
  <2>1. Len(pending.histogram) \in Nat
        /\ Len(Append(pending.histogram, u.value)) = Len(pending.histogram) + 1
    BY <1>4
  <2>2. (IF server = <<>> THEN 0 ELSE server.shown.observed) \in Nat
    BY DEF MeasuresIInv, MeasuresTypeOK
  <2>3. Len(pending'.histogram) = IF u.kind = "histogram" THEN Len(pending.histogram) + 1
                                  ELSE Len(pending.histogram)
    BY <1>5, <2>1
  <2> DEFINE served == IF server = <<>> THEN 0 ELSE server.shown.observed
  <2>4. Seen = served + Len(pending.histogram) /\ Seen' = served + Len(pending'.histogram)
    BY <1>1 DEF Seen
  <2> HIDE DEF served
  <2>5. served \in Nat
    BY <2>2 DEF served
  <2> QED
    BY <2>1, <2>3, <2>4, <2>5
<1>9. MeasuresTypeOK'
  BY <1>1, <1>2, <1>5 DEF MeasuresIInv, MeasuresTypeOK
<1>10. RegistriesInv'
  BY <1>1 DEF MeasuresIInv, RegistriesInv
<1>11. ObservedInv'
  <2>1. /\ Seen <= source.observed
        /\ u.kind = "histogram" => Seen < u.value /\ u.value <= source.observed
    BY <1>2 DEF MeasuresIInv, ObservedInv, u
  <2>2. Seen' <= source'.observed
    BY <1>1, <1>4, <1>6, <1>8, <2>1
  <2>3. ASSUME NEW i \in 1..Len(queued'), queued'[i].kind = "histogram"
        PROVE  Seen' < queued'[i].value /\ queued'[i].value <= source'.observed
    <3>1. i + 1 \in 1..Len(queued) /\ queued'[i] = queued[i + 1] /\ queued[i + 1].kind = "histogram"
      BY <1>2, <2>3
    <3>2. Seen < queued[i + 1].value /\ queued[i + 1].value <= source.observed
      BY <3>1 DEF MeasuresIInv, ObservedInv
    <3>3. u.kind = "histogram" => u.value < queued[i + 1].value
      <4>1. 1 < i + 1
        BY <1>2
      <4> QED
        BY <1>2, <3>1, <4>1 DEF MeasuresIInv, ObservedInv, u
    <3>4. queued[i + 1].value \in Nat
      BY <1>6, <3>1
    <3> QED
      BY <1>1, <1>4, <1>6, <1>8, <2>1, <3>1, <3>2, <3>3, <3>4
  <2>4. ASSUME NEW i \in 1..Len(queued'), queued'[i].kind = "histogram",
               NEW j \in 1..Len(queued'), i < j, queued'[j].kind = "histogram"
        PROVE  queued'[i].value < queued'[j].value
    <3>1. /\ i + 1 \in 1..Len(queued) /\ queued'[i] = queued[i + 1]
          /\ j + 1 \in 1..Len(queued) /\ queued'[j] = queued[j + 1] /\ i + 1 < j + 1
      BY <1>2, <2>4
    <3> QED
      BY <2>4, <3>1 DEF MeasuresIInv, ObservedInv
  <2> QED
    BY <2>2, <2>3, <2>4 DEF ObservedInv
<1>12. LatestInv'
  <2>1. /\ Latest(queued, pending.gauge, Matched, source.gauge, server.shown.gauge, "gauge")
        /\ counted.restarts = 0 =>
             /\ Latest(queued, pending.counter, Matched, source.total, server.shown.counter,
                       "counter")
             /\ Matched => server.shown.counter = cache.total
    BY DEF MeasuresIInv, LatestInv
  <2>2. Latest(queued', pending'.gauge, Matched, source.gauge, server.shown.gauge, "gauge")
    BY <1>1, <1>5, <2>1, LatestRecorded DEF u
  <2>3. counted.restarts = 0 =>
          Latest(queued', pending'.counter, Matched, source.total, server.shown.counter, "counter")
    BY <1>1, <1>5, <2>1, LatestRecorded DEF u
  <2> QED
    BY <1>1, <1>7, <2>1, <2>2, <2>3 DEF LatestInv
<1>13. CountInv'
  <2>1. PICK h, p, b : p \in Nat /\ b \in Nat /\ Dated(h, p, b)
    BY DEF MeasuresIInv, CountInv
  <2>2. PICK g : \A i \in 1..Len(queued') : g[i] = h[i + 1]
    <3> DEFINE f == [i \in 1..Len(queued') |-> h[i + 1]]
    <3>1. \A i \in 1..Len(queued') : f[i] = h[i + 1]
      OBVIOUS
    <3> QED
      BY <3>1
  <2>3. PICK q : q = IF u.kind = "counter" THEN h[1] ELSE p
    OBVIOUS
  <2>4. ASSUME NEW i \in 1..Len(queued), queued[i].kind = "counter"
        PROVE  /\ h[i] \in Nat /\ queued[i].value <= h[i]
               /\ Grows(queued[i].value, h[i], source.total, counted.all, counted.restarts)
               /\ \A j \in 1..Len(queued) : i < j /\ queued[j].kind = "counter" =>
                    Grows(queued[i].value, h[i], queued[j].value, h[j], counted.restarts)
               /\ pending.counter # <<>> =>
                    Grows(pending.counter[1], p, queued[i].value, h[i], counted.restarts)
               /\ Matched => Grows(cache.total, b, queued[i].value, h[i], counted.restarts)
    BY <2>1, <2>4 DEF Dated, DatedQueue
  <2>5. /\ pending.counter # <<>> =>
             /\ pending.counter[1] <= p
             /\ Grows(pending.counter[1], p, source.total, counted.all, counted.restarts)
             /\ Matched => Grows(cache.total, b, pending.counter[1], p, counted.restarts)
        /\ Matched => /\ server.shown.counter <= b
                      /\ Grows(cache.total, b, source.total, counted.all, counted.restarts)
    BY <2>1 DEF Dated, DatedPending, DatedShown
  <2>6. u.kind = "counter" => h[1] \in Nat
    BY <1>2, <2>4 DEF u
  <2>7. q \in Nat
    BY <2>1, <2>3, <2>6
  <2>8. DatedQueue(g, q, b)'
    <3>1. ASSUME NEW i \in 1..Len(queued'), queued'[i].kind = "counter"
          PROVE  /\ g[i] \in Nat /\ queued'[i].value <= g[i]
                 /\ Grows(queued'[i].value, g[i], source.total, counted.all, counted.restarts)
                 /\ \A j \in 1..Len(queued') : i < j /\ queued'[j].kind = "counter" =>
                      Grows(queued'[i].value, g[i], queued'[j].value, g[j], counted.restarts)
                 /\ pending'.counter # <<>> =>
                      Grows(pending'.counter[1], q, queued'[i].value, g[i], counted.restarts)
                 /\ Matched => Grows(cache.total, b, queued'[i].value, g[i], counted.restarts)
      <4>1. /\ i + 1 \in 1..Len(queued) /\ queued'[i] = queued[i + 1] /\ g[i] = h[i + 1]
            /\ queued[i + 1].kind = "counter" /\ 1 < i + 1
        BY <1>2, <2>2, <3>1
      <4>2. ASSUME NEW j \in 1..Len(queued'), i < j, queued'[j].kind = "counter"
            PROVE  Grows(queued'[i].value, g[i], queued'[j].value, g[j], counted.restarts)
        <5>1. /\ j + 1 \in 1..Len(queued) /\ queued'[j] = queued[j + 1] /\ g[j] = h[j + 1]
              /\ queued[j + 1].kind = "counter" /\ i + 1 < j + 1
          <6>1. j + 1 \in 1..Len(queued) /\ queued'[j] = queued[j + 1] /\ i + 1 < j + 1
            BY <1>2, <4>2
          <6> QED
            BY <2>2, <4>2, <6>1
        <5> QED
          BY <2>4, <4>1, <5>1
      <4>3. ASSUME pending'.counter # <<>>
            PROVE  Grows(pending'.counter[1], q, queued'[i].value, g[i], counted.restarts)
        <5>1. CASE u.kind = "counter"
          <6>1. pending'.counter[1] = u.value /\ q = h[1]
            BY <1>5, <2>3, <5>1
          <6>2. Grows(queued[1].value, h[1], queued[i + 1].value, h[i + 1], counted.restarts)
            BY <1>2, <2>4, <4>1, <5>1 DEF u
          <6> QED
            BY <4>1, <6>1, <6>2 DEF u
        <5>2. CASE u.kind # "counter"
          BY <1>5, <2>3, <2>4, <4>1, <4>3, <5>2
        <5> QED
          BY <5>1, <5>2
      <4>4. /\ h[i + 1] \in Nat /\ queued[i + 1].value <= h[i + 1]
            /\ Grows(queued[i + 1].value, h[i + 1], source.total, counted.all, counted.restarts)
            /\ Matched => Grows(cache.total, b, queued[i + 1].value, h[i + 1], counted.restarts)
        BY <2>4, <4>1
      <4> QED
        BY <4>1, <4>2, <4>3, <4>4
    <3> QED
      BY <1>1, <1>7, <3>1 DEF DatedQueue
  <2>9. DatedPending(q, b)'
    <3>1. ASSUME pending'.counter # <<>>
          PROVE  /\ pending'.counter[1] <= q
                 /\ Grows(pending'.counter[1], q, source.total, counted.all, counted.restarts)
                 /\ Matched => Grows(cache.total, b, pending'.counter[1], q, counted.restarts)
      <4>1. CASE u.kind = "counter"
        <5>1. pending'.counter[1] = queued[1].value /\ q = h[1] /\ queued[1].kind = "counter"
          BY <1>5, <2>3, <4>1 DEF u
        <5> QED
          BY <1>2, <2>4, <5>1
      <4>2. CASE u.kind # "counter"
        BY <1>5, <2>3, <2>5, <3>1, <4>2
      <4> QED
        BY <4>1, <4>2
    <3> QED
      BY <1>1, <1>7, <3>1 DEF DatedPending
  <2>10. DatedShown(b)'
    BY <1>1, <1>7, <2>5 DEF DatedShown
  <2>11. source'.total <= counted'.all
    BY <1>1 DEF MeasuresIInv, CountInv
  <2> QED
    BY <2>1, <2>7, <2>8, <2>9, <2>10, <2>11 DEF CountInv, Dated
<1> QED
  BY <1>9, <1>10, <1>11, <1>12, <1>13 DEF MeasuresIInv

(* A flush begins for the registry of the moment.                            *)
LEMMA MeasuresBegin == ASSUME MeasuresIInv, BeginFlush PROVE MeasuresIInv'
<1>1. /\ UNCHANGED <<server, registries, queued, pending, cache, source, counted, updateCalls>>
      /\ flushing' = IF server = <<>> THEN <<0>> ELSE <<server.registry>>
  BY DEF BeginFlush
<1>2. MeasuresTypeOK'
  <2>1. flushing' = <<flushing'[1]>> /\ flushing'[1] \in Nat
    BY <1>1 DEF MeasuresIInv, MeasuresTypeOK
  <2> QED
    BY <1>1, <2>1 DEF MeasuresIInv, MeasuresTypeOK
<1>3. RegistriesInv'
  <2>1. flushing'[1] <= registries /\ (server # <<>> => flushing'[1] = server.registry)
    BY <1>1 DEF MeasuresIInv, MeasuresTypeOK, RegistriesInv
  <2> QED
    BY <1>1, <2>1 DEF MeasuresIInv, RegistriesInv
<1>4. ObservedInv'
  BY <1>1 DEF MeasuresIInv, ObservedInv, Seen
<1>5. LatestInv'
  BY <1>1 DEF MeasuresIInv, LatestInv, Latest, Matched
<1>6. CountInv'
  <2>1. PICK h, p, b : p \in Nat /\ b \in Nat /\ Dated(h, p, b)
    BY DEF MeasuresIInv, CountInv
  <2>2. Dated(h, p, b)'
    BY <1>1, <2>1 DEF Dated, DatedQueue, DatedPending, DatedShown, Grows, Matched
  <2>3. source'.total <= counted'.all
    BY <1>1 DEF MeasuresIInv, CountInv
  <2> QED
    BY <2>1, <2>2, <2>3 DEF CountInv
<1> QED
  BY <1>2, <1>3, <1>4, <1>5, <1>6 DEF MeasuresIInv

(* A flush whose server has gone meanwhile shows nothing; the cache then is  *)
(* of a registry that no server has.                                         *)
LEMMA FlushMissed ==
  ASSUME MeasuresIInv, EndFlush, server = <<>> \/ server.registry # flushing[1]
  PROVE  MeasuresIInv'
<1> DEFINE to == flushing[1]
<1>1. /\ flushing # <<>> /\ Head(flushing) = to /\ to \in Nat /\ to <= registries
      /\ server # <<>> => cache.registry # server.registry
  BY DEF EndFlush, MeasuresIInv, MeasuresTypeOK, RegistriesInv
<1>2. /\ server' = server /\ pending' = NothingPending /\ flushing' = <<>>
      /\ UNCHANGED <<registries, queued, source, counted, updateCalls>>
      /\ cache' = IF to = 0 \/ pending.counter = <<>> THEN CacheFor(to)
                  ELSE Totalled(CacheFor(to), Head(pending.counter))
  BY <1>1 DEF EndFlush
<1>3. /\ pending \in [gauge : Waiting, counter : Waiting, histogram : Seq(Nat)]
      /\ cache \in [registry : Nat, total : Nat]
  BY DEF MeasuresIInv, MeasuresTypeOK
<1>4. pending.counter = <<>> \/ Head(pending.counter) \in Nat
  BY <1>3 DEF Waiting
<1>5. CacheFor(to) \in [registry : Nat, total : Nat] /\ CacheFor(to).registry = to
  BY <1>1, <1>3 DEF CacheFor
<1>6. cache' \in [registry : Nat, total : Nat] /\ cache'.registry = to
  <2>1. CASE to = 0 \/ pending.counter = <<>>
    BY <1>2, <1>5, <2>1
  <2>2. CASE ~(to = 0 \/ pending.counter = <<>>)
    BY <1>2, <1>4, <1>5, <2>2 DEF Totalled
  <2> QED
    BY <2>1, <2>2
<1>7. ~Matched' /\ ~Matched
  BY <1>1, <1>2, <1>6 DEF Matched
<1>8. /\ pending' \in [gauge : Waiting, counter : Waiting, histogram : Seq(Nat)]
      /\ pending'.gauge = <<>> /\ pending'.counter = <<>> /\ pending'.histogram = <<>>
  BY <1>2 DEF NothingPending, Waiting
<1>9. MeasuresTypeOK'
  BY <1>2, <1>6, <1>8 DEF MeasuresIInv, MeasuresTypeOK
<1>10. RegistriesInv'
  BY <1>1, <1>2, <1>6, <1>7 DEF MeasuresIInv, RegistriesInv, Matched
<1>11. ObservedInv'
  <2>1. Seen \in Nat /\ Seen' \in Nat /\ Seen' <= Seen
    <3>1. Len(pending.histogram) \in Nat /\ Len(pending'.histogram) = 0
      BY <1>3, <1>8
    <3>2. (IF server = <<>> THEN 0 ELSE server.shown.observed) \in Nat
      BY DEF MeasuresIInv, MeasuresTypeOK
    <3> DEFINE served == IF server = <<>> THEN 0 ELSE server.shown.observed
    <3>3. Seen = served + Len(pending.histogram) /\ Seen' = served + Len(pending'.histogram)
      BY <1>2 DEF Seen
    <3> HIDE DEF served
    <3>4. served \in Nat
      BY <3>2 DEF served
    <3> QED
      BY <3>1, <3>3, <3>4
  <2>2. source.observed \in Nat /\ \A k \in 1..Len(queued) : queued[k].value \in Nat
    BY MeasuresTypes
  <2> QED
    BY <1>2, <2>1, <2>2 DEF MeasuresIInv, ObservedInv
<1>12. LatestInv'
  <2>1. /\ Latest(queued, pending.gauge, Matched, source.gauge, server.shown.gauge, "gauge")
        /\ counted.restarts = 0 =>
             Latest(queued, pending.counter, Matched, source.total, server.shown.counter,
                    "counter")
    BY DEF MeasuresIInv, LatestInv
  <2>2. ASSUME NEW waiting, NEW now, NEW shown, NEW kind,
               Latest(queued, waiting, Matched, now, shown, kind)
        PROVE  Latest(queued, <<>>, Matched', now, shown, kind)
    BY <1>7, <2>2 DEF Latest
  <2>3. /\ Latest(queued, <<>>, Matched', source.gauge, server.shown.gauge, "gauge")
        /\ counted.restarts = 0 =>
             Latest(queued, <<>>, Matched', source.total, server.shown.counter, "counter")
    BY <2>1, <2>2
  <2> QED
    BY <1>2, <1>7, <1>8, <2>3 DEF LatestInv
<1>13. CountInv'
  <2>1. PICK h, p, b : p \in Nat /\ b \in Nat /\ Dated(h, p, b)
    BY DEF MeasuresIInv, CountInv
  <2>2. DatedQueue(h, p, b)'
    BY <1>2, <1>7, <1>8, <2>1 DEF Dated, DatedQueue, Grows
  <2>3. DatedPending(p, b)' /\ DatedShown(b)'
    BY <1>7, <1>8 DEF DatedPending, DatedShown
  <2>4. source'.total <= counted'.all
    BY <1>2 DEF MeasuresIInv, CountInv
  <2> QED
    BY <2>1, <2>2, <2>3, <2>4 DEF CountInv, Dated
<1> QED
  BY <1>9, <1>10, <1>11, <1>12, <1>13 DEF MeasuresIInv

(* A flush to the server that is there: the difference to the last total it  *)
(* was given is what was counted since.                                      *)
LEMMA FlushShown ==
  ASSUME MeasuresIInv, EndFlush, server # <<>>, server.registry = flushing[1]
  PROVE  MeasuresIInv'
<1> DEFINE to == flushing[1]
           last == IF Matched THEN cache.total ELSE 0
           old == server.shown
           now == server'.shown
<1>1. /\ flushing # <<>> /\ Head(flushing) = to /\ to \in Nat \ {0} /\ to <= registries
      /\ DOMAIN server = {"address", "registry", "shown"}
      /\ old \in [gauge : Nat, counter : Nat, observed : Nat]
      /\ ~Matched => old = Shown
      /\ server.registry = registries
  BY DEF EndFlush, MeasuresIInv, MeasuresTypeOK, RegistriesInv, Matched
<1>2. /\ pending \in [gauge : Waiting, counter : Waiting, histogram : Seq(Nat)]
      /\ cache \in [registry : Nat, total : Nat]
  BY DEF MeasuresIInv, MeasuresTypeOK
<1>3. /\ pending.counter # <<>> => pending.counter[1] \in Nat
      /\ pending.gauge # <<>> => pending.gauge[1] \in Nat
      /\ Len(pending.histogram) \in Nat
  BY <1>2, MeasuresTypes
<1>4. CacheFor(to) \in [registry : Nat, total : Nat] /\ CacheFor(to).registry = to
      /\ CacheFor(to).total = last
  BY <1>1, <1>2 DEF CacheFor, Matched
<1> DEFINE added == Increment(pending.counter[1], last)
<1>5. /\ pending' = NothingPending /\ flushing' = <<>>
      /\ UNCHANGED <<registries, queued, source, counted, updateCalls>>
      /\ cache' = IF pending.counter = <<>> THEN CacheFor(to)
                  ELSE Totalled(CacheFor(to), pending.counter[1])
      /\ server' = [server EXCEPT !.shown =
             [gauge |-> IF pending.gauge = <<>> THEN old.gauge ELSE pending.gauge[1],
              counter |-> IF pending.counter = <<>> THEN old.counter ELSE old.counter + added,
              observed |-> old.observed + Len(pending.histogram)]]
  BY <1>1, <1>4 DEF EndFlush
<1>6. last \in Nat /\ (pending.counter # <<>> => added \in Nat)
  BY <1>2, <1>3 DEF Increment
<1>7. /\ cache' \in [registry : Nat, total : Nat] /\ cache'.registry = to
      /\ cache'.total = IF pending.counter = <<>> THEN last ELSE pending.counter[1]
  <2>1. CASE pending.counter = <<>>
    BY <1>4, <1>5, <2>1
  <2>2. CASE pending.counter # <<>>
    BY <1>3, <1>4, <1>5, <2>2 DEF Totalled
  <2> QED
    BY <2>1, <2>2
<1> HIDE DEF added, last
<1>8. /\ DOMAIN server' = {"address", "registry", "shown"} /\ server' # <<>>
      /\ server'.registry = to
      /\ now \in [gauge : Nat, counter : Nat, observed : Nat]
      /\ now.gauge = IF pending.gauge = <<>> THEN old.gauge ELSE pending.gauge[1]
      /\ now.counter = IF pending.counter = <<>> THEN old.counter ELSE old.counter + added
      /\ now.observed = old.observed + Len(pending.histogram)
  <2>1. PICK g \in Nat : g = IF pending.gauge = <<>> THEN old.gauge ELSE pending.gauge[1]
    BY <1>1, <1>3
  <2>2. PICK c \in Nat : c = IF pending.counter = <<>> THEN old.counter ELSE old.counter + added
    BY <1>1, <1>6
  <2>3. PICK o \in Nat : o = old.observed + Len(pending.histogram)
    BY <1>1, <1>3
  <2>4. server' = [server EXCEPT !.shown = [gauge |-> g, counter |-> c, observed |-> o]]
    BY <1>5, <2>1, <2>2, <2>3
  <2>5. /\ DOMAIN server' = {"address", "registry", "shown"}
        /\ server'.registry = server.registry
        /\ server'.shown = [gauge |-> g, counter |-> c, observed |-> o]
    BY <1>1, <2>4
  <2>6. server' # <<>>
    <3>1. DOMAIN <<>> = {} /\ DOMAIN server' # {}
      BY <2>5
    <3> QED
      BY <3>1
  <2> QED
    BY <2>1, <2>2, <2>3, <2>5, <2>6
<1> HIDE DEF to, now
<1>9. Matched'
  BY <1>7, <1>8 DEF Matched
<1>10. /\ pending' \in [gauge : Waiting, counter : Waiting, histogram : Seq(Nat)]
       /\ pending'.gauge = <<>> /\ pending'.counter = <<>> /\ pending'.histogram = <<>>
  BY <1>5 DEF NothingPending, Waiting
<1>11. MeasuresTypeOK'
  BY <1>1, <1>5, <1>7, <1>8, <1>10 DEF MeasuresIInv, MeasuresTypeOK, now
<1>12. RegistriesInv'
  BY <1>1, <1>5, <1>7, <1>8 DEF RegistriesInv, to
<1>13. ObservedInv'
  <2>1. Seen' = Seen
    <3>1. Seen = old.observed + Len(pending.histogram)
      BY DEF Seen
    <3>2. Seen' = now.observed + 0
      BY <1>8, <1>10 DEF Seen, now
    <3> QED
      BY <1>1, <1>3, <1>8, <3>1, <3>2
  <2> QED
    BY <1>5, <2>1 DEF MeasuresIInv, ObservedInv
<1>14. LatestInv'
  <2>1. /\ Latest(queued, pending.gauge, Matched, source.gauge, old.gauge, "gauge")
        /\ counted.restarts = 0 =>
             /\ Latest(queued, pending.counter, Matched, source.total, old.counter, "counter")
             /\ Matched => old.counter = cache.total
    BY DEF MeasuresIInv, LatestInv
  <2>2. ASSUME NEW waiting, NEW newest, NEW shown, NEW shown2, NEW kind,
               Latest(queued, waiting, Matched, newest, shown, kind),
               ~Matched => shown = 0,
               shown2 = IF waiting = <<>> THEN shown ELSE waiting[1]
        PROVE  Latest(queued, <<>>, TRUE, newest, shown2, kind)
    BY <2>2 DEF Latest
  <2>3. ~Matched => old.gauge = 0 /\ old.counter = 0
    BY <1>1 DEF Shown
  <2>4. Latest(queued, <<>>, TRUE, source.gauge, now.gauge, "gauge")
    BY <1>8, <2>1, <2>2, <2>3
  <2>5. ASSUME counted.restarts = 0
        PROVE  /\ now.counter = cache'.total
               /\ Latest(queued, <<>>, TRUE, source.total, now.counter, "counter")
    <3>1. old.counter = last
      BY <2>1, <2>3, <2>5 DEF last
    <3>2. CASE pending.counter = <<>>
      <4>1. now.counter = old.counter /\ cache'.total = last
        BY <1>7, <1>8, <3>2
      <4> QED
        BY <2>1, <2>2, <2>3, <2>5, <3>1, <3>2, <4>1
    <3>3. CASE pending.counter # <<>>
      <4>1. last <= pending.counter[1]
        <5>1. CASE Matched
          <6>1. PICK h, p, b : p \in Nat /\ b \in Nat /\ Dated(h, p, b)
            BY DEF MeasuresIInv, CountInv
          <6>2. Grows(cache.total, b, pending.counter[1], p, counted.restarts)
            BY <3>3, <5>1, <6>1 DEF Dated, DatedPending
          <6> QED
            BY <2>5, <5>1, <6>2 DEF Grows, last
        <5>2. CASE ~Matched
          BY <1>3, <3>3, <5>2 DEF last
        <5> QED
          BY <5>1, <5>2
      <4>2. added = pending.counter[1] - last
        BY <1>3, <1>6, <3>3, <4>1 DEF added, Increment
      <4>3. now.counter = pending.counter[1] /\ cache'.total = pending.counter[1]
        BY <1>3, <1>6, <1>7, <1>8, <3>1, <3>3, <4>1, <4>2
      <4> QED
        BY <2>1, <2>2, <2>3, <2>5, <3>3, <4>3
    <3> QED
      BY <3>2, <3>3
  <2> QED
    BY <1>5, <1>9, <1>10, <2>4, <2>5 DEF LatestInv, now
<1>15. CountInv'
  <2>1. PICK h, p, b : p \in Nat /\ b \in Nat /\ Dated(h, p, b)
    BY DEF MeasuresIInv, CountInv
  <2>2. PICK c : c = IF pending.counter # <<>> THEN p ELSE IF Matched THEN b ELSE 0
    OBVIOUS
  <2>3. c \in Nat
    BY <2>1, <2>2
  <2>4. ASSUME NEW w \in Nat, NEW k \in Nat, w <= k,
               pending.counter # <<>> => Grows(pending.counter[1], p, w, k, counted.restarts),
               Matched => Grows(cache.total, b, w, k, counted.restarts)
        PROVE  Grows(cache'.total, c, w, k, counted.restarts)
    <3>1. CASE pending.counter # <<>>
      BY <1>7, <2>2, <2>4, <3>1
    <3>2. CASE pending.counter = <<>> /\ Matched
      BY <1>7, <2>2, <2>4, <3>2 DEF last
    <3>3. CASE pending.counter = <<>> /\ ~Matched
      <4>1. cache'.total = 0 /\ c = 0
        BY <1>7, <2>2, <3>3 DEF last
      <4> QED
        BY <2>4, <4>1 DEF Grows, Increment
    <3> QED
      BY <3>1, <3>2, <3>3
  <2>5. /\ source.total \in Nat /\ counted.all \in Nat /\ source.total <= counted.all
        /\ \A k \in 1..Len(queued) : queued[k].value \in Nat
    BY MeasuresTypes DEF MeasuresIInv, CountInv
  <2>6. DatedQueue(h, p, c)'
    <3>1. ASSUME NEW i \in 1..Len(queued), queued[i].kind = "counter"
          PROVE  /\ h[i] \in Nat /\ queued[i].value <= h[i]
                 /\ Grows(queued[i].value, h[i], source.total, counted.all, counted.restarts)
                 /\ \A j \in 1..Len(queued) : i < j /\ queued[j].kind = "counter" =>
                      Grows(queued[i].value, h[i], queued[j].value, h[j], counted.restarts)
                 /\ Grows(cache'.total, c, queued[i].value, h[i], counted.restarts)
      <4>1. /\ h[i] \in Nat /\ queued[i].value <= h[i]
            /\ Grows(queued[i].value, h[i], source.total, counted.all, counted.restarts)
            /\ \A j \in 1..Len(queued) : i < j /\ queued[j].kind = "counter" =>
                 Grows(queued[i].value, h[i], queued[j].value, h[j], counted.restarts)
            /\ pending.counter # <<>> =>
                 Grows(pending.counter[1], p, queued[i].value, h[i], counted.restarts)
            /\ Matched => Grows(cache.total, b, queued[i].value, h[i], counted.restarts)
        BY <2>1, <3>1 DEF Dated, DatedQueue
      <4>2. Grows(cache'.total, c, queued[i].value, h[i], counted.restarts)
        BY <2>4, <2>5, <4>1
      <4> QED
        BY <4>1, <4>2
    <3> QED
      BY <1>5, <1>10, <3>1 DEF DatedQueue
  <2>7. DatedPending(p, c)'
    BY <1>10 DEF DatedPending
  <2>8. DatedShown(c)'
    <3>1. Grows(cache'.total, c, source.total, counted.all, counted.restarts)
      <4>1. /\ pending.counter # <<>> =>
                 Grows(pending.counter[1], p, source.total, counted.all, counted.restarts)
            /\ Matched => Grows(cache.total, b, source.total, counted.all, counted.restarts)
        BY <2>1 DEF Dated, DatedPending, DatedShown
      <4> QED
        BY <2>4, <2>5, <4>1
    <3>2. now.counter <= c
      <4>1. Matched => old.counter <= b
        BY <2>1 DEF Dated, DatedShown
      <4>2. ~Matched => old.counter = 0
        BY <1>1 DEF Shown
      <4>3. CASE pending.counter = <<>>
        BY <1>8, <2>2, <4>1, <4>2, <4>3
      <4>4. CASE pending.counter # <<>> /\ Matched
        <5>1. Grows(cache.total, b, pending.counter[1], p, counted.restarts)
          BY <2>1, <4>4 DEF Dated, DatedPending
        <5>2. b + added <= p
          BY <4>4, <5>1 DEF Grows, added, last
        <5> QED
          BY <1>1, <1>6, <1>8, <2>1, <2>2, <4>1, <4>4, <5>2
      <4>5. CASE pending.counter # <<>> /\ ~Matched
        <5>1. pending.counter[1] <= p
          BY <2>1, <4>5 DEF Dated, DatedPending
        <5>2. added = pending.counter[1]
          BY <1>3, <4>5 DEF added, last, Increment
        <5> QED
          BY <1>3, <1>8, <2>2, <4>2, <4>5, <5>1, <5>2
      <4> QED
        BY <4>3, <4>4, <4>5
    <3> QED
      BY <1>5, <3>1, <3>2 DEF DatedShown, now
  <2>9. source'.total <= counted'.all
    BY <1>5, <2>5
  <2> QED
    BY <2>1, <2>3, <2>6, <2>7, <2>8, <2>9 DEF CountInv, Dated
<1> QED
  BY <1>11, <1>12, <1>13, <1>14, <1>15 DEF MeasuresIInv

(* Every step keeps it.                                                      *)
LEMMA MeasuresInductive == MeasuresIInv /\ [MetricsNext]_metricsVars => MeasuresIInv'
<1> SUFFICES ASSUME MeasuresIInv, [MetricsNext]_metricsVars
             PROVE  MeasuresIInv'
  OBVIOUS
<1>1. CASE UNCHANGED metricsVars \/ RunSetter \/ JoinControl
           \/ \E c \in Changes : SetHere(c) \/ SetElsewhere(c)
  <2>1. UNCHANGED measureVars
    BY <1>1 DEF measureVars, metricsVars, flushVars, SetHere, SetElsewhere, RunSetter, JoinControl
  <2> QED
    BY <2>1, MeasuresStay
<1>2. CASE \E i \in DOMAIN controls, binds \in BOOLEAN : ControlRuns(i, binds)
  BY <1>2, MeasuresControl
<1>3. CASE SetGauge \/ SetCounter \/ ObserveDuration
  BY <1>3, MeasuresGrow
<1>4. CASE RestartCount
  BY <1>4, MeasuresRestart
<1>5. CASE Record
  BY <1>5, MeasuresRecord
<1>6. CASE BeginFlush
  BY <1>6, MeasuresBegin
<1>7. CASE EndFlush
  BY <1>7, FlushMissed, FlushShown
<1> QED
  BY <1>1, <1>2, <1>3, <1>4, <1>5, <1>6, <1>7 DEF MetricsNext

(* What a scrape shows is true: never more than was counted or observed,     *)
(* though servers come and go while a flush is under way and counts start    *)
(* again; and with nothing in flight the newest value of a gauge, and of a   *)
(* count that was never restarted the exact total (MetricsServer).           *)
THEOREM ScrapesAddUp == MetricsSpec => []MetricsAddUp
<1>1. MetricsInit => MeasuresIInv
  BY MeasuresInit
<1>2. MeasuresIInv /\ [MetricsNext]_metricsVars => MeasuresIInv'
  BY MeasuresInductive
<1>3. MeasuresIInv => MetricsAddUp
  BY MeasuresAddUp
<1> QED
  BY <1>1, <1>2, <1>3, PTL DEF MetricsSpec

-----------------------------------------------------------------------------
(* LogConsole: rotation keeps the runs in order, and the console shows the *)
(* newest messages.                                                        *)

(* The files.                                                                *)
(* Where a rotation is, the place above the file it moves next is free; and  *)
(* the files of a target are in the order of their runs at every step of it. *)
InRunOrder(files) ==
  \A i, j \in 0..(KeepRuns - 1) : i < j /\ files[i] # 0 => files[j] < files[i]
RotationInv ==
  /\ runs \in Nat /\ overwritten = {}
  /\ logFiles \in [LogTargets -> [0..(KeepRuns - 1) -> Nat]]
  /\ \A t \in LogTargets :
       InRunOrder(logFiles[t]) /\ \A i \in 0..(KeepRuns - 1) : logFiles[t][i] <= runs
  /\ \/ rotation = <<>>
     \/ \E t \in LogTargets, k \in 1..KeepRuns :
          rotation = <<t, k>> /\ logFiles[t][KeepRuns - k] = 0

(* Only the steps of a rotation, and a crash, change anything of it.         *)
LEMMA OtherLogSteps ==
  ASSUME LogNext
  PROVE  \/ UNCHANGED <<logFiles, rotation, runs, overwritten>>
         \/ \E t \in LogTargets : EnableFileLogging(t)
         \/ MoveLogFile
         \/ \E opens \in BOOLEAN : OpenLogFile(opens)
         \/ rotation' = <<>> /\ UNCHANGED <<logFiles, runs, overwritten>>
  BY DEF LogNext, Log, SetLogLevel, OpenConsole, FirstTake, PostedTake, ExpireRecentEntries,
     CloseConsole, LogClock, DisableFileLogging, Crash, ProgramStarts, fileVars

(* A file that is removed leaves the order as it is.                         *)
LEMMA OldestRemoved ==
  ASSUME RotationInv, NEW t \in LogTargets, EnableFileLogging(t)
  PROVE  RotationInv'
<1>1. KeepRuns \in Nat /\ KeepRuns >= 2 /\ KeepRuns - 1 \in 0..(KeepRuns - 1) /\ 1 \in 1..KeepRuns
  BY LogAssumption
<1>2. /\ logFiles' = [logFiles EXCEPT ![t][KeepRuns - 1] = 0] /\ rotation' = <<t, 1>>
      /\ UNCHANGED <<runs, overwritten>>
      /\ logFiles \in [LogTargets -> [0..(KeepRuns - 1) -> Nat]]
  BY DEF EnableFileLogging, RotationInv
<1>3. /\ logFiles' \in [LogTargets -> [0..(KeepRuns - 1) -> Nat]] /\ logFiles'[t][KeepRuns - 1] = 0
      /\ \A u \in LogTargets : u # t => logFiles'[u] = logFiles[u]
      /\ \A i \in 0..(KeepRuns - 1) : i # KeepRuns - 1 => logFiles'[t][i] = logFiles[t][i]
  BY <1>1, <1>2
<1>4. ASSUME NEW u \in LogTargets
      PROVE  InRunOrder(logFiles'[u]) /\ \A i \in 0..(KeepRuns - 1) : logFiles'[u][i] <= runs'
  <2>1. CASE u # t
    BY <1>2, <1>3, <2>1 DEF RotationInv
  <2>2. CASE u = t
    <3>1. \A i, j \in 0..(KeepRuns - 1) : i < j /\ logFiles[t][i] # 0 => logFiles[t][j] < logFiles[t][i]
      BY DEF RotationInv, InRunOrder
    <3>2. \A i \in 0..(KeepRuns - 1) : logFiles[t][i] \in Nat /\ logFiles[t][i] <= runs
      BY <1>2 DEF RotationInv
    <3>3. ASSUME NEW i \in 0..(KeepRuns - 1), NEW j \in 0..(KeepRuns - 1), i < j, logFiles'[t][i] # 0
          PROVE  logFiles'[t][j] < logFiles'[t][i]
      <4>1. i # KeepRuns - 1 /\ logFiles'[t][i] = logFiles[t][i] /\ logFiles[t][i] > 0
        BY <1>3, <3>2, <3>3
      <4>2. CASE j = KeepRuns - 1
        BY <1>3, <4>1, <4>2
      <4>3. CASE j # KeepRuns - 1
        BY <1>3, <3>1, <3>3, <4>1, <4>3
      <4> QED
        BY <4>2, <4>3
    <3>4. \A i \in 0..(KeepRuns - 1) : logFiles'[t][i] <= runs'
      <4>1. runs \in Nat /\ 0 <= runs
        BY DEF RotationInv
      <4> QED
        BY <1>2, <1>3, <3>2, <4>1
    <3> QED
      BY <2>2, <3>3, <3>4 DEF InRunOrder
  <2> QED
    BY <2>1, <2>2
<1> QED
  BY <1>1, <1>2, <1>3, <1>4 DEF RotationInv

(* A file that is moved goes into a free place, next to its own.             *)
LEMMA FileMoved ==
  ASSUME RotationInv, MoveLogFile
  PROVE  RotationInv'
<1>1. PICK t \in LogTargets, k \in 1..KeepRuns :
        rotation = <<t, k>> /\ logFiles[t][KeepRuns - k] = 0
  BY DEF MoveLogFile, RotationInv
<1>2. k < KeepRuns /\ KeepRuns \in Nat /\ k \in Nat /\ k >= 1
  BY <1>1, LogAssumption DEF MoveLogFile
<1>3. PICK i : i = MovedAt(k)
  OBVIOUS
<1>4. /\ i \in 0..(KeepRuns - 1) /\ i + 1 \in 0..(KeepRuns - 1) /\ i + 1 = KeepRuns - k
      /\ i = KeepRuns - (k + 1) /\ k + 1 \in 1..KeepRuns /\ i \in Nat
  BY <1>2, <1>3 DEF MovedAt
<1>5. rotation' = <<t, k + 1>> /\ UNCHANGED runs
  BY <1>1 DEF MoveLogFile
<1>6. logFiles \in [LogTargets -> [0..(KeepRuns - 1) -> Nat]]
  BY DEF RotationInv
<1>7. CASE logFiles[t][i] = 0
  <2>1. UNCHANGED <<logFiles, overwritten>>
    BY <1>1, <1>3, <1>7 DEF MoveLogFile
  <2> QED
    BY <1>4, <1>5, <1>7, <2>1 DEF RotationInv
<1>8. CASE logFiles[t][i] # 0
  <2>1. /\ logFiles' = [logFiles EXCEPT ![t][i + 1] = logFiles[t][i], ![t][i] = 0]
        /\ overwritten' = overwritten \cup Replaced(t, i + 1)
    BY <1>1, <1>3, <1>8 DEF MoveLogFile
  <2>2. overwritten' = {}
    BY <1>1, <1>4, <2>1 DEF Replaced, RotationInv
  <2>3. /\ logFiles' \in [LogTargets -> [0..(KeepRuns - 1) -> Nat]]
        /\ logFiles'[t][i + 1] = logFiles[t][i] /\ logFiles'[t][i] = 0
        /\ \A u \in LogTargets : u # t => logFiles'[u] = logFiles[u]
        /\ \A j \in 0..(KeepRuns - 1) : j # i /\ j # i + 1 => logFiles'[t][j] = logFiles[t][j]
    <3>1. PICK up : up = [logFiles EXCEPT ![t][i + 1] = logFiles[t][i]]
      OBVIOUS
    <3>2. /\ up \in [LogTargets -> [0..(KeepRuns - 1) -> Nat]] /\ up[t][i + 1] = logFiles[t][i]
          /\ \A u \in LogTargets : u # t => up[u] = logFiles[u]
          /\ \A j \in 0..(KeepRuns - 1) : j # i + 1 => up[t][j] = logFiles[t][j]
      BY <1>4, <1>6, <3>1
    <3>3. logFiles' = [up EXCEPT ![t][i] = 0]
      BY <2>1, <3>1
    <3>4. i # i + 1
      BY <1>4
    <3> QED
      BY <1>4, <3>2, <3>3, <3>4
  <2>4. ASSUME NEW u \in LogTargets
        PROVE  InRunOrder(logFiles'[u]) /\ \A j \in 0..(KeepRuns - 1) : logFiles'[u][j] <= runs'
    <3>1. CASE u # t
      BY <1>5, <2>3, <3>1 DEF RotationInv
    <3>2. CASE u = t
      <4>1. ASSUME NEW a \in 0..(KeepRuns - 1), NEW b \in 0..(KeepRuns - 1), a < b,
                   logFiles'[t][a] # 0
            PROVE  logFiles'[t][b] < logFiles'[t][a]
        <5>1. a # i /\ a \in Nat /\ b \in Nat
          BY <2>3, <4>1
        <5>2. \A x, y \in 0..(KeepRuns - 1) : x < y /\ logFiles[t][x] # 0 => logFiles[t][y] < logFiles[t][x]
          BY DEF RotationInv, InRunOrder
        <5>3. CASE a = i + 1
          <6>1. b # i /\ b # i + 1 /\ i < b
            BY <1>4, <4>1, <5>1, <5>3
          <6> QED
            BY <1>4, <1>8, <2>3, <5>2, <5>3, <6>1
        <5>4. CASE a # i + 1
          <6>1. logFiles'[t][a] = logFiles[t][a] /\ logFiles[t][a] # 0
            BY <2>3, <4>1, <5>1, <5>4
          <6>2. CASE b = i + 1
            <7>1. a < i
              BY <1>4, <4>1, <5>1, <6>2
            <7> QED
              BY <1>4, <2>3, <5>2, <6>1, <6>2, <7>1
          <6>3. CASE b = i
            <7>1. logFiles[t][a] > 0
              <8>1. logFiles[t][a] \in Nat
                BY <1>6
              <8> QED
                BY <6>1, <8>1
            <7> QED
              BY <2>3, <6>1, <6>3, <7>1
          <6>4. CASE b # i /\ b # i + 1
            BY <2>3, <4>1, <5>2, <6>1, <6>4
          <6> QED
            BY <6>2, <6>3, <6>4
        <5> QED
          BY <5>3, <5>4
      <4>2. \A j \in 0..(KeepRuns - 1) : logFiles'[t][j] <= runs'
        <5>1. \A j \in 0..(KeepRuns - 1) : logFiles[t][j] <= runs
          BY DEF RotationInv
        <5>2. 0 <= runs
          BY DEF RotationInv
        <5> QED
          BY <1>4, <1>5, <2>3, <5>1, <5>2
      <4> QED
        BY <3>2, <4>1, <4>2 DEF InRunOrder
    <3> QED
      BY <3>1, <3>2
  <2> QED
    BY <1>4, <1>5, <2>2, <2>3, <2>4 DEF RotationInv
<1> QED
  BY <1>7, <1>8

(* The new file is the youngest, and its place is free.                      *)
LEMMA FileOpened ==
  ASSUME RotationInv, NEW opens \in BOOLEAN, OpenLogFile(opens)
  PROVE  RotationInv'
<1>1. rotation' = <<>>
  BY DEF OpenLogFile
<1>2. CASE ~opens
  BY <1>1, <1>2 DEF OpenLogFile, RotationInv
<1>3. CASE opens
  <2>1. PICK t \in LogTargets : rotation[1] = t /\ logFiles[t][0] = 0
    <3>1. PICK t \in LogTargets, k \in 1..KeepRuns :
            rotation = <<t, k>> /\ logFiles[t][KeepRuns - k] = 0
      BY DEF OpenLogFile, RotationInv
    <3>2. k = KeepRuns /\ KeepRuns - k = 0
      BY <3>1, LogAssumption DEF OpenLogFile
    <3> QED
      BY <3>1, <3>2
  <2>2. /\ runs' = runs + 1 /\ logFiles' = [logFiles EXCEPT ![t][0] = runs + 1]
        /\ overwritten' = {}
    BY <1>3, <2>1 DEF OpenLogFile, Replaced, RotationInv
  <2>3. /\ logFiles \in [LogTargets -> [0..(KeepRuns - 1) -> Nat]] /\ runs \in Nat
        /\ KeepRuns \in Nat /\ 0 \in 0..(KeepRuns - 1)
    BY LogAssumption DEF RotationInv
  <2>4. /\ logFiles' \in [LogTargets -> [0..(KeepRuns - 1) -> Nat]] /\ logFiles'[t][0] = runs + 1
        /\ \A u \in LogTargets : u # t => logFiles'[u] = logFiles[u]
        /\ \A i \in 0..(KeepRuns - 1) : i # 0 => logFiles'[t][i] = logFiles[t][i]
    BY <2>2, <2>3
  <2>5. ASSUME NEW u \in LogTargets
        PROVE  InRunOrder(logFiles'[u]) /\ \A i \in 0..(KeepRuns - 1) : logFiles'[u][i] <= runs'
    <3>1. \A i \in 0..(KeepRuns - 1) : logFiles[u][i] <= runs /\ logFiles[u][i] \in Nat
      BY <2>3 DEF RotationInv
    <3>2. \A i, j \in 0..(KeepRuns - 1) : i < j /\ logFiles[u][i] # 0 => logFiles[u][j] < logFiles[u][i]
      BY DEF RotationInv, InRunOrder
    <3>3. CASE u # t
      BY <2>2, <2>3, <2>4, <3>1, <3>2, <3>3 DEF InRunOrder
    <3>4. CASE u = t
      BY <2>2, <2>3, <2>4, <3>1, <3>2, <3>4 DEF InRunOrder
    <3> QED
      BY <3>3, <3>4
  <2> QED
    BY <1>1, <2>2, <2>3, <2>4, <2>5 DEF RotationInv
<1> QED
  BY <1>2, <1>3

(* The rotation invariant holds in every behaviour of the logger.            *)
LEMMA RotationInvariant == LogSpec => []RotationInv
<1>1. LogInit => RotationInv
  <2> SUFFICES ASSUME LogInit PROVE RotationInv
    OBVIOUS
  <2>1. PICK n \in {0, KeepRuns} : logFiles = [t \in LogTargets |-> EarlierFiles(n)]
    BY DEF LogInit
  <2>2. KeepRuns \in Nat /\ runs = KeepRuns
    BY LogAssumption DEF LogInit
  <2>3. EarlierFiles(n) \in [0..(KeepRuns - 1) -> Nat]
    BY <2>2 DEF EarlierFiles
  <2>4. InRunOrder(EarlierFiles(n)) /\ \A i \in 0..(KeepRuns - 1) : EarlierFiles(n)[i] <= runs
    BY <2>2 DEF EarlierFiles, InRunOrder
  <2> QED
    BY <2>1, <2>2, <2>3, <2>4 DEF LogInit, RotationInv
<1>2. RotationInv /\ [LogNext]_logVars => RotationInv'
  <2>1. RotationInv /\ UNCHANGED <<logFiles, rotation, runs, overwritten>> => RotationInv'
    BY DEF RotationInv
  <2>2. RotationInv /\ rotation' = <<>> /\ UNCHANGED <<logFiles, runs, overwritten>> => RotationInv'
    BY DEF RotationInv
  <2>3. RotationInv /\ LogNext => RotationInv'
    BY <2>1, <2>2, OtherLogSteps, OldestRemoved, FileMoved, FileOpened
  <2> QED
    BY <2>1, <2>3 DEF logVars, fileVars
<1> QED
  BY <1>1, <1>2, PTL DEF LogSpec

(* No run's file is ever replaced by another's and the files stay in the     *)
(* order of their runs: for every number of files kept and of targets,       *)
(* wherever the program ends while it moves them.                            *)
THEOREM RunsAreKept == LogSpec => []RotationKeepsRuns
<1>1. RotationInv => RotationKeepsRuns
  BY DEF RotationInv, InRunOrder, RotationKeepsRuns
<1> QED
  BY <1>1, RotationInvariant, PTL

-----------------------------------------------------------------------------
(* The console.                                                              *)
Least(a, b) == IF a <= b THEN a ELSE b

(* A function on 1..n is a sequence of length n.                             *)
LEMMA FunctionIsSeq ==
  ASSUME NEW S, NEW n \in Nat, NEW f \in [1..n -> S]
  PROVE  f \in Seq(S) /\ Len(f) = n
<1>1. f \in Seq(S)
  BY SeqDef
<1>2. Len(f) \in Nat /\ DOMAIN f = 1..Len(f)
  BY <1>1, LenProperties
<1>3. 1..Len(f) = 1..n
  BY <1>2
<1>4. \A a, b \in Nat : 1..a = 1..b => a = b
  <2> SUFFICES ASSUME NEW a \in Nat, NEW b \in Nat, 1..a = 1..b PROVE a = b
    OBVIOUS
  <2>1. \A x \in Int : (1 <= x /\ x <= a) <=> (1 <= x /\ x <= b)
    <3>1. \A x \in Int : (x \in 1..a <=> (1 <= x /\ x <= a)) /\ (x \in 1..b <=> (1 <= x /\ x <= b))
      OBVIOUS
    <3> QED
      BY <3>1, Zenon
  <2>2. (a >= 1 => a <= b) /\ (b >= 1 => b <= a)
    BY <2>1
  <2> QED
    BY <2>2
<1> QED
  BY <1>1, <1>2, <1>3, <1>4

(* The newest n of a sequence: as many as there are, up to n, from its end.  *)
LEMMA NewestFacts ==
  ASSUME NEW S, NEW s \in Seq(S), NEW n \in Nat
  PROVE  /\ Newest(s, n) \in Seq(S) /\ Len(Newest(s, n)) = Least(Len(s), n)
         /\ \A k \in 1..Least(Len(s), n) : Newest(s, n)[k] = s[Len(s) - Least(Len(s), n) + k]
<1>1. Len(s) \in Nat
  BY LenProperties
<1>2. CASE Len(s) <= n
  BY <1>1, <1>2 DEF Newest, Least
<1>3. CASE ~(Len(s) <= n)
  <2>0. PICK d \in Nat : d = Len(s)
    BY <1>1
  <2>1. PICK m \in Int : m = Len(s) - n + 1
    <3>1. d - n + 1 \in Int
      OBVIOUS
    <3> QED
      BY <2>0, <3>1
  <2>2. m >= 1 /\ Newest(s, n) = SubSeq(s, m, Len(s)) /\ Least(Len(s), n) = n
    BY <1>1, <1>3, <2>1 DEF Newest, Least
  <2>3. \A i \in m..Len(s) : s[i] \in S
    <3>1. \A i \in m..Len(s) : i \in 1..Len(s)
      BY <1>1, <2>2
    <3> QED
      BY <3>1, ElementOfSeq
  <2>4. Len(s) \in Int
    BY <1>1
  <2>5. /\ SubSeq(s, m, Len(s)) \in Seq(S)
        /\ Len(SubSeq(s, m, Len(s))) = IF m <= Len(s) THEN Len(s) - m + 1 ELSE 0
        /\ \A i \in 1..(Len(s) - m + 1) : SubSeq(s, m, Len(s))[i] = s[m + i - 1]
    BY <2>3, <2>4, SubSeqProperties
  <2>6. /\ (IF m <= Len(s) THEN Len(s) - m + 1 ELSE 0) = n /\ Len(s) - m + 1 = n
        /\ \A i \in Int : m + i - 1 = Len(s) - n + i
    BY <1>3, <2>0, <2>1
  <2>7. \A k \in 1..n : SubSeq(s, m, Len(s))[k] = s[Len(s) - n + k]
    <3>1. \A k \in 1..n : k \in Int
      OBVIOUS
    <3> QED
      BY <2>5, <2>6, <3>1, Zenon
  <2> QED
    BY <2>2, <2>5, <2>6, <2>7, Zenon
<1> QED
  BY <1>2, <1>3

(* The same, for a length that has a name.                                   *)
LEMMA NewestNamed ==
  ASSUME NEW S, NEW s \in Seq(S), NEW n \in Nat, NEW l, l = Len(s), NEW d, d = Least(l, n),
         NEW new, new = Newest(s, n)
  PROVE  new \in Seq(S) /\ Len(new) = d /\ \A k \in 1..d : new[k] = s[l - d + k]
  BY NewestFacts, Zenon

-----------------------------------------------------------------------------
(* A sequence of the consecutive messages up to the last.                    *)
IsRun(s, last) == \A k \in 1..Len(s) : s[k] + Len(s) = last + k

ShownRow == [entry : Nat, expires : Nat]
ConsoleTypeOK ==
  /\ logged \in Nat /\ missed \in Nat /\ posted \in Nat /\ clock \in Nat
  /\ entries \in Seq(Nat) /\ rows \in Seq(Nat) /\ recent \in Seq(ShownRow)
  /\ console \in {"none", "wakes", "open"}

(* The buffer holds the newest messages, and none a console has taken.       *)
Buffered ==
  /\ Len(entries) <= MaxEntries /\ missed + Len(entries) <= logged /\ IsRun(entries, logged)

(* Until the buffer is full, the rows end where it begins; a full buffer     *)
(* will replace every row.                                                   *)
RowsFollow ==
  Len(entries) < MaxEntries =>
    /\ IsRun(rows, logged - Len(entries))
    /\ Len(rows) = Least(logged - Len(entries) - missed, MaxRows)

(* The recent ones are the last rows, timed by the first of them.            *)
RecentFollow ==
  /\ Len(recent) <= Len(rows) /\ Len(rows) <= MaxRows
  /\ \A k \in 1..Len(recent) : recent[k].entry = rows[Len(rows) - Len(recent) + k]
  /\ timer = Due(recent)

(* A console that is open is called for what is in the buffer.               *)
Woken ==
  /\ wakeup <=> console # "none"
  /\ console = "none" => rows = <<>>
  /\ console = "wakes" => rows = <<>>
  /\ console = "open" /\ entries # <<>> => posted > 0

ConsoleInv == ConsoleTypeOK /\ Buffered /\ RowsFollow /\ RecentFollow /\ Woken

(* The bounds, as numbers.                                                   *)
LEMMA LogBounds ==
  /\ MaxEntries \in Nat /\ MaxRows \in Nat /\ MaxRecent \in Nat /\ Lifetime \in Nat
  /\ 1 <= MaxRecent /\ MaxRecent <= MaxRows /\ MaxRows <= MaxEntries
  BY LogAssumption

(* A message is the newest of the buffer; the oldest makes way for it.       *)
LEMMA SinkBuffers ==
  ASSUME ConsoleTypeOK, Buffered, RowsFollow, Sink(TRUE), UNCHANGED <<rows, missed>>
  PROVE  /\ entries' \in Seq(Nat) /\ logged' \in Nat /\ entries' # <<>> /\ Buffered' /\ RowsFollow'
<1>1. PICK n \in Nat, g \in Nat, m \in Nat : n = Len(entries) /\ g = logged /\ m = missed
  BY LenProperties DEF ConsoleTypeOK
<1>2. PICK a : a = Append(entries, logged + 1)
  OBVIOUS
<1>3. /\ a \in Seq(Nat) /\ Len(a) = n + 1 /\ a[n + 1] = g + 1
      /\ \A k \in 1..n : a[k] = entries[k]
  BY <1>1, <1>2, AppendProperties DEF ConsoleTypeOK
<1>4. PICK L \in Nat : L = Least(n + 1, MaxEntries)
  BY LogBounds DEF Least
<1>5. /\ entries' = Newest(a, MaxEntries) /\ logged' = g + 1
      /\ entries' \in Seq(Nat) /\ Len(entries') = L
      /\ \A k \in 1..L : entries'[k] = a[n + 1 - L + k]
  <2>1. entries' = Newest(a, MaxEntries) /\ logged' = g + 1
    BY <1>1, <1>2 DEF Sink
  <2>2. a \in Seq(Nat) /\ Len(a) = n + 1 /\ MaxEntries \in Nat
    BY <1>3, LogBounds
  <2>3. PICK new : new = Newest(a, MaxEntries)
    OBVIOUS
  <2>4. new \in Seq(Nat) /\ Len(new) = L /\ \A k \in 1..L : new[k] = a[n + 1 - L + k]
    <3>1. PICK l \in Nat : l = n + 1
      OBVIOUS
    <3>2. l = Len(a) /\ L = Least(l, MaxEntries)
      BY <1>4, <2>2, <3>1
    <3>3. a \in Seq(Nat) /\ MaxEntries \in Nat
      BY <2>2
    <3>4. new \in Seq(Nat) /\ Len(new) = L /\ \A k \in 1..L : new[k] = a[l - L + k]
      BY <2>3, <3>2, <3>3, NewestNamed, SMTT(30)
    <3> QED
      BY <3>1, <3>4
  <2> QED
    BY <2>1, <2>3, <2>4
<1>6. /\ L <= MaxEntries /\ L <= n + 1 /\ 1 <= L /\ (L < MaxEntries => L = n + 1)
      /\ n <= MaxEntries /\ m + n <= g /\ MaxEntries \in Nat
  BY <1>1, <1>4, LogBounds DEF Least, Buffered
<1>7. ASSUME NEW k \in 1..L PROVE entries'[k] + L = g + 1 + k
  <2>1. PICK j \in Nat : j = n + 1 - L + k /\ j >= 1 /\ j <= n + 1
    BY <1>6
  <2>2. CASE j = n + 1
    <3>1. entries'[k] = g + 1 /\ k = L
      BY <1>3, <1>5, <2>1, <2>2
    <3> QED
      BY <3>1
  <2>3. CASE j # n + 1
    <3>1. j \in 1..n
      BY <2>1, <2>3
    <3>2. entries'[k] = entries[j]
      BY <1>3, <1>5, <2>1, <3>1
    <3>3. entries[j] + n = g + j /\ entries[j] \in Nat
      BY <1>1, <3>1, ElementOfSeq DEF Buffered, IsRun, ConsoleTypeOK
    <3> QED
      BY <2>1, <3>2, <3>3
  <2> QED
    BY <2>2, <2>3
<1>8. Buffered'
  <2>1. m + L <= g + 1
    BY <1>6
  <2> QED
    BY <1>1, <1>5, <1>6, <1>7, <2>1 DEF Buffered, IsRun
<1>9. RowsFollow'
  <2>1. L < MaxEntries => n < MaxEntries /\ g + 1 - L = g - n
    BY <1>6
  <2>2. L < MaxEntries => /\ \A k \in 1..Len(rows) : rows[k] + Len(rows) = (g + 1 - L) + k
                          /\ Len(rows) = Least(g + 1 - L - m, MaxRows)
    <3>1. ASSUME L < MaxEntries
          PROVE  /\ \A k \in 1..Len(rows) : rows[k] + Len(rows) = g - n + k
                 /\ Len(rows) = Least(g - n - m, MaxRows)
      BY <1>1, <2>1, <3>1 DEF RowsFollow, IsRun
    <3> QED
      BY <2>1, <3>1
  <2> QED
    BY <1>1, <1>5, <2>2 DEF RowsFollow, IsRun
<1>10. entries' # <<>>
  BY <1>5, <1>6, EmptySeq
<1> QED
  BY <1>5, <1>8, <1>9, <1>10

(* Logging keeps the invariant: the first of a burst calls the console.      *)
LEMMA SinkStep ==
  ASSUME ConsoleInv, NEW passes \in BOOLEAN, Sink(passes),
         UNCHANGED <<wakeup, console, rows, recent, timer, missed, clock>>
  PROVE  ConsoleInv'
<1>1. CASE ~passes
  BY <1>1 DEF Sink, ConsoleInv, ConsoleTypeOK, Buffered, RowsFollow, RecentFollow, Woken, IsRun, Due
<1>2. CASE passes
  <2>1. Sink(TRUE)
    BY <1>2
  <2>2. entries' \in Seq(Nat) /\ logged' \in Nat /\ Buffered' /\ RowsFollow'
    BY <2>1, SinkBuffers DEF ConsoleInv
  <2>3. posted' = IF entries = <<>> /\ wakeup THEN posted + 1 ELSE posted
    BY <2>1 DEF Sink, Wakes
  <2>4. posted' \in Nat /\ Woken'
    BY <2>3 DEF ConsoleInv, ConsoleTypeOK, Woken
  <2> QED
    BY <2>2, <2>4 DEF ConsoleInv, ConsoleTypeOK, RecentFollow, Due
<1> QED
  BY <1>1, <1>2

-----------------------------------------------------------------------------
(* What a take shows is the end of what was shown and what is pending.       *)
LEMMA TakeRows ==
  ASSUME ConsoleTypeOK, Buffered, RowsFollow, RecentFollow, TakeLogEntries, entries # <<>>,
         UNCHANGED <<logged, missed>>
  PROVE  /\ rows' \in Seq(Nat) /\ recent' \in Seq(ShownRow) /\ entries' = <<>>
         /\ RowsFollow' /\ RecentFollow'
<1>1. PICK n \in Nat, g \in Nat, x \in Nat, r \in Nat, q \in Nat :
        /\ n = Len(entries) /\ g = logged /\ x = missed /\ r = Len(rows) /\ q = Len(recent)
        /\ n >= 1
  <2>1. Len(entries) \in Nat \ {0}
    BY EmptySeq, Zenon DEF ConsoleTypeOK
  <2>2. Len(entries) \in Nat /\ Len(entries) >= 1
    BY <2>1
  <2>3. Len(rows) \in Nat /\ Len(recent) \in Nat
    BY LenProperties, Zenon DEF ConsoleTypeOK
  <2> QED
    BY <2>2, <2>3, Zenon DEF ConsoleTypeOK
<1>22. /\ \A k \in 1..n : entries[k] + n = g + k /\ entries[k] \in Nat
       /\ \A k \in 1..r : rows[k] \in Nat
       /\ q <= r /\ r <= MaxRows /\ \A k \in 1..q : recent[k].entry = rows[r - q + k]
  <2>1. \A k \in 1..n : entries[k] + n = g + k
    BY <1>1, Zenon DEF Buffered, IsRun
  <2>2. (\A k \in 1..n : entries[k] \in Nat) /\ \A k \in 1..r : rows[k] \in Nat
    BY <1>1, ElementOfSeq, Zenon DEF ConsoleTypeOK
  <2>3. q <= r /\ r <= MaxRows /\ \A k \in 1..q : recent[k].entry = rows[r - q + k]
    BY <1>1, Zenon DEF RecentFollow
  <2> QED
    BY <2>1, <2>2, <2>3
<1>2. PICK m \in Nat : m = Least(n, MaxRows)
  BY LogBounds DEF Least
<1>3. PICK latest : latest = Newest(entries, MaxRows)
  OBVIOUS
<1>4. /\ latest \in Seq(Nat) /\ Len(latest) = m
      /\ \A k \in 1..m : latest[k] = entries[n - m + k]
  <2>1. entries \in Seq(Nat) /\ MaxRows \in Nat
    BY LogBounds DEF ConsoleTypeOK
  <2> QED
    BY <1>1, <1>2, <1>3, <2>1, NewestNamed, SMTT(30)
<1>5. PICK tagged : tagged = [k \in DOMAIN latest |-> [entry |-> latest[k], expires |-> clock + Lifetime]]
  OBVIOUS
<1>6. /\ tagged \in Seq(ShownRow) /\ Len(tagged) = m
      /\ \A k \in 1..m : tagged[k].entry = latest[k]
  <2>1. DOMAIN latest = 1..m /\ (\A k \in 1..m : latest[k] \in Nat) /\ clock + Lifetime \in Nat
    BY <1>4, LenProperties, ElementOfSeq, LogBounds DEF ConsoleTypeOK
  <2>2. tagged \in [1..m -> ShownRow] /\ \A k \in 1..m : tagged[k].entry = latest[k]
    BY <1>5, <2>1 DEF ShownRow
  <2> QED
    BY <2>2, FunctionIsSeq
<1>7. PICK c : c = rows \o latest
  OBVIOUS
<1>8. /\ c \in Seq(Nat) /\ Len(c) = r + m
      /\ \A i \in 1..(r + m) : c[i] = IF i <= r THEN rows[i] ELSE latest[i - r]
  <2>1. rows \in Seq(Nat)
    BY DEF ConsoleTypeOK
  <2>2. /\ rows \o latest \in Seq(Nat) /\ Len(rows \o latest) = Len(rows) + Len(latest)
        /\ \A i \in 1..(Len(rows) + Len(latest)) :
             (rows \o latest)[i] = IF i <= Len(rows) THEN rows[i] ELSE latest[i - Len(rows)]
    BY <1>4, <2>1, ConcatProperties, Zenon
  <2>3. Len(rows) = r /\ Len(latest) = m
    BY <1>1, <1>4, Zenon
  <2> QED
    BY <1>7, <2>2, <2>3, Zenon
<1>9. PICK d : d = recent \o tagged
  OBVIOUS
<1>10. /\ d \in Seq(ShownRow) /\ Len(d) = q + m
       /\ \A i \in 1..(q + m) : d[i] = IF i <= q THEN recent[i] ELSE tagged[i - q]
  <2>1. recent \in Seq(ShownRow)
    BY DEF ConsoleTypeOK
  <2>2. /\ recent \o tagged \in Seq(ShownRow) /\ Len(recent \o tagged) = Len(recent) + Len(tagged)
        /\ \A i \in 1..(Len(recent) + Len(tagged)) :
             (recent \o tagged)[i] = IF i <= Len(recent) THEN recent[i] ELSE tagged[i - Len(recent)]
    BY <1>6, <2>1, ConcatProperties, Zenon
  <2>3. Len(recent) = q /\ Len(tagged) = m
    BY <1>1, <1>6, Zenon
  <2> QED
    BY <1>9, <2>2, <2>3, Zenon
<1>11. PICK R \in Nat, Q \in Nat : R = Least(r + m, MaxRows) /\ Q = Least(q + m, MaxRecent)
  BY LogBounds DEF Least
<1>12. /\ rows' = Newest(c, MaxRows) /\ recent' = Newest(d, MaxRecent) /\ entries' = <<>>
       /\ timer' = Due(recent')
  BY <1>3, <1>5, <1>7, <1>9 DEF TakeLogEntries
<1>13. /\ rows' \in Seq(Nat) /\ Len(rows') = R /\ \A k \in 1..R : rows'[k] = c[r + m - R + k]
  <2>1. c \in Seq(Nat) /\ Len(c) = r + m /\ MaxRows \in Nat
    BY <1>8, LogBounds
  <2>2. PICK new : new = Newest(c, MaxRows)
    OBVIOUS
  <2>3. new \in Seq(Nat) /\ Len(new) = R /\ \A k \in 1..R : new[k] = c[r + m - R + k]
    <3>1. PICK l \in Nat : l = r + m
      OBVIOUS
    <3>2. l = Len(c) /\ R = Least(l, MaxRows)
      BY <1>11, <2>1, <3>1
    <3>3. c \in Seq(Nat) /\ MaxRows \in Nat
      BY <2>1
    <3>4. new \in Seq(Nat) /\ Len(new) = R /\ \A k \in 1..R : new[k] = c[l - R + k]
      BY <2>2, <3>2, <3>3, NewestNamed, SMTT(30)
    <3>5. ASSUME NEW k \in 1..R PROVE new[k] = c[r + m - R + k]
      <4>1. l - R + k = r + m - R + k
        BY <3>1
      <4> QED
        BY <3>4, <4>1, Zenon
    <3> QED
      BY <3>4, <3>5, Zenon
  <2> QED
    BY <1>12, <2>2, <2>3
<1>14. /\ recent' \in Seq(ShownRow) /\ Len(recent') = Q /\ \A k \in 1..Q : recent'[k] = d[q + m - Q + k]
  <2>1. d \in Seq(ShownRow) /\ Len(d) = q + m /\ MaxRecent \in Nat
    BY <1>10, LogBounds
  <2>2. PICK new : new = Newest(d, MaxRecent)
    OBVIOUS
  <2>3. new \in Seq(ShownRow) /\ Len(new) = Q /\ \A k \in 1..Q : new[k] = d[q + m - Q + k]
    <3>1. PICK l \in Nat : l = q + m
      OBVIOUS
    <3>2. l = Len(d) /\ Q = Least(l, MaxRecent)
      BY <1>11, <2>1, <3>1
    <3>3. d \in Seq(ShownRow) /\ MaxRecent \in Nat
      BY <2>1
    <3>4. new \in Seq(ShownRow) /\ Len(new) = Q /\ \A k \in 1..Q : new[k] = d[l - Q + k]
      BY <2>2, <3>2, <3>3, NewestNamed, SMTT(30)
    <3>5. ASSUME NEW k \in 1..Q PROVE new[k] = d[q + m - Q + k]
      <4>1. l - Q + k = q + m - Q + k
        BY <3>1
      <4> QED
        BY <3>4, <4>1, Zenon
    <3> QED
      BY <3>4, <3>5, Zenon
  <2> QED
    BY <1>12, <2>2, <2>3
<1>15. /\ 1 <= m /\ m <= n /\ m <= MaxRows /\ (m < MaxRows => m = n)
       /\ R <= r + m /\ R <= MaxRows /\ m <= R /\ Q <= q + m /\ Q <= MaxRecent
       /\ q <= r /\ r <= MaxRows /\ Q <= R
       /\ x + n <= g /\ n <= MaxEntries
  <2>1. q <= r /\ r <= MaxRows /\ x + n <= g /\ n <= MaxEntries
    BY <1>1 DEF RecentFollow, Buffered
  <2>2. PICK rowsMost \in Nat, recentMost \in Nat :
          /\ rowsMost = MaxRows /\ recentMost = MaxRecent
          /\ 1 <= rowsMost /\ recentMost <= rowsMost
    BY LogBounds
  <2>3. m = Least(n, rowsMost) /\ R = Least(r + m, rowsMost) /\ Q = Least(q + m, recentMost)
    BY <1>2, <1>11, <2>2
  <2>4. /\ 1 <= m /\ m <= n /\ m <= rowsMost /\ (m < rowsMost => m = n)
        /\ R <= r + m /\ R <= rowsMost /\ m <= R /\ Q <= q + m /\ Q <= recentMost /\ Q <= R
    <3>1. n >= 1 /\ q <= r /\ r <= rowsMost
      BY <1>1, <2>1, <2>2
    <3> QED
      BY ONLY <2>2, <2>3, <3>1, n \in Nat, m \in Nat, r \in Nat, q \in Nat, R \in Nat, Q \in Nat
      DEF Least
  <2> QED
    BY <2>1, <2>2, <2>4
<1>16. n < MaxEntries => /\ r = Least(g - n - x, MaxRows)
                         /\ \A k \in 1..r : rows[k] + r = g - n + k
  BY <1>1 DEF RowsFollow, IsRun
<1>17. R = Least(g - x, MaxRows)
  BY <1>2, <1>11, <1>15, <1>16, LogBounds DEF Least
<1>18. ASSUME NEW k \in 1..R PROVE rows'[k] + R = g + k
  <2>1. PICK j \in Nat : j = r + m - R + k /\ j >= 1 /\ j <= r + m
    BY <1>15
  <2>2. rows'[k] = c[j]
    BY <1>13, <2>1
  <2>3. CASE j <= r
    <3>1. m = n /\ n < MaxEntries /\ j \in 1..r
      BY <1>15, <2>1, <2>3, LogBounds
    <3>2. rows'[k] = rows[j]
      BY <1>8, <2>1, <2>2, <2>3
    <3>3. PICK v \in Nat : v = rows[j] /\ v + r = g - n + j
      BY <1>16, <1>22, <3>1
    <3>4. rows'[k] = v
      BY <3>2, <3>3
    <3> QED
      BY <2>1, <3>1, <3>3, <3>4
  <2>4. CASE ~(j <= r)
    <3>1. PICK i \in Nat : i = n - m + (j - r) /\ i >= 1 /\ i <= n
      BY <1>15, <2>1, <2>4
    <3>2. rows'[k] = entries[i]
      <4>1. j - r \in 1..m /\ j \in 1..(r + m)
        BY <2>1, <2>4
      <4> QED
        BY <1>4, <1>8, <2>2, <2>4, <3>1, <4>1
    <3>3. PICK v \in Nat : v = entries[i] /\ v + n = g + i
      <4>1. i \in 1..n
        BY <3>1
      <4> QED
        BY <1>22, <4>1, Zenon
    <3>4. rows'[k] = v
      BY <3>2, <3>3
    <3>5. v + R = g + k
      BY ONLY <2>1, <3>1, <3>3, n \in Nat, g \in Nat, m \in Nat, r \in Nat, R \in Nat, k \in 1..R
    <3> QED
      BY <3>4, <3>5
  <2> QED
    BY <2>3, <2>4
<1>19. RowsFollow'
  <2>1. Len(entries') = 0 /\ g - 0 = g /\ g - 0 - x = g - x
    BY <1>12, EmptySeq
  <2> QED
    BY <1>1, <1>13, <1>17, <1>18, <2>1 DEF RowsFollow, IsRun
<1>20. ASSUME NEW k \in 1..Q PROVE recent'[k].entry = rows'[R - Q + k]
  <2>1. PICK j \in Nat, i \in Nat :
          /\ j = q + m - Q + k /\ j >= 1 /\ j <= q + m
          /\ i = r + m - Q + k /\ i >= 1 /\ i <= r + m
    BY <1>15
  <2>2. rows'[R - Q + k] = c[i]
    <3>1. R - Q + k \in 1..R /\ r + m - R + (R - Q + k) = i
      BY <1>15, <2>1
    <3> QED
      BY <1>13, <3>1
  <2>3. recent'[k] = d[j]
    BY <1>14, <2>1
  <2>4. CASE j <= q
    <3>1. recent[j].entry = rows[r - q + j]
      <4>1. j \in 1..q
        BY <2>1, <2>4
      <4> QED
        BY <1>22, <4>1, Zenon
    <3>2. r - q + j = i /\ i <= r
      BY <1>15, <2>1, <2>4
    <3>3. c[i] = rows[i]
      <4>1. i \in 1..(r + m)
        BY <2>1
      <4> QED
        BY <1>8, <3>2, <4>1, Zenon
    <3>4. d[j] = recent[j]
      <4>1. j \in 1..(q + m)
        BY <2>1
      <4> QED
        BY <1>10, <2>4, <4>1, Zenon
    <3> QED
      BY <2>2, <2>3, <3>1, <3>2, <3>3, <3>4, Zenon
  <2>5. CASE ~(j <= q)
    <3>1. j - q \in 1..m /\ i - r = j - q /\ ~(i <= r)
      BY <1>15, <2>1, <2>5
    <3>2. d[j] = tagged[j - q] /\ tagged[j - q].entry = latest[j - q]
      BY <1>6, <1>10, <2>1, <2>5, <3>1
    <3>3. c[i] = latest[i - r]
      <4>1. i \in 1..(r + m)
        BY <2>1
      <4> QED
        BY <1>8, <3>1, <4>1
    <3> QED
      BY <2>2, <2>3, <3>1, <3>2, <3>3, Zenon
  <2> QED
    BY <2>4, <2>5
<1>21. RecentFollow'
  BY <1>12, <1>13, <1>14, <1>15, <1>20 DEF RecentFollow
<1> QED
  BY <1>12, <1>13, <1>14, <1>19, <1>21

(* A take leaves nothing in the buffer, whether or not something was there.  *)
LEMMA TakeStep ==
  ASSUME ConsoleInv, TakeLogEntries, UNCHANGED <<logged, missed, clock, wakeup>>, posted' \in Nat,
         console \in {"wakes", "open"}, console' = "open"
  PROVE  ConsoleInv'
<1>1. entries' = <<>>
  BY DEF TakeLogEntries
<1>2. Woken'
  BY <1>1 DEF ConsoleInv, Woken
<1>3. entries' \in Seq(Nat) /\ Len(entries') = 0
  BY <1>1, EmptySeq
<1>4. Buffered'
  <2>1. 0 <= MaxEntries /\ missed <= logged
    <3>1. Len(entries) \in Nat /\ logged \in Nat /\ missed \in Nat
      BY LenProperties DEF ConsoleInv, ConsoleTypeOK
    <3> QED
      BY <3>1, LogBounds DEF ConsoleInv, Buffered
  <2>2. missed \in Nat
    BY DEF ConsoleInv, ConsoleTypeOK
  <2> QED
    BY <1>3, <2>1, <2>2 DEF Buffered, IsRun
<1>5. CASE entries # <<>>
  BY <1>2, <1>3, <1>4, <1>5, TakeRows DEF ConsoleInv, ConsoleTypeOK
<1>6. CASE entries = <<>>
  <2>1. UNCHANGED <<entries, rows, recent, timer>>
    BY <1>6 DEF TakeLogEntries
  <2> QED
    BY <1>2, <1>4, <2>1 DEF ConsoleInv, ConsoleTypeOK, RowsFollow, RecentFollow, IsRun, Due
<1> QED
  BY <1>5, <1>6

(* The recent ones expire from the front.                                    *)
LEMMA ExpiryStep ==
  ASSUME ConsoleInv, ExpireRecentEntries
  PROVE  ConsoleInv'
<1>1. PICK n \in 0..Len(recent) : recent' = SubSeq(recent, n + 1, Len(recent))
  BY DEF ExpireRecentEntries
<1>2. PICK q \in Nat, r \in Nat : q = Len(recent) /\ r = Len(rows)
  BY LenProperties DEF ConsoleInv, ConsoleTypeOK
<1>3. /\ q <= r /\ r <= MaxRows
      /\ \A k \in 1..q : recent[k].entry = rows[r - q + k] /\ recent[k] \in ShownRow
  BY <1>2, ElementOfSeq DEF ConsoleInv, ConsoleTypeOK, RecentFollow
<1>4. n \in Nat /\ n <= q
  BY <1>1, <1>2
<1>5. PICK a \in Int, p \in Nat : a = n + 1 /\ p = q - n
  BY <1>4
<1>6. /\ recent' \in Seq(ShownRow) /\ Len(recent') = p
      /\ \A k \in 1..p : recent'[k] = recent[n + k]
  <2>1. \A i \in a..q : recent[i] \in ShownRow
    BY <1>3, <1>4, <1>5
  <2>2. /\ SubSeq(recent, a, q) \in Seq(ShownRow)
        /\ Len(SubSeq(recent, a, q)) = IF a <= q THEN q - a + 1 ELSE 0
        /\ \A i \in 1..(q - a + 1) : SubSeq(recent, a, q)[i] = recent[a + i - 1]
    BY <2>1, SubSeqProperties
  <2>3. /\ (IF a <= q THEN q - a + 1 ELSE 0) = p /\ q - a + 1 = p
        /\ \A i \in Int : a + i - 1 = n + i
    BY <1>4, <1>5
  <2>4. recent' = SubSeq(recent, a, q)
    BY <1>1, <1>2, <1>5
  <2> QED
    <3>1. \A i \in 1..p : i \in Int
      OBVIOUS
    <3>2. recent' \in Seq(ShownRow) /\ Len(recent') = p
      BY <2>2, <2>3, <2>4, Zenon
    <3>3. ASSUME NEW i \in 1..p PROVE recent'[i] = recent[n + i]
      <4>1. i \in 1..(q - a + 1) /\ a + i - 1 = n + i
        BY <2>3, <3>1, <3>3
      <4> QED
        BY <2>2, <2>4, <4>1, Zenon
    <3> QED
      BY <3>2, <3>3
<1>7. ASSUME NEW k \in 1..p PROVE recent'[k].entry = rows[r - p + k]
  <2>1. n + k \in 1..q /\ r - q + (n + k) = r - p + k
    BY <1>3, <1>4, <1>5
  <2> QED
    BY <1>3, <1>6, <2>1
<1>8. /\ timer' = Due(recent')
      /\ UNCHANGED <<wakeup, console, rows, missed, logged, entries, posted, clock>>
  BY DEF ExpireRecentEntries, bufferVars
<1>9. RecentFollow'
  <2>1. p <= r
    BY <1>3, <1>4, <1>5
  <2> QED
    BY <1>2, <1>3, <1>6, <1>7, <1>8, <2>1 DEF RecentFollow
<1> QED
  BY <1>6, <1>8, <1>9 DEF ConsoleInv, ConsoleTypeOK, Buffered, RowsFollow, Woken, IsRun

(* Nothing of the console moves.                                             *)
LEMMA ConsoleFrame ==
  ASSUME ConsoleInv,
         UNCHANGED <<logged, missed, posted, clock, entries, rows, recent, timer, wakeup, console>>
  PROVE  ConsoleInv'
  BY DEF ConsoleInv, ConsoleTypeOK, Buffered, RowsFollow, RecentFollow, Woken, IsRun, Due

(* A step after which nothing is shown, and no message is owed to a row.     *)
LEMMA NothingShown ==
  ASSUME rows' = <<>>, recent' = <<>>, timer' = <<>>,
         logged' \in Nat, missed' \in Nat, Len(entries') \in Nat, missed' = logged' - Len(entries')
  PROVE  RowsFollow' /\ RecentFollow'
<1>1. Len(rows') = 0 /\ Len(recent') = 0
  BY EmptySeq
<1>2. RowsFollow'
  <2>1. PICK n \in Nat, g \in Nat, x \in Nat : n = Len(entries') /\ g = logged' /\ x = missed'
    OBVIOUS
  <2>2. x = g - n /\ g - n - x = 0
    BY <2>1
  <2>3. Least(0, MaxRows) = 0
    BY LogBounds DEF Least
  <2> QED
    BY <1>1, <2>1, <2>2, <2>3 DEF RowsFollow, IsRun
<1>3. RecentFollow'
  BY <1>1, LogBounds DEF RecentFollow, Due
<1> QED
  BY <1>2, <1>3

(* Every step of the logger keeps the invariant of the console.              *)
LEMMA ConsoleStep ==
  ASSUME ConsoleInv, LogNext
  PROVE  ConsoleInv'
<1>1. CASE \E s \in {"info", "error"} : Log(s)
  BY <1>1, SinkStep DEF Log, consoleVars
<1>2. CASE \E opens \in BOOLEAN : OpenLogFile(opens)
  <2>1. PICK opens \in BOOLEAN : OpenLogFile(opens)
    BY <1>2
  <2>2. Passes(IF opens THEN "info" ELSE "error") \in BOOLEAN
    BY DEF Passes
  <2> QED
    BY <2>1, <2>2, SinkStep DEF OpenLogFile, consoleVars
<1>3. CASE DisableFileLogging
  <2>1. Passes("info") \in BOOLEAN
    BY DEF Passes
  <2> QED
    BY <1>3, <2>1, SinkStep DEF DisableFileLogging, consoleVars
<1>4. CASE FirstTake
  BY <1>4, TakeStep DEF FirstTake, ConsoleInv, ConsoleTypeOK
<1>5. CASE PostedTake
  <2>1. posted' \in Nat
    BY <1>5 DEF PostedTake, ConsoleInv, ConsoleTypeOK
  <2> QED
    BY <1>5, <2>1, TakeStep DEF PostedTake
<1>6. CASE ExpireRecentEntries
  BY <1>6, ExpiryStep
<1>7. CASE OpenConsole
  BY <1>7 DEF OpenConsole, bufferVars, ConsoleInv, ConsoleTypeOK, Buffered, RowsFollow, RecentFollow,
     Woken, IsRun, Due
<1>8. CASE CloseConsole
  <2>1. /\ console' = "none" /\ wakeup' = FALSE /\ posted' = 0 /\ rows' = <<>> /\ recent' = <<>>
        /\ timer' = <<>> /\ missed' = logged - Len(entries) /\ UNCHANGED <<logged, entries, clock>>
    BY <1>8 DEF CloseConsole, bufferVars
  <2>2. PICK n \in Nat, g \in Nat, x \in Nat : n = Len(entries) /\ g = logged /\ x = missed
    BY LenProperties DEF ConsoleInv, ConsoleTypeOK
  <2>3. x + n <= g /\ n <= MaxEntries
    BY <2>2 DEF ConsoleInv, Buffered
  <2>4. missed' \in Nat /\ missed' + n = g /\ missed' = g - n /\ missed' + n <= g
    BY <2>1, <2>2, <2>3
  <2>5. RowsFollow' /\ RecentFollow'
    BY <2>1, <2>2, <2>4, NothingShown
  <2>6. Buffered'
    BY <2>1, <2>2, <2>4 DEF ConsoleInv, Buffered, IsRun
  <2> QED
    BY <2>1, <2>4, <2>5, <2>6, EmptySeq DEF ConsoleInv, ConsoleTypeOK, Woken
<1>9. CASE Crash
  <2>1. /\ logged' = 0 /\ entries' = <<>> /\ rows' = <<>> /\ recent' = <<>> /\ timer' = <<>>
        /\ missed' = 0 /\ posted' = 0 /\ wakeup' = FALSE /\ console' = "none" /\ clock' = clock
    BY <1>9 DEF Crash, ProgramStarts
  <2>2. Len(entries') = 0 /\ entries' \in Seq(Nat)
    BY <2>1, EmptySeq
  <2>3. RowsFollow' /\ RecentFollow'
    <3>1. logged' \in Nat /\ missed' \in Nat /\ Len(entries') \in Nat
      BY <2>1, <2>2
    <3>2. missed' = logged' - Len(entries')
      <4>1. 0 = 0 - 0 /\ missed' = 0 /\ logged' = 0 /\ Len(entries') = 0
        BY <2>1, <2>2
      <4> QED
        BY <4>1, Zenon
    <3> QED
      BY <2>1, <3>1, <3>2, NothingShown, Zenon
  <2>4. Buffered'
    BY <2>1, <2>2, LogBounds DEF Buffered, IsRun
  <2> QED
    BY <2>1, <2>2, <2>3, <2>4, EmptySeq DEF ConsoleInv, ConsoleTypeOK, Woken
<1>10. CASE LogClock
  <2>1. clock' \in Nat
    BY <1>10 DEF LogClock, ConsoleInv, ConsoleTypeOK
  <2> QED
    BY <1>10, <2>1 DEF LogClock, bufferVars, consoleVars, ConsoleInv, ConsoleTypeOK, Buffered,
       RowsFollow, RecentFollow, Woken, IsRun, Due
<1>11. CASE \/ \E l \in {"all", "errors"} : SetLogLevel(l)
            \/ (\E t \in LogTargets : EnableFileLogging(t)) \/ MoveLogFile
  BY <1>11, ConsoleFrame DEF SetLogLevel, EnableFileLogging, MoveLogFile, bufferVars, consoleVars
<1> QED
  BY <1>1, <1>2, <1>3, <1>4, <1>5, <1>6, <1>7, <1>8, <1>9, <1>10, <1>11 DEF LogNext

(* The console invariant holds in every behaviour of the logger.             *)
LEMMA ConsoleInvariant == LogSpec => []ConsoleInv
<1>1. LogInit => ConsoleInv
  <2> SUFFICES ASSUME LogInit PROVE ConsoleInv
    OBVIOUS
  <2>1. Len(entries) = 0 /\ Len(rows) = 0 /\ Len(recent) = 0
    BY EmptySeq DEF LogInit
  <2>2. logged = 0 /\ missed = 0 /\ 0 - 0 = 0 /\ 0 + 0 = 0
    BY DEF LogInit
  <2>4. Buffered
    BY <2>1, <2>2, LogBounds DEF Buffered, IsRun
  <2>5. RowsFollow
    <3>1. Least(0, MaxRows) = 0
      BY LogBounds DEF Least
    <3> QED
      BY <2>1, <2>2, <3>1 DEF RowsFollow, IsRun
  <2>3. RecentFollow
    BY <2>1, LogBounds DEF LogInit, RecentFollow, Due
  <2> QED
    BY <2>3, <2>4, <2>5, EmptySeq DEF LogInit, ConsoleInv, ConsoleTypeOK, Woken
<1>2. ConsoleInv /\ [LogNext]_logVars => ConsoleInv'
  BY ConsoleStep, ConsoleFrame DEF logVars, bufferVars, consoleVars
<1> QED
  BY <1>1, <1>2, PTL DEF LogSpec

(* An open console for which no call is queued shows exactly the newest      *)
(* messages: for every size of the buffer, of the console and of the burst,  *)
(* and however logging, taking, expiry and consoles that come and go         *)
(* interleave.                                                               *)
THEOREM NewestAreShown == LogSpec => []ConsoleShowsNewest
<1>1. ConsoleInv => ConsoleShowsNewest
  <2> SUFFICES ASSUME ConsoleInv, console = "open" PROVE ConsoleShowsNewest
    BY DEF ConsoleShowsNewest
  <2>1. PICK g \in Nat, x \in Nat, r \in Nat, q \in Nat :
          g = logged /\ x = missed /\ r = Len(rows) /\ q = Len(recent)
    BY LenProperties DEF ConsoleInv, ConsoleTypeOK
  <2>2. rows \in Seq(Nat) /\ recent \in Seq(ShownRow)
    BY DEF ConsoleInv, ConsoleTypeOK
  <2>3. ASSUME posted = 0 PROVE rows = Newest([k \in 1..(logged - missed) |-> missed + k], MaxRows)
    <3>1. entries = <<>> /\ Len(entries) = 0
      BY <2>3, EmptySeq DEF ConsoleInv, Woken, ConsoleTypeOK
    <3>2. /\ \A k \in 1..r : rows[k] + r = g + k /\ rows[k] \in Nat
          /\ r = Least(g - x, MaxRows) /\ x <= g
      <4>1. g - 0 = g /\ g - 0 - x = g - x /\ 0 < MaxEntries /\ x + 0 = x
        BY LogBounds
      <4>2. IsRun(rows, g) /\ r = Least(g - x, MaxRows) /\ x <= g
        BY <2>1, <3>1, <4>1 DEF ConsoleInv, RowsFollow, Buffered
      <4> QED
        BY <2>1, <2>2, <4>2, ElementOfSeq DEF IsRun
    <3>3. PICK l \in Nat : l = g - x
      BY <3>2
    <3>4. PICK all : all = [k \in 1..l |-> x + k]
      OBVIOUS
    <3>5. all \in Seq(Nat) /\ Len(all) = l /\ \A k \in 1..l : all[k] = x + k
      <4>1. all \in [1..l -> Nat]
        BY <3>4
      <4> QED
        BY <3>4, <4>1, FunctionIsSeq
    <3>6. PICK new : new = Newest(all, MaxRows)
      OBVIOUS
    <3>7. new \in Seq(Nat) /\ Len(new) = r /\ \A k \in 1..r : new[k] = all[l - r + k]
      <4>1. l = Len(all) /\ r = Least(l, MaxRows)
        BY <3>2, <3>3, <3>5
      <4>2. all \in Seq(Nat) /\ MaxRows \in Nat
        BY <3>5, LogBounds
      <4> QED
        BY <3>6, <4>1, <4>2, NewestNamed, SMTT(30)
    <3>8. ASSUME NEW k \in 1..r PROVE rows[k] = new[k]
      <4>1. r <= l
        BY <3>2, <3>3, LogBounds DEF Least
      <4>2. l - r + k \in 1..l /\ x + (l - r + k) = g + k - r
        BY <3>2, <3>3, <4>1
      <4>3. new[k] = g + k - r
        BY <3>5, <3>7, <4>2
      <4> QED
        BY <3>2, <4>3
    <3>9. rows = new
      BY <2>1, <2>2, <3>7, <3>8, SeqEqual
    <3> QED
      BY <2>1, <3>3, <3>4, <3>6, <3>9
  <2>4. [k \in DOMAIN recent |-> recent[k].entry] = Newest(rows, Len(recent))
    <3>1. PICK shown : shown = [k \in DOMAIN recent |-> recent[k].entry]
      OBVIOUS
    <3>2. /\ q <= r /\ \A k \in 1..q : recent[k].entry = rows[r - q + k] /\ recent[k] \in ShownRow
      BY <2>1, <2>2, ElementOfSeq DEF ConsoleInv, RecentFollow
    <3>3. DOMAIN recent = 1..q
      BY <2>1, <2>2, LenProperties
    <3>4. shown \in Seq(Nat) /\ Len(shown) = q /\ \A k \in 1..q : shown[k] = rows[r - q + k]
      <4>1. shown \in [1..q -> Nat] /\ \A k \in 1..q : shown[k] = rows[r - q + k]
        BY <3>1, <3>2, <3>3 DEF ShownRow
      <4> QED
        BY <4>1, FunctionIsSeq
    <3>5. PICK new : new = Newest(rows, q)
      OBVIOUS
    <3>6. new \in Seq(Nat) /\ Len(new) = q /\ \A k \in 1..q : new[k] = rows[r - q + k]
      <4>1. q = Least(r, q)
        BY <3>2 DEF Least
      <4> QED
        BY <2>1, <2>2, <3>5, <4>1, NewestNamed, SMTT(30)
    <3>7. shown = new
      BY <3>4, <3>6, SeqEqual
    <3> QED
      BY <2>1, <3>1, <3>5, <3>7
  <2>5. recent # <<>> => timer = <<Head(recent).expires>>
    BY DEF ConsoleInv, RecentFollow, Due
  <2> QED
    BY <2>3, <2>4, <2>5 DEF ConsoleShowsNewest
<1> QED
  BY <1>1, ConsoleInvariant, PTL

-----------------------------------------------------------------------------
(* ExternalPublishers: a destination that is told of a topic knows what was*)
(* sent last.                                                              *)

(* What a destination knows of a topic.                                      *)
Known == [length : Nat, parts : [1..Longest -> Nat]]

ExternalTypeOK ==
  /\ publisher \in {"mqtt", "osc"}
  /\ options \in Options /\ taken \in Options
  /\ link \in {0} \cup Targets
  /\ silencer \subseteq Published /\ unsure \subseteq Published
  /\ destination \in [Targets -> [Published -> Known]]
  /\ meant \in [Published -> [length : Nat, update : Nat]]
  /\ updates \in Nat

(* With nothing of the settings under way, a connection is to their target.  *)
LinkFollows ==
  ~changedOptions /\ ~unnotified /\ ~behind => link \in {0, options.target}

(* A topic that was told has what was meant, whether or not the connection   *)
(* is up just now: a loss is noticed at the next value, a new one starts     *)
(* with every topic unsure.                                                  *)
Current(has, m) ==
  /\ has.length = m.length /\ has.length <= Longest
  /\ \A i \in 1..has.length : has.parts[i] = m.update
ToldIsCurrent ==
  link # 0 => \A p \in Published \ unsure : Current(destination[link][p], meant[p])

(* A topic that set the flag is empty at the destination; OSC has no flag.   *)
SilencedIsEmpty ==
  /\ publisher = "osc" => silencer = {}
  /\ link # 0 => \A p \in silencer : destination[link][p].length = 0

ExternalInv == ExternalTypeOK /\ LinkFollows /\ ToldIsCurrent /\ SilencedIsEmpty

-----------------------------------------------------------------------------
(* The longest of the lengths is one, and none is longer.                    *)
LEMMA LongestBounds == Longest \in Nat /\ \A l \in Lengths : l <= Longest
<1>1. PICK m \in Lengths : \A l \in Lengths : m >= l
  BY ExternalAssumption
<1>2. Longest \in Lengths /\ \A l \in Lengths : Longest >= l
  BY <1>1 DEF Longest, Max
<1> QED
  BY <1>2, ExternalAssumption

(* The smaller of two lengths.                                               *)
LEMMA MinOfTwo ==
  ASSUME NEW a \in Nat, NEW b \in Nat
  PROVE  Min({a, b}) \in Nat /\ Min({a, b}) <= a
<1>1. \E x \in {a, b} : \A y \in {a, b} : x =< y
  <2>1. a =< b \/ b =< a
    OBVIOUS
  <2>2. a =< a /\ b =< b
    OBVIOUS
  <2> QED
    BY <2>1, <2>2, Zenon
<1>2. Min({a, b}) \in {a, b} /\ \A y \in {a, b} : Min({a, b}) =< y
  BY <1>1, Zenon DEF Min
<1> QED
  BY <1>2

-----------------------------------------------------------------------------
(* What a publication may do to the destinations: its own topic is replaced  *)
(* by something of the kind, and no other topic is touched.                  *)
OnlyTopic(p) ==
  /\ destination' \in [Targets -> [Published -> Known]]
  /\ \A q \in Published : q # p => destination'[link][q] = destination[link][q]

(* What the topic has afterwards is the value that was meant.                *)
HoldsMeant(p, length) ==
  /\ destination'[link][p].length = length /\ length <= Longest
  /\ \A i \in 1..length : destination'[link][p].parts[i] = updates + 1

(* A message of MQTT that arrives is the value that was meant.               *)
LEMMA ArrivedFacts ==
  ASSUME ExternalTypeOK, link # 0, NEW p \in Published, NEW length \in Nat, length <= Longest,
         Arrived(p, length)
  PROVE  OnlyTopic(p) /\ HoldsMeant(p, length)
<1>1. link \in Targets /\ destination \in [Targets -> [Published -> Known]] /\ updates + 1 \in Nat
      /\ Longest \in Nat
  BY LongestBounds DEF ExternalTypeOK
<1> DEFINE now == [length |-> length,
                   parts |-> [i \in 1..Longest |-> IF i <= length THEN updates + 1 ELSE 0]]
<1>2. destination' = [destination EXCEPT ![link][p] = now]
  BY DEF Arrived
<1>3. now \in Known
  BY <1>1 DEF Known
<1>4. /\ destination' \in [Targets -> [Published -> Known]] /\ destination'[link][p] = now
      /\ \A q \in Published : q # p => destination'[link][q] = destination[link][q]
  BY <1>1, <1>2, <1>3
<1>5. now.length = length /\ \A i \in 1..length : now.parts[i] = updates + 1
  BY <1>1
<1> QED
  BY <1>4, <1>5, Zenon DEF OnlyTopic, HoldsMeant

(* The datagrams of OSC replace what they reach; when all of them arrived,   *)
(* the topic has the value that was meant.                                   *)
LEMMA ElementsFacts ==
  ASSUME ExternalTypeOK, link # 0, NEW p \in Published, NEW sends \in Nat, sends <= Longest,
         NEW lengthIn \in BOOLEAN, NEW reached \in SUBSET (1..sends),
         destination' = [destination EXCEPT ![link][p] =
           [length |-> IF lengthIn THEN sends ELSE @.length,
            parts |-> [i \in 1..Longest |-> IF i \in reached THEN updates + 1
                                            ELSE @.parts[i]]]]
  PROVE  OnlyTopic(p) /\ (lengthIn /\ reached = 1..sends => HoldsMeant(p, sends))
<1>1. link \in Targets /\ destination \in [Targets -> [Published -> Known]] /\ updates + 1 \in Nat
      /\ Longest \in Nat
  BY LongestBounds DEF ExternalTypeOK
<1> DEFINE had == destination[link][p]
           now == [length |-> IF lengthIn THEN sends ELSE had.length,
                   parts |-> [i \in 1..Longest |-> IF i \in reached THEN updates + 1
                                                   ELSE had.parts[i]]]
<1>2. destination' = [destination EXCEPT ![link][p] = now]
  BY <1>1
<1>3. had \in Known
  BY <1>1
<1>4. now \in Known
  BY <1>1, <1>3 DEF Known
<1>5. /\ destination' \in [Targets -> [Published -> Known]] /\ destination'[link][p] = now
      /\ \A q \in Published : q # p => destination'[link][q] = destination[link][q]
  BY <1>1, <1>2, <1>4
<1>6. ASSUME lengthIn, reached = 1..sends
      PROVE  now.length = sends /\ \A i \in 1..sends : now.parts[i] = updates + 1
  BY <1>1, <1>6
<1> QED
  BY <1>5, <1>6, Zenon DEF OnlyTopic, HoldsMeant

(* A topic that was told is current afterwards, and the others as they were. *)
LEMMA ToldFacts ==
  ASSUME ExternalTypeOK, ToldIsCurrent, link # 0, link' = link, NEW p \in Published,
         NEW length \in Nat, OnlyTopic(p), HoldsMeant(p, length), Told(p, length)
  PROVE  /\ ToldIsCurrent'
         /\ meant' \in [Published -> [length : Nat, update : Nat]] /\ unsure' \subseteq Published
<1>1. /\ meant' = [meant EXCEPT ![p] = [length |-> length, update |-> updates + 1]]
      /\ unsure' = unsure \ {p}
      /\ meant \in [Published -> [length : Nat, update : Nat]] /\ updates + 1 \in Nat
  BY DEF Told, ExternalTypeOK
<1>2. /\ meant' \in [Published -> [length : Nat, update : Nat]]
      /\ meant'[p].length = length /\ meant'[p].update = updates + 1
      /\ \A q \in Published : q # p => meant'[q] = meant[q]
  BY <1>1
<1>3. Current(destination[link][p], meant[p])'
  BY <1>2 DEF Current, HoldsMeant
<1>4. ASSUME NEW q \in Published \ unsure', q # p PROVE Current(destination[link][q], meant[q])'
  <2>1. q \in Published \ unsure /\ meant'[q] = meant[q]
    BY <1>1, <1>2, <1>4
  <2>2. destination'[link'][q] = destination[link][q]
    BY <1>4 DEF OnlyTopic
  <2>3. Current(destination[link][q], meant[q])
    BY <2>1 DEF ToldIsCurrent
  <2> QED
    BY <2>1, <2>2, <2>3 DEF Current
<1>5. ToldIsCurrent'
  BY <1>3, <1>4 DEF ToldIsCurrent
<1> QED
  BY <1>1, <1>2, <1>5 DEF ExternalTypeOK

(* A topic that may have lost something is unsure, and the others are as     *)
(* they were.                                                                *)
LEMMA NotToldFacts ==
  ASSUME ExternalTypeOK, ToldIsCurrent, link # 0, link' = link, NEW p \in Published,
         OnlyTopic(p), NotTold(p)
  PROVE  ToldIsCurrent' /\ UNCHANGED meant /\ unsure' \subseteq Published
<1>1. unsure' = unsure \cup {p} /\ UNCHANGED meant
  BY DEF NotTold
<1>2. ASSUME NEW q \in Published \ unsure' PROVE Current(destination[link][q], meant[q])'
  <2>1. q \in Published \ unsure /\ q # p
    BY <1>1, <1>2
  <2>2. destination'[link'][q] = destination[link][q]
    BY <2>1 DEF OnlyTopic
  <2>3. Current(destination[link][q], meant[q])
    BY <2>1 DEF ToldIsCurrent
  <2> QED
    BY <1>1, <2>2, <2>3 DEF Current
<1> QED
  BY <1>1, <1>2 DEF ToldIsCurrent, ExternalTypeOK

(* A new connection, or none, knows of no topic and has silenced none.       *)
LEMMA NewConnection ==
  ASSUME ExternalTypeOK, SilencedIsEmpty, Reconnected, link' \in {0} \cup Targets,
         UNCHANGED <<publisher, destination, meant, updates>>,
         options' \in Options, taken' \in Options
  PROVE  ExternalTypeOK' /\ ToldIsCurrent' /\ SilencedIsEmpty'
  BY DEF Reconnected, ExternalTypeOK, ToldIsCurrent, SilencedIsEmpty

(* One update, whatever becomes of it.                                       *)
LEMMA UpdateStep ==
  ASSUME ExternalTypeOK, ToldIsCurrent, SilencedIsEmpty, NEW p \in Published, HandleUpdate(p)
  PROVE  ExternalTypeOK' /\ ToldIsCurrent' /\ SilencedIsEmpty'
<1>1. PICK length \in Lengths :
        IF link = 0 \/ ~online THEN Missed(p) /\ UNCHANGED silenceVars
        ELSE IF publisher = "osc" THEN SendElements(p, length)
        ELSE IF Publishes(length) THEN Publish(p, length)
        ELSE Withheld(p)
  BY DEF HandleUpdate
<1>2. /\ updates' = updates + 1 /\ updates' \in Nat /\ UNCHANGED <<publisher, link, options, taken>>
      /\ length \in Nat /\ length <= Longest
  BY LongestBounds, ExternalAssumption DEF HandleUpdate, ExternalTypeOK, linkVars, optionVars
<1>3. CASE Missed(p) /\ UNCHANGED silenceVars
  <2>1. UNCHANGED <<destination, meant, silencer>> /\ unsure' = unsure \cup {p}
    BY <1>3 DEF Missed, NotTold, silenceVars
  <2> QED
    BY <1>2, <2>1 DEF ExternalTypeOK, ToldIsCurrent, SilencedIsEmpty, Current
<1>4. CASE publisher = "osc" /\ link # 0 /\ SendElements(p, length)
  <2>1. PICK sends : sends = Min({length, CloudLimit})
    OBVIOUS
  <2>2. sends \in Nat /\ sends <= Longest
    <3>1. sends \in Nat /\ sends <= length
      BY <1>2, <2>1, MinOfTwo, ExternalAssumption
    <3> QED
      BY <1>2, <3>1, LongestBounds
  <2>3. PICK lengthIn \in BOOLEAN, reached \in SUBSET (1..sends) :
          /\ destination' = [destination EXCEPT ![link][p] =
               [length |-> IF lengthIn THEN sends ELSE @.length,
                parts |-> [i \in 1..Longest |-> IF i \in reached THEN updates + 1
                                                ELSE @.parts[i]]]]
          /\ IF lengthIn /\ reached = 1..sends THEN Told(p, sends) ELSE NotTold(p)
          /\ UNCHANGED silenceVars
    BY <1>4, <2>1 DEF SendElements
  <2>4. OnlyTopic(p) /\ (lengthIn /\ reached = 1..sends => HoldsMeant(p, sends))
    BY <1>4, <2>2, <2>3, ElementsFacts
  <2>5. /\ ToldIsCurrent' /\ meant' \in [Published -> [length : Nat, update : Nat]]
        /\ unsure' \subseteq Published
    <3>1. CASE lengthIn /\ reached = 1..sends
      BY <1>2, <1>4, <2>2, <2>3, <2>4, <3>1, ToldFacts
    <3>2. CASE ~(lengthIn /\ reached = 1..sends)
      BY <1>2, <1>4, <2>3, <2>4, <3>2, NotToldFacts DEF ExternalTypeOK
    <3> QED
      BY <3>1, <3>2
  <2>6. silencer = {} /\ UNCHANGED silencer
    BY <1>4, <2>3 DEF SilencedIsEmpty, silenceVars
  <2> QED
    BY <1>2, <1>4, <2>4, <2>5, <2>6 DEF ExternalTypeOK, SilencedIsEmpty, OnlyTopic
<1>5. CASE publisher = "mqtt" /\ link # 0 /\ Publish(p, length)
  <2>1. CASE Delivery(p, length)
    <3>1. /\ Arrived(p, length) /\ Told(p, length)
          /\ silencer' = IF length = 0 THEN silencer \cup {p} ELSE {}
      BY <2>1 DEF Delivery
    <3>2. OnlyTopic(p) /\ HoldsMeant(p, length)
      BY <1>2, <1>5, <3>1, ArrivedFacts
    <3>3. \A q \in silencer' : destination'[link][q].length = 0
      <4>1. \A q \in silencer : q \in Published /\ destination[link][q].length = 0
        BY <1>5 DEF SilencedIsEmpty, ExternalTypeOK
      <4> QED
        BY <3>1, <3>2, <4>1 DEF OnlyTopic, HoldsMeant
    <3>4. silencer' \subseteq Published
      BY <3>1 DEF ExternalTypeOK
    <3>5. /\ ToldIsCurrent' /\ meant' \in [Published -> [length : Nat, update : Nat]]
          /\ unsure' \subseteq Published
      BY <1>2, <1>5, <3>1, <3>2, ToldFacts
    <3> QED
      BY <1>2, <1>5, <3>2, <3>3, <3>4, <3>5 DEF ExternalTypeOK, SilencedIsEmpty, OnlyTopic
  <2>2. CASE /\ Arrived(p, length) \/ UNCHANGED destination
             /\ NotTold(p) /\ silencer' = silencer \ {p}
    <3>1. OnlyTopic(p)
      BY <1>2, <1>5, <2>2, ArrivedFacts DEF OnlyTopic, ExternalTypeOK
    <3>2. \A q \in silencer' : destination'[link][q].length = 0
      <4>1. \A q \in silencer : q \in Published /\ destination[link][q].length = 0
        BY <1>5 DEF SilencedIsEmpty, ExternalTypeOK
      <4> QED
        BY <2>2, <3>1, <4>1 DEF OnlyTopic
    <3>3. ToldIsCurrent' /\ UNCHANGED meant /\ unsure' \subseteq Published
      BY <1>2, <1>5, <2>2, <3>1, NotToldFacts
    <3> QED
      BY <1>2, <1>5, <2>2, <3>1, <3>2, <3>3 DEF ExternalTypeOK, SilencedIsEmpty, OnlyTopic
  <2> QED
    BY <1>5, <2>1, <2>2 DEF Publish
<1>6. CASE publisher = "mqtt" /\ link # 0 /\ ~Publishes(length) /\ Withheld(p)
  <2>1. UNCHANGED silencer
    BY <1>6 DEF Withheld, silenceVars
  <2>2. CASE UNCHANGED destinationVars
    BY <1>2, <2>1, <2>2 DEF destinationVars, ExternalTypeOK, ToldIsCurrent, SilencedIsEmpty, Current
  <2>3. CASE Missed(p)
    BY <1>2, <2>1, <2>3 DEF Missed, NotTold, ExternalTypeOK, ToldIsCurrent, SilencedIsEmpty, Current
  <2>4. CASE /\ p \in silencer /\ meant' = [meant EXCEPT ![p] = [length |-> 0, update |-> updates + 1]]
             /\ unsure' = unsure \ {p} /\ UNCHANGED destination
    <3>1. meant \in [Published -> [length : Nat, update : Nat]] /\ updates + 1 \in Nat
      BY DEF ExternalTypeOK
    <3>2. /\ meant' \in [Published -> [length : Nat, update : Nat]] /\ meant'[p].length = 0
          /\ \A q \in Published : q # p => meant'[q] = meant[q]
      BY <2>4, <3>1
    <3>3. destination[link][p].length = 0 /\ 0 <= Longest /\ \A i \in 1..0 : FALSE
      BY <1>6, <2>4, LongestBounds DEF SilencedIsEmpty
    <3>4. Current(destination[link][p], meant[p])'
      BY <1>2, <2>4, <3>2, <3>3 DEF Current
    <3>5. ASSUME NEW q \in Published \ unsure', q # p PROVE Current(destination[link][q], meant[q])'
      BY <1>2, <1>6, <2>4, <3>2, <3>5 DEF Current, ToldIsCurrent
    <3>6. ToldIsCurrent'
      BY <3>4, <3>5 DEF ToldIsCurrent
    <3> QED
      BY <1>2, <2>1, <2>4, <3>2, <3>6 DEF ExternalTypeOK, SilencedIsEmpty
  <2> QED
    BY <1>6, <2>2, <2>3, <2>4 DEF Withheld
<1> QED
  BY <1>1, <1>3, <1>4, <1>5, <1>6 DEF ExternalTypeOK

(* Every other step leaves the destinations alone; some start a connection.  *)
LEMMA OtherSteps ==
  ASSUME ExternalTypeOK, ToldIsCurrent, SilencedIsEmpty, ExternalNext,
         \A p \in Published : ~HandleUpdate(p)
  PROVE  ExternalTypeOK' /\ ToldIsCurrent' /\ SilencedIsEmpty'
<1>1. UNCHANGED <<publisher, destination, meant, updates>>
  BY DEF ExternalNext, EditOptions, ReplaceOptions, NotifyOptions, ReadOptions, TakeChanges,
     TickPublisher, BrokerLost, NoMoreUpdates, destinationVars
<1>2. options' \in Options /\ taken' \in Options
  BY DEF ExternalNext, EditOptions, ReplaceOptions, NotifyOptions, ReadOptions, TakeChanges,
     TickPublisher, BrokerLost, NoMoreUpdates, ExternalTypeOK, optionVars, OneFieldOff
<1>3. CASE UNCHANGED <<link, silencer, unsure>>
  BY <1>1, <1>2, <1>3 DEF ExternalTypeOK, ToldIsCurrent, SilencedIsEmpty, Current
<1>4. CASE Reconnected /\ link' \in {0} \cup Targets
  BY <1>1, <1>2, <1>4, NewConnection
<1>5. CASE TakeChanges /\ changedOptions
  <2>1. taken.target \in {0} \cup Targets
    BY DEF ExternalTypeOK, Options
  <2>2. \/ link' = 0 /\ Reconnected
        \/ UNCHANGED <<link, silencer, unsure>>
        \/ link' \in {0, taken.target} /\ Reconnected
    BY <1>5 DEF TakeChanges, HandleConfigChange, ConnectTo
  <2> QED
    BY <1>3, <1>4, <2>1, <2>2
<1>6. CASE \/ EditOptions \/ ReplaceOptions \/ NotifyOptions \/ ReadOptions \/ BrokerLost
           \/ NoMoreUpdates \/ (TakeChanges /\ ~changedOptions)
  BY <1>3, <1>6 DEF EditOptions, ReplaceOptions, NotifyOptions, ReadOptions, BrokerLost,
     NoMoreUpdates, TakeChanges, linkVars, silenceVars, destinationVars
<1>7. CASE TickPublisher
  BY <1>3, <1>4, <1>7 DEF TickPublisher, ExternalTypeOK
<1> QED
  BY <1>5, <1>6, <1>7 DEF ExternalNext

(* Every step keeps the connection to the target of the settings, or leaves  *)
(* something of the settings under way.                                      *)
LEMMA LinkStep ==
  ASSUME ExternalTypeOK, LinkFollows, ExternalNext
  PROVE  LinkFollows'
<1>1. CASE EditOptions \/ ReplaceOptions \/ NotifyOptions
  BY <1>1 DEF EditOptions, ReplaceOptions, NotifyOptions, LinkFollows
<1>2. CASE TakeChanges /\ changedOptions
  <2>1. /\ link' \in {0, taken.target} /\ behind' = (taken # options) /\ options' = options
    BY <1>2 DEF TakeChanges, HandleConfigChange, ConnectTo
  <2> QED
    BY <2>1 DEF LinkFollows
<1>3. CASE TakeChanges /\ ~changedOptions
  BY <1>3 DEF TakeChanges, LinkFollows, linkVars
<1>4. CASE \/ ReadOptions \/ BrokerLost \/ NoMoreUpdates \/ TickPublisher
           \/ \E p \in Published : HandleUpdate(p)
  BY <1>4 DEF ReadOptions, BrokerLost, NoMoreUpdates, TickPublisher, HandleUpdate, LinkFollows,
     optionVars, linkVars
<1> QED
  BY <1>1, <1>2, <1>3, <1>4 DEF ExternalNext

(* The publishers' invariant holds in every behaviour.                       *)
LEMMA ExternalInvariant == ExternalSpec => []ExternalInv
<1>1. ExternalInit => ExternalInv
  <2> SUFFICES ASSUME ExternalInit PROVE ExternalInv
    OBVIOUS
  <2>1. Untold \in Known
    BY LongestBounds DEF Untold, Known
  <2>2. destination \in [Targets -> [Published -> Known]]
    BY <2>1 DEF ExternalInit
  <2>3. meant \in [Published -> [length : Nat, update : Nat]]
    BY DEF ExternalInit
  <2>4. options \in Options /\ taken \in Options
    BY ExternalAssumption DEF ExternalInit
  <2> QED
    BY <2>2, <2>3, <2>4 DEF ExternalInit, ExternalInv, ExternalTypeOK, LinkFollows, ToldIsCurrent,
       SilencedIsEmpty
<1>2. ExternalInv /\ [ExternalNext]_externalVars => ExternalInv'
  <2>1. ExternalInv /\ ExternalNext => ExternalInv'
    BY UpdateStep, OtherSteps, LinkStep DEF ExternalInv
  <2>2. ExternalInv /\ UNCHANGED externalVars => ExternalInv'
    BY DEF ExternalInv, ExternalTypeOK, LinkFollows, ToldIsCurrent, SilencedIsEmpty, Current,
       externalVars, optionVars, linkVars, silenceVars, destinationVars
  <2> QED
    BY <2>1, <2>2
<1> QED
  BY <1>1, <1>2, PTL DEF ExternalSpec

(* What MQTT and OSC destinations hold is the last value of every topic they *)
(* were told of: for every set of topics, targets and lengths, every order   *)
(* of edits, losses and updates, and whatever the bounds.                    *)
THEOREM CurrentDestinations == ExternalSpec => []DestinationsAreCurrent
<1>1. ExternalInv => DestinationsAreCurrent
  BY DEF ExternalInv, LinkFollows, ToldIsCurrent, Current, DestinationsAreCurrent
<1> QED
  BY <1>1, ExternalInvariant, PTL
=============================================================================
