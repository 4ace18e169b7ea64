------------------------- MODULE PlySequenceLoader -------------------------
(***************************************************************************)
(* The frame cache of a ply sequence                                       *)
(* (src/src/plugins/devices/ply/ply_sequence_loader.cc) and the PlyDevice  *)
(* operations that use it (src/src/plugins/devices/ply/ply_device.cc).     *)
(*                                                                         *)
(* The device calls the loader under its _device_mutex, so its operations  *)
(* are one thread of control here.  Decodes run on the task pool, outlive  *)
(* the call that queued them and store into the ring under _mutex; the     *)
(* settings they decode with are atomics they read one by one.  A decoded  *)
(* cloud is the frame and the settings it was decoded with.                *)
(***************************************************************************)
EXTENDS Integers

CONSTANTS
  FrameCount,      (* .ply files in the directory                          *)
  Capacities,      (* the values buffer_capacity is set to (at least 8)    *)
  Lookaheads,      (* the values prefetch_ahead is set to (at least 1)     *)
  UnitsChoices,    (* PositionUnits                                        *)
  AttributeTables, (* attribute tables the configuration takes             *)
  Tasks,           (* bound: decodes queued or running at once             *)
  Device,          (* the device's own decode, in get_frame                *)
  None,
  MaxAdvance,      (* bound: frames one tick advances by                   *)
  MaxGeneration    (* bound: invalidations                                 *)

ASSUME LoaderAssumption ==
  /\ FrameCount \in Nat \ {0}
  /\ Capacities \subseteq Nat \ {0}
  /\ Lookaheads \subseteq Nat \ {0}
  /\ Device \notin Tasks
  /\ MaxAdvance \in Nat
  /\ MaxGeneration \in Nat
  /\ None \notin [frame : Nat, attributes : AttributeTables,
                  units : UnitsChoices]
  /\ None \notin Nat

Frames == 0 .. FrameCount - 1
Loaders == Tasks \union {Device}
Clouds == [frame : Frames, attributes : AttributeTables, units : UnitsChoices]

VARIABLES
  attributes,  (* _attributes                                              *)
  units,       (* _position_units                                          *)
  capacity,    (* _ring.size()                                             *)
  lookahead,   (* _prefetch_ahead                                          *)
  loop,        (* _loop_start and _loop_end                                *)
  generation,  (* _generation                                              *)
  ring,        (* _ring and _ring_index: a cloud or None                   *)
  claimed,     (* _claimed_index: a frame or None                          *)
  dpc,         (* where the device is in its call                          *)
  current,     (* PlyDevice::_current_frame                                *)
  input,       (* PlyDevice::_input_cloud                                  *)
  offset,      (* off in prefetch_from                                     *)
  prefetchGen, (* generation in prefetch_from                              *)
  job,         (* the decode each loader is doing: where, frame,           *)
               (* generation, and the settings it has read                 *)
  alive,       (* the device still holds the loader                        *)
  closing,     (* ~PlyDevice invalidated the loader                        *)
  behind       (* history: input is not the current frame because a decode *)
               (* failed or a tick moved on without loading                *)

settingVars == <<attributes, units, lookahead, loop>>
cacheVars == <<capacity, generation, ring, claimed>>
deviceVars == <<dpc, current, input, offset, prefetchGen, behind>>
vars == <<attributes, units, capacity, lookahead, loop, generation, ring,
          claimed, dpc, current, input, offset, prefetchGen, job, alive,
          closing, behind>>

Free == [at |-> "free", frame |-> 0, generation |-> 0, attributes |-> None,
         units |-> None]

SlotIn(f, size) == f % size

Slot(f) == SlotIn(f, capacity)

EmptyRing(c) == [s \in 0 .. c - 1 |-> None]

Holds(f) == ring[Slot(f)] # None /\ ring[Slot(f)].frame = f

-----------------------------------------------------------------------------
(* load_directory: open, then get_frame(0).                                *)
Init ==
  /\ attributes \in AttributeTables
  /\ units \in UnitsChoices
  /\ capacity \in Capacities
  /\ lookahead \in Lookaheads
  /\ loop = [start |-> 0, end |-> FrameCount - 1]
  /\ generation = 0
  /\ ring = EmptyRing(capacity)
  /\ claimed = EmptyRing(capacity)
  /\ dpc = "prefetch"
  /\ current = 0
  /\ input = None
  /\ offset = 1
  /\ prefetchGen = 0
  /\ job = [l \in Loaders |-> Free]
  /\ alive = TRUE
  /\ closing = FALSE
  /\ behind = FALSE

-----------------------------------------------------------------------------
(* The device, under _device_mutex.                                        *)

(* get_frame(_current_frame) begins with prefetch_from.                    *)
BeginGet ==
  /\ dpc' = "prefetch"
  /\ offset' = 1
  /\ prefetchGen' = generation

Smaller(a, b) == IF a < b THEN a ELSE b

LoopRange == loop.end - loop.start + 1

EffectiveAhead == Smaller(Smaller(lookahead, capacity - 1), LoopRange - 1)

(* 2^64 modulo n: what size_t arithmetic adds below zero.                  *)
SizeModulo(n) ==
  LET square == (65536 % n) * (65536 % n) IN ((square % n) * (square % n)) % n

(* The frame the window looks at next, wrapped into the loop.  The current *)
(* frame may lie before a loop that was set while a later one was shown.   *)
Ahead ==
  LET distance == current - loop.start + offset
  IN  loop.start
        + ((IF distance < 0 THEN distance + SizeModulo(LoopRange) ELSE distance)
             % LoopRange)

(* A slot without the frame and without a decode queued is claimed.        *)
PrefetchClaims ==
  /\ dpc = "prefetch"
  /\ offset <= EffectiveAhead
  /\ ~Holds(Ahead)
  /\ claimed[Slot(Ahead)] = None
  /\ claimed' = [claimed EXCEPT ![Slot(Ahead)] = Ahead]
  /\ dpc' = "detach"
  /\ UNCHANGED <<settingVars, capacity, generation, ring, current, input,
                 offset, prefetchGen, behind, job, alive, closing>>

(* The frame is in the ring, or its slot has a decode queued.              *)
PrefetchSkips ==
  /\ dpc = "prefetch"
  /\ offset <= EffectiveAhead
  /\ Holds(Ahead) \/ claimed[Slot(Ahead)] # None
  /\ offset' = offset + 1
  /\ UNCHANGED <<settingVars, cacheVars, dpc, current, input, prefetchGen,
                 behind, job, alive, closing>>

(* detach_task: the decode is queued with the generation of the prefetch.  *)
DetachTask ==
  /\ dpc = "detach"
  /\ \E t \in Tasks :
       /\ job[t] = Free
       /\ job' = [job EXCEPT ![t] = [Free EXCEPT !.at = "queued",
                                                  !.frame = Ahead,
                                                  !.generation = prefetchGen]]
  /\ offset' = offset + 1
  /\ dpc' = "prefetch"
  /\ UNCHANGED <<settingVars, cacheVars, current, input, prefetchGen, behind,
                 alive, closing>>

(* prefetch_from returns, and its locals are gone.                         *)
EndPrefetch ==
  /\ dpc = "prefetch"
  /\ offset > EffectiveAhead
  /\ dpc' = "lookup"
  /\ offset' = 0
  /\ prefetchGen' = 0
  /\ UNCHANGED <<settingVars, cacheVars, current, input, behind, job, alive,
                 closing>>

(* The frame is in the ring: the device takes it.                          *)
LookupHits ==
  /\ dpc = "lookup"
  /\ Holds(current)
  /\ input' = ring[Slot(current)]
  /\ behind' = FALSE
  /\ dpc' = "idle"
  /\ UNCHANGED <<settingVars, cacheVars, current, offset, prefetchGen, job,
                 alive, closing>>

(* It is not: the device decodes it itself.                                *)
LookupMisses ==
  /\ dpc = "lookup"
  /\ ~Holds(current)
  /\ job' = [job EXCEPT ![Device] = [Free EXCEPT !.at = "attributes",
                                                 !.frame = current,
                                                 !.generation = generation]]
  /\ dpc' = "load"
  /\ UNCHANGED <<settingVars, cacheVars, current, input, offset, prefetchGen,
                 behind, alive, closing>>

(* clamp(start_frame) and clamp(end_frame): the loop the configuration     *)
(* asks for, cut to the frames there are.                                  *)
Loops == {r \in [start : Frames, end : Frames] : r.start <= r.end}

(* What tick makes of _current_frame before it advances ...                *)
BackInLoop(r) ==
  IF current < r.start \/ current > r.end THEN r.start ELSE current

(* ... and after: wrapped into a looping sequence, held at the end else.   *)
Advanced(r, advance, looping) ==
  LET next == BackInLoop(r) + advance
  IN  IF next <= r.end THEN next
      ELSE IF looping THEN r.start + ((next - r.start) % (r.end - r.start + 1))
      ELSE r.end

(* tick of a playing sequence.                                             *)
Tick ==
  /\ dpc = "idle"
  /\ alive
  /\ \E r \in Loops, advance \in 1 .. MaxAdvance, looping \in BOOLEAN :
       LET next == Advanced(r, advance, looping)
       IN  /\ looping \/ current < r.end
           /\ next # BackInLoop(r)
           /\ current' = next
           /\ loop' = r
  /\ BeginGet
  /\ UNCHANGED <<attributes, units, lookahead, cacheVars, input, behind, job,
                 alive, closing>>

(* tick brings the frame back to the start of the loop, advances by whole  *)
(* loops, or by nothing at its end, and returns: no frame is loaded.       *)
TickWithoutLoad ==
  /\ dpc = "idle"
  /\ alive
  /\ \E r \in Loops, advance \in 1 .. MaxAdvance, looping \in BOOLEAN :
       /\ looping \/ current < r.end
       /\ Advanced(r, advance, looping) = BackInLoop(r)
       /\ current' = BackInLoop(r)
  /\ behind' = (behind \/ current' # current)
  /\ UNCHANGED <<settingVars, cacheVars, dpc, input, offset, prefetchGen, job,
                 alive, closing>>

(* on_config_field_changed("sequence/current_frame").                      *)
Scrub ==
  /\ dpc = "idle"
  /\ alive
  /\ \E r \in Loops : \E f \in r.start .. r.end :
       /\ current' = f
       /\ loop' = r
  /\ BeginGet
  /\ UNCHANGED <<attributes, units, lookahead, cacheVars, input, behind, job,
                 alive, closing>>

(* on_config_field_changed("position_units"): the exchange and, when they  *)
(* differ, invalidate; the frame is fetched again either way.              *)
SetPositionUnits ==
  /\ dpc = "idle"
  /\ alive
  /\ generation < MaxGeneration
  /\ \E u \in UnitsChoices \ {units} : units' = u
  /\ dpc' = "invalidate"
  /\ UNCHANGED <<attributes, lookahead, loop, cacheVars, current, input,
                 offset, prefetchGen, behind, job, alive, closing>>

(* on_config_field_changed("attributes"): the same, with a store.          *)
SetAttributes ==
  /\ dpc = "idle"
  /\ alive
  /\ generation < MaxGeneration
  /\ \E a \in AttributeTables \ {attributes} : attributes' = a
  /\ dpc' = "invalidate"
  /\ UNCHANGED <<units, lookahead, loop, cacheVars, current, input, offset,
                 prefetchGen, behind, job, alive, closing>>

Reload ==
  /\ dpc = "idle"
  /\ alive
  /\ BeginGet
  /\ UNCHANGED <<settingVars, cacheVars, current, input, behind, job, alive,
                 closing>>

(* Slip: the ring and its claims are left to the generation check.         *)
InvalidateGenerationOnly ==
  /\ dpc = "invalidate"
  /\ generation' = generation + 1
  /\ dpc' = "prefetch"
  /\ offset' = 1
  /\ prefetchGen' = generation'
  /\ UNCHANGED <<settingVars, capacity, ring, claimed, current, input, behind,
                 job, alive, closing>>

(* invalidate, under _mutex, then reload_current_frame.                    *)
Invalidate ==
  /\ dpc = "invalidate"
  /\ ring' = EmptyRing(capacity)
  /\ claimed' = EmptyRing(capacity)
  /\ generation' = generation + 1
  /\ dpc' = "prefetch"
  /\ offset' = 1
  /\ prefetchGen' = generation'
  /\ UNCHANGED <<settingVars, capacity, current, input, behind, job, alive,
                 closing>>

(* on_config_field_changed("buffer_capacity"): set_capacity.               *)
Resize ==
  /\ dpc = "idle"
  /\ alive
  /\ generation < MaxGeneration
  /\ \E c \in Capacities \ {capacity}, a \in Lookaheads :
       /\ capacity' = c
       /\ lookahead' = a
       /\ ring' = EmptyRing(c)
       /\ claimed' = EmptyRing(c)
  /\ generation' = generation + 1
  /\ UNCHANGED <<attributes, units, loop, deviceVars, job, alive, closing>>

(* set_capacity with the ring's size: only the lookahead changes.          *)
SetLookahead ==
  /\ dpc = "idle"
  /\ alive
  /\ \E a \in Lookaheads : lookahead' = a
  /\ UNCHANGED <<attributes, units, loop, cacheVars, deviceVars, job, alive,
                 closing>>

(* The first line of ~PlyDevice: another thread invalidates, without       *)
(* _device_mutex, while the tick thread still runs.                        *)
Close ==
  /\ alive
  /\ ~closing
  /\ generation < MaxGeneration
  /\ closing' = TRUE
  /\ ring' = EmptyRing(capacity)
  /\ claimed' = EmptyRing(capacity)
  /\ generation' = generation + 1
  /\ UNCHANGED <<settingVars, capacity, deviceVars, job, alive>>

(* The device drops its loader: it loads something else or is destroyed.   *)
Drop ==
  /\ dpc = "idle"
  /\ alive
  /\ alive' = FALSE
  /\ current' = 0
  /\ input' = None
  /\ behind' = TRUE
  /\ UNCHANGED <<settingVars, cacheVars, dpc, offset, prefetchGen, job,
                 closing>>

-----------------------------------------------------------------------------
(* A decode: queued on the pool, or the device's own.                      *)

(* weak_self.lock() fails, or the generation moved on: nothing to do.      *)
TaskGivesUp(t) ==
  /\ job[t].at = "queued"
  /\ ~alive \/ job[t].generation # generation
  /\ job' = [job EXCEPT ![t] = Free]
  /\ UNCHANGED <<settingVars, cacheVars, deviceVars, alive, closing>>

TaskBegins(t) ==
  /\ job[t].at = "queued"
  /\ alive
  /\ job[t].generation = generation
  /\ job' = [job EXCEPT ![t].at = "attributes"]
  /\ UNCHANGED <<settingVars, cacheVars, deviceVars, alive, closing>>

ReadAttributes(l) ==
  /\ job[l].at = "attributes"
  /\ job' = [job EXCEPT ![l].at = "units", ![l].attributes = attributes]
  /\ UNCHANGED <<settingVars, cacheVars, deviceVars, alive, closing>>

ReadUnits(l) ==
  /\ job[l].at = "units"
  /\ job' = [job EXCEPT ![l].at = "store", ![l].units = units]
  /\ UNCHANGED <<settingVars, cacheVars, deviceVars, alive, closing>>

Decoded(l) == [frame |-> job[l].frame, attributes |-> job[l].attributes,
               units |-> job[l].units]

(* A finished decode's claim on its slot ends, whoever made the claim.     *)
Unclaim(l) ==
  claimed' = IF claimed[Slot(job[l].frame)] = job[l].frame
             THEN [claimed EXCEPT ![Slot(job[l].frame)] = None]
             ELSE claimed

(* The device takes the cloud its own decode made.                         *)
HandToDevice(l, cloud) ==
  IF l = Device
  THEN /\ dpc' = "idle"
       /\ input' = cloud
       /\ behind' = FALSE
       /\ UNCHANGED <<current, offset, prefetchGen>>
  ELSE UNCHANGED deviceVars

(* Slip: the store does not look at the generation.                        *)
StoreUnchecked(l) ==
  /\ job[l].at = "store"
  /\ ring' = [ring EXCEPT ![Slot(job[l].frame)] = Decoded(l)]
  /\ Unclaim(l)
  /\ HandToDevice(l, Decoded(l))
  /\ job' = [job EXCEPT ![l] = Free]
  /\ UNCHANGED <<settingVars, capacity, generation, alive, closing>>

Store(l) ==
  /\ job[l].at = "store"
  /\ job[l].generation = generation
  /\ ring' = [ring EXCEPT ![Slot(job[l].frame)] = Decoded(l)]
  /\ Unclaim(l)
  /\ HandToDevice(l, Decoded(l))
  /\ job' = [job EXCEPT ![l] = Free]
  /\ UNCHANGED <<settingVars, capacity, generation, alive, closing>>

StoreStale(l) ==
  /\ job[l].at = "store"
  /\ job[l].generation # generation
  /\ Unclaim(l)
  /\ HandToDevice(l, Decoded(l))
  /\ job' = [job EXCEPT ![l] = Free]
  /\ UNCHANGED <<settingVars, capacity, generation, ring, alive, closing>>

(* Slip: an unreadable file returns before the claim is cleared.           *)
DecodeFailsClaimed(l) ==
  /\ job[l].at = "store"
  /\ IF l = Device
     THEN /\ dpc' = "idle"
          /\ behind' = TRUE
          /\ UNCHANGED <<current, input, offset, prefetchGen>>
     ELSE UNCHANGED deviceVars
  /\ job' = [job EXCEPT ![l] = Free]
  /\ UNCHANGED <<settingVars, capacity, generation, ring, claimed, alive,
                 closing>>

(* read_point_cloud returns null: the device keeps the cloud it has.       *)
DecodeFails(l) ==
  /\ job[l].at = "store"
  /\ Unclaim(l)
  /\ IF l = Device
     THEN /\ dpc' = "idle"
          /\ behind' = TRUE
          /\ UNCHANGED <<current, input, offset, prefetchGen>>
     ELSE UNCHANGED deviceVars
  /\ job' = [job EXCEPT ![l] = Free]
  /\ UNCHANGED <<settingVars, capacity, generation, ring, alive, closing>>

Decode(l) ==
  \/ ReadAttributes(l) \/ ReadUnits(l)
  \/ Store(l) \/ StoreStale(l) \/ DecodeFails(l)

GetFrame ==
  \/ PrefetchClaims \/ PrefetchSkips \/ DetachTask \/ EndPrefetch
  \/ LookupHits \/ LookupMisses

Configure ==
  \/ Tick \/ TickWithoutLoad \/ Scrub \/ Reload
  \/ SetPositionUnits \/ SetAttributes \/ Invalidate
  \/ Resize \/ SetLookahead \/ Close \/ Drop

Next ==
  \/ GetFrame
  \/ Configure
  \/ \E t \in Tasks : TaskGivesUp(t) \/ TaskBegins(t)
  \/ \E l \in Loaders : Decode(l)

Spec == Init /\ [][Next]_vars

-----------------------------------------------------------------------------
Places == {"free", "queued", "attributes", "units", "store"}
Jobs == [at : Places, frame : Frames, generation : Nat,
         attributes : AttributeTables \union {None},
         units : UnitsChoices \union {None}]

TypeOK ==
  /\ attributes \in AttributeTables
  /\ units \in UnitsChoices
  /\ capacity \in Capacities
  /\ lookahead \in Lookaheads
  /\ loop \in Loops
  /\ generation \in Nat
  /\ ring \in [0 .. capacity - 1 -> Clouds \union {None}]
  /\ claimed \in [0 .. capacity - 1 -> Frames \union {None}]
  /\ dpc \in {"idle", "invalidate", "prefetch", "detach", "lookup", "load"}
  /\ current \in Frames
  /\ input \in Clouds \union {None}
  /\ offset \in Nat
  /\ prefetchGen \in Nat
  /\ job \in [Loaders -> Jobs]
  /\ alive \in BOOLEAN
  /\ closing \in BOOLEAN
  /\ behind \in BOOLEAN

(* Except between a setter's exchange and its invalidate, whatever is in   *)
(* the ring was decoded with the settings in force, however long the       *)
(* decode took and whatever was set meanwhile.                             *)
CacheIsFresh ==
  dpc # "invalidate" =>
    \A s \in 0 .. capacity - 1 :
      ring[s] # None => /\ ring[s].attributes = attributes
                        /\ ring[s].units = units
                        /\ Slot(ring[s].frame) = s

(* When the device has finished a call, the cloud it feeds to its operator *)
(* pipeline is the current frame under the current settings, unless a      *)
(* decode failed or a tick moved on without loading.                       *)
ServesCurrent ==
  (dpc = "idle" /\ ~behind) =>
    input = [frame |-> current, attributes |-> attributes, units |-> units]

(* A claim whose decode is not coming would keep its slot from being       *)
(* prefetched for ever: every claim has a task of this generation on its   *)
(* way, or one the device is about to detach.                              *)
ClaimHasDecode ==
  (alive /\ ~closing) =>
    \A s \in 0 .. capacity - 1 :
      claimed[s] # None =>
        \/ \E t \in Tasks : /\ job[t].at # "free"
                            /\ job[t].frame = claimed[s]
                            /\ job[t].generation = generation
        \/ /\ dpc = "detach"
           /\ Ahead = claimed[s]
           /\ prefetchGen = generation
=============================================================================
