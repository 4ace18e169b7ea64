---------------------- MODULE PlySequenceLoader_proofs ----------------------
(***************************************************************************)
(* Proofs about PlySequenceLoader, for every number of frames and tasks,   *)
(* every capacity and every bound.                                         *)
(***************************************************************************)
EXTENDS PlySequenceLoader, TLAPS

(* A job of the current generation has read the settings in force, except  *)
(* between a setter's exchange and its invalidate.                         *)
JobInv ==
  \A l \in Loaders :
    /\ job[l].generation <= generation
    /\ job[l].at \in {"units", "store"} => job[l].attributes \in AttributeTables
    /\ job[l].at = "store" => job[l].units \in UnitsChoices
    /\ (dpc # "invalidate" /\ job[l].generation = generation) =>
         /\ job[l].at \in {"units", "store"} => job[l].attributes = attributes
         /\ job[l].at = "store" => job[l].units = units

(* The device decodes only inside get_frame, where nothing is set.         *)
DeviceInv ==
  /\ job[Device].at # "free" => dpc = "load"
  /\ job[Device].at # "free" => job[Device].frame = current
  /\ job[Device].at \in {"units", "store"} => job[Device].attributes = attributes
  /\ job[Device].at = "store" => job[Device].units = units

(* What a prefetch reads stays true until it returns.                      *)
PrefetchInv ==
  /\ prefetchGen <= generation
  /\ (dpc \in {"prefetch", "detach"} /\ ~closing) => prefetchGen = generation

(* A claim sits in the slot of its frame.                                  *)
ClaimsInPlace ==
  \A s \in 0 .. capacity - 1 : claimed[s] # None => Slot(claimed[s]) = s

IInv ==
  /\ TypeOK
  /\ JobInv
  /\ DeviceInv
  /\ PrefetchInv
  /\ ClaimsInPlace
  /\ CacheIsFresh
  /\ ServesCurrent
  /\ ClaimHasDecode

-----------------------------------------------------------------------------
(* A remainder lies below its divisor.                                     *)
LEMMA Modulo ==
  ASSUME NEW a \in Int, NEW b \in Nat \ {0}
  PROVE  a % b \in 0 .. b - 1
  OBVIOUS

(* A remainder is an integer.                                              *)
LEMMA IntegerModulo ==
  ASSUME NEW a \in Int, NEW b \in Nat \ {0}
  PROVE  a % b \in Int
  BY Modulo

(* The jobs the actions make of a job.                                     *)
LEMMA JobType ==
  ASSUME NEW j \in Jobs
  PROVE  /\ 0 \in Frames
         /\ Free \in Jobs
         /\ \A p \in Places : [j EXCEPT !.at = p] \in Jobs
         /\ \A a \in AttributeTables : [j EXCEPT !.at = "units", !.attributes = a] \in Jobs
         /\ \A u \in UnitsChoices : [j EXCEPT !.at = "store", !.units = u] \in Jobs
         /\ \A p \in Places, f \in Frames, g \in Nat :
              [Free EXCEPT !.at = p, !.frame = f, !.generation = g] \in Jobs
<1>1. 0 \in Frames
  BY LoaderAssumption DEF Frames
<1>2. Free \in Jobs
  BY <1>1 DEF Jobs, Places, Free
<1>3. ASSUME NEW p \in Places
      PROVE  [j EXCEPT !.at = p] \in Jobs
  BY DEF Jobs
<1>4. ASSUME NEW a \in AttributeTables
      PROVE  [j EXCEPT !.at = "units", !.attributes = a] \in Jobs
  BY DEF Jobs, Places
<1>5. ASSUME NEW u \in UnitsChoices
      PROVE  [j EXCEPT !.at = "store", !.units = u] \in Jobs
  BY DEF Jobs, Places
<1>6. ASSUME NEW p \in Places, NEW f \in Frames, NEW g \in Nat
      PROVE  [Free EXCEPT !.at = p, !.frame = f, !.generation = g] \in Jobs
  BY <1>2 DEF Jobs
<1>7. QED
  BY <1>1, <1>2, <1>3, <1>4, <1>5, <1>6

(* Every frame has a slot in the ring.                                     *)
LEMMA SlotType ==
  ASSUME TypeOK, NEW f \in Frames
  PROVE  /\ Slot(f) \in 0 .. capacity - 1
         /\ capacity \in Nat \ {0}
<1>1. capacity \in Nat \ {0} /\ f \in Int
  BY LoaderAssumption DEF TypeOK, Frames
<1>2. QED
  BY <1>1, Modulo DEF Slot, SlotIn

(* The prefetch window stays in the loop.                                  *)
LEMMA AheadType ==
  ASSUME TypeOK
  PROVE  Ahead \in Frames
<1>1. /\ loop.start \in Nat /\ loop.end \in Nat /\ loop.start <= loop.end
      /\ loop.end <= FrameCount - 1 /\ current \in Int /\ offset \in Int
      /\ FrameCount \in Nat
  BY LoaderAssumption DEF TypeOK, Loops, Frames
<1>2. LoopRange \in Nat \ {0} /\ LoopRange = loop.end - loop.start + 1
  BY <1>1 DEF LoopRange
<1>3. SizeModulo(LoopRange) \in Int
  <2>1. 65536 % LoopRange \in Int
    BY <1>2, IntegerModulo
  <2> DEFINE square == (65536 % LoopRange) * (65536 % LoopRange)
  <2>2. square \in Int
    BY <2>1
  <2> HIDE DEF square
  <2>3. square % LoopRange \in Int
    BY <1>2, <2>2, IntegerModulo
  <2>4. (square % LoopRange) * (square % LoopRange) \in Int
    BY <2>3
  <2>5. ((square % LoopRange) * (square % LoopRange)) % LoopRange \in Int
    BY <1>2, <2>4, IntegerModulo
  <2>6. QED
    BY <2>5 DEF SizeModulo, square
<1> DEFINE distance == current - loop.start + offset
           wrapped == IF distance < 0 THEN distance + SizeModulo(LoopRange)
                      ELSE distance
<1>4. wrapped \in Int
  BY <1>1, <1>3
<1> HIDE DEF wrapped
<1>5. wrapped % LoopRange \in 0 .. LoopRange - 1
  BY <1>2, <1>4, Modulo
<1>6. Ahead = loop.start + (wrapped % LoopRange)
  BY DEF Ahead, wrapped
<1>7. QED
  BY <1>1, <1>2, <1>5, <1>6 DEF Frames

(* A tick stays in its loop.                                               *)
LEMMA AdvancedType ==
  ASSUME TypeOK, NEW r \in Loops, NEW advance \in 1 .. MaxAdvance,
         NEW looping \in BOOLEAN
  PROVE  BackInLoop(r) \in Frames /\ Advanced(r, advance, looping) \in Frames
<1>1. /\ r.start \in Nat /\ r.end \in Nat /\ r.start <= r.end
      /\ r.end <= FrameCount - 1 /\ current \in Nat /\ current <= FrameCount - 1
      /\ FrameCount \in Nat /\ MaxAdvance \in Nat /\ advance \in Nat
  BY LoaderAssumption DEF TypeOK, Loops, Frames
<1>2. BackInLoop(r) \in r.start .. r.end
  BY <1>1 DEF BackInLoop
<1> DEFINE next == BackInLoop(r) + advance
           range == r.end - r.start + 1
<1>3. next \in Nat /\ range \in Nat \ {0} /\ next - r.start \in Int
  BY <1>1, <1>2
<1> HIDE DEF range
<1>4. (next - r.start) % range \in 0 .. range - 1
  BY <1>3, Modulo
<1>5. Advanced(r, advance, looping) \in r.start .. r.end
  BY <1>1, <1>2, <1>3, <1>4 DEF Advanced, range
<1>6. QED
  BY <1>1, <1>2, <1>5 DEF Frames

(* One step keeps the types.                                              *)
LEMMA TypeStep ==
  ASSUME TypeOK, JobInv, [Next]_vars
  PROVE  TypeOK'
<1> USE LoaderAssumption DEF TypeOK, JobInv, Loaders, BeginGet, EmptyRing,
       settingVars, cacheVars, deviceVars
<1>1. CASE Tick
  BY <1>1, AdvancedType DEF Tick, Loops
<1>2. CASE TickWithoutLoad
  BY <1>2, AdvancedType DEF TickWithoutLoad
<1>3. CASE Scrub
  BY <1>3 DEF Scrub, Loops, Frames
<1>4. CASE Reload
  BY <1>4 DEF Reload
<1>5. CASE SetPositionUnits
  BY <1>5 DEF SetPositionUnits
<1>6. CASE SetAttributes
  BY <1>6 DEF SetAttributes
<1>7. CASE Invalidate
  BY <1>7 DEF Invalidate
<1>8. CASE Resize
  BY <1>8 DEF Resize
<1>9. CASE SetLookahead
  BY <1>9 DEF SetLookahead
<1>10. CASE Close
  BY <1>10 DEF Close
<1>11. CASE Drop
  <2>1. 0 \in Frames
    BY DEF Frames
  <2>2. QED
    BY <1>11, <2>1 DEF Drop
<1>12. CASE PrefetchClaims
  BY <1>12, AheadType, SlotType DEF PrefetchClaims
<1>13. CASE PrefetchSkips
  BY <1>13 DEF PrefetchSkips
<1>14. CASE DetachTask
  <2>1. PICK t \in Tasks :
          job' = [job EXCEPT ![t] = [Free EXCEPT !.at = "queued",
                                                 !.frame = Ahead,
                                                 !.generation = prefetchGen]]
    BY <1>14 DEF DetachTask
  <2>2. job[t] \in Jobs
    OBVIOUS
  <2>3. [Free EXCEPT !.at = "queued", !.frame = Ahead,
                     !.generation = prefetchGen] \in Jobs
    BY <2>2, AheadType, JobType DEF Places
  <2>4. job' \in [Loaders -> Jobs]
    BY <2>1, <2>3
  <2>5. QED
    BY <1>14, <2>4 DEF DetachTask
<1>15. CASE EndPrefetch
  BY <1>15 DEF EndPrefetch
<1>16. CASE LookupHits
  BY <1>16, SlotType DEF LookupHits, Holds
<1>17. CASE LookupMisses
  <2>1. job' \in [Loaders -> Jobs]
    BY <1>17, JobType DEF LookupMisses, Places
  <2>2. QED
    BY <1>17, <2>1 DEF LookupMisses
<1>18. ASSUME NEW t \in Tasks, TaskGivesUp(t)
      PROVE  TypeOK'
  <2>1. job' \in [Loaders -> Jobs]
    BY <1>18, JobType DEF TaskGivesUp
  <2>2. QED
    BY <1>18, <2>1 DEF TaskGivesUp
<1>19. ASSUME NEW t \in Tasks, TaskBegins(t)
      PROVE  TypeOK'
  <2>1. job' \in [Loaders -> Jobs]
    BY <1>19, JobType DEF TaskBegins, Places
  <2>2. QED
    BY <1>19, <2>1 DEF TaskBegins
<1>20. ASSUME NEW l \in Loaders, ReadAttributes(l)
      PROVE  TypeOK'
  <2>1. job' \in [Loaders -> Jobs]
    BY <1>20, JobType DEF ReadAttributes
  <2>2. QED
    BY <1>20, <2>1 DEF ReadAttributes
<1>21. ASSUME NEW l \in Loaders, ReadUnits(l)
      PROVE  TypeOK'
  <2>1. job' \in [Loaders -> Jobs]
    BY <1>21, JobType DEF ReadUnits
  <2>2. QED
    BY <1>21, <2>1 DEF ReadUnits
<1>22. ASSUME NEW l \in Loaders, Store(l)
      PROVE  TypeOK'
  <2>1. job' \in [Loaders -> Jobs]
    BY <1>22, JobType DEF Store
  <2>2. job[l].frame \in Frames /\ Slot(job[l].frame) \in 0 .. capacity - 1
    BY SlotType DEF Jobs
  <2>3. claimed' \in [0 .. capacity - 1 -> Frames \union {None}]
    BY <1>22, <2>2 DEF Store, Unclaim
  <2>4. Decoded(l) \in Clouds
    BY <1>22, <2>2 DEF Store, Decoded, Clouds
  <2>5. QED
    BY <1>22, <2>1, <2>2, <2>3, <2>4 DEF Store, HandToDevice
<1>23. ASSUME NEW l \in Loaders, StoreStale(l)
      PROVE  TypeOK'
  <2>1. job' \in [Loaders -> Jobs]
    BY <1>23, JobType DEF StoreStale
  <2>2. job[l].frame \in Frames /\ Slot(job[l].frame) \in 0 .. capacity - 1
    BY SlotType DEF Jobs
  <2>3. claimed' \in [0 .. capacity - 1 -> Frames \union {None}]
    BY <1>23, <2>2 DEF StoreStale, Unclaim
  <2>4. Decoded(l) \in Clouds
    BY <1>23, <2>2 DEF StoreStale, Decoded, Clouds
  <2>5. QED
    BY <1>23, <2>1, <2>2, <2>3, <2>4 DEF StoreStale, HandToDevice
<1>24. ASSUME NEW l \in Loaders, DecodeFails(l)
      PROVE  TypeOK'
  <2>1. job' \in [Loaders -> Jobs]
    BY <1>24, JobType DEF DecodeFails
  <2>2. job[l].frame \in Frames /\ Slot(job[l].frame) \in 0 .. capacity - 1
    BY SlotType DEF Jobs
  <2>3. claimed' \in [0 .. capacity - 1 -> Frames \union {None}]
    BY <1>24, <2>2 DEF DecodeFails, Unclaim
  <2>4. QED
    BY <1>24, <2>1, <2>3 DEF DecodeFails
<1>25. CASE UNCHANGED vars
  BY <1>25 DEF vars
<1>26. QED
  BY <1>1, <1>2, <1>3, <1>4, <1>5, <1>6, <1>7, <1>8, <1>9, <1>10, <1>11,
     <1>12, <1>13, <1>14, <1>15, <1>16, <1>17, <1>18, <1>19, <1>20,
     <1>21, <1>22, <1>23, <1>24, <1>25
     DEF Next, GetFrame, Configure, Decode

(* A decode's generation and settings stay those of the loader, or it is   *)
(* recognised as stale.                                                    *)
LEMMA JobStep ==
  ASSUME TypeOK, JobInv, DeviceInv, PrefetchInv, [Next]_vars
  PROVE  JobInv'
<1> USE LoaderAssumption DEF TypeOK, JobInv, PrefetchInv, DeviceInv, Jobs, Places, Loaders,
       Free, BeginGet, settingVars, cacheVars, deviceVars
<1>1. CASE Tick
  BY <1>1 DEF Tick
<1>2. CASE TickWithoutLoad
  BY <1>2 DEF TickWithoutLoad
<1>3. CASE Scrub
  BY <1>3 DEF Scrub
<1>4. CASE Reload
  BY <1>4 DEF Reload
<1>5. CASE SetPositionUnits
  BY <1>5 DEF SetPositionUnits
<1>6. CASE SetAttributes
  BY <1>6 DEF SetAttributes
<1>7. CASE Invalidate
  BY <1>7 DEF Invalidate
<1>8. CASE Resize
  BY <1>8 DEF Resize
<1>9. CASE SetLookahead
  BY <1>9 DEF SetLookahead
<1>10. CASE Close
  BY <1>10 DEF Close
<1>11. CASE Drop
  BY <1>11 DEF Drop
<1>12. CASE PrefetchClaims
  BY <1>12 DEF PrefetchClaims
<1>13. CASE PrefetchSkips
  BY <1>13 DEF PrefetchSkips
<1>14. CASE DetachTask
  BY <1>14 DEF DetachTask
<1>15. CASE EndPrefetch
  BY <1>15 DEF EndPrefetch
<1>16. CASE LookupHits
  BY <1>16 DEF LookupHits
<1>17. CASE LookupMisses
  BY <1>17 DEF LookupMisses
<1>18. ASSUME NEW t \in Tasks, TaskGivesUp(t)
      PROVE  JobInv'
  BY <1>18 DEF TaskGivesUp
<1>19. ASSUME NEW t \in Tasks, TaskBegins(t)
      PROVE  JobInv'
  BY <1>19 DEF TaskBegins
<1>20. ASSUME NEW l \in Loaders, ReadAttributes(l)
      PROVE  JobInv'
  BY <1>20 DEF ReadAttributes
<1>21. ASSUME NEW l \in Loaders, ReadUnits(l)
      PROVE  JobInv'
  BY <1>21 DEF ReadUnits
<1>22. ASSUME NEW l \in Loaders, Store(l)
      PROVE  JobInv'
  BY <1>22 DEF Store, Decoded, Unclaim, HandToDevice
<1>23. ASSUME NEW l \in Loaders, StoreStale(l)
      PROVE  JobInv'
  BY <1>23 DEF StoreStale, Decoded, Unclaim, HandToDevice
<1>24. ASSUME NEW l \in Loaders, DecodeFails(l)
      PROVE  JobInv'
  BY <1>24 DEF DecodeFails, Unclaim
<1>25. CASE UNCHANGED vars
  BY <1>25 DEF vars
<1>26. QED
  BY <1>1, <1>2, <1>3, <1>4, <1>5, <1>6, <1>7, <1>8, <1>9, <1>10, <1>11,
     <1>12, <1>13, <1>14, <1>15, <1>16, <1>17, <1>18, <1>19, <1>20,
     <1>21, <1>22, <1>23, <1>24, <1>25
     DEF Next, GetFrame, Configure, Decode

(* The device decodes only inside get_frame, with the settings in force.   *)
LEMMA DeviceStep ==
  ASSUME TypeOK, JobInv, DeviceInv, PrefetchInv, [Next]_vars
  PROVE  DeviceInv'
<1> USE LoaderAssumption DEF TypeOK, DeviceInv, Jobs, Places, Loaders,
       Free, BeginGet, settingVars, cacheVars, deviceVars
<1>1. CASE Tick
  BY <1>1 DEF Tick
<1>2. CASE TickWithoutLoad
  BY <1>2 DEF TickWithoutLoad
<1>3. CASE Scrub
  BY <1>3 DEF Scrub
<1>4. CASE Reload
  BY <1>4 DEF Reload
<1>5. CASE SetPositionUnits
  BY <1>5 DEF SetPositionUnits
<1>6. CASE SetAttributes
  BY <1>6 DEF SetAttributes
<1>7. CASE Invalidate
  BY <1>7 DEF Invalidate
<1>8. CASE Resize
  BY <1>8 DEF Resize
<1>9. CASE SetLookahead
  BY <1>9 DEF SetLookahead
<1>10. CASE Close
  BY <1>10 DEF Close
<1>11. CASE Drop
  BY <1>11 DEF Drop
<1>12. CASE PrefetchClaims
  BY <1>12 DEF PrefetchClaims
<1>13. CASE PrefetchSkips
  BY <1>13 DEF PrefetchSkips
<1>14. CASE DetachTask
  BY <1>14 DEF DetachTask
<1>15. CASE EndPrefetch
  BY <1>15 DEF EndPrefetch
<1>16. CASE LookupHits
  BY <1>16 DEF LookupHits
<1>17. CASE LookupMisses
  BY <1>17 DEF LookupMisses
<1>18. ASSUME NEW t \in Tasks, TaskGivesUp(t)
      PROVE  DeviceInv'
  BY <1>18 DEF TaskGivesUp
<1>19. ASSUME NEW t \in Tasks, TaskBegins(t)
      PROVE  DeviceInv'
  BY <1>19 DEF TaskBegins
<1>20. ASSUME NEW l \in Loaders, ReadAttributes(l)
      PROVE  DeviceInv'
  BY <1>20 DEF ReadAttributes
<1>21. ASSUME NEW l \in Loaders, ReadUnits(l)
      PROVE  DeviceInv'
  BY <1>21 DEF ReadUnits
<1>22. ASSUME NEW l \in Loaders, Store(l)
      PROVE  DeviceInv'
  BY <1>22 DEF Store, Decoded, Unclaim, HandToDevice
<1>23. ASSUME NEW l \in Loaders, StoreStale(l)
      PROVE  DeviceInv'
  BY <1>23 DEF StoreStale, Decoded, Unclaim, HandToDevice
<1>24. ASSUME NEW l \in Loaders, DecodeFails(l)
      PROVE  DeviceInv'
  BY <1>24 DEF DecodeFails, Unclaim
<1>25. CASE UNCHANGED vars
  BY <1>25 DEF vars
<1>26. QED
  BY <1>1, <1>2, <1>3, <1>4, <1>5, <1>6, <1>7, <1>8, <1>9, <1>10, <1>11,
     <1>12, <1>13, <1>14, <1>15, <1>16, <1>17, <1>18, <1>19, <1>20,
     <1>21, <1>22, <1>23, <1>24, <1>25
     DEF Next, GetFrame, Configure, Decode

(* What prefetch_from read of the generation stays true while it runs.     *)
LEMMA PrefetchStep ==
  ASSUME TypeOK, PrefetchInv, [Next]_vars
  PROVE  PrefetchInv'
<1> USE LoaderAssumption DEF TypeOK, PrefetchInv, BeginGet, settingVars, cacheVars, deviceVars
<1>1. CASE Tick
  BY <1>1 DEF Tick
<1>2. CASE TickWithoutLoad
  BY <1>2 DEF TickWithoutLoad
<1>3. CASE Scrub
  BY <1>3 DEF Scrub
<1>4. CASE Reload
  BY <1>4 DEF Reload
<1>5. CASE SetPositionUnits
  BY <1>5 DEF SetPositionUnits
<1>6. CASE SetAttributes
  BY <1>6 DEF SetAttributes
<1>7. CASE Invalidate
  BY <1>7 DEF Invalidate
<1>8. CASE Resize
  BY <1>8 DEF Resize
<1>9. CASE SetLookahead
  BY <1>9 DEF SetLookahead
<1>10. CASE Close
  BY <1>10 DEF Close
<1>11. CASE Drop
  BY <1>11 DEF Drop
<1>12. CASE PrefetchClaims
  BY <1>12 DEF PrefetchClaims
<1>13. CASE PrefetchSkips
  BY <1>13 DEF PrefetchSkips
<1>14. CASE DetachTask
  BY <1>14 DEF DetachTask
<1>15. CASE EndPrefetch
  BY <1>15 DEF EndPrefetch
<1>16. CASE LookupHits
  BY <1>16 DEF LookupHits
<1>17. CASE LookupMisses
  BY <1>17 DEF LookupMisses
<1>18. ASSUME NEW t \in Tasks, TaskGivesUp(t)
      PROVE  PrefetchInv'
  BY <1>18 DEF TaskGivesUp
<1>19. ASSUME NEW t \in Tasks, TaskBegins(t)
      PROVE  PrefetchInv'
  BY <1>19 DEF TaskBegins
<1>20. ASSUME NEW l \in Loaders, ReadAttributes(l)
      PROVE  PrefetchInv'
  BY <1>20 DEF ReadAttributes
<1>21. ASSUME NEW l \in Loaders, ReadUnits(l)
      PROVE  PrefetchInv'
  BY <1>21 DEF ReadUnits
<1>22. ASSUME NEW l \in Loaders, Store(l)
      PROVE  PrefetchInv'
  BY <1>22 DEF Store, Decoded, Unclaim, HandToDevice
<1>23. ASSUME NEW l \in Loaders, StoreStale(l)
      PROVE  PrefetchInv'
  BY <1>23 DEF StoreStale, Decoded, Unclaim, HandToDevice
<1>24. ASSUME NEW l \in Loaders, DecodeFails(l)
      PROVE  PrefetchInv'
  BY <1>24 DEF DecodeFails, Unclaim
<1>25. CASE UNCHANGED vars
  BY <1>25 DEF vars
<1>26. QED
  BY <1>1, <1>2, <1>3, <1>4, <1>5, <1>6, <1>7, <1>8, <1>9, <1>10, <1>11,
     <1>12, <1>13, <1>14, <1>15, <1>16, <1>17, <1>18, <1>19, <1>20,
     <1>21, <1>22, <1>23, <1>24, <1>25
     DEF Next, GetFrame, Configure, Decode

(* A decode that ends without a store, and one that stores its cloud.      *)
LEMMA SameRing ==
  ASSUME CacheIsFresh, ring' = ring, capacity' = capacity,
         attributes' = attributes, units' = units,
         dpc = "invalidate" => dpc' = "invalidate"
  PROVE  CacheIsFresh'
  BY DEF CacheIsFresh, Slot

(* Storing a cloud of the settings in force keeps the ring fresh.          *)
LEMMA RingWithCloud ==
  ASSUME CacheIsFresh, ring \in [0 .. capacity - 1 -> Clouds \union {None}],
         NEW f \in Frames, Slot(f) \in 0 .. capacity - 1, NEW cloud,
         dpc # "invalidate" => /\ cloud.attributes = attributes
                               /\ cloud.units = units
                               /\ cloud.frame = f,
         ring' = [ring EXCEPT ![Slot(f)] = cloud],
         capacity' = capacity, attributes' = attributes, units' = units,
         dpc = "invalidate" => dpc' = "invalidate"
  PROVE  CacheIsFresh'
<1> DEFINE k == SlotIn(f, capacity)
<1>1. k \in 0 .. capacity - 1 /\ ring' = [ring EXCEPT ![k] = cloud]
  BY DEF Slot
<1> HIDE DEF k
<1>2. ASSUME NEW s \in 0 .. capacity - 1, dpc # "invalidate", ring'[s] # None
      PROVE  /\ ring'[s].attributes = attributes /\ ring'[s].units = units
             /\ SlotIn(ring'[s].frame, capacity) = s
  <2>1. CASE s = k
    <3>1. ring'[s] = cloud
      BY <1>1, <2>1
    <3>2. SlotIn(cloud.frame, capacity) = k
      BY <1>2 DEF k
    <3>3. QED
      BY <1>2, <2>1, <3>1, <3>2
  <2>2. CASE s # k
    <3>1. ring'[s] = ring[s]
      BY <1>1, <2>2
    <3>2. QED
      BY <1>2, <3>1 DEF CacheIsFresh, Slot
  <2>3. QED
    BY <2>1, <2>2
<1>3. QED
  BY <1>2 DEF CacheIsFresh, Slot

(* The ring stays fresh.                                                   *)
LEMMA FreshStep ==
  ASSUME TypeOK, JobInv, DeviceInv, CacheIsFresh, [Next]_vars
  PROVE  CacheIsFresh'
<1> USE LoaderAssumption DEF TypeOK, CacheIsFresh, Loaders, BeginGet,
       EmptyRing, Slot, settingVars, cacheVars, deviceVars
<1>1. CASE Tick
  BY <1>1 DEF Tick
<1>2. CASE TickWithoutLoad
  BY <1>2 DEF TickWithoutLoad
<1>3. CASE Scrub
  BY <1>3 DEF Scrub
<1>4. CASE Reload
  BY <1>4 DEF Reload
<1>5. CASE SetPositionUnits
  BY <1>5 DEF SetPositionUnits
<1>6. CASE SetAttributes
  BY <1>6 DEF SetAttributes
<1>7. CASE Invalidate
  BY <1>7 DEF Invalidate
<1>8. CASE Resize
  BY <1>8 DEF Resize
<1>9. CASE SetLookahead
  BY <1>9 DEF SetLookahead
<1>10. CASE Close
  BY <1>10 DEF Close
<1>11. CASE Drop
  BY <1>11 DEF Drop
<1>12. CASE PrefetchClaims
  BY <1>12 DEF PrefetchClaims
<1>13. CASE PrefetchSkips
  BY <1>13 DEF PrefetchSkips
<1>14. CASE DetachTask
  BY <1>14 DEF DetachTask
<1>15. CASE EndPrefetch
  BY <1>15 DEF EndPrefetch
<1>16. CASE LookupHits
  BY <1>16 DEF LookupHits
<1>17. CASE LookupMisses
  BY <1>17 DEF LookupMisses
<1>18. ASSUME NEW t \in Tasks, TaskGivesUp(t)
      PROVE  CacheIsFresh'
  BY <1>18 DEF TaskGivesUp
<1>19. ASSUME NEW t \in Tasks, TaskBegins(t)
      PROVE  CacheIsFresh'
  BY <1>19 DEF TaskBegins
<1>20. ASSUME NEW l \in Loaders, ReadAttributes(l)
      PROVE  CacheIsFresh'
  BY <1>20 DEF ReadAttributes
<1>21. ASSUME NEW l \in Loaders, ReadUnits(l)
      PROVE  CacheIsFresh'
  BY <1>21 DEF ReadUnits
<1>22. ASSUME NEW l \in Loaders, Store(l)
      PROVE  CacheIsFresh'
  <2>1. job[l].frame \in Frames /\ Slot(job[l].frame) \in 0 .. capacity - 1
    BY SlotType DEF Jobs
  <2>2. dpc # "invalidate" =>
          /\ Decoded(l).attributes = attributes /\ Decoded(l).units = units
          /\ Decoded(l).frame = job[l].frame
    BY <1>22 DEF Store, JobInv, Decoded
  <2>3. dpc = "invalidate" => dpc' = "invalidate"
    BY <1>22 DEF Store, HandToDevice, DeviceInv
  <2>4. QED
    BY <1>22, <2>1, <2>2, <2>3, RingWithCloud DEF Store
<1>23. ASSUME NEW l \in Loaders, StoreStale(l)
      PROVE  CacheIsFresh'
  <2>1. dpc = "invalidate" => dpc' = "invalidate"
    BY <1>23 DEF StoreStale, HandToDevice, DeviceInv
  <2>2. QED
    BY <1>23, <2>1, SameRing DEF StoreStale
<1>24. ASSUME NEW l \in Loaders, DecodeFails(l)
      PROVE  CacheIsFresh'
  <2>1. dpc = "invalidate" => dpc' = "invalidate"
    BY <1>24 DEF DecodeFails, DeviceInv
  <2>2. QED
    BY <1>24, <2>1, SameRing DEF DecodeFails
<1>25. CASE UNCHANGED vars
  BY <1>25 DEF vars
<1>26. QED
  BY <1>1, <1>2, <1>3, <1>4, <1>5, <1>6, <1>7, <1>8, <1>9, <1>10, <1>11,
     <1>12, <1>13, <1>14, <1>15, <1>16, <1>17, <1>18, <1>19, <1>20,
     <1>21, <1>22, <1>23, <1>24, <1>25
     DEF Next, GetFrame, Configure, Decode

(* The device serves what it is asked for.                                 *)
LEMMA ServeStep ==
  ASSUME TypeOK, DeviceInv, CacheIsFresh, ServesCurrent, [Next]_vars
  PROVE  ServesCurrent'
<1> USE LoaderAssumption DEF TypeOK, DeviceInv, ServesCurrent, Loaders, BeginGet,
       settingVars, cacheVars, deviceVars
<1>1. CASE Tick
  BY <1>1 DEF Tick
<1>2. CASE TickWithoutLoad
  BY <1>2 DEF TickWithoutLoad
<1>3. CASE Scrub
  BY <1>3 DEF Scrub
<1>4. CASE Reload
  BY <1>4 DEF Reload
<1>5. CASE SetPositionUnits
  BY <1>5 DEF SetPositionUnits
<1>6. CASE SetAttributes
  BY <1>6 DEF SetAttributes
<1>7. CASE Invalidate
  BY <1>7 DEF Invalidate
<1>8. CASE Resize
  BY <1>8 DEF Resize
<1>9. CASE SetLookahead
  BY <1>9 DEF SetLookahead
<1>10. CASE Close
  BY <1>10 DEF Close
<1>11. CASE Drop
  BY <1>11 DEF Drop
<1>12. CASE PrefetchClaims
  BY <1>12 DEF PrefetchClaims
<1>13. CASE PrefetchSkips
  BY <1>13 DEF PrefetchSkips
<1>14. CASE DetachTask
  BY <1>14 DEF DetachTask
<1>15. CASE EndPrefetch
  BY <1>15 DEF EndPrefetch
<1>16. CASE LookupHits
  <2>1. current \in Frames /\ Slot(current) \in 0 .. capacity - 1
    BY SlotType
  <2>2. /\ ring[Slot(current)] # None /\ ring[Slot(current)].frame = current
        /\ ring[Slot(current)].attributes = attributes
        /\ ring[Slot(current)].units = units
    BY <1>16, <2>1 DEF LookupHits, Holds, CacheIsFresh
  <2>3. ring[Slot(current)] \in Clouds
    BY <2>1, <2>2
  <2>4. QED
    BY <1>16, <2>2, <2>3 DEF LookupHits, Clouds
<1>17. CASE LookupMisses
  BY <1>17 DEF LookupMisses
<1>18. ASSUME NEW t \in Tasks, TaskGivesUp(t)
      PROVE  ServesCurrent'
  BY <1>18 DEF TaskGivesUp
<1>19. ASSUME NEW t \in Tasks, TaskBegins(t)
      PROVE  ServesCurrent'
  BY <1>19 DEF TaskBegins
<1>20. ASSUME NEW l \in Loaders, ReadAttributes(l)
      PROVE  ServesCurrent'
  BY <1>20 DEF ReadAttributes
<1>21. ASSUME NEW l \in Loaders, ReadUnits(l)
      PROVE  ServesCurrent'
  BY <1>21 DEF ReadUnits
<1>22. ASSUME NEW l \in Loaders, Store(l)
      PROVE  ServesCurrent'
  BY <1>22 DEF Store, Decoded, Unclaim, HandToDevice
<1>23. ASSUME NEW l \in Loaders, StoreStale(l)
      PROVE  ServesCurrent'
  BY <1>23 DEF StoreStale, Decoded, Unclaim, HandToDevice
<1>24. ASSUME NEW l \in Loaders, DecodeFails(l)
      PROVE  ServesCurrent'
  BY <1>24 DEF DecodeFails, Unclaim
<1>25. CASE UNCHANGED vars
  BY <1>25 DEF vars
<1>26. QED
  BY <1>1, <1>2, <1>3, <1>4, <1>5, <1>6, <1>7, <1>8, <1>9, <1>10, <1>11,
     <1>12, <1>13, <1>14, <1>15, <1>16, <1>17, <1>18, <1>19, <1>20,
     <1>21, <1>22, <1>23, <1>24, <1>25
     DEF Next, GetFrame, Configure, Decode

(* Claims stay in place.                                                  *)
LEMMA PlaceStep ==
  ASSUME TypeOK, ClaimsInPlace, [Next]_vars
  PROVE  ClaimsInPlace'
<1> USE LoaderAssumption DEF TypeOK, ClaimsInPlace, Loaders, BeginGet, EmptyRing,
       Slot, settingVars, cacheVars, deviceVars
<1>1. CASE Tick
  BY <1>1 DEF Tick
<1>2. CASE TickWithoutLoad
  BY <1>2 DEF TickWithoutLoad
<1>3. CASE Scrub
  BY <1>3 DEF Scrub
<1>4. CASE Reload
  BY <1>4 DEF Reload
<1>5. CASE SetPositionUnits
  BY <1>5 DEF SetPositionUnits
<1>6. CASE SetAttributes
  BY <1>6 DEF SetAttributes
<1>7. CASE Invalidate
  BY <1>7 DEF Invalidate
<1>8. CASE Resize
  BY <1>8 DEF Resize
<1>9. CASE SetLookahead
  BY <1>9 DEF SetLookahead
<1>10. CASE Close
  BY <1>10 DEF Close
<1>11. CASE Drop
  BY <1>11 DEF Drop
<1>12. CASE PrefetchClaims
  <2>1. Ahead \in Frames /\ Slot(Ahead) \in 0 .. capacity - 1
    BY AheadType, SlotType
  <2>2. QED
    BY <1>12, <2>1 DEF PrefetchClaims
<1>13. CASE PrefetchSkips
  BY <1>13 DEF PrefetchSkips
<1>14. CASE DetachTask
  BY <1>14 DEF DetachTask
<1>15. CASE EndPrefetch
  BY <1>15 DEF EndPrefetch
<1>16. CASE LookupHits
  BY <1>16 DEF LookupHits
<1>17. CASE LookupMisses
  BY <1>17 DEF LookupMisses
<1>18. ASSUME NEW t \in Tasks, TaskGivesUp(t)
      PROVE  ClaimsInPlace'
  BY <1>18 DEF TaskGivesUp
<1>19. ASSUME NEW t \in Tasks, TaskBegins(t)
      PROVE  ClaimsInPlace'
  BY <1>19 DEF TaskBegins
<1>20. ASSUME NEW l \in Loaders, ReadAttributes(l)
      PROVE  ClaimsInPlace'
  BY <1>20 DEF ReadAttributes
<1>21. ASSUME NEW l \in Loaders, ReadUnits(l)
      PROVE  ClaimsInPlace'
  BY <1>21 DEF ReadUnits
<1>22. ASSUME NEW l \in Loaders, Store(l)
      PROVE  ClaimsInPlace'
  BY <1>22 DEF Store, Decoded, Unclaim, HandToDevice
<1>23. ASSUME NEW l \in Loaders, StoreStale(l)
      PROVE  ClaimsInPlace'
  BY <1>23 DEF StoreStale, Decoded, Unclaim, HandToDevice
<1>24. ASSUME NEW l \in Loaders, DecodeFails(l)
      PROVE  ClaimsInPlace'
  BY <1>24 DEF DecodeFails, Unclaim
<1>25. CASE UNCHANGED vars
  BY <1>25 DEF vars
<1>26. QED
  BY <1>1, <1>2, <1>3, <1>4, <1>5, <1>6, <1>7, <1>8, <1>9, <1>10, <1>11,
     <1>12, <1>13, <1>14, <1>15, <1>16, <1>17, <1>18, <1>19, <1>20,
     <1>21, <1>22, <1>23, <1>24, <1>25
     DEF Next, GetFrame, Configure, Decode

(* The decode a claim waits for.                                           *)
Awaited(s) ==
  \/ \E t \in Tasks : /\ job[t].at # "free"
                      /\ job[t].frame = claimed[s]
                      /\ job[t].generation = generation
  \/ /\ dpc = "detach"
     /\ Ahead = claimed[s]
     /\ prefetchGen = generation

(* ClaimHasDecode, slot by slot.                                           *)
LEMMA ClaimMeans ==
  ClaimHasDecode <=>
    ((alive /\ ~closing) =>
       \A s \in 0 .. capacity - 1 : claimed[s] # None => Awaited(s))
  BY DEF ClaimHasDecode, Awaited

(* A step that leaves the claims and their tasks alone.                    *)
LEMMA StillAwaited ==
  ASSUME ClaimHasDecode,
         UNCHANGED <<claimed, capacity, generation, alive, closing, dpc,
                     prefetchGen, loop, current, offset>>,
         \A u \in Tasks : /\ job[u].at # "free" => job'[u].at # "free"
                          /\ job'[u].frame = job[u].frame
                          /\ job'[u].generation = job[u].generation
  PROVE  ClaimHasDecode'
<1>1. Ahead' = Ahead
  BY DEF Ahead, LoopRange
<1>2. QED
  BY <1>1 DEF ClaimHasDecode

(* A step of the device away from a detach: tasks are all that is awaited. *)
LEMMA TaskStillAwaited ==
  ASSUME ClaimHasDecode, dpc # "detach",
         UNCHANGED <<claimed, capacity, generation, alive, closing>>,
         \A u \in Tasks : job'[u] = job[u]
  PROVE  ClaimHasDecode'
  BY DEF ClaimHasDecode

(* A decode that ends takes the claims on its frame with it.               *)
LEMMA FinishedDecode ==
  ASSUME TypeOK, ClaimsInPlace, DeviceInv, ClaimHasDecode, NEW l \in Loaders,
         job[l].at = "store", Unclaim(l), job' = [job EXCEPT ![l] = Free],
         UNCHANGED <<capacity, generation, alive, closing, prefetchGen, loop,
                     current, offset>>,
         dpc' # dpc => l = Device
  PROVE  ClaimHasDecode'
<1> DEFINE f == job[l].frame
<1>1. f \in Frames /\ Slot(f) \in 0 .. capacity - 1
  BY SlotType DEF TypeOK, Jobs
<1>2. \A s \in 0 .. capacity - 1 :
        claimed'[s] # None => claimed'[s] = claimed[s] /\ claimed[s] # f
  <2>1. ASSUME NEW s \in 0 .. capacity - 1, claimed[s] = f
        PROVE  s = Slot(f)
    BY <1>1, <2>1, LoaderAssumption DEF ClaimsInPlace, Frames
  <2>2. QED
    BY <1>1, <2>1 DEF Unclaim, TypeOK
<1>3. \A u \in Tasks : job[u].frame # f => job'[u] = job[u]
  BY DEF TypeOK, Loaders
<1>4. Ahead' = Ahead
  BY DEF Ahead, LoopRange
<1>5. dpc = "detach" => dpc' = "detach"
  BY DEF DeviceInv
<1>6. ASSUME NEW s \in 0 .. capacity - 1, claimed'[s] # None, alive, ~closing
      PROVE  Awaited(s)'
  <2>1. Awaited(s) /\ claimed'[s] = claimed[s] /\ claimed[s] # f
    BY <1>2, <1>6, ClaimMeans
  <2>2. QED
    BY <1>3, <1>4, <1>5, <2>1 DEF Awaited
<1>7. QED
  BY <1>6 DEF ClaimHasDecode, Awaited

(* Every claim keeps its decode.                                           *)
LEMMA ClaimStep ==
  ASSUME TypeOK, DeviceInv, PrefetchInv, ClaimsInPlace, ClaimHasDecode, [Next]_vars
  PROVE  ClaimHasDecode'
<1> USE DEF settingVars, cacheVars, deviceVars
<1>1. CASE Tick
  <2>1. /\ UNCHANGED <<claimed, capacity, generation, job, alive, closing>>
        /\ dpc # "detach"
    BY <1>1 DEF Tick
  <2>2. QED
    BY <2>1, TaskStillAwaited
<1>2. CASE TickWithoutLoad
  <2>1. /\ UNCHANGED <<claimed, capacity, generation, job, alive, closing>>
        /\ dpc # "detach"
    BY <1>2 DEF TickWithoutLoad
  <2>2. QED
    BY <2>1, TaskStillAwaited
<1>3. CASE Scrub
  <2>1. /\ UNCHANGED <<claimed, capacity, generation, job, alive, closing>>
        /\ dpc # "detach"
    BY <1>3 DEF Scrub
  <2>2. QED
    BY <2>1, TaskStillAwaited
<1>4. CASE Reload
  <2>1. /\ UNCHANGED <<claimed, capacity, generation, job, alive, closing>>
        /\ dpc # "detach"
    BY <1>4 DEF Reload
  <2>2. QED
    BY <2>1, TaskStillAwaited
<1>5. CASE SetPositionUnits
  <2>1. /\ UNCHANGED <<claimed, capacity, generation, job, alive, closing>>
        /\ dpc # "detach"
    BY <1>5 DEF SetPositionUnits
  <2>2. QED
    BY <2>1, TaskStillAwaited
<1>6. CASE SetAttributes
  <2>1. /\ UNCHANGED <<claimed, capacity, generation, job, alive, closing>>
        /\ dpc # "detach"
    BY <1>6 DEF SetAttributes
  <2>2. QED
    BY <2>1, TaskStillAwaited
<1>7. CASE Invalidate
  BY <1>7 DEF Invalidate, ClaimHasDecode, EmptyRing
<1>8. CASE Resize
  BY <1>8 DEF Resize, ClaimHasDecode, EmptyRing
<1>9. CASE SetLookahead
  <2>1. /\ UNCHANGED <<claimed, capacity, generation, job, alive, closing>>
        /\ dpc # "detach"
    BY <1>9 DEF SetLookahead
  <2>2. QED
    BY <2>1, TaskStillAwaited
<1>10. CASE Close
  BY <1>10 DEF Close, ClaimHasDecode
<1>11. CASE Drop
  BY <1>11 DEF Drop, ClaimHasDecode
<1>12. CASE PrefetchClaims
  <2>1. Ahead \in Frames /\ Slot(Ahead) \in 0 .. capacity - 1
    BY AheadType, SlotType
  <2>2. Ahead' = Ahead
    BY <1>12 DEF PrefetchClaims, Ahead, LoopRange
  <2>3. /\ dpc = "prefetch" /\ dpc' = "detach"
        /\ claimed' = [claimed EXCEPT ![Slot(Ahead)] = Ahead]
        /\ UNCHANGED <<capacity, generation, prefetchGen, job, alive, closing>>
    BY <1>12 DEF PrefetchClaims
  <2>4. ASSUME NEW s \in 0 .. capacity - 1, claimed'[s] # None, alive, ~closing
        PROVE  Awaited(s)'
    <3>1. CASE s = Slot(Ahead)
      BY <2>1, <2>2, <2>3, <2>4, <3>1 DEF Awaited, PrefetchInv, TypeOK
    <3>2. CASE s # Slot(Ahead)
      BY <2>1, <2>3, <2>4, <3>2, ClaimMeans DEF Awaited, TypeOK
    <3>3. QED
      BY <3>1, <3>2
  <2>5. QED
    BY <2>3, <2>4 DEF ClaimHasDecode, Awaited
<1>13. CASE PrefetchSkips
  <2>1. /\ UNCHANGED <<claimed, capacity, generation, job, alive, closing>>
        /\ dpc # "detach"
    BY <1>13 DEF PrefetchSkips
  <2>2. QED
    BY <2>1, TaskStillAwaited
<1>14. CASE DetachTask
  <2>1. PICK t \in Tasks :
          /\ job[t] = Free
          /\ job' = [job EXCEPT ![t] = [Free EXCEPT !.at = "queued",
                                                    !.frame = Ahead,
                                                    !.generation = prefetchGen]]
    BY <1>14 DEF DetachTask
  <2>2. /\ job'[t].at = "queued" /\ job'[t].frame = Ahead
        /\ job'[t].generation = prefetchGen
        /\ \A u \in Tasks : job[u].at # "free" => job'[u] = job[u]
    BY <2>1 DEF Free, TypeOK, Loaders
  <2>3. UNCHANGED <<claimed, capacity, generation, alive, closing>>
    BY <1>14 DEF DetachTask
  <2>4. ASSUME NEW s \in 0 .. capacity - 1, claimed[s] # None, alive, ~closing
        PROVE  Awaited(s)'
    <3>1. Awaited(s)
      BY <2>4, ClaimMeans
    <3>2. QED
      BY <2>2, <2>3, <3>1 DEF Awaited
  <2>5. QED
    BY <2>3, <2>4 DEF ClaimHasDecode, Awaited
<1>15. CASE EndPrefetch
  <2>1. /\ UNCHANGED <<claimed, capacity, generation, job, alive, closing>>
        /\ dpc # "detach"
    BY <1>15 DEF EndPrefetch
  <2>2. QED
    BY <2>1, TaskStillAwaited
<1>16. CASE LookupHits
  <2>1. /\ UNCHANGED <<claimed, capacity, generation, job, alive, closing>>
        /\ dpc # "detach"
    BY <1>16 DEF LookupHits
  <2>2. QED
    BY <2>1, TaskStillAwaited
<1>17. CASE LookupMisses
  <2>1. /\ UNCHANGED <<claimed, capacity, generation, alive, closing>>
        /\ dpc # "detach"
        /\ \A t \in Tasks : job'[t] = job[t]
    BY <1>17, LoaderAssumption DEF LookupMisses, TypeOK, Loaders
  <2>2. QED
    BY <2>1, TaskStillAwaited
<1>18. ASSUME NEW t \in Tasks, TaskGivesUp(t)
      PROVE  ClaimHasDecode'
  <2>1. UNCHANGED <<claimed, capacity, generation, alive, closing, dpc,
                    prefetchGen, loop, current, offset>>
    BY <1>18 DEF TaskGivesUp
  <2>2. ASSUME alive, NEW u \in Tasks, job[u].generation = generation
        PROVE  job'[u] = job[u]
    BY <1>18, <2>2 DEF TaskGivesUp, TypeOK, Loaders
  <2>3. Ahead' = Ahead
    BY <2>1 DEF Ahead, LoopRange
  <2>4. ASSUME NEW s \in 0 .. capacity - 1, claimed[s] # None, alive, ~closing
        PROVE  Awaited(s)'
    <3>1. Awaited(s)
      BY <2>4, ClaimMeans
    <3>2. QED
      BY <2>1, <2>2, <2>3, <2>4, <3>1 DEF Awaited
  <2>5. QED
    BY <2>1, <2>4 DEF ClaimHasDecode, Awaited
<1>19. ASSUME NEW t \in Tasks, TaskBegins(t)
      PROVE  ClaimHasDecode'
  <2>1. \A u \in Tasks : /\ job[u].at # "free" => job'[u].at # "free"
                         /\ job'[u].frame = job[u].frame
                         /\ job'[u].generation = job[u].generation
    BY <1>19 DEF TaskBegins, TypeOK, Jobs, Loaders
  <2>2. UNCHANGED <<claimed, capacity, generation, alive, closing, dpc,
                    prefetchGen, loop, current, offset>>
    BY <1>19 DEF TaskBegins
  <2>3. QED
    BY <2>1, <2>2, StillAwaited
<1>20. ASSUME NEW l \in Loaders, ReadAttributes(l)
      PROVE  ClaimHasDecode'
  <2>1. \A u \in Tasks : /\ job[u].at # "free" => job'[u].at # "free"
                         /\ job'[u].frame = job[u].frame
                         /\ job'[u].generation = job[u].generation
    BY <1>20 DEF ReadAttributes, TypeOK, Jobs, Loaders
  <2>2. UNCHANGED <<claimed, capacity, generation, alive, closing, dpc,
                    prefetchGen, loop, current, offset>>
    BY <1>20 DEF ReadAttributes
  <2>3. QED
    BY <2>1, <2>2, StillAwaited
<1>21. ASSUME NEW l \in Loaders, ReadUnits(l)
      PROVE  ClaimHasDecode'
  <2>1. \A u \in Tasks : /\ job[u].at # "free" => job'[u].at # "free"
                         /\ job'[u].frame = job[u].frame
                         /\ job'[u].generation = job[u].generation
    BY <1>21 DEF ReadUnits, TypeOK, Jobs, Loaders
  <2>2. UNCHANGED <<claimed, capacity, generation, alive, closing, dpc,
                    prefetchGen, loop, current, offset>>
    BY <1>21 DEF ReadUnits
  <2>3. QED
    BY <2>1, <2>2, StillAwaited
<1>22. ASSUME NEW l \in Loaders, Store(l)
      PROVE  ClaimHasDecode'
  BY <1>22, FinishedDecode DEF Store, HandToDevice
<1>23. ASSUME NEW l \in Loaders, StoreStale(l)
      PROVE  ClaimHasDecode'
  BY <1>23, FinishedDecode DEF StoreStale, HandToDevice
<1>24. ASSUME NEW l \in Loaders, DecodeFails(l)
      PROVE  ClaimHasDecode'
  BY <1>24, FinishedDecode DEF DecodeFails, HandToDevice
<1>25. CASE UNCHANGED vars
  BY <1>25, StillAwaited DEF vars
<1>26. QED
  BY <1>1, <1>2, <1>3, <1>4, <1>5, <1>6, <1>7, <1>8, <1>9, <1>10, <1>11,
     <1>12, <1>13, <1>14, <1>15, <1>16, <1>17, <1>18, <1>19, <1>20,
     <1>21, <1>22, <1>23, <1>24, <1>25
     DEF Next, GetFrame, Configure, Decode

-----------------------------------------------------------------------------
(* A loader that has just been opened satisfies the invariant.             *)
LEMMA InitIInv == Init => IInv
<1> SUFFICES ASSUME Init
             PROVE  IInv
  OBVIOUS
<1> USE LoaderAssumption DEF Init, EmptyRing
<1>1. TypeOK
  <2>1. 0 \in Frames /\ FrameCount - 1 \in Frames
    BY DEF Frames
  <2>2. loop \in Loops
    BY <2>1 DEF Loops, Frames
  <2>3. Free \in Jobs
    BY <2>1 DEF Free, Jobs, Places
  <2>4. job \in [Loaders -> Jobs]
    BY <2>3
  <2>5. QED
    BY <2>1, <2>2, <2>4 DEF TypeOK
<1>2. JobInv /\ DeviceInv
  BY DEF JobInv, DeviceInv, Free, Loaders
<1>3. PrefetchInv /\ ClaimsInPlace /\ CacheIsFresh /\ ServesCurrent
  BY DEF PrefetchInv, ClaimsInPlace, CacheIsFresh, ServesCurrent
<1>4. ClaimHasDecode
  BY DEF ClaimHasDecode
<1>5. QED
  BY <1>1, <1>2, <1>3, <1>4 DEF IInv

(* The invariant holds of every reachable state.                           *)
THEOREM Inductive == Spec => []IInv
<1>1. IInv /\ [Next]_vars => IInv'
  BY TypeStep, JobStep, DeviceStep, PrefetchStep, FreshStep, ServeStep,
     PlaceStep, ClaimStep DEF IInv
<1>2. QED
  BY InitIInv, <1>1, PTL DEF Spec

(* Every variable keeps its type: the frame, the ring and the loop range   *)
(* never leave the sequence, for every number of frames and every          *)
(* capacity.                                                               *)
THEOREM TypeCorrect == Spec => []TypeOK
<1>1. IInv => TypeOK
  BY DEF IInv
<1>2. QED
  BY <1>1, Inductive, PTL

(* No decode, however late, leaves a cloud of old settings in the ring.    *)
THEOREM RingStaysFresh == Spec => []CacheIsFresh
<1>1. IInv => CacheIsFresh
  BY DEF IInv
<1>2. QED
  BY <1>1, Inductive, PTL

(* A call of the device ends with the frame and the settings it asked for. *)
THEOREM DeviceServesCurrent == Spec => []ServesCurrent
<1>1. IInv => ServesCurrent
  BY DEF IInv
<1>2. QED
  BY <1>1, Inductive, PTL

(* No slot stays claimed for a decode that is not coming.                  *)
THEOREM NoClaimIsLeaked == Spec => []ClaimHasDecode
<1>1. IInv => ClaimHasDecode
  BY DEF IInv
<1>2. QED
  BY <1>1, Inductive, PTL
=============================================================================
