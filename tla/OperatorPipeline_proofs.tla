----------------------- MODULE OperatorPipeline_proofs -----------------------
(***************************************************************************)
(* Proofs about OperatorPipeline, for every number of workers, every queue *)
(* capacity and every bound.                                               *)
(***************************************************************************)
EXTENDS OperatorPipeline, Integers, TLAPS

(* The newest frame that has left the host's hand.                         *)
Submitted == IF hostpc \in Pushing THEN inputSeq - 1 ELSE inputSeq

(* stop() is at a worker it still has to join.                             *)
HostInv ==
  /\ hostpc \in {"requestStop", "abort", "join"} => target \in Workers
  /\ hostpc \in Pushing => inputSeq > 0
  /\ hostpc \notin Stopping => \A w \in Workers : ~stopReq[w]
  /\ hostpc \in Stopping => \A w \in Workers : w < target => pc[w] = "done"
  /\ hostpc = "replace" => target > NumWorkers

(* Tickets: whoever waits is blocked in pop, once, and nothing is queued.  *)
WaitingInv ==
  /\ \A i \in 1 .. Len(waiting) : pc[waiting[i]] = "waiting"
  /\ \A i, j \in 1 .. Len(waiting) : i # j => waiting[i] # waiting[j]
  /\ waiting # << >> => queue = << >>

(* The queue holds submitted frames, oldest first.                         *)
QueueInv ==
  /\ Len(queue) <= Capacity
  /\ \A i \in 1 .. Len(queue) : queue[i] > 0 /\ queue[i] <= Submitted
  /\ \A i, j \in 1 .. Len(queue) : i < j => queue[i] < queue[j]

(* What the workers hold is older than all that is queued, and nobody      *)
(* holds what another one holds.                                           *)
HolderInv ==
  /\ \A w \in Workers : frame[w] > 0 <=> (Undecided(w) \/ Publishing(w))
  /\ \A w \in Workers : frame[w] <= Submitted
  /\ \A w \in Workers : \A i \in 1 .. Len(queue) : frame[w] < queue[i]
  /\ \A v, w \in Workers : (v # w /\ frame[v] > 0) => frame[v] # frame[w]

(* What was shown is older than all that is queued and in no worker's      *)
(* hands before the gate.                                                  *)
ShownInv ==
  /\ published <= Submitted
  /\ \A i \in 1 .. Len(queue) : published < queue[i]
  /\ \A w \in Workers : Undecided(w) => frame[w] # published

IInv ==
  /\ TypeOK
  /\ HostInv
  /\ WaitingInv
  /\ QueueInv
  /\ HolderInv
  /\ ShownInv

-----------------------------------------------------------------------------
(* The capacity of the queue is at least one.                              *)
LEMMA CapacityType == Capacity \in Nat \ {0}
  BY ConstantsAssumption DEF Capacity

(* What Head and Tail are of a queue that is not empty.                    *)
LEMMA HeadTail ==
  ASSUME NEW S, NEW s \in Seq(S), s # << >>
  PROVE  /\ Len(s) \in Nat /\ Len(s) > 0
         /\ Head(s) = s[1] /\ s[1] \in S
         /\ Tail(s) \in Seq(S) /\ Len(Tail(s)) = Len(s) - 1
         /\ \A i \in 1 .. Len(Tail(s)) : i + 1 \in 1 .. Len(s) /\ Tail(s)[i] = s[i + 1]
  OBVIOUS

(* What Append adds to a sequence, and where: what push does to the queue. *)
LEMMA Appended ==
  ASSUME NEW S, NEW s \in Seq(S), NEW e \in S
  PROVE  /\ Append(s, e) \in Seq(S) /\ Len(Append(s, e)) = Len(s) + 1
         /\ Len(s) \in Nat
         /\ \A i \in 1 .. Len(Append(s, e)) :
              /\ i # Len(s) + 1 => i \in 1 .. Len(s)
              /\ Append(s, e)[i] = IF i = Len(s) + 1 THEN e ELSE s[i]
  OBVIOUS

(* The length and the elements of a sequence are typed.                    *)
LEMMA ElementsTyped ==
  ASSUME NEW S, NEW s \in Seq(S)
  PROVE  Len(s) \in Nat /\ \A i \in 1 .. Len(s) : s[i] \in S
  OBVIOUS

(* One step keeps the types, given where stop() is.                        *)
LEMMA TypeStep ==
  ASSUME TypeOK, HostInv, [Next]_vars
  PROVE  TypeOK'
<1> USE ConstantsAssumption, CapacityType DEF TypeOK, HostInv, Workers,
   WorkerPCs, BeforeGate, AfterGate, HostIdle, Pushing, Stopping,
   hostVars, outVars, Goto, LetGo
<1>1. CASE Submit
  BY <1>1 DEF Submit
<1>2. CASE HandOver
  <2>1. /\ waiting \in Seq(Workers) /\ waiting # << >>
        /\ inputSeq \in Nat /\ "handed" \in WorkerPCs
    BY <1>2 DEF HandOver
  <2>2. Head(waiting) \in Workers /\ Tail(waiting) \in Seq(Workers)
    BY ONLY <2>1, HeadTail
  <2>3. waiting' \in Seq(Workers)
    BY <1>2, <2>2 DEF HandOver
  <2>4. pc' \in [Workers -> WorkerPCs] /\ frame' \in [Workers -> Nat]
    <3>1. /\ pc' = [pc EXCEPT ![Head(waiting)] = "handed"]
          /\ frame' = [frame EXCEPT ![Head(waiting)] = inputSeq]
          /\ pc \in [Workers -> WorkerPCs] /\ frame \in [Workers -> Nat]
      BY <1>2 DEF HandOver
    <3>2. QED
      BY ONLY <2>1, <2>2, <3>1
  <2>5. hostpc' = "idle"
    BY <1>2 DEF HandOver
  <2>6. QED
    BY <1>2, <2>3, <2>4, <2>5 DEF HandOver
<1>3. CASE Enqueue
  BY <1>3 DEF Enqueue
<1>4. CASE FindFull
  BY <1>4 DEF FindFull
<1>5. CASE EvictOldest
  <2>1. queue' = queue \/ (queue # << >> /\ queue' = Tail(queue))
    BY <1>5 DEF EvictOldest
  <2>2. queue' \in Seq(Nat)
    <3>1. queue \in Seq(Nat)
      OBVIOUS
    <3>2. CASE queue' = queue
      BY <3>1, <3>2
    <3>3. CASE queue # << >> /\ queue' = Tail(queue)
      <4>1. Tail(queue) \in Seq(Nat)
        BY ONLY <3>1, <3>3, HeadTail, Zenon
      <4>2. QED
        BY <3>3, <4>1
    <3>4. QED
      BY <2>1, <3>2, <3>3
  <2>3. hostpc' = "pushing"
    BY <1>5 DEF EvictOldest
  <2>4. QED
    BY <1>5, <2>2, <2>3 DEF EvictOldest
<1>6. CASE BeginRebuild
  BY <1>6 DEF BeginRebuild, StopNext
<1>7. CASE RequestStop
  BY <1>7 DEF RequestStop
<1>8. CASE AbortQueue
  BY <1>8 DEF AbortQueue, AbortPops, Handed
<1>9. CASE Join
  BY <1>9 DEF Join, StopNext
<1>10. CASE Replace
  BY <1>10 DEF Replace
<1>11. ASSUME NEW w \in Workers, Register(w)
     PROVE  TypeOK'
  BY <1>11 DEF Register
<1>12. ASSUME NEW w \in Workers, RegisterStopped(w)
     PROVE  TypeOK'
  BY <1>12 DEF RegisterStopped, Handed
<1>13. ASSUME NEW w \in Workers, CheckStop(w)
     PROVE  TypeOK'
  BY <1>13 DEF CheckStop
<1>14. ASSUME NEW w \in Workers, PopFrame(w)
     PROVE  TypeOK'
  BY <1>14 DEF PopFrame
<1>15. ASSUME NEW w \in Workers, PopBlocks(w)
     PROVE  TypeOK'
  BY <1>15 DEF PopBlocks
<1>16. ASSUME NEW w \in Workers, WakeUp(w)
     PROVE  TypeOK'
  BY <1>16 DEF WakeUp
<1>17. ASSUME NEW w \in Workers, StopAfterPop(w)
     PROVE  TypeOK'
  BY <1>17 DEF StopAfterPop
<1>18. ASSUME NEW w \in Workers, GoOnAfterPop(w)
     PROVE  TypeOK'
  BY <1>18 DEF GoOnAfterPop
<1>19. ASSUME NEW w \in Workers, SkipSuperseded(w)
     PROVE  TypeOK'
  BY <1>19 DEF SkipSuperseded
<1>20. ASSUME NEW w \in Workers, TakeOn(w)
     PROVE  TypeOK'
  BY <1>20 DEF TakeOn
<1>21. ASSUME NEW w \in Workers, Process(w)
     PROVE  TypeOK'
  BY <1>21 DEF Process
<1>22. ASSUME NEW w \in Workers, OperatorDrops(w)
     PROVE  TypeOK'
  BY <1>22 DEF OperatorDrops
<1>23. ASSUME NEW w \in Workers, OperatorThrows(w)
     PROVE  TypeOK'
  BY <1>23 DEF OperatorThrows
<1>24. ASSUME NEW w \in Workers, WinGate(w)
     PROVE  TypeOK'
  BY <1>24 DEF WinGate
<1>25. ASSUME NEW w \in Workers, LoseGate(w)
     PROVE  TypeOK'
  BY <1>25 DEF LoseGate
<1>26. ASSUME NEW w \in Workers, StoreLatest(w)
     PROVE  TypeOK'
  BY <1>26 DEF StoreLatest
<1>27. ASSUME NEW w \in Workers, StoreCamera(w)
     PROVE  TypeOK'
  BY <1>27 DEF StoreCamera
<1>28. ASSUME NEW w \in Workers, Complete(w)
     PROVE  TypeOK'
  BY <1>28 DEF Complete
<1>29. CASE UNCHANGED vars
  BY <1>29 DEF vars
<1>30. QED
  BY <1>1, <1>2, <1>3, <1>4, <1>5, <1>6, <1>7, <1>8, <1>9, <1>10, <1>11,
     <1>12, <1>13, <1>14, <1>15, <1>16, <1>17, <1>18, <1>19, <1>20,
     <1>21, <1>22, <1>23, <1>24, <1>25, <1>26, <1>27, <1>28, <1>29 DEF
     Next, Host, Worker

(* One step keeps the host's bookkeeping.                                  *)
LEMMA HostStep ==
  ASSUME TypeOK, TypeOK', HostInv, [Next]_vars
  PROVE  HostInv'
<1> USE ConstantsAssumption, CapacityType DEF TypeOK, HostInv, Workers,
   WorkerPCs, BeforeGate, AfterGate, HostIdle, Pushing, Stopping,
   hostVars, outVars, Goto, LetGo
<1>1. CASE Submit
  BY <1>1 DEF Submit
<1>2. CASE HandOver
  BY <1>2 DEF HandOver
<1>3. CASE Enqueue
  BY <1>3 DEF Enqueue
<1>4. CASE FindFull
  BY <1>4 DEF FindFull
<1>5. CASE EvictOldest
  BY <1>5 DEF EvictOldest
<1>6. CASE BeginRebuild
  BY <1>6 DEF BeginRebuild, StopNext
<1>7. CASE RequestStop
  BY <1>7 DEF RequestStop
<1>8. CASE AbortQueue
  BY <1>8 DEF AbortQueue, AbortPops, Handed
<1>9. CASE Join
  BY <1>9 DEF Join, StopNext
<1>10. CASE Replace
  BY <1>10 DEF Replace
<1>11. ASSUME NEW w \in Workers, Register(w)
     PROVE  HostInv'
  BY <1>11 DEF Register
<1>12. ASSUME NEW w \in Workers, RegisterStopped(w)
     PROVE  HostInv'
  BY <1>12 DEF RegisterStopped, Handed
<1>13. ASSUME NEW w \in Workers, CheckStop(w)
     PROVE  HostInv'
  BY <1>13 DEF CheckStop
<1>14. ASSUME NEW w \in Workers, PopFrame(w)
     PROVE  HostInv'
  BY <1>14 DEF PopFrame
<1>15. ASSUME NEW w \in Workers, PopBlocks(w)
     PROVE  HostInv'
  BY <1>15 DEF PopBlocks
<1>16. ASSUME NEW w \in Workers, WakeUp(w)
     PROVE  HostInv'
  BY <1>16 DEF WakeUp
<1>17. ASSUME NEW w \in Workers, StopAfterPop(w)
     PROVE  HostInv'
  BY <1>17 DEF StopAfterPop
<1>18. ASSUME NEW w \in Workers, GoOnAfterPop(w)
     PROVE  HostInv'
  BY <1>18 DEF GoOnAfterPop
<1>19. ASSUME NEW w \in Workers, SkipSuperseded(w)
     PROVE  HostInv'
  BY <1>19 DEF SkipSuperseded
<1>20. ASSUME NEW w \in Workers, TakeOn(w)
     PROVE  HostInv'
  BY <1>20 DEF TakeOn
<1>21. ASSUME NEW w \in Workers, Process(w)
     PROVE  HostInv'
  BY <1>21 DEF Process
<1>22. ASSUME NEW w \in Workers, OperatorDrops(w)
     PROVE  HostInv'
  BY <1>22 DEF OperatorDrops
<1>23. ASSUME NEW w \in Workers, OperatorThrows(w)
     PROVE  HostInv'
  BY <1>23 DEF OperatorThrows
<1>24. ASSUME NEW w \in Workers, WinGate(w)
     PROVE  HostInv'
  BY <1>24 DEF WinGate
<1>25. ASSUME NEW w \in Workers, LoseGate(w)
     PROVE  HostInv'
  BY <1>25 DEF LoseGate
<1>26. ASSUME NEW w \in Workers, StoreLatest(w)
     PROVE  HostInv'
  BY <1>26 DEF StoreLatest
<1>27. ASSUME NEW w \in Workers, StoreCamera(w)
     PROVE  HostInv'
  BY <1>27 DEF StoreCamera
<1>28. ASSUME NEW w \in Workers, Complete(w)
     PROVE  HostInv'
  BY <1>28 DEF Complete
<1>29. CASE UNCHANGED vars
  BY <1>29 DEF vars
<1>30. QED
  BY <1>1, <1>2, <1>3, <1>4, <1>5, <1>6, <1>7, <1>8, <1>9, <1>10, <1>11,
     <1>12, <1>13, <1>14, <1>15, <1>16, <1>17, <1>18, <1>19, <1>20,
     <1>21, <1>22, <1>23, <1>24, <1>25, <1>26, <1>27, <1>28, <1>29 DEF
     Next, Host, Worker

(* The hand-over takes the first ticket; the other waiting pops keep       *)
(* theirs.                                                                 *)
LEMMA HandOverWaiting ==
  ASSUME TypeOK, WaitingInv, HandOver
  PROVE  WaitingInv'
<1>1. /\ waiting # << >> /\ waiting \in Seq(Workers) /\ waiting' = Tail(waiting)
      /\ queue' = queue /\ pc' = [pc EXCEPT ![Head(waiting)] = "handed"]
      /\ pc \in [Workers -> WorkerPCs]
  BY DEF HandOver, TypeOK
<1>2. /\ Head(waiting) = waiting[1] /\ waiting[1] \in Workers
      /\ 1 \in 1 .. Len(waiting)
      /\ \A i \in 1 .. Len(waiting') :
           i + 1 \in 1 .. Len(waiting) /\ i + 1 # 1 /\ waiting'[i] = waiting[i + 1]
  BY <1>1, HeadTail
<1>3. \A i \in 1 .. Len(waiting) :
        waiting[i] \in Workers /\ (i # 1 => waiting[i] # waiting[1])
  BY <1>1, <1>2, ElementsTyped DEF WaitingInv
<1>4. \A v \in Workers : v # waiting[1] => pc'[v] = pc[v]
  BY <1>1, <1>2
<1>5. \A i \in 1 .. Len(waiting') : pc'[waiting'[i]] = "waiting"
  BY <1>2, <1>3, <1>4 DEF WaitingInv
<1>6. \A i, j \in 1 .. Len(waiting') : i # j => waiting'[i] # waiting'[j]
  <2> SUFFICES ASSUME NEW i \in 1 .. Len(waiting'), NEW j \in 1 .. Len(waiting'), i # j
               PROVE  waiting'[i] # waiting'[j]
    OBVIOUS
  <2>1. i + 1 \in 1 .. Len(waiting) /\ j + 1 \in 1 .. Len(waiting) /\ i + 1 # j + 1
    BY <1>2
  <2>2. waiting[i + 1] # waiting[j + 1]
    BY <2>1 DEF WaitingInv
  <2>3. QED
    BY <1>2, <2>2
<1>7. queue' = << >>
  BY <1>1 DEF WaitingInv
<1>8. QED
  BY <1>5, <1>6, <1>7 DEF WaitingInv

(* A pop that blocks takes a ticket of its own.                            *)
LEMMA PopBlocksWaiting ==
  ASSUME TypeOK, WaitingInv, NEW w \in Workers, PopBlocks(w)
  PROVE  WaitingInv'
<1>1. /\ waiting \in Seq(Workers) /\ waiting' = Append(waiting, w)
      /\ queue' = << >> /\ pc[w] # "waiting"
      /\ pc' = [pc EXCEPT ![w] = "waiting"] /\ pc \in [Workers -> WorkerPCs]
  BY DEF PopBlocks, Goto, TypeOK
<1>2. \A i \in 1 .. Len(waiting') :
        /\ i # Len(waiting) + 1 => i \in 1 .. Len(waiting)
        /\ waiting'[i] = IF i = Len(waiting) + 1 THEN w ELSE waiting[i]
  BY <1>1, Appended
<1>3. \A i \in 1 .. Len(waiting) :
        waiting[i] \in Workers /\ pc[waiting[i]] = "waiting"
  BY <1>1, ElementsTyped DEF WaitingInv
<1>4. \A i \in 1 .. Len(waiting) : waiting[i] # w
  BY <1>1, <1>3
<1>5. pc'[w] = "waiting" /\ \A v \in Workers : v # w => pc'[v] = pc[v]
  BY <1>1
<1>6. \A i \in 1 .. Len(waiting') : pc'[waiting'[i]] = "waiting"
  BY <1>2, <1>3, <1>4, <1>5
<1>7. \A i, j \in 1 .. Len(waiting') : i # j => waiting'[i] # waiting'[j]
  BY <1>2, <1>4 DEF WaitingInv
<1>8. QED
  BY <1>1, <1>6, <1>7 DEF WaitingInv

(* The frame handed over is newer than all that is queued: nothing is.     *)
LEMMA HandOverQueue ==
  ASSUME TypeOK, HostInv, WaitingInv, HandOver
  PROVE  QueueInv'
<1>1. queue' = << >>
  BY DEF HandOver, WaitingInv
<1>2. Len(queue') = 0
  BY <1>1
<1>3. QED
  BY <1>2, CapacityType DEF QueueInv

(* The frame handed over is newer than all that the workers hold.          *)
LEMMA HandOverHolders ==
  ASSUME TypeOK, HostInv, WaitingInv, HolderInv, HandOver
  PROVE  HolderInv'
<1> DEFINE h == waiting[1]
<1>1. /\ waiting # << >> /\ waiting \in Seq(Workers)
      /\ pc \in [Workers -> WorkerPCs] /\ frame \in [Workers -> Nat]
      /\ inputSeq \in Nat /\ inputSeq > 0
      /\ pc' = [pc EXCEPT ![Head(waiting)] = "handed"]
      /\ frame' = [frame EXCEPT ![Head(waiting)] = inputSeq]
  BY ConstantsAssumption DEF HandOver, TypeOK, HostInv, Pushing
<1>2. h \in Workers /\ Head(waiting) = h
  BY <1>1, HeadTail
<1>3. /\ pc'[h] = "handed" /\ frame'[h] = inputSeq
      /\ \A v \in Workers : v # h => pc'[v] = pc[v] /\ frame'[v] = frame[v]
  BY <1>1, <1>2
<1> HIDE DEF h
<1>4. Submitted = inputSeq - 1 /\ Submitted' = inputSeq /\ Len(queue') = 0
  BY DEF HandOver, Submitted, Pushing, HostIdle, WaitingInv
<1>5. \A v \in Workers : frame[v] \in Nat /\ frame[v] < inputSeq
  BY <1>1, <1>4 DEF HolderInv
<1>6. \A v \in Workers : (frame[v] > 0 <=> (Undecided(v) \/ Publishing(v)))'
  BY <1>1, <1>3 DEF HolderInv, Undecided, Publishing, BeforeGate
<1>7. \A v \in Workers : frame'[v] <= Submitted'
  BY <1>1, <1>3, <1>4, <1>5
<1>8. \A u, v \in Workers : (u # v /\ frame'[u] > 0) => frame'[u] # frame'[v]
  BY <1>3, <1>5 DEF HolderInv
<1>9. QED
  BY <1>4, <1>6, <1>7, <1>8 DEF HolderInv

(* What is left after an eviction was queued before.                       *)
LEMMA EvictOldestHolders ==
  ASSUME TypeOK, HolderInv, EvictOldest
  PROVE  HolderInv'
<1>1. /\ UNCHANGED <<pc, frame>> /\ Submitted' = Submitted
      /\ queue \in Seq(Nat)
      /\ queue' = IF queue = << >> THEN queue ELSE Tail(queue)
  BY DEF EvictOldest, Submitted, Pushing, TypeOK
<1>2. \A i \in 1 .. Len(queue') : \E j \in 1 .. Len(queue) : queue'[i] = queue[j]
  BY <1>1, HeadTail
<1>3. \A v \in Workers : \A i \in 1 .. Len(queue') : frame[v] < queue'[i]
  BY <1>2 DEF HolderInv
<1>4. QED
  BY <1>1, <1>3 DEF HolderInv, Undecided, Publishing

(* An abort empties hands and fills none.                                  *)
LEMMA EmptiedHands ==
  ASSUME TypeOK, HolderInv, queue' = queue, Submitted' = Submitted,
         frame' \in [Workers -> Nat],
         \A v \in Workers :
           \/ frame'[v] = 0 /\ pc'[v] = "done"
           \/ frame'[v] = frame[v] /\ pc'[v] = pc[v]
           \/ frame'[v] = frame[v] /\ frame[v] = 0 /\ pc'[v] \in {"loop", "done"}
  PROVE  HolderInv'
<1>1. \A v \in Workers : (frame[v] > 0 <=> (Undecided(v) \/ Publishing(v)))'
  BY DEF HolderInv, Undecided, Publishing, BeforeGate, AfterGate
<1>2. \A v \in Workers : frame[v] \in Nat /\ (frame'[v] = frame[v] \/ frame'[v] = 0)
  BY DEF TypeOK
<1>3. Submitted \in Int
  BY ConstantsAssumption DEF TypeOK, Submitted
<1>4. \A v \in Workers : frame'[v] <= Submitted'
  BY <1>2, <1>3 DEF HolderInv
<1>5. \A i \in 1 .. Len(queue) : queue[i] \in Nat
  BY ElementsTyped DEF TypeOK
<1>6. \A v \in Workers : \A i \in 1 .. Len(queue') : frame'[v] < queue'[i]
  BY <1>2, <1>5 DEF HolderInv
<1>7. \A u, v \in Workers : (u # v /\ frame'[u] > 0) => frame'[u] # frame'[v]
  BY <1>2 DEF HolderInv
<1>8. QED
  BY <1>1, <1>4, <1>6, <1>7 DEF HolderInv

(* A worker that has not started, or waits in pop, holds no frame.         *)
LEMMA EmptyHand ==
  ASSUME TypeOK, HolderInv, NEW v \in Workers, pc[v] \in {"waiting", "starting"}
  PROVE  frame[v] = 0
<1>1. ~Undecided(v) /\ ~Publishing(v)
  BY DEF Undecided, Publishing, BeforeGate, AfterGate
<1>2. frame[v] \in Nat /\ ~(frame[v] > 0)
  BY <1>1 DEF HolderInv, TypeOK
<1>3. QED
  BY <1>2

(* Aborting the blocked pops takes no frame out of a worker's hands.       *)
LEMMA AbortHolders ==
  ASSUME TypeOK, TypeOK', HolderInv, AbortQueue
  PROVE  HolderInv'
<1>1. PICK gone \in SUBSET Handed : AbortPops(gone)
  BY DEF AbortQueue
<1>2. /\ pc' = [v \in Workers |->
                  IF pc[v] = "waiting" \/ v \in gone THEN "done" ELSE pc[v]]
      /\ frame' = [v \in Workers |-> IF v \in gone THEN 0 ELSE frame[v]]
  BY <1>1 DEF AbortPops
<1>3. \A v \in Workers : pc[v] = "waiting" => frame[v] = 0
  BY EmptyHand
<1>4. \A v \in Workers :
        \/ frame'[v] = 0 /\ pc'[v] = "done"
        \/ frame'[v] = frame[v] /\ pc'[v] = pc[v]
        \/ frame'[v] = frame[v] /\ frame[v] = 0 /\ pc'[v] \in {"loop", "done"}
  BY <1>2, <1>3
<1>5. queue' = queue /\ Submitted' = Submitted
  BY DEF AbortQueue, Submitted, Pushing
<1>6. frame' \in [Workers -> Nat]
  BY DEF TypeOK
<1>7. QED
  BY <1>4, <1>5, <1>6, EmptiedHands

(* A worker that starts after the stop aborts on its own and disturbs no   *)
(* other worker's frame.                                                   *)
LEMMA RegisterStoppedHolders ==
  ASSUME TypeOK, TypeOK', HolderInv, NEW w \in Workers, RegisterStopped(w)
  PROVE  HolderInv'
<1>1. PICK gone \in SUBSET Handed :
        /\ pc' = [v \in Workers |->
                    IF v = w THEN "loop"
                    ELSE IF pc[v] = "waiting" \/ v \in gone THEN "done"
                    ELSE pc[v]]
        /\ frame' = [v \in Workers |-> IF v \in gone THEN 0 ELSE frame[v]]
  BY DEF RegisterStopped
<1>2. /\ \A v \in Workers : pc[v] = "waiting" => frame[v] = 0
      /\ frame[w] = 0 /\ w \notin gone
  BY EmptyHand DEF RegisterStopped, Handed
<1>3. \A v \in Workers :
        \/ frame'[v] = 0 /\ pc'[v] = "done"
        \/ frame'[v] = frame[v] /\ pc'[v] = pc[v]
        \/ frame'[v] = frame[v] /\ frame[v] = 0 /\ pc'[v] \in {"loop", "done"}
  BY <1>1, <1>2
<1>4. queue' = queue /\ Submitted' = Submitted
  BY DEF RegisterStopped, Submitted, Pushing, hostVars
<1>5. frame' \in [Workers -> Nat]
  BY DEF TypeOK
<1>6. QED
  BY <1>3, <1>4, <1>5, EmptiedHands

(* What a pop takes from a queue in order.                                 *)
LEMMA PoppedFrame ==
  ASSUME TypeOK, QueueInv, NEW w \in Workers, PopFrame(w)
  PROVE  /\ pc'[w] = "got" /\ frame'[w] = queue[1]
         /\ \A v \in Workers : v # w => pc'[v] = pc[v] /\ frame'[v] = frame[v]
         /\ 1 \in 1 .. Len(queue) /\ queue[1] \in Nat /\ queue[1] > 0
         /\ \A i \in 1 .. Len(queue') :
              /\ i + 1 \in 1 .. Len(queue) /\ queue'[i] = queue[i + 1]
              /\ queue'[i] \in Nat /\ queue[1] < queue'[i]
         /\ Submitted' = Submitted
<1>1. /\ queue # << >> /\ queue \in Seq(Nat) /\ queue' = Tail(queue)
      /\ frame' = [frame EXCEPT ![w] = Head(queue)]
      /\ pc' = [pc EXCEPT ![w] = "got"]
      /\ pc \in [Workers -> WorkerPCs] /\ frame \in [Workers -> Nat]
  BY DEF PopFrame, Goto, TypeOK
<1>2. /\ Len(queue) \in Nat /\ 1 \in 1 .. Len(queue)
      /\ Head(queue) = queue[1] /\ queue[1] \in Nat
      /\ \A i \in 1 .. Len(queue') :
           i + 1 \in 1 .. Len(queue) /\ 1 < i + 1 /\ queue'[i] = queue[i + 1]
  BY <1>1, HeadTail
<1>3. /\ queue[1] > 0
      /\ \A i \in 1 .. Len(queue) :
           queue[i] \in Nat /\ (1 < i => queue[1] < queue[i])
  BY <1>1, <1>2, ElementsTyped DEF QueueInv
<1>4. /\ pc'[w] = "got" /\ frame'[w] = queue[1]
      /\ \A v \in Workers : v # w => pc'[v] = pc[v] /\ frame'[v] = frame[v]
  BY <1>1, <1>2
<1>5. \A i \in 1 .. Len(queue') :
        /\ i + 1 \in 1 .. Len(queue) /\ queue'[i] = queue[i + 1]
        /\ queue'[i] \in Nat /\ queue[1] < queue'[i]
  BY <1>2, <1>3
<1>6. Submitted' = Submitted
  BY DEF PopFrame, Submitted, Pushing, hostVars
<1>7. QED
  BY <1>2, <1>3, <1>4, <1>5, <1>6

(* A popped frame leaves the queue for exactly one worker.                 *)
LEMMA PopFrameHolders ==
  ASSUME TypeOK, QueueInv, HolderInv, NEW w \in Workers, PopFrame(w)
  PROVE  HolderInv'
<1> DEFINE f == queue[1]
<1>1. /\ pc'[w] = "got" /\ frame'[w] = f
      /\ \A v \in Workers : v # w => pc'[v] = pc[v] /\ frame'[v] = frame[v]
      /\ f \in Nat /\ f > 0 /\ f <= Submitted /\ Submitted' = Submitted
  BY PoppedFrame DEF QueueInv
<1>2. \A v \in Workers : frame[v] \in Nat /\ frame[v] < f
  BY PoppedFrame DEF HolderInv, TypeOK
<1>3. \A i \in 1 .. Len(queue') : f < queue'[i] /\ queue'[i] \in Nat
  BY PoppedFrame
<1> HIDE DEF f
<1>4. \A v \in Workers : (frame[v] > 0 <=> (Undecided(v) \/ Publishing(v)))'
  BY <1>1 DEF HolderInv, Undecided, Publishing, BeforeGate
<1>5. \A v \in Workers : frame'[v] <= Submitted'
  BY <1>1 DEF HolderInv
<1>6. \A v \in Workers : \A i \in 1 .. Len(queue') : frame'[v] < queue'[i]
  BY <1>1, <1>2, <1>3
<1>7. \A u, v \in Workers : (u # v /\ frame'[u] > 0) => frame'[u] # frame'[v]
  BY <1>1, <1>2 DEF HolderInv
<1>8. QED
  BY <1>4, <1>5, <1>6, <1>7 DEF HolderInv

(* Everything in the queue is newer than what has been published, so the   *)
(* frame a worker pops is not the published one.                           *)
LEMMA PopFrameShown ==
  ASSUME TypeOK, QueueInv, ShownInv, NEW w \in Workers, PopFrame(w)
  PROVE  ShownInv'
<1>1. published' = published /\ published < queue[1] /\ published \in Nat
  BY PoppedFrame DEF PopFrame, ShownInv, TypeOK
<1>2. \A i \in 1 .. Len(queue') : published' < queue'[i]
  BY <1>1, PoppedFrame
<1>3. \A v \in Workers : (Undecided(v) => frame[v] # published)'
  BY <1>1, PoppedFrame DEF ShownInv, Undecided
<1>4. QED
  BY <1>1, <1>2, <1>3, PoppedFrame DEF ShownInv

(* One step keeps the tickets of the blocked pops.                         *)
LEMMA WaitingStep ==
  ASSUME TypeOK, TypeOK', WaitingInv, [Next]_vars
  PROVE  WaitingInv'
<1> USE ConstantsAssumption, CapacityType DEF TypeOK, WaitingInv,
   Workers, WorkerPCs, BeforeGate, AfterGate, HostIdle, Pushing,
   Stopping, hostVars, outVars, Goto, LetGo
<1>t. \A i \in 1 .. Len(waiting) : waiting[i] \in Workers
  BY ElementsTyped
<1>1. CASE Submit
  BY <1>1 DEF Submit
<1>2. CASE HandOver
  BY <1>2, HandOverWaiting
<1>3. CASE Enqueue
  BY <1>3 DEF Enqueue
<1>4. CASE FindFull
  BY <1>4 DEF FindFull
<1>5. CASE EvictOldest
  BY <1>5 DEF EvictOldest
<1>6. CASE BeginRebuild
  BY <1>6 DEF BeginRebuild, StopNext
<1>7. CASE RequestStop
  BY <1>7 DEF RequestStop
<1>8. CASE AbortQueue
  BY <1>8 DEF AbortQueue, AbortPops, Handed
<1>9. CASE Join
  BY <1>9 DEF Join, StopNext
<1>10. CASE Replace
  BY <1>10 DEF Replace
<1>11. ASSUME NEW w \in Workers, Register(w)
     PROVE  WaitingInv'
  <2>1. /\ pc[w] # "waiting" /\ UNCHANGED <<waiting, queue>>
        /\ \A v \in Workers : v # w => pc'[v] = pc[v]
    BY <1>11 DEF Register
  <2>2. QED
    BY <2>1, <1>t
<1>12. ASSUME NEW w \in Workers, RegisterStopped(w)
     PROVE  WaitingInv'
  BY <1>12 DEF RegisterStopped, Handed
<1>13. ASSUME NEW w \in Workers, CheckStop(w)
     PROVE  WaitingInv'
  <2>1. /\ pc[w] # "waiting" /\ UNCHANGED <<waiting, queue>>
        /\ \A v \in Workers : v # w => pc'[v] = pc[v]
    BY <1>13 DEF CheckStop
  <2>2. QED
    BY <2>1, <1>t
<1>14. ASSUME NEW w \in Workers, PopFrame(w)
     PROVE  WaitingInv'
  BY <1>14 DEF PopFrame
<1>15. ASSUME NEW w \in Workers, PopBlocks(w)
     PROVE  WaitingInv'
  BY <1>15, PopBlocksWaiting
<1>16. ASSUME NEW w \in Workers, WakeUp(w)
     PROVE  WaitingInv'
  <2>1. /\ pc[w] # "waiting" /\ UNCHANGED <<waiting, queue>>
        /\ \A v \in Workers : v # w => pc'[v] = pc[v]
    BY <1>16 DEF WakeUp
  <2>2. QED
    BY <2>1, <1>t
<1>17. ASSUME NEW w \in Workers, StopAfterPop(w)
     PROVE  WaitingInv'
  <2>1. /\ pc[w] # "waiting" /\ UNCHANGED <<waiting, queue>>
        /\ \A v \in Workers : v # w => pc'[v] = pc[v]
    BY <1>17 DEF StopAfterPop
  <2>2. QED
    BY <2>1, <1>t
<1>18. ASSUME NEW w \in Workers, GoOnAfterPop(w)
     PROVE  WaitingInv'
  <2>1. /\ pc[w] # "waiting" /\ UNCHANGED <<waiting, queue>>
        /\ \A v \in Workers : v # w => pc'[v] = pc[v]
    BY <1>18 DEF GoOnAfterPop
  <2>2. QED
    BY <2>1, <1>t
<1>19. ASSUME NEW w \in Workers, SkipSuperseded(w)
     PROVE  WaitingInv'
  <2>1. /\ pc[w] # "waiting" /\ UNCHANGED <<waiting, queue>>
        /\ \A v \in Workers : v # w => pc'[v] = pc[v]
    BY <1>19 DEF SkipSuperseded
  <2>2. QED
    BY <2>1, <1>t
<1>20. ASSUME NEW w \in Workers, TakeOn(w)
     PROVE  WaitingInv'
  <2>1. /\ pc[w] # "waiting" /\ UNCHANGED <<waiting, queue>>
        /\ \A v \in Workers : v # w => pc'[v] = pc[v]
    BY <1>20 DEF TakeOn
  <2>2. QED
    BY <2>1, <1>t
<1>21. ASSUME NEW w \in Workers, Process(w)
     PROVE  WaitingInv'
  <2>1. /\ pc[w] # "waiting" /\ UNCHANGED <<waiting, queue>>
        /\ \A v \in Workers : v # w => pc'[v] = pc[v]
    BY <1>21 DEF Process
  <2>2. QED
    BY <2>1, <1>t
<1>22. ASSUME NEW w \in Workers, OperatorDrops(w)
     PROVE  WaitingInv'
  <2>1. /\ pc[w] # "waiting" /\ UNCHANGED <<waiting, queue>>
        /\ \A v \in Workers : v # w => pc'[v] = pc[v]
    BY <1>22 DEF OperatorDrops
  <2>2. QED
    BY <2>1, <1>t
<1>23. ASSUME NEW w \in Workers, OperatorThrows(w)
     PROVE  WaitingInv'
  <2>1. /\ pc[w] # "waiting" /\ UNCHANGED <<waiting, queue>>
        /\ \A v \in Workers : v # w => pc'[v] = pc[v]
    BY <1>23 DEF OperatorThrows
  <2>2. QED
    BY <2>1, <1>t
<1>24. ASSUME NEW w \in Workers, WinGate(w)
     PROVE  WaitingInv'
  <2>1. /\ pc[w] # "waiting" /\ UNCHANGED <<waiting, queue>>
        /\ \A v \in Workers : v # w => pc'[v] = pc[v]
    BY <1>24 DEF WinGate
  <2>2. QED
    BY <2>1, <1>t
<1>25. ASSUME NEW w \in Workers, LoseGate(w)
     PROVE  WaitingInv'
  <2>1. /\ pc[w] # "waiting" /\ UNCHANGED <<waiting, queue>>
        /\ \A v \in Workers : v # w => pc'[v] = pc[v]
    BY <1>25 DEF LoseGate
  <2>2. QED
    BY <2>1, <1>t
<1>26. ASSUME NEW w \in Workers, StoreLatest(w)
     PROVE  WaitingInv'
  <2>1. /\ pc[w] # "waiting" /\ UNCHANGED <<waiting, queue>>
        /\ \A v \in Workers : v # w => pc'[v] = pc[v]
    BY <1>26 DEF StoreLatest
  <2>2. QED
    BY <2>1, <1>t
<1>27. ASSUME NEW w \in Workers, StoreCamera(w)
     PROVE  WaitingInv'
  <2>1. /\ pc[w] # "waiting" /\ UNCHANGED <<waiting, queue>>
        /\ \A v \in Workers : v # w => pc'[v] = pc[v]
    BY <1>27 DEF StoreCamera
  <2>2. QED
    BY <2>1, <1>t
<1>28. ASSUME NEW w \in Workers, Complete(w)
     PROVE  WaitingInv'
  <2>1. /\ pc[w] # "waiting" /\ UNCHANGED <<waiting, queue>>
        /\ \A v \in Workers : v # w => pc'[v] = pc[v]
    BY <1>28 DEF Complete
  <2>2. QED
    BY <2>1, <1>t
<1>29. CASE UNCHANGED vars
  BY <1>29 DEF vars
<1>30. QED
  BY <1>1, <1>2, <1>3, <1>4, <1>5, <1>6, <1>7, <1>8, <1>9, <1>10, <1>11,
     <1>12, <1>13, <1>14, <1>15, <1>16, <1>17, <1>18, <1>19, <1>20,
     <1>21, <1>22, <1>23, <1>24, <1>25, <1>26, <1>27, <1>28, <1>29 DEF
     Next, Host, Worker

(* Taking the oldest frame off leaves the queue in order.                  *)
LEMMA TailKeepsQueue ==
  ASSUME TypeOK, QueueInv, queue # << >>, queue' = Tail(queue),
         Submitted' = Submitted
  PROVE  QueueInv'
<1>1. /\ Len(queue) \in Nat /\ Len(queue') = Len(queue) - 1 /\ queue' \in Seq(Nat)
      /\ \A i \in 1 .. Len(queue') : i + 1 \in 1 .. Len(queue) /\ queue'[i] = queue[i + 1]
  <2>1. queue \in Seq(Nat) /\ queue # << >> /\ queue' = Tail(queue)
    BY DEF TypeOK
  <2>2. QED
    BY ONLY <2>1, HeadTail
<1>2. Len(queue') \in Nat
  BY ONLY <1>1, ElementsTyped
<1>3. Len(queue') <= Capacity
  BY <1>1, CapacityType DEF QueueInv
<1>4. \A i \in 1 .. Len(queue') : queue'[i] > 0 /\ queue'[i] <= Submitted
  BY <1>1 DEF QueueInv
<1>5. ASSUME NEW i \in 1 .. Len(queue'), NEW j \in 1 .. Len(queue'), i < j
      PROVE  queue'[i] < queue'[j]
  <2>1. /\ i + 1 \in 1 .. Len(queue) /\ j + 1 \in 1 .. Len(queue) /\ i + 1 < j + 1
        /\ queue'[i] = queue[i + 1] /\ queue'[j] = queue[j + 1]
    BY <1>1, <1>2, <1>5
  <2>2. QED
    BY <2>1 DEF QueueInv
<1>6. QED
  BY <1>3, <1>4, <1>5 DEF QueueInv

(* One step keeps the queue in order.                                      *)
LEMMA QueueStep ==
  ASSUME TypeOK, TypeOK', HostInv, WaitingInv, QueueInv, [Next]_vars
  PROVE  QueueInv'
<1> USE ConstantsAssumption, CapacityType DEF TypeOK, HostInv, QueueInv,
   Submitted, Workers, WorkerPCs, BeforeGate, AfterGate, HostIdle,
   Pushing, Stopping, hostVars, outVars, Goto, LetGo
<1>1. CASE Submit
  BY <1>1 DEF Submit
<1>2. CASE HandOver
  BY <1>2, HandOverQueue
<1>3. CASE Enqueue
  BY <1>3 DEF Enqueue
<1>4. CASE FindFull
  BY <1>4 DEF FindFull
<1>5. CASE EvictOldest
  <2>1. Submitted' = Submitted
    BY <1>5 DEF EvictOldest
  <2>2. CASE queue = << >>
    BY <1>5, <2>2 DEF EvictOldest
  <2>3. CASE queue # << >>
    <3>1. queue' = Tail(queue)
      BY <1>5, <2>3 DEF EvictOldest
    <3>2. QED
      BY ONLY <2>1, <2>3, <3>1, TailKeepsQueue, TypeOK, QueueInv, Zenon
  <2>4. QED
    BY <2>2, <2>3
<1>6. CASE BeginRebuild
  BY <1>6 DEF BeginRebuild, StopNext
<1>7. CASE RequestStop
  BY <1>7 DEF RequestStop
<1>8. CASE AbortQueue
  BY <1>8 DEF AbortQueue, AbortPops, Handed
<1>9. CASE Join
  BY <1>9 DEF Join, StopNext
<1>10. CASE Replace
  BY <1>10 DEF Replace
<1>11. ASSUME NEW w \in Workers, Register(w)
     PROVE  QueueInv'
  BY <1>11 DEF Register
<1>12. ASSUME NEW w \in Workers, RegisterStopped(w)
     PROVE  QueueInv'
  BY <1>12 DEF RegisterStopped, Handed
<1>13. ASSUME NEW w \in Workers, CheckStop(w)
     PROVE  QueueInv'
  BY <1>13 DEF CheckStop
<1>14. ASSUME NEW w \in Workers, PopFrame(w)
     PROVE  QueueInv'
  <2>1. /\ queue # << >> /\ queue' = Tail(queue)
        /\ Submitted' = Submitted
    BY <1>14 DEF PopFrame
  <2>2. QED
    BY ONLY <2>1, TailKeepsQueue, TypeOK, QueueInv, Zenon
<1>15. ASSUME NEW w \in Workers, PopBlocks(w)
     PROVE  QueueInv'
  BY <1>15 DEF PopBlocks
<1>16. ASSUME NEW w \in Workers, WakeUp(w)
     PROVE  QueueInv'
  BY <1>16 DEF WakeUp
<1>17. ASSUME NEW w \in Workers, StopAfterPop(w)
     PROVE  QueueInv'
  BY <1>17 DEF StopAfterPop
<1>18. ASSUME NEW w \in Workers, GoOnAfterPop(w)
     PROVE  QueueInv'
  BY <1>18 DEF GoOnAfterPop
<1>19. ASSUME NEW w \in Workers, SkipSuperseded(w)
     PROVE  QueueInv'
  BY <1>19 DEF SkipSuperseded
<1>20. ASSUME NEW w \in Workers, TakeOn(w)
     PROVE  QueueInv'
  BY <1>20 DEF TakeOn
<1>21. ASSUME NEW w \in Workers, Process(w)
     PROVE  QueueInv'
  BY <1>21 DEF Process
<1>22. ASSUME NEW w \in Workers, OperatorDrops(w)
     PROVE  QueueInv'
  BY <1>22 DEF OperatorDrops
<1>23. ASSUME NEW w \in Workers, OperatorThrows(w)
     PROVE  QueueInv'
  BY <1>23 DEF OperatorThrows
<1>24. ASSUME NEW w \in Workers, WinGate(w)
     PROVE  QueueInv'
  BY <1>24 DEF WinGate
<1>25. ASSUME NEW w \in Workers, LoseGate(w)
     PROVE  QueueInv'
  BY <1>25 DEF LoseGate
<1>26. ASSUME NEW w \in Workers, StoreLatest(w)
     PROVE  QueueInv'
  BY <1>26 DEF StoreLatest
<1>27. ASSUME NEW w \in Workers, StoreCamera(w)
     PROVE  QueueInv'
  BY <1>27 DEF StoreCamera
<1>28. ASSUME NEW w \in Workers, Complete(w)
     PROVE  QueueInv'
  BY <1>28 DEF Complete
<1>29. CASE UNCHANGED vars
  BY <1>29 DEF vars
<1>30. QED
  BY <1>1, <1>2, <1>3, <1>4, <1>5, <1>6, <1>7, <1>8, <1>9, <1>10, <1>11,
     <1>12, <1>13, <1>14, <1>15, <1>16, <1>17, <1>18, <1>19, <1>20,
     <1>21, <1>22, <1>23, <1>24, <1>25, <1>26, <1>27, <1>28, <1>29 DEF
     Next, Host, Worker

(* A worker that lets its frame go disturbs nobody's hold.                 *)
LEMMA LetGoKeepsHolders ==
  ASSUME TypeOK, HolderInv,
         NEW w \in Workers, NEW at \in WorkerPCs \ (BeforeGate \union AfterGate),
         LetGo(w, at), UNCHANGED <<hostVars, queue>>
  PROVE  HolderInv'
<1> USE DEF TypeOK, HolderInv, LetGo, Goto, hostVars, Submitted
<1>1. /\ frame'[w] = 0
      /\ pc'[w] = at
      /\ \A v \in Workers : v # w => frame'[v] = frame[v] /\ pc'[v] = pc[v]
  OBVIOUS
<1>2. \A v \in Workers : frame'[v] = frame[v] \/ frame'[v] = 0
  BY <1>1
<1>3. \A v \in Workers : (frame[v] > 0 <=> (Undecided(v) \/ Publishing(v)))'
  BY <1>1 DEF Undecided, Publishing
<1>4. \A v \in Workers : frame'[v] <= Submitted'
  <2> SUFFICES ASSUME NEW v \in Workers
               PROVE  frame'[v] <= Submitted'
    OBVIOUS
  <2>1. frame[v] \in Nat /\ frame[v] <= Submitted /\ Submitted \in Int
    OBVIOUS
  <2>2. Submitted' = Submitted
    OBVIOUS
  <2>3. QED
    BY <1>2, <2>1, <2>2
<1>5. \A v \in Workers : \A i \in 1 .. Len(queue') : frame'[v] < queue'[i]
  <2> SUFFICES ASSUME NEW v \in Workers, NEW i \in 1 .. Len(queue)
               PROVE  frame'[v] < queue[i]
    OBVIOUS
  <2>1. frame[v] \in Nat /\ frame[v] < queue[i] /\ queue[i] \in Nat
    OBVIOUS
  <2>2. QED
    BY <1>2, <2>1
<1>6. \A u, v \in Workers : (u # v /\ frame'[u] > 0) => frame'[u] # frame'[v]
  BY <1>1
<1>7. QED
  BY <1>3, <1>4, <1>5, <1>6

(* A worker that moves on with what it holds disturbs nobody's hold.       *)
LEMMA MoveKeepsHolders ==
  ASSUME TypeOK, HolderInv, NEW w \in Workers, NEW at \in WorkerPCs,
         Goto(w, at),
         at \in BeforeGate \union AfterGate <=> Undecided(w) \/ Publishing(w),
         UNCHANGED <<hostVars, queue, frame>>
  PROVE  HolderInv'
<1>1. /\ pc'[w] = at
      /\ \A v \in Workers : v # w => pc'[v] = pc[v]
  BY DEF TypeOK, Goto
<1>2. \A v \in Workers : (frame[v] > 0 <=> (Undecided(v) \/ Publishing(v)))'
  BY <1>1 DEF HolderInv, Undecided, Publishing
<1>3. Submitted' = Submitted
  BY DEF Submitted, hostVars
<1>4. QED
  BY <1>2, <1>3 DEF HolderInv

(* A frame that is queued is newer than all that is held.                  *)
LEMMA EnqueueHolders ==
  ASSUME TypeOK, HostInv, HolderInv, Enqueue
  PROVE  HolderInv'
<1>1. /\ queue \in Seq(Nat) /\ inputSeq \in Nat /\ frame \in [Workers -> Nat]
      /\ queue' = Append(queue, inputSeq)
      /\ frame' = frame /\ pc' = pc /\ inputSeq' = inputSeq
  BY DEF TypeOK, Enqueue
<1>2. Submitted = inputSeq - 1 /\ Submitted' = inputSeq
  BY <1>1 DEF Enqueue, Submitted, Pushing, HostIdle
<1>3. ASSUME NEW w \in Workers
      PROVE  /\ frame[w] <= inputSeq
             /\ \A i \in 1 .. Len(queue') : frame[w] < queue'[i]
  <2>1. frame[w] \in Nat /\ frame[w] <= inputSeq - 1
    BY <1>1, <1>2 DEF HolderInv
  <2>2. \A i \in 1 .. Len(queue) : frame[w] < queue[i]
    BY DEF HolderInv
  <2>3. \A i \in 1 .. Len(queue') :
          /\ i # Len(queue) + 1 => i \in 1 .. Len(queue)
          /\ queue'[i] = IF i = Len(queue) + 1 THEN inputSeq ELSE queue[i]
    <3>1. \A i \in 1 .. Len(Append(queue, inputSeq)) :
            /\ i # Len(queue) + 1 => i \in 1 .. Len(queue)
            /\ Append(queue, inputSeq)[i] =
                 IF i = Len(queue) + 1 THEN inputSeq ELSE queue[i]
      BY ONLY <1>1, Appended
    <3>2. QED
      BY ONLY <1>1, <3>1, Zenon
  <2>4. frame[w] < inputSeq /\ frame[w] <= inputSeq
    BY <1>1, <2>1
  <2>5. QED
    BY ONLY <2>2, <2>3, <2>4, Zenon
<1>4. QED
  BY <1>1, <1>2, <1>3 DEF HolderInv, Undecided, Publishing

(* One step keeps the workers' frames apart and older than the queue.      *)
LEMMA HolderStep ==
  ASSUME TypeOK, TypeOK', HostInv, WaitingInv, QueueInv, HolderInv, [Next]_vars
  PROVE  HolderInv'
<1> USE ConstantsAssumption, CapacityType DEF TypeOK, HostInv,
   WaitingInv, QueueInv, HolderInv, Submitted, Undecided, Publishing,
   Workers, WorkerPCs, BeforeGate, AfterGate, HostIdle, Pushing,
   Stopping, hostVars, outVars, Goto, LetGo
<1>1. CASE Submit
  BY <1>1 DEF Submit
<1>2. CASE HandOver
  BY <1>2, HandOverHolders
<1>3. CASE Enqueue
  BY <1>3, EnqueueHolders
<1>4. CASE FindFull
  BY <1>4 DEF FindFull
<1>5. CASE EvictOldest
  BY <1>5, EvictOldestHolders
<1>6. CASE BeginRebuild
  BY <1>6 DEF BeginRebuild, StopNext
<1>7. CASE RequestStop
  BY <1>7 DEF RequestStop
<1>8. CASE AbortQueue
  BY <1>8, AbortHolders DEF AbortQueue
<1>9. CASE Join
  BY <1>9 DEF Join, StopNext
<1>10. CASE Replace
  BY <1>10 DEF Replace
<1>11. ASSUME NEW w \in Workers, Register(w)
     PROVE  HolderInv'
  <2>1. PICK at \in WorkerPCs : at = "loop"
    OBVIOUS
  <2>2. /\ Goto(w, at) /\ UNCHANGED <<hostVars, queue, frame>>
        /\ at \in BeforeGate \union AfterGate <=> Undecided(w) \/ Publishing(w)
    BY <1>11, <2>1 DEF Register
  <2>3. QED
    BY ONLY <2>2, MoveKeepsHolders, TypeOK, HolderInv, Zenon
<1>12. ASSUME NEW w \in Workers, RegisterStopped(w)
     PROVE  HolderInv'
  BY <1>12, RegisterStoppedHolders
<1>13. ASSUME NEW w \in Workers, CheckStop(w)
     PROVE  HolderInv'
  <2>1. PICK at \in WorkerPCs : at = IF stopReq[w] THEN "done" ELSE "pop"
    OBVIOUS
  <2>2. /\ Goto(w, at) /\ UNCHANGED <<hostVars, queue, frame>>
        /\ at \in BeforeGate \union AfterGate <=> Undecided(w) \/ Publishing(w)
    BY <1>13, <2>1 DEF CheckStop
  <2>3. QED
    BY ONLY <2>2, MoveKeepsHolders, TypeOK, HolderInv, Zenon
<1>14. ASSUME NEW w \in Workers, PopFrame(w)
     PROVE  HolderInv'
  BY <1>14, PopFrameHolders
<1>15. ASSUME NEW w \in Workers, PopBlocks(w)
     PROVE  HolderInv'
  <2>1. PICK at \in WorkerPCs : at = "waiting"
    OBVIOUS
  <2>2. /\ Goto(w, at) /\ UNCHANGED <<hostVars, queue, frame>>
        /\ at \in BeforeGate \union AfterGate <=> Undecided(w) \/ Publishing(w)
    BY <1>15, <2>1 DEF PopBlocks
  <2>3. QED
    BY ONLY <2>2, MoveKeepsHolders, TypeOK, HolderInv, Zenon
<1>16. ASSUME NEW w \in Workers, WakeUp(w)
     PROVE  HolderInv'
  <2>1. PICK at \in WorkerPCs : at = "got"
    OBVIOUS
  <2>2. /\ Goto(w, at) /\ UNCHANGED <<hostVars, queue, frame>>
        /\ at \in BeforeGate \union AfterGate <=> Undecided(w) \/ Publishing(w)
    BY <1>16, <2>1 DEF WakeUp
  <2>3. QED
    BY ONLY <2>2, MoveKeepsHolders, TypeOK, HolderInv, Zenon
<1>17. ASSUME NEW w \in Workers, StopAfterPop(w)
     PROVE  HolderInv'
  <2>1. LetGo(w, "done") /\ UNCHANGED <<hostVars, queue>>
    BY <1>17 DEF StopAfterPop
  <2>2. QED
    BY <2>1, LetGoKeepsHolders DEF WorkerPCs, BeforeGate, AfterGate
<1>18. ASSUME NEW w \in Workers, GoOnAfterPop(w)
     PROVE  HolderInv'
  <2>1. PICK at \in WorkerPCs : at = "superseded"
    OBVIOUS
  <2>2. /\ Goto(w, at) /\ UNCHANGED <<hostVars, queue, frame>>
        /\ at \in BeforeGate \union AfterGate <=> Undecided(w) \/ Publishing(w)
    BY <1>18, <2>1 DEF GoOnAfterPop
  <2>3. QED
    BY ONLY <2>2, MoveKeepsHolders, TypeOK, HolderInv, Zenon
<1>19. ASSUME NEW w \in Workers, SkipSuperseded(w)
     PROVE  HolderInv'
  <2>1. LetGo(w, "loop") /\ UNCHANGED <<hostVars, queue>>
    BY <1>19 DEF SkipSuperseded
  <2>2. QED
    BY <2>1, LetGoKeepsHolders DEF WorkerPCs, BeforeGate, AfterGate
<1>20. ASSUME NEW w \in Workers, TakeOn(w)
     PROVE  HolderInv'
  <2>1. PICK at \in WorkerPCs : at = "process"
    OBVIOUS
  <2>2. /\ Goto(w, at) /\ UNCHANGED <<hostVars, queue, frame>>
        /\ at \in BeforeGate \union AfterGate <=> Undecided(w) \/ Publishing(w)
    BY <1>20, <2>1 DEF TakeOn
  <2>3. QED
    BY ONLY <2>2, MoveKeepsHolders, TypeOK, HolderInv, Zenon
<1>21. ASSUME NEW w \in Workers, Process(w)
     PROVE  HolderInv'
  <2>1. PICK at \in WorkerPCs : at = "gate"
    OBVIOUS
  <2>2. /\ Goto(w, at) /\ UNCHANGED <<hostVars, queue, frame>>
        /\ at \in BeforeGate \union AfterGate <=> Undecided(w) \/ Publishing(w)
    BY <1>21, <2>1 DEF Process
  <2>3. QED
    BY ONLY <2>2, MoveKeepsHolders, TypeOK, HolderInv, Zenon
<1>22. ASSUME NEW w \in Workers, OperatorDrops(w)
     PROVE  HolderInv'
  <2>1. LetGo(w, "loop") /\ UNCHANGED <<hostVars, queue>>
    BY <1>22 DEF OperatorDrops
  <2>2. QED
    BY <2>1, LetGoKeepsHolders DEF WorkerPCs, BeforeGate, AfterGate
<1>23. ASSUME NEW w \in Workers, OperatorThrows(w)
     PROVE  HolderInv'
  <2>1. LetGo(w, "done") /\ UNCHANGED <<hostVars, queue>>
    BY <1>23 DEF OperatorThrows
  <2>2. QED
    BY <2>1, LetGoKeepsHolders DEF WorkerPCs, BeforeGate, AfterGate
<1>24. ASSUME NEW w \in Workers, WinGate(w)
     PROVE  HolderInv'
  <2>1. PICK at \in WorkerPCs : at = "storeLatest"
    OBVIOUS
  <2>2. /\ Goto(w, at) /\ UNCHANGED <<hostVars, queue, frame>>
        /\ at \in BeforeGate \union AfterGate <=> Undecided(w) \/ Publishing(w)
    BY <1>24, <2>1 DEF WinGate
  <2>3. QED
    BY ONLY <2>2, MoveKeepsHolders, TypeOK, HolderInv, Zenon
<1>25. ASSUME NEW w \in Workers, LoseGate(w)
     PROVE  HolderInv'
  <2>1. LetGo(w, "loop") /\ UNCHANGED <<hostVars, queue>>
    BY <1>25 DEF LoseGate
  <2>2. QED
    BY <2>1, LetGoKeepsHolders DEF WorkerPCs, BeforeGate, AfterGate
<1>26. ASSUME NEW w \in Workers, StoreLatest(w)
     PROVE  HolderInv'
  <2>1. PICK at \in WorkerPCs : at = "storeCamera"
    OBVIOUS
  <2>2. /\ Goto(w, at) /\ UNCHANGED <<hostVars, queue, frame>>
        /\ at \in BeforeGate \union AfterGate <=> Undecided(w) \/ Publishing(w)
    BY <1>26, <2>1 DEF StoreLatest
  <2>3. QED
    BY ONLY <2>2, MoveKeepsHolders, TypeOK, HolderInv, Zenon
<1>27. ASSUME NEW w \in Workers, StoreCamera(w)
     PROVE  HolderInv'
  <2>1. PICK at \in WorkerPCs : at = "complete"
    OBVIOUS
  <2>2. /\ Goto(w, at) /\ UNCHANGED <<hostVars, queue, frame>>
        /\ at \in BeforeGate \union AfterGate <=> Undecided(w) \/ Publishing(w)
    BY <1>27, <2>1 DEF StoreCamera
  <2>3. QED
    BY ONLY <2>2, MoveKeepsHolders, TypeOK, HolderInv, Zenon
<1>28. ASSUME NEW w \in Workers, Complete(w)
     PROVE  HolderInv'
  <2>1. LetGo(w, "loop") /\ UNCHANGED <<hostVars, queue>>
    BY <1>28 DEF Complete
  <2>2. QED
    BY <2>1, LetGoKeepsHolders DEF WorkerPCs, BeforeGate, AfterGate
<1>29. CASE UNCHANGED vars
  BY <1>29 DEF vars
<1>30. QED
  BY <1>1, <1>2, <1>3, <1>4, <1>5, <1>6, <1>7, <1>8, <1>9, <1>10, <1>11,
     <1>12, <1>13, <1>14, <1>15, <1>16, <1>17, <1>18, <1>19, <1>20,
     <1>21, <1>22, <1>23, <1>24, <1>25, <1>26, <1>27, <1>28, <1>29 DEF
     Next, Host, Worker

(* One step keeps shown frames from being shown again.                    *)
LEMMA ShownStep ==
  ASSUME TypeOK, TypeOK', HostInv, WaitingInv, QueueInv, HolderInv, ShownInv, [Next]_vars
  PROVE  ShownInv'
<1> USE ConstantsAssumption, CapacityType DEF TypeOK, HostInv,
   WaitingInv, QueueInv, HolderInv, ShownInv, Submitted, Undecided,
   Publishing, Workers, WorkerPCs, BeforeGate, AfterGate, HostIdle,
   Pushing, Stopping, hostVars, outVars, Goto, LetGo
<1>1. CASE Submit
  BY <1>1 DEF Submit
<1>2. CASE HandOver
  BY <1>2 DEF HandOver
<1>3. CASE Enqueue
  BY <1>3 DEF Enqueue
<1>4. CASE FindFull
  BY <1>4 DEF FindFull
<1>5. CASE EvictOldest
  BY <1>5 DEF EvictOldest
<1>6. CASE BeginRebuild
  BY <1>6 DEF BeginRebuild, StopNext
<1>7. CASE RequestStop
  BY <1>7 DEF RequestStop
<1>8. CASE AbortQueue
  BY <1>8 DEF AbortQueue, AbortPops, Handed
<1>9. CASE Join
  BY <1>9 DEF Join, StopNext
<1>10. CASE Replace
  BY <1>10 DEF Replace
<1>11. ASSUME NEW w \in Workers, Register(w)
     PROVE  ShownInv'
  BY <1>11 DEF Register
<1>12. ASSUME NEW w \in Workers, RegisterStopped(w)
     PROVE  ShownInv'
  BY <1>12 DEF RegisterStopped, Handed
<1>13. ASSUME NEW w \in Workers, CheckStop(w)
     PROVE  ShownInv'
  BY <1>13 DEF CheckStop
<1>14. ASSUME NEW w \in Workers, PopFrame(w)
     PROVE  ShownInv'
  BY <1>14, PopFrameShown
<1>15. ASSUME NEW w \in Workers, PopBlocks(w)
     PROVE  ShownInv'
  BY <1>15 DEF PopBlocks
<1>16. ASSUME NEW w \in Workers, WakeUp(w)
     PROVE  ShownInv'
  BY <1>16 DEF WakeUp
<1>17. ASSUME NEW w \in Workers, StopAfterPop(w)
     PROVE  ShownInv'
  BY <1>17 DEF StopAfterPop
<1>18. ASSUME NEW w \in Workers, GoOnAfterPop(w)
     PROVE  ShownInv'
  BY <1>18 DEF GoOnAfterPop
<1>19. ASSUME NEW w \in Workers, SkipSuperseded(w)
     PROVE  ShownInv'
  BY <1>19 DEF SkipSuperseded
<1>20. ASSUME NEW w \in Workers, TakeOn(w)
     PROVE  ShownInv'
  BY <1>20 DEF TakeOn
<1>21. ASSUME NEW w \in Workers, Process(w)
     PROVE  ShownInv'
  BY <1>21 DEF Process
<1>22. ASSUME NEW w \in Workers, OperatorDrops(w)
     PROVE  ShownInv'
  BY <1>22 DEF OperatorDrops
<1>23. ASSUME NEW w \in Workers, OperatorThrows(w)
     PROVE  ShownInv'
  BY <1>23 DEF OperatorThrows
<1>24. ASSUME NEW w \in Workers, WinGate(w)
     PROVE  ShownInv'
  BY <1>24 DEF WinGate
<1>25. ASSUME NEW w \in Workers, LoseGate(w)
     PROVE  ShownInv'
  BY <1>25 DEF LoseGate
<1>26. ASSUME NEW w \in Workers, StoreLatest(w)
     PROVE  ShownInv'
  BY <1>26 DEF StoreLatest
<1>27. ASSUME NEW w \in Workers, StoreCamera(w)
     PROVE  ShownInv'
  BY <1>27 DEF StoreCamera
<1>28. ASSUME NEW w \in Workers, Complete(w)
     PROVE  ShownInv'
  BY <1>28 DEF Complete
<1>29. CASE UNCHANGED vars
  BY <1>29 DEF vars
<1>30. QED
  BY <1>1, <1>2, <1>3, <1>4, <1>5, <1>6, <1>7, <1>8, <1>9, <1>10, <1>11,
     <1>12, <1>13, <1>14, <1>15, <1>16, <1>17, <1>18, <1>19, <1>20,
     <1>21, <1>22, <1>23, <1>24, <1>25, <1>26, <1>27, <1>28, <1>29 DEF
     Next, Host, Worker

-----------------------------------------------------------------------------
(* The inductive invariant, and what follows from it.                      *)

(* A pipeline that has just been started satisfies the invariant.          *)
LEMMA InitIInv == Init => IInv
<1> SUFFICES ASSUME Init
             PROVE  IInv
  OBVIOUS
<1> USE ConstantsAssumption, CapacityType DEF Init, Workers
<1>1. TypeOK
  BY DEF TypeOK, WorkerPCs, HostIdle
<1>2. HostInv
  BY DEF HostInv, HostIdle, Pushing, Stopping
<1>3. WaitingInv /\ QueueInv
  BY DEF WaitingInv, QueueInv
<1>4. HolderInv /\ ShownInv
  BY DEF HolderInv, ShownInv, Undecided, Publishing, BeforeGate, AfterGate,
         Submitted, HostIdle, Pushing
<1>5. QED
  BY <1>1, <1>2, <1>3, <1>4 DEF IInv

(* Every step, and every stutter, preserves the invariant.                 *)
LEMMA StepIInv == IInv /\ [Next]_vars => IInv'
<1> SUFFICES ASSUME IInv, [Next]_vars
             PROVE  IInv'
  OBVIOUS
<1> USE DEF IInv
<1>1. TypeOK'
  BY TypeStep
<1>2. HostInv'
  BY <1>1, HostStep
<1>3. WaitingInv'
  BY <1>1, WaitingStep
<1>4. QueueInv'
  BY <1>1, QueueStep
<1>5. HolderInv'
  BY <1>1, HolderStep
<1>6. ShownInv'
  BY <1>1, ShownStep
<1>7. QED
  BY <1>1, <1>2, <1>3, <1>4, <1>5, <1>6

(* The invariant holds of every reachable state.                           *)
THEOREM Inductive == Spec => []IInv
  BY InitIInv, StepIInv, PTL DEF Spec

(* Every variable keeps its type.                                          *)
THEOREM TypeCorrect == Spec => []TypeOK
<1>1. IInv => TypeOK
  BY DEF IInv
<1>2. QED
  BY <1>1, Inductive, PTL

(* No two workers process the same frame, and none is shown twice.         *)
THEOREM FramesHaveOneHolder == Spec => []OneHolderPerFrame
<1>1. IInv => OneHolderPerFrame
  <2> SUFFICES ASSUME IInv
               PROVE  OneHolderPerFrame
    OBVIOUS
  <2>1. \A v \in Workers : frame[v] \in Nat
    BY DEF IInv, TypeOK
  <2>2. \A i \in 1 .. Len(queue) : queue[i] \in Nat
    BY ElementsTyped DEF IInv, TypeOK
  <2>3. \A v, w \in Workers : (v # w /\ frame[v] # 0) => frame[v] # frame[w]
    BY <2>1 DEF IInv, HolderInv
  <2>4. \A w \in Workers : frame[w] \notin Queued
    BY <2>1, <2>2 DEF IInv, HolderInv, Queued
  <2>5. QED
    BY <2>3, <2>4 DEF OneHolderPerFrame, IInv, ShownInv
<1>2. QED
  BY <1>1, Inductive, PTL

(* The queue never exceeds its capacity and never holds back a frame from  *)
(* a blocked worker.                                                       *)
THEOREM QueueIsBounded == Spec => []QueueBounded
<1>1. IInv => QueueBounded
  BY DEF IInv, QueueInv, WaitingInv, QueueBounded
<1>2. QED
  BY <1>1, Inductive, PTL

(* When a pipeline is destroyed, all of its threads have ended.            *)
THEOREM StopJoinsEveryWorker == Spec => []NoWorkerOutlivesPipeline
<1>1. IInv => NoWorkerOutlivesPipeline
  <2> SUFFICES ASSUME IInv, hostpc = "replace", NEW w \in Workers
               PROVE  pc[w] = "done"
    BY DEF NoWorkerOutlivesPipeline
  <2>1. target > NumWorkers /\ target \in Nat /\ w \in 1 .. NumWorkers
    BY ConstantsAssumption DEF IInv, HostInv, TypeOK, Workers
  <2>2. w < target
    BY <2>1, ConstantsAssumption
  <2>3. QED
    BY <2>2 DEF IInv, HostInv, Stopping
<1>2. QED
  BY <1>1, Inductive, PTL

-----------------------------------------------------------------------------
(* The pipeline implements FrameMailbox.                                   *)

(* Where a pending frame can be: queued, in a worker's hands before the    *)
(* gate, or in the host's hand.                                            *)
Pending(f) ==
  \/ \E i \in 1 .. Len(queue) : queue[i] = f
  \/ \E w \in Workers : Undecided(w) /\ frame[w] = f
  \/ hostpc \in Pushing /\ f = inputSeq

(* Membership of the set of pending frames, now and in the next state, as  *)
(* the predicate that defines it.                                          *)
LEMMA PendingMeans ==
  ASSUME NEW f
  PROVE  /\ f \in PendingFrames <=> Pending(f)
         /\ f \in PendingFrames' <=> Pending(f)'
  BY DEF PendingFrames, Pending, Queued

(* The hands of the workers before the gate are as they were.              *)
SameHands ==
  \A v \in Workers : /\ Undecided(v)' <=> Undecided(v)
                     /\ Undecided(v) => frame'[v] = frame[v]

(* A step that changes neither the queue nor what the workers hold before  *)
(* the gate leaves the mailbox's pending frames alone.                     *)
LEMMA SamePending ==
  ASSUME SameHands, queue' = queue, inputSeq' = inputSeq,
         hostpc' \in Pushing <=> hostpc \in Pushing
  PROVE  PendingFrames' = PendingFrames
<1>1. ASSUME NEW f
      PROVE  Pending(f)' <=> Pending(f)
  BY DEF Pending, SameHands
<1>2. QED
  BY <1>1, PendingMeans

(* A worker that decides its frame takes it, and only it, out of the       *)
(* pending ones.                                                           *)
LEMMA DecidedFrame ==
  ASSUME IInv, NEW w \in Workers, Undecided(w), ~Undecided(w)',
         \A v \in Workers : v # w => pc'[v] = pc[v] /\ frame'[v] = frame[v],
         queue' = queue, inputSeq' = inputSeq, hostpc' = hostpc
  PROVE  /\ frame[w] \in PendingFrames
         /\ PendingFrames' = PendingFrames \ {frame[w]}
<1>1. Pending(frame[w])
  BY DEF Pending
<1>2. /\ frame[w] \in Nat /\ frame[w] > 0 /\ frame[w] <= Submitted
      /\ \A i \in 1 .. Len(queue) : queue[i] # frame[w]
      /\ \A v \in Workers : v # w => frame[v] # frame[w]
  <2>1. frame[w] \in Nat /\ frame[w] > 0 /\ frame[w] <= Submitted
    BY DEF IInv, TypeOK, HolderInv
  <2>2. \A i \in 1 .. Len(queue) : frame[w] < queue[i]
    BY DEF IInv, HolderInv
  <2>3. \A v \in Workers : v # w => frame[v] # frame[w]
    BY <2>1 DEF IInv, HolderInv
  <2>4. QED
    BY <2>1, <2>2, <2>3
<1>3. hostpc \in Pushing => frame[w] # inputSeq
  BY <1>2, ConstantsAssumption DEF Submitted, IInv, TypeOK
<1>4. \A v \in Workers : v # w => (Undecided(v)' <=> Undecided(v))
  BY DEF Undecided
<1>5. ASSUME NEW f
      PROVE  Pending(f)' <=> (Pending(f) /\ f # frame[w])
  BY <1>2, <1>3, <1>4 DEF Pending
<1>6. QED
  BY <1>1, <1>5, PendingMeans

(* Every pending frame was offered.                                        *)
LEMMA PendingOffered ==
  ASSUME IInv, NEW f \in PendingFrames
  PROVE  f \in Nat /\ f > 0 /\ f <= inputSeq
<1>1. inputSeq \in Nat /\ Submitted <= inputSeq
  BY ConstantsAssumption DEF IInv, TypeOK, Submitted
<1>2. Pending(f)
  BY PendingMeans
<1>3. CASE \E i \in 1 .. Len(queue) : queue[i] = f
  BY <1>1, <1>3, ElementsTyped DEF IInv, TypeOK, QueueInv, Submitted
<1>4. CASE \E w \in Workers : Undecided(w) /\ frame[w] = f
  BY <1>1, <1>4 DEF IInv, TypeOK, HolderInv, Submitted
<1>5. CASE hostpc \in Pushing /\ f = inputSeq
  BY <1>1, <1>5 DEF IInv, HostInv
<1>6. QED
  BY <1>2, <1>3, <1>4, <1>5 DEF Pending

(* A frame that a newer shown one supersedes may be dropped.               *)
LEMMA DropSuperseded ==
  ASSUME IInv, NEW w \in Workers, Undecided(w), ~Undecided(w)',
         frame[w] <= published,
         \A v \in Workers : v # w => pc'[v] = pc[v] /\ frame'[v] = frame[v],
         UNCHANGED <<queue, inputSeq, hostpc, published, rejected>>
  PROVE  Mailbox!Next
<1>1. frame[w] \in PendingFrames /\ PendingFrames' = PendingFrames \ {frame[w]}
  BY DecidedFrame
<1>2. frame[w] # published /\ published <= Submitted
  BY DEF IInv, ShownInv
<1>3. /\ frame[w] \in Nat /\ published \in Nat /\ inputSeq \in Nat
      /\ Submitted <= inputSeq /\ Submitted \in Int
  BY ConstantsAssumption DEF IInv, TypeOK, Submitted
<1>4. frame[w] < inputSeq
  BY <1>2, <1>3
<1>5. Mailbox!Drop(frame[w])
  BY <1>1, <1>4 DEF Mailbox!Drop
<1>6. QED
  BY <1>1, <1>5 DEF Mailbox!Next

(* A frame an operator refuses.                                            *)
LEMMA RejectFrame ==
  ASSUME IInv, NEW w \in Workers, Undecided(w), ~Undecided(w)',
         \A v \in Workers : v # w => pc'[v] = pc[v] /\ frame'[v] = frame[v],
         UNCHANGED <<queue, inputSeq, hostpc, published>>,
         rejected' = rejected \union {frame[w]}
  PROVE  Mailbox!Next
<1>1. frame[w] \in PendingFrames /\ PendingFrames' = PendingFrames \ {frame[w]}
  BY DecidedFrame
<1>2. Mailbox!Reject(frame[w])
  BY <1>1 DEF Mailbox!Reject
<1>3. QED
  BY <1>1, <1>2 DEF Mailbox!Next

(* Whatever a stopping pipeline loses, a closed mailbox may lose.          *)
LEMMA DiscardStopped ==
  ASSUME hostpc \in Stopping, PendingFrames' \subseteq PendingFrames,
         UNCHANGED <<inputSeq, hostpc, published, rejected>>
  PROVE  Mailbox!Next
<1> DEFINE lost == PendingFrames \ PendingFrames'
<1>1. PendingFrames' = PendingFrames \ lost /\ lost \in SUBSET PendingFrames
  OBVIOUS
<1> HIDE DEF lost
<1>2. Mailbox!Discard(lost)
  BY <1>1 DEF Mailbox!Discard
<1>3. QED
  BY <1>1, <1>2 DEF Mailbox!Next

(* What a worker does to its own entries.                                  *)
LEMMA OwnEntries ==
  ASSUME TypeOK, NEW w \in Workers, NEW at
  PROVE  /\ Goto(w, at) => /\ pc'[w] = at
                           /\ \A v \in Workers : v # w => pc'[v] = pc[v]
         /\ LetGo(w, at) => /\ pc'[w] = at /\ frame'[w] = 0
                            /\ \A v \in Workers : v # w =>
                                 pc'[v] = pc[v] /\ frame'[v] = frame[v]
  BY DEF TypeOK, Goto, LetGo

(* The host's steps.                                                       *)
LEMMA HostRefines ==
  ASSUME IInv, Submit \/ BeginRebuild \/ Host
  PROVE  [Mailbox!Next]_(Mailbox!vars)
<1> USE DEF HostIdle, Pushing, Stopping
<1>0. /\ TypeOK /\ queue \in Seq(Nat) /\ inputSeq \in Nat
      /\ pc \in [Workers -> WorkerPCs] /\ frame \in [Workers -> Nat]
  BY ConstantsAssumption DEF IInv, TypeOK
<1>1. CASE Submit
  <2>1. ASSUME NEW f
        PROVE  Pending(f)' <=> (Pending(f) \/ f = inputSeq + 1)
    BY <1>1 DEF Submit, Pending, Undecided
  <2>2. PendingFrames' = PendingFrames \union {inputSeq + 1}
    BY <2>1, PendingMeans
  <2>3. Mailbox!Offer
    BY <1>1, <2>2 DEF Submit, Mailbox!Offer
  <2>4. QED
    BY <2>3 DEF Mailbox!Next
<1>2. CASE HandOver
  <2>1. PICK h \in Workers : h = Head(waiting) /\ pc[h] = "waiting"
    <3>1. waiting # << >> /\ waiting \in Seq(Workers)
      BY <1>2 DEF HandOver, IInv, TypeOK
    <3>2. Head(waiting) = waiting[1] /\ waiting[1] \in Workers
          /\ 1 \in 1 .. Len(waiting)
      BY <3>1, HeadTail
    <3>3. QED
      BY <3>2 DEF IInv, WaitingInv
  <2>2. /\ pc'[h] = "handed" /\ frame'[h] = inputSeq
        /\ \A v \in Workers : v # h => pc'[v] = pc[v] /\ frame'[v] = frame[v]
    BY <1>0, <1>2, <2>1 DEF HandOver
  <2>3. /\ Undecided(h)' /\ ~Undecided(h)
        /\ \A v \in Workers : v # h => (Undecided(v)' <=> Undecided(v))
    BY <2>1, <2>2 DEF Undecided, BeforeGate
  <2>4. queue' = queue /\ inputSeq' = inputSeq /\ hostpc = "pushing"
        /\ hostpc' = "idle"
    BY <1>2 DEF HandOver
  <2>5. ASSUME NEW f, Pending(f)'
        PROVE  Pending(f)
    BY <2>1, <2>2, <2>3, <2>4, <2>5 DEF Pending
  <2>6. ASSUME NEW f, Pending(f)
        PROVE  Pending(f)'
    BY <2>1, <2>2, <2>3, <2>4, <2>6 DEF Pending
  <2>7. PendingFrames' = PendingFrames
    BY <2>5, <2>6, PendingMeans
  <2>8. QED
    BY <1>2, <2>7 DEF HandOver, Mailbox!vars
<1>3. CASE Enqueue
  <2>1. \A i \in 1 .. Len(queue') :
          /\ i # Len(queue) + 1 => i \in 1 .. Len(queue)
          /\ queue'[i] = IF i = Len(queue) + 1 THEN inputSeq ELSE queue[i]
    BY <1>0, <1>3, Appended DEF Enqueue
  <2>2. /\ Len(queue) \in Nat /\ Len(queue') = Len(queue) + 1
        /\ queue'[Len(queue) + 1] = inputSeq
    BY <1>0, <1>3, <2>1, Appended DEF Enqueue
  <2>3. ASSUME NEW f
        PROVE  (\E i \in 1 .. Len(queue') : queue'[i] = f)
                 <=> ((\E i \in 1 .. Len(queue) : queue[i] = f) \/ f = inputSeq)
    BY <2>1, <2>2
  <2>4. ASSUME NEW f
        PROVE  Pending(f)' <=> Pending(f)
    BY <1>3, <2>3 DEF Enqueue, Pending, Undecided
  <2>5. PendingFrames' = PendingFrames
    BY <2>4, PendingMeans
  <2>6. QED
    BY <1>3, <2>5 DEF Enqueue, Mailbox!vars
<1>4. CASE FindFull
  <2>1. PendingFrames' = PendingFrames
    BY <1>4, SamePending DEF FindFull, SameHands, Undecided
  <2>2. QED
    BY <1>4, <2>1 DEF FindFull, Mailbox!vars
<1>5. CASE EvictOldest /\ queue = << >>
  <2>1. PendingFrames' = PendingFrames
    BY <1>5, SamePending DEF EvictOldest, SameHands, Undecided
  <2>2. QED
    BY <1>5, <2>1 DEF EvictOldest, Mailbox!vars
<1>6. CASE EvictOldest /\ queue # << >>
  <2> DEFINE f == queue[1]
  <2>1. /\ 1 \in 1 .. Len(queue) /\ f \in Nat
        /\ Len(queue) \in Nat /\ Len(queue') = Len(queue) - 1
        /\ \A i \in 1 .. Len(queue') :
             i + 1 \in 1 .. Len(queue) /\ queue'[i] = queue[i + 1]
    BY <1>0, <1>6, HeadTail DEF EvictOldest
  <2>2. f < inputSeq /\ f # inputSeq
    BY <1>0, <1>6, <2>1 DEF EvictOldest, IInv, QueueInv, Submitted
  <2>3. \A i \in 1 .. Len(queue) : queue[i] \in Nat /\ (i # 1 => f < queue[i])
    BY <1>0, <2>1, ElementsTyped DEF IInv, QueueInv
  <2>4. \A v \in Workers : frame[v] # f
    BY <1>0, <2>1 DEF IInv, HolderInv
  <2>5. ASSUME NEW g
        PROVE  (\E i \in 1 .. Len(queue') : queue'[i] = g)
                 <=> ((\E i \in 1 .. Len(queue) : queue[i] = g) /\ g # f)
    <3>1. ASSUME NEW i \in 1 .. Len(queue), queue[i] = g, g # f
          PROVE  \E j \in 1 .. Len(queue') : queue'[j] = g
      <4>1. i - 1 \in 1 .. Len(queue') /\ i = (i - 1) + 1
        BY <2>1, <3>1
      <4>2. QED
        BY <2>1, <3>1, <4>1
    <3>2. ASSUME NEW i \in 1 .. Len(queue'), queue'[i] = g
          PROVE  (\E j \in 1 .. Len(queue) : queue[j] = g) /\ g # f
      <4>1. i + 1 \in 1 .. Len(queue) /\ i + 1 # 1 /\ queue[i + 1] = g
        BY <2>1, <3>2
      <4>2. QED
        BY <2>1, <2>3, <4>1
    <3>3. QED
      BY <3>1, <3>2
  <2>6. Pending(f)
    BY <2>1 DEF Pending
  <2> HIDE DEF f
  <2>7. ASSUME NEW g
        PROVE  Pending(g)' <=> (Pending(g) /\ g # f)
    BY <1>6, <2>2, <2>4, <2>5 DEF EvictOldest, Pending, Undecided
  <2>8. f \in PendingFrames /\ PendingFrames' = PendingFrames \ {f}
    BY <2>6, <2>7, PendingMeans
  <2>9. Mailbox!Drop(f)
    BY <1>6, <2>2, <2>8 DEF EvictOldest, Mailbox!Drop
  <2>10. QED
    BY <2>8, <2>9 DEF Mailbox!Next
<1>7. CASE BeginRebuild
  <2>1. hostpc' \in Stopping
    BY <1>7 DEF BeginRebuild, StopNext
  <2>2. PendingFrames' = PendingFrames
    BY <1>7, <2>1, SamePending DEF BeginRebuild, SameHands, Undecided
  <2>3. Mailbox!Close
    BY <1>7, <2>1, <2>2 DEF BeginRebuild, Mailbox!Close
  <2>4. QED
    BY <2>3 DEF Mailbox!Next
<1>8. CASE RequestStop
  <2>1. PendingFrames' = PendingFrames
    BY <1>8, SamePending DEF RequestStop, SameHands, Undecided
  <2>2. QED
    BY <1>8, <2>1 DEF RequestStop, Mailbox!vars
<1>9. CASE AbortQueue
  <2>1. PICK gone \in SUBSET Handed : AbortPops(gone)
    BY <1>9 DEF AbortQueue
  <2>2. \A v \in Workers : Undecided(v)' => Undecided(v) /\ frame'[v] = frame[v]
    BY <1>0, <2>1 DEF AbortPops, Undecided, BeforeGate
  <2>3. ASSUME NEW f
        PROVE  Pending(f)' => Pending(f)
    BY <1>9, <2>2 DEF AbortQueue, Pending
  <2>4. PendingFrames' \subseteq PendingFrames
    BY <2>3, PendingMeans
  <2>5. /\ hostpc \in Stopping /\ hostpc' \in Stopping
        /\ UNCHANGED <<inputSeq, published, rejected>>
    BY <1>9 DEF AbortQueue
  <2> DEFINE lost == PendingFrames \ PendingFrames'
  <2>6. PendingFrames' = PendingFrames \ lost /\ lost \in SUBSET PendingFrames
    BY <2>4
  <2> HIDE DEF lost
  <2>7. Mailbox!Discard(lost)
    BY <2>5, <2>6 DEF Mailbox!Discard
  <2>8. QED
    BY <2>6, <2>7 DEF Mailbox!Next
<1>10. CASE Join
  <2>1. hostpc' \in Stopping
    BY <1>10 DEF Join, StopNext
  <2>2. PendingFrames' = PendingFrames
    BY <1>10, <2>1, SamePending DEF Join, SameHands, Undecided
  <2>3. QED
    BY <1>10, <2>1, <2>2 DEF Join, Mailbox!vars
<1>11. CASE Replace
  <2>1. ASSUME NEW f
        PROVE  ~Pending(f)'
    BY <1>11 DEF Replace, Pending, Undecided, BeforeGate
  <2>2. PendingFrames' = {}
    BY <2>1, PendingMeans
  <2>3. Mailbox!Reopen
    BY <1>11, <2>2 DEF Replace, Mailbox!Reopen
  <2>4. QED
    BY <2>3 DEF Mailbox!Next
<1>12. QED
  BY <1>1, <1>2, <1>3, <1>4, <1>5, <1>6, <1>7, <1>8, <1>9, <1>10, <1>11 DEF Host

(* The workers' steps.                                                     *)
LEMMA WorkerRefines ==
  ASSUME IInv, NEW w \in Workers, Worker(w)
  PROVE  [Mailbox!Next]_(Mailbox!vars)
<1> USE DEF hostVars
<1>0. /\ TypeOK /\ queue \in Seq(Nat) /\ inputSeq \in Nat
      /\ pc \in [Workers -> WorkerPCs] /\ frame \in [Workers -> Nat]
  BY ConstantsAssumption DEF IInv, TypeOK
<1>1. CASE Register(w)
  <2>1. SameHands
    BY <1>0, <1>1 DEF Register, Goto, SameHands, Undecided, BeforeGate
  <2>2. UNCHANGED <<queue, inputSeq, hostpc, published, rejected>>
    BY <1>1 DEF Register
  <2>3. QED
    BY <2>1, <2>2, SamePending DEF Mailbox!vars
<1>2. CASE CheckStop(w)
  <2>1. SameHands
    BY <1>0, <1>2 DEF CheckStop, Goto, SameHands, Undecided, BeforeGate
  <2>2. UNCHANGED <<queue, inputSeq, hostpc, published, rejected>>
    BY <1>2 DEF CheckStop
  <2>3. QED
    BY <2>1, <2>2, SamePending DEF Mailbox!vars
<1>3. CASE WakeUp(w)
  <2>1. SameHands
    BY <1>0, <1>3 DEF WakeUp, Goto, SameHands, Undecided, BeforeGate
  <2>2. UNCHANGED <<queue, inputSeq, hostpc, published, rejected>>
    BY <1>3 DEF WakeUp
  <2>3. QED
    BY <2>1, <2>2, SamePending DEF Mailbox!vars
<1>4. CASE GoOnAfterPop(w)
  <2>1. SameHands
    BY <1>0, <1>4 DEF GoOnAfterPop, Goto, SameHands, Undecided, BeforeGate
  <2>2. UNCHANGED <<queue, inputSeq, hostpc, published, rejected>>
    BY <1>4 DEF GoOnAfterPop
  <2>3. QED
    BY <2>1, <2>2, SamePending DEF Mailbox!vars
<1>5. CASE TakeOn(w)
  <2>1. SameHands
    BY <1>0, <1>5 DEF TakeOn, Goto, SameHands, Undecided, BeforeGate
  <2>2. UNCHANGED <<queue, inputSeq, hostpc, published, rejected>>
    BY <1>5 DEF TakeOn
  <2>3. QED
    BY <2>1, <2>2, SamePending DEF Mailbox!vars
<1>6. CASE Process(w)
  <2>1. SameHands
    BY <1>0, <1>6 DEF Process, Goto, SameHands, Undecided, BeforeGate
  <2>2. UNCHANGED <<queue, inputSeq, hostpc, published, rejected>>
    BY <1>6 DEF Process
  <2>3. QED
    BY <2>1, <2>2, SamePending DEF Mailbox!vars
<1>7. CASE StoreLatest(w)
  <2>1. SameHands
    BY <1>0, <1>7 DEF StoreLatest, Goto, SameHands, Undecided, BeforeGate
  <2>2. UNCHANGED <<queue, inputSeq, hostpc, published, rejected>>
    BY <1>7 DEF StoreLatest
  <2>3. QED
    BY <2>1, <2>2, SamePending DEF Mailbox!vars
<1>8. CASE StoreCamera(w)
  <2>1. SameHands
    BY <1>0, <1>8 DEF StoreCamera, Goto, SameHands, Undecided, BeforeGate
  <2>2. UNCHANGED <<queue, inputSeq, hostpc, published, rejected>>
    BY <1>8 DEF StoreCamera
  <2>3. QED
    BY <2>1, <2>2, SamePending DEF Mailbox!vars
<1>9. CASE PopBlocks(w)
  <2>1. SameHands
    BY <1>0, <1>9 DEF PopBlocks, Goto, SameHands, Undecided, BeforeGate
  <2>2. UNCHANGED <<queue, inputSeq, hostpc, published, rejected>>
    BY <1>9 DEF PopBlocks
  <2>3. QED
    BY <2>1, <2>2, SamePending DEF Mailbox!vars
<1>10. CASE Complete(w)
  <2>1. SameHands
    BY <1>0, <1>10 DEF Complete, LetGo, Goto, SameHands, Undecided, BeforeGate
  <2>2. UNCHANGED <<queue, inputSeq, hostpc, published, rejected>>
    BY <1>10 DEF Complete
  <2>3. QED
    BY <2>1, <2>2, SamePending DEF Mailbox!vars
<1>11. CASE SkipSuperseded(w)
  <2>1. Undecided(w) /\ ~Undecided(w)'
    BY <1>0, <1>11, OwnEntries DEF SkipSuperseded, Undecided, BeforeGate
  <2>2. QED
    BY <1>0, <1>11, <2>1, OwnEntries, DropSuperseded DEF SkipSuperseded
<1>12. CASE LoseGate(w)
  <2>1. Undecided(w) /\ ~Undecided(w)'
    BY <1>0, <1>12, OwnEntries DEF LoseGate, Undecided, BeforeGate
  <2>2. QED
    BY <1>0, <1>12, <2>1, OwnEntries, DropSuperseded DEF LoseGate
<1>13. CASE OperatorDrops(w)
  <2>1. Undecided(w) /\ ~Undecided(w)'
    BY <1>0, <1>13, OwnEntries DEF OperatorDrops, Undecided, BeforeGate
  <2>2. QED
    BY <1>0, <1>13, <2>1, OwnEntries, RejectFrame DEF OperatorDrops
<1>14. CASE OperatorThrows(w)
  <2>1. Undecided(w) /\ ~Undecided(w)'
    BY <1>0, <1>14, OwnEntries DEF OperatorThrows, Undecided, BeforeGate
  <2>2. QED
    BY <1>0, <1>14, <2>1, OwnEntries, RejectFrame DEF OperatorThrows
<1>15. CASE StopAfterPop(w)
  <2>1. hostpc \in Stopping
    BY <1>15 DEF StopAfterPop, IInv, HostInv
  <2>2. Undecided(w) /\ ~Undecided(w)'
    BY <1>0, <1>15, OwnEntries DEF StopAfterPop, Undecided, BeforeGate
  <2>3. PendingFrames' = PendingFrames \ {frame[w]}
    BY <1>0, <1>15, <2>2, OwnEntries, DecidedFrame DEF StopAfterPop
  <2>4. QED
    BY <1>15, <2>1, <2>3, DiscardStopped DEF StopAfterPop
<1>16. CASE RegisterStopped(w)
  <2>1. hostpc \in Stopping
    BY <1>16 DEF RegisterStopped, IInv, HostInv
  <2>2. \A v \in Workers : Undecided(v)' => Undecided(v) /\ frame'[v] = frame[v]
    BY <1>0, <1>16 DEF RegisterStopped, Undecided, BeforeGate
  <2>3. ASSUME NEW f
        PROVE  Pending(f)' => Pending(f)
    BY <1>16, <2>2 DEF RegisterStopped, Pending
  <2>4. PendingFrames' \subseteq PendingFrames
    BY <2>3, PendingMeans
  <2>5. QED
    BY <1>16, <2>1, <2>4, DiscardStopped DEF RegisterStopped
<1>17. CASE PopFrame(w)
  <2>1. /\ pc'[w] = "got" /\ frame'[w] = queue[1] /\ 1 \in 1 .. Len(queue)
        /\ \A v \in Workers : v # w => pc'[v] = pc[v] /\ frame'[v] = frame[v]
    BY <1>17, PoppedFrame DEF IInv
  <2>2. \A f : (\E i \in 1 .. Len(queue) : queue[i] = f)
                <=> (f = queue[1] \/ \E i \in 1 .. Len(queue') : queue'[i] = f)
    <3>1. /\ queue # << >> /\ queue' = Tail(queue) /\ Len(queue) \in Nat
          /\ Len(queue') = Len(queue) - 1
          /\ \A i \in 1 .. Len(queue') :
               i + 1 \in 1 .. Len(queue) /\ queue'[i] = queue[i + 1]
      BY <1>0, <1>17, HeadTail DEF PopFrame
    <3>2. ASSUME NEW f, NEW i \in 1 .. Len(queue), queue[i] = f
          PROVE  f = queue[1] \/ \E j \in 1 .. Len(queue') : queue'[j] = f
      <4>1. CASE i = 1
        BY <3>2, <4>1
      <4>2. CASE i # 1
        <5>1. i - 1 \in 1 .. Len(queue') /\ (i - 1) + 1 = i
          BY <3>1, <4>2
        <5>2. queue'[i - 1] = queue[(i - 1) + 1]
          BY <3>1, <5>1
        <5>3. QED
          BY <3>2, <5>1, <5>2
      <4>3. QED
        BY <4>1, <4>2
    <3>3. ASSUME NEW f, NEW i \in 1 .. Len(queue'), queue'[i] = f
          PROVE  \E j \in 1 .. Len(queue) : queue[j] = f
      BY <3>1, <3>3
    <3>4. QED
      BY <2>1, <3>2, <3>3
  <2>3. /\ Undecided(w)' /\ ~Undecided(w)
        /\ \A v \in Workers : v # w => (Undecided(v)' <=> Undecided(v))
    BY <1>17, <2>1 DEF PopFrame, Undecided, BeforeGate
  <2>4. ASSUME NEW f
        PROVE  Pending(f)' <=> Pending(f)
    BY <1>17, <2>1, <2>2, <2>3 DEF PopFrame, Pending
  <2>5. PendingFrames' = PendingFrames
    BY <2>4, PendingMeans
  <2>6. QED
    BY <1>17, <2>5 DEF PopFrame, Mailbox!vars
<1>18. CASE WinGate(w)
  <2>1. Undecided(w) /\ ~Undecided(w)'
    BY <1>0, <1>18, OwnEntries DEF WinGate, Undecided, BeforeGate
  <2>2. frame[w] \in PendingFrames /\ PendingFrames' = PendingFrames \ {frame[w]}
    BY <1>0, <1>18, <2>1, OwnEntries, DecidedFrame DEF WinGate
  <2>3. Mailbox!Show(frame[w])
    BY <1>18, <2>2 DEF WinGate, Mailbox!Show
  <2>4. QED
    BY <2>2, <2>3 DEF Mailbox!Next
<1>19. QED
  BY <1>1, <1>2, <1>3, <1>4, <1>5, <1>6, <1>7, <1>8, <1>9,
     <1>10, <1>11, <1>12, <1>13, <1>14, <1>15, <1>16, <1>17, <1>18
     DEF Worker

(* Every behaviour of the pipeline is a behaviour of the mailbox.          *)
THEOREM Refinement == Spec => ImplementsMailbox
<1>1. Init => Mailbox!Init
  <2> SUFFICES ASSUME Init
               PROVE  Mailbox!Init
    OBVIOUS
  <2>1. ASSUME NEW f
        PROVE  ~Pending(f)
    BY DEF Init, Pending, Undecided, BeforeGate, HostIdle, Pushing
  <2>2. PendingFrames = {}
    BY <2>1, PendingMeans
  <2>3. QED
    BY <2>2 DEF Init, HostIdle, Stopping, Mailbox!Init
<1>2. IInv /\ [Next]_vars => [Mailbox!Next]_(Mailbox!vars)
  <2> SUFFICES ASSUME IInv, [Next]_vars
               PROVE  [Mailbox!Next]_(Mailbox!vars)
    OBVIOUS
  <2>1. CASE UNCHANGED vars
    <3>1. PendingFrames' = PendingFrames
      BY <2>1, SamePending DEF vars, SameHands, Undecided
    <3>2. QED
      BY <2>1, <3>1 DEF vars, Mailbox!vars
  <2>2. QED
    BY <2>1, HostRefines, WorkerRefines DEF Next
<1>3. QED
  BY <1>1, <1>2, Inductive, PTL DEF Spec, ImplementsMailbox, Mailbox!Spec

(* While the pipeline runs, the newest frame is on its way, shown, or was  *)
(* refused: an eviction, a skip or a lost gate never costs the newest one. *)
THEOREM NewestNeverLost == Spec => []NewestIsKept
<1>1. Init => NewestIsKept
  BY DEF Init, NewestIsKept
<1>2. IInv /\ NewestIsKept /\ [Mailbox!Next]_(Mailbox!vars) => NewestIsKept'
  <2> SUFFICES ASSUME IInv, NewestIsKept, [Mailbox!Next]_(Mailbox!vars)
               PROVE  NewestIsKept'
    OBVIOUS
  <2> USE DEF NewestIsKept
  <2>0. inputSeq \in Nat /\ published \in Nat /\ published <= inputSeq
    BY ConstantsAssumption DEF IInv, TypeOK, ShownInv, Submitted
  <2>1. CASE Mailbox!Offer
    BY <2>1 DEF Mailbox!Offer
  <2>2. CASE Mailbox!Close
    BY <2>2 DEF Mailbox!Close
  <2>3. CASE Mailbox!Reopen
    BY <2>3 DEF Mailbox!Reopen
  <2>4. ASSUME NEW f \in PendingFrames, Mailbox!Show(f)
        PROVE  NewestIsKept'
    <3>1. f \in Nat /\ f <= inputSeq /\ f > published
      BY <2>4, PendingOffered DEF Mailbox!Show
    <3>2. published # inputSeq
      BY <2>0, <3>1
    <3>3. QED
      BY <2>4, <3>2 DEF Mailbox!Show
  <2>5. ASSUME NEW f \in PendingFrames, Mailbox!Drop(f)
        PROVE  NewestIsKept'
    <3>1. f # inputSeq
      BY <2>0, <2>5, PendingOffered DEF Mailbox!Drop
    <3>2. QED
      BY <2>5, <3>1 DEF Mailbox!Drop
  <2>6. ASSUME NEW f \in PendingFrames, Mailbox!Reject(f)
        PROVE  NewestIsKept'
    BY <2>6 DEF Mailbox!Reject
  <2>7. ASSUME NEW lost \in SUBSET PendingFrames, Mailbox!Discard(lost)
        PROVE  NewestIsKept'
    BY <2>7 DEF Mailbox!Discard
  <2>8. CASE UNCHANGED Mailbox!vars
    BY <2>8 DEF Mailbox!vars
  <2>9. QED
    BY <2>1, <2>2, <2>3, <2>4, <2>5, <2>6, <2>7, <2>8 DEF Mailbox!Next
<1>3. QED
  BY <1>1, <1>2, Inductive, Refinement, PTL DEF Spec, ImplementsMailbox, Mailbox!Spec
=============================================================================
