-------------------------- MODULE OperatorPipeline --------------------------
(***************************************************************************)
(* The concurrent operator pipeline of a session or a device               *)
(* (src/src/pipeline/concurrent_operator_pipeline.cc) and the part of its  *)
(* OperatorHost that submits to it, stops it and replaces it               *)
(* (src/src/plugins/operators/operator_host.cc).                           *)
(*                                                                         *)
(* The host submits frames under _pipeline_mutex into a bounded queue that *)
(* evicts its oldest frame when full.  One thread per worker chain pops a  *)
(* frame, processes it and publishes it through a gate on _published_seq.  *)
(* A rebuild stops the threads one after the other (request_stop, whose    *)
(* callback aborts the queue, then join) and starts a new pipeline.        *)
(*                                                                         *)
(* A frame is its sequence number.  Each action is one step between two    *)
(* accesses to shared state; the holder of _pipeline_mutex is hostpc.      *)
(***************************************************************************)
EXTENDS Naturals, Sequences

CONSTANTS
  NumWorkers,   (* pipeline_config().concurrency, one chain and thread each *)
  MaxQueueSize, (* constructor argument; 0 takes the worker count           *)
  MaxFrames,    (* bound: frames submitted to one pipeline                  *)
  MaxRebuilds   (* bound: replacements of the pipeline                      *)

ASSUME ConstantsAssumption ==
  /\ NumWorkers \in Nat
  /\ MaxQueueSize \in Nat
  /\ MaxFrames \in Nat
  /\ MaxRebuilds \in Nat

Workers == 1 .. NumWorkers

(* set_capacity: the argument, or the number of chains and at least one.   *)
Capacity ==
  IF MaxQueueSize # 0 THEN MaxQueueSize
  ELSE IF NumWorkers > 1 THEN NumWorkers ELSE 1

VARIABLES
  hostpc,     (* what the holder of _pipeline_mutex is doing               *)
  target,     (* the worker stop() is at                                   *)
  rebuilds,   (* pipelines replaced so far                                 *)
  inputSeq,   (* _input_seq                                                *)
  queue,      (* frames in _input_queue no pop has claimed                 *)
  waiting,    (* workers blocked in pop, in the order of their tickets     *)
  pc,         (* where each worker is in worker_loop                       *)
  frame,      (* the frame each worker holds, 0 for none                   *)
  stopReq,    (* each worker's stop token                                  *)
  published,  (* _published_seq                                            *)
  latest,     (* _latest, 0 for null                                       *)
  camera,     (* frame whose cameras are in _latest_camera_frames          *)
  delivered,  (* frame of the last _on_complete call                       *)
  rejected    (* history: frames an operator answered with null or a throw *)

hostVars == <<hostpc, target, rebuilds, inputSeq>>
outVars == <<latest, camera, delivered>>
vars == <<hostpc, target, rebuilds, inputSeq, queue, waiting, pc, frame,
          stopReq, published, latest, camera, delivered, rejected>>

HostIdle == "idle"
Pushing == {"pushing", "evicting"}
Stopping == {"requestStop", "abort", "join", "replace"}

(* A worker holds a frame it has not taken through the gate ...            *)
BeforeGate == {"handed", "got", "superseded", "process", "gate"}
(* ... or one that won the gate and is being published.                    *)
AfterGate == {"storeLatest", "storeCamera", "complete"}

WorkerPCs == {"starting", "loop", "pop", "waiting", "done"}
               \union BeforeGate \union AfterGate

-----------------------------------------------------------------------------
(* start() of a new pipeline: empty queue, counters at zero, null outputs. *)
Init ==
  /\ hostpc = HostIdle
  /\ target = 0
  /\ rebuilds = 0
  /\ inputSeq = 0
  /\ queue = << >>
  /\ waiting = << >>
  /\ pc = [w \in Workers |-> "starting"]
  /\ frame = [w \in Workers |-> 0]
  /\ stopReq = [w \in Workers |-> FALSE]
  /\ published = 0
  /\ latest = 0
  /\ camera = 0
  /\ delivered = 0
  /\ rejected = {}

-----------------------------------------------------------------------------
(* The host, holding _pipeline_mutex from its first step to its last.      *)

(* feed_operator_pipeline and submit: number the frame.                    *)
Submit ==
  /\ hostpc = HostIdle
  /\ inputSeq < MaxFrames
  /\ inputSeq' = inputSeq + 1
  /\ hostpc' = "pushing"
  /\ UNCHANGED <<target, rebuilds, queue, waiting, pc, frame, stopReq,
                 published, outVars, rejected>>

(* try_push when a pop is blocked: its ticket is the next item, so the     *)
(* frame is that worker's.                                                 *)
HandOver ==
  /\ hostpc = "pushing"
  /\ waiting # << >>
  /\ pc' = [pc EXCEPT ![Head(waiting)] = "handed"]
  /\ frame' = [frame EXCEPT ![Head(waiting)] = inputSeq]
  /\ waiting' = Tail(waiting)
  /\ hostpc' = HostIdle
  /\ UNCHANGED <<target, rebuilds, inputSeq, queue, stopReq, published,
                 outVars, rejected>>

(* try_push into free capacity.                                            *)
Enqueue ==
  /\ hostpc = "pushing"
  /\ waiting = << >>
  /\ Len(queue) < Capacity
  /\ queue' = Append(queue, inputSeq)
  /\ hostpc' = HostIdle
  /\ UNCHANGED <<target, rebuilds, inputSeq, waiting, pc, frame, stopReq,
                 published, outVars, rejected>>

(* try_push fails; workers may pop before the eviction that follows.       *)
FindFull ==
  /\ hostpc = "pushing"
  /\ waiting = << >>
  /\ Len(queue) >= Capacity
  /\ hostpc' = "evicting"
  /\ UNCHANGED <<target, rebuilds, inputSeq, queue, waiting, pc, frame,
                 stopReq, published, outVars, rejected>>

(* Slip: a full queue refuses the new frame instead of the oldest one.     *)
RefuseNewest ==
  /\ hostpc = "evicting"
  /\ hostpc' = HostIdle
  /\ UNCHANGED <<target, rebuilds, inputSeq, queue, waiting, pc, frame,
                 stopReq, published, outVars, rejected>>

(* try_pop of the oldest frame, if any is left, then try_push again.       *)
EvictOldest ==
  /\ hostpc = "evicting"
  /\ queue' = IF queue = << >> THEN queue ELSE Tail(queue)
  /\ hostpc' = "pushing"
  /\ UNCHANGED <<target, rebuilds, inputSeq, waiting, pc, frame, stopReq,
                 published, outVars, rejected>>

(* The next jthread of _worker_threads.clear(), or the end of stop().      *)
StopNext(w) ==
  /\ target' = w
  /\ hostpc' = IF w \in Workers THEN "requestStop" ELSE "replace"

(* rebuild_pipeline takes the mutex and calls stop().                      *)
BeginRebuild ==
  /\ hostpc = HostIdle
  /\ rebuilds < MaxRebuilds
  /\ rebuilds' = rebuilds + 1
  /\ StopNext(1)
  /\ UNCHANGED <<inputSeq, queue, waiting, pc, frame, stopReq, published,
                 outVars, rejected>>

(* request_stop of the jthread.  Its stop_callback exists only while the   *)
(* worker is inside worker_loop.                                           *)
RequestStop ==
  /\ hostpc = "requestStop"
  /\ stopReq' = [stopReq EXCEPT ![target] = TRUE]
  /\ hostpc' = IF pc[target] \in {"starting", "done"} THEN "join" ELSE "abort"
  /\ UNCHANGED <<target, rebuilds, inputSeq, queue, waiting, pc, frame,
                 published, outVars, rejected>>

(* queue.abort(): every blocked pop throws user_abort, whosever token was  *)
(* stopped.  A pop that was handed a frame and has not woken up may still  *)
(* throw (gone).                                                           *)
AbortPops(gone) ==
  /\ waiting' = << >>
  /\ pc' = [w \in Workers |->
              IF pc[w] = "waiting" \/ w \in gone THEN "done" ELSE pc[w]]
  /\ frame' = [w \in Workers |-> IF w \in gone THEN 0 ELSE frame[w]]

Handed == {w \in Workers : pc[w] = "handed"}

(* The stop_callback, run by the stopping thread.                          *)
AbortQueue ==
  /\ hostpc = "abort"
  /\ \E gone \in SUBSET Handed : AbortPops(gone)
  /\ hostpc' = "join"
  /\ UNCHANGED <<target, rebuilds, inputSeq, queue, stopReq, published,
                 outVars, rejected>>

(* Slip: the threads are detached, stop() does not wait for them.          *)
Detach ==
  /\ hostpc = "join"
  /\ StopNext(target + 1)
  /\ UNCHANGED <<rebuilds, inputSeq, queue, waiting, pc, frame, stopReq,
                 published, outVars, rejected>>

(* The jthread's destructor joins: it blocks until the worker returned.    *)
Join ==
  /\ hostpc = "join"
  /\ pc[target] = "done"
  /\ StopNext(target + 1)
  /\ UNCHANGED <<rebuilds, inputSeq, queue, waiting, pc, frame, stopReq,
                 published, outVars, rejected>>

(* _pipeline.reset(), a new pipeline, start(), and the mutex is released.  *)
Replace ==
  /\ hostpc = "replace"
  /\ hostpc' = HostIdle
  /\ target' = 0
  /\ inputSeq' = 0
  /\ queue' = << >>
  /\ waiting' = << >>
  /\ pc' = [w \in Workers |-> "starting"]
  /\ frame' = [w \in Workers |-> 0]
  /\ stopReq' = [w \in Workers |-> FALSE]
  /\ published' = 0
  /\ latest' = 0
  /\ camera' = 0
  /\ delivered' = 0
  /\ rejected' = {}
  /\ UNCHANGED rebuilds

Host ==
  \/ HandOver \/ Enqueue \/ FindFull \/ EvictOldest
  \/ RequestStop \/ AbortQueue \/ Join \/ Replace

-----------------------------------------------------------------------------
(* A worker thread in worker_loop.                                         *)

Goto(w, at) == pc' = [pc EXCEPT ![w] = at]

(* The worker lets its frame go.                                           *)
LetGo(w, at) ==
  /\ Goto(w, at)
  /\ frame' = [frame EXCEPT ![w] = 0]

(* The stop_callback is registered; a worker stopped before that runs it   *)
(* itself.                                                                 *)
Register(w) ==
  /\ pc[w] = "starting"
  /\ ~stopReq[w]
  /\ Goto(w, "loop")
  /\ UNCHANGED <<hostVars, queue, waiting, frame, stopReq, published, outVars,
                 rejected>>

RegisterStopped(w) ==
  /\ pc[w] = "starting"
  /\ stopReq[w]
  /\ \E gone \in SUBSET Handed :
       /\ waiting' = << >>
       /\ pc' = [v \in Workers |->
                   IF v = w THEN "loop"
                   ELSE IF pc[v] = "waiting" \/ v \in gone THEN "done"
                   ELSE pc[v]]
       /\ frame' = [v \in Workers |-> IF v \in gone THEN 0 ELSE frame[v]]
  /\ UNCHANGED <<hostVars, queue, stopReq, published, outVars, rejected>>

(* The loop condition.                                                     *)
CheckStop(w) ==
  /\ pc[w] = "loop"
  /\ Goto(w, IF stopReq[w] THEN "done" ELSE "pop")
  /\ UNCHANGED <<hostVars, queue, waiting, frame, stopReq, published,
                 outVars, rejected>>

(* Slip: front() and a separate pop, between which another worker reads.   *)
PeekFrame(w) ==
  /\ pc[w] = "pop"
  /\ queue # << >>
  /\ frame' = [frame EXCEPT ![w] = Head(queue)]
  /\ Goto(w, "got")
  /\ UNCHANGED <<hostVars, queue, waiting, stopReq, published, outVars,
                 rejected>>

(* pop takes a ticket: the oldest unclaimed frame, or a place to wait.     *)
PopFrame(w) ==
  /\ pc[w] = "pop"
  /\ queue # << >>
  /\ frame' = [frame EXCEPT ![w] = Head(queue)]
  /\ queue' = Tail(queue)
  /\ Goto(w, "got")
  /\ UNCHANGED <<hostVars, waiting, stopReq, published, outVars, rejected>>

PopBlocks(w) ==
  /\ pc[w] = "pop"
  /\ queue = << >>
  /\ waiting' = Append(waiting, w)
  /\ Goto(w, "waiting")
  /\ UNCHANGED <<hostVars, queue, frame, stopReq, published, outVars,
                 rejected>>

(* A blocked pop wakes up with the frame it was handed.                    *)
WakeUp(w) ==
  /\ pc[w] = "handed"
  /\ Goto(w, "got")
  /\ UNCHANGED <<hostVars, queue, waiting, frame, stopReq, published,
                 outVars, rejected>>

(* stop_requested after the pop: the worker leaves, and its frame is lost. *)
StopAfterPop(w) ==
  /\ pc[w] = "got"
  /\ stopReq[w]
  /\ LetGo(w, "done")
  /\ UNCHANGED <<hostVars, queue, waiting, stopReq, published, outVars,
                 rejected>>

GoOnAfterPop(w) ==
  /\ pc[w] = "got"
  /\ ~stopReq[w]
  /\ Goto(w, "superseded")
  /\ UNCHANGED <<hostVars, queue, waiting, frame, stopReq, published, outVars,
                 rejected>>

(* Slip: the comparison is the wrong way round.                            *)
SkipFresh(w) ==
  /\ pc[w] = "superseded"
  /\ frame[w] > published
  /\ LetGo(w, "loop")
  /\ UNCHANGED <<hostVars, queue, waiting, stopReq, published, outVars,
                 rejected>>

(* Skip work that has already been superseded.                             *)
SkipSuperseded(w) ==
  /\ pc[w] = "superseded"
  /\ frame[w] <= published
  /\ LetGo(w, "loop")
  /\ UNCHANGED <<hostVars, queue, waiting, stopReq, published, outVars,
                 rejected>>

TakeOn(w) ==
  /\ pc[w] = "superseded"
  /\ frame[w] > published
  /\ Goto(w, "process")
  /\ UNCHANGED <<hostVars, queue, waiting, frame, stopReq, published, outVars,
                 rejected>>

(* The worker's chain of active operators.                                 *)
Process(w) ==
  /\ pc[w] = "process"
  /\ Goto(w, "gate")
  /\ UNCHANGED <<hostVars, queue, waiting, frame, stopReq, published,
                 outVars, rejected>>

(* An operator answers null: the worker goes on with the next frame.       *)
OperatorDrops(w) ==
  /\ pc[w] = "process"
  /\ LetGo(w, "loop")
  /\ rejected' = rejected \union {frame[w]}
  /\ UNCHANGED <<hostVars, queue, waiting, stopReq, published, outVars>>

(* An operator throws: the worker thread ends.                             *)
OperatorThrows(w) ==
  /\ pc[w] = "process"
  /\ LetGo(w, "done")
  /\ rejected' = rejected \union {frame[w]}
  /\ UNCHANGED <<hostVars, queue, waiting, stopReq, published, outVars>>

(* Slip: an unconditional store in place of the compare-exchange.          *)
GateAlwaysOpen(w) ==
  /\ pc[w] = "gate"
  /\ published' = frame[w]
  /\ Goto(w, "storeLatest")
  /\ UNCHANGED <<hostVars, queue, waiting, frame, stopReq, outVars, rejected>>

(* The compare-exchange loop on _published_seq, which only ever grows, is  *)
(* one atomic conditional assignment.                                      *)
WinGate(w) ==
  /\ pc[w] = "gate"
  /\ frame[w] > published
  /\ published' = frame[w]
  /\ Goto(w, "storeLatest")
  /\ UNCHANGED <<hostVars, queue, waiting, frame, stopReq, outVars, rejected>>

LoseGate(w) ==
  /\ pc[w] = "gate"
  /\ frame[w] <= published
  /\ LetGo(w, "loop")
  /\ UNCHANGED <<hostVars, queue, waiting, stopReq, published, outVars,
                 rejected>>

(* Publication, three separate stores after the gate.                      *)
StoreLatest(w) ==
  /\ pc[w] = "storeLatest"
  /\ latest' = frame[w]
  /\ Goto(w, "storeCamera")
  /\ UNCHANGED <<hostVars, queue, waiting, frame, stopReq, published, camera,
                 delivered, rejected>>

StoreCamera(w) ==
  /\ pc[w] = "storeCamera"
  /\ camera' = frame[w]
  /\ Goto(w, "complete")
  /\ UNCHANGED <<hostVars, queue, waiting, frame, stopReq, published, latest,
                 delivered, rejected>>

(* Slip: the completion callback takes _pipeline_mutex.                    *)
CompleteUnderMutex(w) ==
  /\ pc[w] = "complete"
  /\ hostpc = HostIdle
  /\ delivered' = frame[w]
  /\ LetGo(w, "loop")
  /\ UNCHANGED <<hostVars, queue, waiting, stopReq, published, latest, camera,
                 rejected>>

(* _on_complete: the session or device takes the frame, without the mutex. *)
Complete(w) ==
  /\ pc[w] = "complete"
  /\ delivered' = frame[w]
  /\ LetGo(w, "loop")
  /\ UNCHANGED <<hostVars, queue, waiting, stopReq, published, latest, camera,
                 rejected>>

Worker(w) ==
  \/ Register(w) \/ RegisterStopped(w) \/ CheckStop(w)
  \/ PopFrame(w) \/ PopBlocks(w) \/ WakeUp(w)
  \/ StopAfterPop(w) \/ GoOnAfterPop(w) \/ SkipSuperseded(w) \/ TakeOn(w)
  \/ Process(w) \/ OperatorDrops(w) \/ OperatorThrows(w)
  \/ WinGate(w) \/ LoseGate(w)
  \/ StoreLatest(w) \/ StoreCamera(w) \/ Complete(w)

-----------------------------------------------------------------------------
Next ==
  \/ Submit
  \/ BeginRebuild
  \/ Host
  \/ \E w \in Workers : Worker(w)

Spec == Init /\ [][Next]_vars

(* The operating system runs every thread: the host finishes what it began *)
(* and each worker goes on.  Nobody has to submit or to rebuild.           *)
Fairness ==
  /\ WF_vars(Host)
  /\ \A w \in Workers : WF_vars(Worker(w))

FairSpec == Spec /\ Fairness

-----------------------------------------------------------------------------
TypeOK ==
  /\ hostpc \in {HostIdle} \union Pushing \union Stopping
  /\ target \in 0 .. NumWorkers + 1
  /\ rebuilds \in 0 .. MaxRebuilds
  /\ inputSeq \in 0 .. MaxFrames
  /\ queue \in Seq(Nat)
  /\ waiting \in Seq(Workers)
  /\ pc \in [Workers -> WorkerPCs]
  /\ frame \in [Workers -> Nat]
  /\ stopReq \in [Workers -> BOOLEAN]
  /\ published \in Nat
  /\ latest \in Nat
  /\ camera \in Nat
  /\ delivered \in Nat
  /\ rejected \in SUBSET Nat

Queued == {queue[i] : i \in 1 .. Len(queue)}

Undecided(w) == pc[w] \in BeforeGate
Publishing(w) == pc[w] \in AfterGate

(* The frames submitted whose fate is open.                                *)
PendingFrames ==
  Queued
    \union {frame[w] : w \in {v \in Workers : Undecided(v)}}
    \union (IF hostpc \in Pushing THEN {inputSeq} ELSE {})

(* What OperatorPipeline promises: see FrameMailbox.                       *)
Mailbox == INSTANCE FrameMailbox WITH
  offered <- inputSeq,
  pending <- PendingFrames,
  shown <- published,
  open <- hostpc \notin Stopping

(* The pipeline implements the mailbox: whatever the threads do, a frame   *)
(* is shown at most once and in order, and only superseded frames are      *)
(* dropped while the pipeline runs.                                        *)
ImplementsMailbox == Mailbox!Spec

(* Submit's promise "evicts the oldest queued frame": however evictions    *)
(* race with pops, the newest frame is never lost while the pipeline runs; *)
(* it is on its way, shown, or was refused by an operator.                 *)
NewestIsKept ==
  (hostpc \notin Stopping /\ inputSeq > 0) =>
     inputSeq \in PendingFrames \union {published} \union rejected

(* Two workers never hold the same frame, no held frame is still queued,   *)
(* and no frame that was shown can be shown again.                         *)
OneHolderPerFrame ==
  /\ \A v, w \in Workers :
       (v # w /\ frame[v] # 0) => frame[v] # frame[w]
  /\ \A w \in Workers : frame[w] \notin Queued
  /\ \A w \in Workers : Undecided(w) => frame[w] # published

(* No thread of a stopped pipeline runs on once the pipeline is destroyed. *)
NoWorkerOutlivesPipeline ==
  hostpc = "replace" => \A w \in Workers : pc[w] = "done"

(* The bound on the work that can pile up: the queue never exceeds its     *)
(* capacity, and no frame waits in it while a worker is blocked in pop.    *)
QueueBounded ==
  /\ Len(queue) <= Capacity
  /\ waiting # << >> => queue = << >>

(* "Monotonic output gate: only publish if this frame is strictly newer    *)
(* than whatever has already been shown": latest_frame() and the frames    *)
(* given to _on_complete never go back in time.                            *)
OutputMonotonic ==
  [][hostpc # "replace" => latest' >= latest /\ delivered' >= delivered]_vars

(* The newest frame is eventually shown, unless a newer one replaces it,   *)
(* an operator refuses it, the pipeline is stopped, or no worker is left.  *)
NewestIsShown ==
  \A f \in 1 .. MaxFrames :
    (inputSeq = f) ~>
       \/ published = f
       \/ inputSeq # f
       \/ f \in rejected
       \/ hostpc \in Stopping
       \/ \A w \in Workers : pc[w] = "done"

(* The one way stop() can hang: the worker being joined passed its stop    *)
(* check before request_stop and blocked in pop after the abort.           *)
MissedAbort == hostpc = "join" /\ pc[target] = "waiting"

(* A rebuild finishes and releases _pipeline_mutex, or it hangs on a pop   *)
(* that missed the abort; there is no other way to hang.                   *)
StopEndsOrMissedAbort ==
  (hostpc \in Stopping) ~> (hostpc = HostIdle \/ MissedAbort)
=============================================================================
