------------------------ MODULE OrbbecCamera_proofs ------------------------
(***************************************************************************)
(* Proofs about the Orbbec cameras: whoever holds device_api_access is the *)
(* one that replaces or joins a capture thread, which leaves one thread    *)
(* reading frames; what the camera reports; what shutdown() leaves behind. *)
(***************************************************************************)
EXTENDS OrbbecCamera, TLAPS, SequenceTheorems, FiniteSetTheorems

Works == {<<>>, <<"start">>, <<"stop">>, <<"stop", "start">>}
Places == {"begin", "lock", "find", "join"}
Jobs == [work : Works, at : Places]
Captures == [at : {"begin", "init", "loop"}, stop : BOOLEAN, kind : {"rgbd", "lidar"}]
Callbacks == Cameras \cup {"discover"}
Answers == {"found", "partial"} \X Nat
Discoveries == {<<>>, <<"query">>} \cup Answers

CameraTypeOK ==
  /\ /\ context \in {"initialising", "ready", "failed"}
     /\ draining \in BOOLEAN
     /\ unsent \subseteq Callbacks /\ waiting \subseteq Callbacks
     /\ plugs \in Nat /\ listed \in Nat /\ unread \in Nat /\ asked \in Nat
     /\ refused \in BOOLEAN
     /\ discovery \in Discoveries
     /\ configured \subseteq Cameras /\ events \in Nat
  /\ /\ running \in [Cameras -> BOOLEAN]
     /\ error \in [Cameras -> BOOLEAN]
     /\ loading \in [Cameras -> BOOLEAN]
     /\ seen \in [Cameras -> {"none", "fresh", "stale"}]
     /\ sensor \in [Cameras -> {"rgbd", "lidar"}]
     /\ tasks \in [Cameras -> 0..MaxFrameTasks]
     /\ handle \in [Cameras -> BOOLEAN]
     /\ watch \in [Cameras -> {"look", "restart", "ended"}]
     /\ closing \in [Cameras -> {"absent", "open", "joining", "stopping", "watch", "closed"}]
     /\ leaky \in [Cameras -> BOOLEAN]
  /\ /\ api \in {Free} \cup (Cameras \X Threads)
     /\ job \in [Cameras -> [Threads -> Jobs]]
     /\ newest \in [Cameras -> {"a", "b"}]
     /\ joining \in [Cameras -> {<<>>} \cup ({"context", "user", "watch"} \X {"a", "b"})]
  /\ capture \in [Cameras -> Seq(Captures)]

-----------------------------------------------------------------------------
(* Where a thread may be, given what it has to do; and device_api_access is  *)
(* held by the one that looks for the camera or joins a capture thread.      *)
Mid(c, t) == job[c][t].at \in {"find", "join"}
JobsAreSound ==
  \A c \in Cameras, t \in Threads :
    /\ job[c][t].at # "begin" => job[c][t].work # <<>>
    /\ job[c][t].at = "find" => Head(job[c][t].work) = "start"
    /\ job[c][t].at = "lock" => Head(job[c][t].work) = "stop"
    /\ t = "closer" => job[c][t].work \in {<<>>, <<"stop">>}
HolderIsMid == \A c \in Cameras, t \in Threads : api = <<c, t>> <=> Mid(c, t)

Stopping(c) == \E t \in Threads : Doing(c, t, "stop", "join")
Finding(c) == \E t \in Threads : Doing(c, t, "start", "find")
Launching(c) == \E t \in Threads : Doing(c, t, "start", "join")

(* A second capture thread is there only while the start that launched it    *)
(* joins the first; and a thread is asked to stop only by one that waits.    *)
Ordered(c) ==
  /\ Len(capture[c]) \in 0..2
  /\ Len(capture[c]) = 2 => Launching(c)
  /\ Launching(c) => /\ Len(capture[c]) # 0
                     /\ capture[c][Len(capture[c])].at # "loop"
                     /\ ~capture[c][Len(capture[c])].stop
  /\ \A i \in 1..Len(capture[c]) : capture[c][i].stop => Stopping(c) \/ Launching(c)
  /\ capture[c] # <<>> => handle[c]
CapturesAreOrdered == \A c \in Cameras : Ordered(c)

(* What running and the error state say while commands are under way.        *)
Kept(c) ==
  /\ running[c] /\ ~error[c] /\ capture[c] = <<>> => seen[c] # "none" \/ Stopping(c)
  /\ capture[c] # <<>> => running[c] \/ leaky[c] \/ Finding(c) \/ Launching(c)
StatusIsKept == \A c \in Cameras : Kept(c)

(* A change of the hardware that is not listed yet will be asked for, unless *)
(* it has been, and the query failed.                                        *)
ChangeIsAsked ==
  /\ listed = plugs \/ unread = plugs \/ refused \/ asked > 0
     \/ discovery = <<"query">> \/ (discovery \in Answers /\ discovery[2] = plugs)
     \/ "discover" \in unsent \cup waiting
     \/ \A c \in Cameras : closing[c] = "absent"
  /\ listed <= plugs /\ unread <= plugs
  /\ discovery \in Answers =>
       discovery[2] <= plugs /\ (listed = plugs \/ unread = plugs => discovery[2] = plugs)

(* From the stop of shutdown() on no other thread works, without a gap.      *)
Closers == {"stopping", "watch", "closed"}
Alone(c) ==
  /\ closing[c] # "stopping" => Done(c, "closer")
  /\ closing[c] \in Closers /\ ~leaky[c] =>
       /\ Done(c, "a") /\ Done(c, "b")
       /\ Done(c, "closer") => capture[c] = <<>>
  /\ tasks[c] > 0 /\ ~leaky[c] =>
       \E i \in 1..Len(capture[c]) : capture[c][i].at = "loop" /\ capture[c][i].kind = "rgbd"
ShutdownIsAlone == \A c \in Cameras : Alone(c)

CameraInv ==
  CameraTypeOK /\ JobsAreSound /\ HolderIsMid /\ CapturesAreOrdered /\ StatusIsKept
  /\ ChangeIsAsked /\ ShutdownIsAlone

-----------------------------------------------------------------------------
(* What is left of a thread's work, step by step.                            *)
LEMMA WorkFacts ==
  /\ \A w \in Works : w # <<>> =>
       /\ Head(w) \in {"start", "stop"} /\ Tail(w) \in Works
       /\ Head(w) = "start" => Tail(w) = <<>>
  /\ Head(<<"stop">>) = "stop" /\ Tail(<<"stop">>) = <<>>
  /\ Head(<<"start">>) = "start"
  /\ <<"start">> # <<>> /\ <<"stop">> # <<>> /\ <<"start">> # <<"stop">>
  BY SMT DEF Works

(* A thread that finishes a piece of work is at the beginning of the next.   *)
LEMMA TypedJob ==
  ASSUME CameraTypeOK, NEW c \in Cameras, NEW t \in Threads
  PROVE  job[c][t] \in Jobs /\ job[c][t].work \in Works /\ job[c][t].at \in Places
  BY SMT DEF CameraTypeOK, Jobs

(* RequestStop changes the stop token of each thread and nothing else.       *)
LEMMA RequestStopFacts ==
  ASSUME NEW s \in Seq(Captures)
  PROVE  /\ RequestStop(s) \in Seq(Captures)
         /\ Len(RequestStop(s)) = Len(s)
         /\ \A i \in 1..Len(s) :
              /\ RequestStop(s)[i].at = s[i].at /\ RequestStop(s)[i].kind = s[i].kind
              /\ RequestStop(s)[i].stop
<1>1. /\ DOMAIN s = 1..Len(s) /\ Len(s) \in Nat
      /\ \A i \in 1..Len(s) : s[i] \in Captures
  BY LenProperties, ElementOfSeq
<1>2. \A i \in 1..Len(s) : [s[i] EXCEPT !.stop = TRUE] \in Captures
  BY <1>1 DEF Captures
<1>3. RequestStop(s) = [i \in 1..Len(s) |-> [s[i] EXCEPT !.stop = TRUE]]
  BY <1>1 DEF RequestStop
<1>4. RequestStop(s) \in Seq(Captures) /\ Len(RequestStop(s)) = Len(s)
  BY <1>1, <1>2, <1>3, SMT
<1>5. \A i \in 1..Len(s) : RequestStop(s)[i] = [s[i] EXCEPT !.stop = TRUE]
  BY <1>3
<1>6. ASSUME NEW i \in 1..Len(s)
      PROVE  LET r == [s[i] EXCEPT !.stop = TRUE]
             IN  r.at = s[i].at /\ r.kind = s[i].kind /\ r.stop
  BY <1>1 DEF Captures
<1> QED
  BY <1>4, <1>5, <1>6

(* Without leaves the other thread, when there are at most two.              *)
LEMMA WithoutFacts ==
  ASSUME NEW s \in Seq(Captures), Len(s) \in 0..2, NEW i \in 1..Len(s)
  PROVE  /\ Without(s, i) \in Seq(Captures)
         /\ Len(Without(s, i)) = Len(s) - 1
         /\ Len(s) = 2 => Without(s, i)[1] = s[3 - i]
<1> DEFINE before == SubSeq(s, 1, i - 1)
           after == SubSeq(s, i + 1, Len(s))
<1>1. /\ i \in Int /\ i - 1 \in Int /\ i + 1 \in Int /\ Len(s) \in Int /\ 1 \in Int
      /\ \A j \in 1..(i - 1) : s[j] \in Captures
      /\ \A j \in (i + 1)..Len(s) : s[j] \in Captures
  BY ElementOfSeq
<1>2. /\ before \in Seq(Captures)
      /\ Len(before) = IF 1 <= i - 1 THEN (i - 1) - 1 + 1 ELSE 0
      /\ \A j \in 1..((i - 1) - 1 + 1) : before[j] = s[1 + j - 1]
  BY <1>1, SubSeqProperties
<1>3. /\ after \in Seq(Captures)
      /\ Len(after) = IF i + 1 <= Len(s) THEN Len(s) - (i + 1) + 1 ELSE 0
      /\ \A j \in 1..(Len(s) - (i + 1) + 1) : after[j] = s[(i + 1) + j - 1]
  BY <1>1, SubSeqProperties
<1>4. /\ before \o after \in Seq(Captures)
      /\ Len(before \o after) = Len(before) + Len(after)
      /\ \A j \in 1..Len(before) + Len(after) : (before \o after)[j] =
           IF j <= Len(before) THEN before[j] ELSE after[j - Len(before)]
  BY <1>2, <1>3, ConcatProperties
<1>5. Without(s, i) = before \o after
  BY DEF Without
<1> HIDE DEF before, after
<1>6. CASE Len(s) = 2 /\ i = 1
  BY <1>2, <1>3, <1>4, <1>5, <1>6
<1>7. CASE Len(s) = 2 /\ i = 2
  BY <1>2, <1>3, <1>4, <1>5, <1>7
<1>8. CASE Len(s) = 1
  BY <1>2, <1>3, <1>4, <1>5, <1>8
<1>9. Len(s) = 1 \/ (Len(s) = 2 /\ i = 1) \/ (Len(s) = 2 /\ i = 2)
  <2>1. \A n \in 0..2 : \A k \in 1..n : n = 1 \/ (n = 2 /\ k = 1) \/ (n = 2 /\ k = 2)
    OBVIOUS
  <2> QED
    BY <2>1, Zenon
<1> QED
  BY <1>6, <1>7, <1>8, <1>9, Zenon

-----------------------------------------------------------------------------
(* A new thread takes a slot whose thread has ended.                         *)
Spawned(c) ==
  \E t \in {"a", "b"}, w \in Works \ {<<>>} :
    /\ Done(c, t)
    /\ job' = [job EXCEPT ![c][t] = [work |-> w, at |-> "begin"]]
    /\ leaky' = IF closing[c] \in {"absent", "open"} THEN leaky
                ELSE [leaky EXCEPT ![c] = TRUE]
ThreadsTypeOK ==
  /\ job \in [Cameras -> [Threads -> Jobs]] /\ newest \in [Cameras -> {"a", "b"}]
  /\ joining \in [Cameras -> {<<>>} \cup ({"context", "user", "watch"} \X {"a", "b"})]
  /\ leaky \in [Cameras -> BOOLEAN]

(* A started thread of a camera takes a free place and the given work. *)
LEMMA SpawnFacts ==
  ASSUME CameraTypeOK, NEW c \in Cameras, NEW w \in Works \ {<<>>},
         NEW caller \in {"context", "user", "watch"}, Spawn(c, w, caller)
  PROVE  Spawned(c) /\ ThreadsTypeOK'
<1>1. PICK t \in {"a", "b"} :
        /\ Done(c, t)
        /\ job' = [job EXCEPT ![c][t] = [work |-> w, at |-> "begin"]]
        /\ newest' = [newest EXCEPT ![c] = t]
        /\ joining' = IF Done(c, newest[c]) THEN joining
                      ELSE [joining EXCEPT ![c] = <<caller, newest[c]>>]
        /\ leaky' = IF closing[c] \in {"absent", "open"} THEN leaky ELSE Leak(c)
  BY DEF Spawn
<1>2. Spawned(c)
  BY <1>1 DEF Spawned, Leak
<1>3. job' \in [Cameras -> [Threads -> Jobs]]
  BY <1>1, SMT DEF CameraTypeOK, Threads, Jobs, Places
<1>4. newest' \in [Cameras -> {"a", "b"}]
  BY <1>1 DEF CameraTypeOK
<1>5. <<caller, newest[c]>> \in {"context", "user", "watch"} \X {"a", "b"}
  BY DEF CameraTypeOK
<1>6. joining' \in [Cameras -> {<<>>} \cup ({"context", "user", "watch"} \X {"a", "b"})]
  BY <1>1, <1>5 DEF CameraTypeOK
<1>7. leaky' \in [Cameras -> BOOLEAN]
  BY <1>1 DEF CameraTypeOK, Leak
<1> QED
  BY <1>2, <1>3, <1>4, <1>6, <1>7 DEF ThreadsTypeOK

(* Which steps start a thread, and what they may change beside it.           *)
StartsThread ==
  \/ Drain \/ \E c \in Cameras : Create(c) \/ Kickoff(c) \/ UserCommand(c) \/ WatchRestarts(c)

(* What starts a thread leaves the lock, the captures and the status alone. *)
LEMMA StartsThreadFacts ==
  ASSUME CameraTypeOK, StartsThread
  PROVE  /\ UNCHANGED <<api, captureVars, statusVars>>
         /\ (UNCHANGED threadVars \/ (\E c \in Cameras : Spawned(c))) /\ ThreadsTypeOK'
<1> USE DEF Works
<1>0. UNCHANGED threadVars => ThreadsTypeOK'
  BY DEF threadVars, ThreadsTypeOK, CameraTypeOK
<1>1. ASSUME NEW cb \in Callbacks, RunCallback(cb)
      PROVE  (UNCHANGED threadVars \/ (\E c \in Cameras : Spawned(c))) /\ ThreadsTypeOK'
  <2>1. CASE cb = "discover"
    BY <1>0, <1>1, <2>1 DEF RunCallback
  <2>2. CASE cb # "discover"
    <3>1. cb \in Cameras /\ Spawn(cb, <<"start">>, "context")
      BY <1>1, <2>2 DEF RunCallback, Callbacks
    <3>2. <<"start">> \in Works \ {<<>>}
      BY WorkFacts
    <3> QED
      BY <3>1, <3>2, SpawnFacts
  <2> QED
    BY <2>1, <2>2
<1>2. CASE Drain
  <2>1. UNCHANGED <<api, captureVars, statusVars>>
    BY <1>2 DEF Drain
  <2>2. CASE UNCHANGED threadVars
    BY <1>0, <2>1, <2>2
  <2>3. CASE \E cb \in waiting : RunCallback(cb)
    BY <1>1, <2>1, <2>3 DEF CameraTypeOK
  <2> QED
    BY <1>2, <2>2, <2>3 DEF Drain
<1>3. ASSUME NEW c \in Cameras, Create(c) \/ Kickoff(c)
      PROVE  /\ UNCHANGED <<api, captureVars, statusVars>>
             /\ (UNCHANGED threadVars \/ (\E d \in Cameras : Spawned(d))) /\ ThreadsTypeOK'
  <2>1. UNCHANGED <<api, captureVars, statusVars>>
    BY <1>3 DEF Create, Kickoff
  <2>2. PICK cb \in Callbacks : RunOnReady(cb)
    BY <1>3 DEF Create, Kickoff, Callbacks
  <2> QED
    BY <1>0, <1>1, <2>1, <2>2 DEF RunOnReady, threadVars
<1>4. ASSUME NEW c \in Cameras, UserCommand(c) \/ WatchRestarts(c)
      PROVE  /\ UNCHANGED <<api, captureVars, statusVars>>
             /\ Spawned(c) /\ ThreadsTypeOK'
  <2>1. UNCHANGED <<api, captureVars, statusVars>>
    BY <1>4 DEF UserCommand, WatchRestarts
  <2>2. PICK w \in {<<"start">>, <<"stop">>, <<"stop", "start">>},
             caller \in {"user", "watch"} : Spawn(c, w, caller)
    BY <1>4 DEF UserCommand, WatchRestarts
  <2>3. w \in Works \ {<<>>}
    BY WorkFacts
  <2> QED
    BY <2>1, <2>2, <2>3, SpawnFacts
<1> QED
  BY <1>2, <1>3, <1>4 DEF StartsThread

-----------------------------------------------------------------------------
(* A thread goes on with its work, or to the next; no other thread moves.    *)
JobIs(c, t, w, p) ==
  /\ job' \in [Cameras -> [Threads -> Jobs]]
  /\ job'[c][t].work = w /\ job'[c][t].at = p
  /\ \A d \in Cameras, u \in Threads : d # c \/ u # t => job'[d][u] = job[d][u]

(* A step that rewrites the job of one thread leaves the others as they were. *)
LEMMA JobSet ==
  ASSUME CameraTypeOK, NEW c \in Cameras, NEW t \in Threads, NEW j \in Jobs,
         job' = [job EXCEPT ![c] = [job[c] EXCEPT ![t] = j]]
  PROVE  JobIs(c, t, j.work, j.at)
<1>1. job \in [Cameras -> [Threads -> Jobs]]
  BY DEF CameraTypeOK
<1>2. job' \in [Cameras -> [Threads -> Jobs]] /\ job'[c][t] = j
  BY <1>1
<1>3. \A d \in Cameras, u \in Threads : d # c \/ u # t => job'[d][u] = job[d][u]
  BY <1>1
<1> QED
  BY <1>2, <1>3 DEF JobIs

(* The two ways a thread moves: on to its next piece of work, or to a place of it. *)
LEMMA JobMoves ==
  ASSUME CameraTypeOK, NEW c \in Cameras, NEW t \in Threads, job[c][t].work # <<>>
  PROVE  /\ Finish(c, t) => JobIs(c, t, Tail(job[c][t].work), "begin")
         /\ \A p \in Places : GoTo(c, t, p) => JobIs(c, t, job[c][t].work, p)
<1>1. job[c][t] \in Jobs /\ job[c][t].work \in Works /\ Tail(job[c][t].work) \in Works
  BY TypedJob, WorkFacts
<1>2. ASSUME Finish(c, t) PROVE JobIs(c, t, Tail(job[c][t].work), "begin")
  <2>1. PICK j \in Jobs : j.work = Tail(job[c][t].work) /\ j.at = "begin"
          /\ job' = [job EXCEPT ![c] = [job[c] EXCEPT ![t] = j]]
    <3> DEFINE j == [work |-> Tail(job[c][t].work), at |-> "begin"]
    <3>1. j \in Jobs /\ j.work = Tail(job[c][t].work) /\ j.at = "begin"
      BY <1>1 DEF Jobs, Places
    <3>2. job' = [job EXCEPT ![c] = [job[c] EXCEPT ![t] = j]]
      BY <1>2 DEF Finish
    <3> QED
      BY <3>1, <3>2
  <2> QED
    BY <2>1, JobSet
<1>3. ASSUME NEW p \in Places, GoTo(c, t, p) PROVE JobIs(c, t, job[c][t].work, p)
  <2>1. PICK j \in Jobs : j.work = job[c][t].work /\ j.at = p
          /\ job' = [job EXCEPT ![c] = [job[c] EXCEPT ![t] = j]]
    <3> DEFINE j == [job[c][t] EXCEPT !.at = p]
    <3>1. j \in Jobs /\ j.work = job[c][t].work /\ j.at = p
      BY <1>1 DEF Jobs
    <3>2. job' = [job EXCEPT ![c] = [job[c] EXCEPT ![t] = j]]
      BY <1>3 DEF GoTo
    <3> QED
      BY <3>1, <3>2
  <2> QED
    BY <2>1, JobSet
<1> QED
  BY <1>2, <1>3

(* Types. What a thread of a device does, and what a capture thread does.    *)
LEMMA JobTypes ==
  ASSUME CameraTypeOK, NEW c \in Cameras, NEW t \in Threads, JobSteps(c, t)
  PROVE  ThreadsTypeOK' /\ api' \in {Free} \cup (Cameras \X Threads)
         /\ UNCHANGED <<newest, joining>>
<1> USE DEF CameraTypeOK, ThreadsTypeOK
<1>1. job[c][t] \in Jobs /\ job[c][t].work \in Works
  BY TypedJob
<1>2. \A what, at : Doing(c, t, what, at) => job[c][t].work # <<>>
  BY DEF Doing
<1>3. job[c][t].work # <<>> /\ Finish(c, t) => job' \in [Cameras -> [Threads -> Jobs]]
  BY JobMoves DEF JobIs
<1>4. ASSUME job[c][t].work # <<>>, NEW p \in Places, GoTo(c, t, p)
      PROVE  job' \in [Cameras -> [Threads -> Jobs]]
  BY <1>4, JobMoves DEF JobIs
<1>5. CASE StopLooks(c, t)
  BY <1>2, <1>3, <1>4, <1>5 DEF StopLooks, Places
<1>6. CASE StopLocks(c, t)
  BY <1>2, <1>3, <1>4, <1>6 DEF StopLocks, Places, lifeVars, statusVars
<1>7. CASE StopJoined(c, t)
  BY <1>2, <1>3, <1>7 DEF StopJoined
<1>8. CASE StartLocks(c, t)
  BY <1>2, <1>4, <1>8 DEF StartLocks, Places
<1>9. CASE StartFails(c, t)
  BY <1>2, <1>3, <1>9 DEF StartFails, Leak
<1>10. CASE StartLaunches(c, t)
  BY <1>2, <1>4, <1>10 DEF StartLaunches, Places
<1>11. CASE StartJoined(c, t)
  BY <1>2, <1>3, <1>11 DEF StartJoined
<1> QED
  BY <1>5, <1>6, <1>7, <1>8, <1>9, <1>10, <1>11 DEF JobSteps

-----------------------------------------------------------------------------
(* The capture threads: one goes on, one ends, or another is launched.       *)
OthersCapture(c) ==
  /\ capture' \in [Cameras -> Seq(Captures)]
  /\ \A d \in Cameras : d # c => capture'[d] = capture[d]
Moved(c, i, p, k) ==
  /\ OthersCapture(c)
  /\ Len(capture'[c]) = Len(capture[c])
  /\ capture'[c][i].at = p /\ capture'[c][i].kind = k
  /\ capture'[c][i].stop = capture[c][i].stop
  /\ \A n \in 1..Len(capture[c]) : n # i => capture'[c][n] = capture[c][n]
Ended(c, i) ==
  /\ OthersCapture(c)
  /\ Len(capture'[c]) = Len(capture[c]) - 1
  /\ Len(capture[c]) = 2 => capture'[c][1] = capture[c][3 - i]
Stopped(c) ==
  /\ Len(capture'[c]) >= Len(capture[c])
  /\ \A i \in 1..Len(capture[c]) :
       /\ capture'[c][i].at = capture[c][i].at /\ capture'[c][i].kind = capture[c][i].kind
       /\ capture'[c][i].stop

(* The captures of a camera are a sequence of well-formed captures. *)
LEMMA CaptureType ==
  ASSUME CameraTypeOK, NEW c \in Cameras
  PROVE  /\ capture[c] \in Seq(Captures) /\ Len(capture[c]) \in Nat
         /\ DOMAIN capture[c] = 1..Len(capture[c])
         /\ \A i \in 1..Len(capture[c]) : capture[c][i] \in Captures
<1>1. capture[c] \in Seq(Captures)
  BY DEF CameraTypeOK
<1> QED
  BY <1>1, LenProperties, ElementOfSeq

(* Rewriting one capture of a camera moves that one only. *)
LEMMA CaptureSet ==
  ASSUME CameraTypeOK, NEW c \in Cameras, NEW i \in DOMAIN capture[c], NEW x \in Captures,
         x.stop = capture[c][i].stop,
         capture' = [capture EXCEPT ![c] = [capture[c] EXCEPT ![i] = x]]
  PROVE  Moved(c, i, x.at, x.kind)
<1>1. capture \in [Cameras -> Seq(Captures)] /\ i \in 1..Len(capture[c])
  BY CaptureType DEF CameraTypeOK
<1>2. PICK s \in Seq(Captures) : s = [capture[c] EXCEPT ![i] = x]
  BY <1>1, CaptureType, ExceptSeq
<1>3. Len(s) = Len(capture[c]) /\ \A n \in 1..Len(capture[c]) :
         s[n] = IF n = i THEN x ELSE capture[c][n]
  BY <1>1, <1>2, CaptureType, ExceptSeq
<1>4. capture' = [capture EXCEPT ![c] = s]
  BY <1>2
<1>5. capture'[c] = s /\ OthersCapture(c)
  BY <1>1, <1>4 DEF OthersCapture
<1> QED
  BY <1>1, <1>3, <1>5 DEF Moved

(* A capture that starts its loop or is dispatched stays in its place. *)
LEMMA CaptureMoves ==
  ASSUME CameraTypeOK, NEW c \in Cameras, NEW i \in DOMAIN capture[c]
  PROVE  /\ Dispatch(c, i) => Moved(c, i, "init", sensor[c])
         /\ capture' = [capture EXCEPT ![c][i].at = "loop"]
              => Moved(c, i, "loop", capture[c][i].kind)
<1>1. capture[c][i] \in Captures /\ sensor[c] \in {"rgbd", "lidar"}
  BY CaptureType DEF CameraTypeOK
<1>2. ASSUME Dispatch(c, i) PROVE Moved(c, i, "init", sensor[c])
  <2> DEFINE y == [capture[c][i] EXCEPT !.at = "init", !.kind = sensor[c]]
  <2>1. y \in Captures /\ y.stop = capture[c][i].stop /\ y.at = "init" /\ y.kind = sensor[c]
    BY <1>1 DEF Captures
  <2>2. capture' = [capture EXCEPT ![c] = [capture[c] EXCEPT ![i] = y]]
    BY <1>2 DEF Dispatch
  <2>3. PICK x \in Captures : x = y
    BY <2>1
  <2> QED
    BY <2>1, <2>2, <2>3, CaptureSet
<1>3. ASSUME capture' = [capture EXCEPT ![c][i].at = "loop"]
      PROVE  Moved(c, i, "loop", capture[c][i].kind)
  <2> DEFINE y == [capture[c][i] EXCEPT !.at = "loop"]
  <2>1. y \in Captures /\ y.stop = capture[c][i].stop /\ y.at = "loop"
        /\ y.kind = capture[c][i].kind
    BY <1>1 DEF Captures
  <2>2. capture' = [capture EXCEPT ![c] = [capture[c] EXCEPT ![i] = y]]
    BY <1>3
  <2>3. PICK x \in Captures : x = y
    BY <2>1
  <2> QED
    BY <2>1, <2>2, <2>3, CaptureSet
<1> QED
  BY <1>2, <1>3

(* A capture that ends leaves the sequence; the ones after it move up. *)
LEMMA CaptureEnds ==
  ASSUME CameraTypeOK, NEW c \in Cameras, Len(capture[c]) \in 0..2,
         NEW i \in DOMAIN capture[c], Ends(c, i)
  PROVE  Ended(c, i)
<1>1. capture \in [Cameras -> Seq(Captures)] /\ i \in 1..Len(capture[c])
  BY CaptureType DEF CameraTypeOK
<1>2. PICK s \in Seq(Captures) : s = Without(capture[c], i)
  BY <1>1, CaptureType, WithoutFacts
<1>3. Len(s) = Len(capture[c]) - 1 /\ (Len(capture[c]) = 2 => s[1] = capture[c][3 - i])
  BY <1>1, <1>2, CaptureType, WithoutFacts
<1>4. capture' = [capture EXCEPT ![c] = s]
  BY <1>2 DEF Ends
<1>5. capture'[c] = s /\ OthersCapture(c)
  BY <1>1, <1>4 DEF OthersCapture
<1> QED
  BY <1>3, <1>5 DEF Ended

New == [at |-> "begin", stop |-> FALSE, kind |-> "rgbd"]

(* Asking the captures to stop, with or without a new one behind them, keeps their order. *)
LEMMA CaptureStops ==
  ASSUME CameraTypeOK, NEW c \in Cameras
  PROVE  /\ capture' = [capture EXCEPT ![c] = RequestStop(@)]
              => OthersCapture(c) /\ Stopped(c) /\ Len(capture'[c]) = Len(capture[c])
         /\ capture' = [capture EXCEPT ![c] = Append(RequestStop(@), New)]
              => /\ OthersCapture(c) /\ Stopped(c) /\ Len(capture'[c]) = Len(capture[c]) + 1
                 /\ capture'[c][Len(capture[c]) + 1] = New
<1>1. capture \in [Cameras -> Seq(Captures)] /\ capture[c] \in Seq(Captures)
  BY DEF CameraTypeOK
<1>2. PICK s \in Seq(Captures) : s = RequestStop(capture[c])
  BY <1>1, RequestStopFacts
<1>3. /\ Len(s) = Len(capture[c]) /\ Len(s) \in Nat
      /\ \A i \in 1..Len(capture[c]) :
           s[i].at = capture[c][i].at /\ s[i].kind = capture[c][i].kind /\ s[i].stop
  BY <1>1, <1>2, RequestStopFacts, CaptureType
<1>4. ASSUME capture' = [capture EXCEPT ![c] = RequestStop(@)]
      PROVE  OthersCapture(c) /\ Stopped(c) /\ Len(capture'[c]) = Len(capture[c])
  <2>1. capture' = [capture EXCEPT ![c] = s]
    BY <1>2, <1>4
  <2>2. capture'[c] = s /\ OthersCapture(c)
    BY <1>1, <2>1 DEF OthersCapture
  <2> QED
    BY <1>3, <2>2 DEF Stopped
<1>5. ASSUME capture' = [capture EXCEPT ![c] = Append(RequestStop(@), New)]
      PROVE  /\ OthersCapture(c) /\ Stopped(c) /\ Len(capture'[c]) = Len(capture[c]) + 1
             /\ capture'[c][Len(capture[c]) + 1] = New
  <2>1. New \in Captures
    BY DEF New, Captures
  <2>2. PICK r \in Seq(Captures) : r = Append(s, New)
    BY <2>1, AppendProperties
  <2>3. Len(r) = Len(s) + 1 /\ r[Len(s) + 1] = New /\ \A i \in 1..Len(s) : r[i] = s[i]
    BY <2>1, <2>2, AppendProperties
  <2>4. capture' = [capture EXCEPT ![c] = r]
    BY <1>2, <1>5, <2>2
  <2>5. capture'[c] = r /\ OthersCapture(c)
    BY <1>1, <2>4 DEF OthersCapture
  <2> HIDE DEF New
  <2> QED
    BY <1>3, <2>3, <2>5 DEF Stopped
<1> QED
  BY <1>4, <1>5

-----------------------------------------------------------------------------
CaptureAny(c, i) == CaptureSteps(c, i) \/ RgbdFrame(c, i) \/ LidarFrame(c, i) \/ CaptureThrows(c, i)
ContextSteps == Enqueue \/ ContextReady \/ ContextFails \/ Plug \/ Discover \/ Query \/ Publish
QuietSteps(c) ==      \* those that touch neither threads nor capture threads
  \/ Shutdown(c) \/ ShutdownStopped(c) \/ ShutdownEnds(c) \/ TaskEnds(c) \/ Silence(c)
  \/ WatchTimesOut(c) \/ WatchRecovers(c) \/ WatchEnds(c)

(* Every step is of one of these kinds.                                      *)
LEMMA CameraSteps ==
  ASSUME CameraNext
  PROVE  \/ ContextSteps \/ StartsThread
         \/ \E c \in Cameras : \/ QuietSteps(c) \/ ShutdownJoined(c)
                               \/ \E t \in Threads : JobSteps(c, t)
                               \/ \E i \in DOMAIN capture[c] : CaptureAny(c, i)
  BY ZenonT(60) DEF CameraNext, ContextThread, CloserSteps, WatchSteps, ContextSteps, StartsThread,
     QuietSteps, CaptureAny

(* The shared context never touches the lock, the captures or the threads. *)
LEMMA ContextFrame ==
  ASSUME ContextSteps
  PROVE  UNCHANGED <<api, captureVars, statusVars, threadVars, lifeVars>>
  BY DEF ContextSteps, Enqueue, ContextReady, ContextFails, Plug, Discover, Query, Publish

(* The watchdog, the ending frame tasks and most of a shutdown start nothing and hold no lock. *)
LEMMA QuietFrame ==
  ASSUME NEW c \in Cameras, QuietSteps(c)
  PROVE  UNCHANGED <<api, capture, handle, threadVars, contextVars, discoveryVars, running>>
  BY DEF QuietSteps, Shutdown, ShutdownStopped, ShutdownEnds, TaskEnds, Silence, WatchTimesOut,
     WatchRecovers, WatchEnds, captureVars, statusVars

(* A capture thread touches neither the lock nor the threads that start and stop. *)
LEMMA CaptureFrame ==
  ASSUME NEW c \in Cameras, NEW i \in DOMAIN capture[c], CaptureAny(c, i)
  PROVE  UNCHANGED <<api, handle, job, newest, joining, contextVars, discoveryVars, running, lifeVars>>
  BY DEF CaptureAny, CaptureSteps, Dispatch, RgbdStarts, LidarStarts, Initialises, RgbdStops,
     LidarStops, RgbdFrame, LidarFrame, Arrives, CaptureThrows, captureVars, statusVars,
     threadVars

(* A start or a stop touches neither the context nor the discovery. *)
LEMMA JobFrame ==
  ASSUME NEW c \in Cameras, NEW t \in Threads, JobSteps(c, t)
  PROVE  UNCHANGED <<contextVars, discoveryVars, newest, joining, tasks, lifeVars>>
  BY DEF JobSteps, StopLooks, StopLocks, StopJoined, StartLocks, StartFails, StartLaunches,
     StartJoined, captureVars

(* What a capture thread's step does to the list of them.                    *)
LEMMA CaptureEffects ==
  ASSUME CameraTypeOK, NEW c \in Cameras, Len(capture[c]) \in 0..2,
         NEW i \in DOMAIN capture[c], CaptureAny(c, i)
  PROVE  \/ UNCHANGED <<capture, error, leaky>> /\ capture[c][i].at = "loop"
         \/ /\ Moved(c, i, "init", sensor[c]) /\ capture[c][i].at = "begin"
            /\ UNCHANGED <<error, seen, tasks, leaky>>
         \/ /\ Moved(c, i, "loop", capture[c][i].kind) /\ capture[c][i].at = "init"
            /\ api = Free /\ UNCHANGED <<error, seen, tasks, leaky>>
         \/ /\ Ended(c, i) /\ error' = [error EXCEPT ![c] = TRUE]
            /\ capture[c][i].at = "init" /\ api = Free /\ UNCHANGED <<seen, tasks, leaky>>
         \/ /\ Ended(c, i) /\ capture[c][i].stop /\ UNCHANGED <<seen, tasks, leaky>>
            /\ capture[c][i].at = "loop"
            /\ \/ UNCHANGED error /\ tasks[c] = 0
               \/ error' = [error EXCEPT ![c] = TRUE] /\ capture[c][i].kind = "lidar"
         \/ /\ Ended(c, i) /\ error' = [error EXCEPT ![c] = TRUE] /\ UNCHANGED <<seen, tasks>>
            /\ capture[c][i].at = "loop"
            /\ leaky' = IF tasks[c] > 0 THEN [leaky EXCEPT ![c] = TRUE] ELSE leaky
<1>1. CASE Dispatch(c, i)
  BY <1>1, CaptureMoves DEF Dispatch, statusVars, threadVars
<1>2. CASE RgbdStarts(c, i) \/ LidarStarts(c, i)
  BY <1>2, CaptureMoves, CaptureEnds DEF RgbdStarts, LidarStarts, Initialises, Is, threadVars
<1>3. CASE RgbdStops(c, i)
  BY <1>3, CaptureEnds DEF RgbdStops, Is, statusVars, threadVars
<1>4. CASE LidarStops(c, i)
  BY <1>4, CaptureEnds DEF LidarStops, Is, threadVars
<1>5. CASE RgbdFrame(c, i) \/ LidarFrame(c, i)
  BY <1>5 DEF RgbdFrame, LidarFrame, Arrives, Is, threadVars
<1>6. CASE CaptureThrows(c, i)
  BY <1>6, CaptureEnds DEF CaptureThrows, Leak
<1> QED
  BY <1>1, <1>2, <1>3, <1>4, <1>5, <1>6 DEF CaptureAny, CaptureSteps

-----------------------------------------------------------------------------
(* Types are kept.                                                           *)
ContextTypeOK ==
  /\ context \in {"initialising", "ready", "failed"}
  /\ draining \in BOOLEAN
  /\ unsent \subseteq Callbacks /\ waiting \subseteq Callbacks
  /\ plugs \in Nat /\ listed \in Nat /\ unread \in Nat /\ asked \in Nat
     /\ refused \in BOOLEAN
  /\ discovery \in Discoveries
  /\ configured \subseteq Cameras /\ events \in Nat
StatusTypeOK ==
  /\ running \in [Cameras -> BOOLEAN]
  /\ error \in [Cameras -> BOOLEAN]
  /\ loading \in [Cameras -> BOOLEAN]
  /\ seen \in [Cameras -> {"none", "fresh", "stale"}]
  /\ sensor \in [Cameras -> {"rgbd", "lidar"}]
  /\ tasks \in [Cameras -> 0..MaxFrameTasks]
  /\ handle \in [Cameras -> BOOLEAN]
  /\ watch \in [Cameras -> {"look", "restart", "ended"}]
  /\ closing \in [Cameras -> {"absent", "open", "joining", "stopping", "watch", "closed"}]

(* The type invariant by its parts, each kept for reasons of its own. *)
LEMMA TypeParts ==
  CameraTypeOK <=> /\ ContextTypeOK /\ StatusTypeOK /\ ThreadsTypeOK
                   /\ api \in {Free} \cup (Cameras \X Threads)
                   /\ capture \in [Cameras -> Seq(Captures)]
  BY DEF CameraTypeOK, ContextTypeOK, StatusTypeOK, ThreadsTypeOK

(* Every step keeps the types of the context and of the discovery. *)
LEMMA ContextTypes == ASSUME ContextTypeOK, CameraNext PROVE ContextTypeOK'
<1> USE DEF ContextTypeOK
<1>1. CASE ContextSteps
  <2>1. CASE Enqueue \/ ContextReady \/ ContextFails
    BY <2>1 DEF Enqueue, ContextReady, ContextFails, discoveryVars, lifeVars
  <2>2. CASE Plug
    BY <2>2 DEF Plug, contextVars, lifeVars
  <2>3. CASE Discover
    <3>1. asked' \in Nat
      BY <2>3 DEF Discover
    <3>2. /\ discovery' \in Discoveries
          /\ refused' \in BOOLEAN
      BY <2>3, Zenon DEF Discover, Discoveries
    <3> QED
      BY <2>3, <3>1, <3>2 DEF Discover, contextVars, lifeVars
  <2>4. CASE Query
    BY <2>4 DEF Query, contextVars, lifeVars, Discoveries, Answers
  <2>5. CASE Publish
    <3>1. discovery \in Answers
      <4>1. discovery # <<"query">>
        BY <2>5, SMT DEF Publish
      <4> QED
        BY <2>5, <4>1, Zenon DEF Publish, Discoveries
    <3>2. discovery[2] \in Nat
      BY <3>1 DEF Answers
    <3>3. listed' \in Nat /\ unread' \in Nat
      BY <2>5, <3>2 DEF Publish
    <3> QED
      BY <2>5, <3>3 DEF Publish, contextVars, lifeVars, Discoveries
  <2> QED
    BY <1>1, <2>1, <2>2, <2>3, <2>4, <2>5 DEF ContextSteps
<1>2. CASE StartsThread
  <2>1. ASSUME NEW cb, RunCallback(cb) PROVE asked' \in Nat
    BY <2>1 DEF RunCallback, Spawn
  <2>2. CASE Drain
    BY <2>1, <2>2 DEF Drain, lifeVars
  <2>3. ASSUME NEW c \in Cameras, NEW cb \in Callbacks, RunOnReady(cb)
        PROVE  asked' \in Nat /\ unsent' \subseteq Callbacks
    BY <2>1, <2>3 DEF RunOnReady
  <2>4. ASSUME NEW c \in Cameras, Create(c) PROVE ContextTypeOK'
    BY <2>3, <2>4 DEF Create, Callbacks
  <2>5. ASSUME NEW c \in Cameras, Kickoff(c) PROVE ContextTypeOK'
    BY <2>3, <2>5 DEF Kickoff, Callbacks
  <2>6. ASSUME NEW c \in Cameras, UserCommand(c) \/ WatchRestarts(c) PROVE ContextTypeOK'
    BY <2>6 DEF UserCommand, WatchRestarts, contextVars, discoveryVars
  <2> QED
    BY <1>2, <2>2, <2>4, <2>5, <2>6 DEF StartsThread
<1>3. ASSUME NEW c \in Cameras, QuietSteps(c) \/ ShutdownJoined(c) PROVE ContextTypeOK'
  BY <1>3 DEF QuietSteps, Shutdown, ShutdownJoined, ShutdownStopped, ShutdownEnds, TaskEnds,
     Silence, WatchTimesOut, WatchRecovers, WatchEnds, contextVars, discoveryVars, lifeVars
<1>4. ASSUME NEW c \in Cameras, NEW t \in Threads, JobSteps(c, t) PROVE ContextTypeOK'
  BY <1>4, JobFrame DEF contextVars, discoveryVars, lifeVars
<1>5. ASSUME NEW c \in Cameras, NEW i \in DOMAIN capture[c], CaptureAny(c, i)
      PROVE  ContextTypeOK'
  BY <1>5, CaptureFrame DEF contextVars, discoveryVars, lifeVars
<1> QED
  BY <1>1, <1>2, <1>3, <1>4, <1>5, CameraSteps

(* Every step keeps the types of the status and of the life of a camera. *)
LEMMA StatusTypes == ASSUME StatusTypeOK, CameraNext PROVE StatusTypeOK'
<1> USE DEF StatusTypeOK
<1>1. CASE ContextSteps
  BY <1>1, ContextFrame DEF captureVars, statusVars, lifeVars
<1>2. CASE StartsThread
  <2>1. CASE Drain
    BY <2>1 DEF Drain, captureVars, statusVars, lifeVars
  <2>2. ASSUME NEW c \in Cameras, Create(c) \/ Kickoff(c) \/ UserCommand(c) \/ WatchRestarts(c)
        PROVE  StatusTypeOK'
    BY <2>2 DEF Create, Kickoff, UserCommand, WatchRestarts, captureVars, statusVars
  <2> QED
    BY <1>2, <2>1, <2>2 DEF StartsThread
<1>3. ASSUME NEW c \in Cameras, QuietSteps(c) \/ ShutdownJoined(c) PROVE StatusTypeOK'
  <2>1. CASE TaskEnds(c)
    BY <2>1 DEF TaskEnds, lifeVars, MaxFrameTasks
  <2>2. CASE Shutdown(c) \/ ShutdownJoined(c) \/ ShutdownStopped(c) \/ ShutdownEnds(c)
    BY <2>2 DEF Shutdown, ShutdownJoined, ShutdownStopped, ShutdownEnds, captureVars, statusVars
  <2>3. CASE Silence(c) \/ WatchTimesOut(c) \/ WatchRecovers(c) \/ WatchEnds(c)
    BY <2>3 DEF Silence, WatchTimesOut, WatchRecovers, WatchEnds, captureVars, statusVars,
       lifeVars
  <2> QED
    BY <1>3, <2>1, <2>2, <2>3 DEF QuietSteps
<1>4. ASSUME NEW c \in Cameras, NEW t \in Threads, JobSteps(c, t) PROVE StatusTypeOK'
  BY <1>4 DEF JobSteps, StopLooks, StopLocks, StopJoined, StartLocks, StartFails, StartLaunches,
     StartJoined, captureVars, statusVars, lifeVars
<1>5. ASSUME NEW c \in Cameras, NEW i \in DOMAIN capture[c], CaptureAny(c, i)
      PROVE  StatusTypeOK'
  <2>1. CASE RgbdFrame(c, i) \/ LidarFrame(c, i)
    <3>1. (IF tasks[c] < MaxFrameTasks THEN tasks[c] + 1 ELSE tasks[c]) \in 0..MaxFrameTasks
      BY DEF MaxFrameTasks
    <3>2. tasks' \in [Cameras -> 0..MaxFrameTasks]
      BY <2>1, <3>1 DEF RgbdFrame, LidarFrame
    <3>3. seen' \in [Cameras -> {"none", "fresh", "stale"}]
          /\ loading' \in [Cameras -> BOOLEAN]
      BY <2>1 DEF RgbdFrame, LidarFrame, Arrives
    <3> QED
      BY <2>1, <3>2, <3>3 DEF RgbdFrame, LidarFrame, Arrives, lifeVars
  <2>2. CASE CaptureSteps(c, i) \/ CaptureThrows(c, i)
    BY <2>2 DEF CaptureSteps, Dispatch, RgbdStarts, LidarStarts, Initialises, RgbdStops,
       LidarStops, CaptureThrows, captureVars, statusVars, lifeVars
  <2> QED
    BY <1>5, <2>1, <2>2 DEF CaptureAny
<1> QED
  BY <1>1, <1>2, <1>3, <1>4, <1>5, CameraSteps

(* Every step keeps the type invariant; at most two captures at once bound the sequence. *)
LEMMA TypeStep ==
  ASSUME CameraTypeOK, CapturesAreOrdered, CameraNext
  PROVE  CameraTypeOK'
<1>1. ContextTypeOK' /\ StatusTypeOK'
  BY TypeParts, ContextTypes, StatusTypes
<1>2. /\ ThreadsTypeOK' /\ api' \in {Free} \cup (Cameras \X Threads)
      /\ capture' \in [Cameras -> Seq(Captures)]
  <2>1. /\ ThreadsTypeOK /\ api \in {Free} \cup (Cameras \X Threads)
        /\ capture \in [Cameras -> Seq(Captures)]
    BY TypeParts
  <2>2. CASE ContextSteps
    BY <2>1, <2>2, ContextFrame DEF captureVars, threadVars, ThreadsTypeOK
  <2>3. CASE StartsThread
    BY <2>1, <2>3, StartsThreadFacts DEF captureVars
  <2>4. ASSUME NEW c \in Cameras, QuietSteps(c)
        PROVE  /\ ThreadsTypeOK' /\ api' \in {Free} \cup (Cameras \X Threads)
               /\ capture' \in [Cameras -> Seq(Captures)]
    BY <2>1, <2>4, QuietFrame DEF threadVars, ThreadsTypeOK
  <2>5. ASSUME NEW c \in Cameras, ShutdownJoined(c)
        PROVE  /\ ThreadsTypeOK' /\ api' \in {Free} \cup (Cameras \X Threads)
               /\ capture' \in [Cameras -> Seq(Captures)]
    <3>1. UNCHANGED <<api, newest, joining, capture>>
      BY <2>5 DEF ShutdownJoined, captureVars
    <3>2. job' \in [Cameras -> [Threads -> Jobs]]
      BY <2>1, <2>5 DEF ShutdownJoined, ThreadsTypeOK, Threads, Jobs, Works, Places
    <3>3. leaky' \in [Cameras -> BOOLEAN]
      BY <2>1, <2>5 DEF ShutdownJoined, ThreadsTypeOK, Leak
    <3> QED
      BY <2>1, <3>1, <3>2, <3>3 DEF ThreadsTypeOK
  <2>6. ASSUME NEW c \in Cameras, NEW t \in Threads, JobSteps(c, t)
        PROVE  capture' \in [Cameras -> Seq(Captures)]
    <3>1. \/ UNCHANGED capture
          \/ capture' = [capture EXCEPT ![c] = RequestStop(@)]
          \/ capture' = [capture EXCEPT ![c] = Append(RequestStop(@), New)]
      BY <2>6 DEF JobSteps, StopLooks, StopLocks, StopJoined, StartLocks, StartFails,
         StartLaunches, StartJoined, captureVars, New
    <3> QED
      BY <2>1, <3>1, CaptureStops DEF OthersCapture
  <2>7. ASSUME NEW c \in Cameras, NEW i \in DOMAIN capture[c], CaptureAny(c, i)
        PROVE  /\ ThreadsTypeOK' /\ api' \in {Free} \cup (Cameras \X Threads)
               /\ capture' \in [Cameras -> Seq(Captures)]
    <3>1. Len(capture[c]) \in 0..2
      BY DEF CapturesAreOrdered, Ordered
    <3>2. /\ UNCHANGED capture \/ OthersCapture(c)
          /\ UNCHANGED leaky \/ leaky' = [leaky EXCEPT ![c] = TRUE]
      BY <2>7, <3>1, CaptureEffects DEF Moved, Ended
    <3> QED
      BY <2>1, <2>7, <3>2, CaptureFrame DEF OthersCapture, ThreadsTypeOK
  <2> QED
    BY <2>2, <2>3, <2>4, <2>5, <2>6, <2>7, CameraSteps, JobTypes
<1> QED
  BY <1>1, <1>2 DEF CameraTypeOK, ContextTypeOK, StatusTypeOK, ThreadsTypeOK

-----------------------------------------------------------------------------
(* Threads and device_api_access.                                            *)
LEMMA SoundKept ==
  ASSUME JobsAreSound, NEW c \in Cameras, NEW t \in Threads, NEW w, NEW p, JobIs(c, t, w, p),
         p # "begin" => w # <<>>,
         p = "find" => Head(w) = "start",
         p = "lock" => Head(w) = "stop",
         t = "closer" => w \in {<<>>, <<"stop">>}
  PROVE  JobsAreSound'
<1> SUFFICES ASSUME NEW d \in Cameras, NEW u \in Threads
             PROVE  /\ job'[d][u].at # "begin" => job'[d][u].work # <<>>
                    /\ job'[d][u].at = "find" => Head(job'[d][u].work) = "start"
                    /\ job'[d][u].at = "lock" => Head(job'[d][u].work) = "stop"
                    /\ u = "closer" => job'[d][u].work \in {<<>>, <<"stop">>}
  BY DEF JobsAreSound
<1>1. CASE d = c /\ u = t
  BY <1>1, Zenon DEF JobIs
<1>2. CASE d # c \/ u # t
  <2>1. job'[d][u] = job[d][u]
    BY <1>2 DEF JobIs
  <2> QED
    BY <2>1 DEF JobsAreSound
<1> QED
  BY <1>1, <1>2

(* The holder of device_api_access is whoever finds or joins, through every move of one thread. *)
LEMMA HolderKept ==
  ASSUME HolderIsMid, NEW c \in Cameras, NEW t \in Threads, NEW w, NEW p, JobIs(c, t, w, p),
         \/ api' = api /\ (p \in {"find", "join"} <=> Mid(c, t))
         \/ api = Free /\ api' = <<c, t>> /\ p \in {"find", "join"}
         \/ Mid(c, t) /\ api' = Free /\ p \notin {"find", "join"}
  PROVE  HolderIsMid'
<1> SUFFICES ASSUME NEW d \in Cameras, NEW u \in Threads
             PROVE  api' = <<d, u>> <=> job'[d][u].at \in {"find", "join"}
  BY DEF HolderIsMid, Mid
<1>1. Free # <<d, u>> /\ (<<c, t>> = <<d, u>> <=> (d = c /\ u = t))
  BY SMT DEF Free
<1>2. CASE d = c /\ u = t
  <2>1. api = <<c, t>> <=> Mid(c, t)
    BY DEF HolderIsMid
  <2>2. job'[d][u].at = p
    BY <1>2 DEF JobIs
  <2> QED
    BY <1>1, <1>2, <2>1, <2>2, Zenon
<1>3. CASE d # c \/ u # t
  <2>1. job'[d][u].at \in {"find", "join"} <=> api = <<d, u>>
    BY <1>3, Zenon DEF JobIs, HolderIsMid, Mid
  <2>2. Mid(c, t) => api = <<c, t>>
    BY DEF HolderIsMid
  <2> QED
    BY <1>1, <1>3, <2>1, <2>2, Zenon
<1> QED
  BY <1>2, <1>3

(* A thread that waits for work is at no place where it could hold the lock. *)
LEMMA BeginsAnew ==
  ASSUME CameraTypeOK, JobsAreSound, HolderIsMid, NEW c \in Cameras, NEW t \in Threads,
         Done(c, t), NEW w \in Works \ {<<>>}, t = "closer" => w = <<"stop">>,
         job' = [job EXCEPT ![c][t] = [work |-> w, at |-> "begin"]], api' = api
  PROVE  JobIs(c, t, w, "begin") /\ JobsAreSound' /\ HolderIsMid'
<1>1. JobIs(c, t, w, "begin")
  <2>1. PICK j \in Jobs : j = [work |-> w, at |-> "begin"]
    BY DEF Jobs, Places
  <2>2. job' = [job EXCEPT ![c] = [job[c] EXCEPT ![t] = j]] /\ j.work = w /\ j.at = "begin"
    BY <2>1
  <2>3. JobIs(c, t, j.work, j.at)
    BY <2>2, JobSet
  <2> QED
    BY <2>2, <2>3
<1>2. ~Mid(c, t)
  BY DEF Mid, JobsAreSound, Done
<1>3. JobsAreSound'
  BY <1>1, SoundKept
<1>4. HolderIsMid'
  BY <1>1, <1>2, HolderKept
<1> QED
  BY <1>1, <1>3, <1>4

(* The step of a thread of the device, as far as its work goes.              *)
LEMMA JobStep ==
  ASSUME CameraTypeOK, JobsAreSound, HolderIsMid,
         NEW c \in Cameras, NEW t \in Threads, JobSteps(c, t)
  PROVE  /\ JobsAreSound' /\ HolderIsMid'
         /\ \E w \in Works, p \in Places : JobIs(c, t, w, p)
<1>1. job[c][t] \in Jobs /\ job[c][t].work \in Works
  BY TypedJob
<1>2. \A what, at : Doing(c, t, what, at) => job[c][t].work # <<>>
  BY DEF Doing
<1>3. ASSUME job[c][t].work # <<>>, Finish(c, t),
             (Mid(c, t) /\ api' = Free) \/ (~Mid(c, t) /\ api' = api)
      PROVE  JobsAreSound' /\ HolderIsMid' /\ \E w \in Works, p \in Places : JobIs(c, t, w, p)
  <2>1. PICK w \in Works : w = Tail(job[c][t].work)
    BY <1>1, <1>3, WorkFacts
  <2>2. JobIs(c, t, w, "begin")
    BY <1>3, <2>1, JobMoves
  <2>3. t = "closer" => w \in {<<>>, <<"stop">>}
    BY <1>3, <2>1, WorkFacts DEF JobsAreSound
  <2> QED
    BY <1>3, <2>2, <2>3, SoundKept, HolderKept DEF Places
<1>4. ASSUME job[c][t].work # <<>>, NEW p \in Places, GoTo(c, t, p),
             p = "find" => Head(job[c][t].work) = "start",
             p = "lock" => Head(job[c][t].work) = "stop",
             \/ api' = api /\ (p \in {"find", "join"} <=> Mid(c, t))
             \/ api = Free /\ api' = <<c, t>> /\ p \in {"find", "join"}
      PROVE  JobsAreSound' /\ HolderIsMid' /\ \E w \in Works, q \in Places : JobIs(c, t, w, q)
  <2>1. PICK w \in Works : w = job[c][t].work
    BY <1>1
  <2>2. JobIs(c, t, w, p)
    BY <1>4, <2>1, JobMoves
  <2>3. t = "closer" => w \in {<<>>, <<"stop">>}
    BY <2>1 DEF JobsAreSound
  <2> QED
    BY <1>4, <2>1, <2>2, <2>3, SoundKept, HolderKept
<1>5. CASE StopLooks(c, t)
  BY <1>2, <1>3, <1>4, <1>5 DEF StopLooks, Doing, Mid, Places
<1>6. CASE StopLocks(c, t)
  BY <1>2, <1>3, <1>4, <1>6 DEF StopLocks, Doing, Mid, Places
<1>7. CASE StopJoined(c, t)
  <2>1. job[c][t].work # <<>> /\ Mid(c, t) /\ Finish(c, t) /\ api' = Free
    BY <1>2, <1>7 DEF StopJoined, Doing, Mid
  <2> QED
    BY <1>3, <2>1
<1>8. CASE StartLocks(c, t)
  BY <1>2, <1>4, <1>8 DEF StartLocks, Doing, Places
<1>9. CASE StartFails(c, t)
  <2>1. job[c][t].work # <<>> /\ Mid(c, t) /\ Finish(c, t) /\ api' = Free
    BY <1>2, <1>9 DEF StartFails, Doing, Mid
  <2> QED
    BY <1>3, <2>1
<1>10. CASE StartLaunches(c, t)
  BY <1>2, <1>4, <1>10 DEF StartLaunches, Doing, Mid, Places
<1>11. CASE StartJoined(c, t)
  <2>1. job[c][t].work # <<>> /\ Mid(c, t) /\ Finish(c, t) /\ api' = Free
    BY <1>2, <1>11 DEF StartJoined, Doing, Mid
  <2> QED
    BY <1>3, <2>1
<1> QED
  BY <1>5, <1>6, <1>7, <1>8, <1>9, <1>10, <1>11 DEF JobSteps

(* Every step keeps the threads sound and the holder the one that finds or joins. *)
LEMMA ThreadsStep ==
  ASSUME CameraTypeOK, JobsAreSound, HolderIsMid, ShutdownIsAlone, CapturesAreOrdered, CameraNext
  PROVE  JobsAreSound' /\ HolderIsMid'
<1>1. UNCHANGED <<job, api>> => JobsAreSound' /\ HolderIsMid'
  BY DEF JobsAreSound, HolderIsMid, Mid
<1>2. CASE ContextSteps
  BY <1>1, <1>2, ContextFrame DEF threadVars
<1>3. CASE StartsThread
  <2>1. CASE UNCHANGED threadVars
    BY <1>1, <1>3, <2>1, StartsThreadFacts DEF threadVars
  <2>2. ASSUME NEW c \in Cameras, Spawned(c) PROVE JobsAreSound' /\ HolderIsMid'
    <3>1. PICK t \in {"a", "b"}, w \in Works \ {<<>>} :
            Done(c, t) /\ job' = [job EXCEPT ![c][t] = [work |-> w, at |-> "begin"]]
      BY <2>2 DEF Spawned
    <3>2. t \in Threads /\ t # "closer" /\ api' = api
      BY <1>3, StartsThreadFacts DEF Threads
    <3> QED
      BY <3>1, <3>2, BeginsAnew
  <2> QED
    BY <1>3, <2>1, <2>2, StartsThreadFacts
<1>4. ASSUME NEW c \in Cameras, QuietSteps(c) PROVE JobsAreSound' /\ HolderIsMid'
  BY <1>1, <1>4, QuietFrame DEF threadVars
<1>5. ASSUME NEW c \in Cameras, ShutdownJoined(c) PROVE JobsAreSound' /\ HolderIsMid'
  <2>1. Done(c, "closer") /\ "closer" \in Threads
    BY <1>5 DEF ShutdownJoined, ShutdownIsAlone, Alone, Threads
  <2>2. PICK w \in Works \ {<<>>} : w = <<"stop">>
    BY WorkFacts DEF Works
  <2>3. job' = [job EXCEPT ![c]["closer"] = [work |-> w, at |-> "begin"]] /\ api' = api
    BY <1>5, <2>2 DEF ShutdownJoined
  <2> QED
    BY <2>1, <2>2, <2>3, BeginsAnew
<1>6. ASSUME NEW c \in Cameras, NEW i \in DOMAIN capture[c], CaptureAny(c, i)
      PROVE  JobsAreSound' /\ HolderIsMid'
  BY <1>1, <1>6, CaptureFrame
<1> QED
  BY <1>2, <1>3, <1>4, <1>5, <1>6, CameraSteps, JobStep

-----------------------------------------------------------------------------
(* Of one camera only the thread that holds device_api_access waits.         *)
LEMMA OneWaiter ==
  ASSUME HolderIsMid, NEW c \in Cameras
  PROVE  /\ \A t \in Threads : Mid(c, t) =>
              /\ Stopping(c) <=> Doing(c, t, "stop", "join")
              /\ Launching(c) <=> Doing(c, t, "start", "join")
              /\ Finding(c) <=> Doing(c, t, "start", "find")
         /\ api = Free => ~Stopping(c) /\ ~Launching(c) /\ ~Finding(c)
<1>1. \A t, u \in Threads : Mid(c, t) /\ Mid(c, u) => t = u
  BY SMT DEF HolderIsMid
<1>2. \A t \in Threads : api = Free => ~Mid(c, t)
  BY SMT DEF HolderIsMid, Free
<1>3. \A t \in Threads : \A what : Doing(c, t, what, "join") \/ Doing(c, t, what, "find") => Mid(c, t)
  BY DEF Doing, Mid
<1> QED
  BY <1>1, <1>2, <1>3, Zenon DEF Stopping, Launching, Finding

(* A step of another thread, or one away from these places, changes nothing. *)
LEMMA WaitersKept ==
  ASSUME NEW c \in Cameras, NEW t \in Threads, NEW w, NEW p, JobIs(c, t, w, p),
         NEW d \in Cameras, d # c \/ (p # "join" /\ job[c][t].at # "join")
  PROVE  (Stopping(d)' <=> Stopping(d)) /\ (Launching(d)' <=> Launching(d))
<1> SUFFICES ASSUME NEW u \in Threads, NEW what
             PROVE  Doing(d, u, what, "join")' <=> Doing(d, u, what, "join")
  BY Zenon DEF Stopping, Launching
<1>1. CASE d = c /\ u = t
  BY <1>1 DEF JobIs, Doing
<1>2. CASE d # c \/ u # t
  BY <1>2 DEF JobIs, Doing
<1> QED
  BY <1>1, <1>2

(* The one that waits, when its step leads there or away.                    *)
LEMMA WaiterMoves ==
  ASSUME HolderIsMid, NEW c \in Cameras, NEW t \in Threads, NEW w, NEW p, JobIs(c, t, w, p),
         api = Free \/ Mid(c, t)
  PROVE  /\ Stopping(c)' <=> w # <<>> /\ Head(w) = "stop" /\ p = "join"
         /\ Launching(c)' <=> w # <<>> /\ Head(w) = "start" /\ p = "join"
         /\ Finding(c)' <=> w # <<>> /\ Head(w) = "start" /\ p = "find"
<1>1. ASSUME NEW u \in Threads, u # t, NEW what PROVE ~Doing(c, u, what, "join")' /\ ~Doing(c, u, what, "find")'
  <2>1. ~Mid(c, u)
    BY <1>1, SMT DEF HolderIsMid, Free
  <2>2. job'[c][u] = job[c][u]
    BY <1>1 DEF JobIs
  <2> QED
    BY <2>1, <2>2 DEF Doing, Mid
<1>2. ASSUME NEW what, NEW q
      PROVE  Doing(c, t, what, q)' <=> w # <<>> /\ Head(w) = what /\ p = q
  BY Zenon DEF JobIs, Doing
<1> QED
  BY <1>1, <1>2, Zenon DEF Stopping, Launching, Finding

-----------------------------------------------------------------------------
(* The order of the capture threads.                                         *)
LEMMA CaptureEmpty ==
  ASSUME CameraTypeOK, NEW c \in Cameras
  PROVE  capture[c] = <<>> <=> Len(capture[c]) = 0
<1>1. capture[c] \in Seq(Captures)
  BY DEF CameraTypeOK
<1> QED
  BY <1>1, EmptySeq

(* The order of the captures of a camera depends on nothing else. *)
LEMMA OrderedFrame ==
  ASSUME NEW d \in Cameras, Ordered(d), capture'[d] = capture[d], handle'[d] = handle[d],
         Stopping(d)' <=> Stopping(d), Launching(d)' <=> Launching(d)
  PROVE  Ordered(d)'
  BY DEF Ordered

(* What the step of a thread of the device does to the capture threads.      *)
LEMMA JobCapture ==
  ASSUME NEW c \in Cameras, NEW t \in Threads, JobSteps(c, t)
  PROVE  /\ \/ UNCHANGED capture
            \/ capture' = [capture EXCEPT ![c] = RequestStop(@)]
            \/ capture' = [capture EXCEPT ![c] = Append(RequestStop(@), New)]
         /\ \/ UNCHANGED handle
            \/ handle' = [handle EXCEPT ![c] = TRUE]
            \/ handle' = [handle EXCEPT ![c] = FALSE]
  BY DEF JobSteps, StopLooks, StopLocks, StopJoined, StartLocks, StartFails,
     StartLaunches, StartJoined, captureVars, New

(* One step of a thread of the device.                                       *)
LEMMA OrderedByJob ==
  ASSUME CameraTypeOK, CameraTypeOK', JobsAreSound, HolderIsMid, CapturesAreOrdered,
         NEW c \in Cameras, NEW t \in Threads, JobSteps(c, t), NEW d \in Cameras
  PROVE  Ordered(d)'
<1>1. Ordered(c) /\ Ordered(d)
  BY DEF CapturesAreOrdered
<1>2. PICK w \in Works, p \in Places : JobIs(c, t, w, p)
  BY JobStep
<1>3. CASE d # c
  <2>1. capture'[d] = capture[d]
    BY <1>3, JobCapture, CaptureStops DEF OthersCapture
  <2>2. handle \in [Cameras -> BOOLEAN]
    BY DEF CameraTypeOK
  <2>3. handle'[d] = handle[d]
    BY <1>3, <2>2, JobCapture
  <2> QED
    BY <1>1, <1>2, <1>3, <2>1, <2>3, WaitersKept, OrderedFrame
<1> SUFFICES ASSUME d = c PROVE Ordered(c)'
  BY <1>3
<1>4. ASSUME NEW v, NEW q, JobIs(c, t, v, q), q # "join", job[c][t].at # "join",
             UNCHANGED <<capture, handle>>
      PROVE  Ordered(c)'
  BY <1>1, <1>4, WaitersKept, OrderedFrame
<1>5. /\ Finish(c, t) /\ job[c][t].work # <<>> => JobIs(c, t, Tail(job[c][t].work), "begin")
      /\ \A q \in Places : GoTo(c, t, q) /\ job[c][t].work # <<>>
           => JobIs(c, t, job[c][t].work, q)
  BY JobMoves
<1>6. CASE StopLooks(c, t)
  <2>1. /\ job[c][t].work # <<>> /\ job[c][t].at = "begin"
        /\ GoTo(c, t, "lock") \/ Finish(c, t)
        /\ UNCHANGED <<capture, handle>>
    BY <1>6 DEF StopLooks, Doing, captureVars
  <2>2. JobIs(c, t, job[c][t].work, "lock") \/ JobIs(c, t, Tail(job[c][t].work), "begin")
    BY <1>5, <2>1 DEF Places
  <2> QED
    BY <1>4, <2>1, <2>2
<1>7. CASE StopLocks(c, t)
  <2>1. CASE ~handle[c]
    <3>1. /\ job[c][t].work # <<>> /\ job[c][t].at = "lock"
          /\ Finish(c, t) /\ UNCHANGED <<capture, handle>>
      BY <1>7, <2>1 DEF StopLocks, Doing
    <3> QED
      BY <1>4, <1>5, <3>1
  <2>2. CASE handle[c]
    <3>1. JobIs(c, t, job[c][t].work, "join") /\ Head(job[c][t].work) = "stop"
          /\ job[c][t].work # <<>> /\ api = Free /\ UNCHANGED handle
          /\ capture' = [capture EXCEPT ![c] = RequestStop(@)]
      BY <1>5, <1>7, <2>2 DEF StopLocks, Doing, Places
    <3>2. ~Launching(c) /\ Stopping(c)' /\ ~Launching(c)'
      BY <3>1, OneWaiter, WaiterMoves
    <3>3. Len(capture'[c]) = Len(capture[c])
      BY <3>1, CaptureStops
    <3> QED
      BY <1>1, <2>2, <3>1, <3>2, <3>3 DEF Ordered
  <2> QED
    BY <2>1, <2>2
<1>8. CASE StopJoined(c, t)
  <2>1. JobIs(c, t, Tail(job[c][t].work), "begin") /\ Mid(c, t) /\ capture'[c] = <<>>
    BY <1>5, <1>8 DEF StopJoined, Doing, Mid
  <2>2. ~Launching(c)' /\ Len(capture'[c]) = 0
    BY <2>1, WaiterMoves, EmptySeq
  <2> QED
    BY <2>1, <2>2 DEF Ordered
<1>9. CASE StartLocks(c, t)
  <2>1. /\ job[c][t].work # <<>> /\ job[c][t].at = "begin"
        /\ GoTo(c, t, "find") /\ UNCHANGED <<capture, handle>>
    BY <1>9 DEF StartLocks, Doing, captureVars
  <2> QED
    BY <1>4, <1>5, <2>1 DEF Places
<1>10. CASE StartFails(c, t)
  <2>1. /\ job[c][t].work # <<>> /\ job[c][t].at = "find"
        /\ Finish(c, t) /\ UNCHANGED <<capture, handle>>
    BY <1>10 DEF StartFails, Doing, captureVars
  <2> QED
    BY <1>4, <1>5, <2>1
<1>11. CASE StartLaunches(c, t)
  <2>1. JobIs(c, t, job[c][t].work, "join") /\ Head(job[c][t].work) = "start"
        /\ job[c][t].work # <<>> /\ Mid(c, t) /\ Doing(c, t, "start", "find")
        /\ capture' = [capture EXCEPT ![c] = Append(RequestStop(@), New)]
        /\ handle'[c]
    BY <1>5, <1>11 DEF StartLaunches, Doing, Mid, Places, New, CameraTypeOK
  <2>2. ~Launching(c) /\ Launching(c)'
    <3>1. ~Doing(c, t, "start", "join")
      BY <2>1 DEF Doing
    <3> QED
      BY <2>1, <3>1, OneWaiter, WaiterMoves
  <2>3. /\ Len(capture'[c]) = Len(capture[c]) + 1
        /\ capture'[c][Len(capture[c]) + 1] = New
    BY <2>1, CaptureStops
  <2>4. Len(capture[c]) \in 0..1
    <3>1. Len(capture[c]) \in 0..2 /\ Len(capture[c]) # 2
      BY <1>1, <2>2 DEF Ordered
    <3>2. \A n \in 0..2 : n # 2 => n \in 0..1
      OBVIOUS
    <3> QED
      BY <3>1, <3>2, Zenon
  <2>5. Len(capture'[c]) \in 1..2 /\ capture'[c][Len(capture'[c])] = New
    <3>1. \A n \in 0..1 : n + 1 \in 1..2
      OBVIOUS
    <3> QED
      BY <2>3, <2>4, <3>1, Zenon
  <2>6. New.at # "loop" /\ ~New.stop
    BY DEF New
  <2>7. Len(capture'[c]) \in 0..2 /\ Len(capture'[c]) # 0
    <3>1. \A n \in 1..2 : n \in 0..2 /\ n # 0
      OBVIOUS
    <3> QED
      BY <2>5, <3>1, Zenon
  <2> QED
    BY <2>1, <2>2, <2>5, <2>6, <2>7, Zenon DEF Ordered
<1>12. CASE StartJoined(c, t)
  <2>1. JobIs(c, t, Tail(job[c][t].work), "begin") /\ Mid(c, t) /\ Len(capture[c]) = 1
        /\ Doing(c, t, "start", "join") /\ UNCHANGED <<capture, handle>>
    BY <1>5, <1>12 DEF StartJoined, Doing, Mid, captureVars
  <2>2. Launching(c) /\ ~Launching(c)'
    BY <2>1, WaiterMoves, OneWaiter
  <2>3. ~capture[c][1].stop
    BY <1>1, <2>1, <2>2 DEF Ordered
  <2>4. \A i \in 1..Len(capture[c]) : ~capture[c][i].stop
    BY <2>1, <2>3
  <2>5. Len(capture'[c]) \in 0..2 /\ Len(capture'[c]) # 2
    <3>1. \A n : n = 1 => n \in 0..2 /\ n # 2
      OBVIOUS
    <3> QED
      BY <2>1, <3>1, Zenon
  <2> QED
    BY <1>1, <2>1, <2>2, <2>4, <2>5, Zenon DEF Ordered
<1> QED
  BY <1>3, <1>6, <1>7, <1>8, <1>9, <1>10, <1>11, <1>12 DEF JobSteps

(* One step of a capture thread.                                             *)
LEMMA OrderedByCapture ==
  ASSUME CameraTypeOK, CameraTypeOK', HolderIsMid, CapturesAreOrdered,
         NEW c \in Cameras, NEW i \in DOMAIN capture[c], CaptureAny(c, i), NEW d \in Cameras
  PROVE  Ordered(d)'
<1>1. Ordered(c) /\ Ordered(d) /\ i \in 1..Len(capture[c]) /\ Len(capture[c]) \in 0..2
  BY CaptureType DEF CapturesAreOrdered, Ordered
<1>2. UNCHANGED <<job, handle, api>>
  BY CaptureFrame
<1>3. (Stopping(d)' <=> Stopping(d)) /\ (Launching(d)' <=> Launching(d))
  BY <1>2 DEF Stopping, Launching, Doing
<1>4. CASE d # c \/ UNCHANGED capture
  <2>1. capture'[d] = capture[d]
    BY <1>1, <1>4, CaptureEffects DEF Moved, Ended, OthersCapture
  <2> QED
    BY <1>1, <1>2, <1>3, <2>1, OrderedFrame
<1>5. CASE d = c /\ Ended(c, i)
  <2>1. /\ Len(capture'[c]) = Len(capture[c]) - 1
        /\ Len(capture[c]) = 2 => capture'[c][1] = capture[c][3 - i]
    BY <1>5 DEF Ended
  <2>2. CASE Launching(c)
    <3>1. capture[c][i].at = "loop"
      BY <1>1, <2>2, <1>5, CaptureEffects, OneWaiter DEF Moved, Ended
    <3>2. i # Len(capture[c])
      BY <1>1, <2>2, <3>1 DEF Ordered
    <3>3. Len(capture[c]) = 2 /\ i = 1
      <4>1. \A n \in 0..2 : \A k \in 1..n : k # n => n = 2 /\ k = 1
        OBVIOUS
      <4> QED
        BY <1>1, <3>2, <4>1, Zenon
    <3>4. Len(capture'[c]) = 1 /\ capture'[c][1] = capture[c][2]
      BY <2>1, <3>3
    <3>5. capture[c] # <<>>
      BY <3>3, CaptureEmpty
    <3> QED
      BY <1>1, <1>2, <1>3, <1>5, <2>2, <3>3, <3>4, <3>5 DEF Ordered
  <2>3. CASE ~Launching(c)
    <3>1. Len(capture[c]) = 1
      BY <1>1, <2>3 DEF Ordered
    <3>2. Len(capture'[c]) = 0 /\ capture[c] # <<>>
      BY <2>1, <3>1, CaptureEmpty
    <3> QED
      BY <1>1, <1>2, <1>3, <1>5, <2>3, <3>2 DEF Ordered
  <2> QED
    BY <2>2, <2>3
<1>6. CASE d = c /\ Moved(c, i, "init", sensor[c])
  BY <1>1, <1>2, <1>3, <1>6, CaptureEmpty DEF Moved, Ordered
<1>7. CASE d = c /\ Moved(c, i, "loop", capture[c][i].kind) /\ api = Free
  BY <1>1, <1>2, <1>3, <1>7, CaptureEmpty, OneWaiter DEF Moved, Ordered
<1> QED
  BY <1>1, <1>4, <1>5, <1>6, <1>7, CaptureEffects

(* Every step keeps the captures ordered. *)
LEMMA CapturesStep ==
  ASSUME CameraTypeOK, CameraTypeOK', JobsAreSound, HolderIsMid, CapturesAreOrdered,
         ShutdownIsAlone, CameraNext
  PROVE  CapturesAreOrdered'
<1> SUFFICES ASSUME NEW d \in Cameras PROVE Ordered(d)'
  BY DEF CapturesAreOrdered
<1>1. Ordered(d)
  BY DEF CapturesAreOrdered
<1>2. UNCHANGED <<job, capture, handle>> => Ordered(d)'
  BY <1>1, OrderedFrame DEF Stopping, Launching, Doing
<1>3. CASE ContextSteps
  BY <1>2, <1>3, ContextFrame DEF threadVars, captureVars
<1>4. ASSUME UNCHANGED <<capture, handle, api>>, NEW c \in Cameras, NEW t \in Threads, Done(c, t),
             NEW w \in Works \ {<<>>}, t = "closer" => w = <<"stop">>,
             job' = [job EXCEPT ![c][t] = [work |-> w, at |-> "begin"]]
      PROVE  Ordered(d)'
  <2>1. JobIs(c, t, w, "begin")
    BY <1>4, BeginsAnew
  <2>2. job[c][t].at # "join"
    BY <1>4 DEF JobsAreSound, Done
  <2> QED
    BY <1>1, <1>4, <2>1, <2>2, WaitersKept, OrderedFrame
<1>5. CASE StartsThread
  <2>1. UNCHANGED <<capture, handle, api>>
    BY <1>5, StartsThreadFacts DEF captureVars
  <2>2. CASE UNCHANGED threadVars
    BY <1>2, <2>1, <2>2 DEF threadVars
  <2>3. ASSUME NEW c \in Cameras, Spawned(c) PROVE Ordered(d)'
    <3>1. PICK t \in {"a", "b"}, w \in Works \ {<<>>} :
            Done(c, t) /\ job' = [job EXCEPT ![c][t] = [work |-> w, at |-> "begin"]]
      BY <2>3 DEF Spawned
    <3> QED
      BY <1>4, <2>1, <3>1 DEF Threads
  <2> QED
    BY <1>5, <2>2, <2>3, StartsThreadFacts
<1>6. ASSUME NEW c \in Cameras, QuietSteps(c) PROVE Ordered(d)'
  BY <1>2, <1>6, QuietFrame DEF threadVars
<1>7. ASSUME NEW c \in Cameras, ShutdownJoined(c) PROVE Ordered(d)'
  <2>1. Done(c, "closer") /\ "closer" \in Threads /\ UNCHANGED <<capture, handle, api>>
    BY <1>7 DEF ShutdownJoined, ShutdownIsAlone, Alone, Threads, captureVars
  <2>2. PICK w \in Works \ {<<>>} : w = <<"stop">>
    BY WorkFacts DEF Works
  <2>3. job' = [job EXCEPT ![c]["closer"] = [work |-> w, at |-> "begin"]]
    BY <1>7, <2>2 DEF ShutdownJoined
  <2> QED
    BY <1>4, <2>1, <2>2, <2>3
<1> QED
  BY <1>3, <1>5, <1>6, <1>7, CameraSteps, OrderedByJob, OrderedByCapture

-----------------------------------------------------------------------------
(* The status.                                                               *)
LEMMA KeptFrame ==
  ASSUME NEW d \in Cameras, Kept(d),
         capture'[d] = <<>> <=> capture[d] = <<>>, running'[d] <=> running[d],
         leaky[d] => leaky'[d], seen[d] # "none" => seen'[d] # "none",
         error[d] => error'[d] \/ seen'[d] # "none",
         Stopping(d) => Stopping(d)', Finding(d) => Finding(d)', Launching(d) => Launching(d)'
  PROVE  Kept(d)'
  BY Zenon DEF Kept

(* A step of a thread that neither finds nor joins leaves the waiting threads waiting. *)
LEMMA WaitersStay ==
  ASSUME NEW c \in Cameras, NEW t \in Threads, NEW w, NEW p, JobIs(c, t, w, p),
         NEW d \in Cameras, d # c \/ ~Mid(c, t)
  PROVE  /\ Stopping(d) => Stopping(d)'
         /\ Finding(d) => Finding(d)'
         /\ Launching(d) => Launching(d)'
<1> SUFFICES ASSUME NEW u \in Threads, NEW what, NEW at \in {"join", "find"}
             PROVE  Doing(d, u, what, at) => Doing(d, u, what, at)'
  BY Zenon DEF Stopping, Launching, Finding
<1>1. CASE d = c /\ u = t
  BY <1>1 DEF Doing, Mid
<1>2. CASE d # c \/ u # t
  BY <1>2 DEF JobIs, Doing
<1> QED
  BY <1>1, <1>2

(* A start or a stop keeps the status the one its captures justify. *)
LEMMA StatusByJob ==
  ASSUME CameraTypeOK, CameraTypeOK', JobsAreSound, HolderIsMid, CapturesAreOrdered,
         StatusIsKept, NEW c \in Cameras, NEW t \in Threads, JobSteps(c, t), NEW d \in Cameras
  PROVE  Kept(d)'
<1>1. Kept(c) /\ Kept(d)
  BY DEF StatusIsKept
<1>2. PICK w \in Works, p \in Places : JobIs(c, t, w, p)
  BY JobStep
<1>3. /\ Finish(c, t) /\ job[c][t].work # <<>> => JobIs(c, t, Tail(job[c][t].work), "begin")
      /\ \A q \in Places : GoTo(c, t, q) /\ job[c][t].work # <<>>
           => JobIs(c, t, job[c][t].work, q)
  BY JobMoves
<1>4. CASE d # c
  <2>1. capture'[d] = capture[d]
    BY <1>4, JobCapture, CaptureStops DEF OthersCapture
  <2>2. running'[d] = running[d] /\ leaky'[d] = leaky[d] /\ error'[d] = error[d] /\ seen'[d] = seen[d]
    <3>1. CASE StopLooks(c, t) \/ StopLocks(c, t) \/ StopJoined(c, t)
      BY <1>4, <3>1 DEF StopLooks, StopLocks, StopJoined, statusVars, CameraTypeOK
    <3>2. CASE StartLocks(c, t) \/ StartFails(c, t)
      BY <1>4, <3>2 DEF StartLocks, StartFails, Leak, CameraTypeOK
    <3>3. CASE StartLaunches(c, t) \/ StartJoined(c, t)
      BY <1>4, <3>3 DEF StartLaunches, StartJoined, statusVars, CameraTypeOK
    <3> QED
      BY <3>1, <3>2, <3>3 DEF JobSteps
  <2> QED
    BY <1>1, <1>2, <1>4, <2>1, <2>2, WaitersStay, KeptFrame
<1> SUFFICES ASSUME d = c PROVE Kept(c)'
  BY <1>4
<1>5. ASSUME ~Mid(c, t), UNCHANGED <<capture, running, leaky, error, seen>> PROVE Kept(c)'
  BY <1>1, <1>2, <1>5, WaitersStay, KeptFrame
<1>6. CASE StopLooks(c, t)
  BY <1>5, <1>6 DEF StopLooks, Doing, Mid, captureVars, statusVars
<1>7. CASE StopLocks(c, t)
  <2>1. CASE ~handle[c]
    BY <1>5, <1>7, <2>1 DEF StopLocks, Doing, Mid, statusVars
  <2>2. CASE handle[c]
    <3>1. JobIs(c, t, job[c][t].work, "join") /\ Head(job[c][t].work) = "stop"
          /\ job[c][t].work # <<>> /\ api = Free /\ UNCHANGED <<running, leaky>>
          /\ capture' = [capture EXCEPT ![c] = RequestStop(@)]
      BY <1>3, <1>7, <2>2 DEF StopLocks, Doing, Places, statusVars
    <3>2. ~Finding(c) /\ ~Launching(c) /\ Stopping(c)'
      BY <3>1, OneWaiter, WaiterMoves
    <3>3. Len(capture'[c]) = Len(capture[c])
      BY <3>1, CaptureStops
    <3>4. capture'[c] = <<>> <=> capture[c] = <<>>
      <4>1. capture[c] = <<>> <=> Len(capture[c]) = 0
        BY CaptureEmpty
      <4>2. capture'[c] = <<>> <=> Len(capture'[c]) = 0
        BY EmptySeq DEF CameraTypeOK
      <4> QED
        BY <3>3, <4>1, <4>2
    <3> QED
      BY <1>1, <3>1, <3>2, <3>4 DEF Kept
  <2> QED
    BY <2>1, <2>2
<1>8. CASE StopJoined(c, t)
  <2>1. capture'[c] = <<>> /\ ~running'[c]
    BY <1>8 DEF StopJoined, CameraTypeOK
  <2> QED
    BY <2>1 DEF Kept
<1>9. CASE StartLocks(c, t)
  <2>1. JobIs(c, t, job[c][t].work, "find") /\ Head(job[c][t].work) = "start"
        /\ job[c][t].work # <<>> /\ api = Free /\ ~running'[c]
    BY <1>3, <1>9 DEF StartLocks, Doing, Places, CameraTypeOK
  <2>2. Finding(c)'
    BY <2>1, WaiterMoves
  <2> QED
    BY <2>1, <2>2 DEF Kept
<1>10. CASE StartFails(c, t)
  <2>1. error'[c] /\ (capture'[c] # <<>> => leaky'[c])
    BY <1>10 DEF StartFails, Leak, CameraTypeOK, captureVars
  <2> QED
    BY <2>1 DEF Kept
<1>11. CASE StartLaunches(c, t)
  <2>1. JobIs(c, t, job[c][t].work, "join") /\ Head(job[c][t].work) = "start"
        /\ job[c][t].work # <<>> /\ Mid(c, t)
        /\ capture' = [capture EXCEPT ![c] = Append(RequestStop(@), New)]
    BY <1>3, <1>11 DEF StartLaunches, Doing, Mid, Places, New
  <2>2. Launching(c)'
    BY <2>1, WaiterMoves
  <2>3. Launching(c)' => capture'[c] # <<>>
    <3>1. Len(capture'[c]) = Len(capture[c]) + 1 /\ Len(capture[c]) \in Nat
      BY <2>1, CaptureStops, CaptureType
    <3>2. Len(capture'[c]) # 0
      BY <3>1
    <3> QED
      BY <3>2, EmptySeq DEF CameraTypeOK
  <2> QED
    BY <2>2, <2>3 DEF Kept
<1>12. CASE StartJoined(c, t)
  <2>1. running'[c] /\ capture' = capture /\ Len(capture[c]) = 1
    BY <1>12 DEF StartJoined, CameraTypeOK, captureVars
  <2>2. capture[c] = <<>> <=> Len(capture[c]) = 0
    BY CaptureEmpty
  <2>3. capture'[c] # <<>>
    BY <2>1, <2>2
  <2> QED
    BY <2>1, <2>3 DEF Kept
<1> QED
  BY <1>6, <1>7, <1>8, <1>9, <1>10, <1>11, <1>12 DEF JobSteps

(* A capture keeps the status the one its captures justify. *)
LEMMA StatusByCapture ==
  ASSUME CameraTypeOK, CameraTypeOK', HolderIsMid, CapturesAreOrdered, StatusIsKept,
         NEW c \in Cameras, NEW i \in DOMAIN capture[c], CaptureAny(c, i), NEW d \in Cameras
  PROVE  Kept(d)'
<1>1. Ordered(c) /\ Kept(c) /\ Kept(d) /\ i \in 1..Len(capture[c]) /\ Len(capture[c]) \in 0..2
  BY CaptureType DEF CapturesAreOrdered, Ordered, StatusIsKept
<1>2. UNCHANGED <<job, running>>
  BY CaptureFrame
<1>3. /\ Stopping(d)' <=> Stopping(d)
      /\ Finding(d)' <=> Finding(d)
      /\ Launching(d)' <=> Launching(d)
  BY <1>2 DEF Stopping, Finding, Launching, Doing
<1>4. leaky[d] => leaky'[d]
  <2>1. UNCHANGED leaky \/ leaky' = [leaky EXCEPT ![c] = TRUE]
    BY <1>1, CaptureEffects, Zenon
  <2>2. leaky \in [Cameras -> BOOLEAN]
    BY DEF CameraTypeOK
  <2> QED
    BY <2>1, <2>2
<1>5. CASE d # c
  <2>1. capture'[d] = capture[d]
    <3>1. UNCHANGED capture \/ OthersCapture(c)
      BY <1>1, CaptureEffects DEF Moved, Ended
    <3> QED
      BY <1>5, <3>1 DEF OthersCapture
  <2>3. error'[d] = error[d]
    <3>1. UNCHANGED error \/ error' = [error EXCEPT ![c] = TRUE]
      BY <1>1, CaptureEffects, Zenon
    <3>2. error \in [Cameras -> BOOLEAN]
      BY DEF CameraTypeOK
    <3> QED
      BY <1>5, <3>1, <3>2
  <2>2. seen'[d] = seen[d]
    <3>1. UNCHANGED seen \/ seen' = [seen EXCEPT ![c] = "fresh"] \/ seen' = [seen EXCEPT ![c] = "none"]
      BY DEF CaptureAny, CaptureSteps, Dispatch, RgbdStarts, LidarStarts, Initialises, RgbdStops,
         LidarStops, RgbdFrame, LidarFrame, CaptureThrows, statusVars
    <3>2. seen \in [Cameras -> {"none", "fresh", "stale"}]
      BY DEF CameraTypeOK
    <3> QED
      BY <1>5, <3>1, <3>2
  <2> QED
    BY <1>1, <1>2, <1>3, <1>4, <1>5, <2>1, <2>2, <2>3, KeptFrame
<1> SUFFICES ASSUME d = c PROVE Kept(c)'
  BY <1>5
<1>6. capture[c] # <<>>
  <2>1. Len(capture[c]) # 0
    BY <1>1
  <2>2. capture[c] = <<>> <=> Len(capture[c]) = 0
    BY CaptureEmpty
  <2> QED
    BY <2>1, <2>2
<1>7. running'[c] \/ leaky'[c] \/ Finding(c)' \/ Launching(c)'
  BY <1>1, <1>2, <1>3, <1>4, <1>6 DEF Kept
<1>8. CASE error'[c]
  BY <1>7, <1>8 DEF Kept
<1>9. CASE capture'[c] # <<>>
  BY <1>7, <1>9 DEF Kept
<1>10. CASE Ended(c, i) /\ capture[c][i].stop /\ capture'[c] = <<>>
  <2>1. Len(capture[c]) = 1
    <3>1. Len(capture'[c]) = 0
      BY <1>10, EmptySeq
    <3>2. Len(capture'[c]) = Len(capture[c]) - 1
      BY <1>10 DEF Ended
    <3>3. \A n \in 0..2 : 0 = n - 1 => n = 1
      OBVIOUS
    <3> QED
      BY <1>1, <3>1, <3>2, <3>3, Zenon
  <2>2. i = Len(capture[c])
    BY <1>1, <2>1
  <2>3. Stopping(c)
    BY <1>1, <1>10, <2>2 DEF Ordered
  <2> QED
    BY <1>3, <1>7, <2>3 DEF Kept
<1>11. \/ error'[c]
       \/ Ended(c, i) /\ capture[c][i].stop
       \/ Len(capture'[c]) = Len(capture[c])
  <2>1. \/ UNCHANGED capture \/ Len(capture'[c]) = Len(capture[c])
        \/ error' = [error EXCEPT ![c] = TRUE] \/ (Ended(c, i) /\ capture[c][i].stop)
    BY <1>1, CaptureEffects, Zenon DEF Moved
  <2>2. error \in [Cameras -> BOOLEAN]
    BY DEF CameraTypeOK
  <2> QED
    BY <2>1, <2>2
<1>12. Len(capture'[c]) = Len(capture[c]) => capture'[c] # <<>>
  BY <1>6, CaptureEmpty, EmptySeq
<1> QED
  BY <1>8, <1>9, <1>10, <1>11, <1>12

(* Every step keeps the status the one its captures justify. *)
LEMMA StatusStep ==
  ASSUME CameraTypeOK, CameraTypeOK', JobsAreSound, HolderIsMid, CapturesAreOrdered,
         StatusIsKept, ShutdownIsAlone, CameraNext
  PROVE  StatusIsKept'
<1> SUFFICES ASSUME NEW d \in Cameras PROVE Kept(d)'
  BY DEF StatusIsKept
<1>1. Kept(d)
  BY DEF StatusIsKept
<1>2. ASSUME UNCHANGED <<job, capture, running>>, leaky[d] => leaky'[d],
             seen[d] # "none" => seen'[d] # "none", error[d] => error'[d] \/ seen'[d] # "none"
      PROVE  Kept(d)'
  BY <1>1, <1>2, KeptFrame DEF Stopping, Finding, Launching, Doing
<1>3. CASE ContextSteps
  BY <1>2, <1>3, ContextFrame DEF threadVars, captureVars, statusVars
<1>4. ASSUME UNCHANGED <<capture, api, statusVars>>, leaky[d] => leaky'[d],
             NEW c \in Cameras, NEW t \in Threads, Done(c, t),
             NEW w \in Works \ {<<>>}, t = "closer" => w = <<"stop">>,
             job' = [job EXCEPT ![c][t] = [work |-> w, at |-> "begin"]]
      PROVE  Kept(d)'
  <2>1. JobIs(c, t, w, "begin")
    BY <1>4, BeginsAnew
  <2>2. ~Mid(c, t)
    BY <1>4 DEF JobsAreSound, Done, Mid
  <2>3. UNCHANGED <<running, error, seen>>
    BY <1>4 DEF statusVars
  <2> QED
    BY <1>1, <1>4, <2>1, <2>2, <2>3, WaitersStay, KeptFrame
<1>5. CASE StartsThread
  <2>1. UNCHANGED <<capture, api, statusVars>>
    BY <1>5, StartsThreadFacts DEF captureVars
  <2>2. CASE UNCHANGED threadVars
    BY <1>2, <2>1, <2>2 DEF threadVars, statusVars
  <2>3. ASSUME NEW c \in Cameras, Spawned(c) PROVE Kept(d)'
    <3>1. PICK t \in {"a", "b"}, w \in Works \ {<<>>} :
            Done(c, t) /\ job' = [job EXCEPT ![c][t] = [work |-> w, at |-> "begin"]]
      BY <2>3 DEF Spawned
    <3>2. leaky[d] => leaky'[d]
      BY <2>3 DEF Spawned, CameraTypeOK
    <3> QED
      BY <1>4, <2>1, <3>1, <3>2 DEF Threads
  <2> QED
    BY <1>5, <2>2, <2>3, StartsThreadFacts
<1>6. ASSUME NEW c \in Cameras, QuietSteps(c) PROVE Kept(d)'
  <2>1. UNCHANGED <<job, capture, running, leaky>>
    BY <1>6, QuietFrame DEF threadVars
  <2>2. seen[d] # "none" => seen'[d] # "none"
    <3>1. \/ UNCHANGED seen \/ seen' = [seen EXCEPT ![c] = "fresh"]
          \/ seen' = [seen EXCEPT ![c] = "stale"]
      BY <1>6 DEF QuietSteps, Shutdown, ShutdownStopped, ShutdownEnds, TaskEnds, Silence,
         WatchTimesOut, WatchRecovers, WatchEnds, statusVars
    <3>2. seen \in [Cameras -> {"none", "fresh", "stale"}]
      BY DEF CameraTypeOK
    <3> QED
      BY <3>1, <3>2
  <2>3. error[d] => error'[d] \/ seen'[d] # "none"
    <3>1. error \in [Cameras -> BOOLEAN]
      BY DEF CameraTypeOK
    <3>2. CASE WatchRecovers(c)
      BY <3>1, <3>2 DEF WatchRecovers
    <3>3. CASE WatchTimesOut(c)
      BY <3>1, <3>3 DEF WatchTimesOut
    <3>4. ~WatchRecovers(c) /\ ~WatchTimesOut(c) => UNCHANGED error
      BY <1>6 DEF QuietSteps, Shutdown, ShutdownStopped, ShutdownEnds, TaskEnds, Silence,
         WatchEnds, statusVars
    <3> QED
      BY <3>2, <3>3, <3>4
  <2> QED
    BY <1>2, <2>1, <2>2, <2>3
<1>7. ASSUME NEW c \in Cameras, ShutdownJoined(c) PROVE Kept(d)'
  <2>1. Done(c, "closer") /\ "closer" \in Threads /\ UNCHANGED <<capture, api, statusVars>>
    BY <1>7 DEF ShutdownJoined, ShutdownIsAlone, Alone, Threads, captureVars
  <2>2. PICK w \in Works \ {<<>>} : w = <<"stop">>
    BY WorkFacts DEF Works
  <2>3. job' = [job EXCEPT ![c]["closer"] = [work |-> w, at |-> "begin"]]
    BY <1>7, <2>2 DEF ShutdownJoined
  <2>4. leaky[d] => leaky'[d]
    BY <1>7 DEF ShutdownJoined, Leak, CameraTypeOK
  <2> QED
    BY <1>4, <2>1, <2>2, <2>3, <2>4
<1> QED
  BY <1>3, <1>5, <1>6, <1>7, CameraSteps, StatusByJob, StatusByCapture

-----------------------------------------------------------------------------
(* Discovery.                                                                *)
LEMMA DiscoveryFrame ==
  ASSUME ChangeIsAsked, UNCHANGED <<contextVars, discoveryVars>>,
         \A c \in Cameras : closing[c] = "absent" => closing'[c] = "absent"
  PROVE  ChangeIsAsked'
  BY DEF ChangeIsAsked, contextVars, discoveryVars

(* The shared context keeps every unlisted change of the hardware asked for. *)
LEMMA DiscoveryByContext ==
  ASSUME CameraTypeOK, ChangeIsAsked, ContextSteps
  PROVE  ChangeIsAsked'
<1>1. UNCHANGED closing
  BY ContextFrame DEF lifeVars
<1>2. asked \in Nat /\ plugs \in Nat /\ listed \in Nat /\ unread \in Nat
      /\ discovery \in Discoveries
  BY DEF CameraTypeOK
<1>3. CASE Enqueue
  <2>1. PICK cb \in unsent :
          /\ unsent' = unsent \ {cb}
          /\ waiting' = waiting \cup {cb}
          /\ UNCHANGED <<context, draining, discoveryVars>>
    BY <1>3 DEF Enqueue
  <2>2. "discover" \in unsent \cup waiting => "discover" \in unsent' \cup waiting'
    BY <2>1
  <2>3. UNCHANGED <<plugs, listed, unread, asked, refused, discovery>>
    BY <2>1 DEF discoveryVars
  <2> QED
    BY <1>1, <2>2, <2>3, Zenon DEF ChangeIsAsked
<1>4. CASE ContextReady \/ ContextFails
  BY <1>1, <1>4 DEF ContextReady, ContextFails, ChangeIsAsked, discoveryVars
<1>5. CASE Plug
  <2>1. asked' > 0 /\ listed' < plugs' /\ unread' < plugs'
    BY <1>2, <1>5 DEF Plug, ChangeIsAsked
  <2>2. UNCHANGED discovery /\ (discovery \in Answers => discovery[2] <= plugs')
    <3>1. discovery \in Answers => discovery[2] \in Nat
      BY DEF Answers
    <3> QED
      BY <1>2, <1>5, <3>1 DEF Plug, ChangeIsAsked
  <2>3. listed' # plugs' /\ unread' # plugs' /\ listed' <= plugs' /\ unread' <= plugs'
    BY <1>2, <1>5, <2>1 DEF Plug
  <2> QED
    BY <2>1, <2>2, <2>3, Zenon DEF ChangeIsAsked
<1>6. CASE Discover
  <2>1. refused' \/ discovery' = <<"query">>
    BY <1>6 DEF Discover
  <2>2. <<"query">> \notin Answers
    BY SMT DEF Answers
  <2>3. /\ discovery' = discovery \/ discovery' \notin Answers
        /\ UNCHANGED <<plugs, listed, unread>>
    BY <1>6, <2>2 DEF Discover
  <2> QED
    BY <2>1, <2>3, Zenon DEF ChangeIsAsked
<1>7. CASE Query
  <2>1. /\ discovery' \in Answers /\ discovery'[2] = plugs
        /\ UNCHANGED <<plugs, listed, unread>>
    BY <1>2, <1>7 DEF Query, Answers
  <2>2. plugs <= plugs
    BY <1>2
  <2> QED
    BY <2>1, <2>2 DEF ChangeIsAsked
<1>8. CASE Publish
  <2>1. discovery # <<"query">> /\ discovery # <<>>
    BY <1>8, SMT DEF Publish
  <2>2. discovery \in Answers /\ discovery[2] \in Nat /\ discovery[1] \in {"found", "partial"}
    BY <1>2, <2>1 DEF Discoveries, Answers
  <2>3. /\ discovery' = <<>> /\ UNCHANGED <<plugs, refused, asked>>
        /\ discovery[1] = "found" => listed' = discovery[2] /\ unread' = 0
        /\ discovery[1] = "partial" => listed' = 0 /\ unread' = discovery[2]
    BY <1>8 DEF Publish
  <2>4. discovery[2] <= plugs
    BY <2>2 DEF ChangeIsAsked
  <2>5. /\ listed' <= plugs' /\ unread' <= plugs'
        /\ discovery[2] = plugs => listed' = plugs' \/ unread' = plugs'
    BY <1>2, <2>2, <2>3, <2>4
  <2>6. discovery' \notin Answers
    BY <2>3, SMT DEF Answers
  <2>7. UNCHANGED <<context, draining, unsent, waiting>>
    BY <1>8 DEF Publish, contextVars
  <2>8. \/ listed' = plugs' \/ unread' = plugs' \/ refused' \/ asked' > 0
        \/ "discover" \in unsent' \cup waiting'
        \/ \A c \in Cameras : closing'[c] = "absent"
    BY <1>1, <2>1, <2>2, <2>3, <2>5, <2>7, Zenon DEF ChangeIsAsked
  <2> QED
    BY <2>5, <2>6, <2>8, Zenon DEF ChangeIsAsked
<1> QED
  BY <1>3, <1>4, <1>5, <1>6, <1>7, <1>8 DEF ContextSteps

(* A request that arrives while the context is ready becomes a thread.       *)
LEMMA DiscoveryByStart ==
  ASSUME CameraTypeOK, ChangeIsAsked, StartsThread
  PROVE  ChangeIsAsked'
<1>1. asked \in Nat /\ UNCHANGED <<plugs, listed, unread, discovery, refused, context>>
  BY DEF CameraTypeOK, StartsThread, Drain, Create, Kickoff, UserCommand, WatchRestarts,
     contextVars, discoveryVars
<1>2. ASSUME NEW cb, RunCallback(cb)
      PROVE  asked' \in Nat /\ (asked > 0 => asked' > 0) /\ (cb = "discover" => asked' > 0)
  <2>1. asked' = asked + 1 \/ (asked' = asked /\ cb # "discover")
    BY <1>2 DEF RunCallback
  <2> QED
    BY <1>1, <2>1
<1>3. CASE Drain
  <2>1. UNCHANGED <<unsent, closing>>
    BY <1>3 DEF Drain, lifeVars
  <2>2. CASE waiting = {}
    BY <1>1, <1>3, <2>1, <2>2 DEF Drain, ChangeIsAsked
  <2>3. CASE waiting # {}
    <3>1. PICK cb \in waiting :
            /\ waiting' = waiting \ {cb} /\ UNCHANGED draining
            /\ (cb \in Cameras /\ UNCHANGED asked) \/ RunCallback(cb)
      BY <1>3, <2>3 DEF Drain
    <3>2. (asked > 0 => asked' > 0)
          /\ ("discover" \in waiting => "discover" \in waiting' \/ asked' > 0)
      BY <1>2, <3>1, CameraAssumption
    <3> QED
      BY <1>1, <1>2, <2>1, <3>1, <3>2 DEF ChangeIsAsked
  <2> QED
    BY <2>2, <2>3
<1>4. ASSUME NEW cb, RunOnReady(cb), UNCHANGED <<draining, waiting>>,
             (\A c \in Cameras : closing[c] = "absent")
               => cb = "discover" \/ \A c \in Cameras : closing'[c] = "absent"
      PROVE  ChangeIsAsked'
  <2>1. /\ asked > 0 => asked' > 0
        /\ "discover" \in unsent => "discover" \in unsent'
        /\ cb = "discover" => "discover" \in unsent' \/ asked' > 0
    BY <1>2, <1>4 DEF RunOnReady
  <2> QED
    BY <1>1, <1>4, <2>1, Zenon DEF ChangeIsAsked
<1>5. ASSUME NEW c \in Cameras, Create(c) PROVE ChangeIsAsked'
  BY <1>4, <1>5 DEF Create
<1>6. ASSUME NEW c \in Cameras, Kickoff(c) PROVE ChangeIsAsked'
  BY <1>4, <1>6 DEF Kickoff
<1>7. ASSUME NEW c \in Cameras, UserCommand(c) \/ WatchRestarts(c) PROVE ChangeIsAsked'
  BY <1>7, DiscoveryFrame DEF UserCommand, WatchRestarts
<1> QED
  BY <1>3, <1>5, <1>6, <1>7 DEF StartsThread

(* Every step keeps every unlisted change of the hardware asked for. *)
LEMMA DiscoveryStep ==
  ASSUME CameraTypeOK, ChangeIsAsked, CameraNext
  PROVE  ChangeIsAsked'
<1>1. ASSUME NEW c \in Cameras, QuietSteps(c) \/ ShutdownJoined(c) PROVE ChangeIsAsked'
  <2>1. UNCHANGED <<contextVars, discoveryVars>>
    BY <1>1, QuietFrame DEF ShutdownJoined
  <2>2. \A d \in Cameras : closing[d] = "absent" => closing'[d] = "absent"
    BY <1>1 DEF CameraTypeOK, QuietSteps, Shutdown, ShutdownJoined, ShutdownStopped,
       ShutdownEnds, TaskEnds, Silence, WatchTimesOut, WatchRecovers, WatchEnds, lifeVars
  <2> QED
    BY <2>1, <2>2, DiscoveryFrame
<1>2. ASSUME NEW c \in Cameras, NEW t \in Threads, JobSteps(c, t) PROVE ChangeIsAsked'
  BY <1>2, JobFrame, DiscoveryFrame DEF lifeVars
<1>3. ASSUME NEW c \in Cameras, NEW i \in DOMAIN capture[c], CaptureAny(c, i)
      PROVE  ChangeIsAsked'
  BY <1>3, CaptureFrame, DiscoveryFrame DEF lifeVars
<1> QED
  BY <1>1, <1>2, <1>3, CameraSteps, DiscoveryByContext, DiscoveryByStart

-----------------------------------------------------------------------------
(* Shutdown.                                                                 *)
LEMMA AloneFrame ==
  ASSUME NEW d \in Cameras, Alone(d), job'[d] = job[d], capture'[d] = capture[d],
         tasks'[d] = tasks[d], closing'[d] = closing[d], leaky[d] => leaky'[d]
  PROVE  Alone(d)'
  BY Zenon DEF Alone, Done

(* Tasks outlive their capture thread only where the camera has met a gap.   *)
Watched(c) == \E i \in 1..Len(capture[c]) :
                capture[c][i].at = "loop" /\ capture[c][i].kind = "rgbd"

(* A start or a stop keeps the closing camera to its shutdown. *)
LEMMA AloneByJob ==
  ASSUME CameraTypeOK, JobsAreSound, HolderIsMid, CapturesAreOrdered, StatusIsKept,
         ShutdownIsAlone, NEW c \in Cameras, NEW t \in Threads, JobSteps(c, t),
         NEW d \in Cameras
  PROVE  Alone(d)'
<1>1. Alone(c) /\ Alone(d) /\ Ordered(c) /\ Kept(c)
  BY DEF ShutdownIsAlone, CapturesAreOrdered, StatusIsKept
<1>2. PICK w \in Works, p \in Places : JobIs(c, t, w, p)
  BY JobStep
<1>3. UNCHANGED <<closing, tasks>>
  BY JobFrame DEF lifeVars
<1>4. leaky[d] => leaky'[d]
  <2>1. leaky' = leaky \/ leaky' = [leaky EXCEPT ![c] = TRUE]
    BY DEF JobSteps, StopLooks, StopLocks, StopJoined, StartLocks, StartFails, StartLaunches,
       StartJoined, Leak
  <2>2. leaky \in [Cameras -> BOOLEAN]
    BY DEF CameraTypeOK
  <2> QED
    BY <2>1, <2>2
<1>5. CASE d # c
  <2>1. capture'[d] = capture[d]
    BY <1>5, JobCapture, CaptureStops DEF OthersCapture
  <2>2. \A u \in Threads : job'[d][u] = job[d][u]
    BY <1>2, <1>5 DEF JobIs
  <2>3. {"a", "b", "closer"} \subseteq Threads
    BY DEF Threads
  <2>4. /\ Done(d, "a")' <=> Done(d, "a")
        /\ Done(d, "b")' <=> Done(d, "b")
        /\ Done(d, "closer")' <=> Done(d, "closer")
    BY <2>2, <2>3 DEF Done
  <2> QED
    BY <1>1, <1>3, <1>4, <2>1, <2>4, Zenon DEF Alone
<1> SUFFICES ASSUME d = c PROVE Alone(c)'
  BY <1>5
<1>6. ~Done(c, t)
  BY DEF JobSteps, StopLooks, StopLocks, StopJoined, StartLocks, StartFails, StartLaunches,
     StartJoined, Doing, Done
<1>7. \A u \in Threads : u # t => (Done(c, u)' <=> Done(c, u))
  BY <1>2 DEF JobIs, Done
<1>8. closing'[c] # "stopping" => Done(c, "closer")'
  BY <1>1, <1>3, <1>6, <1>7 DEF Alone, Threads
<1>9. tasks'[c] > 0 /\ ~leaky'[c] => Watched(c)'
  <2>1. ASSUME Watched(c) PROVE Watched(c)'
    <3>1. PICK i \in 1..Len(capture[c]) : capture[c][i].at = "loop" /\ capture[c][i].kind = "rgbd"
      BY <2>1 DEF Watched
    <3>2. CASE UNCHANGED capture
      BY <2>1, <3>2 DEF Watched
    <3>3. CASE Stopped(c)
      <4>1. Len(capture'[c]) >= Len(capture[c]) /\ Len(capture[c]) \in Nat /\ Len(capture'[c]) \in Nat
        <5>1. Len(capture'[c]) = Len(capture[c]) \/ Len(capture'[c]) = Len(capture[c]) + 1
          BY JobCapture, CaptureStops
        <5> QED
          BY <3>3, <5>1, CaptureType DEF Stopped
      <4>2. i \in 1..Len(capture'[c])
        BY <4>1
      <4>3. capture'[c][i].at = "loop" /\ capture'[c][i].kind = "rgbd"
        BY <3>1, <3>3 DEF Stopped
      <4> QED
        BY <4>2, <4>3 DEF Watched
    <3> QED
      BY <3>2, <3>3, JobCapture, CaptureStops
  <2> QED
    BY <1>1, <1>3, <1>4, <2>1 DEF Alone, Watched
<1>10. ASSUME closing'[c] \in Closers, ~leaky'[c]
       PROVE  Done(c, "a")' /\ Done(c, "b")' /\ (Done(c, "closer")' => capture'[c] = <<>>)
  <2>1. Done(c, "a") /\ Done(c, "b")
    BY <1>1, <1>3, <1>4, <1>10 DEF Alone
  <2>2. t = "closer"
    BY <1>6, <2>1 DEF Threads
  <2>3. Done(c, "a")' /\ Done(c, "b")'
    BY <1>7, <2>1, <2>2 DEF Threads
  <2>4. job[c][t].work = <<"stop">>
    BY <1>6, <2>2 DEF JobsAreSound, Done
  <2>5. Head(job[c][t].work) = "stop" /\ job[c][t].work # <<>>
    BY <2>4, WorkFacts
  <2>6. ASSUME Done(c, "closer")' PROVE capture'[c] = <<>>
    <3>1. ~GoTo(c, t, "lock") /\ ~GoTo(c, t, "join")
      <4>1. \A q \in Places : GoTo(c, t, q) => job'[c][t].work # <<>>
        BY <2>5, JobMoves DEF JobIs
      <4> QED
        BY <2>2, <2>6, <4>1 DEF Done, Places
    <3>2. CASE StopLooks(c, t)
      <4>1. ~running[c] /\ capture' = capture
        BY <3>1, <3>2 DEF StopLooks, captureVars
      <4>2. ~Finding(c) /\ ~Launching(c)
        <5>1. ~Doing(c, "closer", "start", "find") /\ ~Doing(c, "closer", "start", "join")
          BY <2>2, <2>5 DEF Doing
        <5> QED
          BY <2>1, <5>1 DEF Finding, Launching, Doing, Done, Threads
      <4>3. ~leaky[c]
        BY <1>4, <1>10
      <4> QED
        BY <1>1, <4>1, <4>2, <4>3 DEF Kept
    <3>3. CASE StopLocks(c, t)
      <4>1. ~handle[c] /\ capture' = capture
        BY <3>1, <3>3 DEF StopLocks
      <4> QED
        BY <1>1, <4>1 DEF Ordered
    <3>4. CASE StopJoined(c, t)
      BY <3>4 DEF StopJoined
    <3>5. ~Doing(c, t, "start", "begin") /\ ~Doing(c, t, "start", "find")
          /\ ~Doing(c, t, "start", "join")
      BY <2>5 DEF Doing
    <3> QED
      BY <3>2, <3>3, <3>4, <3>5 DEF JobSteps, StartLocks, StartFails, StartLaunches, StartJoined
  <2> QED
    BY <2>3, <2>6
<1> QED
  BY <1>8, <1>9, <1>10, Zenon DEF Alone, Watched

(* A capture keeps the closing camera to its shutdown. *)
LEMMA AloneByCapture ==
  ASSUME CameraTypeOK, CapturesAreOrdered, ShutdownIsAlone,
         NEW c \in Cameras, NEW i \in DOMAIN capture[c], CaptureAny(c, i), NEW d \in Cameras
  PROVE  Alone(d)'
<1>1. /\ Alone(c) /\ Alone(d) /\ i \in 1..Len(capture[c]) /\ Len(capture[c]) \in 0..2
      /\ tasks[c] \in Nat
  BY CaptureType DEF CapturesAreOrdered, Ordered, ShutdownIsAlone, CameraTypeOK
<1>2. UNCHANGED <<job, closing>>
  BY CaptureFrame DEF lifeVars
<1>3. \A e \in Cameras : leaky[e] => leaky'[e]
  <2>1. UNCHANGED leaky \/ leaky' = [leaky EXCEPT ![c] = TRUE]
    BY <1>1, CaptureEffects, Zenon
  <2>2. leaky \in [Cameras -> BOOLEAN]
    BY DEF CameraTypeOK
  <2> QED
    BY <2>1, <2>2
<1>4. \/ UNCHANGED tasks
      \/ /\ RgbdFrame(c, i)
         /\ tasks' = [tasks EXCEPT ![c] = IF @ < MaxFrameTasks THEN @ + 1 ELSE @]
  BY DEF CaptureAny, CaptureSteps, Dispatch, RgbdStarts, LidarStarts, Initialises, RgbdStops,
     LidarStops, RgbdFrame, LidarFrame, CaptureThrows
<1>5. CASE d # c
  <2>1. capture'[d] = capture[d]
    <3>1. UNCHANGED capture \/ OthersCapture(c)
      BY <1>1, CaptureEffects DEF Moved, Ended
    <3> QED
      BY <1>5, <3>1 DEF OthersCapture
  <2>2. tasks'[d] = tasks[d]
    <3>1. tasks \in [Cameras -> 0..MaxFrameTasks]
      BY DEF CameraTypeOK
    <3> QED
      BY <1>4, <1>5, <3>1
  <2> QED
    BY <1>1, <1>2, <1>3, <2>1, <2>2, AloneFrame
<1> SUFFICES ASSUME d = c PROVE Alone(c)'
  BY <1>5
<1>6. capture[c] # <<>>
  <2>1. Len(capture[c]) # 0
    BY <1>1
  <2>2. capture[c] = <<>> <=> Len(capture[c]) = 0
    BY CaptureEmpty
  <2> QED
    BY <2>1, <2>2
<1>7. /\ closing'[c] # "stopping" => Done(c, "closer")'
      /\ closing'[c] \in Closers /\ ~leaky'[c] =>
           Done(c, "a")' /\ Done(c, "b")' /\ ~Done(c, "closer")'
  BY <1>1, <1>2, <1>3, <1>6 DEF Alone, Done
<1>8. ASSUME UNCHANGED tasks, tasks[c] > 0, ~leaky'[c] PROVE Watched(c)'
  <2>1. PICK j \in 1..Len(capture[c]) : capture[c][j].at = "loop" /\ capture[c][j].kind = "rgbd"
    BY <1>1, <1>3, <1>8 DEF Alone
  <2>2. CASE UNCHANGED capture
    BY <2>1, <2>2 DEF Watched
  <2>3. ASSUME NEW q, NEW k, Moved(c, i, q, k), j # i PROVE Watched(c)'
    BY <2>1, <2>3 DEF Moved, Watched
  <2>4. ASSUME Ended(c, i), j # i PROVE Watched(c)'
    <3>1. Len(capture[c]) = 2 /\ 3 - i = j
      <4>1. \A n \in 0..2 : \A x, y \in 1..n : x # y => n = 2 /\ 3 - x = y
        OBVIOUS
      <4> QED
        BY <1>1, <2>1, <2>4, <4>1
    <3>2. Len(capture'[c]) = 1 /\ capture'[c][1] = capture[c][j]
      BY <2>4, <3>1 DEF Ended
    <3>3. 1 \in 1..Len(capture'[c])
      BY <3>2
    <3> QED
      BY <2>1, <3>2, <3>3 DEF Watched
  <2>5. capture[c][i].at \in {"begin", "init"} => j # i
    BY <2>1
  <2>6. capture[c][i].kind = "lidar" => j # i
    BY <2>1
  <2>7. tasks[c] # 0
    BY <1>8
  <2>8. leaky' = (IF tasks[c] > 0 THEN [leaky EXCEPT ![c] = TRUE] ELSE leaky) => leaky'[c]
    BY <1>8 DEF CameraTypeOK
  <2> QED
    BY <1>1, <1>8, <2>2, <2>3, <2>4, <2>5, <2>6, <2>7, <2>8, CaptureEffects
<1>9. CASE RgbdFrame(c, i)
  <2>1. Watched(c)'
    BY <1>1, <1>9 DEF RgbdFrame, Is, Arrives, Watched
  <2> QED
    BY <1>7, <2>1, Zenon DEF Alone, Watched
<1>10. CASE UNCHANGED tasks
  <2>1. tasks'[c] > 0 /\ ~leaky'[c] => Watched(c)'
    BY <1>8, <1>10
  <2> QED
    BY <1>7, <2>1, Zenon DEF Alone, Watched
<1> QED
  BY <1>4, <1>9, <1>10

(* Every step keeps the closing camera to its shutdown. *)
LEMMA AloneStep ==
  ASSUME CameraTypeOK, JobsAreSound, HolderIsMid, CapturesAreOrdered, StatusIsKept,
         ShutdownIsAlone, CameraNext
  PROVE  ShutdownIsAlone'
<1> SUFFICES ASSUME NEW d \in Cameras PROVE Alone(d)'
  BY DEF ShutdownIsAlone
<1>1. Alone(d) /\ closing \in [Cameras -> {"absent", "open", "joining", "stopping", "watch", "closed"}]
      /\ leaky \in [Cameras -> BOOLEAN] /\ tasks \in [Cameras -> 0..MaxFrameTasks]
      /\ job \in [Cameras -> [Threads -> Jobs]]
  BY DEF ShutdownIsAlone, CameraTypeOK
<1>2. CASE ContextSteps
  BY <1>1, <1>2, ContextFrame, AloneFrame DEF threadVars, captureVars, lifeVars
<1>3. CASE StartsThread
  <2>1. UNCHANGED <<capture, tasks>>
    BY <1>3, StartsThreadFacts DEF captureVars
  <2>2. closing'[d] = closing[d] \/ (closing[d] = "absent" /\ closing'[d] = "open")
    BY <1>1, <1>3 DEF StartsThread, Drain, Create, Kickoff, UserCommand, WatchRestarts, lifeVars
  <2>3. CASE UNCHANGED threadVars
    BY <1>1, <2>1, <2>2, <2>3 DEF threadVars, Alone, Done, Closers
  <2>4. ASSUME NEW c \in Cameras, Spawned(c) PROVE Alone(d)'
    <3>1. PICK t \in {"a", "b"}, w \in Works \ {<<>>} :
            /\ Done(c, t) /\ job' = [job EXCEPT ![c][t] = [work |-> w, at |-> "begin"]]
            /\ leaky' = IF closing[c] \in {"absent", "open"} THEN leaky
                        ELSE [leaky EXCEPT ![c] = TRUE]
      BY <2>4 DEF Spawned
    <3>2. job'[d]["closer"] = job[d]["closer"]
      BY <1>1, <3>1 DEF Threads
    <3>3. CASE d # c
      <4>1. job'[d] = job[d] /\ leaky'[d] = leaky[d]
        BY <1>1, <3>1, <3>3
      <4> QED
        BY <1>1, <2>1, <2>2, <4>1 DEF Alone, Done, Closers
    <3>4. CASE d = c
      <4>1. leaky[d] => leaky'[d]
        BY <1>1, <3>1
      <4>2. closing'[d] \in Closers => leaky'[d]
        BY <1>1, <2>2, <3>1, <3>4 DEF Closers
      <4> QED
        BY <1>1, <2>1, <2>2, <3>2, <4>1, <4>2 DEF Alone, Done
    <3> QED
      BY <3>3, <3>4
  <2> QED
    BY <1>3, <2>3, <2>4, StartsThreadFacts
<1>4. ASSUME NEW c \in Cameras, QuietSteps(c) PROVE Alone(d)'
  <2>1. UNCHANGED <<job, capture, leaky>>
    BY <1>4, QuietFrame DEF threadVars
  <2>2. CASE TaskEnds(c)
    <3>1. closing' = closing /\ (tasks'[d] > 0 => tasks[d] > 0)
      BY <1>1, <2>2 DEF TaskEnds, lifeVars
    <3> QED
      BY <1>1, <2>1, <3>1 DEF Alone, Done
  <2>3. CASE Shutdown(c) \/ ShutdownStopped(c) \/ ShutdownEnds(c)
    <3>1. /\ UNCHANGED tasks
          /\ \/ closing'[d] = closing[d]
             \/ closing[d] = "open" /\ closing'[d] = "joining"
             \/ closing[d] = "stopping" /\ closing'[d] = "watch" /\ Done(d, "closer")
             \/ closing[d] = "watch" /\ closing'[d] = "closed"
      BY <1>1, <2>3 DEF Shutdown, ShutdownStopped, ShutdownEnds, captureVars
    <3> QED
      BY <1>1, <2>1, <3>1 DEF Alone, Done, Closers
  <2>4. CASE Silence(c) \/ WatchTimesOut(c) \/ WatchRecovers(c) \/ WatchEnds(c)
    <3>1. UNCHANGED <<tasks, closing>>
      BY <2>4 DEF Silence, WatchTimesOut, WatchRecovers, WatchEnds, captureVars, lifeVars
    <3> QED
      BY <1>1, <2>1, <3>1, AloneFrame
  <2> QED
    BY <1>4, <2>2, <2>3, <2>4 DEF QuietSteps
<1>5. ASSUME NEW c \in Cameras, ShutdownJoined(c) PROVE Alone(d)'
  <2>1. /\ UNCHANGED <<capture, tasks>> /\ closing[c] = "joining"
        /\ closing' = [closing EXCEPT ![c] = "stopping"]
        /\ job' = [job EXCEPT ![c]["closer"] = [work |-> <<"stop">>, at |-> "begin"]]
        /\ leaky' = IF Done(c, "a") /\ Done(c, "b") THEN leaky ELSE [leaky EXCEPT ![c] = TRUE]
    BY <1>5 DEF ShutdownJoined, captureVars, Leak
  <2>2. CASE d # c
    <3>1. job'[d] = job[d] /\ leaky'[d] = leaky[d] /\ closing'[d] = closing[d]
      BY <1>1, <2>1, <2>2
    <3> QED
      BY <1>1, <2>1, <3>1, AloneFrame
  <2>3. CASE d = c
    <3>1. closing'[d] = "stopping" /\ (leaky[d] => leaky'[d])
      BY <1>1, <2>1, <2>3
    <3>2. job'[d]["a"] = job[d]["a"] /\ job'[d]["b"] = job[d]["b"]
      BY <1>1, <2>1
    <3>3. job'[d]["closer"].work = <<"stop">>
      BY <1>1, <2>1, <2>3 DEF Threads
    <3>4. ~leaky'[d] => Done(d, "a") /\ Done(d, "b")
      BY <1>1, <2>1, <2>3
    <3> QED
      BY <1>1, <2>1, <3>1, <3>2, <3>3, <3>4, WorkFacts DEF Alone, Done
  <2> QED
    BY <2>2, <2>3
<1> QED
  BY <1>2, <1>3, <1>4, <1>5, CameraSteps, AloneByJob, AloneByCapture

-----------------------------------------------------------------------------
(* The invariant holds at first, and every step keeps it.                    *)
LEMMA CameraStarts == ASSUME CameraInit PROVE CameraInv
<1>1. \A c \in Cameras, t \in Threads :
        job[c][t] \in {Idle, [Idle EXCEPT !.work = <<"start">>]} /\ (t = "closer" => job[c][t] = Idle)
  BY DEF CameraInit
<1>2. \A c \in Cameras, t \in Threads :
        /\ job[c][t].at = "begin" /\ job[c][t].work \in {<<>>, <<"start">>}
        /\ t = "closer" => job[c][t].work = <<>>
  <2>1. Idle.at = "begin" /\ Idle.work = <<>>
    BY DEF Idle
  <2>2. LET j == [Idle EXCEPT !.work = <<"start">>] IN j.at = "begin" /\ j.work = <<"start">>
    BY DEF Idle
  <2> QED
    BY <1>1, <2>1, <2>2, Zenon
<1>3. CameraTypeOK
  <2>1. Idle \in Jobs /\ [Idle EXCEPT !.work = <<"start">>] \in Jobs
    BY DEF Idle, Jobs, Works, Places
  <2>2. job \in [Cameras -> [Threads -> Jobs]]
    <3>1. CASE job = [c \in Cameras |-> [t \in Threads |-> Idle]]
      BY <2>1, <3>1
    <3>2. CASE job = [c \in Cameras |-> [t \in Threads |->
                        IF t = "a" THEN [Idle EXCEPT !.work = <<"start">>] ELSE Idle]]
      <4> DEFINE j(t) == IF t = "a" THEN [Idle EXCEPT !.work = <<"start">>] ELSE Idle
      <4>1. \A t \in Threads : j(t) \in Jobs
        BY <2>1
      <4> HIDE DEF j
      <4>2. [t \in Threads |-> j(t)] \in [Threads -> Jobs]
        BY <4>1
      <4>3. job = [c \in Cameras |-> [t \in Threads |-> j(t)]]
        BY <3>2 DEF j
      <4> QED
        BY <4>2, <4>3
    <3> QED
      BY <3>1, <3>2 DEF CameraInit
  <2>3. api \in {Free} /\ <<>> \in Seq(Captures)
    BY EmptySeq DEF CameraInit
  <2>4. ContextTypeOK
    <3>1. /\ context \in {"initialising", "ready"} /\ draining = FALSE /\ refused = FALSE
          /\ unsent = {} /\ waiting = {} /\ discovery = <<>> /\ asked = 0 /\ unread = 0
      BY DEF CameraInit
    <3>2. plugs \in Nat /\ listed \in Nat /\ events \in Nat
      BY CameraAssumption DEF CameraInit
    <3>3. configured \subseteq Cameras
      BY DEF CameraInit
    <3>4. 0 \in Nat
      OBVIOUS
    <3> QED
      BY <3>1, <3>2, <3>3, <3>4, Zenon DEF ContextTypeOK, Discoveries
  <2>5. StatusTypeOK
    BY DEF CameraInit, StatusTypeOK, MaxFrameTasks
  <2>6. ThreadsTypeOK
    BY <2>2 DEF CameraInit, ThreadsTypeOK
  <2>7. capture \in [Cameras -> Seq(Captures)]
    BY <2>3 DEF CameraInit
  <2> QED
    BY <2>3, <2>4, <2>5, <2>6, <2>7, TypeParts
<1>4. JobsAreSound
  BY <1>2, Zenon DEF JobsAreSound
<1>5. HolderIsMid
  <2>1. \A c \in Cameras, t \in Threads : ~Mid(c, t)
    BY <1>2 DEF Mid
  <2>2. \A c, t : <<>> # <<c, t>>
    BY SMT
  <2> QED
    BY <2>1, <2>2 DEF HolderIsMid, CameraInit, Free
<1>6. \A c \in Cameras : capture[c] = <<>> /\ Len(capture[c]) = 0 /\ ~running[c] /\ tasks[c] = 0
  BY EmptySeq DEF CameraInit
<1>7. \A c \in Cameras : ~Launching(c)
  BY <1>2 DEF Launching, Doing
<1>8. CapturesAreOrdered
  BY <1>6, <1>7 DEF CapturesAreOrdered, Ordered
<1>9. StatusIsKept
  BY <1>6 DEF StatusIsKept, Kept
<1>10. ChangeIsAsked
  <2>1. listed <= plugs /\ unread <= plugs /\ discovery = <<>>
    BY CameraAssumption DEF CameraInit
  <2>2. listed = plugs \/ \A c \in Cameras : closing[c] = "absent"
    BY DEF CameraInit
  <2>3. discovery \notin Answers
    BY <2>1, SMT DEF Answers
  <2> QED
    BY <2>1, <2>2, <2>3, Zenon DEF ChangeIsAsked
<1>11. ShutdownIsAlone
  <2>1. \A c \in Cameras : closing[c] \notin Closers
    BY DEF CameraInit, Closers
  <2>2. \A c \in Cameras : Done(c, "closer")
    BY <1>2 DEF Done, Threads
  <2> QED
    BY <1>6, <2>1, <2>2 DEF ShutdownIsAlone, Alone
<1> QED
  BY <1>3, <1>4, <1>5, <1>8, <1>9, <1>10, <1>11 DEF CameraInv

(* Every step keeps the camera invariant. *)
LEMMA CameraStays == ASSUME CameraInv, [CameraNext]_cameraVars PROVE CameraInv'
<1>1. CASE CameraNext
  <2>1. CameraTypeOK'
    BY <1>1, TypeStep DEF CameraInv
  <2>2. JobsAreSound' /\ HolderIsMid'
    BY <1>1, ThreadsStep DEF CameraInv
  <2>3. CapturesAreOrdered'
    BY <1>1, <2>1, CapturesStep DEF CameraInv
  <2>4. StatusIsKept'
    BY <1>1, <2>1, StatusStep DEF CameraInv
  <2>5. ChangeIsAsked'
    BY <1>1, DiscoveryStep DEF CameraInv
  <2>6. ShutdownIsAlone'
    BY <1>1, AloneStep DEF CameraInv
  <2> QED
    BY <2>1, <2>2, <2>3, <2>4, <2>5, <2>6 DEF CameraInv
<1>2. CASE UNCHANGED cameraVars
  <2>1. UNCHANGED <<contextVars, discoveryVars, api, statusVars, threadVars, captureVars, lifeVars>>
    BY <1>2 DEF cameraVars
  <2>2. CameraTypeOK'
    BY <2>1 DEF CameraInv, CameraTypeOK, contextVars, discoveryVars, statusVars, threadVars,
       captureVars, lifeVars
  <2>3. JobsAreSound' /\ HolderIsMid' /\ CapturesAreOrdered'
    BY <2>1 DEF CameraInv, JobsAreSound, HolderIsMid, Mid, CapturesAreOrdered, Ordered, Launching,
       Stopping, Doing, threadVars, captureVars
  <2>4. StatusIsKept'
    BY <2>1 DEF CameraInv, StatusIsKept, Kept, Launching, Stopping, Finding, Doing, threadVars,
       captureVars, statusVars
  <2>5. ChangeIsAsked' /\ ShutdownIsAlone'
    BY <2>1, DiscoveryFrame, AloneFrame DEF CameraInv, ShutdownIsAlone, threadVars, captureVars,
       lifeVars
  <2> QED
    BY <2>2, <2>3, <2>4, <2>5 DEF CameraInv
<1> QED
  BY <1>1, <1>2

(* The camera invariant holds in every behaviour of the camera. *)
LEMMA CameraInvariant == CameraSpec => []CameraInv
<1>1. CameraInit => CameraInv
  BY CameraStarts
<1>2. CameraInv /\ [CameraNext]_cameraVars => CameraInv'
  BY CameraStays
<1> QED
  BY <1>1, <1>2, PTL DEF CameraSpec

-----------------------------------------------------------------------------
(* However start, stop, the timeout's restart and shutdown run beside each   *)
(* other, no camera ever has two threads that read its frames, and a capture *)
(* thread is always one that stop_sync can still join.                       *)
THEOREM OneCapture == CameraSpec => []OneCapturePerCamera
<1>1. CameraInv => OneCapturePerCamera
  <2> SUFFICES ASSUME CameraInv, NEW c \in Cameras
               PROVE  /\ Cardinality({i \in DOMAIN capture[c] : capture[c][i].at = "loop"}) <= 1
                      /\ capture[c] # <<>> => handle[c]
    BY DEF OneCapturePerCamera
  <2> DEFINE loops == {i \in DOMAIN capture[c] : capture[c][i].at = "loop"}
  <2>1. Ordered(c) /\ DOMAIN capture[c] = 1..Len(capture[c]) /\ Len(capture[c]) \in 0..2
    BY CaptureType DEF CameraInv, CapturesAreOrdered, Ordered
  <2>2. 2 \notin loops
    <3>1. ASSUME 2 \in loops PROVE FALSE
      <4>1. Len(capture[c]) = 2 /\ capture[c][2].at = "loop"
        BY <2>1, <3>1
      <4> QED
        BY <2>1, <4>1 DEF Ordered
    <3> QED
      BY <3>1
  <2>3. loops \subseteq {1}
    <3>1. \A n \in 0..2 : \A i \in 1..n : i = 1 \/ i = 2
      OBVIOUS
    <3>2. \A i \in loops : i = 1 \/ i = 2
      BY <2>1, <3>1
    <3> QED
      BY <2>2, <3>2
  <2>4. loops = {} \/ loops = {1}
    BY <2>3
  <2>5. Cardinality(loops) <= 1
    <3>1. Cardinality({}) = 0 /\ Cardinality({1}) = 1
      BY FS_EmptySet, FS_Singleton
    <3>2. Cardinality(loops) \in {0, 1}
      BY <2>4, <3>1, Zenon
    <3> QED
      BY <3>2
  <2> QED
    BY <2>1, <2>5 DEF Ordered
<1> QED
  BY <1>1, CameraInvariant, PTL

(* With nothing under way, what a camera reports and what the list of        *)
(* cameras shows is what there is, but for the gaps the property names.      *)
THEOREM TrueReports == CameraSpec => []ReportsAreTrue
<1>1. CameraInv => ReportsAreTrue
  <2> SUFFICES ASSUME CameraInv PROVE ReportsAreTrue
    OBVIOUS
  <2>1. ASSUME NEW c \in Cameras, Quiet(c)
        PROVE  /\ running[c] /\ Status(c) # "missing" => capture[c] # <<>> \/ seen[c] # "none"
               /\ capture[c] # <<>> => running[c] \/ leaky[c]
    <3>1. ~Stopping(c) /\ ~Finding(c) /\ ~Launching(c)
      BY <2>1 DEF Quiet, Stopping, Finding, Launching, Doing, Done
    <3>2. error[c] => Status(c) = "missing"
      BY DEF Status
    <3>3. Kept(c)
      BY DEF CameraInv, StatusIsKept
    <3> QED
      BY <3>1, <3>2, <3>3 DEF Kept
  <2>2. ASSUME context = "ready", ~draining, asked = 0, discovery = <<>>, "discover" \notin unsent,
               \E c \in Cameras : closing[c] # "absent"
        PROVE  listed = plugs \/ unread = plugs \/ refused \/ "discover" \in waiting
    <3>1. ~(asked > 0)
      BY <2>2
    <3>2. discovery # <<"query">> /\ discovery \notin Answers
      BY <2>2, SMT DEF Answers
    <3> QED
      BY <2>2, <3>1, <3>2, Zenon DEF CameraInv, ChangeIsAsked
  <2> QED
    BY <2>1, <2>2, Zenon DEF ReportsAreTrue
<1> QED
  BY <1>1, CameraInvariant, PTL

(* When shutdown() has returned for a camera that met none of the gaps of    *)
(* the code, no capture thread of it runs and no task of it is in flight.    *)
THEOREM CleanShutdown == CameraSpec => []ShutdownLeavesNothing
<1>1. CameraInv => ShutdownLeavesNothing
  <2> SUFFICES ASSUME CameraInv, NEW c \in Cameras, closing[c] = "closed", ~leaky[c]
               PROVE  capture[c] = <<>> /\ tasks[c] = 0
    BY DEF ShutdownLeavesNothing
  <2>1. Alone(c) /\ tasks[c] \in Nat
    BY DEF CameraInv, ShutdownIsAlone, CameraTypeOK
  <2>2. capture[c] = <<>>
    BY <2>1 DEF Alone, Closers
  <2>3. ~(tasks[c] > 0)
    <3>1. Len(capture[c]) = 0
      BY <2>2, EmptySeq
    <3> QED
      BY <2>1, <3>1 DEF Alone
  <2> QED
    BY <2>1, <2>2, <2>3
<1> QED
  BY <1>1, CameraInvariant, PTL
=============================================================================
