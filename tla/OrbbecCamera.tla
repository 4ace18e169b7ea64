---------------------------- MODULE OrbbecCamera ----------------------------
(***************************************************************************)
(* The Orbbec cameras: the process-wide ObContext with its discovery, and  *)
(* the threads of every OrbbecDevice.                                      *)
(*                                                                         *)
(* start(), stop() and restart() hand their work to a new _initialisation_ *)
(* thread; assigning the jthread makes the caller wait for the one before, *)
(* so two of them can run at once ("a" and "b"; "closer" is the thread     *)
(* that runs shutdown()). All of them, the context's own thread and every  *)
(* capture thread while it initialises take device_api_access (`api').     *)
(* Time is a nondeterministic step: a frame that was seen becomes stale.   *)
(***************************************************************************)
EXTENDS Naturals, Sequences, FiniteSets

CONSTANTS
  Cameras,            \* the OrbbecDevice objects
  MaxEvents,        \* bound: commands of the user, and times the camera goes silent
  MaxPlugs          \* bound: states of the attached hardware, the first included

ASSUME CameraAssumption ==
  /\ IsFiniteSet(Cameras) /\ "discover" \notin Cameras    \* the other callback
  /\ MaxEvents \in Nat
  /\ MaxPlugs \in Nat

MaxFrameTasks == 2          \* DevicePlugin::max_frame_tasks_in_flight
Threads == {"a", "b", "closer"}
Free == <<>>                \* nobody holds device_api_access
Idle == [work |-> <<>>, at |-> "begin"]

VARIABLES
  context,        \* ObContext::state
  draining,       \* the context's thread still runs on_ready_callbacks
  unsent,         \* run_on_ready has seen the context not ready, 171 is next
  waiting,        \* on_ready_callbacks
  api,            \* the holder of device_api_access, <<camera, thread>>, or Free
  plugs, listed,  \* the state of the attached hardware, and the one listed in full (or 0)
  unread,         \* the state whose query failed, if the last one published did (or 0)
  discovery,      \* the discovery in flight: none, <<"query">>, <<"found", what>>
                  \* or <<"partial", what>>
  asked, refused, \* discovery threads started; history: one was turned away
  running, error, \* _running_pipeline, _in_error_state
  loading,        \* _loading_pipeline
  seen,           \* _last_updated_time: "none", "fresh" or "stale"
  sensor,         \* the configured sensor, "rgbd" or "lidar"
  job,            \* per camera and thread: what is left of its work, and where it is
  newest,         \* the thread _initialisation_thread holds
  joining,        \* <<caller, thread>> of a caller that waits for an older thread
  capture,        \* the pipeline threads alive, the newest last
  handle,         \* _pipeline_thread.joinable()
  tasks,          \* _process_tasks_in_flight
  watch,          \* the timeout thread: "look", "restart" or "ended"
  closing,        \* "absent", "open", "joining", "stopping", "watch", "closed"
  leaky,          \* history: the camera has met a gap of ShutdownLeavesNothing
  configured,     \* cameras that have had their first update_config
  events        \* how many of these there have been

contextVars == <<context, draining, unsent, waiting>>
discoveryVars == <<plugs, listed, unread, discovery, asked, refused>>
statusVars == <<running, error, loading, seen>>
threadVars == <<job, newest, joining, leaky>>
captureVars == <<capture, handle, tasks>>
lifeVars == <<sensor, watch, closing, configured, events>>
cameraVars == <<contextVars, discoveryVars, api, statusVars, threadVars,
                captureVars, lifeVars>>

(* The two halves of a run are explored from states of their own: the first  *)
(* without commands of the user, the second when the context is long ready   *)
(* and has just started the cameras, without further changes of hardware.    *)
CameraInit ==
  /\ draining = FALSE
  /\ unsent = {} /\ waiting = {}
  /\ api = Free
  /\ discovery = <<>> /\ asked = 0 /\ refused = FALSE /\ unread = 0
  /\ running = [c \in Cameras |-> FALSE]
  /\ error = [c \in Cameras |-> FALSE]
  /\ loading = [c \in Cameras |-> FALSE]
  /\ seen = [c \in Cameras |-> "none"]
  /\ sensor = [c \in Cameras |-> "rgbd"]     \* the default
  /\ newest = [c \in Cameras |-> "a"]
  /\ joining = [c \in Cameras |-> <<>>]
  /\ capture = [c \in Cameras |-> <<>>]
  /\ handle = [c \in Cameras |-> FALSE]
  /\ tasks = [c \in Cameras |-> 0]
  /\ watch = [c \in Cameras |-> "look"]
  /\ leaky = [c \in Cameras |-> FALSE]
  /\ \/ /\ context = "initialising" /\ plugs = 1 /\ listed = 0
        /\ configured = {} /\ closing = [c \in Cameras |-> "absent"]
        /\ job = [c \in Cameras |-> [t \in Threads |-> Idle]]
        /\ events = MaxEvents
     \/ /\ context = "ready" /\ plugs = MaxPlugs /\ listed = plugs
        /\ configured = Cameras /\ closing = [c \in Cameras |-> "open"]
        /\ job = [c \in Cameras |-> [t \in Threads |->
                    IF t = "a" THEN [Idle EXCEPT !.work = <<"start">>] ELSE Idle]]
        /\ events = 0

Done(c, t) == job[c][t].work = <<>>
Joins(c, caller) == joining[c] # <<>> /\ joining[c][1] = caller
                      /\ ~Done(c, joining[c][2])

-----------------------------------------------------------------------------
(* Assigning _initialisation_thread: the new thread runs at once, the caller *)
(* waits for the thread it replaces. A command waits for a free slot, which  *)
(* bounds the threads alive at once by two.                                  *)
Leak(c) == [leaky EXCEPT ![c] = TRUE]

Spawn(c, work, caller) ==
  \E t \in {"a", "b"} :
    /\ Done(c, t)
    /\ job' = [job EXCEPT ![c][t] = [work |-> work, at |-> "begin"]]
    /\ newest' = [newest EXCEPT ![c] = t]
    /\ joining' = IF Done(c, newest[c]) THEN joining
                  ELSE [joining EXCEPT ![c] = <<caller, newest[c]>>]
    /\ leaky' = IF closing[c] \in {"absent", "open"} THEN leaky ELSE Leak(c)

(* run_on_ready: the callback runs at once when the context is ready, and is *)
(* enqueued in a later step otherwise.                                       *)
RunCallback(cb) ==
  IF cb = "discover"
  THEN asked' = asked + 1 /\ UNCHANGED threadVars
  ELSE Spawn(cb, <<"start">>, "context") /\ UNCHANGED asked
RunOnReady(cb) ==
  IF context = "ready"
  THEN RunCallback(cb) /\ UNCHANGED unsent
  ELSE unsent' = unsent \cup {cb} /\ UNCHANGED <<asked, threadVars>>

Enqueue ==
  \E cb \in unsent :
    /\ unsent' = unsent \ {cb}
    /\ waiting' = waiting \cup {cb}
    /\ UNCHANGED <<context, draining, api, discoveryVars, statusVars, threadVars,
                   captureVars, lifeVars>>

(* The thread of init_async: it creates the context under device_api_access  *)
(* or fails, and runs what was enqueued. A callback of a destroyed camera    *)
(* has no defined effect and is left out.                                    *)
ContextReady ==
  /\ context = "initialising" /\ api = Free
  /\ context' = "ready" /\ draining' = TRUE
  /\ UNCHANGED <<unsent, waiting, api, discoveryVars, statusVars, threadVars,
                 captureVars, lifeVars>>
ContextFails ==
  /\ context = "initialising"
  /\ context' = "failed"
  /\ UNCHANGED <<draining, unsent, waiting, api, discoveryVars, statusVars,
                 threadVars, captureVars, lifeVars>>
Drain ==
  /\ draining
  /\ \A c \in Cameras : ~Joins(c, "context")
  /\ IF waiting = {}
     THEN draining' = FALSE /\ UNCHANGED <<waiting, asked, threadVars>>
     ELSE \E cb \in waiting :
            /\ waiting' = waiting \ {cb}
            /\ UNCHANGED draining
            /\ IF cb \in Cameras /\ closing[cb] = "closed"
               THEN UNCHANGED <<asked, threadVars>>
               ELSE RunCallback(cb)
  /\ UNCHANGED <<context, unsent, plugs, listed, unread, discovery, refused, api,
                 statusVars, captureVars, lifeVars>>

-----------------------------------------------------------------------------
(* Discovery: one at a time; a request that arrives meanwhile is dropped.    *)
Plug ==
  /\ plugs < MaxPlugs /\ context = "ready"
  /\ plugs' = plugs + 1 /\ asked' = asked + 1
  /\ UNCHANGED <<contextVars, listed, unread, discovery, refused, api, statusVars, threadVars,
                 captureVars, lifeVars>>
Discover ==
  /\ asked > 0
  /\ asked' = asked - 1
  /\ IF discovery = <<>>
     THEN discovery' = <<"query">> /\ refused' = FALSE
     ELSE refused' = TRUE /\ UNCHANGED discovery
  /\ UNCHANGED <<contextVars, plugs, listed, unread, api, statusVars, threadVars, captureVars,
                 lifeVars>>
(* The list of cameras is queried and read one by one. A camera that cannot  *)
(* be read is left out, and a query that throws ends with those before it:   *)
(* what was found is published all the same, and nobody asks again.          *)
Query ==
  /\ discovery = <<"query">> /\ api = Free
  /\ \E outcome \in {"found", "partial"} : discovery' = <<outcome, plugs>>
  /\ UNCHANGED <<contextVars, plugs, listed, unread, asked, refused, api, statusVars,
                 threadVars, captureVars, lifeVars>>
Publish ==
  /\ discovery # <<>> /\ discovery[1] \in {"found", "partial"}
  /\ listed' = IF discovery[1] = "found" THEN discovery[2] ELSE 0
  /\ unread' = IF discovery[1] = "partial" THEN discovery[2] ELSE 0
  /\ discovery' = <<>>
  /\ UNCHANGED <<contextVars, plugs, asked, refused, api, statusVars, threadVars,
                 captureVars, lifeVars>>

-----------------------------------------------------------------------------
(* The user and the workspace.                                               *)
Create(c) ==
  /\ closing[c] = "absent"
  /\ closing' = [closing EXCEPT ![c] = "open"]
  /\ RunOnReady("discover")
  /\ UNCHANGED <<context, draining, waiting, plugs, listed, unread, discovery, refused,
                 api, statusVars, captureVars, sensor, watch, configured, events>>

(* The first update_config starts the camera once the context is ready.      *)
Kickoff(c) ==
  /\ closing[c] = "open" /\ c \notin configured
  /\ configured' = configured \cup {c}
  /\ RunOnReady(c)
  /\ UNCHANGED <<context, draining, waiting, plugs, listed, unread, discovery, refused,
                 api, statusVars, captureVars, sensor, watch, closing, events>>

UserCommand(c) ==
  /\ closing[c] = "open" /\ c \in configured /\ events < MaxEvents
  /\ ~Joins(c, "user")
  /\ events' = events + 1
  /\ \/ /\ \E work \in {<<"start">>, <<"stop">>, <<"stop", "start">>} :
             Spawn(c, work, "user")
        /\ UNCHANGED sensor
     \/ \E other \in {"rgbd", "lidar"} \ {sensor[c]} :   \* on_config_field_changed
          /\ sensor' = [sensor EXCEPT ![c] = other]
          /\ Spawn(c, <<"stop", "start">>, "user")
  /\ UNCHANGED <<contextVars, discoveryVars, api, statusVars, captureVars, watch, closing,
                 configured>>

(* shutdown(): join the newest thread, stop_sync, end the timeout thread.    *)
Shutdown(c) ==
  /\ closing[c] = "open" /\ ~Joins(c, "user")
  /\ closing' = [closing EXCEPT ![c] = "joining"]
  /\ UNCHANGED <<contextVars, discoveryVars, api, statusVars, threadVars, captureVars,
                 sensor, watch, configured, events>>
ShutdownJoined(c) ==
  /\ closing[c] = "joining" /\ Done(c, newest[c])
  /\ closing' = [closing EXCEPT ![c] = "stopping"]
  /\ job' = [job EXCEPT ![c]["closer"] = [work |-> <<"stop">>, at |-> "begin"]]
  /\ leaky' = IF Done(c, "a") /\ Done(c, "b") THEN leaky ELSE Leak(c)
  /\ UNCHANGED <<contextVars, discoveryVars, api, statusVars, newest, joining,
                 captureVars, sensor, watch, configured, events>>
ShutdownStopped(c) ==
  /\ closing[c] = "stopping" /\ Done(c, "closer")
  /\ closing' = [closing EXCEPT ![c] = "watch"]
  /\ UNCHANGED <<contextVars, discoveryVars, api, statusVars, threadVars, captureVars,
                 sensor, watch, configured, events>>
ShutdownEnds(c) ==
  /\ closing[c] = "watch" /\ watch[c] = "ended"
  /\ closing' = [closing EXCEPT ![c] = "closed"]
  /\ UNCHANGED <<contextVars, discoveryVars, api, statusVars, threadVars, captureVars,
                 sensor, watch, configured, events>>

-----------------------------------------------------------------------------
(* stop_sync and start_sync, on any of the threads.                          *)
Doing(c, t, what, at) ==
  job[c][t].work # <<>> /\ Head(job[c][t].work) = what /\ job[c][t].at = at
Finish(c, t) ==
  job' = [job EXCEPT ![c][t] = [work |-> Tail(@.work), at |-> "begin"]]
GoTo(c, t, at) == job' = [job EXCEPT ![c][t].at = at]

(* The flag is read before the lock is taken.                                *)
StopLooks(c, t) ==
  /\ Doing(c, t, "stop", "begin")
  /\ IF running[c] THEN GoTo(c, t, "lock") ELSE Finish(c, t)
  /\ UNCHANGED <<contextVars, discoveryVars, api, statusVars, newest, joining, leaky,
                 captureVars, lifeVars>>

RequestStop(threads) == [i \in DOMAIN threads |-> [threads[i] EXCEPT !.stop = TRUE]]

StopLocks(c, t) ==
  /\ Doing(c, t, "stop", "lock") /\ api = Free
  /\ IF handle[c]
     THEN /\ api' = <<c, t>>
          /\ capture' = [capture EXCEPT ![c] = RequestStop(@)]
          /\ GoTo(c, t, "join")
     ELSE Finish(c, t) /\ UNCHANGED <<api, capture>>
  /\ UNCHANGED <<contextVars, discoveryVars, statusVars, newest, joining, leaky,
                 handle, tasks, lifeVars>>

StopJoined(c, t) ==
  /\ Doing(c, t, "stop", "join") /\ capture[c] = <<>>
  /\ handle' = [handle EXCEPT ![c] = FALSE]
  /\ running' = [running EXCEPT ![c] = FALSE]
  /\ seen' = [seen EXCEPT ![c] = "none"]
  /\ api' = Free
  /\ Finish(c, t)
  /\ UNCHANGED <<contextVars, discoveryVars, error, loading, newest, joining, leaky,
                 capture, tasks, lifeVars>>

StartLocks(c, t) ==
  /\ Doing(c, t, "start", "begin") /\ api = Free
  /\ api' = <<c, t>>
  /\ loading' = [loading EXCEPT ![c] = TRUE]
  /\ running' = [running EXCEPT ![c] = FALSE]
  /\ error' = [error EXCEPT ![c] = FALSE]
  /\ seen' = [seen EXCEPT ![c] = "none"]
  /\ GoTo(c, t, "find")
  /\ UNCHANGED <<contextVars, discoveryVars, newest, joining, leaky, captureVars,
                 lifeVars>>

(* The context is not ready within ten seconds, or the camera is not found.  *)
StartFails(c, t) ==
  /\ Doing(c, t, "start", "find")
  /\ error' = [error EXCEPT ![c] = TRUE]
  /\ loading' = [loading EXCEPT ![c] = FALSE]
  /\ api' = Free
  /\ Finish(c, t)
  /\ leaky' = IF capture[c] # <<>> THEN Leak(c) ELSE leaky
  /\ UNCHANGED <<contextVars, discoveryVars, running, seen, newest, joining,
                 captureVars, lifeVars>>

(* Assigning _pipeline_thread starts the new capture thread, then stops and  *)
(* joins the one it replaces, all of it under device_api_access.             *)
StartLaunches(c, t) ==
  /\ Doing(c, t, "start", "find") /\ context = "ready"
  /\ capture' = [capture EXCEPT ![c] =
       Append(RequestStop(@), [at |-> "begin", stop |-> FALSE, kind |-> "rgbd"])]
  /\ handle' = [handle EXCEPT ![c] = TRUE]
  /\ GoTo(c, t, "join")
  /\ UNCHANGED <<contextVars, discoveryVars, api, statusVars, newest, joining, leaky,
                 tasks, lifeVars>>
(* Slip: the old capture thread is detached instead of joined.               *)
StartDetached(c, t) ==
  /\ Doing(c, t, "start", "join")
  /\ running' = [running EXCEPT ![c] = TRUE]
  /\ error' = [error EXCEPT ![c] = FALSE]
  /\ api' = Free
  /\ Finish(c, t)
  /\ UNCHANGED <<contextVars, discoveryVars, loading, seen, newest, joining, leaky,
                 captureVars, lifeVars>>

StartJoined(c, t) ==
  /\ Doing(c, t, "start", "join") /\ Len(capture[c]) = 1
  /\ running' = [running EXCEPT ![c] = TRUE]
  /\ error' = [error EXCEPT ![c] = FALSE]
  /\ api' = Free
  /\ Finish(c, t)
  /\ UNCHANGED <<contextVars, discoveryVars, loading, seen, newest, joining, leaky,
                 captureVars, lifeVars>>

-----------------------------------------------------------------------------
(* The capture thread of one camera: rgbd_ and lidar_pipeline_thread_work.   *)
Without(threads, i) == SubSeq(threads, 1, i - 1) \o SubSeq(threads, i + 1, Len(threads))

(* The sensor configured when the thread begins decides which loop it runs;  *)
(* each initialises under device_api_access, and fails when the sensor has   *)
(* been changed in between.                                                  *)
Dispatch(c, i) ==
  /\ capture[c][i].at = "begin"
  /\ capture' = [capture EXCEPT ![c][i] = [@ EXCEPT !.at = "init", !.kind = sensor[c]]]
  /\ UNCHANGED <<contextVars, discoveryVars, api, statusVars, threadVars,
                 handle, tasks, lifeVars>>

Is(c, i, kind, at) == capture[c][i].kind = kind /\ capture[c][i].at = at
Ends(c, i) == capture' = [capture EXCEPT ![c] = Without(@, i)]

Initialises(c, i) ==
  /\ api = Free
  /\ \/ /\ capture[c][i].kind = sensor[c]
        /\ capture' = [capture EXCEPT ![c][i].at = "loop"]
        /\ UNCHANGED error
     \/ Ends(c, i) /\ error' = [error EXCEPT ![c] = TRUE]
  /\ UNCHANGED <<contextVars, discoveryVars, api, running, loading, seen, threadVars,
                 handle, tasks, lifeVars>>
RgbdStarts(c, i) == Is(c, i, "rgbd", "init") /\ Initialises(c, i)
LidarStarts(c, i) == Is(c, i, "lidar", "init") /\ Initialises(c, i)

(* A frame is dropped when two are being processed. The rgbd loop hands it   *)
(* to the task pool, the lidar's loop processes it itself, and shows nothing *)
(* of an empty scan.                                                         *)
Arrives(c, i) ==
  /\ ~capture[c][i].stop
  /\ loading' = [loading EXCEPT ![c] = FALSE]
  /\ UNCHANGED <<contextVars, discoveryVars, api, running, error, threadVars, capture,
                 handle, lifeVars>>
RgbdFrame(c, i) ==
  /\ Is(c, i, "rgbd", "loop")
  /\ tasks' = [tasks EXCEPT ![c] = IF @ < MaxFrameTasks THEN @ + 1 ELSE @]
  /\ UNCHANGED seen
  /\ Arrives(c, i)
LidarFrame(c, i) ==
  /\ Is(c, i, "lidar", "loop")
  /\ \/ tasks[c] < MaxFrameTasks /\ seen' = [seen EXCEPT ![c] = "fresh"]
     \/ UNCHANGED seen
  /\ UNCHANGED tasks
  /\ Arrives(c, i)

TaskEnds(c) ==
  /\ tasks[c] > 0
  /\ tasks' = [tasks EXCEPT ![c] = @ - 1]
  /\ seen' \in {seen, [seen EXCEPT ![c] = "fresh"]}    \* nothing without both images
  /\ UNCHANGED <<contextVars, discoveryVars, api, running, loading, error, threadVars,
                 capture, handle, lifeVars>>

(* Slip: the loop ends without waiting for the tasks it has started.         *)
RgbdLeavesTasks(c, i) ==
  /\ Is(c, i, "rgbd", "loop") /\ capture[c][i].stop
  /\ Ends(c, i)
  /\ UNCHANGED <<contextVars, discoveryVars, api, statusVars, threadVars,
                 handle, tasks, lifeVars>>

(* The loop sees its stop token; rgbd waits for its tasks, the lidar's last  *)
(* statement raises the error state.                                         *)
RgbdStops(c, i) ==
  /\ Is(c, i, "rgbd", "loop") /\ capture[c][i].stop /\ tasks[c] = 0
  /\ Ends(c, i)
  /\ UNCHANGED <<contextVars, discoveryVars, api, statusVars, threadVars,
                 handle, tasks, lifeVars>>
(* Slip: the lidar's loop ends only when a frame arrives.                    *)
LidarOverlooksStop(c, i) ==
  /\ Is(c, i, "lidar", "loop") /\ capture[c][i].stop /\ seen[c] = "fresh"
  /\ Ends(c, i)
  /\ error' = [error EXCEPT ![c] = TRUE]
  /\ UNCHANGED <<contextVars, discoveryVars, api, running, loading, seen, threadVars,
                 handle, tasks, lifeVars>>

LidarStops(c, i) ==
  /\ Is(c, i, "lidar", "loop") /\ capture[c][i].stop
  /\ Ends(c, i)
  /\ error' = [error EXCEPT ![c] = TRUE]
  /\ UNCHANGED <<contextVars, discoveryVars, api, running, loading, seen, threadVars,
                 handle, tasks, lifeVars>>

(* Slip: the handler ends the thread without raising the error state.        *)
CaptureDies(c, i) ==
  /\ capture[c][i].at = "loop"
  /\ Ends(c, i)
  /\ leaky' = IF tasks[c] > 0 THEN Leak(c) ELSE leaky
  /\ UNCHANGED <<contextVars, discoveryVars, api, statusVars, job, newest,
                 joining, handle, tasks, lifeVars>>

CaptureThrows(c, i) ==
  /\ capture[c][i].at = "loop"
  /\ Ends(c, i)
  /\ error' = [error EXCEPT ![c] = TRUE]
  /\ leaky' = IF tasks[c] > 0 THEN Leak(c) ELSE leaky
  /\ UNCHANGED <<contextVars, discoveryVars, api, running, loading, seen, job, newest,
                 joining, handle, tasks, lifeVars>>

-----------------------------------------------------------------------------
(* The timeout thread looks once a second.                                   *)
Silence(c) ==
  /\ seen[c] = "fresh" /\ events < MaxEvents
  /\ seen' = [seen EXCEPT ![c] = "stale"]
  /\ events' = events + 1
  /\ UNCHANGED <<contextVars, discoveryVars, api, running, loading, error, threadVars,
                 captureVars, sensor, watch, closing, configured>>
WatchTimesOut(c) ==
  /\ watch[c] = "look" /\ closing[c] # "absent" /\ ~Joins(c, "watch")
  /\ running[c] /\ ~error[c] /\ seen[c] = "stale"
  /\ error' = [error EXCEPT ![c] = TRUE]
  /\ watch' = [watch EXCEPT ![c] = "restart"]
  /\ UNCHANGED <<contextVars, discoveryVars, api, running, loading, seen, threadVars,
                 captureVars, sensor, closing, configured, events>>
WatchRestarts(c) ==
  /\ watch[c] = "restart"
  /\ Spawn(c, <<"stop", "start">>, "watch")
  /\ watch' = [watch EXCEPT ![c] = "look"]
  /\ UNCHANGED <<contextVars, discoveryVars, api, statusVars, captureVars, sensor,
                 closing, configured, events>>
WatchRecovers(c) ==
  /\ watch[c] = "look" /\ ~Joins(c, "watch")
  /\ error[c] /\ seen[c] = "fresh"
  /\ error' = [error EXCEPT ![c] = FALSE]
  /\ UNCHANGED <<contextVars, discoveryVars, api, running, loading, seen, threadVars,
                 captureVars, lifeVars>>
WatchEnds(c) ==
  /\ watch[c] = "look" /\ ~Joins(c, "watch") /\ closing[c] = "watch"
  /\ watch' = [watch EXCEPT ![c] = "ended"]
  /\ UNCHANGED <<contextVars, discoveryVars, api, statusVars, threadVars, captureVars,
                 sensor, closing, configured, events>>

-----------------------------------------------------------------------------
ContextThread == ContextReady \/ ContextFails \/ Drain
JobSteps(c, t) ==
  \/ StopLooks(c, t) \/ StopLocks(c, t) \/ StopJoined(c, t)
  \/ StartLocks(c, t) \/ StartFails(c, t) \/ StartLaunches(c, t) \/ StartJoined(c, t)
CaptureSteps(c, i) ==
  \/ Dispatch(c, i) \/ RgbdStarts(c, i) \/ LidarStarts(c, i)
  \/ RgbdStops(c, i) \/ LidarStops(c, i)
WatchSteps(c) == WatchTimesOut(c) \/ WatchRestarts(c) \/ WatchRecovers(c) \/ WatchEnds(c)
CloserSteps(c) == ShutdownJoined(c) \/ ShutdownStopped(c) \/ ShutdownEnds(c)

CameraNext ==
  \/ Enqueue \/ ContextThread \/ Plug \/ Discover \/ Query \/ Publish
  \/ \E c \in Cameras :
       \/ Create(c) \/ Kickoff(c) \/ UserCommand(c) \/ Shutdown(c) \/ CloserSteps(c)
       \/ TaskEnds(c) \/ Silence(c) \/ WatchSteps(c)
       \/ \E t \in Threads : JobSteps(c, t)
       \/ \E i \in DOMAIN capture[c] :
            CaptureSteps(c, i) \/ RgbdFrame(c, i) \/ LidarFrame(c, i) \/ CaptureThrows(c, i)

CameraSpec == CameraInit /\ [][CameraNext]_cameraVars

(* Threads that have something to do go on, and the mutex is given to one    *)
(* that waits: with finitely many events nobody can keep another from it.    *)
CameraFairness ==
  \A c \in Cameras :
    /\ WF_cameraVars(TaskEnds(c))
    /\ WF_cameraVars(\E t \in Threads : JobSteps(c, t))
    /\ WF_cameraVars(\E i \in DOMAIN capture[c] : CaptureSteps(c, i))

-----------------------------------------------------------------------------
(* Two threads never read frames from one camera, although start, stop and   *)
(* the timeout's restart may be running at the same time: whoever replaces   *)
(* the capture thread holds device_api_access until the old one is joined,   *)
(* and the new one needs it to initialise.                                   *)
OneCapturePerCamera ==
  \A c \in Cameras :
    /\ Cardinality({i \in DOMAIN capture[c] : capture[c][i].at = "loop"}) <= 1
    /\ capture[c] # <<>> => handle[c]

Status(c) ==
  CASE error[c] -> "missing"
    [] ~error[c] /\ loading[c] -> "loading"
    [] ~error[c] /\ ~loading[c] /\ context # "ready" -> "unloaded"
    [] ~error[c] /\ ~loading[c] /\ context = "ready" /\ running[c] /\ seen[c] # "none" -> "active"
    [] OTHER -> "loaded"

Quiet(c) ==
  /\ \A t \in Threads : Done(c, t)
  /\ watch[c] = "look" /\ closing[c] = "open"
  /\ \A i \in DOMAIN capture[c] : capture[c][i].at = "loop"

(* What the user is shown is true. With nothing under way, a camera that     *)
(* reports itself running and well has a capture thread, or has shown a      *)
(* frame, which may be the last one of the thread before: then the timeout   *)
(* thread, which ignores a camera without any frame, will notice that no     *)
(* other follows. One that captures reports itself running, unless a start   *)
(* failed over the thread of an earlier start, which nobody can stop any     *)
(* more. And once there is a device, the list of cameras is what is attached *)
(* when discovery is idle, but for three cases: the query of what is         *)
(* attached now has failed, a request was turned away by a discovery in      *)
(* flight, or the request still lies among the callbacks of a context that   *)
(* has run those it found. None of these is tried again before the next      *)
(* change of the hardware.                                                   *)
ReportsAreTrue ==
  /\ \A c \in Cameras : Quiet(c) =>
       /\ running[c] /\ Status(c) # "missing" => capture[c] # <<>> \/ seen[c] # "none"
       /\ capture[c] # <<>> => running[c] \/ leaky[c]
  /\ /\ context = "ready" /\ ~draining
     /\ asked = 0 /\ discovery = <<>> /\ "discover" \notin unsent
     /\ \E c \in Cameras : closing[c] # "absent"
     => listed = plugs \/ unread = plugs \/ refused \/ "discover" \in waiting

(* When shutdown() has returned, no thread or task of the camera is left,    *)
(* except for the gaps of the code: a restart of the timeout thread after    *)
(* shutdown() was called, or an older thread that it still waits for (only   *)
(* the newest is joined); tasks of a capture thread that ended by an         *)
(* exception; and a capture thread that a failed start no longer reports.    *)
ShutdownLeavesNothing ==
  \A c \in Cameras :
    closing[c] = "closed" /\ ~leaky[c] => capture[c] = <<>> /\ tasks[c] = 0

(* A thread that holds device_api_access joins a capture thread that has not *)
(* initialised yet and waits for the same mutex: neither ever goes on.       *)
LockedOut ==
  \E c \in Cameras :
    /\ api # Free /\ api[1] = c /\ job[c][api[2]].at = "join"
    /\ \E i \in DOMAIN capture[c] : capture[c][i].at # "loop" /\ capture[c][i].stop

(* Every start, stop, restart and shutdown gets through its work, whatever   *)
(* runs beside it, unless the lock of LockedOut has closed.                  *)
CommandsEnd ==
  []<>((\A c \in Cameras, t \in Threads : Done(c, t)) \/ LockedOut)
=============================================================================
