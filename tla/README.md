# Pointcaster: a verification project in TLA+

Pointcaster receives point clouds from devices (depth cameras, ply sequences),
aggregates them in sessions, runs operators over them on several threads, and
streams, records and publishes the result. This directory models the parts of
it whose behaviour depends on the order in which threads run, checks the models
with TLC on small instances, and proves the main facts about them with TLAPS
for every value of the constants. Paths below are relative to `src/src/` of the
repository unless they say otherwise.

## The system

| component | state it keeps | operations | modelled in |
|---|---|---|---|
| Operator pipeline (`pipeline/concurrent_operator_pipeline.*`, `plugins/operators/operator_host.*`) | bounded queue, sequence numbers, gate, latest outputs, one thread per worker chain | submit, pop, filter, publish, stop, rebuild | `OperatorPipeline`, `FrameMailbox` |
| Ply sequence loader (`plugins/devices/ply/ply_sequence_loader.*`) | ring of decoded frames, claims, generation, settings | get frame, prefetch, decode, resize, change settings, invalidate | `PlySequenceLoader` |
| Ply device (`plugins/devices/ply/ply_device.*`) | current frame, input cloud, loaded path, tick thread | tick, scrub, load, roll back, reload, settings, transform, destroy | `PlyFiles`, `PlySequenceLoader`, `SessionPlayback` |
| Session playback (`session/session.*`) | playback state, cached length, update thread | play, pause, stop, scrub, loop, clock, scrub devices | `SessionPlayback` |
| Session feed (`session/session.*`, `ui/qml/PointCloudGeometry.cc`) | current cloud, render data, force flag, queued call of the UI | aggregate, feed, clear, receive output, notify, draw | `SessionFeed` |
| Device base (`plugins/devices/device_plugin.*`) | task slots, callbacks, detached flag | claim and release tasks, update, notify, detach | `OrbbecCamera`, `DeviceLifecycle` |
| Device tree (`plugins/devices/device_tree.*`) | group hierarchy | addresses, membership, subtrees | `WorkspaceEditor` |
| Orbbec context and device (`plugins/devices/orbbec/`) | context state, users, callbacks, discovery; camera threads | init, discover, start, stop, restart, time out, capture, shut down | `OrbbecCamera` |
| Workspace (`workspace/workspace.*`) | devices, sessions, configuration, registry contents | apply a configuration, sync devices and sessions, dispose | `DeviceLifecycle`, `WorkspaceEditor` |
| Workspace editing (`ui/models/workspace_model.*`) | undo stack, previews, posted applies, selection | edit, drag, label, move, duplicate, delete, undo, redo, load | `WorkspaceEditor` |
| Configuration registry (`config/`) | fields by address, subscriptions | register, set, notify | `DeviceLifecycle`, `ValuePublishing` |
| Listeners and publishers (`publishers/`, `receivers/`) | changed paths, snapshots, connections, last values | publish, dispatch, reconnect, send, receive | `ValuePublishing`, `ExternalPublishers`, `DeviceLifecycle` |
| Point streamer (`point_streamer/`) | socket, subscriber counts, last clouds | bind, subscribe, encode, send, clear stopped streams | `PointStream` |
| Point receiver library (`pointreceiver/`, `src/include/pointreceiver.h`) | pending frames and messages, subscriptions, two receive threads | subscribe, receive, dequeue, start, stop | `PointStream`, `MessageReceiver` |
| TouchDesigner plugin (`pointreceiver/touchdesigner/`) | shared connections, frame pools, latest messages, outputs | cook, acquire, publish, reconnect, release | `TouchDesignerClient`, `MessageOperators` |
| Session recorder (`recorder/`) | frame queue, depth counter | start, record, write, drain | `SessionRecorder` |
| Operators (`plugins/operators/`) | tracked clusters | filter, extract, match, set outputs | `ClusterTracking` (the one with state) |
| Settings, metrics, log (`app_settings/`, `metrics/`, `core/logger/`, `ui/models/log_model.*`) | settings, server, update queue; buffer, sinks, files | set, enable, record, flush; log, take, rotate | `MetricsServer`, `LogConsole` |
| Alignment (`ui/qml/AlignmentController.*`, `ui/qml/Windows/Alignment/AlignmentWindow.qml`, `registration/`) | snapshot, picks, result, refinement | snapshot, pick, compute, refine, apply | `Alignment` |
| Parsing, codecs, other user interface, plugin loading | | | not modelled |

How they interact. A device decodes or receives a cloud on a thread of its own,
runs it through its own operator pipeline, and stores the result atomically.
The update thread of a session collects the devices' clouds 90 times a second,
feeds their union to the session's operator pipeline and advances the playback
clock, which scrubs the sequence devices through their configuration. The
pipeline's workers call back into the session, which stores the cloud for the
renderer and the streamer. The UI thread calls into sessions and devices; a
workspace listener thread per publisher follows configuration changes through
the registry. The locks are `config_access` and `sessions_access` of the
workspace, `_pipeline_mutex` of each operator host, `_device_mutex` of a ply
device, the loader's `_mutex`, the session's `_playback_mutex`, and the Orbbec
context's `device_api_access`.

What is hard: frames that overtake each other between a gate and the stores
behind it; decodes that end long after the settings they started with were
changed; values chosen under a lock and used after it; the end of threads that
wait on one another; counters reset while their old users are still running.
`PROJECT.json` lists each such place with its line and the properties that
watch it.

What would make each component correct:

- *Pipeline*: only newer frames are shown, the newest is not lost, a frame is
  in one place, a rebuild ends and leaves no thread behind.
- *Loader and ply device*: nothing decoded with old settings is served, no slot
  is lost to a claim nobody will honour.
- *Playback*: the clock plays the loop region frame by frame, devices follow
  the session, a one-shot ends on its last frame.
- *Session feed*: the cloud shown is that of the devices as they are.
- *Device lifecycle*: after a configuration is applied the devices, sessions
  and registry are those it names; no callback runs in a disposed device.
- *Orbbec*: commands end, one thread captures, the state reported is true, a
  shutdown leaves nothing behind.
- *Editing*: paths follow the nodes they name, references exist, what runs is
  what is configured, and undo and redo keep all three.
- *Ply files*: what is shown is the file that is configured, read and placed as
  configured, also after a load that failed.
- *Publishers*: the last value a subscriber has is the last one set, whenever it
  subscribed and whatever socket was replaced.
- *Streamer and receiver*: a client at rest has the newest cloud of what it
  subscribes to, and nothing of a channel that stopped.
- *TouchDesigner*: operators draw whole frames, the newest, and share a
  connection without taking subscriptions from one another.
- *Recorder*: every frame recorded is written, unless its file cannot be opened,
  or counted as dropped.
- *Metrics and log*: a scrape is true; the console shows the newest messages; no
  log file replaces another run's.
- *Clusters*: found clusters are tracked until they are followed or time out.
- *Alignment*: a result that is applied puts one device on the other.

## The modules

### FrameMailbox

What an operator pipeline promises to the one who feeds it: a frame is shown at
most once and never after a newer one; while the mailbox is open only a
superseded frame may be dropped; a closed mailbox may lose anything.

### OperatorPipeline

`hostpc` is where the holder of `_pipeline_mutex` is, in `submit` or in
`rebuild_pipeline`; `queue` and `waiting` are the bounded queue; `pc`, `frame`
and `stopReq` are the workers; `published` is the gate, and `latest`, `camera`
and `delivered` are the three outputs stored after it.

| code | actions |
|---|---|
| `OperatorHost::feed_operator_pipeline`, `submit` | `Submit`, `HandOver`, `Enqueue`, `FindFull`, `EvictOldest` |
| `OperatorHost::rebuild_pipeline`, `stop`, `start` | `BeginRebuild`, `RequestStop`, `AbortQueue`, `Join`, `Replace` |
| `worker_loop`, start and pop | `Register`, `RegisterStopped`, `CheckStop`, `PopFrame`, `PopBlocks`, `WakeUp`, `StopAfterPop`, `GoOnAfterPop` |
| `worker_loop`, operators | `SkipSuperseded`, `TakeOn`, `Process`, `OperatorDrops`, `OperatorThrows` |
| `worker_loop`, gate and stores | `WinGate`, `LoseGate`, `StoreLatest`, `StoreCamera`, `Complete` |

The queue is TBB's `concurrent_bounded_queue`, modelled from how the code uses
it: a blocked `pop` holds a ticket, so a push hands its frame to the pop that
has waited longest, and that frame is no longer in the queue for others. An
`abort` wakes the pops that are blocked at the time, whether or not they have
been handed a frame, and has no effect on later ones. This is why a worker that
checked its stop token before `request_stop` and pops after the `abort` blocks
for good: the join then never returns and `_pipeline_mutex` is never released.
The property `StopEndsOrMissedAbort` says that this is the only way in which a
rebuild does not end.

### PlySequenceLoader

The device calls the loader under `_device_mutex`; `dpc` is where it is in its
call. A decode is a record in `job`: the frame, the generation it was claimed
under, the settings it has read so far. Decodes on the task pool (`Tasks`) and
the device's own (`Device`) go through the same steps, `ReadAttributes`,
`ReadUnits`, then `Store`, `StoreStale` or `DecodeFails`. A cloud is the frame
and the settings it was decoded with, which is all that freshness asks.
`Invalidate` is a step of its own after a setter's exchange, because the code
does one and then the other.

`behind` remembers that the device shows something else than its current frame
for a reason the code accepts: a decode failed, or a tick moved the current
frame back into a changed loop and returned without loading
(`ply_device.cc:192` and `:205`).

### SessionPlayback

`playback` and `cached` are the session's fields, `loop` the place and locals
of the update thread, `scrub` the state of `scrub_devices` in each of the two
threads that run it, `device` what a scrub and a tick see of each device.

| code | actions |
|---|---|
| `playback_play` ... `playback_set_looping`, `update_config` | `Play`, `Pause`, `Stop`, `Scrub`, `SetLoop`, `SetLooping`, `UpdateConfig` |
| `scrub_devices` and `PlyDevice::on_config_field_changed` | `Gather`, `WriteDevice`, `SkipDevice`, `ApplyDevice`, `EndScrub` |
| `update_loop` | `Collect`, `PublishLength`, `PublishNothing` |
| `advance_playback` | `Advance`, `HoldFrame`, `NotPlaying` |
| `PlyDevice::tick`, loads and edits | `TickBegins`, `TickAtEnd`, `TickEnds`, `Load`, `ChangeMembership`, `SetDevicePlaying` |

The frame a thread has chosen under `_playback_mutex` waits in `scrub` until
that thread applies it. A device's configuration is written without a lock and
applied under the device's mutex, in two actions; a tick holds the mutex from
`TickBegins` to `TickEnds` and may overwrite the configuration in between. The
accumulated fraction of a frame is left out, so `fps` is too: an iteration of
the clock may advance by 0 to `MaxAdvance` frames. A tick advances by one frame.
The devices are those of one session.

### SessionFeed

The other half of the update loop, and what becomes of the clouds it feeds.
`loop` is the update thread with its locals; `force`, `current` and `render`
are `_force_reprocess`, `_current_point_cloud` and `_latest_render_data`;
`notified` is the flag of the gate that merges calls of the UI, `ui` the UI
thread and what it drew last. The session's pipeline is an instance of
`FrameMailbox` (`offered`, `pending`, `shown`, `rejected`, `open`), which
`OperatorPipeline` is shown to implement: feeding is its `Offer`, a worker that
wins the gate its `Show`, a rebuild its `Close`, `Discard` and `Reopen`. What a
frame was made of is in `payload`; the calls of `on_pipeline_output` in
progress, at most one for each worker, are in `publishing`.

| code | actions |
|---|---|
| `Session::update_loop`, `feed_operator_pipeline` | `Collect`, `ReadCloud`, `TakeClouds`, `FindUnchanged`, `Feed`, `FindCleared`, `ClearCloud`, `ClearRender`, `ClearNotify` |
| pipeline workers, `on_pipeline_output` | `Publish`, `Supersede`, `RejectFrame`, `StoreRender`, `StoreCloud`, `Notify` |
| operator edits, `sync_operators`, `rebuild_pipeline`, `reprocess` | `EditOperator`, `BeginRebuild`, `LoseFrames`, `EndRebuild`, `Reprocess` |
| queued call of the UI, `updateGeometry` | `BeginDraw`, `DrawCloud`, `DrawRender` |
| devices and configuration | `NewCloud`, `NoCloud`, `ChangeMembership` |

A cloud is a number, a new one for each cloud a device makes; 0 is a device
without points. A frame shows the set of clouds it was made of and a version of
the operators somewhere between the one it was fed under and the present one,
because the operators of a chain are edited while a worker runs it. Two
variables are history: `cleared` is the last frame fed before the session was
last cleared, and `late` says which of the two stores was last written by a
frame that a newer one or a clearing had overtaken, which is what
`pipeline_overtake` and `feed_clear` show to happen. The properties about the
final state except those stores, and a newest frame that an operator refused.

### OrbbecCamera

The process-wide context and, per camera, the threads that start, stop and
watch it. `api` is who holds `device_api_access`; `job` is, for each of the
threads `a` and `b` (two initialisation threads, since assigning the jthread
joins the one before but the new one already runs) and `closer` (the one in
`shutdown`), what is left of its work and where it stands in it; `capture` are
the pipeline threads alive; `tasks` counts the frames being processed; `watch`
is the timeout thread.

| code | actions |
|---|---|
| `ObContext::init_async`, `run_on_ready` | `ContextThread` (ready, failed, drain), `Enqueue` |
| `discover_devices`, the device-changed callback | `Discover`, `Query`, `Publish`, `Plug` |
| `update_config`, `on_config_field_changed` | `Create`, `Kickoff`, `UserCommand` |
| `start_sync`, `stop_sync`, `restart` | `JobSteps` (stop: look, request, lock, join; start: lock, fail, launch) |
| `pipeline_thread_work` and the two capture loops | `CaptureSteps`, `RgbdFrame`, `LidarFrame`, `CaptureThrows`, `TaskEnds` |
| `timeout_thread_work`, `set_updated_time` | `WatchSteps`, `Silence` |
| `shutdown` | `Shutdown`, `CloserSteps` |

A query of the hardware may throw on the way: what it has found until then is
published all the same (`unread`). A frame that was seen becomes stale by a step
of its own (`Silence`), so the five seconds of the timeout are any time. `leaky`
marks a camera that met one of the gaps of the code which
`ShutdownLeavesNothing` exempts; each is set at the line where the gap is.

### DeviceLifecycle

`applying` is where `Workspace::apply_new_config` is; `plugins` are all
instances ever made, each with its life (live, leaving, gone), its worker chain,
its callbacks and its thread; `inUse` is `Workspace::devices`; `fields` is the
registry; `setting` is the OSC thread inside `ConfigRegistry::set`.

| code | actions |
|---|---|
| `apply_new_config`, `sync_devices`, `sync_sessions`, `rebuild_config_registry` | `StoreConfiguration`, `BeginSync`, `SyncReused`, `SyncNew`, `BeginDispose`, `EndDispose`, `ReplaceDevices`, `SyncSessions`, `ClearRegistry`, `RegisterDevices` |
| `WorkspaceModel::syncDeviceAdapters` | `HookCallbacks` |
| `OscReceiver::reconfigure`, `dispatch`; `ConfigRegistry::set` | `Reconfigure`, `LookUpField`, `WriteField`, `NotifyField` |
| the posted adapter call, `on_config_field_changed` | `FieldChanged` |
| a device's thread calling the UI | `NotifyLooks`, `NotifyCalls`, `NotifyEnds` |
| the teardown pool | `StartTeardown`, `EndTeardown` |

An unknown device kind becomes a `NullDevice`, which no later configuration
fits, so it is made again at each apply: the model does the same.

`on_config_field_changed` hands each configured operator to the worker's operator
at the same position. Where the plugin of one was not found the chain is shorter
than the configuration, and the last access is past its end: the program ends
there (`crashed`) or goes on with the operators handed to the wrong ones.

### WorkspaceEditor

`config` is the whole configuration: a tree of groups and devices with their
operators, sessions, and the sets of published, pushed and rendered paths.
`devices` are the running plugins with their copies, `registry` what may be
published, `undoStack` the commands with the configuration of either side,
`posted` the applies that wait for the event loop, `preview` the drags under way.

| code | actions |
|---|---|
| adding, removing, moving, grouping, duplicating, labelling of nodes | `EditTree` |
| sessions and the switches of nodes in them | `EditSessions` |
| operators of devices and sessions | `EditOperators` |
| fields of devices, groups, sessions, operators, settings; previews | `EditFields` |
| publish and push paths | `EditPaths` |
| `loadFromFile` | `LoadFile` |
| the `QUndoCommand`s and their posted applies | `Undo`, `Redo`, `RunPosted` |

Paths are sequences of labels, because rerooting compares prefixes of them;
values are numbers. `crossed`, `apart`, `unlisted` and the field `blurred` of a
configuration are history: they say that one of the divergences listed under
*What the models leave to the code* has happened.

### PlyFiles

`plyConfig` is the configuration, `loadedPath` and `folder` what the device has
loaded, `input` its cloud before and `shown` after the transform; `caller` is
where the user interface and the OSC receiver are between `SetField`, the
notification, the load and the rollback. A reading is the units and the rows of
the file's attributes, which the first look at its header makes. A single file
is read with the rows just made; a sequence is opened before they are made and
goes on without them, and `Told` hands it one changed field at a time. A directory
that has gone is taken for a single file.

| code | actions |
|---|---|
| the registry's set and `on_config_field_changed` | `SetField`, `PathNotified`, `ReadingNotified`, `PlaceNotified`, `LoadChosen`, `Rollback` |
| `update_config`, `on_session_membership_changed` | `UpdateConfig`, `SessionChanges` |
| the group's transform, the operators of the device | `MoveGroup`, `OperatorEdited` |
| `tick` | `TickReprocesses`, `TickAdvances` |
| the file system | `DiskChanges` |

### SessionRecorder

A recording has a recorder thread and a writer thread; a second pair may start
before the first has ended. The depth is a counter modulo `DepthModulus`, which
a start resets under a writer that still counts down. Actions: `StartRecording`,
`StopRecording`; `RecordFrame`, `CountFrame`, `EndLoop`, `RecorderGone`;
`WriterBegins`, `WriterBegins`, `TakeFrame`, `WriteFrame`, `StartDrain`, `Drained`,
`WriterGone`; `FileWritten` for the task pool, which may find that its file does
not open.

### PointStream

The streaming thread (`Rebind`, `Tick`) and one client of the receiver library
(`StartReceiver`, `StopReceiver`, `Subscribe`, `SyncSubscriptions`, `Receive`,
`DequeuePointCloud`) with the network between them (`Connect`, `Cut`) and the
sources (`SourceChanges`, `SwitchChannel`). A pass of the thread is one step. A
cloud is a version; `wire` is the frames between the sockets, `up` the
subscriptions on the way back, `overrun` and `unheard` remember what did not
arrive.

### TouchDesignerClient, MessageOperators

The plugin's two kinds of operators over shared connections. For clouds:
`SetAddress`, `SetCapacity` (which empties the operator's buffers), `Look`,
`Copy`, `PassOver` (an operator cooks), `Reconnect`, `Restart`,
`Replay`, `Withdraw` (the stages of `reconnect`), `WriteInto`, `PublishFrame`
(the worker, which writes into a frame nobody else holds). For messages:
`SetParameters`, `GetOutputInfo`, `Execute` (the two calls of a cook) and
`StoreMessage` (the worker). A connection ends with the last operator that holds
it, in both.

### ValuePublishing, MessageReceiver, ExternalPublishers

`ValuePublishing` is the way of a value out: registry, publisher thread, inproc
socket, listener thread (`ReadSettings`, `HandleChanges`, `TickStreamer`,
`ReceiveUpdates`), the threads that wait 200 ms for a new subscriber
(`DelayEnds`), client (`ClientReads`). `MessageReceiver` is the library's side,
with the same threads of the streamer (`AnswerIsDue`, `LastValueSent`): the receive
thread (`SyncFilter`, `ReceiveMessage`, `NothingReceived`, `ReceiveThrows`,
`LoopEnds`) against the client's calls (`SubscribeToMessage`,
`UnsubscribeFromMessage`, `StartMessageReceiver`, `StopMessageReceiver`,
`Joined`, `DequeueMessage`). `ExternalPublishers` is the same listener loop with
an MQTT client or an OSC sender behind it (`TickPublisher`, `HandleUpdate`,
`BrokerLost`).

Three losses are in them. The paths to be sent again go through a queue made for
one producer, into which each waiting thread enqueues: of two at once, one may
overwrite the other's. The sockets keep 32 messages for a slow client
(`SendLimit`, `MailLimit`) and drop what comes on top. An MQTT publish that was
not done in time throws, and its message may go out nevertheless; each OSC
datagram, the length and each element, arrives or is lost by itself. Datagrams
out of order are left out, as is the order of an MQTT message behind the next.

### MetricsServer, LogConsole

`MetricsServer`: the setters of the settings (`SetHere`, `SetElsewhere`,
`RunSetter`), the control threads that run `set_enabled` (`ControlRuns`,
`JoinControl`), and the metrics thread (`Record`, `BeginFlush`, `EndFlush`)
against whoever updates a series (`SetGauge`, `SetCounter`, `ObserveDuration`).
`LogConsole`: the buffer and the model that empties it (`Log`, `OpenConsole`,
`FirstTake`, `PostedTake`, `ExpireRecentEntries`, `CloseConsole`), and the log
files (`EnableFileLogging`, `MoveLogFile`, `OpenLogFile`, `DisableFileLogging`,
`Crash` at any place of a rotation).

### ClusterTracking, Alignment

`ClusterTracking`: workers find the boxes of their frames at the same time
(`ExtractClusters`), match them under the lock (`MatchClusters`) and set the
output fields one by one (`SetOutput`). A box is the place of its centre on a
line; the lists a frame may have are a constant, any of any length. `Alignment`:
the window (`SnapshotClouds`, `PickPrimary`, `PickSecondary`, `UndoLastPick`,
`ResetAlignment`, `BackToPicking`), the controller (`ComputeFromPairs`,
`Refine`, `RefinementFinished`) and the workspace model (`ApplyResult`,
`MoveDevice`). A transform is a movement along a line; the units are kept,
because the window counts in centimetres and the clouds in millimetres.

### What the models leave to the code

Several properties hold except after something the code does that a careful
reader may not expect. Each exception is a history variable, set at the places
where it happens; these are all of them:

- `PlySequenceLoader.behind` and `SessionFeed.late`, described above with their
  modules; the feed's properties also except a newest frame that an operator
  refused (`rejected`). `LockedOut`, a start that joins the capture thread waiting
  for its lock, and the pop that missed an abort are exceptions of
  `CommandsEnd` and `StopEndsOrMissedAbort`.
- `OrbbecCamera`: `leaky`, a restart by the timeout thread after `shutdown`, an
  older initialisation thread nobody joins, a capture thread that ended by an
  exception, a failed start over a live capture thread; `unread`, the query of
  the hardware as it is now failed; `refused`, a discovery turned away by one in
  flight; and a discovery that still lies among the callbacks of a context that
  has run them.
- `DeviceLifecycle`: the `apart` of an instance, a field set that its listener
  did not hear of or heard of for another one, an operator's field of an Orbbec
  camera, and operators handed out by position where one had been skipped.
  A `crashed` program takes no further step.
- `WorkspaceEditor`: `crossed`, a posted apply that brings back an older
  structure; `apart`, an undo of an operator's edit that restores the
  configuration but not the plugin's copy, and an edit by id after a move;
  `unlisted`, a device whose operators changed since the registry was filled;
  `blurred`, two nodes of one address, one of which takes the paths of both.
- `PlyFiles`: `concurrent`, two callers under way at once; `unreadable`, paths
  that could not be loaded; `unapplied`, what a replacement of the whole
  configuration changed besides the path, an edit whose load failed, and the
  rows of a sequence opened before it had any; `missed`, the last frame asked of
  a sequence did not decode.
- `SessionRecorder`: `overlapped`, a recording that starts while the last drains;
  `unopened`, files that could not be opened, whose frames nothing counts.
- `PointStream`: `overrun`, the newest frame of a channel did not fit its queue;
  `unheard`, an empty frame was sent on a socket without clients.
- `TouchDesignerClient.bare`: an operator's buffers were made anew for another
  capacity and hold no frame yet, which it nevertheless counts as drawn.
- `ValuePublishing`: `unkept`, a value sent before the listener joined; `lost`, a
  message above the limit, one unread when the socket was replaced, or a path
  overwritten in the queue; `outdated`, a change handled with the settings read
  before it, or never notified (undo, redo and loading a file do not notify
  `publishers/`).
- `MessageReceiver.dropped`: a message above the limit or a path overwritten in
  the queue, until the next message of the path.
- `ExternalPublishers`: `unsure`, a topic dropped while offline, whose publish
  threw or timed out, of which a datagram was lost, or that was silenced by
  another topic of the same value type, an earlier connection or although a late
  message may have followed; `behind`, as `outdated`.
- `MetricsServer`: `overtaken`, a control thread that ran after a newer one;
  `refused`, settings whose endpoint could not be bound; updates lost with a
  registry that was replaced while they were flushed.
- `LogConsole.missed`: messages taken by consoles that are gone.
- `ClusterTracking.crossed`: outputs set while another worker was setting them.
- `Alignment.untouched`: a device that was moved or aligned since the snapshot; and
  a result of an older snapshot.

## Plan

1. `FrameMailbox`, `OperatorPipeline` with its refinement and proofs: done.
2. `PlySequenceLoader`, `SessionPlayback`, `SessionFeed` with proofs: done.
3. Devices and files: `OrbbecCamera`, `DeviceLifecycle`, `PlyFiles`: done.
4. Editing: `WorkspaceEditor`, `Alignment`: done.
5. Recording and streaming: `SessionRecorder`, `PointStream`,
   `TouchDesignerClient`, `MessageReceiver`, `MessageOperators`: done.
6. Values: `ValuePublishing`, `ExternalPublishers`, `MetricsServer`,
   `LogConsole`, `ClusterTracking`: done.
7. Proofs about 3 to 6: done, but for what the last section of *Proofs* lists.
   Left: `PathsFollowNodes` of the editor.
8. Left: several Orbbec cameras synchronised by hardware; two sessions that
   share a device; camera frames in `SessionFeed`.

## The runs

| run | instance | what it shows |
|---|---|---|
| `pipeline` | 2 workers, queue of their capacity, 4 frames, 1 rebuild, fair | one holder per frame, no thread outlives its pipeline, newest frame kept and shown, `FrameMailbox` implemented, a rebuild ends but for the missed abort |
| `pipeline_overtake` | 2 workers, 2 frames | violated: `_latest` goes back to an older frame |
| `ply_loader` | 2 frames, rings of 1 and 2, 2 tasks, 2 settings of each kind, 2 invalidations | fresh ring, current frame served, no claim leaked |
| `playback` | 1 device of 0 or 3 frames, 2 calls, 1 edit, advances of up to 2, fair | the clock stays in the loop region, one-shots end on the out point, a playing session realigns its device |
| `playback_phase` | 2 devices, 2 calls | violated: paused devices out of phase with the session |
| `playback_length` | 1 device, 2 timelines, 1 reload | violated: the clock plays another length than the session shows |
| `feed` | 1 device, 2 workers, 2 changes, 1 edit or rebuild, fair | no call of the UI is lost; the feed comes to rest; then the session has what its devices have under the present operators, and the UI has drawn it, buffer and cloud of one frame |
| `feed_clear` | 1 device, 1 worker, 2 changes | violated: a session that nothing feeds shows a cloud |
| `studio` | the camera, editor, recorder, device, file and alignment modules, one after the other | `OneCapturePerCamera`, `ReportsAreTrue`, `ShutdownLeavesNothing`, `CommandsEnd`; `ReferencesExist`, `RunningAsConfigured`, `PathsFollowNodes`; `RestIsComplete`; `NoCallAfterDetach`, `AppliedIsRunning`; `ShownIsConfigured`; `AppliedAligns` |
| `studio_rebuild` | the same configuration applied twice | violated: a pipeline is rebuilt although its operators did not change |
| `network` | the stream, client, publishing, receiver, message, external, metrics, log and cluster modules, one after the other | `QuietClientIsCurrent`; `OperatorsDrawWholeFrames`, `OperatorsStaySubscribed`; `QuietSubscriberIsCurrent`; `QuietReceiverIsCurrent`; `CookedShowsNewest`; `DestinationsAreCurrent`; `ServerFollowsSettings`, `MetricsAddUp`; `ConsoleShowsNewest`, `RotationKeepsRuns`; `ClustersAreFound` |
| `stream_stopped` | 2 channels, 5 changes | violated: a channel switched off keeps its last cloud at the client |

`MCStudio` and `MCNetwork` put modules that share no variable into one run:
`part` is chosen at the start and only that module moves. This is no
composition: the state spaces add up and do not multiply. Where components do
interact, the interaction is inside a module (`SessionFeed` over
`FrameMailbox`, the streamer with its client, the workspace with the OSC
receiver, the editor with plugins and registry).

Bounds. In `pipeline`, two workers and four frames let one hold an old frame
while the other finishes a newer one, with a full queue behind them; a rebuild
brings every worker to its end from every place. Two tasks and two
invalidations let a decode of each generation run beside the device's own; a
ring of one slot makes every frame collide, a ring of two none.
`buffer_capacity` and `prefetch_ahead` have floors of 8 and 1 in the code
(`ply_device.cc:27`); the instance takes smaller rings so that they fill, and
the theorems hold for every capacity. In `playback` two calls and one edit are
enough for a load, a membership change or a device set playing to fall into a
scrub of either thread; an advance of 2 in 3 frames passes the out point by one
and by two. In `feed` two changes give a cloud and its replacement, its loss, or
the device's departure, with a frame of the first still in the pipeline or in
the hands of a second worker; the edit or rebuild falls before, between or after
them. A second device adds only the union, which the proofs cover for any list
of devices; with it the instance is past what is checked in minutes.

In `studio`: one camera with two events (a start and a restart or silence beside
them, so that two initialisation threads and the timeout thread meet) and two
changes of the hardware, so that a discovery in progress misses one; an editor
that opens a group with a device and an operator, all published, and makes three
calls with four nodes, two sessions and three operators, so that an edit,
another and an undo of the first fall behind one another's posted applies; a
recorder with a queue of one and two recordings of two frames, which overflows
and overlaps; three workspaces (one device; two, with an operator whose plugin
is missing; the same device of a missing plugin), two applied one after the
other with one field set over OSC; a file and a folder with three changes; three
placements and two errors for the alignment. In `network`: two channels, a wire
of one frame and five changes, so that a channel overflows, is cut, and is
switched; two cloud operators over two addresses with a pool of two; two fields
with two ports, two updates on the bus, room for one unread message, and three
edits, so that two subscriptions wait at once and a burst is dropped; one
readable and one unreadable address, two messages between the sockets and two in
the queue; two message operators over two servers; two topics of lengths 0 and 2
over two targets with a limit of 1; two endpoints, two settings, two measures,
one restart; four messages, a buffer of three over two rows, two openings and
one crash; two cluster workers, three places, three frames and lists of up to
three boxes, two of them near one another or at one place.

Symmetry is used in `ply_loader` over tasks, units and attribute tables, which
are only compared. `CHECK_DEADLOCK FALSE` is set where the bounds let the
system stop (no frame left to submit, no setting left to change).

Fairness. `OperatorPipeline`: each worker thread and the holder of
`_pipeline_mutex` keep running (weak fairness); nobody has to submit or
rebuild. `SessionPlayback`: the update thread keeps iterating, and since it
adds elapsed time to the accumulator whole frames keep falling due (strong
fairness of `Advance`); each call and each tick ends; a scrub gets the device's
mutex because the tick thread sleeps 10 ms between ticks (`ply_device.cc:349`;
strong fairness of `ApplyDevice`). `SessionFeed`: the update thread iterates,
the workers handle what is pending and finish what they publish, the UI thread
ends what it has begun and runs the call that is queued (weak fairness, each).
This assumes that rebuilds end and operators do not throw: `OperatorPipeline`
shows where they do not (`StopEndsOrMissedAbort`, `OperatorThrows`), and a
session behind such a pipeline stays as it is. `OrbbecCamera`: process tasks
end, the threads that start, stop and shut down run, and so do the capture
threads (weak fairness, per camera); no frame has to arrive, no camera to
answer, and the timeout thread need not run. `CommandsEnd` holds under it except
for the one lock it names.

Every property of a passing run has a mutant in `PROJECT.json`: the definition
in the module called a slip, next to the one it replaces.

## Findings

- *Overtaking outputs* (`concurrent_operator_pipeline.cc:127`). The comment at
  the gate promises that only newer frames are shown. The gate orders who may
  publish, not the stores that follow; with two workers `_latest`, the camera
  frames and the session's cloud can end on the older of two frames, and stay
  there while no further frame comes.
- *Devices out of phase* (`session.cc:277`). Playback state changes under
  `_playback_mutex`, the devices are scrubbed after it. A clock step and a call
  of the UI can reach the devices in the other order, so that after a pause or
  a stop the devices stand on a frame the session has left, or each on another.
  `PlayingRealigns` shows that a session that goes on playing recovers.
- *Stale length* (`session.cc:331`). `_cached_total_frames` is only stored with
  a change of the length shown. A session configured with a length of its own,
  then without one, after its devices changed to that same length, plays the
  old frame count from then on.
- *A cleared session shows an old cloud* (`session.cc:371`). The update loop
  clears the session when none of its devices has points, but a frame fed
  earlier may still be in the pipeline. It is stored after the clearing; the
  list of clouds does not change again, so nothing clears it a second time.
- *A stopped channel stays on the screen* (`point_streamer.cc:188`). The limit
  of the socket's queue is twice the number of enabled channels, so switching a
  channel off replaces the socket before the pass that notices that the channel
  stopped; the empty cloud that should clear the clients is sent on a socket no
  client has connected to yet, and the channel is then forgotten.
- *Every apply rebuilds pipelines* (`operator_host.cc:100`). `sync_operators`
  compares the new instances with a list it has just moved from, so a device
  with operators has its pipeline stopped and rebuilt at every apply that
  reaches it, although `workspace.cc:419` says that this does not happen by
  itself.

Beyond the bounds of the runs, and without a line of the repository to hold it
against: *a gesture left unfinished can tie the tree into a cycle*
(`workspace_model.cc:570`). A drag of a group's fields keeps the snapshot of the
configuration it began with. If it is never committed, nodes are moved in between,
and a later edit of the group ends it, the command restores that old snapshot
with the group's present parent: the group can come to lie below one of its own
children, or below a node that the snapshot does not have. The walks up the tree
(`device_address`, `isDescendantOf`) then do not end. `ReferencesExist` speaks
of the configurations before such a return (`~crossed`); random simulation with
more calls than `MaxCalls` found it, and `ReferencesIInv` shows that only an
older structure can.

## Proofs

The `_proofs` modules hold for every number of workers, frames, tasks, devices
and every bound, from the `ASSUME` of the module they extend.

*OperatorPipeline_proofs*. `IInv` joins the types with five facts: where the
host is limits which workers are stopped or done (`HostInv`); the workers in
`waiting` are blocked and distinct, and while there are any the queue is empty
(`WaitingInv`); queued frames are increasing and submitted (`QueueInv`); held
frames are older than all that is queued, and not held twice (`HolderInv`); the
published frame is older than all that are queued, and no worker holds it
before the gate (`ShownInv`). None of the checked invariants is inductive
alone: that a frame has one holder needs that the queue is increasing, which
needs that the host has not yet numbered its next frame. From `IInv` follow
`TypeCorrect`, `FramesHaveOneHolder`, `QueueIsBounded`, `StopJoinsEveryWorker`.
`Refinement` maps each step to a mailbox step or a stutter, with
`PendingFrames` (queued, held before the gate, or about to be pushed) as
`pending`; `NewestNeverLost` is then proved of the mailbox's own state.

*PlySequenceLoader_proofs*. The strengthening says of every running decode that
it has read the settings in force if its generation is the current one, except
between a setter's exchange and its invalidate (`JobInv`); that the device
decodes only inside `get_frame` (`DeviceInv`); that what a prefetch has read of
the generation is still true (`PrefetchInv`); and that a claim stands in the
slot of its frame (`ClaimsInPlace`). From it follow `TypeCorrect`,
`RingStaysFresh`, `DeviceServesCurrent`, `NoClaimIsLeaked`.

*SessionFeed_proofs*. That a quiet session shows its devices is a chain of five
facts, each inductive with the types: the last frame fed is made of the clouds
the loop took last and of the present operators, unless the loop or the flag
has still to see to it (`FedInv`); the newest frame is pending, shown or
refused while the pipeline is open (`KeptInv`); what is being stored is what a
shown frame carries (`PublishedInv`); what is stored and not late is the frame
shown (`StoredInv`); a session whose devices have nothing is cleared
(`ClearedInv`). Their conjunction gives `QuietSessionShowsDevices`.
`NoCallIsLost` is inductive with the types alone. `OneFrameIsDrawn` (the buffer
and the cloud on the screen are of one frame) needs that a frame has one call of
`on_pipeline_output`, and what its stores have come to at each place: past the
first store the buffer is that of the shown frame unless a store was late
(`BufferInv`), past both the two agree (`PairedInv`). A clearing falls between
the two stores only when `cleared` has reached the newest frame, which is what
`ClearedInv` is for; `NoCallIsLost` then carries the agreement to the screen.

*OrbbecCamera_proofs*. One invariant for the camera and its context. The holder
of `device_api_access` is the thread that looks for the camera or joins its
capture thread (`HolderIsMid`), so commands exclude each other there although
their threads overlap; a second capture thread exists only while the start that
launched it still joins the first, and is not yet in its loop
(`CapturesAreOrdered`): from this follows `OneCapture`. `TrueReports` needs what
`running` and the error state say while commands are under way (`StatusIsKept`),
and that a change of the hardware which is not listed is in a query, asked for,
waiting for the context or refused, or a query of it failed (`ChangeIsAsked`).
`CleanShutdown` needs that from the stop inside `shutdown()` on no other thread
of the camera works, and that a task in flight has a capture thread in its loop,
unless the camera is `leaky` (`ShutdownIsAlone`). What is connected when the
program starts is not listed before the first discovery, so the theorem speaks
of the list once there is a device, whose context has asked for it.

*Clients_proofs*, six modules. `TouchDesignerClient`: two arguments in one
invariant. Subscriptions: the counts are the cardinalities of the sets of
operators that show an address (`RefsInv`), and the context is subscribed to
what is counted while the main thread cooks (`SubscribedInv`);
`SubscriptionsStay` follows. Frames: no operator has seen a number above the
address's count (`NumberInv`, which is why a reconnect that starts the numbers
anew would be wrong); the frame being written is in nobody's hands (`WriteInv`);
the frame being copied stays as it was, and what is published since has a higher
number (`ViewInv`). With these an operator that has seen the published frame has
drawn it, or its buffers are `bare` (`WholeFramesAreDrawn`).

`MessageReceiver`: `ClientsCatchUp` follows the newest value of an address from
the streamer to the client. While the socket subscribes to the address, a tiding
of it is on its way, or the streamer owes it its value, or the newest value
comes last of those in the mail, or, with none in the mail, last of those in the
queue, or the client has it, or it was `dropped` (`CoveredInv`). Two facts carry
this over a resubscription: an address that is told to be dropped and is
subscribed to is told to be added behind it (`ReachInv`), which depends on the
order in which `SyncFilter` reports; and between two syncs the socket subscribes
to exactly the snapshot, or to nothing when the snapshot is none (`FilterInv`),
which is why a new thread must not start with the old snapshot. `ListOfSet`
proves what `SetToSeq` lists, from the pigeonhole theorem; addresses differ from
the empty one and from the mark of a missing snapshot (`ReceiverAssumption`).

`MessageOperators`: revisions count up within a connection (`EntriesSound`), and
what an operator remembers is of the connection it holds: with the revision of
an entry it has the entry's value (`NodesSound`). An operator that has cooked
since its parameters changed then has the newest value and, when nothing is
being cooked, outputs it (`SettledShow`); `CooksShowNewest`. The names that
stand for no server, reader and id are none of them (`MessageAssumption`).

`ValuePublishing`: what the publisher last compared with is the last value of
the field on the socket or, with none there, the value kept, unless the streamer
had not joined (`KeptInv`); the last request of a subscribed field is one to add
it, or none is under way and its count is positive (`CountedInv`); and what a
client has is the value kept, or it is about to be sent, or it was `lost`
(`ToldInv`).
`SubscribersCatchUp` follows. The subscriptions are counted by a recursive
function over the queue of requests: the lemmas about it say that a queue whose
last request of a field adds it leaves the count positive.

`ClusterTracking`: `TakenBy` takes only clusters near one of the boxes, and
`KeptInTime` keeps exactly those that are not taken and in time. So what was
found is tracked, followed or late by the clock of the last match (`FoundInv`),
what is tracked was found (`RealInv`), and a worker that crossed none sets its
outputs alone, with the boxes matched last (`OutputsInv`). `ClustersStayFound`
follows, for lists of boxes of any length.

`PointStream`: the newest cloud of a channel that has left the streamer is the
last on the wire, else the one waiting in the client, else the one shown. It is
what the streamer has cached, unless a subscription the channel matches is still
under way or the queue overran (`StreamedInv`); with nothing cached it is empty,
unless the clearing reached nobody or overran (`ClearedInv`); and nothing is on
the wire of a client that is not connected (`ApartInv`). `StreamCatchesUp`
follows. The streamer's subscriber counts are not needed: they decide whether to
send, and sending once more than necessary shows nothing else.

*Devices_proofs*, three modules. `PlyFiles`: the input and an open sequence are
of the loaded path (`CloudIsLoaded`); a placement or reading that is not what is
configured has a notification coming or is noted as not applied (`PlaceIsTold`,
`ReadingIsTold`); and, as long as two callers were never at once, whoever loads
loads the configured path, and a path neither loaded nor unreadable is about to
be loaded or rolled back (`PathIsTold`). `ConfiguredShown` follows. Without
`concurrent` it is false, as `PathIsTold` shows: both callers choose before
either loads.

`Alignment`: a result of the last snapshot moves the frozen device to its
error (`ResultInv`), a refinement under way of the last snapshot was given where
that froze the device (`RefinementInv`), and none is of a snapshot to come; the
integers in place of the code's floats need placements that are whole
centimetres (`AlignmentAssumption`). `ResultsAlign` follows.

`DeviceLifecycle`: `LifecycleInv` says what holds in the middle of an apply.
Every live instance is held already, or old and still to be matched, or the one
that is leaving, and in one of the three only (`LiveAreHeld`); the held ones
match the first devices of the new workspace in order, and the rest of the
workspace is still to do (`HeldMatch`); live instances have different ids
(`IdsDiffer`), fields and a setting under way lead to the instance of their id
(`FieldsLead`, `SettingLeads`); an instance that is not live calls nobody
(`InstancesSound`); and the workers of a live one run its operators, or it will
be told, or it was edited apart (`ChainsFollow`). `NoLateCall` is a part of
`InstancesSound`; `AppliedRuns` needs all of them. `WorkerChain` picks the operators whose
plugins are loaded by their rank, and `RankExists` proves by a least
counterexample that each rank up to their number is taken. The assumption on the
constants types the workspaces and lets no two devices of one have the same id,
as identifiers are generated.

*Services_proofs*, five modules. `SessionPlayback`: types are inductive once it
is added that a device in a tick has a sequence (`PlaybackTypes`). `LoopRegion`,
`WrapStays` and `LandingInLoop` bound the arithmetic of the clock;
`ClockStaysInLoop` and `OneShotReachesOut` follow.

`SessionRecorder`: `NoFrameIsLost` needs, with
the types, who is there and whose files there are: the writer of a recording
ends before its recorder, and what is queued or held has somebody to take it
(`ThreadInv`); a recording that has the recorder for itself finds only its own
frames in the queue and in hand, and those on the way to a file and those
dropped add up to what it was given (`AloneInv`, by cardinalities); no file
belongs to a recording to come (`PastInv`). A recording at rest has then
written what it did not drop, but for the files that did not open.

`MetricsServer`: while no control thread was overtaken the newest one
carries the present settings, and when none is left the endpoint is as they say
(`NewestInv`); `EndpointFollows`, for any number of settings from any thread.
`ScrapesAddUp` is a second invariant, over the other variables: a registry once
left is not taken up again (`RegistriesInv`); observations that wait come after
those shown (`ObservedInv`); the newest value of a series is its last in the
queue, else the pending one, else what is shown (`LatestInv`). The hard part is
that a count that starts again is added as a whole: `CountInv` gives every total
on its way a date, the count of all increments when it was posted, and says
that from one date to a later one no more is added than was counted between
them; what is shown then never exceeds its own date.

`LogConsole`, in two invariants without a variable in common. Files: those of a
target are in the order of their runs at every step of a rotation, and the place
above the file it moves next is free (`RotationInv`), so a program killed there
loses the gap and no file: `RunsAreKept`. Console: the buffer is a run of
consecutive messages up to the newest (`Buffered`); until the buffer is full the
rows end where it begins (`RowsFollow`), and a full buffer replaces every row,
because a console has no more rows than the buffer has places
(`LogAssumption`, from the constants of the code); the recent ones are the last
rows, timed by the first of them, since they expire from the front
(`RecentFollow`); an open console has a call posted for what is buffered
(`Woken`). `NewestAreShown` follows.

`ExternalPublishers`: with nothing of the settings under way a connection is to
their target (`LinkFollows`); what was told of a topic that is not `unsure` is
what was meant last, whole (`ToldIsCurrent`); and a topic that silenced others
is empty at the destination (`SilencedIsEmpty`). `CurrentDestinations` follows.
Lists have a greatest length (`ExternalAssumption`), since a destination keeps
the elements of a longer list behind those of a shorter one.

*WorkspaceEditor_proofs*. Two arguments in one invariant. References: with the
configuration, what an undo, a redo, a posted apply or the end of a gesture may
bring back is a set of snapshots, and `ReferencesIInv` says of each that it is
`Level` with the configuration: its structure is no newer, and if it is the
same the snapshot has the same nodes under the same parents, and is sound
itself. Without it `ReferencesExist` is not inductive, since an undo replaces
the configuration by a snapshot. The other half is `Mended`: the present
configuration is sound, its selected session exists, the plugins are those of
its devices, and their own copies name a parent that exists, which a message to
a plugin writes back. That no group is within itself is stated over sets (every
set of groups has one whose parent is outside, `Grounded`): moving a node below
one that it does not contain keeps it, as does lifting the children of a deleted
group. `RunningIInv` is `RunningAsConfigured` with the kind of the node, and
goes through each of the paths that write one of the two copies. Both hold for
any set of files to open that the program could have saved
(`EditorAssumption`), any labels and any number of calls.

Recursive definitions. `Counts`, `TakenBy`, `KeptInTime` and `Others` go along
a queue. They are recursive functions, and what they compute is proved by
`LeastNat` (every set of numbers has a least one, from the well-foundedness of
the numbers), `StepByStep` (what holds at zero and from each number to the next
holds up to the last) and `StepsExist` (such a function exists), which take sets
and functions as parameters where the induction theorems of the library take
operators.

Only model-checked:

- everything under fairness (`NewestIsShown`, `StopEndsOrMissedAbort`,
  `PlayingRealigns`, `OneShotEnds`, `FeedSettles`, `CommandsEnd`), since the
  prover handles neither liveness nor ENABLED;
- `OutputMonotonic` and the other properties the runs refute;
- `PathsFollowNodes` of the editor: each of its steps goes through what
  rerooting does to prefixes of paths, and through lists of operators rerooted
  one after the other with `FoldLeft`, of which the provers see nothing.

The type invariants of the proved modules are theorems or parts of the inductive
invariants, and are not run again.

## Not modelled

Pixels, points and files: what operators, codecs and parsers compute, the
layout of buffers, what QML shows. The numerical operators keep no state from
frame to frame, so that there is nothing about their order to check; plugin
loading is input and output around the system.

In the modules that are there:

- `OperatorPipeline`: the operators' own state. `SessionFeed`: camera frames,
  the removal of a device between the collection of its pointer and the reading
  of its cloud (`session.cc:181`), the end of the session, and the replacement
  of its callback. `SessionPlayback`: a second session that shares a device,
  and a device whose in point lies behind its out point (the session then asks
  for the out point and the device shows the in point).
- `PlySequenceLoader`: the seeding of attribute rows from a header, which
  `PlyFiles` has. `PlyFiles`: which frame of a sequence is shown, which
  `PlySequenceLoader` has.
- `OrbbecCamera`: the list and trigger thread that synchronise several cameras
  by software, the release of the context at exit, the alignment modes, and the
  loading flag after a stop.
- `DeviceLifecycle`: the propagation of a group's sequence, the socket for other
  processes, and a callback that is copied by the registry before its removal
  and called after it (`config_registry.cc:94`).
- `WorkspaceEditor`: the selection of devices, adapters, tree rows and their
  QML; the transform a node keeps when it moves between groups.
- `PointStream`, `MessageReceiver`: the decoding of frames and the discovery of
  servers. `TouchDesignerClient`, `MessageOperators`: parameter pages and
  buffer layouts; the message operators were written against an older interface
  than `pointreceiver.h` has, and are modelled as written.
- `LogConsole`: the list of sinks, which changes while others log; two processes
  that share log files. `MetricsServer`: labels of series.
- `ClusterTracking`: voxels and the growth of regions. `Alignment`: rotation.

Known to the reader of the code, outside of what is modelled, or accepted by a
model as the code's behaviour: the recorder's depth wraps when a recording
starts over one that drains; `stop_sync` joins the capture thread under
`device_api_access`, which that thread takes (`LockedOut`); the MQTT flag
`has_published_empty_once` is shared by all topics of a value type; the TouchDesigner
worker ignores clouds without points; OSC elements beyond a shorter list stay at
the receiver; an alignment applied twice moves the device twice.
