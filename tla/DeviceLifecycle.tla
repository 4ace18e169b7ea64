-------------------------- MODULE DeviceLifecycle ---------------------------
(***************************************************************************)
(* How a configuration becomes running devices: Workspace::apply_new_config*)
(* with the instances it reuses, makes and disposes of, the pipelines of   *)
(* their operators, the callbacks the UI hooks into them, the registry of  *)
(* their fields, and the OSC receiver that sets those fields from outside. *)
(*                                                                         *)
(* The UI thread applies, one step at a time; the OSC server, the thread of*)
(* each device and the single thread of the teardown pool go on meanwhile. *)
(***************************************************************************)
EXTENDS Naturals, Sequences, FiniteSets, SequencesExt

CONSTANTS
  Configurations,   \* what may be applied: [devices, sessions, osc]
  LoadedDevices,    \* the device plugins that were found,
  LoadedOperators,  \* and those of operators
  FieldValues,      \* what a field may hold, and OSC may set it to
  MaxApplies,       \* bound: configurations applied
  MaxSets           \* bound: fields set over OSC

OperatorConfig == [id : Nat, kind : STRING, value : FieldValues]
DeviceConfig == [id : STRING, kind : STRING, value : FieldValues, ops : Seq(OperatorConfig)]
OscConfig == [enable : BOOLEAN, port : Nat]

ASSUME LifecycleAssumption ==
  /\ MaxApplies \in Nat /\ MaxSets \in Nat
  /\ \A c \in Configurations :
       /\ c \in [devices : Seq(DeviceConfig), sessions : {c.sessions}, osc : {c.osc}]
       /\ c.osc \in OscConfig
       /\ IsInjective([i \in DOMAIN c.devices |-> c.devices[i].id])

VARIABLES
  workspace,  \* Workspace::config
  plugins,    \* every device instance made so far
  inUse,      \* Workspace::devices
  sessions,   \* Workspace::sessions, with the configuration each was given
  fields,     \* the registry: whose fields an address leads to
  applying,   \* where apply_new_config is
  teardown,   \* the tasks of teardown_pool
  receiver,   \* OscReceiver: the port it listens on (0: none), and its state
  setting,    \* the set() in progress on the OSC thread, or <<>>
  subscribed, \* the devices whose adapters listen to the registry
  told,       \* instances whose adapter has a changed operator field posted to it
  applies, sets,
  crashed     \* the program has ended on an operator that is not there

oscVars == <<receiver, setting, subscribed, told>>
countVars == <<applies, sets, crashed>>
lifecycleVars == <<workspace, plugins, inUse, sessions, fields, applying, teardown,
                   oscVars, countVars>>

-----------------------------------------------------------------------------
PluginFor(kind) == IF kind \in LoadedDevices THEN kind ELSE "NullDevice"

(* One worker's operators, in their order. A plugin that is not loaded is    *)
(* skipped.                                                                  *)
Kept(ops) == {i \in DOMAIN ops : ops[i].kind \in LoadedOperators}
WorkerChain(ops) ==
  [k \in 1..Cardinality(Kept(ops)) |->
     ops[CHOOSE i \in Kept(ops) : Cardinality({j \in Kept(ops) : j <= i}) = k]]

(* A slip: the pipeline is rebuilt only when the number of operators differs.*)
ComparesNumbers(old, new) == Len(WorkerChain(old)) # Len(WorkerChain(new))

(* sync_operators compares each operator with the place it was moved from,   *)
(* so it finds them changed whenever there are any.                          *)
Rebuilds(old, new) == WorkerChain(old) # <<>> \/ WorkerChain(new) # <<>>

NewPlugin(d) ==
  [config |-> d, kind |-> PluginFor(d.kind), chain |-> WorkerChain(d.ops), builds |-> 1,
   hooked |-> FALSE, detached |-> FALSE, thread |-> "idle", life |-> "live",
   apart |-> FALSE]  \* history: a field was set of which not everybody was told

UpdatedPlugin(p, d) ==
  IF Rebuilds(p.config.ops, d.ops)
  THEN [p EXCEPT !.config = d, !.apart = FALSE, !.chain = WorkerChain(d.ops), !.builds = @ + 1]
  ELSE [p EXCEPT !.config = d, !.apart = FALSE]

At(place) == applying.at = place
ToDo == Head(applying.todo)
ClampPort(port) == IF port < 1024 THEN 1024 ELSE IF port > 49151 THEN 49151 ELSE port
NotApplying == [at |-> "idle", todo |-> <<>>, old |-> {}, made |-> <<>>, out |-> 0]

LifecycleInit ==
  /\ workspace = [devices |-> <<>>, sessions |-> <<>>, osc |-> [enable |-> FALSE, port |-> 0]]
  /\ plugins = <<>> /\ inUse = <<>> /\ sessions = <<>> /\ fields = <<>>
  /\ applying = NotApplying /\ teardown = <<>>
  /\ receiver = [port |-> 0, state |-> "stopped"]
  /\ setting = <<>> /\ subscribed = {} /\ told = {} /\ applies = 0 /\ sets = 0
  /\ crashed = FALSE

-----------------------------------------------------------------------------
(* What update_config and the registry's listeners do to Workspace::config.   *)
WithDevice(c, d) ==
  [c EXCEPT !.devices = [i \in DOMAIN @ |-> IF @[i].id = d.id THEN d ELSE @[i]]]

(* apply_new_config. Callers leave the devices out only when they are as     *)
(* they were.                                                                *)
StoreConfiguration(c) ==
  /\ At("idle") /\ applies < MaxApplies
  /\ workspace' = c /\ applies' = applies + 1
  /\ \/ applying' = [NotApplying EXCEPT !.at = "stored"]
     \/ c.devices = workspace.devices /\ applying' = [NotApplying EXCEPT !.at = "sessions"]
  /\ UNCHANGED <<plugins, inUse, sessions, fields, teardown, oscVars, sets, crashed>>

BeginSync ==
  /\ At("stored")
  /\ applying' = [NotApplying EXCEPT !.at = "devices", !.todo = workspace.devices,
                              !.old = ToSet(inUse)]
  /\ UNCHANGED <<workspace, plugins, inUse, sessions, fields, teardown, oscVars, countVars>>

(* The instance with the next device's id that is not spoken for yet.        *)
Existing == {n \in applying.old : plugins[n].config.id = ToDo.id}
Fits(n) == plugins[n].config.kind = PluginFor(ToDo.kind)

SyncReused(n) ==
  /\ At("devices") /\ applying.todo # <<>> /\ n \in Existing /\ Fits(n)
  /\ plugins' = [plugins EXCEPT ![n] = UpdatedPlugin(@, ToDo)]
  /\ workspace' = WithDevice(workspace, ToDo)
  /\ applying' = [applying EXCEPT !.todo = Tail(@), !.old = @ \ {n}, !.made = Append(@, n)]
  /\ UNCHANGED <<inUse, sessions, fields, teardown, oscVars, countVars>>

SyncNew ==
  /\ At("devices") /\ applying.todo # <<>> /\ Existing = {}
  /\ plugins' = Append(plugins, NewPlugin(ToDo))
  /\ workspace' = WithDevice(workspace, ToDo)
  /\ applying' = [applying EXCEPT !.todo = Tail(@), !.made = Append(@, Len(plugins) + 1)]
  /\ UNCHANGED <<inUse, sessions, fields, teardown, oscVars, countVars>>

(* dispose_device: of an instance of another kind, and of those no longer in *)
(* the configuration. detach_callbacks raises the flag, then takes the lock  *)
(* the callbacks run under.                                                  *)
BeginDispose(n) ==
  /\ At("devices")
  /\ IF applying.todo = <<>> THEN n \in applying.old ELSE n \in Existing /\ ~Fits(n)
  /\ plugins' = [plugins EXCEPT ![n].detached = TRUE]
  /\ applying' = [applying EXCEPT !.at = "detaching", !.old = @ \ {n}, !.out = n]
  /\ UNCHANGED <<workspace, inUse, sessions, fields, teardown, oscVars, countVars>>

(* A slip: the callbacks are cleared without taking their lock.              *)
NoLockTaken(n) == TRUE

CallbacksFree(n) == plugins[n].thread # "calling"

EndDispose ==
  /\ At("detaching") /\ CallbacksFree(applying.out)
  /\ plugins' = [plugins EXCEPT ![applying.out].hooked = FALSE, ![applying.out].life = "queued"]
  /\ teardown' = Append(teardown, applying.out)
  /\ applying' = [applying EXCEPT !.at = "devices", !.out = 0]
  /\ UNCHANGED <<workspace, inUse, sessions, fields, oscVars, countVars>>

ReplaceDevices ==
  /\ At("devices") /\ applying.todo = <<>> /\ applying.old = {}
  /\ inUse' = applying.made
  /\ applying' = [NotApplying EXCEPT !.at = "sessions"]
  /\ UNCHANGED <<workspace, plugins, sessions, fields, teardown, oscVars, countVars>>

SyncSessions ==
  /\ At("sessions")
  /\ sessions' = workspace.sessions
  /\ applying' = [NotApplying EXCEPT !.at = "clear"]
  /\ UNCHANGED <<workspace, plugins, inUse, fields, teardown, oscVars, countVars>>

ClearRegistry ==
  /\ At("clear")
  /\ fields' = <<>>
  /\ applying' = [NotApplying EXCEPT !.at = "register"]
  /\ UNCHANGED <<workspace, plugins, inUse, sessions, teardown, oscVars, countVars>>

RegisterDevices ==
  /\ At("register")
  /\ fields' = [id \in {plugins[n].config.id : n \in ToSet(inUse)} |->
                  CHOOSE n \in ToSet(inUse) : plugins[n].config.id = id]
  /\ applying' = [NotApplying EXCEPT !.at = "osc"]
  /\ UNCHANGED <<workspace, plugins, inUse, sessions, teardown, oscVars, countVars>>

(* OscReceiver::reconfigure. Stopping the server waits for its thread; a     *)
(* port that is taken makes the start fail, until the next apply.            *)
WantedPort == IF workspace.osc.enable THEN ClampPort(workspace.osc.port) ELSE 0

Reconfigure(starts) ==
  /\ At("osc")
  /\ IF receiver.port = WantedPort
     THEN starts /\ UNCHANGED receiver
     ELSE /\ receiver.port # 0 => setting = <<>>
          /\ receiver' =
               IF WantedPort # 0
               THEN IF starts THEN [port |-> WantedPort, state |-> "running"]
                    ELSE [port |-> 0, state |-> "failed"]
               ELSE [port |-> 0, state |-> "stopped"]
          /\ WantedPort = 0 => starts
  /\ applying' = [NotApplying EXCEPT !.at = "hooks"]
  /\ UNCHANGED <<workspace, plugins, inUse, sessions, fields, teardown, setting, subscribed,
                 told, countVars>>

(* syncDeviceAdapters, called when the apply is over.                        *)
HookCallbacks ==
  /\ At("hooks")
  /\ plugins' = [n \in DOMAIN plugins |->
                   [plugins[n] EXCEPT !.hooked = @ \/ n \in ToSet(inUse)]]
  /\ subscribed' = {plugins[n].config.id : n \in ToSet(inUse)}
  /\ applying' = NotApplying
  /\ UNCHANGED <<workspace, inUse, sessions, fields, teardown, receiver, setting,
                 told, countVars>>

-----------------------------------------------------------------------------
(* A message to the OSC receiver. The setter is copied under the registry's  *)
(* lock and called after it: it writes into the configuration of the instance*)
(* that was registered, whatever became of it. Field 0 is the device's own,  *)
(* field i that of its i-th operator.                                        *)
LookUpField(id, i) ==
  /\ receiver.port # 0 /\ setting = <<>> /\ sets < MaxSets
  /\ id \in DOMAIN fields /\ i \in 0..Len(plugins[fields[id]].config.ops)
  /\ setting' = [id |-> id, plugin |-> fields[id], field |-> i, at |-> "found"]
  /\ sets' = sets + 1
  /\ UNCHANGED <<workspace, plugins, inUse, sessions, fields, applying, teardown, receiver,
                 subscribed, told, applies, crashed>>

WriteField(v) ==
  /\ setting # <<>> /\ setting.at = "found"
  /\ LET n == setting.plugin  i == setting.field
     IN plugins' = IF plugins[n].life = "gone" \/ i > Len(plugins[n].config.ops) THEN plugins
                   ELSE IF i = 0 THEN [plugins EXCEPT ![n].config.value = v]
                   ELSE [plugins EXCEPT ![n].config.ops[i].value = v]
  /\ setting' = [setting EXCEPT !.at = "written"]
  /\ UNCHANGED <<workspace, inUse, sessions, fields, applying, teardown, receiver,
                 subscribed, told, countVars>>

(* notify: the listener of the device looks for its instance in Workspace::- *)
(* devices, whose places sync_devices has emptied one by one, copies that    *)
(* instance's configuration into the workspace's, and posts the change to    *)
(* the adapter.                                                              *)
InPlace == IF applying.at \in {"devices", "detaching"} THEN applying.old ELSE ToSet(inUse)

NotifyField ==
  /\ setting # <<>> /\ setting.at = "written"
  /\ LET n == setting.plugin
         found == {m \in InPlace : plugins[m].config.id = setting.id}
         heard == setting.id \in subscribed
         everybody == /\ heard /\ n \in found
                      /\ setting.field = 0 \/ plugins[n].kind # "OrbbecDevice"
     IN /\ workspace' = IF heard /\ found # {}
                        THEN WithDevice(workspace, plugins[CHOOSE m \in found : TRUE].config)
                        ELSE workspace
        /\ told' = IF heard /\ setting.field # 0 THEN told \cup {n} ELSE told
        /\ plugins' = [plugins EXCEPT ![n].apart = @ \/ ~everybody]
  /\ setting' = <<>>
  /\ UNCHANGED <<inUse, sessions, fields, applying, teardown, receiver, subscribed, countVars>>

(* on_config_field_changed: each configured operator is handed to the worker *)
(* operator at its position, as if none had been skipped. Past the end of a  *)
(* worker's chain that reads what is no operator: the program ends there, or *)
(* what it writes lies in none of the parts seen here. OrbbecDevice overrides*)
(* it and hands nothing on. The adapter of an instance that was disposed of  *)
(* meanwhile has let go of it.                                               *)
Forwarded(p) ==
  [p EXCEPT !.chain = [i \in DOMAIN @ |-> p.config.ops[i]],
            !.apart = @ \/ WorkerChain(p.config.ops) # p.config.ops]
PastTheEnd(p) == Len(p.config.ops) > Len(p.chain)

FieldChanged(n) ==
  /\ At("idle") /\ n \in told
  /\ told' = told \ {n}
  /\ IF plugins[n].life # "live" \/ plugins[n].kind = "OrbbecDevice"
     THEN UNCHANGED <<plugins, crashed>>
     ELSE /\ plugins' = [plugins EXCEPT ![n] = Forwarded(@)]
          /\ crashed' \in {FALSE, PastTheEnd(plugins[n])}
  /\ UNCHANGED <<workspace, inUse, sessions, fields, applying, teardown, receiver, setting,
                 subscribed, applies, sets>>

-----------------------------------------------------------------------------
(* notify_status_changed and notify_point_cloud_updated, from a thread of    *)
(* the device: the flag is read first, the callback runs under the lock.     *)
NotifyLooks(n) ==
  /\ plugins[n].thread = "idle" /\ ~plugins[n].detached /\ plugins[n].kind # "NullDevice"
  /\ plugins' = [plugins EXCEPT ![n].thread = "looked"]
  /\ UNCHANGED <<workspace, inUse, sessions, fields, applying, teardown, oscVars, countVars>>

NotifyCalls(n) ==
  /\ plugins[n].thread = "looked"
  /\ plugins' = [plugins EXCEPT ![n].thread = IF plugins[n].hooked THEN "calling" ELSE "idle"]
  /\ UNCHANGED <<workspace, inUse, sessions, fields, applying, teardown, oscVars, countVars>>

NotifyEnds(n) ==
  /\ plugins[n].thread = "calling"
  /\ plugins' = [plugins EXCEPT ![n].thread = "idle"]
  /\ UNCHANGED <<workspace, inUse, sessions, fields, applying, teardown, oscVars, countVars>>

(* The task of the teardown pool: shutdown() stops the device's threads, and *)
(* the instance is destroyed once they have ended.                           *)
StartTeardown ==
  /\ teardown # <<>> /\ plugins[Head(teardown)].life = "queued"
  /\ plugins' = [plugins EXCEPT ![Head(teardown)].life = "stopping"]
  /\ UNCHANGED <<workspace, inUse, sessions, fields, applying, teardown, oscVars, countVars>>

EndTeardown ==
  /\ teardown # <<>> /\ plugins[Head(teardown)].life = "stopping"
  /\ plugins[Head(teardown)].thread = "idle"
  /\ plugins' = [plugins EXCEPT ![Head(teardown)].life = "gone"]
  /\ teardown' = Tail(teardown)
  /\ UNCHANGED <<workspace, inUse, sessions, fields, applying, oscVars, countVars>>

LifecycleSteps ==
  \/ \E c \in Configurations : StoreConfiguration(c)
  \/ BeginSync \/ SyncNew \/ EndDispose \/ ReplaceDevices \/ SyncSessions
  \/ ClearRegistry \/ RegisterDevices \/ HookCallbacks
  \/ \E starts \in BOOLEAN : Reconfigure(starts)
  \/ \E id \in DOMAIN fields, i \in 0..2 : LookUpField(id, i)
  \/ (\E v \in FieldValues : WriteField(v)) \/ NotifyField
  \/ \E n \in DOMAIN plugins :
       \/ SyncReused(n) \/ BeginDispose(n) \/ FieldChanged(n)
       \/ NotifyLooks(n) \/ NotifyCalls(n) \/ NotifyEnds(n)
  \/ StartTeardown \/ EndTeardown

LifecycleNext == ~crashed /\ LifecycleSteps

LifecycleSpec == LifecycleInit /\ [][LifecycleNext]_lifecycleVars

-----------------------------------------------------------------------------
(* PROPERTIES                                                                *)

(* A callback of the UI runs only in a device that is in use: once dispose_- *)
(* device has detached a device's callbacks none is running and none starts, *)
(* although the device's thread may have read the flag before it was raised. *)
NoCallAfterDetach ==
  \A n \in DOMAIN plugins : plugins[n].thread = "calling" => plugins[n].life = "live"

SameDevice(p, d) ==
  /\ p.config.id = d.id /\ p.config.kind = d.kind /\ p.kind = PluginFor(d.kind)
  /\ p.apart \/ setting # <<>> \/ p.config = d

(* When no apply is under way exactly the configured devices are in use, each*)
(* by one live instance of its plugin, configured as the workspace says even *)
(* when OSC set a field meanwhile, whose callbacks are hooked and to which   *)
(* the registry leads; everything else is on its way out; the sessions are   *)
(* those configured; the receiver listens on the configured port or on none; *)
(* and once the changed fields are delivered the workers run the operators   *)
(* as the instance's configuration has them. Two things do not hold of an    *)
(* instance that is `apart', until it is configured anew: that the workspace *)
(* has its fields, and that its workers have its operators. An instance is   *)
(* apart once a field of it was set that its listener did not hear of, that  *)
(* it heard of while another instance had its place, or that is an operator's*)
(* of an Orbbec camera; and once operators were handed out by position while *)
(* one of them had been skipped, those after it to the wrong operators.      *)
AppliedIsRunning ==
  At("idle") =>
    /\ Len(inUse) = Len(workspace.devices)
    /\ \A i \in DOMAIN inUse :
         LET p == plugins[inUse[i]]  d == workspace.devices[i]
         IN /\ SameDevice(p, d) /\ p.life = "live" /\ p.hooked /\ ~p.detached
            /\ d.id \in DOMAIN fields /\ fields[d.id] = inUse[i]
            /\ told = {} /\ setting = <<>> /\ ~p.apart => p.chain = WorkerChain(p.config.ops)
    /\ \A n \in DOMAIN plugins : plugins[n].life = "live" => n \in ToSet(inUse)
    /\ DOMAIN fields = {workspace.devices[i].id : i \in DOMAIN workspace.devices}
    /\ sessions = workspace.sessions
    /\ receiver.port \in {0, WantedPort}

(* workspace.cc:419 says that handing an instance its configuration "does    *)
(* not restart pipelines by itself": a running pipeline is rebuilt only when *)
(* the operators its device is configured with have changed.                 *)
UnchangedKeepsPipeline ==
  [][\A n \in DOMAIN plugins :
       plugins'[n].builds > plugins[n].builds =>
         plugins'[n].config.ops # plugins[n].config.ops]_lifecycleVars
=============================================================================
