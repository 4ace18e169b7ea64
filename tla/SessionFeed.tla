---------------------------- MODULE SessionFeed -----------------------------
(***************************************************************************)
(* How the clouds of a session's devices reach the screen                  *)
(* (src/src/session/session.cc, and the UI that draws the session).        *)
(*                                                                         *)
(* The update thread collects the devices' clouds and feeds their union to *)
(* the session's operator pipeline when one of them is another than the    *)
(* last time, or when a flag asks for it.  The pipeline's workers store    *)
(* what comes out, the vertex buffer and then the cloud, and call the UI,  *)
(* which draws the two after clearing a flag that holds back further       *)
(* calls.  The UI thread edits operators and rebuilds the pipeline.        *)
(*                                                                         *)
(* The pipeline is the mailbox that OperatorPipeline implements.  A cloud  *)
(* is a number, another one for each new cloud, 0 for none or an empty     *)
(* one; what a frame shows is the set of clouds it was made of and the     *)
(* version of the operators that processed it.                             *)
(***************************************************************************)
EXTENDS Naturals, Sequences, FiniteSets

CONSTANTS
  Devices,      (* the devices of the workspace                            *)
  Memberships,  (* lists of devices a session may have                     *)
  Workers,      (* worker threads of the pipeline                          *)
  MaxChanges,   (* bound: new clouds, and changes of the membership        *)
  MaxEdits      (* bound: edits and rebuilds                               *)

ASSUME FeedAssumption ==
  /\ Memberships \subseteq Seq(Devices)
  /\ Workers \in Nat \ {0}
  /\ MaxChanges \in Nat
  /\ MaxEdits \in Nat

VARIABLES
  members,     (* the devices the session includes, in the workspace's order *)
  cloud,       (* the cloud of each device                                 *)
  changes,     (* clouds and memberships changed so far                    *)
  ops,         (* version of the operators' configuration                  *)
  edits,       (* edits and rebuilds so far                                *)
  force,       (* _force_reprocess                                         *)
  loop,        (* update_loop: where it is, device_ptrs, clouds, last_clouds *)
  payload,     (* what each frame offered since the last rebuild is made of *)
  publishing,  (* the calls of on_pipeline_output in progress              *)
  current,     (* _current_point_cloud                                     *)
  render,      (* _latest_render_data                                      *)
  notified,    (* SessionUpdateGate::pending: a call of the UI is queued   *)
  ui,          (* the UI thread: where it is, and what it drew last        *)
  cleared,     (* frames offered when the session was last cleared         *)
  late,        (* which of the two stores was last written by a frame that *)
               (* a newer one, or the clearing of the session, had overtaken *)
  offered, pending, shown, rejected, open  (* the mailbox                  *)

Mailbox == INSTANCE FrameMailbox

mailboxVars == <<offered, pending, shown, rejected, open>>
deviceVars == <<members, cloud, changes>>
editVars == <<ops, edits>>
historyVars == <<cleared, late>>
sessionVars == <<current, render, notified>>
vars == <<deviceVars, editVars, force, loop, payload, publishing, sessionVars,
          ui, historyVars, mailboxVars>>

(* No cloud, no buffer: the null pointer.                                  *)
None == [clouds |-> {}, ops |-> 0, empty |-> TRUE]

(* What a frame is made of: the clouds that hold points.                   *)
Clouds(list) == {list[i] : i \in 1 .. Len(list)} \ {0}

Gathered == [i \in 1 .. Len(members) |-> cloud[members[i]]]

(* A rebuild leaves nobody in on_pipeline_output: stop() joins the workers. *)
Joined == publishing = {}

Init ==
  /\ members \in Memberships
  /\ cloud = [d \in Devices |-> 0]
  /\ changes = 0
  /\ ops = 1
  /\ edits = 0
  /\ force = TRUE
  /\ loop = [at |-> "collect", devices |-> << >>, clouds |-> << >>,
             last |-> << >>]
  /\ payload = << >>
  /\ publishing = {}
  /\ current = None
  /\ render = None
  /\ notified = FALSE
  /\ ui = [at |-> "idle", cloud |-> None, render |-> None]
  /\ cleared = 0
  /\ late = {}
  /\ Mailbox!Init

-----------------------------------------------------------------------------
(* The devices and the workspace.                                          *)

(* A device has a new cloud, numbered by the change that made it.          *)
NewCloud(d) ==
  /\ changes < MaxChanges
  /\ cloud' = [cloud EXCEPT ![d] = changes + 1]
  /\ changes' = changes + 1
  /\ UNCHANGED <<members, editVars, force, loop, payload, publishing,
                 sessionVars, ui, historyVars, mailboxVars>>

(* A device's cloud has no point left.                                     *)
NoCloud(d) ==
  /\ changes < MaxChanges
  /\ cloud[d] # 0
  /\ cloud' = [cloud EXCEPT ![d] = 0]
  /\ changes' = changes + 1
  /\ UNCHANGED <<members, editVars, force, loop, payload, publishing,
                 sessionVars, ui, historyVars, mailboxVars>>

(* A device joins or leaves the session.                                   *)
ChangeMembership ==
  /\ changes < MaxChanges
  /\ members' \in Memberships \ {members}
  /\ changes' = changes + 1
  /\ UNCHANGED <<cloud, editVars, force, loop, payload, publishing,
                 sessionVars, ui, historyVars, mailboxVars>>

-----------------------------------------------------------------------------
(* The update thread.                                                      *)

(* The end of an iteration, and of its locals.                             *)
NextIteration ==
  loop' = [loop EXCEPT !.at = "collect", !.devices = << >>, !.clouds = << >>]

(* The devices of the session, under config_access.                        *)
Collect ==
  /\ loop.at = "collect"
  /\ loop' = [loop EXCEPT !.at = "read", !.devices = members]
  /\ UNCHANGED <<deviceVars, editVars, force, payload, publishing,
                 sessionVars, ui, historyVars, mailboxVars>>

(* point_cloud() of the next device, without the lock.                     *)
ReadCloud ==
  /\ loop.at = "read"
  /\ Len(loop.clouds) < Len(loop.devices)
  /\ loop' = [loop EXCEPT
                !.clouds = Append(loop.clouds,
                                  cloud[loop.devices[Len(loop.clouds) + 1]])]
  /\ UNCHANGED <<deviceVars, editVars, force, payload, publishing,
                 sessionVars, ui, historyVars, mailboxVars>>

AllRead == loop.at = "read" /\ Len(loop.clouds) = Len(loop.devices)

(* changed: another number of clouds, or another one among them.           *)
Changed == loop.clouds # loop.last

(* Slip: the flag is read and left standing.                               *)
TakeFlagStanding ==
  /\ AllRead
  /\ Changed \/ force
  /\ loop' = [loop EXCEPT !.last = loop.clouds,
                          !.at = IF Clouds(loop.clouds) # {}
                                 THEN "feed" ELSE "empty"]
  /\ UNCHANGED <<deviceVars, editVars, force, payload, publishing,
                 sessionVars, ui, historyVars, mailboxVars>>

(* There is something to feed, or nothing feeds the session.               *)
TakeClouds ==
  /\ AllRead
  /\ Changed \/ force
  /\ force' = FALSE
  /\ loop' = [loop EXCEPT !.last = loop.clouds,
                          !.at = IF Clouds(loop.clouds) # {}
                                 THEN "feed" ELSE "empty"]
  /\ UNCHANGED <<deviceVars, editVars, payload, publishing, sessionVars, ui,
                 historyVars, mailboxVars>>

FindUnchanged ==
  /\ AllRead
  /\ ~Changed
  /\ ~force
  /\ NextIteration
  /\ UNCHANGED <<deviceVars, editVars, force, payload, publishing,
                 sessionVars, ui, historyVars, mailboxVars>>

(* feed_operator_pipeline, which waits for a rebuild to end.               *)
Feed ==
  /\ loop.at = "feed"
  /\ Mailbox!Offer
  /\ payload' = Append(payload, [clouds |-> Clouds(loop.last), ops |-> ops])
  /\ NextIteration
  /\ UNCHANGED <<deviceVars, editVars, force, publishing, sessionVars, ui,
                 historyVars>>

(* Nothing feeds the session and nothing is shown.                         *)
FindCleared ==
  /\ loop.at = "empty"
  /\ current = None
  /\ cleared' = offered
  /\ late' = late \ {"cloud"}
  /\ NextIteration
  /\ UNCHANGED <<deviceVars, editVars, force, payload, publishing,
                 sessionVars, ui, mailboxVars>>

(* Nothing feeds the session: its cloud and its buffer are cleared.        *)
ClearCloud ==
  /\ loop.at = "empty"
  /\ current # None
  /\ current' = None
  /\ cleared' = offered
  /\ late' = late \ {"cloud"}
  /\ loop' = [loop EXCEPT !.at = "clearRender"]
  /\ UNCHANGED <<deviceVars, editVars, force, payload, publishing, render,
                 notified, ui, mailboxVars>>

ClearRender ==
  /\ loop.at = "clearRender"
  /\ render' = None
  /\ late' = late \ {"render"}
  /\ loop' = [loop EXCEPT !.at = "clearNotify"]
  /\ UNCHANGED <<deviceVars, editVars, force, payload, publishing, current,
                 notified, ui, cleared, mailboxVars>>

ClearNotify ==
  /\ loop.at = "clearNotify"
  /\ notified' = TRUE
  /\ NextIteration
  /\ UNCHANGED <<deviceVars, editVars, force, payload, publishing, current,
                 render, ui, historyVars, mailboxVars>>

-----------------------------------------------------------------------------
(* The workers of the pipeline and on_pipeline_output.                     *)

(* What may come out of a frame: the operators leave points or none, and   *)
(* they are of a version between the one it was fed under and the present. *)
Outcomes(f) ==
  {[clouds |-> payload[f].clouds, ops |-> v, empty |-> e] :
     v \in payload[f].ops .. ops, e \in BOOLEAN}

(* Slip: the buffer is packed when there is nothing to pack.               *)
PublishUnpacked(f) ==
  /\ Cardinality(publishing) < Workers
  /\ Mailbox!Show(f)
  /\ \E out \in Outcomes(f) :
       publishing' = publishing \union
         {[seq |-> f, out |-> out,
           at |-> IF out.empty THEN "render" ELSE "cloud"]}
  /\ UNCHANGED <<deviceVars, editVars, force, loop, payload, sessionVars, ui,
                 historyVars>>

(* A worker has won the gate and calls on_pipeline_output, which packs a   *)
(* buffer if there are points.                                             *)
Publish(f) ==
  /\ Cardinality(publishing) < Workers
  /\ Mailbox!Show(f)
  /\ \E out \in Outcomes(f) :
       publishing' = publishing \union
         {[seq |-> f, out |-> out,
           at |-> IF out.empty THEN "cloud" ELSE "render"]}
  /\ UNCHANGED <<deviceVars, editVars, force, loop, payload, sessionVars, ui,
                 historyVars>>

(* A worker or the queue drops a superseded frame.                         *)
Supersede(f) ==
  /\ Mailbox!Drop(f)
  /\ UNCHANGED <<deviceVars, editVars, force, loop, payload, publishing,
                 sessionVars, ui, historyVars>>

(* An operator answers null.                                               *)
RejectFrame(f) ==
  /\ Mailbox!Reject(f)
  /\ UNCHANGED <<deviceVars, editVars, force, loop, payload, publishing,
                 sessionVars, ui, historyVars>>

(* The frame being stored is not the newest thing to happen to the session. *)
Overtaken(p) == p.seq < shown \/ p.seq <= cleared

MarkStore(what, overtaken) ==
  late' = IF overtaken THEN late \union {what} ELSE late \ {what}

StoreRender(p) ==
  /\ p \in publishing
  /\ p.at = "render"
  /\ render' = p.out
  /\ publishing' = (publishing \ {p}) \union {[p EXCEPT !.at = "cloud"]}
  /\ MarkStore("render", Overtaken(p))
  /\ UNCHANGED <<deviceVars, editVars, force, loop, payload, current,
                 notified, ui, cleared, mailboxVars>>

StoreCloud(p) ==
  /\ p \in publishing
  /\ p.at = "cloud"
  /\ current' = p.out
  /\ publishing' = (publishing \ {p}) \union {[p EXCEPT !.at = "notify"]}
  /\ MarkStore("cloud", Overtaken(p))
  /\ UNCHANGED <<deviceVars, editVars, force, loop, payload, render,
                 notified, ui, cleared, mailboxVars>>

(* The callback queues a call of the UI unless one is queued.              *)
Notify(p) ==
  /\ p \in publishing
  /\ p.at = "notify"
  /\ notified' = TRUE
  /\ publishing' = publishing \ {p}
  /\ UNCHANGED <<deviceVars, editVars, force, loop, payload, current, render,
                 ui, historyVars, mailboxVars>>

-----------------------------------------------------------------------------
(* The UI thread.                                                          *)

(* An operator's setting: update_operator_in_pipeline changes it in every  *)
(* chain under _pipeline_mutex ...                                         *)
EditOperator ==
  /\ ui.at = "idle"
  /\ edits < MaxEdits
  /\ ops' = ops + 1
  /\ edits' = edits + 1
  /\ ui' = [ui EXCEPT !.at = "reprocess"]
  /\ UNCHANGED <<deviceVars, force, loop, payload, publishing, sessionVars,
                 historyVars, mailboxVars>>

(* ... or update_config, where sync_operators finds other operators or     *)
(* another number of workers, and rebuild_pipeline stops the pipeline ...  *)
BeginRebuild ==
  /\ ui.at = "idle"
  /\ edits < MaxEdits
  /\ edits' = edits + 1
  /\ ui' = [ui EXCEPT !.at = "rebuild"]
  /\ Mailbox!Close
  /\ UNCHANGED <<deviceVars, ops, force, loop, payload, publishing,
                 sessionVars, historyVars>>

(* ... which loses any of its frames ...                                   *)
LoseFrames ==
  /\ \E lost \in SUBSET pending : lost # {} /\ Mailbox!Discard(lost)
  /\ UNCHANGED <<deviceVars, editVars, force, loop, payload, publishing,
                 sessionVars, ui, historyVars>>

(* ... and starts a new one with the operators of the configuration.       *)
EndRebuild ==
  /\ ui.at = "rebuild"
  /\ Joined
  /\ Mailbox!Reopen
  /\ ops' = ops + 1
  /\ payload' = << >>
  /\ cleared' = 0
  /\ ui' = [ui EXCEPT !.at = "reprocess"]
  /\ UNCHANGED <<deviceVars, edits, force, loop, publishing, sessionVars,
                 late>>

(* Slip: the change is left to the next cloud.                             *)
ReprocessLater ==
  /\ ui.at = "reprocess"
  /\ ui' = [ui EXCEPT !.at = "idle"]
  /\ UNCHANGED <<deviceVars, editVars, force, loop, payload, publishing,
                 sessionVars, historyVars, mailboxVars>>

(* Both then ask for the present clouds to be processed again.             *)
Reprocess ==
  /\ ui.at = "reprocess"
  /\ force' = TRUE
  /\ ui' = [ui EXCEPT !.at = "idle"]
  /\ UNCHANGED <<deviceVars, editVars, loop, payload, publishing, sessionVars,
                 historyVars, mailboxVars>>

(* The queued call clears the flag, then draws.                            *)
BeginDraw ==
  /\ ui.at = "idle"
  /\ notified
  /\ notified' = FALSE
  /\ ui' = [ui EXCEPT !.at = "readCloud"]
  /\ UNCHANGED <<deviceVars, editVars, force, loop, payload, publishing,
                 current, render, historyVars, mailboxVars>>

(* updateGeometry loads the cloud, then the buffer.                        *)
DrawCloud ==
  /\ ui.at = "readCloud"
  /\ ui' = [ui EXCEPT !.at = "readRender", !.cloud = current]
  /\ UNCHANGED <<deviceVars, editVars, force, loop, payload, publishing,
                 sessionVars, historyVars, mailboxVars>>

(* Slip: the flag is cleared when all is drawn.                            *)
DrawRenderAndLower ==
  /\ ui.at = "readRender"
  /\ ui' = [ui EXCEPT !.at = "idle", !.render = render]
  /\ notified' = FALSE
  /\ UNCHANGED <<deviceVars, editVars, force, loop, payload, publishing,
                 current, render, historyVars, mailboxVars>>

DrawRender ==
  /\ ui.at = "readRender"
  /\ ui' = [ui EXCEPT !.at = "idle", !.render = render]
  /\ UNCHANGED <<deviceVars, editVars, force, loop, payload, publishing,
                 sessionVars, historyVars, mailboxVars>>

-----------------------------------------------------------------------------
DeviceStep ==
  \/ ChangeMembership
  \/ \E d \in Devices : NewCloud(d) \/ NoCloud(d)

LoopStep ==
  \/ Collect \/ ReadCloud \/ TakeClouds \/ FindUnchanged \/ Feed
  \/ FindCleared \/ ClearCloud \/ ClearRender \/ ClearNotify

HandleFrame == \E f \in pending : Publish(f) \/ Supersede(f) \/ RejectFrame(f)

OutputStep == \E p \in publishing : StoreRender(p) \/ StoreCloud(p) \/ Notify(p)

DrawStep == BeginDraw \/ DrawCloud \/ DrawRender

EditStep == EditOperator \/ BeginRebuild \/ EndRebuild \/ Reprocess

Next ==
  \/ DeviceStep \/ LoopStep \/ HandleFrame \/ LoseFrames \/ OutputStep
  \/ DrawStep \/ EditStep

Spec == Init /\ [][Next]_vars

(* The update thread iterates, the workers of the pipeline do not throw    *)
(* and get on, the UI thread handles what it has begun and what is queued. *)
FairSpec ==
  /\ Spec
  /\ WF_vars(LoopStep)
  /\ WF_vars(HandleFrame)
  /\ WF_vars(OutputStep)
  /\ WF_vars(DrawStep)
  /\ WF_vars(EndRebuild \/ Reprocess)

-----------------------------------------------------------------------------
Frames == 1 .. offered
Shown == [clouds : SUBSET Nat, ops : Nat, empty : BOOLEAN]

DevicesType ==
  /\ members \in Memberships
  /\ cloud \in [Devices -> Nat]
  /\ changes \in 0 .. MaxChanges

LoopType ==
  /\ force \in BOOLEAN
  /\ loop \in [at : {"collect", "read", "feed", "empty", "clearRender",
                     "clearNotify"},
               devices : Seq(Devices), clouds : Seq(Nat), last : Seq(Nat)]

MailboxType ==
  /\ offered \in Nat
  /\ pending \subseteq Frames
  /\ rejected \subseteq Frames
  /\ shown \in 0 .. offered
  /\ cleared \in 0 .. offered
  /\ open = (ui.at # "rebuild")

PayloadType ==
  /\ ops \in Nat
  /\ payload \in Seq([clouds : SUBSET Nat, ops : Nat])
  /\ Len(payload) = offered

PublishingType ==
  /\ publishing \subseteq [seq : Frames, out : Shown,
                          at : {"render", "cloud", "notify"}]
  /\ Cardinality(publishing) <= Workers

StoresType ==
  /\ current \in Shown
  /\ render \in Shown
  /\ notified \in BOOLEAN
  /\ ui \in [at : {"idle", "rebuild", "reprocess", "readCloud", "readRender"},
             cloud : Shown, render : Shown]
  /\ late \subseteq {"cloud", "render"}
  /\ edits \in 0 .. MaxEdits

(* Types: the mailbox numbers the frames whose payload is known, at most   *)
(* one call of on_pipeline_output per worker is in progress.               *)
TypeOK ==
  /\ DevicesType
  /\ LoopType
  /\ MailboxType
  /\ PayloadType
  /\ PublishingType
  /\ StoresType

(* What is drawn is not what the session has.                              *)
Behind ==
  \/ ui.at # "readCloud" /\ ui.cloud # current
  \/ ui.at \notin {"readCloud", "readRender"} /\ ui.render # render

(* No call of the UI is lost: while the UI draws something else than the   *)
(* session has, a call is queued, or whoever stored has yet to make it.    *)
NoCallLost ==
  Behind => \/ notified
            \/ publishing # {}
            \/ loop.at \in {"clearRender", "clearNotify"}

(* Nothing of what the devices have is still on its way to the screen.     *)
Quiet ==
  /\ loop.at \in {"collect", "read"}
  /\ loop.last = Gathered
  /\ ~force
  /\ pending = {}
  /\ publishing = {}
  /\ ~notified
  /\ ui.at = "idle"

(* When all is quiet, the session has what its devices have, processed by  *)
(* the operators as they are: the union of their clouds, or no cloud.      *)
(* Excepted are a newest frame that an operator refused and a store by a   *)
(* frame that was overtaken.                                               *)
QuietShowsDevices ==
  Quiet /\ "cloud" \notin late =>
    LET now == Clouds(Gathered)
    IN IF now = {} THEN current = None
       ELSE offered \in rejected
            \/ (current.clouds = now /\ current.ops = ops)

(* When all is quiet, the buffer drawn is that of the cloud drawn.         *)
QuietDrawsOneFrame ==
  Quiet /\ late = {} /\ offered \notin rejected /\ ~current.empty =>
    ui.render = ui.cloud

(* Once devices and operators are left alone the feed comes to rest: a     *)
(* change is processed once, not again in every iteration.                 *)
FeedSettles == <>[]Quiet

(* A session that nothing feeds shows nothing, as the update loop has it   *)
(* ("nothing feeds this session, so clear its cloud").                     *)
NothingFedShowsNothing ==
  Quiet /\ Clouds(Gathered) = {} => current = None
=============================================================================
