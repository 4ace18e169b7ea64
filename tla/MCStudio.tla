------------------------------ MODULE MCStudio ------------------------------
(* The cameras, the editing, the recorder, the life of the devices, the    *)
(* files of one of them and the alignment of two for TLC: the parts are    *)
(* explored one after the other in one run. They share no variable; the    *)
(* one that runs is chosen at the start and the others stay where they     *)
(* begin.                                                                  *)
EXTENDS OrbbecCamera, WorkspaceEditor, SessionRecorder, DeviceLifecycle,
        PlyFiles, Alignment

VARIABLE part

(* A group with a device in it, shown and published.                       *)
GroupWithDevice ==
  {[tree |-> (1 :> [kind |-> "group", parent |-> 0, label |-> "group_1", value |-> 0, ops |-> <<>>])
          @@ (2 :> [kind |-> "device", parent |-> 1, label |-> "ply_1", value |-> 0,
                 ops |-> <<[id |-> 1, label |-> "noise_1", value |-> 0]>>]),
    sessions |-> <<[id |-> 1, label |-> "session_1", off |-> {}, value |-> 0, ops |-> <<>>]>>,
    publish |-> {<<"device", "group_1", "ply_1", "field">>,
                 <<"device", "group_1", "ply_1", "operators", "noise_1", "field">>}, push |-> {}, render |-> {},
    settings |-> 0, selected |-> 1, structure |-> 0, era |-> 0, blurred |-> FALSE]}

(* Three workspaces: one device; two, one with an operator whose plugin is   *)
(* missing; and the first device with another plugin, which is missing too.  *)
Operator(id, kind) == [id |-> id, kind |-> kind, value |-> 0]
Device(id, kind, ops) == [id |-> id, kind |-> kind, value |-> 0, ops |-> ops]
Workspaces ==
  {[devices |-> <<Device("a", "PlyDevice", <<Operator(1, "Noise")>>)>>,
    sessions |-> [s \in {"s"} |-> 0], osc |-> [enable |-> TRUE, port |-> 80]],
   [devices |-> <<Device("a", "PlyDevice", <<Operator(2, "Missing"), Operator(1, "Noise")>>),
                  Device("b", "OrbbecDevice", <<Operator(1, "Noise")>>)>>,
    sessions |-> [s \in {"s", "t"} |-> 1], osc |-> [enable |-> TRUE, port |-> 9000]],
   [devices |-> <<Device("a", "KinectDevice", <<>>)>>,
    sessions |-> [s \in {"t"} |-> 1], osc |-> [enable |-> FALSE, port |-> 9000]]}

Parts == {"camera", "editor", "recorder", "devices", "files", "alignment"}

AtRest(p) == part = p \/
  CASE p = "camera" -> context = "initialising"
    [] p = "files" -> plyConfig.path = None /\ onDisk = [f \in Paths |-> "good"]
    [] p = "alignment" -> placed = 0
    [] OTHER -> TRUE

StudioInit ==
  /\ CameraInit /\ EditorInit /\ RecorderInit /\ LifecycleInit /\ FilesInit /\ AlignmentInit
  /\ part \in Parts
  /\ \A p \in Parts : AtRest(p)

StudioVars == <<cameraVars, editorVars, recorderVars, lifecycleVars, filesVars, alignmentVars,
                part>>

StudioNext ==
  /\ UNCHANGED part
  /\ \/ /\ part = "camera" /\ CameraNext
        /\ UNCHANGED <<editorVars, recorderVars, lifecycleVars, filesVars, alignmentVars>>
     \/ /\ part = "editor" /\ EditorNext
        /\ UNCHANGED <<cameraVars, recorderVars, lifecycleVars, filesVars, alignmentVars>>
     \/ /\ part = "recorder" /\ RecorderNext
        /\ UNCHANGED <<cameraVars, editorVars, lifecycleVars, filesVars, alignmentVars>>
     \/ /\ part = "devices" /\ LifecycleNext
        /\ UNCHANGED <<cameraVars, editorVars, recorderVars, filesVars, alignmentVars>>
     \/ /\ part = "files" /\ FilesNext
        /\ UNCHANGED <<cameraVars, editorVars, recorderVars, lifecycleVars, alignmentVars>>
     \/ /\ part = "alignment" /\ AlignmentNext
        /\ UNCHANGED <<cameraVars, editorVars, recorderVars, lifecycleVars, filesVars>>

StudioSpec == StudioInit /\ [][StudioNext]_StudioVars /\ CameraFairness
=============================================================================
