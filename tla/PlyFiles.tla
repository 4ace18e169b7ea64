------------------------------ MODULE PlyFiles ------------------------------
(***************************************************************************)
(* Which file a ply device shows, and how: its configuration is changed    *)
(* field by field by the user interface and by the OSC receiver, each of   *)
(* which then notifies the device, or is replaced as a whole; a path is    *)
(* chosen under the device's lock and loaded after the lock was released.  *)
(* A cloud is the file it was read from with how it was read (the units,   *)
(* and what the rows say of the attributes of that file) and, once shown,  *)
(* how it was placed (the device's transform and that of its group).       *)
(***************************************************************************)
EXTENDS Naturals, Sequences

CONSTANTS
  Clips,        \* paths of single files
  Folders,      \* paths of sequences
  MaxFileEdits, \* bound: changes of the configuration, of its session and of the disk
  None          \* the empty path

ASSUME PathsAssumption == Clips \cap Folders = {}

VARIABLES
  plyConfig,  \* path, units, attributes and place
  groupPlace, \* of the group the device is in
  loadedPath, \* _loaded_file_path
  folder,     \* _sequence_loader: what it opened, and how it reads, or <<>>
  input,      \* _input_cloud, or <<>>
  shown,      \* what the operators were last given, or <<>>
  reprocess,  \* _force_reprocess
  inSession,
  caller,     \* what the user interface and the OSC receiver are doing, or <<>>
  onDisk,     \* each path: "good", "bad" (it cannot be read) or "gone"
  fileEdits,
  unreadable, \* history: paths that could not be loaded
  unapplied,  \* history: fields whose value nobody was told of, or could not be obeyed
  missed,     \* history: the last frame asked of the open sequence did not decode
  concurrent  \* history: two callers were under way at once

deviceVars == <<loadedPath, folder, input, shown>>
historyVars == <<unreadable, unapplied, missed>>
filesVars == <<plyConfig, groupPlace, deviceVars, reprocess, inSession, caller, onDisk,
               fileEdits, historyVars, concurrent>>

Paths == Clips \cup Folders
Callers == {"ui", "osc"}

(* The rows of a file's attributes: not there yet, as the first look at the  *)
(* file makes them, or as the user has changed them.                         *)
Rows == {"absent", "seeded", "edited"}
NoRows == [p \in Paths |-> "absent"]

FilesInit ==
  /\ plyConfig \in [path : {None} \cup Paths, units : {0}, attributes : {NoRows}, place : {0}]
  /\ groupPlace = 0 /\ loadedPath = None /\ folder = <<>> /\ input = <<>> /\ shown = <<>>
  /\ reprocess = FALSE /\ inSession = FALSE
  /\ caller = [c \in Callers |-> <<>>]
  /\ onDisk \in [Paths -> {"good", "bad"}] /\ fileEdits = 0
  /\ unreadable = {} /\ unapplied = {} /\ missed = FALSE /\ concurrent = FALSE

-----------------------------------------------------------------------------
(* apply_transform: nothing without an input cloud.                          *)
Placed(cloud) == [of |-> cloud.of, units |-> cloud.units, attributes |-> cloud.attributes,
                  place |-> plyConfig.place, group |-> groupPlace]
ApplyTransform(cloud) ==
  IF cloud = <<>> THEN UNCHANGED <<shown, unapplied>>
  ELSE shown' = <<Placed(cloud[1])>> /\ unapplied' = unapplied \ {"place"}

(* reload_current_frame: a frame that cannot be decoded changes nothing.     *)
ReloadFrame(cloud, pending) ==
  \/ /\ input' = <<cloud>> /\ shown' = <<Placed(cloud)>>
     /\ unapplied' = pending \ {"place"} /\ missed' = FALSE
  \/ /\ UNCHANGED <<input, shown>>
     /\ unapplied' = pending /\ missed' = TRUE

(* Slip: the path is noted before the file is read.                          *)
NotedFirst(path, loads) == path

LoadedPath(path, loads) == IF loads THEN path ELSE loadedPath

ReadAs(path, config) ==
  [of |-> path, units |-> config.units, attributes |-> config.attributes[path]]
Seeded(config, path) ==
  IF config.attributes[path] = "absent"
  THEN [config EXCEPT !.attributes[path] = "seeded"] ELSE config

Readable(path) == path \in Paths /\ onDisk[path] = "good"
IsDirectory(path) == path \in Folders /\ onDisk[path] # "gone"

(* load_directory closes what was open first. A sequence is opened with the  *)
(* rows there were before, which it keeps, and its first frame may fail to   *)
(* decode; the rows it has none for are made after that.                     *)
LoadFolder(path) ==
  IF Readable(path)
  THEN /\ folder' = <<ReadAs(path, plyConfig)>>
       /\ plyConfig' = Seeded(plyConfig, path)
       /\ unapplied' = IF plyConfig' = plyConfig THEN {} ELSE {"attributes"}
       /\ missed' = FALSE
       /\ \/ input' = folder' /\ shown' = <<Placed(folder'[1])>>
          \/ input' = <<>> /\ UNCHANGED shown
  ELSE /\ folder' = <<>> /\ input' = <<>>
       /\ UNCHANGED <<plyConfig, shown, unapplied, missed>>

(* A single file closes the sequence, and keeps its last frame until the     *)
(* file was read. The rows are made before that, if only the header is good. *)
(* This is also the way of a directory that is not there any more.           *)
LoadClip(path, asked) ==
  /\ folder' = <<>>
  /\ IF Readable(path)
     THEN /\ plyConfig' = Seeded(plyConfig, path)
          /\ input' = <<ReadAs(path, plyConfig')>>
          /\ shown' = <<Placed(input'[1])>> /\ unapplied' = {} /\ missed' = FALSE
     ELSE /\ plyConfig' \in {plyConfig} \cup {Seeded(plyConfig, p) : p \in {path} \cap Clips}
          /\ unapplied' = unapplied \cup asked
          /\ UNCHANGED <<input, shown, missed>>

Load(path, asked) ==
  /\ IF IsDirectory(path) THEN LoadFolder(path) ELSE LoadClip(path, asked)
  /\ loadedPath' = LoadedPath(path, Readable(path))
  /\ unreadable' = IF Readable(path) THEN unreadable \ {path} ELSE unreadable \cup {path}

-----------------------------------------------------------------------------
Begin(c, doing) ==
  /\ caller[c] = <<>> /\ caller' = [caller EXCEPT ![c] = doing]
  /\ concurrent' = (concurrent \/ \E other \in Callers \ {c} : caller[other] # <<>>)
Edit == fileEdits < MaxFileEdits /\ fileEdits' = fileEdits + 1
Continue(c, doing) == caller' = [caller EXCEPT ![c] = doing] /\ UNCHANGED concurrent
Finished(c) == Continue(c, <<>>)
LoadNext(path, reason) == <<[does |-> "load", path |-> path, reason |-> reason]>>

(* A field is written, without the device's lock, and notified after that.   *)
SetField(c, field, value) ==
  /\ Edit /\ plyConfig[field] # value
  /\ plyConfig' = [plyConfig EXCEPT ![field] = value]
  /\ Begin(c, <<[does |-> "notify", field |-> field]>>)
  /\ UNCHANGED <<groupPlace, deviceVars, reprocess, inSession, onDisk, historyVars>>

(* on_config_field_changed                                                   *)
Notified(c, field) ==
  caller[c] # <<>> /\ caller[c][1].does = "notify" /\ caller[c][1].field = field

PathNotified(c) ==
  /\ Notified(c, "path")
  /\ Continue(c, IF plyConfig.path = loadedPath THEN <<>> ELSE LoadNext(plyConfig.path, "path"))
  /\ UNCHANGED <<plyConfig, groupPlace, deviceVars, reprocess, inSession, onDisk, fileEdits,
                 historyVars>>

(* The loader is told of the field that was changed, and of no other.        *)
Told(field) ==
  IF field = "units" THEN [folder[1] EXCEPT !.units = plyConfig.units]
  ELSE [folder[1] EXCEPT !.attributes = plyConfig.attributes[folder[1].of]]
ReadingNotified(c, field) ==
  /\ Notified(c, field)
  /\ IF folder = <<>>
     THEN Continue(c, LoadNext(plyConfig.path, field)) /\ UNCHANGED <<deviceVars, historyVars>>
     ELSE /\ folder' = <<Told(field)>>
          /\ ReloadFrame(Told(field), unapplied \ {field})
          /\ Finished(c) /\ UNCHANGED <<loadedPath, unreadable>>
  /\ UNCHANGED <<plyConfig, groupPlace, reprocess, inSession, onDisk, fileEdits>>

PlaceNotified(c) ==
  /\ Notified(c, "place")
  /\ ApplyTransform(input) /\ Finished(c)
  /\ UNCHANGED <<plyConfig, groupPlace, loadedPath, folder, input, reprocess, inSession, onDisk,
                 fileEdits, unreadable, missed>>

LoadChosen(c) ==
  /\ caller[c] # <<>> /\ caller[c][1].does = "load"
  /\ LET job == caller[c][1]
     IN /\ Load(job.path, {job.reason} \cap {"units", "attributes"})
        /\ IF job.reason = "path" /\ ~Readable(job.path)
           THEN Continue(c, <<[does |-> "rollback"]>>) ELSE Finished(c)
  /\ UNCHANGED <<groupPlace, reprocess, inSession, onDisk, fileEdits>>

(* The path goes back; the sequence that was closed for it does not.         *)
Rollback(c) ==
  /\ caller[c] # <<>> /\ caller[c][1].does = "rollback"
  /\ plyConfig' = [plyConfig EXCEPT !.path = loadedPath]
  /\ Finished(c)
  /\ UNCHANGED <<groupPlace, deviceVars, reprocess, inSession, onDisk, fileEdits, historyVars>>

-----------------------------------------------------------------------------
(* update_config, as undo and every synchronisation call it: the whole       *)
(* configuration is replaced, and only another path has an effect.           *)
UpdateConfig(new) ==
  /\ Edit /\ new # plyConfig /\ plyConfig' = new
  /\ unapplied' = unapplied \cup
       {f \in {"units", "attributes", "place"} : new[f] # plyConfig[f]}
  /\ Begin("ui", IF inSession /\ new.path \notin {None, loadedPath}
                 THEN LoadNext(new.path, "config") ELSE <<>>)
  /\ UNCHANGED <<groupPlace, deviceVars, reprocess, inSession, onDisk, unreadable, missed>>

(* on_session_membership_changed                                             *)
SessionChanges(in) ==
  /\ Edit /\ in # inSession /\ inSession' = in
  /\ Begin("ui", IF in /\ plyConfig.path \notin {None, loadedPath}
                 THEN LoadNext(plyConfig.path, "session") ELSE <<>>)
  /\ UNCHANGED <<plyConfig, groupPlace, deviceVars, reprocess, onDisk, historyVars>>

(* The group is moved, and its devices are told that they were.              *)
MoveGroup ==
  /\ Edit /\ groupPlace' = 1 - groupPlace
  /\ Begin("ui", <<[does |-> "notify", field |-> "place"]>>)
  /\ UNCHANGED <<plyConfig, deviceVars, reprocess, inSession, onDisk, historyVars>>

(* An operator of the device is edited: its input has to run again.          *)
OperatorEdited ==
  /\ Edit /\ caller["ui"] = <<>> /\ reprocess' = TRUE
  /\ UNCHANGED <<plyConfig, groupPlace, deviceVars, inSession, caller, onDisk, historyVars,
                 concurrent>>

(* tick, of a device that is in a session.                                   *)
TickReprocesses ==
  /\ inSession /\ reprocess /\ reprocess' = FALSE
  /\ ApplyTransform(input)
  /\ UNCHANGED <<plyConfig, groupPlace, loadedPath, folder, input, inSession, caller, onDisk,
                 fileEdits, unreadable, missed, concurrent>>
TickAdvances ==
  /\ inSession /\ ~reprocess /\ folder # <<>>
  /\ ReloadFrame(folder[1], unapplied)
  /\ UNCHANGED <<plyConfig, groupPlace, loadedPath, folder, reprocess, inSession, caller, onDisk,
                 fileEdits, unreadable, concurrent>>

(* A directory may also go.                                                  *)
DiskChanges(path) ==
  /\ Edit
  /\ \E state \in {"good", "bad"} \cup (IF path \in Folders THEN {"gone"} ELSE {}) :
       state # onDisk[path] /\ onDisk' = [onDisk EXCEPT ![path] = state]
  /\ UNCHANGED <<plyConfig, groupPlace, deviceVars, reprocess, inSession, caller, historyVars,
                 concurrent>>

(* What another copy of the configuration may hold: no rows, as before the   *)
(* file was looked at, the present ones, or ones that somebody has changed.  *)
Replacements ==
  [path : {None} \cup Paths, units : {0, 1}, place : {0, 1},
   attributes : {NoRows, plyConfig.attributes, [p \in Paths |-> "edited"]}]

FilesNext ==
  \/ \E c \in Callers :
       \/ \E p \in Paths : SetField(c, "path", p)
       \/ \E f \in {"units", "place"}, v \in {0, 1} : SetField(c, f, v)
       \/ \E p \in Paths, r \in Rows \ {"absent"} :
            /\ plyConfig.attributes[p] # "absent"
            /\ SetField(c, "attributes", [plyConfig.attributes EXCEPT ![p] = r])
       \/ PathNotified(c) \/ PlaceNotified(c) \/ LoadChosen(c) \/ Rollback(c)
       \/ ReadingNotified(c, "units") \/ ReadingNotified(c, "attributes")
  \/ \E new \in Replacements : UpdateConfig(new)
  \/ (\E in \in BOOLEAN : SessionChanges(in)) \/ MoveGroup \/ OperatorEdited
  \/ TickReprocesses \/ TickAdvances
  \/ \E p \in Paths : DiskChanges(p)

FilesSpec == FilesInit /\ [][FilesNext]_filesVars

-----------------------------------------------------------------------------
(* PROPERTIES                                                                *)

(* What a device shows is what its configuration names. The input is always  *)
(* of the path that was last loaded, and so is an open sequence; and when    *)
(* no caller is under way, and never two were at once, a device in a session *)
(* has loaded the path it is configured with, unless that could not be read. *)
(* While it is configured with that path and has an input, it shows it       *)
(* placed as it is configured, and read with the units and the attributes it *)
(* is configured with. A field is excepted once it was changed by a          *)
(* replacement of the whole configuration, until it is edited or read again, *)
(* and once the load its edit asked for has failed. So are the attributes of *)
(* a sequence that had no rows when it was opened, until one is edited: it   *)
(* goes on without them. A sequence shows its last frame that decoded, and   *)
(* once a directory could not be opened as one there is no input at all.     *)
ShownIsConfigured ==
  /\ input # <<>> => input[1].of = loadedPath
  /\ folder # <<>> => folder[1].of = loadedPath
  /\ (\A c \in Callers : caller[c] = <<>>) /\ ~concurrent /\ inSession =>
       /\ plyConfig.path \in {None, loadedPath} \cup unreadable
       /\ input # <<>> /\ plyConfig.path = loadedPath =>
            /\ shown[1].of = loadedPath
            /\ "place" \notin unapplied =>
                 shown[1].place = plyConfig.place /\ shown[1].group = groupPlace
            /\ ~missed /\ "units" \notin unapplied => shown[1].units = plyConfig.units
            /\ ~missed /\ "attributes" \notin unapplied =>
                 shown[1].attributes = plyConfig.attributes[loadedPath]
=============================================================================
