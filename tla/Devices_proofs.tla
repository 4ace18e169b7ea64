--------------------------- MODULE Devices_proofs ---------------------------
(***************************************************************************)
(* Proofs about devices, each for every value of its constants: the files  *)
(* of a ply device, the alignment of devices to one another, and how a     *)
(* configuration becomes running devices.                                  *)
(***************************************************************************)
EXTENDS PlyFiles, Alignment, DeviceLifecycle, SequenceTheorems, FiniteSetTheorems,
        WellFoundedInduction, TLAPS

-----------------------------------------------------------------------------
(* PlyFiles: a ply device shows what it is configured to show.             *)

PlyConfigs ==
  [path : {None} \cup Paths, units : {0, 1}, attributes : [Paths -> Rows], place : {0, 1}]
FileJobs ==
  [does : {"notify"}, field : {"path", "units", "attributes", "place"}]
    \cup [does : {"load"}, path : {None} \cup Paths,
          reason : {"path", "units", "attributes", "config", "session"}]
    \cup [does : {"rollback"}]
Clouds == [of : Paths, units : {0, 1}, attributes : Rows]

FilesTypeOK ==
  /\ plyConfig \in PlyConfigs
  /\ groupPlace \in {0, 1} /\ loadedPath \in {None} \cup Paths
  /\ folder = <<>> \/ \E k \in Clouds : folder = <<k>>
  /\ input = <<>> \/ \E k \in Clouds : input = <<k>>
  /\ caller \in [Callers -> {<<>>} \cup {<<j>> : j \in FileJobs}]
  /\ missed \in BOOLEAN /\ concurrent \in BOOLEAN /\ inSession \in BOOLEAN

(* The input and an open sequence are of the loaded path, and what the       *)
(* operators were last given is the input.                                   *)
CloudIsLoaded ==
  /\ input # <<>> => /\ input[1].of = loadedPath /\ shown # <<>>
                     /\ shown[1].of = loadedPath /\ shown[1].units = input[1].units
                     /\ shown[1].attributes = input[1].attributes
  /\ folder # <<>> => folder[1].of = loadedPath

(* Only a sequence is kept open, and a single file was read with rows.       *)
ClipsHaveRows ==
  /\ folder # <<>> => folder[1].of \in Folders
  /\ input # <<>> /\ input[1].of \in Clips => input[1].attributes # "absent"

(* What places otherwise is told, or noted as not applied.                   *)
PlaceIsTold ==
  input # <<>> /\ "place" \notin unapplied /\ (\A c \in Callers : ~Notified(c, "place")) =>
    shown[1].place = plyConfig.place /\ shown[1].group = groupPlace

(* What reads otherwise is told too, field by field: to an open sequence,    *)
(* and to the input it decodes again or that is loaded again for it.         *)
Loads(c) == caller[c] # <<>> /\ caller[c][1].does = "load"
Tells(c, field) == Notified(c, field) \/ (Loads(c) /\ caller[c][1].reason = field)
ReadsAs(cloud, field) ==
  IF field = "units" THEN cloud.units = plyConfig.units
  ELSE cloud.attributes = plyConfig.attributes[cloud.of]
FieldIsTold(field) ==
  field \notin unapplied /\ (\A c \in Callers : ~Tells(c, field)) =>
    /\ input # <<>> /\ ~missed => ReadsAs(input[1], field)
    /\ folder # <<>> => ReadsAs(folder[1], field)
ReadingIsTold == FieldIsTold("units") /\ FieldIsTold("attributes")

(* While never two callers were at once, whoever loads loads the configured  *)
(* path, and a path that is neither loaded nor unreadable is about to be.    *)
RollsBack(c) == caller[c] # <<>> /\ caller[c][1].does = "rollback"
PathIsTold ==
  ~concurrent =>
    /\ \A c, d \in Callers : caller[c] # <<>> /\ caller[d] # <<>> => c = d
    /\ \A c \in Callers : Loads(c) => caller[c][1].path = plyConfig.path
    /\ inSession =>
         \/ plyConfig.path \in {None, loadedPath} \cup unreadable
         \/ \E c \in Callers : Notified(c, "path") \/ Loads(c) \/ RollsBack(c)

FilesInv ==
  FilesTypeOK /\ CloudIsLoaded /\ ClipsHaveRows /\ PlaceIsTold /\ ReadingIsTold /\ PathIsTold

-----------------------------------------------------------------------------
(* What loading a path comes to: its cloud is shown, or it is an open        *)
(* sequence without a first frame, or it could not be read.                  *)
RowsMade == IF plyConfig' = plyConfig THEN {} ELSE {"attributes"}
ShowsClip(path) ==
  /\ path \notin Folders /\ folder' = <<>> /\ unapplied' = {}
  /\ input' = <<ReadAs(path, plyConfig')>> /\ shown' = <<Placed(ReadAs(path, plyConfig'))>>
ShowsFrame(path) ==
  /\ path \in Folders /\ folder' = <<ReadAs(path, plyConfig)>> /\ unapplied' = RowsMade
  /\ input' = folder' /\ shown' = <<Placed(ReadAs(path, plyConfig))>>
Opens(path) ==
  /\ path \in Folders /\ folder' = <<ReadAs(path, plyConfig)>> /\ unapplied' = RowsMade
  /\ input' = <<>>
Loaded(path) ==
  /\ Readable(path) /\ loadedPath' = path /\ unreadable' = unreadable \ {path}
  /\ plyConfig' = Seeded(plyConfig, path) /\ missed' = FALSE
  /\ ShowsClip(path) \/ ShowsFrame(path) \/ Opens(path)
LoadFails(path, asked) ==
  /\ ~Readable(path) /\ loadedPath' = loadedPath
  /\ unreadable' = unreadable \cup {path}
  /\ plyConfig' \in {plyConfig} \cup {Seeded(plyConfig, p) : p \in {path} \cap Clips}
  /\ folder' = <<>> /\ shown' = shown /\ missed' = missed
  /\ \/ input' = <<>> /\ unapplied' = unapplied
     \/ input' = input /\ unapplied' = unapplied \cup asked

(* load_path ends in one of these ways.                                      *)
LEMMA LoadOutcomes ==
  ASSUME NEW path, NEW asked, Load(path, asked)
  PROVE  Loaded(path) \/ LoadFails(path, asked)
<1>1. CASE IsDirectory(path)
  <2>1. path \in Folders
    BY <1>1 DEF IsDirectory
  <2>2. CASE Readable(path)
    <3>1. folder' = <<ReadAs(path, plyConfig)>>
      BY <1>1, <2>2 DEF Load, LoadFolder
    <3>2. folder'[1] = ReadAs(path, plyConfig)
      BY <3>1
    <3>3. CASE input' = folder' /\ shown' = <<Placed(folder'[1])>>
      BY <1>1, <2>1, <2>2, <3>1, <3>2, <3>3 DEF Load, LoadFolder, LoadedPath, Loaded, ShowsFrame, RowsMade
    <3>4. CASE input' = <<>>
      BY <1>1, <2>1, <2>2, <3>1, <3>4 DEF Load, LoadFolder, LoadedPath, Loaded, Opens, RowsMade
    <3> QED
      BY <1>1, <2>2, <3>3, <3>4 DEF Load, LoadFolder
  <2>3. CASE ~Readable(path)
    BY <1>1, <2>3 DEF Load, LoadFolder, LoadedPath, LoadFails
  <2> QED
    BY <2>2, <2>3
<1>2. CASE ~IsDirectory(path)
  <2>1. CASE Readable(path)
    <3>1. path \notin Folders
      BY <1>2, <2>1 DEF Readable, IsDirectory
    <3>2. input' = <<ReadAs(path, plyConfig')>>
      BY <1>2, <2>1 DEF Load, LoadClip
    <3>3. input'[1] = ReadAs(path, plyConfig')
      BY <3>2
    <3> QED
      BY <1>2, <2>1, <3>1, <3>2, <3>3 DEF Load, LoadClip, LoadedPath, Loaded, ShowsClip
  <2>2. CASE ~Readable(path)
    BY <1>2, <2>2 DEF Load, LoadClip, LoadedPath, LoadFails
  <2> QED
    BY <2>1, <2>2
<1> QED
  BY <1>1, <1>2

(* Making the rows of a file changes no other part of the configuration, and *)
(* no rows that are there.                                                   *)
LEMMA SeededFacts ==
  ASSUME FilesTypeOK, NEW path \in Paths
  PROVE  LET s == Seeded(plyConfig, path)
         IN /\ s \in PlyConfigs
            /\ s.path = plyConfig.path /\ s.units = plyConfig.units /\ s.place = plyConfig.place
            /\ s.attributes[path] # "absent"
            /\ \A p \in Paths : p # path \/ plyConfig.attributes[p] # "absent" =>
                 s.attributes[p] = plyConfig.attributes[p]
<1>1. CASE plyConfig.attributes[path] = "absent"
  <2>1. plyConfig \in PlyConfigs /\ plyConfig.attributes \in [Paths -> Rows]
    BY DEF FilesTypeOK, PlyConfigs
  <2> DEFINE rows == [plyConfig.attributes EXCEPT ![path] = "seeded"]
  <2>2. rows \in [Paths -> Rows]
    BY <2>1 DEF Rows
  <2>3. Seeded(plyConfig, path) = [plyConfig EXCEPT !.attributes = rows]
    BY <1>1, <2>1 DEF Seeded, PlyConfigs
  <2>4. /\ [plyConfig EXCEPT !.attributes = rows] \in PlyConfigs
        /\ [plyConfig EXCEPT !.attributes = rows].path = plyConfig.path
        /\ [plyConfig EXCEPT !.attributes = rows].units = plyConfig.units
        /\ [plyConfig EXCEPT !.attributes = rows].place = plyConfig.place
        /\ [plyConfig EXCEPT !.attributes = rows].attributes = rows
    <3> HIDE DEF rows
    <3> QED
      BY <2>1, <2>2 DEF PlyConfigs
  <2>5. rows[path] = "seeded" /\ \A p \in Paths : p # path => rows[p] = plyConfig.attributes[p]
    BY <2>1
  <2> QED
    BY <1>1, <2>3, <2>4, <2>5
<1>2. CASE plyConfig.attributes[path] # "absent"
  BY <1>2 DEF Seeded, FilesTypeOK
<1> QED
  BY <1>1, <1>2

(* So whatever a load does to the configuration, it keeps the path, the      *)
(* units and the placement, and the rows of every cloud that has some.       *)
LEMMA LoadKeeps ==
  ASSUME FilesTypeOK, NEW path, NEW asked, Loaded(path) \/ LoadFails(path, asked)
  PROVE  /\ plyConfig' \in PlyConfigs
         /\ plyConfig'.path = plyConfig.path /\ plyConfig'.units = plyConfig.units
         /\ plyConfig'.place = plyConfig.place
         /\ \A p \in Paths : p # path \/ plyConfig.attributes[p] # "absent" =>
              plyConfig'.attributes[p] = plyConfig.attributes[p]
<1>1. plyConfig' = plyConfig \/ (path \in Paths /\ plyConfig' = Seeded(plyConfig, path))
  BY DEF Loaded, LoadFails, Readable, Paths
<1>2. CASE plyConfig' = plyConfig
  BY <1>2 DEF FilesTypeOK
<1> QED
  BY <1>1, <1>2, SeededFacts

(* Decoding the current frame again shows it, or changes no cloud.           *)
Reloads(cloud, pending) ==
  \/ /\ input' = <<cloud>> /\ shown' = <<Placed(cloud)>>
     /\ unapplied' = pending \ {"place"} /\ missed' = FALSE
  \/ UNCHANGED <<input, shown>> /\ unapplied' = pending /\ missed' = TRUE

(* The steps by what they are: a caller begins, goes on, or none is involved. *)
Begins(c) ==
  \/ \E p \in Paths : SetField(c, "path", p)
  \/ \E f \in {"units", "place"}, v \in {0, 1} : SetField(c, f, v)
  \/ \E p \in Paths, r \in Rows : SetField(c, "attributes", [plyConfig.attributes EXCEPT ![p] = r])
  \/ c = "ui" /\ \/ \E new \in Replacements : UpdateConfig(new)
                 \/ \E in \in BOOLEAN : SessionChanges(in)
                 \/ MoveGroup
Continues(c) ==
  \/ PathNotified(c) \/ PlaceNotified(c) \/ LoadChosen(c) \/ Rollback(c)
  \/ \E f \in {"units", "attributes"} : ReadingNotified(c, f)
NoCaller == OperatorEdited \/ TickReprocesses \/ TickAdvances \/ \E p \in Paths : DiskChanges(p)

(* A step is one of these kinds.                                             *)
LEMMA FilesSteps ==
  ASSUME FilesNext
  PROVE  NoCaller \/ \E c \in Callers : Begins(c) \/ Continues(c)
<1>1. CASE NoCaller
  BY <1>1
<1>2. CASE \E new \in Replacements : UpdateConfig(new)
  BY <1>2, Zenon DEF Begins, Callers
<1>3. CASE (\E in \in BOOLEAN : SessionChanges(in)) \/ MoveGroup
  BY <1>3, Zenon DEF Begins, Callers
<1>4. ASSUME NEW c \in Callers, NEW p \in Paths, NEW r \in Rows \ {"absent"},
             SetField(c, "attributes", [plyConfig.attributes EXCEPT ![p] = r])
      PROVE  Begins(c)
  BY <1>4 DEF Begins
<1>5. ASSUME NEW c \in Callers,
             \/ \E p \in Paths : SetField(c, "path", p)
             \/ \E f \in {"units", "place"}, v \in {0, 1} : SetField(c, f, v)
      PROVE  Begins(c)
  BY <1>5, Zenon DEF Begins
<1>6. ASSUME NEW c \in Callers,
             \/ PathNotified(c) \/ PlaceNotified(c) \/ LoadChosen(c) \/ Rollback(c)
             \/ ReadingNotified(c, "units") \/ ReadingNotified(c, "attributes")
      PROVE  Continues(c)
  BY <1>6 DEF Continues
<1> QED
  BY <1>1, <1>2, <1>3, <1>4, <1>5, <1>6, Zenon DEF FilesNext, NoCaller

(* A caller that begins had nothing to do, and only it changes.              *)
LEMMA BeginsFacts ==
  ASSUME FilesTypeOK, NEW c \in Callers, Begins(c)
  PROVE  /\ caller[c] = <<>> /\ UNCHANGED <<deviceVars, reprocess, onDisk, unreadable, missed>>
         /\ \A d \in Callers : d # c => caller'[d] = caller[d]
         /\ concurrent' = (concurrent \/ \E d \in Callers \ {c} : caller[d] # <<>>)
<1>1. PICK x : Begin(c, x)
  BY DEF Begins, SetField, UpdateConfig, SessionChanges, MoveGroup
<1>2. caller' = [caller EXCEPT ![c] = x] /\ caller \in [Callers -> {<<>>} \cup {<<j>> : j \in FileJobs}]
  BY <1>1 DEF Begin, FilesTypeOK
<1>3. \A d \in Callers : d # c => caller'[d] = caller[d]
  BY <1>2
<1>4. UNCHANGED <<deviceVars, reprocess, onDisk, unreadable, missed>>
  BY DEF Begins, SetField, UpdateConfig, SessionChanges, MoveGroup, historyVars
<1> QED
  BY <1>1, <1>3, <1>4 DEF Begin

(* What is written for the caller is what it does next.                      *)
LEMMA CallerSet ==
  ASSUME FilesTypeOK, NEW c \in Callers, NEW x, caller' = [caller EXCEPT ![c] = x]
  PROVE  caller'[c] = x
  BY DEF FilesTypeOK

(* No caller is involved: the configuration and the callers stay.            *)
LEMMA NoCallerFacts ==
  ASSUME NoCaller
  PROVE  UNCHANGED <<plyConfig, groupPlace, caller, loadedPath, folder, inSession, concurrent, unreadable>>
  BY DEF NoCaller, OperatorEdited, TickReprocesses, TickAdvances, DiskChanges, deviceVars, historyVars

(* Applying the placement: nothing without an input.                         *)
Placing ==
  /\ UNCHANGED <<plyConfig, input, folder, loadedPath, missed, unreadable>>
  /\ \/ input = <<>> /\ UNCHANGED <<shown, unapplied>>
     \/ input # <<>> /\ shown' = <<Placed(input[1])>> /\ unapplied' = unapplied \ {"place"}

(* The ways in which a call that goes on changes the clouds: it loads,       *)
(* decodes again, places, or only goes on to something else.                 *)
LoadStep(c) ==
  /\ Loads(c) /\ caller'[c] \in {<<>>, <<[does |-> "rollback"]>>}
  /\ LET job == caller[c][1]
     IN \/ Loaded(job.path)
        \/ LoadFails(job.path, {job.reason} \cap {"units", "attributes"})
ReadStep(c, field) ==
  /\ field \in {"units", "attributes"} /\ Notified(c, field) /\ folder # <<>> /\ caller'[c] = <<>>
  /\ UNCHANGED <<plyConfig, loadedPath, unreadable>>
  /\ folder' = <<Told(field)>> /\ Reloads(Told(field), unapplied \ {field})
PlaceStepOf(c) == Notified(c, "place") /\ Placing /\ caller'[c] = <<>>
GoesOn(c) ==
  /\ UNCHANGED <<deviceVars, historyVars>>
  /\ \/ /\ Notified(c, "path") /\ plyConfig' = plyConfig
        /\ \/ plyConfig.path = loadedPath /\ caller'[c] = <<>>
           \/ caller'[c] = LoadNext(plyConfig.path, "path")
     \/ \E f \in {"units", "attributes"} :
          /\ Notified(c, f) /\ plyConfig' = plyConfig /\ caller'[c] = LoadNext(plyConfig.path, f)
     \/ /\ RollsBack(c) /\ plyConfig' = [plyConfig EXCEPT !.path = loadedPath]
        /\ caller'[c] = <<>>

(* A call that goes on does one of these, and only its caller changes.       *)
LEMMA ContinuesSteps ==
  ASSUME FilesTypeOK, NEW c \in Callers, Continues(c)
  PROVE  /\ caller[c] # <<>> /\ UNCHANGED <<groupPlace, reprocess, inSession, concurrent>>
         /\ \A d \in Callers : d # c => caller'[d] = caller[d]
         /\ \/ LoadStep(c) \/ PlaceStepOf(c) \/ GoesOn(c)
            \/ \E f \in {"units", "attributes"} : ReadStep(c, f)
<1> DEFINE Only == /\ UNCHANGED <<groupPlace, reprocess, inSession, concurrent>>
                   /\ \A d \in Callers : d # c => caller'[d] = caller[d]
<1>1. ASSUME NEW x, Continue(c, x)
      PROVE  /\ caller'[c] = x /\ UNCHANGED concurrent
             /\ \A d \in Callers : d # c => caller'[d] = caller[d]
  BY <1>1 DEF Continue, FilesTypeOK
<1>2. CASE PathNotified(c)
  <2>1. Continue(c, IF plyConfig.path = loadedPath THEN <<>> ELSE LoadNext(plyConfig.path, "path"))
    BY <1>2 DEF PathNotified
  <2>2. caller'[c] = (IF plyConfig.path = loadedPath THEN <<>> ELSE LoadNext(plyConfig.path, "path")) /\ Only
    BY <1>1, <1>2, <2>1 DEF PathNotified
  <2> QED
    BY <1>2, <2>2 DEF PathNotified, GoesOn, Notified
<1>3. CASE PlaceNotified(c)
  <2>1. caller'[c] = <<>> /\ Only
    BY <1>1, <1>3 DEF PlaceNotified, Finished
  <2>2. Placing
    BY <1>3 DEF PlaceNotified, ApplyTransform, Placing
  <2> QED
    BY <1>3, <2>1, <2>2 DEF PlaceNotified, PlaceStepOf, Notified
<1>4. CASE LoadChosen(c)
  <2> DEFINE job == caller[c][1]
  <2>1. /\ caller[c] # <<>> /\ Loads(c) /\ Load(job.path, {job.reason} \cap {"units", "attributes"})
        /\ Continue(c, <<[does |-> "rollback"]>>) \/ Continue(c, <<>>)
        /\ UNCHANGED <<groupPlace, reprocess, inSession>>
    BY <1>4 DEF LoadChosen, Loads, Finished
  <2>2. caller'[c] \in {<<>>, <<[does |-> "rollback"]>>} /\ Only
    BY <1>1, <2>1
  <2> QED
    BY <2>1, <2>2, LoadOutcomes DEF LoadStep
<1>5. CASE Rollback(c)
  <2>1. caller'[c] = <<>> /\ Only
    BY <1>1, <1>5 DEF Rollback, Finished
  <2> QED
    BY <1>5, <2>1 DEF Rollback, GoesOn, RollsBack
<1>6. ASSUME NEW f \in {"units", "attributes"}, ReadingNotified(c, f), folder = <<>>
      PROVE  caller[c] # <<>> /\ Only /\ GoesOn(c)
  <2>1. Continue(c, LoadNext(plyConfig.path, f))
    BY <1>6 DEF ReadingNotified
  <2>2. caller'[c] = LoadNext(plyConfig.path, f) /\ Only
    BY <1>1, <1>6, <2>1 DEF ReadingNotified
  <2> QED
    BY <1>6, <2>2 DEF ReadingNotified, GoesOn, Notified
<1>7. ASSUME NEW f \in {"units", "attributes"}, ReadingNotified(c, f), folder # <<>>
      PROVE  caller[c] # <<>> /\ Only /\ ReadStep(c, f)
  <2>1. caller'[c] = <<>> /\ Only
    BY <1>1, <1>7 DEF ReadingNotified, Finished
  <2>2. ReloadFrame(Told(f), unapplied \ {f}) => Reloads(Told(f), unapplied \ {f})
    BY DEF ReloadFrame, Reloads
  <2> QED
    BY <1>7, <2>1, <2>2 DEF ReadingNotified, ReadStep, Notified
<1> QED
  BY <1>2, <1>3, <1>4, <1>5, <1>6, <1>7 DEF Continues

(* And a step without a caller: an operator's edit, the disk and the tick.   *)
LEMMA NoCallerClouds ==
  ASSUME NoCaller
  PROVE  \/ UNCHANGED <<input, shown, unapplied, missed>>
         \/ Placing
         \/ folder # <<>> /\ Reloads(folder[1], unapplied)
<1>1. CASE OperatorEdited \/ \E p \in Paths : DiskChanges(p)
  BY <1>1 DEF OperatorEdited, DiskChanges, deviceVars, historyVars
<1>2. CASE TickReprocesses
  BY <1>2 DEF TickReprocesses, ApplyTransform, Placing
<1>3. CASE TickAdvances
  BY <1>3 DEF TickAdvances, ReloadFrame, Reloads
<1> QED
  BY <1>1, <1>2, <1>3 DEF NoCaller

-----------------------------------------------------------------------------
(* What the loader is told changes one field of how it reads.                *)
LEMMA ToldFacts ==
  ASSUME FilesTypeOK, NEW f \in {"units", "attributes"}, folder # <<>>
  PROVE  /\ Told(f) \in Clouds /\ Told(f).of = folder[1].of /\ ReadsAs(Told(f), f)
         /\ \A g \in {"units", "attributes"} : ReadsAs(folder[1], g) => ReadsAs(Told(f), g)
<1>1. PICK k \in Clouds : folder = <<k>>
  BY DEF FilesTypeOK
<1>2. folder[1] = k /\ plyConfig.units \in {0, 1} /\ plyConfig.attributes[k.of] \in Rows
  BY <1>1 DEF FilesTypeOK, PlyConfigs, Clouds
<1>3. CASE f = "units"
  BY <1>2, <1>3 DEF Told, ReadsAs, Clouds
<1>4. CASE f = "attributes"
  BY <1>2, <1>4 DEF Told, ReadsAs, Clouds
<1> QED
  BY <1>3, <1>4

(* The clouds stay of the loaded path, and what is shown stays the input.    *)
LEMMA CloudStep ==
  ASSUME FilesTypeOK, CloudIsLoaded, FilesNext
  PROVE  CloudIsLoaded'
<1>1. ASSUME NEW k, input' = <<k>>, shown' = <<Placed(k)>>, k.of = loadedPath',
             folder' # <<>> => folder'[1].of = loadedPath'
      PROVE  CloudIsLoaded'
  <2>1. input'[1] = k /\ shown' # <<>> /\ shown'[1] = Placed(k)
    BY <1>1
  <2> QED
    BY <1>1, <2>1 DEF CloudIsLoaded, Placed
<1>2. ASSUME UNCHANGED <<input, shown, loadedPath>>, folder' # <<>> => folder'[1].of = loadedPath'
      PROVE  CloudIsLoaded'
  BY <1>2 DEF CloudIsLoaded
<1>3. ASSUME Placing PROVE CloudIsLoaded'
  <2>1. CASE input = <<>>
    BY <1>3, <2>1 DEF Placing, CloudIsLoaded
  <2>2. CASE input # <<>>
    <3>1. shown' # <<>> /\ shown'[1] = Placed(input[1])
      BY <1>3, <2>2 DEF Placing
    <3> QED
      BY <1>3, <2>2, <3>1 DEF Placing, CloudIsLoaded, Placed
  <2> QED
    BY <2>1, <2>2
<1>4. ASSUME NEW cloud, NEW pending, Reloads(cloud, pending), UNCHANGED loadedPath,
             cloud.of = loadedPath, folder' # <<>> => folder'[1].of = loadedPath
      PROVE  CloudIsLoaded'
  BY <1>1, <1>2, <1>4 DEF Reloads
<1>5. CASE NoCaller
  <2>1. UNCHANGED <<loadedPath, folder>> /\ (folder # <<>> => folder[1].of = loadedPath)
    BY <1>5, NoCallerFacts DEF CloudIsLoaded
  <2> QED
    BY <1>2, <1>3, <1>4, <1>5, <2>1, NoCallerClouds
<1>6. ASSUME NEW c \in Callers, Begins(c) PROVE CloudIsLoaded'
  BY <1>6, BeginsFacts DEF CloudIsLoaded, deviceVars
<1>7. ASSUME NEW c \in Callers, Continues(c) PROVE CloudIsLoaded'
  <2>1. CASE LoadStep(c)
    <3> DEFINE path == caller[c][1].path
    <3>1. ASSUME Loaded(path) PROVE CloudIsLoaded'
      <4>1. loadedPath' = path /\ \A q \in {plyConfig, plyConfig'} : ReadAs(path, q).of = path
        BY <3>1 DEF Loaded, ReadAs
      <4>2. CASE ShowsClip(path)
        BY <1>1, <4>1, <4>2 DEF ShowsClip
      <4>3. CASE folder' = <<ReadAs(path, plyConfig)>>
        <5>1. folder'[1].of = path
          BY <4>1, <4>3
        <5> QED
          BY <1>1, <3>1, <4>1, <4>2, <4>3, <5>1 DEF Loaded, ShowsFrame, Opens, CloudIsLoaded
      <4> QED
        BY <3>1, <4>2, <4>3 DEF Loaded, ShowsFrame, Opens
    <3>2. ASSUME NEW asked, LoadFails(path, asked) PROVE CloudIsLoaded'
      BY <3>2 DEF LoadFails, CloudIsLoaded
    <3> QED
      BY <2>1, <3>1, <3>2 DEF LoadStep
  <2>2. CASE PlaceStepOf(c)
    BY <1>3, <2>2 DEF PlaceStepOf
  <2>3. CASE GoesOn(c)
    BY <2>3 DEF GoesOn, CloudIsLoaded, deviceVars
  <2>4. ASSUME NEW f \in {"units", "attributes"}, ReadStep(c, f) PROVE CloudIsLoaded'
    <3>1. folder # <<>> /\ folder' = <<Told(f)>> /\ UNCHANGED loadedPath
          /\ Reloads(Told(f), unapplied \ {f})
      BY <2>4 DEF ReadStep
    <3>2. folder'[1] = Told(f) /\ Told(f).of = loadedPath
      BY <3>1, ToldFacts DEF CloudIsLoaded
    <3> QED
      BY <1>4, <3>1, <3>2
  <2> QED
    BY <1>7, <2>1, <2>2, <2>3, <2>4, ContinuesSteps
<1> QED
  BY <1>5, <1>6, <1>7, FilesSteps

(* A single file is not kept open, and is never read without rows.           *)
LEMMA RowsStep ==
  ASSUME FilesTypeOK, ClipsHaveRows, FilesNext
  PROVE  ClipsHaveRows'
<1>1. ASSUME NEW cloud, NEW pending, Reloads(cloud, pending), cloud.of \in Folders,
             folder' # <<>> => folder'[1].of \in Folders
      PROVE  ClipsHaveRows'
  <2>1. cloud.of \notin Clips
    BY <1>1, PathsAssumption
  <2>2. CASE input' = <<cloud>>
    <3>1. input'[1] = cloud
      BY <2>2
    <3> QED
      BY <1>1, <2>1, <3>1 DEF ClipsHaveRows
  <2>3. CASE input' = input
    BY <1>1, <2>3 DEF ClipsHaveRows
  <2> QED
    BY <1>1, <2>2, <2>3 DEF Reloads
<1>2. CASE NoCaller
  <2>1. UNCHANGED folder /\ (folder # <<>> => folder[1].of \in Folders)
    BY <1>2, NoCallerFacts DEF ClipsHaveRows
  <2>2. CASE UNCHANGED input
    BY <2>1, <2>2 DEF ClipsHaveRows
  <2> QED
    BY <1>1, <1>2, <2>1, <2>2, NoCallerClouds DEF Placing
<1>3. ASSUME NEW c \in Callers, Begins(c) PROVE ClipsHaveRows'
  BY <1>3, BeginsFacts DEF ClipsHaveRows, deviceVars
<1>4. ASSUME NEW c \in Callers, Continues(c) PROVE ClipsHaveRows'
  <2>1. CASE LoadStep(c)
    <3> DEFINE path == caller[c][1].path
    <3>1. ASSUME Loaded(path) PROVE ClipsHaveRows'
      <4>1. path \in Paths /\ plyConfig' = Seeded(plyConfig, path)
        BY <3>1 DEF Loaded, Readable
      <4>2. plyConfig'.attributes[path] # "absent"
        BY <4>1, SeededFacts
      <4>3. CASE ShowsClip(path)
        <5>1. folder' = <<>> /\ input'[1] = ReadAs(path, plyConfig')
          BY <4>3 DEF ShowsClip
        <5> QED
          BY <4>2, <5>1 DEF ClipsHaveRows, ReadAs
      <4>4. CASE path \in Folders /\ folder' = <<ReadAs(path, plyConfig)>>
                 /\ (input' = folder' \/ input' = <<>>)
        <5>1. folder'[1].of = path /\ path \notin Clips
          BY <4>4, PathsAssumption DEF ReadAs
        <5> QED
          BY <4>4, <5>1 DEF ClipsHaveRows
      <4> QED
        BY <3>1, <4>3, <4>4 DEF Loaded, ShowsFrame, Opens
    <3>2. ASSUME NEW asked, LoadFails(path, asked) PROVE ClipsHaveRows'
      BY <3>2 DEF LoadFails, ClipsHaveRows
    <3> QED
      BY <2>1, <3>1, <3>2 DEF LoadStep
  <2>2. CASE PlaceStepOf(c)
    BY <2>2 DEF PlaceStepOf, Placing, ClipsHaveRows
  <2>3. CASE GoesOn(c)
    BY <2>3 DEF GoesOn, ClipsHaveRows, deviceVars
  <2>4. ASSUME NEW f \in {"units", "attributes"}, ReadStep(c, f) PROVE ClipsHaveRows'
    <3>1. folder # <<>> /\ folder' = <<Told(f)>> /\ Reloads(Told(f), unapplied \ {f})
      BY <2>4 DEF ReadStep
    <3>2. folder'[1] = Told(f) /\ Told(f).of \in Folders
      BY <3>1, ToldFacts DEF ClipsHaveRows
    <3> QED
      BY <1>1, <3>1, <3>2
  <2> QED
    BY <1>4, <2>1, <2>2, <2>3, <2>4, ContinuesSteps
<1> QED
  BY <1>2, <1>3, <1>4, FilesSteps

(* A caller that begins, by what it writes.                                  *)
LEMMA BeginsConfig ==
  ASSUME FilesTypeOK, NEW c \in Callers, Begins(c)
  PROVE  \/ \E f \in {"path", "units", "attributes", "place"} : \E v :
              /\ plyConfig' = [plyConfig EXCEPT ![f] = v] /\ plyConfig' \in PlyConfigs
              /\ caller'[c] = <<[does |-> "notify", field |-> f]>>
              /\ UNCHANGED <<groupPlace, inSession, unapplied>>
         \/ /\ plyConfig' \in PlyConfigs /\ UNCHANGED <<groupPlace, inSession>>
            /\ unapplied' = unapplied \cup
                 {f \in {"units", "attributes", "place"} : plyConfig'[f] # plyConfig[f]}
            /\ caller'[c] = IF inSession /\ plyConfig'.path \notin {None, loadedPath}
                            THEN LoadNext(plyConfig'.path, "config") ELSE <<>>
         \/ /\ UNCHANGED <<plyConfig, groupPlace, unapplied>> /\ inSession' \in BOOLEAN
            /\ caller'[c] = IF inSession' /\ plyConfig.path \notin {None, loadedPath}
                            THEN LoadNext(plyConfig.path, "session") ELSE <<>>
         \/ /\ UNCHANGED <<plyConfig, inSession, unapplied>> /\ groupPlace' = 1 - groupPlace
            /\ caller'[c] = <<[does |-> "notify", field |-> "place"]>>
<1>1. ASSUME NEW f \in {"path", "units", "attributes", "place"}, NEW v, SetField(c, f, v),
             [plyConfig EXCEPT ![f] = v] \in PlyConfigs
      PROVE  /\ plyConfig' = [plyConfig EXCEPT ![f] = v] /\ plyConfig' \in PlyConfigs
             /\ caller'[c] = <<[does |-> "notify", field |-> f]>>
             /\ UNCHANGED <<groupPlace, inSession, unapplied>>
  BY <1>1, CallerSet DEF SetField, Begin, historyVars
<1>2. \A p \in Paths : [plyConfig EXCEPT !["path"] = p] \in PlyConfigs
  BY DEF FilesTypeOK, PlyConfigs
<1>3. \A v \in {0, 1} : /\ [plyConfig EXCEPT !["units"] = v] \in PlyConfigs
                        /\ [plyConfig EXCEPT !["place"] = v] \in PlyConfigs
  BY DEF FilesTypeOK, PlyConfigs
<1>4. \A p \in Paths, r \in Rows :
        [plyConfig EXCEPT !["attributes"] = [plyConfig.attributes EXCEPT ![p] = r]] \in PlyConfigs
  <2> TAKE p \in Paths, r \in Rows
  <2> DEFINE rows == [plyConfig.attributes EXCEPT ![p] = r]
  <2>1. rows \in [Paths -> Rows]
    BY DEF FilesTypeOK, PlyConfigs
  <2> HIDE DEF rows
  <2> QED
    BY <2>1 DEF FilesTypeOK, PlyConfigs
<1>5. ASSUME NEW new \in Replacements, UpdateConfig(new), c = "ui"
      PROVE  /\ plyConfig' \in PlyConfigs /\ UNCHANGED <<groupPlace, inSession>>
             /\ unapplied' = unapplied \cup
                  {f \in {"units", "attributes", "place"} : plyConfig'[f] # plyConfig[f]}
             /\ caller'[c] = IF inSession /\ plyConfig'.path \notin {None, loadedPath}
                             THEN LoadNext(plyConfig'.path, "config") ELSE <<>>
  <2>1. \A rows \in {NoRows, plyConfig.attributes, [p \in Paths |-> "edited"]} : rows \in [Paths -> Rows]
    BY DEF NoRows, Rows, FilesTypeOK, PlyConfigs
  <2>2. new \in PlyConfigs
    BY <2>1 DEF Replacements, PlyConfigs
  <2>3. plyConfig' = new /\ UNCHANGED <<groupPlace, inSession>>
    BY <1>5 DEF UpdateConfig
  <2>4. unapplied' = unapplied \cup {f \in {"units", "attributes", "place"} : new[f] # plyConfig[f]}
    BY <1>5 DEF UpdateConfig
  <2>5. caller'[c] = IF inSession /\ new.path \notin {None, loadedPath}
                     THEN LoadNext(new.path, "config") ELSE <<>>
    BY <1>5, CallerSet DEF UpdateConfig, Begin
  <2> QED
    BY <2>2, <2>3, <2>4, <2>5
<1>6. ASSUME NEW in \in BOOLEAN, SessionChanges(in), c = "ui"
      PROVE  /\ UNCHANGED <<plyConfig, groupPlace, unapplied>> /\ inSession' \in BOOLEAN
             /\ caller'[c] = IF inSession' /\ plyConfig.path \notin {None, loadedPath}
                             THEN LoadNext(plyConfig.path, "session") ELSE <<>>
  BY <1>6, CallerSet DEF SessionChanges, Begin, historyVars
<1>7. ASSUME MoveGroup, c = "ui"
      PROVE  /\ UNCHANGED <<plyConfig, inSession, unapplied>> /\ groupPlace' = 1 - groupPlace
             /\ caller'[c] = <<[does |-> "notify", field |-> "place"]>>
  BY <1>7, CallerSet DEF MoveGroup, Begin, historyVars
<1>8. CASE \/ \E p \in Paths : SetField(c, "path", p)
           \/ \E f \in {"units", "place"}, v \in {0, 1} : SetField(c, f, v)
           \/ \E p \in Paths, r \in Rows : SetField(c, "attributes", [plyConfig.attributes EXCEPT ![p] = r])
  <2>1. PICK f \in {"path", "units", "attributes", "place"} : \E v :
          SetField(c, f, v) /\ [plyConfig EXCEPT ![f] = v] \in PlyConfigs
    BY <1>2, <1>3, <1>4, <1>8
  <2>2. PICK v : SetField(c, f, v) /\ [plyConfig EXCEPT ![f] = v] \in PlyConfigs
    BY <2>1
  <2> QED
    BY <1>1, <2>2
<1> QED
  BY <1>5, <1>6, <1>7, <1>8 DEF Begins

(* A placement not yet applied stays told: whoever has nothing to tell leaves *)
(* the placement alone, and whoever applies it shows the current one.        *)
LEMMA PlaceStep ==
  ASSUME FilesTypeOK, PlaceIsTold, FilesNext
  PROVE  PlaceIsTold'
<1>1. ASSUME NEW k, shown' = <<Placed(k)>>, plyConfig'.place = plyConfig.place, groupPlace' = groupPlace
      PROVE  PlaceIsTold'
  <2>1. shown'[1] = Placed(k)
    BY <1>1
  <2> QED
    BY <1>1, <2>1 DEF PlaceIsTold, Placed
<1>2. ASSUME UNCHANGED <<groupPlace, shown>>, plyConfig'.place = plyConfig.place,
             input' \in {input, <<>>}, "place" \in unapplied => "place" \in unapplied',
             \A d \in Callers : Notified(d, "place") => Notified(d, "place")'
      PROVE  PlaceIsTold'
  BY <1>2 DEF PlaceIsTold
<1>3. ASSUME Placing, UNCHANGED groupPlace PROVE PlaceIsTold'
  <2>1. CASE input = <<>>
    BY <1>3, <2>1 DEF Placing, PlaceIsTold
  <2> QED
    BY <1>1, <1>3, <2>1 DEF Placing
<1>4. CASE NoCaller
  <2>1. UNCHANGED <<plyConfig, groupPlace, caller>>
    BY <1>4, NoCallerFacts
  <2>2. \A d \in Callers : Notified(d, "place") => Notified(d, "place")'
    BY <2>1 DEF Notified
  <2>3. CASE folder # <<>> /\ Reloads(folder[1], unapplied)
    BY <1>1, <1>2, <2>1, <2>2, <2>3 DEF Reloads
  <2> QED
    BY <1>2, <1>3, <1>4, <2>1, <2>2, <2>3, NoCallerClouds
<1>5. ASSUME NEW c \in Callers, Begins(c) PROVE PlaceIsTold'
  <2>1. /\ caller[c] = <<>> /\ UNCHANGED <<input, shown>>
        /\ \A d \in Callers : d # c => caller'[d] = caller[d]
    BY <1>5, BeginsFacts DEF deviceVars
  <2>2. \A d \in Callers : Notified(d, "place") => Notified(d, "place")'
    BY <2>1 DEF Notified
  <2>3. CASE caller'[c] = <<[does |-> "notify", field |-> "place"]>>
    <3>1. Notified(c, "place")'
      BY <2>3 DEF Notified
    <3> QED
      BY <3>1 DEF PlaceIsTold
  <2>4. ASSUME NEW f \in {"path", "units", "attributes"}, NEW v, UNCHANGED <<groupPlace, unapplied>>,
               plyConfig' = [plyConfig EXCEPT ![f] = v]
        PROVE  PlaceIsTold'
    <3>1. plyConfig'.place = plyConfig.place
      BY <2>4 DEF FilesTypeOK, PlyConfigs
    <3> QED
      BY <1>2, <2>1, <2>2, <2>4, <3>1
  <2>5. CASE /\ UNCHANGED groupPlace
             /\ unapplied' = unapplied \cup
                  {f \in {"units", "attributes", "place"} : plyConfig'[f] # plyConfig[f]}
    <3>1. CASE plyConfig'["place"] # plyConfig["place"]
      <4>1. "place" \in unapplied'
        BY <2>5, <3>1
      <4> QED
        BY <4>1 DEF PlaceIsTold
    <3>2. CASE plyConfig'["place"] = plyConfig["place"]
      BY <1>2, <2>1, <2>2, <2>5, <3>2
    <3> QED
      BY <3>1, <3>2
  <2>6. CASE UNCHANGED <<plyConfig, groupPlace, unapplied>>
    BY <1>2, <2>1, <2>2, <2>6
  <2> QED
    BY <1>5, <2>3, <2>4, <2>5, <2>6, BeginsConfig
<1>6. ASSUME NEW c \in Callers, Continues(c) PROVE PlaceIsTold'
  <2>1. /\ UNCHANGED groupPlace
        /\ \A d \in Callers : d # c => caller'[d] = caller[d]
    BY <1>6, ContinuesSteps
  <2>2. ~Notified(c, "place") => \A d \in Callers : Notified(d, "place") => Notified(d, "place")'
    BY <2>1 DEF Notified
  <2>3. CASE LoadStep(c)
    <3> DEFINE path == caller[c][1].path
               asked == {caller[c][1].reason} \cap {"units", "attributes"}
    <3>1. ~Notified(c, "place")
      BY <2>3 DEF LoadStep, Loads, Notified
    <3>2. plyConfig'.place = plyConfig.place
      BY <2>3, LoadKeeps DEF LoadStep
    <3>3. CASE Loaded(path)
      <4>1. CASE input' = <<>>
        BY <4>1 DEF PlaceIsTold
      <4> QED
        BY <1>1, <2>1, <3>2, <3>3, <4>1 DEF Loaded, ShowsClip, ShowsFrame, Opens
    <3>4. CASE LoadFails(path, asked)
      <4>1. shown' = shown /\ input' \in {input, <<>>} /\ unapplied \subseteq unapplied'
        BY <3>4 DEF LoadFails
      <4> QED
        BY <1>2, <2>1, <2>2, <3>1, <3>2, <4>1
    <3> QED
      BY <2>3, <3>3, <3>4 DEF LoadStep
  <2>4. CASE PlaceStepOf(c)
    BY <1>3, <2>1, <2>4 DEF PlaceStepOf
  <2>5. CASE GoesOn(c)
    <3>1. ~Notified(c, "place") /\ plyConfig'.place = plyConfig.place
      BY <2>5 DEF GoesOn, Notified, RollsBack, FilesTypeOK, PlyConfigs
    <3> QED
      BY <1>2, <2>1, <2>2, <2>5, <3>1 DEF GoesOn, deviceVars, historyVars
  <2>6. ASSUME NEW f \in {"units", "attributes"}, ReadStep(c, f) PROVE PlaceIsTold'
    <3>1. ~Notified(c, "place") /\ plyConfig' = plyConfig
      BY <2>6 DEF ReadStep, Notified
    <3> QED
      BY <1>1, <1>2, <2>1, <2>2, <2>6, <3>1 DEF ReadStep, Reloads
  <2> QED
    BY <1>6, <2>3, <2>4, <2>5, <2>6, ContinuesSteps
<1> QED
  BY <1>4, <1>5, <1>6, FilesSteps

(* So does a reading not yet applied, whichever of its two fields changed.   *)
LEMMA FieldStep ==
  ASSUME FilesTypeOK, ClipsHaveRows, NEW f \in {"units", "attributes"}, FieldIsTold(f), FilesNext
  PROVE  FieldIsTold(f)'
<1>1. ASSUME NEW cloud, ReadsAs(cloud, f), cloud \in Clouds,
             plyConfig'.units = plyConfig.units,
             plyConfig'.attributes[cloud.of] = plyConfig.attributes[cloud.of]
      PROVE  ReadsAs(cloud, f)'
  BY <1>1 DEF ReadsAs
<1>2. ASSUME UNCHANGED <<plyConfig, folder>>, NEW pending, pending \subseteq unapplied,
             unapplied \ {"place"} \subseteq pending, folder # <<>>, Reloads(folder[1], pending),
             \A d \in Callers : Tells(d, f) => Tells(d, f)'
      PROVE  FieldIsTold(f)'
  <2>1. CASE input' = <<folder[1]>>
    <3>1. input'[1] = folder[1]
      BY <2>1
    <3> QED
      BY <1>2, <3>1 DEF FieldIsTold, Reloads, ReadsAs
  <2> QED
    BY <1>2, <2>1 DEF FieldIsTold, Reloads, ReadsAs
<1>3. ASSUME UNCHANGED <<plyConfig, input, folder, missed>>, f \in unapplied => f \in unapplied',
             \A d \in Callers : Tells(d, f) => \E e \in Callers : Tells(e, f)'
      PROVE  FieldIsTold(f)'
  BY <1>3 DEF FieldIsTold, ReadsAs
<1>4. Placing => UNCHANGED <<plyConfig, input, folder, missed>> /\ (f \in unapplied => f \in unapplied')
  BY DEF Placing
<1>5. CASE NoCaller
  <2>1. UNCHANGED <<plyConfig, folder, caller>>
    BY <1>5, NoCallerFacts
  <2>2. \A d \in Callers : Tells(d, f) => Tells(d, f)'
    BY <2>1 DEF Tells, Notified, Loads
  <2> QED
    BY <1>2, <1>3, <1>4, <1>5, <2>1, <2>2, NoCallerClouds
<1>6. ASSUME NEW c \in Callers, Begins(c) PROVE FieldIsTold(f)'
  <2>1. /\ caller[c] = <<>> /\ UNCHANGED <<input, folder, missed>>
        /\ \A d \in Callers : d # c => caller'[d] = caller[d]
    BY <1>6, BeginsFacts DEF deviceVars
  <2>2. \A d \in Callers : Tells(d, f) => Tells(d, f)'
    BY <2>1 DEF Tells, Notified, Loads
  <2>3. ASSUME plyConfig'[f] = plyConfig[f], f \in unapplied => f \in unapplied'
        PROVE  FieldIsTold(f)'
    BY <2>1, <2>2, <2>3 DEF FieldIsTold, ReadsAs
  <2>4. CASE caller'[c] = <<[does |-> "notify", field |-> f]>>
    <3>1. Tells(c, f)'
      BY <2>4 DEF Tells, Notified
    <3> QED
      BY <3>1 DEF FieldIsTold
  <2>5. ASSUME NEW g \in {"path", "units", "attributes", "place"} \ {f}, NEW v, UNCHANGED unapplied,
               plyConfig' = [plyConfig EXCEPT ![g] = v]
        PROVE  FieldIsTold(f)'
    <3>1. plyConfig'[f] = plyConfig[f]
      BY <2>5 DEF FilesTypeOK, PlyConfigs
    <3> QED
      BY <2>3, <2>5, <3>1
  <2>6. CASE unapplied' = unapplied \cup
               {g \in {"units", "attributes", "place"} : plyConfig'[g] # plyConfig[g]}
    <3>1. CASE plyConfig'[f] # plyConfig[f]
      <4>1. f \in unapplied'
        BY <2>6, <3>1
      <4> QED
        BY <4>1 DEF FieldIsTold
    <3> QED
      BY <2>3, <2>6, <3>1
  <2>7. CASE UNCHANGED <<plyConfig, unapplied>>
    BY <2>3, <2>7
  <2> QED
    BY <1>6, <2>4, <2>5, <2>6, <2>7, BeginsConfig
<1>7. ASSUME NEW c \in Callers, Continues(c) PROVE FieldIsTold(f)'
  <2>1. \A d \in Callers : d # c => caller'[d] = caller[d]
    BY <1>7, ContinuesSteps
  <2>2. ~Tells(c, f) => \A d \in Callers : Tells(d, f) => Tells(d, f)'
    BY <2>1 DEF Tells, Notified, Loads
  <2>3. CASE LoadStep(c)
    <3> DEFINE path == caller[c][1].path
               asked == {caller[c][1].reason} \cap {"units", "attributes"}
    <3>1. CASE Loaded(path)
      <4>1. plyConfig'.units = plyConfig.units
        BY <3>1, LoadKeeps
      <4>2. CASE ShowsClip(path)
        <5>1. folder' = <<>> /\ input'[1] = ReadAs(path, plyConfig')
          BY <4>2 DEF ShowsClip
        <5> QED
          BY <5>1 DEF FieldIsTold, ReadsAs, ReadAs
      <4>3. CASE ShowsFrame(path) \/ Opens(path)
        <5>1. PICK k : k = ReadAs(path, plyConfig)
          OBVIOUS
        <5>2. /\ folder'[1] = k /\ unapplied' = RowsMade
              /\ input' # <<>> => input'[1] = k
          BY <4>3, <5>1 DEF ShowsFrame, Opens
        <5>3. f \notin unapplied' => ReadsAs(k, f)'
          <6>1. f \notin unapplied' => f = "units" \/ plyConfig' = plyConfig
            BY <5>2 DEF RowsMade
          <6>2. ReadsAs(k, f)
            BY <5>1 DEF ReadsAs, ReadAs
          <6>3. CASE f = "units"
            BY <4>1, <6>2, <6>3 DEF ReadsAs
          <6>4. CASE f = "attributes" /\ plyConfig' = plyConfig
            BY <6>2, <6>4 DEF ReadsAs
          <6> QED
            BY <6>1, <6>3, <6>4
        <5>4. f \notin unapplied' =>
                /\ input' # <<>> => ReadsAs(input[1], f)'
                /\ ReadsAs(folder[1], f)'
          BY <5>2, <5>3
        <5> QED
          BY <5>4 DEF FieldIsTold
      <4> QED
        BY <3>1, <4>2, <4>3 DEF Loaded
    <3>2. CASE LoadFails(path, asked)
      <4>1. folder' = <<>> /\ missed' = missed
        BY <3>2 DEF LoadFails
      <4>2. CASE input' = <<>> \/ f \in unapplied'
        BY <4>1, <4>2 DEF FieldIsTold
      <4>3. CASE input' = input /\ input # <<>> /\ unapplied' = unapplied \cup asked /\ f \notin unapplied'
        <5>1. ~Tells(c, f)
          BY <2>3, <4>3 DEF LoadStep, Tells, Notified, Loads
        <5>2. PICK k \in Clouds : input = <<k>>
          BY <4>3 DEF FilesTypeOK
        <5>3. input[1] = k /\ input'[1] = k /\ k.of \in Paths
          BY <4>3, <5>2 DEF Clouds
        <5>4. ASSUME \A d \in Callers : ~Tells(d, f)', ~missed'
              PROVE  ReadsAs(k, f)'
          <6>1. ReadsAs(k, f)
            BY <2>2, <4>1, <4>3, <5>1, <5>3, <5>4 DEF FieldIsTold
          <6>2. plyConfig'.units = plyConfig.units
            BY <3>2, LoadKeeps
          <6>3. CASE f = "units"
            BY <6>1, <6>2, <6>3 DEF ReadsAs
          <6>4. CASE f = "attributes"
            <7>1. k.attributes = plyConfig.attributes[k.of]
              BY <6>1, <6>4 DEF ReadsAs
            <7>2. CASE plyConfig' = plyConfig
              BY <6>4, <7>1, <7>2 DEF ReadsAs
            <7>3. CASE path \in Clips
              <8>1. k.of # path \/ plyConfig.attributes[k.of] # "absent"
                BY <5>3, <4>3, <7>1, <7>3 DEF ClipsHaveRows
              <8>2. plyConfig'.attributes[k.of] = plyConfig.attributes[k.of]
                BY <3>2, <5>3, <8>1, LoadKeeps
              <8> QED
                BY <6>4, <7>1, <8>2 DEF ReadsAs
            <7> QED
              BY <3>2, <7>2, <7>3 DEF LoadFails
          <6> QED
            BY <6>3, <6>4
        <5>5. (\A d \in Callers : ~Tells(d, f)') /\ ~missed' => ReadsAs(input[1], f)'
          BY <5>3, <5>4 DEF ReadsAs
        <5> QED
          BY <4>1, <5>5 DEF FieldIsTold
      <4> QED
        BY <3>2, <4>2, <4>3 DEF LoadFails
    <3> QED
      BY <2>3, <3>1, <3>2 DEF LoadStep
  <2>4. CASE PlaceStepOf(c)
    <3>1. ~Tells(c, f)
      BY <2>4 DEF PlaceStepOf, Tells, Notified, Loads
    <3> QED
      BY <1>3, <1>4, <2>2, <2>4, <3>1 DEF PlaceStepOf
  <2>5. CASE GoesOn(c)
    <3>1. UNCHANGED <<input, folder, missed, unapplied>>
      BY <2>5 DEF GoesOn, deviceVars, historyVars
    <3>2. CASE caller'[c] = LoadNext(plyConfig.path, f)
      <4>1. Tells(c, f)'
        BY <3>2 DEF LoadNext, Tells, Loads
      <4> QED
        BY <4>1 DEF FieldIsTold
    <3>3. CASE \/ Notified(c, "path") /\ plyConfig' = plyConfig
               \/ \E g \in {"units", "attributes"} \ {f} : Notified(c, g) /\ plyConfig' = plyConfig
      <4>1. ~Tells(c, f) /\ plyConfig' = plyConfig
        BY <3>3 DEF Tells, Notified, Loads
      <4> QED
        BY <1>3, <2>2, <3>1, <4>1
    <3>4. CASE RollsBack(c) /\ plyConfig' = [plyConfig EXCEPT !.path = loadedPath]
      <4>1. ~Tells(c, f) /\ plyConfig'.units = plyConfig.units /\ plyConfig'.attributes = plyConfig.attributes
        BY <3>4 DEF Tells, Notified, Loads, RollsBack, FilesTypeOK, PlyConfigs
      <4> QED
        BY <2>2, <3>1, <4>1 DEF FieldIsTold, ReadsAs
    <3> QED
      BY <2>5, <3>2, <3>3, <3>4 DEF GoesOn
  <2>6. ASSUME NEW g \in {"units", "attributes"}, ReadStep(c, g) PROVE FieldIsTold(f)'
    <3>1. /\ Notified(c, g) /\ folder # <<>> /\ folder' = <<Told(g)>> /\ plyConfig' = plyConfig
          /\ Reloads(Told(g), unapplied \ {g})
      BY <2>6 DEF ReadStep
    <3>2. folder'[1] = Told(g) /\ (input' = <<Told(g)>> => input'[1] = Told(g))
      BY <3>1
    <3>3. CASE ReadsAs(Told(g), f)
      BY <3>1, <3>2, <3>3 DEF FieldIsTold, Reloads, ReadsAs
    <3>4. CASE ~ReadsAs(Told(g), f)
      <4>1. g # f /\ ~ReadsAs(folder[1], f)
        BY <3>1, <3>4, ToldFacts
      <4>2. ~Tells(c, f)
        BY <3>1, <4>1 DEF Tells, Notified, Loads
      <4>3. f \in unapplied => f \in unapplied'
        BY <3>1, <4>1 DEF Reloads
      <4> QED
        BY <2>2, <3>1, <4>1, <4>2, <4>3 DEF FieldIsTold
    <3> QED
      BY <3>3, <3>4
  <2> QED
    BY <1>7, <2>3, <2>4, <2>5, <2>6, ContinuesSteps
<1> QED
  BY <1>5, <1>6, <1>7, FilesSteps

(* A path not yet loaded stays told, while never two callers were at once.   *)
LEMMA PathStep ==
  ASSUME FilesTypeOK, PathIsTold, FilesNext
  PROVE  PathIsTold'
<1>1. CASE NoCaller
  BY <1>1, NoCallerFacts DEF PathIsTold, Notified, Loads, RollsBack
<1>2. ASSUME NEW c \in Callers, Begins(c), ~concurrent' PROVE PathIsTold'
  <2>1. /\ caller[c] = <<>> /\ UNCHANGED <<loadedPath, unreadable>>
        /\ \A d \in Callers : d # c => caller'[d] = caller[d]
        /\ concurrent' = (concurrent \/ \E d \in Callers \ {c} : caller[d] # <<>>)
    BY <1>2, BeginsFacts DEF deviceVars
  <2>2. ~concurrent /\ \A d \in Callers : caller[d] = <<>>
    BY <1>2, <2>1
  <2>3. \A d \in Callers : caller'[d] # <<>> => d = c
    BY <2>1, <2>2
  <2>4. inSession => plyConfig.path \in {None, loadedPath} \cup unreadable
    BY <2>2 DEF PathIsTold, Notified, Loads, RollsBack
  <2>5. ASSUME Loads(c)' => caller'[c][1].path = plyConfig'.path,
               inSession' => \/ plyConfig'.path \in {None, loadedPath} \cup unreadable
                             \/ Notified(c, "path")' \/ Loads(c)'
        PROVE  PathIsTold'
    BY <2>1, <2>3, <2>5 DEF PathIsTold, Loads
  <2>6. ASSUME NEW f \in {"path", "units", "attributes", "place"}, NEW v, UNCHANGED inSession,
               plyConfig' = [plyConfig EXCEPT ![f] = v],
               caller'[c] = <<[does |-> "notify", field |-> f]>>
        PROVE  PathIsTold'
    <3>1. ~Loads(c)' /\ Notified(c, f)'
      BY <2>6 DEF Loads, Notified
    <3>2. f # "path" => plyConfig'.path = plyConfig.path
      BY <2>6 DEF FilesTypeOK, PlyConfigs
    <3> QED
      BY <2>4, <2>5, <2>6, <3>1, <3>2
  <2>7. ASSUME NEW r, caller'[c] = IF inSession' /\ plyConfig'.path \notin {None, loadedPath}
                                   THEN LoadNext(plyConfig'.path, r) ELSE <<>>
        PROVE  PathIsTold'
    BY <2>5, <2>7 DEF Loads, LoadNext
  <2>8. ASSUME caller'[c] = <<[does |-> "notify", field |-> "place"]>>, UNCHANGED <<plyConfig, inSession>>
        PROVE  PathIsTold'
    <3>1. ~Loads(c)'
      BY <2>8 DEF Loads
    <3> QED
      BY <2>4, <2>5, <2>8, <3>1
  <2> QED
    <3>1. CASE /\ UNCHANGED inSession
               /\ caller'[c] = IF inSession /\ plyConfig'.path \notin {None, loadedPath}
                               THEN LoadNext(plyConfig'.path, "config") ELSE <<>>
      BY <2>7, <3>1
    <3>2. CASE /\ UNCHANGED plyConfig
               /\ caller'[c] = IF inSession' /\ plyConfig.path \notin {None, loadedPath}
                               THEN LoadNext(plyConfig.path, "session") ELSE <<>>
      BY <2>7, <3>2
    <3> QED
      BY <1>2, <2>6, <2>8, <3>1, <3>2, BeginsConfig
<1>3. ASSUME NEW c \in Callers, Continues(c), ~concurrent' PROVE PathIsTold'
  <2>1. /\ caller[c] # <<>> /\ ~concurrent /\ inSession' = inSession
        /\ \A d \in Callers : d # c => caller'[d] = caller[d]
    BY <1>3, ContinuesSteps
  <2>2. /\ \A d \in Callers : d # c => caller[d] = <<>>
        /\ Loads(c) => caller[c][1].path = plyConfig.path
        /\ inSession => \/ plyConfig.path \in {None, loadedPath} \cup unreadable
                        \/ Notified(c, "path") \/ Loads(c) \/ RollsBack(c)
    BY <2>1 DEF PathIsTold, Notified, Loads, RollsBack
  <2>3. \A d \in Callers : caller'[d] # <<>> => d = c
    BY <2>1, <2>2
  <2>4. ASSUME Loads(c)' => caller'[c][1].path = plyConfig'.path,
               inSession => \/ plyConfig'.path \in {None, loadedPath'} \cup unreadable'
                            \/ Loads(c)'
        PROVE  PathIsTold'
    BY <2>1, <2>3, <2>4 DEF PathIsTold, Loads
  <2>5. ASSUME NEW f, plyConfig' = plyConfig, caller'[c] = LoadNext(plyConfig.path, f) PROVE PathIsTold'
    BY <2>4, <2>5 DEF Loads, LoadNext
  <2>6. CASE GoesOn(c)
    <3>1. loadedPath' = loadedPath
      BY <2>6 DEF GoesOn, deviceVars
    <3>2. CASE plyConfig' = plyConfig /\ plyConfig.path = loadedPath /\ caller'[c] = <<>>
      BY <2>4, <3>1, <3>2 DEF Loads
    <3>3. CASE plyConfig' = [plyConfig EXCEPT !.path = loadedPath] /\ caller'[c] = <<>>
      <4>1. plyConfig'.path = loadedPath
        BY <3>3 DEF FilesTypeOK, PlyConfigs
      <4> QED
        BY <2>4, <3>1, <3>3, <4>1 DEF Loads
    <3> QED
      BY <2>5, <2>6, <3>2, <3>3 DEF GoesOn
  <2>7. CASE /\ \/ Notified(c, "place") \/ \E f \in {"units", "attributes"} : Notified(c, f)
             /\ caller'[c] = <<>> /\ UNCHANGED <<plyConfig, loadedPath, unreadable>>
    <3>1. ~Notified(c, "path") /\ ~Loads(c) /\ ~RollsBack(c) /\ ~Loads(c)'
      BY <2>7 DEF Notified, Loads, RollsBack
    <3> QED
      BY <2>2, <2>4, <2>7, <3>1
  <2>8. CASE LoadStep(c)
    <3> DEFINE path == caller[c][1].path
               asked == {caller[c][1].reason} \cap {"units", "attributes"}
    <3>1. Loads(c) /\ ~Loads(c)' /\ (Loaded(path) \/ LoadFails(path, asked))
      BY <2>8 DEF LoadStep, Loads
    <3>2. plyConfig'.path = plyConfig.path
      BY <3>1, LoadKeeps
    <3>3. path \in {None, loadedPath'} \cup unreadable'
      BY <3>1 DEF Loaded, LoadFails
    <3> QED
      BY <2>2, <2>4, <3>1, <3>2, <3>3
  <2> QED
    BY <1>3, <2>6, <2>7, <2>8, ContinuesSteps DEF PlaceStepOf, Placing, ReadStep
<1>4. concurrent' => PathIsTold'
  BY DEF PathIsTold
<1> QED
  BY <1>1, <1>2, <1>3, <1>4, FilesSteps

(* Type correctness.                                                         *)
LEMMA FilesTypes ==
  ASSUME FilesTypeOK, FilesNext
  PROVE  FilesTypeOK'
<1> DEFINE Doing == {<<>>} \cup {<<j>> : j \in FileJobs}
           Typed(x) == x = <<>> \/ \E k \in Clouds : x = <<k>>
<1>1. ASSUME NEW c \in Callers, caller'[c] \in Doing,
             \A d \in Callers : d # c => caller'[d] = caller[d],
             \E x : caller' = [caller EXCEPT ![c] = x]
      PROVE  caller' \in [Callers -> Doing]
  <2>1. caller \in [Callers -> Doing] /\ DOMAIN caller' = Callers
    BY <1>1 DEF FilesTypeOK
  <2>2. PICK x : caller' = [caller EXCEPT ![c] = x]
    BY <1>1
  <2>3. caller'[c] = x
    BY <2>1, <2>2
  <2> QED
    BY <1>1, <2>1, <2>2, <2>3
<1>2. /\ \A f \in {"path", "units", "attributes", "place"} : <<[does |-> "notify", field |-> f]>> \in Doing
      /\ <<[does |-> "rollback"]>> \in Doing /\ <<>> \in Doing
  BY DEF FileJobs
<1>3. \A p \in {None} \cup Paths, r \in {"path", "units", "attributes", "config", "session"} :
        LoadNext(p, r) \in Doing
  BY DEF FileJobs, LoadNext
<1>4. plyConfig \in PlyConfigs /\ plyConfig.path \in {None} \cup Paths
  BY DEF FilesTypeOK, PlyConfigs
<1>5. ASSUME NEW cloud \in Clouds, NEW pending, Reloads(cloud, pending)
      PROVE  Typed(input') /\ missed' \in BOOLEAN
  BY <1>5 DEF Reloads, FilesTypeOK
<1>6. Placing => UNCHANGED <<plyConfig, input, folder, loadedPath, missed>>
  BY DEF Placing
<1>7. folder # <<>> => folder[1] \in Clouds
  BY DEF FilesTypeOK
<1> HIDE DEF Doing
<1>8. CASE NoCaller
  <2>1. UNCHANGED <<plyConfig, groupPlace, caller, loadedPath, folder, inSession, concurrent>>
    BY <1>8, NoCallerFacts
  <2>2. Typed(input') /\ missed' \in BOOLEAN
    BY <1>5, <1>6, <1>7, <1>8, NoCallerClouds DEF FilesTypeOK
  <2> QED
    BY <2>1, <2>2 DEF FilesTypeOK
<1>9. ASSUME NEW c \in Callers, Begins(c) PROVE FilesTypeOK'
  <2>1. /\ UNCHANGED <<deviceVars, missed>> /\ concurrent' \in BOOLEAN
        /\ \A d \in Callers : d # c => caller'[d] = caller[d]
    BY <1>9, BeginsFacts DEF FilesTypeOK
  <2>2. \E x : caller' = [caller EXCEPT ![c] = x]
    BY <1>9 DEF Begins, SetField, UpdateConfig, SessionChanges, MoveGroup, Begin
  <2>3. plyConfig' \in PlyConfigs /\ inSession' \in BOOLEAN
    BY <1>4, <1>9, BeginsConfig DEF FilesTypeOK
  <2>4. caller'[c] \in Doing
    <3>1. plyConfig'.path \in {None} \cup Paths
      BY <2>3 DEF PlyConfigs
    <3> QED
      BY <1>2, <1>3, <1>4, <1>9, <3>1, BeginsConfig
  <2>5. groupPlace' \in {0, 1}
    <3>1. groupPlace' = groupPlace \/ groupPlace' = 1 - groupPlace
      BY <1>9, BeginsConfig
    <3>2. groupPlace = 0 \/ groupPlace = 1
      BY DEF FilesTypeOK
    <3> QED
      BY <3>1, <3>2
  <2>6. caller' \in [Callers -> Doing]
    BY <1>1, <2>1, <2>2, <2>4
  <2> QED
    BY <2>1, <2>3, <2>5, <2>6 DEF FilesTypeOK, deviceVars, Doing
<1>10. ASSUME NEW c \in Callers, Continues(c) PROVE FilesTypeOK'
  <2>1. /\ UNCHANGED <<groupPlace, inSession, concurrent>>
        /\ \A d \in Callers : d # c => caller'[d] = caller[d]
    BY <1>10, ContinuesSteps
  <2>2. \E x : caller' = [caller EXCEPT ![c] = x]
    BY <1>10 DEF Continues, PathNotified, ReadingNotified, PlaceNotified,
       LoadChosen, Rollback, Finished, Continue
  <2> DEFINE Clear == /\ plyConfig' \in PlyConfigs /\ loadedPath' \in {None} \cup Paths
                      /\ Typed(folder') /\ Typed(input') /\ missed' \in BOOLEAN
                      /\ caller'[c] \in Doing
  <2>3. ASSUME LoadStep(c) PROVE Clear
    <3> DEFINE path == caller[c][1].path
               asked == {caller[c][1].reason} \cap {"units", "attributes"}
    <3>1. Loaded(path) \/ LoadFails(path, asked)
      BY <2>3 DEF LoadStep
    <3>2. plyConfig' \in PlyConfigs /\ caller'[c] \in Doing
      BY <1>2, <2>3, <3>1, LoadKeeps DEF LoadStep
    <3>3. ASSUME path \in Paths PROVE ReadAs(path, plyConfig) \in Clouds /\ ReadAs(path, plyConfig') \in Clouds
      <4>1. \A g \in PlyConfigs : ReadAs(path, g) \in Clouds
        BY <3>3 DEF ReadAs, PlyConfigs, Clouds
      <4> QED
        BY <1>4, <3>2, <4>1
    <3>4. CASE Loaded(path)
      <4>1. path \in Paths /\ loadedPath' = path /\ missed' = FALSE
        BY <3>4 DEF Loaded, Readable
      <4>2. Typed(folder') /\ Typed(input')
        BY <3>3, <3>4, <4>1 DEF Loaded, ShowsClip, ShowsFrame, Opens
      <4> QED
        BY <3>2, <4>1, <4>2
    <3>5. CASE LoadFails(path, asked)
      <4>1. /\ loadedPath' = loadedPath /\ missed' = missed /\ folder' = <<>>
            /\ input' = <<>> \/ input' = input
        BY <3>5 DEF LoadFails
      <4> QED
        BY <3>2, <4>1 DEF FilesTypeOK
    <3> QED
      BY <3>1, <3>4, <3>5
  <2>4. ASSUME PlaceStepOf(c) PROVE Clear
    BY <1>2, <2>4 DEF PlaceStepOf, Placing, FilesTypeOK
  <2>5. ASSUME GoesOn(c) PROVE Clear
    <3>1. plyConfig' \in PlyConfigs
      BY <2>5 DEF GoesOn, FilesTypeOK, PlyConfigs
    <3>2. caller'[c] \in Doing
      BY <1>2, <1>3, <1>4, <2>5 DEF GoesOn
    <3> QED
      BY <2>5, <3>1, <3>2 DEF GoesOn, deviceVars, historyVars, FilesTypeOK
  <2>6. ASSUME NEW f \in {"units", "attributes"}, ReadStep(c, f) PROVE Clear
    <3>1. /\ UNCHANGED <<plyConfig, loadedPath>> /\ caller'[c] = <<>>
          /\ folder' = <<Told(f)>> /\ Reloads(Told(f), unapplied \ {f}) /\ Told(f) \in Clouds
      BY <2>6, ToldFacts DEF ReadStep
    <3> QED
      BY <1>2, <1>4, <1>5, <3>1 DEF FilesTypeOK
  <2>7. Clear
    BY <1>10, <2>3, <2>4, <2>5, <2>6, ContinuesSteps
  <2>8. caller' \in [Callers -> Doing]
    BY <1>1, <2>1, <2>2, <2>7
  <2> QED
    BY <2>1, <2>7, <2>8 DEF FilesTypeOK, Doing
<1> QED
  BY <1>8, <1>9, <1>10, FilesSteps

-----------------------------------------------------------------------------
(* The files invariant holds in every behaviour of the device.               *)
LEMMA FilesInvariant == FilesSpec => []FilesInv
<1>1. FilesInit => FilesInv
  <2> SUFFICES ASSUME FilesInit PROVE FilesInv
    OBVIOUS
  <2>1. /\ input = <<>> /\ folder = <<>> /\ inSession = FALSE /\ concurrent = FALSE
        /\ \A c \in Callers : caller[c] = <<>>
    BY DEF FilesInit
  <2>2. FilesTypeOK
    <3>1. <<>> \in {<<>>} \cup {<<j>> : j \in FileJobs}
      OBVIOUS
    <3>2. caller \in [Callers -> {<<>>} \cup {<<j>> : j \in FileJobs}]
      BY <3>1, Zenon DEF FilesInit
    <3>3. NoRows \in [Paths -> Rows]
      BY DEF NoRows, Rows
    <3>4. plyConfig \in PlyConfigs
      BY <3>3 DEF FilesInit, PlyConfigs
    <3> QED
      BY <2>1, <3>2, <3>4 DEF FilesInit, FilesTypeOK
  <2> QED
    BY <2>1, <2>2 DEF FilesInv, CloudIsLoaded, ClipsHaveRows, PlaceIsTold, ReadingIsTold,
       FieldIsTold, PathIsTold, Loads
<1>2. FilesInv /\ [FilesNext]_filesVars => FilesInv'
  <2>1. FilesInv /\ FilesNext => FilesInv'
    BY FilesTypes, CloudStep, RowsStep, PlaceStep, FieldStep, PathStep DEF FilesInv, ReadingIsTold
  <2>2. FilesInv /\ UNCHANGED filesVars => FilesInv'
    BY DEF FilesInv, FilesTypeOK, CloudIsLoaded, ClipsHaveRows, PlaceIsTold, ReadingIsTold,
       FieldIsTold, Tells, ReadsAs, PathIsTold, Loads, Notified, RollsBack, filesVars, deviceVars,
       historyVars
  <2> QED
    BY <2>1, <2>2
<1> QED
  BY <1>1, <1>2, PTL DEF FilesSpec

(* What a device shows is what its configuration names, an open sequence as  *)
(* much as a single file: whatever the user interface, the OSC receiver, the *)
(* synchronisation, the tick and the disk do, for every set of files and     *)
(* with no bound on the edits, but for the fields the property excepts.      *)
THEOREM ConfiguredShown == FilesSpec => []ShownIsConfigured
<1>1. FilesInv => ShownIsConfigured
  <2> SUFFICES ASSUME FilesInv PROVE ShownIsConfigured
    OBVIOUS
  <2>1. /\ input # <<>> => input[1].of = loadedPath
        /\ folder # <<>> => folder[1].of = loadedPath
    BY DEF FilesInv, CloudIsLoaded
  <2>2. ASSUME \A c \in Callers : caller[c] = <<>>
        PROVE  \A c \in Callers : /\ ~Loads(c) /\ ~RollsBack(c)
                                  /\ \A f \in {"path", "units", "attributes", "place"} :
                                       ~Notified(c, f) /\ ~Tells(c, f)
    BY <2>2 DEF Loads, RollsBack, Notified, Tells
  <2>3. ASSUME \A c \in Callers : caller[c] = <<>>, ~concurrent, inSession
        PROVE  plyConfig.path \in {None, loadedPath} \cup unreadable
    BY <2>2, <2>3 DEF FilesInv, PathIsTold
  <2>4. ASSUME \A c \in Callers : caller[c] = <<>>, input # <<>>
        PROVE  /\ shown[1].of = loadedPath
               /\ "place" \notin unapplied =>
                    shown[1].place = plyConfig.place /\ shown[1].group = groupPlace
               /\ ~missed /\ "units" \notin unapplied => shown[1].units = plyConfig.units
               /\ ~missed /\ "attributes" \notin unapplied =>
                    shown[1].attributes = plyConfig.attributes[loadedPath]
    <3>1. /\ input[1].of = loadedPath /\ shown[1].of = loadedPath
          /\ shown[1].units = input[1].units /\ shown[1].attributes = input[1].attributes
      BY <2>4 DEF FilesInv, CloudIsLoaded
    <3>2. \A f \in {"units", "attributes"} : ~missed /\ f \notin unapplied => ReadsAs(input[1], f)
      BY <2>2, <2>4 DEF FilesInv, ReadingIsTold, FieldIsTold
    <3>3. /\ ~missed /\ "units" \notin unapplied => input[1].units = plyConfig.units
          /\ ~missed /\ "attributes" \notin unapplied =>
               input[1].attributes = plyConfig.attributes[input[1].of]
      BY <3>2 DEF ReadsAs
    <3>4. "place" \notin unapplied => shown[1].place = plyConfig.place /\ shown[1].group = groupPlace
      BY <2>2, <2>4 DEF FilesInv, PlaceIsTold
    <3> QED
      BY <3>1, <3>3, <3>4
  <2> QED
    BY <2>1, <2>3, <2>4 DEF ShownIsConfigured
<1> QED
  BY <1>1, FilesInvariant, PTL

-----------------------------------------------------------------------------
(* Alignment: what is applied to the device that was frozen puts it on the *)
(* other one, for any placements and picks and every bound.                *)

(* What can be told in centimetres without rounding.                        *)
Tens == {n \in Int : n % 10 = 0}
Result == [move : Int, of : Nat, off : Nat]
Task == [guess : Int, source : Tens, of : Nat]

AlignmentTypeOK ==
  /\ placed \in Tens /\ snapshot \in Tens /\ snapshots \in Nat
  /\ result = <<>> \/ \E r \in Result : result = <<r>>
  /\ refinement = <<>> \/ \E t \in Task : refinement = <<t>>

(* No result and no refinement is of a snapshot to come, and those of the   *)
(* last one were computed from where it froze the device.                   *)
ResultInv ==
  result # <<>> =>
    /\ result[1].of <= snapshots
    /\ result[1].of = snapshots => result[1].move * 10 = result[1].off - snapshot
RefinementInv ==
  refinement # <<>> =>
    /\ refinement[1].of <= snapshots
    /\ refinement[1].of = snapshots => refinement[1].source = snapshot
UntouchedInv == untouched => placed = snapshot

AlignmentInv == AlignmentTypeOK /\ ResultInv /\ RefinementInv /\ UntouchedInv /\ AppliedAligns

-----------------------------------------------------------------------------
(* Picks give a result of the snapshot, off by as much as they are.          *)
LEMMA ComputeStep ==
  ASSUME AlignmentInv, NEW error \in PickErrors, ComputeFromPairs(error)
  PROVE  AlignmentInv'
<1> DEFINE r == [move |-> (error - snapshot) \div 10, of |-> snapshots, off |-> error]
<1>1. result' = <<r>>
      /\ UNCHANGED <<placed, snapshots, snapshot, refinement, untouched, applied>>
  BY DEF ComputeFromPairs
<1>2. error \in Nat /\ error % 10 = 0 /\ snapshot \in Int /\ snapshot % 10 = 0
  BY AlignmentAssumption DEF AlignmentInv, AlignmentTypeOK, Tens
<1>3. ((error - snapshot) \div 10) * 10 = error - snapshot
  BY <1>2
<1>4. r \in Result /\ r.of = snapshots /\ r.move * 10 = r.off - snapshot
  BY <1>2, <1>3 DEF AlignmentInv, AlignmentTypeOK, Result
<1> HIDE DEF r
<1>5. result'[1] = r /\ result' # <<>>
  BY <1>1
<1>6. AlignmentTypeOK'
  BY <1>1, <1>4 DEF AlignmentInv, AlignmentTypeOK
<1>7. ResultInv'
  BY <1>1, <1>4, <1>5 DEF AlignmentInv, AlignmentTypeOK, ResultInv
<1>8. RefinementInv' /\ UntouchedInv' /\ AppliedAligns'
  BY <1>1 DEF AlignmentInv, RefinementInv, UntouchedInv, AppliedAligns
<1>9. QED
  BY <1>6, <1>7, <1>8 DEF AlignmentInv

(* A refinement that ends takes the place of the result, whichever snapshot  *)
(* it is of.                                                                 *)
LEMMA RefinedStep ==
  ASSUME AlignmentInv, RefinementFinished
  PROVE  AlignmentInv'
<1>1. /\ refinement # <<>> /\ refinement' = <<>>
      /\ UNCHANGED <<placed, snapshots, snapshot, untouched, applied>>
  BY DEF RefinementFinished
<1>2. PICK t \in Task : refinement = <<t>>
  BY <1>1 DEF AlignmentInv, AlignmentTypeOK
<1>3. t.source \in Int /\ t.source % 10 = 0 /\ t.of \in Nat
  BY DEF Task, Tens
<1>4. RefinementInv' /\ UntouchedInv' /\ AppliedAligns'
  BY <1>1 DEF AlignmentInv, RefinementInv, UntouchedInv, AppliedAligns
<1>5. CASE UNCHANGED result
  BY <1>1, <1>4, <1>5 DEF AlignmentInv, AlignmentTypeOK, ResultInv
<1>6. CASE ~UNCHANGED result
  <2> DEFINE r == [move |-> (- t.source) \div 10, of |-> t.of, off |-> 0]
  <2>1. result' = <<r>>
    BY <1>2, <1>6 DEF RefinementFinished, InSceneUnits, RefineAlignment
  <2>2. ((- t.source) \div 10) * 10 = - t.source
    BY <1>3
  <2>3. r \in Result /\ r.of = t.of /\ r.move * 10 = - t.source /\ r.off = 0
    BY <1>3, <2>2 DEF Result
  <2> HIDE DEF r
  <2>4. result'[1] = r /\ result' # <<>>
    BY <2>1
  <2>5. r.of <= snapshots /\ (r.of = snapshots => t.source = snapshot)
    BY <1>1, <1>2, <2>3 DEF AlignmentInv, RefinementInv
  <2>6. r.of = snapshots => r.move * 10 = r.off - snapshot
    BY <1>3, <2>3, <2>5
  <2>7. AlignmentTypeOK'
    BY <1>1, <2>1, <2>3 DEF AlignmentInv, AlignmentTypeOK
  <2>8. ResultInv'
    BY <1>1, <2>4, <2>5, <2>6 DEF ResultInv
  <2>9. QED
    BY <1>4, <2>7, <2>8 DEF AlignmentInv
<1>7. QED
  BY <1>5, <1>6

(* A result puts the device that is where it was frozen on the other one.    *)
LEMMA ApplyStep ==
  ASSUME AlignmentInv, ApplyResult
  PROVE  AlignmentInv'
<1>1. /\ result # <<>> /\ placed' = placed + result[1].move * 10
      /\ applied' = IF untouched /\ result[1].of = snapshots THEN result ELSE <<>>
      /\ untouched' = FALSE
      /\ UNCHANGED <<snapshots, snapshot, result, refinement>>
  BY DEF ApplyResult
<1>2. PICK r \in Result : result = <<r>>
  BY <1>1 DEF AlignmentInv, AlignmentTypeOK
<1>3. r.move \in Int /\ r.off \in Nat /\ placed \in Int /\ placed % 10 = 0 /\ snapshot \in Int
  BY DEF Result, AlignmentInv, AlignmentTypeOK, Tens
<1>4. placed' = placed + r.move * 10
  BY <1>1, <1>2
<1>5. placed' \in Int /\ placed' % 10 = 0
  BY <1>3, <1>4
<1>6. AlignmentTypeOK'
  BY <1>1, <1>5 DEF AlignmentInv, AlignmentTypeOK, Tens
<1>7. ResultInv' /\ RefinementInv' /\ UntouchedInv'
  BY <1>1 DEF AlignmentInv, ResultInv, RefinementInv, UntouchedInv
<1>8. AppliedAligns'
  <2>1. SUFFICES ASSUME applied' # <<>> PROVE Size(placed') <= applied'[1].off
    BY DEF AppliedAligns, Size
  <2>2. untouched /\ r.of = snapshots /\ applied' = <<r>>
    BY <1>1, <1>2, <2>1
  <2>3. placed = snapshot
    BY <2>2 DEF AlignmentInv, UntouchedInv
  <2>4. r.move * 10 = r.off - snapshot
    BY <1>1, <1>2, <2>2 DEF AlignmentInv, ResultInv
  <2>5. placed' = r.off
    BY <1>3, <1>4, <2>3, <2>4
  <2>6. QED
    BY <1>3, <2>2, <2>5 DEF Size
<1>9. QED
  BY <1>6, <1>7, <1>8 DEF AlignmentInv

-----------------------------------------------------------------------------
(* The strengthened invariant holds when the window opens.                   *)
LEMMA AlignmentInitially == AlignmentInit => AlignmentInv
  BY AlignmentAssumption DEF AlignmentInit, AlignmentInv, AlignmentTypeOK, Tens, ResultInv, RefinementInv,
     UntouchedInv, AppliedAligns

(* And every step of the window, the task and the scene keeps it.            *)
LEMMA AlignmentSteps == AlignmentInv /\ [AlignmentNext]_alignmentVars => AlignmentInv'
<1> SUFFICES ASSUME AlignmentInv, [AlignmentNext]_alignmentVars PROVE AlignmentInv'
  OBVIOUS
<1>1. CASE UNCHANGED <<placed, snapshots, snapshot, result, refinement, untouched, applied>>
  BY <1>1 DEF AlignmentInv, AlignmentTypeOK, ResultInv, RefinementInv, UntouchedInv, AppliedAligns
<1>2. CASE PickPrimary \/ PickSecondary \/ UndoLastPick \/ ResetAlignment \/ BackToPicking
           \/ UNCHANGED alignmentVars
  BY <1>1, <1>2 DEF PickPrimary, PickSecondary, UndoLastPick, ResetAlignment, BackToPicking,
     deviceAndResult, alignmentVars
<1>3. CASE SnapshotClouds
  <2>1. /\ snapshots' = snapshots + 1 /\ snapshot' = placed /\ untouched' = TRUE
        /\ UNCHANGED <<placed, result, refinement, applied>>
    BY <1>3 DEF SnapshotClouds
  <2>2. AlignmentTypeOK' /\ UntouchedInv' /\ AppliedAligns'
    BY <2>1 DEF AlignmentInv, AlignmentTypeOK, UntouchedInv, AppliedAligns
  <2>3. result # <<>> => result[1].of \in Nat
    BY DEF AlignmentInv, AlignmentTypeOK, Result
  <2>4. refinement # <<>> => refinement[1].of \in Nat
    BY DEF AlignmentInv, AlignmentTypeOK, Task
  <2>5. snapshots \in Nat
    BY DEF AlignmentInv, AlignmentTypeOK
  <2>6. ResultInv'
    BY <2>1, <2>3, <2>5 DEF AlignmentInv, ResultInv
  <2>7. RefinementInv'
    BY <2>1, <2>4, <2>5 DEF AlignmentInv, RefinementInv
  <2>8. QED
    BY <2>2, <2>6, <2>7 DEF AlignmentInv
<1>4. CASE \E e \in PickErrors : ComputeFromPairs(e)
  BY <1>4, ComputeStep
<1>5. CASE Refine
  <2> DEFINE t == [guess |-> result[1].move * 10, source |-> snapshot, of |-> snapshots]
  <2>1. /\ result # <<>> /\ refinement' = <<t>>
        /\ UNCHANGED <<placed, snapshots, snapshot, result, untouched, applied>>
    BY <1>5 DEF Refine
  <2>2. result[1].move \in Int
    BY <2>1 DEF AlignmentInv, AlignmentTypeOK, Result
  <2>3. t \in Task /\ t.source = snapshot /\ t.of = snapshots
    BY <2>2 DEF AlignmentInv, AlignmentTypeOK, Task
  <2> HIDE DEF t
  <2>4. AlignmentTypeOK'
    BY <2>1, <2>3 DEF AlignmentInv, AlignmentTypeOK
  <2>5. refinement'[1] = t /\ snapshots \in Nat
    BY <2>1 DEF AlignmentInv, AlignmentTypeOK
  <2>6. RefinementInv'
    BY <2>1, <2>3, <2>5 DEF RefinementInv
  <2>7. ResultInv' /\ UntouchedInv' /\ AppliedAligns'
    BY <2>1 DEF AlignmentInv, ResultInv, UntouchedInv, AppliedAligns
  <2>8. QED
    BY <2>4, <2>6, <2>7 DEF AlignmentInv
<1>6. CASE RefinementFinished
  BY <1>6, RefinedStep
<1>7. CASE ApplyResult
  BY <1>7, ApplyStep
<1>8. CASE \E to \in Placements : MoveDevice(to)
  <2>1. /\ placed' \in Placements /\ untouched' = FALSE /\ applied' = <<>>
        /\ UNCHANGED <<snapshots, snapshot, result, refinement>>
    BY <1>8 DEF MoveDevice
  <2>2. placed' \in Tens
    BY <2>1, AlignmentAssumption DEF Tens
  <2>3. QED
    BY <2>1, <2>2 DEF AlignmentInv, AlignmentTypeOK, ResultInv, RefinementInv, UntouchedInv, AppliedAligns
<1>9. QED
  BY <1>2, <1>3, <1>4, <1>5, <1>6, <1>7, <1>8 DEF AlignmentNext

(* A result of the clouds frozen last, applied to a device that is still     *)
(* where it was frozen, puts it on the other one up to the error of the      *)
(* picks, although the refinement counts in other units than the view        *)
(* (computeFromPairs, refine and applyResult of the alignment controller).   *)
THEOREM ResultsAlign == AlignmentSpec => []AppliedAligns
<1>1. AlignmentInv => AppliedAligns
  BY DEF AlignmentInv
<1>2. QED
  BY <1>1, AlignmentInitially, AlignmentSteps, PTL DEF AlignmentSpec

-----------------------------------------------------------------------------
(* DeviceLifecycle: exactly the configured devices run, and a device that    *)
(* was disposed of calls nobody.                                             *)

(* In a finite set of numbers each rank is somebody's.                       *)
LEMMA RankExists ==
  ASSUME NEW S, NEW l \in Nat, S \subseteq 1..l, NEW k \in 1..Cardinality(S)
  PROVE  \E i \in S : Cardinality({j \in S : j <= i}) = k
<1> DEFINE Below(n) == {j \in S : j <= n}
<1>0. \A j \in S : j \in Nat /\ 1 <= j /\ j <= l
  OBVIOUS
<1>1. IsFiniteSet(S) /\ Cardinality(S) \in Nat
  <2>1. IsFiniteSet(1..l)
    BY FS_Interval
  <2> QED
    BY <2>1, FS_Subset, FS_CardinalityType
<1>2. \A n \in Nat : IsFiniteSet(Below(n)) /\ Cardinality(Below(n)) \in Nat
  <2>1. \A n \in Nat : Below(n) \subseteq S
    OBVIOUS
  <2> QED
    BY <1>1, <2>1, FS_Subset, FS_CardinalityType
<1>3. PICK T : T = {n \in Nat : Cardinality(Below(n)) >= k}
  OBVIOUS
<1>4. T \subseteq Nat /\ T # {}
  <2>1. Below(l) = S
    BY <1>0
  <2>2. l \in T
    BY <1>1, <1>3, <2>1
  <2> QED
    BY <1>3, <2>2
<1>5. PICK n \in T : \A m \in T : ~(m < n)
  <2>1. PICK n \in T : \A m \in T : <<m, n>> \notin OpToRel(<, Nat)
    BY <1>4, WFMin, NatLessThanWellFounded
  <2> QED
    BY <1>4, <2>1 DEF OpToRel
<1>6. n \in Nat /\ Cardinality(Below(n)) >= k /\ k >= 1
  BY <1>1, <1>3
<1>7. n # 0
  <2>1. SUFFICES ASSUME n = 0 PROVE FALSE
    OBVIOUS
  <2>2. Below(n) = {}
    <3>1. \A j \in S : ~(j <= n)
      BY <1>0, <2>1
    <3> QED
      BY <3>1, Zenon
  <2> QED
    BY <1>6, <2>2, FS_EmptySet
<1>8. PICK m \in Nat : n = m + 1
  <2>1. n - 1 \in Nat /\ n = (n - 1) + 1
    BY <1>6, <1>7
  <2> QED
    BY <2>1
<1>9. Cardinality(Below(m)) < k
  BY <1>1, <1>2, <1>3, <1>5, <1>8
<1>10. n \in S
  <2>1. SUFFICES ASSUME n \notin S PROVE FALSE
    OBVIOUS
  <2>2. Below(n) = Below(m)
    <3>1. \A j \in S : j <= n <=> j <= m
      BY <1>0, <1>6, <1>8, <2>1
    <3> QED
      BY <3>1, Zenon
  <2> QED
    BY <1>1, <1>2, <1>6, <1>9, <2>2
<1>11. Cardinality(Below(n)) = Cardinality(Below(m)) + 1
  <2>1. Below(n) = Below(m) \cup {n} /\ n \notin Below(m)
    <3>1. \A j \in S : j <= n <=> j <= m \/ j = n
      BY <1>0, <1>6, <1>8
    <3>2. ~(n <= m)
      BY <1>6, <1>8
    <3> QED
      BY <1>10, <3>1, <3>2
  <2> QED
    BY <1>2, <2>1, FS_AddElement
<1> QED
  <2>1. Cardinality(Below(n)) = k
    <3>1. \A a, b, c \in Nat : a < b /\ c = a + 1 /\ c >= b => c = b
      OBVIOUS
    <3>2. k \in Nat /\ Cardinality(Below(m)) \in Nat /\ Cardinality(Below(n)) \in Nat
      BY <1>1, <1>2, <1>6
    <3> QED
      BY <1>6, <1>9, <1>11, <3>1, <3>2
  <2> QED
    BY <1>10, <2>1

(* A chain is of operators, and how many they are does not depend on values. *)
LEMMA ChainTyped ==
  ASSUME NEW ops \in Seq(OperatorConfig)
  PROVE  /\ WorkerChain(ops) \in Seq(OperatorConfig) /\ Cardinality(Kept(ops)) \in Nat
         /\ DOMAIN WorkerChain(ops) = 1..Cardinality(Kept(ops))
<1>1. PICK l \in Nat : l = Len(ops) /\ DOMAIN ops = 1..l
  BY LenProperties
<1>2. Kept(ops) \subseteq 1..l
  BY <1>1 DEF Kept
<1>3. Cardinality(Kept(ops)) \in Nat
  <2>1. IsFiniteSet(1..l)
    BY FS_Interval
  <2> QED
    BY <1>2, <2>1, FS_Subset, FS_CardinalityType
<1>4. ASSUME NEW k \in 1..Cardinality(Kept(ops)) PROVE WorkerChain(ops)[k] \in OperatorConfig
  <2>1. PICK i : i = CHOOSE m \in Kept(ops) : Cardinality({j \in Kept(ops) : j <= m}) = k
    OBVIOUS
  <2>2. i \in Kept(ops)
    BY <1>2, <2>1, RankExists
  <2>3. ops[i] \in OperatorConfig
    BY <1>1, <1>2, <2>2, ElementOfSeq
  <2> QED
    BY <2>1, <2>3 DEF WorkerChain
<1>5. WorkerChain(ops) \in [1..Cardinality(Kept(ops)) -> OperatorConfig]
  BY <1>4 DEF WorkerChain
<1> QED
  BY <1>3, <1>5, SeqDef

-----------------------------------------------------------------------------
(* What holds of applying, of the instances and of the registry at each of   *)
(* its steps, and which says more than that an apply that is over is running.*)
Places == {"idle", "stored", "devices", "detaching", "sessions", "clear", "register", "osc", "hooks"}
Kinds == STRING \cup {"NullDevice"}
Instances ==
  [config : DeviceConfig, kind : Kinds, chain : Seq(OperatorConfig), builds : Nat, hooked : BOOLEAN,
   detached : BOOLEAN, thread : {"idle", "looked", "calling"},
   life : {"live", "queued", "stopping", "gone"}, apart : BOOLEAN]
SetTasks == [id : STRING, plugin : Nat, field : Nat, at : {"found", "written"}]
Applications ==
  [at : Places, todo : Seq(DeviceConfig), old : SUBSET Nat, made : Seq(Nat), out : Nat]
WorkspaceConfig(views) == [devices : Seq(DeviceConfig), sessions : {views}, osc : OscConfig]

Syncing == applying.at \in {"devices", "detaching"}
Held == IF Syncing THEN applying.made ELSE inUse
Holds(n) == \E i \in DOMAIN Held : Held[i] = n
Leaving(n) == At("detaching") /\ n = applying.out
Lives(n) == plugins[n].life = "live"

LifecycleTypeOK ==
  /\ workspace \in WorkspaceConfig(workspace.sessions)
  /\ plugins \in Seq(Instances) /\ inUse \in Seq(Nat) /\ applying \in Applications
  /\ setting = <<>> \/ setting \in SetTasks

HeldAreMade ==
  /\ \A i \in DOMAIN inUse : inUse[i] \in DOMAIN plugins
  /\ \A n \in applying.old : n \in DOMAIN plugins
  /\ \A i \in DOMAIN applying.made : applying.made[i] \in DOMAIN plugins
  /\ At("detaching") => applying.out \in DOMAIN plugins
  /\ ~Syncing => applying.todo = <<>>

(* An instance that is no longer live calls nobody, and a live one may.      *)
SoundInstance(p, leaving) ==
  /\ p.kind = PluginFor(p.config.kind)
  /\ DOMAIN p.chain = DOMAIN WorkerChain(p.config.ops)
  /\ p.life # "live" => ~p.hooked /\ p.thread # "calling"
  /\ p.life = "live" /\ p.detached => leaving
InstancesSound == \A n \in DOMAIN plugins : SoundInstance(plugins[n], Leaving(n))

(* The live instances are those held: made already, old still, or leaving.   *)
LiveAreHeld ==
  /\ \A n \in DOMAIN plugins :
       Lives(n) <=> Holds(n) \/ (Syncing /\ n \in applying.old) \/ Leaving(n)
  /\ \A n \in applying.old : Syncing => ~Holds(n) /\ ~Leaving(n)
  /\ At("detaching") => ~Holds(applying.out)

IdsDiffer ==
  \A m, n \in DOMAIN plugins :
    Lives(m) /\ Lives(n) /\ plugins[m].config.id = plugins[n].config.id => m = n
DevicesDiffer ==
  \A i, j \in DOMAIN workspace.devices : workspace.devices[i].id = workspace.devices[j].id => i = j

(* The instances held are those of the first devices, and the others are     *)
(* still to do.                                                              *)
Writing(n) == setting # <<>> /\ setting.plugin = n /\ setting.at = "written"
Matches(p, d, writing) ==
  /\ p.config.id = d.id /\ p.config.kind = d.kind
  /\ p.apart \/ p.config = d \/ writing
HeldMatch ==
  ~At("stored") =>
    /\ Len(Held) + Len(applying.todo) = Len(workspace.devices)
    /\ \A i \in DOMAIN Held : Matches(plugins[Held[i]], workspace.devices[i], Writing(Held[i]))
    /\ \A j \in DOMAIN applying.todo : applying.todo[j].id = workspace.devices[Len(Held) + j].id

SettingLeads ==
  setting # <<>> =>
    setting.plugin \in DOMAIN plugins /\ plugins[setting.plugin].config.id = setting.id
FieldsLead ==
  \A id \in DOMAIN fields : fields[id] \in DOMAIN plugins /\ plugins[fields[id]].config.id = id
FieldsSet ==
  applying.at \in {"osc", "hooks", "idle"} =>
    /\ DOMAIN fields = {workspace.devices[i].id : i \in DOMAIN workspace.devices}
    /\ \A i \in DOMAIN inUse : fields[plugins[inUse[i]].config.id] = inUse[i]
HooksSet == At("idle") => \A i \in DOMAIN inUse : plugins[inUse[i]].hooked

(* The workers of a live instance run its operators, or will when it is told,*)
(* or somebody was left out.                                                 *)
Follows(p, isTold, writing) ==
  \/ p.apart \/ writing
  \/ isTold /\ p.kind # "OrbbecDevice"
  \/ p.chain = WorkerChain(p.config.ops)
ChainsFollow ==
  \A n \in DOMAIN plugins :
    Lives(n) => Follows(plugins[n], n \in told, Writing(n) /\ setting.field # 0)
RestFollows ==
  /\ applying.at \in {"clear", "register", "osc", "hooks", "idle"} => sessions = workspace.sessions
  /\ applying.at \in {"hooks", "idle"} => receiver.port \in {0, WantedPort}

LifecycleInv ==
  /\ LifecycleTypeOK /\ HeldAreMade /\ InstancesSound /\ LiveAreHeld /\ IdsDiffer /\ DevicesDiffer
  /\ HeldMatch /\ SettingLeads /\ FieldsLead /\ FieldsSet /\ HooksSet /\ ChainsFollow /\ RestFollows

-----------------------------------------------------------------------------
(* What a step does to an instance that it does not configure.               *)
Untouched(p, q) ==
  /\ q.config = p.config /\ q.kind = p.kind /\ q.chain = p.chain /\ q.apart = p.apart
  /\ q.detached = p.detached /\ (q.life = "live" <=> p.life = "live")
  /\ q.life # "live" => ~q.hooked /\ q.thread # "calling"

(* The instances are numbered without a gap.                                 *)
LEMMA Numbered ==
  ASSUME NEW S, NEW s \in Seq(S)
  PROVE  /\ DOMAIN s = 1..Len(s) /\ Len(s) \in Nat
         /\ \A i \in DOMAIN s : s[i] \in S /\ i \in Nat
  BY LenProperties, ElementOfSeq

(* The instances held match while they, their number and the devices stay.   *)
LEMMA StillMatching ==
  ASSUME HeldMatch, ~At("stored"), Held' = Held, applying'.todo = applying.todo,
         UNCHANGED workspace,
         \A i \in DOMAIN Held : \A d : Matches(plugins[Held[i]], d, Writing(Held[i]))
                                    => Matches(plugins'[Held[i]], d, Writing(Held[i])')
  PROVE  HeldMatch'
<1>1. Len(Held') + Len(applying'.todo) = Len(workspace'.devices)
  BY DEF HeldMatch
<1>2. \A j \in DOMAIN applying'.todo : applying'.todo[j].id = workspace'.devices[Len(Held') + j].id
  BY DEF HeldMatch
<1>3. ASSUME NEW i \in DOMAIN Held
      PROVE  Matches(plugins'[Held[i]], workspace'.devices[i], Writing(Held[i])')
  <2>1. Matches(plugins[Held[i]], workspace.devices[i], Writing(Held[i]))
    BY DEF HeldMatch
  <2> QED
    BY <2>1
<1>4. \A i \in DOMAIN Held' : Matches(plugins'[Held'[i]], workspace'.devices[i], Writing(Held[i])')
  BY <1>3
<1>5. (\A i \in DOMAIN Held : Matches(plugins[Held[i]], workspace.devices[i], Writing(Held[i])))'
  BY <1>4 DEF Writing
<1> QED
  BY <1>1, <1>2, <1>5 DEF HeldMatch

(* A step of the threads: the instances are held and configured as before.   *)
LEMMA ThreadsMove ==
  ASSUME LifecycleInv, plugins' \in Seq(Instances), DOMAIN plugins' = DOMAIN plugins,
         \A n \in DOMAIN plugins : Untouched(plugins[n], plugins'[n]),
         UNCHANGED <<workspace, inUse, applying, setting>>
  PROVE  /\ LifecycleTypeOK' /\ HeldAreMade' /\ InstancesSound' /\ LiveAreHeld' /\ IdsDiffer'
         /\ DevicesDiffer' /\ HeldMatch' /\ SettingLeads'
<1>1. LifecycleTypeOK' /\ HeldAreMade' /\ DevicesDiffer'
  BY DEF LifecycleInv, LifecycleTypeOK, HeldAreMade, DevicesDiffer, At, Syncing
<1>2. /\ Syncing' = Syncing /\ Held' = Held /\ At("detaching")' = At("detaching")
      /\ At("stored")' = At("stored")
      /\ (\A n : Leaving(n)' = Leaving(n) /\ Holds(n)' = Holds(n) /\ Writing(n)' = Writing(n))
  BY DEF Syncing, Held, At, Leaving, Holds, Writing
<1>3. InstancesSound'
  <2>1. ASSUME NEW n \in DOMAIN plugins PROVE SoundInstance(plugins'[n], Leaving(n))
    BY <2>1 DEF LifecycleInv, InstancesSound, SoundInstance, Untouched
  <2> QED
    BY <1>2, <2>1 DEF InstancesSound
<1>4. LiveAreHeld' /\ IdsDiffer'
  <2>1. \A n \in DOMAIN plugins : Lives(n)' = Lives(n) /\ plugins'[n].config = plugins[n].config
    BY DEF Lives, Untouched
  <2> QED
    BY <1>2, <2>1 DEF LifecycleInv, LiveAreHeld, IdsDiffer
<1>5. HeldMatch'
  <2>1. \A i \in DOMAIN Held : Held[i] \in DOMAIN plugins
    BY DEF LifecycleInv, HeldAreMade, Held
  <2>2. \A i \in DOMAIN Held : \A d, w :
          Matches(plugins[Held[i]], d, w) => Matches(plugins'[Held[i]], d, w)
    BY <2>1 DEF Matches, Untouched
  <2> QED
    BY <1>2, <2>2 DEF LifecycleInv, HeldMatch
<1>6. SettingLeads'
  BY DEF LifecycleInv, SettingLeads, Untouched
<1> QED
  BY <1>1, <1>3, <1>4, <1>5, <1>6

(* Looking, calling, ending and the teardown move the threads only.          *)
LEMMA ThreadSteps ==
  ASSUME LifecycleInv,
         \/ \E n \in DOMAIN plugins : NotifyLooks(n) \/ NotifyCalls(n) \/ NotifyEnds(n)
         \/ StartTeardown \/ EndTeardown
  PROVE  LifecycleInv'
<1>1. plugins \in Seq(Instances) /\ \A n \in DOMAIN plugins : plugins[n] \in Instances
  BY Numbered DEF LifecycleInv, LifecycleTypeOK
<1>2. UNCHANGED <<workspace, inUse, applying, setting, sessions, fields, receiver, told>>
  BY DEF NotifyLooks, NotifyCalls, NotifyEnds, StartTeardown, EndTeardown, oscVars
<1>3. /\ plugins' \in Seq(Instances) /\ DOMAIN plugins' = DOMAIN plugins
      /\ \A n \in DOMAIN plugins :
           Untouched(plugins[n], plugins'[n]) /\ (plugins[n].hooked => plugins'[n].hooked)
  <2>1. ASSUME NEW n \in DOMAIN plugins, NEW q \in Instances, plugins' = [plugins EXCEPT ![n] = q],
               Untouched(plugins[n], q), plugins[n].hooked => q.hooked
        PROVE  /\ plugins' \in Seq(Instances) /\ DOMAIN plugins' = DOMAIN plugins
               /\ \A m \in DOMAIN plugins :
                    Untouched(plugins[m], plugins'[m]) /\ (plugins[m].hooked => plugins'[m].hooked)
    <3>1. n \in 1..Len(plugins)
      BY <1>1, Numbered
    <3>2. plugins' \in Seq(Instances)
      BY <1>1, <2>1, <3>1, ExceptSeq
    <3>3. \A m \in DOMAIN plugins : Untouched(plugins[m], plugins[m])
      BY DEF LifecycleInv, InstancesSound, SoundInstance, Untouched
    <3> QED
      BY <1>1, <2>1, <3>2, <3>3
  <2>2. ASSUME NEW n \in DOMAIN plugins, NotifyLooks(n) \/ NotifyCalls(n) \/ NotifyEnds(n)
        PROVE  \E q \in Instances :
                 /\ plugins' = [plugins EXCEPT ![n] = q]
                 /\ Untouched(plugins[n], q) /\ (plugins[n].hooked => q.hooked)
    <3>1. PICK p \in Instances : p = plugins[n]
      BY <1>1
    <3>2. SoundInstance(p, Leaving(n))
      BY <3>1 DEF LifecycleInv, InstancesSound
    <3>3. CASE NotifyLooks(n)
      <4>1. PICK q \in Instances : q = [p EXCEPT !.thread = "looked"]
        BY DEF Instances
      <4> QED
        BY <3>1, <3>2, <3>3, <4>1 DEF NotifyLooks, Instances, Untouched, SoundInstance
    <3>4. CASE NotifyCalls(n)
      <4>1. PICK q \in Instances : q = [p EXCEPT !.thread = IF p.hooked THEN "calling" ELSE "idle"]
        BY DEF Instances
      <4>2. plugins' = [plugins EXCEPT ![n] = q]
        BY <3>1, <3>4, <4>1 DEF NotifyCalls
      <4>3. Untouched(p, q) /\ (p.hooked => q.hooked)
        BY <3>2, <4>1 DEF Instances, Untouched, SoundInstance
      <4> QED
        BY <3>1, <4>2, <4>3
    <3>5. CASE NotifyEnds(n)
      <4>1. PICK q \in Instances : q = [p EXCEPT !.thread = "idle"]
        BY DEF Instances
      <4> QED
        BY <3>1, <3>2, <3>5, <4>1 DEF NotifyEnds, Instances, Untouched, SoundInstance
    <3> QED
      BY <2>2, <3>3, <3>4, <3>5
  <2>3. ASSUME StartTeardown \/ EndTeardown, Head(teardown) \in DOMAIN plugins
        PROVE  \E q \in Instances :
                 /\ plugins' = [plugins EXCEPT ![Head(teardown)] = q]
                 /\ Untouched(plugins[Head(teardown)], q)
                 /\ (plugins[Head(teardown)].hooked => q.hooked)
    <3>1. PICK n \in DOMAIN plugins : n = Head(teardown)
      BY <2>3
    <3>2. PICK p \in Instances : p = plugins[n]
      BY <1>1
    <3>3. SoundInstance(p, Leaving(n))
      BY <3>2 DEF LifecycleInv, InstancesSound
    <3>4. PICK life : /\ life \in {"stopping", "gone"} /\ p.life \in {"queued", "stopping"}
                      /\ plugins' = [plugins EXCEPT ![n].life = life]
      BY <2>3, <3>1, <3>2 DEF StartTeardown, EndTeardown
    <3>5. PICK q \in Instances : q = [p EXCEPT !.life = life]
      BY <3>4 DEF Instances
    <3>6. plugins' = [plugins EXCEPT ![n] = q]
      BY <3>2, <3>4, <3>5
    <3>7. Untouched(p, q) /\ (p.hooked => q.hooked)
      BY <3>3, <3>4, <3>5 DEF Instances, Untouched, SoundInstance
    <3> QED
      BY <3>1, <3>2, <3>6, <3>7
  <2>4. ASSUME StartTeardown \/ EndTeardown, Head(teardown) \notin DOMAIN plugins
        PROVE  plugins' = plugins
    <3>1. plugins' = [plugins EXCEPT ![Head(teardown)].life = plugins'[Head(teardown)].life]
          \/ plugins' = plugins
      BY <2>4 DEF StartTeardown, EndTeardown
    <3> QED
      BY <1>1, <2>4, <3>1
  <2>5. \A m \in DOMAIN plugins : Untouched(plugins[m], plugins[m])
    BY DEF LifecycleInv, InstancesSound, SoundInstance, Untouched
  <2> QED
    BY <1>1, <2>1, <2>2, <2>3, <2>4, <2>5
<1>4. FieldsLead' /\ FieldsSet' /\ HooksSet' /\ RestFollows'
  <2>1. \A i \in DOMAIN inUse : inUse[i] \in DOMAIN plugins
    BY DEF LifecycleInv, HeldAreMade
  <2>2. FieldsLead' /\ FieldsSet' /\ HooksSet'
    BY <1>2, <1>3, <2>1 DEF LifecycleInv, FieldsLead, FieldsSet, HooksSet, At, Untouched
  <2> QED
    BY <1>2, <2>2 DEF LifecycleInv, RestFollows, WantedPort
<1>5. ChainsFollow'
  BY <1>2, <1>3 DEF LifecycleInv, ChainsFollow, Follows, Lives, Writing, Untouched
<1> QED
  BY <1>2, <1>3, <1>4, <1>5, ThreadsMove DEF LifecycleInv

-----------------------------------------------------------------------------
(* Looking a field up: nothing is written yet.                               *)
LEMMA LookUpStep ==
  ASSUME LifecycleInv, NEW id \in DOMAIN fields, NEW i \in 0..2, LookUpField(id, i)
  PROVE  LifecycleInv'
<1>1. /\ UNCHANGED <<workspace, plugins, inUse, sessions, fields, applying, receiver, told>>
      /\ setting = <<>> /\ setting' = [id |-> id, plugin |-> fields[id], field |-> i, at |-> "found"]
  BY DEF LookUpField
<1>2. fields[id] \in DOMAIN plugins /\ plugins[fields[id]].config.id = id
  BY DEF LifecycleInv, FieldsLead
<1>3. plugins \in Seq(Instances) /\ fields[id] \in Nat /\ plugins[fields[id]] \in Instances
  BY <1>2, Numbered DEF LifecycleInv, LifecycleTypeOK
<1>4. id \in STRING
  BY <1>2, <1>3 DEF Instances, DeviceConfig
<1>5. setting' \in SetTasks
  BY <1>1, <1>3, <1>4 DEF SetTasks
<1>6. \A n : ~Writing(n) /\ ~Writing(n)'
  BY <1>1 DEF Writing
<1>7. /\ Syncing' = Syncing /\ Held' = Held /\ At("detaching")' = At("detaching")
      /\ At("stored")' = At("stored") /\ At("idle")' = At("idle")
      /\ (\A n : Leaving(n)' = Leaving(n) /\ Holds(n)' = Holds(n) /\ Lives(n)' = Lives(n))
  BY <1>1 DEF Syncing, Held, At, Leaving, Holds, Lives
<1>8. LifecycleTypeOK' /\ HeldAreMade' /\ InstancesSound' /\ LiveAreHeld' /\ IdsDiffer' /\ DevicesDiffer'
  BY <1>1, <1>5, <1>7 DEF LifecycleInv, LifecycleTypeOK, HeldAreMade, InstancesSound, LiveAreHeld,
     IdsDiffer, DevicesDiffer
<1>9. HeldMatch' /\ ChainsFollow'
  BY <1>1, <1>6, <1>7 DEF LifecycleInv, HeldMatch, ChainsFollow, Matches, Follows
<1>10. SettingLeads'
  BY <1>1, <1>2, <1>5 DEF SettingLeads, SetTasks
<1>11. FieldsLead' /\ FieldsSet' /\ HooksSet' /\ RestFollows'
  BY <1>1, <1>7 DEF LifecycleInv, FieldsLead, FieldsSet, HooksSet, RestFollows, WantedPort
<1> QED
  BY <1>8, <1>9, <1>10, <1>11 DEF LifecycleInv

(* A value is not what an instance is known by.                              *)
Rewritten(p, q) ==
  /\ q.config.id = p.config.id /\ q.config.kind = p.config.kind
  /\ Kept(q.config.ops) = Kept(p.config.ops)
  /\ q.kind = p.kind /\ q.chain = p.chain /\ q.apart = p.apart /\ q.detached = p.detached
  /\ q.life = p.life /\ q.hooked = p.hooked /\ q.thread = p.thread

(* Writing a value rewrites the instance it was looked up in.                *)
LEMMA Rewrites ==
  ASSUME NEW p \in Instances, NEW i \in Nat, i <= Len(p.config.ops), NEW v \in FieldValues, NEW q,
         q = IF i = 0 THEN [p EXCEPT !.config.value = v] ELSE [p EXCEPT !.config.ops[i].value = v]
  PROVE  q \in Instances /\ Rewritten(p, q) /\ (i = 0 => q.config.ops = p.config.ops)
<1>1. PICK d \in DeviceConfig : d = p.config
  BY DEF Instances
<1>2. PICK ops \in Seq(OperatorConfig) : ops = d.ops
  BY DEF DeviceConfig
<1>3. CASE i = 0
  <2>1. PICK e \in DeviceConfig : e = [d EXCEPT !.value = v]
    BY DEF DeviceConfig
  <2>2. q = [p EXCEPT !.config = e]
    BY <1>1, <1>3, <2>1
  <2>3. e.id = d.id /\ e.kind = d.kind /\ e.ops = d.ops
    BY <2>1 DEF DeviceConfig
  <2> QED
    BY <1>1, <2>2, <2>3 DEF Instances, Rewritten
<1>4. CASE i # 0
  <2>1. i \in 1..Len(ops) /\ ops[i] \in OperatorConfig
    <3>1. Len(ops) \in Nat /\ Len(ops) = Len(p.config.ops)
      BY <1>1, <1>2, LenProperties
    <3>2. i \in 1..Len(ops)
      BY <1>4, <3>1
    <3> QED
      BY <3>2, ElementOfSeq
  <2>2. PICK o \in OperatorConfig : o = [ops[i] EXCEPT !.value = v]
    BY <2>1 DEF OperatorConfig
  <2>3. o.kind = ops[i].kind
    BY <2>1, <2>2 DEF OperatorConfig
  <2>4. PICK new \in Seq(OperatorConfig) : new = [ops EXCEPT ![i] = o]
    BY <2>1, ExceptSeq
  <2>5. Kept(new) = Kept(ops)
    BY <2>3, <2>4 DEF Kept
  <2>6. PICK e \in DeviceConfig : e = [d EXCEPT !.ops = new]
    BY DEF DeviceConfig
  <2>7. e.id = d.id /\ e.kind = d.kind /\ e.ops = new
    BY <2>6 DEF DeviceConfig
  <2>8. q = [p EXCEPT !.config = e]
    <3>1. [ops EXCEPT ![i].value = v] = new
      BY <2>2, <2>4
    <3>2. [d EXCEPT !.ops[i].value = v] = e
      BY <1>2, <2>6, <3>1
    <3>3. q = [p EXCEPT !.config.ops[i].value = v]
      BY <1>4
    <3> QED
      BY <1>1, <3>2, <3>3
  <2> QED
    BY <1>1, <1>2, <1>4, <2>5, <2>7, <2>8 DEF Instances, Rewritten
<1> QED
  BY <1>3, <1>4

(* Writing a field.                                                          *)
LEMMA WriteStep ==
  ASSUME LifecycleInv, NEW v \in FieldValues, WriteField(v)
  PROVE  LifecycleInv'
<1>1. /\ UNCHANGED <<workspace, inUse, sessions, fields, applying, receiver, told>>
      /\ setting # <<>> /\ setting.at = "found" /\ setting' = [setting EXCEPT !.at = "written"]
      /\ setting \in SetTasks
  BY DEF WriteField, LifecycleInv, LifecycleTypeOK
<1>2. PICK n, i : n = setting.plugin /\ i = setting.field
  OBVIOUS
<1>3. /\ setting' \in SetTasks /\ setting'.plugin = n /\ setting'.field = i /\ setting'.at = "written"
      /\ setting'.id = setting.id /\ setting' # <<>>
      /\ i \in Nat /\ n \in DOMAIN plugins
  <2>1. setting' \in SetTasks /\ setting'.plugin = n /\ setting'.field = i /\ setting'.at = "written"
        /\ setting'.id = setting.id /\ i \in Nat
    BY <1>1, <1>2 DEF SetTasks
  <2>2. setting' # <<>>
    BY <2>1 DEF SetTasks
  <2> QED
    BY <1>1, <1>2, <2>1, <2>2 DEF LifecycleInv, SettingLeads
<1>4. plugins \in Seq(Instances) /\ \A m \in DOMAIN plugins : plugins[m] \in Instances
  BY Numbered DEF LifecycleInv, LifecycleTypeOK
<1>5. PICK p \in Instances : p = plugins[n]
  BY <1>3, <1>4
<1>6. /\ plugins' \in Seq(Instances) /\ DOMAIN plugins' = DOMAIN plugins
      /\ \A m \in DOMAIN plugins : m # n => plugins'[m] = plugins[m]
      /\ Rewritten(p, plugins'[n]) /\ (i = 0 => plugins'[n].config.ops = p.config.ops)
  <2>1. CASE plugins' = plugins
    BY <1>4, <1>5, <2>1 DEF Rewritten
  <2>2. CASE /\ ~(i > Len(p.config.ops))
             /\ plugins' = IF i = 0 THEN [plugins EXCEPT ![n].config.value = v]
                           ELSE [plugins EXCEPT ![n].config.ops[i].value = v]
    <3>1. PICK q : q = IF i = 0 THEN [p EXCEPT !.config.value = v]
                       ELSE [p EXCEPT !.config.ops[i].value = v]
      OBVIOUS
    <3>2. i <= Len(p.config.ops)
      <4>1. Len(p.config.ops) \in Nat
        BY LenProperties DEF Instances, DeviceConfig
      <4> QED
        BY <1>3, <2>2, <4>1
    <3>3. q \in Instances /\ Rewritten(p, q) /\ (i = 0 => q.config.ops = p.config.ops)
      BY <1>3, <3>1, <3>2, Rewrites
    <3>4. plugins' = [plugins EXCEPT ![n] = q]
      BY <1>5, <2>2, <3>1
    <3>5. n \in 1..Len(plugins)
      BY <1>3, <1>4, Numbered
    <3>6. plugins' \in Seq(Instances)
      BY <1>4, <3>3, <3>4, <3>5, ExceptSeq
    <3> QED
      BY <1>3, <1>4, <3>3, <3>4, <3>6
  <2> QED
    BY <1>2, <1>5, <2>1, <2>2 DEF WriteField
<1>7. /\ \A m \in DOMAIN plugins : Rewritten(plugins[m], plugins'[m])
      /\ \A m : ~Writing(m) /\ (Writing(m)' <=> m = n)
  BY <1>1, <1>3, <1>5, <1>6 DEF Rewritten, Writing
<1>8. /\ Syncing' = Syncing /\ Held' = Held /\ At("detaching")' = At("detaching")
      /\ At("stored")' = At("stored") /\ At("idle")' = At("idle")
      /\ (\A m : Leaving(m)' = Leaving(m) /\ Holds(m)' = Holds(m))
  BY <1>1 DEF Syncing, Held, At, Leaving, Holds
<1>9. LifecycleTypeOK' /\ HeldAreMade' /\ DevicesDiffer' /\ RestFollows'
  BY <1>1, <1>3, <1>6, <1>8 DEF LifecycleInv, LifecycleTypeOK, HeldAreMade, DevicesDiffer,
     RestFollows, WantedPort
<1>10. InstancesSound'
  <2>1. ASSUME NEW m \in DOMAIN plugins PROVE SoundInstance(plugins'[m], Leaving(m))
    <3>1. SoundInstance(plugins[m], Leaving(m)) /\ Rewritten(plugins[m], plugins'[m])
      BY <1>7 DEF LifecycleInv, InstancesSound
    <3>2. DOMAIN WorkerChain(plugins'[m].config.ops) = DOMAIN WorkerChain(plugins[m].config.ops)
      BY <3>1 DEF Rewritten, WorkerChain
    <3> QED
      BY <3>1, <3>2 DEF SoundInstance, Rewritten
  <2> QED
    BY <1>6, <1>8, <2>1 DEF InstancesSound
<1>11. LiveAreHeld' /\ IdsDiffer' /\ SettingLeads' /\ FieldsLead'
  BY <1>1, <1>2, <1>3, <1>6, <1>7, <1>8 DEF LifecycleInv, LiveAreHeld, IdsDiffer, SettingLeads,
     FieldsLead, Lives, Rewritten
<1>12. FieldsSet' /\ HooksSet'
  <2>1. \A k \in DOMAIN inUse : inUse[k] \in DOMAIN plugins
    BY DEF LifecycleInv, HeldAreMade
  <2> QED
    BY <1>1, <1>7, <1>8, <2>1 DEF LifecycleInv, FieldsSet, HooksSet, Rewritten
<1>13. HeldMatch'
  <2>1. \A k \in DOMAIN Held : Held[k] \in DOMAIN plugins
    BY DEF LifecycleInv, HeldAreMade, Held
  <2>2. \A k \in DOMAIN Held : \A d :
          Matches(plugins[Held[k]], d, FALSE) => Matches(plugins'[Held[k]], d, Held[k] = n)
    BY <1>6, <1>7, <2>1 DEF Matches, Rewritten
  <2> QED
    <3>1. \A k \in DOMAIN Held : (Writing(Held[k]) <=> FALSE) /\ (Writing(Held[k])' <=> Held[k] = n)
      BY <1>7, <1>8
    <3>2. HeldMatch /\ \A k : Held'[k] = Held[k]
      BY <1>8 DEF LifecycleInv
    <3>3. SUFFICES ASSUME ~At("stored") PROVE HeldMatch'
      BY <1>8 DEF HeldMatch
    <3>4. \A k \in DOMAIN Held : Matches(plugins[Held[k]], workspace.devices[k], FALSE)
      BY <3>1, <3>2, <3>3 DEF HeldMatch, Matches
    <3>5. \A k \in DOMAIN Held : Matches(plugins'[Held[k]], workspace.devices[k], Held[k] = n)
      BY <2>2, <3>4
    <3> QED
      BY <1>1, <1>7, <1>8, <3>2, <3>3, <3>5 DEF HeldMatch, Matches
<1>14. ChainsFollow'
  <2>1. ASSUME NEW m \in DOMAIN plugins, Lives(m)'
        PROVE  Follows(plugins'[m], m \in told, m = n /\ i # 0)
    <3>1. Follows(plugins[m], m \in told, FALSE)
      BY <1>7, <2>1 DEF LifecycleInv, ChainsFollow, Lives, Rewritten
    <3> QED
      BY <1>5, <1>6, <1>7, <3>1 DEF Follows, Rewritten
  <2> QED
    BY <1>1, <1>3, <1>6, <1>7, <2>1 DEF ChainsFollow
<1> QED
  BY <1>9, <1>10, <1>11, <1>12, <1>13, <1>14 DEF LifecycleInv

-----------------------------------------------------------------------------
(* What telling of a field does to an instance.                              *)
Raised(p, q) ==
  /\ q.config = p.config /\ q.kind = p.kind /\ DOMAIN q.chain = DOMAIN p.chain
  /\ p.apart => q.apart
  /\ q.detached = p.detached /\ q.life = p.life /\ q.hooked = p.hooked /\ q.thread = p.thread

(* Telling leaves the instances where they are held.                         *)
LEMMA TellingKeeps ==
  ASSUME LifecycleInv, plugins' \in Seq(Instances), DOMAIN plugins' = DOMAIN plugins,
         \A n \in DOMAIN plugins : Raised(plugins[n], plugins'[n]),
         UNCHANGED <<inUse, applying, fields>>
  PROVE  HeldAreMade' /\ InstancesSound' /\ LiveAreHeld' /\ IdsDiffer' /\ FieldsLead' /\ HooksSet'
<1>1. HeldAreMade'
  BY DEF LifecycleInv, HeldAreMade, At, Syncing
<1>2. /\ Syncing' = Syncing /\ Held' = Held /\ At("detaching")' = At("detaching")
      /\ At("idle")' = At("idle")
      /\ (\A n : Leaving(n)' = Leaving(n) /\ Holds(n)' = Holds(n))
  BY DEF Syncing, Held, At, Leaving, Holds
<1>3. InstancesSound'
  <2>1. ASSUME NEW n \in DOMAIN plugins PROVE SoundInstance(plugins'[n], Leaving(n))
    BY <2>1 DEF LifecycleInv, InstancesSound, SoundInstance, Raised
  <2> QED
    BY <1>2, <2>1 DEF InstancesSound
<1>4. LiveAreHeld' /\ IdsDiffer' /\ FieldsLead'
  <2>1. \A n \in DOMAIN plugins : Lives(n)' = Lives(n) /\ plugins'[n].config = plugins[n].config
    BY DEF Lives, Raised
  <2> QED
    BY <1>2, <2>1 DEF LifecycleInv, LiveAreHeld, IdsDiffer, FieldsLead
<1>5. HooksSet'
  <2>1. \A k \in DOMAIN inUse : inUse[k] \in DOMAIN plugins
    BY DEF LifecycleInv, HeldAreMade
  <2> QED
    BY <1>2, <2>1 DEF LifecycleInv, HooksSet, Raised
<1> QED
  BY <1>1, <1>3, <1>4, <1>5

(* The workers are handed as many operators as they have.                    *)
LEMMA Forwards ==
  ASSUME NEW p \in Instances, DOMAIN p.chain = DOMAIN WorkerChain(p.config.ops),
         NEW q, q = Forwarded(p)
  PROVE  q \in Instances /\ Raised(p, q) /\ (q.apart \/ q.chain = WorkerChain(q.config.ops))
<1>1. PICK ops \in Seq(OperatorConfig) : ops = p.config.ops
  BY DEF Instances, DeviceConfig
<1>2. PICK n \in Nat : n = Cardinality(Kept(ops)) /\ DOMAIN p.chain = 1..n
  BY <1>1, ChainTyped
<1>3. PICK l \in Nat : l = Len(ops) /\ DOMAIN ops = 1..l
  BY LenProperties
<1>4. n <= l
  <2>1. IsFiniteSet(1..l) /\ Cardinality(1..l) <= l
    <3>1. 1 \in Int /\ l \in Int
      OBVIOUS
    <3>2. IsFiniteSet(1..l) /\ Cardinality(1..l) = IF 1 > l THEN 0 ELSE l - 1 + 1
      BY <3>1, FS_Interval
    <3>3. (IF 1 > l THEN 0 ELSE l - 1 + 1) <= l
      OBVIOUS
    <3> QED
      BY <3>2, <3>3
  <2>2. Cardinality(Kept(ops)) <= Cardinality(1..l)
    BY <1>3, <2>1, FS_Subset DEF Kept
  <2>3. Cardinality(1..l) \in Nat
    BY <2>1, FS_CardinalityType
  <2> QED
    BY <1>2, <2>1, <2>2, <2>3
<1>5. PICK chain : chain = [i \in DOMAIN p.chain |-> ops[i]]
  OBVIOUS
<1>6. chain \in Seq(OperatorConfig) /\ DOMAIN chain = DOMAIN p.chain
  <2>1. \A i \in 1..n : i \in 1..Len(ops)
    BY <1>3, <1>4
  <2>2. chain \in [1..n -> OperatorConfig]
    BY <1>2, <1>5, <2>1, ElementOfSeq
  <2> QED
    BY <1>5, <2>2, SeqDef
<1>7. PICK apart \in BOOLEAN : apart <=> (p.apart \/ WorkerChain(ops) # ops)
  <2>1. (p.apart \/ WorkerChain(ops) # ops) \in BOOLEAN
    OBVIOUS
  <2> QED
    BY <2>1
<1>8. PICK r \in Instances : r = [p EXCEPT !.chain = chain]
  BY <1>6 DEF Instances
<1>9. q = [r EXCEPT !.apart = apart]
  <2>1. (p.apart \/ WorkerChain(ops) # ops) = apart
    BY <1>7
  <2>2. r.apart = p.apart
    BY <1>8 DEF Instances
  <2> QED
    BY <1>1, <1>5, <1>8, <2>1 DEF Forwarded
<1>10. q \in Instances /\ q.apart = apart /\ q.chain = chain /\ q.config = p.config /\ Raised(p, q)
  BY <1>6, <1>7, <1>8, <1>9 DEF Instances, Raised
<1>11. ASSUME ~q.apart PROVE chain = WorkerChain(ops)
  <2>1. WorkerChain(ops) = ops
    BY <1>7, <1>10, <1>11
  <2>2. chain = [i \in DOMAIN ops |-> ops[i]]
    BY <1>1, <1>5, <2>1
  <2>3. ops = [i \in DOMAIN ops |-> ops[i]]
    BY LenProperties
  <2> QED
    BY <2>1, <2>2, <2>3
<1> QED
  BY <1>1, <1>10, <1>11

(* A change delivered to its adapter.                                        *)
LEMMA FieldChangedStep ==
  ASSUME LifecycleInv, NEW n \in DOMAIN plugins, FieldChanged(n)
  PROVE  LifecycleInv'
<1>1. /\ UNCHANGED <<workspace, inUse, sessions, fields, applying, receiver, setting>>
      /\ told' = told \ {n}
  BY DEF FieldChanged
<1>2. plugins \in Seq(Instances) /\ \A m \in DOMAIN plugins : plugins[m] \in Instances
  BY Numbered DEF LifecycleInv, LifecycleTypeOK
<1>3. /\ plugins' \in Seq(Instances) /\ DOMAIN plugins' = DOMAIN plugins
      /\ \A m \in DOMAIN plugins :
           Raised(plugins[m], plugins'[m]) /\ (m # n => plugins'[m] = plugins[m])
      /\ \/ plugins'[n] = plugins[n]
            /\ (plugins[n].life # "live" \/ plugins[n].kind = "OrbbecDevice")
         \/ plugins'[n].apart \/ plugins'[n].chain = WorkerChain(plugins'[n].config.ops)
  <2>1. \A m : Raised(plugins[m], plugins[m])
    BY DEF Raised
  <2>2. CASE plugins' = plugins /\ (plugins[n].life # "live" \/ plugins[n].kind = "OrbbecDevice")
    BY <1>2, <2>1, <2>2
  <2>3. CASE plugins' = [plugins EXCEPT ![n] = Forwarded(@)]
    <3>1. PICK q : q = Forwarded(plugins[n])
      OBVIOUS
    <3>2. q \in Instances /\ Raised(plugins[n], q) /\ (q.apart \/ q.chain = WorkerChain(q.config.ops))
      BY <1>2, <3>1, Forwards DEF LifecycleInv, InstancesSound, SoundInstance
    <3>3. plugins' = [plugins EXCEPT ![n] = q]
      BY <2>3, <3>1
    <3>4. n \in 1..Len(plugins)
      BY <1>2, Numbered
    <3>5. plugins' \in Seq(Instances)
      BY <1>2, <3>2, <3>3, <3>4, ExceptSeq
    <3> QED
      BY <1>2, <2>1, <3>2, <3>3, <3>5
  <2> QED
    BY <2>2, <2>3 DEF FieldChanged
<1>4. HeldAreMade' /\ InstancesSound' /\ LiveAreHeld' /\ IdsDiffer' /\ FieldsLead' /\ HooksSet'
  BY <1>1, <1>3, TellingKeeps
<1>5. LifecycleTypeOK' /\ DevicesDiffer' /\ RestFollows'
  BY <1>1, <1>3 DEF LifecycleInv, LifecycleTypeOK, DevicesDiffer, RestFollows, WantedPort
<1>6. /\ Syncing' = Syncing /\ Held' = Held /\ At("stored")' = At("stored")
      /\ (\A m : Writing(m)' = Writing(m))
  BY <1>1 DEF Syncing, Held, At, Writing
<1>7. HeldMatch'
  <2>1. \A k \in DOMAIN Held : Held[k] \in DOMAIN plugins
    BY DEF LifecycleInv, HeldAreMade, Held
  <2>2. \A k \in DOMAIN Held : \A d, w :
          Matches(plugins[Held[k]], d, w) => Matches(plugins'[Held[k]], d, w)
    BY <1>3, <2>1 DEF Matches, Raised
  <2> QED
    BY <1>1, <1>6, <2>2 DEF LifecycleInv, HeldMatch
<1>8. SettingLeads'
  BY <1>1, <1>3 DEF LifecycleInv, SettingLeads, Raised
<1>9. FieldsSet'
  <2>1. \A k \in DOMAIN inUse : inUse[k] \in DOMAIN plugins
    BY DEF LifecycleInv, HeldAreMade
  <2> QED
    BY <1>1, <1>3, <2>1 DEF LifecycleInv, FieldsSet, Raised
<1>10. ChainsFollow'
  <2>1. ASSUME NEW m \in DOMAIN plugins, Lives(m)'
        PROVE  Follows(plugins'[m], m \in told', Writing(m) /\ setting.field # 0)
    <3>1. Lives(m) /\ Follows(plugins[m], m \in told, Writing(m) /\ setting.field # 0)
      BY <1>3, <2>1 DEF LifecycleInv, ChainsFollow, Lives, Raised
    <3>2. CASE m # n
      BY <1>1, <1>3, <3>1, <3>2 DEF Follows
    <3>3. CASE m = n
      BY <1>1, <1>3, <3>1, <3>3 DEF Follows, Lives
    <3> QED
      BY <3>2, <3>3
  <2> QED
    BY <1>1, <1>3, <1>6, <2>1 DEF ChainsFollow
<1> QED
  BY <1>4, <1>5, <1>7, <1>8, <1>9, <1>10 DEF LifecycleInv

-----------------------------------------------------------------------------
Replaces(c, d, new) ==
  /\ new \in WorkspaceConfig(c.sessions) /\ new.sessions = c.sessions /\ new.osc = c.osc
  /\ Len(new.devices) = Len(c.devices) /\ DOMAIN new.devices = DOMAIN c.devices
  /\ \A i \in DOMAIN c.devices :
       /\ new.devices[i] = IF c.devices[i].id = d.id THEN d ELSE c.devices[i]
       /\ new.devices[i].id = c.devices[i].id

(* A device's configuration in the workspace, replaced.                      *)
LEMMA Replaced ==
  ASSUME NEW c, c \in WorkspaceConfig(c.sessions), NEW d \in DeviceConfig
  PROVE  Replaces(c, d, WithDevice(c, d))
<1>0. PICK new : new = WithDevice(c, d)
  OBVIOUS
<1>1. PICK old \in Seq(DeviceConfig) : old = c.devices
  BY DEF WorkspaceConfig
<1>2. PICK n \in Nat : n = Len(old) /\ DOMAIN old = 1..n
  BY LenProperties
<1>3. PICK devices : devices = [i \in DOMAIN old |-> IF old[i].id = d.id THEN d ELSE old[i]]
  OBVIOUS
<1>4. \A i \in 1..n : devices[i] \in DeviceConfig
  BY <1>2, <1>3, ElementOfSeq
<1>5. devices \in [1..n -> DeviceConfig]
  BY <1>2, <1>3, <1>4
<1>6. devices \in Seq(DeviceConfig) /\ Len(devices) = n
  BY <1>5, SeqDef
<1>7. new = [c EXCEPT !.devices = devices]
  BY <1>0, <1>1, <1>3 DEF WithDevice
<1>8. new \in WorkspaceConfig(c.sessions) /\ new.sessions = c.sessions /\ new.osc = c.osc /\ new.devices = devices
  BY <1>6, <1>7 DEF WorkspaceConfig
<1> QED
  BY <1>0, <1>1, <1>2, <1>3, <1>6, <1>8 DEF Replaces

(* The instances that a listener finds in their places are live.             *)
LEMMA InPlaceLive ==
  ASSUME LifecycleInv, NEW m \in InPlace
  PROVE  m \in DOMAIN plugins /\ Lives(m) /\ (Syncing => ~Holds(m))
<1>1. CASE Syncing
  <2>1. m \in applying.old
    BY <1>1 DEF InPlace, Syncing
  <2> QED
    BY <1>1, <2>1 DEF LifecycleInv, HeldAreMade, LiveAreHeld
<1>2. CASE ~Syncing
  <2>1. PICK i \in DOMAIN inUse : inUse[i] = m
    BY <1>2 DEF InPlace, Syncing, ToSet
  <2>2. Holds(m) /\ m \in DOMAIN plugins
    BY <1>2, <2>1 DEF Holds, Held, LifecycleInv, HeldAreMade
  <2> QED
    BY <1>2, <2>2 DEF LifecycleInv, LiveAreHeld
<1> QED
  BY <1>1, <1>2

(* The listeners are notified: the workspace takes the configuration of the  *)
(* instance in place, and who was left out is apart.                         *)
LEMMA NotifyStep ==
  ASSUME LifecycleInv, NotifyField
  PROVE  LifecycleInv'
<1>1. /\ UNCHANGED <<inUse, sessions, fields, applying, receiver>> /\ setting' = <<>>
      /\ setting # <<>> /\ setting.at = "written" /\ setting \in SetTasks
  BY DEF NotifyField, LifecycleInv, LifecycleTypeOK
<1>2. PICK n : n = setting.plugin /\ n \in DOMAIN plugins /\ plugins[n].config.id = setting.id
  BY <1>1 DEF LifecycleInv, SettingLeads
<1>3. PICK found : found = {m \in InPlace : plugins[m].config.id = setting.id}
  OBVIOUS
<1>4. PICK heard \in BOOLEAN : heard <=> setting.id \in subscribed
  <2>1. (setting.id \in subscribed) \in BOOLEAN
    OBVIOUS
  <2> QED
    BY <2>1
<1>5. PICK everybody \in BOOLEAN :
        everybody <=> heard /\ n \in found /\ (setting.field = 0 \/ plugins[n].kind # "OrbbecDevice")
  <2>1. (heard /\ n \in found /\ (setting.field = 0 \/ plugins[n].kind # "OrbbecDevice")) \in BOOLEAN
    OBVIOUS
  <2> QED
    BY <2>1
<1>6. /\ heard /\ found # {} =>
           \E m \in found : workspace' = WithDevice(workspace, plugins[m].config)
      /\ ~(heard /\ found # {}) => workspace' = workspace
      /\ heard /\ setting.field # 0 => told' = told \cup {n}
      /\ ~(heard /\ setting.field # 0) => told' = told
  <2>1. /\ workspace' = IF heard /\ found # {}
                        THEN WithDevice(workspace, plugins[CHOOSE m \in found : TRUE].config)
                        ELSE workspace
        /\ told' = IF heard /\ setting.field # 0 THEN told \cup {n} ELSE told
    BY <1>2, <1>3, <1>4 DEF NotifyField
  <2>2. found # {} => (CHOOSE m \in found : TRUE) \in found
    OBVIOUS
  <2> QED
    BY <2>1, <2>2
<1>7. plugins' = [plugins EXCEPT ![n].apart = @ \/ ~everybody]
  BY <1>2, <1>3, <1>4, <1>5 DEF NotifyField
<1>8. plugins \in Seq(Instances) /\ \A m \in DOMAIN plugins : plugins[m] \in Instances
  BY Numbered DEF LifecycleInv, LifecycleTypeOK
<1>9. PICK p \in Instances : p = plugins[n]
  BY <1>2, <1>8
<1>10. /\ plugins' \in Seq(Instances) /\ DOMAIN plugins' = DOMAIN plugins
       /\ \A m \in DOMAIN plugins :
            /\ Raised(plugins[m], plugins'[m]) /\ plugins'[m].chain = plugins[m].chain
            /\ m # n => plugins'[m] = plugins[m]
       /\ ~everybody => plugins'[n].apart
  <2>1. PICK apart \in BOOLEAN : apart <=> (p.apart \/ ~everybody)
    <3>1. (p.apart \/ ~everybody) \in BOOLEAN
      OBVIOUS
    <3> QED
      BY <3>1
  <2>2. PICK q \in Instances : q = [p EXCEPT !.apart = apart]
    BY DEF Instances
  <2>3. q.apart = apart /\ q.chain = p.chain /\ Raised(p, q)
    BY <2>1, <2>2 DEF Instances, Raised
  <2>4. plugins' = [plugins EXCEPT ![n] = q]
    <3>1. (p.apart \/ ~everybody) = apart
      BY <2>1
    <3> QED
      BY <1>7, <1>9, <2>2, <3>1
  <2>5. n \in 1..Len(plugins)
    BY <1>2, <1>8, Numbered
  <2>6. plugins' \in Seq(Instances)
    BY <1>8, <2>2, <2>4, <2>5, ExceptSeq
  <2>7. \A m : Raised(plugins[m], plugins[m])
    BY DEF Raised
  <2> QED
    BY <1>2, <1>8, <1>9, <2>1, <2>3, <2>4, <2>6, <2>7
<1>11. HeldAreMade' /\ InstancesSound' /\ LiveAreHeld' /\ IdsDiffer' /\ FieldsLead' /\ HooksSet'
  BY <1>1, <1>10, TellingKeeps
<1>12. /\ Syncing' = Syncing /\ Held' = Held /\ At("stored")' = At("stored")
       /\ (\A m : Writing(m) <=> m = n) /\ (\A m : ~Writing(m)')
  BY <1>1, <1>2 DEF Syncing, Held, At, Writing
<1>13. PICK dev \in Seq(DeviceConfig) : dev = workspace.devices
  BY DEF LifecycleInv, LifecycleTypeOK, WorkspaceConfig
<1>14. /\ workspace' \in WorkspaceConfig(workspace.sessions)
       /\ workspace'.sessions = workspace.sessions /\ workspace'.osc = workspace.osc
       /\ Len(workspace'.devices) = Len(dev) /\ DOMAIN workspace'.devices = DOMAIN dev
       /\ \A i \in DOMAIN dev : workspace'.devices[i].id = dev[i].id
       /\ \/ workspace' = workspace /\ ~(heard /\ found # {})
          \/ \E m \in found : \A i \in DOMAIN dev :
               workspace'.devices[i] = IF dev[i].id = plugins[m].config.id THEN plugins[m].config ELSE dev[i]
  <2>1. workspace \in WorkspaceConfig(workspace.sessions)
    BY DEF LifecycleInv, LifecycleTypeOK
  <2>2. CASE ~(heard /\ found # {})
    BY <1>6, <1>13, <2>1, <2>2
  <2>3. CASE heard /\ found # {}
    <3>1. PICK m \in found : workspace' = WithDevice(workspace, plugins[m].config)
      BY <1>6, <2>3
    <3>2. plugins[m].config \in DeviceConfig
      BY <1>3, <1>8, InPlaceLive DEF Instances
    <3>3. PICK new : new = WithDevice(workspace, plugins[m].config)
      OBVIOUS
    <3>4. /\ new \in WorkspaceConfig(workspace.sessions) /\ new.sessions = workspace.sessions
          /\ new.osc = workspace.osc
          /\ Len(new.devices) = Len(dev) /\ DOMAIN new.devices = DOMAIN dev
          /\ \A i \in DOMAIN dev :
               /\ new.devices[i] = IF dev[i].id = plugins[m].config.id THEN plugins[m].config ELSE dev[i]
               /\ new.devices[i].id = dev[i].id
      <4>1. PICK old : old = plugins[m].config /\ old \in DeviceConfig
        BY <3>2
      <4>2. PICK c : c = workspace /\ c \in WorkspaceConfig(c.sessions)
        BY <2>1
      <4>3. new = WithDevice(c, old)
        BY <3>3, <4>1, <4>2
      <4>4. Replaces(c, old, new)
        BY <4>1, <4>2, <4>3, Replaced
      <4> QED
        BY <1>13, <4>1, <4>2, <4>4 DEF Replaces
    <3> QED
      BY <3>1, <3>3, <3>4
  <2> QED
    BY <2>2, <2>3
<1>15. LifecycleTypeOK' /\ DevicesDiffer' /\ RestFollows' /\ SettingLeads'
  <2>1. LifecycleTypeOK'
    BY <1>1, <1>10, <1>14 DEF LifecycleInv, LifecycleTypeOK
  <2>2. DevicesDiffer'
    BY <1>13, <1>14 DEF LifecycleInv, DevicesDiffer
  <2>3. RestFollows'
    BY <1>1, <1>14 DEF LifecycleInv, RestFollows, WantedPort
  <2> QED
    BY <1>1, <2>1, <2>2, <2>3 DEF SettingLeads
<1>16. FieldsSet'
  <2>1. \A k \in DOMAIN inUse : inUse[k] \in DOMAIN plugins
    BY DEF LifecycleInv, HeldAreMade
  <2>2. {workspace'.devices[i].id : i \in DOMAIN workspace'.devices} = {dev[i].id : i \in DOMAIN dev}
    BY <1>14
  <2> QED
    <3>1. \A k \in DOMAIN inUse : plugins'[inUse[k]].config = plugins[inUse[k]].config
      BY <1>10, <2>1 DEF Raised
    <3>2. FieldsSet /\ fields' = fields /\ inUse' = inUse /\ applying' = applying
      BY <1>1 DEF LifecycleInv
    <3> QED
      BY <1>13, <2>2, <3>1, <3>2 DEF FieldsSet
<1>17. HeldMatch'
  <2>1. SUFFICES ASSUME ~At("stored") PROVE HeldMatch'
    BY <1>12 DEF HeldMatch
  <2>2. /\ Len(Held) + Len(applying.todo) = Len(dev)
        /\ \A i \in DOMAIN Held : Matches(plugins[Held[i]], dev[i], Writing(Held[i]))
        /\ \A j \in DOMAIN applying.todo : applying.todo[j].id = dev[Len(Held) + j].id
    BY <1>13, <2>1 DEF LifecycleInv, HeldMatch
  <2>3. PICK h \in Nat, t \in Nat :
          /\ h = Len(Held) /\ DOMAIN Held = 1..h /\ t = Len(applying.todo) /\ DOMAIN applying.todo = 1..t
    <3>1. Held \in Seq(Nat) /\ applying.todo \in Seq(DeviceConfig)
      BY DEF LifecycleInv, LifecycleTypeOK, Applications, Held
    <3> QED
      BY <3>1, LenProperties
  <2>4. DOMAIN dev = 1..(h + t)
    BY <1>13, <2>2, <2>3, LenProperties
  <2>5. ASSUME NEW i \in DOMAIN Held
        PROVE  Matches(plugins'[Held[i]], workspace'.devices[i], FALSE)
    <3>1. PICK k : k = Held[i]
      OBVIOUS
    <3>2. k \in DOMAIN plugins /\ i \in DOMAIN dev /\ Holds(k) /\ Lives(k)
      <4>1. k \in DOMAIN plugins /\ Holds(k)
        BY <3>1 DEF LifecycleInv, HeldAreMade, Held, Holds
      <4>2. i \in DOMAIN dev
        BY <2>3, <2>4
      <4> QED
        BY <4>1, <4>2 DEF LifecycleInv, LiveAreHeld
    <3>3. Matches(plugins[k], dev[i], k = n) /\ Raised(plugins[k], plugins'[k])
      <4>1. Matches(plugins[k], dev[i], Writing(k)) /\ (Writing(k) <=> k = n)
        BY <1>12, <2>2, <3>1
      <4> QED
        BY <1>10, <3>2, <4>1 DEF Matches
    <3>4. CASE workspace' = workspace /\ ~(heard /\ found # {})
      BY <1>5, <1>10, <1>13, <3>1, <3>3, <3>4 DEF Matches, Raised
    <3>5. ASSUME NEW m \in found,
                 workspace'.devices[i] = IF dev[i].id = plugins[m].config.id
                                         THEN plugins[m].config ELSE dev[i]
          PROVE  Matches(plugins'[k], workspace'.devices[i], FALSE)
      <4>1. m \in DOMAIN plugins /\ Lives(m) /\ (Syncing => ~Holds(m)) /\ plugins[m].config.id = setting.id
        BY <1>3, InPlaceLive
      <4>2. CASE dev[i].id = plugins[m].config.id
        <5>1. plugins[k].config.id = plugins[m].config.id
          BY <3>3, <4>2 DEF Matches
        <5>2. k = m
          BY <3>2, <4>1, <5>1 DEF LifecycleInv, IdsDiffer
        <5> QED
          BY <3>3, <3>5, <4>2, <5>2 DEF Matches, Raised
      <4>3. CASE dev[i].id # plugins[m].config.id
        <5>1. k # n
          BY <1>2, <3>3, <4>1, <4>3 DEF Matches
        <5> QED
          BY <3>3, <3>5, <4>3, <5>1 DEF Matches, Raised
      <4> QED
        BY <4>2, <4>3
    <3> QED
      BY <1>14, <3>1, <3>2, <3>4, <3>5
  <2>6. ASSUME NEW j \in DOMAIN applying.todo
        PROVE  applying.todo[j].id = workspace'.devices[Len(Held) + j].id
    <3>1. Len(Held) + j \in DOMAIN dev
      BY <2>3, <2>4
    <3> QED
      BY <1>14, <2>2, <3>1
  <2> QED
    BY <1>1, <1>12, <1>14, <2>2, <2>5, <2>6 DEF HeldMatch, Matches
<1>18. ChainsFollow'
  <2>1. ASSUME NEW k \in DOMAIN plugins, Lives(k)'
        PROVE  Follows(plugins'[k], k \in told', FALSE)
    <3>1. Lives(k) /\ Follows(plugins[k], k \in told, k = n /\ setting.field # 0)
      BY <1>10, <1>12, <2>1 DEF LifecycleInv, ChainsFollow, Lives, Raised
    <3>2. CASE k # n
      BY <1>6, <1>10, <3>1, <3>2 DEF Follows
    <3>3. CASE k = n /\ ~everybody
      BY <1>10, <3>3 DEF Follows
    <3>4. CASE k = n /\ everybody
      BY <1>5, <1>6, <1>10, <3>1, <3>4 DEF Follows, Raised
    <3> QED
      BY <3>2, <3>3, <3>4
  <2> QED
    BY <1>10, <1>12, <2>1 DEF ChainsFollow
<1> QED
  BY <1>11, <1>15, <1>16, <1>17, <1>18 DEF LifecycleInv

-----------------------------------------------------------------------------
(* Once the instances are in use, the rest of an apply leaves them there.    *)
LEMMA ApplyGoesOn ==
  ASSUME LifecycleInv, ~Syncing, ~At("stored"),
         plugins' \in Seq(Instances), DOMAIN plugins' = DOMAIN plugins,
         \A n \in DOMAIN plugins : Untouched(plugins[n], plugins'[n]),
         UNCHANGED <<workspace, inUse, setting, told>>,
         NEW at \in {"sessions", "clear", "register", "osc", "hooks", "idle"},
         applying' = [NotApplying EXCEPT !.at = at]
  PROVE  /\ LifecycleTypeOK' /\ HeldAreMade' /\ InstancesSound' /\ LiveAreHeld' /\ IdsDiffer'
         /\ DevicesDiffer' /\ HeldMatch' /\ SettingLeads' /\ ChainsFollow'
<1>1. /\ applying' \in Applications /\ applying'.at = at /\ applying'.todo = <<>>
      /\ applying'.old = {} /\ applying'.made = <<>>
  BY EmptySeq DEF NotApplying, Applications, Places
<1>2. /\ ~Syncing' /\ Held = inUse /\ Held' = inUse /\ ~At("detaching") /\ ~At("detaching")'
      /\ ~At("stored")'
      /\ (\A n : ~Leaving(n) /\ ~Leaving(n)' /\ Holds(n)' = Holds(n) /\ Writing(n)' = Writing(n))
  BY <1>1 DEF Syncing, Held, At, Leaving, Holds, Writing
<1>3. LifecycleTypeOK' /\ DevicesDiffer'
  BY <1>1 DEF LifecycleInv, LifecycleTypeOK, DevicesDiffer
<1>4. HeldAreMade'
  BY <1>1, <1>2, EmptySeq DEF LifecycleInv, HeldAreMade
<1>5. InstancesSound'
  <2>1. ASSUME NEW n \in DOMAIN plugins PROVE SoundInstance(plugins'[n], FALSE)
    BY <1>2, <2>1 DEF LifecycleInv, InstancesSound, SoundInstance, Untouched
  <2> QED
    BY <1>2, <2>1 DEF InstancesSound, SoundInstance
<1>6. LiveAreHeld' /\ IdsDiffer'
  <2>1. \A n \in DOMAIN plugins : Lives(n)' = Lives(n) /\ plugins'[n].config = plugins[n].config
    BY DEF Lives, Untouched
  <2> QED
    BY <1>1, <1>2, <2>1 DEF LifecycleInv, LiveAreHeld, IdsDiffer
<1>7. HeldMatch'
  <2>1. \A i \in DOMAIN inUse : inUse[i] \in DOMAIN plugins
    BY DEF LifecycleInv, HeldAreMade
  <2>2. \A i \in DOMAIN inUse : \A d, w :
          Matches(plugins[inUse[i]], d, w) => Matches(plugins'[inUse[i]], d, w)
    BY <2>1 DEF Matches, Untouched
  <2>3. applying.todo = <<>>
    BY DEF LifecycleInv, HeldAreMade
  <2>4. HeldMatch /\ ~At("stored") /\ Held' = Held /\ applying'.todo = applying.todo
    BY <1>1, <1>2, <2>3 DEF LifecycleInv
  <2>5. \A i \in DOMAIN Held : \A d : Matches(plugins[Held[i]], d, Writing(Held[i]))
                                   => Matches(plugins'[Held[i]], d, Writing(Held[i])')
    BY <1>1, <1>2, <2>2
  <2> QED
    BY <2>4, <2>5, StillMatching
<1>8. SettingLeads'
  BY DEF LifecycleInv, SettingLeads, Untouched
<1>9. ChainsFollow'
  BY <1>2 DEF LifecycleInv, ChainsFollow, Follows, Lives, Untouched
<1> QED
  BY <1>3, <1>4, <1>5, <1>6, <1>7, <1>8, <1>9

(* The devices in use have ids of their own, and only they have them.        *)
LEMMA InUseIds ==
  ASSUME LifecycleInv, ~Syncing, ~At("stored")
  PROVE  /\ Len(inUse) = Len(workspace.devices) /\ DOMAIN inUse = DOMAIN workspace.devices
         /\ \A i \in DOMAIN inUse :
              /\ inUse[i] \in DOMAIN plugins /\ Lives(inUse[i])
              /\ Matches(plugins[inUse[i]], workspace.devices[i], Writing(inUse[i]))
         /\ \A i, j \in DOMAIN inUse :
              plugins[inUse[i]].config.id = plugins[inUse[j]].config.id => inUse[i] = inUse[j]
<1>1. Held = inUse /\ applying.todo = <<>> /\ Len(<<>>) = 0
  BY EmptySeq DEF LifecycleInv, HeldAreMade, Held
<1>2. PICK h \in Nat, d \in Nat :
        /\ h = Len(inUse) /\ DOMAIN inUse = 1..h
        /\ d = Len(workspace.devices) /\ DOMAIN workspace.devices = 1..d
  BY LenProperties DEF LifecycleInv, LifecycleTypeOK, WorkspaceConfig
<1>3. h = d
  <2>1. h + 0 = d
    BY <1>1, <1>2 DEF LifecycleInv, HeldMatch
  <2> QED
    BY <2>1
<1>4. \A i \in DOMAIN inUse :
        /\ inUse[i] \in DOMAIN plugins /\ Lives(inUse[i])
        /\ Matches(plugins[inUse[i]], workspace.devices[i], Writing(inUse[i]))
  BY <1>1 DEF LifecycleInv, HeldMatch, HeldAreMade, LiveAreHeld, Holds
<1> QED
  BY <1>2, <1>3, <1>4 DEF LifecycleInv, IdsDiffer

(* Sessions, registry, receiver.                                             *)
LEMMA AfterDevices ==
  ASSUME LifecycleInv,
         SyncSessions \/ ClearRegistry \/ RegisterDevices \/ \E starts \in BOOLEAN : Reconfigure(starts)
  PROVE  LifecycleInv'
<1>1. /\ ~Syncing /\ ~At("stored") /\ ~At("idle")
      /\ UNCHANGED <<workspace, plugins, inUse, setting, told>>
  BY DEF SyncSessions, ClearRegistry, RegisterDevices, Reconfigure, Syncing, At, oscVars
<1>2. PICK at \in {"clear", "register", "osc", "hooks"} : applying' = [NotApplying EXCEPT !.at = at]
  BY DEF SyncSessions, ClearRegistry, RegisterDevices, Reconfigure
<1>3. applying'.at = at
  BY <1>2 DEF NotApplying
<1>4. /\ LifecycleTypeOK' /\ HeldAreMade' /\ InstancesSound' /\ LiveAreHeld' /\ IdsDiffer'
      /\ DevicesDiffer' /\ HeldMatch' /\ SettingLeads' /\ ChainsFollow'
  <2>1. \A n \in DOMAIN plugins : Untouched(plugins[n], plugins'[n])
    BY <1>1 DEF LifecycleInv, InstancesSound, SoundInstance, Untouched
  <2>2. plugins' \in Seq(Instances) /\ DOMAIN plugins' = DOMAIN plugins
    BY <1>1 DEF LifecycleInv, LifecycleTypeOK
  <2> QED
    BY <1>1, <1>2, <2>1, <2>2, ApplyGoesOn
<1>5. HooksSet'
  BY <1>2, <1>3 DEF HooksSet, At
<1>6. CASE SyncSessions
  <2>1. at = "clear" /\ sessions' = workspace.sessions /\ UNCHANGED <<fields, receiver>>
    BY <1>3, <1>6 DEF SyncSessions, NotApplying, oscVars
  <2>2. FieldsLead' /\ FieldsSet' /\ RestFollows'
    BY <1>1, <1>3, <2>1 DEF LifecycleInv, FieldsLead, FieldsSet, RestFollows
  <2> QED
    BY <1>4, <1>5, <2>2 DEF LifecycleInv
<1>7. CASE ClearRegistry
  <2>1. /\ At("clear") /\ at = "register" /\ fields' = <<>> /\ UNCHANGED <<sessions, receiver>>
    BY <1>3, <1>7 DEF ClearRegistry, NotApplying, oscVars
  <2>2. FieldsLead' /\ FieldsSet' /\ RestFollows'
    BY <1>1, <1>3, <2>1 DEF LifecycleInv, FieldsLead, FieldsSet, RestFollows, At
  <2> QED
    BY <1>4, <1>5, <2>2 DEF LifecycleInv
<1>8. CASE RegisterDevices
  <2>1. /\ At("register") /\ at = "osc" /\ UNCHANGED <<sessions, receiver>>
        /\ fields' = [id \in {plugins[n].config.id : n \in ToSet(inUse)} |->
                        CHOOSE n \in ToSet(inUse) : plugins[n].config.id = id]
    BY <1>3, <1>8 DEF RegisterDevices, NotApplying, oscVars
  <2>2. /\ DOMAIN inUse = DOMAIN workspace.devices
        /\ \A i \in DOMAIN inUse :
             inUse[i] \in DOMAIN plugins /\ plugins[inUse[i]].config.id = workspace.devices[i].id
        /\ \A i, j \in DOMAIN inUse :
             plugins[inUse[i]].config.id = plugins[inUse[j]].config.id => inUse[i] = inUse[j]
    BY <1>1, InUseIds DEF Matches
  <2>3. DOMAIN fields' = {workspace.devices[i].id : i \in DOMAIN workspace.devices}
    <3>1. {plugins[n].config.id : n \in ToSet(inUse)} = {plugins[inUse[i]].config.id : i \in DOMAIN inUse}
      BY DEF ToSet
    <3>2. {plugins[inUse[i]].config.id : i \in DOMAIN inUse} = {workspace.devices[i].id : i \in DOMAIN inUse}
      BY <2>2
    <3>3. DOMAIN fields' = {plugins[n].config.id : n \in ToSet(inUse)}
      BY <2>1
    <3> QED
      BY <2>2, <3>1, <3>2, <3>3
  <2>4. ASSUME NEW id \in DOMAIN fields'
        PROVE  \E i \in DOMAIN inUse : fields'[id] = inUse[i] /\ plugins[inUse[i]].config.id = id
    <3>1. \E n \in ToSet(inUse) : plugins[n].config.id = id
      BY <2>1
    <3>2. fields'[id] \in ToSet(inUse) /\ plugins[fields'[id]].config.id = id
      BY <2>1, <3>1
    <3> QED
      BY <3>2 DEF ToSet
  <2>5. FieldsLead'
    BY <1>1, <2>2, <2>4 DEF FieldsLead
  <2>6. ASSUME NEW k \in DOMAIN inUse PROVE fields'[plugins[inUse[k]].config.id] = inUse[k]
    <3>1. plugins[inUse[k]].config.id \in DOMAIN fields'
      BY <2>2, <2>3
    <3> QED
      BY <2>2, <2>4, <3>1
  <2>7. FieldsSet'
    BY <1>1, <2>3, <2>6 DEF FieldsSet
  <2>8. RestFollows'
    BY <1>1, <1>3, <2>1 DEF LifecycleInv, RestFollows, At
  <2> QED
    BY <1>4, <1>5, <2>5, <2>7, <2>8 DEF LifecycleInv
<1>9. CASE \E starts \in BOOLEAN : Reconfigure(starts)
  <2>1. /\ At("osc") /\ at = "hooks" /\ UNCHANGED <<sessions, fields>>
        /\ receiver'.port \in {0, WantedPort}
    BY <1>3, <1>9 DEF Reconfigure, NotApplying
  <2>2. FieldsLead' /\ FieldsSet' /\ RestFollows'
    BY <1>1, <1>3, <2>1 DEF LifecycleInv, FieldsLead, FieldsSet, RestFollows, At, WantedPort
  <2> QED
    BY <1>4, <1>5, <2>2 DEF LifecycleInv
<1> QED
  BY <1>6, <1>7, <1>8, <1>9

(* The callbacks are hooked where the instances are in use.                  *)
LEMMA HookStep ==
  ASSUME LifecycleInv, HookCallbacks
  PROVE  LifecycleInv'
<1>1. /\ At("hooks") /\ ~Syncing /\ ~At("stored")
      /\ UNCHANGED <<workspace, inUse, sessions, fields, setting, told, receiver>>
      /\ applying' = NotApplying
      /\ plugins' = [n \in DOMAIN plugins |-> [plugins[n] EXCEPT !.hooked = @ \/ n \in ToSet(inUse)]]
  BY DEF HookCallbacks, Syncing, At
<1>2. applying' = [NotApplying EXCEPT !.at = "idle"] /\ applying'.at = "idle"
  BY <1>1 DEF NotApplying
<1>3. plugins \in Seq(Instances) /\ \A n \in DOMAIN plugins : plugins[n] \in Instances
  BY Numbered DEF LifecycleInv, LifecycleTypeOK
<1>4. \A n \in ToSet(inUse) : n \in DOMAIN plugins /\ Lives(n)
  BY <1>1, InUseIds DEF ToSet
<1>5. ASSUME NEW n \in DOMAIN plugins
      PROVE  /\ plugins'[n] \in Instances /\ Untouched(plugins[n], plugins'[n])
             /\ n \in ToSet(inUse) => plugins'[n].hooked
  <2>1. PICK p \in Instances : p = plugins[n]
    BY <1>3
  <2>2. PICK hooked \in BOOLEAN : hooked <=> (p.hooked \/ n \in ToSet(inUse))
    <3>1. (p.hooked \/ n \in ToSet(inUse)) \in BOOLEAN
      OBVIOUS
    <3> QED
      BY <3>1
  <2>3. plugins'[n] = [p EXCEPT !.hooked = hooked]
    <3>1. (p.hooked \/ n \in ToSet(inUse)) = hooked
      BY <2>2
    <3> QED
      BY <1>1, <2>1, <3>1
  <2>4. SoundInstance(p, Leaving(n)) /\ (n \in ToSet(inUse) => p.life = "live")
    BY <1>4, <2>1 DEF LifecycleInv, InstancesSound, Lives
  <2> QED
    BY <2>1, <2>2, <2>3, <2>4 DEF Instances, Untouched, SoundInstance
<1>6. plugins' \in Seq(Instances) /\ DOMAIN plugins' = DOMAIN plugins
  <2>1. PICK l \in Nat : DOMAIN plugins = 1..l
    BY <1>3, LenProperties
  <2>2. plugins' \in [1..l -> Instances]
    BY <1>1, <1>5, <2>1
  <2> QED
    BY <1>1, <2>2, SeqDef
<1>7. /\ LifecycleTypeOK' /\ HeldAreMade' /\ InstancesSound' /\ LiveAreHeld' /\ IdsDiffer'
      /\ DevicesDiffer' /\ HeldMatch' /\ SettingLeads' /\ ChainsFollow'
  BY <1>1, <1>2, <1>5, <1>6, ApplyGoesOn
<1>8. HooksSet'
  <2>1. \A i \in DOMAIN inUse : inUse[i] \in ToSet(inUse)
    BY DEF ToSet
  <2> QED
    BY <1>1, <1>4, <1>5, <2>1 DEF HooksSet
<1>9. FieldsLead' /\ FieldsSet' /\ RestFollows'
  <2>1. \A n \in DOMAIN plugins : plugins'[n].config = plugins[n].config
    BY <1>5 DEF Untouched
  <2>2. \A i \in DOMAIN inUse : inUse[i] \in DOMAIN plugins
    BY DEF LifecycleInv, HeldAreMade
  <2> QED
    BY <1>1, <1>2, <1>6, <2>1, <2>2 DEF LifecycleInv, FieldsLead, FieldsSet, RestFollows, At, WantedPort
<1> QED
  BY <1>7, <1>8, <1>9 DEF LifecycleInv

-----------------------------------------------------------------------------
(* A configuration is stored: nothing is in use any less for that.           *)
LEMMA StoreStep ==
  ASSUME LifecycleInv, NEW c \in Configurations, StoreConfiguration(c)
  PROVE  LifecycleInv'
<1>1. /\ At("idle") /\ ~Syncing /\ ~At("stored") /\ workspace' = c
      /\ UNCHANGED <<plugins, inUse, sessions, fields, setting, told, receiver>>
  BY DEF StoreConfiguration, At, Syncing, oscVars
<1>2. PICK at \in {"stored", "sessions"} :
        /\ applying' = [NotApplying EXCEPT !.at = at]
        /\ at = "sessions" => c.devices = workspace.devices
  BY DEF StoreConfiguration
<1>3. /\ applying' \in Applications /\ applying'.at = at /\ applying'.todo = <<>>
      /\ applying'.old = {} /\ applying'.made = <<>>
  BY <1>2, EmptySeq DEF NotApplying, Applications, Places
<1>4. c \in WorkspaceConfig(c.sessions) /\ IsInjective([i \in DOMAIN c.devices |-> c.devices[i].id])
  BY LifecycleAssumption DEF WorkspaceConfig
<1>5. /\ ~Syncing' /\ Held = inUse /\ Held' = inUse /\ ~At("detaching") /\ ~At("detaching")'
      /\ (\A n : ~Leaving(n) /\ ~Leaving(n)' /\ Holds(n)' = Holds(n) /\ Writing(n)' = Writing(n)
                 /\ Lives(n)' = Lives(n))
  BY <1>1, <1>2, <1>3 DEF Syncing, Held, At, Leaving, Holds, Writing, Lives
<1>6. LifecycleTypeOK' /\ HeldAreMade'
  BY <1>1, <1>3, <1>4, <1>5, EmptySeq DEF LifecycleInv, LifecycleTypeOK, HeldAreMade
<1>7. InstancesSound' /\ LiveAreHeld' /\ IdsDiffer' /\ SettingLeads' /\ FieldsLead' /\ ChainsFollow'
  BY <1>1, <1>3, <1>5 DEF LifecycleInv, InstancesSound, SoundInstance, LiveAreHeld, IdsDiffer,
     SettingLeads, FieldsLead, ChainsFollow
<1>8. DevicesDiffer'
  BY <1>1, <1>4 DEF DevicesDiffer, IsInjective
<1>9. HeldMatch'
  <2>1. CASE at = "stored"
    BY <1>3, <2>1 DEF HeldMatch, At
  <2>2. CASE at = "sessions"
    <3>1. applying.todo = <<>> /\ workspace'.devices = workspace.devices
      BY <1>1, <1>2, <2>2 DEF LifecycleInv, HeldAreMade
    <3> QED
      BY <1>1, <1>3, <1>5, <3>1 DEF LifecycleInv, HeldMatch
  <2> QED
    BY <2>1, <2>2
<1>10. FieldsSet' /\ HooksSet' /\ RestFollows'
  BY <1>2, <1>3 DEF FieldsSet, HooksSet, RestFollows, At
<1> QED
  BY <1>6, <1>7, <1>8, <1>9, <1>10 DEF LifecycleInv

(* The instances in use become the old ones, and all devices are to do.      *)
LEMMA BeginStep ==
  ASSUME LifecycleInv, BeginSync
  PROVE  LifecycleInv'
<1>1. /\ At("stored") /\ ~Syncing /\ ~At("detaching")
      /\ UNCHANGED <<workspace, plugins, inUse, sessions, fields, setting, told, receiver>>
  BY DEF BeginSync, At, Syncing, oscVars
<1>2. /\ applying'.at = "devices" /\ applying'.todo = workspace.devices /\ applying'.old = ToSet(inUse)
      /\ applying'.made = <<>> /\ applying'.out = 0
      /\ applying' = [at |-> "devices", todo |-> workspace.devices, old |-> ToSet(inUse),
                      made |-> <<>>, out |-> 0]
  BY DEF BeginSync, NotApplying
<1>3. \A n : n \in ToSet(inUse) <=> \E i \in DOMAIN inUse : inUse[i] = n
  BY DEF ToSet
<1>4. applying' \in Applications /\ \A n \in ToSet(inUse) : n \in DOMAIN plugins
  <2>1. \A i \in DOMAIN inUse : inUse[i] \in Nat /\ inUse[i] \in DOMAIN plugins
    BY Numbered DEF LifecycleInv, LifecycleTypeOK, HeldAreMade
  <2>2. workspace.devices \in Seq(DeviceConfig)
    BY DEF LifecycleInv, LifecycleTypeOK, WorkspaceConfig
  <2> QED
    BY <1>2, <1>3, <2>1, <2>2, EmptySeq DEF Applications, Places
<1>5. Len(<<>>) = 0 /\ DOMAIN <<>> = {}
  BY EmptySeq
<1>6. /\ Syncing' /\ Held = inUse /\ Held' = <<>> /\ ~At("detaching")' /\ At("devices")'
      /\ ~At("stored")' /\ ~At("idle")'
      /\ (\A n : ~Leaving(n) /\ ~Leaving(n)' /\ ~Holds(n)' /\ Writing(n)' = Writing(n)
                 /\ Lives(n)' = Lives(n) /\ (Holds(n) <=> n \in ToSet(inUse)))
  BY <1>1, <1>2, <1>3, <1>5 DEF Syncing, Held, At, Leaving, Holds, Writing, Lives
<1>7. LifecycleTypeOK' /\ HeldAreMade'
  BY <1>1, <1>2, <1>4, <1>5, <1>6 DEF LifecycleInv, LifecycleTypeOK, HeldAreMade
<1>8. InstancesSound' /\ IdsDiffer' /\ SettingLeads' /\ FieldsLead' /\ ChainsFollow' /\ DevicesDiffer'
  BY <1>1, <1>6 DEF LifecycleInv, InstancesSound, SoundInstance, IdsDiffer,
     SettingLeads, FieldsLead, ChainsFollow, DevicesDiffer
<1>9. LiveAreHeld'
  BY <1>1, <1>2, <1>6 DEF LifecycleInv, LiveAreHeld
<1>10. HeldMatch'
  <2>1. PICK d \in Nat : d = Len(workspace.devices) /\ DOMAIN workspace.devices = 1..d
    BY LenProperties DEF LifecycleInv, LifecycleTypeOK, WorkspaceConfig
  <2>2. 0 + d = d /\ \A j \in 1..d : 0 + j = j
    OBVIOUS
  <2> QED
    BY <1>1, <1>2, <1>5, <1>6, <2>1, <2>2 DEF HeldMatch
<1>11. FieldsSet' /\ HooksSet' /\ RestFollows'
  BY <1>2, <1>6 DEF FieldsSet, HooksSet, RestFollows
<1> QED
  BY <1>7, <1>8, <1>9, <1>10, <1>11 DEF LifecycleInv

(* The instances made are in use.                                            *)
LEMMA ReplaceStep ==
  ASSUME LifecycleInv, ReplaceDevices
  PROVE  LifecycleInv'
<1>1. /\ At("devices") /\ Syncing /\ ~At("detaching") /\ ~At("stored")
      /\ applying.todo = <<>> /\ applying.old = {} /\ inUse' = applying.made
      /\ UNCHANGED <<workspace, plugins, sessions, fields, setting, told, receiver>>
      /\ applying' = [NotApplying EXCEPT !.at = "sessions"]
  BY DEF ReplaceDevices, At, Syncing, oscVars
<1>2. /\ applying' \in Applications /\ applying'.at = "sessions" /\ applying'.todo = <<>>
      /\ applying'.old = {} /\ applying'.made = <<>>
  BY <1>1, EmptySeq DEF NotApplying, Applications, Places
<1>3. /\ ~Syncing' /\ Held' = Held /\ Held = applying.made /\ ~At("detaching")' /\ ~At("stored")'
      /\ ~At("idle")'
      /\ (\A n : ~Leaving(n) /\ ~Leaving(n)' /\ Holds(n)' = Holds(n) /\ Writing(n)' = Writing(n)
                 /\ Lives(n)' = Lives(n))
  BY <1>1, <1>2 DEF Syncing, Held, At, Leaving, Holds, Writing, Lives
<1>4. LifecycleTypeOK' /\ HeldAreMade'
  <2>1. inUse' \in Seq(Nat)
    BY <1>1 DEF LifecycleInv, LifecycleTypeOK, Applications
  <2> QED
    BY <1>1, <1>2, <1>3, <2>1, EmptySeq DEF LifecycleInv, LifecycleTypeOK, HeldAreMade
<1>5. InstancesSound' /\ IdsDiffer' /\ SettingLeads' /\ FieldsLead' /\ ChainsFollow' /\ DevicesDiffer'
  BY <1>1, <1>3 DEF LifecycleInv, InstancesSound, SoundInstance, IdsDiffer,
     SettingLeads, FieldsLead, ChainsFollow, DevicesDiffer
<1>6. LiveAreHeld' /\ HeldMatch'
  <2>1. LiveAreHeld'
    BY <1>1, <1>2, <1>3 DEF LifecycleInv, LiveAreHeld
  <2>2. HeldMatch /\ applying'.todo = applying.todo
    BY <1>1, <1>2 DEF LifecycleInv
  <2>3. \A i \in DOMAIN Held : \A d : Matches(plugins[Held[i]], d, Writing(Held[i]))
                                   => Matches(plugins'[Held[i]], d, Writing(Held[i])')
    BY <1>1, <1>3
  <2> QED
    BY <1>1, <1>3, <2>1, <2>2, <2>3, StillMatching
<1>7. FieldsSet' /\ HooksSet' /\ RestFollows'
  BY <1>2, <1>3 DEF FieldsSet, HooksSet, RestFollows
<1> QED
  BY <1>4, <1>5, <1>6, <1>7 DEF LifecycleInv

(* An instance is detached, and then disposed of.                            *)
LEMMA BeginDisposeStep ==
  ASSUME LifecycleInv, NEW n \in DOMAIN plugins, BeginDispose(n)
  PROVE  LifecycleInv'
<1>1. /\ At("devices") /\ Syncing /\ ~At("detaching") /\ ~At("stored") /\ n \in applying.old
      /\ plugins' = [plugins EXCEPT ![n].detached = TRUE]
      /\ applying' = [applying EXCEPT !.at = "detaching", !.old = @ \ {n}, !.out = n]
      /\ UNCHANGED <<workspace, inUse, sessions, fields, setting, told, receiver>>
  BY DEF BeginDispose, Existing, At, Syncing, oscVars
<1>2. plugins \in Seq(Instances) /\ n \in Nat /\ \A m \in DOMAIN plugins : plugins[m] \in Instances
  BY Numbered DEF LifecycleInv, LifecycleTypeOK
<1>3. /\ applying' \in Applications /\ applying'.at = "detaching" /\ applying'.todo = applying.todo
      /\ applying'.old = applying.old \ {n} /\ applying'.made = applying.made /\ applying'.out = n
  <2>1. applying \in Applications
    BY DEF LifecycleInv, LifecycleTypeOK
  <2>2. PICK a : a = [applying EXCEPT !.at = "detaching"]
    OBVIOUS
  <2>3. PICK b : b = [a EXCEPT !.old = applying.old \ {n}]
    OBVIOUS
  <2>4. a \in Applications /\ b \in Applications
    BY <2>1, <2>2, <2>3 DEF Applications, Places
  <2>5. applying' = [b EXCEPT !.out = n]
    BY <1>1, <2>1, <2>2, <2>3 DEF Applications
  <2> QED
    BY <1>2, <2>1, <2>2, <2>3, <2>4, <2>5 DEF Applications
<1>4. PICK p \in Instances : p = plugins[n]
  BY <1>2
<1>5. /\ plugins' \in Seq(Instances) /\ DOMAIN plugins' = DOMAIN plugins
      /\ \A m \in DOMAIN plugins : m # n => plugins'[m] = plugins[m]
      /\ plugins'[n] = [p EXCEPT !.detached = TRUE]
  <2>1. PICK q \in Instances : q = [p EXCEPT !.detached = TRUE]
    BY DEF Instances
  <2>2. plugins' = [plugins EXCEPT ![n] = q] /\ n \in 1..Len(plugins)
    BY <1>1, <1>2, <1>4, <2>1, Numbered
  <2>3. plugins' \in Seq(Instances)
    BY <1>2, <2>1, <2>2, ExceptSeq
  <2> QED
    BY <1>2, <2>1, <2>2, <2>3
<1>6. \A m \in DOMAIN plugins :
        /\ plugins'[m].config = plugins[m].config /\ plugins'[m].kind = plugins[m].kind
        /\ plugins'[m].chain = plugins[m].chain /\ plugins'[m].apart = plugins[m].apart
        /\ plugins'[m].life = plugins[m].life /\ plugins'[m].hooked = plugins[m].hooked
        /\ plugins'[m].thread = plugins[m].thread
        /\ m # n => plugins'[m].detached = plugins[m].detached
  <2>1. PICK q : q = [p EXCEPT !.detached = TRUE]
    OBVIOUS
  <2>2. /\ q.config = p.config /\ q.kind = p.kind /\ q.chain = p.chain /\ q.apart = p.apart
        /\ q.life = p.life /\ q.hooked = p.hooked /\ q.thread = p.thread
    BY <2>1 DEF Instances
  <2> QED
    BY <1>4, <1>5, <2>1, <2>2
<1>7. /\ Syncing' /\ Held' = Held /\ Held = applying.made /\ At("detaching")' /\ ~At("stored")'
      /\ ~At("idle")'
      /\ (\A m : ~Leaving(m) /\ (Leaving(m)' <=> m = n) /\ Holds(m)' = Holds(m)
                 /\ Writing(m)' = Writing(m))
  BY <1>1, <1>3 DEF Syncing, Held, At, Leaving, Holds, Writing
<1>8. LifecycleTypeOK' /\ HeldAreMade' /\ DevicesDiffer'
  BY <1>1, <1>3, <1>5, <1>7 DEF LifecycleInv, LifecycleTypeOK, HeldAreMade, DevicesDiffer
<1>9. InstancesSound'
  BY <1>5, <1>6, <1>7 DEF LifecycleInv, InstancesSound, SoundInstance
<1>10. LiveAreHeld' /\ IdsDiffer'
  <2>1. \A m \in DOMAIN plugins : Lives(m)' = Lives(m)
    BY <1>6 DEF Lives
  <2> QED
    <3>1. IdsDiffer'
      BY <1>5, <1>6, <2>1 DEF LifecycleInv, IdsDiffer
    <3>2. ~Holds(n)
      BY <1>1 DEF LifecycleInv, LiveAreHeld
    <3>3. \A m \in DOMAIN plugins : Lives(m) <=> Holds(m) \/ m \in applying.old
      BY <1>1, <1>7 DEF LifecycleInv, LiveAreHeld
    <3>4. \A m \in DOMAIN plugins' :
            Lives(m)' <=> Holds(m)' \/ (Syncing' /\ m \in applying'.old) \/ Leaving(m)'
      BY <1>1, <1>3, <1>5, <1>7, <2>1, <3>3
    <3>5. \A m \in applying'.old : ~Holds(m)' /\ ~Leaving(m)'
      BY <1>1, <1>3, <1>7 DEF LifecycleInv, LiveAreHeld
    <3> QED
      BY <1>3, <1>7, <3>1, <3>2, <3>4, <3>5 DEF LiveAreHeld
<1>11. HeldMatch'
  <2>1. \A i \in DOMAIN Held : Held[i] \in DOMAIN plugins
    BY DEF LifecycleInv, HeldAreMade, Held
  <2>2. \A i \in DOMAIN Held : \A d, w :
          Matches(plugins[Held[i]], d, w) => Matches(plugins'[Held[i]], d, w)
    BY <1>6, <2>1 DEF Matches
  <2>3. HeldMatch /\ applying'.todo = applying.todo /\ UNCHANGED workspace
    BY <1>1, <1>3 DEF LifecycleInv
  <2>4. \A i \in DOMAIN Held : \A d : Matches(plugins[Held[i]], d, Writing(Held[i]))
                                   => Matches(plugins'[Held[i]], d, Writing(Held[i])')
    BY <1>7, <2>2
  <2> QED
    BY <1>1, <1>7, <2>3, <2>4, StillMatching
<1>12. SettingLeads' /\ FieldsLead' /\ ChainsFollow'
  <2>0. /\ DOMAIN plugins' = DOMAIN plugins /\ setting' = setting /\ fields' = fields /\ told' = told
        /\ \A m \in DOMAIN plugins : plugins'[m].config = plugins[m].config
    BY <1>1, <1>5, <1>6
  <2>1. SettingLeads' /\ FieldsLead'
    BY <2>0 DEF LifecycleInv, SettingLeads, FieldsLead
  <2>2. ChainsFollow'
    <3>1. \A m \in DOMAIN plugins : \A t, w :
            (Lives(m)' <=> Lives(m)) /\ (Follows(plugins[m], t, w) => Follows(plugins'[m], t, w))
      BY <1>6 DEF Follows, Lives
    <3> QED
      BY <1>7, <2>0, <3>1 DEF LifecycleInv, ChainsFollow
  <2> QED
    BY <2>1, <2>2
<1>13. FieldsSet' /\ HooksSet' /\ RestFollows'
  BY <1>3, <1>7 DEF FieldsSet, HooksSet, RestFollows
<1> QED
  BY <1>8, <1>9, <1>10, <1>11, <1>12, <1>13 DEF LifecycleInv

(* The instance that was detached is on its way out.                         *)
LEMMA EndDisposeStep ==
  ASSUME LifecycleInv, EndDispose
  PROVE  LifecycleInv'
<1>1. PICK n : n = applying.out
  OBVIOUS
<1>2. /\ At("detaching") /\ Syncing /\ ~At("stored") /\ n \in DOMAIN plugins
      /\ plugins[n].thread # "calling"
      /\ plugins' = [plugins EXCEPT ![n].hooked = FALSE, ![n].life = "queued"]
      /\ applying' = [applying EXCEPT !.at = "devices", !.out = 0]
      /\ UNCHANGED <<workspace, inUse, sessions, fields, setting, told, receiver>>
  BY <1>1 DEF EndDispose, CallbacksFree, At, Syncing, oscVars, LifecycleInv, HeldAreMade
<1>3. plugins \in Seq(Instances) /\ \A m \in DOMAIN plugins : plugins[m] \in Instances
  BY Numbered DEF LifecycleInv, LifecycleTypeOK
<1>4. /\ applying' \in Applications /\ applying'.at = "devices" /\ applying'.todo = applying.todo
      /\ applying'.old = applying.old /\ applying'.made = applying.made
  <2>1. applying \in Applications
    BY DEF LifecycleInv, LifecycleTypeOK
  <2>2. PICK a : a = [applying EXCEPT !.at = "devices"]
    OBVIOUS
  <2>3. a \in Applications
    BY <2>1, <2>2 DEF Applications, Places
  <2>4. applying' = [a EXCEPT !.out = 0]
    BY <1>2, <2>1, <2>2 DEF Applications
  <2> QED
    BY <2>1, <2>2, <2>3, <2>4 DEF Applications
<1>5. PICK p \in Instances : p = plugins[n]
  BY <1>2, <1>3
<1>6. PICK q \in Instances : q = [p EXCEPT !.hooked = FALSE, !.life = "queued"]
  <2>1. PICK r \in Instances : r = [p EXCEPT !.hooked = FALSE]
    BY DEF Instances
  <2>2. PICK s \in Instances : s = [r EXCEPT !.life = "queued"]
    BY DEF Instances
  <2>3. s = [p EXCEPT !.hooked = FALSE, !.life = "queued"]
    BY <2>1, <2>2
  <2> QED
    BY <2>3
<1>7. /\ q.config = p.config /\ q.kind = p.kind /\ q.chain = p.chain /\ q.apart = p.apart
      /\ q.detached = p.detached /\ q.thread = p.thread /\ q.hooked = FALSE /\ q.life = "queued"
  BY <1>6 DEF Instances
<1>8. /\ plugins' \in Seq(Instances) /\ DOMAIN plugins' = DOMAIN plugins
      /\ plugins'[n] = q /\ \A m \in DOMAIN plugins : m # n => plugins'[m] = plugins[m]
  <2>1. PICK f : f = [plugins EXCEPT ![n].hooked = FALSE]
    OBVIOUS
  <2>2. plugins' = [f EXCEPT ![n].life = "queued"]
    BY <1>2, <2>1
  <2>3. plugins' = [plugins EXCEPT ![n] = q] /\ n \in 1..Len(plugins)
    <3>1. n \in 1..Len(plugins)
      BY <1>2, <1>3, Numbered
    <3>2. f = [plugins EXCEPT ![n] = [p EXCEPT !.hooked = FALSE]]
      BY <1>5, <2>1
    <3>3. f[n] = [p EXCEPT !.hooked = FALSE] /\ n \in DOMAIN f
      BY <1>2, <3>2
    <3>4. [f[n] EXCEPT !.life = "queued"] = q
      BY <1>6, <3>3
    <3>5. plugins' = [f EXCEPT ![n] = q]
      BY <2>2, <3>4
    <3> QED
      BY <1>2, <3>1, <3>2, <3>5
  <2>4. plugins' \in Seq(Instances)
    BY <1>3, <2>3, ExceptSeq
  <2> QED
    BY <1>2, <1>3, <2>3, <2>4
<1>9. /\ DOMAIN plugins' = DOMAIN plugins /\ setting' = setting /\ fields' = fields /\ told' = told
      /\ \A m \in DOMAIN plugins : plugins'[m].config = plugins[m].config
  BY <1>2, <1>5, <1>7, <1>8
<1>10. /\ Syncing' /\ Held' = Held /\ Held = applying.made /\ ~At("detaching")' /\ ~At("stored")'
       /\ ~At("idle")'
       /\ (\A m : ~Leaving(m)' /\ (Leaving(m) <=> m = n) /\ Holds(m)' = Holds(m)
                 /\ Writing(m)' = Writing(m))
  BY <1>1, <1>2, <1>4 DEF Syncing, Held, At, Leaving, Holds, Writing
<1>11. LifecycleTypeOK' /\ HeldAreMade' /\ DevicesDiffer'
  BY <1>2, <1>4, <1>8, <1>10 DEF LifecycleInv, LifecycleTypeOK, HeldAreMade, DevicesDiffer
<1>12. \A m \in DOMAIN plugins : Lives(m)' <=> Lives(m) /\ m # n
  BY <1>7, <1>8 DEF Lives
<1>13. InstancesSound'
  <2>1. ASSUME NEW m \in DOMAIN plugins PROVE SoundInstance(plugins'[m], FALSE)
    <3>1. SoundInstance(plugins[m], m = n)
      BY <1>10 DEF LifecycleInv, InstancesSound, SoundInstance
    <3>2. CASE m = n
      BY <1>2, <1>5, <1>7, <1>8, <3>1, <3>2 DEF SoundInstance
    <3>3. CASE m # n
      BY <1>8, <3>1, <3>3 DEF SoundInstance
    <3> QED
      BY <3>2, <3>3
  <2> QED
    BY <1>8, <1>10, <2>1 DEF InstancesSound, SoundInstance
<1>14. LiveAreHeld'
  <2>1. ~Holds(n) /\ n \notin applying.old
    BY <1>1, <1>2, <1>10 DEF LifecycleInv, LiveAreHeld
  <2>2. \A m \in DOMAIN plugins : Lives(m) <=> Holds(m) \/ m \in applying.old \/ m = n
    BY <1>2, <1>10 DEF LifecycleInv, LiveAreHeld
  <2>3. \A m \in DOMAIN plugins' :
          Lives(m)' <=> Holds(m)' \/ (Syncing' /\ m \in applying'.old) \/ Leaving(m)'
    BY <1>4, <1>9, <1>10, <1>12, <2>1, <2>2
  <2>4. \A m \in applying'.old : ~Holds(m)' /\ ~Leaving(m)'
    BY <1>2, <1>4, <1>10 DEF LifecycleInv, LiveAreHeld
  <2> QED
    BY <1>10, <2>3, <2>4 DEF LiveAreHeld
<1>15. IdsDiffer' /\ SettingLeads' /\ FieldsLead'
  BY <1>9, <1>12 DEF LifecycleInv, IdsDiffer, SettingLeads, FieldsLead
<1>16. HeldMatch'
  <2>1. \A i \in DOMAIN Held : Held[i] \in DOMAIN plugins
    BY DEF LifecycleInv, HeldAreMade, Held
  <2>2. \A m \in DOMAIN plugins : \A d, w : Matches(plugins[m], d, w) => Matches(plugins'[m], d, w)
    BY <1>5, <1>7, <1>8 DEF Matches
  <2> QED
    BY <1>2, <1>4, <1>10, <2>1, <2>2 DEF LifecycleInv, HeldMatch
<1>17. ChainsFollow'
  <2>1. \A m \in DOMAIN plugins : \A t, w : Follows(plugins[m], t, w) => Follows(plugins'[m], t, w)
    BY <1>5, <1>7, <1>8 DEF Follows
  <2> QED
    BY <1>9, <1>10, <1>12, <2>1 DEF LifecycleInv, ChainsFollow
<1>18. FieldsSet' /\ HooksSet' /\ RestFollows'
  BY <1>4, <1>10 DEF FieldsSet, HooksSet, RestFollows
<1> QED
  BY <1>11, <1>13, <1>14, <1>15, <1>16, <1>17, <1>18 DEF LifecycleInv

-----------------------------------------------------------------------------
(* The next device has its instance: it is made, and the others are to do.   *)
LEMMA NextDevice ==
  ASSUME LifecycleInv, At("devices"), applying.todo # <<>>, NEW n \in Nat,
         applying' \in Applications, applying'.at = "devices", applying'.todo = Tail(applying.todo),
         applying'.made = Append(applying.made, n), workspace' = WithDevice(workspace, ToDo),
         setting' = setting,
         \A i \in DOMAIN Held : plugins'[Held[i]] = plugins[Held[i]],
         plugins'[n].config = ToDo
  PROVE  /\ HeldMatch' /\ DevicesDiffer' /\ workspace' \in WorkspaceConfig(workspace'.sessions)
         /\ ToDo \in DeviceConfig /\ \A m : Holds(m)' <=> Holds(m) \/ m = n
         /\ \A i \in DOMAIN applying'.made :
              applying'.made[i] = n \/ \E j \in DOMAIN Held : applying'.made[i] = Held[j]
         /\ \A i \in DOMAIN Held : plugins[Held[i]].config.id # ToDo.id
<1>1. PICK made \in Seq(Nat), todo \in Seq(DeviceConfig), dev \in Seq(DeviceConfig) :
        made = applying.made /\ todo = applying.todo /\ dev = workspace.devices
  BY DEF LifecycleInv, LifecycleTypeOK, Applications, WorkspaceConfig
<1>2. PICK h \in Nat, t \in Nat, d \in Nat :
        /\ h = Len(made) /\ DOMAIN made = 1..h /\ t = Len(todo) /\ DOMAIN todo = 1..t
        /\ d = Len(dev) /\ DOMAIN dev = 1..d
  BY LenProperties
<1>3. PICK made2 \in Seq(Nat) : made2 = Append(made, n)
  <2>1. Append(made, n) \in Seq(Nat)
    BY <1>1, AppendProperties
  <2> QED
    BY <2>1
<1>4. /\ Len(made2) = h + 1 /\ DOMAIN made2 = 1..(h + 1) /\ made2[h + 1] = n
      /\ \A i \in 1..h : made2[i] = made[i]
  BY <1>1, <1>2, <1>3, AppendProperties
<1>5. PICK todo2 \in Seq(DeviceConfig) : todo2 = Tail(todo)
  BY <1>1, HeadTailProperties
<1>6. /\ t >= 1 /\ Len(todo2) = t - 1 /\ DOMAIN todo2 = 1..(t - 1) /\ ToDo = todo[1]
      /\ \A j \in 1..(t - 1) : todo2[j] = todo[j + 1]
  <2>1. t \in Nat \ {0}
    BY <1>1, <1>2, EmptySeq
  <2>2. t >= 1
    BY <2>1
  <2>3. Len(todo2) = t - 1 /\ t - 1 \in Nat
    BY <1>1, <1>2, <1>5, <2>2, HeadTailProperties
  <2>4. ToDo = todo[1]
    BY <1>1, <2>2 DEF ToDo
  <2>5. \A j \in 1..(t - 1) : todo2[j] = todo[j + 1]
    BY <1>1, <1>2, <1>5, <2>2
  <2>6. DOMAIN todo2 = 1..(t - 1)
    BY <2>3, LenProperties
  <2> QED
    BY <2>2, <2>3, <2>4, <2>5, <2>6
<1>7. ToDo \in DeviceConfig
  BY <1>2, <1>6, ElementOfSeq
<1>8. /\ Held = made /\ Held' = made2 /\ ~At("stored") /\ ~At("stored")'
      /\ applying'.todo = todo2 /\ applying'.made = made2
      /\ (\A m : Writing(m)' = Writing(m))
  BY <1>1, <1>3, <1>5 DEF Held, Syncing, At, Writing
<1>9. /\ h + t = d
      /\ \A i \in 1..h : Matches(plugins[made[i]], dev[i], Writing(made[i]))
      /\ \A j \in 1..t : todo[j].id = dev[h + j].id
  BY <1>1, <1>2, <1>8 DEF LifecycleInv, HeldMatch
<1>10. h + 1 \in 1..d /\ todo[1].id = dev[h + 1].id
  <2>1. t >= 1 /\ h + t = d
    BY <1>6, <1>9
  <2>2. 1 \in 1..t /\ h + 1 \in 1..d
    BY <1>2, <2>1
  <2> QED
    BY <1>9, <2>2
<1>11. /\ workspace' \in WorkspaceConfig(workspace'.sessions)
       /\ DOMAIN workspace'.devices = 1..d /\ Len(workspace'.devices) = d
       /\ \A i \in 1..d :
            /\ workspace'.devices[i] = IF dev[i].id = ToDo.id THEN ToDo ELSE dev[i]
            /\ workspace'.devices[i].id = dev[i].id
  <2>1. PICK c, todoNow :
          /\ c = workspace /\ c \in WorkspaceConfig(c.sessions)
          /\ todoNow = ToDo /\ todoNow \in DeviceConfig
    BY <1>7 DEF LifecycleInv, LifecycleTypeOK
  <2>2. PICK new : new = WithDevice(c, todoNow)
    OBVIOUS
  <2>3. Replaces(c, todoNow, new)
    BY <2>1, <2>2, Replaced
  <2>4. workspace' = new
    BY <2>1, <2>2
  <2> QED
    BY <1>1, <1>2, <2>1, <2>3, <2>4 DEF Replaces
<1>12. \A i, j \in 1..d : dev[i].id = dev[j].id => i = j
  BY <1>1, <1>2 DEF LifecycleInv, DevicesDiffer
<1>13. DevicesDiffer'
  <2>1. \A i, j \in 1..d : workspace'.devices[i].id = workspace'.devices[j].id => i = j
    BY <1>11, <1>12
  <2>2. DOMAIN workspace'.devices = 1..d
    BY <1>11
  <2> QED
    BY <2>1, <2>2, Zenon DEF DevicesDiffer
<1>14. ASSUME NEW i \in 1..h
       PROVE  workspace'.devices[i] = dev[i] /\ dev[i].id # ToDo.id
  <2>1. i \in 1..d /\ i # h + 1
    BY <1>9
  <2>2. h + 1 \in 1..d /\ dev[h + 1].id = ToDo.id
    BY <1>6, <1>10
  <2>3. dev[i].id # ToDo.id
    BY <1>12, <2>1, <2>2, Zenon
  <2> QED
    BY <1>11, <2>1, <2>3
<1>15. workspace'.devices[h + 1] = ToDo
  BY <1>6, <1>10, <1>11
<1>16. HeldMatch'
  <2>1. ASSUME NEW i \in 1..(h + 1)
        PROVE  Matches(plugins'[made2[i]], workspace'.devices[i], Writing(made2[i]))
    <3>1. CASE i \in 1..h
      <4>1. made2[i] = made[i] /\ plugins'[made[i]] = plugins[made[i]] /\ workspace'.devices[i] = dev[i]
        BY <1>2, <1>4, <1>8, <1>14, <3>1
      <4> QED
        BY <1>9, <3>1, <4>1
    <3>2. CASE i = h + 1
      BY <1>4, <1>15, <3>2 DEF Matches
    <3> QED
      BY <3>1, <3>2
  <2>2. ASSUME NEW j \in 1..(t - 1) PROVE todo2[j].id = workspace'.devices[(h + 1) + j].id
    <3>1. t >= 1 /\ h + t = d
      BY <1>6, <1>9
    <3>2. j + 1 \in 1..t /\ (h + 1) + j = h + (j + 1) /\ h + (j + 1) \in 1..d
      BY <1>2, <3>1
    <3>3. todo2[j] = todo[j + 1]
      BY <1>6, Zenon
    <3>4. todo[j + 1].id = dev[h + (j + 1)].id
      BY <1>9, <3>2, Zenon
    <3>5. workspace'.devices[h + (j + 1)].id = dev[h + (j + 1)].id
      BY <1>11, <3>2, Zenon
    <3> QED
      BY <3>2, <3>3, <3>4, <3>5
  <2>3. (h + 1) + (t - 1) = d
    BY <1>6, <1>9
  <2>4. Len(Held') = h + 1 /\ DOMAIN Held' = 1..(h + 1) /\ Len(applying'.todo) = t - 1
        /\ DOMAIN applying'.todo = 1..(t - 1)
    BY <1>4, <1>6, <1>8
  <2>5. Len(Held') + Len(applying'.todo) = Len(workspace'.devices)
    BY <1>11, <2>3, <2>4
  <2>6. \A i \in DOMAIN Held' : Matches(plugins'[Held'[i]], workspace'.devices[i], Writing(Held'[i]))
    BY <1>8, <2>1, <2>4
  <2>7. \A m : Writing(m)' <=> Writing(m)
    BY <1>8
  <2>8. (\A i \in DOMAIN Held : Matches(plugins[Held[i]], workspace.devices[i], Writing(Held[i])))'
    BY <1>8, <2>6 DEF Writing
  <2>9. \A j \in DOMAIN applying'.todo : applying'.todo[j].id = workspace'.devices[Len(Held') + j].id
    BY <1>8, <2>2, <2>4
  <2> QED
    BY <2>5, <2>8, <2>9 DEF HeldMatch
<1>17. \A m : Holds(m)' <=> Holds(m) \/ m = n
  <2>1. \A m : Holds(m) <=> \E i \in 1..h : made[i] = m
    BY <1>2, <1>8 DEF Holds
  <2>2. \A m : Holds(m)' <=> \E i \in 1..(h + 1) : made2[i] = m
    BY <1>4, <1>8 DEF Holds
  <2>3. \A i \in 1..(h + 1) : i \in 1..h \/ i = h + 1
    OBVIOUS
  <2>4. h + 1 \in 1..(h + 1) /\ \A i \in 1..h : i \in 1..(h + 1)
    OBVIOUS
  <2> QED
    BY <1>4, <2>1, <2>2, <2>3, <2>4, Zenon
<1>18. \A i \in DOMAIN applying'.made :
         applying'.made[i] = n \/ \E j \in DOMAIN Held : applying'.made[i] = Held[j]
  <2>1. \A i \in 1..(h + 1) : i \in 1..h \/ i = h + 1
    OBVIOUS
  <2> QED
    BY <1>2, <1>4, <1>8, <2>1
<1>19. \A i \in DOMAIN Held : plugins[Held[i]].config.id # ToDo.id
  BY <1>2, <1>8, <1>9, <1>14 DEF Matches
<1> QED
  BY <1>7, <1>11, <1>13, <1>16, <1>17, <1>18, <1>19

Takes(p, q, d) ==
  /\ q \in Instances /\ q.config = d /\ q.apart = FALSE /\ q.chain = WorkerChain(d.ops)
  /\ q.kind = p.kind /\ q.hooked = p.hooked /\ q.detached = p.detached
  /\ q.thread = p.thread /\ q.life = p.life

(* An instance that is reused takes the new configuration, and its workers   *)
(* run the operators of that one, rebuilt or not.                            *)
LEMMA Updated ==
  ASSUME NEW p \in Instances, NEW d \in DeviceConfig, SoundInstance(p, FALSE)
  PROVE  Takes(p, UpdatedPlugin(p, d), d)
<1>0. PICK q : q = UpdatedPlugin(p, d)
  OBVIOUS
<1>1. WorkerChain(d.ops) \in Seq(OperatorConfig) /\ p.chain \in Seq(OperatorConfig) /\ p.builds + 1 \in Nat
  BY ChainTyped DEF Instances, DeviceConfig
<1> DOMAIN p.chain = DOMAIN WorkerChain(p.config.ops)
  BY DEF SoundInstance
<1>2. ASSUME Rebuilds(p.config.ops, d.ops) PROVE Takes(p, q, d)
  <2>1. PICK chain \in Seq(OperatorConfig), builds \in Nat :
          chain = WorkerChain(d.ops) /\ builds = p.builds + 1
    BY <1>1
  <2>2. q = [p EXCEPT !.config = d, !.apart = FALSE, !.chain = chain, !.builds = builds]
    BY <1>0, <1>2, <2>1 DEF UpdatedPlugin
  <2> QED
    <3>1. q \in Instances
      BY <2>1, <2>2 DEF Instances
    <3>2. /\ q.config = d /\ q.apart = FALSE /\ q.chain = WorkerChain(d.ops)
          /\ q.kind = p.kind /\ q.hooked = p.hooked /\ q.detached = p.detached
          /\ q.thread = p.thread /\ q.life = p.life
      BY <2>1, <2>2 DEF Instances
    <3> QED
      BY <3>1, <3>2 DEF Takes
<1>3. ASSUME ~Rebuilds(p.config.ops, d.ops) PROVE Takes(p, q, d)
  <2>1. WorkerChain(p.config.ops) = <<>> /\ WorkerChain(d.ops) = <<>>
    BY <1>3 DEF Rebuilds
  <2>2. p.chain = <<>>
    <3>1. DOMAIN p.chain = 1..0
      BY <2>1
    <3>2. Len(p.chain) = 0
      <4>1. PICK l \in Nat : l = Len(p.chain) /\ DOMAIN p.chain = 1..l
        BY <1>1, LenProperties
      <4>2. 1..l = 1..0
        BY <3>1, <4>1, Zenon
      <4>3. 1 \notin 1..0 /\ (l # 0 => 1 \in 1..l)
        OBVIOUS
      <4> QED
        BY <4>1, <4>2, <4>3, Zenon
    <3> QED
      BY <1>1, <3>2, EmptySeq
  <2>3. q = [p EXCEPT !.config = d, !.apart = FALSE]
    BY <1>0, <1>3 DEF UpdatedPlugin
  <2> QED
    <3>1. q \in Instances
      BY <2>3 DEF Instances
    <3>2. /\ q.config = d /\ q.apart = FALSE /\ q.chain = p.chain
          /\ q.kind = p.kind /\ q.hooked = p.hooked /\ q.detached = p.detached
          /\ q.thread = p.thread /\ q.life = p.life
      BY <2>3 DEF Instances
    <3> QED
      BY <2>1, <2>2, <3>1, <3>2 DEF Takes
<1> QED
  BY <1>0, <1>2, <1>3

(* The next device is that of an instance in use.                            *)
LEMMA SyncReusedStep ==
  ASSUME LifecycleInv, NEW n \in DOMAIN plugins, SyncReused(n)
  PROVE  LifecycleInv'
<1>1. At("devices") /\ applying.todo # <<>> /\ n \in applying.old
      /\ plugins[n].config.id = ToDo.id /\ plugins[n].config.kind = PluginFor(ToDo.kind)
  BY DEF SyncReused, Existing, Fits
<1>2. PICK d, p, q : d = ToDo /\ p = plugins[n] /\ q = UpdatedPlugin(p, d)
  OBVIOUS
<1>3. /\ plugins \in Seq(Instances) /\ n \in 1..Len(plugins) /\ n \in Nat /\ p \in Instances
      /\ SoundInstance(p, FALSE)
  <2>1. plugins \in Seq(Instances)
    BY DEF LifecycleInv, LifecycleTypeOK
  <2>2. ~Leaving(n)
    BY <1>1 DEF Leaving, At
  <2>3. SoundInstance(plugins[n], Leaving(n))
    BY DEF LifecycleInv, InstancesSound
  <2>4. SoundInstance(p, FALSE)
    BY <1>2, <2>2, <2>3 DEF SoundInstance
  <2> QED
    BY <1>2, <2>1, <2>4, Numbered
<1>4. /\ plugins' = [plugins EXCEPT ![n] = q]
      /\ workspace' = WithDevice(workspace, ToDo)
      /\ UNCHANGED <<inUse, sessions, fields, teardown, setting, subscribed, told, receiver>>
  BY <1>2 DEF SyncReused, oscVars
<1>5. /\ Syncing /\ Held = applying.made /\ ~At("stored") /\ ~At("detaching") /\ ~At("idle")
      /\ Lives(n) /\ ~Holds(n)
  <2>1. Syncing /\ Held = applying.made /\ ~At("stored") /\ ~At("detaching") /\ ~At("idle")
    BY <1>1 DEF Syncing, Held, At
  <2> QED
    BY <1>1, <2>1 DEF LifecycleInv, LiveAreHeld
<1>6. PICK todo2, made2, old2 :
        /\ todo2 = Tail(applying.todo) /\ made2 = Append(applying.made, n) /\ old2 = applying.old \ {n}
        /\ todo2 \in Seq(DeviceConfig) /\ made2 \in Seq(Nat) /\ old2 \in SUBSET Nat
        /\ DOMAIN made2 = 1..Len(made2)
  <2>1. /\ applying.todo \in Seq(DeviceConfig) /\ applying.made \in Seq(Nat)
        /\ applying.old \in SUBSET Nat
    BY DEF LifecycleInv, LifecycleTypeOK, Applications
  <2>2. Tail(applying.todo) \in Seq(DeviceConfig)
    BY <1>1, <2>1, HeadTailProperties
  <2>3. PICK made2 \in Seq(Nat) : made2 = Append(applying.made, n)
    <3>1. Append(applying.made, n) \in Seq(Nat)
      BY <1>3, <2>1, AppendProperties
    <3> QED
      BY <3>1
  <2>4. DOMAIN made2 = 1..Len(made2)
    BY LenProperties
  <2>5. applying.old \ {n} \in SUBSET Nat
    BY <2>1
  <2> QED
    BY <2>2, <2>3, <2>4, <2>5
<1>7. /\ applying' = [applying EXCEPT !.todo = todo2, !.old = old2, !.made = made2]
      /\ applying' \in Applications /\ applying'.at = "devices" /\ applying'.todo = todo2
      /\ applying'.made = made2 /\ applying'.old = old2
  <2>1. applying' = [applying EXCEPT !.todo = todo2, !.old = old2, !.made = made2]
    BY <1>6 DEF SyncReused
  <2>2. applying \in Applications /\ applying.at = "devices"
    BY <1>1 DEF LifecycleInv, LifecycleTypeOK, At
  <2> QED
    BY <1>6, <2>1, <2>2 DEF Applications
<1>8. d \in DeviceConfig
  <2>1. applying.todo \in Seq(DeviceConfig)
    BY DEF LifecycleInv, LifecycleTypeOK, Applications
  <2> QED
    BY <1>1, <1>2, <2>1, HeadTailProperties DEF ToDo
<1>9. /\ q \in Instances /\ q.config = d /\ q.apart = FALSE /\ q.chain = WorkerChain(d.ops)
      /\ q.kind = p.kind /\ q.hooked = p.hooked /\ q.detached = p.detached
      /\ q.thread = p.thread /\ q.life = p.life
  <2>1. q = UpdatedPlugin(p, d)
    BY <1>2
  <2>2. p \in Instances /\ SoundInstance(p, FALSE)
    BY <1>3
  <2>3. Takes(p, UpdatedPlugin(p, d), d)
    BY <1>8, <2>2, Updated
  <2> QED
    BY <2>1, <2>3 DEF Takes
<1>10. /\ plugins' \in Seq(Instances) /\ DOMAIN plugins' = DOMAIN plugins
       /\ plugins'[n] = q /\ \A m \in DOMAIN plugins : m # n => plugins'[m] = plugins[m]
  <2>1. plugins' \in Seq(Instances)
    BY <1>3, <1>4, <1>9, ExceptSeq
  <2> QED
    BY <1>3, <1>4, <2>1
<1>11. \A i \in DOMAIN Held : plugins'[Held[i]] = plugins[Held[i]]
  <2>1. \A i \in DOMAIN Held : Held[i] \in DOMAIN plugins /\ Held[i] # n
    BY <1>5 DEF LifecycleInv, HeldAreMade, Holds
  <2> QED
    BY <1>10, <2>1
<1>12. /\ HeldMatch' /\ DevicesDiffer' /\ workspace' \in WorkspaceConfig(workspace'.sessions)
       /\ \A m : Holds(m)' <=> Holds(m) \/ m = n
       /\ \A i \in DOMAIN applying'.made :
            applying'.made[i] = n \/ \E j \in DOMAIN Held : applying'.made[i] = Held[j]
  <2>1. /\ applying'.todo = Tail(applying.todo) /\ applying'.made = Append(applying.made, n)
        /\ setting' = setting /\ plugins'[n].config = ToDo
    BY <1>2, <1>4, <1>6, <1>7, <1>9, <1>10
  <2> QED
    BY <1>1, <1>3, <1>4, <1>7, <1>11, <2>1, NextDevice
<1>13. /\ Syncing' /\ ~At("detaching")' /\ ~At("stored")' /\ ~At("idle")'
       /\ (\A m : ~Leaving(m)' /\ ~Leaving(m) /\ (Writing(m)' <=> Writing(m)))
  BY <1>4, <1>5, <1>7 DEF Syncing, At, Leaving, Writing
<1>14. /\ \A m \in DOMAIN plugins : Lives(m)' <=> Lives(m)
       /\ \A m \in DOMAIN plugins : plugins'[m].config.id = plugins[m].config.id
  BY <1>1, <1>2, <1>9, <1>10 DEF Lives
<1>15. LifecycleTypeOK'
  BY <1>4, <1>7, <1>10, <1>12 DEF LifecycleInv, LifecycleTypeOK
<1>16. HeldAreMade'
  <2>1. \A i \in DOMAIN applying'.made : applying'.made[i] \in DOMAIN plugins
    BY <1>5, <1>12 DEF LifecycleInv, HeldAreMade
  <2>2. \A m \in applying'.old : m \in DOMAIN plugins
    BY <1>6, <1>7 DEF LifecycleInv, HeldAreMade
  <2>3. \A i \in DOMAIN inUse : inUse[i] \in DOMAIN plugins
    BY DEF LifecycleInv, HeldAreMade
  <2> QED
    BY <1>4, <1>10, <1>13, <2>1, <2>2, <2>3 DEF HeldAreMade
<1>17. InstancesSound'
  <2>1. ASSUME NEW m \in DOMAIN plugins PROVE SoundInstance(plugins'[m], FALSE)
    <3>1. CASE m = n
      <4>1. q.kind = PluginFor(q.config.kind)
        BY <1>1, <1>2, <1>3, <1>9 DEF SoundInstance, PluginFor
      <4> QED
        BY <1>3, <1>9, <1>10, <3>1, <4>1 DEF SoundInstance
    <3>2. CASE m # n
      <4>1. SoundInstance(plugins[m], Leaving(m))
        BY DEF LifecycleInv, InstancesSound
      <4> QED
        BY <1>10, <1>13, <3>2, <4>1 DEF SoundInstance
    <3> QED
      BY <3>1, <3>2
  <2> QED
    BY <1>10, <1>13, <2>1 DEF InstancesSound, SoundInstance
<1>18. LiveAreHeld'
  <2>1. \A m \in DOMAIN plugins : Lives(m) <=> Holds(m) \/ m \in applying.old
    BY <1>5, <1>13 DEF LifecycleInv, LiveAreHeld
  <2>2. \A m \in applying'.old : m \in applying.old /\ m # n
    BY <1>6, <1>7
  <2>3. \A m \in DOMAIN plugins : m \in applying.old <=> m \in applying'.old \/ m = n
    BY <1>1, <1>6, <1>7
  <2>4. \A m \in applying'.old : ~Holds(m)' /\ ~Leaving(m)'
    <3>1. \A m \in applying.old : ~Holds(m)
      BY <1>5 DEF LifecycleInv, LiveAreHeld
    <3> QED
      BY <1>12, <1>13, <2>2, <3>1
  <2>5. \A m \in DOMAIN plugins' :
          Lives(m)' <=> Holds(m)' \/ (Syncing' /\ m \in applying'.old) \/ Leaving(m)'
    BY <1>5, <1>10, <1>12, <1>13, <1>14, <2>1, <2>3
  <2> QED
    BY <1>13, <2>4, <2>5 DEF LiveAreHeld
<1>19. IdsDiffer' /\ SettingLeads' /\ FieldsLead'
  BY <1>4, <1>10, <1>14 DEF LifecycleInv, IdsDiffer, SettingLeads, FieldsLead
<1>20. ChainsFollow'
  <2>1. ASSUME NEW m \in DOMAIN plugins, Lives(m)'
        PROVE  Follows(plugins'[m], m \in told', Writing(m)' /\ setting'.field # 0)
    <3>1. CASE m = n
      BY <1>9, <1>10, <3>1 DEF Follows
    <3>2. CASE m # n
      <4>1. Follows(plugins[m], m \in told, Writing(m) /\ setting.field # 0)
        BY <1>14, <2>1 DEF LifecycleInv, ChainsFollow
      <4> QED
        BY <1>4, <1>10, <1>13, <3>2, <4>1 DEF Follows
    <3> QED
      BY <3>1, <3>2
  <2> QED
    BY <1>10, <2>1 DEF ChainsFollow
<1>21. FieldsSet' /\ HooksSet' /\ RestFollows'
  BY <1>7, <1>13 DEF FieldsSet, HooksSet, RestFollows
<1> QED
  BY <1>12, <1>15, <1>16, <1>17, <1>18, <1>19, <1>20, <1>21 DEF LifecycleInv

(* A new instance is of its configuration's plugin, and runs its operators.  *)
LEMMA Made ==
  ASSUME NEW d \in DeviceConfig, NEW q, q = NewPlugin(d)
  PROVE  /\ q \in Instances /\ q.config = d /\ q.kind = PluginFor(d.kind) /\ q.life = "live"
         /\ q.chain = WorkerChain(d.ops) /\ q.thread = "idle" /\ SoundInstance(q, FALSE)
<1>1. PICK chain \in Seq(OperatorConfig), kind \in Kinds :
        chain = WorkerChain(d.ops) /\ kind = PluginFor(d.kind)
  <2>1. WorkerChain(d.ops) \in Seq(OperatorConfig)
    BY ChainTyped DEF DeviceConfig
  <2>2. PluginFor(d.kind) \in Kinds
    <3>1. d.kind \in STRING
      BY DEF DeviceConfig
    <3> QED
      BY <3>1, Zenon DEF PluginFor, Kinds
  <2> QED
    BY <2>1, <2>2
<1>2. q = [config |-> d, kind |-> kind, chain |-> chain, builds |-> 1, hooked |-> FALSE,
           detached |-> FALSE, thread |-> "idle", life |-> "live", apart |-> FALSE]
  BY <1>1 DEF NewPlugin
<1>3. q \in Instances
  BY <1>2 DEF Instances
<1> QED
  BY <1>1, <1>2, <1>3 DEF SoundInstance

(* The next device is made.                                                  *)
LEMMA SyncNewStep ==
  ASSUME LifecycleInv, SyncNew
  PROVE  LifecycleInv'
<1>1. At("devices") /\ applying.todo # <<>> /\ Existing = {}
  BY DEF SyncNew
<1>2. PICK d, q : d = ToDo /\ q = NewPlugin(d)
  OBVIOUS
<1>3. PICK l \in Nat, n \in Nat :
        /\ l = Len(plugins) /\ n = l + 1 /\ DOMAIN plugins = 1..l /\ plugins \in Seq(Instances)
  <2>1. plugins \in Seq(Instances)
    BY DEF LifecycleInv, LifecycleTypeOK
  <2>2. Len(plugins) \in Nat /\ Len(plugins) + 1 \in Nat /\ DOMAIN plugins = 1..Len(plugins)
    BY <2>1, LenProperties
  <2> QED
    BY <2>1, <2>2
<1>4. /\ plugins' = Append(plugins, q)
      /\ workspace' = WithDevice(workspace, ToDo)
      /\ UNCHANGED <<inUse, sessions, fields, teardown, setting, subscribed, told, receiver>>
  BY <1>2 DEF SyncNew, oscVars
<1>5. Syncing /\ Held = applying.made /\ ~At("stored") /\ ~At("detaching") /\ ~At("idle")
  BY <1>1 DEF Syncing, Held, At
<1>6. PICK todo2 \in Seq(DeviceConfig), made2 \in Seq(Nat) :
        todo2 = Tail(applying.todo) /\ made2 = Append(applying.made, n)
  <2>1. applying.todo \in Seq(DeviceConfig) /\ applying.made \in Seq(Nat)
    BY DEF LifecycleInv, LifecycleTypeOK, Applications
  <2>2. Tail(applying.todo) \in Seq(DeviceConfig)
    BY <1>1, <2>1, HeadTailProperties
  <2>3. Append(applying.made, n) \in Seq(Nat)
    BY <2>1, AppendProperties
  <2> QED
    BY <2>2, <2>3
<1>7. /\ applying' = [applying EXCEPT !.todo = todo2, !.made = made2]
      /\ applying' \in Applications /\ applying'.at = "devices" /\ applying'.todo = todo2
      /\ applying'.made = made2 /\ applying'.old = applying.old
  <2>1. applying' = [applying EXCEPT !.todo = todo2, !.made = made2]
    BY <1>3, <1>6 DEF SyncNew
  <2>2. applying \in Applications /\ applying.at = "devices"
    BY <1>1 DEF LifecycleInv, LifecycleTypeOK, At
  <2> QED
    BY <2>1, <2>2 DEF Applications
<1>8. d \in DeviceConfig
  <2>1. applying.todo \in Seq(DeviceConfig)
    BY DEF LifecycleInv, LifecycleTypeOK, Applications
  <2> QED
    BY <1>1, <1>2, <2>1, HeadTailProperties DEF ToDo
<1>9. /\ q \in Instances /\ q.config = d /\ q.kind = PluginFor(d.kind) /\ q.life = "live"
      /\ q.chain = WorkerChain(d.ops) /\ q.thread = "idle" /\ SoundInstance(q, FALSE)
  <2>1. q = NewPlugin(d)
    BY <1>2
  <2> QED
    BY <1>8, <2>1, Made
<1>10. /\ plugins' \in Seq(Instances) /\ DOMAIN plugins' = 1..n /\ n \notin DOMAIN plugins
       /\ plugins'[n] = q
       /\ \A m \in DOMAIN plugins : m # n /\ m \in DOMAIN plugins' /\ plugins'[m] = plugins[m]
       /\ \A m \in DOMAIN plugins' : m \in DOMAIN plugins \/ m = n
  <2>1. plugins' \in Seq(Instances) /\ Len(plugins') = n
        /\ plugins'[n] = q /\ (\A m \in 1..l : plugins'[m] = plugins[m])
    BY <1>3, <1>4, <1>9, AppendProperties
  <2>2. DOMAIN plugins' = 1..n
    BY <2>1, LenProperties
  <2>3. n \notin 1..l /\ \A m \in 1..l : m # n /\ m \in 1..n
    BY <1>3
  <2>4. \A m \in 1..n : m \in 1..l \/ m = n
    BY <1>3
  <2> QED
    BY <1>3, <2>1, <2>2, <2>3, <2>4
<1>11. \A i \in DOMAIN Held : Held[i] \in DOMAIN plugins /\ plugins'[Held[i]] = plugins[Held[i]]
  BY <1>5, <1>10 DEF LifecycleInv, HeldAreMade
<1>12. /\ HeldMatch' /\ DevicesDiffer' /\ workspace' \in WorkspaceConfig(workspace'.sessions)
       /\ (\A m : Holds(m)' <=> Holds(m) \/ m = n)
       /\ (\A i \in DOMAIN applying'.made :
            applying'.made[i] = n \/ \E j \in DOMAIN Held : applying'.made[i] = Held[j])
       /\ \A i \in DOMAIN Held : plugins[Held[i]].config.id # ToDo.id
  <2>1. /\ applying'.todo = Tail(applying.todo) /\ applying'.made = Append(applying.made, n)
        /\ setting' = setting /\ plugins'[n].config = ToDo
    BY <1>2, <1>4, <1>6, <1>7, <1>9, <1>10
  <2>2. \A i \in DOMAIN Held : plugins'[Held[i]] = plugins[Held[i]]
    BY <1>11
  <2> QED
    BY <1>1, <1>4, <1>7, <2>1, <2>2, NextDevice
<1>13. /\ Syncing' /\ ~At("detaching")' /\ ~At("stored")' /\ ~At("idle")'
       /\ (\A m : ~Leaving(m)' /\ ~Leaving(m) /\ (Writing(m)' <=> Writing(m)))
  BY <1>4, <1>5, <1>7 DEF Syncing, At, Leaving, Writing
<1>14. /\ \A m \in DOMAIN plugins : Lives(m)' <=> Lives(m)
       /\ \A m \in DOMAIN plugins : plugins'[m].config.id = plugins[m].config.id
       /\ Lives(n)' /\ plugins'[n].config.id = ToDo.id
  BY <1>2, <1>9, <1>10 DEF Lives
<1>15. LifecycleTypeOK'
  BY <1>4, <1>7, <1>10, <1>12 DEF LifecycleInv, LifecycleTypeOK
<1>16. HeldAreMade'
  <2>1. \A i \in DOMAIN applying'.made : applying'.made[i] \in DOMAIN plugins'
    <3>1. n \in DOMAIN plugins'
      BY <1>3, <1>10
    <3> QED
      BY <1>10, <1>11, <1>12, <3>1
  <2>2. \A m \in applying'.old : m \in DOMAIN plugins'
    BY <1>7, <1>10 DEF LifecycleInv, HeldAreMade
  <2>3. \A i \in DOMAIN inUse : inUse[i] \in DOMAIN plugins'
    BY <1>10 DEF LifecycleInv, HeldAreMade
  <2> QED
    BY <1>4, <1>13, <2>1, <2>2, <2>3 DEF HeldAreMade
<1>17. InstancesSound'
  <2>1. ASSUME NEW m \in DOMAIN plugins' PROVE SoundInstance(plugins'[m], FALSE)
    <3>1. CASE m = n
      BY <1>9, <1>10, <3>1
    <3>2. CASE m \in DOMAIN plugins
      <4>1. SoundInstance(plugins[m], Leaving(m))
        BY <3>2 DEF LifecycleInv, InstancesSound
      <4> QED
        BY <1>10, <1>13, <3>2, <4>1 DEF SoundInstance
    <3> QED
      BY <1>10, <3>1, <3>2
  <2> QED
    BY <1>13, <2>1 DEF InstancesSound, SoundInstance
<1>18. LiveAreHeld'
  <2>1. \A m \in DOMAIN plugins : Lives(m) <=> Holds(m) \/ m \in applying.old
    BY <1>5, <1>13 DEF LifecycleInv, LiveAreHeld
  <2>2. \A m \in applying.old : m \in DOMAIN plugins /\ ~Holds(m)
    BY <1>5 DEF LifecycleInv, LiveAreHeld, HeldAreMade
  <2>3. \A m \in applying'.old : ~Holds(m)' /\ ~Leaving(m)'
    BY <1>7, <1>10, <1>12, <1>13, <2>2
  <2>4. ASSUME NEW m \in DOMAIN plugins'
        PROVE  Lives(m)' <=> Holds(m)' \/ (Syncing' /\ m \in applying'.old) \/ Leaving(m)'
    <3>1. CASE m = n
      BY <1>12, <1>14, <3>1
    <3>2. CASE m \in DOMAIN plugins
      BY <1>7, <1>10, <1>12, <1>13, <1>14, <2>1, <3>2
    <3> QED
      BY <1>10, <3>1, <3>2
  <2> QED
    BY <1>13, <2>3, <2>4 DEF LiveAreHeld
<1>19. IdsDiffer'
  <2>1. ASSUME NEW m \in DOMAIN plugins, Lives(m) PROVE plugins[m].config.id # ToDo.id
    <3>1. CASE Holds(m)
      BY <1>12, <3>1 DEF Holds
    <3>2. CASE m \in applying.old
      BY <1>1, <3>2 DEF Existing
    <3> QED
      BY <1>5, <1>13, <2>1, <3>1, <3>2 DEF LifecycleInv, LiveAreHeld
  <2>2. ASSUME NEW i \in DOMAIN plugins', NEW j \in DOMAIN plugins', Lives(i)', Lives(j)',
               plugins'[i].config.id = plugins'[j].config.id
        PROVE  i = j
    <3>1. CASE i \in DOMAIN plugins /\ j \in DOMAIN plugins
      BY <1>14, <2>2, <3>1 DEF LifecycleInv, IdsDiffer
    <3>2. CASE i = n /\ j \in DOMAIN plugins
      BY <1>14, <2>1, <2>2, <3>2
    <3>3. CASE i \in DOMAIN plugins /\ j = n
      BY <1>14, <2>1, <2>2, <3>3
    <3> QED
      BY <1>10, <3>1, <3>2, <3>3
  <2> QED
    BY <2>2 DEF IdsDiffer
<1>20. SettingLeads' /\ FieldsLead'
  BY <1>4, <1>10 DEF LifecycleInv, SettingLeads, FieldsLead
<1>21. ChainsFollow'
  <2>1. ASSUME NEW m \in DOMAIN plugins', Lives(m)'
        PROVE  Follows(plugins'[m], m \in told', Writing(m)' /\ setting'.field # 0)
    <3>1. CASE m = n
      BY <1>9, <1>10, <3>1 DEF Follows
    <3>2. CASE m \in DOMAIN plugins
      <4>1. Follows(plugins[m], m \in told, Writing(m) /\ setting.field # 0)
        BY <1>14, <2>1, <3>2 DEF LifecycleInv, ChainsFollow
      <4> QED
        BY <1>4, <1>10, <1>13, <3>2, <4>1 DEF Follows
    <3> QED
      BY <1>10, <3>1, <3>2
  <2> QED
    BY <2>1 DEF ChainsFollow
<1>22. FieldsSet' /\ HooksSet' /\ RestFollows'
  BY <1>7, <1>13 DEF FieldsSet, HooksSet, RestFollows
<1> QED
  BY <1>12, <1>15, <1>16, <1>17, <1>18, <1>19, <1>20, <1>21, <1>22 DEF LifecycleInv

-----------------------------------------------------------------------------
(* Nothing is in use at first.                                               *)
LEMMA LifecycleStarts ==
  ASSUME LifecycleInit
  PROVE  LifecycleInv
<1>1. /\ workspace = [devices |-> <<>>, sessions |-> <<>>, osc |-> [enable |-> FALSE, port |-> 0]]
      /\ plugins = <<>> /\ inUse = <<>> /\ sessions = <<>> /\ fields = <<>>
      /\ applying = [at |-> "idle", todo |-> <<>>, old |-> {}, made |-> <<>>, out |-> 0]
      /\ receiver = [port |-> 0, state |-> "stopped"] /\ setting = <<>>
  BY DEF LifecycleInit, NotApplying
<1>2. \A S : <<>> \in Seq(S) /\ Len(<<>>) = 0 /\ DOMAIN <<>> = {}
  OBVIOUS
<1>3. LifecycleTypeOK
  <2>1. workspace \in WorkspaceConfig(workspace.sessions)
    BY <1>1, <1>2 DEF WorkspaceConfig, OscConfig
  <2>2. applying \in Applications
    BY <1>1, <1>2 DEF Applications, Places
  <2> QED
    BY <1>1, <1>2, <2>1, <2>2 DEF LifecycleTypeOK
<1>4. HeldAreMade /\ InstancesSound /\ LiveAreHeld /\ IdsDiffer /\ DevicesDiffer
  BY <1>1, <1>2 DEF HeldAreMade, InstancesSound, LiveAreHeld, IdsDiffer, DevicesDiffer, At, Syncing
<1>5. HeldMatch /\ SettingLeads /\ FieldsLead /\ HooksSet /\ ChainsFollow
  <2>1. Held = <<>>
    BY <1>1 DEF Held, Syncing
  <2> QED
    BY <1>1, <1>2, <2>1 DEF HeldMatch, SettingLeads, FieldsLead, HooksSet, ChainsFollow
<1>6. FieldsSet /\ RestFollows
  BY <1>1, <1>2 DEF FieldsSet, RestFollows
<1> QED
  BY <1>3, <1>4, <1>5, <1>6 DEF LifecycleInv

(* Each step keeps the invariant.                                            *)
LEMMA LifecycleGoesOn ==
  ASSUME LifecycleInv, [LifecycleNext]_lifecycleVars
  PROVE  LifecycleInv'
<1>1. CASE UNCHANGED lifecycleVars
  <2>1. UNCHANGED <<workspace, plugins, inUse, sessions, fields, applying, receiver, setting, told>>
    BY <1>1 DEF lifecycleVars, oscVars
  <2>2. /\ Syncing' = Syncing /\ Held' = Held /\ WantedPort' = WantedPort
        /\ (\A n : Holds(n)' = Holds(n) /\ Leaving(n)' = Leaving(n) /\ Lives(n)' = Lives(n)
                  /\ Writing(n)' = Writing(n))
    BY <2>1 DEF At, Syncing, Held, WantedPort, Holds, Leaving, Lives, Writing
  <2>3. LifecycleTypeOK' /\ HeldAreMade' /\ InstancesSound' /\ LiveAreHeld' /\ IdsDiffer'
    BY <2>1, <2>2 DEF LifecycleInv, LifecycleTypeOK, HeldAreMade, InstancesSound, SoundInstance,
         LiveAreHeld, IdsDiffer, At
  <2>4. DevicesDiffer' /\ HeldMatch' /\ SettingLeads' /\ FieldsLead'
    BY <2>1, <2>2 DEF LifecycleInv, DevicesDiffer, HeldMatch, SettingLeads, FieldsLead, At
  <2>5. FieldsSet' /\ HooksSet' /\ ChainsFollow' /\ RestFollows'
    BY <2>1, <2>2 DEF LifecycleInv, FieldsSet, HooksSet, ChainsFollow, RestFollows, At
  <2> QED
    BY <2>3, <2>4, <2>5 DEF LifecycleInv
<1>2. ASSUME NEW c \in Configurations, StoreConfiguration(c) PROVE LifecycleInv'
  BY <1>2, StoreStep
<1>3. CASE BeginSync
  BY <1>3, BeginStep
<1>4. CASE SyncNew
  BY <1>4, SyncNewStep
<1>5. CASE EndDispose
  BY <1>5, EndDisposeStep
<1>6. CASE ReplaceDevices
  BY <1>6, ReplaceStep
<1>7. CASE SyncSessions \/ ClearRegistry \/ RegisterDevices
           \/ \E starts \in BOOLEAN : Reconfigure(starts)
  BY <1>7, AfterDevices
<1>8. CASE HookCallbacks
  BY <1>8, HookStep
<1>9. ASSUME NEW id \in DOMAIN fields, NEW i \in 0..2, LookUpField(id, i) PROVE LifecycleInv'
  BY <1>9, LookUpStep
<1>10. ASSUME NEW v \in FieldValues, WriteField(v) PROVE LifecycleInv'
  BY <1>10, WriteStep
<1>11. CASE NotifyField
  BY <1>11, NotifyStep
<1>12. ASSUME NEW n \in DOMAIN plugins, SyncReused(n) PROVE LifecycleInv'
  BY <1>12, SyncReusedStep
<1>13. ASSUME NEW n \in DOMAIN plugins, BeginDispose(n) PROVE LifecycleInv'
  BY <1>13, BeginDisposeStep
<1>14. ASSUME NEW n \in DOMAIN plugins, FieldChanged(n) PROVE LifecycleInv'
  BY <1>14, FieldChangedStep
<1>15. CASE (\E n \in DOMAIN plugins : NotifyLooks(n) \/ NotifyCalls(n) \/ NotifyEnds(n))
            \/ StartTeardown \/ EndTeardown
  BY <1>15, ThreadSteps
<1> QED
  BY <1>1, <1>2, <1>3, <1>4, <1>5, <1>6, <1>7, <1>8, <1>9, <1>10, <1>11, <1>12, <1>13, <1>14,
     <1>15 DEF LifecycleNext, LifecycleSteps

(* What an apply works towards holds at each of its steps.                   *)
THEOREM LifecycleInvariant == LifecycleSpec => []LifecycleInv
<1>1. LifecycleInit => LifecycleInv
  BY LifecycleStarts
<1>2. LifecycleInv /\ [LifecycleNext]_lifecycleVars => LifecycleInv'
  BY LifecycleGoesOn
<1> QED
  BY <1>1, <1>2, PTL DEF LifecycleSpec

(* Once dispose_device has detached a device's callbacks, none is running and*)
(* none starts, however its threads and the pool interleave.                 *)
THEOREM NoLateCall == LifecycleSpec => []NoCallAfterDetach
<1>1. LifecycleInv => NoCallAfterDetach
  BY DEF LifecycleInv, InstancesSound, SoundInstance, NoCallAfterDetach
<1> QED
  BY <1>1, LifecycleInvariant, PTL

(* An apply that is over left exactly the configured devices running, as the *)
(* workspace says, whatever was set over OSC meanwhile.                      *)
THEOREM AppliedRuns == LifecycleSpec => []AppliedIsRunning
<1>1. ASSUME LifecycleInv, At("idle") PROVE AppliedIsRunning
  <2>1. /\ ~Syncing /\ Held = inUse /\ ~At("stored") /\ applying.todo = <<>>
        /\ Len(applying.todo) = 0 /\ (\A n : ~Leaving(n))
    <3>1. ~Syncing /\ ~At("stored") /\ (\A n : ~Leaving(n))
      BY <1>1 DEF At, Syncing, Leaving
    <3>2. applying.todo = <<>>
      BY <1>1, <3>1 DEF LifecycleInv, HeldAreMade
    <3> QED
      BY <3>1, <3>2 DEF Held
  <2>2. PICK l \in Nat : /\ l = Len(inUse) /\ DOMAIN inUse = 1..l
                         /\ l = Len(workspace.devices) /\ DOMAIN workspace.devices = 1..l
    <3>1. inUse \in Seq(Nat) /\ workspace.devices \in Seq(DeviceConfig)
      BY <1>1 DEF LifecycleInv, LifecycleTypeOK, WorkspaceConfig
    <3>2. PICK l \in Nat, k \in Nat :
            /\ l = Len(inUse) /\ DOMAIN inUse = 1..l
            /\ k = Len(workspace.devices) /\ DOMAIN workspace.devices = 1..k
      BY <3>1, LenProperties
    <3>3. l + 0 = k
      BY <1>1, <2>1, <3>2 DEF LifecycleInv, HeldMatch
    <3> QED
      BY <3>2, <3>3
  <2>3. /\ DOMAIN fields = {workspace.devices[i].id : i \in DOMAIN workspace.devices}
        /\ \A i \in DOMAIN inUse : fields[plugins[inUse[i]].config.id] = inUse[i]
    BY <1>1 DEF LifecycleInv, FieldsSet, At
  <2>4. ASSUME NEW i \in DOMAIN inUse, NEW p, NEW d, p = plugins[inUse[i]], d = workspace.devices[i]
        PROVE  /\ SameDevice(p, d) /\ p.life = "live" /\ p.hooked /\ ~p.detached
               /\ d.id \in DOMAIN fields /\ fields[d.id] = inUse[i]
               /\ told = {} /\ setting = <<>> /\ ~p.apart => p.chain = WorkerChain(p.config.ops)
    <3>1. inUse[i] \in DOMAIN plugins /\ Holds(inUse[i])
      BY <1>1, <2>1 DEF LifecycleInv, HeldAreMade, Holds
    <3>2. Lives(inUse[i]) /\ p.life = "live"
      BY <1>1, <2>4, <3>1 DEF LifecycleInv, LiveAreHeld, Lives
    <3>3. SoundInstance(p, FALSE)
      <4>1. SoundInstance(p, Leaving(inUse[i]))
        BY <1>1, <2>4, <3>1 DEF LifecycleInv, InstancesSound
      <4> QED
        BY <2>1, <4>1 DEF SoundInstance
    <3>4. Matches(p, d, Writing(inUse[i]))
      BY <1>1, <2>1, <2>4 DEF LifecycleInv, HeldMatch
    <3>5. SameDevice(p, d)
      BY <3>3, <3>4 DEF SameDevice, SoundInstance, Matches, Writing
    <3>6. p.hooked /\ ~p.detached
      BY <1>1, <2>4, <3>2, <3>3 DEF LifecycleInv, HooksSet, SoundInstance
    <3>7. d.id \in DOMAIN fields /\ fields[d.id] = inUse[i]
      BY <2>2, <2>3, <2>4, <3>4 DEF Matches
    <3>8. told = {} /\ setting = <<>> /\ ~p.apart => p.chain = WorkerChain(p.config.ops)
      <4>1. Follows(p, inUse[i] \in told, Writing(inUse[i]) /\ setting.field # 0)
        BY <1>1, <2>4, <3>1, <3>2 DEF LifecycleInv, ChainsFollow
      <4> QED
        BY <4>1 DEF Follows, Writing
    <3> QED
      BY <3>2, <3>5, <3>6, <3>7, <3>8
  <2>5. \A n \in DOMAIN plugins : plugins[n].life = "live" => n \in ToSet(inUse)
    BY <1>1, <2>1 DEF LifecycleInv, LiveAreHeld, Lives, Holds, ToSet
  <2>6. sessions = workspace.sessions /\ receiver.port \in {0, WantedPort}
    BY <1>1 DEF LifecycleInv, RestFollows, At
  <2>7. ASSUME NEW i \in DOMAIN inUse
        PROVE  LET p == plugins[inUse[i]]  d == workspace.devices[i]
               IN /\ SameDevice(p, d) /\ p.life = "live" /\ p.hooked /\ ~p.detached
                  /\ d.id \in DOMAIN fields /\ fields[d.id] = inUse[i]
                  /\ told = {} /\ setting = <<>> /\ ~p.apart => p.chain = WorkerChain(p.config.ops)
    BY <2>4, Zenon
  <2>8. Len(inUse) = Len(workspace.devices)
    BY <2>2
  <2> QED
    BY <2>3, <2>5, <2>6, <2>7, <2>8, Zenon DEF AppliedIsRunning
<1>2. LifecycleInv => AppliedIsRunning
  BY <1>1 DEF AppliedIsRunning
<1> QED
  BY <1>2, LifecycleInvariant, PTL
=============================================================================
