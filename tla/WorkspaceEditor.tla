-------------------------- MODULE WorkspaceEditor --------------------------
(***************************************************************************)
(* The editing of a workspace: WorkspaceModel's operations on the          *)
(* configuration (tree of devices and groups, sessions, their operators,   *)
(* published paths), its undo stack, and the running plugins that follow.  *)
(*                                                                         *)
(* An undoable edit keeps a snapshot of the whole configuration; undo and  *)
(* redo post the snapshot with the one value changed, and the event loop   *)
(* applies it later. Every other operation changes the configuration at    *)
(* once and is not on the stack. A device plugin owns a copy of its part   *)
(* of the configuration, and the registry points into that copy.           *)
(***************************************************************************)
EXTENDS Naturals, Sequences, FiniteSets, SequencesExt

CONSTANTS
  DeviceLabels, GroupLabels, SessionLabels,   \* what nodes may be called
  OperatorLabels,                             \* and what operators may be
  MaxNodes,                                   \* bound: nodes ever created
  MaxSessions,                                \* bound: sessions ever created
  MaxOperators,                               \* bound: operators ever created
  MaxCalls,                                   \* bound: calls of the user
  Opening                                     \* the configurations to start from

Root == 0
PreviewKinds == {"device", "group", "operator", "session operator"}
Labels == DeviceLabels \cup GroupLabels

(* A configuration: the tree of devices and groups, the sessions with their  *)
(* operators and the nodes they have switched off, the sets of paths.        *)
EditorOperator == [id : Nat, label : OperatorLabels, value : {0, 1}]
Node == [kind : {"device", "group"}, parent : Nat, label : Labels, value : {0, 1},
         ops : Seq(EditorOperator)]
Session == [id : Nat, label : SessionLabels, off : SUBSET Nat, value : {0, 1},
            ops : Seq(EditorOperator)]
IsConfig(c) ==
  /\ c = [tree |-> c.tree, sessions |-> c.sessions, publish |-> c.publish, push |-> c.push,
          render |-> c.render, settings |-> c.settings, selected |-> c.selected,
          structure |-> c.structure, era |-> c.era, blurred |-> c.blurred]
  /\ DOMAIN c.tree \subseteq Nat \ {Root} /\ c.tree \in [DOMAIN c.tree -> Node]
  /\ c.sessions \in Seq(Session) /\ Len(c.sessions) >= 1
  /\ c.structure \in Nat /\ c.era \in Nat

IsGroup(c, n) == n \in DOMAIN c.tree /\ c.tree[n].kind = "group"
Groups(c) == {n \in DOMAIN c.tree : IsGroup(c, n)}
DeviceIds(c) == DOMAIN c.tree \ Groups(c)
SessionIds(c) == {c.sessions[i].id : i \in DOMAIN c.sessions}

(* Parents are groups, and no group is within itself; sessions switch off    *)
(* what is there.                                                            *)
Grounded(c) ==
  \A groups \in SUBSET Groups(c) :
    groups # {} => \E g \in groups : c.tree[g].parent \notin groups
Sound(c) ==
  /\ \A n \in DOMAIN c.tree : c.tree[n].parent \in Groups(c) \cup {Root}
  /\ Grounded(c)
  /\ \A i \in DOMAIN c.sessions : c.sessions[i].off \subseteq DOMAIN c.tree

(* What the files to open name.                                              *)
FileNodes == UNION {DOMAIN c.tree : c \in Opening}
FileSessions == UNION {{c.sessions[i].id : i \in DOMAIN c.sessions} : c \in Opening}
OperatorIds(ops) == {ops[i].id : i \in DOMAIN ops}
FileOperators ==
  UNION {UNION ({OperatorIds(c.tree[n].ops) : n \in DOMAIN c.tree}
                \cup {OperatorIds(c.sessions[i].ops) : i \in DOMAIN c.sessions}) : c \in Opening}

(* The files were saved by the program; nodes are numbered from one.         *)
ASSUME EditorAssumption ==
  /\ MaxNodes \in Nat /\ MaxSessions \in Nat /\ MaxOperators \in Nat
  /\ MaxCalls \in Nat
  /\ \A c \in Opening : IsConfig(c) /\ Sound(c)
  /\ IsFiniteSet(FileNodes) /\ FileNodes = 1..Cardinality(FileNodes)
  /\ IsFiniteSet(FileSessions) /\ IsFiniteSet(FileOperators)

VARIABLES
  config,     \* Workspace::config
  devices,    \* the running plugins: id |-> their copy, and in_any_session
  registry,   \* the prefixes the configuration registry knows
  watched,    \* where the adapter of each device has subscribed to the registry
  undoStack,  \* the commands, each with the configurations of undo and redo
  undone,     \* how many of them are undone
  posted,     \* applies that wait for the event loop
  preview,    \* for each kind of gesture the one in progress, or <<>>
  selected,   \* _selectedSessionId
  created,    \* created so far: <<nodes, sessions, operators>>
  calls,      \* calls so far
  crossed,    \* history: an apply brought back an older structure
  apart,      \* history: devices told less than the configuration, see below
  unlisted    \* history: devices whose operators changed since the registry was filled

stackVars == <<undoStack, undone, posted>>
gapVars == <<crossed, apart, unlisted>>
editorVars == <<config, devices, registry, watched, stackVars, preview, selected,
                created, calls, gapVars>>

-----------------------------------------------------------------------------
(* The chain of groups above a node, outermost first, and the node itself.   *)
Lineage(c, n) ==
  LET up[k \in 0..MaxNodes] ==
        IF k = 0 THEN <<n>>
        ELSE LET below == up[k - 1]
                 p == c.tree[Head(below)].parent
             IN IF IsGroup(c, p) THEN <<p>> \o below ELSE below
  IN up[MaxNodes]

(* A node and whatever is below it: what no set can leave out that has the   *)
(* node and, with a group, its children.                                     *)
Subtree(c, n) ==
  LET downward == {below \in SUBSET DOMAIN c.tree :
                     /\ n \in below
                     /\ \A m \in DOMAIN c.tree :
                          c.tree[m].parent \in below \cap Groups(c) => m \in below}
  IN {m \in DOMAIN c.tree : \A below \in downward : m \in below}

Prefix(c, n) ==
  LET line == Lineage(c, n)
  IN <<"device">> \o [i \in DOMAIN line |-> c.tree[line[i]].label]
SessionPrefix(s) == <<"session", s.label>>
OperatorPrefix(owner, op) == owner \o <<"operators", op.label>>
OperatorPrefixes(owner, ops) == {OperatorPrefix(owner, ops[i]) : i \in DOMAIN ops}
FieldOf(prefix) == Append(prefix, "field")

SessionAt(c, id) == SelectInSeq(c.sessions, LAMBDA s : s.id = id)

(* effective_session_enabled and in_any_session.                             *)
Enabled(c, s, n) ==
  s.off \cap (IF n \in DOMAIN c.tree THEN ToSet(Lineage(c, n)) ELSE {n}) = {}
InAnySession(c, n) == \E i \in DOMAIN c.sessions : Enabled(c, c.sessions[i], n)

-----------------------------------------------------------------------------
(* The sets of paths.                                                        *)
RerootSet(paths, from, to) ==
  {IF IsStrictPrefix(from, p) THEN to \o SubSeq(p, Len(from) + 1, Len(p)) ELSE p :
     p \in paths}
Reroot(c, from, to) ==
  [c EXCEPT !.publish = RerootSet(@, from, to), !.push = RerootSet(@, from, to),
            !.render = RerootSet(@, from, to)]
ErasePaths(c, prefix) ==
  LET kept(paths) == {p \in paths : ~IsStrictPrefix(prefix, p)}
  IN [c EXCEPT !.publish = kept(@), !.push = kept(@), !.render = kept(@)]
EraseFromSessions(c, n) ==
  [c EXCEPT !.sessions = [i \in DOMAIN @ |-> [@[i] EXCEPT !.off = c.sessions[i].off \ {n}]]]

(* Nothing keeps the user from giving two siblings one label: they share an  *)
(* address then, and their paths cannot be told apart; or a node the label   *)
(* of its group: its paths are erased with the group's. `blurred' notes it.  *)
Clash(c) ==
  \/ \E m, n \in DOMAIN c.tree :
       /\ m # n
       /\ \/ Prefix(c, m) = Prefix(c, n)
          \/ c.tree[m].parent = n /\ c.tree[m].label = c.tree[n].label
  \/ \E i, j \in DOMAIN c.sessions : i # j /\ c.sessions[i].label = c.sessions[j].label
  \/ \E ops \in {c.tree[n].ops : n \in DOMAIN c.tree}
                 \cup {c.sessions[i].ops : i \in DOMAIN c.sessions} :
       \E i, j \in DOMAIN ops : i # j /\ ops[i].label = ops[j].label
Noted(c) == [c EXCEPT !.blurred = @ \/ Clash(c)]

(* Configuration c with the node relabelled or moved, paths and all.         *)
WithNode(c, n, node) ==
  LET changed == [c EXCEPT !.tree[n] = node]
  IN Reroot(changed, Prefix(c, n), Prefix(changed, n))

DropNodes(c, gone) ==
  [c EXCEPT !.tree = [n \in DOMAIN @ \ gone |-> @[n]]]

-----------------------------------------------------------------------------
(* Workspace::apply_new_config: the configuration, then the devices when     *)
(* asked to, the sessions, the memberships and the registry.                 *)
Synced(c, old) ==
  [d \in DeviceIds(c) |->
     [copy |-> c.tree[d], member |-> IF d \in DOMAIN old THEN old[d].member ELSE TRUE]]
Members(c, running) ==
  [d \in DOMAIN running |-> [running[d] EXCEPT !.member = InAnySession(c, d)]]
AddressOf(c, d) == IF d \in DOMAIN c.tree THEN Prefix(c, d) ELSE <<"device", "no label">>
WithOperators(owner, ops) == {owner} \cup OperatorPrefixes(owner, ops)
Registered(c, running) ==
  UNION ({WithOperators(SessionPrefix(c.sessions[i]), c.sessions[i].ops) : i \in DOMAIN c.sessions}
         \cup {{Prefix(c, g)} : g \in Groups(c)}
         \cup {WithOperators(AddressOf(c, d), running[d].copy.ops) : d \in DOMAIN running})

Watching(c, running) == [d \in DOMAIN running |-> AddressOf(c, d)]

(* The adapters of the devices subscribe to the address of their device, and *)
(* are only rebuilt when devices are synchronised. `apart' notes the devices *)
(* whose configuration was replaced without that.                            *)
Apply(c, syncDevices) ==
  LET running == Members(c, IF syncDevices THEN Synced(c, devices) ELSE devices)
  IN /\ config' = Noted(c)
     /\ devices' = running
     /\ registry' = Registered(c, running)
     /\ unlisted' = {}
     /\ watched' = IF syncDevices THEN Watching(c, running) ELSE watched
     /\ apart' = IF syncDevices THEN {}
                 ELSE apart \cup {d \in DOMAIN c.tree :
                                     d \notin DOMAIN config.tree \/ c.tree[d] # config.tree[d]}

(* The selection has to name a session that still exists.                    *)
Selection(c, wanted) ==
  IF wanted \in SessionIds(c) THEN wanted
  ELSE IF c.selected \in SessionIds(c) THEN c.selected
  ELSE c.sessions[1].id

EditorInit ==
  /\ config \in Opening
  /\ devices = Members(config, Synced(config, <<>>))
  /\ registry = Registered(config, devices)
  /\ watched = Watching(config, devices)
  /\ undoStack = <<>> /\ undone = 0 /\ posted = <<>>
  /\ preview = [kind \in PreviewKinds |-> <<>>]
  /\ selected = Selection(config, config.selected)
  /\ created = <<Cardinality(FileNodes), Cardinality(FileSessions), Cardinality(FileOperators)>>
  /\ calls = 0
  /\ crossed = FALSE /\ apart = {} /\ unlisted = {}

-----------------------------------------------------------------------------
(* Calls that take effect at once. `structure' counts them, and `era' the    *)
(* files that were loaded: an older snapshot can be told by them.            *)
Called == calls < MaxCalls /\ calls' = calls + 1
Restructured(c) == [c EXCEPT !.structure = @ + 1]
AtOnce(c, syncDevices) ==
  /\ Apply(Restructured(c), syncDevices)
  /\ UNCHANGED <<stackVars, preview, crossed>>

(* What the user sees a row for.                                             *)
Shown(c) ==
  Registered(c, [d \in DeviceIds(c) \cap DOMAIN devices |-> [copy |-> c.tree[d]]])
EditPaths ==
  /\ Called
  /\ \E prefix \in Shown(config) :
       LET p == FieldOf(prefix)
       IN \E c \in {[config EXCEPT !.publish = @ \cup {p}],
                    [config EXCEPT !.publish = @ \ {p}, !.push = @ \ {p}],
                    [config EXCEPT !.render = @ \cup {p}],
                    [config EXCEPT !.render = @ \ {p}]}
                   \cup (IF p \notin config.publish THEN {}
                         ELSE {[config EXCEPT !.push = @ \cup {p}],
                               [config EXCEPT !.push = @ \ {p}]}) :
            c # config /\ AtOnce(c, FALSE)
  /\ UNCHANGED <<selected, created>>

LabelsOf(c, nodes) == {c.tree[n].label : n \in nodes}

AddDevice ==
  /\ Called /\ created[1] < MaxNodes
  /\ created' = [created EXCEPT ![1] = @ + 1]
  /\ LET id == created[1] + 1
         free == DeviceLabels \ LabelsOf(config, DeviceIds(config))
     IN /\ free # {}
        /\ AtOnce([config EXCEPT !.tree = [n \in DOMAIN @ \cup {id} |->
             IF n = id THEN [kind |-> "device", parent |-> Root,
                             label |-> CHOOSE l \in free : TRUE, value |-> 0, ops |-> <<>>]
             ELSE @[n]]], TRUE)
  /\ UNCHANGED selected

CreateGroup ==
  /\ Called /\ created[1] < MaxNodes
  /\ created' = [created EXCEPT ![1] = @ + 1]
  /\ LET id == created[1] + 1
         free == GroupLabels \ LabelsOf(config, Groups(config))
     IN /\ free # {}
        /\ \E p \in Groups(config) \cup {Root} :
             AtOnce([config EXCEPT !.tree = [n \in DOMAIN @ \cup {id} |->
               IF n = id THEN [kind |-> "group", parent |-> p,
                               label |-> CHOOSE l \in free : TRUE, value |-> 0, ops |-> <<>>]
               ELSE @[n]]], TRUE)
  /\ UNCHANGED selected

(* Copies of operators get ids of their own.                                 *)
Renewed(ops, first) == [i \in DOMAIN ops |-> [ops[i] EXCEPT !.id = first + i]]

(* A device is copied beside itself, a group with all it holds; the copies   *)
(* keep their labels, and those within the group their place in its copy.    *)
Duplicate ==
  /\ Called
  /\ \E n \in DOMAIN config.tree :
       LET set == Subtree(config, n)
           from == SetToSeq(set)
           new(m) == created[1] + SelectInSeq(from, LAMBDA x : x = m)
           before(m) == FoldLeft(LAMBDA sum, x : IF new(x) < new(m)
                                   THEN sum + Len(config.tree[x].ops) ELSE sum, 0, from)
           operators == FoldLeft(LAMBDA sum, x : sum + Len(config.tree[x].ops), 0, from)
           ids == DOMAIN config.tree \cup {new(m) : m \in set}
           copied(id) ==
             LET m == from[id - created[1]]
                 node == [config.tree[m] EXCEPT !.ops = Renewed(@, created[3] + before(m))]
             IN IF node.parent \in set THEN [node EXCEPT !.parent = new(@)] ELSE node
       IN /\ created[1] + Len(from) <= MaxNodes /\ created[3] + operators <= MaxOperators
          /\ created' = [created EXCEPT ![1] = @ + Len(from), ![3] = @ + operators]
          /\ AtOnce([config EXCEPT !.tree = [id \in ids |->
                       IF id \in DOMAIN @ THEN @[id] ELSE copied(id)]], TRUE)
  /\ UNCHANGED selected

WithoutDevice(c, d) ==
  EraseFromSessions(ErasePaths(DropNodes(c, {d}), Prefix(c, d)), d)
DeleteDevice ==
  /\ Called
  /\ \E d \in DeviceIds(config) : AtOnce(WithoutDevice(config, d), TRUE)
  /\ UNCHANGED <<selected, created>>

(* The children of a deleted group go to its parent, their paths with them.  *)
WithoutGroup(c, g) ==
  LET children == {n \in DOMAIN c.tree : c.tree[n].parent = g}
      tree == [n \in DOMAIN c.tree |->
                 IF n \in children THEN [c.tree[n] EXCEPT !.parent = c.tree[g].parent]
                 ELSE c.tree[n]]
      lifted == DropNodes([c EXCEPT !.tree = tree], {g})
      follow(paths) == FoldLeft(LAMBDA acc, n : RerootSet(acc, Prefix(c, n), Prefix(lifted, n)),
                                paths, SetToSeq(children))
      rerooted == [lifted EXCEPT !.publish = follow(@), !.push = follow(@), !.render = follow(@)]
  IN EraseFromSessions(ErasePaths(rerooted, Prefix(c, g)), g)
DeleteGroup ==
  /\ Called
  /\ \E g \in Groups(config) : AtOnce(WithoutGroup(config, g), TRUE)
  /\ UNCHANGED <<selected, created>>

LabelGroup ==
  /\ Called
  /\ \E g \in Groups(config), l \in Labels :
       AtOnce(WithNode(config, g, [config.tree[g] EXCEPT !.label = l]), TRUE)
  /\ UNCHANGED <<selected, created>>

(* Slip: a group may be dropped into a group of its own.                     *)
CanMoveAnywhere(c, n, p) == p \in (Groups(c) \cup {Root}) \ {n}

(* A drag in the device list: into a group, or beside a row. The live        *)
(* configuration is changed in place; the plugins and the memberships are    *)
(* not told.                                                                 *)
CanMove(c, n, p) == p \in (Groups(c) \cup {Root}) \ Subtree(c, n)
Move ==
  /\ Called
  /\ \E n \in DOMAIN config.tree, p \in DOMAIN config.tree \cup {Root} :
       /\ n # p /\ CanMove(config, n, p) /\ p # config.tree[n].parent
       /\ config' = Noted(Restructured(
                      WithNode(config, n, [config.tree[n] EXCEPT !.parent = p])))
  /\ registry' = Registered(config', devices) /\ unlisted' = {}
  /\ watched' = Watching(config', devices)
  /\ UNCHANGED <<devices, stackVars, preview, selected, created, crossed, apart>>

-----------------------------------------------------------------------------
(* Sessions.                                                                 *)
SelectSession ==
  /\ Called
  /\ selected' \in SessionIds(config) \ {selected}
  /\ config' = [config EXCEPT !.selected = selected']
  /\ UNCHANGED <<devices, registry, watched, stackVars, preview, created, gapVars>>

AppendSession(s) ==
  /\ created[2] < MaxSessions
  /\ created' = [created EXCEPT ![2] = @ + 1, ![3] = @ + Len(s.ops)]
  /\ created[3] + Len(s.ops) <= MaxOperators
  /\ LET free == SessionLabels \ {config.sessions[i].label : i \in DOMAIN config.sessions}
         new == [s EXCEPT !.id = created[2] + 1, !.ops = Renewed(@, created[3]),
                          !.label = CHOOSE l \in free : TRUE]
     IN /\ free # {}
        /\ AtOnce([config EXCEPT !.selected = new.id, !.sessions = Append(@, new)], FALSE)
  /\ selected' = created[2] + 1
AddSession ==      \* with every node switched off
  /\ Called
  /\ AppendSession([id |-> 0, label |-> "", off |-> DOMAIN config.tree, value |-> 0,
                    ops |-> <<>>])
DuplicateSession ==
  /\ Called
  /\ \E i \in DOMAIN config.sessions : AppendSession(config.sessions[i])

RemoveSession ==
  /\ Called /\ Len(config.sessions) > 1
  /\ \E i \in DOMAIN config.sessions :
       LET s == config.sessions[i]
           left == RemoveAt(config.sessions, i)
           next == IF selected # s.id THEN selected
                   ELSE left[IF i <= Len(left) THEN i ELSE Len(left)].id
       IN /\ AtOnce(ErasePaths([config EXCEPT !.sessions = left, !.selected = next],
                               SessionPrefix(s)), FALSE)
          /\ selected' = Selection(config', next)
  /\ UNCHANGED created

LabelSession ==
  /\ Called
  /\ \E i \in DOMAIN config.sessions, l \in SessionLabels :
       /\ \A j \in DOMAIN config.sessions : config.sessions[j].label # l
       /\ LET changed == [config EXCEPT !.sessions[i].label = l]
          IN AtOnce(Reroot(changed, SessionPrefix(config.sessions[i]),
                           SessionPrefix(changed.sessions[i])), FALSE)
  /\ selected' = Selection(config', selected)
  /\ UNCHANGED created

SwitchNode ==
  /\ Called /\ SessionAt(config, selected) # 0
  /\ \E n \in DOMAIN config.tree :
       AtOnce([config EXCEPT !.sessions[SessionAt(config, selected)].off =
                 IF n \in @ THEN @ \ {n} ELSE @ \cup {n}], FALSE)
  /\ UNCHANGED <<selected, created>>

LoadFile ==
  /\ Called
  /\ \E c \in Opening :
       /\ Apply([c EXCEPT !.structure = config.structure + 1, !.era = config.era + 1], TRUE)
       /\ selected' = Selection(config', selected)
  /\ undoStack' = <<>> /\ undone' = 0
  /\ UNCHANGED <<posted, preview, created, crossed>>

-----------------------------------------------------------------------------
(* Operators are added, removed and moved in the configuration first. The    *)
(* registry is filled then; the plugin takes its new copy after that.        *)
FreshOperator(ops) ==
  [id |-> created[3] + 1, value |-> 0,
   label |-> CHOOSE l \in OperatorLabels : \A i \in DOMAIN ops : ops[i].label # l]
CanAddOperator(ops) ==
  /\ created[3] < MaxOperators
  /\ OperatorLabels # {ops[i].label : i \in DOMAIN ops}
Reordered(ops, i, j) == InsertAt(RemoveAt(ops, i), j, ops[i])
Reorders(ops) == {Reordered(ops, i, j) : i, j \in DOMAIN ops} \ {ops}

UpdateOperators(d, c) ==
  LET running == Members(c, devices)
  IN /\ config' = Noted(Restructured(c))
     /\ devices' = [running EXCEPT ![d].copy = c.tree[d]]
     /\ registry' = Registered(c, running)
     /\ unlisted' = {d}
     /\ apart' = (apart \cup {e \in DOMAIN c.tree : c.tree[e] # config.tree[e]}) \ {d}
     /\ UNCHANGED <<watched, stackVars, preview, crossed, selected>>

WithDeviceOperators(c, d, ops) == [c EXCEPT !.tree[d].ops = ops]
AddDeviceOperator ==
  /\ Called
  /\ created' = [created EXCEPT ![3] = @ + 1]
  /\ \E d \in DeviceIds(config) \cap DOMAIN devices :
       LET ops == config.tree[d].ops
       IN /\ CanAddOperator(ops)
          /\ UpdateOperators(d, WithDeviceOperators(config, d, Append(ops, FreshOperator(ops))))
RemoveDeviceOperator ==
  /\ Called /\ UNCHANGED created
  /\ \E d \in DeviceIds(config) \cap DOMAIN devices :
       \E i \in DOMAIN config.tree[d].ops :
         UpdateOperators(d, ErasePaths(
           WithDeviceOperators(config, d, RemoveAt(config.tree[d].ops, i)),
           OperatorPrefix(Prefix(config, d), config.tree[d].ops[i])))
ReorderDeviceOperators ==
  /\ Called /\ UNCHANGED created
  /\ \E d \in DeviceIds(config) \cap DOMAIN devices :
       \E ops \in Reorders(config.tree[d].ops) :
         UpdateOperators(d, WithDeviceOperators(config, d, ops))

WithSessionOperators(c, i, ops) == [c EXCEPT !.sessions[i].ops = ops]
EditSessionOperators ==     \* the same on a session
  /\ Called
  /\ \E i \in DOMAIN config.sessions :
       LET s == config.sessions[i]
       IN \/ /\ CanAddOperator(s.ops)
             /\ created' = [created EXCEPT ![3] = @ + 1]
             /\ AtOnce(WithSessionOperators(config, i, Append(s.ops, FreshOperator(s.ops))), FALSE)
          \/ /\ \E k \in DOMAIN s.ops :
                  AtOnce(ErasePaths(WithSessionOperators(config, i, RemoveAt(s.ops, k)),
                                    OperatorPrefix(SessionPrefix(s), s.ops[k])), FALSE)
             /\ UNCHANGED created
          \/ /\ \E ops \in Reorders(s.ops) : AtOnce(WithSessionOperators(config, i, ops), FALSE)
             /\ UNCHANGED created
  /\ selected' = Selection(config', selected)

-----------------------------------------------------------------------------
(* Undoable edits. Pushing a command runs its redo, which posts an apply.    *)
Command(back, forth, syncDevices, syncSessions) ==
  [back |-> back, forth |-> forth, devices |-> syncDevices, sessions |-> syncSessions]
Post(c, command) == Append(posted, [config |-> c, devices |-> command.devices,
                                    sessions |-> command.sessions])
Push(command) ==
  /\ undoStack' = Append(SubSeq(undoStack, 1, Len(undoStack) - undone), command)
  /\ undone' = 0
  /\ posted' = Post(command.forth, command)

SetNode(c, n, node) == [c EXCEPT !.tree[n] = node]
Toggled(r) == [r EXCEPT !.value = 1 - @]

(* A drag previews its edit until it is released; what undo has to come back *)
(* to is the configuration of its first step. A gesture that was never       *)
(* finished is taken up again by the next on the same object.                *)
InGesture(kind, id) == preview[kind] # <<>> /\ preview[kind].id = id
BaseOf(kind, id) == IF InGesture(kind, id) THEN preview[kind].base ELSE config
Opened(kind, id) ==
  preview' = [preview EXCEPT ![kind] = [id |-> id, base |-> BaseOf(kind, id)]]
Closed(kind, id) ==
  preview' = IF InGesture(kind, id) THEN [preview EXCEPT ![kind] = <<>>] ELSE preview

(* An edit writes a node whole. The copy of a device that was moved still    *)
(* has the old parent, and takes the device back there, but not its paths;   *)
(* and the base of a gesture may have other labels (`blurred').              *)
Titled(ops) == {<<ops[i].id, ops[i].label>> : i \in DOMAIN ops}
Address(node) == <<node.parent, node.label, Titled(node.ops)>>
Written(c, n, node) ==
  [SetNode(c, n, node) EXCEPT !.blurred = @ \/ Address(node) # Address(c.tree[n])]
AllWritten(c, nodes, running) ==
  [c EXCEPT !.tree = [n \in DOMAIN @ |-> IF n \in nodes THEN running[n].copy ELSE @[n]],
            !.blurred = @ \/ \E n \in nodes : Address(running[n].copy) # Address(c.tree[n])]
WriteBack(d, copy) ==
  /\ devices' = [devices EXCEPT ![d].copy = copy]
  /\ config' = Written(config, d, copy)

PreviewDevice ==
  /\ Called
  /\ \E d \in DeviceIds(config) \cap DOMAIN devices :
       Opened("device", d) /\ WriteBack(d, Toggled(devices[d].copy))
  /\ UNCHANGED <<registry, watched, stackVars, selected, created, gapVars>>

EditDevice ==
  /\ Called
  /\ \E d \in DeviceIds(config) \cap DOMAIN devices :
       LET after == Toggled(devices[d].copy)
           base == BaseOf("device", d)
       IN /\ WriteBack(d, after)
          /\ Closed("device", d)
          /\ Push(Command(base, Written(base, d, after), TRUE, FALSE))
  /\ UNCHANGED <<registry, watched, selected, created, gapVars>>

(* A message of OSC, or the device's own tick: the registry writes into the  *)
(* plugin's copy, and the adapters of the devices at that address write the  *)
(* copies into the configuration. A field of a group is passed on to what is *)
(* below it.                                                                 *)
Heard(written, running) ==
  LET heard == {e \in DOMAIN watched \cap DOMAIN running \cap DeviceIds(config) :
                  \E d \in written : watched[e] = Prefix(config, d)}
  IN /\ devices' = running
     /\ config' = AllWritten(config, heard, running)
     /\ apart' = apart \cup (written \ heard)
FieldSet ==
  /\ Called
  /\ \E d \in DeviceIds(config) \cap DOMAIN devices :
       Heard({d}, [devices EXCEPT ![d].copy = Toggled(@)])
  /\ UNCHANGED <<registry, watched, stackVars, preview, selected, created, crossed, unlisted>>

Below(g) == Subtree(config, g) \cap DeviceIds(config) \cap DOMAIN devices
GroupTold(g, value) ==
  [d \in DOMAIN devices |-> IF d \in Below(g) THEN [devices[d] EXCEPT !.copy.value = value]
                            ELSE devices[d]]

(* An operator of a device is edited in the workspace's configuration, and   *)
(* copied from there to the plugin. When it is its label that changes, the   *)
(* paths follow as the command is applied (`blurred' until then).            *)
EditsOf(op) == {Toggled(op)} \cup {[op EXCEPT !.label = l] : l \in OperatorLabels \ {op.label}}
Indexed(ops, id) == SelectInSeq(ops, LAMBDA op : op.id = id)
Replaced(ops, op) ==
  IF Indexed(ops, op.id) = 0 THEN ops ELSE [ops EXCEPT ![Indexed(ops, op.id)] = op]
(* Slip: the plugin's own copy is forgotten.                                 *)
PutOperatorAlone(d, op) ==
  /\ config' = Written(config, d, [config.tree[d] EXCEPT !.ops = Replaced(@, op)])
  /\ UNCHANGED <<devices, unlisted>>
PutOperator(d, op) ==
  /\ config' = Written(config, d, [config.tree[d] EXCEPT !.ops = Replaced(@, op)])
  /\ devices' = [devices EXCEPT ![d].copy.ops = Replaced(@, op)]
  /\ unlisted' = IF Titled(devices'[d].copy.ops) = Titled(devices[d].copy.ops) THEN unlisted
                 ELSE unlisted \cup {d}

RerootOperators(c, from, to, before, after) ==
  LET follow(paths) ==
        FoldLeft(LAMBDA acc, op :
                   LET i == Indexed(before, op.id)
                   IN IF i = 0 THEN acc
                      ELSE RerootSet(acc, OperatorPrefix(from, before[i]), OperatorPrefix(to, op)),
                 paths, after)
  IN [c EXCEPT !.publish = follow(@), !.push = follow(@), !.render = follow(@)]
OperatorForth(base, d, op) ==
  LET ops == Replaced(base.tree[d].ops, op)
      owner == Prefix(base, d)
  IN RerootOperators(WithDeviceOperators(base, d, ops), owner, owner, base.tree[d].ops, ops)

PreviewOperator ==
  /\ Called
  /\ \E d \in DeviceIds(config) \cap DOMAIN devices : \E i \in DOMAIN config.tree[d].ops :
       LET op == config.tree[d].ops[i]
       IN Opened("operator", <<d, op.id>>) /\ PutOperator(d, Toggled(op))
  /\ UNCHANGED <<registry, watched, stackVars, selected, created, crossed, apart>>

EditOperator ==
  /\ Called
  /\ \E d \in DeviceIds(config) \cap DOMAIN devices : \E i \in DOMAIN config.tree[d].ops :
       \E op \in EditsOf(config.tree[d].ops[i]) :
         LET base == BaseOf("operator", <<d, op.id>>)
         IN /\ PutOperator(d, op)
            /\ Closed("operator", <<d, op.id>>)
            /\ Push(Command(base, OperatorForth(base, d, op), FALSE, FALSE))
  /\ UNCHANGED <<registry, watched, selected, created, crossed, apart>>

(* A group's sequence is played or scrubbed: its devices are told first.     *)
PreviewGroup ==
  /\ Called
  /\ \E g \in Groups(config) :
       /\ Opened("group", g)
       /\ config' = SetNode(config, g, Toggled(config.tree[g]))
  /\ UNCHANGED <<devices, registry, watched, stackVars, selected, created, gapVars>>

EditGroup ==
  /\ Called
  /\ \E g \in Groups(config), transport \in BOOLEAN :
       LET after == Toggled(config.tree[g])
           running == IF transport THEN GroupTold(g, after.value) ELSE devices
           told == IF transport THEN AllWritten(config, Below(g), running) ELSE config
           base == IF InGesture("group", g) THEN BaseOf("group", g) ELSE told
       IN /\ devices' = running
          /\ config' = SetNode(told, g, after)
          /\ Closed("group", g)
          /\ Push(Command(base, Written(base, g, after), TRUE, FALSE))
  /\ UNCHANGED <<registry, watched, selected, created, gapVars>>

GroupFieldSet ==
  /\ Called
  /\ \E g \in Groups(config) :
       LET value == 1 - config.tree[g].value
           running == GroupTold(g, value)
           heard == {d \in Below(g) : d \in DOMAIN watched /\ watched[d] = Prefix(config, d)}
           told == AllWritten(config, heard, running)
       IN /\ devices' = running
          /\ config' = [told EXCEPT !.tree = [n \in DOMAIN @ |->
               IF n \in Subtree(config, g) \cap Groups(config)
               THEN [@[n] EXCEPT !.value = value] ELSE @[n]]]
          /\ apart' = apart \cup (Below(g) \ heard)
  /\ UNCHANGED <<registry, watched, stackVars, preview, selected, created, crossed, unlisted>>

(* Slip: the command carries the label alone.                                *)
RelabelledAlone(c, d, l) == [c EXCEPT !.tree[d].label = l]

(* The command carries the published and pushed paths, not the rendered.     *)
Relabelled(c, d, l) ==
  LET renamed == WithNode(c, d, [c.tree[d] EXCEPT !.label = l])
  IN [renamed EXCEPT !.render = c.render]
LabelDevice ==
  /\ Called
  /\ \E d \in DeviceIds(config), l \in Labels :
       /\ l # config.tree[d].label
       /\ Push(Command(config, Relabelled(config, d, l), TRUE, FALSE))
  /\ UNCHANGED <<config, devices, registry, watched, preview, selected, created, gapVars>>

(* A field of a session or of its operators, their labels among them: the    *)
(* live value first, the paths when the command is applied (`blurred' until  *)
(* then, and in whatever snapshot is taken meanwhile).                       *)
Titles(s) == <<s.label, Titled(s.ops)>>
PutSession(i, s) ==
  config' = [config EXCEPT !.sessions[i] = s, !.blurred = @ \/ Titles(s) # Titles(config.sessions[i])]
SessionForth(base, s) ==
  LET i == SessionAt(base, s.id)
      old == base.sessions[i]
      moved == Reroot([base EXCEPT !.sessions[i] = s], SessionPrefix(old), SessionPrefix(s))
  IN RerootOperators(moved, SessionPrefix(s), SessionPrefix(s), old.ops, s.ops)

EditSession ==
  /\ Called
  /\ \E i \in DOMAIN config.sessions :
       \E s \in {Toggled(config.sessions[i])}
                 \cup {[config.sessions[i] EXCEPT !.label = l] : l \in SessionLabels} :
         /\ s # config.sessions[i]
         /\ PutSession(i, s)
         /\ Push(Command(config, SessionForth(config, s), FALSE, TRUE))
  /\ UNCHANGED <<devices, registry, watched, preview, selected, created, gapVars>>

PreviewSessionOperator ==
  /\ Called
  /\ \E i \in DOMAIN config.sessions : \E k \in DOMAIN config.sessions[i].ops :
       LET s == config.sessions[i]
       IN /\ Opened("session operator", <<s.id, s.ops[k].id>>)
          /\ PutSession(i, [s EXCEPT !.ops[k] = Toggled(@)])
  /\ UNCHANGED <<devices, registry, watched, stackVars, selected, created, gapVars>>

EditSessionOperator ==
  /\ Called
  /\ \E i \in DOMAIN config.sessions : \E k \in DOMAIN config.sessions[i].ops :
       \E op \in EditsOf(config.sessions[i].ops[k]) :
         LET s == [config.sessions[i] EXCEPT !.ops[k] = op]
             base == BaseOf("session operator", <<s.id, op.id>>)
         IN /\ PutSession(i, s)
            /\ Closed("session operator", <<s.id, op.id>>)
            /\ Push(Command(base, SessionForth(base, s), FALSE, TRUE))
  /\ UNCHANGED <<devices, registry, watched, selected, created, gapVars>>

EditSettings ==    \* of the point streamer or the publishers
  /\ Called
  /\ config' = [config EXCEPT !.settings = 1 - @]
  /\ Push(Command(config, config', FALSE, FALSE))
  /\ UNCHANGED <<devices, registry, watched, preview, selected, created, gapVars>>

Undo ==
  /\ Called /\ undone < Len(undoStack)
  /\ undone' = undone + 1
  /\ posted' = LET top == undoStack[Len(undoStack) - undone] IN Post(top.back, top)
  /\ UNCHANGED <<config, devices, registry, watched, undoStack, preview, selected, created,
                 gapVars>>
Redo ==
  /\ Called /\ undone > 0
  /\ undone' = undone - 1
  /\ posted' = LET next == undoStack[Len(undoStack) - undone + 1]
               IN Post(next.forth, next)
  /\ UNCHANGED <<config, devices, registry, watched, undoStack, preview, selected, created,
                 gapVars>>

RunPosted ==
  /\ posted # <<>>
  /\ posted' = Tail(posted)
  /\ Apply(Head(posted).config, Head(posted).devices)
  /\ selected' = IF Head(posted).sessions THEN Selection(config', selected) ELSE selected
  /\ crossed' = (crossed \/ Head(posted).config.structure # config.structure)
  /\ UNCHANGED <<undoStack, undone, preview, created, calls>>

EditTree == AddDevice \/ CreateGroup \/ Duplicate \/ DeleteDevice \/ DeleteGroup
            \/ LabelGroup \/ Move
EditSessions == SelectSession \/ AddSession \/ DuplicateSession \/ RemoveSession
                \/ LabelSession \/ SwitchNode
EditOperators == AddDeviceOperator \/ RemoveDeviceOperator \/ ReorderDeviceOperators
                 \/ EditSessionOperators \/ PreviewOperator \/ EditOperator
                 \/ PreviewSessionOperator \/ EditSessionOperator
EditFields == PreviewDevice \/ EditDevice \/ FieldSet \/ PreviewGroup \/ EditGroup
              \/ GroupFieldSet \/ LabelDevice \/ EditSession \/ EditSettings
EditorNext == EditPaths \/ EditTree \/ EditSessions \/ EditOperators \/ EditFields \/ LoadFile
              \/ Undo \/ Redo \/ RunPosted
EditorSpec == EditorInit /\ [][EditorNext]_editorVars

-----------------------------------------------------------------------------
(* Whatever the configuration refers to exists, unless an undo or the end of *)
(* a gesture has brought back an older structure: parents are groups, and no *)
(* group is within itself (the loops that climb the tree would not end); the *)
(* nodes a session has switched off; the selected session; a running plugin  *)
(* for every device and the other way round. Each operation must ask for the *)
(* right part of the workspace to be synchronised, and mend every list that  *)
(* names a node.                                                             *)
ReferencesExist ==
  ~crossed =>
    /\ Sound(config)
    /\ selected \in SessionIds(config)
    /\ DOMAIN devices = DeviceIds(config)

(* What a plugin runs is what the workspace has for it, in every field of    *)
(* the device and of its operators, whatever is posted or was undone: the    *)
(* two copies are written by five different paths (an edit, a drag, a message*)
(* to the registry, a transport of the group, an operator's edit), each of   *)
(* which has to reach both. `apart' are the devices for which one of them is *)
(* known not to: the undo of an operator's edit restores the configuration   *)
(* alone.                                                                    *)
RunningAsConfigured ==
  \A d \in (DOMAIN devices \cap DOMAIN config.tree) \ apart :
    /\ devices[d].copy.value = config.tree[d].value
    /\ devices[d].copy.ops = config.tree[d].ops

(* With nothing posted, unless an older structure was brought back, what is  *)
(* published is among the paths of the registry, or it would never be sent,  *)
(* and what is pushed is published. The operators of some devices the        *)
(* registry does not know: after one was added to the device, and after the  *)
(* label of one was undone.                                                  *)
Unheard ==
  unlisted \cup {d \in DOMAIN devices : d \in DOMAIN config.tree
                   /\ Titled(devices[d].copy.ops) # Titled(config.tree[d].ops)}
Sent(p) ==
  \/ \E prefix \in registry : p = FieldOf(prefix)
  \/ \E d \in Unheard : IsStrictPrefix(Append(Prefix(config, d), "operators"), p)
PublishedIsSent ==
  posted = <<>> /\ ~crossed /\ ~config.blurred =>
    /\ \A p \in config.publish : Sent(p)
    /\ config.push \subseteq config.publish

(* What is published is sent, and a node or an operator that survives a      *)
(* change stays published exactly if it was: its paths move with its address *)
(* and nobody else's are taken along. So does every undoable edit, from the  *)
(* one side of its command to the other.                                     *)
Places(c) ==
  {<<"node", n, Prefix(c, n)>> : n \in DOMAIN c.tree}
  \cup UNION {{<<"operator", op.id, OperatorPrefix(Prefix(c, n), op)>> :
                 op \in ToSet(c.tree[n].ops)} : n \in DOMAIN c.tree}
  \cup UNION {{<<"session", s.id, SessionPrefix(s)>>}
              \cup {<<"operator", op.id, OperatorPrefix(SessionPrefix(s), op)>> :
                      op \in ToSet(s.ops)} : s \in ToSet(c.sessions)}
Named(places) == {<<x[1], x[2]>> : x \in places}
Follows(c, d) ==
  d.blurred \/
  LET before == Places(c)
      after == Places(d)
      published(places, at) == Named({x \in places : FieldOf(x[3]) \in at.publish})
      survivors == Named(before) \cap Named(after)
  IN published(before, c) \cap survivors = published(after, d) \cap survivors
Relocating ==
  /\ posted' = posted /\ config'.era = config.era
  /\ config'.tree # config.tree \/ config'.sessions # config.sessions
PathsFollowNodes ==
  /\ []PublishedIsSent
  /\ [][/\ Relocating => Follows(config, config')
        /\ undoStack' # undoStack /\ undoStack' # <<>>
             => Follows(Last(undoStack').back, Noted(Last(undoStack').forth))]_editorVars
=============================================================================
