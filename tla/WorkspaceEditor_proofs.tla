----------------------- MODULE WorkspaceEditor_proofs -----------------------
(***************************************************************************)
(* Proofs about the editing of a workspace, for every file to open, every  *)
(* label and every bound: whatever the configuration refers to exists, and *)
(* a plugin runs what the workspace has for it.                            *)
(***************************************************************************)
EXTENDS WorkspaceEditor, SequenceTheorems, FiniteSetTheorems, WellFoundedInduction, TLAPS

-----------------------------------------------------------------------------
(* WorkspaceEditor: what a configuration is made of, and what each way of    *)
(* changing one keeps.                                                       *)

NodeFields == {"kind", "parent", "label", "value", "ops"}
SessionFields == {"id", "label", "off", "value", "ops"}
ConfigFields == {"tree", "sessions", "publish", "push", "render", "settings", "selected",
                 "structure", "era", "blurred"}
Noded(node) ==
  DOMAIN node = NodeFields /\ node.kind \in {"device", "group"} /\ node.parent \in Nat
Treed(tree) ==
  DOMAIN tree \subseteq Nat \ {Root} /\ \A n \in DOMAIN tree : Noded(tree[n])
Listed(list) == Len(list) \in Nat /\ list = [i \in 1..Len(list) |-> list[i]]
SessionsListed(list) ==
  Listed(list) /\ Len(list) >= 1 /\ \A i \in 1..Len(list) : DOMAIN list[i] = SessionFields
Shaped(c) ==
  /\ DOMAIN c = ConfigFields
  /\ Treed(c.tree) /\ SessionsListed(c.sessions) /\ c.structure \in Nat

(* The tree, the sessions and the structure of one are those of the other.   *)
SameContents(c, d) ==
  d.tree = c.tree /\ d.sessions = c.sessions /\ d.structure = c.structure
Keeps(c, d) == Shaped(d) /\ SameContents(c, d)

(* A function on 1..n is a sequence of that length.                          *)
LEMMA ListIsSeq ==
  ASSUME NEW list, NEW n \in Nat, list = [i \in 1..n |-> list[i]]
  PROVE  /\ list \in Seq({list[i] : i \in 1..n})
         /\ Len(list) = n /\ DOMAIN list = 1..n /\ Listed(list)
<1> DEFINE S == {list[i] : i \in 1..n}
<1>1. list \in [1..n -> S]
  OBVIOUS
<1>2. list \in Seq(S)
  BY <1>1, SeqDef
<1>3. Len(list) = n
  BY <1>1, <1>2, LenProperties
<1> QED
  BY <1>1, <1>2, <1>3 DEF Listed

(* A sequence is such a function.                                            *)
LEMMA SeqIsList ==
  ASSUME NEW S, NEW s \in Seq(S)
  PROVE  Listed(s) /\ \A i \in 1..Len(s) : s[i] \in S
BY LenProperties, ElementOfSeq DEF Listed

(* The parts of a configuration that are only replaced: the paths, the       *)
(* settings, the selection, the notes.                                       *)
LEMMA KeepsParts ==
  ASSUME NEW c, Shaped(c), NEW x, NEW y, NEW z
  PROVE  /\ Keeps(c, c)
         /\ Keeps(c, [c EXCEPT !.publish = x, !.push = y, !.render = z])
         /\ Keeps(c, [c EXCEPT !.publish = x, !.push = y])
         /\ Keeps(c, [c EXCEPT !.publish = x]) /\ Keeps(c, [c EXCEPT !.push = x])
         /\ Keeps(c, [c EXCEPT !.render = x])
         /\ Keeps(c, [c EXCEPT !.settings = x]) /\ Keeps(c, [c EXCEPT !.selected = x])
         /\ Keeps(c, [c EXCEPT !.blurred = x])
BY DEF Shaped, ConfigFields, Keeps, SameContents

(* And so on, from one replacement to the next.                              *)
LEMMA SameContentsTransitive ==
  ASSUME NEW c, NEW d, NEW e, SameContents(c, d), SameContents(d, e)
  PROVE  SameContents(c, e)
BY DEF SameContents

(* What is done to paths leaves the rest of a configuration alone.           *)
LEMMA KeepsPaths ==
  ASSUME NEW c, Shaped(c), NEW a, NEW b, NEW before, NEW after
  PROVE  /\ Keeps(c, Noted(c)) /\ Keeps(c, Reroot(c, a, b)) /\ Keeps(c, ErasePaths(c, a))
         /\ Keeps(c, RerootOperators(c, a, b, before, after))
<1>1. Keeps(c, Noted(c))
  BY KeepsParts DEF Noted
<1>2. Keeps(c, Reroot(c, a, b))
  BY KeepsParts DEF Reroot
<1>3. Keeps(c, ErasePaths(c, a))
  BY KeepsParts DEF ErasePaths
<1>4. Keeps(c, RerootOperators(c, a, b, before, after))
  BY KeepsParts DEF RerootOperators
<1> QED
  BY <1>1, <1>2, <1>3, <1>4

(* A new structure changes nothing else.                                     *)
LEMMA ShapedRestructured ==
  ASSUME NEW c, Shaped(c)
  PROVE  /\ Shaped(Restructured(c)) /\ Restructured(c).tree = c.tree
         /\ Restructured(c).sessions = c.sessions
         /\ Restructured(c).structure = c.structure + 1
BY DEF Shaped, ConfigFields, Restructured
(* A new tree, or new sessions, in an old configuration.                     *)
LEMMA ShapedTree ==
  ASSUME NEW c, Shaped(c), NEW tree, Treed(tree)
  PROVE  /\ Shaped([c EXCEPT !.tree = tree]) /\ [c EXCEPT !.tree = tree].tree = tree
         /\ [c EXCEPT !.tree = tree].sessions = c.sessions
         /\ [c EXCEPT !.tree = tree].structure = c.structure
BY DEF Shaped, ConfigFields

(* New sessions in an old configuration.                                     *)
LEMMA ShapedSessions ==
  ASSUME NEW c, Shaped(c), NEW list, SessionsListed(list), NEW x
  PROVE  /\ Shaped([c EXCEPT !.sessions = list]) /\ [c EXCEPT !.sessions = list].sessions = list
         /\ [c EXCEPT !.sessions = list].tree = c.tree
         /\ [c EXCEPT !.sessions = list].structure = c.structure
         /\ Keeps([c EXCEPT !.sessions = list], [c EXCEPT !.sessions = list, !.selected = x])
         /\ Keeps([c EXCEPT !.sessions = list], [c EXCEPT !.sessions = list, !.blurred = x])
         /\ Keeps([c EXCEPT !.sessions = list], [c EXCEPT !.selected = x, !.sessions = list])
BY DEF Shaped, ConfigFields, Keeps, SameContents

(* One node, or one session, replaced by another.                            *)
LEMMA ShapedNode ==
  ASSUME NEW c, Shaped(c), NEW n, NEW node, Noded(node)
  PROVE  /\ Shaped(SetNode(c, n, node)) /\ SetNode(c, n, node).tree = [c.tree EXCEPT ![n] = node]
         /\ SetNode(c, n, node).sessions = c.sessions
         /\ SetNode(c, n, node).structure = c.structure
         /\ Keeps(SetNode(c, n, node), Written(c, n, node))
<1> DEFINE tree == [c.tree EXCEPT ![n] = node]
<1>1. Treed(tree)
  BY DEF Shaped, Treed
<1>2. SetNode(c, n, node) = [c EXCEPT !.tree = tree]
  BY DEF SetNode, Shaped, ConfigFields
<1>3. Shaped(SetNode(c, n, node))
  BY <1>1, <1>2, ShapedTree
<1>4. Keeps(SetNode(c, n, node), Written(c, n, node))
  BY <1>3, KeepsParts DEF Written
<1> HIDE DEF tree
<1>5. tree = [c.tree EXCEPT ![n] = node]
  BY DEF tree
<1> QED
  BY <1>1, <1>2, <1>3, <1>4, <1>5, ShapedTree

(* One session replaced by another, in the list.                             *)
LEMMA SessionReplaced ==
  ASSUME NEW list, SessionsListed(list), NEW i, NEW s, DOMAIN s = SessionFields
  PROVE  /\ SessionsListed([list EXCEPT ![i] = s]) /\ Len([list EXCEPT ![i] = s]) = Len(list)
         /\ \A j \in 1..Len(list) : [list EXCEPT ![i] = s][j] = IF j = i THEN s ELSE list[j]
         /\ DOMAIN [list EXCEPT ![i] = s] = 1..Len(list)
<1>1. PICK n \in Nat : n = Len(list)
  BY DEF SessionsListed, Listed
<1>2. PICK other : other = [list EXCEPT ![i] = s]
  OBVIOUS
<1>3. DOMAIN list = 1..n
  BY <1>1 DEF SessionsListed, Listed
<1>4. /\ other = [j \in 1..n |-> other[j]]
      /\ \A j \in 1..n : other[j] = IF j = i THEN s ELSE list[j]
  BY <1>2, <1>3
<1>5. Listed(other) /\ Len(other) = n /\ DOMAIN other = 1..n
  BY <1>4, ListIsSeq
<1> QED
  BY <1>1, <1>2, <1>4, <1>5 DEF SessionsListed

-----------------------------------------------------------------------------
(* WorkspaceEditor: what keeps the references of a configuration.            *)

(* The same nodes, kinds, groups within groups and sessions.                 *)
Alike(c, d) ==
  /\ DOMAIN d.tree = DOMAIN c.tree /\ Groups(d) = Groups(c)
  /\ \A g \in Groups(c) : d.tree[g].parent = c.tree[g].parent
  /\ SessionIds(d) = SessionIds(c)

(* References depend on the tree and the sessions only.                      *)
LEMMA SoundAsContents ==
  ASSUME NEW c, NEW d, d.tree = c.tree, d.sessions = c.sessions
  PROVE  /\ Groups(d) = Groups(c) /\ DeviceIds(d) = DeviceIds(c)
         /\ SessionIds(d) = SessionIds(c) /\ Alike(c, d) /\ (Sound(c) => Sound(d))
BY DEF Alike, Groups, IsGroup, DeviceIds, SessionIds, Sound, Grounded

(* Fewer groups, each where it was, are still within one another.            *)
LEMMA GroundedAs ==
  ASSUME NEW c, NEW d, Grounded(c), Groups(d) \subseteq Groups(c),
         \A g \in Groups(d) : d.tree[g].parent = c.tree[g].parent
  PROVE  Grounded(d)
BY DEF Grounded

(* With devices in groups that are there and sessions that switch off what is.*)
LEMMA SoundAsAlike ==
  ASSUME NEW c, NEW d, Alike(c, d), Sound(c),
         \A n \in DeviceIds(c) : d.tree[n].parent \in Groups(c) \cup {Root},
         \A i \in DOMAIN d.sessions : d.sessions[i].off \subseteq DOMAIN c.tree
  PROVE  Sound(d)
<1>1. Grounded(d)
  BY GroundedAs DEF Alike, Sound
<1>2. \A n \in DOMAIN d.tree : d.tree[n].parent \in Groups(d) \cup {Root}
  BY DEF Alike, Sound, DeviceIds
<1> QED
  BY <1>1, <1>2 DEF Alike, Sound

(* Two that are like a third are like each other.                            *)
LEMMA AlikeTransitive ==
  ASSUME NEW c, NEW d, NEW e, Alike(c, d), Alike(c, e)
  PROVE  Alike(d, e)
BY DEF Alike

(* A node keeps its kind, and a group its place.                             *)
LEMMA SoundNode ==
  ASSUME NEW c, Shaped(c), NEW n \in DOMAIN c.tree, NEW node, Noded(node),
         node.kind = c.tree[n].kind,
         node.kind = "group" => node.parent = c.tree[n].parent
  PROVE  /\ Alike(c, SetNode(c, n, node)) /\ DeviceIds(SetNode(c, n, node)) = DeviceIds(c)
         /\ Sound(c) /\ node.parent \in Groups(c) \cup {Root} => Sound(SetNode(c, n, node))
<1> DEFINE d == SetNode(c, n, node)
<1>1. d.tree = [c.tree EXCEPT ![n] = node] /\ d.sessions = c.sessions
  BY ShapedNode
<1> HIDE DEF d
<1>2. Groups(d) = Groups(c) /\ DOMAIN d.tree = DOMAIN c.tree /\ SessionIds(d) = SessionIds(c)
  BY <1>1 DEF Groups, IsGroup, SessionIds
<1>3. Alike(c, d)
  BY <1>1, <1>2 DEF Alike, Groups, IsGroup
<1>4. ASSUME Sound(c), node.parent \in Groups(c) \cup {Root}
      PROVE  Sound(d)
  <2>1. \A m \in DeviceIds(c) : d.tree[m].parent \in Groups(c) \cup {Root}
    BY <1>1, <1>4 DEF Sound, DeviceIds
  <2> QED
    BY <1>1, <1>3, <1>4, <2>1, SoundAsAlike DEF Sound
<1> QED
  BY <1>2, <1>3, <1>4 DEF DeviceIds, d

(* A new node: a device or an empty group, in a group that is there.         *)
AddedNode(tree, id, node) ==
  [n \in DOMAIN tree \cup {id} |-> IF n = id THEN node ELSE tree[n]]

(* Adding it keeps references sound.                                         *)
LEMMA SoundAdded ==
  ASSUME NEW c, Shaped(c), NEW id \in Nat \ (DOMAIN c.tree \cup {Root}), NEW node, Noded(node),
         NEW d, d.tree = AddedNode(c.tree, id, node), d.sessions = c.sessions
  PROVE  /\ Treed(d.tree)
         /\ Sound(c) /\ node.parent \in Groups(c) \cup {Root} => Sound(d)
<1>1. /\ DOMAIN d.tree = DOMAIN c.tree \cup {id} /\ d.tree[id] = node
      /\ \A n \in DOMAIN c.tree : d.tree[n] = c.tree[n]
  BY DEF AddedNode
<1>2. Treed(d.tree)
  BY <1>1 DEF Shaped, Treed
<1>3. /\ Groups(c) \subseteq Groups(d) /\ Groups(d) \subseteq Groups(c) \cup {id}
      /\ Groups(c) \subseteq DOMAIN c.tree
  BY <1>1 DEF Groups, IsGroup
<1>4. ASSUME Sound(c), node.parent \in Groups(c) \cup {Root}
      PROVE  Sound(d)
  <2>1. \A n \in DOMAIN d.tree : d.tree[n].parent \in Groups(c) \cup {Root}
    BY <1>1, <1>4 DEF Sound
  <2>2. ASSUME NEW groups \in SUBSET Groups(d), groups # {}
        PROVE  \E g \in groups : d.tree[g].parent \notin groups
    <3>1. groups \ {id} \in SUBSET Groups(c) /\ id \notin Groups(c) \cup {Root}
      BY <1>3, <2>2
    <3>2. CASE groups \ {id} = {}
      <4>1. groups = {id} /\ id \in DOMAIN d.tree
        BY <1>1, <2>2, <3>2
      <4> QED
        BY <2>1, <3>1, <4>1
    <3>3. CASE groups \ {id} # {}
      <4>1. PICK g \in groups \ {id} : c.tree[g].parent \notin groups \ {id}
        BY <1>4, <3>1, <3>3 DEF Sound, Grounded
      <4>2. d.tree[g] = c.tree[g] /\ d.tree[g].parent # id
        BY <1>1, <1>3, <2>1, <3>1
      <4> QED
        BY <4>1, <4>2
    <3> QED
      BY <3>2, <3>3
  <2>3. \A i \in DOMAIN d.sessions : d.sessions[i].off \subseteq DOMAIN d.tree
    BY <1>1, <1>4 DEF Sound
  <2> QED
    BY <1>3, <2>1, <2>2, <2>3 DEF Sound, Grounded
<1> QED
  BY <1>2, <1>4

(* No session switches off an erased node any more.                          *)
LEMMA ErasedFromSessions ==
  ASSUME NEW c, Shaped(c), NEW n
  PROVE  LET d == EraseFromSessions(c, n)
         IN /\ Shaped(d) /\ d.tree = c.tree /\ d.structure = c.structure
            /\ SessionIds(d) = SessionIds(c) /\ DOMAIN d.sessions = DOMAIN c.sessions
            /\ \A i \in DOMAIN c.sessions : d.sessions[i].off = c.sessions[i].off \ {n}
<1> DEFINE list == [i \in DOMAIN c.sessions |->
                      [c.sessions[i] EXCEPT !.off = c.sessions[i].off \ {n}]]
           d == EraseFromSessions(c, n)
<1>1. PICK k \in Nat : k = Len(c.sessions) /\ k >= 1 /\ DOMAIN c.sessions = 1..k
  BY DEF Shaped, SessionsListed, Listed
<1>2. /\ DOMAIN list = 1..k
      /\ \A i \in 1..k : /\ DOMAIN list[i] = SessionFields /\ list[i].id = c.sessions[i].id
                         /\ list[i].off = c.sessions[i].off \ {n}
  BY <1>1 DEF Shaped, SessionsListed, SessionFields
<1>3. list = [i \in 1..k |-> list[i]]
  BY <1>1
<1>4. d = [c EXCEPT !.sessions = list]
  BY DEF EraseFromSessions, Shaped, ConfigFields
<1> HIDE DEF list
<1>5. SessionsListed(list)
  BY <1>1, <1>2, <1>3, ListIsSeq DEF SessionsListed
<1> HIDE DEF d
<1>6. /\ Shaped(d) /\ d.sessions = list /\ d.tree = c.tree /\ d.structure = c.structure
  BY <1>4, <1>5, ShapedSessions
<1>7. SessionIds(d) = SessionIds(c)
  BY <1>1, <1>2, <1>6 DEF SessionIds
<1> QED
  BY <1>1, <1>2, <1>6, <1>7 DEF d

(* A deleted device, and a deleted group, whose children its parent takes.   *)
LEMMA SoundWithoutDevice ==
  ASSUME NEW c, Shaped(c), NEW n \in DeviceIds(c)
  PROVE  LET d == WithoutDevice(c, n)
         IN /\ Shaped(d) /\ d.structure = c.structure /\ DOMAIN d.tree = DOMAIN c.tree \ {n}
            /\ SessionIds(d) = SessionIds(c) /\ (Sound(c) => Sound(d))
<1> DEFINE tree == [m \in DOMAIN c.tree \ {n} |-> c.tree[m]]
           a == DropNodes(c, {n})
           b == ErasePaths(a, Prefix(c, n))
           d == EraseFromSessions(b, n)
<1>1. /\ Treed(tree) /\ DOMAIN tree = DOMAIN c.tree \ {n}
      /\ \A m \in DOMAIN tree : tree[m] = c.tree[m]
  BY DEF Shaped, Treed
<1>2. Shaped(a) /\ a.tree = tree /\ a.sessions = c.sessions /\ a.structure = c.structure
  <2>1. a = [c EXCEPT !.tree = tree]
    BY DEF DropNodes, Shaped, ConfigFields
  <2> HIDE DEF a, tree
  <2> QED
    BY <1>1, <2>1, ShapedTree
<1>3. Shaped(b) /\ SameContents(a, b)
  <2> HIDE DEF a
  <2> QED
    BY <1>2, KeepsPaths DEF Keeps
<1> HIDE DEF a, b
<1>4. /\ Shaped(d) /\ d.tree = b.tree /\ d.structure = b.structure /\ SessionIds(d) = SessionIds(b)
      /\ DOMAIN d.sessions = DOMAIN b.sessions
      /\ \A i \in DOMAIN b.sessions : d.sessions[i].off = b.sessions[i].off \ {n}
  BY <1>3, ErasedFromSessions
<1> HIDE DEF d, tree
<1>5. /\ d.tree = tree /\ d.structure = c.structure /\ SessionIds(d) = SessionIds(c)
      /\ DOMAIN d.sessions = DOMAIN c.sessions
      /\ \A i \in DOMAIN c.sessions : d.sessions[i].off = c.sessions[i].off \ {n}
  BY <1>2, <1>3, <1>4 DEF SameContents, SessionIds
<1>6. Groups(d) = Groups(c)
  BY <1>1, <1>5 DEF Groups, IsGroup, DeviceIds
<1>7. Sound(c) => Sound(d)
  BY <1>1, <1>5, <1>6 DEF Sound, Grounded, Groups, IsGroup
<1>8. d = WithoutDevice(c, n)
  BY DEF WithoutDevice, d, b, a
<1> QED
  BY <1>1, <1>4, <1>5, <1>7, <1>8

(* The children of a group lifted to its parent.                             *)
LEMMA SoundLifted ==
  ASSUME NEW c, Sound(c), NEW g \in Groups(c), NEW d,
         DOMAIN d.tree = DOMAIN c.tree \ {g}, DOMAIN d.sessions = DOMAIN c.sessions,
         \A n \in DOMAIN d.tree :
           /\ d.tree[n].kind = c.tree[n].kind
           /\ d.tree[n].parent =
                IF c.tree[n].parent = g THEN c.tree[g].parent ELSE c.tree[n].parent,
         \A i \in DOMAIN c.sessions : d.sessions[i].off = c.sessions[i].off \ {g}
  PROVE  Sound(d)
<1>1. Groups(d) = Groups(c) \ {g} /\ Groups(c) \subseteq DOMAIN c.tree
  BY DEF Groups, IsGroup
<1>2. \A groups \in SUBSET Groups(c) :
        groups # {} => \E h \in groups : c.tree[h].parent \notin groups
  BY DEF Sound, Grounded
<1>3. c.tree[g].parent # g
  <2>1. {g} \in SUBSET Groups(c)
    OBVIOUS
  <2> QED
    BY <1>2, <2>1
<1>4. \A n \in DOMAIN d.tree : d.tree[n].parent \in Groups(d) \cup {Root}
  BY <1>1, <1>3 DEF Sound
<1>5. ASSUME NEW groups \in SUBSET Groups(d), groups # {}
      PROVE  \E h \in groups : d.tree[h].parent \notin groups
  <2>1. groups \in SUBSET Groups(c) /\ groups \cup {g} \in SUBSET Groups(c) /\ g \notin groups
    BY <1>1, <1>5
  <2>2. PICK h \in groups \cup {g} : c.tree[h].parent \notin groups \cup {g}
    BY <1>2, <2>1
  <2>3. CASE h # g
    BY <1>1, <2>1, <2>2, <2>3
  <2>4. CASE h = g
    <3>1. PICK k \in groups : c.tree[k].parent \notin groups
      BY <1>2, <1>5, <2>1
    <3> QED
      BY <1>1, <2>1, <2>2, <2>4, <3>1
  <2> QED
    BY <2>3, <2>4
<1>6. \A i \in DOMAIN d.sessions : d.sessions[i].off \subseteq DOMAIN d.tree
  BY DEF Sound
<1> QED
  BY <1>4, <1>5, <1>6 DEF Sound, Grounded

(* Deleting a group keeps references sound.                                  *)
LEMMA SoundWithoutGroup ==
  ASSUME NEW c, Shaped(c), NEW g \in Groups(c)
  PROVE  LET d == WithoutGroup(c, g)
         IN /\ Shaped(d) /\ d.structure = c.structure /\ DOMAIN d.tree = DOMAIN c.tree \ {g}
            /\ SessionIds(d) = SessionIds(c) /\ (Sound(c) => Sound(d))
<1> DEFINE children == {n \in DOMAIN c.tree : c.tree[n].parent = g}
           tree == [n \in DOMAIN c.tree |->
                      IF n \in children THEN [c.tree[n] EXCEPT !.parent = c.tree[g].parent]
                      ELSE c.tree[n]]
           lifted == DropNodes([c EXCEPT !.tree = tree], {g})
           left == [n \in DOMAIN tree \ {g} |-> tree[n]]
           follow(paths) == FoldLeft(LAMBDA acc, n :
                                       RerootSet(acc, Prefix(c, n), Prefix(lifted, n)),
                                     paths, SetToSeq(children))
           rerooted == [lifted EXCEPT !.publish = follow(lifted.publish),
                                      !.push = follow(lifted.push),
                                      !.render = follow(lifted.render)]
           erased == ErasePaths(rerooted, Prefix(c, g))
           d == EraseFromSessions(erased, g)
<1>1. /\ Treed(tree) /\ DOMAIN tree = DOMAIN c.tree /\ Treed(left)
      /\ DOMAIN left = DOMAIN c.tree \ {g}
      /\ \A n \in DOMAIN left :
           /\ left[n].kind = c.tree[n].kind
           /\ left[n].parent =
                IF c.tree[n].parent = g THEN c.tree[g].parent ELSE c.tree[n].parent
  <2>1. Noded(c.tree[g])
    BY DEF Shaped, Treed, Groups
  <2>2. \A n \in DOMAIN c.tree : Noded([c.tree[n] EXCEPT !.parent = c.tree[g].parent])
    BY <2>1 DEF Shaped, Treed, Noded, NodeFields
  <2>3. Treed(tree)
    BY <2>2 DEF Shaped, Treed
  <2>4. Treed(left)
    <3> HIDE DEF tree
    <3> QED
      BY <2>3 DEF Treed
  <2>5. \A n \in DOMAIN c.tree : Noded(c.tree[n])
    BY DEF Shaped, Treed
  <2>6. \A n \in DOMAIN left :
           /\ left[n].kind = c.tree[n].kind
           /\ left[n].parent =
                IF c.tree[n].parent = g THEN c.tree[g].parent ELSE c.tree[n].parent
    BY <2>5 DEF Noded, NodeFields
  <2> QED
    BY <2>3, <2>4, <2>6
<1>2. Shaped(lifted) /\ lifted.tree = left /\ lifted.sessions = c.sessions
      /\ lifted.structure = c.structure
  <2>1. PICK e : e = [c EXCEPT !.tree = tree]
    OBVIOUS
  <2>2. Shaped(e) /\ e.tree = tree /\ e.sessions = c.sessions /\ e.structure = c.structure
    <3> HIDE DEF tree
    <3> QED
      BY <1>1, <2>1, ShapedTree
  <2>3. lifted = [e EXCEPT !.tree = left]
    <3> HIDE DEF tree
    <3> QED
      BY <2>1, <2>2 DEF DropNodes, Shaped, ConfigFields
  <2> HIDE DEF left, lifted
  <2> QED
    BY <1>1, <2>2, <2>3, ShapedTree
<1>3. Keeps(lifted, rerooted)
  <2> HIDE DEF lifted, follow
  <2> QED
    BY <1>2, KeepsParts
<1>4. Keeps(rerooted, erased)
  <2> HIDE DEF rerooted
  <2> QED
    BY <1>3, KeepsPaths DEF Keeps
<1> HIDE DEF erased
<1>5. /\ Shaped(d) /\ d.tree = erased.tree /\ d.structure = erased.structure
      /\ SessionIds(d) = SessionIds(erased) /\ DOMAIN d.sessions = DOMAIN erased.sessions
      /\ \A i \in DOMAIN erased.sessions : d.sessions[i].off = erased.sessions[i].off \ {g}
  BY <1>4, ErasedFromSessions DEF Keeps
<1>6. d = WithoutGroup(c, g)
  BY DEF WithoutGroup, d, erased
<1> HIDE DEF d, lifted, rerooted, tree, left
<1>7. /\ d.tree = left /\ d.structure = c.structure /\ SessionIds(d) = SessionIds(c)
      /\ DOMAIN d.sessions = DOMAIN c.sessions
      /\ \A i \in DOMAIN c.sessions : d.sessions[i].off = c.sessions[i].off \ {g}
  BY <1>2, <1>3, <1>4, <1>5 DEF Keeps, SameContents, SessionIds
<1>8. Sound(c) => Sound(d)
  BY <1>1, <1>7, SoundLifted
<1> QED
  BY <1>1, <1>5, <1>6, <1>7, <1>8

(* A node is moved to the root, or into a group that is not below it.        *)
LEMMA SoundMoved ==
  ASSUME NEW c, Shaped(c), NEW n \in DOMAIN c.tree, NEW p, CanMove(c, n, p), NEW d,
         d.tree = [c.tree EXCEPT ![n] = [c.tree[n] EXCEPT !.parent = p]],
         d.sessions = c.sessions
  PROVE  /\ Treed(d.tree) /\ DOMAIN d.tree = DOMAIN c.tree /\ Groups(d) = Groups(c)
         /\ (Sound(c) => Sound(d))
<1>1. p \in Nat /\ p \in Groups(c) \cup {Root} /\ p \notin Subtree(c, n)
  BY DEF CanMove, Shaped, Treed, Groups, Root
<1>2. /\ DOMAIN d.tree = DOMAIN c.tree
      /\ \A m \in DOMAIN c.tree :
           /\ DOMAIN d.tree[m] = NodeFields /\ d.tree[m].kind = c.tree[m].kind
           /\ d.tree[m].parent = IF m = n THEN p ELSE c.tree[m].parent
  BY DEF Shaped, Treed, Noded, NodeFields
<1>3. Treed(d.tree) /\ Groups(d) = Groups(c)
  BY <1>1, <1>2 DEF Shaped, Treed, Noded, Groups, IsGroup
<1>4. PICK below \in SUBSET DOMAIN c.tree :
        /\ n \in below /\ p \notin below
        /\ \A m \in DOMAIN c.tree :
             c.tree[m].parent \in below \cap Groups(c) => m \in below
  <2>1. CASE p = Root
    <3>1. Root \notin DOMAIN c.tree
      BY DEF Shaped, Treed
    <3>2. DOMAIN c.tree \in SUBSET DOMAIN c.tree
      OBVIOUS
    <3> QED
      BY <2>1, <3>1, <3>2
  <2>2. CASE p # Root
    <3>1. p \in DOMAIN c.tree
      BY <1>1, <2>2 DEF Groups
    <3> QED
      BY <1>1, <3>1 DEF Subtree
  <2> QED
    BY <2>1, <2>2
<1>5. ASSUME Sound(c), NEW groups \in SUBSET Groups(c), groups # {}
      PROVE  \E g \in groups : d.tree[g].parent \notin groups
  <2>1. Groups(c) \subseteq DOMAIN c.tree
    BY DEF Groups
  <2>2. \A other \in SUBSET Groups(c) :
          other # {} => \E h \in other : c.tree[h].parent \notin other
    BY <1>5 DEF Sound, Grounded
  <2>3. CASE n \notin groups
    BY <1>2, <1>5, <2>1, <2>2, <2>3
  <2>4. CASE n \in groups /\ groups \subseteq below
    BY <1>2, <1>4, <2>1, <2>4
  <2>5. CASE n \in groups /\ ~(groups \subseteq below)
    <3>1. PICK h \in groups \ below : c.tree[h].parent \notin groups \ below
      <4>1. groups \ below \in SUBSET Groups(c) /\ groups \ below # {}
        BY <2>5
      <4> QED
        BY <2>2, <4>1
    <3>2. c.tree[h].parent \notin groups
      BY <1>4, <1>5, <2>1, <3>1
    <3> QED
      BY <1>2, <1>4, <2>1, <3>1, <3>2
  <2> QED
    BY <2>3, <2>4, <2>5
<1>6. Sound(c) => Sound(d)
  BY <1>1, <1>2, <1>3, <1>5 DEF Sound, Grounded
<1> QED
  BY <1>2, <1>3, <1>6

(* The list of a set has each of its elements, once.                         *)
LEMMA ListOfSet ==
  ASSUME NEW S, IsFiniteSet(S)
  PROVE  /\ SetToSeq(S) \in Seq(S) /\ Len(SetToSeq(S)) = Cardinality(S)
         /\ \A x \in S : \E i \in 1..Len(SetToSeq(S)) : SetToSeq(S)[i] = x
         /\ \A i, j \in 1..Cardinality(S) : SetToSeq(S)[i] = SetToSeq(S)[j] => i = j
<1> DEFINE n == Cardinality(S)
           f == SetToSeq(S)
<1>1. n \in Nat /\ ExistsBijection(1..n, S)
  BY FS_CardinalityType
<1>2. PICK g \in Bijection(1..n, S) : TRUE
  BY <1>1 DEF ExistsBijection
<1>3. g \in [1..n -> S] /\ IsInjective(g)
  BY <1>2 DEF Bijection, Injection
<1>4. f \in [1..n -> S] /\ IsInjective(f)
  BY <1>3 DEF SetToSeq
<1>5. f \in Seq(S) /\ Len(f) = n
  BY <1>1, <1>4
<1>6. ASSUME NEW x \in S, \A i \in 1..n : f[i] # x
      PROVE  FALSE
  <2>1. f \in [1..n -> S \ {x}]
    BY <1>4, <1>6
  <2>2. IsFiniteSet(1..n) /\ Cardinality(1..n) = n
    BY <1>1, FS_Interval
  <2>3. IsFiniteSet(S \ {x}) /\ Cardinality(S \ {x}) = n - 1
    BY <1>6, FS_RemoveElement
  <2>4. Cardinality(S \ {x}) < Cardinality(1..n)
    BY <1>1, <2>2, <2>3
  <2>5. \E i, j \in 1..n : i # j /\ f[i] = f[j]
    <3> HIDE DEF f, n
    <3> QED
      BY <2>1, <2>2, <2>3, <2>4, FS_PigeonHole
  <2> QED
    BY <1>4, <2>5 DEF IsInjective
<1> QED
  BY <1>4, <1>5, <1>6 DEF IsInjective

(* A set of numbers has a least one: the fact the library's induction rules  *)
(* are used for.                                                             *)
LEMMA LeastNat ==
  ASSUME NEW S \in SUBSET Nat, S # {}
  PROVE  \E m \in S : \A k \in S : m <= k
<1> DEFINE R == OpToRel(<, Nat)
<1>1. IsWellFoundedOn(R, Nat)
  BY NatLessThanWellFounded
<1>2. \E x \in S : \A y \in S : ~(<<y, x>> \in R)
  <2> HIDE DEF R
  <2> QED
    BY <1>1, WFMin, Zenon
<1>3. \A x, y \in Nat : y < x => <<y, x>> \in R
  BY DEF OpToRel
<1> HIDE DEF R
<1>4. PICK x \in S : \A y \in S : ~(<<y, x>> \in R)
  BY <1>2
<1>5. ASSUME NEW k \in S
      PROVE  x <= k
  <2>1. x \in Nat /\ k \in Nat /\ ~(<<k, x>> \in R)
    BY <1>4
  <2>2. k < x => <<k, x>> \in R
    BY <1>3, <2>1
  <2> QED
    BY <2>1, <2>2
<1> QED
  BY <1>5

(* The place of an element in the list of a set.                             *)
LEMMA PlaceInList ==
  ASSUME NEW S, IsFiniteSet(S)
  PROVE  LET from == SetToSeq(S)
             k == Len(from)
         IN /\ k \in Nat /\ from \in [1..k -> S]
            /\ \A m \in S : /\ SelectInSeq(from, LAMBDA x : x = m) \in 1..k
                            /\ from[SelectInSeq(from, LAMBDA x : x = m)] = m
            /\ \A i, j \in 1..k : from[i] = from[j] => i = j
<1> DEFINE from == SetToSeq(S)
           k == Len(from)
<1>1. from \in Seq(S) /\ \A x \in S : \E i \in 1..Len(from) : from[i] = x
  BY ListOfSet
<1>2. \A i, j \in 1..Cardinality(S) : from[i] = from[j] => i = j
  BY ListOfSet
<1>3. Len(from) = Cardinality(S)
  BY ListOfSet
<1> HIDE DEF from
<1>4. k \in Nat /\ from \in [1..k -> S]
  BY <1>1, LenProperties
<1>5. ASSUME NEW m \in S
      PROVE  /\ SelectInSeq(from, LAMBDA x : x = m) \in 1..k
             /\ from[SelectInSeq(from, LAMBDA x : x = m)] = m
  <2> DEFINE I == {i \in 1..Len(from) : from[i] = m}
  <2>1. I \in SUBSET Nat /\ I # {}
    BY <1>1, <1>4, <1>5
  <2>2. \E a \in I : \A b \in I : a <= b
    <3> HIDE DEF I
    <3> QED
      BY <2>1, LeastNat
  <2>3. Min(I) \in I
    <3> HIDE DEF I
    <3> QED
      BY <2>2 DEF Min
  <2>4. SelectInSeq(from, LAMBDA x : x = m) = Min(I)
    BY <2>1 DEF SelectInSeq
  <2> QED
    BY <2>3, <2>4
<1> QED
  BY <1>2, <1>3, <1>4, <1>5 DEF from

(* Nodes copied, each to a new one: a copy is beside the original, or where  *)
(* its group's copy has it.                                                  *)
CopiedTo(c, top, set, at, d) ==
  /\ \A m, n \in set : at[m] = at[n] => m = n
  /\ d.sessions = c.sessions /\ DOMAIN d.tree = DOMAIN c.tree \cup {top + at[m] : m \in set}
  /\ \A n \in DOMAIN c.tree : d.tree[n] = c.tree[n]
  /\ \A m \in set :
       /\ DOMAIN d.tree[top + at[m]] = NodeFields
       /\ d.tree[top + at[m]].kind = c.tree[m].kind
       /\ d.tree[top + at[m]].parent =
            IF c.tree[m].parent \in set THEN top + at[c.tree[m].parent] ELSE c.tree[m].parent

(* Copying nodes keeps references sound.                                     *)
LEMMA SoundCopied ==
  ASSUME NEW c, Shaped(c), NEW top \in Nat, DOMAIN c.tree \subseteq 1..top,
         NEW set \in SUBSET DOMAIN c.tree, NEW k \in Nat, NEW at \in [set -> 1..k],
         NEW d, CopiedTo(c, top, set, at, d)
  PROVE  Treed(d.tree) /\ DOMAIN d.tree \subseteq 1..(top + k) /\ (Sound(c) => Sound(d))
<1> USE DEF CopiedTo
<1>1. \A n \in DOMAIN c.tree : n \in 1..top /\ Noded(c.tree[n])
  BY DEF Shaped, Treed
<1>2. \A m \in set : top + at[m] \in Nat /\ top + at[m] > top /\ top + at[m] <= top + k
  OBVIOUS
<1>3. \A m \in set : Noded(d.tree[top + at[m]])
  BY <1>1, <1>2 DEF Noded
<1>4. Treed(d.tree) /\ DOMAIN d.tree \subseteq 1..(top + k)
  <2>1. \A n \in DOMAIN d.tree : Noded(d.tree[n])
    BY <1>1, <1>3
  <2>2. \A n \in DOMAIN d.tree : n \in 1..(top + k)
    BY <1>1, <1>2
  <2> QED
    BY <2>1, <2>2 DEF Treed, Root
<1>5. /\ Groups(c) \subseteq Groups(d) /\ Groups(c) \subseteq DOMAIN c.tree
      /\ \A m \in set : top + at[m] \in Groups(d) <=> m \in Groups(c)
      /\ Groups(d) \subseteq Groups(c) \cup {top + at[m] : m \in set}
  BY DEF Groups, IsGroup
<1>6. ASSUME Sound(c)
      PROVE  Sound(d)
  <2>1. \A n \in DOMAIN c.tree : c.tree[n].parent \in Groups(c) \cup {Root}
    BY <1>6 DEF Sound
  <2>2. \A n \in DOMAIN d.tree : d.tree[n].parent \in Groups(d) \cup {Root}
    <3>1. ASSUME NEW m \in set
          PROVE  d.tree[top + at[m]].parent \in Groups(d) \cup {Root}
      <4>1. CASE c.tree[m].parent \in set
        BY <1>1, <1>5, <2>1, <4>1 DEF Root
      <4>2. CASE c.tree[m].parent \notin set
        BY <1>5, <2>1, <4>2
      <4> QED
        BY <4>1, <4>2
    <3> QED
      BY <1>5, <2>1, <3>1
  <2>3. ASSUME NEW groups \in SUBSET Groups(d), groups # {}
        PROVE  \E g \in groups : d.tree[g].parent \notin groups
    <3>1. CASE groups \cap Groups(c) # {}
      <4>1. PICK g \in groups \cap Groups(c) : c.tree[g].parent \notin groups \cap Groups(c)
        BY <1>6, <3>1 DEF Sound, Grounded
      <4>2. d.tree[g].parent = c.tree[g].parent /\ c.tree[g].parent \in 0..top
        BY <1>1, <1>5, <2>1, <4>1 DEF Root
      <4>3. Root \notin Groups(d)
        BY <1>4 DEF Groups, Treed
      <4> QED
        BY <2>1, <2>3, <1>5, <4>1, <4>2, <4>3
    <3>2. CASE groups \cap Groups(c) = {}
      <4> DEFINE S == {m \in set : top + at[m] \in groups}
      <4>1. S \in SUBSET Groups(c) /\ S # {}
        BY <1>5, <2>3, <3>2
      <4>2. PICK m \in S : c.tree[m].parent \notin S
        BY <1>6, <4>1 DEF Sound, Grounded
      <4>3. CASE c.tree[m].parent \in set
        BY <4>2, <4>3
      <4>4. CASE c.tree[m].parent \notin set
        <5>1. d.tree[top + at[m]].parent \in Groups(c) \cup {Root}
          BY <2>1, <4>2, <4>4
        <5>2. Root \notin groups
          BY <1>4, <2>3 DEF Groups, Treed
        <5> QED
          BY <3>2, <4>2, <5>1, <5>2
      <4> QED
        BY <4>3, <4>4
    <3> QED
      BY <3>1, <3>2
  <2>4. \A i \in DOMAIN d.sessions : d.sessions[i].off \subseteq DOMAIN d.tree
    BY <1>6 DEF Sound
  <2> QED
    BY <2>2, <2>3, <2>4 DEF Sound, Grounded
<1> QED
  BY <1>4, <1>6

(* Sessions: one more, one fewer, and the one to select.                     *)
Extended(longer, list, s) ==
  /\ SessionsListed(longer) /\ DOMAIN longer = 1..(Len(list) + 1)
  /\ Len(list) \in Nat /\ DOMAIN list = 1..Len(list)
  /\ \A i \in 1..(Len(list) + 1) :
       longer[i] = IF i = Len(list) + 1 THEN s ELSE list[i]

(* A session appended to the list.                                           *)
LEMMA SessionAppended ==
  ASSUME NEW list, SessionsListed(list), NEW s, DOMAIN s = SessionFields,
         NEW longer, longer = Append(list, s)
  PROVE  Extended(longer, list, s)
<1>1. PICK n \in Nat : n = Len(list) /\ n >= 1 /\ DOMAIN list = 1..n
  BY DEF SessionsListed, Listed
<1>3. PICK S : S = {list[i] : i \in 1..n} \cup {s}
  OBVIOUS
<1>4. list \in Seq(S)
  <2>1. list \in [1..n -> S]
    BY <1>1, <1>3 DEF SessionsListed, Listed
  <2> QED
    BY <2>1, SeqDef
<1>5. /\ longer \in Seq(S) /\ Len(longer) = n + 1
      /\ \A i \in 1..(n + 1) : longer[i] = IF i = n + 1 THEN s ELSE list[i]
  BY <1>1, <1>3, <1>4, AppendProperties
<1>6. DOMAIN longer = 1..(n + 1) /\ Listed(longer)
  BY <1>5, SeqIsList, LenProperties
<1>7. SessionsListed(longer)
  BY <1>1, <1>5, <1>6 DEF SessionsListed
<1> QED
  BY <1>1, <1>5, <1>6, <1>7 DEF Extended

(* A session removed from it.                                                *)
LEMMA SessionRemoved ==
  ASSUME NEW list, SessionsListed(list), Len(list) > 1, NEW i \in DOMAIN list
  PROVE  /\ SessionsListed(RemoveAt(list, i))
         /\ \A j \in DOMAIN RemoveAt(list, i) :
              \E k \in DOMAIN list : RemoveAt(list, i)[j] = list[k]
<1>1. PICK n \in Nat : n = Len(list) /\ n > 1 /\ DOMAIN list = 1..n
  BY DEF SessionsListed, Listed
<1>2. PICK S : S = {list[j] : j \in 1..n}
  OBVIOUS
<1>3. list \in Seq(S)
  BY <1>1, <1>2, ListIsSeq DEF SessionsListed, Listed
<1>4. PICK a : a = SubSeq(list, 1, i - 1)
  OBVIOUS
<1>5. PICK b : b = SubSeq(list, i + 1, n)
  OBVIOUS
<1>6. a \in Seq(S) /\ Len(a) = i - 1 /\ b \in Seq(S) /\ Len(b) = n - i
  <2>1. 1 \in 1..(Len(list) + 1) /\ i - 1 \in (1 - 1)..Len(list) /\ (i - 1) - 1 + 1 = i - 1
    BY <1>1
  <2>2. i + 1 \in 1..(Len(list) + 1) /\ n \in ((i + 1) - 1)..Len(list) /\ n - (i + 1) + 1 = n - i
    BY <1>1
  <2>3. a \in Seq(S) /\ Len(a) = i - 1
    BY <1>3, <1>4, <2>1, SubSeqProperties
  <2>4. b \in Seq(S) /\ Len(b) = n - i
    BY <1>3, <1>5, <2>2, SubSeqProperties
  <2> QED
    BY <2>3, <2>4
<1>7. RemoveAt(list, i) = a \o b
  BY <1>1, <1>4, <1>5 DEF RemoveAt
<1>8. PICK left : left = a \o b
  OBVIOUS
<1>9. left \in Seq(S) /\ Len(left) = n - 1
  BY <1>1, <1>6, <1>8, ConcatProperties
<1>10. Listed(left) /\ DOMAIN left = 1..(n - 1) /\ \A j \in 1..(n - 1) : left[j] \in S
  BY <1>9, SeqIsList, LenProperties
<1>11. SessionsListed(left)
  BY <1>1, <1>2, <1>9, <1>10 DEF SessionsListed
<1>12. \A j \in DOMAIN left : \E k \in DOMAIN list : left[j] = list[k]
  BY <1>1, <1>2, <1>10
<1>13. left = RemoveAt(list, i)
  BY <1>7, <1>8
<1> QED
  BY <1>11, <1>12, <1>13

(* The selection always is one of the sessions.                              *)
LEMMA SelectionExists ==
  ASSUME NEW c, Shaped(c), NEW w
  PROVE  Selection(c, w) \in SessionIds(c)
<1>1. 1 \in DOMAIN c.sessions
  BY DEF Shaped, SessionsListed, Listed
<1> QED
  BY <1>1 DEF Selection, SessionIds

(* The index of a session.                                                   *)
LEMMA SessionIndex ==
  ASSUME NEW c, Shaped(c), NEW id
  PROVE  /\ SessionAt(c, id) \in Nat
         /\ SessionAt(c, id) \in DOMAIN c.sessions => c.sessions[SessionAt(c, id)].id = id
<1> DEFINE I == {i \in 1..Len(c.sessions) : c.sessions[i].id = id}
<1>1. I \in SUBSET Nat /\ SessionAt(c, id) = IF I # {} THEN Min(I) ELSE 0
  BY DEF SessionAt, SelectInSeq
<1>2. I # {} => Min(I) \in I
  <2>1. I # {} => \E a \in I : \A b \in I : a <= b
    <3> HIDE DEF I
    <3> QED
      BY <1>1, LeastNat
  <2> HIDE DEF I
  <2> QED
    BY <2>1 DEF Min
<1>3. 0 \notin DOMAIN c.sessions
  BY DEF Shaped, SessionsListed, Listed
<1> QED
  BY <1>1, <1>2, <1>3

-----------------------------------------------------------------------------
(* WorkspaceEditor: the invariant. A snapshot that is kept to come back to   *)
(* (by the undo stack, by what is posted, by a gesture) is no newer than the *)
(* configuration, and one with the same structure has the same nodes.        *)
Snapshots ==
  {undoStack[i].back : i \in 1..Len(undoStack)} \cup {undoStack[i].forth : i \in 1..Len(undoStack)}
  \cup {posted[i].config : i \in 1..Len(posted)}
  \cup {preview[k].base : k \in {j \in PreviewKinds : preview[j] # <<>>}}

Numbered(c) == Shaped(c) /\ DOMAIN c.tree \subseteq 1..created[1]
Plugged(r) == DOMAIN r = {"copy", "member"} /\ Noded(r.copy) /\ r.copy.kind = "device"
StackTyped ==
  /\ Listed(undoStack) /\ Listed(posted) /\ undone \in 0..Len(undoStack)
  /\ DOMAIN preview = PreviewKinds
EditorTyped ==
  /\ Numbered(config) /\ \A s \in Snapshots : Numbered(s)
  /\ DOMAIN created = 1..3 /\ created[1] \in Nat /\ FileNodes \subseteq 1..created[1]
  /\ StackTyped
  /\ \A d \in DOMAIN devices : Plugged(devices[d])

Level(s, c) == s.structure <= c.structure /\ (s.structure = c.structure => Alike(c, s) /\ Sound(s))
Mended ==
  /\ Sound(config) /\ selected \in SessionIds(config) /\ DOMAIN devices = DeviceIds(config)
  /\ \A d \in DOMAIN devices : devices[d].copy.parent \in Groups(config) \cup {Root}
ReferencesIInv == ~crossed => Mended /\ \A s \in Snapshots : Level(s, config)
RunningIInv ==
  \A d \in (DOMAIN devices \cap DOMAIN config.tree) \ apart :
    /\ devices[d].copy.value = config.tree[d].value
    /\ devices[d].copy.ops = config.tree[d].ops
    /\ config.tree[d].kind = "device"
EditorIInv == EditorTyped /\ ReferencesIInv /\ RunningIInv

(* What happens to the snapshots in each kind of step.                       *)
LEMMA StackKept ==
  ASSUME StackTyped, UNCHANGED <<stackVars, preview>>
  PROVE  Snapshots' = Snapshots /\ StackTyped'
BY DEF Snapshots, StackTyped, stackVars, Listed

(* What is in a list after an append.                                        *)
LEMMA ListAppended ==
  ASSUME NEW list, Listed(list), NEW x
  PROVE  /\ Listed(Append(list, x)) /\ Len(Append(list, x)) = Len(list) + 1
         /\ \A i \in 1..(Len(list) + 1) :
              Append(list, x)[i] = IF i = Len(list) + 1 THEN x ELSE list[i]
<1>1. PICK n \in Nat : n = Len(list)
  BY DEF Listed
<1>2. PICK S : S = {list[i] : i \in 1..n} \cup {x}
  OBVIOUS
<1>3. list \in Seq(S)
  <2>1. list \in [1..n -> S]
    BY <1>1, <1>2 DEF Listed
  <2> QED
    BY <2>1, SeqDef
<1>4. Append(list, x) \in Seq(S)
  BY <1>2, <1>3, AppendProperties
<1>5. Listed(Append(list, x))
  BY <1>4, SeqIsList
<1> QED
  BY <1>1, <1>2, <1>3, <1>5, AppendProperties

(* What is in the beginning of a list.                                       *)
LEMMA ListCut ==
  ASSUME NEW list, Listed(list), NEW n \in 0..Len(list)
  PROVE  /\ Listed(SubSeq(list, 1, n)) /\ Len(SubSeq(list, 1, n)) = n
         /\ \A i \in 1..n : SubSeq(list, 1, n)[i] = list[i]
<1>1. PICK S : S = {list[i] : i \in 1..Len(list)}
  OBVIOUS
<1>2. n \in Int /\ 1 \in Int /\ \A i \in 1..n : list[i] \in S
  BY <1>1 DEF Listed
<1>3. /\ SubSeq(list, 1, n) \in Seq(S)
      /\ Len(SubSeq(list, 1, n)) = IF 1 <= n THEN n - 1 + 1 ELSE 0
      /\ \A i \in 1..(n - 1 + 1) : SubSeq(list, 1, n)[i] = list[1 + i - 1]
  BY <1>2, SubSeqProperties
<1>4. Listed(SubSeq(list, 1, n))
  BY <1>3, SeqIsList
<1> QED
  BY <1>3, <1>4 DEF Listed

(* What is in a list after its first is gone.                                *)
LEMMA ListTail ==
  ASSUME NEW list, Listed(list), list # <<>>
  PROVE  /\ Listed(Tail(list)) /\ Len(Tail(list)) = Len(list) - 1 /\ Len(list) >= 1
         /\ \A i \in 1..(Len(list) - 1) : Tail(list)[i] = list[i + 1]
         /\ Head(list) = list[1]
<1>1. PICK S : S = {list[i] : i \in 1..Len(list)}
  OBVIOUS
<1>2. list \in Seq(S)
  BY <1>1, ListIsSeq DEF Listed
<1>3. /\ Tail(list) \in Seq(S) /\ Len(Tail(list)) = Len(list) - 1 /\ Len(list) >= 1
      /\ \A i \in 1..(Len(list) - 1) : Tail(list)[i] = list[i + 1]
      /\ Head(list) = list[1]
  BY <1>2, HeadTailProperties, EmptySeq, LenProperties
<1> QED
  BY <1>3, SeqIsList

(* A command pushed adds its two sides to the snapshots.                     *)
LEMMA StackPushed ==
  ASSUME StackTyped, NEW b, NEW f, NEW x, NEW y, Push(Command(b, f, x, y)),
         preview' = preview \/ \E kind \in PreviewKinds : \E id : Closed(kind, id)
  PROVE  StackTyped' /\ Snapshots' \subseteq Snapshots \cup {b, f}
<1> DEFINE cut == SubSeq(undoStack, 1, Len(undoStack) - undone)
           command == Command(b, f, x, y)
<1>1. /\ Listed(undoStack) /\ Listed(posted) /\ undone \in 0..Len(undoStack)
      /\ Len(undoStack) \in Nat
  BY DEF StackTyped, Listed
<1>2. PICK n \in 0..Len(undoStack) : n = Len(undoStack) - undone
  BY <1>1
<1>3. Listed(cut) /\ Len(cut) = n /\ \A i \in 1..n : cut[i] = undoStack[i]
  BY <1>1, <1>2, ListCut
<1>4. undoStack' = Append(cut, command) /\ undone' = 0
  BY DEF Push
<1> HIDE DEF cut
<1>5. /\ Listed(undoStack') /\ Len(undoStack') = n + 1
      /\ \A i \in 1..(n + 1) : undoStack'[i] = IF i = n + 1 THEN command ELSE undoStack[i]
  BY <1>2, <1>3, <1>4, ListAppended
<1>6. PICK post : post.config = f /\ posted' = Append(posted, post)
  BY DEF Push, Post, Command
<1>7. /\ Listed(posted') /\ Len(posted') = Len(posted) + 1
      /\ \A i \in 1..(Len(posted) + 1) :
           posted'[i] = IF i = Len(posted) + 1 THEN post ELSE posted[i]
  BY <1>1, <1>6, ListAppended
<1>8. command.back = b /\ command.forth = f
  BY DEF Command
<1> HIDE DEF command
<1>9. /\ DOMAIN preview' = PreviewKinds
      /\ \A k \in PreviewKinds : preview'[k] # <<>> => preview'[k] = preview[k]
  BY DEF StackTyped, Closed
<1>10. StackTyped'
  BY <1>1, <1>4, <1>5, <1>7, <1>9 DEF StackTyped
<1>11. ASSUME NEW i \in 1..(n + 1)
       PROVE  /\ undoStack'[i].back \in Snapshots \cup {b, f}
              /\ undoStack'[i].forth \in Snapshots \cup {b, f}
  BY <1>1, <1>2, <1>5, <1>8 DEF Snapshots
<1>12. ASSUME NEW i \in 1..(Len(posted) + 1)
       PROVE  posted'[i].config \in Snapshots \cup {b, f}
  BY <1>1, <1>6, <1>7 DEF Snapshots, Listed
<1>13. ASSUME NEW k \in PreviewKinds, preview'[k] # <<>>
       PROVE  preview'[k].base \in Snapshots
  BY <1>9, <1>13 DEF Snapshots
<1>14. Snapshots' = {undoStack'[i].back : i \in 1..(n + 1)}
                    \cup {undoStack'[i].forth : i \in 1..(n + 1)}
                    \cup {posted'[i].config : i \in 1..(Len(posted) + 1)}
                    \cup {preview'[k].base : k \in {j \in PreviewKinds : preview'[j] # <<>>}}
  BY <1>5, <1>7 DEF Snapshots
<1>15. Snapshots' \subseteq Snapshots \cup {b, f}
  BY <1>11, <1>12, <1>13, <1>14
<1> QED
  BY <1>10, <1>15

(* A gesture adds the configuration it began with.                           *)
LEMMA StackOpened ==
  ASSUME StackTyped, NEW kind \in PreviewKinds, NEW id, Opened(kind, id), UNCHANGED stackVars
  PROVE  StackTyped' /\ Snapshots' \subseteq Snapshots \cup {config}
<1>1. BaseOf(kind, id) \in Snapshots \cup {config}
  BY DEF BaseOf, InGesture, Snapshots
<1>2. /\ DOMAIN preview' = PreviewKinds
      /\ \A k \in PreviewKinds : preview'[k] # <<>> =>
           preview'[k] = preview[k] \/ preview'[k].base = BaseOf(kind, id)
  BY DEF StackTyped, Opened
<1> QED
  BY <1>1, <1>2 DEF StackTyped, Snapshots, stackVars, Listed

(* Undo and redo post a snapshot that is there.                              *)
LEMMA StackPosted ==
  ASSUME StackTyped, NEW c \in Snapshots, NEW command, posted' = Post(c, command),
         undone' \in 0..Len(undoStack), UNCHANGED <<undoStack, preview>>
  PROVE  StackTyped' /\ Snapshots' \subseteq Snapshots
<1>1. PICK post : post.config = c /\ posted' = Append(posted, post)
  BY DEF Post
<1>2. /\ Listed(posted') /\ Len(posted') = Len(posted) + 1 /\ Len(posted) \in Nat
      /\ \A i \in 1..(Len(posted) + 1) :
           posted'[i] = IF i = Len(posted) + 1 THEN post ELSE posted[i]
  BY <1>1, ListAppended DEF StackTyped, Listed
<1>3. StackTyped'
  BY <1>2 DEF StackTyped
<1>4. ASSUME NEW i \in 1..(Len(posted) + 1)
      PROVE  posted'[i].config \in Snapshots
  BY <1>1, <1>2 DEF Snapshots
<1>5. Snapshots' = {undoStack[i].back : i \in 1..Len(undoStack)}
                    \cup {undoStack[i].forth : i \in 1..Len(undoStack)}
                    \cup {posted'[i].config : i \in 1..(Len(posted) + 1)}
                    \cup {preview[k].base : k \in {j \in PreviewKinds : preview[j] # <<>>}}
  BY <1>2 DEF Snapshots
<1>6. Snapshots' \subseteq Snapshots
  <2>1. Snapshots \cup {posted'[i].config : i \in 1..(Len(posted) + 1)} = Snapshots
    BY <1>4
  <2> QED
    BY <1>5, <2>1 DEF Snapshots
<1> QED
  BY <1>3, <1>6

(* An apply takes one away.                                                  *)
LEMMA StackRun ==
  ASSUME StackTyped, posted # <<>>, posted' = Tail(posted), UNCHANGED <<undoStack, undone, preview>>
  PROVE  StackTyped' /\ Snapshots' \subseteq Snapshots /\ Head(posted).config \in Snapshots
<1>1. /\ Listed(posted') /\ Len(posted') = Len(posted) - 1 /\ Len(posted) >= 1
      /\ \A i \in 1..(Len(posted) - 1) : posted'[i] = posted[i + 1]
      /\ Head(posted) = posted[1] /\ Len(posted) \in Nat
  BY ListTail DEF StackTyped, Listed
<1>2. StackTyped'
  BY <1>1 DEF StackTyped
<1>3. ASSUME NEW i \in 1..(Len(posted) - 1)
      PROVE  posted'[i].config \in Snapshots
  BY <1>1 DEF Snapshots
<1>4. Head(posted).config \in Snapshots
  BY <1>1 DEF Snapshots
<1> QED
  BY <1>1, <1>2, <1>3, <1>4 DEF Snapshots

(* A step that makes a new structure, and one that keeps the structure.      *)
CreatedGrows == DOMAIN created' = 1..3 /\ created'[1] \in Nat /\ created[1] <= created'[1]

(* A step that makes a new structure: all snapshots are older.               *)
LEMMA GrownStep ==
  ASSUME EditorTyped, ReferencesIInv, Shaped(config'),
         config'.structure = config.structure + 1, CreatedGrows,
         DOMAIN config'.tree \subseteq 1..created'[1], crossed' = crossed,
         StackTyped', Snapshots' \subseteq Snapshots,
         \A d \in DOMAIN devices' : Plugged(devices'[d]), ~crossed /\ Mended => Mended'
  PROVE  EditorTyped' /\ ReferencesIInv'
<1>1. ASSUME NEW s \in Snapshots
      PROVE  Shaped(s) /\ DOMAIN s.tree \subseteq 1..created'[1] /\ s.structure \in Nat
  BY DEF EditorTyped, Numbered, CreatedGrows, Shaped
<1>2. EditorTyped'
  BY <1>1 DEF EditorTyped, Numbered, CreatedGrows
<1>3. ASSUME ~crossed, NEW s \in Snapshots
      PROVE  Level(s, config')
  <2>1. s.structure <= config.structure /\ s.structure \in Nat /\ config.structure \in Nat
    BY <1>1, <1>3 DEF ReferencesIInv, Level, EditorTyped, Numbered, Shaped
  <2> QED
    BY <2>1 DEF Level
<1>4. ReferencesIInv'
  BY <1>3 DEF ReferencesIInv, Level
<1> QED
  BY <1>2, <1>4

(* A step that keeps the structure, and the nodes with it.                   *)
LEMMA KeptStep ==
  ASSUME EditorTyped, ReferencesIInv, Shaped(config'), config'.structure = config.structure,
         Alike(config, config'), UNCHANGED <<created, crossed>>, StackTyped',
         \A s \in Snapshots' \ Snapshots :
           Numbered(s) /\ (~crossed /\ Mended => Level(s, config)),
         \A d \in DOMAIN devices' : Plugged(devices'[d]), ~crossed /\ Mended => Mended'
  PROVE  EditorTyped' /\ ReferencesIInv'
<1>1. \A s \in Snapshots' : Numbered(s)
  BY DEF EditorTyped
<1>2. EditorTyped'
  BY <1>1 DEF EditorTyped, Numbered, Alike
<1>3. ASSUME ~crossed, NEW s \in Snapshots'
      PROVE  Level(s, config')
  <2>1. Level(s, config)
    BY <1>3 DEF ReferencesIInv
  <2> QED
    BY <2>1, AlikeTransitive DEF Level
<1>4. ReferencesIInv'
  BY <1>3 DEF ReferencesIInv, Level
<1> QED
  BY <1>2, <1>4

(* A sound configuration is level with itself.                               *)
LEMMA LevelSelf ==
  ASSUME NEW c, Shaped(c), Sound(c)
  PROVE  Level(c, c)
BY DEF Level, Shaped, Alike

(* Workspace::apply_new_config.                                              *)
LEMMA ApplyStep ==
  ASSUME EditorTyped, RunningIInv, NEW c, Shaped(c), NEW sync, Apply(c, sync)
  PROVE  /\ Keeps(c, config') /\ \A d \in DOMAIN devices' : Plugged(devices'[d])
         /\ sync => /\ DOMAIN devices' = DeviceIds(c)
                    /\ \A d \in DOMAIN devices' : devices'[d].copy = c.tree[d]
         /\ ~sync => /\ DOMAIN devices' = DOMAIN devices
                     /\ \A d \in DOMAIN devices' : devices'[d].copy = devices[d].copy
         /\ RunningIInv'
<1>1. Keeps(c, config')
  BY KeepsPaths DEF Apply
<1>2. \A d \in DeviceIds(c) : Noded(c.tree[d]) /\ c.tree[d].kind = "device"
  BY DEF Shaped, Treed, DeviceIds, Groups, IsGroup, Noded
<1>3. CASE sync
  <2>1. devices' = Members(c, Synced(c, devices)) /\ apart' = {}
    BY <1>3 DEF Apply
  <2>2. /\ DOMAIN devices' = DeviceIds(c)
        /\ \A d \in DeviceIds(c) :
             DOMAIN devices'[d] = {"copy", "member"} /\ devices'[d].copy = c.tree[d]
    BY <2>1 DEF Members, Synced
  <2>3. \A d \in DOMAIN devices' : Plugged(devices'[d])
    BY <1>2, <2>2 DEF Plugged
  <2>4. RunningIInv'
    BY <1>1, <1>2, <2>2 DEF RunningIInv, Keeps, SameContents
  <2> QED
    BY <1>1, <1>3, <2>2, <2>3, <2>4
<1>4. CASE ~sync
  <2>1. /\ devices' = Members(c, devices)
        /\ apart' = apart \cup {d \in DOMAIN c.tree :
                                  d \notin DOMAIN config.tree \/ c.tree[d] # config.tree[d]}
    BY <1>4 DEF Apply
  <2>2. /\ DOMAIN devices' = DOMAIN devices
        /\ \A d \in DOMAIN devices :
             DOMAIN devices'[d] = {"copy", "member"} /\ devices'[d].copy = devices[d].copy
    BY <2>1 DEF Members, EditorTyped, Plugged
  <2>3. \A d \in DOMAIN devices' : Plugged(devices'[d])
    BY <2>2 DEF Plugged, EditorTyped
  <2>4. config'.tree = c.tree
    BY <1>1 DEF Keeps, SameContents
  <2>5. RunningIInv'
    BY <2>1, <2>2, <2>4 DEF RunningIInv
  <2> QED
    BY <1>1, <1>4, <2>2, <2>3, <2>5
<1> QED
  BY <1>3, <1>4

(* A change at once that synchronises the devices.                           *)
LEMMA AtOnceSynced ==
  ASSUME EditorIInv, NEW c, Shaped(c), c.structure = config.structure,
         SessionIds(c) = SessionIds(config), Sound(config) => Sound(c),
         AtOnce(c, TRUE), CreatedGrows, DOMAIN c.tree \subseteq 1..created'[1],
         selected' = selected
  PROVE  EditorIInv'
<1> DEFINE d == Restructured(c)
<1>1. /\ Shaped(d) /\ d.tree = c.tree /\ d.sessions = c.sessions
      /\ d.structure = config.structure + 1
  BY ShapedRestructured
<1>2. Apply(d, TRUE) /\ UNCHANGED <<stackVars, preview, crossed>>
  BY DEF AtOnce
<1>3. SessionIds(d) = SessionIds(config) /\ (Sound(config) => Sound(d))
  BY <1>1, SoundAsContents
<1> HIDE DEF d
<1>4. /\ Keeps(d, config') /\ \A e \in DOMAIN devices' : Plugged(devices'[e])
      /\ DOMAIN devices' = DeviceIds(d)
      /\ \A e \in DOMAIN devices' : devices'[e].copy = d.tree[e]
      /\ RunningIInv'
  BY <1>1, <1>2, ApplyStep DEF EditorIInv
<1>5. /\ Groups(config') = Groups(d) /\ DeviceIds(config') = DeviceIds(d)
      /\ SessionIds(config') = SessionIds(d) /\ (Sound(d) => Sound(config'))
  BY <1>4, SoundAsContents DEF Keeps, SameContents
<1>6. Mended => Mended'
  <2>1. SUFFICES ASSUME Mended
                 PROVE  Mended'
    OBVIOUS
  <2>2. Sound(config') /\ Sound(d)
    BY <1>3, <1>5, <2>1 DEF Mended
  <2>3. DOMAIN devices' = DeviceIds(config') /\ selected' \in SessionIds(config')
    BY <1>3, <1>4, <1>5, <2>1 DEF Mended
  <2>4. \A e \in DOMAIN devices' : devices'[e].copy.parent \in Groups(config') \cup {Root}
    BY <1>4, <1>5, <2>2 DEF Sound, DeviceIds
  <2> QED
    BY <2>2, <2>3, <2>4 DEF Mended
<1>7. StackTyped' /\ Snapshots' = Snapshots
  BY <1>2, StackKept DEF EditorIInv, EditorTyped
<1>8. /\ Shaped(config') /\ config'.structure = config.structure + 1
      /\ DOMAIN config'.tree \subseteq 1..created'[1]
  BY <1>1, <1>4 DEF Keeps, SameContents
<1>9. EditorTyped' /\ ReferencesIInv'
  BY <1>2, <1>4, <1>6, <1>7, <1>8, GrownStep DEF EditorIInv
<1> QED
  BY <1>4, <1>9 DEF EditorIInv

(* A change at once that leaves the devices alone.                           *)
LEMMA AtOnceUnsynced ==
  ASSUME EditorIInv, NEW c, Shaped(c), c.structure = config.structure, c.tree = config.tree,
         Sound(config) => Sound(c), AtOnce(c, FALSE), CreatedGrows,
         ~crossed /\ selected \in SessionIds(config) => selected' \in SessionIds(c)
  PROVE  EditorIInv'
<1> DEFINE d == Restructured(c)
<1>1. /\ Shaped(d) /\ d.tree = c.tree /\ d.sessions = c.sessions
      /\ d.structure = config.structure + 1
  BY ShapedRestructured
<1>2. Apply(d, FALSE) /\ UNCHANGED <<stackVars, preview, crossed>>
  BY DEF AtOnce
<1>3. /\ SessionIds(d) = SessionIds(c) /\ (Sound(config) => Sound(d))
      /\ Groups(d) = Groups(config) /\ DeviceIds(d) = DeviceIds(config)
  <2>1. SessionIds(d) = SessionIds(c) /\ (Sound(c) => Sound(d))
    BY <1>1, SoundAsContents
  <2> QED
    BY <1>1, <2>1 DEF Groups, IsGroup, DeviceIds
<1> HIDE DEF d
<1>4. /\ Keeps(d, config') /\ \A e \in DOMAIN devices' : Plugged(devices'[e])
      /\ DOMAIN devices' = DOMAIN devices
      /\ \A e \in DOMAIN devices' : devices'[e].copy = devices[e].copy
      /\ RunningIInv'
  BY <1>1, <1>2, ApplyStep DEF EditorIInv
<1>5. /\ Groups(config') = Groups(config) /\ DeviceIds(config') = DeviceIds(config)
      /\ SessionIds(config') = SessionIds(c) /\ (Sound(d) => Sound(config'))
  BY <1>3, <1>4, SoundAsContents DEF Keeps, SameContents
<1>6. ~crossed /\ Mended => Mended'
  BY <1>3, <1>4, <1>5 DEF Mended
<1>7. StackTyped' /\ Snapshots' = Snapshots
  BY <1>2, StackKept DEF EditorIInv, EditorTyped
<1>8. /\ Shaped(config') /\ config'.structure = config.structure + 1
      /\ config'.tree = config.tree
  BY <1>1, <1>4 DEF Keeps, SameContents
<1>9. DOMAIN config'.tree \subseteq 1..created'[1]
  BY <1>8 DEF EditorIInv, EditorTyped, Numbered, CreatedGrows
<1>10. EditorTyped' /\ ReferencesIInv'
  BY <1>2, <1>4, <1>6, <1>7, <1>8, <1>9, GrownStep DEF EditorIInv
<1> QED
  BY <1>4, <1>10 DEF EditorIInv

(* The calls that restructure the tree.                                      *)
LEMMA EditorParts ==
  ASSUME EditorIInv
  PROVE  /\ Shaped(config) /\ config.structure \in Nat /\ DOMAIN config.tree \subseteq 1..created[1]
         /\ DOMAIN created = 1..3 /\ created[1] \in Nat /\ IsFiniteSet(DOMAIN config.tree)
<1>1. /\ Shaped(config) /\ DOMAIN config.tree \subseteq 1..created[1]
      /\ DOMAIN created = 1..3 /\ created[1] \in Nat
  BY DEF EditorIInv, EditorTyped, Numbered
<1>2. IsFiniteSet(1..created[1])
  <2>1. created[1] \in Int /\ 1 \in Int
    BY <1>1
  <2> QED
    BY <2>1, FS_Interval
<1>3. IsFiniteSet(DOMAIN config.tree)
  BY <1>1, <1>2, FS_Subset
<1> QED
  BY <1>1, <1>3 DEF Shaped

(* A path published, pushed or rendered.                                     *)
LEMMA PathsStep ==
  ASSUME EditorIInv, EditPaths
  PROVE  EditorIInv'
<1>1. PICK c : Keeps(config, c) /\ AtOnce(c, FALSE)
  <2>1. PICK p, c :
          /\ c \in {[config EXCEPT !.publish = @ \cup {p}],
                    [config EXCEPT !.publish = @ \ {p}, !.push = @ \ {p}],
                    [config EXCEPT !.render = @ \cup {p}],
                    [config EXCEPT !.render = @ \ {p}]}
                   \cup (IF p \notin config.publish THEN {}
                         ELSE {[config EXCEPT !.push = @ \cup {p}],
                               [config EXCEPT !.push = @ \ {p}]})
          /\ AtOnce(c, FALSE)
    BY DEF EditPaths
  <2>2. \E x, y : \/ c = [config EXCEPT !.publish = x]
                  \/ c = [config EXCEPT !.publish = x, !.push = y]
                  \/ c = [config EXCEPT !.render = x] \/ c = [config EXCEPT !.push = x]
    BY <2>1
  <2>3. Keeps(config, c)
    <3>1. PICK x, y : \/ c = [config EXCEPT !.publish = x]
                      \/ c = [config EXCEPT !.publish = x, !.push = y]
                      \/ c = [config EXCEPT !.render = x] \/ c = [config EXCEPT !.push = x]
      BY <2>2
    <3>2. /\ Keeps(config, [config EXCEPT !.publish = x])
          /\ Keeps(config, [config EXCEPT !.publish = x, !.push = y])
          /\ Keeps(config, [config EXCEPT !.render = x])
          /\ Keeps(config, [config EXCEPT !.push = x])
      BY EditorParts, KeepsParts
    <3> QED
      BY <3>1, <3>2
  <2> QED
    BY <2>1, <2>3
<1>2. c.tree = config.tree /\ c.sessions = config.sessions
  BY <1>1 DEF Keeps, SameContents
<1>3. (Sound(config) => Sound(c)) /\ SessionIds(c) = SessionIds(config)
  BY <1>2, SoundAsContents
<1>4. CreatedGrows /\ selected' = selected
  BY EditorParts DEF EditPaths, CreatedGrows
<1> QED
  BY <1>1, <1>2, <1>3, <1>4, AtOnceUnsynced DEF Keeps, SameContents

(* A new node.                                                               *)
LEMMA AddStep ==
  ASSUME EditorIInv, NEW node, Noded(node), node.parent \in Groups(config) \cup {Root}, NEW c,
         c = [config EXCEPT !.tree = AddedNode(config.tree, created[1] + 1, node)],
         AtOnce(c, TRUE), created' = [created EXCEPT ![1] = created[1] + 1],
         selected' = selected
  PROVE  EditorIInv'
<1> DEFINE id == created[1] + 1
           tree == AddedNode(config.tree, id, node)
<1>1. id \in Nat \ (DOMAIN config.tree \cup {Root})
  BY EditorParts DEF Root
<1>2. PICK d : d.tree = tree /\ d.sessions = config.sessions
  <2>1. [tree |-> tree, sessions |-> config.sessions].tree = tree
    OBVIOUS
  <2>2. [tree |-> tree, sessions |-> config.sessions].sessions = config.sessions
    OBVIOUS
  <2> QED
    BY <2>1, <2>2
<1>3. Treed(tree) /\ (Sound(config) => Sound(d))
  BY <1>1, <1>2, EditorParts, SoundAdded
<1>4. /\ Shaped(c) /\ c.tree = tree /\ c.sessions = config.sessions
      /\ c.structure = config.structure
  BY <1>3, EditorParts, ShapedTree
<1>5. (Sound(config) => Sound(c)) /\ SessionIds(c) = SessionIds(config)
  <2>1. Sound(d) => Sound(c)
    BY <1>2, <1>4, SoundAsContents
  <2> QED
    BY <1>3, <1>4, <2>1 DEF SessionIds
<1>6. CreatedGrows /\ created'[1] = created[1] + 1
  BY EditorParts DEF CreatedGrows
<1>7. DOMAIN c.tree \subseteq 1..created'[1]
  <2>1. DOMAIN tree = DOMAIN config.tree \cup {created[1] + 1}
    BY DEF AddedNode
  <2> HIDE DEF tree
  <2> QED
    BY <1>4, <1>6, <2>1, EditorParts
<1> QED
  BY <1>4, <1>5, <1>6, <1>7, AtOnceSynced

(* WorkspaceModel::addDevice.                                                *)
LEMMA AddDeviceStep ==
  ASSUME EditorIInv, AddDevice
  PROVE  EditorIInv'
<1>1. PICK l : AtOnce([config EXCEPT !.tree = [n \in DOMAIN config.tree \cup {created[1] + 1} |->
                         IF n = created[1] + 1
                         THEN [kind |-> "device", parent |-> Root, label |-> l, value |-> 0,
                               ops |-> <<>>]
                         ELSE config.tree[n]]], TRUE)
  BY DEF AddDevice
<1> DEFINE node == [kind |-> "device", parent |-> Root, label |-> l, value |-> 0, ops |-> <<>>]
<1>2. Noded(node) /\ node.parent = Root
  BY DEF Noded, NodeFields, Root
<1>3. AtOnce([config EXCEPT !.tree = AddedNode(config.tree, created[1] + 1, node)], TRUE)
  BY <1>1 DEF AddedNode
<1> HIDE DEF node
<1>4. created' = [created EXCEPT ![1] = created[1] + 1] /\ selected' = selected
  BY DEF AddDevice
<1> QED
  BY <1>2, <1>3, <1>4, AddStep

(* A new group, in the group that was clicked.                               *)
LEMMA CreateGroupStep ==
  ASSUME EditorIInv, CreateGroup
  PROVE  EditorIInv'
<1>1. PICK p, l :
         /\ p \in Groups(config) \cup {Root}
         /\ AtOnce([config EXCEPT !.tree = [n \in DOMAIN config.tree \cup {created[1] + 1} |->
                            IF n = created[1] + 1
                            THEN [kind |-> "group", parent |-> p, label |-> l, value |-> 0,
                                  ops |-> <<>>]
                            ELSE config.tree[n]]], TRUE)
  BY DEF CreateGroup
<1> DEFINE node == [kind |-> "group", parent |-> p, label |-> l, value |-> 0, ops |-> <<>>]
<1>2. p \in Groups(config) \cup {Root}
  BY <1>1
<1>3. p \in Nat
  BY <1>2, EditorParts DEF Groups, Shaped, Treed, Root
<1>4. Noded(node) /\ node.parent = p
  BY <1>3 DEF Noded, NodeFields
<1>5. AtOnce([config EXCEPT !.tree = AddedNode(config.tree, created[1] + 1, node)], TRUE)
  BY <1>1 DEF AddedNode
<1> HIDE DEF node
<1>6. created' = [created EXCEPT ![1] = created[1] + 1] /\ selected' = selected
  BY DEF CreateGroup
<1> QED
  BY <1>4, <1>5, <1>6, <1>2, AddStep

(* A device deleted.                                                         *)
LEMMA DeleteDeviceStep ==
  ASSUME EditorIInv, DeleteDevice
  PROVE  EditorIInv'
<1>1. PICK n \in DeviceIds(config) : AtOnce(WithoutDevice(config, n), TRUE)
  BY DEF DeleteDevice
<1>2. PICK d : d = WithoutDevice(config, n)
  OBVIOUS
<1>3. /\ Shaped(d) /\ d.structure = config.structure /\ DOMAIN d.tree = DOMAIN config.tree \ {n}
      /\ SessionIds(d) = SessionIds(config) /\ (Sound(config) => Sound(d))
  BY <1>2, EditorParts, SoundWithoutDevice
<1>4. CreatedGrows /\ selected' = selected /\ DOMAIN d.tree \subseteq 1..created'[1]
  BY <1>3, EditorParts DEF DeleteDevice, CreatedGrows
<1> QED
  BY <1>1, <1>2, <1>3, <1>4, AtOnceSynced

(* A group deleted, its children to its parent.                              *)
LEMMA DeleteGroupStep ==
  ASSUME EditorIInv, DeleteGroup
  PROVE  EditorIInv'
<1>1. PICK g \in Groups(config) : AtOnce(WithoutGroup(config, g), TRUE)
  BY DEF DeleteGroup
<1>2. PICK d : d = WithoutGroup(config, g)
  OBVIOUS
<1>3. /\ Shaped(d) /\ d.structure = config.structure /\ DOMAIN d.tree = DOMAIN config.tree \ {g}
      /\ SessionIds(d) = SessionIds(config) /\ (Sound(config) => Sound(d))
  BY <1>2, EditorParts, SoundWithoutGroup
<1>4. CreatedGrows /\ selected' = selected /\ DOMAIN d.tree \subseteq 1..created'[1]
  BY <1>3, EditorParts DEF DeleteGroup, CreatedGrows
<1> QED
  BY <1>1, <1>2, <1>3, <1>4, AtOnceSynced

(* A node relabelled or moved, with its paths.                               *)
LEMMA WithNodeKeeps ==
  ASSUME NEW c, Shaped(c), NEW n, NEW node, Noded(node)
  PROVE  /\ Keeps(SetNode(c, n, node), WithNode(c, n, node))
         /\ Shaped(WithNode(c, n, node)) /\ WithNode(c, n, node).tree = [c.tree EXCEPT ![n] = node]
         /\ WithNode(c, n, node).sessions = c.sessions
         /\ WithNode(c, n, node).structure = c.structure
<1> DEFINE changed == SetNode(c, n, node)
<1>1. /\ Shaped(changed) /\ changed.tree = [c.tree EXCEPT ![n] = node]
      /\ changed.sessions = c.sessions /\ changed.structure = c.structure
  BY ShapedNode
<1>2. WithNode(c, n, node) = Reroot(changed, Prefix(c, n), Prefix(changed, n))
  BY DEF WithNode, SetNode
<1> HIDE DEF changed
<1>3. Keeps(changed, WithNode(c, n, node))
  BY <1>1, <1>2, KeepsPaths
<1> QED
  BY <1>1, <1>3 DEF Keeps, SameContents, changed

(* A group renamed.                                                          *)
LEMMA LabelGroupStep ==
  ASSUME EditorIInv, LabelGroup
  PROVE  EditorIInv'
<1>1. PICK g, l :
        /\ g \in Groups(config)
        /\ AtOnce(WithNode(config, g, [config.tree[g] EXCEPT !.label = l]), TRUE)
  BY DEF LabelGroup
<1>2. PICK node : node = [config.tree[g] EXCEPT !.label = l]
  OBVIOUS
<1>3. Noded(config.tree[g]) /\ g \in DOMAIN config.tree
  BY <1>1, EditorParts DEF Shaped, Treed, Groups
<1>4. Noded(node) /\ node.kind = config.tree[g].kind /\ node.parent = config.tree[g].parent
  BY <1>2, <1>3 DEF Noded, NodeFields
<1>5. PICK c : c = WithNode(config, g, node)
  OBVIOUS
<1>6. /\ Shaped(c) /\ c.structure = config.structure /\ DOMAIN c.tree = DOMAIN config.tree
      /\ SameContents(SetNode(config, g, node), c)
  <2>1. /\ Shaped(c) /\ c.structure = config.structure /\ Keeps(SetNode(config, g, node), c)
        /\ c.tree = [config.tree EXCEPT ![g] = node]
    BY <1>4, <1>5, EditorParts, WithNodeKeeps
  <2> QED
    BY <2>1 DEF Keeps
<1>7. Alike(config, SetNode(config, g, node)) /\ (Sound(config) => Sound(SetNode(config, g, node)))
  <2>1. Sound(config) => node.parent \in Groups(config) \cup {Root}
    BY <1>3, <1>4 DEF Sound
  <2> QED
    BY <1>3, <1>4, <2>1, EditorParts, SoundNode
<1>8. SessionIds(c) = SessionIds(config) /\ (Sound(config) => Sound(c))
  BY <1>6, <1>7, SoundAsContents DEF SameContents, Alike
<1>9. CreatedGrows /\ selected' = selected /\ DOMAIN c.tree \subseteq 1..created'[1]
  BY <1>6, EditorParts DEF LabelGroup, CreatedGrows
<1> QED
  BY <1>1, <1>2, <1>5, <1>6, <1>8, <1>9, AtOnceSynced

(* A node dragged elsewhere: the devices are not told.                       *)
LEMMA MoveStep ==
  ASSUME EditorIInv, Move
  PROVE  EditorIInv'
<1>1. PICK n, p :
        /\ n \in DOMAIN config.tree
        /\ CanMove(config, n, p)
        /\ config' = Noted(Restructured(WithNode(config, n, [config.tree[n] EXCEPT !.parent = p])))
  BY DEF Move
<1>2. UNCHANGED <<devices, stackVars, preview, selected, created, crossed, apart>>
  BY DEF Move
<1>3. PICK node : node = [config.tree[n] EXCEPT !.parent = p]
  OBVIOUS
<1>4. p \in Nat
  BY <1>1, EditorParts DEF CanMove, Shaped, Treed, Groups, Root
<1>5. /\ Noded(node) /\ node.kind = config.tree[n].kind
      /\ node.value = config.tree[n].value /\ node.ops = config.tree[n].ops
  <2>1. Noded(config.tree[n])
    BY <1>1, EditorParts DEF Shaped, Treed
  <2> QED
    BY <1>3, <1>4, <2>1 DEF Noded, NodeFields
<1>6. PICK c : c = WithNode(config, n, node)
  OBVIOUS
<1>7. /\ Shaped(c) /\ c.structure = config.structure /\ c.sessions = config.sessions
      /\ c.tree = [config.tree EXCEPT ![n] = node]
  BY <1>5, <1>6, EditorParts, WithNodeKeeps
<1>8. /\ DOMAIN c.tree = DOMAIN config.tree /\ Groups(c) = Groups(config)
      /\ (Sound(config) => Sound(c))
  BY <1>1, <1>3, <1>7, EditorParts, SoundMoved
<1>9. PICK e : e = Restructured(c)
  OBVIOUS
<1>10. /\ Shaped(e) /\ e.tree = c.tree /\ e.sessions = c.sessions
       /\ e.structure = config.structure + 1
  <2>1. e.structure = c.structure + 1 /\ Shaped(e) /\ e.tree = c.tree /\ e.sessions = c.sessions
    BY <1>7, <1>9, ShapedRestructured
  <2> QED
    BY <1>7, <2>1
<1>11. Keeps(e, config')
  BY <1>1, <1>3, <1>6, <1>9, <1>10, KeepsPaths
<1>12. /\ Shaped(config') /\ config'.tree = c.tree /\ config'.sessions = config.sessions
       /\ config'.structure = config.structure + 1
  BY <1>7, <1>10, <1>11 DEF Keeps, SameContents
<1>13. /\ Groups(config') = Groups(config) /\ DeviceIds(config') = DeviceIds(config)
       /\ SessionIds(config') = SessionIds(config) /\ (Sound(config) => Sound(config'))
  <2>1. /\ Groups(config') = Groups(c) /\ DeviceIds(config') = DeviceIds(c)
        /\ SessionIds(config') = SessionIds(c) /\ (Sound(c) => Sound(config'))
    BY <1>7, <1>12, SoundAsContents
  <2>2. DeviceIds(c) = DeviceIds(config)
    BY <1>8 DEF DeviceIds
  <2>3. SessionIds(c) = SessionIds(config)
    BY <1>7 DEF SessionIds
  <2> QED
    BY <1>8, <2>1, <2>2, <2>3
<1>14. Mended => Mended'
  BY <1>2, <1>13 DEF Mended
<1>15. StackTyped' /\ Snapshots' = Snapshots
  BY <1>2, StackKept DEF EditorIInv, EditorTyped
<1>16. CreatedGrows /\ DOMAIN config'.tree \subseteq 1..created'[1]
  BY <1>2, <1>8, <1>12, EditorParts DEF CreatedGrows
<1>17. EditorTyped' /\ ReferencesIInv'
  <2>1. \A d \in DOMAIN devices' : Plugged(devices'[d])
    BY <1>2 DEF EditorIInv, EditorTyped
  <2> QED
    BY <1>2, <1>12, <1>14, <1>15, <1>16, <2>1, GrownStep DEF EditorIInv
<1>18. RunningIInv'
  <2>1. \A d \in DOMAIN config.tree :
          /\ config'.tree[d].kind = config.tree[d].kind
          /\ config'.tree[d].value = config.tree[d].value
          /\ config'.tree[d].ops = config.tree[d].ops
    BY <1>5, <1>7, <1>12
  <2> QED
    BY <1>2, <1>8, <1>12, <2>1 DEF EditorIInv, RunningIInv
<1> QED
  BY <1>17, <1>18 DEF EditorIInv

(* A device copied, or a group with all it holds.                            *)
LEMMA DuplicateStep ==
  ASSUME EditorIInv, Duplicate
  PROVE  EditorIInv'
<1>1. PICK n \in DOMAIN config.tree :
       LET set == Subtree(config, n)
           from == SetToSeq(set)
           new(m) == created[1] + SelectInSeq(from, LAMBDA x : x = m)
           before(m) == FoldLeft(LAMBDA sum, x : IF new(x) < new(m)
                                   THEN sum + Len(config.tree[x].ops) ELSE sum, 0, from)
           operators == FoldLeft(LAMBDA sum, x : sum + Len(config.tree[x].ops), 0, from)
           ids == DOMAIN config.tree \cup {new(m) : m \in set}
           copied(id) ==
             LET m == from[id - created[1]]
                 node == [config.tree[m] EXCEPT !.ops = Renewed(@, created[3] + before(m))]
             IN IF node.parent \in set THEN [node EXCEPT !.parent = new(@)] ELSE node
       IN /\ created' = [created EXCEPT ![1] = @ + Len(from), ![3] = @ + operators]
          /\ AtOnce([config EXCEPT !.tree = [id \in ids |->
                       IF id \in DOMAIN @ THEN @[id] ELSE copied(id)]], TRUE)
  BY DEF Duplicate
<1> DEFINE set == Subtree(config, n)
           from == SetToSeq(set)
           at == [m \in set |-> SelectInSeq(from, LAMBDA x : x = m)]
           new(m) == created[1] + SelectInSeq(from, LAMBDA x : x = m)
           before(m) == FoldLeft(LAMBDA sum, x : IF new(x) < new(m)
                                   THEN sum + Len(config.tree[x].ops) ELSE sum, 0, from)
           operators == FoldLeft(LAMBDA sum, x : sum + Len(config.tree[x].ops), 0, from)
           ids == DOMAIN config.tree \cup {new(m) : m \in set}
           renewed(m) == [config.tree[m] EXCEPT
                            !.ops = Renewed(config.tree[m].ops, created[3] + before(m))]
           copied(id) ==
             LET m == from[id - created[1]]
             IN IF renewed(m).parent \in set
                THEN [renewed(m) EXCEPT !.parent = new(renewed(m).parent)] ELSE renewed(m)
           tree == [id \in ids |-> IF id \in DOMAIN config.tree THEN config.tree[id]
                                   ELSE copied(id)]
           k == Len(from)
<1>2. /\ created' = [created EXCEPT ![1] = created[1] + k, ![3] = created[3] + operators]
      /\ AtOnce([config EXCEPT !.tree = tree], TRUE)
  BY <1>1
<1>3. set \in SUBSET DOMAIN config.tree /\ IsFiniteSet(set)
  <2>1. set \in SUBSET DOMAIN config.tree
    BY DEF Subtree
  <2> QED
    BY <2>1, EditorParts, FS_Subset
<1> HIDE DEF set
<1>4. /\ k \in Nat /\ from \in [1..k -> set]
      /\ \A m \in set : /\ SelectInSeq(from, LAMBDA x : x = m) \in 1..k
                        /\ from[SelectInSeq(from, LAMBDA x : x = m)] = m
  BY <1>3, PlaceInList
<1>5. /\ at \in [set -> 1..k] /\ \A m \in set : from[at[m]] = m
      /\ \A m \in set : new(m) = created[1] + at[m]
  BY <1>4
<1>6. \A m \in set : /\ DOMAIN renewed(m) = NodeFields /\ renewed(m).kind = config.tree[m].kind
                     /\ renewed(m).parent = config.tree[m].parent
  <2>1. \A m \in set : Noded(config.tree[m])
    BY <1>3, EditorParts DEF Shaped, Treed
  <2> HIDE DEF before
  <2> QED
    BY <2>1 DEF Noded, NodeFields
<1> HIDE DEF at, renewed
<1>7. ASSUME NEW m \in set
      PROVE  /\ created[1] + at[m] \in Nat /\ created[1] + at[m] \notin DOMAIN config.tree
             /\ from[(created[1] + at[m]) - created[1]] = m
  <2>1. /\ at[m] \in 1..k /\ created[1] \in Nat /\ DOMAIN config.tree \subseteq 1..created[1]
        /\ k \in Nat
    BY <1>4, <1>5, EditorParts
  <2>2. (created[1] + at[m]) - created[1] = at[m] /\ created[1] + at[m] > created[1]
    BY <2>1
  <2>3. created[1] + at[m] \in Nat /\ created[1] + at[m] \notin DOMAIN config.tree
    BY <2>1, <2>2
  <2> QED
    BY <1>5, <2>2, <2>3
<1>8. /\ DOMAIN tree = DOMAIN config.tree \cup {created[1] + at[m] : m \in set}
      /\ \A i \in DOMAIN config.tree : tree[i] = config.tree[i]
  <2>1. ids = DOMAIN config.tree \cup {created[1] + at[m] : m \in set}
    <3> HIDE DEF new
    <3> QED
      BY <1>5
  <2> HIDE DEF ids, copied
  <2> QED
    BY <2>1
<1>9. ASSUME NEW m \in set
      PROVE  tree[created[1] + at[m]] =
               IF renewed(m).parent \in set
               THEN [renewed(m) EXCEPT !.parent = created[1] + at[renewed(m).parent]]
               ELSE renewed(m)
  <2>1. copied(created[1] + at[m]) =
          IF renewed(m).parent \in set
          THEN [renewed(m) EXCEPT !.parent = created[1] + at[renewed(m).parent]]
          ELSE renewed(m)
    <3> HIDE DEF new, from
    <3> QED
      BY <1>5, <1>7
  <2>2. tree[created[1] + at[m]] = copied(created[1] + at[m])
    <3>1. created[1] + at[m] \in ids
      <4> HIDE DEF new
      <4> QED
        BY <1>5
    <3> HIDE DEF ids, copied
    <3> QED
      BY <1>7, <3>1
  <2> HIDE DEF tree, copied
  <2> QED
    BY <2>1, <2>2
<1> HIDE DEF tree
<1>10. \A m \in set :
         /\ DOMAIN tree[created[1] + at[m]] = NodeFields
         /\ tree[created[1] + at[m]].kind = config.tree[m].kind
         /\ tree[created[1] + at[m]].parent =
              IF config.tree[m].parent \in set THEN created[1] + at[config.tree[m].parent]
              ELSE config.tree[m].parent
  <2> HIDE DEF from
  <2> SUFFICES ASSUME NEW m \in set
               PROVE  /\ DOMAIN tree[created[1] + at[m]] = NodeFields
                      /\ tree[created[1] + at[m]].kind = config.tree[m].kind
                      /\ tree[created[1] + at[m]].parent =
                           IF config.tree[m].parent \in set
                           THEN created[1] + at[config.tree[m].parent]
                           ELSE config.tree[m].parent
    OBVIOUS
  <2>1. PICK r : r = renewed(m)
    OBVIOUS
  <2>2. PICK up : up = created[1] + at[r.parent]
    OBVIOUS
  <2>3. PICK node : node = tree[created[1] + at[m]]
    OBVIOUS
  <2>4. /\ DOMAIN r = NodeFields /\ r.kind = config.tree[m].kind
        /\ r.parent = config.tree[m].parent
    BY <1>6, <2>1
  <2>5. node = IF r.parent \in set THEN [r EXCEPT !.parent = up] ELSE r
    BY <1>9, <2>1, <2>2, <2>3
  <2>6. /\ DOMAIN node = NodeFields /\ node.kind = r.kind
        /\ node.parent = IF r.parent \in set THEN up ELSE r.parent
    BY <2>4, <2>5 DEF NodeFields
  <2> QED
    BY <2>2, <2>3, <2>4, <2>6
<1> HIDE DEF from, operators
<1>11. PICK c : c = [config EXCEPT !.tree = tree]
  OBVIOUS
<1>12. PICK d : d.tree = tree /\ d.sessions = config.sessions
  <2>1. [tree |-> tree, sessions |-> config.sessions].tree = tree
    OBVIOUS
  <2>2. [tree |-> tree, sessions |-> config.sessions].sessions = config.sessions
    OBVIOUS
  <2> QED
    BY <2>1, <2>2
<1>13. Treed(tree) /\ DOMAIN tree \subseteq 1..(created[1] + k) /\ (Sound(config) => Sound(d))
  <2>1. \A i, j \in set : at[i] = at[j] => i = j
    BY <1>5
  <2>2. /\ Shaped(config) /\ created[1] \in Nat /\ DOMAIN config.tree \subseteq 1..created[1]
        /\ set \in SUBSET DOMAIN config.tree /\ k \in Nat /\ at \in [set -> 1..k]
    BY <1>3, <1>4, <1>5, EditorParts
  <2>3. CopiedTo(config, created[1], set, at, d)
    BY <1>8, <1>10, <1>12, <2>1 DEF CopiedTo
  <2> HIDE DEF k, at, tree
  <2>4. /\ Treed(d.tree) /\ DOMAIN d.tree \subseteq 1..(created[1] + k)
        /\ (Sound(config) => Sound(d))
    BY <2>2, <2>3, SoundCopied
  <2> QED
    BY <1>12, <2>4
<1>14. /\ Shaped(c) /\ c.tree = tree /\ c.sessions = config.sessions
       /\ c.structure = config.structure
  BY <1>11, <1>13, EditorParts, ShapedTree
<1>15. (Sound(config) => Sound(c)) /\ SessionIds(c) = SessionIds(config)
  <2>1. Sound(d) => Sound(c)
    BY <1>12, <1>14, SoundAsContents
  <2> QED
    BY <1>13, <1>14, <2>1 DEF SessionIds
<1>16. CreatedGrows /\ created'[1] = created[1] + k
  BY <1>2, <1>4, EditorParts DEF CreatedGrows
<1>17. selected' = selected
  BY DEF Duplicate
<1> QED
  BY <1>2, <1>11, <1>13, <1>14, <1>15, <1>16, <1>17, AtOnceSynced

(* The calls on sessions.                                                    *)
LEMMA AppendStep ==
  ASSUME EditorIInv, NEW s, DOMAIN s = SessionFields,
         Sound(config) => s.off \subseteq DOMAIN config.tree, AppendSession(s)
  PROVE  EditorIInv'
<1>1. PICK new, c :
        /\ \E ops, l : new = [s EXCEPT !.id = created[2] + 1, !.ops = ops, !.label = l]
        /\ c = [config EXCEPT !.selected = new.id, !.sessions = Append(config.sessions, new)]
        /\ AtOnce(c, FALSE)
  BY DEF AppendSession
<1>2. DOMAIN new = SessionFields /\ new.id = created[2] + 1 /\ new.off = s.off
  BY <1>1 DEF SessionFields
<1>3. Shaped(config) /\ SessionsListed(config.sessions)
  BY EditorParts DEF Shaped
<1>4. PICK list : list = Append(config.sessions, new)
  OBVIOUS
<1>5. PICK n \in Nat : n = Len(config.sessions)
  BY <1>3 DEF SessionsListed, Listed
<1>6. /\ SessionsListed(list) /\ DOMAIN list = 1..(n + 1) /\ DOMAIN config.sessions = 1..n
      /\ \A i \in 1..(n + 1) : list[i] = IF i = n + 1 THEN new ELSE config.sessions[i]
  <2>1. Extended(list, config.sessions, new)
    BY <1>2, <1>3, <1>4, SessionAppended
  <2> QED
    BY <1>5, <2>1 DEF Extended
<1>7. /\ Shaped(c) /\ c.sessions = list /\ c.tree = config.tree
      /\ c.structure = config.structure
  <2>1. PICK d : d = [config EXCEPT !.sessions = list]
    OBVIOUS
  <2>2. Shaped(d) /\ d.sessions = list /\ d.tree = config.tree /\ d.structure = config.structure
    BY <1>3, <1>6, <2>1, ShapedSessions
  <2>3. Keeps(d, [config EXCEPT !.selected = new.id, !.sessions = list])
    BY <1>3, <1>6, <2>1, ShapedSessions
  <2> QED
    BY <1>1, <1>4, <2>2, <2>3 DEF Keeps, SameContents
<1>8. new.id \in SessionIds(c)
  BY <1>5, <1>6, <1>7 DEF SessionIds
<1>9. Sound(config) => Sound(c)
  BY <1>2, <1>6, <1>7 DEF Sound, Grounded, Groups, IsGroup
<1>10. CreatedGrows /\ selected' = new.id
  BY <1>2, EditorParts DEF AppendSession, CreatedGrows
<1> QED
  BY <1>1, <1>7, <1>8, <1>9, <1>10, AtOnceUnsynced

(* A new session, everything switched off.                                   *)
LEMMA AddSessionStep ==
  ASSUME EditorIInv, AddSession
  PROVE  EditorIInv'
<1>1. PICK s : s = [id |-> 0, label |-> "", off |-> DOMAIN config.tree, value |-> 0, ops |-> <<>>]
  OBVIOUS
<1>2. AppendSession(s)
  BY <1>1 DEF AddSession
<1>3. DOMAIN s = SessionFields /\ s.off = DOMAIN config.tree
  BY <1>1 DEF SessionFields
<1> QED
  BY <1>2, <1>3, AppendStep

(* A session copied.                                                         *)
LEMMA DuplicateSessionStep ==
  ASSUME EditorIInv, DuplicateSession
  PROVE  EditorIInv'
<1>1. PICK i \in DOMAIN config.sessions : AppendSession(config.sessions[i])
  BY DEF DuplicateSession
<1>2. DOMAIN config.sessions[i] = SessionFields
  BY EditorParts DEF Shaped, SessionsListed, Listed
<1>3. Sound(config) => config.sessions[i].off \subseteq DOMAIN config.tree
  BY DEF Sound
<1> QED
  BY <1>1, <1>2, <1>3, AppendStep

(* A change at once to the list of sessions.                                 *)
LEMMA SessionsStep ==
  ASSUME EditorIInv, NEW list, SessionsListed(list), NEW c, NEW x,
         \/ SameContents([config EXCEPT !.sessions = list], c)
         \/ SameContents([config EXCEPT !.sessions = list, !.selected = x], c),
         Shaped(c), AtOnce(c, FALSE), CreatedGrows,
         \A j \in DOMAIN list : Sound(config) => list[j].off \subseteq DOMAIN config.tree,
         \/ selected' \in SessionIds(config')
         \/ /\ selected' = selected
            /\ SessionIds([config EXCEPT !.sessions = list]) = SessionIds(config)
  PROVE  EditorIInv'
<1>1. PICK d : d = [config EXCEPT !.sessions = list]
  OBVIOUS
<1>2. /\ Shaped(d) /\ d.sessions = list /\ d.tree = config.tree /\ d.structure = config.structure
      /\ SameContents(d, [config EXCEPT !.sessions = list, !.selected = x])
  BY <1>1, EditorParts, ShapedSessions DEF Keeps
<1>3. c.sessions = list /\ c.tree = config.tree /\ c.structure = config.structure
  BY <1>1, <1>2 DEF SameContents
<1>4. Sound(config) => Sound(c)
  BY <1>3 DEF Sound, Grounded, Groups, IsGroup
<1>5. SessionIds(config') = SessionIds(c) /\ SessionIds(d) = SessionIds(c)
  <2>1. Shaped(Restructured(c)) /\ Restructured(c).sessions = c.sessions
    BY ShapedRestructured
  <2>2. Keeps(Restructured(c), config')
    BY <2>1, KeepsPaths DEF AtOnce, Apply
  <2> QED
    BY <1>2, <1>3, <2>1, <2>2 DEF Keeps, SameContents, SessionIds
<1> QED
  BY <1>1, <1>3, <1>4, <1>5, AtOnceUnsynced

(* What the configuration is after a change at once.                         *)
LEMMA ConfigAfterAtOnce ==
  ASSUME NEW c, Shaped(c), NEW sync, AtOnce(c, sync)
  PROVE  Shaped(config') /\ config'.sessions = c.sessions
<1>1. Shaped(Restructured(c)) /\ Restructured(c).sessions = c.sessions
  BY ShapedRestructured
<1>2. Keeps(Restructured(c), config')
  BY <1>1, KeepsPaths DEF AtOnce, Apply
<1> QED
  BY <1>1, <1>2 DEF Keeps, SameContents

(* A session removed, and another selected.                                  *)
LEMMA RemoveSessionStep ==
  ASSUME EditorIInv, RemoveSession
  PROVE  EditorIInv'
<1>1. PICK i, next :
        /\ i \in DOMAIN config.sessions
        /\ AtOnce(ErasePaths([config EXCEPT !.sessions = RemoveAt(config.sessions, i),
                                            !.selected = next],
                             SessionPrefix(config.sessions[i])), FALSE)
        /\ selected' = Selection(config', next)
  BY DEF RemoveSession
<1>2. PICK list : list = RemoveAt(config.sessions, i)
  OBVIOUS
<1>3. Shaped(config) /\ SessionsListed(config.sessions) /\ Len(config.sessions) > 1
  BY EditorParts DEF Shaped, RemoveSession
<1>4. /\ SessionsListed(list)
      /\ \A j \in DOMAIN list : \E k \in DOMAIN config.sessions : list[j] = config.sessions[k]
  <2>1. i \in DOMAIN config.sessions
    BY <1>1
  <2> QED
    BY <1>2, <1>3, <2>1, SessionRemoved
<1>5. PICK d : d = [config EXCEPT !.sessions = list, !.selected = next]
  OBVIOUS
<1>6. Shaped(d)
  BY <1>3, <1>4, <1>5, ShapedSessions DEF Keeps
<1>7. PICK c : c = ErasePaths(d, SessionPrefix(config.sessions[i]))
  OBVIOUS
<1>8. Shaped(c) /\ SameContents(d, c)
  BY <1>6, <1>7, KeepsPaths DEF Keeps
<1>9. AtOnce(c, FALSE)
  BY <1>1, <1>2, <1>5, <1>7
<1>10. selected' \in SessionIds(config')
  BY <1>1, <1>8, <1>9, ConfigAfterAtOnce, SelectionExists
<1>11. CreatedGrows
  BY EditorParts DEF RemoveSession, CreatedGrows
<1>12. \A j \in DOMAIN list : Sound(config) => list[j].off \subseteq DOMAIN config.tree
  BY <1>4 DEF Sound
<1> QED
  BY <1>4, <1>5, <1>8, <1>9, <1>10, <1>11, <1>12, SessionsStep

(* A session renamed.                                                        *)
LEMMA LabelSessionStep ==
  ASSUME EditorIInv, LabelSession
  PROVE  EditorIInv'
<1>1. PICK i, l :
        /\ i \in DOMAIN config.sessions
        /\ LET changed == [config EXCEPT !.sessions[i].label = l]
           IN AtOnce(Reroot(changed, SessionPrefix(config.sessions[i]),
                            SessionPrefix(changed.sessions[i])), FALSE)
  BY DEF LabelSession
<1>2. selected' = Selection(config', selected) /\ CreatedGrows
  BY EditorParts DEF LabelSession, CreatedGrows
<1>3. Shaped(config) /\ SessionsListed(config.sessions) /\ DOMAIN config = ConfigFields
  BY EditorParts DEF Shaped
<1>4. PICK s : s = [config.sessions[i] EXCEPT !.label = l]
  OBVIOUS
<1>5. DOMAIN s = SessionFields /\ s.off = config.sessions[i].off
  <2>1. i \in DOMAIN config.sessions
    BY <1>1
  <2> QED
    BY <1>3, <1>4, <2>1 DEF SessionsListed, Listed, SessionFields
<1>6. PICK list : list = [config.sessions EXCEPT ![i] = s]
  OBVIOUS
<1>7. /\ SessionsListed(list) /\ DOMAIN list = DOMAIN config.sessions
      /\ \A j \in DOMAIN list : list[j] = IF j = i THEN s ELSE config.sessions[j]
  <2>1. /\ SessionsListed(list) /\ DOMAIN list = 1..Len(config.sessions)
        /\ \A j \in 1..Len(config.sessions) :
             list[j] = IF j = i THEN s ELSE config.sessions[j]
    BY <1>3, <1>5, <1>6, SessionReplaced
  <2>2. DOMAIN config.sessions = 1..Len(config.sessions)
    BY <1>3 DEF SessionsListed, Listed
  <2> QED
    BY <2>1, <2>2
<1>8. PICK d : d = [config EXCEPT !.sessions = list]
  OBVIOUS
<1>9. d = [config EXCEPT !.sessions[i].label = l]
  BY <1>3, <1>4, <1>6, <1>8 DEF ConfigFields
<1>10. Shaped(d)
  BY <1>3, <1>7, <1>8, ShapedSessions
<1>11. PICK c : c = Reroot(d, SessionPrefix(config.sessions[i]), SessionPrefix(d.sessions[i]))
  OBVIOUS
<1>12. Shaped(c) /\ SameContents(d, c)
  BY <1>10, <1>11, KeepsPaths DEF Keeps
<1>13. AtOnce(c, FALSE)
  BY <1>1, <1>9, <1>11
<1>14. selected' \in SessionIds(config')
  BY <1>2, <1>12, <1>13, ConfigAfterAtOnce, SelectionExists
<1>15. \A j \in DOMAIN list : Sound(config) => list[j].off \subseteq DOMAIN config.tree
  BY <1>5, <1>7 DEF Sound
<1> QED
  BY <1>2, <1>7, <1>8, <1>12, <1>13, <1>14, <1>15, SessionsStep

(* A node switched off or on in the selected session.                        *)
LEMMA SwitchNodeStep ==
  ASSUME EditorIInv, SwitchNode
  PROVE  EditorIInv'
<1> DEFINE i == SessionAt(config, selected)
<1>1. PICK n \in DOMAIN config.tree :
        AtOnce([config EXCEPT !.sessions[i].off =
                  IF n \in config.sessions[i].off THEN config.sessions[i].off \ {n}
                  ELSE config.sessions[i].off \cup {n}], FALSE)
  BY DEF SwitchNode
<1>2. i # 0 /\ i = SessionAt(config, selected) /\ selected' = selected /\ CreatedGrows
  BY EditorParts DEF SwitchNode, CreatedGrows
<1> HIDE DEF i
<1>3. Shaped(config) /\ SessionsListed(config.sessions) /\ DOMAIN config = ConfigFields
  BY EditorParts DEF Shaped
<1>4. PICK s : s = [config.sessions[i] EXCEPT !.off =
                  IF n \in config.sessions[i].off THEN config.sessions[i].off \ {n}
                  ELSE config.sessions[i].off \cup {n}]
  OBVIOUS
<1>5. PICK list : list = IF i \in DOMAIN config.sessions THEN [config.sessions EXCEPT ![i] = s]
                         ELSE config.sessions
  OBVIOUS
<1>6. i \in DOMAIN config.sessions =>
        /\ DOMAIN s = SessionFields /\ s.id = config.sessions[i].id
        /\ s.off \subseteq config.sessions[i].off \cup {n}
  BY <1>3, <1>4 DEF SessionsListed, Listed, SessionFields
<1>7. /\ SessionsListed(list) /\ DOMAIN list = DOMAIN config.sessions
      /\ \A j \in DOMAIN list :
           list[j] = IF i \in DOMAIN config.sessions /\ j = i THEN s ELSE config.sessions[j]
  <2>1. CASE i \in DOMAIN config.sessions
    BY <1>3, <1>5, <1>6, <2>1, SessionReplaced DEF SessionsListed, Listed
  <2>2. CASE i \notin DOMAIN config.sessions
    BY <1>3, <1>5, <2>2
  <2> QED
    BY <2>1, <2>2
<1>8. PICK c : c = [config EXCEPT !.sessions = list]
  OBVIOUS
<1>9. c = [config EXCEPT !.sessions[i].off =
                  IF n \in config.sessions[i].off THEN config.sessions[i].off \ {n}
                  ELSE config.sessions[i].off \cup {n}]
  <2>1. list = [config.sessions EXCEPT ![i] = s]
    BY <1>3, <1>5 DEF SessionsListed, Listed
  <2> QED
    BY <1>3, <1>4, <1>8, <2>1 DEF ConfigFields
<1>10. Shaped(c) /\ c.sessions = list
  BY <1>3, <1>7, <1>8, ShapedSessions
<1>11. SessionIds(c) = SessionIds(config)
  BY <1>6, <1>7, <1>10 DEF SessionIds
<1>12. AtOnce(c, FALSE)
  BY <1>1, <1>9
<1>13. \A j \in DOMAIN list : Sound(config) => list[j].off \subseteq DOMAIN config.tree
  BY <1>6, <1>7 DEF Sound
<1>14. SameContents([config EXCEPT !.sessions = list], c)
  BY <1>8 DEF SameContents
<1> QED
  BY <1>2, <1>7, <1>8, <1>10, <1>11, <1>12, <1>13, <1>14, SessionsStep

(* Operators of a session added, removed or moved.                           *)
LEMMA EditSessionOperatorsStep ==
  ASSUME EditorIInv, EditSessionOperators
  PROVE  EditorIInv'
<1>1. PICK i, ops, c :
        /\ i \in DOMAIN config.sessions
        /\ \/ c = WithSessionOperators(config, i, ops)
           \/ \E a : c = ErasePaths(WithSessionOperators(config, i, ops), a)
        /\ AtOnce(c, FALSE)
        /\ created' = created \/ created' = [created EXCEPT ![3] = created[3] + 1]
  BY DEF EditSessionOperators
<1>2. selected' = Selection(config', selected) /\ CreatedGrows
  BY <1>1, EditorParts DEF EditSessionOperators, CreatedGrows
<1>3. Shaped(config) /\ SessionsListed(config.sessions) /\ DOMAIN config = ConfigFields
  BY EditorParts DEF Shaped
<1>4. PICK s : s = [config.sessions[i] EXCEPT !.ops = ops]
  OBVIOUS
<1>5. DOMAIN s = SessionFields /\ s.off = config.sessions[i].off
  <2>1. i \in DOMAIN config.sessions
    BY <1>1
  <2> QED
    BY <1>3, <1>4, <2>1 DEF SessionsListed, Listed, SessionFields
<1>6. PICK list : list = [config.sessions EXCEPT ![i] = s]
  OBVIOUS
<1>7. /\ SessionsListed(list) /\ DOMAIN list = DOMAIN config.sessions
      /\ \A j \in DOMAIN list : list[j] = IF j = i THEN s ELSE config.sessions[j]
  <2>1. /\ SessionsListed(list) /\ DOMAIN list = 1..Len(config.sessions)
        /\ \A j \in 1..Len(config.sessions) :
             list[j] = IF j = i THEN s ELSE config.sessions[j]
    BY <1>3, <1>5, <1>6, SessionReplaced
  <2>2. DOMAIN config.sessions = 1..Len(config.sessions)
    BY <1>3 DEF SessionsListed, Listed
  <2> QED
    BY <2>1, <2>2
<1>8. PICK d : d = [config EXCEPT !.sessions = list]
  OBVIOUS
<1>9. d = WithSessionOperators(config, i, ops)
  BY <1>3, <1>4, <1>6, <1>8 DEF ConfigFields, WithSessionOperators
<1>10. Shaped(d)
  BY <1>3, <1>7, <1>8, ShapedSessions
<1>11. Shaped(c) /\ SameContents(d, c)
  BY <1>1, <1>9, <1>10, KeepsPaths DEF Keeps, SameContents
<1>12. selected' \in SessionIds(config')
  BY <1>1, <1>2, <1>11, ConfigAfterAtOnce, SelectionExists
<1>13. \A j \in DOMAIN list : Sound(config) => list[j].off \subseteq DOMAIN config.tree
  BY <1>5, <1>7 DEF Sound
<1> QED
  BY <1>1, <1>2, <1>7, <1>8, <1>11, <1>12, <1>13, SessionsStep

(* A file is opened.                                                         *)
LEMMA OpeningShaped ==
  ASSUME NEW c \in Opening
  PROVE  Shaped(c) /\ Sound(c) /\ DOMAIN c.tree \subseteq FileNodes
<1>1. IsConfig(c) /\ Sound(c)
  BY EditorAssumption
<1>2. DOMAIN c = ConfigFields
  <2>1. PICK t, s, pb, ps, rd, st, sl, k, e, b :
          c = [tree |-> t, sessions |-> s, publish |-> pb, push |-> ps, render |-> rd,
               settings |-> st, selected |-> sl, structure |-> k, era |-> e, blurred |-> b]
    BY <1>1 DEF IsConfig
  <2> QED
    BY <2>1 DEF ConfigFields
<1>3. Treed(c.tree)
  <2>1. DOMAIN c.tree \subseteq Nat \ {Root} /\ \A n \in DOMAIN c.tree : c.tree[n] \in Node
    BY <1>1 DEF IsConfig
  <2>2. \A n \in DOMAIN c.tree : Noded(c.tree[n])
    BY <2>1 DEF Node, Noded, NodeFields
  <2> QED
    BY <2>1, <2>2 DEF Treed
<1>4. SessionsListed(c.sessions)
  <2>1. c.sessions \in Seq(Session) /\ Len(c.sessions) >= 1
    BY <1>1 DEF IsConfig
  <2>2. Listed(c.sessions) /\ \A i \in 1..Len(c.sessions) : c.sessions[i] \in Session
    BY <2>1, SeqIsList
  <2>3. \A i \in 1..Len(c.sessions) : DOMAIN c.sessions[i] = SessionFields
    BY <2>2 DEF Session, SessionFields
  <2> QED
    BY <2>1, <2>2, <2>3 DEF SessionsListed
<1>5. Shaped(c)
  BY <1>1, <1>2, <1>3, <1>4 DEF Shaped, IsConfig
<1> QED
  BY <1>1, <1>5 DEF FileNodes

(* Another file opened while commands may still be posted.                   *)
LEMMA LoadFileStep ==
  ASSUME EditorIInv, LoadFile
  PROVE  EditorIInv'
<1>1. PICK c \in Opening :
        Apply([c EXCEPT !.structure = config.structure + 1, !.era = config.era + 1], TRUE)
  BY DEF LoadFile
<1>2. /\ selected' = Selection(config', selected)
      /\ undoStack' = <<>> /\ undone' = 0 /\ UNCHANGED <<posted, preview, created, crossed>>
  BY DEF LoadFile
<1>3. PICK d : d = [c EXCEPT !.structure = config.structure + 1, !.era = config.era + 1]
  OBVIOUS
<1>4. /\ Shaped(d) /\ d.tree = c.tree /\ d.sessions = c.sessions
      /\ d.structure = config.structure + 1
  <2>1. PICK k, e : k \in Nat /\ k = config.structure + 1 /\ e = config.era + 1
    BY EditorParts
  <2>2. Shaped(c) /\ d = [c EXCEPT !.structure = k, !.era = e]
    BY <1>3, <2>1, OpeningShaped
  <2>3. Shaped(d) /\ d.tree = c.tree /\ d.sessions = c.sessions /\ d.structure = k
    BY <2>1, <2>2 DEF Shaped, ConfigFields
  <2> QED
    BY <2>1, <2>3
<1>5. Sound(d)
  BY <1>4, OpeningShaped, SoundAsContents
<1>6. /\ Keeps(d, config') /\ \A e \in DOMAIN devices' : Plugged(devices'[e])
      /\ DOMAIN devices' = DeviceIds(d)
      /\ \A e \in DOMAIN devices' : devices'[e].copy = d.tree[e]
      /\ RunningIInv'
  BY <1>1, <1>3, <1>4, ApplyStep DEF EditorIInv
<1>7. /\ Groups(config') = Groups(d) /\ DeviceIds(config') = DeviceIds(d) /\ Sound(config')
  BY <1>5, <1>6, SoundAsContents DEF Keeps, SameContents
<1>8. selected' \in SessionIds(config') /\ Shaped(config')
  BY <1>2, <1>6, SelectionExists DEF Keeps
<1>9. Mended'
  <2>1. \A e \in DOMAIN devices' : devices'[e].copy.parent \in Groups(config') \cup {Root}
    BY <1>5, <1>6, <1>7 DEF Sound, DeviceIds
  <2> QED
    BY <1>6, <1>7, <1>8, <2>1 DEF Mended
<1>10. StackTyped' /\ Snapshots' \subseteq Snapshots
  <2>1. Len(<<>>) = 0 /\ Listed(<<>>)
    BY DEF Listed
  <2>2. StackTyped'
    BY <1>2, <2>1 DEF EditorIInv, EditorTyped, StackTyped, Listed
  <2>3. Len(undoStack') = 0
    BY <1>2, <2>1
  <2> QED
    BY <1>2, <2>2, <2>3 DEF Snapshots
<1>11. /\ CreatedGrows /\ DOMAIN config'.tree \subseteq 1..created'[1]
       /\ config'.structure = config.structure + 1
  <2>1. config'.tree = c.tree /\ config'.structure = config.structure + 1
    BY <1>4, <1>6 DEF Keeps, SameContents
  <2>2. CreatedGrows /\ created' = created
    BY <1>2, EditorParts DEF CreatedGrows
  <2>3. DOMAIN c.tree \subseteq FileNodes /\ FileNodes \subseteq 1..created[1]
    BY OpeningShaped DEF EditorIInv, EditorTyped
  <2> QED
    BY <2>1, <2>2, <2>3
<1>12. EditorTyped' /\ ReferencesIInv'
  BY <1>2, <1>6, <1>8, <1>9, <1>10, <1>11, GrownStep DEF EditorIInv
<1> QED
  BY <1>6, <1>12 DEF EditorIInv

(* The operators of a device are added, removed and moved.                   *)
LEMMA UpdateOperatorsStep ==
  ASSUME EditorIInv, NEW d \in DeviceIds(config) \cap DOMAIN devices, NEW ops, NEW c,
         Keeps(WithDeviceOperators(config, d, ops), c), UpdateOperators(d, c), CreatedGrows
  PROVE  EditorIInv'
<1>1. /\ config' = Noted(Restructured(c))
      /\ devices' = [Members(c, devices) EXCEPT ![d].copy = c.tree[d]]
      /\ apart' = (apart \cup {e \in DOMAIN c.tree : c.tree[e] # config.tree[e]}) \ {d}
      /\ UNCHANGED <<stackVars, preview, crossed, selected>>
  BY DEF UpdateOperators
<1>2. PICK node : node = [config.tree[d] EXCEPT !.ops = ops]
  OBVIOUS
<1>3. d \in DOMAIN config.tree /\ Noded(config.tree[d]) /\ config.tree[d].kind = "device"
  BY EditorParts DEF DeviceIds, Groups, IsGroup, Shaped, Treed, Noded
<1>4. /\ Noded(node) /\ node.kind = "device" /\ node.parent = config.tree[d].parent
  BY <1>2, <1>3 DEF Noded, NodeFields
<1>5. WithDeviceOperators(config, d, ops) = SetNode(config, d, node)
  BY <1>2, EditorParts DEF WithDeviceOperators, SetNode, Shaped, ConfigFields
<1>6. PICK e : e = SetNode(config, d, node)
  OBVIOUS
<1>7. /\ Shaped(e) /\ e.tree = [config.tree EXCEPT ![d] = node] /\ e.sessions = config.sessions
      /\ e.structure = config.structure /\ Shaped(c) /\ SameContents(e, c)
  <2>1. Shaped(c) /\ SameContents(e, c)
    BY <1>5, <1>6 DEF Keeps
  <2> QED
    BY <1>4, <1>6, <2>1, EditorParts, ShapedNode
<1>8. /\ Alike(config, e) /\ DeviceIds(e) = DeviceIds(config) /\ (Sound(config) => Sound(e))
  <2>1. Sound(config) => node.parent \in Groups(config) \cup {Root}
    BY <1>3, <1>4 DEF Sound
  <2> QED
    BY <1>3, <1>4, <1>6, <2>1, EditorParts, SoundNode
<1>9. /\ Keeps(Restructured(c), config') /\ Shaped(Restructured(c))
      /\ Restructured(c).tree = c.tree /\ Restructured(c).sessions = c.sessions
      /\ Restructured(c).structure = c.structure + 1
  BY <1>1, <1>7, ShapedRestructured, KeepsPaths
<1>10. /\ Shaped(config') /\ config'.tree = e.tree /\ config'.sessions = e.sessions
       /\ config'.structure = config.structure + 1
  BY <1>7, <1>9 DEF Keeps, SameContents
<1>11. /\ Groups(config') = Groups(config) /\ DeviceIds(config') = DeviceIds(config)
       /\ SessionIds(config') = SessionIds(config) /\ (Sound(config) => Sound(config'))
  <2>1. /\ Groups(config') = Groups(e) /\ DeviceIds(config') = DeviceIds(e)
        /\ SessionIds(config') = SessionIds(e) /\ (Sound(e) => Sound(config'))
    BY <1>10, SoundAsContents
  <2> QED
    BY <1>8, <2>1 DEF Alike
<1>12. /\ DOMAIN devices' = DOMAIN devices
       /\ \A a \in DOMAIN devices' : DOMAIN devices'[a] = {"copy", "member"}
       /\ devices'[d].copy = node
       /\ \A a \in DOMAIN devices' \ {d} : devices'[a].copy = devices[a].copy
  <2>1. c.tree[d] = node
    BY <1>3, <1>7 DEF SameContents
  <2>2. PICK running : running = Members(c, devices)
    OBVIOUS
  <2>3. /\ DOMAIN running = DOMAIN devices
        /\ \A a \in DOMAIN devices : /\ DOMAIN running[a] = {"copy", "member"}
                                     /\ running[a].copy = devices[a].copy
    BY <2>2 DEF Members, EditorIInv, EditorTyped, Plugged
  <2>4. devices' = [running EXCEPT ![d] = [running[d] EXCEPT !.copy = node]]
    BY <1>1, <2>1, <2>2
  <2> QED
    BY <2>3, <2>4
<1>13. \A a \in DOMAIN devices' : Plugged(devices'[a])
  BY <1>4, <1>12 DEF EditorIInv, EditorTyped, Plugged
<1>14. Mended => Mended'
  <2>1. SUFFICES ASSUME Mended
                 PROVE  Mended'
    OBVIOUS
  <2>2. \A a \in DOMAIN devices' : devices'[a].copy.parent \in Groups(config) \cup {Root}
    BY <1>3, <1>4, <1>12, <2>1 DEF Mended, Sound
  <2> QED
    BY <1>1, <1>11, <1>12, <2>1, <2>2 DEF Mended
<1>15. StackTyped' /\ Snapshots' = Snapshots
  BY <1>1, StackKept DEF EditorIInv, EditorTyped
<1>16. DOMAIN config'.tree \subseteq 1..created'[1]
  BY <1>7, <1>10, EditorParts DEF CreatedGrows
<1>17. EditorTyped' /\ ReferencesIInv'
  BY <1>1, <1>10, <1>13, <1>14, <1>15, <1>16, GrownStep DEF EditorIInv
<1>18. RunningIInv'
  <2>1. ASSUME NEW a \in (DOMAIN devices' \cap DOMAIN config'.tree) \ apart'
        PROVE  /\ devices'[a].copy.value = config'.tree[a].value
               /\ devices'[a].copy.ops = config'.tree[a].ops
               /\ config'.tree[a].kind = "device"
    <3>1. CASE a = d
      BY <1>3, <1>4, <1>7, <1>10, <1>12, <3>1
    <3>2. CASE a # d
      <4>1. a \in (DOMAIN devices \cap DOMAIN config.tree) \ apart
        BY <1>1, <1>7, <1>10, <1>12, <2>1, <3>2
      <4>2. config'.tree[a] = config.tree[a] /\ devices'[a].copy = devices[a].copy
        BY <1>7, <1>10, <1>12, <3>2, <4>1
      <4> QED
        BY <4>1, <4>2 DEF EditorIInv, RunningIInv
    <3> QED
      BY <3>1, <3>2
  <2> QED
    BY <2>1 DEF RunningIInv
<1> QED
  BY <1>17, <1>18 DEF EditorIInv

(* New operators on a device.                                                *)
LEMMA WithDeviceOperatorsShaped ==
  ASSUME NEW c, Shaped(c), NEW d \in DOMAIN c.tree, NEW ops
  PROVE  Shaped(WithDeviceOperators(c, d, ops))
<1>1. PICK node : node = [c.tree[d] EXCEPT !.ops = ops]
  OBVIOUS
<1>2. Noded(node)
  BY <1>1 DEF Shaped, Treed, Noded, NodeFields
<1>3. WithDeviceOperators(c, d, ops) = SetNode(c, d, node)
  BY <1>1 DEF WithDeviceOperators, SetNode, Shaped, ConfigFields
<1>4. Shaped(SetNode(c, d, node))
  BY <1>2, ShapedNode
<1> QED
  BY <1>3, <1>4

(* Operators of a device added, removed or moved.                            *)
LEMMA DeviceOperatorsStep ==
  ASSUME EditorIInv, AddDeviceOperator \/ RemoveDeviceOperator \/ ReorderDeviceOperators
  PROVE  EditorIInv'
<1>1. PICK d, ops, c :
        /\ d \in DeviceIds(config) \cap DOMAIN devices
        /\ \/ c = WithDeviceOperators(config, d, ops)
           \/ \E a : c = ErasePaths(WithDeviceOperators(config, d, ops), a)
        /\ UpdateOperators(d, c)
  BY DEF AddDeviceOperator, RemoveDeviceOperator, ReorderDeviceOperators
<1>2. Shaped(WithDeviceOperators(config, d, ops))
  BY <1>1, EditorParts, WithDeviceOperatorsShaped DEF DeviceIds
<1>3. Keeps(WithDeviceOperators(config, d, ops), c)
  BY <1>1, <1>2, KeepsPaths DEF Keeps, SameContents
<1>4. created' = created \/ created' = [created EXCEPT ![3] = created[3] + 1]
  BY DEF AddDeviceOperator, RemoveDeviceOperator, ReorderDeviceOperators
<1>5. CreatedGrows
  BY <1>4, EditorParts DEF CreatedGrows
<1> QED
  BY <1>1, <1>3, <1>5, UpdateOperatorsStep

-----------------------------------------------------------------------------
(* The edits that keep the structure.                                        *)
LEMMA BaseLevel ==
  ASSUME EditorIInv, NEW kind \in PreviewKinds, NEW id
  PROVE  /\ Numbered(BaseOf(kind, id)) /\ (~crossed => Level(BaseOf(kind, id), config))
         /\ BaseOf(kind, id) \in Snapshots \cup {config}
<1>1. BaseOf(kind, id) \in Snapshots \cup {config}
  BY DEF BaseOf, InGesture, Snapshots
<1>2. Numbered(config) /\ \A s \in Snapshots : Numbered(s)
  BY DEF EditorIInv, EditorTyped
<1>3. ~crossed => Level(config, config) /\ \A s \in Snapshots : Level(s, config)
  BY <1>2, LevelSelf DEF EditorIInv, ReferencesIInv, Mended, Numbered
<1> QED
  BY <1>1, <1>2, <1>3

(* What is like a snapshot, and as sound, is as level.                       *)
LEMMA LevelAlike ==
  ASSUME NEW s, NEW c, NEW f, Level(s, c), Alike(s, f), f.structure = s.structure,
         Sound(s) => Sound(f)
  PROVE  Level(f, c)
BY DEF Level, Alike

(* What a command leads to, from its base.                                   *)
LEMMA ForthNode ==
  ASSUME NEW base, Shaped(base), NEW c, Shaped(c), NEW n \in DOMAIN c.tree,
         NEW node, Noded(node), node.kind = c.tree[n].kind,
         node.kind = "group" => node.parent = c.tree[n].parent,
         NEW f, f.tree = [base.tree EXCEPT ![n] = node], f.sessions = base.sessions,
         f.structure = base.structure
  PROVE  Level(base, c) /\ node.parent \in Groups(c) \cup {Root} => Level(f, c)
<1> SUFFICES ASSUME Level(base, c), node.parent \in Groups(c) \cup {Root},
                    base.structure = c.structure
             PROVE  Alike(c, f) /\ Sound(f)
  BY DEF Level
<1>1. Alike(c, base) /\ Sound(base)
  BY DEF Level
<1>2. n \in DOMAIN base.tree /\ node.kind = base.tree[n].kind
  <2>1. base.tree[n].kind \in {"device", "group"} /\ c.tree[n].kind \in {"device", "group"}
        /\ n \in DOMAIN base.tree
    BY <1>1 DEF Alike, Shaped, Treed, Noded
  <2> QED
    BY <1>1, <2>1 DEF Alike, Groups, IsGroup
<1>3. node.kind = "group" => node.parent = base.tree[n].parent
  BY <1>1 DEF Alike, Groups, IsGroup
<1>4. node.parent \in Groups(base) \cup {Root}
  BY <1>1 DEF Alike
<1>5. PICK e : e = SetNode(base, n, node)
  OBVIOUS
<1>6. Alike(base, e) /\ Sound(e)
  BY <1>1, <1>2, <1>3, <1>4, <1>5, SoundNode
<1>7. e.tree = f.tree /\ e.sessions = f.sessions
  BY <1>5, ShapedNode
<1>8. Alike(e, f) /\ Sound(f)
  BY <1>6, <1>7, SoundAsContents
<1> QED
  BY <1>1, <1>6, <1>8 DEF Alike

WrittenAs(c, n, node, f) ==
  /\ Shaped(f) /\ f.tree = [c.tree EXCEPT ![n] = node] /\ f.sessions = c.sessions
  /\ f.structure = c.structure /\ DOMAIN f.tree = DOMAIN c.tree

(* A node written into a configuration.                                      *)
LEMMA WrittenShaped ==
  ASSUME NEW c, Shaped(c), NEW n, NEW node, Noded(node), NEW f, f = Written(c, n, node)
  PROVE  WrittenAs(c, n, node, f)
<1>1. /\ Keeps(SetNode(c, n, node), Written(c, n, node))
      /\ SetNode(c, n, node).tree = [c.tree EXCEPT ![n] = node]
      /\ SetNode(c, n, node).sessions = c.sessions
      /\ SetNode(c, n, node).structure = c.structure
  BY ShapedNode
<1> QED
  BY <1>1 DEF Keeps, SameContents, WrittenAs

AllWrittenAs(c, nodes, running, f) ==
  /\ Shaped(f) /\ f.sessions = c.sessions /\ f.structure = c.structure
  /\ DOMAIN f.tree = DOMAIN c.tree
  /\ \A n \in DOMAIN c.tree : f.tree[n] = IF n \in nodes THEN running[n].copy ELSE c.tree[n]

(* The copies of several plugins written into it.                            *)
LEMMA AllWrittenShaped ==
  ASSUME NEW c, Shaped(c), NEW nodes, NEW running, \A n \in nodes : Noded(running[n].copy),
         NEW f, f = AllWritten(c, nodes, running)
  PROVE  AllWrittenAs(c, nodes, running, f)
<1> DEFINE tree == [n \in DOMAIN c.tree |-> IF n \in nodes THEN running[n].copy ELSE c.tree[n]]
<1>1. Treed(tree)
  BY DEF Shaped, Treed
<1>2. PICK blurred : f = [c EXCEPT !.tree = tree, !.blurred = blurred]
  BY DEF AllWritten
<1>3. /\ Shaped(f) /\ f.sessions = c.sessions /\ f.structure = c.structure /\ f.tree = tree
  <2> HIDE DEF tree
  <2> QED
    BY <1>1, <1>2 DEF Shaped, ConfigFields
<1> QED
  BY <1>3 DEF AllWrittenAs

(* A step that writes values and operators into the tree.                    *)
SnapshotsLevel ==
  \A s \in Snapshots' \ Snapshots : Numbered(s) /\ (~crossed /\ Mended => Level(s, config))

(* Kinds and groups stay; a device is in a group that is there.              *)
LEMMA KeptTree ==
  ASSUME EditorIInv, Shaped(config'), config'.sessions = config.sessions,
         config'.structure = config.structure, DOMAIN config'.tree = DOMAIN config.tree,
         \A n \in DOMAIN config.tree :
           /\ config'.tree[n].kind = config.tree[n].kind
           /\ config.tree[n].kind = "group" => config'.tree[n].parent = config.tree[n].parent
           /\ ~crossed /\ Mended => config'.tree[n].parent \in Groups(config) \cup {Root},
         DOMAIN devices' = DOMAIN devices,
         \A d \in DOMAIN devices :
           /\ Plugged(devices'[d])
           /\ ~crossed /\ Mended => devices'[d].copy.parent \in Groups(config) \cup {Root},
         StackTyped', SnapshotsLevel, RunningIInv',
         UNCHANGED <<selected, created, crossed>>
  PROVE  EditorIInv'
<1>1. /\ Groups(config') = Groups(config) /\ SessionIds(config') = SessionIds(config)
      /\ DeviceIds(config') = DeviceIds(config)
  BY DEF Groups, IsGroup, SessionIds, DeviceIds
<1>2. Alike(config, config')
  BY <1>1 DEF Alike, Groups, IsGroup
<1>3. ~crossed /\ Mended => Sound(config')
  BY <1>1, <1>2, SoundAsAlike DEF Mended, DeviceIds, Sound
<1>4. ~crossed /\ Mended => Mended'
  BY <1>1, <1>3 DEF Mended
<1>5. EditorTyped' /\ ReferencesIInv'
  BY <1>2, <1>4, KeptStep DEF EditorIInv, SnapshotsLevel
<1> QED
  BY <1>5 DEF EditorIInv

(* A step that changes neither the tree nor the devices.                     *)
LEMMA KeptSessions ==
  ASSUME EditorIInv, Shaped(config'), config'.tree = config.tree,
         config'.structure = config.structure, SessionIds(config') = SessionIds(config),
         Sound(config) => Sound(config'), StackTyped', SnapshotsLevel,
         ~crossed /\ Mended => selected' \in SessionIds(config),
         UNCHANGED <<devices, created, crossed, apart>>
  PROVE  EditorIInv'
<1>1. Groups(config') = Groups(config) /\ DeviceIds(config') = DeviceIds(config)
  BY DEF Groups, IsGroup, DeviceIds
<1>2. Alike(config, config')
  BY <1>1 DEF Alike
<1>3. ~crossed /\ Mended => Mended'
  BY <1>1 DEF Mended
<1>4. \A d \in DOMAIN devices' : Plugged(devices'[d])
  BY DEF EditorIInv, EditorTyped
<1>5. EditorTyped' /\ ReferencesIInv'
  BY <1>2, <1>3, <1>4, KeptStep DEF EditorIInv, SnapshotsLevel
<1> QED
  BY <1>5 DEF EditorIInv, RunningIInv

(* Another session selected.                                                 *)
LEMMA SelectSessionStep ==
  ASSUME EditorIInv, SelectSession
  PROVE  EditorIInv'
<1>1. /\ selected' \in SessionIds(config) /\ config' = [config EXCEPT !.selected = selected']
      /\ UNCHANGED <<devices, stackVars, preview, created, crossed, apart>>
  BY DEF SelectSession, gapVars
<1>2. Keeps(config, config')
  BY <1>1, EditorParts, KeepsParts
<1>3. SessionIds(config') = SessionIds(config) /\ (Sound(config) => Sound(config'))
  BY <1>2, SoundAsContents DEF Keeps, SameContents
<1>4. StackTyped' /\ SnapshotsLevel
  BY <1>1, StackKept DEF EditorIInv, EditorTyped, SnapshotsLevel
<1> QED
  BY <1>1, <1>2, <1>3, <1>4, KeptSessions DEF Keeps, SameContents

(* A toggled node, or copy of one.                                           *)
LEMMA ToggledNode ==
  ASSUME NEW node, Noded(node)
  PROVE  /\ Noded(Toggled(node)) /\ Toggled(node).kind = node.kind
         /\ Toggled(node).parent = node.parent /\ Toggled(node).ops = node.ops
BY DEF Toggled, Noded, NodeFields

(* A plugin's copy changed and written back.                                 *)
LEMMA WriteBackStep ==
  ASSUME EditorIInv, NEW d \in DeviceIds(config) \cap DOMAIN devices, NEW copy,
         copy = Toggled(devices[d].copy), WriteBack(d, copy), StackTyped', SnapshotsLevel,
         UNCHANGED <<selected, created, gapVars>>
  PROVE  EditorIInv'
<1>1. /\ Noded(copy) /\ copy.kind = "device" /\ copy.parent = devices[d].copy.parent
  BY ToggledNode DEF EditorIInv, EditorTyped, Plugged
<1>2. devices' = [devices EXCEPT ![d].copy = copy] /\ config' = Written(config, d, copy)
  BY DEF WriteBack
<1>3. /\ Shaped(config') /\ config'.tree = [config.tree EXCEPT ![d] = copy]
      /\ config'.sessions = config.sessions /\ config'.structure = config.structure
      /\ DOMAIN config'.tree = DOMAIN config.tree
  <2>1. WrittenAs(config, d, copy, config')
    BY <1>1, <1>2, EditorParts, WrittenShaped
  <2> QED
    BY <2>1 DEF WrittenAs
<1>4. /\ DOMAIN devices' = DOMAIN devices /\ devices'[d].copy = copy
      /\ \A e \in DOMAIN devices : DOMAIN devices'[e] = {"copy", "member"}
      /\ \A e \in DOMAIN devices \ {d} : devices'[e] = devices[e]
  BY <1>2 DEF EditorIInv, EditorTyped, Plugged
<1>5. \A e \in DOMAIN devices : Plugged(devices'[e])
  BY <1>1, <1>4 DEF EditorIInv, EditorTyped, Plugged
<1>6. ~crossed /\ Mended =>
        \A e \in DOMAIN devices : devices'[e].copy.parent \in Groups(config) \cup {Root}
  BY <1>1, <1>4 DEF Mended
<1>7. config.tree[d].kind = "device"
  BY EditorParts DEF DeviceIds, Groups, IsGroup, Shaped, Treed, Noded
<1>8. ASSUME NEW n \in DOMAIN config.tree
      PROVE  /\ config'.tree[n].kind = config.tree[n].kind
             /\ config.tree[n].kind = "group" => config'.tree[n].parent = config.tree[n].parent
             /\ ~crossed /\ Mended => config'.tree[n].parent \in Groups(config) \cup {Root}
  <2>1. CASE n = d
    BY <1>1, <1>3, <1>6, <1>7, <2>1 DEF Mended
  <2>2. CASE n # d
    BY <1>3, <2>2 DEF Mended, Sound
  <2> QED
    BY <2>1, <2>2
<1>9. RunningIInv'
  <2>1. ASSUME NEW a \in (DOMAIN devices' \cap DOMAIN config'.tree) \ apart'
        PROVE  /\ devices'[a].copy.value = config'.tree[a].value
               /\ devices'[a].copy.ops = config'.tree[a].ops
               /\ config'.tree[a].kind = "device"
    <3>1. CASE a = d
      BY <1>1, <1>3, <1>4, <3>1
    <3>2. CASE a # d
      BY <1>3, <1>4, <2>1, <3>2 DEF EditorIInv, RunningIInv, gapVars
    <3> QED
      BY <3>1, <3>2
  <2> QED
    BY <2>1 DEF RunningIInv
<1> QED
  BY <1>3, <1>4, <1>5, <1>6, <1>8, <1>9, KeptTree DEF gapVars

(* A field of a device dragged.                                              *)
LEMMA PreviewDeviceStep ==
  ASSUME EditorIInv, PreviewDevice
  PROVE  EditorIInv'
<1>1. PICK d \in DeviceIds(config) \cap DOMAIN devices :
        Opened("device", d) /\ WriteBack(d, Toggled(devices[d].copy))
  BY DEF PreviewDevice
<1>2. UNCHANGED stackVars /\ UNCHANGED <<selected, created, gapVars>>
  BY DEF PreviewDevice
<1>3. StackTyped' /\ Snapshots' \subseteq Snapshots \cup {config}
  <2>1. "device" \in PreviewKinds
    BY DEF PreviewKinds
  <2> QED
    BY <1>1, <1>2, <2>1, StackOpened DEF EditorIInv, EditorTyped
<1>4. SnapshotsLevel
  BY <1>3, LevelSelf DEF SnapshotsLevel, EditorIInv, EditorTyped, Numbered, Mended
<1> QED
  BY <1>1, <1>2, <1>3, <1>4, WriteBackStep

(* A command on a node: its base, and the base with that node written.       *)
LEMMA PushedNode ==
  ASSUME EditorIInv, NEW base, Numbered(base), ~crossed => Level(base, config),
         NEW n \in DOMAIN config.tree, NEW node, Noded(node),
         node.kind = config.tree[n].kind,
         node.kind = "group" => node.parent = config.tree[n].parent,
         ~crossed /\ Mended => node.parent \in Groups(config) \cup {Root},
         NEW x, NEW y, Push(Command(base, Written(base, n, node), x, y)),
         preview' = preview \/ \E kind \in PreviewKinds : \E id : Closed(kind, id)
  PROVE  StackTyped' /\ SnapshotsLevel
<1>1. PICK f : f = Written(base, n, node)
  OBVIOUS
<1>2. /\ Shaped(f) /\ f.tree = [base.tree EXCEPT ![n] = node] /\ f.sessions = base.sessions
      /\ f.structure = base.structure /\ DOMAIN f.tree = DOMAIN base.tree
  <2>1. WrittenAs(base, n, node, f)
    BY <1>1, WrittenShaped DEF Numbered
  <2> QED
    BY <2>1 DEF WrittenAs
<1>3. Numbered(f)
  BY <1>2 DEF Numbered
<1>4. ~crossed /\ Mended => Level(f, config)
  <2>1. Shaped(base) /\ Shaped(config)
    BY EditorParts DEF Numbered
  <2>2. Level(base, config) /\ node.parent \in Groups(config) \cup {Root} => Level(f, config)
    BY <1>2, <2>1, ForthNode
  <2> QED
    BY <2>2
<1>5. StackTyped' /\ Snapshots' \subseteq Snapshots \cup {base, f}
  BY <1>1, StackPushed DEF EditorIInv, EditorTyped
<1> QED
  BY <1>3, <1>4, <1>5 DEF SnapshotsLevel

(* A field of a device edited, and the command pushed.                       *)
LEMMA EditDeviceStep ==
  ASSUME EditorIInv, EditDevice
  PROVE  EditorIInv'
<1>1. PICK d \in DeviceIds(config) \cap DOMAIN devices :
        LET after == Toggled(devices[d].copy)
            base == BaseOf("device", d)
        IN /\ WriteBack(d, after)
           /\ Closed("device", d)
           /\ Push(Command(base, Written(base, d, after), TRUE, FALSE))
  BY DEF EditDevice
<1>2. UNCHANGED <<selected, created, gapVars>>
  BY DEF EditDevice
<1>3. PICK after : after = Toggled(devices[d].copy)
  OBVIOUS
<1>4. PICK base : base = BaseOf("device", d)
  OBVIOUS
<1>5. "device" \in PreviewKinds
  BY DEF PreviewKinds
<1>6. Numbered(base) /\ (~crossed => Level(base, config))
  BY <1>4, <1>5, BaseLevel
<1>7. /\ Noded(after) /\ after.kind = "device" /\ after.parent = devices[d].copy.parent
  BY <1>3, ToggledNode DEF EditorIInv, EditorTyped, Plugged
<1>8. d \in DOMAIN config.tree /\ config.tree[d].kind = "device"
  BY EditorParts DEF DeviceIds, Groups, IsGroup, Shaped, Treed, Noded
<1>9. ~crossed /\ Mended => after.parent \in Groups(config) \cup {Root}
  BY <1>7 DEF Mended
<1>10. Push(Command(base, Written(base, d, after), TRUE, FALSE)) /\ Closed("device", d)
  BY <1>1, <1>3, <1>4
<1>11. StackTyped' /\ SnapshotsLevel
  BY <1>5, <1>6, <1>7, <1>8, <1>9, <1>10, PushedNode
<1>12. WriteBack(d, after)
  BY <1>1, <1>3
<1> QED
  BY <1>2, <1>3, <1>11, <1>12, WriteBackStep

(* Copies that were told are written back.                                   *)
LEMMA ToldStep ==
  ASSUME EditorIInv, NEW heard \in SUBSET (DeviceIds(config) \cap DOMAIN devices),
         NEW told, AllWrittenAs(config, heard, devices', told),
         Shaped(config'), config'.sessions = config.sessions,
         config'.structure = config.structure, DOMAIN config'.tree = DOMAIN config.tree,
         \A n \in DOMAIN config.tree :
           /\ config'.tree[n].kind = told.tree[n].kind
           /\ config'.tree[n].parent = told.tree[n].parent
           /\ told.tree[n].kind = "device" =>
                /\ config'.tree[n].value = told.tree[n].value
                /\ config'.tree[n].ops = told.tree[n].ops,
         DOMAIN devices' = DOMAIN devices,
         \A d \in DOMAIN devices :
           /\ Plugged(devices'[d]) /\ devices'[d].copy.parent = devices[d].copy.parent
           /\ d \notin heard \cup apart' => devices'[d] = devices[d],
         apart \subseteq apart', StackTyped', SnapshotsLevel,
         UNCHANGED <<selected, created, crossed>>
  PROVE  EditorIInv'
<1>1. \A d \in heard : Noded(devices'[d].copy) /\ devices'[d].copy.kind = "device"
  BY DEF Plugged
<1>2. \A n \in DOMAIN config.tree :
        told.tree[n] = IF n \in heard THEN devices'[n].copy ELSE config.tree[n]
  BY DEF AllWrittenAs
<1>3. \A d \in heard : d \in DOMAIN config.tree /\ config.tree[d].kind = "device"
  BY EditorParts DEF DeviceIds, Groups, IsGroup, Shaped, Treed, Noded
<1>4. ~crossed /\ Mended =>
        \A d \in DOMAIN devices : devices'[d].copy.parent \in Groups(config) \cup {Root}
  BY DEF Mended
<1>5. ASSUME NEW n \in DOMAIN config.tree
      PROVE  /\ config'.tree[n].kind = config.tree[n].kind
             /\ config.tree[n].kind = "group" => config'.tree[n].parent = config.tree[n].parent
             /\ ~crossed /\ Mended => config'.tree[n].parent \in Groups(config) \cup {Root}
  <2>1. CASE n \in heard
    BY <1>1, <1>2, <1>3, <1>4, <2>1
  <2>2. CASE n \notin heard
    BY <1>2, <2>2 DEF Mended, Sound
  <2> QED
    BY <2>1, <2>2
<1>6. RunningIInv'
  <2>1. ASSUME NEW a \in (DOMAIN devices' \cap DOMAIN config'.tree) \ apart'
        PROVE  /\ devices'[a].copy.value = config'.tree[a].value
               /\ devices'[a].copy.ops = config'.tree[a].ops
               /\ config'.tree[a].kind = "device"
    <3>1. CASE a \in heard
      BY <1>1, <1>2, <1>3, <3>1
    <3>2. CASE a \notin heard
      <4>1. devices'[a] = devices[a] /\ told.tree[a] = config.tree[a]
        BY <1>2, <2>1, <3>2
      <4>2. /\ devices[a].copy.value = config.tree[a].value
            /\ devices[a].copy.ops = config.tree[a].ops /\ config.tree[a].kind = "device"
        BY <2>1 DEF EditorIInv, RunningIInv
      <4> QED
        BY <2>1, <4>1, <4>2
    <3> QED
      BY <3>1, <3>2
  <2> QED
    BY <2>1 DEF RunningIInv
<1> QED
  BY <1>4, <1>5, <1>6, KeptTree

(* A field of a device set by a message.                                     *)
LEMMA FieldSetStep ==
  ASSUME EditorIInv, FieldSet
  PROVE  EditorIInv'
<1>1. PICK d \in DeviceIds(config) \cap DOMAIN devices :
        Heard({d}, [devices EXCEPT ![d].copy = Toggled(devices[d].copy)])
  BY DEF FieldSet
<1>2. UNCHANGED <<stackVars, preview, selected, created, crossed>>
  BY DEF FieldSet
<1> DEFINE heard == {e \in DOMAIN watched \cap DOMAIN devices' \cap DeviceIds(config) :
                       \E a \in {d} : watched[e] = Prefix(config, a)}
<1>3. /\ devices' = [devices EXCEPT ![d].copy = Toggled(devices[d].copy)]
      /\ config' = AllWritten(config, heard, devices') /\ apart' = apart \cup ({d} \ heard)
  BY <1>1 DEF Heard
<1>4. /\ Noded(Toggled(devices[d].copy)) /\ Toggled(devices[d].copy).kind = "device"
      /\ Toggled(devices[d].copy).parent = devices[d].copy.parent
  BY ToggledNode DEF EditorIInv, EditorTyped, Plugged
<1>5. /\ DOMAIN devices' = DOMAIN devices
      /\ devices'[d].copy = Toggled(devices[d].copy)
      /\ \A e \in DOMAIN devices : DOMAIN devices'[e] = {"copy", "member"}
      /\ \A e \in DOMAIN devices \ {d} : devices'[e] = devices[e]
  BY <1>3 DEF EditorIInv, EditorTyped, Plugged
<1>6. \A e \in DOMAIN devices :
        /\ Plugged(devices'[e]) /\ devices'[e].copy.parent = devices[e].copy.parent
  BY <1>4, <1>5 DEF EditorIInv, EditorTyped, Plugged
<1>7. heard \in SUBSET (DeviceIds(config) \cap DOMAIN devices)
  BY <1>5
<1> HIDE DEF heard
<1>8. AllWrittenAs(config, heard, devices', config')
  <2>1. \A n \in heard : Noded(devices'[n].copy)
    BY <1>6, <1>7 DEF Plugged
  <2> QED
    BY <1>3, <2>1, EditorParts, AllWrittenShaped
<1>11. /\ Shaped(config') /\ config'.sessions = config.sessions
       /\ config'.structure = config.structure /\ DOMAIN config'.tree = DOMAIN config.tree
  BY <1>8 DEF AllWrittenAs
<1>9. StackTyped' /\ SnapshotsLevel
  BY <1>2, StackKept DEF EditorIInv, EditorTyped, SnapshotsLevel
<1>10. \A e \in DOMAIN devices : e \notin heard \cup apart' => devices'[e] = devices[e]
  BY <1>3, <1>5
<1> QED
  BY <1>2, <1>3, <1>5, <1>6, <1>7, <1>8, <1>9, <1>10, <1>11, ToldStep

(* A field of a group dragged.                                               *)
LEMMA PreviewGroupStep ==
  ASSUME EditorIInv, PreviewGroup
  PROVE  EditorIInv'
<1>1. PICK g \in Groups(config) :
        Opened("group", g) /\ config' = SetNode(config, g, Toggled(config.tree[g]))
  BY DEF PreviewGroup
<1>2. UNCHANGED stackVars /\ UNCHANGED <<devices, selected, created, crossed, apart>>
  BY DEF PreviewGroup, gapVars
<1>3. StackTyped' /\ Snapshots' \subseteq Snapshots \cup {config}
  <2>1. "group" \in PreviewKinds
    BY DEF PreviewKinds
  <2> QED
    BY <1>1, <1>2, <2>1, StackOpened DEF EditorIInv, EditorTyped
<1>4. SnapshotsLevel
  BY <1>3, LevelSelf DEF SnapshotsLevel, EditorIInv, EditorTyped, Numbered, Mended
<1>5. g \in DOMAIN config.tree /\ Noded(config.tree[g]) /\ config.tree[g].kind = "group"
  BY EditorParts DEF Groups, IsGroup, Shaped, Treed
<1>6. PICK node : node = Toggled(config.tree[g])
  OBVIOUS
<1>7. Noded(node) /\ node.kind = "group" /\ node.parent = config.tree[g].parent
  BY <1>5, <1>6, ToggledNode
<1>8. /\ Shaped(config') /\ config'.tree = [config.tree EXCEPT ![g] = node]
      /\ config'.sessions = config.sessions /\ config'.structure = config.structure
  <2>1. PICK c : c = SetNode(config, g, node)
    OBVIOUS
  <2>2. /\ Shaped(c) /\ c.tree = [config.tree EXCEPT ![g] = node]
        /\ c.sessions = config.sessions /\ c.structure = config.structure
    <3>1. Shaped(config)
      BY EditorParts
    <3>2. /\ Shaped(SetNode(config, g, node))
          /\ SetNode(config, g, node).tree = [config.tree EXCEPT ![g] = node]
          /\ SetNode(config, g, node).sessions = config.sessions
          /\ SetNode(config, g, node).structure = config.structure
      BY <1>7, <3>1, ShapedNode
    <3> QED
      BY <2>1, <3>2
  <2>3. config' = c
    BY <1>1, <1>6, <2>1
  <2> QED
    BY <2>2, <2>3
<1>9. \A n \in DOMAIN config.tree :
           /\ config'.tree[n].kind = config.tree[n].kind
           /\ config'.tree[n].parent = config.tree[n].parent
  BY <1>5, <1>7, <1>8
<1>10. \A d \in DOMAIN devices :
         /\ Plugged(devices'[d])
         /\ ~crossed /\ Mended => devices'[d].copy.parent \in Groups(config) \cup {Root}
  BY <1>2 DEF EditorIInv, EditorTyped, Mended
<1>11. RunningIInv'
  BY <1>2, <1>5, <1>8 DEF EditorIInv, RunningIInv
<1>12. ~crossed /\ Mended =>
         \A n \in DOMAIN config.tree : config'.tree[n].parent \in Groups(config) \cup {Root}
  BY <1>9 DEF Mended, Sound
<1> QED
  BY <1>2, <1>3, <1>4, <1>8, <1>9, <1>10, <1>11, <1>12, KeptTree

(* Telling the devices below a group changes their value alone.              *)
LEMMA GroupToldPlugged ==
  ASSUME EditorIInv, NEW g, NEW value, NEW running, running = GroupTold(g, value)
  PROVE  /\ DOMAIN running = DOMAIN devices
         /\ \A d \in DOMAIN devices :
              /\ Plugged(running[d]) /\ running[d].copy.parent = devices[d].copy.parent
              /\ d \notin Below(g) => running[d] = devices[d]
<1>1. ASSUME NEW d \in DOMAIN devices, NEW r, r = [devices[d] EXCEPT !.copy.value = value]
      PROVE  Plugged(r) /\ r.copy.parent = devices[d].copy.parent
  BY <1>1 DEF EditorIInv, EditorTyped, Plugged, Noded, NodeFields
<1>2. \A d \in DOMAIN devices : Plugged(devices[d])
  BY DEF EditorIInv, EditorTyped
<1>3. /\ DOMAIN running = DOMAIN devices
      /\ \A d \in DOMAIN devices : d \notin Below(g) => running[d] = devices[d]
      /\ \A d \in DOMAIN devices : d \in Below(g) =>
           running[d] = [devices[d] EXCEPT !.copy.value = value]
  BY DEF GroupTold
<1> QED
  BY <1>1, <1>2, <1>3

(* The configuration with copies written into it is level with itself.       *)
LEMMA AllWrittenLevel ==
  ASSUME EditorIInv, NEW heard \in SUBSET DeviceIds(config), NEW running,
         \A d \in heard : /\ running[d].copy.kind = "device"
                          /\ Mended => running[d].copy.parent \in Groups(config) \cup {Root},
         NEW told, AllWrittenAs(config, heard, running, told)
  PROVE  Numbered(told) /\ (~crossed /\ Mended => Level(told, config))
<1>1. /\ Shaped(told) /\ told.sessions = config.sessions /\ told.structure = config.structure
      /\ DOMAIN told.tree = DOMAIN config.tree
      /\ \A n \in DOMAIN config.tree :
           told.tree[n] = IF n \in heard THEN running[n].copy ELSE config.tree[n]
  BY DEF AllWrittenAs
<1>2. \A d \in heard : d \in DOMAIN config.tree /\ config.tree[d].kind = "device"
  BY EditorParts DEF DeviceIds, Groups, IsGroup, Shaped, Treed, Noded
<1>3. Groups(told) = Groups(config) /\ SessionIds(told) = SessionIds(config)
  BY <1>1, <1>2 DEF Groups, IsGroup, SessionIds
<1>4. Alike(config, told)
  BY <1>1, <1>2, <1>3 DEF Alike, Groups, IsGroup
<1>5. ASSUME ~crossed, Mended
      PROVE  Sound(told)
  <2>1. \A n \in DeviceIds(config) : told.tree[n].parent \in Groups(config) \cup {Root}
    BY <1>1, <1>5 DEF Mended, Sound, DeviceIds
  <2> QED
    BY <1>1, <1>4, <1>5, <2>1, SoundAsAlike DEF Mended, Sound
<1>6. Numbered(told)
  BY <1>1, EditorParts DEF Numbered
<1> QED
  BY <1>1, <1>4, <1>5, <1>6, EditorParts DEF Level

(* They are devices of the tree that run.                                    *)
LEMMA BelowDevices ==
  ASSUME NEW g
  PROVE  Below(g) \in SUBSET (DeviceIds(config) \cap DOMAIN devices)
BY DEF Below

(* A field of a group edited, or its devices' transport.                     *)
LEMMA EditGroupStep ==
  ASSUME EditorIInv, EditGroup
  PROVE  EditorIInv'
<1>1. PICK g \in Groups(config), transport \in BOOLEAN :
       LET after == Toggled(config.tree[g])
           running == IF transport THEN GroupTold(g, after.value) ELSE devices
           told == IF transport THEN AllWritten(config, Below(g), running) ELSE config
           base == IF InGesture("group", g) THEN BaseOf("group", g) ELSE told
       IN /\ devices' = running
          /\ config' = SetNode(told, g, after)
          /\ Closed("group", g)
          /\ Push(Command(base, Written(base, g, after), TRUE, FALSE))
  BY DEF EditGroup
<1>2. UNCHANGED <<selected, created, crossed, apart>>
  BY DEF EditGroup, gapVars
<1>3. PICK after : after = Toggled(config.tree[g])
  OBVIOUS
<1>4. PICK told : told = IF transport THEN AllWritten(config, Below(g), devices') ELSE config
  OBVIOUS
<1>5. PICK base : base = IF InGesture("group", g) THEN BaseOf("group", g) ELSE told
  OBVIOUS
<1>6. PICK heard : heard = IF transport THEN Below(g) ELSE {}
  OBVIOUS
<1>7. /\ devices' = IF transport THEN GroupTold(g, after.value) ELSE devices
      /\ config' = SetNode(told, g, after) /\ Closed("group", g)
      /\ Push(Command(base, Written(base, g, after), TRUE, FALSE))
  BY <1>1, <1>3, <1>4, <1>5
<1>8. /\ DOMAIN devices' = DOMAIN devices
      /\ \A d \in DOMAIN devices :
              /\ Plugged(devices'[d]) /\ devices'[d].copy.parent = devices[d].copy.parent
              /\ d \notin heard => devices'[d] = devices[d]
  <2>1. CASE transport
    BY <1>6, <1>7, <2>1, GroupToldPlugged
  <2>2. CASE ~transport
    BY <1>6, <1>7, <2>2 DEF EditorIInv, EditorTyped
  <2> QED
    BY <2>1, <2>2
<1>9. heard \in SUBSET (DeviceIds(config) \cap DOMAIN devices)
  BY <1>6, BelowDevices
<1>10. AllWrittenAs(config, heard, devices', told)
  <2>1. CASE transport
    <3>1. \A d \in heard : Noded(devices'[d].copy)
      BY <1>8, <1>9 DEF Plugged
    <3>2. told = AllWritten(config, heard, devices')
      BY <1>4, <1>6, <2>1
    <3> QED
      BY <3>1, <3>2, EditorParts, AllWrittenShaped
  <2>2. CASE ~transport
    BY <1>4, <1>6, <2>2, EditorParts DEF AllWrittenAs
  <2> QED
    BY <2>1, <2>2
<1>11. Numbered(told) /\ (~crossed /\ Mended => Level(told, config))
  <2>1. \A d \in heard : /\ devices'[d].copy.kind = "device"
                         /\ Mended => devices'[d].copy.parent \in Groups(config) \cup {Root}
    BY <1>8, <1>9 DEF Plugged, Mended
  <2> QED
    BY <1>9, <1>10, <2>1, AllWrittenLevel
<1>12. g \in DOMAIN config.tree /\ Noded(config.tree[g]) /\ config.tree[g].kind = "group"
       /\ g \notin heard
  BY <1>9, EditorParts DEF Groups, IsGroup, Shaped, Treed, DeviceIds
<1>13. Noded(after) /\ after.kind = "group" /\ after.parent = config.tree[g].parent
  BY <1>3, <1>12, ToggledNode
<1>14. Numbered(base) /\ (~crossed => Level(base, config))
  <2>1. "group" \in PreviewKinds
    BY DEF PreviewKinds
  <2>2. ~crossed => Mended
    BY DEF EditorIInv, ReferencesIInv
  <2> QED
    BY <1>5, <1>11, <2>1, <2>2, BaseLevel
<1>15. StackTyped' /\ SnapshotsLevel
  <2>1. ~crossed /\ Mended => after.parent \in Groups(config) \cup {Root}
    BY <1>12, <1>13 DEF Mended, Sound
  <2>2. "group" \in PreviewKinds
    BY DEF PreviewKinds
  <2> QED
    BY <1>7, <1>12, <1>13, <1>14, <2>1, <2>2, PushedNode
<1>16. /\ Shaped(told) /\ told.sessions = config.sessions /\ told.structure = config.structure
       /\ DOMAIN told.tree = DOMAIN config.tree /\ told.tree[g] = config.tree[g]
  BY <1>10, <1>12 DEF AllWrittenAs
<1>17. /\ Shaped(config') /\ config'.tree = [told.tree EXCEPT ![g] = after]
       /\ config'.sessions = config.sessions /\ config'.structure = config.structure
  BY <1>7, <1>13, <1>16, ShapedNode
<1>18. \A n \in DOMAIN config.tree :
         /\ config'.tree[n].kind = told.tree[n].kind
         /\ config'.tree[n].parent = told.tree[n].parent
         /\ told.tree[n].kind = "device" =>
              /\ config'.tree[n].value = told.tree[n].value
              /\ config'.tree[n].ops = told.tree[n].ops
  BY <1>12, <1>13, <1>16, <1>17
<1>19. \A d \in DOMAIN devices :
         /\ Plugged(devices'[d]) /\ devices'[d].copy.parent = devices[d].copy.parent
         /\ d \notin heard \cup apart' => devices'[d] = devices[d]
  BY <1>8
<1>20. DOMAIN config'.tree = DOMAIN config.tree
  BY <1>16, <1>17
<1> QED
  BY <1>2, <1>8, <1>9, <1>10, <1>15, <1>17, <1>18, <1>19, <1>20, ToldStep

(* A field of a group set by a message.                                      *)
LEMMA GroupFieldSetStep ==
  ASSUME EditorIInv, GroupFieldSet
  PROVE  EditorIInv'
<1>1. PICK g \in Groups(config) :
       LET value == 1 - config.tree[g].value
           running == GroupTold(g, value)
           heard == {d \in Below(g) : d \in DOMAIN watched /\ watched[d] = Prefix(config, d)}
           told == AllWritten(config, heard, running)
       IN /\ devices' = running
          /\ config' = [told EXCEPT !.tree = [n \in DOMAIN told.tree |->
               IF n \in Subtree(config, g) \cap Groups(config)
               THEN [told.tree[n] EXCEPT !.value = value] ELSE told.tree[n]]]
          /\ apart' = apart \cup (Below(g) \ heard)
  BY DEF GroupFieldSet
<1>2. UNCHANGED <<stackVars, preview>> /\ UNCHANGED <<selected, created, crossed>>
  BY DEF GroupFieldSet
<1>3. PICK value : value = 1 - config.tree[g].value
  OBVIOUS
<1>4. PICK heard : heard = {d \in Below(g) : d \in DOMAIN watched /\ watched[d] = Prefix(config, d)}
  OBVIOUS
<1>5. PICK told : told = AllWritten(config, heard, devices')
  OBVIOUS
<1>6. PICK tree : tree = [n \in DOMAIN told.tree |->
               IF n \in Subtree(config, g) \cap Groups(config)
               THEN [told.tree[n] EXCEPT !.value = value] ELSE told.tree[n]]
  OBVIOUS
<1>7. /\ devices' = GroupTold(g, value) /\ config' = [told EXCEPT !.tree = tree]
      /\ apart' = apart \cup (Below(g) \ heard)
  BY <1>1, <1>3, <1>4, <1>5, <1>6
<1>8. /\ DOMAIN devices' = DOMAIN devices
      /\ \A d \in DOMAIN devices :
              /\ Plugged(devices'[d]) /\ devices'[d].copy.parent = devices[d].copy.parent
              /\ d \notin Below(g) => devices'[d] = devices[d]
  BY <1>7, GroupToldPlugged
<1>9. heard \in SUBSET (DeviceIds(config) \cap DOMAIN devices)
  BY <1>4, BelowDevices
<1>10. AllWrittenAs(config, heard, devices', told)
  <2>1. \A d \in heard : Noded(devices'[d].copy)
    BY <1>8, <1>9 DEF Plugged
  <2> QED
    BY <1>5, <2>1, EditorParts, AllWrittenShaped
<1>11. /\ Shaped(told) /\ told.sessions = config.sessions /\ told.structure = config.structure
       /\ DOMAIN told.tree = DOMAIN config.tree
       /\ \A n \in DOMAIN config.tree :
            told.tree[n] = IF n \in heard THEN devices'[n].copy ELSE config.tree[n]
  BY <1>10 DEF AllWrittenAs
<1>12. \A n \in Subtree(config, g) \cap Groups(config) :
         n \notin heard /\ n \in DOMAIN config.tree /\ told.tree[n].kind = "group"
  <2>1. \A n \in Groups(config) : n \notin heard /\ n \in DOMAIN config.tree
                                  /\ config.tree[n].kind = "group"
    BY <1>9 DEF Groups, IsGroup, DeviceIds
  <2> QED
    BY <1>11, <2>1
<1>13. ASSUME NEW n \in DOMAIN config.tree
       PROVE  /\ Noded(tree[n]) /\ tree[n].kind = told.tree[n].kind
              /\ tree[n].parent = told.tree[n].parent
              /\ told.tree[n].kind = "device" =>
                   tree[n].value = told.tree[n].value /\ tree[n].ops = told.tree[n].ops
  <2>1. Noded(told.tree[n])
    BY <1>11 DEF Shaped, Treed
  <2>2. CASE n \in Subtree(config, g) \cap Groups(config)
    <3>1. tree[n] = [told.tree[n] EXCEPT !.value = value] /\ told.tree[n].kind = "group"
      BY <1>6, <1>11, <1>12, <2>2
    <3> QED
      BY <2>1, <3>1 DEF Noded, NodeFields
  <2>3. CASE n \notin Subtree(config, g) \cap Groups(config)
    BY <1>6, <1>11, <2>1, <2>3
  <2> QED
    BY <2>2, <2>3
<1>14. DOMAIN tree = DOMAIN config.tree /\ Treed(tree)
  <2>1. DOMAIN tree = DOMAIN config.tree
    BY <1>6, <1>11
  <2> QED
    BY <1>13, <2>1, EditorParts DEF Treed, Shaped
<1>15. /\ Shaped(config') /\ config'.sessions = config.sessions
       /\ config'.structure = config.structure /\ config'.tree = tree
  BY <1>7, <1>11, <1>14, ShapedTree
<1>16. \A d \in DOMAIN devices :
         /\ Plugged(devices'[d]) /\ devices'[d].copy.parent = devices[d].copy.parent
         /\ d \notin heard \cup apart' => devices'[d] = devices[d]
  BY <1>7, <1>8
<1>17. StackTyped' /\ SnapshotsLevel
  BY <1>2, StackKept DEF EditorIInv, EditorTyped, SnapshotsLevel
<1>18. apart \subseteq apart'
  BY <1>7
<1> QED
  BY <1>2, <1>8, <1>9, <1>10, <1>13, <1>14, <1>15, <1>16, <1>17, <1>18, ToldStep

(* A command whose two sides are level with the configuration.               *)
LEMMA PushedPair ==
  ASSUME EditorIInv, NEW base, Numbered(base), ~crossed => Level(base, config),
         NEW f, Shaped(f), DOMAIN f.tree = DOMAIN base.tree,
         ~crossed /\ Mended => Level(f, config),
         NEW x, NEW y, Push(Command(base, f, x, y)),
         preview' = preview \/ \E kind \in PreviewKinds : \E id : Closed(kind, id)
  PROVE  StackTyped' /\ SnapshotsLevel
<1>1. Numbered(f)
  BY DEF Numbered
<1>2. StackTyped' /\ Snapshots' \subseteq Snapshots \cup {base, f}
  BY StackPushed DEF EditorIInv, EditorTyped
<1> QED
  BY <1>1, <1>2 DEF SnapshotsLevel

(* The configuration itself may be a base.                                   *)
LEMMA ConfigLevel ==
  ASSUME EditorIInv
  PROVE  Numbered(config) /\ (~crossed => Level(config, config))
BY LevelSelf DEF EditorIInv, EditorTyped, Numbered, ReferencesIInv, Mended

(* Only the stack changes.                                                   *)
LEMMA StackStep ==
  ASSUME EditorIInv, StackTyped', SnapshotsLevel,
         UNCHANGED <<config, devices, selected, created, crossed, apart>>
  PROVE  EditorIInv'
<1>1. SessionIds(config') = SessionIds(config) /\ (Sound(config) => Sound(config'))
  OBVIOUS
<1>2. ~crossed /\ Mended => selected' \in SessionIds(config)
  BY DEF Mended
<1>3. Shaped(config') /\ config'.tree = config.tree /\ config'.structure = config.structure
  BY EditorParts
<1> QED
  BY <1>1, <1>2, <1>3, KeptSessions

(* Renaming a device keeps references sound.                                 *)
LEMMA RelabelledShaped ==
  ASSUME NEW c, Shaped(c), NEW d \in DeviceIds(c), NEW l
  PROVE  LET f == Relabelled(c, d, l)
         IN /\ Shaped(f) /\ f.structure = c.structure /\ DOMAIN f.tree = DOMAIN c.tree
            /\ Alike(c, f) /\ (Sound(c) => Sound(f))
<1>1. d \in DOMAIN c.tree /\ Noded(c.tree[d]) /\ c.tree[d].kind = "device"
  BY DEF DeviceIds, Groups, IsGroup, Shaped, Treed, Noded
<1>2. PICK node : node = [c.tree[d] EXCEPT !.label = l]
  OBVIOUS
<1>3. Noded(node) /\ node.kind = "device" /\ node.parent = c.tree[d].parent
  BY <1>1, <1>2 DEF Noded, NodeFields
<1>4. PICK e : e = SetNode(c, d, node)
  OBVIOUS
<1>5. PICK renamed : renamed = WithNode(c, d, node)
  OBVIOUS
<1>6. Keeps(e, renamed)
  BY <1>3, <1>4, <1>5, WithNodeKeeps
<1>7. PICK f : f = [renamed EXCEPT !.render = c.render]
  OBVIOUS
<1>8. Keeps(renamed, f)
  BY <1>6, <1>7, KeepsParts DEF Keeps
<1>9. f = Relabelled(c, d, l)
  BY <1>2, <1>5, <1>7 DEF Relabelled
<1>10. e.structure = c.structure /\ e.tree = [c.tree EXCEPT ![d] = node]
  BY <1>3, <1>4, ShapedNode
<1>11. Alike(c, e) /\ (Sound(c) => Sound(e))
  <2>1. Sound(c) => node.parent \in Groups(c) \cup {Root}
    BY <1>1, <1>3 DEF Sound
  <2> QED
    BY <1>1, <1>3, <1>4, <2>1, SoundNode
<1>12. f.tree = e.tree /\ f.sessions = e.sessions /\ f.structure = e.structure /\ Shaped(f)
  BY <1>6, <1>8 DEF Keeps, SameContents
<1>13. Alike(e, f) /\ (Sound(e) => Sound(f))
  BY <1>12, SoundAsContents
<1>14. Alike(c, f)
  BY <1>11, <1>13 DEF Alike
<1>15. DOMAIN f.tree = DOMAIN c.tree
  BY <1>14 DEF Alike
<1> QED
  BY <1>9, <1>10, <1>11, <1>12, <1>13, <1>14, <1>15

(* A device renamed: only the command knows yet.                             *)
LEMMA LabelDeviceStep ==
  ASSUME EditorIInv, LabelDevice
  PROVE  EditorIInv'
<1>1. PICK d \in DeviceIds(config), l \in Labels :
        Push(Command(config, Relabelled(config, d, l), TRUE, FALSE))
  BY DEF LabelDevice
<1>2. UNCHANGED <<config, devices, preview, selected, created, crossed, apart>>
  BY DEF LabelDevice, gapVars
<1>3. PICK f : f = Relabelled(config, d, l)
  OBVIOUS
<1>4. /\ Shaped(f) /\ f.structure = config.structure /\ DOMAIN f.tree = DOMAIN config.tree
      /\ Alike(config, f) /\ (Sound(config) => Sound(f))
  BY <1>3, EditorParts, RelabelledShaped
<1>5. ~crossed /\ Mended => Level(f, config)
  BY <1>4, EditorParts DEF Level, Mended
<1>6. Push(Command(config, f, TRUE, FALSE))
  BY <1>1, <1>3
<1>7. StackTyped' /\ SnapshotsLevel
  BY <1>2, <1>4, <1>5, <1>6, ConfigLevel, PushedPair
<1> QED
  BY <1>2, <1>7, StackStep

(* The settings of the streamer or of a publisher.                           *)
LEMMA EditSettingsStep ==
  ASSUME EditorIInv, EditSettings
  PROVE  EditorIInv'
<1>1. /\ config' = [config EXCEPT !.settings = 1 - config.settings]
      /\ Push(Command(config, config', FALSE, FALSE))
      /\ UNCHANGED <<devices, preview, selected, created, crossed, apart>>
  BY DEF EditSettings, gapVars
<1>2. Keeps(config, config')
  BY <1>1, EditorParts, KeepsParts
<1>3. /\ Shaped(config') /\ config'.tree = config.tree /\ config'.sessions = config.sessions
      /\ config'.structure = config.structure
  BY <1>2 DEF Keeps, SameContents
<1>4. /\ SessionIds(config') = SessionIds(config) /\ Alike(config, config')
      /\ (Sound(config) => Sound(config'))
  BY <1>3, SoundAsContents
<1>5. ~crossed /\ Mended => Level(config', config)
  BY <1>3, <1>4, EditorParts DEF Level, Mended
<1>6. StackTyped' /\ SnapshotsLevel
  BY <1>1, <1>3, <1>5, ConfigLevel, PushedPair
<1> QED
  BY <1>1, <1>3, <1>4, <1>6, KeptSessions DEF Mended

(* Undo and redo.                                                            *)
LEMMA UndoStep ==
  ASSUME EditorIInv, Undo \/ Redo
  PROVE  EditorIInv'
<1>1. UNCHANGED <<config, devices, undoStack, preview, selected, created, crossed, apart>>
  BY DEF Undo, Redo, gapVars
<1>2. PICK n : n = Len(undoStack)
  OBVIOUS
<1>3. n \in Nat /\ undone \in 0..n /\ StackTyped
  BY <1>2 DEF EditorIInv, EditorTyped, StackTyped, Listed
<1>4. \E c \in Snapshots : \E command : posted' = Post(c, command) /\ undone' \in 0..n
  <2>1. CASE Undo
    <3>1. undone < n /\ undone' = undone + 1
      BY <1>2, <2>1 DEF Undo
    <3>2. n - undone \in 1..n
      BY <1>3, <3>1
    <3>3. undoStack[n - undone].back \in Snapshots
      BY <1>2, <3>2 DEF Snapshots
    <3>4. posted' = Post(undoStack[n - undone].back, undoStack[n - undone])
      BY <1>2, <2>1 DEF Undo
    <3> QED
      BY <1>3, <3>1, <3>3, <3>4
  <2>2. CASE Redo
    <3>1. undone > 0 /\ undone' = undone - 1
      BY <2>2 DEF Redo
    <3>2. n - undone + 1 \in 1..n
      BY <1>3, <3>1
    <3>3. undoStack[n - undone + 1].forth \in Snapshots
      BY <1>2, <3>2 DEF Snapshots
    <3>4. posted' = Post(undoStack[n - undone + 1].forth, undoStack[n - undone + 1])
      BY <1>2, <2>2 DEF Redo
    <3> QED
      BY <1>3, <3>1, <3>3, <3>4
  <2> QED
    BY <2>1, <2>2
<1>5. StackTyped' /\ Snapshots' \subseteq Snapshots
  BY <1>1, <1>2, <1>3, <1>4, StackPosted
<1>6. SnapshotsLevel
  BY <1>5 DEF SnapshotsLevel
<1> QED
  BY <1>1, <1>5, <1>6, StackStep

(* The event loop applies what was posted. An older structure is noted.      *)
LEMMA RunPostedStep ==
  ASSUME EditorIInv, RunPosted
  PROVE  EditorIInv'
<1>1. PICK c : c = Head(posted).config
  OBVIOUS
<1>2. PICK sync : sync = Head(posted).devices
  OBVIOUS
<1>3. /\ posted # <<>> /\ posted' = Tail(posted) /\ Apply(c, sync)
      /\ selected' = IF Head(posted).sessions THEN Selection(config', selected) ELSE selected
      /\ crossed' = (crossed \/ c.structure # config.structure)
      /\ UNCHANGED <<undoStack, undone, preview, created>>
  BY <1>1, <1>2 DEF RunPosted
<1>4. StackTyped' /\ Snapshots' \subseteq Snapshots /\ c \in Snapshots
  BY <1>1, <1>3, StackRun DEF EditorIInv, EditorTyped
<1>5. Numbered(c) /\ Shaped(c)
  BY <1>4 DEF EditorIInv, EditorTyped, Numbered
<1>6. /\ Keeps(c, config') /\ \A d \in DOMAIN devices' : Plugged(devices'[d])
      /\ RunningIInv'
  BY <1>3, <1>5, ApplyStep DEF EditorIInv
<1>7. /\ sync => /\ DOMAIN devices' = DeviceIds(c)
                 /\ \A d \in DOMAIN devices' : devices'[d].copy = c.tree[d]
      /\ ~sync => /\ DOMAIN devices' = DOMAIN devices
                  /\ \A d \in DOMAIN devices' : devices'[d].copy = devices[d].copy
  BY <1>3, <1>5, ApplyStep DEF EditorIInv
<1>8. Shaped(config') /\ config'.tree = c.tree /\ config'.structure = c.structure
  BY <1>6 DEF Keeps, SameContents
<1>9. EditorTyped'
  BY <1>3, <1>4, <1>5, <1>6, <1>8 DEF EditorIInv, EditorTyped, Numbered
<1>10. ASSUME ~crossed'
       PROVE  Mended' /\ \A s \in Snapshots' : Level(s, config')
  <2>1. ~crossed /\ c.structure = config.structure
    BY <1>3, <1>10
  <2>2. Mended /\ Level(c, config) /\ \A s \in Snapshots : Level(s, config)
    BY <1>4, <2>1 DEF EditorIInv, ReferencesIInv
  <2>3. Alike(config, c) /\ Sound(c)
    BY <2>1, <2>2 DEF Level
  <2>4. /\ Groups(config') = Groups(c) /\ DeviceIds(config') = DeviceIds(c)
        /\ SessionIds(config') = SessionIds(c) /\ Alike(c, config') /\ Sound(config')
    BY <1>6, <2>3, SoundAsContents DEF Keeps, SameContents
  <2>5. /\ Groups(config') = Groups(config) /\ DeviceIds(config') = DeviceIds(config)
        /\ SessionIds(config') = SessionIds(config) /\ Alike(config, config')
    BY <2>3, <2>4 DEF Alike, DeviceIds
  <2>6. selected' \in SessionIds(config')
    <3>1. Selection(config', selected) \in SessionIds(config')
      BY <1>8, SelectionExists
    <3>2. selected \in SessionIds(config')
      BY <2>2, <2>5 DEF Mended
    <3> QED
      BY <1>3, <3>1, <3>2
  <2>7. DOMAIN devices' = DeviceIds(config')
    BY <1>7, <2>2, <2>4, <2>5 DEF Mended
  <2>8. \A d \in DOMAIN devices' : devices'[d].copy.parent \in Groups(config') \cup {Root}
    <3>1. CASE sync
      BY <1>7, <2>3, <2>4, <3>1 DEF Sound, DeviceIds
    <3>2. CASE ~sync
      BY <1>7, <2>2, <2>5, <3>2 DEF Mended
    <3> QED
      BY <3>1, <3>2
  <2>9. ASSUME NEW s \in Snapshots'
        PROVE  Level(s, config')
    <3>1. Level(s, config)
      BY <1>4, <2>2
    <3> QED
      BY <1>8, <2>1, <2>5, <3>1, AlikeTransitive DEF Level
  <2> QED
    BY <2>4, <2>6, <2>7, <2>8, <2>9 DEF Mended
<1>11. ReferencesIInv'
  BY <1>10 DEF ReferencesIInv
<1> QED
  BY <1>6, <1>9, <1>11 DEF EditorIInv

(* An operator of a device: what is written has the kind and the place of    *)
(* the node, and the plugin's operators with it.                             *)
LEMMA PutOperatorStep ==
  ASSUME EditorIInv, NEW d \in DeviceIds(config) \cap DOMAIN devices, NEW op,
         PutOperator(d, op), StackTyped', SnapshotsLevel,
         UNCHANGED <<selected, created, crossed, apart>>
  PROVE  EditorIInv'
<1>1. PICK node : node = [config.tree[d] EXCEPT !.ops = Replaced(config.tree[d].ops, op)]
  OBVIOUS
<1>2. d \in DOMAIN config.tree /\ Noded(config.tree[d]) /\ config.tree[d].kind = "device"
  BY EditorParts DEF DeviceIds, Groups, IsGroup, Shaped, Treed, Noded
<1>3. /\ Noded(node) /\ node.kind = "device" /\ node.parent = config.tree[d].parent
      /\ node.value = config.tree[d].value /\ node.ops = Replaced(config.tree[d].ops, op)
  BY <1>1, <1>2 DEF Noded, NodeFields
<1>4. config' = Written(config, d, node)
  BY <1>1 DEF PutOperator
<1>5. /\ Shaped(config') /\ config'.tree = [config.tree EXCEPT ![d] = node]
      /\ config'.sessions = config.sessions /\ config'.structure = config.structure
      /\ DOMAIN config'.tree = DOMAIN config.tree
  <2>1. WrittenAs(config, d, node, config')
    BY <1>3, <1>4, EditorParts, WrittenShaped
  <2> QED
    BY <2>1 DEF WrittenAs
<1>6. PICK r : r = [devices[d] EXCEPT !.copy.ops = Replaced(devices[d].copy.ops, op)]
  OBVIOUS
<1>7. /\ Plugged(r) /\ r.copy.parent = devices[d].copy.parent
      /\ r.copy.value = devices[d].copy.value
      /\ r.copy.ops = Replaced(devices[d].copy.ops, op)
  BY <1>6 DEF EditorIInv, EditorTyped, Plugged, Noded, NodeFields
<1>8. DOMAIN devices' = DOMAIN devices /\ devices'[d] = r
      /\ \A e \in DOMAIN devices \ {d} : devices'[e] = devices[e]
  BY <1>6 DEF PutOperator
<1>9. ASSUME NEW n \in DOMAIN config.tree
      PROVE  /\ config'.tree[n].kind = config.tree[n].kind
             /\ config'.tree[n].parent = config.tree[n].parent
  BY <1>2, <1>3, <1>5
<1>10. ~crossed /\ Mended =>
         \A n \in DOMAIN config.tree : config'.tree[n].parent \in Groups(config) \cup {Root}
  BY <1>9 DEF Mended, Sound
<1>11. ASSUME NEW e \in DOMAIN devices
       PROVE  /\ Plugged(devices'[e])
              /\ ~crossed /\ Mended => devices'[e].copy.parent \in Groups(config) \cup {Root}
  <2>1. CASE e = d
    BY <1>7, <1>8, <2>1 DEF Mended
  <2>2. CASE e # d
    BY <1>8, <2>2 DEF Mended, EditorIInv, EditorTyped
  <2> QED
    BY <2>1, <2>2
<1>12. RunningIInv'
  <2>1. ASSUME NEW a \in (DOMAIN devices' \cap DOMAIN config'.tree) \ apart'
        PROVE  /\ devices'[a].copy.value = config'.tree[a].value
               /\ devices'[a].copy.ops = config'.tree[a].ops
               /\ config'.tree[a].kind = "device"
    <3>1. /\ devices[a].copy.value = config.tree[a].value
          /\ devices[a].copy.ops = config.tree[a].ops /\ config.tree[a].kind = "device"
      BY <1>5, <1>8, <2>1 DEF EditorIInv, RunningIInv
    <3>2. CASE a = d
      <4>1. config'.tree[a] = node /\ devices'[a] = r
        BY <1>2, <1>5, <1>8, <3>2
      <4> QED
        BY <1>3, <1>7, <3>1, <3>2, <4>1
    <3>3. CASE a # d
      BY <1>5, <1>8, <2>1, <3>1, <3>3
    <3> QED
      BY <3>2, <3>3
  <2> QED
    BY <2>1 DEF RunningIInv
<1> QED
  BY <1>5, <1>8, <1>9, <1>10, <1>11, <1>12, KeptTree

(* An operator's field dragged.                                              *)
LEMMA PreviewOperatorStep ==
  ASSUME EditorIInv, PreviewOperator
  PROVE  EditorIInv'
<1>1. PICK d, id, op :
        /\ d \in DeviceIds(config) \cap DOMAIN devices
        /\ Opened("operator", id) /\ PutOperator(d, op)
  BY DEF PreviewOperator
<1>2. UNCHANGED stackVars /\ UNCHANGED <<selected, created, crossed, apart>>
  BY DEF PreviewOperator
<1>3. StackTyped' /\ Snapshots' \subseteq Snapshots \cup {config}
  <2>1. "operator" \in PreviewKinds
    BY DEF PreviewKinds
  <2> QED
    BY <1>1, <1>2, <2>1, StackOpened DEF EditorIInv, EditorTyped
<1>4. SnapshotsLevel
  BY <1>3, LevelSelf DEF SnapshotsLevel, EditorIInv, EditorTyped, Numbered, Mended
<1> QED
  BY <1>1, <1>2, <1>3, <1>4, PutOperatorStep

(* What the command of an operator's edit leads to.                          *)
LEMMA OperatorForthShaped ==
  ASSUME NEW base, Shaped(base), NEW d, NEW op, NEW f, f = OperatorForth(base, d, op)
  PROVE  /\ Shaped(f) /\ f.structure = base.structure /\ f.sessions = base.sessions
         /\ DOMAIN f.tree = DOMAIN base.tree
         /\ \A n \in DOMAIN base.tree : /\ f.tree[n].kind = base.tree[n].kind
                                        /\ f.tree[n].parent = base.tree[n].parent
<1>1. PICK ops : ops = Replaced(base.tree[d].ops, op)
  OBVIOUS
<1>2. PICK tree : tree = [base.tree EXCEPT ![d].ops = ops]
  OBVIOUS
<1>3. /\ DOMAIN tree = DOMAIN base.tree /\ Treed(tree)
      /\ \A n \in DOMAIN base.tree : /\ tree[n].kind = base.tree[n].kind
                                     /\ tree[n].parent = base.tree[n].parent
  BY <1>2 DEF Shaped, Treed, Noded, NodeFields
<1>4. PICK e : e = WithDeviceOperators(base, d, ops)
  OBVIOUS
<1>5. e = [base EXCEPT !.tree = tree]
  BY <1>2, <1>4 DEF WithDeviceOperators, Shaped, ConfigFields
<1>6. Shaped(e) /\ e.tree = tree /\ e.sessions = base.sessions /\ e.structure = base.structure
  BY <1>3, <1>5, ShapedTree
<1>7. f = RerootOperators(e, Prefix(base, d), Prefix(base, d), base.tree[d].ops, ops)
  BY <1>1, <1>4 DEF OperatorForth
<1>8. Keeps(e, f)
  BY <1>6, <1>7, KeepsPaths
<1> QED
  BY <1>3, <1>6, <1>8 DEF Keeps, SameContents

(* An operator's field or label edited.                                      *)
LEMMA EditOperatorStep ==
  ASSUME EditorIInv, EditOperator
  PROVE  EditorIInv'
<1>1. PICK d, id, op :
        /\ d \in DeviceIds(config) \cap DOMAIN devices
        /\ PutOperator(d, op) /\ Closed("operator", id)
        /\ Push(Command(BaseOf("operator", id), OperatorForth(BaseOf("operator", id), d, op),
                        FALSE, FALSE))
  BY DEF EditOperator
<1>2. UNCHANGED <<selected, created, crossed, apart>>
  BY DEF EditOperator
<1>3. PICK base : base = BaseOf("operator", id)
  OBVIOUS
<1>4. PICK f : f = OperatorForth(base, d, op)
  OBVIOUS
<1>5. "operator" \in PreviewKinds
  BY DEF PreviewKinds
<1>6. Numbered(base) /\ (~crossed => Level(base, config))
  BY <1>3, <1>5, BaseLevel
<1>7. /\ Shaped(f) /\ f.structure = base.structure /\ f.sessions = base.sessions
      /\ DOMAIN f.tree = DOMAIN base.tree
      /\ \A n \in DOMAIN base.tree : /\ f.tree[n].kind = base.tree[n].kind
                                     /\ f.tree[n].parent = base.tree[n].parent
  BY <1>4, <1>6, OperatorForthShaped DEF Numbered
<1>8. Alike(base, f)
  BY <1>7 DEF Alike, Groups, IsGroup, SessionIds
<1>9. Sound(base) => Sound(f)
  <2>1. SUFFICES ASSUME Sound(base)
                 PROVE  Sound(f)
    OBVIOUS
  <2>2. \A n \in DeviceIds(base) : f.tree[n].parent \in Groups(base) \cup {Root}
    BY <1>7, <2>1 DEF Sound, DeviceIds
  <2>3. \A i \in DOMAIN f.sessions : f.sessions[i].off \subseteq DOMAIN base.tree
    BY <1>7, <2>1 DEF Sound
  <2> QED
    BY <1>8, <2>1, <2>2, <2>3, SoundAsAlike
<1>10. ~crossed /\ Mended => Level(f, config)
  BY <1>6, <1>7, <1>8, <1>9, LevelAlike
<1>11. Push(Command(base, f, FALSE, FALSE)) /\ Closed("operator", id)
  BY <1>1, <1>3, <1>4
<1>12. StackTyped' /\ SnapshotsLevel
  BY <1>5, <1>6, <1>7, <1>10, <1>11, PushedPair
<1> QED
  BY <1>1, <1>2, <1>12, PutOperatorStep

(* A session, or one of its operators.                                       *)
LEMMA PutSessionStep ==
  ASSUME EditorIInv, NEW i \in DOMAIN config.sessions, NEW s, DOMAIN s = SessionFields,
         s.id = config.sessions[i].id, s.off = config.sessions[i].off,
         PutSession(i, s), StackTyped', SnapshotsLevel,
         UNCHANGED <<devices, selected, created, crossed, apart>>
  PROVE  EditorIInv'
<1>1. PICK list : list = [config.sessions EXCEPT ![i] = s]
  OBVIOUS
<1>2. SessionsListed(config.sessions) /\ Shaped(config)
  BY EditorParts DEF Shaped
<1>3. /\ SessionsListed(list) /\ DOMAIN list = DOMAIN config.sessions
      /\ \A j \in DOMAIN config.sessions : list[j] = IF j = i THEN s ELSE config.sessions[j]
  <2>1. DOMAIN config.sessions = 1..Len(config.sessions)
    BY <1>2 DEF SessionsListed, Listed
  <2>2. /\ SessionsListed(list) /\ DOMAIN list = 1..Len(config.sessions)
        /\ \A j \in 1..Len(config.sessions) : list[j] = IF j = i THEN s ELSE config.sessions[j]
    BY <1>1, <1>2, SessionReplaced
  <2> QED
    BY <2>1, <2>2
<1>4. PICK blurred : config' = [config EXCEPT !.sessions = list, !.blurred = blurred]
  BY <1>1, <1>2 DEF PutSession, Shaped, ConfigFields
<1>5. /\ Shaped(config') /\ config'.sessions = list /\ config'.tree = config.tree
      /\ config'.structure = config.structure
  BY <1>2, <1>3, <1>4 DEF Shaped, ConfigFields
<1>6. SessionIds(config') = SessionIds(config)
  BY <1>3, <1>5 DEF SessionIds
<1>7. Alike(config, config')
  BY <1>5, <1>6 DEF Alike, Groups, IsGroup
<1>8. Sound(config) => Sound(config')
  <2>1. SUFFICES ASSUME Sound(config)
                 PROVE  Sound(config')
    OBVIOUS
  <2>2. \A n \in DeviceIds(config) : config'.tree[n].parent \in Groups(config) \cup {Root}
    BY <1>5, <2>1 DEF Sound, DeviceIds
  <2>3. \A j \in DOMAIN config'.sessions : config'.sessions[j].off \subseteq DOMAIN config.tree
    BY <1>3, <1>5, <2>1 DEF Sound
  <2> QED
    BY <1>7, <2>1, <2>2, <2>3, SoundAsAlike
<1> QED
  BY <1>5, <1>6, <1>8, KeptSessions DEF Mended

(* What the command of a session's edit leads to.                            *)
LEMMA SessionForthShaped ==
  ASSUME NEW base, Shaped(base), NEW s, DOMAIN s = SessionFields,
         NEW f, f = SessionForth(base, s)
  PROVE  /\ Shaped(f) /\ f.structure = base.structure /\ f.tree = base.tree
         /\ Alike(base, f)
         /\ Sound(base) /\ s.off \subseteq DOMAIN base.tree => Sound(f)
<1>1. PICK i : i = SessionAt(base, s.id)
  OBVIOUS
<1>2. PICK list : list = [base.sessions EXCEPT ![i] = s]
  OBVIOUS
<1>3. /\ SessionsListed(list) /\ DOMAIN list = DOMAIN base.sessions
      /\ \A j \in DOMAIN base.sessions : list[j] = IF j = i THEN s ELSE base.sessions[j]
  <2>1. SessionsListed(base.sessions) /\ DOMAIN base.sessions = 1..Len(base.sessions)
    BY DEF Shaped, SessionsListed, Listed
  <2>2. /\ SessionsListed(list) /\ DOMAIN list = 1..Len(base.sessions)
        /\ \A j \in 1..Len(base.sessions) : list[j] = IF j = i THEN s ELSE base.sessions[j]
    BY <1>2, <2>1, SessionReplaced
  <2> QED
    BY <2>1, <2>2
<1>4. PICK e : e = [base EXCEPT !.sessions = list]
  OBVIOUS
<1>5. /\ Shaped(e) /\ e.sessions = list /\ e.tree = base.tree /\ e.structure = base.structure
  BY <1>3, <1>4, ShapedSessions
<1>6. e = [base EXCEPT !.sessions[i] = s]
  BY <1>2, <1>4 DEF Shaped, ConfigFields
<1>7. PICK old : old = base.sessions[i]
  OBVIOUS
<1>8. PICK moved : moved = Reroot(e, SessionPrefix(old), SessionPrefix(s))
  OBVIOUS
<1>9. Keeps(e, moved)
  BY <1>5, <1>8, KeepsPaths
<1>10. f = RerootOperators(moved, SessionPrefix(s), SessionPrefix(s), old.ops, s.ops)
  BY <1>1, <1>6, <1>7, <1>8 DEF SessionForth
<1>11. Keeps(moved, f)
  BY <1>9, <1>10, KeepsPaths DEF Keeps
<1>12. /\ Shaped(f) /\ f.sessions = list /\ f.tree = base.tree /\ f.structure = base.structure
  BY <1>5, <1>9, <1>11 DEF Keeps, SameContents
<1>13. SessionIds(f) = SessionIds(base)
  <2>1. i \in DOMAIN base.sessions => base.sessions[i].id = s.id
    BY <1>1, SessionIndex
  <2>2. \A j \in DOMAIN base.sessions : list[j].id = base.sessions[j].id
    BY <1>3, <2>1
  <2> QED
    BY <1>3, <1>12, <2>2 DEF SessionIds
<1>14. Alike(base, f)
  BY <1>12, <1>13 DEF Alike, Groups, IsGroup
<1>15. ASSUME Sound(base), s.off \subseteq DOMAIN base.tree
       PROVE  Sound(f)
  <2>1. \A n \in DeviceIds(base) : f.tree[n].parent \in Groups(base) \cup {Root}
    BY <1>12, <1>15 DEF Sound, DeviceIds
  <2>2. \A j \in DOMAIN f.sessions : f.sessions[j].off \subseteq DOMAIN base.tree
    BY <1>3, <1>12, <1>15 DEF Sound
  <2> QED
    BY <1>14, <1>15, <2>1, <2>2, SoundAsAlike
<1> QED
  BY <1>12, <1>14, <1>15

(* Such a command is level when its base is.                                 *)
LEMMA PushedSession ==
  ASSUME EditorIInv, NEW base, Numbered(base), ~crossed => Level(base, config),
         NEW s, DOMAIN s = SessionFields, ~crossed /\ Mended => s.off \subseteq DOMAIN config.tree,
         NEW x, NEW y, Push(Command(base, SessionForth(base, s), x, y)),
         preview' = preview \/ \E kind \in PreviewKinds : \E id : Closed(kind, id)
  PROVE  StackTyped' /\ SnapshotsLevel
<1>1. PICK f : f = SessionForth(base, s)
  OBVIOUS
<1>2. /\ Shaped(f) /\ f.structure = base.structure /\ f.tree = base.tree /\ Alike(base, f)
      /\ Sound(base) /\ s.off \subseteq DOMAIN base.tree => Sound(f)
  BY <1>1, SessionForthShaped DEF Numbered
<1>3. ~crossed /\ Mended => Level(f, config)
  <2>1. SUFFICES ASSUME ~crossed, Mended
                 PROVE  Level(f, config)
    OBVIOUS
  <2>2. Level(base, config) /\ s.off \subseteq DOMAIN config.tree
    BY <2>1
  <2>3. CASE base.structure = config.structure
    BY <1>2, <2>2, <2>3 DEF Level, Alike
  <2>4. CASE base.structure # config.structure
    BY <1>2, <2>2, <2>4 DEF Level
  <2> QED
    BY <2>3, <2>4
<1> QED
  BY <1>1, <1>2, <1>3, PushedPair

(* What may be edited of a session leaves its number and its nodes.          *)
LEMMA SessionEdited ==
  ASSUME EditorIInv, NEW i \in DOMAIN config.sessions
  PROVE  /\ \A l : LET s == [config.sessions[i] EXCEPT !.label = l]
                   IN DOMAIN s = SessionFields /\ s.id = config.sessions[i].id
                      /\ s.off = config.sessions[i].off
         /\ LET s == Toggled(config.sessions[i])
            IN DOMAIN s = SessionFields /\ s.id = config.sessions[i].id
               /\ s.off = config.sessions[i].off
         /\ \A ops : LET s == [config.sessions[i] EXCEPT !.ops = ops]
                     IN DOMAIN s = SessionFields /\ s.id = config.sessions[i].id
                        /\ s.off = config.sessions[i].off
         /\ Sound(config) => config.sessions[i].off \subseteq DOMAIN config.tree
<1>1. DOMAIN config.sessions[i] = SessionFields
  BY EditorParts DEF Shaped, SessionsListed, Listed
<1>2. Sound(config) => config.sessions[i].off \subseteq DOMAIN config.tree
  BY DEF Sound
<1> QED
  BY <1>1, <1>2 DEF SessionFields, Toggled

(* A field of a session edited, or its label.                                *)
LEMMA EditSessionStep ==
  ASSUME EditorIInv, EditSession
  PROVE  EditorIInv'
<1>1. PICK i \in DOMAIN config.sessions :
       \E s \in {Toggled(config.sessions[i])}
                 \cup {[config.sessions[i] EXCEPT !.label = l] : l \in SessionLabels} :
         PutSession(i, s) /\ Push(Command(config, SessionForth(config, s), FALSE, TRUE))
  BY DEF EditSession
<1>2. PICK s \in {Toggled(config.sessions[i])}
                 \cup {[config.sessions[i] EXCEPT !.label = l] : l \in SessionLabels} :
        PutSession(i, s) /\ Push(Command(config, SessionForth(config, s), FALSE, TRUE))
  BY <1>1
<1>3. /\ DOMAIN s = SessionFields /\ s.id = config.sessions[i].id
      /\ s.off = config.sessions[i].off
  <2>1. CASE s = Toggled(config.sessions[i])
    BY <2>1, SessionEdited
  <2>2. CASE \E l \in SessionLabels : s = [config.sessions[i] EXCEPT !.label = l]
    <3>1. PICK l \in SessionLabels : s = [config.sessions[i] EXCEPT !.label = l]
      BY <2>2
    <3> QED
      BY <3>1, SessionEdited
  <2> QED
    BY <1>2, <2>1, <2>2
<1>4. UNCHANGED <<devices, preview, selected, created, crossed, apart>>
  BY DEF EditSession, gapVars
<1>5. ~crossed /\ Mended => s.off \subseteq DOMAIN config.tree
  BY <1>3, SessionEdited DEF Mended
<1>6. StackTyped' /\ SnapshotsLevel
  BY <1>2, <1>3, <1>4, <1>5, ConfigLevel, PushedSession
<1> QED
  BY <1>2, <1>3, <1>4, <1>6, PutSessionStep

(* A field of a session's operator dragged.                                  *)
LEMMA PreviewSessionOperatorStep ==
  ASSUME EditorIInv, PreviewSessionOperator
  PROVE  EditorIInv'
<1>1. PICK i, id, ops :
        /\ i \in DOMAIN config.sessions
        /\ Opened("session operator", id)
        /\ PutSession(i, [config.sessions[i] EXCEPT !.ops = ops])
  <2>1. PICK i \in DOMAIN config.sessions : \E k \in DOMAIN config.sessions[i].ops :
          LET s == config.sessions[i]
          IN /\ Opened("session operator", <<s.id, s.ops[k].id>>)
             /\ PutSession(i, [s EXCEPT !.ops[k] = Toggled(s.ops[k])])
    BY DEF PreviewSessionOperator
  <2>2. PICK k \in DOMAIN config.sessions[i].ops :
          LET s == config.sessions[i]
          IN /\ Opened("session operator", <<s.id, s.ops[k].id>>)
             /\ PutSession(i, [s EXCEPT !.ops[k] = Toggled(s.ops[k])])
    BY <2>1
  <2>3. PICK ops : ops = [config.sessions[i].ops EXCEPT ![k] = Toggled(config.sessions[i].ops[k])]
    OBVIOUS
  <2>4. [config.sessions[i] EXCEPT !.ops[k] = Toggled(config.sessions[i].ops[k])]
          = [config.sessions[i] EXCEPT !.ops = ops]
    BY <2>3
  <2> QED
    BY <2>2, <2>4
<1>2. i \in DOMAIN config.sessions
  BY <1>1
<1>3. PICK s : s = [config.sessions[i] EXCEPT !.ops = ops]
  OBVIOUS
<1>4. /\ DOMAIN s = SessionFields /\ s.id = config.sessions[i].id
      /\ s.off = config.sessions[i].off
  BY <1>3, <1>2, SessionEdited
<1>5. UNCHANGED <<devices, stackVars, selected, created, crossed, apart>>
  BY DEF PreviewSessionOperator, gapVars
<1>6. StackTyped' /\ Snapshots' \subseteq Snapshots \cup {config}
  <2>1. "session operator" \in PreviewKinds
    BY DEF PreviewKinds
  <2>2. UNCHANGED stackVars
    BY <1>5
  <2> QED
    BY <1>1, <2>1, <2>2, StackOpened DEF EditorIInv, EditorTyped
<1>7. SnapshotsLevel
  BY <1>6, LevelSelf DEF SnapshotsLevel, EditorIInv, EditorTyped, Numbered, Mended
<1>8. PutSession(i, s)
  BY <1>1, <1>3
<1>9. UNCHANGED <<devices, selected, created, crossed, apart>>
  BY <1>5
<1> QED
  BY <1>4, <1>6, <1>7, <1>8, <1>9, <1>2, PutSessionStep

(* A field of a session's operator edited.                                   *)
LEMMA EditSessionOperatorStep ==
  ASSUME EditorIInv, EditSessionOperator
  PROVE  EditorIInv'
<1>1. PICK i, id, ops :
        /\ i \in DOMAIN config.sessions
        /\ LET s == [config.sessions[i] EXCEPT !.ops = ops]
               base == BaseOf("session operator", id)
           IN /\ PutSession(i, s) /\ Closed("session operator", id)
              /\ Push(Command(base, SessionForth(base, s), FALSE, TRUE))
  <2>1. PICK i \in DOMAIN config.sessions : \E k \in DOMAIN config.sessions[i].ops : \E op :
         LET s == [config.sessions[i] EXCEPT !.ops[k] = op]
             base == BaseOf("session operator", <<s.id, op.id>>)
         IN /\ PutSession(i, s)
            /\ Closed("session operator", <<s.id, op.id>>)
            /\ Push(Command(base, SessionForth(base, s), FALSE, TRUE))
    BY DEF EditSessionOperator
  <2>2. PICK k, op :
         /\ k \in DOMAIN config.sessions[i].ops
         /\ LET s == [config.sessions[i] EXCEPT !.ops[k] = op]
                base == BaseOf("session operator", <<s.id, op.id>>)
            IN /\ PutSession(i, s)
               /\ Closed("session operator", <<s.id, op.id>>)
               /\ Push(Command(base, SessionForth(base, s), FALSE, TRUE))
    BY <2>1
  <2>3. PICK ops : ops = [config.sessions[i].ops EXCEPT ![k] = op]
    OBVIOUS
  <2>4. [config.sessions[i] EXCEPT !.ops[k] = op] = [config.sessions[i] EXCEPT !.ops = ops]
    BY <2>3
  <2> QED
    BY <2>2, <2>4
<1>2. i \in DOMAIN config.sessions
  BY <1>1
<1>3. PICK s : s = [config.sessions[i] EXCEPT !.ops = ops]
  OBVIOUS
<1>4. /\ DOMAIN s = SessionFields /\ s.id = config.sessions[i].id
      /\ s.off = config.sessions[i].off
  BY <1>3, <1>2, SessionEdited
<1>5. UNCHANGED <<devices, selected, created, crossed, apart>>
  BY DEF EditSessionOperator, gapVars
<1>6. PICK base : base = BaseOf("session operator", id)
  OBVIOUS
<1>7. "session operator" \in PreviewKinds
  BY DEF PreviewKinds
<1>8. Numbered(base) /\ (~crossed => Level(base, config))
  BY <1>6, <1>7, BaseLevel
<1>9. /\ PutSession(i, s) /\ Closed("session operator", id)
      /\ Push(Command(base, SessionForth(base, s), FALSE, TRUE))
  BY <1>1, <1>3, <1>6
<1>10. ~crossed /\ Mended => s.off \subseteq DOMAIN config.tree
  BY <1>4, <1>2, SessionEdited DEF Mended
<1>11. StackTyped' /\ SnapshotsLevel
  BY <1>4, <1>7, <1>8, <1>9, <1>10, PushedSession
<1> QED
  BY <1>4, <1>5, <1>9, <1>11, <1>2, PutSessionStep

(* A file is opened: nothing is kept to come back to.                        *)
LEMMA EditorInitIInv ==
  ASSUME EditorInit
  PROVE  EditorIInv
<1>1. Shaped(config) /\ Sound(config) /\ DOMAIN config.tree \subseteq FileNodes
  BY OpeningShaped DEF EditorInit
<1>2. /\ DOMAIN created = 1..3 /\ created[1] \in Nat /\ FileNodes = 1..created[1]
  <2>1. created = <<Cardinality(FileNodes), Cardinality(FileSessions), Cardinality(FileOperators)>>
    BY DEF EditorInit
  <2>2. Cardinality(FileNodes) \in Nat /\ FileNodes = 1..Cardinality(FileNodes)
    BY EditorAssumption, FS_CardinalityType
  <2> QED
    BY <2>1, <2>2
<1>3. Snapshots = {} /\ StackTyped
  <2>1. /\ undoStack = <<>> /\ undone = 0 /\ posted = <<>>
        /\ preview = [kind \in PreviewKinds |-> <<>>]
    BY DEF EditorInit
  <2>2. Len(<<>>) = 0 /\ Listed(<<>>)
    BY DEF Listed
  <2>3. StackTyped
    BY <2>1, <2>2 DEF StackTyped
  <2> QED
    BY <2>1, <2>2, <2>3 DEF Snapshots
<1>4. /\ DOMAIN devices = DeviceIds(config)
      /\ \A d \in DeviceIds(config) :
           DOMAIN devices[d] = {"copy", "member"} /\ devices[d].copy = config.tree[d]
  BY DEF EditorInit, Members, Synced
<1>5. \A d \in DeviceIds(config) : Noded(config.tree[d]) /\ config.tree[d].kind = "device"
  BY <1>1 DEF Shaped, Treed, DeviceIds, Groups, IsGroup, Noded
<1>6. EditorTyped
  BY <1>1, <1>2, <1>3, <1>4, <1>5 DEF EditorTyped, Numbered, Plugged
<1>7. selected \in SessionIds(config)
  BY <1>1, SelectionExists DEF EditorInit
<1>8. Mended
  <2>1. \A d \in DeviceIds(config) : config.tree[d].parent \in Groups(config) \cup {Root}
    BY <1>1 DEF Sound, DeviceIds
  <2> QED
    BY <1>1, <1>4, <1>7, <2>1 DEF Mended
<1>9. RunningIInv
  BY <1>4, <1>5 DEF RunningIInv
<1> QED
  BY <1>3, <1>6, <1>8, <1>9 DEF EditorIInv, ReferencesIInv

(* Nothing happens.                                                          *)
LEMMA EditorStutters ==
  ASSUME EditorIInv, UNCHANGED editorVars
  PROVE  EditorIInv'
<1>1. StackTyped' /\ SnapshotsLevel
  BY StackKept DEF EditorIInv, EditorTyped, SnapshotsLevel, editorVars
<1> QED
  BY <1>1, StackStep DEF editorVars, gapVars

(* The invariant holds in every state of the editor.                         *)
THEOREM EditorKeepsIInv == EditorSpec => []EditorIInv
<1>1. EditorInit => EditorIInv
  BY EditorInitIInv
<1>2. ASSUME EditorIInv, [EditorNext]_editorVars
      PROVE  EditorIInv'
  <2>1. CASE EditTree
    BY <1>2, <2>1, AddDeviceStep, CreateGroupStep, DuplicateStep, DeleteDeviceStep,
       DeleteGroupStep, LabelGroupStep, MoveStep DEF EditTree
  <2>2. CASE EditSessions
    BY <1>2, <2>2, SelectSessionStep, AddSessionStep, DuplicateSessionStep, RemoveSessionStep,
       LabelSessionStep, SwitchNodeStep DEF EditSessions
  <2>3. CASE EditOperators
    BY <1>2, <2>3, DeviceOperatorsStep, EditSessionOperatorsStep, PreviewOperatorStep,
       EditOperatorStep, PreviewSessionOperatorStep, EditSessionOperatorStep DEF EditOperators
  <2>4. CASE EditFields
    BY <1>2, <2>4, PreviewDeviceStep, EditDeviceStep, FieldSetStep, PreviewGroupStep,
       EditGroupStep, GroupFieldSetStep, LabelDeviceStep, EditSessionStep, EditSettingsStep
       DEF EditFields
  <2>5. CASE EditPaths \/ LoadFile \/ Undo \/ Redo \/ RunPosted
    BY <1>2, <2>5, PathsStep, LoadFileStep, UndoStep, RunPostedStep
  <2>6. CASE UNCHANGED editorVars
    BY <1>2, <2>6, EditorStutters
  <2> QED
    BY <1>2, <2>1, <2>2, <2>3, <2>4, <2>5, <2>6 DEF EditorNext
<1> QED
  BY <1>1, <1>2, PTL DEF EditorSpec

(* Whatever the configuration refers to exists, until an undo or the end of  *)
(* a gesture brings back an older structure.                                 *)
THEOREM EditorReferencesExist == EditorSpec => []ReferencesExist
<1>1. EditorIInv => ReferencesExist
  BY DEF EditorIInv, ReferencesIInv, Mended, ReferencesExist
<1> QED
  BY <1>1, EditorKeepsIInv, PTL

(* What a plugin runs is what the workspace has for it, except for the       *)
(* devices that are known to have been told less.                            *)
THEOREM EditorRunningAsConfigured == EditorSpec => []RunningAsConfigured
<1>1. EditorIInv => RunningAsConfigured
  BY DEF EditorIInv, RunningIInv, RunningAsConfigured
<1> QED
  BY <1>1, EditorKeepsIInv, PTL
====
