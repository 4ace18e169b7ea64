-------------------------- MODULE ClusterTracking --------------------------
(***************************************************************************)
(* The cluster extraction operator: the workers of a pipeline find the     *)
(* boxes of their frames at the same time and match them, one after the    *)
(* other, against the boxes tracked so far. A box is the place of its      *)
(* centre.                                                                 *)
(***************************************************************************)
EXTENDS Integers, Sequences, SequencesExt

CONSTANTS
  ClusterWorkers,
  Places,           \* where the centre of a box may be, along a line
  Boxes,            \* the lists of boxes a frame may have
  MatchTolerance,
  ClusterTimeout,
  MaxClusterFrames, \* bound: frames processed
  MaxClusterTime    \* bound: the clock

ASSUME ClustersAssumption ==
  ClusterTimeout \in Nat /\ MaxClusterTime \in Nat /\ Boxes \subseteq Seq(Places)

VARIABLES
  tracked,     \* tracking_by_operator: [at, seen], oldest matches first
  processing,  \* a worker's frame, or <<>>
  outputs,     \* the output fields of the configuration
  clusterTime, \* steady_clock, when a frame was matched last
  framesTaken,
  matched,     \* history: the frames matched, [boxes, at], in that order
  crossed      \* history: the last frame was matched while another worker was
               \* still setting its outputs

clusterVars == <<tracked, processing, outputs, clusterTime, framesTaken, matched, crossed>>

(* In the order they are set; the voxels and their number, set before them,  *)
(* and the centroids, set after them, are left out.                          *)
OutputFields == <<"cluster_count", "clusters">>

ClustersInit ==
  /\ tracked = <<>> /\ matched = <<>> /\ crossed = FALSE
  /\ processing = [w \in ClusterWorkers |-> <<>>]
  /\ outputs = [cluster_count |-> 0, clusters |-> <<>>]
  /\ clusterTime = 0 /\ framesTaken = 0

-----------------------------------------------------------------------------
(* Voxels, filters and clusters of a frame: which boxes come of it is left   *)
(* open until they are matched.                                              *)
ExtractClusters(w) ==
  /\ processing[w] = <<>> /\ framesTaken < MaxClusterFrames
  /\ framesTaken' = framesTaken + 1
  /\ processing' = [processing EXCEPT ![w] =
                      <<[list |-> <<>>, left |-> <<"match">>]>>]
  /\ UNCHANGED <<tracked, outputs, clusterTime, matched, crossed>>

Distance(p, q) == IF p < q THEN q - p ELSE p - q

(* Each new box takes the first tracked one near it that none took before:   *)
(* the positions taken of a list of existing ones.                           *)
TakenBy(boxes, existing) ==
  LET Near(box) == {i \in DOMAIN existing : Distance(existing[i].at, box) <= MatchTolerance}
      First(free) == {i \in free : \A j \in free : i <= j}
      taken[n \in 0 .. Len(boxes)] ==
        IF n = 0 THEN {}
        ELSE taken[n - 1] \cup First(Near(boxes[n]) \ taken[n - 1])
  IN taken[Len(boxes)]

(* Slip: a box is given up at its timeout, not after it.                     *)
GivenUp(seen, now) == now - seen < ClusterTimeout

InTime(seen, now) == now - seen <= ClusterTimeout

KeptInTime(existing, taken, now) ==
  LET kept[n \in 0 .. Len(existing)] ==
        IF n = 0 THEN <<>>
        ELSE IF n \notin taken /\ InTime(existing[n].seen, now)
        THEN Append(kept[n - 1], existing[n]) ELSE kept[n - 1]
  IN kept[Len(existing)]

Updated(boxes, existing, now) ==
  [i \in DOMAIN boxes |-> [at |-> boxes[i], seen |-> now]]
  \o KeptInTime(existing, TakenBy(boxes, existing), now)

(* The match, under the lock all workers share.                              *)
MatchClusters(w, boxes, now) ==
  /\ processing[w] # <<>> /\ processing[w][1].left = <<"match">>
  /\ tracked' = Updated(boxes, tracked, now)
  /\ processing' = [processing EXCEPT ![w] = <<[list |-> tracked', left |-> OutputFields]>>]
  /\ clusterTime' = now
  /\ matched' = Append(matched, [boxes |-> boxes, at |-> now])
  /\ crossed' = \E v \in ClusterWorkers \ {w} :
                  processing[v] # <<>> /\ processing[v][1].left # <<"match">>
  /\ UNCHANGED <<outputs, framesTaken>>

ValueOf(field, frame) ==
  IF field = "cluster_count" THEN Len(frame.list)
  ELSE [i \in DOMAIN frame.list |-> frame.list[i].at]

(* The outputs are set one by one, each by an atomic exchange, after which   *)
(* the worker returns its frame.                                             *)
SetOutput(w) ==
  /\ processing[w] # <<>> /\ processing[w][1].left # <<"match">>
  /\ LET frame == processing[w][1]
         field == Head(frame.left)
     IN /\ outputs' = [outputs EXCEPT ![field] = ValueOf(field, frame)]
        /\ processing' = [processing EXCEPT ![w] =
             IF Len(frame.left) = 1 THEN <<>>
             ELSE <<[list |-> frame.list, left |-> Tail(frame.left)]>>]
  /\ UNCHANGED <<tracked, clusterTime, framesTaken, matched, crossed>>

ClustersNext ==
  \/ \E w \in ClusterWorkers :
       \/ ExtractClusters(w)
       \/ \E boxes \in Boxes, now \in clusterTime .. MaxClusterTime : MatchClusters(w, boxes, now)
       \/ SetOutput(w)

ClustersSpec == ClustersInit /\ [][ClustersNext]_clusterVars

-----------------------------------------------------------------------------
(* PROPERTIES                                                                *)

Seen(i) == {matched[i].boxes[k] : k \in DOMAIN matched[i].boxes}
Lapsed(i) == Last(matched).at - matched[i].at > ClusterTimeout

(* No cluster is lost and none is made up, by any number of workers: a box   *)
(* that was found is tracked until a later frame found one within tolerance  *)
(* of it, or a frame was matched after its timeout; what is tracked was      *)
(* found and has not timed out when it was last matched. And when no worker  *)
(* is at it the outputs all tell of the frame matched last, unless that one  *)
(* was matched while another worker was still setting them: then the count   *)
(* may be that of one frame and the list that of another.                    *)
ClustersAreFound ==
  /\ \A i \in DOMAIN matched : \A p \in Seen(i) :
       \/ Lapsed(i)
       \/ \E k \in DOMAIN tracked : tracked[k] = [at |-> p, seen |-> matched[i].at]
       \/ \E j \in i + 1 .. Len(matched) : \E q \in Seen(j) : Distance(p, q) <= MatchTolerance
  /\ \A k \in DOMAIN tracked :
       \E i \in DOMAIN matched : matched[i].at = tracked[k].seen /\ tracked[k].at \in Seen(i) /\ ~Lapsed(i)
  /\ (\A w \in ClusterWorkers : processing[w] = <<>>) /\ ~crossed =>
       /\ outputs.clusters = [k \in DOMAIN tracked |-> tracked[k].at]
       /\ outputs.cluster_count = Len(tracked)
=============================================================================
