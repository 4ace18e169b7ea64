----------------------------- MODULE MCNetwork -----------------------------
(* Everything that sends to other programs, the clients, the metrics, the  *)
(* log and the operator that tracks what publishers send, for TLC: the     *)
(* parts are explored one after the other in one run. They share no        *)
(* variable; the one that runs is chosen at the start and the others stay  *)
(* where they begin.                                                       *)
EXTENDS PointStream, TouchDesignerClient, ValuePublishing, MessageReceiver, MessageOperators,
        ExternalPublishers, MetricsServer, LogConsole, ClusterTracking

VARIABLE part

ArrivingMessages ==
  {[type |-> "update", kind |-> "float", sizes |-> <<>>],
   [type |-> "update", kind |-> "contourslist", sizes |-> <<1, 2>>]}

OpenedProjects == {[r \in Readers |-> [server |-> "here", active |-> TRUE, id |-> "m1"]]}

SavedOptions == {[target |-> 1, mode |-> m, auto |-> TRUE] : m \in {"PublishEmptyOnce", "Ignore"}}

(* Up to three boxes, near each other, apart and with the same centre.       *)
BoxLists == {<<>>} \cup {<<p>> : p \in Places}
            \cup {<<0, 1>>, <<1, 1>>, <<3, 0>>, <<1, 0, 3>>}

Parts == {"stream", "client", "publishing", "receiver", "messages", "external", "metrics", "log",
          "clusters"}

AtRest(p) == part = p \/
  CASE p = "publishing" -> publishPaths = {} /\ port = 0
    [] p = "external" -> publisher = "osc" /\ options.mode = "Ignore"
    [] p = "log" -> \A t \in LogTargets : logFiles[t][0] = 0
    [] OTHER -> TRUE

NetworkInit ==
  /\ StreamInit /\ ClientInit /\ PublishingInit /\ ReceiverInit /\ MessageInit /\ ExternalInit
  /\ MetricsInit /\ LogInit /\ ClustersInit
  /\ part \in Parts
  /\ \A p \in Parts : AtRest(p)
  /\ setting.enable

NetworkVars == <<streamVars, clientSideVars, publishingVars, receiverVars, messageVars,
                 externalVars, metricsVars, logVars, clusterVars, part>>

NetworkNext ==
  /\ UNCHANGED part
  /\ \/ /\ part = "stream" /\ StreamNext
        /\ UNCHANGED <<clientSideVars, publishingVars, receiverVars, messageVars, externalVars,
                       metricsVars, logVars, clusterVars>>
     \/ /\ part = "client" /\ ClientNext
        /\ UNCHANGED <<streamVars, publishingVars, receiverVars, messageVars, externalVars,
                       metricsVars, logVars, clusterVars>>
     \/ /\ part = "publishing" /\ PublishingNext
        /\ UNCHANGED <<streamVars, clientSideVars, receiverVars, messageVars, externalVars,
                       metricsVars, logVars, clusterVars>>
     \/ /\ part = "receiver" /\ ReceiverNext
        /\ UNCHANGED <<streamVars, clientSideVars, publishingVars, messageVars, externalVars,
                       metricsVars, logVars, clusterVars>>
     \/ /\ part = "messages" /\ MessageNext
        /\ UNCHANGED <<streamVars, clientSideVars, publishingVars, receiverVars, externalVars,
                       metricsVars, logVars, clusterVars>>
     \/ /\ part = "external" /\ ExternalNext
        /\ UNCHANGED <<streamVars, clientSideVars, publishingVars, receiverVars, messageVars,
                       metricsVars, logVars, clusterVars>>
     \/ /\ part = "metrics" /\ MetricsNext
        /\ UNCHANGED <<streamVars, clientSideVars, publishingVars, receiverVars, messageVars,
                       externalVars, logVars, clusterVars>>
     \/ /\ part = "log" /\ LogNext
        /\ UNCHANGED <<streamVars, clientSideVars, publishingVars, receiverVars, messageVars,
                       externalVars, metricsVars, clusterVars>>
     \/ /\ part = "clusters" /\ ClustersNext
        /\ UNCHANGED <<streamVars, clientSideVars, publishingVars, receiverVars, messageVars,
                       externalVars, metricsVars, logVars>>

NetworkSpec == NetworkInit /\ [][NetworkNext]_NetworkVars
=============================================================================
