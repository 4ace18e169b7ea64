--------------------------- MODULE ValuePublishing ---------------------------
(***************************************************************************)
(* Configuration values on their way out: the thread of WorkspacePublisher *)
(* sends the published fields that changed over an inproc socket, and the  *)
(* thread of the message streamer's WorkspaceListener keeps the last value *)
(* of each and sends it to the clients that subscribed to it.              *)
(*                                                                         *)
(* One client. A value is the number of its version and 0 is none, also    *)
(* the default value that is sent for a field that never had one. What the *)
(* streamer sends is dropped when the client has SendLimit messages unread *)
(* (sndhwm, 32), and with the client when it is read.                      *)
(***************************************************************************)
EXTENDS Naturals, Sequences, FiniteSets, SequencesExt

CONSTANTS
  Fields,          \* paths of the configuration registry
  Ports,           \* ports of the message streamer; 0 stands for not enabled
  SendLimit,       \* messages the socket keeps for the client
  MaxBus,          \* bound: updates on the inproc socket
  MaxEdits         \* bound: changes by the user and the client

ASSUME PublishingAssumption ==
  /\ IsFiniteSet(Fields)
  /\ Ports \subseteq Nat \ {0}
  /\ SendLimit \in Nat /\ MaxBus \in Nat /\ MaxEdits \in Nat

VARIABLES
  value,         \* what the registry holds for each field
  publishPaths,  \* publish_paths
  pushPaths,     \* push_paths
  previous,      \* previous_snapshot, 0 for no entry
  bus,           \* on the inproc socket: [field, value]
  joined,        \* the listener's subscription has reached the publisher
  settings,      \* the configuration: the port, or 0
  notifying,     \* the configuration is set, its callback not yet called
  changedPaths,  \* _changed_paths names a field of the socket
  listener,      \* the listener thread: "config", "changes", "tick" or "receive"
  snapshot,      \* the configuration this turn of the loop works with
  port,          \* where _socket is bound, 0 for no socket
  lastValue,     \* last_value_for_path, 0 for no entry
  subscribers,   \* count_for_path
  requests,      \* subscriptions on their way, <<add?, field>>
  waiting,       \* threads that wait 200 ms for a new subscriber of each field
  republish,     \* republish_paths
  backlog,       \* messages sent that the client has not read
  clientPaths,   \* what the client subscribes to
  linked,        \* the client's socket is connected to _socket
  clientValue,   \* the newest value sent to the client, 0 for none or one lost unread
  edits,         \* changes so far, also the newest version of a value
  unkept,       \* history: fields whose newest value found no listener
  lost,         \* history: fields whose newest message, or republished path, was lost
  outdated      \* history: a change was handled with settings before it, or not at all

registryVars == <<value, publishPaths, pushPaths>>
publisherVars == <<previous, bus, joined>>
settingsVars == <<settings, notifying>>
loopVars == <<listener, snapshot, changedPaths, outdated>>
socketVars == <<port, subscribers, requests, linked>>
streamerVars == <<lastValue, waiting, republish>>
subscriberVars == <<clientPaths, clientValue, backlog, lost>>
publishingVars == <<registryVars, publisherVars, settingsVars, loopVars, socketVars,
                    streamerVars, subscriberVars, edits, unkept>>

Nothing == [f \in Fields |-> 0]
ClientPort == 1                  \* the client connects to the first port

(* A workspace whose published fields come from its file. The constructor of *)
(* the streamer made its socket, or failed to.                               *)
PublishingInit ==
  /\ value = [f \in Fields |-> 1]
  /\ publishPaths \in SUBSET Fields /\ pushPaths \in {{}, publishPaths}
  /\ previous = Nothing /\ bus = <<>> /\ joined = FALSE
  /\ settings = ClientPort /\ notifying = FALSE
  /\ changedPaths = FALSE
  /\ listener = "config" /\ snapshot = 0
  /\ port \in {0, ClientPort} /\ subscribers = Nothing
  /\ requests = <<>> /\ linked = FALSE
  /\ lastValue = Nothing /\ waiting = Nothing /\ republish = <<>>
  /\ clientPaths = {} /\ clientValue = Nothing /\ backlog = 0
  /\ edits = 1 /\ unkept = {} /\ lost = {} /\ outdated = FALSE

Edited == edits < MaxEdits /\ edits' = edits + 1

-----------------------------------------------------------------------------
(* The user. A setter writes the value first, then the callbacks are called. *)
EditValue ==
  /\ Edited
  /\ \E f \in Fields : value' = [value EXCEPT ![f] = edits + 1]
  /\ UNCHANGED <<publishPaths, pushPaths, publisherVars, settingsVars, loopVars, socketVars,
                 streamerVars, subscriberVars, unkept>>

TogglePublished ==
  /\ Edited
  /\ \E f \in Fields :
       /\ publishPaths' = IF f \in publishPaths THEN publishPaths \ {f}
                          ELSE publishPaths \cup {f}
       /\ pushPaths' = pushPaths \cap publishPaths'
  /\ UNCHANGED <<value, publisherVars, settingsVars, loopVars, socketVars, streamerVars,
                 subscriberVars, unkept>>

EditPublisher ==
  /\ ~notifying /\ Edited
  /\ settings' \in (Ports \cup {0}) \ {settings}
  /\ notifying' = TRUE
  /\ UNCHANGED <<registryVars, publisherVars, loopVars, socketVars, streamerVars,
                 subscriberVars, unkept>>

(* Undo, redo and loading a file replace the configuration and tell nobody.  *)
ReplacePublisher ==
  /\ ~notifying /\ Edited
  /\ settings' \in (Ports \cup {0}) \ {settings}
  /\ outdated' = TRUE
  /\ UNCHANGED <<registryVars, publisherVars, notifying, listener, snapshot, changedPaths,
                 socketVars, streamerVars, subscriberVars, unkept>>

Notify ==
  /\ notifying
  /\ notifying' = FALSE
  /\ changedPaths' = TRUE
  /\ UNCHANGED <<registryVars, publisherVars, settings, listener, snapshot, outdated,
                 socketVars, streamerVars, subscriberVars, edits, unkept>>

-----------------------------------------------------------------------------
(* The publisher: published fields go out when they differ from the snapshot *)
(* of the tick before, pushed ones at every tick.                            *)
PublisherTick ==
  LET current == [f \in Fields |-> IF f \in publishPaths THEN value[f] ELSE 0]
      changed == {f \in publishPaths : previous[f] # current[f]}
      sent == changed \cup (publishPaths \cap pushPaths)
  IN /\ previous' = current
     /\ Len(bus) + 1 <= MaxBus
     /\ bus' = IF joined
               THEN bus \o SetToSeq({[field |-> f, value |-> value[f]] : f \in sent})
               ELSE bus
     /\ unkept' = IF joined THEN unkept \ sent ELSE unkept \cup changed
     /\ UNCHANGED <<registryVars, joined, settingsVars, loopVars, socketVars, streamerVars,
                    subscriberVars, edits>>

ListenerJoins ==
  /\ ~joined
  /\ joined' = TRUE
  /\ UNCHANGED <<registryVars, previous, bus, settingsVars, loopVars, socketVars,
                 streamerVars, subscriberVars, edits, unkept>>

-----------------------------------------------------------------------------
(* The client.                                                               *)
(* Slip: a connected client subscribes when it connects again.               *)
AskingLater(f) == requests
Asking(f) == IF linked THEN Append(requests, <<f \notin clientPaths, f>>) ELSE requests

ClientSubscribes ==
  /\ Edited
  /\ \E f \in Fields :
       /\ clientPaths' = IF f \in clientPaths THEN clientPaths \ {f} ELSE clientPaths \cup {f}
       /\ requests' = Asking(f)
  /\ UNCHANGED <<registryVars, publisherVars, settingsVars, loopVars, port, subscribers,
                 linked, streamerVars, clientValue, backlog, lost, unkept>>

ClientConnects ==
  /\ ~linked /\ port = ClientPort
  /\ linked' = TRUE
  /\ requests' = SetToSeq({<<TRUE, f>> : f \in clientPaths})
  /\ UNCHANGED <<registryVars, publisherVars, settingsVars, loopVars, port, subscribers,
                 streamerVars, subscriberVars, edits, unkept>>

-----------------------------------------------------------------------------
(* The detached threads, each 200 ms after the subscription it was started   *)
(* for. The queue is made for one producer: of two threads that enqueue at   *)
(* once, one may write over what the other has written.                      *)
DelayEnds ==
  /\ \E f \in Fields :
       /\ waiting[f] > 0
       /\ waiting' = [waiting EXCEPT ![f] = @ - 1]
       /\ \/ republish' = Append(republish, f) /\ UNCHANGED lost
          \/ /\ \E g \in Fields : waiting'[g] > 0
             /\ lost' = lost \cup {f} /\ UNCHANGED republish
  /\ UNCHANGED <<registryVars, publisherVars, settingsVars, loopVars, socketVars, lastValue,
                 clientPaths, clientValue, backlog, edits, unkept>>

ClientReads ==
  /\ backlog > 0
  /\ backlog' = backlog - 1
  /\ UNCHANGED <<registryVars, publisherVars, settingsVars, loopVars, socketVars, streamerVars,
                 clientPaths, clientValue, lost, edits, unkept>>

-----------------------------------------------------------------------------
(* The listener thread: read the configuration, then take what changed.      *)
ReadSettings ==
  /\ listener = "config"
  /\ snapshot' = settings
  /\ listener' = "changes"
  /\ UNCHANGED <<registryVars, publisherVars, settingsVars, changedPaths, outdated,
                 socketVars, streamerVars, subscriberVars, edits, unkept>>

(* handle_config_change: the socket is replaced, with linger 0, and what was *)
(* unread is lost; binding may fail. The counts of the subscribers stay as   *)
(* they were.                                                                *)
HandleChanges ==
  /\ listener = "changes"
  /\ listener' = "tick"
  /\ changedPaths' = FALSE
  /\ IF changedPaths
     THEN /\ port' \in {0, snapshot}
          /\ linked' = FALSE /\ requests' = <<>>
          /\ backlog' = 0
          /\ clientValue' = IF backlog = 0 THEN clientValue ELSE Nothing
          /\ outdated' = (snapshot # settings)
     ELSE UNCHANGED <<port, linked, requests, backlog, clientValue, outdated>>
  /\ UNCHANGED <<registryVars, publisherVars, settingsVars, snapshot, subscribers,
                 streamerVars, clientPaths, lost, edits, unkept>>

(* The subscriptions that have arrived, counted in order.                    *)
Counts ==
  [f \in Fields |->
    LET count[i \in 0..Len(requests)] ==
          IF i = 0 THEN subscribers[f]
          ELSE IF requests[i][2] # f THEN count[i - 1]
          ELSE IF requests[i][1] THEN count[i - 1] + 1
          ELSE IF count[i - 1] > 0 THEN count[i - 1] - 1 ELSE 0
    IN count[Len(requests)]]

(* The new subscribers of a field: a thread is started for each.             *)
Joiners(f) == Cardinality({i \in DOMAIN requests : requests[i] = <<TRUE, f>>})

Delivered(counts) == {f \in clientPaths : linked /\ counts[f] > 0}

(* handle_update sends one message after the other to who is subscribed. The *)
(* socket drops what does not fit, unless the client reads in between.       *)
SendAll(messages, counts) ==
  LET passing == {i \in DOMAIN messages :
                    port # 0 /\ messages[i].field \in Delivered(counts)}
      Fits(i) == backlog + Cardinality({j \in passing : j <= i}) <= SendLimit
      Of(S, f) == {i \in S : messages[i].field = f}
  IN \E accepted \in SUBSET passing :
       /\ {i \in passing : Fits(i)} \subseteq accepted
       /\ backlog' = Min({SendLimit, backlog + Cardinality(accepted)})
       /\ clientValue' = [f \in Fields |-> IF Of(accepted, f) = {} THEN clientValue[f]
                                           ELSE messages[Max(Of(accepted, f))].value]
       /\ lost' = {f \in Fields : IF Of(passing, f) = {} THEN f \in lost
                                  ELSE Max(Of(passing, f)) \notin accepted}

(* tick(): try to bind again, or count the subscriptions and send the last   *)
(* value of the fields on the queue.                                         *)
TickStreamer ==
  /\ listener = "tick"
  /\ listener' = "receive"
  /\ IF snapshot = 0
     THEN UNCHANGED <<socketVars, streamerVars, clientValue, backlog, lost>>
     ELSE IF port = 0
     THEN /\ port' \in {0, snapshot}
          /\ UNCHANGED <<subscribers, requests, linked, streamerVars, clientValue, backlog,
                         lost>>
     ELSE /\ subscribers' = Counts
          /\ requests' = <<>>
          /\ waiting' = [f \in Fields |-> waiting[f] + Joiners(f)]
          /\ republish' = <<>>
          /\ SendAll([i \in DOMAIN republish |->
                        [field |-> republish[i], value |-> lastValue[republish[i]]]], Counts)
          /\ UNCHANGED <<port, linked, lastValue>>
  /\ UNCHANGED <<registryVars, publisherVars, settingsVars, snapshot, changedPaths, outdated,
                 clientPaths, edits, unkept>>

(* handle_update: the last value on the socket for a field, or the one kept. *)
UpdatesOf(f) == {i \in 1..Len(bus) : bus[i].field = f}
LastOf(f) == IF UpdatesOf(f) = {} THEN lastValue[f]
             ELSE bus[CHOOSE i \in UpdatesOf(f) : \A j \in UpdatesOf(f) : j <= i].value

(* Whatever is on the inproc socket, in order, or nothing before the timeout.*)
ReceiveUpdates ==
  /\ listener = "receive"
  /\ listener' = "config"
  /\ bus' = <<>>
  /\ lastValue' = [f \in Fields |-> LastOf(f)]
  /\ SendAll(bus, subscribers)
  /\ UNCHANGED <<registryVars, previous, joined, settingsVars, snapshot, changedPaths,
                 outdated, socketVars, waiting, republish, clientPaths, edits, unkept>>

-----------------------------------------------------------------------------
PublishingNext ==
  \/ EditValue \/ TogglePublished \/ EditPublisher \/ ReplacePublisher \/ Notify
  \/ PublisherTick \/ ListenerJoins
  \/ ClientSubscribes \/ ClientConnects \/ DelayEnds \/ ClientReads
  \/ ReadSettings \/ HandleChanges \/ TickStreamer \/ ReceiveUpdates

PublishingSpec == PublishingInit /\ [][PublishingNext]_publishingVars

-----------------------------------------------------------------------------
(* When nothing is under way, a linked client has the current value of every *)
(* published field it subscribes to, whenever it subscribed and whatever     *)
(* sockets were replaced since: changes are sent once, a new subscriber gets *)
(* the value that is kept for it. The exceptions are fields that were sent   *)
(* before the listener itself had joined the publisher, and not changed      *)
(* since, which nobody has kept; and fields whose newest message did not fit *)
(* the socket, or whose path was overwritten by another thread in the queue. *)
QuietSubscriberIsCurrent ==
  /\ linked /\ joined /\ listener = "config"
  /\ requests = <<>> /\ waiting = Nothing /\ republish = <<>> /\ bus = <<>> /\ backlog = 0
  /\ \A f \in publishPaths : previous[f] = value[f]
  => \A f \in publishPaths \cap clientPaths :
       clientValue[f] = value[f] \/ f \in unkept \cup lost
=============================================================================
