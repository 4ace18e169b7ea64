---------------------------- MODULE PointStream ----------------------------
(***************************************************************************)
(* Point clouds over the network: the streaming thread of PointStreamer    *)
(* with its XPUB socket, and one client, the context of the pointreceiver  *)
(* library with its SUB socket and receive thread.                         *)
(*                                                                         *)
(* A pass of the streaming thread is one step: nobody else sees its state. *)
(* A cloud is the number of its version, 0 stands for none and for an      *)
(* empty one. Messages keep their order; a frame that does not fit in the  *)
(* queues of the sockets is dropped (`overrun'), and a cut connection      *)
(* loses what is on its way. After a cut the client's socket connects and  *)
(* subscribes again by itself.                                             *)
(***************************************************************************)
EXTENDS Naturals, Sequences, SequencesExt, FiniteSets

CONSTANTS
  Channels,           \* the addresses of sessions, devices and groups
  PublishEveryFrame,  \* publish_every_frame
  WireLimit,          \* frames that fit between the two sockets, per channel
  MaxMoves            \* bound: changes from outside

ASSUME StreamAssumption ==
  /\ IsFiniteSet(Channels)
  /\ PublishEveryFrame \in BOOLEAN /\ WireLimit \in Nat \ {0} /\ MaxMoves \in Nat

Everything == "*"                   \* the empty topic
Topics == Channels \cup {Everything}
Matches(topics, ch) == ch \in topics \/ Everything \in topics

VARIABLES
  cloud,       \* what collect_point_streams finds for each channel
  enabled,     \* the channels not switched off
  bound,       \* pub_socket has a value
  attempted,   \* send_high_water_mark of attempted_settings, 0 before the first pass
  counts,      \* subscriber_counts
  cached,      \* last_clouds and last_data, 0 for no entry
  up,          \* subscriptions on their way to the streamer, <<add?, topic>>
  wire,        \* frames on their way to the client, per channel
  connected,   \* the two sockets are connected
  receiving,   \* the client's point_cloud_worker runs
  wanted,      \* point_cloud_subscriptions
  applied,     \* the snapshot the receive thread has given its socket
  incoming,    \* incoming_cloud of each channel
  ready,       \* the channels with a pending frame, oldest timestamp first
  shown,       \* current_cloud of each channel
  moves,       \* changes from outside so far, also the newest version of a cloud
  overrun,     \* history: channels whose newest frame did not fit
  unheard      \* history: channels whose last frame, the empty one, never arrived

serverVars == <<bound, attempted, counts, cached>>
clientVars == <<receiving, wanted, applied, incoming, ready, shown>>
netVars == <<up, wire, connected>>
streamVars == <<cloud, enabled, serverVars, netVars, clientVars, moves, overrun, unheard>>

None == [ch \in Channels |-> 0]
StreamInit ==
  /\ cloud = None /\ enabled = Channels
  /\ bound = FALSE /\ attempted = 0
  /\ counts = [t \in Topics |-> 0] /\ cached = None
  /\ up = <<>> /\ wire = [ch \in Channels |-> <<>>] /\ connected = FALSE
  /\ receiving = FALSE /\ wanted = {} /\ applied = {}
  /\ incoming = None /\ ready = <<>> /\ shown = None
  /\ moves = 0 /\ overrun = {} /\ unheard = {}

Moved == moves < MaxMoves /\ moves' = moves + 1

-----------------------------------------------------------------------------
(* Outside: frames arrive at a source, or it has none any more; the user     *)
(* switches a channel on or off.                                             *)
SourceChanges ==
  /\ Moved
  /\ \E ch \in Channels, v \in {0, moves + 1} : cloud' = [cloud EXCEPT ![ch] = v]
  /\ UNCHANGED <<enabled, serverVars, netVars, clientVars, overrun, unheard>>

SwitchChannel ==
  /\ Moved
  /\ \E ch \in Channels :
       enabled' = IF ch \in enabled THEN enabled \ {ch} ELSE enabled \cup {ch}
  /\ UNCHANGED <<cloud, serverVars, netVars, clientVars, overrun, unheard>>

-----------------------------------------------------------------------------
(* One pass of the streaming thread.                                         *)
QueuedFrameLimit == IF enabled = {} THEN 2 ELSE 2 * Cardinality(enabled)

(* The subscriptions that have arrived, a prefix of those on their way.      *)
Counted(msgs) ==
  FoldLeft(LAMBDA n, msg : IF msg[1] THEN [n EXCEPT ![msg[2]] = @ + 1]
                           ELSE [n EXCEPT ![msg[2]] = IF @ > 0 THEN @ - 1 ELSE 0],
           counts, msgs)
(* Slip: only the topic of one channel is looked for, not the empty one.     *)
NewlyNamed(msgs) == {msg[2] : msg \in {m \in Range(msgs) : m[1]}} \ {Everything}
NewlySubscribed(msgs) == {msg[2] : msg \in {m \in Range(msgs) : m[1]}}

(* What is sent, once it is settled who listens (`now') and who is new.      *)
Send(now, fresh, linked) ==
  LET listening == {t \in Topics : now[t] > 0}
      publishing == {ch \in enabled : Matches(listening, ch)}
      stopped == {ch \in Channels : cached[ch] # 0 /\ ~(ch \in publishing /\ cloud[ch] # 0)}
      changed == stopped \cup {ch \in publishing : cloud[ch] # 0 /\ cloud[ch] # cached[ch]}
      framed == changed \cup {ch \in publishing : cached[ch] # 0}
      sent == {ch \in framed : PublishEveryFrame \/ ch \in changed \/ Matches(fresh, ch)}
      frameOf == [ch \in Channels |-> IF ch \in stopped THEN 0 ELSE cloud[ch]]
      heard == {ch \in sent : linked /\ Matches(listening, ch)}
      fits == {ch \in heard : Len(wire[ch]) < WireLimit}
  IN /\ cached' = [ch \in Channels |-> IF ch \in changed THEN frameOf[ch] ELSE cached[ch]]
     /\ wire' = [ch \in Channels |-> IF ~linked THEN <<>>
                                     ELSE IF ch \in fits THEN Append(wire[ch], frameOf[ch])
                                     ELSE wire[ch]]
     /\ overrun' = (overrun \ fits) \cup (heard \ fits)
     /\ unheard' = (unheard \ fits) \cup (stopped \ fits)
          \cup {ch \in Channels : ~linked /\ 0 \in Range(wire[ch])}

(* A pass that finds other socket settings, or is due to try again, replaces *)
(* the socket and forgets its subscribers; binding may fail.                 *)
Rebind ==
  /\ QueuedFrameLimit # attempted \/ ~bound
  /\ attempted' = QueuedFrameLimit
  /\ counts' = [t \in Topics |-> 0]
  /\ up' = <<>> /\ connected' = FALSE
  /\ \/ bound' = TRUE /\ UNCHANGED moves
     \/ bound' = FALSE /\ Moved
  /\ Send(counts', {}, FALSE)
  /\ UNCHANGED <<cloud, enabled, clientVars>>

Tick ==
  /\ QueuedFrameLimit = attempted
  /\ \E k \in 0..Len(up) :
       LET msgs == SubSeq(up, 1, k)
       IN /\ bound \/ k = 0
          /\ up' = SubSeq(up, k + 1, Len(up))
          /\ counts' = Counted(msgs)
          /\ Send(counts', NewlySubscribed(msgs), connected)
  /\ UNCHANGED <<cloud, enabled, bound, attempted, connected, clientVars, moves>>

-----------------------------------------------------------------------------
(* The network. A cut, seen by a missed heartbeat, unsubscribes the client   *)
(* at the streamer (xpub_verboser).                                          *)
CutOff ==
  /\ connected' = FALSE
  /\ up' = SetToSeq({<<FALSE, t>> : t \in {t \in Topics : counts[t] > 0}})
  /\ wire' = [ch \in Channels |-> <<>>]
  /\ unheard' = unheard \cup {ch \in Channels : 0 \in Range(wire[ch])}

Cut ==
  /\ connected /\ Moved
  /\ CutOff
  /\ UNCHANGED <<cloud, enabled, serverVars, clientVars, overrun>>

Subscriptions(topics, add) == SetToSeq({<<add, t>> : t \in topics})

Connect ==
  /\ bound /\ receiving /\ ~connected
  /\ connected' = TRUE
  /\ up' = up \o Subscriptions(applied, TRUE)
  /\ UNCHANGED <<cloud, enabled, serverVars, wire, clientVars, moves, overrun, unheard>>

-----------------------------------------------------------------------------
(* The client. A new receiver has a new socket, without subscriptions;       *)
(* stopping it forgets every frame.                                          *)
StartReceiver ==
  /\ ~receiving /\ Moved
  /\ receiving' = TRUE
  /\ applied' = {}
  /\ UNCHANGED <<cloud, enabled, serverVars, netVars, wanted, incoming, ready, shown,
                 overrun, unheard>>

StopReceiver ==
  /\ receiving /\ Moved
  /\ receiving' = FALSE
  /\ incoming' = None /\ shown' = None /\ ready' = <<>>
  /\ IF connected THEN CutOff ELSE UNCHANGED <<netVars, unheard>>
  /\ UNCHANGED <<cloud, enabled, serverVars, wanted, applied, overrun>>

Subscribe ==
  /\ Moved
  /\ \E t \in Topics : wanted' \in {wanted \cup {t}, wanted \ {t}}
  /\ UNCHANGED <<cloud, enabled, serverVars, netVars, receiving, applied, incoming, ready,
                 shown, overrun, unheard>>

(* The receive thread: give the socket the subscriptions that changed, and   *)
(* take the newest frame of a channel, which is then the newest of all that  *)
(* wait to be dequeued.                                                      *)
SyncSubscriptions ==
  /\ receiving /\ applied # wanted
  /\ applied' = wanted
  /\ up' = IF connected
           THEN up \o Subscriptions(wanted \ applied, TRUE)
                   \o Subscriptions(applied \ wanted, FALSE)
           ELSE up
  /\ UNCHANGED <<cloud, enabled, serverVars, wire, connected, receiving, wanted, incoming,
                 ready, shown, moves, overrun, unheard>>

(* The channels that wait, oldest timestamp first, without one.              *)
Others(queue, ch) ==
  LET others[n \in 0..Len(queue)] ==
        IF n = 0 THEN <<>>
        ELSE IF queue[n] # ch THEN Append(others[n - 1], queue[n]) ELSE others[n - 1]
  IN others[Len(queue)]

Receive(ch) ==
  /\ receiving /\ wire[ch] # <<>>
  /\ wire' = [wire EXCEPT ![ch] = <<>>]
  /\ IF Matches(applied, ch)
     THEN /\ incoming' = [incoming EXCEPT ![ch] = Last(wire[ch])]
          /\ ready' = Append(Others(ready, ch), ch)
          /\ UNCHANGED unheard
     ELSE /\ unheard' = IF 0 \in Range(wire[ch]) THEN unheard \cup {ch} ELSE unheard
          /\ UNCHANGED <<incoming, ready>>
  /\ UNCHANGED <<cloud, enabled, serverVars, up, connected, receiving, wanted, applied,
                 shown, moves, overrun>>

DequeuePointCloud ==
  /\ ready # <<>>
  /\ shown' = [shown EXCEPT ![Head(ready)] = incoming[Head(ready)]]
  /\ ready' = Tail(ready)
  /\ UNCHANGED <<cloud, enabled, serverVars, netVars, receiving, wanted, applied, incoming,
                 moves, overrun, unheard>>

-----------------------------------------------------------------------------
StreamNext ==
  \/ SourceChanges \/ SwitchChannel \/ Rebind \/ Tick \/ Cut \/ Connect
  \/ StartReceiver \/ StopReceiver \/ Subscribe \/ SyncSubscriptions
  \/ \E ch \in Channels : Receive(ch)
  \/ DequeuePointCloud

StreamSpec == StreamInit /\ [][StreamNext]_streamVars

-----------------------------------------------------------------------------
Source(ch) == IF ch \in enabled THEN cloud[ch] ELSE 0

(* Nothing is under way: the client is connected, nothing is in a queue, and *)
(* the streaming thread has passed since anything changed.                   *)
QuietStream ==
  /\ bound /\ connected /\ receiving /\ applied = wanted
  /\ up = <<>> /\ ready = <<>> /\ \A ch \in Channels : wire[ch] = <<>>
  /\ QueuedFrameLimit = attempted
  /\ \A ch \in Channels :
       cached[ch] = IF Matches(wanted, ch) THEN Source(ch) ELSE 0

(* When nothing is under way, the client has the current cloud of every      *)
(* channel it subscribes to, whatever was cut, stopped or subscribed before: *)
(* a frame is sent only when the cloud changed or a subscriber is new, and   *)
(* that is enough, unless the queues had overflowed. A channel without a     *)
(* cloud shows none, unless its last frame reached nobody.                   *)
QuietClientIsCurrent ==
  QuietStream => \A ch \in Channels : Matches(wanted, ch) =>
    \/ shown[ch] = Source(ch)
    \/ ch \in overrun
    \/ ch \in unheard /\ Source(ch) = 0

(* point_streamer.cc:219 "any channel that was publishing, but isn't         *)
(* publishing any more sends one last empty pointcloud on its channel to     *)
(* clear the clients": when nothing is under way, a subscribed client shows  *)
(* nothing on a channel that has been switched off.                          *)
StoppedChannelsClear ==
  QuietStream => \A ch \in Channels :
    Matches(wanted, ch) /\ ch \notin enabled /\ ch \notin overrun => shown[ch] = 0
=============================================================================
