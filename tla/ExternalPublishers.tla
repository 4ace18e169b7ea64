-------------------------- MODULE ExternalPublishers --------------------------
(***************************************************************************)
(* Values on their way to other programs: the MQTT client and the OSC      *)
(* sender, each run by its own WorkspaceListener thread. The two never     *)
(* meet, so a behaviour follows one of them, chosen at the start.          *)
(*                                                                         *)
(* Published values are lists (boxes, positions) of one type; a value is   *)
(* its length and the number of its update. A target stands for a broker   *)
(* and client id, or for a host and port. What a destination has is the    *)
(* length it was told and the update each element came from: MQTT sends a  *)
(* list as one message, OSC its length and then each element, every one a  *)
(* datagram that arrives in order or not at all. Encodings are left out,   *)
(* and so is a null list, which is passed over.                            *)
(***************************************************************************)
EXTENDS Naturals, FiniteSets, FiniteSetsExt

CONSTANTS
  Published,       \* published paths
  Targets,         \* where a publisher can be pointed, not 0
  Lengths,         \* lengths of the published lists
  CloudLimit,      \* max(1, max_cloud_points)
  Starting,        \* the configurations in the files that are opened
  MaxUpdates,      \* bound: updates handled
  MaxTroubles      \* bound: edits of the settings and lost connections

Modes == {"Ignore", "PublishEmptyOnce", "PublishEmptyAlways"}
Options == [target : Targets \cup {0}, mode : Modes, auto : BOOLEAN]

ASSUME ExternalAssumption ==
  /\ IsFiniteSet(Published) /\ Targets \subseteq Nat \ {0}
  /\ Lengths \subseteq Nat /\ \E longest \in Lengths : \A l \in Lengths : longest >= l
  /\ CloudLimit \in Nat \ {0}
  /\ Starting \subseteq Options
  /\ MaxUpdates \in Nat /\ MaxTroubles \in Nat

VARIABLES
  publisher,     \* which of the two this behaviour follows
  options,       \* its configuration: [target (0: not enabled), mode, auto]
  unnotified,    \* the configuration was written, the registry not yet notified
  changedOptions,\* _changed_paths is not empty
  turn,          \* the listener: "config", "changes", "tick" or "receive"
  taken,         \* the snapshot of this turn
  link,          \* _connection, by its target, 0 for none
  online,        \* it is connected
  again,         \* _auto_reconnect
  silent,        \* has_published_empty_once
  silencer,      \* history: topics left empty by what set it, in the present connection
  destination,   \* what each target has: [length, parts] per topic
  meant,         \* history: the last value given for a topic, [length, update]
  unsure,        \* history: topics it may not have the last value of, in this connection
  behind,        \* history: a change was taken with older settings, or told to nobody
  updates, troubles

optionVars == <<options, unnotified, changedOptions, behind>>
linkVars == <<link, online, again>>
silenceVars == <<silent, silencer>>
destinationVars == <<destination, meant, unsure>>
externalVars == <<publisher, optionVars, turn, taken, linkVars, silenceVars, destinationVars,
                  updates, troubles>>

Longest == Max(Lengths)
Untold == [length |-> 0, parts |-> [i \in 1..Longest |-> 0]]
ExternalInit ==
  /\ publisher \in {"mqtt", "osc"}
  /\ options \in Starting /\ unnotified = FALSE /\ changedOptions = TRUE /\ behind = FALSE
  /\ turn = "config" /\ taken = options
  /\ link = 0 /\ online = FALSE /\ again = TRUE
  /\ silent = FALSE /\ silencer = {}
  /\ destination = [t \in Targets |-> [p \in Published |-> Untold]]
  /\ meant = [p \in Published |-> [length |-> 0, update |-> 0]] /\ unsure = Published
  /\ updates = 0 /\ troubles = 0

(* An edit changes one field, and so does its undo.                          *)
OneFieldOff(o) == {o2 \in Options : Cardinality({f \in DOMAIN o : o[f] # o2[f]}) = 1}
Troubled == troubles < MaxTroubles /\ troubles' = troubles + 1

-----------------------------------------------------------------------------
(* The user. An edit is written, then notified; undo, redo and loading a     *)
(* file replace the configuration and notify nobody.                         *)
EditOptions ==
  /\ ~unnotified /\ Troubled
  /\ options' \in OneFieldOff(options)
  /\ unnotified' = TRUE
  /\ UNCHANGED <<publisher, changedOptions, behind, turn, taken, linkVars, silenceVars,
                 destinationVars, updates>>

ReplaceOptions ==
  /\ ~unnotified /\ Troubled
  /\ options' \in OneFieldOff(options)
  /\ behind' = TRUE
  /\ UNCHANGED <<publisher, unnotified, changedOptions, turn, taken, linkVars, silenceVars,
                 destinationVars, updates>>

NotifyOptions ==
  /\ unnotified
  /\ unnotified' = FALSE /\ changedOptions' = TRUE
  /\ UNCHANGED <<publisher, options, behind, turn, taken, linkVars, silenceVars,
                 destinationVars, updates, troubles>>

-----------------------------------------------------------------------------
(* The listener. dispatch_config_changes reads the configuration and then    *)
(* takes the paths that changed.                                             *)
ReadOptions ==
  /\ turn = "config"
  /\ taken' = options /\ turn' = "changes"
  /\ UNCHANGED <<publisher, optionVars, linkVars, silenceVars, destinationVars, updates,
                 troubles>>

(* What a connection brings with it: the destination knows nothing yet, and  *)
(* the flag of the thread stays as the last connection left it.              *)
Reconnected == unsure' = Published /\ silencer' = {}

(* A new connection: the broker may be out of reach, and the target may not  *)
(* even make sense.                                                          *)
ConnectTo(target) ==
  /\ link' \in {0, target}
  /\ online' \in IF link' = 0 THEN {FALSE} ELSE IF publisher = "osc" THEN {TRUE} ELSE BOOLEAN
  /\ Reconnected

HandleConfigChange ==
  /\ again' = taken.auto
  /\ IF taken.target = 0 THEN link' = 0 /\ online' = FALSE /\ Reconnected
     ELSE IF link = taken.target THEN UNCHANGED <<link, online, silencer, unsure>>
     ELSE ConnectTo(taken.target)

TakeChanges ==
  /\ turn = "changes"
  /\ turn' = "tick"
  /\ changedOptions' = FALSE
  /\ IF changedOptions
     THEN HandleConfigChange /\ behind' = (taken # options)
     ELSE UNCHANGED <<linkVars, silencer, unsure, behind>>
  /\ UNCHANGED <<publisher, options, unnotified, taken, silent, destination, meant, updates,
                 troubles>>

(* tick() and try_connect(), which waits for its interval. OSC has none.     *)
TickPublisher ==
  /\ turn = "tick"
  /\ turn' = "receive"
  /\ \/ UNCHANGED <<online, silencer, unsure>>
     \/ /\ publisher = "mqtt" /\ again /\ link # 0 /\ ~online
        /\ online' = TRUE /\ Reconnected
  /\ UNCHANGED <<publisher, optionVars, taken, link, again, silent, destination, meant,
                 updates, troubles>>

BrokerLost ==
  /\ publisher = "mqtt" /\ online /\ Troubled
  /\ online' = FALSE
  /\ UNCHANGED <<publisher, optionVars, turn, taken, link, again, silenceVars,
                 destinationVars, updates>>

-----------------------------------------------------------------------------
(* MQTT: the whole list, in place of what the broker had.                    *)
Arrived(p, length) ==
  destination' = [destination EXCEPT ![link][p] =
    [length |-> length, parts |-> [i \in 1..Longest |-> IF i <= length THEN updates + 1 ELSE 0]]]

Told(p, length) ==
  /\ meant' = [meant EXCEPT ![p] = [length |-> length, update |-> updates + 1]]
  /\ unsure' = unsure \ {p}
NotTold(p) == unsure' = unsure \cup {p} /\ UNCHANGED meant
Missed(p) == NotTold(p) /\ UNCHANGED destination

Delivery(p, length) ==
  /\ Arrived(p, length) /\ Told(p, length)
  /\ silent' = (length = 0 /\ (silent \/ taken.mode = "PublishEmptyOnce"))
  /\ silencer' = IF length = 0 THEN silencer \cup {p} ELSE {}

(* Slip: the flag is set before the message is out.                          *)
PublishFlagged(p, length) ==
  \/ Delivery(p, length)
  \/ /\ Missed(p)
     /\ silent' = (length = 0 /\ taken.mode = "PublishEmptyOnce")
     /\ silencer' = IF length = 0 THEN {p} ELSE {}
(* publish() may throw, and the flag is then left alone. A publish that was  *)
(* not done in 2 s throws as well, and its message goes out all the same, in *)
(* any case before the next one.                                             *)
Publish(p, length) ==
  \/ Delivery(p, length)
  \/ /\ Arrived(p, length) \/ UNCHANGED destination
     /\ NotTold(p)
     /\ silencer' = silencer \ {p} /\ UNCHANGED silent

Publishes(length) ==
  \/ length # 0
  \/ taken.mode = "PublishEmptyAlways"
  \/ taken.mode = "PublishEmptyOnce" /\ ~silent

(* An empty list that is not published. The flag is the thread's, shared by  *)
(* all topics of the type and by one connection after the other: when it was *)
(* set for another one, this topic has not been told.                        *)
Withheld(p) ==
  /\ IF taken.mode = "Ignore" THEN UNCHANGED destinationVars
     ELSE IF p \in silencer
     THEN /\ meant' = [meant EXCEPT ![p] = [length |-> 0, update |-> updates + 1]]
          /\ unsure' = unsure \ {p} /\ UNCHANGED destination
     ELSE Missed(p)
  /\ UNCHANGED silenceVars

(* OSC: the length, then each element up to the limit; each send may fail or *)
(* its datagram be lost, by itself, and what arrives takes the place of what *)
(* was there.                                                                *)
SendElements(p, length) ==
  LET sends == Min({length, CloudLimit})
  IN \E lengthIn \in BOOLEAN, reached \in SUBSET (1..sends) :
       /\ destination' = [destination EXCEPT ![link][p] =
            [length |-> IF lengthIn THEN sends ELSE @.length,
             parts |-> [i \in 1..Longest |-> IF i \in reached THEN updates + 1
                                             ELSE @.parts[i]]]]
       /\ IF lengthIn /\ reached = 1..sends THEN Told(p, sends) ELSE NotTold(p)
       /\ UNCHANGED silenceVars

HandleUpdate(p) ==
  /\ turn = "receive" /\ updates < MaxUpdates
  /\ updates' = updates + 1
  /\ \E length \in Lengths :
       IF link = 0 \/ ~online THEN Missed(p) /\ UNCHANGED silenceVars
       ELSE IF publisher = "osc" THEN SendElements(p, length)
       ELSE IF Publishes(length) THEN Publish(p, length)
       ELSE Withheld(p)
  /\ UNCHANGED <<publisher, optionVars, turn, taken, linkVars, troubles>>

(* No update before the timeout, or no more behind the last one.             *)
NoMoreUpdates ==
  /\ turn = "receive"
  /\ turn' = "config"
  /\ UNCHANGED <<publisher, optionVars, taken, linkVars, silenceVars, destinationVars,
                 updates, troubles>>

-----------------------------------------------------------------------------
ExternalNext ==
  \/ EditOptions \/ ReplaceOptions \/ NotifyOptions
  \/ ReadOptions \/ TakeChanges \/ TickPublisher \/ BrokerLost
  \/ \E p \in Published : HandleUpdate(p)
  \/ NoMoreUpdates

ExternalSpec == ExternalInit /\ [][ExternalNext]_externalVars

-----------------------------------------------------------------------------
(* While no change of the settings is under way, a connection leads where    *)
(* the settings say, and its destination has the last value of every topic   *)
(* it was told of since it is connected: the length, and elements of that    *)
(* very update. Empty lists are no values in mode Ignore; in mode            *)
(* PublishEmptyOnce one that is not sent was sent before. Exempt are         *)
(* settings taken between two readings or told to nobody; topics whose last  *)
(* message threw, timed out or lost a datagram; and topics that were         *)
(* silenced by another topic of their type, by an earlier connection, or     *)
(* although a message of theirs may have gone out after the empty list.      *)
DestinationsAreCurrent ==
  /\ turn = "config" /\ ~changedOptions /\ ~unnotified /\ ~behind
  /\ link # 0 /\ online
  => /\ link = options.target
     /\ \A p \in Published \ unsure :
          LET has == destination[link][p]
          IN /\ has.length = meant[p].length
             /\ \A i \in 1..has.length : has.parts[i] = meant[p].update
=============================================================================
