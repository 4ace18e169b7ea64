--------------------------- MODULE MessageReceiver ---------------------------
(***************************************************************************)
(* The message half of the pointreceiver library: one context, its receive *)
(* thread with a SUB socket, the queue behind it, and a client that        *)
(* subscribes, starts, stops and dequeues from one thread.                 *)
(*                                                                         *)
(* At the other end is a message streamer: it sends a value when it        *)
(* changes, and once more 200 ms after a subscription has reached it. A    *)
(* value is the number of its change; Garbled is one the library cannot    *)
(* read. The two parts of a message arrive together, so a message is a     *)
(* pair of topic and value. What finds MailLimit messages between the      *)
(* sockets (sndhwm and rcvhwm, 32 each) is dropped.                        *)
(***************************************************************************)
EXTENDS Naturals, Sequences, SequencesExt, FiniteSets

CONSTANTS
  Readable,        \* addresses whose values dequeue can hand out: bool, int, float
  Unreadable,      \* addresses whose values it cannot
  MaxChanges,      \* bound: changes of values and calls of the client
  MailLimit,       \* messages there is room for between the sockets
  MaxMail          \* bound: messages in the queue

Paths == Readable \cup Unreadable
AllPaths == "every path"          \* the empty address
Garbled == 0
NoSnapshot == {"no snapshot"}     \* a null SubscriptionSnapshot

ASSUME ReceiverAssumption ==
  /\ IsFiniteSet(Readable) /\ IsFiniteSet(Unreadable) /\ Readable \cap Unreadable = {}
  /\ AllPaths \notin Paths /\ NoSnapshot \cap Paths = {}
  /\ MaxChanges \in Nat /\ MailLimit \in Nat /\ MaxMail \in Nat

VARIABLES
  asks,        \* message_subscriptions
  synced,      \* the snapshot the receive thread works with
  filter,      \* the subscriptions of its socket
  tidings,     \* changes of them on their way to the streamer, <<add?, path>>
  reach,       \* the subscriptions it knows of
  owed,        \* threads of it that wait 200 ms, for each address subscribed to
  due,         \* republish_paths: addresses whose last value it will send again
  mail,        \* messages between the sockets
  dropped,     \* history: paths whose newest message, or turn to be sent again, was lost
  inbox,       \* message_queue
  told,        \* per address the value the client dequeued last, 0 for none
  refusals,    \* the last call to dequeue returned DECODE_FAILED
  place,       \* the receive thread: "none", "sync", "wait", "drain" or "ended"
  halting,     \* message_stopping
  caller,      \* the client: "free", or "joins" inside stop
  sent,        \* per path the newest value of the streamer
  changes

subscriptionState == <<asks, synced, filter, tidings, reach, owed, due>>
mailState == <<mail, dropped>>
receiverVars == <<subscriptionState, mailState, inbox, told, refusals, place, halting,
                  caller, sent, changes>>

ReceiverInit ==
  /\ asks = {} /\ synced = NoSnapshot /\ filter = {} /\ tidings = <<>> /\ reach = {}
  /\ owed = [p \in Paths \cup {AllPaths} |-> 0] /\ due = <<>>
  /\ mail = <<>> /\ dropped = {} /\ inbox = <<>>
  /\ told = [p \in Paths |-> 0] /\ refusals = FALSE
  /\ place = "none" /\ halting = FALSE /\ caller = "free"
  /\ sent = [p \in Paths |-> 0] /\ changes = 0

Wanted(topics, p) == p \in topics \/ AllPaths \in topics
Changed == changes < MaxChanges /\ changes' = changes + 1
Running == place # "none"         \* message_worker.joinable()
Called == caller = "free" /\ Changed

-----------------------------------------------------------------------------
(* The streamer. The sockets drop a message there is no room for.            *)
Mailed(p, v) ==
  IF ~Wanted(reach, p) THEN UNCHANGED mailState
  ELSE IF Len(mail) < MailLimit
  THEN /\ mail' = Append(mail, <<p, v>>)
       /\ dropped' = IF v = Garbled THEN dropped ELSE dropped \ {p}
  ELSE /\ UNCHANGED mail
       /\ dropped' = IF v = Garbled THEN dropped ELSE dropped \cup {p}

ValueChanges ==
  /\ Changed
  /\ \E p \in Paths : sent' = [sent EXCEPT ![p] = changes + 1] /\ Mailed(p, changes + 1)
  /\ UNCHANGED <<subscriptionState, inbox, told, refusals, place, halting, caller>>

Garbles ==
  /\ Changed
  /\ \E p \in Paths : Mailed(p, Garbled)
  /\ UNCHANGED <<subscriptionState, inbox, told, refusals, place, halting, caller, sent>>

SubscriptionArrives ==
  /\ tidings # <<>>
  /\ tidings' = Tail(tidings)
  /\ LET add == Head(tidings)[1]  p == Head(tidings)[2]
     IN /\ reach' = IF add THEN reach \cup {p} ELSE reach \ {p}
        /\ owed' = IF add THEN [owed EXCEPT ![p] = @ + 1] ELSE owed
  /\ UNCHANGED <<asks, synced, filter, due, mailState, inbox, told, refusals, place, halting,
                 caller, sent, changes>>

(* A thread that has waited puts its address on a queue made for one         *)
(* producer: of two that do so at once, one may write over what the other    *)
(* has written. What is sent for the empty address names no path and is left *)
(* out.                                                                      *)
AnswerIsDue ==
  /\ \E p \in Paths \cup {AllPaths} :
       /\ owed[p] > 0
       /\ owed' = [owed EXCEPT ![p] = @ - 1]
       /\ \/ /\ due' = IF p = AllPaths THEN due ELSE Append(due, p)
             /\ UNCHANGED dropped
          \/ /\ \E q \in Paths \cup {AllPaths} : owed'[q] > 0
             /\ dropped' = dropped \cup ({p} \cap Paths)
             /\ UNCHANGED due
  /\ UNCHANGED <<asks, synced, filter, tidings, reach, mail, inbox, told, refusals, place,
                 halting, caller, sent, changes>>

LastValueSent ==
  /\ due # <<>>
  /\ due' = Tail(due)
  /\ IF sent[Head(due)] = 0 THEN UNCHANGED mailState ELSE Mailed(Head(due), sent[Head(due)])
  /\ UNCHANGED <<asks, synced, filter, tidings, reach, owed, inbox, told, refusals, place,
                 halting, caller, sent, changes>>

-----------------------------------------------------------------------------
(* The calls of the client.                                                  *)
SubscribeToMessage ==
  /\ Called
  /\ \E p \in (Paths \cup {AllPaths}) \ asks : asks' = asks \cup {p}
  /\ UNCHANGED <<synced, filter, tidings, reach, owed, due, mailState, inbox, told, refusals,
                 place, halting, caller, sent>>

UnsubscribeFromMessage ==
  /\ Called
  /\ \E p \in asks : asks' = asks \ {p}
  /\ UNCHANGED <<synced, filter, tidings, reach, owed, due, mailState, inbox, told, refusals,
                 place, halting, caller, sent>>

(* Slip: the snapshot belongs to the context and outlives the socket.        *)
LaunchedWith(snapshot) == place' = "sync" /\ synced' = snapshot
(* A new thread, with a new socket and no snapshot.                          *)
Launched(snapshot) == place' = "sync" /\ synced' = NoSnapshot

(* An address that does not connect leaves everything as it is.              *)
StartMessageReceiver ==
  /\ Called /\ ~Running
  /\ Launched(synced)
  /\ halting' = FALSE
  /\ UNCHANGED <<asks, filter, tidings, reach, owed, due, mailState, inbox, told, refusals,
                 caller, sent>>

StopMessageReceiver ==
  /\ Called /\ Running
  /\ halting' = TRUE /\ caller' = "joins"
  /\ UNCHANGED <<subscriptionState, mailState, inbox, told, refusals, place, sent>>

Joined ==
  /\ caller = "joins" /\ place = "ended"
  /\ caller' = "free" /\ place' = "none"
  /\ UNCHANGED <<subscriptionState, mailState, inbox, told, refusals, halting, sent, changes>>

(* What is queued can be dequeued whether or not the thread runs.            *)
DequeueMessage ==
  /\ caller = "free" /\ inbox # <<>>
  /\ inbox' = Tail(inbox)
  /\ LET m == Head(inbox)
     IN IF m[1] \in Readable
        THEN told' = [told EXCEPT ![m[1]] = m[2]] /\ refusals' = FALSE
        ELSE told' = told /\ refusals' = TRUE
  /\ UNCHANGED <<subscriptionState, mailState, place, halting, caller, sent, changes>>

-----------------------------------------------------------------------------
(* message_receive_loop.                                                     *)
SyncFilter ==
  /\ place = "sync" /\ ~halting
  /\ synced' = asks
  /\ filter' = (filter \cup (asks \ synced)) \ (synced \ asks)
  /\ tidings' = tidings \o SetToSeq({<<TRUE, p>> : p \in filter' \ filter})
                        \o SetToSeq({<<FALSE, p>> : p \in filter \ filter'})
  /\ place' = "wait"
  /\ UNCHANGED <<asks, reach, owed, due, mailState, inbox, told, refusals, halting, caller,
                 sent, changes>>

(* The socket closes with the thread, and what was on its way is lost; the   *)
(* threads of the streamer, and its queue, stay.                             *)
LoopEnds ==
  /\ place = "sync" /\ halting
  /\ place' = "ended"
  /\ filter' = {} /\ tidings' = <<>> /\ reach' = {} /\ mail' = <<>>
  /\ UNCHANGED <<asks, synced, owed, due, dropped, inbox, told, refusals, halting, caller,
                 sent, changes>>

(* The first message is waited for, those behind it are taken while there    *)
(* are any. The socket itself passes over what it no longer subscribes to.   *)
ReceiveMessage ==
  /\ place \in {"wait", "drain"} /\ mail # <<>> /\ Len(inbox) < MaxMail
  /\ mail' = Tail(mail)
  /\ LET m == Head(mail)
     IN /\ inbox' = IF Wanted(filter, m[1]) /\ m[2] # Garbled THEN Append(inbox, m) ELSE inbox
        /\ place' = IF Wanted(filter, m[1]) THEN "drain" ELSE place
  /\ UNCHANGED <<subscriptionState, dropped, told, refusals, halting, caller, sent, changes>>

(* Nothing within 100 ms, or no more.                                        *)
NothingReceived ==
  /\ place \in {"wait", "drain"} /\ mail = <<>>
  /\ place' = "sync"
  /\ UNCHANGED <<subscriptionState, mailState, inbox, told, refusals, halting, caller, sent,
                 changes>>

(* An exception of the socket, caught inside the loop.                       *)
ReceiveThrows ==
  /\ place \in {"wait", "drain"} /\ Changed
  /\ place' = "sync"
  /\ UNCHANGED <<subscriptionState, mailState, inbox, told, refusals, halting, caller, sent>>

-----------------------------------------------------------------------------
ReceiverNext ==
  \/ ValueChanges \/ Garbles \/ SubscriptionArrives \/ AnswerIsDue \/ LastValueSent
  \/ SubscribeToMessage \/ UnsubscribeFromMessage
  \/ StartMessageReceiver \/ StopMessageReceiver \/ Joined \/ DequeueMessage
  \/ SyncFilter \/ LoopEnds \/ ReceiveMessage \/ NothingReceived \/ ReceiveThrows

ReceiverSpec == ReceiverInit /\ [][ReceiverNext]_receiverVars

-----------------------------------------------------------------------------
(* A client that has dequeued everything has the newest value of every       *)
(* address it subscribes to and that dequeue can hand out: whenever it       *)
(* subscribed, however often it stopped and started the receiver, and        *)
(* although the queue keeps values from before the stop. The exceptions are  *)
(* addresses whose newest value did not fit the sockets, or whose turn to be *)
(* sent again was overwritten in the streamer's queue.                       *)
QuietReceiverIsCurrent ==
  /\ place = "wait" /\ synced = asks /\ tidings = <<>>
  /\ (\A p \in Paths \cup {AllPaths} : owed[p] = 0) /\ due = <<>>
  /\ mail = <<>> /\ inbox = <<>>
  => \A p \in asks \cap Readable : told[p] = sent[p] \/ p \in dropped
=============================================================================
