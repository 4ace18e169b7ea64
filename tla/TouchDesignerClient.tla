------------------------ MODULE TouchDesignerClient ------------------------
(***************************************************************************)
(* The TouchDesigner plugin: operators (POPs) that share one connection.   *)
(* TouchDesigner cooks them one after the other on its main thread; the    *)
(* connection's worker takes frames from the pointreceiver library and     *)
(* publishes them from a pool per address. A frame of the pool may be      *)
(* written when nobody else holds it (use_count() == 1), which here means  *)
(* that it is neither published nor viewed.                                *)
(*                                                                         *)
(* The library below is the context's set of subscriptions: any address    *)
(* that was ever in it may have a frame at any time. The connection ends   *)
(* with the last operator that uses it, and the next one starts anew. The  *)
(* pool's cursor, which only prefers one free frame to another, and the    *)
(* numbers shown as statistics are left out.                               *)
(***************************************************************************)
EXTENDS Naturals, FiniteSets

CONSTANTS
  Operators,       \* the POPs
  Addresses,       \* the addresses they can be set to
  PoolSize,        \* frame_pool_size
  MaxArrivals,     \* bound: frames with points taken from the library
  MaxCooks         \* bound: changes of a parameter

ASSUME ClientAssumption ==
  /\ IsFiniteSet(Operators) /\ IsFiniteSet(Addresses)
  /\ "cook" \notin Operators /\ "off" \notin Addresses
  /\ PoolSize \in Nat \ {0, 1} /\ MaxArrivals \in Nat /\ MaxCooks \in Nat

Slots == 1..PoolSize
Off == "off"                      \* an operator without a subscription
Torn == [sequence |-> 0, points |-> 0]
EmptyPools == [a \in Addresses |-> [s \in Slots |-> Torn]]

VARIABLES
  address,       \* per operator, the address of its _channel_subscription, or Off
  lastSeen,      \* _last_seen_sequence
  drawn,         \* the points it outputs: the number of their arrival, 0 for none
  bare,          \* the operators whose buffers were made anew and hold no frame yet
  refs,          \* channel_refcounts
  subscribed,    \* the subscriptions of pointreceiver_ctx
  heard,         \* every address this context was ever subscribed to
  pool,          \* per address, the frames of its pool
  published,     \* per address, the published frame, 0 for none
  received,      \* frames_received, which numbers the frames
  write,         \* the frame the worker writes, <<address, slot>>, or <<>>
  alive,         \* the worker runs
  view,          \* the frame the main thread copies: [op, at, slot, frame], or <<>>
  main,          \* the main thread: "cook", or a stage of reconnect()
  arrivals, cooks

operatorVars == <<address, lastSeen, drawn, bare>>
channelVars == <<pool, published, received>>
subscriptionVars == <<refs, subscribed, heard>>
clientSideVars == <<operatorVars, channelVars, subscriptionVars, write, alive, view, main,
                    arrivals, cooks>>

ClientInit ==
  /\ address = [op \in Operators |-> Off]
  /\ lastSeen = [op \in Operators |-> 0] /\ drawn = [op \in Operators |-> 0]
  /\ bare = {}
  /\ refs = [a \in Addresses |-> 0] /\ subscribed = {}
  /\ heard = {}
  /\ pool = EmptyPools
  /\ published = [a \in Addresses |-> 0] /\ received = [a \in Addresses |-> 0]
  /\ write = <<>> /\ alive = TRUE /\ view = <<>> /\ main = "cook"
  /\ arrivals = 0 /\ cooks = 0

Cooking == main = "cook" /\ view = <<>>

-----------------------------------------------------------------------------
(* Slip: the first operator to leave takes the subscription with it.         *)
ReleasedForAll(counts, a) == IF a = Off THEN counts ELSE [counts EXCEPT ![a] = 0]
(* add_channel_ref for the new address, then remove_channel_ref for the old. *)
Released(counts, a) == IF a = Off THEN counts ELSE [counts EXCEPT ![a] = @ - 1]
Acquired(counts, a) == IF a = Off THEN counts ELSE [counts EXCEPT ![a] = @ + 1]
Referenced(counts) == {a \in Addresses : counts[a] > 0}

(* ~ConnectionState joins the worker first.                                  *)
ConnectionEnds ==
  /\ write = <<>>
  /\ pool' = EmptyPools
  /\ published' = [a \in Addresses |-> 0] /\ received' = [a \in Addresses |-> 0]

SetAddress(op) ==
  /\ Cooking /\ cooks < MaxCooks
  /\ cooks' = cooks + 1
  /\ \E a \in (Addresses \cup {Off}) \ {address[op]} :
       /\ address' = [address EXCEPT ![op] = a]
       /\ refs' = Released(Acquired(refs, a), address[op])
       /\ subscribed' = (subscribed \cup ({a} \ {Off}))
                          \ {b \in {address[op]} \cap Addresses : refs'[b] = 0}
       /\ heard' = IF Referenced(refs') = {} THEN {} ELSE heard \cup subscribed'
       /\ drawn' = IF a = Off THEN [drawn EXCEPT ![op] = 0] ELSE drawn
  /\ lastSeen' = [lastSeen EXCEPT ![op] = 0]
  /\ IF Referenced(refs') = {} THEN ConnectionEnds ELSE UNCHANGED channelVars
  /\ UNCHANGED <<bare, write, alive, view, main, arrivals>>

(* ensureMainThreadBuffersAllocated, for another Max Points Capacity: the    *)
(* buffers are made anew, with nothing in them, and the frame that was in    *)
(* them still counts as seen.                                                *)
SetCapacity(op) ==
  /\ Cooking /\ cooks < MaxCooks
  /\ cooks' = cooks + 1
  /\ bare' = bare \cup {op}
  /\ UNCHANGED <<address, lastSeen, drawn, channelVars, subscriptionVars, write, alive, view,
                 main, arrivals>>

(* try_get_latest_frame, then the copy into the operator's buffers.          *)
Look(op) ==
  /\ Cooking /\ address[op] # Off
  /\ LET a == address[op]  slot == published[a]
     IN /\ slot # 0
        /\ pool[a][slot].sequence \notin {0, lastSeen[op]}
        /\ view' = [op |-> op, at |-> a, slot |-> slot, frame |-> pool[a][slot]]
  /\ UNCHANGED <<operatorVars, channelVars, subscriptionVars, write, alive, main, arrivals,
                 cooks>>

Copy ==
  /\ view # <<>>
  /\ lastSeen' = [lastSeen EXCEPT ![view.op] = view.frame.sequence]
  /\ drawn' = [drawn EXCEPT ![view.op] = pool[view.at][view.slot].points]
  /\ bare' = bare \ {view.op}
  /\ view' = <<>>
  /\ UNCHANGED <<address, channelVars, subscriptionVars, write, alive, main, arrivals, cooks>>

(* The frame has more points than the buffers, or TouchDesigner has not      *)
(* mapped them: it is not taken, and not counted as seen.                    *)
PassOver ==
  /\ view # <<>> /\ view' = <<>>
  /\ UNCHANGED <<operatorVars, channelVars, subscriptionVars, write, alive, main, arrivals,
                 cooks>>

-----------------------------------------------------------------------------
(* reconnect(), on the main thread: the worker is joined, the context is     *)
(* replaced by one without subscriptions, the worker starts again, the       *)
(* subscriptions are replayed, and what was published is withdrawn. The      *)
(* operator that was asked to then drops its own subscription and takes it   *)
(* anew.                                                                     *)
Reconnect(op) ==
  /\ Cooking /\ address[op] # Off /\ write = <<>> /\ cooks < MaxCooks
  /\ cooks' = cooks + 1
  /\ alive' = FALSE
  /\ subscribed' = {} /\ heard' = {}
  /\ main' = op
  /\ UNCHANGED <<operatorVars, channelVars, refs, write, view, arrivals>>

Restart ==
  /\ main \in Operators /\ ~alive
  /\ alive' = TRUE
  /\ UNCHANGED <<operatorVars, channelVars, subscriptionVars, write, view, main, arrivals,
                 cooks>>

Replay ==
  /\ main \in Operators /\ alive /\ subscribed # Referenced(refs)
  /\ subscribed' = Referenced(refs) /\ heard' = subscribed'
  /\ UNCHANGED <<operatorVars, channelVars, refs, write, alive, view, main, arrivals, cooks>>

Withdraw ==
  /\ main \in Operators /\ alive /\ subscribed = Referenced(refs)
  /\ published' = [a \in Addresses |-> 0]
  /\ lastSeen' = [lastSeen EXCEPT ![main] = 0]
  /\ main' = "cook"
  /\ UNCHANGED <<address, drawn, bare, pool, received, subscriptionVars, write, alive, view,
                 arrivals, cooks>>

-----------------------------------------------------------------------------
(* Slip: only the published frame counts as in use.                          *)
HeldByWorker(a) == {published[a]}
(* The worker. A frame without points is passed over, and so is one that     *)
(* finds no free frame in the pool.                                          *)
Held(a) == {published[a]} \cup (IF view # <<>> /\ view.at = a THEN {view.slot} ELSE {})

WriteInto(a, slot) ==
  /\ alive /\ write = <<>> /\ a \in heard /\ arrivals < MaxArrivals
  /\ slot \notin Held(a)
  /\ write' = <<a, slot>>
  /\ pool' = [pool EXCEPT ![a][slot] = Torn]
  /\ UNCHANGED <<operatorVars, published, received, subscriptionVars, alive, view, main,
                 arrivals, cooks>>

PublishFrame ==
  /\ write # <<>>
  /\ arrivals' = arrivals + 1
  /\ received' = [received EXCEPT ![write[1]] = @ + 1]
  /\ pool' = [pool EXCEPT ![write[1]][write[2]] =
                [sequence |-> received[write[1]] + 1, points |-> arrivals + 1]]
  /\ published' = [published EXCEPT ![write[1]] = write[2]]
  /\ write' = <<>>
  /\ UNCHANGED <<operatorVars, subscriptionVars, alive, view, main, cooks>>

-----------------------------------------------------------------------------
ClientNext ==
  \/ \E op \in Operators : SetAddress(op) \/ SetCapacity(op) \/ Look(op) \/ Reconnect(op)
  \/ Copy \/ PassOver \/ Restart \/ Replay \/ Withdraw
  \/ \E a \in Addresses, slot \in Slots : WriteInto(a, slot)
  \/ PublishFrame

ClientSpec == ClientInit /\ [][ClientNext]_clientSideVars

-----------------------------------------------------------------------------
(* What an operator copies is the whole frame it was given, although the     *)
(* worker goes on publishing, and writing, while it copies. And an operator  *)
(* that takes the published frame for the one it has seen has drawn exactly  *)
(* that frame, although another operator may have reconnected the connection *)
(* they share: the frames go on being numbered where they were. Excepted is  *)
(* an operator whose buffers were made anew for another capacity, until it   *)
(* copies a frame again: it draws unwritten points for the frame it has seen. *)
OperatorsDrawWholeFrames ==
  /\ view # <<>> => pool[view.at][view.slot] = view.frame
  /\ \A op \in Operators :
       op \notin bare /\ address[op] # Off /\ published[address[op]] # 0 =>
         LET frameNow == pool[address[op]][published[address[op]]]
         IN lastSeen[op] = frameNow.sequence => drawn[op] = frameNow.points

(* Whenever the main thread cooks, the context is subscribed to exactly the  *)
(* addresses of its operators: no reconnect, and no operator leaving an      *)
(* address another one still shows, takes the frames from anybody.           *)
OperatorsStaySubscribed ==
  main = "cook" => subscribed = {address[op] : op \in Operators} \ {Off}
=============================================================================
