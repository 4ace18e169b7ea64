---------------------------- MODULE Clients_proofs ----------------------------
(***************************************************************************)
(* Proofs about what the program sends to others, about the clients of the *)
(* pointreceiver library, and about the operator whose results are sent,   *)
(* for any operators, addresses, servers and messages, any size of the     *)
(* pool and every bound: TouchDesignerClient (operators draw whole frames, *)
(* and share their subscriptions without taking them from one another),    *)
(* MessageReceiver (a client catches up with what it subscribes to),       *)
(* MessageOperators (what has cooked shows the newest message),            *)
(* ValuePublishing (a subscriber has the current value of what is          *)
(* published), ClusterTracking (a cluster that was seen stays found) and   *)
(* PointStream (a client has the current cloud of what it subscribes to).  *)
(***************************************************************************)
EXTENDS TouchDesignerClient, MessageReceiver, MessageOperators, ValuePublishing,
        ClusterTracking, PointStream, FiniteSetTheorems, SequenceTheorems,
        WellFoundedInduction, TLAPS

-----------------------------------------------------------------------------
(* TouchDesignerClient.                                                      *)
PoolFrame == [sequence : Nat, points : Nat]
View == [op : Operators, at : Addresses, slot : Slots, frame : PoolFrame]

TypeOK ==
  /\ address \in [Operators -> Addresses \cup {Off}]
  /\ lastSeen \in [Operators -> Nat] /\ drawn \in [Operators -> Nat]
  /\ refs \in [Addresses -> Nat]
  /\ pool \in [Addresses -> [Slots -> PoolFrame]]
  /\ published \in [Addresses -> Slots \cup {0}] /\ received \in [Addresses -> Nat]
  /\ write \in {<<>>} \cup (Addresses \X Slots)
  /\ view \in {<<>>} \cup View
  /\ main \in Operators \cup {"cook"}
  /\ arrivals \in Nat

(* The counts are those of the operators, and while the main thread cooks   *)
(* the context is subscribed to what is counted.                            *)
UsersOf(a) == {op \in Operators : address[op] = a}
RefsInv == \A a \in Addresses : refs[a] = Cardinality(UsersOf(a))
SubscribedInv == main = "cook" => subscribed = Referenced(refs)

(* A published frame has a number, and no operator has seen a later one.    *)
NumberInv ==
  /\ \A a \in Addresses : published[a] # 0 =>
       /\ pool[a][published[a]].sequence > 0
       /\ pool[a][published[a]].sequence <= received[a]
  /\ \A op \in Operators : address[op] # Off => lastSeen[op] <= received[address[op]]

(* The frame that is written is in nobody's hands.                          *)
WriteInv == write # <<>> => write[2] \notin Held(write[1])

(* The frame that is copied stays as it was, and what is published for its  *)
(* address is that frame or a later one.                                    *)
ViewInv ==
  view # <<>> =>
    /\ main = "cook" /\ address[view.op] = view.at
    /\ pool[view.at][view.slot] = view.frame
    /\ view.frame.sequence <= received[view.at]
    /\ published[view.at] # 0
    /\ \/ published[view.at] = view.slot
       \/ pool[view.at][published[view.at]].sequence > view.frame.sequence

(* An operator that has seen the published frame has drawn it.              *)
DrawnInv ==
  \A op \in Operators :
    op \notin bare /\ address[op] # Off /\ published[address[op]] # 0 =>
      LET frameNow == pool[address[op]][published[address[op]]]
      IN lastSeen[op] = frameNow.sequence => drawn[op] = frameNow.points

IInv == TypeOK /\ RefsInv /\ SubscribedInv /\ NumberInv /\ WriteInv /\ ViewInv /\ DrawnInv

-----------------------------------------------------------------------------
(* The state of an operator that leaves one address for another.            *)
LEMMA RefsStep ==
  ASSUME TypeOK, RefsInv, NEW op \in Operators, NEW a \in (Addresses \cup {Off}) \ {address[op]},
         address' = [address EXCEPT ![op] = a],
         refs' = Released(Acquired(refs, a), address[op])
  PROVE  /\ refs' \in [Addresses -> Nat] /\ RefsInv'
         /\ \A b \in Addresses : refs'[b] =
              IF b = a THEN refs[b] + 1 ELSE IF b = address[op] THEN refs[b] - 1 ELSE refs[b]
         /\ address[op] # Off => refs[address[op]] > 0
<1> DEFINE old == address[op]
<1>1. Off \notin Addresses /\ old \in Addresses \cup {Off} /\ refs \in [Addresses -> Nat]
  BY ClientAssumption DEF TypeOK, Off
<1>2. \A b \in Addresses : refs'[b] =
        IF b = a THEN refs[b] + 1 ELSE IF b = old THEN refs[b] - 1 ELSE refs[b]
  BY <1>1 DEF Released, Acquired
<1>3. DOMAIN refs' = Addresses /\ refs' = [b \in Addresses |-> refs'[b]]
  BY <1>1 DEF Released, Acquired
<1>4. \A b \in Addresses : IsFiniteSet(UsersOf(b)) /\ Cardinality(UsersOf(b)) \in Nat
  <2>1. \A b \in Addresses : UsersOf(b) \in SUBSET Operators
    BY DEF UsersOf
  <2>2. QED
    BY <2>1, FS_Subset, FS_CardinalityType, ClientAssumption
<1>5. ASSUME NEW b \in Addresses PROVE refs'[b] = Cardinality(UsersOf(b)')
  <2>1. CASE b = a
    <3>1. UsersOf(b)' = UsersOf(b) \cup {op} /\ op \notin UsersOf(b)
      BY <2>1 DEF UsersOf, TypeOK
    <3>2. Cardinality(UsersOf(b)') = Cardinality(UsersOf(b)) + 1
      BY <1>4, <3>1, FS_AddElement
    <3>3. QED
      BY <1>2, <2>1, <3>2 DEF RefsInv
  <2>2. CASE b # a /\ b = old
    <3>1. UsersOf(b)' = UsersOf(b) \ {op} /\ op \in UsersOf(b)
      BY <2>2 DEF UsersOf, TypeOK
    <3>2. Cardinality(UsersOf(b)') = Cardinality(UsersOf(b)) - 1
      BY <1>4, <3>1, FS_RemoveElement
    <3>3. QED
      BY <1>2, <2>2, <3>2 DEF RefsInv
  <2>3. CASE b # a /\ b # old
    <3>1. UsersOf(b)' = UsersOf(b)
      BY <2>3 DEF UsersOf, TypeOK
    <3>2. QED
      BY <1>2, <2>3, <3>1 DEF RefsInv
  <2>4. QED
    BY <2>1, <2>2, <2>3
<1>6. ASSUME old # Off PROVE refs[old] > 0
  <2>1. old \in Addresses /\ op \in UsersOf(old)
    BY <1>1, <1>6 DEF UsersOf
  <2>2. Cardinality(UsersOf(old)) # 0
    BY <1>4, <2>1, FS_EmptySet
  <2>3. QED
    BY <1>1, <1>4, <2>1, <2>2 DEF RefsInv
<1>7. \A b \in Addresses : refs'[b] \in Nat
  BY <1>1, <1>2, <1>6
<1>8. QED
  BY <1>2, <1>3, <1>5, <1>6, <1>7 DEF RefsInv

(* Nobody is left when nothing is counted.                                  *)
LEMMA NobodyLeft ==
  ASSUME NEW at \in [Operators -> Addresses \cup {Off}], NEW tally \in [Addresses -> Nat],
         \A b \in Addresses : tally[b] = Cardinality({op \in Operators : at[op] = b}),
         Referenced(tally) = {}, NEW q \in Operators
  PROVE  at[q] = Off
<1> DEFINE users == {op \in Operators : at[op] = at[q]}
<1>1. SUFFICES ASSUME at[q] # Off PROVE FALSE
  OBVIOUS
<1>2. at[q] \in Addresses /\ q \in users
  BY <1>1
<1>3. IsFiniteSet(users)
  <2>1. users \in SUBSET Operators
    OBVIOUS
  <2>2. QED
    BY <2>1, FS_Subset, ClientAssumption
<1>4. Cardinality(users) \in Nat \ {0}
  BY <1>2, <1>3, FS_EmptySet, FS_CardinalityType
<1>5. tally[at[q]] = Cardinality(users)
  BY <1>2
<1> HIDE DEF users
<1>6. QED
  BY <1>2, <1>4, <1>5 DEF Referenced

(* An operator takes another address, and may be the last to leave one.     *)
LEMMA SetAddressStep ==
  ASSUME IInv, NEW op \in Operators, SetAddress(op)
  PROVE  IInv'
<1> USE DEF IInv
<1>1. PICK a \in (Addresses \cup {Off}) \ {address[op]} :
        /\ address' = [address EXCEPT ![op] = a]
        /\ refs' = Released(Acquired(refs, a), address[op])
        /\ subscribed' = (subscribed \cup ({a} \ {Off}))
                           \ {b \in {address[op]} \cap Addresses : refs'[b] = 0}
        /\ drawn' = IF a = Off THEN [drawn EXCEPT ![op] = 0] ELSE drawn
  BY DEF SetAddress
<1>2. /\ main = "cook" /\ view = <<>> /\ lastSeen' = [lastSeen EXCEPT ![op] = 0]
      /\ UNCHANGED <<bare, write, alive, view, main, arrivals>>
  BY DEF SetAddress, Cooking
<1>3. /\ refs' \in [Addresses -> Nat] /\ RefsInv'
      /\ \A b \in Addresses : refs'[b] =
           IF b = a THEN refs[b] + 1 ELSE IF b = address[op] THEN refs[b] - 1 ELSE refs[b]
      /\ address[op] # Off => refs[address[op]] > 0
  BY <1>1, RefsStep
<1>4. SubscribedInv'
  <2>1. Off \notin Addresses /\ refs \in [Addresses -> Nat]
    BY ClientAssumption DEF TypeOK, Off
  <2>2. subscribed = Referenced(refs)
    BY <1>2 DEF SubscribedInv
  <2>3. \A b \in Addresses : b \in Referenced(refs') <=> b \in subscribed'
    BY <1>1, <1>3, <2>1, <2>2 DEF Referenced
  <2>4. subscribed' \subseteq Addresses /\ Referenced(refs') \subseteq Addresses
    BY <1>1, <2>1, <2>2 DEF Referenced
  <2>5. QED
    BY <2>3, <2>4 DEF SubscribedInv
<1>5. address' \in [Operators -> Addresses \cup {Off}] /\ address'[op] = a
      /\ \A q \in Operators : q # op => address'[q] = address[q]
  BY <1>1 DEF TypeOK
<1>6. /\ lastSeen' \in [Operators -> Nat] /\ drawn' \in [Operators -> Nat]
      /\ lastSeen'[op] = 0
      /\ \A q \in Operators : q # op => lastSeen'[q] = lastSeen[q] /\ drawn'[q] = drawn[q]
  BY <1>1, <1>2 DEF TypeOK
<1>7. CASE Referenced(refs') = {}
  <2>1. /\ write = <<>> /\ pool' = EmptyPools
        /\ published' = [b \in Addresses |-> 0] /\ received' = [b \in Addresses |-> 0]
    BY <1>7 DEF SetAddress, ConnectionEnds
  <2>2. TypeOK'
    BY <1>2, <1>3, <1>5, <1>6, <2>1 DEF TypeOK, EmptyPools, Torn, PoolFrame
  <2>3. \A q \in Operators : address'[q] = Off
    <3>1. \A b \in Addresses : refs'[b] = Cardinality({q \in Operators : address'[q] = b})
      BY <1>3 DEF RefsInv, UsersOf
    <3>2. QED
      BY <1>3, <1>5, <1>7, <3>1, NobodyLeft
  <2>4. NumberInv' /\ DrawnInv' /\ WriteInv' /\ ViewInv'
    BY <1>2, <2>1, <2>3 DEF NumberInv, DrawnInv, WriteInv, ViewInv
  <2>5. QED
    BY <1>3, <1>4, <2>2, <2>4
<1>8. CASE Referenced(refs') # {}
  <2>1. UNCHANGED <<pool, published, received>>
    BY <1>8 DEF SetAddress, channelVars
  <2>2. TypeOK'
    BY <1>2, <1>3, <1>5, <1>6, <2>1 DEF TypeOK
  <2>3. NumberInv'
    <3>1. \A q \in Operators : address'[q] # Off => lastSeen'[q] <= received[address'[q]]
      <4>1. ASSUME NEW q \in Operators, address'[q] # Off
            PROVE  lastSeen'[q] <= received[address'[q]]
        <5>1. address'[q] \in Addresses
          BY <1>5, <4>1
        <5>2. received[address'[q]] \in Nat
          BY <5>1 DEF TypeOK
        <5>3. CASE q = op
          BY <1>6, <5>2, <5>3
        <5>4. CASE q # op
          BY <1>5, <1>6, <4>1, <5>4 DEF NumberInv
        <5>5. QED
          BY <5>3, <5>4
      <4>2. QED
        BY <4>1
    <3>2. QED
      BY <2>1, <3>1 DEF NumberInv
  <2>4. DrawnInv'
    <3>1. ASSUME NEW q \in Operators, address'[q] # Off, published[address'[q]] # 0,
                 lastSeen'[q] = pool[address'[q]][published[address'[q]]].sequence
          PROVE  q # op /\ address'[q] = address[q] /\ drawn'[q] = drawn[q]
      <4>1. address'[q] \in Addresses
        BY <1>5, <3>1
      <4>2. pool[address'[q]][published[address'[q]]].sequence > 0
        BY <3>1, <4>1 DEF NumberInv
      <4>3. lastSeen'[q] # 0
        BY <3>1, <4>2
      <4>4. QED
        BY <1>5, <1>6, <4>3
    <3>2. QED
      BY <1>2, <1>6, <2>1, <3>1 DEF DrawnInv
  <2>5. WriteInv' /\ ViewInv'
    BY <1>2, <2>1 DEF WriteInv, ViewInv, Held
  <2>6. QED
    BY <1>3, <1>4, <2>2, <2>3, <2>4, <2>5
<1>9. QED
  BY <1>7, <1>8

(* An operator looks at what is published and copies it, or passes it over, *)
(* and one whose buffers are made anew draws nothing that was written.      *)
LEMMA CookStep ==
  ASSUME IInv, NEW op \in Operators, Look(op) \/ Copy \/ PassOver \/ SetCapacity(op)
  PROVE  IInv'
<1> USE DEF IInv
<1>1. UNCHANGED <<address, pool, published, received, refs, subscribed, write, main, arrivals>>
  BY DEF Look, Copy, PassOver, SetCapacity, operatorVars, channelVars, subscriptionVars
<1>2. RefsInv' /\ SubscribedInv'
  BY <1>1 DEF RefsInv, SubscribedInv, UsersOf
<1>3. CASE Look(op)
  <2>1. /\ main = "cook" /\ address[op] # Off /\ view = <<>> /\ UNCHANGED <<lastSeen, drawn, bare>>
        /\ published[address[op]] # 0
        /\ view' = [op |-> op, at |-> address[op], slot |-> published[address[op]],
                    frame |-> pool[address[op]][published[address[op]]]]
    BY <1>3 DEF Look, Cooking, operatorVars
  <2>2. address[op] \in Addresses /\ published[address[op]] \in Slots
    BY <2>1 DEF TypeOK
  <2>3. pool[address[op]][published[address[op]]] \in PoolFrame
    BY <2>2 DEF TypeOK
  <2>4. view' \in View
    BY <2>1, <2>2, <2>3 DEF View
  <2>5. TypeOK'
    BY <1>1, <2>1, <2>4 DEF TypeOK
  <2>6. NumberInv' /\ DrawnInv'
    BY <1>1, <2>1 DEF NumberInv, DrawnInv
  <2>7. ViewInv'
    BY <1>1, <2>1, <2>2 DEF ViewInv, NumberInv
  <2>8. WriteInv'
    BY <1>1, <2>1 DEF WriteInv, Held
  <2>9. QED
    BY <1>2, <2>5, <2>6, <2>7, <2>8
<1>4. CASE Copy
  <2>1. /\ view # <<>> /\ view' = <<>>
        /\ lastSeen' = [lastSeen EXCEPT ![view.op] = view.frame.sequence]
        /\ drawn' = [drawn EXCEPT ![view.op] = pool[view.at][view.slot].points]
        /\ bare' = bare \ {view.op}
    BY <1>4 DEF Copy
  <2>2. /\ view.op \in Operators /\ view.at \in Addresses /\ view.slot \in Slots
        /\ view.frame \in PoolFrame
    BY <2>1 DEF TypeOK, View
  <2>3. view.frame.sequence \in Nat /\ pool[view.at][view.slot].points \in Nat
    BY <2>2 DEF TypeOK, PoolFrame
  <2>4. TypeOK'
    BY <1>1, <2>1, <2>2, <2>3 DEF TypeOK
  <2>5. \A q \in Operators :
          /\ q = view.op => /\ lastSeen'[q] = view.frame.sequence
                            /\ drawn'[q] = pool[view.at][view.slot].points
          /\ q # view.op => /\ lastSeen'[q] = lastSeen[q] /\ drawn'[q] = drawn[q]
                            /\ q \in bare' <=> q \in bare
    BY <2>1, <2>2 DEF TypeOK
  <2>6. /\ address[view.op] = view.at /\ pool[view.at][view.slot] = view.frame
        /\ view.frame.sequence <= received[view.at]
        /\ \/ published[view.at] = view.slot
           \/ pool[view.at][published[view.at]].sequence > view.frame.sequence
    BY <2>1 DEF ViewInv
  <2>7. NumberInv'
    <3>1. \A q \in Operators : address[q] # Off => lastSeen'[q] <= received[address[q]]
      BY <2>5, <2>6 DEF NumberInv
    <3>2. QED
      BY <1>1, <3>1 DEF NumberInv
  <2>8. DrawnInv'
    <3>1. ASSUME NEW q \in Operators \ bare', address[q] # Off, published[address[q]] # 0,
                 lastSeen'[q] = pool[address[q]][published[address[q]]].sequence
          PROVE  drawn'[q] = pool[address[q]][published[address[q]]].points
      <4>1. CASE q = view.op
        <5>1. lastSeen'[q] = view.frame.sequence /\ address[q] = view.at
          BY <2>5, <2>6, <4>1
        <5>2. published[view.at] = view.slot
          <6>1. pool[view.at][published[view.at]].sequence = view.frame.sequence
            BY <3>1, <5>1
          <6>2. QED
            BY <2>3, <2>6, <6>1
        <5>3. QED
          BY <2>5, <4>1, <5>1, <5>2
      <4>2. CASE q # view.op
        BY <2>5, <3>1, <4>2 DEF DrawnInv
      <4>3. QED
        BY <4>1, <4>2
    <3>2. QED
      BY <1>1, <3>1 DEF DrawnInv
  <2>9. ViewInv' /\ WriteInv'
    BY <1>1, <2>1 DEF ViewInv, WriteInv, Held
  <2>10. QED
    BY <1>2, <2>4, <2>7, <2>8, <2>9
<1>5. CASE PassOver
  <2>1. view' = <<>> /\ UNCHANGED <<lastSeen, drawn, bare>>
    BY <1>5 DEF PassOver, operatorVars
  <2>2. TypeOK'
    BY <1>1, <2>1 DEF TypeOK
  <2>3. NumberInv' /\ DrawnInv' /\ ViewInv' /\ WriteInv'
    BY <1>1, <2>1 DEF NumberInv, DrawnInv, ViewInv, WriteInv, Held
  <2>4. QED
    BY <1>2, <2>2, <2>3
<1>6. CASE SetCapacity(op)
  <2>1. bare \subseteq bare' /\ UNCHANGED <<lastSeen, drawn, view>>
    BY <1>6 DEF SetCapacity
  <2>2. TypeOK'
    BY <1>1, <2>1 DEF TypeOK
  <2>3. NumberInv' /\ DrawnInv' /\ ViewInv' /\ WriteInv'
    BY <1>1, <2>1 DEF NumberInv, DrawnInv, ViewInv, WriteInv, Held
  <2>4. QED
    BY <1>2, <2>2, <2>3
<1>7. QED
  BY <1>3, <1>4, <1>5, <1>6

(* The connection is made anew: nothing published survives it, and what the *)
(* operators have seen is older than what will be.                          *)
LEMMA ReconnectStep ==
  ASSUME IInv, (\E op \in Operators : Reconnect(op)) \/ Restart \/ Replay \/ Withdraw
  PROVE  IInv'
<1> USE DEF IInv
<1>1. UNCHANGED <<address, drawn, bare, pool, received, refs, write, view, arrivals>>
  BY DEF Reconnect, Restart, Replay, Withdraw, operatorVars, channelVars, subscriptionVars
<1>2. RefsInv'
  BY <1>1 DEF RefsInv, UsersOf
<1>3. "cook" \notin Operators
  BY ClientAssumption
<1>4. CASE \E op \in Operators : Reconnect(op)
  <2>1. /\ view = <<>> /\ main' # "cook" /\ main' \in Operators
        /\ UNCHANGED <<lastSeen, published>>
    BY <1>3, <1>4 DEF Reconnect, Cooking, operatorVars, channelVars
  <2>2. TypeOK' /\ SubscribedInv'
    BY <1>1, <2>1 DEF TypeOK, SubscribedInv
  <2>3. NumberInv' /\ WriteInv' /\ ViewInv' /\ DrawnInv'
    BY <1>1, <2>1 DEF NumberInv, WriteInv, ViewInv, DrawnInv, Held
  <2>4. QED
    BY <1>2, <2>2, <2>3
<1>5. CASE Restart \/ Replay
  <2>1. main # "cook" /\ UNCHANGED <<lastSeen, published, main>>
    BY <1>3, <1>5 DEF Restart, Replay, operatorVars, channelVars
  <2>2. TypeOK' /\ SubscribedInv'
    BY <1>1, <2>1 DEF TypeOK, SubscribedInv
  <2>3. NumberInv' /\ WriteInv' /\ ViewInv' /\ DrawnInv'
    BY <1>1, <2>1 DEF NumberInv, WriteInv, ViewInv, DrawnInv, Held
  <2>4. QED
    BY <1>2, <2>2, <2>3
<1>6. CASE Withdraw
  <2>1. /\ main \in Operators /\ main' = "cook" /\ subscribed = Referenced(refs)
        /\ published' = [a \in Addresses |-> 0] /\ UNCHANGED subscribed
        /\ lastSeen' = [lastSeen EXCEPT ![main] = 0]
    BY <1>6 DEF Withdraw, subscriptionVars
  <2>2. view = <<>>
    BY <1>3, <2>1 DEF ViewInv
  <2>3. TypeOK' /\ SubscribedInv'
    BY <1>1, <2>1 DEF TypeOK, SubscribedInv
  <2>4. \A q \in Operators : lastSeen'[q] \in {0, lastSeen[q]}
    BY <2>1 DEF TypeOK
  <2>5. NumberInv'
    <3>1. \A q \in Operators : address[q] # Off => lastSeen'[q] <= received[address[q]]
      <4>1. ASSUME NEW q \in Operators, address[q] # Off
            PROVE  lastSeen'[q] <= received[address[q]]
        <5>1. address[q] \in Addresses
          BY <4>1 DEF TypeOK
        <5>2. received[address[q]] \in Nat
          BY <5>1 DEF TypeOK
        <5>3. QED
          BY <2>4, <4>1, <5>2 DEF NumberInv
      <4>2. QED
        BY <4>1
    <3>2. QED
      BY <1>1, <2>1, <3>1 DEF NumberInv
  <2>6. DrawnInv'
    BY <1>1, <2>1 DEF DrawnInv, TypeOK
  <2>7. WriteInv' /\ ViewInv'
    <3>1. write # <<>> => write[1] \in Addresses /\ write[2] \in Slots
      BY DEF TypeOK
    <3>2. QED
      BY <1>1, <2>1, <2>2, <3>1 DEF WriteInv, ViewInv, Held, Slots
  <2>8. QED
    BY <1>2, <2>3, <2>5, <2>6, <2>7
<1>7. QED
  BY <1>4, <1>5, <1>6

(* The worker tears a frame that is in nobody's hands.                      *)
LEMMA WriteStep ==
  ASSUME IInv, NEW a \in Addresses, NEW slot \in Slots, WriteInto(a, slot)
  PROVE  IInv'
<1> USE DEF IInv
<1>1. /\ UNCHANGED <<address, lastSeen, drawn, bare, published, received, refs, subscribed, view,
                     main, arrivals>>
      /\ slot \notin Held(a) /\ write' = <<a, slot>>
      /\ pool' = [pool EXCEPT ![a][slot] = Torn]
  BY DEF WriteInto, operatorVars, subscriptionVars
<1>2. /\ pool' \in [Addresses -> [Slots -> PoolFrame]]
      /\ \A b \in Addresses, s \in Slots : b # a \/ s # slot => pool'[b][s] = pool[b][s]
  BY <1>1 DEF TypeOK, PoolFrame, Torn
<1>3. TypeOK' /\ RefsInv' /\ SubscribedInv'
  BY <1>1, <1>2 DEF TypeOK, RefsInv, SubscribedInv, UsersOf
<1>4. \A b \in Addresses : published[b] # 0 =>
        pool'[b][published[b]] = pool[b][published[b]]
  BY <1>1, <1>2 DEF TypeOK, Held
<1>5. NumberInv'
  BY <1>1, <1>4 DEF NumberInv
<1>6. WriteInv'
  BY <1>1 DEF WriteInv, Held
<1>7. ViewInv'
  <2>1. SUFFICES ASSUME view # <<>> PROVE ViewInv'
    BY <1>1 DEF ViewInv
  <2>2. view.at \in Addresses /\ view.slot \in Slots
    BY <2>1 DEF TypeOK, View
  <2>3. pool'[view.at][view.slot] = pool[view.at][view.slot]
    BY <1>1, <1>2, <2>1, <2>2 DEF Held
  <2>4. QED
    BY <1>1, <1>4, <2>1, <2>2, <2>3 DEF ViewInv
<1>8. DrawnInv'
  BY <1>1, <1>4 DEF DrawnInv, TypeOK
<1>9. QED
  BY <1>3, <1>5, <1>6, <1>7, <1>8

(* The worker publishes what it wrote, under a number nobody has seen.      *)
LEMMA PublishStep ==
  ASSUME IInv, PublishFrame
  PROVE  IInv'
<1> USE DEF IInv
<1> DEFINE a == write[1]  slot == write[2]
           fresh == [sequence |-> received[a] + 1, points |-> arrivals + 1]
<1>1. /\ UNCHANGED <<address, lastSeen, drawn, bare, refs, subscribed, view, main>>
      /\ write # <<>> /\ write' = <<>> /\ arrivals' = arrivals + 1
      /\ received' = [received EXCEPT ![a] = @ + 1]
      /\ pool' = [pool EXCEPT ![a][slot] = fresh]
      /\ published' = [published EXCEPT ![a] = slot]
  BY DEF PublishFrame, operatorVars, subscriptionVars
<1>2. a \in Addresses /\ slot \in Slots /\ slot # 0 /\ slot \notin Held(a)
  BY <1>1 DEF TypeOK, WriteInv, Slots
<1>3. received[a] \in Nat /\ arrivals \in Nat /\ fresh \in PoolFrame
  BY <1>2 DEF TypeOK, PoolFrame
<1> HIDE DEF a, slot, fresh
<1>4. /\ pool' \in [Addresses -> [Slots -> PoolFrame]] /\ pool'[a][slot] = fresh
      /\ \A b \in Addresses, s \in Slots : b # a \/ s # slot => pool'[b][s] = pool[b][s]
  BY <1>1, <1>2, <1>3 DEF TypeOK
<1>5. /\ published' \in [Addresses -> Slots \cup {0}] /\ published'[a] = slot
      /\ \A b \in Addresses : b # a => published'[b] = published[b]
  BY <1>1, <1>2 DEF TypeOK
<1>6. /\ received' \in [Addresses -> Nat] /\ received'[a] = received[a] + 1
      /\ \A b \in Addresses : received[b] \in Nat /\ received[b] <= received'[b]
  BY <1>1, <1>2 DEF TypeOK
<1>7. fresh.sequence = received[a] + 1
  BY DEF fresh
<1>8. TypeOK' /\ RefsInv' /\ SubscribedInv' /\ WriteInv'
  BY <1>1, <1>4, <1>5, <1>6 DEF TypeOK, RefsInv, SubscribedInv, UsersOf, WriteInv
<1>9. \A b \in Addresses : b # a /\ published[b] # 0 =>
        pool'[b][published'[b]] = pool[b][published[b]]
  BY <1>4, <1>5 DEF TypeOK
<1>10. NumberInv'
  <2>1. ASSUME NEW b \in Addresses, published'[b] # 0
        PROVE  pool'[b][published'[b]].sequence > 0
               /\ pool'[b][published'[b]].sequence <= received'[b]
    <3>1. CASE b = a
      BY <1>3, <1>4, <1>5, <1>6, <1>7, <3>1
    <3>2. CASE b # a
      <4>1. pool[b][published[b]].sequence > 0 /\ pool[b][published[b]].sequence <= received[b]
            /\ pool'[b][published'[b]] = pool[b][published[b]] /\ received'[b] = received[b]
        BY <1>1, <1>5, <1>9, <2>1, <3>2 DEF NumberInv, TypeOK
      <4>2. QED
        BY <4>1
    <3>3. QED
      BY <3>1, <3>2
  <2>2. ASSUME NEW op \in Operators, address[op] # Off
        PROVE  lastSeen[op] <= received'[address[op]]
    <3>1. /\ lastSeen[op] \in Nat /\ address[op] \in Addresses
          /\ lastSeen[op] <= received[address[op]]
      BY <2>2 DEF NumberInv, TypeOK
    <3>2. received[address[op]] \in Nat /\ received'[address[op]] \in Nat
          /\ received[address[op]] <= received'[address[op]]
      BY <1>6, <3>1
    <3>3. QED
      BY <3>1, <3>2
  <2>3. QED
    BY <1>1, <2>1, <2>2 DEF NumberInv
<1>11. ViewInv'
  <2>1. SUFFICES ASSUME view # <<>> PROVE ViewInv'
    BY <1>1 DEF ViewInv
  <2>2. /\ view.at \in Addresses /\ view.slot \in Slots /\ view.frame.sequence \in Nat
    BY <2>1 DEF TypeOK, View, PoolFrame
  <2>3. pool'[view.at][view.slot] = pool[view.at][view.slot]
    BY <1>2, <1>4, <2>1, <2>2 DEF Held
  <2>4. view.frame.sequence <= received[view.at] /\ published[view.at] # 0
    BY <2>1 DEF ViewInv
  <2>5. view.frame.sequence <= received'[view.at]
    BY <1>6, <2>2, <2>4
  <2>6. published'[view.at] # 0
        /\ \/ published'[view.at] = view.slot
           \/ pool'[view.at][published'[view.at]].sequence > view.frame.sequence
    <3>1. CASE view.at = a
      BY <1>2, <1>3, <1>4, <1>5, <1>7, <2>2, <2>4, <3>1
    <3>2. CASE view.at # a
      BY <1>5, <1>9, <2>1, <2>2, <3>2 DEF ViewInv
    <3>3. QED
      BY <3>1, <3>2
  <2>7. QED
    BY <1>1, <2>1, <2>3, <2>5, <2>6 DEF ViewInv
<1>12. DrawnInv'
  <2>1. ASSUME NEW op \in Operators \ bare, address[op] # Off, published'[address[op]] # 0,
               lastSeen[op] = pool'[address[op]][published'[address[op]]].sequence
        PROVE  drawn[op] = pool'[address[op]][published'[address[op]]].points
    <3>1. address[op] \in Addresses /\ lastSeen[op] \in Nat
      BY <2>1 DEF TypeOK
    <3>2. address[op] # a
      <4>1. SUFFICES ASSUME address[op] = a PROVE FALSE
        OBVIOUS
      <4>2. lastSeen[op] = received[a] + 1
        BY <1>4, <1>5, <1>7, <2>1, <4>1
      <4>3. lastSeen[op] <= received[a]
        BY <2>1, <4>1 DEF NumberInv
      <4>4. QED
        BY <1>3, <3>1, <4>2, <4>3
    <3>3. QED
      BY <1>5, <1>9, <2>1, <3>1, <3>2 DEF DrawnInv
  <2>2. QED
    BY <1>1, <2>1 DEF DrawnInv
<1>13. QED
  BY <1>8, <1>10, <1>11, <1>12

-----------------------------------------------------------------------------
(* The strengthened invariant holds at the start.                           *)
LEMMA InitIInv == ClientInit => IInv
<1> SUFFICES ASSUME ClientInit PROVE IInv
  OBVIOUS
<1> USE DEF ClientInit
<1>1. TypeOK
  BY DEF TypeOK, EmptyPools, Torn, PoolFrame
<1>2. RefsInv
  <2>1. \A a \in Addresses : UsersOf(a) = {}
    BY ClientAssumption DEF UsersOf, Off
  <2>2. QED
    BY <2>1, FS_EmptySet DEF RefsInv
<1>3. SubscribedInv
  BY DEF SubscribedInv, Referenced
<1>4. NumberInv /\ WriteInv /\ ViewInv /\ DrawnInv
  BY DEF NumberInv, WriteInv, ViewInv, DrawnInv
<1>5. QED
  BY <1>1, <1>2, <1>3, <1>4 DEF IInv

(* And every step of the client keeps it.                                   *)
LEMMA NextIInv == IInv /\ [ClientNext]_clientSideVars => IInv'
<1> SUFFICES ASSUME IInv, [ClientNext]_clientSideVars PROVE IInv'
  OBVIOUS
<1>1. CASE UNCHANGED clientSideVars
  BY <1>1 DEF clientSideVars, operatorVars, channelVars, subscriptionVars, IInv, TypeOK, RefsInv,
       UsersOf, SubscribedInv, NumberInv, WriteInv, Held, ViewInv, DrawnInv
<1>2. CASE ClientNext
  <2>1. CASE \E op \in Operators : SetAddress(op)
    BY <2>1, SetAddressStep
  <2>2. CASE \E op \in Operators : Look(op) \/ SetCapacity(op)
    BY <2>2, CookStep
  <2>3. CASE Copy \/ PassOver
    <3>1. view # <<>>
      BY <2>3 DEF Copy, PassOver
    <3>2. view.op \in Operators
      BY <3>1 DEF IInv, TypeOK, View
    <3>3. QED
      BY <2>3, <3>2, CookStep
  <2>4. CASE (\E op \in Operators : Reconnect(op)) \/ Restart \/ Replay \/ Withdraw
    BY <2>4, ReconnectStep
  <2>5. CASE \E a \in Addresses, slot \in Slots : WriteInto(a, slot)
    BY <2>5, WriteStep
  <2>6. CASE PublishFrame
    BY <2>6, PublishStep
  <2>7. QED
    BY <1>2, <2>1, <2>2, <2>3, <2>4, <2>5, <2>6 DEF ClientNext
<1>3. QED
  BY <1>1, <1>2

(* While the main thread cooks, what is counted is what its operators show. *)
LEMMA CountedAreShown ==
  ASSUME IInv PROVE Referenced(refs) = {address[op] : op \in Operators} \ {Off}
<1>1. Off \notin Addresses
  BY ClientAssumption DEF Off
<1>2. ASSUME NEW a \in Addresses
      PROVE  refs[a] > 0 <=> \E op \in Operators : address[op] = a
  <2>1. UsersOf(a) \in SUBSET Operators
    BY DEF UsersOf
  <2>2. IsFiniteSet(UsersOf(a)) /\ Cardinality(UsersOf(a)) \in Nat
    BY <2>1, FS_Subset, FS_CardinalityType, ClientAssumption
  <2>3. Cardinality(UsersOf(a)) = 0 <=> UsersOf(a) = {}
    BY <2>2, FS_EmptySet
  <2>4. refs[a] = Cardinality(UsersOf(a))
    BY DEF IInv, RefsInv
  <2>5. UsersOf(a) # {} <=> \E op \in Operators : address[op] = a
    BY DEF UsersOf
  <2>6. QED
    BY <2>2, <2>3, <2>4, <2>5
<1>3. \A op \in Operators : address[op] \in Addresses \cup {Off}
  BY DEF IInv, TypeOK
<1>4. Referenced(refs) \subseteq {address[op] : op \in Operators} \ {Off}
  BY <1>1, <1>2 DEF Referenced
<1>5. {address[op] : op \in Operators} \ {Off} \subseteq Referenced(refs)
  BY <1>2, <1>3 DEF Referenced
<1>6. QED
  BY <1>4, <1>5

(* What an operator copies is the frame it looked at, whatever the worker   *)
(* publishes meanwhile, and a frame it takes for the one it has drawn is    *)
(* that one, whoever reconnected the connection (get_writable_frame,        *)
(* try_get_latest_frame and reconnect() of the POP), but for an operator    *)
(* whose buffers were made anew and have not been written since.            *)
THEOREM WholeFramesAreDrawn == ClientSpec => []OperatorsDrawWholeFrames
<1>1. IInv => OperatorsDrawWholeFrames
  BY DEF IInv, ViewInv, DrawnInv, OperatorsDrawWholeFrames
<1>2. QED
  BY <1>1, InitIInv, NextIInv, PTL DEF ClientSpec

(* Between the cooks' own steps, the context is subscribed to exactly the   *)
(* addresses that its operators show (add_channel_ref, remove_channel_ref   *)
(* and the replay of reconnect()).                                          *)
THEOREM SubscriptionsStay == ClientSpec => []OperatorsStaySubscribed
<1>1. IInv => OperatorsStaySubscribed
  BY CountedAreShown DEF IInv, SubscribedInv, OperatorsStaySubscribed
<1>2. QED
  BY <1>1, InitIInv, NextIInv, PTL DEF ClientSpec

-----------------------------------------------------------------------------
(* MessageReceiver.                                                          *)
AllTopics == Paths \cup {AllPaths}
Mails == Paths \X Nat
Tidings == BOOLEAN \X AllTopics

ReceiverTypeOK ==
  /\ asks \subseteq AllTopics /\ filter \subseteq AllTopics /\ synced \subseteq AllTopics \cup NoSnapshot
  /\ reach \subseteq AllTopics /\ owed \in [AllTopics -> Nat] /\ due \in Seq(Paths)
  /\ dropped \subseteq Paths
  /\ tidings \in Seq(Tidings) /\ mail \in Seq(Mails) /\ inbox \in Seq(Mails)
  /\ told \in [Paths -> Nat] /\ sent \in [Paths -> Nat] /\ changes \in Nat
  /\ place \in {"none", "sync", "wait", "drain", "ended"}

(* Between two syncs the socket subscribes to the snapshot.                  *)
FilterInv ==
  /\ place \in {"none", "ended"} =>
       filter = {} /\ tidings = <<>> /\ reach = {} /\ mail = <<>>
  /\ place = "sync" => filter = synced \/ (filter = {} /\ synced = NoSnapshot)
  /\ place \in {"wait", "drain"} => filter = synced

(* The streamer knows of a subscription, or will: what tells it to drop an   *)
(* address the socket subscribes to is followed by what tells it to add it.  *)
Tells(q, add, p) == \E j \in 1..Len(q) : q[j] = <<add, p>>
Restores(q, p) ==
  \A j \in 1..Len(q) :
    q[j] = <<FALSE, p>> => \E k \in 1..Len(q) : k > j /\ q[k] = <<TRUE, p>>
ReachInv ==
  \A p \in filter : (p \in reach \/ Tells(tidings, TRUE, p)) /\ Restores(tidings, p)

(* Values of an address in a queue, of which the last is v.                  *)
IsValue(m, p) == m[1] = p /\ m[2] # Garbled
Holds(q, p) == \E j \in 1..Len(q) : IsValue(q[j], p)
EndsWith(q, p, v) ==
  \A j \in 1..Len(q) : IsValue(q[j], p) => \E k \in 1..Len(q) : k >= j /\ q[k] = <<p, v>>

(* The newest value of a readable address the socket subscribes to is with   *)
(* the client or comes last of those on their way, or the streamer will      *)
(* still answer the subscription with it, or it was lost on its way.         *)
OnWay(p) ==
  /\ EndsWith(mail, p, sent[p])
  /\ Holds(mail, p) \/ (EndsWith(inbox, p, sent[p]) /\ (Holds(inbox, p) \/ told[p] = sent[p]))
OnQueue(q, f) == \E i \in 1..Len(q) : q[i] = f
Awaited(p) == owed[p] > 0 \/ OnQueue(due, p) \/ p \in dropped
CoveredInv == \A p \in filter \cap Readable : Tells(tidings, TRUE, p) \/ Awaited(p) \/ OnWay(p)

SentInv ==
  /\ \A p \in Paths : sent[p] = 0 => told[p] = 0 /\ ~Holds(mail, p) /\ ~Holds(inbox, p)
  /\ \A j \in 1..Len(inbox) : inbox[j][2] # Garbled

ReceiverInv == ReceiverTypeOK /\ FilterInv /\ ReachInv /\ CoveredInv /\ SentInv

-----------------------------------------------------------------------------
(* SetToSeq lists each element of a finite set once, and nothing else.       *)
LEMMA ListedOnce ==
  ASSUME NEW S, IsFiniteSet(S)
  PROVE  /\ SetToSeq(S) \in Seq(S)
         /\ \A x \in S : \E i \in 1..Len(SetToSeq(S)) :
              /\ SetToSeq(S)[i] = x
              /\ \A j \in 1..Len(SetToSeq(S)) : SetToSeq(S)[j] = x => j = i
<1> DEFINE n == Cardinality(S)
           f == SetToSeq(S)
<1>1. n \in Nat /\ ExistsBijection(1..n, S)
  BY FS_CardinalityType
<1>2. PICK g \in Bijection(1..n, S) : TRUE
  BY <1>1 DEF ExistsBijection
<1>3. g \in [1..n -> S] /\ IsInjective(g)
  BY <1>2 DEF Bijection, Injection
<1>4. f \in [1..n -> S] /\ IsInjective(f)
  BY <1>3 DEF SetToSeq
<1>5. f \in Seq(S) /\ Len(f) = n
  BY <1>1, <1>4
<1>6. ASSUME NEW x \in S, \A i \in 1..n : f[i] # x
      PROVE  FALSE
  <2>1. f \in [1..n -> S \ {x}]
    BY <1>4, <1>6
  <2>2. IsFiniteSet(1..n) /\ Cardinality(1..n) = n
    BY <1>1, FS_Interval
  <2>3. IsFiniteSet(S \ {x}) /\ Cardinality(S \ {x}) = n - 1
    BY <1>6, FS_RemoveElement
  <2>4. Cardinality(S \ {x}) < Cardinality(1..n)
    BY <1>1, <2>2, <2>3
  <2>5. \E i, j \in 1..n : i # j /\ f[i] = f[j]
    <3> HIDE DEF f, n
    <3> QED
      BY <2>1, <2>2, <2>3, <2>4, FS_PigeonHole
  <2> QED
    BY <1>4, <2>5 DEF IsInjective
<1>7. \A i, j \in 1..n : f[i] = f[j] => i = j
  BY <1>4 DEF IsInjective
<1> HIDE DEF f, n
<1>8. \A x \in S : \E i \in 1..Len(f) : f[i] = x /\ \A j \in 1..Len(f) : f[j] = x => j = i
  <2> SUFFICES ASSUME NEW x \in S
               PROVE  \E i \in 1..n : f[i] = x /\ \A j \in 1..n : f[j] = x => j = i
    BY <1>5
  <2>1. PICK i \in 1..n : f[i] = x
    BY <1>6
  <2> QED
    BY <1>7, <2>1
<1> QED
  BY <1>5, <1>8 DEF f

(* In particular it lists its elements, and nothing else.                    *)
LEMMA ListOfSet ==
  ASSUME NEW S, IsFiniteSet(S)
  PROVE  /\ SetToSeq(S) \in Seq(S)
         /\ \A x \in S : \E i \in 1..Len(SetToSeq(S)) : SetToSeq(S)[i] = x
BY ListedOnce

(* What is held in a queue, and what it ends with, when a message is added.  *)
LEMMA MailAdded ==
  ASSUME NEW q \in Seq(Mails), NEW m \in Mails, NEW p \in Paths, NEW v \in Nat
  PROVE  /\ Append(q, m) \in Seq(Mails)
         /\ Holds(Append(q, m), p) <=> Holds(q, p) \/ IsValue(m, p)
         /\ EndsWith(q, p, v) /\ ~IsValue(m, p) => EndsWith(Append(q, m), p, v)
         /\ m = <<p, v>> => EndsWith(Append(q, m), p, v)
<1> DEFINE a == Append(q, m)
<1>1. /\ a \in Seq(Mails) /\ Len(a) = Len(q) + 1 /\ a[Len(q) + 1] = m
      /\ \A i \in 1..Len(q) : a[i] = q[i]
  BY AppendProperties
<1>2. PICK n \in Nat : n = Len(q)
  BY LenProperties
<1> HIDE DEF a
<1>3. 1..Len(a) = (1..n) \cup {n + 1} /\ a[n + 1] = m /\ \A i \in 1..n : a[i] = q[i]
  BY <1>1, <1>2
<1>4. Holds(a, p) <=> Holds(q, p) \/ IsValue(m, p)
  BY <1>2, <1>3 DEF Holds
<1>5. ASSUME EndsWith(q, p, v), ~IsValue(m, p)
      PROVE  EndsWith(a, p, v)
  <2>1. SUFFICES ASSUME NEW j \in 1..Len(a), IsValue(a[j], p)
                 PROVE  \E k \in 1..Len(a) : k >= j /\ a[k] = <<p, v>>
    BY DEF EndsWith
  <2>2. j \in 1..n /\ IsValue(q[j], p)
    BY <1>3, <1>5, <2>1
  <2>3. PICK k \in 1..n : k >= j /\ q[k] = <<p, v>>
    BY <1>2, <1>5, <2>2 DEF EndsWith
  <2> QED
    BY <1>3, <2>3
<1>6. ASSUME m = <<p, v>>
      PROVE  EndsWith(a, p, v)
  <2>1. \A j \in 1..Len(a) : n + 1 >= j
    BY <1>3
  <2> QED
    BY <1>3, <1>6, <2>1 DEF EndsWith
<1> QED
  BY <1>1, <1>4, <1>5, <1>6 DEF a

(* And when the first one is taken out.                                      *)
LEMMA MailTaken ==
  ASSUME NEW q \in Seq(Mails), q # <<>>, NEW p \in Paths, NEW v \in Nat
  PROVE  /\ Tail(q) \in Seq(Mails) /\ Head(q) \in Mails
         /\ Holds(q, p) <=> Holds(Tail(q), p) \/ IsValue(Head(q), p)
         /\ EndsWith(q, p, v) => EndsWith(Tail(q), p, v)
         /\ EndsWith(q, p, v) /\ v # Garbled /\ IsValue(Head(q), p) /\ ~Holds(Tail(q), p)
              => Head(q) = <<p, v>>
<1> DEFINE t == Tail(q)
<1>1. /\ t \in Seq(Mails) /\ Head(q) \in Mails /\ Len(t) = Len(q) - 1
      /\ \A i \in 1..Len(t) : t[i] = q[i + 1]
  BY HeadTailProperties
<1>2. Len(q) \in Nat \ {0} /\ Head(q) = q[1]
  BY EmptySeq
<1>3. PICK n \in Nat : n = Len(t)
  BY <1>1, LenProperties
<1> HIDE DEF t
<1>4. Len(q) = n + 1 /\ \A i \in 1..n : t[i] = q[i + 1]
  BY <1>1, <1>2, <1>3
<1>5. Holds(q, p) <=> Holds(t, p) \/ IsValue(Head(q), p)
  <2>1. ASSUME Holds(q, p)
        PROVE  Holds(t, p) \/ IsValue(Head(q), p)
    <3>1. PICK j \in 1..(n + 1) : IsValue(q[j], p)
      BY <1>4, <2>1 DEF Holds
    <3>2. CASE j = 1
      BY <1>2, <3>1, <3>2
    <3>3. CASE j # 1
      <4>1. j - 1 \in 1..n /\ t[j - 1] = q[j]
        BY <1>4, <3>3
      <4> QED
        BY <1>3, <3>1, <4>1 DEF Holds
    <3> QED
      BY <3>2, <3>3
  <2>2. ASSUME Holds(t, p)
        PROVE  Holds(q, p)
    <3>1. PICK j \in 1..n : IsValue(t[j], p)
      BY <1>3, <2>2 DEF Holds
    <3>2. j + 1 \in 1..(n + 1) /\ q[j + 1] = t[j]
      BY <1>4
    <3> QED
      BY <1>4, <3>1, <3>2 DEF Holds
  <2>3. ASSUME IsValue(Head(q), p)
        PROVE  Holds(q, p)
    BY <1>2, <1>4, <2>3 DEF Holds
  <2> QED
    BY <2>1, <2>2, <2>3
<1>6. ASSUME EndsWith(q, p, v)
      PROVE  EndsWith(t, p, v)
  <2>1. SUFFICES ASSUME NEW j \in 1..n, IsValue(t[j], p)
                 PROVE  \E k \in 1..n : k >= j /\ t[k] = <<p, v>>
    BY <1>3 DEF EndsWith
  <2>2. j + 1 \in 1..(n + 1) /\ IsValue(q[j + 1], p)
    BY <1>4, <2>1
  <2>3. PICK k \in 1..(n + 1) : k >= j + 1 /\ q[k] = <<p, v>>
    BY <1>4, <1>6, <2>2 DEF EndsWith
  <2>4. k - 1 \in 1..n /\ k - 1 >= j /\ t[k - 1] = q[k]
    BY <1>4, <2>3
  <2> QED
    BY <2>3, <2>4
<1>7. ASSUME EndsWith(q, p, v), v # Garbled, IsValue(Head(q), p), ~Holds(t, p)
      PROVE  Head(q) = <<p, v>>
  <2>0. 1 \in 1..Len(q) /\ IsValue(q[1], p) /\ 1..Len(q) = 1..(n + 1)
    BY <1>2, <1>4, <1>7
  <2>1. PICK k \in 1..(n + 1) : q[k] = <<p, v>>
    BY <1>7, <2>0 DEF EndsWith
  <2>2. k = 1
    <3>1. SUFFICES ASSUME k # 1
                   PROVE  FALSE
      OBVIOUS
    <3>2. k - 1 \in 1..n /\ t[k - 1] = q[k]
      BY <1>4, <3>1
    <3>3. IsValue(t[k - 1], p)
      BY <1>7, <2>1, <3>2 DEF IsValue
    <3> QED
      BY <1>3, <1>7, <3>2, <3>3 DEF Holds
  <2> QED
    BY <1>2, <2>1, <2>2
<1> QED
  BY <1>1, <1>5, <1>6, <1>7 DEF t

(* A change of the subscriptions reaches the streamer.                       *)
LEMMA TidingTaken ==
  ASSUME NEW q \in Seq(Tidings), q # <<>>, NEW p \in AllTopics
  PROVE  /\ Tail(q) \in Seq(Tidings) /\ Head(q) \in Tidings
         /\ Tells(q, TRUE, p) => Head(q) = <<TRUE, p>> \/ Tells(Tail(q), TRUE, p)
         /\ Restores(q, p) => Restores(Tail(q), p)
         /\ Restores(q, p) /\ Head(q) = <<FALSE, p>> => Tells(Tail(q), TRUE, p)
<1> DEFINE t == Tail(q)
<1>1. /\ t \in Seq(Tidings) /\ Head(q) \in Tidings /\ Len(t) = Len(q) - 1
      /\ \A i \in 1..Len(t) : t[i] = q[i + 1]
  BY HeadTailProperties
<1>2. Len(q) \in Nat \ {0} /\ Head(q) = q[1]
  BY EmptySeq
<1>3. PICK n \in Nat : n = Len(t)
  BY <1>1, LenProperties
<1> HIDE DEF t
<1>4. Len(q) = n + 1 /\ \A i \in 1..n : t[i] = q[i + 1]
  BY <1>1, <1>2, <1>3
<1>5. ASSUME NEW k \in 1..(n + 1), k > 1, q[k] = <<TRUE, p>>
      PROVE  k - 1 \in 1..n /\ t[k - 1] = <<TRUE, p>> /\ Tells(t, TRUE, p)
  <2>1. k > 1
    BY <1>5
  <2>2. k - 1 \in 1..n /\ (k - 1) + 1 = k
    BY <2>1
  <2>3. t[k - 1] = q[k]
    BY <1>4, <2>2
  <2>4. t[k - 1] = <<TRUE, p>>
    BY <1>5, <2>3
  <2> QED
    BY <1>3, <2>2, <2>4 DEF Tells
<1>6. ASSUME Tells(q, TRUE, p)
      PROVE  Head(q) = <<TRUE, p>> \/ Tells(t, TRUE, p)
  <2>1. PICK k \in 1..(n + 1) : q[k] = <<TRUE, p>>
    BY <1>4, <1>6 DEF Tells
  <2>2. k = 1 \/ k > 1
    BY <1>3
  <2> QED
    BY <1>2, <1>5, <2>1, <2>2
<1>7. ASSUME Restores(q, p)
      PROVE  Restores(t, p)
  <2>1. SUFFICES ASSUME NEW j \in 1..n, t[j] = <<FALSE, p>>
                 PROVE  \E k \in 1..n : k > j /\ t[k] = <<TRUE, p>>
    BY <1>3 DEF Restores
  <2>2. j + 1 \in 1..(n + 1) /\ q[j + 1] = <<FALSE, p>>
    <3>1. j + 1 \in 1..(n + 1) /\ q[j + 1] = t[j]
      BY <1>4
    <3> QED
      BY <2>1, <3>1
  <2>3. PICK k \in 1..(n + 1) : k > j + 1 /\ q[k] = <<TRUE, p>>
    BY <1>4, <1>7, <2>2 DEF Restores
  <2>4. k > 1 /\ k - 1 > j
    BY <2>3
  <2> QED
    BY <1>5, <2>3, <2>4
<1>8. ASSUME Restores(q, p), Head(q) = <<FALSE, p>>
      PROVE  Tells(t, TRUE, p)
  <2>1. 1 \in 1..(n + 1) /\ q[1] = <<FALSE, p>>
    <3>1. q[1] = <<FALSE, p>>
      BY <1>2, <1>8
    <3> QED
      BY <3>1
  <2>2. PICK k \in 1..(n + 1) : k > 1 /\ q[k] = <<TRUE, p>>
    BY <1>4, <1>8, <2>1 DEF Restores
  <2> QED
    BY <1>5, <2>2
<1> QED
  BY <1>1, <1>6, <1>7, <1>8 DEF t

(* What a sync tells it: first the addresses it adds, then those it drops.   *)
Reported(q, added, removed) ==
  q \o SetToSeq({<<TRUE, p>> : p \in added}) \o SetToSeq({<<FALSE, p>> : p \in removed})

(* The changes of any subscriptions are a finite set of tidings.             *)
LEMMA TidingSetsFinite ==
  ASSUME NEW add \in BOOLEAN, NEW S \in SUBSET AllTopics
  PROVE  IsFiniteSet({<<add, p>> : p \in S}) /\ {<<add, p>> : p \in S} \subseteq Tidings
<1>1. IsFiniteSet(AllTopics)
  <2>1. IsFiniteSet(Readable \cup Unreadable)
    BY ReceiverAssumption, FS_Union
  <2> QED
    BY <2>1, FS_AddElement DEF AllTopics, Paths
<1>2. IsFiniteSet(BOOLEAN)
  <2>1. IsFiniteSet({TRUE}) /\ IsFiniteSet({TRUE} \cup {FALSE})
    BY FS_Singleton, FS_AddElement
  <2>2. BOOLEAN = {TRUE} \cup {FALSE}
    OBVIOUS
  <2> QED
    BY <2>1, <2>2
<1>3. IsFiniteSet(Tidings)
  BY <1>1, <1>2, FS_Product DEF Tidings
<1>4. {<<add, p>> : p \in S} \subseteq Tidings
  BY DEF Tidings
<1> QED
  BY <1>3, <1>4, FS_Subset

(* Behind what a sync reports an address that it adds is told as added, and  *)
(* one that it leaves alone is told as before.                               *)
LEMMA TidingsReported ==
  ASSUME NEW q \in Seq(Tidings), NEW A \in SUBSET AllTopics, NEW D \in SUBSET AllTopics,
         NEW p \in AllTopics, p \notin D
  PROVE  /\ Reported(q, A, D) \in Seq(Tidings)
         /\ Tells(q, TRUE, p) => Tells(Reported(q, A, D), TRUE, p)
         /\ p \in A => Tells(Reported(q, A, D), TRUE, p)
         /\ p \in A \/ Restores(q, p) => Restores(Reported(q, A, D), p)
<1> DEFINE adds == {<<TRUE, x>> : x \in A}
           drops == {<<FALSE, x>> : x \in D}
           a == SetToSeq(adds)
           d == SetToSeq(drops)
           r == Reported(q, A, D)
<1>1. /\ a \in Seq(Tidings) /\ d \in Seq(Tidings) /\ a \in Seq(adds) /\ d \in Seq(drops)
      /\ \A x \in adds : \E i \in 1..Len(a) : a[i] = x
  <2>1. IsFiniteSet(adds) /\ adds \subseteq Tidings /\ IsFiniteSet(drops) /\ drops \subseteq Tidings
    BY TidingSetsFinite
  <2>2. a \in Seq(adds) /\ d \in Seq(drops) /\ \A x \in adds : \E i \in 1..Len(a) : a[i] = x
    BY <2>1, ListOfSet
  <2> QED
    BY <2>1, <2>2, SeqMonotonic
<1>2. PICK n \in Nat : n = Len(q)
  BY LenProperties
<1>3. PICK na \in Nat : na = Len(a)
  BY <1>1, LenProperties
<1>4. PICK nd \in Nat : nd = Len(d)
  BY <1>1, LenProperties
<1>5. /\ \A i \in 1..na : a[i] \in adds
      /\ \A i \in 1..nd : d[i] \in drops
  BY <1>1, <1>3, <1>4, ElementOfSeq
<1> HIDE DEF a, d
<1>6. /\ q \o a \in Seq(Tidings) /\ Len(q \o a) = n + na
      /\ \A i \in 1..(n + na) : (q \o a)[i] = IF i <= n THEN q[i] ELSE a[i - n]
  BY <1>1, <1>2, <1>3, ConcatProperties
<1>7. r = (q \o a) \o d
  BY DEF Reported, a, d
<1>8. /\ r \in Seq(Tidings) /\ Len(r) = (n + na) + nd
      /\ \A i \in 1..((n + na) + nd) :
           r[i] = IF i <= n + na THEN (q \o a)[i] ELSE d[i - (n + na)]
  <2>1. /\ (q \o a) \o d \in Seq(Tidings) /\ Len((q \o a) \o d) = Len(q \o a) + Len(d)
        /\ \A i \in 1..(Len(q \o a) + Len(d)) :
             ((q \o a) \o d)[i] = IF i <= Len(q \o a) THEN (q \o a)[i] ELSE d[i - Len(q \o a)]
    <3>1. PICK b \in Seq(Tidings) : b = q \o a
      BY <1>6
    <3>2. /\ b \o d \in Seq(Tidings) /\ Len(b \o d) = Len(b) + Len(d)
          /\ \A i \in 1..(Len(b) + Len(d)) : (b \o d)[i] = IF i <= Len(b) THEN b[i] ELSE d[i - Len(b)]
      BY ONLY <1>1, ConcatProperties
    <3> QED
      BY ONLY <3>1, <3>2
  <2> QED
    BY <1>4, <1>6, <1>7, <2>1
<1> HIDE DEF r
<1>9. \A i \in 1..n : i \in 1..Len(r) /\ r[i] = q[i]
  <2>1. SUFFICES ASSUME NEW i \in 1..n
                 PROVE  i \in 1..Len(r) /\ r[i] = q[i]
    OBVIOUS
  <2>2. i \in 1..(n + na) /\ i <= n /\ i \in 1..((n + na) + nd) /\ i <= n + na
    OBVIOUS
  <2> QED
    BY <1>6, <1>8, <2>2
<1>10. \A i \in 1..na : n + i \in 1..Len(r) /\ r[n + i] = a[i]
  <2>1. SUFFICES ASSUME NEW i \in 1..na
                 PROVE  n + i \in 1..Len(r) /\ r[n + i] = a[i]
    OBVIOUS
  <2>2. n + i \in 1..(n + na) /\ ~(n + i <= n) /\ (n + i) - n = i
    OBVIOUS
  <2>3. (q \o a)[n + i] = a[i]
    BY <1>6, <2>2
  <2>4. n + i \in 1..((n + na) + nd) /\ n + i <= n + na
    OBVIOUS
  <2> QED
    BY <1>8, <2>3, <2>4
<1>11. \A i \in 1..Len(r) :
         \/ i \in 1..n
         \/ i - n \in 1..na /\ r[i] = a[i - n]
         \/ i - (n + na) \in 1..nd /\ r[i] = d[i - (n + na)]
  <2>1. SUFFICES ASSUME NEW i \in 1..((n + na) + nd), i \notin 1..n
                 PROVE  \/ i - n \in 1..na /\ r[i] = a[i - n]
                        \/ i - (n + na) \in 1..nd /\ r[i] = d[i - (n + na)]
    BY <1>8
  <2>2. CASE i <= n + na
    <3>1. i \in 1..(n + na) /\ ~(i <= n) /\ i - n \in 1..na
      BY <2>1, <2>2
    <3> QED
      BY <1>6, <1>8, <2>2, <3>1
  <2>3. CASE ~(i <= n + na)
    <3>1. i - (n + na) \in 1..nd
      BY <2>3
    <3> QED
      BY <1>8, <2>3, <3>1
  <2> QED
    BY <2>2, <2>3
<1>12. ASSUME Tells(q, TRUE, p)
       PROVE  Tells(r, TRUE, p)
  BY <1>2, <1>9, <1>12 DEF Tells
<1>13. ASSUME p \in A
       PROVE  \E k \in 1..Len(r) : k > n /\ r[k] = <<TRUE, p>>
  <2>1. <<TRUE, p>> \in adds
    BY <1>13
  <2>2. PICK i \in 1..na : a[i] = <<TRUE, p>>
    BY <1>1, <1>3, <2>1
  <2>3. n + i \in 1..Len(r) /\ r[n + i] = a[i]
    BY <1>10
  <2>4. r[n + i] = <<TRUE, p>>
    BY <2>2, <2>3
  <2>5. n + i > n
    OBVIOUS
  <2> QED
    BY <2>3, <2>4, <2>5
<1>14. ASSUME p \in A \/ Restores(q, p)
       PROVE  Restores(r, p)
  <2>1. SUFFICES ASSUME NEW j \in 1..Len(r), r[j] = <<FALSE, p>>
                 PROVE  \E k \in 1..Len(r) : k > j /\ r[k] = <<TRUE, p>>
    BY DEF Restores
  <2>2. j \in 1..n
    <3>1. ASSUME j - n \in 1..na, r[j] = a[j - n]
          PROVE  FALSE
      <4>1. <<FALSE, p>> \in adds
        BY <1>5, <2>1, <3>1
      <4> QED
        BY <4>1
    <3>2. ASSUME j - (n + na) \in 1..nd, r[j] = d[j - (n + na)]
          PROVE  FALSE
      <4>1. <<FALSE, p>> \in drops
        BY <1>5, <2>1, <3>2
      <4> QED
        BY <4>1
    <3> QED
      BY <1>11, <3>1, <3>2
  <2>3. CASE p \in A
    <3>1. PICK k \in 1..Len(r) : k > n /\ r[k] = <<TRUE, p>>
      BY <1>13, <2>3
    <3>2. k \in Nat /\ k > j
      BY <1>8, <2>2, <3>1
    <3> QED
      BY <3>1, <3>2
  <2>4. CASE Restores(q, p)
    <3>1. q[j] = <<FALSE, p>>
      BY <1>9, <2>1, <2>2
    <3>2. PICK k \in 1..n : k > j /\ q[k] = <<TRUE, p>>
      BY <1>2, <2>2, <2>4, <3>1 DEF Restores
    <3> QED
      BY <1>9, <3>2
  <2> QED
    BY <1>14, <2>3, <2>4
<1>15. p \in A => Tells(r, TRUE, p)
  BY <1>13 DEF Tells
<1> QED
  BY <1>8, <1>12, <1>14, <1>15 DEF r

-----------------------------------------------------------------------------
(* The streamer's value reaches what its subscribers have coming.            *)
LEMMA ValueChangesInv ==
  ASSUME ReceiverInv, ValueChanges
  PROVE  ReceiverInv'
<1> USE DEF ReceiverInv
<1>1. PICK p \in Paths :
        /\ sent' = [sent EXCEPT ![p] = changes + 1]
        /\ Mailed(p, changes + 1)
  BY DEF ValueChanges
<1>2. changes \in Nat /\ changes' = changes + 1 /\ changes + 1 \in Nat /\ changes + 1 # Garbled
  BY DEF ValueChanges, Changed, ReceiverTypeOK, Garbled
<1> DEFINE m == <<p, changes + 1>>
<1>3. m \in Mails /\ m[1] = p /\ m[2] = changes + 1
  BY <1>2 DEF Mails
<1>4. mail \in Seq(Mails) /\ sent \in [Paths -> Nat]
  BY DEF ReceiverTypeOK
<1>5. /\ sent' \in [Paths -> Nat] /\ sent'[p] = changes + 1
      /\ \A x \in Paths : x # p => sent'[x] = sent[x]
  BY <1>1, <1>2, <1>4
<1>6. /\ UNCHANGED <<asks, synced, filter, tidings, reach, owed, due>>
      /\ UNCHANGED <<inbox, told, place>>
  BY DEF ValueChanges, subscriptionState
<1> DEFINE fits == Wanted(reach, p) /\ Len(mail) < MailLimit
<1> HIDE DEF m
<1>7. /\ mail' = IF fits THEN Append(mail, m) ELSE mail
      /\ dropped' \subseteq dropped \cup {p} /\ \A x \in dropped : x # p => x \in dropped'
      /\ Wanted(reach, p) /\ ~fits => p \in dropped'
  BY <1>1, <1>2 DEF m, Mailed, mailState
<1>8. mail' \in Seq(Mails)
  BY <1>3, <1>4, <1>7, AppendProperties
<1>9. ReceiverTypeOK'
  BY <1>2, <1>5, <1>6, <1>7, <1>8 DEF ReceiverTypeOK
<1>10. FilterInv'
  <2>1. reach = {} => mail' = mail
    BY <1>7 DEF Wanted
  <2> QED
    BY <1>6, <2>1 DEF FilterInv
<1>11. ReachInv'
  BY <1>6 DEF ReachInv
<1>12. \A x \in Paths : x # p => ~IsValue(m, x)
  BY <1>3 DEF IsValue
<1>13. ASSUME NEW x \in filter \cap Readable
       PROVE  (Tells(tidings, TRUE, x) \/ Awaited(x) \/ OnWay(x))'
  <2>1. x \in Paths /\ sent[x] \in Nat
    BY <1>4 DEF Paths
  <2>2. Tells(tidings, TRUE, x) \/ Awaited(x) \/ OnWay(x)
    BY <1>13 DEF CoveredInv
  <2>3. CASE Tells(tidings, TRUE, x) \/ (x # p /\ Awaited(x))
    BY <1>6, <1>7, <2>3 DEF Awaited
  <2>4. CASE x = p /\ ~Tells(tidings, TRUE, x)
    <3>1. Wanted(reach, p)
      BY <1>13, <2>4 DEF ReachInv, Wanted
    <3>2. CASE fits
      <4>1. mail' = Append(mail, m) /\ m = <<p, sent'[p]>> /\ IsValue(m, p)
        BY <1>2, <1>3, <1>5, <1>7, <3>2 DEF m, IsValue
      <4>2. EndsWith(mail', p, sent'[p]) /\ Holds(mail', p)
        BY <1>2, <1>3, <1>4, <1>5, <4>1, MailAdded
      <4> QED
        BY <2>4, <4>2 DEF OnWay
    <3>3. CASE ~fits
      BY <1>7, <2>4, <3>1, <3>3 DEF Awaited
    <3> QED
      BY <3>2, <3>3
  <2>5. CASE x # p /\ OnWay(x)
    <3>1. sent'[x] = sent[x] /\ ~IsValue(m, x)
      BY <1>5, <1>12, <2>1, <2>5
    <3>2. /\ EndsWith(mail, x, sent[x]) => EndsWith(mail', x, sent[x])
          /\ Holds(mail', x) <=> Holds(mail, x)
      BY <1>3, <1>4, <1>7, <2>1, <3>1, MailAdded
    <3> QED
      BY <1>6, <2>5, <3>1, <3>2 DEF OnWay
  <2> QED
    BY <2>2, <2>3, <2>4, <2>5
<1>14. CoveredInv'
  BY <1>6, <1>13 DEF CoveredInv
<1>15. SentInv'
  <2>1. ASSUME NEW x \in Paths, sent'[x] = 0
        PROVE  told'[x] = 0 /\ ~Holds(mail', x) /\ ~Holds(inbox', x)
    <3>1. x # p
      BY <1>2, <1>5, <2>1 DEF Garbled
    <3>2. sent[x] = 0 /\ ~IsValue(m, x)
      BY <1>5, <1>12, <2>1, <3>1
    <3>3. Holds(mail', x) <=> Holds(mail, x)
      BY <1>2, <1>3, <1>4, <1>7, <3>2, MailAdded
    <3> QED
      BY <1>6, <3>2, <3>3 DEF SentInv
  <2> QED
    BY <1>6, <2>1 DEF SentInv
<1> QED
  BY <1>9, <1>10, <1>11, <1>14, <1>15

(* A value the library cannot read does not count as one.                    *)
LEMMA GarblesInv ==
  ASSUME ReceiverInv, Garbles
  PROVE  ReceiverInv'
<1> USE DEF ReceiverInv
<1>1. PICK p \in Paths : Mailed(p, Garbled)
  BY DEF Garbles
<1> DEFINE fits == Wanted(reach, p) /\ Len(mail) < MailLimit
<1> DEFINE m == <<p, Garbled>>
<1>2. m \in Mails /\ \A x \in Paths : ~IsValue(m, x)
  BY DEF Mails, Garbled, IsValue
<1>3. /\ mail \in Seq(Mails) /\ sent \in [Paths -> Nat] /\ changes' \in Nat
      /\ UNCHANGED <<asks, synced, filter, tidings, reach, owed, due>>
      /\ UNCHANGED <<inbox, told, place, sent, dropped>>
  BY <1>1 DEF Garbles, Changed, subscriptionState, mailState, Mailed, ReceiverTypeOK
<1> HIDE DEF m
<1>4. mail' = IF fits THEN Append(mail, m) ELSE mail
  BY <1>1 DEF m, Mailed, mailState
<1>5. \A x \in Paths : /\ mail' \in Seq(Mails)
                       /\ Holds(mail', x) <=> Holds(mail, x)
                       /\ EndsWith(mail, x, sent[x]) => EndsWith(mail', x, sent[x])
  BY <1>2, <1>3, <1>4, MailAdded
<1>6. ReceiverTypeOK'
  BY <1>1, <1>3, <1>5 DEF ReceiverTypeOK
<1>7. FilterInv'
  <2>1. reach = {} => mail' = mail
    BY <1>4 DEF Wanted
  <2> QED
    BY <1>3, <2>1 DEF FilterInv
<1>8. ReachInv'
  BY <1>3 DEF ReachInv
<1>9. ASSUME NEW x \in filter \cap Readable
      PROVE  (Tells(tidings, TRUE, x) \/ Awaited(x) \/ OnWay(x))'
  <2>1. x \in Paths
    BY DEF Paths
  <2>2. Tells(tidings, TRUE, x) \/ Awaited(x) \/ OnWay(x)
    BY <1>9 DEF CoveredInv
  <2>3. OnWay(x) => OnWay(x)'
    BY <1>3, <1>5, <2>1 DEF OnWay
  <2> QED
    BY <1>3, <2>2, <2>3 DEF Awaited
<1>10. CoveredInv'
  BY <1>3, <1>9 DEF CoveredInv
<1>11. SentInv'
  BY <1>3, <1>5 DEF SentInv
<1> QED
  BY <1>6, <1>7, <1>8, <1>10, <1>11

(* A new subscription is owed the last value.                                *)
LEMMA SubscriptionArrivesInv ==
  ASSUME ReceiverInv, SubscriptionArrives
  PROVE  ReceiverInv'
<1> USE DEF ReceiverInv
<1> DEFINE h == Head(tidings)
<1>1. /\ tidings \in Seq(Tidings) /\ tidings # <<>> /\ tidings' = Tail(tidings)
      /\ UNCHANGED <<asks, synced, filter>>
      /\ UNCHANGED <<due, dropped, mail, inbox, told, place, sent, changes>>
  BY DEF SubscriptionArrives, mailState, ReceiverTypeOK
<1>2. h \in Tidings /\ tidings' \in Seq(Tidings)
  BY <1>1, HeadTailProperties
<1>3. h[1] \in BOOLEAN /\ h[2] \in AllTopics /\ h = <<h[1], h[2]>>
  BY <1>2 DEF Tidings
<1>4. /\ reach' = IF h[1] THEN reach \cup {h[2]} ELSE reach \ {h[2]}
      /\ owed' = IF h[1] THEN [owed EXCEPT ![h[2]] = @ + 1] ELSE owed
  BY DEF SubscriptionArrives
<1> HIDE DEF h
<1>41. /\ owed \in [AllTopics -> Nat] /\ owed' \in [AllTopics -> Nat]
       /\ \A x \in AllTopics : owed'[x] >= owed[x]
       /\ h[1] => owed'[h[2]] > 0
  <2>1. owed \in [AllTopics -> Nat]
    BY DEF ReceiverTypeOK
  <2> QED
    BY <1>3, <1>4, <2>1
<1>5. ReceiverTypeOK'
  <2>1. reach' \subseteq AllTopics
    BY <1>3, <1>4 DEF ReceiverTypeOK
  <2> QED
    BY <1>1, <1>2, <1>41, <2>1 DEF ReceiverTypeOK
<1>6. FilterInv'
  BY <1>1 DEF FilterInv
<1>7. ASSUME NEW p \in filter
      PROVE  /\ Restores(tidings', p)
             /\ p \in reach' \/ Tells(tidings', TRUE, p)
             /\ Tells(tidings, TRUE, p) => h = <<TRUE, p>> \/ Tells(tidings', TRUE, p)
  <2>1. p \in AllTopics /\ Restores(tidings, p) /\ (p \in reach \/ Tells(tidings, TRUE, p))
    BY <1>7 DEF ReceiverTypeOK, ReachInv
  <2>2. /\ Tells(tidings, TRUE, p) => h = <<TRUE, p>> \/ Tells(tidings', TRUE, p)
        /\ Restores(tidings, p) => Restores(tidings', p)
        /\ Restores(tidings, p) /\ h = <<FALSE, p>> => Tells(tidings', TRUE, p)
    BY <1>1, <2>1, TidingTaken DEF h
  <2>3. CASE p \in reach
    <3>1. p \in reach' \/ (~h[1] /\ h[2] = p)
      BY <1>3, <1>4, <2>3
    <3>2. ~h[1] /\ h[2] = p => h = <<FALSE, p>>
      BY <1>3, Zenon
    <3> QED
      BY <2>1, <2>2, <3>1, <3>2
  <2>4. CASE h = <<TRUE, p>>
    <3>1. h[1] /\ h[2] = p
      BY <2>4
    <3> QED
      BY <1>4, <2>1, <2>2, <3>1
  <2> QED
    BY <2>1, <2>2, <2>3, <2>4
<1>8. ReachInv'
  BY <1>1, <1>7 DEF ReachInv
<1>9. ASSUME NEW p \in filter \cap Readable
      PROVE  (Tells(tidings, TRUE, p) \/ Awaited(p) \/ OnWay(p))'
  <2>1. Tells(tidings, TRUE, p) \/ Awaited(p) \/ OnWay(p)
    BY <1>9 DEF CoveredInv
  <2>2. CASE h = <<TRUE, p>>
    <3>1. h[1] /\ h[2] = p
      BY <2>2
    <3> QED
      BY <1>41, <3>1 DEF Awaited
  <2>3. CASE h # <<TRUE, p>> /\ Tells(tidings, TRUE, p)
    BY <1>7, <2>3
  <2>4. CASE Awaited(p)
    <3>1. p \in AllTopics
      BY DEF AllTopics, Paths
    <3>2. owed[p] > 0 => owed'[p] > 0
      BY <1>41, <3>1
    <3>3. due' = due /\ dropped' = dropped
      BY <1>1
    <3> QED
      BY <2>4, <3>2, <3>3 DEF Awaited
  <2>5. CASE OnWay(p)
    BY <1>1, <2>5 DEF OnWay
  <2> QED
    BY <2>1, <2>2, <2>3, <2>4, <2>5
<1>10. CoveredInv'
  BY <1>1, <1>9 DEF CoveredInv
<1>11. SentInv'
  BY <1>1 DEF SentInv
<1> QED
  BY <1>5, <1>6, <1>8, <1>10, <1>11

(* A thread that has waited puts its address on the queue, or it is lost.    *)
LEMMA AnswerIsDueInv ==
  ASSUME ReceiverInv, AnswerIsDue
  PROVE  ReceiverInv'
<1> USE DEF ReceiverInv
<1>1. PICK p \in AllTopics :
        /\ owed[p] > 0
        /\ owed' = [owed EXCEPT ![p] = @ - 1]
        /\ \/ /\ due' = IF p = AllPaths THEN due ELSE Append(due, p)
              /\ UNCHANGED dropped
           \/ /\ dropped' = dropped \cup ({p} \cap Paths)
              /\ UNCHANGED due
  BY DEF AnswerIsDue, AllTopics
<1>2. /\ UNCHANGED <<asks, synced, filter, tidings, reach, mail, inbox, told, place, sent>>
      /\ UNCHANGED changes
  BY DEF AnswerIsDue
<1>3. owed \in [AllTopics -> Nat] /\ due \in Seq(Paths) /\ dropped \subseteq Paths
  BY DEF ReceiverTypeOK
<1>4. owed' \in [AllTopics -> Nat] /\ \A x \in AllTopics : x # p => owed'[x] = owed[x]
  BY <1>1, <1>3
<1>5. p # AllPaths => p \in Paths
  BY DEF AllTopics
<1>6. /\ due' \in Seq(Paths) /\ dropped' \subseteq Paths
      /\ \A x \in Paths : OnQueue(due, x) => OnQueue(due', x)
      /\ p \in Paths => OnQueue(due', p) \/ p \in dropped'
      /\ dropped \subseteq dropped'
  <2>1. AllPaths \notin Paths
    BY ReceiverAssumption
  <2>2. CASE p # AllPaths /\ due' = Append(due, p) /\ UNCHANGED dropped
    <3>1. /\ due' \in Seq(Paths) /\ Len(due') = Len(due) + 1 /\ Len(due) \in Nat
          /\ due'[Len(due) + 1] = p /\ \A i \in 1..Len(due) : due'[i] = due[i]
      BY <1>3, <1>5, <2>2
    <3>2. Len(due) + 1 \in 1..Len(due') /\ \A i \in 1..Len(due) : i \in 1..Len(due')
      BY <3>1
    <3> QED
      BY <1>3, <2>2, <3>1, <3>2 DEF OnQueue
  <2>3. CASE p = AllPaths /\ UNCHANGED <<due, dropped>>
    BY <1>3, <2>1, <2>3
  <2>4. CASE dropped' = dropped \cup ({p} \cap Paths) /\ UNCHANGED due
    BY <1>3, <2>4
  <2> QED
    BY <1>1, <2>2, <2>3, <2>4
<1>7. ReceiverTypeOK' /\ FilterInv' /\ ReachInv' /\ SentInv'
  BY <1>2, <1>4, <1>6 DEF ReceiverTypeOK, FilterInv, ReachInv, SentInv
<1>8. ASSUME NEW x \in filter \cap Readable
      PROVE  (Tells(tidings, TRUE, x) \/ Awaited(x) \/ OnWay(x))'
  <2>1. x \in Paths /\ x \in AllTopics
    BY DEF Paths, AllTopics
  <2>2. Tells(tidings, TRUE, x) \/ Awaited(x) \/ OnWay(x)
    BY <1>8 DEF CoveredInv
  <2>3. Awaited(x) => Awaited(x)'
    BY <1>4, <1>6, <2>1 DEF Awaited
  <2>4. OnWay(x) => OnWay(x)'
    BY <1>2 DEF OnWay
  <2> QED
    BY <1>2, <2>2, <2>3, <2>4
<1>9. CoveredInv'
  BY <1>2, <1>8 DEF CoveredInv
<1> QED
  BY <1>7, <1>9

(* It is answered, unless there is no value yet.                             *)
LEMMA LastValueSentInv ==
  ASSUME ReceiverInv, LastValueSent
  PROVE  ReceiverInv'
<1> USE DEF ReceiverInv
<1>0. /\ due \in Seq(Paths) /\ due # <<>> /\ due' = Tail(due)
      /\ Head(due) \in Paths /\ due' \in Seq(Paths)
      /\ \A x : OnQueue(due, x) => x = Head(due) \/ OnQueue(due', x)
  <2>1. due \in Seq(Paths) /\ due # <<>> /\ due' = Tail(due)
    BY DEF LastValueSent, ReceiverTypeOK
  <2>2. /\ Len(due) \in Nat \ {0} /\ Head(due) = due[1] /\ Head(due) \in Paths
        /\ Len(Tail(due)) = Len(due) - 1 /\ Tail(due) \in Seq(Paths)
        /\ \A i \in 1..Len(Tail(due)) : Tail(due)[i] = due[i + 1]
    BY <2>1, EmptySeq, HeadTailProperties
  <2>3. ASSUME NEW x, NEW i \in 1..Len(due), due[i] = x, x # Head(due)
        PROVE  OnQueue(due', x)
    <3>1. i # 1
      BY <2>2, <2>3
    <3>2. i - 1 \in 1..Len(Tail(due)) /\ (i - 1) + 1 = i
      BY <2>2, <3>1
    <3>3. Tail(due)[i - 1] = x
      BY <2>2, <2>3, <3>2
    <3> QED
      BY <2>1, <3>2, <3>3 DEF OnQueue
  <2> QED
    BY <2>1, <2>2, <2>3 DEF OnQueue
<1>1. PICK p \in Paths : p = Head(due)
  BY <1>0
<1> DEFINE m == <<p, sent[p]>>
           fits == sent[p] # 0 /\ Wanted(reach, p) /\ Len(mail) < MailLimit
<1>2. /\ mail \in Seq(Mails) /\ sent \in [Paths -> Nat] /\ p \in Paths
      /\ UNCHANGED <<asks, synced, filter, tidings, reach, owed>>
      /\ UNCHANGED <<inbox, told, place, sent, changes>>
  BY DEF LastValueSent, ReceiverTypeOK
<1>21. /\ mail' = IF fits THEN Append(mail, m) ELSE mail
       /\ dropped' \subseteq dropped \cup {p} /\ \A x \in dropped : x # p => x \in dropped'
       /\ sent[p] # 0 /\ Wanted(reach, p) /\ ~fits => p \in dropped'
  <2>1. IF sent[p] = 0 THEN UNCHANGED mailState ELSE Mailed(p, sent[p])
    BY <1>1 DEF LastValueSent
  <2> QED
    BY <2>1 DEF Mailed, mailState, Garbled
<1>3. m \in Mails /\ m[1] = p /\ m[2] = sent[p]
  BY <1>2 DEF Mails
<1>4. /\ IsValue(m, p) <=> sent[p] # 0
      /\ \A x \in Paths : x # p => ~IsValue(m, x)
  BY <1>3 DEF IsValue, Garbled
<1>5. ASSUME NEW x \in Paths
      PROVE  /\ mail' \in Seq(Mails)
             /\ Holds(mail', x) => Holds(mail, x) \/ (x = p /\ sent[p] # 0)
             /\ Holds(mail, x) => Holds(mail', x)
             /\ x # p /\ EndsWith(mail, x, sent[x]) => EndsWith(mail', x, sent[x])
             /\ fits => EndsWith(mail', p, sent[p]) /\ Holds(mail', p)
  <2>1. sent[x] \in Nat /\ sent[p] \in Nat
    BY <1>2
  <2>2. /\ Append(mail, m) \in Seq(Mails)
        /\ Holds(Append(mail, m), x) <=> Holds(mail, x) \/ IsValue(m, x)
        /\ EndsWith(mail, x, sent[x]) /\ ~IsValue(m, x) => EndsWith(Append(mail, m), x, sent[x])
    BY <1>2, <1>3, <2>1, MailAdded
  <2>3. /\ EndsWith(Append(mail, m), p, sent[p])
        /\ Holds(Append(mail, m), p) <=> Holds(mail, p) \/ IsValue(m, p)
    BY <1>2, <1>3, <2>1, MailAdded
  <2>4. mail' = IF fits THEN Append(mail, m) ELSE mail
    BY <1>21
  <2> HIDE DEF m
  <2> QED
    BY <1>2, <1>4, <2>2, <2>3, <2>4
<1>6. ReceiverTypeOK'
  <2>1. mail' \in Seq(Mails)
    BY <1>5
  <2> QED
    BY <1>0, <1>2, <1>21, <2>1 DEF ReceiverTypeOK
<1>7. FilterInv'
  <2>1. reach = {} => mail' = mail
    BY <1>21 DEF Wanted
  <2> QED
    BY <1>2, <2>1 DEF FilterInv
<1>8. ReachInv'
  BY <1>2 DEF ReachInv
<1>9. ASSUME NEW x \in filter \cap Readable
      PROVE  (Tells(tidings, TRUE, x) \/ Awaited(x) \/ OnWay(x))'
  <2>1. x \in Paths
    BY DEF Paths
  <2>2. Tells(tidings, TRUE, x) \/ Awaited(x) \/ OnWay(x)
    BY <1>9 DEF CoveredInv
  <2>3. CASE Tells(tidings, TRUE, x)
    BY <1>2, <2>3
  <2>4. CASE x = p /\ ~Tells(tidings, TRUE, x)
    <3>1. Wanted(reach, p)
      BY <1>9, <2>4 DEF ReachInv, Wanted
    <3>2. CASE sent[p] # 0
      <4>1. CASE fits
        <5>1. EndsWith(mail', p, sent[p]) /\ Holds(mail', p)
          BY <1>5, <2>1, <4>1
        <5> QED
          BY <1>2, <2>4, <5>1 DEF OnWay
      <4>2. CASE ~fits
        BY <1>21, <2>4, <3>1, <3>2, <4>2 DEF Awaited
      <4> QED
        BY <4>1, <4>2
    <3>3. CASE sent[p] = 0
      <4>1. told[p] = sent[p] /\ ~Holds(mail, p) /\ ~Holds(inbox, p)
        BY <1>2, <3>3 DEF SentInv
      <4>2. ~Holds(mail', p)
        BY <1>2, <1>5, <3>3, <4>1
      <4>3. EndsWith(mail', p, sent[p]) /\ EndsWith(inbox, p, sent[p])
        BY <4>1, <4>2 DEF Holds, EndsWith
      <4> QED
        BY <1>2, <2>4, <4>1, <4>3 DEF OnWay
    <3> QED
      BY <3>2, <3>3
  <2>5. CASE x # p /\ Awaited(x)
    BY <1>0, <1>1, <1>2, <1>21, <2>5 DEF Awaited
  <2>6. CASE x # p /\ OnWay(x)
    <3>1. EndsWith(mail', x, sent[x]) /\ (Holds(mail', x) <=> Holds(mail, x))
      BY <1>5, <2>1, <2>6 DEF OnWay
    <3> QED
      BY <1>2, <2>6, <3>1 DEF OnWay
  <2> QED
    BY <2>2, <2>3, <2>4, <2>5, <2>6
<1>10. CoveredInv'
  BY <1>2, <1>9 DEF CoveredInv
<1>11. SentInv'
  BY <1>2, <1>5 DEF SentInv
<1> QED
  BY <1>6, <1>7, <1>8, <1>10, <1>11

(* What the client dequeues is older than what follows it in the queue.      *)
LEMMA DequeueMessageInv ==
  ASSUME ReceiverInv, DequeueMessage
  PROVE  ReceiverInv'
<1> USE DEF ReceiverInv
<1> DEFINE m == Head(inbox)
<1>1. /\ inbox \in Seq(Mails) /\ inbox # <<>> /\ inbox' = Tail(inbox)
      /\ sent \in [Paths -> Nat] /\ told \in [Paths -> Nat]
      /\ UNCHANGED <<asks, synced, filter, tidings, reach, owed, due>>
      /\ UNCHANGED <<mail, dropped, place, sent, changes>>
      /\ told' = IF m[1] \in Readable THEN [told EXCEPT ![m[1]] = m[2]] ELSE told
  BY DEF DequeueMessage, subscriptionState, mailState, ReceiverTypeOK
<1>2. m \in Mails /\ inbox' \in Seq(Mails)
  BY <1>1, HeadTailProperties
<1>3. m[1] \in Paths /\ m[2] \in Nat /\ m = <<m[1], m[2]>>
  BY <1>2 DEF Mails
<1>4. /\ m[2] # Garbled
      /\ \A j \in 1..Len(inbox') : inbox'[j][2] # Garbled
  <2>1. /\ Len(inbox) \in Nat \ {0} /\ Head(inbox) = inbox[1]
        /\ Len(Tail(inbox)) = Len(inbox) - 1
        /\ \A i \in 1..Len(Tail(inbox)) : Tail(inbox)[i] = inbox[i + 1]
    BY <1>1, EmptySeq, HeadTailProperties
  <2>2. \A j \in 1..Len(inbox) : inbox[j][2] # Garbled
    BY DEF SentInv
  <2>3. 1 \in 1..Len(inbox) /\ \A i \in 1..Len(Tail(inbox)) : i + 1 \in 1..Len(inbox)
    BY <2>1
  <2> QED
    BY <1>1, <2>1, <2>2, <2>3
<1> HIDE DEF m
<1>5. /\ told' \in [Paths -> Nat]
      /\ \A x \in Paths :
           told'[x] = IF x \in Readable /\ m[1] = x THEN m[2] ELSE told[x]
  BY <1>1, <1>3
<1>6. ASSUME NEW x \in Paths
      PROVE  /\ Holds(inbox, x) <=> Holds(inbox', x) \/ m[1] = x
             /\ EndsWith(inbox, x, sent[x]) => EndsWith(inbox', x, sent[x])
             /\ EndsWith(inbox, x, sent[x]) /\ sent[x] # 0 /\ m[1] = x /\ ~Holds(inbox', x)
                  => m[2] = sent[x]
  <2>1. sent[x] \in Nat
    BY <1>1
  <2>2. IsValue(m, x) <=> m[1] = x
    BY <1>4 DEF IsValue
  <2>3. /\ Holds(inbox, x) <=> Holds(inbox', x) \/ IsValue(m, x)
        /\ EndsWith(inbox, x, sent[x]) => EndsWith(inbox', x, sent[x])
        /\ EndsWith(inbox, x, sent[x]) /\ sent[x] # 0 /\ IsValue(m, x) /\ ~Holds(inbox', x)
             => m = <<x, sent[x]>>
    BY <1>1, <2>1, MailTaken DEF m, Garbled
  <2> QED
    BY <2>2, <2>3
<1>7. ReceiverTypeOK'
  BY <1>1, <1>2, <1>5 DEF ReceiverTypeOK
<1>8. FilterInv'
  BY <1>1 DEF FilterInv
<1>9. ReachInv'
  BY <1>1 DEF ReachInv
<1>10. ASSUME NEW x \in Paths, sent[x] = 0
       PROVE  told'[x] = 0 /\ ~Holds(mail, x) /\ ~Holds(inbox', x)
  <2>1. told[x] = 0 /\ ~Holds(mail, x) /\ ~Holds(inbox, x)
    BY <1>10 DEF SentInv
  <2>2. ~Holds(inbox', x) /\ m[1] # x
    BY <1>6, <2>1
  <2> QED
    BY <1>5, <2>1, <2>2
<1>11. SentInv'
  BY <1>1, <1>4, <1>10 DEF SentInv
<1>12. ASSUME NEW x \in filter \cap Readable
       PROVE  (Tells(tidings, TRUE, x) \/ Awaited(x) \/ OnWay(x))'
  <2>1. x \in Paths
    BY DEF Paths
  <2>2. Tells(tidings, TRUE, x) \/ Awaited(x) \/ OnWay(x)
    BY <1>12 DEF CoveredInv
  <2>3. CASE Tells(tidings, TRUE, x) \/ Awaited(x)
    BY <1>1, <2>3 DEF Awaited
  <2>4. CASE OnWay(x) /\ Holds(mail, x)
    BY <1>1, <2>4 DEF OnWay
  <2>5. CASE OnWay(x) /\ ~Holds(mail, x)
    <3>1. EndsWith(inbox, x, sent[x]) /\ (Holds(inbox, x) \/ told[x] = sent[x])
      BY <2>5 DEF OnWay
    <3>2. Holds(inbox', x) \/ told'[x] = sent[x]
      <4>1. CASE m[1] # x
        BY <1>5, <1>6, <2>1, <3>1, <4>1
      <4>2. CASE m[1] = x /\ ~Holds(inbox', x)
        <5>1. sent[x] # 0
          BY <1>6, <2>1, <4>2 DEF SentInv
        <5>2. m[2] = sent[x]
          BY <1>6, <2>1, <3>1, <4>2, <5>1
        <5> QED
          BY <1>5, <1>12, <2>1, <4>2, <5>2
      <4> QED
        BY <4>1, <4>2
    <3>3. EndsWith(inbox', x, sent[x])
      BY <1>6, <2>1, <3>1
    <3> QED
      BY <1>1, <2>5, <3>2, <3>3 DEF OnWay
  <2> QED
    BY <2>2, <2>3, <2>4, <2>5
<1>13. CoveredInv'
  BY <1>1, <1>12 DEF CoveredInv
<1> QED
  BY <1>7, <1>8, <1>9, <1>11, <1>13

(* A message the socket subscribes to moves to the end of the queue.         *)
LEMMA ReceiveMessageInv ==
  ASSUME ReceiverInv, ReceiveMessage
  PROVE  ReceiverInv'
<1> USE DEF ReceiverInv
<1> DEFINE m == Head(mail)
<1>1. /\ mail \in Seq(Mails) /\ mail # <<>> /\ mail' = Tail(mail)
      /\ inbox \in Seq(Mails) /\ sent \in [Paths -> Nat] /\ told \in [Paths -> Nat]
      /\ UNCHANGED <<asks, synced, filter, tidings, reach, owed, due>>
      /\ UNCHANGED <<dropped, told, sent, changes>>
      /\ place \in {"wait", "drain"}
      /\ inbox' = IF Wanted(filter, m[1]) /\ m[2] # Garbled THEN Append(inbox, m) ELSE inbox
      /\ place' \in {"wait", "drain"}
  BY DEF ReceiveMessage, subscriptionState, ReceiverTypeOK
<1>2. m \in Mails /\ mail' \in Seq(Mails)
  BY <1>1, HeadTailProperties
<1>3. m[1] \in Paths /\ m[2] \in Nat /\ m = <<m[1], m[2]>>
  BY <1>2 DEF Mails
<1>4. ASSUME NEW x \in Paths
      PROVE  /\ Holds(mail, x) <=> Holds(mail', x) \/ IsValue(m, x)
             /\ EndsWith(mail, x, sent[x]) => EndsWith(mail', x, sent[x])
             /\ EndsWith(mail, x, sent[x]) /\ sent[x] # 0 /\ IsValue(m, x) /\ ~Holds(mail', x)
                  => m = <<x, sent[x]>>
  BY <1>1, <1>4, MailTaken DEF Garbled
<1> HIDE DEF m
<1>5. /\ inbox' \in Seq(Mails)
      /\ \A j \in 1..Len(inbox') : inbox'[j][2] # Garbled
  <2>1. \A j \in 1..Len(inbox) : inbox[j][2] # Garbled
    BY DEF SentInv
  <2>2. CASE inbox' = inbox
    BY <1>1, <2>1, <2>2
  <2>3. CASE inbox' = Append(inbox, m) /\ m[2] # Garbled
    <3>1. /\ inbox' \in Seq(Mails) /\ Len(inbox') = Len(inbox) + 1 /\ inbox'[Len(inbox) + 1] = m
          /\ \A i \in 1..Len(inbox) : inbox'[i] = inbox[i]
      BY <1>1, <1>2, <2>3, AppendProperties
    <3>2. Len(inbox) \in Nat
      BY <1>1, LenProperties
    <3>3. \A j \in 1..Len(inbox') : j \in 1..Len(inbox) \/ j = Len(inbox) + 1
      BY <3>1, <3>2
    <3> QED
      BY <2>1, <2>3, <3>1, <3>3
  <2> QED
    BY <1>1, <2>2, <2>3
<1>6. ASSUME NEW x \in Paths
      PROVE  /\ Holds(inbox', x) => Holds(inbox, x) \/ IsValue(m, x)
             /\ Holds(inbox, x) => Holds(inbox', x)
             /\ ~IsValue(m, x) /\ EndsWith(inbox, x, sent[x]) => EndsWith(inbox', x, sent[x])
             /\ Wanted(filter, x) /\ m = <<x, sent[x]>> /\ sent[x] # 0
                  => EndsWith(inbox', x, sent[x]) /\ Holds(inbox', x)
  <2>1. sent[x] \in Nat
    BY <1>1
  <2>2. /\ Holds(Append(inbox, m), x) <=> Holds(inbox, x) \/ IsValue(m, x)
        /\ EndsWith(inbox, x, sent[x]) /\ ~IsValue(m, x) => EndsWith(Append(inbox, m), x, sent[x])
        /\ m = <<x, sent[x]>> => EndsWith(Append(inbox, m), x, sent[x])
    BY <1>1, <1>2, <2>1, MailAdded
  <2>3. m = <<x, sent[x]>> /\ sent[x] # 0 => m[1] = x /\ m[2] # Garbled /\ IsValue(m, x)
    BY DEF IsValue, Garbled
  <2> QED
    BY <1>1, <2>2, <2>3
<1>7. ReceiverTypeOK'
  BY <1>1, <1>2, <1>5 DEF ReceiverTypeOK
<1>8. FilterInv'
  BY <1>1 DEF FilterInv
<1>9. ReachInv'
  BY <1>1 DEF ReachInv
<1>10. ASSUME NEW x \in Paths, sent[x] = 0
       PROVE  told[x] = 0 /\ ~Holds(mail', x) /\ ~Holds(inbox', x)
  <2>1. told[x] = 0 /\ ~Holds(mail, x) /\ ~Holds(inbox, x)
    BY <1>10 DEF SentInv
  <2> QED
    BY <1>4, <1>6, <2>1
<1>11. SentInv'
  BY <1>1, <1>5, <1>10 DEF SentInv
<1>12. ASSUME NEW x \in filter \cap Readable
       PROVE  (Tells(tidings, TRUE, x) \/ Awaited(x) \/ OnWay(x))'
  <2>1. x \in Paths /\ Wanted(filter, x)
    BY DEF Paths, Wanted
  <2>2. Tells(tidings, TRUE, x) \/ Awaited(x) \/ OnWay(x)
    BY <1>12 DEF CoveredInv
  <2>3. CASE Tells(tidings, TRUE, x) \/ Awaited(x)
    BY <1>1, <2>3 DEF Awaited
  <2>4. CASE OnWay(x) /\ Holds(mail', x)
    BY <1>1, <1>4, <2>1, <2>4 DEF OnWay
  <2>5. CASE OnWay(x) /\ ~Holds(mail', x) /\ IsValue(m, x)
    <3>1. sent[x] # 0
      BY <1>4, <2>1, <2>5 DEF SentInv
    <3>2. m = <<x, sent[x]>> /\ EndsWith(mail', x, sent[x])
      BY <1>4, <2>1, <2>5, <3>1 DEF OnWay
    <3>3. EndsWith(inbox', x, sent[x]) /\ Holds(inbox', x)
      BY <1>6, <2>1, <3>1, <3>2
    <3> QED
      BY <1>1, <3>2, <3>3 DEF OnWay
  <2>6. CASE OnWay(x) /\ ~Holds(mail', x) /\ ~IsValue(m, x)
    <3>1. /\ ~Holds(mail, x) /\ EndsWith(mail', x, sent[x])
          /\ EndsWith(inbox, x, sent[x]) /\ (Holds(inbox, x) \/ told[x] = sent[x])
      BY <1>4, <2>1, <2>6 DEF OnWay
    <3>2. EndsWith(inbox', x, sent[x]) /\ (Holds(inbox, x) => Holds(inbox', x))
      BY <1>6, <2>1, <2>6, <3>1
    <3> QED
      BY <1>1, <3>1, <3>2 DEF OnWay
  <2> QED
    BY <2>2, <2>3, <2>4, <2>5, <2>6
<1>13. CoveredInv'
  BY <1>1, <1>12 DEF CoveredInv
<1> QED
  BY <1>7, <1>8, <1>9, <1>11, <1>13

(* What a sync adds, it tells the streamer last.                             *)
LEMMA SyncFilterInv ==
  ASSUME ReceiverInv, SyncFilter
  PROVE  ReceiverInv'
<1> USE DEF ReceiverInv
<1>1. /\ place = "sync" /\ place' = "wait" /\ synced' = asks
      /\ filter' = (filter \cup (asks \ synced)) \ (synced \ asks)
      /\ tidings' = Reported(tidings, filter' \ filter, filter \ filter')
      /\ UNCHANGED <<asks, reach, owed, due, dropped, mail, inbox, told, sent, changes>>
  BY DEF SyncFilter, Reported, mailState
<1>2. filter' = asks
  <2>1. asks \cap NoSnapshot = {}
    <3>1. "no snapshot" # AllPaths
      BY DEF AllPaths
    <3>2. asks \subseteq AllTopics
      BY DEF ReceiverTypeOK
    <3> QED
      BY <3>1, <3>2, ReceiverAssumption DEF AllTopics, NoSnapshot
  <2>2. filter = synced \/ (filter = {} /\ synced = NoSnapshot)
    BY <1>1 DEF FilterInv
  <2> QED
    BY <1>1, <2>1, <2>2
<1>3. /\ tidings \in Seq(Tidings) /\ filter' \ filter \in SUBSET AllTopics
      /\ filter \ filter' \in SUBSET AllTopics /\ asks \subseteq AllTopics
  BY <1>2 DEF ReceiverTypeOK
<1>4. ASSUME NEW p \in filter'
      PROVE  /\ tidings' \in Seq(Tidings)
             /\ Tells(tidings, TRUE, p) \/ p \notin filter => Tells(tidings', TRUE, p)
             /\ p \notin filter \/ Restores(tidings, p) => Restores(tidings', p)
  <2>1. p \in AllTopics /\ p \notin filter \ filter' /\ (p \in filter' \ filter <=> p \notin filter)
    BY <1>2, <1>3, <1>4
  <2> QED
    BY <1>1, <1>3, <2>1, TidingsReported
<1>5. tidings' \in Seq(Tidings)
  <2>1. IsFiniteSet({<<TRUE, p>> : p \in filter' \ filter})
    BY <1>3, TidingSetsFinite
  <2>2. IsFiniteSet({<<FALSE, p>> : p \in filter \ filter'})
    BY <1>3, TidingSetsFinite
  <2>3. /\ SetToSeq({<<TRUE, p>> : p \in filter' \ filter}) \in Seq(Tidings)
        /\ SetToSeq({<<FALSE, p>> : p \in filter \ filter'}) \in Seq(Tidings)
    <3>1. /\ {<<TRUE, p>> : p \in filter' \ filter} \subseteq Tidings
          /\ {<<FALSE, p>> : p \in filter \ filter'} \subseteq Tidings
      BY <1>3, TidingSetsFinite
    <3> QED
      BY <2>1, <2>2, <3>1, ListOfSet, SeqMonotonic
  <2> QED
    BY <1>1, <1>3, <2>3, ConcatProperties DEF Reported
<1>6. ReceiverTypeOK'
  BY <1>1, <1>2, <1>3, <1>5 DEF ReceiverTypeOK
<1>7. FilterInv'
  BY <1>1, <1>2 DEF FilterInv
<1>8. ReachInv'
  BY <1>1, <1>4 DEF ReachInv
<1>9. ASSUME NEW x \in filter' \cap Readable
      PROVE  (Tells(tidings, TRUE, x) \/ Awaited(x) \/ OnWay(x))'
  <2>1. CASE x \notin filter
    BY <1>4, <1>9, <2>1
  <2>2. CASE x \in filter
    <3>1. Tells(tidings, TRUE, x) \/ Awaited(x) \/ OnWay(x)
      BY <1>9, <2>2 DEF CoveredInv
    <3>2. OnWay(x) => OnWay(x)'
      BY <1>1 DEF OnWay
    <3> QED
      BY <1>1, <1>4, <1>9, <3>1, <3>2 DEF Awaited
  <2> QED
    BY <2>1, <2>2
<1>10. CoveredInv'
  BY <1>9 DEF CoveredInv
<1>11. SentInv'
  BY <1>1 DEF SentInv
<1> QED
  BY <1>6, <1>7, <1>8, <1>10, <1>11

(* The socket closes with everything that was on its way.                    *)
LEMMA LoopEndsInv ==
  ASSUME ReceiverInv, LoopEnds
  PROVE  ReceiverInv'
<1> USE DEF ReceiverInv
<1>1. /\ place' = "ended" /\ filter' = {} /\ tidings' = <<>> /\ reach' = {}
      /\ mail' = <<>>
      /\ UNCHANGED <<asks, synced, owed, due, dropped, inbox, told, sent, changes>>
  BY DEF LoopEnds
<1>2. ReceiverTypeOK'
  BY <1>1 DEF ReceiverTypeOK
<1>3. FilterInv'
  BY <1>1 DEF FilterInv
<1>4. ReachInv' /\ CoveredInv'
  BY <1>1 DEF ReachInv, CoveredInv
<1>5. SentInv'
  <2>1. \A x \in Paths : ~Holds(mail', x)
    BY <1>1 DEF Holds
  <2> QED
    BY <1>1, <2>1 DEF SentInv
<1> QED
  BY <1>2, <1>3, <1>4, <1>5

(* The steps that move neither a value nor a subscription.                   *)
LEMMA OtherReceiverStepsInv ==
  ASSUME ReceiverInv,
         UNCHANGED <<filter, tidings, reach, owed, due, dropped, mail, inbox, told, sent>>,
         changes' \in Nat, asks' \subseteq AllTopics, synced' \subseteq AllTopics \cup NoSnapshot,
         place' \in {"none", "sync", "wait", "drain", "ended"}, FilterInv'
  PROVE  ReceiverInv'
<1>1. ReceiverTypeOK'
  BY DEF ReceiverInv, ReceiverTypeOK
<1>2. ReachInv' /\ SentInv'
  BY DEF ReceiverInv, ReachInv, SentInv
<1>3. CoveredInv'
  BY DEF ReceiverInv, CoveredInv, Awaited, OnWay
<1> QED
  BY <1>1, <1>2, <1>3 DEF ReceiverInv

(* The invariant of the receiver, for any addresses and every bound.         *)
THEOREM ReceiverInvariant == ReceiverSpec => []ReceiverInv
<1>1. ReceiverInit => ReceiverInv
  <2>1. SUFFICES ASSUME ReceiverInit
                 PROVE  ReceiverInv
    OBVIOUS
  <2>2. ReceiverTypeOK
    BY <2>1 DEF ReceiverInit, ReceiverTypeOK, AllTopics
  <2>3. FilterInv /\ ReachInv /\ CoveredInv
    BY <2>1 DEF ReceiverInit, FilterInv, ReachInv, CoveredInv
  <2>4. SentInv
    BY <2>1 DEF ReceiverInit, SentInv, Holds
  <2> QED
    BY <2>2, <2>3, <2>4 DEF ReceiverInv
<1>2. ReceiverInv /\ [ReceiverNext]_receiverVars => ReceiverInv'
  <2> SUFFICES ASSUME ReceiverInv, [ReceiverNext]_receiverVars
               PROVE  ReceiverInv'
    OBVIOUS
  <2>1. /\ changes \in Nat /\ asks \subseteq AllTopics /\ synced \subseteq AllTopics \cup NoSnapshot
        /\ place \in {"none", "sync", "wait", "drain", "ended"}
    BY DEF ReceiverInv, ReceiverTypeOK
  <2>2. FilterInv
    BY DEF ReceiverInv
  <2>3. CASE ValueChanges
    BY <2>3, ValueChangesInv
  <2>4. CASE Garbles
    BY <2>4, GarblesInv
  <2>5. CASE SubscriptionArrives
    BY <2>5, SubscriptionArrivesInv
  <2>6. CASE LastValueSent
    BY <2>6, LastValueSentInv
  <2>7. CASE SubscribeToMessage
    <3>1. FilterInv'
      BY <2>2, <2>7 DEF SubscribeToMessage, mailState, FilterInv
    <3>2. asks' \subseteq AllTopics
      BY <2>1, <2>7 DEF SubscribeToMessage, AllTopics
    <3> QED
      BY <2>1, <2>7, <3>1, <3>2, OtherReceiverStepsInv DEF SubscribeToMessage, Called, Changed,
             mailState
  <2>8. CASE UnsubscribeFromMessage
    <3>1. FilterInv'
      BY <2>2, <2>8 DEF UnsubscribeFromMessage, mailState, FilterInv
    <3>2. asks' \subseteq AllTopics
      BY <2>1, <2>8 DEF UnsubscribeFromMessage
    <3> QED
      BY <2>1, <2>8, <3>1, <3>2, OtherReceiverStepsInv
         DEF UnsubscribeFromMessage, Called, Changed, mailState
  <2>9. CASE StartMessageReceiver
    <3>1. FilterInv'
      BY <2>1, <2>2, <2>9 DEF StartMessageReceiver, Running, Launched, FilterInv
    <3> QED
      BY <2>1, <2>9, <3>1, OtherReceiverStepsInv
         DEF StartMessageReceiver, Launched, Called, Changed, mailState
  <2>10. CASE StopMessageReceiver
    <3>1. FilterInv'
      BY <2>2, <2>10 DEF StopMessageReceiver, subscriptionState, mailState, FilterInv
    <3> QED
      BY <2>1, <2>10, <3>1, OtherReceiverStepsInv
         DEF StopMessageReceiver, subscriptionState, mailState, Called, Changed
  <2>11. CASE Joined
    <3>1. FilterInv'
      BY <2>2, <2>11 DEF Joined, subscriptionState, mailState, FilterInv
    <3> QED
      BY <2>1, <2>11, <3>1, OtherReceiverStepsInv DEF Joined, subscriptionState, mailState
  <2>12. CASE DequeueMessage
    BY <2>12, DequeueMessageInv
  <2>13. CASE SyncFilter
    BY <2>13, SyncFilterInv
  <2>14. CASE LoopEnds
    BY <2>14, LoopEndsInv
  <2>15. CASE ReceiveMessage
    BY <2>15, ReceiveMessageInv
  <2>16. CASE NothingReceived
    <3>1. FilterInv'
      BY <2>2, <2>16 DEF NothingReceived, subscriptionState, mailState, FilterInv
    <3> QED
      BY <2>1, <2>16, <3>1, OtherReceiverStepsInv DEF NothingReceived, subscriptionState, mailState
  <2>17. CASE ReceiveThrows
    <3>1. FilterInv'
      BY <2>2, <2>17 DEF ReceiveThrows, subscriptionState, mailState, FilterInv
    <3> QED
      BY <2>1, <2>17, <3>1, OtherReceiverStepsInv DEF ReceiveThrows, subscriptionState, mailState, Changed
  <2>18. CASE UNCHANGED receiverVars
    <3>1. FilterInv'
      BY <2>2, <2>18 DEF receiverVars, subscriptionState, mailState, FilterInv
    <3> QED
      BY <2>1, <2>18, <3>1, OtherReceiverStepsInv DEF receiverVars, subscriptionState, mailState
  <2>19. CASE AnswerIsDue
    BY <2>19, AnswerIsDueInv
  <2> QED
    BY <2>3, <2>4, <2>5, <2>6, <2>7, <2>8, <2>9, <2>10, <2>11, <2>12, <2>13, <2>14, <2>15,
       <2>16, <2>17, <2>18, <2>19 DEF ReceiverNext
<1> QED
  BY <1>1, <1>2, PTL DEF ReceiverSpec

(* A client that has dequeued everything has the newest value of every       *)
(* address it subscribes to and can read, but for those that were dropped by *)
(* the sockets or lost in the streamer's queue.                              *)
THEOREM ClientsCatchUp == ReceiverSpec => []QuietReceiverIsCurrent
<1>1. ReceiverInv => QuietReceiverIsCurrent
  <2>1. SUFFICES ASSUME ReceiverInv, place = "wait", synced = asks, tidings = <<>>,
                        \A x \in Paths \cup {AllPaths} : owed[x] = 0, due = <<>>,
                        mail = <<>>, inbox = <<>>, NEW p \in asks \cap Readable,
                        p \notin dropped
                 PROVE  told[p] = sent[p]
    BY DEF QuietReceiverIsCurrent
  <2>2. p \in filter
    BY <2>1 DEF ReceiverInv, FilterInv
  <2>3. ~Tells(tidings, TRUE, p) /\ ~Holds(mail, p) /\ ~Holds(inbox, p)
    BY <2>1 DEF Tells, Holds
  <2>4. ~Awaited(p)
    BY <2>1 DEF Awaited, OnQueue, Paths
  <2> QED
    BY <2>1, <2>2, <2>3, <2>4 DEF ReceiverInv, CoveredInv, OnWay
<1> QED
  BY <1>1, ReceiverInvariant, PTL

-----------------------------------------------------------------------------
(* MessageOperators.                                                         *)
Values == {NoValue} \cup {Converted(m, k) : m \in Messages, k \in Nat \ {0}}
Entries == [value : Values, revision : Nat]
Connections == [latest : [Ids -> Entries], revision : Nat]
Shapes == {ShapeOf(v) : v \in Values} \cup {NoShape}
Outputs == {Filled(v, shape) : v \in Values, shape \in Shapes} \cup {NoOutput}
Nodes ==
  [handle : Servers \cup {NoServer}, server : Servers \cup {NoServer}, active : BOOLEAN,
   id : Ids \cup {NoId}, value : Values, revision : Nat, shape : Shapes, known : SUBSET Ids]

MessageTypeOK ==
  /\ parameters \in [Readers -> Settings] /\ node \in [Readers -> Nodes]
  /\ output \in [Readers -> Outputs]
  /\ connection \in [Servers -> Connections]
  /\ cooking \in Readers \cup {Nobody} /\ pulse \in BOOLEAN /\ messages \in Nat
  /\ settled \subseteq Readers

(* Revisions count up within a connection.                                   *)
EntriesSound(connections) ==
  \A s \in Servers, id \in Ids :
    LET entry == connections[s].latest[id]
    IN entry.revision <= connections[s].revision /\ (entry.revision = 0 => entry = NoEntry)

(* What an operator remembers is of the connection it holds: the value with  *)
(* the revision it has seen, if that is still the last one.                  *)
Remembers(n, connections) ==
  LET entry == connections[n.handle].latest[n.id]
  IN n.revision <= entry.revision /\ (n.revision = entry.revision => n.value = entry.value)
NodeSound(n, connections) ==
  /\ n.handle # NoServer => n.handle = n.server /\ n.active
  /\ n.handle = NoServer \/ n.id = NoId => n.value = NoValue
  /\ n.revision = 0 => n.value = NoValue
  /\ n.handle # NoServer /\ n.id # NoId => Remembers(n, connections)
NodesSound == \A r \in Readers : NodeSound(node[r], connection)

(* And once it has cooked, it is the newest there is.                        *)
Newest(set, connections) ==
  IF set.active /\ set.id # NoId THEN connections[set.server].latest[set.id].value ELSE NoValue
Follows(n, set) ==
  /\ n.server = set.server /\ n.active = set.active /\ n.id = set.id
  /\ n.handle = IF set.active THEN set.server ELSE NoServer
SettledShow ==
  \A r \in settled :
    /\ Follows(node[r], parameters[r]) /\ node[r].value = Newest(parameters[r], connection)
    /\ node[r].shape = ShapeOf(node[r].value)
    /\ cooking # r => output[r] = Filled(node[r].value, node[r].shape)

MessagesInv == MessageTypeOK /\ EntriesSound(connection) /\ NodesSound /\ SettledShow

-----------------------------------------------------------------------------
(* Entries are of the types they are stored with.                            *)
LEMMA EntryTyped ==
  ASSUME NEW c \in [Servers -> Connections], NEW s \in Servers, NEW id \in Ids
  PROVE  /\ c[s] \in Connections /\ c[s].revision \in Nat /\ c[s].latest[id] \in Entries
         /\ c[s].latest[id].value \in Values /\ c[s].latest[id].revision \in Nat
<1>1. c[s] \in Connections
  OBVIOUS
<1>2. c[s].latest \in [Ids -> Entries] /\ c[s].revision \in Nat
  BY <1>1 DEF Connections
<1>3. c[s].latest[id] \in Entries
  BY <1>2
<1> QED
  BY <1>1, <1>2, <1>3 DEF Entries

(* Who has forgotten is sound whatever the connections have.                 *)
LEMMA EmptyIsSound ==
  ASSUME NEW c \in [Servers -> Connections], EntriesSound(c), NEW n \in Nodes,
         n.value = NoValue, n.revision = 0, n.handle # NoServer => n.handle = n.server /\ n.active
  PROVE  NodeSound(n, c)
<1>1. ASSUME n.handle # NoServer, n.id # NoId PROVE Remembers(n, c)
  <2>1. n.handle \in Servers /\ n.id \in Ids
    BY <1>1 DEF Nodes
  <2>2. PICK entry \in Entries : entry = c[n.handle].latest[n.id]
    BY <2>1, EntryTyped
  <2>3. entry.revision \in Nat /\ (entry.revision = 0 => entry = NoEntry)
    BY <2>1, <2>2 DEF EntriesSound, Entries
  <2>4. entry.revision = 0 => entry.value = NoValue
    BY <2>3 DEF NoEntry
  <2> QED
    BY <2>2, <2>3, <2>4 DEF Remembers
<1> QED
  BY <1>1 DEF NodeSound

(* Forgetting leaves the connection and the shape.                           *)
LEMMA Forgotten ==
  ASSUME NEW n \in Nodes
  PROVE  /\ Forgets(n) \in Nodes /\ Forgets(n).value = NoValue /\ Forgets(n).revision = 0
         /\ Forgets(n).id = NoId /\ Forgets(n).handle = n.handle /\ Forgets(n).server = n.server
         /\ Forgets(n).active = n.active /\ Forgets(n).shape = n.shape
<1>1. NoValue \in Values
  BY DEF Values
<1>2. PICK m : m = Forgets(n)
  OBVIOUS
<1>3. m = [n EXCEPT !.value = NoValue, !.revision = 0, !.id = NoId]
  BY <1>2 DEF Forgets
<1>4. m \in Nodes
  BY <1>1, <1>3 DEF Nodes
<1>5. /\ m.value = NoValue /\ m.revision = 0 /\ m.id = NoId /\ m.handle = n.handle
      /\ m.server = n.server /\ m.active = n.active /\ m.shape = n.shape
  BY <1>3 DEF Nodes
<1> QED
  BY <1>2, <1>4, <1>5

Ensured(n, set, m) ==
  /\ m \in Nodes /\ m.server = set.server /\ m.active = set.active /\ m.shape = n.shape
  /\ m.handle = IF set.active THEN set.server ELSE NoServer
  /\ \/ m.value = NoValue /\ m.revision = 0 /\ m.id = NoId
     \/ /\ m.value = n.value /\ m.revision = n.revision /\ m.id = n.id
        /\ m.handle = n.handle /\ m.handle # NoServer

(* The connection is that of the parameters: kept with what was remembered,  *)
(* or forgotten.                                                             *)
LEMMA EnsuresConnection ==
  ASSUME NEW n \in Nodes, NEW set \in Settings, NEW pulsed \in BOOLEAN, NEW c, NodeSound(n, c)
  PROVE  Ensured(n, set, EnsureConnection(n, set, pulsed))
<1>0. PICK m : m = EnsureConnection(n, set, pulsed)
  OBVIOUS
<1>1. /\ set.server \in Servers /\ set.active \in BOOLEAN /\ set.id \in Ids \cup {NoId}
      /\ set.server # NoServer
  BY MessageAssumption DEF Settings
<1>2. PICK known : known = [n EXCEPT !.server = set.server, !.active = set.active]
  OBVIOUS
<1>3. /\ known \in Nodes /\ known.server = set.server /\ known.active = set.active
      /\ known.handle = n.handle /\ known.id = n.id /\ known.value = n.value
      /\ known.revision = n.revision /\ known.shape = n.shape
  BY <1>1, <1>2 DEF Nodes
<1>4. PICK f \in Nodes : f = Forgets(known)
  BY <1>3, Forgotten
<1>5. /\ f.value = NoValue /\ f.revision = 0 /\ f.id = NoId /\ f.handle = n.handle
      /\ f.server = set.server /\ f.active = set.active /\ f.shape = n.shape
  BY <1>3, <1>4, Forgotten
<1>6. CASE ~set.active
  <2>1. m = [f EXCEPT !.handle = NoServer]
    BY <1>0, <1>2, <1>4, <1>6 DEF EnsureConnection
  <2> QED
    BY <1>0, <1>5, <1>6, <2>1 DEF Nodes, Ensured
<1>7. CASE set.active /\ (set.server # n.server \/ set.active # n.active \/ n.handle = NoServer)
  <2>1. m = [f EXCEPT !.handle = set.server]
    BY <1>0, <1>2, <1>4, <1>7 DEF EnsureConnection
  <2> QED
    <3>1. m \in Nodes
      BY <1>1, <2>1 DEF Nodes
    <3>2. /\ m.handle = set.server /\ m.server = f.server /\ m.active = f.active
          /\ m.shape = f.shape /\ m.value = f.value /\ m.revision = f.revision /\ m.id = f.id
      BY <2>1 DEF Nodes
    <3> QED
      BY <1>0, <1>5, <1>7, <3>1, <3>2 DEF Ensured
<1>8. CASE set.active /\ ~(set.server # n.server \/ set.active # n.active \/ n.handle = NoServer)
  <2>1. n.handle = set.server
    BY <1>8 DEF NodeSound
  <2>2. CASE pulsed
    <3>1. m = f
      BY <1>0, <1>2, <1>4, <1>8, <2>2 DEF EnsureConnection
    <3> QED
      BY <1>0, <1>5, <1>8, <2>1, <3>1 DEF Ensured
  <2>3. CASE ~pulsed
    <3>1. m = known
      BY <1>0, <1>2, <1>8, <2>3 DEF EnsureConnection
    <3> QED
      BY <1>0, <1>1, <1>3, <1>8, <2>1, <3>1 DEF Ensured
  <2> QED
    BY <2>2, <2>3
<1> QED
  BY <1>6, <1>7, <1>8

(* And it is sound, as far as what it holds stays.                           *)
LEMMA EnsuredIsSound ==
  ASSUME NEW n \in Nodes, NEW set \in Settings, NEW pulsed \in BOOLEAN,
         NEW c \in [Servers -> Connections], EntriesSound(c), NodeSound(n, c)
  PROVE  NodeSound(EnsureConnection(n, set, pulsed), c)
<1>0. PICK m : m = EnsureConnection(n, set, pulsed)
  OBVIOUS
<1>1. /\ m \in Nodes /\ m.server = set.server /\ m.active = set.active
      /\ m.handle = IF set.active THEN set.server ELSE NoServer
      /\ \/ m.value = NoValue /\ m.revision = 0 /\ m.id = NoId
         \/ /\ m.value = n.value /\ m.revision = n.revision /\ m.id = n.id
            /\ m.handle = n.handle /\ m.handle # NoServer
  <2>1. Ensured(n, set, EnsureConnection(n, set, pulsed))
    BY EnsuresConnection
  <2> QED
    BY <1>0, <2>1 DEF Ensured
<1>2. m.handle # NoServer => m.handle = m.server /\ m.active
  BY <1>1
<1>3. ASSUME m.value = NoValue, m.revision = 0, m.id = NoId PROVE NodeSound(m, c)
  BY <1>1, <1>2, <1>3, EmptyIsSound
<1>4. ASSUME m.value = n.value, m.revision = n.revision, m.id = n.id, m.handle = n.handle,
             m.handle # NoServer
      PROVE  NodeSound(m, c)
  BY <1>2, <1>4 DEF NodeSound, Remembers
<1> QED
  BY <1>0, <1>1, <1>3, <1>4

(* Being sound is about the connection held.                                 *)
LEMMA SoundElsewhere ==
  ASSUME NEW n \in Nodes, NEW c, NEW c2, NodeSound(n, c),
         n.handle # NoServer => c2[n.handle] = c[n.handle]
  PROVE  NodeSound(n, c2)
  BY DEF NodeSound, Remembers

Selected(n, id, c, m) ==
  /\ m \in Nodes /\ NodeSound(m, c) /\ m.id = id /\ m.server = n.server
  /\ m.active = n.active /\ m.handle = n.handle /\ m.shape = n.shape

(* Selecting an id keeps what is remembered of it and nothing of another.    *)
LEMMA SelectsId ==
  ASSUME NEW n \in Nodes, NEW id \in Ids \cup {NoId},
         NEW c \in [Servers -> Connections], EntriesSound(c), NodeSound(n, c)
  PROVE  Selected(n, id, c, Selects(n, id))
<1>0. PICK m : m = Selects(n, id)
  OBVIOUS
<1>1. CASE n.id = id
  BY <1>1 DEF Selects, Selected
<1>2. CASE n.id # id
  <2>1. m = [n EXCEPT !.value = NoValue, !.revision = 0, !.id = id]
    BY <1>0, <1>2 DEF Selects
  <2>2. NoValue \in Values
    BY DEF Values
  <2>3. /\ m \in Nodes /\ m.value = NoValue /\ m.revision = 0 /\ m.id = id /\ m.server = n.server
        /\ m.active = n.active /\ m.handle = n.handle /\ m.shape = n.shape
    <3>1. m \in Nodes
      <4>1. PICK a \in Nodes : a = [n EXCEPT !.value = NoValue, !.revision = 0]
        BY <2>2 DEF Nodes
      <4>2. m = [a EXCEPT !.id = id]
        BY <2>1, <4>1 DEF Nodes
      <4> QED
        BY <4>1, <4>2 DEF Nodes
    <3>2. m.value = NoValue /\ m.revision = 0 /\ m.id = id /\ m.server = n.server
      BY <2>1 DEF Nodes
    <3>3. m.active = n.active /\ m.handle = n.handle /\ m.shape = n.shape
      BY <2>1 DEF Nodes
    <3> QED
      BY <3>1, <3>2, <3>3
  <2>4. m.handle # NoServer => m.handle = m.server /\ m.active
    BY <2>3 DEF NodeSound
  <2>5. NodeSound(m, c)
    BY <2>3, <2>4, EmptyIsSound
  <2> QED
    BY <1>0, <2>3, <2>5 DEF Selected
<1> QED
  BY <1>1, <1>2

Cooked(n, set, c, p) ==
  /\ p \in Nodes /\ Follows(p, set) /\ NodeSound(p, c)
  /\ p.shape = n.shape /\ p.value = Newest(set, c)

(* Pulling makes the value the newest of the id.                             *)
LEMMA PullsNewest ==
  ASSUME NEW n \in Nodes, NEW set \in Settings, NEW c \in [Servers -> Connections],
         EntriesSound(c), NodeSound(n, c), Follows(n, set)
  PROVE  Cooked(n, set, c, Pulled(n, c))
<1>1. PICK p : p = Pulled(n, c)
  OBVIOUS
<1>2. CASE n.handle = NoServer \/ n.id = NoId
  <2>1. p = n /\ n.value = NoValue
    BY <1>1, <1>2 DEF Pulled, NodeSound
  <2>2. Newest(set, c) = NoValue
    <3>1. set.server # NoServer
      BY MessageAssumption DEF Settings
    <3> QED
      BY <1>2, <3>1 DEF Newest, Follows
  <2> QED
    BY <1>1, <2>1, <2>2 DEF Cooked
<1>3. CASE n.handle # NoServer /\ n.id # NoId
  <2>1. n.handle \in Servers /\ n.id \in Ids
    BY <1>3 DEF Nodes
  <2>2. PICK entry : entry = c[n.handle].latest[n.id]
    OBVIOUS
  <2>3. entry \in Entries /\ entry.value \in Values /\ entry.revision \in Nat
    BY <2>1, <2>2, EntryTyped
  <2>4. entry.revision = 0 => entry.value = NoValue
    <3>1. entry.revision = 0 => entry = NoEntry
      BY <2>1, <2>2 DEF EntriesSound
    <3> QED
      BY <3>1 DEF NoEntry
  <2>5. Newest(set, c) = entry.value
    BY <1>3, <2>2 DEF Newest, Follows
  <2>6. /\ n.revision \in Nat /\ n.revision <= entry.revision
        /\ (n.revision = entry.revision => n.value = entry.value)
    BY <1>3, <2>2 DEF NodeSound, Remembers, Nodes
  <2>7. CASE entry.revision = 0 \/ entry.revision = n.revision
    <3>1. p = n
      BY <1>1, <1>3, <2>2, <2>7 DEF Pulled
    <3>2. n.revision = entry.revision
      BY <2>3, <2>6, <2>7
    <3> QED
      BY <1>1, <2>5, <2>6, <3>1, <3>2 DEF Cooked
  <2>8. CASE ~(entry.revision = 0 \/ entry.revision = n.revision)
    <3>1. p = [n EXCEPT !.value = entry.value, !.revision = entry.revision]
      BY <1>1, <1>3, <2>2, <2>8 DEF Pulled
    <3>2. /\ p \in Nodes /\ p.value = entry.value /\ p.revision = entry.revision
          /\ p.handle = n.handle /\ p.server = n.server /\ p.active = n.active
          /\ p.id = n.id /\ p.shape = n.shape
      BY <2>3, <3>1 DEF Nodes
    <3>3. Remembers(p, c)
      BY <2>2, <2>3, <3>2 DEF Remembers
    <3>4. NodeSound(p, c)
      BY <1>3, <2>8, <3>2, <3>3 DEF NodeSound
    <3>5. Follows(p, set)
      BY <3>2 DEF Follows
    <3> QED
      BY <1>1, <2>5, <3>2, <3>4, <3>5 DEF Cooked
  <2> QED
    BY <2>7, <2>8
<1> QED
  BY <1>2, <1>3

(* Asking again for a value that was dropped changes nothing of that.        *)
LEMMA PullsAgain ==
  ASSUME NEW n \in Nodes, NEW set \in Settings, NEW c \in [Servers -> Connections],
         EntriesSound(c), NodeSound(n, c), Follows(n, set), n.value = Newest(set, c)
  PROVE  Cooked(n, set, c, PulledAgain(n, c))
<1>1. CASE n.value # NoValue
  BY <1>1 DEF PulledAgain, Cooked
<1>2. CASE n.value = NoValue
  <2>1. PICK m : m = [n EXCEPT !.revision = 0]
    OBVIOUS
  <2>2. /\ m \in Nodes /\ m.value = NoValue /\ m.revision = 0 /\ m.handle = n.handle
        /\ m.server = n.server /\ m.active = n.active /\ m.id = n.id /\ m.shape = n.shape
    BY <1>2, <2>1 DEF Nodes
  <2>3. m.handle # NoServer => m.handle = m.server /\ m.active
    BY <2>2 DEF NodeSound
  <2>4. NodeSound(m, c)
    BY <2>2, <2>3, EmptyIsSound
  <2>5. Follows(m, set)
    BY <2>2 DEF Follows
  <2>6. Cooked(m, set, c, Pulled(m, c))
    BY <2>2, <2>4, <2>5, PullsNewest
  <2> QED
    BY <1>2, <2>1, <2>2, <2>6 DEF PulledAgain, Cooked
<1> QED
  BY <1>1, <1>2

-----------------------------------------------------------------------------
(* Connections that somebody holds stay as they are.                         *)
LEMMA KeptIsSound ==
  ASSUME connection \in [Servers -> Connections], EntriesSound(connection), NEW nodes,
         NEW c, c = Kept(nodes)
  PROVE  /\ c \in [Servers -> Connections] /\ EntriesSound(c)
         /\ \A s \in Servers : s \in InUse(nodes) => c[s] = connection[s]
<1>1. NoEntry \in Entries
  BY DEF NoEntry, Entries, Values
<1>2. NewConnection \in Connections /\ NewConnection.revision = 0
      /\ \A id \in Ids : NewConnection.latest[id] = NoEntry
  BY <1>1 DEF NewConnection, Connections
<1>3. c \in [Servers -> Connections]
  BY <1>2 DEF Kept
<1>4. \A s \in Servers : c[s] = connection[s] \/ c[s] = NewConnection
  BY DEF Kept
<1>5. EntriesSound(c)
  <2>1. NoEntry.revision = 0
    BY DEF NoEntry
  <2> QED
    BY <1>2, <1>4, <2>1 DEF EntriesSound
<1> QED
  BY <1>3, <1>5 DEF Kept

(* The newest value of an operator's id is in the connection it holds.       *)
LEMMA NewestElsewhere ==
  ASSUME NEW n, NEW set \in Settings, Follows(n, set), NEW c, NEW c2,
         n.handle # NoServer => c2[n.handle] = c[n.handle]
  PROVE  Newest(set, c2) = Newest(set, c)
<1>1. set.server # NoServer
  BY MessageAssumption DEF Settings
<1> QED
  BY <1>1 DEF Follows, Newest

Stays(q) ==
  /\ NodeSound(node'[q], connection')
  /\ q \in settled => Follows(node'[q], parameters[q])
                      /\ node'[q].value = Newest(parameters[q], connection')

(* What an operator does to its own node leaves the others as they are.      *)
LEMMA OthersStay ==
  ASSUME MessagesInv, NEW r \in Readers, NEW nodes, connection' = Kept(nodes),
         \A q \in Readers \ {r} : nodes[q] = node[q] /\ node'[q] = node[q]
  PROVE  /\ connection' \in [Servers -> Connections] /\ EntriesSound(connection')
         /\ \A s \in Servers : s \in InUse(nodes) => connection'[s] = connection[s]
         /\ \A q \in Readers \ {r} : Stays(q)
<1>1. PICK c : c = connection'
  OBVIOUS
<1>2. /\ c \in [Servers -> Connections] /\ EntriesSound(c)
      /\ \A s \in Servers : s \in InUse(nodes) => c[s] = connection[s]
  BY <1>1, KeptIsSound DEF MessagesInv, MessageTypeOK
<1>3. ASSUME NEW q \in Readers \ {r} PROVE Stays(q)
  <2>1. node[q] \in Nodes /\ parameters[q] \in Settings /\ NodeSound(node[q], connection)
    BY DEF MessagesInv, MessageTypeOK, NodesSound
  <2>2. node[q].handle # NoServer => c[node[q].handle] = connection[node[q].handle]
    <3>1. node[q].handle \in InUse(nodes)
      BY DEF InUse
    <3>2. node[q].handle \in Servers \cup {NoServer}
      BY <2>1 DEF Nodes
    <3> QED
      BY <1>2, <3>1, <3>2
  <2>3. NodeSound(node[q], c)
    BY <2>1, <2>2, SoundElsewhere
  <2>4. ASSUME q \in settled
        PROVE  Follows(node[q], parameters[q]) /\ node[q].value = Newest(parameters[q], c)
    <3>1. Follows(node[q], parameters[q]) /\ node[q].value = Newest(parameters[q], connection)
      BY <2>4 DEF MessagesInv, SettledShow
    <3>2. Newest(parameters[q], c) = Newest(parameters[q], connection)
      BY <2>1, <2>2, <3>1, NewestElsewhere
    <3> QED
      BY <3>1, <3>2
  <2>5. node'[q] = node[q]
    OBVIOUS
  <2> QED
    BY <1>1, <2>3, <2>4, <2>5 DEF Stays
<1>4. EntriesSound(connection')
  BY <1>1, <1>2
<1> QED
  BY <1>1, <1>2, <1>3, <1>4

(* getOutputInfo: the operator has the newest value, and its shape.          *)
LEMMA GetOutputInfoStep ==
  ASSUME MessagesInv, NEW r \in Readers, GetOutputInfo(r)
  PROVE  MessagesInv'
<1>1. PICK pulsed, ensured, nodes, c, selected, pulled, again :
        /\ pulsed \in BOOLEAN /\ ensured = EnsureConnection(node[r], parameters[r], pulsed)
        /\ nodes = [node EXCEPT ![r] = ensured]
        /\ c = Kept(nodes) /\ selected = Selects(ensured, parameters[r].id)
        /\ pulled = Pulled(selected, c) /\ again = PulledAgain(pulled, c)
        /\ pulse' = pulsed /\ connection' = c
        /\ node' = [node EXCEPT ![r] = [again EXCEPT !.shape = ShapeOf(again.value)]]
  BY DEF GetOutputInfo
<1>2. cooking = Nobody /\ cooking' = r /\ settled' = settled \cup {r}
      /\ UNCHANGED <<parameters, output, messages>>
  BY DEF GetOutputInfo
<1>3. /\ node \in [Readers -> Nodes] /\ node[r] \in Nodes /\ parameters[r] \in Settings
      /\ parameters[r].id \in Ids \cup {NoId} /\ connection \in [Servers -> Connections]
      /\ EntriesSound(connection) /\ NodeSound(node[r], connection)
  BY DEF MessagesInv, MessageTypeOK, NodesSound, Settings
<1>4. /\ ensured \in Nodes /\ ensured.server = parameters[r].server
      /\ ensured.active = parameters[r].active
      /\ ensured.handle = IF parameters[r].active THEN parameters[r].server ELSE NoServer
  <2>1. Ensured(node[r], parameters[r], ensured)
    BY <1>1, <1>3, EnsuresConnection
  <2> QED
    BY <2>1 DEF Ensured
<1>5. NodeSound(ensured, connection)
  BY <1>1, <1>3, EnsuredIsSound
<1>6. /\ c \in [Servers -> Connections] /\ EntriesSound(c)
      /\ \A s \in Servers : s \in InUse(nodes) => c[s] = connection[s]
  BY <1>1, <1>3, KeptIsSound
<1>7. NodeSound(ensured, c)
  <2>1. ensured.handle \in InUse(nodes)
    BY <1>1, <1>3 DEF InUse
  <2>2. ensured.handle \in Servers \cup {NoServer}
    BY <1>4 DEF Nodes
  <2>3. ensured.handle # NoServer => c[ensured.handle] = connection[ensured.handle]
    BY <1>6, <2>1, <2>2
  <2> QED
    BY <1>4, <1>5, <2>3, SoundElsewhere
<1>8. selected \in Nodes /\ NodeSound(selected, c) /\ Follows(selected, parameters[r])
  <2>1. Selected(ensured, parameters[r].id, c, selected)
    BY <1>1, <1>3, <1>4, <1>6, <1>7, SelectsId
  <2> QED
    BY <1>4, <2>1 DEF Follows, Selected
<1>9. Cooked(selected, parameters[r], c, pulled)
  BY <1>1, <1>3, <1>6, <1>8, PullsNewest
<1>10. Cooked(pulled, parameters[r], c, again)
  <2>1. /\ pulled \in Nodes /\ Follows(pulled, parameters[r]) /\ NodeSound(pulled, c)
        /\ pulled.value = Newest(parameters[r], c)
    BY <1>9 DEF Cooked
  <2> QED
    BY <1>1, <1>3, <1>6, <2>1, PullsAgain
<1>11. PICK last : last = [again EXCEPT !.shape = ShapeOf(again.value)]
  OBVIOUS
<1>12. /\ last \in Nodes /\ Follows(last, parameters[r]) /\ NodeSound(last, c)
       /\ last.value = Newest(parameters[r], c) /\ last.shape = ShapeOf(last.value)
  <2>1. again \in Nodes /\ Follows(again, parameters[r]) /\ NodeSound(again, c)
        /\ again.value = Newest(parameters[r], c) /\ again.value \in Values
    BY <1>10 DEF Cooked, Nodes
  <2>2. ShapeOf(again.value) \in Shapes
    BY <2>1 DEF Shapes
  <2>3. last \in Nodes
    BY <1>11, <2>1, <2>2 DEF Nodes
  <2>4. /\ last.handle = again.handle /\ last.server = again.server /\ last.active = again.active
        /\ last.id = again.id /\ last.value = again.value /\ last.revision = again.revision
        /\ last.shape = ShapeOf(again.value)
    BY <1>11, <2>1 DEF Nodes
  <2>5. Follows(last, parameters[r])
    BY <2>1, <2>4 DEF Follows
  <2>6. NodeSound(last, c)
    BY <2>1, <2>4 DEF NodeSound, Remembers
  <2> QED
    BY <2>1, <2>3, <2>4, <2>5, <2>6
<1>13. /\ node' \in [Readers -> Nodes] /\ node'[r] = last
       /\ \A q \in Readers \ {r} : nodes[q] = node[q] /\ node'[q] = node[q]
  BY <1>1, <1>3, <1>11, <1>12
<1>14. \A q \in Readers \ {r} : Stays(q)
  BY <1>1, <1>13, OthersStay
<1>15. MessageTypeOK'
  BY <1>1, <1>2, <1>6, <1>13 DEF MessagesInv, MessageTypeOK
<1>16. EntriesSound(connection)'
  BY <1>1, <1>6 DEF EntriesSound
<1>17. NodesSound'
  <2>1. \A q \in Readers : NodeSound(node'[q], connection')
    BY <1>1, <1>12, <1>13, <1>14 DEF Stays
  <2> QED
    BY <2>1 DEF NodesSound, NodeSound, Remembers
<1>18. SettledShow'
  <2>1. ASSUME NEW q \in settled'
        PROVE  /\ Follows(node'[q], parameters'[q])
               /\ node'[q].value = Newest(parameters'[q], connection')
               /\ node'[q].shape = ShapeOf(node'[q].value)
               /\ cooking' # q => output'[q] = Filled(node'[q].value, node'[q].shape)
    <3>1. CASE q = r
      BY <1>1, <1>2, <1>12, <1>13, <3>1
    <3>2. CASE q # r
      <4>1. q \in settled /\ q \in Readers \ {r} /\ cooking # q
        BY <1>2, <3>2, MessageAssumption DEF MessagesInv, MessageTypeOK
      <4>2. Follows(node'[q], parameters[q]) /\ node'[q].value = Newest(parameters[q], connection')
        BY <1>14, <4>1 DEF Stays
      <4>3. node[q].shape = ShapeOf(node[q].value) /\ output[q] = Filled(node[q].value, node[q].shape)
        BY <4>1 DEF MessagesInv, SettledShow
      <4> QED
        BY <1>2, <1>13, <4>1, <4>2, <4>3
    <3> QED
      BY <3>1, <3>2
  <2> QED
    BY <2>1 DEF SettledShow, Follows, Newest
<1> QED
  BY <1>15, <1>16, <1>17, <1>18 DEF MessagesInv

(* execute: the operator outputs it, in the shape it has announced.          *)
LEMMA ExecuteStep ==
  ASSUME MessagesInv, NEW r \in Readers, Execute(r)
  PROVE  MessagesInv'
<1>1. PICK ensured, held, selected, pulled, last, nodes :
        /\ ensured = EnsureConnection(node[r], parameters[r], pulse)
        /\ held = IF ensured.handle = NoServer THEN Forgets(ensured) ELSE ensured
        /\ selected = Selects(held, parameters[r].id)
        /\ pulled = Pulled(selected, connection)
        /\ last = IF pulled.handle = NoServer \/ pulled.id = NoId THEN pulled
                  ELSE [pulled EXCEPT !.known = KnownIds(connection[pulled.handle])]
        /\ nodes = [node EXCEPT ![r] = last] /\ node' = nodes
        /\ output' = [output EXCEPT ![r] = Filled(last.value, last.shape)]
        /\ connection' = Kept(nodes)
  BY DEF Execute
<1>2. cooking = r /\ cooking' = Nobody /\ UNCHANGED <<parameters, pulse, messages, settled>>
  BY DEF Execute
<1>3. /\ node \in [Readers -> Nodes] /\ node[r] \in Nodes /\ parameters[r] \in Settings
      /\ parameters[r].id \in Ids \cup {NoId} /\ connection \in [Servers -> Connections]
      /\ EntriesSound(connection) /\ NodeSound(node[r], connection) /\ pulse \in BOOLEAN
  BY DEF MessagesInv, MessageTypeOK, NodesSound, Settings
<1>4. /\ ensured \in Nodes /\ ensured.server = parameters[r].server
      /\ ensured.active = parameters[r].active /\ ensured.shape = node[r].shape
      /\ ensured.handle = IF parameters[r].active THEN parameters[r].server ELSE NoServer
  <2>1. Ensured(node[r], parameters[r], ensured)
    BY <1>1, <1>3, EnsuresConnection
  <2> QED
    BY <2>1 DEF Ensured
<1>5. NodeSound(ensured, connection)
  BY <1>1, <1>3, EnsuredIsSound
<1>6. /\ held \in Nodes /\ NodeSound(held, connection) /\ held.server = ensured.server
      /\ held.active = ensured.active /\ held.handle = ensured.handle /\ held.shape = ensured.shape
  <2>1. CASE ensured.handle = NoServer
    <3>1. /\ held \in Nodes /\ held.value = NoValue /\ held.revision = 0
          /\ held.handle = ensured.handle /\ held.server = ensured.server
          /\ held.active = ensured.active /\ held.shape = ensured.shape
      BY <1>1, <1>4, <2>1, Forgotten
    <3>2. held.handle # NoServer => held.handle = held.server /\ held.active
      BY <2>1, <3>1
    <3>3. NodeSound(held, connection)
      BY <1>3, <3>1, <3>2, EmptyIsSound
    <3> QED
      BY <3>1, <3>3
  <2>2. CASE ensured.handle # NoServer
    BY <1>1, <1>4, <1>5, <2>2
  <2> QED
    BY <2>1, <2>2
<1>7. /\ selected \in Nodes /\ NodeSound(selected, connection)
      /\ Follows(selected, parameters[r]) /\ selected.shape = node[r].shape
  <2>1. Selected(held, parameters[r].id, connection, selected)
    BY <1>1, <1>3, <1>6, SelectsId
  <2> QED
    BY <1>4, <1>6, <2>1 DEF Follows, Selected
<1>8. Cooked(selected, parameters[r], connection, pulled)
  BY <1>1, <1>3, <1>7, PullsNewest
<1>9. /\ last \in Nodes /\ Follows(last, parameters[r]) /\ NodeSound(last, connection)
      /\ last.value = Newest(parameters[r], connection) /\ last.shape = node[r].shape
  <2>1. /\ pulled \in Nodes /\ Follows(pulled, parameters[r]) /\ NodeSound(pulled, connection)
        /\ pulled.value = Newest(parameters[r], connection) /\ pulled.shape = node[r].shape
    BY <1>7, <1>8 DEF Cooked
  <2>2. CASE pulled.handle = NoServer \/ pulled.id = NoId
    BY <1>1, <2>1, <2>2
  <2>3. CASE ~(pulled.handle = NoServer \/ pulled.id = NoId)
    <3>1. PICK known : known = KnownIds(connection[pulled.handle])
      OBVIOUS
    <3>2. last = [pulled EXCEPT !.known = known] /\ known \in SUBSET Ids
      BY <1>1, <2>3, <3>1 DEF KnownIds
    <3>3. last \in Nodes
      BY <2>1, <3>2 DEF Nodes
    <3>4. /\ last.handle = pulled.handle /\ last.server = pulled.server
          /\ last.active = pulled.active /\ last.id = pulled.id /\ last.value = pulled.value
          /\ last.revision = pulled.revision /\ last.shape = pulled.shape
      BY <2>1, <3>2 DEF Nodes
    <3>5. Follows(last, parameters[r])
      BY <2>1, <3>4 DEF Follows
    <3>6. NodeSound(last, connection)
      BY <2>1, <3>4 DEF NodeSound, Remembers
    <3> QED
      BY <2>1, <3>3, <3>4, <3>5, <3>6
  <2> QED
    BY <2>2, <2>3
<1>10. /\ node' \in [Readers -> Nodes] /\ node'[r] = last
       /\ \A q \in Readers \ {r} : nodes[q] = node[q] /\ node'[q] = node[q]
  BY <1>1, <1>3, <1>9
<1>11. /\ connection' \in [Servers -> Connections] /\ EntriesSound(connection')
       /\ \A s \in Servers : s \in InUse(nodes) => connection'[s] = connection[s]
       /\ \A q \in Readers \ {r} : Stays(q)
  <2>1. connection' = Kept(nodes)
    BY <1>1
  <2>2. \A q \in Readers \ {r} : nodes[q] = node[q] /\ node'[q] = node[q]
    BY <1>10
  <2> QED
    BY <2>1, <2>2, OthersStay
<1>12. NodeSound(last, connection') /\ Newest(parameters[r], connection') = last.value
  <2>1. PICK c : c = connection'
    OBVIOUS
  <2>2. last.handle # NoServer => c[last.handle] = connection[last.handle]
    <3>1. last.handle \in InUse(nodes)
      BY <1>1, <1>10 DEF InUse
    <3>2. last.handle \in Servers \cup {NoServer}
      BY <1>9 DEF Nodes
    <3> QED
      BY <1>11, <2>1, <3>1, <3>2
  <2>3. NodeSound(last, c)
    BY <1>9, <2>2, SoundElsewhere
  <2>4. Newest(parameters[r], c) = Newest(parameters[r], connection)
    BY <1>3, <1>9, <2>2, NewestElsewhere
  <2> QED
    BY <1>9, <2>1, <2>3, <2>4
<1>13. MessageTypeOK'
  <2>1. Filled(last.value, last.shape) \in Outputs
    BY <1>9 DEF Nodes, Outputs
  <2>2. output' \in [Readers -> Outputs]
    BY <1>1, <2>1 DEF MessagesInv, MessageTypeOK
  <2> QED
    BY <1>2, <1>10, <1>11, <2>2 DEF MessagesInv, MessageTypeOK
<1>14. EntriesSound(connection)'
  BY <1>11 DEF EntriesSound
<1>15. NodesSound'
  <2>1. \A q \in Readers : NodeSound(node'[q], connection')
    BY <1>10, <1>11, <1>12 DEF Stays
  <2> QED
    BY <2>1 DEF NodesSound, NodeSound, Remembers
<1>16. SettledShow'
  <2>1. ASSUME NEW q \in settled
        PROVE  /\ Follows(node'[q], parameters[q])
               /\ node'[q].value = Newest(parameters[q], connection')
               /\ node'[q].shape = ShapeOf(node'[q].value)
               /\ output'[q] = Filled(node'[q].value, node'[q].shape)
    <3>0. q \in Readers
      BY DEF MessagesInv, MessageTypeOK
    <3>1. CASE q = r
      <4>1. node[r].shape = ShapeOf(node[r].value)
            /\ node[r].value = Newest(parameters[r], connection)
        BY <3>1 DEF MessagesInv, SettledShow
      <4>2. last.shape = ShapeOf(last.value)
        BY <1>9, <4>1
      <4>3. output'[r] = Filled(last.value, last.shape)
        BY <1>1 DEF MessagesInv, MessageTypeOK
      <4> QED
        BY <1>9, <1>10, <1>12, <3>1, <4>2, <4>3
    <3>2. CASE q # r
      <4>1. Follows(node'[q], parameters[q]) /\ node'[q].value = Newest(parameters[q], connection')
        BY <1>11, <3>0, <3>2 DEF Stays
      <4>2. node[q].shape = ShapeOf(node[q].value) /\ output[q] = Filled(node[q].value, node[q].shape)
        BY <1>2, <3>2 DEF MessagesInv, SettledShow
      <4>3. output'[q] = output[q] /\ node'[q] = node[q]
        BY <1>1, <1>10, <3>0, <3>2 DEF MessagesInv, MessageTypeOK
      <4> QED
        BY <4>1, <4>2, <4>3
    <3> QED
      BY <3>1, <3>2
  <2> QED
    BY <1>2, <2>1 DEF SettledShow, Follows, Newest
<1> QED
  BY <1>13, <1>14, <1>15, <1>16 DEF MessagesInv

(* A message is the newest of its id, and who shows that id has to cook.     *)
LEMMA StoreMessageStep ==
  ASSUME MessagesInv, NEW s \in Servers, StoreMessage(s)
  PROVE  MessagesInv'
<1>0. PICK id \in Ids, message \in Messages :
        LET revision == connection[s].revision + 1
            entry == [value |-> Converted(message, messages + 1), revision |-> revision]
        IN /\ connection' = [connection EXCEPT ![s].revision = revision, ![s].latest[id] = entry]
           /\ settled' = {r \in settled : node[r].handle # s \/ node[r].id # id}
  BY DEF StoreMessage
<1>1. PICK revision, entry :
        /\ revision = connection[s].revision + 1
        /\ entry = [value |-> Converted(message, messages + 1), revision |-> revision]
        /\ connection' = [connection EXCEPT ![s].revision = revision, ![s].latest[id] = entry]
        /\ settled' = {r \in settled : node[r].handle # s \/ node[r].id # id}
        /\ messages' = messages + 1
        /\ UNCHANGED <<parameters, node, output, cooking, pulse>>
  BY <1>0 DEF StoreMessage
<1>2. /\ connection \in [Servers -> Connections] /\ EntriesSound(connection)
      /\ node \in [Readers -> Nodes] /\ parameters \in [Readers -> Settings] /\ messages \in Nat
  BY DEF MessagesInv, MessageTypeOK
<1>3. PICK old \in Connections : old = connection[s]
  BY <1>2
<1>4. revision \in Nat /\ old.revision \in Nat /\ revision = old.revision + 1
      /\ old.latest \in [Ids -> Entries]
  BY <1>1, <1>3 DEF Connections
<1>5. entry \in Entries /\ entry.revision = revision /\ entry.value = Converted(message, messages + 1)
  <2>1. messages + 1 \in Nat \ {0}
    BY <1>2
  <2>2. Converted(message, messages + 1) \in Values
    BY <2>1 DEF Values
  <2> QED
    BY <1>1, <1>4, <2>2 DEF Entries
<1>6. PICK latest \in [Ids -> Entries] : latest = [old.latest EXCEPT ![id] = entry]
  BY <1>4, <1>5
<1>7. PICK new \in Connections :
        new.latest = latest /\ new.revision = revision
        /\ new = [old EXCEPT !.revision = revision, !.latest = latest]
  BY <1>4, <1>6 DEF Connections
<1>8. /\ connection' \in [Servers -> Connections] /\ connection'[s] = new
      /\ \A t \in Servers : t # s => connection'[t] = connection[t]
  <2>1. PICK first : first = [connection EXCEPT ![s].revision = revision]
    OBVIOUS
  <2>2. connection' = [first EXCEPT ![s].latest[id] = entry]
    BY <1>1, <2>1
  <2>3. first = [connection EXCEPT ![s] = [old EXCEPT !.revision = revision]]
    BY <1>2, <1>3, <2>1
  <2>4. first[s] = [old EXCEPT !.revision = revision] /\ first[s].latest = old.latest
    BY <1>2, <1>3, <2>3 DEF Connections
  <2>5. [first[s] EXCEPT !.latest[id] = entry] = new
    <3>1. [first[s] EXCEPT !.latest[id] = entry] = [first[s] EXCEPT !.latest = latest]
      BY <1>6, <2>4
    <3> QED
      BY <1>7, <2>4, <3>1
  <2>6. connection' = [first EXCEPT ![s] = new]
    BY <2>2, <2>5
  <2> QED
    BY <1>2, <1>7, <2>3, <2>6
<1>9. \A t \in Servers, i \in Ids :
        connection'[t].latest[i] = IF t = s /\ i = id THEN entry ELSE connection[t].latest[i]
  <2>1. ASSUME NEW i \in Ids PROVE latest[i] = IF i = id THEN entry ELSE connection[s].latest[i]
    BY <1>1, <1>3, <1>4, <1>6
  <2>2. connection'[s].latest = latest
    BY <1>7, <1>8
  <2> QED
    BY <1>8, <2>1, <2>2
<1>10. MessageTypeOK'
  BY <1>1, <1>2, <1>8 DEF MessagesInv, MessageTypeOK
<1>11. EntriesSound(connection')
  <2>1. ASSUME NEW t \in Servers, NEW i \in Ids
        PROVE  /\ connection'[t].latest[i].revision <= connection'[t].revision
               /\ connection'[t].latest[i].revision = 0 => connection'[t].latest[i] = NoEntry
    <3>1. /\ connection[t].latest[i].revision <= connection[t].revision
          /\ connection[t].latest[i].revision = 0 => connection[t].latest[i] = NoEntry
      BY <1>2 DEF EntriesSound
    <3>2. connection[t].latest[i].revision \in Nat /\ connection[t].revision \in Nat
      BY <1>2, EntryTyped
    <3>3. CASE t = s /\ i = id
      <4>1. connection'[t].latest[i] = entry /\ connection'[t].revision = revision
        BY <1>7, <1>8, <1>9, <3>3
      <4>2. revision <= revision /\ revision # 0
        BY <1>4
      <4> QED
        BY <1>5, <4>1, <4>2
    <3>4. CASE t = s /\ i # id
      <4>1. connection'[t].latest[i] = connection[t].latest[i] /\ connection'[t].revision = revision
        BY <1>7, <1>8, <1>9, <3>4
      <4>2. connection[t].latest[i].revision <= old.revision
        BY <1>3, <3>1, <3>4
      <4>3. connection[t].latest[i].revision <= revision
        BY <1>4, <3>2, <4>2
      <4> QED
        BY <3>1, <4>1, <4>3
    <3>5. CASE t # s
      BY <1>8, <1>9, <3>1, <3>5
    <3> QED
      BY <3>3, <3>4, <3>5
  <2> QED
    BY <2>1 DEF EntriesSound
<1>12. \A r \in Readers : NodeSound(node[r], connection')
  <2>1. ASSUME NEW r \in Readers PROVE NodeSound(node[r], connection')
    <3>1. node[r] \in Nodes /\ NodeSound(node[r], connection)
      BY <1>2 DEF MessagesInv, NodesSound
    <3>2. ASSUME node[r].handle # NoServer, node[r].id # NoId PROVE Remembers(node[r], connection')
      <4>1. node[r].handle \in Servers /\ node[r].id \in Ids /\ node[r].revision \in Nat
        BY <3>1, <3>2 DEF Nodes
      <4>2. Remembers(node[r], connection)
        BY <3>1, <3>2 DEF NodeSound
      <4>3. CASE node[r].handle = s /\ node[r].id = id
        <5>1. connection[s].latest[id].revision <= old.revision
          BY <1>2, <1>3 DEF EntriesSound
        <5>2. connection[s].latest[id].revision \in Nat
          BY <1>2, EntryTyped
        <5>3. node[r].revision <= connection[s].latest[id].revision
          BY <4>2, <4>3 DEF Remembers
        <5>4. node[r].revision < revision
          BY <1>4, <4>1, <5>1, <5>2, <5>3
        <5>5. connection'[node[r].handle].latest[node[r].id] = entry
          BY <1>9, <4>3
        <5> QED
          BY <1>4, <1>5, <4>1, <5>4, <5>5 DEF Remembers
      <4>4. CASE ~(node[r].handle = s /\ node[r].id = id)
        <5>1. connection'[node[r].handle].latest[node[r].id]
                = connection[node[r].handle].latest[node[r].id]
          BY <1>9, <4>1, <4>4
        <5> QED
          BY <4>2, <5>1 DEF Remembers
      <4> QED
        BY <4>3, <4>4
    <3> QED
      BY <3>1, <3>2 DEF NodeSound
  <2> QED
    BY <2>1
<1>13. NodesSound'
  BY <1>1, <1>12 DEF NodesSound, NodeSound, Remembers
<1>14. SettledShow'
  <2>1. ASSUME NEW r \in settled, node[r].handle # s \/ node[r].id # id
        PROVE  Newest(parameters[r], connection') = Newest(parameters[r], connection)
    <3>1. /\ parameters[r] \in Settings /\ Follows(node[r], parameters[r])
          /\ parameters[r].server \in Servers /\ parameters[r].id \in Ids \cup {NoId}
      BY <1>2 DEF MessagesInv, MessageTypeOK, SettledShow, Settings
    <3>2. CASE parameters[r].active /\ parameters[r].id # NoId
      <4>1. ~(parameters[r].server = s /\ parameters[r].id = id)
        BY <2>1, <3>1, <3>2 DEF Follows
      <4>2. connection'[parameters[r].server].latest[parameters[r].id]
              = connection[parameters[r].server].latest[parameters[r].id]
        BY <1>9, <3>1, <3>2, <4>1
      <4> QED
        BY <3>2, <4>2 DEF Newest
    <3>3. CASE ~(parameters[r].active /\ parameters[r].id # NoId)
      BY <3>3 DEF Newest
    <3> QED
      BY <3>2, <3>3
  <2>2. \A r \in settled' : r \in settled /\ (node[r].handle # s \/ node[r].id # id)
    BY <1>1
  <2>3. ASSUME NEW r \in settled'
        PROVE  /\ Follows(node'[r], parameters'[r])
               /\ node'[r].value = Newest(parameters'[r], connection')
               /\ node'[r].shape = ShapeOf(node'[r].value)
               /\ cooking' # r => output'[r] = Filled(node'[r].value, node'[r].shape)
    <3>1. /\ Follows(node[r], parameters[r]) /\ node[r].value = Newest(parameters[r], connection)
          /\ node[r].shape = ShapeOf(node[r].value)
          /\ cooking # r => output[r] = Filled(node[r].value, node[r].shape)
      BY <2>2 DEF MessagesInv, SettledShow
    <3>2. Newest(parameters[r], connection') = Newest(parameters[r], connection)
      BY <2>1, <2>2
    <3> QED
      BY <1>1, <3>1, <3>2
  <2> QED
    BY <2>3 DEF SettledShow, Follows, Newest
<1> QED
  BY <1>10, <1>11, <1>13, <1>14 DEF MessagesInv, EntriesSound

(* A changed parameter concerns its operator, which has to cook.             *)
LEMMA SetParametersStep ==
  ASSUME MessagesInv, NEW r \in Readers, SetParameters(r)
  PROVE  MessagesInv'
<1>1. PICK set \in Settings :
        /\ parameters' = [parameters EXCEPT ![r] = set] /\ settled' = settled \ {r}
        /\ UNCHANGED <<node, output, connection, cooking, pulse, messages>>
  BY DEF SetParameters
<1>2. /\ parameters' \in [Readers -> Settings]
      /\ \A q \in Readers \ {r} : parameters'[q] = parameters[q]
  BY <1>1 DEF MessagesInv, MessageTypeOK
<1>3. MessageTypeOK'
  BY <1>1, <1>2 DEF MessagesInv, MessageTypeOK
<1>4. EntriesSound(connection)' /\ NodesSound'
  BY <1>1 DEF MessagesInv, EntriesSound, NodesSound, NodeSound, Remembers
<1>5. SettledShow'
  <2>1. ASSUME NEW q \in settled'
        PROVE  /\ Follows(node'[q], parameters'[q])
               /\ node'[q].value = Newest(parameters'[q], connection')
               /\ node'[q].shape = ShapeOf(node'[q].value)
               /\ cooking' # q => output'[q] = Filled(node'[q].value, node'[q].shape)
    <3>1. q \in settled /\ q \in Readers \ {r}
      BY <1>1 DEF MessagesInv, MessageTypeOK
    <3>2. parameters'[q] = parameters[q]
      BY <1>2, <3>1
    <3> QED
      BY <1>1, <3>1, <3>2 DEF MessagesInv, SettledShow
  <2> QED
    BY <2>1 DEF SettledShow, Follows, Newest
<1> QED
  BY <1>3, <1>4, <1>5 DEF MessagesInv

-----------------------------------------------------------------------------
(* No connection is open at first, and nothing has been cooked.              *)
LEMMA MessagesStart ==
  ASSUME MessageInit
  PROVE  MessagesInv
<1>1. /\ parameters \in Projects /\ node = [r \in Readers |-> Untouched]
      /\ output = [r \in Readers |-> NoOutput] /\ connection = [s \in Servers |-> NewConnection]
      /\ cooking = Nobody /\ pulse = FALSE /\ messages = 0 /\ settled = {}
  BY DEF MessageInit
<1>2. NoValue \in Values /\ NoEntry \in Entries /\ NoEntry.revision = 0 /\ NoShape \in Shapes
  BY DEF NoEntry, Entries, Values, Shapes
<1>3. NewConnection \in Connections /\ NewConnection.revision = 0
      /\ \A id \in Ids : NewConnection.latest[id] = NoEntry
  BY <1>2 DEF NewConnection, Connections
<1>4. Untouched \in Nodes
  BY <1>2 DEF Untouched, Nodes
<1>5. MessageTypeOK
  <2>1. parameters \in [Readers -> Settings]
    BY <1>1, MessageAssumption
  <2>2. NoOutput \in Outputs
    BY DEF Outputs
  <2> QED
    BY <1>1, <1>3, <1>4, <2>1, <2>2 DEF MessageTypeOK
<1>6. EntriesSound(connection)
  BY <1>1, <1>2, <1>3 DEF EntriesSound
<1>7. NodesSound
  <2>1. NodeSound(Untouched, connection)
    BY DEF NodeSound, Untouched
  <2> QED
    BY <1>1, <2>1 DEF NodesSound
<1> QED
  BY <1>1, <1>5, <1>6, <1>7 DEF MessagesInv, SettledShow

(* Each step keeps the invariant.                                            *)
LEMMA MessagesGoOn ==
  ASSUME MessagesInv, [MessageNext]_messageVars
  PROVE  MessagesInv'
<1>1. CASE UNCHANGED messageVars
  BY <1>1 DEF messageVars, MessagesInv, MessageTypeOK, EntriesSound, NodesSound, NodeSound,
       Remembers, SettledShow, Follows, Newest
<1>2. ASSUME NEW r \in Readers, SetParameters(r) PROVE MessagesInv'
  BY <1>2, SetParametersStep
<1>3. ASSUME NEW r \in Readers, GetOutputInfo(r) PROVE MessagesInv'
  BY <1>3, GetOutputInfoStep
<1>4. ASSUME NEW r \in Readers, Execute(r) PROVE MessagesInv'
  BY <1>4, ExecuteStep
<1>5. ASSUME NEW s \in Servers, StoreMessage(s) PROVE MessagesInv'
  BY <1>5, StoreMessageStep
<1> QED
  BY <1>1, <1>2, <1>3, <1>4, <1>5 DEF MessageNext

(* An operator that has cooked since anything of its own changed outputs the *)
(* newest value of its id, whole, whatever connections it had before, for    *)
(* any operators, servers, ids and messages.                                 *)
THEOREM CooksShowNewest == MessageSpec => []CookedShowsNewest
<1>1. MessageInit => MessagesInv
  BY MessagesStart
<1>2. MessagesInv /\ [MessageNext]_messageVars => MessagesInv'
  BY MessagesGoOn
<1>3. MessagesInv => CookedShowsNewest
  <2>1. ASSUME MessagesInv, cooking = Nobody, NEW r \in settled
        PROVE  output[r] = Filled(Newest(parameters[r], connection),
                                  ShapeOf(Newest(parameters[r], connection)))
    <3>1. cooking # r
      BY <2>1, MessageAssumption DEF MessagesInv, MessageTypeOK
    <3> QED
      BY <2>1, <3>1 DEF MessagesInv, SettledShow
  <2> QED
    BY <2>1 DEF CookedShowsNewest, Newest
<1> QED
  BY <1>1, <1>2, <1>3, PTL DEF MessageSpec

-----------------------------------------------------------------------------
(* ValuePublishing.                                                          *)
Update == [field : Fields, value : Nat]
Request == BOOLEAN \X Fields

PublishedTypeOK ==
  /\ value \in [Fields -> Nat \ {0}] /\ edits \in Nat \ {0}
  /\ publishPaths \subseteq Fields /\ pushPaths \subseteq Fields
  /\ previous \in [Fields -> Nat] /\ bus \in Seq(Update)
  /\ settings \in Nat /\ snapshot \in Nat /\ port \in Nat
  /\ lastValue \in [Fields -> Nat] /\ subscribers \in [Fields -> Nat]
  /\ requests \in Seq(Request) /\ waiting \in [Fields -> Nat]
  /\ republish \in Seq(Fields) /\ clientPaths \subseteq Fields

(* The last update for a field on a socket.                                  *)
EndsIn(q, f, v) ==
  \E i \in 1..Len(q) : q[i] = [field |-> f, value |-> v]
                       /\ \A j \in 1..Len(q) : q[j].field = f => j <= i
SaysNothing(q, f) == \A i \in 1..Len(q) : q[i].field # f
Reaches(q, kept, f, v) == EndsIn(q, f, v) \/ (SaysNothing(q, f) /\ kept[f] = v)

(* The last request for a field on its way.                                  *)
AsksFor(q, f) ==
  \E i \in 1..Len(q) : q[i] = <<TRUE, f>> /\ \A j \in 1..Len(q) : q[j][2] = f => j <= i
AsksNothing(q, f) == \A i \in 1..Len(q) : q[i][2] # f
Asked(q, f) == \E i \in 1..Len(q) : q[i] = <<TRUE, f>>

KeptInv ==
  \A f \in Fields \ unkept : previous[f] # 0 => Reaches(bus, lastValue, f, previous[f])
CountedInv ==
  \A f \in clientPaths :
    linked => AsksFor(requests, f) \/ (AsksNothing(requests, f) /\ subscribers[f] > 0)
ToldInv ==
  \A f \in clientPaths :
    linked => \/ Asked(requests, f) \/ waiting[f] > 0 \/ OnQueue(republish, f)
              \/ f \in lost \/ clientValue[f] = lastValue[f]
PublishedIInv ==
  PublishedTypeOK /\ KeptInv /\ CountedInv /\ ToldInv /\ (linked => port # 0)

(* Every set of numbers has a least one.                                     *)
LEMMA LeastNat ==
  ASSUME NEW S \in SUBSET Nat, S # {}
  PROVE  \E m \in S : \A k \in S : m <= k
<1> DEFINE R == OpToRel(<, Nat)
<1>1. IsWellFoundedOn(R, Nat)
  BY NatLessThanWellFounded
<1>2. \E x \in S : \A y \in S : ~(<<y, x>> \in R)
  <2> HIDE DEF R
  <2> QED
    BY <1>1, WFMin, Zenon
<1>3. \A x, y \in Nat : y < x => <<y, x>> \in R
  BY DEF OpToRel
<1> HIDE DEF R
<1>4. PICK x \in S : \A y \in S : ~(<<y, x>> \in R)
  BY <1>2
<1>5. ASSUME NEW k \in S
      PROVE  x <= k
  <2>1. x \in Nat /\ k \in Nat /\ ~(<<k, x>> \in R)
    BY <1>4
  <2>2. k < x => <<k, x>> \in R
    BY <1>3, <2>1
  <2> QED
    BY <2>1, <2>2
<1> QED
  BY <1>5

(* Induction along a list, over a set of its lengths.                        *)
LEMMA StepByStep ==
  ASSUME NEW N \in Nat, NEW T, 0 \in T, \A n \in 1..N : n - 1 \in T => n \in T
  PROVE  \A n \in 0..N : n \in T
<1> SUFFICES ASSUME NEW k \in 0..N, k \notin T
             PROVE  FALSE
  OBVIOUS
<1> DEFINE S == {n \in 0..N : n \notin T}
<1>1. S \in SUBSET Nat /\ S # {}
  OBVIOUS
<1>2. PICK m \in S : \A n \in S : m <= n
  BY <1>1, LeastNat
<1>3. m \in 1..N /\ m - 1 \notin S
  BY <1>2
<1> QED
  BY <1>2, <1>3

IsStep(step, N, V) == step \in [(1..N) \X V -> V]
Computes(f, first, step, N, V) ==
  f \in [0..N -> V] /\ f[0] = first /\ \A n \in 1..N : f[n] = step[<<n, f[n - 1]>>]

(* What is computed step by step from the one before exists.                 *)
LEMMA StepsExist ==
  ASSUME NEW N \in Nat, NEW V, NEW first \in V, NEW step, IsStep(step, N, V)
  PROVE  \E f : Computes(f, first, step, N, V)
<1> USE DEF IsStep
<1> DEFINE Good(f, m) == f \in [0..m -> V] /\ f[0] = first
                         /\ \A n \in 1..m : f[n] = step[<<n, f[n - 1]>>]
           T == {m \in 0..N : \E f : Good(f, m)}
<1>1. 0 \in T
  <2> DEFINE f == [n \in 0..0 |-> first]
  <2>1. f \in [0..0 -> V] /\ f[0] = first
    OBVIOUS
  <2>2. Good(f, 0)
    BY <2>1
  <2> HIDE DEF f, Good
  <2> QED
    BY <2>2
<1>2. ASSUME NEW m \in 1..N, m - 1 \in T
      PROVE  m \in T
  <2>1. PICK f : Good(f, m - 1)
    BY <1>2
  <2> DEFINE g == [n \in 0..m |-> IF n = m THEN step[<<m, f[m - 1]>>] ELSE f[n]]
  <2>2. f[m - 1] \in V
    BY <2>1
  <2>3. step[<<m, f[m - 1]>>] \in V
    BY <2>2
  <2>4. \A n \in 0..(m - 1) : g[n] = f[n] /\ f[n] \in V
    BY <2>1
  <2>5. g \in [0..m -> V]
    <3>1. \A n \in 0..m : n = m \/ n \in 0..(m - 1)
      OBVIOUS
    <3>2. \A n \in 0..m : (IF n = m THEN step[<<m, f[m - 1]>>] ELSE f[n]) \in V
      BY <2>1, <2>3, <3>1
    <3> QED
      BY <3>2
  <2>6. g[0] = first
    BY <2>1, <2>4
  <2>7. ASSUME NEW n \in 1..m
        PROVE  g[n] = step[<<n, g[n - 1]>>]
    <3>1. CASE n = m
      <4>1. g[m] = step[<<m, f[m - 1]>>] /\ g[m - 1] = f[m - 1]
        BY <2>4
      <4> QED
        BY <3>1, <4>1
    <3>2. CASE n # m
      <4>1. n \in 1..(m - 1) /\ n \in 0..(m - 1) /\ n - 1 \in 0..(m - 1)
        BY <3>2
      <4>2. f[n] = step[<<n, f[n - 1]>>]
        BY <2>1, <4>1
      <4>3. g[n] = f[n] /\ g[n - 1] = f[n - 1]
        BY <2>4, <4>1
      <4> QED
        BY <4>2, <4>3
    <3> QED
      BY <3>1, <3>2
  <2> HIDE DEF g
  <2>8. Good(g, m)
    BY <2>5, <2>6, <2>7
  <2> QED
    BY <2>8
<1>3. N \in T
  <2> HIDE DEF T
  <2>1. \A n \in 0..N : n \in T
    BY <1>1, <1>2, StepByStep
  <2> QED
    BY <2>1
<1> QED
  BY <1>3 DEF Computes

(* Some positions of a sequence have a last one.                             *)
LEMMA LastIndex ==
  ASSUME NEW N \in Nat, NEW S \in SUBSET (1..N), S # {}
  PROVE  \E i \in S : \A j \in S : j <= i
<1> DEFINE R == {k \in Nat : k <= N /\ N - k \in S}
<1>1. PICK i \in S : TRUE
  OBVIOUS
<1>2. N - i \in R /\ R \in SUBSET Nat
  OBVIOUS
<1>3. PICK m \in R : \A k \in R : m <= k
  <2> HIDE DEF R
  <2> QED
    BY <1>2, LeastNat
<1>4. m \in Nat /\ m <= N /\ N - m \in S
  OBVIOUS
<1>5. ASSUME NEW j \in S
      PROVE  j <= N - m
  <2>1. j \in 1..N
    OBVIOUS
  <2>2. N - j \in R
    BY <2>1
  <2>3. m <= N - j
    BY <1>3, <2>2
  <2> QED
    BY <1>4, <2>1, <2>3
<1> QED
  BY <1>4, <1>5

(* What is on the socket for a field is what is kept once it is received.    *)
LEMMA LastOfReached ==
  ASSUME NEW f \in Fields, NEW v \in Nat, Reaches(bus, lastValue, f, v)
  PROVE  LastOf(f) = v
<1>1. CASE SaysNothing(bus, f) /\ lastValue[f] = v
  BY <1>1 DEF SaysNothing, LastOf, UpdatesOf
<1>2. CASE EndsIn(bus, f, v)
  <2>1. PICK i \in 1..Len(bus) :
          /\ bus[i] = [field |-> f, value |-> v]
          /\ \A j \in 1..Len(bus) : bus[j].field = f => j <= i
    BY <1>2 DEF EndsIn
  <2>2. i \in UpdatesOf(f) /\ \A j \in UpdatesOf(f) : j <= i
    BY <2>1 DEF UpdatesOf
  <2>3. \A k \in UpdatesOf(f) : (\A j \in UpdatesOf(f) : j <= k) => k = i
    <3>1. \A k \in UpdatesOf(f) : k \in 1..Len(bus)
      BY DEF UpdatesOf
    <3>2. SUFFICES ASSUME NEW k \in UpdatesOf(f), \A j \in UpdatesOf(f) : j <= k
                   PROVE  k = i
      OBVIOUS
    <3>3. i <= k /\ k <= i
      BY <2>2, <3>2
    <3> QED
      BY <3>1, <3>3
  <2>4. (CHOOSE k \in UpdatesOf(f) : \A j \in UpdatesOf(f) : j <= k) = i
    BY <2>2, <2>3
  <2>5. LastOf(f) = bus[i].value
    BY <2>2, <2>4 DEF LastOf
  <2> QED
    BY <2>1, <2>5
<1> QED
  BY <1>1, <1>2 DEF Reaches

(* What is kept of the updates on the socket is the last of them.            *)
LEMMA LastOfEnds ==
  ASSUME PublishedTypeOK, NEW f \in Fields, UpdatesOf(f) # {}
  PROVE  EndsIn(bus, f, LastOf(f)) /\ LastOf(f) \in Nat
<1>1. Len(bus) \in Nat /\ UpdatesOf(f) \in SUBSET (1..Len(bus))
  BY DEF UpdatesOf, PublishedTypeOK
<1>2. \E i \in UpdatesOf(f) : \A j \in UpdatesOf(f) : j <= i
  BY <1>1, LastIndex
<1>3. PICK k \in UpdatesOf(f) :
        LastOf(f) = bus[k].value /\ \A j \in UpdatesOf(f) : j <= k
  BY <1>2 DEF LastOf
<1>4. k \in 1..Len(bus) /\ bus[k] \in Update /\ bus[k].field = f
  BY <1>1, <1>3 DEF PublishedTypeOK, UpdatesOf
<1>5. bus[k] = [field |-> f, value |-> LastOf(f)] /\ LastOf(f) \in Nat
  BY <1>3, <1>4 DEF Update
<1>6. \A j \in 1..Len(bus) : bus[j].field = f => j <= k
  BY <1>3 DEF UpdatesOf
<1> QED
  BY <1>4, <1>5, <1>6 DEF EndsIn

(* A value that is kept is a number.                                         *)
LEMMA LastOfTyped ==
  ASSUME PublishedTypeOK, NEW f \in Fields
  PROVE  LastOf(f) \in Nat
<1>1. CASE UpdatesOf(f) = {}
  BY <1>1 DEF LastOf, PublishedTypeOK
<1>2. CASE UpdatesOf(f) # {}
  BY <1>2, LastOfEnds
<1> QED
  BY <1>1, <1>2

(* The last message for a field is what its subscriber has then, or it is    *)
(* remembered as lost; a field with no message keeps what it has.            *)
LEMMA SentOrLost ==
  ASSUME NEW sending \in Seq(Update), NEW tally, SendAll(sending, tally),
         NEW f \in Fields, port # 0, f \in Delivered(tally)
  PROVE  /\ SaysNothing(sending, f) => clientValue'[f] = clientValue[f]
         /\ SaysNothing(sending, f) /\ f \in lost => f \in lost'
         /\ \A v : EndsIn(sending, f, v) => f \in lost' \/ clientValue'[f] = v
<1> DEFINE passing == {i \in DOMAIN sending :
                         port # 0 /\ sending[i].field \in Delivered(tally)}
           Of(S) == {i \in S : sending[i].field = f}
<1>1. PICK accepted \in SUBSET passing :
        /\ clientValue'[f] = IF Of(accepted) = {} THEN clientValue[f]
                             ELSE sending[Max(Of(accepted))].value
        /\ f \in lost' <=> IF Of(passing) = {} THEN f \in lost
                           ELSE Max(Of(passing)) \notin accepted
  BY DEF SendAll
<1>2. DOMAIN sending = 1..Len(sending)
  OBVIOUS
<1>3. ASSUME SaysNothing(sending, f)
      PROVE  clientValue'[f] = clientValue[f] /\ (f \in lost => f \in lost')
  <2>1. Of(passing) = {} /\ Of(accepted) = {}
    BY <1>2, <1>3 DEF SaysNothing
  <2> HIDE DEF passing, Of
  <2> QED
    BY <1>1, <2>1
<1>4. ASSUME NEW v, EndsIn(sending, f, v), f \notin lost'
      PROVE  clientValue'[f] = v
  <2>1. PICK i \in 1..Len(sending) :
          /\ sending[i] = [field |-> f, value |-> v]
          /\ \A j \in 1..Len(sending) : sending[j].field = f => j <= i
    BY <1>4 DEF EndsIn
  <2>2. ASSUME NEW S \in SUBSET passing, i \in Of(S)
        PROVE  Max(Of(S)) = i
    <3>1. \A j \in Of(S) : j \in 1..Len(sending) /\ j <= i
      BY <1>2, <2>1
    <3>2. i \in Nat /\ \A j \in Of(S) : j \in Nat
      BY <1>2
    <3> HIDE DEF Of
    <3>3. \A x \in Of(S) : (\A y \in Of(S) : x >= y) => x = i
      BY <2>2, <3>1, <3>2
    <3>4. \A y \in Of(S) : i >= y
      BY <3>1, <3>2
    <3> QED
      BY <2>2, <3>3, <3>4 DEF Max
  <2>3. i \in passing /\ i \in Of(passing)
    BY <1>2, <2>1
  <2>4. Max(Of(passing)) = i
    BY <2>2, <2>3
  <2>5. i \in accepted
    <3> HIDE DEF passing
    <3> QED
      BY <1>1, <1>4, <2>3, <2>4
  <2>6. i \in Of(accepted)
    BY <2>1, <2>5
  <2>7. Max(Of(accepted)) = i
    BY <2>2, <2>6
  <2>8. clientValue'[f] = sending[i].value
    <3> HIDE DEF passing
    <3> QED
      BY <1>1, <2>6, <2>7
  <2> QED
    BY <2>1, <2>8
<1> QED
  BY <1>3, <1>4

(* What the requests on their way make of the number of subscribers.         *)
LEMMA CountsFollow ==
  ASSUME PublishedTypeOK, NEW f \in Fields
  PROVE  /\ Counts[f] \in Nat
         /\ AsksFor(requests, f) => Counts[f] > 0
         /\ AsksNothing(requests, f) => Counts[f] = subscribers[f]
<1> DEFINE N == Len(requests)
           Next1(i, n) == IF requests[i][2] # f THEN n
                          ELSE IF requests[i][1] THEN n + 1
                          ELSE IF n > 0 THEN n - 1 ELSE 0
           F(g) == [i \in 0..N |-> IF i = 0 THEN subscribers[f]
                     ELSE IF requests[i][2] # f THEN g[i - 1]
                     ELSE IF requests[i][1] THEN g[i - 1] + 1
                     ELSE IF g[i - 1] > 0 THEN g[i - 1] - 1 ELSE 0]
           count == CHOOSE g : g = F(g)
           step == [x \in (1..N) \X Nat |-> Next1(x[1], x[2])]
<1>1. Counts[f] = count[N]
  BY DEF Counts
<1>2. N \in Nat /\ subscribers[f] \in Nat
  BY DEF PublishedTypeOK
<1>3. IsStep(step, N, Nat)
  <2>1. \A x \in (1..N) \X Nat : Next1(x[1], x[2]) \in Nat
    OBVIOUS
  <2>2. step \in [(1..N) \X Nat -> Nat]
    BY <2>1
  <2> QED
    BY <2>2 DEF IsStep
<1>4. PICK g : Computes(g, subscribers[f], step, N, Nat)
  <2> HIDE DEF step, N
  <2> QED
    BY <1>2, <1>3, StepsExist
<1>5. /\ g \in [0..N -> Nat] /\ g[0] = subscribers[f]
      /\ \A n \in 1..N : g[n] = step[<<n, g[n - 1]>>]
  BY <1>4 DEF Computes
<1>6. \A n \in 1..N : g[n - 1] \in Nat /\ g[n] = Next1(n, g[n - 1])
  <2> SUFFICES ASSUME NEW n \in 1..N
               PROVE  g[n - 1] \in Nat /\ g[n] = Next1(n, g[n - 1])
    OBVIOUS
  <2> HIDE DEF Next1
  <2>1. n - 1 \in 0..N
    BY <1>2
  <2>2. g[n - 1] \in Nat
    BY <1>5, <2>1
  <2>3. \A m \in Nat : step[<<n, m>>] = Next1(n, m)
    OBVIOUS
  <2> HIDE DEF step
  <2> QED
    BY <1>5, <2>2, <2>3
<1> HIDE DEF step
<1>7. \E h : h = F(h)
  <2>1. F(g) = [n \in 0..N |-> g[n]]
    BY <1>2, <1>5, <1>6
  <2>2. g = [n \in 0..N |-> g[n]]
    BY <1>5
  <2> QED
    BY <2>1, <2>2
<1>8. count = F(count)
  <2> HIDE DEF F
  <2> QED
    BY <1>7
<1> HIDE DEF count
<1>9. count[0] = subscribers[f] /\ \A n \in 1..N : count[n] = Next1(n, count[n - 1])
  <2> HIDE DEF N
  <2>1. \A n \in 0..N : count[n] = F(count)[n]
    BY <1>8
  <2> QED
    BY <1>2, <2>1
<1> DEFINE T == {n \in 0..N : count[n] \in Nat}
<1>10. \A n \in 0..N : n \in T
  <2>1. 0 \in T
    BY <1>2, <1>9
  <2>2. ASSUME NEW n \in 1..N, n - 1 \in T
        PROVE  n \in T
    <3>1. count[n - 1] \in Nat /\ count[n] = Next1(n, count[n - 1])
      BY <1>9, <2>2
    <3>2. \A m \in Nat : Next1(n, m) \in Nat
      OBVIOUS
    <3> HIDE DEF Next1
    <3>3. count[n] \in Nat
      BY <3>1, <3>2
    <3> QED
      BY <3>3
  <2> HIDE DEF T, N
  <2> QED
    BY <1>2, <2>1, <2>2, StepByStep
<1>11. count[N] \in Nat
  BY <1>2, <1>10
<1>12. ASSUME AsksNothing(requests, f)
       PROVE  count[N] = subscribers[f]
  <2> DEFINE U == {n \in 0..N : count[n] = subscribers[f]}
  <2>1. 0 \in U
    BY <1>2, <1>9
  <2>2. ASSUME NEW n \in 1..N, n - 1 \in U
        PROVE  n \in U
    BY <1>9, <1>12, <2>2 DEF AsksNothing
  <2>3. \A n \in 0..N : n \in U
    <3> HIDE DEF U, N
    <3> QED
      BY <1>2, <2>1, <2>2, StepByStep
  <2> QED
    BY <1>2, <2>3
<1>13. ASSUME AsksFor(requests, f)
       PROVE  count[N] > 0
  <2>1. PICK i \in 1..N : /\ requests[i] = <<TRUE, f>>
                          /\ \A j \in 1..N : requests[j][2] = f => j <= i
    BY <1>13 DEF AsksFor
  <2>2. count[i - 1] \in Nat
    <3>1. i - 1 \in 0..N
      BY <1>2, <2>1
    <3> QED
      BY <1>10, <3>1
  <2>3. count[i] > 0
    <3>1. count[i] = Next1(i, count[i - 1])
      BY <1>9, <2>1
    <3>2. requests[i][2] = f /\ requests[i][1] = TRUE
      BY <2>1
    <3>3. Next1(i, count[i - 1]) = count[i - 1] + 1
      BY <3>2
    <3> QED
      BY <2>2, <3>1, <3>3
  <2> DEFINE U == {n \in 0..N : n < i \/ count[n] > 0}
  <2>4. 0 \in U
    BY <2>1
  <2>5. ASSUME NEW n \in 1..N, n - 1 \in U
        PROVE  n \in U
    <3>1. CASE n < i
      BY <3>1
    <3>2. CASE n = i
      BY <2>3, <3>2
    <3>3. CASE n > i
      <4>1. count[n - 1] > 0 /\ requests[n][2] # f
        BY <2>1, <2>5, <3>3
      <4> QED
        BY <1>9, <4>1
    <3> QED
      BY <3>1, <3>2, <3>3
  <2>6. \A n \in 0..N : n \in U
    <3> HIDE DEF U, N
    <3> QED
      BY <1>2, <2>4, <2>5, StepByStep
  <2> QED
    BY <1>2, <2>1, <2>6
<1> QED
  BY <1>1, <1>11, <1>12, <1>13

(* A field that is sent is the last on the socket; the others stay.          *)
LEMMA BusGrows ==
  ASSUME NEW q \in Seq(Update), NEW S \in SUBSET Update, IsFiniteSet(S),
         NEW f \in Fields, NEW v \in Nat, NEW kept
  PROVE  /\ q \o SetToSeq(S) \in Seq(Update)
         /\ /\ [field |-> f, value |-> v] \in S
            /\ \A u \in S : u.field = f => u = [field |-> f, value |-> v]
            => EndsIn(q \o SetToSeq(S), f, v)
         /\ (\A u \in S : u.field # f) /\ Reaches(q, kept, f, v)
            => Reaches(q \o SetToSeq(S), kept, f, v)
<1> DEFINE s == SetToSeq(S)
           r == q \o s
<1>1. s \in Seq(S) /\ s \in Seq(Update)
  <2>1. s \in Seq(S)
    BY ListedOnce
  <2> HIDE DEF s
  <2>2. Len(s) \in Nat /\ \A i \in 1..Len(s) : s[i] \in Update
    BY <2>1
  <2>3. s = [i \in 1..Len(s) |-> s[i]]
    BY <2>1
  <2> HIDE DEF Update
  <2> QED
    BY <2>1, <2>2, <2>3
<1>2. \A x \in S : \E i \in 1..Len(s) : s[i] = x /\ \A j \in 1..Len(s) : s[j] = x => j = i
  BY ListedOnce
<1> HIDE DEF s
<1>3. \A i \in 1..Len(s) : s[i] \in S
  BY <1>1
<1>4. PICK m \in Nat, n \in Nat : m = Len(q) /\ n = Len(s)
  BY <1>1
<1>5. /\ r \in Seq(Update) /\ Len(r) = m + n
      /\ \A i \in 1..m : r[i] = q[i]
      /\ \A i \in 1..n : r[m + i] = s[i]
  <2> HIDE DEF Update
  <2>1. r \in Seq(Update) /\ Len(r) = Len(q) + Len(s)
    BY <1>1
  <2>2. \A i \in 1..m : r[i] = q[i]
    BY <1>1, <1>4
  <2>3. \A i \in 1..n : r[m + i] = s[i]
    BY <1>1, <1>4
  <2> QED
    BY <1>4, <2>1, <2>2, <2>3
<1> HIDE DEF r
<1>6. \A i \in 1..Len(r) : i \in 1..m \/ (i - m \in 1..n /\ r[i] = s[i - m])
  <2> SUFFICES ASSUME NEW i \in 1..Len(r), i \notin 1..m
               PROVE  i - m \in 1..n /\ r[i] = s[i - m]
    OBVIOUS
  <2>1. i - m \in 1..n /\ m + (i - m) = i
    BY <1>4, <1>5
  <2> QED
    BY <1>5, <2>1
<1>7. ASSUME [field |-> f, value |-> v] \in S,
             \A u \in S : u.field = f => u = [field |-> f, value |-> v]
      PROVE  EndsIn(r, f, v)
  <2>1. PICK i \in 1..n : /\ s[i] = [field |-> f, value |-> v]
                          /\ \A j \in 1..n : s[j] = [field |-> f, value |-> v] => j = i
    BY <1>2, <1>4, <1>7
  <2>2. m + i \in 1..Len(r) /\ r[m + i] = [field |-> f, value |-> v]
    BY <1>4, <1>5, <2>1
  <2>3. ASSUME NEW j \in 1..Len(r), r[j].field = f
        PROVE  j <= m + i
    <3>1. CASE j \in 1..m
      BY <1>4, <3>1
    <3>2. CASE j - m \in 1..n /\ r[j] = s[j - m]
      <4>1. s[j - m] \in S /\ s[j - m].field = f
        BY <1>3, <1>4, <2>3, <3>2
      <4>2. s[j - m] = [field |-> f, value |-> v]
        BY <1>7, <4>1
      <4>3. j - m = i
        BY <2>1, <3>2, <4>2
      <4> QED
        BY <1>4, <4>3
    <3> QED
      BY <1>6, <3>1, <3>2
  <2> QED
    BY <2>2, <2>3 DEF EndsIn
<1>8. ASSUME \A u \in S : u.field # f, Reaches(q, kept, f, v)
      PROVE  Reaches(r, kept, f, v)
  <2>1. \A j \in 1..Len(r) : r[j].field = f => j \in 1..m /\ r[j] = q[j]
    <3> SUFFICES ASSUME NEW j \in 1..Len(r), r[j].field = f
                 PROVE  j \in 1..m /\ r[j] = q[j]
      OBVIOUS
    <3>1. ~(j - m \in 1..n /\ r[j] = s[j - m])
      BY <1>3, <1>4, <1>8
    <3> QED
      BY <1>5, <1>6, <3>1
  <2>2. CASE SaysNothing(q, f) /\ kept[f] = v
    BY <1>4, <2>1, <2>2 DEF SaysNothing, Reaches
  <2>3. CASE EndsIn(q, f, v)
    <3>1. PICK i \in 1..m : /\ q[i] = [field |-> f, value |-> v]
                            /\ \A j \in 1..m : q[j].field = f => j <= i
      BY <1>4, <2>3 DEF EndsIn
    <3>2. i \in 1..Len(r) /\ r[i] = [field |-> f, value |-> v]
      BY <1>4, <1>5, <3>1
    <3>3. \A j \in 1..Len(r) : r[j].field = f => j <= i
      BY <2>1, <3>1
    <3> QED
      BY <3>2, <3>3 DEF EndsIn, Reaches
  <2> QED
    BY <1>8, <2>2, <2>3 DEF Reaches
<1> QED
  BY <1>5, <1>7, <1>8 DEF r, s

(* A request that joins the queue is the last one for its field.             *)
LEMMA RequestsGrow ==
  ASSUME NEW q \in Seq(Request), NEW on \in BOOLEAN, NEW f \in Fields
  PROVE  /\ Append(q, <<on, f>>) \in Seq(Request)
         /\ on => AsksFor(Append(q, <<on, f>>), f)
         /\ \A g \in Fields \ {f} :
              /\ AsksFor(q, g) => AsksFor(Append(q, <<on, f>>), g)
              /\ AsksNothing(q, g) => AsksNothing(Append(q, <<on, f>>), g)
              /\ Asked(q, g) => Asked(Append(q, <<on, f>>), g)
<1> DEFINE r == Append(q, <<on, f>>)
<1>1. /\ r \in Seq(Request) /\ Len(r) = Len(q) + 1 /\ r[Len(q) + 1] = <<on, f>>
      /\ \A i \in 1..Len(q) : r[i] = q[i]
  <2>1. <<on, f>> \in Request
    BY DEF Request
  <2> HIDE DEF Request
  <2> QED
    BY <2>1, AppendProperties
<1>2. PICK n \in Nat : n = Len(q)
  BY LenProperties
<1> HIDE DEF r
<1>3. 1..Len(r) = (1..n) \cup {n + 1} /\ r[n + 1] = <<on, f>> /\ \A i \in 1..n : r[i] = q[i]
  BY <1>1, <1>2
<1>4. on => AsksFor(r, f)
  <2>1. \A j \in 1..Len(r) : j <= n + 1
    BY <1>3
  <2> QED
    BY <1>3, <2>1 DEF AsksFor
<1>5. ASSUME NEW g \in Fields \ {f}
      PROVE  /\ AsksFor(q, g) => AsksFor(r, g)
             /\ AsksNothing(q, g) => AsksNothing(r, g)
             /\ Asked(q, g) => Asked(r, g)
  <2>1. AsksNothing(q, g) => AsksNothing(r, g)
    BY <1>2, <1>3 DEF AsksNothing
  <2>2. Asked(q, g) => Asked(r, g)
    BY <1>2, <1>3 DEF Asked
  <2>3. ASSUME AsksFor(q, g)
        PROVE  AsksFor(r, g)
    <3>1. PICK i \in 1..n : q[i] = <<TRUE, g>> /\ \A j \in 1..n : q[j][2] = g => j <= i
      BY <1>2, <2>3 DEF AsksFor
    <3>2. i \in 1..Len(r) /\ r[i] = <<TRUE, g>>
      BY <1>3, <3>1
    <3>3. \A j \in 1..Len(r) : r[j][2] = g => j <= i
      BY <1>3, <3>1
    <3> QED
      BY <3>2, <3>3 DEF AsksFor
  <2> QED
    BY <2>1, <2>2, <2>3
<1> QED
  BY <1>1, <1>4, <1>5 DEF r

(* A client that connects asks for all it subscribes to.                     *)
LEMMA AllAreAsked ==
  ASSUME NEW P \in SUBSET Fields
  PROVE  /\ SetToSeq({<<TRUE, f>> : f \in P}) \in Seq(Request)
         /\ \A f \in P : AsksFor(SetToSeq({<<TRUE, g>> : g \in P}), f)
<1> DEFINE S == {<<TRUE, f>> : f \in P}
           s == SetToSeq(S)
<1>1. IsFiniteSet(P)
  BY PublishingAssumption, FS_Subset
<1>0. \A x \in S : \E f \in P : x = <<TRUE, f>>
  OBVIOUS
<1>01. \A f \in P : <<TRUE, f>> \in S
  OBVIOUS
<1>2. IsFiniteSet(S)
  <2> DEFINE h == [f \in P |-> <<TRUE, f>>]
  <2>1. h \in [P -> S]
    OBVIOUS
  <2>2. \A x \in S : \E f \in P : h[f] = x
    BY <1>0
  <2>3. h \in Surjection(P, S)
    <3> HIDE DEF h, S
    <3> QED
      BY <2>1, <2>2 DEF Surjection
  <2> HIDE DEF h, S
  <2> QED
    BY <1>1, <2>3, FS_Surjection
<1>3. S \in SUBSET Request
  <2>1. \A f \in P : <<TRUE, f>> \in Request
    BY DEF Request
  <2> HIDE DEF S
  <2> QED
    BY <1>0, <2>1
<1>4. s \in Seq(S)
  <2> HIDE DEF S
  <2> QED
    BY <1>2, ListedOnce
<1>5. \A x \in S : \E i \in 1..Len(s) : s[i] = x /\ \A j \in 1..Len(s) : s[j] = x => j = i
  <2> HIDE DEF S
  <2> QED
    BY <1>2, ListedOnce
<1> HIDE DEF s
<1>6. \A i \in 1..Len(s) : s[i] \in S
  <2> HIDE DEF S
  <2> QED
    BY <1>4
<1>7. s \in Seq(Request)
  <2> HIDE DEF S, Request
  <2> QED
    BY <1>3, <1>4, <1>6
<1>8. ASSUME NEW f \in P
      PROVE  AsksFor(s, f)
  <2> HIDE DEF S
  <2>1. PICK i \in 1..Len(s) :
          s[i] = <<TRUE, f>> /\ \A j \in 1..Len(s) : s[j] = <<TRUE, f>> => j = i
    BY <1>01, <1>5
  <2>2. \A j \in 1..Len(s) : s[j][2] = f => j <= i
    <3>0. SUFFICES ASSUME NEW j \in 1..Len(s), s[j][2] = f
                   PROVE  j <= i
      OBVIOUS
    <3>1. s[j] = <<TRUE, f>>
      <4>1. PICK g \in P : s[j] = <<TRUE, g>>
        BY <1>0, <1>6
      <4> QED
        BY <3>0, <4>1
    <3>2. j = i
      BY <2>1, <3>1
    <3> QED
      BY <3>2
  <2> QED
    BY <2>1, <2>2 DEF AsksFor
<1> QED
  BY <1>7, <1>8 DEF s, S

(* At the start nothing was sent and nobody is linked.                       *)
LEMMA PublishedStarts == PublishingInit => PublishedIInv
<1> SUFFICES ASSUME PublishingInit
             PROVE  PublishedIInv
  OBVIOUS
<1>1. PublishedTypeOK
  BY PublishingAssumption DEF PublishingInit, PublishedTypeOK, Nothing, ClientPort
<1>2. KeptInv
  BY DEF PublishingInit, KeptInv, Nothing
<1>3. CountedInv /\ ToldInv /\ (linked => port # 0)
  BY DEF PublishingInit, CountedInv, ToldInv
<1>4. QED
  BY <1>1, <1>2, <1>3 DEF PublishedIInv

(* Changes of values, settings and publish paths move nothing on its way.    *)
LEMMA EditsKeepPublished ==
  ASSUME PublishedIInv,
         \/ EditValue \/ TogglePublished \/ EditPublisher \/ ReplacePublisher \/ Notify
         \/ ListenerJoins \/ ReadSettings \/ UNCHANGED publishingVars
  PROVE  PublishedIInv'
<1> USE DEF PublishedIInv
<1>1. /\ UNCHANGED <<previous, bus, lastValue, unkept, clientPaths, linked, requests, port>>
      /\ UNCHANGED <<subscribers, waiting, republish, clientValue, lost>>
  BY DEF EditValue, TogglePublished, EditPublisher, ReplacePublisher, Notify, ListenerJoins,
         ReadSettings, Edited, publisherVars, registryVars, settingsVars, loopVars, socketVars,
         streamerVars, subscriberVars, publishingVars
<1>2. PublishedTypeOK'
  <2> USE DEF PublishedTypeOK
  <2>1. CASE EditValue
    BY <1>1, <2>1 DEF EditValue, Edited, settingsVars, loopVars
  <2>2. CASE TogglePublished
    BY <1>1, <2>2 DEF TogglePublished, Edited, settingsVars, loopVars
  <2>3. CASE EditPublisher \/ ReplacePublisher
    <3>1. settings' \in Ports \cup {0} /\ edits' = edits + 1 /\ UNCHANGED registryVars
      BY <2>3 DEF EditPublisher, ReplacePublisher, Edited
    <3>2. snapshot' = snapshot
      BY <2>3 DEF EditPublisher, ReplacePublisher, loopVars
    <3>3. settings' \in Nat
      BY <3>1, PublishingAssumption
    <3> QED
      BY <1>1, <3>1, <3>2, <3>3 DEF registryVars
  <2>4. CASE Notify \/ ListenerJoins \/ ReadSettings \/ UNCHANGED publishingVars
    BY <1>1, <2>4 DEF Notify, ListenerJoins, ReadSettings, registryVars, settingsVars, loopVars,
                      publishingVars
  <2> QED
    BY <2>1, <2>2, <2>3, <2>4
<1>3. KeptInv' /\ CountedInv' /\ ToldInv' /\ (linked' => port' # 0)
  BY <1>1 DEF KeptInv, CountedInv, ToldInv
<1> QED
  BY <1>2, <1>3

(* What the publisher sends is the last on the socket; what it does not send *)
(* is what it sent last, or what nobody kept.                                *)
LEMMA TickKeepsPublished ==
  ASSUME PublishedIInv, PublisherTick
  PROVE  PublishedIInv'
<1> DEFINE current == [f \in Fields |-> IF f \in publishPaths THEN value[f] ELSE 0]
           changed == {f \in publishPaths : previous[f] # current[f]}
           going == changed \cup (publishPaths \cap pushPaths)
           S == {[field |-> f, value |-> value[f]] : f \in going}
<1> USE DEF PublishedIInv
<1>1. /\ previous' = current
      /\ bus' = IF joined THEN bus \o SetToSeq(S) ELSE bus
      /\ unkept' = IF joined THEN unkept \ going ELSE unkept \cup changed
      /\ UNCHANGED <<value, publishPaths, pushPaths, settings, snapshot, port, subscribers>>
      /\ UNCHANGED <<requests, linked, lastValue, waiting, republish, clientPaths>>
      /\ UNCHANGED <<clientValue, lost, edits>>
  BY DEF PublisherTick, registryVars, settingsVars, loopVars, socketVars, streamerVars,
         subscriberVars
<1>2. going \in SUBSET Fields /\ \A f \in Fields : value[f] \in Nat \ {0}
  BY DEF PublishedTypeOK
<1>3. current \in [Fields -> Nat]
  BY <1>2
<1>4. \A f \in publishPaths : f \in Fields /\ current[f] = value[f]
  BY DEF PublishedTypeOK
<1>5. \A f \in Fields \ publishPaths : current[f] = 0
  OBVIOUS
<1> HIDE DEF current
<1>6. IsFiniteSet(S)
  <2>1. IsFiniteSet(going)
    BY <1>2, PublishingAssumption, FS_Subset
  <2> DEFINE h == [f \in going |-> [field |-> f, value |-> value[f]]]
  <2> HIDE DEF going
  <2>2. h \in [going -> S]
    OBVIOUS
  <2>3. \A x \in S : \E f \in going : h[f] = x
    OBVIOUS
  <2> HIDE DEF h, S
  <2>4. h \in Surjection(going, S)
    BY <2>2, <2>3 DEF Surjection
  <2> QED
    BY <2>1, <2>4, FS_Surjection
<1>7. S \in SUBSET Update
  BY <1>2 DEF Update
<1>8. \A f \in going : [field |-> f, value |-> value[f]] \in S
  OBVIOUS
<1>9. \A u \in S : \E f \in going : u = [field |-> f, value |-> value[f]]
  OBVIOUS
<1> HIDE DEF S
<1>10. bus \in Seq(Update)
  BY DEF PublishedTypeOK
<1>11. bus' \in Seq(Update)
  <2>1. CASE joined
    <3>1. CASE Fields = {}
      <4>1. bus \o SetToSeq(S) \in Seq(Update)
        <5>1. SetToSeq(S) \in Seq(S)
          BY <1>6, ListedOnce
        <5>2. SetToSeq(S) \in Seq(Update)
          <6> DEFINE s == SetToSeq(S)
          <6>1. s \in Seq(S)
            BY <5>1
          <6> HIDE DEF s, Update
          <6>2. s \in Seq(Update)
            BY <1>7, <6>1
          <6> QED
            BY <6>2 DEF s
        <5> HIDE DEF Update
        <5> QED
          BY <1>10, <5>2
      <4> QED
        BY <1>1, <2>1, <4>1
    <3>2. CASE Fields # {}
      <4>1. PICK f \in Fields : TRUE
        BY <3>2
      <4>2. 0 \in Nat
        OBVIOUS
      <4>3. bus \o SetToSeq(S) \in Seq(Update)
        BY <1>6, <1>7, <1>10, <4>1, <4>2, BusGrows
      <4> QED
        BY <1>1, <2>1, <4>3
    <3> QED
      BY <3>1, <3>2
  <2>2. CASE ~joined
    BY <1>1, <1>10, <2>2
  <2> QED
    BY <2>1, <2>2
<1>12. PublishedTypeOK'
  BY <1>1, <1>3, <1>11 DEF PublishedTypeOK
<1>13. ASSUME NEW f \in Fields, f \notin unkept', current[f] # 0
       PROVE  Reaches(bus', lastValue, f, current[f])
  <2>1. f \in publishPaths /\ current[f] = value[f] /\ value[f] \in Nat
    BY <1>2, <1>4, <1>5, <1>13
  <2>2. ASSUME f \notin changed, f \notin unkept
        PROVE  Reaches(bus, lastValue, f, value[f])
    <3>1. previous[f] = value[f] /\ previous[f] # 0
      BY <1>2, <2>1, <2>2
    <3> QED
      BY <2>2, <3>1 DEF KeptInv
  <2>3. CASE joined /\ f \in going
    <3>1. [field |-> f, value |-> value[f]] \in S
      BY <1>8, <2>3
    <3>2. ASSUME NEW u \in S, u.field = f
          PROVE  u = [field |-> f, value |-> value[f]]
      <4>1. PICK g \in going : u = [field |-> g, value |-> value[g]]
        BY <1>9
      <4>2. g = f
        BY <3>2, <4>1
      <4> QED
        BY <4>1, <4>2
    <3>3. EndsIn(bus \o SetToSeq(S), f, value[f])
      BY <1>6, <1>7, <1>10, <2>1, <3>1, <3>2, BusGrows
    <3> QED
      BY <1>1, <2>1, <2>3, <3>3 DEF Reaches
  <2>4. CASE joined /\ f \notin going
    <3>1. f \notin unkept /\ f \notin changed
      BY <1>1, <1>13, <2>4
    <3>2. \A u \in S : u.field # f
      <4> SUFFICES ASSUME NEW u \in S
                   PROVE  u.field # f
        OBVIOUS
      <4>1. PICK g \in going : u = [field |-> g, value |-> value[g]]
        BY <1>9
      <4>2. u.field = g
        BY <4>1
      <4> QED
        BY <2>4, <4>2
    <3>3. Reaches(bus \o SetToSeq(S), lastValue, f, value[f])
      BY <1>6, <1>7, <1>10, <2>1, <2>2, <3>1, <3>2, BusGrows
    <3> QED
      BY <1>1, <2>1, <2>4, <3>3
  <2>5. CASE ~joined
    <3>1. f \notin unkept /\ f \notin changed
      BY <1>1, <1>13, <2>5
    <3> QED
      BY <1>1, <2>1, <2>2, <2>5, <3>1
  <2> QED
    BY <2>3, <2>4, <2>5
<1>14. KeptInv'
  BY <1>1, <1>13 DEF KeptInv
<1>15. CountedInv' /\ ToldInv' /\ (linked' => port' # 0)
  BY <1>1 DEF CountedInv, ToldInv
<1> QED
  BY <1>12, <1>14, <1>15

(* A client that subscribes, or ends a subscription, asks for it last.       *)
LEMMA SubscribingKeepsPublished ==
  ASSUME PublishedIInv, ClientSubscribes
  PROVE  PublishedIInv'
<1> USE DEF PublishedIInv
<1>1. PICK f \in Fields :
        /\ clientPaths' = IF f \in clientPaths THEN clientPaths \ {f} ELSE clientPaths \cup {f}
        /\ requests' = IF linked THEN Append(requests, <<f \notin clientPaths, f>>) ELSE requests
  BY DEF ClientSubscribes, Asking
<1>2. /\ UNCHANGED <<value, publishPaths, pushPaths, previous, bus, settings, snapshot, port>>
      /\ UNCHANGED <<subscribers, linked, lastValue, waiting, republish, clientValue, lost>>
      /\ UNCHANGED unkept
      /\ edits' = edits + 1
  BY DEF ClientSubscribes, Edited, registryVars, publisherVars, settingsVars, loopVars,
         streamerVars
<1>3. PICK on \in BOOLEAN : on <=> f \notin clientPaths
  OBVIOUS
<1>4. (f \notin clientPaths) = on
  BY <1>3
<1>5. requests \in Seq(Request)
  BY DEF PublishedTypeOK
<1>6. requests' = IF linked THEN Append(requests, <<on, f>>) ELSE requests
  BY <1>1, <1>4
<1>7. requests' \in Seq(Request)
  BY <1>5, <1>6, RequestsGrow
<1>8. PublishedTypeOK'
  BY <1>1, <1>2, <1>7 DEF PublishedTypeOK
<1>9. KeptInv'
  BY <1>2 DEF KeptInv
<1>10. ASSUME NEW g \in clientPaths', linked
       PROVE  /\ AsksFor(requests', g) \/ (AsksNothing(requests', g) /\ subscribers[g] > 0)
              /\ \/ Asked(requests', g) \/ waiting[g] > 0 \/ OnQueue(republish, g)
                 \/ g \in lost \/ clientValue[g] = lastValue[g]
  <2>1. g \in Fields
    BY <1>1 DEF PublishedTypeOK
  <2>2. CASE g = f
    <3>1. on
      BY <1>1, <1>3, <1>10, <2>2
    <3>2. AsksFor(requests', g)
      BY <1>5, <1>6, <1>10, <2>2, <3>1, RequestsGrow
    <3> QED
      BY <3>2 DEF AsksFor, Asked
  <2>3. CASE g # f
    <3>1. g \in clientPaths
      BY <1>1, <2>3
    <3>2. /\ AsksFor(requests, g) => AsksFor(requests', g)
          /\ AsksNothing(requests, g) => AsksNothing(requests', g)
          /\ Asked(requests, g) => Asked(requests', g)
      BY <1>5, <1>6, <1>10, <2>1, <2>3, RequestsGrow
    <3> QED
      BY <1>10, <3>1, <3>2 DEF CountedInv, ToldInv
  <2> QED
    BY <2>2, <2>3
<1>11. CountedInv'
  BY <1>2, <1>10 DEF CountedInv
<1>12. ToldInv'
  BY <1>2, <1>10 DEF ToldInv
<1> QED
  BY <1>2, <1>8, <1>9, <1>11, <1>12

(* A client that connects asks for all it subscribes to.                     *)
LEMMA ConnectingKeepsPublished ==
  ASSUME PublishedIInv, ClientConnects
  PROVE  PublishedIInv'
<1> USE DEF PublishedIInv
<1>1. /\ port = ClientPort
      /\ requests' = SetToSeq({<<TRUE, f>> : f \in clientPaths})
      /\ UNCHANGED <<value, publishPaths, pushPaths, previous, bus, settings, snapshot, port>>
      /\ UNCHANGED <<subscribers, lastValue, waiting, republish, clientValue, lost, unkept>>
      /\ UNCHANGED <<edits, clientPaths>>
  BY DEF ClientConnects, registryVars, publisherVars, settingsVars, loopVars, streamerVars,
         subscriberVars
<1>2. clientPaths \in SUBSET Fields
  BY DEF PublishedTypeOK
<1>3. requests' \in Seq(Request) /\ \A f \in clientPaths : AsksFor(requests', f)
  BY <1>1, <1>2, AllAreAsked
<1>4. PublishedTypeOK'
  BY <1>1, <1>3 DEF PublishedTypeOK
<1>5. KeptInv'
  BY <1>1 DEF KeptInv
<1>6. \A f \in clientPaths : Asked(requests', f)
  BY <1>3 DEF AsksFor, Asked
<1>7. CountedInv' /\ ToldInv'
  BY <1>1, <1>3, <1>6 DEF CountedInv, ToldInv
<1>8. port' # 0
  BY <1>1 DEF ClientPort
<1> QED
  BY <1>4, <1>5, <1>7, <1>8

(* A socket that is replaced has lost its client.                            *)
LEMMA ChangesKeepPublished ==
  ASSUME PublishedIInv, HandleChanges
  PROVE  PublishedIInv'
<1> USE DEF PublishedIInv
<1>1. /\ UNCHANGED <<value, publishPaths, pushPaths, previous, bus, settings, snapshot>>
      /\ UNCHANGED <<subscribers, lastValue, waiting, republish, lost, unkept, edits>>
      /\ UNCHANGED clientPaths
  BY DEF HandleChanges, registryVars, publisherVars, settingsVars, streamerVars
<1>2. \/ port' \in {0, snapshot} /\ ~linked' /\ requests' = <<>>
      \/ UNCHANGED <<port, linked, requests, clientValue>>
  BY DEF HandleChanges
<1>3. PublishedTypeOK'
  <2>1. requests' \in Seq(Request)
    <3>1. requests \in Seq(Request)
      BY DEF PublishedTypeOK
    <3>2. requests' = <<>> \/ requests' = requests
      BY <1>2
    <3>3. <<>> \in Seq(Request)
      OBVIOUS
    <3> QED
      BY <3>1, <3>2, <3>3
  <2>2. port' \in Nat
    <3>1. port \in Nat /\ snapshot \in Nat /\ 0 \in Nat
      BY DEF PublishedTypeOK
    <3>2. port' = 0 \/ port' = snapshot \/ port' = port
      BY <1>2
    <3> QED
      BY <3>1, <3>2
  <2> QED
    BY <1>1, <2>1, <2>2 DEF PublishedTypeOK
<1>4. KeptInv'
  BY <1>1 DEF KeptInv
<1>5. CountedInv' /\ ToldInv' /\ (linked' => port' # 0)
  BY <1>1, <1>2 DEF CountedInv, ToldInv
<1> QED
  BY <1>3, <1>4, <1>5

(* A thread is started for each request that is counted.                     *)
LEMMA JoinersCounted ==
  ASSUME PublishedTypeOK, NEW f \in Fields
  PROVE  Joiners(f) \in Nat /\ (Asked(requests, f) => Joiners(f) > 0)
<1> DEFINE S == {i \in DOMAIN requests : requests[i] = <<TRUE, f>>}
<1>1. DOMAIN requests = 1..Len(requests) /\ Len(requests) \in Nat
  BY DEF PublishedTypeOK
<1>2. IsFiniteSet(1..Len(requests))
  BY <1>1, FS_Interval
<1>3. S \subseteq 1..Len(requests)
  BY <1>1
<1>4. IsFiniteSet(S)
  <2> HIDE DEF S
  <2> QED
    BY <1>2, <1>3, FS_Subset
<1>5. Asked(requests, f) => S # {}
  BY <1>1 DEF Asked
<1>6. Joiners(f) = Cardinality(S)
  BY DEF Joiners
<1> HIDE DEF S
<1>7. Cardinality(S) \in Nat
  BY <1>4, FS_CardinalityType
<1>8. S # {} => Cardinality(S) # 0
  BY <1>4, FS_EmptySet
<1> QED
  BY <1>5, <1>6, <1>7, <1>8

(* A thread that ends has put its path on the queue, or lost it; what the    *)
(* client reads is on its way no longer.                                     *)
LEMMA DelaysKeepPublished ==
  ASSUME PublishedIInv, DelayEnds \/ ClientReads
  PROVE  PublishedIInv'
<1> USE DEF PublishedIInv
<1>1. /\ UNCHANGED <<value, publishPaths, pushPaths, previous, bus, settings, snapshot, port>>
      /\ UNCHANGED <<subscribers, requests, linked, lastValue, clientPaths, clientValue>>
      /\ UNCHANGED <<unkept, edits>>
  BY DEF DelayEnds, ClientReads, registryVars, publisherVars, settingsVars, loopVars, socketVars,
         streamerVars
<1>2. KeptInv' /\ CountedInv' /\ (linked' => port' # 0)
  BY <1>1 DEF KeptInv, CountedInv
<1>3. CASE ClientReads
  <2>1. UNCHANGED <<waiting, republish, lost>>
    BY <1>3 DEF ClientReads, streamerVars
  <2> QED
    BY <1>1, <1>2, <2>1 DEF PublishedTypeOK, ToldInv
<1>4. CASE DelayEnds
  <2>1. PICK f \in Fields :
          /\ waiting[f] > 0
          /\ waiting' = [waiting EXCEPT ![f] = @ - 1]
          /\ \/ republish' = Append(republish, f) /\ UNCHANGED lost
             \/ lost' = lost \cup {f} /\ UNCHANGED republish
    BY <1>4 DEF DelayEnds
  <2>2. waiting' \in [Fields -> Nat] /\ republish' \in Seq(Fields)
    <3>1. waiting \in [Fields -> Nat] /\ republish \in Seq(Fields)
      BY DEF PublishedTypeOK
    <3>2. waiting' \in [Fields -> Nat]
      BY <2>1, <3>1
    <3>3. Append(republish, f) \in Seq(Fields)
      BY <3>1
    <3> QED
      BY <2>1, <3>1, <3>2, <3>3
  <2>3. PublishedTypeOK'
    BY <1>1, <2>2 DEF PublishedTypeOK
  <2>4. OnQueue(republish', f) \/ f \in lost'
    <3>1. CASE republish' = Append(republish, f)
      <4>1. Len(republish) + 1 \in 1..Len(republish') /\ republish'[Len(republish) + 1] = f
        BY <3>1 DEF PublishedTypeOK
      <4> QED
        BY <4>1 DEF OnQueue
    <3> QED
      BY <2>1, <3>1
  <2>5. \A g \in Fields : OnQueue(republish, g) => OnQueue(republish', g)
    <3>1. CASE republish' = Append(republish, f)
      <4>1. \A i \in 1..Len(republish) : i \in 1..Len(republish') /\ republish'[i] = republish[i]
        BY <3>1 DEF PublishedTypeOK
      <4> QED
        BY <4>1 DEF OnQueue
    <3> QED
      BY <2>1, <3>1
  <2>6. \A g \in Fields : (g # f => waiting'[g] = waiting[g]) /\ (g \in lost => g \in lost')
    BY <2>1 DEF PublishedTypeOK
  <2>7. \A g \in clientPaths : g \in Fields
    BY DEF PublishedTypeOK
  <2>8. ToldInv'
    BY <1>1, <2>4, <2>5, <2>6, <2>7 DEF ToldInv
  <2> QED
    BY <1>2, <2>3, <2>8
<1> QED
  BY <1>3, <1>4

(* The tick counts the requests and sends what is kept to who has waited.    *)
LEMMA StreamerTickKeepsPublished ==
  ASSUME PublishedIInv, TickStreamer
  PROVE  PublishedIInv'
<1> USE DEF PublishedIInv
<1>1. /\ UNCHANGED <<value, publishPaths, pushPaths, previous, bus, settings, snapshot>>
      /\ UNCHANGED <<unkept, edits, clientPaths, lastValue, linked>>
  BY DEF TickStreamer, registryVars, publisherVars, settingsVars, socketVars, streamerVars
<1>2. KeptInv'
  BY <1>1 DEF KeptInv
<1>3. CASE UNCHANGED <<socketVars, streamerVars, clientValue, lost>>
  BY <1>1, <1>2, <1>3 DEF PublishedTypeOK, CountedInv, ToldInv, socketVars, streamerVars
<1>4. CASE /\ port = 0 /\ port' \in {0, snapshot}
           /\ UNCHANGED <<subscribers, requests, linked, streamerVars, clientValue, lost>>
  BY <1>1, <1>2, <1>4 DEF PublishedTypeOK, CountedInv, ToldInv, streamerVars
<1>5. CASE snapshot # 0 /\ port # 0
  <2> DEFINE sending == [i \in DOMAIN republish |->
                            [field |-> republish[i], value |-> lastValue[republish[i]]]]
  <2>1. /\ subscribers' = Counts /\ requests' = <<>> /\ republish' = <<>>
        /\ waiting' = [f \in Fields |-> waiting[f] + Joiners(f)]
        /\ SendAll(sending, Counts)
        /\ UNCHANGED <<port, linked, lastValue>>
    BY <1>5 DEF TickStreamer
  <2>2. \A f \in Fields : /\ Counts[f] \in Nat
                          /\ AsksFor(requests, f) => Counts[f] > 0
                          /\ AsksNothing(requests, f) => Counts[f] = subscribers[f]
    BY CountsFollow
  <2>3. Counts \in [Fields -> Nat]
    <3>1. Counts = [f \in Fields |-> Counts[f]]
      BY DEF Counts
    <3> QED
      BY <2>2, <3>1
  <2>4. \A f \in Fields : Joiners(f) \in Nat /\ (Asked(requests, f) => Joiners(f) > 0)
    BY JoinersCounted
  <2>0. /\ DOMAIN republish = 1..Len(republish) /\ Len(republish) \in Nat
        /\ republish \in Seq(Fields) /\ lastValue \in [Fields -> Nat]
    BY DEF PublishedTypeOK
  <2>5. sending \in Seq(Update) /\ Len(sending) = Len(republish)
    <3>1. \A i \in 1..Len(republish) :
            [field |-> republish[i], value |-> lastValue[republish[i]]] \in Update
      BY <2>0 DEF Update
    <3>2. sending = [i \in 1..Len(republish) |->
                       [field |-> republish[i], value |-> lastValue[republish[i]]]]
      BY <2>0
    <3> HIDE DEF sending, Update
    <3> QED
      BY <2>0, <3>1, <3>2
  <2>6. ASSUME NEW f \in Fields, OnQueue(republish, f)
        PROVE  EndsIn(sending, f, lastValue[f])
    <3> DEFINE S == {i \in 1..Len(republish) : republish[i] = f}
    <3>1. S \in SUBSET (1..Len(republish)) /\ S # {} /\ Len(republish) \in Nat
      BY <2>0, <2>6 DEF OnQueue
    <3>2. PICK i \in S : \A j \in S : j <= i
      <4> HIDE DEF S
      <4> QED
        BY <3>1, LastIndex
    <3>3. DOMAIN republish = 1..Len(republish)
      BY <2>0
    <3>4. sending[i] = [field |-> f, value |-> lastValue[f]]
      BY <3>2, <3>3
    <3>5. \A j \in 1..Len(sending) : sending[j].field = f => j <= i
      BY <2>5, <3>2, <3>3
    <3> HIDE DEF sending
    <3> QED
      BY <2>5, <3>2, <3>4, <3>5 DEF EndsIn
  <2>7. ASSUME NEW f \in Fields, ~OnQueue(republish, f)
        PROVE  SaysNothing(sending, f)
    BY <2>0, <2>5, <2>7 DEF OnQueue, SaysNothing
  <2> HIDE DEF sending
  <2>8. PublishedTypeOK'
    <3>1. waiting' \in [Fields -> Nat]
      BY <2>1, <2>4 DEF PublishedTypeOK
    <3>2. requests' \in Seq(Request) /\ republish' \in Seq(Fields)
      BY <2>1
    <3> QED
      BY <1>1, <2>1, <2>3, <3>1, <3>2 DEF PublishedTypeOK
  <2>9. ASSUME NEW f \in clientPaths, linked
        PROVE  /\ Counts[f] > 0
               /\ waiting'[f] > 0 \/ f \in lost' \/ clientValue'[f] = lastValue[f]
    <3>1. f \in Fields
      BY DEF PublishedTypeOK
    <3>2. Counts[f] > 0
      BY <2>2, <2>9, <3>1 DEF CountedInv
    <3>3. f \in Delivered(Counts)
      BY <2>9, <3>2 DEF Delivered
    <3>4. waiting'[f] = waiting[f] + Joiners(f) /\ waiting[f] \in Nat /\ Joiners(f) \in Nat
      BY <2>1, <2>4, <3>1 DEF PublishedTypeOK
    <3>5. CASE Asked(requests, f) \/ waiting[f] > 0
      BY <2>4, <3>1, <3>2, <3>4, <3>5
    <3>6. CASE OnQueue(republish, f)
      BY <1>5, <2>1, <2>5, <2>6, <3>1, <3>2, <3>3, <3>6, SentOrLost
    <3>7. CASE ~OnQueue(republish, f) /\ (f \in lost \/ clientValue[f] = lastValue[f])
      BY <1>5, <2>1, <2>5, <2>7, <3>1, <3>2, <3>3, <3>7, SentOrLost
    <3> QED
      BY <2>9, <3>5, <3>6, <3>7 DEF ToldInv
  <2>10. \A f \in Fields : AsksNothing(requests', f)
    BY <2>1 DEF AsksNothing
  <2>11. CountedInv'
    <3>1. \A f \in clientPaths : f \in Fields
      BY DEF PublishedTypeOK
    <3> QED
      BY <1>1, <2>1, <2>9, <2>10, <3>1 DEF CountedInv
  <2>12. ToldInv'
    BY <1>1, <2>9 DEF ToldInv
  <2> QED
    BY <1>2, <1>5, <2>1, <2>8, <2>11, <2>12
<1> QED
  BY <1>3, <1>4, <1>5 DEF TickStreamer

(* What is received is kept, and goes to who is counted.                     *)
LEMMA ReceivingKeepsPublished ==
  ASSUME PublishedIInv, ReceiveUpdates
  PROVE  PublishedIInv'
<1> USE DEF PublishedIInv
<1>1. /\ UNCHANGED <<value, publishPaths, pushPaths, previous, settings, snapshot, port>>
      /\ UNCHANGED <<subscribers, requests, linked, waiting, republish, unkept, edits>>
      /\ UNCHANGED clientPaths
      /\ bus' = <<>> /\ lastValue' = [f \in Fields |-> LastOf(f)]
      /\ SendAll(bus, subscribers)
  BY DEF ReceiveUpdates, registryVars, settingsVars, socketVars
<1>2. \A f \in Fields : LastOf(f) \in Nat
  BY LastOfTyped
<1>3. PublishedTypeOK'
  <2>1. lastValue' \in [Fields -> Nat]
    BY <1>1, <1>2
  <2>2. bus' \in Seq(Update)
    BY <1>1
  <2> QED
    BY <1>1, <2>1, <2>2 DEF PublishedTypeOK
<1>4. KeptInv'
  <2> SUFFICES ASSUME NEW f \in Fields, f \notin unkept, previous[f] # 0
               PROVE  Reaches(<<>>, lastValue', f, previous[f])
    BY <1>1 DEF KeptInv
  <2>1. previous[f] \in Nat
    BY DEF PublishedTypeOK
  <2>2. Reaches(bus, lastValue, f, previous[f])
    BY DEF KeptInv
  <2>3. lastValue'[f] = previous[f]
    BY <1>1, <2>1, <2>2, LastOfReached
  <2> QED
    BY <2>3 DEF Reaches, SaysNothing
<1>5. CountedInv' /\ (linked' => port' # 0)
  BY <1>1 DEF CountedInv
<1>6. ToldInv'
  <2> SUFFICES ASSUME NEW f \in clientPaths, linked
               PROVE  \/ Asked(requests, f) \/ waiting[f] > 0 \/ OnQueue(republish, f)
                      \/ f \in lost' \/ clientValue'[f] = lastValue'[f]
    BY <1>1 DEF ToldInv
  <2>1. f \in Fields /\ bus \in Seq(Update)
    BY DEF PublishedTypeOK
  <2>2. CASE AsksFor(requests, f)
    BY <2>2 DEF AsksFor, Asked
  <2>3. CASE AsksNothing(requests, f) /\ subscribers[f] > 0
    <3>1. port # 0 /\ f \in Delivered(subscribers)
      BY <2>3 DEF Delivered
    <3>2. CASE UpdatesOf(f) # {}
      <4>1. EndsIn(bus, f, LastOf(f))
        BY <2>1, <3>2, LastOfEnds
      <4>2. f \in lost' \/ clientValue'[f] = LastOf(f)
        BY <1>1, <2>1, <3>1, <4>1, SentOrLost
      <4> QED
        BY <1>1, <2>1, <4>2
    <3>3. CASE UpdatesOf(f) = {}
      <4>1. LastOf(f) = lastValue[f]
        BY <3>3 DEF LastOf
      <4>2. SaysNothing(bus, f)
        BY <3>3 DEF SaysNothing, UpdatesOf
      <4>3. clientValue'[f] = clientValue[f] /\ (f \in lost => f \in lost')
        BY <1>1, <2>1, <3>1, <4>2, SentOrLost
      <4> QED
        BY <1>1, <2>1, <4>1, <4>3 DEF ToldInv
    <3> QED
      BY <3>2, <3>3
  <2> QED
    BY <2>2, <2>3 DEF CountedInv
<1> QED
  BY <1>3, <1>4, <1>5, <1>6

(* Every step keeps the invariant.                                           *)
LEMMA PublishedGoesOn ==
  PublishedIInv /\ [PublishingNext]_publishingVars => PublishedIInv'
<1> SUFFICES ASSUME PublishedIInv, [PublishingNext]_publishingVars
             PROVE  PublishedIInv'
  OBVIOUS
<1>1. CASE EditValue \/ TogglePublished \/ EditPublisher \/ ReplacePublisher \/ Notify
  BY <1>1, EditsKeepPublished
<1>2. CASE ListenerJoins \/ ReadSettings \/ UNCHANGED publishingVars
  BY <1>2, EditsKeepPublished
<1>3. CASE PublisherTick
  BY <1>3, TickKeepsPublished
<1>4. CASE ClientSubscribes
  BY <1>4, SubscribingKeepsPublished
<1>5. CASE ClientConnects
  BY <1>5, ConnectingKeepsPublished
<1>6. CASE HandleChanges
  BY <1>6, ChangesKeepPublished
<1>7. CASE TickStreamer
  BY <1>7, StreamerTickKeepsPublished
<1>8. CASE ReceiveUpdates
  BY <1>8, ReceivingKeepsPublished
<1>9. CASE DelayEnds \/ ClientReads
  BY <1>9, DelaysKeepPublished
<1> QED
  BY <1>1, <1>2, <1>3, <1>4, <1>5, <1>6, <1>7, <1>8, <1>9 DEF PublishingNext

(* When nothing is under way, a linked client has the current value of every *)
(* published field it subscribes to that the streamer was told of and that   *)
(* was not lost at the limit of the socket or in the queue: what a client    *)
(* has is the last value kept, or it is asked for, waited for or due; what   *)
(* is kept, or on the socket behind it, is what the publisher compared with. *)
THEOREM SubscribersCatchUp == PublishingSpec => []QuietSubscriberIsCurrent
<1>1. PublishedIInv => QuietSubscriberIsCurrent
  <2> SUFFICES ASSUME PublishedIInv,
                      linked, requests = <<>>, waiting = Nothing, republish = <<>>, bus = <<>>,
                      \A f \in publishPaths : previous[f] = value[f],
                      NEW f \in publishPaths \cap clientPaths, f \notin unkept, f \notin lost
               PROVE  clientValue[f] = value[f]
    BY DEF QuietSubscriberIsCurrent
  <2> USE DEF PublishedIInv
  <2>1. f \in Fields /\ previous[f] = value[f] /\ previous[f] # 0
    BY DEF PublishedTypeOK
  <2>2. Reaches(bus, lastValue, f, value[f])
    BY <2>1 DEF KeptInv
  <2>3. lastValue[f] = value[f]
    BY <2>2 DEF Reaches, EndsIn
  <2>4. ~Asked(requests, f) /\ ~OnQueue(republish, f)
    BY DEF Asked, OnQueue
  <2>5. waiting[f] = 0
    BY <2>1 DEF Nothing
  <2> QED
    BY <2>3, <2>4, <2>5 DEF ToldInv
<1>2. QED
  BY <1>1, PublishedStarts, PublishedGoesOn, PTL DEF PublishingSpec
-----------------------------------------------------------------------------
(* ClusterTracking.                                                          *)
Near(existing, box) ==
  {i \in DOMAIN existing : Distance(existing[i].at, box) <= MatchTolerance}

(* A new box takes only tracked ones near it.                                *)
LEMMA TakenAreNear ==
  ASSUME NEW boxes, Len(boxes) \in Nat, NEW existing
  PROVE  \A i \in TakenBy(boxes, existing) :
           \E k \in 1..Len(boxes) : i \in Near(existing, boxes[k])
<1> DEFINE N == Len(boxes)
           V == SUBSET DOMAIN existing
           First(free) == {i \in free : \A j \in free : i <= j}
           F(g) == [n \in 0..N |-> IF n = 0 THEN {}
                      ELSE g[n - 1] \cup First(Near(existing, boxes[n]) \ g[n - 1])]
           taken == CHOOSE g : g = F(g)
<1>1. TakenBy(boxes, existing) = taken[N]
  BY DEF TakenBy, Near
<1> DEFINE step == [x \in (1..N) \X V |-> x[2] \cup First(Near(existing, boxes[x[1]]) \ x[2])]
<1>2. step \in [(1..N) \X V -> V]
  <2>1. \A x \in (1..N) \X V : x[2] \cup First(Near(existing, boxes[x[1]]) \ x[2]) \in V
    BY DEF Near
  <2> QED
    BY <2>1
<1>3. \A n \in 1..N, v \in V : step[<<n, v>>] = v \cup First(Near(existing, boxes[n]) \ v)
  OBVIOUS
<1> HIDE DEF step
<1> N \in Nat
  OBVIOUS
<1> HIDE DEF N
<1>4. PICK f : /\ f \in [0..N -> V] /\ f[0] = {}
               /\ \A n \in 1..N : f[n] = step[<<n, f[n - 1]>>]
  <2>1. {} \in V
    OBVIOUS
  <2> HIDE DEF V
  <2> QED
    <3>1. IsStep(step, N, V)
      BY <1>2 DEF IsStep
    <3>2. \E f : Computes(f, {}, step, N, V)
      BY <2>1, <3>1, StepsExist
    <3> QED
      BY <3>2 DEF Computes
<1>5. f = F(f)
  <2>1. \A n \in 1..N : f[n] = f[n - 1] \cup First(Near(existing, boxes[n]) \ f[n - 1])
    <3> SUFFICES ASSUME NEW n \in 1..N
                 PROVE  f[n] = f[n - 1] \cup First(Near(existing, boxes[n]) \ f[n - 1])
      OBVIOUS
    <3> HIDE DEF V, First
    <3>1. n - 1 \in 0..N
      OBVIOUS
    <3>2. f[n - 1] \in V
      BY <1>4, <3>1
    <3> QED
      BY <1>3, <1>4, <3>2
  <2> HIDE DEF First
  <2>2. F(f) = [n \in 0..N |-> f[n]]
    <3>1. \A n \in 0..N : n = 0 \/ n \in 1..N
      OBVIOUS
    <3> QED
      BY <1>4, <2>1, <3>1
  <2> HIDE DEF F
  <2> QED
    BY <1>4, <2>2
<1>6. taken = F(taken)
  <2> HIDE DEF F
  <2> QED
    BY <1>5
<1> HIDE DEF taken
<1>7. /\ taken[0] = {}
      /\ \A n \in 1..N : taken[n] = taken[n - 1] \cup First(Near(existing, boxes[n]) \ taken[n - 1])
  <2> HIDE DEF First
  <2>1. 0 \in 0..N /\ \A n \in 1..N : n \in 0..N /\ n # 0
    OBVIOUS
  <2>2. \A n \in 0..N : taken[n] = F(taken)[n]
    BY <1>6
  <2> QED
    BY <2>1, <2>2
<1> HIDE DEF F
<1> DEFINE T == {n \in 0..N : \A i \in taken[n] : \E k \in 1..N : i \in Near(existing, boxes[k])}
<1>8. 0 \in T
  BY <1>7
<1>9. ASSUME NEW n \in 1..N, n - 1 \in T
      PROVE  n \in T
  BY <1>7, <1>9
<1>10. N \in T
  <2> HIDE DEF T
  <2> QED
    BY <1>8, <1>9, StepByStep
<1> QED
  BY <1>1, <1>10 DEF N

(* What stays is what none took and has not timed out, each once.            *)
LEMMA KeptStay ==
  ASSUME NEW R, NEW existing \in Seq(R), NEW given, NEW now
  PROVE  /\ KeptInTime(existing, given, now) \in Seq(R)
         /\ \A n \in 1..Len(existing) : n \notin given /\ InTime(existing[n].seen, now) =>
              \E k \in 1..Len(KeptInTime(existing, given, now)) :
                KeptInTime(existing, given, now)[k] = existing[n]
         /\ \A k \in 1..Len(KeptInTime(existing, given, now)) :
              \E n \in 1..Len(existing) :
                /\ n \notin given /\ InTime(existing[n].seen, now)
                /\ KeptInTime(existing, given, now)[k] = existing[n]
<1> DEFINE N == Len(existing)
           V == Seq(R)
           Remains(n) == n \notin given /\ InTime(existing[n].seen, now)
           F(g) == [n \in 0..N |-> IF n = 0 THEN <<>>
                      ELSE IF n \notin given /\ InTime(existing[n].seen, now)
                      THEN Append(g[n - 1], existing[n]) ELSE g[n - 1]]
           kept == CHOOSE g : g = F(g)
<1>1. KeptInTime(existing, given, now) = kept[N]
  BY DEF KeptInTime
<1> DEFINE step == [x \in (1..N) \X V |->
                      IF Remains(x[1]) THEN Append(x[2], existing[x[1]]) ELSE x[2]]
<1>2. step \in [(1..N) \X V -> V]
  <2> HIDE DEF Remains
  <2>1. ASSUME NEW x \in (1..N) \X V
        PROVE  (IF Remains(x[1]) THEN Append(x[2], existing[x[1]]) ELSE x[2]) \in V
    <3>1. x[2] \in Seq(R) /\ existing[x[1]] \in R
      OBVIOUS
    <3> QED
      BY <3>1
  <2> QED
    BY <2>1
<1>3. \A n \in 1..N, v \in V : step[<<n, v>>] = IF Remains(n) THEN Append(v, existing[n]) ELSE v
  OBVIOUS
<1> HIDE DEF step
<1> N \in Nat
  OBVIOUS
<1> HIDE DEF N
<1>4. PICK f : /\ f \in [0..N -> V] /\ f[0] = <<>>
               /\ \A n \in 1..N : f[n] = step[<<n, f[n - 1]>>]
  <2>1. <<>> \in V
    OBVIOUS
  <2> HIDE DEF V
  <2> QED
    <3>1. IsStep(step, N, V)
      BY <1>2 DEF IsStep
    <3>2. \E f : Computes(f, <<>>, step, N, V)
      BY <2>1, <3>1, StepsExist
    <3> QED
      BY <3>2 DEF Computes
<1>5. f = F(f)
  <2>1. \A n \in 1..N : f[n] = IF Remains(n) THEN Append(f[n - 1], existing[n]) ELSE f[n - 1]
    <3> SUFFICES ASSUME NEW n \in 1..N
                 PROVE  f[n] = IF Remains(n) THEN Append(f[n - 1], existing[n]) ELSE f[n - 1]
      OBVIOUS
    <3> HIDE DEF V, Remains
    <3>1. n - 1 \in 0..N
      OBVIOUS
    <3>2. f[n - 1] \in V
      BY <1>4, <3>1
    <3> QED
      BY <1>3, <1>4, <3>2
  <2>2. F(f) = [n \in 0..N |-> f[n]]
    <3>1. \A n \in 0..N : n = 0 \/ n \in 1..N
      OBVIOUS
    <3> QED
      BY <1>4, <2>1, <3>1
  <2> HIDE DEF F
  <2> QED
    BY <1>4, <2>2
<1>6. kept = F(kept)
  <2> HIDE DEF F
  <2> QED
    BY <1>5
<1> HIDE DEF kept
<1>7. /\ kept[0] = <<>>
      /\ \A n \in 1..N :
           kept[n] = IF Remains(n) THEN Append(kept[n - 1], existing[n]) ELSE kept[n - 1]
  <2>1. 0 \in 0..N /\ \A n \in 1..N : n \in 0..N /\ n # 0
    OBVIOUS
  <2>2. \A n \in 0..N : kept[n] = F(kept)[n]
    BY <1>6
  <2> QED
    BY <2>1, <2>2
<1> HIDE DEF F, Remains
<1> DEFINE Right(s, m) ==
             /\ s \in Seq(R)
             /\ \A n \in 1..m : Remains(n) => \E k \in 1..Len(s) : s[k] = existing[n]
             /\ \A k \in 1..Len(s) : \E n \in 1..m : Remains(n) /\ s[k] = existing[n]
           T == {m \in 0..N : Right(kept[m], m)}
<1>8. 0 \in T
  <2>1. <<>> \in Seq(R) /\ Len(<<>>) = 0 /\ 0 \in 0..N
    OBVIOUS
  <2>2. Right(<<>>, 0)
    BY <2>1
  <2> HIDE DEF Right
  <2> QED
    BY <1>7, <2>1, <2>2
<1>9. ASSUME NEW m \in 1..N, m - 1 \in T
      PROVE  m \in T
  <2> DEFINE s == kept[m - 1]
  <2>1. Right(s, m - 1)
    BY <1>9
  <2>2. existing[m] \in R
    BY DEF N
  <2>3. \A n \in 1..m : n = m \/ n \in 1..(m - 1)
    OBVIOUS
  <2>4. CASE Remains(m)
    <3> DEFINE t == Append(s, existing[m])
    <3>1. kept[m] = t
      BY <1>7, <2>4
    <3> HIDE DEF s
    <3>2. /\ t \in Seq(R) /\ Len(s) \in Nat /\ Len(t) = Len(s) + 1 /\ t[Len(s) + 1] = existing[m]
          /\ \A k \in 1..Len(s) : t[k] = s[k]
      BY <2>1, <2>2
    <3> HIDE DEF t
    <3>3. \A n \in 1..m : Remains(n) => \E k \in 1..Len(t) : t[k] = existing[n]
      <4>1. ASSUME NEW n \in 1..(m - 1), Remains(n)
            PROVE  \E k \in 1..Len(t) : t[k] = existing[n]
        <5>1. PICK k \in 1..Len(s) : s[k] = existing[n]
          BY <2>1, <4>1
        <5>2. k \in 1..Len(t) /\ t[k] = s[k]
          BY <3>2
        <5> QED
          BY <5>1, <5>2
      <4>2. Len(s) + 1 \in 1..Len(t)
        BY <3>2
      <4> QED
        BY <2>3, <3>2, <4>1, <4>2
    <3>4. ASSUME NEW k \in 1..Len(t)
          PROVE  \E n \in 1..m : Remains(n) /\ t[k] = existing[n]
      <4>1. CASE k \in 1..Len(s)
        <5>1. PICK n \in 1..(m - 1) : Remains(n) /\ s[k] = existing[n]
          BY <2>1, <4>1
        <5>2. n \in 1..m /\ t[k] = s[k]
          BY <3>2, <4>1
        <5> QED
          BY <5>1, <5>2
      <4>2. CASE k = Len(s) + 1
        BY <2>4, <3>2, <4>2
      <4> QED
        BY <3>2, <4>1, <4>2
    <3>5. Right(t, m)
      BY <3>2, <3>3, <3>4
    <3> HIDE DEF Right
    <3> QED
      BY <3>1, <3>5
  <2>5. CASE ~Remains(m)
    <3>1. kept[m] = s
      BY <1>7, <2>5
    <3> HIDE DEF s
    <3>2. \A n \in 1..m : Remains(n) => \E k \in 1..Len(s) : s[k] = existing[n]
      BY <2>1, <2>3, <2>5
    <3>3. \A k \in 1..Len(s) : \E n \in 1..m : Remains(n) /\ s[k] = existing[n]
      <4>1. \A n \in 1..(m - 1) : n \in 1..m
        OBVIOUS
      <4> QED
        BY <2>1, <4>1
    <3>4. Right(s, m)
      BY <2>1, <3>2, <3>3
    <3> HIDE DEF Right
    <3> QED
      BY <3>1, <3>4
  <2> QED
    BY <2>4, <2>5
<1>10. N \in T
  <2> HIDE DEF T, Right
  <2>1. \A n \in 1..N : n - 1 \in T => n \in T
    BY <1>9
  <2>2. \A n \in 0..N : n \in T
    BY <1>8, <2>1, StepByStep
  <2> QED
    BY <2>2
<1>11. Right(KeptInTime(existing, given, now), N)
  BY <1>1, <1>10
<1> QED
  BY <1>11 DEF Remains, N
-----------------------------------------------------------------------------
TrackedBox == [at : Places, seen : Nat]
MatchedFrame == [boxes : Boxes, at : Nat]
Setting(w) == processing[w] # <<>> /\ processing[w][1].left # <<"match">>
ClustersTypeOK ==
  /\ tracked \in Seq(TrackedBox) /\ clusterTime \in Nat
  /\ matched \in Seq(MatchedFrame)
  /\ DOMAIN processing = ClusterWorkers /\ DOMAIN outputs = {"cluster_count", "clusters"}
  /\ \A w \in ClusterWorkers : processing[w] # <<>> =>
       processing[w][1].left \in {<<"match">>, OutputFields, <<"clusters">>}

(* The clock is that of the last match.                                      *)
TimesInv ==
  \A i \in 1..Len(matched) : matched[i].at <= clusterTime
                             /\ (i = Len(matched) => matched[i].at = clusterTime)
Late(i) == clusterTime - matched[i].at > ClusterTimeout

FoundInv ==
  \A i \in 1..Len(matched) : \A p \in Seen(i) :
    \/ Late(i)
    \/ \E k \in 1..Len(tracked) : tracked[k].at = p /\ tracked[k].seen = matched[i].at
    \/ \E j \in i + 1 .. Len(matched) : \E q \in Seen(j) : Distance(p, q) <= MatchTolerance
RealInv ==
  \A k \in 1..Len(tracked) : \E i \in 1..Len(matched) :
    matched[i].at = tracked[k].seen /\ tracked[k].at \in Seen(i) /\ ~Late(i)

(* Unless it crossed another one, a worker that sets its outputs is alone    *)
(* with the boxes matched last.                                              *)
OutputsInv ==
  ~crossed =>
    /\ \A v, w \in ClusterWorkers : Setting(v) /\ Setting(w) => v = w
    /\ \A w \in ClusterWorkers : Setting(w) =>
         /\ processing[w][1].list = tracked
         /\ processing[w][1].left = <<"clusters">> => outputs.cluster_count = Len(tracked)
    /\ (\A w \in ClusterWorkers : ~Setting(w)) =>
         /\ outputs.clusters = [k \in DOMAIN tracked |-> tracked[k].at]
         /\ outputs.cluster_count = Len(tracked)

ClustersIInv == ClustersTypeOK /\ TimesInv /\ FoundInv /\ RealInv /\ OutputsInv

(* It is about the matches only.                                             *)
LEMMA MatchesStay ==
  ASSUME ClustersIInv, UNCHANGED <<tracked, clusterTime, matched>>
  PROVE  TimesInv' /\ FoundInv' /\ RealInv'
<1>1. \A i : Seen(i)' = Seen(i)
  BY DEF Seen
<1>2. \A i : Late(i)' <=> Late(i)
  BY DEF Late
<1>3. TimesInv'
  BY DEF ClustersIInv, TimesInv
<1>4. FoundInv'
  BY <1>1, <1>2 DEF ClustersIInv, FoundInv
<1>5. RealInv'
  BY <1>1, <1>2 DEF ClustersIInv, RealInv
<1> QED
  BY <1>3, <1>4, <1>5

(* What the properties say follows.                                          *)
LEMMA ClustersFollow == ClustersIInv => ClustersAreFound
<1> SUFFICES ASSUME ClustersIInv
             PROVE  ClustersAreFound
  OBVIOUS
<1>1. /\ DOMAIN matched = 1..Len(matched) /\ DOMAIN tracked = 1..Len(tracked)
      /\ Len(matched) \in Nat /\ Len(tracked) \in Nat
      /\ \A k \in 1..Len(tracked) : tracked[k] \in TrackedBox
  BY DEF ClustersIInv, ClustersTypeOK
<1>2. ASSUME NEW i \in DOMAIN matched
      PROVE  Lapsed(i) <=> Late(i)
  <2>1. Len(matched) \in 1..Len(matched)
    BY <1>1, <1>2
  <2>2. Last(matched).at = clusterTime
    BY <2>1 DEF ClustersIInv, TimesInv, Last
  <2> QED
    BY <2>2 DEF Lapsed, Late
<1>3. ASSUME NEW i \in DOMAIN matched, NEW p \in Seen(i)
      PROVE  \/ Lapsed(i)
             \/ \E k \in DOMAIN tracked : tracked[k] = [at |-> p, seen |-> matched[i].at]
             \/ \E j \in i + 1 .. Len(matched) : \E q \in Seen(j) : Distance(p, q) <= MatchTolerance
  <2>1. CASE \E k \in 1..Len(tracked) : tracked[k].at = p /\ tracked[k].seen = matched[i].at
    <3>1. PICK k \in 1..Len(tracked) : tracked[k].at = p /\ tracked[k].seen = matched[i].at
      BY <2>1
    <3>2. tracked[k] = [at |-> p, seen |-> matched[i].at]
      BY <1>1, <3>1 DEF TrackedBox
    <3> QED
      BY <1>1, <3>2
  <2>2. CASE \E j \in i + 1 .. Len(matched) : \E q \in Seen(j) : Distance(p, q) <= MatchTolerance
    BY <2>2
  <2>3. CASE Late(i)
    BY <1>2, <2>3
  <2> QED
    BY <1>1, <1>3, <2>1, <2>2, <2>3 DEF ClustersIInv, FoundInv
<1>4. ASSUME NEW k \in DOMAIN tracked
      PROVE  \E i \in DOMAIN matched :
               matched[i].at = tracked[k].seen /\ tracked[k].at \in Seen(i) /\ ~Lapsed(i)
  <2>1. PICK i \in 1..Len(matched) :
          matched[i].at = tracked[k].seen /\ tracked[k].at \in Seen(i) /\ ~Late(i)
    BY <1>1 DEF ClustersIInv, RealInv
  <2> QED
    BY <1>1, <1>2, <2>1
<1>5. (\A w \in ClusterWorkers : processing[w] = <<>>) /\ ~crossed =>
        /\ outputs.clusters = [k \in DOMAIN tracked |-> tracked[k].at]
        /\ outputs.cluster_count = Len(tracked)
  BY DEF ClustersIInv, OutputsInv, Setting
<1> QED
  BY <1>3, <1>4, <1>5 DEF ClustersAreFound

(* At first nothing is tracked.                                              *)
LEMMA ClustersInitially == ClustersInit => ClustersIInv
<1> SUFFICES ASSUME ClustersInit
             PROVE  ClustersIInv
  OBVIOUS
<1>1. /\ tracked = <<>> /\ matched = <<>> /\ clusterTime = 0
      /\ processing = [w \in ClusterWorkers |-> <<>>]
      /\ outputs = [cluster_count |-> 0, clusters |-> <<>>]
  BY DEF ClustersInit
<1>2. ClustersTypeOK
  BY <1>1 DEF ClustersTypeOK
<1>3. Len(tracked) = 0 /\ Len(matched) = 0
  BY <1>1
<1>4. TimesInv /\ FoundInv /\ RealInv
  BY <1>3 DEF TimesInv, FoundInv, RealInv
<1>5. OutputsInv
  <2>1. outputs.cluster_count = 0 /\ outputs.clusters = <<>>
    BY <1>1
  <2>2. [k \in DOMAIN tracked |-> tracked[k].at] = <<>>
    BY <1>1
  <2> QED
    BY <1>1, <1>3, <2>1, <2>2 DEF OutputsInv, Setting
<1> QED
  BY <1>2, <1>4, <1>5 DEF ClustersIInv

(* A worker takes up a frame: nothing that was matched changes.              *)
LEMMA ExtractStep ==
  ASSUME ClustersIInv, NEW w \in ClusterWorkers, ExtractClusters(w)
  PROVE  ClustersIInv'
<1>1. /\ processing[w] = <<>> /\ UNCHANGED <<tracked, outputs, clusterTime, matched, crossed>>
      /\ processing' = [processing EXCEPT ![w] = <<[list |-> <<>>, left |-> <<"match">>]>>]
  BY DEF ExtractClusters
<1>2. /\ processing'[w][1].left = <<"match">> /\ DOMAIN processing' = ClusterWorkers
      /\ \A v \in ClusterWorkers \ {w} : processing'[v] = processing[v]
  BY <1>1 DEF ClustersIInv, ClustersTypeOK
<1>3. ClustersTypeOK'
  BY <1>1, <1>2 DEF ClustersIInv, ClustersTypeOK
<1>4. TimesInv' /\ FoundInv' /\ RealInv'
  BY <1>1, MatchesStay
<1>5. OutputsInv'
  <2>1. ~Setting(w) /\ ~Setting(w)'
    BY <1>1, <1>2 DEF Setting
  <2>2. \A v \in ClusterWorkers \ {w} : Setting(v)' <=> Setting(v)
    BY <1>2 DEF Setting
  <2> QED
    BY <1>1, <1>2, <2>1, <2>2 DEF ClustersIInv, OutputsInv
<1> QED
  BY <1>3, <1>4, <1>5 DEF ClustersIInv

(* An output is set, to what was matched last if the worker is alone.        *)
LEMMA SetOutputStep ==
  ASSUME ClustersIInv, NEW w \in ClusterWorkers, SetOutput(w)
  PROVE  ClustersIInv'
<1> DEFINE mine == processing[w][1]
           field == Head(mine.left)
<1>1. /\ Setting(w) /\ UNCHANGED <<tracked, clusterTime, matched, crossed>>
      /\ outputs' = [outputs EXCEPT ![field] = ValueOf(field, mine)]
      /\ processing' = [processing EXCEPT ![w] =
           IF Len(mine.left) = 1 THEN <<>>
           ELSE <<[list |-> mine.list, left |-> Tail(mine.left)]>>]
  BY DEF SetOutput, Setting
<1>2. /\ mine.left \in {OutputFields, <<"clusters">>} /\ DOMAIN processing = ClusterWorkers
      /\ DOMAIN outputs = {"cluster_count", "clusters"}
  BY <1>1 DEF Setting, ClustersIInv, ClustersTypeOK
<1> HIDE DEF mine
<1>3. /\ DOMAIN processing' = ClusterWorkers
      /\ \A v \in ClusterWorkers \ {w} : processing'[v] = processing[v]
  BY <1>1, <1>2
<1>4. CASE mine.left = OutputFields
  <2>1. Len(mine.left) = 2 /\ Tail(mine.left) = <<"clusters">> /\ field = "cluster_count"
    BY <1>4 DEF OutputFields
  <2>2. processing'[w] = <<[list |-> mine.list, left |-> <<"clusters">>]>>
    <3>1. processing'[w] = IF Len(mine.left) = 1 THEN <<>>
                           ELSE <<[list |-> mine.list, left |-> Tail(mine.left)]>>
      BY <1>1, <1>2
    <3>2. Len(mine.left) # 1
      BY <2>1
    <3>3. processing'[w] = <<[list |-> mine.list, left |-> Tail(mine.left)]>>
      BY <3>1, <3>2, Zenon
    <3> QED
      BY <2>1, <3>3, Zenon
  <2>3. /\ outputs'.cluster_count = Len(mine.list) /\ DOMAIN outputs' = DOMAIN outputs
    BY <1>1, <1>2, <2>1 DEF ValueOf
  <2>4. /\ processing'[w][1].left = <<"clusters">> /\ processing'[w][1].list = mine.list
        /\ processing'[w] # <<>>
    BY <2>2
  <2>5. Setting(w)' /\ \A v \in ClusterWorkers \ {w} : Setting(v)' <=> Setting(v)
    BY <1>3, <2>4 DEF Setting
  <2>6. ClustersTypeOK'
    BY <1>1, <1>2, <1>3, <2>3, <2>4 DEF ClustersIInv, ClustersTypeOK
  <2>7. OutputsInv'
    <3> SUFFICES ASSUME ~crossed
                 PROVE  OutputsInv'
      BY <1>1 DEF OutputsInv
    <3>1. mine.list = tracked /\ \A v \in ClusterWorkers : Setting(v) => v = w
      BY <1>1 DEF ClustersIInv, OutputsInv, mine
    <3> QED
      BY <1>1, <2>3, <2>4, <2>5, <3>1 DEF OutputsInv
  <2>8. TimesInv' /\ FoundInv' /\ RealInv'
    BY <1>1, MatchesStay
  <2> QED
    BY <2>6, <2>7, <2>8 DEF ClustersIInv
<1>5. CASE mine.left = <<"clusters">>
  <2>1. Len(mine.left) = 1 /\ field = "clusters"
    BY <1>5
  <2>2. processing'[w] = <<>>
    BY <1>1, <1>2, <2>1
  <2>3. /\ outputs'.clusters = [i \in DOMAIN mine.list |-> mine.list[i].at]
        /\ DOMAIN outputs' = DOMAIN outputs /\ outputs'.cluster_count = outputs.cluster_count
    BY <1>1, <1>2, <2>1 DEF ValueOf
  <2>4. ~Setting(w)' /\ \A v \in ClusterWorkers \ {w} : Setting(v)' <=> Setting(v)
    BY <1>3, <2>2 DEF Setting
  <2>5. ClustersTypeOK'
    BY <1>1, <1>2, <1>3, <2>2, <2>3 DEF ClustersIInv, ClustersTypeOK
  <2>6. OutputsInv'
    <3> SUFFICES ASSUME ~crossed
                 PROVE  OutputsInv'
      BY <1>1 DEF OutputsInv
    <3>1. /\ mine.list = tracked /\ outputs.cluster_count = Len(tracked)
          /\ \A v \in ClusterWorkers : Setting(v) => v = w
      BY <1>1, <1>5 DEF ClustersIInv, OutputsInv, mine
    <3> QED
      BY <1>1, <2>3, <2>4, <3>1 DEF OutputsInv
  <2>7. TimesInv' /\ FoundInv' /\ RealInv'
    BY <1>1, MatchesStay
  <2> QED
    BY <2>5, <2>6, <2>7 DEF ClustersIInv
<1> QED
  BY <1>2, <1>4, <1>5

(* A match: the new boxes come first, then those that none of them took and  *)
(* whose time has not run out.                                               *)
LEMMA MatchStep ==
  ASSUME ClustersIInv, NEW w \in ClusterWorkers, NEW boxes \in Boxes,
         NEW now \in clusterTime .. MaxClusterTime, MatchClusters(w, boxes, now)
  PROVE  ClustersIInv'
<1>a. ClusterTimeout \in Nat /\ MaxClusterTime \in Nat
  BY ClustersAssumption
<1> USE <1>a
<1> DEFINE n == Len(boxes)
           taken == TakenBy(boxes, tracked)
           K == KeptInTime(tracked, taken, now)
<1>0. PICK m : m = Len(matched)
  OBVIOUS
<1>1. /\ tracked' = [i \in DOMAIN boxes |-> [at |-> boxes[i], seen |-> now]] \o K
      /\ processing' = [processing EXCEPT ![w] = <<[list |-> tracked', left |-> OutputFields]>>]
      /\ clusterTime' = now /\ matched' = Append(matched, [boxes |-> boxes, at |-> now])
      /\ crossed' = \E v \in ClusterWorkers \ {w} : Setting(v)
      /\ UNCHANGED outputs
  BY DEF MatchClusters, Updated, Setting
<1>2. /\ m = Len(matched) /\ boxes \in Seq(Places) /\ n \in Nat /\ DOMAIN boxes = 1..n
      /\ now \in Nat
      /\ clusterTime \in Nat /\ clusterTime <= now
      /\ tracked \in Seq(TrackedBox) /\ DOMAIN tracked = 1..Len(tracked) /\ Len(tracked) \in Nat
      /\ matched \in Seq(MatchedFrame) /\ DOMAIN matched = 1..m /\ m \in Nat
      /\ DOMAIN processing = ClusterWorkers
  BY <1>0, ClustersAssumption DEF ClustersIInv, ClustersTypeOK
<1>3. \A i \in taken : \E k \in 1..n : i \in Near(tracked, boxes[k])
  BY <1>2, TakenAreNear
<1>4. /\ K \in Seq(TrackedBox)
      /\ \A i \in 1..Len(tracked) : i \notin taken /\ InTime(tracked[i].seen, now) =>
           \E k \in 1..Len(K) : K[k] = tracked[i]
      /\ \A k \in 1..Len(K) : \E i \in 1..Len(tracked) :
           i \notin taken /\ InTime(tracked[i].seen, now) /\ K[k] = tracked[i]
  <2>1. tracked \in Seq(TrackedBox)
    BY <1>2
  <2> QED
    BY <2>1, KeptStay
<1> HIDE DEF K, taken, n
<1>5. /\ tracked' \in Seq(TrackedBox) /\ Len(tracked') = n + Len(K) /\ Len(K) \in Nat
      /\ \A k \in 1..n : tracked'[k].at = boxes[k] /\ tracked'[k].seen = now
      /\ \A k \in 1..Len(K) : tracked'[n + k] = K[k]
      /\ \A k \in 1..Len(tracked') : k \in 1..n \/ (k - n \in 1..Len(K) /\ n + (k - n) = k)
  <2> DEFINE F == [i \in DOMAIN boxes |-> [at |-> boxes[i], seen |-> now]]
  <2>1. \A i \in 1..n : [at |-> boxes[i], seen |-> now] \in TrackedBox
    BY <1>2 DEF TrackedBox, n
  <2>2. F \in Seq(TrackedBox) /\ Len(F) = n
    BY <1>2, <2>1
  <2>3. \A k \in 1..n : F[k] = [at |-> boxes[k], seen |-> now]
    BY <1>2
  <2> HIDE DEF F
  <2>4. tracked' = F \o K
    BY <1>1 DEF F
  <2>5. /\ tracked' \in Seq(TrackedBox) /\ Len(tracked') = n + Len(K) /\ Len(K) \in Nat
        /\ \A k \in 1..n : tracked'[k] = F[k]
        /\ \A k \in 1..Len(K) : tracked'[n + k] = K[k]
    <3>1. /\ F \o K \in Seq(TrackedBox) /\ Len(F \o K) = n + Len(K) /\ Len(K) \in Nat
          /\ \A k \in 1..n : (F \o K)[k] = F[k]
      <4>1. F \in Seq(TrackedBox) /\ K \in Seq(TrackedBox)
        BY <1>4, <2>2
      <4> QED
        <5>1. /\ F \o K \in Seq(TrackedBox) /\ Len(F \o K) = Len(F) + Len(K)
              /\ \A k \in 1..(Len(F) + Len(K)) :
                   (F \o K)[k] = IF k <= Len(F) THEN F[k] ELSE K[k - Len(F)]
          BY <4>1, ConcatProperties, Zenon
        <5>2. Len(K) \in Nat
          BY <4>1
        <5>3. \A k \in 1..n : k \in 1..(Len(F) + Len(K)) /\ k <= Len(F)
          BY <1>2, <2>2, <5>2
        <5> QED
          BY <2>2, <5>1, <5>2, <5>3
    <3>2. ASSUME NEW k \in 1..Len(K)
          PROVE  (F \o K)[n + k] = K[k]
      <4>1. n + k \in 1..(n + Len(K)) /\ ~(n + k <= n) /\ (n + k) - n = k
        BY <1>2, <3>1
      <4>2. \A i \in 1..(n + Len(K)) : (F \o K)[i] = IF i <= n THEN F[i] ELSE K[i - n]
        <5>1. F \in Seq(TrackedBox) /\ K \in Seq(TrackedBox)
          BY <1>4, <2>2
        <5>2. \A i \in 1..(Len(F) + Len(K)) :
                (F \o K)[i] = IF i <= Len(F) THEN F[i] ELSE K[i - Len(F)]
          BY <5>1, ConcatProperties, Zenon
        <5> QED
          BY <2>2, <5>2, Zenon
      <4> QED
        BY <4>1, <4>2
    <3> QED
      BY <2>4, <3>1, <3>2
  <2>6. \A k \in 1..Len(tracked') : k \in 1..n \/ (k - n \in 1..Len(K) /\ n + (k - n) = k)
    BY <1>2, <2>5
  <2>7. \A k \in 1..n : tracked'[k].at = boxes[k] /\ tracked'[k].seen = now
    <3> SUFFICES ASSUME NEW k \in 1..n
                 PROVE  tracked'[k].at = boxes[k] /\ tracked'[k].seen = now
      OBVIOUS
    <3>1. tracked'[k] = [at |-> boxes[k], seen |-> now]
      BY <2>3, <2>5
    <3> QED
      BY <3>1
  <2> QED
    BY <2>5, <2>6, <2>7
<1>6. /\ matched' \in Seq(MatchedFrame) /\ Len(matched') = m + 1
      /\ matched'[m + 1].boxes = boxes /\ matched'[m + 1].at = now
      /\ \A i \in 1..m : matched'[i] = matched[i] /\ matched[i].at \in Nat
      /\ \A i \in 1..(m + 1) : i \in 1..m \/ i = m + 1
  <2> DEFINE e == [boxes |-> boxes, at |-> now]
  <2>1. e \in MatchedFrame /\ e.boxes = boxes /\ e.at = now
    BY <1>2 DEF MatchedFrame
  <2> HIDE DEF e
  <2>2. matched' = Append(matched, e)
    BY <1>1 DEF e
  <2>3. /\ matched' \in Seq(MatchedFrame) /\ Len(matched') = m + 1
        /\ matched'[m + 1] = e /\ \A i \in 1..m : matched'[i] = matched[i]
    BY <1>2, <2>1, <2>2
  <2>4. \A i \in 1..m : matched[i].at \in Nat
    <3>1. \A i \in 1..m : matched[i] \in MatchedFrame
      BY <1>2
    <3> QED
      BY <3>1 DEF MatchedFrame
  <2> QED
    BY <1>2, <2>1, <2>3, <2>4
<1>7. /\ \A i \in 1..m : Seen(i)' = Seen(i)
      /\ Seen(m + 1)' = {boxes[k] : k \in 1..n}
      /\ \A i \in 1..m : Late(i) => Late(i)'
      /\ ~Late(m + 1)'
  <2>1. ASSUME NEW i \in 1..m
        PROVE  Seen(i)' = Seen(i) /\ (Late(i) => Late(i)')
    <3>1. matched'[i] = matched[i] /\ matched[i].at \in Nat
      BY <1>6
    <3>2. Seen(i)' = Seen(i)
      BY <3>1 DEF Seen
    <3>3. ASSUME Late(i)
          PROVE  Late(i)'
      <4>1. clusterTime - matched[i].at > ClusterTimeout
        BY <3>3 DEF Late
      <4>2. now - matched[i].at > ClusterTimeout
        BY <1>2, <3>1, <4>1
      <4> QED
        BY <1>1, <3>1, <4>2 DEF Late
    <3> QED
      BY <3>2, <3>3
  <2>2. Seen(m + 1)' = {boxes[k] : k \in 1..n}
    BY <1>2, <1>6 DEF Seen
  <2>3. ~Late(m + 1)'
    BY <1>1, <1>2, <1>6 DEF Late
  <2> QED
    BY <2>1, <2>2, <2>3
<1>8. TimesInv'
  <2>1. \A i \in 1..m : matched[i].at <= clusterTime
    BY <1>2 DEF ClustersIInv, TimesInv
  <2> QED
    BY <1>1, <1>2, <1>6, <2>1 DEF TimesInv
<1>9. FoundInv'
  <2>1. ASSUME NEW i \in 1..m, NEW p \in Seen(i)
        PROVE  \/ Late(i)'
               \/ \E k \in 1..Len(tracked') : tracked'[k].at = p /\ tracked'[k].seen = matched[i].at
               \/ \E j \in i + 1 .. m + 1 : \E q \in Seen(j)' : Distance(p, q) <= MatchTolerance
    <3>1. CASE Late(i)
      BY <1>7, <3>1
    <3>2. CASE \E j \in i + 1 .. m : \E q \in Seen(j) : Distance(p, q) <= MatchTolerance
      <4>1. PICK j \in i + 1 .. m : \E q \in Seen(j) : Distance(p, q) <= MatchTolerance
        BY <3>2
      <4>2. j \in 1..m /\ j \in i + 1 .. m + 1
        BY <1>2, <2>1
      <4> QED
        BY <1>7, <4>1, <4>2
    <3>3. CASE \E k \in 1..Len(tracked) : tracked[k].at = p /\ tracked[k].seen = matched[i].at
      <4>1. PICK k \in 1..Len(tracked) : tracked[k].at = p /\ tracked[k].seen = matched[i].at
        BY <3>3
      <4>2. CASE k \in taken
        <5>1. PICK l \in 1..n : k \in Near(tracked, boxes[l])
          BY <1>3, <4>2
        <5>2. Distance(p, boxes[l]) <= MatchTolerance
          BY <4>1, <5>1 DEF Near
        <5>3. m + 1 \in i + 1 .. m + 1 /\ boxes[l] \in Seen(m + 1)'
          BY <1>2, <1>7, <2>1
        <5> QED
          BY <5>2, <5>3
      <4>3. CASE k \notin taken /\ InTime(tracked[k].seen, now)
        <5>1. PICK l \in 1..Len(K) : K[l] = tracked[k]
          BY <1>4, <4>3
        <5>2. n + l \in 1..Len(tracked') /\ tracked'[n + l] = tracked[k]
          <6>1. n + l \in 1..(n + Len(K)) /\ tracked'[n + l] = K[l]
            BY <1>2, <1>5
          <6> QED
            BY <1>5, <5>1, <6>1
        <5> QED
          BY <4>1, <5>2
      <4>4. CASE ~InTime(tracked[k].seen, now)
        <5>1. matched'[i].at = tracked[k].seen /\ matched[i].at \in Nat
          BY <1>6, <4>1
        <5>2. ~(now - matched[i].at <= ClusterTimeout)
          BY <4>1, <4>4 DEF InTime
        <5>3. now - matched[i].at > ClusterTimeout
          BY <1>2, <5>1, <5>2
        <5>4. clusterTime' = now
          BY <1>1
        <5>5. matched'[i].at = matched[i].at
          BY <4>1, <5>1
        <5>6. Late(i)'
          BY <5>3, <5>4, <5>5 DEF Late
        <5> QED
          BY <5>6
      <4> QED
        BY <4>2, <4>3, <4>4
    <3> QED
      BY <1>0, <2>1, <3>1, <3>2, <3>3 DEF ClustersIInv, FoundInv
  <2>2. ASSUME NEW p \in Seen(m + 1)'
        PROVE  \E k \in 1..Len(tracked') : tracked'[k].at = p /\ tracked'[k].seen = now
    <3>1. PICK k \in 1..n : p = boxes[k]
      BY <1>7, <2>2
    <3>2. k \in 1..Len(tracked')
      BY <1>2, <1>5
    <3> QED
      BY <1>5, <3>1, <3>2
  <2> SUFFICES ASSUME NEW i \in 1..Len(matched'), NEW p \in Seen(i)'
               PROVE  \/ Late(i)'
                      \/ \E k \in 1..Len(tracked') :
                           tracked'[k].at = p /\ tracked'[k].seen = matched'[i].at
                      \/ \E j \in i + 1 .. Len(matched') :
                           \E q \in Seen(j)' : Distance(p, q) <= MatchTolerance
    BY DEF FoundInv
  <2>3. CASE i \in 1..m
    <3>1. p \in Seen(i) /\ matched'[i].at = matched[i].at
      BY <1>6, <1>7, <2>3
    <3> QED
      BY <1>6, <2>1, <2>3, <3>1
  <2>4. CASE i = m + 1
    BY <1>6, <2>2, <2>4
  <2> QED
    BY <1>6, <2>3, <2>4
<1>10. RealInv'
  <2> SUFFICES ASSUME NEW k \in 1..Len(tracked')
               PROVE  \E i \in 1..Len(matched') :
                        /\ matched'[i].at = tracked'[k].seen
                        /\ tracked'[k].at \in Seen(i)' /\ ~Late(i)'
    BY DEF RealInv
  <2>1. CASE k \in 1..n
    <3>1. m + 1 \in 1..Len(matched') /\ boxes[k] \in Seen(m + 1)'
      BY <1>2, <1>6, <1>7, <2>1
    <3> QED
      BY <1>5, <1>6, <1>7, <2>1, <3>1
  <2>2. CASE k - n \in 1..Len(K) /\ n + (k - n) = k
    <3>1. tracked'[k] = K[k - n]
      BY <1>5, <2>2
    <3>2. PICK l \in 1..Len(tracked) : InTime(tracked[l].seen, now) /\ K[k - n] = tracked[l]
      BY <1>4, <2>2
    <3>3. PICK i \in 1..m : matched[i].at = tracked[l].seen /\ tracked[l].at \in Seen(i)
      BY <1>0 DEF ClustersIInv, RealInv
    <3>4. i \in 1..Len(matched') /\ matched'[i].at = matched[i].at /\ matched[i].at \in Nat
      <4>1. matched'[i] = matched[i] /\ matched[i].at \in Nat
        BY <1>6
      <4>2. i \in 1..(m + 1)
        BY <1>2
      <4> QED
        BY <1>6, <4>1, <4>2
    <3>5. ~Late(i)'
      BY <1>1, <1>2, <3>2, <3>3, <3>4 DEF Late, InTime
    <3> QED
      BY <1>7, <3>1, <3>2, <3>3, <3>4, <3>5
  <2> QED
    BY <1>5, <2>1, <2>2
<1>11. /\ processing'[w][1].left = OutputFields /\ processing'[w][1].list = tracked'
       /\ processing'[w] # <<>> /\ DOMAIN processing' = ClusterWorkers
       /\ \A v \in ClusterWorkers \ {w} : processing'[v] = processing[v]
  <2>1. processing'[w] = <<[list |-> tracked', left |-> OutputFields]>>
    BY <1>1, <1>2
  <2> QED
    BY <1>1, <1>2, <2>1
<1>12. ClustersTypeOK'
  BY <1>1, <1>2, <1>5, <1>6, <1>11 DEF ClustersIInv, ClustersTypeOK
<1>13. OutputsInv'
  <2>1. OutputFields # <<"match">> /\ OutputFields # <<"clusters">>
    <3>1. Len(OutputFields) = 2 /\ Len(<<"match">>) = 1 /\ Len(<<"clusters">>) = 1
      BY DEF OutputFields
    <3> QED
      BY <3>1
  <2>2. Setting(w)' /\ \A v \in ClusterWorkers \ {w} : Setting(v)' <=> Setting(v)
    BY <1>11, <2>1 DEF Setting
  <2> SUFFICES ASSUME ~crossed'
               PROVE  OutputsInv'
    BY DEF OutputsInv
  <2>3. \A v \in ClusterWorkers \ {w} : ~Setting(v)'
    BY <1>1, <2>2
  <2>4. OutputFields # <<"clusters">> /\ \A v \in ClusterWorkers : Setting(v)' => v = w
    BY <2>1, <2>3
  <2> QED
    BY <1>11, <2>2, <2>4 DEF OutputsInv
<1> QED
  BY <1>8, <1>9, <1>10, <1>12, <1>13 DEF ClustersIInv

(* No cluster is lost and none is made up, by any number of workers, and when*)
(* none is at it the outputs all tell of the frame matched last, unless it   *)
(* crossed another worker (the cluster extraction operator).                 *)
THEOREM ClustersStayFound == ClustersSpec => []ClustersAreFound
<1>1. ClustersIInv /\ [ClustersNext]_clusterVars => ClustersIInv'
  <2> SUFFICES ASSUME ClustersIInv, [ClustersNext]_clusterVars
               PROVE  ClustersIInv'
    OBVIOUS
  <2>1. CASE \E w \in ClusterWorkers : ExtractClusters(w)
    BY <2>1, ExtractStep
  <2>2. CASE \E w \in ClusterWorkers, boxes \in Boxes, now \in clusterTime .. MaxClusterTime :
               MatchClusters(w, boxes, now)
    BY <2>2, MatchStep
  <2>3. CASE \E w \in ClusterWorkers : SetOutput(w)
    BY <2>3, SetOutputStep
  <2>4. CASE UNCHANGED clusterVars
    <3>1. ClustersTypeOK' /\ OutputsInv'
      BY <2>4 DEF clusterVars, ClustersIInv, ClustersTypeOK, OutputsInv, Setting
    <3>2. TimesInv' /\ FoundInv' /\ RealInv'
      BY <2>4, MatchesStay DEF clusterVars
    <3> QED
      BY <3>1, <3>2 DEF ClustersIInv
  <2> QED
    BY <2>1, <2>2, <2>3, <2>4 DEF ClustersNext
<1> QED
  BY <1>1, ClustersInitially, ClustersFollow, PTL DEF ClustersSpec

-----------------------------------------------------------------------------
(* PointStream.                                                              *)
(* The others of a queue are all that is in it, but one.             *)
LEMMA OthersWait ==
  ASSUME NEW R, NEW queue \in Seq(R), NEW ch
  PROVE  /\ Others(queue, ch) \in Seq(R)
         /\ \A n \in 1..Len(queue) : queue[n] # ch =>
              \E k \in 1..Len(Others(queue, ch)) : Others(queue, ch)[k] = queue[n]
         /\ \A k \in 1..Len(Others(queue, ch)) :
              \E n \in 1..Len(queue) : queue[n] # ch /\ Others(queue, ch)[k] = queue[n]
<1> DEFINE N == Len(queue)
           V == Seq(R)
           Remains(n) == queue[n] # ch
           F(g) == [n \in 0..N |-> IF n = 0 THEN <<>>
                      ELSE IF queue[n] # ch
                      THEN Append(g[n - 1], queue[n]) ELSE g[n - 1]]
           others == CHOOSE g : g = F(g)
<1>1. Others(queue, ch) = others[N]
  BY DEF Others
<1> DEFINE step == [x \in (1..N) \X V |->
                      IF Remains(x[1]) THEN Append(x[2], queue[x[1]]) ELSE x[2]]
<1>2. step \in [(1..N) \X V -> V]
  <2> HIDE DEF Remains
  <2>1. ASSUME NEW x \in (1..N) \X V
        PROVE  (IF Remains(x[1]) THEN Append(x[2], queue[x[1]]) ELSE x[2]) \in V
    <3>1. x[2] \in Seq(R) /\ queue[x[1]] \in R
      OBVIOUS
    <3> QED
      BY <3>1
  <2> QED
    BY <2>1
<1>3. \A n \in 1..N, v \in V : step[<<n, v>>] = IF Remains(n) THEN Append(v, queue[n]) ELSE v
  OBVIOUS
<1> HIDE DEF step
<1> N \in Nat
  OBVIOUS
<1> HIDE DEF N
<1>4. PICK f : /\ f \in [0..N -> V] /\ f[0] = <<>>
               /\ \A n \in 1..N : f[n] = step[<<n, f[n - 1]>>]
  <2>1. <<>> \in V
    OBVIOUS
  <2> HIDE DEF V
  <2> QED
    <3>1. IsStep(step, N, V)
      BY <1>2 DEF IsStep
    <3>2. \E f : Computes(f, <<>>, step, N, V)
      BY <2>1, <3>1, StepsExist
    <3> QED
      BY <3>2 DEF Computes
<1>5. f = F(f)
  <2>1. \A n \in 1..N : f[n] = IF Remains(n) THEN Append(f[n - 1], queue[n]) ELSE f[n - 1]
    <3> SUFFICES ASSUME NEW n \in 1..N
                 PROVE  f[n] = IF Remains(n) THEN Append(f[n - 1], queue[n]) ELSE f[n - 1]
      OBVIOUS
    <3> HIDE DEF V, Remains
    <3>1. n - 1 \in 0..N
      OBVIOUS
    <3>2. f[n - 1] \in V
      BY <1>4, <3>1
    <3> QED
      BY <1>3, <1>4, <3>2
  <2>2. F(f) = [n \in 0..N |-> f[n]]
    <3>1. \A n \in 0..N : n = 0 \/ n \in 1..N
      OBVIOUS
    <3> QED
      BY <1>4, <2>1, <3>1
  <2> HIDE DEF F
  <2> QED
    BY <1>4, <2>2
<1>6. others = F(others)
  <2> HIDE DEF F
  <2> QED
    BY <1>5
<1> HIDE DEF others
<1>7. /\ others[0] = <<>>
      /\ \A n \in 1..N :
           others[n] = IF Remains(n) THEN Append(others[n - 1], queue[n]) ELSE others[n - 1]
  <2>1. 0 \in 0..N /\ \A n \in 1..N : n \in 0..N /\ n # 0
    OBVIOUS
  <2>2. \A n \in 0..N : others[n] = F(others)[n]
    BY <1>6
  <2> QED
    BY <2>1, <2>2
<1> HIDE DEF F, Remains
<1> DEFINE Right(s, m) ==
             /\ s \in Seq(R)
             /\ \A n \in 1..m : Remains(n) => \E k \in 1..Len(s) : s[k] = queue[n]
             /\ \A k \in 1..Len(s) : \E n \in 1..m : Remains(n) /\ s[k] = queue[n]
           T == {m \in 0..N : Right(others[m], m)}
<1>8. 0 \in T
  <2>1. <<>> \in Seq(R) /\ Len(<<>>) = 0 /\ 0 \in 0..N
    OBVIOUS
  <2>2. Right(<<>>, 0)
    BY <2>1
  <2> HIDE DEF Right
  <2> QED
    BY <1>7, <2>1, <2>2
<1>9. ASSUME NEW m \in 1..N, m - 1 \in T
      PROVE  m \in T
  <2> DEFINE s == others[m - 1]
  <2>1. Right(s, m - 1)
    BY <1>9
  <2>2. queue[m] \in R
    BY DEF N
  <2>3. \A n \in 1..m : n = m \/ n \in 1..(m - 1)
    OBVIOUS
  <2>4. CASE Remains(m)
    <3> DEFINE t == Append(s, queue[m])
    <3>1. others[m] = t
      BY <1>7, <2>4
    <3> HIDE DEF s
    <3>2. /\ t \in Seq(R) /\ Len(s) \in Nat /\ Len(t) = Len(s) + 1 /\ t[Len(s) + 1] = queue[m]
          /\ \A k \in 1..Len(s) : t[k] = s[k]
      BY <2>1, <2>2
    <3> HIDE DEF t
    <3>3. \A n \in 1..m : Remains(n) => \E k \in 1..Len(t) : t[k] = queue[n]
      <4>1. ASSUME NEW n \in 1..(m - 1), Remains(n)
            PROVE  \E k \in 1..Len(t) : t[k] = queue[n]
        <5>1. PICK k \in 1..Len(s) : s[k] = queue[n]
          BY <2>1, <4>1
        <5>2. k \in 1..Len(t) /\ t[k] = s[k]
          BY <3>2
        <5> QED
          BY <5>1, <5>2
      <4>2. Len(s) + 1 \in 1..Len(t)
        BY <3>2
      <4> QED
        BY <2>3, <3>2, <4>1, <4>2
    <3>4. ASSUME NEW k \in 1..Len(t)
          PROVE  \E n \in 1..m : Remains(n) /\ t[k] = queue[n]
      <4>1. CASE k \in 1..Len(s)
        <5>1. PICK n \in 1..(m - 1) : Remains(n) /\ s[k] = queue[n]
          BY <2>1, <4>1
        <5>2. n \in 1..m /\ t[k] = s[k]
          BY <3>2, <4>1
        <5> QED
          BY <5>1, <5>2
      <4>2. CASE k = Len(s) + 1
        BY <2>4, <3>2, <4>2
      <4> QED
        BY <3>2, <4>1, <4>2
    <3>5. Right(t, m)
      BY <3>2, <3>3, <3>4
    <3> HIDE DEF Right
    <3> QED
      BY <3>1, <3>5
  <2>5. CASE ~Remains(m)
    <3>1. others[m] = s
      BY <1>7, <2>5
    <3> HIDE DEF s
    <3>2. \A n \in 1..m : Remains(n) => \E k \in 1..Len(s) : s[k] = queue[n]
      BY <2>1, <2>3, <2>5
    <3>3. \A k \in 1..Len(s) : \E n \in 1..m : Remains(n) /\ s[k] = queue[n]
      <4>1. \A n \in 1..(m - 1) : n \in 1..m
        OBVIOUS
      <4> QED
        BY <2>1, <4>1
    <3>4. Right(s, m)
      BY <2>1, <3>2, <3>3
    <3> HIDE DEF Right
    <3> QED
      BY <3>1, <3>4
  <2> QED
    BY <2>4, <2>5
<1>10. N \in T
  <2> HIDE DEF T, Right
  <2>1. \A n \in 1..N : n - 1 \in T => n \in T
    BY <1>9
  <2>2. \A n \in 0..N : n \in T
    BY <1>8, <2>1, StepByStep
  <2> QED
    BY <2>2
<1>11. Right(Others(queue, ch), N)
  BY <1>1, <1>10
<1> QED
  BY <1>11 DEF Remains, N

Subscription == BOOLEAN \X Topics

StreamTypeOK ==
  /\ cloud \in [Channels -> Nat] /\ cached \in [Channels -> Nat] /\ moves \in Nat
  /\ wire \in [Channels -> Seq(Nat)] /\ up \in Seq(Subscription)
  /\ applied \subseteq Topics /\ wanted \subseteq Topics /\ connected \in BOOLEAN
  /\ incoming \in [Channels -> Nat] /\ ready \in Seq(Channels) /\ shown \in [Channels -> Nat]

Waits(q, ch) == \E i \in 1..Len(q) : q[i] = ch

(* The newest cloud of a channel that has left the streamer: on the wire,    *)
(* waiting in the client, or shown.                                          *)
InView(w, q, kept, last, ch) ==
  IF w # <<>> THEN w[Len(w)] ELSE IF Waits(q, ch) THEN kept ELSE last
Arriving(ch) == InView(wire[ch], ready, incoming[ch], shown[ch], ch)

(* A subscription that a channel matches is on its way to the streamer.      *)
Announced(q, ch) == \E i \in 1..Len(q) : q[i][1] /\ q[i][2] \in {ch, Everything}

ClearedInv ==
  \A ch \in Channels : cached[ch] = 0 => Arriving(ch) = 0 \/ ch \in overrun \/ ch \in unheard
StreamedInv ==
  \A ch \in Channels : connected /\ Matches(applied, ch) /\ cached[ch] # 0 =>
    Announced(up, ch) \/ Arriving(ch) = cached[ch] \/ ch \in overrun
ApartInv == ~connected => \A ch \in Channels : wire[ch] = <<>>
StreamIInv == StreamTypeOK /\ ClearedInv /\ StreamedInv /\ ApartInv

(* A list of subscriptions names its topics.                                 *)
LEMMA TopicsListed ==
  ASSUME NEW P \in SUBSET Topics, NEW add \in BOOLEAN
  PROVE  /\ SetToSeq({<<add, t>> : t \in P}) \in Seq(Subscription)
         /\ \A t \in P : \E i \in 1..Len(SetToSeq({<<add, u>> : u \in P})) :
              SetToSeq({<<add, u>> : u \in P})[i] = <<add, t>>
<1> DEFINE S == {<<add, t>> : t \in P}
           s == SetToSeq(S)
<1>1. IsFiniteSet(P)
  <2>1. IsFiniteSet(Topics)
    BY StreamAssumption, FS_AddElement DEF Topics
  <2> QED
    BY <2>1, FS_Subset
<1>2. \A x \in S : \E t \in P : x = <<add, t>>
  OBVIOUS
<1>3. \A t \in P : <<add, t>> \in S
  OBVIOUS
<1>4. IsFiniteSet(S)
  <2> DEFINE h == [t \in P |-> <<add, t>>]
  <2>1. h \in [P -> S]
    OBVIOUS
  <2>2. \A x \in S : \E t \in P : h[t] = x
    BY <1>2
  <2>3. h \in Surjection(P, S)
    <3> HIDE DEF h, S
    <3> QED
      BY <2>1, <2>2 DEF Surjection
  <2> HIDE DEF h, S
  <2> QED
    BY <1>1, <2>3, FS_Surjection
<1>5. S \in SUBSET Subscription
  <2>1. \A t \in P : <<add, t>> \in Subscription
    BY DEF Subscription
  <2> HIDE DEF S
  <2> QED
    BY <1>2, <2>1
<1> HIDE DEF S
<1>6. s \in Seq(S) /\ \A x \in S : \E i \in 1..Len(s) : s[i] = x
  BY <1>4, ListedOnce
<1> HIDE DEF s
<1>7. s \in Seq(Subscription)
  <2> HIDE DEF Subscription
  <2> QED
    BY <1>5, <1>6
<1> QED
  BY <1>3, <1>6, <1>7 DEF s, S

(* What was announced stays so when more is said.                            *)
LEMMA MoreIsSaid ==
  ASSUME NEW q \in Seq(Subscription), NEW s \in Seq(Subscription)
  PROVE  /\ q \o s \in Seq(Subscription)
         /\ \A ch : Announced(q, ch) \/ Announced(s, ch) => Announced(q \o s, ch)
<1> DEFINE r == q \o s
<1>1. PICK m \in Nat, n \in Nat : m = Len(q) /\ n = Len(s)
  OBVIOUS
<1>2. /\ r \in Seq(Subscription) /\ Len(r) = m + n
      /\ \A i \in 1..m : r[i] = q[i]
      /\ \A i \in 1..n : r[m + i] = s[i]
  <2> HIDE DEF Subscription
  <2>1. r \in Seq(Subscription) /\ Len(r) = Len(q) + Len(s)
    OBVIOUS
  <2>2. \A i \in 1..m : r[i] = q[i]
    BY <1>1
  <2>3. \A i \in 1..n : r[m + i] = s[i]
    BY <1>1
  <2> QED
    BY <1>1, <2>1, <2>2, <2>3
<1> HIDE DEF r
<1>3. \A i \in 1..m : i \in 1..Len(r)
  BY <1>2
<1>4. \A i \in 1..n : m + i \in 1..Len(r)
  BY <1>2
<1>5. ASSUME NEW ch, Announced(q, ch)
      PROVE  Announced(r, ch)
  <2>1. PICK i \in 1..m : q[i][1] /\ q[i][2] \in {ch, Everything}
    BY <1>1, <1>5 DEF Announced
  <2>2. i \in 1..Len(r) /\ r[i] = q[i]
    BY <1>2, <1>3
  <2> QED
    BY <2>1, <2>2 DEF Announced
<1>6. ASSUME NEW ch, Announced(s, ch)
      PROVE  Announced(r, ch)
  <2>1. PICK i \in 1..n : s[i][1] /\ s[i][2] \in {ch, Everything}
    BY <1>1, <1>6 DEF Announced
  <2>2. m + i \in 1..Len(r) /\ r[m + i] = s[i]
    BY <1>2, <1>4
  <2> QED
    BY <2>1, <2>2 DEF Announced
<1> QED
  BY <1>2, <1>5, <1>6 DEF r

(* What is on its way, after a frame was sent to a channel.                  *)
LEMMA FrameArrives ==
  ASSUME NEW w \in Seq(Nat), NEW v \in Nat, NEW q, NEW kept, NEW last, NEW ch
  PROVE  /\ Append(w, v) \in Seq(Nat)
         /\ InView(Append(w, v), q, kept, last, ch) = v
<1>1. /\ Append(w, v) \in Seq(Nat) /\ Len(Append(w, v)) = Len(w) + 1
      /\ Append(w, v)[Len(w) + 1] = v
  OBVIOUS
<1>2. Append(w, v) # <<>>
  BY <1>1
<1> QED
  BY <1>1, <1>2 DEF InView

(* One pass sends what changed, or what a new subscriber has not got.        *)
LEMMA SendStep ==
  ASSUME StreamTypeOK, ClearedInv, NEW now, NEW fresh, NEW online \in BOOLEAN,
         Send(now, fresh, online), UNCHANGED <<incoming, ready, shown>>
  PROVE  /\ cached' \in [Channels -> Nat] /\ wire' \in [Channels -> Seq(Nat)]
         /\ ~online => \A ch \in Channels : wire'[ch] = <<>>
         /\ ClearedInv'
         /\ \A ch \in Channels : online /\ cached'[ch] # 0 =>
              \/ Arriving(ch)' = cached'[ch] \/ ch \in overrun'
              \/ /\ ~Matches(fresh, ch) /\ cached'[ch] = cached[ch]
                 /\ Arriving(ch)' = Arriving(ch) /\ (ch \in overrun => ch \in overrun')
<1> DEFINE listening == {t \in Topics : now[t] > 0}
           publishing == {ch \in enabled : Matches(listening, ch)}
           stopped ==
             {ch \in Channels : cached[ch] # 0 /\ ~(ch \in publishing /\ cloud[ch] # 0)}
           changed == stopped \cup {ch \in publishing : cloud[ch] # 0 /\ cloud[ch] # cached[ch]}
           framed == changed \cup {ch \in publishing : cached[ch] # 0}
           going == {ch \in framed : PublishEveryFrame \/ ch \in changed \/ Matches(fresh, ch)}
           frameOf == [ch \in Channels |-> IF ch \in stopped THEN 0 ELSE cloud[ch]]
           reached == {ch \in going : online /\ Matches(listening, ch)}
           fits == {ch \in reached : Len(wire[ch]) < WireLimit}
<1>1. /\ cached' = [ch \in Channels |-> IF ch \in changed THEN frameOf[ch] ELSE cached[ch]]
      /\ wire' = [ch \in Channels |-> IF ~online THEN <<>>
                                      ELSE IF ch \in fits THEN Append(wire[ch], frameOf[ch])
                                      ELSE wire[ch]]
      /\ overrun' = (overrun \ fits) \cup (reached \ fits)
      /\ unheard' = (unheard \ fits) \cup (stopped \ fits)
           \cup {ch \in Channels : ~online /\ 0 \in Range(wire[ch])}
  BY DEF Send
<1>2. /\ cloud \in [Channels -> Nat] /\ cached \in [Channels -> Nat]
      /\ wire \in [Channels -> Seq(Nat)]
  BY DEF StreamTypeOK
<1>3. ASSUME NEW ch \in Channels
      PROVE  /\ frameOf[ch] \in Nat
             /\ ch \in stopped => frameOf[ch] = 0
             /\ ch \notin stopped => frameOf[ch] = cloud[ch]
  BY <1>2
<1>4. ASSUME NEW ch \in Channels
      PROVE  /\ ch \in stopped <=> cached[ch] # 0 /\ ~(ch \in publishing /\ cloud[ch] # 0)
             /\ ch \in changed <=> \/ ch \in stopped
                                   \/ ch \in publishing /\ cloud[ch] # 0 /\ cloud[ch] # cached[ch]
             /\ ch \in going <=> \/ ch \in changed
                                 \/ /\ ch \in publishing /\ cached[ch] # 0
                                    /\ PublishEveryFrame \/ Matches(fresh, ch)
             /\ ch \in reached <=> ch \in going /\ online /\ Matches(listening, ch)
             /\ ch \in fits => ch \in reached
             /\ ch \in publishing => Matches(listening, ch)
  OBVIOUS
<1> HIDE DEF fits, reached, going, framed, changed, stopped, publishing, listening, frameOf
<1>5. ASSUME NEW ch \in Channels
      PROVE  /\ cached'[ch] \in Nat
             /\ cached'[ch] = IF ch \in changed THEN frameOf[ch] ELSE cached[ch]
  BY <1>1, <1>2, <1>3
<1>6. ASSUME NEW ch \in Channels
      PROVE  /\ wire'[ch] = IF ~online THEN <<>>
                            ELSE IF ch \in fits THEN Append(wire[ch], frameOf[ch])
                            ELSE wire[ch]
             /\ wire'[ch] \in Seq(Nat)
  <2>1. wire[ch] \in Seq(Nat) /\ Append(wire[ch], frameOf[ch]) \in Seq(Nat)
    BY <1>2, <1>3
  <2>2. <<>> \in Seq(Nat)
    OBVIOUS
  <2>3. wire'[ch] = IF ~online THEN <<>>
                    ELSE IF ch \in fits THEN Append(wire[ch], frameOf[ch]) ELSE wire[ch]
    BY <1>1
  <2> QED
    BY <2>1, <2>2, <2>3
<1>7. cached' \in [Channels -> Nat]
  BY <1>1, <1>5
<1>8. wire' \in [Channels -> Seq(Nat)]
  <2>1. wire' = [ch \in Channels |-> wire'[ch]]
    BY <1>1
  <2> QED
    BY <1>6, <2>1
<1>9. ASSUME NEW ch \in Channels, online, ch \in fits
      PROVE  Arriving(ch)' = frameOf[ch]
  <2>1. wire'[ch] = Append(wire[ch], frameOf[ch])
    BY <1>6, <1>9
  <2>2. InView(Append(wire[ch], frameOf[ch]), ready, incoming[ch], shown[ch], ch) = frameOf[ch]
    BY <1>2, <1>3, FrameArrives
  <2> QED
    BY <2>1, <2>2 DEF Arriving
<1>10. ASSUME NEW ch \in Channels, wire'[ch] = wire[ch]
       PROVE  Arriving(ch)' = Arriving(ch)
  BY <1>10 DEF Arriving
<1>11. ASSUME NEW ch \in Channels, cached'[ch] = 0
       PROVE  Arriving(ch)' = 0 \/ ch \in overrun' \/ ch \in unheard'
  <2>1. CASE cached[ch] # 0
    <3>1. ch \in changed
      BY <1>5, <1>11, <2>1
    <3>2. ch \in stopped
      BY <1>3, <1>4, <1>5, <1>11, <3>1
    <3>3. CASE ch \in fits
      <4>1. online /\ frameOf[ch] = 0
        BY <1>3, <1>4, <3>2, <3>3
      <4> QED
        BY <1>9, <3>3, <4>1
    <3>4. CASE ch \notin fits
      BY <1>1, <3>2, <3>4
    <3> QED
      BY <3>3, <3>4
  <2>2. CASE cached[ch] = 0
    <3>1. ch \notin stopped
      BY <1>4, <2>2
    <3>2. ch \notin changed
      BY <1>3, <1>4, <1>5, <1>11, <2>2, <3>1
    <3>3. ch \notin reached /\ ch \notin fits
      BY <1>4, <2>2, <3>2
    <3>4. Arriving(ch) = 0 \/ ch \in overrun \/ ch \in unheard
      BY <2>2 DEF ClearedInv
    <3>5. CASE ch \in overrun \/ ch \in unheard
      BY <1>1, <3>3, <3>5
    <3>6. CASE online \/ wire[ch] = <<>>
      <4>1. wire'[ch] = wire[ch]
        BY <1>6, <3>3, <3>6
      <4> QED
        BY <1>1, <1>10, <3>3, <3>4, <4>1
    <3>7. CASE ~online /\ wire[ch] # <<>> /\ Arriving(ch) = 0
      <4>1. wire[ch] \in Seq(Nat)
        BY <1>2
      <4>2. Len(wire[ch]) \in 1..Len(wire[ch]) /\ wire[ch][Len(wire[ch])] = 0
        BY <3>7, <4>1 DEF Arriving, InView
      <4>3. DOMAIN wire[ch] = 1..Len(wire[ch])
        BY <4>1
      <4>4. 0 \in Range(wire[ch])
        BY <4>2, <4>3 DEF Range
      <4> QED
        BY <1>1, <3>7, <4>4
    <3> QED
      BY <3>4, <3>5, <3>6, <3>7
  <2> QED
    BY <2>1, <2>2
<1>12. ASSUME NEW ch \in Channels, online, cached'[ch] # 0
       PROVE  \/ Arriving(ch)' = cached'[ch] \/ ch \in overrun'
              \/ /\ ~Matches(fresh, ch) /\ cached'[ch] = cached[ch]
                 /\ Arriving(ch)' = Arriving(ch) /\ (ch \in overrun => ch \in overrun')
  <2>1. ch \notin stopped
    BY <1>3, <1>4, <1>5, <1>12
  <2>2. ch \in publishing /\ cloud[ch] # 0
    BY <1>4, <1>5, <1>12, <2>1
  <2>3. cached'[ch] = cloud[ch] /\ frameOf[ch] = cached'[ch]
    BY <1>3, <1>4, <1>5, <1>12, <2>1, <2>2
  <2>4. CASE ch \in fits
    BY <1>9, <1>12, <2>3, <2>4
  <2>5. CASE ch \in reached /\ ch \notin fits
    BY <1>1, <2>5
  <2>6. CASE ch \notin reached
    <3>1. ch \notin going
      BY <1>4, <1>12, <2>2, <2>6
    <3>2. ch \notin changed /\ cached'[ch] = cached[ch]
      BY <1>4, <1>5, <3>1
    <3>3. ~Matches(fresh, ch)
      BY <1>4, <1>12, <2>2, <3>1, <3>2
    <3>4. ch \notin fits
      BY <1>4, <2>6
    <3>5. wire'[ch] = wire[ch]
      BY <1>6, <1>12, <3>4
    <3> QED
      BY <1>1, <1>10, <3>2, <3>3, <3>4, <3>5
  <2> QED
    BY <2>4, <2>5, <2>6
<1>13. ClearedInv'
  BY <1>11 DEF ClearedInv
<1>14. ~online => \A ch \in Channels : wire'[ch] = <<>>
  BY <1>6
<1> QED
  BY <1>7, <1>8, <1>12, <1>13, <1>14

(* Nothing streams at the start.                                             *)
LEMMA StreamStarts == StreamInit => StreamIInv
<1> SUFFICES ASSUME StreamInit
             PROVE  StreamIInv
  OBVIOUS
<1>1. StreamTypeOK
  <2>1. None \in [Channels -> Nat]
    BY DEF None
  <2>2. <<>> \in Seq(Channels) /\ <<>> \in Seq(Subscription) /\ <<>> \in Seq(Nat)
    OBVIOUS
  <2>3. wire \in [Channels -> Seq(Nat)]
    BY <2>2 DEF StreamInit
  <2> QED
    BY <2>1, <2>2, <2>3 DEF StreamInit, StreamTypeOK
<1>2. \A ch \in Channels : Arriving(ch) = 0
  BY DEF StreamInit, None, Arriving, InView, Waits
<1> QED
  BY <1>1, <1>2 DEF StreamInit, None, StreamIInv, ClearedInv, StreamedInv, ApartInv

(* What changes outside moves nothing on its way.                            *)
LEMMA OutsideKeepsStream ==
  ASSUME StreamIInv, SourceChanges \/ SwitchChannel \/ Subscribe \/ UNCHANGED streamVars
  PROVE  StreamIInv'
<1> USE DEF StreamIInv
<1>1. /\ UNCHANGED <<cached, wire, up, connected, applied, incoming, ready, shown>>
      /\ UNCHANGED <<overrun, unheard>>
  BY DEF SourceChanges, SwitchChannel, Subscribe, streamVars, serverVars, netVars, clientVars
<1>2. StreamTypeOK'
  <2> USE DEF StreamTypeOK
  <2>1. CASE SourceChanges
    <3>1. moves' \in Nat /\ wanted' = wanted
      BY <2>1 DEF SourceChanges, Moved, clientVars
    <3>2. cloud' \in [Channels -> Nat]
      <4>1. PICK ch \in Channels, v \in {0, moves + 1} : cloud' = [cloud EXCEPT ![ch] = v]
        BY <2>1 DEF SourceChanges
      <4>2. v \in Nat
        OBVIOUS
      <4> QED
        BY <4>1, <4>2
    <3> QED
      BY <1>1, <3>1, <3>2
  <2>2. CASE SwitchChannel
    BY <1>1, <2>2 DEF SwitchChannel, Moved, clientVars
  <2>3. CASE Subscribe
    BY <1>1, <2>3 DEF Subscribe, Moved
  <2>4. CASE UNCHANGED streamVars
    BY <1>1, <2>4 DEF streamVars, clientVars
  <2> QED
    BY <2>1, <2>2, <2>3, <2>4
<1>3. \A ch \in Channels : Arriving(ch)' = Arriving(ch)
  BY <1>1 DEF Arriving
<1>4. ClearedInv' /\ StreamedInv' /\ ApartInv'
  BY <1>1, <1>3 DEF ClearedInv, StreamedInv, ApartInv
<1> QED
  BY <1>2, <1>4

(* A socket that is replaced takes with it what was on its way.              *)
LEMMA RebindKeepsStream ==
  ASSUME StreamIInv, Rebind
  PROVE  StreamIInv'
<1> USE DEF StreamIInv
<1>1. /\ up' = <<>> /\ ~connected' /\ Send(counts', {}, FALSE)
      /\ UNCHANGED <<cloud, incoming, ready, shown, wanted, applied>>
      /\ moves' \in Nat /\ connected' \in BOOLEAN
  <2>1. moves' = moves \/ moves' = moves + 1
    BY DEF Rebind, Moved
  <2>2. moves' \in Nat
    BY <2>1 DEF StreamTypeOK
  <2>3. connected' = FALSE
    BY DEF Rebind
  <2> QED
    BY <2>2, <2>3 DEF Rebind, clientVars
<1>2. PICK now : now = counts'
  OBVIOUS
<1>3. Send(now, {}, FALSE)
  BY <1>1, <1>2
<1>4. /\ cached' \in [Channels -> Nat] /\ wire' \in [Channels -> Seq(Nat)]
      /\ \A ch \in Channels : wire'[ch] = <<>>
      /\ ClearedInv'
  BY <1>1, <1>3, SendStep
<1>5. StreamTypeOK'
  <2>1. up' \in Seq(Subscription)
    BY <1>1
  <2> QED
    BY <1>1, <1>4, <2>1 DEF StreamTypeOK
<1> QED
  BY <1>1, <1>4, <1>5 DEF StreamedInv, ApartInv

(* What a pass has not taken is still announced; a channel a new subscriber  *)
(* matches is sent.                                                          *)
LEMMA TickKeepsStream ==
  ASSUME StreamIInv, Tick
  PROVE  StreamIInv'
<1> USE DEF StreamIInv
<1>1. PICK k \in 0..Len(up) :
        /\ up' = SubSeq(up, k + 1, Len(up))
        /\ Send(counts', NewlySubscribed(SubSeq(up, 1, k)), connected)
  BY DEF Tick
<1>2. UNCHANGED <<cloud, incoming, ready, shown, wanted, applied, connected, moves>>
  BY DEF Tick, clientVars
<1> DEFINE fresh == NewlySubscribed(SubSeq(up, 1, k))
<1>3. PICK now : now = counts'
  OBVIOUS
<1>4. /\ cached' \in [Channels -> Nat] /\ wire' \in [Channels -> Seq(Nat)]
      /\ ~connected => \A ch \in Channels : wire'[ch] = <<>>
      /\ ClearedInv'
      /\ \A ch \in Channels : connected /\ cached'[ch] # 0 =>
              \/ Arriving(ch)' = cached'[ch] \/ ch \in overrun'
              \/ /\ ~Matches(fresh, ch) /\ cached'[ch] = cached[ch]
                 /\ Arriving(ch)' = Arriving(ch) /\ (ch \in overrun => ch \in overrun')
  <2>1. Send(now, fresh, connected)
    BY <1>1, <1>3
  <2>2. connected \in BOOLEAN
    BY DEF StreamTypeOK
  <2> HIDE DEF fresh
  <2> QED
    BY <1>2, <2>1, <2>2, SendStep
<1>5. up \in Seq(Subscription) /\ Len(up) \in Nat
  BY DEF StreamTypeOK
<1>6. up' \in Seq(Subscription)
  <2> HIDE DEF Subscription
  <2> QED
    BY <1>1, <1>5
<1>7. \A i \in k + 1 .. Len(up) : i - k \in 1..Len(up') /\ up'[i - k] = up[i]
  <2> HIDE DEF Subscription
  <2>1. Len(up') = Len(up) - k /\ \A i \in 1..(Len(up) - k) : up'[i] = up[k + i]
    BY <1>1, <1>5
  <2> SUFFICES ASSUME NEW i \in k + 1 .. Len(up)
               PROVE  i - k \in 1..Len(up') /\ up'[i - k] = up[i]
    OBVIOUS
  <2>2. i - k \in 1..(Len(up) - k) /\ k + (i - k) = i
    BY <1>5
  <2> QED
    BY <2>1, <2>2
<1>8. \A i \in 1..k : up[i] \in Range(SubSeq(up, 1, k))
  <2> DEFINE msgs == SubSeq(up, 1, k)
  <2>1. Len(msgs) = k /\ \A i \in 1..k : msgs[i] = up[i]
    BY <1>5
  <2>2. DOMAIN msgs = 1..k
    BY <1>5
  <2> HIDE DEF msgs
  <2>3. \A i \in 1..k : msgs[i] \in Range(msgs)
    BY <2>2 DEF Range
  <2> QED
    BY <2>1, <2>3 DEF msgs
<1>9. ASSUME NEW ch \in Channels, Announced(up, ch), ~Matches(fresh, ch)
      PROVE  Announced(up', ch)
  <2>1. PICK i \in 1..Len(up) : up[i][1] /\ up[i][2] \in {ch, Everything}
    BY <1>9 DEF Announced
  <2>2. CASE i \in 1..k
    <3>1. up[i] \in {m \in Range(SubSeq(up, 1, k)) : m[1]}
      BY <1>8, <2>1, <2>2
    <3>2. up[i][2] \in fresh
      BY <3>1 DEF NewlySubscribed
    <3> HIDE DEF fresh
    <3> QED
      BY <1>9, <2>1, <3>2 DEF Matches
  <2>3. CASE i \in k + 1 .. Len(up)
    <3>1. i - k \in 1..Len(up') /\ up'[i - k] = up[i]
      BY <1>7, <2>3
    <3>2. PICK j \in 1..Len(up') : up'[j] = up[i]
      BY <3>1
    <3> QED
      BY <2>1, <3>2 DEF Announced
  <2> QED
    BY <1>5, <2>2, <2>3
<1> HIDE DEF fresh
<1>10. StreamTypeOK'
  BY <1>2, <1>4, <1>6 DEF StreamTypeOK
<1>11. StreamedInv'
  <2> SUFFICES ASSUME NEW ch \in Channels, connected, Matches(applied, ch), cached'[ch] # 0
               PROVE  \/ Announced(up', ch) \/ (Arriving(ch)' = cached'[ch])
                      \/ ch \in overrun'
    BY <1>2 DEF StreamedInv
  <2>1. CASE /\ ~Matches(fresh, ch) /\ cached'[ch] = cached[ch]
             /\ Arriving(ch)' = Arriving(ch) /\ (ch \in overrun => ch \in overrun')
    BY <1>9, <2>1 DEF StreamedInv
  <2> QED
    BY <1>3, <1>4, <2>1
<1>12. ApartInv'
  BY <1>2, <1>3, <1>4 DEF ApartInv
<1> QED
  BY <1>4, <1>10, <1>11, <1>12

(* A cut loses what is on the wire; an empty frame lost is remembered.       *)
LEMMA CutLoses ==
  ASSUME StreamIInv, CutOff, NEW ch \in Channels, cached[ch] = 0
  PROVE  \/ wire[ch] = <<>> \/ ch \in overrun \/ ch \in unheard'
<1> USE DEF StreamIInv
<1>1. CASE wire[ch] # <<>> /\ Arriving(ch) = 0
  <2>1. wire[ch] \in Seq(Nat)
    BY DEF StreamTypeOK
  <2>2. Len(wire[ch]) \in 1..Len(wire[ch]) /\ wire[ch][Len(wire[ch])] = 0
    BY <1>1, <2>1 DEF Arriving, InView
  <2>3. DOMAIN wire[ch] = 1..Len(wire[ch])
    BY <2>1
  <2>4. 0 \in Range(wire[ch])
    BY <2>2, <2>3 DEF Range
  <2> QED
    BY <2>4 DEF CutOff
<1> QED
  BY <1>1 DEF ClearedInv, CutOff

(* The connection after a cut.                                               *)
LEMMA CutTyped ==
  ASSUME CutOff
  PROVE  /\ connected' = FALSE /\ wire' = [ch \in Channels |-> <<>>]
         /\ up' \in Seq(Subscription) /\ unheard \subseteq unheard'
<1> DEFINE P == {t \in Topics : counts[t] > 0}
<1>1. up' = SetToSeq({<<FALSE, t>> : t \in P})
  BY DEF CutOff
<1>2. P \in SUBSET Topics
  OBVIOUS
<1> HIDE DEF P
<1>3. SetToSeq({<<FALSE, t>> : t \in P}) \in Seq(Subscription)
  BY <1>2, TopicsListed
<1> QED
  BY <1>1, <1>3 DEF CutOff

(* A cut.                                                                    *)
LEMMA CutKeepsStream ==
  ASSUME StreamIInv, Cut
  PROVE  StreamIInv'
<1> USE DEF StreamIInv
<1>1. CutOff /\ UNCHANGED <<cloud, cached, incoming, ready, shown, wanted, applied, overrun>>
      /\ moves' \in Nat
  BY DEF Cut, Moved, serverVars, clientVars, StreamTypeOK
<1>2. /\ connected' = FALSE /\ wire' = [ch \in Channels |-> <<>>]
      /\ up' \in Seq(Subscription) /\ unheard \subseteq unheard'
  BY <1>1, CutTyped
<1>3. StreamTypeOK'
  <2>1. wire' \in [Channels -> Seq(Nat)]
    BY <1>2
  <2> QED
    BY <1>1, <1>2, <2>1 DEF StreamTypeOK
<1>4. ClearedInv'
  <2> SUFFICES ASSUME NEW ch \in Channels, cached[ch] = 0
               PROVE  (Arriving(ch)' = 0) \/ ch \in overrun \/ ch \in unheard'
    BY <1>1 DEF ClearedInv
  <2>1. CASE wire[ch] = <<>>
    <3>1. wire'[ch] = wire[ch]
      BY <1>2, <2>1
    <3>2. Arriving(ch)' = Arriving(ch)
      BY <1>1, <3>1 DEF Arriving
    <3> QED
      BY <1>2, <3>2 DEF ClearedInv
  <2> QED
    BY <1>1, <2>1, CutLoses
<1> QED
  BY <1>2, <1>3, <1>4 DEF StreamedInv, ApartInv

(* A client that stops forgets every frame.                                  *)
LEMMA StopKeepsStream ==
  ASSUME StreamIInv, StopReceiver
  PROVE  StreamIInv'
<1> USE DEF StreamIInv
<1>1. /\ incoming' = None /\ shown' = None /\ ready' = <<>>
      /\ UNCHANGED <<cloud, cached, wanted, applied, overrun>>
      /\ moves' \in Nat
  BY DEF StopReceiver, Moved, serverVars, StreamTypeOK
<1>2. /\ connected' = FALSE /\ \A ch \in Channels : wire'[ch] = <<>>
      /\ wire' \in [Channels -> Seq(Nat)] /\ up' \in Seq(Subscription)
  <2>1. CASE connected
    <3>1. CutOff
      BY <2>1 DEF StopReceiver
    <3>2. connected' = FALSE /\ wire' = [ch \in Channels |-> <<>>] /\ up' \in Seq(Subscription)
      BY <3>1, CutTyped
    <3> QED
      BY <3>2
  <2>2. CASE ~connected
    <3>1. UNCHANGED <<up, wire, connected>>
      BY <2>2 DEF StopReceiver, netVars
    <3>2. connected = FALSE
      BY <2>2 DEF StreamTypeOK
    <3> QED
      BY <2>2, <3>1, <3>2 DEF ApartInv, StreamTypeOK
  <2> QED
    BY <2>1, <2>2
<1>3. StreamTypeOK'
  <2>1. None \in [Channels -> Nat] /\ <<>> \in Seq(Channels)
    BY DEF None
  <2> QED
    BY <1>1, <1>2, <2>1 DEF StreamTypeOK
<1>4. \A ch \in Channels : Arriving(ch)' = 0
  <2>1. \A ch \in Channels : ~Waits(ready', ch) /\ shown'[ch] = 0
    BY <1>1 DEF Waits, None
  <2> QED
    BY <1>2, <2>1 DEF Arriving, InView
<1> QED
  BY <1>1, <1>2, <1>3, <1>4 DEF ClearedInv, StreamedInv, ApartInv

(* A client that connects announces all its subscriptions.                   *)
LEMMA ConnectKeepsStream ==
  ASSUME StreamIInv, Connect
  PROVE  StreamIInv'
<1> USE DEF StreamIInv
<1>1. /\ connected' /\ up' = up \o SetToSeq({<<TRUE, t>> : t \in applied})
      /\ UNCHANGED <<cloud, cached, wire, incoming, ready, shown, wanted, applied, moves>>
      /\ UNCHANGED <<overrun, unheard>>
  BY DEF Connect, serverVars, clientVars, Subscriptions
<1> DEFINE s == SetToSeq({<<TRUE, t>> : t \in applied})
<1>2. applied \in SUBSET Topics /\ up \in Seq(Subscription)
  BY DEF StreamTypeOK
<1>3. /\ s \in Seq(Subscription)
      /\ \A t \in applied : \E i \in 1..Len(s) : s[i] = <<TRUE, t>>
  BY <1>2, TopicsListed
<1> HIDE DEF s
<1>4. \A ch \in Channels : Matches(applied, ch) => Announced(s, ch)
  <2> SUFFICES ASSUME NEW ch \in Channels, Matches(applied, ch)
               PROVE  Announced(s, ch)
    OBVIOUS
  <2>1. PICK t \in applied : t \in {ch, Everything}
    BY DEF Matches
  <2>2. PICK i \in 1..Len(s) : s[i] = <<TRUE, t>>
    BY <1>3
  <2>3. s[i][1] = TRUE /\ s[i][2] = t
    BY <2>2
  <2> QED
    BY <2>1, <2>3 DEF Announced
<1>5. up' \in Seq(Subscription) /\ \A ch : Announced(s, ch) => Announced(up', ch)
  BY <1>1, <1>2, <1>3, MoreIsSaid DEF s
<1>6. StreamTypeOK'
  BY <1>1, <1>5 DEF StreamTypeOK
<1>7. \A ch \in Channels : Arriving(ch)' = Arriving(ch)
  BY <1>1 DEF Arriving
<1>8. ClearedInv'
  BY <1>1, <1>7 DEF ClearedInv
<1>9. StreamedInv'
  BY <1>1, <1>4, <1>5 DEF StreamedInv
<1> QED
  BY <1>1, <1>6, <1>8, <1>9 DEF ApartInv

(* A new socket of the client has no subscriptions.                          *)
LEMMA StartKeepsStream ==
  ASSUME StreamIInv, StartReceiver
  PROVE  StreamIInv'
<1> USE DEF StreamIInv
<1>1. /\ applied' = {} /\ moves' \in Nat
      /\ UNCHANGED <<cloud, cached, wire, up, connected, incoming, ready, shown, wanted>>
      /\ UNCHANGED <<overrun, unheard>>
  BY DEF StartReceiver, Moved, serverVars, netVars, StreamTypeOK
<1>2. StreamTypeOK'
  BY <1>1 DEF StreamTypeOK
<1>3. \A ch \in Channels : Arriving(ch)' = Arriving(ch)
  BY <1>1 DEF Arriving
<1>4. ClearedInv'
  BY <1>1, <1>3 DEF ClearedInv
<1>5. \A ch \in Channels : ~Matches(applied', ch)
  BY <1>1 DEF Matches
<1>6. StreamedInv'
  BY <1>5 DEF StreamedInv
<1> QED
  BY <1>1, <1>2, <1>4, <1>6 DEF ApartInv

(* The receive thread announces the subscriptions that are new.              *)
LEMMA SyncKeepsStream ==
  ASSUME StreamIInv, SyncSubscriptions
  PROVE  StreamIInv'
<1> USE DEF StreamIInv
<1> DEFINE a == SetToSeq({<<TRUE, t>> : t \in wanted \ applied})
           b == SetToSeq({<<FALSE, t>> : t \in applied \ wanted})
<1>1. /\ applied' = wanted
      /\ up' = IF connected THEN up \o a \o b ELSE up
      /\ UNCHANGED <<cloud, cached, wire, connected, incoming, ready, shown, wanted, moves>>
      /\ UNCHANGED <<overrun, unheard>>
  BY DEF SyncSubscriptions, serverVars, Subscriptions
<1>2. /\ wanted \ applied \in SUBSET Topics /\ applied \ wanted \in SUBSET Topics
      /\ up \in Seq(Subscription)
  BY DEF StreamTypeOK
<1>3. /\ a \in Seq(Subscription)
      /\ \A t \in wanted \ applied : \E i \in 1..Len(a) : a[i] = <<TRUE, t>>
  BY <1>2, TopicsListed
<1>4. b \in Seq(Subscription)
  BY <1>2, TopicsListed
<1> HIDE DEF a, b
<1>5. /\ up \o a \in Seq(Subscription)
      /\ \A ch : Announced(up, ch) \/ Announced(a, ch) => Announced(up \o a, ch)
  BY <1>2, <1>3, MoreIsSaid
<1>6. /\ up \o a \o b \in Seq(Subscription)
      /\ \A ch : Announced(up \o a, ch) => Announced(up \o a \o b, ch)
  BY <1>4, <1>5, MoreIsSaid
<1>7. up' \in Seq(Subscription)
  BY <1>1, <1>2, <1>6
<1>8. StreamTypeOK'
  BY <1>1, <1>7 DEF StreamTypeOK
<1>9. \A ch \in Channels : Arriving(ch)' = Arriving(ch)
  BY <1>1 DEF Arriving
<1>10. ClearedInv'
  BY <1>1, <1>9 DEF ClearedInv
<1>11. StreamedInv'
  <2> SUFFICES ASSUME NEW ch \in Channels, connected, Matches(wanted, ch), cached[ch] # 0
               PROVE  Announced(up', ch) \/ Arriving(ch) = cached[ch] \/ ch \in overrun
    BY <1>1, <1>9 DEF StreamedInv
  <2>1. up' = up \o a \o b
    BY <1>1
  <2>2. CASE Matches(applied, ch)
    BY <1>5, <1>6, <2>1, <2>2 DEF StreamedInv
  <2>3. CASE ~Matches(applied, ch)
    <3>1. PICK t \in wanted \ applied : t \in {ch, Everything}
      BY <2>3 DEF Matches
    <3>2. PICK i \in 1..Len(a) : a[i] = <<TRUE, t>>
      BY <1>3
    <3>3. a[i][1] = TRUE /\ a[i][2] = t
      BY <3>2
    <3>4. Announced(a, ch)
      BY <3>1, <3>3 DEF Announced
    <3> QED
      BY <1>5, <1>6, <2>1, <3>4
  <2> QED
    BY <2>2, <2>3
<1> QED
  BY <1>1, <1>8, <1>10, <1>11 DEF ApartInv

(* Who waits once a channel has received.                                    *)
LEMMA ReceivedWaits ==
  ASSUME NEW q \in Seq(Channels), NEW ch \in Channels
  PROVE  /\ Append(Others(q, ch), ch) \in Seq(Channels)
         /\ Waits(Append(Others(q, ch), ch), ch)
         /\ \A other \in Channels \ {ch} :
              Waits(Append(Others(q, ch), ch), other) <=> Waits(q, other)
<1> DEFINE s == Others(q, ch)
           r == Append(s, ch)
<1>1. /\ s \in Seq(Channels)
      /\ \A n \in 1..Len(q) : q[n] # ch => \E k \in 1..Len(s) : s[k] = q[n]
      /\ \A k \in 1..Len(s) : \E n \in 1..Len(q) : q[n] # ch /\ s[k] = q[n]
  BY OthersWait
<1> HIDE DEF s
<1>2. /\ r \in Seq(Channels) /\ Len(r) = Len(s) + 1 /\ r[Len(s) + 1] = ch /\ Len(s) \in Nat
      /\ \A k \in 1..Len(s) : r[k] = s[k]
  BY <1>1, AppendProperties
<1> HIDE DEF r
<1>3. 1..Len(r) = (1..Len(s)) \cup {Len(s) + 1}
  BY <1>2
<1>4. Waits(r, ch)
  BY <1>2, <1>3 DEF Waits
<1>5. ASSUME NEW other \in Channels \ {ch}
      PROVE  Waits(r, other) <=> Waits(q, other)
  <2>1. ASSUME Waits(q, other)
        PROVE  Waits(r, other)
    <3>1. PICK n \in 1..Len(q) : q[n] = other
      BY <2>1 DEF Waits
    <3>2. PICK k \in 1..Len(s) : s[k] = other
      BY <1>1, <3>1
    <3> QED
      BY <1>2, <1>3, <3>2 DEF Waits
  <2>2. ASSUME Waits(r, other)
        PROVE  Waits(q, other)
    <3>1. PICK k \in 1..Len(r) : r[k] = other
      BY <2>2 DEF Waits
    <3>2. k \in 1..Len(s) /\ s[k] = other
      BY <1>2, <1>3, <3>1
    <3>3. PICK n \in 1..Len(q) : s[k] = q[n]
      BY <1>1, <3>2
    <3> QED
      BY <3>2, <3>3 DEF Waits
  <2> QED
    BY <2>1, <2>2
<1> QED
  BY <1>2, <1>4, <1>5 DEF r, s

(* The client takes the newest frame of a channel off the wire.              *)
LEMMA ReceiveKeepsStream ==
  ASSUME StreamIInv, NEW ch \in Channels, Receive(ch)
  PROVE  StreamIInv'
<1> USE DEF StreamIInv
<1>1. /\ wire[ch] # <<>> /\ wire' = [wire EXCEPT ![ch] = <<>>]
      /\ UNCHANGED <<cloud, cached, up, connected, wanted, applied, shown, moves, overrun>>
  BY DEF Receive, serverVars
<1>2. /\ wire \in [Channels -> Seq(Nat)] /\ wire[ch] \in Seq(Nat)
      /\ incoming \in [Channels -> Nat] /\ ready \in Seq(Channels)
  BY DEF StreamTypeOK
<1>3. /\ Len(wire[ch]) \in 1..Len(wire[ch]) /\ wire[ch][Len(wire[ch])] \in Nat
      /\ DOMAIN wire[ch] = 1..Len(wire[ch])
  BY <1>1, <1>2
<1>4. /\ wire' \in [Channels -> Seq(Nat)] /\ wire'[ch] = <<>>
      /\ \A other \in Channels \ {ch} : wire'[other] = wire[other]
  <2>1. <<>> \in Seq(Nat)
    OBVIOUS
  <2> QED
    BY <1>1, <1>2, <2>1
<1>5. Arriving(ch) = wire[ch][Len(wire[ch])]
  BY <1>1 DEF Arriving, InView
<1>6. ApartInv'
  <2> SUFFICES ASSUME ~connected
               PROVE  FALSE
    BY <1>1 DEF ApartInv
  <2> QED
    BY <1>1 DEF ApartInv
<1>7. CASE Matches(applied, ch)
  <2>1. /\ incoming' = [incoming EXCEPT ![ch] = Last(wire[ch])]
        /\ ready' = Append(Others(ready, ch), ch) /\ unheard' = unheard
    BY <1>7 DEF Receive
  <2>2. incoming' \in [Channels -> Nat] /\ incoming'[ch] = wire[ch][Len(wire[ch])]
        /\ \A other \in Channels \ {ch} : incoming'[other] = incoming[other]
    BY <1>2, <1>3, <2>1 DEF Last
  <2>3. /\ ready' \in Seq(Channels) /\ Waits(ready', ch)
        /\ \A other \in Channels \ {ch} : Waits(ready', other) <=> Waits(ready, other)
    BY <1>2, <2>1, ReceivedWaits
  <2>4. Arriving(ch)' = Arriving(ch)
    BY <1>4, <1>5, <2>2, <2>3 DEF Arriving, InView
  <2>5. \A other \in Channels \ {ch} : Arriving(other)' = Arriving(other)
    BY <1>1, <1>4, <2>2, <2>3 DEF Arriving, InView
  <2>6. StreamTypeOK'
    BY <1>1, <1>4, <2>2, <2>3 DEF StreamTypeOK
  <2>7. ClearedInv' /\ StreamedInv'
    BY <1>1, <2>1, <2>4, <2>5 DEF ClearedInv, StreamedInv
  <2> QED
    BY <1>6, <2>6, <2>7
<1>8. CASE ~Matches(applied, ch)
  <2>1. /\ unheard' = IF 0 \in Range(wire[ch]) THEN unheard \cup {ch} ELSE unheard
        /\ UNCHANGED <<incoming, ready>>
    BY <1>8 DEF Receive
  <2>2. \A other \in Channels \ {ch} : Arriving(other)' = Arriving(other)
    BY <1>1, <1>4, <2>1 DEF Arriving
  <2>3. StreamTypeOK'
    BY <1>1, <1>4, <2>1 DEF StreamTypeOK
  <2>4. cached[ch] = 0 => ch \in overrun \/ ch \in unheard'
    <3>1. Arriving(ch) = 0 => 0 \in Range(wire[ch])
      BY <1>3, <1>5 DEF Range
    <3> QED
      BY <2>1, <3>1 DEF ClearedInv
  <2>5. ClearedInv'
    BY <1>1, <2>1, <2>2, <2>4 DEF ClearedInv
  <2>6. StreamedInv'
    BY <1>1, <1>8, <2>2 DEF StreamedInv
  <2> QED
    BY <1>6, <2>3, <2>5, <2>6
<1> QED
  BY <1>7, <1>8

(* The frame that has waited longest is shown.                               *)
LEMMA DequeueKeepsStream ==
  ASSUME StreamIInv, DequeuePointCloud
  PROVE  StreamIInv'
<1> USE DEF StreamIInv
<1>0. ready # <<>> /\ ready \in Seq(Channels)
  BY DEF DequeuePointCloud, StreamTypeOK
<1>00. PICK h \in Channels : h = Head(ready) /\ h = ready[1]
  BY <1>0
<1>1. /\ ready # <<>> /\ ready' = Tail(ready)
      /\ shown' = [shown EXCEPT ![h] = incoming[h]]
      /\ UNCHANGED <<cloud, cached, wire, up, connected, wanted, applied, incoming, moves>>
      /\ UNCHANGED <<overrun, unheard>>
  BY <1>00 DEF DequeuePointCloud, serverVars, netVars
<1>2. /\ ready \in Seq(Channels) /\ incoming \in [Channels -> Nat]
      /\ shown \in [Channels -> Nat]
  BY DEF StreamTypeOK
<1>3. /\ h \in Channels /\ h = ready[1] /\ ready' \in Seq(Channels)
      /\ Len(ready') = Len(ready) - 1 /\ Len(ready) \in Nat /\ Len(ready) >= 1
      /\ \A i \in 1..(Len(ready) - 1) : ready'[i] = ready[i + 1]
  BY <1>00, <1>1, <1>2
<1>4. Waits(ready, h)
  BY <1>3 DEF Waits
<1>5. shown' \in [Channels -> Nat] /\ shown'[h] = incoming[h]
      /\ \A other \in Channels \ {h} : shown'[other] = shown[other]
  BY <1>1, <1>2, <1>3
<1>6. ASSUME NEW other \in Channels \ {h}
      PROVE  Waits(ready', other) <=> Waits(ready, other)
  <2>1. ASSUME Waits(ready, other)
        PROVE  Waits(ready', other)
    <3>1. PICK i \in 1..Len(ready) : ready[i] = other
      BY <2>1 DEF Waits
    <3>2. i # 1
      BY <1>3, <3>1
    <3>3. i - 1 \in 1..Len(ready') /\ ready'[i - 1] = ready[(i - 1) + 1] /\ (i - 1) + 1 = i
      BY <1>3, <3>2
    <3>4. PICK j \in 1..Len(ready') : ready'[j] = other
      BY <3>1, <3>3
    <3> QED
      BY <3>4 DEF Waits
  <2>2. ASSUME Waits(ready', other)
        PROVE  Waits(ready, other)
    <3>1. PICK i \in 1..Len(ready') : ready'[i] = other
      BY <2>2 DEF Waits
    <3>2. i + 1 \in 1..Len(ready) /\ ready[i + 1] = other
      BY <1>3, <3>1
    <3>3. PICK j \in 1..Len(ready) : ready[j] = other
      BY <3>2
    <3> QED
      BY <3>3 DEF Waits
  <2> QED
    BY <2>1, <2>2
<1>7. \A other \in Channels \ {h} : Arriving(other)' = Arriving(other)
  BY <1>1, <1>5, <1>6 DEF Arriving, InView
<1>8. Arriving(h)' = Arriving(h)
  <2>1. wire'[h] = wire[h] /\ incoming'[h] = incoming[h]
    BY <1>1
  <2>2. CASE wire[h] # <<>>
    BY <2>1, <2>2 DEF Arriving, InView
  <2>3. CASE wire[h] = <<>>
    <3>1. Arriving(h) = incoming[h]
      BY <1>4, <2>3 DEF Arriving, InView
    <3>2. Arriving(h)' = IF Waits(ready', h) THEN incoming[h] ELSE shown'[h]
      BY <2>1, <2>3 DEF Arriving, InView
    <3> QED
      BY <1>5, <3>1, <3>2
  <2> QED
    BY <2>2, <2>3
<1>9. StreamTypeOK'
  BY <1>1, <1>3, <1>5 DEF StreamTypeOK
<1>10. \A other \in Channels : Arriving(other)' = Arriving(other)
  BY <1>7, <1>8
<1>11. ClearedInv'
  BY <1>1, <1>10 DEF ClearedInv
<1>12. StreamedInv'
  BY <1>1, <1>10 DEF StreamedInv
<1>13. ApartInv'
  BY <1>1 DEF ApartInv
<1> QED
  BY <1>9, <1>11, <1>12, <1>13

(* Every step keeps the invariant.                                           *)
LEMMA StreamGoesOn == StreamIInv /\ [StreamNext]_streamVars => StreamIInv'
<1> SUFFICES ASSUME StreamIInv, [StreamNext]_streamVars
             PROVE  StreamIInv'
  OBVIOUS
<1>1. CASE SourceChanges \/ SwitchChannel \/ Subscribe \/ UNCHANGED streamVars
  BY <1>1, OutsideKeepsStream
<1>2. CASE Rebind
  BY <1>2, RebindKeepsStream
<1>3. CASE Tick
  BY <1>3, TickKeepsStream
<1>4. CASE Cut
  BY <1>4, CutKeepsStream
<1>5. CASE Connect
  BY <1>5, ConnectKeepsStream
<1>6. CASE StartReceiver
  BY <1>6, StartKeepsStream
<1>7. CASE StopReceiver
  BY <1>7, StopKeepsStream
<1>8. CASE SyncSubscriptions
  BY <1>8, SyncKeepsStream
<1>9. CASE \E ch \in Channels : Receive(ch)
  BY <1>9, ReceiveKeepsStream
<1>10. CASE DequeuePointCloud
  BY <1>10, DequeueKeepsStream
<1> QED
  BY <1>1, <1>2, <1>3, <1>4, <1>5, <1>6, <1>7, <1>8, <1>9, <1>10 DEF StreamNext

(* When nothing is under way, the client has the current cloud of every      *)
(* channel it subscribes to, for any channels and any length of the queues:  *)
(* a cloud that was sent arrives, or its subscription is still to be told,   *)
(* or it did not fit; and a channel without one was cleared, or its last     *)
(* frame reached nobody. What the streamer counts of its subscribers is      *)
(* never needed for it.                                                      *)
THEOREM StreamCatchesUp == StreamSpec => []QuietClientIsCurrent
<1>1. StreamIInv => QuietClientIsCurrent
  <2> SUFFICES ASSUME StreamIInv, QuietStream, NEW ch \in Channels, Matches(wanted, ch)
               PROVE  \/ shown[ch] = Source(ch)
                      \/ ch \in overrun
                      \/ ch \in unheard /\ Source(ch) = 0
    BY DEF QuietClientIsCurrent
  <2> USE DEF StreamIInv
  <2>1. /\ connected /\ applied = wanted /\ up = <<>> /\ ready = <<>> /\ wire[ch] = <<>>
        /\ cached[ch] = Source(ch)
    BY DEF QuietStream
  <2>2. Arriving(ch) = shown[ch]
    BY <2>1 DEF Arriving, InView, Waits
  <2>3. ~Announced(up, ch)
    BY <2>1 DEF Announced
  <2> QED
    BY <2>1, <2>2, <2>3 DEF ClearedInv, StreamedInv
<1>2. QED
  BY <1>1, StreamStarts, StreamGoesOn, PTL DEF StreamSpec
=============================================================================
