-------------------------- MODULE MessageOperators --------------------------
(***************************************************************************)
(* The messages of the TouchDesigner plugin: operators (CHOPs) that output *)
(* the newest value of one message id, over connections they share.        *)
(* TouchDesigner cooks an operator in two calls, getOutputInfo for the     *)
(* shape and execute for the samples; the worker of a connection stores    *)
(* messages at any time. A connection lives as long as somebody holds it:  *)
(* the registry keeps weak pointers only.                                  *)
(*                                                                         *)
(* A value is its kind, the sizes of its lists and the number of its       *)
(* arrival; an output is the number of the value and the set of samples    *)
(* <<channel, row>> that were written from it. Statistics are left out.    *)
(***************************************************************************)
EXTENDS Naturals, Sequences, SequencesExt, FiniteSetsExt

CONSTANTS
  Readers,         \* the operators
  Servers,         \* host and ports an operator can be set to
  Ids,             \* message ids
  Messages,        \* what arrives: [type, kind, sizes]
  Projects,        \* parameters of the operators in the projects that are opened
  MaxMessages,     \* bound: messages that arrive
  MaxTurns         \* bound: changes of parameters

NoId == ""
NoServer == "none"
Nobody == "nobody"
Settings == [server : Servers, active : BOOLEAN, id : Ids \cup {NoId}]

ASSUME MessageAssumption ==
  /\ IsFiniteSet(Readers) /\ IsFiniteSet(Servers) /\ IsFiniteSet(Ids)
  /\ NoServer \notin Servers /\ Nobody \notin Readers /\ NoId \notin Ids
  /\ Projects \subseteq [Readers -> Settings]
  /\ MaxMessages \in Nat /\ MaxTurns \in Nat

NoValue == [kind |-> "none", sizes |-> <<>>, number |-> 0]
NoEntry == [value |-> NoValue, revision |-> 0]
NewConnection == [latest |-> [id \in Ids |-> NoEntry], revision |-> 0]
NoShape == [channels |-> 0, rows |-> 1]
NoOutput == [number |-> 0, samples |-> {}]

VARIABLES
  parameters,    \* per operator [server, active, id]
  node,          \* per operator its members, see Untouched
  output,        \* the samples it outputs
  connection,    \* per server, the messages its connection has
  cooking,       \* the operator between getOutputInfo and execute
  pulse,         \* Reconnect is pressed in this cook
  messages,
  turns,
  settled        \* history: operators that have cooked since anything of theirs changed

messageVars == <<parameters, node, output, connection, cooking, pulse, messages, turns, settled>>

Untouched == [handle |-> NoServer, server |-> NoServer, active |-> FALSE, id |-> NoId,
              value |-> NoValue, revision |-> 0, shape |-> NoShape, known |-> {}]

MessageInit ==
  /\ parameters \in Projects
  /\ node = [r \in Readers |-> Untouched] /\ output = [r \in Readers |-> NoOutput]
  /\ connection = [s \in Servers |-> NewConnection]
  /\ cooking = Nobody /\ pulse = FALSE /\ messages = 0 /\ turns = 0 /\ settled = {}

-----------------------------------------------------------------------------
(* Values.                                                                   *)
Kinds == [float |-> 1, int |-> 1, float2 |-> 2, float3 |-> 3, float4 |-> 4,
          float2list |-> 2, float3list |-> 3, float4list |-> 4, aabblist |-> 6,
          contourslist |-> 2, signal |-> 1, monostate |-> 1]

(* convert_message: a signal keeps its type only, an unknown kind nothing.   *)
Converted(message, number) ==
  [kind |-> IF message.type # "update" THEN "signal"
            ELSE IF message.kind \in DOMAIN Kinds THEN message.kind ELSE "monostate",
   sizes |-> message.sizes, number |-> number]

(* Rows of a value: one, or one for each element of its list; contours are   *)
(* laid end to end with a row between two of them.                           *)
SumOf(sizes) == FoldLeft(LAMBDA a, b : a + b, 0, sizes)
Elements(value) ==
  CASE value.kind = "contourslist" /\ value.sizes # <<>> ->
         SumOf(value.sizes) + Len(value.sizes) - 1
    [] value.kind \in {"float2list", "float3list", "float4list", "aabblist", "contourslist"} ->
         SumOf(value.sizes)
    [] OTHER -> 1

ShapeOf(value) ==
  IF value = NoValue THEN NoShape
  ELSE [channels |-> Kinds[value.kind], rows |-> Max({1, Elements(value)})]

(* fillOutputFromCached: rows that the shape has no place for are left out.  *)
Filled(value, shape) ==
  IF value = NoValue \/ shape.channels = 0 THEN NoOutput
  ELSE [number |-> value.number,
        samples |-> IF value.kind = "monostate" THEN {}
                    ELSE ((1..Kinds[value.kind]) \X (1..Elements(value)))
                           \cap ((1..shape.channels) \X (1..shape.rows))]

-----------------------------------------------------------------------------
(* One operator.                                                             *)
(* Slip: the value of the last connection stays.                             *)
KeepsValue(n) == n
Forgets(n) == [n EXCEPT !.value = NoValue, !.revision = 0, !.id = NoId]

EnsureConnection(n, set, pulsed) ==
  LET changed == set.server # n.server \/ set.active # n.active \/ n.handle = NoServer
      known == [n EXCEPT !.server = set.server, !.active = set.active]
  IN IF ~set.active THEN [Forgets(known) EXCEPT !.handle = NoServer]
     ELSE IF changed THEN [Forgets(known) EXCEPT !.handle = set.server]
     ELSE IF pulsed THEN Forgets(known)
     ELSE known

Selects(n, id) ==
  IF n.id = id THEN n ELSE [n EXCEPT !.value = NoValue, !.revision = 0, !.id = id]

(* try_get_latest_message, and setCachedValueFromView.                       *)
Pulled(n, connections) ==
  IF n.handle = NoServer \/ n.id = NoId THEN n
  ELSE LET entry == connections[n.handle].latest[n.id]
       IN IF entry.revision \in {0, n.revision} THEN n
          ELSE [n EXCEPT !.value = entry.value, !.revision = entry.revision]

(* When the revision is the one seen but the value was dropped, it is asked  *)
(* for again.                                                                *)
PulledAgain(n, connections) ==
  IF n.value # NoValue THEN n ELSE Pulled([n EXCEPT !.revision = 0], connections)

KnownIds(c) == {id \in Ids : c.latest[id] # NoEntry}

(* A connection nobody holds any more is gone; the next one starts empty.    *)
InUse(nodes) == {nodes[r].handle : r \in Readers}
Kept(nodes) == [s \in Servers |-> IF s \in InUse(nodes) THEN connection[s] ELSE NewConnection]

-----------------------------------------------------------------------------
SetParameters(r) ==
  /\ cooking = Nobody /\ turns < MaxTurns
  /\ turns' = turns + 1
  /\ \E set \in Settings :
       parameters' = [parameters EXCEPT ![r] = set]
  /\ settled' = settled \ {r}
  /\ UNCHANGED <<node, output, connection, cooking, pulse, messages>>

GetOutputInfo(r) ==
  /\ cooking = Nobody
  /\ pulse' \in BOOLEAN
  /\ LET ensured == EnsureConnection(node[r], parameters[r], pulse')
         nodes == [node EXCEPT ![r] = ensured]
         selected == Selects(ensured, parameters[r].id)
         pulled == PulledAgain(Pulled(selected, Kept(nodes)), Kept(nodes))
     IN /\ connection' = Kept(nodes)
        /\ node' = [node EXCEPT ![r] = [pulled EXCEPT !.shape = ShapeOf(pulled.value)]]
  /\ cooking' = r
  /\ settled' = settled \cup {r}
  /\ UNCHANGED <<parameters, output, messages, turns>>

Execute(r) ==
  /\ cooking = r
  /\ LET ensured == EnsureConnection(node[r], parameters[r], pulse)
         selected == Selects(IF ensured.handle = NoServer THEN Forgets(ensured) ELSE ensured,
                             parameters[r].id)
         pulled == Pulled(selected, connection)
         last == IF pulled.handle = NoServer \/ pulled.id = NoId THEN pulled
                 ELSE [pulled EXCEPT !.known = KnownIds(connection[pulled.handle])]
     IN /\ node' = [node EXCEPT ![r] = last]
        /\ output' = [output EXCEPT ![r] = Filled(last.value, last.shape)]
        /\ connection' = Kept([node EXCEPT ![r] = last])
  /\ cooking' = Nobody
  /\ UNCHANGED <<parameters, pulse, messages, turns, settled>>

(* The worker of a connection; what has no id is counted and not stored.     *)
StoreMessage(s) ==
  /\ s \in InUse(node) /\ messages < MaxMessages
  /\ messages' = messages + 1
  /\ \E id \in Ids, message \in Messages :
       LET revision == connection[s].revision + 1
           entry == [value |-> Converted(message, messages + 1), revision |-> revision]
       IN /\ connection' = [connection EXCEPT ![s].revision = revision,
                                              ![s].latest[id] = entry]
          /\ settled' = {r \in settled : node[r].handle # s \/ node[r].id # id}
  /\ UNCHANGED <<parameters, node, output, cooking, pulse, turns>>

-----------------------------------------------------------------------------
MessageNext ==
  \/ \E r \in Readers : SetParameters(r) \/ GetOutputInfo(r) \/ Execute(r)
  \/ \E s \in Servers : StoreMessage(s)

MessageSpec == MessageInit /\ [][MessageNext]_messageVars

-----------------------------------------------------------------------------
(* An operator that has cooked, with no message of its id since the cook     *)
(* began, outputs the newest value of its id, whole, or nothing when none    *)
(* has arrived: whatever connections it and the others had before, and       *)
(* although revisions begin again with every connection. In a cook that a    *)
(* message falls into, the shape may be that of the value before it.         *)
CookedShowsNewest ==
  cooking = Nobody =>
    \A r \in settled :
      LET set == parameters[r]
          value == IF set.active /\ set.id # NoId THEN connection[set.server].latest[set.id].value
                   ELSE NoValue
      IN output[r] = Filled(value, ShapeOf(value))
=============================================================================
