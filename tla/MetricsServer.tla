--------------------------- MODULE MetricsServer ----------------------------
(***************************************************************************)
(* The settings of the application and the prometheus endpoint they switch:*)
(* AppSettings, whose setters may be called on any thread and take effect  *)
(* on the one that owns it; set_enabled, which a control thread runs after *)
(* each change; and the thread that collects the updates of the metrics and*)
(* hands them, once a second, to the registry of the server of that moment.*)
(* One series of each kind stands for all: a gauge, a counter that reports *)
(* a running total, and a histogram.                                       *)
(***************************************************************************)
EXTENDS Naturals, Sequences

CONSTANTS
  Endpoints,       \* where the endpoint may be bound
  MaxSettings,     \* bound: calls of the settings' setters
  MaxMeasures,     \* bound: updates of metrics
  MaxRestarts      \* bound: restarts of what the counter counts

ASSUME MetricsAssumption ==
  MaxSettings \in Nat /\ MaxMeasures \in Nat /\ MaxRestarts \in Nat

VARIABLES
  setting,    \* AppSettings: prometheusEnabled and prometheusAddress
  unrun,      \* the setters posted to the thread that owns them
  controls,   \* the control threads that have not run set_enabled yet, oldest first
  joining,    \* the owner's thread waits for the older of them
  server,     \* server_host: its address, its registry and what that shows, or <<>>
  registries, \* registries made so far
  queued,     \* _update_queue
  pending,    \* pending_by_series_key, by kind; <<>> for a series without any
  cache,      \* MetricCache: the registry it is of, and the last total published
  flushing,   \* the registry that flush_latest has taken, 0 for none, or <<>>
  source,     \* what is measured: the gauge, the running total, the observations
  counted,    \* history: everything that was ever counted, and the restarts
  overtaken,  \* history: a control thread ran after a newer one
  refused,    \* history: the settings for which the endpoint could not be bound
  setCalls, updateCalls

settingVars == <<setting, unrun, controls, joining, overtaken, setCalls>>
flushVars == <<pending, cache, flushing>>
metricsVars == <<settingVars, server, registries, refused, queued, flushVars, source,
                 counted, updateCalls>>

Shown == [gauge |-> 0, counter |-> 0, observed |-> 0]
NothingPending == [gauge |-> <<>>, counter |-> <<>>, histogram |-> <<>>]

(* The settings are loaded, and initialise applies them.                     *)
MetricsInit ==
  /\ setting \in [enable : BOOLEAN, address : {CHOOSE a \in Endpoints : TRUE}]
  /\ controls = <<setting>> /\ joining = FALSE /\ unrun = <<>>
  /\ server = <<>> /\ registries = 0 /\ refused = {}
  /\ queued = <<>> /\ pending = NothingPending
  /\ cache = [registry |-> 0, total |-> 0] /\ flushing = <<>>
  /\ source = [gauge |-> 0, total |-> 0, observed |-> 0]
  /\ counted = [all |-> 0, restarts |-> 0] /\ overtaken = FALSE
  /\ setCalls = 0 /\ updateCalls = 0

-----------------------------------------------------------------------------
(* A setter on the thread that owns the settings: nothing if the value is the*)
(* present one; else it is stored and its signal starts a new control thread *)
(* before the assignment to server_control_thread joins the one before.      *)
Changes == ({"enable"} \X BOOLEAN) \cup ({"address"} \X Endpoints)
WithChange(c) == [setting EXCEPT ![c[1]] = c[2]]

Assign(new) ==
  IF new = setting THEN UNCHANGED <<setting, controls, joining>>
  ELSE /\ setting' = new
       /\ controls' = Append(controls, new)
       /\ joining' = (controls # <<>>)

SetHere(c) ==
  /\ ~joining /\ setCalls < MaxSettings /\ setCalls' = setCalls + 1
  /\ WithChange(c) # setting /\ Assign(WithChange(c))
  /\ UNCHANGED <<unrun, overtaken, server, registries, refused, queued, flushVars, source,
                 counted, updateCalls>>

(* On another thread the value is compared at once, with what may still be   *)
(* changed by a call posted before, and the call is posted.                  *)
SetElsewhere(c) ==
  /\ setCalls < MaxSettings /\ setCalls' = setCalls + 1
  /\ WithChange(c) # setting /\ unrun' = Append(unrun, c)
  /\ UNCHANGED <<setting, controls, joining, overtaken, server, registries, refused, queued,
                 flushVars, source, counted, updateCalls>>

RunSetter ==
  /\ ~joining /\ unrun # <<>>
  /\ Assign(WithChange(Head(unrun)))
  /\ unrun' = Tail(unrun)
  /\ UNCHANGED <<overtaken, setCalls, server, registries, refused, queued, flushVars, source,
                 counted, updateCalls>>

-----------------------------------------------------------------------------
(* set_enabled. A server on another address is destroyed before the new one  *)
(* is made, whose constructor throws when the address is taken.              *)
(* A slip: a server that runs is kept, whatever its address.                 *)
KeepsAnyServer(c) == server # <<>>

KeepsServer(c) == server # <<>> /\ server.address = c.address

SetEnabled(c, binds) ==
  IF ~c.enable
  THEN binds /\ server' = <<>> /\ UNCHANGED <<registries, refused>>
  ELSE IF KeepsServer(c)
  THEN binds /\ UNCHANGED <<server, registries, refused>>
  ELSE /\ registries' = registries + 1
       /\ IF binds
          THEN /\ server' = [address |-> c.address, registry |-> registries', shown |-> Shown]
               /\ UNCHANGED refused
          ELSE server' = <<>> /\ refused' = refused \cup {c}

ControlRuns(i, binds) ==
  /\ i \in DOMAIN controls
  /\ SetEnabled(controls[i], binds)
  /\ controls' = [k \in 1..(Len(controls) - 1) |-> controls[IF k < i THEN k ELSE k + 1]]
  /\ overtaken' = (overtaken \/ i > 1)
  /\ UNCHANGED <<setting, unrun, joining, setCalls, queued, flushVars, source, counted,
                 updateCalls>>

(* The join returns when the older thread has ended.                         *)
JoinControl ==
  /\ joining /\ Len(controls) <= 1 /\ (controls # <<>> => controls[1] = setting)
  /\ joining' = FALSE
  /\ UNCHANGED <<setting, unrun, controls, overtaken, setCalls, server, registries, refused,
                 queued, flushVars, source, counted, updateCalls>>

-----------------------------------------------------------------------------
(* set_gauge, set_counter and observe_duration, on any thread; a gauge shows  *)
(* another value each time, and observations are numbered.                   *)
Enqueue(update) ==
  /\ updateCalls < MaxMeasures /\ updateCalls' = updateCalls + 1
  /\ queued' = Append(queued, update)
  /\ UNCHANGED <<settingVars, server, registries, refused, flushVars>>

SetGauge ==
  /\ source' = [source EXCEPT !.gauge = updateCalls + 1] /\ UNCHANGED counted
  /\ Enqueue([kind |-> "gauge", value |-> updateCalls + 1])

SetCounter ==
  /\ source' = [source EXCEPT !.total = @ + 1]
  /\ counted' = [counted EXCEPT !.all = @ + 1]
  /\ Enqueue([kind |-> "counter", value |-> source.total + 1])

ObserveDuration ==
  /\ source' = [source EXCEPT !.observed = @ + 1] /\ UNCHANGED counted
  /\ Enqueue([kind |-> "histogram", value |-> source.observed + 1])

(* What counts starts again from zero, as a device that is made anew does.   *)
RestartCount ==
  /\ counted.restarts < MaxRestarts /\ source.total > 0
  /\ counted' = [counted EXCEPT !.restarts = @ + 1]
  /\ source' = [source EXCEPT !.total = 0]
  /\ UNCHANGED <<settingVars, server, registries, refused, queued, flushVars, updateCalls>>

-----------------------------------------------------------------------------
(* The update thread. Gauges and counters keep the newest value, histograms  *)
(* every observation.                                                        *)
Record ==
  /\ flushing = <<>> /\ queued # <<>>
  /\ LET u == Head(queued)
     IN pending' = [pending EXCEPT ![u.kind] =
                      IF u.kind = "histogram" THEN Append(@, u.value) ELSE <<u.value>>]
  /\ queued' = Tail(queued)
  /\ UNCHANGED <<settingVars, server, registries, refused, cache, flushing, source, counted,
                 updateCalls>>

(* flush_latest takes the registry under the lock; the server may be replaced*)
(* before the updates reach it.                                              *)
BeginFlush ==
  /\ flushing = <<>> /\ pending # NothingPending
  /\ flushing' = IF server = <<>> THEN <<0>> ELSE <<server.registry>>
  /\ UNCHANGED <<settingVars, server, registries, refused, queued, pending, cache, source,
                 counted, updateCalls>>

CacheFor(registry) ==
  IF cache.registry = registry THEN cache ELSE [registry |-> registry, total |-> 0]

(* A slip: the last total is not kept.                                       *)
ForgetsTotal(c, total) == c

(* A total that went backwards is a new count.                               *)
Increment(total, last) == IF total < last THEN total ELSE total - last
Totalled(c, total) == [c EXCEPT !.total = total]

EndFlush ==
  /\ flushing # <<>>
  /\ LET to == Head(flushing)  c == CacheFor(to)
         newest(kind, old) == IF pending[kind] = <<>> THEN old ELSE Head(pending[kind])
     IN /\ cache' = IF to = 0 \/ pending.counter = <<>> THEN c
                     ELSE Totalled(c, Head(pending.counter))
        /\ server' =
             IF server = <<>> \/ server.registry # to THEN server
             ELSE [server EXCEPT !.shown =
                     [gauge |-> newest("gauge", @.gauge),
                      counter |-> IF pending.counter = <<>> THEN @.counter
                                  ELSE @.counter + Increment(Head(pending.counter), c.total),
                      observed |-> @.observed + Len(pending.histogram)]]
  /\ pending' = NothingPending /\ flushing' = <<>>
  /\ UNCHANGED <<settingVars, registries, refused, queued, source, counted, updateCalls>>

MetricsNext ==
  \/ \E c \in Changes : SetHere(c) \/ SetElsewhere(c)
  \/ RunSetter \/ JoinControl
  \/ \E i \in DOMAIN controls, binds \in BOOLEAN : ControlRuns(i, binds)
  \/ SetGauge \/ SetCounter \/ ObserveDuration \/ RestartCount
  \/ Record \/ BeginFlush \/ EndFlush

MetricsSpec == MetricsInit /\ [][MetricsNext]_metricsVars

-----------------------------------------------------------------------------
(* PROPERTIES                                                                *)

(* When no control thread is left the endpoint is as it was set: served at   *)
(* the address of the settings, unless it could not be bound there, or not   *)
(* at all; except after a control thread that ran later than a newer one.    *)
ServerFollowsSettings ==
  controls = <<>> /\ ~overtaken =>
    IF ~setting.enable THEN server = <<>>
    ELSE IF server = <<>> THEN setting \in refused
    ELSE server.address = setting.address

(* What a scrape shows is true: never more than was counted or observed, by  *)
(* servers that come and go and counters that start again; and with nothing  *)
(* in flight the newest gauge and, while the count was never restarted, the  *)
(* exact total, unless the last updates were lost with an older server.      *)
MetricsAddUp ==
  server # <<>> =>
    /\ server.shown.counter <= counted.all
    /\ server.shown.observed <= source.observed
    /\ queued = <<>> /\ pending = NothingPending /\ flushing = <<>>
       /\ cache.registry = server.registry /\ counted.restarts = 0
       => /\ server.shown.counter \in {0, source.total}
          /\ server.shown.gauge \in {0, source.gauge}
=============================================================================
