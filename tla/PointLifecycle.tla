--------------------------- MODULE PointLifecycle ---------------------------
(***************************************************************************)
(* The registration of the points of one device and who is subscribed to   *)
(* them: DataPointStore (datapoint/store.py), the I/O module of the device *)
(* (modules/io), the modifier graph's subscriptions to the sources of its  *)
(* connections (modules/modifier/graph.py), and the refresh after an edit  *)
(* of the configuration (web/server.py).  An edit takes effect in one turn *)
(* of the event loop as far as these are concerned.                        *)
(***************************************************************************)
EXTENDS Naturals

CONSTANT Outputs  \* output points of the device

VARIABLE life
  \* kind:   "osc" (or Wing), whose module a refresh starts anew, or "midi"
  \* points: of the configured device, the version of each point, 0 if it has none
  \* specs, io, graph: of the store, the version registered of each point, and how
  \*         often the I/O module and the modifier graph are subscribed to it
  \* known:  the graph's _subscribed_sources; wanted: the sources of its connections
  \* first, dropped: points that the module subscribed to at the start of the
  \*         service, points that were unregistered since

lifeVars == life

Versions == 0 .. 2
Zero == [p \in Outputs |-> 0]

LifeInit ==
  life \in [kind : {"osc", "midi"}, up : {FALSE}, enabled : {TRUE}, points : [Outputs -> Versions],
            specs : {Zero}, io : {Zero}, graph : {Zero}, wanted : SUBSET Outputs,
            known : {{}}, first : {{}}, dropped : {{}}, raised : {FALSE}]

LifeTypeOK ==
  life \in [kind : {"osc", "midi"}, up : BOOLEAN, enabled : BOOLEAN, points : [Outputs -> Versions],
            specs : [Outputs -> Versions], io : [Outputs -> Nat], graph : [Outputs -> Nat],
            wanted : SUBSET Outputs, known : SUBSET Outputs, first : SUBSET Outputs,
            dropped : SUBSET Outputs, raised : BOOLEAN]

Configured(l) == {p \in Outputs : l.points[p] # 0}
Registered(l) == {p \in Outputs : l.specs[p] # 0}

-----------------------------------------------------------------------------
\* unregister() takes a point's subscribers along
Unregister(l, ps) ==
  LET gone == ps \cap Registered(l)
      Without(f) == [p \in Outputs |-> IF p \in gone THEN 0 ELSE f[p]]
  IN [l EXCEPT !.specs = Without(@), !.io = Without(@), !.graph = Without(@), !.dropped = @ \cup gone]

Register(l, ps) ==
  [l EXCEPT !.specs = [p \in Outputs |-> IF p \in ps THEN l.points[p] ELSE @[p]]]

\* start() of the I/O module
StartModule(l) ==
  LET m == Register(l, Configured(l))
  IN [m EXCEPT !.io = [p \in Outputs |-> IF l.points[p] # 0 THEN @[p] + 1 ELSE @[p]]]

\* _refresh_..._datapoints(): points that the device has no longer are unregistered, the
\* others registered; register() raises when a point is there with another spec.  A
\* module for OSC or Wing is started anew; the one before keeps its subscriptions
Refreshed(l) ==
  LET new   == Configured(l)
      m     == [Unregister(l, Outputs \ new) EXCEPT !.raised = FALSE]
      clash == {p \in new : m.specs[p] \notin {0, m.points[p]}}
  IN IF clash # {} THEN {[Register(m, some) EXCEPT !.raised = TRUE] : some \in SUBSET (new \ clash)}
     ELSE IF l.kind = "osc" /\ l.enabled THEN {StartModule(m)}
     ELSE {Register(m, new)}

\* slip: what was subscribed before is not remembered
SubscribeAll(l) ==
  [l EXCEPT !.known = l.wanted,
            !.graph = [p \in Outputs |-> IF p \in l.wanted THEN @[p] + 1 ELSE @[p]]]

\* _sync_subscriptions() of the modifier graph; nothing unsubscribes
SyncSubscriptions(l) ==
  [l EXCEPT !.known = @ \cup l.wanted,
            !.graph = [p \in Outputs |-> IF p \in l.wanted \ l.known THEN @[p] + 1 ELSE @[p]]]

-----------------------------------------------------------------------------
\* the service starts the modifier graph, then the I/O modules, and refreshes
LifeStart ==
  /\ ~life.up
  /\ life' \in Refreshed([StartModule(SyncSubscriptions(life)) EXCEPT
                            !.up = TRUE, !.first = Configured(life)])

\* set_devices_config(): the points of the device are other ones, or have other specs,
\* or the device is gone
EditPoints(points) ==
  /\ life.up
  /\ life' \in Refreshed([life EXCEPT !.points = points])

\* apply_..._adapters_config(): a disabled OSC adapter's points are cleared
EnableAdapter(enabled) ==
  LET l == [life EXCEPT !.enabled = enabled] IN
  /\ life.up
  /\ life' \in IF enabled \/ life.kind = "midi" THEN Refreshed(l) ELSE {Unregister(l, Outputs)}

\* set_connections_config() and the like, with replace_connections()
Connect(sources) ==
  /\ life.up
  /\ life' = SyncSubscriptions([life EXCEPT !.wanted = sources])

LifeRuns == LifeStart

LifeWorld ==
  \/ \E points \in [Outputs -> Versions] : EditPoints(points)
  \/ \E enabled \in BOOLEAN : EnableAdapter(enabled)
  \/ \E sources \in SUBSET Outputs : Connect(sources)

LifeSpec == LifeInit /\ [][LifeRuns \/ LifeWorld]_lifeVars

-----------------------------------------------------------------------------
Serving == life.kind = "midi" \/ life.enabled

\* While the service is up, the points of the device are registered as configured,
\* those alone are passed on to it, and the graph hears each source of a connection
\* exactly once.  Excepted are points that were unregistered since the start, which
\* neither the graph nor a MIDI module subscribes to again, and a refresh that raises
\* as a spec has changed (_sync_subscriptions(), register(), unregister()).
PointsAreServed ==
  life.up =>
    /\ Serving /\ ~life.raised =>
         \A p \in Outputs :
           /\ life.specs[p] = life.points[p]
           /\ life.kind = "osc" => (life.io[p] > 0 <=> life.points[p] # 0)
    /\ \A p \in life.first \ life.dropped : life.kind = "midi" => life.io[p] = 1
    /\ \A p \in life.wanted \ life.dropped : life.graph[p] = 1
=============================================================================
