------------------------------ MODULE WebProofs ------------------------------
(***************************************************************************)
(* Proofs about what the web server edits and tells: the points of a       *)
(* device (PointLifecycle), the adapters, devices and connections that web *)
(* requests edit and save (ConfigEdits), the connections that editors      *)
(* share (ConnectionEditors) and the monitor of a point (MonitorStream).   *)
(* Nothing is assumed of the points, requests, options, pages, endpoints   *)
(* and values but that they are sets; default connections are between two  *)
(* different endpoints.                                                    *)
(***************************************************************************)
EXTENDS PointLifecycle, ConfigurationEdits, MonitorStream, FiniteSetTheorems,
        SequenceTheorems, TLAPS

(***************************************************************************)
(* I. Points are served as configured, and the graph hears each source     *)
(* once.                                                                   *)
(***************************************************************************)

Lives == [kind : {"osc", "midi"}, up : BOOLEAN, enabled : BOOLEAN, points : [Outputs -> Versions],
          specs : [Outputs -> Versions], io : [Outputs -> Nat], graph : [Outputs -> Nat],
          wanted : SUBSET Outputs, known : SUBSET Outputs, first : SUBSET Outputs,
          dropped : SUBSET Outputs, raised : BOOLEAN]

LEMMA VersionsAreNumbers == Versions \subseteq Nat /\ 0 \in Versions
  BY DEF Versions

\* What no registration changes.
Same(l, m) ==
  /\ m.kind = l.kind /\ m.up = l.up /\ m.enabled = l.enabled /\ m.points = l.points
  /\ m.wanted = l.wanted /\ m.known = l.known /\ m.first = l.first

-----------------------------------------------------------------------------
(* The operators, field by field. *)

LEMMA UnregisterFields ==
  ASSUME NEW l \in Lives, NEW ps \in SUBSET Outputs, NEW m, m = Unregister(l, ps)
  PROVE  /\ m \in Lives /\ Same(l, m) /\ m.raised = l.raised
         /\ m.dropped = l.dropped \cup {p \in ps : l.specs[p] # 0}
         /\ \A p \in Outputs :
              LET gone == p \in ps /\ l.specs[p] # 0 IN
              /\ m.specs[p] = IF gone THEN 0 ELSE l.specs[p]
              /\ m.io[p] = IF gone THEN 0 ELSE l.io[p]
              /\ m.graph[p] = IF gone THEN 0 ELSE l.graph[p]
<1>1. m \in Lives BY VersionsAreNumbers DEF Unregister, Registered, Lives
<1>2. QED BY <1>1 DEF Unregister, Registered, Lives, Same

LEMMA RegisterFields ==
  ASSUME NEW l \in Lives, NEW ps \in SUBSET Outputs, NEW m, m = Register(l, ps)
  PROVE  /\ m \in Lives /\ Same(l, m) /\ m.raised = l.raised
         /\ m.dropped = l.dropped /\ m.io = l.io /\ m.graph = l.graph
         /\ \A p \in Outputs : m.specs[p] = IF p \in ps THEN l.points[p] ELSE l.specs[p]
<1>1. m \in Lives BY VersionsAreNumbers DEF Register, Lives
<1>2. QED BY <1>1 DEF Register, Lives, Same

LEMMA StartFields ==
  ASSUME NEW l \in Lives, NEW m, m = StartModule(l)
  PROVE  /\ m \in Lives /\ Same(l, m) /\ m.raised = l.raised
         /\ m.dropped = l.dropped /\ m.graph = l.graph
         /\ \A p \in Outputs :
              /\ m.specs[p] = IF l.points[p] # 0 THEN l.points[p] ELSE l.specs[p]
              /\ m.io[p] = IF l.points[p] # 0 THEN l.io[p] + 1 ELSE l.io[p]
<1> DEFINE r == Register(l, Configured(l))
           io == [p \in Outputs |-> IF l.points[p] # 0 THEN r.io[p] + 1 ELSE r.io[p]]
<1>1. Configured(l) \in SUBSET Outputs BY DEF Configured
<1>2. /\ r \in Lives /\ Same(l, r) /\ r.raised = l.raised
      /\ r.dropped = l.dropped /\ r.graph = l.graph /\ r.io = l.io
      /\ \A p \in Outputs : r.specs[p] = IF p \in Configured(l) THEN l.points[p] ELSE l.specs[p]
  BY <1>1, RegisterFields
<1> HIDE DEF r
<1>3. io \in [Outputs -> Nat] BY <1>2 DEF Lives
<1>4. m = [r EXCEPT !.io = io] BY DEF StartModule, r
<1> HIDE DEF io
<1>5. m \in Lives BY <1>2, <1>3, <1>4 DEF Lives
<1>6. m.io = io /\ Same(r, m) /\ m.specs = r.specs /\ m.raised = r.raised /\ m.dropped = r.dropped /\ m.graph = r.graph
  BY <1>2, <1>4 DEF Same, Lives
<1>7. QED BY <1>2, <1>5, <1>6 DEF Same, Configured, io

LEMMA SyncFields ==
  ASSUME NEW l \in Lives, NEW m, m = SyncSubscriptions(l)
  PROVE  /\ m \in Lives /\ m.raised = l.raised
         /\ m.kind = l.kind /\ m.up = l.up /\ m.enabled = l.enabled /\ m.points = l.points
         /\ m.wanted = l.wanted /\ m.known = l.known \cup l.wanted /\ m.first = l.first
         /\ m.dropped = l.dropped /\ m.io = l.io /\ m.specs = l.specs
         /\ \A p \in Outputs : m.graph[p] = IF p \in l.wanted \ l.known THEN l.graph[p] + 1 ELSE l.graph[p]
<1> DEFINE graph == [p \in Outputs |-> IF p \in l.wanted \ l.known THEN l.graph[p] + 1 ELSE l.graph[p]]
<1>1. graph \in [Outputs -> Nat] BY DEF Lives
<1>2. m = [l EXCEPT !.known = l.known \cup l.wanted, !.graph = graph] BY DEF SyncSubscriptions
<1>3. \A p \in Outputs : graph[p] = IF p \in l.wanted \ l.known THEN l.graph[p] + 1 ELSE l.graph[p]
  OBVIOUS
<1> HIDE DEF graph
<1>4. m \in Lives BY <1>1, <1>2 DEF Lives
<1>5. QED BY <1>2, <1>3, <1>4 DEF Lives

-----------------------------------------------------------------------------
(* The invariant. *)

\* The graph has one subscription to what it knows, unless that was dropped since.
Routed(l) == \A p \in Outputs :
  /\ p \notin l.known => l.graph[p] = 0
  /\ p \in l.known \ l.dropped => l.graph[p] = 1

\* A module for OSC or Wing is only subscribed to registered points; the one for MIDI is
\* subscribed once to those that it found at its start, and have not been dropped since.
OutputsPassed(l) ==
  /\ l.kind = "osc" => \A p \in Outputs : l.io[p] > 0 => l.specs[p] # 0
  /\ l.kind = "midi" => \A p \in l.first \ l.dropped : l.io[p] = 1

\* After a refresh that did not raise, what is configured is registered and passed on.
Served(l) ==
  (l.kind = "midi" \/ l.enabled) /\ ~l.raised =>
    \A p \in Outputs :
      /\ l.specs[p] = l.points[p]
      /\ l.kind = "osc" => (l.io[p] > 0 <=> l.points[p] # 0)

LifeInv ==
  /\ life \in Lives
  /\ Routed(life)
  /\ life.up => OutputsPassed(life) /\ Served(life) /\ life.wanted \subseteq life.known
  /\ ~life.up => \A p \in Outputs : life.io[p] = 0

LEMMA Marked ==
  ASSUME NEW l \in Lives, NEW b \in BOOLEAN, NEW m, m = [l EXCEPT !.raised = b]
  PROVE  /\ m \in Lives /\ Same(l, m) /\ m.raised = b /\ m.specs = l.specs
         /\ m.io = l.io /\ m.graph = l.graph /\ m.dropped = l.dropped
  BY DEF Lives, Same

\* What a refresh does: the points that are gone are unregistered, and then one of
\* three things happens.
LEMMA RefreshCases ==
  ASSUME NEW l \in Lives, NEW n \in Refreshed(l)
  PROVE  \E m \in Lives :
           /\ Same(l, m) /\ ~m.raised
           /\ m.dropped = l.dropped \cup {p \in Outputs \ Configured(l) : l.specs[p] # 0}
           /\ \A p \in Outputs :
                LET gone == p \notin Configured(l) /\ l.specs[p] # 0 IN
                /\ m.specs[p] = IF gone THEN 0 ELSE l.specs[p]
                /\ m.io[p] = IF gone THEN 0 ELSE l.io[p]
                /\ m.graph[p] = IF gone THEN 0 ELSE l.graph[p]
           /\ \/ \E some \in SUBSET Configured(l) : n = [Register(m, some) EXCEPT !.raised = TRUE]
              \/ l.kind = "osc" /\ l.enabled /\ n = StartModule(m)
              \/ ~(l.kind = "osc" /\ l.enabled) /\ n = Register(m, Configured(l))
<1> DEFINE new == Configured(l)
           u   == Unregister(l, Outputs \ new)
           m   == [u EXCEPT !.raised = FALSE]
           clash == {p \in new : m.specs[p] \notin {0, m.points[p]}}
<1>1. Outputs \ new \in SUBSET Outputs OBVIOUS
<1>2. /\ u \in Lives /\ Same(l, u)
      /\ u.dropped = l.dropped \cup {p \in Outputs \ new : l.specs[p] # 0}
      /\ \A p \in Outputs :
           LET gone == p \in Outputs \ new /\ l.specs[p] # 0 IN
           /\ u.specs[p] = IF gone THEN 0 ELSE l.specs[p]
           /\ u.io[p] = IF gone THEN 0 ELSE l.io[p]
           /\ u.graph[p] = IF gone THEN 0 ELSE l.graph[p]
  BY <1>1, UnregisterFields
<1>3. n \in IF clash # {} THEN {[Register(m, some) EXCEPT !.raised = TRUE] : some \in SUBSET (new \ clash)}
            ELSE IF l.kind = "osc" /\ l.enabled THEN {StartModule(m)}
            ELSE {Register(m, new)}
  BY DEF Refreshed
<1> HIDE DEF u
<1>4. /\ m \in Lives /\ Same(u, m) /\ ~m.raised /\ m.specs = u.specs
      /\ m.io = u.io /\ m.graph = u.graph /\ m.dropped = u.dropped
  BY <1>2, Marked
<1> HIDE DEF m
<1>5. \/ \E some \in SUBSET new : n = [Register(m, some) EXCEPT !.raised = TRUE]
      \/ l.kind = "osc" /\ l.enabled /\ n = StartModule(m)
      \/ ~(l.kind = "osc" /\ l.enabled) /\ n = Register(m, new)
  BY <1>3
<1>6. Same(l, m) BY <1>2, <1>4 DEF Same
<1>7. QED BY <1>2, <1>4, <1>5, <1>6

\* A refresh serves what is configured, and keeps what the graph hears.
LEMMA RefreshServes ==
  ASSUME NEW l \in Lives, Routed(l), OutputsPassed(l), NEW n \in Refreshed(l)
  PROVE  n \in Lives /\ Routed(n) /\ OutputsPassed(n) /\ Served(n) /\ Same(l, n)
<1>1. PICK m \in Lives :
           /\ Same(l, m) /\ ~m.raised
           /\ m.dropped = l.dropped \cup {p \in Outputs \ Configured(l) : l.specs[p] # 0}
           /\ \A p \in Outputs :
                LET gone == p \notin Configured(l) /\ l.specs[p] # 0 IN
                /\ m.specs[p] = IF gone THEN 0 ELSE l.specs[p]
                /\ m.io[p] = IF gone THEN 0 ELSE l.io[p]
                /\ m.graph[p] = IF gone THEN 0 ELSE l.graph[p]
           /\ \/ \E some \in SUBSET Configured(l) : n = [Register(m, some) EXCEPT !.raised = TRUE]
              \/ l.kind = "osc" /\ l.enabled /\ n = StartModule(m)
              \/ ~(l.kind = "osc" /\ l.enabled) /\ n = Register(m, Configured(l))
  BY RefreshCases
<1>a. /\ Same(l, m) /\ m.raised = FALSE
      /\ m.dropped = l.dropped \cup {p \in Outputs : p \notin Configured(l) /\ l.specs[p] # 0}
      /\ \A p \in Outputs : p \notin Configured(l) /\ l.specs[p] # 0 =>
           m.specs[p] = 0 /\ m.io[p] = 0 /\ m.graph[p] = 0
      /\ \A p \in Outputs : ~(p \notin Configured(l) /\ l.specs[p] # 0) =>
           m.specs[p] = l.specs[p] /\ m.io[p] = l.io[p] /\ m.graph[p] = l.graph[p]
  BY <1>1
<1>b. \A p \in Outputs : p \in Configured(l) <=> m.points[p] # 0
  BY <1>a DEF Configured, Same
<1>2. l.first \in SUBSET Outputs /\ l.points \in [Outputs -> Versions] BY DEF Lives
<1>3. Routed(m) BY <1>a DEF Routed, Same
<1>4. OutputsPassed(m)
  <2>1. l.kind = "osc" => \A p \in Outputs : m.io[p] > 0 => m.specs[p] # 0 BY <1>a DEF OutputsPassed
  <2>2. l.kind = "midi" => \A p \in m.first \ m.dropped : m.io[p] = 1
    BY <1>a, <1>2 DEF OutputsPassed, Same
  <2>3. QED BY <1>a, <2>1, <2>2 DEF OutputsPassed, Same
<1>5. Configured(l) \in SUBSET Outputs BY DEF Configured
<1>6. CASE \E some \in SUBSET Configured(l) : n = [Register(m, some) EXCEPT !.raised = TRUE]
  <2>1. PICK some \in SUBSET Configured(l) : n = [Register(m, some) EXCEPT !.raised = TRUE] BY <1>6
  <2> DEFINE r == Register(m, some)
  <2>2. /\ r \in Lives /\ Same(m, r) /\ r.dropped = m.dropped /\ r.io = m.io /\ r.graph = m.graph
        /\ \A p \in Outputs : r.specs[p] = IF p \in some THEN m.points[p] ELSE m.specs[p]
    BY <1>5, <2>1, RegisterFields
  <2>r. n = [r EXCEPT !.raised = TRUE] BY <2>1
  <2> HIDE DEF r
  <2>3. /\ n \in Lives /\ Same(r, n) /\ n.raised = TRUE /\ n.specs = r.specs
        /\ n.io = r.io /\ n.graph = r.graph /\ n.dropped = r.dropped
    BY <2>2, <2>r, Marked
  <2>4. \A p \in some : m.points[p] # 0 BY <1>a DEF Configured, Same
  <2>k. n.known = m.known /\ n.graph = m.graph /\ n.dropped = m.dropped BY <2>2, <2>3 DEF Same
  <2>5. Routed(n) BY <1>3, <2>k DEF Routed
  <2>6. OutputsPassed(n) BY <1>4, <2>2, <2>3, <2>4, <1>1, <1>2 DEF OutputsPassed, Same
  <2>7. QED BY <1>a, <2>2, <2>3, <2>5, <2>6 DEF Served, Same
<1>7. CASE l.kind = "osc" /\ l.enabled /\ n = StartModule(m)
  <2>1. /\ n \in Lives /\ Same(m, n) /\ n.dropped = m.dropped /\ n.graph = m.graph
        /\ \A p \in Outputs :
              /\ n.specs[p] = IF m.points[p] # 0 THEN m.points[p] ELSE m.specs[p]
              /\ n.io[p] = IF m.points[p] # 0 THEN m.io[p] + 1 ELSE m.io[p]
    BY <1>7, StartFields
  <2>p. n.points = m.points BY <2>1 DEF Same
  <2>s. \A p \in Outputs : m.points[p] = 0 => m.specs[p] = 0 BY <1>a, <1>b
  <2>2. \A p \in Outputs : n.specs[p] = n.points[p]
    BY <1>b, <2>1, <2>p, <2>s
  <2>3. \A p \in Outputs : m.io[p] \in Nat /\ n.io[p] \in Nat BY <2>1 DEF Lives
  <2>4. \A p \in Outputs : n.io[p] > 0 <=> n.points[p] # 0
    <3>1. \A p \in Outputs : m.points[p] = 0 => m.io[p] = 0
      BY <1>a, <1>b, <1>7, <2>3 DEF OutputsPassed
    <3>2. ASSUME NEW p \in Outputs PROVE n.io[p] > 0 <=> n.points[p] # 0
      <4>1. m.io[p] \in Nat /\ n.io[p] = IF m.points[p] # 0 THEN m.io[p] + 1 ELSE m.io[p]
        BY <2>1, <2>3
      <4>2. m.points[p] = 0 => m.io[p] = 0 BY <3>1
      <4>3. n.io[p] > 0 <=> m.points[p] # 0 BY <4>1, <4>2
      <4>4. QED BY <4>3, <2>p
    <3>3. QED BY <3>2
  <2>5. Routed(n) BY <1>3, <2>1 DEF Routed, Same
  <2>6. OutputsPassed(n) BY <1>7, <1>a, <2>1, <2>2, <2>4 DEF OutputsPassed, Same
  <2>7. QED BY <1>a, <2>1, <2>2, <2>4, <2>5, <2>6 DEF Served, Same
<1>8. CASE ~(l.kind = "osc" /\ l.enabled) /\ n = Register(m, Configured(l))
  <2>1. /\ n \in Lives /\ Same(m, n) /\ n.dropped = m.dropped /\ n.io = m.io /\ n.graph = m.graph
        /\ \A p \in Outputs : n.specs[p] = IF p \in Configured(l) THEN m.points[p] ELSE m.specs[p]
    BY <1>5, <1>8, RegisterFields
  <2>p. n.points = m.points BY <2>1 DEF Same
  <2>s. \A p \in Outputs : m.points[p] = 0 => m.specs[p] = 0 BY <1>a, <1>b
  <2>2. \A p \in Outputs : n.specs[p] = n.points[p]
    BY <1>b, <2>1, <2>p, <2>s
  <2>3. l.kind \in {"osc", "midi"} /\ (l.kind = "osc" => ~l.enabled) BY <1>8 DEF Lives
  <2>4. Routed(n) BY <1>3, <2>1 DEF Routed, Same
  <2>5. OutputsPassed(n) BY <1>a, <1>b, <1>4, <2>1 DEF OutputsPassed, Same
  <2>6. QED BY <1>a, <2>1, <2>2, <2>3, <2>4, <2>5 DEF Served, Same
<1>9. QED BY <1>1, <1>6, <1>7, <1>8

-----------------------------------------------------------------------------
(* The actions. *)

LEMMA LifeInitially == LifeInit => LifeInv
<1> SUFFICES ASSUME LifeInit PROVE LifeInv OBVIOUS
<1>1. life \in Lives /\ life.up = FALSE /\ life.io = Zero /\ life.graph = Zero /\ life.known = {}
  <2>1. Zero \in [Outputs -> Versions] /\ Zero \in [Outputs -> Nat] BY VersionsAreNumbers DEF Zero
  <2>2. life.up \in {FALSE} /\ life.io \in {Zero} /\ life.graph \in {Zero} /\ life.known \in {{}}
    BY DEF LifeInit
  <2>3. life \in Lives BY <2>1 DEF LifeInit, Lives
  <2>4. QED BY <2>2, <2>3
<1>2. QED BY <1>1 DEF LifeInv, Routed, Zero

\* The service comes up: the graph and then the module subscribe, and all is refreshed.
LEMMA LifeStarts ==
  ASSUME LifeInv, LifeStart
  PROVE  LifeInv'
<1> DEFINE s == SyncSubscriptions(life)
           m == StartModule(s)
           l == [m EXCEPT !.up = TRUE, !.first = Configured(life)]
<1>1. life \in Lives /\ Routed(life) /\ \A p \in Outputs : life.io[p] = 0
  BY DEF LifeInv, LifeStart
<1>2. /\ s \in Lives /\ s.kind = life.kind /\ s.points = life.points
      /\ s.wanted = life.wanted /\ s.known = life.known \cup life.wanted
      /\ s.dropped = life.dropped /\ s.io = life.io
      /\ \A p \in Outputs : s.graph[p] = IF p \in life.wanted \ life.known THEN life.graph[p] + 1 ELSE life.graph[p]
  BY <1>1, SyncFields
<1> HIDE DEF s
<1>3. Routed(s)
  <2>1. ASSUME NEW p \in Outputs
        PROVE  /\ p \notin s.known => s.graph[p] = 0
               /\ p \in s.known \ s.dropped => s.graph[p] = 1
    <3>1. /\ p \notin life.known => life.graph[p] = 0
          /\ p \in life.known \ life.dropped => life.graph[p] = 1
      BY <1>1 DEF Routed
    <3>2. s.graph[p] = IF p \in life.wanted \ life.known THEN life.graph[p] + 1 ELSE life.graph[p]
      BY <1>2
    <3>3. s.known = life.known \cup life.wanted /\ s.dropped = life.dropped BY <1>2
    <3>4. QED BY <3>1, <3>2, <3>3
  <2>2. QED BY <2>1 DEF Routed
<1>4. /\ m \in Lives /\ Same(s, m) /\ m.dropped = s.dropped /\ m.graph = s.graph
      /\ \A p \in Outputs :
              /\ m.specs[p] = IF s.points[p] # 0 THEN s.points[p] ELSE s.specs[p]
              /\ m.io[p] = IF s.points[p] # 0 THEN s.io[p] + 1 ELSE s.io[p]
  BY <1>2, StartFields
<1> HIDE DEF m
<1>5. Configured(life) \in SUBSET Outputs BY DEF Configured
<1>6. /\ l \in Lives /\ l.kind = m.kind /\ l.up = TRUE /\ l.points = m.points /\ l.specs = m.specs
      /\ l.io = m.io /\ l.graph = m.graph /\ l.wanted = m.wanted /\ l.known = m.known
      /\ l.dropped = m.dropped /\ l.first = Configured(life)
  BY <1>4, <1>5 DEF Lives
<1>7. life' \in Refreshed(l) BY DEF LifeStart, l, m, s
<1> HIDE DEF l
<1>8. m.known = s.known /\ m.wanted = s.wanted /\ m.points = s.points BY <1>4 DEF Same
<1>9. Routed(l)
  <2>1. l.known = s.known /\ l.graph = s.graph /\ l.dropped = s.dropped BY <1>4, <1>6, <1>8
  <2>2. QED BY <1>3, <2>1 DEF Routed
<1>10. OutputsPassed(l)
  <2>1. \A p \in Outputs : l.io[p] = IF life.points[p] # 0 THEN 1 ELSE 0
    <3>1. l.io = m.io /\ s.points = life.points /\ s.io = life.io BY <1>2, <1>6
    <3>2. ASSUME NEW p \in Outputs PROVE l.io[p] = IF life.points[p] # 0 THEN 1 ELSE 0
      <4>1. life.io[p] = 0 BY <1>1
      <4>2. m.io[p] = IF s.points[p] # 0 THEN s.io[p] + 1 ELSE s.io[p] BY <1>4
      <4>3. QED BY <3>1, <4>1, <4>2
    <3>3. QED BY <3>2
  <2>2. \A p \in Outputs : life.points[p] # 0 => l.specs[p] # 0
    BY <1>2, <1>4, <1>6
  <2>3. \A p \in l.first : life.points[p] # 0 /\ p \in Outputs BY <1>6 DEF Configured
  <2>4. QED BY <2>1, <2>2, <2>3 DEF OutputsPassed
<1>11. life' \in Lives /\ Routed(life') /\ OutputsPassed(life') /\ Served(life') /\ Same(l, life')
  BY <1>6, <1>7, <1>9, <1>10, RefreshServes
<1>12. life'.up = TRUE /\ life'.wanted = l.wanted /\ life'.known = l.known BY <1>6, <1>11 DEF Same
<1>13. life'.wanted \subseteq life'.known BY <1>2, <1>6, <1>8, <1>12
<1>14. QED BY <1>11, <1>12, <1>13 DEF LifeInv, Routed, OutputsPassed, Served

\* A refresh of a service that is up keeps the invariant, whatever was edited before it.
LEMMA RefreshStepKeeps ==
  ASSUME LifeInv, NEW l \in Lives, l.up = TRUE, Routed(l), OutputsPassed(l),
         l.wanted \subseteq l.known, life' \in Refreshed(l)
  PROVE  LifeInv'
<1>1. life' \in Lives /\ Routed(life') /\ OutputsPassed(life') /\ Served(life') /\ Same(l, life')
  BY RefreshServes
<1>2. life'.up = TRUE /\ life'.wanted = l.wanted /\ life'.known = l.known BY <1>1 DEF Same
<1>3. QED BY <1>1, <1>2 DEF LifeInv, Routed, OutputsPassed, Served

LEMMA PointsEdited ==
  ASSUME LifeInv, NEW points \in [Outputs -> Versions], EditPoints(points)
  PROVE  LifeInv'
<1> DEFINE l == [life EXCEPT !.points = points]
<1>1. /\ life \in Lives /\ life.up = TRUE /\ Routed(life) /\ OutputsPassed(life) /\ life.wanted \subseteq life.known
  BY DEF LifeInv, EditPoints, Lives
<1>2. /\ l \in Lives /\ l.up = TRUE /\ l.kind = life.kind /\ l.specs = life.specs /\ l.io = life.io
      /\ l.graph = life.graph /\ l.wanted = life.wanted /\ l.known = life.known
      /\ l.first = life.first /\ l.dropped = life.dropped
  BY <1>1 DEF Lives
<1>3. life' \in Refreshed(l) BY DEF EditPoints
<1> HIDE DEF l
<1>4. Routed(l) BY <1>1, <1>2 DEF Routed
<1>5. OutputsPassed(l) BY <1>1, <1>2 DEF OutputsPassed
<1>6. QED BY <1>1, <1>2, <1>3, <1>4, <1>5, RefreshStepKeeps

LEMMA AdapterEnabled ==
  ASSUME LifeInv, NEW enabled \in BOOLEAN, EnableAdapter(enabled)
  PROVE  LifeInv'
<1> DEFINE l == [life EXCEPT !.enabled = enabled]
<1>1. /\ life \in Lives /\ life.up = TRUE /\ Routed(life) /\ OutputsPassed(life) /\ life.wanted \subseteq life.known
  BY DEF LifeInv, EnableAdapter, Lives
<1>2. /\ l \in Lives /\ l.up = TRUE /\ l.kind = life.kind /\ l.specs = life.specs /\ l.io = life.io
      /\ l.graph = life.graph /\ l.wanted = life.wanted /\ l.known = life.known
      /\ l.first = life.first /\ l.dropped = life.dropped /\ l.enabled = enabled
  BY <1>1 DEF Lives
<1>3. life' \in IF enabled \/ life.kind = "midi" THEN Refreshed(l) ELSE {Unregister(l, Outputs)}
  BY DEF EnableAdapter
<1> HIDE DEF l
<1>4. Routed(l) BY <1>1, <1>2 DEF Routed
<1>5. OutputsPassed(l) BY <1>1, <1>2 DEF OutputsPassed
<1>6. CASE enabled \/ life.kind = "midi"
  <2>1. life' \in Refreshed(l) BY <1>3, <1>6
  <2>2. QED BY <1>1, <1>2, <2>1, <1>4, <1>5, RefreshStepKeeps
<1>7. CASE ~(enabled \/ life.kind = "midi")
  <2>1. life' = Unregister(l, Outputs) BY <1>3, <1>7
  <2>2. /\ life' \in Lives /\ Same(l, life') /\ life'.dropped = l.dropped \cup {p \in Outputs : l.specs[p] # 0}
        /\ \A p \in Outputs :
              LET gone == p \in Outputs /\ l.specs[p] # 0 IN
              /\ life'.specs[p] = IF gone THEN 0 ELSE l.specs[p]
              /\ life'.io[p] = IF gone THEN 0 ELSE l.io[p]
              /\ life'.graph[p] = IF gone THEN 0 ELSE l.graph[p]
    BY <1>2, <2>1, UnregisterFields
  <2>3. /\ life'.up = TRUE /\ life'.kind = l.kind /\ life'.enabled = enabled
        /\ life'.wanted = l.wanted /\ life'.known = l.known
    BY <1>2, <2>2 DEF Same
  <2>4. life.kind = "osc" /\ enabled = FALSE BY <1>1, <1>7 DEF Lives
  <2>5. Routed(life') BY <1>4, <2>2, <2>3 DEF Routed
  <2>6. OutputsPassed(life') BY <1>2, <1>5, <2>2, <2>3, <2>4 DEF OutputsPassed
  <2>7. Served(life') BY <1>2, <2>3, <2>4 DEF Served
  <2>8. life'.wanted \subseteq life'.known BY <1>1, <1>2, <2>3
  <2>9. QED BY <2>2, <2>3, <2>5, <2>6, <2>7, <2>8 DEF LifeInv, Routed, OutputsPassed, Served
<1>8. QED BY <1>6, <1>7

LEMMA OutputsRouted ==
  ASSUME LifeInv, NEW sources \in SUBSET Outputs, Connect(sources)
  PROVE  LifeInv'
<1> DEFINE l == [life EXCEPT !.wanted = sources]
<1>1. /\ life \in Lives /\ life.up = TRUE /\ Routed(life) /\ OutputsPassed(life) /\ Served(life)
  BY DEF LifeInv, Connect, Lives
<1>2. /\ l \in Lives /\ l.up = TRUE /\ l.kind = life.kind /\ l.specs = life.specs /\ l.io = life.io
      /\ l.graph = life.graph /\ l.wanted = sources /\ l.known = life.known /\ l.enabled = life.enabled
      /\ l.first = life.first /\ l.dropped = life.dropped /\ l.points = life.points /\ l.raised = life.raised
  BY <1>1 DEF Lives
<1>3. life' = SyncSubscriptions(l) BY DEF Connect
<1> HIDE DEF l
<1>4. /\ life' \in Lives /\ life'.raised = l.raised
      /\ life'.kind = l.kind /\ life'.up = l.up /\ life'.enabled = l.enabled /\ life'.points = l.points
      /\ life'.wanted = l.wanted /\ life'.known = l.known \cup l.wanted /\ life'.first = l.first
      /\ life'.dropped = l.dropped /\ life'.io = l.io /\ life'.specs = l.specs
      /\ \A p \in Outputs : life'.graph[p] = IF p \in l.wanted \ l.known THEN l.graph[p] + 1 ELSE l.graph[p]
  BY <1>2, <1>3, SyncFields
<1>5. Routed(life') BY <1>1, <1>2, <1>4 DEF Routed
<1>6. OutputsPassed(life') BY <1>1, <1>2, <1>4 DEF OutputsPassed
<1>7. Served(life')
  <2>1. life'.kind = life.kind /\ life'.specs = life.specs /\ life'.io = life.io /\ life'.points = life.points
    BY <1>2, <1>4
  <2>2. life'.raised = life.raised /\ life'.enabled = life.enabled BY <1>2, <1>4
  <2>3. QED BY <1>1, <2>1, <2>2 DEF Served
<1>8. life'.wanted \subseteq life'.known /\ life'.up = TRUE BY <1>2, <1>4
<1>9. QED BY <1>4, <1>5, <1>6, <1>7, <1>8 DEF LifeInv, Routed, OutputsPassed, Served

-----------------------------------------------------------------------------
(* The theorems. *)

LEMMA LifeNext ==
  ASSUME LifeInv, [LifeRuns \/ LifeWorld]_lifeVars
  PROVE  LifeInv'
<1>1. CASE LifeStart BY <1>1, LifeStarts
<1>2. ASSUME NEW points \in [Outputs -> Versions], EditPoints(points) PROVE LifeInv'
  BY <1>2, PointsEdited
<1>3. ASSUME NEW enabled \in BOOLEAN, EnableAdapter(enabled) PROVE LifeInv'
  BY <1>3, AdapterEnabled
<1>4. ASSUME NEW sources \in SUBSET Outputs, Connect(sources) PROVE LifeInv'
  BY <1>4, OutputsRouted
<1>5. CASE UNCHANGED lifeVars BY <1>5 DEF lifeVars, LifeInv
<1>6. QED BY <1>1, <1>2, <1>3, <1>4, <1>5 DEF LifeRuns, LifeWorld

\* What LifeInv says holds in every state: it is inductive.
THEOREM LifeInvariant == LifeSpec => []LifeInv
<1>1. LifeInit => LifeInv BY LifeInitially
<1>2. LifeInv /\ [LifeRuns \/ LifeWorld]_lifeVars => LifeInv' BY LifeNext
<1>3. QED BY <1>1, <1>2, PTL DEF LifeSpec

\* The registration of points has its type (DataPointStore, ModifierGraph).
THEOREM LifeTypeCorrect == LifeSpec => []LifeTypeOK
<1>1. LifeInv => LifeTypeOK BY DEF LifeInv, LifeTypeOK, Lives
<1>2. QED BY <1>1, LifeInvariant, PTL

\* Points are registered as configured and passed on to their device, and the graph hears
\* the sources of its connections once, for every device and through every edit
\* (DataPointStore.register(), unregister(), ModifierGraph._sync_subscriptions()).
THEOREM PointsAreServedHolds == LifeSpec => []PointsAreServed
<1>1. LifeInv => PointsAreServed
  <2> SUFFICES ASSUME LifeInv, life.up PROVE PointsAreServed BY DEF PointsAreServed
  <2>1. life \in Lives /\ Routed(life) /\ OutputsPassed(life) /\ Served(life) /\ life.wanted \subseteq life.known
    BY DEF LifeInv
  <2>2. \A p \in life.wanted \ life.dropped : life.graph[p] = 1
    BY <2>1 DEF Routed, Lives
  <2>3. QED BY <2>1, <2>2 DEF PointsAreServed, Served, OutputsPassed, Serving
<1>2. QED BY <1>1, LifeInvariant, PTL

-----------------------------------------------------------------------------
(***************************************************************************)
(* II. What is edited is kept, in memory and in the file (ConfigEdits).    *)
(***************************************************************************)

AskedEdits == [adapter : Options \cup {NoAdapter}, links : SUBSET Links, removed : BOOLEAN]
Configurations == [conf : Sections, file : Sections, kind : {"osc", "midi", "hid"},
                   odd : BOOLEAN, forgot : BOOLEAN, asked : AskedEdits]
WebRequests == [pc : {"idle", "importing", "stopping", "supplementing", "syncing"},
                adapter : Options \cup {NoAdapter}, links : SUBSET Links, flag : BOOLEAN]

\* What one request after the other keeps, unless something happened that loses edits:
\* nobody but r awaits, and what r read before is what was asked for since.
OneAwaits == \A q, r \in Requests : web[q].pc # "idle" /\ web[r].pc # "idle" => q = r
AdapterKept ==
  /\ edits.file.adapter = edits.asked.adapter
  /\ edits.conf.adapter = edits.asked.adapter \/ (edits.kind = "hid" /\ \E r \in Requests : web[r].pc = "stopping")
  /\ \A r \in Requests :
       /\ web[r].pc = "stopping" /\ edits.kind = "hid" => edits.asked.adapter = NoAdapter /\ ~web[r].flag
       /\ web[r].pc = "syncing" => web[r].adapter = edits.asked.adapter /\ edits.kind = "osc"
LinksKept ==
  /\ \/ edits.conf.links = edits.asked.links /\ edits.file.links = edits.asked.links
     \/ \E r \in Requests : web[r].pc = "importing"
  /\ \A r \in Requests :
       web[r].pc = "importing" => web[r].links = edits.asked.links /\ edits.conf.device
RemovalKept ==
  edits.asked.removed /\ ~edits.forgot =>
    edits.conf.muted /\ ~edits.conf.device /\ edits.file.muted /\ ~edits.file.device
EditsKept == OneAwaits /\ AdapterKept /\ LinksKept /\ RemovalKept

EditsInv ==
  /\ edits \in Configurations /\ web \in [Requests -> WebRequests]
  /\ ~edits.odd => EditsKept

LEMMA EditsTyped == edits \in Configurations /\ web \in [Requests -> WebRequests] <=> EditsTypeOK
  BY DEF EditsTypeOK, Configurations, WebRequests, AskedEdits

LEMMA SavedFields ==
  ASSUME edits \in Configurations, NEW conf \in Sections, NEW names
  PROVE  /\ Saved(conf, names) \in Sections
         /\ Saved(conf, names).adapter = IF "adapter" \in names THEN conf.adapter ELSE edits.file.adapter
         /\ Saved(conf, names).device = IF "device" \in names THEN conf.device ELSE edits.file.device
         /\ Saved(conf, names).muted = IF "muted" \in names THEN conf.muted ELSE edits.file.muted
         /\ Saved(conf, names).links = IF "links" \in names THEN conf.links ELSE edits.file.links
<1>1. edits.file \in Sections BY DEF Configurations
<1>2. DOMAIN edits.file = {"adapter", "device", "muted", "links"} BY <1>1 DEF Sections
<1> DEFINE f == Saved(conf, names)
<1>3. f = [n \in {"adapter", "device", "muted", "links"} |-> IF n \in names THEN conf[n] ELSE edits.file[n]]
  BY <1>2 DEF Saved
<1>4. /\ f["adapter"] = IF "adapter" \in names THEN conf["adapter"] ELSE edits.file["adapter"]
      /\ f["device"] = IF "device" \in names THEN conf["device"] ELSE edits.file["device"]
      /\ f["muted"] = IF "muted" \in names THEN conf["muted"] ELSE edits.file["muted"]
      /\ f["links"] = IF "links" \in names THEN conf["links"] ELSE edits.file["links"]
  BY <1>3
<1>5. f = [adapter |-> f["adapter"], device |-> f["device"], muted |-> f["muted"], links |-> f["links"]]
  BY <1>3
<1>6. f \in Sections BY <1>1, <1>4, <1>5 DEF Sections
<1>7. QED BY <1>4, <1>6

\* An edit, field by field: when nothing was lost, it was made alone and saved.
EditMade(r, conf, names, asked) ==
  /\ edits' \in Configurations
  /\ edits'.conf = conf /\ edits'.asked = asked /\ edits'.kind = edits.kind
  /\ edits'.forgot = (edits.forgot \/ ("muted" \in names /\ edits.conf.muted /\ ~conf.muted /\ asked.removed))
  /\ ~edits'.odd =>
       /\ ~edits.odd /\ Alone(r)
       /\ edits'.file.adapter = IF "adapter" \in names THEN conf.adapter ELSE edits.file.adapter
       /\ edits'.file.device = IF "device" \in names THEN conf.device ELSE edits.file.device
       /\ edits'.file.muted = IF "muted" \in names THEN conf.muted ELSE edits.file.muted
       /\ edits'.file.links = IF "links" \in names THEN conf.links ELSE edits.file.links

LEMMA EditFields ==
  ASSUME edits \in Configurations, NEW r \in Requests, NEW conf \in Sections, NEW names,
         NEW asked \in AskedEdits, Edit(r, conf, names, asked)
  PROVE  EditMade(r, conf, names, asked)
<1> DEFINE late == "muted" \in names /\ edits.conf.muted /\ ~conf.muted /\ asked.removed
<1>1. PICK saved \in BOOLEAN : edits' = [edits EXCEPT
         !.conf = conf, !.file = IF saved THEN Saved(conf, names) ELSE @, !.asked = asked,
         !.odd = @ \/ ~saved \/ ~Alone(r), !.forgot = @ \/ late]
  BY DEF Edit
<1> DEFINE file == IF saved THEN Saved(conf, names) ELSE edits.file
           odd == edits.odd \/ ~saved \/ ~Alone(r)
           forgot == edits.forgot \/ late
<1>2. file \in Sections BY SavedFields DEF Configurations
<1>3. odd \in BOOLEAN /\ forgot \in BOOLEAN OBVIOUS
<1>4. edits' = [edits EXCEPT !.conf = conf, !.file = file, !.asked = asked, !.odd = odd, !.forgot = forgot]
  BY <1>1
<1>5. ~odd => ~edits.odd /\ saved /\ Alone(r) OBVIOUS
<1>6. saved => file = Saved(conf, names) OBVIOUS
<1>6a. forgot = (edits.forgot \/ ("muted" \in names /\ edits.conf.muted /\ ~conf.muted /\ asked.removed))
  OBVIOUS
<1> HIDE DEF file, odd, forgot, late
<1>7. /\ edits' \in Configurations /\ edits'.conf = conf /\ edits'.asked = asked
      /\ edits'.kind = edits.kind /\ edits'.file = file /\ edits'.odd = odd /\ edits'.forgot = forgot
  BY <1>2, <1>3, <1>4 DEF Configurations
<1>8. QED BY <1>5, <1>6, <1>6a, <1>7, SavedFields DEF EditMade

LEMMA Refused ==
  ASSUME edits \in Configurations, NEW conf \in Sections, Rejected(conf)
  PROVE  edits' \in Configurations /\ edits'.odd
BY DEF Rejected, Configurations

\* No request awaits: everything asked for is in memory and in the file.
LEMMA NobodyAwaits ==
  ASSUME EditsInv, ~edits.odd, NEW r \in Requests, web[r].pc = "idle", Alone(r)
  PROVE  /\ \A q \in Requests : web[q].pc = "idle"
         /\ edits.conf.adapter = edits.asked.adapter /\ edits.file.adapter = edits.asked.adapter
         /\ edits.conf.links = edits.asked.links /\ edits.file.links = edits.asked.links
         /\ RemovalKept
<1>1. \A q \in Requests : web[q].pc = "idle" BY DEF Alone
<1>2. QED BY <1>1 DEF EditsInv, EditsKept, AdapterKept, LinksKept

\* What r did keeps everything when nobody else awaits, and r reads nothing to write it
\* back later.
LEMMA SettledKeeps ==
  ASSUME NEW r \in Requests,
         edits' \in Configurations, web' \in [Requests -> WebRequests],
         ~edits'.odd =>
           /\ \A q \in Requests : q # r => web'[q].pc = "idle"
           /\ web'[r].pc \in {"idle", "supplementing"}
           /\ edits'.conf.adapter = edits'.asked.adapter /\ edits'.file.adapter = edits'.asked.adapter
           /\ edits'.conf.links = edits'.asked.links /\ edits'.file.links = edits'.asked.links
           /\ RemovalKept'
  PROVE  EditsInv'
<1>1. ASSUME ~edits'.odd PROVE OneAwaits' /\ AdapterKept' /\ LinksKept' /\ RemovalKept'
  BY <1>1 DEF OneAwaits, AdapterKept, LinksKept
<1>2. QED BY <1>1 DEF EditsInv, EditsKept

LEMMA AwaitFields ==
  ASSUME edits' \in Configurations, edits \in Configurations, web \in [Requests -> WebRequests],
         NEW r \in Requests, NEW pc \in {"idle", "importing", "stopping", "supplementing", "syncing"},
         NEW flag \in BOOLEAN, Await(r, pc, flag)
  PROVE  /\ web' \in [Requests -> WebRequests]
         /\ web'[r].pc = pc /\ web'[r].flag = flag
         /\ web'[r].adapter = edits.conf.adapter /\ web'[r].links = edits.conf.links
         /\ \A q \in Requests : q # r => web'[q] = web[q]
<1>1. edits.conf.adapter \in Options \cup {NoAdapter} /\ edits.conf.links \in SUBSET Links
  BY DEF Configurations, Sections
<1>2. QED BY <1>1 DEF Await, WebRequests

LEMMA DoneFields ==
  ASSUME web \in [Requests -> WebRequests], NEW r \in Requests, Done(r)
  PROVE  /\ web' \in [Requests -> WebRequests] /\ web'[r].pc = "idle"
         /\ \A q \in Requests : q # r => web'[q] = web[q]
<1>1. NoRequest \in WebRequests BY DEF NoRequest, WebRequests
<1>2. QED BY <1>1 DEF Done, NoRequest

LEMMA SupplementFields ==
  ASSUME edits \in Configurations, NEW r \in Requests,
         ThenSupplement(r), edits' \in Configurations, web \in [Requests -> WebRequests]
  PROVE  /\ web' \in [Requests -> WebRequests] /\ web'[r].pc \in {"idle", "supplementing"}
         /\ \A q \in Requests : q # r => web'[q] = web[q]
<1>1. CASE Await(r, "supplementing", FALSE) BY <1>1, AwaitFields
<1>2. CASE Done(r) BY <1>2, DoneFields
<1>3. QED BY <1>1, <1>2 DEF ThenSupplement

-----------------------------------------------------------------------------
(* Each request keeps the invariant. *)

LEMMA SetConnectionsKeeps ==
  ASSUME EditsInv, NEW r \in Requests, NEW links \in SUBSET Links, NEW settings \in BOOLEAN,
         SetConnections(r, links, settings)
  PROVE  EditsInv'
<1> DEFINE conf == [edits.conf EXCEPT !.links = links, !.muted = @ /\ ~settings]
           names == {"links"} \cup (IF settings THEN {"muted"} ELSE {})
           asked == [edits.asked EXCEPT !.links = links]
<1>1. /\ edits \in Configurations /\ web \in [Requests -> WebRequests] /\ web' = web
      /\ web[r].pc = "idle"
  BY DEF EditsInv, SetConnections
<1>2. /\ conf \in Sections /\ conf.links = links /\ conf.adapter = edits.conf.adapter
      /\ conf.device = edits.conf.device /\ conf.muted = (edits.conf.muted /\ ~settings)
  BY <1>1 DEF Configurations, Sections
<1>3. /\ asked \in AskedEdits /\ asked.links = links /\ asked.adapter = edits.asked.adapter
      /\ asked.removed = edits.asked.removed
  BY <1>1 DEF Configurations, AskedEdits
<1>4. /\ "adapter" \notin names /\ "device" \notin names /\ "links" \in names
      /\ "muted" \in names <=> settings
  OBVIOUS
<1>5. ~settings => edits.conf.muted = (edits.conf.muted /\ ~settings)
  BY <1>1 DEF Configurations, Sections
<1>6. CASE Edit(r, conf, names, asked)
  <2> HIDE DEF conf, names, asked
  <2>1. EditMade(r, conf, names, asked) BY <1>1, <1>2, <1>3, <1>6, EditFields
  <2>2. edits' \in Configurations BY <2>1 DEF EditMade
  <2>3. ASSUME ~edits'.odd
        PROVE  /\ \A q \in Requests : q # r => web'[q].pc = "idle"
               /\ web'[r].pc = "idle"
               /\ edits'.conf.adapter = edits'.asked.adapter /\ edits'.file.adapter = edits'.asked.adapter
               /\ edits'.conf.links = edits'.asked.links /\ edits'.file.links = edits'.asked.links
               /\ RemovalKept'
    <3>1. ~edits.odd /\ Alone(r) BY <2>1, <2>3 DEF EditMade
    <3>2. /\ \A q \in Requests : web[q].pc = "idle"
          /\ edits.conf.adapter = edits.asked.adapter /\ edits.file.adapter = edits.asked.adapter
          /\ RemovalKept
      BY <1>1, <3>1, NobodyAwaits
    <3>3. RemovalKept'
      BY <1>2, <1>3, <1>4, <1>5, <2>1, <2>3, <3>2 DEF EditMade, RemovalKept
    <3>4. QED BY <1>1, <1>2, <1>3, <1>4, <2>1, <2>3, <3>2, <3>3 DEF EditMade
  <2>4. QED BY <1>1, <2>2, <2>3, SettledKeeps
<1>7. CASE Rejected([edits.conf EXCEPT !.links = links])
  <2>1. [edits.conf EXCEPT !.links = links] \in Sections BY <1>1 DEF Configurations, Sections
  <2>2. edits' \in Configurations /\ edits'.odd BY <1>1, <1>7, <2>1, Refused
  <2>3. QED BY <1>1, <2>2 DEF EditsInv
<1>8. QED BY <1>6, <1>7 DEF SetConnections

LEMMA AddConnectionKeeps ==
  ASSUME EditsInv, NEW r \in Requests, NEW k \in Links, AddConnection(r, k)
  PROVE  EditsInv'
<1> DEFINE conf == [edits.conf EXCEPT !.links = @ \cup {k}]
           asked == [edits.asked EXCEPT !.links = @ \cup {k}]
<1>1. /\ edits \in Configurations /\ web \in [Requests -> WebRequests] /\ web' = web
      /\ web[r].pc = "idle" /\ Edit(r, conf, {"links"}, asked)
  BY DEF EditsInv, AddConnection
<1>2. /\ conf \in Sections /\ conf.links = edits.conf.links \cup {k} /\ conf.adapter = edits.conf.adapter
      /\ conf.device = edits.conf.device /\ conf.muted = edits.conf.muted
  BY <1>1 DEF Configurations, Sections
<1>3. /\ asked \in AskedEdits /\ asked.links = edits.asked.links \cup {k} /\ asked.adapter = edits.asked.adapter
      /\ asked.removed = edits.asked.removed
  BY <1>1 DEF Configurations, AskedEdits
<1> HIDE DEF conf, asked
<1>4. EditMade(r, conf, {"links"}, asked) BY <1>1, <1>2, <1>3, EditFields
<1>5. edits' \in Configurations BY <1>4 DEF EditMade
<1>6. ASSUME ~edits'.odd
      PROVE  /\ \A q \in Requests : q # r => web'[q].pc = "idle"
             /\ web'[r].pc = "idle"
             /\ edits'.conf.adapter = edits'.asked.adapter /\ edits'.file.adapter = edits'.asked.adapter
             /\ edits'.conf.links = edits'.asked.links /\ edits'.file.links = edits'.asked.links
             /\ RemovalKept'
  <2>1. ~edits.odd /\ Alone(r) BY <1>4, <1>6 DEF EditMade
  <2>2. /\ \A q \in Requests : web[q].pc = "idle"
        /\ edits.conf.adapter = edits.asked.adapter /\ edits.file.adapter = edits.asked.adapter
        /\ edits.conf.links = edits.asked.links
        /\ RemovalKept
    BY <1>1, <2>1, NobodyAwaits
  <2>3. RemovalKept' BY <1>2, <1>3, <1>4, <1>6, <2>2 DEF EditMade, RemovalKept
  <2>4. QED BY <1>1, <1>2, <1>3, <1>4, <1>6, <2>2, <2>3 DEF EditMade
<1>7. QED BY <1>1, <1>5, <1>6, SettledKeeps

LEMMA ImportBeginsKeeps ==
  ASSUME EditsInv, NEW r \in Requests, NEW k \in Links, NEW updated \in BOOLEAN,
         ImportBegins(r, k, updated)
  PROVE  EditsInv'
<1> DEFINE links == edits.conf.links \cup {k}
           odd == edits.odd \/ ~Alone(r)
           asked == [edits.asked EXCEPT !.links = @ \cup {k}]
<1>1. /\ edits \in Configurations /\ web \in [Requests -> WebRequests]
      /\ web[r].pc = "idle" /\ edits.conf.device
      /\ web' = [web EXCEPT ![r] = [NoRequest EXCEPT !.pc = "importing", !.flag = updated, !.links = links]]
      /\ edits' = [edits EXCEPT !.odd = odd, !.asked = asked]
  BY DEF EditsInv, ImportBegins
<1>2. links \in SUBSET Links /\ odd \in BOOLEAN /\ (~odd => ~edits.odd /\ Alone(r))
  BY <1>1 DEF Configurations, Sections
<1>3. /\ asked \in AskedEdits /\ asked.links = edits.asked.links \cup {k} /\ asked.adapter = edits.asked.adapter
      /\ asked.removed = edits.asked.removed
  BY <1>1 DEF Configurations, AskedEdits
<1>4. links = edits.conf.links \cup {k} OBVIOUS
<1> HIDE DEF links, odd, asked
<1>5. /\ edits' \in Configurations /\ edits'.odd = odd /\ edits'.asked = asked /\ edits'.conf = edits.conf
      /\ edits'.file = edits.file /\ edits'.kind = edits.kind /\ edits'.forgot = edits.forgot
  BY <1>1, <1>2, <1>3 DEF Configurations
<1>6. LET w == [NoRequest EXCEPT !.pc = "importing", !.flag = updated, !.links = links]
      IN  w \in WebRequests /\ w.pc = "importing" /\ w.links = links
  BY <1>2 DEF NoRequest, WebRequests
<1>7. /\ web' \in [Requests -> WebRequests] /\ web'[r].pc = "importing" /\ web'[r].links = links
      /\ \A q \in Requests : q # r => web'[q] = web[q]
  BY <1>1, <1>6
<1>8. ASSUME ~edits'.odd PROVE EditsKept'
  <2>1. ~edits.odd /\ Alone(r) BY <1>2, <1>5, <1>8
  <2>2. /\ \A q \in Requests : web[q].pc = "idle"
        /\ edits.conf.adapter = edits.asked.adapter /\ edits.file.adapter = edits.asked.adapter
        /\ edits.conf.links = edits.asked.links
        /\ RemovalKept
    BY <1>1, <2>1, NobodyAwaits
  <2>3. RemovalKept' BY <1>3, <1>5, <2>2 DEF RemovalKept
  <2>4. OneAwaits' /\ AdapterKept' BY <1>3, <1>5, <1>7, <2>2 DEF OneAwaits, AdapterKept
  <2>5. LinksKept'
    <3>1. edits'.conf.device /\ edits'.asked.links = links BY <1>1, <1>3, <1>4, <1>5, <2>2
    <3>2. QED BY <1>7, <2>2, <3>1 DEF LinksKept
  <2>6. QED BY <2>3, <2>4, <2>5 DEF EditsKept
<1>9. QED BY <1>5, <1>7, <1>8 DEF EditsInv

\* The request that awaits is the only one, and where it awaits.
LEMMA OnlyOneAwaits ==
  ASSUME EditsInv, ~edits.odd, NEW r \in Requests, web[r].pc # "idle"
  PROVE  /\ \A q \in Requests : q # r => web[q].pc = "idle"
         /\ web[r].pc # "importing" =>
              edits.conf.links = edits.asked.links /\ edits.file.links = edits.asked.links
         /\ web[r].pc # "stopping" => edits.conf.adapter = edits.asked.adapter
         /\ edits.file.adapter = edits.asked.adapter
         /\ RemovalKept
  BY DEF EditsInv, EditsKept, OneAwaits, AdapterKept, LinksKept

LEMMA ImportEndsKeeps ==
  ASSUME EditsInv, NEW r \in Requests, ImportEnds(r)
  PROVE  EditsInv'
<1> DEFINE links == web[r].links
           conf == [edits.conf EXCEPT !.links = links]
           file == [edits.file EXCEPT !.links = links, !.device = @ \/ web[r].flag]
<1>1. /\ edits \in Configurations /\ web \in [Requests -> WebRequests]
      /\ web[r].pc = "importing" /\ Done(r)
  BY DEF EditsInv, ImportEnds
<1>2. PICK saved \in BOOLEAN : edits' = [edits EXCEPT
         !.conf = conf, !.file = IF saved THEN file ELSE @, !.odd = @ \/ ~saved \/ ~Alone(r)]
  BY DEF ImportEnds
<1> DEFINE odd == edits.odd \/ ~saved \/ ~Alone(r)
           new == IF saved THEN file ELSE edits.file
<1>3. links \in SUBSET Links /\ web[r].flag \in BOOLEAN BY <1>1 DEF WebRequests
<1>4. /\ conf \in Sections /\ conf.links = links /\ conf.adapter = edits.conf.adapter
      /\ conf.device = edits.conf.device /\ conf.muted = edits.conf.muted
      /\ file \in Sections /\ file.links = links /\ file.adapter = edits.file.adapter
      /\ file.muted = edits.file.muted
  BY <1>1, <1>3 DEF Configurations, Sections
<1>5. odd \in BOOLEAN /\ (~odd => ~edits.odd /\ Alone(r) /\ new = file) /\ new \in Sections
  BY <1>1, <1>4 DEF Configurations
<1>6. edits' = [edits EXCEPT !.conf = conf, !.file = new, !.odd = odd] BY <1>2
<1>7. links = web[r].links OBVIOUS
<1> HIDE DEF links, conf, file, odd, new
<1>8. /\ edits' \in Configurations /\ edits'.odd = odd /\ edits'.asked = edits.asked /\ edits'.conf = conf
      /\ edits'.file = new /\ edits'.kind = edits.kind /\ edits'.forgot = edits.forgot
  BY <1>1, <1>4, <1>5, <1>6 DEF Configurations
<1>9. /\ web' \in [Requests -> WebRequests] /\ web'[r].pc = "idle"
      /\ \A q \in Requests : q # r => web'[q] = web[q]
  BY <1>1, DoneFields
<1>10. ASSUME ~edits'.odd
       PROVE  /\ \A q \in Requests : q # r => web'[q].pc = "idle"
              /\ web'[r].pc = "idle"
              /\ edits'.conf.adapter = edits'.asked.adapter /\ edits'.file.adapter = edits'.asked.adapter
              /\ edits'.conf.links = edits'.asked.links /\ edits'.file.links = edits'.asked.links
              /\ RemovalKept'
  <2>1. ~edits.odd /\ new = file BY <1>5, <1>8, <1>10
  <2>2. /\ \A q \in Requests : q # r => web[q].pc = "idle"
        /\ edits.conf.adapter = edits.asked.adapter /\ edits.file.adapter = edits.asked.adapter
        /\ RemovalKept
    BY <1>1, <2>1, OnlyOneAwaits
  <2>3. links = edits.asked.links /\ edits.conf.device
    BY <1>1, <1>7, <2>1 DEF EditsInv, EditsKept, LinksKept
  <2>4. RemovalKept' BY <1>8, <2>2, <2>3 DEF RemovalKept
  <2>5. QED BY <1>4, <1>8, <1>9, <2>1, <2>2, <2>3, <2>4
<1>11. QED BY <1>8, <1>9, <1>10, SettledKeeps

LEMMA SetDevicesKeeps ==
  ASSUME EditsInv, NEW r \in Requests, NEW keep \in BOOLEAN, SetDevices(r, keep)
  PROVE  EditsInv'
<1> DEFINE muted == Suppressed(edits.conf, keep)
           gone == ~keep /\ edits.conf.device /\ edits.conf.adapter # NoAdapter
           conf == [edits.conf EXCEPT !.device = keep, !.muted = muted]
           asked == [edits.asked EXCEPT !.removed = ~keep /\ (@ \/ gone)]
<1>1. /\ edits \in Configurations /\ web \in [Requests -> WebRequests]
      /\ web[r].pc = "idle" /\ Edit(r, conf, {"device", "muted"}, asked) /\ Await(r, "supplementing", FALSE)
  BY DEF EditsInv, SetDevices
<1>2. muted \in BOOLEAN /\ muted = (~keep /\ (edits.conf.muted \/ (edits.conf.device /\ edits.conf.adapter # NoAdapter)))
  BY DEF Suppressed
<1>3. /\ conf \in Sections /\ conf.links = edits.conf.links /\ conf.adapter = edits.conf.adapter
      /\ conf.device = keep
      /\ conf.muted = (~keep /\ (edits.conf.muted \/ (edits.conf.device /\ edits.conf.adapter # NoAdapter)))
  BY <1>1, <1>2 DEF Configurations, Sections
<1>4. /\ asked \in AskedEdits /\ asked.links = edits.asked.links /\ asked.adapter = edits.asked.adapter
      /\ asked.removed = (~keep /\ (edits.asked.removed \/ (edits.conf.device /\ edits.conf.adapter # NoAdapter)))
  BY <1>1 DEF Configurations, AskedEdits
<1> HIDE DEF conf, asked, muted, gone
<1>5. EditMade(r, conf, {"device", "muted"}, asked) BY <1>1, <1>3, <1>4, EditFields
<1>6. edits' \in Configurations BY <1>5 DEF EditMade
<1>7. /\ web' \in [Requests -> WebRequests] /\ web'[r].pc = "supplementing"
      /\ \A q \in Requests : q # r => web'[q] = web[q]
  BY <1>1, <1>6, AwaitFields
<1>8. ASSUME ~edits'.odd
      PROVE  /\ \A q \in Requests : q # r => web'[q].pc = "idle"
             /\ web'[r].pc = "supplementing"
             /\ edits'.conf.adapter = edits'.asked.adapter /\ edits'.file.adapter = edits'.asked.adapter
             /\ edits'.conf.links = edits'.asked.links /\ edits'.file.links = edits'.asked.links
             /\ RemovalKept'
  <2>1. ~edits.odd /\ Alone(r) BY <1>5, <1>8 DEF EditMade
  <2>2. /\ \A q \in Requests : web[q].pc = "idle"
        /\ edits.conf.adapter = edits.asked.adapter /\ edits.file.adapter = edits.asked.adapter
        /\ edits.conf.links = edits.asked.links /\ edits.file.links = edits.asked.links
        /\ RemovalKept
    BY <1>1, <2>1, NobodyAwaits
  <2>3. edits'.file.device = keep /\ edits'.file.muted = conf.muted /\ edits'.conf = conf
        /\ edits'.asked = asked /\ edits'.forgot = (edits.forgot \/ (edits.conf.muted /\ ~conf.muted /\ asked.removed))
    BY <1>3, <1>5, <1>8 DEF EditMade
  <2>4. RemovalKept' BY <1>3, <1>4, <2>2, <2>3 DEF RemovalKept
  <2>5. QED BY <1>3, <1>4, <1>5, <1>7, <1>8, <2>2, <2>4 DEF EditMade
<1>9. QED BY <1>6, <1>7, <1>8, SettledKeeps

LEMMA ImportDeviceKeeps ==
  ASSUME EditsInv, NEW r \in Requests, ImportDevice(r)
  PROVE  EditsInv'
<1> DEFINE conf == [edits.conf EXCEPT !.device = TRUE]
           asked == [edits.asked EXCEPT !.removed = FALSE]
<1>1. /\ edits \in Configurations /\ web \in [Requests -> WebRequests] /\ web' = web
      /\ web[r].pc = "idle" /\ Edit(r, conf, {"device"}, asked)
  BY DEF EditsInv, ImportDevice
<1>2. conf \in Sections /\ conf.links = edits.conf.links /\ conf.adapter = edits.conf.adapter
  BY <1>1 DEF Configurations, Sections
<1>3. /\ asked \in AskedEdits /\ asked.links = edits.asked.links /\ asked.adapter = edits.asked.adapter
      /\ ~asked.removed
  BY <1>1 DEF Configurations, AskedEdits
<1> HIDE DEF conf, asked
<1>4. EditMade(r, conf, {"device"}, asked) BY <1>1, <1>2, <1>3, EditFields
<1>5. edits' \in Configurations BY <1>4 DEF EditMade
<1>6. ASSUME ~edits'.odd
      PROVE  /\ \A q \in Requests : q # r => web'[q].pc = "idle"
             /\ web'[r].pc = "idle"
             /\ edits'.conf.adapter = edits'.asked.adapter /\ edits'.file.adapter = edits'.asked.adapter
             /\ edits'.conf.links = edits'.asked.links /\ edits'.file.links = edits'.asked.links
             /\ RemovalKept'
  <2>1. ~edits.odd /\ Alone(r) BY <1>4, <1>6 DEF EditMade
  <2>2. /\ \A q \in Requests : web[q].pc = "idle"
        /\ edits.conf.adapter = edits.asked.adapter /\ edits.file.adapter = edits.asked.adapter
        /\ edits.conf.links = edits.asked.links /\ edits.file.links = edits.asked.links
    BY <1>1, <2>1, NobodyAwaits
  <2>3. RemovalKept' BY <1>3, <1>4 DEF EditMade, RemovalKept
  <2>4. QED BY <1>1, <1>2, <1>3, <1>4, <1>6, <2>2, <2>3 DEF EditMade
<1>7. QED BY <1>1, <1>5, <1>6, SettledKeeps

LEMMA SetAdapterKeeps ==
  ASSUME EditsInv, NEW r \in Requests, NEW o \in Options, SetAdapter(r, o)
  PROVE  EditsInv'
<1> DEFINE conf == [edits.conf EXCEPT !.adapter = o]
           asked == [edits.asked EXCEPT !.adapter = o]
<1>1. edits \in Configurations /\ web \in [Requests -> WebRequests] /\ web[r].pc = "idle"
  BY DEF EditsInv, SetAdapter
<1>2. /\ conf \in Sections /\ conf.links = edits.conf.links /\ conf.adapter = o
      /\ conf.device = edits.conf.device /\ conf.muted = edits.conf.muted
  BY <1>1 DEF Configurations, Sections
<1>3. /\ asked \in AskedEdits /\ asked.links = edits.asked.links /\ asked.adapter = o
      /\ asked.removed = edits.asked.removed
  BY <1>1 DEF Configurations, AskedEdits
<1>4. (Edit(r, conf, {"adapter"}, asked) /\ ThenSupplement(r)) \/ (Rejected(conf) /\ web' = web)
  BY DEF SetAdapter
<1> HIDE DEF conf, asked
<1>5. CASE Edit(r, conf, {"adapter"}, asked) /\ ThenSupplement(r)
  <2>1. EditMade(r, conf, {"adapter"}, asked) BY <1>1, <1>2, <1>3, <1>5, EditFields
  <2>2. edits' \in Configurations BY <2>1 DEF EditMade
  <2>3. /\ web' \in [Requests -> WebRequests] /\ web'[r].pc \in {"idle", "supplementing"}
        /\ \A q \in Requests : q # r => web'[q] = web[q]
    BY <1>1, <1>5, <2>2, SupplementFields
  <2>4. ASSUME ~edits'.odd
        PROVE  /\ \A q \in Requests : q # r => web'[q].pc = "idle"
               /\ web'[r].pc \in {"idle", "supplementing"}
               /\ edits'.conf.adapter = edits'.asked.adapter /\ edits'.file.adapter = edits'.asked.adapter
               /\ edits'.conf.links = edits'.asked.links /\ edits'.file.links = edits'.asked.links
               /\ RemovalKept'
    <3>1. ~edits.odd /\ Alone(r) BY <2>1, <2>4 DEF EditMade
    <3>2. /\ \A q \in Requests : web[q].pc = "idle"
          /\ edits.conf.links = edits.asked.links /\ edits.file.links = edits.asked.links
          /\ RemovalKept
      BY <1>1, <3>1, NobodyAwaits
    <3>3. RemovalKept' BY <1>2, <1>3, <2>1, <2>4, <3>2 DEF EditMade, RemovalKept
    <3>4. QED BY <1>2, <1>3, <2>1, <2>3, <2>4, <3>2, <3>3 DEF EditMade
  <2>5. QED BY <2>2, <2>3, <2>4, SettledKeeps
<1>6. CASE Rejected(conf) /\ web' = web
  BY <1>1, <1>2, <1>6, Refused DEF EditsInv
<1>7. QED BY <1>4, <1>5, <1>6

\* The request that stops the adapter: nothing else awaits.  The file of a HID adapter
\* is written already.
LEMMA StoppingKeeps ==
  ASSUME EditsInv, NEW r \in Requests, web[r].pc = "idle", edits' \in Configurations,
         web' \in [Requests -> WebRequests], \A q \in Requests : q # r => web'[q] = web[q],
         web'[r].pc \in {"stopping", "syncing"},
         edits'.conf = edits.conf, edits'.kind = edits.kind, edits'.forgot = edits.forgot,
         edits'.asked.links = edits.asked.links, edits'.asked.removed = edits.asked.removed,
         edits'.file.links = edits.file.links, edits'.file.device = edits.file.device,
         edits'.file.muted = edits.file.muted,
         ~edits'.odd =>
           /\ ~edits.odd /\ Alone(r)
           /\ IF edits.kind = "hid"
              THEN /\ edits'.file.adapter = NoAdapter /\ edits'.asked.adapter = NoAdapter
                   /\ web'[r].pc = "stopping" /\ ~web'[r].flag
              ELSE /\ edits'.file.adapter = edits.file.adapter /\ edits'.asked.adapter = edits.asked.adapter
                   /\ web'[r].pc = "syncing" => web'[r].adapter = edits.conf.adapter /\ edits.kind = "osc"
  PROVE  EditsInv'
<1>1. ASSUME ~edits'.odd PROVE EditsKept'
  <2>1. ~edits.odd /\ Alone(r) BY <1>1
  <2>2. /\ \A q \in Requests : web[q].pc = "idle"
        /\ edits.conf.adapter = edits.asked.adapter /\ edits.file.adapter = edits.asked.adapter
        /\ edits.conf.links = edits.asked.links /\ edits.file.links = edits.asked.links
        /\ RemovalKept
    BY <2>1, NobodyAwaits
  <2>3. RemovalKept' BY <2>2 DEF RemovalKept
  <2>4. OneAwaits' BY <2>2 DEF OneAwaits
  <2>5. LinksKept' BY <2>2 DEF LinksKept
  <2>6. AdapterKept' BY <1>1, <2>2 DEF AdapterKept
  <2>7. QED BY <2>3, <2>4, <2>5, <2>6 DEF EditsKept
<1>2. QED BY <1>1 DEF EditsInv

LEMMA RemoveAdapterKeeps ==
  ASSUME EditsInv, NEW r \in Requests, NEW bad \in BOOLEAN, RemoveAdapter(r, bad)
  PROVE  EditsInv'
<1>1. /\ edits \in Configurations /\ web \in [Requests -> WebRequests] /\ web[r].pc = "idle"
      /\ Await(r, "stopping", bad)
  BY DEF EditsInv, RemoveAdapter
<1>2. CASE edits.kind = "hid"
  <2>1. ~bad BY <1>2 DEF RemoveAdapter
  <2>2. PICK saved \in BOOLEAN :
          edits' = [edits EXCEPT !.file.adapter = IF saved THEN NoAdapter ELSE @,
                                 !.asked.adapter = NoAdapter, !.odd = @ \/ ~saved \/ ~Alone(r)]
    BY <1>2 DEF RemoveAdapter
  <2> DEFINE odd == edits.odd \/ ~saved \/ ~Alone(r)
             file == [edits.file EXCEPT !.adapter = IF saved THEN NoAdapter ELSE @]
             asked == [edits.asked EXCEPT !.adapter = NoAdapter]
  <2>3. edits' = [edits EXCEPT !.file = file, !.asked = asked, !.odd = odd] BY <2>2
  <2>4. odd \in BOOLEAN /\ (~odd => ~edits.odd /\ saved /\ Alone(r)) OBVIOUS
  <2>5. /\ file \in Sections /\ file.links = edits.file.links /\ file.device = edits.file.device
        /\ file.muted = edits.file.muted /\ (saved => file.adapter = NoAdapter)
    BY <1>1 DEF Configurations, Sections
  <2>6. /\ asked \in AskedEdits /\ asked.links = edits.asked.links /\ asked.adapter = NoAdapter
        /\ asked.removed = edits.asked.removed
    BY <1>1 DEF Configurations, AskedEdits
  <2> HIDE DEF odd, file, asked
  <2>7. /\ edits' \in Configurations /\ edits'.conf = edits.conf /\ edits'.kind = edits.kind
        /\ edits'.forgot = edits.forgot /\ edits'.file = file /\ edits'.asked = asked /\ edits'.odd = odd
    BY <1>1, <2>3, <2>4, <2>5, <2>6 DEF Configurations
  <2>8. /\ web' \in [Requests -> WebRequests] /\ web'[r].pc = "stopping" /\ web'[r].flag = bad
        /\ \A q \in Requests : q # r => web'[q] = web[q]
    BY <1>1, <2>7, AwaitFields
  <2>9. QED BY <1>1, <1>2, <2>1, <2>4, <2>5, <2>6, <2>7, <2>8, StoppingKeeps
<1>3. CASE edits.kind # "hid"
  <2>1. edits' = [edits EXCEPT !.odd = @ \/ ~Alone(r)] BY <1>3 DEF RemoveAdapter
  <2>2. /\ edits' \in Configurations /\ edits'.conf = edits.conf /\ edits'.kind = edits.kind
        /\ edits'.forgot = edits.forgot /\ edits'.file = edits.file /\ edits'.asked = edits.asked
        /\ ~edits'.odd => ~edits.odd /\ Alone(r)
    BY <1>1, <2>1 DEF Configurations
  <2>3. /\ web' \in [Requests -> WebRequests] /\ web'[r].pc = "stopping"
        /\ \A q \in Requests : q # r => web'[q] = web[q]
    BY <1>1, <2>2, AwaitFields
  <2>4. QED BY <1>1, <1>3, <2>2, <2>3, StoppingKeeps
<1>4. QED BY <1>2, <1>3

LEMMA SyncBeginsKeeps ==
  ASSUME EditsInv, NEW r \in Requests, SyncBegins(r)
  PROVE  EditsInv'
<1>1. /\ edits \in Configurations /\ web \in [Requests -> WebRequests] /\ web[r].pc = "idle"
      /\ Await(r, "syncing", FALSE) /\ edits.kind = "osc"
      /\ edits' = [edits EXCEPT !.odd = @ \/ ~Alone(r)]
  BY DEF EditsInv, SyncBegins
<1>2. /\ edits' \in Configurations /\ edits'.conf = edits.conf /\ edits'.kind = edits.kind
      /\ edits'.forgot = edits.forgot /\ edits'.file = edits.file /\ edits'.asked = edits.asked
      /\ ~edits'.odd => ~edits.odd /\ Alone(r)
  BY <1>1 DEF Configurations
<1>3. /\ web' \in [Requests -> WebRequests] /\ web'[r].pc = "syncing"
      /\ web'[r].adapter = edits.conf.adapter
      /\ \A q \in Requests : q # r => web'[q] = web[q]
  BY <1>1, <1>2, AwaitFields
<1>4. QED BY <1>1, <1>2, <1>3, StoppingKeeps

LEMMA AdapterStoppedKeeps ==
  ASSUME EditsInv, NEW r \in Requests, AdapterStopped(r)
  PROVE  EditsInv'
<1> DEFINE conf == [edits.conf EXCEPT !.adapter = NoAdapter]
           asked == [edits.asked EXCEPT !.adapter = NoAdapter]
           names == IF edits.kind = "hid" THEN {} ELSE {"adapter"}
<1>1. edits \in Configurations /\ web \in [Requests -> WebRequests] /\ web[r].pc = "stopping"
  BY DEF EditsInv, AdapterStopped
<1>2. /\ conf \in Sections /\ conf.links = edits.conf.links /\ conf.adapter = NoAdapter
      /\ conf.device = edits.conf.device /\ conf.muted = edits.conf.muted
  BY <1>1 DEF Configurations, Sections
<1>3. /\ asked \in AskedEdits /\ asked.links = edits.asked.links /\ asked.adapter = NoAdapter
      /\ asked.removed = edits.asked.removed
  BY <1>1 DEF Configurations, AskedEdits
<1>4. IF web[r].flag THEN Rejected(conf) /\ Done(r)
      ELSE Edit(r, conf, names, asked) /\ ThenSupplement(r)
  BY DEF AdapterStopped
<1>5. /\ "links" \notin names /\ "device" \notin names /\ "muted" \notin names
      /\ "adapter" \in names <=> edits.kind # "hid"
  OBVIOUS
<1> HIDE DEF conf, asked, names
<1>6. CASE web[r].flag
  <2>1. edits' \in Configurations /\ edits'.odd BY <1>1, <1>2, <1>4, <1>6, Refused
  <2>2. web' \in [Requests -> WebRequests] BY <1>1, <1>4, <1>6, DoneFields
  <2>3. QED BY <2>1, <2>2 DEF EditsInv
<1>7. CASE ~web[r].flag
  <2>1. EditMade(r, conf, names, asked) BY <1>1, <1>2, <1>3, <1>4, <1>7, EditFields
  <2>2. edits' \in Configurations BY <2>1 DEF EditMade
  <2>3. /\ web' \in [Requests -> WebRequests] /\ web'[r].pc \in {"idle", "supplementing"}
        /\ \A q \in Requests : q # r => web'[q] = web[q]
    BY <1>1, <1>4, <1>7, <2>2, SupplementFields
  <2>4. ASSUME ~edits'.odd
        PROVE  /\ \A q \in Requests : q # r => web'[q].pc = "idle"
               /\ web'[r].pc \in {"idle", "supplementing"}
               /\ edits'.conf.adapter = edits'.asked.adapter /\ edits'.file.adapter = edits'.asked.adapter
               /\ edits'.conf.links = edits'.asked.links /\ edits'.file.links = edits'.asked.links
               /\ RemovalKept'
    <3>1. ~edits.odd /\ Alone(r) BY <2>1, <2>4 DEF EditMade
    <3>2. /\ \A q \in Requests : q # r => web[q].pc = "idle"
          /\ edits.conf.links = edits.asked.links /\ edits.file.links = edits.asked.links
          /\ edits.file.adapter = edits.asked.adapter
          /\ RemovalKept
      BY <1>1, <3>1, OnlyOneAwaits
    <3>3. edits.kind = "hid" => edits.asked.adapter = NoAdapter
      BY <1>1, <3>1 DEF EditsInv, EditsKept, AdapterKept
    <3>4. RemovalKept' BY <1>2, <1>3, <1>5, <2>1, <2>4, <3>2 DEF EditMade, RemovalKept
    <3>5. edits'.file.adapter = NoAdapter BY <1>2, <1>5, <2>1, <2>4, <3>2, <3>3 DEF EditMade
    <3>6. QED BY <1>2, <1>3, <1>5, <2>1, <2>3, <2>4, <3>2, <3>4, <3>5 DEF EditMade
  <2>5. QED BY <2>2, <2>3, <2>4, SettledKeeps
<1>8. QED BY <1>6, <1>7

LEMMA DeskBoundKeeps ==
  ASSUME EditsInv, NEW r \in Requests, DeskBound(r)
  PROVE  EditsInv'
<1> DEFINE conf == [edits.conf EXCEPT !.adapter = web[r].adapter]
<1>1. /\ edits \in Configurations /\ web \in [Requests -> WebRequests] /\ web[r].pc = "syncing"
      /\ Edit(r, conf, {"adapter"}, edits.asked) /\ Done(r)
  BY DEF EditsInv, DeskBound
<1>2. /\ conf \in Sections /\ conf.links = edits.conf.links /\ conf.adapter = web[r].adapter
      /\ conf.device = edits.conf.device /\ conf.muted = edits.conf.muted
      /\ edits.asked \in AskedEdits
  BY <1>1 DEF Configurations, Sections, WebRequests
<1> HIDE DEF conf
<1>3. EditMade(r, conf, {"adapter"}, edits.asked) BY <1>1, <1>2, EditFields
<1>4. edits' \in Configurations BY <1>3 DEF EditMade
<1>5. /\ web' \in [Requests -> WebRequests] /\ web'[r].pc = "idle"
      /\ \A q \in Requests : q # r => web'[q] = web[q]
  BY <1>1, DoneFields
<1>6. ASSUME ~edits'.odd
      PROVE  /\ \A q \in Requests : q # r => web'[q].pc = "idle"
             /\ web'[r].pc = "idle"
             /\ edits'.conf.adapter = edits'.asked.adapter /\ edits'.file.adapter = edits'.asked.adapter
             /\ edits'.conf.links = edits'.asked.links /\ edits'.file.links = edits'.asked.links
             /\ RemovalKept'
  <2>1. ~edits.odd /\ Alone(r) BY <1>3, <1>6 DEF EditMade
  <2>2. /\ \A q \in Requests : q # r => web[q].pc = "idle"
        /\ edits.conf.links = edits.asked.links /\ edits.file.links = edits.asked.links
        /\ RemovalKept
    BY <1>1, <2>1, OnlyOneAwaits
  <2>3. web[r].adapter = edits.asked.adapter BY <1>1, <2>1 DEF EditsInv, EditsKept, AdapterKept
  <2>4. RemovalKept' BY <1>2, <1>3, <1>6, <2>2 DEF EditMade, RemovalKept
  <2>5. QED BY <1>2, <1>3, <1>5, <1>6, <2>2, <2>3, <2>4 DEF EditMade
<1>7. QED BY <1>4, <1>5, <1>6, SettledKeeps

\* A device is given to an adapter that is not muted, whoever awaits.
LEMMA SupplementedKeeps ==
  ASSUME EditsInv, edits' = [edits EXCEPT !.conf = Supplemented(@)],
         web' = web \/ \E r \in Requests : web[r].pc = "supplementing" /\ Done(r)
  PROVE  EditsInv'
<1> DEFINE conf == Supplemented(edits.conf)
<1>1. edits \in Configurations /\ web \in [Requests -> WebRequests] BY DEF EditsInv
<1>2. /\ conf \in Sections /\ conf.links = edits.conf.links /\ conf.adapter = edits.conf.adapter
      /\ conf.muted = edits.conf.muted
      /\ conf.device = (edits.conf.device \/ (edits.conf.adapter # NoAdapter /\ ~edits.conf.muted))
  BY <1>1 DEF Configurations, Sections, Supplemented
<1>3. edits' = [edits EXCEPT !.conf = conf] OBVIOUS
<1> HIDE DEF conf
<1>4. /\ edits' \in Configurations /\ edits'.conf = conf /\ edits'.odd = edits.odd
      /\ edits'.file = edits.file /\ edits'.asked = edits.asked /\ edits'.kind = edits.kind
      /\ edits'.forgot = edits.forgot
  BY <1>1, <1>2, <1>3 DEF Configurations
<1>5. /\ web' \in [Requests -> WebRequests]
      /\ \A q \in Requests : web'[q] = web[q] \/ (web'[q].pc = "idle" /\ web[q].pc = "supplementing")
  <2>1. CASE web' = web BY <1>1, <2>1
  <2>2. ASSUME NEW r \in Requests, web[r].pc = "supplementing", Done(r)
        PROVE  /\ web' \in [Requests -> WebRequests] /\ web'[r].pc = "idle"
               /\ \A q \in Requests : q # r => web'[q] = web[q]
    BY <1>1, <2>2, DoneFields
  <2>3. QED BY <2>1, <2>2
<1>6. ASSUME ~edits'.odd PROVE EditsKept'
  <2>1. OneAwaits /\ AdapterKept /\ LinksKept /\ RemovalKept BY <1>4, <1>6 DEF EditsInv, EditsKept
  <2>2. OneAwaits' BY <1>5, <2>1 DEF OneAwaits
  <2>3. AdapterKept' BY <1>2, <1>4, <1>5, <2>1 DEF AdapterKept
  <2>4. LinksKept'
    <3>1. /\ edits'.conf.links = edits.conf.links /\ edits'.asked.links = edits.asked.links
          /\ edits'.file.links = edits.file.links /\ edits.conf.device => edits'.conf.device
      BY <1>2, <1>4
    <3>2. \A q \in Requests : web[q].pc = "importing" <=> web'[q].pc = "importing" BY <1>5
    <3>3. \A q \in Requests : web'[q].pc = "importing" => web'[q] = web[q] BY <1>5
    <3>4. QED BY <2>1, <3>1, <3>2, <3>3 DEF LinksKept
  <2>5. RemovalKept' BY <1>2, <1>4, <2>1 DEF RemovalKept
  <2>6. QED BY <2>2, <2>3, <2>4, <2>5 DEF EditsKept
<1>7. QED BY <1>4, <1>5, <1>6 DEF EditsInv

LEMMA ImportFileKeeps ==
  ASSUME EditsInv, ImportFile
  PROVE  EditsInv'
<1>1. edits \in Configurations /\ web \in [Requests -> WebRequests] /\ web' = web
  BY DEF EditsInv, ImportFile
<1>2. [adapter |-> NoAdapter, device |-> FALSE, muted |-> FALSE, links |-> {}] \in Sections
  BY DEF Sections
<1>3. edits' \in Configurations /\ edits'.odd BY <1>1, <1>2 DEF ImportFile, Configurations
<1>4. QED BY <1>1, <1>3 DEF EditsInv

LEMMA RestartKeeps ==
  ASSUME EditsInv, Restart
  PROVE  EditsInv'
<1> DEFINE conf == Loaded(edits.file)
           asked == [adapter |-> conf.adapter, links |-> conf.links,
                     removed |-> edits.asked.removed /\ edits.file.muted /\ ~edits.file.device]
           odd == conf.links # edits.file.links
<1>1. edits \in Configurations /\ web' = [r \in Requests |-> NoRequest]
  BY DEF EditsInv, Restart
<1>2. /\ conf \in Sections /\ conf.adapter = edits.file.adapter /\ conf.muted = edits.file.muted
      /\ edits.file.muted /\ ~edits.file.device => ~conf.device
  BY <1>1 DEF Configurations, Sections, Loaded, Supplemented
<1>3. /\ asked \in AskedEdits /\ asked.links = conf.links /\ asked.adapter = conf.adapter
      /\ asked.removed => edits.file.muted /\ ~edits.file.device
  BY <1>2 DEF AskedEdits, Sections
<1>4. edits' = [edits EXCEPT !.conf = conf, !.odd = odd, !.forgot = FALSE, !.asked = asked]
  BY DEF Restart
<1>5. odd \in BOOLEAN /\ (~odd => conf.links = edits.file.links) OBVIOUS
<1> HIDE DEF conf, asked, odd
<1>6. /\ edits' \in Configurations /\ edits'.conf = conf /\ edits'.odd = odd
      /\ edits'.file = edits.file /\ edits'.asked = asked
  BY <1>1, <1>2, <1>3, <1>4, <1>5 DEF Configurations
<1>7. /\ web' \in [Requests -> WebRequests] /\ \A r \in Requests : web'[r].pc = "idle"
  BY <1>1 DEF NoRequest, WebRequests
<1>8. ASSUME ~edits'.odd PROVE EditsKept'
  <2>1. OneAwaits' BY <1>7 DEF OneAwaits
  <2>2. AdapterKept' BY <1>2, <1>3, <1>6, <1>7 DEF AdapterKept
  <2>3. LinksKept' BY <1>3, <1>5, <1>6, <1>7, <1>8 DEF LinksKept
  <2>4. RemovalKept' BY <1>2, <1>3, <1>6 DEF RemovalKept
  <2>5. QED BY <2>1, <2>2, <2>3, <2>4 DEF EditsKept
<1>9. QED BY <1>6, <1>7, <1>8 DEF EditsInv

LEMMA EditsInvInit == EditsInit => EditsInv
<1> SUFFICES ASSUME EditsInit PROVE EditsInv OBVIOUS
<1>1. PICK o \in Options, kind \in {"osc", "midi", "hid"} :
        LET s == [adapter |-> o, device |-> TRUE, muted |-> FALSE, links |-> {}]
        IN edits = [conf |-> s, file |-> s, kind |-> kind, odd |-> FALSE, forgot |-> FALSE,
                    asked |-> [adapter |-> o, links |-> {}, removed |-> FALSE]]
  BY DEF EditsInit
<1>2. edits \in Configurations BY <1>1 DEF Configurations, Sections, AskedEdits
<1>3. web \in [Requests -> WebRequests] /\ \A r \in Requests : web[r].pc = "idle"
  BY DEF EditsInit, NoRequest, WebRequests
<1>4. EditsKept BY <1>1, <1>3 DEF EditsKept, OneAwaits, AdapterKept, LinksKept, RemovalKept
<1>5. QED BY <1>2, <1>3, <1>4 DEF EditsInv

LEMMA EditsInvNext == EditsInv /\ [EditsRuns \/ EditsWorld]_editsVars => EditsInv'
<1> SUFFICES ASSUME EditsInv, [EditsRuns \/ EditsWorld]_editsVars PROVE EditsInv' OBVIOUS
<1>1. CASE UNCHANGED editsVars
  BY <1>1 DEF editsVars, EditsInv, EditsKept, OneAwaits, AdapterKept, LinksKept, RemovalKept
<1>2. ASSUME NEW r \in Requests, ImportEnds(r) PROVE EditsInv' BY <1>2, ImportEndsKeeps
<1>3. ASSUME NEW r \in Requests, AdapterStopped(r) PROVE EditsInv' BY <1>3, AdapterStoppedKeeps
<1>4. ASSUME NEW r \in Requests, Supplements(r) PROVE EditsInv'
  BY <1>4, SupplementedKeeps DEF Supplements
<1>5. ASSUME NEW r \in Requests, DeskBound(r) PROVE EditsInv' BY <1>5, DeskBoundKeeps
<1>6. ASSUME NEW r \in Requests, NEW links \in SUBSET Links, NEW settings \in BOOLEAN,
             SetConnections(r, links, settings)
      PROVE  EditsInv'
  BY <1>6, SetConnectionsKeeps
<1>7. ASSUME NEW r \in Requests, NEW k \in Links, AddConnection(r, k) PROVE EditsInv'
  BY <1>7, AddConnectionKeeps
<1>8. ASSUME NEW r \in Requests, NEW k \in Links, NEW updated \in BOOLEAN, ImportBegins(r, k, updated)
      PROVE  EditsInv'
  BY <1>8, ImportBeginsKeeps
<1>9. ASSUME NEW r \in Requests, NEW b \in BOOLEAN, SetDevices(r, b) PROVE EditsInv'
  BY <1>9, SetDevicesKeeps
<1>10. ASSUME NEW r \in Requests, NEW b \in BOOLEAN, RemoveAdapter(r, b) PROVE EditsInv'
  BY <1>10, RemoveAdapterKeeps
<1>11. ASSUME NEW r \in Requests, NEW o \in Options, SetAdapter(r, o) PROVE EditsInv'
  BY <1>11, SetAdapterKeeps
<1>12. ASSUME NEW r \in Requests, ImportDevice(r) PROVE EditsInv' BY <1>12, ImportDeviceKeeps
<1>13. ASSUME NEW r \in Requests, SyncBegins(r) PROVE EditsInv' BY <1>13, SyncBeginsKeeps
<1>14. CASE ListDevices BY <1>14, SupplementedKeeps DEF ListDevices
<1>15. CASE ImportFile BY <1>15, ImportFileKeeps
<1>16. CASE Restart BY <1>16, RestartKeeps
<1>17. CASE EditsRuns BY <1>2, <1>3, <1>4, <1>5, <1>17 DEF EditsRuns
<1>18. CASE EditsWorld
  BY <1>6, <1>7, <1>8, <1>9, <1>10, <1>11, <1>12, <1>13, <1>14, <1>15, <1>16, <1>18 DEF EditsWorld
<1>19. QED BY <1>1, <1>17, <1>18

LEMMA EditsInvKeeps == EditsInv => SavesAreKept
<1> SUFFICES ASSUME EditsInv, AtRest, ~edits.odd
             PROVE  /\ edits.conf.adapter = edits.asked.adapter
                    /\ edits.conf.links = edits.asked.links
                    /\ edits.asked.removed /\ ~edits.forgot => ~edits.conf.device
                    /\ Loaded(edits.file).adapter = edits.asked.adapter
                    /\ Loaded(edits.file).device => Loaded(edits.file).links = edits.asked.links
                    /\ edits.asked.removed /\ ~edits.forgot => ~Loaded(edits.file).device
  BY DEF SavesAreKept
<1>1. edits.file \in Sections BY DEF EditsInv, Configurations
<1>2. /\ edits.conf.adapter = edits.asked.adapter /\ edits.file.adapter = edits.asked.adapter
      /\ edits.conf.links = edits.asked.links /\ edits.file.links = edits.asked.links
      /\ RemovalKept
  BY DEF EditsInv, EditsKept, AdapterKept, LinksKept, AtRest
<1>3. /\ Loaded(edits.file).adapter = edits.file.adapter
      /\ Loaded(edits.file).device => Loaded(edits.file).links = edits.file.links
      /\ edits.file.muted /\ ~edits.file.device => ~Loaded(edits.file).device
  BY <1>1 DEF Loaded, Supplemented, Sections
<1>4. QED BY <1>2, <1>3 DEF RemovalKept

\* One request after the other keeps what was asked for, in memory and in the file, and
\* knows while it awaits what was asked for since (web/server.py).
THEOREM EditsInvariant == EditsSpec => []EditsInv
  BY EditsInvInit, EditsInvNext, PTL DEF EditsSpec

\* The variables of the edits keep their types.
THEOREM EditsTypeCorrect == EditsSpec => []EditsTypeOK
<1>1. EditsInv => EditsTypeOK BY EditsTyped DEF EditsInv
<1>2. QED BY <1>1, EditsInvariant, PTL

-----------------------------------------------------------------------------
(***************************************************************************)
(* III. Lists of connections have each source once, wherever they are      *)
(* (ConnectionEditors).                                                    *)
(***************************************************************************)

MaybeEnd == Ends \cup {Unset}

\* A stored list has one connection of each source, and so one of each pair.
SourcesOnce(L) == \A c, d \in L : c.source = d.source => c = d
PairsOnce(L) == \A c, d \in L : PairOf(c) = PairOf(d) => c = d
Lists == {L \in SUBSET Connections : SourcesOnce(L)}
ShortLists == {L \in Lists : \A c \in L : Len(c.id) < 2 + MaxReversals}
Routable == [id : Seq(Ends) \cup ({"default"} \X Pairs), source : Ends, target : Ends, on : BOOLEAN]

Hubs == [list : Lists, learn : BOOLEAN, source : MaybeEnd, routed : SUBSET Routable, settings : Setups]
Statuses == [list : Lists, learn : BOOLEAN, source : MaybeEnd]
Exchanges ==
  [pc : {"none", "posted", "merging", "answered"}, list : Lists] \cup
  [pc : {"reversing"}, list : ShortLists] \cup
  [pc : {"told"}, list : Lists, learn : BOOLEAN, source : MaybeEnd]
Pages == [list : Lists, learn : BOOLEAN, told : MaybeEnd, last : MaybeEnd, shows : MaybeEnd,
          loaded : BOOLEAN, missed : BOOLEAN, wire : Seq(Statuses), http : Exchanges, stale : BOOLEAN]

\* Every list that is stored, shown or on its way has each source once, and the graph
\* routes each pair once.
EditorsInv == hub \in Hubs /\ PairsOnce(hub.routed) /\ page \in [Editors -> Pages]

-----------------------------------------------------------------------------
(* Lists. *)

LEMMA PairFacts ==
  ASSUME NEW p \in Pairs
  PROVE  p[1] \in Ends /\ p[2] \in Ends /\ p = <<p[1], p[2]>> /\ p \in Ids
<1>1. p \in Ends \X Ends BY DEF Pairs
<1>2. p[1] \in Ends /\ p[2] \in Ends /\ p = <<p[1], p[2]>> BY <1>1
<1>3. p \in [1 .. 2 -> Ends] BY <1>2
<1>4. 2 \in 2 .. 2 + MaxReversals BY EditorsAssumption
<1>5. QED BY <1>2, <1>3, <1>4 DEF Ids

\* an id is a sequence of ends, that reversing makes longer by one
LEMMA IdFacts ==
  /\ Ids \subseteq Seq(Ends)
  /\ \A id \in Ids, e \in Ends : Len(id) < 2 + MaxReversals => Append(id, e) \in Ids
<1>1. ASSUME NEW id \in Ids
      PROVE  /\ id \in Seq(Ends)
             /\ \A e \in Ends : Len(id) < 2 + MaxReversals => Append(id, e) \in Ids
  <2>1. PICK n \in 2 .. 2 + MaxReversals : id \in [1 .. n -> Ends] BY DEF Ids
  <2>2. n \in Nat BY <2>1, EditorsAssumption
  <2>3. id \in Seq(Ends) /\ Len(id) = n BY <2>1, <2>2
  <2>4. ASSUME NEW e \in Ends, n < 2 + MaxReversals PROVE Append(id, e) \in Ids
    <3>1. Append(id, e) \in Seq(Ends) /\ Len(Append(id, e)) = n + 1 BY <2>3
    <3>2. Append(id, e) \in [1 .. Len(Append(id, e)) -> Ends] BY <3>1, LenProperties
    <3>3. n + 1 \in 2 .. 2 + MaxReversals BY <2>1, <2>2, <2>4, EditorsAssumption
    <3>4. QED BY <3>1, <3>2, <3>3 DEF Ids
  <2>5. QED BY <2>3, <2>4
<1>2. QED BY <1>1

LEMMA ConnectionFacts ==
  ASSUME NEW p \in Pairs, NEW id \in Ids
  PROVE  Connection(id, p) \in Connections /\ Connection(id, p).source = p[1]
  BY PairFacts DEF Connection, Connections

LEMMA UpsertKeeps ==
  ASSUME NEW L \in Lists, NEW c \in Connections
  PROVE  Upsert(L, c) \in Lists
  BY DEF Upsert, Lists, SourcesOnce

LEMMA SinglesAreLists ==
  /\ {} \in Lists
  /\ \A c \in Connections : {c} \in Lists
  BY DEF Lists, SourcesOnce

LEMMA MergeKeeps ==
  ASSUME NEW L \in SUBSET Routable, PairsOnce(L), NEW P \in SUBSET Pairs
  PROVE  Merge(L, P) \in SUBSET Routable /\ PairsOnce(Merge(L, P))
<1> DEFINE added == P \ {PairOf(c) : c \in L}
           D(p) == Connection(<<"default", p>>, p)
<1>1. ASSUME NEW p \in Pairs
      PROVE  D(p) \in Routable /\ PairOf(D(p)) = p
  <2>1. p[1] \in Ends /\ p[2] \in Ends /\ p = <<p[1], p[2]>> BY PairFacts
  <2>2. <<"default", p>> \in {"default"} \X Pairs OBVIOUS
  <2>3. QED BY <2>1, <2>2 DEF Connection, Routable, PairOf
<1>2. Merge(L, P) = L \cup {D(p) : p \in added} BY DEF Merge
<1> HIDE DEF D
<1>3. Merge(L, P) \in SUBSET Routable BY <1>1, <1>2
<1>4. ASSUME NEW c \in Merge(L, P), NEW d \in Merge(L, P), PairOf(c) = PairOf(d)
      PROVE  c = d
  <2>1. CASE c \in L /\ d \in L BY <1>4, <2>1 DEF PairsOnce
  <2>2. CASE c \in L /\ d \notin L BY <1>1, <1>2, <1>4, <2>2
  <2>3. CASE c \notin L /\ d \in L BY <1>1, <1>2, <1>4, <2>3
  <2>4. CASE c \notin L /\ d \notin L
    <3>1. PICK p \in added : c = D(p) BY <1>2, <2>4
    <3>2. PICK q \in added : d = D(q) BY <1>2, <2>4
    <3>3. QED BY <1>1, <1>4, <3>1, <3>2
  <2>5. QED BY <2>1, <2>2, <2>3, <2>4
<1>5. QED BY <1>3, <1>4 DEF PairsOnce

LEMMA EffectiveKeeps ==
  ASSUME NEW L \in Lists, NEW s
  PROVE  Effective(L, s) \in SUBSET Routable /\ PairsOnce(Effective(L, s))
<1>1. ClockDefaults(s) \in SUBSET Pairs /\ ModuleDefaults(s) \in SUBSET Pairs /\ DisplayDefaults(s) \in SUBSET Pairs
  BY EditorsAssumption DEF ClockDefaults, ModuleDefaults, DisplayDefaults
<1>2. L \in SUBSET Routable BY IdFacts DEF Lists, Connections, Routable
<1>3. PairsOnce(L) BY DEF Lists, SourcesOnce, PairsOnce, PairOf
<1> DEFINE M == Merge(L, ClockDefaults(s))
           N == Merge(M, ModuleDefaults(s))
<1>4. M \in SUBSET Routable /\ PairsOnce(M) BY <1>1, <1>2, <1>3, MergeKeeps
<1> HIDE DEF M
<1>5. N \in SUBSET Routable /\ PairsOnce(N) BY <1>1, <1>4, MergeKeeps
<1> HIDE DEF N
<1>6. Merge(N, DisplayDefaults(s)) \in SUBSET Routable /\ PairsOnce(Merge(N, DisplayDefaults(s)))
  BY <1>1, <1>5, MergeKeeps
<1>7. Effective(L, s) = Merge(N, DisplayDefaults(s)) BY DEF Effective, M, N
<1>8. QED BY <1>6, <1>7

LEMMA ApplyingKeeps ==
  ASSUME hub \in Hubs, NEW L \in Lists
  PROVE  /\ Applying(L) \in Hubs /\ PairsOnce(Applying(L).routed)
         /\ Applying(L).list = L /\ Applying(L).learn = hub.learn /\ Applying(L).source = hub.source
<1> DEFINE E == Effective(L, hub.settings)
           R == {c \in E : c.on}
<1>1. E \in SUBSET Routable /\ PairsOnce(E) BY EffectiveKeeps
<1>2. R \in SUBSET Routable /\ PairsOnce(R) BY <1>1 DEF PairsOnce
<1>3. Applying(L) = [hub EXCEPT !.list = L, !.routed = R] BY DEF Applying
<1> HIDE DEF E, R
<1>4. QED BY <1>2, <1>3 DEF Hubs

-----------------------------------------------------------------------------
(* Pages. *)

LEMMA PageSteps ==
  ASSUME NEW p \in Pages
  PROVE  /\ p.list \in Lists /\ p.told \in MaybeEnd /\ p.last \in MaybeEnd /\ p.shows \in MaybeEnd
         /\ p.wire \in Seq(Statuses) /\ p.http \in Exchanges /\ p.http.list \in Lists
         /\ \A e \in MaybeEnd : [p EXCEPT !.shows = e] \in Pages
         /\ \A e \in MaybeEnd : [p EXCEPT !.last = e] \in Pages
         /\ \A e \in MaybeEnd : [p EXCEPT !.shows = e, !.missed = FALSE] \in Pages
         /\ \A e, f \in MaybeEnd : [p EXCEPT !.shows = e, !.last = f] \in Pages
         /\ \A e, f \in MaybeEnd : [p EXCEPT !.shows = e, !.last = f, !.missed = FALSE] \in Pages
         /\ [p EXCEPT !.missed = TRUE] \in Pages
         /\ [p EXCEPT !.loaded = TRUE] \in Pages
         /\ [p EXCEPT !.stale = TRUE] \in Pages
         /\ \A L \in Lists, on \in BOOLEAN, e \in MaybeEnd :
              [p EXCEPT !.list = L, !.learn = on, !.told = e] \in Pages
         /\ \A x \in Exchanges : [p EXCEPT !.http = x] \in Pages
         /\ \A w \in Seq(Statuses) : [p EXCEPT !.wire = w] \in Pages
         /\ \A w \in Seq(Statuses), b \in BOOLEAN : [p EXCEPT !.wire = w, !.stale = b] \in Pages
         /\ \A L \in Lists, x \in Exchanges, b \in BOOLEAN :
              [p EXCEPT !.list = L, !.http = x, !.stale = b] \in Pages
<1>1. p.http.list \in Lists BY DEF Pages, Exchanges, ShortLists
<1>2. QED BY <1>1 DEF Pages

LEMMA ShownKeeps ==
  ASSUME NEW p \in Pages, NEW e \in MaybeEnd
  PROVE  Shown(p, e) \in Pages
  BY PageSteps DEF Shown

LEMMA SyncSourceKeeps ==
  ASSUME NEW p \in Pages, NEW e \in MaybeEnd
  PROVE  SyncSource(p, e) \in Pages
  BY PageSteps, ShownKeeps DEF SyncSource

LEMMA RenderKeeps ==
  ASSUME NEW p \in Pages, NEW s, s.list \in Lists, s.learn \in BOOLEAN, s.source \in MaybeEnd
  PROVE  RenderStatus(p, s) \in Pages
<1> DEFINE q == [p EXCEPT !.list = s.list, !.learn = s.learn, !.told = s.source]
<1>1. q \in Pages BY PageSteps
<1>2. RenderStatus(p, s) = IF s.learn THEN SyncSource(q, s.source)
                           ELSE [q EXCEPT !.shows = Unset, !.last = Unset, !.missed = FALSE]
  BY DEF RenderStatus
<1> HIDE DEF q
<1>3. SyncSource(q, s.source) \in Pages BY <1>1, SyncSourceKeeps
<1>4. Unset \in MaybeEnd BY DEF MaybeEnd
<1>5. [q EXCEPT !.shows = Unset, !.last = Unset, !.missed = FALSE] \in Pages BY <1>1, <1>4, PageSteps
<1>6. QED BY <1>2, <1>3, <1>5

LEMMA StatusKeeps ==
  ASSUME NEW h \in Hubs
  PROVE  StatusOf(h) \in Statuses /\ \A w \in Seq(Statuses) : Append(w, StatusOf(h)) \in Seq(Statuses)
<1>1. StatusOf(h) \in Statuses BY DEF StatusOf, Statuses, Hubs
<1>2. QED BY <1>1

-----------------------------------------------------------------------------
(* Steps: a change that is announced, one that is answered, and one of a page. *)

LEMMA AnnounceKeeps ==
  ASSUME EditorsInv, NEW b \in Editors, NEW h \in Hubs, PairsOnce(h.routed), NEW p \in Pages,
         Announce(h, b, p)
  PROVE  EditorsInv'
<1>1. hub' = h BY DEF Announce
<1>2. ASSUME NEW e \in Editors
      PROVE  LET q == IF e = b THEN p ELSE page[e]
             IN  [q EXCEPT !.wire = Append(@, StatusOf(h)), !.stale = q.http.pc = "told"] \in Pages
  <2> DEFINE q == IF e = b THEN p ELSE page[e]
  <2>1. q \in Pages BY DEF EditorsInv
  <2> HIDE DEF q
  <2>2. q.wire \in Seq(Statuses) BY <2>1, PageSteps
  <2>3. Append(q.wire, StatusOf(h)) \in Seq(Statuses) BY <2>2, StatusKeeps
  <2>4. (q.http.pc = "told") \in BOOLEAN OBVIOUS
  <2>5. [q EXCEPT !.wire = Append(q.wire, StatusOf(h)), !.stale = (q.http.pc = "told")] \in Pages
    BY <2>1, <2>3, <2>4, PageSteps
  <2>6. QED BY <2>5 DEF q
<1>3. page' \in [Editors -> Pages] BY <1>2 DEF Announce
<1>4. QED BY <1>1, <1>3 DEF EditorsInv

LEMMA AnswerKeeps ==
  ASSUME EditorsInv, NEW b \in Editors, NEW h \in Hubs, PairsOnce(h.routed), Answer(b, h)
  PROVE  EditorsInv'
<1>1. hub' = h BY DEF Answer
<1>2. [pc |-> "answered", list |-> h.list] \in Exchanges BY DEF Hubs, Exchanges
<1>3. \A e \in Editors : /\ [page[e] EXCEPT !.http = [pc |-> "answered", list |-> h.list]] \in Pages
                         /\ [page[e] EXCEPT !.stale = TRUE] \in Pages
  BY <1>2, PageSteps DEF EditorsInv
<1>4. page' \in [Editors -> Pages] BY <1>3 DEF Answer
<1>5. QED BY <1>1, <1>4 DEF EditorsInv

LEMMA PageKeeps ==
  ASSUME EditorsInv, NEW b \in Editors, NEW p \in Pages, page' = [page EXCEPT ![b] = p], hub' = hub
  PROVE  EditorsInv'
  BY DEF EditorsInv

LEMMA PostKeeps ==
  ASSUME EditorsInv, NEW b \in Editors, NEW pc \in {"posted", "reversing", "merging"},
         NEW L \in Lists, pc = "reversing" => L \in ShortLists, Post(b, pc, L)
  PROVE  EditorsInv'
<1>1. [pc |-> pc, list |-> L] \in Exchanges BY DEF Exchanges
<1>2. [page[b] EXCEPT !.http = [pc |-> pc, list |-> L]] \in Pages BY <1>1, PageSteps DEF EditorsInv
<1>3. QED BY <1>2, PageKeeps DEF Post

-----------------------------------------------------------------------------
(* Each action keeps the invariant. *)

LEMMA EditorsTyped ==
  ASSUME EditorsInv
  PROVE  /\ hub \in Hubs /\ PairsOnce(hub.routed) /\ hub.list \in Lists /\ hub.learn \in BOOLEAN
         /\ hub.source \in MaybeEnd
         /\ \A b \in Editors : page[b] \in Pages /\ page[b].list \in Lists /\ page[b].http.list \in Lists
         /\ Unset \in MaybeEnd
  BY PageSteps DEF EditorsInv, Hubs, MaybeEnd

LEMMA StatusArrivesKeeps ==
  ASSUME EditorsInv, NEW b \in Editors, StatusArrives(b)
  PROVE  EditorsInv'
<1> DEFINE s == Head(page[b].wire)
           q == RenderStatus(page[b], s)
<1>1. page[b] \in Pages /\ page[b].wire \in Seq(Statuses) /\ page[b].wire # <<>>
  BY PageSteps DEF EditorsInv, StatusArrives
<1>2. s \in Statuses /\ Tail(page[b].wire) \in Seq(Statuses) BY <1>1
<1>3. s.list \in Lists /\ s.learn \in BOOLEAN /\ s.source \in MaybeEnd BY <1>2 DEF Statuses
<1>4. q \in Pages BY <1>1, <1>3, RenderKeeps
<1>5. page' = [page EXCEPT ![b] = [q EXCEPT !.wire = Tail(page[b].wire)]] /\ hub' = hub
  BY DEF StatusArrives
<1> HIDE DEF q
<1>6. [q EXCEPT !.wire = Tail(page[b].wire)] \in Pages BY <1>2, <1>4, PageSteps
<1>7. QED BY <1>5, <1>6, PageKeeps

LEMMA DatapointsLoadedKeeps ==
  ASSUME EditorsInv, NEW b \in Editors, DatapointsLoaded(b)
  PROVE  EditorsInv'
<1>1. page[b] \in Pages /\ page[b].told \in MaybeEnd BY EditorsTyped, PageSteps
<1>2. [page[b] EXCEPT !.loaded = TRUE] \in Pages BY <1>1, PageSteps
<1>3. SyncSource([page[b] EXCEPT !.loaded = TRUE], page[b].told) \in Pages BY <1>1, <1>2, SyncSourceKeeps
<1>4. QED BY <1>3, PageKeeps DEF DatapointsLoaded

LEMMA LearnKeeps ==
  ASSUME EditorsInv
  PROVE  /\ \A on \in BOOLEAN : LearnSet(on) \in Hubs /\ LearnSet(on).routed = hub.routed
         /\ SourceCleared \in Hubs /\ SourceCleared.routed = hub.routed
         /\ \A e \in MaybeEnd : SourceSelected(e) \in Hubs /\ SourceSelected(e).routed = hub.routed
  BY EditorsTyped DEF LearnSet, SourceCleared, SourceSelected, Hubs

LEMMA LearnToggleKeeps ==
  ASSUME EditorsInv, NEW b \in Editors, LearnToggle(b)
  PROVE  EditorsInv'
<1> DEFINE on == ~page[b].learn
           p == IF on THEN [page[b] EXCEPT !.last = Unset] ELSE page[b]
<1>1. on \in BOOLEAN OBVIOUS
<1>2. p \in Pages BY EditorsTyped, PageSteps
<1>3. Announce(LearnSet(on), b, p) BY DEF LearnToggle
<1> HIDE DEF on, p
<1>4. LearnSet(on) \in Hubs /\ PairsOnce(LearnSet(on).routed) BY <1>1, LearnKeeps, EditorsTyped
<1>5. QED BY <1>2, <1>3, <1>4, AnnounceKeeps

LEMMA SelectLearnSourceKeeps ==
  ASSUME EditorsInv, NEW b \in Editors, NEW e \in Ends, SelectLearnSource(b, e)
  PROVE  EditorsInv'
<1> DEFINE p == [page[b] EXCEPT !.shows = e]
<1>1. e \in MaybeEnd BY DEF MaybeEnd
<1>2. p \in Pages BY <1>1, EditorsTyped, PageSteps
<1>3. IF hub.learn THEN Announce(SourceSelected(e), b, p)
      ELSE page' = [page EXCEPT ![b] = p] /\ hub' = hub
  BY DEF SelectLearnSource
<1> HIDE DEF p
<1>4. SourceSelected(e) \in Hubs /\ PairsOnce(SourceSelected(e).routed) BY <1>1, LearnKeeps, EditorsTyped
<1>5. QED BY <1>2, <1>3, <1>4, AnnounceKeeps, PageKeeps

LEMMA EmptySourceKeeps ==
  ASSUME EditorsInv, NEW b \in Editors, EmptySource(b)
  PROVE  EditorsInv'
<1> DEFINE last == IF page[b].told # Unset THEN page[b].told ELSE page[b].last
           p == [page[b] EXCEPT !.shows = Unset, !.last = last]
<1>1. last \in MaybeEnd BY EditorsTyped, PageSteps
<1>2. Announce(SourceCleared, b, p) BY DEF EmptySource
<1> HIDE DEF last
<1>3. p \in Pages BY <1>1, EditorsTyped, PageSteps
<1>4. SourceCleared \in Hubs /\ PairsOnce(SourceCleared.routed) BY LearnKeeps, EditorsTyped
<1>5. QED BY <1>2, <1>3, <1>4, AnnounceKeeps

LEMMA ClearLearnSourceKeeps ==
  ASSUME EditorsInv, NEW b \in Editors, ClearLearnSource(b)
  PROVE  EditorsInv'
<1>1. [page[b] EXCEPT !.shows = Unset, !.last = Unset] \in Pages BY EditorsTyped, PageSteps
<1>2. SourceCleared \in Hubs /\ PairsOnce(SourceCleared.routed) BY LearnKeeps, EditorsTyped
<1>3. QED BY <1>1, <1>2, AnnounceKeeps DEF ClearLearnSource

LEMMA CompleteLearnMappingKeeps ==
  ASSUME EditorsInv, NEW b \in Editors, NEW target \in Ends, CompleteLearnMapping(b, target)
  PROVE  EditorsInv'
<1> DEFINE pair == <<page[b].shows, target>>
           h == Applying(Upsert(hub.list, Connection(pair, pair)))
<1>1. page[b] \in Pages /\ page[b].shows \in Ends /\ page[b].shows # target
  BY EditorsTyped, PageSteps DEF CompleteLearnMapping, MaybeEnd
<1>2. pair \in Pairs BY <1>1 DEF Pairs
<1>3. Announce([h EXCEPT !.source = Unset], b, page[b])
  BY DEF CompleteLearnMapping, Mapped, MappingId
<1> HIDE DEF pair
<1>4. Upsert(hub.list, Connection(pair, pair)) \in Lists
  BY <1>2, PairFacts, ConnectionFacts, UpsertKeeps, EditorsTyped
<1>5. h \in Hubs /\ PairsOnce(h.routed) BY <1>4, ApplyingKeeps, EditorsTyped
<1> HIDE DEF h
<1>6. [h EXCEPT !.source = Unset] \in Hubs /\ [h EXCEPT !.source = Unset].routed = h.routed
  BY <1>5 DEF Hubs, MaybeEnd
<1>7. QED BY <1>1, <1>3, <1>5, <1>6, AnnounceKeeps

LEMMA SetConnectionsConfigKeeps ==
  ASSUME EditorsInv, NEW b \in Editors, SetConnectionsConfig(b) \/ EndImport(b)
  PROVE  EditorsInv'
  BY EditorsTyped, ApplyingKeeps, AnswerKeeps DEF SetConnectionsConfig, EndImport

LEMMA SetConnectionsRejectedKeeps ==
  ASSUME EditorsInv, NEW b \in Editors, SetConnectionsRejected(b)
  PROVE  EditorsInv'
<1>1. hub' = [hub EXCEPT !.list = page[b].http.list] BY DEF SetConnectionsRejected
<1>2. hub' \in Hubs /\ hub'.routed = hub.routed BY <1>1, EditorsTyped DEF Hubs
<1>3. NoExchange \in Exchanges BY SinglesAreLists DEF NoExchange, Exchanges
<1>4. ASSUME NEW e \in Editors
      PROVE  [page[e] EXCEPT !.stale = TRUE, !.http = IF e = b THEN NoExchange ELSE @] \in Pages
  <2>1. page[e] \in Pages /\ page[e].http \in Exchanges BY EditorsTyped, PageSteps
  <2>2. (IF e = b THEN NoExchange ELSE page[e].http) \in Exchanges BY <1>3, <2>1
  <2>3. QED BY <2>1, <2>2 DEF Pages
<1>5. page' \in [Editors -> Pages] BY <1>4 DEF SetConnectionsRejected
<1>6. QED BY <1>2, <1>5, EditorsTyped DEF EditorsInv

LEMMA ReverseKeeps ==
  ASSUME EditorsInv, NEW b \in Editors, ReverseConnectionConfig(b)
  PROVE  EditorsInv'
<1> DEFINE ids == {c.id : c \in page[b].http.list}
           found == {c \in hub.list : c.id \in ids}
<1>1. CASE found = {}
  <2>1. page' = [page EXCEPT ![b] = [page[b] EXCEPT !.http = NoExchange]] /\ hub' = hub
    BY <1>1 DEF ReverseConnectionConfig
  <2>2. NoExchange \in Exchanges BY SinglesAreLists DEF NoExchange, Exchanges
  <2>3. [page[b] EXCEPT !.http = NoExchange] \in Pages BY <2>2, EditorsTyped, PageSteps
  <2>4. QED BY <2>1, <2>3, PageKeeps
<1>2. CASE found # {}
  <2>1. PICK c \in found :
          Answer(b, Applying(Upsert(hub.list, Connection(FeedbackId(c), <<c.target, c.source>>))))
    BY <1>2 DEF ReverseConnectionConfig
  <2>2. c \in Connections BY EditorsTyped DEF Lists
  <2>3. FeedbackId(c) \in Ids
    <3>1. page[b].http \in Exchanges /\ page[b].http.pc = "reversing"
      BY EditorsTyped, PageSteps DEF ReverseConnectionConfig
    <3>2. page[b].http.list \in ShortLists BY <3>1 DEF Exchanges
    <3>3. Len(c.id) < 2 + MaxReversals BY <2>1, <3>2 DEF ShortLists
    <3>4. QED BY <2>2, <3>3, IdFacts DEF FeedbackId, Connections
  <2>4. Connection(FeedbackId(c), <<c.target, c.source>>) \in Connections
    BY <2>2, <2>3 DEF Connection, Connections
  <2>5. Upsert(hub.list, Connection(FeedbackId(c), <<c.target, c.source>>)) \in Lists
    BY <2>4, UpsertKeeps, EditorsTyped
  <2>6. QED BY <2>1, <2>5, ApplyingKeeps, AnswerKeeps, EditorsTyped
<1>3. QED BY <1>1, <1>2

LEMMA AnswerArrivesKeeps ==
  ASSUME EditorsInv, NEW b \in Editors, AnswerArrives(b)
  PROVE  EditorsInv'
<1> DEFINE x == [pc |-> "told", list |-> hub.list, learn |-> hub.learn, source |-> hub.source]
           stale == page[b].wire # <<>>
           p == [page[b] EXCEPT !.list = page[b].http.list, !.http = x, !.stale = stale]
<1>1. x \in Exchanges BY EditorsTyped DEF Exchanges
<1>2. stale \in BOOLEAN OBVIOUS
<1>3. page' = [page EXCEPT ![b] = p] /\ hub' = hub
  <2>1. page \in [Editors -> Pages] BY DEF EditorsInv
  <2>2. QED BY <2>1 DEF AnswerArrives
<1> HIDE DEF x, stale
<1>4. p \in Pages BY <1>1, <1>2, EditorsTyped, PageSteps
<1>5. QED BY <1>3, <1>4, PageKeeps

LEMMA AskedStatusArrivesKeeps ==
  ASSUME EditorsInv, NEW b \in Editors, AskedStatusArrives(b)
  PROVE  EditorsInv'
<1> DEFINE x == page[b].http
           q == RenderStatus(page[b], x)
<1>1. page[b] \in Pages /\ x \in Exchanges /\ x.pc = "told"
  BY EditorsTyped, PageSteps DEF AskedStatusArrives
<1>2. x.list \in Lists /\ x.learn \in BOOLEAN /\ x.source \in MaybeEnd BY <1>1 DEF Exchanges
<1>3. q \in Pages BY <1>1, <1>2, RenderKeeps
<1>4. page' = [page EXCEPT ![b] = [q EXCEPT !.http = NoExchange]] /\ hub' = hub
  BY DEF AskedStatusArrives
<1> HIDE DEF q
<1>5. NoExchange \in Exchanges BY SinglesAreLists DEF NoExchange, Exchanges
<1>6. [q EXCEPT !.http = NoExchange] \in Pages BY <1>3, <1>5, PageSteps
<1>7. QED BY <1>4, <1>6, PageKeeps

\* What a page posts: its list with one connection edited, removed or switched, or the
\* list that it has.
LEMMA PostedKeeps ==
  ASSUME EditorsInv, NEW b \in Editors,
         \/ \E c \in page[b].list :
              \/ DeleteConnection(b, c) \/ ToggleConnection(b, c) \/ AskForReverse(b, c)
              \/ \E p \in Pairs : SaveEdited(b, c, p)
         \/ SaveRoutingSettings(b)
         \/ \E id, p \in Pairs : BeginImport(b, id, p)
  PROVE  EditorsInv'
<1> DEFINE L == page[b].list
<1>1. L \in Lists /\ hub.list \in Lists BY EditorsTyped
<1>2. ASSUME NEW c \in L, DeleteConnection(b, c) PROVE EditorsInv'
  <2>1. L \ {c} \in Lists BY <1>1 DEF Lists, SourcesOnce
  <2>2. QED BY <1>2, <2>1, PostKeeps DEF DeleteConnection
<1>3. ASSUME NEW c \in L, ToggleConnection(b, c) PROVE EditorsInv'
  <2>1. c \in Connections BY <1>1 DEF Lists
  <2> DEFINE d == [c EXCEPT !.on = ~@]
  <2>2. d \in Connections /\ d.source = c.source BY <2>1 DEF Connections
  <2>3. Post(b, "posted", (L \ {c}) \cup {d}) BY <1>3 DEF ToggleConnection
  <2> HIDE DEF d
  <2>4. (L \ {c}) \cup {d} \in Lists BY <1>1, <2>2 DEF Lists, SourcesOnce
  <2>5. QED BY <2>3, <2>4, PostKeeps
<1>4. ASSUME NEW c \in L, AskForReverse(b, c) PROVE EditorsInv'
  <2>1. {c} \in Lists BY <1>1, SinglesAreLists DEF Lists
  <2>2. {c} \in ShortLists BY <1>4, <2>1 DEF AskForReverse, ShortLists
  <2>3. QED BY <1>4, <2>1, <2>2, PostKeeps DEF AskForReverse
<1>5. ASSUME NEW c \in L, NEW p \in Pairs, SaveEdited(b, c, p) PROVE EditorsInv'
  <2> DEFINE d == [c EXCEPT !.source = p[1], !.target = p[2]]
  <2>1. c \in Connections BY <1>1 DEF Lists
  <2>2. d \in Connections BY <2>1, PairFacts DEF Connections
  <2>3. Post(b, "posted", {e \in L : e.id # c.id /\ e.source # d.source} \cup {d})
    BY <1>5 DEF SaveEdited
  <2> HIDE DEF d
  <2>4. {e \in L : e.id # c.id /\ e.source # d.source} \cup {d} \in Lists
    BY <1>1, <2>2 DEF Lists, SourcesOnce
  <2>5. QED BY <2>3, <2>4, PostKeeps
<1>6. CASE SaveRoutingSettings(b) BY <1>1, <1>6, PostKeeps DEF SaveRoutingSettings
<1>7. ASSUME NEW id \in Pairs, NEW p \in Pairs, BeginImport(b, id, p) PROVE EditorsInv'
  <2> DEFINE new == IF id \in {c.id : c \in hub.list} THEN MappingId(p) ELSE id
  <2>1. new \in Ids BY PairFacts DEF MappingId
  <2>2. Post(b, "merging", Upsert(hub.list, Connection(new, p))) BY <1>7 DEF BeginImport, Imported
  <2> HIDE DEF new
  <2>3. Upsert(hub.list, Connection(new, p)) \in Lists
    BY <1>1, <2>1, ConnectionFacts, UpsertKeeps
  <2>4. QED BY <2>2, <2>3, PostKeeps
<1>8. QED BY <1>2, <1>3, <1>4, <1>5, <1>6, <1>7

LEMMA ChangeSettingsKeeps ==
  ASSUME EditorsInv, NEW s \in Setups, ChangeSettings(s)
  PROVE  EditorsInv'
<1>1. hub' = [hub EXCEPT !.settings = s] /\ page' = page BY DEF ChangeSettings
<1>2. hub' \in Hubs /\ hub'.routed = hub.routed BY <1>1, EditorsTyped DEF Hubs
<1>3. QED BY <1>1, <1>2 DEF EditorsInv

LEMMA EditorsInvInit == EditorsInit => EditorsInv
<1> SUFFICES ASSUME EditorsInit PROVE EditorsInv OBVIOUS
<1>1. PICK learn \in BOOLEAN, e \in MaybeEnd, p \in ClockOutputs, s \in Setups :
        /\ hub = [list |-> {Connection(MappingId(p), p)}, learn |-> learn, source |-> e, settings |-> s,
                  routed |-> Effective({Connection(MappingId(p), p)}, s)]
        /\ page = [b \in Editors |->
             [list |-> hub.list, learn |-> learn, told |-> e, last |-> e, shows |-> e, loaded |-> learn,
              missed |-> FALSE, wire |-> <<>>, http |-> NoExchange, stale |-> FALSE]]
  BY DEF EditorsInit, MaybeEnd
<1>2. p \in Pairs BY EditorsAssumption
<1> DEFINE L == {Connection(MappingId(p), p)}
<1>3. L \in Lists BY <1>2, PairFacts, ConnectionFacts, SinglesAreLists DEF MappingId
<1>4. Effective(L, s) \in SUBSET Routable /\ PairsOnce(Effective(L, s)) BY <1>3, EffectiveKeeps
<1> HIDE DEF L
<1>5. hub \in Hubs /\ PairsOnce(hub.routed) /\ hub.list = L
  <2>1. hub = [list |-> L, learn |-> learn, source |-> e, settings |-> s, routed |-> Effective(L, s)]
    BY <1>1 DEF L
  <2>2. QED BY <1>3, <1>4, <2>1 DEF Hubs
<1>6. NoExchange \in Exchanges BY SinglesAreLists DEF NoExchange, Exchanges
<1>7. <<>> \in Seq(Statuses) OBVIOUS
<1>8. page \in [Editors -> Pages] BY <1>1, <1>3, <1>5, <1>6, <1>7 DEF Pages
<1>9. QED BY <1>5, <1>8 DEF EditorsInv

LEMMA EditorsInvNext == EditorsInv /\ [EditorsRuns \/ EditorsWorld]_editorsVars => EditorsInv'
<1> SUFFICES ASSUME EditorsInv, [EditorsRuns \/ EditorsWorld]_editorsVars PROVE EditorsInv' OBVIOUS
<1>1. CASE UNCHANGED editorsVars BY <1>1 DEF editorsVars, EditorsInv
<1>2. CASE EditorsRuns
  BY <1>2, StatusArrivesKeeps, DatapointsLoadedKeeps, SetConnectionsConfigKeeps, ReverseKeeps,
     AnswerArrivesKeeps, AskedStatusArrivesKeeps DEF EditorsRuns
<1>3. ASSUME NEW b \in Editors, NEW c \in page[b].list,
             \/ DeleteConnection(b, c) \/ ToggleConnection(b, c) \/ AskForReverse(b, c)
             \/ \E p \in Pairs : SaveEdited(b, c, p)
      PROVE  EditorsInv'
  BY <1>3, PostedKeeps
<1>4. ASSUME NEW b \in Editors, SaveRoutingSettings(b) \/ \E id, p \in Pairs : BeginImport(b, id, p)
      PROVE  EditorsInv'
  BY <1>4, PostedKeeps
<1>5. CASE EditorsWorld
  BY <1>3, <1>4, <1>5, LearnToggleKeeps, EmptySourceKeeps, ClearLearnSourceKeeps,
     SelectLearnSourceKeeps, CompleteLearnMappingKeeps, SetConnectionsRejectedKeeps,
     ChangeSettingsKeeps DEF EditorsWorld
<1>6. QED BY <1>1, <1>2, <1>5

LEMMA EditorsInvRoutes == EditorsInv => PairsAreRoutedOnce
  BY DEF EditorsInv, PairsAreRoutedOnce, PairsOnce

\* Every list of connections, be it stored, in a page, in a request or in a status on its
\* way, has each source once, and the graph routes each pair once (learn.py,
\* web/server.py, app.js).
THEOREM EditorsInvariant == EditorsSpec => []EditorsInv
  BY EditorsInvInit, EditorsInvNext, PTL DEF EditorsSpec

\* What is saved stays saved, and no edit of connections routes a value twice.
THEOREM EditsAreKeptHolds == EditsSpec /\ EditorsSpec => []EditsAreKept
<1>1. EditsInv /\ EditorsInv => EditsAreKept BY EditsInvKeeps, EditorsInvRoutes DEF EditsAreKept
<1>2. QED BY <1>1, EditsInvariant, EditorsInvariant, PTL

(***************************************************************************)
(* IV. Pages agree with the server, once they were told (ConnectionEditors).*)
(***************************************************************************)

(* What was told last stays when what was told first is taken.               *)

LastTold(q) == q[Len(q)]

LEMMA WireTaken ==
  ASSUME NEW S, NEW q \in Seq(S), q # <<>>
  PROVE  /\ Tail(q) \in Seq(S) /\ Head(q) \in S /\ LastTold(q) \in S
         /\ \A i \in DOMAIN q : i = 1 \/ (i - 1 \in DOMAIN Tail(q) /\ Tail(q)[i - 1] = q[i])
         /\ \A i \in DOMAIN Tail(q) : i + 1 \in DOMAIN q /\ Tail(q)[i] = q[i + 1]
         /\ Head(q) = q[1] /\ 1 \in DOMAIN q
         /\ Tail(q) # <<>> => LastTold(Tail(q)) = LastTold(q)
         /\ Tail(q) = <<>> => Head(q) = LastTold(q)
<1>1. Len(q) \in Nat /\ Len(q) >= 1 /\ Head(q) = q[1] /\ q[1] \in S /\ DOMAIN q = 1 .. Len(q)
  OBVIOUS
<1>2. Tail(q) \in Seq(S) /\ Len(Tail(q)) = Len(q) - 1 /\ DOMAIN Tail(q) = 1 .. Len(q) - 1
  OBVIOUS
<1>3. \A i \in 1 .. Len(q) - 1 : Tail(q)[i] = q[i + 1] OBVIOUS
<1>4. Tail(q) # <<>> => Len(q) - 1 \in 1 .. Len(q) - 1 BY <1>1, <1>2
<1>5. Tail(q) = <<>> => Len(q) = 1 BY <1>1, <1>2
<1>6. LastTold(q) \in S BY <1>1 DEF LastTold
<1>7. ASSUME NEW i \in DOMAIN q, i # 1 PROVE i - 1 \in DOMAIN Tail(q) /\ Tail(q)[i - 1] = q[i]
  <2>1. i - 1 \in 1 .. Len(q) - 1 /\ i - 1 + 1 = i BY <1>1, <1>7
  <2>2. QED BY <1>2, <1>3, <2>1
<1>8. ASSUME NEW i \in DOMAIN Tail(q) PROVE i + 1 \in DOMAIN q /\ Tail(q)[i] = q[i + 1]
  BY <1>1, <1>2, <1>3, <1>8
<1>9. Tail(q) # <<>> => LastTold(Tail(q)) = LastTold(q)
  BY <1>1, <1>2, <1>3, <1>4 DEF LastTold
<1>10. Tail(q) = <<>> => Head(q) = LastTold(q) BY <1>1, <1>5 DEF LastTold
<1>11. QED BY <1>1, <1>2, <1>6, <1>7, <1>8, <1>9, <1>10

LEMMA WireExtended ==
  ASSUME NEW S, NEW q \in Seq(S), NEW m \in S
  PROVE  /\ Append(q, m) \in Seq(S) /\ Append(q, m) # <<>> /\ LastTold(Append(q, m)) = m
         /\ \A i \in DOMAIN q : i \in DOMAIN Append(q, m) /\ Append(q, m)[i] = q[i]
         /\ \A i \in DOMAIN Append(q, m) : Append(q, m)[i] = m \/ (i \in DOMAIN q /\ Append(q, m)[i] = q[i])
         /\ Len(q) + 1 \in DOMAIN Append(q, m) /\ Append(q, m)[Len(q) + 1] = m
BY DEF LastTold

-----------------------------------------------------------------------------
(* Pages and the server (ConnectionEditors).                                *)

\* The page has what the status of h says.
Current(p, h) ==
  p.list = h.list /\ p.learn = h.learn /\ p.told = h.source /\ (h.learn => p.last = h.source)

\* What a page is told last, or has when nothing is on its way, is the status of the server.
ToldLast(p, h) ==
  ~p.stale =>
    /\ p.http.pc = "told" =>
         p.wire = <<>> /\ p.http.list = h.list /\ p.http.learn = h.learn /\ p.http.source = h.source
    /\ p.http.pc \notin {"told", "answered"} =>
         IF p.wire = <<>> THEN Current(p, h) ELSE LastTold(p.wire) = StatusOf(h)

\* A page shows the source that it was told last, or another one is on its way to it.
SourceShown(p, h) ==
  \/ p.last = Unset \/ p.shows = p.last \/ p.missed \/ ~h.learn
  \/ \E i \in DOMAIN p.wire : p.wire[i].source # p.last

Follows(p, h) == ToldLast(p, h) /\ SourceShown(p, h) /\ (p.shows # Unset => p.learn)

PagesInv ==
  EditorsInv /\ (hub.source # Unset => hub.learn) /\ \A b \in Editors : Follows(page[b], hub)

-----------------------------------------------------------------------------
(* What a page does with a status. *)

LEMMA SourceFields ==
  ASSUME NEW p \in Pages, NEW e \in MaybeEnd, NEW q, q = SyncSource(p, e)
  PROVE  /\ q \in Pages /\ q.list = p.list /\ q.learn = p.learn /\ q.told = p.told /\ q.wire = p.wire
         /\ q.http = p.http /\ q.stale = p.stale
         /\ q.last = e
         /\ (e = p.last => q.shows = p.shows /\ q.missed = p.missed)
         /\ (e # p.last => (e = Unset \/ q.shows = e \/ q.missed))
<1> DEFINE r == [p EXCEPT !.last = e]
<1>1. /\ r \in Pages /\ r.list = p.list /\ r.learn = p.learn /\ r.told = p.told /\ r.wire = p.wire
      /\ r.http = p.http /\ r.stale = p.stale /\ r.last = e /\ r.loaded = p.loaded
  BY DEF Pages
<1>2. SyncSource(p, e) = IF e = p.last THEN p ELSE Shown(r, e) BY DEF SyncSource
<1> DEFINE t == Shown(r, e)
<1>3. /\ e = p.last => q = p
      /\ e # p.last => q = t
  BY <1>2
<1> HIDE DEF r
<1>4. /\ t \in Pages /\ t.list = p.list /\ t.learn = p.learn /\ t.told = p.told /\ t.wire = p.wire
      /\ t.http = p.http /\ t.stale = p.stale /\ t.last = e
      /\ e = Unset \/ t.shows = e \/ t.missed
  <2>1. CASE e = Unset BY <1>1, <2>1 DEF Shown
  <2>2. CASE e # Unset /\ r.loaded
    <3>1. t = [r EXCEPT !.shows = e, !.missed = FALSE] BY <2>2 DEF Shown
    <3>2. QED BY <1>1, <3>1 DEF Pages
  <2>3. CASE e # Unset /\ ~r.loaded
    <3>1. t = [r EXCEPT !.missed = TRUE] BY <2>3 DEF Shown
    <3>2. QED BY <1>1, <3>1 DEF Pages
  <2>4. QED BY <2>1, <2>2, <2>3
<1> HIDE DEF t
<1>5. CASE e = p.last
  <2>1. q = p BY <1>3, <1>5
  <2>2. QED BY <1>5, <2>1
<1>6. CASE e # p.last
  <2>1. q = t BY <1>3, <1>6
  <2>2. QED BY <1>4, <1>6, <2>1
<1>7. QED BY <1>5, <1>6

LEMMA RenderFields ==
  ASSUME NEW p \in Pages, NEW s, s.list \in Lists, s.learn \in BOOLEAN, s.source \in MaybeEnd
  PROVE  LET q == RenderStatus(p, s) IN
         /\ q \in Pages /\ q.list = s.list /\ q.learn = s.learn /\ q.told = s.source /\ q.wire = p.wire
         /\ q.http = p.http /\ q.stale = p.stale
         /\ s.learn => q.last = s.source
         /\ ~s.learn => q.last = Unset /\ q.shows = Unset
         /\ s.learn /\ s.source = p.last => q.shows = p.shows /\ q.missed = p.missed
         /\ s.learn /\ s.source # p.last => q.last = Unset \/ q.shows = q.last \/ q.missed
<1> DEFINE r == [p EXCEPT !.list = s.list, !.learn = s.learn, !.told = s.source]
           o == [r EXCEPT !.shows = Unset, !.last = Unset, !.missed = FALSE]
<1>1. /\ r \in Pages /\ r.list = s.list /\ r.learn = s.learn /\ r.told = s.source /\ r.wire = p.wire
      /\ r.http = p.http /\ r.stale = p.stale /\ r.last = p.last /\ r.shows = p.shows
      /\ r.missed = p.missed
  BY DEF Pages
<1>2. RenderStatus(p, s) = IF s.learn THEN SyncSource(r, s.source) ELSE o BY DEF RenderStatus
<1> HIDE DEF r
<1>3. CASE s.learn
  <2> DEFINE q == SyncSource(r, s.source)
  <2>1. /\ q \in Pages /\ q.list = r.list /\ q.learn = r.learn /\ q.told = r.told /\ q.wire = r.wire
        /\ q.http = r.http /\ q.stale = r.stale /\ q.last = s.source
        /\ s.source = r.last => q.shows = r.shows /\ q.missed = r.missed
        /\ s.source # r.last => s.source = Unset \/ q.shows = s.source \/ q.missed
    BY <1>1, SourceFields
  <2>2. RenderStatus(p, s) = q BY <1>2, <1>3
  <2> HIDE DEF q
  <2>3. QED BY <1>1, <1>3, <2>1, <2>2
<1>4. CASE ~s.learn
  <2>1. RenderStatus(p, s) = o BY <1>2, <1>4
  <2>2. /\ o \in Pages /\ o.list = r.list /\ o.learn = r.learn /\ o.told = r.told /\ o.wire = r.wire
        /\ o.http = r.http /\ o.stale = r.stale /\ o.last = Unset /\ o.shows = Unset
    BY <1>1 DEF Pages, MaybeEnd
  <2> HIDE DEF o
  <2>3. QED BY <1>1, <1>4, <2>1, <2>2
<1>5. QED BY <1>3, <1>4

-----------------------------------------------------------------------------
(* Steps: a change that is announced, one that is answered, and one of a page. *)

LEMMA PagesTyped ==
  ASSUME PagesInv
  PROVE  /\ hub \in Hubs /\ PairsOnce(hub.routed) /\ hub.list \in Lists /\ hub.learn \in BOOLEAN
         /\ hub.source \in MaybeEnd /\ Unset \in MaybeEnd /\ EditorsInv
         /\ hub.source # Unset => hub.learn
         /\ page \in [Editors -> Pages]
         /\ \A b \in Editors : page[b] \in Pages /\ Follows(page[b], hub)
BY EditorsTyped DEF PagesInv, EditorsInv

LEMMA PageFollows ==
  ASSUME PagesInv, NEW b \in Editors, NEW p \in Pages, page' = [page EXCEPT ![b] = p],
         hub' = hub, Follows(p, hub)
  PROVE  PagesInv'
<1>1. EditorsInv' BY PageKeeps, PagesTyped
<1>2. \A e \in Editors : page'[e] = (IF e = b THEN p ELSE page[e]) BY PagesTyped
<1>3. \A e \in Editors : Follows(page'[e], hub) BY <1>2, PagesTyped
<1>4. QED BY <1>1, <1>3 DEF PagesInv

LEMMA AnnounceFollows ==
  ASSUME PagesInv, NEW b \in Editors, NEW h \in Hubs, PairsOnce(h.routed), NEW p \in Pages,
         Announce(h, b, p),
         p.http = page[b].http, p.shows # Unset => p.learn, h.source # Unset => h.learn,
         p.last = Unset \/ p.shows = p.last \/ h.source # p.last,
         hub.learn \/ ~h.learn \/ h.source = Unset
  PROVE  PagesInv'
<1>1. EditorsInv' /\ hub' = h BY AnnounceKeeps, PagesTyped DEF Announce
<1>2. ASSUME NEW e \in Editors PROVE Follows(page'[e], h)
  <2> DEFINE o == IF e = b THEN p ELSE page[e]
             w == Append(o.wire, StatusOf(h))
             told == o.http.pc = "told"
             q == [o EXCEPT !.wire = w, !.stale = told]
  <2>1. o \in Pages BY PagesTyped
  <2>2. page'[e] = q BY DEF Announce
  <2>3. o.wire \in Seq(Statuses) /\ StatusOf(h) \in Statuses BY <2>1, PageSteps, StatusKeeps
  <2>4. /\ w # <<>> /\ LastTold(w) = StatusOf(h)
        /\ \A i \in DOMAIN o.wire : i \in DOMAIN w /\ w[i] = o.wire[i]
        /\ \E i \in DOMAIN w : w[i] = StatusOf(h)
    BY <2>3, WireExtended
  <2>5. StatusOf(h).source = h.source BY DEF StatusOf
  <2>6. o.shows # Unset => o.learn BY PagesTyped DEF Follows
  <2>7. \/ o.last = Unset \/ o.shows = o.last \/ o.missed \/ ~h.learn \/ h.source # o.last
        \/ \E i \in DOMAIN o.wire : o.wire[i].source # o.last
    <3>1. CASE e = b BY <3>1
    <3>2. CASE e # b
      <4>1. SourceShown(page[e], hub) BY PagesTyped DEF Follows
      <4>2. QED BY <3>2, <4>1 DEF SourceShown
    <3>3. QED BY <3>1, <3>2
  <2> HIDE DEF o, w, told
  <2>8. /\ q.wire = w /\ q.stale = told /\ q.http = o.http /\ q.last = o.last /\ q.shows = o.shows
        /\ q.missed = o.missed /\ q.learn = o.learn
    BY <2>1 DEF Pages
  <2> HIDE DEF q
  <2>9. ToldLast(q, h) BY <2>4, <2>8 DEF ToldLast, told
  <2>10. SourceShown(q, h)
    <3>1. (\E i \in DOMAIN o.wire : o.wire[i].source # o.last) => \E i \in DOMAIN w : w[i].source # o.last
      BY <2>4
    <3>2. h.source # o.last => \E i \in DOMAIN w : w[i].source # o.last BY <2>4, <2>5
    <3>3. QED BY <2>7, <2>8, <3>1, <3>2 DEF SourceShown
  <2>11. QED BY <2>2, <2>6, <2>8, <2>9, <2>10 DEF Follows
<1>3. QED BY <1>1, <1>2 DEF PagesInv

LEMMA AnswerFollows ==
  ASSUME PagesInv, NEW b \in Editors, NEW h \in Hubs, PairsOnce(h.routed), Answer(b, h),
         h.learn = hub.learn, h.source = hub.source
  PROVE  PagesInv'
<1>1. EditorsInv' /\ hub' = h BY AnswerKeeps, PagesTyped DEF Answer
<1>2. ASSUME NEW e \in Editors PROVE Follows(page'[e], h)
  <2>1. page[e] \in Pages /\ SourceShown(page[e], hub) /\ (page[e].shows # Unset => page[e].learn)
    BY PagesTyped DEF Follows
  <2> DEFINE x == [pc |-> "answered", list |-> h.list]
             q == [page[e] EXCEPT !.http = x]
             r == [page[e] EXCEPT !.stale = TRUE]
  <2>2. CASE e = b
    <3>1. page'[e] = q BY <2>2 DEF Answer
    <3>2. x.pc = "answered" OBVIOUS
    <3> HIDE DEF x
    <3>3. /\ q.http.pc = "answered" /\ q.wire = page[e].wire /\ q.last = page[e].last
          /\ q.shows = page[e].shows /\ q.missed = page[e].missed /\ q.learn = page[e].learn
      BY <2>1, <3>2 DEF Pages
    <3> HIDE DEF q
    <3>4. QED BY <2>1, <3>1, <3>3 DEF Follows, ToldLast, SourceShown
  <2>3. CASE e # b
    <3>1. page'[e] = r BY <2>3 DEF Answer
    <3>2. /\ r.stale /\ r.wire = page[e].wire /\ r.last = page[e].last
          /\ r.shows = page[e].shows /\ r.missed = page[e].missed /\ r.learn = page[e].learn
      BY <2>1 DEF Pages
    <3> HIDE DEF r
    <3>3. QED BY <2>1, <3>1, <3>2 DEF Follows, ToldLast, SourceShown
  <2>4. QED BY <2>2, <2>3
<1>3. QED BY <1>1, <1>2, PagesTyped DEF PagesInv

\* a request begins, or is over without an answer
LEMMA ExchangeFollows ==
  ASSUME PagesInv, NEW b \in Editors, NEW x \in Exchanges,
         x.pc \notin {"told", "answered"}, page[b].http.pc \notin {"told", "answered"},
         page' = [page EXCEPT ![b] = [page[b] EXCEPT !.http = x]], hub' = hub
  PROVE  PagesInv'
<1> DEFINE q == [page[b] EXCEPT !.http = x]
<1>1. page[b] \in Pages /\ Follows(page[b], hub) BY PagesTyped
<1>2. /\ q \in Pages /\ q.http = x /\ q.wire = page[b].wire /\ q.last = page[b].last
      /\ q.shows = page[b].shows /\ q.missed = page[b].missed /\ q.learn = page[b].learn
      /\ q.list = page[b].list /\ q.told = page[b].told /\ q.stale = page[b].stale
  BY <1>1 DEF Pages
<1> HIDE DEF q
<1>3. Follows(q, hub) BY <1>1, <1>2 DEF Follows, ToldLast, SourceShown, Current
<1>4. page' = [page EXCEPT ![b] = q] BY DEF q
<1>5. QED BY <1>2, <1>3, <1>4, PageFollows

-----------------------------------------------------------------------------
LEMMA StatusArrivesFollows ==
  ASSUME PagesInv, NEW b \in Editors, StatusArrives(b) PROVE PagesInv'
<1> DEFINE s == Head(page[b].wire)
           w == Tail(page[b].wire)
           q == RenderStatus(page[b], s)
           p == [q EXCEPT !.wire = w]
<1>1. /\ page[b] \in Pages /\ Follows(page[b], hub) /\ page[b].wire \in Seq(Statuses)
      /\ page[b].wire # <<>>
  BY PagesTyped, PageSteps DEF StatusArrives
<1>2. page' = [page EXCEPT ![b] = p] /\ hub' = hub BY DEF StatusArrives
<1>3. /\ w \in Seq(Statuses) /\ s \in Statuses
      /\ \A i \in DOMAIN page[b].wire : i = 1 \/ (i - 1 \in DOMAIN w /\ w[i - 1] = page[b].wire[i])
      /\ s = page[b].wire[1]
      /\ w # <<>> => LastTold(w) = LastTold(page[b].wire)
      /\ w = <<>> => s = LastTold(page[b].wire)
  BY <1>1, WireTaken
<1>4. s.list \in Lists /\ s.learn \in BOOLEAN /\ s.source \in MaybeEnd BY <1>3 DEF Statuses
<1> HIDE DEF s, w
<1>5. /\ q \in Pages /\ q.list = s.list /\ q.learn = s.learn /\ q.told = s.source
      /\ q.http = page[b].http /\ q.stale = page[b].stale
      /\ s.learn => q.last = s.source
      /\ ~s.learn => q.last = Unset /\ q.shows = Unset
      /\ s.learn /\ s.source = page[b].last => q.shows = page[b].shows /\ q.missed = page[b].missed
      /\ s.learn /\ s.source # page[b].last => q.last = Unset \/ q.shows = q.last \/ q.missed
  BY <1>1, <1>4, RenderFields
<1> HIDE DEF q
<1>6. /\ p \in Pages /\ p.list = q.list /\ p.learn = q.learn /\ p.told = q.told /\ p.http = q.http
      /\ p.stale = q.stale /\ p.last = q.last /\ p.shows = q.shows /\ p.missed = q.missed /\ p.wire = w
  BY <1>3, <1>5 DEF Pages
<1> HIDE DEF p
<1>7. ToldLast(p, hub)
  <2>1. SUFFICES ASSUME ~p.stale PROVE ToldLast(p, hub) BY DEF ToldLast
  <2>2. p.http.pc # "told" BY <1>1, <1>5, <1>6, <2>1 DEF Follows, ToldLast
  <2>3. CASE p.http.pc = "answered" BY <2>3 DEF ToldLast
  <2>4. CASE p.http.pc # "answered"
    <3>1. LastTold(page[b].wire) = StatusOf(hub)
      BY <1>1, <1>5, <1>6, <2>1, <2>2, <2>4 DEF Follows, ToldLast
    <3>2. w = <<>> => s.list = hub.list /\ s.learn = hub.learn /\ s.source = hub.source
      BY <1>3, <3>1 DEF StatusOf
    <3>3. w = <<>> => Current(p, hub) BY <1>5, <1>6, <3>2 DEF Current
    <3>4. QED BY <1>3, <1>6, <2>2, <3>1, <3>3 DEF ToldLast
  <2>5. QED BY <2>3, <2>4
<1>8. SourceShown(p, hub)
  <2>1. CASE s.learn /\ s.source = page[b].last
    <3>1. SourceShown(page[b], hub) BY <1>1 DEF Follows
    <3>2. (\E i \in DOMAIN page[b].wire : page[b].wire[i].source # page[b].last)
            => \E i \in DOMAIN w : w[i].source # page[b].last
      BY <1>3, <2>1
    <3>3. QED BY <1>5, <1>6, <2>1, <3>1, <3>2 DEF SourceShown
  <2>2. CASE ~(s.learn /\ s.source = page[b].last) BY <1>5, <1>6, <2>2 DEF SourceShown
  <2>3. QED BY <2>1, <2>2
<1>9. p.shows # Unset => p.learn BY <1>4, <1>5, <1>6
<1>10. QED BY <1>2, <1>6, <1>7, <1>8, <1>9, PageFollows DEF Follows

LEMMA DatapointsLoadedFollows ==
  ASSUME PagesInv, NEW b \in Editors, DatapointsLoaded(b) PROVE PagesInv'
<1> DEFINE o == [page[b] EXCEPT !.loaded = TRUE]
           q == SyncSource(o, page[b].told)
<1>1. page[b] \in Pages /\ Follows(page[b], hub) /\ page[b].told \in MaybeEnd BY PagesTyped, PageSteps
<1>2. page' = [page EXCEPT ![b] = q] /\ hub' = hub /\ page[b].learn BY DEF DatapointsLoaded
<1>3. /\ o \in Pages /\ o.list = page[b].list /\ o.learn = page[b].learn /\ o.told = page[b].told
      /\ o.wire = page[b].wire /\ o.http = page[b].http /\ o.stale = page[b].stale
      /\ o.last = page[b].last /\ o.shows = page[b].shows /\ o.missed = page[b].missed
  BY <1>1 DEF Pages
<1> HIDE DEF o
<1>4. /\ q \in Pages /\ q.list = o.list /\ q.learn = o.learn /\ q.told = o.told /\ q.wire = o.wire
      /\ q.http = o.http /\ q.stale = o.stale /\ q.last = page[b].told
      /\ page[b].told = o.last => q.shows = o.shows /\ q.missed = o.missed
      /\ page[b].told # o.last => page[b].told = Unset \/ q.shows = page[b].told \/ q.missed
  BY <1>1, <1>3, SourceFields
<1> HIDE DEF q
<1>5. ToldLast(q, hub) BY <1>1, <1>3, <1>4 DEF Follows, ToldLast, Current
<1>6. SourceShown(q, hub)
  <2>1. CASE page[b].told = o.last BY <1>1, <1>3, <1>4, <2>1 DEF Follows, SourceShown
  <2>2. CASE page[b].told # o.last BY <1>4, <2>2 DEF SourceShown
  <2>3. QED BY <2>1, <2>2
<1>7. q.shows # Unset => q.learn BY <1>2, <1>3, <1>4
<1>8. QED BY <1>2, <1>4, <1>5, <1>6, <1>7, PageFollows DEF Follows

LEMMA LearnFields ==
  ASSUME PagesInv
  PROVE  /\ \A on \in BOOLEAN : /\ LearnSet(on) \in Hubs /\ PairsOnce(LearnSet(on).routed)
                                /\ LearnSet(on).source = Unset /\ LearnSet(on).learn = on
         /\ SourceCleared \in Hubs /\ PairsOnce(SourceCleared.routed) /\ SourceCleared.source = Unset
         /\ \A e \in MaybeEnd : /\ SourceSelected(e) \in Hubs /\ PairsOnce(SourceSelected(e).routed)
                                /\ SourceSelected(e).source = e /\ SourceSelected(e).learn = hub.learn
BY PagesTyped DEF LearnSet, SourceCleared, SourceSelected, Hubs

LEMMA LearnToggleFollows ==
  ASSUME PagesInv, NEW b \in Editors, LearnToggle(b) PROVE PagesInv'
<1> DEFINE on == ~page[b].learn
           p == IF on THEN [page[b] EXCEPT !.last = Unset] ELSE page[b]
<1>1. on \in BOOLEAN OBVIOUS
<1>2. page[b] \in Pages /\ (page[b].shows # Unset => page[b].learn) /\ Unset \in MaybeEnd
  BY PagesTyped DEF Follows
<1>3. /\ p \in Pages /\ p.http = page[b].http /\ (p.shows # Unset => p.learn)
  BY <1>2 DEF Pages
<1>4. Announce(LearnSet(on), b, p) BY DEF LearnToggle
<1> HIDE DEF on, p
<1>5. /\ LearnSet(on) \in Hubs /\ PairsOnce(LearnSet(on).routed) /\ LearnSet(on).source = Unset
  BY <1>1, LearnFields
<1>6. p.last = Unset \/ p.shows = p.last \/ LearnSet(on).source # p.last BY <1>5
<1>7. QED BY <1>3, <1>4, <1>5, <1>6, AnnounceFollows

LEMMA SelectLearnSourceFollows ==
  ASSUME PagesInv, NEW b \in Editors, NEW e \in Ends, SelectLearnSource(b, e) PROVE PagesInv'
<1> DEFINE p == [page[b] EXCEPT !.shows = e]
<1>1. page[b] \in Pages /\ e \in MaybeEnd /\ Follows(page[b], hub) /\ page[b].learn
  BY PagesTyped DEF MaybeEnd, SelectLearnSource
<1>2. /\ p \in Pages /\ p.list = page[b].list /\ p.learn = page[b].learn /\ p.told = page[b].told
      /\ p.wire = page[b].wire /\ p.http = page[b].http /\ p.stale = page[b].stale
      /\ p.last = page[b].last /\ p.shows = e
  BY <1>1 DEF Pages
<1>3. IF hub.learn THEN Announce(SourceSelected(e), b, p)
      ELSE page' = [page EXCEPT ![b] = p] /\ hub' = hub
  BY DEF SelectLearnSource
<1> HIDE DEF p
<1>4. CASE hub.learn
  <2>1. /\ SourceSelected(e) \in Hubs /\ PairsOnce(SourceSelected(e).routed)
        /\ SourceSelected(e).source = e /\ SourceSelected(e).learn = hub.learn
    BY <1>1, LearnFields
  <2>2. p.last = Unset \/ p.shows = p.last \/ SourceSelected(e).source # p.last BY <1>2, <2>1
  <2>3. QED BY <1>1, <1>2, <1>3, <1>4, <2>1, <2>2, AnnounceFollows
<1>5. CASE ~hub.learn
  <2>1. ToldLast(p, hub) BY <1>1, <1>2 DEF Follows, ToldLast, Current
  <2>2. SourceShown(p, hub) BY <1>5 DEF SourceShown
  <2>3. QED BY <1>1, <1>2, <1>3, <1>5, <2>1, <2>2, PageFollows DEF Follows
<1>6. QED BY <1>4, <1>5

\* the source is taken back
LEMMA ClearedFollows ==
  ASSUME PagesInv, NEW b \in Editors, NEW last \in MaybeEnd,
         Announce(SourceCleared, b, [page[b] EXCEPT !.shows = Unset, !.last = last])
  PROVE  PagesInv'
<1> DEFINE p == [page[b] EXCEPT !.shows = Unset, !.last = last]
<1>1. page[b] \in Pages /\ Unset \in MaybeEnd BY PagesTyped
<1>2. p \in Pages /\ p.http = page[b].http /\ p.shows = Unset /\ p.last = last BY <1>1 DEF Pages
<1>3. /\ SourceCleared \in Hubs /\ PairsOnce(SourceCleared.routed) /\ SourceCleared.source = Unset
  BY LearnFields
<1> HIDE DEF p
<1>4. Announce(SourceCleared, b, p) BY DEF p
<1>5. p.last = Unset \/ p.shows = p.last \/ SourceCleared.source # p.last BY <1>3
<1>6. QED BY <1>2, <1>3, <1>4, <1>5, AnnounceFollows

LEMMA EmptySourceFollows ==
  ASSUME PagesInv, NEW b \in Editors, EmptySource(b) \/ ClearLearnSource(b) PROVE PagesInv'
<1> DEFINE last == IF page[b].told # Unset THEN page[b].told ELSE page[b].last
<1>1. last \in MaybeEnd /\ Unset \in MaybeEnd BY PagesTyped, PageSteps
<1>2. CASE EmptySource(b)
  <2>1. Announce(SourceCleared, b, [page[b] EXCEPT !.shows = Unset, !.last = last])
    BY <1>2 DEF EmptySource
  <2> HIDE DEF last
  <2>2. QED BY <1>1, <2>1, ClearedFollows
<1>3. CASE ClearLearnSource(b) BY <1>1, <1>3, ClearedFollows DEF ClearLearnSource
<1>4. QED BY <1>2, <1>3

LEMMA CompleteLearnMappingFollows ==
  ASSUME PagesInv, NEW b \in Editors, NEW target \in Ends, CompleteLearnMapping(b, target)
  PROVE  PagesInv'
<1> DEFINE pair == <<page[b].shows, target>>
           h == Applying(Upsert(hub.list, Connection(pair, pair)))
           g == [h EXCEPT !.source = Unset]
<1>1. page[b] \in Pages /\ page[b].shows \in Ends /\ page[b].shows # target
      /\ (page[b].shows # Unset => page[b].learn)
  BY PagesTyped, PageSteps DEF CompleteLearnMapping, MaybeEnd, Follows
<1>2. pair \in Pairs BY <1>1 DEF Pairs
<1>3. Announce(g, b, page[b]) BY DEF CompleteLearnMapping, Mapped, MappingId
<1> HIDE DEF pair
<1>4. Upsert(hub.list, Connection(pair, pair)) \in Lists
  BY <1>2, PairFacts, ConnectionFacts, UpsertKeeps, PagesTyped
<1>5. h \in Hubs /\ PairsOnce(h.routed) BY <1>4, ApplyingKeeps, PagesTyped
<1> HIDE DEF h
<1>6. g \in Hubs /\ PairsOnce(g.routed) /\ g.source = Unset BY <1>5 DEF Hubs, MaybeEnd
<1> HIDE DEF g
<1>7. page[b].last = Unset \/ page[b].shows = page[b].last \/ g.source # page[b].last BY <1>6
<1>8. QED BY <1>1, <1>3, <1>6, <1>7, AnnounceFollows

LEMMA SetConnectionsFollows ==
  ASSUME PagesInv, NEW b \in Editors, SetConnectionsConfig(b) \/ EndImport(b) PROVE PagesInv'
<1> DEFINE h == Applying(page[b].http.list)
<1>1. Answer(b, h) BY DEF SetConnectionsConfig, EndImport
<1>2. page[b].http.list \in Lists BY PagesTyped, PageSteps
<1>3. h \in Hubs /\ PairsOnce(h.routed) /\ h.learn = hub.learn /\ h.source = hub.source
  BY <1>2, ApplyingKeeps, PagesTyped
<1> HIDE DEF h
<1>4. QED BY <1>1, <1>3, AnswerFollows

LEMMA RejectedFollows ==
  ASSUME PagesInv, NEW b \in Editors, SetConnectionsRejected(b) PROVE PagesInv'
<1>1. EditorsInv' BY SetConnectionsRejectedKeeps, PagesTyped
<1>2. hub' = [hub EXCEPT !.list = page[b].http.list] BY DEF SetConnectionsRejected
<1>3. hub'.learn = hub.learn /\ hub'.source = hub.source BY <1>2, PagesTyped DEF Hubs
<1>4. ASSUME NEW e \in Editors PROVE Follows(page'[e], hub')
  <2> DEFINE x == IF e = b THEN NoExchange ELSE page[e].http
             q == [page[e] EXCEPT !.stale = TRUE, !.http = x]
  <2>1. page[e] \in Pages /\ Follows(page[e], hub) BY PagesTyped
  <2>2. page'[e] = q BY DEF SetConnectionsRejected
  <2> HIDE DEF x
  <2>3. /\ q.stale /\ q.wire = page[e].wire /\ q.last = page[e].last
        /\ q.shows = page[e].shows /\ q.missed = page[e].missed /\ q.learn = page[e].learn
    BY <2>1 DEF Pages
  <2> HIDE DEF q
  <2>4. QED BY <1>3, <2>1, <2>2, <2>3 DEF Follows, ToldLast, SourceShown
<1>5. QED BY <1>1, <1>3, <1>4, PagesTyped DEF PagesInv

LEMMA ReverseFollows ==
  ASSUME PagesInv, NEW b \in Editors, ReverseConnectionConfig(b) PROVE PagesInv'
<1> DEFINE ids == {c.id : c \in page[b].http.list}
           found == {c \in hub.list : c.id \in ids}
<1>1. /\ page[b].http \in Exchanges /\ page[b].http.pc = "reversing" /\ hub.list \in Lists /\ hub \in Hubs
  BY PagesTyped, PageSteps DEF ReverseConnectionConfig
<1>2. CASE found = {}
  <2>1. page' = [page EXCEPT ![b] = [page[b] EXCEPT !.http = NoExchange]] /\ hub' = hub
    BY <1>2 DEF ReverseConnectionConfig
  <2>2. NoExchange \in Exchanges /\ NoExchange.pc = "none"
    BY SinglesAreLists DEF NoExchange, Exchanges
  <2>3. QED BY <1>1, <2>1, <2>2, ExchangeFollows
<1>3. CASE found # {}
  <2>1. PICK c \in found :
          Answer(b, Applying(Upsert(hub.list, Connection(FeedbackId(c), <<c.target, c.source>>))))
    BY <1>3 DEF ReverseConnectionConfig
  <2>2. c \in Connections BY <1>1 DEF Lists
  <2>3. FeedbackId(c) \in Ids
    <3>1. page[b].http.list \in ShortLists BY <1>1 DEF Exchanges
    <3>2. Len(c.id) < 2 + MaxReversals BY <2>1, <3>1 DEF ShortLists
    <3>3. QED BY <2>2, <3>2, IdFacts DEF FeedbackId, Connections
  <2> DEFINE d == Connection(FeedbackId(c), <<c.target, c.source>>)
             h == Applying(Upsert(hub.list, d))
  <2>4. d \in Connections BY <2>2, <2>3 DEF Connection, Connections
  <2> HIDE DEF d
  <2>5. Upsert(hub.list, d) \in Lists BY <1>1, <2>4, UpsertKeeps
  <2>6. h \in Hubs /\ PairsOnce(h.routed) /\ h.learn = hub.learn /\ h.source = hub.source
    BY <1>1, <2>5, ApplyingKeeps
  <2>7. Answer(b, h) BY <2>1 DEF d
  <2> HIDE DEF h
  <2>8. QED BY <2>6, <2>7, AnswerFollows
<1>4. QED BY <1>2, <1>3

LEMMA AnswerArrivesFollows ==
  ASSUME PagesInv, NEW b \in Editors, AnswerArrives(b) PROVE PagesInv'
<1> DEFINE x == [pc |-> "told", list |-> hub.list, learn |-> hub.learn, source |-> hub.source]
           stale == page[b].wire # <<>>
           p == [page[b] EXCEPT !.list = page[b].http.list, !.http = x, !.stale = stale]
<1>1. /\ x \in Exchanges /\ x.pc = "told" /\ x.list = hub.list /\ x.learn = hub.learn
      /\ x.source = hub.source
  BY PagesTyped DEF Exchanges
<1>2. stale \in BOOLEAN OBVIOUS
<1>3. page[b] \in Pages /\ page[b].http.list \in Lists /\ Follows(page[b], hub)
  BY PagesTyped, PageSteps
<1>4. page' = [page EXCEPT ![b] = p] /\ hub' = hub
  <2>1. page \in [Editors -> Pages] BY PagesTyped
  <2>2. QED BY <2>1 DEF AnswerArrives
<1> HIDE DEF x
<1>5. ~stale => page[b].wire = <<>> OBVIOUS
<1> HIDE DEF stale
<1>6. /\ p \in Pages /\ p.http = x /\ p.stale = stale /\ p.wire = page[b].wire /\ p.last = page[b].last
      /\ p.shows = page[b].shows /\ p.missed = page[b].missed /\ p.learn = page[b].learn
  BY <1>1, <1>2, <1>3 DEF Pages
<1> HIDE DEF p
<1>7. ToldLast(p, hub) BY <1>1, <1>5, <1>6 DEF ToldLast
<1>8. SourceShown(p, hub) /\ (p.shows # Unset => p.learn) BY <1>3, <1>6 DEF Follows, SourceShown
<1>9. QED BY <1>4, <1>6, <1>7, <1>8, PageFollows DEF Follows

LEMMA AskedStatusArrivesFollows ==
  ASSUME PagesInv, NEW b \in Editors, AskedStatusArrives(b) PROVE PagesInv'
<1> DEFINE x == page[b].http
           q == RenderStatus(page[b], x)
           p == [q EXCEPT !.http = NoExchange]
<1>1. page[b] \in Pages /\ x \in Exchanges /\ x.pc = "told" /\ Follows(page[b], hub)
  BY PagesTyped, PageSteps DEF AskedStatusArrives
<1>2. x.list \in Lists /\ x.learn \in BOOLEAN /\ x.source \in MaybeEnd BY <1>1 DEF Exchanges
<1>3. page' = [page EXCEPT ![b] = p] /\ hub' = hub BY DEF AskedStatusArrives
<1>4. ~page[b].stale => /\ page[b].wire = <<>> /\ x.list = hub.list /\ x.learn = hub.learn
                        /\ x.source = hub.source
  BY <1>1 DEF Follows, ToldLast
<1> HIDE DEF x
<1>5. /\ q \in Pages /\ q.list = x.list /\ q.learn = x.learn /\ q.told = x.source
      /\ q.wire = page[b].wire /\ q.stale = page[b].stale
      /\ x.learn => q.last = x.source
      /\ ~x.learn => q.last = Unset /\ q.shows = Unset
      /\ x.learn /\ x.source = page[b].last => q.shows = page[b].shows /\ q.missed = page[b].missed
      /\ x.learn /\ x.source # page[b].last => q.last = Unset \/ q.shows = q.last \/ q.missed
  BY <1>1, <1>2, RenderFields
<1> HIDE DEF q
<1>6. NoExchange \in Exchanges /\ NoExchange.pc = "none" BY SinglesAreLists DEF NoExchange, Exchanges
<1>7. /\ p \in Pages /\ p.list = q.list /\ p.learn = q.learn /\ p.told = q.told /\ p.http = NoExchange
      /\ p.stale = q.stale /\ p.last = q.last /\ p.shows = q.shows /\ p.missed = q.missed
      /\ p.wire = q.wire
  BY <1>5, <1>6 DEF Pages
<1> HIDE DEF p
<1>8. ToldLast(p, hub) BY <1>2, <1>4, <1>5, <1>6, <1>7 DEF ToldLast, Current
<1>9. SourceShown(p, hub)
  <2>1. CASE x.learn /\ x.source = page[b].last BY <1>1, <1>5, <1>7, <2>1 DEF Follows, SourceShown
  <2>2. CASE ~(x.learn /\ x.source = page[b].last) BY <1>5, <1>7, <2>2 DEF SourceShown
  <2>3. QED BY <2>1, <2>2
<1>10. p.shows # Unset => p.learn BY <1>2, <1>5, <1>7
<1>11. QED BY <1>3, <1>7, <1>8, <1>9, <1>10, PageFollows DEF Follows

LEMMA PostFollows ==
  ASSUME PagesInv, NEW b \in Editors, NEW pc \in {"posted", "reversing", "merging"},
         NEW L \in Lists, pc = "reversing" => L \in ShortLists, Post(b, pc, L)
  PROVE  PagesInv'
<1> DEFINE x == [pc |-> pc, list |-> L]
<1>1. x \in Exchanges /\ x.pc = pc BY DEF Exchanges
<1>2. page' = [page EXCEPT ![b] = [page[b] EXCEPT !.http = x]] /\ hub' = hub /\ page[b].http.pc = "none"
  BY PagesTyped DEF Post
<1> HIDE DEF x
<1>3. QED BY <1>1, <1>2, ExchangeFollows

\* what a page posts (see PostedKeeps)
LEMMA PostedFollows ==
  ASSUME PagesInv, NEW b \in Editors,
         \/ \E c \in page[b].list :
              \/ DeleteConnection(b, c) \/ ToggleConnection(b, c) \/ AskForReverse(b, c)
              \/ \E p \in Pairs : SaveEdited(b, c, p)
         \/ SaveRoutingSettings(b)
         \/ \E id, p \in Pairs : BeginImport(b, id, p)
  PROVE  PagesInv'
<1> DEFINE L == page[b].list
<1>1. L \in Lists /\ hub.list \in Lists BY PagesTyped, PageSteps
<1>2. ASSUME NEW c \in L, DeleteConnection(b, c) PROVE PagesInv'
  <2>1. L \ {c} \in Lists BY <1>1 DEF Lists, SourcesOnce
  <2>2. QED BY <1>2, <2>1, PostFollows DEF DeleteConnection
<1>3. ASSUME NEW c \in L, ToggleConnection(b, c) PROVE PagesInv'
  <2>1. c \in Connections BY <1>1 DEF Lists
  <2> DEFINE d == [c EXCEPT !.on = ~@]
  <2>2. d \in Connections /\ d.source = c.source BY <2>1 DEF Connections
  <2>3. Post(b, "posted", (L \ {c}) \cup {d}) BY <1>3 DEF ToggleConnection
  <2> HIDE DEF d
  <2>4. (L \ {c}) \cup {d} \in Lists BY <1>1, <2>2 DEF Lists, SourcesOnce
  <2>5. QED BY <2>3, <2>4, PostFollows
<1>4. ASSUME NEW c \in L, AskForReverse(b, c) PROVE PagesInv'
  <2>1. {c} \in Lists BY <1>1, SinglesAreLists DEF Lists
  <2>2. {c} \in ShortLists BY <1>4, <2>1 DEF AskForReverse, ShortLists
  <2>3. QED BY <1>4, <2>1, <2>2, PostFollows DEF AskForReverse
<1>5. ASSUME NEW c \in L, NEW p \in Pairs, SaveEdited(b, c, p) PROVE PagesInv'
  <2> DEFINE d == [c EXCEPT !.source = p[1], !.target = p[2]]
  <2>1. c \in Connections BY <1>1 DEF Lists
  <2>2. d \in Connections BY <2>1, PairFacts DEF Connections
  <2>3. Post(b, "posted", {e \in L : e.id # c.id /\ e.source # d.source} \cup {d})
    BY <1>5 DEF SaveEdited
  <2> HIDE DEF d
  <2>4. {e \in L : e.id # c.id /\ e.source # d.source} \cup {d} \in Lists
    BY <1>1, <2>2 DEF Lists, SourcesOnce
  <2>5. QED BY <2>3, <2>4, PostFollows
<1>6. CASE SaveRoutingSettings(b) BY <1>1, <1>6, PostFollows DEF SaveRoutingSettings
<1>7. ASSUME NEW id \in Pairs, NEW p \in Pairs, BeginImport(b, id, p) PROVE PagesInv'
  <2> DEFINE new == IF id \in {c.id : c \in hub.list} THEN MappingId(p) ELSE id
  <2>1. new \in Ids BY PairFacts DEF MappingId
  <2>2. Post(b, "merging", Upsert(hub.list, Connection(new, p))) BY <1>7 DEF BeginImport, Imported
  <2> HIDE DEF new
  <2>3. Upsert(hub.list, Connection(new, p)) \in Lists
    BY <1>1, <2>1, ConnectionFacts, UpsertKeeps
  <2>4. QED BY <2>2, <2>3, PostFollows
<1>8. QED BY <1>2, <1>3, <1>4, <1>5, <1>6, <1>7

LEMMA ChangeSettingsFollows ==
  ASSUME PagesInv, NEW s \in Setups, ChangeSettings(s) PROVE PagesInv'
<1>1. EditorsInv' BY ChangeSettingsKeeps, PagesTyped
<1>2. hub' = [hub EXCEPT !.settings = s] /\ page' = page BY DEF ChangeSettings
<1>3. hub'.list = hub.list /\ hub'.learn = hub.learn /\ hub'.source = hub.source
  BY <1>2, PagesTyped DEF Hubs
<1>4. StatusOf(hub') = StatusOf(hub) BY <1>3 DEF StatusOf
<1>5. \A b \in Editors : Follows(page[b], hub')
  BY <1>3, <1>4, PagesTyped DEF Follows, ToldLast, SourceShown, Current
<1>6. QED BY <1>1, <1>2, <1>3, <1>5, PagesTyped DEF PagesInv

LEMMA PagesStart == EditorsInit => PagesInv
<1> SUFFICES ASSUME EditorsInit PROVE PagesInv OBVIOUS
<1>1. PICK learn \in BOOLEAN, e \in Ends \cup {Unset}, p \in ClockOutputs, s \in Setups :
        /\ e # Unset => learn
        /\ hub = [list |-> {Connection(MappingId(p), p)}, learn |-> learn, source |-> e, settings |-> s,
                  routed |-> Effective({Connection(MappingId(p), p)}, s)]
        /\ page = [b \in Editors |->
             [list |-> hub.list, learn |-> learn, told |-> e, last |-> e, shows |-> e, loaded |-> learn,
              missed |-> FALSE, wire |-> <<>>, http |-> NoExchange, stale |-> FALSE]]
  BY DEF EditorsInit
<1>2. hub.learn = learn /\ hub.source = e BY <1>1
<1>3. \A b \in Editors :
        /\ page[b].list = hub.list /\ page[b].learn = learn /\ page[b].told = e /\ page[b].last = e
        /\ page[b].shows = e /\ page[b].wire = <<>> /\ page[b].http.pc = "none"
  BY <1>1 DEF NoExchange
<1>4. \A b \in Editors : Follows(page[b], hub)
  BY <1>1, <1>2, <1>3 DEF Follows, ToldLast, SourceShown, Current
<1>5. QED BY <1>1, <1>2, <1>4, EditorsInvInit DEF PagesInv

LEMMA PagesKept == PagesInv /\ [EditorsRuns \/ EditorsWorld]_editorsVars => PagesInv'
<1> SUFFICES ASSUME PagesInv, [EditorsRuns \/ EditorsWorld]_editorsVars PROVE PagesInv' OBVIOUS
<1>1. CASE UNCHANGED editorsVars
  <2>1. EditorsInv' BY <1>1, EditorsInvNext, PagesTyped
  <2>2. QED BY <1>1, <2>1 DEF editorsVars, PagesInv
<1>2. CASE EditorsRuns
  BY <1>2, StatusArrivesFollows, DatapointsLoadedFollows, SetConnectionsFollows, ReverseFollows,
     AnswerArrivesFollows, AskedStatusArrivesFollows DEF EditorsRuns
<1>3. ASSUME NEW b \in Editors, NEW c \in page[b].list,
             \/ DeleteConnection(b, c) \/ ToggleConnection(b, c) \/ AskForReverse(b, c)
             \/ \E p \in Pairs : SaveEdited(b, c, p)
      PROVE  PagesInv'
  BY <1>3, PostedFollows
<1>4. ASSUME NEW b \in Editors, SaveRoutingSettings(b) \/ \E id, p \in Pairs : BeginImport(b, id, p)
      PROVE  PagesInv'
  BY <1>4, PostedFollows
<1>5. CASE EditorsWorld
  BY <1>3, <1>4, <1>5, LearnToggleFollows, EmptySourceFollows, SelectLearnSourceFollows,
     CompleteLearnMappingFollows, RejectedFollows, ChangeSettingsFollows DEF EditorsWorld
<1>6. QED BY <1>1, <1>2, <1>5

\* A page that has nothing on its way to it shows what the server has, for any pages, data
\* points and default connections (renderStatus(), syncLearnSourceFromServer()).
THEOREM PagesSafety == EditorsSpec => [](EditorsTypeOK /\ PagesAgree)
<1>1. EditorsSpec => []PagesInv BY PagesStart, PagesKept, PTL DEF EditorsSpec
<1>2. ASSUME PagesInv PROVE EditorsTypeOK
  <2>1. \A b \in Editors : page[b].shows # Unset => page[b].learn BY <1>2, PagesTyped DEF Follows
  <2>2. \A L \in Lists : L \subseteq Connections BY DEF Lists
  <2>3. \A c \in hub.routed : c.source \in Ends /\ c.target \in Ends
    BY <1>2, PagesTyped DEF Hubs, Routable
  <2>4. \A x \in Exchanges :
          x.pc \in {"none", "posted", "reversing", "merging", "answered", "told"}
    BY DEF Exchanges
  <2>5. ASSUME NEW b \in Editors
        PROVE  /\ page[b].list \subseteq Connections /\ page[b].http.list \subseteq Connections
               /\ page[b].http.pc \in {"none", "posted", "reversing", "merging", "answered", "told"}
               /\ {page[b].told, page[b].last, page[b].shows} \subseteq Ends \cup {Unset}
               /\ {page[b].learn, page[b].loaded, page[b].missed, page[b].stale} \subseteq BOOLEAN
    <3>1. page[b] \in Pages BY <1>2, PagesTyped
    <3>2. /\ page[b].list \in Lists /\ page[b].http.list \in Lists /\ page[b].http \in Exchanges
          /\ page[b].told \in MaybeEnd /\ page[b].last \in MaybeEnd /\ page[b].shows \in MaybeEnd
      BY <3>1, PageSteps
    <3>3. {page[b].learn, page[b].loaded, page[b].missed, page[b].stale} \subseteq BOOLEAN
      BY <3>1 DEF Pages
    <3>4. QED BY <2>2, <2>4, <3>2, <3>3 DEF MaybeEnd
  <2>6. /\ hub.list \subseteq Connections /\ hub.settings \in Setups /\ hub.learn \in BOOLEAN
        /\ hub.source \in Ends \cup {Unset} /\ (hub.source # Unset => hub.learn)
    BY <1>2, <2>2, PagesTyped DEF Hubs, MaybeEnd
  <2>7. QED BY <2>1, <2>3, <2>5, <2>6 DEF EditorsTypeOK
<1>3. ASSUME PagesInv PROVE PagesAgree
  <2>1. SUFFICES ASSUME NEW b \in Editors, ~page[b].stale, page[b].wire = <<>>, page[b].http.pc = "none"
                 PROVE  /\ page[b].list = hub.list /\ page[b].learn = hub.learn
                        /\ hub.source # Unset /\ ~page[b].missed => page[b].shows = hub.source
    BY DEF PagesAgree
  <2>2. Follows(page[b], hub) /\ (hub.source # Unset => hub.learn) BY <1>3, PagesTyped
  <2>3. Current(page[b], hub) BY <2>1, <2>2 DEF Follows, ToldLast
  <2>4. ~\E i \in DOMAIN page[b].wire : page[b].wire[i].source # page[b].last BY <2>1
  <2>5. QED BY <2>2, <2>3, <2>4 DEF Follows, SourceShown, Current
<1>4. QED BY <1>1, <1>2, <1>3, PTL

(***************************************************************************)
(* V. Browsers are told the newest value of a monitored point              *)
(* (MonitorStream).                                                        *)
(***************************************************************************)

MaybeValue == 0 .. Points
Monitors == [newest : 0 .. Points - 1, pending : MaybeValue, task : SUBSET Flushers,
             learn : BOOLEAN, behind : BOOLEAN, calm : BOOLEAN]
Flushings == [pc : {"none", "sleeping", "first", "second", "direct"}, payload : MaybeValue,
              left : SUBSET Browsers, size : 0 .. Cardinality(Browsers)]
Views == [in : BOOLEAN, replay : MaybeValue, shows : MaybeValue]

\* A browser shows the newest value, or a replay or a broadcast of it is on its way.
Reaches(b) ==
  \/ view[b].shows = monitor.newest
  \/ view[b].replay = monitor.newest
  \/ \E f \in Flushers : Sending(f) /\ b \in task[f].left

\* What waits is the newest value, unless the store left it behind; and after a broadcast
\* without the exceptions of NewestIsShown so is what is under way, to browsers that have
\* not come or gone meanwhile.
Ordered ==
  /\ monitor.pending # Nothing => monitor.behind \/ monitor.pending = monitor.newest
  /\ monitor.calm /\ monitor.pending = Nothing =>
       /\ \A b \in Browsing : view[b].replay \in {Nothing, monitor.newest} /\ Reaches(b)
       /\ \A f \in Flushers : Sending(f) /\ task[f].left # {} =>
            task[f].payload = monitor.newest /\ task[f].size = Cardinality(Browsing)

\* The task that is remembered will take what waits.
NewestRemembered ==
  /\ \A f \in Flushers : f \in monitor.task => task[f].pc \in {"sleeping", "first"}
  /\ \A f \in Flushers : task[f].pc \in {"none", "sleeping"} => task[f].left = {}
  /\ \A f \in Flushers : task[f].left # {} => task[f].size # 0
  /\ monitor.pending # Nothing => \E f \in Flushers : task[f].pc \in {"sleeping", "first"}

MonitorInv == MonitorTypeOK /\ NewestRemembered /\ Ordered

LEMMA MonitorTyped ==
  MonitorTypeOK <=> /\ monitor \in Monitors /\ task \in [Flushers -> Flushings]
                    /\ view \in [Browsers -> Views] /\ Cardinality(monitor.task) <= 1
BY DEF MonitorTypeOK, Monitors, Flushings, Views, MaybeValue

LEMMA BrowsingCounted ==
  {0, Cardinality(Browsing)} \subseteq 0 .. Cardinality(Browsers)
<1>1. Browsing \subseteq Browsers BY DEF Browsing
<1>2. IsFiniteSet(Browsers) BY MonitorAssumption
<1>3. Cardinality(Browsing) <= Cardinality(Browsers) /\ IsFiniteSet(Browsing) BY <1>1, <1>2, FS_Subset
<1>4. Cardinality(Browsing) \in Nat /\ Cardinality(Browsers) \in Nat BY <1>2, <1>3, FS_CardinalityType
<1>5. QED BY <1>3, <1>4

LEMMA PointValues ==
  Nothing \in MaybeValue /\ 0 .. Points - 1 \subseteq MaybeValue /\ Nothing \notin 0 .. Points - 1
BY MonitorAssumption DEF Nothing, MaybeValue

LEMMA MonitorStarts == MonitorInit => MonitorInv
<1> SUFFICES ASSUME MonitorInit PROVE MonitorInv OBVIOUS
<1>1. Cardinality({}) = 0 BY FS_EmptySet
<1>2. 0 \in 0 .. Cardinality(Browsers) BY BrowsingCounted
<1>3. MonitorTypeOK
  BY <1>1, <1>2, MonitorAssumption, PointValues
     DEF MonitorInit, MonitorTypeOK, Idle, Nothing, MaybeValue
<1>4. NewestRemembered BY DEF MonitorInit, NewestRemembered, Idle, Nothing
<1>5. Ordered
  <2>1. monitor.pending = Nothing /\ Browsing = {} /\ \A f \in Flushers : ~Sending(f)
    BY DEF MonitorInit, Browsing, Idle, Sending
  <2>2. QED BY <2>1 DEF Ordered
<1>6. QED BY <1>3, <1>4, <1>5 DEF MonitorInv

-----------------------------------------------------------------------------
\* what a broadcast does to the flusher and to the browsers
LEMMA BroadcastFields ==
  ASSUME MonitorTypeOK, NEW f \in Flushers, NEW pc \in {"first", "second", "direct"}, NEW v \in MaybeValue,
         Broadcast(f, pc, v)
  PROVE  /\ task' \in [Flushers -> Flushings] /\ view' \in [Browsers -> Views]
         /\ \A g \in Flushers \ {f} : task'[g] = task[g]
         /\ task'[f].pc = pc /\ task'[f].left \subseteq Browsing
         /\ task'[f].left # {} => task'[f].payload = v /\ task'[f].size = Cardinality(Browsing)
         /\ task'[f].left # {} => task'[f].size # 0
         /\ \A b \in Browsers : view'[b].in = view[b].in /\ view'[b].replay = view[b].replay
         /\ \A b \in Browsing : view'[b].shows = v \/ b \in task'[f].left
<1>1. /\ task \in [Flushers -> Flushings] /\ view \in [Browsers -> Views] /\ Browsing \subseteq Browsers
  BY MonitorTyped DEF Browsing
<1>2. 0 \in 0 .. Cardinality(Browsers) /\ Cardinality(Browsing) \in 0 .. Cardinality(Browsers)
  BY BrowsingCounted
<1>6. Browsing # {} => Cardinality(Browsing) # 0
  BY <1>1, MonitorAssumption, FS_Subset, FS_EmptySet
<1>3. CASE Browsing = {} /\ task' = [task EXCEPT ![f] = [Idle EXCEPT !.pc = pc]] /\ view' = view
  <2>1. [Idle EXCEPT !.pc = pc] \in Flushings /\ [Idle EXCEPT !.pc = pc].pc = pc /\ [Idle EXCEPT !.pc = pc].left = {}
    BY <1>2, PointValues DEF Idle, Flushings
  <2> DEFINE s == [Idle EXCEPT !.pc = pc]
  <2> HIDE DEF s
  <2>2. task' = [task EXCEPT ![f] = s] /\ s \in Flushings /\ s.pc = pc /\ s.left = {}
    BY <1>3, <2>1 DEF s
  <2>3. /\ task' \in [Flushers -> Flushings] /\ task'[f] = s
        /\ \A g \in Flushers \ {f} : task'[g] = task[g]
    BY <1>1, <2>2
  <2>4. QED BY <1>1, <1>3, <2>2, <2>3
<1>4. ASSUME NEW b \in Browsing,
             view' = [view EXCEPT ![b].shows = v],
             task' = [task EXCEPT ![f] = [pc |-> pc, payload |-> v, left |-> Browsing \ {b},
                                          size |-> Cardinality(Browsing)]]
      PROVE  /\ task' \in [Flushers -> Flushings] /\ view' \in [Browsers -> Views]
             /\ \A g \in Flushers \ {f} : task'[g] = task[g]
             /\ task'[f].pc = pc /\ task'[f].left \subseteq Browsing
             /\ task'[f].left # {} => task'[f].payload = v /\ task'[f].size = Cardinality(Browsing)
             /\ task'[f].left # {} => task'[f].size # 0
             /\ \A c \in Browsers : view'[c].in = view[c].in /\ view'[c].replay = view[c].replay
             /\ \A c \in Browsing : view'[c].shows = v \/ c \in task'[f].left
  <2> DEFINE s == [pc |-> pc, payload |-> v, left |-> Browsing \ {b}, size |-> Cardinality(Browsing)]
  <2>1. s \in Flushings BY <1>1, <1>2 DEF Flushings
  <2>2. s.pc = pc /\ s.left = Browsing \ {b} /\ s.payload = v /\ s.size = Cardinality(Browsing) OBVIOUS
  <2>3. task' = [task EXCEPT ![f] = s] BY <1>4
  <2> HIDE DEF s
  <2>4. /\ task' \in [Flushers -> Flushings] /\ task'[f] = s
        /\ \A g \in Flushers \ {f} : task'[g] = task[g]
    BY <1>1, <2>1, <2>3
  <2>5. b \in Browsers /\ view[b] \in Views BY <1>1
  <2>6. [view[b] EXCEPT !.shows = v] \in Views BY <2>5 DEF Views
  <2>7. view' = [view EXCEPT ![b] = [view[b] EXCEPT !.shows = v]] BY <1>1, <1>4, <2>5
  <2>8. /\ view' \in [Browsers -> Views] /\ view'[b] = [view[b] EXCEPT !.shows = v]
        /\ \A c \in Browsers \ {b} : view'[c] = view[c]
    BY <1>1, <2>5, <2>6, <2>7
  <2>9. view'[b].shows = v /\ view'[b].in = view[b].in /\ view'[b].replay = view[b].replay
    BY <2>5, <2>8 DEF Views
  <2>10. QED BY <1>6, <2>2, <2>4, <2>8, <2>9
<1>5. QED BY <1>3, <1>4 DEF Broadcast

LEMMA SameBrowsing ==
  ASSUME \A b \in Browsers : view'[b].in = view[b].in
  PROVE  Browsing' = Browsing
BY DEF Browsing

\* a broadcast that overtakes nothing brings its value to every browser
LEMMA InOrder ==
  ASSUME MonitorTypeOK, NEW f \in Flushers, NEW pc \in {"first", "second", "direct"},
         NEW v \in MaybeValue, Broadcast(f, pc, v),
         monitor'.calm /\ monitor'.pending = Nothing => Undisturbed(f) /\ monitor'.newest = v,
         monitor'.pending # Nothing => monitor'.behind
  PROVE  Ordered'
<1>2. /\ \A g \in Flushers \ {f} : task'[g] = task[g]
      /\ task'[f].pc = pc /\ task'[f].left \subseteq Browsing
      /\ task'[f].left # {} => task'[f].payload = v /\ task'[f].size = Cardinality(Browsing)
      /\ \A b \in Browsers : view'[b].in = view[b].in /\ view'[b].replay = view[b].replay
      /\ \A b \in Browsing : view'[b].shows = v \/ b \in task'[f].left
  BY BroadcastFields
<1>3. Browsing' = Browsing BY <1>2, SameBrowsing
<1>4. SUFFICES ASSUME monitor'.calm, monitor'.pending = Nothing PROVE Ordered' BY DEF Ordered
<1>5. /\ monitor'.pending = Nothing /\ monitor'.newest = v
      /\ \A g \in Flushers \ {f} : ~Sending(g)
      /\ \A b \in Browsing : view[b].replay = Nothing
  BY <1>4 DEF Undisturbed
<1>6. \A g \in Flushers \ {f} : ~Sending(g)' BY <1>2, <1>5 DEF Sending
<1>7. Sending(f)' BY <1>2 DEF Sending
<1>8. ASSUME NEW b \in Browsing'
      PROVE  view'[b].replay \in {Nothing, monitor'.newest} /\ Reaches(b)'
  <2>1. b \in Browsing /\ b \in Browsers BY <1>3, <1>8 DEF Browsing
  <2>2. view'[b].replay = Nothing BY <1>2, <1>5, <2>1
  <2>3. view'[b].shows = v \/ b \in task'[f].left BY <1>2, <2>1
  <2>4. QED BY <1>5, <1>7, <2>2, <2>3 DEF Reaches
<1>9. ASSUME NEW g \in Flushers, Sending(g)', task'[g].left # {}
      PROVE  task'[g].payload = monitor'.newest /\ task'[g].size = Cardinality(Browsing')
  BY <1>2, <1>3, <1>5, <1>6, <1>9
<1>10. QED BY <1>5, <1>8, <1>9 DEF Ordered
-----------------------------------------------------------------------------
LEMMA NextBrowserKeeps ==
  ASSUME MonitorInv, NEW f \in Flushers, NextBrowser(f) PROVE MonitorInv'
<1>1. /\ monitor \in Monitors /\ task \in [Flushers -> Flushings] /\ view \in [Browsers -> Views]
      /\ Cardinality(monitor.task) <= 1
  BY MonitorTyped DEF MonitorInv
<1>2. PICK b \in task[f].left :
        /\ view' = [view EXCEPT ![b].shows = IF view[b].in THEN task[f].payload ELSE @]
        /\ task' = [task EXCEPT ![f].left = @ \ {b}]
  BY DEF NextBrowser
<1>3. Sending(f) /\ monitor' = monitor BY DEF NextBrowser
<1>4. task[f] \in Flushings /\ b \in Browsers /\ view[b] \in Views BY <1>1 DEF Flushings
<1> DEFINE s == [task[f] EXCEPT !.left = @ \ {b}]
           w == [view[b] EXCEPT !.shows = IF view[b].in THEN task[f].payload ELSE @]
<1>5. /\ s \in Flushings /\ s.pc = task[f].pc /\ s.left = task[f].left \ {b}
      /\ s.payload = task[f].payload /\ s.size = task[f].size
  BY <1>4 DEF Flushings
<1>6. /\ w \in Views /\ w.in = view[b].in /\ w.replay = view[b].replay
      /\ view[b].in => w.shows = task[f].payload
  BY <1>4 DEF Views, Flushings
<1>7. task' = [task EXCEPT ![f] = s] /\ view' = [view EXCEPT ![b] = w] BY <1>1, <1>2, <1>4
<1> HIDE DEF s, w
<1>8. /\ task' \in [Flushers -> Flushings] /\ task'[f] = s
      /\ \A g \in Flushers \ {f} : task'[g] = task[g]
      /\ view' \in [Browsers -> Views] /\ view'[b] = w
      /\ \A c \in Browsers \ {b} : view'[c] = view[c]
  BY <1>1, <1>4, <1>5, <1>6, <1>7
<1>9. MonitorTypeOK' BY <1>1, <1>3, <1>8, MonitorTyped DEF MonitorTypeOK, Monitors, Flushings, Views, MaybeValue
<1>10. \A g \in Flushers : /\ task'[g].pc = task[g].pc /\ task'[g].left \subseteq task[g].left
                            /\ task'[g].size = task[g].size
  BY <1>5, <1>8
<1>11. NewestRemembered' BY <1>3, <1>10 DEF MonitorInv, NewestRemembered
<1>12. Browsing' = Browsing BY <1>6, <1>8 DEF Browsing
<1>13. Ordered'
  <2>1. SUFFICES ASSUME monitor.calm, monitor.pending = Nothing
                 PROVE  /\ \A c \in Browsing : view'[c].replay \in {Nothing, monitor.newest} /\ Reaches(c)'
                        /\ \A g \in Flushers : Sending(g)' /\ task'[g].left # {} =>
                             task'[g].payload = monitor.newest /\ task'[g].size = Cardinality(Browsing)
    BY <1>3, <1>12 DEF MonitorInv, Ordered
  <2>2. /\ \A c \in Browsing : view[c].replay \in {Nothing, monitor.newest} /\ Reaches(c)
        /\ \A g \in Flushers : Sending(g) /\ task[g].left # {} =>
             task[g].payload = monitor.newest /\ task[g].size = Cardinality(Browsing)
    BY <2>1 DEF MonitorInv, Ordered
  <2>3. \A g \in Flushers : Sending(g)' <=> Sending(g) BY <1>10 DEF Sending
  <2>4. ASSUME NEW c \in Browsing PROVE view'[c].replay \in {Nothing, monitor.newest} /\ Reaches(c)'
    <3>1. c \in Browsers /\ view[c].in BY DEF Browsing
    <3>2. view'[c].replay = view[c].replay BY <1>6, <1>8, <3>1
    <3>3. CASE c = b
      BY <1>3, <1>6, <1>8, <2>2, <3>1, <3>2, <3>3 DEF Reaches
    <3>4. CASE c # b
      <4>1. view'[c] = view[c] BY <1>8, <3>1, <3>4
      <4>2. \A g \in Flushers : c \in task[g].left => c \in task'[g].left
        BY <1>5, <1>8, <3>4
      <4>3. QED BY <1>3, <2>2, <2>3, <4>1, <4>2 DEF Reaches
    <3>5. QED BY <3>3, <3>4
  <2>5. ASSUME NEW g \in Flushers, Sending(g)', task'[g].left # {}
        PROVE  task'[g].payload = monitor.newest /\ task'[g].size = Cardinality(Browsing)
    BY <1>5, <1>8, <1>10, <2>2, <2>3, <2>5
  <2>6. QED BY <2>4, <2>5
<1>14. QED BY <1>9, <1>11, <1>13 DEF MonitorInv

\* one flusher goes on without a broadcast, and had nothing left to send to a browser
LEMMA FlusherGoesOn ==
  ASSUME MonitorInv, NEW f \in Flushers, NEW s \in Flushings,
         task' = [task EXCEPT ![f] = s], view' = view, s.left = {}, monitor' \in Monitors,
         Cardinality(monitor'.task) <= 1,
         monitor'.newest = monitor.newest, monitor'.pending = monitor.pending,
         monitor'.behind = monitor.behind, monitor'.calm => monitor.calm,
         monitor.pending = Nothing /\ monitor.calm => ~Sending(f) \/ task[f].left = {},
         NewestRemembered'
  PROVE  MonitorInv'
<1>1. /\ task \in [Flushers -> Flushings] /\ view \in [Browsers -> Views]
  BY MonitorTyped DEF MonitorInv
<1>2. /\ task' \in [Flushers -> Flushings] /\ task'[f] = s
      /\ \A g \in Flushers \ {f} : task'[g] = task[g]
  BY <1>1
<1>3. MonitorTypeOK' BY <1>1, <1>2 DEF MonitorTypeOK, Monitors, Flushings, Views, MaybeValue
<1>4. Browsing' = Browsing BY DEF Browsing
<1>5. \A g \in Flushers : task'[g].left # {} => g # f /\ (Sending(g)' <=> Sending(g)) /\ task'[g] = task[g]
  BY <1>2 DEF Sending
<1>6. monitor.pending = Nothing /\ monitor.calm =>
        \A g \in Flushers : Sending(g) /\ task[g].left # {} => g # f
  OBVIOUS
<1>7. ASSUME monitor'.calm, monitor.pending = Nothing, NEW b \in Browsing
      PROVE  view'[b].replay \in {Nothing, monitor'.newest} /\ Reaches(b)'
  <2>1. view[b].replay \in {Nothing, monitor.newest} /\ Reaches(b)
    BY <1>7 DEF MonitorInv, Ordered
  <2>2. \A g \in Flushers : Sending(g) /\ b \in task[g].left => Sending(g)' /\ b \in task'[g].left
    BY <1>2, <1>6, <1>7 DEF Sending
  <2>3. QED BY <2>1, <2>2 DEF Reaches
<1>8. Ordered' BY <1>4, <1>5, <1>7 DEF MonitorInv, Ordered
<1>9. QED BY <1>3, <1>8 DEF MonitorInv

\* nothing is left of a broadcast that is over, if browsers have not come or gone
LEMMA NothingLeft ==
  ASSUME MonitorInv, NEW f \in Flushers, Sent(f), monitor.calm, monitor.pending = Nothing
  PROVE  task[f].left = {}
BY DEF MonitorInv, Ordered, Sent, Raises

LEMMA OfferKeeps ==
  ASSUME MonitorInv, NEW v \in 0 .. Points - 1, Offer(v) PROVE MonitorInv'
<1>1. /\ monitor \in Monitors /\ task \in [Flushers -> Flushings] /\ view \in [Browsers -> Views]
      /\ Cardinality(monitor.task) <= 1
  BY MonitorTyped DEF MonitorInv
<1>2. v \in MaybeValue /\ v # Nothing BY PointValues
<1>3. ASSUME NEW f \in Flushers, task[f].pc = "none", Broadcast(f, "direct", v),
             monitor' = [monitor EXCEPT !.newest = v, !.calm = Undisturbed(f),
                          !.behind = monitor.pending # Nothing]
      PROVE  MonitorInv'
  <2>1. PICK calm \in BOOLEAN, behind \in BOOLEAN :
          calm = Undisturbed(f) /\ behind = (monitor.pending # Nothing)
    <3>1. Undisturbed(f) \in BOOLEAN /\ (monitor.pending # Nothing) \in BOOLEAN BY DEF Undisturbed
    <3>2. QED BY <3>1
  <2>2. monitor' = [monitor EXCEPT !.newest = v, !.calm = calm, !.behind = behind] BY <1>3, <2>1
  <2>3. /\ monitor' \in Monitors /\ monitor'.task = monitor.task /\ monitor'.pending = monitor.pending
        /\ monitor'.newest = v /\ monitor'.calm = calm /\ monitor'.behind = behind
    BY <1>1, <2>2 DEF Monitors
  <2>4. /\ task' \in [Flushers -> Flushings] /\ view' \in [Browsers -> Views]
        /\ \A g \in Flushers \ {f} : task'[g] = task[g]
        /\ task'[f].pc = "direct" /\ (task'[f].left # {} => task'[f].size # 0)
    BY <1>2, <1>3, BroadcastFields DEF MonitorInv
  <2>5. MonitorTypeOK' BY <1>1, <2>3, <2>4 DEF MonitorTypeOK, Monitors, Flushings, Views, MaybeValue
  <2>6. NewestRemembered' BY <1>3, <2>3, <2>4 DEF MonitorInv, NewestRemembered
  <2>7. /\ monitor'.calm /\ monitor'.pending = Nothing => Undisturbed(f) /\ monitor'.newest = v
        /\ monitor'.pending # Nothing => monitor'.behind
    BY <2>1, <2>3
  <2>8. MonitorTypeOK BY DEF MonitorInv
  <2>9. Ordered' BY <1>2, <1>3, <2>7, <2>8, InOrder
  <2>10. QED BY <2>5, <2>6, <2>9 DEF MonitorInv
<1>4. ASSUME NEW f \in Flushers, task[f].pc = "none", view' = view,
             monitor' = [monitor EXCEPT !.newest = v, !.pending = v, !.behind = FALSE,
                          !.task = IF @ = {} THEN {f} ELSE @],
             task' = IF monitor.task = {} THEN [task EXCEPT ![f].pc = "sleeping"] ELSE task
      PROVE  MonitorInv'
  <2>1. Cardinality({f}) = 1 BY FS_Singleton
  <2> DEFINE tasks == IF monitor.task = {} THEN {f} ELSE monitor.task
  <2>2. tasks \in SUBSET Flushers /\ Cardinality(tasks) <= 1 BY <1>1, <2>1 DEF Monitors
  <2>3. monitor' = [monitor EXCEPT !.newest = v, !.pending = v, !.behind = FALSE, !.task = tasks] BY <1>1, <1>4 DEF Monitors
  <2>4. tasks = {} => FALSE OBVIOUS
  <2>5. monitor.task = {} => tasks = {f} OBVIOUS
  <2>6. monitor.task # {} => tasks = monitor.task OBVIOUS
  <2> HIDE DEF tasks
  <2>7. /\ monitor' \in Monitors /\ monitor'.task = tasks /\ monitor'.pending = v /\ monitor'.newest = v
        /\ monitor'.pending # Nothing
    BY <1>1, <1>2, <2>2, <2>3 DEF Monitors
  <2>8. /\ task' \in [Flushers -> Flushings] /\ \A g \in Flushers \ {f} : task'[g] = task[g]
        /\ monitor.task = {} => /\ task'[f].pc = "sleeping" /\ task'[f].left = task[f].left
                                /\ task'[f].size = task[f].size
        /\ monitor.task # {} => task' = task
    BY <1>1, <1>4 DEF Flushings
  <2>9. MonitorTypeOK' BY <1>1, <1>4, <2>2, <2>7, <2>8 DEF MonitorTypeOK, Monitors, Flushings, Views, MaybeValue
  <2>10. NewestRemembered'
    <3>1. CASE monitor.task = {}
      BY <1>4, <2>5, <2>7, <2>8, <3>1 DEF MonitorInv, NewestRemembered
    <3>2. CASE monitor.task # {}
      <4>1. PICK g \in monitor.task : TRUE BY <3>2
      <4>2. g \in Flushers /\ task[g].pc \in {"sleeping", "first"}
        BY <1>1, <4>1 DEF Monitors, MonitorInv, NewestRemembered
      <4>3. QED BY <2>6, <2>7, <2>8, <3>2, <4>2 DEF MonitorInv, NewestRemembered
    <3>3. QED BY <3>1, <3>2
  <2>11. Ordered'
    <3>1. Nothing' = Nothing BY DEF Nothing
    <3>2. QED BY <2>7, <3>1 DEF Ordered
  <2>12. QED BY <2>9, <2>10, <2>11 DEF MonitorInv
<1>5. QED BY <1>3, <1>4 DEF Offer

\* nothing is under way to browsers that are all gone
LEMMA UnseenKeeps ==
  ASSUME MonitorInv, NEW v \in 0 .. Points - 1, Unseen(v) PROVE MonitorInv'
<1>1. /\ monitor \in Monitors /\ task \in [Flushers -> Flushings] /\ view \in [Browsers -> Views]
      /\ Cardinality(monitor.task) <= 1
  BY MonitorTyped DEF MonitorInv
<1>2. PICK behind \in BOOLEAN : behind = (monitor.pending # Nothing) OBVIOUS
<1>3. /\ monitor' = [monitor EXCEPT !.newest = v, !.behind = behind] /\ task' = task /\ view' = view
      /\ Browsing = {}
  BY <1>2 DEF Unseen
<1>4. /\ monitor' \in Monitors /\ monitor'.task = monitor.task /\ monitor'.pending = monitor.pending
      /\ monitor'.calm = monitor.calm /\ monitor'.behind = behind
  BY <1>1, <1>3 DEF Monitors
<1>5. MonitorTypeOK' BY <1>1, <1>3, <1>4 DEF MonitorTypeOK, Monitors, Flushings, Views, MaybeValue
<1>6. NewestRemembered' BY <1>3, <1>4 DEF MonitorInv, NewestRemembered
<1>7. Ordered'
  <2>1. Browsing' = {} BY <1>3 DEF Browsing
  <2>2. ASSUME monitor.calm, monitor.pending = Nothing, NEW f \in Flushers, Sending(f), task[f].left # {}
        PROVE  FALSE
    <3>1. task[f].size = Cardinality(Browsing) BY <2>2 DEF MonitorInv, Ordered
    <3>2. task[f].size # 0 BY <2>2 DEF MonitorInv, NewestRemembered
    <3>3. QED BY <1>3, <3>1, <3>2, FS_EmptySet
  <2>3. \A f \in Flushers : Sending(f)' <=> Sending(f) BY <1>3 DEF Sending
  <2>4. QED BY <1>2, <1>3, <1>4, <2>1, <2>2, <2>3 DEF Ordered
<1>8. QED BY <1>5, <1>6, <1>7 DEF MonitorInv

\* what waits is taken from monitor m, in which a task may have taken itself out
LEMMA FlushKeeps ==
  ASSUME MonitorInv, NEW f \in Flushers, NEW pc \in {"first", "second"}, NEW m \in Monitors,
         m.newest = monitor.newest, m.pending = monitor.pending, m.behind = monitor.behind,
         m.task = {} \/ (m.task = monitor.task /\ pc = "first"),
         monitor.pending # Nothing, Flush(f, pc, m)
  PROVE  MonitorInv'
<1>1. /\ monitor \in Monitors /\ task \in [Flushers -> Flushings] /\ view \in [Browsers -> Views]
      /\ Cardinality(monitor.task) <= 1
  BY MonitorTyped DEF MonitorInv
<1>2. m.pending \in MaybeValue /\ Nothing \in MaybeValue /\ Cardinality({}) = 0
  BY PointValues, FS_EmptySet DEF Monitors
<1>3. /\ Broadcast(f, pc, m.pending)
      /\ monitor' = [m EXCEPT !.pending = Nothing, !.behind = FALSE, !.calm = Undisturbed(f) /\ ~m.behind]
  BY DEF Flush
<1>4. PICK calm \in BOOLEAN : calm = (Undisturbed(f) /\ ~m.behind) OBVIOUS
<1>5. monitor' = [m EXCEPT !.pending = Nothing, !.behind = FALSE, !.calm = calm] BY <1>3, <1>4
<1>6. /\ monitor' \in Monitors /\ monitor'.task = m.task /\ monitor'.pending = Nothing
      /\ monitor'.newest = m.newest /\ monitor'.calm = calm
  BY <1>2, <1>5 DEF Monitors
<1>7. /\ task' \in [Flushers -> Flushings] /\ view' \in [Browsers -> Views]
      /\ \A g \in Flushers \ {f} : task'[g] = task[g]
      /\ task'[f].pc = pc /\ (task'[f].left # {} => task'[f].size # 0)
  BY <1>2, <1>3, BroadcastFields DEF MonitorInv
<1>8. MonitorTypeOK'
  <2>1. Cardinality(monitor'.task) <= 1
    <3>1. CASE m.task = monitor.task BY <1>1, <1>6, <3>1
    <3>2. CASE m.task = {} BY <1>2, <1>6, <3>2
    <3>3. QED BY <3>1, <3>2
  <2>2. QED BY <1>6, <1>7, <2>1 DEF MonitorTypeOK, Monitors, Flushings, Views, MaybeValue
<1>9. NewestRemembered' BY <1>6, <1>7 DEF MonitorInv, NewestRemembered
<1>10. /\ monitor'.calm /\ monitor'.pending = Nothing => Undisturbed(f) /\ monitor'.newest = m.pending
       /\ monitor'.pending # Nothing => monitor'.behind
  BY <1>4, <1>6 DEF MonitorInv, Ordered
<1>11. MonitorTypeOK BY DEF MonitorInv
<1>12. Ordered' BY <1>2, <1>3, <1>10, <1>11, InOrder
<1>13. QED BY <1>8, <1>9, <1>12 DEF MonitorInv

LEMMA WakesKeeps ==
  ASSUME MonitorInv, NEW f \in Flushers, Wakes(f) PROVE MonitorInv'
<1>1. /\ monitor \in Monitors /\ task \in [Flushers -> Flushings] /\ Cardinality(monitor.task) <= 1
  BY MonitorTyped DEF MonitorInv
<1>2. CASE monitor.pending = Nothing
  <2> DEFINE s == [task[f] EXCEPT !.pc = "first"]
  <2>1. task' = [task EXCEPT ![f] = s] /\ monitor' = monitor /\ view' = view /\ task[f].pc = "sleeping"
    BY <1>1, <1>2 DEF Wakes
  <2>2. task[f].left = {} BY <2>1 DEF MonitorInv, NewestRemembered
  <2>3. s \in Flushings /\ s.pc = "first" /\ s.left = {} BY <1>1, <2>2 DEF Flushings
  <2> HIDE DEF s
  <2>4. NewestRemembered' BY <1>1, <1>2, <2>1, <2>3 DEF MonitorInv, NewestRemembered
  <2>5. QED BY <1>1, <2>1, <2>2, <2>3, <2>4, FlusherGoesOn
<1>3. CASE monitor.pending # Nothing
  <2>1. Flush(f, "first", monitor) BY <1>3 DEF Wakes
  <2>2. QED BY <1>1, <1>3, <2>1, FlushKeeps
<1>4. QED BY <1>2, <1>3

LEMMA IdleFlusher == Idle \in Flushings /\ Idle.pc = "none" /\ Idle.left = {}
BY BrowsingCounted, PointValues DEF Idle, Flushings

LEMMA FlushedOnceKeeps ==
  ASSUME MonitorInv, NEW f \in Flushers, FlushedOnce(f) PROVE MonitorInv'
<1> DEFINE m == [monitor EXCEPT !.task = {}]
<1>1. /\ monitor \in Monitors /\ task \in [Flushers -> Flushings] /\ Cardinality({}) = 0
  BY MonitorTyped, FS_EmptySet DEF MonitorInv
<1>2. /\ m \in Monitors /\ m.newest = monitor.newest /\ m.pending = monitor.pending
      /\ m.calm = monitor.calm /\ m.behind = monitor.behind /\ m.task = {}
  BY <1>1 DEF Monitors
<1>3. CASE monitor.pending # Nothing
  <2>1. Flush(f, "second", m) BY <1>2, <1>3 DEF FlushedOnce
  <2> HIDE DEF m
  <2>2. QED BY <1>2, <1>3, <2>1, FlushKeeps
<1>4. CASE monitor.pending = Nothing
  <2>1. task' = [task EXCEPT ![f] = Idle] /\ monitor' = m /\ view' = view /\ Sent(f)
    BY <1>2, <1>4 DEF FlushedOnce
  <2> HIDE DEF m
  <2>2. NewestRemembered' BY <1>1, <1>2, <1>4, <2>1, IdleFlusher DEF MonitorInv, NewestRemembered
  <2>3. PICK s \in Flushings : s = Idle /\ s.left = {} BY IdleFlusher
  <2>4. task' = [task EXCEPT ![f] = s] BY <2>1, <2>3
  <2>5. /\ monitor' \in Monitors /\ Cardinality(monitor'.task) <= 1
        /\ monitor'.newest = monitor.newest /\ monitor'.pending = monitor.pending
        /\ monitor'.calm = monitor.calm /\ monitor'.behind = monitor.behind
    BY <1>1, <1>2, <2>1
  <2>6. monitor.pending = Nothing /\ monitor.calm => ~Sending(f) \/ task[f].left = {}
    BY <2>1, NothingLeft
  <2>7. QED BY <2>1, <2>2, <2>3, <2>4, <2>5, <2>6, FlusherGoesOn
<1>5. QED BY <1>3, <1>4

LEMMA FlushedTwiceKeeps ==
  ASSUME MonitorInv, NEW f \in Flushers, FlushedTwice(f) PROVE MonitorInv'
<1> DEFINE again == monitor.pending # Nothing /\ ~Raises(f)
           s == [Idle EXCEPT !.pc = IF again THEN "sleeping" ELSE "none"]
<1>1. /\ monitor \in Monitors /\ task \in [Flushers -> Flushings] /\ Cardinality({f}) = 1
      /\ Cardinality(monitor.task) <= 1
  BY MonitorTyped, FS_Singleton DEF MonitorInv
<1>2. /\ task' = [task EXCEPT ![f] = s] /\ view' = view /\ Sent(f) /\ task[f].pc = "second"
      /\ monitor' = IF again THEN [monitor EXCEPT !.task = {f}] ELSE monitor
  BY DEF FlushedTwice
<1>3. /\ s \in Flushings /\ s.left = {} /\ (again => s.pc = "sleeping") /\ (~again => s.pc = "none")
  BY IdleFlusher DEF Flushings
<1> HIDE DEF s, again
<1>4. /\ monitor' \in Monitors /\ monitor'.newest = monitor.newest /\ monitor'.pending = monitor.pending
      /\ monitor'.calm = monitor.calm /\ monitor'.behind = monitor.behind /\ Cardinality(monitor'.task) <= 1
      /\ (again => monitor'.task = {f}) /\ (~again => monitor'.task = monitor.task)
  BY <1>1, <1>2 DEF Monitors
<1>5. task'[f] = s /\ \A g \in Flushers \ {f} : task'[g] = task[g] BY <1>1, <1>2, <1>3
<1>6. NewestRemembered'
  <2>1. CASE again BY <1>3, <1>4, <1>5, <2>1 DEF MonitorInv, NewestRemembered
  <2>2. CASE ~again BY <1>2, <1>3, <1>4, <1>5, <2>2 DEF MonitorInv, NewestRemembered
  <2>3. QED BY <2>1, <2>2
<1>7. QED BY <1>2, <1>3, <1>4, <1>6, NothingLeft, FlusherGoesOn

LEMMA SentDirectlyKeeps ==
  ASSUME MonitorInv, NEW f \in Flushers, SentDirectly(f) PROVE MonitorInv'
<1>1. /\ monitor \in Monitors /\ task \in [Flushers -> Flushings] /\ Cardinality(monitor.task) <= 1
  BY MonitorTyped DEF MonitorInv
<1>2. /\ task' = [task EXCEPT ![f] = Idle] /\ monitor' = monitor /\ view' = view
      /\ Sent(f) /\ task[f].pc = "direct"
  BY DEF SentDirectly
<1>3. NewestRemembered' BY <1>1, <1>2, IdleFlusher DEF MonitorInv, NewestRemembered
<1>4. QED BY <1>1, <1>2, <1>3, IdleFlusher, NothingLeft, FlusherGoesOn

-----------------------------------------------------------------------------
\* a browser comes or goes: what is under way keeps its order only if nothing is
LEMMA BrowserChanges ==
  ASSUME MonitorInv, NEW b \in Browsers, NEW w \in Views, view' = [view EXCEPT ![b] = w], task' = task,
         monitor' = [monitor EXCEPT !.calm = @ /\ ~Busy],
         w.in => w.replay = monitor.newest
  PROVE  MonitorInv'
<1>1. /\ monitor \in Monitors /\ view \in [Browsers -> Views] /\ task \in [Flushers -> Flushings]
      /\ Cardinality(monitor.task) <= 1
  BY MonitorTyped DEF MonitorInv
<1>2. PICK calm \in BOOLEAN : calm = (monitor.calm /\ ~Busy) OBVIOUS
<1>3. monitor' = [monitor EXCEPT !.calm = calm] BY <1>1, <1>2 DEF Monitors
<1>4. /\ monitor' \in Monitors /\ monitor'.task = monitor.task /\ monitor'.pending = monitor.pending
      /\ monitor'.newest = monitor.newest /\ monitor'.calm = calm /\ monitor'.behind = monitor.behind
  BY <1>1, <1>3 DEF Monitors
<1>5. /\ view' \in [Browsers -> Views] /\ view'[b] = w
      /\ \A c \in Browsers \ {b} : view'[c] = view[c]
  BY <1>1
<1>6. MonitorTypeOK' BY <1>1, <1>4, <1>5 DEF MonitorTypeOK, Monitors, Flushings, Views, MaybeValue
<1>7. NewestRemembered' BY <1>4 DEF MonitorInv, NewestRemembered
<1>8. Ordered'
  <2>1. SUFFICES ASSUME monitor'.calm PROVE Ordered' BY <1>4 DEF Ordered, MonitorInv
  <2>2. \A f \in Flushers : ~Sending(f) /\ ~Sending(f)' BY <1>2, <1>4, <2>1 DEF Busy, Sending
  <2>3. monitor.calm BY <1>2, <1>4, <2>1
  <2>4. ASSUME monitor.pending = Nothing, NEW c \in Browsing'
        PROVE  view'[c].replay \in {Nothing, monitor'.newest} /\ Reaches(c)'
    <3>1. c \in Browsers /\ view'[c].in BY <2>4 DEF Browsing
    <3>2. CASE c = b BY <1>4, <1>5, <3>1, <3>2 DEF Reaches
    <3>3. CASE c # b
      <4>1. c \in Browsing /\ view'[c] = view[c] BY <1>5, <3>1, <3>3 DEF Browsing
      <4>2. QED BY <1>4, <2>2, <2>3, <2>4, <4>1 DEF MonitorInv, Ordered, Reaches
    <3>4. QED BY <3>2, <3>3
  <2>5. QED BY <1>4, <2>2, <2>3, <2>4 DEF MonitorInv, Ordered
<1>9. QED BY <1>6, <1>7, <1>8 DEF MonitorInv

LEMMA JoinsKeeps == ASSUME MonitorInv, NEW b \in Browsers, Joins(b) PROVE MonitorInv'
<1> DEFINE w == [in |-> TRUE, replay |-> monitor.newest, shows |-> Nothing]
<1>1. view' = [view EXCEPT ![b] = w] /\ task' = task /\ monitor' = [monitor EXCEPT !.calm = @ /\ ~Busy]
  BY DEF Joins
<1>2. monitor.newest \in MaybeValue /\ Nothing \in MaybeValue
  BY PointValues, MonitorTyped DEF MonitorInv, Monitors
<1>3. w \in Views /\ w.replay = monitor.newest BY <1>2 DEF Views
<1> HIDE DEF w
<1>4. QED BY <1>1, <1>3, BrowserChanges

LEMMA LeavesKeeps == ASSUME MonitorInv, NEW b \in Browsers, Leaves(b) PROVE MonitorInv'
<1> DEFINE w == [view[b] EXCEPT !.in = FALSE, !.replay = Nothing]
<1>0. view \in [Browsers -> Views] BY MonitorTyped DEF MonitorInv
<1>1. view' = [view EXCEPT ![b] = w] /\ task' = task /\ monitor' = [monitor EXCEPT !.calm = @ /\ ~Busy]
  BY <1>0 DEF Leaves
<1>2. w \in Views /\ ~w.in BY <1>0, PointValues DEF Views
<1> HIDE DEF w
<1>3. QED BY <1>1, <1>2, BrowserChanges

LEMMA ReplayedKeeps == ASSUME MonitorInv, NEW b \in Browsers, Replayed(b) PROVE MonitorInv'
<1> DEFINE w == [view[b] EXCEPT !.shows = view[b].replay, !.replay = Nothing]
<1>1. /\ monitor \in Monitors /\ view \in [Browsers -> Views] /\ task \in [Flushers -> Flushings]
      /\ Cardinality(monitor.task) <= 1
  BY MonitorTyped DEF MonitorInv
<1>2. view' = [view EXCEPT ![b] = w] /\ task' = task /\ monitor' = monitor /\ view[b].replay # Nothing
  BY <1>1 DEF Replayed
<1>3. w \in Views /\ w.in = view[b].in /\ w.replay = Nothing /\ w.shows = view[b].replay
  BY <1>1, PointValues DEF Views
<1> HIDE DEF w
<1>4. /\ view' \in [Browsers -> Views] /\ view'[b] = w
      /\ \A c \in Browsers \ {b} : view'[c] = view[c]
  BY <1>1, <1>2, <1>3
<1>5. MonitorTypeOK' BY <1>1, <1>2, <1>4 DEF MonitorTypeOK, Monitors, Flushings, Views, MaybeValue
<1>6. Browsing' = Browsing BY <1>3, <1>4 DEF Browsing
<1>7. Ordered'
  <2>1. ASSUME monitor.calm, monitor.pending = Nothing, NEW c \in Browsing
        PROVE  view'[c].replay \in {Nothing, monitor.newest} /\ Reaches(c)'
    <3>1. view[c].replay \in {Nothing, monitor.newest} /\ Reaches(c) /\ c \in Browsers
      BY <2>1 DEF MonitorInv, Ordered, Browsing
    <3>2. CASE c = b BY <1>2, <1>3, <1>4, <3>1, <3>2 DEF Reaches
    <3>3. CASE c # b
      <4>1. view'[c] = view[c] BY <1>4, <3>1, <3>3
      <4>2. QED BY <1>2, <3>1, <4>1 DEF Reaches, Sending
    <3>4. QED BY <3>2, <3>3
  <2>2. \A f \in Flushers : Sending(f)' <=> Sending(f) BY <1>2 DEF Sending
  <2>3. QED BY <1>2, <1>6, <2>1, <2>2 DEF MonitorInv, Ordered
<1>8. QED BY <1>2, <1>5, <1>7 DEF MonitorInv, NewestRemembered

LEMMA MonitorKept == MonitorInv /\ [MonitorRuns \/ MonitorWorld]_monitorVars => MonitorInv'
<1> SUFFICES ASSUME MonitorInv, [MonitorRuns \/ MonitorWorld]_monitorVars PROVE MonitorInv' OBVIOUS
<1>1. CASE SetLearn
  <2>1. /\ monitor \in Monitors /\ MonitorTypeOK BY MonitorTyped DEF MonitorInv
  <2>2. monitor' = [monitor EXCEPT !.learn = ~@] /\ task' = task /\ view' = view BY <1>1 DEF SetLearn
  <2>3. /\ monitor' \in Monitors /\ monitor'.task = monitor.task /\ monitor'.pending = monitor.pending
        /\ monitor'.newest = monitor.newest /\ monitor'.calm = monitor.calm /\ monitor'.behind = monitor.behind
    BY <2>1, <2>2 DEF Monitors
  <2>4. MonitorTypeOK' BY <2>1, <2>2, <2>3 DEF MonitorTypeOK, Monitors, MaybeValue
  <2>5. QED BY <2>2, <2>3, <2>4 DEF MonitorInv, NewestRemembered, Ordered, Reaches, Browsing, Sending
<1>2. CASE UNCHANGED monitorVars
  BY <1>2 DEF monitorVars, MonitorInv, MonitorTypeOK, NewestRemembered, Ordered, Reaches, Browsing, Sending
<1>3. QED
  BY <1>1, <1>2, NextBrowserKeeps, WakesKeeps, FlushedOnceKeeps, FlushedTwiceKeeps, SentDirectlyKeeps,
     UnseenKeeps, OfferKeeps, JoinsKeeps, LeavesKeeps, ReplayedKeeps
     DEF MonitorRuns, MonitorWorld

\* A value that waits has its task, and at rest every browser shows the newest value, for
\* any values, browsers and tasks (MonitorCoalescer, WebInterface).
THEOREM MonitorSafety == MonitorSpec => [](MonitorTypeOK /\ NewestIsUnderWay)
<1>1. MonitorSpec => []MonitorInv BY MonitorStarts, MonitorKept, PTL DEF MonitorSpec
<1>2. ASSUME MonitorInv PROVE NewestIsUnderWay
  <2>1. ASSUME monitor.calm, monitor.pending = Nothing, ~Busy, NEW b \in Browsing, view[b].replay = Nothing
        PROVE  view[b].shows = monitor.newest
    <3>1. Reaches(b) BY <1>2, <2>1 DEF MonitorInv, Ordered
    <3>2. \A f \in Flushers : ~Sending(f) BY <2>1 DEF Busy, Sending
    <3>3. monitor.newest # Nothing
      BY <1>2, PointValues, MonitorTyped DEF MonitorInv, Monitors
    <3>4. QED BY <2>1, <3>1, <3>2, <3>3 DEF Reaches
  <2>2. QED BY <1>2, <2>1 DEF MonitorInv, NewestRemembered, NewestIsUnderWay
<1>3. QED BY <1>1, <1>2, PTL DEF MonitorInv
=============================================================================
