------------------------------- MODULE OscDesk -------------------------------
(***************************************************************************)
(* An OscAdapter that is bound to a mixing desk (adapters/osc.py), and the *)
(* scans of OscDeskDiscoveryManager (osc/desk_tracker.py) that look for    *)
(* the desk when it has another address.  A desk sends its changes only to *)
(* who has subscribed in the last seconds, so a loop renews the            *)
(* subscription.  Applying a configuration, by a scan or by a request of   *)
(* the web interface, awaits: the requests and the scans interleave.       *)
(*                                                                         *)
(* A renewal or a scan that would change nothing is left out, as are the   *)
(* clients of the proxy mode, the values themselves and changes of the     *)
(* port.                                                                   *)
(***************************************************************************)
CONSTANTS Desks, Addresses, Scans, Edits, NoDesk, Away

ASSUME OscAssumption == NoDesk \notin Desks /\ Away \notin Addresses

VARIABLES
  osc,   \* configuration: enabled, remote and the identity of the desk; adapter: running,
         \* transport, to (the remote in use), its keepalive task, other keepalive loops
         \* that run; unbound: the last start found no port; crossed: a stop overlapped
         \* another request
  scan,  \* of each scan or request: where it awaits, and the desks that answered
  desk   \* of each desk: its address, and whether the adapter is subscribed

oscVars == <<osc, scan, desk>>

Tasks == Scans \cup Edits
NoScan == [pc |-> "idle", found |-> [d \in Desks |-> Away]]

OscInit ==
  \E a, b \in Addresses, i \in Desks \cup {NoDesk}, on \in BOOLEAN :
    /\ osc = [enabled |-> on, remote |-> a, identity |-> i, booted |-> FALSE, running |-> FALSE,
              transport |-> FALSE, to |-> a, keepalive |-> "none", orphans |-> FALSE, unbound |-> FALSE,
              crossed |-> FALSE]
    /\ scan = [t \in Tasks |-> NoScan]
    /\ desk \in {[d \in Desks |-> [at |-> IF d = e THEN b ELSE Away, subscribed |-> FALSE]] : e \in Desks}

OscTypeOK ==
  /\ osc \in [enabled : BOOLEAN, remote : Addresses, identity : Desks \cup {NoDesk}, booted : BOOLEAN,
              running : BOOLEAN, transport : BOOLEAN, to : Addresses,
              keepalive : {"none", "live", "ended"}, orphans : BOOLEAN, unbound : BOOLEAN,
              crossed : BOOLEAN]
  /\ scan \in [Tasks -> [pc : {"idle", "found", "opening", "restarting", "syncing", "stopping"},
                         found : [Desks -> Addresses \cup {Away}]]]
  /\ desk \in [Desks -> [at : Addresses \cup {Away}, subscribed : BOOLEAN]]
  /\ osc.transport => osc.running \/ osc.crossed \/ \E t \in Tasks : scan[t].pc = "stopping"

OthersBusy(t) == \E u \in Tasks \ {t} : scan[u].pc \notin {"idle", "found"}
Stopping == \E t \in Tasks : scan[t].pc = "stopping"
GoesOn(t, pc) == scan' = [scan EXCEPT ![t] = [NoScan EXCEPT !.pc = pc]]

-----------------------------------------------------------------------------
(* _start_desk_session(), _stop_desk_session(), _keepalive_loop(). *)

\* _send_desk_keepalive(): whoever is at the address notes the subscription
Subscribed(o) ==
  [d \in Desks |-> [desk[d] EXCEPT !.subscribed = @ \/ (o.transport /\ desk[d].at = o.to)]]

\* subscribe, then await the queries of the sync
BeginSession(t, o) ==
  /\ osc' = o /\ desk' = Subscribed(o)
  /\ GoesOn(t, "syncing")

\* the task that is kept may not be the one that was awaited
Forgotten(o) == [o EXCEPT !.keepalive = "none", !.orphans = @ \/ o.keepalive = "live"]
LoopCancelled(o) == [o EXCEPT !.keepalive = IF @ = "live" THEN "ended" ELSE @]

SessionStarted(t) ==
  /\ scan[t].pc = "syncing"
  /\ osc' = [osc EXCEPT !.keepalive = "live", !.orphans = @ \/ osc.keepalive = "live"]
  /\ GoesOn(t, "idle")
  /\ UNCHANGED desk

SessionRestarts(t) == scan[t].pc = "restarting" /\ BeginSession(t, Forgotten(osc))

SessionStopped(t) ==
  /\ scan[t].pc = "stopping"
  /\ osc' = [Forgotten(osc) EXCEPT !.transport = FALSE, !.crossed = @ /\ (osc.running \/ OthersBusy(t))]
  /\ GoesOn(t, "idle")
  /\ UNCHANGED desk

KeepAlive ==
  /\ osc.running /\ (osc.keepalive = "live" \/ osc.orphans)
  /\ desk # Subscribed(osc)
  /\ desk' = Subscribed(osc)
  /\ UNCHANGED <<osc, scan>>

KeepAliveEnds ==
  /\ ~osc.running /\ (osc.keepalive = "live" \/ osc.orphans)
  /\ osc' = [LoopCancelled(osc) EXCEPT !.orphans = FALSE]
  /\ UNCHANGED <<scan, desk>>

-----------------------------------------------------------------------------
(* start(), reload() and stop() by way of _apply_osc_runtime_adapter(). *)

\* start(): a socket is bound, and then an endpoint made of it, also when there is one
Start(t, o) ==
  /\ osc' = [o EXCEPT !.to = o.remote]
  /\ GoesOn(t, "opening")
  /\ UNCHANGED desk

\* the port is taken
StartFails(t, o) ==
  /\ osc' = [o EXCEPT !.to = o.remote, !.unbound = TRUE]
  /\ GoesOn(t, "idle")
  /\ UNCHANGED desk

SocketOpened(t) ==
  /\ scan[t].pc = "opening"
  /\ BeginSession(t, [osc EXCEPT !.running = TRUE, !.transport = TRUE, !.unbound = FALSE])

ApplyAdapter(t, o) ==
  LET crossed == osc.crossed \/ Stopping \/ (~o.enabled /\ OthersBusy(t)) IN
  IF o.enabled /\ ~osc.running THEN
    LET p == [o EXCEPT !.crossed = crossed] IN Start(t, p) \/ StartFails(t, p)
  ELSE /\ osc' = [IF osc.running THEN LoopCancelled(o) ELSE o EXCEPT
                    !.to = o.remote, !.running = @ /\ o.enabled, !.crossed = crossed]
       /\ GoesOn(t, IF o.enabled THEN "restarting" ELSE IF osc.running THEN "stopping" ELSE "idle")
       /\ UNCHANGED desk

-----------------------------------------------------------------------------
(* scan_once(), discover_desks(), sync_osc_desk_addresses(). *)

Located(found, o) ==
  LET there == {d \in Desks : found[d] = o.remote}
      i == IF o.identity = NoDesk /\ there # {} THEN CHOOSE d \in there : TRUE ELSE o.identity
  IN [o EXCEPT !.identity = i,
               !.remote = IF i # NoDesk /\ found[i] # Away THEN found[i] ELSE @]

\* slip: the desk's new address is noted in the configuration only
NoteAddress(t, o) == osc' = o /\ GoesOn(t, "idle") /\ UNCHANGED desk

\* apply_osc_desk_ip_from_discovery()
Relocate(t, o) ==
  IF o.enabled /\ o.remote # osc.remote THEN ApplyAdapter(t, o)
  ELSE osc' = o /\ GoesOn(t, "idle") /\ UNCHANGED desk

\* the desks answer; the scan that the service starts with is over before another one
ScanHears(s) ==
  LET answers == [d \in Desks |-> desk[d].at] IN
  /\ scan[s].pc = "idle" /\ Located(answers, osc) # osc
  /\ osc.booted \/ \A t \in Tasks : scan[t].pc = "idle"
  /\ scan' = [scan EXCEPT ![s] = [pc |-> "found", found |-> answers]]
  /\ UNCHANGED <<osc, desk>>

ScanApplies(s) == scan[s].pc = "found" /\ Relocate(s, Located(scan[s].found, osc))

\* MIDIJugglerService.start(): the first scan, if it finds the desk, and then the adapters;
\* a port that is taken ends the program
Boot(s) ==
  /\ ~osc.booted /\ \A t \in Tasks : scan[t].pc = "idle"
  /\ LET o == [osc EXCEPT !.booted = TRUE] IN
     IF osc.enabled THEN Start(s, o) ELSE osc' = o /\ UNCHANGED <<scan, desk>>

\* apply_osc_adapters_config(); an identity that is cleared is bound anew
EditAdapter(e, enabled, remote, cleared) ==
  /\ osc.booted /\ scan[e].pc = "idle"
  /\ ApplyAdapter(e, [osc EXCEPT !.enabled = enabled, !.remote = remote,
                                 !.identity = IF cleared THEN NoDesk ELSE @])

-----------------------------------------------------------------------------
\* a desk moves, leaves or comes back: it has no subscribers then
DeskReaddressed(d, a) ==
  /\ a # desk[d].at /\ \A other \in Desks : a = Away \/ desk[other].at # a
  /\ desk' = [desk EXCEPT ![d] = [at |-> a, subscribed |-> FALSE]]
  /\ UNCHANGED <<osc, scan>>

\* renewals were lost on their way
SubscriptionLapses(d) ==
  /\ desk[d].subscribed
  /\ desk' = [desk EXCEPT ![d].subscribed = FALSE]
  /\ UNCHANGED <<osc, scan>>

OscRuns ==
  \/ KeepAlive \/ KeepAliveEnds
  \/ \E t \in Tasks : SocketOpened(t) \/ SessionStarted(t) \/ SessionRestarts(t) \/ SessionStopped(t)
  \/ \E s \in Scans : ScanHears(s) \/ ScanApplies(s) \/ Boot(s)

OscWorld ==
  \/ \E d \in Desks : SubscriptionLapses(d) \/ \E a \in Addresses \cup {Away} : DeskReaddressed(d, a)
  \/ \E e \in Edits, enabled, cleared \in BOOLEAN, a \in Addresses : EditAdapter(e, enabled, a, cleared)

OscSpec == OscInit /\ [][OscRuns \/ OscWorld]_oscVars /\ WF_oscVars(OscRuns)

-----------------------------------------------------------------------------
\* Between requests and scans an adapter runs when it is enabled and found its port, with
\* an open socket, the address that is configured and a loop that renews the subscription,
\* unless a stop overlapped another request (_apply_osc_runtime_adapter(), reload(),
\* start(), stop()).
SessionIsKept ==
  osc.booted /\ ~osc.crossed /\ (\A t \in Tasks : scan[t].pc \in {"idle", "found"}) =>
    /\ osc.running <=> osc.enabled /\ ~osc.unbound
    /\ osc.running => /\ osc.transport /\ osc.to = osc.remote
                      /\ osc.keepalive = "live" \/ osc.orphans

\* The adapter of an instance that is bound to a desk comes to be subscribed to it, at the
\* address that the desk has by then; excepted are ports that were taken and stops that
\* overlapped another request (sync_osc_desk_addresses(), reload(), _keepalive_loop()).
DeskIsFollowed ==
  <>[](osc.enabled /\ osc.identity # NoDesk /\ ~osc.crossed /\ ~osc.unbound =>
         desk[osc.identity].subscribed \/ desk[osc.identity].at = Away)
=============================================================================
