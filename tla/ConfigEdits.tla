---------------------------- MODULE ConfigEdits ----------------------------
(***************************************************************************)
(* Edits of the configuration by web requests (web/server.py), the file    *)
(* that they are saved to and what is loaded from it (config.py): one      *)
(* adapter instance of a kind that may be deleted, its device, and the     *)
(* connections of that device.  Each request is a task; the handlers await *)
(* while runtime adapters stop or start and points are refreshed.          *)
(***************************************************************************)
CONSTANTS
  Requests,  \* web requests under way
  Options,   \* configurations of the adapter
  NoAdapter,
  Links      \* connections

ASSUME EditsAssumption == NoAdapter \notin Options

VARIABLES
  edits,  \* the configuration in memory and in the file, what the accepted
          \* requests asked for, whether something happened that loses edits
          \* (odd), whether the muted devices were forgotten (forgot)
  web     \* of each request: where it awaits and what it read before

editsVars == <<edits, web>>

Sections == [adapter : Options \cup {NoAdapter}, device : BOOLEAN,
             muted : BOOLEAN,  \* the adapter is in suppressed_inferred_device_adapters
             links : SUBSET Links]

NoRequest == [pc |-> "idle", adapter |-> NoAdapter, links |-> {}, flag |-> FALSE]

EditsInit ==
  /\ \E o \in Options, kind \in {"osc", "midi", "hid"} :
       LET s == [adapter |-> o, device |-> TRUE, muted |-> FALSE, links |-> {}]
       IN edits = [conf |-> s, file |-> s, kind |-> kind, odd |-> FALSE, forgot |-> FALSE,
                   asked |-> [adapter |-> o, links |-> {}, removed |-> FALSE]]
  /\ web = [r \in Requests |-> NoRequest]

EditsTypeOK ==
  /\ edits \in [conf : Sections, file : Sections, kind : {"osc", "midi", "hid"},
                odd : BOOLEAN, forgot : BOOLEAN,
                asked : [adapter : Options \cup {NoAdapter}, links : SUBSET Links, removed : BOOLEAN]]
  /\ web \in [Requests ->
       [pc : {"idle", "importing", "stopping", "supplementing", "syncing"},
        adapter : Options \cup {NoAdapter}, links : SUBSET Links, flag : BOOLEAN]]

-----------------------------------------------------------------------------
\* supplement_devices(): an adapter without a device gets one, unless it is muted
Supplemented(s) == [s EXCEPT !.device = @ \/ (s.adapter # NoAdapter /\ ~s.muted)]

\* load_config(): a device without its adapter and connections without their device
\* are skipped
Loaded(s) ==
  LET device == Supplemented(s).device /\ s.adapter # NoAdapter
  IN [s EXCEPT !.device = device, !.links = IF device THEN @ ELSE {}]

\* save_devices(), save_connections(), ...: each replaces its sections of the file
Saved(conf, names) ==
  [n \in DOMAIN edits.file |-> IF n \in names THEN conf[n] ELSE edits.file[n]]

Alone(r) == \A q \in Requests \ {r} : web[q].pc = "idle"

\* the edit is made in memory and saved; when that fails the response says so
Edit(r, conf, names, asked) ==
  \E saved \in BOOLEAN :
    edits' = [edits EXCEPT
      !.conf = conf,
      !.file = IF saved THEN Saved(conf, names) ELSE @,
      !.asked = asked,
      !.odd = @ \/ ~saved \/ ~Alone(r),
      !.forgot = @ \/ ("muted" \in names /\ edits.conf.muted /\ ~conf.muted /\ asked.removed)]

\* the request is refused after it has changed the configuration in memory
Rejected(conf) == edits' = [edits EXCEPT !.conf = conf, !.odd = TRUE]

Await(r, pc, flag) ==
  web' = [web EXCEPT ![r] = [pc |-> pc, flag |-> flag, adapter |-> edits.conf.adapter,
                             links |-> edits.conf.links]]
Done(r) == web' = [web EXCEPT ![r] = NoRequest]

-----------------------------------------------------------------------------
(* Connections. *)

\* set_connections_config(): runtime settings in the payload make a RuntimeConfig of
\* those settings alone
SetConnections(r, links, settings) ==
  LET conf == [edits.conf EXCEPT !.links = links, !.muted = @ /\ ~settings] IN
  /\ web[r].pc = "idle"
  /\ \/ Edit(r, conf, {"links"} \cup (IF settings THEN {"muted"} ELSE {}),
             [edits.asked EXCEPT !.links = links])
     \/ settings /\ Rejected([edits.conf EXCEPT !.links = links])
  /\ UNCHANGED web

\* reverse_connection_config() and apply_learn_mapping() read, change and save at once
AddConnection(r, k) ==
  /\ web[r].pc = "idle"
  /\ Edit(r, [edits.conf EXCEPT !.links = @ \cup {k}], {"links"},
          [edits.asked EXCEPT !.links = @ \cup {k}])
  /\ UNCHANGED web

\* import_connections_bundle(): the connections are merged before the points of the
\* devices are refreshed and stored after that (flag: devices were updated as well)
ImportBegins(r, k, updated) ==
  /\ web[r].pc = "idle" /\ edits.conf.device
  /\ web' = [web EXCEPT ![r] = [NoRequest EXCEPT !.pc = "importing", !.flag = updated,
                                                 !.links = edits.conf.links \cup {k}]]
  /\ edits' = [edits EXCEPT !.odd = @ \/ ~Alone(r), !.asked.links = @ \cup {k}]

ImportEnds(r) ==
  LET conf == [edits.conf EXCEPT !.links = web[r].links]
      file == [edits.file EXCEPT !.links = web[r].links, !.device = @ \/ web[r].flag]
  IN
  /\ web[r].pc = "importing"
  /\ \E saved \in BOOLEAN :
       edits' = [edits EXCEPT !.conf = conf, !.file = IF saved THEN file ELSE @,
                              !.odd = @ \/ ~saved \/ ~Alone(r)]
  /\ Done(r)

-----------------------------------------------------------------------------
(* Devices. *)

\* slip: the removal of an inferred device is not remembered
NoSuppression(conf, keep) == FALSE

\* update_suppressed_inferred_device_adapters()
Suppressed(conf, keep) == ~keep /\ (conf.muted \/ (conf.device /\ conf.adapter # NoAdapter))

\* set_devices_config() with the device or without it; devices_payload() comes last
SetDevices(r, keep) ==
  LET muted == Suppressed(edits.conf, keep)
      gone  == ~keep /\ edits.conf.device /\ edits.conf.adapter # NoAdapter
  IN
  /\ web[r].pc = "idle" /\ (keep => edits.conf.adapter # NoAdapter)
  /\ Edit(r, [edits.conf EXCEPT !.device = keep, !.muted = muted], {"device", "muted"},
          [edits.asked EXCEPT !.removed = ~keep /\ (@ \/ gone)])
  /\ Await(r, "supplementing", FALSE)

\* import_devices_config() leaves what is muted as it is
ImportDevice(r) ==
  /\ web[r].pc = "idle"
  /\ Edit(r, [edits.conf EXCEPT !.device = TRUE], {"device"}, [edits.asked EXCEPT !.removed = FALSE])
  /\ UNCHANGED web

-----------------------------------------------------------------------------
(* The adapter: apply_midi_, apply_osc_, apply_wing_native_ and              *)
(* apply_hid_adapters_config().                                              *)

\* apply_midi_adapters_config() ends with a look for adapters without a device
ThenSupplement(r) == IF edits.kind = "midi" THEN Await(r, "supplementing", FALSE) ELSE Done(r)

\* an instance is taken over as it is read, so that a later bad one finds it in memory
SetAdapter(r, o) ==
  LET conf == [edits.conf EXCEPT !.adapter = o] IN
  /\ web[r].pc = "idle"
  /\ \/ Edit(r, conf, {"adapter"}, [edits.asked EXCEPT !.adapter = o]) /\ ThenSupplement(r)
     \/ Rejected(conf) /\ UNCHANGED web

\* the runtime adapter is stopped, which is awaited (flag: the instances that the
\* request brings along are bad); HID looks at these first and saves before it stops
RemoveAdapter(r, bad) ==
  /\ web[r].pc = "idle" /\ edits.conf.adapter # NoAdapter
  /\ IF edits.kind = "hid"
     THEN ~bad /\ \E saved \in BOOLEAN :
            edits' = [edits EXCEPT !.file.adapter = IF saved THEN NoAdapter ELSE @,
                                   !.asked.adapter = NoAdapter, !.odd = @ \/ ~saved \/ ~Alone(r)]
     ELSE edits' = [edits EXCEPT !.odd = @ \/ ~Alone(r)]
  /\ Await(r, "stopping", bad)

AdapterStopped(r) ==
  LET conf == [edits.conf EXCEPT !.adapter = NoAdapter] IN
  /\ web[r].pc = "stopping"
  /\ IF web[r].flag THEN Rejected(conf) /\ Done(r)
     ELSE /\ Edit(r, conf, IF edits.kind = "hid" THEN {} ELSE {"adapter"},
                  [edits.asked EXCEPT !.adapter = NoAdapter])
          /\ ThenSupplement(r)

\* devices_payload() looks for adapters without a device, too, when devices are listed
Supplements(r) ==
  /\ web[r].pc = "supplementing"
  /\ edits' = [edits EXCEPT !.conf = Supplemented(@)]
  /\ Done(r)

ListDevices ==
  /\ edits' = [edits EXCEPT !.conf = Supplemented(@)]
  /\ UNCHANGED web

\* sync_osc_desk_addresses(): while one desk is relocated the others wait with the
\* configuration that they had; _bind_osc_desk_identity() writes it back
SyncBegins(r) ==
  /\ web[r].pc = "idle" /\ edits.kind = "osc" /\ edits.conf.adapter # NoAdapter
  /\ edits' = [edits EXCEPT !.odd = @ \/ ~Alone(r)]
  /\ Await(r, "syncing", FALSE)

DeskBound(r) ==
  /\ web[r].pc = "syncing"
  /\ Edit(r, [edits.conf EXCEPT !.adapter = web[r].adapter], {"adapter"}, edits.asked)
  /\ Done(r)

-----------------------------------------------------------------------------
\* import_config_text() writes the file and asks for a restart
ImportFile ==
  /\ edits' = [edits EXCEPT !.odd = TRUE,
       !.file = [adapter |-> NoAdapter, device |-> FALSE, muted |-> FALSE, links |-> {}]]
  /\ UNCHANGED web

\* connections that were skipped stay in the file
Restart ==
  LET conf == Loaded(edits.file) IN
  /\ edits' = [edits EXCEPT !.conf = conf, !.odd = conf.links # edits.file.links,
       !.forgot = FALSE,
       !.asked = [adapter |-> conf.adapter, links |-> conf.links,
                  removed |-> @.removed /\ edits.file.muted /\ ~edits.file.device]]
  /\ web' = [r \in Requests |-> NoRequest]

EditsRuns ==
  \E r \in Requests : ImportEnds(r) \/ AdapterStopped(r) \/ Supplements(r) \/ DeskBound(r)

EditsWorld ==
  \/ \E r \in Requests :
       \/ \E links \in SUBSET Links, settings \in BOOLEAN : SetConnections(r, links, settings)
       \/ \E k \in Links : AddConnection(r, k) \/ \E updated \in BOOLEAN : ImportBegins(r, k, updated)
       \/ \E b \in BOOLEAN : SetDevices(r, b) \/ RemoveAdapter(r, b)
       \/ \E o \in Options : SetAdapter(r, o)
       \/ ImportDevice(r) \/ SyncBegins(r)
  \/ ListDevices \/ ImportFile \/ Restart

EditsSpec == EditsInit /\ [][EditsRuns \/ EditsWorld]_editsVars

-----------------------------------------------------------------------------
AtRest == \A r \in Requests : web[r].pc = "idle"

\* Between requests the configuration in memory and the one that a restart would load
\* are what the accepted requests asked for.  Excepted are edits that crossed another
\* request, that could not be saved or that were refused half-way, and a file that was
\* imported or has connections that were skipped (web/server.py, config.py).
SavesAreKept ==
  AtRest /\ ~edits.odd =>
    /\ edits.conf.adapter = edits.asked.adapter
    /\ edits.conf.links = edits.asked.links
    /\ edits.asked.removed /\ ~edits.forgot => ~edits.conf.device
    /\ LET next == Loaded(edits.file) IN
       /\ next.adapter = edits.asked.adapter
       /\ next.device => next.links = edits.asked.links
       /\ edits.asked.removed /\ ~edits.forgot => ~next.device

\* An adapter whose inferred device was explicitly removed is remembered, and no device
\* is inferred for it again (update_suppressed_inferred_device_adapters()).
RemovalsAreRemembered ==
  AtRest /\ ~edits.odd /\ edits.asked.removed => ~Loaded(edits.file).device
=============================================================================
