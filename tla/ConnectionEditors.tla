-------------------------- MODULE ConnectionEditors --------------------------
(***************************************************************************)
(* Connections and their editors: learn.py, the handlers of web/server.py  *)
(* for learn mode and for /api/connections, the default connections of     *)
(* datapoint/, and the page in the browser (web/static/app.js).  Changes   *)
(* that arrive over the web socket are broadcast as statuses; those over   *)
(* HTTP carry the whole list of the page, and only who asked is answered.  *)
(*                                                                         *)
(* A connection is its id, its endpoints and whether it is enabled; its    *)
(* ranges and modifier are left out.  All endpoints exist, no socket is    *)
(* lost, data point routing is on, and a broadcast meets the browsers at   *)
(* once: MonitorStream has what happens when it does not.                  *)
(***************************************************************************)
EXTENDS Naturals, Sequences

CONSTANTS
  Editors,          \* pages in browsers
  Ends,             \* data points that connections are between
  Unset,            \* no data point
  ClockOutputs,     \* pairs: the master clock and its output targets
  ModuleFeedback,   \* pairs: the clock and the rotary display module
  DisplayInputs,    \* pairs: a rotary display and the clock
  DisplayFeedback,  \* pairs: the clock and a rotary display
  MaxReversals      \* bound: how often a connection is reversed

Pairs == {p \in Ends \X Ends : p[1] # p[2]}

ASSUME EditorsAssumption ==
  /\ Unset \notin Ends /\ MaxReversals \in Nat
  /\ \A P \in {ClockOutputs, ModuleFeedback, DisplayInputs, DisplayFeedback} : P \subseteq Pairs

VARIABLES
  hub,   \* the server: stored connections, learn mode with its source, the connections
         \* that the modifier graph routes, and the settings that give default ones
  page   \* of each editor: its copy of the list, learn mode and the source that it was
         \* told last, what it shows as the source, the statuses and the response on
         \* their way to it; stale and missed: see EditorsAgree

editorsVars == <<hub, page>>

NoExchange == [pc |-> "none", list |-> {}]
Setups == [clock : BOOLEAN, module : BOOLEAN]

\* make_mapping_id(), and the id of a reversed connection
MappingId(p) == p
FeedbackId(c) == Append(c.id, c.source)

Ids == UNION {[1 .. n -> Ends] : n \in 2 .. 2 + MaxReversals}
Connections == [id : Ids, source : Ends, target : Ends, on : BOOLEAN]
Connection(id, p) == [id |-> id, source |-> p[1], target |-> p[2], on |-> TRUE]

(* effective_connections(): defaults join the stored ones where no          *)
(* connection has their endpoints.                                          *)

PairOf(c) == <<c.source, c.target>>

(* slip: the default ones are appended whatever there is *)
AppendAll(list, pairs) == list \cup {Connection(<<"default", p>>, p) : p \in pairs}

Merge(list, pairs) ==
  list \cup {Connection(<<"default", p>>, p) : p \in pairs \ {PairOf(c) : c \in list}}

ClockDefaults(s) == IF s.clock THEN ClockOutputs ELSE {}
ModuleDefaults(s) == IF s.module THEN ModuleFeedback ELSE {}
\* the module, when it is on, shows the clock by itself
DisplayDefaults(s) == IF s.module THEN DisplayInputs ELSE DisplayInputs \cup DisplayFeedback

Effective(list, s) ==
  Merge(Merge(Merge(list, ClockDefaults(s)), ModuleDefaults(s)), DisplayDefaults(s))

\* all pages have the list and, with learn mode on, the source that is selected
EditorsInit ==
  \E learn \in BOOLEAN, e \in Ends \cup {Unset}, p \in ClockOutputs, s \in Setups :
    /\ s = [clock |-> FALSE, module |-> FALSE] /\ (e # Unset => learn)
    /\ hub = [list |-> {Connection(MappingId(p), p)}, learn |-> learn, source |-> e, settings |-> s,
              routed |-> Effective({Connection(MappingId(p), p)}, s)]
    /\ page = [b \in Editors |->
         [list |-> hub.list, learn |-> learn, told |-> e, last |-> e, shows |-> e, loaded |-> learn,
          missed |-> FALSE, wire |-> <<>>, http |-> NoExchange, stale |-> FALSE]]

EditorsTypeOK ==
  LET MaybeEnd == Ends \cup {Unset} IN
  /\ hub.list \subseteq Connections /\ hub.settings \in Setups
  /\ hub.learn \in BOOLEAN /\ hub.source \in MaybeEnd /\ (hub.source # Unset => hub.learn)
  /\ \A c \in hub.routed : c.source \in Ends /\ c.target \in Ends
  /\ \A b \in Editors :
       /\ page[b].list \subseteq Connections /\ page[b].http.list \subseteq Connections
       /\ page[b].http.pc \in {"none", "posted", "reversing", "merging", "answered", "told"}
       /\ {page[b].told, page[b].last, page[b].shows} \subseteq MaybeEnd
       /\ {page[b].learn, page[b].loaded, page[b].missed, page[b].stale} \subseteq BOOLEAN
       /\ page[b].shows # Unset => page[b].learn

-----------------------------------------------------------------------------
\* _apply_stored_connections(), and the graph's replace_connections()
Applying(list) == [hub EXCEPT !.list = list, !.routed = {c \in Effective(list, hub.settings) : c.on}]

\* upsert_connection()
Upsert(list, c) == {d \in list : d.source # c.source /\ d.id # c.id} \cup {c}

-----------------------------------------------------------------------------
(* app.js: what the page does with a status. *)

Shown(p, source) ==
  IF source = Unset THEN p
  ELSE IF p.loaded THEN [p EXCEPT !.shows = source, !.missed = FALSE]
  ELSE [p EXCEPT !.missed = TRUE]

\* syncLearnSourceFromServer()
SyncSource(p, source) ==
  IF source = p.last THEN p ELSE Shown([p EXCEPT !.last = source], source)

(* slip: a status does not touch the list *)
KeepsList(p, s) ==
  LET q == [p EXCEPT !.learn = s.learn, !.told = s.source]
  IN IF s.learn THEN SyncSource(q, s.source)
     ELSE [q EXCEPT !.shows = Unset, !.last = Unset, !.missed = FALSE]

\* renderStatus() and renderLearnState()
RenderStatus(p, s) ==
  LET q == [p EXCEPT !.list = s.list, !.learn = s.learn, !.told = s.source]
  IN IF s.learn THEN SyncSource(q, s.source)
     ELSE [q EXCEPT !.shows = Unset, !.last = Unset, !.missed = FALSE]

StatusOf(h) == [list |-> h.list, learn |-> h.learn, source |-> h.source]

\* a web socket message is handled: b's page is now p, and all are told
Announce(h, b, p) ==
  /\ hub' = h
  /\ page' = [e \in Editors |->
       LET q == IF e = b THEN p ELSE page[e]
       IN [q EXCEPT !.wire = Append(@, StatusOf(h)), !.stale = q.http.pc = "told"]]

StatusArrives(b) ==
  /\ page[b].wire # <<>>
  /\ LET p == RenderStatus(page[b], Head(page[b].wire))
     IN page' = [page EXCEPT ![b] = [p EXCEPT !.wire = Tail(page[b].wire)]]
  /\ UNCHANGED hub

\* loadLearnDatapoints(), that the first status with learn mode on asks for
DatapointsLoaded(b) ==
  /\ page[b].learn /\ ~page[b].loaded
  /\ page' = [page EXCEPT ![b] = SyncSource([@ EXCEPT !.loaded = TRUE], page[b].told)]
  /\ UNCHANGED hub

-----------------------------------------------------------------------------
(* Learn mode. *)

\* LearnController.set_enabled(), clear_source(), select_source_datapoint()
LearnSet(on) == [hub EXCEPT !.learn = on, !.source = Unset]
SourceCleared == [hub EXCEPT !.source = Unset]
SourceSelected(e) == [hub EXCEPT !.source = e]

LearnToggle(b) ==
  LET on == ~page[b].learn IN
  Announce(LearnSet(on), b, IF on THEN [page[b] EXCEPT !.last = Unset] ELSE page[b])

\* an error, of which only this page is told, unless learn mode is on
SelectLearnSource(b, e) ==
  LET p == [page[b] EXCEPT !.shows = e] IN
  /\ page[b].learn /\ page[b].loaded
  /\ IF hub.learn THEN Announce(SourceSelected(e), b, p)
     ELSE page' = [page EXCEPT ![b] = p] /\ UNCHANGED hub

\* another instance is chosen: clearLearnSourceOnServer()
EmptySource(b) ==
  /\ page[b].shows # Unset
  /\ Announce(SourceCleared, b,
       [page[b] EXCEPT !.shows = Unset, !.last = IF page[b].told # Unset THEN page[b].told ELSE @])

ClearLearnSource(b) ==
  /\ page[b].learn
  /\ Announce(SourceCleared, b, [page[b] EXCEPT !.shows = Unset, !.last = Unset])

\* apply_learn_mapping()
Mapped(pair) ==
  [Applying(Upsert(hub.list, Connection(MappingId(pair), pair))) EXCEPT !.source = Unset]

CompleteLearnMapping(b, target) ==
  /\ page[b].shows \notin {Unset, target}
  /\ Announce(Mapped(<<page[b].shows, target>>), b, page[b])

-----------------------------------------------------------------------------
(* Requests over HTTP: one of a page at a time. *)

Post(b, pc, list) ==
  /\ page[b].http.pc = "none"
  /\ page' = [page EXCEPT ![b].http = [pc |-> pc, list |-> list]]
  /\ UNCHANGED hub

SaveEdited(b, c, pair) ==
  LET d == [c EXCEPT !.source = pair[1], !.target = pair[2]] IN
  Post(b, "posted", {e \in page[b].list : e.id # c.id /\ e.source # d.source} \cup {d})

DeleteConnection(b, c) == Post(b, "posted", page[b].list \ {c})
ToggleConnection(b, c) == Post(b, "posted", (page[b].list \ {c}) \cup {[c EXCEPT !.on = ~@]})
SaveRoutingSettings(b) == Post(b, "posted", page[b].list)
AskForReverse(b, c) == Len(c.id) < 2 + MaxReversals /\ Post(b, "reversing", {c})

\* the list has changed, and b alone is answered
Answer(b, h) ==
  /\ hub' = h
  /\ page' = [e \in Editors |->
       IF e = b THEN [page[e] EXCEPT !.http = [pc |-> "answered", list |-> h.list]]
       ELSE [page[e] EXCEPT !.stale = TRUE]]

SetConnectionsConfig(b) ==
  page[b].http.pc = "posted" /\ Answer(b, Applying(page[b].http.list))

\* a setting that does not parse: the list is taken, but neither applied nor saved
SetConnectionsRejected(b) ==
  /\ page[b].http.pc = "posted"
  /\ hub' = [hub EXCEPT !.list = page[b].http.list]
  /\ page' = [e \in Editors |->
       [page[e] EXCEPT !.stale = TRUE, !.http = IF e = b THEN NoExchange ELSE @]]

ReverseConnectionConfig(b) ==
  /\ page[b].http.pc = "reversing"
  /\ LET ids == {c.id : c \in page[b].http.list}
         found == {c \in hub.list : c.id \in ids}
     IN IF found = {}
        THEN page' = [page EXCEPT ![b].http = NoExchange] /\ UNCHANGED hub
        ELSE \E c \in found :
          Answer(b, Applying(Upsert(hub.list, Connection(FeedbackId(c), <<c.target, c.source>>))))

\* apply_connection_bundle_import(): an id that is taken is not kept
Imported(list, raw, pair) ==
  Upsert(list, Connection(IF raw \in {c.id : c \in list} THEN MappingId(pair) ELSE raw, pair))

\* import_connections_bundle(): merged with the list before the data points are
\* refreshed, and stored after that
BeginImport(b, raw, pair) == Post(b, "merging", Imported(hub.list, raw, pair))

EndImport(b) ==
  page[b].http.pc = "merging" /\ Answer(b, Applying(page[b].http.list))

\* the page takes the list of the response, and asks for the status
AnswerArrives(b) ==
  /\ page[b].http.pc = "answered"
  /\ page' = [page EXCEPT ![b].list = page[b].http.list,
                          ![b].http = [pc |-> "told", list |-> hub.list, learn |-> hub.learn,
                                       source |-> hub.source],
                          ![b].stale = page[b].wire # <<>>]
  /\ UNCHANGED hub

AskedStatusArrives(b) ==
  /\ page[b].http.pc = "told"
  /\ page' = [page EXCEPT ![b] = [RenderStatus(@, @.http) EXCEPT !.http = NoExchange]]
  /\ UNCHANGED hub

-----------------------------------------------------------------------------
\* the master clock or the rotary display are set up differently: the graph keeps its
\* connections until the next change of them
ChangeSettings(s) ==
  /\ s # hub.settings
  /\ hub' = [hub EXCEPT !.settings = s]
  /\ UNCHANGED page

EditorsRuns ==
  \E b \in Editors :
    \/ StatusArrives(b) \/ DatapointsLoaded(b) \/ SetConnectionsConfig(b)
    \/ ReverseConnectionConfig(b) \/ EndImport(b) \/ AnswerArrives(b) \/ AskedStatusArrives(b)

EditorsWorld ==
  \/ \E b \in Editors :
       \/ LearnToggle(b) \/ EmptySource(b) \/ ClearLearnSource(b)
       \/ \E e \in Ends : SelectLearnSource(b, e) \/ CompleteLearnMapping(b, e)
       \/ \E c \in page[b].list : \/ DeleteConnection(b, c) \/ ToggleConnection(b, c)
                                  \/ AskForReverse(b, c)
                                  \/ \E p \in Pairs : SaveEdited(b, c, p)
       \/ SaveRoutingSettings(b) \/ SetConnectionsRejected(b)
       \/ \E id, p \in Pairs : BeginImport(b, id, p)
  \/ \E s \in Setups : ChangeSettings(s)

EditorsSpec ==
  EditorsInit /\ [][EditorsRuns \/ EditorsWorld]_editorsVars /\ WF_editorsVars(EditorsRuns)

-----------------------------------------------------------------------------
\* The graph passes a value from one data point to another once: no pair of endpoints
\* has two connections, be they learned, edited, reversed, imported or default ones
\* (upsert_connection(), effective_connections()).
PairsAreRoutedOnce == \A c, d \in hub.routed : PairOf(c) = PairOf(d) => c = d

\* A page that has nothing on its way to it has the list, the learn mode and the source of
\* the server, with the exceptions of EditorsAgree (renderStatus(),
\* syncLearnSourceFromServer(), loadLearnDatapoints()).
PagesAgree ==
  \A b \in Editors : ~page[b].stale /\ page[b].wire = <<>> /\ page[b].http.pc = "none" =>
    /\ page[b].list = hub.list /\ page[b].learn = hub.learn
    /\ hub.source # Unset /\ ~page[b].missed => page[b].shows = hub.source

\* Every page comes to have the stored connections and the learn mode of the server,
\* and shows the source that is selected there.  Excepted are a page that has to be
\* reloaded, as others have changed the list over HTTP since its last status or two
\* ways to tell it have crossed (stale), and the source that was told before the data
\* points to choose from were loaded (missed) (renderStatus(), saveStoredConnections(),
\* _handle_ws_message()).
EditorsAgree ==
  <>[](\A b \in Editors : ~page[b].stale =>
         /\ page[b].list = hub.list /\ page[b].learn = hub.learn
         /\ hub.source # Unset /\ ~page[b].missed => page[b].shows = hub.source)
=============================================================================
