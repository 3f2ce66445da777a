----------------------------- MODULE TempoSync -----------------------------
(***************************************************************************)
(* One tempo, three holders: the master clock (master_clock.py), what its  *)
(* subscribers and data points were last told, and the Ableton Link        *)
(* session followed by bandhelper/module.py.                               *)
(*                                                                         *)
(* A change of the clock's BPM is announced by a single background task;   *)
(* the announcement is pushed to the session unless the change is being    *)
(* applied from it.  Session changes come back by polling and by callbacks *)
(* that are scheduled onto the event loop.  Every action is the code of    *)
(* one task between two awaits.  Tempos are integers in a fraction of a    *)
(* BPM, so that QuantizeStep and MinDelta are integers too.                *)
(***************************************************************************)
EXTENDS Integers, Sequences

CONSTANTS
  Callbacks,          \* tasks created by the tempo callback of Link
  Commands,           \* tasks of commands that publish the clock's state
  LocalBpms,          \* BPM values set by rotary, web, OSC, tap tempo or config
  LinkTempos,         \* tempos other peers give to the session
  BpmMin, BpmMax,     \* config.bpm_min, config.bpm_max
  QuantizeStep,       \* config.quantize_step
  MinDelta,           \* config.min_bpm_delta
  FollowWhenRunning,  \* config.follow_when_running
  None,
  InputBound,         \* bound: inputs from outside
  CallBound           \* bound: callbacks awaiting the event loop

ASSUME TempoAssumption ==
  /\ LocalBpms \subseteq Nat /\ LinkTempos \subseteq Nat
  /\ BpmMin \in Nat /\ BpmMax \in Nat /\ BpmMin <= BpmMax
  /\ \E b \in LocalBpms : b \in BpmMin .. BpmMax
  /\ QuantizeStep \in Nat \ {0} /\ MinDelta \in Nat \ {0}
  /\ FollowWhenRunning \in BOOLEAN
  /\ 0 \notin LinkTempos          \* Link itself keeps tempos positive,
  /\ 2 * BpmMin > QuantizeStep    \* and no BPM is rounded to 0
  /\ "poll" \notin Callbacks
  /\ {"notify", "configure"} \cap Commands = {}
  /\ None \notin Nat
  /\ InputBound \in Nat /\ CallBound \in Nat

VARIABLES
  bpm,          \* MasterClock.bpm
  transport,    \* MasterClock.running
  notify,       \* _bpm_notify_task: where _emit_bpm_notifications() awaits
  published,    \* of each publisher: the BPM of the event it is publishing
  configuring,  \* where configure() awaits after it has set the BPM
  outputsDue,   \* a data point handler has yet to call _publish_outputs()
  command,      \* of each command: before _publish_state(), or within it
  overtaken,    \* history: the BPM changed while a published state carried another
  dataBpm,      \* value of the data point clock.bpm
  link,         \* "off": _link is None; "stopping": _stop_link() awaits the poll
  tempo,        \* tempo of the Link session
  lastLink,     \* _last_link_tempo
  lastApplied,  \* _last_applied_link_tempo
  applying,     \* _applying_from_link
  syncPc,       \* of each task in _sync_link_tempo(): where it awaits
  syncTempo,    \* its tempo argument
  calls,        \* tempos of callbacks awaiting the event loop
  inputs,       \* number of inputs so far
  lastWord,     \* history: who changed a tempo last
  upsets        \* history: the mishaps so far

stateVars   == <<command, overtaken>>
clockVars   == <<bpm, transport, notify, published, configuring, outputsDue, stateVars>>
sessionVars == <<link, tempo, lastLink, lastApplied, calls>>
syncVars    == <<applying, syncPc, syncTempo>>
historyVars == <<inputs, lastWord, upsets>>
vars == <<clockVars, dataBpm, sessionVars, syncVars, historyVars>>

Syncs      == Callbacks \cup {"poll"}
Publishers == {"notify", "configure"} \cup Commands
NotifyPcs  == {"none", "asleep", "changed", "outputs", "check", "dying"}

\* publishing: the BPM changed after an announcement had read it; crossed: a
\* local change or another session tempo came while a session tempo was on its
\* way to the clock; cancelled: a notification was cancelled; unannounced:
\* configure() started the transport and published no BpmChangedEvent; received:
\* the tempo of a received MIDI clock was published as if it were the clock's;
\* skipped: a session tempo was seen, and not followed, while the clock ran;
\* left: a session tempo was still on its way to the clock when the session was
\* left, and is remembered as the last one when the next session is joined.
Upsets == {"publishing", "crossed", "cancelled", "unannounced", "received", "skipped", "left"}

TypeOK ==
  /\ bpm \in BpmMin .. BpmMax
  /\ published \in [Publishers -> BpmMin .. BpmMax \cup {None}]
  /\ command \in [Commands -> {"none", "acting", "publishing"}]
  /\ overtaken \in BOOLEAN
  /\ transport \in BOOLEAN /\ outputsDue \in BOOLEAN /\ applying \in BOOLEAN
  /\ notify \in NotifyPcs
  /\ configuring \in {"no", "changed", "outputs"}
  /\ dataBpm \in BpmMin .. BpmMax
  /\ link \in {"off", "on", "stopping"}
  /\ tempo \in Nat
  /\ lastLink \in Nat \cup {None} /\ lastApplied \in Nat \cup {None}
  /\ syncPc \in [Syncs -> {"idle", "status", "flush", "flushed", "cancelled"}]
  /\ syncTempo \in [Syncs -> Nat \cup {None}]
  /\ calls \in Seq(Nat) /\ Len(calls) <= CallBound
  /\ inputs \in 0 .. InputBound
  /\ lastWord \in {"local", "link"}
  /\ upsets \subseteq Upsets

Init ==
  /\ \E b \in LocalBpms :
       /\ b \in BpmMin .. BpmMax
       /\ bpm = b /\ dataBpm = b
       /\ tempo = b
  /\ transport \in BOOLEAN
  /\ published = [p \in Publishers |-> None]
  /\ command = [c \in Commands |-> "none"] /\ overtaken = FALSE
  /\ notify = "none" /\ configuring = "no" /\ outputsDue = FALSE
  /\ link = "off" /\ lastLink = None /\ lastApplied = None
  /\ applying = FALSE
  /\ syncPc = [s \in Syncs |-> "idle"]
  /\ syncTempo = [s \in Syncs |-> None]
  /\ calls = <<>>
  /\ inputs = 0 /\ lastWord = "local" /\ upsets = {}

-----------------------------------------------------------------------------
(* Helpers. *)

Distance(a, b) == IF a < b THEN b - a ELSE a - b

\* set_bpm()'s clamping
Clamp(b) == IF b < BpmMin THEN BpmMin ELSE IF b > BpmMax THEN BpmMax ELSE b

\* quantize_bpm(): Python's round() takes a tie to the even multiple
Quantize(b) ==
  LET q == b \div QuantizeStep
      r == b % QuantizeStep
      down == 2 * r < QuantizeStep \/ (2 * r = QuantizeStep /\ q % 2 = 0)
  IN  QuantizeStep * (IF down THEN q ELSE q + 1)

\* the first condition of _publish_link_status()
SessionChanged(t) == \A l \in {lastLink} \ {None} : Distance(l, t) >= MinDelta

\* slip: the sign of the difference is kept
ShouldApplyFaster(t) ==
  /\ t > 0
  /\ FollowWhenRunning \/ ~transport
  /\ \A a \in {lastApplied} \ {None} : t - a >= MinDelta

\* _should_apply_link_tempo()
ShouldApply(t) ==
  /\ t > 0
  /\ FollowWhenRunning \/ ~transport
  /\ \A a \in {lastApplied} \ {None} : Distance(t, a) >= MinDelta

Publishing == {"changed", "outputs", "check"}

\* slip: the value is not clamped
SetBpmUnclamped(b) ==
  /\ bpm' = b
  /\ notify' = IF b # bpm /\ notify = "none" THEN "asleep" ELSE notify

\* slip: no notification while a session tempo is being applied
SetBpmUnlessApplying(b) ==
  /\ bpm' = Clamp(b)
  /\ notify' = IF Clamp(b) # bpm /\ notify = "none" /\ ~applying
               THEN "asleep" ELSE notify

\* set_bpm() and _schedule_bpm_notify(): one notification task at a time
SetBpm(b) ==
  /\ bpm' = Clamp(b)
  /\ notify' = IF Clamp(b) # bpm /\ notify = "none" THEN "asleep" ELSE notify

\* what a change does to an announcement that has read the old value
Missed(b) ==
  IF /\ Clamp(b) # bpm
     /\ notify \in Publishing \cup {"dying"} \/ configuring # "no"
  THEN {"publishing"} ELSE {}

\* ... and to a published state that carries it, or another one
Overtake(b) ==
  overtaken' = (overtaken \/ (Clamp(b) # bpm /\ \E c \in Commands : published[c] # None))

LinkOnItsWay == calls # <<>> \/ \E s \in Syncs : syncPc[s] # "idle"
Crossed == IF LinkOnItsWay THEN {"crossed"} ELSE {}

\* a BPM is being announced, or was pushed and not yet seen by a poll
ClockOnItsWay ==
  notify # "none" \/ configuring # "no" \/ (link = "on" /\ SessionChanged(tempo))

\* the end of _sync_link_tempo()
EndSync(s) ==
  /\ syncPc' = [syncPc EXCEPT ![s] = "idle"]
  /\ syncTempo' = [syncTempo EXCEPT ![s] = None]

\* a command sets out: it awaits the click player, the threads and the outputs
Act(c) == command[c] = "none" /\ command' = [command EXCEPT ![c] = "acting"]

Input == inputs < InputBound /\ inputs' = inputs + 1

-----------------------------------------------------------------------------
(* Inputs. *)

\* A command to the clock: set_bpm through handle_command(), or through the data
\* point bpm_set, bpm_up, ... whose handler then calls _publish_outputs()
LocalBpm(b, fromDataPoint) ==
  /\ Input
  /\ SetBpm(b)
  /\ outputsDue' = (outputsDue \/ fromDataPoint)
  /\ lastWord' = IF Clamp(b) = bpm THEN lastWord ELSE "local"
  /\ upsets' = upsets \cup Missed(b) \cup Crossed
  /\ Overtake(b)
  /\ UNCHANGED <<transport, published, configuring, command, dataBpm, sessionVars, syncVars>>

\* configure() once the click player is replaced: it sets the BPM itself and
\* announces it, unless it starts the transport, like a command
Configure(b, autoStart) ==
  /\ Input
  /\ configuring = "no"
  /\ b \in BpmMin .. BpmMax
  /\ bpm' = b
  /\ Overtake(b)
  /\ lastWord' = IF b = bpm THEN lastWord ELSE "local"
  /\ \/ /\ autoStart /\ ~transport
        /\ transport' = TRUE
        /\ \E c \in Commands : Act(c)
        /\ upsets' = upsets \cup {"unannounced"}
        /\ UNCHANGED <<published, configuring>>
     \/ /\ ~autoStart \/ transport
        /\ configuring' = "changed"
        /\ published' = [published EXCEPT !["configure"] = b]
        /\ upsets' = upsets \cup Missed(b) \cup Crossed
        /\ UNCHANGED <<transport, command>>
  /\ UNCHANGED <<notify, outputsDue, dataBpm, sessionVars, syncVars>>

\* A command that ends with _publish_state(): starting, continuing or stopping the
\* transport, which decides whether tempos of Link are followed, or one of the
\* click, which leaves the transport alone
Transport(c) ==
  /\ Input
  /\ transport' \in BOOLEAN
  /\ Act(c)
  /\ UNCHANGED <<bpm, notify, published, configuring, outputsDue, overtaken, dataBpm,
                 sessionVars, syncVars, lastWord, upsets>>

\* Another peer changes the session; the callback runs in a thread of Link and
\* schedules a task with the tempo it was given
LinkTempo(t) ==
  /\ Input
  /\ link # "off"
  /\ t # tempo /\ Len(calls) < CallBound
  /\ tempo' = t
  /\ calls' = Append(calls, t)
  /\ lastWord' = "link"
  /\ upsets' = upsets \cup (IF ClockOnItsWay THEN {"crossed"} ELSE {})
  /\ UNCHANGED <<clockVars, dataBpm, link, lastLink, lastApplied, syncVars>>

\* _start_link(): join the session, poll it and take its tempo
EnableLink(t) ==
  /\ Input
  /\ link = "off" /\ Len(calls) < CallBound
  /\ link' = "on"
  /\ tempo' = t
  /\ calls' = Append(calls, t)
  /\ lastWord' = "link"
  /\ upsets' = upsets \cup (IF ClockOnItsWay THEN {"crossed"} ELSE {})
  /\ UNCHANGED <<clockVars, dataBpm, lastLink, lastApplied, syncVars>>

\* _stop_link() up to `await self._poll_task`: cancelling the poll while it
\* awaits flush_bpm_notifications() cancels the notification it waits for
DisableLink ==
  /\ Input
  /\ link = "on"
  /\ link' = "stopping"
  /\ \/ /\ syncPc["poll"] = "flush"
        /\ notify' = "dying"
        /\ upsets' = upsets \cup {"cancelled"}
        /\ UNCHANGED <<syncPc, syncTempo>>
     \/ /\ syncPc["poll"] = "flushed"
        /\ syncPc' = [syncPc EXCEPT !["poll"] = "cancelled"]
        /\ UNCHANGED <<notify, upsets, syncTempo>>
     \/ /\ syncPc["poll"] \in {"idle", "status"}
        /\ EndSync("poll")
        /\ UNCHANGED <<notify, upsets>>
  /\ UNCHANGED <<bpm, transport, published, configuring, outputsDue, stateVars, dataBpm,
                 tempo, lastLink, lastApplied, calls, applying, lastWord>>

-----------------------------------------------------------------------------
(* The announcement. *)

\* slip: a running transport is taken not to push either
OnBpmChangedUnlessRunning(b) ==
  LET q == Quantize(b) IN
  \/ /\ applying \/ link # "on" \/ transport
     /\ UNCHANGED <<tempo, lastApplied, calls>>
  \/ /\ ~applying /\ link = "on" /\ ~transport
     /\ lastApplied' = q
     /\ tempo' = q
     /\ calls' = calls

\* BandHelper's _on_bpm_changed(): the session is told unless the clock is being
\* changed from it.  Link may report our own change back.
OnBpmChanged(b) ==
  LET q == Quantize(b) IN
  \/ /\ applying \/ link # "on"
     /\ UNCHANGED <<tempo, lastApplied, calls>>
  \/ /\ ~applying /\ link = "on"
     /\ lastApplied' = q
     /\ \/ Distance(tempo, q) < MinDelta /\ UNCHANGED <<tempo, calls>>
        \/ /\ Distance(tempo, q) >= MinDelta
           /\ tempo' = q
           /\ \/ calls' = calls
              \/ Len(calls) < CallBound /\ calls' = Append(calls, q)

\* _track_clock() publishes the tempo of a received MIDI clock to the same
\* subscribers
TrackClock(b) ==
  /\ Input
  /\ OnBpmChanged(b)
  /\ upsets' = upsets \cup {"received"}
  /\ UNCHANGED <<clockVars, dataBpm, link, lastLink, syncVars, lastWord>>

\* _emit_bpm_notifications() after its sleep(0): the event is built
NotifyStart ==
  /\ notify = "asleep"
  /\ notify' = "changed"
  /\ published' = [published EXCEPT !["notify"] = bpm]
  /\ UNCHANGED <<bpm, transport, configuring, outputsDue, stateVars, dataBpm, sessionVars,
                 syncVars, historyVars>>

\* ... and reaches the rotary display, then BandHelper
NotifyChanged ==
  /\ notify = "changed"
  /\ OnBpmChanged(published["notify"])
  /\ published' = [published EXCEPT !["notify"] = None]
  /\ notify' = "outputs"
  /\ UNCHANGED <<bpm, transport, configuring, outputsDue, stateVars, dataBpm,
                 link, lastLink, syncVars, historyVars>>

\* _publish_state(), whose event the bridge writes to clock.bpm, and the sink's
\* publish_outputs(), which reads the BPM after that and writes it too; more awaits
\* follow for other outputs
NotifyOutputs ==
  /\ notify = "outputs"
  /\ dataBpm' = bpm
  /\ notify' = "check"
  /\ UNCHANGED <<bpm, transport, published, configuring, outputsDue, stateVars,
                 sessionVars, syncVars, historyVars>>

\* the tasks in flush_bpm_notifications() go on
Resume(how) == syncPc' = [s \in Syncs |-> IF syncPc[s] = "flush" THEN how ELSE syncPc[s]]

\* slip: the tasks that flush are left waiting
NotifyEndsAlone ==
  /\ notify = "check"
  /\ notify' = "none"
  /\ UNCHANGED <<bpm, transport, published, configuring, outputsDue, stateVars, dataBpm,
                 sessionVars, syncVars, historyVars>>

\* The end of the task.  If the BPM is not the published one any more it calls
\* _schedule_bpm_notify(), which finds this very task not done and returns.
NotifyEnds ==
  /\ notify = "check"
  /\ notify' = "none"
  /\ Resume("flushed")
  /\ UNCHANGED <<bpm, transport, published, configuring, outputsDue, stateVars, dataBpm,
                 sessionVars, applying, syncTempo, historyVars>>

\* The task receives its cancellation at its await
NotifyDies ==
  /\ notify = "dying"
  /\ notify' = "none"
  /\ Resume("cancelled")
  /\ published' = [published EXCEPT !["notify"] = None]
  /\ UNCHANGED <<bpm, transport, configuring, outputsDue, stateVars, dataBpm,
                 sessionVars, applying, syncTempo, historyVars>>

\* configure()'s own announcement
ConfigureChanged ==
  /\ configuring = "changed"
  /\ OnBpmChanged(published["configure"])
  /\ published' = [published EXCEPT !["configure"] = None]
  /\ configuring' = "outputs"
  /\ UNCHANGED <<bpm, transport, notify, outputsDue, stateVars, dataBpm, link,
                 lastLink, syncVars, historyVars>>

\* ... and the outputs
ConfigureEnds ==
  /\ configuring = "outputs"
  /\ dataBpm' = bpm
  /\ configuring' = "no"
  /\ UNCHANGED <<bpm, transport, notify, published, outputsDue, stateVars, sessionVars,
                 syncVars, historyVars>>

\* A command reaches _publish_state(): the event is built with the BPM of now, and
\* the bridge writes clock.running first, whose subscribers may await ...
StatePublished(c) ==
  /\ command[c] = "acting"
  /\ command' = [command EXCEPT ![c] = "publishing"]
  /\ published' = [published EXCEPT ![c] = bpm]
  /\ UNCHANGED <<bpm, transport, notify, configuring, outputsDue, overtaken, dataBpm,
                 sessionVars, syncVars, historyVars>>

\* ... then clock.bpm, from the event.  The handler of a data point goes on to
\* _publish_outputs(), the other sources of commands do not.
StateWritten(c) ==
  /\ command[c] = "publishing"
  /\ command' = [command EXCEPT ![c] = "none"]
  /\ dataBpm' = published[c]
  /\ published' = [published EXCEPT ![c] = None]
  /\ outputsDue' \in {outputsDue, TRUE}
  /\ UNCHANGED <<bpm, transport, notify, configuring, overtaken, sessionVars, syncVars,
                 historyVars>>

\* _publish_outputs() by the handler of the data point, a task of its own
PublishOutputs ==
  /\ outputsDue
  /\ outputsDue' = FALSE
  /\ dataBpm' = bpm
  /\ UNCHANGED <<bpm, transport, notify, published, configuring, stateVars,
                 sessionVars, syncVars, historyVars>>

-----------------------------------------------------------------------------
(* The session. *)

\* _publish_link_status() up to the write of the data point song.link_tempo
SyncStart(s, t) ==
  /\ SessionChanged(t)
  /\ lastLink' = t
  /\ syncPc' = [syncPc EXCEPT ![s] = "status"]
  /\ syncTempo' = [syncTempo EXCEPT ![s] = t]
  /\ upsets' = upsets \cup (IF \E r \in Syncs \ {s} : syncPc[r] # "idle"
                            THEN {"crossed"} ELSE {})

\* _link_poll_loop(); a poll that finds the tempo unchanged does nothing
Poll ==
  /\ link = "on"
  /\ syncPc["poll"] = "idle"
  /\ SyncStart("poll", tempo)
  /\ UNCHANGED <<clockVars, dataBpm, link, tempo, lastApplied, calls, applying,
                 inputs, lastWord>>

\* the event loop creates the task of a callback, in the order of the calls
Callback(s) ==
  /\ s \in Callbacks /\ syncPc[s] = "idle"
  /\ calls # <<>>
  /\ calls' = Tail(calls)
  /\ \/ SyncStart(s, Head(calls))
     \/ ~SessionChanged(Head(calls)) /\ UNCHANGED <<lastLink, syncPc, syncTempo, upsets>>
  /\ UNCHANGED <<clockVars, dataBpm, link, tempo, lastApplied, applying,
                 inputs, lastWord>>

\* _sync_link_tempo() after the write: skip the tempo, or apply it and flush the
\* notification if there is one
SyncApply(s) ==
  LET t == syncTempo[s]
      q == Quantize(t)
  IN
  /\ syncPc[s] = "status"
  /\ \/ /\ ~ShouldApply(t)
        /\ EndSync(s)
        /\ upsets' = upsets \cup (IF transport /\ ~FollowWhenRunning
                                  THEN {"skipped"} ELSE {})
        /\ UNCHANGED <<bpm, notify, overtaken, applying, lastApplied>>
     \/ /\ ShouldApply(t)
        /\ SetBpm(q)
        /\ Overtake(q)
        /\ upsets' = upsets \cup Missed(q)
        /\ \/ /\ notify' # "none"
              /\ applying' = TRUE
              /\ syncPc' = [syncPc EXCEPT ![s] = "flush"]
              /\ UNCHANGED <<lastApplied, syncTempo>>
           \/ /\ notify' = "none"
              /\ applying' = FALSE
              /\ lastApplied' = q
              /\ EndSync(s)
  /\ UNCHANGED <<transport, published, configuring, outputsDue, command, dataBpm, link,
                 tempo, lastLink, calls, inputs, lastWord>>

\* slip: the flag is only cleared on the normal path
SyncEndWithoutFinally(s) ==
  /\ \/ syncPc[s] = "flushed" /\ lastApplied' = Quantize(syncTempo[s]) /\ applying' = FALSE
     \/ syncPc[s] = "cancelled" /\ UNCHANGED <<lastApplied, applying>>
  /\ EndSync(s)
  /\ UNCHANGED <<clockVars, dataBpm, link, tempo, lastLink, calls, historyVars>>

\* ... and once it is flushed, or the notification was cancelled
SyncEnd(s) ==
  /\ \/ syncPc[s] = "flushed" /\ lastApplied' = Quantize(syncTempo[s])
     \/ syncPc[s] = "cancelled" /\ UNCHANGED lastApplied
  /\ applying' = FALSE
  /\ EndSync(s)
  /\ UNCHANGED <<clockVars, dataBpm, link, tempo, lastLink, calls, historyVars>>

\* _stop_link() once the poll task has ended; tasks of callbacks go on
LinkStopped ==
  /\ link = "stopping" /\ syncPc["poll"] = "idle"
  /\ link' = "off"
  /\ lastLink' = None /\ lastApplied' = None
  /\ upsets' = upsets \cup (IF LinkOnItsWay THEN {"left"} ELSE {})
  /\ UNCHANGED <<clockVars, dataBpm, tempo, calls, syncVars, inputs, lastWord>>

-----------------------------------------------------------------------------
Announce ==
  \/ NotifyStart \/ NotifyChanged \/ NotifyOutputs \/ NotifyEnds
  \/ NotifyDies \/ ConfigureChanged \/ ConfigureEnds \/ PublishOutputs

Command(c) == StatePublished(c) \/ StateWritten(c)

Sync(s) == Callback(s) \/ SyncApply(s) \/ SyncEnd(s)

Next ==
  \/ \E b \in LocalBpms : \E f \in BOOLEAN : LocalBpm(b, f) \/ Configure(b, f)
  \/ \E b \in LocalBpms : TrackClock(b)
  \/ \E c \in Commands : Transport(c) \/ Command(c)
  \/ \E t \in LinkTempos : LinkTempo(t) \/ EnableLink(t)
  \/ DisableLink
  \/ Announce
  \/ Poll
  \/ \E s \in Syncs : Sync(s)
  \/ LinkStopped

\* The event loop runs every task that can go on; inputs need not come.
Fairness ==
  /\ WF_vars(Announce)
  /\ \A c \in Commands : WF_vars(Command(c))
  /\ WF_vars(Poll) /\ WF_vars(LinkStopped)
  /\ \A s \in Syncs : WF_vars(Sync(s))

Spec == Init /\ [][Next]_vars
FairSpec == Spec /\ Fairness

-----------------------------------------------------------------------------
(* Properties. *)

\* No task has anything left to do.
Quiet ==
  /\ notify = "none" /\ configuring = "no" /\ ~outputsDue
  /\ \A c \in Commands : command[c] = "none"
  /\ calls = <<>> /\ \A s \in Syncs : syncPc[s] = "idle"
  /\ link = "on" => ~SessionChanged(tempo)
  /\ link # "stopping"

\* A BPM that was set while neither an announcement nor the state of a command had
\* read the old one, by whatever interleaving of commands, configuration and
\* session, is what the data point, and every display that follows it, shows in the
\* end.  A state that has read it is written to clock.bpm however late, and nothing
\* is announced after that: overtaken.
AnnouncedBpmIsCurrent ==
  (Quiet /\ ~overtaken /\ upsets \cap {"publishing", "cancelled"} = {}) => dataBpm = bpm

\* The session follows a local change, up to min_bpm_delta.
SessionFollowsClock ==
  (Quiet /\ link = "on" /\ lastWord = "local" /\ upsets = {})
    => Distance(tempo, Quantize(bpm)) < MinDelta

\* The clock follows a change of the session: rounding, clamping and the deltas
\* ignored along the way do not add up, however many changes there were.  Three of
\* them can meet: the session may have moved by a delta since it was last seen, by
\* another before that, when it was found close enough to a local BPM to be left
\* alone, and that local BPM was seen rounded.
ClockFollowsSession ==
  (Quiet /\ link = "on" /\ lastWord = "link" /\ upsets = {})
    => 2 * Distance(bpm, Clamp(tempo)) <= 6 * (MinDelta - 1) + QuantizeStep

\* Nobody is left in the mode in which local changes are not pushed.
ApplyingIsTransient ==
  applying => \E s \in Syncs : syncPc[s] \in {"flush", "flushed", "cancelled"}

\* Clock and session do not answer each other for ever, also where clamping and
\* rounding keep them apart: when the inputs end, so does the exchange.  Tempos
\* that cross each other can chase each other for ever.
ExchangeEnds == []("crossed" \notin upsets) => <>[]Quiet

\* What docs/bandhelper.md says, "Local BPM changes ... are pushed to the Link
\* session", also when one local change follows while the announcement of
\* another is published.
LocalChangeIsPushed ==
  (Quiet /\ link = "on" /\ lastWord = "local" /\ upsets \subseteq {"publishing"})
    => Distance(tempo, Quantize(bpm)) < MinDelta
=============================================================================
