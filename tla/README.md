# Verification of MIDI Juggler

TLA+ models of MIDI Juggler (`src/src/midijuggler`): its master clock, the routing of
values between devices, the adapters to these devices, the displays and the web
interface; model checked with TLC, with theorems proved by TLAPS. Paths below are relative to
`src/src/midijuggler` unless they begin with `docs/` or `tests/` (which are in
`src/`). `PROJECT.json` holds the same information for tools: the components, the
runs, the source lines behind every definition, the hazards, the mutants that show
that a property can fail, the findings, and the theorems.

## 1. The system

MIDI Juggler is one Python process on a Raspberry Pi: an asyncio event loop, on
which nearly everything runs, and a few threads beside it (the transport thread of
the master clock, the click player's worker, sends to MIDI ports, Ableton Link's own
thread). Almost all state is shared by tasks of the event loop, without locks: what a
task sees may be changed by any other task while it awaits. That is where the code
is hard, and what the models are about. Nothing but the configuration file is
persisted, so there is no crash recovery.

### Components

| Component | Source | State | Operations | Correct when |
|---|---|---|---|---|
| Master clock transport | `master_clock.py` | `running`, stop event, thread, click position | start, continue, stop, toggle, configure, shutdown; the tick loop | one thread ticks while the clock runs, none otherwise; the outputs were told the truth; the first tick is the downbeat |
| Tempo announcement | `master_clock.py`, `modules/generator/master_clock.py` | BPM, the notification task | `set_bpm`, `configure`, data point inputs | every subscriber ends up with the current BPM |
| Ableton Link session | `modules/interface/bandhelper/module.py` | last tempos, "applying" flag, poll task | poll, callback, push, start/stop of Link | the two tempos follow each other and do not answer each other for ever |
| Beat flash | `modules/generator/master_clock.py` | `clock.beat`, generation, off task, lock | `publish_beat`, off task, `stop` | each flash ends, and is not cut short by an older one |
| Data point store | `datapoint/store.py` | values, subscribers | `write`, `subscribe`, `register`, `unregister` | subscribers end up with the last value |
| Modifier graph | `modules/modifier/*` | connection indexes, suppression times, accumulators | on a source value: map and write on; replace connections | coupled points agree; no endless feedback; the graph stays subscribed |
| X-Touch feedback | `midi/xtouch_feedback.py`, `modules/io/midi.py` | cache of sent values | output handler, refresh loop, layer change | the motor faders show the stored values |
| Clock controls | `master_clock.py`, `modules/generator/master_clock.py` | tap times, pending high byte, trigger levels | tap tempo, MIDI/OSC remote, trigger edges | one edge is one command; a 14-bit BPM is put together from its own two halves |
| Click player | `click_player.py` | command and click queue, PCM, worker thread | prepare, click, release, close | every command is answered; stopping is bounded |
| Event bus, bridge | `eventbus.py`, `datapoint/bridge.py` | subscribers | publish, one handler after the other | an exception does not stop the others |
| MIDI adapter | `adapters/midi.py`, `midi/echo_guard.py` | addresses, open port, input task, echo guard | input loop with reconnection, send, start, stop | the device is followed to its new address; an own message that comes back is not taken for input |
| OSC adapter, desk discovery | `adapters/osc.py`, `osc/desk_tracker.py` | transport, remote, keep-alive task; desks found | send, start, stop, reload; scan and relocate | the desk it is bound to goes on sending, wherever it is |
| Wing native | `adapters/wing_native.py`, `wing/native/*` | session, pending sends and feedback, request in flight, path cache | connection loop, coalesced sends, requests | the last value put down is sent; an answer goes to its request |
| GPIO, HID | `adapters/gpio.py`, `adapters/hid.py` | readers, debounce state, read loop | poll, read, reconfigure, reload | a level that lasts is reported |
| RTP-MIDI | `rtp_midi/*` | instances, announcers | apply, remove, refresh | an instance is announced exactly while it is configured |
| Rotary display | `modules/interface/rotary_display/*`, `rotary_mdns.py` | serial and network links, pushed fingerprint, cached address | sync, lines in and out, push of the configuration, lookup of the name | the display shows the clock; it has the configuration its fingerprint says |
| GamePi brightness | `modules/interface/gamepi_brightness.py` | level, time of the file | set, adjust, poll, refresh | the store shows the level, whoever set it |
| Learn controller, connection pages | `learn.py`, `web/static/app.js`, `datapoint/*_connections.py` | learn mode and source; each page's list | select, map, save, import, reverse | pages agree with the server; no value is routed twice |
| Web monitor | `web/monitor_coalesce.py` | pending payloads, flush tasks, browsers | offer, flush, join, leave | the last payload is shown |
| Web server, configuration | `web/server.py`, `config.py` | `AppConfig` and its file | edits, import, load | an edit keeps what it does not mean to change, and a removal lasts |
| Registry, service | `modules/registry.py`, `service.py` | running modules | start in order, stop in reverse | the points of a device are served as configured |
| Libraries, system pages, deployment | | | | look-up tables, command output, scripts: not modelled, or only where a module uses them |

### How they interact

* A **command** reaches the master clock from MIDI, OSC, the web server, the GPIO or
  a data point, each in a task of its own: two commands can be in flight at once.
* The clock **publishes** events on the bus; the generator module mirrors them into
  data points; the displays, BandHelper and the web monitor subscribe.
* A **data point write** calls its subscribers one after the other and they may write
  again: a nested write is complete before the next subscriber is called.
* The **modifier graph** subscribes to every source and writes to the targets. I/O
  modules subscribe to points with an output and send to the device, and the device
  may answer.
* **Link** changes come from a thread of Link's, which schedules a task on the event
  loop, and from a poll.

What is hard, with the line where it bites, is listed under "hazards" in
`PROJECT.json`, with the properties that would catch it going wrong; where there is none
it says why.

## 2. The modules

| Module | Models | Instance and runs |
|---|---|---|
| `MasterClockTransport` | commands against the transport threads | `MCTransport`: `transport`, `transport_race` |
| `MasterClockTransportProofs` | theorems about it | - |
| `TempoSync` | BPM announcement and Ableton Link | `MCTempo`: `tempo`, `tempo_race` |
| `BeatFlash` | the beat pulse and its lock | `MCBeat`: `beat`, `beat_deadlock` |
| `ClickPlayer` | the click worker, its queues and its callers | `MCClick`: `click`, `click_return` |
| `TempoSyncProofs`, `BeatFlashProofs`, `ClickPlayerProofs` | theorems about these | - |
| `DataPointRouting` | store, graph, suppression, motor fader | `MCRouting`: `routing`, `routing_muted` |
| `DataPointRoutingProofs` | theorems about it | - |
| `WingLink`, `LatestValue` | session with a Wing desk, coalesced faders; what a coalescing sender promises | `MCComponents`: `components` |
| `WingClient` | requests for node definitions over one stream of answers | same |
| `MidiPort`, `EchoGuard` | the MIDI input loop; echoes of MIDI and OSC sends | same |
| `OscDesk` | an OSC adapter bound to a desk, discovery, relocation | same |
| `GpioInput`, `HidInput` | footswitches; keys of input devices | same |
| `RtpSessions` | announced RTP-MIDI sessions | same |
| `RotaryDisplay`, `DisplayLookup` | display over OSC and serial; its name and address | same |
| `GamePiBrightness` | brightness and its writers | same |
| `ClockControls`, `RelativeEncoder` | taps, steps, 14-bit BPM; endless encoders | same |
| `PointLifecycle` | registration of points, subscriptions | same |
| `MonitorStream` | the web monitor of one fast point | same |
| `ConfigEdits` | edits of the configuration and its file | same, and `edits_removals` |
| `ConnectionEditors` | connections, learn mode, the pages that edit them | same |
| `ConfigurationEdits` | the last two side by side | same |
| `Components` | all seventeen side by side, and what they promise together | same |
| `AdapterProofs` | theorems about `WingLink`, `WingClient`, `MidiPort`, `GpioInput`, `HidInput`, `EchoGuard`, `OscDesk` | - |
| `WebProofs` | theorems about `PointLifecycle`, `ConfigEdits`, `ConnectionEditors`, `MonitorStream` | - |
| `ComponentProofs` | theorems about `RtpSessions`, `RotaryDisplay`, `GamePiBrightness`, `DisplayLookup`, `ClockControls`, `RelativeEncoder`, and about `Components` | - |

In all of them an action is the code of one task between two awaits, in the order of
the code. A task that awaits is a value of a `...Pc` variable, or of a field `pc`, named for what it
awaits. What a task reads before an await and uses after it is a variable of its own
(`snapshot`, `published`, `syncTempo`, `pulseGen`, the frames of `stack`).

Definitions whose comment begins with "slip:" belong to no specification. Each is the
definition that follows with a plausible mistake; replacing the definition by it
makes a property fail, which shows that the property is about the code and not about
the shape of the model.

**History variables.** The code has races that break what one would like to state.
Rather than weakening the properties for everybody, a history variable (`past`,
`upsets`) records which mishap has happened, and a property excuses exactly the
mishaps that really break it. Each of the mishaps is named and explained where it is
declared, and the important ones are findings (section 4).

### MasterClockTransport

State: `running`, `stopEvent`, `transportThread` and `position` are the attributes of
`MasterClock`. `taskPc`, `joining`, `announce`, `plan` and `snapshot` are the locals
of the command tasks; `threadPc` is the program counter of each transport thread;
`lastStatus` and `shown` are what MIDI outputs and displays were last told.

Actions: one per command (`CommandStart` ... `ConfigureAutoStart`), one per step of a
command after an await, three per turn of the thread's loop. The condition of the
loop, the submission of the tick and the advance of the position are separate steps,
because a command may fall between any two of them. `handle_command("start")` is ignored while
the clock runs, `continue` is not: the guards are the code's. `stop_transport()` joins
the thread for two seconds at most; as a thread sleeps for a whole tick, which is
longer than that below 1.25 BPM (the configuration demands only `bpm_min > 0`),
`JoinTimedOut` is always possible, and `past` remembers it.

Left out: the monotonic deadlines of the ticks, and what a click sounds like. The code counts ticks
without end (`position_ticks += 1`) and asks only for the remainder by the interval; the model keeps that remainder.

### TempoSync

State: `bpm`; `notify`, where the single notification task stands; `dataBpm`, the
data point; the session's `tempo`; and BandHelper's `_last_link_tempo`,
`_last_applied_link_tempo` and `_applying_from_link`. Tempos are integers in a fraction
of a BPM, so that the rounding to 0.5 BPM (`quantize_step`; ties to even, as Python's
`round`), `min_bpm_delta` and the clamping to `bpm_min .. bpm_max` are exact.

Actions: the inputs (local BPM, configuration, a command, a change of the session,
enabling and disabling Link, a received MIDI clock), the steps of the announcement, the two steps of the
state that a command publishes (`StatePublished` builds the event, with the BPM of then; `StateWritten` is the bridge,
which writes `clock.running` first, with the awaits of its subscribers, and `clock.bpm` from the event after that), and
the steps of `_sync_link_tempo()` for the poll and for each callback. Cancelling the poll
while it flushes cancels the notification task it awaits, as `await task` does.

Left out: keys and OSC of BandHelper, Link's phase.

### BeatFlash

State: `clock.beat`, the generation counter, `_beat_off_task`, the lock with its
queue, and where each beat, off task and `stop()` stands. `asyncio.Lock` is fair: it
lets its waiters in in order. `Task.cancel` depends on where the task is: before its
first step it just ends; in the `try` block it goes to `finally`, which asks for the
lock; a second cancellation before it runs again is merged with the first; one while it
waits in `finally` ends it. These rules are `Cancel`, and the run of the real code
agrees with them.

### DataPointRouting

State: the values of two data points, the position of a motor fader and of a desk
fader, the suppression times, and for every task the stack of the writes it is in.
`loop` is the task that runs: only an awaited send lets another one run. The subscribers of a point
are called in the order of their subscription; the graph is started before the I/O
modules and comes first. The X-Touch output handler first writes the value it was
handed back to the store (`persist_feedback_value`), also when the store holds it no more, then remembers and sends it. MIDI
is sent by a thread, so that the fader moves when the send ends; a datagram to the desk
leaves at once, and then the event about it is awaited.

The two range maps are constants, with the assumption that they mirror each other up to
the ends of their ranges. In the instance each fader has one more position than the range of the
connection from it, so that both maps clamp.

Values written back late can go on for ever (section 4), so `RevertBound` bounds their number; `reverts` counts them.

Left out: factors and pass-through, several connections per point; encoders are in `RelativeEncoder`,
the replacement of connections is in `PointLifecycle`.

### ClickPlayer

State: `clicks` (the elements of `_click_queue` are all alike, so their number), `commands`,
the wake and stop events, the handle `pcm`, the mark `unavailable`, whether the WAV is cached;
`pc` is where the worker is in its loop, `callerPc` where a task of the event loop awaits
its future or the `join()`, `tickPc` where the transport thread is in `trigger()`.

Actions: the worker's turn is cut where it reads what other threads write: the two
queues and the event. A command is handled in one step, as nobody else touches the
handle; what ALSA answers is chosen from what the device may answer (`Opens`,
`Writes`). An open handle whose device is unplugged is `dead`. The device and the file change at
any time. `join()` blocks the event loop (`LoopFree`). The clock gives commands to its
current player only, which `configure()` replaces before it closes the old one; `stop()`
closes the player and keeps it. Both kinds of handle (kept, or opened for each click on
the Wing's PCMs) are initial states of one model.

Left out: sample formats, the warnings, the 10 ms pause before a retry, and the fallback
player that starts `aplay`.

### The components around the clock

Seventeen smaller modules model the adapters, displays, controls and web handlers. They are
built alike. A module `X` has its state as a few records that follow the attributes of the
class; `XRuns`, what the event loop, the threads and the tasks do by themselves; and `XWorld`,
what users, devices, the network or other processes do to it. An action is the code of one
task between two awaits that really suspend. The program counter of a task is its `pc`.

Their properties hold *except* for the races that the code does have. A flag (`odd`,
`crossed`, `calm`, `stale`, `gaveUp`, ...) remembers that one of these has happened, the
property excuses exactly that, and its comment says in words what is excused. A flag is not
more than that: no action reads it to decide what to do. What is excused is listed
in section 4, as far as it is of interest.

| Module | State and actions | Left out |
|---|---|---|
| `WingLink` | The connection loop (connect, read, keep-alive, teardown, retry), `reload` to another host, the warm-up of paths, the send task and the feedback task of each fader with what is pending in them, the echo guard. `Written` ends an await that may have waited for the client's lock, and takes its `finally` along, which makes the next task. | Mutes and other parameters, which are sent at once; units. |
| `LatestValue` | Abstract: values that wait, the value at the other end, whether the way is up. | |
| `WingClient` | Tasks in `resolve_path()`, the lock (fair, as `asyncio.Lock` is), the future of the one pending request, the drain after a timeout, the batches in which answers are read. A node is its true path, so what the desk answers is known. | The bytes: the decoder is what it yields. |
| `MidiPort` | The input loop: look for the label, open, poll, notice that the port is gone, close, wait, look again; the cached output address, refreshed in the loop. A device comes back with the same or another ALSA address. | Messages (`DataPointRouting`, `EchoGuard`). |
| `EchoGuard` | Sends that a thread writes and that are recorded when the await of it is over, the records, each a value with its age, and their pruning, messages on the way to the control and from it, its user. MIDI compares exactly, OSC within a tolerance and records as it sends. | Several controls of an adapter: their keys are apart. |
| `OscDesk` | `start` (the endpoint is awaited, or the port is taken), `stop`, `reload`, the keep-alive loop (also an old one that a crossed stop left behind), scans that hear desks and apply what they heard, requests that edit the adapter; of each desk its address and whether it is subscribed. | Proxy clients. |
| `GpioInput` | Readers, exports of sysfs pins, the debounce state of each pin with the age of its candidate, `configure_options()` step by step. | `active_low`: a level is the logical one. |
| `HidInput` | Calls that stop, open and start, read loops with the event in their hand, the device with the events not yet read. | Axes; learning. |
| `RtpSessions` | Calls to apply, remove and refresh, with the await of the process that starts or ends; what the network sees. | Discovery. |
| `RotaryDisplay` | The serial loop with its lock, the OSC target, syncs with the last state sent, the beat that flushes one, pushes with fingerprint and commands; requests that change settings or the transport, each await of theirs (serial port, alignment of the display's configuration, its hello, the sync), also overlapping ones. | Keys; module start and stop; an open that is cancelled as it ends. |
| `DisplayLookup` | Threads that look the name up, the cache and its end, the address that is noted, to which syncs and beats go. | Several displays; addresses browsed for at the start. |
| `GamePiBrightness` | File, its time and the backlight device; the process of the keys (`scripts/gamepi_brightness_lib.py`) in its steps; the module's poll and `refresh()`; `brightness_set` and the web handlers. | The moment in which a file that is written is empty; backlights by PWM and by software alone. |
| `ClockControls` | Times of taps, trigger levels, steps, numbers, the pending half of a 14-bit BPM; `set_bpm` with limits and rounding; `configure()` before and after it awaits the replacement of the click player. Time in whole units. | Click toggles. |
| `RelativeEncoder` | Position on the ring, last input, accumulator, target; `absolute_delta()` and the offset-binary form as operators. | Curves; several connections from one encoder. |
| `PointLifecycle` | Versions registered of each point, subscriptions of I/O module and graph as counts, the set that the graph remembers; edits of points, enabling, connections. | Values. |
| `MonitorStream` | The stored value, which changes also while nobody browses; the pending payload, flush tasks, the broadcast that iterates over the set of browsers and raises when the set changes, joins with replay. | Points that are not coalesced. |
| `ConfigEdits` | Configuration in memory and in the file, for one adapter, its device and their connections; each handler up to its await and after it; `load_config()` with the devices it infers and the connections it skips. | Fields that only one handler writes. |
| `ConnectionEditors` | Learn mode, stored and routed connections with their ids; of each page its list, what it was told, the statuses on the web socket and the one response over HTTP. | Ranges and modifiers of a connection. |

`Components` puts them side by side and states what they promise together. They share no state
in the model, as each is about the state of its own class. `MCComponents` runs them: `focus` chooses the one that runs, so the state space is the sum
of theirs and not the product, and `budget` is how many more events of the surroundings
there are. What a component does by itself is not bounded. Where initial states differ only
in the names of model values, one of them is taken; this and the initial state of a
component that is not in focus are in `Init`.

## 3. What the runs check

All bounds are constants or are named in the module.

**`transport`** - two command tasks, three thread identities (a dead one is used
again), a click interval of two ticks. Two commands in flight are enough for every race of
the code, which is always between a stop in its join and one other command; three
threads are enough for one that is referred to, one that is being joined and one that
is forgotten.
* `SoleTicker`: no two threads tick. `RunningIsDriven`: a clock that says it runs, at
  rest, has a living thread nobody told to stop. Both hold however commands overlap,
  unless a start or continue fell into a stop's join or a join gave up.
* `OutputsAgree`: with commands one after another, the last MIDI status and the last
  published state are those of the clock.
* `StartsOnDownbeat` (action property): no frame of the run before advances the position
  between a start and its first tick.
* `StoppedFallsSilent` (liveness, no excuse): if the clock stays stopped all
  threads end, the forgotten ones included.

**`tempo`** - quarters of a BPM; local BPMs 11 and 11.75, session tempos 10.25 (below
`bpm_min` 10.5) and 11.75, `bpm_max` 12, steps of 1 BPM, a minimal delta of 0.5 BPM: values which are
clamped, rounded up and down, and lie within a delta of each other. Three inputs, one
callback task beside the poll, two callbacks waiting. `FollowWhenRunning` is FALSE, the
branch in which the transport matters. One command at a time publishes its state.
* `AnnouncedBpmIsCurrent`: at rest, the data point holds the BPM, unless the BPM changed while an announcement, or the
  state of a command, was being published with the one before (`publishing`, `overtaken`).
* `SessionFollowsClock`, `ClockFollowsSession`: at rest, whoever changed last is
  followed. After a local change the session is within the delta of the rounded BPM. After a
  change of the session the BPM is within three deltas and half a step of the clamped tempo, however
  many changes there were: ignored deltas do not add up, but three of them can meet (`CloseToSeen`,
  section 5). Another mishap, `left`, needs more inputs than the run has; the theorems cover it.
* `ApplyingIsTransient`: nobody is left with `_applying_from_link` set, which would
  silence local changes for ever, not even when the poll is cancelled as it flushes.
* `ExchangeEnds` (liveness): once inputs end, the exchange between clock and session
  ends, unless changes crossed each other.

**`beat`** - two beats at once, three off tasks, four beats.
* `SoleOffTask`: one task at most is about to end a flash, until `stop()`.
* `StaleOffNeverClears` (action property): no off task clears `clock.beat` while the
  latest beat is still being published, not even one that `stop()` has forgotten.
* `LitBeatHasAnEnd`: whenever `clock.beat` is 1.0 somebody is still going to clear it.
* `FlashEnds`, `StopCompletes` (liveness): unless beats collide, each flash ends; and
  `stop()` ends even when a beat is stuck inside the lock, since it cancels the off
  task a second time.

**`routing`** - two faders with three positions each, the highest of which the other one's range
clamps; two datagrams in flight, a window of one tick of a clock with three values, three inputs, one value that
is written back late. The theorems cover any number of these.
* `PairAgrees`: whenever the event loop is free one of the two points has what the other is mapped
  to. It is one of them only: a value beyond the range of the other stays where it
  was put, and maps to the end of that range. Nothing is excused, values that a subscriber was
  handed too late included.
* `DeskIsShown`: at rest the desk shows its point, unless a subscriber was handed a value already replaced.
* `ControlCatchesUp` (liveness): the refresh loop brings the motor fader to the
  stored value in the end, whatever was suppressed or overtaken on the way, unless late values are written back for ever.
* `TypeOK` bounds the depth of nested writes (`Depth`): however the two maps clamp, a write sets off two others
  at most, and one more level can come only with a value that is written back late. What goes round between reciprocal
  connections is therefore always somebody's late write, and never the clamping of the maps.

**`click`** - two callers, one transport thread, all states of device and file; at most
one click arrives before the worker finds its queue empty, and two commands before it finds none. The bounds
stand for clicks and commands that are slower than the worker; one click at a time is
enough for the wake-up race and for a click that a busy device returns, and two commands for one behind
a close. `ClickWakesWorker` and `EndedWorkerOwesNothing` are proved for all bounds.
* `ClickWakesWorker`: the worker never lies down for its 50 ms poll with a click waiting
  that nobody wakes it for.
* `ReleaseHeals`: after a release nothing is left over from a device that was missing, an unplugged
  handle included.
* `EndedWorkerOwesNothing`: nobody awaits an answer of a replaced player whose worker has ended.
* `Answered`, `CloseEndsWorker` (liveness): commands, which do not wake the worker, are
  answered, and a closed worker ends. Their premise is that the device is not busy for
  ever, and they excuse a worker that has died.

**`components`** - the components around the clock, each by itself. Bounds: the number of
events (`Budget`) is 2 to 6; enough for a change, a second one while the first is under way,
and one after both. Two of whatever races: resolvers, callers, calls, requests, browsers,
desks, pages, lookups, pushes. One fader (its tasks are per fader), one display, one connection in a
file. Values are few: three levels with a dead band of two, a debounce of two turns, a guard
window of one tick, three values for a monitored point. A ring of six positions and a target of
0 .. 4 make the encoder go over its end and the target stop at both. Larger instances of
single modules passed as well when they were checked alone (one more page event; four events
and four values for the echo guard).

* `LastFaderValueIsSent` (refinement): `WingLink` implements `LatestValue`. Fader values
  reach the desk in the order in which they were put down, and the newest one always does
  unless the session goes down.
* `FeedbackSettles`: the value published for a fader comes to rest within the dead band of the desk's.
* `PathsAreResolved`: no path is ever bound to another's node, however answers and requests
  are mismatched; and an existing one is found, unless an answer came in two reads or a drain was given up.
* `InputsAreFollowed` (liveness): a MIDI port at its new address, a footswitch after its
  bounces, a key through reloads and losses of the device, and a control that echoes: each is
  at last known as it is.
* `AtRestAllAgrees`: what is at rest agrees with what it follows, or somebody is still going to see to it.
  Its parts are `AnnouncedAsConfigured` (between calls a configured session is announced, however calls
  crossed; it alone, and once, if none did), `PortIsServed` (the input loop is never lost, and an open MIDI port is where the
  device is), `StableIsPublished` (a polled pin shows its debounced level), `KeyIsHeard` (a running HID adapter has a read loop,
  and its key is published when no event waits), `ControlIsHeld` (echoes done, program and control agree), `SessionIsKept` (an OSC
  adapter between requests runs as configured and renews its subscription), `NewestIsUnderWay` (a pending value has its task, at
  rest browsers show the newest, unless broadcasts crossed or the store went on with nobody browsing, and nothing has been broadcast in order since), `PagesAgree` (a page with nothing on its way shows what the server has), `PushedIsOnDisplay` (a
  configuration that counts as pushed is on the rotary display) and `BrightnessWillBeTold` (the store knows the brightness or is
  about to). These are what the liveness properties below come to rest in.
* `DeskIsFollowed` (liveness): the adapter comes to be subscribed to the desk it is bound to,
  where it is by then.
* `DisplaysCatchUp`: a rotary display comes to show the clock, over either transport and at
  its new address; the store shows the brightness.
* `ControlsAreObeyed`: a tempo that a tap has set lies between the intervals of the last taps, within
  the limits, and there were as many taps as the configuration of the time asked for; no pending half of a 14-bit BPM is
  paired with one that comes under another tempo, unless it came while a configuration was on its way; an encoder moves its
  target by its turns.
* `PointsAreServed`: points are registered as configured, and the graph hears each source once.
* `BrowsersCatchUp` (liveness): nothing stays pending; every browser comes to show the newest
  value, every page the connections and the learn source.
* `EditsAreKept`: memory and file agree with the accepted edits, also after a restart; no edit
  of connections, learned, imported, reversed or default, routes a pair twice. (The first half was also
  checked in `ConfigEdits` alone without a bound on events: two requests, 528 036 states.)
* `ComponentsTypeOK`: types, with the facts that tie the parts of a state together.

Several of these are a conjunction with a part for each component; the parts are named
(`KeyIsFollowed`, `SwitchIsFollowed`, ...) and defined in the component's module. A property's
mutant in `PROJECT.json` breaks one part. The other parts have a slip of their own, which TLC
refutes in the same run: `NeverOldEnough` for `Debounced` (`GpioInput`), `KeepAddresses` for
`RefreshAddresses` (`MidiPort`), `KeepsList` for `RenderStatus` and `AppendAll` for `Merge`
(`ConnectionEditors`), `QuietlySettled` for `PortSettled` and `KeepPrint` for `UpdateConfig` (`RotaryDisplay`),
`Kept` for `Dropped` (`DisplayLookup`), `AnyChild` for `FindChild` (`WingClient`), `Remembered` for `KeptTaps` and
`SameRemote` for `SetBpm` (`ClockControls`).

The liveness properties have the form `<>[](...)`: the surroundings have only finitely many
events, after which the component must settle. For an unbounded history that reads "whenever
the surroundings are quiet for long enough".

**Deadlock.** `transport` is checked for it. The others stop when their inputs or beats
are used up, so there the check is off; that what should go on does go on is left to the liveness properties.

**Fairness.** The event loop runs every task that can go on and the operating system
schedules every thread, so each has weak fairness for its own steps. Inputs, beats and commands
have none: they may stop at any time. The refresh loop of the X-Touch is strongly
fair: it wakes on a timer, and its step is enabled only while no other task holds the
event loop, which is so again and again. In `components` what the component at hand does
by itself (`Runs`) is weakly fair as a whole, which is less than the event loop gives to each task.

## 4. Findings

Each is a run that TLC must find violated. They were reproduced by running the code.

1. **A start in the join of a stop** (`transport_race`). `_ensure_transport_thread()` keeps any
   living thread, also one that was told to stop and is being joined. `stop` followed at
   once by `start` or `continue` (a double press, a MIDI Stop and Start in a row) can leave `running` TRUE
   with no thread: the clock says it runs and is silent, and further starts are ignored.
   If the thread had just died, the ending stop forgets the new thread
   and a later `continue` starts another beside it: twice 24 PPQN.
2. **The second of two BPM changes is not announced** (`tempo_race`). The
   notification task reschedules itself from within, where `_schedule_bpm_notify()`
   finds it not done and returns. The data points are usually right, since they read the BPM late;
   the Link session keeps the older tempo.
3. **Two beats deadlock** (`beat_deadlock`). `publish_beat()` awaits the cancelled off
   task inside a lock that the off task needs to end. A flash is at most 45% of the click
   interval, so in steady tempo beats do not collide; after a change to a faster
   interval, a restart within a flash, or a busy event loop they do, and no beat is published
   until `stop()`. If `stop()` falls together with such a beat (`merged`), `stop()` hangs too, and with it the shutdown.
   `tests/test_clock_datapoint_routing.py:708` tests a second pulse, but there the off task has not yet begun, the one case that works.
4. **Feedback taken for input** (`routing_muted`). Writing the control on behalf of the
   desk passes through the graph as if the user had moved the control; the next movement of the desk
   within the window is kept from the motor fader. The refresh loop repairs it.
5. **A click device that was missing once stays silent** (`click_return`). The warning says that clicks are
   dropped "until device returns" (`click_player.py:317`); the player never tries again
   until the next prepare or release, which a running transport does not send.

6. **Saved connections forget removed devices** (`edits_removals`). A payload with runtime
   settings, which the browser sends with every save of connections (`routingSettingsPayload()`
   in `app.js`), makes a new `RuntimeConfig` of `datapoint_routing` and `feedback_suppress_ms`
   alone (`web/server.py:1412-1438`). `suppressed_inferred_device_adapters` becomes empty, in
   memory and in the file, and the device that was removed is inferred again. `config.py:1402` says the list is
   there to "Remember adapters whose inferred device was explicitly removed."


Observations which no run is spent on:
* `configure()` that starts the transport publishes no `BpmChangedEvent` (`unannounced`).
* `_track_clock()` publishes the tempo of a received MIDI clock as an event that BandHelper pushes
  to Link as if the clock had it (`received`).
* A command publishes its state with the BPM of then; the bridge writes that to `clock.bpm` after it has awaited the
  subscribers of `clock.running`. A BPM that is set and announced meanwhile is overwritten with the older one, in
  the data point and on every display that follows it, until the next change (`overtaken`).
* A session tempo seen while the transport runs is not applied after the stop (`skipped`).
* A callback's task that still applies a tempo while Link is disabled writes `_last_link_tempo` of a session
  that was left; the next session's first tempo may then count as no change (`left`).
* A local change and a session change that cross can chase each other for ever (`crossed`).
* A beat with slow subscribers can write its 1.0 after a newer beat was lit and cleared
  (`overtaken`): nobody clears it before the next beat.
* Two tasks that persist different values of one control undo each other's values, and
  the pair of faders oscillates for as long as the sends of the two overlap (`reverts`).
* While the click device is busy, the click worker tries again without a pause and looks
  at no command: `stop_transport()`, which awaits a release, waits as long, and a
  replaced player goes on competing for the device.
* A click queued before a close or a release is written after it and opens the handle again.
* `prepare()` answers TRUE with the handle of a device that was unplugged and came back.
* A WAV file that vanishes between the check in `prepare()` and the load marks the *device*
  as missing ("No such file"); one that cannot be decoded ends the worker (`Dies`), and whoever awaits it waits for ever.
* `docs/master_clock.md` caps the flash at 90% of the interval (the code at 45%) and
  divides the CC range of the click interval into four (the code into five).
* *Configuration.* `import_connections_bundle()` merges before its await and stores after it,
  so an edit in between is lost. Edits that are refused half-way leave a configuration in memory that is
  neither saved nor applied. Connections that are skipped at load stay in the file and come back with their
  device. A desk synchronisation that awaits writes an older adapter back.
* *Connection pages.* A save carries the whole list of the page and so takes back what others
  changed since. A page that is opened while a learn source is selected does not show it. The graph's default
  connections for the clock and the rotary display are not applied again when their settings change.
* *Points.* A point that was unregistered and registered again is not heard by the graph any more;
  `register()` raises when a spec has changed; the MIDI module is not restarted by a refresh.
* *Wing.* The end of a late answer after the drain gave up counts as the end of the next
  request, which then finds nothing; an answer split over two reads loses its first part.
* *MIDI and OSC.* An echo before its record, or after the window, is taken for input; a user's
  move to a value sent within the window is taken for its echo. An output port that is missing at the start is
  found only when the input loop refreshes. A `stop()` that overlaps a start closes the new transport.
* *GPIO and HID.* `configure_options()` of the same pins unexports them under the new readers,
  and the poll loop dies. A key released while its device is away stays pressed. Overlapping reloads leave two read
  loops or none.
* *RTP-MIDI.* Concurrent applies leave two announcers, one of which nobody can stop any more.
* *Web monitor.* While nobody browses, a new value is not offered to the coalescer, and one that waits there stays. Whoever
  joins is shown the stored value and then the older one, until the next change.
* *Rotary display.* Overlapping syncs may be written in the wrong order, and the fingerprint of a push may
  belong to other commands than those sent. A display with a new address stays unreachable until the cached one is half a minute old:
  syncs and beats go to the address that was noted at its last hello (`_resolve_beat_udp_target()`). `_udp_send()`, which would
  look the name up again after an error, has no caller but `_send_osc()`, which has none;
  `tests/test_rotary_display_module.py:33` and other tests replace it and expect every sync there, and
  `tests/test_rotary_mdns_resolve.py:150` tests its second look-up: a path that the program does not take.
  The configuration that is aligned with the network before a change to OSC is kept in the module only, so that the next request
  pushes the server's again. A push that waited for the lock while the port was closed raises an `AttributeError`.
* *Brightness.* A write between the publication and the look at the file in `refresh()` is not
  published when its writer cannot notify the service; `brightness_set` is ignored when the store shows that level already.
* *Controls.* `tap_tempo_min_taps` of 6 or more never sets a tempo (five taps are kept). The pending half of
  a 14-bit BPM is shared by all sources and lost when the BPM changes. `configure()` takes the new number of taps and a
  new remote before it awaits the click player, and sets the BPM after that: a tempo set meanwhile is overwritten, and a half that came
  meanwhile survives the change of the tempo. An absolute encoder with two connections moves the target of one only, as
  the last position is kept by source (`_last_relative_input`). The accumulator of an encoder is never read
  from its target again, so a turn undoes what others wrote.


## 5. What is proved

`MasterClockTransportProofs`, for any number of tasks and threads and any click interval, from `TransportAssumption`
alone:

* `TypeCorrect`: `Spec => []TypeOK`.
* `DrivenInvariant`: `Spec => []Inv`, the inductive invariant.
* `SoleTickerHolds`, `RunningIsDrivenHolds`: the two safety properties, from `Inv`.

`SoleTicker` is not inductive: that there is one living thread says nothing about
which one, and a start creates another if the reference is lost. `Inv` says what makes it safe in a disciplined history:
* `NoOrphan`: only the referenced thread lives;
* `JoinersWait`: a task in a join waits for the referenced thread, unless another stop
  has already forgotten that, and the stop event is set;
* `CondemnedIsJoined`: a living thread that was told to stop has a task joining it;
* `DrivenUnlessStarting`: a running clock is driven, or some task is still starting it.

The argument: the reference is dropped only when a join ends, and a join that ends
without giving up means that thread is dead, so dropping the reference orphans nobody
(`NoOrphan`). A thread is created only when the referenced one is dead, hence no second
one. A start finds a condemned thread only if somebody is joining it
(`CondemnedIsJoined`), and then the history is not disciplined any more. The lemmas
`StartKeepsDriven`, `StopKeepsDriven` and `MoveKeepsDriven` treat the three ways in
which a command changes the state; creating and joining a thread have a lemma each.

While commands come one after the other (`past = "serial"`), `SerialInvariant` holds as well, and from it
`OutputsAgreeHolds` and `StartsOnDownbeatHolds`. Its parts (`InTurn`):
* `OneAtATime`: one task at most has a command in flight, so that its step has only its own promises to keep;
* `AwaitsAgree` and `OutputsTold`: at each await the clock, its thread and the outputs are as the command made
  them, and the state that a command leaves is the one it publishes last;
* `SilentWhenStopped`: a stopped clock has no thread once the stop has joined it. So nothing is left that could
  advance the position after a start, and the next tick is the one due (`DownbeatAhead`).

`BeatFlashProofs`, for any number of overlapping beats and of off tasks, from
`BeatAssumption`: `FlashInvariant` (`Spec => []Inv`), and from it `SoleOffTaskHolds`,
`LitBeatHasAnEndHolds` and `StaleOffNeverClearsHolds`. What makes them inductive:
* `NewestIsAlone`: one pulse at most carries the latest generation and has not yet left
  an off task; no off task of that generation lives while it does. It rests on
  `PastGenerations`, as a new generation is greater than all that are in use;
* `HolderCancels`: only a pulse that awaits an off task keeps the lock across an await,
  so that nobody can replace the off task meanwhile;
* `OffTaskIsKnown`: until `stop()`, the off task the module refers to is the only one
  alive, and the latest pulse finds none.
`LitBeatHasAnEnd` is part of the invariant: it is inductive together with the rest.
These proofs need only part of the types (`Typed`). The rest is `TypeCorrect`: that the generation is at most
the number of beats follows from `EachBeatOnce`: the beats submitted are those that
became a generation and those whose pulse waits for the lock or awaits an off task. (These are
finitely many at any time, whatever the set of pulses.)

`TempoSyncProofs`, for any tempos, limits, step, delta and number of callbacks, from
`TempoAssumption`: `TypesHold`, which besides the types says that whoever is to publish
or apply a tempo has one (`Types`); `TypeCorrect`; `ApplyingIsTransientHolds`, which is
inductive with `Types`; and `AnnouncedBpmIsCurrentHolds`, by the invariant
`BpmIsOnItsWay`: the data point holds the BPM, or an announcement that has not read it
yet, a configuration, a command or an input handler is still going to write it. A state that is published has the BPM,
unless that was overtaken.

`SyncInvariant` is the exchange of the two tempos, without a bound on the inputs: as long as none of the
mishaps of `Upsets` has happened (`Together`),
* `Current` and `Single`: whoever publishes publishes the BPM, and one task at a time takes a session tempo to the
  clock, the one that was seen last, with the flag set while it waits for the announcement;
* `NoSession`, `Known`, `Joined`: without a session no tempo of one is remembered, the tempo of one has been seen, is
  about to be reported or was pushed by ourselves, and its first tempo is applied;
* `AsApplied` and `CloseToSeen`: the BPM is the one applied last, and that is close to the one seen last;
* `OwnTempos` and `Agreeing`: after a local change everything under way was pushed by ourselves, and brings the
  session to the BPM, or the BPM to the session.

`SessionFollowsClockHolds` and `ClockFollowsSessionHolds` follow. They need two assumptions more: Link
keeps tempos positive, and no BPM is rounded to 0 (`2 * BpmMin > QuantizeStep`), as
a session tempo of 0 is refused as invalid. `config.py` demands only that both are
positive, so this leaves out a `bpm_min` of at most half a step (half a BPM by default), a tempo nobody plays.
The proof found what the run could not: the bound of `ClockFollowsSession` was too
sharp for steps and deltas other than those of the instance (TLC reaches the present one with a step and delta of 2, one
local BPM of 45 and session tempos of 41 .. 43), and the mishap `left` takes four inputs.

`DataPointRoutingProofs`, for any two ranges, any maps between them that mirror each other up to the ends
(`MirroredAssumption`) and any number of datagrams in flight: `RoutingInvariant`, `TypeCorrect`, `PairAgreesHolds`, `DeskIsShownHolds`.
* `FreshOnTop`: a write tells the graph first, before any other task or subscriber, so that what it
  finds in the store is what was written;
* `Agree`, unless such a write is just beginning (`Pending`): between a write and the graph's answer to it
  alone the points may disagree;
* `RoomToMap`, `RoomToPersist`: how many writes the ones under way can still set off. A write sets
  off at most two more, as the maps mirror each other, and the handler of the control, which writes its own value
  again, sets off another round of these only if the store holds that value no more. So there is one level more for
  each such write, whatever their number (`Depth`, for any `RevertBound`): `TypeCorrect`;
* `OnItsWay`: what the desk does not show yet is about to be sent to it.

`PairAgrees` once said that both points are what the other maps to. The proof failed where the *control* has
positions beyond the range of the connection, which the instance then did not have; the property
now says what the code does.

`ClickPlayerProofs`, for any number of callers and transport threads and any bounds, from
`ClickAssumption`: `TypeCorrect`, `ClickWakesWorkerHolds`, `ReleaseHealsHolds` and
`EndedWorkerOwesNothingHolds`. Each property has an inductive form of its own:
* `LooksAtEvent`: also between the look at the queue and the look at the event, a click that
  has come has its event set or about to be set, as only `Clear` resets the event and
  the worker looks at the queue again after it;
* `Calm`: since the release, neither an attempt nor a prepare can meet a missing device;
* `Owed` and `CloseIsLast`: whoever waits has a command in the queue, the close is the last
  command of a replaced player, and it leaves an empty queue. That needs facts about
  `Append` and `Tail`, which are lemmas.

`AdapterProofs` has the adapters. Of `WingLink`, for any faders, fader values and dead band, from `WingAssumption`: `WingInvariant`,
and from it `WingTypeCorrect` and `FeedbackSettlesHolds`. The parts of the invariant:
* `LinkOK`: the adapter runs exactly while its task is neither gone nor awaited by `stop()`, and a
  live TCP session is being read or stopped;
* `FaderOK`: a sender that writes belongs to a running adapter. With `LinkOK` that leaves
  reading as the only state in which a write can find its session alive;
* `Settling`: what the engineer did last waits in the pending feedback, or is within the dead band
  of what was published.

The same invariant carries `SendsImplementLatestValue`: the initial states of `WingLink` are those of
`LatestValue`, and each of its steps is one of `LatestValue` or a stutter, with what is pending and
what is in flight as the mailbox. That is the safety half of `LastFaderValueIsSent`: no value
waiting for the desk is overtaken, and values are lost only to newer ones or with the session. That the
newest one does reach the desk is liveness and stays with the run.

Of `WingClient`, for any resolvers and any finite set of channels: `ClientInvariant`, `PathsAreResolvedHolds` and `ClientTypeCorrect`.
* `BindingsAreTrue` is inductive with `AskOK`: a resolver that asks, asks for the children of a
  parent that is bound; a node in an answer names its parent, so that a wrong answer binds nothing wrong;
* `InStep`: as long as answers come whole and drains are waited for, one answer at most is under way
  (`Awaiting`), and that is the answer to the request that waits, or the late one that is being drained. Hence an
  existing path is never missed;
* `InQueueOnce`: who asks, and nobody else, is in the queue of the lock, once. A timeout may leave it anywhere in
  the queue (`QueueLeft`), and who joins it was not in it (`QueueJoined`).

Of the other adapters, each under its own specification, the types and the part of `AtRestAllAgrees` that is about
it. The assumptions say no more than that a mark for "none" is not one of the values, that numbers are naturals and that
the pins are finitely many (`MidiAssumption`, `GpioAssumption`, `HidAssumption`, `EchoAssumption`, `OscAssumption`):
* `MidiSafety` (`MidiInv`): whoever opens or polls a port has resolved the address that sends use, and a port that polls and
  is not deaf is the device's;
* `GpioSafety`: inductive as it stands, action by action, through reconfigurations;
* `HidSafety`: as long as calls do not overlap there is one loop or a call that is about to start one (`OneReader`), and the last event
  that is not handled yet is the level of the key (`KeysHeard`);
* `EchoSafety`: the records are what was sent within the window, with its age (`EchoRecorded`); unless something crossed, what
  comes last on the wire is what the program holds, and what comes last from the control is what the user did (`Crossless`). Only values and
  ages of records count, not their order, so the model keeps them as a set;
* `OscSafety`: a stop that overlaps nothing is alone, and whoever left a running adapter without a keep-alive loop is going
  to start one (`Attended`).

`ComponentProofs` begins with the components that are neither adapters nor web. Of `RtpSessions`, for any
sessions and any finite set of calls, from `RtpAssumption`: `RtpInvariant`,
`RtpTypeCorrect` and `AnnouncedAsConfiguredHolds`. The property speaks of the quiet states only,
so the invariant says what crossing calls owe each other on the way there:
* `Counted`: a process runs for each call that is to end or to take up one, and for the slot;
* `ConfiguredKept`: the configured session is about to be applied by some call, or more processes
  announce it than there are calls to end one;
* `Exact`: while no calls have crossed, there is one call and one process.

Each call changes one state of its own, so the counts change by at most one
(`CountOfChange`, `CallChanges`), and a step of one call preserves the rest by `StepKeeps`.

Of the displays and controls:
* `RotarySafety`: unless commands of different settings were `mixed`, all pushes under way send the same commands, those of their fingerprint,
  and the configured ones if these count as pushed (`PushesAgree`). Two pushes are needed to break that, so the run has two;
* `LightSafety`: inductive as it stands, action by action; `LookupTypeCorrect`: only a display that has registered is looked up;
* `ControlsSafety`: the times kept are the partial sums of the gaps since the last pause (`InStepWith`), so the tempo, which is
  computed from the mean of the kept gaps, lies between those of the shortest and the longest gap, and so it
  does when it is clamped and rounded. Means and
  minima are over sequences of any length; the induction this needs goes over a set of numbers
  (`LeastNatural`, `Reached`), for which no operator is passed;
* `EncoderSafety`: the accumulator is what the turns have made of the target it began with (`EncoderInv`), for any
  even ring (`EncoderAssumption`; half of it is where the two ways round are equally long) and ends of any size.
  Its lemmas say which of the two ways round the ring `absolute_delta()` takes.

Last, the composition. `ComponentsTypeCorrect`, `AtRestAllAgreesHolds` and `ControlsAreObeyedHolds` are about components that run
side by side: the conjunction of their specifications implies that always `ComponentsTypeOK` holds, and `AtRestAllAgrees`, and implies
`ControlsAreObeyed`. That is stronger than what the run checks, in which one component moves at a time.

`WebProofs`, in five parts. For any points: `LifeInvariant`, `LifeTypeCorrect` and `PointsAreServedHolds`.
* `Routed`: the graph subscribed once to each source that it remembers, unless the point was
  unregistered since. That drops the subscription, which the graph does not notice;
* `OutputsPassed`: a module for OSC or Wing is subscribed only to registered points, the one for MIDI
  once to those that it found at its start;
* `Served`: after a refresh that did not raise, the points are those of the configuration. A
  refresh that raises is one of its three outcomes (`RefreshCases`).

For any requests, options and connections: `EditsInvariant` and `EditsTypeCorrect`. Unless something happened
that loses edits (`odd`), one request at most is between two of its awaits (`OneAwaits`), and the
adapter, the connections and the removal in memory and in the file are what was asked for, except for what that request is
going to finish (`AdapterKept`, `LinksKept`, `RemovalKept`). This one had to be corrected to become inductive: a
restart that infers a device from a file edited in between forgets the removal, six events into a history.

For any pages and endpoints: `EditorsInvariant`. Each list that is stored, shown by a page, waits in a status
or comes as a response has one connection of each source (`SourcesOnce`). A merge keeps that
(`MergeKeeps`), and the graph routes each pair once (`PairsOnce`), default connections included. Together they
are `EditsAreKeptHolds`, the property of the run: `EditsSpec /\ EditorsSpec => []EditsAreKept`.

For any pages as well: `PagesSafety`. What is told last, on the web socket or in a response, is the status of the server, unless the page has to be
reloaded (`ToldLast`), and a page shows the source of what it was told last, or something else is on its way
(`SourceShown`). A page that takes a status off
its socket takes the first and leaves the last (`WireTaken`), one that is told something has that last (`WireExtended`).

For finitely many browsers and any flush tasks and values: `MonitorSafety`. The task that is remembered takes what waits (`NewestRemembered`), and unless
broadcasts, joins and direct sends crossed, what waits or is under way is the newest value (`Ordered`): a
browser that does not show it has it in a replay, or is
still to be visited by the broadcast of it (`Reaches`).

Only model-checked:
* the liveness properties, since fairness is out of the prover's reach: `StoppedFallsSilent`, `ExchangeEnds`, `FlashEnds`, `StopCompletes`,
  `ControlCatchesUp`, `Answered`, `CloseEndsWorker`, `InputsAreFollowed`, `BrowsersCatchUp`, `DeskIsFollowed`,
  `DisplaysCatchUp`, and the liveness half
  of the refinement `LastFaderValueIsSent`. Most come to rest in a state about which a part of `AtRestAllAgrees` is proved;
* `ClicksReturn`, `RemovalsAreRemembered` and the others of section 4, which are false: that the races are reachable is what these runs show.

Every other property of a passing run is proved for all values of its constants.

## 6. Plan

Done: the modules of section 2, in this order: `MasterClockTransport`, `TempoSync`,
`BeatFlash`, `DataPointRouting`, `ClickPlayer` and their proofs; then the components around
the clock.

The theorems of section 5 followed in the same order.

Next: the composition of `ClickPlayer` with `MasterClockTransport` through `stop_transport()` and
`configure()`; of `EchoGuard` with `DataPointRouting`, where an echo that is taken for input
is routed on; of `PointLifecycle` with `ConnectionEditors`.

### Not modelled

* Deployment scripts, the system pages and the look-ups in the libraries: command output and data, no state.
* The `aplay` fallback of the click player: a process for each click, without a queue.
* The validation of fields, the TOML text and HTTP: pure functions of one request; what they reject is a choice in the handlers.
* Several connections from one data point with curves and factors: arithmetic of one step.
* The proxy clients of the OSC adapter, the learning of HID keys, BandHelper's key over OSC,
  click toggles: small and independent of what is modelled; a later extension of `OscDesk`,
  `HidInput` and `ClockControls`.
* Times. Delays and timeouts are steps that may happen whenever they are enabled, except
  where a property depends on them (windows and ages in `EchoGuard`, `GpioInput`,
  `DataPointRouting`, `ClockControls`).
