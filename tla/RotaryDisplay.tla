---------------------------- MODULE RotaryDisplay ----------------------------
(***************************************************************************)
(* RotaryDisplayModule of modules/interface/rotary_display/module.py: the  *)
(* state of the clock is sent to a display over OSC or a serial port, and  *)
(* the configuration of the display is pushed over the serial port.        *)
(*                                                                         *)
(* What the display shows of the clock is one value: that it is stopped,   *)
(* or a tempo.  A datagram that was sent arrives.  A serial port is        *)
(* configured and keeps its name; start() and stop() of the module are     *)
(* left out.                                                               *)
(***************************************************************************)
EXTENDS Naturals, Sequences

CONSTANTS
  Settings,   \* configurations of the display
  NoSettings,
  Aligned,    \* of each, the same with the display on the network if it has one
  Tempi,
  Standstill, \* the state of a clock that is stopped
  Blank,      \* what a display shows that was told nothing
  Pushes      \* requests with a new configuration, and "hello"s over the serial port

ASSUME RotaryAssumption == NoSettings \notin Settings /\ Aligned \in [Settings -> Settings]

VARIABLES
  rotary,   \* the module; odd: the last sync overlapped another one or was lost,
            \* mixed: the display took commands of a configuration that is not the
            \* module's any more, or of another one than the fingerprint stands for
  push,     \* of each push: where it awaits, what it is part of, its fingerprint and
            \* commands, and the sync that it waits for
  display,  \* plugged in, its configuration, what it shows, what is on the way to it
  clock     \* its state, and whether the module heard of the last change

rotaryVars == <<rotary, push, display, clock>>

ClockStates == Tempi \cup {Standstill}
ShownStates == ClockStates \cup {Blank}
Holding == {"pushing", "taken", "cut"}
NoPush == [pc |-> "idle", kind |-> "none", print |-> NoSettings, commands |-> NoSettings, sync |-> Blank]

RotaryInit ==
  \E s \in Settings, host \in {"osc", "serial", "both"} :
    /\ rotary = [host |-> host, port |-> IF host = "osc" THEN "none" ELSE "opening",
                 connected |-> FALSE, works |-> FALSE, target |-> FALSE,
                 config |-> s, pushed |-> NoSettings, last |-> Blank, odd |-> FALSE, mixed |-> FALSE]
    /\ push = [j \in Pushes |-> NoPush]
    /\ display = [plugged |-> TRUE, greeted |-> FALSE, config |-> s, shows |-> Blank,
                  lines |-> <<>>, datagrams |-> {}]
    /\ clock = [now |-> Standstill, told |-> TRUE]

RotaryTypeOK ==
  LET MaybeSettings == Settings \cup {NoSettings} IN
  /\ rotary \in [host : {"osc", "serial", "both"},
                 port : {"none", "opening", "settling", "reading", "retrying"},
                 connected : BOOLEAN, works : BOOLEAN, target : BOOLEAN,
                 config : Settings, pushed : MaybeSettings, last : ShownStates, odd : BOOLEAN, mixed : BOOLEAN]
  /\ push \in [Pushes -> [pc : {"idle", "readying", "waiting", "queued", "pushing", "taken", "cut",
                                "greeting", "switching"},
                          kind : {"none", "hello", "apply", "align"}, print : MaybeSettings,
                          commands : MaybeSettings, sync : ShownStates]]
  /\ display.config \in Settings /\ display.shows \in ShownStates /\ display.lines \in Seq(ClockStates)
  /\ display.datagrams \subseteq ClockStates /\ display.plugged \in BOOLEAN /\ display.greeted \in BOOLEAN
  /\ clock \in [now : ClockStates, told : BOOLEAN]
  /\ rotary.connected => rotary.port \in {"settling", "reading"}
  /\ \A j, k \in Pushes : push[j].pc \in Holding /\ push[k].pc \in Holding => j = k

UsesOsc == rotary.host # "serial"
UsesSerial == rotary.host # "osc"

\* _serial_lock is held by a push; a line takes no time
Locked == \E j \in Pushes : push[j].pc \in Holding

\* the loop of the serial port handles a line "hello"
LoopPushes == \E j \in Pushes : push[j].kind = "hello"

-----------------------------------------------------------------------------
(* _send_sync(): the state is read, written over OSC in a thread, and then   *)
(* over the serial port if it is used or the datagram was not sent.          *)

SyncFrom(r, d) ==
  /\ display' = IF r.host # "serial" /\ r.target
                THEN [d EXCEPT !.datagrams = @ \cup {clock.now}]
                ELSE IF r.connected THEN [d EXCEPT !.lines = Append(@, clock.now)] ELSE d
  /\ rotary' = [r EXCEPT !.last = clock.now, !.odd = d.datagrams # {} \/ (r.host # "serial" /\ d.lines # <<>>)]

SendSync == SyncFrom(rotary, display)

\* the thread has written the datagram, or could not resolve the host
DatagramSent(v, sent) ==
  LET mirror == rotary.connected /\ (UsesSerial \/ ~sent) IN
  /\ v \in display.datagrams
  /\ display' = [display EXCEPT !.datagrams = @ \ {v},
                   !.shows = IF sent /\ display.plugged THEN v ELSE @,
                   !.lines = IF mirror THEN Append(@, v) ELSE @]
  /\ rotary' = [rotary EXCEPT !.odd = @ \/ (~sent /\ ~mirror)]
  /\ UNCHANGED <<push, clock>>

\* _send_serial(): the lock is fair
LineWritten ==
  /\ display.lines # <<>> /\ ~Locked
  /\ display' = [display EXCEPT !.lines = Tail(@), !.shows = IF rotary.works THEN Head(display.lines) ELSE @]
  /\ rotary' = [rotary EXCEPT !.connected = @ /\ rotary.works]
  /\ UNCHANGED <<push, clock>>

\* _on_feedback(), _on_clock_bpm(), _on_bpm_changed()
ChangeHeard ==
  /\ ~clock.told
  /\ SendSync
  /\ clock' = [clock EXCEPT !.told = TRUE]
  /\ UNCHANGED push

\* _flush_running_sync_before_beat(): the transport thread writes at once
BeatFlushes ==
  LET osc == UsesOsc /\ rotary.target
      serial == rotary.connected /\ (UsesSerial \/ ~osc)
      busy == display.lines # <<>> \/ display.datagrams # {} IN
  /\ clock.now # Standstill /\ rotary.last \in {Standstill, Blank}
  /\ display' = [display EXCEPT !.shows =
       IF (osc /\ display.plugged) \/ (serial /\ rotary.works) THEN clock.now ELSE @]
  /\ rotary' = [rotary EXCEPT !.last = clock.now, !.odd = busy, !.connected = @ /\ (serial => rotary.works)]
  /\ UNCHANGED <<push, clock>>

-----------------------------------------------------------------------------
(* _serial_loop(). *)

OpenPort ==
  /\ rotary.port = "opening"
  /\ rotary' = IF display.plugged
               THEN [rotary EXCEPT !.port = "settling", !.connected = TRUE, !.works = TRUE]
               ELSE [rotary EXCEPT !.port = "retrying"]
  /\ UNCHANGED <<push, display, clock>>

\* slip: the display is left to the next change after the port was opened
QuietlySettled ==
  /\ rotary.port = "settling" /\ rotary' = [rotary EXCEPT !.port = "reading"]
  /\ UNCHANGED <<push, display, clock>>

\* 1.5 s later the display is ready to be written to
PortSettled ==
  /\ rotary.port = "settling"
  /\ SyncFrom([rotary EXCEPT !.port = "reading"], display)
  /\ UNCHANGED <<push, clock>>

\* readline() raises
PortLost ==
  /\ rotary.port = "reading" /\ ~rotary.works /\ ~Locked /\ ~LoopPushes
  /\ rotary' = [rotary EXCEPT !.port = "retrying", !.connected = FALSE]
  /\ display' = [display EXCEPT !.lines = <<>>]
  /\ UNCHANGED <<push, clock>>

PortRetried ==
  /\ rotary.port = "retrying"
  /\ rotary' = [rotary EXCEPT !.port = "opening"]
  /\ UNCHANGED <<push, display, clock>>

-----------------------------------------------------------------------------
(* push_device_config(). *)

\* _ensure_serial_push_ready()
StartLoop(r) == IF r.port = "none" THEN [r EXCEPT !.port = "opening"] ELSE r

\* the commands are made of the configuration as it is by then, and the lock waited for
Queued(p, r) == [p EXCEPT !.pc = IF Locked THEN "queued" ELSE "pushing", !.commands = r.config]

\* the fingerprint is taken, and a connection waited for if there is none
Begun(kind, r) ==
  LET p == [NoPush EXCEPT !.pc = "waiting", !.kind = kind, !.print = r.config] IN
  IF r.connected THEN Queued(p, r) ELSE p

\* what comes after a push, or instead of it: the handler of "hello" sends a sync, and
\* _enable_host_osc_transport() pokes the display and waits for its "hello"
AfterPush(j) == IF push[j].kind = "align" THEN [NoPush EXCEPT !.pc = "greeting", !.kind = "apply"] ELSE NoPush
Poked(j, r) == IF push[j].kind = "align" THEN [r EXCEPT !.connected = @ /\ r.works] ELSE r
Synced(j, r, ok) ==
  IF push[j].kind = "hello" \/ (ok /\ UsesOsc) THEN SyncFrom(Poked(j, r), display)
  ELSE rotary' = Poked(j, r) /\ UNCHANGED display

PushReady(j) ==
  /\ push[j].pc = "waiting" /\ rotary.connected
  /\ push' = [push EXCEPT ![j] = Queued(@, rotary)]
  /\ UNCHANGED <<rotary, display, clock>>

PushTimesOut(j) ==
  /\ push[j].pc = "waiting" /\ ~rotary.connected
  /\ Synced(j, rotary, FALSE)
  /\ push' = [push EXCEPT ![j] = AfterPush(j)]
  /\ UNCHANGED clock

\* the lock is had; by then there may be no port, which ends the request
PushStarts(j) ==
  /\ push[j].pc = "queued" /\ ~Locked
  /\ push' = [push EXCEPT ![j] = IF rotary.port \in {"settling", "reading"}
                                 THEN [@ EXCEPT !.pc = "pushing"] ELSE NoPush]
  /\ UNCHANGED <<rotary, display, clock>>

PushTaken(j) ==
  /\ push[j].pc = "pushing" /\ rotary.works
  /\ push' = [push EXCEPT ![j].pc = "taken"]
  /\ display' = [display EXCEPT !.config = push[j].commands]
  /\ rotary' = [rotary EXCEPT !.mixed = @ \/ push[j].commands # rotary.config]
  /\ UNCHANGED clock

\* when the "ok" of the display is late its commands count as refused
PushEnds(j, ok) ==
  /\ push[j].pc \in {"pushing", "taken", "cut"} /\ (ok => push[j].pc = "taken")
  /\ Synced(j, IF ok THEN [rotary EXCEPT !.pushed = push[j].print, !.mixed = push[j].print # push[j].commands]
               ELSE rotary, ok)
  /\ push' = [push EXCEPT ![j] = AfterPush(j)]
  /\ UNCHANGED clock

\* a line "hello" from the display: its configuration is pushed unless it has it
SerialHello(j) ==
  /\ push[j].pc = "idle" /\ rotary.port = "reading" /\ rotary.works /\ ~Locked /\ ~LoopPushes
  /\ LET r == [rotary EXCEPT !.connected = TRUE] IN
     IF r.pushed = r.config THEN SyncFrom(r, display) /\ UNCHANGED push
     ELSE rotary' = r /\ push' = [push EXCEPT ![j] = Begun("hello", r)] /\ UNCHANGED display
  /\ UNCHANGED clock

\* _on_osc_message(): the display registers
OscHello ==
  /\ display.plugged
  /\ SyncFrom([rotary EXCEPT !.target = TRUE], [display EXCEPT !.greeted = TRUE])
  /\ UNCHANGED <<push, clock>>

-----------------------------------------------------------------------------
(* apply_rotary_display_config() of web/server.py: apply_runtime_config(),   *)
(* then a push.  Requests overlap.                                           *)

\* slip: the fingerprint of an earlier push outlives a change of the configuration
KeepPrint(r, host, s) == [r EXCEPT !.host = host, !.config = s]

\* update_config()
UpdateConfig(r, host, s) ==
  [r EXCEPT !.host = host, !.config = s, !.pushed = IF s = r.config THEN @ ELSE NoSettings]

\* _stop_serial(): a push of the loop is cancelled with it, and another's port closed
SerialStopped(r) ==
  [r EXCEPT !.port = "none", !.connected = FALSE, !.works = FALSE,
            !.odd = @ \/ display.lines # <<>>]
Cut(p) == IF p.kind = "hello" THEN NoPush
          ELSE IF p.pc \in {"pushing", "taken"} THEN [p EXCEPT !.pc = "cut"] ELSE p

\* the end of apply_runtime_config(): a serial loop that is needed, was needed and runs is
\* kept, any other stopped; the push that follows starts one in either case
ApplyEnds(j, r, wasNeeded) ==
  IF r.host # "osc" /\ wasNeeded /\ r.port # "none"
  THEN /\ rotary' = r /\ push' = [push EXCEPT ![j] = Begun("apply", r)] /\ UNCHANGED display
  ELSE /\ rotary' = StartLoop(SerialStopped(r))
       /\ push' = [k \in Pushes |-> IF k = j THEN Begun("apply", r) ELSE Cut(push[k])]
       /\ display' = [display EXCEPT !.lines = <<>>]

\* _enable_host_osc_transport(), with the serial port connected or waited for: a display
\* that can be on the network is told to, and poked
Enabled(j, r) ==
  IF Aligned[r.config] = r.config
  THEN /\ rotary' = [r EXCEPT !.connected = @ /\ r.works]
       /\ push' = [push EXCEPT ![j] = [NoPush EXCEPT !.pc = "greeting", !.kind = "apply"]]
  ELSE LET q == StartLoop([r EXCEPT !.config = Aligned[@], !.pushed = NoSettings]) IN
       rotary' = q /\ push' = [push EXCEPT ![j] = Begun("align", q)]

ApplyRuntimeConfig(j, host, s) ==
  LET r == UpdateConfig(rotary, host, s) IN
  /\ push[j].pc = "idle"
  /\ IF UsesOsc \/ host = "serial" THEN ApplyEnds(j, r, UsesSerial)
     ELSE /\ UNCHANGED display
          /\ IF r.connected THEN Enabled(j, r)
             ELSE /\ rotary' = StartLoop(r)
                  /\ push' = [push EXCEPT ![j] = [NoPush EXCEPT !.pc = "readying", !.kind = "apply"]]
  /\ UNCHANGED clock

HostReady(j) ==
  /\ push[j].pc = "readying" /\ (rotary.connected \/ rotary.port # "opening")
  /\ Enabled(j, rotary)
  /\ UNCHANGED <<display, clock>>

\* its "hello" over OSC came, or was waited for
HostGreeted(j) ==
  /\ push[j].pc = "greeting"
  /\ SendSync
  /\ push' = [push EXCEPT ![j].pc = "switching", ![j].sync = clock.now]
  /\ UNCHANGED clock

\* the sync was written
HostSwitched(j) ==
  /\ push[j].pc = "switching" /\ push[j].sync \notin display.datagrams
  /\ \A i \in DOMAIN display.lines : display.lines[i] # push[j].sync
  /\ ApplyEnds(j, rotary, TRUE)
  /\ UNCHANGED clock

-----------------------------------------------------------------------------
ClockChanges(v) ==
  /\ v # clock.now
  /\ clock' = [now |-> v, told |-> FALSE]
  /\ UNCHANGED <<rotary, push, display>>

\* the display is unplugged, or plugged in again
Replugs ==
  /\ display' = [display EXCEPT !.plugged = ~@, !.greeted = FALSE, !.shows = Blank]
  /\ rotary' = [rotary EXCEPT !.works = FALSE]
  /\ UNCHANGED <<push, clock>>

RotaryRuns ==
  \/ \E v \in ClockStates : DatagramSent(v, TRUE)
  \/ LineWritten \/ ChangeHeard \/ OpenPort \/ PortSettled \/ PortLost \/ PortRetried
  \/ \E j \in Pushes :
       \/ PushReady(j) \/ (rotary.port # "opening" /\ PushTimesOut(j)) \/ PushStarts(j) \/ PushTaken(j)
       \/ \E ok \in BOOLEAN : PushEnds(j, ok)
       \/ HostReady(j) \/ HostGreeted(j) \/ HostSwitched(j)

\* the bound on requests: one changes the transport or the settings, not both; whichever
\* task is free takes it
RotaryWorld ==
  \/ \E v \in ClockStates : ClockChanges(v) \/ DatagramSent(v, FALSE)
  \/ \E j \in Pushes :
       /\ j = CHOOSE k \in Pushes : push[k].pc = "idle" \/ \A i \in Pushes : push[i].pc # "idle"
       /\ \/ SerialHello(j)
          \/ \E s \in Settings : ApplyRuntimeConfig(j, rotary.host, s)
          \/ \E host \in {"osc", "serial", "both"} : ApplyRuntimeConfig(j, host, rotary.config)
  \/ OscHello \/ Replugs \/ BeatFlushes

RotarySpec == RotaryInit /\ [][RotaryRuns \/ RotaryWorld]_rotaryVars /\ WF_rotaryVars(RotaryRuns)

-----------------------------------------------------------------------------
\* A display comes to show the state of the clock, across lost ports and changes of the
\* transport, when it is connected over the serial port or has registered over OSC.
\* Excepted are syncs that overlap, whose threads may write in another order, and ones
\* that could not be sent (_send_sync(), _serial_loop()).
DisplayCatchesUp ==
  <>[](display.plugged /\ (UsesOsc => display.greeted) => display.shows = clock.now \/ rotary.odd)

\* A configuration that counts as pushed is the one that the display has; excepted are
\* commands that were made after the configuration had changed once more, and commands
\* that the display took when the configuration was not theirs any more
\* (push_device_config(), update_config(), _enable_host_osc_transport()).
PushedIsOnDisplay ==
  rotary.pushed = rotary.config /\ ~rotary.mixed => display.config = rotary.config
=============================================================================
