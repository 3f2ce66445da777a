---------------------------- MODULE ClickPlayer -----------------------------
(***************************************************************************)
(* AlsaClickPlayer of click_player.py and its callers in master_clock.py.  *)
(* A worker thread owns the ALSA handle.  The transport thread queues      *)
(* clicks and sets a wake event; tasks of the event loop queue commands    *)
(* (prepare, release, close) with a future each and await the answer.      *)
(*                                                                         *)
(* An action of the worker is its code between two looks at what other     *)
(* threads write; an action of a caller is its code between two awaits.    *)
(* ALSA and the WAV file may change at any time; what a call to ALSA meets *)
(* is chosen from what the device may answer in its present state.         *)
(***************************************************************************)
EXTENDS Naturals, Sequences

CONSTANTS
  Callers,    \* tasks that command the player
  Tickers,    \* transport threads: MasterClockTransport has up to two
  Files,      \* states of the WAV file: "gone" is also a path that is not set
  ClickBound, \* bound: clicks that arrive before the worker finds the queue empty
  AskBound    \* bound: commands that arrive before the worker finds none

ASSUME ClickAssumption ==
  /\ Files \subseteq {"good", "gone", "corrupt"}
  /\ ClickBound \in Nat /\ AskBound \in Nat

Kinds == {"prepare", "release", "close"}

VARIABLES
  pc,           \* the worker: where it is in _worker_main()
  had,          \* its local had_clicks
  attempt,      \* its loop variable in _write_click_once(), from 1
  stop,         \* _stop_event
  wake,         \* _wake_event
  clicks,       \* length of _click_queue, whose elements are all None
  burst,        \* clicks since the worker last found the queue empty
  commands,     \* _command_queue
  asked,        \* commands since the worker last found none
  pcm,          \* _playback_pcm: none, live, or dead since its device went away
  unavailable,  \* _audio_device_unavailable
  wav,          \* whether the WAV is cached
  callerPc,     \* of each caller: where it awaits
  tickPc,       \* of each ticker: where it is in trigger()
  closing,      \* whether the clock has closed the player, and in which way
  device,       \* the ALSA device
  file,         \* the WAV file
  ephemeral,    \* _uses_ephemeral_playback(): a handle for each click
  calm          \* history: device and file have been good since the last release

clickVars  == <<clicks, burst>>
commandVars == <<commands, asked>>
audioVars  == <<pcm, unavailable, wav>>
actorVars  == <<callerPc, tickPc, closing>>
worldVars  == <<device, file, ephemeral>>
vars == <<pc, had, attempt, stop, wake, clickVars, commandVars, audioVars, actorVars,
          worldVars, calm>>

TypeOK ==
  /\ pc \in {"head", "commands", "clicks", "write", "test", "clear", "wait", "done", "dead"}
  /\ had \in BOOLEAN /\ stop \in BOOLEAN /\ wake \in BOOLEAN
  /\ attempt \in {1, 2} \* of the two that _MAX_WRITE_RECOVERY_ATTEMPTS allows
  /\ burst \in 0 .. ClickBound
  /\ clicks \in 0 .. burst /\ (pc = "write" => clicks < burst)
  /\ commands \in Seq([kind : Kinds, caller : Callers])
  /\ asked \in 0 .. AskBound
  /\ pcm \in {"none", "live", "dead"}
  /\ unavailable \in BOOLEAN /\ wav \in BOOLEAN
  /\ callerPc \in [Callers -> {"idle", "waiting", "answered", "closed", "joining", "left"}]
  /\ tickPc \in [Tickers -> {"idle", "checked", "put"}]
  /\ closing \in {"no", "replaced", "stopped"}
  /\ device \in {"ready", "busy", "missing"}
  /\ file \in Files
  /\ ephemeral \in BOOLEAN /\ calm \in BOOLEAN

Init ==
  /\ pc = "head" /\ had = FALSE /\ attempt = 1 /\ stop = FALSE /\ wake = FALSE
  /\ clicks = 0 /\ burst = 0 /\ commands = <<>> /\ asked = 0
  /\ pcm = "none" /\ unavailable = FALSE /\ wav = FALSE
  /\ callerPc = [c \in Callers |-> "idle"]
  /\ tickPc = [t \in Tickers |-> "idle"]
  /\ closing = "no"
  /\ device \in {"ready", "busy", "missing"}
  /\ file \in Files
  /\ ephemeral \in BOOLEAN
  /\ calm = (device = "ready" /\ file = "good")

-----------------------------------------------------------------------------
(* ALSA, the file and other programs. *)

\* What opening the device may raise: "bad" for an error that a new handle may
\* cure, "other" for any other error.
Opens == CASE device = "ready"   -> {"ok", "bad", "other"}
           [] device = "busy"    -> {"busy"}
           [] device = "missing" -> {"missing"}

\* what a write to the handle h may raise
Writes(h) == IF h = "dead" THEN {"missing", "bad"}
             ELSE IF device = "busy" THEN {"ok", "busy"} ELSE {"ok", "bad", "other"}

\* another program takes or leaves the device; it is unplugged or comes back
DeviceChanges(d) ==
  /\ d # device /\ device' = d
  /\ pcm' = IF d = "missing" /\ pcm = "live" THEN "dead" ELSE pcm
  /\ calm' = FALSE
  /\ UNCHANGED <<pc, had, attempt, stop, wake, clickVars, commandVars, unavailable, wav,
                 actorVars, file, ephemeral>>

FileChanges(f) ==
  /\ f # file /\ file' = f
  /\ calm' = FALSE
  /\ UNCHANGED <<pc, had, attempt, stop, wake, clickVars, commandVars, audioVars,
                 actorVars, device, ephemeral>>

-----------------------------------------------------------------------------
(* trigger(), on the transport thread. *)

\* the ticker reads self.click_player and finds the WAV file
Trigger(t) ==
  /\ tickPc[t] = "idle" /\ closing # "replaced"
  /\ file # "gone"
  /\ tickPc' = [tickPc EXCEPT ![t] = "checked"]
  /\ UNCHANGED <<pc, had, attempt, stop, wake, clickVars, commandVars, audioVars, callerPc,
                 closing, worldVars, calm>>

PutClick(t) ==
  /\ tickPc[t] = "checked" /\ burst < ClickBound
  /\ tickPc' = [tickPc EXCEPT ![t] = "put"]
  /\ clicks' = clicks + 1 /\ burst' = burst + 1
  /\ UNCHANGED <<pc, had, attempt, stop, wake, commandVars, audioVars, callerPc, closing,
                 worldVars, calm>>

SetWake(t) ==
  /\ tickPc[t] = "put"
  /\ tickPc' = [tickPc EXCEPT ![t] = "idle"]
  /\ wake' = TRUE
  /\ UNCHANGED <<pc, had, attempt, stop, clickVars, commandVars, audioVars, callerPc,
                 closing, worldVars, calm>>

-----------------------------------------------------------------------------
(* prepare(), release() and close(), on the event loop. *)

\* worker.join(timeout=2.0) blocks the thread of the event loop
LoopFree == \A c \in Callers : callerPc[c] # "joining"

\* slip: the player is replaced only after it was closed
LateReplacement(kind, c) ==
  /\ closing # "replaced" \/ kind # "close"
  /\ kind # "close" => closing' = closing
  /\ kind = "close" => closing = "no" /\ closing' \in {"replaced", "stopped"}

\* The clock gives a command to its current player.  configure() replaces the
\* player before it closes the old one; stop() closes it and keeps it.
ToCurrentPlayer(kind, c) ==
  /\ closing # "replaced"
  /\ kind # "close" => closing' = closing
  /\ kind = "close" => closing = "no" /\ closing' \in {"replaced", "stopped"}

\* Without a WAV file prepare() returns before it queues anything.  A command
\* does not set the wake event.
Ask(kind, c) ==
  /\ LoopFree /\ callerPc[c] = "idle"
  /\ asked < AskBound /\ asked' = asked + 1
  /\ kind = "prepare" => file # "gone"
  /\ ToCurrentPlayer(kind, c)
  /\ commands' = Append(commands, [kind |-> kind, caller |-> c])
  /\ callerPc' = [callerPc EXCEPT ![c] = "waiting"]
  /\ UNCHANGED <<pc, had, attempt, stop, wake, clickVars, audioVars, tickPc, worldVars,
                 calm>>

\* the loop runs the callback that sets the future, and the caller goes on
Resume(c) ==
  /\ LoopFree /\ callerPc[c] \in {"answered", "closed"}
  /\ callerPc' = [callerPc EXCEPT ![c] = IF @ = "closed" THEN "joining" ELSE "idle"]
  /\ UNCHANGED <<pc, had, attempt, stop, wake, clickVars, commandVars, audioVars, tickPc,
                 closing, worldVars, calm>>

\* the worker has ended, or two seconds have passed
JoinEnds(c) ==
  /\ callerPc[c] = "joining"
  /\ callerPc' = [callerPc EXCEPT ![c] = "left"]
  /\ UNCHANGED <<pc, had, attempt, stop, wake, clickVars, commandVars, audioVars, tickPc,
                 closing, worldVars, calm>>

-----------------------------------------------------------------------------
(* The worker: commands. *)

LoopHead ==
  /\ pc = "head"
  /\ pc' = IF stop THEN "done" ELSE "commands"
  /\ UNCHANGED <<had, attempt, stop, wake, clickVars, commandVars, audioVars, actorVars,
                 worldVars, calm>>

NextCommand(kind) == pc = "commands" /\ commands # <<>> /\ Head(commands).kind = kind

\* the answer of a command is its last step
Reply ==
  /\ commands' = Tail(commands)
  /\ callerPc' = [callerPc EXCEPT ![Head(commands).caller] =
                    IF Head(commands).kind = "close" THEN "closed" ELSE "answered"]
  /\ UNCHANGED <<pc, had, attempt, wake, clickVars, asked, tickPc, closing, worldVars>>

\* the WAV cannot be decoded: the exception ends the thread
LoadFails == ~wav /\ file = "corrupt"

\* what _handle_prepare() meets, and the handle it leaves
Prepared ==
  IF ~wav /\ file = "gone" THEN {<<"missing", pcm>>}
  ELSE IF ~ephemeral /\ pcm # "none" THEN {<<"ok", pcm>>}
  ELSE {<<o, IF o = "ok" /\ ~ephemeral THEN "live" ELSE "none">> : o \in Opens}

Prepare ==
  /\ NextCommand("prepare") /\ ~LoadFails
  /\ \E o \in Prepared :
       /\ pcm' = o[2]
       /\ wav' = (o[1] = "ok")
       /\ unavailable' = CASE o[1] = "ok" -> FALSE
                           [] o[1] = "missing" -> TRUE
                           [] OTHER -> unavailable
  /\ Reply
  /\ UNCHANGED <<stop, calm>>

\* slip: the handle of a device that went away is kept
KeepsHandle ==
  /\ pcm' = pcm
  /\ wav' = FALSE /\ unavailable' = FALSE

\* _handle_release() but for its answer
LetGo ==
  /\ pcm' = "none"
  /\ wav' = FALSE /\ unavailable' = FALSE

Release ==
  /\ NextCommand("release")
  /\ LetGo
  /\ calm' = (device = "ready" /\ file = "good")
  /\ Reply
  /\ UNCHANGED stop

\* slip: the stop event is left alone
CloseWithoutStop ==
  /\ NextCommand("close")
  /\ pcm' = "none" /\ wav' = FALSE
  /\ Reply
  /\ UNCHANGED <<stop, unavailable, calm>>

Close ==
  /\ NextCommand("close")
  /\ stop' = TRUE
  /\ pcm' = "none" /\ wav' = FALSE
  /\ Reply
  /\ UNCHANGED <<unavailable, calm>>

NoCommands ==
  /\ pc = "commands" /\ commands = <<>>
  /\ pc' = "clicks" /\ asked' = 0
  /\ UNCHANGED <<had, attempt, stop, wake, clickVars, commands, audioVars, actorVars,
                 worldVars, calm>>

-----------------------------------------------------------------------------
(* The worker: clicks. *)

\* slip: the click is looked at and left in the queue
PeekClick ==
  /\ pc = "clicks" /\ clicks > 0 /\ had' = TRUE
  /\ pc' = IF unavailable THEN "clicks" ELSE "write"
  /\ UNCHANGED <<attempt, stop, wake, clickVars, commandVars, audioVars, actorVars,
                 worldVars, calm>>

\* a click is taken from the queue; without a device it is dropped at once
TakeClick ==
  /\ pc = "clicks" /\ clicks > 0
  /\ clicks' = clicks - 1 /\ had' = TRUE
  /\ pc' = IF unavailable THEN "clicks" ELSE "write"
  /\ UNCHANGED <<attempt, stop, wake, burst, commandVars, audioVars, actorVars, worldVars, calm>>

\* what an attempt of _write_click_once() meets, and the handle it leaves
Attempted ==
  IF ~wav /\ file = "gone" THEN {<<"other", pcm>>}
  ELSE IF ephemeral THEN {<<o, "none">> : o \in Opens}
  ELSE IF pcm # "none" THEN {<<o, pcm>> : o \in Writes(pcm)}
  ELSE {<<o, "none">> : o \in Opens \ {"ok"}}
       \cup (IF "ok" \in Opens THEN {<<o, "live">> : o \in Writes("live")} ELSE {})

\* A busy device: the click goes back into the queue.  An error that a new
\* handle may cure: once more with a new one.
Write ==
  /\ pc = "write" /\ ~LoadFails
  /\ \E o \in Attempted :
       LET again == o[1] = "bad" /\ attempt = 1 IN
         /\ pc' = IF again THEN "write" ELSE "clicks"
         /\ attempt' = IF again THEN 2 ELSE 1
         /\ pcm' = IF again THEN "none" ELSE o[2]
         /\ unavailable' = IF o[1] \in {"ok", "missing"} THEN o[1] = "missing" ELSE unavailable
         /\ clicks' = IF o[1] = "busy" THEN clicks + 1 ELSE clicks
         /\ wake' = (wake \/ o[1] = "busy")
  /\ wav' = (wav \/ file # "gone")
  /\ UNCHANGED <<had, stop, burst, commandVars, actorVars, worldVars, calm>>

NoClicks ==
  /\ pc = "clicks" /\ clicks = 0
  /\ pc' = "test" /\ burst' = 0
  /\ UNCHANGED <<had, attempt, stop, wake, clicks, commandVars, audioVars, actorVars,
                 worldVars, calm>>

-----------------------------------------------------------------------------
(* The worker: the wake event. *)

\* slip: the event is cleared before the wait instead of after it
ClearBeforeWait ==
  /\ pc = "test" /\ had' = FALSE /\ wake' = FALSE
  /\ pc' = IF stop /\ clicks = 0 THEN "done" ELSE IF had THEN "clear" ELSE "wait"
  /\ UNCHANGED <<attempt, stop, clickVars, commandVars, audioVars, actorVars,
                 worldVars, calm>>

\* the worker looks at the event, and forgets had_clicks, a local of this round
Test ==
  /\ pc = "test" /\ had' = FALSE
  /\ pc' = IF stop /\ clicks = 0 THEN "done"
           ELSE IF had \/ wake THEN "clear" ELSE "wait"
  /\ UNCHANGED <<attempt, stop, wake, clickVars, commandVars, audioVars, actorVars,
                 worldVars, calm>>

\* slip: the wait has no timeout
WakesOnEvent ==
  /\ pc = "wait" /\ wake /\ pc' = "clear"
  /\ UNCHANGED <<had, attempt, stop, wake, clickVars, commandVars, audioVars, actorVars,
                 worldVars, calm>>

\* _wake_event.wait() returns, for the event or after 50 ms
Wakes ==
  /\ pc = "wait" /\ pc' = "clear"
  /\ UNCHANGED <<had, attempt, stop, wake, clickVars, commandVars, audioVars, actorVars,
                 worldVars, calm>>

Clear ==
  /\ pc = "clear" /\ pc' = "head"
  /\ wake' = FALSE
  /\ UNCHANGED <<had, attempt, stop, clickVars, commandVars, audioVars, actorVars,
                 worldVars, calm>>

\* an exception that no handler catches: the command or click at hand is lost
Dies ==
  /\ LoadFails
  /\ \/ NextCommand("prepare") /\ commands' = Tail(commands)
     \/ pc = "write" /\ UNCHANGED commands
  /\ pc' = "dead"
  /\ UNCHANGED <<had, attempt, stop, wake, clickVars, asked, audioVars, actorVars, worldVars, calm>>

-----------------------------------------------------------------------------

Worker == \/ LoopHead \/ Prepare \/ Release \/ Close \/ NoCommands
          \/ TakeClick \/ Write \/ NoClicks
          \/ Test \/ Wakes \/ Clear \/ Dies

Next ==
  \/ Worker
  \/ \E t \in Tickers : Trigger(t) \/ PutClick(t) \/ SetWake(t)
  \/ \E c \in Callers : (\E kind \in Kinds : Ask(kind, c)) \/ Resume(c) \/ JoinEnds(c)
  \/ \E d \in {"ready", "busy", "missing"} : DeviceChanges(d)
  \/ \E f \in Files : FileChanges(f)

Spec == Init /\ [][Next]_vars

\* The worker is a thread of its own, the transport thread ends its trigger(), and
\* the event loop runs its callbacks; join() has a timeout.  Nobody owes a click,
\* a command or a device.
FairSpec ==
  /\ Spec
  /\ WF_vars(Worker)
  /\ \A t \in Tickers : WF_vars(SetWake(t))
  /\ \A c \in Callers : WF_vars(Resume(c) \/ JoinEnds(c))

-----------------------------------------------------------------------------
(* Safety. *)

\* The worker never lies down for its 50 ms while a click waits for it: the wake
\* event is set, or its ticker is just about to set it.  The queue and the event
\* are looked at one after the other, without a lock.
ClickWakesWorker ==
  pc = "wait" /\ clicks > 0 => wake \/ \E t \in Tickers : tickPc[t] = "put"

\* A release makes up for all that went wrong before it: as long as device and
\* file have been good since, the player neither drops clicks as unavailable nor
\* writes to a handle whose device has gone.
ReleaseHeals == calm => ~unavailable /\ pcm # "dead"

\* When the worker of a replaced player has ended, nobody awaits an answer of it:
\* no command came behind the close.
EndedWorkerOwesNothing ==
  pc = "done" /\ closing = "replaced" => \A c \in Callers : callerPc[c] # "waiting"

-----------------------------------------------------------------------------
(* Liveness. *)

\* A busy device keeps the worker with the click it puts back.
NotBusyForEver == <>[](device # "busy")

\* Commands are answered, although they do not wake the worker: it gets through
\* the queue, unless it has died of a WAV that cannot be decoded.  Commands to the
\* player that stop() of the clock has closed are left.
Answered ==
  NotBusyForEver =>
    (commands # <<>> /\ closing # "stopped" ~> commands = <<>> \/ pc = "dead")

\* Once the clock has closed the player, its worker ends, whatever is queued.
CloseEndsWorker == NotBusyForEver => (closing # "no" ~> pc \in {"done", "dead"})

\* What the warning of _log_missing_device_once() says: clicks are dropped "until
\* device returns".  When it is back for good and the clicks of the running
\* transport go on, they are not all dropped as unavailable.
ClicksReturn ==
  <>[](device = "ready" /\ commands = <<>>) /\ []<><<TakeClick>>_vars => []<>~unavailable

=============================================================================
