------------------------ MODULE MasterClockTransport ------------------------
(***************************************************************************)
(* The transport of src/midijuggler/master_clock.py: clock commands run as *)
(* asyncio tasks and share `running`, the stop event and the reference to  *)
(* the transport thread with the thread that emits the ticks.              *)
(*                                                                         *)
(* A task runs alone between two awaits, so each action of a task is the   *)
(* code from one await to the next.  The transport thread interleaves with *)
(* the tasks at every step.                                                *)
(***************************************************************************)
EXTENDS Naturals, FiniteSets

CONSTANTS
  Tasks,          \* asyncio tasks able to run one clock command at a time
  Threads,        \* identities of transport threads; a dead one is used again
  None,           \* Python's None
  ClickInterval,  \* ticks per click (CLICK_INTERVAL_TICKS of the chosen interval)
  SendTransport   \* config.send_transport

ASSUME TransportAssumption ==
  /\ None \notin Threads
  /\ ClickInterval \in Nat \ {0}
  /\ SendTransport \in BOOLEAN

VARIABLES
  running,          \* MasterClock.running
  stopEvent,        \* _transport_stop_event.is_set()
  transportThread,  \* _transport_thread
  position,         \* position_ticks, modulo the click interval
  threadPc,         \* of each thread: where it is in its loop
  taskPc,           \* of each task: where it awaits
  joining,          \* the thread a stopping task has handed to join()
  announce,         \* of a stopping task: send_transport argument
  plan,             \* what configure() still has to do after a stop
  snapshot,         \* `running` as captured in the event being published
  shown,            \* `running` as the subscribers last saw it
  lastStatus,       \* last transport status sent to the MIDI outputs
  downbeatDue,      \* history: started from 0 and no tick emitted yet
  past              \* history: the worst the commands have done to each other

clockVars  == <<running, stopEvent, transportThread, position>>
outputVars == <<shown, lastStatus>>
vars == <<clockVars, threadPc, taskPc, joining, announce, plan, snapshot,
          outputVars, downbeatDue, past>>

Statuses == {"start", "continue", "stop"}
Starting == {"sendStart", "sendContinue", "prepare"}
Stopping == {"join", "release", "sendStop"}
TaskPcs  == {"idle", "boot", "replace", "sendBpm", "deliver"} \cup Starting \cup Stopping

\* serial: one command after the other; overlapped: two were in flight at once;
\* joinRace: a thread was ensured while a stop was joining one; timedOut: a
\* join gave up on its thread.
Pasts == {"serial", "overlapped", "joinRace", "timedOut"}

TypeOK ==
  /\ running \in BOOLEAN
  /\ stopEvent \in BOOLEAN
  /\ transportThread \in Threads \cup {None}
  /\ position \in 0 .. (ClickInterval - 1)
  /\ threadPc \in [Threads -> {"dead", "test", "sleep", "advance"}]
  /\ taskPc \in [Tasks -> TaskPcs]
  /\ joining \in [Tasks -> Threads \cup {None}]
  /\ \A c \in Tasks : taskPc[c] = "join" => joining[c] # None   \* join() has a thread
  /\ announce \in [Tasks -> BOOLEAN]
  /\ plan \in [Tasks -> {"return", "disable", "autoStart"}]
  /\ snapshot \in [Tasks -> BOOLEAN]
  /\ shown \in BOOLEAN
  /\ lastStatus \in Statuses \cup {None}
  /\ downbeatDue \in BOOLEAN
  /\ past \in Pasts

Alive(t) == threadPc[t] # "dead"
Live     == {t \in Threads : Alive(t)}
Quiet    == \A c \in Tasks : taskPc[c] = "idle"

\* Threads that can be created: dead and referenced by nobody.
Fresh == {t \in Threads : /\ ~Alive(t)
                          /\ t # transportThread
                          /\ \A c \in Tasks : joining[c] # t}

\* Which of them is taken says nothing about the clock.
NewThread == CHOOSE t \in Fresh : TRUE

Init ==
  /\ running = FALSE
  /\ stopEvent = FALSE
  /\ transportThread = None
  /\ position = 0
  /\ threadPc = [t \in Threads |-> "dead"]
  /\ \/ taskPc = [c \in Tasks |-> "idle"]
     \/ \E b \in Tasks : taskPc = [c \in Tasks |-> IF c = b THEN "boot" ELSE "idle"]
  /\ joining = [c \in Tasks |-> None]
  /\ announce = [c \in Tasks |-> FALSE]
  /\ plan = [c \in Tasks |-> "return"]
  /\ snapshot = [c \in Tasks |-> FALSE]
  /\ shown = FALSE
  /\ lastStatus = None
  /\ downbeatDue = FALSE
  /\ past = "serial"

-----------------------------------------------------------------------------
(* Pieces of the command handlers. *)

\* ThreadBound: a command is only accepted while enough thread identities are
\* left for every task in flight to create a thread.
CanIssue(c) ==
  /\ taskPc[c] = "idle"
  /\ Cardinality(Fresh) > Cardinality({d \in Tasks : taskPc[d] # "idle"})

NoteOverlap(c) ==
  past' = IF past = "serial" /\ \E d \in Tasks \ {c} : taskPc[d] # "idle"
          THEN "overlapped" ELSE past

GoTo(c, pc) == taskPc' = [taskPc EXCEPT ![c] = pc]

\* _publish_state(): the event is built from the state of this moment
PublishState(c) ==
  /\ snapshot' = [snapshot EXCEPT ![c] = running]
  /\ GoTo(c, "deliver")

\* start_transport(reset_position=True) up to its first await
BeginStart(c) ==
  /\ running' = TRUE
  /\ position' = IF running THEN position ELSE 0
  /\ downbeatDue' = IF running THEN downbeatDue ELSE TRUE
  /\ GoTo(c, IF SendTransport /\ ~running THEN "sendStart" ELSE "prepare")
  /\ UNCHANGED <<stopEvent, transportThread, joining, announce>>

\* slip: the thread is left to end by itself
BeginStopWithoutJoin(c, send) ==
  /\ running' = FALSE
  /\ stopEvent' = TRUE
  /\ downbeatDue' = FALSE
  /\ announce' = [announce EXCEPT ![c] = send]
  /\ GoTo(c, "release")
  /\ UNCHANGED <<transportThread, position, joining>>

\* slip: that there may be no thread to join is not looked at
BeginStopUnchecked(c, send) ==
  /\ running' = FALSE
  /\ stopEvent' = TRUE
  /\ downbeatDue' = FALSE
  /\ joining' = [joining EXCEPT ![c] = transportThread]
  /\ announce' = [announce EXCEPT ![c] = send]
  /\ GoTo(c, "join")
  /\ UNCHANGED <<transportThread, position>>

\* stop_transport(send) up to its first await: join() takes the thread that
\* _transport_thread refers to now
BeginStop(c, send) ==
  /\ running' = FALSE
  /\ stopEvent' = TRUE
  /\ downbeatDue' = FALSE
  /\ joining' = [joining EXCEPT ![c] = transportThread]
  /\ announce' = [announce EXCEPT ![c] = send]
  /\ GoTo(c, IF transportThread = None THEN "release" ELSE "join")
  /\ UNCHANGED <<transportThread, position>>

-----------------------------------------------------------------------------
(* Commands. *)

\* MasterClock.start() with auto_start: having published the state it starts the
\* transport, running or not
AutoStart(c) ==
  /\ taskPc[c] = "boot"
  /\ BeginStart(c)
  /\ UNCHANGED <<threadPc, plan, snapshot, outputVars, past>>

\* handle_command("start"): ignored while running
CommandStart(c) ==
  /\ CanIssue(c)
  /\ ~running
  /\ BeginStart(c)
  /\ NoteOverlap(c)
  /\ UNCHANGED <<threadPc, plan, snapshot, outputVars>>

\* handle_command("continue"): not ignored while running, keeps the position
CommandContinue(c) ==
  /\ CanIssue(c)
  /\ running' = TRUE
  /\ GoTo(c, IF SendTransport THEN "sendContinue" ELSE "prepare")
  /\ NoteOverlap(c)
  /\ UNCHANGED <<stopEvent, transportThread, position, threadPc, joining,
                 announce, plan, snapshot, outputVars,
                 downbeatDue>>

\* handle_command("stop"): not ignored while stopped
CommandStop(c) ==
  /\ CanIssue(c)
  /\ BeginStop(c, SendTransport)
  /\ NoteOverlap(c)
  /\ UNCHANGED <<threadPc, plan, snapshot, outputVars>>

\* handle_command("start_stop") and toggle_transport()
CommandToggle(c) ==
  /\ CanIssue(c)
  /\ IF running THEN BeginStop(c, SendTransport) ELSE BeginStart(c)
  /\ NoteOverlap(c)
  /\ UNCHANGED <<threadPc, plan, snapshot, outputVars>>

\* MasterClock.stop(): the service stops the transport without telling anybody
Shutdown(c) ==
  /\ CanIssue(c)
  /\ BeginStop(c, FALSE)
  /\ NoteOverlap(c)
  /\ UNCHANGED <<threadPc, plan, snapshot, outputVars>>

\* configure() with a disabled clock: stop first if running, then replace the
\* click player
ConfigureDisabled(c) ==
  /\ CanIssue(c)
  /\ plan' = [plan EXCEPT ![c] = "disable"]
  /\ \/ running /\ BeginStop(c, SendTransport)
     \/ /\ ~running
        /\ GoTo(c, "replace")
        /\ UNCHANGED <<clockVars, joining, announce, downbeatDue>>
  /\ NoteOverlap(c)
  /\ UNCHANGED <<threadPc, snapshot, outputVars>>

\* configure() with enabled and auto_start: the click player is replaced first
ConfigureAutoStart(c) ==
  /\ CanIssue(c)
  /\ plan' = [plan EXCEPT ![c] = "autoStart"]
  /\ GoTo(c, "replace")
  /\ NoteOverlap(c)
  /\ UNCHANGED <<clockVars, threadPc, joining, announce, snapshot, outputVars,
                 downbeatDue>>

-----------------------------------------------------------------------------
(* Steps of a command after an await. *)

\* _publish_midi_status(MIDI_START | MIDI_CONTINUE)
SendStart(c) ==
  /\ \/ taskPc[c] = "sendStart" /\ lastStatus' = "start"
     \/ taskPc[c] = "sendContinue" /\ lastStatus' = "continue"
  /\ GoTo(c, "prepare")
  /\ UNCHANGED <<clockVars, threadPc, joining, announce, plan, snapshot, shown,
                 downbeatDue, past>>

\* slip: a new thread whether or not the old one lives
EnsureAnotherThread(c) ==
  /\ taskPc[c] = "prepare"
  /\ Fresh # {}
  /\ stopEvent' = FALSE
  /\ transportThread' = NewThread
  /\ threadPc' = [threadPc EXCEPT ![NewThread] = "test"]
  /\ PublishState(c)
  /\ UNCHANGED <<running, position, joining, announce, plan, outputVars,
                 downbeatDue, past>>

\* slip: the stop event of the last stop is not cleared
EnsureWithoutClear(c) ==
  /\ taskPc[c] = "prepare"
  /\ transportThread \notin Live
  /\ Fresh # {}
  /\ transportThread' = NewThread
  /\ threadPc' = [threadPc EXCEPT ![NewThread] = "test"]
  /\ PublishState(c)
  /\ UNCHANGED <<running, stopEvent, position, joining, announce, plan,
                 outputVars, downbeatDue, past>>

\* `await self._prepare_click_audio()` has returned; then
\* _ensure_transport_thread() keeps a living thread and leaves the stop event
\* as it is, or clears the event and creates a thread
EnsureTransportThread(c) ==
  /\ taskPc[c] = "prepare"
  /\ \/ /\ transportThread \in Live
        /\ UNCHANGED <<stopEvent, transportThread, threadPc>>
     \/ /\ transportThread \notin Live
        /\ stopEvent' = FALSE
        /\ Fresh # {}
        /\ transportThread' = NewThread
        /\ threadPc' = [threadPc EXCEPT ![NewThread] = "test"]
  /\ PublishState(c)
  /\ past' = IF past # "timedOut" /\ \E d \in Tasks : taskPc[d] = "join"
             THEN "joinRace" ELSE past
  /\ UNCHANGED <<running, position, joining, announce, plan, outputVars,
                 downbeatDue>>

\* slip: the stop ends here and tells nobody
EndJoinSilently(c) ==
  /\ transportThread' = None
  /\ joining' = [joining EXCEPT ![c] = None]
  /\ GoTo(c, "idle")
  /\ UNCHANGED <<running, stopEvent, position, threadPc, announce, plan, snapshot,
                 outputVars, downbeatDue>>

\* _transport_thread = None once the thread is joined
EndJoin(c) ==
  /\ transportThread' = None
  /\ joining' = [joining EXCEPT ![c] = None]
  /\ GoTo(c, "release")
  /\ UNCHANGED <<running, stopEvent, position, threadPc, announce, plan, snapshot,
                 outputVars, downbeatDue>>

\* _join_transport_thread(): the thread has died
Joined(c) ==
  /\ taskPc[c] = "join"
  /\ joining[c] \notin Live
  /\ EndJoin(c)
  /\ UNCHANGED past

\* _join_transport_thread(): the thread outlived the 2 s of join().  A thread
\* sleeps through one tick interval, which is longer below 1.25 BPM (the
\* configuration only asks for bpm_min > 0); and it keeps running if the stop
\* event was cleared meanwhile.
JoinTimedOut(c) ==
  /\ taskPc[c] = "join"
  /\ joining[c] \in Live
  /\ EndJoin(c)
  /\ past' = "timedOut"

\* `await self._release_click_audio()` has returned
AudioReleased(c) ==
  /\ taskPc[c] = "release"
  /\ IF announce[c] THEN GoTo(c, "sendStop") /\ UNCHANGED snapshot
                    ELSE PublishState(c)
  /\ announce' = [announce EXCEPT ![c] = FALSE]
  /\ UNCHANGED <<clockVars, threadPc, joining, plan, outputVars, downbeatDue,
                 past>>

\* _publish_midi_status(MIDI_STOP)
SendStop(c) ==
  /\ taskPc[c] = "sendStop"
  /\ lastStatus' = "stop"
  /\ PublishState(c)
  /\ UNCHANGED <<clockVars, threadPc, joining, announce, plan, shown, downbeatDue,
                 past>>

\* configure(), after _replace_click_player(): start, or publish the new BPM ...
ClickPlayerReplaced(c) ==
  /\ taskPc[c] = "replace"
  /\ plan' = [plan EXCEPT ![c] = "return"]
  /\ \/ plan[c] = "autoStart" /\ ~running /\ BeginStart(c)
     \/ /\ plan[c] = "disable" \/ running
        /\ GoTo(c, "sendBpm")
        /\ UNCHANGED <<clockVars, joining, announce, downbeatDue>>
  /\ UNCHANGED <<threadPc, snapshot, outputVars, past>>

\* ... and then the state
BpmPublished(c) ==
  /\ taskPc[c] = "sendBpm"
  /\ PublishState(c)
  /\ UNCHANGED <<clockVars, threadPc, joining, announce, plan, outputVars,
                 downbeatDue, past>>

\* The state event reaches the subscribers; other tasks may have run since it
\* was built
DeliverState(c) ==
  /\ taskPc[c] = "deliver"
  /\ shown' = snapshot[c]
  /\ snapshot' = [snapshot EXCEPT ![c] = FALSE]
  /\ GoTo(c, IF plan[c] = "disable" THEN "replace" ELSE "idle")
  /\ UNCHANGED <<clockVars, threadPc, joining, announce, plan, lastStatus,
                 downbeatDue, past>>

-----------------------------------------------------------------------------
(* The transport thread. *)

\* slip: only the stop event ends the loop
LoopTestEventOnly(t) ==
  /\ threadPc[t] = "test"
  /\ threadPc' = [threadPc EXCEPT ![t] = IF ~stopEvent THEN "sleep" ELSE "dead"]
  /\ UNCHANGED <<clockVars, taskPc, joining, announce, plan, snapshot,
                 outputVars, downbeatDue, past>>

\* the condition of the while loop of _transport_thread_main
LoopTest(t) ==
  /\ threadPc[t] = "test"
  /\ threadPc' = [threadPc EXCEPT ![t] =
                    IF running /\ ~stopEvent THEN "sleep" ELSE "dead"]
  /\ UNCHANGED <<clockVars, taskPc, joining, announce, plan, snapshot,
                 outputVars, downbeatDue, past>>

\* _emit_frame_from_transport_thread() after the sleep: _submit_coroutine
\* drops the tick when the clock is not running ...
SubmitTick(t) ==
  /\ threadPc[t] = "sleep"
  /\ threadPc' = [threadPc EXCEPT ![t] = "advance"]
  /\ downbeatDue' = (downbeatDue /\ ~running)
  /\ UNCHANGED <<clockVars, taskPc, joining, announce, plan, snapshot, outputVars,
                 past>>

\* ... and the position advances either way; it is kept modulo the interval, as
\* _is_click_tick() asks for nothing else of it
AdvancePosition(t) ==
  /\ threadPc[t] = "advance"
  /\ threadPc' = [threadPc EXCEPT ![t] = "test"]
  /\ position' = (position + 1) % ClickInterval
  /\ UNCHANGED <<running, stopEvent, transportThread, taskPc, joining, announce,
                 plan, snapshot, outputVars, downbeatDue, past>>

-----------------------------------------------------------------------------
Command(c) ==
  \/ CommandStart(c) \/ CommandContinue(c) \/ CommandStop(c) \/ CommandToggle(c)
  \/ Shutdown(c) \/ ConfigureDisabled(c) \/ ConfigureAutoStart(c)

Step(c) ==
  \/ AutoStart(c) \/ SendStart(c) \/ EnsureTransportThread(c)
  \/ Joined(c) \/ JoinTimedOut(c) \/ AudioReleased(c) \/ SendStop(c)
  \/ ClickPlayerReplaced(c) \/ BpmPublished(c) \/ DeliverState(c)

Thread(t) == LoopTest(t) \/ SubmitTick(t) \/ AdvancePosition(t)

Next ==
  \/ \E c \in Tasks : Command(c) \/ Step(c)
  \/ \E t \in Threads : Thread(t)

Spec == Init /\ [][Next]_vars

\* The event loop resumes every task whose await has completed and the
\* operating system schedules every thread; nobody has to give a command.
Fairness ==
  /\ \A c \in Tasks : WF_vars(Step(c))
  /\ \A t \in Threads : WF_vars(Thread(t))

FairSpec == Spec /\ Fairness

-----------------------------------------------------------------------------
(* Properties. *)

\* No start or continue ensured the thread while a stop was joining it, and no
\* join gave up on its thread.
Disciplined == past \in {"serial", "overlapped"}

\* In disciplined histories two threads never tick at the same time (twice
\* 24 PPQN), however else the commands interleave.
SoleTicker == Disciplined => \A t, u \in Live : t = u

\* In disciplined histories a clock that says it is running, with no command in
\* flight, is driven by the thread it refers to and nothing told that thread to
\* stop: the clock does not run silently.
RunningIsDriven ==
  (Disciplined /\ Quiet /\ running) => transportThread \in Live /\ ~stopEvent

\* When commands come one after the other, what the outputs and the displays
\* were last told is what the clock does: devices are not left stopped under a
\* running clock and the published state is not stale.
OutputsAgree ==
  (past = "serial" /\ Quiet) =>
    /\ shown = running
    /\ (running /\ SendTransport) => lastStatus \in {"start", "continue"}

\* With commands one after the other and joins that end in time, the first tick
\* after a start is the tick of position 0: no frame of the previous run is left
\* to advance the position.
StartsOnDownbeat ==
  [][ (/\ past = "serial"
       /\ downbeatDue /\ ~downbeatDue' /\ running') => position = 0 ]_vars

\* A clock that stays stopped becomes silent: every transport thread ends,
\* those that nothing refers to any more included.
StoppedFallsSilent == (<>[]~running) => (<>[](Live = {}))

\* What docs/master_clock.md says of a running clock, "The master clock emits
\* MIDI timing clock at 24 PPQN", whatever commands overlapped before (joins
\* that give up, below 1.25 BPM, aside): exactly one thread ticks.
OneTickerWhileRunning ==
  (past # "timedOut" /\ Quiet /\ running) => Cardinality(Live) = 1
=============================================================================
