------------------------------ MODULE WingLink ------------------------------
(***************************************************************************)
(* WingNativeAdapter of adapters/wing_native.py: the session with a Wing   *)
(* desk, its reconnects, the fader values that it sends at most sixty      *)
(* times and publishes at most fifteen times a second.                     *)
(*                                                                         *)
(* A step is the code between two awaits that really suspend.  start(),    *)
(* stop() and reload() of one adapter do not overlap.  A task that is left *)
(* over by a teardown wakes (after 1/60 s) before the next session is up.  *)
(* Of each fader one send at a time awaits resolve_path() (a bound).       *)
(***************************************************************************)
EXTENDS Integers, Sequences

CONSTANTS
  Faders,    \* fader addresses
  Levels,    \* fader values, as integers
  Deadband,  \* _FADER_FEEDBACK_DEADBAND on that scale
  NoLevel

ASSUME WingAssumption ==
  Levels \subseteq Int /\ Levels # {} /\ Deadband \in Nat \ {0} /\ NoLevel \notin Levels

VARIABLES
  link,  \* the adapter: running, its connection task, client, whether TCP is
         \* alive, the faders yet to warm up, whether a reload() starts it again
  fader  \* of each fader: the adapter's dictionaries, its tasks and the desk

wingVars == <<link, fader>>

\* before start(), and after stop()
WingIdle == [running |-> FALSE, task |-> "none", client |-> FALSE, alive |-> FALSE, warm |-> {}, again |-> FALSE]

WingInit ==
  /\ link = WingIdle
  /\ fader = [f \in Faders |->
       [pending |-> NoLevel, sender |-> "idle", inflight |-> NoLevel, \* _pending_fader_sends, _fader_send_tasks
        resolving |-> NoLevel, cached |-> FALSE,           \* a send that awaits resolve_path(), the path cache
        feedback |-> NoLevel, flusher |-> "idle",          \* _pending_fader_feedback, _fader_flush_tasks
        published |-> NoLevel, recent |-> {},              \* _last_published_fader, the echo guard
        desk |-> CHOOSE v \in Levels : TRUE, report |-> FALSE, mover |-> "none"]]

WingTypeOK ==
  /\ link \in [running : BOOLEAN,
               task : {"none", "starting", "reading", "retrying", "connecting", "closing", "stopping"},
               client : BOOLEAN, alive : BOOLEAN, warm : SUBSET Faders, again : BOOLEAN]
  /\ fader \in [Faders ->
       [pending : Levels \cup {NoLevel}, sender : {"idle", "asleep", "writing"},
        inflight : Levels \cup {NoLevel}, resolving : Levels \cup {NoLevel},
        cached : BOOLEAN, feedback : Levels \cup {NoLevel}, flusher : {"idle", "asleep"},
        published : Levels \cup {NoLevel}, recent : SUBSET Levels, desk : Levels,
        report : BOOLEAN, mover : {"none", "app", "desk"}]]
  /\ link.task = "reading" => link.client
  /\ \A f \in Faders : (fader[f].sender = "writing") <=> (fader[f].inflight # NoLevel)

Near(a, b) == a # NoLevel /\ a - b < Deadband /\ b - a < Deadband

-----------------------------------------------------------------------------
(* The session. *)

WingStart ==
  /\ link.task = "none"
  /\ link' = [link EXCEPT !.running = TRUE, !.task = "starting"]
  /\ UNCHANGED fader

\* the delay between two attempts is over
RetryDue ==
  /\ link.task = "retrying"
  /\ link' = [link EXCEPT !.task = "connecting"]
  /\ UNCHANGED fader

\* _establish_session(): a new client has an empty path cache; the faders of the
\* connections are resolved again and their values asked for
Connected ==
  /\ link.task \in {"starting", "connecting"}
  /\ \A f \in Faders : fader[f].sender = "idle" /\ fader[f].flusher = "idle"
  /\ link' = [link EXCEPT !.task = "reading", !.client = TRUE, !.alive = TRUE, !.warm = Faders]
  /\ fader' = [f \in Faders |-> 
       [fader[f] EXCEPT !.cached = FALSE, !.report = FALSE, !.mover = "none"]]

ConnectFails ==
  /\ link.task \in {"starting", "connecting"}
  /\ link' = [link EXCEPT !.task = "retrying"]
  /\ UNCHANGED fader

LinkBreaks ==
  /\ link.alive
  /\ link' = [link EXCEPT !.alive = FALSE]
  /\ UNCHANGED fader

\* the first half of _teardown_session(): the cancelled tasks leave their
\* dictionaries in their finally and do not schedule another
Cancelled == [f \in Faders |->
  [fader[f] EXCEPT !.sender = "idle", !.inflight = NoLevel, !.flusher = "idle"]]

ReadEnds ==
  /\ link.task = "reading" /\ ~link.alive
  /\ link' = [link EXCEPT !.task = "closing", !.warm = {}]
  /\ fader' = Cancelled

\* stop(), or a reload() with another host or port, which starts again
WingStop(again) ==
  /\ link.task \in {"reading", "retrying", "connecting"}
  /\ link' = [link EXCEPT !.running = FALSE, !.task = "stopping", !.warm = {}, !.again = again]
  /\ fader' = Cancelled

\* the second half of _teardown_session(), and what its caller does next
TornDown ==
  /\ link.task \in {"closing", "stopping"}
  /\ fader' = [f \in Faders |->
       [fader[f] EXCEPT !.pending = NoLevel, !.feedback = NoLevel, !.report = FALSE]]
  /\ link' =
       IF link.task = "closing"
       THEN [link EXCEPT !.client = FALSE, !.alive = FALSE, !.task = "retrying"]
       ELSE IF link.again
       THEN [WingIdle EXCEPT !.running = TRUE, !.task = "starting"]
       ELSE WingIdle

\* _warm_connected_paths(): a miss is only counted
Warmed(f) ==
  /\ f \in link.warm
  /\ link' = [link EXCEPT !.warm = @ \ {f}]
  /\ \E found \in BOOLEAN :
       fader' = [fader EXCEPT ![f].cached = found, ![f].report = @ \/ found,
                                      ![f].mover = IF found THEN "desk" ELSE @]

-----------------------------------------------------------------------------
(* Values to the desk. *)

\* the newest value replaces one that still waits; a task is created if none runs
PutDown(fd, v) ==
  [fd EXCEPT !.pending = v, !.sender = IF @ = "idle" THEN "asleep" ELSE @]

\* send(): without a session the value is dropped, with a warning
Send(f, v) ==
  /\ link.client /\ link.running
  /\ IF fader[f].cached
     THEN fader' = [fader EXCEPT ![f] = PutDown(@, v)]
     ELSE fader[f].resolving = NoLevel /\ fader' = [fader EXCEPT ![f].resolving = v]
  /\ UNCHANGED link

\* resolve_path() returns, perhaps after the session went, or fails
Resolved(f) ==
  LET fd == fader[f] IN
  /\ fd.resolving # NoLevel
  /\ \/ fader' = [fader EXCEPT ![f] =
            [PutDown(fd, fd.resolving) EXCEPT !.resolving = NoLevel, !.cached = link.client]]
     \/ fader' = [fader EXCEPT ![f].resolving = NoLevel]
  /\ UNCHANGED link

\* _flush_fader_send() up to set_float(), which may wait for the client's lock
Wake(f) ==
  /\ fader[f].sender = "asleep"
  /\ fader' =
       IF link.running /\ link.client /\ fader[f].pending # NoLevel
       THEN [fader EXCEPT ![f].sender = "writing", ![f].inflight = fader[f].pending,
                          ![f].pending = NoLevel]
       ELSE [fader EXCEPT ![f].sender = "idle"]
  /\ UNCHANGED link

\* slip: values that came while the last one was written are left to the next send()
NoSendAgain(fd) == "idle"

\* the finally of _flush_fader_send()
SendAgain(fd) == IF fd.pending # NoLevel /\ link.running THEN "asleep" ELSE "idle"

Written(f) ==
  LET fd == fader[f] IN
  /\ fd.sender = "writing"
  /\ fader' = [fader EXCEPT ![f] =
       [fd EXCEPT !.inflight = NoLevel, !.sender = SendAgain(fd),
                  !.recent = @ \cup {fd.inflight},
                  !.desk = IF link.alive THEN fd.inflight ELSE @,
                  !.mover = IF link.alive THEN "app" ELSE @,
                  !.report = @ \/ link.alive]]
  /\ UNCHANGED link

\* set_float() raises: the task ends before it could schedule another
WriteFails(f) ==
  /\ fader[f].sender = "writing" /\ ~link.alive
  /\ fader' = [fader EXCEPT ![f].inflight = NoLevel, ![f].sender = "idle"]
  /\ UNCHANGED link

-----------------------------------------------------------------------------
(* Values from the desk. *)

\* the engineer moves the fader
DeskMoves(f, v) ==
  /\ v # fader[f].desk
  /\ fader' = [fader EXCEPT ![f].desk = v, ![f].report = link.alive, ![f].mover = "desk"]
  /\ UNCHANGED link

\* the window of the echo guard has passed for v
EchoForgotten(f, v) ==
  /\ v \in fader[f].recent
  /\ fader' = [fader EXCEPT ![f].recent = @ \ {v}]
  /\ UNCHANGED link

\* slip: a value that comes while a flush is due is not kept
FirstFeedback(fd) ==
  IF fd.flusher = "asleep" THEN fd ELSE [fd EXCEPT !.feedback = fd.desk, !.flusher = "asleep"]

QueueFeedback(fd) == [fd EXCEPT !.feedback = fd.desk, !.flusher = "asleep"]

\* _publish_node_data(): values of unknown nodes and echoes are ignored
NodeData(f) ==
  LET fd == fader[f] IN
  /\ link.task = "reading" /\ link.alive /\ fd.report
  /\ fader' = [fader EXCEPT ![f] =
       [IF ~fd.cached THEN [fd EXCEPT !.mover = "none"]
        ELSE IF fd.desk \in fd.recent THEN [fd EXCEPT !.mover = "app"]
        ELSE QueueFeedback(fd) EXCEPT !.report = FALSE]]
  /\ UNCHANGED link

FlushFeedback(f) ==
  LET fd == fader[f]
      skip == ~link.running \/ fd.feedback = NoLevel \/ Near(fd.published, fd.feedback)
  IN
  /\ fd.flusher = "asleep"
  /\ fader' = [fader EXCEPT ![f] =
       [fd EXCEPT !.flusher = "idle",
                  !.feedback = IF link.running THEN NoLevel ELSE @,
                  !.published = IF skip THEN @ ELSE fd.feedback]]
  /\ UNCHANGED link

-----------------------------------------------------------------------------
\* what the event loop and the connection do by themselves
WingSends == \E f \in Faders : Wake(f) \/ Written(f) \/ WriteFails(f)

WingRuns ==
  \/ WingSends
  \/ RetryDue \/ Connected \/ ConnectFails \/ ReadEnds \/ TornDown
  \/ \E f \in Faders : Warmed(f) \/ Resolved(f) \/ NodeData(f) \/ FlushFeedback(f)

\* what the others do: the user, the engineer, the network, the clock
WingWorld ==
  \/ WingStart \/ LinkBreaks
  \/ \E again \in BOOLEAN : WingStop(again)
  \/ \E f \in Faders, v \in Levels : Send(f, v) \/ DeskMoves(f, v) \/ EchoForgotten(f, v)

WingSpec == WingInit /\ [][WingRuns \/ WingWorld]_wingVars /\ WF_wingVars(WingSends)

-----------------------------------------------------------------------------
WaitingSends(fd) ==
  (IF fd.inflight # NoLevel THEN <<fd.inflight>> ELSE <<>>)
  \o (IF fd.pending # NoLevel /\ fd.sender # "idle" THEN <<fd.pending>> ELSE <<>>)

Mailbox == INSTANCE LatestValue WITH
  Keys <- Faders, Values <- Levels,
  waiting <- [f \in Faders |-> WaitingSends(fader[f])],
  passed <- [f \in Faders |-> fader[f].desk],
  up <- link.task = "reading" /\ link.alive

\* The coalesced sends implement LatestValue: fader values reach the desk in the
\* order in which they were put down, and the newest one always does, unless the
\* session goes down (_schedule_fader_send(), _flush_fader_send()).
LastFaderValueIsSent == Mailbox!Spec

\* The last value published for a fader is within the dead band of where the
\* engineer left it, once nothing is under way; what the adapter takes for an echo
\* of its own sends is excepted (_publish_node_data(), _flush_fader_feedback()).
FeedbackSettles ==
  \A f \in Faders :
    /\ link.task = "reading" /\ link.alive
    /\ ~fader[f].report /\ fader[f].flusher = "idle" /\ fader[f].mover = "desk"
    => Near(fader[f].published, fader[f].desk)
=============================================================================
