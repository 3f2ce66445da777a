--------------------------- MODULE MonitorStream ---------------------------
(***************************************************************************)
(* The web monitor of one fast point: MonitorCoalescer of                  *)
(* web/monitor_coalesce.py, the broadcast to the browsers and the replay   *)
(* of the history to a browser that joins (web/server.py).  A write to a   *)
(* browser is done at once; the await behind it lasts while the browser is *)
(* slow.                                                                   *)
(***************************************************************************)
EXTENDS Naturals, FiniteSets

CONSTANTS
  Browsers,
  Flushers,  \* tasks that broadcast; a bound on how many there are at a time
  Points     \* values of the point, 0 .. Points - 1

ASSUME MonitorAssumption == Points \in Nat \ {0} /\ IsFiniteSet(Browsers)

VARIABLES
  monitor,  \* the newest value, _pending, _tasks, learn mode; whether what waits was left
            \* behind by the store, and whether the last broadcast went in calm
  task,     \* of each flusher: where it awaits, its payload, the browsers left
  view      \* of each browser: whether it is in _websockets, its replay, what it shows

monitorVars == <<monitor, task, view>>

Nothing == Points
Browsing == {b \in Browsers : view[b].in}
Idle == [pc |-> "none", payload |-> Nothing, left |-> {}, size |-> 0]
Busy == \E f \in Flushers : task[f].pc \in {"first", "second", "direct"}

MonitorInit ==
  /\ monitor = [newest |-> 0, pending |-> Nothing, task |-> {}, learn |-> FALSE, behind |-> FALSE, calm |-> TRUE]
  /\ task = [f \in Flushers |-> Idle]
  /\ view = [b \in Browsers |-> [in |-> FALSE, replay |-> Nothing, shows |-> 0]]

MonitorTypeOK ==
  LET MaybePoint == 0 .. Points IN
  /\ monitor \in [newest : 0 .. Points - 1, pending : MaybePoint, task : SUBSET Flushers,
                  learn : BOOLEAN, behind : BOOLEAN, calm : BOOLEAN]
  /\ task \in [Flushers -> [pc : {"none", "sleeping", "first", "second", "direct"},
               payload : MaybePoint, left : SUBSET Browsers, size : 0 .. Cardinality(Browsers)]]
  /\ view \in [Browsers -> [in : BOOLEAN, replay : MaybePoint, shows : MaybePoint]]
  /\ Cardinality(monitor.task) <= 1

-----------------------------------------------------------------------------
(* _broadcast_payload(): the browsers are met one after the other.          *)

\* the first write comes in the same turn as the decision to broadcast
Broadcast(f, pc, v) ==
  IF Browsing = {}
  THEN task' = [task EXCEPT ![f] = [Idle EXCEPT !.pc = pc]] /\ UNCHANGED view
  ELSE \E b \in Browsing :
    /\ view' = [view EXCEPT ![b].shows = v]
    /\ task' = [task EXCEPT ![f] = [pc |-> pc, payload |-> v, left |-> Browsing \ {b},
                                    size |-> Cardinality(Browsing)]]

Sending(f) == task[f].pc \in {"first", "second", "direct"}

\* what f broadcasts overtakes nothing
Undisturbed(f) ==
  /\ \A g \in Flushers \ {f} : ~Sending(g)
  /\ \A b \in Browsing : view[b].replay = Nothing

\* the set that is iterated over has changed its size: the iteration raises, also when
\* every browser has been met
Raises(f) == task[f].size # 0 /\ Cardinality(Browsing) # task[f].size

NextBrowser(f) ==
  /\ Sending(f) /\ ~Raises(f)
  /\ \E b \in task[f].left :
       /\ view' = [view EXCEPT ![b].shows = IF view[b].in THEN task[f].payload ELSE @]
       /\ task' = [task EXCEPT ![f].left = @ \ {b}]
  /\ UNCHANGED monitor

Sent(f) == Sending(f) /\ (task[f].left = {} \/ Raises(f))

-----------------------------------------------------------------------------
(* offer() and _flush_later(). *)

\* broadcast_datapoint_update(): the store has a new value, which goes no further while
\* there is no browser, though an older one may be waiting.  A value that is not broadcast
\* at once waits; its task is made unless there is one.  Whichever one is free stands for it.
Unseen(v) ==
  /\ v # monitor.newest /\ Browsing = {}
  /\ monitor' = [monitor EXCEPT !.newest = v, !.behind = monitor.pending # Nothing]
  /\ UNCHANGED <<task, view>>

Offer(v) ==
  /\ v # monitor.newest /\ Browsing # {}
  /\ \E f \in Flushers :
       /\ task[f].pc = "none" /\ f = CHOOSE g \in Flushers : task[g].pc = "none"
       /\ IF monitor.learn
          THEN /\ Broadcast(f, "direct", v)
               /\ monitor' = [monitor EXCEPT !.newest = v, !.calm = Undisturbed(f),
                    !.behind = monitor.pending # Nothing]
          ELSE /\ monitor' = [monitor EXCEPT !.newest = v, !.pending = v, !.behind = FALSE,
                    !.task = IF @ = {} THEN {f} ELSE @]
               /\ task' = IF monitor.task = {} THEN [task EXCEPT ![f].pc = "sleeping"] ELSE task
               /\ UNCHANGED view

\* what is pending is taken and broadcast
Flush(f, pc, m) ==
  /\ Broadcast(f, pc, m.pending)
  /\ monitor' = [m EXCEPT !.pending = Nothing, !.behind = FALSE,
                  !.calm = Undisturbed(f) /\ ~m.behind]

Wakes(f) ==
  /\ task[f].pc = "sleeping"
  /\ IF monitor.pending = Nothing
     THEN task' = [task EXCEPT ![f].pc = "first"] /\ UNCHANGED <<monitor, view>>
     ELSE Flush(f, "first", monitor)

\* slip: a task that is done does not look for what came meanwhile
LeavesPending(f) ==
  /\ Sent(f) /\ task[f].pc = "first"
  /\ task' = [task EXCEPT ![f] = Idle]
  /\ monitor' = [monitor EXCEPT !.task = {}]
  /\ UNCHANGED view

\* the finally clause: the task takes itself out, and broadcasts what came meanwhile
FlushedOnce(f) ==
  /\ Sent(f) /\ task[f].pc = "first"
  /\ LET m == [monitor EXCEPT !.task = {}] IN
     IF m.pending # Nothing
     THEN Flush(f, "second", m)
     ELSE task' = [task EXCEPT ![f] = Idle] /\ monitor' = m /\ UNCHANGED view

\* after that one it makes a new task, unless the broadcast raised
FlushedTwice(f) ==
  /\ Sent(f) /\ task[f].pc = "second"
  /\ LET again == monitor.pending # Nothing /\ ~Raises(f) IN
     /\ task' = [task EXCEPT ![f] = [Idle EXCEPT !.pc = IF again THEN "sleeping" ELSE "none"]]
     /\ monitor' = IF again THEN [monitor EXCEPT !.task = {f}] ELSE monitor
  /\ UNCHANGED view

SentDirectly(f) ==
  /\ Sent(f) /\ task[f].pc = "direct"
  /\ task' = [task EXCEPT ![f] = Idle]
  /\ UNCHANGED <<monitor, view>>

-----------------------------------------------------------------------------
(* Browsers: monitor_ws() joins a browser to the set, and then reads and    *)
(* sends the history.                                                       *)

Joins(b) ==
  /\ ~view[b].in
  /\ view' = [view EXCEPT ![b] = [in |-> TRUE, replay |-> monitor.newest, shows |-> Nothing]]
  /\ monitor' = [monitor EXCEPT !.calm = @ /\ ~Busy]
  /\ UNCHANGED task

Replayed(b) ==
  /\ view[b].replay # Nothing
  /\ view' = [view EXCEPT ![b].shows = view[b].replay, ![b].replay = Nothing]
  /\ UNCHANGED <<monitor, task>>

Leaves(b) ==
  /\ view[b].in
  /\ view' = [view EXCEPT ![b].in = FALSE, ![b].replay = Nothing]
  /\ monitor' = [monitor EXCEPT !.calm = @ /\ ~Busy]
  /\ UNCHANGED task

SetLearn ==
  /\ monitor' = [monitor EXCEPT !.learn = ~@]
  /\ UNCHANGED <<task, view>>

-----------------------------------------------------------------------------
MonitorRuns ==
  \/ \E f \in Flushers : \/ NextBrowser(f) \/ Wakes(f) \/ FlushedOnce(f)
                         \/ FlushedTwice(f) \/ SentDirectly(f)
  \/ \E b \in Browsers : Replayed(b)

MonitorWorld ==
  \/ \E v \in 0 .. Points - 1 : Unseen(v) \/ Offer(v)
  \/ \E b \in Browsers : Joins(b) \/ Leaves(b)
  \/ SetLearn

MonitorSpec == MonitorInit /\ [][MonitorRuns \/ MonitorWorld]_monitorVars /\ WF_monitorVars(MonitorRuns)

-----------------------------------------------------------------------------
\* A value that waits has a task that will take it, though tasks forget each other; and
\* when nothing waits or is under way, every browser shows the newest value, with the
\* exceptions of NewestIsShown (_flush_later(), monitor_ws()).
NewestIsUnderWay ==
  /\ monitor.pending # Nothing => \E f \in Flushers : task[f].pc \in {"sleeping", "first"}
  /\ monitor.calm /\ monitor.pending = Nothing /\ ~Busy =>
       \A b \in Browsing : view[b].replay = Nothing => view[b].shows = monitor.newest

\* A value that waits is broadcast or pushed out by a newer one, however tasks make
\* room for each other; and every browser comes to show the newest value.  Excepted
\* from the second, until a newer value is broadcast in order, is what the code does not
\* keep in order: a broadcast that begins while another, a replay, a joining or a leaving
\* is under way, a value that learn mode broadcasts while an older one waits, and one that
\* the store gets while nobody browses and an older one waits: the older one is then
\* broadcast after the replay to whoever joins (_flush_later(), monitor_ws(),
\* broadcast_datapoint_update()).
NewestIsShown ==
  <>[](/\ monitor.pending = Nothing
       /\ monitor.calm => \A b \in Browsing : view[b].shows = monitor.newest)
=============================================================================
