-------------------------- MODULE DataPointRouting --------------------------
(***************************************************************************)
(* A motor fader of an X-Touch ("control") and a fader of a mixing desk    *)
(* ("desk"), coupled both ways by range-map connections: the data point    *)
(* store (datapoint/store.py), the modifier graph with its feedback        *)
(* suppression (modules/modifier/graph.py, feedback_suppress.py), the      *)
(* output handlers of the I/O modules and the X-Touch refresh loop.        *)
(*                                                                         *)
(* A write calls its subscribers one after the other, and they write       *)
(* again: a task is a stack of writes in progress.  It runs until it       *)
(* awaits a send, and the event loop then runs another.                    *)
(***************************************************************************)
EXTENDS Naturals, Sequences

CONSTANTS
  Datagrams,    \* tasks, one per OSC datagram of the desk
  ControlValues, DeskValues,
  ToDesk,       \* the range map of the connection control -> desk
  ToControl,    \* the range map of the connection desk -> control
  Window,       \* feedback_suppress_ms, in ticks
  None,
  InputBound,   \* bound: inputs
  RevertBound,  \* bound: values written back though they were replaced
  TimeBound     \* bound: the clock

ASSUME RoutingAssumption ==
  /\ ControlValues \subseteq Nat /\ DeskValues \subseteq Nat
  /\ ToDesk \in [ControlValues -> DeskValues]
  /\ ToControl \in [DeskValues -> ControlValues]
  /\ Window \in Nat \ {0} /\ InputBound \in Nat /\ TimeBound \in Nat
  /\ RevertBound \in Nat
  /\ None \notin Nat \cup Datagrams \cup {"user", "refresh"}
  /\ Datagrams \cap {"user", "refresh"} = {}

\* the two maps are each other's inverse, up to the ends of their ranges
ASSUME MirroredAssumption ==
  /\ \A u \in ControlValues : ToDesk[ToControl[ToDesk[u]]] = ToDesk[u]
  /\ \A d \in DeskValues : ToControl[ToDesk[ToControl[d]]] = ToControl[d]

VARIABLES
  value,      \* DataPointStore._values, of the two points
  shown,      \* where the two faders stand
  cache,      \* XTouchFeedbackRefresh._cache of the control
  stack,      \* of each task: the writes it is in, the innermost first
  loop,       \* the task that runs, or None
  lastInput,  \* _last_user_input_at; for the control also _last_turn_at
  lastOut,    \* _last_outbound_target_at
  now,        \* the clock, in ticks
  inputs,     \* number of inputs so far
  touched,    \* history: when the user last moved the control
  reverts,    \* history: how often a value was written back though it was replaced
  upsets      \* history: the mishaps so far

suppressVars == <<lastInput, lastOut>>
historyVars  == <<inputs, touched, reverts, upsets>>
vars == <<value, shown, cache, stack, loop, suppressVars, now, historyVars>>

Points == {"control", "desk"}
Values(p) == IF p = "control" THEN ControlValues ELSE DeskValues
Other(p)  == IF p = "control" THEN "desk" ELSE "control"
Map(p, v) == IF p = "control" THEN ToDesk[v] ELSE ToControl[v]
Tasks     == Datagrams \cup {"user", "refresh"}
Times     == 0 .. TimeBound

\* stale: a subscriber or a fader was handed a value that the store held no more;
\* muted: feedback was kept from the control though the user had not moved it
Upsets == {"stale", "muted"}

Frame == [point : Points, val : Nat, emit : BOOLEAN, stamp : Times,
          todo : Seq({"note", "graph", "persist", "output", "sending"})]

\* How deep writes nest: a write sets off two others at most, however the maps clamp,
\* and one level more comes with every value that is written back though it was replaced.
Depth == 3 + reverts

TypeOK ==
  /\ \A p \in Points : value[p] \in Values(p) /\ shown[p] \in Values(p)
  /\ cache \in ControlValues \cup {None}
  /\ stack \in [Tasks -> Seq(Frame)]
  /\ \A t \in Tasks : Len(stack[t]) <= Depth
  /\ loop \in Tasks \cup {None}
  /\ lastInput \in [Points -> Times \cup {None}]
  /\ lastOut \in [Points -> Times \cup {None}]
  /\ now \in Times /\ inputs \in 0 .. InputBound
  /\ touched \in Times \cup {None}
  /\ reverts \in 0 .. RevertBound
  /\ upsets \subseteq Upsets

\* the desk's value has been replayed and both faders stand where they should
Init ==
  /\ \E u \in ControlValues :
       LET both == [p \in Points |-> IF p = "desk" THEN ToDesk[u] ELSE ToControl[ToDesk[u]]]
       IN  value = both /\ shown = both
  /\ cache = None
  /\ stack = [t \in Tasks |-> <<>>]
  /\ loop = None
  /\ lastInput = [p \in Points |-> None] /\ lastOut = [p \in Points |-> None]
  /\ now = 0 /\ inputs = 0 /\ touched = None /\ reverts = 0 /\ upsets = {}

-----------------------------------------------------------------------------
(* The store. *)

\* the subscribers: the graph, which is started before the I/O modules, and the
\* output handler; that of the X-Touch first writes the value to the store again
Subscribers(p) ==
  IF p = "control" THEN <<"graph", "persist", "output">> ELSE <<"graph", "output">>

\* slip: every write is passed on
WriteAlways(t, frames, p, v, emit, force) ==
  /\ value' = [value EXCEPT ![p] = v]
  /\ stack' = [stack EXCEPT ![t] =
       <<[point |-> p, val |-> v, emit |-> emit, stamp |-> now,
          todo |-> Subscribers(p)]>> \o frames]

\* DataPointStore.write() by task t, which is in frames: a value that is not new
\* goes no further
Write(t, frames, p, v, emit, force) ==
  \/ /\ value[p] = v /\ ~force
     /\ stack' = [stack EXCEPT ![t] = frames]
     /\ UNCHANGED value
  \/ /\ value[p] # v \/ force
     /\ value' = [value EXCEPT ![p] = v]
     /\ stack' = [stack EXCEPT ![t] =
          <<[point |-> p, val |-> v, emit |-> emit, stamp |-> now,
             todo |-> Subscribers(p)]>> \o frames]

\* the running task t is about to do step s of its innermost write
Doing(t, s) ==
  /\ loop = t
  /\ stack[t] # <<>> /\ Head(stack[t]).todo # <<>>
  /\ Head(Head(stack[t]).todo) = s

\* the writes of t once step s is done, with the steps `first` put before the rest
Done(t, first) ==
  LET f == Head(stack[t]) IN
  <<[f EXCEPT !.todo = first \o Tail(@)]>> \o Tail(stack[t])

-----------------------------------------------------------------------------
(* Inputs. *)

Input == inputs < InputBound /\ inputs' = inputs + 1

\* _on_control(): the user moves the fader; the MIDI input loop awaits the
\* events one at a time
UserMoves(v) ==
  /\ Input
  /\ loop = None /\ stack["user"] = <<>>
  /\ shown' = [shown EXCEPT !["control"] = v]
  /\ Write("user", <<>>, "control", v, FALSE, FALSE)
  /\ loop' = IF value["control"] = v THEN None ELSE "user"
  /\ touched' = now
  /\ UNCHANGED <<cache, suppressVars, now, reverts, upsets>>

\* _on_osc_message(): the desk reports its fader; each datagram is a task
DeskMoves(t, v) ==
  /\ Input
  /\ loop = None /\ stack[t] = <<>>
  /\ shown' = [shown EXCEPT !["desk"] = v]
  /\ Write(t, <<>>, "desk", v, FALSE, TRUE)
  /\ loop' = t
  /\ UNCHANGED <<cache, suppressVars, now, touched, reverts, upsets>>

Tick ==
  /\ now < TimeBound /\ loop = None
  /\ now' = now + 1
  /\ UNCHANGED <<value, shown, cache, stack, loop, suppressVars, historyVars>>

-----------------------------------------------------------------------------
(* The graph. *)

Within(last, stamp) == last # None /\ stamp <= last + Window

\* slip: the controller is not let through either
SuppressedBothWays(p, stamp) ==
  Within(lastOut[p], stamp) \/ Within(lastInput[Other(p)], stamp)

\* should_suppress_source() and should_suppress_target(); a controller is always
\* let through to the desk
Suppressed(p, stamp) ==
  /\ p = "desk"
  /\ Within(lastOut["desk"], stamp) \/ Within(lastInput["control"], stamp)

Stale(f) == IF value[f.point] = f.val THEN {} ELSE {"stale"}

\* slip: suppressed feedback is dropped altogether
GraphDrops(t) ==
  /\ Doing(t, "graph")
  /\ LET f == Head(stack[t])
         p == f.point
         q == Other(p)
         v == Map(p, f.val)
     IN
     /\ lastInput' = [lastInput EXCEPT ![p] = f.stamp]
     /\ \/ /\ (p = "desk" /\ value[q] = v) \/ Suppressed(p, f.stamp)
           /\ stack' = [stack EXCEPT ![t] = Done(t, <<>>)]
           /\ UNCHANGED value
        \/ /\ (p = "control" \/ value[q] # v) /\ ~Suppressed(p, f.stamp)
           /\ Write(t, Done(t, <<"note">>), q, v, TRUE, FALSE)
     /\ upsets' = upsets \cup Stale(f)
  /\ UNCHANGED <<shown, cache, loop, lastOut, now, inputs, touched, reverts>>

\* _on_source_value(): note the input, map the value, and write it to the other
\* point, for the store only while feedback is suppressed
Graph(t) ==
  /\ Doing(t, "graph")
  /\ LET f == Head(stack[t])
         p == f.point
         q == Other(p)
         v == Map(p, f.val)
         emit == ~Suppressed(p, f.stamp)
         muted == p = "desk" /\ ~emit /\ value[q] # v /\ ~Within(touched, f.stamp)
     IN
     /\ lastInput' = [lastInput EXCEPT ![p] = f.stamp]
     /\ \/ /\ p = "desk" /\ value[q] = v
           /\ stack' = [stack EXCEPT ![t] = Done(t, <<>>)]
           /\ UNCHANGED value
        \/ /\ p = "control" \/ value[q] # v
           /\ Write(t, Done(t, IF emit THEN <<"note">> ELSE <<>>), q, v, emit, FALSE)
     /\ upsets' = upsets \cup Stale(f) \cup IF muted THEN {"muted"} ELSE {}
  /\ UNCHANGED <<shown, cache, loop, lastOut, now, inputs, touched, reverts>>

\* note_outbound_target(), after the write to the other point has come back
NoteOutbound(t) ==
  /\ Doing(t, "note")
  /\ LET f == Head(stack[t]) IN
       lastOut' = [lastOut EXCEPT ![Other(f.point)] = f.stamp]
  /\ stack' = [stack EXCEPT ![t] = Done(t, <<>>)]
  /\ UNCHANGED <<value, shown, cache, loop, lastInput, now, historyVars>>

-----------------------------------------------------------------------------
(* The output handlers and the refresh loop. *)

\* persist_feedback_value(): the handler writes the value it was handed, also when the
\* store holds it no more
Persist(t) ==
  /\ Doing(t, "persist")
  /\ LET f == Head(stack[t]) IN
     /\ Write(t, Done(t, <<>>), "control", f.val, FALSE, FALSE)
     /\ upsets' = upsets \cup Stale(f)
     /\ \/ Stale(f) = {} /\ UNCHANGED reverts
        \/ Stale(f) # {} /\ reverts < RevertBound /\ reverts' = reverts + 1
  /\ UNCHANGED <<shown, cache, loop, suppressVars, now, inputs, touched>>

\* _on_output_value() and send(): remember the value of the control; unless the
\* value is for the store only, send it.  The desk has it at once, the control is
\* sent it by a thread; either send is awaited.
Output(t) ==
  /\ Doing(t, "output")
  /\ LET f == Head(stack[t]) IN
     /\ cache' = IF f.point = "control" THEN f.val ELSE cache
     /\ \/ /\ f.emit
           /\ shown' = IF f.point = "desk" THEN [shown EXCEPT !["desk"] = f.val] ELSE shown
           /\ upsets' = upsets \cup Stale(f)
           /\ stack' = [stack EXCEPT ![t] = Done(t, <<"sending">>)]
           /\ loop' = None
        \/ /\ ~f.emit
           /\ stack' = [stack EXCEPT ![t] = Done(t, <<>>)]
           /\ UNCHANGED <<shown, loop, upsets>>
  /\ UNCHANGED <<value, suppressVars, now, inputs, touched, reverts>>

\* the send has come to its end, and the task goes on
Sent(t) ==
  /\ loop = None
  /\ stack[t] # <<>> /\ Head(stack[t]).todo # <<>>
  /\ Head(Head(stack[t]).todo) = "sending"
  /\ LET f == Head(stack[t]) IN
       shown' = IF f.point = "control" THEN [shown EXCEPT !["control"] = f.val] ELSE shown
  /\ stack' = [stack EXCEPT ![t] = Done(t, <<>>)]
  /\ loop' = t
  /\ UNCHANGED <<value, cache, suppressVars, now, historyVars>>

\* the write returns, to the write around it or to the event loop
Return(t) ==
  /\ loop = t
  /\ stack[t] # <<>> /\ Head(stack[t]).todo = <<>>
  /\ stack' = [stack EXCEPT ![t] = Tail(@)]
  /\ loop' = IF Len(stack[t]) = 1 THEN None ELSE t
  /\ UNCHANGED <<value, shown, cache, suppressVars, now, historyVars>>

Send(v) ==
  /\ loop = None /\ stack["refresh"] = <<>>
  /\ stack' = [stack EXCEPT !["refresh"] =
       <<[point |-> "control", val |-> v, emit |-> TRUE, stamp |-> 0,
          todo |-> <<"sending">>]>>]
  /\ UNCHANGED <<shown, value, loop, suppressVars, now, historyVars>>

\* slip: what the output handler remembered is preferred to the store
RefreshFromCache ==
  /\ Send(IF cache = None THEN value["control"] ELSE cache)
  /\ cache' = IF cache = None THEN value["control"] ELSE cache

\* _refresh_loop(): send the control what the store holds
Refresh ==
  /\ Send(value["control"])
  /\ cache' = value["control"]

Step(t) ==
  \/ Graph(t) \/ NoteOutbound(t) \/ Persist(t)
  \/ Output(t) \/ Sent(t) \/ Return(t)

Next ==
  \/ \E v \in ControlValues : UserMoves(v)
  \/ \E t \in Datagrams : \E v \in DeskValues : DeskMoves(t, v)
  \/ Tick
  \/ \E t \in Tasks : Step(t)
  \/ Refresh

Spec == Init /\ [][Next]_vars

\* Every task goes on, and the refresh loop keeps sending.
FairSpec ==
  /\ Spec
  /\ \A t \in Tasks : WF_vars(Step(t))
  /\ SF_vars(Refresh)

-----------------------------------------------------------------------------
(* Properties. *)

Quiet == \A t \in Tasks \ {"refresh"} : stack[t] = <<>>

\* Whenever the event loop is free, though sends may be under way, the two points agree:
\* one of them is what the other is mapped to, whoever wrote last, in whatever order
\* tasks go on, and however the ranges clamp at either end (_on_source_value()).
PairAgrees ==
  loop = None => \/ value["control"] = ToControl[value["desk"]]
                 \/ value["desk"] = ToDesk[value["control"]]

\* Once every write has come to its end the desk's fader stands where the store says,
\* unless a subscriber or a fader was handed a value that was already replaced.
DeskIsShown ==
  Quiet /\ "stale" \notin upsets => shown["desk"] = value["desk"]

\* However writes, suppression and sends interleave, the refresh loop brings the motor
\* fader to the stored value in the end, unless tasks undo each other's values for ever.
ControlCatchesUp ==
  [](reverts < RevertBound) => <>[](shown["control"] = value["control"])

\* feedback_suppress.py says that feedback pauses "shortly after local user
\* input": it is kept from the control only when the user has just moved it.
MutedOnlyAfterInput == "muted" \notin upsets
=============================================================================
