----------------------------- MODULE BeatFlash ------------------------------
(***************************************************************************)
(* The beat pulse of modules/generator/master_clock.py.  Each beat of the  *)
(* transport runs publish_beat() as a task of its own: it sets the data    *)
(* point clock.beat to 1.0 and leaves a task behind that returns it to 0.0 *)
(* after the flash.  A generation counter and an asyncio lock keep the     *)
(* flash of one beat out of the next one.                                  *)
(*                                                                         *)
(* Every action is the code of one task between two awaits.  An asyncio    *)
(* lock is handed over in the order of the waiting.  A write to the store  *)
(* sets the value at once and then awaits the subscribers.  A task that    *)
(* asks for a free lock has it at once; here it takes it in a later step,  *)
(* as if the await before had lasted longer.                               *)
(***************************************************************************)
EXTENDS Naturals, Sequences

CONSTANTS
  Pulses,     \* tasks running publish_beat()
  Offs,       \* tasks running _clear_beat_flash()
  None,
  BeatBound   \* bound: beats of the transport

ASSUME BeatAssumption ==
  /\ Pulses \cap Offs = {}
  /\ None \notin Pulses \cup Offs
  /\ BeatBound \in Nat

VARIABLES
  beat,        \* value of the data point clock.beat
  generation,  \* _beat_pulse_generation
  offTask,     \* _beat_off_task
  holder,      \* the pulse that awaits an off task inside _beat_publish_lock
  queue,       \* the tasks awaiting _beat_publish_lock, in order
  pulsePc,     \* of each pulse: where it awaits
  pulseGen,    \* its generation
  awaited,     \* of each task in _cancel_beat_off(): the off task it awaits
  offPc,       \* of each off task: where it awaits
  offGen,      \* its generation argument
  stopPc,      \* MasterClockGenerator.stop(): where it awaits
  beats,       \* beats so far
  upsets       \* history: the mishaps so far

lockVars  == <<holder, queue>>
pulseVars == <<pulsePc, pulseGen>>
offVars   == <<offPc, offGen>>
vars == <<beat, generation, offTask, lockVars, pulseVars, awaited, offVars, stopPc,
          beats, upsets>>

\* collided: a beat met the unfinished flash of the one before; overtaken: a beat
\* wrote its 1.0 after a newer beat had begun; merged: an off task was cancelled
\* twice before it ran again
Upsets == {"collided", "overtaken", "merged"}

TypeOK ==
  /\ beat \in {0, 1}
  /\ generation \in 0 .. beats
  /\ offTask \in Offs \cup {None}
  /\ holder \in Pulses \cup {None}
  /\ queue \in Seq(Pulses \cup Offs)
  /\ pulsePc \in [Pulses -> {"idle", "wantLock", "cancelling", "cleared", "lit", "wantSchedule"}]
  /\ pulseGen \in [Pulses -> 0 .. BeatBound]
  /\ awaited \in [Pulses \cup {"stop"} -> Offs \cup {None}]
  /\ offPc \in [Offs -> {"dead", "created", "sleep", "wantCheck", "written", "ending", "wantEnd"}]
  /\ offGen \in [Offs -> 0 .. BeatBound]
  /\ stopPc \in {"no", "cancelling", "done"}
  /\ beats \in 0 .. BeatBound
  /\ upsets \subseteq Upsets

Init ==
  /\ beat = 0 /\ generation = 0 /\ offTask = None
  /\ holder = None /\ queue = <<>>
  /\ pulsePc = [p \in Pulses |-> "idle"]
  /\ pulseGen = [p \in Pulses |-> 0]
  /\ awaited = [t \in Pulses \cup {"stop"} |-> None]
  /\ offPc = [o \in Offs |-> "dead"]
  /\ offGen = [o \in Offs |-> 0]
  /\ stopPc = "no" /\ beats = 0 /\ upsets = {}

-----------------------------------------------------------------------------
(* Tasks and the lock. *)

Live == {o \in Offs : offPc[o] # "dead"}

\* identities for a new off task
Fresh == {o \in Offs \ {offTask} : /\ offPc[o] = "dead"
                                   /\ \A t \in DOMAIN awaited : awaited[t] # o}

\* t comes to `async with self._beat_publish_lock`
Enqueue(t) == queue' = Append(queue, t)

\* t is let in: the lock is free and t waited the longest
Granted(t) == holder = None /\ queue # <<>> /\ Head(queue) = t

\* q without o: a task awaits the lock once at most
Without(q, o) ==
  IF \E i \in 1 .. Len(q) : q[i] = o
  THEN LET i == CHOOSE i \in 1 .. Len(q) : q[i] = o
       IN  SubSeq(q, 1, i - 1) \o SubSeq(q, i + 1, Len(q))
  ELSE q

\* task.cancel(), when q are the tasks that go on waiting for the lock.  Before
\* its first step the task just ends.  From its try block it goes to the finally
\* clause; a second cancel before it gets there adds nothing.  Cancelled while it
\* waits for the lock there, it ends.
Cancel(o, q) ==
  /\ queue' = Without(q, o)
  /\ offPc' = [offPc EXCEPT ![o] =
                 IF @ \in {"sleep", "wantCheck", "written", "ending"} THEN "ending" ELSE "dead"]

Merged(o) == IF offPc[o] = "ending" THEN {"merged"} ELSE {}

-----------------------------------------------------------------------------
(* publish_beat(). *)

\* the transport thread submits publish_beat(); it asks for the lock
Beat(p) ==
  /\ beats < BeatBound /\ beats' = beats + 1
  /\ pulsePc[p] = "idle"
  /\ pulsePc' = [pulsePc EXCEPT ![p] = "wantLock"]
  /\ Enqueue(p)
  /\ UNCHANGED <<beat, generation, offTask, holder, pulseGen, awaited, offVars,
                 stopPc, upsets>>

\* slip: the generation is read before it is counted up
OldGeneration(p) ==
  /\ generation' = generation + 1
  /\ pulseGen' = [pulseGen EXCEPT ![p] = generation]
  /\ pulsePc' = [pulsePc EXCEPT ![p] = IF beat = 1 THEN "cleared" ELSE "lit"]
  /\ beat' = 1 - beat
  /\ holder' = None

\* slip: a beat that has to write 0.0 first is counted as two
CountedTwice(p) ==
  /\ generation' = generation + 1 + beat
  /\ pulseGen' = [pulseGen EXCEPT ![p] = generation + 1 + beat]
  /\ pulsePc' = [pulsePc EXCEPT ![p] = IF beat = 1 THEN "cleared" ELSE "lit"]
  /\ beat' = 1 - beat
  /\ holder' = None

\* A new generation; the lock is released, and clock.beat is written: 1.0, or
\* 0.0 first when it still is 1.0.
NewGeneration(p) ==
  /\ generation' = generation + 1
  /\ pulseGen' = [pulseGen EXCEPT ![p] = generation + 1]
  /\ pulsePc' = [pulsePc EXCEPT ![p] = IF beat = 1 THEN "cleared" ELSE "lit"]
  /\ beat' = 1 - beat
  /\ holder' = None

\* let in, with no flash to cancel
PulseEnters(p) ==
  /\ pulsePc[p] = "wantLock" /\ Granted(p)
  /\ offTask = None
  /\ NewGeneration(p)
  /\ queue' = Tail(queue)
  /\ UNCHANGED <<offTask, awaited, offVars, stopPc, beats, upsets>>

\* let in while a flash is under way: cancel it and, inside the lock, await its end
PulseCancels(p) ==
  /\ pulsePc[p] = "wantLock" /\ Granted(p)
  /\ offTask # None
  /\ holder' = p
  /\ pulsePc' = [pulsePc EXCEPT ![p] = "cancelling"]
  /\ awaited' = [awaited EXCEPT ![p] = offTask]
  /\ Cancel(offTask, Tail(queue))
  /\ upsets' = upsets \cup Merged(offTask)
                       \cup IF offPc'[offTask] = "dead" THEN {} ELSE {"collided"}
  /\ UNCHANGED <<beat, generation, offTask, pulseGen, offGen, stopPc, beats>>

PulseCancelled(p) ==
  /\ pulsePc[p] = "cancelling" /\ offPc[awaited[p]] = "dead"
  /\ offTask' = None
  /\ awaited' = [awaited EXCEPT ![p] = None]
  /\ NewGeneration(p)
  /\ UNCHANGED <<queue, offVars, stopPc, beats, upsets>>

\* the subscribers have had the 0.0
Light(p) ==
  /\ pulsePc[p] = "cleared"
  /\ beat' = 1
  /\ pulsePc' = [pulsePc EXCEPT ![p] = "lit"]
  /\ upsets' = IF pulseGen[p] = generation THEN upsets ELSE upsets \cup {"overtaken"}
  /\ UNCHANGED <<generation, offTask, lockVars, pulseGen, awaited, offVars, stopPc, beats>>

\* the subscribers have had the 1.0
Lit(p) ==
  /\ pulsePc[p] = "lit"
  /\ pulsePc' = [pulsePc EXCEPT ![p] = "wantSchedule"]
  /\ Enqueue(p)
  /\ UNCHANGED <<beat, generation, offTask, holder, pulseGen, awaited, offVars,
                 stopPc, beats, upsets>>

\* slip: also the pulse that a newer one has overtaken leaves an off task
ScheduleAlways(p) ==
  /\ pulsePc[p] = "wantSchedule" /\ Granted(p)
  /\ queue' = Tail(queue)
  /\ pulsePc' = [pulsePc EXCEPT ![p] = "idle"]
  /\ \E o \in Fresh :
       /\ offTask' = o
       /\ offPc' = [offPc EXCEPT ![o] = "created"]
       /\ offGen' = [offGen EXCEPT ![o] = pulseGen[p]]
  /\ UNCHANGED <<beat, generation, holder, pulseGen, awaited, stopPc, beats, upsets>>

\* the last pulse creates the task that ends its flash
Schedule(p) ==
  /\ pulsePc[p] = "wantSchedule" /\ Granted(p)
  /\ queue' = Tail(queue)
  /\ pulsePc' = [pulsePc EXCEPT ![p] = "idle"]
  /\ \/ /\ pulseGen[p] # generation
        /\ UNCHANGED <<offTask, offVars>>
     \/ /\ pulseGen[p] = generation
        /\ \E o \in Fresh :
             /\ offTask' = o
             /\ offPc' = [offPc EXCEPT ![o] = "created"]
             /\ offGen' = [offGen EXCEPT ![o] = generation]
  /\ UNCHANGED <<beat, generation, holder, pulseGen, awaited, stopPc, beats, upsets>>

PulseStep(p) ==
  \/ PulseEnters(p) \/ PulseCancels(p) \/ PulseCancelled(p)
  \/ Light(p) \/ Lit(p) \/ Schedule(p)

-----------------------------------------------------------------------------
(* _clear_beat_flash(). *)

\* o leaves one await and comes to the next, asking for no lock
OffGoes(o, from, to) ==
  /\ offPc[o] = from
  /\ offPc' = [offPc EXCEPT ![o] = to]
  /\ UNCHANGED <<beat, generation, offTask, lockVars, pulseVars, awaited, offGen, stopPc,
                 beats, upsets>>

\* o leaves one await and asks for the lock
OffAsks(o, from, to) ==
  /\ offPc[o] = from
  /\ offPc' = [offPc EXCEPT ![o] = to]
  /\ Enqueue(o)
  /\ UNCHANGED <<beat, generation, offTask, holder, pulseVars, awaited, offGen, stopPc,
                 beats, upsets>>

OffStarts(o) == OffGoes(o, "created", "sleep")
OffWakes(o)  == OffAsks(o, "sleep", "wantCheck")

\* slip: the off task writes without looking at the generation
CheckNothing(o) ==
  /\ offPc[o] = "wantCheck" /\ Granted(o)
  /\ queue' = Tail(queue)
  /\ beat' = 0
  /\ offPc' = [offPc EXCEPT ![o] = "written"]
  /\ UNCHANGED <<generation, offTask, holder, pulseVars, awaited, offGen, stopPc,
                 beats, upsets>>

\* only the generation it was made for may be returned to 0.0
Check(o) ==
  /\ offPc[o] = "wantCheck" /\ Granted(o)
  /\ \/ /\ offGen[o] # generation
        /\ offPc' = [offPc EXCEPT ![o] = "wantEnd"]
        /\ queue' = Append(Tail(queue), o)
        /\ UNCHANGED beat
     \/ /\ offGen[o] = generation
        /\ queue' = Tail(queue)
        /\ offPc' = [offPc EXCEPT ![o] = "written"]
        /\ beat' = 0
  /\ UNCHANGED <<generation, offTask, holder, pulseVars, awaited, offGen, stopPc,
                 beats, upsets>>

\* the subscribers have had the 0.0, or were cut off: the finally clause
OffWritten(o) == OffAsks(o, "written", "wantEnd")
OffEnding(o)  == OffAsks(o, "ending", "wantEnd")

OffEnds(o) ==
  /\ offPc[o] = "wantEnd" /\ Granted(o)
  /\ queue' = Tail(queue)
  /\ offPc' = [offPc EXCEPT ![o] = "dead"]
  /\ offTask' = IF offTask = o THEN None ELSE offTask
  /\ UNCHANGED <<beat, generation, holder, pulseVars, awaited, offGen, stopPc, beats,
                 upsets>>

OffStep(o) ==
  \/ OffStarts(o) \/ OffWakes(o) \/ Check(o)
  \/ OffWritten(o) \/ OffEnding(o) \/ OffEnds(o)

-----------------------------------------------------------------------------
(* MasterClockGenerator.stop(): it cancels the flash without the lock. *)

StopAtOnce ==
  /\ stopPc = "no" /\ offTask = None
  /\ beat' = 0
  /\ stopPc' = "done"
  /\ UNCHANGED <<generation, offTask, lockVars, pulseVars, awaited, offVars, beats, upsets>>

\* slip: stop() awaits the flash without cancelling it
StopAwaits ==
  /\ stopPc = "no" /\ offTask # None
  /\ awaited' = [awaited EXCEPT !["stop"] = offTask]
  /\ stopPc' = "cancelling"
  /\ UNCHANGED <<beat, generation, offTask, lockVars, pulseVars, offVars, beats, upsets>>

StopCancels ==
  /\ stopPc = "no" /\ offTask # None
  /\ Cancel(offTask, queue)
  /\ awaited' = [awaited EXCEPT !["stop"] = offTask]
  /\ stopPc' = "cancelling"
  /\ upsets' = upsets \cup Merged(offTask)
  /\ UNCHANGED <<beat, generation, offTask, holder, pulseVars, offGen, beats>>

\* slip: stop() neither awaits the off task nor writes the 0.0 itself
StopForgets ==
  /\ stopPc = "cancelling" /\ offPc[awaited["stop"]] = "dead"
  /\ offTask' = None
  /\ awaited' = [awaited EXCEPT !["stop"] = None]
  /\ stopPc' = "done"
  /\ UNCHANGED <<beat, generation, lockVars, pulseVars, offVars, beats, upsets>>

\* whichever task _beat_off_task refers to by now
StopCancelled ==
  /\ stopPc = "cancelling" /\ offPc[awaited["stop"]] = "dead"
  /\ offTask' = None
  /\ awaited' = [awaited EXCEPT !["stop"] = None]
  /\ beat' = 0
  /\ stopPc' = "done"
  /\ UNCHANGED <<generation, lockVars, pulseVars, offVars, beats, upsets>>

Next ==
  \/ \E p \in Pulses : Beat(p) \/ PulseStep(p)
  \/ \E o \in Offs : OffStep(o)
  \/ StopAtOnce \/ StopCancels \/ StopCancelled

Spec == Init /\ [][Next]_vars

\* The event loop runs every task that can go on, and a flash has an end.
FairSpec ==
  /\ Spec
  /\ \A p \in Pulses : WF_vars(PulseStep(p))
  /\ \A o \in Offs : WF_vars(OffStep(o))
  /\ WF_vars(StopCancelled)

-----------------------------------------------------------------------------
(* Properties. *)

\* Until stop(), which may lose sight of a task, at most one task is about to
\* return clock.beat to 0.0: beats that overlap do not leave one each.
SoleOffTask ==
  stopPc = "no" => \A o, q \in Live : o = q

\* p publishes the latest beat: its 1.0, or the 0.0 before that, is on its way to
\* the subscribers, or it has yet to leave an off task
Newest(p) ==
  /\ pulsePc[p] \in {"cleared", "lit", "wantSchedule"}
  /\ pulseGen[p] = generation

\* No off task cuts a flash short: while the latest beat is still being published
\* none returns clock.beat to 0.0, not even one of an earlier beat that stop() has
\* forgotten.
StaleOffNeverClears ==
  [][(\E o \in Offs : offPc[o] = "wantCheck" /\ offPc'[o] = "written")
       => \A p \in Pulses : ~Newest(p)]_vars

\* A lit beat is about to be ended, unless it was overtaken: by the latest beat,
\* which will leave an off task, by a beat that cancels the flash, by the task
\* _beat_off_task refers to or, once stop() has run, by one it has forgotten, or by
\* stop() itself.
LitBeatHasAnEnd ==
  beat = 1 /\ "overtaken" \notin upsets =>
    \/ \E p \in Pulses : Newest(p) \/ pulsePc[p] = "cancelling"
    \/ \E o \in Live : /\ offGen[o] = generation
                       /\ offPc[o] \in {"created", "sleep", "wantCheck"}
                       /\ stopPc = "no" => offTask = o
    \/ stopPc = "cancelling"

\* Unless beats collide or overtake each other, each flash ends: clock.beat
\* returns to 0.0.
FlashEnds == [](upsets = {}) => (beat = 1 ~> beat = 0)

\* stop() comes to its end, also when a beat waits for ever inside the lock:
\* stop() cancels the task a second time, which ends it.  Only when the two
\* cancels fall together do both await it for ever.
StopCompletes ==
  []("merged" \notin upsets) => (stopPc # "no" ~> stopPc = "done")

\* docs/master_clock.md: clock.beat pulses to 1.0 on each beat and returns to 0.0
\* after the flash.  A beat that meets an unfinished flash awaits, inside the
\* lock, a task that needs the lock to end: no beat is published again.
EachFlashEnds == beat = 1 ~> beat = 0
=============================================================================
