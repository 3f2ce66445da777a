-------------------------- MODULE BeatFlashProofs ---------------------------
(***************************************************************************)
(* Proofs about BeatFlash, for any number of overlapping beats and of off  *)
(* tasks: one off task at most until stop(), no off task cuts the latest   *)
(* flash short, a lit beat that was not overtaken is about to be ended,    *)
(* and each beat becomes one generation (with that, type correctness).     *)
(***************************************************************************)
EXTENDS BeatFlash, FiniteSetTheorems, SequenceTheorems, TLAPS

\* What the proofs need of the types.
Typed ==
  /\ beat \in {0, 1}
  /\ generation \in Nat
  /\ offTask \in Offs \cup {None}
  /\ holder \in Pulses \cup {None}
  /\ pulsePc \in [Pulses -> {"idle", "wantLock", "cancelling", "cleared", "lit", "wantSchedule"}]
  /\ pulseGen \in [Pulses -> Nat]
  /\ awaited \in [Pulses \cup {"stop"} -> Offs \cup {None}]
  /\ offPc \in [Offs -> {"dead", "created", "sleep", "wantCheck", "written", "ending", "wantEnd"}]
  /\ offGen \in [Offs -> Nat]
  /\ stopPc \in {"no", "cancelling", "done"}

\* The lock is kept across an await by the pulse that awaits an off task.
HolderCancels == \A p \in Pulses : pulsePc[p] = "cancelling" <=> holder = p

\* No pulse and no off task is of a generation to come.
PastGenerations ==
  /\ \A p \in Pulses : pulseGen[p] <= generation
  /\ \A o \in Offs : offGen[o] <= generation

\* One pulse at most is of the latest generation, and it has left no off task yet.
NewestIsAlone ==
  \A p \in Pulses : Newest(p) =>
    /\ \A q \in Pulses : Newest(q) => p = q
    /\ \A o \in Live : offGen[o] # generation

\* Until stop() the module does not lose sight of an off task: the one it refers to
\* is the only one alive, the latest pulse finds none, and the pulse inside the lock
\* awaits it.
OffTaskIsKnown ==
  stopPc = "no" =>
    /\ \A o \in Live : o = offTask
    /\ \A p \in Pulses : Newest(p) => Live = {}
    /\ \A p \in Pulses : holder = p => awaited[p] = offTask

\* The inductive invariant.
Inv ==
  Typed /\ HolderCancels /\ PastGenerations /\ NewestIsAlone /\ OffTaskIsKnown
        /\ LitBeatHasAnEnd

USE DEF Live

-----------------------------------------------------------------------------
(* The helpers. *)

\* Cancelling an off task makes none alive, and leaves the others where they are.
LEMMA CancelledLive ==
  ASSUME Typed, NEW o \in Offs, NEW q, Cancel(o, q)
  PROVE  /\ offPc' \in [Offs -> {"dead", "created", "sleep", "wantCheck", "written",
                                 "ending", "wantEnd"}]
         /\ Live' \subseteq Live
  BY DEF Typed, Cancel

\* Cancelling an off task never makes one write.
LEMMA CancelledStays ==
  ASSUME Typed, NEW o \in Offs \cup {None}, NEW q, Cancel(o, q), NEW u \in Offs,
         offPc[u] # "written"
  PROVE  offPc'[u] # "written"
  BY DEF Typed, Cancel

\* A pulse that finds no living off task begins a new generation.
LEMMA NewGenerationKeepsInv ==
  ASSUME Inv, NEW p \in Pulses, NewGeneration(p),
         pulsePc[p] \in {"wantLock", "cancelling"}, holder \in {None, p},
         stopPc = "no" => Live = {},
         offTask' \in {offTask, None}, awaited' \in {awaited, [awaited EXCEPT ![p] = None]},
         UNCHANGED <<offVars, stopPc, upsets>>
  PROVE  Inv'
<1> USE BeatAssumption DEF Inv, Typed, NewGeneration, offVars
<1>1. Typed'
  OBVIOUS
<1>2. HolderCancels'
  BY DEF HolderCancels
<1>3. PastGenerations'
  BY DEF PastGenerations
<1>4. Newest(p)' /\ \A q \in Pulses : Newest(q)' => q = p
  BY DEF Newest, PastGenerations
<1>5. NewestIsAlone'
  BY <1>4 DEF NewestIsAlone, PastGenerations
<1>6. OffTaskIsKnown'
  BY DEF OffTaskIsKnown
<1>7. LitBeatHasAnEnd'
  BY <1>4 DEF LitBeatHasAnEnd
<1>8. QED BY <1>1, <1>2, <1>3, <1>5, <1>6, <1>7

\* Steps that only move a pulse along, or let one ask for the lock, keep it the
\* latest or not.
LEMMA PulseMovesKeepsInv ==
  ASSUME Inv, NEW p \in Pulses,
         NEW pc \in {"wantLock", "lit", "wantSchedule"},
         pulsePc' = [pulsePc EXCEPT ![p] = pc],
         \/ pulsePc[p] = "idle" /\ pc = "wantLock"
         \/ pulsePc[p] \in {"cleared", "lit"} /\ pc # "wantLock",
         beat' \in {0, 1},
         beat' = beat \/ Newest(p) \/ "overtaken" \in upsets',
         upsets \subseteq upsets',
         UNCHANGED <<generation, offTask, holder, pulseGen, awaited, offVars, stopPc>>
  PROVE  Inv'
<1> USE BeatAssumption DEF Inv, Typed, offVars
<1>1. Typed' /\ HolderCancels' /\ PastGenerations'
  BY DEF HolderCancels, PastGenerations
<1>2. \A q \in Pulses : Newest(q)' <=> Newest(q)
  BY DEF Newest
<1>3. NewestIsAlone' /\ OffTaskIsKnown'
  BY <1>2 DEF NewestIsAlone, OffTaskIsKnown
<1>4. LitBeatHasAnEnd'
  BY <1>2 DEF LitBeatHasAnEnd
<1>5. QED BY <1>1, <1>3, <1>4

-----------------------------------------------------------------------------
(* The beats. *)

LEMMA BeatKeepsInv ==
  ASSUME Inv, NEW p \in Pulses, Beat(p)
  PROVE  Inv'
<1>1. beat' \in {0, 1} /\ beat' = beat
  BY DEF Inv, Typed, Beat
<1>2. QED
  BY <1>1, PulseMovesKeepsInv DEF Beat, offVars

\* The pulse that cancels a flash has it to itself until the flash has ended.
LEMMA PulseCancelsKeepsInv ==
  ASSUME Inv, NEW p \in Pulses, PulseCancels(p)
  PROVE  Inv'
<1> USE BeatAssumption DEF Inv, Typed, PulseCancels, Granted
<1>1. /\ offPc' \in [Offs -> {"dead", "created", "sleep", "wantCheck", "written",
                              "ending", "wantEnd"}]
      /\ Live' \subseteq Live
  BY CancelledLive
<1>2. Typed' /\ HolderCancels' /\ PastGenerations'
  BY <1>1 DEF HolderCancels, PastGenerations
<1>3. \A q \in Pulses : Newest(q)' => Newest(q)
  BY DEF Newest
<1>4. NewestIsAlone'
  BY <1>1, <1>3 DEF NewestIsAlone
<1>5. OffTaskIsKnown'
  BY <1>1, <1>3 DEF OffTaskIsKnown
<1>6. LitBeatHasAnEnd'
  BY DEF LitBeatHasAnEnd
<1>7. QED BY <1>2, <1>4, <1>5, <1>6

LEMMA ScheduleKeepsInv ==
  ASSUME Inv, NEW p \in Pulses, Schedule(p)
  PROVE  Inv'
<1> USE BeatAssumption DEF Inv, Typed
<1>1. CASE pulseGen[p] # generation
  <2>1. \A q \in Pulses : Newest(q)' <=> Newest(q)
    BY <1>1 DEF Schedule, Newest
  <2>2. UNCHANGED <<beat, generation, offTask, holder, pulseGen, awaited, offPc, offGen,
                    stopPc, upsets>>
    BY <1>1 DEF Schedule, offVars
  <2>3. Typed' /\ HolderCancels' /\ PastGenerations'
    BY <2>2 DEF HolderCancels, PastGenerations, Schedule
  <2>4. NewestIsAlone' /\ OffTaskIsKnown'
    BY <2>1, <2>2 DEF NewestIsAlone, OffTaskIsKnown
  <2>5. LitBeatHasAnEnd'
    <3>1. \A q \in Pulses : pulsePc[q] = "cancelling" => pulsePc'[q] = "cancelling"
      BY DEF Schedule
    <3>2. QED BY <2>1, <2>2, <3>1 DEF LitBeatHasAnEnd
  <2>6. QED BY <2>3, <2>4, <2>5
<1>2. CASE pulseGen[p] = generation
  <2>1. Newest(p)
    BY <1>2 DEF Schedule, Newest
  <2>2. PICK o \in Fresh : /\ offTask' = o
                           /\ offPc' = [offPc EXCEPT ![o] = "created"]
                           /\ offGen' = [offGen EXCEPT ![o] = generation]
    BY <1>2 DEF Schedule
  <2>3. o \in Offs
    BY DEF Fresh
  <2>4. /\ pulsePc' = [pulsePc EXCEPT ![p] = "idle"]
        /\ UNCHANGED <<beat, generation, holder, pulseGen, awaited, stopPc, upsets>>
    BY DEF Schedule
  <2>5. Typed' /\ HolderCancels' /\ PastGenerations'
    BY <2>2, <2>3, <2>4 DEF HolderCancels, PastGenerations, Schedule
  <2>6. \A q \in Pulses : ~Newest(q)'
    BY <2>1, <2>4 DEF Newest, NewestIsAlone
  <2>7. NewestIsAlone'
    BY <2>6 DEF NewestIsAlone
  <2>8. OffTaskIsKnown'
    <3>1. stopPc = "no" => Live' = {o}
      BY <2>1, <2>2, <2>3 DEF OffTaskIsKnown
    <3>2. stopPc = "no" => \A q \in Pulses : holder # q
      BY <2>4 DEF Schedule, Granted
    <3>3. QED BY <2>2, <2>4, <2>6, <3>1, <3>2 DEF OffTaskIsKnown
  <2>9. LitBeatHasAnEnd'
    BY <2>2, <2>3, <2>4 DEF LitBeatHasAnEnd
  <2>10. QED BY <2>5, <2>7, <2>8, <2>9
<1>3. QED BY <1>1, <1>2

LEMMA PulseStepKeepsInv ==
  ASSUME Inv, NEW p \in Pulses, PulseStep(p)
  PROVE  Inv'
<1> USE DEF Inv, Typed
<1>1. CASE PulseEnters(p)
  <2>1. stopPc = "no" => Live = {}
    BY <1>1, BeatAssumption DEF OffTaskIsKnown, PulseEnters
  <2>2. QED
    BY <1>1, <2>1, NewGenerationKeepsInv DEF PulseEnters, Granted
<1>2. CASE PulseCancels(p)
  BY <1>2, PulseCancelsKeepsInv
<1>3. CASE PulseCancelled(p)
  <2>1. holder = p
    BY <1>3 DEF PulseCancelled, HolderCancels
  <2>2. stopPc = "no" => Live = {}
    BY <1>3, <2>1 DEF OffTaskIsKnown, PulseCancelled
  <2>3. QED
    BY <1>3, <2>1, <2>2, NewGenerationKeepsInv DEF PulseCancelled
<1>4. CASE Light(p)
  <2>1. Newest(p) \/ "overtaken" \in upsets'
    BY <1>4 DEF Light, Newest
  <2>2. QED
    BY <1>4, <2>1, PulseMovesKeepsInv DEF Light, lockVars
<1>5. CASE Lit(p)
  BY <1>5, PulseMovesKeepsInv DEF Lit
<1>6. CASE Schedule(p)
  BY <1>6, ScheduleKeepsInv
<1>7. QED
  BY <1>1, <1>2, <1>3, <1>4, <1>5, <1>6 DEF PulseStep

-----------------------------------------------------------------------------
(* The off tasks and stop(). *)

\* An off task that lives on for the latest generation still has the flash to end.
LEMMA OffMovesKeepsInv ==
  ASSUME Inv, NEW o \in Offs,
         NEW pc \in {"sleep", "wantCheck", "written", "wantEnd"},
         offPc[o] # "dead",
         offPc' = [offPc EXCEPT ![o] = pc],
         beat' = 0 \/ (beat' = beat /\ pc \in {"sleep", "wantCheck"})
                  \/ (beat' = beat /\ (\/ offPc[o] \in {"written", "ending"}
                                       \/ offGen[o] # generation)),
         UNCHANGED <<generation, offTask, holder, pulseVars, awaited, offGen, stopPc, upsets>>
  PROVE  Inv'
<1> USE BeatAssumption DEF Inv, Typed, pulseVars
<1>1. Typed' /\ HolderCancels' /\ PastGenerations' /\ Live' = Live
  BY DEF HolderCancels, PastGenerations
<1>2. \A q \in Pulses : Newest(q)' <=> Newest(q)
  BY DEF Newest
<1>3. NewestIsAlone' /\ OffTaskIsKnown'
  BY <1>1, <1>2 DEF NewestIsAlone, OffTaskIsKnown
<1>4. LitBeatHasAnEnd'
  BY <1>2 DEF LitBeatHasAnEnd
<1>5. QED BY <1>1, <1>3, <1>4

LEMMA OffEndsKeepsInv ==
  ASSUME Inv, NEW o \in Offs, OffEnds(o)
  PROVE  Inv'
<1> USE BeatAssumption DEF Inv, Typed, OffEnds, pulseVars
<1>1. Typed' /\ HolderCancels' /\ PastGenerations'
  BY DEF HolderCancels, PastGenerations
<1>2. Live' = Live \ {o} /\ \A q \in Pulses : Newest(q)' <=> Newest(q)
  BY DEF Newest
<1>3. NewestIsAlone'
  BY <1>2 DEF NewestIsAlone
<1>4. OffTaskIsKnown'
  BY <1>2 DEF OffTaskIsKnown, Granted
<1>5. LitBeatHasAnEnd'
  BY <1>2 DEF LitBeatHasAnEnd
<1>6. QED BY <1>1, <1>3, <1>4, <1>5

LEMMA OffStepKeepsInv ==
  ASSUME Inv, NEW o \in Offs, OffStep(o)
  PROVE  Inv'
<1> USE DEF Inv, Typed, lockVars
<1>1. CASE OffStarts(o)
  BY <1>1, OffMovesKeepsInv DEF OffStarts, OffGoes
<1>2. CASE OffWakes(o)
  BY <1>2, OffMovesKeepsInv DEF OffWakes, OffAsks
<1>3. CASE Check(o)
  BY <1>3, OffMovesKeepsInv DEF Check
<1>4. CASE OffWritten(o)
  BY <1>4, OffMovesKeepsInv DEF OffWritten, OffAsks
<1>5. CASE OffEnding(o)
  BY <1>5, OffMovesKeepsInv DEF OffEnding, OffAsks
<1>6. CASE OffEnds(o)
  BY <1>6, OffEndsKeepsInv
<1>7. QED
  BY <1>1, <1>2, <1>3, <1>4, <1>5, <1>6 DEF OffStep

\* stop() gives up what is known of the off task, and ends the flash itself.
LEMMA StopKeepsInv ==
  ASSUME Inv, StopAtOnce \/ StopCancels \/ StopCancelled
  PROVE  Inv'
<1> USE BeatAssumption DEF Inv, Typed, pulseVars, offVars, lockVars
<1>1. UNCHANGED <<generation, holder, pulsePc, pulseGen, offGen>> /\ stopPc' # "no"
  BY DEF StopAtOnce, StopCancels, StopCancelled
<1>2. Typed' /\ Live' \subseteq Live
  BY CancelledLive DEF StopAtOnce, StopCancels, StopCancelled
<1>3. \A q \in Pulses : Newest(q)' <=> Newest(q)
  BY <1>1 DEF Newest
<1>4. HolderCancels' /\ PastGenerations' /\ NewestIsAlone'
  BY <1>1, <1>2, <1>3 DEF HolderCancels, PastGenerations, NewestIsAlone
<1>5. OffTaskIsKnown'
  BY <1>1 DEF OffTaskIsKnown
<1>6. LitBeatHasAnEnd'
  BY DEF LitBeatHasAnEnd, StopAtOnce, StopCancels, StopCancelled
<1>7. QED BY <1>2, <1>4, <1>5, <1>6

-----------------------------------------------------------------------------
(* The theorems. *)

\* What is known of pulses and off tasks holds throughout.
THEOREM FlashInvariant == Spec => []Inv
<1>1. Init => Inv
  <2> USE BeatAssumption DEF Init
  <2>1. Init => Typed /\ HolderCancels /\ PastGenerations
    BY DEF Typed, HolderCancels, PastGenerations
  <2>2. Init => NewestIsAlone /\ OffTaskIsKnown /\ LitBeatHasAnEnd
    BY DEF NewestIsAlone, OffTaskIsKnown, LitBeatHasAnEnd, Newest
  <2>3. QED BY <2>1, <2>2 DEF Inv
<1>2. Inv /\ [Next]_vars => Inv'
  <2> SUFFICES ASSUME Inv, [Next]_vars PROVE Inv'
    OBVIOUS
  <2>1. CASE UNCHANGED vars
    BY <2>1 DEF vars, lockVars, pulseVars, offVars, Inv, Typed, HolderCancels,
       PastGenerations, NewestIsAlone, OffTaskIsKnown, LitBeatHasAnEnd, Newest
  <2>2. CASE Next
    BY <2>2, BeatKeepsInv, PulseStepKeepsInv, OffStepKeepsInv, StopKeepsInv DEF Next
  <2>3. QED BY <2>1, <2>2
<1>3. QED
  BY <1>1, <1>2, PTL DEF Spec

\* Until stop(), however many beats overlap, at most one task is about to return
\* clock.beat to 0.0.
THEOREM SoleOffTaskHolds == Spec => []SoleOffTask
<1>1. Inv => SoleOffTask
  BY DEF Inv, OffTaskIsKnown, SoleOffTask
<1>2. QED BY <1>1, FlashInvariant, PTL

\* A lit beat that was not overtaken is about to be ended, whatever cancels what.
THEOREM LitBeatHasAnEndHolds == Spec => []LitBeatHasAnEnd
<1>1. Inv => LitBeatHasAnEnd
  BY DEF Inv
<1>2. QED BY <1>1, FlashInvariant, PTL

\* No off task, forgotten ones included, ends a flash that is still being published.
THEOREM StaleOffNeverClearsHolds == Spec => StaleOffNeverClears
<1> DEFINE Clears == \E o \in Offs : offPc[o] = "wantCheck" /\ offPc'[o] = "written"
<1>1. ASSUME Inv, [Next]_vars, Clears
      PROVE  \A p \in Pulses : ~Newest(p)
  <2>1. PICK o \in Offs : offPc[o] = "wantCheck" /\ offPc'[o] = "written"
    BY <1>1
  <2>2. offGen[o] = generation
    <3> USE <1>1, <2>1 DEF Inv, Typed
    <3>1. CASE UNCHANGED vars
      BY <3>1 DEF vars, offVars
    <3>2. CASE \E p \in Pulses : Beat(p) \/ PulseStep(p)
      <4>1. PICK p \in Pulses : Beat(p) \/ PulseStep(p)
        BY <3>2
      <4>2. CASE PulseCancels(p)
        BY <4>2, CancelledStays DEF PulseCancels
      <4>3. CASE Schedule(p)
        BY <4>3 DEF Schedule, Fresh, offVars
      <4>4. CASE UNCHANGED offVars
        BY <4>4 DEF offVars
      <4>5. QED
        BY <4>1, <4>2, <4>3, <4>4 DEF Beat, PulseStep, PulseEnters, PulseCancelled,
           Light, Lit
    <3>3. CASE \E q \in Offs : OffStep(q)
      BY <3>3 DEF OffStep, OffStarts, OffWakes, OffGoes, OffAsks, Check, OffWritten,
         OffEnding, OffEnds
    <3>4. CASE StopAtOnce \/ StopCancels \/ StopCancelled
      BY <3>4, CancelledStays DEF StopAtOnce, StopCancels, StopCancelled, offVars
    <3>5. QED BY <3>1, <3>2, <3>3, <3>4 DEF Next
  <2>3. QED BY <1>1, <2>1, <2>2 DEF Inv, NewestIsAlone
<1>2. Inv /\ [Next]_vars => [Clears => \A p \in Pulses : ~Newest(p)]_vars
  BY <1>1
<1>3. QED
  BY <1>2, FlashInvariant, PTL DEF Spec, StaleOffNeverClears

-----------------------------------------------------------------------------
(* Type correctness: no generation that was not a beat.                    *)

Waiters == Pulses \cup Offs

LEMMA WithoutType ==
  ASSUME NEW q \in Seq(Waiters), NEW o
  PROVE  Without(q, o) \in Seq(Waiters)
<1>1. CASE \E i \in 1 .. Len(q) : q[i] = o
  <2> DEFINE i == CHOOSE i \in 1 .. Len(q) : q[i] = o
  <2>1. i \in 1 .. Len(q)
    BY <1>1
  <2>2. Without(q, o) = SubSeq(q, 1, i - 1) \o SubSeq(q, i + 1, Len(q))
    BY <1>1 DEF Without
  <2> HIDE DEF i
  <2>3. /\ Len(q) \in Nat /\ i - 1 \in Int /\ i + 1 \in Int /\ 1 \in Int
        /\ \A j \in 1 .. i - 1 : j \in 1 .. Len(q)
        /\ \A j \in i + 1 .. Len(q) : j \in 1 .. Len(q)
    BY <2>1, LenProperties
  <2>4. \A j \in 1 .. Len(q) : q[j] \in Waiters
    BY ElementOfSeq
  <2>5. SubSeq(q, 1, i - 1) \in Seq(Waiters) /\ SubSeq(q, i + 1, Len(q)) \in Seq(Waiters)
    BY <2>3, <2>4, SubSeqProperties
  <2>6. QED BY <2>2, <2>5, ConcatProperties
<1>2. CASE ~\E i \in 1 .. Len(q) : q[i] = o
  BY <1>2 DEF Without
<1>3. QED BY <1>1, <1>2

\* Who awaits the lock, and the bounds of the instance.
QueueTypes == queue \in Seq(Waiters) /\ beats \in 0 .. BeatBound /\ upsets \subseteq Upsets

\* Beats that were submitted and are not a generation yet.
Waiting == {p \in Pulses : pulsePc[p] \in {"wantLock", "cancelling"}}

EachBeatOnce == IsFiniteSet(Waiting) /\ generation + Cardinality(Waiting) = beats

LEMMA QueueTypesKept ==
  ASSUME Inv, QueueTypes, [Next]_vars
  PROVE  QueueTypes'
<1> USE BeatAssumption DEF QueueTypes, Inv, Typed, Upsets
<1>1. ASSUME queue # <<>> PROVE Tail(queue) \in Seq(Waiters)
  BY <1>1, HeadTailProperties
<1>2. ASSUME NEW t \in Waiters, NEW q \in Seq(Waiters) PROVE Append(q, t) \in Seq(Waiters)
  OBVIOUS
<1>3. CASE UNCHANGED vars
  BY <1>3 DEF vars, lockVars
<1>4. ASSUME NEW p \in Pulses, Beat(p) PROVE QueueTypes'
  BY <1>2, <1>4 DEF Beat, Enqueue, Waiters
<1>5. ASSUME NEW p \in Pulses, PulseStep(p) PROVE QueueTypes'
  <2>1. CASE PulseEnters(p) \/ Schedule(p)
    BY <1>1, <2>1 DEF PulseEnters, Schedule, Granted
  <2>2. CASE PulseCancels(p)
    <3>1. queue # <<>> /\ offTask \in Offs
      BY <2>2 DEF PulseCancels, Granted
    <3>2. queue' \in Seq(Waiters)
      BY <1>1, <2>2, <3>1, WithoutType DEF PulseCancels, Cancel
    <3>3. QED BY <2>2, <3>2 DEF PulseCancels, Merged
  <2>3. CASE PulseCancelled(p)
    BY <2>3 DEF PulseCancelled
  <2>4. CASE Light(p)
    BY <2>4 DEF Light, lockVars
  <2>5. CASE Lit(p)
    BY <1>2, <2>5 DEF Lit, Enqueue, Waiters
  <2>6. QED BY <1>5, <2>1, <2>2, <2>3, <2>4, <2>5 DEF PulseStep
<1>6. ASSUME NEW o \in Offs, OffStep(o) PROVE QueueTypes'
  <2>1. CASE OffStarts(o)
    BY <2>1 DEF OffStarts, OffGoes, lockVars
  <2>2. CASE OffWakes(o) \/ OffWritten(o) \/ OffEnding(o)
    <3>1. queue' = Append(queue, o) /\ o \in Waiters /\ UNCHANGED <<beats, upsets>>
      BY <2>2 DEF OffWakes, OffWritten, OffEnding, OffAsks, Enqueue, Waiters
    <3>2. QED BY <1>2, <3>1
  <2>3. CASE Check(o) \/ OffEnds(o)
    <3>1. Tail(queue) \in Seq(Waiters) /\ o \in Waiters
      BY <1>1, <2>3 DEF Check, OffEnds, Granted, Waiters
    <3>2. Append(Tail(queue), o) \in Seq(Waiters)
      BY <1>2, <3>1
    <3>3. QED BY <2>3, <3>1, <3>2 DEF Check, OffEnds
  <2>4. QED BY <1>6, <2>1, <2>2, <2>3 DEF OffStep
<1>7. CASE StopAtOnce \/ StopCancelled
  BY <1>7 DEF StopAtOnce, StopCancelled, lockVars
<1>8. CASE StopCancels
  BY <1>8, WithoutType DEF StopCancels, Cancel, Merged
<1>9. QED BY <1>3, <1>4, <1>5, <1>6, <1>7, <1>8 DEF Next

\* A beat becomes one generation, when it is let in or when the flash that it
\* cancelled has ended.
LEMMA EachBeatCounts ==
  ASSUME Inv, QueueTypes, EachBeatOnce, [Next]_vars
  PROVE  EachBeatOnce'
<1> USE DEF Inv, Typed, QueueTypes
<1>1. ASSUME NEW p \in Pulses, pulsePc[p] = "idle", Beat(p) PROVE EachBeatOnce'
  <2>1. Waiting' = Waiting \cup {p} /\ p \notin Waiting
    BY <1>1 DEF Waiting, Beat
  <2>2. IsFiniteSet(Waiting') /\ Cardinality(Waiting') = Cardinality(Waiting) + 1
    BY <2>1, FS_AddElement DEF EachBeatOnce
  <2>3. Cardinality(Waiting) \in Nat
    BY FS_CardinalityType DEF EachBeatOnce
  <2>4. generation' = generation /\ beats' = beats + 1 /\ beats \in Nat /\ generation \in Nat
    BY <1>1, BeatAssumption DEF Beat
  <2>5. QED BY ONLY <2>2, <2>3, <2>4, EachBeatOnce DEF EachBeatOnce
<1>2. ASSUME NEW p \in Pulses, pulsePc[p] \in {"wantLock", "cancelling"}, NewGeneration(p),
             UNCHANGED beats
      PROVE  EachBeatOnce'
  <2>1. Waiting' = Waiting \ {p} /\ p \in Waiting
    BY <1>2 DEF Waiting, NewGeneration
  <2>2. IsFiniteSet(Waiting') /\ Cardinality(Waiting') = Cardinality(Waiting) - 1
    BY <2>1, FS_RemoveElement DEF EachBeatOnce
  <2>3. Cardinality(Waiting) \in Nat
    BY FS_CardinalityType DEF EachBeatOnce
  <2>4. QED BY <1>2, <2>2, <2>3 DEF EachBeatOnce, NewGeneration
<1>3. ASSUME UNCHANGED <<generation, beats>>, Waiting' = Waiting PROVE EachBeatOnce'
  BY <1>3 DEF EachBeatOnce
<1>4. CASE UNCHANGED vars
  BY <1>3, <1>4 DEF vars, pulseVars, Waiting
<1>5. ASSUME NEW p \in Pulses, PulseStep(p) PROVE EachBeatOnce'
  <2>1. CASE PulseEnters(p) \/ PulseCancelled(p)
    BY <1>2, <2>1 DEF PulseEnters, PulseCancelled
  <2>2. CASE PulseCancels(p) \/ Light(p) \/ Lit(p) \/ Schedule(p)
    <3>1. Waiting' = Waiting
      BY <2>2 DEF PulseCancels, Light, Lit, Schedule, Waiting
    <3>2. QED BY <1>3, <2>2, <3>1 DEF PulseCancels, Light, Lit, Schedule
  <2>3. QED BY <1>5, <2>1, <2>2 DEF PulseStep
<1>6. ASSUME NEW o \in Offs, OffStep(o) PROVE EachBeatOnce'
  BY <1>3, <1>6 DEF OffStep, OffStarts, OffWakes, OffGoes, OffAsks, Check, OffWritten,
     OffEnding, OffEnds, pulseVars, Waiting
<1>7. CASE StopAtOnce \/ StopCancels \/ StopCancelled
  BY <1>3, <1>7 DEF StopAtOnce, StopCancels, StopCancelled, pulseVars, Waiting
<1>8. QED BY <1>1, <1>4, <1>5, <1>6, <1>7 DEF Next, Beat

\* Type correctness, and no generation that was not a beat: a beat that writes 0.0
\* before its 1.0, or cancels a flash, is counted once.
THEOREM TypeCorrect == Spec => []TypeOK
<1>1. Init => QueueTypes /\ EachBeatOnce
  <2> SUFFICES ASSUME Init PROVE QueueTypes /\ EachBeatOnce
    OBVIOUS
  <2>1. Waiting = {}
    BY DEF Init, Waiting
  <2>2. QED BY <2>1, BeatAssumption, FS_EmptySet DEF Init, QueueTypes, EachBeatOnce
<1>2. Inv /\ (QueueTypes /\ EachBeatOnce) /\ [Next]_vars => (QueueTypes /\ EachBeatOnce)'
  BY QueueTypesKept, EachBeatCounts
<1>3. Inv /\ (QueueTypes /\ EachBeatOnce) => TypeOK
  <2> SUFFICES ASSUME Inv, QueueTypes, EachBeatOnce PROVE TypeOK
    OBVIOUS
  <2>1. Cardinality(Waiting) \in Nat
    BY FS_CardinalityType DEF EachBeatOnce
  <2>2. generation \in 0 .. beats /\ generation <= BeatBound
    BY <2>1, BeatAssumption DEF EachBeatOnce, Inv, Typed, QueueTypes
  <2>3. /\ pulseGen \in [Pulses -> 0 .. BeatBound]
        /\ offGen \in [Offs -> 0 .. BeatBound]
    BY <2>2, BeatAssumption DEF Inv, Typed, PastGenerations
  <2>4. QED BY <2>2, <2>3 DEF TypeOK, Inv, Typed, QueueTypes, Waiters
<1>4. QED
  BY <1>1, <1>2, <1>3, FlashInvariant, PTL DEF Spec
=============================================================================
