-------------------------- MODULE TempoSyncProofs ---------------------------
(***************************************************************************)
(* Proofs about TempoSync, for any tempos, rounding, deltas and number of  *)
(* callbacks: type correctness, that the flag which silences local changes *)
(* is never left behind, that the data point ends up with the BPM, and     *)
(* that the tempos of the clock and of the Link session follow each other. *)
(***************************************************************************)
EXTENDS TempoSync, SequenceTheorems, TLAPS

\* Rounding to a multiple of the step keeps a tempo a tempo.
LEMMA QuantizeType ==
  ASSUME NEW b \in Nat
  PROVE  Quantize(b) \in Nat
<1> DEFINE q == b \div QuantizeStep
<1>1. QuantizeStep \in Nat \ {0}
  BY TempoAssumption
<1>2. q \in Nat
  BY <1>1
<1>3. QuantizeStep * q \in Nat /\ QuantizeStep * (q + 1) \in Nat
  BY <1>1, <1>2
<1>4. QED BY <1>3 DEF Quantize

LEMMA ClampType ==
  ASSUME NEW b \in Nat
  PROVE  Clamp(b) \in BpmMin .. BpmMax
  BY TempoAssumption DEF Clamp

LEMMA ClampFixed ==
  ASSUME NEW b \in BpmMin .. BpmMax
  PROVE  Clamp(b) = b
  BY TempoAssumption DEF Clamp

-----------------------------------------------------------------------------
(* Type correctness, one group of variables after the other. *)

FlagTypes ==
  /\ transport \in BOOLEAN /\ outputsDue \in BOOLEAN /\ applying \in BOOLEAN
  /\ overtaken \in BOOLEAN

ClockTypes ==
  /\ bpm \in BpmMin .. BpmMax /\ dataBpm \in BpmMin .. BpmMax
  /\ published \in [Publishers -> BpmMin .. BpmMax \cup {None}]
  /\ command \in [Commands -> {"none", "acting", "publishing"}]
  /\ notify \in NotifyPcs
  /\ configuring \in {"no", "changed", "outputs"}
  /\ notify = "changed" => published["notify"] # None
  /\ configuring = "changed" => published["configure"] # None
  /\ \A c \in Commands : command[c] = "publishing" <=> published[c] # None

SessionTypes ==
  /\ link \in {"off", "on", "stopping"}
  /\ tempo \in Nat
  /\ lastLink \in Nat \cup {None} /\ lastApplied \in Nat \cup {None}
  /\ calls \in Seq(Nat) /\ Len(calls) <= CallBound

\* A task that is in _sync_link_tempo() has a tempo to apply.
SyncTypes ==
  /\ syncPc \in [Syncs -> {"idle", "status", "flush", "flushed", "cancelled"}]
  /\ syncTempo \in [Syncs -> Nat \cup {None}]
  /\ \A s \in Syncs : syncPc[s] # "idle" => syncTempo[s] # None

HistoryTypes ==
  /\ inputs \in 0 .. InputBound
  /\ lastWord \in {"local", "link"}
  /\ upsets \subseteq Upsets

Types == FlagTypes /\ ClockTypes /\ SessionTypes /\ SyncTypes /\ HistoryTypes

USE TempoAssumption DEF NotifyPcs, Publishers

\* Setting the BPM leaves it within its limits, and starts at most a notification.
LEMMA SetBpmTypes ==
  ASSUME ClockTypes, NEW b \in Nat, SetBpm(b)
  PROVE  /\ bpm' \in BpmMin .. BpmMax
         /\ notify' \in {notify, "asleep"}
  BY ClampType DEF SetBpm

\* Every tempo that is pushed or reported back is one.
LEMMA OnBpmChangedTypes ==
  ASSUME SessionTypes, NEW b \in Nat, OnBpmChanged(b), UNCHANGED <<link, lastLink>>
  PROVE  SessionTypes'
<1>1. Quantize(b) \in Nat
  BY QuantizeType
<1>2. /\ tempo' \in {tempo, Quantize(b)}
      /\ lastApplied' \in {lastApplied, Quantize(b)}
      /\ calls' = calls \/ (Len(calls) < CallBound /\ calls' = Append(calls, Quantize(b)))
  BY DEF OnBpmChanged
<1>3. calls' \in Seq(Nat) /\ Len(calls') <= CallBound
  BY <1>1, <1>2 DEF SessionTypes
<1>4. QED BY <1>1, <1>2, <1>3 DEF SessionTypes

LEMMA MishapTypes ==
  ASSUME NEW b
  PROVE  Missed(b) \subseteq Upsets /\ Crossed \subseteq Upsets
  BY DEF Missed, Crossed, Upsets

\* An input counts, and records at most mishaps of the list.
LEMMA InputHistoryTypes ==
  ASSUME HistoryTypes, Input, lastWord' \in {lastWord, "local", "link"},
         NEW some, some \subseteq Upsets, upsets' = upsets \cup some
  PROVE  HistoryTypes'
<1>1. inputs' \in 0 .. InputBound
  BY DEF HistoryTypes, Input
<1>2. QED BY <1>1 DEF HistoryTypes

LEMMA InputKeepsTypes ==
  ASSUME Types,
         \/ \E b \in LocalBpms : \E f \in BOOLEAN : LocalBpm(b, f) \/ Configure(b, f)
         \/ \E b \in LocalBpms : TrackClock(b)
         \/ \E c \in Commands : Transport(c)
         \/ \E t \in LinkTempos : LinkTempo(t) \/ EnableLink(t)
         \/ DisableLink
  PROVE  Types'
<1> USE DEF Types
<1>1. ASSUME NEW b \in LocalBpms, NEW f \in BOOLEAN, LocalBpm(b, f)
      PROVE  Types'
  <2>1. bpm' \in BpmMin .. BpmMax /\ notify' \in {notify, "asleep"}
    BY <1>1, SetBpmTypes DEF LocalBpm
  <2>2. FlagTypes'
    BY <1>1 DEF LocalBpm, Overtake, FlagTypes, syncVars
  <2>3. ClockTypes'
    BY <1>1, <2>1 DEF LocalBpm, ClockTypes
  <2>4. SessionTypes' /\ SyncTypes'
    BY <1>1 DEF LocalBpm, SessionTypes, SyncTypes, sessionVars, syncVars
  <2>5. HistoryTypes'
    <3>1. upsets' = upsets \cup (Missed(b) \cup Crossed)
      BY <1>1 DEF LocalBpm
    <3>2. QED
      BY <1>1, <3>1, MishapTypes, InputHistoryTypes DEF LocalBpm
  <2>6. QED BY <2>2, <2>3, <2>4, <2>5
<1>2. ASSUME NEW b \in LocalBpms, NEW f \in BOOLEAN, Configure(b, f)
      PROVE  Types'
  <2>1. FlagTypes'
    BY <1>2 DEF Configure, Overtake, FlagTypes, syncVars
  <2>2. ClockTypes'
    BY <1>2 DEF Configure, Act, ClockTypes
  <2>3. SessionTypes' /\ SyncTypes'
    BY <1>2 DEF Configure, SessionTypes, SyncTypes, sessionVars, syncVars
  <2>4. HistoryTypes'
    <3>1. \/ upsets' = upsets \cup {"unannounced"}
          \/ upsets' = upsets \cup (Missed(b) \cup Crossed)
      BY <1>2 DEF Configure
    <3>2. {"unannounced"} \subseteq Upsets
      BY DEF Upsets
    <3>3. Input /\ lastWord' \in {lastWord, "local", "link"}
      BY <1>2 DEF Configure
    <3>4. Missed(b) \cup Crossed \subseteq Upsets
      BY MishapTypes
    <3>5. QED
      BY <3>1, <3>2, <3>3, <3>4, InputHistoryTypes
  <2>5. QED BY <2>1, <2>2, <2>3, <2>4
<1>3. ASSUME NEW b \in LocalBpms, TrackClock(b)
      PROVE  Types'
  <2>1. FlagTypes'
    BY <1>3 DEF TrackClock, FlagTypes, clockVars, stateVars, syncVars
  <2>2. SessionTypes'
    BY <1>3, OnBpmChangedTypes DEF TrackClock
  <2>3. ClockTypes' /\ SyncTypes'
    BY <1>3 DEF TrackClock, ClockTypes, SyncTypes, clockVars, stateVars, syncVars
  <2>4. HistoryTypes'
    <3>1. {"received"} \subseteq Upsets
      BY DEF Upsets
    <3>2. QED BY <1>3, <3>1, InputHistoryTypes DEF TrackClock
  <2>5. QED BY <2>1, <2>2, <2>3, <2>4
<1>4. ASSUME NEW c \in Commands, Transport(c) PROVE Types'
  <2>1. FlagTypes'
    BY <1>4 DEF Transport, FlagTypes, syncVars
  <2>2. ClockTypes' /\ SessionTypes' /\ SyncTypes' /\ HistoryTypes'
    BY <1>4 DEF Transport, Act, Input, ClockTypes, SessionTypes, SyncTypes, HistoryTypes,
       sessionVars, syncVars
  <2>3. QED BY <2>1, <2>2
<1>5. ASSUME NEW t \in LinkTempos, LinkTempo(t) \/ EnableLink(t)
      PROVE  Types'
  <2>1. FlagTypes'
    BY <1>5 DEF LinkTempo, EnableLink, FlagTypes, clockVars, stateVars, syncVars
  <2>2. SessionTypes'
    <3>1. calls' = Append(calls, t) /\ Len(calls) < CallBound /\ t \in Nat
      BY <1>5 DEF LinkTempo, EnableLink
    <3>2. calls' \in Seq(Nat) /\ Len(calls') <= CallBound
      BY <3>1 DEF SessionTypes
    <3>3. tempo' = t /\ link' \in {link, "on"} /\ UNCHANGED <<lastLink, lastApplied>>
      BY <1>5 DEF LinkTempo, EnableLink
    <3>4. QED BY <3>1, <3>2, <3>3 DEF SessionTypes
  <2>3. ClockTypes' /\ SyncTypes'
    BY <1>5 DEF LinkTempo, EnableLink, ClockTypes, SyncTypes, clockVars, stateVars, syncVars
  <2>4. HistoryTypes'
    <3>1. PICK some \in {{}, {"crossed"}} : upsets' = upsets \cup some
      BY <1>5 DEF LinkTempo, EnableLink
    <3>2. some \subseteq Upsets
      BY DEF Upsets
    <3>3. QED BY <1>5, <3>1, <3>2, InputHistoryTypes DEF LinkTempo, EnableLink
  <2>5. QED BY <2>1, <2>2, <2>3, <2>4
<1>6. CASE DisableLink
  <2>1. FlagTypes'
    BY <1>6 DEF DisableLink, FlagTypes, stateVars
  <2>2. SyncTypes'
    BY <1>6 DEF DisableLink, SyncTypes, EndSync
  <2>3. ClockTypes' /\ SessionTypes'
    BY <1>6 DEF DisableLink, ClockTypes, SessionTypes, stateVars
  <2>4. HistoryTypes'
    <3>1. PICK some \in {{}, {"cancelled"}} : upsets' = upsets \cup some
      BY <1>6 DEF DisableLink
    <3>2. some \subseteq Upsets
      BY DEF Upsets
    <3>3. QED BY <1>6, <3>1, <3>2, InputHistoryTypes DEF DisableLink
  <2>5. QED BY <2>1, <2>2, <2>3, <2>4
<1>7. QED BY <1>1, <1>2, <1>3, <1>4, <1>5, <1>6

LEMMA AnnounceKeepsTypes ==
  ASSUME Types, Announce
  PROVE  Types'
<1> USE DEF Types, Announce, NotifyStart, NotifyChanged, NotifyOutputs, NotifyEnds,
        NotifyDies, ConfigureChanged, ConfigureEnds, PublishOutputs
<1>1. FlagTypes'
  BY DEF FlagTypes, syncVars, stateVars
<1>2. ClockTypes'
  <2>1. \A c \in Commands : published'[c] = published[c] /\ command'[c] = command[c]
    BY DEF ClockTypes, stateVars
  <2>2. published' \in [Publishers -> BpmMin .. BpmMax \cup {None}] /\ UNCHANGED command
    BY DEF ClockTypes, stateVars
  <2>3. /\ bpm' \in BpmMin .. BpmMax /\ dataBpm' \in BpmMin .. BpmMax
        /\ notify' \in NotifyPcs /\ configuring' \in {"no", "changed", "outputs"}
    BY DEF ClockTypes
  <2>4. /\ notify' = "changed" => published'["notify"] # None
        /\ configuring' = "changed" => published'["configure"] # None
    BY DEF ClockTypes
  <2>5. QED BY <2>1, <2>2, <2>3, <2>4 DEF ClockTypes
<1>3. SessionTypes'
  <2>1. CASE NotifyChanged
    BY <2>1, OnBpmChangedTypes DEF ClockTypes
  <2>2. CASE ConfigureChanged
    BY <2>2, OnBpmChangedTypes DEF ClockTypes
  <2>3. QED BY <2>1, <2>2 DEF SessionTypes, sessionVars
<1>4. SyncTypes'
  BY DEF SyncTypes, Resume, syncVars
<1>5. HistoryTypes'
  BY DEF HistoryTypes, historyVars
<1>6. QED BY <1>1, <1>2, <1>3, <1>4, <1>5

\* A command publishes the state with the BPM of the clock, and the data point is
\* written with what it published.
LEMMA CommandKeepsTypes ==
  ASSUME Types, NEW c \in Commands, Command(c)
  PROVE  Types'
<1> USE DEF Types
<1>1. CASE StatePublished(c)
  <2>1. FlagTypes'
    BY <1>1 DEF StatePublished, FlagTypes, syncVars
  <2>2. ClockTypes'
    BY <1>1 DEF StatePublished, ClockTypes
  <2>3. SessionTypes' /\ SyncTypes' /\ HistoryTypes'
    BY <1>1 DEF StatePublished, SessionTypes, SyncTypes, HistoryTypes, sessionVars, syncVars,
       historyVars
  <2>4. QED BY <2>1, <2>2, <2>3
<1>2. CASE StateWritten(c)
  <2>1. FlagTypes'
    BY <1>2 DEF StateWritten, FlagTypes, syncVars
  <2>2. ClockTypes'
    BY <1>2 DEF StateWritten, ClockTypes
  <2>3. SessionTypes' /\ SyncTypes' /\ HistoryTypes'
    BY <1>2 DEF StateWritten, SessionTypes, SyncTypes, HistoryTypes, sessionVars, syncVars,
       historyVars
  <2>4. QED BY <2>1, <2>2, <2>3
<1>3. QED BY <1>1, <1>2 DEF Command

LEMMA SyncStartKeepsTypes ==
  ASSUME Types, NEW s \in Syncs, NEW t \in Nat, SyncStart(s, t)
  PROVE  /\ lastLink' \in Nat
         /\ UNCHANGED <<inputs, lastWord>> => HistoryTypes'
         /\ SyncTypes'
<1>1. lastLink' \in Nat
  BY DEF SyncStart
<1>2. SyncTypes'
  BY DEF SyncStart, Types, SyncTypes
<1>3. ASSUME UNCHANGED <<inputs, lastWord>> PROVE HistoryTypes'
  BY <1>3 DEF SyncStart, Types, HistoryTypes, Upsets
<1>4. QED BY <1>1, <1>2, <1>3

LEMMA SessionStepKeepsTypes ==
  ASSUME Types, Poll \/ LinkStopped \/ \E s \in Syncs : Sync(s)
  PROVE  Types'
<1> USE DEF Types
<1>1. CASE Poll
  <2>1. FlagTypes'
    BY <1>1 DEF Poll, FlagTypes, clockVars, stateVars
  <2>2. "poll" \in Syncs /\ tempo \in Nat /\ SyncStart("poll", tempo)
    BY <1>1 DEF Poll, Syncs, SessionTypes
  <2>3. ClockTypes' /\ SessionTypes'
    BY <1>1, <2>2, SyncStartKeepsTypes DEF Poll, ClockTypes, SessionTypes, clockVars, stateVars
  <2>4. SyncTypes' /\ HistoryTypes'
    BY <1>1, <2>2, SyncStartKeepsTypes DEF Poll
  <2>5. QED BY <2>1, <2>3, <2>4
<1>2. CASE LinkStopped
  <2>1. FlagTypes'
    BY <1>2 DEF LinkStopped, FlagTypes, clockVars, stateVars, syncVars
  <2>2. ClockTypes' /\ SessionTypes' /\ SyncTypes'
    BY <1>2 DEF LinkStopped, ClockTypes, SessionTypes, SyncTypes, clockVars, stateVars, syncVars
  <2>3. HistoryTypes'
    BY <1>2 DEF LinkStopped, HistoryTypes, Upsets
  <2>4. QED BY <2>1, <2>2, <2>3
<1>3. ASSUME NEW s \in Syncs, Callback(s) PROVE Types'
  <2>1. FlagTypes'
    BY <1>3 DEF Callback, FlagTypes, clockVars, stateVars
  <2>2. Head(calls) \in Nat /\ calls' \in Seq(Nat) /\ Len(calls') <= CallBound
    BY <1>3 DEF Callback, SessionTypes
  <2>3. lastLink' \in Nat \cup {None} /\ SyncTypes' /\ HistoryTypes'
    <3>1. CASE SyncStart(s, Head(calls))
      BY <1>3, <2>2, <3>1, SyncStartKeepsTypes DEF Callback
    <3>2. CASE UNCHANGED <<lastLink, syncPc, syncTempo, upsets>>
      BY <1>3, <3>2 DEF Callback, SessionTypes, SyncTypes, HistoryTypes
    <3>3. QED BY <1>3, <3>1, <3>2 DEF Callback
  <2>4. ClockTypes' /\ SessionTypes'
    BY <1>3, <2>2, <2>3 DEF Callback, ClockTypes, SessionTypes, clockVars, stateVars
  <2>5. QED BY <2>1, <2>3, <2>4
<1>4. ASSUME NEW s \in Syncs, SyncApply(s) PROVE Types'
  <2> DEFINE q == Quantize(syncTempo[s])
  <2>1. q \in Nat
    BY <1>4, QuantizeType DEF SyncApply, SyncTypes
  <2>2. /\ bpm' \in BpmMin .. BpmMax
        /\ notify' \in {notify, "asleep"}
        /\ UNCHANGED <<published, configuring, command, dataBpm>>
    <3>1. CASE UNCHANGED <<bpm, notify>>
      BY <1>4, <3>1 DEF SyncApply, ClockTypes
    <3>2. CASE SetBpm(q)
      BY <1>4, <2>1, <3>2, SetBpmTypes DEF SyncApply
    <3>3. QED BY <1>4, <3>1, <3>2 DEF SyncApply
  <2>3. FlagTypes'
    BY <1>4 DEF SyncApply, Overtake, FlagTypes
  <2>4. ClockTypes'
    BY <2>2 DEF ClockTypes
  <2>5. SessionTypes'
    BY <1>4, <2>1 DEF SyncApply, SessionTypes
  <2>6. SyncTypes'
    BY <1>4 DEF SyncApply, SyncTypes, EndSync
  <2>7. HistoryTypes'
    <3>1. \/ upsets' = upsets \cup {} \/ upsets' = upsets \cup {"skipped"}
          \/ upsets' = upsets \cup Missed(q)
      BY <1>4 DEF SyncApply
    <3>2. upsets' \subseteq Upsets
      BY <3>1, MishapTypes DEF HistoryTypes, Upsets
    <3>3. QED BY <1>4, <3>2 DEF SyncApply, HistoryTypes
  <2>8. QED BY <2>3, <2>4, <2>5, <2>6, <2>7
<1>5. ASSUME NEW s \in Syncs, SyncEnd(s) PROVE Types'
  <2>1. FlagTypes'
    BY <1>5 DEF SyncEnd, FlagTypes, clockVars, stateVars
  <2>2. lastApplied' \in Nat \cup {None}
    BY <1>5, QuantizeType DEF SyncEnd, SyncTypes, SessionTypes
  <2>3. SyncTypes'
    BY <1>5 DEF SyncEnd, SyncTypes, EndSync
  <2>4. ClockTypes' /\ SessionTypes' /\ HistoryTypes'
    BY <1>5, <2>2 DEF SyncEnd, ClockTypes, SessionTypes, HistoryTypes, clockVars, stateVars,
       historyVars
  <2>5. QED BY <2>1, <2>3, <2>4
<1>6. QED BY <1>1, <1>2, <1>3, <1>4, <1>5 DEF Sync

\* Every state of the clock and the session is well typed, and a task that is to
\* publish or apply a tempo has one.
THEOREM TypesHold == Spec => []Types
<1>1. Init => Types
  <2> SUFFICES ASSUME Init PROVE Types
    OBVIOUS
  <2>1. FlagTypes
    BY DEF Init, FlagTypes
  <2>2. ClockTypes
    BY DEF Init, ClockTypes
  <2>3. SessionTypes
    BY DEF Init, SessionTypes
  <2>4. SyncTypes /\ HistoryTypes
    BY DEF Init, SyncTypes, HistoryTypes
  <2>5. QED BY <2>1, <2>2, <2>3, <2>4 DEF Types
<1>2. Types /\ [Next]_vars => Types'
  <2> SUFFICES ASSUME Types, [Next]_vars PROVE Types'
    OBVIOUS
  <2>1. CASE UNCHANGED vars
    <3>1. FlagTypes'
      BY <2>1 DEF vars, clockVars, stateVars, syncVars, Types, FlagTypes
    <3>2. ClockTypes' /\ SessionTypes' /\ SyncTypes' /\ HistoryTypes'
      BY <2>1 DEF vars, clockVars, stateVars, sessionVars, syncVars, historyVars, Types,
         ClockTypes, SessionTypes, SyncTypes, HistoryTypes
    <3>3. QED BY <3>1, <3>2 DEF Types
  <2>2. CASE Next
    BY <2>2, InputKeepsTypes, AnnounceKeepsTypes, CommandKeepsTypes, SessionStepKeepsTypes
       DEF Next
  <2>3. QED BY <2>1, <2>2
<1>3. QED
  BY <1>1, <1>2, PTL DEF Spec

\* Type correctness, for any tempos, rounding and number of callbacks.
THEOREM TypeCorrect == Spec => []TypeOK
<1>1. Types => TypeOK
  BY DEF Types, FlagTypes, ClockTypes, SessionTypes, SyncTypes, HistoryTypes, TypeOK
<1>2. QED BY <1>1, TypesHold, PTL

-----------------------------------------------------------------------------
(* The flag and the announcement. *)

\* Nobody is left in the mode in which local changes are not pushed: whichever way
\* the flush of a session tempo ends, cancelled included, the flag is cleared.
THEOREM ApplyingIsTransientHolds == Spec => []ApplyingIsTransient
<1> USE DEF ApplyingIsTransient
<1>1. Init => ApplyingIsTransient
  BY DEF Init
<1>2. Types /\ ApplyingIsTransient /\ [Next]_vars => ApplyingIsTransient'
  <2> SUFFICES ASSUME Types, ApplyingIsTransient, [Next]_vars PROVE ApplyingIsTransient'
    OBVIOUS
  <2> USE DEF Types, SyncTypes
  <2>1. CASE UNCHANGED syncVars
    BY <2>1 DEF syncVars
  <2>2. CASE DisableLink
    BY <2>2 DEF DisableLink, EndSync
  <2>3. CASE NotifyEnds \/ NotifyDies
    BY <2>3 DEF NotifyEnds, NotifyDies, Resume
  <2>4. ASSUME NEW s \in Syncs, NEW t, syncPc[s] = "idle", SyncStart(s, t),
               UNCHANGED applying
        PROVE  ApplyingIsTransient'
    BY <2>4 DEF SyncStart
  <2>5. CASE Poll
    BY <2>4, <2>5 DEF Poll, Syncs
  <2>6. ASSUME NEW s \in Syncs, Callback(s) PROVE ApplyingIsTransient'
    BY <2>4, <2>6 DEF Callback
  <2>7. ASSUME NEW s \in Syncs, SyncApply(s) PROVE ApplyingIsTransient'
    BY <2>7 DEF SyncApply, EndSync
  <2>8. ASSUME NEW s \in Syncs, SyncEnd(s) PROVE ApplyingIsTransient'
    BY <2>8 DEF SyncEnd
  <2>9. CASE Next
    BY <2>1, <2>2, <2>3, <2>5, <2>6, <2>7, <2>8, <2>9 DEF Next, Sync, LocalBpm,
       Configure, TrackClock, Transport, LinkTempo, EnableLink, LinkStopped, Announce,
       NotifyStart, NotifyChanged, NotifyOutputs, ConfigureChanged, ConfigureEnds,
       PublishOutputs, Command, StatePublished, StateWritten
  <2>10. QED BY <2>1, <2>9 DEF vars
<1>3. QED
  BY <1>1, <1>2, TypesHold, PTL DEF Spec

\* The data point holds the BPM, or somebody is still going to write it, unless
\* the BPM changed under an announcement or an announcement was cancelled; and a
\* state that is published carries the BPM, unless that changed meanwhile.
BpmIsOnItsWay ==
  /\ ~overtaken => \A c \in Commands : published[c] \in {bpm, None}
  /\ ~overtaken /\ upsets \cap {"publishing", "cancelled"} = {} =>
       /\ notify # "dying"
       /\ \/ dataBpm = bpm
          \/ notify \in {"asleep", "changed", "outputs"}
          \/ configuring # "no"
          \/ outputsDue
          \/ \E c \in Commands : command[c] # "none"

\* A change of the BPM starts an announcement, or one that has not read the BPM yet
\* is about to.
LEMMA SetBpmIsAnnounced ==
  ASSUME Types, BpmIsOnItsWay, NEW b \in Nat, SetBpm(b),
         upsets \cup Missed(b) \subseteq upsets', Overtake(b),
         UNCHANGED <<dataBpm, configuring, command, published>>, outputsDue => outputsDue'
  PROVE  BpmIsOnItsWay'
<1> USE DEF Types, ClockTypes, BpmIsOnItsWay
<1>1. CASE Clamp(b) = bpm
  BY <1>1 DEF SetBpm, Overtake
<1>2. CASE Clamp(b) # bpm
  <2>0. ~overtaken' => ~overtaken /\ \A c \in Commands : published[c] = None
    BY <1>2 DEF Overtake
  <2>1. CASE notify \in {"none", "asleep"}
    BY <1>2, <2>0, <2>1 DEF SetBpm
  <2>2. CASE notify \notin {"none", "asleep"}
    BY <1>2, <2>0, <2>2 DEF Missed, Publishing
  <2>3. QED BY <2>1, <2>2
<1>3. QED BY <1>1, <1>2

THEOREM AnnouncedBpmIsCurrentHolds == Spec => []AnnouncedBpmIsCurrent
<1>1. Init => BpmIsOnItsWay
  BY DEF Init, BpmIsOnItsWay
<1>2. Types /\ BpmIsOnItsWay /\ [Next]_vars => BpmIsOnItsWay'
  <2> SUFFICES ASSUME Types, BpmIsOnItsWay, [Next]_vars PROVE BpmIsOnItsWay'
    OBVIOUS
  <2>1. ASSUME UNCHANGED <<bpm, notify, published, configuring, outputsDue, dataBpm, stateVars>>,
               upsets \subseteq upsets'
        PROVE  BpmIsOnItsWay'
    BY <2>1 DEF BpmIsOnItsWay, stateVars
  <2>2. CASE UNCHANGED vars
    BY <2>1, <2>2 DEF vars, clockVars, stateVars, historyVars
  <2>3. ASSUME NEW b \in LocalBpms, NEW f \in BOOLEAN, LocalBpm(b, f)
        PROVE  BpmIsOnItsWay'
    BY <2>3, SetBpmIsAnnounced DEF LocalBpm
  <2>4. ASSUME NEW b \in LocalBpms, NEW f \in BOOLEAN, Configure(b, f)
        PROVE  BpmIsOnItsWay'
    <3>1. bpm' = b /\ Overtake(b) /\ Clamp(b) = b
      BY <2>4, ClampFixed DEF Configure
    <3>2. \A c \in Commands : published'[c] = published[c]
      BY <2>4 DEF Configure, Types, ClockTypes
    <3>3. ~overtaken' => \A c \in Commands : published'[c] \in {bpm', None}
      BY <3>1, <3>2 DEF Overtake, BpmIsOnItsWay
    <3>4. configuring' # "no" \/ \E c \in Commands : command'[c] # "none"
      BY <2>4 DEF Configure, Act, Types, ClockTypes
    <3>5. notify' = notify /\ upsets \subseteq upsets' /\ (~overtaken' => ~overtaken)
      BY <2>4, <3>1 DEF Configure, Overtake
    <3>6. QED BY <3>3, <3>4, <3>5 DEF BpmIsOnItsWay
  <2>5. ASSUME NEW b \in LocalBpms, TrackClock(b) PROVE BpmIsOnItsWay'
    BY <2>1, <2>5 DEF TrackClock, clockVars, stateVars
  <2>6. ASSUME NEW c \in Commands, Transport(c) \/ Command(c) PROVE BpmIsOnItsWay'
    <3>1. CASE Transport(c)
      BY <3>1 DEF Transport, Act, BpmIsOnItsWay, Types, ClockTypes
    <3>2. CASE StatePublished(c)
      BY <3>2 DEF StatePublished, BpmIsOnItsWay, Types, ClockTypes, historyVars
    <3>3. CASE StateWritten(c)
      <4>1. ~overtaken => dataBpm' = bpm
        BY <3>3 DEF StateWritten, BpmIsOnItsWay, Types, ClockTypes
      <4>2. ~overtaken => \A d \in Commands : published'[d] \in {bpm, None}
        BY <3>3 DEF StateWritten, BpmIsOnItsWay, Types, ClockTypes
      <4>3. UNCHANGED <<bpm, notify, upsets, overtaken>>
        BY <3>3 DEF StateWritten, historyVars
      <4>4. QED BY <4>1, <4>2, <4>3 DEF BpmIsOnItsWay
    <3>4. QED BY <2>6, <3>1, <3>2, <3>3 DEF Command
  <2>7. ASSUME NEW t \in LinkTempos, LinkTempo(t) \/ EnableLink(t)
        PROVE  BpmIsOnItsWay'
    BY <2>1, <2>7 DEF LinkTempo, EnableLink, clockVars, stateVars
  <2>8. CASE DisableLink
    BY <2>8 DEF DisableLink, BpmIsOnItsWay, stateVars
  <2>9. CASE Announce
    BY <2>9 DEF Announce, NotifyStart, NotifyChanged, NotifyOutputs, NotifyEnds,
       NotifyDies, ConfigureChanged, ConfigureEnds, PublishOutputs, historyVars,
       stateVars, BpmIsOnItsWay, Types, ClockTypes
  <2>10. CASE Poll \/ LinkStopped
    BY <2>1, <2>10 DEF Poll, LinkStopped, SyncStart, clockVars, stateVars, historyVars
  <2>11. ASSUME NEW s \in Syncs, Callback(s) \/ SyncEnd(s) PROVE BpmIsOnItsWay'
    BY <2>1, <2>11 DEF Callback, SyncEnd, SyncStart, clockVars, stateVars, historyVars
  <2>12. ASSUME NEW s \in Syncs, SyncApply(s) PROVE BpmIsOnItsWay'
    <3> DEFINE q == Quantize(syncTempo[s])
    <3>1. q \in Nat
      BY <2>12, QuantizeType DEF SyncApply, Types, SyncTypes
    <3>2. CASE SetBpm(q) /\ Overtake(q) /\ upsets' = upsets \cup Missed(q)
      BY <2>12, <3>1, <3>2, SetBpmIsAnnounced DEF SyncApply
    <3>3. CASE UNCHANGED <<bpm, notify, overtaken>> /\ upsets \subseteq upsets'
      BY <2>1, <2>12, <3>3 DEF SyncApply, stateVars
    <3>4. QED BY <2>12, <3>2, <3>3 DEF SyncApply
  <2>13. QED
    BY <2>2, <2>3, <2>4, <2>5, <2>6, <2>7, <2>8, <2>9, <2>10, <2>11, <2>12 DEF Next, Sync
<1>3. Types /\ BpmIsOnItsWay => AnnouncedBpmIsCurrent
  BY DEF BpmIsOnItsWay, AnnouncedBpmIsCurrent, Quiet
<1>4. QED
  BY <1>1, <1>2, <1>3, TypesHold, PTL DEF Spec
-----------------------------------------------------------------------------
(* Rounding.  A tempo is rounded to the nearest multiple of the step, and *)
(* one that is clamped after that is still rounded to the same multiple.  *)

LEMMA Products ==
  ASSUME NEW s \in Nat \ {0}, NEW k \in Nat, NEW m \in Nat
  PROVE  /\ s * k \in Nat
         /\ s * k < s * m + s => k <= m
<1>1. s * k \in Nat /\ s * m \in Nat OBVIOUS
<1>2. ASSUME k > m PROVE s * k >= s * m + s
  <2> DEFINE d == k - (m + 1)
  <2>1. d \in Nat /\ k = (m + 1) + d BY <1>2
  <2>2. s * k = s * m + s + s * d BY <2>1
  <2>3. s * d \in Nat BY <2>1
  <2>4. QED BY <1>1, <2>2, <2>3
<1>3. QED BY <1>1, <1>2

LEMMA QuantizeNearest ==
  ASSUME NEW b \in Nat
  PROVE  \E k \in Nat : /\ Quantize(b) = QuantizeStep * k
                        /\ 2 * (QuantizeStep * k) <= 2 * b + QuantizeStep
                        /\ 2 * b <= 2 * (QuantizeStep * k) + QuantizeStep
<1> DEFINE q == b \div QuantizeStep
           r == b % QuantizeStep
<1>1. QuantizeStep \in Nat \ {0}
  BY TempoAssumption
<1>2. q \in Nat /\ r \in 0 .. QuantizeStep - 1 /\ b = QuantizeStep * q + r
  BY <1>1
<1>3. QuantizeStep * q \in Nat /\ QuantizeStep * (q + 1) = QuantizeStep * q + QuantizeStep
  BY <1>1, <1>2
<1> DEFINE down == 2 * r < QuantizeStep \/ (2 * r = QuantizeStep /\ q % 2 = 0)
<1>4. Quantize(b) = QuantizeStep * (IF down THEN q ELSE q + 1)
  BY DEF Quantize
<1>5. CASE down
  <2>1. 2 * r <= QuantizeStep BY <1>1, <1>2, <1>5
  <2> HIDE DEF q, r
  <2>2. QED BY <1>1, <1>2, <1>3, <1>4, <1>5, <2>1
<1>6. CASE ~down
  <2>1. 2 * r >= QuantizeStep BY <1>1, <1>2, <1>6
  <2>2. Quantize(b) = QuantizeStep * (q + 1) BY <1>4, <1>6
  <2>3. q + 1 \in Nat BY <1>2
  <2> HIDE DEF q, r, down
  <2>4. /\ 2 * (QuantizeStep * (q + 1)) <= 2 * b + QuantizeStep
        /\ 2 * b <= 2 * (QuantizeStep * (q + 1)) + QuantizeStep
    BY <1>1, <1>2, <1>3, <2>1
  <2>5. QED BY <2>2, <2>3, <2>4
<1>7. QED BY <1>5, <1>6

\* The one multiple that is closer than half a step is the one rounded to.
LEMMA QuantizeUnique ==
  ASSUME NEW b \in Nat, NEW k \in Nat,
         2 * (QuantizeStep * k) < 2 * b + QuantizeStep,
         2 * b < 2 * (QuantizeStep * k) + QuantizeStep
  PROVE  Quantize(b) = QuantizeStep * k
<1>1. QuantizeStep \in Nat \ {0}
  BY TempoAssumption
<1>2. PICK m \in Nat : /\ Quantize(b) = QuantizeStep * m
                       /\ 2 * (QuantizeStep * m) <= 2 * b + QuantizeStep
                       /\ 2 * b <= 2 * (QuantizeStep * m) + QuantizeStep
  BY QuantizeNearest
<1>3. QuantizeStep * k \in Nat /\ QuantizeStep * m \in Nat
  BY <1>1
<1>4. /\ QuantizeStep * k < QuantizeStep * m + QuantizeStep
      /\ QuantizeStep * m < QuantizeStep * k + QuantizeStep
  BY <1>1, <1>2, <1>3
<1>5. k <= m /\ m <= k
  BY <1>1, <1>4, Products
<1>6. k = m
  BY <1>5
<1>7. QED BY <1>2, <1>6
-----------------------------------------------------------------------------
(* What ties clock and session together as long as nothing went wrong. *)

\* Tempos that a BPM within the limits is rounded to.
Rounded == {Quantize(b) : b \in BpmMin .. BpmMax}

Near(a, b) == Distance(a, b) < MinDelta
AllIdle == \A s \in Syncs : syncPc[s] = "idle"
Flushing == \E s \in Syncs : syncPc[s] \in {"flush", "flushed"}
Unseen == lastLink = None \/ ~Near(lastLink, tempo)

\* A BPM is going to be pushed to the session.
ToPush == notify \in {"asleep", "changed"} \/ configuring = "changed"

\* Whoever publishes, publishes the BPM, as it has not changed meanwhile.
Current ==
  /\ published["notify"] = IF notify = "changed" THEN bpm ELSE None
  /\ published["configure"] = IF configuring = "changed" THEN bpm ELSE None

Positive == tempo > 0 /\ \A i \in 1 .. Len(calls) : calls[i] > 0

\* One task at a time takes a session tempo to the clock, the one seen last, and
\* the flag is set while it waits for the announcement.
Single ==
  /\ \A r, s \in Syncs : syncPc[r] # "idle" /\ syncPc[s] # "idle" => r = s
  /\ \A s \in Syncs :
       /\ syncPc[s] \in {"flush", "flushed"} => applying /\ bpm = Clamp(Quantize(syncTempo[s]))
       /\ syncPc[s] = "flush" => notify # "none"
       /\ syncPc[s] = "flushed" => notify = "none"
       /\ link = "on" /\ syncPc[s] # "idle" =>
            syncPc[s] # "cancelled" /\ syncTempo[s] = lastLink /\ syncTempo[s] > 0
  /\ ApplyingIsTransient
  /\ notify # "dying"

\* While there is no session there are no tempos of one.
NoSession == link = "off" => lastLink = None /\ lastApplied = None /\ calls = <<>> /\ AllIdle

\* The session tempo has been seen, is about to be reported, or was pushed by ourselves.
Known ==
  \/ tempo \in Rounded
  \/ calls = <<>> /\ ~Unseen
  \/ calls # <<>> /\ calls[Len(calls)] = tempo

\* The first tempo of a session is applied.
Joined ==
  /\ lastLink = None => lastApplied = None /\ AllIdle /\ calls # <<>>
  /\ lastApplied = None => (notify = "none" \/ Flushing) /\ configuring = "no"
  /\ lastLink # None /\ AllIdle => lastApplied # None

\* The BPM is the one applied last.
AsApplied ==
  lastApplied # None /\ ~ToPush /\ ~Flushing =>
    bpm = Clamp(lastApplied) \/ lastApplied = Quantize(bpm)

\* Between tasks, what was applied last and what was seen last are close.
CloseToSeen ==
  AllIdle /\ lastLink # None =>
    \/ Unseen
    \/ Distance(lastLink, lastApplied) <= 2 * (MinDelta - 1)
    \/ lastApplied = Quantize(lastLink) /\ (ToPush \/ bpm = Clamp(lastApplied))

\* After a local change everything under way was pushed by ourselves ...
OwnTempos ==
  /\ \A i \in 1 .. Len(calls) : calls[i] = tempo /\ tempo \in Rounded
  /\ \A s \in Syncs : syncPc[s] # "idle" => syncTempo[s] \in Rounded
  /\ ~ToPush /\ ~Flushing => lastApplied = Quantize(bpm)
  /\ calls # <<>> /\ (configuring = "changed" \/ (ToPush /\ ~Flushing)) => Near(tempo, Quantize(bpm))

\* ... and brings the session to the BPM, or the BPM to the session.
Agreeing ==
  /\ AllIdle => ToPush \/ Near(tempo, Quantize(bpm)) \/ Unseen
  /\ \A s \in Syncs :
       /\ syncPc[s] = "status" /\ syncTempo[s] # tempo =>
            lastApplied = tempo /\ tempo = Quantize(bpm)
       /\ syncPc[s] \in {"flush", "flushed"} =>
            syncTempo[s] = tempo \/ ~Near(syncTempo[s], tempo)

Linked == Known /\ Joined /\ AsApplied /\ CloseToSeen
Local == lastWord = "local" => OwnTempos /\ Agreeing


Together == Current /\ Positive /\ Single /\ NoSession /\ (link = "on" => Linked /\ Local)

SyncInv == upsets = {} => Together

LEMMA QuantizeClose ==
  ASSUME NEW b \in Nat
  PROVE  2 * Quantize(b) <= 2 * b + QuantizeStep /\ 2 * b <= 2 * Quantize(b) + QuantizeStep
  BY QuantizeNearest

\* A rounded tempo stays what it is, also when it has been clamped.
LEMMA RoundedFixed ==
  ASSUME NEW t \in Rounded
  PROVE  t \in Nat /\ t > 0 /\ Quantize(t) = t /\ Quantize(Clamp(t)) = t
<1>1. PICK b \in BpmMin .. BpmMax : t = Quantize(b)
  BY DEF Rounded
<1>2. b \in Nat /\ QuantizeStep \in Nat \ {0}
  OBVIOUS
<1>3. PICK k \in Nat : /\ t = QuantizeStep * k
                       /\ 2 * (QuantizeStep * k) <= 2 * b + QuantizeStep
                       /\ 2 * b <= 2 * (QuantizeStep * k) + QuantizeStep
  BY <1>1, <1>2, QuantizeNearest
<1>4. t \in Nat /\ 2 * t <= 2 * b + QuantizeStep /\ 2 * b <= 2 * t + QuantizeStep
  BY <1>1, <1>2, <1>3, QuantizeType
<1>5. t > 0
  BY <1>1, <1>2, <1>4
<1>6. ASSUME NEW c \in Nat, 2 * t < 2 * c + QuantizeStep, 2 * c < 2 * t + QuantizeStep
      PROVE  Quantize(c) = t
  BY <1>3, <1>6, QuantizeUnique
<1>7. Quantize(t) = t
  BY <1>2, <1>4, <1>6
<1>8. Quantize(Clamp(t)) = t
  <2>1. CASE t \in BpmMin .. BpmMax
    BY <1>7, <2>1, ClampFixed
  <2>2. CASE t < BpmMin
    <3>1. Clamp(t) = BpmMin
      BY <1>4, <2>2 DEF Clamp
    <3>2. CASE b = BpmMin
      BY <1>1, <3>1, <3>2
    <3>3. CASE b # BpmMin
      <4>1. BpmMin \in Nat /\ 2 * t < 2 * BpmMin + QuantizeStep /\ 2 * BpmMin < 2 * t + QuantizeStep
        BY <1>1, <1>2, <1>4, <2>2, <3>3
      <4>2. QED BY <1>6, <3>1, <4>1
    <3>4. QED BY <3>2, <3>3
  <2>3. CASE t > BpmMax
    <3>1. Clamp(t) = BpmMax
      BY <1>4, <2>3 DEF Clamp
    <3>2. CASE b = BpmMax
      BY <1>1, <3>1, <3>2
    <3>3. CASE b # BpmMax
      <4>1. BpmMax \in Nat /\ 2 * t < 2 * BpmMax + QuantizeStep /\ 2 * BpmMax < 2 * t + QuantizeStep
        BY <1>1, <1>2, <1>4, <2>3, <3>3
      <4>2. QED BY <1>6, <3>1, <4>1
    <3>4. QED BY <3>2, <3>3
  <2>4. QED BY <1>4, <2>1, <2>2, <2>3
<1>9. QED BY <1>4, <1>5, <1>7, <1>8

LEMMA BpmRounded ==
  ASSUME NEW b \in BpmMin .. BpmMax
  PROVE  Quantize(b) \in Rounded
  BY DEF Rounded

LEMMA Nearness ==
  ASSUME NEW a \in Nat, NEW b \in Nat, NEW c \in Nat
  PROVE  /\ Near(a, a)
         /\ Near(a, b) => Near(b, a) /\ Distance(a, b) <= 2 * (MinDelta - 1)
         /\ Near(a, b) /\ Near(b, c) => Distance(a, c) <= 2 * (MinDelta - 1)
         /\ Distance(a, b) >= MinDelta <=> ~Near(a, b)
  BY DEF Near, Distance

LEMMA SessionChangedIsNews ==
  ASSUME SessionTypes, NEW t \in Nat
  PROVE  SessionChanged(t) <=> lastLink = None \/ ~Near(lastLink, t)
  BY DEF SessionChanged, SessionTypes, Near, Distance
-----------------------------------------------------------------------------
(* The steps that undo nothing of it, from one clean state to another. *)

Quietly == Types /\ Types' /\ Together /\ upsets = {} /\ upsets' = {}

\* A command or configure() comes while no session tempo is on its way, and no
\* announcement has read the BPM that it changes.
LEMMA LocalKeepsTogether ==
  ASSUME Quietly, NEW b \in LocalBpms, NEW f \in BOOLEAN, LocalBpm(b, f) \/ Configure(b, f)
  PROVE  Together'
<1> USE DEF Quietly, Types, ClockTypes, SessionTypes, SyncTypes, Together
<1>1. /\ calls = <<>> /\ AllIdle /\ ~Flushing
      /\ UNCHANGED <<sessionVars, syncVars>>
  BY DEF LocalBpm, Configure, Crossed, LinkOnItsWay, AllIdle, Flushing
<1>2. /\ bpm' # bpm => notify \in {"none", "asleep"} /\ configuring = "no" /\ ToPush' /\ lastWord' = "local"
      /\ bpm' = bpm => lastWord' = lastWord
      /\ ToPush => ToPush'
      /\ ToPush' => ToPush \/ bpm' # bpm \/ configuring' = "changed"
      /\ configuring' = "changed" => configuring = "changed" \/ configuring = "no"
      /\ notify' = notify \/ (notify' = "asleep" /\ notify = "none")
  <2>1. notify # "dying"
    BY DEF Single
  <2>2. Missed(b) = {}
    BY DEF LocalBpm, Configure
  <2>3. Clamp(b) = bpm \/ (notify \in {"none", "asleep"} /\ configuring = "no")
    BY <2>1, <2>2 DEF Missed, Publishing
  <2>4. CASE LocalBpm(b, f)
    BY <2>3, <2>4 DEF LocalBpm, SetBpm, ToPush
  <2>5. CASE Configure(b, f)
    <3>1. b \in BpmMin .. BpmMax /\ Clamp(b) = b
      BY <2>5, ClampFixed DEF Configure
    <3>2. configuring' = "changed" /\ bpm' = b /\ notify' = notify /\ configuring = "no"
          /\ lastWord' = IF b = bpm THEN lastWord ELSE "local"
      BY <2>5 DEF Configure
    <3>3. QED BY <2>3, <3>1, <3>2 DEF ToPush
  <2>6. QED BY <2>4, <2>5
<1> USE DEF sessionVars, syncVars
<1>3. Current'
  <2>1. CASE LocalBpm(b, f)
    BY <1>1, <1>2, <2>1 DEF LocalBpm, SetBpm, Current
  <2>2. CASE Configure(b, f)
    BY <1>1, <1>2, <2>2 DEF Configure, Current
  <2>3. QED BY <2>1, <2>2
<1>4. Positive' /\ NoSession'
  BY <1>1, <1>2 DEF Positive, NoSession, AllIdle
<1>5. Single'
  BY <1>1, <1>2 DEF Single, AllIdle, Flushing, ApplyingIsTransient
<1>6. ASSUME link = "on" PROVE Linked' /\ Local'
  <2>1. lastLink # None /\ lastApplied # None
    BY <1>1, <1>2, <1>6 DEF Linked, Joined
  <2>2. Known'
    BY <1>1, <1>2, <1>6 DEF Linked, Known, Unseen
  <2>3. Joined'
    BY <1>1, <1>2, <2>1 DEF Joined
  <2>4. AsApplied'
    BY <1>1, <1>2, <1>6 DEF Linked, AsApplied, Flushing, ToPush
  <2>5. CloseToSeen'
    BY <1>1, <1>2, <1>6 DEF Linked, CloseToSeen, AllIdle, Unseen
  <2>6. ASSUME lastWord' = "local" PROVE OwnTempos' /\ Agreeing'
    <3>1. \A s \in Syncs : syncPc'[s] = "idle"
      BY <1>1, <1>2 DEF AllIdle
    <3>2. CASE ToPush'
      BY <1>1, <1>2, <3>1, <3>2 DEF OwnTempos, Agreeing
    <3>3. CASE ~ToPush'
      <4>1. bpm' = bpm /\ lastWord = "local" /\ ~ToPush
        BY <1>1, <1>2, <2>6, <3>3
      <4>2. QED BY <1>1, <1>2, <1>6, <3>1, <4>1 DEF Local, OwnTempos, Agreeing, AllIdle, Unseen, Flushing
    <3>4. QED BY <3>2, <3>3
  <2>7. QED BY <2>2, <2>3, <2>4, <2>5, <2>6 DEF Linked, Local
<1>7. QED BY <1>1, <1>2, <1>3, <1>4, <1>5, <1>6

\* Another peer changes the tempo, or we join, while none of our changes is on its way.
LEMMA PeerKeepsTogether ==
  ASSUME Quietly, NEW t \in LinkTempos, LinkTempo(t) \/ EnableLink(t)
  PROVE  Together'
<1> USE DEF Quietly, Types, SessionTypes, Together
<1>1. /\ notify = "none" /\ configuring = "no" /\ ~ToPush
      /\ tempo' = t /\ t \in Nat /\ t > 0
      /\ calls' = Append(calls, t) /\ lastWord' = "link"
      /\ UNCHANGED <<clockVars, lastLink, lastApplied, syncVars>>
  BY DEF LinkTempo, EnableLink, ClockOnItsWay, ToPush
<1> USE DEF clockVars, stateVars, syncVars
<1>2. Current'
  BY <1>1 DEF Current
<1>3. /\ calls' # <<>> /\ calls'[Len(calls')] = tempo'
      /\ Positive'
  BY <1>1 DEF Positive
<1>4. NoSession'
  BY DEF LinkTempo, EnableLink, NoSession
<1>5. CASE LinkTempo(t)
  <2>1. link' = link
    BY <1>5 DEF LinkTempo
  <2>2. Single'
    BY <1>1, <2>1 DEF Single, ApplyingIsTransient
  <2>3. ASSUME link = "on" PROVE Linked'
    <3>1. ~SessionChanged(tempo)
      BY <1>5, <2>3 DEF LinkTempo, ClockOnItsWay
    <3>2. ~Unseen
      BY <3>1, SessionChangedIsNews DEF Unseen
    <3>3. Known'
      BY <1>3 DEF Known
    <3>4. Joined'
      BY <1>1, <1>3, <2>3 DEF Linked, Joined, AllIdle, Flushing
    <3>5. AsApplied'
      BY <1>1, <2>3 DEF Linked, AsApplied, Flushing, ToPush
    <3>6. CloseToSeen'
      BY <1>1, <2>3, <3>2 DEF Linked, CloseToSeen, AllIdle, ToPush
    <3>7. QED BY <3>3, <3>4, <3>5, <3>6 DEF Linked
  <2>4. QED BY <1>1, <1>2, <1>3, <1>4, <2>1, <2>2, <2>3 DEF Local
<1>6. CASE EnableLink(t)
  <2>1. lastLink = None /\ lastApplied = None /\ AllIdle
    BY <1>6 DEF EnableLink, NoSession
  <2>2. Single'
    BY <1>1, <2>1, <1>6 DEF EnableLink, Single, Flushing, AllIdle, ApplyingIsTransient
  <2>3. Linked'
    BY <1>1, <1>3, <2>1 DEF Linked, Known, Joined, AsApplied, CloseToSeen, AllIdle, Flushing
  <2>4. QED BY <1>1, <1>2, <1>3, <1>4, <2>2, <2>3 DEF Local
<1>7. QED BY <1>5, <1>6

LEMMA LeaveKeepsTogether ==
  ASSUME Quietly, DisableLink \/ LinkStopped
  PROVE  Together'
<1> USE DEF Quietly, Types, SessionTypes, SyncTypes, Together
<1>1. CASE DisableLink
  <2>1. /\ link = "on" /\ link' = "stopping"
        /\ UNCHANGED <<bpm, transport, published, configuring, tempo, lastLink, lastApplied, calls, applying>>
        /\ notify' = notify
        /\ "poll" \in Syncs
        /\ syncPc["poll"] # "flush"
        /\ \A s \in Syncs : s # "poll" => syncPc'[s] = syncPc[s] /\ syncTempo'[s] = syncTempo[s]
        /\ syncPc'["poll"] \in {"idle", "cancelled"}
        /\ syncPc["poll"] = "flushed" => syncPc'["poll"] = "cancelled"
        /\ syncPc'["poll"] = "cancelled" => syncPc["poll"] # "idle"
    BY <1>1 DEF DisableLink, EndSync, Syncs
  <2>2. ApplyingIsTransient'
    BY <2>1 DEF Single, ApplyingIsTransient
  <2>3. Single'
    BY <2>1, <2>2 DEF Single
  <2>4. QED BY <2>1, <2>3 DEF Current, Positive, NoSession
<1>2. CASE LinkStopped
  <2>1. ~LinkOnItsWay /\ link' = "off" /\ lastLink' = None /\ lastApplied' = None
        /\ UNCHANGED <<clockVars, tempo, calls, syncVars>>
    BY <1>2 DEF LinkStopped
  <2>2. QED
    BY <2>1 DEF Single, ApplyingIsTransient, Current, Positive, NoSession, LinkOnItsWay, AllIdle,
       clockVars, stateVars, syncVars
<1>3. QED BY <1>1, <1>2

\* An announcement pushes the BPM that it has read, which is still the BPM, unless the
\* BPM is being set from the session.
LEMMA PushKeepsTogether ==
  ASSUME Quietly, OnBpmChanged(bpm), UNCHANGED <<bpm, transport, link, lastLink, syncVars, lastWord>>,
         notify = "changed" \/ configuring = "changed",
         notify' # "dying",
         notify = "none" <=> notify' = "none",
         configuring = "no" <=> configuring' = "no",
         ToPush' => ToPush,
         configuring' = "changed" => configuring = "changed",
         Current'
  PROVE  Together'
<1> USE DEF Quietly, Types, ClockTypes, SessionTypes, SyncTypes, Together
<1> DEFINE q == Quantize(bpm)
<1>1. q \in Rounded /\ q \in Nat /\ q > 0 /\ bpm \in Nat
  BY BpmRounded, RoundedFixed
<1> HIDE DEF q
<1>2. CASE applying \/ link # "on"
  <2>1. UNCHANGED <<tempo, lastApplied, calls, link, syncPc, syncTempo, applying>>
    BY <1>2 DEF OnBpmChanged, syncVars
  <2>2. Positive' /\ Single' /\ NoSession'
    BY <2>1 DEF Positive, Single, NoSession, AllIdle, ApplyingIsTransient
  <2>3. ASSUME link = "on" PROVE Linked' /\ Local'
    <3>1. Flushing /\ ~AllIdle /\ Flushing' /\ ~AllIdle'
      BY <1>2, <2>1, <2>3 DEF Single, ApplyingIsTransient, Flushing, AllIdle
    <3>2. Linked'
      BY <2>1, <2>3, <3>1 DEF Linked, Known, Unseen, Joined, AsApplied, CloseToSeen
    <3>3. ASSUME lastWord = "local" PROVE OwnTempos' /\ Agreeing'
      BY <2>1, <2>3, <3>1, <3>3 DEF Local, OwnTempos, Agreeing, Unseen
    <3>4. QED BY <3>2, <3>3 DEF Local
  <2>4. QED BY <2>1, <2>2, <2>3
<1>3. CASE ~applying /\ link = "on"
  <2>1. /\ lastApplied' = q
        /\ \/ Near(tempo, q) /\ UNCHANGED <<tempo, calls>>
           \/ ~Near(tempo, q) /\ tempo' = q /\ (calls' = calls \/ calls' = Append(calls, q))
    BY <1>1, <1>3, Nearness DEF OnBpmChanged, q, Near
  <2>2. ~Flushing /\ UNCHANGED <<syncPc, syncTempo, applying, link>>
    BY <1>3 DEF Single, Flushing, syncVars
  <2>3. lastLink # None
    <3>1. Joined BY <1>3 DEF Linked
    <3>2. notify # "none" \/ configuring # "no" OBVIOUS
    <3>3. lastApplied # None BY ONLY <2>2, <3>1, <3>2 DEF Joined
    <3>4. QED BY <3>1, <3>3 DEF Joined
  <2>4. Positive'
    <3>1. Positive /\ calls \in Seq(Nat) OBVIOUS
    <3>2. CASE UNCHANGED <<tempo, calls>>
      BY ONLY <3>1, <3>2 DEF Positive
    <3>3. CASE tempo' = q /\ (calls' = calls \/ calls' = Append(calls, q))
      BY ONLY <1>1, <3>1, <3>3 DEF Positive
    <3>4. QED BY ONLY <2>1, <3>2, <3>3
  <2>5. Single' /\ NoSession'
    BY <1>3, <2>2 DEF Single, NoSession, ApplyingIsTransient
  <2>6. Known'
    BY <1>1, <1>3, <2>1 DEF Linked, Known, Unseen
  <2>7. Joined'
    BY <1>1, <2>1, <2>3 DEF Joined
  <2>8. AsApplied'
    BY <2>1 DEF AsApplied, q
  <2>9. CloseToSeen'
    BY <1>1, <2>1, <2>3, Nearness DEF CloseToSeen, Unseen
  <2>10. ASSUME lastWord = "local" PROVE OwnTempos' /\ Agreeing'
    <3>1. Near(tempo', q)
      BY <1>1, <2>1, Nearness
    <3>2. calls # <<>> => Near(tempo, q)
      BY <1>3, <2>2, <2>10 DEF Local, OwnTempos, ToPush, q
    <3>3. \A i \in 1 .. Len(calls') : calls'[i] = tempo' /\ tempo' \in Rounded
      <4>1. CASE UNCHANGED <<tempo, calls>>
        BY <1>3, <2>10, <4>1 DEF Local, OwnTempos
      <4>2. CASE calls = <<>> /\ tempo' = q /\ (calls' = calls \/ calls' = Append(calls, q))
        BY <1>1, <4>2
      <4>3. QED BY <2>1, <3>2, <4>1, <4>2
    <3>4. OwnTempos'
      BY <1>3, <2>1, <2>2, <2>10, <3>1, <3>3 DEF Local, OwnTempos, q
    <3>5. Agreeing'
      BY <1>1, <1>3, <2>1, <2>2, <2>10, <3>1 DEF Local, Agreeing, Flushing, AllIdle, q
    <3>6. QED BY <3>4, <3>5
  <2>11. QED
    BY <2>4, <2>5, <2>6, <2>7, <2>8, <2>9, <2>10 DEF Linked, Local
<1>4. QED BY <1>2, <1>3

\* The commands, and the states they publish, touch neither the BPM nor the session.
LEMMA CommandKeepsTogether ==
  ASSUME Quietly, NEW c \in Commands, Transport(c) \/ Command(c)
  PROVE  Together'
<1> USE DEF Quietly, Types, ClockTypes
<1>1. /\ UNCHANGED <<bpm, notify, configuring, sessionVars, syncVars, lastWord>>
      /\ \A p \in {"notify", "configure"} : published'[p] = published[p]
  BY DEF Transport, Command, StatePublished, StateWritten, historyVars
<1>2. Current'
  BY <1>1 DEF Together, Current
<1>3. QED
  BY <1>1, <1>2 DEF sessionVars, syncVars, Together, Positive, Single, ApplyingIsTransient,
     NoSession, Linked, Known, Joined, AsApplied, CloseToSeen, Local, OwnTempos, Agreeing,
     AllIdle, Flushing, Unseen, ToPush

LEMMA AnnounceKeepsTogether ==
  ASSUME Quietly, Announce
  PROVE  Together'
<1> USE DEF Quietly, Types, ClockTypes, SessionTypes, SyncTypes, Together
<1>1. CASE NotifyChanged
  <2>1. OnBpmChanged(bpm) /\ Current'
    BY <1>1 DEF NotifyChanged, Current
  <2>2. QED BY <1>1, <2>1, PushKeepsTogether DEF NotifyChanged, ToPush, syncVars, historyVars
<1>2. CASE ConfigureChanged
  <2>1. OnBpmChanged(bpm) /\ Current'
    BY <1>2 DEF ConfigureChanged, Current
  <2>2. notify # "dying"
    BY DEF Single
  <2>3. QED BY <1>2, <2>1, <2>2, PushKeepsTogether DEF ConfigureChanged, ToPush, syncVars, historyVars
<1>3. CASE NotifyEnds
  <2>1. /\ notify = "check" /\ notify' = "none" /\ UNCHANGED <<bpm, published, configuring, sessionVars, applying, syncTempo, lastWord>>
        /\ \A s \in Syncs : syncPc'[s] = IF syncPc[s] = "flush" THEN "flushed" ELSE syncPc[s]
        /\ Flushing' <=> Flushing
        /\ AllIdle' <=> AllIdle
        /\ ToPush' <=> ToPush
    BY <1>3 DEF NotifyEnds, Resume, Flushing, AllIdle, ToPush, historyVars
  <2>2. ApplyingIsTransient'
    BY <2>1 DEF Single, ApplyingIsTransient
  <2>3. Single'
    BY <2>1, <2>2 DEF Single, sessionVars
  <2>4. Current' /\ Positive' /\ NoSession'
    BY <2>1 DEF Current, Positive, NoSession, sessionVars
  <2>5. ASSUME link = "on" PROVE Linked' /\ Local'
    <3>1. Linked'
      BY <2>1, <2>5 DEF Linked, Known, Unseen, Joined, AsApplied, CloseToSeen, sessionVars
    <3>2. ASSUME lastWord = "local" PROVE OwnTempos' /\ Agreeing'
      BY <2>1, <2>5, <3>2 DEF Local, OwnTempos, Agreeing, Unseen, sessionVars
    <3>3. QED BY <2>1, <3>1, <3>2 DEF Local
  <2>6. QED BY <2>1, <2>3, <2>4, <2>5 DEF sessionVars
<1>4. CASE NotifyStart \/ NotifyOutputs \/ ConfigureEnds \/ PublishOutputs
  <2>1. /\ UNCHANGED <<bpm, sessionVars, syncVars, lastWord>>
        /\ ToPush' <=> ToPush
        /\ configuring' = "changed" <=> configuring = "changed"
        /\ configuring = "no" => configuring' = "no"
        /\ notify = "none" <=> notify' = "none"
        /\ notify # "dying" => notify' # "dying"
        /\ Current'
    BY <1>4 DEF NotifyStart, NotifyOutputs, ConfigureEnds, PublishOutputs, ToPush, Current, historyVars
  <2>2. Positive' /\ Single' /\ NoSession'
    BY <2>1 DEF Positive, Single, NoSession, AllIdle, ApplyingIsTransient, sessionVars, syncVars
  <2>3. ASSUME link = "on" PROVE Linked' /\ Local'
    BY <2>1, <2>3 DEF Linked, Known, Unseen, Joined, AsApplied, CloseToSeen, Local, OwnTempos, Agreeing,
       AllIdle, Flushing, sessionVars, syncVars
  <2>4. QED BY <2>1, <2>2, <2>3 DEF sessionVars
<1>5. CASE NotifyDies
  BY <1>5 DEF NotifyDies, Single
<1>6. QED BY <1>1, <1>2, <1>3, <1>4, <1>5 DEF Announce

-----------------------------------------------------------------------------
(* The steps that bring a session tempo to the clock. *)

LEMMA LastOfTail ==
  ASSUME NEW c \in Seq(Nat), c # <<>>, Len(c) # 1
  PROVE  Tail(c) # <<>> /\ Tail(c)[Len(Tail(c))] = c[Len(c)]
<1>1. Len(c) \in Nat /\ Len(c) # 0
  BY EmptySeq
<1>2. /\ Len(Tail(c)) = Len(c) - 1
      /\ \A i \in 1 .. Len(Tail(c)) : Tail(c)[i] = c[i + 1]
  BY HeadTailProperties, Zenon
<1>3. Len(c) - 1 \in 1 .. Len(Tail(c)) /\ Len(Tail(c)) # 0 /\ (Len(c) - 1) + 1 = Len(c)
  BY <1>1, <1>2
<1>4. Tail(c)[Len(c) - 1] = c[Len(c)]
  BY <1>2, <1>3, Zenon
<1>5. Tail(c) # <<>>
  BY <1>3, EmptySeq, Zenon
<1>6. QED BY <1>2, <1>4, <1>5, Zenon

\* Without a mishap a task sets out only when no other one is under way.
LEMMA SyncStartKeepsTogether ==
  ASSUME Quietly, NEW s \in Syncs, NEW t \in Nat, t > 0,
         SyncStart(s, t),
         UNCHANGED <<bpm, notify, published, configuring, link, tempo, lastApplied, applying, lastWord>>,
         \/ link = "on" /\ t = tempo /\ calls' = calls
         \/ calls # <<>> /\ t = Head(calls) /\ calls' = Tail(calls),
         syncPc[s] = "idle"
  PROVE  Together'
<1> USE DEF Quietly, Types, SessionTypes, SyncTypes, Together
<1>1. /\ lastLink' = t
      /\ AllIdle
      /\ \A r \in Syncs : /\ syncPc'[r] = IF r = s THEN "status" ELSE "idle"
                          /\ r = s => syncTempo'[r] = t
      /\ ~AllIdle' /\ ~Flushing /\ ~Flushing'
      /\ t # None
  BY DEF SyncStart, AllIdle, Flushing
<1>2. ~applying /\ ~applying'
  BY <1>1 DEF Single, ApplyingIsTransient, AllIdle
<1>3. Current'
  BY DEF Current
<1>10. \A i \in 1 .. Len(calls') : \E j \in 1 .. Len(calls) : calls'[i] = calls[j]
  <2>1. ASSUME NEW i \in 1 .. Len(calls')
        PROVE  \E j \in 1 .. Len(calls) : calls'[i] = calls[j]
    <3>1. CASE calls' = calls
      BY <3>1
    <3>2. CASE calls # <<>> /\ calls' = Tail(calls)
      <4>1. calls'[i] = calls[i + 1] /\ i + 1 \in 1 .. Len(calls)
        BY <3>2
      <4>2. QED BY <4>1
    <3>3. QED BY <3>1, <3>2
  <2>2. QED BY <2>1
<1>4. Positive'
  BY <1>10 DEF Positive
<1>5. Single'
  BY <1>1, <1>2 DEF Single, ApplyingIsTransient
<1>6. NoSession'
  BY DEF NoSession
<1>7. ASSUME link = "on" PROVE Known' /\ (lastWord = "local" => t = tempo /\ tempo \in Rounded)
  <2>1. Known /\ Local
    BY <1>7 DEF Linked
  <2>2. Near(t, t)
    BY DEF Near, Distance
  <2>3. CASE t = tempo /\ calls' = calls
    <3>1. ~Unseen'
      BY <1>1, <2>2, <2>3 DEF Unseen
    <3>2. Unseen
      BY <2>3, SessionChangedIsNews DEF SyncStart, Unseen
    <3>3. Known'
      BY <2>1, <2>3, <3>1 DEF Known
    <3>4. ASSUME lastWord = "local" PROVE tempo \in Rounded
      BY <2>1, <3>2, <3>4 DEF Known, Local, OwnTempos
    <3>5. QED BY <2>3, <3>3, <3>4
  <2>4. CASE calls # <<>> /\ t = Head(calls) /\ calls' = Tail(calls)
    <3>1. t = calls[1] /\ 1 \in 1 .. Len(calls)
      BY <2>4
    <3>2. CASE Len(calls) = 1
      <4>1. calls' = <<>>
        BY <2>4, <3>2
      <4>2. tempo \in Rounded \/ t = tempo
        BY <2>1, <2>4, <3>1, <3>2 DEF Known
      <4>3. t = tempo => ~Unseen'
        BY <1>1, <2>2 DEF Unseen
      <4>4. QED BY <2>1, <3>1, <4>1, <4>2, <4>3 DEF Known, Local, OwnTempos
    <3>3. CASE Len(calls) # 1
      <4>1. calls' # <<>> /\ calls'[Len(calls')] = calls[Len(calls)]
        BY LastOfTail, <2>4, <3>3
      <4>2. Known /\ calls # <<>> /\ UNCHANGED tempo BY <2>1, <2>4
      <4>3. Known' BY ONLY <4>1, <4>2 DEF Known
      <4>4. QED BY <2>1, <3>1, <4>3 DEF Local, OwnTempos
    <3>4. QED BY <3>2, <3>3
  <2>5. QED BY <2>3, <2>4
<1>8. ASSUME link = "on" PROVE Joined' /\ AsApplied' /\ CloseToSeen'
  <2>1. Joined /\ AsApplied
    BY <1>8 DEF Linked
  <2>2. QED BY <1>1, <2>1 DEF Joined, AsApplied, CloseToSeen, ToPush
<1>9. ASSUME link = "on", lastWord = "local" PROVE OwnTempos' /\ Agreeing'
  <2>1. OwnTempos /\ t = tempo /\ tempo \in Rounded
    BY <1>7, <1>9 DEF Local
  <2>2. \A i \in 1 .. Len(calls') : calls'[i] = tempo
    BY <1>10, <2>1 DEF OwnTempos
  <2>3. calls' # <<>> => calls # <<>>
    OBVIOUS
  <2>4. OwnTempos'
    BY <1>1, <2>1, <2>2, <2>3 DEF OwnTempos, ToPush
  <2>5. Agreeing'
    BY <1>1, <2>1 DEF Agreeing
  <2>6. QED BY <2>4, <2>5
<1>11. QED BY <1>3, <1>4, <1>5, <1>6, <1>7, <1>8, <1>9 DEF Linked, Local

\* A callback that reports what was seen already changes nothing.
LEMMA OldNewsKeepsTogether ==
  ASSUME Quietly, calls # <<>>, calls' = Tail(calls), ~SessionChanged(Head(calls)),
         UNCHANGED <<bpm, notify, published, configuring, link, tempo, lastLink, lastApplied, lastWord>>,
         UNCHANGED syncVars
  PROVE  Together'
<1> USE DEF Quietly, Types, SessionTypes, SyncTypes, Together
<1>1. /\ Head(calls) = calls[1] /\ 1 \in 1 .. Len(calls) /\ calls[1] \in Nat
      /\ \A i \in 1 .. Len(calls') : calls'[i] = calls[i + 1] /\ i + 1 \in 1 .. Len(calls)
  OBVIOUS
<1>2. lastLink # None /\ Near(lastLink, calls[1])
  BY <1>1, SessionChangedIsNews
<1>3. UNCHANGED <<applying, syncPc, syncTempo>>
  BY DEF syncVars
<1>4. Current' /\ Single' /\ NoSession'
  BY <1>3 DEF Current, Single, NoSession, AllIdle, ApplyingIsTransient
<1>5. Positive'
  BY <1>1 DEF Positive
<1>6. ASSUME link = "on" PROVE Linked'
  <2>1. Known
    BY <1>6 DEF Linked
  <2>2. Known'
    <3>1. CASE Len(calls) = 1
      <4>1. calls' = <<>>
        BY <3>1
      <4>2. tempo \in Rounded \/ calls[1] = tempo
        BY <2>1, <3>1 DEF Known
      <4>3. QED BY <1>2, <4>1, <4>2 DEF Known, Unseen
    <3>2. CASE Len(calls) # 1
      <4>1. calls' # <<>> /\ calls'[Len(calls')] = calls[Len(calls)]
        BY LastOfTail, <3>2
      <4>2. Known /\ calls # <<>> /\ UNCHANGED tempo BY <2>1
      <4>3. QED BY ONLY <4>1, <4>2 DEF Known
    <3>3. QED BY <3>1, <3>2
  <2>3. Joined'
    BY <1>2, <1>3, <1>6 DEF Linked, Joined, AllIdle, Flushing
  <2>4. AsApplied' /\ CloseToSeen'
    BY <1>3, <1>6 DEF Linked, AsApplied, CloseToSeen, AllIdle, Flushing, Unseen, ToPush
  <2>5. QED BY <2>2, <2>3, <2>4 DEF Linked
<1>7. ASSUME link = "on", lastWord = "local" PROVE OwnTempos' /\ Agreeing'
  <2>1. OwnTempos /\ Agreeing
    BY <1>7 DEF Local
  <2>2. \A i \in 1 .. Len(calls') : calls'[i] = tempo /\ tempo \in Rounded
    BY <1>1, <2>1 DEF OwnTempos
  <2>3. OwnTempos'
    BY <1>3, <2>1, <2>2 DEF OwnTempos, ToPush, Flushing
  <2>4. Agreeing'
    BY <1>3, <2>1 DEF Agreeing, AllIdle, ToPush, Unseen
  <2>5. QED BY <2>3, <2>4
<1>8. QED BY <1>4, <1>5, <1>6, <1>7 DEF Local

\* A session tempo that is on the clock is remembered as the one applied last.
LEMMA AppliedKeepsTogether ==
  ASSUME Quietly, NEW s \in Syncs, syncPc[s] \in {"status", "flushed"},
         notify = "none", bpm = Clamp(Quantize(syncTempo[s])),
         lastApplied' = Quantize(syncTempo[s]), applying' = FALSE, EndSync(s),
         UNCHANGED <<bpm, notify, published, configuring, link, tempo, lastLink, calls, lastWord>>
  PROVE  Together'
<1> USE DEF Quietly, Types, SessionTypes, SyncTypes, Together
<1> DEFINE t == syncTempo[s]
           q == Quantize(t)
<1>1. t \in Nat /\ q \in Nat /\ lastApplied' = q /\ bpm = Clamp(q) /\ t # None
  BY QuantizeType
<1>2. /\ \A r \in Syncs : r # s => syncPc[r] = "idle"
      /\ AllIdle' /\ ~Flushing' /\ ~AllIdle
      /\ \A r \in Syncs : syncPc'[r] = "idle"
  BY DEF Single, EndSync, AllIdle, Flushing
<1>3. link # "off"
  BY <1>2 DEF NoSession
<1>4. Current' /\ Positive' /\ NoSession'
  BY <1>3 DEF Current, Positive, NoSession
<1>5. Single'
  BY <1>2 DEF Single, ApplyingIsTransient
<1>6. ASSUME link = "on" PROVE Linked' /\ lastLink = t
  <2>1. Known /\ Joined /\ lastLink = t
    BY <1>6 DEF Linked, Single
  <2>2. Known'
    BY <2>1 DEF Known, Unseen
  <2>3. Joined'
    BY <1>1, <2>1 DEF Joined
  <2>4. AsApplied' /\ CloseToSeen'
    BY <1>1, <2>1 DEF AsApplied, CloseToSeen
  <2>5. QED BY <2>1, <2>2, <2>3, <2>4 DEF Linked
<1>7. ASSUME link = "on", lastWord = "local" PROVE OwnTempos' /\ Agreeing'
  <2>1. OwnTempos
    BY <1>7 DEF Local
  <2>2. t \in Rounded
    BY <2>1 DEF OwnTempos
  <2>3. q = t /\ Quantize(bpm) = t
    BY <1>1, <2>2, RoundedFixed
  <2>4. calls # <<>> /\ configuring = "changed" => Near(tempo, Quantize(bpm))
    BY <2>1 DEF OwnTempos
  <2>5. OwnTempos'
    BY <1>1, <1>2, <2>1, <2>3, <2>4 DEF OwnTempos, ToPush
  <2>6. Near(tempo, t) \/ Unseen'
    BY <1>1, <1>6, <1>7, Nearness DEF Unseen
  <2>7. Agreeing'
    BY <1>2, <2>3, <2>6 DEF Agreeing
  <2>8. QED BY <2>5, <2>7
<1>8. QED BY <1>4, <1>5, <1>6, <1>7 DEF Local

\* A session tempo is left alone when it is close to the one applied last ...
LEMMA LeftAloneKeepsTogether ==
  ASSUME Quietly, NEW s \in Syncs, syncPc[s] = "status",
         ~ShouldApply(syncTempo[s]), FollowWhenRunning \/ ~transport, EndSync(s),
         UNCHANGED <<bpm, notify, published, configuring, link, tempo, lastLink, lastApplied, calls,
                     applying, lastWord>>
  PROVE  Together'
<1> USE DEF Quietly, Types, SessionTypes, SyncTypes, Together
<1> DEFINE t == syncTempo[s]
<1>1. t \in Nat /\ t # None
  OBVIOUS
<1>2. /\ \A r \in Syncs : r # s => syncPc[r] = "idle"
      /\ AllIdle' /\ ~Flushing /\ ~Flushing' /\ ~AllIdle
      /\ \A r \in Syncs : syncPc'[r] = "idle"
  BY DEF Single, EndSync, AllIdle, Flushing
<1>3. link # "off" /\ ~applying
  BY <1>2 DEF NoSession, Single, ApplyingIsTransient
<1>4. Current' /\ Positive' /\ NoSession'
  BY <1>3 DEF Current, Positive, NoSession
<1>5. Single'
  BY <1>2, <1>3 DEF Single, ApplyingIsTransient
<1>6. ASSUME link = "on"
      PROVE  lastLink = t /\ lastApplied \in Nat /\ Near(t, lastApplied)
  <2>1. lastLink = t /\ t > 0
    BY <1>6 DEF Single
  <2>2. ~ShouldApply(t)
    BY <1>1, <2>1
  <2>3. QED BY <1>1, <2>1, <2>2 DEF ShouldApply, Near, Distance
<1>7. ASSUME link = "on" PROVE Linked'
  <2>1. Known /\ Joined /\ AsApplied
    BY <1>7 DEF Linked
  <2>2. Known'
    BY <2>1 DEF Known, Unseen
  <2>3. Joined'
    BY <1>6, <1>7, <1>1 DEF Joined
  <2>4. AsApplied'
    BY <1>2, <2>1 DEF AsApplied, ToPush
  <2>5. CloseToSeen'
    BY <1>1, <1>6, <1>7, Nearness DEF CloseToSeen
  <2>6. QED BY <2>2, <2>3, <2>4, <2>5 DEF Linked
<1>8. ASSUME link = "on", lastWord = "local" PROVE OwnTempos' /\ Agreeing'
  <2>1. OwnTempos /\ Agreeing
    BY <1>8 DEF Local
  <2>2. OwnTempos'
    BY <1>2, <2>1 DEF OwnTempos, ToPush
  <2>3. ASSUME ~ToPush PROVE Near(tempo, Quantize(bpm))
    <3>1. lastApplied = Quantize(bpm)
      BY <1>2, <2>1, <2>3 DEF OwnTempos
    <3>2. t = tempo \/ lastApplied = tempo
      BY <2>1 DEF Agreeing
    <3>3. QED BY <1>1, <1>6, <1>8, <3>1, <3>2, Nearness
  <2>4. Agreeing'
    BY <1>2, <2>3 DEF Agreeing, ToPush
  <2>5. QED BY <2>2, <2>4
<1>9. QED BY <1>4, <1>5, <1>7, <1>8 DEF Local

\* ... or set, and flushed when that is announced: nothing else has read the BPM.
LEMMA SetKeepsTogether ==
  ASSUME Quietly, NEW s \in Syncs, syncPc[s] = "status", ShouldApply(syncTempo[s]),
         SetBpm(Quantize(syncTempo[s])), Missed(Quantize(syncTempo[s])) = {},
         notify' # "none", applying' = TRUE,
         syncPc' = [syncPc EXCEPT ![s] = "flush"],
         UNCHANGED <<published, configuring, link, tempo, lastLink, lastApplied, calls,
                     syncTempo, lastWord>>
  PROVE  Together'
<1> USE DEF Quietly, Types, SessionTypes, SyncTypes, Together
<1> DEFINE t == syncTempo[s]
           q == Quantize(t)
<1>1. t \in Nat /\ q \in Nat /\ t # None /\ bpm' = Clamp(q)
  BY QuantizeType DEF SetBpm
<1>2. /\ \A r \in Syncs : r # s => syncPc[r] = "idle"
      /\ \A r \in Syncs : syncPc'[r] = IF r = s THEN "flush" ELSE "idle"
      /\ ~AllIdle' /\ ~AllIdle /\ Flushing' /\ ~Flushing
  BY DEF Single, AllIdle, Flushing
<1>3. \/ bpm' = bpm /\ notify' = notify
      \/ configuring = "no" /\ notify \in {"none", "asleep"} /\ notify' = "asleep"
  <2>1. notify # "dying"
    BY DEF Single
  <2>2. Clamp(q) = bpm \/ (notify \in {"none", "asleep"} /\ configuring = "no")
    BY <2>1 DEF Missed, Publishing, ClockTypes, FlagTypes
  <2>3. QED BY <2>2 DEF SetBpm
<1>4. link # "off"
  BY <1>2 DEF NoSession
<1>5. Current'
  BY <1>3 DEF Current
<1>6. Positive' /\ NoSession'
  BY <1>4 DEF Positive, NoSession
<1>7. Single'
  <2>1. notify' # "dying"
    BY <1>3 DEF Single
  <2>2. QED BY <1>1, <1>2, <2>1 DEF Single, ApplyingIsTransient
<1>8. ASSUME link = "on" PROVE Linked'
  <2>1. Known /\ Joined
    BY <1>8 DEF Linked
  <2>2. lastLink # None
    BY <1>1, <1>8 DEF Single
  <2>3. Known'
    BY <2>1 DEF Known, Unseen
  <2>4. Joined' /\ AsApplied' /\ CloseToSeen'
    BY <1>2, <2>1, <2>2 DEF Joined, AsApplied, CloseToSeen
  <2>5. QED BY <2>3, <2>4 DEF Linked
<1>9. ASSUME link = "on", lastWord = "local" PROVE OwnTempos' /\ Agreeing'
  <2>1. OwnTempos /\ Agreeing
    BY <1>9 DEF Local
  <2>2. configuring = "changed" => bpm' = bpm
    BY <1>3
  <2>3. OwnTempos'
    BY <1>2, <2>1, <2>2 DEF OwnTempos
  <2>4. t = tempo \/ ~Near(t, tempo)
    <3>1. t = tempo \/ lastApplied = tempo
      BY <2>1 DEF Agreeing
    <3>2. lastApplied = tempo => Distance(t, tempo) >= MinDelta
      BY DEF ShouldApply
    <3>3. QED BY <1>1, <3>1, <3>2, Nearness
  <2>5. Agreeing'
    BY <1>2, <2>4 DEF Agreeing
  <2>6. QED BY <2>3, <2>5
<1>10. QED BY <1>5, <1>6, <1>7, <1>8, <1>9 DEF Local

\* A step of the session, by poll or callback.
LEMMA SyncKeepsTogether ==
  ASSUME Quietly, Poll \/ \E s \in Syncs : Sync(s)
  PROVE  Together'
<1> USE DEF Quietly, Types, SessionTypes, SyncTypes, Together
<1>1. CASE Poll
  <2>1. "poll" \in Syncs /\ tempo \in Nat /\ tempo > 0
    BY DEF Syncs, Positive
  <2>2. QED BY <1>1, <2>1, SyncStartKeepsTogether DEF Poll, clockVars, stateVars
<1>2. ASSUME NEW s \in Syncs, Callback(s) PROVE Together'
  <2>1. Head(calls) \in Nat /\ Head(calls) > 0
    <3>1. Head(calls) = calls[1] /\ 1 \in 1 .. Len(calls) /\ calls[1] \in Nat
      BY <1>2 DEF Callback
    <3>2. QED BY <3>1 DEF Positive
  <2>2. CASE SyncStart(s, Head(calls))
    BY <1>2, <2>1, <2>2, SyncStartKeepsTogether DEF Callback, clockVars, stateVars
  <2>3. CASE ~SessionChanged(Head(calls)) /\ UNCHANGED <<lastLink, syncPc, syncTempo, upsets>>
    BY <1>2, <2>3, OldNewsKeepsTogether DEF Callback, clockVars, stateVars, syncVars
  <2>4. QED BY <1>2, <2>2, <2>3 DEF Callback
<1>3. ASSUME NEW s \in Syncs, SyncApply(s) PROVE Together'
  <2> DEFINE q == Quantize(syncTempo[s])
  <2>1. syncPc[s] = "status" /\ UNCHANGED <<published, configuring, link, tempo, lastLink, calls, lastWord>>
    BY <1>3 DEF SyncApply
  <2>2. CASE /\ ~ShouldApply(syncTempo[s]) /\ EndSync(s)
             /\ upsets' = upsets \cup (IF transport /\ ~FollowWhenRunning THEN {"skipped"} ELSE {})
             /\ UNCHANGED <<bpm, notify, applying, lastApplied>>
    BY <2>1, <2>2, LeftAloneKeepsTogether
  <2>3. CASE /\ ShouldApply(syncTempo[s]) /\ SetBpm(q) /\ upsets' = upsets \cup Missed(q)
             /\ notify' # "none" /\ applying' = TRUE /\ syncPc' = [syncPc EXCEPT ![s] = "flush"]
             /\ UNCHANGED <<lastApplied, syncTempo>>
    BY <2>1, <2>3, SetKeepsTogether
  <2>4. CASE /\ ShouldApply(syncTempo[s]) /\ SetBpm(q) /\ upsets' = upsets \cup Missed(q)
             /\ notify' = "none" /\ applying' = FALSE /\ lastApplied' = q /\ EndSync(s)
    <3>1. notify = "none" /\ bpm' = bpm /\ bpm = Clamp(q)
      BY <2>4 DEF SetBpm
    <3>2. QED BY <2>1, <2>4, <3>1, AppliedKeepsTogether
  <2>5. QED BY <1>3, <2>2, <2>3, <2>4 DEF SyncApply
<1>4. ASSUME NEW s \in Syncs, SyncEnd(s) PROVE Together'
  <2>1. CASE syncPc[s] = "flushed" /\ lastApplied' = Quantize(syncTempo[s])
    <3>1. notify = "none" /\ bpm = Clamp(Quantize(syncTempo[s]))
      BY <2>1 DEF Single
    <3>2. QED BY <1>4, <2>1, <3>1, AppliedKeepsTogether DEF SyncEnd, clockVars, stateVars, historyVars
  <2>2. CASE syncPc[s] = "cancelled" /\ UNCHANGED lastApplied
    <3>1. /\ link # "on" /\ link # "off"
          /\ \A r \in Syncs : r # s => syncPc[r] = "idle"
      BY <2>2 DEF Single, NoSession, AllIdle
    <3>2. \A r \in Syncs : syncPc'[r] = "idle"
      BY <1>4, <3>1 DEF SyncEnd, EndSync
    <3>3. ~applying' /\ UNCHANGED <<clockVars, link, tempo, calls>>
      BY <1>4 DEF SyncEnd
    <3>4. Single'
      BY <3>1, <3>2, <3>3 DEF Single, ApplyingIsTransient, clockVars, stateVars
    <3>5. QED BY <3>1, <3>3, <3>4 DEF Current, Positive, NoSession, clockVars, stateVars
  <2>3. QED BY <1>4, <2>1, <2>2 DEF SyncEnd
<1>5. QED BY <1>1, <1>2, <1>3, <1>4 DEF Sync

-----------------------------------------------------------------------------
(* The theorems. *)

\* As long as nothing went wrong the clock and the session are tied together: what
\* has been seen, what has been applied and what is on its way account for any
\* difference between them.
THEOREM SyncInvariant == Spec => []SyncInv
<1>1. Init => SyncInv
  <2> SUFFICES ASSUME Init PROVE Together
    BY DEF SyncInv
  <2>1. tempo > 0
    BY DEF Init
  <2>2. Current /\ Positive /\ NoSession
    BY <2>1 DEF Init, Current, Positive, NoSession, AllIdle
  <2>3. Single
    BY DEF Init, Single, ApplyingIsTransient
  <2>4. QED BY <2>2, <2>3 DEF Together, Init
<1>2. Types /\ Types' /\ SyncInv /\ [Next]_vars => SyncInv'
  <2> SUFFICES ASSUME Types, Types', SyncInv, [Next]_vars, upsets' = {} PROVE Together'
    BY DEF SyncInv
  <2>1. CASE UNCHANGED vars
    <3>1. Together
      BY <2>1 DEF SyncInv, vars, historyVars
    <3>2. QED
      BY <2>1, <3>1 DEF vars, clockVars, stateVars, sessionVars, syncVars, historyVars, Together, Current,
         Positive, Single, ApplyingIsTransient, NoSession, Linked, Known, Joined, AsApplied,
         CloseToSeen, Local, OwnTempos, Agreeing, AllIdle, Flushing, Unseen, ToPush
  <2>2. CASE Next
    <3>1. upsets \subseteq upsets'
      BY <2>2 DEF Next, LocalBpm, Configure, TrackClock, Transport, LinkTempo, EnableLink,
         DisableLink, Announce, NotifyStart, NotifyChanged, NotifyOutputs, NotifyEnds,
         NotifyDies, ConfigureChanged, ConfigureEnds, PublishOutputs, Command,
         StatePublished, StateWritten, Poll, Sync, Callback,
         SyncStart, SyncApply, SyncEnd, LinkStopped, historyVars
    <3>2. Quietly
      BY <3>1 DEF Quietly, SyncInv
    <3>3. ASSUME NEW c \in Commands, Transport(c) \/ Command(c) PROVE Together'
      BY <3>2, <3>3, CommandKeepsTogether
    <3>4. ASSUME NEW b \in LocalBpms, TrackClock(b) PROVE FALSE
      BY <3>4 DEF TrackClock
    <3>5. CASE Announce
      BY <3>2, <3>5, AnnounceKeepsTogether
    <3>6. QED
      BY <2>2, <3>2, <3>3, <3>4, <3>5, LocalKeepsTogether, PeerKeepsTogether,
         LeaveKeepsTogether, SyncKeepsTogether DEF Next
  <2>3. QED BY <2>1, <2>2
<1>3. QED
  BY <1>1, <1>2, TypesHold, PTL DEF Spec

\* When nothing is left to do the session has been seen, and the clock is not to be pushed.
LEMMA QuietMeans ==
  ASSUME Types, SyncInv, Quiet, link = "on", upsets = {}
  PROVE  /\ Linked /\ Local /\ AllIdle /\ ~ToPush /\ ~Flushing /\ ~Unseen
         /\ lastLink \in Nat /\ lastApplied \in Nat /\ Near(lastLink, tempo)
<1> USE DEF Types, SessionTypes
<1>1. Linked /\ Local /\ AllIdle /\ ~ToPush /\ ~Flushing
  BY DEF SyncInv, Together, Quiet, AllIdle, ToPush, Flushing
<1>2. calls = <<>> /\ ~SessionChanged(tempo)
  BY DEF Quiet
<1>3. lastLink # None /\ lastApplied # None
  BY <1>1, <1>2 DEF Linked, Joined
<1>4. Near(lastLink, tempo)
  BY <1>2, <1>3, SessionChangedIsNews
<1>5. QED BY <1>1, <1>3, <1>4 DEF Unseen

\* The session follows a local change, up to min_bpm_delta, through any number of
\* changes, announcements and callbacks, as long as none of them crossed another.
THEOREM SessionFollowsClockHolds == Spec => []SessionFollowsClock
<1>1. Types /\ SyncInv => SessionFollowsClock
  <2> SUFFICES ASSUME Types, SyncInv, Quiet, link = "on", lastWord = "local", upsets = {}
               PROVE  Near(tempo, Quantize(bpm))
    BY DEF SessionFollowsClock, Near
  <2>1. Agreeing /\ AllIdle /\ ~ToPush /\ ~Unseen
    BY QuietMeans DEF Local
  <2>2. QED BY <2>1 DEF Agreeing
<1>2. QED BY <1>1, TypesHold, SyncInvariant, PTL

\* Clamping brings two tempos no farther apart.
LEMMA ClampShrinks ==
  ASSUME NEW a \in Nat, NEW b \in Nat
  PROVE  Distance(Clamp(a), Clamp(b)) <= Distance(a, b)
  BY DEF Clamp, Distance

LEMMA Triangle ==
  ASSUME NEW a \in Nat, NEW b \in Nat, NEW c \in Nat
  PROVE  Distance(a, c) <= Distance(a, b) + Distance(b, c) /\ Distance(a, b) = Distance(b, a)
  BY DEF Distance

\* The clock follows a change of the session: what is ignored along the way does not
\* add up, however many changes there were.
THEOREM ClockFollowsSessionHolds == Spec => []ClockFollowsSession
<1>1. Types /\ SyncInv => ClockFollowsSession
  <2> SUFFICES ASSUME Types, SyncInv, Quiet, link = "on", upsets = {}
               PROVE  2 * Distance(bpm, Clamp(tempo)) <= 6 * (MinDelta - 1) + QuantizeStep
    BY DEF ClockFollowsSession
  <2> DEFINE D == MinDelta - 1
             A == lastApplied
             L == lastLink
  <2>1. /\ bpm \in BpmMin .. BpmMax /\ bpm \in Nat /\ tempo \in Nat
        /\ L \in Nat /\ A \in Nat /\ D \in Nat /\ QuantizeStep \in Nat
        /\ Clamp(tempo) \in Nat /\ Clamp(L) \in Nat /\ Clamp(A) \in Nat
    BY QuietMeans DEF Types, ClockTypes, SessionTypes, Clamp
  <2>2. Distance(L, tempo) <= D
    BY <2>1, QuietMeans DEF Near, Distance
  <2>3. \/ Distance(L, A) <= 2 * D
        \/ A = Quantize(L) /\ bpm = Clamp(A)
    BY <2>1, QuietMeans DEF Linked, CloseToSeen
  <2>4. bpm = Clamp(A) \/ A = Quantize(bpm)
    BY <2>1, QuietMeans DEF Linked, AsApplied
  <2>5. 2 * Distance(bpm, Clamp(A)) <= QuantizeStep
    <3>1. CASE bpm = Clamp(A)
      BY <2>1, <3>1 DEF Distance
    <3>2. CASE A = Quantize(bpm)
      <4>1. 2 * Distance(bpm, A) <= QuantizeStep
        BY <2>1, <3>2, QuantizeClose DEF Distance
      <4>2. Clamp(bpm) = bpm /\ Distance(Clamp(bpm), Clamp(A)) <= Distance(bpm, A)
        BY <2>1, ClampFixed, ClampShrinks
      <4>3. Distance(bpm, A) \in Nat /\ Distance(bpm, Clamp(A)) \in Nat
        BY <2>1 DEF Distance
      <4>4. QED BY <2>1, <4>1, <4>2, <4>3
    <3>3. QED BY <2>4, <3>1, <3>2
  <2>6. Distance(Clamp(L), Clamp(tempo)) <= D
    <3>1. Distance(Clamp(L), Clamp(tempo)) <= Distance(L, tempo)
      BY <2>1, ClampShrinks
    <3>2. Distance(Clamp(L), Clamp(tempo)) \in Nat /\ Distance(L, tempo) \in Nat
      BY <2>1 DEF Distance
    <3>3. QED BY <2>1, <2>2, <3>1, <3>2
  <2>7. 2 * Distance(bpm, Clamp(L)) <= 4 * D + QuantizeStep
    <3>1. CASE Distance(L, A) <= 2 * D
      <4>1. Distance(Clamp(L), Clamp(A)) <= Distance(L, A)
        BY <2>1, ClampShrinks
      <4>2. Distance(bpm, Clamp(L)) <= Distance(bpm, Clamp(A)) + Distance(Clamp(A), Clamp(L))
        BY <2>1, Triangle
      <4>3. Distance(Clamp(A), Clamp(L)) = Distance(Clamp(L), Clamp(A))
        BY <2>1, Triangle
      <4>4. /\ Distance(Clamp(L), Clamp(A)) \in Nat /\ Distance(L, A) \in Nat
            /\ Distance(bpm, Clamp(L)) \in Nat /\ Distance(bpm, Clamp(A)) \in Nat
        BY <2>1 DEF Distance
      <4> HIDE DEF D, A, L
      <4>5. QED BY <2>1, <2>5, <3>1, <4>1, <4>2, <4>3, <4>4
    <3>2. CASE A = Quantize(L) /\ bpm = Clamp(A)
      <4>1. 2 * Distance(A, L) <= QuantizeStep
        BY <2>1, <3>2, QuantizeClose DEF Distance
      <4>2. Distance(bpm, Clamp(L)) <= Distance(A, L)
        BY <2>1, <3>2, ClampShrinks
      <4>3. Distance(bpm, Clamp(L)) \in Nat /\ Distance(A, L) \in Nat
        BY <2>1 DEF Distance
      <4> HIDE DEF D, A, L
      <4>4. QED BY <2>1, <4>1, <4>2, <4>3
    <3>3. QED BY <2>3, <3>1, <3>2
  <2>8. Distance(bpm, Clamp(tempo)) <= Distance(bpm, Clamp(L)) + Distance(Clamp(L), Clamp(tempo))
    BY <2>1, Triangle
  <2>9. /\ Distance(bpm, Clamp(tempo)) \in Nat /\ Distance(bpm, Clamp(L)) \in Nat
        /\ Distance(Clamp(L), Clamp(tempo)) \in Nat
    BY <2>1 DEF Distance
  <2>10. 2 * Distance(bpm, Clamp(tempo)) <= 6 * D + QuantizeStep
    <3> HIDE DEF D, A, L
    <3>1. QED BY <2>1, <2>6, <2>7, <2>8, <2>9
  <2>11. QED BY <2>10
<1>2. QED BY <1>1, TypesHold, SyncInvariant, PTL
=============================================================================
