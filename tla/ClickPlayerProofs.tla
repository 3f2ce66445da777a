------------------------- MODULE ClickPlayerProofs --------------------------
(***************************************************************************)
(* Proofs about ClickPlayer, for any number of callers and transport       *)
(* threads: no click waits for a worker that sleeps, a release heals the   *)
(* player, and the worker of a replaced player leaves no command.          *)
(***************************************************************************)
EXTENDS ClickPlayer, TLAPS

Command == [kind : Kinds, caller : Callers]

USE DEF clickVars, commandVars, audioVars, actorVars, worldVars

-----------------------------------------------------------------------------
(* Types. *)

\* What a click in the worker's hands leaves room for.
Counters ==
  /\ attempt \in {1, 2}
  /\ burst \in 0 .. ClickBound
  /\ clicks \in 0 .. burst /\ (pc = "write" => clicks < burst)
  /\ asked \in 0 .. AskBound

\* The commands and the callers.
Queue ==
  /\ commands \in Seq(Command)
  /\ callerPc \in [Callers -> {"idle", "waiting", "answered", "closed", "joining", "left"}]

\* The worker, the tickers and the world.
Places ==
  /\ pc \in {"head", "commands", "clicks", "write", "test", "clear", "wait", "done", "dead"}
  /\ pcm \in {"none", "live", "dead"}
  /\ tickPc \in [Tickers -> {"idle", "checked", "put"}]
  /\ closing \in {"no", "replaced", "stopped"}
  /\ device \in {"ready", "busy", "missing"}
  /\ file \in Files

Flags ==
  /\ had \in BOOLEAN /\ stop \in BOOLEAN /\ wake \in BOOLEAN
  /\ unavailable \in BOOLEAN /\ wav \in BOOLEAN
  /\ ephemeral \in BOOLEAN /\ calm \in BOOLEAN

\* The type invariant is the conjunction of the four.
LEMMA TypeParts == TypeOK <=> Counters /\ Queue /\ Places /\ Flags
  BY DEF TypeOK, Counters, Queue, Places, Flags, Command

\* An attempt leaves a handle and one of six outcomes.
LEMMA Outcomes ==
  ASSUME Places
  PROVE  \A o \in Prepared \cup Attempted :
           /\ o[1] \in {"ok", "busy", "missing", "bad", "other"}
           /\ o[2] \in {"none", "live", "dead"}
  BY DEF Places, Prepared, Attempted, Opens, Writes

\* An answer takes the first command off the queue.
LEMMA ReplyKeepsQueue ==
  ASSUME Queue, Reply, commands # <<>>
  PROVE  Queue'
<1>1. Head(commands) \in Command /\ Tail(commands) \in Seq(Command)
  BY DEF Queue
<1>2. QED BY <1>1 DEF Queue, Reply, Command

LEMMA CountersStep == ASSUME Counters, [Next]_vars PROVE Counters'
<1> USE ClickAssumption DEF Counters
<1>1. CASE Worker
  <2>1. CASE Write
    <3>1. clicks' \in 0 .. burst /\ (clicks' = burst => pc' # "write")
      BY <2>1 DEF Write
    <3>2. attempt' \in {1, 2} /\ burst' = burst /\ asked' = asked
      BY <2>1 DEF Write
    <3>3. QED BY <3>1, <3>2
  <2>2. CASE Prepare \/ Release \/ Close
    BY <2>2 DEF Prepare, Release, Close, Reply
  <2>3. CASE LoopHead \/ NoCommands \/ TakeClick \/ NoClicks
    BY <2>3 DEF LoopHead, NoCommands, TakeClick, NoClicks
  <2>4. CASE Test \/ Wakes \/ Clear \/ Dies
    BY <2>4 DEF Test, Wakes, Clear, Dies
  <2>5. QED BY <1>1, <2>1, <2>2, <2>3, <2>4 DEF Worker
<1>2. CASE \E t \in Tickers : Trigger(t) \/ PutClick(t) \/ SetWake(t)
  BY <1>2 DEF Trigger, PutClick, SetWake
<1>3. CASE \E c \in Callers : (\E kind \in Kinds : Ask(kind, c)) \/ Resume(c) \/ JoinEnds(c)
  <2>1. ASSUME NEW c \in Callers, NEW kind \in Kinds, Ask(kind, c) PROVE Counters'
    BY <2>1 DEF Ask
  <2>2. ASSUME NEW c \in Callers, Resume(c) \/ JoinEnds(c) PROVE Counters'
    BY <2>2 DEF Resume, JoinEnds
  <2>3. QED BY <1>3, <2>1, <2>2
<1>4. CASE \/ \E d \in {"ready", "busy", "missing"} : DeviceChanges(d)
           \/ \E f \in Files : FileChanges(f)
  BY <1>4 DEF DeviceChanges, FileChanges
<1>5. CASE UNCHANGED vars
  BY <1>5 DEF vars
<1>6. QED BY <1>1, <1>2, <1>3, <1>4, <1>5 DEF Next

LEMMA QueueStep == ASSUME Queue, [Next]_vars PROVE Queue'
<1> USE DEF Queue, Command
<1>1. CASE Worker
  <2>1. CASE Prepare \/ Release \/ Close
    BY <1>1, <2>1, ReplyKeepsQueue DEF Prepare, Release, Close, NextCommand
  <2>2. CASE Dies
    <3>1. commands # <<>> => Tail(commands) \in Seq(Command)
      OBVIOUS
    <3>2. commands' \in {commands, Tail(commands)} /\ (commands' = commands \/ commands # <<>>)
      BY <2>2 DEF Dies, NextCommand
    <3>3. callerPc' = callerPc
      BY <2>2 DEF Dies
    <3>4. QED BY <3>1, <3>2, <3>3
  <2>3. CASE LoopHead \/ NoCommands \/ TakeClick \/ Write \/ NoClicks \/ Test \/ Wakes \/ Clear
    BY <1>1, <2>3 DEF LoopHead, NoCommands, TakeClick, Write, NoClicks, Test, Wakes, Clear
  <2>4. QED BY <1>1, <2>1, <2>2, <2>3 DEF Worker
<1>2. CASE \E t \in Tickers : Trigger(t) \/ PutClick(t) \/ SetWake(t)
  BY <1>2 DEF Trigger, PutClick, SetWake
<1>3. CASE \E c \in Callers : (\E kind \in Kinds : Ask(kind, c)) \/ Resume(c) \/ JoinEnds(c)
  <2>1. ASSUME NEW c \in Callers, NEW kind \in Kinds, Ask(kind, c) PROVE Queue'
    BY <2>1 DEF Ask
  <2>2. ASSUME NEW c \in Callers, Resume(c) \/ JoinEnds(c) PROVE Queue'
    BY <2>2 DEF Resume, JoinEnds
  <2>3. QED BY <1>3, <2>1, <2>2
<1>4. CASE \/ \E d \in {"ready", "busy", "missing"} : DeviceChanges(d)
           \/ \E f \in Files : FileChanges(f)
  BY <1>4 DEF DeviceChanges, FileChanges
<1>5. CASE UNCHANGED vars
  BY <1>5 DEF vars
<1>6. QED BY <1>1, <1>2, <1>3, <1>4, <1>5 DEF Next

LEMMA PlacesStep == ASSUME Places, [Next]_vars PROVE Places'
<1> USE DEF Places
<1>1. CASE Worker
  <2>1. CASE Prepare \/ Write
    BY <1>1, <2>1, Outcomes DEF Prepare, Write, Reply, NextCommand
  <2>2. CASE LoopHead \/ Release \/ Close \/ NoCommands \/ TakeClick
    BY <1>1, <2>2 DEF LoopHead, Release, Close, Reply, NextCommand, LetGo, NoCommands, TakeClick
  <2>3. CASE NoClicks \/ Test \/ Wakes \/ Clear \/ Dies
    BY <1>1, <2>3 DEF NoClicks, Test, Wakes, Clear, Dies
  <2>4. QED BY <1>1, <2>1, <2>2, <2>3 DEF Worker
<1>2. CASE \E t \in Tickers : Trigger(t) \/ PutClick(t) \/ SetWake(t)
  BY <1>2 DEF Trigger, PutClick, SetWake
<1>3. CASE \E c \in Callers : (\E kind \in Kinds : Ask(kind, c)) \/ Resume(c) \/ JoinEnds(c)
  BY <1>3 DEF Ask, Resume, JoinEnds, ToCurrentPlayer
<1>4. CASE \/ \E d \in {"ready", "busy", "missing"} : DeviceChanges(d)
           \/ \E f \in Files : FileChanges(f)
  BY <1>4 DEF DeviceChanges, FileChanges
<1>5. CASE UNCHANGED vars
  BY <1>5 DEF vars
<1>6. QED BY <1>1, <1>2, <1>3, <1>4, <1>5 DEF Next

LEMMA FlagsStep == ASSUME Flags, [Next]_vars PROVE Flags'
<1> USE DEF Flags
<1>1. CASE Worker
  <2>1. CASE Prepare \/ Release \/ Close
    BY <1>1, <2>1 DEF Prepare, Release, Close, Reply, LetGo
  <2>2. CASE Write
    BY <1>1, <2>2 DEF Write
  <2>3. CASE LoopHead \/ NoCommands \/ TakeClick \/ NoClicks \/ Test \/ Wakes \/ Clear \/ Dies
    BY <1>1, <2>3 DEF LoopHead, NoCommands, TakeClick, NoClicks, Test, Wakes, Clear, Dies
  <2>4. QED BY <1>1, <2>1, <2>2, <2>3 DEF Worker
<1>2. CASE \E t \in Tickers : Trigger(t) \/ PutClick(t) \/ SetWake(t)
  BY <1>2 DEF Trigger, PutClick, SetWake
<1>3. CASE \E c \in Callers : (\E kind \in Kinds : Ask(kind, c)) \/ Resume(c) \/ JoinEnds(c)
  BY <1>3 DEF Ask, Resume, JoinEnds
<1>4. CASE \/ \E d \in {"ready", "busy", "missing"} : DeviceChanges(d)
           \/ \E f \in Files : FileChanges(f)
  BY <1>4 DEF DeviceChanges, FileChanges
<1>5. CASE UNCHANGED vars
  BY <1>5 DEF vars
<1>6. QED BY <1>1, <1>2, <1>3, <1>4, <1>5 DEF Next

\* Every behaviour of the player keeps to the types.
THEOREM TypeCorrect == Spec => []TypeOK
<1>1. Init => TypeOK
  <2>1. Init => Counters /\ Places
    BY ClickAssumption DEF Init, Counters, Places
  <2>2. Init => Queue
    BY DEF Init, Queue
  <2>3. Init => Flags
    BY DEF Init, Flags
  <2>4. QED BY <2>1, <2>2, <2>3, TypeParts
<1>2. TypeOK /\ [Next]_vars => TypeOK'
  <2>1. TypeOK' <=> Counters' /\ Queue' /\ Places' /\ Flags'
    BY DEF TypeOK, Counters, Queue, Places, Flags, Command
  <2>2. QED BY <2>1, TypeParts, CountersStep, QueueStep, PlacesStep, FlagsStep
<1>3. QED BY <1>1, <1>2, PTL DEF Spec

-----------------------------------------------------------------------------
(* The wake event. *)

\* From its look at the queue to the wait, the worker finds the event set if a click
\* has come: nothing clears the event on the way.
LooksAtEvent ==
  pc \in {"test", "wait"} /\ clicks # 0 => wake \/ \E t \in Tickers : tickPc[t] = "put"

LEMMA LooksAtEventStep == ASSUME Places, LooksAtEvent, [Next]_vars PROVE LooksAtEvent'
<1> USE DEF LooksAtEvent
<1>1. CASE Worker
  <2>1. CASE Prepare \/ Release \/ Close \/ Write
    BY <2>1 DEF Prepare, Release, Close, Write, Reply, NextCommand
  <2>2. CASE LoopHead \/ NoCommands \/ TakeClick \/ NoClicks
    BY <2>2 DEF LoopHead, NoCommands, TakeClick, NoClicks
  <2>3. CASE Test \/ Wakes \/ Clear \/ Dies
    BY <2>3 DEF Test, Wakes, Clear, Dies
  <2>4. QED BY <1>1, <2>1, <2>2, <2>3 DEF Worker
<1>2. CASE \E t \in Tickers : Trigger(t) \/ PutClick(t) \/ SetWake(t)
  BY <1>2 DEF Trigger, PutClick, SetWake, Places
<1>3. CASE \E c \in Callers : (\E kind \in Kinds : Ask(kind, c)) \/ Resume(c) \/ JoinEnds(c)
  <2>1. UNCHANGED <<pc, clicks, wake, tickPc>>
    BY <1>3 DEF Ask, Resume, JoinEnds
  <2>2. QED BY <2>1
<1>4. CASE \/ \E d \in {"ready", "busy", "missing"} : DeviceChanges(d)
           \/ \E f \in Files : FileChanges(f)
  BY <1>4 DEF DeviceChanges, FileChanges
<1>5. CASE UNCHANGED vars
  BY <1>5 DEF vars
<1>6. QED BY <1>1, <1>2, <1>3, <1>4, <1>5 DEF Next

\* No click waits for a sleeping worker whose event nobody sets, with any number of
\* transport threads and however the two look at queue and event.
THEOREM ClickWakesWorkerHolds == Spec => []ClickWakesWorker
<1>1. Init => LooksAtEvent
  BY DEF Init, LooksAtEvent
<1>2. TypeOK /\ LooksAtEvent /\ [Next]_vars => LooksAtEvent'
  BY TypeParts, LooksAtEventStep
<1>3. TypeOK /\ LooksAtEvent => ClickWakesWorker
  <2>1. TypeOK => (clicks > 0 => clicks # 0)
    BY DEF TypeOK
  <2>2. QED BY <2>1 DEF LooksAtEvent, ClickWakesWorker
<1>4. QED BY <1>1, <1>2, <1>3, TypeCorrect, PTL DEF Spec

-----------------------------------------------------------------------------
(* The release. *)

\* Nothing has gone wrong since the last release: all the reasons for a click to be
\* dropped as unavailable are excluded.
Calm ==
  calm => /\ device = "ready" /\ file = "good"
          /\ ~unavailable /\ pcm # "dead"

LEMMA CalmStep == ASSUME Places, Calm, [Next]_vars PROVE Calm'
<1> USE DEF Calm
<1>1. CASE Worker
  <2>1. CASE Prepare
    <3>1. calm => \A o \in Prepared : o[1] # "missing" /\ o[2] # "dead"
      BY DEF Prepared, Opens, Places
    <3>2. QED BY <2>1, <3>1 DEF Prepare, Reply
  <2>2. CASE Write
    <3>1. calm => \A o \in Attempted : o[1] # "missing" /\ o[2] # "dead"
      BY DEF Attempted, Opens, Writes, Places
    <3>2. QED BY <2>2, <3>1 DEF Write
  <2>3. CASE Release \/ Close
    BY <2>3 DEF Release, Close, Reply, LetGo
  <2>4. CASE LoopHead \/ NoCommands \/ TakeClick \/ NoClicks
    BY <2>4 DEF LoopHead, NoCommands, TakeClick, NoClicks
  <2>5. CASE Test \/ Wakes \/ Clear \/ Dies
    BY <2>5 DEF Test, Wakes, Clear, Dies
  <2>6. QED BY <1>1, <2>1, <2>2, <2>3, <2>4, <2>5 DEF Worker
<1>2. CASE \E t \in Tickers : Trigger(t) \/ PutClick(t) \/ SetWake(t)
  BY <1>2 DEF Trigger, PutClick, SetWake
<1>3. CASE \E c \in Callers : (\E kind \in Kinds : Ask(kind, c)) \/ Resume(c) \/ JoinEnds(c)
  BY <1>3 DEF Ask, Resume, JoinEnds
<1>4. CASE \/ \E d \in {"ready", "busy", "missing"} : DeviceChanges(d)
           \/ \E f \in Files : FileChanges(f)
  BY <1>4 DEF DeviceChanges, FileChanges
<1>5. CASE UNCHANGED vars
  BY <1>5 DEF vars
<1>6. QED BY <1>1, <1>2, <1>3, <1>4, <1>5 DEF Next

\* After a release the player is as good as new, whatever happened to the device and
\* the file before, until one of them changes again.
THEOREM ReleaseHealsHolds == Spec => []ReleaseHeals
<1>1. Init => Calm
  BY DEF Init, Calm
<1>2. TypeOK /\ Calm /\ [Next]_vars => Calm'
  BY TypeParts, CalmStep
<1>3. Calm => ReleaseHeals
  BY DEF Calm, ReleaseHeals
<1>4. QED BY <1>1, <1>2, <1>3, TypeCorrect, PTL DEF Spec

-----------------------------------------------------------------------------
(* The close. *)

\* Whoever awaits an answer has a command in the queue of a living worker.
Owed ==
  pc # "dead" => \A c \in Callers :
    callerPc[c] = "waiting" => \E i \in DOMAIN commands : commands[i].caller = c

\* A player is closed once, and a replaced one gets no command behind the close.
CloseIsLast ==
  /\ pc = "done" => stop
  /\ stop => closing # "no"
  /\ closing = "no" => \A i \in DOMAIN commands : commands[i].kind # "close"
  /\ closing = "replaced" =>
       \A i \in DOMAIN commands : commands[i].kind = "close" => i = Len(commands)
  /\ closing = "replaced" /\ stop => commands = <<>>

\* The first command leaves, and the others keep their order.
LEMMA TailOfQueue ==
  ASSUME NEW S, NEW q \in Seq(S), q # <<>>
  PROVE  /\ Len(q) \in Nat /\ Len(q) # 0 /\ Head(q) = q[1]
         /\ Len(Tail(q)) = Len(q) - 1
         /\ DOMAIN q = 1 .. Len(q) /\ DOMAIN Tail(q) = 1 .. (Len(q) - 1)
         /\ \A i \in 1 .. (Len(q) - 1) : Tail(q)[i] = q[i + 1]
  OBVIOUS

LEMMA ReplyKeepsOwed ==
  ASSUME Queue, Owed, Reply, commands # <<>>
  PROVE  Owed'
<1>1. SUFFICES ASSUME pc # "dead", NEW c \in Callers, callerPc'[c] = "waiting"
               PROVE  \E i \in DOMAIN commands' : commands'[i].caller = c
  BY DEF Owed, Reply
<1>2. c # Head(commands).caller /\ callerPc[c] = "waiting"
  BY <1>1 DEF Queue, Reply
<1>3. PICK i \in DOMAIN commands : commands[i].caller = c
  BY <1>1, <1>2 DEF Owed
<1>4. i \in 2 .. Len(commands)
  BY <1>2, <1>3, TailOfQueue DEF Queue
<1>5. Tail(commands)[i - 1] = commands[i] /\ i - 1 \in DOMAIN Tail(commands)
  BY <1>4, TailOfQueue DEF Queue
<1>6. QED BY <1>3, <1>5 DEF Reply

LEMMA ReplyKeepsOrder ==
  ASSUME Queue, CloseIsLast, Reply, commands # <<>>
  PROVE  /\ closing = "no" => \A i \in DOMAIN commands' : commands'[i].kind # "close"
         /\ closing = "replaced" =>
              \A i \in DOMAIN commands' : commands'[i].kind = "close" => i = Len(commands')
         /\ closing = "replaced" /\ Head(commands).kind = "close" => commands' = <<>>
<1>1. commands' = Tail(commands)
  BY DEF Reply
<1>2. \A i \in DOMAIN commands' :
        commands'[i] = commands[i + 1] /\ i + 1 \in DOMAIN commands
  BY <1>1, TailOfQueue DEF Queue
<1>3. closing = "no" => \A i \in DOMAIN commands' : commands'[i].kind # "close"
  BY <1>2 DEF CloseIsLast
<1>4. ASSUME closing = "replaced", NEW i \in DOMAIN commands', commands'[i].kind = "close"
      PROVE  i = Len(commands')
  <2>1. i + 1 = Len(commands)
    BY <1>2, <1>4 DEF CloseIsLast
  <2>2. QED BY <1>1, <1>4, <2>1, TailOfQueue DEF Queue
<1>5. ASSUME closing = "replaced", Head(commands).kind = "close" PROVE commands' = <<>>
  <2>1. Head(commands) = commands[1] /\ 1 \in DOMAIN commands
    BY TailOfQueue DEF Queue
  <2>2. Len(commands) = 1
    BY <1>5, <2>1 DEF CloseIsLast
  <2>3. QED BY <1>1, <2>2, TailOfQueue DEF Queue
<1>6. QED BY <1>3, <1>4, <1>5

LEMMA OwedStep == ASSUME Queue, Owed, [Next]_vars PROVE Owed'
<1>1. CASE Worker
  <2>1. CASE Prepare \/ Release \/ Close
    BY <2>1, ReplyKeepsOwed DEF Prepare, Release, Close, NextCommand
  <2>2. CASE Dies
    BY <2>2 DEF Dies, Owed
  <2>3. CASE LoopHead \/ NoCommands \/ TakeClick \/ Write
    BY <2>3 DEF LoopHead, NoCommands, TakeClick, Write, Owed
  <2>4. CASE NoClicks \/ Test \/ Wakes \/ Clear
    BY <2>4 DEF NoClicks, Test, Wakes, Clear, Owed
  <2>5. QED BY <1>1, <2>1, <2>2, <2>3, <2>4 DEF Worker
<1>2. CASE \E t \in Tickers : Trigger(t) \/ PutClick(t) \/ SetWake(t)
  BY <1>2 DEF Trigger, PutClick, SetWake, Owed
<1>3. CASE \E c \in Callers : (\E kind \in Kinds : Ask(kind, c)) \/ Resume(c) \/ JoinEnds(c)
  <2>1. ASSUME NEW c \in Callers, NEW kind \in Kinds, Ask(kind, c) PROVE Owed'
    <3>1. /\ Len(commands) \in Nat /\ DOMAIN commands = 1 .. Len(commands)
          /\ DOMAIN commands' = 1 .. (Len(commands) + 1)
          /\ \A i \in 1 .. Len(commands) : commands'[i] = commands[i]
          /\ commands'[Len(commands) + 1].caller = c
      BY <2>1 DEF Ask, Queue
    <3>2. \A d \in Callers : d # c => callerPc'[d] = callerPc[d]
      BY <2>1 DEF Ask, Queue
    <3>3. pc' = pc
      BY <2>1 DEF Ask
    <3>4. QED BY <3>1, <3>2, <3>3 DEF Owed
  <2>2. ASSUME NEW c \in Callers, Resume(c) \/ JoinEnds(c) PROVE Owed'
    BY <2>2 DEF Resume, JoinEnds, Owed, Queue
  <2>3. QED BY <1>3, <2>1, <2>2
<1>4. CASE \/ \E d \in {"ready", "busy", "missing"} : DeviceChanges(d)
           \/ \E f \in Files : FileChanges(f)
  BY <1>4 DEF DeviceChanges, FileChanges, Owed
<1>5. CASE UNCHANGED vars
  BY <1>5 DEF vars, Owed
<1>6. QED BY <1>1, <1>2, <1>3, <1>4, <1>5 DEF Next

LEMMA CloseIsLastStep == ASSUME Queue, CloseIsLast, [Next]_vars PROVE CloseIsLast'
<1>1. CASE Worker
  <2>1. CASE Prepare \/ Release
    <3>1. /\ Reply /\ commands # <<>>
          /\ pc' = pc /\ stop' = stop /\ closing' = closing
      BY <2>1 DEF Prepare, Release, NextCommand, Reply
    <3>2. commands = <<>> \/ ~(closing = "replaced" /\ stop)
      BY DEF CloseIsLast
    <3>3. QED BY <3>1, <3>2, ReplyKeepsOrder DEF CloseIsLast
  <2>2. CASE Close
    <3>1. /\ Reply /\ commands # <<>> /\ Head(commands).kind = "close"
          /\ pc' = pc /\ stop' /\ closing' = closing
      BY <2>2 DEF Close, NextCommand, Reply
    <3>2. closing # "no"
      BY <3>1, TailOfQueue DEF CloseIsLast, Queue
    <3>3. QED BY <3>1, <3>2, ReplyKeepsOrder DEF CloseIsLast
  <2>3. CASE Dies
    <3>1. CASE pc = "write"
      BY <2>3, <3>1 DEF Dies, NextCommand, CloseIsLast
    <3>2. CASE pc # "write"
      <4>1. /\ commands # <<>> /\ commands' = Tail(commands)
            /\ pc' = "dead" /\ stop' = stop /\ closing' = closing
        BY <2>3, <3>2 DEF Dies, NextCommand
      <4>2. \A i \in DOMAIN commands' :
              /\ commands'[i] = commands[i + 1] /\ i + 1 \in DOMAIN commands
              /\ i \in Nat /\ Len(commands') = Len(commands) - 1 /\ Len(commands) \in Nat
        BY <4>1, TailOfQueue DEF Queue
      <4>3. QED BY <4>1, <4>2 DEF CloseIsLast
    <3>3. QED BY <3>1, <3>2
  <2>4. CASE LoopHead \/ NoCommands \/ TakeClick \/ Write
    BY <2>4 DEF LoopHead, NoCommands, TakeClick, Write, CloseIsLast
  <2>5. CASE NoClicks \/ Test \/ Wakes \/ Clear
    BY <2>5 DEF NoClicks, Test, Wakes, Clear, CloseIsLast
  <2>6. QED BY <1>1, <2>1, <2>2, <2>3, <2>4, <2>5 DEF Worker
<1>2. CASE \E t \in Tickers : Trigger(t) \/ PutClick(t) \/ SetWake(t)
  BY <1>2 DEF Trigger, PutClick, SetWake, CloseIsLast
<1>3. CASE \E c \in Callers : (\E kind \in Kinds : Ask(kind, c)) \/ Resume(c) \/ JoinEnds(c)
  <2>1. ASSUME NEW c \in Callers, NEW kind \in Kinds, Ask(kind, c) PROVE CloseIsLast'
    <3>1. /\ Len(commands) \in Nat /\ DOMAIN commands = 1 .. Len(commands)
          /\ Len(commands') = Len(commands) + 1
          /\ DOMAIN commands' = 1 .. (Len(commands) + 1)
          /\ \A i \in 1 .. Len(commands) : commands'[i] = commands[i]
          /\ commands'[Len(commands) + 1].kind = kind
      BY <2>1 DEF Ask, Queue
    <3>2. pc' = pc /\ stop' = stop /\ closing # "replaced"
          /\ (kind # "close" => closing' = closing)
          /\ (kind = "close" => closing = "no" /\ closing' # "no")
      BY <2>1 DEF Ask, ToCurrentPlayer
    <3>3. QED BY <3>1, <3>2 DEF CloseIsLast
  <2>2. ASSUME NEW c \in Callers, Resume(c) \/ JoinEnds(c) PROVE CloseIsLast'
    BY <2>2 DEF Resume, JoinEnds, CloseIsLast
  <2>3. QED BY <1>3, <2>1, <2>2
<1>4. CASE \/ \E d \in {"ready", "busy", "missing"} : DeviceChanges(d)
           \/ \E f \in Files : FileChanges(f)
  BY <1>4 DEF DeviceChanges, FileChanges, CloseIsLast
<1>5. CASE UNCHANGED vars
  BY <1>5 DEF vars, CloseIsLast
<1>6. QED BY <1>1, <1>2, <1>3, <1>4, <1>5 DEF Next

\* configure() leaves nobody waiting for the player it replaces: it is replaced
\* before it is closed, and its commands are answered in their order.
THEOREM EndedWorkerOwesNothingHolds == Spec => []EndedWorkerOwesNothing
<1>1. Init => Owed /\ CloseIsLast
  BY DEF Init, Owed, CloseIsLast
<1>2. TypeOK /\ Owed /\ CloseIsLast /\ [Next]_vars => Owed' /\ CloseIsLast'
  BY TypeParts, OwedStep, CloseIsLastStep
<1>3. Owed /\ CloseIsLast => EndedWorkerOwesNothing
  <2>1. \A i : i \notin DOMAIN <<>>
    OBVIOUS
  <2>2. QED BY <2>1 DEF Owed, CloseIsLast, EndedWorkerOwesNothing
<1>4. QED BY <1>1, <1>2, <1>3, TypeCorrect, PTL DEF Spec

=============================================================================
