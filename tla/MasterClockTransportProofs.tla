--------------------- MODULE MasterClockTransportProofs ---------------------
(***************************************************************************)
(* Proofs about MasterClockTransport, for any number of tasks and threads: *)
(* type correctness; that in disciplined histories one thread at most      *)
(* ticks and a running clock is driven by the thread it refers to; and     *)
(* that after commands one after the other the outputs agree with the      *)
(* clock and a start begins on the downbeat.                               *)
(***************************************************************************)
EXTENDS MasterClockTransport, TLAPS

\* A task at join waits for the referenced thread, unless another stop has
\* already forgotten it, and the stop event is set.
JoinersWait ==
  \A c \in Tasks : taskPc[c] = "join" =>
    stopEvent /\ (joining[c] = transportThread \/ transportThread = None)

\* Nothing but the referenced thread is alive.
NoOrphan == \A t \in Threads : threadPc[t] # "dead" => t = transportThread

\* A living thread that was told to stop has somebody joining it.
CondemnedIsJoined ==
  (stopEvent /\ transportThread \in Live) =>
    \E c \in Tasks : taskPc[c] = "join"

\* Unless a task is still starting it, a running clock is driven.
DrivenUnlessStarting ==
  (running /\ \A c \in Tasks : taskPc[c] \notin Starting) =>
    transportThread \in Live /\ ~stopEvent

\* What holds while no command has raced a join.
Driven == JoinersWait /\ NoOrphan /\ CondemnedIsJoined /\ DrivenUnlessStarting

\* The inductive invariant, with TypeOK.
Inv == Disciplined => Driven

USE DEF Alive, Live, Starting, Stopping, TaskPcs, Statuses, Pasts

-----------------------------------------------------------------------------
(* Type correctness. *)

\* A thread to create is found among the threads when there is one.
LEMMA NewThreadIsFresh == Fresh # {} => NewThread \in Fresh
  BY DEF NewThread

\* Every step of a task keeps the types.
LEMMA CommandKeepsTypes ==
  ASSUME TypeOK, NEW c \in Tasks, Command(c)
  PROVE  TypeOK'
<1> USE TransportAssumption DEF TypeOK, GoTo, NoteOverlap, outputVars, clockVars
<1>1. CASE CommandStart(c)
  BY <1>1 DEF CommandStart, BeginStart, CanIssue
<1>2. CASE CommandContinue(c)
  BY <1>2 DEF CommandContinue, CanIssue
<1>3. CASE CommandStop(c)
  BY <1>3 DEF CommandStop, BeginStop, CanIssue
<1>4. CASE CommandToggle(c)
  <2>1. CASE running
    BY <1>4, <2>1 DEF CommandToggle, BeginStop, CanIssue
  <2>2. CASE ~running
    BY <1>4, <2>2 DEF CommandToggle, BeginStart, CanIssue
  <2>3. QED BY <2>1, <2>2
<1>5. CASE Shutdown(c)
  BY <1>5 DEF Shutdown, BeginStop, CanIssue
<1>6. CASE ConfigureDisabled(c)
  <2>1. CASE running /\ BeginStop(c, SendTransport)
    BY <1>6, <2>1 DEF ConfigureDisabled, BeginStop, CanIssue
  <2>2. CASE ~running /\ GoTo(c, "replace") /\ UNCHANGED <<clockVars, joining, announce, downbeatDue>>
    BY <1>6, <2>2 DEF ConfigureDisabled, CanIssue
  <2>3. QED BY <1>6, <2>1, <2>2 DEF ConfigureDisabled
<1>7. CASE ConfigureAutoStart(c)
  BY <1>7 DEF ConfigureAutoStart, CanIssue
<1>8. QED
  BY <1>1, <1>2, <1>3, <1>4, <1>5, <1>6, <1>7 DEF Command

LEMMA StepKeepsTypes ==
  ASSUME TypeOK, NEW c \in Tasks, Step(c)
  PROVE  TypeOK'
<1> USE TransportAssumption DEF TypeOK, GoTo, PublishState, outputVars, clockVars
<1>1. CASE AutoStart(c)
  <2>1. CASE running
    BY <1>1, <2>1 DEF AutoStart, BeginStart
  <2>2. CASE ~running
    BY <1>1, <2>2 DEF AutoStart, BeginStart
  <2>3. QED BY <2>1, <2>2
<1>2. CASE SendStart(c)
  BY <1>2 DEF SendStart
<1>3. CASE EnsureTransportThread(c)
  BY <1>3, NewThreadIsFresh DEF EnsureTransportThread, Fresh
<1>4. CASE Joined(c)
  BY <1>4 DEF Joined, EndJoin
<1>5. CASE JoinTimedOut(c)
  BY <1>5 DEF JoinTimedOut, EndJoin
<1>6. CASE AudioReleased(c)
  BY <1>6 DEF AudioReleased
<1>7. CASE SendStop(c)
  BY <1>7 DEF SendStop
<1>8. CASE ClickPlayerReplaced(c)
  <2>1. CASE ~running /\ BeginStart(c)
    BY <1>8, <2>1 DEF ClickPlayerReplaced, BeginStart
  <2>2. CASE /\ GoTo(c, "sendBpm")
             /\ UNCHANGED <<clockVars, joining, announce, downbeatDue>>
    BY <1>8, <2>2 DEF ClickPlayerReplaced
  <2>3. QED BY <1>8, <2>1, <2>2 DEF ClickPlayerReplaced
<1>9. CASE BpmPublished(c)
  BY <1>9 DEF BpmPublished
<1>10. CASE DeliverState(c)
  BY <1>10 DEF DeliverState
<1>11. QED
  BY <1>1, <1>2, <1>3, <1>4, <1>5, <1>6, <1>7, <1>8, <1>9, <1>10 DEF Step

LEMMA ThreadKeepsTypes ==
  ASSUME TypeOK, NEW t \in Threads, Thread(t)
  PROVE  TypeOK'
<1> USE TransportAssumption DEF TypeOK, outputVars, clockVars
<1>1. CASE LoopTest(t)
  BY <1>1 DEF LoopTest
<1>2. CASE SubmitTick(t)
  BY <1>2 DEF SubmitTick
<1>3. CASE AdvancePosition(t)
  BY <1>3 DEF AdvancePosition
<1>4. QED
  BY <1>1, <1>2, <1>3 DEF Thread

\* Every reachable state of the transport is well typed.
THEOREM TypeCorrect == Spec => []TypeOK
<1>1. Init => TypeOK
  <2> SUFFICES ASSUME Init PROVE TypeOK
    OBVIOUS
  <2>1. taskPc \in [Tasks -> TaskPcs]
    BY DEF Init
  <2>2. position \in 0 .. (ClickInterval - 1)
    BY TransportAssumption DEF Init
  <2>3. QED BY <2>1, <2>2 DEF Init, TypeOK
<1>2. TypeOK /\ [Next]_vars => TypeOK'
  <2> SUFFICES ASSUME TypeOK, [Next]_vars PROVE TypeOK'
    OBVIOUS
  <2>1. CASE UNCHANGED vars
    BY <2>1 DEF vars, clockVars, outputVars, TypeOK
  <2>2. CASE Next
    BY <2>2, CommandKeepsTypes, StepKeepsTypes, ThreadKeepsTypes DEF Next
  <2>3. QED BY <2>1, <2>2
<1>3. QED
  BY <1>1, <1>2, PTL DEF Spec
-----------------------------------------------------------------------------
(* Disciplined histories.  The three ways in which a command moves the state *)
(* come first: it starts the clock, stops it, or only goes on to another     *)
(* await.                                                                    *)

\* Starting the clock excuses a missing thread until the thread is ensured.
LEMMA StartKeepsDriven ==
  ASSUME TypeOK, Driven, NEW c \in Tasks, NEW pc \in Starting,
         taskPc[c] # "join", GoTo(c, pc),
         UNCHANGED <<stopEvent, transportThread, joining, threadPc>>
  PROVE  Driven'
<1> USE DEF TypeOK, GoTo
<1>1. JoinersWait'
  BY DEF Driven, JoinersWait
<1>2. NoOrphan'
  BY DEF Driven, NoOrphan
<1>3. CondemnedIsJoined'
  BY DEF Driven, CondemnedIsJoined
<1>4. DrivenUnlessStarting'
  BY DEF DrivenUnlessStarting
<1>5. QED BY <1>1, <1>2, <1>3, <1>4 DEF Driven

\* Stopping the clock condemns the referenced thread and joins it.
LEMMA StopKeepsDriven ==
  ASSUME TypeOK, Driven, NEW c \in Tasks, NEW send \in BOOLEAN,
         BeginStop(c, send), UNCHANGED threadPc
  PROVE  Driven'
<1> USE TransportAssumption DEF TypeOK, GoTo, BeginStop
<1>1. JoinersWait'
  BY DEF Driven, JoinersWait
<1>2. NoOrphan'
  BY DEF Driven, NoOrphan
<1>3. CondemnedIsJoined'
  <2> SUFFICES ASSUME transportThread \in Live PROVE taskPc'[c] = "join"
    BY DEF CondemnedIsJoined
  <2>1. transportThread # None
    OBVIOUS
  <2>2. QED BY <2>1
<1>4. DrivenUnlessStarting'
  BY DEF DrivenUnlessStarting
<1>5. QED BY <1>1, <1>2, <1>3, <1>4 DEF Driven

\* Going on to another await, from neither a join nor the start of the clock.
LEMMA MoveKeepsDriven ==
  ASSUME TypeOK, Driven, NEW c \in Tasks, NEW pc \in TaskPcs,
         taskPc[c] # "join", taskPc[c] \notin Starting, pc # "join",
         GoTo(c, pc), UNCHANGED <<clockVars, joining, threadPc>>
  PROVE  Driven'
<1> USE DEF TypeOK, GoTo, clockVars
<1>1. JoinersWait'
  BY DEF Driven, JoinersWait
<1>2. NoOrphan'
  BY DEF Driven, NoOrphan
<1>3. CondemnedIsJoined'
  BY DEF Driven, CondemnedIsJoined
<1>4. DrivenUnlessStarting'
  BY DEF Driven, DrivenUnlessStarting
<1>5. QED BY <1>1, <1>2, <1>3, <1>4 DEF Driven

\* BeginStart is a start in that sense.
LEMMA BeginStartKeepsDriven ==
  ASSUME TypeOK, Driven, NEW c \in Tasks, taskPc[c] # "join", BeginStart(c),
         UNCHANGED threadPc
  PROVE  Driven'
<1>1. PICK pc \in Starting : GoTo(c, pc)
  BY DEF BeginStart
<1>2. QED BY <1>1, StartKeepsDriven DEF BeginStart

LEMMA CommandKeepsDriven ==
  ASSUME TypeOK, Driven, NEW c \in Tasks, Command(c)
  PROVE  Driven'
<1> USE TransportAssumption
<1>0. taskPc[c] # "join" /\ taskPc[c] \notin Starting
  BY DEF Command, CommandStart, CommandContinue, CommandStop, CommandToggle,
         Shutdown, ConfigureDisabled, ConfigureAutoStart, CanIssue
<1>1. CASE CommandStart(c)
  BY <1>0, <1>1, BeginStartKeepsDriven DEF CommandStart
<1>2. CASE CommandContinue(c)
  <2>1. PICK pc \in Starting : GoTo(c, pc)
    BY <1>2 DEF CommandContinue
  <2>2. QED BY <1>0, <1>2, <2>1, StartKeepsDriven DEF CommandContinue
<1>3. CASE CommandStop(c)
  BY <1>3, StopKeepsDriven DEF CommandStop
<1>4. CASE CommandToggle(c)
  BY <1>0, <1>4, BeginStartKeepsDriven, StopKeepsDriven DEF CommandToggle
<1>5. CASE Shutdown(c)
  BY <1>5, StopKeepsDriven DEF Shutdown
<1>6. CASE ConfigureDisabled(c)
  <2>1. CASE BeginStop(c, SendTransport)
    BY <1>6, <2>1, StopKeepsDriven DEF ConfigureDisabled
  <2>2. CASE GoTo(c, "replace") /\ UNCHANGED <<clockVars, joining>>
    BY <1>0, <1>6, <2>2, MoveKeepsDriven DEF ConfigureDisabled
  <2>3. QED BY <1>6, <2>1, <2>2 DEF ConfigureDisabled
<1>7. CASE ConfigureAutoStart(c)
  BY <1>0, <1>7, MoveKeepsDriven DEF ConfigureAutoStart
<1>8. QED
  BY <1>1, <1>2, <1>3, <1>4, <1>5, <1>6, <1>7 DEF Command

\* With no join in flight a thread that is kept was not told to stop, and a
\* thread is only created when none is alive.
LEMMA EnsureKeepsDriven ==
  ASSUME TypeOK, Driven, NEW c \in Tasks, EnsureTransportThread(c),
         \A d \in Tasks : taskPc[d] # "join"
  PROVE  Driven'
<1> USE DEF TypeOK, GoTo, EnsureTransportThread, PublishState
<1>1. JoinersWait'
  BY DEF JoinersWait
<1>2. CASE transportThread \in Live
  <2>1. ~stopEvent
    BY <1>2 DEF Driven, CondemnedIsJoined
  <2>2. UNCHANGED <<stopEvent, transportThread, threadPc>>
    BY <1>2
  <2>3. NoOrphan'
    BY <2>2 DEF Driven, NoOrphan
  <2>4. CondemnedIsJoined' /\ DrivenUnlessStarting'
    BY <1>2, <2>1, <2>2 DEF CondemnedIsJoined, DrivenUnlessStarting
  <2>5. QED BY <1>1, <2>3, <2>4 DEF Driven
<1>3. CASE transportThread \notin Live
  <2>1. /\ ~stopEvent'
        /\ transportThread' \in Threads
        /\ threadPc' = [threadPc EXCEPT ![transportThread'] = "test"]
    BY <1>3, NewThreadIsFresh DEF Fresh
  <2>2. \A t \in Threads : threadPc[t] = "dead"
    BY <1>3 DEF Driven, NoOrphan
  <2>3. NoOrphan'
    BY <2>1, <2>2 DEF NoOrphan
  <2>4. CondemnedIsJoined' /\ DrivenUnlessStarting'
    BY <2>1 DEF CondemnedIsJoined, DrivenUnlessStarting
  <2>5. QED BY <1>1, <2>3, <2>4 DEF Driven
<1>4. QED BY <1>2, <1>3

\* A join that ends because its thread died leaves no living thread.
LEMMA JoinedKeepsDriven ==
  ASSUME TypeOK, Driven, NEW c \in Tasks, Joined(c)
  PROVE  Driven'
<1> USE TransportAssumption DEF TypeOK, GoTo, Joined, EndJoin
<1>1. stopEvent /\ transportThread \notin Live
  BY DEF Driven, JoinersWait
<1>2. \A t \in Threads : threadPc[t] = "dead"
  BY <1>1 DEF Driven, NoOrphan
<1>3. JoinersWait'
  BY <1>1 DEF Driven, JoinersWait
<1>4. NoOrphan' /\ CondemnedIsJoined'
  BY <1>2 DEF NoOrphan, CondemnedIsJoined
<1>5. DrivenUnlessStarting'
  BY <1>1 DEF Driven, DrivenUnlessStarting
<1>6. QED BY <1>3, <1>4, <1>5 DEF Driven

LEMMA StepKeepsDriven ==
  ASSUME TypeOK, Driven, NEW c \in Tasks, Step(c), Disciplined'
  PROVE  Driven'
<1> USE TransportAssumption DEF TypeOK
<1>1. CASE AutoStart(c)
  BY <1>1, BeginStartKeepsDriven DEF AutoStart
<1>2. CASE SendStart(c)
  BY <1>2, StartKeepsDriven DEF SendStart, clockVars
<1>3. CASE EnsureTransportThread(c)
  <2>1. \A d \in Tasks : taskPc[d] # "join"
    BY <1>3 DEF EnsureTransportThread, Disciplined
  <2>2. QED BY <1>3, <2>1, EnsureKeepsDriven
<1>4. CASE Joined(c)
  BY <1>4, JoinedKeepsDriven
<1>5. CASE JoinTimedOut(c)
  BY <1>5 DEF JoinTimedOut, Disciplined
<1>6. CASE AudioReleased(c)
  BY <1>6, MoveKeepsDriven DEF AudioReleased, PublishState
<1>7. CASE SendStop(c)
  BY <1>7, MoveKeepsDriven DEF SendStop, PublishState
<1>8. CASE ClickPlayerReplaced(c)
  <2>1. CASE BeginStart(c)
    BY <1>8, <2>1, BeginStartKeepsDriven DEF ClickPlayerReplaced
  <2>2. CASE GoTo(c, "sendBpm") /\ UNCHANGED <<clockVars, joining>>
    BY <1>8, <2>2, MoveKeepsDriven DEF ClickPlayerReplaced
  <2>3. QED BY <1>8, <2>1, <2>2 DEF ClickPlayerReplaced
<1>9. CASE BpmPublished(c)
  BY <1>9, MoveKeepsDriven DEF BpmPublished, PublishState
<1>10. CASE DeliverState(c)
  <2>1. PICK pc \in {"replace", "idle"} : GoTo(c, pc)
    BY <1>10 DEF DeliverState
  <2>2. QED BY <1>10, <2>1, MoveKeepsDriven DEF DeliverState
<1>11. QED
  BY <1>1, <1>2, <1>3, <1>4, <1>5, <1>6, <1>7, <1>8, <1>9, <1>10 DEF Step

\* A thread leaves its loop only when the clock stopped or it was told to.
LEMMA ThreadKeepsDriven ==
  ASSUME TypeOK, Driven, NEW t \in Threads, Thread(t)
  PROVE  Driven'
<1> USE DEF TypeOK, clockVars
<1>1. /\ UNCHANGED <<running, stopEvent, transportThread, taskPc, joining>>
      /\ \A u \in Threads : threadPc'[u] # "dead" => threadPc[u] # "dead"
      /\ running /\ ~stopEvent => (threadPc[t] # "dead" => threadPc'[t] # "dead")
      /\ \A u \in Threads : u # t => threadPc'[u] = threadPc[u]
  BY DEF Thread, LoopTest, SubmitTick, AdvancePosition
<1>2. JoinersWait'
  BY <1>1 DEF Driven, JoinersWait
<1>3. NoOrphan'
  BY <1>1 DEF Driven, NoOrphan
<1>4. CondemnedIsJoined'
  BY <1>1 DEF Driven, CondemnedIsJoined
<1>5. DrivenUnlessStarting'
  BY <1>1 DEF Driven, DrivenUnlessStarting
<1>6. QED BY <1>2, <1>3, <1>4, <1>5 DEF Driven

\* No step makes an undisciplined history disciplined.
LEMMA DisciplineIsLost ==
  ASSUME TypeOK, Next, Disciplined'
  PROVE  Disciplined
<1>1. ASSUME NEW c \in Tasks, Command(c) PROVE Disciplined
  BY <1>1 DEF Command, CommandStart, CommandContinue, CommandStop,
     CommandToggle, Shutdown, ConfigureDisabled, ConfigureAutoStart,
     NoteOverlap, Disciplined
<1>2. ASSUME NEW c \in Tasks, Step(c) PROVE Disciplined
  BY <1>2 DEF Step, AutoStart, SendStart, EnsureTransportThread, Joined,
     JoinTimedOut, AudioReleased, SendStop, ClickPlayerReplaced, BpmPublished,
     DeliverState, Disciplined
<1>3. ASSUME NEW t \in Threads, Thread(t) PROVE Disciplined
  BY <1>3 DEF Thread, LoopTest, SubmitTick, AdvancePosition, Disciplined
<1>4. QED BY <1>1, <1>2, <1>3 DEF Next

\* The thread and the flag agree throughout every disciplined history.
THEOREM DrivenInvariant == Spec => []Inv
<1>1. Init => Inv
  BY TransportAssumption DEF Init, Inv, Driven, JoinersWait, NoOrphan,
     CondemnedIsJoined, DrivenUnlessStarting
<1>2. TypeOK /\ Inv /\ [Next]_vars => Inv'
  <2> SUFFICES ASSUME TypeOK, Inv, [Next]_vars, Disciplined' PROVE Driven'
    BY DEF Inv
  <2>1. CASE UNCHANGED vars
    BY <2>1 DEF vars, clockVars, Inv, Disciplined, Driven, JoinersWait,
       NoOrphan, CondemnedIsJoined, DrivenUnlessStarting
  <2>2. CASE Next
    <3>1. Driven
      BY <2>2, DisciplineIsLost DEF Inv
    <3>2. QED
      BY <2>2, <3>1, CommandKeepsDriven, StepKeepsDriven, ThreadKeepsDriven
         DEF Next
  <2>3. QED BY <2>1, <2>2
<1>3. QED
  BY <1>1, <1>2, TypeCorrect, PTL DEF Spec

\* In a disciplined history two transport threads never tick at the same time,
\* whatever the number of commands in flight.
THEOREM SoleTickerHolds == Spec => []SoleTicker
<1>1. Inv => SoleTicker
  BY DEF Inv, Driven, NoOrphan, SoleTicker
<1>2. QED BY <1>1, DrivenInvariant, PTL

\* In a disciplined history a clock that runs with no command in flight is
\* driven by the thread it refers to, which was not told to stop.
THEOREM RunningIsDrivenHolds == Spec => []RunningIsDriven
<1>1. Inv => RunningIsDriven
  BY DEF Inv, Driven, DrivenUnlessStarting, RunningIsDriven, Quiet
<1>2. QED BY <1>1, DrivenInvariant, PTL

-----------------------------------------------------------------------------
(* Commands that come one after the other.                                  *)

OneAtATime == \A c, d \in Tasks : taskPc[c] # "idle" /\ taskPc[d] # "idle" => c = d

\* At each await the clock is what the command made it.
AwaitsAgree ==
  \A c \in Tasks :
    /\ taskPc[c] \in Starting => running
    /\ taskPc[c] \in Stopping \cup {"boot"} => ~running
    /\ taskPc[c] = "deliver" => snapshot[c] = running

\* The outputs are told before a start goes on to the audio, and the state that a
\* command leaves is the one it publishes last.
OutputsTold ==
  /\ Quiet => shown = running
  /\ (running /\ SendTransport /\ \A c \in Tasks : taskPc[c] \notin {"sendStart", "sendContinue"})
       => lastStatus \in {"start", "continue"}

\* A stopped clock has no thread once the stop has joined it ...
SilentWhenStopped == (~running /\ \A c \in Tasks : taskPc[c] # "join") => Live = {}

\* ... so that nothing but the first tick comes after a start.
DownbeatAhead ==
  downbeatDue => running /\ position = 0 /\ \A t \in Threads : threadPc[t] # "advance"

InTurn == OneAtATime /\ AwaitsAgree /\ OutputsTold /\ SilentWhenStopped /\ DownbeatAhead

SerialInv == past = "serial" => InTurn

\* A step of the one task in flight has only its own promises to keep.
LEMMA StepInTurn ==
  ASSUME TypeOK, NEW c \in Tasks, NEW pc, GoTo(c, pc),
         \A d \in Tasks \ {c} : taskPc[d] = "idle",
         pc \in Starting => running',
         pc \in Stopping => ~running',
         pc # "boot",
         pc = "deliver" => snapshot'[c] = running',
         pc = "idle" => shown' = running',
         running' /\ SendTransport /\ pc \notin {"sendStart", "sendContinue"}
           => lastStatus' \in {"start", "continue"},
         ~running' /\ pc # "join" => Live' = {},
         DownbeatAhead'
  PROVE  InTurn'
<1>1. taskPc' = [taskPc EXCEPT ![c] = pc] /\ taskPc'[c] = pc
  BY DEF GoTo, TypeOK
<1>2. \A d \in Tasks \ {c} : taskPc'[d] = "idle"
  BY <1>1 DEF TypeOK
<1>3. OneAtATime'
  BY <1>2 DEF OneAtATime
<1>4. AwaitsAgree'
  BY <1>1, <1>2 DEF AwaitsAgree
<1>5. OutputsTold'
  BY <1>1, <1>2 DEF OutputsTold, Quiet
<1>6. SilentWhenStopped'
  BY <1>1, <1>2 DEF SilentWhenStopped
<1>7. QED BY <1>3, <1>4, <1>5, <1>6 DEF InTurn

\* start_transport() of a stopped clock
LEMMA BeginStartInTurn ==
  ASSUME TypeOK, NEW c \in Tasks, BeginStart(c), ~running, Live = {},
         \A d \in Tasks \ {c} : taskPc[d] = "idle",
         UNCHANGED <<threadPc, outputVars>>
  PROVE  InTurn'
<1>1. running' /\ position' = 0 /\ DownbeatAhead'
  BY DEF BeginStart, DownbeatAhead
<1>2. PICK pc : GoTo(c, pc) /\ pc = IF SendTransport THEN "sendStart" ELSE "prepare"
  BY DEF BeginStart
<1>3. QED
  BY <1>1, <1>2, StepInTurn

\* stop_transport() in any state: without a thread to join there is none at all
LEMMA BeginStopInTurn ==
  ASSUME TypeOK, Driven, NEW c \in Tasks, NEW send, BeginStop(c, send),
         \A d \in Tasks \ {c} : taskPc[d] = "idle",
         UNCHANGED <<threadPc, outputVars>>
  PROVE  InTurn'
<1>1. ~running' /\ ~downbeatDue' /\ DownbeatAhead'
  BY DEF BeginStop, DownbeatAhead
<1>2. PICK pc : GoTo(c, pc) /\ pc = IF transportThread = None THEN "release" ELSE "join"
  BY DEF BeginStop
<1>3. transportThread = None => Live' = {}
  BY TransportAssumption DEF Driven, NoOrphan, BeginStop
<1>4. QED
  BY <1>1, <1>2, <1>3, StepInTurn

\* A command that overlaps no other one was given while the clock was quiet.
LEMMA CommandInTurn ==
  ASSUME TypeOK, Driven, past = "serial", InTurn, NEW c \in Tasks, Command(c), past' = "serial"
  PROVE  InTurn'
<1> USE DEF outputVars
<1>1. taskPc[c] = "idle" /\ \A d \in Tasks \ {c} : taskPc[d] = "idle"
  BY DEF Command, CommandStart, CommandContinue, CommandStop, CommandToggle, Shutdown,
     ConfigureDisabled, ConfigureAutoStart, CanIssue, NoteOverlap
<1>2. /\ shown = running
      /\ running /\ SendTransport => lastStatus \in {"start", "continue"}
      /\ ~running => Live = {}
      /\ DownbeatAhead
  BY <1>1 DEF InTurn, OutputsTold, SilentWhenStopped, Quiet
<1>3. CASE CommandStart(c)
  BY <1>1, <1>2, <1>3, BeginStartInTurn DEF CommandStart
<1>4. CASE CommandContinue(c)
  <2>1. running' /\ UNCHANGED <<position, downbeatDue, threadPc, lastStatus>>
    BY <1>4 DEF CommandContinue
  <2>2. PICK pc : GoTo(c, pc) /\ pc = IF SendTransport THEN "sendContinue" ELSE "prepare"
    BY <1>4 DEF CommandContinue
  <2>3. DownbeatAhead'
    BY <1>2, <2>1 DEF DownbeatAhead
  <2>4. QED BY <1>1, <2>1, <2>2, <2>3, StepInTurn
<1>5. CASE CommandStop(c) \/ Shutdown(c)
  BY <1>1, <1>5, BeginStopInTurn DEF CommandStop, Shutdown
<1>6. CASE CommandToggle(c)
  BY <1>1, <1>2, <1>6, BeginStartInTurn, BeginStopInTurn DEF CommandToggle
<1>7. CASE GoTo(c, "replace") /\ UNCHANGED <<clockVars, threadPc, outputVars, downbeatDue>>
  <2>1. DownbeatAhead'
    BY <1>2, <1>7 DEF DownbeatAhead, clockVars
  <2>2. QED BY <1>1, <1>2, <1>7, <2>1, StepInTurn DEF clockVars
<1>8. CASE ConfigureDisabled(c)
  BY <1>1, <1>7, <1>8, BeginStopInTurn DEF ConfigureDisabled
<1>9. CASE ConfigureAutoStart(c)
  BY <1>7, <1>9 DEF ConfigureAutoStart
<1>10. QED BY <1>3, <1>4, <1>5, <1>6, <1>8, <1>9 DEF Command

LEMMA StepOfTaskInTurn ==
  ASSUME TypeOK, Driven, InTurn, NEW c \in Tasks, Step(c), past' = "serial"
  PROVE  InTurn'
<1> USE DEF outputVars, clockVars
<1>1. taskPc[c] # "idle" /\ \A d \in Tasks \ {c} : taskPc[d] = "idle"
  <2>1. taskPc[c] # "idle"
    BY DEF Step, AutoStart, SendStart, EnsureTransportThread, Joined, JoinTimedOut,
       AudioReleased, SendStop, ClickPlayerReplaced, BpmPublished, DeliverState
  <2>2. QED BY <2>1 DEF InTurn, OneAtATime
<1>2. /\ taskPc[c] \in Starting => running
      /\ taskPc[c] \in Stopping \cup {"boot"} => ~running
      /\ taskPc[c] = "deliver" => snapshot[c] = running
      /\ taskPc[c] \notin {"sendStart", "sendContinue"} /\ running /\ SendTransport
           => lastStatus \in {"start", "continue"}
      /\ ~running /\ taskPc[c] # "join" => Live = {}
      /\ DownbeatAhead
  BY <1>1 DEF InTurn, AwaitsAgree, OutputsTold, SilentWhenStopped
<1>3. ASSUME UNCHANGED <<running, position, downbeatDue, threadPc>> PROVE DownbeatAhead'
  BY <1>2, <1>3 DEF DownbeatAhead
<1>4. CASE AutoStart(c)
  BY <1>1, <1>2, <1>4, BeginStartInTurn DEF AutoStart
<1>5. CASE SendStart(c)
  BY <1>1, <1>2, <1>3, <1>5, StepInTurn DEF SendStart
<1>6. CASE EnsureTransportThread(c)
  <2>1. running /\ UNCHANGED <<running, position, downbeatDue, lastStatus>>
    BY <1>2, <1>6 DEF EnsureTransportThread
  <2>2. \A t \in Threads : threadPc'[t] = threadPc[t] \/ threadPc'[t] = "test"
    BY <1>6 DEF EnsureTransportThread, TypeOK
  <2>3. DownbeatAhead'
    BY <1>2, <2>1, <2>2 DEF DownbeatAhead
  <2>4. GoTo(c, "deliver") /\ snapshot'[c] = running
    BY <1>6 DEF EnsureTransportThread, PublishState, TypeOK
  <2>5. QED BY <1>1, <1>2, <1>6, <2>1, <2>3, <2>4, StepInTurn DEF EnsureTransportThread
<1>7. CASE Joined(c)
  <2>1. Live = {}
    BY <1>7, TransportAssumption DEF Joined, Driven, JoinersWait, NoOrphan
  <2>2. Live' = {} /\ UNCHANGED <<running, position, downbeatDue, threadPc, lastStatus>>
    BY <1>7, <2>1 DEF Joined, EndJoin
  <2>3. GoTo(c, "release")
    BY <1>7 DEF Joined, EndJoin
  <2>4. ~running'
    BY <1>2, <1>7, <2>2 DEF Joined
  <2>5. QED BY <1>1, <1>3, <2>2, <2>3, <2>4, StepInTurn
<1>8. CASE JoinTimedOut(c)
  BY <1>8 DEF JoinTimedOut
<1>9. CASE AudioReleased(c)
  <2>1. taskPc[c] = "release" /\ UNCHANGED <<clockVars, threadPc, outputVars, downbeatDue>>
    BY <1>9 DEF AudioReleased
  <2>2. CASE GoTo(c, "sendStop")
    BY <1>1, <1>2, <1>3, <2>1, <2>2, StepInTurn
  <2>3. CASE PublishState(c)
    BY <1>1, <1>2, <1>3, <2>1, <2>3, StepInTurn DEF PublishState, TypeOK
  <2>4. QED BY <1>9, <2>2, <2>3 DEF AudioReleased
<1>10. CASE SendStop(c)
  BY <1>1, <1>2, <1>3, <1>10, StepInTurn DEF SendStop, PublishState, TypeOK
<1>11. CASE ClickPlayerReplaced(c)
  <2>1. taskPc[c] = "replace" /\ UNCHANGED <<threadPc, outputVars>>
    BY <1>11 DEF ClickPlayerReplaced
  <2>2. CASE ~running /\ BeginStart(c)
    BY <1>1, <1>2, <2>1, <2>2, BeginStartInTurn
  <2>3. CASE GoTo(c, "sendBpm") /\ UNCHANGED <<clockVars, downbeatDue>>
    BY <1>1, <1>2, <1>3, <2>1, <2>3, StepInTurn
  <2>4. QED BY <1>11, <2>2, <2>3 DEF ClickPlayerReplaced
<1>12. CASE BpmPublished(c)
  BY <1>1, <1>2, <1>3, <1>12, StepInTurn DEF BpmPublished, PublishState, TypeOK
<1>13. CASE DeliverState(c)
  <2>1. PICK pc \in {"replace", "idle"} : GoTo(c, pc)
    BY <1>13 DEF DeliverState
  <2>2. /\ taskPc[c] = "deliver" /\ shown' = snapshot[c]
        /\ UNCHANGED <<clockVars, threadPc, downbeatDue, lastStatus>>
    BY <1>13 DEF DeliverState
  <2>3. QED BY <1>1, <1>2, <1>3, <2>1, <2>2, StepInTurn
<1>14. QED
  BY <1>4, <1>5, <1>6, <1>7, <1>8, <1>9, <1>10, <1>11, <1>12, <1>13 DEF Step

\* The first tick of the thread is the one that was due.
LEMMA ThreadInTurn ==
  ASSUME TypeOK, InTurn, NEW t \in Threads, Thread(t)
  PROVE  InTurn'
<1> USE DEF outputVars, clockVars, TypeOK
<1>1. /\ UNCHANGED <<running, taskPc, snapshot, shown, lastStatus>>
      /\ \A u \in Threads : threadPc[u] = "dead" => threadPc'[u] = "dead"
  BY DEF Thread, LoopTest, SubmitTick, AdvancePosition
<1>2. OneAtATime' /\ AwaitsAgree' /\ OutputsTold'
  BY <1>1 DEF InTurn, OneAtATime, AwaitsAgree, OutputsTold, Quiet
<1>3. SilentWhenStopped'
  BY <1>1 DEF InTurn, SilentWhenStopped
<1>4. DownbeatAhead'
  BY DEF InTurn, DownbeatAhead, Thread, LoopTest, SubmitTick, AdvancePosition
<1>5. QED BY <1>2, <1>3, <1>4 DEF InTurn

LEMMA SerialIsLost ==
  ASSUME Next, past' = "serial"
  PROVE  past = "serial"
<1>1. ASSUME NEW c \in Tasks, Command(c) PROVE past = "serial"
  BY <1>1 DEF Command, CommandStart, CommandContinue, CommandStop,
     CommandToggle, Shutdown, ConfigureDisabled, ConfigureAutoStart, NoteOverlap
<1>2. ASSUME NEW c \in Tasks, Step(c) PROVE past = "serial"
  BY <1>2 DEF Step, AutoStart, SendStart, EnsureTransportThread, Joined,
     JoinTimedOut, AudioReleased, SendStop, ClickPlayerReplaced, BpmPublished, DeliverState
<1>3. ASSUME NEW t \in Threads, Thread(t) PROVE past = "serial"
  BY <1>3 DEF Thread, LoopTest, SubmitTick, AdvancePosition
<1>4. QED BY <1>1, <1>2, <1>3 DEF Next

\* While commands come one after the other, each await finds the clock, its thread
\* and its outputs as the command left them.
THEOREM SerialInvariant == Spec => []SerialInv
<1>1. Init => SerialInv
  <2> SUFFICES ASSUME Init PROVE InTurn
    BY DEF SerialInv
  <2>1. OneAtATime /\ AwaitsAgree
    BY DEF Init, OneAtATime, AwaitsAgree
  <2>2. OutputsTold /\ SilentWhenStopped /\ DownbeatAhead
    BY DEF Init, OutputsTold, SilentWhenStopped, DownbeatAhead
  <2>3. QED BY <2>1, <2>2 DEF InTurn
<1>2. TypeOK /\ Inv /\ SerialInv /\ [Next]_vars => SerialInv'
  <2> SUFFICES ASSUME TypeOK, Inv, SerialInv, [Next]_vars, past' = "serial" PROVE InTurn'
    BY DEF SerialInv
  <2>1. CASE UNCHANGED vars
    BY <2>1 DEF vars, clockVars, outputVars, SerialInv, InTurn, OneAtATime, AwaitsAgree,
       OutputsTold, SilentWhenStopped, DownbeatAhead, Quiet
  <2>2. CASE Next
    <3>1. past = "serial" /\ InTurn /\ Driven
      BY <2>2, SerialIsLost DEF SerialInv, Inv, Disciplined
    <3>2. QED BY <2>2, <3>1, CommandInTurn, StepOfTaskInTurn, ThreadInTurn DEF Next
  <2>3. QED BY <2>1, <2>2
<1>3. QED
  BY <1>1, <1>2, TypeCorrect, DrivenInvariant, PTL DEF Spec

\* What the outputs and the displays were told last is what the clock does, after any
\* number of commands one after the other.
THEOREM OutputsAgreeHolds == Spec => []OutputsAgree
<1>1. SerialInv => OutputsAgree
  BY DEF SerialInv, InTurn, OutputsTold, OutputsAgree, Quiet
<1>2. QED BY <1>1, SerialInvariant, PTL

\* The first tick after a start is the tick of position 0: no thread of the run before
\* is left to advance the position, whatever the click interval.
THEOREM StartsOnDownbeatHolds == Spec => StartsOnDownbeat
<1>1. TypeOK /\ SerialInv /\ [Next]_vars =>
        [past = "serial" /\ downbeatDue /\ ~downbeatDue' /\ running' => position = 0]_vars
  BY DEF SerialInv, InTurn, DownbeatAhead
<1>2. QED
  BY <1>1, TypeCorrect, SerialInvariant, PTL DEF Spec, StartsOnDownbeat
=============================================================================
