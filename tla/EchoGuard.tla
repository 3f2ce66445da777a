------------------------------ MODULE EchoGuard ------------------------------
(***************************************************************************)
(* A control that is written and read: a motor fader at a MIDI adapter     *)
(* (adapters/midi.py) or a channel of a desk at an OSC adapter             *)
(* (adapters/osc.py), with the guards of midi/echo_guard.py that tell what *)
(* its user does from the echo of what was sent to it.  A MIDI message is  *)
(* written by a thread and recorded when that is awaited; a datagram is    *)
(* recorded as it is sent.                                                 *)
(***************************************************************************)
EXTENDS Integers, Sequences

CONSTANTS
  Senders,      \* MIDI sends at a time
  Highest,      \* values of the control: 0 .. Highest
  Window,       \* echo_guard_ms, in ticks
  Tolerance,    \* by how much the answer of a desk may differ
  MaxInFlight   \* bound: messages on their way to the control, or from it

ASSUME EchoAssumption == {Highest, Window, Tolerance, MaxInFlight} \subseteq Nat

VARIABLES
  echo,     \* the adapter: its kind, whether the guard is on, its records as pairs of
            \* value and age, the value that the program has; since: how long ago a send of
            \* a value was over; crossed: see ControlIsKnown
  sender,   \* of each MIDI send, where it is and its value
  control   \* its value, and the messages to it and from it

echoVars == <<echo, sender, control>>

ControlValues == 0 .. Highest
Ages == 0 .. Window + 1
Over == [v \in ControlValues |-> Window + 1]

EchoInit ==
  /\ echo \in [kind : {"midi", "osc"}, on : {TRUE}, recent : {{}}, host : {0}, since : {Over},
               crossed : {FALSE}]
  /\ sender = [t \in Senders |-> [pc |-> "idle", value |-> 0]]
  /\ control = [at |-> 0, wire |-> <<>>, inbox |-> <<>>]

EchoTypeOK ==
  /\ echo.kind \in {"midi", "osc"} /\ {echo.on, echo.crossed} \subseteq BOOLEAN
  /\ echo.host \in ControlValues /\ echo.since \in [ControlValues -> Ages]
  /\ echo.recent \subseteq ControlValues \X Ages
  /\ echo.on \/ echo.recent = {}
  /\ sender \in [Senders -> [pc : {"idle", "writing", "written"}, value : ControlValues]]
  /\ control.at \in ControlValues /\ control.wire \in Seq(ControlValues)
  /\ control.inbox \in Seq([value : ControlValues, user : BOOLEAN])

-----------------------------------------------------------------------------
\* midi_message_key(), osc_values_match()
Matches(v, w) ==
  IF echo.kind = "midi" THEN v = w ELSE v - w <= Tolerance /\ w - v <= Tolerance

Prune(recent) == {r \in recent : r[2] <= Window}

\* record()
Recorded(e, v) ==
  [e EXCEPT !.recent = IF e.on THEN Prune(@ \cup {<<v, 0>>}) ELSE @,
            !.since = IF e.on THEN [@ EXCEPT ![v] = 0] ELSE @]

\* is_echo()
IsEcho(v) == echo.on /\ \E r \in Prune(echo.recent) : Matches(r[1], v)

InFlight == control.wire # <<>> \/ \E t \in Senders : sender[t].pc = "writing"
NothingUnderWay == ~InFlight /\ control.inbox = <<>> /\ \A t \in Senders : sender[t].pc = "idle"
UserIsHeard == \E i \in DOMAIN control.inbox : control.inbox[i].user
SentLately(v) == \E w \in ControlValues : Matches(w, v) /\ echo.since[w] <= Window

-----------------------------------------------------------------------------
\* OscAdapter.send(), send_test_message()
SendDatagram(v) ==
  /\ echo.kind = "osc" /\ Len(control.wire) < MaxInFlight
  /\ control' = [control EXCEPT !.wire = Append(@, v)]
  /\ echo' = [Recorded(echo, v) EXCEPT !.host = v, !.crossed = (@ /\ ~NothingUnderWay) \/ UserIsHeard]
  /\ UNCHANGED sender

\* MidiAdapter.send(), send_test_message(): _emit_midi_output() begins
BeginWrite(t, v) ==
  /\ echo.kind = "midi" /\ sender[t].pc = "idle"
  /\ sender' = [sender EXCEPT ![t] = [pc |-> "writing", value |-> v]]
  /\ echo' = [echo EXCEPT !.host = v, !.crossed = (@ /\ ~NothingUnderWay) \/ UserIsHeard \/ InFlight]
  /\ UNCHANGED control

\* the control takes a value, and reports it or not
Moved(c, v, reports) ==
  /\ Len(c.inbox) < MaxInFlight
  /\ control' = [c EXCEPT !.at = v,
       !.inbox = IF reports THEN Append(@, [value |-> v, user |-> FALSE]) ELSE @]

\* a desk may round it
DeskTakes ==
  /\ control.wire # <<>>
  /\ \E v \in ControlValues, reports \in BOOLEAN :
       /\ Matches(v, Head(control.wire))
       /\ Moved([control EXCEPT !.wire = Tail(@)], v, reports)
  /\ UNCHANGED <<echo, sender>>

WriteDone(t) ==
  /\ sender[t].pc = "writing"
  /\ sender' = [sender EXCEPT ![t].pc = "written"]
  /\ \E reports \in BOOLEAN : Moved(control, sender[t].value, reports)
  /\ UNCHANGED echo

\* the thread's result is awaited, and the message recorded
RecordWritten(t) ==
  /\ sender[t].pc = "written"
  /\ sender' = [sender EXCEPT ![t].pc = "idle"]
  /\ echo' = Recorded(echo, sender[t].value)
  /\ UNCHANGED control

\* what comes from the control is its value, unless it is an echo
Heard(m) ==
  /\ control' = [control EXCEPT !.inbox = Tail(@)]
  /\ echo' = [echo EXCEPT
       !.recent = Prune(@),
       !.host = IF IsEcho(m.value) THEN @ ELSE m.value,
       !.crossed = \/ @
                   \/ IF m.user THEN InFlight \/ (SentLately(m.value) /\ ~Matches(m.value, echo.host))
                      ELSE ~SentLately(m.value) /\ m.value # echo.host]
  /\ UNCHANGED sender

\* MidiAdapter._handle_input_message()
HandleInputMessage == echo.kind = "midi" /\ control.inbox # <<>> /\ Heard(Head(control.inbox))

\* OscAdapter._handle_input_messages()
HandleInputMessages == echo.kind = "osc" /\ control.inbox # <<>> /\ Heard(Head(control.inbox))

UserMoves(v) ==
  /\ Len(control.inbox) < MaxInFlight
  /\ control' = [control EXCEPT !.at = v, !.inbox = Append(@, [value |-> v, user |-> TRUE])]
  /\ echo' = [echo EXCEPT !.crossed = (@ /\ ~NothingUnderWay) \/ InFlight]
  /\ UNCHANGED sender

TickEcho ==
  /\ echo' = [echo EXCEPT
       !.since = [v \in ControlValues |-> IF @[v] <= Window THEN @[v] + 1 ELSE @[v]],
       !.recent = {<<r[1], IF r[2] <= Window THEN r[2] + 1 ELSE r[2]>> : r \in @}]
  /\ UNCHANGED <<sender, control>>

\* configure(): a window of 0 clears the records
ConfigureGuard(on) ==
  /\ on # echo.on
  /\ echo' = [echo EXCEPT !.on = on, !.recent = IF on THEN @ ELSE {}, !.since = Over]
  /\ UNCHANGED <<sender, control>>

EchoRuns ==
  \/ DeskTakes \/ HandleInputMessage \/ HandleInputMessages
  \/ \E t \in Senders : WriteDone(t) \/ RecordWritten(t)

EchoWorld ==
  \/ \E v \in ControlValues : SendDatagram(v) \/ UserMoves(v) \/ \E t \in Senders : BeginWrite(t, v)
  \/ TickEcho \/ \E on \in BOOLEAN : ConfigureGuard(on)

EchoSpec == EchoInit /\ [][EchoRuns \/ EchoWorld]_echoVars /\ WF_echoVars(EchoRuns)

-----------------------------------------------------------------------------
\* With nothing on its way to the control or from it, what the program holds is where the
\* control is, with the exceptions of ControlIsKnown (MidiEchoGuard, OscEchoGuard).
ControlIsHeld == NothingUnderWay => Matches(echo.host, control.at) \/ echo.crossed

\* What the program holds for a control and where the control is come to agree,
\* whichever echoes of older values are on their way back.  Excepted, until the next
\* move with nothing under way, are: a send and a move of the user that cross; two MIDI
\* sends that are written at a time; a move to a value that was sent within the window,
\* as it is taken for the echo; an echo that comes after the window, with the guard off,
\* or before its message has been recorded (MidiEchoGuard, OscEchoGuard,
\* _emit_midi_output(), _handle_input_message()).
ControlIsKnown == <>[](Matches(echo.host, control.at) \/ echo.crossed)
=============================================================================
