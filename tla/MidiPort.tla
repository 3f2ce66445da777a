------------------------------ MODULE MidiPort ------------------------------
(***************************************************************************)
(* MidiAdapter of adapters/midi.py: the input loop that finds, opens,      *)
(* polls and reopens an ALSA port by its label, and the cached address of  *)
(* the output port.  A device gets a new address when it is plugged in     *)
(* again, or the old one; a handle from before stays deaf.                 *)
(***************************************************************************)
EXTENDS Naturals

CONSTANTS PortAddresses, NoAddress

ASSUME MidiAssumption == NoAddress \notin PortAddresses

VARIABLES
  midi,  \* the adapter
  rig    \* the device: its address, and whether the configuration names an
         \* input port of it or only an output port

midiVars == <<midi, rig>>

Stopped == [running |-> FALSE, task |-> "none", input |-> NoAddress, output |-> NoAddress,
            unavailable |-> FALSE, port |-> NoAddress, deaf |-> FALSE]

MidiInit ==
  /\ midi = Stopped
  /\ rig \in [at : {NoAddress}, hasInput : BOOLEAN]

MidiTypeOK ==
  LET MaybeAddress == PortAddresses \cup {NoAddress} IN
  /\ midi \in [running : BOOLEAN, input : MaybeAddress, output : MaybeAddress,
               task : {"none", "head", "waiting", "opening", "polling", "closing", "reconnecting"},
               unavailable : BOOLEAN, port : MaybeAddress, deaf : BOOLEAN]
  /\ rig \in [at : MaybeAddress, hasInput : BOOLEAN]
  /\ midi.task = "polling" <=> midi.port # NoAddress
  /\ midi.deaf => midi.port # NoAddress

-----------------------------------------------------------------------------
(* slip: an address that was found once is kept *)
KeepAddresses(m) ==
  IF m.input # NoAddress THEN m
  ELSE [m EXCEPT !.input = IF rig.hasInput THEN rig.at ELSE NoAddress, !.output = rig.at]

\* _refresh_port_addresses(): the labels are resolved to the present addresses
RefreshAddresses(m) ==
  [m EXCEPT !.input = IF rig.hasInput THEN rig.at ELSE NoAddress,
            !.output = rig.at,
            !.unavailable = @ /\ rig.at = NoAddress]

\* _cached_output_address(): looked for once more, if not found to be missing before
LookForOutput(m) ==
  IF m.output # NoAddress \/ m.unavailable THEN m
  ELSE LET n == RefreshAddresses(m) IN [n EXCEPT !.unavailable = n.output = NoAddress]

\* start() with _start_feedback_refresh(), which looks for the output port
MidiStart ==
  /\ ~midi.running /\ midi.task = "none"
  /\ midi' = [LookForOutput(RefreshAddresses(midi)) EXCEPT
                !.running = TRUE, !.task = IF rig.hasInput THEN "head" ELSE "none"]
  /\ UNCHANGED rig

\* stop(): the input task is cancelled and awaited, its port closed
MidiStop ==
  /\ midi.running
  /\ midi' = [Stopped EXCEPT !.input = midi.input, !.output = midi.output,
                             !.unavailable = midi.unavailable]
  /\ UNCHANGED rig

\* _input_loop(): without an address it waits for two seconds
InputLoopHead ==
  /\ midi.task = "head" \/ midi.task = "waiting" \/ midi.task = "reconnecting"
  /\ LET m == RefreshAddresses(midi)
     IN midi' = [m EXCEPT !.task = IF m.input = NoAddress THEN "waiting" ELSE "opening"]
  /\ UNCHANGED rig

\* _run_mido_input() opens the port in a thread
OpenInput ==
  /\ midi.task = "opening"
  /\ midi' = IF rig.at = midi.input
             THEN [midi EXCEPT !.task = "polling", !.port = midi.input]
             ELSE [midi EXCEPT !.task = "reconnecting"]
  /\ UNCHANGED rig

\* every two seconds it looks whether a port of this name is still listed
PortDisappeared ==
  /\ midi.task = "polling" /\ rig.at # midi.port
  /\ midi' = [midi EXCEPT !.task = "closing", !.port = NoAddress, !.deaf = FALSE]
  /\ UNCHANGED rig

\* the poll of a handle raises
PollFails ==
  /\ midi.task = "polling" /\ midi.deaf
  /\ midi' = [midi EXCEPT !.task = "closing", !.port = NoAddress, !.deaf = FALSE]
  /\ UNCHANGED rig

PortClosed ==
  /\ midi.task = "closing"
  /\ midi' = [midi EXCEPT !.task = "reconnecting"]
  /\ UNCHANGED rig

\* send(), send_midi_message(), send_test_message(): an event for a port that
\* cannot be found is dropped
SendOutput ==
  /\ midi.running
  /\ midi' = LookForOutput(midi)
  /\ UNCHANGED rig

-----------------------------------------------------------------------------
Replug(a) ==
  /\ a # rig.at
  /\ rig' = [rig EXCEPT !.at = a]
  /\ midi' = [midi EXCEPT !.deaf = midi.port # NoAddress]

MidiRuns == InputLoopHead \/ OpenInput \/ PortDisappeared \/ PortClosed

MidiWorld ==
  \/ MidiStart \/ MidiStop \/ SendOutput \/ PollFails
  \/ \E a \in PortAddresses \cup {NoAddress} : Replug(a)

MidiSpec == MidiInit /\ [][MidiRuns \/ MidiWorld]_midiVars /\ WF_midiVars(MidiRuns)

-----------------------------------------------------------------------------
Serves(a) == midi.port = a /\ ~midi.deaf /\ midi.output = a

\* A running adapter with an input port never loses its input loop, and an open port that
\* is not deaf is where the device is, as is the address for what is sent
\* (_input_loop(), _run_mido_input(), _cached_output_address()).
PortIsServed ==
  /\ midi.running /\ rig.hasInput => midi.task # "none"
  /\ midi.task = "polling" /\ ~midi.deaf => Serves(rig.at)

\* A running adapter with an input port follows its device: it ends with the input
\* open and the output resolved where the device is.  Excepted is a device that is
\* away for less than the two seconds between two looks at the list
\* (_input_loop(), _run_mido_input(), _refresh_port_addresses()).
InputFollowsDevice ==
  <>[](midi.running /\ rig.hasInput /\ rig.at # NoAddress => Serves(rig.at) \/ midi.deaf)
=============================================================================
