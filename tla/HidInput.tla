------------------------------ MODULE HidInput ------------------------------
(***************************************************************************)
(* HidAdapter of adapters/hid.py: the loop that opens an evdev device,     *)
(* reads key events and opens it again when it was lost; and the requests  *)
(* that start, stop or reload the adapter, each in a task of its own.      *)
(* Opening and reading run in a thread and are awaited.  One mapped key.   *)
(***************************************************************************)
EXTENDS Naturals, Sequences

CONSTANTS
  Callers,  \* tasks that start, stop or reload the adapter
  Loops,  \* read loops; a bound on how many there are at a time
  NoLoop

ASSUME HidAssumption == NoLoop \notin Loops

VARIABLES
  hid,    \* running, _read_task, _reader and whether it works
  loop,   \* of each read loop: where it awaits, the event in its hand, whether the
          \* reader that it reads from works
  caller, \* of each call: where it awaits, whether it is to start the adapter
  key     \* the device: plugged in, the key's level, events not yet read;
          \* the value published last, whether a reader was lost since

hidVars == <<hid, loop, caller, key>>

NoCaller == [pc |-> "idle", start |-> FALSE]
NoReading == [pc |-> "none", event |-> 2, works |-> FALSE]

HidInit ==
  /\ hid = [running |-> FALSE, task |-> NoLoop, reader |-> FALSE, works |-> FALSE, crossed |-> FALSE]
  /\ loop = [l \in Loops |-> NoReading]
  /\ caller = [c \in Callers |-> NoCaller]
  /\ key \in [there : BOOLEAN, level : {0, 1}, events : {<<>>}, shown : {0}, lost : {FALSE}]

HidTypeOK ==
  /\ hid \in [running : BOOLEAN, task : Loops \cup {NoLoop}, reader : BOOLEAN,
              works : BOOLEAN, crossed : BOOLEAN]
  /\ loop \in [Loops -> [pc : {"none", "head", "opening", "waiting", "reading", "holding"},
                         event : 0 .. 2, works : BOOLEAN]]
  /\ caller \in [Callers -> [pc : {"idle", "stopping", "opening"}, start : BOOLEAN]]
  /\ key.there \in BOOLEAN /\ key.level \in {0, 1} /\ key.events \in Seq({0, 1})
  /\ key.shown \in {0, 1} /\ key.lost \in BOOLEAN
  /\ hid.works => hid.reader /\ key.there

-----------------------------------------------------------------------------
\* a reader is closed or its device gone: what it had not read is lost, and who
\* still reads from it will get an error
Lost(k) == [k EXCEPT !.events = <<>>, !.lost = TRUE]
Deaf(loops) == [l \in Loops |-> [loops[l] EXCEPT !.works = FALSE]]

\* slip: what is pressed while the device is opened is left to the next event
NoInitialStates == [key EXCEPT !.events = <<>>, !.lost = TRUE]

\* _publish_initial_states(): a key that is down is published
InitialStates ==
  [key EXCEPT !.events = <<>>, !.lost = TRUE, !.shown = IF key.level = 1 THEN 1 ELSE @]

\* _ensure_reader() once the device is open (a reader that is overwritten is not told
\* from the new one)
TakeReader(h, opened) ==
  /\ hid' = IF opened THEN [h EXCEPT !.reader = TRUE, !.works = TRUE] ELSE h
  /\ key' = IF opened THEN InitialStates ELSE key

-----------------------------------------------------------------------------
(* start(), stop(), reload(), configure_options(). *)

Crossing(c) == hid.crossed \/ \E d \in Callers \ {c} : caller[d].pc # "idle"

\* start() up to the await of the open; an open reader is kept
BeginOpen(c, h) == caller' = [caller EXCEPT ![c] = [pc |-> "opening", start |-> TRUE]]
               /\ hid' = [h EXCEPT !.running = TRUE]

\* stop(): the read loop is cancelled and awaited
HidCall(c, start) ==
  /\ caller[c].pc = "idle" /\ (start \/ hid.running)
  /\ IF hid.running
     THEN /\ hid' = [hid EXCEPT !.running = FALSE, !.crossed = Crossing(c)]
          /\ caller' = [caller EXCEPT ![c] = [pc |-> "stopping", start |-> start]]
          /\ loop' = IF hid.task = NoLoop THEN loop ELSE [loop EXCEPT ![hid.task] = NoReading]
          /\ key' = [key EXCEPT !.lost = TRUE]
     ELSE /\ BeginOpen(c, [hid EXCEPT !.crossed = Crossing(c)])
          /\ UNCHANGED <<loop, key>>

LoopHalted(c) ==
  LET h == [hid EXCEPT !.task = NoLoop, !.reader = FALSE, !.works = FALSE] IN
  /\ caller[c].pc = "stopping"
  /\ IF caller[c].start THEN BeginOpen(c, h)
     ELSE caller' = [caller EXCEPT ![c] = NoCaller] /\ hid' = h
  /\ loop' = Deaf(loop)
  /\ key' = Lost(key)

\* start() goes on: a read loop is made, whatever became of the reader
LoopLaunched(c) ==
  /\ caller[c].pc = "opening"
  /\ \E l \in Loops :
       /\ loop[l].pc = "none"
       /\ TakeReader([hid EXCEPT !.task = l], key.there /\ hid.running /\ ~hid.reader)
       /\ loop' = [loop EXCEPT ![l] = [NoReading EXCEPT !.pc = "head"]]
  /\ caller' = [caller EXCEPT ![c] = NoCaller]

-----------------------------------------------------------------------------
(* _read_loop(). *)

LoopGoes(l, pc) == loop' = [loop EXCEPT ![l] = [pc |-> pc, event |-> 2, works |-> hid.works]]

ReadLoopHead(l) ==
  /\ loop[l].pc \in {"head", "waiting"}
  /\ LoopGoes(l, IF ~hid.running THEN "none" ELSE IF hid.reader THEN "reading" ELSE "opening")
  /\ UNCHANGED <<hid, caller, key>>

LoopOpens(l) ==
  /\ loop[l].pc = "opening"
  /\ TakeReader(hid, key.there /\ hid.running)
  /\ LoopGoes(l, IF key.there /\ hid.running THEN "head" ELSE "waiting")
  /\ UNCHANGED caller

ReadOne(l) ==
  /\ loop[l].pc = "reading" /\ loop[l].works /\ key.events # <<>>
  /\ loop' = [loop EXCEPT ![l].pc = "holding", ![l].event = Head(key.events)]
  /\ key' = [key EXCEPT !.events = Tail(@)]
  /\ UNCHANGED <<hid, caller>>

\* nothing to read, and the adapter was stopped
ReadNone(l) ==
  /\ loop[l].pc = "reading" /\ loop[l].works /\ key.events = <<>> /\ ~hid.running
  /\ LoopGoes(l, "head")
  /\ UNCHANGED <<hid, caller, key>>

\* the read raises: whatever is the reader now is closed
ReadFails(l) ==
  /\ loop[l].pc = "reading" /\ ~loop[l].works
  /\ hid' = [hid EXCEPT !.reader = FALSE, !.works = FALSE]
  /\ loop' = [Deaf(loop) EXCEPT ![l].pc = "waiting"]
  /\ key' = Lost(key)
  /\ UNCHANGED caller

\* _handle_raw_event()
HandleEvent(l) ==
  /\ loop[l].pc = "holding"
  /\ key' = [key EXCEPT !.shown = loop[l].event, !.lost = FALSE]
  /\ LoopGoes(l, "head")
  /\ UNCHANGED <<hid, caller>>

-----------------------------------------------------------------------------
Touch ==
  /\ key' = [key EXCEPT !.level = 1 - @, !.events = IF hid.works THEN Append(@, 1 - key.level) ELSE @]
  /\ UNCHANGED <<hid, loop, caller>>

Replugged ==
  /\ key' = [Lost(key) EXCEPT !.there = ~@]
  /\ hid' = [hid EXCEPT !.works = FALSE]
  /\ loop' = Deaf(loop)
  /\ UNCHANGED caller

HidRuns ==
  \/ \E c \in Callers : LoopHalted(c) \/ LoopLaunched(c)
  \/ \E l \in Loops : ReadLoopHead(l) \/ LoopOpens(l) \/ ReadOne(l) \/ ReadNone(l) \/ ReadFails(l) \/ HandleEvent(l)

HidWorld ==
  \/ \E c \in Callers, start \in BOOLEAN : HidCall(c, start)
  \/ Touch \/ Replugged

HidSpec == HidInit /\ [][HidRuns \/ HidWorld]_hidVars /\ WF_hidVars(HidRuns)

-----------------------------------------------------------------------------
\* Between calls a running adapter has its read loop; and once the events of an open
\* device are handled, the value that is published is the level of the key; with the
\* exceptions of KeyIsFollowed (start(), _read_loop(), _publish_initial_states()).
KeyIsHeard ==
  hid.running /\ ~hid.crossed =>
    /\ (\A c \in Callers : caller[c].pc = "idle") => \E l \in Loops : loop[l].pc # "none"
    /\ hid.works /\ key.events = <<>> /\ (\A l \in Loops : loop[l].pc # "holding") =>
         key.shown = key.level \/ (key.level = 0 /\ key.lost)

\* A running adapter follows its key, through a device that is plugged in again and
\* through reloads.  Excepted are calls that overlap, which may leave two read loops
\* or none, and a key that was released while the device was not open, as only keys
\* that are down are published when it is opened (_read_loop(), _ensure_reader()).
KeyIsFollowed ==
  <>[](hid.running /\ key.there /\ ~hid.crossed =>
         key.shown = key.level \/ (key.level = 0 /\ key.lost))
=============================================================================
