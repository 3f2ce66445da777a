----------------------------- MODULE GpioInput -----------------------------
(***************************************************************************)
(* GpioAdapter of adapters/gpio.py: footswitches on pins that are polled,  *)
(* debounced and published, the sysfs export of the pins, and the change   *)
(* of the configuration while the adapter runs.  A level is what           *)
(* _logical_value() makes of it, so active_low does not show.              *)
(***************************************************************************)
EXTENDS Naturals, FiniteSets

CONSTANTS
  Pins,
  Bounce  \* bounce_seconds in turns of the poll loop

ASSUME GpioAssumption == IsFiniteSet(Pins) /\ Bounce \in Nat

VARIABLES
  gpio,   \* the adapter
          \* (taken: pins whose level configure_options() took for published)
  board   \* of the pins: levels, sysfs exports, what was last published of each

gpioVars == <<gpio, board>>

NoInputs == [inputs |-> {}, ours |-> {}, running |-> FALSE, poll |-> "none",
             state |-> [p \in Pins |-> [stable |-> 0, candidate |-> 0, age |-> 0]],
             taken |-> {}]

GpioInit ==
  /\ gpio = NoInputs
  /\ board \in [level : [Pins -> {0, 1}], exported : SUBSET Pins, shown : {[p \in Pins |-> 2]}]

GpioTypeOK ==
  /\ gpio \in [inputs : SUBSET Pins, ours : SUBSET Pins, running : BOOLEAN,
               poll : {"none", "first", "polling", "dead"}, taken : SUBSET Pins,
               state : [Pins -> [stable : {0, 1}, candidate : {0, 1}, age : 0 .. Bounce]]]
  /\ board \in [level : [Pins -> {0, 1}], exported : SUBSET Pins, shown : [Pins -> 0 .. 2]]
  /\ gpio.ours \subseteq gpio.inputs
  /\ gpio.running <=> gpio.inputs # {}

Settled(p) == [stable |-> board.level[p], candidate |-> board.level[p], age |-> 0]

-----------------------------------------------------------------------------
(* _open_inputs() makes a reader of each pin, which exports the pin when it  *)
(* is not yet and remembers that it did.  When a pin cannot be exported the  *)
(* readers made so far are closed and nothing has changed.                   *)

Opened(inputs) ==
  [gpio EXCEPT !.inputs = inputs, !.ours = inputs \ board.exported,
               !.state = [p \in Pins |-> IF p \in inputs THEN Settled(p) ELSE gpio.state[p]]]

\* start(), up to the turn of the event loop in which the first levels are published
GpioStart ==
  /\ ~gpio.running
  /\ \E inputs \in (SUBSET Pins) \ {{}} :
       /\ gpio' = [Opened(inputs) EXCEPT !.running = TRUE, !.poll = "first"]
       /\ board' = [board EXCEPT !.exported = @ \cup inputs]

\* _publish_initial_states(): all or, when a pin cannot be read, some
PublishInitial ==
  /\ gpio.poll = "first"
  /\ \E done \in SUBSET (gpio.inputs \cap board.exported) :
       LET all == gpio.inputs \subseteq board.exported IN
       /\ all => done = gpio.inputs
       /\ gpio' = [gpio EXCEPT
            !.poll = IF all THEN "polling" ELSE "dead",
            !.taken = @ \ done,
            !.state = [p \in Pins |-> IF p \in done THEN Settled(p) ELSE @[p]]]
       /\ board' = [board EXCEPT
            !.shown = [p \in Pins |-> IF p \in done THEN board.level[p] ELSE @[p]]]

\* slip: the wait begins anew as long as the level is not the stable one
NeverOldEnough(s, v) ==
  IF v # s.stable THEN [s EXCEPT !.candidate = v, !.age = 0] ELSE s

\* one input in _poll_once(); the age is now - candidate_since
Debounced(s, v) ==
  IF v # s.candidate THEN [s EXCEPT !.candidate = v, !.age = 0]
  ELSE LET age == IF s.age < Bounce THEN s.age + 1 ELSE s.age
       IN [s EXCEPT !.age = age, !.stable = IF age = Bounce THEN v ELSE @]

\* _poll_once(): a pin that cannot be read ends the poll loop, the adapter goes on
\* to be called running
PollOnce ==
  /\ gpio.poll = "polling"
  /\ \E done \in SUBSET (gpio.inputs \cap board.exported) :
       LET all  == gpio.inputs \subseteq board.exported
           next == [p \in done |-> Debounced(gpio.state[p], board.level[p])]
           news == {p \in done : next[p].stable # gpio.state[p].stable}
       IN
       /\ all => done = gpio.inputs
       /\ gpio' = [gpio EXCEPT
            !.poll = IF all THEN @ ELSE "dead",
            !.taken = @ \ news,
            !.state = [p \in Pins |-> IF p \in done THEN next[p] ELSE @[p]]]
       /\ board' = [board EXCEPT
            !.shown = [p \in Pins |-> IF p \in news THEN next[p].stable ELSE @[p]]]

\* stop(): each reader unexports the pin that it exported
GpioStop ==
  /\ gpio.running
  /\ gpio' = [NoInputs EXCEPT !.state = gpio.state]
  /\ board' = [board EXCEPT !.exported = @ \ gpio.ours]

\* configure_options(): new readers first, then the old ones are closed; the levels
\* found are taken for stable and are not published
ConfigureInputs ==
  /\ gpio.running
  /\ \E inputs \in (SUBSET Pins) \ {{}} :
       /\ gpio' = [Opened(inputs) EXCEPT
            !.taken = {p \in inputs : board.shown[p] # board.level[p]}]
       /\ board' = [board EXCEPT !.exported = (@ \cup inputs) \ gpio.ours]

-----------------------------------------------------------------------------
Switch(p) ==
  /\ board' = [board EXCEPT !.level[p] = 1 - @]
  /\ UNCHANGED gpio

GpioRuns == PublishInitial \/ PollOnce

GpioWorld == GpioStart \/ GpioStop \/ ConfigureInputs \/ \E p \in Pins : Switch(p)

GpioSpec == GpioInit /\ [][GpioRuns \/ GpioWorld]_gpioVars /\ WF_gpioVars(GpioRuns)

-----------------------------------------------------------------------------
\* While the pins are polled, what was last published of a pin is its debounced level,
\* through starts, stops and changes of the configuration; excepted are the levels that
\* configure_options() found and did not publish (_publish_initial_states(), _poll_once()).
StableIsPublished ==
  gpio.poll = "polling" =>
    \A p \in gpio.inputs \ gpio.taken : board.shown[p] = gpio.state[p].stable

\* A level that a switch keeps is published, however it bounced before.  Excepted is
\* what configure_options() takes away: the level that it found and did not publish,
\* and the pins that the readers before it unexported (_poll_once()).
SwitchIsFollowed ==
  <>[](gpio.running /\ gpio.poll # "dead" =>
         \A p \in gpio.inputs \ gpio.taken : board.shown[p] = board.level[p])
=============================================================================
