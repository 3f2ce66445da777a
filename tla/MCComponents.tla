---------------------------- MODULE MCComponents ----------------------------
(***************************************************************************)
(* The adapters, displays, controls and web handlers, each checked for     *)
(* itself in one run.  focus is the component that runs, the others keep   *)
(* one initial state.  budget is how many more events of its surroundings  *)
(* (XWorld: users, devices, the network) there are; what the component     *)
(* does by itself (XRuns) is not bounded, and goes on.                     *)
(***************************************************************************)
EXTENDS Components

VARIABLES focus, budget

NoStepValue == -1
ClockPairs == {<<"clock", "out">>}
ModulePairs == {<<"out", "clock">>}
DisplayPairs == {<<"out", "clock">>}
FeedbackPairs == {<<"clock", "out">>}
OneSetting == [s \in Settings |-> CHOOSE x \in Settings : TRUE]

Budget == [wing |-> 4, client |-> 5, midi |-> 6, gpio |-> 4, hid |-> 4, rtp |-> 4, monitor |-> 5,
           edits |-> 3, life |-> 3, rotary |-> 3, lookup |-> 4, osc |-> 2, light |-> 4,
           controls |-> 5, encoder |-> 5, echo |-> 3, pages |-> 2]

vars == <<focus, budget, wingVars, clientVars, midiVars, gpioVars, hidVars, rtpVars,
          monitorVars, editsVars, lifeVars, rotaryVars, lookupVars, oscVars, lightVars,
          controlsVars, encoderVars, echoVars, editorsVars>>

AnyOf(S) == CHOOSE x \in S : TRUE

\* one of the initial states that differ in the names of model values, and one initial
\* state of each component that is not looked at
Init ==
  /\ focus \in DOMAIN Budget /\ budget = Budget[focus]
  /\ WingInit /\ ClientInit /\ RtpInit /\ MonitorInit
  /\ MidiInit /\ (focus # "midi" => rig.hasInput)
  /\ GpioInit /\ (focus # "gpio" => board.exported = {} /\ \A p \in Pins : board.level[p] = 0)
  /\ HidInit /\ (focus # "hid" => key.there /\ key.level = 0)
  /\ EditsInit /\ edits.conf.adapter = AnyOf(Options) /\ (focus # "edits" => edits.kind = "osc")
  /\ LifeInit /\ (focus # "life" => life.kind = "osc" /\ life.points = Zero /\ life.wanted = {})
  /\ RotaryInit /\ rotary.config = AnyOf(Settings) /\ (focus # "rotary" => rotary.host = "osc")
  /\ LookupInit /\ place.at = AnyOf(Places)
  /\ OscInit /\ osc.remote = AnyOf(Addresses) /\ desk[AnyOf(Desks)].at # Away
              /\ (focus # "osc" => ~osc.enabled /\ osc.identity = NoDesk /\ desk[AnyOf(Desks)].at = osc.remote)
  /\ LightInit /\ (focus # "light" => ~light.sysfs /\ light.file = Dimmest)
  /\ ControlsInit /\ (focus # "controls" => tempo.min = AnyOf(MinTaps))
  /\ EncoderInit /\ (focus # "encoder" => ~knob.absolute /\ ~knob.invert /\ value = 0)
  /\ EchoInit /\ (focus # "echo" => echo.kind = "osc")
  /\ EditorsInit /\ (focus # "pages" => ~hub.learn)

Rest ==
  /\ focus # "wing" => UNCHANGED wingVars
  /\ focus # "client" => UNCHANGED clientVars
  /\ focus # "midi" => UNCHANGED midiVars
  /\ focus # "gpio" => UNCHANGED gpioVars
  /\ focus # "hid" => UNCHANGED hidVars
  /\ focus # "rtp" => UNCHANGED rtpVars
  /\ focus # "monitor" => UNCHANGED monitorVars
  /\ focus # "edits" => UNCHANGED editsVars
  /\ focus # "life" => UNCHANGED lifeVars
  /\ focus # "rotary" => UNCHANGED rotaryVars
  /\ focus # "lookup" => UNCHANGED lookupVars
  /\ focus # "osc" => UNCHANGED oscVars
  /\ focus # "light" => UNCHANGED lightVars
  /\ focus # "controls" => UNCHANGED controlsVars
  /\ focus # "encoder" => UNCHANGED encoderVars
  /\ focus # "echo" => UNCHANGED echoVars
  /\ focus # "pages" => UNCHANGED editorsVars
  /\ UNCHANGED focus

\* what the component at hand does by itself, and what happens to it
Runs ==
  /\ \/ focus = "wing" /\ WingRuns
     \/ focus = "client" /\ ClientRuns
     \/ focus = "midi" /\ MidiRuns
     \/ focus = "gpio" /\ GpioRuns
     \/ focus = "hid" /\ HidRuns
     \/ focus = "rtp" /\ RtpRuns
     \/ focus = "monitor" /\ MonitorRuns
     \/ focus = "edits" /\ EditsRuns
     \/ focus = "life" /\ LifeRuns
     \/ focus = "rotary" /\ RotaryRuns
     \/ focus = "lookup" /\ LookupRuns
     \/ focus = "osc" /\ OscRuns
     \/ focus = "light" /\ LightRuns
     \/ focus = "controls" /\ ControlsRuns
     \/ focus = "echo" /\ EchoRuns
     \/ focus = "pages" /\ EditorsRuns
  /\ Rest /\ UNCHANGED budget

World ==
  /\ budget > 0 /\ budget' = budget - 1
  /\ \/ focus = "wing" /\ WingWorld
     \/ focus = "client" /\ ClientWorld
     \/ focus = "midi" /\ MidiWorld
     \/ focus = "gpio" /\ GpioWorld
     \/ focus = "hid" /\ HidWorld
     \/ focus = "rtp" /\ RtpWorld
     \/ focus = "monitor" /\ MonitorWorld
     \/ focus = "edits" /\ EditsWorld
     \/ focus = "life" /\ LifeWorld
     \/ focus = "rotary" /\ RotaryWorld
     \/ focus = "lookup" /\ LookupWorld
     \/ focus = "osc" /\ OscWorld
     \/ focus = "light" /\ LightWorld
     \/ focus = "controls" /\ ControlsWorld
     \/ focus = "encoder" /\ EncoderWorld
     \/ focus = "echo" /\ EchoWorld
     \/ focus = "pages" /\ EditorsWorld
  /\ Rest

Next == Runs \/ World

Spec == Init /\ [][Next]_vars /\ WF_vars(Runs)

-----------------------------------------------------------------------------
\* Displays come to show what they are to show: a rotary display, over either transport
\* and at the address that it has; the brightness of the GamePi (RotaryDisplayModule,
\* GamePiBrightnessModule).
DisplaysCatchUp == DisplayCatchesUp /\ (focus = "lookup" => DisplayIsFound) /\ BrightnessIsShown
=============================================================================
