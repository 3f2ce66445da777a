----------------------------- MODULE Components -----------------------------
(***************************************************************************)
(* The adapters, displays, controls and web handlers side by side, with    *)
(* what they promise together.  Each has variables of its own; what passes *)
(* from one to another is an event of the other's surroundings.            *)
(***************************************************************************)
EXTENDS WingLink, WingClient, MidiPort, GpioInput, HidInput, RtpSessions,
        MonitorStream, ConfigurationEdits, PointLifecycle, RotaryDisplay,
        DisplayLookup, OscDesk, GamePiBrightness, ClockControls,
        RelativeEncoder, EchoGuard

\* Every variable of every component has its type, with the facts that tie its parts
\* together (the classes of src/midijuggler/adapters, modules and web).
ComponentsTypeOK ==
  /\ WingTypeOK /\ ClientTypeOK /\ MidiTypeOK /\ GpioTypeOK /\ HidTypeOK
  /\ RtpTypeOK /\ MonitorTypeOK /\ EditsTypeOK /\ LifeTypeOK /\ RotaryTypeOK
  /\ LookupTypeOK /\ OscTypeOK /\ LightTypeOK /\ ControlsTypeOK /\ EncoderTypeOK
  /\ EchoTypeOK /\ EditorsTypeOK

\* What is at rest agrees with what it follows, and what does not agree has somebody
\* who will see to it: sessions that are announced, ports, switches, keys and controls,
\* the session with a desk, browsers, displays (the classes of src/midijuggler/adapters,
\* modules and web).
AtRestAllAgrees ==
  /\ AnnouncedAsConfigured
  /\ PortIsServed /\ StableIsPublished /\ KeyIsHeard /\ ControlIsHeld
  /\ SessionIsKept
  /\ NewestIsUnderWay /\ PagesAgree
  /\ PushedIsOnDisplay /\ BrightnessWillBeTold

\* Input adapters keep up with their devices: a MIDI port, a switch at a GPIO pin, a key
\* of a HID device, a control that echoes what is sent to it (MidiAdapter, GpioAdapter,
\* HidAdapter, OscAdapter).
InputsAreFollowed == InputFollowsDevice /\ SwitchIsFollowed /\ KeyIsFollowed /\ ControlIsKnown

\* What browsers are told reaches them: the newest value of a monitored point, the
\* connections and the source of learn mode (WebInterface, MonitorCoalescer, app.js).
BrowsersCatchUp == NewestIsShown /\ EditorsAgree

\* A tempo set by taps is the tempo of the taps, one set by a pair of controllers is of an
\* MSB that no other tempo came after, and an endless encoder moves its target by its turns
\* (MasterClockGenerator, MasterClockRemote, ModifierGraph).
ControlsAreObeyed == []TempoIsOfTaps /\ PairsAreOfOneTempo /\ TurnsAreFollowed
=============================================================================
