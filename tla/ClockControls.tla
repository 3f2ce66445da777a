---------------------------- MODULE ClockControls ----------------------------
(***************************************************************************)
(* What sets the tempo of the master clock by hand: taps and step buttons  *)
(* as triggers of MasterClockGenerator (modules/generator/                 *)
(* master_clock.py), a tempo as a number, a tempo as a pair of 7-bit MIDI  *)
(* controllers (MasterClockRemote of master_clock.py), and a new           *)
(* configuration.  Only configure() awaits before it sets the tempo: all   *)
(* of the others may come while its click player is being replaced.        *)
(*                                                                         *)
(* Time is counted in units, Minute of them in a minute; a controller has  *)
(* Digits values.                                                          *)
(***************************************************************************)
EXTENDS Integers, Sequences, SequencesExt, FiniteSetsExt

CONSTANTS
  Minute, ResetTimeout, MaxTaps,
  Slowest, Fastest,  \* bpm_min and bpm_max
  MinTaps,           \* values of tap_tempo_min_taps, which are at least 3
  Digits,
  Gaps               \* times between taps

ASSUME ControlsAssumption ==
  /\ {Minute, ResetTimeout, MaxTaps, Slowest, Fastest, Digits} \subseteq Nat \ {0}
  /\ Slowest <= Fastest /\ MinTaps \subseteq Nat \ 0 .. 2 /\ Gaps \subseteq Nat /\ Digits > 1

VARIABLES
  tempo,      \* bpm, tap_tempo_min_taps, the pending MSB; if a tap set bpm, how many that took
  tapped,     \* _tap_times
  pressed,    \* of each trigger: whether its value is active
  replacing,  \* the tempi of the configurations whose click player is being replaced
  hand        \* the gaps between all taps since a pause, oldest first

controlsVars == <<tempo, tapped, pressed, replacing, hand>>

Triggers == {"tap_tempo", "bpm_up", "bpm_down"}
NoMsb == -1
NoTaps == 0

ControlsInit ==
  /\ tempo \in [bpm : {Slowest}, min : MinTaps, msb : {NoMsb}, needed : {NoTaps}]
  /\ tapped = <<>>
  /\ pressed = [t \in Triggers |-> FALSE]
  /\ replacing = <<>> /\ hand = <<>>

ControlsTypeOK ==
  /\ tempo \in [bpm : Slowest .. Fastest, min : MinTaps, msb : {NoMsb} \cup (0 .. Digits - 1),
                needed : {NoTaps} \cup MinTaps]
  /\ tapped \in Seq(Nat) /\ Len(tapped) <= MaxTaps
  /\ pressed \in [Triggers -> BOOLEAN]
  /\ replacing \in Seq(Slowest .. Fastest)
  /\ hand \in Seq(Nat)

\* slip: bpm_min and bpm_max are not looked at
Unclamped(n) == n

Clamped(n) == IF n < Slowest THEN Slowest ELSE IF n > Fastest THEN Fastest ELSE n

\* quantize_bpm(): to the nearest number, from the middle to the even one
Rounded(n, d) ==
  LET q == n \div d  r == 2 * (n % d) IN
  IF r > d \/ (r = d /\ q % 2 = 1) THEN q + 1 ELSE q

\* slip: the remote stays as it is
SameRemote(t, n, needed) == [t EXCEPT !.bpm = Clamped(n), !.needed = needed]

\* set_bpm(): a tempo that changes makes a new remote
SetBpm(t, n, needed) ==
  LET bpm == Clamped(n) IN
  [t EXCEPT !.bpm = bpm, !.msb = IF bpm = t.bpm THEN @ ELSE NoMsb, !.needed = needed]

-----------------------------------------------------------------------------
(* TapTempoTracker: what it keeps is the times of the last taps. *)

\* slip: a pause does not begin anew
Remembered(times, now) == times

KeptTaps(times, now) ==
  IF times # <<>> /\ now - Last(times) > ResetTimeout THEN <<>> ELSE times

Newest(s) == SubSeq(s, IF Len(s) > MaxTaps THEN Len(s) - MaxTaps + 1 ELSE 1, Len(s))

\* the taps that are followed by one at a later time
Rises(times) == {i \in 1 .. Len(times) - 1 : times[i] < times[i + 1]}

\* register_tap(): a minute by the mean of the intervals that are longer than nothing;
\* the others add nothing to the time from the first tap to the last
TappedTempo(times) == Rounded(Minute * Cardinality(Rises(times)), Last(times) - Head(times))

TapAt(now) ==
  LET times == Newest(Append(KeptTaps(tapped, now), now))
      known == Len(times) >= tempo.min /\ Rises(times) # {} IN
  /\ tapped' = times
  /\ tempo' = IF known THEN SetBpm(tempo, TappedTempo(times), tempo.min)
              ELSE [tempo EXCEPT !.needed = NoTaps]

-----------------------------------------------------------------------------
(* MasterClockGenerator._on_input() and _handle_trigger_edge(). *)

Press(t) == ~pressed[t] /\ pressed' = [pressed EXCEPT ![t] = TRUE]

\* a pulse sets the value and resets it (_pulse_clock_trigger()), a button on a page resets
\* it first (apply_clock_trigger())
Release(t) ==
  /\ pressed[t] /\ pressed' = [pressed EXCEPT ![t] = FALSE]
  /\ UNCHANGED <<tempo, tapped, replacing, hand>>

Tap(gap) ==
  /\ Press("tap_tempo")
  /\ IF tapped = <<>> THEN TapAt(0) ELSE TapAt(Last(tapped) + gap)
  /\ hand' = IF tapped = <<>> \/ gap > ResetTimeout THEN <<>> ELSE Append(hand, gap)
  /\ UNCHANGED replacing

Step(t, delta) ==
  /\ Press(t)
  /\ tempo' = SetBpm(tempo, tempo.bpm + delta, NoTaps)
  /\ UNCHANGED <<tapped, replacing, hand>>

\* by an OSC message, or a connection that writes clock.bpm_set
SetNumber(n) ==
  /\ tempo' = SetBpm(tempo, n, NoTaps)
  /\ UNCHANGED <<tapped, pressed, replacing, hand>>

\* command_from_midi(): the LSB makes a tempo of the MSB before it, also of another source's
Msb(v) == tempo' = [tempo EXCEPT !.msb = v] /\ UNCHANGED <<tapped, pressed, replacing, hand>>

Lsb(v) ==
  /\ tempo.msb # NoMsb
  /\ LET raw == tempo.msb * Digits + v IN
     tempo' = SetBpm(tempo, Slowest + (raw * (Fastest - Slowest)) \div (Digits * Digits - 1), NoTaps)
  /\ UNCHANGED <<tapped, pressed, replacing, hand>>

\* _normalized_master_clock_config() of web/server.py refuses any other settings
Accepted(min, bpm) == min \in MinTaps /\ bpm \in Slowest .. Fastest

\* configure(): a new remote and a new number of taps; the taps stay.  The tempo is that of
\* before until the click player is replaced.
Configure(min, bpm) ==
  /\ Accepted(min, bpm)
  /\ tempo' = [tempo EXCEPT !.min = min, !.msb = NoMsb]
  /\ replacing' = Append(replacing, bpm)
  /\ UNCHANGED <<tapped, pressed, hand>>

\* the click player of the i-th one is replaced: its tempo, whatever was set meanwhile
TempoConfigured(i) ==
  /\ tempo' = [tempo EXCEPT !.bpm = replacing[i], !.needed = NoTaps]
  /\ replacing' = RemoveAt(replacing, i)
  /\ UNCHANGED <<tapped, pressed, hand>>

ControlsRuns ==
  \/ \E t \in Triggers : Release(t)
  \/ \E i \in DOMAIN replacing : TempoConfigured(i)

ControlsWorld ==
  \/ \E gap \in Gaps : Tap(gap)
  \/ Step("bpm_up", 1) \/ Step("bpm_down", -1)
  \/ \E n \in {Slowest, Fastest + 1} : SetNumber(n)
  \/ \E v \in 0 .. Digits - 1 : Msb(v) \/ Lsb(v)
  \/ \E min \in MinTaps, bpm \in {Slowest, Fastest + 1} : Configure(min, bpm)

ControlsSpec == ControlsInit /\ [][ControlsRuns \/ ControlsWorld]_controlsVars

-----------------------------------------------------------------------------
\* The tempo that a tap has set is one of the run of taps since the last pause: they were
\* as many as the configuration of the time asked for, and it lies between the slowest and
\* the fastest of the last intervals (TapTempoTracker.register_tap(),
\* MasterClock.register_tap_tempo()).
TempoIsOfTaps ==
  tempo.needed # NoTaps =>
    LET last == {i \in 1 .. Len(hand) : i > Len(hand) - (MaxTaps - 1)}
        gaps == {hand[i] : i \in last} \ {0} IN
    /\ Len(hand) + 1 >= tempo.needed
    /\ gaps # {}
    /\ tempo.bpm \in Clamped(Minute \div Max(gaps)) .. Clamped((Minute + Min(gaps) - 1) \div Min(gaps))

\* No MSB outlives the tempo that it came under, to be paired with an LSB that comes after
\* a tap, a step, a number or another pair, but one that came while a configuration was
\* on its way (MasterClock.set_bpm(), configure(), MasterClockRemote.command_from_midi()).
PairsAreOfOneTempo ==
  [][tempo'.bpm # tempo.bpm /\ NoMsb \notin {tempo.msb, tempo'.msb}
       => Len(replacing') < Len(replacing)]_controlsVars
=============================================================================
