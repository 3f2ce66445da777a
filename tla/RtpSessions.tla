---------------------------- MODULE RtpSessions ----------------------------
(***************************************************************************)
(* RtpMidiManager of rtp_midi/manager.py and the announcers behind it: the *)
(* session that one RTP-MIDI instance hosts, and the sessions that the     *)
(* network sees.  Calls come from the web interface, each in a task of its *)
(* own, and await while a process is started or ended.                     *)
(***************************************************************************)
EXTENDS Naturals, FiniteSets

CONSTANTS
  Calls,     \* tasks that call the manager
  Sessions,  \* names under which a session may be hosted
  Off,       \* configured, but nothing to announce: disabled, listen, join, no name
  Gone,      \* not among _instances
  Dead       \* an announcer whose process ended at once

ASSUME RtpAssumption ==
  Off # Gone /\ Dead # Gone /\ {Off, Gone, Dead} \cap Sessions = {} /\ IsFiniteSet(Calls)

VARIABLES
  rtp,   \* _instances, _announcers; of the network: how often a session is announced
  call   \* of each call: where it awaits, the configuration it applies, what it stops

rtpVars == <<rtp, call>>

Configs == Sessions \cup {Off, Gone}
NoCall == [pc |-> "idle", config |-> Gone, holds |-> Gone]

RtpInit ==
  /\ rtp = [config |-> Gone, slot |-> Gone, air |-> [s \in Sessions |-> 0],
            crossed |-> FALSE, failed |-> FALSE]
  /\ call = [c \in Calls |-> NoCall]

RtpTypeOK ==
  /\ rtp.config \in Configs /\ rtp.slot \in Sessions \cup {Gone, Dead}
  /\ rtp.air \in [Sessions -> Nat] /\ rtp.crossed \in BOOLEAN /\ rtp.failed \in BOOLEAN
  /\ call \in [Calls -> [pc : {"idle", "stopping", "starting", "refreshing"},
                         config : Configs, holds : Sessions \cup {Gone}]]

Quiet == \A c \in Calls : call[c].pc = "idle"

-----------------------------------------------------------------------------
\* the announcer is made and its process started, when there is a session to host
Launched(r, session) ==
  IF session \in Sessions THEN [r EXCEPT !.air[session] = @ + 1] ELSE r

Launching(session) ==
  IF session \in Sessions THEN [NoCall EXCEPT !.pc = "starting", !.config = session] ELSE NoCall

\* slip: an announcer that is replaced is forgotten, not stopped
Overwrite(c, r, config) ==
  /\ rtp' = Launched([r EXCEPT !.config = config, !.slot = Gone], config)
  /\ call' = [call EXCEPT ![c] = Launching(config)]

\* apply_instance() and remove_instance() from their start: the instance is noted,
\* its announcer taken out and stopped, which is awaited
Applied(c, r, config) ==
  LET noted == [r EXCEPT !.config = config, !.slot = Gone] IN
  IF r.slot \in Sessions
  THEN /\ rtp' = noted
       /\ call' = [call EXCEPT ![c] = [pc |-> "stopping", config |-> config, holds |-> r.slot]]
  ELSE /\ rtp' = Launched(noted, config)
       /\ call' = [call EXCEPT ![c] = Launching(config)]

Noticed == [rtp EXCEPT !.crossed = @ \/ ~Quiet]

Apply(c, config) == call[c].pc = "idle" /\ Applied(c, Noticed, config)

\* the announcer's process has ended
Ended(r, session) == [r EXCEPT !.air[session] = @ - 1]

Halted(c) ==
  /\ call[c].pc = "stopping"
  /\ rtp' = Launched(Ended(rtp, call[c].holds), call[c].config)
  /\ call' = [call EXCEPT ![c] = Launching(@.config)]

\* 0.2 s after its start the announcer is taken up, even when its process has ended
Started(c, alive) ==
  /\ call[c].pc = "starting"
  /\ rtp' = IF alive THEN [rtp EXCEPT !.slot = call[c].config]
            ELSE [Ended(rtp, call[c].config) EXCEPT !.slot = Dead, !.failed = TRUE]
  /\ call' = [call EXCEPT ![c] = NoCall]

\* refresh_announcements(): announcers are stopped, and what was configured at its
\* start is applied again
Refresh(c) ==
  /\ call[c].pc = "idle" /\ rtp.config # Gone
  /\ IF rtp.slot \in Sessions
     THEN /\ call' = [call EXCEPT ![c] = [pc |-> "refreshing", config |-> rtp.config,
                                          holds |-> rtp.slot]]
          /\ rtp' = [Noticed EXCEPT !.slot = Gone]
     ELSE Applied(c, Noticed, rtp.config)

RefreshApplies(c) ==
  /\ call[c].pc = "refreshing"
  /\ Applied(c, Ended(rtp, call[c].holds), call[c].config)

-----------------------------------------------------------------------------
RtpRuns == \E c \in Calls : Halted(c) \/ Started(c, TRUE) \/ RefreshApplies(c)

RtpWorld ==
  \E c \in Calls :
    \/ \E config \in Configs : Apply(c, config)
    \/ Refresh(c) \/ Started(c, FALSE)

RtpSpec == RtpInit /\ [][RtpRuns \/ RtpWorld]_rtpVars

\* Between calls a session that is configured is announced, however calls crossed.
\* It alone is announced, and once, when no two calls ever crossed: apply_instance()
\* overwrites an announcer that another call put there while it awaited, and
\* refresh_announcements() applies again what was removed meanwhile.
AnnouncedAsConfigured ==
  Quiet /\ ~rtp.failed =>
    \A s \in Sessions :
      /\ s = rtp.config => rtp.air[s] > 0
      /\ ~rtp.crossed => rtp.air[s] = IF s = rtp.config THEN 1 ELSE 0
=============================================================================
