---------------------------- MODULE AdapterProofs ----------------------------
(***************************************************************************)
(* Proofs about the adapters of devices, for any values of their constants *)
(* and each under its own specification.                                   *)
(*                                                                         *)
(*  WingLink    what is published of a fader settles on the desk, and each *)
(*              step of the sends is one that LatestValue allows           *)
(*  WingClient  what a path is bound to is its own node, and a path that   *)
(*              exists is found while answers come whole and drains are    *)
(*              waited for                                                 *)
(*  MidiPort, GpioInput, HidInput, EchoGuard, OscDesk                      *)
(*              at rest they agree with their device, or somebody is about *)
(*              to see to it                                               *)
(***************************************************************************)
EXTENDS WingLink, WingClient, MidiPort, GpioInput, HidInput, EchoGuard, OscDesk,
        FiniteSetTheorems, SequenceTheorems, TLAPS

-----------------------------------------------------------------------------
(* WingLink.                                                                 *)

LinkStates ==
  [running : BOOLEAN,
   task : {"none", "starting", "reading", "retrying", "connecting", "closing", "stopping"},
   client : BOOLEAN, alive : BOOLEAN, warm : SUBSET Faders, again : BOOLEAN]

MaybeLevels == Levels \cup {NoLevel}

FaderStates ==
  [pending : MaybeLevels, sender : {"idle", "asleep", "writing"}, inflight : MaybeLevels,
   resolving : MaybeLevels, cached : BOOLEAN, feedback : MaybeLevels, flusher : {"idle", "asleep"},
   published : MaybeLevels, recent : SUBSET Levels, desk : Levels, report : BOOLEAN,
   mover : {"none", "app", "desk"}]

-----------------------------------------------------------------------------
(* The invariant. *)

\* A session that was up is torn down before it is up again, and stop() ends what runs.
LinkOK(l) ==
  /\ l \in LinkStates
  /\ l.running = (l.task \notin {"none", "stopping"})
  /\ l.alive = TRUE => l.task \in {"reading", "stopping"}
  /\ l.task = "reading" => l.client = TRUE

\* What the engineer did last is about to be published, or is published already.
Settling(l, x) ==
  l.task = "reading" /\ l.alive = TRUE /\ x.report = FALSE /\ x.mover = "desk" =>
    IF x.flusher = "asleep" THEN x.feedback = x.desk ELSE Near(x.published, x.desk)

FaderOK(l, x) ==
  /\ x \in FaderStates
  /\ x.sender = "writing" <=> x.inflight # NoLevel
  /\ x.sender = "writing" => l.running = TRUE
  /\ Settling(l, x)

WingInv ==
  /\ LinkOK(link)
  /\ fader \in [Faders -> FaderStates]
  /\ \A f \in Faders : FaderOK(link, fader[f])

\* A step of one fader, and one of the session.
LEMMA FaderSteps ==
  ASSUME WingInv, NEW f \in Faders, NEW x, fader' = [fader EXCEPT ![f] = x],
         LinkOK(link'), link'.running = link.running, link'.task = link.task, link'.alive = link.alive,
         FaderOK(link', x)
  PROVE  WingInv'
<1>1. x \in FaderStates BY DEF FaderOK
<1>2. fader' \in [Faders -> FaderStates] /\ fader'[f] = x /\ \A g \in Faders : g # f => fader'[g] = fader[g]
  BY <1>1 DEF WingInv
<1>3. \A g \in Faders : FaderOK(link, fader[g]) => FaderOK(link', fader[g])
  BY DEF FaderOK, Settling
<1>4. \A g \in Faders : FaderOK(link', fader'[g]) BY <1>2, <1>3 DEF WingInv
<1>5. QED BY <1>2, <1>4 DEF WingInv

LEMMA LinkSteps ==
  ASSUME WingInv, UNCHANGED fader, LinkOK(link'),
         link.running = TRUE => link'.running = TRUE,
         link'.task = "reading" /\ link'.alive = TRUE => link.task = "reading" /\ link.alive = TRUE
  PROVE  WingInv'
<1>1. \A g \in Faders : FaderOK(link, fader[g]) => FaderOK(link', fader[g])
  BY DEF FaderOK, Settling
<1>2. \A g \in Faders : FaderOK(link', fader'[g]) BY <1>1 DEF WingInv
<1>3. QED BY <1>2 DEF WingInv

LEMMA NoLevelMaybe == NoLevel \in MaybeLevels /\ Levels \subseteq MaybeLevels
  BY DEF MaybeLevels

LEMMA ConnectedFields ==
  ASSUME NEW x \in FaderStates, NEW y,
         y = [x EXCEPT !.cached = FALSE, !.report = FALSE, !.mover = "none"]
  PROVE  /\ y \in FaderStates /\ y.pending = x.pending /\ y.inflight = x.inflight
         /\ y.sender = x.sender /\ y.desk = x.desk /\ y.mover = "none"
  BY DEF FaderStates

LEMMA CancelledFields ==
  ASSUME NEW x \in FaderStates, NEW y,
         y = [x EXCEPT !.sender = "idle", !.inflight = NoLevel, !.flusher = "idle"]
  PROVE  /\ y \in FaderStates /\ y.sender = "idle" /\ y.inflight = NoLevel
         /\ y.desk = x.desk
  BY NoLevelMaybe DEF FaderStates

LEMMA TornDownFields ==
  ASSUME NEW x \in FaderStates, NEW y,
         y = [x EXCEPT !.pending = NoLevel, !.feedback = NoLevel, !.report = FALSE]
  PROVE  /\ y \in FaderStates /\ y.sender = x.sender /\ y.inflight = x.inflight
         /\ y.pending = NoLevel /\ y.desk = x.desk
  BY NoLevelMaybe DEF FaderStates

-----------------------------------------------------------------------------
(* The session. *)

LEMMA LinkTyped ==
  ASSUME WingInv
  PROVE  link \in LinkStates /\ LinkOK(link)
  BY DEF WingInv, LinkOK

LEMMA WingStartKeeps ==
  ASSUME WingInv, WingStart PROVE WingInv'
<1>1. link \in LinkStates /\ LinkOK(link) BY LinkTyped
<1>2. LinkOK(link') /\ link'.running = TRUE /\ link'.task = "starting" BY <1>1 DEF WingStart, LinkOK, LinkStates
<1>3. QED BY <1>2, LinkSteps DEF WingStart

LEMMA RetryDueKeeps ==
  ASSUME WingInv, RetryDue PROVE WingInv'
<1>1. link \in LinkStates /\ LinkOK(link) BY LinkTyped
<1>2. LinkOK(link') /\ link'.running = link.running /\ link'.task = "connecting"
  BY <1>1 DEF RetryDue, LinkOK, LinkStates
<1>3. QED BY <1>2, LinkSteps DEF RetryDue

LEMMA ConnectFailsKeeps ==
  ASSUME WingInv, ConnectFails PROVE WingInv'
<1>1. link \in LinkStates /\ LinkOK(link) BY LinkTyped
<1>2. LinkOK(link') /\ link'.running = link.running /\ link'.task = "retrying"
  BY <1>1 DEF ConnectFails, LinkOK, LinkStates
<1>3. QED BY <1>2, LinkSteps DEF ConnectFails

LEMMA LinkBreaksKeeps ==
  ASSUME WingInv, LinkBreaks PROVE WingInv'
<1>1. link \in LinkStates /\ LinkOK(link) BY LinkTyped
<1>2. LinkOK(link') /\ link'.running = link.running /\ link'.alive = FALSE
  BY <1>1 DEF LinkBreaks, LinkOK, LinkStates
<1>3. QED BY <1>2, LinkSteps DEF LinkBreaks

\* Steps that touch all faders.
LEMMA AllFadersStep ==
  ASSUME LinkOK(link'), fader' = [f \in Faders |-> fader'[f]], \A f \in Faders : FaderOK(link', fader'[f])
  PROVE  WingInv'
<1>1. \A f \in Faders : fader'[f] \in FaderStates BY DEF FaderOK
<1>2. fader' \in [Faders -> FaderStates] BY <1>1
<1>3. QED BY <1>2 DEF WingInv

LEMMA FaderTyped ==
  ASSUME WingInv, NEW f \in Faders
  PROVE  fader[f] \in FaderStates /\ FaderOK(link, fader[f])
  BY DEF WingInv, FaderOK

LEMMA ConnectedKeeps ==
  ASSUME WingInv, Connected PROVE WingInv'
<1>1. link \in LinkStates /\ LinkOK(link) BY LinkTyped
<1>2. LinkOK(link') /\ link'.running = link.running BY <1>1 DEF Connected, LinkOK, LinkStates
<1>3. ASSUME NEW f \in Faders PROVE fader'[f] = [fader[f] EXCEPT !.cached = FALSE, !.report = FALSE, !.mover = "none"]
  BY DEF Connected
<1>4. ASSUME NEW f \in Faders PROVE FaderOK(link', fader'[f])
  <2>1. fader[f] \in FaderStates /\ FaderOK(link, fader[f]) BY FaderTyped
  <2>2. /\ fader'[f] \in FaderStates /\ fader'[f].sender = fader[f].sender
        /\ fader'[f].inflight = fader[f].inflight /\ fader'[f].mover = "none"
    BY <1>3, <2>1 DEF FaderStates
  <2>3. QED BY <1>2, <2>1, <2>2 DEF FaderOK, Settling
<1>5. fader' = [f \in Faders |-> fader'[f]] BY <1>3 DEF Connected
<1>6. QED BY <1>2, <1>4, <1>5, AllFadersStep

\* What a teardown leaves of a fader while the session is down.
LEMMA CancelledOK ==
  ASSUME WingInv, LinkOK(link'), link'.task # "reading", fader' = Cancelled
  PROVE  WingInv'
<1>1. ASSUME NEW f \in Faders
      PROVE  fader'[f] = [fader[f] EXCEPT !.sender = "idle", !.inflight = NoLevel, !.flusher = "idle"]
  BY DEF Cancelled
<1>2. ASSUME NEW f \in Faders PROVE FaderOK(link', fader'[f])
  <2>1. fader[f] \in FaderStates BY FaderTyped
  <2>2. fader'[f] \in FaderStates /\ fader'[f].sender = "idle" /\ fader'[f].inflight = NoLevel
    BY <1>1, <2>1, CancelledFields
  <2>3. QED BY <2>2 DEF FaderOK, Settling
<1>3. fader' = [f \in Faders |-> fader'[f]] BY <1>1 DEF Cancelled
<1>4. QED BY <1>2, <1>3, AllFadersStep

LEMMA ReadEndsKeeps ==
  ASSUME WingInv, ReadEnds PROVE WingInv'
<1>1. link \in LinkStates /\ LinkOK(link) BY LinkTyped
<1>2. LinkOK(link') /\ link'.task = "closing" BY <1>1 DEF ReadEnds, LinkOK, LinkStates
<1>3. QED BY <1>2, CancelledOK DEF ReadEnds

LEMMA WingStopKeeps ==
  ASSUME WingInv, NEW again \in BOOLEAN, WingStop(again) PROVE WingInv'
<1>1. link \in LinkStates /\ LinkOK(link) BY LinkTyped
<1>2. LinkOK(link') /\ link'.task = "stopping" BY <1>1 DEF WingStop, LinkOK, LinkStates
<1>3. QED BY <1>2, CancelledOK DEF WingStop

LEMMA TornDownKeeps ==
  ASSUME WingInv, TornDown PROVE WingInv'
<1>1. link \in LinkStates /\ LinkOK(link) BY LinkTyped
<1>2. LinkOK(link') /\ link'.task # "reading" /\ (link.running = TRUE => link'.running = TRUE)
  <2>1. CASE link.task = "closing"
    <3>1. link' = [link EXCEPT !.client = FALSE, !.alive = FALSE, !.task = "retrying"] BY <2>1 DEF TornDown
    <3>2. QED BY <1>1, <2>1, <3>1 DEF LinkOK, LinkStates
  <2>2. CASE link.task = "stopping"
    <3>1. link' = WingIdle \/ link' = [WingIdle EXCEPT !.running = TRUE, !.task = "starting"]
      BY <2>2 DEF TornDown
    <3>2. {} \in SUBSET Faders OBVIOUS
    <3>3. CASE link' = WingIdle BY <1>1, <2>2, <3>2, <3>3 DEF LinkOK, LinkStates, WingIdle
    <3>4. CASE link' = [WingIdle EXCEPT !.running = TRUE, !.task = "starting"]
      <4>1. link' = [running |-> TRUE, task |-> "starting", client |-> FALSE, alive |-> FALSE,
                     warm |-> {}, again |-> FALSE]
        BY <3>4 DEF WingIdle
      <4>2. QED BY <1>1, <2>2, <3>2, <4>1 DEF LinkOK, LinkStates
    <3>5. QED BY <3>1, <3>3, <3>4
  <2>3. QED BY <2>1, <2>2 DEF TornDown
<1>3. ASSUME NEW f \in Faders
      PROVE  fader'[f] = [fader[f] EXCEPT !.pending = NoLevel, !.feedback = NoLevel, !.report = FALSE]
  BY DEF TornDown
<1>4. ASSUME NEW f \in Faders PROVE FaderOK(link', fader'[f])
  <2>1. fader[f] \in FaderStates /\ FaderOK(link, fader[f]) BY FaderTyped
  <2>2. /\ fader'[f] \in FaderStates /\ fader'[f].sender = fader[f].sender
        /\ fader'[f].inflight = fader[f].inflight
    BY <1>3, <2>1, TornDownFields
  <2>3. QED BY <1>2, <2>1, <2>2 DEF FaderOK, Settling
<1>5. fader' = [f \in Faders |-> fader'[f]] BY <1>3 DEF TornDown
<1>6. QED BY <1>2, <1>4, <1>5, AllFadersStep

-----------------------------------------------------------------------------
(* The faders. *)

\* What a step of the sends does not touch: what is published, and what of it is due.
SameFeedback(x, y) ==
  /\ y.report = x.report /\ y.mover = x.mover /\ y.desk = x.desk
  /\ y.flusher = x.flusher /\ y.feedback = x.feedback /\ y.published = x.published

LEMMA SettlingKept ==
  ASSUME NEW l, NEW x, NEW y, Settling(l, x), SameFeedback(x, y)
  PROVE  Settling(l, y)
  BY DEF Settling, SameFeedback

LEMMA PutDownFields ==
  ASSUME NEW x \in FaderStates, NEW v \in Levels, NEW y, y = PutDown(x, v)
  PROVE  /\ y \in FaderStates /\ SameFeedback(x, y) /\ y.pending = v /\ y.inflight = x.inflight
         /\ y.sender = (IF x.sender = "idle" THEN "asleep" ELSE x.sender)
  BY NoLevelMaybe DEF FaderStates, PutDown, SameFeedback

LEMMA ResolvingFields ==
  ASSUME NEW x \in FaderStates, NEW v \in MaybeLevels, NEW y, y = [x EXCEPT !.resolving = v]
  PROVE  /\ y \in FaderStates /\ SameFeedback(x, y) /\ y.pending = x.pending
         /\ y.inflight = x.inflight /\ y.sender = x.sender
  BY DEF FaderStates, SameFeedback

LEMMA ResolvedFields ==
  ASSUME NEW x \in FaderStates, NEW b \in BOOLEAN, NEW y,
         y = [x EXCEPT !.resolving = NoLevel, !.cached = b]
  PROVE  /\ y \in FaderStates /\ SameFeedback(x, y) /\ y.pending = x.pending
         /\ y.inflight = x.inflight /\ y.sender = x.sender
  BY NoLevelMaybe DEF FaderStates, SameFeedback

LEMMA WakeFields ==
  ASSUME NEW x \in FaderStates, NEW y,
         y = [[[x EXCEPT !.sender = "writing"] EXCEPT !.inflight = x.pending] EXCEPT !.pending = NoLevel]
  PROVE  /\ y \in FaderStates /\ SameFeedback(x, y) /\ y.pending = NoLevel
         /\ y.inflight = x.pending /\ y.sender = "writing"
  BY NoLevelMaybe DEF FaderStates, SameFeedback

LEMMA IdleFields ==
  ASSUME NEW x \in FaderStates, NEW y, y = [x EXCEPT !.sender = "idle"]
  PROVE  /\ y \in FaderStates /\ SameFeedback(x, y) /\ y.pending = x.pending
         /\ y.inflight = x.inflight /\ y.sender = "idle"
  BY DEF FaderStates, SameFeedback

LEMMA FailedFields ==
  ASSUME NEW x \in FaderStates, NEW y, y = [x EXCEPT !.inflight = NoLevel, !.sender = "idle"]
  PROVE  /\ y \in FaderStates /\ SameFeedback(x, y) /\ y.pending = x.pending
         /\ y.inflight = NoLevel /\ y.sender = "idle"
  BY NoLevelMaybe DEF FaderStates, SameFeedback

\* What becomes of a fader in Written, DeskMoves, NodeData and FlushFeedback.
AfterWrite(x, l) ==
  [x EXCEPT !.inflight = NoLevel, !.sender = SendAgain(x), !.recent = @ \cup {x.inflight},
            !.desk = IF l.alive THEN x.inflight ELSE @, !.mover = IF l.alive THEN "app" ELSE @,
            !.report = @ \/ l.alive]
AfterMove(x, v, l) == [[[x EXCEPT !.desk = v] EXCEPT !.report = l.alive] EXCEPT !.mover = "desk"]
AfterNodeData(x) ==
  [IF ~x.cached THEN [x EXCEPT !.mover = "none"]
   ELSE IF x.desk \in x.recent THEN [x EXCEPT !.mover = "app"]
   ELSE QueueFeedback(x) EXCEPT !.report = FALSE]
Skips(x, l) == ~l.running \/ x.feedback = NoLevel \/ Near(x.published, x.feedback)
AfterFlush(x, l) ==
  [x EXCEPT !.flusher = "idle", !.feedback = IF l.running THEN NoLevel ELSE @,
            !.published = IF Skips(x, l) THEN @ ELSE x.feedback]

LEMMA WrittenFields ==
  ASSUME NEW x \in FaderStates, x.inflight # NoLevel, NEW l \in LinkStates, NEW y, y = AfterWrite(x, l)
  PROVE  /\ y \in FaderStates /\ y.pending = x.pending /\ y.inflight = NoLevel
         /\ y.sender = SendAgain(x)
         /\ l.alive = TRUE => y.mover = "app" /\ y.desk = x.inflight
         /\ l.alive = FALSE => y.desk = x.desk
<1> DEFINE alive == l.alive
<1>0. alive \in BOOLEAN BY DEF LinkStates
<1>1. x.inflight \in Levels BY DEF FaderStates, MaybeLevels
<1>2. SendAgain(x) \in {"idle", "asleep"} BY DEF SendAgain
<1>3. (x.report \/ alive) \in BOOLEAN BY <1>0
<1>4. (IF alive THEN x.inflight ELSE x.desk) \in Levels BY <1>1 DEF FaderStates
<1>5. (IF alive THEN "app" ELSE x.mover) \in {"none", "app", "desk"} BY DEF FaderStates
<1>6. x.recent \cup {x.inflight} \in SUBSET Levels BY <1>1 DEF FaderStates
<1> DEFINE next == SendAgain(x)
           report == (x.report \/ alive)
           place == IF alive THEN x.inflight ELSE x.desk
           mover == IF alive THEN "app" ELSE x.mover
           recent == x.recent \cup {x.inflight}
<1>7. y = [x EXCEPT !.inflight = NoLevel, !.sender = next, !.recent = recent,
                    !.desk = place, !.mover = mover, !.report = report]
  BY DEF AfterWrite
<1>8. /\ alive = TRUE => mover = "app" /\ place = x.inflight
      /\ alive = FALSE => place = x.desk OBVIOUS
<1> HIDE DEF next, report, place, mover, recent
<1>9. /\ next \in {"idle", "asleep"} /\ report \in BOOLEAN /\ place \in Levels
      /\ mover \in {"none", "app", "desk"} /\ recent \in SUBSET Levels
  BY <1>2, <1>3, <1>4, <1>5, <1>6 DEF next, report, place, mover, recent
<1>10. /\ y \in FaderStates /\ y.pending = x.pending /\ y.inflight = NoLevel
       /\ y.sender = next /\ y.mover = mover /\ y.desk = place
  BY <1>7, <1>9, NoLevelMaybe DEF FaderStates
<1>11. QED BY <1>8, <1>10 DEF next

LEMMA FaderMoved ==
  ASSUME NEW x \in FaderStates, NEW v \in Levels, NEW l \in LinkStates, NEW y, y = AfterMove(x, v, l)
  PROVE  /\ y \in FaderStates /\ y.pending = x.pending /\ y.inflight = x.inflight
         /\ y.sender = x.sender /\ y.report = l.alive /\ y.desk = v
  BY DEF FaderStates, LinkStates, AfterMove

LEMMA ForgottenFields ==
  ASSUME NEW x \in FaderStates, NEW v, NEW y, y = [x EXCEPT !.recent = @ \ {v}]
  PROVE  /\ y \in FaderStates /\ SameFeedback(x, y) /\ y.pending = x.pending
         /\ y.inflight = x.inflight /\ y.sender = x.sender
  BY DEF FaderStates, SameFeedback

LEMMA NodeDataFields ==
  ASSUME NEW x \in FaderStates, NEW y, y = AfterNodeData(x)
  PROVE  /\ y \in FaderStates /\ y.pending = x.pending /\ y.inflight = x.inflight
         /\ y.sender = x.sender /\ y.desk = x.desk
         /\ y.mover = "desk" => y.flusher = "asleep" /\ y.feedback = y.desk
<1>1. CASE ~x.cached
  <2>1. y = [[x EXCEPT !.mover = "none"] EXCEPT !.report = FALSE] BY <1>1 DEF AfterNodeData
  <2>2. QED BY <2>1 DEF FaderStates
<1>2. CASE x.cached /\ x.desk \in x.recent
  <2>1. y = [[x EXCEPT !.mover = "app"] EXCEPT !.report = FALSE] BY <1>2 DEF AfterNodeData
  <2>2. QED BY <2>1 DEF FaderStates
<1>3. CASE x.cached /\ x.desk \notin x.recent
  <2>1. y = [[x EXCEPT !.feedback = x.desk, !.flusher = "asleep"] EXCEPT !.report = FALSE]
    BY <1>3 DEF QueueFeedback, AfterNodeData
  <2>2. x.desk \in MaybeLevels BY NoLevelMaybe DEF FaderStates
  <2>3. QED BY <2>1, <2>2 DEF FaderStates
<1>4. QED BY <1>1, <1>2, <1>3

LEMMA FlushedFields ==
  ASSUME NEW x \in FaderStates, NEW l \in LinkStates, NEW y, y = AfterFlush(x, l)
  PROVE  /\ y \in FaderStates /\ y.pending = x.pending /\ y.inflight = x.inflight
         /\ y.sender = x.sender /\ y.desk = x.desk /\ y.flusher = "idle"
         /\ y.report = x.report /\ y.mover = x.mover
         /\ ~Skips(x, l) => y.published = x.feedback
         /\ Skips(x, l) => y.published = x.published
<1> DEFINE feedback == IF l.running THEN NoLevel ELSE x.feedback
           published == IF Skips(x, l) THEN x.published ELSE x.feedback
<1>1. y = [x EXCEPT !.flusher = "idle", !.feedback = feedback, !.published = published] BY DEF AfterFlush
<1>2. /\ feedback \in MaybeLevels /\ published \in {x.published, x.feedback}
      /\ ~Skips(x, l) => published = x.feedback
      /\ Skips(x, l) => published = x.published
  BY NoLevelMaybe DEF FaderStates
<1> HIDE DEF feedback, published
<1>3. QED BY <1>1, <1>2 DEF FaderStates

\* A step of the sends of one fader, of which the session and its values know nothing.
LEMMA SendStep ==
  ASSUME WingInv, UNCHANGED link, NEW f \in Faders, NEW y \in FaderStates,
         fader' = [fader EXCEPT ![f] = y], SameFeedback(fader[f], y),
         y.sender = "writing" <=> y.inflight # NoLevel,
         y.sender = "writing" => link.running = TRUE
  PROVE  WingInv'
<1>1. fader[f] \in FaderStates /\ FaderOK(link, fader[f]) /\ LinkOK(link) BY FaderTyped, LinkTyped
<1>2. Settling(link, y) BY <1>1, SettlingKept DEF FaderOK
<1>3. FaderOK(link', y) /\ LinkOK(link') BY <1>1, <1>2 DEF FaderOK, LinkOK, Settling
<1>4. QED BY <1>3, FaderSteps

LEMMA WarmedKeeps ==
  ASSUME WingInv, NEW f \in Faders, Warmed(f)
  PROVE  WingInv'
<1> DEFINE x == fader[f]
<1>1. x \in FaderStates /\ FaderOK(link, x) /\ LinkOK(link) /\ link \in LinkStates /\ fader \in [Faders -> FaderStates]
  BY FaderTyped, LinkTyped DEF WingInv
<1>2. /\ LinkOK(link') /\ link'.running = link.running /\ link'.task = link.task
      /\ link'.alive = link.alive
  BY <1>1 DEF Warmed, LinkOK, LinkStates
<1>3. PICK found \in BOOLEAN :
        fader' = [fader EXCEPT ![f].cached = found, ![f].report = @ \/ found,
                               ![f].mover = IF found THEN "desk" ELSE @]
  BY DEF Warmed
<1>4. CASE found = TRUE
  <2> DEFINE y == [[[x EXCEPT !.cached = TRUE] EXCEPT !.report = TRUE] EXCEPT !.mover = "desk"]
  <2>1. fader' = [fader EXCEPT ![f] = y] BY <1>1, <1>3, <1>4
  <2>2. y \in FaderStates /\ y.sender = x.sender /\ y.inflight = x.inflight /\ y.report = TRUE
    BY <1>1 DEF FaderStates
  <2> HIDE DEF y
  <2>3. FaderOK(link', y) BY <1>1, <1>2, <2>2 DEF FaderOK, Settling
  <2>4. QED BY <1>2, <2>1, <2>3, FaderSteps
<1>5. CASE found = FALSE
  <2> DEFINE y == [[[x EXCEPT !.cached = FALSE] EXCEPT !.report = @ \/ FALSE] EXCEPT !.mover = @]
  <2>1. fader' = [fader EXCEPT ![f] = y] BY <1>1, <1>3, <1>5
  <2>2. y \in FaderStates /\ y.sender = x.sender /\ y.inflight = x.inflight /\ SameFeedback(x, y)
    BY <1>1 DEF FaderStates, SameFeedback
  <2> HIDE DEF y
  <2>3. FaderOK(link', y) BY <1>1, <1>2, <2>2 DEF FaderOK, Settling, SameFeedback
  <2>4. QED BY <1>2, <2>1, <2>3, FaderSteps
<1>6. QED BY <1>4, <1>5

LEMMA PutDownKeeps ==
  ASSUME WingInv, UNCHANGED link, NEW f \in Faders, NEW x \in FaderStates, NEW v \in Levels,
         SameFeedback(fader[f], x), x.sender = fader[f].sender, x.inflight = fader[f].inflight,
         fader' = [fader EXCEPT ![f] = PutDown(x, v)]
  PROVE  WingInv'
<1>1. FaderOK(link, fader[f]) BY FaderTyped
<1> DEFINE y == PutDown(x, v)
<1>2. /\ y \in FaderStates /\ SameFeedback(x, y) /\ y.inflight = x.inflight
      /\ y.sender = (IF x.sender = "idle" THEN "asleep" ELSE x.sender)
  BY PutDownFields
<1>3. fader' = [fader EXCEPT ![f] = y] OBVIOUS
<1> HIDE DEF y
<1>4. SameFeedback(fader[f], y) BY <1>2 DEF SameFeedback
<1>5. QED BY <1>1, <1>2, <1>3, <1>4, SendStep DEF FaderOK

LEMMA SendKeeps ==
  ASSUME WingInv, NEW f \in Faders, NEW v \in Levels, Send(f, v)
  PROVE  WingInv'
<1> DEFINE x == fader[f]
<1>1. x \in FaderStates /\ FaderOK(link, x) /\ fader \in [Faders -> FaderStates] BY FaderTyped DEF WingInv
<1>2. CASE x.cached
  <2>1. fader' = [fader EXCEPT ![f] = PutDown(x, v)] /\ UNCHANGED link BY <1>1, <1>2 DEF Send
  <2>2. SameFeedback(fader[f], x) BY DEF SameFeedback
  <2>3. QED BY <1>1, <2>1, <2>2, PutDownKeeps
<1>3. CASE ~x.cached
  <2> DEFINE y == [x EXCEPT !.resolving = v]
  <2>1. fader' = [fader EXCEPT ![f] = y] /\ UNCHANGED link BY <1>1, <1>3 DEF Send
  <2>2. y \in FaderStates /\ SameFeedback(x, y) /\ y.inflight = x.inflight /\ y.sender = x.sender
    BY <1>1, NoLevelMaybe, ResolvingFields
  <2> HIDE DEF y
  <2>3. QED BY <1>1, <2>1, <2>2, SendStep DEF FaderOK
<1>4. QED BY <1>2, <1>3

LEMMA ResolvedKeeps ==
  ASSUME WingInv, NEW f \in Faders, Resolved(f)
  PROVE  WingInv'
<1> DEFINE x == fader[f]
<1>1. /\ x \in FaderStates /\ FaderOK(link, x) /\ link \in LinkStates /\ UNCHANGED link
      /\ fader \in [Faders -> FaderStates]
  BY FaderTyped, LinkTyped DEF WingInv, Resolved
<1>2. CASE fader' = [fader EXCEPT ![f] =
                [PutDown(x, x.resolving) EXCEPT !.resolving = NoLevel, !.cached = link.client]]
  <2> DEFINE z == PutDown(x, x.resolving)
             y == [z EXCEPT !.resolving = NoLevel, !.cached = link.client]
  <2>1. x.resolving \in Levels BY <1>1 DEF Resolved, FaderStates, MaybeLevels
  <2>2. /\ z \in FaderStates /\ SameFeedback(x, z) /\ z.inflight = x.inflight
        /\ z.sender = (IF x.sender = "idle" THEN "asleep" ELSE x.sender)
    BY <1>1, <2>1, PutDownFields
  <2>3. link.client \in BOOLEAN BY <1>1 DEF LinkStates
  <2>4. fader' = [fader EXCEPT ![f] = y] BY <1>2
  <2> HIDE DEF z
  <2>5. y \in FaderStates /\ SameFeedback(z, y) /\ y.inflight = z.inflight /\ y.sender = z.sender
    BY <2>2, <2>3, ResolvedFields
  <2> HIDE DEF y
  <2>6. SameFeedback(x, y) BY <2>2, <2>5 DEF SameFeedback
  <2>7. QED BY <1>1, <2>2, <2>4, <2>5, <2>6, SendStep DEF FaderOK
<1>3. CASE fader' = [fader EXCEPT ![f].resolving = NoLevel]
  <2> DEFINE y == [x EXCEPT !.resolving = NoLevel]
  <2>1. fader' = [fader EXCEPT ![f] = y] BY <1>1, <1>3
  <2>2. y \in FaderStates /\ SameFeedback(x, y) /\ y.inflight = x.inflight /\ y.sender = x.sender
    BY <1>1, NoLevelMaybe, ResolvingFields
  <2> HIDE DEF y
  <2>3. QED BY <1>1, <2>1, <2>2, SendStep DEF FaderOK
<1>4. QED BY <1>2, <1>3 DEF Resolved

LEMMA WakeKeeps ==
  ASSUME WingInv, NEW f \in Faders, Wake(f)
  PROVE  WingInv'
<1> DEFINE x == fader[f]
<1>1. /\ x \in FaderStates /\ FaderOK(link, x) /\ link \in LinkStates /\ UNCHANGED link
      /\ fader \in [Faders -> FaderStates] /\ x.sender = "asleep"
  BY FaderTyped, LinkTyped DEF WingInv, Wake
<1>2. CASE link.running /\ link.client /\ x.pending # NoLevel
  <2> DEFINE y == [[[x EXCEPT !.sender = "writing"] EXCEPT !.inflight = x.pending] EXCEPT !.pending = NoLevel]
  <2>1. fader' = [fader EXCEPT ![f] = y] BY <1>1, <1>2 DEF Wake
  <2>2. y \in FaderStates /\ SameFeedback(x, y) /\ y.inflight = x.pending /\ y.sender = "writing"
    BY <1>1, WakeFields
  <2>3. link.running = TRUE BY <1>1, <1>2 DEF LinkStates
  <2> HIDE DEF y
  <2>4. QED BY <1>1, <1>2, <2>1, <2>2, <2>3, SendStep
<1>3. CASE ~(link.running /\ link.client /\ x.pending # NoLevel)
  <2> DEFINE y == [x EXCEPT !.sender = "idle"]
  <2>1. fader' = [fader EXCEPT ![f] = y] BY <1>1, <1>3 DEF Wake
  <2>2. y \in FaderStates /\ SameFeedback(x, y) /\ y.inflight = x.inflight /\ y.sender = "idle"
    BY <1>1, IdleFields
  <2> HIDE DEF y
  <2>3. x.inflight = NoLevel BY <1>1 DEF FaderOK
  <2>4. QED BY <1>1, <2>1, <2>2, <2>3, SendStep
<1>4. QED BY <1>2, <1>3

LEMMA WrittenKeeps ==
  ASSUME WingInv, NEW f \in Faders, Written(f)
  PROVE  WingInv'
<1> DEFINE x == fader[f]
           y == AfterWrite(x, link)
<1>1. /\ x \in FaderStates /\ FaderOK(link, x) /\ LinkOK(link) /\ link \in LinkStates /\ UNCHANGED link
      /\ x.sender = "writing"
  BY FaderTyped, LinkTyped DEF Written
<1>2. fader' = [fader EXCEPT ![f] = y] BY DEF Written, AfterWrite
<1>3. link.alive \in BOOLEAN /\ x.inflight # NoLevel BY <1>1 DEF LinkStates, FaderOK
<1>4. /\ y \in FaderStates /\ y.inflight = NoLevel /\ y.sender = SendAgain(x)
      /\ link.alive = TRUE => y.mover = "app"
  BY <1>1, <1>3, WrittenFields
<1> HIDE DEF y, x
<1>5. y.sender # "writing" BY <1>4 DEF SendAgain
<1>6. Settling(link, y) BY <1>4 DEF Settling
<1>7. FaderOK(link', y) /\ LinkOK(link') BY <1>1, <1>4, <1>5, <1>6 DEF FaderOK, Settling
<1>8. QED BY <1>1, <1>2, <1>7, FaderSteps

LEMMA WriteFailsKeeps ==
  ASSUME WingInv, NEW f \in Faders, WriteFails(f)
  PROVE  WingInv'
<1> DEFINE x == fader[f]
           y == [x EXCEPT !.inflight = NoLevel, !.sender = "idle"]
<1>1. x \in FaderStates /\ UNCHANGED link /\ fader \in [Faders -> FaderStates]
  BY FaderTyped DEF WingInv, WriteFails
<1>2. fader' = [fader EXCEPT ![f] = y] BY <1>1 DEF WriteFails
<1>3. y \in FaderStates /\ SameFeedback(x, y) /\ y.inflight = NoLevel /\ y.sender = "idle"
  BY <1>1, FailedFields
<1> HIDE DEF y
<1>4. QED BY <1>1, <1>2, <1>3, SendStep

LEMMA DeskMovesKeeps ==
  ASSUME WingInv, NEW f \in Faders, NEW v \in Levels, DeskMoves(f, v)
  PROVE  WingInv'
<1> DEFINE x == fader[f]
           y == AfterMove(x, v, link)
<1>1. /\ x \in FaderStates /\ FaderOK(link, x) /\ LinkOK(link) /\ link \in LinkStates /\ UNCHANGED link
      /\ fader \in [Faders -> FaderStates]
  BY FaderTyped, LinkTyped DEF WingInv, DeskMoves
<1>2. fader' = [fader EXCEPT ![f] = y] BY <1>1 DEF DeskMoves, AfterMove
<1>3. link.alive \in BOOLEAN BY <1>1 DEF LinkStates
<1>4. /\ y \in FaderStates /\ y.inflight = x.inflight /\ y.sender = x.sender
      /\ y.report = link.alive
  BY <1>1, <1>3, FaderMoved
<1> HIDE DEF y
<1>5. FaderOK(link', y) /\ LinkOK(link') BY <1>1, <1>4 DEF FaderOK, Settling
<1>6. QED BY <1>1, <1>2, <1>5, FaderSteps

LEMMA EchoForgottenKeeps ==
  ASSUME WingInv, NEW f \in Faders, NEW v \in Levels, EchoForgotten(f, v)
  PROVE  WingInv'
<1> DEFINE x == fader[f]
           y == [x EXCEPT !.recent = @ \ {v}]
<1>1. /\ x \in FaderStates /\ FaderOK(link, x) /\ UNCHANGED link /\ fader \in [Faders -> FaderStates]
  BY FaderTyped DEF WingInv, EchoForgotten
<1>2. fader' = [fader EXCEPT ![f] = y] BY <1>1 DEF EchoForgotten
<1>3. y \in FaderStates /\ SameFeedback(x, y) /\ y.inflight = x.inflight /\ y.sender = x.sender
  BY <1>1, ForgottenFields
<1> HIDE DEF y
<1>4. QED BY <1>1, <1>2, <1>3, SendStep DEF FaderOK

LEMMA NodeDataKeeps ==
  ASSUME WingInv, NEW f \in Faders, NodeData(f)
  PROVE  WingInv'
<1> DEFINE x == fader[f]
           y == AfterNodeData(x)
<1>1. x \in FaderStates /\ FaderOK(link, x) /\ LinkOK(link) /\ UNCHANGED link
  BY FaderTyped, LinkTyped DEF NodeData
<1>2. fader' = [fader EXCEPT ![f] = y] BY DEF NodeData, AfterNodeData
<1>3. /\ y \in FaderStates /\ y.inflight = x.inflight /\ y.sender = x.sender
      /\ y.mover = "desk" => y.flusher = "asleep" /\ y.feedback = y.desk
  BY <1>1, NodeDataFields
<1> HIDE DEF y
<1>4. FaderOK(link', y) /\ LinkOK(link') BY <1>1, <1>3 DEF FaderOK, Settling
<1>5. QED BY <1>1, <1>2, <1>4, FaderSteps

LEMMA NearItself == ASSUME NEW v \in Levels PROVE Near(v, v)
<1>1. v \in Int /\ v # NoLevel /\ v - v = 0 /\ 0 < Deadband BY WingAssumption
<1>2. QED BY <1>1 DEF Near

LEMMA FlushFeedbackKeeps ==
  ASSUME WingInv, NEW f \in Faders, FlushFeedback(f)
  PROVE  WingInv'
<1> DEFINE x == fader[f]
           y == AfterFlush(x, link)
<1>1. /\ x \in FaderStates /\ FaderOK(link, x) /\ LinkOK(link) /\ link \in LinkStates /\ UNCHANGED link
      /\ x.flusher = "asleep"
  BY FaderTyped, LinkTyped DEF FlushFeedback
<1>2. fader' = [fader EXCEPT ![f] = y] BY DEF FlushFeedback, AfterFlush, Skips
<1>3. /\ y \in FaderStates /\ y.inflight = x.inflight
      /\ y.sender = x.sender /\ y.desk = x.desk /\ y.flusher = "idle"
      /\ y.report = x.report /\ y.mover = x.mover
      /\ ~Skips(x, link) => y.published = x.feedback
      /\ Skips(x, link) => y.published = x.published
  BY <1>1, FlushedFields
<1> HIDE DEF y
<1>4. Settling(link, y)
  <2> SUFFICES ASSUME link.task = "reading", link.alive = TRUE, y.report = FALSE, y.mover = "desk"
               PROVE  Near(y.published, y.desk)
    BY <1>3 DEF Settling
  <2>1. x.feedback = x.desk BY <1>1, <1>3 DEF FaderOK, Settling
  <2>2. x.desk \in Levels /\ x.feedback # NoLevel BY <1>1, <2>1, WingAssumption DEF FaderStates
  <2>3. link.running = TRUE BY <1>1 DEF LinkOK
  <2>4. CASE Skips(x, link) BY <1>3, <2>1, <2>2, <2>3, <2>4 DEF Skips
  <2>5. CASE ~Skips(x, link)
    <3>1. y.published = y.desk BY <1>3, <2>1, <2>5
    <3>2. Near(x.desk, x.desk) BY <2>2, NearItself
    <3>3. QED BY <1>3, <3>1, <3>2
  <2>6. QED BY <2>4, <2>5
<1>5. FaderOK(link', y) /\ LinkOK(link') BY <1>1, <1>3, <1>4 DEF FaderOK, Settling
<1>6. QED BY <1>1, <1>2, <1>5, FaderSteps

-----------------------------------------------------------------------------
(* What is published. *)

WingNext == WingRuns \/ WingWorld

LEMMA WingInitially == WingInit => WingInv
<1> SUFFICES ASSUME WingInit PROVE WingInv OBVIOUS
<1>1. LinkOK(link) BY DEF WingInit, WingIdle, LinkOK, LinkStates
<1> DEFINE x == [pending |-> NoLevel, sender |-> "idle", inflight |-> NoLevel,
                 resolving |-> NoLevel, cached |-> FALSE, feedback |-> NoLevel, flusher |-> "idle",
                 published |-> NoLevel, recent |-> {},
                 desk |-> CHOOSE v \in Levels : TRUE, report |-> FALSE, mover |-> "none"]
<1>2. fader = [f \in Faders |-> x] BY DEF WingInit
<1>3. (CHOOSE v \in Levels : TRUE) \in Levels BY WingAssumption
<1>4. x \in FaderStates BY <1>3, NoLevelMaybe DEF FaderStates
<1>5. x.sender = "idle" /\ x.inflight = NoLevel /\ x.mover = "none" OBVIOUS
<1> HIDE DEF x
<1>6. FaderOK(link, x) BY <1>4, <1>5 DEF FaderOK, Settling
<1>7. QED BY <1>1, <1>2, <1>4, <1>6 DEF WingInv

LEMMA WingKeeps == WingInv /\ [WingNext]_wingVars => WingInv'
<1> SUFFICES ASSUME WingInv, [WingNext]_wingVars PROVE WingInv' OBVIOUS
<1>1. ASSUME NEW f \in Faders, Wake(f) \/ Written(f) \/ WriteFails(f) PROVE WingInv'
  BY <1>1, WakeKeeps, WrittenKeeps, WriteFailsKeeps
<1>2. CASE RetryDue \/ Connected \/ ConnectFails \/ ReadEnds \/ TornDown
  BY <1>2, RetryDueKeeps, ConnectedKeeps, ConnectFailsKeeps, ReadEndsKeeps, TornDownKeeps
<1>3. ASSUME NEW f \in Faders, Warmed(f) \/ Resolved(f) \/ NodeData(f) \/ FlushFeedback(f) PROVE WingInv'
  BY <1>3, WarmedKeeps, ResolvedKeeps, NodeDataKeeps, FlushFeedbackKeeps
<1>4. CASE WingStart \/ LinkBreaks BY <1>4, WingStartKeeps, LinkBreaksKeeps
<1>5. ASSUME NEW again \in BOOLEAN, WingStop(again) PROVE WingInv' BY <1>5, WingStopKeeps
<1>6. ASSUME NEW f \in Faders, NEW v \in Levels, Send(f, v) \/ DeskMoves(f, v) \/ EchoForgotten(f, v)
      PROVE WingInv'
  BY <1>6, SendKeeps, DeskMovesKeeps, EchoForgottenKeeps
<1>7. CASE UNCHANGED wingVars
  <2>1. link' = link /\ fader' = fader BY <1>7 DEF wingVars
  <2>2. QED BY <2>1 DEF WingInv, LinkOK, FaderOK, Settling
<1>8. QED BY <1>1, <1>2, <1>3, <1>4, <1>5, <1>6, <1>7 DEF WingNext, WingRuns, WingSends, WingWorld

\* What WingInv says holds in every state: it is inductive.
THEOREM WingInvariant == WingSpec => []WingInv
<1>1. WingInit => WingInv BY WingInitially
<1>2. WingInv /\ [WingNext]_wingVars => WingInv' BY WingKeeps
<1>3. QED BY <1>1, <1>2, PTL DEF WingSpec, WingNext

\* The session and the faders have their types (WingNativeAdapter).
THEOREM WingTypeCorrect == WingSpec => []WingTypeOK
<1>1. WingInv => WingTypeOK
  BY DEF WingInv, WingTypeOK, LinkOK, LinkStates, FaderOK, FaderStates, MaybeLevels
<1>2. QED BY <1>1, WingInvariant, PTL

\* Once nothing is under way, what was published of a fader is within the dead band of
\* where the engineer left it (_publish_node_data(), _flush_fader_feedback()).
THEOREM FeedbackSettlesHolds == WingSpec => []FeedbackSettles
<1>1. WingInv => FeedbackSettles
  <2> SUFFICES ASSUME WingInv, NEW f \in Faders,
                      link.task = "reading", link.alive, ~fader[f].report, fader[f].flusher = "idle",
                      fader[f].mover = "desk"
               PROVE  Near(fader[f].published, fader[f].desk)
    BY DEF FeedbackSettles
  <2>1. link \in LinkStates /\ fader[f] \in FaderStates /\ Settling(link, fader[f])
    BY LinkTyped, FaderTyped DEF FaderOK
  <2>2. link.alive = TRUE /\ fader[f].report = FALSE BY <2>1 DEF LinkStates, FaderStates
  <2>3. QED BY <2>1, <2>2 DEF Settling
<1>2. QED BY <1>1, WingInvariant, PTL

-----------------------------------------------------------------------------
(* What is sent. *)

\* Of what waits, in which pieces it goes.
Up(l) == l.task = "reading" /\ l.alive
First(x) == IF x.inflight # NoLevel THEN <<x.inflight>> ELSE <<>>
Second(x) == IF x.pending # NoLevel /\ x.sender # "idle" THEN <<x.pending>> ELSE <<>>

LEMMA WaitingParts ==
  ASSUME NEW x \in FaderStates
  PROVE  /\ WaitingSends(x) = First(x) \o Second(x)
         /\ First(x) \in Seq(MaybeLevels) /\ Second(x) \in Seq(MaybeLevels)
         /\ WaitingSends(x) \in Seq(MaybeLevels)
<1>1. First(x) \in Seq(MaybeLevels) /\ Second(x) \in Seq(MaybeLevels) BY DEF First, Second, FaderStates
<1>2. WaitingSends(x) = First(x) \o Second(x) BY DEF WaitingSends, First, Second
<1>3. QED BY <1>1, <1>2

LEMMA Prefix ==
  ASSUME NEW S, NEW a \in Seq(S), NEW b \in Seq(S)
  PROVE  a \in Mailbox!Shortened(a \o b)
<1>1. SubSeq(a \o b, 1, Len(a)) = a BY ConcatProperties, SubSeqProperties
<1>2. Len(a) \in 0 .. Len(a \o b) BY ConcatProperties
<1>3. QED BY <1>1, <1>2 DEF Mailbox!Shortened

LEMMA Pieces ==
  ASSUME NEW S, NEW a \in Seq(S), NEW b \in Seq(S)
  PROVE  /\ <<>> \in Mailbox!Remainders(a \o b)
         /\ a \in Mailbox!Remainders(a \o b)
         /\ b \in Mailbox!Remainders(a \o b)
         /\ a \o b \in Mailbox!Remainders(a \o b)
<1> DEFINE s == a \o b
<1>1. /\ s \in Seq(S) /\ Len(s) = Len(a) + Len(b)
      /\ Len(s) \in Nat /\ Len(a) \in Nat /\ Len(b) \in Nat
  BY ConcatProperties
<1>2. \A m \in 1 .. Len(s) + 1, n \in 0 .. Len(s) : SubSeq(s, m, n) \in Mailbox!Remainders(s)
  BY DEF Mailbox!Remainders
<1>3. SubSeq(s, 1, 0) = <<>> BY <1>1
<1>4. SubSeq(s, 1, Len(a)) = a BY ConcatProperties, SubSeqProperties
<1>5. SubSeq(s, Len(a) + 1, Len(s)) = b BY <1>1, ConcatProperties, SubSeqProperties
<1>6. SubSeq(s, 1, Len(s)) = s BY <1>1, SubSeqProperties
<1> HIDE DEF s
<1>7. /\ <<>> \in Mailbox!Remainders(s) /\ a \in Mailbox!Remainders(s)
      /\ b \in Mailbox!Remainders(s) /\ s \in Mailbox!Remainders(s)
  <2>1. /\ 1 \in 1 .. Len(s) + 1 /\ 0 \in 0 .. Len(s) /\ Len(a) \in 0 .. Len(s)
        /\ Len(s) \in 0 .. Len(s) /\ Len(a) + 1 \in 1 .. Len(s) + 1
    BY <1>1
  <2>2. SubSeq(s, 1, 0) \in Mailbox!Remainders(s) BY <1>2, <2>1
  <2>3. SubSeq(s, 1, Len(a)) \in Mailbox!Remainders(s) BY <1>2, <2>1
  <2>4. SubSeq(s, Len(a) + 1, Len(s)) \in Mailbox!Remainders(s) BY <1>2, <2>1
  <2>5. SubSeq(s, 1, Len(s)) \in Mailbox!Remainders(s) BY <1>2, <2>1
  <2>6. QED BY <1>3, <1>4, <1>5, <1>6, <2>2, <2>3, <2>4, <2>5
<1>8. QED BY <1>7 DEF s

\* The steps of LatestValue, as steps of the faders.
Waiting == [f \in Faders |-> WaitingSends(fader[f])]
PassedOn == [f \in Faders |-> fader[f].desk]

LEMMA OneFader ==
  ASSUME WingInv, NEW f \in Faders, NEW y, fader' = [fader EXCEPT ![f] = y]
  PROVE  /\ Waiting' = [Waiting EXCEPT ![f] = WaitingSends(y)]
         /\ PassedOn' = [PassedOn EXCEPT ![f] = y.desk]
         /\ Waiting = [Waiting EXCEPT ![f] = WaitingSends(fader[f])]
         /\ PassedOn = [PassedOn EXCEPT ![f] = fader[f].desk]
         /\ Waiting[f] = WaitingSends(fader[f])
<1>1. fader'[f] = y /\ \A g \in Faders : g # f => fader'[g] = fader[g] BY DEF WingInv
<1>2. Waiting' = [g \in Faders |-> IF g = f THEN WaitingSends(y) ELSE Waiting[g]] BY <1>1 DEF Waiting
<1>3. PassedOn' = [g \in Faders |-> IF g = f THEN y.desk ELSE PassedOn[g]] BY <1>1 DEF PassedOn
<1>4. DOMAIN Waiting = Faders /\ DOMAIN PassedOn = Faders BY DEF Waiting, PassedOn
<1>5. Waiting[f] = WaitingSends(fader[f]) /\ PassedOn[f] = fader[f].desk BY DEF Waiting, PassedOn
<1>6. Waiting = [g \in Faders |-> Waiting[g]] /\ PassedOn = [g \in Faders |-> PassedOn[g]]
  BY DEF Waiting, PassedOn
<1>7. QED BY <1>2, <1>3, <1>4, <1>5, <1>6

LEMMA StutterStep ==
  ASSUME Waiting' = Waiting, PassedOn' = PassedOn, Up(link') = Up(link)
  PROVE  UNCHANGED Mailbox!vars
  BY DEF Waiting, PassedOn, Up, Mailbox!vars

LEMMA OneStutters ==
  ASSUME WingInv, NEW f \in Faders, NEW y, fader' = [fader EXCEPT ![f] = y],
         WaitingSends(y) = WaitingSends(fader[f]), y.desk = fader[f].desk, Up(link') = Up(link)
  PROVE  UNCHANGED Mailbox!vars
<1>0. /\ Waiting' = [Waiting EXCEPT ![f] = WaitingSends(y)]
      /\ PassedOn' = [PassedOn EXCEPT ![f] = y.desk]
      /\ Waiting = [Waiting EXCEPT ![f] = WaitingSends(fader[f])]
      /\ PassedOn = [PassedOn EXCEPT ![f] = fader[f].desk]
      /\ Waiting[f] = WaitingSends(fader[f])
  BY OneFader, Zenon
<1>1. Waiting' = Waiting /\ PassedOn' = PassedOn BY <1>0
<1>2. QED BY <1>1, StutterStep

LEMMA PutStep ==
  ASSUME WingInv, NEW f \in Faders, NEW y, fader' = [fader EXCEPT ![f] = y], NEW v \in Levels,
         NEW s \in Mailbox!Shortened(WaitingSends(fader[f])), WaitingSends(y) = Append(s, v),
         y.desk = fader[f].desk, Up(link') = Up(link)
  PROVE  Mailbox!Next
<1>0. /\ Waiting' = [Waiting EXCEPT ![f] = WaitingSends(y)]
      /\ PassedOn' = [PassedOn EXCEPT ![f] = y.desk]
      /\ Waiting = [Waiting EXCEPT ![f] = WaitingSends(fader[f])]
      /\ PassedOn = [PassedOn EXCEPT ![f] = fader[f].desk]
      /\ Waiting[f] = WaitingSends(fader[f])
  BY OneFader, Zenon
<1>1. Waiting' = [Waiting EXCEPT ![f] = Append(s, v)] /\ PassedOn' = PassedOn BY <1>0
<1>2. s \in Mailbox!Shortened(Waiting[f]) BY DEF Waiting
<1>3. Mailbox!Put(f, v) BY <1>1, <1>2 DEF Mailbox!Put, Waiting, PassedOn, Up
<1>4. QED BY <1>3 DEF Mailbox!Next

LEMMA PassStep ==
  ASSUME WingInv, NEW f \in Faders, NEW y, fader' = [fader EXCEPT ![f] = y],
         Up(link), Up(link'), WaitingSends(fader[f]) # <<>>,
         y.desk = Head(WaitingSends(fader[f])), WaitingSends(y) = Tail(WaitingSends(fader[f]))
  PROVE  Mailbox!Next
<1>0. /\ Waiting' = [Waiting EXCEPT ![f] = WaitingSends(y)]
      /\ PassedOn' = [PassedOn EXCEPT ![f] = y.desk]
      /\ Waiting = [Waiting EXCEPT ![f] = WaitingSends(fader[f])]
      /\ PassedOn = [PassedOn EXCEPT ![f] = fader[f].desk]
      /\ Waiting[f] = WaitingSends(fader[f])
  BY OneFader, Zenon
<1>1. Waiting' = [Waiting EXCEPT ![f] = Tail(Waiting[f])] /\ PassedOn' = [PassedOn EXCEPT ![f] = Head(Waiting[f])]
  BY <1>0
<1>2. Waiting[f] # <<>> BY DEF Waiting
<1>3. Mailbox!Pass(f) BY <1>1, <1>2 DEF Mailbox!Pass, Waiting, PassedOn, Up
<1>4. QED BY <1>3 DEF Mailbox!Next

LEMMA LoseStep ==
  ASSUME ~Up(link'), PassedOn' = PassedOn,
         \A f \in Faders : WaitingSends(fader'[f]) \in Mailbox!Remainders(WaitingSends(fader[f]))
  PROVE  Mailbox!Next
<1>1. \A f \in Faders : Waiting'[f] \in Mailbox!Remainders(Waiting[f]) BY DEF Waiting
<1>2. Waiting' \in [Faders -> UNION {Mailbox!Remainders(Waiting[f]) : f \in Faders}]
  BY <1>1 DEF Waiting
<1>3. Mailbox!Lose BY <1>1, <1>2 DEF Mailbox!Lose, Waiting, PassedOn, Up
<1>4. QED BY <1>3 DEF Mailbox!Next

LEMMA RemainsItself ==
  ASSUME NEW x \in FaderStates
  PROVE  /\ WaitingSends(x) \in Mailbox!Remainders(WaitingSends(x))
         /\ <<>> \in Mailbox!Remainders(WaitingSends(x))
         /\ First(x) \in Mailbox!Remainders(WaitingSends(x))
         /\ Second(x) \in Mailbox!Remainders(WaitingSends(x))
  BY WaitingParts, Pieces

LEMMA OneLoses ==
  ASSUME WingInv, NEW f \in Faders, NEW y, fader' = [fader EXCEPT ![f] = y], ~Up(link'),
         y.desk = fader[f].desk, WaitingSends(y) \in Mailbox!Remainders(WaitingSends(fader[f]))
  PROVE  Mailbox!Next
<1>0. /\ Waiting' = [Waiting EXCEPT ![f] = WaitingSends(y)]
      /\ PassedOn' = [PassedOn EXCEPT ![f] = y.desk]
      /\ Waiting = [Waiting EXCEPT ![f] = WaitingSends(fader[f])]
      /\ PassedOn = [PassedOn EXCEPT ![f] = fader[f].desk]
      /\ Waiting[f] = WaitingSends(fader[f])
  BY OneFader, Zenon
<1>1. PassedOn' = PassedOn BY <1>0
<1>2. fader'[f] = y /\ \A g \in Faders : g # f => fader'[g] = fader[g] BY DEF WingInv
<1>3. \A g \in Faders : fader[g] \in FaderStates BY DEF WingInv
<1>4. \A g \in Faders : WaitingSends(fader'[g]) \in Mailbox!Remainders(WaitingSends(fader[g]))
  BY <1>2, <1>3, RemainsItself
<1>5. QED BY <1>1, <1>4, LoseStep

LEMMA ElsewhereStep ==
  ASSUME Waiting' = Waiting, PassedOn' \in [Faders -> Levels], Up(link') = Up(link)
  PROVE  Mailbox!Next
<1>1. Mailbox!Elsewhere BY DEF Mailbox!Elsewhere, Waiting, PassedOn, Up
<1>2. QED BY <1>1 DEF Mailbox!Next

\* What waits, by what the sender does.
LEMMA WaitingCases ==
  ASSUME NEW x \in FaderStates, x.sender = "writing" <=> x.inflight # NoLevel
  PROVE  /\ x.sender = "idle" => WaitingSends(x) = <<>>
         /\ x.sender = "asleep" => First(x) = <<>> /\ WaitingSends(x) = Second(x)
         /\ x.sender = "writing" => First(x) = <<x.inflight>>
<1>1. WaitingSends(x) = First(x) \o Second(x) /\ Second(x) \in Seq(MaybeLevels) BY WaitingParts
<1>2. x.sender = "idle" => First(x) = <<>> /\ Second(x) = <<>> BY DEF First, Second
<1>3. x.sender = "asleep" => First(x) = <<>> BY DEF First
<1>4. <<>> \o Second(x) = Second(x) BY <1>1, ConcatEmptySeq
<1>5. QED BY <1>1, <1>2, <1>3, <1>4 DEF First

LEMMA HeadAndRest ==
  ASSUME NEW S, NEW v \in S, NEW b \in Seq(S)
  PROVE  <<v>> \o b # <<>> /\ Head(<<v>> \o b) = v /\ Tail(<<v>> \o b) = b
<1> DEFINE s == <<v>> \o b
<1>1. /\ <<v>> \in Seq(S) /\ s \in Seq(S) /\ Len(s) = Len(b) + 1 /\ s[1] = v /\ Len(b) \in Nat
      /\ \A i \in 1 .. Len(b) : s[i + 1] = b[i]
  BY ConcatProperties
<1> HIDE DEF s
<1>2. s # <<>> /\ Head(s) = v BY <1>1
<1>3. /\ Tail(s) \in Seq(S) /\ Len(Tail(s)) = Len(b)
      /\ \A i \in 1 .. Len(Tail(s)) : Tail(s)[i] = b[i]
  BY <1>1, <1>2, HeadTailProperties
<1>4. Tail(s) = b BY <1>3
<1>5. QED BY <1>2, <1>4 DEF s

LEMMA PutDownWaits ==
  ASSUME NEW x \in FaderStates, NEW v \in Levels, NEW y \in FaderStates,
         y.pending = v, y.inflight = x.inflight,
         y.sender = (IF x.sender = "idle" THEN "asleep" ELSE x.sender)
  PROVE  /\ First(x) \in Mailbox!Shortened(WaitingSends(x))
         /\ WaitingSends(y) = Append(First(x), v)
<1>1. /\ WaitingSends(x) = First(x) \o Second(x)
      /\ First(x) \in Seq(MaybeLevels) /\ Second(x) \in Seq(MaybeLevels)
      /\ WaitingSends(y) = First(y) \o Second(y)
  BY WaitingParts
<1>2. First(x) \in Mailbox!Shortened(WaitingSends(x)) BY <1>1, Prefix
<1>3. First(y) = First(x) BY DEF First
<1>4. Second(y) = <<v>>
  <2>1. v # NoLevel BY WingAssumption
  <2>2. QED BY <2>1 DEF Second
<1>5. v \in MaybeLevels BY NoLevelMaybe
<1>6. Append(First(x), v) = First(x) \o <<v>> BY <1>1, <1>5, AppendIsConcat
<1>7. QED BY <1>1, <1>2, <1>3, <1>4, <1>6

LEMMA PutDownSimulated ==
  ASSUME WingInv, UNCHANGED link, NEW f \in Faders, NEW x \in FaderStates, NEW v \in Levels,
         NEW y \in FaderStates, x = fader[f], y.desk = x.desk, y.pending = v, y.inflight = x.inflight,
         y.sender = (IF x.sender = "idle" THEN "asleep" ELSE x.sender),
         fader' = [fader EXCEPT ![f] = y]
  PROVE  Mailbox!Next
<1>1. First(x) \in Mailbox!Shortened(WaitingSends(x)) /\ WaitingSends(y) = Append(First(x), v)
  BY PutDownWaits
<1>2. Up(link') = Up(link) BY DEF Up
<1> DEFINE s == First(x)
<1>3. s \in Mailbox!Shortened(WaitingSends(fader[f])) /\ WaitingSends(y) = Append(s, v) BY <1>1
<1> HIDE DEF s
<1>4. QED BY <1>2, <1>3, PutStep

\* A step of one fader after which the same values wait.
LEMMA SameWaits ==
  ASSUME NEW x, NEW y, y.pending = x.pending, y.inflight = x.inflight, y.sender = x.sender
  PROVE  WaitingSends(y) = WaitingSends(x)
  BY DEF WaitingSends

LEMMA QuietStep ==
  ASSUME WingInv, Up(link') = Up(link), NEW f \in Faders, NEW y, fader' = [fader EXCEPT ![f] = y],
         y.pending = fader[f].pending, y.inflight = fader[f].inflight, y.sender = fader[f].sender,
         y.desk = fader[f].desk
  PROVE  UNCHANGED Mailbox!vars
<1>1. WaitingSends(y) = WaitingSends(fader[f]) BY SameWaits
<1>2. QED BY <1>1, OneStutters

-----------------------------------------------------------------------------
(* Each action is a step of LatestValue, or a stutter. *)

LEMMA SendSimulated ==
  ASSUME WingInv, NEW f \in Faders, NEW v \in Levels, Send(f, v)
  PROVE  Mailbox!Next \/ UNCHANGED Mailbox!vars
<1> DEFINE x == fader[f]
<1>1. x \in FaderStates /\ UNCHANGED link /\ fader \in [Faders -> FaderStates]
  BY FaderTyped DEF WingInv, Send
<1>2. CASE x.cached
  <2> DEFINE y == PutDown(x, v)
  <2>1. fader' = [fader EXCEPT ![f] = y] BY <1>1, <1>2 DEF Send
  <2>2. /\ y \in FaderStates /\ SameFeedback(x, y) /\ y.pending = v /\ y.inflight = x.inflight
        /\ y.sender = (IF x.sender = "idle" THEN "asleep" ELSE x.sender)
    BY <1>1, PutDownFields
  <2> HIDE DEF y
  <2>3. y.desk = x.desk BY <2>2 DEF SameFeedback
  <2>4. QED BY <1>1, <2>1, <2>2, <2>3, PutDownSimulated
<1>3. CASE ~x.cached
  <2> DEFINE y == [x EXCEPT !.resolving = v]
  <2>1. fader' = [fader EXCEPT ![f] = y] BY <1>1, <1>3 DEF Send
  <2>2. /\ SameFeedback(x, y) /\ y.pending = x.pending /\ y.inflight = x.inflight
        /\ y.sender = x.sender
    BY <1>1, NoLevelMaybe, ResolvingFields
  <2> HIDE DEF y
  <2>3. y.desk = x.desk /\ Up(link') = Up(link) BY <1>1, <2>2 DEF SameFeedback, Up
  <2>4. QED BY <2>1, <2>2, <2>3, QuietStep
<1>4. QED BY <1>2, <1>3

LEMMA ResolvedSimulated ==
  ASSUME WingInv, NEW f \in Faders, Resolved(f)
  PROVE  Mailbox!Next \/ UNCHANGED Mailbox!vars
<1> DEFINE x == fader[f]
<1>1. x \in FaderStates /\ link \in LinkStates /\ UNCHANGED link /\ fader \in [Faders -> FaderStates]
  BY FaderTyped, LinkTyped DEF WingInv, Resolved
<1>2. CASE fader' = [fader EXCEPT ![f] =
                [PutDown(x, x.resolving) EXCEPT !.resolving = NoLevel, !.cached = link.client]]
  <2> DEFINE v == x.resolving
             z == PutDown(x, v)
             y == [z EXCEPT !.resolving = NoLevel, !.cached = link.client]
  <2>1. v \in Levels BY <1>1 DEF Resolved, FaderStates, MaybeLevels
  <2>2. fader' = [fader EXCEPT ![f] = y] BY <1>2
  <2> HIDE DEF v
  <2>3. /\ z \in FaderStates /\ SameFeedback(x, z) /\ z.pending = v /\ z.inflight = x.inflight
        /\ z.sender = (IF x.sender = "idle" THEN "asleep" ELSE x.sender)
    BY <1>1, <2>1, PutDownFields
  <2>4. link.client \in BOOLEAN BY <1>1 DEF LinkStates
  <2> HIDE DEF z
  <2>5. /\ y \in FaderStates /\ SameFeedback(z, y) /\ y.pending = z.pending
        /\ y.inflight = z.inflight /\ y.sender = z.sender
    BY <2>3, <2>4, ResolvedFields
  <2> HIDE DEF y
  <2>6. y.desk = x.desk /\ y.pending = v /\ y.inflight = x.inflight
        /\ y.sender = (IF x.sender = "idle" THEN "asleep" ELSE x.sender)
    BY <2>3, <2>5 DEF SameFeedback
  <2>7. QED BY <1>1, <2>1, <2>2, <2>5, <2>6, PutDownSimulated
<1>3. CASE fader' = [fader EXCEPT ![f].resolving = NoLevel]
  <2> DEFINE y == [x EXCEPT !.resolving = NoLevel]
  <2>1. fader' = [fader EXCEPT ![f] = y] BY <1>1, <1>3
  <2>2. /\ SameFeedback(x, y) /\ y.pending = x.pending /\ y.inflight = x.inflight
        /\ y.sender = x.sender
    BY <1>1, NoLevelMaybe, ResolvingFields
  <2> HIDE DEF y
  <2>3. y.desk = x.desk /\ Up(link') = Up(link) BY <1>1, <2>2 DEF SameFeedback, Up
  <2>4. QED BY <2>1, <2>2, <2>3, QuietStep
<1>4. QED BY <1>2, <1>3 DEF Resolved

\* A value that wakes to no session is lost: the session is down.
LEMMA WakeSimulated ==
  ASSUME WingInv, NEW f \in Faders, Wake(f)
  PROVE  Mailbox!Next \/ UNCHANGED Mailbox!vars
<1> DEFINE x == fader[f]
<1>1. /\ x \in FaderStates /\ FaderOK(link, x) /\ link \in LinkStates /\ LinkOK(link) /\ UNCHANGED link
      /\ fader \in [Faders -> FaderStates] /\ x.sender = "asleep"
  BY FaderTyped, LinkTyped DEF WingInv, Wake
<1>2. Up(link') = Up(link) BY <1>1 DEF Up
<1>3. /\ First(x) = <<>> /\ WaitingSends(x) = Second(x) /\ x.inflight = NoLevel
      /\ Second(x) = IF x.pending # NoLevel THEN <<x.pending>> ELSE <<>>
  BY <1>1, WaitingCases DEF FaderOK, Second
<1>4. CASE link.running /\ link.client /\ x.pending # NoLevel
  <2> DEFINE y == [[[x EXCEPT !.sender = "writing"] EXCEPT !.inflight = x.pending] EXCEPT !.pending = NoLevel]
  <2>1. fader' = [fader EXCEPT ![f] = y] BY <1>1, <1>4 DEF Wake
  <2>2. /\ SameFeedback(x, y) /\ y.pending = NoLevel /\ y.inflight = x.pending /\ y.sender = "writing"
    BY <1>1, WakeFields
  <2> HIDE DEF y
  <2>3. WaitingSends(y) = <<x.pending>> BY <1>4, <2>2 DEF WaitingSends
  <2>4. WaitingSends(y) = WaitingSends(fader[f]) BY <1>3, <1>4, <2>3
  <2>5. y.desk = fader[f].desk BY <2>2 DEF SameFeedback
  <2>6. QED BY <1>2, <2>1, <2>4, <2>5, OneStutters
<1>5. CASE ~(link.running /\ link.client /\ x.pending # NoLevel)
  <2> DEFINE y == [x EXCEPT !.sender = "idle"]
  <2>1. fader' = [fader EXCEPT ![f] = y] BY <1>1, <1>5 DEF Wake
  <2>2. y \in FaderStates /\ SameFeedback(x, y) /\ y.inflight = x.inflight /\ y.sender = "idle"
    BY <1>1, IdleFields
  <2> HIDE DEF y
  <2>3. y.desk = fader[f].desk BY <2>2 DEF SameFeedback
  <2>4. WaitingSends(y) = <<>> BY <1>3, <2>2, WaitingCases
  <2>5. CASE x.pending = NoLevel
    <3>1. WaitingSends(y) = WaitingSends(fader[f]) BY <1>3, <2>4, <2>5
    <3>2. QED BY <1>2, <2>1, <2>3, <3>1, OneStutters
  <2>6. CASE x.pending # NoLevel
    <3>1. ~link.running \/ ~link.client BY <1>5, <2>6
    <3>2. ~Up(link) BY <1>1, <3>1 DEF Up, LinkOK
    <3>3. WaitingSends(y) \in Mailbox!Remainders(WaitingSends(fader[f]))
      BY <1>1, <2>4, RemainsItself
    <3>4. QED BY <1>2, <2>1, <2>3, <3>2, <3>3, OneLoses
  <2>7. QED BY <2>5, <2>6
<1>6. QED BY <1>4, <1>5

\* A value that is written reaches the desk while the session is up, and is lost otherwise.
LEMMA WrittenSimulated ==
  ASSUME WingInv, NEW f \in Faders, Written(f)
  PROVE  Mailbox!Next
<1> DEFINE x == fader[f]
           y == AfterWrite(x, link)
<1>1. /\ x \in FaderStates /\ FaderOK(link, x) /\ link \in LinkStates /\ LinkOK(link) /\ UNCHANGED link
      /\ x.sender = "writing"
  BY FaderTyped, LinkTyped DEF Written
<1>2. fader' = [fader EXCEPT ![f] = y] BY DEF Written, AfterWrite
<1>3. x.inflight # NoLevel /\ link.running = TRUE BY <1>1 DEF FaderOK
<1>4. /\ y \in FaderStates /\ y.pending = x.pending /\ y.inflight = NoLevel
      /\ y.sender = SendAgain(x)
      /\ link.alive = TRUE => y.desk = x.inflight
      /\ link.alive = FALSE => y.desk = x.desk
  <2> HIDE DEF x
  <2>1. /\ y \in FaderStates /\ y.pending = x.pending /\ y.inflight = NoLevel
        /\ y.sender = SendAgain(x)
        /\ link.alive = TRUE => y.mover = "app" /\ y.desk = x.inflight
        /\ link.alive = FALSE => y.desk = x.desk
    BY <1>1, <1>3, WrittenFields
  <2>2. QED BY <2>1
<1>5. /\ WaitingSends(x) = <<x.inflight>> \o Second(x) /\ Second(x) \in Seq(MaybeLevels)
      /\ Second(x) = IF x.pending # NoLevel THEN <<x.pending>> ELSE <<>>
  BY <1>1, WaitingParts, WaitingCases DEF FaderOK, Second
<1> HIDE DEF y
<1>6. WaitingSends(y) = Second(x)
  <2>1. y.sender = IF x.pending # NoLevel THEN "asleep" ELSE "idle" BY <1>3, <1>4 DEF SendAgain
  <2>2. WaitingSends(y) = Second(y) BY <1>4, <2>1, WaitingCases DEF Second
  <2>3. Second(y) = Second(x) BY <1>4, <1>5, <2>1 DEF Second
  <2>4. QED BY <2>2, <2>3
<1>7. CASE link.alive = TRUE
  <2>1. Up(link) /\ Up(link') BY <1>1, <1>3, <1>7 DEF Up, LinkOK
  <2>2. x.inflight \in MaybeLevels BY <1>1 DEF FaderStates
  <2>3. /\ WaitingSends(x) # <<>> /\ Head(WaitingSends(x)) = x.inflight
        /\ Tail(WaitingSends(x)) = Second(x)
    <3> DEFINE v == x.inflight
               b == Second(x)
    <3>1. v \in MaybeLevels /\ b \in Seq(MaybeLevels) /\ WaitingSends(x) = <<v>> \o b BY <1>5, <2>2
    <3> HIDE DEF v, b
    <3>2. <<v>> \o b # <<>> /\ Head(<<v>> \o b) = v /\ Tail(<<v>> \o b) = b BY <3>1, HeadAndRest
    <3>3. QED BY <3>1, <3>2 DEF v, b
  <2>4. QED BY <1>2, <1>4, <1>6, <1>7, <2>1, <2>3, PassStep
<1>8. CASE link.alive = FALSE
  <2>1. ~Up(link') BY <1>1, <1>8 DEF Up
  <2>2. WaitingSends(y) \in Mailbox!Remainders(WaitingSends(fader[f]))
    BY <1>1, <1>6, RemainsItself
  <2>3. QED BY <1>2, <1>4, <1>8, <2>1, <2>2, OneLoses
<1>9. QED BY <1>1, <1>7, <1>8 DEF LinkStates

LEMMA WriteFailsSimulated ==
  ASSUME WingInv, NEW f \in Faders, WriteFails(f)
  PROVE  Mailbox!Next
<1> DEFINE x == fader[f]
           y == [x EXCEPT !.inflight = NoLevel, !.sender = "idle"]
<1>1. x \in FaderStates /\ UNCHANGED link /\ ~link.alive /\ fader \in [Faders -> FaderStates]
  BY FaderTyped DEF WingInv, WriteFails
<1>2. fader' = [fader EXCEPT ![f] = y] BY <1>1 DEF WriteFails
<1>3. y \in FaderStates /\ SameFeedback(x, y) /\ y.inflight = NoLevel /\ y.sender = "idle"
  BY <1>1, FailedFields
<1> HIDE DEF y
<1>4. WaitingSends(y) = <<>> BY <1>3, WaitingCases
<1>5. WaitingSends(y) \in Mailbox!Remainders(WaitingSends(fader[f])) BY <1>1, <1>4, RemainsItself
<1>6. y.desk = fader[f].desk /\ ~Up(link') BY <1>1, <1>3 DEF SameFeedback, Up
<1>7. QED BY <1>2, <1>5, <1>6, OneLoses

LEMMA DeskMovesSimulated ==
  ASSUME WingInv, NEW f \in Faders, NEW v \in Levels, DeskMoves(f, v)
  PROVE  Mailbox!Next
<1> DEFINE x == fader[f]
           y == AfterMove(x, v, link)
<1>1. /\ x \in FaderStates /\ link \in LinkStates /\ UNCHANGED link /\ fader \in [Faders -> FaderStates]
  BY FaderTyped, LinkTyped DEF WingInv, DeskMoves
<1>2. fader' = [fader EXCEPT ![f] = y] BY <1>1 DEF DeskMoves, AfterMove
<1>3. /\ y.pending = x.pending /\ y.inflight = x.inflight /\ y.sender = x.sender /\ y.desk = v
  BY <1>1, FaderMoved
<1> HIDE DEF y
<1>4. WaitingSends(y) = WaitingSends(fader[f]) BY <1>3, SameWaits
<1>5. /\ Waiting' = [Waiting EXCEPT ![f] = WaitingSends(y)]
      /\ PassedOn' = [PassedOn EXCEPT ![f] = y.desk]
      /\ Waiting = [Waiting EXCEPT ![f] = WaitingSends(fader[f])]
  BY <1>2, OneFader, Zenon
<1>6. Waiting' = Waiting BY <1>4, <1>5
<1>7. PassedOn \in [Faders -> Levels]
  <2>1. \A g \in Faders : fader[g].desk \in Levels BY <1>1 DEF FaderStates
  <2>2. QED BY <2>1 DEF PassedOn
<1>8. PassedOn' \in [Faders -> Levels] BY <1>3, <1>5, <1>7
<1>9. Up(link') = Up(link) BY <1>1 DEF Up
<1>10. QED BY <1>6, <1>8, <1>9, ElsewhereStep

\* The faders step without the sends.
LEMMA OthersStutter ==
  ASSUME WingInv, NEW f \in Faders,
         Warmed(f) \/ NodeData(f) \/ FlushFeedback(f) \/ \E v \in Levels : EchoForgotten(f, v)
  PROVE  UNCHANGED Mailbox!vars
<1> DEFINE x == fader[f]
<1>1. /\ x \in FaderStates /\ link \in LinkStates /\ fader \in [Faders -> FaderStates]
  BY FaderTyped, LinkTyped DEF WingInv
<1>2. CASE Warmed(f)
  <2>1. PICK found \in BOOLEAN :
          fader' = [fader EXCEPT ![f].cached = found, ![f].report = @ \/ found,
                                 ![f].mover = IF found THEN "desk" ELSE @]
    BY <1>2 DEF Warmed
  <2> DEFINE y == [[[x EXCEPT !.cached = found] EXCEPT !.report = @ \/ found]
                      EXCEPT !.mover = IF found THEN "desk" ELSE @]
  <2>2. fader' = [fader EXCEPT ![f] = y] BY <1>1, <2>1
  <2>3. /\ y.pending = x.pending /\ y.inflight = x.inflight /\ y.sender = x.sender
        /\ y.desk = x.desk
    BY <1>1 DEF FaderStates
  <2> HIDE DEF y
  <2>4. Up(link') = Up(link) BY <1>1, <1>2 DEF Warmed, LinkStates, Up
  <2>5. QED BY <2>2, <2>3, <2>4, QuietStep
<1>3. CASE NodeData(f)
  <2> DEFINE y == AfterNodeData(x)
  <2>1. fader' = [fader EXCEPT ![f] = y] BY <1>3 DEF NodeData, AfterNodeData
  <2>2. /\ y.pending = x.pending /\ y.inflight = x.inflight /\ y.sender = x.sender
        /\ y.desk = x.desk
    BY <1>1, NodeDataFields
  <2> HIDE DEF y
  <2>3. Up(link') = Up(link) BY <1>3 DEF NodeData, Up
  <2>4. QED BY <2>1, <2>2, <2>3, QuietStep
<1>4. CASE FlushFeedback(f)
  <2> DEFINE y == AfterFlush(x, link)
  <2>1. fader' = [fader EXCEPT ![f] = y] BY <1>4 DEF FlushFeedback, AfterFlush, Skips
  <2>2. /\ y.pending = x.pending /\ y.inflight = x.inflight /\ y.sender = x.sender
        /\ y.desk = x.desk
    BY <1>1, FlushedFields
  <2> HIDE DEF y
  <2>3. Up(link') = Up(link) BY <1>4 DEF FlushFeedback, Up
  <2>4. QED BY <2>1, <2>2, <2>3, QuietStep
<1>5. CASE \E v \in Levels : EchoForgotten(f, v)
  <2>1. PICK v \in Levels : EchoForgotten(f, v) BY <1>5
  <2> DEFINE y == [x EXCEPT !.recent = @ \ {v}]
  <2>2. fader' = [fader EXCEPT ![f] = y] BY <1>1, <2>1 DEF EchoForgotten
  <2>3. /\ y.pending = x.pending /\ y.inflight = x.inflight /\ y.sender = x.sender
        /\ y.desk = x.desk
    BY <1>1, ForgottenFields DEF SameFeedback
  <2> HIDE DEF y
  <2>4. Up(link') = Up(link) BY <2>1 DEF EchoForgotten, Up
  <2>5. QED BY <2>2, <2>3, <2>4, QuietStep
<1>6. QED BY <1>2, <1>3, <1>4, <1>5

\* The session comes up, or takes what waits down with it.
LEMMA SessionSimulated ==
  ASSUME WingInv,
         \/ WingStart \/ RetryDue \/ Connected \/ ConnectFails \/ LinkBreaks \/ ReadEnds \/ TornDown
         \/ \E again \in BOOLEAN : WingStop(again)
  PROVE  Mailbox!Next \/ UNCHANGED Mailbox!vars
<1>1. link \in LinkStates /\ LinkOK(link) /\ \A f \in Faders : fader[f] \in FaderStates
  BY LinkTyped DEF WingInv
<1>2. UNCHANGED fader => Waiting' = Waiting /\ PassedOn' = PassedOn BY DEF Waiting, PassedOn
<1>3. CASE WingStart \/ RetryDue \/ ConnectFails
  <2>1. UNCHANGED fader /\ ~Up(link) /\ ~Up(link')
    BY <1>1, <1>3 DEF WingStart, RetryDue, ConnectFails, LinkStates, LinkOK, Up
  <2>2. Up(link') = Up(link) BY <2>1 DEF Up
  <2>3. QED BY <1>2, <2>1, <2>2, StutterStep
<1>4. CASE Connected
  <2>1. Up(link') BY <1>1, <1>4 DEF Connected, LinkStates, Up
  <2>2. \A f \in Faders :
          fader'[f] = [fader[f] EXCEPT !.cached = FALSE, !.report = FALSE, !.mover = "none"]
    BY <1>4 DEF Connected
  <2>3. \A f \in Faders :
          /\ fader'[f].pending = fader[f].pending /\ fader'[f].inflight = fader[f].inflight
          /\ fader'[f].sender = fader[f].sender /\ fader'[f].desk = fader[f].desk
    BY <1>1, <2>2, ConnectedFields
  <2>4. \A f \in Faders : WaitingSends(fader'[f]) = WaitingSends(fader[f]) BY <2>3, SameWaits
  <2>5. Waiting' = Waiting /\ PassedOn' = PassedOn BY <2>3, <2>4 DEF Waiting, PassedOn
  <2>6. Mailbox!ComesUp BY <2>1, <2>5 DEF Mailbox!ComesUp, Waiting, PassedOn, Up
  <2>7. QED BY <2>6 DEF Mailbox!Next
<1>5. CASE LinkBreaks
  <2>1. UNCHANGED fader /\ ~Up(link') BY <1>1, <1>5 DEF LinkBreaks, LinkStates, Up
  <2>2. \A f \in Faders : WaitingSends(fader'[f]) \in Mailbox!Remainders(WaitingSends(fader[f]))
    BY <1>1, <2>1, RemainsItself
  <2>3. QED BY <1>2, <2>1, <2>2, LoseStep
<1>6. CASE ReadEnds \/ \E again \in BOOLEAN : WingStop(again)
  <2>1. fader' = Cancelled /\ ~Up(link') BY <1>1, <1>6 DEF ReadEnds, WingStop, LinkStates, Up
  <2>2. \A f \in Faders :
          fader'[f] = [fader[f] EXCEPT !.sender = "idle", !.inflight = NoLevel, !.flusher = "idle"]
    BY <2>1 DEF Cancelled
  <2>3. \A f \in Faders : /\ fader'[f] \in FaderStates /\ fader'[f].sender = "idle"
                          /\ fader'[f].inflight = NoLevel /\ fader'[f].desk = fader[f].desk
    BY <1>1, <2>2, CancelledFields
  <2>4. \A f \in Faders : WaitingSends(fader'[f]) = <<>> BY <2>3, WaitingCases
  <2>5. \A f \in Faders : WaitingSends(fader'[f]) \in Mailbox!Remainders(WaitingSends(fader[f]))
    BY <1>1, <2>4, RemainsItself
  <2>6. PassedOn' = PassedOn BY <2>3 DEF PassedOn
  <2>7. QED BY <2>1, <2>5, <2>6, LoseStep
<1>7. CASE TornDown
  <2>1. ~Up(link')
    <3>1. link'.task # "reading"
      <4>1. CASE link.task = "closing" BY <1>1, <1>7, <4>1 DEF TornDown, LinkStates
      <4>2. CASE link.task # "closing"
        <5>1. link' = WingIdle \/ link' = [WingIdle EXCEPT !.running = TRUE, !.task = "starting"]
          BY <1>7, <4>2 DEF TornDown
        <5>2. WingIdle.task = "none" /\ [WingIdle EXCEPT !.running = TRUE, !.task = "starting"].task = "starting"
          BY DEF WingIdle
        <5>3. QED BY <5>1, <5>2
      <4>3. QED BY <4>1, <4>2
    <3>2. QED BY <3>1 DEF Up
  <2>2. \A f \in Faders :
          fader'[f] = [fader[f] EXCEPT !.pending = NoLevel, !.feedback = NoLevel, !.report = FALSE]
    BY <1>7 DEF TornDown
  <2>3. \A f \in Faders :
          /\ fader'[f] \in FaderStates /\ fader'[f].inflight = fader[f].inflight
          /\ fader'[f].pending = NoLevel /\ fader'[f].desk = fader[f].desk
    BY <1>1, <2>2, TornDownFields
  <2>4. ASSUME NEW f \in Faders
        PROVE  WaitingSends(fader'[f]) \in Mailbox!Remainders(WaitingSends(fader[f]))
    <3> DEFINE y == fader'[f]
    <3>0. WaitingSends(y) = First(y) \o Second(y) /\ First(y) \in Seq(MaybeLevels) BY <2>3, WaitingParts
    <3>1. WaitingSends(y) = First(fader[f])
      <4>1. Second(y) = <<>> BY <2>3 DEF Second
      <4>2. First(y) = First(fader[f]) BY <2>3 DEF First
      <4>3. First(y) \o <<>> = First(y) BY <3>0, ConcatEmptySeq
      <4>4. QED BY <3>0, <4>1, <4>2, <4>3
    <3>2. QED BY <1>1, <3>1, RemainsItself
  <2>5. PassedOn' = PassedOn BY <2>3 DEF PassedOn
  <2>6. QED BY <2>1, <2>4, <2>5, LoseStep
<1>8. QED BY <1>3, <1>4, <1>5, <1>6, <1>7

LEMMA WingSimulated ==
  ASSUME WingInv, [WingNext]_wingVars
  PROVE  [Mailbox!Next]_Mailbox!vars
<1>1. ASSUME NEW f \in Faders, Wake(f) \/ Written(f) \/ WriteFails(f) \/ Resolved(f)
      PROVE  Mailbox!Next \/ UNCHANGED Mailbox!vars
  BY <1>1, WakeSimulated, WrittenSimulated, WriteFailsSimulated, ResolvedSimulated
<1>2. CASE \/ WingStart \/ RetryDue \/ Connected \/ ConnectFails \/ LinkBreaks \/ ReadEnds \/ TornDown
           \/ \E again \in BOOLEAN : WingStop(again)
  BY <1>2, SessionSimulated
<1>3. ASSUME NEW f \in Faders, Warmed(f) \/ NodeData(f) \/ FlushFeedback(f)
      PROVE  UNCHANGED Mailbox!vars
  BY <1>3, OthersStutter
<1>4. ASSUME NEW f \in Faders, NEW v \in Levels, Send(f, v) \/ DeskMoves(f, v) \/ EchoForgotten(f, v)
      PROVE  Mailbox!Next \/ UNCHANGED Mailbox!vars
  BY <1>4, SendSimulated, DeskMovesSimulated, OthersStutter
<1>5. CASE UNCHANGED wingVars
  <2>1. link' = link /\ fader' = fader BY <1>5 DEF wingVars
  <2>2. Waiting' = Waiting /\ PassedOn' = PassedOn /\ Up(link') = Up(link) BY <2>1 DEF Waiting, PassedOn, Up
  <2>3. QED BY <2>2, StutterStep
<1>6. QED BY <1>1, <1>2, <1>3, <1>4, <1>5 DEF WingNext, WingRuns, WingSends, WingWorld

LEMMA WingInitiallySimulated == WingInit => Mailbox!Init
<1> SUFFICES ASSUME WingInit PROVE Mailbox!Init OBVIOUS
<1>1. WingInv BY WingInitially
<1>2. \A f \in Faders : fader[f] \in FaderStates /\ fader[f].sender = "idle" /\ fader[f].inflight = NoLevel
  BY <1>1 DEF WingInit, WingInv
<1>3. \A f \in Faders : WaitingSends(fader[f]) = <<>> BY <1>2, WaitingCases
<1>4. \A f \in Faders : fader[f].desk \in Levels BY <1>2 DEF FaderStates
<1>5. link.task # "reading" BY DEF WingInit, WingIdle
<1>6. QED BY <1>3, <1>4, <1>5 DEF Mailbox!Init

\* The safety of LastFaderValueIsSent: for any faders and values, the coalesced sends do
\* what LatestValue allows, so that values reach the desk in the order in which they
\* were put down and are lost only with the session (_schedule_fader_send(),
\* _flush_fader_send(), _teardown_session()).
THEOREM SendsImplementLatestValue == WingSpec => Mailbox!Init /\ [][Mailbox!Next]_(Mailbox!vars)
<1>1. WingInit => Mailbox!Init BY WingInitiallySimulated
<1>2. WingInv /\ [WingNext]_wingVars => [Mailbox!Next]_(Mailbox!vars) BY WingSimulated
<1>3. QED BY <1>1, <1>2, WingInvariant, PTL DEF WingSpec, WingNext

-----------------------------------------------------------------------------
(* WingClient.                                                               *)
Parents == {<<>>} \cup {<<c>> : c \in Channels}
Items == Nodes \cup {End}

ClientStates ==
  [queue : Seq(Resolvers), answer : SUBSET Items, drain : BOOLEAN,
   requests : Seq(Parents), wire : Seq(Items), gaveUp : BOOLEAN, split : BOOLEAN]

-----------------------------------------------------------------------------
(* The invariant. *)

\* What a resolver asks for, once it has begun: a segment of its path whose parent is bound.
AskOK(r) ==
  /\ ask[r].pc \in {"idle", "queued", "draining", "asking", "missed"}
  /\ ask[r].pc \in {"queued", "draining", "asking"} =>
       /\ ask[r].path \in Nodes /\ ask[r].at \in Nodes
       /\ ask[r].at = ask[r].path \/ ask[r].at = Front(ask[r].path)
       /\ Front(ask[r].at) # <<>> => cache[Front(ask[r].at)] # <<>>
  /\ ask[r].pc \in {"draining", "asking"} => Holds(r)

ClientTypes ==
  /\ ask = [r \in Resolvers |-> ask[r]]
  /\ \A r \in Resolvers : ask[r] = [path |-> ask[r].path, at |-> ask[r].at, pc |-> ask[r].pc]
  /\ cache \in [Nodes -> Nodes \cup {<<>>}]
  /\ conn \in ClientStates

Silent == conn.requests = <<>> /\ conn.wire = <<>>

Reply(n) == Append(SetToSeq(Children(n)), End)

\* One answer is on its way, and nothing else: that to the request for the children of n.
Awaiting(n) ==
  \/ conn.requests = <<n>> /\ conn.wire = <<>>
  \/ conn.requests = <<>> /\ conn.wire = Reply(n)

Asking(r) == ask[r].pc = "asking"

\* As long as answers come whole and drains are waited for, the answer that is under way
\* is that to the request that waits, or the late one that is being drained.
InStep ==
  /\ \A r \in Resolvers : ask[r].pc # "missed"
  /\ conn.drain => (\E n \in Parents : Awaiting(n)) /\ \A r \in Resolvers : ~Asking(r)
  /\ (~conn.drain /\ \A r \in Resolvers : ~Asking(r)) => Silent
  /\ \A r \in Resolvers : Asking(r) =>
       IF conn.answer = NoAnswer THEN Awaiting(Front(ask[r].at))
       ELSE Silent /\ conn.answer = Children(Front(ask[r].at))

ClientInv ==
  /\ ClientTypes
  /\ BindingsAreTrue
  /\ \A r \in Resolvers : AskOK(r)
  /\ ~conn.gaveUp /\ ~conn.split => InStep

-----------------------------------------------------------------------------
(* Nodes are known by their parent and their name. *)

LEMMA NodeShape ==
  ASSUME NEW d \in Nodes
  PROVE  /\ Len(d) \in {1, 2} /\ d \in Seq(Channels \cup {"fdr"})
         /\ Front(d) \in Parents /\ d # <<>> /\ d # End
         /\ Front(d) # <<>> => Front(d) \in Nodes /\ Front(Front(d)) = <<>> /\ Len(d) = 2
         /\ Front(d) = <<>> => Len(d) = 1
         /\ Front(d) # d
<1>1. CASE \E c \in Channels : d = <<c>>
  <2>1. PICK c \in Channels : d = <<c>> BY <1>1
  <2>2. Len(d) = 1 /\ SubSeq(d, 1, 0) = <<>> BY <2>1
  <2>3. Front(d) = <<>> BY <2>2 DEF Front
  <2>4. d # <<>> /\ d # End /\ d \in Seq(Channels \cup {"fdr"}) BY <2>1 DEF End
  <2>5. QED BY <2>2, <2>3, <2>4 DEF Parents
<1>2. CASE \E c \in Channels : d = <<c, "fdr">>
  <2>1. PICK c \in Channels : d = <<c, "fdr">> BY <1>2
  <2>2. Len(d) = 2 /\ SubSeq(d, 1, 1) = <<c>>
    <3>1. Len(d) = 2 /\ d[1] = c /\ d \in Seq(Channels \cup {"fdr"}) BY <2>1
    <3>2. SubSeq(d, 1, 1) \in Seq(Channels \cup {"fdr"}) /\ Len(SubSeq(d, 1, 1)) = 1 /\ SubSeq(d, 1, 1)[1] = d[1]
      BY <3>1
    <3>3. <<c>> \in Seq(Channels \cup {"fdr"}) /\ Len(<<c>>) = 1 /\ <<c>>[1] = c OBVIOUS
    <3>4. \A i \in 1 .. 1 : SubSeq(d, 1, 1)[i] = <<c>>[i] BY <3>1, <3>2, <3>3
    <3>5. QED BY <3>1, <3>2, <3>3, <3>4, SeqEqual
  <2>3. Front(d) = <<c>> BY <2>2 DEF Front
  <2>4. Len(<<c>>) = 1 /\ SubSeq(<<c>>, 1, 0) = <<>> OBVIOUS
  <2>5. Front(<<c>>) = <<>> BY <2>4 DEF Front
  <2>6. d # <<>> /\ d # End /\ d \in Seq(Channels \cup {"fdr"}) BY <2>1 DEF End
  <2>7. <<c>> # <<>> /\ <<c>> # d BY <2>1
  <2>8. QED BY <2>2, <2>3, <2>5, <2>6, <2>7 DEF Parents, Nodes
<1>3. QED BY <1>1, <1>2 DEF Nodes

LEMMA NodesByName ==
  ASSUME NEW d \in Nodes, NEW e \in Nodes, Front(d) = Front(e), Last(d) = Last(e)
  PROVE  d = e
<1>1. Len(d) \in {1, 2} /\ Len(e) \in {1, 2} /\ (Len(d) = 1 <=> Front(d) = <<>>) /\ (Len(e) = 1 <=> Front(e) = <<>>)
  <2>1. /\ Len(d) \in {1, 2} /\ Len(e) \in {1, 2}
        /\ Front(d) # <<>> => Len(d) = 2
        /\ Front(d) = <<>> => Len(d) = 1
        /\ Front(e) # <<>> => Len(e) = 2
        /\ Front(e) = <<>> => Len(e) = 1
    BY NodeShape
  <2>2. QED BY <2>1
<1>2. Len(d) = Len(e) BY <1>1
<1>3. d \in Seq(Channels \cup {"fdr"}) /\ e \in Seq(Channels \cup {"fdr"}) BY NodeShape
<1>4. d[Len(d)] = e[Len(d)] BY <1>2 DEF Last
<1>5. Len(d) = 2 => d[1] = e[1]
  <2>1. SUFFICES ASSUME Len(d) = 2 PROVE d[1] = e[1] OBVIOUS
  <2>2. SubSeq(d, 1, 1) = SubSeq(e, 1, 1) BY <2>1, <1>2 DEF Front
  <2>3. SubSeq(d, 1, 1)[1] = d[1] /\ SubSeq(e, 1, 1)[1] = e[1] BY <2>1, <1>2, <1>3
  <2>4. QED BY <2>2, <2>3
<1>6. \A i \in 1 .. Len(d) : d[i] = e[i] BY <1>1, <1>4, <1>5
<1>7. QED BY <1>2, <1>3, <1>6, SeqEqual

\* A node is found among the children of its parent, and nothing else is.
LEMMA FoundIsTheNode ==
  ASSUME NEW children \in SUBSET Items, NEW p \in Nodes
  PROVE  /\ FindChild(children, p, Front(p)) \subseteq {p}
         /\ p \in children => FindChild(children, p, Front(p)) = {p}
<1>1. ASSUME NEW d \in children, Front(d) = Front(p), Last(d) = Last(p)
      PROVE  d = p
  <2>1. Len(Front(p)) <= 1
    <3>1. Front(p) \in Parents BY NodeShape
    <3>2. Len(<<>>) = 0 /\ \A c \in Channels : Len(<<c>>) = 1 OBVIOUS
    <3>3. QED BY <3>1, <3>2 DEF Parents
  <2>2. Len(Front(End)) = 2
    <3>1. Len(End) = 3 BY DEF End
    <3>2. Len(SubSeq(End, 1, 2)) = 2 BY DEF End
    <3>3. QED BY <3>1, <3>2 DEF Front
  <2>3. d # End BY <1>1, <2>1, <2>2
  <2>4. d \in Nodes BY <2>3 DEF Items
  <2>5. QED BY <2>4, <1>1, NodesByName
<1>2. QED BY <1>1 DEF FindChild

-----------------------------------------------------------------------------
(* An answer is what the desk has of a node, and then the end. *)

LEMMA NodesAreFinite == IsFiniteSet(Nodes)
<1> DEFINE S == {<<c>> : c \in Channels}
           T == {<<c, "fdr">> : c \in Channels}
           f == [c \in Channels |-> <<c>>]
           g == [c \in Channels |-> <<c, "fdr">>]
<1>1. f \in Surjection(Channels, S) BY DEF Surjection
<1>2. g \in Surjection(Channels, T) BY DEF Surjection
<1>3. IsFiniteSet(S) BY <1>1, FS_Surjection, ClientAssumption
<1>4. IsFiniteSet(T) BY <1>2, FS_Surjection, ClientAssumption
<1>5. QED BY <1>3, <1>4, FS_Union DEF Nodes

LEMMA ReplyFacts ==
  ASSUME NEW n
  PROVE  /\ Children(n) \subseteq Nodes /\ Children(n) # NoAnswer
         /\ Reply(n) \in Seq(Items) /\ Len(Reply(n)) > 0
         /\ \A i \in 1 .. Len(Reply(n)) : Reply(n)[i] = End => i = Len(Reply(n))
         /\ Reply(n)[Len(Reply(n))] = End
         /\ {Reply(n)[i] : i \in 1 .. Len(Reply(n))} \ {End} = Children(n)
<1> DEFINE S == Children(n)
           k == Cardinality(S)
           s == SetToSeq(S)
<1>1. S \subseteq Nodes /\ End \notin Nodes BY NodeShape DEF Children
<1>2. IsFiniteSet(S) BY <1>1, NodesAreFinite, FS_Subset
<1>3. k \in Nat /\ IsFiniteSet(1 .. k) /\ Cardinality(1 .. k) = k
  BY <1>2, FS_CardinalityType, FS_Interval
<1>4. \E f \in [1 .. k -> S] : IsInjective(f)
  BY <1>2, FS_CardinalityType DEF ExistsBijection, Bijection, Injection
<1>5. s \in [1 .. k -> S] /\ IsInjective(s) BY <1>4 DEF SetToSeq
<1>6. s \in Injection(1 .. k, S) BY <1>5 DEF Injection
<1>7. s \in Surjection(1 .. k, S) BY <1>2, <1>3, <1>6, FS_Injection
<1>8. s \in Seq(S) /\ Len(s) = k BY <1>3, <1>5
<1>9. /\ Reply(n) \in Seq(Items) /\ Len(Reply(n)) = k + 1
      /\ \A i \in 1 .. k : Reply(n)[i] = s[i]
      /\ Reply(n)[k + 1] = End
  <2>1. s \in Seq(Items) /\ End \in Items BY <1>1, <1>8 DEF Items
  <2>2. QED BY <2>1, <1>3, <1>8 DEF Reply
<1>10. \A i \in 1 .. k : Reply(n)[i] \in S BY <1>5, <1>9
<1>11. \A d \in S : \E i \in 1 .. k : Reply(n)[i] = d BY <1>7, <1>9 DEF Surjection
<1> HIDE DEF k, s
<1>12. \A i \in 1 .. Len(Reply(n)) : i = Len(Reply(n)) \/ i \in 1 .. k BY <1>3, <1>9
<1>13. {Reply(n)[i] : i \in 1 .. Len(Reply(n))} \ {End} = S
  <2>1. ASSUME NEW d \in S PROVE \E i \in 1 .. Len(Reply(n)) : Reply(n)[i] = d
    BY <1>3, <1>9, <1>11
  <2>2. QED BY <1>1, <1>9, <1>10, <1>12, <2>1
<1>14. QED BY <1>1, <1>3, <1>9, <1>10, <1>12, <1>13 DEF NoAnswer

-----------------------------------------------------------------------------
(* Steps of one resolver. *)

LEMMA AskSteps ==
  ASSUME ClientTypes, NEW r \in Resolvers, NEW x, ask' = [ask EXCEPT ![r] = x]
  PROVE  /\ ask'[r] = x /\ \A q \in Resolvers : q # r => ask'[q] = ask[q]
         /\ ask' = [q \in Resolvers |-> ask'[q]]
BY DEF ClientTypes

LEMMA AskRecords ==
  ASSUME NEW a, NEW b, NEW c, NEW x \in [path : {a}, at : {b}, pc : {c}]
  PROVE  x = [path |-> a, at |-> b, pc |-> c]
OBVIOUS

LEMMA RecordSteps ==
  ASSUME ClientTypes, NEW r \in Resolvers, NEW n, NEW pc
  PROVE  /\ [ask[r] EXCEPT !.pc = pc] = [path |-> ask[r].path, at |-> ask[r].at, pc |-> pc]
         /\ [ask[r] EXCEPT !.pc = pc, !.at = n] = [path |-> ask[r].path, at |-> n, pc |-> pc]
<1>1. ask[r] \in [path : {ask[r].path}, at : {ask[r].at}, pc : {ask[r].pc}] BY DEF ClientTypes
<1>2. [ask[r] EXCEPT !.pc = pc, !.at = n] \in [path : {ask[r].path}, at : {n}, pc : {pc}] BY <1>1
<1>3. [ask[r] EXCEPT !.pc = pc] \in [path : {ask[r].path}, at : {ask[r].at}, pc : {pc}] BY <1>1
<1>4. QED BY <1>2, <1>3, AskRecords

\* Only the task that holds the lock awaits a drain or an answer.
LEMMA OneHolds ==
  ASSUME \A q \in Resolvers : AskOK(q), NEW r \in Resolvers, Holds(r)
  PROVE  \A q \in Resolvers : ask[q].pc \in {"draining", "asking"} => q = r
BY DEF AskOK, Holds

\* What a resolver has under way stays right when nothing that it is bound to is lost.
LEMMA AskStays ==
  ASSUME ClientInv, NEW q \in Resolvers, ask'[q] = ask[q],
         \A p \in Nodes : cache[p] # <<>> => cache'[p] # <<>>,
         ask[q].pc \in {"draining", "asking"} => Holds(q)'
  PROVE  AskOK(q)'
<1>1. AskOK(q) BY DEF ClientInv
<1>2. ask[q].pc \in {"queued", "draining", "asking"} /\ Front(ask[q].at) # <<>> => Front(ask[q].at) \in Nodes
  BY <1>1, NodeShape DEF AskOK
<1>3. QED BY <1>1, <1>2 DEF AskOK

\* A lock is waited for at the end of its queue, and handed on when it is released.
LEMMA QueueSteps ==
  ASSUME conn \in ClientStates, NEW r \in Resolvers
  PROVE  /\ Append(conn.queue, r) \in Seq(Resolvers)
         /\ \A q \in Resolvers : Holds(q) =>
              Append(conn.queue, r) # <<>> /\ Head(Append(conn.queue, r)) = q
         /\ conn.queue # <<>> => Tail(conn.queue) \in Seq(Resolvers)
BY DEF ClientStates, Holds

\* The node whose children are asked for is the parent of the segment.
LEMMA AskedIsTheParent ==
  ASSUME ClientInv, NEW r \in Resolvers, ask[r].pc \in {"queued", "draining", "asking"}
  PROVE  Asked(r) = Front(ask[r].at) /\ Asked(r) \in Parents
<1>1. AskOK(r) BY DEF ClientInv
<1>2. ask[r].at \in Nodes BY <1>1 DEF AskOK
<1>3. CASE Front(ask[r].at) = <<>>
  <2>1. Len(ask[r].at) = 1 BY <1>2, <1>3, NodeShape
  <2>2. QED BY <1>2, <1>3, <2>1, NodeShape DEF Asked
<1>4. CASE Front(ask[r].at) # <<>>
  <2>1. Len(ask[r].at) = 2 /\ Front(ask[r].at) \in Nodes BY <1>2, <1>4, NodeShape
  <2>2. cache[Front(ask[r].at)] # <<>> BY <1>1, <1>4 DEF AskOK
  <2>3. cache[Front(ask[r].at)] = Front(ask[r].at) BY <2>1, <2>2 DEF ClientInv, BindingsAreTrue
  <2>4. QED BY <1>2, <2>1, <2>3, NodeShape DEF Asked
<1>5. QED BY <1>3, <1>4

LEMMA InitHolds == ClientInit => ClientInv
<1> SUFFICES ASSUME ClientInit PROVE ClientInv OBVIOUS
<1>1. ClientTypes
  <2>1. conn \in ClientStates BY DEF ClientInit, ClientStates, NoAnswer, Items
  <2>2. QED BY <2>1 DEF ClientInit, ClientTypes, Unasked
<1>2. BindingsAreTrue BY DEF ClientInit, BindingsAreTrue
<1>3. \A r \in Resolvers : AskOK(r) BY DEF ClientInit, AskOK, Unasked
<1>4. InStep BY DEF ClientInit, InStep, Unasked, Asking, Silent
<1>5. QED BY <1>1, <1>2, <1>3, <1>4 DEF ClientInv

LEMMA FirstUncachedFacts ==
  ASSUME ClientInv, NEW p \in Nodes, cache[p] = <<>>
  PROVE  /\ FirstUncached(p) \in Nodes
         /\ FirstUncached(p) = p \/ FirstUncached(p) = Front(p)
         /\ Front(FirstUncached(p)) # <<>> => cache[Front(FirstUncached(p))] # <<>>
<1> DEFINE U == {n \in 1 .. Len(p) : cache[SubSeq(p, 1, n)] = <<>>}
<1>1. Len(p) \in {1, 2} /\ p \in Seq(Channels \cup {"fdr"}) BY NodeShape
<1>2. SubSeq(p, 1, Len(p)) = p
  <2>1. /\ SubSeq(p, 1, Len(p)) \in Seq(Channels \cup {"fdr"}) /\ Len(SubSeq(p, 1, Len(p))) = Len(p)
        /\ \A i \in 1 .. Len(p) : SubSeq(p, 1, Len(p))[i] = p[i]
    BY <1>1
  <2>2. QED BY <1>1, <2>1, SeqEqual
<1>3. Len(p) \in U
  <2>1. Len(p) \in 1 .. Len(p) BY <1>1
  <2>2. cache[SubSeq(p, 1, Len(p))] = <<>> BY <1>2
  <2>3. QED BY <2>1, <2>2
<1>4. FirstUncached(p) = SubSeq(p, 1, Min(U)) BY DEF FirstUncached
<1>5. CASE Len(p) = 1
  <2>1. U = {1} BY <1>3, <1>5
  <2>2. Min(U) = 1 BY <2>1 DEF Min
  <2>3. FirstUncached(p) = p BY <1>2, <1>4, <1>5, <2>2
  <2>4. Front(p) = <<>>
    <3>1. Front(p) # <<>> => Len(p) = 2 BY NodeShape
    <3>2. QED BY <3>1, <1>5
  <2>5. QED BY <2>3, <2>4
<1>6. CASE Len(p) = 2
  <2>1. Front(p) = SubSeq(p, 1, 1) BY <1>6 DEF Front
  <2>2. Front(p) # <<>>
    <3>1. Front(p) = <<>> => Len(p) = 1 BY NodeShape
    <3>2. QED BY <3>1, <1>6
  <2>3. Front(p) \in Nodes /\ Front(Front(p)) = <<>> BY <2>2, NodeShape
  <2>4. CASE cache[Front(p)] = <<>>
    <3>1. 1 \in U /\ \A n \in U : 1 <= n BY <2>1, <2>4, <1>6
    <3>2. Min(U) = 1
      <4>1. \A n \in U : n \in Nat BY <1>6
      <4>2. \A x \in U : (\A y \in U : x <= y) => x = 1 BY <3>1, <4>1
      <4>3. QED BY <3>1, <4>2 DEF Min
    <3>3. QED BY <1>4, <2>1, <2>3, <3>2
  <2>5. CASE cache[Front(p)] # <<>>
    <3>1. U = {2} BY <1>3, <1>6, <2>1, <2>5
    <3>2. Min(U) = 2 BY <3>1 DEF Min
    <3>3. FirstUncached(p) = p BY <1>2, <1>4, <1>6, <3>2
    <3>4. QED BY <2>5, <3>3
  <2>6. QED BY <2>4, <2>5
<1>7. QED BY <1>1, <1>5, <1>6

-----------------------------------------------------------------------------
(* Every step keeps the invariant. *)

LEMMA ResolveStep ==
  ASSUME ClientInv, NEW r \in Resolvers, NEW p \in Nodes, Resolve(r, p)
  PROVE  ClientInv'
<1> DEFINE x == [path |-> p, at |-> FirstUncached(p), pc |-> "queued"]
<1>1. /\ ask[r].pc \in {"idle", "missed"} /\ cache[p] = <<>> /\ cache' = cache
      /\ ask' = [ask EXCEPT ![r] = x]
      /\ conn' = [conn EXCEPT !.queue = Append(@, r)]
  BY DEF Resolve
<1>2. ClientTypes /\ conn \in ClientStates BY DEF ClientInv, ClientTypes
<1>3. /\ ask'[r] = x /\ \A q \in Resolvers : q # r => ask'[q] = ask[q]
      /\ ask' = [q \in Resolvers |-> ask'[q]]
  BY <1>1, <1>2, AskSteps
<1>4. /\ conn' \in ClientStates /\ conn'.queue = Append(conn.queue, r)
      /\ conn'.answer = conn.answer /\ conn'.drain = conn.drain /\ conn'.requests = conn.requests
      /\ conn'.wire = conn.wire /\ conn'.gaveUp = conn.gaveUp /\ conn'.split = conn.split
  BY <1>1, <1>2, QueueSteps DEF ClientStates
<1>5. \A q \in Resolvers : Holds(q) => Holds(q)' BY <1>2, <1>4, QueueSteps DEF Holds
<1>6. ClientTypes' BY <1>1, <1>2, <1>3, <1>4 DEF ClientTypes
<1>7. BindingsAreTrue' BY <1>1 DEF ClientInv, BindingsAreTrue
<1>8. ASSUME NEW q \in Resolvers PROVE AskOK(q)'
  <2>1. CASE q = r BY <1>1, <1>3, <2>1, FirstUncachedFacts DEF AskOK
  <2>2. CASE q # r
    <3>1. ask'[q] = ask[q] /\ AskOK(q) BY <1>3, <2>2 DEF ClientInv
    <3>2. QED BY <1>1, <1>5, <3>1, AskStays DEF AskOK
  <2>3. QED BY <2>1, <2>2
<1>9. \A q \in Resolvers : (Asking(q)' <=> Asking(q)) /\ (Asking(q) => ask'[q] = ask[q])
  BY <1>1, <1>3 DEF Asking
<1>10. ~conn'.gaveUp /\ ~conn'.split => InStep'
  <2>1. SUFFICES ASSUME InStep PROVE InStep' BY <1>4 DEF ClientInv
  <2>2. \A q \in Resolvers : ask'[q].pc # "missed" BY <2>1, <1>3 DEF InStep
  <2>3. (Silent' <=> Silent) /\ \A n : Awaiting(n)' <=> Awaiting(n)
    BY <1>4 DEF Silent, Awaiting
  <2>4. QED BY <2>1, <2>2, <2>3, <1>4, <1>9 DEF InStep
<1>11. QED BY <1>6, <1>7, <1>8, <1>10 DEF ClientInv

\* A request goes out when nothing else is under way, or after a drain was given up.
LEMMA RequestStep ==
  ASSUME ClientInv, NEW r \in Resolvers, NEW c, Request(r, c), UNCHANGED cache,
         Holds(r), ask[r].pc \in {"queued", "draining"},
         \/ c = conn /\ conn.drain = FALSE
         \/ c = [conn EXCEPT !.drain = FALSE, !.gaveUp = TRUE]
  PROVE  ClientInv'
<1> DEFINE x == [path |-> ask[r].path, at |-> ask[r].at, pc |-> "asking"]
<1>1. ClientTypes /\ conn \in ClientStates BY DEF ClientInv, ClientTypes
<1>2. ask' = [ask EXCEPT ![r] = x] BY <1>1, RecordSteps DEF Request
<1>3. /\ ask'[r] = x /\ \A q \in Resolvers : q # r => ask'[q] = ask[q]
      /\ ask' = [q \in Resolvers |-> ask'[q]]
  BY <1>1, <1>2, AskSteps
<1>4. Asked(r) = Front(ask[r].at) /\ Asked(r) \in Parents BY AskedIsTheParent
<1>5. Append(conn.requests, Asked(r)) \in Seq(Parents) /\ NoAnswer \subseteq Items
  BY <1>1, <1>4 DEF ClientStates, NoAnswer, Items
<1>6. /\ conn' \in ClientStates /\ conn'.queue = conn.queue /\ conn'.answer = NoAnswer /\ conn'.drain = FALSE
      /\ conn'.requests = Append(conn.requests, Front(ask[r].at)) /\ conn'.wire = conn.wire
      /\ conn'.split = conn.split
      /\ ~conn'.gaveUp => ~conn.gaveUp /\ ~conn.drain
  BY <1>1, <1>4, <1>5 DEF ClientStates, Request
<1>7. \A q \in Resolvers : Holds(q)' <=> Holds(q) BY <1>6 DEF Holds
<1>8. ClientTypes' BY <1>1, <1>3, <1>6 DEF ClientTypes
<1>9. BindingsAreTrue' BY DEF ClientInv, BindingsAreTrue
<1>10. ASSUME NEW q \in Resolvers PROVE AskOK(q)'
  <2>1. AskOK(q) BY DEF ClientInv
  <2>2. CASE q = r
    <3>1. AskOK(r) BY DEF ClientInv
    <3>2. QED BY <1>3, <1>7, <2>2, <3>1 DEF AskOK
  <2>3. CASE q # r
    <3>1. ask'[q] = ask[q] BY <1>3, <2>3
    <3>2. QED BY <1>7, <2>1, <3>1, AskStays DEF AskOK
  <2>4. QED BY <2>2, <2>3
<1>11. \A q \in Resolvers : ~Asking(q)
  BY OneHolds DEF Asking, ClientInv
<1>12. ~conn'.gaveUp /\ ~conn'.split => InStep'
  <2>1. SUFFICES ASSUME InStep, ~conn.drain PROVE InStep' BY <1>6 DEF ClientInv
  <2>2. \A q \in Resolvers : ask'[q].pc # "missed" BY <2>1, <1>3 DEF InStep
  <2>3. Silent BY <2>1, <1>11 DEF InStep
  <2>4. conn'.requests = <<Front(ask[r].at)>> /\ conn'.wire = <<>> BY <1>6, <2>3 DEF Silent
  <2>5. Awaiting(Front(ask[r].at))' BY <1>3, <2>4 DEF Awaiting
  <2>6. \A q \in Resolvers : Asking(q)' <=> q = r BY <1>3, <1>11 DEF Asking
  <2>7. QED BY <2>2, <2>5, <2>6, <1>6 DEF InStep
<1>13. QED BY <1>8, <1>9, <1>10, <1>12 DEF ClientInv

LEMMA AcquireStep ==
  ASSUME ClientInv, NEW r \in Resolvers, Acquire(r)
  PROVE  ClientInv'
<1>1. ClientTypes /\ conn \in ClientStates BY DEF ClientInv, ClientTypes
<1>2. CASE ~conn.drain
  <2>1. conn.drain = FALSE BY <1>1, <1>2 DEF ClientStates
  <2>2. QED BY <1>2, <2>1, RequestStep DEF Acquire
<1>3. CASE conn.drain
  <2> DEFINE x == [path |-> ask[r].path, at |-> ask[r].at, pc |-> "draining"]
  <2>1. /\ Holds(r) /\ ask[r].pc = "queued" /\ cache' = cache /\ conn' = conn
        /\ ask' = [ask EXCEPT ![r] = x]
    BY <1>1, <1>3, RecordSteps DEF Acquire
  <2>2. /\ ask'[r] = x /\ \A q \in Resolvers : q # r => ask'[q] = ask[q]
        /\ ask' = [q \in Resolvers |-> ask'[q]]
    BY <1>1, <2>1, AskSteps
  <2>3. \A q \in Resolvers : Holds(q)' <=> Holds(q) BY <2>1 DEF Holds
  <2>4. ClientTypes' BY <1>1, <2>1, <2>2 DEF ClientTypes
  <2>5. BindingsAreTrue' BY <2>1 DEF ClientInv, BindingsAreTrue
  <2>6. ASSUME NEW q \in Resolvers PROVE AskOK(q)'
    <3>1. AskOK(q) BY DEF ClientInv
    <3>2. CASE q = r
      <4>1. AskOK(r) BY DEF ClientInv
      <4>2. QED BY <2>1, <2>2, <2>3, <3>2, <4>1 DEF AskOK
    <3>3. CASE q # r BY <2>1, <2>2, <2>3, <3>1, <3>3, AskStays DEF AskOK
    <3>4. QED BY <3>2, <3>3
  <2>7. \A q \in Resolvers : (Asking(q)' <=> Asking(q)) /\ (Asking(q) => ask'[q] = ask[q])
    BY <2>1, <2>2 DEF Asking
  <2>8. ~conn'.gaveUp /\ ~conn'.split => InStep'
    <3>1. SUFFICES ASSUME InStep PROVE InStep' BY <2>1 DEF ClientInv
    <3>2. \A q \in Resolvers : ask'[q].pc # "missed" BY <3>1, <2>2 DEF InStep
    <3>3. (Silent' <=> Silent) /\ \A n : Awaiting(n)' <=> Awaiting(n)
      BY <2>1 DEF Silent, Awaiting
    <3>4. QED BY <3>1, <3>2, <3>3, <2>1, <2>7 DEF InStep
  <2>9. QED BY <2>4, <2>5, <2>6, <2>8 DEF ClientInv
<1>4. QED BY <1>2, <1>3

LEMMA DrainedStep ==
  ASSUME ClientInv, NEW r \in Resolvers, Drained(r)
  PROVE  ClientInv'
<1>1. conn \in ClientStates /\ AskOK(r) BY DEF ClientInv, ClientTypes
<1>2. Holds(r) /\ conn.drain = FALSE BY <1>1 DEF AskOK, Drained, ClientStates
<1>3. QED BY <1>2, RequestStep DEF Drained

LEMMA DrainTimesOutStep ==
  ASSUME ClientInv, NEW r \in Resolvers, DrainTimesOut(r)
  PROVE  ClientInv'
<1>1. AskOK(r) BY DEF ClientInv
<1>2. Holds(r) BY <1>1 DEF AskOK, DrainTimesOut
<1>3. QED BY <1>2, RequestStep DEF DrainTimesOut

LEMMA RequestTimesOutStep ==
  ASSUME ClientInv, NEW r \in Resolvers, RequestTimesOut(r)
  PROVE  ClientInv'
<1>1. ClientTypes /\ conn \in ClientStates /\ AskOK(r) BY DEF ClientInv, ClientTypes
<1>2. /\ ask[r].pc = "asking" /\ conn.answer = NoAnswer /\ cache' = cache
      /\ ask' = [ask EXCEPT ![r] = Unasked("idle")]
      /\ Holds(r)
  BY <1>1 DEF RequestTimesOut, AskOK
<1>3. /\ ask'[r] = Unasked("idle") /\ \A q \in Resolvers : q # r => ask'[q] = ask[q]
      /\ ask' = [q \in Resolvers |-> ask'[q]]
  BY <1>1, <1>2, AskSteps
<1>4. /\ conn' \in ClientStates /\ conn'.drain = TRUE /\ conn'.requests = conn.requests
      /\ conn'.wire = conn.wire /\ conn'.gaveUp = conn.gaveUp /\ conn'.split = conn.split
  <2>1. Tail(conn.queue) \in Seq(Resolvers) BY <1>1, <1>2, QueueSteps DEF Holds
  <2>2. QED BY <1>1, <2>1 DEF RequestTimesOut, BeginDrain, ClientStates
<1>5. \A q \in Resolvers : q # r => ask[q].pc \notin {"draining", "asking"} BY <1>2, OneHolds DEF ClientInv
<1>6. ClientTypes' BY <1>1, <1>2, <1>3, <1>4 DEF ClientTypes, Unasked
<1>7. BindingsAreTrue' BY <1>2 DEF ClientInv, BindingsAreTrue
<1>8. ASSUME NEW q \in Resolvers PROVE AskOK(q)'
  <2>1. CASE q = r BY <1>3, <2>1 DEF AskOK, Unasked
  <2>2. CASE q # r BY <1>2, <1>3, <1>5, <2>2, AskStays
  <2>3. QED BY <2>1, <2>2
<1>9. \A q \in Resolvers : ~Asking(q)' BY <1>3, <1>5 DEF Asking, Unasked
<1>10. ~conn'.gaveUp /\ ~conn'.split => InStep'
  <2>1. SUFFICES ASSUME InStep PROVE InStep' BY <1>4 DEF ClientInv
  <2>2. \A q \in Resolvers : ask'[q].pc # "missed" BY <2>1, <1>3 DEF InStep, Unasked
  <2>3. Awaiting(Front(ask[r].at)) BY <2>1, <1>2 DEF InStep, Asking
  <2>4. Front(ask[r].at) \in Parents BY <1>1, <1>2, NodeShape DEF AskOK
  <2>5. \A n : Awaiting(n)' <=> Awaiting(n) BY <1>4 DEF Awaiting
  <2>6. \E n \in Parents : Awaiting(n)' BY <2>3, <2>4, <2>5
  <2>7. QED BY <2>2, <2>6, <1>4, <1>9 DEF InStep
<1>11. QED BY <1>6, <1>7, <1>8, <1>10 DEF ClientInv

LEMMA AnsweredStep ==
  ASSUME ClientInv, NEW r \in Resolvers, Answered(r)
  PROVE  ClientInv'
<1> DEFINE p == ask[r].path
           at == ask[r].at
           found == FindChild(conn.answer, at, Asked(r))
           left == found # {} /\ at # p /\ cache[p] = <<>>
           x == IF left THEN [path |-> p, at |-> p, pc |-> "queued"]
                ELSE Unasked(IF found = {} THEN "missed" ELSE "idle")
<1>1. ClientTypes /\ conn \in ClientStates /\ AskOK(r) BY DEF ClientInv, ClientTypes
<1>2. /\ Holds(r) /\ ask[r].pc = "asking" /\ conn.answer # NoAnswer
      /\ \/ found = {} /\ cache' = cache
         \/ \E d \in found : cache' = [cache EXCEPT ![at] = d]
      /\ ask' = [ask EXCEPT ![r] = x]
      /\ conn' = [conn EXCEPT !.answer = NoAnswer,
                              !.queue = IF left THEN Append(Tail(@), r) ELSE Tail(@)]
  <2>1. [ask[r] EXCEPT !.pc = "queued", !.at = p] = [path |-> p, at |-> p, pc |-> "queued"]
    BY <1>1, RecordSteps
  <2> DEFINE y == IF left THEN [ask[r] EXCEPT !.pc = "queued", !.at = p]
                  ELSE Unasked(IF found = {} THEN "missed" ELSE "idle")
  <2>2. y = x BY <2>1
  <2>3. ask' = [ask EXCEPT ![r] = y] BY DEF Answered
  <2>4. ask' = [ask EXCEPT ![r] = x]
    <3> HIDE DEF x, y
    <3>1. QED BY <2>2, <2>3
  <2>5. QED BY <2>4 DEF Answered
<1>3. p \in Nodes /\ at \in Nodes /\ (at = p \/ at = Front(p)) BY <1>1, <1>2 DEF AskOK
<1>4. Asked(r) = Front(at) BY <1>2, AskedIsTheParent
<1>5. found \subseteq {at} /\ (at \in conn.answer => found = {at})
  BY <1>1, <1>3, <1>4, FoundIsTheNode DEF ClientStates
<1> HIDE DEF found
<1>6. \/ found = {} /\ cache' = cache
      \/ found = {at} /\ cache' = [cache EXCEPT ![at] = at]
  BY <1>2, <1>5
<1>7. /\ \A n \in Nodes : cache[n] # <<>> => cache'[n] # <<>>
      /\ cache' \in [Nodes -> Nodes \cup {<<>>}] /\ BindingsAreTrue'
      /\ found # {} => cache'[at] # <<>>
  <2>1. at # <<>> BY <1>3, NodeShape
  <2>2. QED BY <1>1, <1>3, <1>6, <2>1 DEF ClientTypes, ClientInv, BindingsAreTrue
<1>8. /\ ask'[r] = x /\ \A q \in Resolvers : q # r => ask'[q] = ask[q]
      /\ ask' = [q \in Resolvers |-> ask'[q]]
  <2> HIDE DEF x
  <2>1. QED BY <1>1, <1>2, AskSteps
<1>9. \A q \in Resolvers : q # r => ask[q].pc \notin {"draining", "asking"} BY <1>2, OneHolds DEF ClientInv
<1>10. /\ conn' \in ClientStates /\ conn'.drain = conn.drain /\ conn'.requests = conn.requests
       /\ conn'.wire = conn.wire /\ conn'.gaveUp = conn.gaveUp /\ conn'.split = conn.split
  <2>1. Tail(conn.queue) \in Seq(Resolvers) BY <1>1, <1>2, QueueSteps DEF Holds
  <2>2. Append(Tail(conn.queue), r) \in Seq(Resolvers) BY <2>1
  <2>3. NoAnswer \subseteq Items BY DEF NoAnswer, Items
  <2>4. QED BY <1>1, <1>2, <2>1, <2>2, <2>3 DEF ClientStates
<1>11. ClientTypes'
  <2>1. ask'[r] = [path |-> ask'[r].path, at |-> ask'[r].at, pc |-> ask'[r].pc] BY <1>8 DEF Unasked
  <2>2. QED BY <1>1, <1>7, <1>8, <1>10, <2>1 DEF ClientTypes
<1>12. ASSUME NEW q \in Resolvers PROVE AskOK(q)'
  <2>1. CASE q = r
    <3>1. CASE left
      <4>1. at = Front(p) /\ cache'[at] # <<>> BY <1>3, <1>7, <3>1
      <4>2. ask'[r] = [path |-> p, at |-> p, pc |-> "queued"] BY <1>8, <3>1
      <4>3. QED BY <1>3, <2>1, <4>1, <4>2 DEF AskOK
    <3>2. CASE ~left BY <1>8, <2>1, <3>2 DEF AskOK, Unasked
    <3>3. QED BY <3>1, <3>2
  <2>2. CASE q # r BY <1>7, <1>8, <1>9, <2>2, AskStays
  <2>3. QED BY <2>1, <2>2
<1>13. \A q \in Resolvers : ~Asking(q)' BY <1>8, <1>9 DEF Asking, Unasked
<1>14. ~conn'.gaveUp /\ ~conn'.split => InStep'
  <2>1. SUFFICES ASSUME InStep PROVE InStep' BY <1>10 DEF ClientInv
  <2>2. /\ ~conn.drain /\ conn.requests = <<>> /\ conn.wire = <<>>
        /\ conn.answer = Children(Front(at))
    BY <2>1, <1>2 DEF InStep, Asking, Silent
  <2>3. found # {} BY <1>3, <1>5, <2>2 DEF Children
  <2>4. \A q \in Resolvers : ask'[q].pc # "missed" BY <2>1, <2>3, <1>8 DEF InStep, Unasked
  <2>5. QED BY <2>2, <2>4, <1>10, <1>13 DEF InStep, Silent
<1>15. QED BY <1>7, <1>11, <1>12, <1>14 DEF ClientInv

\* What the desk and the stream do leaves the resolvers alone.
LEMMA StreamSteps ==
  ASSUME ClientInv, UNCHANGED <<ask, cache>>, conn' \in ClientStates, conn'.queue = conn.queue,
         ~conn'.gaveUp /\ ~conn'.split => InStep'
  PROVE  ClientInv'
<1>1. ClientTypes' BY DEF ClientInv, ClientTypes
<1>2. BindingsAreTrue' BY DEF ClientInv, BindingsAreTrue
<1>3. \A q \in Resolvers : AskOK(q)' BY DEF ClientInv, AskOK, Holds
<1>4. QED BY <1>1, <1>2, <1>3 DEF ClientInv

LEMMA DeskAnswersStep ==
  ASSUME ClientInv, DeskAnswers
  PROVE  ClientInv'
<1> DEFINE n == Head(conn.requests)
<1>1. conn \in ClientStates BY DEF ClientInv, ClientTypes
<1>2. /\ conn.requests # <<>> /\ ask' = ask /\ cache' = cache
      /\ conn' = [conn EXCEPT !.requests = Tail(@), !.wire = @ \o Reply(n)]
  BY DEF DeskAnswers, Reply
<1>3. Tail(conn.requests) \in Seq(Parents) /\ n \in Parents BY <1>1, <1>2 DEF ClientStates
<1>4. Reply(n) \in Seq(Items) BY ReplyFacts
<1>5. conn.wire \o Reply(n) \in Seq(Items) BY <1>1, <1>4 DEF ClientStates
<1>6. /\ conn' \in ClientStates /\ conn'.queue = conn.queue /\ conn'.answer = conn.answer /\ conn'.drain = conn.drain
      /\ conn'.requests = Tail(conn.requests) /\ conn'.wire = conn.wire \o Reply(n)
      /\ conn'.gaveUp = conn.gaveUp /\ conn'.split = conn.split
  BY <1>1, <1>2, <1>3, <1>5 DEF ClientStates
<1>7. ~conn'.gaveUp /\ ~conn'.split => InStep'
  <2>1. SUFFICES ASSUME InStep PROVE InStep' BY <1>6 DEF ClientInv
  <2>2. \A m : Awaiting(m) => Awaiting(m)'
    <3>1. SUFFICES ASSUME NEW m, conn.requests = <<m>>, conn.wire = <<>> PROVE Awaiting(m)'
      BY <1>2 DEF Awaiting
    <3>2. n = m /\ Tail(conn.requests) = <<>> BY <3>1
    <3>3. <<>> \o Reply(n) = Reply(n) BY <1>4, ConcatEmptySeq
    <3>4. QED BY <1>6, <3>1, <3>2, <3>3 DEF Awaiting, Reply
  <2>3. ~Silent BY <1>2 DEF Silent
  <2>4. \A q \in Resolvers : Asking(q)' <=> Asking(q) BY <1>2 DEF Asking
  <2>5. QED BY <2>1, <2>2, <2>3, <2>4, <1>2, <1>6 DEF InStep
<1>8. QED BY <1>2, <1>6, <1>7, StreamSteps

LEMMA ReadBatchStep ==
  ASSUME ClientInv, NEW n \in 1 .. Len(conn.wire), ReadBatch(n)
  PROVE  ClientInv'
<1> DEFINE batch == SubSeq(conn.wire, 1, n)
           rest == SubSeq(conn.wire, n + 1, Len(conn.wire))
           ended == Contains(batch, End)
           defs == {batch[i] : i \in 1 .. n} \ {End}
           asked == \E r \in Resolvers : Holds(r) /\ ask[r].pc = "asking"
           answer == IF conn.drain \/ ~ended \/ ~asked \/ conn.answer # NoAnswer THEN conn.answer ELSE defs
<1>1. conn \in ClientStates /\ conn.wire \in Seq(Items) /\ Len(conn.wire) \in Nat
  BY DEF ClientInv, ClientTypes, ClientStates
<1>2. /\ ask' = ask /\ cache' = cache
      /\ conn' = [conn EXCEPT !.wire = rest, !.split = @ \/ Last(batch) # End,
                              !.drain = @ /\ ~ended, !.answer = answer]
  BY DEF ReadBatch
<1>3. rest \in Seq(Items) BY <1>1
<1>4. batch \in Seq(Items) /\ Len(batch) = n /\ \A i \in 1 .. n : batch[i] = conn.wire[i] BY <1>1
<1>5. answer \in SUBSET Items
  <2>1. \A i \in 1 .. n : batch[i] \in Items BY <1>4
  <2>2. defs \subseteq Items BY <2>1
  <2> HIDE DEF defs, ended, asked
  <2>3. QED BY <1>1, <2>2 DEF ClientStates
<1>6. /\ conn' \in ClientStates /\ conn'.queue = conn.queue /\ conn'.requests = conn.requests
      /\ conn'.wire = rest /\ conn'.answer = answer
      /\ conn'.drain = (conn.drain /\ ~ended)
      /\ conn'.gaveUp = conn.gaveUp
      /\ conn'.split = (conn.split \/ Last(batch) # End)
  <2> HIDE DEF answer, ended, rest, batch
  <2>1. QED BY <1>1, <1>2, <1>3, <1>5 DEF ClientStates
<1>7. ~conn'.gaveUp /\ ~conn'.split => InStep'
  <2>1. SUFFICES ASSUME InStep, Last(batch) = End PROVE InStep'
    <3> HIDE DEF batch
    <3>1. QED BY <1>6 DEF ClientInv
  <2>2. conn.wire # <<>> BY <1>1
  <2>3. PICK m : conn.requests = <<>> /\ conn.wire = Reply(m) /\ (conn.drain \/ conn.answer = NoAnswer)
               /\ \A r \in Resolvers : Asking(r) => m = Front(ask[r].at)
    <3>1. CASE conn.drain BY <2>1, <2>2, <3>1 DEF InStep, Awaiting
    <3>2. CASE ~conn.drain
      <4>1. PICK r \in Resolvers : Asking(r) BY <2>1, <2>2, <3>2 DEF InStep, Silent
      <4>2. conn.answer = NoAnswer /\ Awaiting(Front(ask[r].at)) BY <2>1, <2>2, <4>1 DEF InStep, Silent
      <4>3. \A q \in Resolvers : Asking(q) => q = r
        <5>1. Holds(r) BY <4>1 DEF ClientInv, AskOK, Asking
        <5>2. QED BY <5>1, OneHolds DEF ClientInv, Asking
      <4>4. QED BY <2>2, <4>2, <4>3 DEF Awaiting
    <3>3. QED BY <3>1, <3>2
  <2>4. /\ \A i \in 1 .. Len(conn.wire) : conn.wire[i] = End => i = Len(conn.wire)
        /\ {conn.wire[i] : i \in 1 .. Len(conn.wire)} \ {End} = Children(m)
        /\ Children(m) # NoAnswer
    BY <2>3, ReplyFacts
  <2>5. conn.wire[n] = End BY <1>4, <2>1 DEF Last
  <2>6. n = Len(conn.wire) BY <2>4, <2>5
  <2>7. rest = <<>> BY <1>1, <2>6
  <2>8. ended BY <1>4, <2>1 DEF Contains, Last
  <2>9. defs = Children(m) BY <1>4, <2>4, <2>6
  <2>10. Silent' /\ ~conn'.drain BY <1>6, <2>3, <2>7, <2>8 DEF Silent
  <2>11. \A r \in Resolvers : ask'[r] = ask[r] /\ ask'[r].pc # "missed" BY <1>2, <2>1 DEF InStep
  <2>12. ASSUME NEW r \in Resolvers, Asking(r)'
         PROVE  conn'.answer = Children(Front(ask[r].at))
    <3>1. Asking(r) BY <2>11, <2>12 DEF Asking
    <3>2. asked BY <3>1 DEF ClientInv, AskOK, Asking
    <3>3. ~conn.drain BY <2>1, <3>1 DEF InStep
    <3>4. m = Front(ask[r].at) /\ conn.answer = NoAnswer BY <2>3, <3>1, <3>3
    <3> HIDE DEF ended, asked, defs
    <3>5. answer = defs BY <2>8, <3>2, <3>3, <3>4
    <3>6. QED BY <1>6, <2>9, <3>4, <3>5
  <2>13. ASSUME NEW r \in Resolvers, Asking(r)'
         PROVE  Silent' /\ conn'.answer = Children(Front(ask'[r].at)) /\ conn'.answer # NoAnswer
    BY <2>10, <2>11, <2>12, <2>13, ReplyFacts
  <2>14. QED BY <2>10, <2>11, <2>13 DEF InStep
<1>8. QED BY <1>2, <1>6, <1>7, StreamSteps

\* WingNativeClient keeps the invariant: at most one answer is under way as long as
\* none was split and no drain given up.
THEOREM ClientInvariant == ClientSpec => []ClientInv
<1>1. ClientInit => ClientInv BY InitHolds
<1>2. ClientInv /\ [ClientRuns \/ ClientWorld]_clientVars => ClientInv'
  <2> SUFFICES ASSUME ClientInv, [ClientRuns \/ ClientWorld]_clientVars PROVE ClientInv' OBVIOUS
  <2>1. CASE ClientRuns
    BY <2>1, AcquireStep, DrainedStep, AnsweredStep, ReadBatchStep, DeskAnswersStep DEF ClientRuns
  <2>2. CASE ClientWorld
    BY <2>2, ResolveStep, RequestTimesOutStep, DrainTimesOutStep DEF ClientWorld
  <2>3. CASE UNCHANGED clientVars
    <3>1. conn' \in ClientStates /\ conn' = conn /\ ask' = ask /\ cache' = cache
      BY <2>3 DEF clientVars, ClientInv, ClientTypes
    <3>2. InStep => InStep' BY <3>1 DEF InStep, Asking, Awaiting, Silent
    <3>3. QED BY <3>1, <3>2, StreamSteps DEF ClientInv
  <2>4. QED BY <2>1, <2>2, <2>3
<1>3. QED BY <1>1, <1>2, PTL DEF ClientSpec

\* Whatever order requests, timeouts, late answers and reads come in, a path is bound to
\* its own node and to no other; and a path that exists is found unless an answer was
\* split over two reads or the drain of a late one was given up (resolve_path()).
THEOREM PathsAreResolvedHolds == ClientSpec => []PathsAreResolved
<1>1. ClientInv => PathsAreResolved
  BY DEF ClientInv, InStep, PathsAreResolved, BindingsAreTrue, ExistingPathsAreFound
<1>2. QED BY <1>1, ClientInvariant, PTL
-----------------------------------------------------------------------------
(* The queue of the lock: each resolver that asks is in it, once.            *)

LEMMA QueueJoined ==
  ASSUME NEW S, NEW q \in Seq(S), NEW r \in S, IsInjective(q), ~Contains(q, r)
  PROVE  /\ IsInjective(Append(q, r))
         /\ \A x : Contains(Append(q, r), x) <=> x = r \/ Contains(q, x)
<1> DEFINE a == Append(q, r)
<1>1. /\ Len(q) \in Nat /\ DOMAIN q = 1 .. Len(q) /\ DOMAIN a = 1 .. Len(a) /\ Len(a) = Len(q) + 1
      /\ a[Len(a)] = r /\ \A i \in 1 .. Len(q) : a[i] = q[i]
  OBVIOUS
<1> HIDE DEF a
<1>2. \A i \in 1 .. Len(a) : i = Len(a) \/ i \in 1 .. Len(q) BY <1>1
<1>3. \A i \in 1 .. Len(q) : q[i] # r BY DEF Contains
<1>4. IsInjective(a)
  <2>1. SUFFICES ASSUME NEW i \in 1 .. Len(a), NEW j \in 1 .. Len(a), a[i] = a[j] PROVE i = j
    BY <1>1 DEF IsInjective
  <2>2. CASE i = Len(a) BY <1>1, <1>2, <1>3, <2>1, <2>2
  <2>3. CASE j = Len(a) BY <1>1, <1>2, <1>3, <2>1, <2>3
  <2>4. CASE i # Len(a) /\ j # Len(a)
    <3>1. i \in 1 .. Len(q) /\ j \in 1 .. Len(q) /\ q[i] = q[j] BY <1>1, <1>2, <2>1, <2>4
    <3>2. QED BY <1>1, <3>1 DEF IsInjective
  <2>5. QED BY <2>2, <2>3, <2>4
<1>5. ASSUME NEW x PROVE Contains(a, x) <=> x = r \/ Contains(q, x)
  <2>1. Contains(a, x) => x = r \/ Contains(q, x) BY <1>1, <1>2 DEF Contains
  <2>2. Contains(q, x) => Contains(a, x)
    <3>1. \A i \in 1 .. Len(q) : i \in 1 .. Len(a) BY <1>1
    <3>2. QED BY <1>1, <3>1 DEF Contains
  <2>3. Len(a) \in 1 .. Len(a) BY <1>1
  <2>4. QED BY <1>1, <2>1, <2>2, <2>3 DEF Contains
<1>6. QED BY <1>4, <1>5 DEF a

LEMMA QueueLeft ==
  ASSUME NEW S, NEW q \in Seq(S), q # <<>>, IsInjective(q)
  PROVE  /\ Tail(q) \in Seq(S) /\ IsInjective(Tail(q))
         /\ \A x : Contains(Tail(q), x) <=> Contains(q, x) /\ x # Head(q)
<1> DEFINE t == Tail(q)
<1>1. /\ Len(q) \in Nat /\ Len(q) >= 1 /\ DOMAIN q = 1 .. Len(q) /\ Head(q) = q[1]
      /\ t \in Seq(S) /\ DOMAIN t = 1 .. Len(t) /\ Len(t) = Len(q) - 1
      /\ \A i \in 1 .. Len(q) - 1 : t[i] = q[i + 1]
  OBVIOUS
<1> HIDE DEF t
<1>2. \A i, j \in 1 .. Len(q) : q[i] = q[j] => i = j BY <1>1 DEF IsInjective
<1>3. IsInjective(t)
  <2>1. SUFFICES ASSUME NEW i \in 1 .. Len(t), NEW j \in 1 .. Len(t), t[i] = t[j] PROVE i = j
    BY <1>1 DEF IsInjective
  <2>2. i + 1 \in 1 .. Len(q) /\ j + 1 \in 1 .. Len(q) /\ q[i + 1] = q[j + 1] BY <1>1, <2>1
  <2>3. i + 1 = j + 1 BY <1>2, <2>2
  <2>4. QED BY <2>3
<1>4. ASSUME NEW x PROVE Contains(t, x) <=> Contains(q, x) /\ x # Head(q)
  <2>1. ASSUME NEW i \in 1 .. Len(t), t[i] = x PROVE Contains(q, x) /\ x # Head(q)
    <3>1. i + 1 \in 1 .. Len(q) /\ q[i + 1] = x /\ 1 \in 1 .. Len(q) /\ i + 1 # 1 BY <1>1, <2>1
    <3>2. QED BY <1>1, <1>2, <3>1 DEF Contains
  <2>2. ASSUME NEW i \in 1 .. Len(q), q[i] = x, x # Head(q) PROVE Contains(t, x)
    <3>1. i # 1 BY <1>1, <2>2
    <3>2. i - 1 \in 1 .. Len(t) /\ t[i - 1] = q[i - 1 + 1] /\ i - 1 + 1 = i BY <1>1, <3>1
    <3>3. t[i - 1] = x BY <2>2, <3>2
    <3>4. QED BY <3>2, <3>3 DEF Contains
  <2>3. QED BY <2>1, <2>2 DEF Contains
<1>5. QED BY <1>1, <1>3, <1>4 DEF t

MaybeNodes == Nodes \cup {<<>>}
AskStates == [path : MaybeNodes, at : MaybeNodes,
              pc : {"idle", "queued", "draining", "asking", "missed"}]

InQueueOnce ==
  /\ ask \in [Resolvers -> AskStates]
  /\ IsInjective(conn.queue)
  /\ \A r \in Resolvers : ask[r].pc \in {"idle", "missed"} <=> ~Contains(conn.queue, r)

\* One resolver changes: it joins the queue, stays, leaves it, or goes to its end.
LEMMA QueueChanges ==
  ASSUME InQueueOnce, conn.queue \in Seq(Resolvers), NEW r \in Resolvers, NEW x \in AskStates,
         ask' = [ask EXCEPT ![r] = x],
         \/ /\ conn'.queue = conn.queue
            /\ x.pc \notin {"idle", "missed"} /\ ask[r].pc \notin {"idle", "missed"}
         \/ /\ conn'.queue = Append(conn.queue, r)
            /\ x.pc \notin {"idle", "missed"} /\ ask[r].pc \in {"idle", "missed"}
         \/ Holds(r) /\ conn'.queue = Tail(conn.queue) /\ x.pc \in {"idle", "missed"}
         \/ Holds(r) /\ conn'.queue = Append(Tail(conn.queue), r) /\ x.pc \notin {"idle", "missed"}
  PROVE  InQueueOnce'
<1> DEFINE idle(q) == ask[q].pc \in {"idle", "missed"}
<1>1. /\ ask' \in [Resolvers -> AskStates] /\ ask'[r] = x
      /\ \A q \in Resolvers : q # r => ask'[q] = ask[q]
  BY DEF InQueueOnce
<1>2. IsInjective(conn.queue) /\ \A q \in Resolvers : idle(q) <=> ~Contains(conn.queue, q)
  BY DEF InQueueOnce
<1>3. ASSUME IsInjective(conn'.queue),
             \A q \in Resolvers : q # r => (Contains(conn'.queue, q) <=> Contains(conn.queue, q)),
             x.pc \in {"idle", "missed"} <=> ~Contains(conn'.queue, r)
      PROVE  InQueueOnce'
  BY <1>1, <1>2, <1>3 DEF InQueueOnce
<1>4. CASE conn'.queue = conn.queue /\ x.pc \notin {"idle", "missed"} /\ ~idle(r)
  BY <1>2, <1>3, <1>4
<1>5. CASE conn'.queue = Append(conn.queue, r) /\ x.pc \notin {"idle", "missed"} /\ idle(r)
  BY <1>2, <1>3, <1>5, QueueJoined
<1>6. ASSUME Holds(r)
      PROVE  /\ Tail(conn.queue) \in Seq(Resolvers) /\ IsInjective(Tail(conn.queue))
             /\ \A q \in Resolvers : Contains(Tail(conn.queue), q) <=> Contains(conn.queue, q) /\ q # r
  BY <1>2, <1>6, QueueLeft DEF Holds
<1>7. CASE Holds(r) /\ conn'.queue = Tail(conn.queue) /\ x.pc \in {"idle", "missed"}
  BY <1>3, <1>6, <1>7
<1>8. CASE Holds(r) /\ conn'.queue = Append(Tail(conn.queue), r) /\ x.pc \notin {"idle", "missed"}
  <2> DEFINE t == Tail(conn.queue)
  <2>1. t \in Seq(Resolvers) /\ IsInjective(t) /\ ~Contains(t, r) BY <1>6, <1>8
  <2>2. conn'.queue = Append(t, r) BY <1>8
  <2>3. \A q \in Resolvers : q # r => (Contains(t, q) <=> Contains(conn.queue, q)) BY <1>6, <1>8
  <2> HIDE DEF t
  <2>4. /\ IsInjective(Append(t, r))
        /\ \A q : Contains(Append(t, r), q) <=> q = r \/ Contains(t, q)
    BY <2>1, QueueJoined
  <2>5. QED BY <1>3, <1>8, <2>2, <2>3, <2>4
<1>9. QED BY <1>4, <1>5, <1>7, <1>8

LEMMA RequestQueues ==
  ASSUME ClientInv, InQueueOnce, NEW r \in Resolvers, NEW c, c.queue = conn.queue, c \in ClientStates,
         ask[r].pc \in {"queued", "draining"}, Request(r, c)
  PROVE  InQueueOnce'
<1>1. conn \in ClientStates /\ ask[r] \in AskStates BY DEF ClientInv, ClientTypes, InQueueOnce
<1>2. ask' = [ask EXCEPT ![r] = [ask[r] EXCEPT !.pc = "asking"]] /\ conn'.queue = conn.queue
  BY DEF Request, ClientStates
<1>3. [ask[r] EXCEPT !.pc = "asking"] \in AskStates /\ [ask[r] EXCEPT !.pc = "asking"].pc = "asking"
  BY <1>1 DEF AskStates
<1>4. QED BY <1>1, <1>2, <1>3, QueueChanges DEF ClientStates

LEMMA QueueStep == ClientInv /\ InQueueOnce /\ [ClientRuns \/ ClientWorld]_clientVars => InQueueOnce'
<1> SUFFICES ASSUME ClientInv, InQueueOnce, [ClientRuns \/ ClientWorld]_clientVars PROVE InQueueOnce'
  OBVIOUS
<1>1. /\ conn \in ClientStates /\ conn.queue \in Seq(Resolvers)
      /\ \A r \in Resolvers : ask[r] \in AskStates /\ AskOK(r)
  BY DEF ClientInv, ClientTypes, ClientStates, InQueueOnce
<1>2. \A pc \in {"idle", "missed"} : Unasked(pc) \in AskStates /\ Unasked(pc).pc = pc
  BY DEF Unasked, AskStates, MaybeNodes
<1>3. ASSUME NEW r \in Resolvers, NEW p \in Nodes, Resolve(r, p) PROVE InQueueOnce'
  <2> DEFINE x == [path |-> p, at |-> FirstUncached(p), pc |-> "queued"]
  <2>1. cache[p] = <<>> /\ cache \in [Nodes -> Nodes \cup {<<>>}] BY <1>3 DEF Resolve, ClientInv, ClientTypes
  <2>2. x \in AskStates /\ x.pc = "queued" BY <2>1, FirstUncachedFacts DEF AskStates, MaybeNodes
  <2>3. ask' = [ask EXCEPT ![r] = x] /\ conn'.queue = Append(conn.queue, r) /\ ask[r].pc \in {"idle", "missed"}
    BY <1>1, <1>3 DEF Resolve, ClientStates
  <2> HIDE DEF x
  <2>4. QED BY <1>1, <2>2, <2>3, QueueChanges
<1>4. ASSUME NEW r \in Resolvers, Acquire(r) PROVE InQueueOnce'
  <2>1. CASE conn.drain
    <3> DEFINE x == [ask[r] EXCEPT !.pc = "draining"]
    <3>1. ask' = [ask EXCEPT ![r] = x] /\ conn' = conn /\ ask[r].pc = "queued" BY <1>4, <2>1 DEF Acquire
    <3>2. x \in AskStates /\ x.pc = "draining" BY <1>1 DEF AskStates
    <3> HIDE DEF x
    <3>3. QED BY <1>1, <3>1, <3>2, QueueChanges
  <2>2. CASE ~conn.drain BY <1>1, <1>4, <2>2, RequestQueues DEF Acquire
  <2>3. QED BY <2>1, <2>2
<1>5. ASSUME NEW r \in Resolvers, Drained(r) PROVE InQueueOnce'
  BY <1>1, <1>5, RequestQueues DEF Drained
<1>6. ASSUME NEW r \in Resolvers, DrainTimesOut(r) PROVE InQueueOnce'
  <2> DEFINE c == [conn EXCEPT !.drain = FALSE, !.gaveUp = TRUE]
  <2>1. c \in ClientStates /\ c.queue = conn.queue BY <1>1 DEF ClientStates
  <2>2. Request(r, c) /\ ask[r].pc = "draining" BY <1>6 DEF DrainTimesOut
  <2> HIDE DEF c
  <2>3. QED BY <2>1, <2>2, RequestQueues
<1>7. ASSUME NEW r \in Resolvers, RequestTimesOut(r) PROVE InQueueOnce'
  <2>1. Holds(r) BY <1>1, <1>7 DEF RequestTimesOut, AskOK
  <2>2. conn'.queue = Tail(conn.queue) /\ ask' = [ask EXCEPT ![r] = Unasked("idle")]
    BY <1>1, <1>7 DEF RequestTimesOut, BeginDrain, ClientStates
  <2>3. QED BY <1>1, <1>2, <2>1, <2>2, QueueChanges
<1>8. ASSUME NEW r \in Resolvers, Answered(r) PROVE InQueueOnce'
  <2> DEFINE found == FindChild(conn.answer, ask[r].at, Asked(r))
             left  == found # {} /\ ask[r].at # ask[r].path /\ cache[ask[r].path] = <<>>
             again == [ask[r] EXCEPT !.pc = "queued", !.at = ask[r].path]
             ends  == Unasked(IF found = {} THEN "missed" ELSE "idle")
  <2>1. /\ Holds(r)
        /\ ask' = [ask EXCEPT ![r] = IF left THEN again ELSE ends]
        /\ conn'.queue = IF left THEN Append(Tail(conn.queue), r) ELSE Tail(conn.queue)
    BY <1>1, <1>8 DEF Answered, ClientStates
  <2>2. again \in AskStates /\ again.pc = "queued" BY <1>1 DEF AskStates
  <2>3. ends \in AskStates /\ ends.pc \in {"idle", "missed"} BY <1>2
  <2> HIDE DEF left, again, ends
  <2>4. CASE left BY <1>1, <2>1, <2>2, <2>4, QueueChanges
  <2>5. CASE ~left BY <1>1, <2>1, <2>3, <2>5, QueueChanges
  <2>6. QED BY <2>4, <2>5
<1>9. ASSUME ask' = ask, conn'.queue = conn.queue PROVE InQueueOnce'
  BY <1>9 DEF InQueueOnce
<1>10. ASSUME NEW n \in 1 .. Len(conn.wire), ReadBatch(n) PROVE InQueueOnce'
  BY <1>1, <1>9, <1>10 DEF ReadBatch, ClientStates
<1>11. CASE DeskAnswers BY <1>1, <1>9, <1>11 DEF DeskAnswers, ClientStates
<1>12. CASE UNCHANGED clientVars BY <1>9, <1>12 DEF clientVars
<1>13. QED
  BY <1>3, <1>4, <1>5, <1>6, <1>7, <1>8, <1>10, <1>11, <1>12 DEF ClientRuns, ClientWorld

\* A resolver that asks, and no other, is in the queue of the lock, once, whatever order
\* requests, timeouts and answers come in (list_children(), the asyncio.Lock).
THEOREM ClientTypeCorrect == ClientSpec => []ClientTypeOK
<1>1. ClientInit => InQueueOnce
  BY DEF ClientInit, Unasked, InQueueOnce, AskStates, MaybeNodes, IsInjective, Contains
<1>2. ClientInv /\ InQueueOnce => ClientTypeOK
  BY DEF ClientInv, ClientTypes, ClientStates, InQueueOnce, AskStates, MaybeNodes, ClientTypeOK
<1>3. QED BY <1>1, <1>2, QueueStep, ClientInvariant, PTL DEF ClientSpec

-----------------------------------------------------------------------------
(* Queues: what came last stays when the first is taken.                    *)

LastOf(q) == q[Len(q)]

LEMMA TailKeepsLast ==
  ASSUME NEW S, NEW q \in Seq(S), q # <<>>
  PROVE  /\ Tail(q) \in Seq(S) /\ Head(q) \in S /\ LastOf(q) \in S
         /\ \A i \in DOMAIN q : i = 1 \/ (i - 1 \in DOMAIN Tail(q) /\ Tail(q)[i - 1] = q[i])
         /\ \A i \in DOMAIN Tail(q) : i + 1 \in DOMAIN q /\ Tail(q)[i] = q[i + 1]
         /\ Head(q) = q[1] /\ 1 \in DOMAIN q
         /\ Tail(q) # <<>> => LastOf(Tail(q)) = LastOf(q)
         /\ Tail(q) = <<>> => Head(q) = LastOf(q)
<1>1. Len(q) \in Nat /\ Len(q) >= 1 /\ Head(q) = q[1] /\ q[1] \in S /\ DOMAIN q = 1 .. Len(q)
  OBVIOUS
<1>2. Tail(q) \in Seq(S) /\ Len(Tail(q)) = Len(q) - 1 /\ DOMAIN Tail(q) = 1 .. Len(q) - 1
  OBVIOUS
<1>3. \A i \in 1 .. Len(q) - 1 : Tail(q)[i] = q[i + 1] OBVIOUS
<1>4. Tail(q) # <<>> => Len(q) - 1 \in 1 .. Len(q) - 1 BY <1>1, <1>2
<1>5. Tail(q) = <<>> => Len(q) = 1 BY <1>1, <1>2
<1>6. LastOf(q) \in S BY <1>1 DEF LastOf
<1>7. ASSUME NEW i \in DOMAIN q, i # 1 PROVE i - 1 \in DOMAIN Tail(q) /\ Tail(q)[i - 1] = q[i]
  <2>1. i - 1 \in 1 .. Len(q) - 1 /\ i - 1 + 1 = i BY <1>1, <1>7
  <2>2. QED BY <1>2, <1>3, <2>1
<1>8. ASSUME NEW i \in DOMAIN Tail(q) PROVE i + 1 \in DOMAIN q /\ Tail(q)[i] = q[i + 1]
  BY <1>1, <1>2, <1>3, <1>8
<1>9. Tail(q) # <<>> => LastOf(Tail(q)) = LastOf(q)
  BY <1>1, <1>2, <1>3, <1>4 DEF LastOf
<1>10. Tail(q) = <<>> => Head(q) = LastOf(q) BY <1>1, <1>5 DEF LastOf
<1>11. QED BY <1>1, <1>2, <1>6, <1>7, <1>8, <1>9, <1>10

LEMMA AppendIsLast ==
  ASSUME NEW S, NEW q \in Seq(S), NEW m \in S
  PROVE  /\ Append(q, m) \in Seq(S) /\ Append(q, m) # <<>> /\ LastOf(Append(q, m)) = m
         /\ \A i \in DOMAIN q : i \in DOMAIN Append(q, m) /\ Append(q, m)[i] = q[i]
         /\ \A i \in DOMAIN Append(q, m) : Append(q, m)[i] = m \/ (i \in DOMAIN q /\ Append(q, m)[i] = q[i])
         /\ Len(q) + 1 \in DOMAIN Append(q, m) /\ Append(q, m)[Len(q) + 1] = m
BY DEF LastOf

-----------------------------------------------------------------------------
(* A MIDI port and its addresses (MidiPort).                                *)

MaybePort == PortAddresses \cup {NoAddress}
MidiTasks == {"none", "head", "waiting", "opening", "polling", "closing", "reconnecting"}
MidiStates ==
  [running : BOOLEAN, input : MaybePort, output : MaybePort, task : MidiTasks,
   unavailable : BOOLEAN, port : MaybePort, deaf : BOOLEAN]

\* A port that is open or being opened is the one at the address that sends use.
MidiInv ==
  /\ MidiTypeOK
  /\ PortIsServed
  /\ midi.task # "none" => midi.running
  /\ midi.task \in {"opening", "polling"} => midi.input # NoAddress /\ midi.output = midi.input
  /\ midi.task = "polling" => midi.port = midi.input
  /\ midi.task = "polling" /\ ~midi.deaf => rig.at = midi.port

LEMMA MidiTyped ==
  MidiTypeOK <=> /\ midi \in MidiStates /\ rig \in [at : MaybePort, hasInput : BOOLEAN]
                 /\ midi.task = "polling" <=> midi.port # NoAddress
                 /\ midi.deaf => midi.port # NoAddress
BY DEF MidiTypeOK, MidiStates, MidiTasks, MaybePort

\* the addresses are found again: nothing else changes, and what is found is there
LEMMA AddressesRefreshed ==
  ASSUME NEW m \in MidiStates, rig \in [at : MaybePort, hasInput : BOOLEAN]
  PROVE  LET n == RefreshAddresses(m) IN
         /\ n \in MidiStates
         /\ n.running = m.running /\ n.task = m.task /\ n.port = m.port /\ n.deaf = m.deaf
         /\ n.output = rig.at /\ (n.input # NoAddress => n.input = rig.at)
BY DEF RefreshAddresses, MidiStates, MaybePort

LEMMA OutputLookedFor ==
  ASSUME NEW m \in MidiStates, rig \in [at : MaybePort, hasInput : BOOLEAN]
  PROVE  LET n == LookForOutput(m) IN
         /\ n \in MidiStates
         /\ n.running = m.running /\ n.task = m.task /\ n.port = m.port /\ n.deaf = m.deaf
         /\ m.output # NoAddress => n.output = m.output /\ n.input = m.input
<1> DEFINE r == RefreshAddresses(m)
<1>1. /\ r \in MidiStates
      /\ r.running = m.running /\ r.task = m.task /\ r.port = m.port /\ r.deaf = m.deaf
  BY AddressesRefreshed
<1>2. \/ LookForOutput(m) = m
      \/ m.output = NoAddress /\ \E b \in BOOLEAN : LookForOutput(m) = [r EXCEPT !.unavailable = b]
  BY DEF LookForOutput
<1> HIDE DEF r
<1>3. CASE LookForOutput(m) = m BY <1>3
<1>4. ASSUME m.output = NoAddress, NEW b \in BOOLEAN, LookForOutput(m) = [r EXCEPT !.unavailable = b]
      PROVE  LET n == LookForOutput(m) IN
             /\ n \in MidiStates
             /\ n.running = m.running /\ n.task = m.task /\ n.port = m.port /\ n.deaf = m.deaf
             /\ m.output # NoAddress => n.output = m.output /\ n.input = m.input
  BY <1>1, <1>4 DEF MidiStates
<1>5. QED BY <1>2, <1>3, <1>4

LEMMA MidiStarts == MidiInit => MidiInv
BY MidiAssumption
   DEF MidiInit, Stopped, MidiInv, MidiTypeOK, PortIsServed, Serves, MaybePort

LEMMA MidiKept == MidiInv /\ [MidiRuns \/ MidiWorld]_midiVars => MidiInv'
<1> SUFFICES ASSUME MidiInv, [MidiRuns \/ MidiWorld]_midiVars PROVE MidiInv' OBVIOUS
<1> USE MidiAssumption
<1>0. midi \in MidiStates /\ rig \in [at : MaybePort, hasInput : BOOLEAN]
  BY MidiTyped DEF MidiInv
<1>1. CASE MidiStart
  <2> DEFINE n == LookForOutput(RefreshAddresses(midi))
             m == RefreshAddresses(midi)
  <2>1. m \in MidiStates /\ m.port = midi.port /\ m.deaf = midi.deaf
    BY <1>0, AddressesRefreshed
  <2>2. n \in MidiStates /\ n.port = m.port /\ n.deaf = m.deaf
    BY <1>0, <2>1, OutputLookedFor
  <2>3. midi' = [n EXCEPT !.running = TRUE, !.task = IF rig.hasInput THEN "head" ELSE "none"] /\ rig' = rig
    BY <1>1 DEF MidiStart
  <2> HIDE DEF n, m
  <2>4. midi.port = NoAddress /\ ~midi.deaf
    BY <1>1 DEF MidiStart, MidiInv, MidiTypeOK
  <2>5. QED
    BY <1>0, <2>1, <2>2, <2>3, <2>4 DEF MidiInv, MidiTypeOK, PortIsServed, Serves, MidiStates, MidiTasks, MaybePort
<1>2. CASE MidiStop
  BY <1>0, <1>2 DEF MidiStop, Stopped, MidiInv, MidiTypeOK, PortIsServed, Serves, MidiStates, MidiTasks, MaybePort
<1>3. CASE InputLoopHead
  <2> DEFINE m == RefreshAddresses(midi)
  <2>1. /\ m \in MidiStates
        /\ m.running = midi.running /\ m.task = midi.task /\ m.port = midi.port /\ m.deaf = midi.deaf
        /\ m.output = rig.at /\ (m.input # NoAddress => m.input = rig.at)
    BY <1>0, AddressesRefreshed
  <2>2. midi' = [m EXCEPT !.task = IF m.input = NoAddress THEN "waiting" ELSE "opening"] /\ rig' = rig
    BY <1>3 DEF InputLoopHead
  <2> HIDE DEF m
  <2>3. midi.task \in {"head", "waiting", "reconnecting"} BY <1>3 DEF InputLoopHead
  <2>4. QED
    BY <1>0, <2>1, <2>2, <2>3 DEF MidiInv, MidiTypeOK, PortIsServed, Serves, MidiStates, MidiTasks, MaybePort
<1>4. CASE OpenInput
  <2>1. midi.task = "opening" /\ rig' = rig /\ midi.input # NoAddress /\ midi.output = midi.input
    BY <1>4 DEF OpenInput, MidiInv
  <2>2. ~midi.deaf BY <2>1 DEF MidiInv, MidiTypeOK
  <2>3. CASE rig.at = midi.input /\ midi' = [midi EXCEPT !.task = "polling", !.port = midi.input]
    BY <1>0, <2>1, <2>2, <2>3 DEF MidiInv, MidiTypeOK, PortIsServed, Serves, MidiStates, MidiTasks, MaybePort
  <2>4. CASE midi' = [midi EXCEPT !.task = "reconnecting"]
    BY <1>0, <2>1, <2>2, <2>4 DEF MidiInv, MidiTypeOK, PortIsServed, Serves, MidiStates, MidiTasks, MaybePort
  <2>5. QED BY <1>4, <2>3, <2>4 DEF OpenInput
<1>9. CASE PortDisappeared \/ PollFails
  <2>1. /\ midi.task = "polling" /\ rig' = rig
        /\ midi' = [midi EXCEPT !.task = "closing", !.port = NoAddress, !.deaf = FALSE]
    BY <1>9 DEF PortDisappeared, PollFails
  <2>2. QED
    BY <1>0, <2>1 DEF MidiInv, MidiTypeOK, PortIsServed, Serves, MidiStates, MidiTasks, MaybePort
<1>10. CASE PortClosed
  BY <1>0, <1>10
     DEF PortClosed, MidiInv, MidiTypeOK, PortIsServed, Serves, MidiStates, MidiTasks, MaybePort
<1>5. CASE SendOutput
  <2> DEFINE n == LookForOutput(midi)
  <2>1. /\ n \in MidiStates
        /\ n.running = midi.running /\ n.task = midi.task /\ n.port = midi.port /\ n.deaf = midi.deaf
        /\ midi.output # NoAddress => n.output = midi.output /\ n.input = midi.input
    BY <1>0, OutputLookedFor
  <2>2. midi' = n /\ rig' = rig BY <1>5 DEF SendOutput
  <2> HIDE DEF n
  <2>3. QED
    BY <1>0, <2>1, <2>2 DEF MidiInv, MidiTypeOK, PortIsServed, Serves, MidiStates, MidiTasks, MaybePort
<1>6. ASSUME NEW a \in MaybePort, Replug(a) PROVE MidiInv'
  <2>1. midi' = [midi EXCEPT !.deaf = midi.port # NoAddress] /\ rig' = [rig EXCEPT !.at = a]
    BY <1>6 DEF Replug
  <2>2. PICK deaf \in BOOLEAN : deaf = (midi.port # NoAddress) OBVIOUS
  <2>3. midi' = [midi EXCEPT !.deaf = deaf] BY <2>1, <2>2
  <2>4. midi.task = "polling" => midi.port # NoAddress
    BY DEF MidiInv, MidiTypeOK
  <2>5. QED
    BY <1>0, <2>1, <2>2, <2>3, <2>4 DEF MidiInv, MidiTypeOK, PortIsServed, Serves, MidiStates, MidiTasks, MaybePort
<1>7. CASE UNCHANGED midiVars
  BY <1>7 DEF midiVars, MidiInv, MidiTypeOK, PortIsServed, Serves
<1>8. QED
  BY <1>1, <1>2, <1>3, <1>4, <1>5, <1>6, <1>7, <1>9, <1>10 DEF MidiRuns, MidiWorld, MaybePort

\* The MIDI adapter's input loop is never lost, and an open port that is not deaf is where
\* the device is and where sends go, for any addresses (MidiAdapter).
THEOREM MidiSafety == MidiSpec => [](MidiTypeOK /\ PortIsServed)
<1>1. MidiSpec => []MidiInv BY MidiStarts, MidiKept, PTL DEF MidiSpec
<1>2. MidiInv => MidiTypeOK /\ PortIsServed BY DEF MidiInv
<1>3. QED BY <1>1, <1>2, PTL

-----------------------------------------------------------------------------
(* Switches at GPIO pins (GpioInput).                                       *)

PinStates == [stable : {0, 1}, candidate : {0, 1}, age : 0 .. Bounce]
GpioStates ==
  [inputs : SUBSET Pins, ours : SUBSET Pins, running : BOOLEAN,
   poll : {"none", "first", "polling", "dead"}, taken : SUBSET Pins, state : [Pins -> PinStates]]
Boards == [level : [Pins -> {0, 1}], exported : SUBSET Pins, shown : [Pins -> 0 .. 2]]

GpioInv == GpioTypeOK /\ StableIsPublished

LEMMA GpioTyped ==
  GpioTypeOK <=> /\ gpio \in GpioStates /\ board \in Boards
                 /\ gpio.ours \subseteq gpio.inputs
                 /\ gpio.running <=> gpio.inputs # {}
BY DEF GpioTypeOK, GpioStates, Boards, PinStates

LEMMA PinSettled ==
  ASSUME board \in Boards, NEW p \in Pins
  PROVE  Settled(p) \in PinStates /\ Settled(p).stable = board.level[p]
BY GpioAssumption DEF Settled, PinStates, Boards

LEMMA PinDebounced ==
  ASSUME NEW s \in PinStates, NEW v \in {0, 1}
  PROVE  Debounced(s, v) \in PinStates
<1>1. CASE v # s.candidate
  <2>1. 0 \in 0 .. Bounce BY GpioAssumption
  <2>2. Debounced(s, v) = [s EXCEPT !.candidate = v, !.age = 0] BY <1>1 DEF Debounced
  <2>3. QED BY <2>1, <2>2 DEF PinStates
<1>2. CASE v = s.candidate
  <2> DEFINE age == IF s.age < Bounce THEN s.age + 1 ELSE s.age
  <2>1. age \in 0 .. Bounce BY GpioAssumption DEF PinStates
  <2>2. Debounced(s, v) = [s EXCEPT !.age = age, !.stable = IF age = Bounce THEN v ELSE @]
    BY <1>2 DEF Debounced
  <2> HIDE DEF age
  <2>3. QED BY <2>1, <2>2 DEF PinStates
<1>3. QED BY <1>1, <1>2

LEMMA GpioStarts == GpioInit => GpioInv
BY GpioAssumption DEF GpioInit, NoInputs, GpioInv, GpioTypeOK, StableIsPublished

\* readers are opened: their pins have settled, the others are as they were
LEMMA PinsOpened ==
  ASSUME gpio \in GpioStates, board \in Boards, NEW inputs \in SUBSET Pins
  PROVE  LET o == Opened(inputs) IN
         /\ o \in GpioStates /\ o.inputs = inputs /\ o.ours \subseteq inputs
         /\ o.running = gpio.running /\ o.poll = gpio.poll /\ o.taken = gpio.taken
         /\ \A p \in inputs : o.state[p].stable = board.level[p]
<1> DEFINE next == [p \in Pins |-> IF p \in inputs THEN Settled(p) ELSE gpio.state[p]]
<1>1. next \in [Pins -> PinStates] BY PinSettled DEF GpioStates
<1>2. \A p \in inputs : next[p].stable = board.level[p] BY PinSettled
<1>3. Opened(inputs) = [gpio EXCEPT !.inputs = inputs, !.ours = inputs \ board.exported, !.state = next]
  BY DEF Opened
<1> HIDE DEF next
<1>4. QED BY <1>1, <1>2, <1>3 DEF GpioStates

LEMMA GpioStartKeeps == GpioInv /\ GpioStart => GpioInv'
<1> SUFFICES ASSUME GpioInv, GpioStart PROVE GpioInv' OBVIOUS
<1>1. gpio \in GpioStates /\ board \in Boards BY GpioTyped DEF GpioInv
<1>2. PICK inputs \in (SUBSET Pins) \ {{}} :
        /\ gpio' = [Opened(inputs) EXCEPT !.running = TRUE, !.poll = "first"]
        /\ board' = [board EXCEPT !.exported = @ \cup inputs]
  BY DEF GpioStart
<1> DEFINE o == Opened(inputs)
<1>3. o \in GpioStates /\ o.inputs = inputs /\ o.ours \subseteq inputs
  BY <1>1, PinsOpened
<1> HIDE DEF o
<1>4. gpio' = [o EXCEPT !.running = TRUE, !.poll = "first"] BY <1>2 DEF o
<1>5. gpio' \in GpioStates /\ gpio'.inputs = inputs /\ gpio'.ours = o.ours /\ gpio'.running /\ gpio'.poll = "first"
  BY <1>3, <1>4 DEF GpioStates
<1>6. board' \in Boards BY <1>1, <1>2 DEF Boards
<1>7. GpioTypeOK'
  BY <1>3, <1>5, <1>6 DEF GpioTypeOK, GpioStates, Boards, PinStates
<1>8. QED BY <1>5, <1>7 DEF GpioInv, StableIsPublished

LEMMA PublishInitialKeeps == GpioInv /\ PublishInitial => GpioInv'
<1> SUFFICES ASSUME GpioInv, PublishInitial PROVE GpioInv' OBVIOUS
<1>1. gpio \in GpioStates /\ board \in Boards BY GpioTyped DEF GpioInv
<1> DEFINE all == gpio.inputs \subseteq board.exported
<1>2. PICK done \in SUBSET (gpio.inputs \cap board.exported) :
        /\ all => done = gpio.inputs
        /\ gpio' = [gpio EXCEPT
             !.poll = IF all THEN "polling" ELSE "dead",
             !.taken = @ \ done,
             !.state = [p \in Pins |-> IF p \in done THEN Settled(p) ELSE @[p]]]
        /\ board' = [board EXCEPT
             !.shown = [p \in Pins |-> IF p \in done THEN board.level[p] ELSE @[p]]]
  BY DEF PublishInitial
<1> DEFINE state == [p \in Pins |-> IF p \in done THEN Settled(p) ELSE gpio.state[p]]
           seen == [p \in Pins |-> IF p \in done THEN board.level[p] ELSE board.shown[p]]
<1>3. state \in [Pins -> PinStates] BY <1>1, PinSettled DEF GpioStates
<1>4. seen \in [Pins -> 0 .. 2] BY <1>1 DEF Boards
<1>5. \A p \in done : state[p].stable = seen[p]
  BY <1>1, PinSettled DEF GpioStates
<1>6. /\ gpio' = [gpio EXCEPT !.poll = IF all THEN "polling" ELSE "dead",
                              !.taken = gpio.taken \ done, !.state = state]
      /\ board' = [board EXCEPT !.shown = seen]
  BY <1>1, <1>2 DEF GpioStates, Boards
<1>7. all => done = gpio.inputs BY <1>2
<1> HIDE DEF state, seen, all
<1>8. /\ gpio' \in GpioStates /\ gpio'.inputs = gpio.inputs /\ gpio'.ours = gpio.ours
      /\ gpio'.running = gpio.running /\ gpio'.state = state /\ (gpio'.poll = "polling" => all)
  BY <1>1, <1>3, <1>6 DEF GpioStates
<1>9. board' \in Boards /\ board'.shown = seen BY <1>1, <1>4, <1>6 DEF Boards
<1>10. GpioTypeOK'
  BY <1>8, <1>9 DEF GpioInv, GpioTypeOK, GpioStates, Boards, PinStates
<1>11. StableIsPublished' BY <1>5, <1>7, <1>8, <1>9 DEF StableIsPublished
<1>12. QED BY <1>10, <1>11 DEF GpioInv

LEMMA PollOnceKeeps == GpioInv /\ PollOnce => GpioInv'
<1> SUFFICES ASSUME GpioInv, PollOnce PROVE GpioInv' OBVIOUS
<1>1. gpio \in GpioStates /\ board \in Boards BY GpioTyped DEF GpioInv
<1> DEFINE all == gpio.inputs \subseteq board.exported
           next(d) == [p \in d |-> Debounced(gpio.state[p], board.level[p])]
           news(d) == {p \in d : next(d)[p].stable # gpio.state[p].stable}
           state(d) == [p \in Pins |-> IF p \in d THEN next(d)[p] ELSE gpio.state[p]]
           seen(d) == [p \in Pins |-> IF p \in news(d) THEN next(d)[p].stable ELSE board.shown[p]]
<1>2. PICK done \in SUBSET (gpio.inputs \cap board.exported) :
        /\ gpio' = [gpio EXCEPT !.poll = IF all THEN @ ELSE "dead",
                                !.taken = @ \ news(done), !.state = state(done)]
        /\ board' = [board EXCEPT !.shown = seen(done)]
  BY <1>1 DEF PollOnce, GpioStates, Boards
<1>3. \A p \in done : next(done)[p] \in PinStates
  BY <1>1, PinDebounced DEF GpioStates, Boards
<1>4. state(done) \in [Pins -> PinStates] BY <1>1, <1>3 DEF GpioStates
<1>5. seen(done) \in [Pins -> 0 .. 2]
  BY <1>1, <1>3 DEF Boards, PinStates
<1>6. \A p \in Pins : p \notin gpio.taken \ news(done) /\ (p \notin gpio.taken => board.shown[p] = gpio.state[p].stable)
        => seen(done)[p] = state(done)[p].stable
  <2> SUFFICES ASSUME NEW p \in Pins, p \notin gpio.taken \ news(done),
                      p \notin gpio.taken => board.shown[p] = gpio.state[p].stable
               PROVE  seen(done)[p] = state(done)[p].stable
    OBVIOUS
  <2>1. CASE p \in news(done) BY <2>1
  <2>2. CASE p \notin news(done) BY <2>2
  <2>3. QED BY <2>1, <2>2
<1> DEFINE new == news(done)  st == state(done)  sh == seen(done)
<1> HIDE DEF new, st, sh
<1>7. /\ gpio' = [gpio EXCEPT !.poll = IF all THEN @ ELSE "dead", !.taken = @ \ new, !.state = st]
      /\ board' = [board EXCEPT !.shown = sh]
  BY <1>2 DEF new, st, sh
<1>8. /\ gpio' \in GpioStates /\ gpio'.inputs = gpio.inputs /\ gpio'.ours = gpio.ours
      /\ gpio'.running = gpio.running /\ gpio'.state = st /\ gpio'.taken = gpio.taken \ new
      /\ gpio'.poll = "polling" => gpio.poll = "polling"
  BY <1>1, <1>4, <1>7 DEF GpioStates, st
<1>9. board' \in Boards /\ board'.shown = sh BY <1>1, <1>5, <1>7 DEF Boards, sh
<1>10. GpioTypeOK'
  BY <1>8, <1>9 DEF GpioInv, GpioTypeOK, GpioStates, Boards, PinStates
<1>11. \A p \in Pins : p \notin gpio.taken \ new /\ (p \notin gpio.taken => board.shown[p] = gpio.state[p].stable)
         => sh[p] = st[p].stable
  BY <1>6 DEF new, st, sh
<1>12. StableIsPublished'
  <2>1. \A p \in gpio.inputs : gpio.poll = "polling" /\ p \notin gpio.taken => board.shown[p] = gpio.state[p].stable
    BY DEF GpioInv, StableIsPublished
  <2>2. gpio.inputs \subseteq Pins BY <1>1 DEF GpioStates
  <2>3. QED BY <1>8, <1>9, <1>11, <2>1, <2>2 DEF StableIsPublished
<1>13. QED BY <1>10, <1>12 DEF GpioInv

LEMMA GpioStopKeeps == GpioInv /\ GpioStop => GpioInv'
BY GpioAssumption DEF GpioStop, NoInputs, GpioInv, GpioTypeOK, StableIsPublished

LEMMA ConfigureInputsKeeps == GpioInv /\ ConfigureInputs => GpioInv'
<1> SUFFICES ASSUME GpioInv, ConfigureInputs PROVE GpioInv' OBVIOUS
<1>1. gpio \in GpioStates /\ board \in Boards BY GpioTyped DEF GpioInv
<1>2. PICK inputs \in (SUBSET Pins) \ {{}} :
        /\ gpio' = [Opened(inputs) EXCEPT !.taken = {p \in inputs : board.shown[p] # board.level[p]}]
        /\ board' = [board EXCEPT !.exported = (@ \cup inputs) \ gpio.ours]
  BY DEF ConfigureInputs
<1> DEFINE o == Opened(inputs)  taken == {p \in inputs : board.shown[p] # board.level[p]}
<1>3. /\ o \in GpioStates /\ o.inputs = inputs /\ o.ours \subseteq inputs
      /\ o.running = gpio.running
      /\ \A p \in inputs : o.state[p].stable = board.level[p]
  BY <1>1, PinsOpened
<1>4. taken \in SUBSET Pins /\ \A p \in inputs : p \notin taken => board.shown[p] = board.level[p]
  OBVIOUS
<1>5. gpio' = [o EXCEPT !.taken = taken] BY <1>2
<1> HIDE DEF o, taken
<1>6. /\ gpio' \in GpioStates /\ gpio'.inputs = inputs /\ gpio'.ours = o.ours
      /\ gpio'.running /\ gpio'.state = o.state /\ gpio'.taken = taken
  BY <1>3, <1>4, <1>5 DEF GpioStates, ConfigureInputs
<1>7. board' \in Boards /\ board'.shown = board.shown BY <1>1, <1>2 DEF Boards
<1>8. GpioTypeOK'
  BY <1>3, <1>6, <1>7 DEF GpioTypeOK, GpioStates, Boards, PinStates
<1>9. StableIsPublished' BY <1>3, <1>4, <1>6, <1>7 DEF StableIsPublished
<1>10. QED BY <1>8, <1>9 DEF GpioInv

LEMMA GpioKept == GpioInv /\ [GpioRuns \/ GpioWorld]_gpioVars => GpioInv'
<1> SUFFICES ASSUME GpioInv, [GpioRuns \/ GpioWorld]_gpioVars PROVE GpioInv' OBVIOUS
<1>1. ASSUME NEW p \in Pins, Switch(p) PROVE GpioInv'
  <2>1. gpio' = gpio /\ board' = [board EXCEPT !.level[p] = 1 - @] BY <1>1 DEF Switch
  <2>2. board.level[p] \in {0, 1} BY DEF GpioInv, GpioTypeOK
  <2>3. 1 - board.level[p] \in {0, 1} BY <2>2
  <2>4. QED BY <2>1, <2>3 DEF GpioInv, GpioTypeOK, StableIsPublished
<1>2. CASE UNCHANGED gpioVars BY <1>2 DEF gpioVars, GpioInv, GpioTypeOK, StableIsPublished
<1>3. QED
  BY <1>1, <1>2, GpioStartKeeps, PublishInitialKeeps, PollOnceKeeps, GpioStopKeeps, ConfigureInputsKeeps
     DEF GpioRuns, GpioWorld

\* What is published of a polled pin is its debounced level, for any finite set of pins and any time of
\* bouncing (GpioAdapter).
THEOREM GpioSafety == GpioSpec => [](GpioTypeOK /\ StableIsPublished)
<1>1. GpioSpec => []GpioInv BY GpioStarts, GpioKept, PTL DEF GpioSpec
<1>2. QED BY <1>1, PTL DEF GpioInv

-----------------------------------------------------------------------------
(* The read loop of an input device (HidInput).                             *)

Hids == [running : BOOLEAN, task : Loops \cup {NoLoop}, reader : BOOLEAN,
         works : BOOLEAN, crossed : BOOLEAN]
Readings == [pc : {"none", "head", "opening", "waiting", "reading", "holding"},
             event : 0 .. 2, works : BOOLEAN]
Calling == [pc : {"idle", "stopping", "opening"}, start : BOOLEAN]
Keys == [there : BOOLEAN, level : {0, 1}, events : Seq({0, 1}), shown : {0, 1}, lost : BOOLEAN]

Followed(k) == k.shown = k.level \/ (k.level = 0 /\ k.lost)

HidTyped ==
  /\ hid \in Hids /\ loop \in [Loops -> Readings] /\ caller \in [Callers -> Calling] /\ key \in Keys
  /\ hid.works => hid.reader /\ key.there
  /\ \A l \in Loops : loop[l].pc = "holding" => loop[l].event \in {0, 1}

\* Calls that do not overlap have one loop at most, which runs while the adapter does.
OneReader ==
  ~hid.crossed =>
    /\ \A c, d \in Callers : caller[c].pc # "idle" /\ caller[d].pc # "idle" => c = d
    /\ \A l \in Loops : loop[l].pc # "none" => hid.task = l /\ hid.running
    /\ \A c \in Callers : caller[c].pc = "stopping" => ~hid.running
    /\ \A c \in Callers : caller[c].pc = "opening" =>
         hid.running /\ ~hid.reader /\ \A l \in Loops : loop[l].pc = "none"
    /\ (\A c \in Callers : caller[c].pc = "idle") =>
         IF hid.running THEN \E l \in Loops : loop[l].pc # "none" ELSE ~hid.reader

\* The last of the events that are not published yet is the level of the key.
KeysHeard ==
  ~hid.crossed /\ hid.running /\ hid.works =>
    /\ key.events # <<>> => LastOf(key.events) = key.level
    /\ key.events = <<>> =>
         /\ \A l \in Loops : loop[l].pc = "holding" => loop[l].event = key.level
         /\ (\A l \in Loops : loop[l].pc # "holding") => Followed(key)

HidInv == HidTyped /\ OneReader /\ KeysHeard

LEMMA HidStarts == HidInit => HidInv
<1> SUFFICES ASSUME HidInit PROVE HidInv OBVIOUS
<1>1. /\ hid = [running |-> FALSE, task |-> NoLoop, reader |-> FALSE, works |-> FALSE, crossed |-> FALSE]
      /\ loop = [l \in Loops |-> NoReading] /\ caller = [c \in Callers |-> NoCaller]
  BY DEF HidInit
<1>2. hid \in Hids /\ ~hid.running /\ ~hid.reader /\ ~hid.works BY <1>1 DEF Hids
<1>3. NoReading \in Readings /\ NoReading.pc = "none" BY DEF NoReading, Readings
<1>4. loop \in [Loops -> Readings] /\ \A l \in Loops : loop[l].pc = "none" BY <1>1, <1>3
<1>5. caller \in [Callers -> Calling] /\ \A c \in Callers : caller[c].pc = "idle"
  BY <1>1 DEF NoCaller, Calling
<1>6. key \in Keys
  <2>1. <<>> \in Seq({0, 1}) OBVIOUS
  <2>2. QED BY <2>1 DEF HidInit, Keys
<1>7. QED BY <1>2, <1>4, <1>5, <1>6 DEF HidInv, HidTyped, OneReader, KeysHeard

-----------------------------------------------------------------------------
\* What is lost with a reader, and what is published when one is opened.
LEMMA KeyChanges ==
  ASSUME NEW k \in Keys
  PROVE  /\ Lost(k) \in Keys /\ Lost(k).there = k.there
         /\ [k EXCEPT !.lost = TRUE] \in Keys /\ [k EXCEPT !.lost = TRUE].there = k.there
<1>1. <<>> \in Seq({0, 1}) OBVIOUS
<1>2. QED BY <1>1 DEF Lost, Keys

LEMMA LoopOpened ==
  ASSUME key \in Keys
  PROVE  /\ InitialStates \in Keys /\ InitialStates.there = key.there
         /\ InitialStates.events = <<>> /\ Followed(InitialStates)
<1>1. <<>> \in Seq({0, 1}) OBVIOUS
<1> DEFINE s == IF key.level = 1 THEN 1 ELSE key.shown
<1>2. s \in {0, 1} /\ (s = key.level \/ key.level = 0) BY DEF Keys
<1>3. InitialStates = [key EXCEPT !.events = <<>>, !.lost = TRUE, !.shown = s] BY DEF InitialStates, Keys
<1> HIDE DEF s
<1>4. QED BY <1>1, <1>2, <1>3 DEF Keys, Followed

LEMMA DeafLoops ==
  ASSUME loop \in [Loops -> Readings]
  PROVE  /\ Deaf(loop) \in [Loops -> Readings]
         /\ \A l \in Loops : Deaf(loop)[l].pc = loop[l].pc /\ Deaf(loop)[l].event = loop[l].event
BY DEF Deaf, Readings

\* a reader is taken, or nothing changes
LEMMA ReaderTaken ==
  ASSUME key \in Keys, NEW h \in Hids, NEW opened \in BOOLEAN, TakeReader(h, opened)
  PROVE  /\ hid' \in Hids /\ key' \in Keys /\ key'.there = key.there
         /\ hid'.running = h.running /\ hid'.task = h.task /\ hid'.crossed = h.crossed
         /\ opened => hid'.works /\ hid'.reader /\ key'.events = <<>> /\ Followed(key')
         /\ ~opened => hid' = h /\ key' = key
<1>1. CASE opened
  <2>1. hid' = [h EXCEPT !.reader = TRUE, !.works = TRUE] /\ key' = InitialStates
    BY <1>1 DEF TakeReader
  <2>2. /\ key' \in Keys /\ key'.there = key.there /\ key'.events = <<>> /\ Followed(key')
    BY <2>1, LoopOpened
  <2>3. QED BY <1>1, <2>1, <2>2 DEF Hids
<1>2. CASE ~opened BY <1>2 DEF TakeReader
<1>3. QED BY <1>1, <1>2

-----------------------------------------------------------------------------
(* The steps of the loop. *)

LEMMA LoopGoesOn ==
  ASSUME HidInv, NEW l \in Loops, NEW r \in Readings,
         loop[l].pc # "none", r.pc = "none" => ~hid.running,
         r.pc = "holding" => r.event \in {0, 1},
         loop' \in [Loops -> Readings], loop'[l] = r,
         \A m \in Loops \ {l} : loop'[m].pc = loop[m].pc /\ loop'[m].event = loop[m].event,
         caller' = caller, hid' \in Hids, key' \in Keys,
         hid'.running = hid.running, hid'.task = hid.task, hid'.crossed = hid.crossed,
         hid'.works => hid'.reader /\ key'.there,
         ~hid.crossed /\ hid.running /\ hid'.works =>
           /\ key'.events # <<>> => LastOf(key'.events) = key'.level
           /\ key'.events = <<>> => IF r.pc = "holding" THEN r.event = key'.level ELSE Followed(key')
  PROVE  HidInv'
<1>1. HidTyped' BY DEF HidInv, HidTyped
<1>2. ~hid.crossed => hid.running /\ \A m \in Loops \ {l} : loop'[m].pc = "none" BY DEF HidInv, OneReader
<1>3. ASSUME ~hid.crossed PROVE \A c \in Callers : caller[c].pc = "idle"
  BY <1>3 DEF HidInv, HidTyped, OneReader, Calling
<1>4. OneReader'
  <2>1. SUFFICES ASSUME ~hid.crossed PROVE OneReader' BY DEF OneReader
  <2>2. hid.running /\ hid.task = l BY <2>1 DEF HidInv, OneReader
  <2>3. QED BY <1>2, <1>3, <2>1, <2>2 DEF OneReader
<1>5. KeysHeard'
  <2>1. SUFFICES ASSUME ~hid.crossed, hid.running, hid'.works PROVE KeysHeard' BY DEF KeysHeard
  <2>2. \A m \in Loops : loop'[m].pc = "holding" => m = l BY <1>2, <2>1
  <2>3. QED BY <2>1, <2>2 DEF KeysHeard
<1>6. QED BY <1>1, <1>4, <1>5 DEF HidInv

LEMMA LoopGoesKeeps ==
  ASSUME loop \in [Loops -> Readings], hid \in Hids, NEW l \in Loops,
         NEW pc \in {"none", "head", "opening", "waiting", "reading"}, LoopGoes(l, pc)
  PROVE  \E r \in Readings : /\ r.pc = pc /\ loop' \in [Loops -> Readings] /\ loop'[l] = r
           /\ \A m \in Loops \ {l} : loop'[m].pc = loop[m].pc /\ loop'[m].event = loop[m].event
<1> DEFINE r == [pc |-> pc, event |-> 2, works |-> hid.works]
<1>1. r \in Readings /\ r.pc = pc BY DEF Readings, Hids
<1>2. loop' = [loop EXCEPT ![l] = r] BY DEF LoopGoes
<1> HIDE DEF r
<1>3. QED BY <1>1, <1>2

\* what is heard of the key before a step of a loop that holds no event
LEMMA HeardBefore ==
  ASSUME HidInv, NEW l \in Loops, loop[l].pc \notin {"none", "holding"}, ~hid.crossed, hid.running, hid.works
  PROVE  /\ key.events # <<>> => LastOf(key.events) = key.level
         /\ key.events = <<>> => Followed(key)
<1>1. \A m \in Loops : loop[m].pc # "holding" BY DEF HidInv, OneReader
<1>2. QED BY <1>1 DEF HidInv, KeysHeard

LEMMA ReadLoopHeadKeeps == ASSUME HidInv, NEW l \in Loops, ReadLoopHead(l) PROVE HidInv'
<1>1. /\ hid \in Hids /\ loop \in [Loops -> Readings] /\ key \in Keys
      /\ hid.works => hid.reader /\ key.there
  BY DEF HidInv, HidTyped
<1>2. loop[l].pc \in {"head", "waiting"} /\ hid' = hid /\ caller' = caller /\ key' = key
  BY DEF ReadLoopHead
<1>3. PICK pc \in {"none", "reading", "opening"} :
        LoopGoes(l, pc) /\ (pc = "none" => ~hid.running)
  BY DEF ReadLoopHead
<1>4. PICK r \in Readings :
        /\ r.pc = pc /\ loop' \in [Loops -> Readings] /\ loop'[l] = r
        /\ \A m \in Loops \ {l} : loop'[m].pc = loop[m].pc /\ loop'[m].event = loop[m].event
  BY <1>1, <1>3, LoopGoesKeeps
<1>5. ~hid.crossed /\ hid.running /\ hid.works =>
        /\ key.events # <<>> => LastOf(key.events) = key.level
        /\ key.events = <<>> => Followed(key)
  BY <1>2, HeardBefore
<1>6. LastOf(key'.events) = LastOf(key.events) /\ Followed(key') = Followed(key) BY <1>2
<1>7. QED BY <1>1, <1>2, <1>3, <1>4, <1>5, <1>6, LoopGoesOn

LEMMA LoopOpensKeeps == ASSUME HidInv, NEW l \in Loops, LoopOpens(l) PROVE HidInv'
<1>1. /\ hid \in Hids /\ loop \in [Loops -> Readings] /\ key \in Keys
      /\ hid.works => hid.reader /\ key.there
  BY DEF HidInv, HidTyped
<1>2. PICK opened \in BOOLEAN : opened = (key.there /\ hid.running) OBVIOUS
<1>3. loop[l].pc = "opening" /\ TakeReader(hid, opened) /\ caller' = caller BY <1>2 DEF LoopOpens
<1>4. PICK pc \in {"head", "waiting"} : LoopGoes(l, pc) BY DEF LoopOpens
<1>5. PICK r \in Readings :
        /\ r.pc = pc /\ loop' \in [Loops -> Readings] /\ loop'[l] = r
        /\ \A m \in Loops \ {l} : loop'[m].pc = loop[m].pc /\ loop'[m].event = loop[m].event
  BY <1>1, <1>4, LoopGoesKeeps
<1>6. /\ hid' \in Hids /\ key' \in Keys /\ key'.there = key.there
      /\ hid'.running = hid.running /\ hid'.task = hid.task /\ hid'.crossed = hid.crossed
      /\ opened => hid'.works /\ hid'.reader /\ key'.events = <<>> /\ Followed(key')
      /\ ~opened => hid' = hid /\ key' = key
  BY <1>1, <1>3, ReaderTaken
<1>7. hid'.works => hid'.reader /\ key'.there BY <1>1, <1>2, <1>6
<1>8. ~hid.crossed /\ hid.running /\ hid'.works =>
        /\ key'.events # <<>> => LastOf(key'.events) = key'.level
        /\ key'.events = <<>> => Followed(key')
  <2>1. CASE opened BY <1>6, <2>1
  <2>2. CASE ~opened BY <1>3, <1>6, <2>2, HeardBefore
  <2>3. QED BY <2>1, <2>2
<1>9. QED BY <1>1, <1>3, <1>4, <1>5, <1>6, <1>7, <1>8, LoopGoesOn

LEMMA ReadOneKeeps == ASSUME HidInv, NEW l \in Loops, ReadOne(l) PROVE HidInv'
<1>1. /\ hid \in Hids /\ loop \in [Loops -> Readings] /\ key \in Keys
      /\ hid.works => hid.reader /\ key.there
  BY DEF HidInv, HidTyped
<1> DEFINE e == Head(key.events)
           q == Tail(key.events)
           r == [loop[l] EXCEPT !.pc = "holding", !.event = e]
<1>2. /\ loop[l].pc = "reading" /\ key.events # <<>> /\ hid' = hid /\ caller' = caller
      /\ loop' = [loop EXCEPT ![l] = r] /\ key' = [key EXCEPT !.events = q]
  BY <1>1 DEF ReadOne, Keys
<1>3. key.events \in Seq({0, 1}) BY <1>1 DEF Keys
<1>4. /\ q \in Seq({0, 1}) /\ e \in {0, 1}
      /\ q # <<>> => LastOf(q) = LastOf(key.events)
      /\ q = <<>> => e = LastOf(key.events)
  BY <1>2, <1>3, TailKeepsLast
<1> HIDE DEF e, q
<1>5. r \in Readings /\ r.pc = "holding" /\ r.event = e
  <2>1. loop[l] \in Readings /\ e \in 0 .. 2 BY <1>1, <1>4
  <2>2. QED BY <2>1 DEF Readings
<1> HIDE DEF r
<1>6. /\ loop' \in [Loops -> Readings] /\ loop'[l] = r
      /\ \A m \in Loops \ {l} : loop'[m].pc = loop[m].pc /\ loop'[m].event = loop[m].event
  BY <1>1, <1>2, <1>5
<1>7. key' \in Keys /\ key'.events = q /\ key'.level = key.level /\ key'.there = key.there
  BY <1>1, <1>2, <1>4 DEF Keys
<1>8. ~hid.crossed /\ hid.running /\ hid.works => LastOf(key.events) = key.level BY <1>2, HeardBefore
<1>9. QED BY <1>1, <1>2, <1>4, <1>5, <1>6, <1>7, <1>8, LoopGoesOn

LEMMA ReadNoneKeeps == ASSUME HidInv, NEW l \in Loops, ReadNone(l) PROVE HidInv'
<1>1. /\ hid \in Hids /\ loop \in [Loops -> Readings] /\ key \in Keys
      /\ hid.works => hid.reader /\ key.there
  BY DEF HidInv, HidTyped
<1>2. /\ loop[l].pc = "reading" /\ LoopGoes(l, "head") /\ ~hid.running
      /\ hid' = hid /\ caller' = caller /\ key' = key
  BY DEF ReadNone
<1>3. PICK r \in Readings :
        /\ r.pc = "head" /\ loop' \in [Loops -> Readings] /\ loop'[l] = r
        /\ \A m \in Loops \ {l} : loop'[m].pc = loop[m].pc /\ loop'[m].event = loop[m].event
  BY <1>1, <1>2, LoopGoesKeeps
<1>4. QED BY <1>1, <1>2, <1>3, LoopGoesOn

LEMMA ReadFailsKeeps == ASSUME HidInv, NEW l \in Loops, ReadFails(l) PROVE HidInv'
<1>1. /\ hid \in Hids /\ loop \in [Loops -> Readings] /\ key \in Keys
  BY DEF HidInv, HidTyped
<1> DEFINE d == Deaf(loop)
           r == [d[l] EXCEPT !.pc = "waiting"]
<1>2. /\ d \in [Loops -> Readings]
      /\ \A m \in Loops : d[m].pc = loop[m].pc /\ d[m].event = loop[m].event
  BY <1>1, DeafLoops
<1>3. /\ loop[l].pc = "reading" /\ caller' = caller /\ loop' = [d EXCEPT ![l].pc = "waiting"]
      /\ hid' = [hid EXCEPT !.reader = FALSE, !.works = FALSE] /\ key' = Lost(key)
  BY DEF ReadFails
<1> HIDE DEF d
<1>4. r \in Readings /\ r.pc = "waiting" /\ loop' = [d EXCEPT ![l] = r] BY <1>2, <1>3 DEF Readings
<1> HIDE DEF r
<1>5. /\ loop' \in [Loops -> Readings] /\ loop'[l] = r
      /\ \A m \in Loops \ {l} : loop'[m].pc = loop[m].pc /\ loop'[m].event = loop[m].event
  BY <1>2, <1>4
<1>6. /\ hid' \in Hids /\ hid'.running = hid.running /\ hid'.task = hid.task
      /\ hid'.crossed = hid.crossed /\ ~hid'.works
  BY <1>1, <1>3 DEF Hids
<1>7. key' \in Keys BY <1>1, <1>3, KeyChanges
<1>8. QED BY <1>3, <1>4, <1>5, <1>6, <1>7, LoopGoesOn

LEMMA HandleEventKeeps == ASSUME HidInv, NEW l \in Loops, HandleEvent(l) PROVE HidInv'
<1>1. /\ hid \in Hids /\ loop \in [Loops -> Readings] /\ key \in Keys
      /\ hid.works => hid.reader /\ key.there
  BY DEF HidInv, HidTyped
<1> DEFINE e == loop[l].event
<1>2. /\ loop[l].pc = "holding" /\ LoopGoes(l, "head") /\ hid' = hid /\ caller' = caller
      /\ key' = [key EXCEPT !.shown = e, !.lost = FALSE]
  BY DEF HandleEvent
<1>3. e \in {0, 1} BY <1>2 DEF HidInv, HidTyped
<1>4. ~hid.crossed /\ hid.running /\ hid.works =>
        /\ key.events # <<>> => LastOf(key.events) = key.level
        /\ key.events = <<>> => e = key.level
  BY <1>2 DEF HidInv, KeysHeard
<1> HIDE DEF e
<1>5. /\ key' \in Keys /\ key'.there = key.there /\ key'.events = key.events
      /\ key'.level = key.level /\ key'.shown = e
  BY <1>1, <1>2, <1>3 DEF Keys
<1>6. LastOf(key'.events) = LastOf(key.events) /\ (e = key.level => Followed(key')) BY <1>5 DEF LastOf, Followed
<1>7. PICK r \in Readings :
        /\ r.pc = "head" /\ loop' \in [Loops -> Readings] /\ loop'[l] = r
        /\ \A m \in Loops \ {l} : loop'[m].pc = loop[m].pc /\ loop'[m].event = loop[m].event
  BY <1>1, <1>2, LoopGoesKeeps
<1>8. QED BY <1>1, <1>2, <1>4, <1>5, <1>6, <1>7, LoopGoesOn

-----------------------------------------------------------------------------
(* The calls, and the device. *)

LEMMA HidCallKeeps ==
  ASSUME HidInv, NEW c \in Callers, NEW start \in BOOLEAN, HidCall(c, start) PROVE HidInv'
<1>1. /\ hid \in Hids /\ loop \in [Loops -> Readings] /\ key \in Keys /\ caller \in [Callers -> Calling]
      /\ hid.works => hid.reader /\ key.there
      /\ \A l \in Loops : loop[l].pc = "holding" => loop[l].event \in {0, 1}
  BY DEF HidInv, HidTyped
<1>2. PICK crossed \in BOOLEAN : crossed = Crossing(c) BY <1>1 DEF Crossing, Hids
<1>3. ~crossed => ~hid.crossed /\ \A d \in Callers \ {c} : caller[d].pc = "idle" BY <1>2 DEF Crossing
<1>4. caller[c].pc = "idle" BY DEF HidCall
<1>5. CASE hid.running
  <2> DEFINE s == [pc |-> "stopping", start |-> start]
  <2>1. /\ hid' = [hid EXCEPT !.running = FALSE, !.crossed = crossed]
        /\ caller' = [caller EXCEPT ![c] = s]
        /\ loop' = IF hid.task = NoLoop THEN loop ELSE [loop EXCEPT ![hid.task] = NoReading]
        /\ key' = [key EXCEPT !.lost = TRUE]
    BY <1>2, <1>5 DEF HidCall
  <2>2. s \in Calling /\ s.pc = "stopping" BY DEF Calling
  <2> HIDE DEF s
  <2>3. /\ hid' \in Hids /\ ~hid'.running /\ hid'.crossed = crossed /\ hid'.works = hid.works
        /\ hid'.reader = hid.reader
    BY <1>1, <2>1 DEF Hids
  <2>4. /\ caller' \in [Callers -> Calling] /\ caller'[c].pc = "stopping"
        /\ \A d \in Callers \ {c} : caller'[d] = caller[d]
    BY <1>1, <2>1, <2>2
  <2>5. NoReading \in Readings /\ NoReading.pc = "none" BY DEF NoReading, Readings
  <2>6. /\ loop' \in [Loops -> Readings]
        /\ \A l \in Loops : IF l = hid.task THEN loop'[l].pc = "none" ELSE loop'[l] = loop[l]
    <3>1. hid.task \in Loops \cup {NoLoop} BY <1>1 DEF Hids
    <3>2. CASE hid.task = NoLoop BY <1>1, <2>1, <3>2, HidAssumption
    <3>3. CASE hid.task \in Loops BY <1>1, <2>1, <2>5, <3>3, HidAssumption
    <3>4. QED BY <3>1, <3>2, <3>3
  <2>7. key' \in Keys /\ key'.there = key.there BY <1>1, <2>1, KeyChanges
  <2>8. HidTyped' BY <1>1, <2>3, <2>4, <2>6, <2>7 DEF HidTyped
  <2>9. ~crossed => \A l \in Loops : loop'[l].pc = "none"
    BY <1>3, <2>6 DEF HidInv, OneReader
  <2>10. OneReader' BY <1>3, <2>3, <2>4, <2>9 DEF OneReader
  <2>11. KeysHeard' BY <2>3 DEF KeysHeard
  <2>12. QED BY <2>8, <2>10, <2>11 DEF HidInv
<1>6. CASE ~hid.running
  <2> DEFINE s == [pc |-> "opening", start |-> TRUE]
  <2>1. /\ hid' = [hid EXCEPT !.crossed = crossed, !.running = TRUE]
        /\ caller' = [caller EXCEPT ![c] = s] /\ loop' = loop /\ key' = key
    BY <1>1, <1>2, <1>6 DEF HidCall, BeginOpen, Hids
  <2>2. s \in Calling /\ s.pc = "opening" BY DEF Calling
  <2> HIDE DEF s
  <2>3. /\ hid' \in Hids /\ hid'.running /\ hid'.crossed = crossed /\ hid'.works = hid.works
        /\ hid'.reader = hid.reader /\ hid'.task = hid.task
    BY <1>1, <2>1 DEF Hids
  <2>4. /\ caller' \in [Callers -> Calling] /\ caller'[c].pc = "opening"
        /\ \A d \in Callers \ {c} : caller'[d] = caller[d]
    BY <1>1, <2>1, <2>2
  <2>5. HidTyped' BY <1>1, <2>1, <2>3, <2>4 DEF HidTyped
  <2>6. ~crossed => ~hid.reader /\ ~hid.works /\ \A l \in Loops : loop[l].pc = "none"
    BY <1>1, <1>3, <1>4, <1>6 DEF HidInv, OneReader
  <2>7. OneReader' BY <1>3, <2>1, <2>3, <2>4, <2>6 DEF OneReader
  <2>8. KeysHeard' BY <2>3, <2>6 DEF KeysHeard
  <2>9. QED BY <2>5, <2>7, <2>8 DEF HidInv
<1>7. QED BY <1>1, <1>5, <1>6 DEF Hids

LEMMA LoopHaltedKeeps == ASSUME HidInv, NEW c \in Callers, LoopHalted(c) PROVE HidInv'
<1>1. /\ hid \in Hids /\ loop \in [Loops -> Readings] /\ key \in Keys /\ caller \in [Callers -> Calling]
      /\ \A l \in Loops : loop[l].pc = "holding" => loop[l].event \in {0, 1}
  BY DEF HidInv, HidTyped
<1>2. caller[c].pc = "stopping" /\ loop' = Deaf(loop) /\ key' = Lost(key) BY DEF LoopHalted
<1>3. PICK s \in Calling, on \in BOOLEAN :
        /\ caller' = [caller EXCEPT ![c] = s]
        /\ hid' = [hid EXCEPT !.task = NoLoop, !.reader = FALSE, !.works = FALSE, !.running = on]
        /\ \/ s.pc = "opening" /\ on = TRUE
           \/ s.pc = "idle" /\ on = hid.running
  <2>1. CASE caller[c].start
    <3>1. [pc |-> "opening", start |-> TRUE] \in Calling BY DEF Calling
    <3>2. /\ caller' = [caller EXCEPT ![c] = [pc |-> "opening", start |-> TRUE]]
          /\ hid' = [hid EXCEPT !.task = NoLoop, !.reader = FALSE, !.works = FALSE, !.running = TRUE]
      BY <1>1, <2>1 DEF LoopHalted, BeginOpen, Hids
    <3>3. QED BY <3>1, <3>2
  <2>2. CASE ~caller[c].start
    <3>1. NoCaller \in Calling /\ NoCaller.pc = "idle" /\ hid.running \in BOOLEAN
      BY <1>1 DEF NoCaller, Calling, Hids
    <3>2. /\ caller' = [caller EXCEPT ![c] = NoCaller]
          /\ hid' = [hid EXCEPT !.task = NoLoop, !.reader = FALSE, !.works = FALSE, !.running = hid.running]
      BY <1>1, <2>2 DEF LoopHalted, Hids
    <3>3. QED BY <3>1, <3>2
  <2>3. QED BY <2>1, <2>2
<1>4. /\ hid' \in Hids /\ hid'.running = on /\ hid'.crossed = hid.crossed /\ ~hid'.works /\ ~hid'.reader
  BY <1>1, <1>3 DEF Hids
<1>5. /\ caller' \in [Callers -> Calling] /\ caller'[c] = s
      /\ \A d \in Callers \ {c} : caller'[d] = caller[d]
  BY <1>1, <1>3
<1>6. /\ loop' \in [Loops -> Readings]
      /\ \A l \in Loops : loop'[l].pc = loop[l].pc /\ loop'[l].event = loop[l].event
  BY <1>1, <1>2, DeafLoops
<1>7. key' \in Keys BY <1>1, <1>2, KeyChanges
<1>8. HidTyped' BY <1>1, <1>4, <1>5, <1>6, <1>7 DEF HidTyped
<1>9. ~hid.crossed => /\ ~hid.running /\ \A l \in Loops : loop[l].pc = "none"
                      /\ \A d \in Callers \ {c} : caller[d].pc = "idle"
  BY <1>2 DEF HidInv, OneReader
<1>10. OneReader'
  <2>1. CASE s.pc = "opening" /\ on = TRUE BY <1>4, <1>5, <1>6, <1>9, <2>1 DEF OneReader
  <2>2. CASE s.pc = "idle" /\ on = hid.running BY <1>4, <1>5, <1>6, <1>9, <2>2 DEF OneReader
  <2>3. QED BY <1>3, <2>1, <2>2
<1>11. KeysHeard' BY <1>4 DEF KeysHeard
<1>12. QED BY <1>8, <1>10, <1>11 DEF HidInv

LEMMA LoopLaunchedKeeps == ASSUME HidInv, NEW c \in Callers, LoopLaunched(c) PROVE HidInv'
<1>1. /\ hid \in Hids /\ loop \in [Loops -> Readings] /\ key \in Keys /\ caller \in [Callers -> Calling]
      /\ hid.works => hid.reader /\ key.there
      /\ \A l \in Loops : loop[l].pc = "holding" => loop[l].event \in {0, 1}
  BY DEF HidInv, HidTyped
<1>2. PICK opened \in BOOLEAN : opened = (key.there /\ hid.running /\ ~hid.reader) OBVIOUS
<1> DEFINE r == [NoReading EXCEPT !.pc = "head"]
<1>3. PICK l \in Loops :
        /\ loop[l].pc = "none" /\ TakeReader([hid EXCEPT !.task = l], opened)
        /\ loop' = [loop EXCEPT ![l] = r]
  BY <1>2 DEF LoopLaunched
<1>4. caller[c].pc = "opening" /\ caller' = [caller EXCEPT ![c] = NoCaller] BY DEF LoopLaunched
<1>5. r \in Readings /\ r.pc = "head"
  <2>1. NoReading \in Readings BY DEF NoReading, Readings
  <2>2. QED BY <2>1 DEF Readings
<1>6. NoCaller \in Calling /\ NoCaller.pc = "idle" BY DEF NoCaller, Calling
<1> HIDE DEF r
<1>7. /\ loop' \in [Loops -> Readings] /\ loop'[l] = r
      /\ \A m \in Loops \ {l} : loop'[m] = loop[m]
  BY <1>1, <1>3, <1>5
<1>8. /\ caller' \in [Callers -> Calling] /\ caller'[c].pc = "idle"
      /\ \A d \in Callers \ {c} : caller'[d] = caller[d]
  BY <1>1, <1>4, <1>6
<1>9. PICK h \in Hids : /\ h = [hid EXCEPT !.task = l] /\ h.task = l
                        /\ h.running = hid.running /\ h.crossed = hid.crossed
                        /\ h.reader = hid.reader /\ h.works = hid.works
  <2> DEFINE h == [hid EXCEPT !.task = l]
  <2>1. /\ h \in Hids /\ h.task = l /\ h.running = hid.running /\ h.crossed = hid.crossed
        /\ h.reader = hid.reader /\ h.works = hid.works
    BY <1>1 DEF Hids
  <2>2. QED BY <2>1
<1>10. /\ hid' \in Hids /\ key' \in Keys /\ key'.there = key.there
       /\ hid'.running = h.running /\ hid'.task = h.task /\ hid'.crossed = h.crossed
       /\ opened => hid'.works /\ hid'.reader /\ key'.events = <<>> /\ Followed(key')
       /\ ~opened => hid' = h /\ key' = key
  BY <1>1, <1>3, <1>9, ReaderTaken
<1>11. HidTyped'
  <2>1. hid'.works => hid'.reader /\ key'.there BY <1>1, <1>2, <1>9, <1>10
  <2>2. \A m \in Loops : loop'[m].pc = "holding" => loop'[m].event \in {0, 1} BY <1>1, <1>5, <1>7
  <2>3. QED BY <1>7, <1>8, <1>10, <2>1, <2>2 DEF HidTyped
<1>12. ~hid.crossed => /\ hid.running /\ ~hid.reader /\ ~hid.works
                       /\ \A m \in Loops : loop[m].pc = "none"
                       /\ \A d \in Callers \ {c} : caller[d].pc = "idle"
  BY <1>1, <1>4 DEF HidInv, OneReader
<1>13. OneReader' BY <1>5, <1>7, <1>8, <1>9, <1>10, <1>12 DEF OneReader
<1>14. KeysHeard'
  <2>1. SUFFICES ASSUME ~hid'.crossed, hid'.works PROVE KeysHeard' BY DEF KeysHeard
  <2>2. opened BY <1>9, <1>10, <1>12, <2>1
  <2>3. \A m \in Loops : loop'[m].pc # "holding" BY <1>5, <1>7, <1>9, <1>10, <1>12, <2>1
  <2>4. QED BY <1>10, <2>2, <2>3 DEF KeysHeard
<1>15. QED BY <1>11, <1>13, <1>14 DEF HidInv

LEMMA TouchKeeps == ASSUME HidInv, Touch PROVE HidInv'
<1>1. key \in Keys BY DEF HidInv, HidTyped
<1> DEFINE v == 1 - key.level
           q == IF hid.works THEN Append(key.events, v) ELSE key.events
<1>2. key' = [key EXCEPT !.level = v, !.events = q] /\ hid' = hid /\ loop' = loop /\ caller' = caller
  BY <1>1 DEF Touch, Keys
<1>3. v \in {0, 1} /\ key.events \in Seq({0, 1}) BY <1>1 DEF Keys
<1>4. q \in Seq({0, 1}) /\ (hid.works => q # <<>> /\ q[Len(q)] = v) BY <1>3
<1> HIDE DEF v, q
<1>5. key' \in Keys /\ key'.there = key.there /\ key'.level = v /\ key'.events = q
  BY <1>1, <1>2, <1>3, <1>4 DEF Keys
<1>6. HidTyped' BY <1>2, <1>5 DEF HidInv, HidTyped
<1>7. OneReader' BY <1>2 DEF HidInv, OneReader
<1>8. KeysHeard' BY <1>2, <1>4, <1>5 DEF KeysHeard, LastOf
<1>9. QED BY <1>6, <1>7, <1>8 DEF HidInv

LEMMA ReplugKeeps == ASSUME HidInv, Replugged PROVE HidInv'
<1>1. /\ hid \in Hids /\ loop \in [Loops -> Readings] /\ key \in Keys
      /\ \A l \in Loops : loop[l].pc = "holding" => loop[l].event \in {0, 1}
  BY DEF HidInv, HidTyped
<1>2. /\ key' = [Lost(key) EXCEPT !.there = ~@] /\ hid' = [hid EXCEPT !.works = FALSE]
      /\ loop' = Deaf(loop) /\ caller' = caller
  BY DEF Replugged
<1>3. Lost(key) \in Keys BY <1>1, KeyChanges
<1>4. key' \in Keys BY <1>2, <1>3 DEF Keys
<1>5. /\ hid' \in Hids /\ ~hid'.works /\ hid'.running = hid.running /\ hid'.task = hid.task
      /\ hid'.reader = hid.reader /\ hid'.crossed = hid.crossed
  BY <1>1, <1>2 DEF Hids
<1>6. /\ loop' \in [Loops -> Readings]
      /\ \A l \in Loops : loop'[l].pc = loop[l].pc /\ loop'[l].event = loop[l].event
  BY <1>1, <1>2, DeafLoops
<1>7. HidTyped' BY <1>1, <1>2, <1>4, <1>5, <1>6 DEF HidInv, HidTyped
<1>8. OneReader' BY <1>2, <1>5, <1>6 DEF HidInv, OneReader
<1>9. KeysHeard' BY <1>5 DEF KeysHeard
<1>10. QED BY <1>7, <1>8, <1>9 DEF HidInv

LEMMA HidKept == HidInv /\ [HidRuns \/ HidWorld]_hidVars => HidInv'
<1> SUFFICES ASSUME HidInv, [HidRuns \/ HidWorld]_hidVars PROVE HidInv' OBVIOUS
<1>1. CASE UNCHANGED hidVars
  BY <1>1 DEF hidVars, HidInv, HidTyped, OneReader, KeysHeard, LastOf, Followed
<1>2. QED
  BY <1>1, HidCallKeeps, LoopHaltedKeeps, LoopLaunchedKeeps, ReadLoopHeadKeeps, LoopOpensKeeps,
     ReadOneKeeps, ReadNoneKeeps, ReadFailsKeeps, HandleEventKeeps, TouchKeeps, ReplugKeeps
     DEF HidRuns, HidWorld

\* A running adapter has its read loop, and has published the level of its key when the
\* events are handled, for any calls that do not overlap (HidAdapter).
THEOREM HidSafety == HidSpec => [](HidTypeOK /\ KeyIsHeard)
<1>1. HidSpec => []HidInv BY HidStarts, HidKept, PTL DEF HidSpec
<1>2. HidInv => HidTypeOK BY DEF HidInv, HidTyped, HidTypeOK, Hids, Readings, Calling, Keys
<1>3. HidInv => KeyIsHeard BY DEF HidInv, HidTyped, OneReader, KeysHeard, KeyIsHeard, Followed
<1>4. QED BY <1>1, <1>2, <1>3, PTL

-----------------------------------------------------------------------------
(* A control and its echoes (EchoGuard).                                    *)

Echoes == [kind : {"midi", "osc"}, on : BOOLEAN, recent : SUBSET (ControlValues \X Ages),
           host : ControlValues, since : [ControlValues -> Ages], crossed : BOOLEAN]
Messages == [value : ControlValues, user : BOOLEAN]
Controls == [at : ControlValues, wire : Seq(ControlValues), inbox : Seq(Messages)]
Sends == [pc : {"idle", "writing", "written"}, value : ControlValues]

FromUser(q) == \E i \in DOMAIN q : q[i].user
Writing(t) == sender[t].pc = "writing"

EchoTyped ==
  /\ echo \in Echoes /\ sender \in [Senders -> Sends] /\ control \in Controls
  /\ echo.kind = "midi" => control.wire = <<>>
  /\ echo.kind = "osc" => \A t \in Senders : sender[t].pc = "idle"

\* The records are what was sent within the window: the latest record of a value says
\* how long ago that was.
RecordsAreSends(recent, since) ==
  /\ \A v \in ControlValues : since[v] <= Window => <<v, since[v]>> \in recent
  /\ \A r \in recent : since[r[1]] <= r[2]

EchoRecorded == RecordsAreSends(echo.recent, echo.since) /\ (~echo.on => echo.recent = {})

\* What comes last is what the program has, or what the user did last.
Crossless ==
  ~echo.crossed =>
    /\ control.wire # <<>> => LastOf(control.wire) = echo.host
    /\ \A t \in Senders : Writing(t) => sender[t].value = echo.host
    /\ \A t, u \in Senders : Writing(t) /\ Writing(u) => t = u
    /\ FromUser(control.inbox) =>
         ~InFlight /\ LastOf(control.inbox) = [value |-> control.at, user |-> TRUE]
    /\ ~InFlight /\ ~FromUser(control.inbox) => Matches(echo.host, control.at)

EchoInv == EchoTyped /\ EchoRecorded /\ Crossless

LEMMA EchoConstants == /\ Highest \in Nat /\ Window \in Nat /\ Tolerance \in Nat /\ MaxInFlight \in Nat
                       /\ 0 \in ControlValues /\ ControlValues \subseteq Nat
                       /\ 0 \in Ages /\ Window + 1 \in Ages /\ Over \in [ControlValues -> Ages]
BY EchoAssumption DEF ControlValues, Ages, Over

LEMMA MatchesBothWays ==
  ASSUME NEW v \in ControlValues, NEW w \in ControlValues
  PROVE  Matches(v, v) /\ (Matches(v, w) => Matches(w, v))
BY EchoConstants DEF Matches

LEMMA SameMatches ==
  ASSUME echo'.kind = echo.kind, NEW v, NEW w PROVE Matches(v, w)' <=> Matches(v, w)
BY DEF Matches

LEMMA EchoStarts == EchoInit => EchoInv
<1> SUFFICES ASSUME EchoInit PROVE EchoInv OBVIOUS
<1>1. /\ echo \in Echoes /\ echo.recent = {} /\ echo.on /\ echo.since = Over /\ echo.host = 0
  <2>1. /\ echo \in [kind : {"midi", "osc"}, on : {TRUE}, recent : {{}}, host : {0}, since : {Over},
                     crossed : {FALSE}]
    BY DEF EchoInit
  <2>2. QED BY <2>1, EchoConstants DEF Echoes
<1>2. /\ control.at = 0 /\ control.wire = <<>> /\ control.inbox = <<>> /\ control \in Controls
  <2>1. <<>> \in Seq(ControlValues) /\ <<>> \in Seq(Messages) OBVIOUS
  <2>2. QED BY <2>1, EchoConstants DEF EchoInit, Controls
<1>3. sender \in [Senders -> Sends] /\ \A t \in Senders : sender[t].pc = "idle"
  BY EchoConstants DEF EchoInit, Sends
<1>4. EchoTyped BY <1>1, <1>2, <1>3 DEF EchoTyped
<1>5. EchoRecorded
  <2>1. \A v \in ControlValues : ~(echo.since[v] <= Window)
    BY <1>1, EchoConstants DEF Over
  <2>2. QED BY <1>1, <2>1 DEF EchoRecorded, RecordsAreSends
<1>6. Crossless
  <2>1. ~FromUser(control.inbox) BY <1>2 DEF FromUser
  <2>2. Matches(echo.host, control.at) BY <1>1, <1>2, EchoConstants, MatchesBothWays
  <2>3. QED BY <1>2, <1>3, <2>1, <2>2 DEF Crossless, Writing
<1>7. QED BY <1>4, <1>5, <1>6 DEF EchoInv

-----------------------------------------------------------------------------
(* The records. *)

LEMMA PruneKeeps ==
  ASSUME NEW recent \in SUBSET (ControlValues \X Ages), NEW since \in [ControlValues -> Ages],
         RecordsAreSends(recent, since)
  PROVE  Prune(recent) \in SUBSET (ControlValues \X Ages) /\ RecordsAreSends(Prune(recent), since)
<1>1. \A v \in ControlValues : since[v] <= Window => <<v, since[v]>> \in Prune(recent)
  BY DEF RecordsAreSends, Prune
<1>2. QED BY <1>1 DEF RecordsAreSends, Prune

LEMMA RecordedFields ==
  ASSUME EchoTyped, EchoRecorded, NEW v \in ControlValues
  PROVE  LET e == Recorded(echo, v) IN
         /\ e \in Echoes /\ e.kind = echo.kind /\ e.on = echo.on /\ e.host = echo.host
         /\ e.crossed = echo.crossed
         /\ RecordsAreSends(e.recent, e.since) /\ (~e.on => e.recent = {})
<1>1. echo \in Echoes BY DEF EchoTyped
<1>2. CASE echo.on
  <2> DEFINE added == echo.recent \cup {<<v, 0>>}
             p == Prune(added)
             s == [echo.since EXCEPT ![v] = 0]
  <2>1. added \in SUBSET (ControlValues \X Ages) /\ s \in [ControlValues -> Ages]
    BY <1>1, EchoConstants DEF Echoes
  <2>2. RecordsAreSends(added, s)
    <3>1. echo.since \in [ControlValues -> Ages] /\ echo.recent \in SUBSET (ControlValues \X Ages)
      BY <1>1 DEF Echoes
    <3>2. ASSUME NEW w \in ControlValues, s[w] <= Window PROVE <<w, s[w]>> \in added
      <4>1. CASE w = v BY <3>1, <4>1
      <4>2. CASE w # v BY <3>1, <3>2, <4>2 DEF EchoRecorded, RecordsAreSends
      <4>3. QED BY <4>1, <4>2
    <3>3. ASSUME NEW r \in added PROVE s[r[1]] <= r[2]
      <4>1. r[1] \in ControlValues /\ r[2] \in Ages BY <2>1, <3>3
      <4>2. CASE r[1] = v BY <3>1, <4>1, <4>2 DEF Ages
      <4>3. CASE r[1] # v
        <5>1. r \in echo.recent BY <3>3, <4>3
        <5>2. s[r[1]] = echo.since[r[1]] BY <3>1, <4>1, <4>3
        <5>3. QED BY <5>1, <5>2 DEF EchoRecorded, RecordsAreSends
      <4>4. QED BY <4>2, <4>3
    <3>4. QED BY <3>2, <3>3 DEF RecordsAreSends
  <2>3. p \in SUBSET (ControlValues \X Ages) /\ RecordsAreSends(p, s) BY <2>1, <2>2, PruneKeeps
  <2>4. Recorded(echo, v) = [echo EXCEPT !.recent = p, !.since = s] BY <1>1, <1>2 DEF Recorded, Echoes
  <2> HIDE DEF p, s
  <2>5. QED BY <1>1, <1>2, <2>1, <2>3, <2>4 DEF Echoes
<1>3. CASE ~echo.on
  <2>1. Recorded(echo, v) = echo BY <1>1, <1>3 DEF Recorded, Echoes
  <2>2. QED BY <1>1, <2>1 DEF EchoRecorded
<1>4. QED BY <1>2, <1>3

\* the guard takes for an echo what matches a value that was sent within the window
LEMMA EchoesAreSends ==
  ASSUME EchoTyped, EchoRecorded, NEW v \in ControlValues PROVE IsEcho(v) <=> SentLately(v)
<1>1. echo.since \in [ControlValues -> Ages] /\ echo.recent \in SUBSET (ControlValues \X Ages)
  BY DEF EchoTyped, Echoes
<1>2. ASSUME IsEcho(v) PROVE SentLately(v)
  <2>1. PICK r \in echo.recent : r[2] <= Window /\ Matches(r[1], v) BY <1>2 DEF IsEcho, Prune
  <2>2. r[1] \in ControlValues /\ r[2] \in Ages /\ echo.since[r[1]] \in Ages BY <1>1, <2>1
  <2>3. echo.since[r[1]] <= r[2] BY <2>1 DEF EchoRecorded, RecordsAreSends
  <2>4. echo.since[r[1]] <= Window BY <2>1, <2>2, <2>3, EchoConstants DEF Ages
  <2>5. QED BY <2>1, <2>2, <2>4 DEF SentLately
<1>3. ASSUME SentLately(v) PROVE IsEcho(v)
  <2>1. PICK w \in ControlValues : Matches(w, v) /\ echo.since[w] <= Window BY <1>3 DEF SentLately
  <2>2. <<w, echo.since[w]>> \in echo.recent BY <2>1 DEF EchoRecorded, RecordsAreSends
  <2>3. <<w, echo.since[w]>> \in Prune(echo.recent) BY <2>1, <2>2 DEF Prune
  <2>4. echo.on BY <2>2 DEF EchoRecorded
  <2>5. Matches(<<w, echo.since[w]>>[1], v) BY <2>1
  <2>6. QED BY <2>3, <2>4, <2>5 DEF IsEcho
<1>4. QED BY <1>2, <1>3

-----------------------------------------------------------------------------
(* The queues. *)

LEMMA InboxGrows ==
  ASSUME NEW q \in Seq(Messages), NEW m \in Messages
  PROVE  /\ Append(q, m) \in Seq(Messages) /\ LastOf(Append(q, m)) = m
         /\ FromUser(Append(q, m)) <=> m.user \/ FromUser(q)
<1>1. /\ \A i \in DOMAIN q : i \in DOMAIN Append(q, m) /\ Append(q, m)[i] = q[i]
      /\ \A i \in DOMAIN Append(q, m) : Append(q, m)[i] = m \/ (i \in DOMAIN q /\ Append(q, m)[i] = q[i])
      /\ Len(q) + 1 \in DOMAIN Append(q, m) /\ Append(q, m)[Len(q) + 1] = m
      /\ Append(q, m) \in Seq(Messages) /\ LastOf(Append(q, m)) = m
  BY AppendIsLast
<1> HIDE DEF LastOf
<1>2. QED BY <1>1 DEF FromUser

LEMMA InboxShrinks ==
  ASSUME NEW q \in Seq(Messages), q # <<>>
  PROVE  /\ Tail(q) \in Seq(Messages) /\ Head(q) \in Messages
         /\ FromUser(q) <=> Head(q).user \/ FromUser(Tail(q))
         /\ Tail(q) # <<>> => LastOf(Tail(q)) = LastOf(q)
         /\ Tail(q) = <<>> => Head(q) = LastOf(q) /\ ~FromUser(Tail(q))
<1>1. /\ Tail(q) \in Seq(Messages) /\ Head(q) \in Messages
      /\ \A i \in DOMAIN q : i = 1 \/ (i - 1 \in DOMAIN Tail(q) /\ Tail(q)[i - 1] = q[i])
      /\ \A i \in DOMAIN Tail(q) : i + 1 \in DOMAIN q /\ Tail(q)[i] = q[i + 1]
      /\ Head(q) = q[1] /\ 1 \in DOMAIN q
      /\ Tail(q) # <<>> => LastOf(Tail(q)) = LastOf(q)
      /\ Tail(q) = <<>> => Head(q) = LastOf(q)
  BY TailKeepsLast
<1>2. Tail(q) = <<>> => ~FromUser(Tail(q)) BY DEF FromUser
<1>3. FromUser(q) => Head(q).user \/ FromUser(Tail(q))
  <2>1. SUFFICES ASSUME NEW i \in DOMAIN q, q[i].user PROVE Head(q).user \/ FromUser(Tail(q))
    BY DEF FromUser
  <2>2. CASE i = 1 BY <1>1, <2>1, <2>2
  <2>3. CASE i # 1
    <3>1. i - 1 \in DOMAIN Tail(q) /\ Tail(q)[i - 1].user BY <1>1, <2>1, <2>3
    <3>2. QED BY <3>1 DEF FromUser
  <2>4. QED BY <2>2, <2>3
<1>4. Head(q).user => FromUser(q) BY <1>1 DEF FromUser
<1>5. FromUser(Tail(q)) => FromUser(q)
  <2>1. SUFFICES ASSUME NEW i \in DOMAIN Tail(q), Tail(q)[i].user PROVE FromUser(q) BY DEF FromUser
  <2>2. i + 1 \in DOMAIN q /\ q[i + 1].user BY <1>1, <2>1
  <2>3. QED BY <2>2 DEF FromUser
<1>6. QED BY <1>1, <1>2, <1>3, <1>4, <1>5

LEMMA UserFields == UserIsHeard <=> FromUser(control.inbox)
BY DEF UserIsHeard, FromUser

LEMMA NoneUnderWay ==
  ASSUME EchoTyped, NothingUnderWay
  PROVE  /\ control.wire = <<>> /\ control.inbox = <<>> /\ ~FromUser(control.inbox)
         /\ \A t \in Senders : ~Writing(t)
BY DEF NothingUnderWay, InFlight, Writing, FromUser

-----------------------------------------------------------------------------
LEMMA SendDatagramKeeps ==
  ASSUME EchoInv, NEW v \in ControlValues, SendDatagram(v) PROVE EchoInv'
<1>1. /\ echo \in Echoes /\ sender \in [Senders -> Sends] /\ control \in Controls
      /\ echo.kind = "osc" => \A t \in Senders : sender[t].pc = "idle"
      /\ EchoTyped /\ EchoRecorded
  BY DEF EchoInv, EchoTyped
<1>2. PICK crossed \in BOOLEAN : crossed = ((echo.crossed /\ ~NothingUnderWay) \/ UserIsHeard) OBVIOUS
<1>3. PICK e \in Echoes :
        /\ e = Recorded(echo, v) /\ e.kind = echo.kind /\ e.on = echo.on
        /\ e.crossed = echo.crossed
        /\ RecordsAreSends(e.recent, e.since) /\ (~e.on => e.recent = {})
  BY <1>1, RecordedFields
<1>4. /\ echo' = [e EXCEPT !.host = v, !.crossed = crossed] /\ sender' = sender /\ echo.kind = "osc"
      /\ control' = [control EXCEPT !.wire = Append(@, v)]
  BY <1>2, <1>3 DEF SendDatagram, Echoes
<1>5. /\ echo' \in Echoes /\ echo'.kind = echo.kind /\ echo'.host = v /\ echo'.crossed = crossed
      /\ echo'.recent = e.recent /\ echo'.since = e.since /\ echo'.on = e.on
  BY <1>3, <1>4 DEF Echoes
<1> DEFINE q == Append(control.wire, v)
<1>6. q \in Seq(ControlValues) /\ q # <<>> /\ LastOf(q) = v
  BY <1>1, AppendIsLast DEF Controls
<1>7. control' = [control EXCEPT !.wire = q] BY <1>1, <1>4 DEF Controls
<1> HIDE DEF q
<1>8. control' \in Controls /\ control'.wire = q /\ control'.inbox = control.inbox
  BY <1>1, <1>6, <1>7 DEF Controls
<1>9. EchoTyped' BY <1>1, <1>4, <1>5, <1>8 DEF EchoTyped
<1>10. EchoRecorded' BY <1>3, <1>5 DEF EchoRecorded
<1>11. Crossless'
  <2>1. ~crossed => ~FromUser(control'.inbox) BY <1>2, <1>8, UserFields
  <2>2. InFlight' BY <1>6, <1>8 DEF InFlight
  <2>3. \A t \in Senders : ~Writing(t)' BY <1>1, <1>4 DEF Writing
  <2>4. QED BY <1>5, <1>6, <1>8, <2>1, <2>2, <2>3 DEF Crossless
<1>12. QED BY <1>9, <1>10, <1>11 DEF EchoInv

LEMMA BeginWriteKeeps ==
  ASSUME EchoInv, NEW t \in Senders, NEW v \in ControlValues, BeginWrite(t, v) PROVE EchoInv'
<1>1. /\ echo \in Echoes /\ sender \in [Senders -> Sends] /\ control \in Controls
      /\ echo.kind = "midi" => control.wire = <<>>
      /\ EchoTyped /\ EchoRecorded
  BY DEF EchoInv, EchoTyped
<1>2. PICK crossed \in BOOLEAN :
        crossed = ((echo.crossed /\ ~NothingUnderWay) \/ UserIsHeard \/ InFlight)
  OBVIOUS
<1> DEFINE s == [pc |-> "writing", value |-> v]
<1>3. /\ echo' = [echo EXCEPT !.host = v, !.crossed = crossed] /\ echo.kind = "midi"
      /\ sender' = [sender EXCEPT ![t] = s] /\ control' = control
  BY <1>1, <1>2 DEF BeginWrite, Echoes
<1>4. s \in Sends /\ s.pc = "writing" /\ s.value = v BY DEF Sends
<1> HIDE DEF s
<1>5. /\ echo' \in Echoes /\ echo'.kind = echo.kind /\ echo'.host = v /\ echo'.crossed = crossed
      /\ echo'.recent = echo.recent /\ echo'.since = echo.since /\ echo'.on = echo.on
  BY <1>1, <1>3 DEF Echoes
<1>6. /\ sender' \in [Senders -> Sends] /\ sender'[t] = s
      /\ \A u \in Senders \ {t} : sender'[u] = sender[u]
  BY <1>1, <1>3, <1>4
<1>7. EchoTyped' BY <1>1, <1>3, <1>5, <1>6 DEF EchoTyped
<1>8. EchoRecorded' BY <1>1, <1>5 DEF EchoRecorded
<1>9. Crossless'
  <2>1. ~crossed => ~FromUser(control'.inbox) BY <1>2, <1>3, UserFields
  <2>2. InFlight' BY <1>4, <1>6 DEF InFlight
  <2>3. ~crossed => \A u \in Senders \ {t} : ~Writing(u)' BY <1>2, <1>6 DEF InFlight, Writing
  <2>4. control'.wire = <<>> BY <1>1, <1>3
  <2>5. QED BY <1>4, <1>5, <1>6, <2>1, <2>2, <2>3, <2>4 DEF Crossless
<1>10. QED BY <1>7, <1>8, <1>9 DEF EchoInv

\* the control has a value and reports it or not
LEMMA EchoMoved ==
  ASSUME NEW c \in Controls, NEW v \in ControlValues, NEW reports \in BOOLEAN, Moved(c, v, reports)
  PROVE  /\ control' \in Controls /\ control'.at = v /\ control'.wire = c.wire
         /\ FromUser(control'.inbox) <=> FromUser(c.inbox)
<1> DEFINE m == [value |-> v, user |-> FALSE]
           q == IF reports THEN Append(c.inbox, m) ELSE c.inbox
<1>1. m \in Messages /\ ~m.user BY DEF Messages
<1>2. control' = [c EXCEPT !.at = v, !.inbox = q] BY DEF Moved, Controls
<1> HIDE DEF m
<1>3. q \in Seq(Messages) /\ (FromUser(q) <=> FromUser(c.inbox)) BY <1>1, InboxGrows DEF Controls
<1> HIDE DEF q
<1>4. QED BY <1>2, <1>3 DEF Controls

LEMMA DeskTakesKeeps == ASSUME EchoInv, DeskTakes PROVE EchoInv'
<1>1. /\ echo \in Echoes /\ sender \in [Senders -> Sends] /\ control \in Controls
      /\ echo.kind = "midi" => control.wire = <<>>
      /\ echo.kind = "osc" => \A t \in Senders : sender[t].pc = "idle"
      /\ EchoRecorded
  BY DEF EchoInv, EchoTyped
<1> DEFINE q == Tail(control.wire)
           h == Head(control.wire)
           c == [control EXCEPT !.wire = q]
<1>2. control.wire # <<>> /\ echo' = echo /\ sender' = sender BY DEF DeskTakes
<1>3. PICK v \in ControlValues, reports \in BOOLEAN : Matches(v, h) /\ Moved(c, v, reports)
  BY <1>1 DEF DeskTakes, Controls
<1>4. /\ q \in Seq(ControlValues) /\ h \in ControlValues
      /\ q # <<>> => LastOf(q) = LastOf(control.wire)
      /\ q = <<>> => h = LastOf(control.wire)
  <2>1. control.wire \in Seq(ControlValues) BY <1>1 DEF Controls
  <2>2. QED BY <1>2, <2>1, TailKeepsLast
<1> HIDE DEF q, h
<1>5. c \in Controls /\ c.wire = q /\ c.inbox = control.inbox BY <1>1, <1>4 DEF Controls
<1> HIDE DEF c
<1>6. /\ control' \in Controls /\ control'.at = v /\ control'.wire = q
      /\ FromUser(control'.inbox) <=> FromUser(control.inbox)
  BY <1>3, <1>5, EchoMoved
<1>7. EchoTyped' BY <1>1, <1>2, <1>6 DEF EchoTyped
<1>8. EchoRecorded' BY <1>1, <1>2 DEF EchoRecorded
<1>9. Crossless'
  <2>1. SUFFICES ASSUME ~echo.crossed PROVE Crossless' BY <1>2 DEF Crossless
  <2>2. InFlight /\ \A t \in Senders : ~Writing(t)' BY <1>1, <1>2 DEF InFlight, Writing, Echoes
  <2>3. /\ ~FromUser(control'.inbox) /\ LastOf(control.wire) = echo.host
    BY <1>2, <1>6, <2>1, <2>2 DEF EchoInv, Crossless
  <2>4. ~InFlight' => Matches(echo.host, v)
    <3>1. ~InFlight' => q = <<>> BY <1>6 DEF InFlight
    <3>2. QED BY <1>3, <1>4, <2>3, <3>1, MatchesBothWays
  <2>5. Matches(echo.host, v)' <=> Matches(echo.host, v) BY <1>2 DEF Matches
  <2>6. ~InFlight' => Matches(echo.host, control.at)' BY <1>2, <1>6, <2>4, <2>5 DEF Matches
  <2>7. QED BY <1>2, <1>4, <1>6, <2>2, <2>3, <2>6 DEF Crossless
<1>10. QED BY <1>7, <1>8, <1>9 DEF EchoInv

LEMMA WriteDoneKeeps == ASSUME EchoInv, NEW t \in Senders, WriteDone(t) PROVE EchoInv'
<1>1. /\ echo \in Echoes /\ sender \in [Senders -> Sends] /\ control \in Controls
      /\ echo.kind = "midi" => control.wire = <<>>
      /\ echo.kind = "osc" => \A u \in Senders : sender[u].pc = "idle"
      /\ EchoRecorded
  BY DEF EchoInv, EchoTyped
<1> DEFINE s == [sender[t] EXCEPT !.pc = "written"]
           v == sender[t].value
<1>2. /\ sender[t].pc = "writing" /\ sender' = [sender EXCEPT ![t] = s] /\ echo' = echo
  BY <1>1 DEF WriteDone
<1>3. PICK reports \in BOOLEAN : Moved(control, v, reports) BY DEF WriteDone
<1>4. s \in Sends /\ s.pc = "written" /\ v \in ControlValues BY <1>1 DEF Sends
<1> HIDE DEF s, v
<1>5. /\ control' \in Controls /\ control'.at = v /\ control'.wire = control.wire
      /\ FromUser(control'.inbox) <=> FromUser(control.inbox)
  BY <1>1, <1>3, <1>4, EchoMoved
<1>6. /\ sender' \in [Senders -> Sends] /\ sender'[t] = s
      /\ \A u \in Senders \ {t} : sender'[u] = sender[u]
  BY <1>1, <1>2, <1>4
<1>7. echo.kind = "midi" /\ control.wire = <<>>
  BY <1>1, <1>2 DEF Echoes
<1>8. EchoTyped' BY <1>1, <1>2, <1>5, <1>6, <1>7 DEF EchoTyped
<1>9. EchoRecorded' BY <1>1, <1>2 DEF EchoRecorded
<1>10. Crossless'
  <2>1. SUFFICES ASSUME ~echo.crossed PROVE Crossless' BY <1>2 DEF Crossless
  <2>2. InFlight /\ Writing(t) BY <1>2 DEF InFlight, Writing
  <2>3. /\ ~FromUser(control'.inbox) /\ v = echo.host
        /\ \A u \in Senders \ {t} : ~Writing(u)
    BY <1>5, <2>1, <2>2 DEF EchoInv, Crossless, v
  <2>4. \A u \in Senders : ~Writing(u)' BY <1>4, <1>6, <2>3 DEF Writing
  <2>5. Matches(echo.host, control.at)'
    <3>1. Matches(v, v) BY <1>4, MatchesBothWays
    <3>2. QED BY <1>2, <1>5, <2>3, <3>1 DEF Matches
  <2>6. QED BY <1>5, <1>7, <2>3, <2>4, <2>5 DEF Crossless
<1>11. QED BY <1>8, <1>9, <1>10 DEF EchoInv

LEMMA RecordWrittenKeeps == ASSUME EchoInv, NEW t \in Senders, RecordWritten(t) PROVE EchoInv'
<1>1. /\ echo \in Echoes /\ sender \in [Senders -> Sends] /\ control \in Controls
      /\ echo.kind = "midi" => control.wire = <<>>
      /\ echo.kind = "osc" => \A u \in Senders : sender[u].pc = "idle"
      /\ EchoTyped /\ EchoRecorded
  BY DEF EchoInv, EchoTyped
<1> DEFINE s == [sender[t] EXCEPT !.pc = "idle"]
<1>2. /\ sender[t].pc = "written" /\ sender' = [sender EXCEPT ![t] = s]
      /\ control' = control /\ echo' = Recorded(echo, sender[t].value)
  BY <1>1 DEF RecordWritten
<1>3. s \in Sends /\ s.pc = "idle" /\ sender[t].value \in ControlValues BY <1>1 DEF Sends
<1>4. PICK e \in Echoes :
        /\ e = Recorded(echo, sender[t].value) /\ e.kind = echo.kind /\ e.on = echo.on
        /\ e.crossed = echo.crossed /\ e.host = echo.host
        /\ RecordsAreSends(e.recent, e.since) /\ (~e.on => e.recent = {})
  BY <1>1, <1>3, RecordedFields
<1>5. /\ echo' \in Echoes /\ echo'.kind = echo.kind /\ echo'.host = echo.host /\ echo'.crossed = echo.crossed
      /\ RecordsAreSends(echo'.recent, echo'.since) /\ (~echo'.on => echo'.recent = {})
  BY <1>2, <1>4
<1> HIDE DEF s
<1>6. /\ sender' \in [Senders -> Sends] /\ sender'[t] = s
      /\ \A u \in Senders \ {t} : sender'[u] = sender[u]
  BY <1>1, <1>2, <1>3
<1>7. EchoTyped'
  <2>1. echo.kind = "osc" => \A u \in Senders : sender'[u].pc = "idle" BY <1>1, <1>3, <1>6
  <2>2. QED BY <1>1, <1>2, <1>5, <1>6, <2>1 DEF EchoTyped
<1>8. EchoRecorded' BY <1>5 DEF EchoRecorded
<1>9. Crossless'
  <2>1. \A u \in Senders : (Writing(u)' <=> Writing(u)) /\ (Writing(u) => sender'[u] = sender[u])
    BY <1>2, <1>3, <1>6 DEF Writing
  <2>2. InFlight' <=> InFlight BY <1>2, <2>1 DEF InFlight, Writing
  <2>3. Matches(echo.host, control.at)' <=> Matches(echo.host, control.at)
    BY <1>2, <1>5 DEF Matches
  <2>4. QED BY <1>2, <1>5, <2>1, <2>2, <2>3 DEF EchoInv, Crossless
<1>10. QED BY <1>7, <1>8, <1>9 DEF EchoInv

-----------------------------------------------------------------------------
LEMMA HeardKeeps ==
  ASSUME EchoInv, control.inbox # <<>>, Heard(Head(control.inbox)) PROVE EchoInv'
<1>1. /\ echo \in Echoes /\ sender \in [Senders -> Sends] /\ control \in Controls
      /\ EchoTyped /\ EchoRecorded
  BY DEF EchoInv, EchoTyped
<1> DEFINE m == Head(control.inbox)
           q == Tail(control.inbox)
           p == Prune(echo.recent)
           w == IF IsEcho(m.value) THEN echo.host ELSE m.value
<1>2. /\ q \in Seq(Messages) /\ m \in Messages
      /\ FromUser(control.inbox) <=> m.user \/ FromUser(q)
      /\ q # <<>> => LastOf(q) = LastOf(control.inbox)
      /\ q = <<>> => m = LastOf(control.inbox) /\ ~FromUser(q)
  BY <1>1, InboxShrinks DEF Controls
<1>3. m.value \in ControlValues /\ (IsEcho(m.value) <=> SentLately(m.value))
  BY <1>1, <1>2, EchoesAreSends DEF Messages
<1>4. w \in ControlValues BY <1>1, <1>3 DEF Echoes
<1>5. PICK crossed \in BOOLEAN : crossed =
        (\/ echo.crossed
         \/ IF m.user THEN InFlight \/ (SentLately(m.value) /\ ~Matches(m.value, echo.host))
            ELSE ~SentLately(m.value) /\ m.value # echo.host)
  OBVIOUS
<1>6. /\ control' = [control EXCEPT !.inbox = q] /\ sender' = sender
      /\ echo' = [echo EXCEPT !.recent = p, !.host = w, !.crossed = crossed]
  BY <1>1, <1>5 DEF Heard, Echoes, Controls
<1>7. p \in SUBSET (ControlValues \X Ages) /\ RecordsAreSends(p, echo.since)
      /\ (~echo.on => p = {})
  <2>1. p \in SUBSET (ControlValues \X Ages) /\ RecordsAreSends(p, echo.since)
    BY <1>1, PruneKeeps DEF EchoRecorded, Echoes
  <2>2. ~echo.on => p = {} BY <1>1 DEF EchoRecorded, Prune
  <2>3. QED BY <2>1, <2>2
<1>8. /\ ~SentLately(m.value) => w = m.value
      /\ SentLately(m.value) => w = echo.host
  BY <1>3
<1> HIDE DEF m, q, p, w
<1>9. /\ echo' \in Echoes /\ echo'.kind = echo.kind /\ echo'.on = echo.on /\ echo'.host = w
      /\ echo'.recent = p /\ echo'.since = echo.since /\ echo'.crossed = crossed
  BY <1>1, <1>4, <1>6, <1>7 DEF Echoes
<1>10. /\ control' \in Controls /\ control'.inbox = q /\ control'.wire = control.wire
       /\ control'.at = control.at
  BY <1>1, <1>2, <1>6 DEF Controls
<1>11. EchoTyped' BY <1>1, <1>6, <1>9, <1>10 DEF EchoTyped
<1>12. EchoRecorded' BY <1>7, <1>9 DEF EchoRecorded
<1>13. InFlight' <=> InFlight BY <1>6, <1>10 DEF InFlight
<1>14. Matches(echo.host, control.at)' <=> Matches(w, control.at) BY <1>9, <1>10 DEF Matches
<1>15. Crossless'
  <2>1. SUFFICES ASSUME ~crossed PROVE Crossless' BY <1>9 DEF Crossless
  <2>2. /\ ~echo.crossed
        /\ m.user => ~InFlight /\ (SentLately(m.value) => Matches(m.value, echo.host))
        /\ ~m.user => SentLately(m.value) \/ m.value = echo.host
    BY <1>5, <2>1
  <2>3. /\ control.wire # <<>> => LastOf(control.wire) = echo.host
        /\ \A t \in Senders : Writing(t) => sender[t].value = echo.host
        /\ \A t, u \in Senders : Writing(t) /\ Writing(u) => t = u
        /\ FromUser(control.inbox) =>
             ~InFlight /\ LastOf(control.inbox) = [value |-> control.at, user |-> TRUE]
        /\ ~InFlight /\ ~FromUser(control.inbox) => Matches(echo.host, control.at)
    BY <2>2 DEF EchoInv, Crossless
  <2>4. FromUser(q) => ~InFlight /\ LastOf(q) = [value |-> control.at, user |-> TRUE]
    BY <1>2, <2>3
  <2>5. CASE ~m.user
    <3>1. w = echo.host BY <1>8, <2>2, <2>5
    <3>2. ~InFlight /\ ~FromUser(q) => Matches(w, control.at) BY <1>2, <2>3, <2>5, <3>1
    <3>3. QED BY <1>6, <1>9, <1>10, <1>13, <1>14, <2>3, <2>4, <3>1, <3>2 DEF Crossless, Writing
  <2>6. CASE m.user
    <3>1. ~InFlight BY <2>2, <2>6
    <3>2. control'.wire = <<>> /\ \A t \in Senders : ~Writing(t)'
      BY <1>6, <1>10, <3>1 DEF InFlight, Writing
    <3>3. ~FromUser(q) => Matches(w, control.at)
      <4>1. SUFFICES ASSUME ~FromUser(q) PROVE Matches(w, control.at) OBVIOUS
      <4>2. LastOf(control.inbox) = [value |-> control.at, user |-> TRUE] BY <1>2, <2>3, <2>6
      <4>3. q = <<>>
        <5>1. SUFFICES ASSUME q # <<>> PROVE FALSE OBVIOUS
        <5>2. LastOf(q).user BY <1>2, <4>2, <5>1
        <5>3. Len(q) \in DOMAIN q BY <1>2, <5>1
        <5>4. QED BY <4>1, <5>2, <5>3 DEF FromUser, LastOf
      <4>4. m.value = control.at BY <1>2, <4>2, <4>3
      <4>5. CASE SentLately(m.value)
        <5>1. w = echo.host /\ Matches(m.value, echo.host) BY <1>8, <2>2, <2>6, <4>5
        <5>2. echo.host \in ControlValues BY <1>1 DEF Echoes
        <5>3. QED BY <1>3, <4>4, <5>1, <5>2, MatchesBothWays
      <4>6. CASE ~SentLately(m.value) BY <1>3, <1>8, <4>4, <4>6, MatchesBothWays
      <4>7. QED BY <4>5, <4>6
    <3>4. QED BY <1>9, <1>10, <1>13, <1>14, <2>4, <3>2, <3>3 DEF Crossless
  <2>7. QED BY <2>5, <2>6
<1>16. QED BY <1>11, <1>12, <1>15 DEF EchoInv

LEMMA UserMovesKeeps ==
  ASSUME EchoInv, NEW v \in ControlValues, UserMoves(v) PROVE EchoInv'
<1>1. /\ echo \in Echoes /\ sender \in [Senders -> Sends] /\ control \in Controls
      /\ EchoTyped /\ EchoRecorded
  BY DEF EchoInv, EchoTyped
<1> DEFINE m == [value |-> v, user |-> TRUE]
           q == Append(control.inbox, m)
<1>2. PICK crossed \in BOOLEAN : crossed = ((echo.crossed /\ ~NothingUnderWay) \/ InFlight) OBVIOUS
<1>3. /\ control' = [control EXCEPT !.at = v, !.inbox = q] /\ sender' = sender
      /\ echo' = [echo EXCEPT !.crossed = crossed]
  BY <1>1, <1>2 DEF UserMoves, Echoes, Controls
<1>4. m \in Messages /\ m.user BY DEF Messages
<1>5. q \in Seq(Messages) /\ LastOf(q) = m /\ FromUser(q)
  <2> HIDE DEF m
  <2>1. QED BY <1>1, <1>4, InboxGrows DEF Controls
<1> HIDE DEF q
<1>6. /\ echo' \in Echoes /\ echo'.kind = echo.kind /\ echo'.crossed = crossed
      /\ echo'.recent = echo.recent /\ echo'.since = echo.since /\ echo'.on = echo.on
  BY <1>1, <1>3 DEF Echoes
<1>7. control' \in Controls /\ control'.at = v /\ control'.inbox = q /\ control'.wire = control.wire
  BY <1>1, <1>3, <1>5 DEF Controls
<1>8. EchoTyped' BY <1>1, <1>3, <1>6, <1>7 DEF EchoTyped
<1>9. EchoRecorded' BY <1>1, <1>6 DEF EchoRecorded
<1>10. InFlight' <=> InFlight BY <1>3, <1>7 DEF InFlight
<1>11. ~crossed => /\ ~InFlight /\ control'.wire = <<>> /\ \A t \in Senders : ~Writing(t)'
  BY <1>2, <1>3, <1>7 DEF InFlight, Writing
<1>12. Crossless' BY <1>5, <1>6, <1>7, <1>10, <1>11 DEF Crossless
<1>13. QED BY <1>8, <1>9, <1>12 DEF EchoInv

\* the records and their ages change, and nothing of what is under way
LEMMA RecordsChange ==
  ASSUME EchoInv, control' = control, sender' = sender,
         NEW on \in BOOLEAN, NEW recent \in SUBSET (ControlValues \X Ages),
         NEW since \in [ControlValues -> Ages],
         echo' = [echo EXCEPT !.on = on, !.recent = recent, !.since = since],
         RecordsAreSends(recent, since), ~on => recent = {}
  PROVE  EchoInv'
<1>1. echo \in Echoes BY DEF EchoInv, EchoTyped
<1>2. /\ echo' \in Echoes /\ echo'.kind = echo.kind /\ echo'.host = echo.host
      /\ echo'.crossed = echo.crossed /\ echo'.on = on /\ echo'.recent = recent /\ echo'.since = since
  BY <1>1 DEF Echoes
<1>3. EchoTyped' BY <1>2 DEF EchoInv, EchoTyped
<1>4. EchoRecorded' BY <1>2 DEF EchoRecorded
<1>5. (InFlight' <=> InFlight) /\ (Matches(echo.host, control.at)' <=> Matches(echo.host, control.at))
  BY <1>2 DEF InFlight, Matches
<1>6. Crossless' BY <1>2, <1>5 DEF EchoInv, Crossless, Writing
<1>7. QED BY <1>3, <1>4, <1>6 DEF EchoInv

LEMMA TickEchoKeeps == ASSUME EchoInv, TickEcho PROVE EchoInv'
<1>1. /\ echo \in Echoes /\ EchoRecorded /\ echo.on \in BOOLEAN
      /\ echo.since \in [ControlValues -> Ages] /\ echo.recent \in SUBSET (ControlValues \X Ages)
  BY DEF EchoInv, EchoTyped, Echoes
<1> DEFINE older(a) == IF a <= Window THEN a + 1 ELSE a
           s == [v \in ControlValues |-> older(echo.since[v])]
           p == {<<r[1], older(r[2])>> : r \in echo.recent}
<1>2. echo' = [echo EXCEPT !.on = echo.on, !.recent = p, !.since = s]
  <2>1. echo' = [echo EXCEPT !.since = s, !.recent = p] BY <1>1 DEF TickEcho, Echoes
  <2> HIDE DEF s, p
  <2>2. QED BY <1>1, <2>1 DEF Echoes
<1>3. \A a \in Ages : older(a) \in Ages /\ \A b \in Ages : a <= b => older(a) <= older(b)
  BY EchoConstants DEF Ages
<1>4. s \in [ControlValues -> Ages] BY <1>1, <1>3
<1>5. p \in SUBSET (ControlValues \X Ages) BY <1>1, <1>3
<1>6. ASSUME NEW v \in ControlValues, s[v] <= Window PROVE <<v, s[v]>> \in p
  <2>1. echo.since[v] \in Ages /\ s[v] = older(echo.since[v]) BY <1>1
  <2>2. echo.since[v] <= Window BY <1>6, <2>1, EchoConstants DEF Ages
  <2>3. <<v, echo.since[v]>> \in echo.recent BY <1>1, <2>2 DEF EchoRecorded, RecordsAreSends
  <2>4. QED BY <2>1, <2>3
<1>7. ASSUME NEW r \in p PROVE s[r[1]] <= r[2]
  <2>1. PICK o \in echo.recent : r = <<o[1], older(o[2])>> BY <1>7
  <2>2. o[1] \in ControlValues /\ o[2] \in Ages /\ echo.since[o[1]] \in Ages BY <1>1, <2>1
  <2>3. echo.since[o[1]] <= o[2] BY <1>1, <2>1 DEF EchoRecorded, RecordsAreSends
  <2>4. older(echo.since[o[1]]) <= older(o[2]) BY <1>3, <2>2, <2>3
  <2>5. s[r[1]] = older(echo.since[o[1]]) /\ r[2] = older(o[2]) BY <2>1, <2>2
  <2>6. QED BY <2>4, <2>5
<1>8. RecordsAreSends(p, s)
  <2> HIDE DEF s, p
  <2>1. QED BY <1>6, <1>7 DEF RecordsAreSends
<1>9. ~echo.on => p = {} BY <1>1 DEF EchoRecorded
<1>10. control' = control /\ sender' = sender BY DEF TickEcho
<1> HIDE DEF s, p
<1>11. QED BY <1>1, <1>2, <1>4, <1>5, <1>8, <1>9, <1>10, RecordsChange

LEMMA ConfigureGuardKeeps == ASSUME EchoInv, NEW on \in BOOLEAN, ConfigureGuard(on) PROVE EchoInv'
<1>1. echo \in Echoes /\ EchoRecorded BY DEF EchoInv, EchoTyped
<1>2. on # echo.on /\ sender' = sender /\ control' = control
      /\ echo' = [echo EXCEPT !.on = on, !.recent = IF on THEN echo.recent ELSE {}, !.since = Over]
  BY <1>1 DEF ConfigureGuard, Echoes
<1>3. on => echo.recent = {} BY <1>1, <1>2 DEF EchoRecorded, Echoes
<1>4. echo' = [echo EXCEPT !.on = on, !.recent = {}, !.since = Over] BY <1>2, <1>3
<1>5. RecordsAreSends({}, Over)
  <2>1. \A v \in ControlValues : ~(Over[v] <= Window) BY EchoConstants DEF Over
  <2>2. QED BY <2>1 DEF RecordsAreSends
<1>6. {} \in SUBSET (ControlValues \X Ages) OBVIOUS
<1>7. QED BY <1>2, <1>4, <1>5, <1>6, EchoConstants, RecordsChange

LEMMA EchoKept == EchoInv /\ [EchoRuns \/ EchoWorld]_echoVars => EchoInv'
<1> SUFFICES ASSUME EchoInv, [EchoRuns \/ EchoWorld]_echoVars PROVE EchoInv' OBVIOUS
<1>1. CASE UNCHANGED echoVars
  BY <1>1 DEF echoVars, EchoInv, EchoTyped, EchoRecorded, Crossless, InFlight, Writing, Matches
<1>2. CASE HandleInputMessage \/ HandleInputMessages
  BY <1>2, HeardKeeps DEF HandleInputMessage, HandleInputMessages
<1>3. QED
  BY <1>1, <1>2, SendDatagramKeeps, BeginWriteKeeps, DeskTakesKeeps, WriteDoneKeeps,
     RecordWrittenKeeps, UserMovesKeeps, TickEchoKeeps, ConfigureGuardKeeps
     DEF EchoRuns, EchoWorld

\* What the program holds for a control and where the control is agree when nothing is
\* under way, for any window, tolerance, values and sends (MidiEchoGuard, OscEchoGuard).
THEOREM EchoSafety == EchoSpec => [](EchoTypeOK /\ ControlIsHeld)
<1>1. EchoSpec => []EchoInv BY EchoStarts, EchoKept, PTL DEF EchoSpec
<1>2. EchoInv => EchoTypeOK
  BY DEF EchoInv, EchoTyped, EchoRecorded, EchoTypeOK, Echoes, Sends, Controls, Messages
<1>3. ASSUME EchoInv PROVE ControlIsHeld
  <2>1. SUFFICES ASSUME NothingUnderWay, ~echo.crossed PROVE Matches(echo.host, control.at)
    BY DEF ControlIsHeld
  <2>2. ~InFlight /\ ~FromUser(control.inbox) BY <2>1 DEF NothingUnderWay, FromUser
  <2>3. QED BY <1>3, <2>1, <2>2 DEF EchoInv, Crossless
<1>4. QED BY <1>1, <1>2, <1>3, PTL

-----------------------------------------------------------------------------
(* The session with a desk (OscDesk).                                       *)

DeskSessions == [enabled : BOOLEAN, remote : Addresses, identity : Desks \cup {NoDesk}, booted : BOOLEAN,
             running : BOOLEAN, transport : BOOLEAN, to : Addresses,
             keepalive : {"none", "live", "ended"}, orphans : BOOLEAN, unbound : BOOLEAN,
             crossed : BOOLEAN]
Locations == [Desks -> Addresses \cup {Away}]
Scannings == [pc : {"idle", "found", "opening", "restarting", "syncing", "stopping"}, found : Locations]
DeskStates == [at : Addresses \cup {Away}, subscribed : BOOLEAN]

\* A stop that overlaps nothing is alone, and its adapter does not run; an adapter that is
\* enabled runs, or found its port taken, or has its socket opened; a running adapter has
\* its socket, and a loop or a task that will make one.
Attended ==
  /\ osc.running => ~osc.unbound
  /\ osc.booted /\ osc.enabled => osc.running \/ osc.unbound \/ \E t \in Tasks : scan[t].pc = "opening"
  /\ ~osc.crossed => \A t \in Tasks : scan[t].pc = "opening" => osc.enabled /\ osc.to = osc.remote
  /\ ~osc.crossed => \A t \in Tasks : scan[t].pc = "stopping" => ~osc.running /\ ~OthersBusy(t)
  /\ ~osc.crossed /\ osc.running =>
       /\ osc.enabled /\ osc.to = osc.remote
       /\ osc.transport
       /\ \/ osc.keepalive = "live" \/ osc.orphans
          \/ \E t \in Tasks : scan[t].pc \in {"restarting", "syncing"}

OscInv == OscTypeOK /\ Attended

LEMMA OscTyped ==
  OscTypeOK <=> /\ osc \in DeskSessions /\ scan \in [Tasks -> Scannings] /\ desk \in [Desks -> DeskStates]
                /\ osc.transport => osc.running \/ osc.crossed \/ Stopping
BY DEF OscTypeOK, DeskSessions, Scannings, DeskStates, Locations, Stopping

LEMMA NotScanning == NoScan \in Scannings /\ NoScan.pc = "idle"
BY DEF NoScan, Scannings, Locations

LEMMA OscStarts == OscInit => OscInv
<1> SUFFICES ASSUME OscInit PROVE OscInv OBVIOUS
<1>1. PICK a \in Addresses, b \in Addresses, i \in Desks \cup {NoDesk}, on \in BOOLEAN :
        /\ osc = [enabled |-> on, remote |-> a, identity |-> i, booted |-> FALSE, running |-> FALSE,
                  transport |-> FALSE, to |-> a, keepalive |-> "none", orphans |-> FALSE,
                  unbound |-> FALSE, crossed |-> FALSE]
        /\ desk \in {[d \in Desks |-> [at |-> IF d = e THEN b ELSE Away, subscribed |-> FALSE]] : e \in Desks}
  BY DEF OscInit
<1>2. scan = [t \in Tasks |-> NoScan] BY DEF OscInit
<1>3. osc \in DeskSessions BY <1>1 DEF DeskSessions
<1>4. /\ ~osc.running /\ ~osc.booted /\ ~osc.transport BY <1>1
<1>5. desk \in [Desks -> DeskStates]
  <2>1. PICK e \in Desks : desk = [d \in Desks |-> [at |-> IF d = e THEN b ELSE Away, subscribed |-> FALSE]]
    BY <1>1
  <2>2. \A d \in Desks : [at |-> IF d = e THEN b ELSE Away, subscribed |-> FALSE] \in DeskStates
    BY DEF DeskStates
  <2>3. QED BY <2>1, <2>2
<1>6. scan \in [Tasks -> Scannings] /\ \A t \in Tasks : scan[t].pc = "idle" BY <1>2, NotScanning
<1>7. OscTypeOK BY <1>3, <1>4, <1>5, <1>6, OscTyped
<1>8. Attended BY <1>4, <1>6 DEF Attended
<1>9. QED BY <1>7, <1>8 DEF OscInv

\* what a task does to the others: nothing
LEMMA ScanGoesKeeps ==
  ASSUME scan \in [Tasks -> Scannings], NEW t \in Tasks,
         NEW pc \in {"idle", "found", "opening", "restarting", "syncing", "stopping"}, GoesOn(t, pc)
  PROVE  /\ scan' \in [Tasks -> Scannings] /\ scan'[t].pc = pc
         /\ \A u \in Tasks \ {t} : scan'[u] = scan[u]
<1> DEFINE s == [NoScan EXCEPT !.pc = pc]
<1>1. s \in Scannings /\ s.pc = pc BY NotScanning DEF Scannings
<1>2. scan' = [scan EXCEPT ![t] = s] BY DEF GoesOn
<1> HIDE DEF s
<1>3. QED BY <1>1, <1>2

LEMMA SubscribedTyped ==
  ASSUME desk \in [Desks -> DeskStates], NEW o \in DeskSessions PROVE Subscribed(o) \in [Desks -> DeskStates]
<1>1. ASSUME NEW d \in Desks
      PROVE  [desk[d] EXCEPT !.subscribed = @ \/ (o.transport /\ desk[d].at = o.to)] \in DeskStates
  <2>1. PICK on \in BOOLEAN : on = (desk[d].subscribed \/ (o.transport /\ desk[d].at = o.to)) OBVIOUS
  <2>2. desk[d] \in DeskStates OBVIOUS
  <2>3. [desk[d] EXCEPT !.subscribed = on] \in DeskStates BY <2>2 DEF DeskStates
  <2>4. [desk[d] EXCEPT !.subscribed = @ \/ (o.transport /\ desk[d].at = o.to)]
          = [desk[d] EXCEPT !.subscribed = on]
    BY <2>1, <2>2 DEF DeskStates
  <2>5. QED BY <2>3, <2>4
<1>2. QED BY <1>1 DEF Subscribed

-----------------------------------------------------------------------------
\* A task that stops nothing comes to wait where the session is begun, begun anew or over.
LEMMA TaskGoesOn ==
  ASSUME OscInv, NEW t \in Tasks, NEW pc \in {"idle", "opening", "restarting", "syncing"}, GoesOn(t, pc),
         osc' \in DeskSessions, desk' \in [Desks -> DeskStates],
         scan[t].pc # "stopping",
         osc'.running => ~osc'.unbound,
         osc'.booted /\ osc'.enabled =>
           osc'.running \/ osc'.unbound \/ pc = "opening" \/ \E u \in Tasks \ {t} : scan[u].pc = "opening",
         osc.crossed => osc'.crossed,
         ~osc'.crossed /\ (pc = "opening" \/ \E u \in Tasks \ {t} : scan[u].pc = "opening") =>
           osc'.enabled /\ osc'.to = osc'.remote,
         ~osc'.crossed /\ Stopping => pc = "idle" /\ (osc'.running => osc.running),
         ~osc'.crossed /\ osc'.running =>
           /\ osc'.enabled /\ osc'.to = osc'.remote /\ osc'.transport
           /\ \/ pc \in {"restarting", "syncing"} \/ osc'.keepalive = "live"
              \/ /\ osc'.orphans = osc.orphans /\ osc'.keepalive = osc.keepalive
                 /\ osc.running /\ scan[t].pc \notin {"restarting", "syncing"},
         osc'.transport => osc'.running \/ (osc.transport /\ ~osc.running)
  PROVE  OscInv'
<1>1. /\ osc \in DeskSessions /\ scan \in [Tasks -> Scannings]
      /\ osc.transport => osc.running \/ osc.crossed \/ Stopping
  BY OscTyped DEF OscInv
<1>2. /\ scan' \in [Tasks -> Scannings] /\ scan'[t].pc = pc
      /\ \A u \in Tasks \ {t} : scan'[u] = scan[u]
  BY <1>1, ScanGoesKeeps
<1>3. Stopping => Stopping' BY <1>2 DEF Stopping
<1>4. OscTypeOK'
  <2>1. osc'.transport => osc'.running \/ osc'.crossed \/ Stopping' BY <1>1, <1>3
  <2>2. QED BY <1>2, <2>1 DEF OscTypeOK, DeskSessions, Scannings, DeskStates, Locations, Stopping
<1>5. ASSUME ~osc'.crossed, NEW u \in Tasks, scan'[u].pc = "stopping"
      PROVE  ~osc'.running /\ ~OthersBusy(u)'
  <2>1. u # t /\ scan[u].pc = "stopping" /\ Stopping BY <1>2, <1>5 DEF Stopping
  <2>2. ~osc.running /\ ~OthersBusy(u) /\ pc = "idle" /\ ~osc'.running
    BY <1>5, <2>1 DEF OscInv, Attended
  <2>3. \A v \in Tasks \ {u} : scan'[v].pc \in {"idle", "found"}
    BY <1>2, <2>2 DEF OthersBusy
  <2>4. QED BY <2>2, <2>3 DEF OthersBusy
<1>6. ASSUME ~osc'.crossed, osc'.running
      PROVE  osc'.keepalive = "live" \/ osc'.orphans
             \/ \E u \in Tasks : scan'[u].pc \in {"restarting", "syncing"}
  <2>1. CASE pc \in {"restarting", "syncing"} BY <1>2, <2>1
  <2>2. CASE osc'.keepalive = "live" BY <2>2
  <2>3. CASE /\ osc'.orphans = osc.orphans /\ osc'.keepalive = osc.keepalive
             /\ osc.running /\ scan[t].pc \notin {"restarting", "syncing"}
    <3>1. osc.keepalive = "live" \/ osc.orphans
          \/ \E u \in Tasks : scan[u].pc \in {"restarting", "syncing"}
      BY <1>6, <2>3 DEF OscInv, Attended
    <3>2. QED BY <1>2, <2>3, <3>1
  <2>4. QED BY <1>6, <2>1, <2>2, <2>3
<1>7. /\ osc'.booted /\ osc'.enabled =>
           osc'.running \/ osc'.unbound \/ \E u \in Tasks : scan'[u].pc = "opening"
      /\ ~osc'.crossed =>
           \A u \in Tasks : scan'[u].pc = "opening" => osc'.enabled /\ osc'.to = osc'.remote
  BY <1>2
<1>8. Attended' BY <1>5, <1>6, <1>7 DEF Attended
<1>9. QED BY <1>4, <1>8 DEF OscInv

LEMMA ApplyAdapterKeeps ==
  ASSUME OscInv, NEW t \in Tasks, scan[t].pc \in {"idle", "found"}, NEW o \in DeskSessions, ApplyAdapter(t, o),
         o.booted = osc.booted, o.running = osc.running, o.transport = osc.transport,
         o.keepalive = osc.keepalive, o.orphans = osc.orphans, o.unbound = osc.unbound
  PROVE  OscInv'
<1>1. /\ osc \in DeskSessions /\ scan \in [Tasks -> Scannings] /\ desk \in [Desks -> DeskStates]
      /\ osc.transport => osc.running \/ osc.crossed \/ Stopping
  BY OscTyped DEF OscInv
<1>2. PICK crossed \in BOOLEAN : crossed = (osc.crossed \/ Stopping \/ (~o.enabled /\ OthersBusy(t)))
  OBVIOUS
<1>3. CASE o.enabled /\ ~osc.running
  <2> DEFINE p == [o EXCEPT !.crossed = crossed]
  <2>1. Start(t, p) \/ StartFails(t, p) BY <1>2, <1>3 DEF ApplyAdapter
  <2>2. p \in DeskSessions /\ p.crossed = crossed /\ p.enabled /\ ~p.running /\ p.transport = osc.transport
    BY <1>3 DEF DeskSessions
  <2> HIDE DEF p
  <2>3. PICK unbound \in BOOLEAN, pc \in {"idle", "opening"} :
          /\ osc' = [p EXCEPT !.to = p.remote, !.unbound = unbound]
          /\ GoesOn(t, pc) /\ desk' = desk /\ (unbound \/ pc = "opening")
    <3>1. CASE Start(t, p)
      <4>1. osc' = [p EXCEPT !.to = p.remote, !.unbound = p.unbound] BY <2>2, <3>1 DEF Start, DeskSessions
      <4>2. p.unbound \in BOOLEAN BY <2>2 DEF DeskSessions
      <4>3. QED BY <3>1, <4>1, <4>2 DEF Start
    <3>2. CASE StartFails(t, p) BY <3>2 DEF StartFails
    <3>3. QED BY <2>1, <3>1, <3>2
  <2>4. /\ osc' \in DeskSessions /\ osc'.crossed = crossed /\ osc'.enabled /\ ~osc'.running
        /\ osc'.transport = osc.transport /\ osc'.to = osc'.remote /\ osc'.unbound = unbound
    BY <2>2, <2>3 DEF DeskSessions
  <2>5. (osc.crossed => crossed) /\ (~crossed => ~Stopping) BY <1>2
  <2>6. QED BY <1>1, <1>3, <2>3, <2>4, <2>5, TaskGoesOn
<1>4. CASE ~(o.enabled /\ ~osc.running)
  <2> DEFINE q == IF osc.running THEN LoopCancelled(o) ELSE o
  <2>1. /\ osc' = [q EXCEPT !.to = o.remote, !.running = @ /\ o.enabled, !.crossed = crossed]
        /\ GoesOn(t, IF o.enabled THEN "restarting" ELSE IF osc.running THEN "stopping" ELSE "idle")
        /\ desk' = desk
    BY <1>2, <1>4 DEF ApplyAdapter
  <2>2. /\ q \in DeskSessions /\ q.running = osc.running /\ q.enabled = o.enabled /\ q.remote = o.remote
        /\ q.transport = osc.transport /\ q.booted = osc.booted /\ q.orphans = osc.orphans
        /\ q.unbound = osc.unbound
        /\ ~osc.running => q.keepalive = osc.keepalive
    BY DEF LoopCancelled, DeskSessions
  <2> HIDE DEF q
  <2>3. PICK on \in BOOLEAN : on = (q.running /\ o.enabled) OBVIOUS
  <2>4. osc' = [q EXCEPT !.to = o.remote, !.running = on, !.crossed = crossed]
    BY <2>1, <2>2, <2>3 DEF DeskSessions
  <2>5. o.remote \in Addresses BY DEF DeskSessions
  <2>6. /\ osc' \in DeskSessions /\ osc'.running = on /\ osc'.enabled = o.enabled /\ osc'.remote = o.remote
        /\ osc'.to = o.remote /\ osc'.transport = osc.transport /\ osc'.booted = osc.booted
        /\ osc'.orphans = osc.orphans /\ osc'.crossed = crossed /\ osc'.keepalive = q.keepalive
        /\ osc'.unbound = osc.unbound
    BY <2>2, <2>4, <2>5 DEF DeskSessions
  <2>7. CASE o.enabled
    <3>1. osc.running /\ osc'.running /\ osc'.enabled BY <1>4, <2>2, <2>3, <2>6, <2>7
    <3>2. GoesOn(t, "restarting") BY <2>1, <2>7
    <3>3. (~osc'.crossed => osc'.transport) /\ ~osc'.unbound BY <1>2, <2>6, <3>1 DEF OscInv, Attended
    <3>4. ~osc'.crossed => ~Stopping BY <1>2, <2>6
    <3>5. QED BY <1>1, <1>2, <2>1, <2>6, <3>1, <3>2, <3>3, <3>4, TaskGoesOn
  <2>8. CASE ~o.enabled /\ ~osc.running
    <3>1. ~osc'.running /\ ~osc'.enabled BY <2>2, <2>3, <2>6, <2>8
    <3>2. GoesOn(t, "idle") BY <2>1, <2>8
    <3>3. ~osc'.crossed => ~Stopping /\ ~OthersBusy(t) BY <1>2, <2>6, <2>8
    <3>4. ~osc'.crossed => \A u \in Tasks \ {t} : scan[u].pc # "opening" BY <3>3 DEF OthersBusy
    <3>5. QED BY <1>1, <1>2, <2>1, <2>6, <2>8, <3>1, <3>2, <3>3, <3>4, TaskGoesOn
  <2>9. CASE ~o.enabled /\ osc.running
    <3>1. ~osc'.running /\ ~osc'.enabled BY <2>2, <2>3, <2>6, <2>9
    <3>2. GoesOn(t, "stopping") BY <2>1, <2>9
    <3>3. /\ scan' \in [Tasks -> Scannings] /\ scan'[t].pc = "stopping"
          /\ \A u \in Tasks \ {t} : scan'[u] = scan[u]
      BY <1>1, <3>2, ScanGoesKeeps
    <3>4. Stopping' BY <3>3 DEF Stopping
    <3>5. OscTypeOK'
      BY <1>1, <2>1, <2>6, <3>3, <3>4 DEF OscTypeOK, DeskSessions, Scannings, DeskStates, Locations, Stopping
    <3>6. ASSUME ~osc'.crossed, NEW u \in Tasks
          PROVE  scan'[u].pc # "opening" /\ (scan'[u].pc = "stopping" => ~OthersBusy(u)')
      <4>1. ~Stopping /\ ~OthersBusy(t) BY <1>2, <2>6, <2>9, <3>6
      <4>2. scan'[u].pc # "opening" BY <3>3, <4>1 DEF OthersBusy
      <4>3. scan'[u].pc = "stopping" => u = t BY <3>3, <4>1 DEF Stopping
      <4>4. QED BY <3>3, <4>1, <4>2, <4>3 DEF OthersBusy
    <3>7. Attended' BY <3>1, <3>6 DEF Attended
    <3>8. QED BY <3>5, <3>7 DEF OscInv
  <2>10. QED BY <2>7, <2>8, <2>9
<1>5. QED BY <1>3, <1>4

-----------------------------------------------------------------------------
\* what is common to the sessions that go on: a stop is alone
LEMMA NotStopping ==
  ASSUME OscInv, NEW t \in Tasks, scan[t].pc \in {"opening", "restarting", "syncing"}, ~osc.crossed
  PROVE  ~Stopping
<1>1. SUFFICES ASSUME NEW u \in Tasks, scan[u].pc = "stopping" PROVE FALSE BY DEF Stopping
<1>2. ~OthersBusy(u) BY <1>1 DEF OscInv, Attended
<1>3. QED BY <1>1, <1>2 DEF OthersBusy

LEMMA SocketOpenedKeeps ==
  ASSUME OscInv, NEW t \in Tasks, SocketOpened(t) PROVE OscInv'
<1> DEFINE p == [osc EXCEPT !.running = TRUE, !.transport = TRUE, !.unbound = FALSE]
<1>1. osc \in DeskSessions /\ desk \in [Desks -> DeskStates] /\ scan[t].pc = "opening"
  BY OscTyped DEF OscInv, SocketOpened
<1>2. /\ p \in DeskSessions /\ p.running /\ p.transport /\ ~p.unbound
      /\ p.enabled = osc.enabled /\ p.to = osc.to /\ p.remote = osc.remote /\ p.crossed = osc.crossed
  BY <1>1 DEF DeskSessions
<1>3. BeginSession(t, p) BY DEF SocketOpened
<1> HIDE DEF p
<1>4. osc' = p /\ GoesOn(t, "syncing") /\ desk' \in [Desks -> DeskStates]
  BY <1>1, <1>2, <1>3, SubscribedTyped DEF BeginSession
<1>5. ~osc.crossed => osc.enabled /\ osc.to = osc.remote /\ ~Stopping
  BY <1>1, NotStopping DEF OscInv, Attended
<1>6. QED BY <1>1, <1>2, <1>4, <1>5, TaskGoesOn

LEMMA SessionStartedKeeps ==
  ASSUME OscInv, NEW t \in Tasks, SessionStarted(t) PROVE OscInv'
<1>1. osc \in DeskSessions /\ desk \in [Desks -> DeskStates] BY OscTyped DEF OscInv
<1>2. PICK orphans \in BOOLEAN : orphans = (osc.orphans \/ osc.keepalive = "live") BY <1>1 DEF DeskSessions
<1>3. /\ osc' = [osc EXCEPT !.keepalive = "live", !.orphans = orphans]
      /\ GoesOn(t, "idle") /\ desk' = desk /\ scan[t].pc = "syncing"
  BY <1>1, <1>2 DEF SessionStarted, DeskSessions
<1>4. /\ osc' \in DeskSessions /\ osc'.keepalive = "live" /\ osc'.running = osc.running
      /\ osc'.enabled = osc.enabled /\ osc'.to = osc.to /\ osc'.remote = osc.remote
      /\ osc'.booted = osc.booted /\ osc'.crossed = osc.crossed /\ osc'.transport = osc.transport
      /\ osc'.unbound = osc.unbound
  BY <1>1, <1>3 DEF DeskSessions
<1>5. osc.transport => osc.running \/ osc.crossed \/ Stopping BY OscTyped DEF OscInv
<1>6. ~osc.crossed => ~Stopping BY <1>3, NotStopping
<1>7. QED BY <1>1, <1>3, <1>4, <1>5, <1>6, TaskGoesOn DEF OscInv, Attended

LEMMA SessionRestartsKeeps ==
  ASSUME OscInv, NEW t \in Tasks, SessionRestarts(t) PROVE OscInv'
<1> DEFINE p == Forgotten(osc)
<1>1. osc \in DeskSessions /\ desk \in [Desks -> DeskStates] /\ scan \in [Tasks -> Scannings]
  BY OscTyped DEF OscInv
<1>2. PICK orphans \in BOOLEAN : orphans = (osc.orphans \/ osc.keepalive = "live") BY <1>1 DEF DeskSessions
<1>3. p = [osc EXCEPT !.keepalive = "none", !.orphans = orphans] BY <1>1, <1>2 DEF Forgotten, DeskSessions
<1>4. /\ p \in DeskSessions /\ p.running = osc.running
      /\ p.enabled = osc.enabled /\ p.to = osc.to /\ p.remote = osc.remote
      /\ p.booted = osc.booted /\ p.crossed = osc.crossed /\ p.transport = osc.transport
      /\ p.unbound = osc.unbound
  BY <1>1, <1>3 DEF DeskSessions
<1> HIDE DEF p
<1>5. /\ osc' = p /\ GoesOn(t, "syncing") /\ desk' \in [Desks -> DeskStates]
      /\ scan[t].pc = "restarting"
  BY <1>1, <1>4, SubscribedTyped DEF SessionRestarts, BeginSession, p
<1>6. osc.transport => osc.running \/ osc.crossed \/ Stopping BY OscTyped DEF OscInv
<1>7. ~osc.crossed => ~Stopping BY <1>5, NotStopping
<1>8. QED BY <1>1, <1>4, <1>5, <1>6, <1>7, TaskGoesOn DEF OscInv, Attended

LEMMA SessionStoppedKeeps ==
  ASSUME OscInv, NEW t \in Tasks, SessionStopped(t) PROVE OscInv'
<1> DEFINE p == Forgotten(osc)
<1>1. osc \in DeskSessions /\ desk \in [Desks -> DeskStates] /\ scan \in [Tasks -> Scannings]
  BY OscTyped DEF OscInv
<1>2. PICK orphans \in BOOLEAN : orphans = (osc.orphans \/ osc.keepalive = "live") BY <1>1 DEF DeskSessions
<1>3. p = [osc EXCEPT !.keepalive = "none", !.orphans = orphans] BY <1>1, <1>2 DEF Forgotten, DeskSessions
<1>4. PICK crossed \in BOOLEAN : crossed = (osc.crossed /\ (osc.running \/ OthersBusy(t)))
  BY <1>1 DEF DeskSessions
<1>5. osc' = [osc EXCEPT !.keepalive = "none", !.orphans = orphans, !.transport = FALSE, !.crossed = crossed]
  BY <1>1, <1>3, <1>4 DEF SessionStopped, DeskSessions
<1>6. /\ osc' \in DeskSessions /\ osc'.running = osc.running /\ ~osc'.transport
      /\ osc'.enabled = osc.enabled /\ osc'.to = osc.to /\ osc'.remote = osc.remote
      /\ osc'.booted = osc.booted /\ osc'.crossed = crossed /\ osc'.unbound = osc.unbound
  BY <1>1, <1>5 DEF DeskSessions
<1>7. /\ GoesOn(t, "idle") /\ desk' = desk /\ scan[t].pc = "stopping" BY DEF SessionStopped
<1>8. /\ scan' \in [Tasks -> Scannings] /\ scan'[t].pc = "idle"
      /\ \A u \in Tasks \ {t} : scan'[u] = scan[u]
  BY <1>1, <1>7, ScanGoesKeeps
<1>9. OscTypeOK'
  BY <1>1, <1>6, <1>7, <1>8 DEF OscTypeOK, DeskSessions, Scannings, DeskStates, Locations
<1>10. ~crossed => ~osc.running /\ ~OthersBusy(t) BY <1>4, <1>7 DEF OscInv, Attended
<1>11. ASSUME ~crossed, NEW u \in Tasks, scan'[u].pc \in {"opening", "stopping"} PROVE FALSE
  BY <1>8, <1>10, <1>11 DEF OthersBusy
<1>12. osc'.booted /\ osc'.enabled =>
         osc'.running \/ osc'.unbound \/ \E u \in Tasks : scan'[u].pc = "opening"
  BY <1>6, <1>7, <1>8 DEF OscInv, Attended
<1>14. Attended'
  BY <1>6, <1>10, <1>11, <1>12 DEF OscInv, Attended
<1>15. QED BY <1>9, <1>14 DEF OscInv

LEMMA KeepAliveEndsKeeps == ASSUME OscInv, KeepAliveEnds PROVE OscInv'
<1>1. osc \in DeskSessions BY OscTyped DEF OscInv
<1>2. PICK k \in {"none", "ended"} : osc' = [osc EXCEPT !.keepalive = k, !.orphans = FALSE]
  BY <1>1 DEF KeepAliveEnds, LoopCancelled, DeskSessions
<1>3. /\ osc' \in DeskSessions /\ osc'.running = osc.running /\ osc'.enabled = osc.enabled
      /\ osc'.to = osc.to /\ osc'.remote = osc.remote /\ osc'.booted = osc.booted
      /\ osc'.crossed = osc.crossed /\ osc'.transport = osc.transport /\ osc'.unbound = osc.unbound
  BY <1>1, <1>2 DEF DeskSessions
<1>4. ~osc.running /\ scan' = scan /\ desk' = desk BY DEF KeepAliveEnds
<1>5. OscTypeOK' BY <1>3, <1>4 DEF OscInv, OscTypeOK, DeskSessions
<1>6. Attended' BY <1>3, <1>4 DEF OscInv, Attended, OthersBusy
<1>7. QED BY <1>5, <1>6 DEF OscInv

\* desks change, and the adapter and its tasks do not
LEMMA DeskChanges ==
  ASSUME OscInv, osc' = osc, scan' = scan, desk' \in [Desks -> DeskStates] PROVE OscInv'
<1>1. OscTypeOK' BY DEF OscInv, OscTypeOK, DeskStates
<1>2. Attended' BY DEF OscInv, Attended, OthersBusy
<1>3. QED BY <1>1, <1>2 DEF OscInv

-----------------------------------------------------------------------------
LEMMA LocatedTyped ==
  ASSUME NEW found \in Locations, NEW o \in DeskSessions
  PROVE  LET p == Located(found, o) IN
         /\ p \in DeskSessions /\ p.enabled = o.enabled /\ p.booted = o.booted /\ p.running = o.running
         /\ p.transport = o.transport /\ p.keepalive = o.keepalive /\ p.orphans = o.orphans
         /\ p.to = o.to /\ p.crossed = o.crossed /\ p.unbound = o.unbound
<1> DEFINE there == {d \in Desks : found[d] = o.remote}
           i == IF o.identity = NoDesk /\ there # {} THEN CHOOSE d \in there : TRUE ELSE o.identity
           r == IF i # NoDesk /\ found[i] # Away THEN found[i] ELSE o.remote
<1>1. i \in Desks \cup {NoDesk} BY DEF DeskSessions
<1> HIDE DEF i
<1>2. r \in Addresses BY <1>1 DEF DeskSessions, Locations
<1>3. Located(found, o) = [o EXCEPT !.identity = i, !.remote = r] BY DEF Located, i, DeskSessions
<1> HIDE DEF r
<1>4. QED BY <1>1, <1>2, <1>3 DEF DeskSessions

LEMMA ScanHearsKeeps == ASSUME OscInv, NEW s \in Scans, ScanHears(s) PROVE OscInv'
<1>1. /\ osc \in DeskSessions /\ desk \in [Desks -> DeskStates] /\ scan \in [Tasks -> Scannings]
      /\ s \in Tasks
  BY OscTyped DEF OscInv, Tasks
<1> DEFINE f == [d \in Desks |-> desk[d].at]
           p == [pc |-> "found", found |-> f]
<1>2. f \in Locations BY <1>1 DEF Locations, DeskStates
<1>3. scan' = [scan EXCEPT ![s] = p] /\ osc' = osc /\ desk' = desk /\ scan[s].pc = "idle"
  BY DEF ScanHears
<1> HIDE DEF f
<1>4. p \in Scannings /\ p.pc = "found" BY <1>2 DEF Scannings
<1> HIDE DEF p
<1>5. /\ scan' \in [Tasks -> Scannings] /\ scan'[s].pc = "found"
      /\ \A u \in Tasks \ {s} : scan'[u] = scan[u]
  BY <1>1, <1>3, <1>4
<1>6. \A u \in Tasks : /\ scan'[u].pc = "stopping" <=> scan[u].pc = "stopping"
                       /\ scan'[u].pc \notin {"idle", "found"} <=> scan[u].pc \notin {"idle", "found"}
                       /\ scan'[u].pc = "opening" <=> scan[u].pc = "opening"
                       /\ scan'[u].pc \in {"restarting", "syncing"} <=> scan[u].pc \in {"restarting", "syncing"}
  BY <1>3, <1>5
<1>7. OscTypeOK'
  BY <1>1, <1>3, <1>5, <1>6 DEF OscInv, OscTypeOK, DeskSessions, Scannings, DeskStates, Locations
<1>8. \A u \in Tasks : OthersBusy(u)' <=> OthersBusy(u) BY <1>6 DEF OthersBusy
<1>9. Attended' BY <1>3, <1>6, <1>8 DEF OscInv, Attended
<1>10. QED BY <1>7, <1>9 DEF OscInv

LEMMA ScanAppliesKeeps == ASSUME OscInv, NEW s \in Scans, ScanApplies(s) PROVE OscInv'
<1>1. /\ osc \in DeskSessions /\ desk \in [Desks -> DeskStates] /\ scan \in [Tasks -> Scannings]
      /\ s \in Tasks
      /\ osc.transport => osc.running \/ osc.crossed \/ Stopping
  BY OscTyped DEF OscInv, Tasks
<1>2. scan[s].found \in Locations BY <1>1 DEF Scannings
<1>3. PICK o \in DeskSessions :
        /\ o = Located(scan[s].found, osc)
        /\ o.enabled = osc.enabled /\ o.booted = osc.booted /\ o.running = osc.running
        /\ o.transport = osc.transport /\ o.keepalive = osc.keepalive /\ o.orphans = osc.orphans
        /\ o.to = osc.to /\ o.crossed = osc.crossed /\ o.unbound = osc.unbound
  BY <1>1, <1>2, LocatedTyped
<1>4. scan[s].pc = "found" /\ Relocate(s, o) BY <1>3 DEF ScanApplies
<1>5. CASE o.enabled /\ o.remote # osc.remote
  <2>1. ApplyAdapter(s, o) BY <1>4, <1>5 DEF Relocate
  <2>2. QED BY <1>1, <1>3, <1>4, <2>1, ApplyAdapterKeeps
<1>6. CASE ~(o.enabled /\ o.remote # osc.remote)
  <2>1. osc' = o /\ GoesOn(s, "idle") /\ desk' = desk BY <1>4, <1>6 DEF Relocate
  <2>2. osc.enabled => o.remote = osc.remote BY <1>3, <1>6
  <2>3. QED BY <1>1, <1>3, <1>4, <2>1, <2>2, TaskGoesOn DEF OscInv, Attended
<1>7. QED BY <1>5, <1>6

LEMMA BootKeeps == ASSUME OscInv, NEW s \in Scans, Boot(s) PROVE OscInv'
<1>1. /\ osc \in DeskSessions /\ desk \in [Desks -> DeskStates] /\ scan \in [Tasks -> Scannings]
      /\ s \in Tasks
  BY OscTyped DEF OscInv, Tasks
<1>2. \A t \in Tasks : scan[t].pc = "idle" BY DEF Boot
<1>3. CASE osc.enabled
  <2> DEFINE p == [osc EXCEPT !.booted = TRUE, !.to = osc.remote]
  <2>1. osc' = p /\ GoesOn(s, "opening") /\ desk' = desk BY <1>1, <1>3 DEF Boot, Start, DeskSessions
  <2>2. /\ p \in DeskSessions /\ p.running = osc.running /\ p.transport = osc.transport /\ p.to = p.remote
        /\ p.enabled /\ p.crossed = osc.crossed /\ p.unbound = osc.unbound
        /\ p.keepalive = osc.keepalive /\ p.orphans = osc.orphans
    BY <1>1, <1>3 DEF DeskSessions
  <2> HIDE DEF p
  <2>3. ~Stopping /\ scan[s].pc = "idle" BY <1>1, <1>2 DEF Stopping
  <2>4. osc.transport => osc.running \/ osc.crossed BY <2>3, OscTyped DEF OscInv
  <2>5. QED BY <1>1, <2>1, <2>2, <2>3, <2>4, TaskGoesOn DEF OscInv, Attended
<1>4. CASE ~osc.enabled
  <2>1. osc' = [osc EXCEPT !.booted = TRUE] /\ scan' = scan /\ desk' = desk BY <1>4 DEF Boot
  <2>2. /\ osc' \in DeskSessions /\ osc'.running = osc.running /\ osc'.enabled = osc.enabled
        /\ osc'.to = osc.to /\ osc'.remote = osc.remote /\ osc'.keepalive = osc.keepalive
        /\ osc'.crossed = osc.crossed /\ osc'.transport = osc.transport /\ osc'.orphans = osc.orphans
        /\ osc'.unbound = osc.unbound
    BY <1>1, <2>1 DEF DeskSessions
  <2>3. OscTypeOK' BY <2>1, <2>2 DEF OscInv, OscTypeOK, DeskSessions
  <2>4. Attended' BY <1>4, <2>1, <2>2 DEF OscInv, Attended, OthersBusy
  <2>5. QED BY <2>3, <2>4 DEF OscInv
<1>5. QED BY <1>3, <1>4

LEMMA EditAdapterKeeps ==
  ASSUME OscInv, NEW e \in Edits, NEW enabled \in BOOLEAN, NEW remote \in Addresses,
         NEW cleared \in BOOLEAN, EditAdapter(e, enabled, remote, cleared)
  PROVE  OscInv'
<1> DEFINE o == [osc EXCEPT !.enabled = enabled, !.remote = remote,
                            !.identity = IF cleared THEN NoDesk ELSE @]
<1>1. osc \in DeskSessions /\ e \in Tasks BY OscTyped DEF OscInv, Tasks
<1>2. /\ o \in DeskSessions /\ o.booted = osc.booted /\ o.running = osc.running
      /\ o.transport = osc.transport /\ o.keepalive = osc.keepalive /\ o.orphans = osc.orphans
      /\ o.unbound = osc.unbound
  BY <1>1 DEF DeskSessions
<1>3. ApplyAdapter(e, o) /\ scan[e].pc = "idle" BY DEF EditAdapter
<1> HIDE DEF o
<1>4. QED BY <1>1, <1>2, <1>3, ApplyAdapterKeeps

LEMMA OscKept == OscInv /\ [OscRuns \/ OscWorld]_oscVars => OscInv'
<1> SUFFICES ASSUME OscInv, [OscRuns \/ OscWorld]_oscVars PROVE OscInv' OBVIOUS
<1>1. osc \in DeskSessions /\ desk \in [Desks -> DeskStates] BY OscTyped DEF OscInv
<1>2. CASE KeepAlive
  BY <1>1, <1>2, SubscribedTyped, DeskChanges DEF KeepAlive
<1>3. ASSUME NEW d \in Desks, SubscriptionLapses(d) PROVE OscInv'
  <2> DEFINE q == [desk[d] EXCEPT !.subscribed = FALSE]
  <2>1. desk' = [desk EXCEPT ![d] = q] /\ osc' = osc /\ scan' = scan BY <1>1, <1>3 DEF SubscriptionLapses
  <2>2. q \in DeskStates BY <1>1 DEF DeskStates
  <2> HIDE DEF q
  <2>3. QED BY <1>1, <2>1, <2>2, DeskChanges
<1>4. ASSUME NEW d \in Desks, NEW a \in Addresses \cup {Away}, DeskReaddressed(d, a) PROVE OscInv'
  <2> DEFINE q == [at |-> a, subscribed |-> FALSE]
  <2>1. desk' = [desk EXCEPT ![d] = q] /\ osc' = osc /\ scan' = scan BY <1>4 DEF DeskReaddressed
  <2>2. q \in DeskStates BY DEF DeskStates
  <2> HIDE DEF q
  <2>3. QED BY <1>1, <2>1, <2>2, DeskChanges
<1>5. CASE UNCHANGED oscVars BY <1>1, <1>5, DeskChanges DEF oscVars
<1>6. QED
  BY <1>2, <1>3, <1>4, <1>5, KeepAliveEndsKeeps, SocketOpenedKeeps, SessionStartedKeeps, SessionRestartsKeeps,
     SessionStoppedKeeps, ScanHearsKeeps, ScanAppliesKeeps, BootKeeps, EditAdapterKeeps
     DEF OscRuns, OscWorld

\* Between requests and scans the adapter of a desk is what is configured, and renews its
\* subscription, for any desks, addresses, scans and requests that no stop overlaps
\* (OscAdapter, OscDeskDiscoveryManager, _apply_osc_runtime_adapter()).
THEOREM OscSafety == OscSpec => [](OscTypeOK /\ SessionIsKept)
<1>1. OscSpec => []OscInv BY OscStarts, OscKept, PTL DEF OscSpec
<1>2. OscInv => OscTypeOK /\ SessionIsKept BY DEF OscInv, Attended, SessionIsKept
<1>3. QED BY <1>1, <1>2, PTL
=============================================================================
