---------------------------- MODULE ComponentProofs ----------------------------
(***************************************************************************)
(* Proofs about the components of Components one after the other, and      *)
(* about all of them side by side: every variable has its type, and what   *)
(* is at rest agrees with what it follows.  Each component is proved for   *)
(* any values of its own constants, under its own specification; adapters  *)
(* of devices are in AdapterProofs, what the web server does in WebProofs. *)
(***************************************************************************)
EXTENDS Components, AdapterProofs, WebProofs, FiniteSetTheorems, SequenceTheorems,
        WellFoundedInduction, TLAPS

-----------------------------------------------------------------------------
(* The announcer of RTP-MIDI sessions and the calls that change it          *)
(* (RtpSessions): what is configured is announced, and once, as long as no   *)
(* calls cross.                                                              *)

Managers == [config : Configs, slot : Sessions \cup {Gone, Dead}, air : [Sessions -> Nat],
             crossed : BOOLEAN, failed : BOOLEAN]
CallStates == [pc : {"idle", "stopping", "starting", "refreshing"},
               config : Configs, holds : Sessions \cup {Gone}]

HoldsSession(x, s) == x.pc \in {"stopping", "refreshing"} /\ x.holds = s
Owns(x, s) == HoldsSession(x, s) \/ (x.pc = "starting" /\ x.config = s)
Underway(x) == x.pc # "idle"

One(b) == IF b THEN 1 ELSE 0
Holders(s) == {c \in Calls : HoldsSession(call[c], s)}
Owners(s) == {c \in Calls : Owns(call[c], s)}

-----------------------------------------------------------------------------
(* The invariant. *)

RtpTyped ==
  /\ rtp \in Managers /\ call \in [Calls -> CallStates]
  /\ \A c \in Calls :
       /\ call[c].pc \in {"stopping", "refreshing"} => call[c].holds \in Sessions
       /\ call[c].pc = "starting" => call[c].config \in Sessions

\* A process runs for each call that is to end or to take up one, and for the slot.
Counted ==
  \A s \in Sessions : rtp.air[s] >= Cardinality(Owners(s)) + One(rtp.slot = s)

\* The session that is configured is about to be applied, or outlives the calls that end it.
ConfiguredKept ==
  ~rtp.failed /\ rtp.config \in Sessions =>
    \/ \E c \in Calls : Underway(call[c]) /\ call[c].config = rtp.config
    \/ rtp.air[rtp.config] > Cardinality(Holders(rtp.config))

\* Without calls that crossed, one process runs: that of the call or that of the slot.
Exact ==
  ~rtp.crossed =>
    /\ \A c, d \in Calls : Underway(call[c]) /\ Underway(call[d]) => c = d
    /\ \A c \in Calls : Underway(call[c]) =>
         /\ rtp.slot \notin Sessions /\ call[c].config = rtp.config
         /\ \A s \in Sessions : rtp.air[s] = One(Owns(call[c], s))
    /\ Quiet => \A s \in Sessions :
         /\ rtp.air[s] = One(rtp.slot = s)
         /\ ~rtp.failed => (rtp.slot = s <=> rtp.config = s)

RtpInv == RtpTyped /\ Counted /\ ConfiguredKept /\ Exact

-----------------------------------------------------------------------------
(* How one call changes the counts. *)

LEMMA CountOfChange ==
  ASSUME NEW A, IsFiniteSet(A), NEW c, NEW was \in BOOLEAN, NEW is \in BOOLEAN, NEW B,
         was <=> c \in A, is <=> c \in B, \A d : d # c => (d \in A <=> d \in B)
  PROVE  /\ Cardinality(A) \in Nat /\ Cardinality(B) \in Nat
         /\ Cardinality(B) = Cardinality(A) - One(was) + One(is)
<1>1. IsFiniteSet(A \ {c}) /\ IsFiniteSet(A \cup {c})
  BY FS_RemoveElement, FS_AddElement
<1>2. /\ Cardinality(A \cup {c}) = IF c \in A THEN Cardinality(A) ELSE Cardinality(A) + 1
      /\ Cardinality(A \ {c}) = IF c \in A THEN Cardinality(A) - 1 ELSE Cardinality(A)
  BY FS_RemoveElement, FS_AddElement
<1>3. Cardinality(A) \in Nat BY FS_CardinalityType
<1>4. Cardinality(A \ {c}) \in Nat /\ Cardinality(A \cup {c}) \in Nat BY <1>1, FS_CardinalityType
<1>5. CASE is /\ was
  <2>1. B = A BY <1>5
  <2>2. QED BY <1>3, <1>5, <2>1 DEF One
<1>6. CASE ~is /\ ~was
  <2>1. B = A BY <1>6
  <2>2. QED BY <1>3, <1>6, <2>1 DEF One
<1>7. CASE is /\ ~was
  <2>1. B = A \cup {c} BY <1>7
  <2>2. QED BY <1>2, <1>3, <1>4, <1>7, <2>1 DEF One
<1>8. CASE ~is /\ was
  <2>1. B = A \ {c} BY <1>8
  <2>2. QED BY <1>2, <1>3, <1>4, <1>8, <2>1 DEF One
<1>9. QED BY <1>5, <1>6, <1>7, <1>8

LEMMA CallChanges ==
  ASSUME RtpTyped, NEW c \in Calls, NEW x \in CallStates, call' = [call EXCEPT ![c] = x], NEW s \in Sessions
  PROVE  /\ Cardinality(Owners(s)) \in Nat /\ Cardinality(Owners(s)') \in Nat
         /\ Cardinality(Holders(s)) \in Nat /\ Cardinality(Holders(s)') \in Nat
         /\ Cardinality(Owners(s)') = Cardinality(Owners(s)) - One(Owns(call[c], s)) + One(Owns(x, s))
         /\ Cardinality(Holders(s)') = Cardinality(Holders(s)) - One(HoldsSession(call[c], s)) + One(HoldsSession(x, s))
<1>1. call'[c] = x /\ \A d \in Calls : d # c => call'[d] = call[d] BY DEF RtpTyped
<1>2. IsFiniteSet(Owners(s)) /\ IsFiniteSet(Holders(s))
  <2>1. Owners(s) \subseteq Calls /\ Holders(s) \subseteq Calls BY DEF Owners, Holders
  <2>2. QED BY <2>1, RtpAssumption, FS_Subset
<1>3. /\ Owns(call[c], s) \in BOOLEAN /\ Owns(x, s) \in BOOLEAN
      /\ HoldsSession(call[c], s) \in BOOLEAN /\ HoldsSession(x, s) \in BOOLEAN BY DEF Owns, HoldsSession
<1>4. /\ Owns(call[c], s) <=> c \in Owners(s)
      /\ Owns(x, s) <=> c \in Owners(s)'
      /\ \A d : d # c => (d \in Owners(s) <=> d \in Owners(s)')
  BY <1>1 DEF Owners
<1>5. /\ HoldsSession(call[c], s) <=> c \in Holders(s)
      /\ HoldsSession(x, s) <=> c \in Holders(s)'
      /\ \A d : d # c => (d \in Holders(s) <=> d \in Holders(s)')
  BY <1>1 DEF Holders
<1> DEFINE OA == Owners(s)
           OB == Owners(s)'
           HA == Holders(s)
           HB == Holders(s)'
           ow == Owns(call[c], s)
           oi == Owns(x, s)
           hw == HoldsSession(call[c], s)
           hi == HoldsSession(x, s)
<1>6. Cardinality(OA) \in Nat /\ Cardinality(OB) \in Nat /\ Cardinality(OB) = Cardinality(OA) - One(ow) + One(oi)
  <2> HIDE DEF OA, OB, ow, oi
  <2>1. QED BY <1>2, <1>3, <1>4, CountOfChange DEF OA, OB, ow, oi
<1>7. Cardinality(HA) \in Nat /\ Cardinality(HB) \in Nat /\ Cardinality(HB) = Cardinality(HA) - One(hw) + One(hi)
  <2> HIDE DEF HA, HB, hw, hi
  <2>1. QED BY <1>2, <1>3, <1>5, CountOfChange DEF HA, HB, hw, hi
<1>8. QED BY <1>6, <1>7

\* A call that is to take its announcer up is not among those that end one.
LEMMA StarterOwns ==
  ASSUME RtpTyped, NEW s \in Sessions, NEW c \in Calls, Owns(call[c], s), ~HoldsSession(call[c], s)
  PROVE  Cardinality(Owners(s)) >= Cardinality(Holders(s)) + 1
<1> DEFINE rest == Owners(s) \ {c}
<1>1. IsFiniteSet(Owners(s))
  <2>1. Owners(s) \subseteq Calls BY DEF Owners
  <2>2. QED BY <2>1, RtpAssumption, FS_Subset
<1>2. c \in Owners(s) BY DEF Owners
<1>3. IsFiniteSet(rest) /\ Cardinality(rest) = Cardinality(Owners(s)) - 1
  BY <1>1, <1>2, FS_RemoveElement
<1>4. Holders(s) \subseteq rest BY DEF Holders, Owners, Owns
<1> HIDE DEF rest
<1>5. IsFiniteSet(Holders(s)) /\ Cardinality(Holders(s)) <= Cardinality(rest) BY <1>3, <1>4, FS_Subset
<1>6. Cardinality(Owners(s)) \in Nat /\ Cardinality(Holders(s)) \in Nat
  BY <1>1, <1>5, FS_CardinalityType
<1>7. QED BY <1>3, <1>5, <1>6

\* A step of one call after which no session has fewer processes than are accounted for,
\* and the session that is configured is either applied by that call or none of its business.
LEMMA StepKeeps ==
  ASSUME RtpTyped, Counted, ConfiguredKept, NEW c \in Calls, NEW x \in CallStates,
         call' = [call EXCEPT ![c] = x], rtp' \in Managers,
         x.pc \in {"stopping", "refreshing"} => x.holds \in Sessions,
         x.pc = "starting" => x.config \in Sessions,
         \A s \in Sessions :
           rtp'.air[s] - One(Owns(x, s)) - One(rtp'.slot = s)
             >= rtp.air[s] - One(Owns(call[c], s)) - One(rtp.slot = s),
         \A s \in Sessions : ~rtp'.failed /\ rtp'.config = s =>
           \/ Underway(x) /\ x.config = s
           \/ /\ rtp.config = s /\ ~rtp.failed /\ (Underway(call[c]) => call[c].config # s)
              /\ ~HoldsSession(x, s) /\ rtp'.air[s] = rtp.air[s] - One(HoldsSession(call[c], s))
           \/ Owns(call[c], s) /\ ~HoldsSession(call[c], s) /\ ~HoldsSession(x, s) /\ rtp'.air[s] = rtp.air[s]
  PROVE  RtpTyped' /\ Counted' /\ ConfiguredKept'
<1>1. call'[c] = x /\ \A d \in Calls : d # c => call'[d] = call[d] BY DEF RtpTyped
<1>2. \A s \in Sessions : rtp.air[s] \in Nat /\ rtp'.air[s] \in Nat BY DEF RtpTyped, Managers
<1>3. RtpTyped' BY <1>1 DEF RtpTyped
<1>4. Counted'
  <2>1. ASSUME NEW s \in Sessions
        PROVE  rtp'.air[s] >= Cardinality(Owners(s)') + One(rtp'.slot = s)
    <3>1. rtp.air[s] >= Cardinality(Owners(s)) + One(rtp.slot = s) BY DEF Counted
    <3>2. rtp'.air[s] - One(Owns(x, s)) - One(rtp'.slot = s)
            >= rtp.air[s] - One(Owns(call[c], s)) - One(rtp.slot = s) OBVIOUS
    <3>3. /\ Cardinality(Owners(s)) \in Nat /\ Cardinality(Owners(s)') \in Nat
          /\ Cardinality(Owners(s)') = Cardinality(Owners(s)) - One(Owns(call[c], s)) + One(Owns(x, s))
      BY CallChanges
    <3>4. /\ One(Owns(x, s)) \in Nat /\ One(rtp'.slot = s) \in Nat
          /\ One(Owns(call[c], s)) \in Nat /\ One(rtp.slot = s) \in Nat BY DEF One
    <3>5. QED BY <1>2, <3>1, <3>2, <3>3, <3>4
  <2>2. QED BY <2>1 DEF Counted
<1>5. ConfiguredKept'
  <2> SUFFICES ASSUME ~rtp'.failed, NEW s \in Sessions, rtp'.config = s
               PROVE  \/ \E d \in Calls : Underway(call'[d]) /\ call'[d].config = s
                      \/ rtp'.air[s] > Cardinality(Holders(s)')
    BY DEF ConfiguredKept, Holders
  <2>1. /\ Cardinality(Holders(s)) \in Nat /\ Cardinality(Holders(s)') \in Nat
        /\ Cardinality(Owners(s)) \in Nat
        /\ Cardinality(Holders(s)') = Cardinality(Holders(s)) - One(HoldsSession(call[c], s)) + One(HoldsSession(x, s))
    BY CallChanges
  <2>2. CASE Underway(x) /\ x.config = s BY <1>1, <2>2
  <2>3. CASE /\ rtp.config = s /\ ~rtp.failed /\ (Underway(call[c]) => call[c].config # s)
             /\ ~HoldsSession(x, s) /\ rtp'.air[s] = rtp.air[s] - One(HoldsSession(call[c], s))
    <3>1. CASE \E d \in Calls : Underway(call[d]) /\ call[d].config = s BY <1>1, <2>3, <3>1
    <3>2. CASE rtp.air[s] > Cardinality(Holders(s))
      <4>1. One(HoldsSession(x, s)) = 0 /\ One(HoldsSession(call[c], s)) \in Nat BY <2>3 DEF One
      <4>2. rtp'.air[s] > Cardinality(Holders(s)') BY <1>2, <2>1, <2>3, <3>2, <4>1
      <4>3. QED BY <4>2
    <3>3. QED BY <2>3, <3>1, <3>2 DEF ConfiguredKept
  <2>4. CASE Owns(call[c], s) /\ ~HoldsSession(call[c], s) /\ ~HoldsSession(x, s) /\ rtp'.air[s] = rtp.air[s]
    <3>1. Cardinality(Owners(s)) >= Cardinality(Holders(s)) + 1 BY <2>4, StarterOwns
    <3>2. rtp.air[s] >= Cardinality(Owners(s)) + One(rtp.slot = s) BY DEF Counted
    <3>3. One(HoldsSession(x, s)) = 0 /\ One(HoldsSession(call[c], s)) = 0 /\ One(rtp.slot = s) \in Nat
      BY <2>4 DEF One
    <3>4. rtp'.air[s] > Cardinality(Holders(s)') BY <1>2, <2>1, <2>4, <3>1, <3>2, <3>3
    <3>5. QED BY <3>4
  <2>5. QED BY <2>2, <2>3, <2>4
<1>6. QED BY <1>3, <1>4, <1>5

\* A step of the only call there is.
LEMMA StepExact ==
  ASSUME RtpTyped, NEW c \in Calls, NEW x \in CallStates, call' = [call EXCEPT ![c] = x],
         ~rtp'.crossed =>
           /\ \A d \in Calls : Underway(call[d]) => d = c
           /\ Underway(x) =>
                /\ rtp'.slot \notin Sessions /\ x.config = rtp'.config
                /\ \A s \in Sessions : rtp'.air[s] = One(Owns(x, s))
           /\ ~Underway(x) => \A s \in Sessions :
                /\ rtp'.air[s] = One(rtp'.slot = s)
                /\ ~rtp'.failed => (rtp'.slot = s <=> rtp'.config = s)
  PROVE  Exact'
<1>1. call'[c] = x /\ \A d \in Calls : d # c => call'[d] = call[d] BY DEF RtpTyped
<1> SUFFICES ASSUME ~rtp'.crossed
             PROVE  /\ \A a, d \in Calls : Underway(call'[a]) /\ Underway(call'[d]) => a = d
                    /\ \A a \in Calls : Underway(call'[a]) =>
                         /\ rtp'.slot \notin Sessions /\ call'[a].config = rtp'.config
                         /\ \A s \in Sessions : rtp'.air[s] = One(Owns(call'[a], s))
                    /\ Quiet' => \A s \in Sessions :
                         /\ rtp'.air[s] = One(rtp'.slot = s)
                         /\ ~rtp'.failed => (rtp'.slot = s <=> rtp'.config = s)
  BY DEF Exact
<1>2. \A d \in Calls : Underway(call'[d]) => d = c BY <1>1
<1>3. Quiet' => ~Underway(x) BY <1>1 DEF Quiet, Underway
<1>4. QED BY <1>1, <1>2, <1>3

LEMMA OwnedRuns ==
  ASSUME RtpTyped, Counted, NEW c \in Calls, NEW s \in Sessions, Owns(call[c], s)
  PROVE  rtp.air[s] \in Nat \ {0}
<1>1. IsFiniteSet(Owners(s))
  <2>1. Owners(s) \subseteq Calls BY DEF Owners
  <2>2. QED BY <2>1, RtpAssumption, FS_Subset
<1>2. Owners(s) # {} BY DEF Owners
<1>3. Cardinality(Owners(s)) \in Nat \ {0} BY <1>1, <1>2, FS_CardinalityType, FS_EmptySet
<1>4. rtp.air[s] >= Cardinality(Owners(s)) + One(rtp.slot = s) /\ One(rtp.slot = s) \in Nat
  BY DEF Counted, One
<1>5. rtp.air[s] \in Nat BY DEF RtpTyped, Managers
<1>6. QED BY <1>3, <1>4, <1>5

LEMMA Names == Gone \in Configs /\ Gone \notin Sessions /\ Dead \notin Sessions /\ NoCall \in CallStates
  BY RtpAssumption DEF Configs, NoCall, CallStates

LEMMA LaunchFields ==
  ASSUME NEW r \in Managers, NEW session \in Configs, NEW m, m = Launched(r, session)
  PROVE  /\ m \in Managers /\ m.config = r.config /\ m.slot = r.slot
         /\ m.crossed = r.crossed /\ m.failed = r.failed
         /\ \A s \in Sessions : m.air[s] = r.air[s] + One(session = s)
<1>1. CASE session \in Sessions
  <2>1. m = [r EXCEPT !.air[session] = @ + 1] BY <1>1 DEF Launched
  <2>2. r.air[session] + 1 \in Nat BY <1>1 DEF Managers
  <2>3. QED BY <1>1, <2>1, <2>2 DEF Managers, One
<1>2. CASE session \notin Sessions
  <2>1. m = r BY <1>2 DEF Launched
  <2>2. \A s \in Sessions : r.air[s] \in Nat /\ One(session = s) = 0 BY <1>2 DEF Managers, One
  <2>3. QED BY <2>1, <2>2
<1>3. QED BY <1>1, <1>2

LEMMA EndFields ==
  ASSUME NEW r \in Managers, NEW session \in Sessions, r.air[session] \in Nat \ {0}, NEW m, m = Ended(r, session)
  PROVE  /\ m \in Managers /\ m.config = r.config /\ m.slot = r.slot
         /\ m.crossed = r.crossed /\ m.failed = r.failed
         /\ \A s \in Sessions : m.air[s] = r.air[s] - One(session = s)
<1>1. r.air[session] - 1 \in Nat OBVIOUS
<1>2. QED BY <1>1 DEF Ended, Managers, One

LEMMA LaunchingFields ==
  ASSUME NEW session \in Configs, NEW x, x = Launching(session)
  PROVE  /\ x \in CallStates /\ (Underway(x) <=> session \in Sessions)
         /\ x.pc \notin {"stopping", "refreshing"} /\ (x.pc = "starting" => x.config \in Sessions)
         /\ session \in Sessions => x.config = session
         /\ \A s \in Sessions : ~HoldsSession(x, s) /\ (Owns(x, s) <=> session = s)
  BY Names DEF Launching, NoCall, CallStates, Underway, HoldsSession, Owns

-----------------------------------------------------------------------------
(* The actions. *)

LEMMA AppliedKeeps ==
  ASSUME RtpTyped, Counted, ConfiguredKept, NEW c \in Calls, NEW config \in Configs, NEW r \in Managers,
         r.slot = rtp.slot, r.failed = rtp.failed, Applied(c, r, config),
         \A s \in Sessions : r.air[s] = rtp.air[s] - One(Owns(call[c], s)),
         ~r.crossed => /\ \A d \in Calls : Underway(call[d]) => d = c
                       /\ \A s \in Sessions : r.air[s] = One(rtp.slot = s)
  PROVE  RtpInv'
<1> DEFINE noted == [r EXCEPT !.config = config, !.slot = Gone]
<1>0. /\ noted \in Managers /\ noted.config = config /\ noted.slot = Gone
      /\ noted.crossed = r.crossed /\ noted.failed = r.failed /\ noted.air = r.air
  BY DEF Managers
<1>n. \A s \in Sessions : rtp.air[s] \in Nat /\ r.air[s] \in Nat BY DEF RtpTyped, Managers
<1>o. \A s \in Sessions : One(Owns(call[c], s)) \in Nat /\ One(rtp.slot = s) \in Nat BY DEF One
<1>1. CASE r.slot \in Sessions
  <2> DEFINE x == [pc |-> "stopping", config |-> config, holds |-> r.slot]
  <2>1. rtp' = noted /\ call' = [call EXCEPT ![c] = x] BY <1>1 DEF Applied
  <2>2. /\ x \in CallStates /\ Underway(x) /\ x.config = config /\ x.holds = rtp.slot /\ x.pc = "stopping"
        /\ \A s \in Sessions : Owns(x, s) <=> rtp.slot = s
    BY <1>1 DEF CallStates, Underway, Owns, HoldsSession
  <2> HIDE DEF x, noted
  <2>3. \A s \in Sessions : One(Owns(x, s)) = One(rtp.slot = s) /\ One(rtp'.slot = s) = 0
    BY <1>0, <2>1, <2>2, Names DEF One
  <2>4. \A s \in Sessions :
           rtp'.air[s] - One(Owns(x, s)) - One(rtp'.slot = s)
             >= rtp.air[s] - One(Owns(call[c], s)) - One(rtp.slot = s)
    BY <1>0, <1>n, <1>o, <2>1, <2>3
  <2>5. RtpTyped' /\ Counted' /\ ConfiguredKept'
    <3>1. \A s \in Sessions : ~rtp'.failed /\ rtp'.config = s =>
           \/ Underway(x) /\ x.config = s
           \/ /\ rtp.config = s /\ ~rtp.failed /\ (Underway(call[c]) => call[c].config # s)
              /\ ~HoldsSession(x, s) /\ rtp'.air[s] = rtp.air[s] - One(HoldsSession(call[c], s))
           \/ Owns(call[c], s) /\ ~HoldsSession(call[c], s) /\ ~HoldsSession(x, s) /\ rtp'.air[s] = rtp.air[s]
      BY <1>0, <2>1, <2>2
    <3>2. rtp' \in Managers /\ x.holds \in Sessions /\ x.pc # "starting" BY <1>0, <1>1, <2>1, <2>2
    <3>3. QED BY <2>1, <2>2, <2>4, <3>1, <3>2, StepKeeps
  <2>6. Exact'
    <3>1. ~rtp'.crossed => \A s \in Sessions : rtp'.air[s] = One(Owns(x, s)) BY <1>0, <2>1, <2>3
    <3>2. QED BY <1>0, <2>1, <2>2, <3>1, Names, StepExact
  <2>7. QED BY <2>5, <2>6 DEF RtpInv
<1>2. CASE r.slot \notin Sessions
  <2> DEFINE x == Launching(config)
  <2>1. rtp' = Launched(noted, config) /\ call' = [call EXCEPT ![c] = x] BY <1>2 DEF Applied
  <2>2. /\ x \in CallStates /\ (Underway(x) <=> config \in Sessions)
        /\ x.pc \notin {"stopping", "refreshing"} /\ (x.pc = "starting" => x.config \in Sessions)
        /\ config \in Sessions => x.config = config
        /\ \A s \in Sessions : ~HoldsSession(x, s) /\ (Owns(x, s) <=> config = s)
    BY LaunchingFields
  <2> HIDE DEF x, noted
  <2>3. /\ rtp' \in Managers /\ rtp'.config = config /\ rtp'.slot = Gone
        /\ rtp'.crossed = r.crossed /\ rtp'.failed = rtp.failed
        /\ \A s \in Sessions : rtp'.air[s] = r.air[s] + One(config = s)
    BY <1>0, <2>1, LaunchFields
  <2>4. \A s \in Sessions : /\ One(Owns(x, s)) = One(config = s) /\ One(rtp'.slot = s) = 0
                            /\ One(rtp.slot = s) = 0 /\ One(config = s) \in Nat
    BY <1>2, <2>2, <2>3, Names DEF One
  <2>5. \A s \in Sessions :
           rtp'.air[s] - One(Owns(x, s)) - One(rtp'.slot = s)
             >= rtp.air[s] - One(Owns(call[c], s)) - One(rtp.slot = s)
    BY <1>n, <1>o, <2>3, <2>4
  <2>6. RtpTyped' /\ Counted' /\ ConfiguredKept'
    <3>1. \A s \in Sessions : ~rtp'.failed /\ rtp'.config = s =>
           \/ Underway(x) /\ x.config = s
           \/ /\ rtp.config = s /\ ~rtp.failed /\ (Underway(call[c]) => call[c].config # s)
              /\ ~HoldsSession(x, s) /\ rtp'.air[s] = rtp.air[s] - One(HoldsSession(call[c], s))
           \/ Owns(call[c], s) /\ ~HoldsSession(call[c], s) /\ ~HoldsSession(x, s) /\ rtp'.air[s] = rtp.air[s]
      BY <2>2, <2>3
    <3>2. QED BY <2>1, <2>2, <2>3, <2>5, <3>1, StepKeeps
  <2>7. Exact'
    <3>1. ~rtp'.crossed => \A s \in Sessions : rtp'.air[s] = One(config = s) BY <1>n, <2>3, <2>4
    <3>2. config \notin Sessions => \A s \in Sessions : One(config = s) = 0 BY DEF One
    <3>3. ~rtp'.crossed =>
           /\ \A d \in Calls : Underway(call[d]) => d = c
           /\ Underway(x) =>
                /\ rtp'.slot \notin Sessions /\ x.config = rtp'.config
                /\ \A s \in Sessions : rtp'.air[s] = One(Owns(x, s))
      BY <2>2, <2>3, <2>4, <3>1, Names
    <3>4. ~rtp'.crossed =>
            (~Underway(x) => \A s \in Sessions :
                /\ rtp'.air[s] = One(rtp'.slot = s)
                /\ ~rtp'.failed => (rtp'.slot = s <=> rtp'.config = s))
      BY <2>2, <2>3, <2>4, <3>1, <3>2, Names
    <3>5. QED BY <2>1, <2>2, <3>3, <3>4, StepExact
  <2>8. QED BY <2>6, <2>7 DEF RtpInv
<1>3. QED BY <1>1, <1>2

\* A call begins: an uncrossed one finds no other.
LEMMA NoticedFields ==
  ASSUME RtpInv
  PROVE  /\ Noticed \in Managers /\ Noticed.slot = rtp.slot /\ Noticed.failed = rtp.failed
         /\ Noticed.config = rtp.config /\ Noticed.air = rtp.air
         /\ ~Noticed.crossed => /\ \A d \in Calls : ~Underway(call[d])
                                /\ \A s \in Sessions : rtp.air[s] = One(rtp.slot = s)
<1>1. rtp \in Managers BY DEF RtpInv, RtpTyped
<1>2. /\ Noticed \in Managers /\ Noticed.slot = rtp.slot /\ Noticed.failed = rtp.failed
      /\ Noticed.config = rtp.config /\ Noticed.air = rtp.air
  BY <1>1 DEF Noticed, Managers
<1>3. ~Noticed.crossed => ~rtp.crossed /\ Quiet BY <1>1 DEF Noticed, Managers
<1>4. QED BY <1>2, <1>3 DEF RtpInv, Exact, Quiet, Underway

LEMMA IdleApplies ==
  ASSUME RtpInv, NEW c \in Calls, NEW config \in Configs, call[c].pc = "idle", Applied(c, Noticed, config)
  PROVE  RtpInv'
<1>1. RtpTyped /\ Counted /\ ConfiguredKept BY DEF RtpInv
<1>2. \A s \in Sessions : One(Owns(call[c], s)) = 0 /\ rtp.air[s] \in Nat
  BY <1>1 DEF Owns, HoldsSession, One, RtpTyped, Managers
<1> DEFINE r == Noticed
<1>3. /\ r \in Managers /\ r.slot = rtp.slot /\ r.failed = rtp.failed /\ Applied(c, r, config)
      /\ \A s \in Sessions : r.air[s] = rtp.air[s] - One(Owns(call[c], s))
      /\ ~r.crossed => /\ \A d \in Calls : Underway(call[d]) => d = c
                       /\ \A s \in Sessions : r.air[s] = One(rtp.slot = s)
  BY <1>2, NoticedFields
<1> HIDE DEF r
<1>4. QED BY <1>1, <1>3, AppliedKeeps

LEMMA HaltedKeeps ==
  ASSUME RtpInv, NEW c \in Calls, Halted(c)
  PROVE  RtpInv'
<1> DEFINE k == call[c].config
           h == call[c].holds
           e == Ended(rtp, h)
           x == Launching(k)
<1>1. /\ RtpTyped /\ Counted /\ ConfiguredKept /\ Exact /\ rtp \in Managers /\ call[c].pc = "stopping"
      /\ k \in Configs /\ h \in Sessions
      /\ \A s \in Sessions : (Owns(call[c], s) <=> h = s) /\ (HoldsSession(call[c], s) <=> h = s)
  BY DEF RtpInv, RtpTyped, Halted, CallStates, Owns, HoldsSession
<1>2. rtp.air[h] \in Nat \ {0} BY <1>1, OwnedRuns
<1>3. /\ e \in Managers /\ e.config = rtp.config /\ e.slot = rtp.slot
      /\ e.crossed = rtp.crossed /\ e.failed = rtp.failed
      /\ \A s \in Sessions : e.air[s] = rtp.air[s] - One(h = s)
  BY <1>1, <1>2, EndFields
<1>4. rtp' = Launched(e, k) /\ call' = [call EXCEPT ![c] = x]
  BY <1>1 DEF Halted, RtpTyped
<1>5. /\ x \in CallStates /\ (Underway(x) <=> k \in Sessions)
      /\ x.pc \notin {"stopping", "refreshing"} /\ (x.pc = "starting" => x.config \in Sessions)
      /\ k \in Sessions => x.config = k
      /\ \A s \in Sessions : ~HoldsSession(x, s) /\ (Owns(x, s) <=> k = s)
  BY <1>1, LaunchingFields
<1> HIDE DEF e, x, k, h
<1>6. /\ rtp' \in Managers /\ rtp'.config = rtp.config /\ rtp'.slot = rtp.slot
      /\ rtp'.crossed = rtp.crossed /\ rtp'.failed = rtp.failed
      /\ \A s \in Sessions : rtp'.air[s] = rtp.air[s] - One(h = s) + One(k = s)
  BY <1>1, <1>3, <1>4, LaunchFields
<1>7. \A s \in Sessions : /\ One(Owns(x, s)) = One(k = s) /\ One(Owns(call[c], s)) = One(h = s)
                          /\ One(HoldsSession(call[c], s)) = One(h = s) /\ One(rtp'.slot = s) = One(rtp.slot = s)
                          /\ One(k = s) \in Nat /\ One(h = s) \in Nat /\ One(rtp.slot = s) \in Nat
                          /\ rtp.air[s] \in Nat /\ (k # s => One(k = s) = 0)
  BY <1>1, <1>5, <1>6 DEF One, Managers
<1>8. RtpTyped' /\ Counted' /\ ConfiguredKept'
  <2>1. \A s \in Sessions :
           rtp'.air[s] - One(Owns(x, s)) - One(rtp'.slot = s)
             >= rtp.air[s] - One(Owns(call[c], s)) - One(rtp.slot = s)
    BY <1>6, <1>7
  <2>2. ASSUME NEW s \in Sessions, k # s PROVE rtp'.air[s] = rtp.air[s] - One(HoldsSession(call[c], s))
    BY <1>6, <1>7, <2>2
  <2>3. call[c].config = k BY DEF k
  <2>4. \A s \in Sessions : ~rtp'.failed /\ rtp'.config = s =>
           \/ Underway(x) /\ x.config = s
           \/ /\ rtp.config = s /\ ~rtp.failed /\ (Underway(call[c]) => call[c].config # s)
              /\ ~HoldsSession(x, s) /\ rtp'.air[s] = rtp.air[s] - One(HoldsSession(call[c], s))
           \/ Owns(call[c], s) /\ ~HoldsSession(call[c], s) /\ ~HoldsSession(x, s) /\ rtp'.air[s] = rtp.air[s]
    BY <1>5, <1>6, <2>2, <2>3
  <2>5. QED BY <1>1, <1>4, <1>5, <1>6, <2>1, <2>4, StepKeeps
<1>9. Exact'
  <2>1. ~rtp'.crossed =>
           /\ \A d \in Calls : Underway(call[d]) => d = c
           /\ rtp.slot \notin Sessions /\ k = rtp.config
           /\ \A s \in Sessions : rtp.air[s] = One(h = s)
    BY <1>1, <1>6, <1>7 DEF Exact, Underway, k
  <2>2. ~rtp'.crossed => \A s \in Sessions : rtp'.air[s] = One(k = s) BY <1>6, <1>7, <2>1
  <2>3. ~rtp'.crossed =>
           /\ \A d \in Calls : Underway(call[d]) => d = c
           /\ Underway(x) =>
                /\ rtp'.slot \notin Sessions /\ x.config = rtp'.config
                /\ \A s \in Sessions : rtp'.air[s] = One(Owns(x, s))
    BY <1>5, <1>6, <1>7, <2>1, <2>2
  <2>4. ~rtp'.crossed =>
            (~Underway(x) => \A s \in Sessions :
                /\ rtp'.air[s] = One(rtp'.slot = s)
                /\ ~rtp'.failed => (rtp'.slot = s <=> rtp'.config = s))
    BY <1>5, <1>6, <1>7, <2>1, <2>2 DEF One
  <2>5. QED BY <1>1, <1>4, <1>5, <2>3, <2>4, StepExact
<1>10. QED BY <1>8, <1>9 DEF RtpInv

LEMMA StartedKeeps ==
  ASSUME RtpInv, NEW c \in Calls, NEW alive \in BOOLEAN, Started(c, alive)
  PROVE  RtpInv'
<1> DEFINE k == call[c].config
           x == NoCall
<1>1. /\ RtpTyped /\ Counted /\ ConfiguredKept /\ Exact /\ rtp \in Managers /\ call[c].pc = "starting"
      /\ k \in Sessions /\ call' = [call EXCEPT ![c] = x]
      /\ \A s \in Sessions : (Owns(call[c], s) <=> k = s) /\ ~HoldsSession(call[c], s)
  BY DEF RtpInv, RtpTyped, Started, CallStates, Owns, HoldsSession
<1>2. x \in CallStates /\ ~Underway(x) /\ x.pc = "idle" /\ \A s \in Sessions : ~HoldsSession(x, s) /\ ~Owns(x, s)
  BY Names DEF NoCall, Underway, HoldsSession, Owns
<1>3. rtp.air[k] \in Nat \ {0} BY <1>1, OwnedRuns
<1>4. call[c].config = k OBVIOUS
<1> HIDE DEF k, x
<1>5. \A s \in Sessions : /\ One(Owns(x, s)) = 0 /\ One(Owns(call[c], s)) = One(k = s)
                          /\ One(HoldsSession(call[c], s)) = 0 /\ rtp.air[s] \in Nat
                          /\ One(k = s) \in Nat /\ One(rtp.slot = s) \in Nat
  BY <1>1, <1>2 DEF One, Managers
<1>6. ~rtp.crossed =>
         /\ \A d \in Calls : Underway(call[d]) => d = c
         /\ k = rtp.config /\ \A s \in Sessions : rtp.air[s] = One(k = s)
  BY <1>1, <1>4, <1>5 DEF Exact, Underway
<1>7. CASE alive
  <2>1. rtp' = [rtp EXCEPT !.slot = k] BY <1>4, <1>7 DEF Started
  <2>2. /\ rtp' \in Managers /\ rtp'.slot = k /\ rtp'.air = rtp.air /\ rtp'.config = rtp.config
        /\ rtp'.crossed = rtp.crossed /\ rtp'.failed = rtp.failed
    BY <1>1, <2>1 DEF Managers
  <2>3. \A s \in Sessions :
           rtp'.air[s] - One(Owns(x, s)) - One(rtp'.slot = s)
             >= rtp.air[s] - One(Owns(call[c], s)) - One(rtp.slot = s)
    BY <1>5, <2>2
  <2>4. \A s \in Sessions : ~rtp'.failed /\ rtp'.config = s =>
           \/ Underway(x) /\ x.config = s
           \/ /\ rtp.config = s /\ ~rtp.failed /\ (Underway(call[c]) => call[c].config # s)
              /\ ~HoldsSession(x, s) /\ rtp'.air[s] = rtp.air[s] - One(HoldsSession(call[c], s))
           \/ Owns(call[c], s) /\ ~HoldsSession(call[c], s) /\ ~HoldsSession(x, s) /\ rtp'.air[s] = rtp.air[s]
    <3>1. \A s \in Sessions : rtp'.air[s] = rtp.air[s] - One(HoldsSession(call[c], s)) BY <1>5, <2>2
    <3>2. QED BY <1>1, <1>2, <1>4, <2>2, <3>1
  <2>5. RtpTyped' /\ Counted' /\ ConfiguredKept' BY <1>1, <1>2, <2>2, <2>3, <2>4, StepKeeps
  <2>6. ~rtp'.crossed =>
            (~Underway(x) => \A s \in Sessions :
                /\ rtp'.air[s] = One(rtp'.slot = s)
                /\ ~rtp'.failed => (rtp'.slot = s <=> rtp'.config = s))
    BY <1>6, <2>2
  <2>7. Exact' BY <1>1, <1>2, <1>6, <2>2, <2>6, StepExact
  <2>8. QED BY <2>5, <2>7 DEF RtpInv
<1>8. CASE ~alive
  <2> DEFINE e == Ended(rtp, k)
  <2>1. rtp' = [e EXCEPT !.slot = Dead, !.failed = TRUE] BY <1>4, <1>8 DEF Started
  <2>2. /\ e \in Managers /\ e.crossed = rtp.crossed
        /\ \A s \in Sessions : e.air[s] = rtp.air[s] - One(k = s)
    BY <1>1, <1>3, EndFields
  <2> HIDE DEF e
  <2>3. /\ rtp' \in Managers /\ rtp'.slot = Dead /\ rtp'.failed = TRUE /\ rtp'.crossed = rtp.crossed
        /\ \A s \in Sessions : rtp'.air[s] = rtp.air[s] - One(k = s)
    BY <2>1, <2>2 DEF Managers
  <2>4. \A s \in Sessions : One(rtp'.slot = s) = 0 BY <2>3, Names DEF One
  <2>5. \A s \in Sessions :
           rtp'.air[s] - One(Owns(x, s)) - One(rtp'.slot = s)
             >= rtp.air[s] - One(Owns(call[c], s)) - One(rtp.slot = s)
    BY <1>5, <2>3, <2>4
  <2>6. \A s \in Sessions : ~rtp'.failed /\ rtp'.config = s =>
           \/ Underway(x) /\ x.config = s
           \/ /\ rtp.config = s /\ ~rtp.failed /\ (Underway(call[c]) => call[c].config # s)
              /\ ~HoldsSession(x, s) /\ rtp'.air[s] = rtp.air[s] - One(HoldsSession(call[c], s))
           \/ Owns(call[c], s) /\ ~HoldsSession(call[c], s) /\ ~HoldsSession(x, s) /\ rtp'.air[s] = rtp.air[s]
    BY <2>3
  <2>7. RtpTyped' /\ Counted' /\ ConfiguredKept' BY <1>1, <1>2, <2>3, <2>5, <2>6, StepKeeps
  <2>8. ~rtp'.crossed =>
            (~Underway(x) => \A s \in Sessions :
                /\ rtp'.air[s] = One(rtp'.slot = s)
                /\ ~rtp'.failed => (rtp'.slot = s <=> rtp'.config = s))
    BY <1>5, <1>6, <2>3, <2>4
  <2>9. Exact' BY <1>1, <1>2, <1>6, <2>3, <2>8, StepExact
  <2>10. QED BY <2>7, <2>9 DEF RtpInv
<1>9. QED BY <1>7, <1>8

LEMMA RtpRefreshKeeps ==
  ASSUME RtpInv, NEW c \in Calls, Refresh(c)
  PROVE  RtpInv'
<1>1. /\ RtpTyped /\ Counted /\ ConfiguredKept /\ rtp \in Managers /\ call[c].pc = "idle" /\ rtp.config \in Configs
      /\ rtp.config # Gone
  BY DEF RtpInv, RtpTyped, Refresh, Managers
<1>2. CASE rtp.slot \notin Sessions
  <2>1. Applied(c, Noticed, rtp.config) BY <1>2 DEF Refresh
  <2>2. QED BY <1>1, <2>1, IdleApplies
<1>3. CASE rtp.slot \in Sessions
  <2> DEFINE x == [pc |-> "refreshing", config |-> rtp.config, holds |-> rtp.slot]
             r == Noticed
  <2>1. rtp' = [r EXCEPT !.slot = Gone] /\ call' = [call EXCEPT ![c] = x] BY <1>3 DEF Refresh
  <2>2. /\ x \in CallStates /\ Underway(x) /\ x.config = rtp.config /\ x.pc = "refreshing"
        /\ x.holds = rtp.slot /\ \A s \in Sessions : Owns(x, s) <=> rtp.slot = s
    BY <1>1, <1>3 DEF CallStates, Underway, Owns, HoldsSession
  <2>3. /\ r \in Managers /\ r.config = rtp.config /\ r.air = rtp.air
        /\ ~r.crossed => /\ \A d \in Calls : ~Underway(call[d])
                         /\ \A s \in Sessions : rtp.air[s] = One(rtp.slot = s)
    BY NoticedFields
  <2> HIDE DEF x, r
  <2>4. /\ rtp' \in Managers /\ rtp'.config = rtp.config /\ rtp'.slot = Gone /\ rtp'.air = rtp.air
        /\ rtp'.crossed = r.crossed
    BY <2>1, <2>3, Names DEF Managers
  <2>5. \A s \in Sessions : /\ One(Owns(x, s)) = One(rtp.slot = s) /\ One(rtp'.slot = s) = 0
                            /\ One(Owns(call[c], s)) = 0 /\ rtp.air[s] \in Nat /\ One(rtp.slot = s) \in Nat
    BY <1>1, <2>2, <2>4, Names DEF One, Owns, HoldsSession, Managers
  <2>6. \A s \in Sessions :
           rtp'.air[s] - One(Owns(x, s)) - One(rtp'.slot = s)
             >= rtp.air[s] - One(Owns(call[c], s)) - One(rtp.slot = s)
    BY <2>4, <2>5
  <2>7. \A s \in Sessions : ~rtp'.failed /\ rtp'.config = s =>
           \/ Underway(x) /\ x.config = s
           \/ /\ rtp.config = s /\ ~rtp.failed /\ (Underway(call[c]) => call[c].config # s)
              /\ ~HoldsSession(x, s) /\ rtp'.air[s] = rtp.air[s] - One(HoldsSession(call[c], s))
           \/ Owns(call[c], s) /\ ~HoldsSession(call[c], s) /\ ~HoldsSession(x, s) /\ rtp'.air[s] = rtp.air[s]
    BY <2>2, <2>4
  <2>8. RtpTyped' /\ Counted' /\ ConfiguredKept' BY <1>1, <1>3, <2>1, <2>2, <2>4, <2>6, <2>7, StepKeeps
  <2>9. ~rtp'.crossed =>
           /\ \A d \in Calls : Underway(call[d]) => d = c
           /\ Underway(x) =>
                /\ rtp'.slot \notin Sessions /\ x.config = rtp'.config
                /\ \A s \in Sessions : rtp'.air[s] = One(Owns(x, s))
    BY <2>2, <2>3, <2>4, <2>5, Names
  <2>10. Exact' BY <1>1, <2>1, <2>2, <2>9, StepExact
  <2>11. QED BY <2>8, <2>10 DEF RtpInv
<1>4. QED BY <1>2, <1>3

LEMMA RefreshAppliesKeeps ==
  ASSUME RtpInv, NEW c \in Calls, RefreshApplies(c)
  PROVE  RtpInv'
<1> DEFINE k == call[c].config
           h == call[c].holds
           r == Ended(rtp, h)
<1>1. /\ RtpTyped /\ Counted /\ ConfiguredKept /\ Exact /\ rtp \in Managers /\ call[c].pc = "refreshing"
      /\ k \in Configs /\ h \in Sessions
      /\ \A s \in Sessions : Owns(call[c], s) <=> h = s
  BY DEF RtpInv, RtpTyped, RefreshApplies, CallStates, Owns, HoldsSession
<1>2. rtp.air[h] \in Nat \ {0} BY <1>1, OwnedRuns
<1>3. /\ r \in Managers /\ r.slot = rtp.slot /\ r.crossed = rtp.crossed /\ r.failed = rtp.failed
      /\ \A s \in Sessions : r.air[s] = rtp.air[s] - One(h = s)
  BY <1>1, <1>2, EndFields
<1>4. Applied(c, r, k) BY DEF RefreshApplies
<1> HIDE DEF r, k, h
<1>5. \A s \in Sessions : One(Owns(call[c], s)) = One(h = s) /\ One(h = s) \in Nat BY <1>1 DEF One
<1>6. ~r.crossed => /\ \A d \in Calls : Underway(call[d]) => d = c
                    /\ \A s \in Sessions : r.air[s] = One(rtp.slot = s)
  <2>1. ~rtp.crossed =>
           /\ \A d \in Calls : Underway(call[d]) => d = c
           /\ rtp.slot \notin Sessions /\ \A s \in Sessions : rtp.air[s] = One(h = s)
    BY <1>1, <1>5 DEF Exact, Underway
  <2>2. rtp.slot \notin Sessions => \A s \in Sessions : One(rtp.slot = s) = 0 BY DEF One
  <2>3. QED BY <1>3, <1>5, <2>1, <2>2
<1>7. \A s \in Sessions : r.air[s] = rtp.air[s] - One(Owns(call[c], s)) BY <1>3, <1>5
<1>8. QED BY <1>1, <1>3, <1>4, <1>6, <1>7, AppliedKeeps

-----------------------------------------------------------------------------
(* The theorems. *)

LEMMA RtpInitially == RtpInit => RtpInv
<1> SUFFICES ASSUME RtpInit PROVE RtpInv OBVIOUS
<1>1. /\ rtp.config = Gone /\ rtp.slot = Gone /\ rtp.crossed = FALSE /\ rtp.failed = FALSE
      /\ \A s \in Sessions : rtp.air[s] = 0
  BY DEF RtpInit
<1>2. \A c \in Calls : call[c] = NoCall /\ call[c].pc = "idle" BY DEF RtpInit, NoCall
<1>3. RtpTyped
  <2>1. [s \in Sessions |-> 0] \in [Sessions -> Nat] OBVIOUS
  <2>2. rtp \in Managers BY <2>1, Names DEF RtpInit, Managers
  <2>3. call \in [Calls -> CallStates] BY Names DEF RtpInit
  <2>4. QED BY <1>2, <2>2, <2>3 DEF RtpTyped
<1>4. Counted
  <2>1. \A s \in Sessions : Owners(s) = {} BY <1>2 DEF Owners, Owns, HoldsSession
  <2>2. \A s \in Sessions : Cardinality(Owners(s)) = 0 BY <2>1, FS_EmptySet
  <2>3. QED BY <1>1, <2>2, Names DEF Counted, One
<1>5. ConfiguredKept BY <1>1, Names DEF ConfiguredKept
<1>6. Exact BY <1>1, <1>2, Names DEF Exact, Underway, One
<1>7. QED BY <1>3, <1>4, <1>5, <1>6 DEF RtpInv

LEMMA RtpNext == RtpInv /\ [RtpRuns \/ RtpWorld]_rtpVars => RtpInv'
<1> SUFFICES ASSUME RtpInv, [RtpRuns \/ RtpWorld]_rtpVars PROVE RtpInv' OBVIOUS
<1>1. ASSUME NEW c \in Calls, Halted(c) PROVE RtpInv' BY <1>1, HaltedKeeps
<1>2. ASSUME NEW c \in Calls, NEW alive \in BOOLEAN, Started(c, alive) PROVE RtpInv'
  BY <1>2, StartedKeeps
<1>3. ASSUME NEW c \in Calls, RefreshApplies(c) PROVE RtpInv' BY <1>3, RefreshAppliesKeeps
<1>4. ASSUME NEW c \in Calls, NEW config \in Configs, Apply(c, config) PROVE RtpInv'
  BY <1>4, IdleApplies DEF Apply
<1>5. ASSUME NEW c \in Calls, Refresh(c) PROVE RtpInv' BY <1>5, RtpRefreshKeeps
<1>6. CASE UNCHANGED rtpVars
  <2>1. rtp' = rtp /\ call' = call BY <1>6 DEF rtpVars
  <2>2. RtpTyped' /\ Counted' /\ ConfiguredKept' /\ Exact'
    BY <2>1 DEF RtpInv, RtpTyped, Counted, ConfiguredKept, Exact, Owners, Holders, Quiet
  <2>3. QED BY <2>2 DEF RtpInv
<1>7. QED BY <1>1, <1>2, <1>3, <1>4, <1>5, <1>6 DEF RtpRuns, RtpWorld

\* What RtpInv says holds in every state: it is inductive.
THEOREM RtpInvariant == RtpSpec => []RtpInv
<1>1. RtpInit => RtpInv BY RtpInitially
<1>2. RtpInv /\ [RtpRuns \/ RtpWorld]_rtpVars => RtpInv' BY RtpNext
<1>3. QED BY <1>1, <1>2, PTL DEF RtpSpec

\* The instance, its announcer and the calls have their types (RtpMidiManager).
THEOREM RtpTypeCorrect == RtpSpec => []RtpTypeOK
<1>1. RtpInv => RtpTypeOK BY DEF RtpInv, RtpTyped, RtpTypeOK, Managers, CallStates
<1>2. QED BY <1>1, RtpInvariant, PTL

\* For any calls, however they cross, the session that is configured is announced; it
\* alone and once when none ever crossed (apply_instance(), refresh_announcements()).
THEOREM AnnouncedAsConfiguredHolds == RtpSpec => []AnnouncedAsConfigured
<1>1. RtpInv => AnnouncedAsConfigured
  <2> SUFFICES ASSUME RtpInv, Quiet, ~rtp.failed, NEW s \in Sessions
               PROVE  /\ s = rtp.config => rtp.air[s] > 0
                      /\ ~rtp.crossed => rtp.air[s] = IF s = rtp.config THEN 1 ELSE 0
    BY DEF AnnouncedAsConfigured
  <2>1. RtpTyped /\ ConfiguredKept /\ Exact /\ rtp.air[s] \in Nat BY DEF RtpInv, RtpTyped, Managers
  <2>2. ASSUME s = rtp.config PROVE rtp.air[s] > 0
    <3>1. Holders(s) = {} BY DEF Quiet, Holders, HoldsSession
    <3>2. Cardinality(Holders(s)) = 0 BY <3>1, FS_EmptySet
    <3>3. \A c \in Calls : ~Underway(call[c]) BY DEF Quiet, Underway
    <3>4. QED BY <2>1, <2>2, <3>2, <3>3 DEF ConfiguredKept
  <2>3. ASSUME ~rtp.crossed PROVE rtp.air[s] = IF s = rtp.config THEN 1 ELSE 0
    <3>1. rtp.air[s] = One(rtp.slot = s) /\ (rtp.slot = s <=> rtp.config = s) BY <2>1, <2>3 DEF Exact
    <3>2. QED BY <3>1 DEF One
  <2>4. QED BY <2>2, <2>3
<1>2. QED BY <1>1, RtpInvariant, PTL

-----------------------------------------------------------------------------
(* A rotary display and its pushes (RotaryDisplay).                          *)

RotaryMaybe == Settings \cup {NoSettings}
RotaryRecords ==
  [host : {"osc", "serial", "both"}, port : {"none", "opening", "settling", "reading", "retrying"},
   connected : BOOLEAN, works : BOOLEAN, target : BOOLEAN,
   config : Settings, pushed : RotaryMaybe, last : ShownStates, odd : BOOLEAN, mixed : BOOLEAN]
PushRecords ==
  [pc : {"idle", "readying", "waiting", "queued", "pushing", "taken", "cut", "greeting", "switching"},
   kind : {"none", "hello", "apply", "align"}, print : RotaryMaybe, commands : RotaryMaybe,
   sync : ShownStates]
DisplayRecords ==
  [plugged : BOOLEAN, greeted : BOOLEAN, config : Settings, shows : ShownStates,
   lines : Seq(ClockStates), datagrams : SUBSET ClockStates]

\* What counts as pushed is on the display.
MixAgrees(r, d) == r.pushed = r.config /\ ~r.mixed => d.config = r.config

\* One push has the lock of the port; it has made its commands, and the display has them
\* if it took them.
PushesInOrder(p, d) ==
  /\ \A j \in Pushes : p[j].pc \in {"queued", "pushing", "taken"} => p[j].commands \in Settings
  /\ \A j, k \in Pushes : p[j].pc \in Holding /\ p[k].pc \in Holding => j = k
  /\ \A j \in Pushes : p[j].pc = "taken" => d.config = p[j].commands

RotaryInv ==
  /\ rotary \in RotaryRecords /\ push \in [Pushes -> PushRecords] /\ display \in DisplayRecords
  /\ clock \in [now : ClockStates, told : BOOLEAN]
  /\ rotary.connected => rotary.port \in {"settling", "reading"}
  /\ PushesInOrder(push, display) /\ MixAgrees(rotary, display)

LEMMA RotaryImplied == RotaryInv => RotaryTypeOK /\ PushedIsOnDisplay
BY DEF RotaryInv, RotaryTypeOK, PushedIsOnDisplay, RotaryRecords, PushRecords, DisplayRecords,
       PushesInOrder, MixAgrees, RotaryMaybe

LEMMA RotaryStarts == RotaryInit => RotaryInv
<1>1. SUFFICES ASSUME RotaryInit PROVE RotaryInv OBVIOUS
<1>2. <<>> \in Seq(ClockStates) BY EmptySeq
<1>3. /\ rotary \in RotaryRecords /\ ~rotary.connected
      /\ rotary.pushed = NoSettings /\ rotary.config \in Settings
  BY <1>1 DEF RotaryInit, RotaryRecords, RotaryMaybe, ShownStates
<1>4. push = [j \in Pushes |-> NoPush] BY <1>1 DEF RotaryInit
<1>5. display \in DisplayRecords BY <1>1, <1>2 DEF RotaryInit, DisplayRecords, ShownStates
<1>6. clock \in [now : ClockStates, told : BOOLEAN] BY <1>1 DEF RotaryInit, ClockStates
<1>7. NoPush \in PushRecords /\ NoPush.pc = "idle"
  BY DEF NoPush, PushRecords, RotaryMaybe, ShownStates
<1>8. rotary.pushed # rotary.config BY <1>3, RotaryAssumption DEF RotaryAssumption
<1>9. PushesInOrder(push, display) /\ MixAgrees(rotary, display)
  BY <1>4, <1>7, <1>8 DEF PushesInOrder, MixAgrees, Holding
<1>10. QED BY <1>3, <1>4, <1>5, <1>6, <1>7, <1>9 DEF RotaryInv

\* A sync leaves the configurations as they are.
LEMMA SyncTypes ==
  ASSUME NEW r \in RotaryRecords, NEW d \in DisplayRecords, clock \in [now : ClockStates, told : BOOLEAN],
         SyncFrom(r, d)
  PROVE  /\ rotary' \in RotaryRecords /\ display' \in DisplayRecords
         /\ rotary'.connected = r.connected /\ rotary'.port = r.port
         /\ rotary'.mixed = r.mixed /\ rotary'.pushed = r.pushed /\ rotary'.config = r.config
         /\ display'.config = d.config
<1>1. clock.now \in ClockStates OBVIOUS
<1>2. Append(d.lines, clock.now) \in Seq(ClockStates)
  BY <1>1, AppendProperties DEF DisplayRecords
<1>3. display' \in {[d EXCEPT !.datagrams = @ \cup {clock.now}],
                    [d EXCEPT !.lines = Append(@, clock.now)], d}
  BY DEF SyncFrom
<1>4. display' \in DisplayRecords /\ display'.config = d.config
  BY <1>1, <1>2, <1>3 DEF DisplayRecords
<1>5. PICK odd \in BOOLEAN : rotary' = [r EXCEPT !.last = clock.now, !.odd = odd]
  BY DEF SyncFrom
<1>6. /\ rotary' \in RotaryRecords
      /\ rotary'.connected = r.connected /\ rotary'.port = r.port
      /\ rotary'.mixed = r.mixed /\ rotary'.pushed = r.pushed /\ rotary'.config = r.config
  <2>1. clock.now \in ShownStates BY <1>1 DEF ShownStates
  <2>2. QED BY <1>5, <2>1 DEF RotaryRecords
<1>7. QED BY <1>4, <1>6

\* What a step must keep that moves no push and no configuration
LEMMA RotaryQuiet ==
  ASSUME RotaryInv, push' = push, rotary' \in RotaryRecords, display' \in DisplayRecords,
         clock' \in [now : ClockStates, told : BOOLEAN],
         rotary'.connected => rotary'.port \in {"settling", "reading"},
         rotary'.mixed = rotary.mixed, rotary'.pushed = rotary.pushed, rotary'.config = rotary.config,
         display'.config = display.config
  PROVE  RotaryInv'
BY DEF RotaryInv, PushesInOrder, MixAgrees

LEMMA RotaryParts ==
  ASSUME RotaryInv
  PROVE  /\ rotary \in RotaryRecords /\ push \in [Pushes -> PushRecords] /\ display \in DisplayRecords
         /\ clock \in [now : ClockStates, told : BOOLEAN] /\ clock.now \in ClockStates
         /\ rotary.connected => rotary.port \in {"settling", "reading"}
BY DEF RotaryInv

LEMMA LoopStarted ==
  ASSUME NEW r \in RotaryRecords, r.connected => r.port \in {"settling", "reading"}
  PROVE  /\ StartLoop(r) \in RotaryRecords
         /\ StartLoop(r).connected => StartLoop(r).port \in {"settling", "reading"}
         /\ StartLoop(r).mixed = r.mixed /\ StartLoop(r).pushed = r.pushed
         /\ StartLoop(r).config = r.config
BY DEF StartLoop, RotaryRecords

\* A sync of the module and the display as they are, but for the port
LEMMA RotarySyncKeeps ==
  ASSUME RotaryInv, NEW r \in RotaryRecords, NEW d \in DisplayRecords, SyncFrom(r, d),
         push' = push, clock' \in [now : ClockStates, told : BOOLEAN],
         r.connected => r.port \in {"settling", "reading"},
         r.mixed = rotary.mixed, r.pushed = rotary.pushed, r.config = rotary.config,
         d.config = display.config
  PROVE  RotaryInv'
<1>1. clock \in [now : ClockStates, told : BOOLEAN] BY RotaryParts
<1>2. /\ rotary' \in RotaryRecords /\ display' \in DisplayRecords
      /\ rotary'.connected = r.connected /\ rotary'.port = r.port
      /\ rotary'.mixed = r.mixed /\ rotary'.pushed = r.pushed /\ rotary'.config = r.config
      /\ display'.config = d.config
  BY <1>1, SyncTypes
<1>3. QED BY <1>2, RotaryQuiet

\* The transports: what is shown of the clock
LEMMA RotaryTransportSteps ==
  ASSUME RotaryInv,
         \/ \E v \in ClockStates, sent \in BOOLEAN : DatagramSent(v, sent)
         \/ LineWritten \/ ChangeHeard \/ BeatFlushes \/ OpenPort \/ PortSettled \/ PortLost
         \/ PortRetried \/ OscHello
         \/ \E v \in ClockStates : ClockChanges(v)
         \/ Replugs
  PROVE  RotaryInv'
<1>1. /\ rotary \in RotaryRecords /\ push \in [Pushes -> PushRecords] /\ display \in DisplayRecords
      /\ clock \in [now : ClockStates, told : BOOLEAN] /\ clock.now \in ClockStates
      /\ rotary.connected => rotary.port \in {"settling", "reading"}
  BY RotaryParts
<1>2. ASSUME NEW v \in ClockStates, NEW sent \in BOOLEAN, DatagramSent(v, sent) PROVE RotaryInv'
  <2>1. Append(display.lines, v) \in Seq(ClockStates) /\ v \in ShownStates
    BY <1>1, AppendProperties DEF DisplayRecords, ShownStates
  <2>2. display' \in DisplayRecords /\ display'.config = display.config
    BY <1>1, <1>2, <2>1 DEF DatagramSent, DisplayRecords
  <2>3. PICK odd \in BOOLEAN : rotary' = [rotary EXCEPT !.odd = odd]
    BY <1>1, <1>2 DEF DatagramSent, RotaryRecords
  <2>4. /\ rotary' \in RotaryRecords /\ rotary'.connected = rotary.connected
        /\ rotary'.port = rotary.port /\ rotary'.mixed = rotary.mixed
        /\ rotary'.pushed = rotary.pushed /\ rotary'.config = rotary.config
    BY <1>1, <2>3 DEF RotaryRecords
  <2>5. push' = push /\ clock' = clock BY <1>2 DEF DatagramSent
  <2>6. QED BY <1>1, <2>2, <2>4, <2>5, RotaryQuiet
<1>3. ASSUME LineWritten PROVE RotaryInv'
  <2>1. Tail(display.lines) \in Seq(ClockStates) /\ Head(display.lines) \in ClockStates
    BY <1>1, <1>3, HeadTailProperties DEF LineWritten, DisplayRecords
  <2>2. Head(display.lines) \in ShownStates BY <2>1 DEF ShownStates
  <2>3. display' \in DisplayRecords /\ display'.config = display.config
    BY <1>1, <1>3, <2>1, <2>2 DEF LineWritten, DisplayRecords
  <2>4. /\ rotary' \in RotaryRecords /\ (rotary'.connected => rotary.connected)
        /\ rotary'.port = rotary.port /\ rotary'.mixed = rotary.mixed
        /\ rotary'.pushed = rotary.pushed /\ rotary'.config = rotary.config
    BY <1>1, <1>3 DEF LineWritten, RotaryRecords
  <2>5. push' = push /\ clock' = clock BY <1>3 DEF LineWritten
  <2>6. QED BY <1>1, <2>3, <2>4, <2>5, RotaryQuiet
<1>4. ASSUME ChangeHeard PROVE RotaryInv'
  <2>1. SyncFrom(rotary, display) /\ push' = push /\ clock' \in [now : ClockStates, told : BOOLEAN]
    BY <1>1, <1>4 DEF ChangeHeard, SendSync
  <2>2. QED BY <1>1, <2>1, RotarySyncKeeps
<1>5. ASSUME BeatFlushes PROVE RotaryInv'
  <2>1. clock.now \in ShownStates BY <1>1 DEF ShownStates
  <2>2. display' \in DisplayRecords /\ display'.config = display.config
    BY <1>1, <1>5, <2>1 DEF BeatFlushes, DisplayRecords
  <2>3. PICK odd \in BOOLEAN, connected \in BOOLEAN :
          /\ rotary' = [rotary EXCEPT !.last = clock.now, !.odd = odd, !.connected = connected]
          /\ connected => rotary.connected
    BY <1>1, <1>5 DEF BeatFlushes, RotaryRecords
  <2>4. /\ rotary' \in RotaryRecords /\ (rotary'.connected => rotary.connected)
        /\ rotary'.port = rotary.port /\ rotary'.mixed = rotary.mixed
        /\ rotary'.pushed = rotary.pushed /\ rotary'.config = rotary.config
    BY <1>1, <2>1, <2>3 DEF RotaryRecords
  <2>5. push' = push /\ clock' = clock BY <1>5 DEF BeatFlushes
  <2>6. QED BY <1>1, <2>2, <2>4, <2>5, RotaryQuiet
<1>6. ASSUME OpenPort \/ PortRetried PROVE RotaryInv'
  <2>1. /\ rotary' \in RotaryRecords
        /\ rotary'.connected => rotary'.port \in {"settling", "reading"}
        /\ rotary'.mixed = rotary.mixed
        /\ rotary'.pushed = rotary.pushed /\ rotary'.config = rotary.config
    <3>1. CASE OpenPort BY <1>1, <3>1 DEF OpenPort, RotaryRecords
    <3>2. CASE PortRetried BY <1>1, <3>2 DEF PortRetried, RotaryRecords
    <3>3. QED BY <1>6, <3>1, <3>2
  <2>2. push' = push /\ clock' = clock /\ display' = display
    BY <1>6 DEF OpenPort, PortRetried
  <2>3. QED BY <1>1, <2>1, <2>2, RotaryQuiet
<1>7. ASSUME PortSettled PROVE RotaryInv'
  <2> DEFINE r == [rotary EXCEPT !.port = "reading"]
  <2>1. SyncFrom(r, display) /\ push' = push /\ clock' = clock BY <1>7 DEF PortSettled
  <2>2. /\ r \in RotaryRecords /\ r.port = "reading" /\ r.mixed = rotary.mixed
        /\ r.pushed = rotary.pushed /\ r.config = rotary.config
    BY <1>1 DEF RotaryRecords
  <2> HIDE DEF r
  <2>3. QED BY <1>1, <2>1, <2>2, RotarySyncKeeps
<1>8. ASSUME PortLost PROVE RotaryInv'
  <2>1. /\ rotary' \in RotaryRecords /\ ~rotary'.connected
        /\ rotary'.mixed = rotary.mixed
        /\ rotary'.pushed = rotary.pushed /\ rotary'.config = rotary.config
    BY <1>1, <1>8 DEF PortLost, RotaryRecords
  <2>2. display' \in DisplayRecords /\ display'.config = display.config
    <3>1. <<>> \in Seq(ClockStates) BY EmptySeq
    <3>2. QED BY <1>1, <1>8, <3>1 DEF PortLost, DisplayRecords
  <2>3. push' = push /\ clock' = clock BY <1>8 DEF PortLost
  <2>4. QED BY <1>1, <2>1, <2>2, <2>3, RotaryQuiet
<1>9. ASSUME OscHello PROVE RotaryInv'
  <2> DEFINE r == [rotary EXCEPT !.target = TRUE]  d == [display EXCEPT !.greeted = TRUE]
  <2>1. SyncFrom(r, d) /\ push' = push /\ clock' = clock BY <1>9 DEF OscHello
  <2>2. /\ r \in RotaryRecords /\ r.port = rotary.port /\ r.connected = rotary.connected
        /\ r.mixed = rotary.mixed /\ r.pushed = rotary.pushed /\ r.config = rotary.config
    BY <1>1 DEF RotaryRecords
  <2>3. d \in DisplayRecords /\ d.config = display.config BY <1>1 DEF DisplayRecords
  <2> HIDE DEF r, d
  <2>4. QED BY <1>1, <2>1, <2>2, <2>3, RotarySyncKeeps
<1>10. ASSUME NEW v \in ClockStates, ClockChanges(v) PROVE RotaryInv'
  BY <1>1, <1>10, RotaryQuiet DEF ClockChanges
<1>11. ASSUME Replugs PROVE RotaryInv'
  <2>1. /\ rotary' \in RotaryRecords /\ rotary'.connected = rotary.connected
        /\ rotary'.port = rotary.port /\ rotary'.mixed = rotary.mixed
        /\ rotary'.pushed = rotary.pushed /\ rotary'.config = rotary.config
    BY <1>1, <1>11 DEF Replugs, RotaryRecords
  <2>2. display' \in DisplayRecords /\ display'.config = display.config
    <3>1. PICK plugged \in BOOLEAN :
            display' = [display EXCEPT !.plugged = plugged, !.greeted = FALSE, !.shows = Blank]
      BY <1>11 DEF Replugs
    <3>2. /\ display'.config = display.config /\ display'.plugged = plugged /\ ~display'.greeted
          /\ display'.shows = Blank /\ display'.lines = display.lines
          /\ display'.datagrams = display.datagrams
      BY <1>1, <3>1 DEF DisplayRecords
    <3>3. display' = [plugged |-> plugged, greeted |-> FALSE, config |-> display.config, shows |-> Blank,
                      lines |-> display.lines, datagrams |-> display.datagrams]
      BY <1>1, <3>1 DEF DisplayRecords
    <3>4. Blank \in ShownStates BY DEF ShownStates
    <3>5. QED BY <1>1, <3>2, <3>3, <3>4 DEF DisplayRecords
  <2>3. push' = push /\ clock' = clock BY <1>11 DEF Replugs
  <2>4. QED BY <1>1, <2>1, <2>2, <2>3, RotaryQuiet
<1>12. QED
  BY <1>2, <1>3, <1>4, <1>5, <1>6, <1>7, <1>8, <1>9, <1>10, <1>11

\* What a step must keep that moves one push
LEMMA RotaryPushKeeps ==
  ASSUME RotaryInv, NEW j \in Pushes, NEW p \in PushRecords, push' = [push EXCEPT ![j] = p],
         p.pc \in {"queued", "pushing", "taken"} => p.commands \in Settings,
         p.pc \in Holding => push[j].pc \in Holding \/ ~Locked,
         p.pc = "taken" => push[j].pc \in Holding /\ display'.config = p.commands,
         display'.config = display.config \/ p.pc = "taken",
         rotary' \in RotaryRecords, display' \in DisplayRecords,
         clock' \in [now : ClockStates, told : BOOLEAN],
         rotary'.connected => rotary'.port \in {"settling", "reading"},
         MixAgrees(rotary', display')
  PROVE  RotaryInv'
<1>1. push \in [Pushes -> PushRecords] /\ PushesInOrder(push, display) BY DEF RotaryInv
<1>2. \A i \in Pushes : push'[i] = IF i = j THEN p ELSE push[i] BY <1>1
<1>3. push' \in [Pushes -> PushRecords] BY <1>1
<1>4. \A i \in Pushes : push'[i].pc \in {"queued", "pushing", "taken"} => push'[i].commands \in Settings
  BY <1>1, <1>2 DEF PushesInOrder
<1>5. p.pc \in Holding => \A i \in Pushes : i # j => push[i].pc \notin Holding
  BY <1>1 DEF PushesInOrder, Locked
<1>6. \A i, k \in Pushes : push'[i].pc \in Holding /\ push'[k].pc \in Holding => i = k
  BY <1>1, <1>2, <1>5 DEF PushesInOrder
<1>7. ASSUME NEW i \in Pushes, push'[i].pc = "taken" PROVE display'.config = push'[i].commands
  <2>1. CASE i = j BY <1>2, <1>7, <2>1
  <2>2. CASE i # j
    <3>1. push'[i] = push[i] /\ push[i].pc \in Holding BY <1>2, <1>7, <2>2 DEF Holding
    <3>2. p.pc # "taken" BY <1>5, <2>2, <3>1 DEF Holding
    <3>3. QED BY <1>1, <1>7, <3>1, <3>2 DEF PushesInOrder
  <2>3. QED BY <2>1, <2>2
<1>8. PushesInOrder(push', display') BY <1>4, <1>6, <1>7 DEF PushesInOrder
<1>9. QED BY <1>3, <1>8 DEF RotaryInv

\* One that leaves the display as it is, and the configuration too or forgets the push
LEMMA RotaryPlainKeeps ==
  ASSUME RotaryInv, NEW j \in Pushes, NEW p \in PushRecords, push' = [push EXCEPT ![j] = p],
         p.pc \in {"queued", "pushing"} => p.commands \in Settings,
         p.pc = "pushing" => ~Locked,
         p.pc \notin {"taken", "cut"},
         rotary' \in RotaryRecords, display' \in DisplayRecords, display'.config = display.config,
         clock' \in [now : ClockStates, told : BOOLEAN],
         rotary'.connected => rotary'.port \in {"settling", "reading"},
         \/ /\ rotary'.mixed = rotary.mixed
            /\ rotary'.config = rotary.config /\ rotary'.pushed = rotary.pushed
         \/ rotary'.pushed = NoSettings
  PROVE  RotaryInv'
<1>1. MixAgrees(rotary, display) BY DEF RotaryInv
<1>2. rotary'.config # NoSettings BY RotaryAssumption DEF RotaryAssumption, RotaryRecords
<1>3. MixAgrees(rotary', display') BY <1>1, <1>2 DEF MixAgrees
<1>4. QED BY <1>3, RotaryPushKeeps DEF Holding

LEMMA QueuedTyped ==
  ASSUME NEW p \in PushRecords, NEW r \in RotaryRecords
  PROVE  /\ Queued(p, r) \in PushRecords /\ Queued(p, r).pc \in {"queued", "pushing"}
         /\ Queued(p, r).commands \in Settings
         /\ Queued(p, r).pc = "pushing" => ~Locked
<1>1. r.config \in Settings BY DEF RotaryRecords
<1>2. CASE Locked BY <1>1, <1>2 DEF Queued, PushRecords, RotaryMaybe
<1>3. CASE ~Locked BY <1>1, <1>3 DEF Queued, PushRecords, RotaryMaybe
<1>4. QED BY <1>2, <1>3

LEMMA NoPushTyped ==
  /\ NoPush \in PushRecords /\ NoPush.pc = "idle"
  /\ \A j \in Pushes : push \in [Pushes -> PushRecords] =>
       AfterPush(j) \in PushRecords /\ AfterPush(j).pc \in {"idle", "greeting"}
BY DEF NoPush, AfterPush, PushRecords, RotaryMaybe, ShownStates

LEMMA BegunTyped ==
  ASSUME NEW r \in RotaryRecords, NEW kind \in {"hello", "apply", "align"}
  PROVE  /\ Begun(kind, r) \in PushRecords
         /\ Begun(kind, r).pc \in {"waiting", "queued", "pushing"}
         /\ Begun(kind, r).pc \in {"queued", "pushing"} => Begun(kind, r).commands \in Settings
         /\ Begun(kind, r).pc = "pushing" => ~Locked
<1> DEFINE p == [NoPush EXCEPT !.pc = "waiting", !.kind = kind, !.print = r.config]
<1>1. p \in PushRecords /\ p.pc = "waiting"
  BY DEF NoPush, PushRecords, RotaryRecords, RotaryMaybe, ShownStates
<1>2. Begun(kind, r) = IF r.connected THEN Queued(p, r) ELSE p BY DEF Begun
<1> HIDE DEF p
<1>3. QED BY <1>1, <1>2, QueuedTyped

\* What follows a push or its time-out
LEMMA SyncedKeeps ==
  ASSUME RotaryInv, NEW j \in Pushes, NEW r \in RotaryRecords, NEW ok \in BOOLEAN, Synced(j, r, ok),
         r.connected => r.port \in {"settling", "reading"}
  PROVE  /\ rotary' \in RotaryRecords /\ display' \in DisplayRecords
         /\ rotary'.connected => rotary'.port \in {"settling", "reading"}
         /\ rotary'.mixed = r.mixed /\ rotary'.pushed = r.pushed /\ rotary'.config = r.config
         /\ display'.config = display.config
<1>1. /\ display \in DisplayRecords /\ clock \in [now : ClockStates, told : BOOLEAN] BY RotaryParts
<1> DEFINE q == Poked(j, r)
<1>2. /\ q \in RotaryRecords /\ (q.connected => r.connected) /\ q.port = r.port
      /\ q.mixed = r.mixed /\ q.pushed = r.pushed /\ q.config = r.config
  BY DEF Poked, RotaryRecords
<1>3. SyncFrom(q, display) \/ (rotary' = q /\ display' = display) BY DEF Synced
<1> HIDE DEF q
<1>4. CASE SyncFrom(q, display) BY <1>1, <1>2, <1>4, SyncTypes
<1>5. CASE rotary' = q /\ display' = display BY <1>1, <1>2, <1>5
<1>6. QED BY <1>3, <1>4, <1>5

\* The pushes
LEMMA RotaryPushSteps ==
  ASSUME RotaryInv, NEW j \in Pushes,
         \/ PushReady(j) \/ PushTimesOut(j) \/ PushStarts(j) \/ PushTaken(j)
         \/ \E ok \in BOOLEAN : PushEnds(j, ok)
         \/ SerialHello(j)
  PROVE  RotaryInv'
<1>1. /\ rotary \in RotaryRecords /\ push \in [Pushes -> PushRecords] /\ display \in DisplayRecords
      /\ clock \in [now : ClockStates, told : BOOLEAN]
      /\ rotary.connected => rotary.port \in {"settling", "reading"}
      /\ push[j] \in PushRecords
  BY RotaryParts
<1>2. PushesInOrder(push, display) /\ MixAgrees(rotary, display) BY DEF RotaryInv
<1>3. ASSUME PushReady(j) PROVE RotaryInv'
  <2>1. /\ push' = [push EXCEPT ![j] = Queued(push[j], rotary)]
        /\ UNCHANGED <<rotary, display, clock>>
    BY <1>1, <1>3 DEF PushReady
  <2>2. QED BY <1>1, <2>1, QueuedTyped, RotaryPlainKeeps
<1>4. ASSUME PushTimesOut(j) PROVE RotaryInv'
  <2>1. Synced(j, rotary, FALSE) /\ push' = [push EXCEPT ![j] = AfterPush(j)] /\ clock' = clock
    BY <1>4 DEF PushTimesOut
  <2>2. AfterPush(j) \in PushRecords /\ AfterPush(j).pc \in {"idle", "greeting"} BY <1>1, NoPushTyped
  <2>3. /\ rotary' \in RotaryRecords /\ display' \in DisplayRecords
        /\ rotary'.connected => rotary'.port \in {"settling", "reading"}
        /\ rotary'.mixed = rotary.mixed /\ rotary'.pushed = rotary.pushed
        /\ rotary'.config = rotary.config /\ display'.config = display.config
    BY <1>1, <2>1, SyncedKeeps
  <2>4. QED BY <1>1, <2>1, <2>2, <2>3, RotaryPlainKeeps
<1>5. ASSUME PushStarts(j) PROVE RotaryInv'
  <2> DEFINE p == IF rotary.port \in {"settling", "reading"} THEN [push[j] EXCEPT !.pc = "pushing"]
                  ELSE NoPush
  <2>1. /\ push[j].pc = "queued" /\ ~Locked /\ push' = [push EXCEPT ![j] = p]
        /\ UNCHANGED <<rotary, display, clock>>
    BY <1>1, <1>5 DEF PushStarts
  <2>2. push[j].commands \in Settings BY <1>2, <2>1 DEF PushesInOrder
  <2>3. /\ p \in PushRecords /\ p.pc \in {"pushing", "idle"}
        /\ p.pc = "pushing" => p.commands \in Settings
    BY <1>1, <2>2, NoPushTyped DEF PushRecords
  <2> HIDE DEF p
  <2>4. QED BY <1>1, <2>1, <2>3, RotaryPlainKeeps
<1>6. ASSUME PushTaken(j) PROVE RotaryInv'
  <2> DEFINE p == [push[j] EXCEPT !.pc = "taken"]
  <2>1. /\ push[j].pc = "pushing" /\ push' = [push EXCEPT ![j] = p]
        /\ display' = [display EXCEPT !.config = push[j].commands] /\ clock' = clock
    BY <1>1, <1>6 DEF PushTaken
  <2>2. PICK mixed \in BOOLEAN :
          /\ rotary' = [rotary EXCEPT !.mixed = mixed]
          /\ mixed <=> (rotary.mixed \/ push[j].commands # rotary.config)
    BY <1>1, <1>6 DEF PushTaken, RotaryRecords
  <2>3. push[j].commands \in Settings BY <1>2, <2>1 DEF PushesInOrder
  <2>4. p \in PushRecords /\ p.pc = "taken" /\ p.commands = push[j].commands
    BY <1>1 DEF PushRecords
  <2>5. display' \in DisplayRecords /\ display'.config = push[j].commands
    BY <1>1, <2>1, <2>3 DEF DisplayRecords
  <2>6. /\ rotary' \in RotaryRecords /\ rotary'.mixed = mixed /\ rotary'.config = rotary.config
        /\ rotary'.connected = rotary.connected /\ rotary'.port = rotary.port
    BY <1>1, <2>2 DEF RotaryRecords
  <2>7. MixAgrees(rotary', display') BY <2>2, <2>5, <2>6 DEF MixAgrees
  <2> HIDE DEF p
  <2>8. QED BY <1>1, <2>1, <2>3, <2>4, <2>5, <2>6, <2>7, RotaryPushKeeps DEF Holding
<1>7. ASSUME NEW ok \in BOOLEAN, PushEnds(j, ok) PROVE RotaryInv'
  <2> DEFINE r == IF ok THEN [rotary EXCEPT !.pushed = push[j].print,
                                            !.mixed = push[j].print # push[j].commands]
                  ELSE rotary
  <2>1. /\ push[j].pc \in Holding /\ (ok => push[j].pc = "taken") /\ Synced(j, r, ok)
        /\ push' = [push EXCEPT ![j] = AfterPush(j)] /\ clock' = clock
    BY <1>7 DEF PushEnds, Holding
  <2>2. push[j].print \in RotaryMaybe BY <1>1 DEF PushRecords
  <2>3. /\ r \in RotaryRecords /\ r.connected = rotary.connected /\ r.port = rotary.port
        /\ r.config = rotary.config
        /\ ok => r.pushed = push[j].print /\ (r.mixed <=> push[j].print # push[j].commands)
        /\ ~ok => r = rotary
    BY <1>1, <2>2 DEF RotaryRecords
  <2> HIDE DEF r
  <2>4. /\ rotary' \in RotaryRecords /\ display' \in DisplayRecords
        /\ rotary'.connected => rotary'.port \in {"settling", "reading"}
        /\ rotary'.mixed = r.mixed /\ rotary'.pushed = r.pushed /\ rotary'.config = r.config
        /\ display'.config = display.config
    BY <1>1, <2>1, <2>3, SyncedKeeps
  <2>5. ok => display.config = push[j].commands BY <1>2, <2>1 DEF PushesInOrder
  <2>6. MixAgrees(rotary', display') BY <1>2, <2>3, <2>4, <2>5 DEF MixAgrees
  <2>7. AfterPush(j) \in PushRecords /\ AfterPush(j).pc \in {"idle", "greeting"} BY <1>1, NoPushTyped
  <2>8. QED BY <1>1, <2>1, <2>4, <2>6, <2>7, RotaryPushKeeps DEF Holding
<1>8. ASSUME SerialHello(j) PROVE RotaryInv'
  <2> DEFINE r == [rotary EXCEPT !.connected = TRUE]
  <2>1. /\ rotary.port = "reading" /\ clock' = clock
        /\ \/ SyncFrom(r, display) /\ push' = push
           \/ rotary' = r /\ push' = [push EXCEPT ![j] = Begun("hello", r)] /\ display' = display
    BY <1>8 DEF SerialHello
  <2>2. /\ r \in RotaryRecords /\ r.port = "reading" /\ r.mixed = rotary.mixed
        /\ r.config = rotary.config /\ r.pushed = rotary.pushed
    BY <1>1, <2>1 DEF RotaryRecords
  <2> HIDE DEF r
  <2>3. CASE SyncFrom(r, display) /\ push' = push
    BY <1>1, <2>1, <2>2, <2>3, RotarySyncKeeps
  <2>4. CASE rotary' = r /\ push' = [push EXCEPT ![j] = Begun("hello", r)] /\ display' = display
    BY <1>1, <2>1, <2>2, <2>4, BegunTyped, RotaryPlainKeeps
  <2>5. QED BY <2>1, <2>3, <2>4
<1>9. QED BY <1>3, <1>4, <1>5, <1>6, <1>7, <1>8

\* The requests
LEMMA ApplyEndsKeeps ==
  ASSUME RotaryInv, NEW j \in Pushes, NEW r \in RotaryRecords, NEW needed \in BOOLEAN,
         ApplyEnds(j, r, needed), clock' = clock,
         r.connected => r.port \in {"settling", "reading"},
         \/ r.mixed = rotary.mixed /\ r.config = rotary.config /\ r.pushed = rotary.pushed
         \/ r.pushed = NoSettings
  PROVE  RotaryInv'
<1>1. /\ rotary \in RotaryRecords /\ push \in [Pushes -> PushRecords] /\ display \in DisplayRecords
      /\ clock \in [now : ClockStates, told : BOOLEAN]
  BY RotaryParts
<1>2. PushesInOrder(push, display) /\ MixAgrees(rotary, display) BY DEF RotaryInv
<1> DEFINE q == StartLoop(SerialStopped(r))  begun == Begun("apply", r)
<1>3. /\ begun \in PushRecords /\ begun.pc \in {"waiting", "queued", "pushing"}
      /\ begun.pc \in {"queued", "pushing"} => begun.commands \in Settings
      /\ begun.pc = "pushing" => ~Locked
  BY BegunTyped
<1>4. \/ rotary' = r /\ push' = [push EXCEPT ![j] = begun] /\ display' = display
      \/ /\ rotary' = q
         /\ push' = [k \in Pushes |-> IF k = j THEN begun ELSE Cut(push[k])]
         /\ display' = [display EXCEPT !.lines = <<>>]
  BY DEF ApplyEnds
<1>5. /\ q \in RotaryRecords /\ ~q.connected
      /\ q.mixed = r.mixed /\ q.pushed = r.pushed /\ q.config = r.config
  <2>1. PICK odd \in BOOLEAN : SerialStopped(r) = [r EXCEPT !.port = "none", !.connected = FALSE,
                                                            !.works = FALSE, !.odd = odd]
    BY DEF SerialStopped, RotaryRecords
  <2>2. QED BY <2>1 DEF StartLoop, RotaryRecords
<1> HIDE DEF q, begun
<1>6. CASE rotary' = r /\ push' = [push EXCEPT ![j] = begun] /\ display' = display
  BY <1>1, <1>3, <1>6, RotaryPlainKeeps
<1>7. ASSUME rotary' = q, push' = [k \in Pushes |-> IF k = j THEN begun ELSE Cut(push[k])],
             display' = [display EXCEPT !.lines = <<>>]
      PROVE  RotaryInv'
  <2>1. display' \in DisplayRecords /\ display'.config = display.config
    <3>1. <<>> \in Seq(ClockStates) BY EmptySeq
    <3>2. QED BY <1>1, <1>7, <3>1 DEF DisplayRecords
  <2>2. \A k \in Pushes : /\ Cut(push[k]) \in PushRecords
                          /\ Cut(push[k]).pc \notin {"pushing", "taken"}
                          /\ Cut(push[k]).pc = "queued" => Cut(push[k]) = push[k]
                          /\ Cut(push[k]).pc \in Holding => push[k].pc \in Holding
    BY <1>1, NoPushTyped DEF Cut, PushRecords, Holding
  <2>3. push' \in [Pushes -> PushRecords] BY <1>3, <1>7, <2>2
  <2>4. \A k \in Pushes : push'[k] = IF k = j THEN begun ELSE Cut(push[k]) BY <1>7
  <2>5. begun.pc # "taken" /\ (begun.pc \in Holding => ~Locked) BY <1>3 DEF Holding
  <2>6. \A k \in Pushes : push'[k].pc \in {"queued", "pushing", "taken"} => push'[k].commands \in Settings
    BY <1>2, <1>3, <2>2, <2>4, <2>5 DEF PushesInOrder
  <2>7. \A i, k \in Pushes : push'[i].pc \in Holding /\ push'[k].pc \in Holding => i = k
    BY <1>2, <2>2, <2>4, <2>5 DEF PushesInOrder, Locked
  <2>8. \A k \in Pushes : push'[k].pc # "taken" BY <2>2, <2>4, <2>5
  <2>9. PushesInOrder(push', display') BY <2>6, <2>7, <2>8 DEF PushesInOrder
  <2>10. rotary'.config # NoSettings BY <1>5, <1>7, RotaryAssumption DEF RotaryAssumption, RotaryRecords
  <2>11. MixAgrees(rotary', display') BY <1>2, <1>5, <1>7, <2>1, <2>10 DEF MixAgrees
  <2>12. QED BY <1>1, <1>5, <1>7, <2>1, <2>3, <2>9, <2>11 DEF RotaryInv
<1>8. QED BY <1>4, <1>6, <1>7

LEMMA EnabledKeeps ==
  ASSUME RotaryInv, NEW j \in Pushes, NEW r \in RotaryRecords, Enabled(j, r), UNCHANGED <<display, clock>>,
         r.connected => r.port \in {"settling", "reading"},
         \/ r.mixed = rotary.mixed /\ r.config = rotary.config /\ r.pushed = rotary.pushed
         \/ r.pushed = NoSettings
  PROVE  RotaryInv'
<1>1. /\ push \in [Pushes -> PushRecords] /\ display \in DisplayRecords
      /\ clock \in [now : ClockStates, told : BOOLEAN]
  BY RotaryParts
<1>2. CASE Aligned[r.config] = r.config
  <2> DEFINE p == [NoPush EXCEPT !.pc = "greeting", !.kind = "apply"]
             q == [r EXCEPT !.connected = @ /\ r.works]
  <2>1. p \in PushRecords /\ p.pc = "greeting" BY DEF NoPush, PushRecords, RotaryMaybe, ShownStates
  <2>2. /\ q \in RotaryRecords /\ (q.connected => r.connected) /\ q.port = r.port
        /\ q.mixed = r.mixed /\ q.config = r.config /\ q.pushed = r.pushed
    BY DEF RotaryRecords
  <2>3. rotary' = q /\ push' = [push EXCEPT ![j] = p] BY <1>2 DEF Enabled
  <2> HIDE DEF p, q
  <2>4. QED BY <1>1, <2>1, <2>2, <2>3, RotaryPlainKeeps
<1>3. CASE Aligned[r.config] # r.config
  <2> DEFINE a == [r EXCEPT !.config = Aligned[r.config], !.pushed = NoSettings]
  <2>1. rotary' = StartLoop(a) /\ push' = [push EXCEPT ![j] = Begun("align", StartLoop(a))]
    BY <1>3 DEF Enabled, RotaryRecords
  <2>2. Aligned[r.config] \in Settings BY RotaryAssumption DEF RotaryAssumption, RotaryRecords
  <2>3. /\ a \in RotaryRecords /\ a.connected = r.connected /\ a.port = r.port
        /\ a.pushed = NoSettings
    BY <2>2 DEF RotaryRecords, RotaryMaybe
  <2> HIDE DEF a
  <2>4. /\ StartLoop(a) \in RotaryRecords /\ StartLoop(a).pushed = NoSettings
        /\ StartLoop(a).connected => StartLoop(a).port \in {"settling", "reading"}
    BY <2>3, LoopStarted
  <2>5. QED BY <1>1, <2>1, <2>4, BegunTyped, RotaryPlainKeeps
<1>4. QED BY <1>2, <1>3

LEMMA RotaryRequestSteps ==
  ASSUME RotaryInv, NEW j \in Pushes,
         \/ \E host \in {"osc", "serial", "both"}, s \in Settings : ApplyRuntimeConfig(j, host, s)
         \/ HostReady(j) \/ HostGreeted(j) \/ HostSwitched(j)
  PROVE  RotaryInv'
<1>1. /\ rotary \in RotaryRecords /\ push \in [Pushes -> PushRecords] /\ display \in DisplayRecords
      /\ clock \in [now : ClockStates, told : BOOLEAN] /\ clock.now \in ClockStates
      /\ rotary.connected => rotary.port \in {"settling", "reading"}
      /\ push[j] \in PushRecords
  BY RotaryParts
<1>2. ASSUME NEW host \in {"osc", "serial", "both"}, NEW s \in Settings, ApplyRuntimeConfig(j, host, s)
      PROVE  RotaryInv'
  <2> DEFINE r == UpdateConfig(rotary, host, s)
             p == [NoPush EXCEPT !.pc = "readying", !.kind = "apply"]
  <2>1. /\ r \in RotaryRecords /\ r.port = rotary.port /\ r.connected = rotary.connected
        /\ r.mixed = rotary.mixed
        /\ \/ r.config = rotary.config /\ r.pushed = rotary.pushed
           \/ r.pushed = NoSettings
    BY <1>1 DEF UpdateConfig, RotaryRecords, RotaryMaybe
  <2>2. UsesSerial \in BOOLEAN BY DEF UsesSerial
  <2>3. /\ clock' = clock
        /\ \/ ApplyEnds(j, r, UsesSerial)
           \/ Enabled(j, r) /\ display' = display
           \/ rotary' = StartLoop(r) /\ push' = [push EXCEPT ![j] = p] /\ display' = display
    BY <1>2 DEF ApplyRuntimeConfig
  <2>4. p \in PushRecords /\ p.pc = "readying" BY DEF NoPush, PushRecords, RotaryMaybe, ShownStates
  <2> HIDE DEF r, p
  <2>5. CASE ApplyEnds(j, r, UsesSerial) BY <1>1, <2>1, <2>2, <2>3, <2>5, ApplyEndsKeeps
  <2>6. CASE Enabled(j, r) /\ display' = display BY <1>1, <2>1, <2>3, <2>6, EnabledKeeps
  <2>7. CASE rotary' = StartLoop(r) /\ push' = [push EXCEPT ![j] = p] /\ display' = display
    <3>1. /\ rotary' \in RotaryRecords /\ (rotary'.connected => rotary'.port \in {"settling", "reading"})
          /\ rotary'.mixed = r.mixed /\ rotary'.config = r.config /\ rotary'.pushed = r.pushed
      BY <1>1, <2>1, <2>7, LoopStarted
    <3>2. QED BY <1>1, <2>1, <2>3, <2>4, <2>7, <3>1, RotaryPlainKeeps
  <2>8. QED BY <2>3, <2>5, <2>6, <2>7
<1>3. ASSUME HostReady(j) PROVE RotaryInv'
  BY <1>1, <1>3, EnabledKeeps DEF HostReady
<1>4. ASSUME HostGreeted(j) PROVE RotaryInv'
  <2> DEFINE p == [push[j] EXCEPT !.pc = "switching", !.sync = clock.now]
  <2>1. SyncFrom(rotary, display) /\ push' = [push EXCEPT ![j] = p] /\ clock' = clock
    BY <1>1, <1>4 DEF HostGreeted, SendSync
  <2>2. clock.now \in ShownStates BY <1>1 DEF ShownStates
  <2>3. p \in PushRecords /\ p.pc = "switching" BY <1>1, <2>2 DEF PushRecords
  <2> HIDE DEF p
  <2>4. /\ rotary' \in RotaryRecords /\ display' \in DisplayRecords
        /\ rotary'.connected = rotary.connected /\ rotary'.port = rotary.port
        /\ rotary'.mixed = rotary.mixed /\ rotary'.pushed = rotary.pushed
        /\ rotary'.config = rotary.config /\ display'.config = display.config
    BY <1>1, <2>1, SyncTypes
  <2>5. QED BY <1>1, <2>1, <2>3, <2>4, RotaryPlainKeeps
<1>5. ASSUME HostSwitched(j) PROVE RotaryInv'
  BY <1>1, <1>5, ApplyEndsKeeps DEF HostSwitched
<1>6. QED BY <1>2, <1>3, <1>4, <1>5

LEMMA RotaryKept == RotaryInv /\ [RotaryRuns \/ RotaryWorld]_rotaryVars => RotaryInv'
<1>1. SUFFICES ASSUME RotaryInv, [RotaryRuns \/ RotaryWorld]_rotaryVars PROVE RotaryInv'
  OBVIOUS
<1>2. CASE UNCHANGED rotaryVars
  BY <1>1, <1>2, RotaryParts, RotaryQuiet DEF rotaryVars
<1>3. CASE RotaryRuns
  BY <1>1, <1>3, RotaryTransportSteps, RotaryPushSteps, RotaryRequestSteps DEF RotaryRuns
<1>4. CASE RotaryWorld
  <2>1. rotary.host \in {"osc", "serial", "both"} /\ rotary.config \in Settings
    BY <1>1, RotaryParts DEF RotaryRecords
  <2>2. QED
    BY <1>1, <1>4, <2>1, RotaryTransportSteps, RotaryPushSteps, RotaryRequestSteps DEF RotaryWorld
<1>5. QED BY <1>1, <1>2, <1>3, <1>4

\* Settings that count as pushed are on the display when they are those configured, unless
\* it took commands of other settings meanwhile, for any settings, overlapping requests
\* and transports (RotaryDisplayModule).
THEOREM RotarySafety == RotarySpec => [](RotaryTypeOK /\ PushedIsOnDisplay)
BY RotaryStarts, RotaryKept, RotaryImplied, PTL DEF RotarySpec

-----------------------------------------------------------------------------
(* The brightness of the GamePi (GamePiBrightness).                         *)

LightInv == LightTypeOK /\ BrightnessWillBeTold

LEMMA ClampedLevel == \A n \in Int : Clamp(n) \in Levels0
BY LightAssumption DEF Clamp, Levels0

LEMMA LevelsAreNumbers == Levels0 \subseteq Int
BY LightAssumption DEF Levels0

LEMMA LevelTyped == LightTypeOK => Level(light) \in Levels0
BY DEF LightTypeOK, Level

LEMMA LightStarts == LightInit => LightInv
BY DEF LightInit, LightInv, LightTypeOK, BrightnessWillBeTold, Level

LEMMA KeysKeep ==
  ASSUME LightInv
  PROVE  /\ KeyApplies => LightInv'
         /\ KeyStores => LightInv'
         /\ \A delta \in {-1, 1} : KeyPressed(delta) => LightInv'
         /\ \A answered \in BOOLEAN : KeyNotifies(answered) => LightInv'
<1>1. KeyApplies => LightInv'
  BY DEF KeyApplies, BacklightSet, LightInv, LightTypeOK, BrightnessWillBeTold, Level
<1>2. KeyStores => LightInv'
  BY DEF KeyStores, Stored, LightInv, LightTypeOK, BrightnessWillBeTold, Level
<1>3. ASSUME NEW delta \in {-1, 1}, KeyPressed(delta) PROVE LightInv'
  <2>0. light.file \in Levels0 BY DEF LightInv, LightTypeOK
  <2>7. Levels0 \subseteq Int BY LevelsAreNumbers
  <2>9. light.file \in Int BY <2>0, <2>7
  <2>10. delta \in Int OBVIOUS
  <2>8. delta \in Int /\ light.file \in Int BY <2>9, <2>10
  <2>6. light.file + delta \in Int BY <2>8
  <2>1. Clamp(light.file + delta) \in Levels0 BY <2>6, ClampedLevel
  <2>2. keys' = [pc |-> "apply", level |-> Clamp(light.file + delta)] /\ UNCHANGED <<light, app, shown>>
        /\ keys.pc = "idle"
    BY <1>3 DEF KeyPressed
  <2> DEFINE n == Clamp(light.file + delta)
  <2> HIDE DEF n
  <2>3. n \in Levels0 /\ keys' = [pc |-> "apply", level |-> n] BY <2>1, <2>2 DEF n
  <2>4. keys' \in [pc : {"idle", "apply", "store", "notify"}, level : Levels0] BY <2>3
  <2>5. LightTypeOK' BY <2>2, <2>4 DEF LightInv, LightTypeOK
  <2>11. QED BY <2>2, <2>5 DEF LightInv, BrightnessWillBeTold, Level
<1>4. ASSUME NEW answered \in BOOLEAN, KeyNotifies(answered) PROVE LightInv'
  <2>1. Level(light) \in Levels0 BY LevelTyped DEF LightInv
  <2>2. /\ keys.pc = "notify" /\ keys' = [keys EXCEPT !.pc = "idle"] /\ UNCHANGED <<light, app>>
        /\ shown' = [level |-> Level(light), stale |-> FALSE] \/ shown' = shown
    BY <1>4 DEF KeyNotifies, PublishStatus, Published
  <2>3. shown' \in [level : Levels0, stale : BOOLEAN]
    <3>1. [level |-> Level(light), stale |-> FALSE] \in [level : Levels0, stale : BOOLEAN] BY <2>1
    <3>2. shown \in [level : Levels0, stale : BOOLEAN] BY DEF LightInv, LightTypeOK
    <3>3. QED BY <2>2, <3>1, <3>2
  <2>4. LightTypeOK' BY <2>2, <2>3 DEF LightInv, LightTypeOK
  <2>5. BrightnessWillBeTold' BY <2>2 DEF LightInv, BrightnessWillBeTold, Level
  <2>6. QED BY <2>4, <2>5 DEF LightInv
<1>5. QED BY <1>1, <1>2, <1>3, <1>4

LEMMA ServiceKeeps ==
  ASSUME LightInv
  PROVE  /\ \A n \in Levels0 : BrightnessSet(n) => LightInv'
         /\ \A delta \in {-1, 1} : WebAdjusts(delta) => LightInv'
         /\ AppStores => LightInv'
         /\ Poll => LightInv'
         /\ LookAtFile => LightInv'
<1>1. ASSUME NEW n \in Levels0, Sets(n), UNCHANGED <<keys, shown>> PROVE LightInv'
  <2>1. /\ light' = [light EXCEPT !.device = n] /\ keys' = keys /\ shown' = shown
        /\ app' = [app EXCEPT !.sets = TRUE, !.level = n]
    BY <1>1 DEF Sets, BacklightSet
  <2>2. LightTypeOK' BY <2>1 DEF LightInv, LightTypeOK
  <2>3. app'.sets BY <2>1 DEF LightInv, LightTypeOK
  <2>4. QED BY <2>2, <2>3 DEF LightInv, BrightnessWillBeTold
<1>2. ASSUME NEW delta \in {-1, 1}, WebAdjusts(delta) PROVE LightInv'
  <2>0. light.file \in Levels0 BY DEF LightInv, LightTypeOK
  <2>7. Levels0 \subseteq Int BY LevelsAreNumbers
  <2>9. light.file \in Int BY <2>0, <2>7
  <2>10. delta \in Int OBVIOUS
  <2>8. delta \in Int /\ light.file \in Int BY <2>9, <2>10
  <2>6. light.file + delta \in Int BY <2>8
  <2>1. Clamp(light.file + delta) \in Levels0 BY <2>6, ClampedLevel
  <2> DEFINE n == Clamp(light.file + delta)
  <2>2. Sets(n) /\ UNCHANGED <<keys, shown>> /\ n \in Levels0 BY <1>2, <2>1 DEF WebAdjusts
  <2> HIDE DEF n
  <2>3. QED BY <1>1, <2>2
<1>3. ASSUME AppStores PROVE LightInv'
  <2>1. /\ light' = [light EXCEPT !.file = app.level, !.new = TRUE] /\ keys' = keys
        /\ shown' = [level |-> app.level, stale |-> FALSE] /\ app' = [app EXCEPT !.sets = FALSE]
    BY <1>3 DEF AppStores, Stored, Published
  <2>2. LightTypeOK' BY <2>1 DEF LightInv, LightTypeOK
  <2>3. light'.new BY <2>1 DEF LightInv, LightTypeOK
  <2>4. QED BY <2>2, <2>3 DEF LightInv, BrightnessWillBeTold
<1>4. ASSUME Poll PROVE LightInv'
  <2>1. Level(light) \in Levels0 BY LevelTyped DEF LightInv
  <2>2. /\ light' = [light EXCEPT !.new = FALSE] /\ shown' = [level |-> Level(light), stale |-> FALSE]
        /\ app' = [app EXCEPT !.refreshing = TRUE] /\ keys' = keys
    BY <1>4 DEF Poll, RefreshBrightness, PublishStatus, Published
  <2>3. LightTypeOK' BY <2>1, <2>2 DEF LightInv, LightTypeOK
  <2>4. Level(light') = Level(light) BY <2>2 DEF Level, LightInv, LightTypeOK
  <2>5. QED BY <2>2, <2>3, <2>4 DEF LightInv, BrightnessWillBeTold
<1>5. ASSUME LookAtFile PROVE LightInv'
  <2>1. PICK stale \in BOOLEAN : stale = (shown.stale \/ (light.new /\ shown.level # Level(light)))
    OBVIOUS
  <2>2. /\ light' = [light EXCEPT !.new = FALSE] /\ ~app.sets
        /\ shown' = [shown EXCEPT !.stale = stale]
        /\ app' = [app EXCEPT !.refreshing = FALSE] /\ keys' = keys
    BY <1>5, <2>1 DEF LookAtFile, LightInv, LightTypeOK
  <2>3. LightTypeOK' BY <2>2 DEF LightInv, LightTypeOK
  <2>4. Level(light') = Level(light) BY <2>2 DEF Level, LightInv, LightTypeOK
  <2>5. /\ shown'.level = shown.level /\ shown'.stale = stale
        /\ shown.level = Level(light) \/ shown.stale \/ light.new \/ keys.pc = "store"
    BY <2>2 DEF LightInv, LightTypeOK, BrightnessWillBeTold
  <2>6. BrightnessWillBeTold'
    BY <2>1, <2>2, <2>4, <2>5 DEF BrightnessWillBeTold
  <2>7. QED BY <2>3, <2>6 DEF LightInv
<1>6. QED BY <1>1, <1>2, <1>3, <1>4, <1>5 DEF BrightnessSet

LEMMA LightKept == LightInv /\ [LightRuns \/ LightWorld]_lightVars => LightInv'
<1>1. LightInv /\ UNCHANGED lightVars => LightInv'
  BY DEF lightVars, LightInv, LightTypeOK, BrightnessWillBeTold, Level
<1>2. QED BY <1>1, KeysKeep, ServiceKeeps DEF LightRuns, LightWorld

\* Nobody changes the display's level without the store being told, for any range of
\* levels (GamePiBrightnessModule).
THEOREM LightSafety == LightSpec => [](LightTypeOK /\ BrightnessWillBeTold)
<1>1. LightSpec => []LightInv BY LightStarts, LightKept, PTL DEF LightSpec
<1>2. QED BY <1>1, PTL DEF LightInv

-----------------------------------------------------------------------------
(* The lookup of a display's name (DisplayLookup).                          *)

LEMMA FoundSomewhere ==
  LookupTypeOK => Found \in Somewhere
BY DEF LookupTypeOK, Found, Somewhere

\* Lookups are made for a display that has registered.
LookupInv == LookupTypeOK /\ \A t \in Lookups : lookup[t].pc # "idle" => target.known

LEMMA LookupStarts == LookupInit => LookupInv
BY DEF LookupInit, NoLookup, LookupInv, LookupTypeOK, Somewhere

LEMMA LookupKept == LookupInv /\ [LookupRuns \/ LookupWorld]_lookupVars => LookupInv'
<1> SUFFICES ASSUME LookupInv, [LookupRuns \/ LookupWorld]_lookupVars PROVE LookupInv' OBVIOUS
<1>0. LookupTypeOK /\ \A t \in Lookups : lookup[t].pc # "idle" => target.known BY DEF LookupInv
<1> DEFINE Tasked == [pc : {"idle", "resolving", "storing", "priming", "syncing"}, found : Somewhere]
<1>1. Found \in Somewhere /\ Nowhere \in Somewhere /\ Places \subseteq Somewhere
      /\ NoLookup \in Tasked
  BY <1>0, FoundSomewhere DEF NoLookup, Somewhere
<1>2. ASSUME NEW t \in Lookups, Hello(t) PROVE LookupInv'
  BY <1>2 DEF Hello, LookupInv, LookupTypeOK
<1>3. ASSUME NEW t \in Lookups, ResolveName(t) PROVE LookupInv'
  <2> DEFINE asked == target.cache = Nowhere /\ place.answers
             rest == [pc |-> IF asked THEN "storing" ELSE "priming", found |-> Found]
  <2>1. lookup' = [lookup EXCEPT ![t] = rest] /\ UNCHANGED <<target, place>> /\ target.known
    BY <1>3 DEF ResolveName, LookupInv
  <2>2. rest \in Tasked /\ rest.pc # "idle" BY <1>1
  <2>3. rest.pc = "storing" => rest.found # Nowhere
    BY <1>0, LookupAssumption DEF LookupAssumption, LookupTypeOK, Found
  <2> HIDE DEF rest
  <2>4. LookupTypeOK' BY <1>0, <2>1, <2>2, <2>3 DEF LookupTypeOK
  <2>5. QED BY <1>0, <2>1, <2>4 DEF LookupInv
<1>4. ASSUME NEW t \in Lookups, AnswerCached(t) PROVE LookupInv'
  <2>1. /\ lookup' = [lookup EXCEPT ![t].pc = "priming"] /\ place' = place
        /\ target' = [target EXCEPT !.cache = lookup[t].found] /\ target.known
    BY <1>4 DEF AnswerCached, LookupInv
  <2>2. lookup[t].found \in Somewhere BY <1>0 DEF LookupTypeOK
  <2>3. target'.known /\ LookupTypeOK' BY <1>0, <1>1, <2>1, <2>2 DEF LookupTypeOK
  <2>4. QED BY <2>3 DEF LookupInv
<1>5. ASSUME NEW t \in Lookups, Prime(t) PROVE LookupInv'
  <2> DEFINE rest == [pc |-> "syncing", found |-> Nowhere]
  <2>1. /\ lookup' = [lookup EXCEPT ![t] = rest] /\ place' = place
        /\ target' = [target EXCEPT !.ip = IF lookup[t].found = Nowhere THEN @ ELSE lookup[t].found]
        /\ target.known
    BY <1>5 DEF Prime, LookupInv
  <2>2. rest \in Tasked /\ rest.pc = "syncing" BY <1>1
  <2>3. lookup[t].found \in Somewhere BY <1>0 DEF LookupTypeOK
  <2> HIDE DEF rest
  <2>4. target'.known /\ LookupTypeOK' BY <1>0, <2>1, <2>2, <2>3 DEF LookupTypeOK
  <2>5. QED BY <2>4 DEF LookupInv
<1>6. ASSUME NEW t \in Lookups, SyncSent(t) \/ SendFails(t) PROVE LookupInv'
  <2>1. /\ target' = [target EXCEPT !.synced = IF target.ip = Nowhere THEN @ ELSE target.ip] \/ target' = target
        /\ lookup' = [lookup EXCEPT ![t] = NoLookup] /\ place' = place /\ target.known
    BY <1>6 DEF SyncSent, SendFails, LookupInv
  <2>2. NoLookup \in Tasked /\ NoLookup.pc = "idle" BY <1>1 DEF NoLookup
  <2>3. target'.known /\ LookupTypeOK' BY <1>0, <2>1, <2>2 DEF LookupTypeOK
  <2>4. QED BY <2>3 DEF LookupInv
<1>7. CASE CacheExpires
  BY <1>1, <1>7 DEF CacheExpires, Dropped, LookupInv, LookupTypeOK
<1>8. ASSUME NEW a \in Places, DisplayMoves(a) PROVE LookupInv'
  BY <1>8 DEF DisplayMoves, LookupInv, LookupTypeOK
<1>9. CASE NameGoes BY <1>9 DEF NameGoes, LookupInv, LookupTypeOK
<1>10. CASE UNCHANGED lookupVars BY <1>10 DEF lookupVars, LookupInv, LookupTypeOK
<1>11. QED
  BY <1>2, <1>3, <1>4, <1>5, <1>6, <1>7, <1>8, <1>9, <1>10 DEF LookupRuns, LookupWorld

\* Types of the lookup of a display; an address is noted, and a sync sent, only of a
\* display that has registered, and only what was found goes into the cache, for any
\* addresses and lookups that overlap (RotaryDisplayModule, resolve_mdns_ipv4()).
THEOREM LookupTypeCorrect == LookupSpec => []LookupTypeOK
<1>1. LookupSpec => []LookupInv BY LookupStarts, LookupKept, PTL DEF LookupSpec
<1>2. QED BY <1>1, PTL DEF LookupInv

-----------------------------------------------------------------------------
(* The tempo by taps and by controls (ClockControls).                        *)

(* Naturals: every set of them has a least element, and what follows. *)

LEMMA LeastNatural ==
  ASSUME NEW T \in SUBSET Nat, T # {}
  PROVE  \E m \in T : \A n \in T : m <= n
<1> DEFINE R == {p \in Nat \X Nat : p[1] < p[2]}
<1>1. IsWellFoundedOn(R, Nat)
  BY NatLessThanWellFounded DEF OpToRel
<1>2. \A x, y \in Nat : x < y => <<x, y>> \in R
  OBVIOUS
<1> HIDE DEF R
<1>3. PICK m \in T : \A n \in T : ~ (<<n, m>> \in R)
  BY <1>1, WFMin
<1>4. ASSUME NEW n \in T PROVE m <= n
  <2>1. m \in Nat /\ n \in Nat OBVIOUS
  <2>2. ~ (n < m) BY <1>2, <1>3, <2>1
  <2>3. QED BY <2>1, <2>2
<1>5. QED BY <1>4

\* Induction along an interval, for a set of numbers
LEMMA Reached ==
  ASSUME NEW first \in Nat, NEW last \in Nat, NEW G,
         first \in G, \A k \in first .. last - 1 : k \in G => k + 1 \in G
  PROVE  \A k \in first .. last : k \in G
<1> DEFINE Bad == {k \in first .. last : k \notin G}
<1>1. SUFFICES ASSUME Bad # {} PROVE FALSE OBVIOUS
<1>2. Bad \in SUBSET Nat OBVIOUS
<1>3. PICK m \in Bad : \A n \in Bad : m <= n
  BY <1>1, <1>2, LeastNatural
<1>4. m \in Nat /\ first <= m /\ m <= last /\ m \notin G OBVIOUS
<1>5. m # first BY <1>4
<1>6. m - 1 \in first .. last - 1 /\ m - 1 \in first .. last
  BY <1>4, <1>5
<1>7. m - 1 \notin Bad BY <1>3, <1>4, <1>6
<1>8. m - 1 \in G BY <1>6, <1>7
<1>9. (m - 1) + 1 \in G BY <1>6, <1>8
<1>10. QED BY <1>4, <1>9

\* Min() and Max() of a set of naturals that has a bound
LEMMA MinOfNaturals ==
  ASSUME NEW T \in SUBSET Nat, T # {}
  PROVE  Min(T) \in T /\ \A n \in T : Min(T) <= n
BY LeastNatural DEF Min

LEMMA MaxOfNaturals ==
  ASSUME NEW T \in SUBSET Nat, T # {}, NEW bound \in Nat, \A n \in T : n <= bound
  PROVE  Max(T) \in T /\ \A n \in T : n <= Max(T)
<1> DEFINE Bounds == {b \in Nat : \A n \in T : n <= b}
<1>1. bound \in Bounds OBVIOUS
<1>2. PICK m \in Bounds : \A b \in Bounds : m <= b
  BY <1>1, LeastNatural
<1>3. m \in T
  <2>1. SUFFICES ASSUME m \notin T PROVE FALSE OBVIOUS
  <2>2. PICK t \in T : TRUE OBVIOUS
  <2>3. \A n \in T : n <= m - 1
    BY <2>1, <1>2
  <2>4. m - 1 \in Nat
    BY <2>2, <2>3, <1>2
  <2>5. m - 1 \in Bounds BY <2>3, <2>4
  <2>6. QED BY <1>2, <2>5
<1>4. QED BY <1>2, <1>3 DEF Max

-----------------------------------------------------------------------------
(* Rounding. *)

LEMMA DivMod ==
  ASSUME NEW n \in Nat, NEW d \in Nat, d > 0
  PROVE  /\ n \div d \in Nat /\ n % d \in 0 .. d - 1
         /\ n % d = n - (n \div d) * d
<1>1. n \div d \in Nat /\ n % d \in 0 .. d - 1 OBVIOUS
<1>2. n % d = n - (n \div d) * d OBVIOUS
<1>3. QED BY <1>1, <1>2

LEMMA Times ==
  ASSUME NEW a \in Nat, NEW b \in Nat, NEW d \in Nat, a <= b
  PROVE  a * d <= b * d /\ a * d \in Nat /\ b * d \in Nat
<1>1. PICK c \in Nat : b = a + c
  <2>1. b - a \in Nat /\ b = a + (b - a) OBVIOUS
  <2>2. QED BY <2>1
<1>2. b * d = a * d + c * d BY <1>1
<1>3. a * d \in Nat /\ c * d \in Nat OBVIOUS
<1>4. QED BY <1>2, <1>3

LEMMA RoundedWithin ==
  ASSUME NEW n \in Nat, NEW d \in Nat, d > 0
  PROVE  /\ Rounded(n, d) \in Nat
         /\ \A a \in Nat : a * d <= n => a <= Rounded(n, d)
         /\ \A b \in Nat : n <= b * d => Rounded(n, d) <= b
<1> DEFINE q == n \div d  r == n % d
<1>1. q \in Nat /\ r \in 0 .. d - 1 /\ r = n - q * d
  BY DivMod
<1>2. Rounded(n, d) \in {q, q + 1} /\ (Rounded(n, d) = q + 1 => r > 0)
  BY <1>1 DEF Rounded
<1> HIDE DEF q, r
<1>3. ASSUME NEW a \in Nat, a * d <= n PROVE a <= q
  <2>1. SUFFICES ASSUME q + 1 <= a PROVE FALSE BY <1>1
  <2>2. (q + 1) * d <= a * d BY <1>1, <2>1, Times
  <2>3. (q + 1) * d = q * d + d BY <1>1
  <2>4. q * d \in Nat /\ a * d \in Nat BY <1>1
  <2>5. QED BY <1>1, <1>3, <2>2, <2>3, <2>4
<1>4. ASSUME NEW b \in Nat, n <= b * d PROVE q <= b /\ (r > 0 => q + 1 <= b)
  <2>1. q * d \in Nat /\ b * d \in Nat BY <1>1
  <2>2. ASSUME b + 1 <= q PROVE FALSE
    <3>1. (b + 1) * d <= q * d BY <1>1, <2>2, Times
    <3>2. (b + 1) * d = b * d + d BY <1>1
    <3>3. QED BY <1>1, <1>4, <2>1, <3>1, <3>2
  <2>3. ASSUME b = q, r > 0 PROVE FALSE
    BY <1>1, <1>4, <2>1, <2>3
  <2>4. QED BY <1>1, <2>2, <2>3
<1>5. QED BY <1>1, <1>2, <1>3, <1>4

-----------------------------------------------------------------------------
(* The taps that are remembered are the sums of the gaps since the last pause. *)

LEMMA BoundOfSeq ==
  ASSUME NEW s \in Seq(Nat)
  PROVE  \E b \in Nat : \A i \in 1 .. Len(s) : s[i] <= b
<1> DEFINE m == Len(s)
           G == {k \in Nat : \E b \in Nat : \A i \in 1 .. k : s[i] <= b}
<1>1. m \in Nat /\ \A i \in 1 .. m : s[i] \in Nat
  BY LenProperties, ElementOfSeq
<1> HIDE DEF m
<1>2. 0 \in G OBVIOUS
<1>3. ASSUME NEW k \in 0 .. m - 1, k \in G PROVE k + 1 \in G
  <2>1. PICK b \in Nat : \A i \in 1 .. k : s[i] <= b BY <1>3
  <2>2. s[k + 1] \in Nat BY <1>1
  <2>3. \A i \in 1 .. k : s[i] \in Nat BY <1>1
  <2>4. b + s[k + 1] \in Nat BY <2>2
  <2>5. \A i \in 1 .. k + 1 : s[i] <= b + s[k + 1]
    <3>1. TAKE i \in 1 .. k + 1
    <3>2. CASE i \in 1 .. k BY <2>1, <2>2, <2>3, <3>2
    <3>3. CASE i = k + 1 BY <2>2, <3>3
    <3>4. QED BY <3>2, <3>3
  <2>6. \E bound \in Nat : \A i \in 1 .. k + 1 : s[i] <= bound
    BY <2>4, <2>5
  <2>7. k + 1 \in Nat OBVIOUS
  <2>8. QED BY <2>6, <2>7
<1>4. m \in G
  <2> HIDE DEF G
  <2>1. \A k \in 0 .. m : k \in G BY <1>1, <1>2, <1>3, Reached
  <2>2. m \in 0 .. m BY <1>1
  <2>3. QED BY <2>1, <2>2
<1>5. \E b \in Nat : \A i \in 1 .. m : s[i] <= b
  BY <1>4
<1>6. QED BY <1>5 DEF m

\* From the first tap to a later one it is as many intervals as there are rises before it.
LEMMA Paces ==
  ASSUME NEW times \in Seq(Nat), times # <<>>, NEW lo \in Nat, NEW hi \in Nat,
         \A i \in 1 .. Len(times) - 1 : times[i] <= times[i + 1],
         \A i \in Rises(times) : times[i + 1] - times[i] \in lo .. hi
  PROVE  LET c == Cardinality(Rises(times)) IN
         /\ IsFiniteSet(Rises(times)) /\ c \in Nat
         /\ c * lo <= Last(times) - Head(times)
         /\ Last(times) - Head(times) <= c * hi
<1> DEFINE m == Len(times)
           Before(k) == {i \in Rises(times) : i < k}
           C(k) == Cardinality(Before(k))
           G == {k \in Nat : /\ C(k) * lo <= times[k] - times[1]
                             /\ times[k] - times[1] <= C(k) * hi}
<1>1. m \in Nat /\ m > 0 /\ \A i \in 1 .. m : times[i] \in Nat
  BY LenProperties, ElementOfSeq, EmptySeq
<1>2. Rises(times) = {i \in 1 .. m - 1 : times[i] < times[i + 1]}
  BY DEF Rises
<1>3. \A i \in 1 .. m - 1 : times[i] <= times[i + 1]
  OBVIOUS
<1>4. Last(times) = times[m] /\ Head(times) = times[1]
  BY <1>1 DEF Last
<1> HIDE DEF m
<1>5. IsFiniteSet(Rises(times))
  <2>1. IsFiniteSet(1 .. m - 1) BY <1>1, FS_Interval
  <2>2. QED BY <1>2, <2>1, FS_Subset
<1>6. \A k : IsFiniteSet(Before(k)) /\ C(k) \in Nat
  BY <1>5, FS_Subset, FS_CardinalityType
<1>7. 1 \in G
  <2>1. Before(1) = {} BY <1>1, <1>2
  <2>2. C(1) = 0 BY <2>1, FS_EmptySet
  <2>3. times[1] \in Nat BY <1>1
  <2>4. QED BY <2>2, <2>3
<1>8. ASSUME NEW k \in 1 .. m - 1, k \in G PROVE k + 1 \in G
  <2> DEFINE c == C(k)  d == C(k + 1)
  <2>1. times[k] \in Nat /\ times[k + 1] \in Nat /\ times[1] \in Nat /\ times[k] <= times[k + 1]
    BY <1>1, <1>3
  <2>2. c \in Nat /\ d \in Nat BY <1>6
  <2>3. c * lo <= times[k] - times[1] /\ times[k] - times[1] <= c * hi BY <1>8
  <2>4. SUFFICES d * lo <= times[k + 1] - times[1] /\ times[k + 1] - times[1] <= d * hi
    OBVIOUS
  <2>5. \A i \in Rises(times) : i < k + 1 <=> i < k \/ i = k
    <3>1. \A i \in Rises(times) : i \in Nat BY <1>1, <1>2
    <3>2. QED BY <1>1, <3>1
  <2>6. CASE k \in Rises(times)
    <3>1. Before(k + 1) = Before(k) \cup {k} /\ k \notin Before(k)
      <4>1. k \in Nat /\ ~ (k < k) BY <1>1
      <4>2. QED BY <2>5, <2>6, <4>1
    <3>2. d = c + 1
      <4>1. IsFiniteSet(Before(k)) BY <1>6
      <4> HIDE DEF Before
      <4>2. QED BY <3>1, <4>1, FS_AddElement
    <3>3. times[k + 1] - times[k] \in lo .. hi BY <2>6
    <3> HIDE DEF c, d
    <3>4. /\ d * lo = c * lo + lo /\ d * hi = c * hi + hi
          /\ c * lo \in Nat /\ c * hi \in Nat
      <4>1. (c + 1) * lo = c * lo + lo /\ (c + 1) * hi = c * hi + hi BY <2>2
      <4>2. c * lo \in Nat /\ c * hi \in Nat BY <2>2
      <4>3. QED BY <3>2, <4>1, <4>2
    <3> DEFINE low == c * lo  high == c * hi  now == times[k]  next == times[k + 1]
    <3>5. /\ low \in Nat /\ high \in Nat /\ d * lo = low + lo /\ d * hi = high + hi
          /\ now \in Nat /\ next \in Nat /\ times[1] \in Nat
          /\ low <= now - times[1] /\ now - times[1] <= high
          /\ next - now \in lo .. hi
      BY <2>1, <2>3, <3>3, <3>4
    <3> HIDE DEF low, high, now, next
    <3>6. low + lo <= next - times[1] /\ next - times[1] <= high + hi BY <3>5
    <3>7. QED BY <3>5, <3>6 DEF next
  <2>7. CASE k \notin Rises(times)
    <3>1. Before(k + 1) = Before(k) BY <2>5, <2>7
    <3>2. times[k + 1] = times[k] BY <1>2, <2>1, <2>7
    <3>3. d = c BY <3>1
    <3> HIDE DEF c, d
    <3>4. d * lo <= times[k + 1] - times[1] BY <2>3, <3>2, <3>3
    <3>5. times[k + 1] - times[1] <= d * hi BY <2>3, <3>2, <3>3
    <3>6. QED BY <3>4, <3>5
  <2>8. QED BY <2>6, <2>7
<1>9. \A k \in 1 .. m : k \in G
  <2> HIDE DEF G
  <2>1. QED BY <1>1, <1>7, <1>8, Reached
<1>10. m \in G
  <2>1. m \in 1 .. m BY <1>1
  <2> HIDE DEF G
  <2>2. QED BY <1>9, <2>1
<1>11. Before(m) = Rises(times) BY <1>1, <1>2
<1>12. QED BY <1>4, <1>5, <1>6, <1>10, <1>11

\* A mean lies between the slowest and the fastest interval.
LEMMA MeanWithin ==
  ASSUME NEW times \in Seq(Nat), times # <<>>, NEW lo \in Nat, lo > 0, NEW hi \in Nat, hi > 0,
         Minute \in Nat, Rises(times) # {},
         \A i \in 1 .. Len(times) - 1 : times[i] <= times[i + 1],
         \A i \in Rises(times) : times[i + 1] - times[i] \in lo .. hi
  PROVE  /\ TappedTempo(times) \in Nat
         /\ Minute \div hi \in Nat /\ Minute \div hi <= TappedTempo(times)
         /\ (Minute + lo - 1) \div lo \in Nat /\ TappedTempo(times) <= (Minute + lo - 1) \div lo
<1> DEFINE c == Cardinality(Rises(times))
           T == Last(times) - Head(times)
           a == Minute \div hi
           b == (Minute + lo - 1) \div lo
<1>1. IsFiniteSet(Rises(times)) /\ c \in Nat /\ c * lo <= T /\ T <= c * hi
  BY Paces
<1>2. c > 0 BY <1>1, FS_EmptySet
<1>3. T \in Int
  <2>1. Len(times) \in Nat /\ Len(times) > 0 /\ \A i \in 1 .. Len(times) : times[i] \in Nat
    BY LenProperties, ElementOfSeq, EmptySeq
  <2>2. Last(times) = times[Len(times)] /\ Head(times) = times[1]
    BY <2>1, HeadTailProperties DEF Last
  <2>3. QED BY <2>1, <2>2
<1>4. a \in Nat /\ a * hi <= Minute
  <2>1. a \in Nat /\ Minute % hi \in 0 .. hi - 1 /\ Minute % hi = Minute - a * hi BY DivMod
  <2>2. a * hi \in Nat BY <2>1
  <2> HIDE DEF a
  <2>3. QED BY <2>1, <2>2
<1>5. b \in Nat /\ Minute <= b * lo
  <2>1. Minute + lo - 1 \in Nat OBVIOUS
  <2>2. /\ b \in Nat /\ (Minute + lo - 1) % lo \in 0 .. lo - 1
        /\ (Minute + lo - 1) % lo = (Minute + lo - 1) - b * lo
    BY <2>1, DivMod
  <2>3. b * lo \in Nat BY <2>2
  <2> HIDE DEF b
  <2>4. QED BY <2>2, <2>3
<1> HIDE DEF c, T, a, b
<1>6. c * lo \in Nat /\ c * hi \in Nat /\ c <= c * lo
  <2>1. 1 * c <= lo * c BY <1>1, Times
  <2>2. 1 * c = c /\ lo * c = c * lo BY <1>1
  <2>3. c * lo \in Nat /\ c * hi \in Nat BY <1>1
  <2>4. QED BY <2>1, <2>2, <2>3
<1>7. T \in Nat /\ T > 0
  <2> DEFINE least == c * lo
  <2>1. least \in Nat /\ c <= least /\ least <= T BY <1>1, <1>6
  <2> HIDE DEF least
  <2>2. QED BY <1>1, <1>2, <1>3, <2>1
<1>8. Minute * c \in Nat BY <1>1
<1>9. a * T <= Minute * c
  <2>1. T * a <= (c * hi) * a BY <1>1, <1>4, <1>6, <1>7, Times
  <2>2. (a * hi) * c <= Minute * c
    <3>1. a * hi \in Nat BY <1>4
    <3>2. QED BY <1>1, <1>4, <3>1, Times
  <2>3. (c * hi) * a = (a * hi) * c /\ T * a = a * T BY <1>1, <1>4, <1>7
  <2>4. a * T \in Nat /\ (a * hi) * c \in Nat BY <1>1, <1>4, <1>7
  <2>5. QED BY <1>8, <2>1, <2>2, <2>3, <2>4
<1>10. Minute * c <= b * T
  <2>1. (c * lo) * b <= T * b BY <1>1, <1>5, <1>6, <1>7, Times
  <2>2. Minute * c <= (b * lo) * c
    <3>1. b * lo \in Nat BY <1>5
    <3>2. QED BY <1>1, <1>5, <3>1, Times
  <2>3. (c * lo) * b = (b * lo) * c /\ T * b = b * T BY <1>1, <1>5, <1>7
  <2>4. b * T \in Nat /\ (b * lo) * c \in Nat BY <1>1, <1>5, <1>7
  <2>5. QED BY <1>8, <2>1, <2>2, <2>3, <2>4
<1>11. /\ Rounded(Minute * c, T) \in Nat
       /\ a <= Rounded(Minute * c, T) /\ Rounded(Minute * c, T) <= b
  BY <1>4, <1>5, <1>7, <1>8, <1>9, <1>10, RoundedWithin
<1>12. QED BY <1>4, <1>5, <1>11 DEF TappedTempo, c, T, a, b

-----------------------------------------------------------------------------
(* The invariant. *)

\* Between two taps that are remembered lies the gap between them.
InStepWith(times, gaps) ==
  /\ Len(times) <= MaxTaps /\ Len(times) <= Len(gaps) + 1
  /\ \A i \in 1 .. Len(times) - 1 :
       times[i + 1] = times[i] + gaps[(Len(gaps) - Len(times)) + 1 + i]

\* What a tempo is.
TapTempi == [bpm : Slowest .. Fastest, min : MinTaps, msb : {NoMsb} \cup (0 .. Digits - 1),
             needed : {NoTaps} \cup MinTaps]

ControlsInv == ControlsTypeOK /\ InStepWith(tapped, hand) /\ TempoIsOfTaps

LEMMA ControlNumbers ==
  /\ Minute \in Nat /\ ResetTimeout \in Nat /\ MaxTaps \in Nat /\ MaxTaps > 0
  /\ Slowest \in Nat /\ Fastest \in Nat /\ Slowest <= Fastest
  /\ Digits \in Nat /\ Digits > 1 /\ Gaps \subseteq Nat /\ MinTaps \subseteq Nat
BY ControlsAssumption DEF ControlsAssumption

LEMMA ClampedWithin ==
  ASSUME NEW n \in Int
  PROVE  /\ Clamped(n) \in Slowest .. Fastest
         /\ \A m \in Int : n <= m => Clamped(n) <= Clamped(m)
BY ControlNumbers DEF Clamped

LEMMA NewestOfSeq ==
  ASSUME NEW s \in Seq(Nat), s # <<>>
  PROVE  \E drop \in Nat :
           /\ drop < Len(s) /\ drop = (IF Len(s) > MaxTaps THEN Len(s) - MaxTaps ELSE 0)
           /\ Newest(s) \in Seq(Nat) /\ Len(Newest(s)) = Len(s) - drop
           /\ \A i \in 1 .. Len(s) - drop : Newest(s)[i] = s[i + drop]
<1> DEFINE n == Len(s)
           drop == IF n > MaxTaps THEN n - MaxTaps ELSE 0
<1>1. n \in Nat /\ n > 0 /\ \A i \in 1 .. n : s[i] \in Nat
  BY LenProperties, ElementOfSeq, EmptySeq
<1>2. drop \in Nat /\ drop < n
  BY <1>1, ControlNumbers
<1>3. Newest(s) = SubSeq(s, drop + 1, n)
  BY <1>1, ControlNumbers DEF Newest
<1> HIDE DEF n, drop
<1>4. drop + 1 \in Int /\ n \in Int /\ \A i \in (drop + 1) .. n : s[i] \in Nat
  BY <1>1, <1>2
<1>5. /\ SubSeq(s, drop + 1, n) \in Seq(Nat)
      /\ Len(SubSeq(s, drop + 1, n)) = n - drop
      /\ \A i \in 1 .. n - drop : SubSeq(s, drop + 1, n)[i] = s[i + drop]
  <2>1. /\ SubSeq(s, drop + 1, n) \in Seq(Nat)
        /\ Len(SubSeq(s, drop + 1, n)) = IF drop + 1 <= n THEN n - (drop + 1) + 1 ELSE 0
        /\ \A i \in 1 .. n - (drop + 1) + 1 : SubSeq(s, drop + 1, n)[i] = s[(drop + 1) + i - 1]
    BY <1>4, SubSeqProperties
  <2>2. drop + 1 <= n /\ n - (drop + 1) + 1 = n - drop BY <1>1, <1>2
  <2>3. \A i \in 1 .. n - drop : (drop + 1) + i - 1 = i + drop BY <1>1, <1>2
  <2>4. QED BY <2>1, <2>2, <2>3
<1>6. QED BY <1>2, <1>3, <1>5 DEF n, drop

\* One more tap: what is remembered of the taps stays in step with the gaps.
TimeAfter(times, gap) == IF times = <<>> THEN 0 ELSE Last(times) + gap
TapsAfter(times, now) == Newest(Append(KeptTaps(times, now), now))
GapsAfter(times, gaps, gap) ==
  IF times = <<>> \/ gap > ResetTimeout THEN <<>> ELSE Append(gaps, gap)

LEMMA NotEmpty ==
  ASSUME NEW s, Len(s) # 0
  PROVE  s # <<>>
OBVIOUS

LEMMA Appended ==
  ASSUME NEW s \in Seq(Nat), NEW e \in Nat
  PROVE  /\ Append(s, e) \in Seq(Nat) /\ Append(s, e) # <<>> /\ Len(Append(s, e)) = Len(s) + 1
         /\ \A i \in 1 .. Len(s) : Append(s, e)[i] = s[i]
         /\ Append(s, e)[Len(s) + 1] = e
BY AppendProperties

LEMMA NextTap ==
  ASSUME NEW times \in Seq(Nat), NEW gaps \in Seq(Nat), InStepWith(times, gaps), NEW gap \in Nat
  PROVE  LET next == TapsAfter(times, TimeAfter(times, gap))
             all == GapsAfter(times, gaps, gap) IN
         /\ next \in Seq(Nat) /\ next # <<>> /\ all \in Seq(Nat)
         /\ InStepWith(next, all)
<1> DEFINE n == Len(times)  g == Len(gaps)
           now == TimeAfter(times, gap)
           next == TapsAfter(times, now)
           all == GapsAfter(times, gaps, gap)
<1>1. /\ n \in Nat /\ \A i \in 1 .. n : times[i] \in Nat
      /\ g \in Nat /\ \A i \in 1 .. g : gaps[i] \in Nat
  BY LenProperties, ElementOfSeq
<1>2. times # <<>> => n > 0 /\ Last(times) = times[n] /\ Last(times) \in Nat
  BY <1>1, EmptySeq DEF Last
<1>3. now \in Nat BY <1>2 DEF TimeAfter
<1> HIDE DEF now, next, all
<1>a. SUFFICES /\ next \in Seq(Nat) /\ next # <<>> /\ all \in Seq(Nat)
               /\ InStepWith(next, all)
  BY DEF next, all, now
<1>4. CASE times = <<>> \/ gap > ResetTimeout
  <2>1. KeptTaps(times, now) = <<>>
    <3>1. times # <<>> => now - Last(times) = gap BY <1>2 DEF now, TimeAfter
    <3>2. QED BY <1>4, <3>1 DEF KeptTaps
  <2>2. /\ Append(<<>>, now) \in Seq(Nat) /\ Append(<<>>, now) # <<>>
        /\ Len(Append(<<>>, now)) = 1
    BY <1>3, AppendProperties, EmptySeq
  <2>3. PICK drop \in Nat :
          /\ drop < 1 /\ next \in Seq(Nat) /\ Len(next) = 1 - drop
    <3>1. next = Newest(Append(<<>>, now)) BY <2>1 DEF next, TapsAfter
    <3>2. QED BY <2>2, <3>1, NewestOfSeq
  <2>4. Len(next) = 1 /\ next \in Seq(Nat)
    <3>1. drop = 0 BY <2>3
    <3>2. 1 - drop = 1 BY <3>1
    <3>3. QED BY <2>3, <3>2
  <2>5. all = <<>> /\ all \in Seq(Nat) /\ Len(all) = 0
    BY <1>4, EmptySeq DEF all, GapsAfter
  <2>6. next # <<>>
    <3>1. Len(next) # 0 BY <2>4
    <3>2. QED BY <3>1, NotEmpty
  <2>7. InStepWith(next, all)
    <3>1. 1 .. Len(next) - 1 = {} BY <2>4
    <3>2. Len(next) <= MaxTaps /\ Len(next) <= Len(all) + 1 BY <2>4, <2>5, ControlNumbers
    <3>3. QED BY <3>1, <3>2 DEF InStepWith
  <2>8. QED BY <2>4, <2>5, <2>6, <2>7
<1>5. CASE times # <<>> /\ ~ (gap > ResetTimeout)
  <2> DEFINE s == Append(times, now)
  <2>1. KeptTaps(times, now) = times
    <3>1. now - Last(times) = gap BY <1>2, <1>5 DEF now, TimeAfter
    <3>2. QED BY <1>5, <3>1 DEF KeptTaps
  <2>2. /\ s \in Seq(Nat) /\ s # <<>> /\ Len(s) = n + 1
        /\ \A i \in 1 .. n : s[i] = times[i]
        /\ s[n + 1] = now
    BY <1>3, Appended
  <2>3. /\ all = Append(gaps, gap) /\ all \in Seq(Nat) /\ Len(all) = g + 1
        /\ \A i \in 1 .. g : all[i] = gaps[i]
        /\ all[g + 1] = gap
    BY <1>5, Appended DEF all, GapsAfter
  <2>4. PICK drop \in Nat :
          /\ drop < n + 1 /\ drop = (IF n + 1 > MaxTaps THEN (n + 1) - MaxTaps ELSE 0)
          /\ next \in Seq(Nat) /\ Len(next) = (n + 1) - drop
          /\ \A i \in 1 .. (n + 1) - drop : next[i] = s[i + drop]
    <3>1. next = Newest(s) BY <2>1 DEF next, TapsAfter
    <3> HIDE DEF s
    <3>2. PICK drop \in Nat :
            /\ drop < Len(s) /\ drop = (IF Len(s) > MaxTaps THEN Len(s) - MaxTaps ELSE 0)
            /\ Newest(s) \in Seq(Nat) /\ Len(Newest(s)) = Len(s) - drop
            /\ \A i \in 1 .. Len(s) - drop : Newest(s)[i] = s[i + drop]
      BY <2>2, NewestOfSeq
    <3>3. QED BY <2>2, <3>1, <3>2
  <2> HIDE DEF s, n, g
  <2>5. n <= g + 1 BY DEF InStepWith, n, g
  <2>6. \A j \in 1 .. n : s[j + 1] = s[j] + all[(g - n) + 1 + j]
    <3>1. TAKE j \in 1 .. n
    <3>2. CASE j = n
      <4>1. (g - n) + 1 + j = g + 1 BY <1>1, <3>2
      <4>2. s[j + 1] = now /\ s[j] = times[n] BY <1>1, <2>2, <3>2
      <4>3. now = times[n] + gap BY <1>2, <1>5 DEF now, TimeAfter
      <4>4. QED BY <2>3, <4>1, <4>2, <4>3
    <3>3. CASE j # n
      <4>1. j \in 1 .. n - 1 /\ j + 1 \in 1 .. n /\ (g - n) + 1 + j \in 1 .. g
        BY <1>1, <2>5, <3>3
      <4>2. times[j + 1] = times[j] + gaps[(g - n) + 1 + j]
        BY <4>1 DEF InStepWith, n, g
      <4>3. s[j + 1] = times[j + 1] /\ s[j] = times[j] BY <2>2, <4>1
      <4>4. QED BY <2>3, <4>1, <4>2, <4>3
    <3>4. QED BY <3>2, <3>3
  <2> DEFINE l == Len(next)
  <2>11. l \in Nat /\ l > 0 /\ l = (n + 1) - drop /\ l + drop = n + 1
    <3>1. next \in Seq(Nat) /\ l = (n + 1) - drop BY <2>4
    <3>2. l \in Nat BY <3>1, LenProperties
    <3>3. n \in Nat /\ drop < n + 1 BY <1>1, <2>4
    <3> HIDE DEF l, n
    <3>4. l = (n + 1) - drop BY <3>1
    <3>5. QED BY <3>2, <3>3, <3>4
  <2>7. ASSUME NEW i \in 1 .. Len(next) - 1
        PROVE  next[i + 1] = next[i] + all[(Len(all) - Len(next)) + 1 + i]
    <3> HIDE DEF l
    <3>1. i \in 1 .. (n + 1) - drop /\ i + 1 \in 1 .. (n + 1) - drop /\ i + drop \in 1 .. n
      <4>1. i \in 1 .. l - 1 BY DEF l
      <4>2. QED BY <1>1, <2>11, <4>1
    <3>2. next[i] = s[i + drop] /\ next[i + 1] = s[(i + 1) + drop] BY <2>4, <3>1
    <3>3. (i + 1) + drop = (i + drop) + 1 OBVIOUS
    <3>4. (Len(all) - Len(next)) + 1 + i = (g - n) + 1 + (i + drop)
      <4>1. ((g + 1) - l) + 1 + i = (g - n) + 1 + (i + drop) BY <1>1, <2>11, <3>1
      <4>2. QED BY <2>3, <4>1 DEF l
    <3>5. s[(i + drop) + 1] = s[i + drop] + all[(g - n) + 1 + (i + drop)] BY <2>6, <3>1
    <3>6. QED BY <3>2, <3>3, <3>4, <3>5
  <2>8. Len(next) <= MaxTaps /\ Len(next) <= Len(all) + 1 /\ Len(next) > 0
    <3> HIDE DEF l
    <3>1. l <= MaxTaps /\ l <= (g + 1) + 1 BY <1>1, <2>4, <2>5, <2>11, ControlNumbers
    <3>2. QED BY <2>3, <2>11, <3>1 DEF l
  <2>9. next # <<>> BY <2>8, EmptySeq
  <2>10. QED BY <2>3, <2>4, <2>7, <2>8, <2>9 DEF InStepWith
<1>6. QED BY <1>4, <1>5

\* What the taps that are remembered say of the gaps: the tempo that they make lies
\* between those of the slowest and the fastest.
LEMMA TempoOfTaps ==
  ASSUME NEW times \in Seq(Nat), times # <<>>, NEW gaps \in Seq(Nat), InStepWith(times, gaps),
         Rises(times) # {},
         NEW last, last = {i \in 1 .. Len(gaps) : i > Len(gaps) - (MaxTaps - 1)},
         NEW lately, lately = {gaps[i] : i \in last} \ {0}
  PROVE  /\ lately # {} /\ TappedTempo(times) \in Nat
         /\ Clamped(TappedTempo(times)) \in
              Clamped(Minute \div Max(lately)) .. Clamped((Minute + Min(lately) - 1) \div Min(lately))
<1> DEFINE n == Len(times)  g == Len(gaps)
<1>1. /\ n \in Nat /\ \A i \in 1 .. n : times[i] \in Nat
      /\ g \in Nat /\ \A i \in 1 .. g : gaps[i] \in Nat
  BY LenProperties, ElementOfSeq
<1>2. /\ n <= MaxTaps /\ n <= g + 1
      /\ \A i \in 1 .. n - 1 : times[i + 1] = times[i] + gaps[(g - n) + 1 + i]
  BY DEF InStepWith
<1>3. last = {i \in 1 .. g : i > g - (MaxTaps - 1)} OBVIOUS
<1>4. Rises(times) = {i \in 1 .. n - 1 : times[i] < times[i + 1]} BY DEF Rises
<1>5. PICK bound \in Nat : \A i \in 1 .. g : gaps[i] <= bound BY BoundOfSeq
<1> HIDE DEF n, g
<1>6. /\ lately \subseteq Nat /\ 0 \notin lately
      /\ \A x \in lately : x <= bound
  BY <1>1, <1>3, <1>5
<1>7. ASSUME NEW i \in 1 .. n - 1
      PROVE  /\ times[i] <= times[i + 1]
             /\ times[i] < times[i + 1] => times[i + 1] - times[i] \in lately
  <2> DEFINE k == (g - n) + 1 + i
  <2>1. k \in 1 .. g /\ k > g - (MaxTaps - 1)
    BY <1>1, <1>2, ControlNumbers
  <2> HIDE DEF k
  <2>2. times[i + 1] = times[i] + gaps[k] BY <1>2 DEF k
  <2>3. times[i] \in Nat /\ gaps[k] \in Nat BY <1>1, <2>1
  <2>4. times[i] <= times[i + 1] /\ times[i + 1] - times[i] = gaps[k] BY <2>2, <2>3
  <2>5. k \in last BY <1>3, <2>1
  <2>6. ASSUME times[i] < times[i + 1] PROVE gaps[k] \in lately
    <3>1. gaps[k] # 0 BY <2>2, <2>3, <2>6
    <3>2. QED BY <2>5, <3>1
  <2>7. QED BY <2>4, <2>6
<1>8. lately # {} BY <1>4, <1>7
<1>9. /\ Min(lately) \in lately /\ \A x \in lately : Min(lately) <= x
      /\ Max(lately) \in lately /\ \A x \in lately : x <= Max(lately)
  <2>1. lately \in SUBSET Nat BY <1>6
  <2>2. QED BY <1>6, <1>8, <2>1, MinOfNaturals, MaxOfNaturals
<1> DEFINE lo == Min(lately)  hi == Max(lately)
<1>10. lo \in Nat /\ lo > 0 /\ hi \in Nat /\ hi > 0 BY <1>6, <1>9
<1>11. \A i \in Rises(times) : times[i + 1] - times[i] \in lo .. hi
  <2>1. TAKE i \in Rises(times)
  <2> DEFINE gap == times[i + 1] - times[i]
  <2>2. gap \in lately BY <1>4, <1>7
  <2> HIDE DEF gap
  <2>3. gap \in Nat /\ lo <= gap /\ gap <= hi BY <1>6, <1>9, <2>2
  <2> HIDE DEF lo, hi
  <2>4. gap \in lo .. hi BY <1>10, <2>3
  <2>5. QED BY <2>4 DEF gap
<1> HIDE DEF lo, hi
<1>12. \A i \in 1 .. Len(times) - 1 : times[i] <= times[i + 1] BY <1>7 DEF n
<1>13. Minute \in Nat BY ControlNumbers
<1>14. /\ TappedTempo(times) \in Nat
       /\ Minute \div hi \in Nat /\ Minute \div hi <= TappedTempo(times)
       /\ (Minute + lo - 1) \div lo \in Nat /\ TappedTempo(times) <= (Minute + lo - 1) \div lo
  BY <1>10, <1>11, <1>12, <1>13, MeanWithin
<1> DEFINE x == TappedTempo(times)  a == Minute \div hi  b == (Minute + lo - 1) \div lo
<1>15. x \in Int /\ a \in Int /\ b \in Int /\ a <= x /\ x <= b BY <1>14
<1> HIDE DEF x, a, b
<1>16. /\ Clamped(x) \in Int /\ Clamped(a) \in Int /\ Clamped(b) \in Int
       /\ Clamped(a) <= Clamped(x) /\ Clamped(x) <= Clamped(b)
  <2>1. /\ Clamped(x) \in Slowest .. Fastest /\ Clamped(a) \in Slowest .. Fastest
        /\ Clamped(b) \in Slowest .. Fastest
    BY <1>15, ClampedWithin
  <2>2. Clamped(a) <= Clamped(x) /\ Clamped(x) <= Clamped(b) BY <1>15, ClampedWithin
  <2>3. QED BY <2>1, <2>2, ControlNumbers
<1>17. Clamped(x) \in Clamped(a) .. Clamped(b) BY <1>16
<1>18. QED BY <1>8, <1>14, <1>17 DEF x, a, b, lo, hi

LEMMA SetTempo ==
  ASSUME NEW t \in TapTempi, NEW n \in Int, NEW needed \in {NoTaps} \cup MinTaps
  PROVE  /\ SetBpm(t, n, needed) \in TapTempi
         /\ SetBpm(t, n, needed).bpm = Clamped(n) /\ SetBpm(t, n, needed).min = t.min
         /\ SetBpm(t, n, needed).needed = needed
         /\ SetBpm(t, n, needed).bpm # t.bpm => SetBpm(t, n, needed).msb = NoMsb
<1>1. Clamped(n) \in Slowest .. Fastest BY ClampedWithin
<1>2. QED BY <1>1 DEF SetBpm, TapTempi

LEMMA ControlsStart == ControlsInit => ControlsInv
<1>1. SUFFICES ASSUME ControlsInit PROVE ControlsInv OBVIOUS
<1>2. ControlsTypeOK
  <2>1. <<>> \in Seq(Nat) /\ Len(<<>>) <= MaxTaps /\ <<>> \in Seq(Slowest .. Fastest)
    BY ControlNumbers, EmptySeq
  <2>2. tapped = <<>> /\ hand = <<>> /\ replacing = <<>> BY <1>1 DEF ControlsInit
  <2>3. tempo \in TapTempi /\ pressed \in [Triggers -> BOOLEAN]
    <3>1. /\ tempo \in [bpm : {Slowest}, min : MinTaps, msb : {NoMsb}, needed : {NoTaps}]
          /\ pressed = [t \in Triggers |-> FALSE]
      BY <1>1 DEF ControlsInit
    <3>2. Slowest \in Slowest .. Fastest BY ControlNumbers
    <3>3. QED BY <3>1, <3>2 DEF TapTempi
  <2>4. QED BY <2>1, <2>2, <2>3 DEF ControlsTypeOK, TapTempi
<1>3. InStepWith(tapped, hand)
  BY <1>1, ControlNumbers DEF ControlsInit, InStepWith
<1>4. TempoIsOfTaps
  <2>1. tempo.needed = NoTaps BY <1>1 DEF ControlsInit
  <2>2. QED BY <2>1 DEF TempoIsOfTaps
<1>5. QED BY <1>2, <1>3, <1>4 DEF ControlsInv

\* One less configuration is on its way.
LEMMA OneConfigured ==
  ASSUME NEW s \in Seq(Slowest .. Fastest), NEW i \in DOMAIN s
  PROVE  /\ s[i] \in Slowest .. Fastest
         /\ RemoveAt(s, i) \in Seq(Slowest .. Fastest)
         /\ Len(RemoveAt(s, i)) < Len(s)
<1> DEFINE n == Len(s)
<1>1. n \in Nat /\ i \in 1 .. n /\ \A k \in 1 .. n : s[k] \in Slowest .. Fastest
  BY LenProperties, ElementOfSeq
<1> HIDE DEF n
<1>2. /\ SubSeq(s, 1, i - 1) \in Seq(Slowest .. Fastest)
      /\ Len(SubSeq(s, 1, i - 1)) = i - 1
  BY <1>1, SubSeqProperties DEF n
<1>3. /\ SubSeq(s, i + 1, n) \in Seq(Slowest .. Fastest)
      /\ Len(SubSeq(s, i + 1, n)) = n - i
  BY <1>1, SubSeqProperties DEF n
<1>4. /\ RemoveAt(s, i) \in Seq(Slowest .. Fastest)
      /\ Len(RemoveAt(s, i)) = (i - 1) + (n - i)
  BY <1>2, <1>3, ConcatProperties DEF RemoveAt, n
<1>5. QED BY <1>1, <1>4 DEF n

\* The tempo of a pair lies among the tempi, whatever its parts.
LEMMA TempoOfPair ==
  ASSUME NEW msb \in 0 .. Digits - 1, NEW v \in 0 .. Digits - 1
  PROVE  Slowest + ((msb * Digits + v) * (Fastest - Slowest)) \div (Digits * Digits - 1) \in Int
<1> DEFINE raw == msb * Digits + v
<1>1. Digits * Digits \in Nat /\ 1 * Digits <= Digits * Digits
  BY ControlNumbers, Times
<1>2. Digits * Digits - 1 \in Nat /\ Digits * Digits - 1 > 0 BY <1>1, ControlNumbers
<1>3. raw \in Nat BY ControlNumbers
<1>4. Fastest - Slowest \in Nat BY ControlNumbers
<1> HIDE DEF raw
<1>5. raw * (Fastest - Slowest) \in Nat BY <1>3, <1>4
<1>6. (raw * (Fastest - Slowest)) \div (Digits * Digits - 1) \in Nat BY <1>2, <1>5, DivMod
<1>7. Slowest + (raw * (Fastest - Slowest)) \div (Digits * Digits - 1) \in Int
  BY <1>6, ControlNumbers
<1>8. QED BY <1>7 DEF raw

\* A step keeps the invariant, and no MSB for another tempo's LSB.
PairKept ==
  tempo'.bpm # tempo.bpm /\ NoMsb \notin {tempo.msb, tempo'.msb} => Len(replacing') < Len(replacing)

LEMMA ControlsKept ==
  ControlsInv /\ [ControlsRuns \/ ControlsWorld]_controlsVars => ControlsInv' /\ PairKept
<1>1. SUFFICES ASSUME ControlsInv, [ControlsRuns \/ ControlsWorld]_controlsVars
               PROVE  ControlsInv' /\ PairKept
  OBVIOUS
<1>2. /\ tempo \in TapTempi /\ tapped \in Seq(Nat) /\ Len(tapped) <= MaxTaps
      /\ pressed \in [Triggers -> BOOLEAN] /\ hand \in Seq(Nat)
      /\ replacing \in Seq(Slowest .. Fastest)
      /\ InStepWith(tapped, hand) /\ TempoIsOfTaps
  BY <1>1 DEF ControlsInv, ControlsTypeOK, TapTempi
\* the taps stay, and the tempo is not one of taps any more
<1>3. ASSUME UNCHANGED <<tapped, hand>>, tempo' \in TapTempi, pressed' \in [Triggers -> BOOLEAN],
             replacing' \in Seq(Slowest .. Fastest), tempo'.needed = NoTaps
      PROVE  ControlsInv'
  BY <1>2, <1>3 DEF ControlsInv, ControlsTypeOK, InStepWith, TempoIsOfTaps, TapTempi
\* the tempo and the taps stay as they are
<1>4. ASSUME UNCHANGED <<tapped, hand>>, tempo' \in TapTempi, pressed' \in [Triggers -> BOOLEAN],
             replacing' \in Seq(Slowest .. Fastest),
             tempo'.bpm = tempo.bpm, tempo'.needed = tempo.needed
      PROVE  ControlsInv' /\ PairKept
  <2>1. TempoIsOfTaps' = TempoIsOfTaps BY <1>4, Zenon DEF TempoIsOfTaps
  <2>2. InStepWith(tapped, hand)' BY <1>2, <1>4
  <2>3. ControlsTypeOK' BY <1>2, <1>4 DEF ControlsTypeOK, TapTempi
  <2>4. QED BY <1>2, <1>4, <2>1, <2>2, <2>3 DEF ControlsInv, PairKept
<1>5. ASSUME NEW t \in Triggers, Release(t) PROVE ControlsInv' /\ PairKept
  BY <1>2, <1>4, <1>5 DEF Release
<1>6. ASSUME NEW gap \in Gaps, Tap(gap) PROVE ControlsInv' /\ PairKept
  <2> DEFINE now == TimeAfter(tapped, gap)
             times == TapsAfter(tapped, now)
             known == Len(times) >= tempo.min /\ Rises(times) # {}
  <2>1. /\ tapped' = times /\ hand' = GapsAfter(tapped, hand, gap) /\ replacing' = replacing
        /\ tempo' = IF known THEN SetBpm(tempo, TappedTempo(times), tempo.min)
                    ELSE [tempo EXCEPT !.needed = NoTaps]
        /\ pressed' \in [Triggers -> BOOLEAN]
    <3>1. TapAt(now)
      BY <1>6 DEF Tap, TimeAfter
    <3>2. hand' = GapsAfter(tapped, hand, gap) BY <1>6 DEF Tap, GapsAfter
    <3>3. pressed' \in [Triggers -> BOOLEAN] /\ replacing' = replacing BY <1>2, <1>6 DEF Tap, Press
    <3>4. QED BY <3>1, <3>2, <3>3 DEF TapAt, TapsAfter
  <2>2. /\ tapped' \in Seq(Nat) /\ tapped' # <<>> /\ hand' \in Seq(Nat)
        /\ InStepWith(tapped', hand')
    <3>1. gap \in Nat BY ControlNumbers
    <3>2. QED BY <1>2, <2>1, <3>1, NextTap
  <2>3. Len(tapped') <= MaxTaps /\ Len(tapped') <= Len(hand') + 1 BY <2>2 DEF InStepWith
  <2>4. CASE ~ known
    <3>1. tempo' \in TapTempi /\ tempo'.needed = NoTaps /\ tempo'.bpm = tempo.bpm
      BY <1>2, <2>1, <2>4 DEF TapTempi
    <3>2. ControlsInv'
      BY <1>2, <2>1, <2>2, <2>3, <3>1 DEF ControlsInv, ControlsTypeOK, InStepWith, TempoIsOfTaps, TapTempi
    <3>3. QED BY <3>1, <3>2 DEF PairKept
  <2>5. CASE known
    <3> DEFINE last == {i \in 1 .. Len(hand') : i > Len(hand') - (MaxTaps - 1)}
               lately == {hand'[i] : i \in last} \ {0}
    <3>1. Rises(tapped') # {} /\ Len(tapped') >= tempo.min BY <2>1, <2>5
    <3>2. /\ lately # {} /\ TappedTempo(tapped') \in Nat
          /\ Clamped(TappedTempo(tapped')) \in
               Clamped(Minute \div Max(lately)) .. Clamped((Minute + Min(lately) - 1) \div Min(lately))
      BY <2>2, <3>1, TempoOfTaps
    <3>3. TappedTempo(tapped') \in Int /\ tempo.min \in MinTaps BY <1>2, <3>2 DEF TapTempi
    <3>4. /\ tempo' \in TapTempi /\ tempo'.bpm = Clamped(TappedTempo(tapped'))
          /\ tempo'.needed = tempo.min /\ (tempo'.bpm # tempo.bpm => tempo'.msb = NoMsb)
      BY <1>2, <2>1, <2>5, <3>3, SetTempo
    <3>5. Len(hand') + 1 >= tempo'.needed
      <4>1. Len(hand') \in Nat /\ Len(tapped') \in Nat BY <2>2, LenProperties
      <4>2. tempo.min \in Nat BY <3>3, ControlNumbers
      <4>3. QED BY <2>3, <3>1, <3>4, <4>1, <4>2
    <3>6. TempoIsOfTaps' BY <3>2, <3>4, <3>5 DEF TempoIsOfTaps
    <3>7. ControlsInv'
      BY <1>2, <2>1, <2>2, <2>3, <3>4, <3>6 DEF ControlsInv, ControlsTypeOK, InStepWith, TapTempi
    <3>8. QED BY <3>4, <3>7 DEF PairKept
  <2>6. QED BY <2>4, <2>5
\* a tempo that is set by a number
<1>7. ASSUME NEW n \in Int, tempo' = SetBpm(tempo, n, NoTaps), UNCHANGED <<tapped, replacing, hand>>,
             pressed' \in [Triggers -> BOOLEAN]
      PROVE  ControlsInv' /\ PairKept
  <2>1. /\ tempo' \in TapTempi /\ tempo'.needed = NoTaps
        /\ tempo'.bpm # tempo.bpm => tempo'.msb = NoMsb
    BY <1>2, <1>7, SetTempo
  <2>2. ControlsInv' BY <1>2, <1>3, <1>7, <2>1
  <2>3. QED BY <2>1, <2>2 DEF PairKept
<1>8. ASSUME NEW t \in Triggers, NEW delta \in {1, -1}, Step(t, delta) PROVE ControlsInv' /\ PairKept
  <2>1. tempo.bpm + delta \in Int BY <1>2, ControlNumbers DEF TapTempi
  <2>2. pressed' \in [Triggers -> BOOLEAN] BY <1>2, <1>8 DEF Step, Press
  <2>3. QED BY <1>7, <1>8, <2>1, <2>2 DEF Step
<1>9. ASSUME NEW n \in {Slowest, Fastest + 1}, SetNumber(n) PROVE ControlsInv' /\ PairKept
  <2>1. n \in Int BY ControlNumbers
  <2>2. QED BY <1>2, <1>7, <1>9, <2>1 DEF SetNumber
<1>10. ASSUME NEW v \in 0 .. Digits - 1, Msb(v) PROVE ControlsInv' /\ PairKept
  <2>1. tempo' \in TapTempi /\ tempo'.bpm = tempo.bpm /\ tempo'.needed = tempo.needed
    BY <1>2, <1>10 DEF Msb, TapTempi
  <2>2. QED BY <1>2, <1>4, <1>10, <2>1 DEF Msb
<1>11. ASSUME NEW v \in 0 .. Digits - 1, Lsb(v) PROVE ControlsInv' /\ PairKept
  <2> DEFINE n == Slowest + ((tempo.msb * Digits + v) * (Fastest - Slowest)) \div (Digits * Digits - 1)
  <2>1. tempo.msb \in 0 .. Digits - 1 BY <1>2, <1>11 DEF Lsb, TapTempi
  <2>2. n \in Int BY <2>1, TempoOfPair
  <2>3. tempo' = SetBpm(tempo, n, NoTaps) BY <1>11 DEF Lsb
  <2> HIDE DEF n
  <2>4. QED BY <1>2, <1>7, <1>11, <2>2, <2>3 DEF Lsb
<1>12. ASSUME NEW min \in MinTaps, NEW bpm \in {Slowest, Fastest + 1}, Configure(min, bpm)
       PROVE  ControlsInv' /\ PairKept
  <2>1. tempo' \in TapTempi /\ tempo'.bpm = tempo.bpm /\ tempo'.needed = tempo.needed
    BY <1>2, <1>12 DEF Configure, TapTempi
  <2>2. replacing' \in Seq(Slowest .. Fastest)
    <3>1. bpm \in Slowest .. Fastest BY <1>12 DEF Configure, Accepted
    <3>2. QED BY <1>2, <1>12, <3>1, AppendProperties DEF Configure
  <2>3. QED BY <1>2, <1>4, <1>12, <2>1, <2>2 DEF Configure
<1>13. ASSUME NEW i \in DOMAIN replacing, TempoConfigured(i) PROVE ControlsInv' /\ PairKept
  <2>1. /\ replacing[i] \in Slowest .. Fastest
        /\ replacing' \in Seq(Slowest .. Fastest) /\ Len(replacing') < Len(replacing)
    BY <1>2, <1>13, OneConfigured DEF TempoConfigured
  <2>2. tempo' \in TapTempi /\ tempo'.needed = NoTaps BY <1>2, <1>13, <2>1 DEF TempoConfigured, TapTempi
  <2>3. QED BY <1>2, <1>3, <1>13, <2>1, <2>2 DEF TempoConfigured, PairKept
<1>14. CASE UNCHANGED controlsVars
  BY <1>2, <1>4, <1>14 DEF controlsVars
<1>15. QED
  BY <1>1, <1>5, <1>6, <1>8, <1>9, <1>10, <1>11, <1>12, <1>13, <1>14 DEF ControlsRuns, ControlsWorld, Triggers

\* The tempo that a tap has set lies between the slowest and the fastest of the last gaps
\* since a pause, and there were as many as the configuration of the time asked for; no MSB
\* outlives the tempo that it came under but for one that came while a configuration was on
\* its way.  For any limits, pause and numbers of taps (TapTempoTracker.register_tap(),
\* MasterClock.register_tap_tempo(), set_bpm() and configure()).
THEOREM ControlsSafety == ControlsSpec => [](ControlsTypeOK /\ TempoIsOfTaps) /\ PairsAreOfOneTempo
<1>1. ControlsInv => ControlsTypeOK /\ TempoIsOfTaps BY DEF ControlsInv
<1>2. ControlsInv /\ [ControlsRuns \/ ControlsWorld]_controlsVars
        => [tempo'.bpm # tempo.bpm /\ NoMsb \notin {tempo.msb, tempo'.msb}
              => Len(replacing') < Len(replacing)]_controlsVars
  BY ControlsKept DEF PairKept
<1>3. QED BY ControlsStart, ControlsKept, <1>1, <1>2, PTL DEF ControlsSpec, PairsAreOfOneTempo

-----------------------------------------------------------------------------
(* An endless encoder (RelativeEncoder).                                     *)

(* The ring, and the ends of the target. *)

LEMMA RingNumbers ==
  /\ Ring \in Nat /\ Ring > 2 /\ Top \in Nat /\ NoStep \in Int /\ NoStep < 0
  /\ Half \in Nat /\ Half > 0 /\ Ring = 2 * Half
BY EncoderAssumption DEF EncoderAssumption, Half

LEMMA OnceAround ==
  ASSUME NEW r \in Nat, r > 0, NEW x \in Int
  PROVE  /\ 0 <= x /\ x < r => x % r = x
         /\ r <= x /\ x < r + r => x % r = x - r
         /\ x < 0 /\ -r <= x => x % r = x + r
         /\ x % r \in 0 .. r - 1
<1>1. 0 <= x /\ x < r => x % r = x OBVIOUS
<1>2. x % r \in 0 .. r - 1 OBVIOUS
<1>3. r <= x /\ x < r + r => x % r = x - r OBVIOUS
<1>4. x < 0 /\ -r <= x => x % r = x + r OBVIOUS
<1>5. QED BY <1>1, <1>2, <1>3, <1>4

LEMMA MinOfTwo ==
  ASSUME NEW a \in Int, NEW b \in Int
  PROVE  Min({a, b}) = IF a <= b THEN a ELSE b
<1>1. \E x \in {a, b} : \A y \in {a, b} : x <= y OBVIOUS
<1>2. Min({a, b}) \in {a, b} /\ \A y \in {a, b} : Min({a, b}) <= y BY <1>1 DEF Min
<1>3. QED BY <1>2

LEMMA MaxOfTwo ==
  ASSUME NEW a \in Int, NEW b \in Int
  PROVE  Max({a, b}) = IF a <= b THEN b ELSE a
<1>1. \E x \in {a, b} : \A y \in {a, b} : y <= x OBVIOUS
<1>2. Max({a, b}) \in {a, b} /\ \A y \in {a, b} : y <= Max({a, b}) BY <1>1 DEF Max
<1>3. QED BY <1>2

LEMMA WithinEnds ==
  ASSUME NEW n \in Int
  PROVE  InRange(n) \in 0 .. Top
<1> DEFINE m == Min({n, Top})
<1>1. Top \in Nat BY RingNumbers
<1>2. m \in Int /\ m <= Top BY <1>1, MinOfTwo
<1> HIDE DEF m
<1>3. Max({0, m}) \in 0 .. Top BY <1>1, <1>2, MaxOfTwo
<1>4. QED BY <1>3 DEF InRange, m

-----------------------------------------------------------------------------
(* The invariant: the accumulator is what the turns have made of the target. *)

EncoderInv ==
  /\ EncoderTypeOK
  /\ graph = [last |-> graph.last, sum |-> turned]
  /\ knob.absolute =>
       /\ graph.last \in {NoStep, knob.at}
       /\ graph.last = NoStep => turned = NoStep

LEMMA EncoderStarts == EncoderInit => EncoderInv
BY RingNumbers DEF EncoderInit, EncoderInv, EncoderTypeOK

\* A turn that counts is the step that the graph sees.
LEMMA StepIsTurn ==
  ASSUME EncoderInv, NEW d \in (1 - Half) .. (Half - 1)
  PROVE  LET at == (knob.at + d) % Ring IN
         /\ at \in 0 .. Ring - 1
         /\ d = 0 <=> at = knob.at
         /\ knob.absolute => AbsoluteDelta(graph.last, at) = IF graph.last = NoStep THEN 0 ELSE d
         /\ OffsetDelta(Half + d) = d
<1> DEFINE was == knob.at  x == was + d  at == x % Ring
<1>1. was \in 0 .. Ring - 1 BY DEF EncoderInv, EncoderTypeOK
<1> HIDE DEF was
<1>2. /\ at \in 0 .. Ring - 1
      /\ 0 <= x /\ x < Ring => at = x
      /\ Ring <= x => at = x - Ring
      /\ x < 0 => at = x + Ring
  <2>1. x \in Int /\ -Ring <= x /\ x < Ring + Ring BY <1>1, RingNumbers
  <2>2. Ring \in Nat /\ Ring > 0 BY RingNumbers
  <2> HIDE DEF x
  <2>3. QED BY <2>1, <2>2, OnceAround
<1>3. graph.last # NoStep /\ knob.absolute => graph.last = was
  BY DEF EncoderInv, was
<1> HIDE DEF at
<1>4. d = 0 <=> at = was BY <1>1, <1>2, RingNumbers
<1>5. graph.last # NoStep /\ knob.absolute => AbsoluteDelta(graph.last, at) = d
  BY <1>1, <1>2, <1>3, RingNumbers DEF AbsoluteDelta
<1>6. graph.last = NoStep => AbsoluteDelta(graph.last, at) = 0
  BY DEF AbsoluteDelta
<1>7. OffsetDelta(Half + d) = d BY RingNumbers DEF OffsetDelta
<1>8. QED BY <1>2, <1>4, <1>5, <1>6, <1>7 DEF at, was

LEMMA TurnKeeps ==
  ASSUME EncoderInv, NEW d \in (1 - Half) .. (Half - 1), Turn(d)
  PROVE  EncoderInv' /\ (knob'.at # knob.at /\ turned' # NoStep => value' = turned')
<1> DEFINE at == (knob.at + d) % Ring
           step == IF knob.absolute THEN at ELSE Half + d
           delta == IF knob.absolute THEN AbsoluteDelta(graph.last, step) ELSE OffsetDelta(step)
           sum == IF graph.sum = NoStep THEN value ELSE graph.sum
           last == IF knob.absolute THEN step ELSE graph.last
           counts == ~knob.absolute \/ graph.last # NoStep
<1>1. /\ knob \in [absolute : BOOLEAN, invert : BOOLEAN, at : 0 .. Ring - 1]
      /\ graph.last \in {NoStep} \cup (0 .. Ring - 1) /\ graph.sum \in {NoStep} \cup (0 .. Top)
      /\ value \in 0 .. Top /\ turned \in {NoStep} \cup (0 .. Top)
      /\ graph = [last |-> graph.last, sum |-> turned]
      /\ graph.sum = turned
      /\ knob.absolute => (graph.last = NoStep => turned = NoStep)
  BY DEF EncoderInv, EncoderTypeOK
<1>2. /\ at \in 0 .. Ring - 1 /\ (d = 0 <=> at = knob.at)
      /\ delta = IF counts THEN d ELSE 0
  BY StepIsTurn
<1>3. /\ knob' = [knob EXCEPT !.at = at]
      /\ IF delta = 0 THEN graph' = [graph EXCEPT !.last = last] /\ UNCHANGED value
         ELSE graph' = [last |-> last, sum |-> Added(sum, delta)] /\ value' = Added(sum, delta)
      /\ turned' = IF counts /\ d # 0 THEN Added(sum, d) ELSE turned
  BY <1>1 DEF Turn, Receive
<1>4. sum \in 0 .. Top BY <1>1, RingNumbers
<1>5. Added(sum, d) \in 0 .. Top
  <2>1. sum - d \in Int /\ sum + d \in Int BY <1>4, RingNumbers
  <2>2. QED BY <2>1, WithinEnds DEF Added
<1>6. last \in {NoStep} \cup (0 .. Ring - 1) /\ (knob.absolute => last = at)
  BY <1>1, <1>2
<1>7. graph' = [last |-> last, sum |-> IF counts /\ d # 0 THEN Added(sum, d) ELSE graph.sum]
  <2>1. CASE delta = 0
    <3>1. graph' = [last |-> last, sum |-> graph.sum] BY <1>1, <1>3, <2>1
    <3>2. ~ (counts /\ d # 0) BY <1>2, <2>1
    <3>3. QED BY <3>1, <3>2
  <2>2. CASE delta # 0
    <3>1. counts /\ delta = d /\ d # 0 BY <1>2, <2>2
    <3>2. graph' = [last |-> last, sum |-> Added(sum, d)] BY <1>3, <2>2, <3>1
    <3>3. QED BY <3>1, <3>2
  <2>3. QED BY <2>1, <2>2
<1>8. counts /\ d # 0 => value' = Added(sum, d)
  BY <1>2, <1>3
<1>9. ~ (counts /\ d # 0) => value' = value
  BY <1>2, <1>3
<1> HIDE DEF at, step, delta, sum, last
<1>10. knob' \in [absolute : BOOLEAN, invert : BOOLEAN, at : 0 .. Ring - 1] /\ knob'.at = at
       /\ knob'.absolute = knob.absolute
  BY <1>1, <1>2, <1>3
<1>11. graph'.last = last /\ graph'.sum = (IF counts /\ d # 0 THEN Added(sum, d) ELSE graph.sum)
  BY <1>7
<1>12. EncoderTypeOK'
  BY <1>1, <1>3, <1>5, <1>6, <1>8, <1>9, <1>10, <1>11 DEF EncoderTypeOK
<1>13. at # NoStep BY <1>2, RingNumbers
<1>14. EncoderInv'
  <2>1. graph' = [last |-> graph'.last, sum |-> turned'] BY <1>1, <1>3, <1>7
  <2>2. QED BY <1>1, <1>3, <1>6, <1>10, <1>11, <1>12, <1>13, <2>1 DEF EncoderInv
<1>15. knob'.at # knob.at /\ turned' # NoStep => value' = turned'
  BY <1>1, <1>2, <1>3, <1>8, <1>10
<1>16. QED BY <1>14, <1>15

LEMMA EncoderSteps ==
  EncoderInv /\ [EncoderWorld]_encoderVars
    => EncoderInv' /\ (knob'.at # knob.at /\ turned' # NoStep => value' = turned')
<1>1. SUFFICES ASSUME EncoderInv, [EncoderWorld]_encoderVars
               PROVE  EncoderInv' /\ (knob'.at # knob.at /\ turned' # NoStep => value' = turned')
  OBVIOUS
<1>2. ASSUME NEW d \in (1 - Half) .. (Half - 1), Turn(d)
      PROVE  EncoderInv' /\ (knob'.at # knob.at /\ turned' # NoStep => value' = turned')
  BY <1>1, <1>2, TurnKeeps
<1>3. ASSUME NEW v \in {0, Top}, WrittenElsewhere(v)
      PROVE  EncoderInv' /\ knob' = knob
  BY <1>1, <1>3, RingNumbers DEF WrittenElsewhere, EncoderInv, EncoderTypeOK
<1>4. CASE UNCHANGED encoderVars
  BY <1>1, <1>4 DEF encoderVars, EncoderInv, EncoderTypeOK
<1>5. QED BY <1>1, <1>2, <1>3, <1>4 DEF EncoderWorld, encoderVars

\* A turn moves the target to where the turns since the first one have put it, within its
\* ends, for any ring and ends (the relative modifiers of ModifierGraph).
THEOREM EncoderSafety == EncoderSpec => []EncoderTypeOK /\ TurnsAreFollowed
<1>1. EncoderInv => EncoderTypeOK BY DEF EncoderInv
<1>2. EncoderInv /\ [EncoderWorld]_encoderVars
        => [knob'.at # knob.at /\ turned' # NoStep => value' = turned']_encoderVars
  BY EncoderSteps
<1>3. EncoderInv /\ [EncoderWorld]_encoderVars => EncoderInv'
  BY EncoderSteps
<1>4. QED BY EncoderStarts, <1>1, <1>2, <1>3, PTL DEF EncoderSpec, TurnsAreFollowed

-----------------------------------------------------------------------------
(* All of them, side by side.                                                *)

\* However the components run side by side, every variable of each has its type, with the
\* facts that tie its parts together (the classes of src/midijuggler/adapters, modules
\* and web).
THEOREM ComponentsTypeCorrect ==
  /\ WingSpec /\ ClientSpec /\ MidiSpec /\ GpioSpec /\ HidSpec /\ RtpSpec /\ MonitorSpec
  /\ EditsSpec /\ LifeSpec /\ RotarySpec /\ LookupSpec /\ OscSpec /\ LightSpec
  /\ ControlsSpec /\ EncoderSpec /\ EchoSpec /\ EditorsSpec
  => []ComponentsTypeOK
<1>1. WingSpec /\ ClientSpec /\ RtpSpec => [](WingTypeOK /\ ClientTypeOK /\ RtpTypeOK)
  BY WingTypeCorrect, ClientTypeCorrect, RtpTypeCorrect, PTL
<1>2. MidiSpec /\ GpioSpec /\ HidSpec /\ EchoSpec => [](MidiTypeOK /\ GpioTypeOK /\ HidTypeOK /\ EchoTypeOK)
  BY MidiSafety, GpioSafety, HidSafety, EchoSafety, PTL
<1>3. MonitorSpec /\ EditsSpec /\ LifeSpec /\ EditorsSpec
        => [](MonitorTypeOK /\ EditsTypeOK /\ LifeTypeOK /\ EditorsTypeOK)
  BY MonitorSafety, EditsTypeCorrect, LifeTypeCorrect, PagesSafety, PTL
<1>4. RotarySpec /\ LookupSpec /\ OscSpec /\ LightSpec
        => [](RotaryTypeOK /\ LookupTypeOK /\ OscTypeOK /\ LightTypeOK)
  BY RotarySafety, LookupTypeCorrect, OscSafety, LightSafety, PTL
<1>5. ControlsSpec /\ EncoderSpec => [](ControlsTypeOK /\ EncoderTypeOK)
  BY ControlsSafety, EncoderSafety, PTL
<1>6. QED BY <1>1, <1>2, <1>3, <1>4, <1>5, PTL DEF ComponentsTypeOK

\* However they run side by side, what is at rest agrees with what it follows, or somebody
\* is about to see to it: announced sessions, ports, switches, keys, echoed controls, the
\* session with a desk, browsers, displays (the classes of src/midijuggler/adapters,
\* modules and web).
THEOREM AtRestAllAgreesHolds ==
  /\ RtpSpec /\ MidiSpec /\ GpioSpec /\ HidSpec /\ EchoSpec /\ OscSpec /\ MonitorSpec
  /\ EditorsSpec /\ RotarySpec /\ LightSpec
  => []AtRestAllAgrees
<1>1. RtpSpec /\ MidiSpec /\ GpioSpec /\ HidSpec /\ EchoSpec
        => [](AnnouncedAsConfigured /\ PortIsServed /\ StableIsPublished /\ KeyIsHeard /\ ControlIsHeld)
  BY AnnouncedAsConfiguredHolds, MidiSafety, GpioSafety, HidSafety, EchoSafety, PTL
<1>2. OscSpec /\ MonitorSpec /\ EditorsSpec /\ RotarySpec /\ LightSpec
        => [](SessionIsKept /\ NewestIsUnderWay /\ PagesAgree /\ PushedIsOnDisplay /\ BrightnessWillBeTold)
  BY OscSafety, MonitorSafety, PagesSafety, RotarySafety, LightSafety, PTL
<1>3. QED BY <1>1, <1>2, PTL DEF AtRestAllAgrees

\* A tempo set by taps is the tempo of the taps, one set by a pair of controllers is of an
\* MSB that no other tempo came after, and an endless encoder moves its target by its
\* turns, for any limits, rings and steps (MasterClockGenerator, ModifierGraph).
THEOREM ControlsAreObeyedHolds == ControlsSpec /\ EncoderSpec => ControlsAreObeyed
<1>1. ControlsSpec => []TempoIsOfTaps /\ PairsAreOfOneTempo BY ControlsSafety, PTL
<1>2. QED BY <1>1, EncoderSafety DEF ControlsAreObeyed
=============================================================================
