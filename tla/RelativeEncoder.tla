--------------------------- MODULE RelativeEncoder ---------------------------
(***************************************************************************)
(* An endless encoder that is connected to a value with two ends:          *)
(* ModifierGraph._map_value() of modules/modifier/graph.py with the        *)
(* functions of relative_delta.py.  The encoder sends a signed step, or    *)
(* its position on a ring, which goes over at the end.  The graph adds the *)
(* steps to a value that it keeps for itself (the accumulator).            *)
(*                                                                         *)
(* One connection with a linear scale, and one unit of the target to a     *)
(* step.                                                                   *)
(***************************************************************************)
EXTENDS Integers, FiniteSetsExt

CONSTANTS
  Ring,   \* positions of the encoder (128)
  Top,    \* the target's values are 0 .. Top
  NoStep

ASSUME EncoderAssumption ==
  /\ Ring \in Nat /\ Top \in Nat /\ NoStep \in Int /\ NoStep < 0
  /\ Ring > 2 /\ Ring % 2 = 0

VARIABLES
  knob,    \* encoding and direction of the connection, the encoder's position
  graph,   \* _last_relative_input and the accumulator (NoStep: none yet)
  value,   \* the target in the store
  turned   \* where the turns alone have put the target (NoStep: not turned yet)

encoderVars == <<knob, graph, value, turned>>

Half == Ring \div 2
InRange(n) == Max({0, Min({n, Top})})

EncoderInit ==
  /\ knob \in [absolute : BOOLEAN, invert : BOOLEAN, at : {0}]
  /\ graph = [last |-> NoStep, sum |-> NoStep]
  /\ value \in {0, Top}
  /\ turned = NoStep

EncoderTypeOK ==
  /\ knob \in [absolute : BOOLEAN, invert : BOOLEAN, at : 0 .. Ring - 1]
  /\ graph.last \in {NoStep} \cup (0 .. Ring - 1) /\ graph.sum \in {NoStep} \cup (0 .. Top)
  /\ value \in 0 .. Top /\ turned \in {NoStep} \cup (0 .. Top)

\* slip: the position goes over at the end unnoticed
AcrossEnd(last, step) == IF last = NoStep THEN 0 ELSE step - last

\* absolute_delta()
AbsoluteDelta(last, step) ==
  LET delta == step - last IN
  IF last = NoStep THEN 0
  ELSE IF delta > Half THEN delta - Ring
  ELSE IF delta < -Half THEN delta + Ring
  ELSE delta

\* offset_binary_relative_delta(): Half is no step
OffsetDelta(step) == step - Half

\* apply_relative_steps(); no steps map to nothing
Added(current, delta) == InRange(IF knob.invert THEN current - delta ELSE current + delta)

\* an event with a position, or with a step
Receive(step) ==
  LET delta == IF knob.absolute THEN AbsoluteDelta(graph.last, step) ELSE OffsetDelta(step)
      sum == IF graph.sum = NoStep THEN value ELSE graph.sum
      last == IF knob.absolute THEN step ELSE graph.last IN
  IF delta = 0 THEN graph' = [graph EXCEPT !.last = last] /\ UNCHANGED value
  ELSE graph' = [last |-> last, sum |-> Added(sum, delta)] /\ value' = Added(sum, delta)

\* the encoder is turned by less than half a turn between two events; the first position
\* tells nothing of the turn before it
Turn(d) ==
  LET at == (knob.at + d) % Ring
      counts == ~knob.absolute \/ graph.last # NoStep
      from == IF turned = NoStep THEN value ELSE turned IN
  /\ knob' = [knob EXCEPT !.at = at]
  /\ Receive(IF knob.absolute THEN at ELSE Half + d)
  /\ turned' = IF counts /\ d # 0 THEN Added(from, d) ELSE turned

\* the target is written by somebody else: the accumulator stays as it is
WrittenElsewhere(v) == v # value /\ value' = v /\ UNCHANGED <<knob, graph, turned>>

EncoderWorld ==
  \/ \E d \in (1 - Half) .. (Half - 1) : Turn(d)
  \/ \E v \in {0, Top} : WrittenElsewhere(v)

EncoderSpec == EncoderInit /\ [][EncoderWorld]_encoderVars

-----------------------------------------------------------------------------
\* After a turn the target is where all the turns since the first one have put it, within
\* its ends and across the end of the ring.  What others wrote in between is undone by the
\* turn: the accumulator is never read from the target again (_map_value()).
TurnsAreFollowed == [][knob'.at # knob.at /\ turned' # NoStep => value' = turned']_encoderVars
=============================================================================
