---------------------------- MODULE LatestValue -----------------------------
(***************************************************************************)
(* What a coalescing sender promises.  Values for a key come faster than   *)
(* they may be passed on.  A new value may push out values that wait, but  *)
(* values are passed on in their order, and as long as the way out is up   *)
(* the newest one is passed on in the end.                                 *)
(***************************************************************************)
EXTENDS Naturals, Sequences

CONSTANTS Keys, Values

VARIABLES
  waiting,  \* of each key: values put down and not yet passed on, oldest first
  passed,   \* of each key: the value at the other end
  up        \* whether the way out is up

vars == <<waiting, passed, up>>

Shortened(s) == {SubSeq(s, 1, n) : n \in 0 .. Len(s)}
Remainders(s) == {SubSeq(s, m, n) : m \in 1 .. Len(s) + 1, n \in 0 .. Len(s)}

Init ==
  /\ waiting = [k \in Keys |-> <<>>]
  /\ passed \in [Keys -> Values]
  /\ up \in BOOLEAN

Put(k, v) ==
  /\ \E s \in Shortened(waiting[k]) : waiting' = [waiting EXCEPT ![k] = Append(s, v)]
  /\ UNCHANGED <<passed, up>>

Pass(k) ==
  /\ up /\ waiting[k] # <<>>
  /\ passed' = [passed EXCEPT ![k] = Head(waiting[k])]
  /\ waiting' = [waiting EXCEPT ![k] = Tail(waiting[k])]
  /\ UNCHANGED up

\* values are lost only as the way out goes down or while it is
Lose ==
  /\ ~up'
  /\ waiting' \in [Keys -> UNION {Remainders(waiting[k]) : k \in Keys}]
  /\ \A k \in Keys : waiting'[k] \in Remainders(waiting[k])
  /\ UNCHANGED passed

ComesUp == up' = TRUE /\ UNCHANGED <<waiting, passed>>

\* others change the value at the other end as well
Elsewhere == passed' \in [Keys -> Values] /\ UNCHANGED <<waiting, up>>

Next ==
  \/ \E k \in Keys, v \in Values : Put(k, v)
  \/ \E k \in Keys : Pass(k)
  \/ Lose \/ ComesUp \/ Elsewhere

Spec == Init /\ [][Next]_vars /\ \A k \in Keys : WF_vars(Pass(k))
=============================================================================
