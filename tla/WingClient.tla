----------------------------- MODULE WingClient -----------------------------
(***************************************************************************)
(* WingNativeClient of wing/native/client.py over one TCP connection:      *)
(* tasks that resolve fader paths to node ids ask the desk for the         *)
(* children of a node, one at a time.  Answers carry no request id: what   *)
(* comes up to the next end is taken for the answer to the one request     *)
(* that waits; after a timeout the late answer is drained first.           *)
(*                                                                         *)
(* A node is written as its true path, so that its parent and its name are *)
(* Front and Last.  The stream decoder is modelled by what it yields.      *)
(***************************************************************************)
EXTENDS Naturals, SequencesExt

CONSTANTS
  Resolvers, \* tasks that resolve a path
  Channels   \* nodes below the root; each has one child of the same name

\* a node has finitely many children: its definitions come before the end
ASSUME ClientAssumption == IsFiniteSet(Channels)

Nodes == {<<c>> : c \in Channels} \cup {<<c, "fdr">> : c \in Channels}
Children(n) == {d \in Nodes : Front(d) = n}
End == <<"end", "end", "end">>
NoAnswer == {End}

VARIABLES
  ask,    \* of each resolver: its path, the segment that it is at, where it awaits
  cache,  \* _path_to_id: of each path the node that it was bound to, or <<>>
  conn    \* the connection: the queue of the lock, the future of the pending
          \* request, the drain, requests and answers under way

clientVars == <<ask, cache, conn>>

Unasked(pc) == [path |-> <<>>, at |-> <<>>, pc |-> pc]

ClientInit ==
  /\ ask = [r \in Resolvers |-> Unasked("idle")]
  /\ cache = [p \in Nodes |-> <<>>]
  /\ conn = [queue |-> <<>>, answer |-> NoAnswer, drain |-> FALSE,
             requests |-> <<>>, wire |-> <<>>, gaveUp |-> FALSE, split |-> FALSE]

ClientTypeOK ==
  /\ ask \in [Resolvers -> [path : Nodes \cup {<<>>}, at : Nodes \cup {<<>>},
                         pc : {"idle", "queued", "draining", "asking", "missed"}]]
  /\ cache \in [Nodes -> Nodes \cup {<<>>}]
  /\ conn.queue \in Seq(Resolvers) /\ IsInjective(conn.queue)
  /\ \A r \in Resolvers : ask[r].pc \in {"idle", "missed"} <=> ~Contains(conn.queue, r)
  /\ conn.drain \in BOOLEAN /\ conn.gaveUp \in BOOLEAN /\ conn.split \in BOOLEAN

\* resolve_path() meets the segments in turn and skips those that are cached
FirstUncached(p) ==
  LET uncached == {n \in 1 .. Len(p) : cache[SubSeq(p, 1, n)] = <<>>}
  IN SubSeq(p, 1, Min(uncached))

\* the node whose children are asked for: what the segment before is bound to
Asked(r) == IF Len(ask[r].at) = 1 THEN <<>> ELSE cache[Front(ask[r].at)]

Holds(r) == conn.queue # <<>> /\ Head(conn.queue) = r

-----------------------------------------------------------------------------
(* resolve_path() and list_children(). *)

Resolve(r, p) ==
  /\ ask[r].pc \in {"idle", "missed"} /\ cache[p] = <<>>
  /\ ask' = [ask EXCEPT ![r] = [path |-> p, at |-> FirstUncached(p), pc |-> "queued"]]
  /\ conn' = [conn EXCEPT !.queue = Append(@, r)]
  /\ UNCHANGED cache

Request(r, c) ==
  /\ ask' = [ask EXCEPT ![r].pc = "asking"]
  /\ conn' = [c EXCEPT !.requests = Append(@, Asked(r)), !.answer = NoAnswer]

\* the lock is got: a drain that is under way is waited for
Acquire(r) ==
  /\ Holds(r) /\ ask[r].pc = "queued"
  /\ IF conn.drain THEN ask' = [ask EXCEPT ![r].pc = "draining"] /\ UNCHANGED conn
     ELSE Request(r, conn)
  /\ UNCHANGED cache

Drained(r) ==
  /\ ask[r].pc = "draining" /\ ~conn.drain
  /\ Request(r, conn)
  /\ UNCHANGED cache

DrainTimesOut(r) ==
  /\ ask[r].pc = "draining" /\ conn.drain
  /\ Request(r, [conn EXCEPT !.drain = FALSE, !.gaveUp = TRUE])
  /\ UNCHANGED cache

\* slip: the late answer is not waited for
NoDrain(c) == c

BeginDrain(c) == [c EXCEPT !.drain = TRUE]

RequestTimesOut(r) ==
  /\ ask[r].pc = "asking" /\ conn.answer = NoAnswer
  /\ ask' = [ask EXCEPT ![r] = Unasked("idle")]
  /\ conn' = BeginDrain([conn EXCEPT !.queue = Tail(@)])
  /\ UNCHANGED cache

\* slip: a child is found by its name alone
AnyChild(children, p, parent) == {d \in children : Last(d) = Last(p)}

FindChild(children, p, parent) == {d \in children : Front(d) = parent /\ Last(d) = Last(p)}

\* list_children() returns: the segment is bound, or the path is not found; for a
\* further segment that is not cached the lock is asked for again
Answered(r) ==
  LET p     == ask[r].path
      at    == ask[r].at
      found == FindChild(conn.answer, at, Asked(r))
      left  == found # {} /\ at # p /\ cache[p] = <<>>
  IN
  /\ Holds(r) /\ ask[r].pc = "asking" /\ conn.answer # NoAnswer
  /\ \/ found = {} /\ UNCHANGED cache
     \/ \E d \in found : cache' = [cache EXCEPT ![at] = d]
  /\ ask' = [ask EXCEPT ![r] =
       IF left THEN [@ EXCEPT !.pc = "queued", !.at = p]
       ELSE Unasked(IF found = {} THEN "missed" ELSE "idle")]
  /\ conn' = [conn EXCEPT !.answer = NoAnswer,
                          !.queue = IF left THEN Append(Tail(@), r) ELSE Tail(@)]

-----------------------------------------------------------------------------
(* The desk and the stream. *)

DeskAnswers ==
  /\ conn.requests # <<>>
  /\ conn' = [conn EXCEPT !.requests = Tail(@),
                          !.wire = @ \o Append(SetToSeq(Children(Head(conn.requests))), End)]
  /\ UNCHANGED <<ask, cache>>

\* read_events() and handle_events() of one batch, which may end within an answer:
\* definitions of an earlier batch are gone when the end comes
ReadBatch(n) ==
  LET batch == SubSeq(conn.wire, 1, n)
      ended == Contains(batch, End)
      defs  == {batch[i] : i \in 1 .. n} \ {End}
      asked == \E r \in Resolvers : Holds(r) /\ ask[r].pc = "asking"
  IN
  /\ conn' = [conn EXCEPT
       !.wire = SubSeq(@, n + 1, Len(@)),
       !.split = @ \/ Last(batch) # End,
       !.drain = @ /\ ~ended,
       !.answer = IF conn.drain \/ ~ended \/ ~asked \/ @ # NoAnswer THEN @ ELSE defs]
  /\ UNCHANGED <<ask, cache>>

-----------------------------------------------------------------------------
ClientRuns ==
  \/ \E r \in Resolvers : Acquire(r) \/ Drained(r) \/ Answered(r)
  \/ \E n \in 1 .. Len(conn.wire) : ReadBatch(n)
  \/ DeskAnswers

ClientWorld ==
  \E r \in Resolvers :
    \/ \E p \in Nodes : Resolve(r, p)
    \/ RequestTimesOut(r) \/ DrainTimesOut(r)

ClientSpec == ClientInit /\ [][ClientRuns \/ ClientWorld]_clientVars

\* A path is only ever bound to its own node, however answers and requests are
\* mismatched (_find_child() looks at the parent).
BindingsAreTrue == \A p \in Nodes : cache[p] \in {<<>>, p}

\* A path that exists is found, unless an answer was split over two reads or the
\* drain of a late answer was given up.
ExistingPathsAreFound ==
  ~conn.gaveUp /\ ~conn.split => \A r \in Resolvers : ask[r].pc # "missed"

\* Wing paths: what is bound is true, and what exists is found (WingNativeClient).
PathsAreResolved == BindingsAreTrue /\ ExistingPathsAreFound
=============================================================================
