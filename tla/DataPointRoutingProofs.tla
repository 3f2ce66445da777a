------------------------ MODULE DataPointRoutingProofs ------------------------
(***************************************************************************)
(* Proofs about DataPointRouting, for any tasks, any two ranges and any    *)
(* maps between them that are each other's inverse up to the ends of the   *)
(* ranges: writes nest no deeper than values are written back late, the    *)
(* two points agree whenever the event loop is free, and the desk shows    *)
(* what the store holds.                                                   *)
(***************************************************************************)
EXTENDS DataPointRouting, SequenceTheorems, TLAPS

-----------------------------------------------------------------------------
(* The invariant. *)

\* What a write has left to do.
Rest(p) == IF p = "control" THEN <<"persist", "output">> ELSE <<"output">>
Noted(p) == <<"note">> \o Rest(p)
Todos(p) == {Subscribers(p), Noted(p), Rest(p), <<"output">>, <<"sending">>, <<>>}

FrameOK(f) ==
  /\ f \in Frame /\ f.val \in Values(f.point) /\ f.todo \in Todos(f.point)

Fresh(f) == f.todo = Subscribers(f.point)
ToPersist(f) == f.point = "control" /\ f.todo \in {Subscribers("control"), Noted("control"), Rest("control")}
ToOutput(f) == f.todo \notin {<<"sending">>, <<>>}

\* How many writes a write of v to p sets off, at most and with what the store has now.
Longest(p, v) == IF Map(Other(p), Map(p, v)) = v THEN 1 ELSE 2
Length(store, p, v) == IF store[Other(p)] = Map(p, v) THEN 0 ELSE Longest(p, v)

Pending == loop # None /\ stack[loop] # <<>> /\ Fresh(stack[loop][1])

RoutingTypes ==
  /\ value = [p \in Points |-> value[p]] /\ shown = [p \in Points |-> shown[p]]
  /\ \A p \in Points : value[p] \in Values(p) /\ shown[p] \in Values(p)
  /\ cache \in ControlValues \cup {None}
  /\ loop \in Tasks \cup {None}
  /\ lastInput \in [Points -> Times \cup {None}]
  /\ lastOut \in [Points -> Times \cup {None}]
  /\ now \in Times /\ inputs \in 0 .. InputBound
  /\ touched \in Times \cup {None}
  /\ reverts \in 0 .. RevertBound
  /\ upsets \subseteq Upsets

StackTypes ==
  /\ stack \in [Tasks -> Seq(Frame)]
  /\ \A t \in Tasks : Len(stack[t]) <= Depth
  /\ \A t \in Tasks : \A i \in 1 .. Len(stack[t]) : FrameOK(stack[t][i])

\* A write tells the graph first, so that nothing has happened since.
FreshOnTop ==
  \A t \in Tasks : \A i \in 1 .. Len(stack[t]) :
    Fresh(stack[t][i]) => t = loop /\ i = 1 /\ value[stack[t][1].point] = stack[t][1].val

\* The writes that the newest one sets off have room; so have, one level deeper, those
\* that set in when the handler of the control writes its value again, unless it still
\* finds it in the store.
RoomToMap ==
  Pending => Len(stack[loop]) + Length(value, stack[loop][1].point, stack[loop][1].val) <= Depth

HasRoom(f, depth, r) == depth + Longest("control", f.val) <= 3 + r

RoomToPersist ==
  \A t \in Tasks : \A i \in 1 .. Len(stack[t]) :
    ToPersist(stack[t][i]) =>
      \/ HasRoom(stack[t][i], Len(stack[t]) - i + 1, reverts)
      \/ t = loop /\ i = 1 /\ value["control"] = stack[t][i].val

StackInv == StackTypes /\ FreshOnTop /\ RoomToMap /\ RoomToPersist

\* Between a write and the graph's answer to it alone the points may disagree.
Agree ==
  \/ value["control"] = ToControl[value["desk"]]
  \/ value["desk"] = ToDesk[value["control"]]

\* What the desk does not show yet is about to be sent to it.
Carries(f, v) == f.point = "desk" /\ f.emit = TRUE /\ ToOutput(f) /\ f.val = v

OnItsWay ==
  \E t \in Tasks : \E i \in 1 .. Len(stack[t]) : Carries(stack[t][i], value["desk"])

RoutingInv ==
  /\ RoutingTypes
  /\ StackInv
  /\ Agree \/ Pending
  /\ "stale" \notin upsets => shown["desk"] = value["desk"] \/ OnItsWay

-----------------------------------------------------------------------------
(* What a write has left to do, step by step. *)

LEMMA TodoHeads ==
  ASSUME NEW p \in Points
  PROVE  /\ Subscribers(p) # <<>> /\ Head(Subscribers(p)) = "graph" /\ Tail(Subscribers(p)) = Rest(p)
         /\ Noted(p) # <<>> /\ Head(Noted(p)) = "note" /\ Tail(Noted(p)) = Rest(p)
         /\ Rest("control") # <<>> /\ Head(Rest("control")) = "persist" /\ Tail(Rest("control")) = <<"output">>
         /\ Rest("desk") = <<"output">>
         /\ <<"output">> # <<>> /\ Head(<<"output">>) = "output" /\ Tail(<<"output">>) = <<>>
         /\ <<"sending">> # <<>> /\ Head(<<"sending">>) = "sending" /\ Tail(<<"sending">>) = <<>>
<1> DEFINE Steps == {"note", "graph", "persist", "output", "sending"}
<1>1. Rest(p) \in Seq(Steps)
  <2>1. <<"persist", "output">> \in Seq(Steps) /\ <<"output">> \in Seq(Steps) OBVIOUS
  <2>2. QED BY <2>1 DEF Rest
<1>2. Subscribers(p) = <<"graph">> \o Rest(p)
  <2>1. Subscribers(p) \in Seq(Steps) /\ <<"graph">> \o Rest(p) \in Seq(Steps)
    <3>1. <<"graph", "persist", "output">> \in Seq(Steps) /\ <<"graph", "output">> \in Seq(Steps) OBVIOUS
    <3>2. Subscribers(p) \in Seq(Steps) BY <3>1 DEF Subscribers
    <3>3. <<"graph">> \in Seq(Steps) OBVIOUS
    <3>4. QED BY <1>1, <3>2, <3>3
  <2>2. CASE p = "control"
    <3>1. Len(Subscribers(p)) = 3 /\ Len(<<"graph">> \o Rest(p)) = 3 BY <2>2 DEF Subscribers, Rest
    <3>2. \A i \in 1 .. 3 : Subscribers(p)[i] = (<<"graph">> \o Rest(p))[i] BY <2>2 DEF Subscribers, Rest
    <3>3. QED BY <2>1, <3>1, <3>2, SeqEqual
  <2>3. CASE p = "desk"
    <3>1. Len(Subscribers(p)) = 2 /\ Len(<<"graph">> \o Rest(p)) = 2 BY <2>3 DEF Subscribers, Rest
    <3>2. \A i \in 1 .. 2 : Subscribers(p)[i] = (<<"graph">> \o Rest(p))[i] BY <2>3 DEF Subscribers, Rest
    <3>3. QED BY <2>1, <3>1, <3>2, SeqEqual
  <2>4. QED BY <2>2, <2>3 DEF Points
<1>3. ASSUME NEW x \in Steps, NEW s \in Seq(Steps)
      PROVE  <<x>> \o s # <<>> /\ Head(<<x>> \o s) = x /\ Tail(<<x>> \o s) = s
  <2>1. <<x>> \in Seq(Steps) /\ Len(<<x>>) = 1 /\ <<x>>[1] = x OBVIOUS
  <2>2. <<x>> \o s \in Seq(Steps) /\ Len(<<x>> \o s) = 1 + Len(s) BY <2>1
  <2>3. (<<x>> \o s)[1] = x /\ \A i \in 1 .. Len(s) : (<<x>> \o s)[i + 1] = s[i] BY <2>1
  <2>4. Tail(<<x>> \o s) \in Seq(Steps) /\ Len(Tail(<<x>> \o s)) = Len(s)
        /\ \A i \in 1 .. Len(s) : Tail(<<x>> \o s)[i] = (<<x>> \o s)[i + 1]
    BY <2>2
  <2>5. Tail(<<x>> \o s) = s BY <2>3, <2>4, SeqEqual
  <2>6. QED BY <2>2, <2>3, <2>5
<1>4. /\ Subscribers(p) # <<>> /\ Head(Subscribers(p)) = "graph" /\ Tail(Subscribers(p)) = Rest(p)
      /\ Noted(p) # <<>> /\ Head(Noted(p)) = "note" /\ Tail(Noted(p)) = Rest(p)
  BY <1>1, <1>2, <1>3 DEF Noted
<1>5. <<"output">> \in Seq(Steps) /\ Rest("control") = <<"persist">> \o <<"output">>
  <2>1. Rest("control") \in Seq(Steps) /\ <<"persist">> \o <<"output">> \in Seq(Steps) BY DEF Rest
  <2>2. Len(Rest("control")) = 2 /\ Len(<<"persist">> \o <<"output">>) = 2 BY DEF Rest
  <2>3. \A i \in 1 .. 2 : Rest("control")[i] = (<<"persist">> \o <<"output">>)[i] BY DEF Rest
  <2>4. QED BY <2>1, <2>2, <2>3, SeqEqual
<1>6. Rest("control") # <<>> /\ Head(Rest("control")) = "persist" /\ Tail(Rest("control")) = <<"output">>
  BY <1>3, <1>5
<1>7. Rest("desk") = <<"output">> BY DEF Rest
<1>8. /\ <<"output">> # <<>> /\ Head(<<"output">>) = "output" /\ Tail(<<"output">>) = <<>>
      /\ <<"sending">> # <<>> /\ Head(<<"sending">>) = "sending" /\ Tail(<<"sending">>) = <<>>
  OBVIOUS
<1>9. QED BY <1>4, <1>6, <1>7, <1>8

\* The step that comes next tells what is left.
LEMMA TodoSteps ==
  ASSUME NEW p \in Points, NEW todo \in Todos(p), todo # <<>>
  PROVE  /\ Head(todo) = "graph" => todo = Subscribers(p) /\ Tail(todo) = Rest(p)
         /\ Head(todo) = "note" => todo = Noted(p) /\ Tail(todo) = Rest(p)
         /\ Head(todo) = "persist" => p = "control" /\ todo = Rest(p) /\ Tail(todo) = <<"output">>
         /\ Head(todo) = "output" => todo = <<"output">> /\ Tail(todo) = <<>>
         /\ Head(todo) = "sending" => todo = <<"sending">> /\ Tail(todo) = <<>>
<1>1. Rest(p) = IF p = "control" THEN Rest("control") ELSE <<"output">> BY TodoHeads DEF Points
<1>2. QED BY TodoHeads, <1>1 DEF Todos, Points

LEMMA TodosDiffer ==
  ASSUME NEW p \in Points
  PROVE  /\ Subscribers(p) \notin {Noted(p), Rest(p), <<"output">>, <<"sending">>, <<>>}
         /\ \A todo \in {Subscribers(p), Noted(p), Rest(p), <<"output">>} : todo \notin {<<"sending">>, <<>>}
         /\ <<"output">> \notin {Subscribers("control"), Noted("control"), Rest("control")}
         /\ <<"sending">> \notin {Subscribers("control"), Noted("control"), Rest("control")}
         /\ <<>> \notin {Subscribers("control"), Noted("control"), Rest("control")}
<1>1. Rest(p) \in {Rest("control"), <<"output">>} BY TodoHeads DEF Points
<1>2. "control" \in Points BY DEF Points
<1>3. QED BY TodoHeads, <1>1, <1>2

-----------------------------------------------------------------------------
(* What a step does to the writes of a task. *)

LEMMA Replaced ==
  ASSUME NEW S, NEW s \in Seq(S), s # <<>>, NEW g \in S
  PROVE  LET r == <<g>> \o Tail(s)
         IN /\ r \in Seq(S) /\ Len(r) = Len(s) /\ r[1] = g
            /\ \A i \in 2 .. Len(s) : r[i] = s[i]
<1>1. Len(s) \in Nat \ {0} /\ Tail(s) \in Seq(S) /\ Len(Tail(s)) = Len(s) - 1
      /\ \A i \in 1 .. Len(s) - 1 : Tail(s)[i] = s[i + 1]
  OBVIOUS
<1>2. <<g>> \in Seq(S) /\ Len(<<g>>) = 1 /\ <<g>>[1] = g OBVIOUS
<1>3. /\ <<g>> \o Tail(s) \in Seq(S) /\ Len(<<g>> \o Tail(s)) = Len(s) /\ (<<g>> \o Tail(s))[1] = g
      /\ \A i \in 2 .. Len(s) : (<<g>> \o Tail(s))[i] = Tail(s)[i - 1]
  BY <1>1, <1>2
<1>4. \A i \in 2 .. Len(s) : Tail(s)[i - 1] = s[i] BY <1>1
<1>5. QED BY <1>3, <1>4

LEMMA Pushed ==
  ASSUME NEW S, NEW s \in Seq(S), NEW h \in S
  PROVE  LET r == <<h>> \o s
         IN /\ r \in Seq(S) /\ Len(r) = Len(s) + 1 /\ r[1] = h
            /\ \A i \in 2 .. Len(r) : r[i] = s[i - 1]
<1>1. <<h>> \in Seq(S) /\ Len(<<h>>) = 1 /\ <<h>>[1] = h /\ Len(s) \in Nat OBVIOUS
<1>2. QED BY <1>1

LEMMA Popped ==
  ASSUME NEW S, NEW s \in Seq(S), s # <<>>
  PROVE  /\ Tail(s) \in Seq(S) /\ Len(Tail(s)) = Len(s) - 1
         /\ \A i \in 1 .. Len(Tail(s)) : Tail(s)[i] = s[i + 1]
OBVIOUS

WithTodo(f, todo) == [f EXCEPT !.todo = todo]

LEMMA TodosAreSteps ==
  ASSUME NEW p \in Points, NEW todo \in Todos(p)
  PROVE  todo \in Seq({"note", "graph", "persist", "output", "sending"})
<1> DEFINE Steps == {"note", "graph", "persist", "output", "sending"}
<1>1. /\ <<"persist", "output">> \in Seq(Steps) /\ <<"output">> \in Seq(Steps) /\ <<"note">> \in Seq(Steps)
      /\ <<"graph", "persist", "output">> \in Seq(Steps) /\ <<"graph", "output">> \in Seq(Steps)
      /\ <<"sending">> \in Seq(Steps) /\ <<>> \in Seq(Steps)
  OBVIOUS
<1>2. Rest(p) \in Seq(Steps) BY <1>1 DEF Rest
<1>3. Noted(p) \in Seq(Steps)
  <2>1. <<"note">> \o Rest(p) \in Seq(Steps) BY <1>1, <1>2, ConcatProperties
  <2>2. QED BY <2>1 DEF Noted
<1>4. Subscribers(p) \in Seq(Steps) BY <1>1 DEF Subscribers
<1>5. QED BY <1>1, <1>2, <1>3, <1>4 DEF Todos

LEMMA WithTodoOK ==
  ASSUME NEW f, FrameOK(f), NEW todo \in Todos(f.point)
  PROVE  /\ FrameOK(WithTodo(f, todo)) /\ WithTodo(f, todo) \in Frame /\ WithTodo(f, todo).todo = todo
         /\ WithTodo(f, todo).point = f.point /\ WithTodo(f, todo).val = f.val
         /\ WithTodo(f, todo).emit = f.emit /\ WithTodo(f, todo).stamp = f.stamp
<1>1. f \in Frame /\ f.point \in Points BY DEF FrameOK, Frame
<1>2. todo \in Seq({"note", "graph", "persist", "output", "sending"}) BY <1>1, TodosAreSteps
<1>3. WithTodo(f, todo) \in Frame /\ WithTodo(f, todo).todo = todo
      /\ WithTodo(f, todo).point = f.point /\ WithTodo(f, todo).val = f.val
      /\ WithTodo(f, todo).emit = f.emit /\ WithTodo(f, todo).stamp = f.stamp
  BY <1>1, <1>2 DEF Frame, WithTodo
<1>4. QED BY <1>3 DEF FrameOK

\* The innermost write of a task that is about to do a step.
LEMMA TopFrame ==
  ASSUME StackTypes, NEW t \in Tasks, stack[t] # <<>>
  PROVE  /\ Head(stack[t]) = stack[t][1] /\ FrameOK(Head(stack[t])) /\ Head(stack[t]).point \in Points
         /\ stack[t] \in Seq(Frame) /\ Len(stack[t]) \in Nat \ {0}
         /\ Head(stack[t]) \in Frame
<1>1. stack[t] \in Seq(Frame) BY DEF StackTypes
<1>2. Len(stack[t]) \in Nat \ {0} /\ Head(stack[t]) = stack[t][1] BY <1>1
<1>3. FrameOK(Head(stack[t])) BY <1>2 DEF StackTypes
<1>4. QED BY <1>1, <1>2, <1>3 DEF FrameOK, Frame

LEMMA NoneIsNoTask == None \notin Tasks
BY RoutingAssumption DEF Tasks

\* The room only grows.
LEMMA DepthGrows ==
  ASSUME RoutingTypes, reverts' \in {reverts, reverts + 1}
  PROVE  Depth \in Nat /\ Depth' \in Nat /\ Depth <= Depth' /\ \A n \in Nat : n <= Depth => n <= Depth'
BY DEF RoutingTypes, Depth

LEMMA Grows ==
  ASSUME RoutingTypes, reverts' \in {reverts, reverts + 1}, NEW f, NEW depth \in Nat, HasRoom(f, depth, reverts)
  PROVE  HasRoom(f, depth, reverts')
<1>1. reverts \in Nat /\ Longest("control", f.val) \in Nat BY DEF RoutingTypes, Longest
<1>2. QED BY <1>1 DEF HasRoom

\* A step of the innermost write of t that sets off no other.
LEMMA ReplaceSteps ==
  ASSUME StackInv, RoutingTypes, NEW t \in Tasks, stack[t] # <<>>,
         NEW todo \in Todos(Head(stack[t]).point), todo # Subscribers(Head(stack[t]).point),
         stack' = [stack EXCEPT ![t] = <<WithTodo(Head(stack[t]), todo)>> \o Tail(stack[t])],
         value' = value, reverts' = reverts,
         loop \in {t, None}, loop' \in {t, None},
         ToPersist(WithTodo(Head(stack[t]), todo)) =>
           ToPersist(Head(stack[t])) /\ loop = t /\ loop' = t
  PROVE  StackInv' /\ ~Pending'
<1> DEFINE s == stack[t]
           f == Head(stack[t])
           g == WithTodo(f, todo)
           r == <<g>> \o Tail(s)
<1>1. s \in Seq(Frame) /\ f = s[1] /\ FrameOK(f) /\ Len(s) \in Nat \ {0} /\ f.point \in Points
  BY TopFrame DEF StackInv
<1>2. FrameOK(g) /\ g \in Frame /\ g.todo = todo /\ g.point = f.point /\ g.val = f.val
  BY <1>1, WithTodoOK
<1> HIDE DEF g
<1>3. r \in Seq(Frame) /\ Len(r) = Len(s) /\ r[1] = g /\ \A i \in 2 .. Len(s) : r[i] = s[i]
  BY <1>1, <1>2, Replaced
<1>4. /\ stack'[t] = r /\ \A q \in Tasks : q # t => stack'[q] = stack[q]
      /\ stack' \in [Tasks -> Seq(Frame)]
  BY <1>3 DEF StackInv, StackTypes, g
<1> HIDE DEF r
<1>5. ~Fresh(g) BY <1>2 DEF Fresh
<1>6. \A i \in 1 .. Len(s) : i = 1 \/ i \in 2 .. Len(s) BY <1>1
<1>7. StackTypes'
  <2>1. \A q \in Tasks : Len(stack'[q]) <= Depth BY <1>3, <1>4 DEF StackInv, StackTypes
  <2>2. \A q \in Tasks : \A i \in 1 .. Len(stack'[q]) : FrameOK(stack'[q][i])
    <3>1. ASSUME NEW i \in 1 .. Len(stack'[t]) PROVE FrameOK(stack'[t][i])
      BY <1>2, <1>3, <1>4, <1>6, <3>1 DEF StackInv, StackTypes
    <3>2. QED BY <1>4, <3>1 DEF StackInv, StackTypes
  <2>3. Depth' = Depth BY DEF Depth
  <2>4. QED BY <1>4, <2>1, <2>2, <2>3 DEF StackTypes
<1>8. \A q \in Tasks : \A i \in 1 .. Len(stack'[q]) : ~Fresh(stack'[q][i])
  <2>1. ASSUME NEW q \in Tasks, q # t, NEW i \in 1 .. Len(stack[q]) PROVE ~Fresh(stack[q][i])
    <3>1. q # loop BY <2>1, NoneIsNoTask
    <3>2. QED BY <3>1 DEF StackInv, FreshOnTop
  <2>2. ASSUME NEW i \in 2 .. Len(s) PROVE ~Fresh(s[i])
    <3>1. i \in 1 .. Len(stack[t]) /\ i # 1 BY <1>1
    <3>2. QED BY <3>1 DEF StackInv, FreshOnTop
  <2>3. ASSUME NEW i \in 1 .. Len(stack'[t]) PROVE ~Fresh(stack'[t][i])
    BY <1>3, <1>4, <1>5, <1>6, <2>2
  <2>4. QED BY <1>4, <2>1, <2>3
<1>9. FreshOnTop' BY <1>8 DEF FreshOnTop, Fresh
<1>10. ~Pending'
  <2>1. CASE loop' = t
    <3>1. 1 \in 1 .. Len(stack'[t]) BY <1>1, <1>3, <1>4
    <3>2. ~Fresh(stack'[t][1]) BY <1>8, <3>1
    <3>3. QED BY <2>1, <3>2 DEF Pending, Fresh
  <2>2. CASE loop' = None BY <2>2 DEF Pending
  <2>3. QED BY <2>1, <2>2
<1>11. RoomToMap' BY <1>10 DEF RoomToMap
<1>12. RoomToPersist'
  <2>1. SUFFICES ASSUME NEW q \in Tasks, NEW i \in 1 .. Len(stack'[q]), ToPersist(stack'[q][i])
                 PROVE  \/ HasRoom(stack'[q][i], Len(stack'[q]) - i + 1, reverts')
                        \/ q = loop' /\ i = 1 /\ value'["control"] = stack'[q][i].val
    BY DEF RoomToPersist, ToPersist, HasRoom, Longest, Map, Depth
  <2>3. CASE q # t
    <3>1. stack'[q] = stack[q] /\ q # loop BY <1>4, <2>3, NoneIsNoTask
    <3>2. QED BY <2>1, <3>1, Grows DEF StackInv, RoomToPersist
  <2>4. CASE q = t /\ i \in 2 .. Len(s)
    <3>1. stack'[q][i] = s[i] /\ Len(stack'[q]) = Len(s) /\ i # 1 /\ i \in 1 .. Len(s) BY <1>1, <1>3, <1>4, <2>4
    <3>2. HasRoom(s[i], Len(s) - i + 1, reverts) BY <2>1, <2>4, <3>1, Grows DEF StackInv, RoomToPersist
    <3>3. QED BY <3>1, <3>2
  <2>5. CASE q = t /\ i = 1
    <3>1. stack'[q][i] = g /\ Len(stack'[q]) = Len(s) BY <1>3, <1>4, <2>5
    <3>2. ToPersist(f) /\ loop = t /\ loop' = t BY <2>1, <3>1 DEF g
    <3>3. 1 \in 1 .. Len(s) BY <1>1
    <3>4. HasRoom(f, Len(s) - 1 + 1, reverts) \/ value["control"] = f.val
      BY <1>1, <3>2, <3>3 DEF StackInv, RoomToPersist
    <3>5. HasRoom(f, Len(s) - 1 + 1, reverts) <=> HasRoom(g, Len(s) - 1 + 1, reverts) BY <1>2 DEF HasRoom
    <3>6. QED BY <1>2, <2>5, <3>1, <3>2, <3>4, <3>5
  <2>6. QED BY <1>3, <1>4, <1>6, <2>3, <2>4, <2>5
<1>13. QED BY <1>7, <1>9, <1>10, <1>11, <1>12 DEF StackInv

\* A step of the innermost write of t that sets off h.
LEMMA PushSteps ==
  ASSUME StackInv, RoutingTypes, NEW t \in Tasks, stack[t] # <<>>,
         NEW todo \in Todos(Head(stack[t]).point), todo # Subscribers(Head(stack[t]).point),
         NEW h, FrameOK(h), Fresh(h),
         stack' = [stack EXCEPT ![t] = <<h>> \o (<<WithTodo(Head(stack[t]), todo)>> \o Tail(stack[t]))],
         value' = [value EXCEPT ![h.point] = h.val], reverts' \in {reverts, reverts + 1}, loop = t, loop' = t,
         Len(stack[t]) + 1 + Length(value', h.point, h.val)
           <= Depth',
         ToPersist(WithTodo(Head(stack[t]), todo)) => HasRoom(Head(stack[t]), Len(stack[t]), reverts)
  PROVE  StackInv' /\ Pending'
<1> DEFINE s == stack[t]
           f == Head(stack[t])
           g == WithTodo(f, todo)
           r == <<g>> \o Tail(s)
           u == <<h>> \o r
<1>1. s \in Seq(Frame) /\ f = s[1] /\ FrameOK(f) /\ Len(s) \in Nat \ {0} /\ f.point \in Points
  BY TopFrame DEF StackInv
<1>2. FrameOK(g) /\ g \in Frame /\ g.todo = todo /\ g.point = f.point /\ g.val = f.val
  BY <1>1, WithTodoOK
<1> HIDE DEF g
<1>3. r \in Seq(Frame) /\ Len(r) = Len(s) /\ r[1] = g /\ \A i \in 2 .. Len(s) : r[i] = s[i]
  BY <1>1, <1>2, Replaced
<1> HIDE DEF r
<1>4. u \in Seq(Frame) /\ Len(u) = Len(s) + 1 /\ u[1] = h /\ \A i \in 2 .. Len(u) : u[i] = r[i - 1]
  BY <1>3, Pushed DEF FrameOK
<1>5. u[2] = g /\ \A i \in 3 .. Len(u) : i - 1 \in 2 .. Len(s) /\ u[i] = s[i - 1]
  <2>1. 2 \in 2 .. Len(u) /\ u[2] = r[1] BY <1>1, <1>4
  <2>2. ASSUME NEW i \in 3 .. Len(u) PROVE i - 1 \in 2 .. Len(s) /\ u[i] = r[i - 1] BY <1>1, <1>4
  <2>3. QED BY <1>3, <2>1, <2>2
<1>6. /\ stack'[t] = u /\ \A q \in Tasks : q # t => stack'[q] = stack[q]
      /\ stack' \in [Tasks -> Seq(Frame)]
  BY <1>4 DEF StackInv, StackTypes, r, g
<1> HIDE DEF u
<1>7. ~Fresh(g) BY <1>2 DEF Fresh
<1>8. \A i \in 1 .. Len(u) : i = 1 \/ i = 2 \/ i \in 3 .. Len(u) BY <1>1, <1>4
<1>9. value'[h.point] = h.val /\ h.point \in Points BY DEF RoutingTypes, FrameOK, Frame
<1>10. reverts \in Nat /\ reverts' \in {reverts, reverts + 1} BY DEF RoutingTypes
<1>11. StackTypes'
  <2>1. Length(value', h.point, h.val) \in Nat BY DEF Length, Longest
  <2>2. Len(u) <= Depth' BY <1>1, <1>4, <1>10, <2>1 DEF Depth
  <2>3. \A q \in Tasks : Len(stack'[q]) <= Depth'
    <3>1. ASSUME NEW q \in Tasks, q # t PROVE Len(stack'[q]) <= Depth'
      <4>1. Len(stack[q]) <= Depth /\ Len(stack[q]) \in Nat /\ stack'[q] = stack[q]
        BY <1>6, <3>1 DEF StackInv, StackTypes
      <4>2. QED BY <4>1, DepthGrows
    <3>2. QED BY <1>6, <2>2, <3>1
  <2>4. ASSUME NEW i \in 3 .. Len(u) PROVE FrameOK(u[i])
    <3>1. i - 1 \in 1 .. Len(s) /\ u[i] = s[i - 1] BY <1>1, <1>5
    <3>2. QED BY <3>1 DEF StackInv, StackTypes
  <2>5. \A i \in 1 .. Len(u) : FrameOK(u[i]) BY <1>2, <1>4, <1>5, <1>8, <2>4
  <2>6. \A q \in Tasks : \A i \in 1 .. Len(stack'[q]) : FrameOK(stack'[q][i])
    BY <1>6, <2>5 DEF StackInv, StackTypes
  <2>7. QED BY <1>6, <2>3, <2>6 DEF StackTypes
<1>12. FreshOnTop'
  <2>1. ASSUME NEW q \in Tasks, q # t, NEW i \in 1 .. Len(stack[q]) PROVE ~Fresh(stack[q][i])
    BY <2>1 DEF StackInv, FreshOnTop
  <2>2. ASSUME NEW i \in 3 .. Len(u) PROVE ~Fresh(u[i])
    <3>1. i - 1 \in 1 .. Len(stack[t]) /\ i - 1 # 1 /\ u[i] = stack[t][i - 1] BY <1>1, <1>5
    <3>2. QED BY <3>1 DEF StackInv, FreshOnTop
  <2>3. \A i \in 1 .. Len(u) : Fresh(u[i]) => i = 1 BY <1>5, <1>7, <1>8, <2>2
  <2>4. SUFFICES ASSUME NEW q \in Tasks, NEW i \in 1 .. Len(stack'[q]), Fresh(stack'[q][i])
                 PROVE  q = loop' /\ i = 1 /\ value'[stack'[q][1].point] = stack'[q][1].val
    BY DEF FreshOnTop, Fresh
  <2>5. q = t BY <1>6, <2>1, <2>4
  <2>6. i = 1 BY <1>6, <2>3, <2>4, <2>5
  <2>7. QED BY <1>4, <1>6, <1>9, <2>5, <2>6
<1>13. Pending'
  <2>1. stack'[t] # <<>> /\ stack'[t][1] = h BY <1>1, <1>4, <1>6
  <2>2. QED BY <2>1, NoneIsNoTask DEF Pending, Fresh
<1>14. RoomToMap'
  BY <1>1, <1>4, <1>6 DEF RoomToMap, Depth, Length, Longest, Map, Other
<1>15. RoomToPersist'
  <2>1. SUFFICES ASSUME NEW q \in Tasks, NEW i \in 1 .. Len(stack'[q]), ToPersist(stack'[q][i])
                 PROVE  \/ HasRoom(stack'[q][i], Len(stack'[q]) - i + 1, reverts')
                        \/ q = loop' /\ i = 1 /\ value'["control"] = stack'[q][i].val
    BY DEF RoomToPersist, ToPersist, HasRoom, Longest, Map, Depth
  <2>3. CASE q # t
    <3>1. stack'[q] = stack[q] /\ q # loop BY <1>6, <2>3
    <3>2. QED BY <2>1, <3>1, Grows DEF StackInv, RoomToPersist
  <2>4. CASE q = t /\ i \in 3 .. Len(u)
    <3>1. stack'[q][i] = s[i - 1] /\ Len(stack'[q]) - i + 1 = Len(s) - (i - 1) + 1 /\ i - 1 # 1 /\ i - 1 \in 1 .. Len(s)
      BY <1>1, <1>4, <1>5, <1>6, <2>4
    <3>2. HasRoom(s[i - 1], Len(s) - (i - 1) + 1, reverts) BY <2>1, <2>4, <3>1 DEF StackInv, RoomToPersist
    <3>3. Len(s) - (i - 1) + 1 \in Nat BY <1>1, <3>1
    <3>4. HasRoom(s[i - 1], Len(s) - (i - 1) + 1, reverts') BY <3>2, <3>3, Grows
    <3>5. QED BY <3>1, <3>4
  <2>5. CASE q = t /\ i = 2
    <3>1. stack'[q][i] = g /\ Len(stack'[q]) - i + 1 = Len(s) BY <1>1, <1>4, <1>5, <1>6, <2>5
    <3>2. HasRoom(f, Len(s), reverts) BY <2>1, <3>1 DEF g
    <3>3. HasRoom(g, Len(s), reverts) BY <1>2, <3>2 DEF HasRoom
    <3>4. HasRoom(g, Len(s), reverts') BY <1>1, <3>3, Grows
    <3>5. QED BY <3>1, <3>4
  <2>6. CASE q = t /\ i = 1
    <3>1. stack'[q][i] = h BY <1>4, <1>6, <2>6
    <3>2. h.point = "control" BY <2>1, <3>1 DEF ToPersist
    <3>3. QED BY <1>9, <2>6, <3>1, <3>2
  <2>7. QED BY <1>6, <1>8, <2>3, <2>4, <2>5, <2>6
<1>16. QED BY <1>11, <1>12, <1>13, <1>14, <1>15 DEF StackInv

\* A task begins with h: a write, or what the refresh loop sends.
LEMMA StartSteps ==
  ASSUME StackInv, RoutingTypes, NEW t \in Tasks, stack[t] = <<>>, loop = None,
         NEW h, FrameOK(h), ~ToPersist(h) \/ Fresh(h),
         stack' = [stack EXCEPT ![t] = <<h>>], upsets' = upsets, reverts' = reverts,
         \/ Fresh(h) /\ loop' = t /\ value' = [value EXCEPT ![h.point] = h.val]
         \/ ~Fresh(h) /\ loop' = None /\ value' = value
  PROVE  StackInv' /\ (Fresh(h) => Pending')
<1>1. <<h>> \in Seq(Frame) /\ Len(<<h>>) = 1 /\ <<h>>[1] = h BY DEF FrameOK
<1>2. reverts \in Nat /\ reverts' = reverts BY DEF RoutingTypes
<1>3. /\ stack'[t] = <<h>> /\ \A q \in Tasks : q # t => stack'[q] = stack[q]
      /\ stack' \in [Tasks -> Seq(Frame)]
  BY <1>1 DEF StackInv, StackTypes
<1>4. StackTypes'
  <2>1. \A i \in 1 .. Len(stack'[t]) : FrameOK(stack'[t][i]) BY <1>1, <1>3
  <2>2. Len(stack'[t]) <= Depth' BY <1>1, <1>3, <1>2 DEF Depth
  <2>3. Depth' = Depth BY DEF Depth
  <2>4. QED BY <1>3, <2>1, <2>2, <2>3 DEF StackInv, StackTypes
<1>5. Fresh(h) => value'[h.point] = h.val BY DEF RoutingTypes, FrameOK, Frame
<1>6. \A q \in Tasks : q # loop BY NoneIsNoTask
<1>7. \A q \in Tasks : \A i \in 1 .. Len(stack[q]) : ~Fresh(stack[q][i]) BY <1>6 DEF StackInv, FreshOnTop
<1>8. FreshOnTop'
  <2>1. SUFFICES ASSUME NEW q \in Tasks, NEW i \in 1 .. Len(stack'[q]), Fresh(stack'[q][i])
                 PROVE  q = loop' /\ i = 1 /\ value'[stack'[q][1].point] = stack'[q][1].val
    BY DEF FreshOnTop, Fresh
  <2>2. q = t BY <1>3, <1>7, <2>1
  <2>3. i = 1 /\ stack'[q][1] = h BY <1>1, <1>3, <2>1, <2>2
  <2>4. QED BY <1>5, <2>1, <2>2, <2>3
<1>9. Pending' <=> Fresh(h)
  <2>1. CASE Fresh(h)
    <3>1. stack'[t] # <<>> /\ stack'[t][1] = h BY <1>1, <1>3
    <3>2. QED BY <2>1, <3>1, NoneIsNoTask DEF Pending, Fresh
  <2>2. CASE ~Fresh(h) BY <2>2 DEF Pending
  <2>3. QED BY <2>1, <2>2
<1>10. RoomToMap'
  <2>1. SUFFICES ASSUME Fresh(h) PROVE RoomToMap' BY <1>9 DEF RoomToMap
  <2>2. Length(value', h.point, h.val) <= 2 /\ Length(value', h.point, h.val) \in Nat BY DEF Length, Longest
  <2>3. Len(stack'[t]) + Length(value', h.point, h.val) <= 3 BY <1>1, <1>3, <2>2
  <2>4. QED BY <1>1, <1>3, <1>2, <2>1, <2>2, <2>3 DEF RoomToMap, Depth, Length, Longest, Map, Other
<1>11. RoomToPersist'
  <2>1. SUFFICES ASSUME NEW q \in Tasks, NEW i \in 1 .. Len(stack'[q]), ToPersist(stack'[q][i])
                 PROVE  \/ HasRoom(stack'[q][i], Len(stack'[q]) - i + 1, reverts')
                        \/ q = loop' /\ i = 1 /\ value'["control"] = stack'[q][i].val
    BY DEF RoomToPersist, ToPersist, HasRoom, Longest, Map, Depth
  <2>3. CASE q # t
    <3>1. stack'[q] = stack[q] /\ q # loop BY <1>3, <1>6, <2>3
    <3>2. QED BY <2>1, <3>1, Grows DEF StackInv, RoomToPersist
  <2>4. CASE q = t
    <3>1. i = 1 /\ stack'[q][i] = h BY <1>1, <1>3, <2>4
    <3>2. h.point = "control" /\ Fresh(h) BY <2>1, <3>1 DEF ToPersist
    <3>3. QED BY <1>5, <2>4, <3>1, <3>2
  <2>5. QED BY <2>3, <2>4
<1>12. QED BY <1>4, <1>8, <1>9, <1>10, <1>11 DEF StackInv

\* A write of t has come to its end.
LEMMA PopSteps ==
  ASSUME StackInv, RoutingTypes, NEW t \in Tasks, loop = t, stack[t] # <<>>, Head(stack[t]).todo = <<>>,
         stack' = [stack EXCEPT ![t] = Tail(@)], value' = value, upsets' = upsets, reverts' = reverts, loop' \in {t, None}
  PROVE  StackInv' /\ ~Pending /\ ~Pending'
<1> DEFINE s == stack[t]
<1>1. s \in Seq(Frame) /\ Head(s) = s[1] /\ FrameOK(Head(s)) /\ Len(s) \in Nat \ {0} /\ Head(s).point \in Points
  BY TopFrame DEF StackInv
<1>2. /\ Tail(s) \in Seq(Frame) /\ Len(Tail(s)) = Len(s) - 1
      /\ \A i \in 1 .. Len(Tail(s)) : Tail(s)[i] = s[i + 1] /\ i + 1 \in 1 .. Len(s) /\ i + 1 # 1
  <2>1. /\ Tail(s) \in Seq(Frame) /\ Len(Tail(s)) = Len(s) - 1
        /\ \A i \in 1 .. Len(Tail(s)) : Tail(s)[i] = s[i + 1]
    BY <1>1, Popped
  <2>2. QED BY <1>1, <2>1
<1>3. /\ stack'[t] = Tail(s) /\ \A q \in Tasks : q # t => stack'[q] = stack[q]
      /\ stack' \in [Tasks -> Seq(Frame)]
  BY <1>2 DEF StackInv, StackTypes
<1>4. ~Fresh(Head(s)) BY <1>1, TodosDiffer DEF Fresh
<1>5. ~Pending BY <1>1, <1>4 DEF Pending
<1>6. StackTypes'
  <2>1. \A i \in 1 .. Len(stack'[t]) : FrameOK(stack'[t][i]) BY <1>2, <1>3 DEF StackInv, StackTypes
  <2>2. Len(stack'[t]) <= Depth
    <3>1. Len(s) <= Depth /\ reverts \in Nat BY DEF StackInv, StackTypes, RoutingTypes
    <3>2. QED BY <1>1, <1>2, <1>3, <3>1 DEF Depth
  <2>3. Depth' = Depth BY DEF Depth
  <2>4. QED BY <1>3, <2>1, <2>2, <2>3 DEF StackInv, StackTypes
<1>7. \A q \in Tasks : \A i \in 1 .. Len(stack'[q]) : ~Fresh(stack'[q][i])
  <2>1. ASSUME NEW q \in Tasks, q # t, NEW i \in 1 .. Len(stack[q]) PROVE ~Fresh(stack[q][i])
    BY <2>1 DEF StackInv, FreshOnTop
  <2>2. ASSUME NEW i \in 1 .. Len(Tail(s)) PROVE ~Fresh(Tail(s)[i])
    BY <1>2, <2>2 DEF StackInv, FreshOnTop
  <2>3. QED BY <1>3, <2>1, <2>2
<1>8. FreshOnTop' BY <1>7 DEF FreshOnTop, Fresh
<1>9. ~Pending'
  <2>1. CASE loop' = t /\ stack'[t] # <<>>
    <3>1. 1 \in 1 .. Len(stack'[t]) BY <1>2, <1>3, <2>1
    <3>2. ~Fresh(stack'[t][1]) BY <1>7, <3>1
    <3>3. QED BY <2>1, <3>2 DEF Pending, Fresh
  <2>2. CASE loop' = None \/ stack'[loop'] = <<>> BY <2>2 DEF Pending
  <2>3. QED BY <2>1, <2>2
<1>10. RoomToMap' BY <1>9 DEF RoomToMap
<1>11. RoomToPersist'
  <2>1. SUFFICES ASSUME NEW q \in Tasks, NEW i \in 1 .. Len(stack'[q]), ToPersist(stack'[q][i])
                 PROVE  \/ HasRoom(stack'[q][i], Len(stack'[q]) - i + 1, reverts')
                        \/ q = loop' /\ i = 1 /\ value'["control"] = stack'[q][i].val
    BY DEF RoomToPersist, ToPersist, HasRoom, Longest, Map, Depth
  <2>3. CASE q # t
    <3>1. stack'[q] = stack[q] /\ q # loop BY <1>3, <2>3
    <3>2. QED BY <2>1, <3>1, Grows DEF StackInv, RoomToPersist
  <2>4. CASE q = t
    <3>1. /\ stack'[q][i] = s[i + 1] /\ i + 1 \in 1 .. Len(s) /\ i + 1 # 1
          /\ Len(stack'[q]) - i + 1 = Len(s) - (i + 1) + 1
      BY <1>1, <1>2, <1>3, <2>4
    <3>2. HasRoom(s[i + 1], Len(s) - (i + 1) + 1, reverts) BY <2>1, <2>4, <3>1, Grows DEF StackInv, RoomToPersist
    <3>3. QED BY <3>1, <3>2
  <2>5. QED BY <2>3, <2>4
<1>12. QED BY <1>5, <1>6, <1>8, <1>9, <1>10, <1>11 DEF StackInv

-----------------------------------------------------------------------------
(* The maps, and how far writes go. *)

LEMMA Maps ==
  ASSUME NEW p \in Points, NEW v \in Values(p)
  PROVE  /\ Other(p) \in Points /\ Other(Other(p)) = p /\ Other(p) # p
         /\ Map(p, v) \in Values(Other(p)) /\ v \in Nat /\ Map(p, v) \in Nat
         /\ Map(p, Map(Other(p), Map(p, v))) = Map(p, v)
BY RoutingAssumption, MirroredAssumption DEF Points, Values, Other, Map

\* A write that the graph sets off is one less to come.
LEMMA OneLess ==
  ASSUME RoutingTypes, NEW p \in Points, NEW v \in Values(p), value[p] = v, value[Other(p)] # Map(p, v),
         value' = [value EXCEPT ![Other(p)] = Map(p, v)]
  PROVE  1 + Length(value', Other(p), Map(p, v)) <= Length(value, p, v)
<1> DEFINE q == Other(p)
           w == Map(p, v)
<1>1. q \in Points /\ Other(q) = p /\ q # p /\ Map(p, Map(q, w)) = w BY Maps
<1>2. value'[Other(q)] = v BY <1>1 DEF RoutingTypes
<1>3. Length(value, p, v) = IF Map(q, w) = v THEN 1 ELSE 2 BY DEF Length, Longest
<1>4. Length(value', q, w) = IF v = Map(q, w) THEN 0 ELSE 1 BY <1>1, <1>2 DEF Length, Longest
<1>5. QED BY <1>3, <1>4

\* What is on its way to the desk stays so when its frame keeps the output to come.
LEMMA WayKept ==
  ASSUME OnItsWay, NEW t \in Tasks, \A q \in Tasks : q # t => stack'[q] = stack[q],
         value'["desk"] = value["desk"],
         \A i \in 1 .. Len(stack[t]) : Carries(stack[t][i], value["desk"]) =>
           \E j \in 1 .. Len(stack'[t]) : Carries(stack'[t][j], value["desk"])
  PROVE  OnItsWay'
<1>1. PICK q \in Tasks : \E i \in 1 .. Len(stack[q]) : Carries(stack[q][i], value["desk"]) BY DEF OnItsWay
<1>2. \E j \in 1 .. Len(stack'[q]) : Carries(stack'[q][j], value'["desk"]) BY <1>1
<1>3. QED BY <1>2 DEF OnItsWay, Carries, ToOutput

LEMMA ReplaceKeepsWay ==
  ASSUME OnItsWay, StackInv, NEW t \in Tasks, stack[t] # <<>>,
         NEW todo \in Todos(Head(stack[t]).point),
         stack' = [stack EXCEPT ![t] = <<WithTodo(Head(stack[t]), todo)>> \o Tail(stack[t])],
         value' = value,
         Carries(Head(stack[t]), value["desk"]) => todo \notin {<<"sending">>, <<>>}
  PROVE  OnItsWay'
<1> DEFINE s == stack[t]
           f == Head(stack[t])
           g == WithTodo(f, todo)
           r == <<g>> \o Tail(s)
<1>1. s \in Seq(Frame) /\ f = s[1] /\ FrameOK(f) /\ Len(s) \in Nat \ {0} BY TopFrame DEF StackInv
<1>2. g \in Frame /\ g.todo = todo /\ g.point = f.point /\ g.val = f.val /\ g.emit = f.emit
  BY <1>1, WithTodoOK
<1>3. Carries(f, value["desk"]) => Carries(g, value["desk"]) BY <1>2 DEF Carries, ToOutput
<1> HIDE DEF g
<1>4. r \in Seq(Frame) /\ Len(r) = Len(s) /\ r[1] = g /\ \A i \in 2 .. Len(s) : r[i] = s[i]
  BY <1>1, <1>2, Replaced
<1>5. stack'[t] = r /\ \A q \in Tasks : q # t => stack'[q] = stack[q] BY DEF StackInv, StackTypes, g
<1> HIDE DEF r
<1>6. \A i \in 1 .. Len(s) : i = 1 \/ i \in 2 .. Len(s) BY <1>1
<1>7. ASSUME NEW i \in 1 .. Len(s), Carries(s[i], value["desk"])
      PROVE  i \in 1 .. Len(stack'[t]) /\ Carries(stack'[t][i], value["desk"])
  BY <1>1, <1>3, <1>4, <1>5, <1>6, <1>7
<1>8. QED BY <1>5, <1>7, WayKept

LEMMA PushKeepsWay ==
  ASSUME OnItsWay, StackInv, NEW t \in Tasks, stack[t] # <<>>,
         NEW todo \in Todos(Head(stack[t]).point), todo \notin {<<"sending">>, <<>>},
         NEW h, FrameOK(h),
         stack' = [stack EXCEPT ![t] = <<h>> \o (<<WithTodo(Head(stack[t]), todo)>> \o Tail(stack[t]))],
         value'["desk"] = value["desk"]
  PROVE  OnItsWay'
<1> DEFINE s == stack[t]
           f == Head(stack[t])
           g == WithTodo(f, todo)
           r == <<g>> \o Tail(s)
           u == <<h>> \o r
<1>1. s \in Seq(Frame) /\ f = s[1] /\ FrameOK(f) /\ Len(s) \in Nat \ {0} BY TopFrame DEF StackInv
<1>2. g \in Frame /\ g.todo = todo /\ g.point = f.point /\ g.val = f.val /\ g.emit = f.emit
  BY <1>1, WithTodoOK
<1>3. Carries(f, value["desk"]) => Carries(g, value["desk"]) BY <1>2 DEF Carries, ToOutput
<1> HIDE DEF g
<1>4. r \in Seq(Frame) /\ Len(r) = Len(s) /\ r[1] = g /\ \A i \in 2 .. Len(s) : r[i] = s[i]
  BY <1>1, <1>2, Replaced
<1> HIDE DEF r
<1>5. u \in Seq(Frame) /\ Len(u) = Len(s) + 1 /\ \A i \in 2 .. Len(u) : u[i] = r[i - 1]
  BY <1>4, Pushed DEF FrameOK
<1>6. stack'[t] = u /\ \A q \in Tasks : q # t => stack'[q] = stack[q] BY DEF StackInv, StackTypes, g, r
<1> HIDE DEF u
<1>7. \A i \in 1 .. Len(s) : i = 1 \/ i \in 2 .. Len(s) BY <1>1
<1>8. ASSUME NEW i \in 1 .. Len(s), Carries(s[i], value["desk"])
      PROVE  \E j \in 1 .. Len(stack'[t]) : Carries(stack'[t][j], value["desk"])
  <2>1. i + 1 \in 2 .. Len(u) /\ (i + 1) - 1 = i BY <1>1, <1>5
  <2>2. u[i + 1] = r[i] BY <1>5, <2>1
  <2>3. Carries(u[i + 1], value["desk"]) BY <1>1, <1>3, <1>4, <1>7, <1>8, <2>2
  <2>4. i + 1 \in 1 .. Len(u) BY <2>1
  <2>5. QED BY <1>6, <2>3, <2>4
<1>9. QED BY <1>6, <1>8, WayKept

-----------------------------------------------------------------------------
(* Every step keeps the invariant. *)

\* The running task is about to do something else than tell the graph.
LEMMA NothingPending ==
  ASSUME RoutingInv, NEW t \in Tasks, stack[t] # <<>>, loop \in {t, None}, ~Fresh(Head(stack[t]))
  PROVE  Agree /\ ~Pending
<1>1. Head(stack[t]) = stack[t][1] BY TopFrame DEF RoutingInv, StackInv
<1>2. QED BY <1>1 DEF RoutingInv, Pending

LEMMA InitHolds == Init => RoutingInv
<1> SUFFICES ASSUME Init PROVE RoutingInv OBVIOUS
<1>1. PICK u \in ControlValues :
        value = [p \in Points |-> IF p = "desk" THEN ToDesk[u] ELSE ToControl[ToDesk[u]]] /\ shown = value
  BY DEF Init
<1>2. ToDesk[u] \in DeskValues /\ ToControl[ToDesk[u]] \in ControlValues BY RoutingAssumption
<1>3. value["control"] = ToControl[ToDesk[u]] /\ value["desk"] = ToDesk[u] BY <1>1 DEF Points
<1>4. RoutingTypes
  BY <1>1, <1>2, RoutingAssumption DEF Init, RoutingTypes, Values, Points, Times
<1>5. stack = [t \in Tasks |-> <<>>] /\ loop = None BY DEF Init
<1>6. StackInv
  <2>1. \A t \in Tasks : stack[t] \in Seq(Frame) /\ Len(stack[t]) = 0 BY <1>5
  <2>2. StackTypes BY <1>4, <1>5, <2>1 DEF StackTypes, RoutingTypes, Depth
  <2>3. FreshOnTop BY <2>1 DEF FreshOnTop
  <2>4. RoomToMap BY <1>5 DEF RoomToMap, Pending
  <2>5. RoomToPersist BY <2>1 DEF RoomToPersist
  <2>6. QED BY <2>2, <2>3, <2>4, <2>5 DEF StackInv
<1>7. Agree BY <1>3 DEF Agree
<1>8. QED BY <1>1, <1>3, <1>4, <1>6, <1>7 DEF RoutingInv

\* Done() puts what comes first before what is left of the innermost write.
LEMMA DoneIs ==
  ASSUME NEW t \in Tasks, StackTypes, stack[t] # <<>>, Head(stack[t]).todo # <<>>
  PROVE  LET f == Head(stack[t])
             p == f.point
         IN /\ Done(t, <<>>) = <<WithTodo(f, Tail(f.todo))>> \o Tail(stack[t])
            /\ Tail(f.todo) = Rest(p) => Done(t, <<"note">>) = <<WithTodo(f, Noted(p))>> \o Tail(stack[t])
            /\ Tail(f.todo) = <<>> => Done(t, <<"sending">>) = <<WithTodo(f, <<"sending">>)>> \o Tail(stack[t])
<1> DEFINE f == Head(stack[t])
           Steps == {"note", "graph", "persist", "output", "sending"}
<1>1. f \in Frame BY TopFrame
<1>2. f.todo \in Seq(Steps) BY <1>1 DEF Frame
<1>3. Tail(f.todo) \in Seq(Steps) BY <1>2
<1>4. <<>> \o Tail(f.todo) = Tail(f.todo) BY <1>3, ConcatEmptySeq
<1>5. <<"sending">> \o <<>> = <<"sending">>
  <2>1. <<"sending">> \in Seq(Steps) OBVIOUS
  <2>2. QED BY <2>1, ConcatEmptySeq
<1>6. \A first : Done(t, first) = <<WithTodo(f, first \o Tail(f.todo))>> \o Tail(stack[t])
  BY DEF Done, WithTodo
<1>7. QED BY <1>4, <1>5, <1>6 DEF Noted

LEMMA FrameIs ==
  ASSUME RoutingTypes, NEW p \in Points, NEW v \in Values(p), NEW emit \in BOOLEAN, NEW stamp \in Times,
         NEW todo \in Todos(p)
  PROVE  FrameOK([point |-> p, val |-> v, emit |-> emit, stamp |-> stamp, todo |-> todo])
<1>1. v \in Nat BY Maps
<1>2. todo \in Seq({"note", "graph", "persist", "output", "sending"}) BY TodosAreSteps
<1>3. QED BY <1>1, <1>2 DEF FrameOK, Frame

LEMMA NoteStep ==
  ASSUME RoutingInv, NEW t \in Tasks, NoteOutbound(t)
  PROVE  RoutingInv'
<1> DEFINE f == Head(stack[t])
           p == f.point
<1>1. RoutingTypes /\ StackInv /\ StackTypes BY DEF RoutingInv, StackInv
<1>2. loop = t /\ stack[t] # <<>> /\ f.todo # <<>> /\ Head(f.todo) = "note" BY DEF NoteOutbound, Doing
<1>3. FrameOK(f) /\ f \in Frame /\ p \in Points BY <1>1, <1>2, TopFrame
<1>4. f.todo = Noted(p) /\ Tail(f.todo) = Rest(p) BY <1>2, <1>3, TodoSteps DEF FrameOK
<1>5. stack' = [stack EXCEPT ![t] = <<WithTodo(f, Rest(p))>> \o Tail(stack[t])]
  BY <1>1, <1>2, <1>4, DoneIs DEF NoteOutbound
<1>6. Rest(p) \in Todos(p) /\ Rest(p) # Subscribers(p) /\ Rest(p) \notin {<<"sending">>, <<>>}
  BY <1>3, TodosDiffer DEF Todos
<1>7. ToPersist(WithTodo(f, Rest(p))) => ToPersist(f)
  BY <1>3, <1>4, <1>6, WithTodoOK DEF ToPersist
<1>8. value' = value /\ loop' = loop /\ upsets' = upsets /\ reverts' = reverts /\ shown' = shown BY DEF NoteOutbound, historyVars
<1>9. StackInv' /\ ~Pending'
  BY <1>1, <1>2, <1>5, <1>6, <1>7, <1>8, ReplaceSteps
<1>10. Agree'
  <2>1. ~Fresh(f) BY <1>3, <1>4, TodosDiffer DEF Fresh
  <2>2. Agree BY <1>2, <2>1, NothingPending
  <2>3. QED BY <1>8, <2>2 DEF Agree
<1>11. RoutingTypes'
  <2>1. lastOut' \in [Points -> Times \cup {None}]
    <3>1. f.stamp \in Times BY <1>3 DEF Frame
    <3>2. QED BY <1>1, <3>1 DEF NoteOutbound, RoutingTypes
  <2>2. QED BY <1>1, <1>8, <2>1 DEF NoteOutbound, historyVars, RoutingTypes
<1>12. "stale" \notin upsets' => shown'["desk"] = value'["desk"] \/ OnItsWay'
  <2>1. OnItsWay => OnItsWay' BY <1>1, <1>2, <1>5, <1>6, <1>8, ReplaceKeepsWay
  <2>2. QED BY <1>8, <2>1 DEF RoutingInv
<1>13. QED BY <1>9, <1>10, <1>11, <1>12 DEF RoutingInv

LEMMA SentStep ==
  ASSUME RoutingInv, NEW t \in Tasks, Sent(t)
  PROVE  RoutingInv'
<1> DEFINE f == Head(stack[t])
           p == f.point
<1>1. RoutingTypes /\ StackInv /\ StackTypes BY DEF RoutingInv, StackInv
<1>2. loop = None /\ stack[t] # <<>> /\ f.todo # <<>> /\ Head(f.todo) = "sending" BY DEF Sent
<1>3. FrameOK(f) /\ f \in Frame /\ p \in Points BY <1>1, <1>2, TopFrame
<1>4. f.todo = <<"sending">> /\ Tail(f.todo) = <<>> BY <1>2, <1>3, TodoSteps DEF FrameOK
<1>5. stack' = [stack EXCEPT ![t] = <<WithTodo(f, <<>>)>> \o Tail(stack[t])]
  BY <1>1, <1>2, <1>4, DoneIs DEF Sent
<1>6. <<>> \in Todos(p) /\ <<>> # Subscribers(p) BY <1>3, TodosDiffer DEF Todos
<1>7. ~ToPersist(WithTodo(f, <<>>))
  BY <1>3, <1>6, WithTodoOK, TodosDiffer DEF ToPersist
<1>8. value' = value /\ loop' = t /\ upsets' = upsets /\ reverts' = reverts
      /\ shown' = (IF p = "control" THEN [shown EXCEPT !["control"] = f.val] ELSE shown)
  BY DEF Sent, historyVars
<1>9. StackInv' /\ ~Pending'
  BY <1>1, <1>2, <1>5, <1>6, <1>7, <1>8, ReplaceSteps
<1>10. Agree'
  <2>1. ~Fresh(f) BY <1>3, <1>4, TodosDiffer DEF Fresh
  <2>2. Agree BY <1>2, <2>1, NothingPending
  <2>3. QED BY <1>8, <2>2 DEF Agree
<1>11. RoutingTypes' /\ shown'["desk"] = shown["desk"]
  <2>1. f.val \in Values(p) BY <1>3 DEF FrameOK
  <2>2. QED BY <1>1, <1>8, <2>1 DEF Sent, suppressVars, historyVars, RoutingTypes, Points
<1>12. "stale" \notin upsets' => shown'["desk"] = value'["desk"] \/ OnItsWay'
  <2>1. ~Carries(f, value["desk"]) BY <1>4 DEF Carries, ToOutput
  <2>2. OnItsWay => OnItsWay' BY <1>1, <1>2, <1>5, <1>6, <1>8, <2>1, ReplaceKeepsWay
  <2>3. QED BY <1>8, <1>11, <2>2 DEF RoutingInv
<1>13. QED BY <1>9, <1>10, <1>11, <1>12 DEF RoutingInv

LEMMA OutputStep ==
  ASSUME RoutingInv, NEW t \in Tasks, Output(t)
  PROVE  RoutingInv'
<1> DEFINE f == Head(stack[t])
           p == f.point
<1>1. RoutingTypes /\ StackInv /\ StackTypes BY DEF RoutingInv, StackInv
<1>2. loop = t /\ stack[t] # <<>> /\ f.todo # <<>> /\ Head(f.todo) = "output" BY DEF Output, Doing
<1>3. FrameOK(f) /\ f \in Frame /\ p \in Points /\ f.val \in Values(p)
  <2>1. FrameOK(f) /\ f \in Frame /\ p \in Points BY <1>1, <1>2, TopFrame
  <2>2. QED BY <2>1 DEF FrameOK
<1>4. f.todo = <<"output">> /\ Tail(f.todo) = <<>> BY <1>2, <1>3, TodoSteps DEF FrameOK
<1>5. /\ \A todo \in {<<"sending">>, <<>>} : todo \in Todos(p) /\ todo # Subscribers(p)
      /\ ~ToPersist(WithTodo(f, <<"sending">>)) /\ ~ToPersist(WithTodo(f, <<>>))
  <2>1. \A todo \in {<<"sending">>, <<>>} : todo \in Todos(p) /\ todo # Subscribers(p)
    BY <1>3, TodosDiffer DEF Todos
  <2>2. QED BY <1>3, <2>1, WithTodoOK, TodosDiffer DEF ToPersist
<1>6. ~Fresh(f) BY <1>3, <1>4, TodosDiffer DEF Fresh
<1>7. Agree BY <1>2, <1>6, NothingPending
<1>8. value' = value /\ inputs' = inputs /\ touched' = touched /\ now' = now
      /\ lastInput' = lastInput /\ lastOut' = lastOut /\ reverts' = reverts
      /\ cache' = IF p = "control" THEN f.val ELSE cache
  BY DEF Output, suppressVars
<1>9. cache' \in ControlValues \cup {None} BY <1>1, <1>3, <1>8 DEF RoutingTypes, Values
<1>10. CASE f.emit
  <2>1. /\ shown' = IF p = "desk" THEN [shown EXCEPT !["desk"] = f.val] ELSE shown
        /\ upsets' = upsets \cup Stale(f) /\ loop' = None
        /\ stack' = [stack EXCEPT ![t] = <<WithTodo(f, <<"sending">>)>> \o Tail(stack[t])]
    BY <1>1, <1>2, <1>4, <1>10, DoneIs DEF Output
  <2>2. StackInv' /\ ~Pending' BY <1>1, <1>2, <1>5, <1>8, <2>1, ReplaceSteps
  <2>3. RoutingTypes'
    BY <1>1, <1>3, <1>8, <1>9, <2>1 DEF RoutingTypes, Points, Stale, Upsets
  <2>4. "stale" \notin upsets' => shown'["desk"] = value'["desk"] \/ OnItsWay'
    <3>1. CASE p = "desk"
      <4>1. "stale" \notin upsets' => value["desk"] = f.val BY <2>1, <3>1 DEF Stale
      <4>2. shown'["desk"] = f.val BY <1>1, <2>1, <3>1 DEF RoutingTypes, Points
      <4>3. QED BY <1>8, <4>1, <4>2
    <3>2. CASE p # "desk"
      <4>1. ~Carries(f, value["desk"]) BY <3>2 DEF Carries
      <4>2. OnItsWay => OnItsWay' BY <1>1, <1>2, <1>5, <1>8, <2>1, <4>1, ReplaceKeepsWay
      <4>3. QED BY <1>8, <2>1, <3>2, <4>2 DEF RoutingInv
    <3>3. QED BY <3>1, <3>2
  <2>5. QED BY <1>7, <1>8, <2>2, <2>3, <2>4 DEF RoutingInv, Agree
<1>11. CASE ~f.emit
  <2>1. /\ shown' = shown /\ upsets' = upsets /\ reverts' = reverts /\ loop' = loop
        /\ stack' = [stack EXCEPT ![t] = <<WithTodo(f, <<>>)>> \o Tail(stack[t])]
    BY <1>1, <1>2, <1>4, <1>11, DoneIs DEF Output
  <2>2. StackInv' /\ ~Pending' BY <1>1, <1>2, <1>5, <1>8, <2>1, ReplaceSteps
  <2>3. RoutingTypes' BY <1>1, <1>8, <1>9, <2>1 DEF RoutingTypes
  <2>4. "stale" \notin upsets' => shown'["desk"] = value'["desk"] \/ OnItsWay'
    <3>1. ~Carries(f, value["desk"]) BY <1>11 DEF Carries
    <3>2. OnItsWay => OnItsWay' BY <1>1, <1>2, <1>5, <1>8, <2>1, <3>1, ReplaceKeepsWay
    <3>3. QED BY <1>8, <2>1, <3>2 DEF RoutingInv
  <2>5. QED BY <1>7, <1>8, <2>2, <2>3, <2>4 DEF RoutingInv, Agree
<1>12. QED BY <1>10, <1>11

LEMMA ReturnStep ==
  ASSUME RoutingInv, NEW t \in Tasks, Return(t)
  PROVE  RoutingInv'
<1> DEFINE s == stack[t]
<1>1. RoutingTypes /\ StackInv /\ StackTypes BY DEF RoutingInv, StackInv
<1>2. /\ loop = t /\ s # <<>> /\ Head(s).todo = <<>> /\ loop' \in {t, None}
      /\ stack' = [stack EXCEPT ![t] = Tail(@)]
      /\ value' = value /\ shown' = shown /\ cache' = cache /\ upsets' = upsets /\ reverts' = reverts
      /\ lastInput' = lastInput /\ lastOut' = lastOut /\ now' = now /\ inputs' = inputs /\ touched' = touched
  BY DEF Return, suppressVars, historyVars
<1>3. StackInv' /\ ~Pending /\ ~Pending' BY <1>1, <1>2, PopSteps
<1>4. RoutingTypes' BY <1>1, <1>2 DEF RoutingTypes
<1>5. Agree' BY <1>2, <1>3 DEF RoutingInv, Agree
<1>6. OnItsWay => OnItsWay'
  <2>1. SUFFICES ASSUME OnItsWay PROVE OnItsWay' OBVIOUS
  <2>2. s \in Seq(Frame) /\ Head(s) = s[1] /\ Len(s) \in Nat \ {0} BY <1>1, <1>2, TopFrame
  <2>3. stack'[t] = Tail(s) /\ \A q \in Tasks : q # t => stack'[q] = stack[q] BY <1>1, <1>2 DEF StackTypes
  <2>4. ASSUME NEW i \in 1 .. Len(s), Carries(s[i], value["desk"])
        PROVE  \E j \in 1 .. Len(stack'[t]) : Carries(stack'[t][j], value["desk"])
    <3>1. i # 1 BY <1>2, <2>2, <2>4 DEF Carries, ToOutput
    <3>2. i - 1 \in 1 .. Len(Tail(s)) /\ Tail(s)[i - 1] = s[i]
      <4>1. Len(Tail(s)) = Len(s) - 1 /\ \A j \in 1 .. Len(Tail(s)) : Tail(s)[j] = s[j + 1] BY <1>2, <2>2, Popped
      <4>2. i - 1 \in 1 .. Len(Tail(s)) /\ (i - 1) + 1 = i BY <2>2, <3>1, <4>1
      <4>3. QED BY <4>1, <4>2
    <3>3. QED BY <2>3, <2>4, <3>2
  <2>5. QED BY <1>2, <2>1, <2>3, <2>4, WayKept
<1>7. QED BY <1>2, <1>3, <1>4, <1>5, <1>6 DEF RoutingInv

\* _on_source_value() comes right after the write, and so finds its value in the store.
LEMMA GraphStep ==
  ASSUME RoutingInv, NEW t \in Tasks, Graph(t)
  PROVE  RoutingInv'
<1> DEFINE f == Head(stack[t])
           p == f.point
           q == Other(p)
           v == Map(p, f.val)
           emit == ~Suppressed(p, f.stamp)
           muted == p = "desk" /\ ~emit /\ value[q] # v /\ ~Within(touched, f.stamp)
           todo == IF emit THEN Noted(p) ELSE Rest(p)
           h == [point |-> q, val |-> v, emit |-> emit, stamp |-> now, todo |-> Subscribers(q)]
<1>1. RoutingTypes /\ StackInv /\ StackTypes BY DEF RoutingInv, StackInv
<1>2. loop = t /\ stack[t] # <<>> /\ f.todo # <<>> /\ Head(f.todo) = "graph" BY DEF Graph, Doing
<1>3. /\ FrameOK(f) /\ f \in Frame /\ p \in Points /\ f.val \in Values(p) /\ f.stamp \in Times
      /\ f = stack[t][1] /\ Len(stack[t]) \in Nat \ {0}
  <2>1. FrameOK(f) /\ f \in Frame /\ p \in Points /\ f = stack[t][1] /\ Len(stack[t]) \in Nat \ {0}
    BY <1>1, <1>2, TopFrame
  <2>2. QED BY <2>1 DEF FrameOK, Frame
<1>4. f.todo = Subscribers(p) /\ Tail(f.todo) = Rest(p) BY <1>2, <1>3, TodoSteps DEF FrameOK
<1>5. value[p] = f.val
  <2>1. 1 \in 1 .. Len(stack[t]) /\ Fresh(stack[t][1]) BY <1>3, <1>4 DEF Fresh
  <2>2. QED BY <1>1, <1>3, <2>1 DEF StackInv, FreshOnTop
<1>6. /\ Done(t, <<>>) = <<WithTodo(f, Rest(p))>> \o Tail(stack[t])
      /\ Done(t, <<"note">>) = <<WithTodo(f, Noted(p))>> \o Tail(stack[t])
  BY <1>1, <1>2, <1>4, DoneIs
<1>7. Done(t, IF emit THEN <<"note">> ELSE <<>>) = <<WithTodo(f, todo)>> \o Tail(stack[t]) BY <1>6
<1>8. /\ q \in Points /\ Other(q) = p /\ q # p /\ v \in Values(q) BY <1>3, Maps
<1>9. /\ \A d \in {Rest(p), Noted(p)} :
          /\ d \in Todos(p) /\ d # Subscribers(p) /\ d \notin {<<"sending">>, <<>>}
          /\ ToPersist(WithTodo(f, d)) => ToPersist(f) /\ p = "control"
  <2>1. ASSUME NEW d \in {Rest(p), Noted(p)} PROVE d \in Todos(p) /\ d # Subscribers(p) /\ d \notin {<<"sending">>, <<>>}
    BY <1>3, <2>1, TodosDiffer DEF Todos
  <2>2. \A d \in {Rest(p), Noted(p)} : WithTodo(f, d).point = p BY <1>3, <2>1, WithTodoOK
  <2>3. p = "control" => ToPersist(f) BY <1>4 DEF ToPersist
  <2>4. QED BY <2>1, <2>2, <2>3 DEF ToPersist
<1>10. todo \in {Rest(p), Noted(p)} OBVIOUS
<1>11. /\ loop' = loop /\ now' = now /\ inputs' = inputs /\ touched' = touched /\ cache' = cache
       /\ shown' = shown /\ lastOut' = lastOut
       /\ lastInput' = [lastInput EXCEPT ![p] = f.stamp]
       /\ upsets' = upsets \cup Stale(f) \cup IF muted THEN {"muted"} ELSE {}
  BY DEF Graph
<1>12. upsets' \subseteq Upsets /\ upsets \subseteq upsets' /\ reverts' = reverts
  BY <1>1, <1>11 DEF RoutingTypes, Upsets, Stale, Graph
<1>13. lastInput' \in [Points -> Times \cup {None}] BY <1>1, <1>3, <1>11 DEF RoutingTypes
<1>14. \/ /\ p = "desk" /\ value[q] = v
          /\ stack' = [stack EXCEPT ![t] = Done(t, <<>>)] /\ value' = value
       \/ /\ p = "control" /\ value[q] = v
          /\ stack' = [stack EXCEPT ![t] = <<WithTodo(f, todo)>> \o Tail(stack[t])] /\ value' = value
       \/ /\ value[q] # v
          /\ value' = [value EXCEPT ![q] = v]
          /\ stack' = [stack EXCEPT ![t] = <<h>> \o (<<WithTodo(f, todo)>> \o Tail(stack[t]))]
  <2>1. \/ /\ p = "desk" /\ value[q] = v
           /\ stack' = [stack EXCEPT ![t] = Done(t, <<>>)] /\ value' = value
        \/ /\ p = "control" \/ value[q] # v
           /\ Write(t, Done(t, IF emit THEN <<"note">> ELSE <<>>), q, v, emit, FALSE)
    BY DEF Graph
  <2> HIDE DEF todo, emit, v, q
  <2>2. QED BY <1>7, <2>1 DEF Write
<1> HIDE DEF todo, emit
<1>15. ASSUME value[q] = v, value' = value, NEW d \in {Rest(p), Noted(p)},
              stack' = [stack EXCEPT ![t] = <<WithTodo(f, d)>> \o Tail(stack[t])]
       PROVE  RoutingInv'
  <2>1. StackInv' /\ ~Pending' BY <1>1, <1>2, <1>9, <1>11, <1>12, <1>15, ReplaceSteps
  <2>2. RoutingTypes' BY <1>1, <1>11, <1>12, <1>13, <1>15 DEF RoutingTypes
  <2>3. Agree' BY <1>3, <1>5, <1>15 DEF Agree, Points, Other, Map
  <2>4. OnItsWay => OnItsWay' BY <1>1, <1>2, <1>9, <1>15, ReplaceKeepsWay
  <2>5. QED BY <1>11, <1>15, <2>1, <2>2, <2>3, <2>4 DEF RoutingInv
<1>16. ASSUME value[q] # v, value' = [value EXCEPT ![q] = v],
              stack' = [stack EXCEPT ![t] = <<h>> \o (<<WithTodo(f, todo)>> \o Tail(stack[t]))]
       PROVE  RoutingInv'
  <2>1. emit \in BOOLEAN BY DEF emit, Suppressed
  <2>2. FrameOK(h) BY <1>1, <1>8, <2>1, FrameIs DEF RoutingTypes, Todos
  <2>3. h.point = q /\ h.val = v /\ h.emit = emit /\ h.todo = Subscribers(q) OBVIOUS
  <2>4. Fresh(h) BY <2>3 DEF Fresh
  <2>5. Pending /\ Length(value, p, f.val) = Longest(p, f.val)
    <3>1. Pending BY <1>2, <1>3, <1>4, NoneIsNoTask DEF Pending, Fresh
    <3>2. QED BY <1>16, <3>1 DEF Length
  <2>6. Len(stack[t]) + Longest(p, f.val) <= 3 + reverts
    BY <1>1, <1>2, <1>3, <2>5 DEF StackInv, RoomToMap, Depth
  <2>7. 1 + Length(value', q, v) <= Longest(p, f.val) BY <1>1, <1>3, <1>5, <1>16, <2>5, OneLess
  <2>8. Length(value', q, v) \in Nat /\ Longest(p, f.val) \in Nat BY DEF Length, Longest
  <2>9. Len(stack[t]) + 1 + Length(value', h.point, h.val)
          <= Depth'
    BY <1>1, <1>3, <1>12, <2>3, <2>6, <2>7, <2>8 DEF Depth, RoutingTypes
  <2>10. ToPersist(WithTodo(f, todo)) => HasRoom(f, Len(stack[t]), reverts)
    <3>1. SUFFICES ASSUME p = "control" PROVE HasRoom(f, Len(stack[t]), reverts)
      BY <1>9, <1>10
    <3>2. QED BY <2>6, <3>1 DEF HasRoom
  <2>11. StackInv' /\ Pending'
    <3> HIDE DEF h
    <3>1. value' = [value EXCEPT ![h.point] = h.val] BY <1>16, <2>3
    <3>2. QED BY <1>1, <1>2, <1>9, <1>10, <1>11, <1>12, <1>16, <2>2, <2>4, <2>9, <2>10, <3>1, PushSteps
  <2>12. RoutingTypes' BY <1>1, <1>8, <1>11, <1>12, <1>13, <1>16 DEF RoutingTypes
  <2>13. "stale" \notin upsets' => shown'["desk"] = value'["desk"] \/ OnItsWay'
    <3>1. CASE q = "desk"
      <4>1. emit = TRUE BY <1>8, <3>1 DEF emit, Suppressed
      <4>2. ToOutput(h) BY <1>8, <2>3, TodosDiffer DEF ToOutput
      <4>3. value'["desk"] = v BY <1>1, <1>16, <3>1 DEF RoutingTypes, Points
      <4>4. Carries(h, value'["desk"]) BY <2>3, <3>1, <4>1, <4>2, <4>3 DEF Carries
      <4>5. stack'[t][1] = h /\ Len(stack'[t]) \in Nat \ {0}
        <5> DEFINE g == WithTodo(f, todo)
                   r == <<g>> \o Tail(stack[t])
        <5>1. g \in Frame BY <1>3, <1>9, <1>10, WithTodoOK
        <5> HIDE DEF g
        <5>2. r \in Seq(Frame) BY <1>1, <1>2, <5>1, Replaced DEF StackTypes
        <5> HIDE DEF r, h
        <5>3. (<<h>> \o r)[1] = h /\ Len(<<h>> \o r) = Len(r) + 1 BY <2>2, <5>2, Pushed DEF FrameOK
        <5>4. stack'[t] = <<h>> \o r BY <1>1, <1>16 DEF r, g, StackTypes
        <5>5. QED BY <5>2, <5>3, <5>4
      <4>6. 1 \in 1 .. Len(stack'[t]) BY <4>5
      <4>7. OnItsWay' BY <4>4, <4>5, <4>6 DEF OnItsWay, Carries, ToOutput
      <4>8. QED BY <4>7
    <3>2. CASE q # "desk"
      <4>1. value'["desk"] = value["desk"] BY <1>1, <1>16, <3>2 DEF RoutingTypes, Points
      <4>2. OnItsWay => OnItsWay'
        <5> HIDE DEF h
        <5>1. QED BY <1>1, <1>2, <1>9, <1>10, <1>16, <2>2, <4>1, PushKeepsWay
      <4>3. QED BY <1>11, <4>1, <4>2 DEF RoutingInv
    <3>3. QED BY <3>1, <3>2
  <2>14. QED BY <2>11, <2>12, <2>13 DEF RoutingInv
<1>17. QED BY <1>6, <1>10, <1>14, <1>15, <1>16

\* persist_feedback_value() writes the value again: that goes further only when another
\* one has come in between.
LEMMA PersistStep ==
  ASSUME RoutingInv, NEW t \in Tasks, Persist(t)
  PROVE  RoutingInv'
<1> DEFINE f == Head(stack[t])
           d == <<"output">>
           h == [point |-> "control", val |-> f.val, emit |-> FALSE, stamp |-> now,
                 todo |-> Subscribers("control")]
<1>1. RoutingTypes /\ StackInv /\ StackTypes BY DEF RoutingInv, StackInv
<1>2. loop = t /\ stack[t] # <<>> /\ f.todo # <<>> /\ Head(f.todo) = "persist" BY DEF Persist, Doing
<1>3. /\ FrameOK(f) /\ f \in Frame /\ f.point \in Points
      /\ f = stack[t][1] /\ Len(stack[t]) \in Nat \ {0}
  BY <1>1, <1>2, TopFrame
<1>4. f.point = "control" /\ f.todo = Rest("control") /\ Tail(f.todo) = d
  BY <1>2, <1>3, TodoSteps DEF FrameOK
<1>5. f.val \in Values("control") /\ "control" \in Points BY <1>3, <1>4 DEF FrameOK
<1>6. Done(t, <<>>) = <<WithTodo(f, d)>> \o Tail(stack[t]) BY <1>1, <1>2, <1>4, DoneIs
<1>7. /\ d \in Todos(f.point) /\ d # Subscribers(f.point) /\ d \notin {<<"sending">>, <<>>}
      /\ ~ToPersist(WithTodo(f, d))
  <2>1. d \in Todos(f.point) /\ d # Subscribers(f.point) /\ d \notin {<<"sending">>, <<>>}
    BY <1>3, TodosDiffer DEF Todos
  <2>2. QED BY <1>3, <2>1, WithTodoOK, TodosDiffer DEF ToPersist
<1>8. /\ loop' = loop /\ now' = now /\ inputs' = inputs /\ touched' = touched /\ cache' = cache
      /\ shown' = shown /\ lastOut' = lastOut /\ lastInput' = lastInput
      /\ upsets' = upsets \cup Stale(f)
      /\ \/ Stale(f) = {} /\ reverts' = reverts
         \/ Stale(f) # {} /\ reverts < RevertBound /\ reverts' = reverts + 1
  BY DEF Persist, suppressVars
<1>9. /\ upsets' \subseteq Upsets /\ upsets \subseteq upsets'
      /\ reverts' \in 0 .. RevertBound /\ reverts \in Nat
  <2>1. RevertBound \in Nat /\ reverts \in 0 .. RevertBound BY <1>1, RoutingAssumption DEF RoutingTypes
  <2>2. QED BY <1>1, <1>8, <2>1 DEF RoutingTypes, Upsets, Stale
<1>10. \/ /\ value["control"] = f.val /\ value' = value
          /\ stack' = [stack EXCEPT ![t] = <<WithTodo(f, d)>> \o Tail(stack[t])]
       \/ /\ value["control"] # f.val
          /\ value' = [value EXCEPT !["control"] = f.val]
          /\ stack' = [stack EXCEPT ![t] = <<h>> \o (<<WithTodo(f, d)>> \o Tail(stack[t]))]
  <2>1. Write(t, Done(t, <<>>), "control", f.val, FALSE, FALSE) BY DEF Persist
  <2> HIDE DEF d
  <2>2. QED BY <1>6, <2>1 DEF Write
<1>11. CASE value["control"] = f.val
  <2>1. value' = value /\ stack' = [stack EXCEPT ![t] = <<WithTodo(f, d)>> \o Tail(stack[t])] /\ reverts' = reverts
    BY <1>4, <1>8, <1>10, <1>11 DEF Stale
  <2>2. StackInv' /\ ~Pending' BY <1>1, <1>2, <1>7, <1>8, <1>9, <2>1, ReplaceSteps
  <2>3. Agree'
    <3>1. ~Fresh(f) BY <1>2, <1>3, TodoHeads DEF Fresh
    <3>2. Agree BY <1>2, <3>1, NothingPending
    <3>3. QED BY <2>1, <3>2 DEF Agree
  <2>4. RoutingTypes' BY <1>1, <1>8, <1>9, <2>1 DEF RoutingTypes
  <2>5. OnItsWay => OnItsWay' BY <1>1, <1>2, <1>7, <2>1, ReplaceKeepsWay
  <2>6. QED BY <1>8, <1>9, <2>1, <2>2, <2>3, <2>4, <2>5 DEF RoutingInv
<1>12. CASE value["control"] # f.val
  <2>1. /\ value' = [value EXCEPT !["control"] = f.val]
        /\ stack' = [stack EXCEPT ![t] = <<h>> \o (<<WithTodo(f, d)>> \o Tail(stack[t]))]
    BY <1>10, <1>12
  <2>2. Stale(f) = {"stale"} BY <1>4, <1>12 DEF Stale
  <2>3. reverts' = reverts + 1 /\ "stale" \in upsets' BY <1>8, <2>2
  <2>4. FrameOK(h) BY <1>1, <1>5, FrameIs DEF RoutingTypes, Todos
  <2>5. h.point = "control" /\ h.val = f.val /\ Fresh(h) BY DEF Fresh
  <2>6. HasRoom(f, Len(stack[t]), reverts)
    <3>1. ToPersist(f) /\ 1 \in 1 .. Len(stack[t]) BY <1>3, <1>4 DEF ToPersist
    <3>2. HasRoom(f, Len(stack[t]) - 1 + 1, reverts) BY <1>1, <1>3, <1>12, <3>1 DEF StackInv, RoomToPersist
    <3>3. Len(stack[t]) - 1 + 1 = Len(stack[t]) BY <1>3
    <3>4. QED BY <3>2, <3>3
  <2>7. Len(stack[t]) + 1 + Length(value', h.point, h.val) <= Depth'
    <3>1. Longest("control", f.val) \in {1, 2} BY DEF Longest
    <3>2. Length(value', "control", f.val) \in {0, Longest("control", f.val)} BY DEF Length
    <3>3. QED BY <1>3, <1>9, <2>3, <2>5, <2>6, <3>1, <3>2 DEF HasRoom, Depth
  <2> HIDE DEF h
  <2>8. StackInv' /\ Pending'
    <3>1. value' = [value EXCEPT ![h.point] = h.val] BY <2>1, <2>5
    <3>2. QED BY <1>1, <1>2, <1>7, <1>8, <1>9, <2>1, <2>3, <2>4, <2>5, <2>7, <3>1, PushSteps
  <2>9. RoutingTypes' BY <1>1, <1>5, <1>8, <1>9, <2>1 DEF RoutingTypes
  <2>10. QED BY <2>3, <2>8, <2>9 DEF RoutingInv
<1>13. QED BY <1>11, <1>12

LEMMA UserStep ==
  ASSUME RoutingInv, NEW v \in ControlValues, UserMoves(v)
  PROVE  RoutingInv'
<1> DEFINE h == [point |-> "control", val |-> v, emit |-> FALSE, stamp |-> now,
                 todo |-> Subscribers("control")]
<1>1. RoutingTypes /\ StackInv /\ "user" \in Tasks /\ v \in Values("control") /\ "control" \in Points
  BY DEF RoutingInv, Tasks, Values, Points
<1>2. /\ loop = None /\ stack["user"] = <<>> /\ inputs' = inputs + 1 /\ inputs < InputBound /\ touched' = now
      /\ shown' = [shown EXCEPT !["control"] = v]
      /\ loop' = IF value["control"] = v THEN None ELSE "user"
      /\ cache' = cache /\ now' = now /\ upsets' = upsets /\ reverts' = reverts /\ lastInput' = lastInput /\ lastOut' = lastOut
  BY DEF UserMoves, Input, suppressVars
<1>3. inputs' \in 0 .. InputBound
  <2>1. inputs \in 0 .. InputBound /\ InputBound \in Nat BY <1>1, RoutingAssumption DEF RoutingTypes
  <2>2. QED BY <1>2, <2>1
<1>4. shown' = [p \in Points |-> shown'[p]] /\ shown'["desk"] = shown["desk"]
      /\ \A p \in Points : shown'[p] \in Values(p)
  BY <1>1, <1>2 DEF RoutingTypes, Points
<1>5. CASE value["control"] = v
  <2>1. value' = value /\ loop' = loop /\ stack' = stack
    <3>1. value' = value /\ stack' = [stack EXCEPT !["user"] = <<>>] BY <1>5 DEF UserMoves, Write
    <3>2. QED BY <1>1, <1>2, <1>5, <3>1 DEF StackInv, StackTypes
  <2>2. RoutingTypes' BY <1>1, <1>2, <1>3, <1>4, <2>1 DEF RoutingTypes
  <2>3. StackInv' /\ (Pending => Pending')
    BY <1>1, <1>2, <2>1 DEF StackInv, StackTypes, FreshOnTop, RoomToMap, RoomToPersist, Pending, Depth
  <2>4. QED BY <1>2, <1>4, <2>1, <2>2, <2>3 DEF RoutingInv, Agree, OnItsWay
<1>6. CASE value["control"] # v
  <2>1. /\ value' = [value EXCEPT !["control"] = v] /\ loop' = "user"
        /\ stack' = [stack EXCEPT !["user"] = <<h>>]
    <3>1. stack' = [stack EXCEPT !["user"] = <<h>> \o <<>>] BY <1>6 DEF UserMoves, Write
    <3>2. <<h>> \o <<>> = <<h>>
      <4>1. <<h>> \in Seq({h}) OBVIOUS
      <4>2. QED BY <4>1, ConcatEmptySeq
    <3>3. QED BY <1>2, <1>6, <3>1, <3>2 DEF UserMoves, Write
  <2>2. FrameOK(h) BY <1>1, FrameIs DEF RoutingTypes, Todos
  <2>3. h.point = "control" /\ h.val = v /\ Fresh(h) BY DEF Fresh
  <2> HIDE DEF h
  <2>4. StackInv' /\ Pending' BY <1>1, <1>2, <2>1, <2>2, <2>3, StartSteps
  <2>5. RoutingTypes' BY <1>1, <1>2, <1>3, <1>4, <2>1 DEF RoutingTypes, Tasks
  <2>6. value'["desk"] = value["desk"] BY <1>1, <2>1 DEF RoutingTypes, Points
  <2>7. OnItsWay => OnItsWay'
    <3>1. \A i \in 1 .. Len(stack["user"]) : ~TRUE BY <1>2
    <3>2. \A q \in Tasks : q # "user" => stack'[q] = stack[q] BY <1>1, <2>1 DEF StackInv, StackTypes
    <3>3. QED BY <1>1, <2>6, <3>1, <3>2, WayKept
  <2>8. QED BY <1>2, <1>4, <2>4, <2>5, <2>6, <2>7 DEF RoutingInv
<1>7. QED BY <1>5, <1>6

LEMMA DeskStep ==
  ASSUME RoutingInv, NEW t \in Datagrams, NEW v \in DeskValues, DeskMoves(t, v)
  PROVE  RoutingInv'
<1> DEFINE h == [point |-> "desk", val |-> v, emit |-> FALSE, stamp |-> now, todo |-> Subscribers("desk")]
<1>1. RoutingTypes /\ StackInv /\ t \in Tasks /\ v \in Values("desk") /\ "desk" \in Points
  BY DEF RoutingInv, Tasks, Values, Points
<1>2. /\ loop = None /\ stack[t] = <<>> /\ inputs' = inputs + 1 /\ inputs < InputBound /\ touched' = touched
      /\ shown' = [shown EXCEPT !["desk"] = v] /\ loop' = t
      /\ cache' = cache /\ now' = now /\ upsets' = upsets /\ reverts' = reverts /\ lastInput' = lastInput /\ lastOut' = lastOut
  BY DEF DeskMoves, Input, suppressVars
<1>3. inputs' \in 0 .. InputBound
  <2>1. inputs \in 0 .. InputBound /\ InputBound \in Nat BY <1>1, RoutingAssumption DEF RoutingTypes
  <2>2. QED BY <1>2, <2>1
<1>4. value' = [value EXCEPT !["desk"] = v] /\ stack' = [stack EXCEPT ![t] = <<h>>]
  <2>1. stack' = [stack EXCEPT ![t] = <<h>> \o <<>>] BY DEF DeskMoves, Write
  <2>2. <<h>> \o <<>> = <<h>>
    <3>1. <<h>> \in Seq({h}) OBVIOUS
    <3>2. QED BY <3>1, ConcatEmptySeq
  <2>3. QED BY <2>1, <2>2 DEF DeskMoves, Write
<1>5. FrameOK(h) BY <1>1, FrameIs DEF RoutingTypes, Todos
<1>6. h.point = "desk" /\ h.val = v /\ Fresh(h) BY DEF Fresh
<1> HIDE DEF h
<1>7. StackInv' /\ Pending' BY <1>1, <1>2, <1>4, <1>5, <1>6, StartSteps
<1>8. RoutingTypes' /\ shown'["desk"] = value'["desk"]
  BY <1>1, <1>2, <1>3, <1>4 DEF RoutingTypes, Points
<1>9. QED BY <1>7, <1>8 DEF RoutingInv

LEMMA TickStep ==
  ASSUME RoutingInv, Tick
  PROVE  RoutingInv'
<1>1. RoutingTypes'
  <2>1. now' \in Times BY RoutingAssumption DEF RoutingInv, RoutingTypes, Tick, Times
  <2>2. QED BY <2>1 DEF RoutingInv, RoutingTypes, Tick, suppressVars, historyVars
<1>2. StackInv' /\ (Pending => Pending')
  BY DEF RoutingInv, Tick, historyVars, StackInv, StackTypes, FreshOnTop, RoomToMap, RoomToPersist, Pending, Depth
<1>3. QED BY <1>1, <1>2 DEF RoutingInv, Tick, historyVars, Agree, OnItsWay

LEMMA RefreshStep ==
  ASSUME RoutingInv, Refresh
  PROVE  RoutingInv'
<1> DEFINE h == [point |-> "control", val |-> value["control"], emit |-> TRUE, stamp |-> 0, todo |-> <<"sending">>]
<1>1. RoutingTypes /\ StackInv /\ "refresh" \in Tasks /\ "control" \in Points
  BY DEF RoutingInv, Tasks, Points
<1>2. /\ loop = None /\ stack["refresh"] = <<>> /\ stack' = [stack EXCEPT !["refresh"] = <<h>>]
      /\ shown' = shown /\ value' = value /\ loop' = loop /\ upsets' = upsets /\ reverts' = reverts
      /\ cache' = value["control"]
  BY DEF Refresh, Send, historyVars
<1>3. FrameOK(h)
  <2>1. value["control"] \in Values("control") /\ 0 \in Times /\ <<"sending">> \in Todos("control")
    BY <1>1, RoutingAssumption DEF RoutingTypes, Times, Todos
  <2>2. QED BY <1>1, <2>1, FrameIs
<1>4. ~Fresh(h) /\ ~ToPersist(h) BY <1>1, TodosDiffer DEF Fresh, ToPersist
<1> HIDE DEF h
<1>5. StackInv' BY <1>1, <1>2, <1>3, <1>4, StartSteps
<1>6. Agree' BY <1>2 DEF RoutingInv, Pending, Agree
<1>7. RoutingTypes' BY <1>1, <1>2 DEF Refresh, Send, suppressVars, historyVars, RoutingTypes, Values
<1>8. OnItsWay => OnItsWay'
  <2>1. \A i \in 1 .. Len(stack["refresh"]) : ~TRUE BY <1>2
  <2>2. \A q \in Tasks : q # "refresh" => stack'[q] = stack[q] BY <1>1, <1>2 DEF StackInv, StackTypes
  <2>3. QED BY <1>1, <1>2, <2>1, <2>2, WayKept
<1>9. QED BY <1>2, <1>5, <1>6, <1>7, <1>8 DEF RoutingInv

\* The store, the modifier graph and the output handlers keep the invariant.
THEOREM RoutingInvariant == Spec => []RoutingInv
<1>1. Init => RoutingInv BY InitHolds
<1>2. RoutingInv /\ [Next]_vars => RoutingInv'
  <2> SUFFICES ASSUME RoutingInv, [Next]_vars PROVE RoutingInv' OBVIOUS
  <2>1. CASE \E v \in ControlValues : UserMoves(v) BY <2>1, UserStep
  <2>2. CASE \E t \in Datagrams : \E v \in DeskValues : DeskMoves(t, v) BY <2>2, DeskStep
  <2>3. CASE Tick BY <2>3, TickStep
  <2>4. CASE \E t \in Tasks : Step(t)
    BY <2>4, GraphStep, NoteStep, PersistStep, OutputStep, SentStep, ReturnStep DEF Step
  <2>5. CASE Refresh BY <2>5, RefreshStep
  <2>6. CASE UNCHANGED vars
    <3>1. RoutingTypes' /\ StackInv' /\ (Pending => Pending')
      BY <2>6 DEF vars, suppressVars, historyVars, RoutingInv, RoutingTypes, StackInv, StackTypes, FreshOnTop,
                  RoomToMap, RoomToPersist, Pending, Depth
    <3>2. QED BY <2>6, <3>1 DEF vars, historyVars, RoutingInv, Agree, OnItsWay
  <2>7. QED BY <2>1, <2>2, <2>3, <2>4, <2>5, <2>6 DEF Next
<1>3. QED BY <1>1, <1>2, PTL DEF Spec

\* Every variable has its type; and a write nests at most two others, whatever the maps
\* and the order of the tasks (_on_source_value()), and one more for every value that
\* was written back though it was replaced (persist_feedback_value()).
THEOREM TypeCorrect == Spec => []TypeOK
<1>1. RoutingInv => TypeOK BY DEF RoutingInv, RoutingTypes, StackInv, StackTypes, TypeOK
<1>2. QED BY <1>1, RoutingInvariant, PTL

\* Whenever the event loop is free, the two points agree: one is what the other is
\* mapped to, as the graph is told of a write before anything else can happen.
THEOREM PairAgreesHolds == Spec => []PairAgrees
<1>1. RoutingInv => PairAgrees BY DEF RoutingInv, Pending, Agree, PairAgrees
<1>2. QED BY <1>1, RoutingInvariant, PTL

\* The refresh loop only sends.
RefreshSends ==
  \A i \in 1 .. Len(stack["refresh"]) : stack["refresh"][i].todo \in {<<"sending">>, <<>>}

LEMMA RefreshSendsStep ==
  ASSUME RoutingInv, RefreshSends, [Next]_vars
  PROVE  RefreshSends'
<1> DEFINE s == stack["refresh"]
<1>1. stack \in [Tasks -> Seq(Frame)] /\ "refresh" \in Tasks /\ StackTypes
  BY DEF RoutingInv, StackInv, StackTypes, Tasks
<1>2. CASE \E v \in ControlValues : UserMoves(v)
  <2>1. stack'["refresh"] = s BY <1>1, <1>2 DEF UserMoves, Write
  <2>2. QED BY <2>1 DEF RefreshSends
<1>3. CASE \E t \in Datagrams : \E v \in DeskValues : DeskMoves(t, v)
  <2>1. "refresh" \notin Datagrams BY RoutingAssumption
  <2>2. stack'["refresh"] = s BY <1>1, <1>3, <2>1 DEF DeskMoves, Write
  <2>3. QED BY <2>2 DEF RefreshSends
<1>4. CASE Tick BY <1>4 DEF Tick, RefreshSends
<1>5. CASE \E t \in Tasks : Step(t)
  <2>1. PICK t \in Tasks : Step(t) BY <1>5
  <2>2. CASE t # "refresh"
    <3>1. stack'["refresh"] = s
      BY <1>1, <2>1, <2>2 DEF Step, Graph, NoteOutbound, Persist, Output, Sent, Return, Write
    <3>2. QED BY <3>1 DEF RefreshSends
  <2>3. CASE t = "refresh"
    <3>1. ASSUME s # <<>>, Head(s).todo # <<>> PROVE Head(s).todo = <<"sending">> /\ Head(Head(s).todo) = "sending"
      <4>1. Head(s) = s[1] /\ 1 \in 1 .. Len(s) BY <1>1, <3>1, TopFrame
      <4>2. QED BY <3>1, <4>1 DEF RefreshSends
    <3>2. Sent(t) \/ Return(t)
      BY <2>1, <2>3, <3>1 DEF Step, Graph, NoteOutbound, Persist, Output, Doing
    <3>3. CASE Sent(t)
      <4> DEFINE g == WithTodo(Head(s), <<>>)
                 r == <<g>> \o Tail(s)
      <4>1. s # <<>> /\ Head(s).todo # <<>> /\ Tail(Head(s).todo) = <<>>
        <5>1. s # <<>> /\ Head(s).todo # <<>> BY <2>3, <3>3 DEF Sent
        <5>2. Tail(<<"sending">>) = <<>> BY TodoHeads DEF Points
        <5>3. QED BY <3>1, <5>1, <5>2
      <4>2. stack' = [stack EXCEPT !["refresh"] = r] BY <1>1, <2>3, <3>3, <4>1, DoneIs DEF Sent
      <4>3. FrameOK(Head(s)) /\ s \in Seq(Frame) /\ Len(s) \in Nat BY <1>1, <4>1, TopFrame
      <4>4. g \in Frame /\ g.todo = <<>>
        <5>1. <<>> \in Todos(Head(s).point) BY DEF Todos
        <5>2. QED BY <4>3, <5>1, WithTodoOK
      <4> HIDE DEF g
      <4>5. r \in Seq(Frame) /\ Len(r) = Len(s) /\ r[1] = g /\ \A i \in 2 .. Len(s) : r[i] = s[i]
        BY <4>1, <4>3, <4>4, Replaced
      <4> HIDE DEF r
      <4>6. stack'["refresh"] = r BY <1>1, <4>2
      <4>7. \A i \in 1 .. Len(s) : i = 1 \/ i \in 2 .. Len(s) BY <4>3
      <4>8. QED BY <4>4, <4>5, <4>6, <4>7 DEF RefreshSends
    <3>4. CASE Return(t)
      <4>1. s # <<>> /\ stack'["refresh"] = Tail(s) BY <1>1, <2>3, <3>4 DEF Return
      <4>2. s \in Seq(Frame) /\ Len(s) \in Nat \ {0} BY <1>1, <4>1, TopFrame
      <4>3. Len(Tail(s)) = Len(s) - 1 /\ \A i \in 1 .. Len(Tail(s)) : Tail(s)[i] = s[i + 1]
        BY <4>1, <4>2, Popped
      <4>4. \A i \in 1 .. Len(Tail(s)) : i + 1 \in 1 .. Len(s) BY <4>2, <4>3
      <4>5. QED BY <4>1, <4>3, <4>4 DEF RefreshSends
    <3>5. QED BY <3>2, <3>3, <3>4
  <2>4. QED BY <2>2, <2>3
<1>6. CASE Refresh
  <2> DEFINE h == [point |-> "control", val |-> value["control"], emit |-> TRUE, stamp |-> 0, todo |-> <<"sending">>]
  <2>1. stack'["refresh"] = <<h>> BY <1>1, <1>6 DEF Refresh, Send
  <2>2. h.todo = <<"sending">> OBVIOUS
  <2> HIDE DEF h
  <2>3. QED BY <2>1, <2>2 DEF RefreshSends
<1>7. CASE UNCHANGED vars BY <1>7 DEF vars, RefreshSends
<1>8. QED BY <1>2, <1>3, <1>4, <1>5, <1>6, <1>7 DEF Next

\* At rest the desk's fader stands where the store says, unless a value was overtaken:
\* a value of the desk that is not shown is on its way to it in some write.
THEOREM DeskIsShownHolds == Spec => []DeskIsShown
<1>1. RoutingInv /\ RefreshSends => DeskIsShown
  <2>1. SUFFICES ASSUME RoutingInv, RefreshSends, Quiet, OnItsWay PROVE FALSE
    BY DEF RoutingInv, DeskIsShown
  <2>2. PICK t \in Tasks : \E i \in 1 .. Len(stack[t]) : Carries(stack[t][i], value["desk"])
    BY <2>1 DEF OnItsWay
  <2>3. t = "refresh" BY <2>1, <2>2 DEF Quiet
  <2>4. QED BY <2>1, <2>2, <2>3 DEF RefreshSends, Carries, ToOutput
<1>2. Init => RefreshSends
  <2>1. SUFFICES ASSUME Init PROVE RefreshSends OBVIOUS
  <2>2. stack["refresh"] = <<>> BY <2>1 DEF Init, Tasks
  <2>3. QED BY <2>2 DEF RefreshSends
<1>3. RoutingInv /\ RefreshSends /\ [Next]_vars => RefreshSends' BY RefreshSendsStep
<1>4. QED BY <1>1, <1>2, <1>3, RoutingInvariant, PTL DEF Spec
=============================================================================
