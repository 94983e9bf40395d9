-------------------------- MODULE MouseBackendsProofs --------------------------
(***************************************************************************)
(* Proofs about MouseBackends, for every desktop, set of buttons, set of   *)
(* wheel turns and set of step counts of a smooth move.                    *)
(***************************************************************************)
EXTENDS MouseBackends, TLAPS

Presses == {"down", "up"}
Moves == {"read", "warp", "sample"}
Call == Presses \union Moves \union {"scroll"}

(* The calls that make one backend call.                                   *)
Singles == {"press", "release", "position", "move", "scroll"}

(* What the calls of a gesture are.                                        *)
Shape(k, c) ==
  /\ c \in Seq(Call) /\ Len(c) \in Nat \ {0}
  /\ k \in Singles => Len(c) = 1
  /\ k = "press" => c[1] = "down"
  /\ k \in Drags => /\ Len(c) > 2 /\ c[1] = "down" /\ c[Len(c)] = "up"
                    /\ c[Len(c) - 1] = "warp"
                    /\ \A i \in 2..(Len(c) - 1) : c[i] \in Moves
  /\ k \in {"release"} \union Clicks => c[Len(c)] = "up" /\ \A i \in 1..Len(c) : c[i] \in Presses
  /\ k \in {"position", "move", "moveSmooth"} => \A i \in 1..Len(c) : c[i] \in Moves
  /\ k = "position" => c[1] = "read"
  /\ k \in {"move", "moveSmooth"} => c[Len(c)] = "warp"
  /\ k = "scroll" => c[1] = "scroll"

LEMMA WaypointsShape ==
  ASSUME NEW n \in Nat \ {0}
  PROVE  /\ Waypoints(n) \in Seq(Moves)
         /\ Len(Waypoints(n)) = n
         /\ Waypoints(n)[n] = "warp"
         /\ \A i \in 1..n : Waypoints(n)[i] \in Moves
BY DEF Waypoints, Moves

LEMMA SingleShape ==
  ASSUME NEW k \in Singles, NEW a \in Call,
         k = "press" => a = "down", k = "release" => a = "up", k = "position" => a = "read",
         k = "move" => a = "warp", k = "scroll" => a = "scroll"
  PROVE  Shape(k, <<a>>)
<1>1. <<a>> \in Seq(Call) /\ Len(<<a>>) = 1 /\ <<a>>[1] = a
  OBVIOUS
<1>2. k \notin Drags /\ k \notin Clicks /\ k # "moveSmooth"
  BY DEF Singles, Drags, Clicks
<1> QED BY <1>1, <1>2 DEF Shape, Presses, Moves

LEMMA CallsShape ==
  ASSUME NEW n \in Steps, NEW k \in Kind
  PROVE  Shape(k, Calls(n)[k])
<1> n \in Nat \ {0}
  BY StepsAssumption
<1> DEFINE w == Waypoints(n)
<1>1. /\ w \in Seq(Moves) /\ Len(w) = n /\ w[n] = "warp"
      /\ \A i \in 1..n : w[i] \in Moves
  BY WaypointsShape
<1> HIDE DEF w
<1>2. CASE k = "moveSmooth"
  <2> DEFINE c == <<"read">> \o w
  <2>1. c \in Seq(Call) /\ Len(c) = n + 1 /\ c[1] = "read"
    BY <1>1 DEF Call, Moves
  <2>2. \A i \in 2..(n + 1) : c[i] = w[i - 1]
    BY <1>1
  <2>3. c[Len(c)] = "warp" /\ \A i \in 1..Len(c) : c[i] \in Moves
    BY <1>1, <2>1, <2>2 DEF Moves
  <2>4. c = Calls(n)[k]
    BY <1>2 DEF Calls, w
  <2> HIDE DEF c
  <2> QED BY <1>2, <2>1, <2>3, <2>4 DEF Shape, Singles, Drags, Clicks
<1>3. CASE k = "dragSmooth"
  <2> DEFINE c == <<"down", "read">> \o w \o <<"up">>
  <2>1. c \in Seq(Call) /\ Len(c) = n + 3
    BY <1>1 DEF Call, Presses, Moves
  <2>2. c[1] = "down" /\ c[2] = "read" /\ c[n + 3] = "up"
    BY <1>1
  <2>3. \A i \in 3..(n + 2) : c[i] = w[i - 2]
    BY <1>1
  <2>4. c[n + 2] = "warp" /\ \A i \in 2..(n + 2) : c[i] \in Moves
    BY <1>1, <2>2, <2>3 DEF Moves
  <2>5. c = Calls(n)[k]
    BY <1>3 DEF Calls, w
  <2> HIDE DEF c
  <2> QED BY <1>3, <2>1, <2>2, <2>4, <2>5 DEF Shape, Singles, Drags, Clicks
<1>4. CASE k = "click"
  BY <1>4 DEF Shape, Calls, Call, Presses, Moves, Singles, Drags, Clicks
<1>5. CASE k = "doubleClick"
  BY <1>5 DEF Shape, Calls, Call, Presses, Moves, Singles, Drags, Clicks
<1>6. CASE k = "drag"
  BY <1>6 DEF Shape, Calls, Call, Presses, Moves, Singles, Drags, Clicks
<1>7. CASE k = "press"
  BY <1>7, SingleShape DEF Singles, Calls, Call, Presses, Moves
<1>8. CASE k = "release"
  BY <1>8, SingleShape DEF Singles, Calls, Call, Presses, Moves
<1>9. CASE k = "position"
  BY <1>9, SingleShape DEF Singles, Calls, Call, Presses, Moves
<1>10. CASE k = "move"
  BY <1>10, SingleShape DEF Singles, Calls, Call, Presses, Moves
<1>11. CASE k = "scroll"
  BY <1>11, SingleShape DEF Singles, Calls, Call, Presses, Moves
<1> QED
  BY <1>2, <1>3, <1>4, <1>5, <1>6, <1>7, <1>8, <1>9, <1>10, <1>11 DEF Kind

(* Which gestures make a call, and where in them it is.                    *)
LEMMA WhereCalled ==
  ASSUME NEW k \in Kind, NEW c, Shape(k, c), NEW i \in 1..Len(c)
  PROVE  /\ c[i] = "down" => k = "press" \/ (k \in Clicks \union Drags /\ i < Len(c))
         /\ c[i] = "up" => k = "release" \/ k \in Clicks \/ (k \in Drags /\ i = Len(c))
         /\ c[i] \notin Presses =>
              \/ k \in {"position", "move", "moveSmooth", "scroll"}
              \/ k \in Drags /\ 1 < i /\ i < Len(c)
<1>1. CASE k \in {"position", "move", "moveSmooth", "scroll"}
  <2>1. CASE k = "scroll"
    <3>1. Len(c) = 1 /\ c[1] = "scroll"
      BY <2>1 DEF Shape, Singles
    <3> QED BY <2>1, <3>1 DEF Presses
  <2>2. CASE k # "scroll"
    <3>1. c[i] \in Moves
      BY <1>1, <2>2 DEF Shape
    <3> QED BY <1>1, <3>1 DEF Moves, Presses
  <2> QED BY <2>1, <2>2
<1>2. CASE k = "press"
  <2>1. Len(c) = 1 /\ c[1] = "down"
    BY <1>2 DEF Shape, Singles
  <2> QED BY <1>2, <2>1 DEF Presses
<1>3. CASE k \in {"release"} \union Clicks
  <2>1. Len(c) \in Nat /\ c[Len(c)] = "up" /\ c[i] \in Presses
    BY <1>3 DEF Shape
  <2>2. c[i] = "down" => k \in Clicks
    <3>1. k = "release" => Len(c) = 1
      BY DEF Shape, Singles
    <3> QED BY <1>3, <2>1, <3>1
  <2> QED BY <1>3, <2>1, <2>2 DEF Presses
<1>4. CASE k \in Drags
  <2>1. CASE i = 1 \/ i = Len(c)
    BY <1>4, <2>1 DEF Shape, Presses
  <2>2. CASE i \in 2..(Len(c) - 1)
    BY <1>4, <2>2 DEF Shape, Moves
  <2> QED BY <2>1, <2>2 DEF Shape
<1> QED BY <1>1, <1>2, <1>3, <1>4 DEF Kind, Clicks, Drags

LEMMA TypeShape == MouseTypeOK => op.kind \in Kind /\ Shape(op.kind, calls)
BY CallsShape DEF MouseTypeOK

-------------------------------------------------------------------------------
(* A button that is down is the caller's, was refused an event, or is the  *)
(* one of the gesture that is running, which will release it.              *)
ButtonsOwed ==
  down \union deviceDown \subseteq
    caller \union refused \union
      (IF ~Idle /\ op.kind \in Clicks \union Drags THEN {op.button} ELSE {})

(* Until something fails, a drag holds its button, and the macOS backend   *)
(* knows that it does.                                                     *)
DragHolds ==
  (op.kind \in Drags /\ 1 < next /\ next <= Len(calls) /\ result = "ok") =>
    op.button \in down /\ (backend = "mac" => pressedButton = op.button)

(* Only uinput writes half an event, and a tangle has a button.            *)
Tracked ==
  /\ backend # "uinput" => deviceDown = down
  /\ tangled => down # {}
  /\ TrackedButton

(* A failed gesture goes on for one call at most, the release of a drag.   *)
ErrorsReturn ==
  (next <= Len(calls) /\ result # "ok") => op.kind \in Drags /\ next = Len(calls)

MouseInv ==
  TypeOK /\ ButtonsOwed /\ ErrorsReturn /\ DragHolds /\ DragsArrive /\ Tracked

(* An answer moves a gesture on, or to the release of its drag, or out.    *)
LEMMA AdvanceNext ==
  ASSUME MouseTypeOK, NEW r \in Outcome, Advance(r)
  PROVE  /\ next \in 1..Len(calls) /\ Len(calls) \in Nat
         /\ next' \in 1..(Len(calls) + 1) /\ calls' = calls /\ op' = op
         /\ result' \in Outcome
         /\ r = "ok" => next' = next + 1 /\ result' = result
         /\ r # "ok" => result' # "ok"
         /\ r # "ok" => next' = (IF op.kind \in Drags /\ 1 < next /\ next < Len(calls)
                                 THEN Len(calls) ELSE Len(calls) + 1)
         /\ ErrorsReturn => ErrorsReturn'
<1>1. Len(calls) \in Nat \ {0}
  BY TypeShape DEF Shape
<1> QED BY <1>1 DEF MouseTypeOK, Advance, Idle, afterError, firstError, Outcome,
                 ErrorsReturn

(* The history keeps its types.                                            *)
LEMMA NoteTypes ==
  ASSUME MouseTypeOK, Note, down' \subseteq Button, pointer' \in Point, result' \in Outcome
  PROVE  caller' \subseteq Button
         /\ before' \in [down : SUBSET Button, pointer : Point, result : Outcome]
BY DEF Note, MouseTypeOK

-------------------------------------------------------------------------------
LEMMA MouseInitInv == Init => MouseInv
<1> SUFFICES ASSUME Init PROVE MouseInv
  OBVIOUS
<1>1. op \in [kind : Kind, button : Button, to : Point, delta : Delta]
  BY DeltaAssumption DEF Init, MouseInit, Kind
<1>2. op.kind = "position" /\ \E n \in Steps : calls = Calls(n)[op.kind]
  BY DEF Init, MouseInit
<1>3. Len(calls) \in Nat \ {0}
  BY <1>1, <1>2, CallsShape DEF Shape
<1>4. TypeOK
  <2>1. before \in [down : SUBSET Button, pointer : Point, result : Outcome]
    BY DEF Init, MouseInit, Outcome
  <2>2. next \in 1..(Len(calls) + 1) /\ turned \in Turn
    BY <1>3 DEF Init, MouseInit, Turn, Still
  <2>3. MouseTypeOK
    BY <1>1, <1>2, <2>1, <2>2 DEF Init, MouseInit, MouseTypeOK, Outcome
  <2> QED BY <2>3 DEF Init, TypeOK
<1>5. Idle
  BY <1>3 DEF Init, MouseInit, Idle
<1>6. ButtonsOwed
  BY DEF Init, MouseInit, ButtonsOwed
<1>7. DragHolds /\ DragsArrive /\ ErrorsReturn
  BY <1>2 DEF Init, MouseInit, DragHolds, DragsArrive, ErrorsReturn, Drags
<1>8. Tracked
  BY DEF Init, MouseInit, Tracked, TrackedButton
<1> QED BY <1>4, <1>6, <1>7, <1>8 DEF MouseInv

(* A call begins.                                                          *)
LEMMA BeginKeepsInv ==
  ASSUME MouseInv, BeginCall, Note, UNCHANGED backend
  PROVE  MouseInv'
<1>1. PICK k \in Kind, b \in Button, p \in Point, n \in Steps, d \in Delta : Begin(k, b, p, n, d)
  BY DEF BeginCall
<1>2. /\ Idle /\ next' = 1 /\ result' = "ok" /\ turned' = Still
      /\ op' = [kind |-> k, button |-> b, to |-> p, delta |-> d] /\ calls' = Calls(n)[k]
      /\ UNCHANGED <<pressedButton, deviceDown, down, tangled, refused, moveAs, pointer>>
  BY <1>1 DEF Begin, BeginCall, backendVars
<1>3. Shape(k, calls')
  BY <1>2, CallsShape
<1>4. Len(calls') \in Nat \ {0} /\ ~Idle'
  BY <1>2, <1>3 DEF Shape, Idle
<1>5. caller' = caller /\ before' = before
  BY <1>2, <1>4 DEF Note
<1>6. MouseTypeOK'
  BY <1>2, <1>4, <1>5 DEF MouseInv, TypeOK, MouseTypeOK, Outcome, Turn, Still
<1>7. TypeOK'
  BY <1>2, <1>6 DEF MouseInv, TypeOK
<1>8. ButtonsOwed'
  BY <1>2, <1>5 DEF MouseInv, ButtonsOwed
<1>9. DragHolds' /\ DragsArrive' /\ ErrorsReturn'
  BY <1>2, <1>3 DEF DragHolds, DragsArrive, ErrorsReturn, Shape
<1>10. Tracked'
  BY <1>2 DEF MouseInv, Tracked, TrackedButton, Tracking
<1> QED BY <1>7, <1>8, <1>9, <1>10 DEF MouseInv

(* What a button event does, whichever backend it goes through.            *)
LEMMA ButtonEffect ==
  ASSUME TypeOK, NEW b \in Button, NEW isDown \in BOOLEAN, NEW r \in Outcome,
         button(b, isDown, r)
  PROVE  LET written == IF isDown THEN deviceDown \union {b} ELSE deviceDown \ {b}
         IN  /\ r = "ok" => deviceDown' = written /\ down' = deviceDown'
             /\ r # "ok" => down' = down /\ deviceDown' \in {deviceDown, written}
             /\ (r # "ok" /\ backend # "uinput") => deviceDown' = deviceDown
             /\ pressedButton' = (IF Tracking /\ r = "ok" THEN (IF isDown THEN b ELSE None)
                                  ELSE pressedButton)
             /\ refused' = IF r # "ok" THEN refused \union {b}
                           ELSE IF isDown THEN refused ELSE refused \ {b}
             /\ UNCHANGED <<moveAs, pointer, turned>>
             /\ tangled' = (down' # {} /\ (tangled \/ down \ {b} # {}))
<1>1. CASE backend \in {"mac", "windows"}
  BY <1>1 DEF button, Tracking, postButton, writeButton, report, trackButton, NoteButton
<1>2. CASE backend = "x11"
  BY <1>2 DEF button, Tracking, fakeButtonEvent, writeButton, report, NoteButton
<1>3. CASE backend = "uinput"
  BY <1>3 DEF button, Tracking, emit, writeButton, report, NoteButton
<1> QED BY <1>1, <1>2, <1>3 DEF TypeOK

(* An up of the gesture's button settles it when it is answered ok, and    *)
(* marks it as refused when it is not.                                     *)
LEMMA ButtonStepKeepsInv ==
  ASSUME MouseInv, NEW isDown \in BOOLEAN, NEW r \in Outcome, ~Idle,
         calls[next] = (IF isDown THEN "down" ELSE "up"),
         Advance(r), button(op.button, isDown, r), Note, UNCHANGED backend
  PROVE  MouseInv'
<1> DEFINE b == op.button
           written == IF isDown THEN deviceDown \union {b} ELSE deviceDown \ {b}
<1>1. TypeOK /\ MouseTypeOK /\ b \in Button
  BY DEF MouseInv, TypeOK, MouseTypeOK
<1>2. /\ r = "ok" => deviceDown' = written /\ down' = deviceDown'
      /\ r # "ok" => down' = down /\ deviceDown' \in {deviceDown, written}
      /\ (r # "ok" /\ backend # "uinput") => deviceDown' = deviceDown
      /\ pressedButton' = (IF Tracking /\ r = "ok" THEN (IF isDown THEN b ELSE None)
                           ELSE pressedButton)
      /\ refused' = IF r # "ok" THEN refused \union {b}
                    ELSE IF isDown THEN refused ELSE refused \ {b}
      /\ UNCHANGED <<moveAs, pointer, turned>>
      /\ tangled' = (down' # {} /\ (tangled \/ down \ {b} # {}))
  BY <1>1, ButtonEffect
<1>3. /\ next \in 1..Len(calls) /\ Len(calls) \in Nat
      /\ next' \in 1..(Len(calls) + 1) /\ calls' = calls /\ op' = op
      /\ result' \in Outcome
      /\ r = "ok" => next' = next + 1 /\ result' = result
      /\ r # "ok" => result' # "ok"
      /\ r # "ok" => next' = (IF op.kind \in Drags /\ 1 < next /\ next < Len(calls)
                              THEN Len(calls) ELSE Len(calls) + 1)
      /\ ErrorsReturn'
  BY <1>1, AdvanceNext DEF MouseInv
<1>4. Shape(op.kind, calls)
  BY <1>1, TypeShape
<1> HIDE DEF b
<1>5. TypeOK'
  <2>1. down' \subseteq Button /\ deviceDown' \subseteq Button /\ refused' \subseteq Button
    BY <1>1, <1>2 DEF TypeOK, MouseTypeOK
  <2>2. caller' \subseteq Button
        /\ before' \in [down : SUBSET Button, pointer : Point, result : Outcome]
    BY <1>1, <1>2, <1>3, <2>1, NoteTypes DEF MouseTypeOK
  <2>3. MouseTypeOK'
    BY <1>1, <1>2, <1>3, <2>1, <2>2 DEF MouseTypeOK
  <2>4. pressedButton' \in Button \union {None} /\ tangled' \in BOOLEAN
    BY <1>1, <1>2 DEF TypeOK
  <2> QED BY <1>1, <1>2, <2>1, <2>3, <2>4 DEF TypeOK
<1>6. ButtonsOwed'
  <2>1. Idle' <=> next' > Len(calls)
    BY <1>3 DEF Idle
  <2>2. caller' = IF Idle' /\ result' = "ok"
                  THEN CASE op.kind = "press" -> caller \union {b}
                         [] op.kind \in {"release"} \union Clicks \union Drags -> caller \ {b}
                         [] OTHER -> caller
                  ELSE caller
    BY DEF Note, b
  <2> DEFINE Own == IF op.kind \in Clicks \union Drags THEN {b} ELSE {}
             OwnAfter == IF ~Idle' /\ op.kind \in Clicks \union Drags THEN {b} ELSE {}
  <2>3. down \union deviceDown \subseteq caller \union refused \union Own
    BY DEF MouseInv, ButtonsOwed, b
  <2>4. down' \union deviceDown' \subseteq down \union deviceDown \union {b}
    BY <1>2
  <2>5. caller \ {b} \subseteq caller' /\ refused \ {b} \subseteq refused'
    BY <1>2, <2>2 DEF Drags, Clicks
  <2>6. \A a \in down' \union deviceDown' : a # b => a \in caller' \union refused'
    BY <2>3, <2>4, <2>5
  <2>7. b \in down' \union deviceDown' => b \in caller' \union refused' \union OwnAfter
    <3>1. CASE r # "ok"
      BY <1>2, <3>1
    <3>2. CASE r = "ok" /\ ~isDown
      BY <1>2, <3>2
    <3>3. CASE r = "ok" /\ isDown /\ op.kind = "press"
      <4>0. Len(calls) = 1
        BY <1>4, <3>3 DEF Shape, Singles
      <4>1. Idle'
        BY <1>3, <2>1, <3>3, <4>0
      <4>2. result' = "ok" => b \in caller'
        BY <3>3, <4>1 DEF Note, Clicks, Drags, b
      <4>3. result = "ok"
        BY <1>3, <3>3 DEF MouseInv, ErrorsReturn, Drags
      <4> QED BY <1>3, <3>3, <4>2, <4>3
    <3>4. CASE r = "ok" /\ isDown /\ op.kind # "press"
      <4>1. op.kind \in Clicks \union Drags /\ next < Len(calls)
        BY <1>1, <1>3, <1>4, <3>4, TypeShape, WhereCalled
      <4> QED BY <1>3, <2>1, <3>4, <4>1
    <3> QED BY <3>1, <3>2, <3>3, <3>4
  <2> HIDE DEF Own
  <2> QED BY <1>3, <2>6, <2>7 DEF ButtonsOwed, b
<1>7. DragHolds'
  <2> SUFFICES ASSUME op.kind \in Drags, 1 < next', next' <= Len(calls), result' = "ok"
               PROVE  b \in down' /\ (backend = "mac" => pressedButton' = b)
    BY <1>3 DEF DragHolds, b
  <2>1. r = "ok" /\ next < Len(calls)
    BY <1>3
  <2>2. isDown
    BY <1>3, <1>4, <2>1 DEF Shape, Moves
  <2> QED BY <1>2, <2>1, <2>2 DEF Tracking
<1>8. DragsArrive'
  <2> SUFFICES ASSUME op.kind \in Drags, next' = Len(calls), result' = "ok" PROVE FALSE
    BY <1>3 DEF DragsArrive
  <2>1. r = "ok" /\ next = Len(calls) - 1
    BY <1>3
  <2> QED BY <1>4, <2>1 DEF Shape
<1>9. Tracked'
  <2>1. Tracking' <=> Tracking
    BY DEF Tracking
  <2>2. CASE r = "ok"
    <3>1. Tracking => down' = IF isDown THEN down \union {b} ELSE down \ {b}
      BY <1>2, <2>2 DEF MouseInv, Tracked, Tracking
    <3>2. (Tracking /\ ~tangled') => down' = {pressedButton'} \ {None}
      BY <1>1, <1>2, <2>2, <3>1, NoneAssumption
    <3> QED BY <1>2, <2>1, <2>2, <3>2 DEF Tracked, TrackedButton
  <2>3. CASE r # "ok"
    BY <1>2, <2>1, <2>3 DEF MouseInv, Tracked, TrackedButton
  <2> QED BY <2>2, <2>3
<1> QED BY <1>3, <1>5, <1>6, <1>7, <1>8, <1>9 DEF MouseInv

(* The wheels turn by what was asked for, or by a part of it.              *)
LEMMA ScrollTypes ==
  ASSUME NEW d \in Turn, NEW r, scroll(d, r)
  PROVE  turned' \in Turn
BY DEF scroll, turnWheels, Turn, Still

(* Moves and turns of the wheel leave the buttons as they are, and a move  *)
(* during a drag is one of its button.                                     *)
LEMMA MoveStepKeepsInv ==
  ASSUME MouseInv, NEW r \in Outcome, ~Idle, Advance(r), Note, UNCHANGED backend,
         \/ \E p \in Point : Warp(p, r) /\ warpCursor(p, r)
         \/ ReadPosition(r) /\ cursorPosition(r)
         \/ Scroll(r) /\ scroll(op.delta, r)
  PROVE  MouseInv'
<1>1. TypeOK /\ MouseTypeOK
  BY DEF MouseInv, TypeOK
<1>2. /\ UNCHANGED <<pressedButton, deviceDown, down, tangled, refused>>
      /\ calls[next] \notin Presses
  BY DEF Warp, warpCursor, ReadPosition, cursorPosition, Scroll, scroll, backendVars, Presses
<1>3. /\ next \in 1..Len(calls) /\ Len(calls) \in Nat
      /\ next' \in 1..(Len(calls) + 1) /\ calls' = calls /\ op' = op
      /\ result' \in Outcome
      /\ r = "ok" => next' = next + 1 /\ result' = result
      /\ r # "ok" => result' # "ok"
      /\ ErrorsReturn'
  BY <1>1, AdvanceNext DEF MouseInv
<1>4. Shape(op.kind, calls)
  BY <1>1, TypeShape
<1>5. pointer' \in Point /\ moveAs' \subseteq Button /\ turned' \in Turn
  <2>1. CASE \E p \in Point : Warp(p, r) /\ warpCursor(p, r)
    BY <1>1, <2>1 DEF warpCursor, TypeOK, MouseTypeOK
  <2>2. CASE ReadPosition(r) /\ cursorPosition(r)
    BY <1>1, <2>2 DEF cursorPosition, TypeOK, MouseTypeOK
  <2>3. CASE Scroll(r) /\ scroll(op.delta, r)
    <3>1. op.delta \in Turn
      BY <1>1, DeltaAssumption DEF MouseTypeOK
    <3> QED BY <1>1, <2>3, <3>1, ScrollTypes DEF scroll, TypeOK, MouseTypeOK
  <2> QED BY <2>1, <2>2, <2>3
<1>6. TypeOK'
  <2>1. caller' \subseteq Button
        /\ before' \in [down : SUBSET Button, pointer : Point, result : Outcome]
    BY <1>1, <1>2, <1>3, <1>5, NoteTypes DEF MouseTypeOK
  <2>2. MouseTypeOK'
    BY <1>1, <1>2, <1>3, <1>5, <2>1 DEF MouseTypeOK
  <2> QED BY <1>1, <1>2, <1>5, <2>2 DEF TypeOK
<1>7. op.kind \notin Clicks /\ (op.kind \in Drags => ~Idle')
  <2>1. op.kind \notin Clicks
    BY <1>2, <1>3, <1>4 DEF Shape
  <2>2. ASSUME op.kind \in Drags PROVE 1 < next /\ next < Len(calls)
    BY <1>2, <1>3, <1>4, <2>2 DEF Shape, Presses
  <2>3. op.kind \in Drags => next' <= Len(calls)
    BY <1>1, <1>3, <2>2, AdvanceNext
  <2> QED BY <1>3, <2>1, <2>3 DEF Idle
<1>8. ButtonsOwed'
  <2>1. caller \subseteq caller'
    <3>1. CASE op.kind = "release"
      BY <1>2, <1>3, <1>4, <3>1 DEF Shape, Presses, Clicks, Drags
    <3>2. CASE op.kind # "release"
      BY <1>7, <3>2 DEF Note, Clicks, Drags
    <3> QED BY <3>1, <3>2
  <2> QED BY <1>2, <1>3, <1>7, <2>1 DEF MouseInv, ButtonsOwed
<1>9. DragHolds'
  <2> SUFFICES ASSUME op.kind \in Drags, next' <= Len(calls), result' = "ok"
               PROVE  op.button \in down /\ (backend = "mac" => pressedButton = op.button)
    BY <1>2, <1>3 DEF DragHolds
  <2>1. next # 1
    BY <1>2, <1>3, <1>4 DEF Shape, Presses
  <2>2. result = "ok"
    BY <1>3
  <2> QED BY <1>3, <2>1, <2>2 DEF MouseInv, DragHolds
<1>10. DragsArrive'
  <2> SUFFICES ASSUME op.kind \in Drags, next' = Len(calls), result' = "ok"
               PROVE  op.button \in moveAs' /\ pointer' = op.to
    BY <1>3 DEF DragsArrive
  <2>1. r = "ok" /\ result = "ok" /\ next = Len(calls) - 1
    BY <1>3
  <2>2. calls[next] = "warp" /\ 1 < next
    BY <1>4, <2>1 DEF Shape
  <2>3. op.button \in down /\ (backend = "mac" => pressedButton = op.button)
    BY <1>3, <2>1, <2>2 DEF MouseInv, DragHolds
  <2>4. warpCursor(op.to, r)
    BY <2>2 DEF Warp, ReadPosition, Scroll
  <2>5. op.button \in Button
    BY <1>1 DEF MouseTypeOK
  <2> QED BY <2>1, <2>3, <2>4, <2>5, NoneAssumption DEF warpCursor
<1>11. Tracked'
  BY <1>2 DEF MouseInv, Tracked, TrackedButton, Tracking
<1> QED BY <1>3, <1>6, <1>8, <1>9, <1>10, <1>11 DEF MouseInv

LEMMA MouseNextKeepsInv == MouseInv /\ [Next]_vars => MouseInv'
<1> SUFFICES ASSUME MouseInv, [Next]_vars PROVE MouseInv'
  OBVIOUS
<1>1. CASE BeginCall /\ Note /\ UNCHANGED backend
  BY <1>1, BeginKeepsInv
<1>2. ASSUME NEW r \in Outcome, BackendCall(r), Note, UNCHANGED backend
      PROVE  MouseInv'
  <2>1. CASE ButtonDown(r) /\ button(op.button, TRUE, r)
    <3>1. PICK isDown \in BOOLEAN : isDown = TRUE
      OBVIOUS
    <3>2. ~Idle /\ calls[next] = "down" /\ Advance(r) /\ button(op.button, isDown, r)
      BY <2>1, <3>1 DEF ButtonDown
    <3> QED BY <1>2, <3>1, <3>2, ButtonStepKeepsInv
  <2>2. CASE ButtonUp(r) /\ button(op.button, FALSE, r)
    <3>1. PICK isDown \in BOOLEAN : isDown = FALSE
      OBVIOUS
    <3>2. ~Idle /\ calls[next] = "up" /\ Advance(r) /\ button(op.button, isDown, r)
      BY <2>2, <3>1 DEF ButtonUp
    <3> QED BY <1>2, <3>1, <3>2, ButtonStepKeepsInv
  <2>3. CASE \/ \E p \in Point : Warp(p, r) /\ warpCursor(p, r)
             \/ ReadPosition(r) /\ cursorPosition(r)
             \/ Scroll(r) /\ scroll(op.delta, r)
    <3>1. ~Idle /\ Advance(r)
      BY <2>3 DEF Warp, ReadPosition, Scroll
    <3> QED BY <1>2, <2>3, <3>1, MoveStepKeepsInv
  <2> QED BY <1>2, <2>1, <2>2, <2>3 DEF BackendCall
<1>3. CASE UNCHANGED vars
  <2>1. TypeOK'
    BY <1>3 DEF vars, mouseVars, facadeVars, MouseInv, TypeOK, MouseTypeOK
  <2> QED
    BY <1>3, <2>1
    DEF vars, mouseVars, facadeVars, MouseInv, ButtonsOwed, ErrorsReturn, DragHolds,
        DragsArrive, Tracked, TrackedButton, Tracking, Idle
<1> QED BY <1>1, <1>2, <1>3 DEF Next

LEMMA MouseInvariant == Spec => []MouseInv
BY MouseInitInv, MouseNextKeepsInv, PTL DEF Spec

-------------------------------------------------------------------------------
(* The variables of the mouse keep their types on every backend.           *)
THEOREM MouseTypeCorrect == Spec => []TypeOK
BY MouseInvariant, PTL DEF MouseInv

(* Whatever call of a gesture fails, at whichever step of a smooth move    *)
(* (Mouse.cpp:44-118), no button stays down that the caller neither holds  *)
(* nor was told of.                                                        *)
THEOREM MouseNoStuckButton == Spec => []NoStuckButton
<1>1. MouseInv => NoStuckButton
  BY DEF MouseInv, ButtonsOwed, NoStuckButton
<1> QED BY <1>1, MouseInvariant, PTL

(* A drag whose moves succeed ends on its target, seen as a drag of its    *)
(* own button, whatever other buttons are down.                            *)
THEOREM MouseDragsArrive == Spec => []DragsArrive
BY MouseInvariant, PTL DEF MouseInv

(* pressedButton_ is the button that is down while the caller handles one  *)
(* button at a time, whichever events are refused.                         *)
THEOREM MouseTrackedButton == Spec => []TrackedButton
<1>1. MouseInv => TrackedButton
  BY DEF MouseInv, Tracked
<1> QED BY <1>1, MouseInvariant, PTL

-------------------------------------------------------------------------------
(* Why a gesture is one step to the caller: while it runs, the contract's  *)
(* view is that of its beginning, and only its own button and, if it moves *)
(* it, the pointer have left it.                                           *)
Frame ==
  backend # "uinput" =>
    /\ Idle => before = [down |-> down, pointer |-> pointer, result |-> result]
    /\ ~Idle => /\ turned = Still
                /\ down \ {op.button} = before.down \ {op.button}
                /\ op.kind \notin Clicks \union Drags => down = before.down
                /\ op.kind \notin {"moveSmooth"} \union Drags => pointer = before.pointer

(* The step of the contract that a step of the implementation is, if any.  *)
Refines == [Contract!ContractNext]_(Contract!contractVars)

LEMMA BeginRefines ==
  ASSUME MouseInv, Frame, backend # "uinput", BeginCall, Note, UNCHANGED backend
  PROVE  Frame' /\ Refines
<1>1. PICK k \in Kind, b \in Button, p \in Point, n \in Steps, d \in Delta : Begin(k, b, p, n, d)
  BY DEF BeginCall
<1>2. /\ Idle /\ next' = 1 /\ result' = "ok" /\ turned' = Still
      /\ op' = [kind |-> k, button |-> b, to |-> p, delta |-> d] /\ calls' = Calls(n)[k]
      /\ down' = down /\ pointer' = pointer
  BY <1>1 DEF Begin, BeginCall, backendVars
<1>3. Len(calls') \in Nat \ {0}
  BY <1>2, CallsShape DEF Shape
<1>4. ~Idle' /\ before' = before
  BY <1>2, <1>3 DEF Idle, Note
<1>5. before = [down |-> down, pointer |-> pointer, result |-> result]
  BY <1>2 DEF Frame
<1>6. Frame'
  BY <1>2, <1>4, <1>5 DEF Frame
<1>7. Contract!Call
  BY <1>2, <1>4 DEF Contract!Call, Contract!Still, Still
<1> QED BY <1>6, <1>7 DEF Refines, Contract!ContractNext

(* A call inside a gesture is invisible to the contract.                   *)
LEMMA InsideRefines ==
  ASSUME ~Idle, ~Idle', Note, UNCHANGED op
  PROVE  before' = before /\ UNCHANGED Contract!contractVars
BY DEF Note, Contract!contractVars

LEMMA ButtonStepRefines ==
  ASSUME MouseInv, Frame, backend # "uinput", NEW isDown \in BOOLEAN, NEW r \in Outcome, ~Idle,
         calls[next] = (IF isDown THEN "down" ELSE "up"),
         Advance(r), button(op.button, isDown, r), Note, UNCHANGED backend
  PROVE  Frame' /\ Refines
<1> DEFINE b == op.button
<1>1. TypeOK /\ MouseTypeOK /\ b \in Button /\ op.kind \in Kind /\ Shape(op.kind, calls)
  BY TypeShape DEF MouseInv, TypeOK, MouseTypeOK
<1>2. /\ next \in 1..Len(calls) /\ Len(calls) \in Nat
      /\ calls' = calls /\ op' = op /\ result' \in Outcome
      /\ r = "ok" => next' = next + 1 /\ result' = result
      /\ r # "ok" => result' # "ok"
  BY <1>1, AdvanceNext
<1>3. /\ down' = IF r = "ok" THEN (IF isDown THEN down \union {b} ELSE down \ {b}) ELSE down
      /\ pointer' = pointer /\ turned' = Still
  <2>1. deviceDown = down /\ turned = Still
    BY DEF MouseInv, Tracked, Frame
  <2> QED BY <1>1, <2>1, ButtonEffect
<1>4. /\ down \ {b} = before.down \ {b}
      /\ op.kind \notin Clicks \union Drags => down = before.down
      /\ op.kind \notin {"moveSmooth"} \union Drags => pointer = before.pointer
  BY DEF Frame
<1>5. /\ op.kind \in {"press", "release"} \union Clicks \union Drags
      /\ op.kind \in {"press", "release"} => Len(calls) = 1
      /\ op.kind = "press" => isDown
      /\ op.kind = "release" => ~isDown
  BY <1>1, <1>2, WhereCalled DEF Shape, Singles, Clicks, Drags
<1> HIDE DEF b
<1>6. down' \ {b} = before.down \ {b}
  BY <1>3, <1>4
<1>7. CASE ~Idle'
  <2>1. before' = before /\ UNCHANGED Contract!contractVars
    BY <1>2, <1>7, InsideRefines
  <2>2. op.kind \in Clicks \union Drags
    <3>1. ASSUME op.kind \in {"press", "release"} PROVE next' = Len(calls) + 1
      <4>1. op.kind \notin Drags /\ Len(calls) = 1 /\ next = 1
        BY <1>2, <1>5, <3>1 DEF Drags
      <4>2. r # "ok" => next' = Len(calls) + 1
        BY <1>1, <4>1, AdvanceNext
      <4> QED BY <1>2, <4>1, <4>2
    <3> QED BY <1>2, <1>5, <1>7, <3>1 DEF Idle
  <2>3. Frame'
    BY <1>2, <1>3, <1>4, <1>6, <1>7, <2>1, <2>2 DEF Frame, b
  <2> QED BY <2>1, <2>3 DEF Refines
<1>8. CASE Idle'
  <2>1. before' = [down |-> down', pointer |-> pointer', result |-> result']
    BY <1>8 DEF Note
  <2>2. Frame'
    BY <1>8, <2>1 DEF Frame
  <2>3. result' = "ok" => r = "ok"
    BY <1>2
  <2>4. result' # "ok" => result' = "error"
    BY <1>2 DEF Outcome
  <2>5. op.kind \notin Drags => (r = "ok" <=> result' = "ok")
    BY <1>2, <2>3 DEF MouseInv, ErrorsReturn
  <2>6. CASE op.kind = "press"
    <3>1. Contract!ReturnPress
      BY <1>2, <1>3, <1>4, <1>5, <1>8, <2>1, <2>4, <2>5, <2>6
      DEF Contract!ReturnPress, Contract!Return, Contract!Still, Still, Clicks, Drags, b
    <3> QED BY <2>2, <3>1 DEF Refines, Contract!ContractNext
  <2>7. CASE op.kind = "release"
    <3>1. Contract!ReturnRelease
      BY <1>2, <1>3, <1>4, <1>5, <1>8, <2>1, <2>4, <2>5, <2>7
      DEF Contract!ReturnRelease, Contract!Return, Contract!Still, Still, Clicks, Drags, b
    <3> QED BY <2>2, <3>1 DEF Refines, Contract!ContractNext
  <2>8. r = "ok" /\ op.kind \in Clicks \union Drags => ~isDown
    BY <1>1, <1>2, <1>8, WhereCalled DEF Idle, Clicks, Drags
  <2>9. result' = "ok" /\ op.kind \in Clicks \union Drags => down' = before.down \ {b}
    BY <1>3, <1>4, <2>3, <2>8
  <2>10. down' \in {before.down, before.down \ {b}, before.down \union {b}}
    BY <1>6
  <2>11. CASE op.kind \in Clicks
    <3>1. Contract!ReturnClick
      BY <1>2, <1>3, <1>4, <1>8, <2>1, <2>4, <2>9, <2>10, <2>11
      DEF Contract!ReturnClick, Contract!Return, Contract!MayTouch, Contract!Still, Still,
          Clicks, Drags, b
    <3> QED BY <2>2, <3>1 DEF Refines, Contract!ContractNext
  <2>12. CASE op.kind \in Drags
    <3>1. result' = "ok" => pointer' = op.to
      <4>1. SUFFICES ASSUME result' = "ok" PROVE pointer = op.to
        BY <1>3
      <4>2. r = "ok" /\ result = "ok" /\ next = Len(calls)
        BY <1>2, <1>8, <2>3, <4>1 DEF Idle
      <4> QED BY <2>12, <4>2 DEF MouseInv, DragsArrive
    <3>2. pointer' \in Point
      BY <1>1, <1>3 DEF MouseTypeOK
    <3>3. Contract!ReturnDrag
      BY <1>2, <1>3, <1>8, <2>1, <2>4, <2>9, <2>10, <2>12, <3>1, <3>2
      DEF Contract!ReturnDrag, Contract!Return, Contract!MayTouch, Contract!Still, Still,
          Drags, b
    <3> QED BY <2>2, <3>3 DEF Refines, Contract!ContractNext
  <2> QED BY <1>5, <2>6, <2>7, <2>11, <2>12
<1> QED BY <1>7, <1>8

LEMMA MoveStepRefines ==
  ASSUME MouseInv, Frame, backend # "uinput", NEW r \in Outcome, ~Idle, Advance(r), Note,
         UNCHANGED backend,
         \/ \E p \in Point : Warp(p, r) /\ warpCursor(p, r)
         \/ ReadPosition(r) /\ cursorPosition(r)
         \/ Scroll(r) /\ scroll(op.delta, r)
  PROVE  Frame' /\ Refines
<1>1. TypeOK /\ MouseTypeOK /\ op.kind \in Kind /\ Shape(op.kind, calls)
  BY TypeShape DEF MouseInv, TypeOK, MouseTypeOK
<1>2. /\ next \in 1..Len(calls) /\ Len(calls) \in Nat
      /\ next' \in 1..(Len(calls) + 1) /\ calls' = calls /\ op' = op /\ result' \in Outcome
      /\ r = "ok" => next' = next + 1 /\ result' = result
      /\ r # "ok" => result' # "ok"
      /\ r # "ok" => next' = (IF op.kind \in Drags /\ 1 < next /\ next < Len(calls)
                              THEN Len(calls) ELSE Len(calls) + 1)
  BY <1>1, AdvanceNext
<1>3. calls[next] \notin Presses /\ down' = down
  BY DEF Warp, warpCursor, ReadPosition, cursorPosition, Scroll, scroll, backendVars, Presses
<1>4. \/ op.kind \in {"position", "move", "moveSmooth", "scroll"}
      \/ op.kind \in Drags /\ 1 < next /\ next < Len(calls)
  BY <1>1, <1>2, <1>3, WhereCalled
<1>5. /\ turned = Still
      /\ down \ {op.button} = before.down \ {op.button}
      /\ op.kind \notin Clicks \union Drags => down = before.down
      /\ op.kind \notin {"moveSmooth"} \union Drags => pointer = before.pointer
  BY DEF Frame
<1>6. CASE ~Idle'
  <2>1. before' = before /\ UNCHANGED Contract!contractVars
    BY <1>2, <1>6, InsideRefines
  <2>2. op.kind \in {"moveSmooth"} \union Drags
    <3>1. ASSUME op.kind \in {"position", "move", "scroll"} PROVE next' = Len(calls) + 1
      <4>1. Len(calls) = 1 /\ op.kind \notin Drags
        BY <1>1, <3>1 DEF Shape, Singles, Drags
      <4> QED BY <1>2, <4>1 DEF Outcome
    <3> QED BY <1>2, <1>4, <1>6, <3>1 DEF Idle
  <2>3. calls[next] # "scroll"
    <3>1. op.kind = "moveSmooth" => calls[next] \in Moves
      BY <1>1, <1>2 DEF Shape
    <3>2. op.kind \in Drags => calls[next] \in Moves
      BY <1>1, <1>2, <1>4 DEF Shape, Drags
    <3> QED BY <2>2, <3>1, <3>2 DEF Moves
  <2>4. turned' = turned
    BY <2>3 DEF Warp, warpCursor, ReadPosition, cursorPosition, Scroll
  <2>5. Frame'
    BY <1>2, <1>3, <1>5, <1>6, <2>1, <2>2, <2>4 DEF Frame
  <2> QED BY <2>1, <2>5 DEF Refines
<1>7. CASE Idle'
  <2>1. before' = [down |-> down', pointer |-> pointer', result |-> result']
    BY <1>7 DEF Note
  <2>2. Frame'
    BY <1>7, <2>1 DEF Frame
  <2>3. op.kind \in {"position", "move", "moveSmooth", "scroll"}
    BY <1>2, <1>4, <1>7 DEF Idle, Outcome
  <2>4. (r = "ok" <=> result' = "ok") /\ result' \in {"ok", "error"} /\ down' = before.down
    <3>1. op.kind \notin Clicks /\ op.kind \notin Drags
      BY <2>3 DEF Clicks, Drags
    <3>2. result = "ok"
      BY <1>2, <3>1 DEF MouseInv, ErrorsReturn
    <3>3. r \in {"ok", "error"} /\ result' \in {"ok", "error"}
      BY <1>2 DEF Outcome
    <3> QED BY <1>2, <1>3, <1>5, <3>1, <3>2, <3>3
  <2>5. next = 1 \/ op.kind = "moveSmooth"
    <3>1. op.kind \in Singles => Len(calls) = 1
      BY <1>1 DEF Shape
    <3>2. op.kind \in Singles \/ op.kind = "moveSmooth"
      BY <2>3 DEF Singles
    <3>3. next \in 1..Len(calls)
      BY <1>2
    <3>4. Len(calls) = 1 => next = 1
      BY <3>3
    <3> QED BY <3>1, <3>2, <3>4
  <2>6. CASE op.kind = "position"
    <3>1. calls[next] = "read"
      BY <1>1, <2>5, <2>6 DEF Shape
    <3>2. cursorPosition(r)
      BY <3>1 DEF Warp, Scroll
    <3>3. pointer' = before.pointer /\ turned' = Still
      BY <1>5, <2>6, <3>2 DEF cursorPosition, Drags
    <3>4. Contract!ReturnPosition
      BY <1>2, <1>7, <2>1, <2>4, <2>6, <3>3
      DEF Contract!ReturnPosition, Contract!Return, Contract!Still, Still
    <3> QED BY <2>2, <3>4 DEF Refines, Contract!ContractNext
  <2>7. CASE op.kind = "scroll"
    <3>1. calls[next] = "scroll"
      BY <1>1, <2>5, <2>7 DEF Shape
    <3>2. scroll(op.delta, r)
      BY <3>1 DEF Warp, ReadPosition
    <3>3. /\ pointer' = before.pointer
          /\ r = "ok" => turned' = op.delta
          /\ r # "ok" => turned' \in {Still, [op.delta EXCEPT !.horizontal = 0]}
      BY <1>1, <1>5, <2>7, <3>2 DEF scroll, turnWheels, TypeOK, Drags
    <3>4. Contract!ReturnScroll
      BY <1>2, <1>7, <2>1, <2>4, <2>7, <3>3
      DEF Contract!ReturnScroll, Contract!Return, Contract!Still, Still
    <3> QED BY <2>2, <3>4 DEF Refines, Contract!ContractNext
  <2>8. CASE op.kind \in {"move", "moveSmooth"}
    <3>1. calls[next] \in Moves /\ calls[Len(calls)] = "warp"
      BY <1>1, <1>2, <2>8 DEF Shape
    <3>2. \/ \E p \in Point : Warp(p, r) /\ warpCursor(p, r)
          \/ ReadPosition(r) /\ cursorPosition(r)
      BY <3>1 DEF Scroll, Moves
    <3>3. pointer' \in Point /\ turned' = Still
      BY <1>1, <1>5, <3>2 DEF warpCursor, cursorPosition, MouseTypeOK
    <3>4. r # "ok" => pointer' = pointer
      BY <3>2 DEF warpCursor, cursorPosition
    <3>5. r = "ok" => pointer' = op.to
      <4>1. r = "ok" => calls[next] = "warp"
        BY <1>2, <1>7, <3>1 DEF Idle
      <4> QED BY <3>2, <4>1 DEF Warp, warpCursor, ReadPosition
    <3>6. op.kind = "move" => pointer = before.pointer
      BY <1>5 DEF Drags
    <3>7. Contract!ReturnMove
      BY <1>2, <1>7, <2>1, <2>4, <2>8, <3>3, <3>4, <3>5, <3>6
      DEF Contract!ReturnMove, Contract!Return, Contract!Still, Still
    <3> QED BY <2>2, <3>7 DEF Refines, Contract!ContractNext
  <2> QED BY <2>3, <2>6, <2>7, <2>8
<1> QED BY <1>6, <1>7

(* Every step that uinput does not take is one of the contract's, or none. *)
LEMMA NextRefines ==
  MouseInv /\ Frame /\ [Next]_vars =>
    Frame' /\ [backend = "uinput" \/ Contract!ContractNext]_(Contract!contractVars)
<1> SUFFICES ASSUME MouseInv, Frame, [Next]_vars
             PROVE  Frame' /\ (backend = "uinput" \/ Refines)
  BY DEF Refines
<1>1. CASE UNCHANGED vars
  BY <1>1 DEF vars, mouseVars, facadeVars, Frame, Refines, Idle, Contract!contractVars
<1>2. CASE backend = "uinput" /\ backend' = backend
  BY <1>2 DEF Frame
<1>3. CASE Next /\ backend # "uinput"
  <2>1. Note /\ backend' = backend
    BY <1>3 DEF Next
  <2>2. CASE BeginCall
    BY <1>3, <2>1, <2>2, BeginRefines
  <2>3. CASE \E r \in Outcome : BackendCall(r)
    <3>1. PICK r \in Outcome : BackendCall(r)
      BY <2>3
    <3>2. CASE ButtonDown(r) /\ button(op.button, TRUE, r)
      <4>1. PICK isDown \in BOOLEAN : isDown = TRUE
        OBVIOUS
      <4>2. ~Idle /\ calls[next] = "down" /\ Advance(r) /\ button(op.button, isDown, r)
        BY <3>2, <4>1 DEF ButtonDown
      <4> QED BY <1>3, <2>1, <4>1, <4>2, ButtonStepRefines
    <3>3. CASE ButtonUp(r) /\ button(op.button, FALSE, r)
      <4>1. PICK isDown \in BOOLEAN : isDown = FALSE
        OBVIOUS
      <4>2. ~Idle /\ calls[next] = "up" /\ Advance(r) /\ button(op.button, isDown, r)
        BY <3>3, <4>1 DEF ButtonUp
      <4> QED BY <1>3, <2>1, <4>1, <4>2, ButtonStepRefines
    <3>4. CASE \/ \E p \in Point : Warp(p, r) /\ warpCursor(p, r)
               \/ ReadPosition(r) /\ cursorPosition(r)
               \/ Scroll(r) /\ scroll(op.delta, r)
      <4>1. ~Idle /\ Advance(r)
        BY <3>4 DEF Warp, ReadPosition, Scroll
      <4> QED BY <1>3, <2>1, <3>4, <4>1, MoveStepRefines
    <3> QED BY <3>1, <3>2, <3>3, <3>4 DEF BackendCall
  <2> QED BY <1>3, <2>2, <2>3 DEF Next
<1> QED BY <1>1, <1>2, <1>3 DEF Next

(* Over macOS, Windows and X11 every gesture is, to its caller, one step   *)
(* of MouseContract: whatever call inside it fails, an ok has the whole    *)
(* effect, an error touches no button but the gesture's own, moves the     *)
(* pointer only if the gesture was to, and never turns the horizontal      *)
(* wheel without the vertical one.                                         *)
THEOREM MouseImplementsContract == Spec => ImplementsContract
<1>1. Init => Contract!ContractInit /\ Frame
  <2> SUFFICES ASSUME Init PROVE Contract!ContractInit /\ Frame
    OBVIOUS
  <2>1. Len(calls) \in Nat /\ Idle
    BY MouseInitInv, TypeShape DEF MouseInv, TypeOK, Shape, Init, MouseInit, Idle
  <2> QED BY <2>1 DEF Init, MouseInit, Frame, Contract!ContractInit
<1>2. Spec => []Frame
  BY <1>1, MouseInvariant, NextRefines, PTL DEF Spec
<1> QED BY <1>1, <1>2, MouseInvariant, NextRefines, PTL DEF Spec, ImplementsContract
================================================================================
