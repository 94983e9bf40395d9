-------------------------------- MODULE Mouse --------------------------------
(***************************************************************************)
(* The portable Mouse facade (src/common/Mouse.cpp), cut at the calls it   *)
(* makes to its IMouseBackend.  A gesture is straight-line code but for    *)
(* its errors, so that where it is in that code is an index into the       *)
(* sequence of its calls.  A composing module conjoins each call with what *)
(* the backend does and answers.                                           *)
(***************************************************************************)
EXTENDS Integers, Sequences

CONSTANTS Button,  \* the mouse buttons
          Point,   \* the points of the desktop callers move to
          Delta,   \* the turns of the wheel callers ask for, in whole lines
          Steps    \* the numbers of steps of a smooth move

Turn == [vertical : Int, horizontal : Int]
Still == [vertical |-> 0, horizontal |-> 0]

ASSUME StepsAssumption == Steps \subseteq Nat \ {0}
ASSUME DeltaAssumption == Delta \subseteq Turn /\ Still \in Delta

VARIABLES
  op,       \* the last API call: its kind, its button and its target
  calls,    \* the backend calls it makes if none fails
  next,     \* the one it makes next; past the end between API calls
  result,   \* what it returned, or the result so far
  \* History, read by properties only:
  caller,   \* buttons the caller holds by press()
  refused,  \* buttons with a refused event, not released since
  before,   \* the buttons, the pointer and the answer after the last call
  \* The environment, driven by the backend:
  down,     \* external: the buttons the applications see as down
  pointer,  \* external: where the pointer is
  turned    \* external: how far the last call turned the wheel

facadeVars == <<op, calls, next, result>>
mouseVars == <<facadeVars, caller, refused, before, down, pointer, turned>>

Idle == next > Len(calls)

Outcome == {"ok", "error"}

(* The interpolated points of a smooth move: the last one is the target.   *)
Waypoints(n) == [i \in 1..n |-> IF i = n THEN "warp" ELSE "sample"]

(* press and release stand for the raw button() as well.                   *)
Calls(n) ==
  [press       |-> <<"down">>,
   release     |-> <<"up">>,
   click       |-> <<"down", "up">>,
   doubleClick |-> <<"down", "up", "down", "up">>,
   position    |-> <<"read">>,
   move        |-> <<"warp">>,
   moveSmooth  |-> <<"read">> \o Waypoints(n),
   drag        |-> <<"down", "warp", "up">>,
   dragSmooth  |-> <<"down", "read">> \o Waypoints(n) \o <<"up">>,
   scroll      |-> <<"scroll">>]

Kind == {"press", "release", "click", "doubleClick", "position", "move",
         "moveSmooth", "drag", "dragSmooth", "scroll"}
Drags == {"drag", "dragSmooth"}
Clicks == {"click", "doubleClick"}

MouseTypeOK ==
  /\ op \in [kind : Kind, button : Button, to : Point, delta : Delta]
  /\ \E n \in Steps : calls = Calls(n)[op.kind]
  /\ next \in 1..(Len(calls) + 1)
  /\ result \in Outcome
  /\ caller \subseteq Button
  /\ refused \subseteq Button
  /\ before \in [down : SUBSET Button, pointer : Point, result : Outcome]
  /\ down \subseteq Button
  /\ pointer \in Point
  /\ turned \in Turn

MouseInit ==
  /\ op \in [kind : {"position"}, button : Button, to : Point, delta : {Still}]
  /\ \E n \in Steps : calls = Calls(n)[op.kind]
  /\ next = Len(calls) + 1
  /\ result = "ok"
  /\ caller = {} /\ refused = {} /\ down = {}
  /\ pointer \in Point
  /\ turned = Still
  /\ before = [down |-> {}, pointer |-> pointer, result |-> "ok"]

(* A call on button b of kind k begins. *)
Begin(k, b, p, n, d) ==
  /\ Idle
  /\ k = "scroll" \/ d = Still
  /\ op' = [kind |-> k, button |-> b, to |-> p, delta |-> d]
  /\ calls' = Calls(n)[k]
  /\ next' = 1
  /\ result' = "ok"
  /\ turned' = Still

(* A failed call ends the gesture; but a drag that has its button down     *)
(* goes on to release it.                                                  *)
(* Mutant: a drag ends like any other gesture.                             *)
afterErrorReturn == Len(calls) + 1
afterError ==
  IF op.kind \in Drags /\ 1 < next /\ next < Len(calls) THEN Len(calls) ELSE Len(calls) + 1

(* The error of the move stands, whatever the release answers.             *)
(* Mutant: the answer of the release stands.                               *)
lastAnswer(r) == r
firstError(r) == IF result = "ok" THEN r ELSE result

Advance(r) ==
  /\ ~Idle
  /\ next' = IF r = "ok" THEN next + 1 ELSE afterError
  /\ result' = firstError(r)
  /\ UNCHANGED <<op, calls>>

ButtonDown(r) == ~Idle /\ calls[next] = "down" /\ Advance(r)
ButtonUp(r) == ~Idle /\ calls[next] = "up" /\ Advance(r)
ReadPosition(r) == ~Idle /\ calls[next] = "read" /\ Advance(r)
Scroll(r) == ~Idle /\ calls[next] = "scroll" /\ Advance(r)
Warp(p, r) ==
  /\ ~Idle
  /\ \/ calls[next] = "warp" /\ p = op.to
     \/ calls[next] = "sample"       \* anywhere on the way
  /\ Advance(r)

(* The history, part of every step. *)
NoteButton(b, isDown, r) ==
  refused' = IF r # "ok" THEN refused \union {b}
             ELSE IF isDown THEN refused ELSE refused \ {b}

Note ==
  /\ before' = IF Idle' THEN [down |-> down', pointer |-> pointer', result |-> result']
               ELSE before
  /\ caller' =
       IF ~Idle /\ Idle' /\ result' = "ok"
       THEN CASE op.kind = "press" -> caller \union {op.button}
              [] op.kind \in {"release"} \union Clicks \union Drags -> caller \ {op.button}
              [] OTHER -> caller
       ELSE caller

-------------------------------------------------------------------------------
(* Between API calls a button is down only if the caller pressed it, or an *)
(* event of it was refused: a drag whose move fails, at whichever of its   *)
(* steps, does not keep its button.                                        *)
NoStuckButton == Idle => down \subseteq caller \union refused

(* To the contract a gesture has its effect when it returns. *)
Contract == INSTANCE MouseContract WITH
  busy <- ~Idle,
  request <- op,
  held <- before.down,
  at <- before.pointer,
  wheel <- IF Idle THEN turned ELSE Still,
  status <- before.result
===============================================================================
