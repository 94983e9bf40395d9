---------------------------- MODULE MouseContract ----------------------------
(***************************************************************************)
(* What Mouse.h promises a caller: a call that succeeds has its whole      *)
(* effect, at once for all the caller can tell; one that fails has touched *)
(* no button but its own, and moved the pointer only if it was to move it. *)
(***************************************************************************)
CONSTANTS Button, Point, Kind, Delta

VARIABLES busy,    \* a call is in progress
          request, \* the last call: its kind, its button and its target
          held,    \* the buttons that are down for the applications
          at,      \* where the pointer is
          wheel,   \* how far the last call turned the wheel when it returned
          status   \* how the last call to return ended: "ok" or "error"

contractVars == <<busy, request, held, at, wheel, status>>

Still == [vertical |-> 0, horizontal |-> 0]

ContractInit == ~busy /\ held = {} /\ at \in Point /\ status = "ok"

Call ==
  /\ ~busy
  /\ busy' = TRUE
  /\ request' \in [kind : Kind, button : Button, to : Point, delta : Delta]
  /\ wheel' = Still
  /\ UNCHANGED <<held, at, status>>

Return(kinds) ==
  /\ busy /\ request.kind \in kinds
  /\ wheel' = Still \/ request.kind = "scroll"
  /\ busy' = FALSE
  /\ UNCHANGED request

(* A button may have been left as it was, or in either state. *)
MayTouch(b) == held' \in {held, held \ {b}, held \union {b}}

ReturnPress ==
  /\ Return({"press"})
  /\ \/ status' = "ok" /\ held' = held \union {request.button}
     \/ status' = "error" /\ held' = held
  /\ at' = at

ReturnRelease ==
  /\ Return({"release"})
  /\ \/ status' = "ok" /\ held' = held \ {request.button}
     \/ status' = "error" /\ held' = held
  /\ at' = at

(* "Press then release at the current position", once or twice. *)
ReturnClick ==
  /\ Return({"click", "doubleClick"})
  /\ \/ status' = "ok" /\ held' = held \ {request.button}
     \/ status' = "error" /\ MayTouch(request.button)
  /\ at' = at

(* "Absolute warp to a logical point", at once or in steps. *)
ReturnMove ==
  /\ Return({"move", "moveSmooth"})
  /\ \/ status' = "ok" /\ at' = request.to
     \/ status' = "error" /\ (request.kind = "move" => at' = at) /\ at' \in Point
  /\ held' = held

(* "Press at the current position, warp to target, release". *)
ReturnDrag ==
  /\ Return({"drag", "dragSmooth"})
  /\ \/ status' = "ok" /\ held' = held \ {request.button} /\ at' = request.to
     \/ status' = "error" /\ MayTouch(request.button) /\ at' \in Point

ReturnPosition ==
  /\ Return({"position"})
  /\ status' \in {"ok", "error"}
  /\ UNCHANGED <<held, at>>

(* "Scroll at the current position": by what was asked; an error may come   *)
(* after the vertical half of it.                                           *)
ReturnScroll ==
  /\ Return({"scroll"})
  /\ \/ status' = "ok" /\ wheel' = request.delta
     \/ status' = "error" /\ wheel' \in {Still, [request.delta EXCEPT !.horizontal = 0]}
  /\ UNCHANGED <<held, at>>

ContractNext ==
  \/ Call
  \/ ReturnPress \/ ReturnRelease \/ ReturnClick \/ ReturnMove \/ ReturnDrag
  \/ ReturnPosition \/ ReturnScroll
===============================================================================
