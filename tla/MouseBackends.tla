---------------------------- MODULE MouseBackends ----------------------------
(***************************************************************************)
(* The mouse of a session: the facade over the backend of the platform.    *)
(* The macOS backend has to say itself whether a move is a drag, and keeps *)
(* the pressed button for it; Windows keeps it as well, and X11 and the    *)
(* uinput device leave it to the system.  uinput neither moves the pointer *)
(* to a point nor reads where it is, and reports a button in two writes.   *)
(***************************************************************************)
EXTENDS Mouse

CONSTANT None   \* no button

ASSUME NoneAssumption == None \notin Button

VARIABLES
  backend,        \* "mac", "windows", "x11" or "uinput"
  pressedButton,  \* pressedButton_ of the macOS and the Windows backend
  deviceDown,     \* external: the buttons down inside the uinput device
  moveAs,         \* external: the buttons the last move was a drag of
  tangled         \* history: since no button was down, a button event came
                  \* while another button was down

backendVars == <<pressedButton, deviceDown, down, tangled, refused>>
vars == <<mouseVars, backend, pressedButton, deviceDown, moveAs, tangled>>

Tracking == backend \in {"mac", "windows"}

TypeOK ==
  /\ MouseTypeOK
  /\ backend \in {"mac", "windows", "x11", "uinput"}
  /\ pressedButton \in Button \union {None}
  /\ deviceDown \subseteq Button
  /\ moveAs \subseteq Button
  /\ tangled \in BOOLEAN

Init ==
  /\ MouseInit
  /\ backend \in {"mac", "windows", "x11", "uinput"}
  /\ pressedButton = None
  /\ deviceDown = {}
  /\ moveAs = {}
  /\ tangled = FALSE

writeButton(b, isDown) ==
  deviceDown' = IF isDown THEN deviceDown \union {b} ELSE deviceDown \ {b}
report == down' = deviceDown'

(* Mutant: the first button held is kept.                                  *)
trackFirst(b, isDown) ==
  pressedButton' = IF isDown /\ pressedButton = None THEN b
                   ELSE IF isDown THEN pressedButton ELSE None
trackButton(b, isDown) == pressedButton' = IF isDown THEN b ELSE None

(* An event that could be created, or inserted, is delivered and tracked.  *)
(* Mutant: the button is tracked before the event is created.              *)
postButtonEarly(b, isDown, r) ==
  /\ trackButton(b, isDown)
  /\ \/ r = "ok" /\ writeButton(b, isDown) /\ report
     \/ r = "error" /\ UNCHANGED <<deviceDown, down>>

postButton(b, isDown, r) ==
  \/ r = "ok" /\ writeButton(b, isDown) /\ report /\ trackButton(b, isDown)
  \/ r = "error" /\ UNCHANGED <<deviceDown, down, pressedButton>>

(* XTestFakeButtonEvent and XFlush: nothing of a failure comes back.       *)
fakeButtonEvent(b, isDown, r) ==
  r = "ok" /\ writeButton(b, isDown) /\ report /\ UNCHANGED pressedButton

(* The button's event, then the SYN_REPORT; either write may fail.         *)
emit(b, isDown, r) ==
  /\ \/ r = "error" /\ UNCHANGED <<deviceDown, down>>
     \/ r = "error" /\ writeButton(b, isDown) /\ UNCHANGED down
     \/ r = "ok" /\ writeButton(b, isDown) /\ report
  /\ UNCHANGED pressedButton

button(b, isDown, r) ==
  /\ \/ Tracking /\ postButton(b, isDown, r)
     \/ backend = "x11" /\ fakeButtonEvent(b, isDown, r)
     \/ backend = "uinput" /\ emit(b, isDown, r)
  /\ NoteButton(b, isDown, r)
  /\ tangled' = (down' # {} /\ (tangled \/ down \ {b} # {}))
  /\ UNCHANGED <<moveAs, pointer, turned>>

(* The points of the desktop are looked up anew at every call, and any may *)
(* be refused; X11 does not answer, and uinput has no such event.          *)
warpCursor(p, r) ==
  /\ \/ /\ r = "ok" /\ backend # "uinput"
        /\ pointer' = p
        /\ moveAs' = IF backend = "mac" THEN {pressedButton} \ {None} ELSE down
     \/ r = "error" /\ backend # "x11" /\ UNCHANGED <<pointer, moveAs>>
  /\ UNCHANGED <<backendVars, turned>>

cursorPosition(r) ==
  /\ backend = "uinput" => r = "error"
  /\ UNCHANGED <<backendVars, moveAs, pointer, turned>>

(* macOS turns both wheels in one event, X11 clicks wheel buttons and hears *)
(* of no failure.  Windows and uinput turn one wheel after the other, each  *)
(* only if it is to turn, so that an error may come after the first.        *)
(* Mutant: the horizontal wheel is turned although the vertical one failed. *)
turnWheelsBoth(d, r) ==
  \/ turned' = d
  \/ r = "error" /\ turned' \in {Still, [d EXCEPT !.horizontal = 0], [d EXCEPT !.vertical = 0]}
turnWheels(d, r) ==
  \/ r = "ok" /\ turned' = d
  \/ r = "error" /\ turned' = Still
  \/ r = "error" /\ d.horizontal # 0 /\ turned' = [d EXCEPT !.horizontal = 0]

(* Turns are in whole lines; all but macOS may refuse at once, as they do a *)
(* turn in pixels.                                                          *)
scroll(d, r) ==
  /\ \/ backend \in {"windows", "uinput"} /\ turnWheels(d, r)
     \/ backend = "mac" /\ turned' = (IF r = "ok" THEN d ELSE Still)
     \/ backend = "x11" /\ r = "ok" /\ turned' = d
     \/ backend # "mac" /\ r = "error" /\ turned' = Still
  /\ UNCHANGED <<backendVars, moveAs, pointer>>

BeginCall ==
  /\ \E k \in Kind, b \in Button, p \in Point, n \in Steps, d \in Delta :
       Begin(k, b, p, n, d)
  /\ UNCHANGED <<backendVars, moveAs, pointer>>

BackendCall(r) ==
  \/ ButtonDown(r) /\ button(op.button, TRUE, r)
  \/ ButtonUp(r) /\ button(op.button, FALSE, r)
  \/ \E p \in Point : Warp(p, r) /\ warpCursor(p, r)
  \/ ReadPosition(r) /\ cursorPosition(r)
  \/ Scroll(r) /\ scroll(op.delta, r)

Next ==
  /\ BeginCall \/ \E r \in Outcome : BackendCall(r)
  /\ Note
  /\ UNCHANGED backend

Spec == Init /\ [][Next]_vars

-------------------------------------------------------------------------------
(* On the backends whose button events are delivered or refused as a whole, *)
(* a gesture keeps its contract: ok means that its button is up and the    *)
(* pointer at its target, an error never moves another button.             *)
ImplementsContract ==
  /\ Contract!ContractInit
  /\ [][backend = "uinput" \/ Contract!ContractNext]_(Contract!contractVars)

(* When a drag is about to release its button after its moves succeeded,   *)
(* the last of them, onto the target, was seen as a drag of that button,   *)
(* also when the caller holds other buttons ("warpCursor must emit a drag  *)
(* event", IMouseBackend.h:16).                                            *)
DragsArrive ==
  (op.kind \in Drags /\ next = Len(calls) /\ result = "ok") =>
    op.button \in moveAs /\ pointer = op.to

(* As long as the caller handles one button at a time, the backend's       *)
(* pressedButton_ is the button that is down, through refused events too.  *)
TrackedButton ==
  (Tracking /\ ~tangled) =>
    down = {pressedButton} \ {None}
===============================================================================
