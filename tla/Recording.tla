------------------------------ MODULE Recording ------------------------------
(***************************************************************************)
(* A recording from the user's hand to its replay: the user's input, the   *)
(* tap that translates it and calls capture(), and the session that        *)
(* replays it.  Injected input passes the tap as well.                     *)
(*                                                                         *)
(* The user does nothing while a replay runs.  While neither the tap nor a *)
(* replay does, the user does anything; the world is not followed then,    *)
(* and what comes next finds it in any state.  The bounds are MaxEvents on *)
(* the events of the user, and MaxTime on the clock.                       *)
(***************************************************************************)
EXTENDS Recorder

CONSTANTS Key, ModifierKey, Button, Point, MaxEvents, MaxTime

ASSUME ModifierAssumption == ModifierKey \subseteq Key /\ Key \intersect Button = {}
ASSUME BoundsAssumption == MaxEvents \in Nat /\ MaxTime \in Nat
ASSUME PointAssumption == Point # {}

VARIABLES
  now,            \* external: the steady clock
  recording,      \* the tap runs
  toggles,        \* the tap is that of macOS, which tells a modifier's press
                  \* from its release by the last one
  heldModifiers,  \* heldModifiers_ of that tap
  down,           \* external: keys and buttons the applications see as down
  pointer,        \* external: where the pointer is
  \* History, read by properties only:
  doubtful,       \* modifiers down when the tap started, or pressed when they
                  \* were down, or released when they were up
  unseen,         \* inputs that have not changed since the tap started, or
                  \* last did so while they were doubtful
  happening,      \* what happened at the event that is being captured
  trail           \* what happened at each event of the recording, and after

tapVars == <<recording, toggles, heldModifiers>>
worldVars == <<now, tapVars, down, pointer, doubtful, unseen, happening, trail>>
vars == <<recorderVars, worldVars>>

Input == Key \union Button

KeyEvent == [kind : {"key"}, input : Key, down : BOOLEAN]
ButtonEvent == [kind : {"button"}, input : Button, down : BOOLEAN, to : Point]
OtherEvent == [kind : {"move", "scroll"}, to : Point]
InputEvent == KeyEvent \union ButtonEvent \union OtherEvent

(* A key may go either way, and what has a place may happen at any. *)
ASSUME EventAssumption ==
  /\ Event \subseteq InputEvent
  /\ \A e \in Event, b \in BOOLEAN : e.kind = "key" => [e EXCEPT !.down = b] \in Event
  /\ \A e \in Event, p \in Point :
       Positioned(e) => {[e EXCEPT !.to = p], [kind |-> "move", to |-> p]} \subseteq Event

inputOf(e) == IF e.kind \in {"key", "button"} THEN {e.input} ELSE {}

TypeOK ==
  /\ RecorderTypeOK
  /\ now \in 0..MaxTime
  /\ recording \in BOOLEAN /\ toggles \in BOOLEAN
  /\ heldModifiers \subseteq ModifierKey /\ (heldModifiers # {} => toggles)
  /\ down \subseteq Input /\ pointer \in Point
  /\ doubtful \subseteq ModifierKey /\ unseen \subseteq Input
  /\ Len(trail) = Len(events) /\ Len(happening) = Len(captured)

InReplay == Replaying \/ pc = "returned"

(* The world where it is not followed, and where that ends. *)
Nowhere == CHOOSE p \in Point : TRUE
Forgotten == down' = {} /\ pointer' = Nowhere
Found == down' \in SUBSET Input /\ pointer' \in Point

Init ==
  /\ RecorderInit
  /\ now = 0 /\ recording = FALSE /\ toggles \in BOOLEAN /\ heldModifiers = {}
  /\ down = {} /\ pointer = Nowhere
  /\ doubtful = {} /\ unseen = Input /\ happening = <<>> /\ trail = <<>>

(* What the event does to the applications. *)
Happens(e) ==
  /\ down' = CASE e.kind \in {"key", "button"} /\ e.down  -> down \union {e.input}
               [] e.kind \in {"key", "button"} /\ ~e.down -> down \ {e.input}
               [] OTHER -> down
  /\ pointer' = IF e.kind = "move" THEN e.to ELSE pointer

(* flagsChanged has no direction: macOS reports a modifier and leaves it to *)
(* the tap to know which.                                                  *)
Toggled(e) == toggles /\ e.kind = "key" /\ inputOf(e) \subseteq ModifierKey

handle(e) == IF Toggled(e) THEN [e EXCEPT !.down = e.input \notin heldModifiers] ELSE e

trackModifier(e) ==
  heldModifiers' =
    IF ~Toggled(e) THEN heldModifiers
    ELSE IF handle(e).down THEN heldModifiers \union {e.input}
    ELSE heldModifiers \ {e.input}

(* A modifier's event that changes nothing. *)
Redundant(e) == e.kind = "key" /\ e.input \in ModifierKey /\ e.down = (e.input \in down)

(* The tap sees the event at time t, and the sink begins to capture it. *)
(* The tap handles one event at a time: the next one waits.             *)
Record(e, t) ==
  /\ captureClock(handle(e), t)
  /\ trackModifier(e)
  /\ doubtful' = IF Redundant(e) THEN doubtful \union {e.input} ELSE doubtful
  /\ unseen' = unseen \union inputOf(e)
  /\ happening' = <<[event |-> e, pointer |-> pointer']>>
  /\ now' = t /\ UNCHANGED trail

(* The sink appends it to the recording. *)
Push ==
  /\ capturePush
  /\ LET was == happening[1]
         known == inputOf(was.event) \ doubtful
     IN /\ unseen' = unseen \ known
        /\ trail' = Append(trail, [event |-> was.event, pointer |-> was.pointer,
                                   down |-> down \ unseen',
                                   up |-> Input \ (down \union unseen')])
  /\ happening' = <<>>
  /\ UNCHANGED <<pc, paceVars, at, result, now, tapVars, down, pointer, doubtful>>

Ignore ==
  UNCHANGED <<timelineVars, stray, raced, heldModifiers, doubtful, unseen, happening, trail, now>>

Observe(e, t) == IF recording THEN Record(e, t) ELSE Ignore

(* Keys other than modifiers repeat; buttons and wheel act at the pointer. *)
UserCan(e) ==
  /\ e.kind \in {"button", "scroll"} => e.to = pointer
  /\ \A x \in inputOf(e) :
       IF e.down THEN x \notin down \/ x \in Key \ ModifierKey ELSE x \in down

UserActs(e, t) ==
  /\ pc \in {"idle", "cleared"}
  /\ recording /\ Len(events) < MaxEvents
  /\ UserCan(e)
  /\ Happens(e) /\ Observe(e, t)
  /\ UNCHANGED <<pc, paceVars, at, result, recording, toggles>>

(* Another program moves the pointer: no event tells. *)
PointerJumps ==
  /\ pc = "idle" /\ recording
  /\ pointer' \in Point \ {pointer}
  /\ UNCHANGED <<recorderVars, now, tapVars, down, doubtful, unseen, happening, trail>>

(* The bound on replays that the tap records in turn. *)
Room == 2 * Len(events) <= MaxEvents

(* EventTap::start, from here on forwarding events, and its end. *)
(* Mutant: the modifiers of the last recording are kept.         *)
clearModifiersNot == UNCHANGED heldModifiers
clearModifiers == heldModifiers' = {}

StartTap ==
  /\ ~recording /\ recording' = TRUE
  /\ Replaying => Room
  /\ clearModifiers
  /\ IF InReplay THEN UNCHANGED <<down, pointer>> ELSE Found
  /\ doubtful' = down' \intersect ModifierKey
  /\ unseen' = Input
  /\ UNCHANGED <<recorderVars, now, toggles, happening, trail>>

(* start() returns when its callback has. *)
StopTap ==
  /\ recording /\ recording' = FALSE
  /\ captured = <<>>
  /\ IF InReplay THEN UNCHANGED <<down, pointer>> ELSE Forgotten
  /\ doubtful' = {} /\ unseen' = Input
  /\ UNCHANGED <<recorderVars, now, toggles, heldModifiers, happening, trail>>

Reset ==
  \/ /\ ResetClear
     /\ trail' = <<>> /\ unseen' = Input
     /\ UNCHANGED <<now, tapVars, down, pointer, doubtful, happening>>
  \/ ResetClock /\ UNCHANGED worldVars

(* A call of a facade: the event is injected, or refused.  The     *)
(* clock stands still for what the tap sees of it.                         *)
Inject(e, r) ==
  \/ r = "ok" /\ Happens(e) /\ Observe(e, now)
  \/ r = "error" /\ UNCHANGED <<timelineVars, stray, raced, worldVars>>

(* Positioned events move the pointer to their place first.        *)
(* Mutant: only moves do.                                          *)
warpInPlace(e) == [kind |-> "move", to |-> IF e.kind = "move" THEN e.to ELSE pointer]
warpOf(e) == [kind |-> "move", to |-> e.to]
actOf(e) == IF Positioned(e) THEN [e EXCEPT !.to = pointer] ELSE e

DispatchMove(r) ==
  /\ pc = "warp"
  /\ \E e \in {x \in Current : Positioned(x)} :
       Proceed(e.kind # "move", r) /\ Inject(warpOf(e), r)
  /\ UNCHANGED <<recording, toggles>>

DispatchAct(r) ==
  /\ pc = "act"
  /\ \E e \in {x \in Current : x.kind # "move"} :
       Proceed(FALSE, r) /\ Inject(actOf(e), r)
  /\ UNCHANGED <<recording, toggles>>

Replay ==
  /\ \/ /\ BeginReplay /\ (recording => Room)
        /\ IF recording THEN UNCHANGED <<down, pointer>> ELSE Found
     \/ /\ Resume
        /\ IF recording THEN UNCHANGED <<down, pointer>> ELSE Forgotten
  /\ UNCHANGED <<now, tapVars, doubtful, unseen, happening, trail>>

Dispatch == \E r \in Outcome : DispatchMove(r) \/ DispatchAct(r)

Next ==
  \/ \E e \in Event, t \in now..MaxTime : UserActs(e, t)
  \/ Push
  \/ PointerJumps
  \/ StartTap \/ StopTap
  \/ Reset \/ Replay
  \/ Wait /\ UNCHANGED worldVars
  \/ Dispatch

Spec == Init /\ [][Next]_vars

-------------------------------------------------------------------------------
(* A recorded event is the event that happened; the tap of macOS may take  *)
(* a press for a release of a modifier that was down when it started, or   *)
(* that was pressed or released twice (MacEventTapBackend.cpp:64).  Here   *)
(* the tap sees every event; what happens while macOS has it disabled is   *)
(* lost on it, and does the same to a modifier.                            *)
RecordedTruth ==
  \A i \in 1..Len(events) :
    inputOf(trail[i].event) \subseteq trail[i].down \union trail[i].up =>
      events[i].event = trail[i].event

(* Events dispatched completely. *)
Dispatched == at - 1

(* After each event of a replay, in order, the inputs the recording knows  *)
(* are down or up as they were then, whatever was down when it began, and  *)
(* a positioned event finds the pointer where it was; so it is also where  *)
(* a replay fails, and at the end of one that succeeds.                    *)
Reproduces ==
  (InReplay /\ ~stray) =>
    /\ Dispatched > 0 =>
         LET then == trail[Dispatched]
         IN then.down \subseteq down /\ then.up \intersect down = {}
    /\ pc = "act" /\ Positioned(events[at].event) => pointer = trail[at].pointer
    /\ pc = "returned" /\ result = "ok" => Dispatched = last
===============================================================================
