------------------------------- MODULE Keyboard -------------------------------
(***************************************************************************)
(* The portable Keyboard facade (src/common/Keyboard.cpp): press, release  *)
(* and tap, cut at the calls the facade makes to its IKeyboardBackend.     *)
(* Every step of this module that makes such a call takes the key and the  *)
(* outcome r the backend answers with; a composing module conjoins the     *)
(* step with the backend's own keyDown or keyUp, so that one step of the   *)
(* composition is one backend call.  The properties a session's keyboard   *)
(* should have, whatever the backend, are stated at the end.               *)
(***************************************************************************)
EXTENDS Naturals, Sequences

CONSTANTS Key,     \* the physical keys callers name
          Chords   \* the Modifiers arguments callers pass to tap

(* The order in which tap applies the modifiers it is given. *)
Order == <<"Control", "Alt", "Shift", "Meta", "CapsLock">>

Modifier == {Order[i] : i \in 1..Len(Order)}

(* The physical key that realizes a logical modifier: left variants. *)
modifierToKey == [Shift    |-> "LeftShift", Control |-> "LeftControl",
                  Alt      |-> "LeftAlt",   Meta    |-> "LeftMeta",
                  CapsLock |-> "CapsLock"]

ModifierKeys(mods) == {modifierToKey[m] : m \in mods}

ASSUME ChordsAssumption ==
  /\ Chords \subseteq SUBSET Modifier
  /\ \A mods \in Chords : ModifierKeys(mods) \subseteq Key

(* What a backend call, and in the end an API call, may answer. *)
Outcome == {"ok", "unmappableInput", "platformError"}

VARIABLES
  pc,       \* where tap is: "idle" between API calls, else the next phase
  tap,      \* the arguments of the last tap
  next,     \* the loop index over Order
  pressed,  \* the local vector of modifier keys tap has to release
  result,   \* what the last API call returned, or the result built so far
  \* History of the calls, read by properties only:
  caller,   \* keys the caller holds by press() and has not released
  refusedUp, \* keys whose last keyUp failed
  before,   \* the keys down and the last answer when the API call began
  \* The environment, driven by the backend:
  down      \* external: the keys the applications see as down

facadeVars == <<pc, tap, next, pressed, result, caller, refusedUp>>
keyboardVars == <<facadeVars, before, down>>

(* The keys a tap may touch. *)
TapKeys(t) == {t.key} \union ModifierKeys(t.mods)

KeyboardTypeOK ==
  /\ pc \in {"idle", "modifiers", "keyUp", "unwind"}
  /\ tap \in [key : Key, mods : Chords]
  /\ next \in 1..(Len(Order) + 1)
  /\ pressed \in Seq(Key)
  /\ result \in Outcome
  /\ caller \subseteq Key
  /\ refusedUp \subseteq Key
  /\ before \in [down : SUBSET Key, result : Outcome]
  /\ down \subseteq Key

KeyboardInit ==
  /\ pc = "idle"
  /\ tap \in [key : Key, mods : Chords]
  /\ next = 1
  /\ pressed = <<>>
  /\ result = "ok"
  /\ caller = {}
  /\ refusedUp = {}
  /\ before = [down |-> {}, result |-> "ok"]
  /\ down = {}

(* The history of one backend keyUp of k answered with r. *)
NoteUp(k, r) ==
  refusedUp' = IF r = "ok" THEN refusedUp \ {k} ELSE refusedUp \union {k}

(***************************************************************************)
(* press(k) and release(k): one backend call each.                         *)
(***************************************************************************)
Press(k, r) ==
  /\ pc = "idle"
  /\ result' = r
  /\ caller' = IF r = "ok" THEN caller \union {k} ELSE caller
  /\ UNCHANGED <<pc, tap, next, pressed, refusedUp>>

Release(k, r) ==
  /\ pc = "idle"
  /\ result' = r
  /\ caller' = IF r = "ok" THEN caller \ {k} ELSE caller
  /\ NoteUp(k, r)
  /\ UNCHANGED <<pc, tap, next, pressed>>

(***************************************************************************)
(* tap(k, mods): the modifiers in order, the key down and up, then the     *)
(* modifiers again in reverse.                                             *)
(***************************************************************************)
BeginTap(k, mods) ==
  /\ pc = "idle"
  /\ pc' = "modifiers"
  /\ tap' = [key |-> k, mods |-> mods]
  /\ next' = 1
  /\ pressed' = <<>>
  /\ result' = "ok"
  /\ UNCHANGED <<caller, refusedUp>>

(* The requested modifiers the loop has not reached.                       *)
(* Mutant: the loop skips the entry it is at.                              *)
WantedLate == {i \in (next + 1)..Len(Order) : Order[i] \in tap.mods}
Wanted == {i \in next..Len(Order) : Order[i] \in tap.mods}

(* A refused modifier sends tap to the release of those already pressed,   *)
(* whose own errors are discarded; unlike result, nothing marks the refused *)
(* key as one to release.                                                   *)
PressModifier(k, r) ==
  /\ pc = "modifiers"
  /\ \E i \in Wanted :
       /\ \A j \in Wanted : i <= j
       /\ k = modifierToKey[Order[i]]
       /\ next' = IF r = "ok" THEN i + 1 ELSE next
  /\ pressed' = IF r = "ok" THEN Append(pressed, k) ELSE pressed
  /\ pc' = IF r = "ok" THEN "modifiers" ELSE "unwind"
  /\ result' = r
  /\ UNCHANGED <<tap, caller, refusedUp>>

(* Mutant: a refused key is tried again.                                   *)
PressKeyRetries(k, r) ==
  /\ pc = "modifiers"
  /\ Wanted = {}
  /\ k = tap.key
  /\ pc' = IF r = "ok" THEN "keyUp" ELSE "modifiers"
  /\ result' = r
  /\ UNCHANGED <<tap, next, pressed, caller, refusedUp>>

PressKey(k, r) ==
  /\ pc = "modifiers"
  /\ Wanted = {}
  /\ k = tap.key
  /\ pc' = IF r = "ok" THEN "keyUp" ELSE "unwind"
  /\ result' = r
  /\ UNCHANGED <<tap, next, pressed, caller, refusedUp>>

ReleaseKey(k, r) ==
  /\ pc = "keyUp"
  /\ k = tap.key
  /\ pc' = "unwind"
  /\ result' = r
  /\ NoteUp(k, r)
  /\ UNCHANGED <<tap, next, pressed, caller>>

(* The first error stands: a later one never replaces it.                  *)
(* Mutants: the last answer stands; an error of a release is lost.         *)
lastAnswer(r) == r
lostError(r) == result
firstError(r) == IF result = "ok" THEN r ELSE result

(* Mutant: the modifiers come up in the order they went down.              *)
ReleaseModifierForward(k, r) ==
  /\ pc = "unwind"
  /\ pressed # <<>>
  /\ k = pressed[1]
  /\ pressed' = Tail(pressed)
  /\ result' = firstError(r)
  /\ NoteUp(k, r)
  /\ UNCHANGED <<pc, tap, next, caller>>

ReleaseModifier(k, r) ==
  /\ pc = "unwind"
  /\ pressed # <<>>
  /\ k = pressed[Len(pressed)]
  /\ pressed' = SubSeq(pressed, 1, Len(pressed) - 1)
  /\ result' = firstError(r)
  /\ NoteUp(k, r)
  /\ UNCHANGED <<pc, tap, next, caller>>

(* Mutant: tap returns before the modifiers are released.                  *)
EndTapEarly ==
  /\ pc = "unwind"
  /\ pc' = "idle"
  /\ UNCHANGED <<tap, next, pressed, result, caller, refusedUp>>

EndTap ==
  /\ pc = "unwind"
  /\ pressed = <<>>
  /\ pc' = "idle"
  /\ UNCHANGED <<tap, next, pressed, result, caller, refusedUp>>

(* The steps that call the backend's keyDown, and those that call keyUp. *)
FacadeDown(k, r) == Press(k, r) \/ PressModifier(k, r) \/ PressKey(k, r)
FacadeUp(k, r) == Release(k, r) \/ ReleaseKey(k, r) \/ ReleaseModifier(k, r)

(* The steps that call no backend. *)
FacadeLocal == EndTap \/ \E k \in Key, mods \in Chords : BeginTap(k, mods)

(* The atomic device every caller of the facade has in mind: an event is   *)
(* delivered, or it is refused and nothing has changed.                    *)
Deliver(k, isDown) == down' = IF isDown THEN down \union {k} ELSE down \ {k}
Device(k, isDown, r) == IF r = "ok" THEN Deliver(k, isDown) ELSE UNCHANGED down

(* The history of the API calls, part of every step. *)
Note ==
  before' = IF pc' = "idle" THEN [down |-> down', result |-> result'] ELSE before

-------------------------------------------------------------------------------
(* Between API calls, a key is down only if the caller pressed it or       *)
(* its last release failed: whatever else fails inside tap, "already-      *)
(* pressed keys are released so no modifier is left stuck"                 *)
(* (Keyboard.cpp:118).                                                     *)
NoStuckKey == pc = "idle" => down \subseteq caller \union refusedUp

(* When the main key of a chord is down, so is every modifier of the       *)
(* chord: an application never sees a plain C for tap(C, Control).         *)
ChordComplete == pc = "keyUp" => TapKeys(tap) \subseteq down

(* A tap answers ok only if none of its keys is left down: an error of any *)
(* of its calls, however late, is not lost.                                *)
OkMeansReleased ==
  [][(pc = "unwind" /\ pc' = "idle" /\ result' = "ok") =>
        TapKeys(tap) \intersect down' = {}]_keyboardVars

(* The keys tap pressed come up in the reverse of the order they went      *)
(* down: while tap runs, the modifiers it has added are down without a gap *)
(* in Order.  Keys that were down already, whose release was refused,  *)
(* or that are also the main key follow their own course.                  *)
NestedChord ==
  pc # "idle" =>
    LET own == ModifierKeys(tap.mods) \ (before.down \union refusedUp \union {tap.key}) IN
    \A i, j \in 1..Len(Order) :
      LET low == modifierToKey[Order[i]]
          high == modifierToKey[Order[j]]
      IN  (i < j /\ low \in own /\ high \in own /\ high \in down) => low \in down

(* Every call returns. *)
CallReturns == (pc # "idle") ~> (pc = "idle")

-------------------------------------------------------------------------------
(* To the contract a whole tap is one step: it sees the keys and the       *)
(* answer as they are between API calls.                                   *)
Contract == INSTANCE KeyboardContract WITH
  held <- before.down,
  status <- IF before.result = "ok" THEN "ok" ELSE "error"

ImplementsContract == Contract!ContractSpec
===============================================================================
