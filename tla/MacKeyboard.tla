----------------------------- MODULE MacKeyboard -----------------------------
(***************************************************************************)
(* The keyboard of a session on macOS: the facade over                     *)
(* MacKeyboardBackend.cpp, which keeps the modifier keys it believes held  *)
(* and stamps their flags on every event it posts.                         *)
(***************************************************************************)
EXTENDS Keyboard

CONSTANT KeycodeKey   \* the keys of the keycode table

ASSUME KeycodeAssumption == KeycodeKey \subseteq Key

VARIABLES
  heldModifiers,  \* the backend's set of held modifier keys
  eventFlags,     \* external: the flags of the last event posted
  refusedDown     \* history: keys with a failed keyDown and no keyUp since

macVars == <<keyboardVars, heldModifiers, eventFlags, refusedDown>>

FlagOf == [LeftShift   |-> "shift",     RightShift   |-> "shift",
           LeftControl |-> "control",   RightControl |-> "control",
           LeftAlt     |-> "alternate", RightAlt     |-> "alternate",
           LeftMeta    |-> "command",   RightMeta    |-> "command",
           CapsLock    |-> "alphaShift"]

isModifierKey(k) == k \in DOMAIN FlagOf

(* The flags of a set of keys: left and right of a pair share one flag.    *)
(* Mutant: each key's flag is assigned instead of added.                   *)
oneModifierFlag(keys) ==
  LET flags == {FlagOf[k] : k \in {x \in keys : isModifierKey(x)}}
  IN  IF flags = {} THEN {} ELSE {CHOOSE f \in flags : TRUE}
macModifierFlags(keys) == {FlagOf[k] : k \in {x \in keys : isModifierKey(x)}}

MacTypeOK ==
  /\ KeyboardTypeOK
  /\ heldModifiers \subseteq {k \in Key : isModifierKey(k)}
  /\ eventFlags \subseteq {FlagOf[k] : k \in DOMAIN FlagOf}
  /\ refusedDown \subseteq Key

MacInit ==
  /\ KeyboardInit
  /\ heldModifiers = {}
  /\ eventFlags = {}
  /\ refusedDown = {}

(* Mutants: a release is not recorded; a release is taken for both keys of *)
(* its pair.                                                               *)
trackPresses(k, isDown) ==
  heldModifiers' = IF isDown /\ isModifierKey(k) THEN heldModifiers \union {k}
                                                 ELSE heldModifiers
trackPairs(k, isDown) ==
  LET changed == {x \in {k} : isModifierKey(x)} IN
  heldModifiers' = IF isDown THEN heldModifiers \union changed
                   ELSE {h \in heldModifiers : FlagOf[h] \notin macModifierFlags({k})}

trackModifier(k, isDown) ==
  LET changed == {x \in {k} : isModifierKey(x)} IN
  heldModifiers' = IF isDown THEN heldModifiers \union changed
                             ELSE heldModifiers \ changed

(* keyToMacKeycode finds the key in its table. *)
HasKeycode(k) == k \in KeycodeKey

(* The held set changes before the event is created, so that the event     *)
(* carries its own flag; it stays changed when the creation fails.         *)
postKey(k, isDown, r) ==
  \/ /\ ~HasKeycode(k)
     /\ r = "unmappableInput"
     /\ UNCHANGED <<heldModifiers, eventFlags, down>>
  \/ /\ HasKeycode(k)
     /\ trackModifier(k, isDown)
     /\ \/ /\ r = "ok"
           /\ eventFlags' = macModifierFlags(heldModifiers')
           /\ Deliver(k, isDown)
        \/ /\ r = "platformError"               \* no event could be created
           /\ UNCHANGED <<eventFlags, down>>

macKeyDown(k, r) ==
  /\ postKey(k, TRUE, r)
  /\ refusedDown' = IF r = "platformError" THEN refusedDown \union {k} ELSE refusedDown

macKeyUp(k, r) ==
  /\ postKey(k, FALSE, r)
  /\ refusedDown' = IF HasKeycode(k) THEN refusedDown \ {k} ELSE refusedDown

MacNext ==
  \/ \E k \in Key, r \in Outcome : FacadeDown(k, r) /\ macKeyDown(k, r) /\ Note
  \/ \E k \in Key, r \in Outcome : FacadeUp(k, r) /\ macKeyUp(k, r) /\ Note
  \/ FacadeLocal /\ UNCHANGED <<heldModifiers, eventFlags, refusedDown, down>> /\ Note

MacSpec == MacInit /\ [][MacNext]_macVars

-------------------------------------------------------------------------------
(* Once every key whose event could not be created has been released,      *)
(* events carry again exactly the flags of the modifier keys that are down *)
(* when they arrive, of both sides (IKeyboardBackend.h: "reflect them on   *)
(* every subsequent synthesized event").                                   *)
FlagsReflectDown ==
  refusedDown \union refusedUp \subseteq Key \ KeycodeKey =>
    eventFlags = macModifierFlags(down)

(* Even when creations fail, the main key of a chord never arrives without *)
(* the chord's flags, "'c' where 'Command-c' was intended".                *)
ChordFlags == pc = "keyUp" => macModifierFlags(TapKeys(tap)) \subseteq eventFlags

(* Between API calls the backend believes a modifier held only if the      *)
(* caller pressed it or a press of it failed and it was not released since: *)
(* no other path leaves a flag behind.                                     *)
GhostOnlyAfterRefusal == pc = "idle" => heldModifiers \subseteq caller \union refusedDown
===============================================================================
