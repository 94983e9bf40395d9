--------------------------- MODULE KeyboardContract ---------------------------
(***************************************************************************)
(* What Keyboard.h promises a caller, one step per API call: a call that   *)
(* succeeds has its whole effect, and a call that fails leaves every key   *)
(* it did not name as it was.                                              *)
(***************************************************************************)
CONSTANTS Key, Chords, ModifierKeys(_)

VARIABLES held,    \* the keys that are down for the applications
          status   \* how the last call ended: "ok" or "error"

contractVars == <<held, status>>

ContractInit == held = {} /\ status = "ok"

PressCall(k) ==
  \/ status' = "ok" /\ held' = held \union {k}
  \/ status' = "error" /\ held' = held

ReleaseCall(k) ==
  \/ status' = "ok" /\ held' = held \ {k}
  \/ status' = "error" /\ held' = held

(* "Press key (optionally with modifiers held), then release everything":  *)
(* a successful tap leaves none of its keys down, also not one the caller  *)
(* held before.  A failed tap has touched no key but its own.              *)
TapCall(k, mods) ==
  LET chord == {k} \union ModifierKeys(mods) IN
  \/ status' = "ok" /\ held' = held \ chord
  \/ /\ status' = "error"
     /\ \E left \in SUBSET chord : held' = (held \ chord) \union left

ContractNext ==
  \/ \E k \in Key : PressCall(k) \/ ReleaseCall(k)
  \/ \E k \in Key, mods \in Chords : TapCall(k, mods)

ContractSpec == ContractInit /\ [][ContractNext]_contractVars
===============================================================================
