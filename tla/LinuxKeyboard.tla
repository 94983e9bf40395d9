---------------------------- MODULE LinuxKeyboard ----------------------------
(***************************************************************************)
(* The keyboard of a session on Linux: the facade over the backend that    *)
(* LinuxBackendFactory.cpp chose.  X11KeyboardBackend.cpp looks a Key up   *)
(* as a keysym and presses the position that bears the keysym in the       *)
(* active layout; UinputBackend.cpp writes a key event and then the        *)
(* SYN_REPORT that makes it visible, and either write may fail.  Here down *)
(* holds positions, each named by the Key that is there on a US layout.    *)
(* Every call looks the position up anew (X11KeyboardBackend.cpp:26); the  *)
(* active layout is taken to stay the same, for any layout.                *)
(***************************************************************************)
EXTENDS Keyboard

CONSTANTS Layout,   \* X11: the position of each key's keysym, where both exist
          EvdevKey  \* uinput: the keys keyToEvdev knows

ASSUME LinuxAssumption ==
  /\ DOMAIN Layout \subseteq Key
  /\ \A k \in DOMAIN Layout : Layout[k] \in Key
  /\ EvdevKey \subseteq Key

VARIABLES
  backend,      \* "x11" or "uinput"
  deviceDown,   \* external: the positions down inside the device, ahead of
                \* down by the events written but not yet reported
  refusedPress   \* history: keys with a refused keyDown, not released since

deviceVars == <<down, deviceDown>>
linuxVars == <<keyboardVars, backend, deviceDown, refusedPress>>

LinuxTypeOK ==
  /\ KeyboardTypeOK
  /\ backend \in {"x11", "uinput"}
  /\ deviceDown \subseteq Key
  /\ refusedPress \subseteq Key

LinuxInit ==
  /\ KeyboardInit
  /\ backend \in {"x11", "uinput"}
  /\ deviceDown = {}
  /\ refusedPress = {}

Mapped(k) == k \in IF backend = "x11" THEN DOMAIN Layout ELSE EvdevKey

(* resolveKeycode, at every call; an evdev code is the position itself.    *)
Position(k) == IF backend = "x11" THEN Layout[k] ELSE k

(* Mutant: a release does not look the position up.                        *)
writeUnresolvedUp(k, isDown) ==
  deviceDown' = IF isDown THEN deviceDown \union {Position(k)} ELSE deviceDown \ {k}

writeKey(k, isDown) ==
  deviceDown' = IF isDown THEN deviceDown \union {Position(k)}
                          ELSE deviceDown \ {Position(k)}
report == down' = deviceDown'

(* XTestFakeKeyEvent and XFlush: nothing of a failure comes back. *)
fakeKeyEvent(k, isDown, r) == r = "ok" /\ writeKey(k, isDown) /\ report

(* writeEvent of the key, then of SYN_REPORT, which reports every event    *)
(* written since the last one, also those of an earlier call.              *)
(* Mutant: the outcome of the second write is not looked at.               *)
emitUnchecked(k, isDown, r) ==
  \/ r = "platformError" /\ UNCHANGED deviceVars
  \/ r = "ok" /\ writeKey(k, isDown) /\ UNCHANGED down
  \/ r = "ok" /\ writeKey(k, isDown) /\ report

emit(k, isDown, r) ==
  \/ r = "platformError" /\ UNCHANGED deviceVars
  \/ r = "platformError" /\ writeKey(k, isDown) /\ UNCHANGED down
  \/ r = "ok" /\ writeKey(k, isDown) /\ report

(* Mutant: a key without a code is passed over in silence.                 *)
sendMappedKey(k, isDown, r) ==
  \/ ~Mapped(k) /\ r = "ok" /\ UNCHANGED deviceVars
  \/ Mapped(k) /\ backend = "x11" /\ fakeKeyEvent(k, isDown, r)
  \/ Mapped(k) /\ backend = "uinput" /\ emit(k, isDown, r)

sendKey(k, isDown, r) ==
  \/ ~Mapped(k) /\ r = "unmappableInput" /\ UNCHANGED deviceVars
  \/ Mapped(k) /\ backend = "x11" /\ fakeKeyEvent(k, isDown, r)
  \/ Mapped(k) /\ backend = "uinput" /\ emit(k, isDown, r)

linuxKeyDown(k, r) ==
  /\ sendKey(k, TRUE, r)
  /\ refusedPress' = IF r = "platformError" THEN refusedPress \union {k} ELSE refusedPress

linuxKeyUp(k, r) ==
  /\ sendKey(k, FALSE, r)
  /\ refusedPress' = IF r = "ok" THEN refusedPress \ {k} ELSE refusedPress

LinuxNext ==
  /\ \/ \E k \in Key, r \in Outcome : FacadeDown(k, r) /\ linuxKeyDown(k, r)
     \/ \E k \in Key, r \in Outcome : FacadeUp(k, r) /\ linuxKeyUp(k, r)
     \/ FacadeLocal /\ UNCHANGED <<deviceVars, refusedPress>>
  /\ Note
  /\ UNCHANGED backend

LinuxSpec == LinuxInit /\ [][LinuxNext]_linuxVars

-------------------------------------------------------------------------------
(* A position that stays down bears a key the caller holds, or one named   *)
(* in an error the caller got: a half-written event is never silent, and   *)
(* two keys on one position leave nothing behind.                          *)
StuckKeyWasRefused ==
  pc = "idle" =>
    \A p \in down \union deviceDown :
      \E k \in caller \union refusedUp \union refusedPress : Mapped(k) /\ Position(k) = p

(* After a call that answered ok the device owes the applications nothing: *)
(* what it holds is what it has reported.                                  *)
OkMeansReported == (pc = "idle" /\ result = "ok") => down = deviceDown

(* The main key of a chord arrives with all the chord's modifiers down,    *)
(* each at its position.                                                   *)
ChordPositions ==
  pc = "keyUp" => \A k \in TapKeys(tap) : Mapped(k) /\ Position(k) \in down
===============================================================================
