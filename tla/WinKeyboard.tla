----------------------------- MODULE WinKeyboard -----------------------------
(***************************************************************************)
(* The keyboard of a session on Windows: the facade over                   *)
(* WinKeyboardBackend.cpp, which keeps no state.  A mapped key goes to     *)
(* SendInput, which inserts the event or, while input is blocked, inserts  *)
(* nothing and is reported.                                                *)
(***************************************************************************)
EXTENDS Keyboard

CONSTANT ScanCodeKey   \* the keys of the scan code table

ASSUME ScanCodeAssumption == ScanCodeKey \subseteq Key

sendScanCode(k, isDown, r) ==
  \/ r = "ok" /\ Deliver(k, isDown)
  \/ r = "platformError" /\ UNCHANGED down

(* keyToScanCode finds the key in its table. *)
HasScanCode(k) == k \in ScanCodeKey

winSendKey(k, isDown, r) ==
  IF HasScanCode(k)
  THEN sendScanCode(k, isDown, r)
  ELSE r = "unmappableInput" /\ UNCHANGED down

winKeyDown(k, r) == winSendKey(k, TRUE, r)
winKeyUp(k, r) == winSendKey(k, FALSE, r)

WinNext ==
  \/ \E k \in Key, r \in Outcome : FacadeDown(k, r) /\ winKeyDown(k, r) /\ Note
  \/ \E k \in Key, r \in Outcome : FacadeUp(k, r) /\ winKeyUp(k, r) /\ Note
  \/ FacadeLocal /\ UNCHANGED down /\ Note

(* The calling thread runs a call it has made to the end. *)
WinSpec == KeyboardInit /\ [][WinNext]_keyboardVars /\ WF_keyboardVars(pc # "idle" /\ WinNext)
===============================================================================
