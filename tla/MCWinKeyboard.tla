---------------------------- MODULE MCWinKeyboard ----------------------------
(* Three modifier keys, one of them also a main key, and F24, which Windows  *)
(* does not map; chords of no, one and three modifiers.                      *)
EXTENDS WinKeyboard

MCKey == {"LeftControl", "LeftShift", "CapsLock", "F24"}
MCChords == {{}, {"Shift"}, {"Control", "Shift", "CapsLock"}}
MCScanCodeKey == MCKey \ {"F24"}
===============================================================================
