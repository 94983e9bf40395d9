---------------------------- MODULE MCMacKeyboard ----------------------------
(* Both Shift keys, which share a flag, one more modifier and a plain key;   *)
(* F24 has no Mac keycode.                                                   *)
EXTENDS MacKeyboard

MCKey == {"LeftShift", "RightShift", "LeftControl", "F24"}
MCChords == {{}, {"Shift"}, {"Control", "Shift"}}
MCKeycodeKey == MCKey \ {"F24"}
===============================================================================
