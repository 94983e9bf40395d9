--------------------------- MODULE MCLinuxKeyboard ---------------------------
(* A modifier, two keys whose keysyms an AZERTY layout has on one position,  *)
(* and F24, which neither X11 nor uinput maps.                               *)
EXTENDS LinuxKeyboard

MCKey == {"LeftShift", "Digit4", "Quote", "F24"}
MCChords == {{}, {"Shift"}}
MCEvdevKey == MCKey \ {"F24"}
MCLayout == [k \in MCKey \ {"F24"} |-> IF k = "Quote" THEN "Digit4" ELSE k]
===============================================================================
