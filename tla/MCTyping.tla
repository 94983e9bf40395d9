------------------------------- MODULE MCTyping -------------------------------
(* Two sessions.  The decoder, the same on all platforms, is run on uinput,  *)
(* which types nothing, with every string of up to four of the bytes that    *)
(* the standard's table 3-7 tells apart; the other platforms type            *)
(* strings of one, two and three units, and malformed ones; single           *)
(* characters are U+0000, a capital, one of two units, and two values that   *)
(* are no scalars.  The X server is one with a keycode 1.                    *)
EXTENDS Typing

CONSTANTS a, b

MCSession == {a, b}
Boundary == {\h41, \h7F, \h80, \h8F, \h90, \h9F, \hA0, \hBF,
             \hC1, \hC2, \hE0, \hED, \hF0, \hF4, \hF5}

Letter == <<\h61>>
Eacute == <<\hC3, \hA9>>
Smile == <<\hF0, \h9F, \h99, \h82>>
Cut == <<\h61, \hC3>>

MCTexts == [windows |-> {Letter \o Smile, Cut}, macos |-> {Letter \o Smile, Cut},
            x11 |-> {Letter \o Eacute, Cut}, uinput |-> BoundedSeq(Boundary, 4)]
MCChars == {0, \h42, \h1F600, \hD800, \h110000}
MCLower == (\h41 :> \h61) @@ (\h42 :> \h62)   \* A and B
MCCalls == [windows |-> 2, macos |-> 2, x11 |-> 2, uinput |-> 1]
Symmetric == Permutations(MCSession)
===============================================================================
