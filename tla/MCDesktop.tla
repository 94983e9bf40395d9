------------------------------- MODULE MCDesktop -------------------------------
(* Desks of two displays of one density and of two or three of several, one  *)
(* of them at a negative origin.  A logical unit is 6 quanta, so a pixel is  *)
(* 6, 4 or 3 of them at 100%, 150% and 200%.  A display of Windows is so     *)
(* wide that a 16-bit fraction of it may stand for the pixel before.         *)
EXTENDS Desktop

MCUnit == 6

V(a, b) == [c \in Axis |-> IF c = "x" THEN a ELSE b]
D(name, x, y, w, h, grain, main) ==
  [name |-> name, bounds |-> Rect(V(x, y), V(w, h)), grain |-> grain, main |-> main]

(* On the mixed macOS desk the second and the third display have the same    *)
(* device pixels: one of 12 x 6 quanta at 200% and one of 24 x 12 at 100%.   *)
MCDesks ==
  [windows |-> {<<D(1, 0, 0, 6, 3, 4, TRUE), D(2, -6, 0, 6, 3, 4, FALSE)>>,
                <<D(2, 6, 0, 6, 3, 4, FALSE), D(1, 0, 0, 6, 3, 6, TRUE)>>,
                <<D(1, 0, 0, 1100, 3, 4, TRUE), D(3, -1, 3, 5, 3, 4, FALSE)>>},
   macos |-> {<<D(4, -12, 0, 12, 6, 3, FALSE), D(7, 0, 0, 12, 6, 3, TRUE)>>,
              <<D(7, 0, 0, 12, 6, 6, TRUE), D(4, 12, 0, 12, 6, 3, FALSE),
                D(5, 24, 0, 24, 12, 6, FALSE)>>},
   linux |-> {<<D(1, 0, 0, 4, 2, 6, FALSE), D(2, 4, 0, 6, 3, 6, TRUE)>>,
              <<D(2, 0, 0, 6, 3, 6, FALSE), D(1, 6, 0, 4, 2, 6, FALSE)>>}]

R(x, y, w, h) == Rect(V(x, y), V(w, h))
MCRegions ==
  [windows |-> {R(0, 0, 6, 3), R(-2, 1, 4, 1), R(0, 0, 0, 3)},
   macos   |-> {R(4, 0, 4, 2), R(-1, 0, 3, 1), R(0, 0, 1, -1)},
   x11     |-> {R(2, 1, 4, 1), R(-1, 0, 2, 2)},
   uinput  |-> {R(0, 0, 1, 1)}]

Grid(xs, ys) == {V(x, y) : x \in xs, y \in ys}
MCPoints ==
  [windows |-> Grid({-24, -1, 0, 2, 21, 22, 24, 35, 36, 47, 48}, {0, 10, 11, 12}),
   macos   |-> Grid({-12, -1, 0, 11, 30}, {0, 7}),
   x11     |-> Grid({-3, 0, 23, 33, 59}, {0, 15}),
   uinput  |-> {V(0, 0)}]
MCCalls == 2
MCReplugs == 1
===============================================================================
