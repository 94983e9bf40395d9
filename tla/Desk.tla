--------------------------------- MODULE Desk ---------------------------------
(***************************************************************************)
(* The desk: the displays the operating system has, which the user may     *)
(* replug at any moment, and what each backend makes of one of them.  A    *)
(* display's bounds are in the units its system reports: device pixels on  *)
(* Windows and X11, points on macOS.                                       *)
(***************************************************************************)
EXTENDS Session, Geometry, Sequences, SequencesExt

VARIABLES
  desk,     \* external: the displays, in the order the system lists them
  steady    \* history: the facades, "screen" and "pointer", whose last call
            \* began after the last change of the desk

deskVars == <<desk, steady>>

(* A name is a handle of the system's, and 0 is that of none. *)
Display == [name : Nat \ {0}, grain : Nat \ {0}, main : BOOLEAN,
            bounds : [origin : Vector, size : [Axis -> Nat \ {0}]]]

Displays == ToSet(desk)
Names == [i \in 1..Len(desk) |-> desk[i].name]

(* Device pixels are one size all over the desk. *)
Uniform == \A d, e \in Displays : d.grain = e.grain

(* What macOS answers of a display that is gone. *)
Gone(name) == LET zero == [a \in Axis |-> 0]
              IN [name |-> name, bounds |-> Rect(zero, zero), grain |-> Unit, main |-> FALSE]

(* The Monitor of a display that is the n-th found.  X11 has no scale but  *)
(* 1.0; macOS starts from points and has ids of its own.                   *)
Entry(d, id, grain, physical, logical) ==
  [id |-> id, isPrimary |-> d.main, grain |-> grain,
   physicalBounds |-> physical, logicalBounds |-> logical]

WinMonitor(d, n) == Entry(d, n, d.grain, d.bounds, RectToLogical(d.bounds, d.grain))
X11Monitor(d, n) == Entry(d, n, Unit, d.bounds, RectToLogical(d.bounds, Unit))
MacMonitor(d) == Entry(d, d.name, d.grain, RectToPhysical(d.bounds, d.grain), d.bounds)

Monitor(d, n) == CASE backend = "windows" -> WinMonitor(d, n)
                   [] backend = "x11"     -> X11Monitor(d, n)
                   [] backend = "macos"   -> MacMonitor(d)
==============================================================================
