-------------------------------- MODULE Pointer --------------------------------
(***************************************************************************)
(* Where the cursor goes: warpCursor and cursorPosition of the mouse       *)
(* backends over a desk of several densities, and the position the Windows *)
(* event tap records.  The cursor is where the system has it, in device    *)
(* pixels on Windows and X11 and in points on macOS.                       *)
(***************************************************************************)
EXTENDS Desk

CONSTANT Points  \* backend -> the logical points callers move to
ASSUME PointsAssumption == \A b \in Backend : Points[b] \subseteq Vector

VARIABLES
  cursor,   \* external: the position of the cursor
  ppc,      \* where the call is: "idle", "map", "send" or "read"
  call,     \* its name, and the logical point of a warp
  metrics,  \* Windows: the virtual screen the warp started from
  pixel,    \* Windows: the device pixel to warp to, or the one that was read
  reply     \* what the last call returned

pointerVars == <<cursor, ppc, call, metrics, pixel, reply>>

Origin == [a \in Axis |-> 0]
Reply(error, value) == [error |-> error, value |-> value]

PointerInit ==
  /\ cursor = Origin
  /\ ppc = "idle"
  /\ call = [name |-> "cursorPosition", point |-> Origin]
  /\ metrics = Rect(Origin, Origin)
  /\ pixel = Origin
  /\ reply = Reply("platformError", Origin)

ReplyWith(error, value) ==
  ppc' = "idle" /\ reply' = Reply(error, value)

(* The system keeps the cursor on a display, the nearest one.              *)
Onto(d, p) ==
  [a \in Axis |-> Max({d.bounds.origin[a],
                       Min({p[a], d.bounds.origin[a] + d.bounds.size[a] - 1})})]
Distance(p, q) == LET apart(a) == Max({p[a] - q[a], q[a] - p[a]})
                  IN apart("x") + apart("y")
Settle(p, displays) ==
  \E d \in displays :
    /\ \A e \in displays : Distance(Onto(d, p), p) <= Distance(Onto(e, p), p)
    /\ cursor' = Onto(d, p)

VirtualScreen == Bounds({d.bounds : d \in Displays})

-----------------------------------------------------------------------------
(* Windows.  toPhysicalPoint takes the first monitor whose logical bounds  *)
(* have the point, toLogicalPoint the one whose pixels do.                 *)
LogicalHits(l) ==
  {i \in 1..Len(desk) : contains(RectToLogical(desk[i].bounds, desk[i].grain), l)}
PhysicalHits(p) == {i \in 1..Len(desk) : contains(desk[i].bounds, p)}
FirstGrain(hits) == desk[Min(hits)].grain

(* The virtual screen as the warp finds it, too small or not, ...          *)
WinWarp(l) ==
  /\ backend = "windows"
  /\ call' = [name |-> "warpCursor", point |-> l]
  /\ IF \E a \in Axis : VirtualScreen.size[a] <= 1
     THEN ReplyWith("platformError", l) /\ UNCHANGED metrics
     ELSE ppc' = "map" /\ metrics' = VirtualScreen /\ UNCHANGED reply
  /\ UNCHANGED <<cursor, pixel>>

(* ... the pixel of the point, if it is on a monitor, ...                  *)
WinMap ==
  /\ ppc = "map"
  /\ LET hits == LogicalHits(call.point)
     IN IF hits = {}
        THEN ReplyWith("invalidArgument", call.point) /\ UNCHANGED pixel
        ELSE /\ pixel' = toPhysical(call.point, FirstGrain(hits))
             /\ ppc' = "send"
             /\ UNCHANGED reply
  /\ UNCHANGED <<cursor, call, metrics>>

(* ... as a 16-bit fraction of the virtual screen, which SendInput turns   *)
(* into a pixel of the one there is by then, rounded one way or the other. *)
(* Mutant: the origin of the virtual screen is taken for 0.                *)
NormalizedFromZero(p, a) == lround(p[a] * 65535, metrics.size[a] - 1)
Normalized(p, a) == lround((p[a] - metrics.origin[a]) * 65535, metrics.size[a] - 1)

WinSend ==
  /\ ppc = "send"
  /\ LET n == [a \in Axis |-> Normalized(pixel, a)]
         floor == [a \in Axis |-> VirtualScreen.origin[a]
                                  + ((n[a] * VirtualScreen.size[a]) \div 65536)]
         nearest == [a \in Axis |-> VirtualScreen.origin[a]
                                    + lround(n[a] * (VirtualScreen.size[a] - 1), 65535)]
     IN \/ (Settle(floor, Displays) \/ Settle(nearest, Displays)) /\ ReplyWith("ok", call.point)
        \/ UNCHANGED cursor /\ ReplyWith("platformError", call.point)
  /\ UNCHANGED <<call, metrics, pixel>>

(* cursorPosition reads the pixel first and then looks for its monitor.    *)
WinRead ==
  /\ backend = "windows"
  /\ call' = [name |-> "cursorPosition", point |-> Origin]
  /\ \/ pixel' = cursor /\ ppc' = "read" /\ UNCHANGED reply
     \/ ReplyWith("platformError", Origin) /\ UNCHANGED pixel
  /\ UNCHANGED <<cursor, metrics>>

WinReadMap ==
  /\ ppc = "read"
  /\ LET hits == PhysicalHits(pixel)
     IN IF hits = {} THEN ReplyWith("platformError", pixel)
        ELSE ReplyWith("ok", toLogical(pixel, FirstGrain(hits)))
  /\ UNCHANGED <<cursor, call, metrics, pixel>>

(* What the Windows hook makes of a position: the density is the system's, *)
(* taken for that of the monitor that is the primary one now (Windows sets *)
(* it when the user signs in).                                             *)
(* Mutant: every desk is at 100%.                                          *)
RecordedPlain(p) == toLogical(p, Unit)
Recorded(p) == toLogical(p, (CHOOSE d \in Displays : d.main).grain)

-----------------------------------------------------------------------------
(* X11: a logical unit is a pixel.  macOS: it is a point.  uinput: neither *)
(* call is supported.                                                      *)
WarpAt(l) ==
  /\ call' = [name |-> "warpCursor", point |-> l]
  /\ \/ backend = "x11" /\ Settle(toPhysical(l, Unit), Displays) /\ ReplyWith("ok", l)
     \/ backend = "macos" /\ granted.input /\ Settle(l, Displays) /\ ReplyWith("ok", l)
     \/ backend = "macos" /\ ~granted.input /\ UNCHANGED cursor /\ ReplyWith("ok", l)
     \/ backend = "macos" /\ UNCHANGED cursor /\ ReplyWith("platformError", l)
     \/ backend = "uinput" /\ UNCHANGED cursor /\ ReplyWith("unsupported", l)
  /\ UNCHANGED <<metrics, pixel>>

ReadAt ==
  /\ call' = [name |-> "cursorPosition", point |-> Origin]
  /\ \/ backend = "x11" /\ ReplyWith("ok", toLogical(cursor, Unit))
     \/ backend = "macos" /\ ReplyWith("ok", cursor)
     \/ backend \in {"x11", "macos"} /\ ReplyWith("platformError", Origin)
     \/ backend = "uinput" /\ ReplyWith("unsupported", Origin)
  /\ UNCHANGED <<cursor, metrics, pixel>>

PointerCall ==
  /\ ppc = "idle"
  /\ \/ \E l \in Points[backend] : WinWarp(l) \/ WarpAt(l)
     \/ WinRead \/ ReadAt

PointerStep == WinMap \/ WinSend \/ WinReadMap

-------------------------------------------------------------------------------
(* On a desk of one density a warp to a point on it is not refused as       *)
(* misplaced, and one that succeeds leaves the cursor as near to the point  *)
(* as the roundings of its backend allow, if it is on the display that      *)
(* shows the point.  A pixel rounded over an edge may be on, or nearer to,  *)
(* another display: then it is two pixels more at most.  All this if no     *)
(* display was replugged meanwhile, the flag canWarpCursor holds and, on    *)
(* Windows, the fractions are no fewer than the pixels.                     *)
Grain == CASE backend = "windows" -> desk[1].grain
           [] backend = "macos"   -> 1
           [] OTHER               -> Unit
Showing(l) == {d \in Displays : contains(RectToLogical(d.bounds, Grain), l)}
Addressable == backend = "windows" => \A a \in Axis : VirtualScreen.size[a] <= 65536

(* Halves of a pixel: Windows rounds half of one and then a whole one; X11 *)
(* rounds half of one, perhaps to the one beside the edge, from where it   *)
(* takes another half; macOS takes points as they are.                     *)
Roundings == CASE backend = "windows" -> 3 [] backend = "macos" -> 0 [] OTHER -> 2
Near(p, l, halves) ==
  \A a \in Axis : /\ 2 * (p[a] * Grain - l[a]) <= halves * Grain
                  /\ 2 * (l[a] - p[a] * Grain) <= halves * Grain
Lands(p, l) ==
  IF \E d \in Showing(l) : contains(d.bounds, p) THEN Near(p, l, Roundings)
  ELSE Near(p, l, Roundings + 4)

WarpLands ==
  /\ ppc = "idle" /\ call.name = "warpCursor" /\ Showing(call.point) # {}
  /\ "pointer" \in steady /\ Uniform /\ Addressable
  /\ "canWarpCursor" \in caps /\ ~changed
  => /\ reply.error # "invalidArgument"
     /\ reply.error = "ok" => Lands(cursor, call.point)

(* The pixels a warp to l aims at: one, or none if no monitor has l. *)
Aim(l) == LET hits == LogicalHits(l)
          IN IF hits = {} THEN {} ELSE {toPhysical(l, FirstGrain(hits))}

(* A position the Windows tap records, replayed on the desk it was recorded *)
(* on, aims at the pixel it was recorded at, provided the densities agree   *)
(* (WinEventTapBackend.h:15: logical coordinates "to match the injection    *)
(* side").  The position is one where the cursor is, so on a display.       *)
RecordedReplays ==
  backend = "windows" /\ Uniform => Aim(Recorded(cursor)) = {cursor}

(* Moving to where position() says the cursor is aims at where it is, with  *)
(* whatever densities: logical coordinates are those of "the virtual        *)
(* desktop shared by all monitors" (README.md:156).                         *)
PositionIsPlace ==
  backend = "windows" /\ PhysicalHits(cursor) # {}
  => Aim(toLogical(cursor, FirstGrain(PhysicalHits(cursor)))) = {cursor}
==============================================================================
