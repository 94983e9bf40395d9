-------------------------------- MODULE Session --------------------------------
(***************************************************************************)
(* Session::create and the backend factories: which backend a session gets *)
(* from its options and from the environment, what its capabilities say it *)
(* can do, and how operations the capabilities name really answer.  The    *)
(* user may grant and revoke the macOS permissions at any moment, while    *)
(* the capabilities are those of the moment of creation.                   *)
(***************************************************************************)
EXTENDS Naturals

VARIABLES
  host,      \* the system the library was built for
  backend,   \* the backend of the session, "none" as long as there is none
  caps,      \* capabilities(): the flags that are true
  required,  \* the permissions the options demanded
  refusal,   \* the error of the last create, or "none"
  granted,   \* external: the macOS permissions in force
  \* History, read by properties only:
  changed,   \* a permission changed since the session was created
  probe      \* the last operation tried, its answer, and if it took effect

sessionVars == <<host, backend, caps, required, refusal>>

Host == {"windows", "macos", "linux"}
Backend == {"windows", "macos", "x11", "uinput"}
Permission == {"input", "screen"}

(* The operation a flag is about. *)
Probed == [press |-> "canInjectKeyboard", typeChar |-> "canTypeUnicode",
           button |-> "canInjectMouse", extraButton |-> "supportsExtraMouseButtons",
           pixelScroll |-> "supportsHighResolutionScroll", start |-> "canRecordEvents"]
Injections == {"press", "typeChar", "button", "extraButton", "pixelScroll"}

Always == {"canReadCursorPosition", "supportsExtraMouseButtons", "canEnumerateMonitors"}
Injecting == {"canInjectKeyboard", "canInjectMouse", "canTypeUnicode", "canWarpCursor"}

WinCapabilities == Always \union Injecting \union {"canCaptureScreen", "canRecordEvents"}
X11Capabilities == WinCapabilities
UinputCapabilities == {"canInjectKeyboard", "canInjectMouse", "supportsExtraMouseButtons"}
MacCapabilities ==
  Always \union {"supportsHighResolutionScroll"}
  \union (IF granted.input THEN Injecting \union {"canRecordEvents"} ELSE {})
  \union (IF granted.screen THEN {"canCaptureScreen"} ELSE {})

SessionInit ==
  /\ host \in Host
  /\ backend = "none" /\ caps = {} /\ refusal = "none"
  /\ required = [p \in Permission |-> FALSE]
  /\ granted \in [Permission -> BOOLEAN]
  /\ host # "macos" => granted = [p \in Permission |-> TRUE]
  /\ changed = FALSE
  /\ probe = [op |-> "none", answer |-> "ok", effect |-> TRUE]

Created(b, flags, options) ==
  /\ backend' = b /\ caps' = flags /\ required' = options /\ refusal' = "none"
  /\ changed' = FALSE
  /\ UNCHANGED <<host, granted, probe>>

Refused(error) ==
  refusal' = error /\ UNCHANGED <<host, backend, caps, required, granted, changed, probe>>

CreateWindows(options) ==
  host = "windows" /\ Created("windows", WinCapabilities, options)

(* A permission demanded is looked at here, and only here.                 *)
(* Mutant: the input permission is not looked at.                          *)
LackingScreen(options) == options["screen"] /\ ~granted["screen"]
Lacking(options) == \E p \in Permission : options[p] /\ ~granted[p]

CreateMac(options) ==
  /\ host = "macos"
  /\ IF Lacking(options) THEN Refused("permissionDenied")
     ELSE Created("macos", MacCapabilities, options)

(* Linux: an explicit choice is never second-guessed; Auto is X11 if the   *)
(* display is set and answers, and otherwise never uinput.                 *)
MakeX11(display, options) ==
  IF display = "live" THEN Created("x11", X11Capabilities, options)
  ELSE Refused("backendUnavailable")

MakeUinput(device, options) ==
  CASE device = "closed" -> Refused("permissionDenied")
    [] device = "broken" -> Refused("platformError")
    [] device = "open"   -> Created("uinput", UinputCapabilities, options)

CreateLinux(choice, display, wayland, device, options) ==
  /\ host = "linux"
  /\ \/ choice = "X11" /\ MakeX11(display, options)
     \/ choice = "Uinput" /\ MakeUinput(device, options)
     \/ /\ choice = "Auto"
        /\ IF display = "live" THEN MakeX11(display, options)
           ELSE Refused(IF wayland THEN "unsupported" ELSE "backendUnavailable")

Create ==
  /\ backend = "none"
  /\ \E options \in [Permission -> BOOLEAN] :
       \/ CreateWindows(options)
       \/ CreateMac(options)
       \/ \E choice \in {"Auto", "X11", "Uinput"}, display \in {"unset", "dead", "live"},
             wayland \in BOOLEAN, device \in {"closed", "broken", "open"} :
            CreateLinux(choice, display, wayland, device, options)

(* The user changes a permission. *)
Toggle(p) ==
  /\ host = "macos"
  /\ granted' = [granted EXCEPT ![p] = ~@]
  /\ changed' = TRUE
  /\ UNCHANGED <<sessionVars, probe>>

(***************************************************************************)
(* How an operation answers.  Those a backend does not have it refuses by  *)
(* name; macOS drops injected events unless Accessibility is granted, and  *)
(* says so only of an event tap; the X server may lack RECORD.             *)
(***************************************************************************)
(* Mutant: X11 scrolls a pixel by a wheel step.                            *)
UnsupportedBestEffort(o) ==
  \/ o = "pixelScroll" /\ backend \notin {"macos", "x11"}
  \/ o \in {"typeChar", "start"} /\ backend = "uinput"
Unsupported(o) ==
  \/ o = "pixelScroll" /\ backend # "macos"
  \/ o \in {"typeChar", "start"} /\ backend = "uinput"

Answers(o) ==
  IF Unsupported(o) THEN {"unsupported"}
  ELSE IF o = "start" /\ backend = "macos" /\ ~granted.input THEN {"permissionDenied"}
  ELSE {"ok", "platformError"}
       \union (IF o = "start" /\ backend = "x11" THEN {"unsupported"} ELSE {})

Probe(o) ==
  /\ backend # "none"
  /\ \E r \in Answers(o) :
       probe' = [op |-> o, answer |-> r,
                 effect |-> r = "ok" /\ (backend = "macos" => granted.input)]
  /\ UNCHANGED <<sessionVars, granted, changed>>

-------------------------------------------------------------------------------
(* "A false flag here means the corresponding operation returns Unsupported *)
(* (or PermissionDenied) when called" (Capabilities.h:9-11), as long as the *)
(* permissions stay what they were when the flags were set.  Not so for     *)
(* what macOS drops: there the flag is all the caller is told.              *)
FalseFlagFails ==
  /\ backend # "none" /\ ~changed
  /\ probe.op # "none" /\ Probed[probe.op] \notin caps
  => \/ probe.answer \in {"unsupported", "permissionDenied"}
     \/ backend = "macos" /\ probe.op \in Injections

(* Nothing is dropped on a caller who demanded the input permission: an     *)
(* injection that returns ok took effect, unless the user took the          *)
(* permission back (MacBackendFactory.cpp:52-59).                           *)
RequiredDelivers ==
  required["input"] /\ ~changed /\ probe.op \in Injections /\ probe.answer = "ok"
  => probe.effect
==============================================================================
