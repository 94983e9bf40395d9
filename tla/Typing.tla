-------------------------------- MODULE Typing --------------------------------
(***************************************************************************)
(* Typing text: typeChar, typeText and typeTextHumanLike of the Keyboard   *)
(* facade (src/common/Keyboard.cpp) over typeUnicode of the four backends. *)
(* Several sessions, of one process or of several, type at once; a step    *)
(* is one system call, or one turn of the decoder's loop.  On X11 a        *)
(* character goes through a scratch keycode that is bound to it and then   *)
(* restored, and the application looks the keycode up in a copy of the     *)
(* mapping that it fetches when it gets to the change notice: the server   *)
(* and that application are external, and so are the lower cases X knows   *)
(* and the range of keycodes the server has.                               *)
(***************************************************************************)
EXTENDS Utf8

CONSTANTS Session,   \* the callers, each in at most one call
          Texts,     \* platform -> the byte strings callers pass
          Chars,     \* the values callers pass to typeChar
          Calls,     \* platform -> bound on the number of API calls
          Lower,     \* external: the characters X has a lower case of, with it
          MinKeycode \* external: the lowest keycode of the X server; the X
                     \* protocol says 8, X11KeyboardBackend.cpp:57 counts on 1

Platform == {"windows", "macos", "x11", "uinput"}

ASSUME TypingAssumption ==
  /\ Texts \in [Platform -> SUBSET Seq(0..255)]
  /\ Chars \subseteq Nat
  /\ Calls \in [Platform -> Nat]
  /\ \A cp \in DOMAIN Lower : Lower[cp] \in Nat /\ Scalar(Lower[cp])
  /\ MinKeycode \in Nat

Error == {"invalidArgument", "unsupported", "platformError"}

VARIABLES
  platform,  \* the backend, chosen with the session
  call,      \* session -> its API call in progress, or the last one
  shown,     \* external: the UTF-16 units the focused application received
  unitsDown, \* external: the Windows Unicode units pressed, with who did it
  scratch,   \* external: what the X server has bound to the scratch keycode
  queue,     \* external: the X events the application has not handled
  known,     \* external: the application's copy of the scratch binding
  \* History, read by properties only:
  begun,     \* how many API calls began
  asked,     \* the characters typeUnicode reported as typed
  refused,   \* a system call was refused inside typeUnicode
  overlapped, \* two sessions were in a call at once
  late       \* a binding was restored before the application used it

externalVars == <<shown, unitsDown, scratch, queue, known>>
historyVars == <<begun, asked, refused, overlapped, late>>
vars == <<platform, call, externalVars, historyVars>>

(* The keycode typeUnicode borrows, and the keysym it binds to it.  0 is   *)
(* NoSymbol, the binding of a keycode no key of the layout uses; the       *)
(* keysym of U+0000 is NoSymbol as well.                                   *)
ScratchKeycode == 1
KeySym(cp) == IF cp < 256 THEN cp ELSE \h1000000 + cp
Original == 0

(* What an application reads off a keycode that has this one keysym, with  *)
(* no modifier down.  The keysyms below 256 are those of Latin-1, which    *)
(* has no control characters: their numbers stand for nothing.  And a      *)
(* keysym that X knows both cases of, alone on its keycode, is short for   *)
(* the pair of them: the capital is there with Shift only.                 *)
Character(ks) == IF ks < 256 THEN ks ELSE ks - \h1000000
Control(cp) == cp < 32 \/ (127 <= cp /\ cp < 160)
Unshifted(cp) == IF cp \in DOMAIN Lower THEN Lower[cp] ELSE cp
Showing(ks) ==
  IF Control(Character(ks)) THEN <<>> ELSE Units16(Unshifted(Character(ks)))

(* The characters whose keysym, bound alone, shows the character itself.   *)
Plain(cp) == ~Control(cp) /\ cp \notin DOMAIN Lower

Idle == [pc |-> "idle", human |-> FALSE, bytes |-> <<>>, i |-> 1, out |-> <<>>,
         at |-> 1, unit |-> 1, saved |-> Original, result |-> "ok"]

Init ==
  /\ platform \in Platform
  /\ call = [s \in Session |-> Idle]
  /\ shown = <<>> /\ unitsDown = {} /\ queue = <<>>
  /\ scratch = Original /\ known = Original
  /\ begun = 0 /\ asked = <<>>
  /\ refused = FALSE /\ overlapped = FALSE /\ late = FALSE

Busy == {s \in Session : call[s].pc # "idle"}

(* The character the call is at, and its units. *)
Char(s) == call[s].out[call[s].at]
Units(s) == Utf16(Char(s))

-----------------------------------------------------------------------------
MayBegin(s) == call[s].pc = "idle" /\ begun < Calls[platform]

Begin(s, c) ==
  /\ begun' = begun + 1
  /\ overlapped' = (overlapped \/ Busy # {})
  /\ call' = [call EXCEPT ![s] = c]
  /\ UNCHANGED <<platform, externalVars, asked, refused, late>>

(* typeText and typeTextHumanLike, which also sleeps after each character. *)
typeText(s, bytes, human) ==
  Begin(s, [Idle EXCEPT !.pc = "decode", !.bytes = bytes, !.human = human])

(* A value that is no scalar is rejected before the backend hears of it.   *)
typeChar(s, cp) ==
  Begin(s, IF Scalar(cp) THEN [Idle EXCEPT !.pc = "type", !.out = <<cp>>]
           ELSE [Idle EXCEPT !.result = "invalidArgument"])

Return(s, answer) ==
  call' = [call EXCEPT ![s].pc = "idle", ![s].result = answer]

(* One turn of decodeUtf8's loop.                                          *)
Decode(s) ==
  LET c == call[s]
      kinds == {kind \in LeadKinds : Accepts(c.bytes, c.i, kind)}
  IN /\ c.pc = "decode" /\ c.i <= Len(c.bytes)
     /\ \/ \E kind \in kinds :
             call' = [call EXCEPT
                       ![s].out = Append(@, Value(c.bytes, c.i, kind)),
                       ![s].i = @ + kind.extra + 1]
        \/ kinds = {} /\ Return(s, "invalidArgument")
     /\ UNCHANGED <<platform, externalVars, historyVars>>

(* Mutant: the text is typed up to the malformed character.                *)
DecodedSoFar(s) ==
  /\ call[s].pc = "decode"
  /\ call[s].out # <<>>
  /\ call' = [call EXCEPT ![s].pc = "type"]
  /\ UNCHANGED <<platform, externalVars, historyVars>>
(* Only when all of it is decoded does the first character go out.         *)
Decoded(s) ==
  /\ call[s].pc = "decode"
  /\ call[s].i > Len(call[s].bytes)
  /\ call' = [call EXCEPT ![s].pc = "type"]
  /\ UNCHANGED <<platform, externalVars, historyVars>>

AllTyped(s) ==
  /\ call[s].pc = "type"
  /\ call[s].at > Len(call[s].out)
  /\ Return(s, "ok")
  /\ UNCHANGED <<platform, externalVars, historyVars>>

(* Session s is about to hand its next character to backend p.             *)
Typing(s, p) ==
  /\ platform = p
  /\ call[s].pc = "type"
  /\ call[s].at <= Len(call[s].out)

(* typeUnicode returned: ok goes on with the next character, after a sleep *)
(* when typing like a human, an error ends the call.                       *)
CharTyped(s) ==
  /\ call' = [call EXCEPT ![s].pc = IF call[s].human THEN "sleep" ELSE "type",
                          ![s].at = @ + 1, ![s].unit = 1]
  /\ asked' = Append(asked, Char(s))

Wake(s) ==
  /\ call[s].pc = "sleep"
  /\ call' = [call EXCEPT ![s].pc = "type"]
  /\ UNCHANGED <<platform, externalVars, historyVars>>

Refuse(s, error) ==
  /\ Return(s, error)
  /\ refused' = TRUE
  /\ UNCHANGED asked

-----------------------------------------------------------------------------
(* Windows: all units of the character down, then all up, one SendInput    *)
(* each; a refused one ends the call with the rest not sent.               *)
WinUnitDown(s) ==
  /\ Typing(s, "windows")
  /\ \/ /\ shown' = Append(shown, Units(s)[call[s].unit])
        /\ unitsDown' = unitsDown \union {<<s, Units(s)[call[s].unit]>>}
        /\ call' = [call EXCEPT
                     ![s].pc = IF call[s].unit < Len(Units(s)) THEN "type" ELSE "unitUp",
                     ![s].unit = IF @ < Len(Units(s)) THEN @ + 1 ELSE 1]
        /\ UNCHANGED <<asked, refused>>
     \/ Refuse(s, "platformError") /\ UNCHANGED <<shown, unitsDown>>
  /\ UNCHANGED <<platform, scratch, queue, known, begun, overlapped, late>>

(* Mutant: the second loop stops after the first unit.                     *)
LastUnitFirst(s) == TRUE
LastUnit(s) == call[s].unit = Len(Units(s))

WinUnitUp(s) ==
  /\ call[s].pc = "unitUp"
  /\ \/ /\ unitsDown' = unitsDown \ {<<s, Units(s)[call[s].unit]>>}
        /\ IF LastUnit(s)
           THEN CharTyped(s)
           ELSE call' = [call EXCEPT ![s].unit = @ + 1] /\ UNCHANGED asked
        /\ UNCHANGED refused
     \/ Refuse(s, "platformError") /\ UNCHANGED unitsDown
  /\ UNCHANGED <<platform, shown, scratch, queue, known, begun, overlapped, late>>

(* macOS: both events are created before either is posted, and each        *)
(* carries the whole character.                                            *)
MacType(s) ==
  /\ Typing(s, "macos")
  /\ \/ shown' = shown \o Units(s) /\ CharTyped(s) /\ UNCHANGED refused
     \/ Refuse(s, "platformError") /\ UNCHANGED shown
  /\ UNCHANGED <<platform, unitsDown, scratch, queue, known, begun, overlapped, late>>

(* uinput has no layout to map a character with.                           *)
UinputType(s) ==
  /\ Typing(s, "uinput")
  /\ Return(s, "unsupported")
  /\ UNCHANGED <<platform, externalVars, historyVars>>

(* X11: read the scratch keycode's binding, which may fail, and does where *)
(* the server has no such keycode: it answers BadValue, which the program  *)
(* survives only with an error handler other than Xlib's own, ...          *)
(* Mutant: what is restored is the binding of this very call.              *)
X11FetchOwn(s) ==
  /\ Typing(s, "x11")
  /\ call' = [call EXCEPT ![s].pc = "bind", ![s].saved = KeySym(Char(s))]
  /\ UNCHANGED <<platform, externalVars, historyVars>>
X11Fetch(s) ==
  /\ Typing(s, "x11")
  /\ \/ /\ ScratchKeycode >= MinKeycode
        /\ call' = [call EXCEPT ![s].pc = "bind", ![s].saved = scratch]
        /\ UNCHANGED <<asked, refused>>
     \/ Refuse(s, "platformError")
  /\ UNCHANGED <<platform, externalVars, begun, overlapped, late>>

(* ... bind the character and wait until the server has done it, ...       *)
X11Bind(s) ==
  /\ call[s].pc = "bind"
  /\ scratch' = KeySym(Char(s))
  /\ queue' = Append(queue, "mapping")
  /\ call' = [call EXCEPT ![s].pc = "press"]
  /\ UNCHANGED <<platform, shown, unitsDown, known, historyVars>>

(* ... tap the scratch keycode, ...                                        *)
X11Press(s) ==
  /\ call[s].pc = "press"
  /\ queue' = Append(queue, "press")
  /\ call' = [call EXCEPT ![s].pc = "restore"]
  /\ UNCHANGED <<platform, shown, unitsDown, scratch, known, historyVars>>

(* ... and write the binding back.                                         *)
X11Restore(s) ==
  /\ call[s].pc = "restore"
  /\ scratch' = call[s].saved
  /\ queue' = Append(queue, "mapping")
  /\ late' = (late \/ "mapping" \in ToSet(queue))
  /\ CharTyped(s)
  /\ UNCHANGED <<platform, shown, unitsDown, known, begun, refused, overlapped>>

(* The application takes its next event: a change notice makes it fetch    *)
(* the binding there is now, a press shows what it knows the keycode as.   *)
X11AppHandles ==
  /\ queue # <<>>
  /\ queue' = Tail(queue)
  /\ \/ /\ Head(queue) = "mapping"
        /\ known' = scratch
        /\ UNCHANGED shown
     \/ /\ Head(queue) = "press"
        /\ shown' = shown \o Showing(known)
        /\ UNCHANGED known
  /\ UNCHANGED <<platform, call, unitsDown, scratch, historyVars>>

-----------------------------------------------------------------------------
(* The caller's API calls. *)
Call(s) ==
  /\ MayBegin(s)
  /\ \/ \E bytes \in Texts[platform], human \in BOOLEAN : typeText(s, bytes, human)
     \/ \E cp \in Chars : typeChar(s, cp)

(* What the call in progress does. *)
Step(s) ==
  \/ Decode(s) \/ Decoded(s) \/ AllTyped(s) \/ Wake(s)
  \/ WinUnitDown(s) \/ WinUnitUp(s)
  \/ MacType(s)
  \/ UinputType(s)
  \/ X11Fetch(s) \/ X11Bind(s) \/ X11Press(s) \/ X11Restore(s)

(* All calls have returned: only a new one, when the bound leaves one, *)
(* would change anything.                                              *)
Quiet == Busy = {} /\ queue = <<>> /\ UNCHANGED vars

Next == (\E s \in Session : Call(s) \/ Step(s)) \/ X11AppHandles \/ Quiet

Spec == Init /\ [][Next]_vars

-----------------------------------------------------------------------------
TypeOK ==
  /\ platform \in Platform
  /\ \A s \in Session :
       /\ call[s].pc \in {"idle", "decode", "type", "sleep", "unitUp", "bind",
                         "press", "restore"}
       /\ call[s].i \in 1..(Len(call[s].bytes) + 1)
       /\ call[s].at \in 1..(Len(call[s].out) + 1)
       /\ call[s].result \in Error \union {"ok"}
  /\ \A k \in 1..Len(shown) : shown[k] \in Nat /\ shown[k] < \h10000
  /\ scratch \in Nat /\ known \in Nat

(* The decoder agrees with the Unicode standard, byte for byte: what it has *)
(* accepted are well-formed sequences that encode what it gives out, and    *)
(* where it stops with an error none begins (Keyboard.cpp:32-99).           *)
DecodesExactly ==
  \A s \in Session :
    LET c == call[s]
    IN /\ c.pc = "decode" =>
             /\ EncodeAll(c.out) = SubSeq(c.bytes, 1, c.i - 1)
             /\ \A k \in 1..Len(c.out) : WellFormedAt(Encode(c.out[k]), 1)
       /\ c.result = "invalidArgument" /\ c.bytes # <<>> =>
             ~WellFormedAt(c.bytes, c.i)

(* All of a text or none of it: no character of a text that is malformed    *)
(* anywhere is ever typed (Keyboard.h:64-65).                               *)
MalformedTypesNothing ==
  \A s \in Session :
    LET c == call[s]
    IN c.at > 1 /\ c.bytes # <<>> => EncodeAll(c.out) = c.bytes

(* Once all is quiet the application has received exactly the characters    *)
(* reported as typed, as whole UTF-16 - provided no two sessions typed at   *)
(* once, the application kept up with the rebinding of the X11 scratch      *)
(* keycode, and Windows refused nothing; on the others a refused character  *)
(* leaves no trace.  Keyboard.h:36-37 says so of every character.  On X11   *)
(* it is so of those that have a keysym of their own and no lower case: a   *)
(* capital bound alone arrives as its lower case, and a control character,  *)
(* a tab or a line feed among them, not at all, each reported as typed      *)
(* (X11KeyboardBackend.cpp:14-17,69-71).  And it is so of them where        *)
(* keycode 1 exists; by the protocol keycodes begin at 8, and no character  *)
(* is reported as typed.                                                    *)
TextArrives ==
  /\ Busy = {} /\ queue = <<>>
  /\ ~overlapped /\ ~late
  /\ platform = "windows" => ~refused
  /\ platform = "x11" => \A cp \in ToSet(asked) : Plain(cp)
  => shown = Units16All(asked)

(* Calls leave the keyboard as they found it: no Unicode unit stays pressed *)
(* on Windows, whatever the sessions interleave, unless SendInput refused   *)
(* one; and the X11 scratch keycode has its own binding back, however the   *)
(* calls ended, unless two sessions typed at once.                          *)
KeyboardAsFound ==
  Busy = {} => /\ ~refused => unitsDown = {}
               /\ ~overlapped => scratch = Original

(* As X11KeyboardBackend.cpp:55 has it, without the restriction to one      *)
(* session: "the original mapping is read first and written back so no      *)
(* permanent change leaks".                                                 *)
NoBindingLeaks == Busy = {} => scratch = Original
==============================================================================
