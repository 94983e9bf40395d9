---------------------------- MODULE KeyboardProofs ----------------------------
(***************************************************************************)
(* Proofs about the keyboards, for every set of keys, chords and layouts.  *)
(* First what the Keyboard facade keeps over any atomic device, a backend  *)
(* whose calls either deliver their event or answer an error and change    *)
(* nothing: its safety properties and its refinement of KeyboardContract.  *)
(* The Windows backend is such a device.  On macOS the backend's set of    *)
(* held modifiers has properties of its own.  On Linux neither device is   *)
(* atomic for its keys (two may share a position, an event may be half     *)
(* written), so that the facade's invariant is replaced by one about       *)
(* positions.                                                              *)
(***************************************************************************)
EXTENDS WinKeyboard, MacKeyboard, LinuxKeyboard, SequenceTheorems, TLAPS

(* The modifier keys tap still has to release. *)
ToRelease == {pressed[i] : i \in 1..Len(pressed)}

(* Why no key is stuck, at every step: a key that is down is the caller's, *)
(* has a failed release, or is one tap is about to release.                *)
AccountedFor ==
  down \subseteq caller \union refusedUp
                 \union (IF pc \in {"modifiers", "keyUp", "unwind"} THEN ToRelease ELSE {})
                 \union (IF pc = "keyUp" THEN {tap.key} ELSE {})

(* Why a chord is complete: the loop has left no requested modifier below  *)
(* next up, and remembers each of them.                                    *)
LoopProgress ==
  pc = "modifiers" =>
    \A j \in 1..Len(Order) :
      (j < next /\ Order[j] \in tap.mods) =>
        modifierToKey[Order[j]] \in down \intersect ToRelease

(* Why ok means released: until an error occurs, the keys of the chord     *)
(* that are down are still to be released.                                 *)
UnwindProgress ==
  /\ pc = "keyUp" => ModifierKeys(tap.mods) \subseteq ToRelease
  /\ (pc = "unwind" /\ result = "ok") => TapKeys(tap) \intersect down \subseteq ToRelease

KeyboardInv ==
  /\ KeyboardTypeOK
  /\ AccountedFor
  /\ LoopProgress
  /\ ChordComplete
  /\ UnwindProgress

-------------------------------------------------------------------------------
(* The five entries of Order. *)
LEMMA OrderIs ==
  /\ Len(Order) = 5
  /\ Modifier = {"Control", "Alt", "Shift", "Meta", "CapsLock"}
  /\ \A m \in Modifier : \E j \in 1..Len(Order) : m = Order[j]
BY DEF Order, Modifier

(* The modifier keys of a chord are keys. *)
LEMMA ModifierKeysAreKeys ==
  ASSUME NEW t \in [key : Key, mods : Chords]
  PROVE  TapKeys(t) \subseteq Key
BY ChordsAssumption DEF TapKeys

(* What append and pop do to the keys to release. *)
LEMMA AppendToRelease ==
  ASSUME pressed \in Seq(Key), NEW k \in Key, pressed' = Append(pressed, k)
  PROVE  ToRelease' = ToRelease \union {k} /\ pressed' \in Seq(Key)
<1>1. Len(pressed') = Len(pressed) + 1 /\ pressed' \in Seq(Key)
  OBVIOUS
<1>2. \A i \in 1..Len(pressed) : pressed'[i] = pressed[i]
  OBVIOUS
<1>3. pressed'[Len(pressed) + 1] = k
  OBVIOUS
<1> QED BY <1>1, <1>2, <1>3 DEF ToRelease

(* A sequence without its last element.                                    *)
LEMMA FrontProperties ==
  ASSUME NEW S, NEW s \in Seq(S), s # <<>>, NEW t, t = SubSeq(s, 1, Len(s) - 1)
  PROVE  /\ t \in Seq(S)
         /\ Len(t) = Len(s) - 1
         /\ \A i \in 1..(Len(s) - 1) : t[i] = s[i]
<1> DEFINE n == Len(s) - 1
<1>1. Len(s) \in Nat \ {0} /\ n \in Nat /\ \A i \in 1..n : s[i] \in S
  OBVIOUS
<1>2. n \in Int /\ 1 \in Int
  BY <1>1
<1>3. t = SubSeq(s, 1, n)
  OBVIOUS
<1> HIDE DEF n
<1>4. /\ t \in Seq(S)
      /\ Len(t) = IF 1 <= n THEN n - 1 + 1 ELSE 0
      /\ \A i \in 1..(n - 1 + 1) : t[i] = s[1 + i - 1]
  BY <1>1, <1>2, <1>3, SubSeqProperties
<1>5. Len(t) = n
  BY <1>1, <1>4
<1>6. \A i \in 1..n : t[i] = s[i]
  BY <1>1, <1>4
<1> QED BY <1>4, <1>5, <1>6 DEF n

(* Popping loses no key but the popped one from those to release.          *)
LEMMA PopToRelease ==
  ASSUME pressed \in Seq(Key), pressed # <<>>,
         pressed' = SubSeq(pressed, 1, Len(pressed) - 1)
  PROVE  /\ pressed' \in Seq(Key)
         /\ ToRelease \subseteq ToRelease' \union {pressed[Len(pressed)]}
         /\ pressed[Len(pressed)] \in Key
<1>1. Len(pressed) \in Nat \ {0}
  OBVIOUS
<1>2. /\ pressed' \in Seq(Key)
      /\ Len(pressed') = Len(pressed) - 1
      /\ \A i \in 1..(Len(pressed) - 1) : pressed'[i] = pressed[i]
  BY FrontProperties
<1> QED BY <1>1, <1>2 DEF ToRelease

-------------------------------------------------------------------------------
(* The steps of the facade keep the invariant over an atomic device.       *)
LEMMA InitInv == KeyboardInit => KeyboardInv
<1> SUFFICES ASSUME KeyboardInit PROVE KeyboardInv
  OBVIOUS
<1>1. KeyboardTypeOK
  BY OrderIs DEF KeyboardInit, KeyboardTypeOK, Outcome
<1> QED
  BY <1>1 DEF KeyboardInit, KeyboardInv, AccountedFor, LoopProgress, ChordComplete,
              UnwindProgress

(* The history of the API calls stays a history of calls.                  *)
LEMMA NoteType ==
  ASSUME Note, before \in [down : SUBSET Key, result : Outcome],
         down' \in SUBSET Key, result' \in Outcome
  PROVE  before' \in [down : SUBSET Key, result : Outcome]
BY DEF Note

(* press, and the key presses of tap.                                      *)
LEMMA DownStepInv ==
  ASSUME KeyboardInv, NEW k \in Key, NEW r \in Outcome,
         FacadeDown(k, r), Device(k, TRUE, r), Note
  PROVE  KeyboardInv'
<1> USE DEF KeyboardInv
<1>1. down' = (IF r = "ok" THEN down \union {k} ELSE down) /\ down' \subseteq Key
  BY DEF Device, Deliver, KeyboardTypeOK
<1>2. CASE Press(k, r)
  <2>1. KeyboardTypeOK'
    BY <1>1, <1>2, NoteType DEF KeyboardTypeOK, Press
  <2> QED
    BY <1>1, <1>2, <2>1 DEF Press, KeyboardTypeOK, AccountedFor, LoopProgress,
       ChordComplete, UnwindProgress
<1>3. CASE PressModifier(k, r)
  <2>1. PICK i \in Wanted : /\ \A j \in Wanted : i <= j
                            /\ k = modifierToKey[Order[i]]
                            /\ next' = IF r = "ok" THEN i + 1 ELSE next
    BY <1>3 DEF PressModifier
  <2>2. i \in 1..5 /\ i \in next..5 /\ Order[i] \in tap.mods
    BY <2>1, OrderIs DEF Wanted, KeyboardTypeOK
  <2>3. /\ r = "ok" => pressed' \in Seq(Key) /\ ToRelease' = ToRelease \union {k}
        /\ r # "ok" => pressed' = pressed /\ ToRelease' = ToRelease
    BY <1>3, AppendToRelease DEF PressModifier, KeyboardTypeOK, ToRelease
  <2>4. KeyboardTypeOK'
    BY <1>1, <1>3, <2>1, <2>2, <2>3, OrderIs, NoteType DEF KeyboardTypeOK, PressModifier
  <2>5. AccountedFor'
    BY <1>1, <1>3, <2>3 DEF PressModifier, AccountedFor
  <2>6. LoopProgress'
    <3> SUFFICES ASSUME r = "ok", NEW j \in 1..5, j < i + 1, Order[j] \in tap.mods
                 PROVE  modifierToKey[Order[j]] \in down' \intersect ToRelease'
      BY <1>3, <2>1, OrderIs DEF PressModifier, LoopProgress
    <3>1. CASE j < next
      BY <1>1, <1>3, <2>3, <3>1, OrderIs DEF LoopProgress, PressModifier
    <3>2. CASE ~(j < next)
      <4>1. j \in Wanted
        BY <3>2, OrderIs DEF Wanted, KeyboardTypeOK
      <4>2. j = i
        BY <2>1, <2>2, <4>1
      <4> QED BY <1>1, <2>1, <2>3, <4>2
    <3> QED BY <3>1, <3>2
  <2>7. ChordComplete' /\ UnwindProgress'
    BY <1>3 DEF PressModifier, ChordComplete, UnwindProgress
  <2> QED BY <2>4, <2>5, <2>6, <2>7
<1>4. CASE PressKey(k, r)
  <2>1. KeyboardTypeOK'
    BY <1>1, <1>4, NoteType DEF KeyboardTypeOK, PressKey
  <2>2. ToRelease' = ToRelease
    BY <1>4 DEF PressKey, ToRelease
  <2>3. AccountedFor' /\ LoopProgress'
    BY <1>1, <1>4, <2>2 DEF PressKey, AccountedFor, LoopProgress
  <2>4. ModifierKeys(tap.mods) \subseteq down \intersect ToRelease
    <3> SUFFICES ASSUME NEW m \in tap.mods
                 PROVE  modifierToKey[m] \in down \intersect ToRelease
      BY DEF ModifierKeys
    <3>1. m \in Modifier
      BY ChordsAssumption DEF KeyboardTypeOK
    <3>2. PICK j \in 1..5 : m = Order[j]
      BY <3>1, OrderIs
    <3>3. j < next
      BY <1>4, <3>2, OrderIs DEF PressKey, Wanted, KeyboardTypeOK
    <3> QED BY <1>4, <3>2, <3>3, OrderIs DEF PressKey, LoopProgress
  <2>5. ChordComplete' /\ UnwindProgress'
    BY <1>1, <1>4, <2>2, <2>4
    DEF PressKey, ChordComplete, UnwindProgress, TapKeys
  <2> QED BY <2>1, <2>3, <2>5
<1> QED BY <1>2, <1>3, <1>4 DEF FacadeDown

(* release, and the key releases of tap.                                   *)
LEMMA UpStepInv ==
  ASSUME KeyboardInv, NEW k \in Key, NEW r \in Outcome,
         FacadeUp(k, r), Device(k, FALSE, r), Note
  PROVE  KeyboardInv'
<1> USE DEF KeyboardInv
<1>1. down' = (IF r = "ok" THEN down \ {k} ELSE down) /\ down' \subseteq Key
  BY DEF Device, Deliver, KeyboardTypeOK
<1>2. refusedUp' = (IF r = "ok" THEN refusedUp \ {k} ELSE refusedUp \union {k})
  BY DEF FacadeUp, Release, ReleaseKey, ReleaseModifier, NoteUp
<1>3. CASE Release(k, r)
  <2>1. KeyboardTypeOK'
    BY <1>1, <1>2, <1>3, NoteType DEF KeyboardTypeOK, Release
  <2>2. AccountedFor'
    BY <1>1, <1>2, <1>3 DEF Release, AccountedFor
  <2> QED
    BY <1>3, <2>1, <2>2 DEF Release, LoopProgress, ChordComplete, UnwindProgress
<1>4. CASE ReleaseKey(k, r)
  <2>1. KeyboardTypeOK'
    BY <1>1, <1>2, <1>4, NoteType DEF KeyboardTypeOK, ReleaseKey
  <2>2. ToRelease' = ToRelease
    BY <1>4 DEF ReleaseKey, ToRelease
  <2>3. AccountedFor'
    BY <1>1, <1>2, <1>4, <2>2 DEF ReleaseKey, AccountedFor
  <2>4. UnwindProgress'
    BY <1>1, <1>4, <2>2 DEF ReleaseKey, UnwindProgress, TapKeys
  <2> QED
    BY <1>4, <2>1, <2>3, <2>4 DEF ReleaseKey, LoopProgress, ChordComplete
<1>5. CASE ReleaseModifier(k, r)
  <2>1. pressed' \in Seq(Key) /\ ToRelease \subseteq ToRelease' \union {k}
    BY <1>5, PopToRelease DEF ReleaseModifier, KeyboardTypeOK
  <2>2. KeyboardTypeOK'
    BY <1>1, <1>2, <1>5, <2>1, NoteType DEF KeyboardTypeOK, ReleaseModifier, firstError
  <2>3. AccountedFor'
    BY <1>1, <1>2, <1>5, <2>1 DEF ReleaseModifier, AccountedFor
  <2>4. UnwindProgress'
    BY <1>1, <1>5, <2>1 DEF ReleaseModifier, firstError, UnwindProgress
  <2> QED
    BY <1>5, <2>2, <2>3, <2>4 DEF ReleaseModifier, LoopProgress, ChordComplete
<1> QED BY <1>3, <1>4, <1>5 DEF FacadeUp

(* The beginning and the end of tap.                                       *)
LEMMA LocalStepInv ==
  ASSUME KeyboardInv, FacadeLocal, UNCHANGED down, Note
  PROVE  KeyboardInv'
<1> USE DEF KeyboardInv
<1>1. CASE EndTap
  <2>1. ToRelease = {}
    BY <1>1 DEF EndTap, ToRelease
  <2>2. KeyboardTypeOK'
    BY <1>1, NoteType DEF KeyboardTypeOK, EndTap
  <2> QED
    BY <1>1, <2>1, <2>2 DEF EndTap, AccountedFor, LoopProgress, ChordComplete, UnwindProgress
<1>2. CASE \E k \in Key, mods \in Chords : BeginTap(k, mods)
  <2>1. PICK k \in Key, mods \in Chords : BeginTap(k, mods)
    BY <1>2
  <2>2. KeyboardTypeOK'
    BY <2>1, OrderIs, NoteType DEF KeyboardTypeOK, BeginTap, Outcome
  <2> QED
    BY <2>1, <2>2 DEF BeginTap, KeyboardTypeOK, AccountedFor, LoopProgress,
       ChordComplete, UnwindProgress
<1> QED BY <1>1, <1>2 DEF FacadeLocal

(* Steps of the rest of the system.                                        *)
LEMMA StutterInv ==
  ASSUME KeyboardInv, UNCHANGED keyboardVars
  PROVE  KeyboardInv'
BY DEF KeyboardInv, keyboardVars, facadeVars, KeyboardTypeOK, AccountedFor, LoopProgress,
       ChordComplete, UnwindProgress, ToRelease

(* The invariant is worth its name. *)
LEMMA InvImpliesNoStuckKey == KeyboardInv => NoStuckKey
BY DEF KeyboardInv, AccountedFor, NoStuckKey

-------------------------------------------------------------------------------
(* Why the contract sees a tap as one step: while it runs, only its own    *)
(* keys have changed since it began.                                       *)
Frame ==
  /\ pc = "idle" => before = [down |-> down, result |-> result]
  /\ pc # "idle" => /\ ToRelease \subseteq ModifierKeys(tap.mods)
                    /\ down \ TapKeys(tap) = before.down \ TapKeys(tap)

(* A press touches no key outside the chord of the tap in progress.        *)
LEMMA DownStepFrame ==
  ASSUME KeyboardInv, Frame, NEW k \in Key, NEW r \in Outcome,
         FacadeDown(k, r), Device(k, TRUE, r), Note
  PROVE  Frame'
<1>1. down' = (IF r = "ok" THEN down \union {k} ELSE down)
  BY DEF Device, Deliver
<1>2. CASE Press(k, r)
  BY <1>1, <1>2 DEF Press, Note, Frame
<1>3. CASE PressModifier(k, r)
  <2>1. k \in ModifierKeys(tap.mods)
    BY <1>3 DEF PressModifier, Wanted, ModifierKeys
  <2>2. ToRelease' \subseteq ToRelease \union {k}
    BY <1>3, AppendToRelease DEF KeyboardInv, KeyboardTypeOK, PressModifier, ToRelease
  <2> QED BY <1>1, <1>3, <2>1, <2>2 DEF PressModifier, Note, Frame, TapKeys
<1>4. CASE PressKey(k, r)
  <2>1. ToRelease' = ToRelease
    BY <1>4 DEF PressKey, ToRelease
  <2> QED BY <1>1, <1>4, <2>1 DEF PressKey, Note, Frame, TapKeys
<1> QED BY <1>2, <1>3, <1>4 DEF FacadeDown

(* Nor does a release.                                                     *)
LEMMA UpStepFrame ==
  ASSUME KeyboardInv, Frame, NEW k \in Key, NEW r \in Outcome,
         FacadeUp(k, r), Device(k, FALSE, r), Note
  PROVE  Frame'
<1>1. down' = (IF r = "ok" THEN down \ {k} ELSE down)
  BY DEF Device, Deliver
<1>2. CASE Release(k, r)
  BY <1>1, <1>2 DEF Release, Note, Frame
<1>3. CASE ReleaseKey(k, r)
  <2>1. ToRelease' = ToRelease
    BY <1>3 DEF ReleaseKey, ToRelease
  <2> QED BY <1>1, <1>3, <2>1 DEF ReleaseKey, Note, Frame, TapKeys
<1>4. CASE ReleaseModifier(k, r)
  <2>1. k \in ToRelease
    BY <1>4 DEF ReleaseModifier, ToRelease, KeyboardInv, KeyboardTypeOK
  <2>2. ToRelease' \subseteq ToRelease
    BY <1>4, FrontProperties DEF ReleaseModifier, ToRelease, KeyboardInv, KeyboardTypeOK
  <2> QED BY <1>1, <1>4, <2>1, <2>2 DEF ReleaseModifier, Note, Frame, TapKeys
<1> QED BY <1>2, <1>3, <1>4 DEF FacadeUp

(* Nor do the beginning and the end of tap.                                *)
LEMMA LocalStepFrame ==
  ASSUME KeyboardInv, Frame, FacadeLocal, UNCHANGED down, Note
  PROVE  Frame'
<1>1. CASE EndTap
  BY <1>1 DEF EndTap, Note, Frame
<1>2. CASE \E k \in Key, mods \in Chords : BeginTap(k, mods)
  <2>1. pc = "idle" /\ pc' = "modifiers" /\ pressed' = <<>>
    BY <1>2 DEF BeginTap
  <2>2. ToRelease' = {}
    BY <2>1 DEF ToRelease
  <2> QED BY <2>1, <2>2 DEF Note, Frame
<1> QED BY <1>1, <1>2 DEF FacadeLocal

-------------------------------------------------------------------------------
(* Every step is a step of the contract or none to it: press and release   *)
(* at once, a tap when it ends.                                            *)
LEMMA DownStepRefines ==
  ASSUME KeyboardInv, Frame, NEW k \in Key, NEW r \in Outcome,
         FacadeDown(k, r), Device(k, TRUE, r), Note
  PROVE  [Contract!ContractNext]_(Contract!contractVars)
<1>1. CASE Press(k, r)
  <2>1. Contract!PressCall(k)
    BY <1>1 DEF Press, Note, Frame, Device, Deliver, Contract!PressCall
  <2> QED BY <2>1 DEF Contract!ContractNext
<1>2. CASE PressModifier(k, r) \/ PressKey(k, r)
  BY <1>2 DEF PressModifier, PressKey, Note, Contract!contractVars
<1> QED BY <1>1, <1>2 DEF FacadeDown

(* A release by the caller is the contract's, one by tap is invisible.     *)
LEMMA UpStepRefines ==
  ASSUME KeyboardInv, Frame, NEW k \in Key, NEW r \in Outcome,
         FacadeUp(k, r), Device(k, FALSE, r), Note
  PROVE  [Contract!ContractNext]_(Contract!contractVars)
<1>1. CASE Release(k, r)
  <2>1. Contract!ReleaseCall(k)
    BY <1>1 DEF Release, Note, Frame, Device, Deliver, Contract!ReleaseCall
  <2> QED BY <2>1 DEF Contract!ContractNext
<1>2. CASE ReleaseKey(k, r) \/ ReleaseModifier(k, r)
  BY <1>2 DEF ReleaseKey, ReleaseModifier, Note, Contract!contractVars
<1> QED BY <1>1, <1>2 DEF FacadeUp

(* The end of a tap is the contract's tap, its beginning invisible.        *)
LEMMA LocalStepRefines ==
  ASSUME KeyboardInv, Frame, FacadeLocal, UNCHANGED down, Note
  PROVE  [Contract!ContractNext]_(Contract!contractVars)
<1>1. CASE EndTap
  <2>1. tap.key \in Key /\ tap.mods \in Chords /\ ToRelease = {}
    BY <1>1 DEF EndTap, ToRelease, KeyboardInv, KeyboardTypeOK
  <2>2. before' = [down |-> down, result |-> result]
    BY <1>1 DEF EndTap, Note
  <2>3. down \ TapKeys(tap) = before.down \ TapKeys(tap)
    BY <1>1 DEF EndTap, Frame
  <2>4. result = "ok" => TapKeys(tap) \intersect down = {}
    BY <1>1, <2>1 DEF EndTap, KeyboardInv, UnwindProgress
  <2>5. Contract!TapCall(tap.key, tap.mods)
    <3>1. CASE result = "ok"
      BY <2>2, <2>3, <2>4, <3>1 DEF TapKeys, Contract!TapCall
    <3>2. CASE result # "ok"
      <4> DEFINE left == down \intersect TapKeys(tap)
      <4>1. left \in SUBSET TapKeys(tap)
        OBVIOUS
      <4>2. before'.down = (before.down \ TapKeys(tap)) \union left
        BY <2>2, <2>3
      <4> QED BY <2>2, <3>2, <4>1, <4>2 DEF TapKeys, Contract!TapCall
    <3> QED BY <3>1, <3>2
  <2> QED BY <2>1, <2>5 DEF Contract!ContractNext
<1>2. CASE \E k \in Key, mods \in Chords : BeginTap(k, mods)
  BY <1>2 DEF BeginTap, Note, Contract!contractVars
<1> QED BY <1>1, <1>2 DEF FacadeLocal

-------------------------------------------------------------------------------
(* How a chord nests: the modifier keys tap has pressed stand in pressed   *)
(* in the order of Order, without a gap, and the keys of its own that are  *)
(* down are just those it has still to release.                            *)
KeyOf(i) == modifierToKey[Order[i]]
Own == ModifierKeys(tap.mods) \ (before.down \union refusedUp \union {tap.key})

Ascending ==
  \A p, q \in 1..Len(pressed), i, j \in 1..5 :
    (p < q /\ pressed[p] = KeyOf(i) /\ pressed[q] = KeyOf(j)) => i < j
Behind == pc = "modifiers" => \A i \in 1..5 : KeyOf(i) \in ToRelease => i < next
Gapless ==
  \A i, j \in 1..5 :
    (i < j /\ KeyOf(j) \in ToRelease /\ Order[i] \in tap.mods) => KeyOf(i) \in ToRelease
OwnDown == Own \intersect down = Own \intersect ToRelease

NestInv == Ascending /\ Behind /\ (pc # "idle" => Gapless /\ OwnDown)

(* The left keys of the modifiers are all different.                       *)
LEMMA KeyOfInjective == \A i, j \in 1..5 : KeyOf(i) = KeyOf(j) => i = j
BY DEF KeyOf, Order, modifierToKey

(* Every modifier key of a chord has its place.                            *)
LEMMA KeyOfChord ==
  ASSUME KeyboardInv, NEW k \in ModifierKeys(tap.mods)
  PROVE  \E i \in 1..5 : k = KeyOf(i) /\ Order[i] \in tap.mods
<1>1. PICK m \in tap.mods : k = modifierToKey[m]
  BY DEF ModifierKeys
<1>2. m \in Modifier
  BY ChordsAssumption DEF KeyboardInv, KeyboardTypeOK
<1> QED BY <1>1, <1>2, OrderIs DEF KeyOf

(* The loop passes the modifiers in order.                                 *)
LEMMA PressModifierNests ==
  ASSUME KeyboardInv, Frame, NestInv, NEW k \in Key, NEW r \in Outcome,
         PressModifier(k, r), Device(k, TRUE, r), Note
  PROVE  NestInv'
<1>1. /\ down' = (IF r = "ok" THEN down \union {k} ELSE down)
      /\ pc = "modifiers" /\ pc' # "idle" /\ Own' = Own
      /\ r # "ok" => pc' = "unwind" /\ pressed' = pressed
      /\ tap' = tap
  BY DEF Device, Deliver, PressModifier, Note, Own
<1>2. CASE r # "ok"
  <2>1. ToRelease' = ToRelease
    BY <1>1, <1>2 DEF ToRelease
  <2> QED BY <1>1, <1>2, <2>1 DEF NestInv, Ascending, Behind, Gapless, OwnDown
<1>3. CASE r = "ok"
  <2>1. PICK n \in Wanted : (\A j \in Wanted : n <= j) /\ k = KeyOf(n) /\ next' = n + 1
    BY <1>3 DEF PressModifier, KeyOf
  <2>2. n \in 1..5 /\ next <= n /\ next \in 1..6 /\ Order[n] \in tap.mods
    BY <2>1, OrderIs DEF Wanted, KeyboardInv, KeyboardTypeOK
  <2>3. /\ pressed \in Seq(Key) /\ pressed' = Append(pressed, k)
        /\ ToRelease' = ToRelease \union {k}
    BY <1>3, AppendToRelease DEF PressModifier, KeyboardInv, KeyboardTypeOK
  <2>4. Behind'
    BY <1>1, <2>1, <2>2, <2>3, KeyOfInjective DEF NestInv, Behind
  <2>5. Ascending'
    <3> SUFFICES ASSUME NEW p \in 1..Len(pressed'), NEW q \in 1..Len(pressed'),
                        NEW i \in 1..5, NEW j \in 1..5, p < q,
                        pressed'[p] = KeyOf(i), pressed'[q] = KeyOf(j)
                 PROVE  i < j
      BY DEF Ascending, KeyOf
    <3>1. /\ Len(pressed) \in Nat /\ Len(pressed') = Len(pressed) + 1
          /\ \A m \in 1..Len(pressed) : pressed'[m] = pressed[m]
          /\ pressed'[Len(pressed) + 1] = k
      BY <2>3
    <3>2. p \in 1..Len(pressed) /\ pressed[p] = KeyOf(i)
      BY <3>1
    <3>3. CASE q <= Len(pressed)
      BY <3>1, <3>2, <3>3 DEF NestInv, Ascending
    <3>4. CASE q = Len(pressed) + 1
      <4>1. j = n
        BY <2>1, <2>2, <3>1, <3>4, KeyOfInjective
      <4>2. i < next
        BY <1>1, <3>2 DEF NestInv, Behind, ToRelease
      <4> QED BY <2>2, <4>1, <4>2
    <3> QED BY <3>1, <3>3, <3>4
  <2>6. Gapless'
    <3> SUFFICES ASSUME NEW i \in 1..5, NEW j \in 1..5, i < j, KeyOf(j) \in ToRelease \union {k},
                        Order[i] \in tap.mods
                 PROVE  KeyOf(i) \in ToRelease \union {k}
      BY <1>1, <2>3 DEF Gapless, KeyOf
    <3>1. CASE KeyOf(j) \in ToRelease
      BY <1>1, <3>1 DEF NestInv, Gapless
    <3>2. CASE KeyOf(j) = k
      <4>1. j = n
        BY <2>1, <2>2, <3>2, KeyOfInjective
      <4>2. i \notin Wanted
        BY <2>1, <2>2, <4>1
      <4>3. i < next
        BY <2>2, <4>2, OrderIs DEF Wanted
      <4> QED BY <1>1, <4>3, OrderIs DEF KeyboardInv, LoopProgress, KeyOf
    <3> QED BY <3>1, <3>2
  <2>7. OwnDown'
    BY <1>1, <1>3, <2>3 DEF NestInv, OwnDown
  <2> QED BY <2>4, <2>5, <2>6, <2>7 DEF NestInv
<1> QED BY <1>2, <1>3

(* The last modifier pressed, the first to come up, is the highest of those *)
(* that are left.                                                          *)
LEMMA ReleaseModifierNests ==
  ASSUME KeyboardInv, Frame, NestInv, NEW k \in Key, NEW r \in Outcome,
         ReleaseModifier(k, r), Device(k, FALSE, r), Note
  PROVE  NestInv'
<1> DEFINE n == Len(pressed)
<1>1. /\ pc = "unwind" /\ pc' = "unwind" /\ tap' = tap /\ before' = before
      /\ k = pressed[n] /\ pressed # <<>> /\ pressed \in Seq(Key)
      /\ pressed' = SubSeq(pressed, 1, n - 1)
  BY DEF ReleaseModifier, Note, KeyboardInv, KeyboardTypeOK
<1>2. /\ n \in Nat \ {0} /\ Len(pressed') = n - 1
      /\ \A m \in 1..(n - 1) : pressed'[m] = pressed[m]
  <2>1. Len(pressed) \in Nat \ {0}
    BY <1>1
  <2>2. /\ Len(pressed') = Len(pressed) - 1
        /\ \A m \in 1..(Len(pressed) - 1) : pressed'[m] = pressed[m]
    BY <1>1, FrontProperties
  <2> QED BY <2>1, <2>2
<1>3. /\ down' = (IF r = "ok" THEN down \ {k} ELSE down)
      /\ refusedUp' = (IF r = "ok" THEN refusedUp \ {k} ELSE refusedUp \union {k})
  BY DEF Device, Deliver, ReleaseModifier, NoteUp
<1>4. PICK h \in 1..5 : k = KeyOf(h)
  <2>1. k \in ModifierKeys(tap.mods)
    BY <1>1, <1>2 DEF Frame, ToRelease
  <2> QED BY <2>1, KeyOfChord
<1>5. ASSUME NEW m \in 1..(n - 1), NEW j \in 1..5, pressed[m] = KeyOf(j)
      PROVE  j < h
  <2>1. m \in 1..Len(pressed) /\ n \in 1..Len(pressed) /\ m < n
    BY <1>2
  <2>2. pressed[n] = KeyOf(h)
    BY <1>1, <1>4
  <2> HIDE DEF n
  <2> QED BY <2>1, <2>2, <1>5 DEF NestInv, Ascending
<1>6. ToRelease' = ToRelease \ {k}
  <2>1. ToRelease \subseteq ToRelease' \union {k}
    BY <1>1, PopToRelease
  <2>2. ToRelease' \subseteq ToRelease
    BY <1>2 DEF ToRelease
  <2>3. k \notin ToRelease'
    BY <1>2, <1>4, <1>5 DEF ToRelease
  <2> QED BY <2>1, <2>2, <2>3
<1>7. Ascending'
  BY <1>2 DEF NestInv, Ascending, KeyOf
<1>8. Gapless'
  <2> SUFFICES ASSUME NEW i \in 1..5, NEW j \in 1..5, i < j, KeyOf(j) \in ToRelease',
                      Order[i] \in tap.mods
               PROVE  KeyOf(i) \in ToRelease'
    BY <1>1 DEF Gapless, KeyOf
  <2>1. j < h
    BY <1>2, <1>5 DEF ToRelease
  <2>2. KeyOf(i) \in ToRelease
    BY <1>1, <1>6 DEF NestInv, Gapless
  <2>3. KeyOf(i) # k
    BY <1>4, <2>1, KeyOfInjective
  <2> QED BY <1>6, <2>2, <2>3
<1>9. OwnDown'
  <2>1. Own' \ {k} = Own \ {k}
    BY <1>1, <1>3 DEF Own
  <2>2. r # "ok" => k \notin Own'
    BY <1>3 DEF Own
  <2> QED BY <1>1, <1>3, <1>6, <2>1, <2>2 DEF NestInv, OwnDown
<1> QED BY <1>1, <1>7, <1>8, <1>9 DEF NestInv, Behind

(* Steps that leave pressed and the chord's own keys alone.                *)
LEMMA OtherNests ==
  ASSUME NestInv, pc # "idle", pc' \notin {"idle", "modifiers"},
         UNCHANGED <<tap, before, pressed>>,
         down' \ {tap.key} = down \ {tap.key},
         refusedUp' \ {tap.key} = refusedUp \ {tap.key}
  PROVE  NestInv'
<1>1. Own' = Own /\ tap.key \notin Own
  BY DEF Own
<1>2. ToRelease' = ToRelease
  BY DEF ToRelease
<1>3. Ascending' /\ Behind' /\ Gapless'
  BY <1>2 DEF NestInv, Ascending, Behind, Gapless, KeyOf
<1>4. OwnDown'
  BY <1>1, <1>2 DEF NestInv, OwnDown
<1> QED BY <1>3, <1>4 DEF NestInv

-------------------------------------------------------------------------------
(* A step of the facade over an atomic device. *)
DeviceStep ==
  \/ \E k \in Key, r \in Outcome : FacadeDown(k, r) /\ Device(k, TRUE, r) /\ Note
  \/ \E k \in Key, r \in Outcome : FacadeUp(k, r) /\ Device(k, FALSE, r) /\ Note
  \/ FacadeLocal /\ UNCHANGED down /\ Note

DeviceSpec == KeyboardInit /\ [][DeviceStep]_keyboardVars

(* Every step keeps the nesting.                                           *)
LEMMA StepNests ==
  ASSUME KeyboardInv, Frame, NestInv, [DeviceStep]_keyboardVars
  PROVE  NestInv'
<1>1. ASSUME NEW k \in Key, NEW r \in Outcome, FacadeDown(k, r), Device(k, TRUE, r), Note
      PROVE  NestInv'
  <2>1. CASE Press(k, r)
    BY <2>1 DEF Press, NestInv, Ascending, Behind, KeyOf
  <2>2. CASE PressModifier(k, r)
    BY <1>1, <2>2, PressModifierNests
  <2>3. CASE PressKey(k, r)
    <3>1. /\ pc # "idle" /\ pc' \notin {"idle", "modifiers"} /\ k = tap.key
          /\ UNCHANGED <<tap, before, pressed, refusedUp>>
      BY <1>1, <2>3 DEF PressKey, Note
    <3>2. down' \ {tap.key} = down \ {tap.key}
      BY <1>1, <3>1 DEF Device, Deliver
    <3> QED BY <3>1, <3>2, OtherNests
  <2> QED BY <1>1, <2>1, <2>2, <2>3 DEF FacadeDown
<1>2. ASSUME NEW k \in Key, NEW r \in Outcome, FacadeUp(k, r), Device(k, FALSE, r), Note
      PROVE  NestInv'
  <2>1. CASE Release(k, r)
    BY <2>1 DEF Release, NestInv, Ascending, Behind, KeyOf
  <2>2. CASE ReleaseModifier(k, r)
    BY <1>2, <2>2, ReleaseModifierNests
  <2>3. CASE ReleaseKey(k, r)
    <3>1. /\ pc # "idle" /\ pc' \notin {"idle", "modifiers"} /\ k = tap.key
          /\ UNCHANGED <<tap, before, pressed>>
      BY <1>2, <2>3 DEF ReleaseKey, Note
    <3>2. down' \ {tap.key} = down \ {tap.key}
      BY <1>2, <3>1 DEF Device, Deliver
    <3>3. refusedUp' \ {tap.key} = refusedUp \ {tap.key}
      BY <2>3, <3>1 DEF ReleaseKey, NoteUp
    <3> QED BY <3>1, <3>2, <3>3, OtherNests
  <2> QED BY <1>2, <2>1, <2>2, <2>3 DEF FacadeUp
<1>3. CASE EndTap
  BY <1>3 DEF EndTap, NestInv, Ascending, Behind, KeyOf
<1>4. ASSUME NEW k \in Key, NEW mods \in Chords, BeginTap(k, mods), UNCHANGED down, Note
      PROVE  NestInv'
  <2>1. pc' = "modifiers" /\ before' = before /\ before.down = down /\ pressed' = <<>>
    BY <1>4 DEF BeginTap, Note, Frame
  <2>2. ToRelease' = {}
    BY <2>1 DEF ToRelease
  <2>3. OwnDown'
    BY <1>4, <2>1, <2>2 DEF OwnDown, Own
  <2> QED BY <2>1, <2>2, <2>3 DEF NestInv, Ascending, Behind, Gapless
<1>5. CASE UNCHANGED keyboardVars
  BY <1>5 DEF keyboardVars, facadeVars, NestInv, Ascending, Behind, Gapless, OwnDown, Own,
     ToRelease, KeyOf
<1> QED BY <1>1, <1>2, <1>3, <1>4, <1>5 DEF DeviceStep, FacadeLocal

(* Every step keeps the invariant and is a step of the contract or none.   *)
LEMMA StepInv ==
  ASSUME KeyboardInv, Frame, [DeviceStep]_keyboardVars
  PROVE  /\ KeyboardInv'
         /\ Frame'
         /\ [Contract!ContractNext]_(Contract!contractVars)
<1>1. CASE \E k \in Key, r \in Outcome : FacadeDown(k, r) /\ Device(k, TRUE, r) /\ Note
  BY <1>1, DownStepInv, DownStepFrame, DownStepRefines
<1>2. CASE \E k \in Key, r \in Outcome : FacadeUp(k, r) /\ Device(k, FALSE, r) /\ Note
  BY <1>2, UpStepInv, UpStepFrame, UpStepRefines
<1>3. CASE FacadeLocal /\ UNCHANGED down /\ Note
  BY <1>3, LocalStepInv, LocalStepFrame, LocalStepRefines
<1>4. CASE UNCHANGED keyboardVars
  <2>1. KeyboardInv'
    BY <1>4, StutterInv
  <2>2. Frame' /\ UNCHANGED Contract!contractVars
    BY <1>4 DEF keyboardVars, facadeVars, Frame, ToRelease, Contract!contractVars
  <2> QED BY <2>1, <2>2
<1> QED BY <1>1, <1>2, <1>3, <1>4 DEF DeviceStep

(* The inductive invariant of the facade over an atomic device.            *)
LEMMA DeviceInv == DeviceSpec => [](KeyboardInv /\ Frame /\ NestInv)
<1>1. KeyboardInit => KeyboardInv /\ Frame /\ NestInv
  BY InitInv DEF KeyboardInit, Frame, NestInv, Ascending, Behind
<1>2. KeyboardInv /\ Frame /\ NestInv /\ [DeviceStep]_keyboardVars =>
        (KeyboardInv /\ Frame /\ NestInv)'
  BY StepInv, StepNests
<1> QED BY <1>1, <1>2, PTL DEF DeviceSpec

-------------------------------------------------------------------------------
(* Whatever the backend, if it delivers an event or refuses it: every      *)
(* variable keeps its type, no tap leaves a key down that the caller does  *)
(* not hold, unless the release of that very key failed, and the main key  *)
(* of a chord is never down without all its modifiers.                     *)
THEOREM DeviceSafe == DeviceSpec => [](KeyboardTypeOK /\ NoStuckKey /\ ChordComplete)
<1>1. KeyboardInv => KeyboardTypeOK /\ NoStuckKey /\ ChordComplete
  BY InvImpliesNoStuckKey DEF KeyboardInv
<1> QED BY <1>1, DeviceInv, PTL

(* Over any such backend, a tap that answers ok has left none of its keys  *)
(* down.                                                                   *)
THEOREM DeviceOkMeansReleased == DeviceSpec => OkMeansReleased
<1> DEFINE Released ==
      (pc = "unwind" /\ pc' = "idle" /\ result' = "ok") => TapKeys(tap) \intersect down' = {}
<1>1. KeyboardInv /\ [DeviceStep]_keyboardVars => Released
  <2> SUFFICES ASSUME KeyboardInv, [DeviceStep]_keyboardVars,
                      pc = "unwind", pc' = "idle", result' = "ok"
               PROVE  TapKeys(tap) \intersect down' = {}
    OBVIOUS
  <2>1. EndTap /\ UNCHANGED down
    BY DEF DeviceStep, FacadeDown, Press, PressModifier, PressKey, FacadeUp, Release,
           ReleaseKey, ReleaseModifier, FacadeLocal, BeginTap, keyboardVars, facadeVars
  <2>2. ToRelease = {} /\ result = "ok"
    BY <2>1 DEF EndTap, ToRelease
  <2> QED BY <2>1, <2>2 DEF KeyboardInv, UnwindProgress
<1>2. KeyboardInv /\ [DeviceStep]_keyboardVars => [Released]_keyboardVars
  BY <1>1
<1> QED BY <1>2, DeviceInv, PTL DEF DeviceSpec, OkMeansReleased

(* Over any such backend the keys a tap has added come up in the reverse   *)
(* of the order they went down, for every chord, whatever fails.           *)
THEOREM DeviceNestedChord == DeviceSpec => []NestedChord
<1>1. KeyboardInv /\ NestInv => NestedChord
  <2> SUFFICES ASSUME KeyboardInv, NestInv, pc # "idle", NEW i \in 1..5, NEW j \in 1..5, i < j,
                      KeyOf(i) \in Own, KeyOf(j) \in Own, KeyOf(j) \in down
               PROVE  KeyOf(i) \in down
    BY OrderIs DEF NestedChord, Own, KeyOf
  <2>1. KeyOf(j) \in ToRelease
    BY DEF NestInv, OwnDown
  <2>2. Order[i] \in tap.mods
    <3>1. KeyOf(i) \in ModifierKeys(tap.mods)
      BY DEF Own
    <3>2. PICK h \in 1..5 : KeyOf(i) = KeyOf(h) /\ Order[h] \in tap.mods
      BY <3>1, KeyOfChord
    <3> QED BY <3>2, KeyOfInjective
  <2>3. KeyOf(i) \in ToRelease
    BY <2>1, <2>2 DEF NestInv, Gapless
  <2> QED BY <2>3 DEF NestInv, OwnDown
<1> QED BY <1>1, DeviceInv, PTL

(* Over any such backend the keyboard is the contract to its caller: each  *)
(* call one step, complete when it succeeds, confined to its own keys when *)
(* it fails.                                                               *)
THEOREM DeviceImplementsContract == DeviceSpec => ImplementsContract
<1>1. KeyboardInit => Contract!ContractInit
  BY DEF KeyboardInit, Contract!ContractInit
<1>2. KeyboardInv /\ Frame /\ [DeviceStep]_keyboardVars =>
        [Contract!ContractNext]_(Contract!contractVars)
  BY StepInv
<1> QED BY <1>1, <1>2, DeviceInv, PTL DEF DeviceSpec, ImplementsContract, Contract!ContractSpec

-------------------------------------------------------------------------------
(* SendInput inserts an event or does nothing: Windows is an atomic device. *)
LEMMA WinIsDevice ==
  ASSUME NEW k, NEW isDown, NEW r, winSendKey(k, isDown, r)
  PROVE  Device(k, isDown, r)
BY DEF winSendKey, sendScanCode, Device

(* The Windows keyboard is the facade over such a device. *)
THEOREM WinImplementsDevice == WinSpec => DeviceSpec
<1>1. [WinNext]_keyboardVars => [DeviceStep]_keyboardVars
  BY WinIsDevice DEF WinNext, winKeyDown, winKeyUp, DeviceStep
<1> QED BY <1>1, PTL DEF WinSpec, DeviceSpec

(* Every variable keeps its type, whatever keys and chords callers use.    *)
THEOREM WinTypeCorrect == WinSpec => []KeyboardTypeOK
BY WinImplementsDevice, DeviceSafe, PTL

(* No tap, however it fails, leaves a key down that the caller does not    *)
(* hold, unless the release of that very key failed.                       *)
THEOREM WinNoStuckKey == WinSpec => []NoStuckKey
BY WinImplementsDevice, DeviceSafe, PTL

(* The main key of a chord is never down without all its modifiers.        *)
THEOREM WinChordComplete == WinSpec => []ChordComplete
BY WinImplementsDevice, DeviceSafe, PTL

(* A tap that answers ok has left none of its keys down.                   *)
THEOREM WinOkMeansReleased == WinSpec => OkMeansReleased
BY WinImplementsDevice, DeviceOkMeansReleased, PTL

(* The keys of a chord nest.                                               *)
THEOREM WinNestedChord == WinSpec => []NestedChord
BY WinImplementsDevice, DeviceNestedChord, PTL

(* To its caller the Windows keyboard is the contract.                     *)
THEOREM WinImplementsContract == WinSpec => ImplementsContract
BY WinImplementsDevice, DeviceImplementsContract, PTL

-------------------------------------------------------------------------------
(* Only mapped keys reach the event source, to go down or to be refused.   *)
HeldTypeOK ==
  /\ down \subseteq KeycodeKey
  /\ heldModifiers \subseteq {k \in KeycodeKey : isModifierKey(k)}
  /\ eventFlags \subseteq {FlagOf[k] : k \in DOMAIN FlagOf}
  /\ refusedDown \subseteq KeycodeKey

(* Why a ghost was refused, at every step: a modifier believed held is the *)
(* caller's, has a failed press, or is one tap is about to release.        *)
GhostAccounted ==
  heldModifiers \subseteq
    caller \union refusedDown
           \union (IF pc \in {"modifiers", "keyUp", "unwind"} THEN ToRelease ELSE {})
           \union (IF pc = "keyUp" THEN {tap.key} ELSE {})

(* Why a chord has its flags: the modifiers pressed so far are held.       *)
HeldLoop ==
  pc = "modifiers" =>
    \A j \in 1..Len(Order) :
      (j < next /\ Order[j] \in tap.mods) => modifierToKey[Order[j]] \in heldModifiers

(* The held set and the keys that are down part only over refused keys.    *)
HeldTracksDown ==
  /\ heldModifiers \ down \subseteq refusedDown
  /\ {k \in down : isModifierKey(k)} \ heldModifiers \subseteq refusedUp

(* No change of the held set after the last event, but by a refused key.   *)
FlagsCurrent ==
  refusedDown \union refusedUp \subseteq Key \ KeycodeKey =>
    eventFlags = macModifierFlags(heldModifiers)

HeldInv ==
  HeldTypeOK /\ GhostAccounted /\ HeldLoop /\ HeldTracksDown /\ FlagsCurrent /\ ChordFlags

backendVars == <<heldModifiers, eventFlags, refusedDown>>

-------------------------------------------------------------------------------
(* An event is posted or it is not: macOS is an atomic device for down.    *)
LEMMA MacIsDevice ==
  ASSUME NEW k, NEW isDown, NEW r, postKey(k, isDown, r)
  PROVE  Device(k, isDown, r)
BY DEF postKey, Device

(* The keys of the logical modifiers are modifier keys.                    *)
LEMMA ModifiersAreModifierKeys ==
  \A m \in Modifier : isModifierKey(modifierToKey[m])
BY OrderIs DEF isModifierKey, FlagOf, modifierToKey

(* The flags of a set of keys are flags.                                   *)
LEMMA FlagsType ==
  ASSUME NEW S
  PROVE  macModifierFlags(S) \subseteq {FlagOf[k] : k \in DOMAIN FlagOf}
BY DEF macModifierFlags, isModifierKey

(* What a keyDown leaves in the backend.                                      *)
LEMMA DownEffect ==
  ASSUME HeldTypeOK, HeldTracksDown, FlagsCurrent, NEW k \in Key, NEW r \in Outcome,
         macKeyDown(k, r), refusedUp' = refusedUp
  PROVE  /\ HeldTypeOK' /\ HeldTracksDown' /\ FlagsCurrent'
         /\ heldModifiers \subseteq heldModifiers'
         /\ heldModifiers' \subseteq heldModifiers \union {k}
         /\ (r # "ok" /\ heldModifiers' # heldModifiers) => k \in refusedDown'
         /\ refusedDown \subseteq refusedDown'
         /\ r = "ok" => /\ isModifierKey(k) => k \in heldModifiers'
                        /\ eventFlags' = macModifierFlags(heldModifiers')
<1> USE DEF macKeyDown, postKey, HasKeycode, trackModifier
<1>1. CASE k \notin KeycodeKey
  BY <1>1 DEF HeldTypeOK, HeldTracksDown, FlagsCurrent
<1>2. CASE k \in KeycodeKey /\ r = "ok"
  <2>1. /\ heldModifiers' = IF isModifierKey(k) THEN heldModifiers \union {k}
                                                ELSE heldModifiers
        /\ refusedDown' = refusedDown
        /\ eventFlags' = macModifierFlags(heldModifiers')
        /\ down' = down \union {k}
    BY <1>2 DEF Deliver
  <2>2. HeldTypeOK'
    BY <1>2, <2>1, FlagsType DEF HeldTypeOK
  <2>3. HeldTracksDown'
    BY <1>2, <2>1 DEF HeldTracksDown
  <2> QED BY <1>2, <2>1, <2>2, <2>3 DEF FlagsCurrent
<1>3. CASE k \in KeycodeKey /\ r # "ok"
  <2>1. /\ heldModifiers' = IF isModifierKey(k) THEN heldModifiers \union {k}
                                                ELSE heldModifiers
        /\ refusedDown' = refusedDown \union {k}
        /\ eventFlags' = eventFlags
        /\ down' = down
    BY <1>3
  <2>2. HeldTypeOK'
    BY <1>3, <2>1 DEF HeldTypeOK
  <2>3. HeldTracksDown'
    BY <1>3, <2>1 DEF HeldTracksDown
  <2> QED BY <1>3, <2>1, <2>2, <2>3 DEF FlagsCurrent
<1> QED BY <1>1, <1>2, <1>3

(* What a keyUp leaves in the backend.                                        *)
LEMMA UpEffect ==
  ASSUME HeldTypeOK, HeldTracksDown, FlagsCurrent, NEW k \in Key, NEW r \in Outcome,
         macKeyUp(k, r), NoteUp(k, r)
  PROVE  /\ HeldTypeOK' /\ HeldTracksDown' /\ FlagsCurrent'
         /\ heldModifiers' \subseteq heldModifiers \ {k}
         /\ refusedDown \subseteq refusedDown' \union {k}
<1> USE DEF macKeyUp, postKey, HasKeycode, trackModifier, NoteUp
<1>1. CASE k \notin KeycodeKey
  BY <1>1 DEF HeldTypeOK, HeldTracksDown, FlagsCurrent
<1>2. CASE k \in KeycodeKey
  <2>1. /\ heldModifiers' = heldModifiers \ {k}
        /\ refusedDown' = refusedDown \ {k}
    BY <1>2 DEF HeldTypeOK
  <2>2. CASE r = "ok"
    <3>1. /\ eventFlags' = macModifierFlags(heldModifiers')
          /\ down' = down \ {k}
          /\ refusedUp' = refusedUp \ {k}
      BY <1>2, <2>2 DEF Deliver
    <3>2. HeldTypeOK'
      BY <2>1, <3>1, FlagsType DEF HeldTypeOK
    <3>3. HeldTracksDown'
      BY <2>1, <3>1 DEF HeldTracksDown
    <3> QED BY <2>1, <3>1, <3>2, <3>3 DEF FlagsCurrent
  <2>3. CASE r # "ok"
    <3>1. eventFlags' = eventFlags /\ down' = down /\ refusedUp' = refusedUp \union {k}
      BY <1>2, <2>3
    <3>2. HeldTypeOK'
      BY <2>1, <3>1 DEF HeldTypeOK
    <3>3. HeldTracksDown'
      BY <2>1, <3>1 DEF HeldTracksDown
    <3> QED BY <1>2, <2>1, <3>1, <3>2, <3>3 DEF FlagsCurrent
  <2> QED BY <2>2, <2>3
<1> QED BY <1>1, <1>2

-------------------------------------------------------------------------------
(* The modifiers of a chord come from Modifier, whose keys come from Key.  *)
LEMMA TapModifiers ==
  ASSUME KeyboardTypeOK, NEW m \in tap.mods
  PROVE  \E j \in 1..Len(Order) : m = Order[j]
BY OrderIs, ChordsAssumption DEF KeyboardTypeOK

(* The invariant of the held set over press, and the presses of tap.       *)
LEMMA DownStepHeld ==
  ASSUME KeyboardInv, HeldInv, NEW k \in Key, NEW r \in Outcome,
         FacadeDown(k, r), macKeyDown(k, r)
  PROVE  HeldInv'
<1> USE DEF HeldInv
<1>1. refusedUp' = refusedUp
  BY DEF FacadeDown, Press, PressModifier, PressKey
<1>2. /\ HeldTypeOK' /\ HeldTracksDown' /\ FlagsCurrent'
      /\ heldModifiers \subseteq heldModifiers'
      /\ heldModifiers' \subseteq heldModifiers \union {k}
      /\ (r # "ok" /\ heldModifiers' # heldModifiers) => k \in refusedDown'
      /\ refusedDown \subseteq refusedDown'
      /\ r = "ok" => /\ isModifierKey(k) => k \in heldModifiers'
                     /\ eventFlags' = macModifierFlags(heldModifiers')
  BY <1>1, DownEffect
<1>3. CASE Press(k, r)
  BY <1>2, <1>3 DEF Press, GhostAccounted, HeldLoop, ChordFlags
<1>4. CASE PressModifier(k, r)
  <2>1. PICK i \in Wanted : /\ \A j \in Wanted : i <= j
                            /\ k = modifierToKey[Order[i]]
                            /\ next' = IF r = "ok" THEN i + 1 ELSE next
    BY <1>4 DEF PressModifier
  <2>2. i \in 1..5 /\ Order[i] \in Modifier
    BY <2>1, OrderIs DEF Wanted, KeyboardInv, KeyboardTypeOK, Modifier
  <2>3. r = "ok" => ToRelease' = ToRelease \union {k}
    BY <1>4, AppendToRelease DEF PressModifier, KeyboardInv, KeyboardTypeOK
  <2>4. r # "ok" => ToRelease' = ToRelease
    BY <1>4 DEF PressModifier, ToRelease
  <2>5. GhostAccounted'
    BY <1>2, <1>4, <2>3, <2>4 DEF PressModifier, GhostAccounted
  <2>6. HeldLoop'
    <3> SUFFICES ASSUME r = "ok", NEW j \in 1..5, j < i + 1, Order[j] \in tap.mods
                 PROVE  modifierToKey[Order[j]] \in heldModifiers'
      BY <1>4, <2>1, OrderIs DEF PressModifier, HeldLoop
    <3>1. CASE j < next
      BY <1>2, <1>4, <3>1, OrderIs DEF HeldLoop, PressModifier
    <3>2. CASE ~(j < next)
      <4>1. j \in Wanted
        BY <3>2, OrderIs DEF Wanted, KeyboardInv, KeyboardTypeOK
      <4>2. j = i
        BY <2>1, <2>2, <4>1 DEF Wanted, KeyboardInv, KeyboardTypeOK
      <4> QED BY <1>2, <2>1, <2>2, <4>2, ModifiersAreModifierKeys
    <3> QED BY <3>1, <3>2
  <2>7. ChordFlags'
    BY <1>4 DEF PressModifier, ChordFlags
  <2> QED BY <1>2, <2>5, <2>6, <2>7
<1>5. CASE PressKey(k, r)
  <2>1. ToRelease' = ToRelease
    BY <1>5 DEF PressKey, ToRelease
  <2>2. GhostAccounted' /\ HeldLoop'
    BY <1>2, <1>5, <2>1 DEF PressKey, GhostAccounted, HeldLoop
  <2>3. ModifierKeys(tap.mods) \subseteq heldModifiers
    <3> SUFFICES ASSUME NEW m \in tap.mods PROVE modifierToKey[m] \in heldModifiers
      BY DEF ModifierKeys
    <3>1. PICK j \in 1..5 : m = Order[j]
      BY TapModifiers, OrderIs DEF KeyboardInv
    <3>2. j < next
      BY <1>5, <3>1, OrderIs DEF PressKey, Wanted, KeyboardInv, KeyboardTypeOK
    <3> QED BY <1>5, <3>1, <3>2, OrderIs DEF PressKey, HeldLoop
  <2>4. ChordFlags'
    <3> SUFFICES ASSUME r = "ok"
                 PROVE  macModifierFlags(TapKeys(tap)) \subseteq eventFlags'
      BY <1>5 DEF PressKey, ChordFlags
    <3>1. {x \in TapKeys(tap) : isModifierKey(x)} \subseteq heldModifiers'
      BY <1>2, <1>5, <2>3 DEF PressKey, TapKeys
    <3>2. {x \in TapKeys(tap) : isModifierKey(x)} \subseteq
            {x \in heldModifiers' : isModifierKey(x)}
      BY <3>1
    <3> QED BY <1>2, <3>2 DEF macModifierFlags
  <2> QED BY <1>2, <2>2, <2>4
<1> QED BY <1>3, <1>4, <1>5 DEF FacadeDown

(* The same over release, and the releases of tap.                         *)
LEMMA UpStepHeld ==
  ASSUME KeyboardInv, HeldInv, NEW k \in Key, NEW r \in Outcome,
         FacadeUp(k, r), macKeyUp(k, r)
  PROVE  HeldInv'
<1> USE DEF HeldInv
<1>1. NoteUp(k, r)
  BY DEF FacadeUp, Release, ReleaseKey, ReleaseModifier
<1>2. /\ HeldTypeOK' /\ HeldTracksDown' /\ FlagsCurrent'
      /\ heldModifiers' \subseteq heldModifiers \ {k}
      /\ refusedDown \subseteq refusedDown' \union {k}
  BY <1>1, UpEffect
<1>3. CASE Release(k, r)
  BY <1>2, <1>3 DEF Release, GhostAccounted, HeldLoop, ChordFlags
<1>4. CASE ReleaseKey(k, r)
  <2>1. ToRelease' = ToRelease
    BY <1>4 DEF ReleaseKey, ToRelease
  <2> QED BY <1>2, <1>4, <2>1 DEF ReleaseKey, GhostAccounted, HeldLoop, ChordFlags
<1>5. CASE ReleaseModifier(k, r)
  <2>1. ToRelease \subseteq ToRelease' \union {k}
    BY <1>5, PopToRelease DEF ReleaseModifier, KeyboardInv, KeyboardTypeOK
  <2> QED BY <1>2, <1>5, <2>1 DEF ReleaseModifier, GhostAccounted, HeldLoop, ChordFlags
<1> QED BY <1>3, <1>4, <1>5 DEF FacadeUp

(* The same over the beginning and the end of tap.                         *)
LEMMA LocalStepHeld ==
  ASSUME HeldInv, FacadeLocal, UNCHANGED <<backendVars, down>>
  PROVE  HeldInv'
<1> USE DEF HeldInv
<1>1. UNCHANGED <<heldModifiers, eventFlags, refusedDown, down>> /\ UNCHANGED <<caller, refusedUp>>
  BY DEF backendVars, FacadeLocal, EndTap, BeginTap
<1>2. HeldTypeOK' /\ HeldTracksDown' /\ FlagsCurrent'
  BY <1>1 DEF HeldTypeOK, HeldTracksDown, FlagsCurrent
<1>3. CASE EndTap
  <2>1. ToRelease = {}
    BY <1>3 DEF EndTap, ToRelease
  <2> QED BY <1>1, <1>2, <1>3, <2>1 DEF EndTap, GhostAccounted, HeldLoop, ChordFlags
<1>4. CASE \E k \in Key, mods \in Chords : BeginTap(k, mods)
  <2>1. pc = "idle" /\ pc' = "modifiers" /\ next' = 1
    BY <1>4 DEF BeginTap
  <2> QED BY <1>1, <1>2, <2>1, OrderIs DEF GhostAccounted, HeldLoop, ChordFlags
<1> QED BY <1>3, <1>4 DEF FacadeLocal

(* The macOS keyboard is the facade over such a device, with more to keep. *)
THEOREM MacImplementsDevice == MacSpec => DeviceSpec
<1>1. MacInit => KeyboardInit
  BY DEF MacInit
<1>2. [MacNext]_macVars => [DeviceStep]_keyboardVars
  BY MacIsDevice DEF MacNext, macKeyDown, macKeyUp, DeviceStep, macVars
<1> QED BY <1>1, <1>2, PTL DEF MacSpec, DeviceSpec

(* The initial states satisfy the invariant of the held set.               *)
LEMMA MacInitInv == MacInit => HeldInv
<1> SUFFICES ASSUME MacInit PROVE HeldInv
  OBVIOUS
<1>1. HeldTypeOK /\ GhostAccounted /\ HeldLoop /\ HeldTracksDown /\ ChordFlags
  BY DEF MacInit, KeyboardInit, HeldTypeOK, GhostAccounted, HeldLoop, HeldTracksDown, ChordFlags
<1>2. FlagsCurrent
  BY DEF MacInit, FlagsCurrent, macModifierFlags
<1> QED BY <1>1, <1>2 DEF HeldInv

(* Every step keeps it.                                                    *)
LEMMA MacNextInv ==
  ASSUME KeyboardInv, HeldInv, [MacNext]_macVars
  PROVE  HeldInv'
<1>1. CASE \E k \in Key, r \in Outcome : FacadeDown(k, r) /\ macKeyDown(k, r) /\ Note
  BY <1>1, DownStepHeld
<1>2. CASE \E k \in Key, r \in Outcome : FacadeUp(k, r) /\ macKeyUp(k, r) /\ Note
  BY <1>2, UpStepHeld
<1>3. CASE FacadeLocal /\ UNCHANGED <<heldModifiers, eventFlags, refusedDown, down>> /\ Note
  <2>1. UNCHANGED <<backendVars, down>>
    BY <1>3 DEF backendVars
  <2> QED BY <1>3, <2>1, LocalStepHeld
<1>4. CASE UNCHANGED macVars
  <2>1. UNCHANGED keyboardVars /\ UNCHANGED <<heldModifiers, eventFlags, refusedDown>>
    BY <1>4 DEF macVars
  <2>2. ToRelease' = ToRelease
    BY <2>1 DEF keyboardVars, facadeVars, ToRelease
  <2> QED
    BY <2>1, <2>2 DEF keyboardVars, facadeVars, HeldInv, HeldTypeOK, GhostAccounted,
       HeldLoop, HeldTracksDown, FlagsCurrent, ChordFlags
<1> QED BY <1>1, <1>2, <1>3, <1>4 DEF MacNext

(* The inductive invariant of the macOS keyboard.                          *)
LEMMA MacInvariant == MacSpec => [](KeyboardInv /\ HeldInv)
<1>1. KeyboardInv /\ HeldInv /\ [MacNext]_macVars => HeldInv'
  BY MacNextInv
<1> QED BY <1>1, MacInitInv, MacImplementsDevice, DeviceInv, PTL DEF MacSpec

-------------------------------------------------------------------------------
(* Every variable keeps its type; only modifier keys are ever held.        *)
THEOREM MacTypeCorrect == MacSpec => []MacTypeOK
<1>1. KeyboardInv /\ HeldInv => MacTypeOK
  BY KeycodeAssumption DEF KeyboardInv, HeldInv, HeldTypeOK, MacTypeOK
<1> QED BY <1>1, MacInvariant, PTL

(* No key is stuck, and no main key of a chord without its modifiers.      *)
THEOREM MacSafe == MacSpec => [](NoStuckKey /\ ChordComplete)
BY MacImplementsDevice, DeviceSafe, PTL

(* A tap that answers ok has left none of its keys down.                   *)
THEOREM MacOkMeansReleased == MacSpec => OkMeansReleased
BY MacImplementsDevice, DeviceOkMeansReleased, PTL

(* The keys of a chord nest.                                               *)
THEOREM MacNestedChord == MacSpec => []NestedChord
BY MacImplementsDevice, DeviceNestedChord, PTL

(* Once all that was refused has been released, events carry the flags of  *)
(* exactly the modifiers that are down.                                    *)
THEOREM MacFlagsReflectDown == MacSpec => []FlagsReflectDown
<1>1. HeldInv => FlagsReflectDown
  <2> SUFFICES ASSUME HeldInv, refusedDown \union refusedUp \subseteq Key \ KeycodeKey
               PROVE  eventFlags = macModifierFlags(down)
    BY DEF FlagsReflectDown
  <2>1. eventFlags = macModifierFlags(heldModifiers)
    BY DEF HeldInv, FlagsCurrent
  <2>2. refusedDown = {}
    BY DEF HeldInv, HeldTypeOK
  <2>3. {k \in down : isModifierKey(k)} = {k \in heldModifiers : isModifierKey(k)}
    BY <2>2 DEF HeldInv, HeldTypeOK, HeldTracksDown
  <2> QED BY <2>1, <2>3 DEF macModifierFlags
<1> QED BY <1>1, MacInvariant, PTL

(* The main key of a chord never arrives without the chord's flags.        *)
THEOREM MacChordFlags == MacSpec => []ChordFlags
<1>1. HeldInv => ChordFlags
  BY DEF HeldInv
<1> QED BY <1>1, MacInvariant, PTL

(* A modifier believed held is the caller's or one whose press failed.     *)
THEOREM MacGhostOnlyAfterRefusal == MacSpec => []GhostOnlyAfterRefusal
<1>1. HeldInv => GhostOnlyAfterRefusal
  BY DEF HeldInv, GhostAccounted, GhostOnlyAfterRefusal
<1> QED BY <1>1, MacInvariant, PTL

(* To its caller the macOS keyboard is the contract, as Windows' is.       *)
THEOREM MacImplementsContract == MacSpec => ImplementsContract
BY MacImplementsDevice, DeviceImplementsContract, PTL

-------------------------------------------------------------------------------
Bears(k, p) == Mapped(k) /\ Position(k) = p

(* The keys that explain a position that is down: those of                 *)
(* StuckKeyWasRefused and those the tap in progress is about to release.   *)
Owed ==
  caller \union refusedUp \union refusedPress
    \union (IF pc \in {"modifiers", "keyUp", "unwind"} THEN ToRelease ELSE {})
    \union (IF pc = "keyUp" THEN {tap.key} ELSE {})

PositionsOwed == \A p \in down \union deviceDown : \E k \in Owed : Bears(k, p)

(* Only before the first call of a tap does an ok mean nothing.            *)
Reported == (result = "ok" /\ pc # "modifiers") => down = deviceDown

(* The modifiers the loop has passed are down inside the device.           *)
LoopPositions ==
  pc = "modifiers" =>
    \A j \in 1..Len(Order) :
      (j < next /\ Order[j] \in tap.mods) =>
        \E p \in deviceDown : Bears(modifierToKey[Order[j]], p)

LinuxInv == LinuxTypeOK /\ PositionsOwed /\ Reported /\ LoopPositions /\ ChordPositions

-------------------------------------------------------------------------------
(* What a backend call does to the positions, whichever backend it is.     *)
LEMMA SendKeyEffect ==
  ASSUME LinuxTypeOK, NEW k \in Key, NEW isDown \in BOOLEAN, NEW r, sendKey(k, isDown, r)
  PROVE  LET q == Position(k)
             written == IF isDown THEN deviceDown \union {q} ELSE deviceDown \ {q}
         IN  /\ Mapped(k) => q \in Key
             /\ r = "ok" => Mapped(k) /\ deviceDown' = written /\ down' = deviceDown'
             /\ r # "ok" => down' = down
             /\ (r # "ok" /\ deviceDown' # deviceDown) =>
                  r = "platformError" /\ Mapped(k) /\ deviceDown' = written
<1>1. Mapped(k) => Position(k) \in Key
  BY LinuxAssumption DEF Mapped, Position
<1>2. CASE r = "ok"
  BY <1>1, <1>2 DEF sendKey, fakeKeyEvent, emit, writeKey, report
<1>3. CASE r # "ok"
  BY <1>1, <1>3 DEF sendKey, fakeKeyEvent, emit, writeKey, deviceVars
<1> QED BY <1>2, <1>3

(* A layout does not change during a session.                              *)
LEMMA SameLayout ==
  ASSUME UNCHANGED backend
  PROVE  \A k, p : Bears(k, p)' <=> Bears(k, p)
BY DEF Bears, Mapped, Position

(* The facade keeps its types over any device that keeps to positions.     *)
LEMMA FacadeTypes ==
  ASSUME KeyboardTypeOK, Note, down' \subseteq Key,
         \/ \E k \in Key, r \in Outcome : FacadeDown(k, r) \/ FacadeUp(k, r)
         \/ FacadeLocal
  PROVE  KeyboardTypeOK'
<1>1. ASSUME NEW k \in Key, NEW r \in Outcome, Press(k, r) PROVE KeyboardTypeOK'
  BY <1>1, NoteType DEF KeyboardTypeOK, Press
<1>2. ASSUME NEW k \in Key, NEW r \in Outcome, PressModifier(k, r) PROVE KeyboardTypeOK'
  <2>1. next' \in 1..6
    BY <1>2, OrderIs DEF PressModifier, Wanted, KeyboardTypeOK
  <2>2. pressed' \in Seq(Key)
    BY <1>2, AppendToRelease DEF PressModifier, KeyboardTypeOK
  <2> QED BY <1>2, <2>1, <2>2, NoteType, OrderIs DEF KeyboardTypeOK, PressModifier
<1>3. ASSUME NEW k \in Key, NEW r \in Outcome, PressKey(k, r) PROVE KeyboardTypeOK'
  BY <1>3, NoteType DEF KeyboardTypeOK, PressKey
<1>4. ASSUME NEW k \in Key, NEW r \in Outcome, Release(k, r) PROVE KeyboardTypeOK'
  BY <1>4, NoteType DEF KeyboardTypeOK, Release, NoteUp
<1>5. ASSUME NEW k \in Key, NEW r \in Outcome, ReleaseKey(k, r) PROVE KeyboardTypeOK'
  BY <1>5, NoteType DEF KeyboardTypeOK, ReleaseKey, NoteUp
<1>6. ASSUME NEW k \in Key, NEW r \in Outcome, ReleaseModifier(k, r) PROVE KeyboardTypeOK'
  <2>1. pressed' \in Seq(Key)
    BY <1>6, PopToRelease DEF ReleaseModifier, KeyboardTypeOK
  <2> QED BY <1>6, <2>1, NoteType DEF KeyboardTypeOK, ReleaseModifier, NoteUp, firstError
<1>7. CASE EndTap
  BY <1>7, NoteType DEF KeyboardTypeOK, EndTap
<1>8. CASE \E k \in Key, mods \in Chords : BeginTap(k, mods)
  BY <1>8, NoteType, OrderIs DEF KeyboardTypeOK, BeginTap, Outcome
<1> QED
  BY <1>1, <1>2, <1>3, <1>4, <1>5, <1>6, <1>7, <1>8 DEF FacadeDown, FacadeUp, FacadeLocal

-------------------------------------------------------------------------------
(* A key going down becomes owed, by the caller, by the tap or by a        *)
(* refusal; nothing that was owed is forgotten.                            *)
LEMMA DownKeepsInv ==
  ASSUME LinuxInv, NEW k \in Key, NEW r \in Outcome,
         FacadeDown(k, r), linuxKeyDown(k, r), Note, UNCHANGED backend
  PROVE  LinuxInv'
<1> DEFINE q == Position(k)
<1>1. /\ Mapped(k) => q \in Key
      /\ r = "ok" => Mapped(k) /\ deviceDown' = deviceDown \union {q} /\ down' = deviceDown'
      /\ r # "ok" => down' = down
      /\ (r # "ok" /\ deviceDown' # deviceDown) =>
           r = "platformError" /\ Mapped(k) /\ deviceDown' = deviceDown \union {q}
  BY SendKeyEffect DEF LinuxInv, linuxKeyDown
<1>2. refusedPress' = IF r = "platformError" THEN refusedPress \union {k} ELSE refusedPress
  BY DEF linuxKeyDown
<1>3. Mapped(k) => Bears(k, q)
  BY DEF Bears
<1> HIDE DEF q
<1>4. LinuxTypeOK'
  <2>1. down' \subseteq Key /\ deviceDown' \subseteq Key /\ refusedPress' \subseteq Key
    BY <1>1, <1>2 DEF LinuxInv, LinuxTypeOK, KeyboardTypeOK
  <2>2. KeyboardTypeOK'
    BY <2>1, FacadeTypes DEF LinuxInv, LinuxTypeOK
  <2> QED BY <2>1, <2>2 DEF LinuxInv, LinuxTypeOK
<1>5. Owed \subseteq Owed' /\ (r \in {"ok", "platformError"} => k \in Owed')
  <2>1. CASE Press(k, r)
    BY <1>2, <2>1 DEF Press, Owed, Outcome
  <2>2. CASE PressModifier(k, r)
    <3>1. /\ r = "ok" => ToRelease' = ToRelease \union {k}
          /\ r # "ok" => ToRelease' = ToRelease
      BY <2>2, AppendToRelease DEF LinuxInv, LinuxTypeOK, KeyboardTypeOK, PressModifier, ToRelease
    <3> QED BY <1>2, <2>2, <3>1 DEF PressModifier, Owed
  <2>3. CASE PressKey(k, r)
    <3>1. ToRelease' = ToRelease
      BY <2>3 DEF PressKey, ToRelease
    <3> QED BY <1>2, <2>3, <3>1 DEF PressKey, Owed
  <2> QED BY <2>1, <2>2, <2>3 DEF FacadeDown
<1>6. PositionsOwed'
  <2> SUFFICES ASSUME NEW p \in down' \union deviceDown'
               PROVE  \E h \in Owed' : Bears(h, p)
    BY SameLayout DEF PositionsOwed
  <2>1. CASE p \in down \union deviceDown
    BY <2>1, <1>5 DEF LinuxInv, PositionsOwed
  <2>2. CASE p \notin down \union deviceDown
    <3>1. p = q /\ Mapped(k) /\ r \in {"ok", "platformError"}
      BY <1>1, <2>2
    <3> QED BY <1>3, <1>5, <3>1
  <2> QED BY <2>1, <2>2
<1>7. Reported'
  BY <1>1 DEF LinuxInv, Reported, FacadeDown, Press, PressModifier, PressKey
<1>8. LoopPositions'
  <2>1. CASE PressModifier(k, r) /\ r = "ok"
    <3>1. PICK i \in Wanted : /\ \A j \in Wanted : i <= j
                              /\ k = modifierToKey[Order[i]]
                              /\ next' = i + 1
      BY <2>1 DEF PressModifier
    <3>2. i \in next..5
      BY <3>1, OrderIs DEF Wanted
    <3> SUFFICES ASSUME NEW j \in 1..5, j < i + 1, Order[j] \in tap.mods
                 PROVE  \E p \in deviceDown' : Bears(modifierToKey[Order[j]], p)
      BY <2>1, <3>1, OrderIs, SameLayout DEF PressModifier, LoopPositions
    <3>3. CASE j < next
      BY <1>1, <2>1, <3>3, OrderIs DEF LinuxInv, LoopPositions, PressModifier
    <3>4. CASE ~(j < next)
      <4>1. j \in Wanted
        BY <3>4, OrderIs DEF Wanted, LinuxInv, LinuxTypeOK, KeyboardTypeOK
      <4>2. j = i
        BY <3>1, <3>2, <4>1 DEF LinuxInv, LinuxTypeOK, KeyboardTypeOK
      <4> QED BY <1>1, <1>3, <2>1, <3>1, <4>2
    <3> QED BY <3>3, <3>4
  <2>2. CASE ~(PressModifier(k, r) /\ r = "ok")
    BY <2>2 DEF FacadeDown, Press, PressModifier, PressKey, LoopPositions
  <2> QED BY <2>1, <2>2
<1>9. ChordPositions'
  <2> SUFFICES ASSUME PressKey(k, r), r = "ok", NEW h \in TapKeys(tap)
               PROVE  \E p \in down' : Bears(h, p)
    BY SameLayout DEF FacadeDown, Press, PressModifier, PressKey, ChordPositions, Bears
  <2>1. CASE h = k
    BY <1>1, <1>3, <2>1
  <2>2. CASE h # k
    <3>1. PICK m \in tap.mods : h = modifierToKey[m]
      BY <2>2 DEF PressKey, TapKeys, ModifierKeys
    <3>2. PICK j \in 1..5 : m = Order[j]
      BY OrderIs, ChordsAssumption DEF LinuxInv, LinuxTypeOK, KeyboardTypeOK
    <3>3. j < next
      BY <3>2, OrderIs DEF PressKey, Wanted, LinuxInv, LinuxTypeOK, KeyboardTypeOK
    <3> QED BY <1>1, <3>1, <3>2, <3>3, OrderIs DEF PressKey, LinuxInv, LoopPositions
  <2> QED BY <2>1, <2>2
<1> QED BY <1>4, <1>6, <1>7, <1>8, <1>9 DEF LinuxInv

(* A release that is answered ok settles its own position and no other; a  *)
(* refused one becomes owed.                                               *)
LEMMA UpKeepsInv ==
  ASSUME LinuxInv, NEW k \in Key, NEW r \in Outcome,
         FacadeUp(k, r), linuxKeyUp(k, r), Note, UNCHANGED backend
  PROVE  LinuxInv'
<1> DEFINE q == Position(k)
<1>1. /\ r = "ok" => Mapped(k) /\ deviceDown' = deviceDown \ {q} /\ down' = deviceDown'
      /\ r # "ok" => down' = down
      /\ (r # "ok" /\ deviceDown' # deviceDown) => deviceDown' = deviceDown \ {q}
  <2>1. PICK isDown \in BOOLEAN : isDown = FALSE
    OBVIOUS
  <2>2. LinuxTypeOK /\ sendKey(k, isDown, r)
    BY <2>1 DEF LinuxInv, linuxKeyUp
  <2> QED BY <2>1, <2>2, SendKeyEffect
<1>2. /\ refusedPress' = IF r = "ok" THEN refusedPress \ {k} ELSE refusedPress
      /\ refusedUp' = IF r = "ok" THEN refusedUp \ {k} ELSE refusedUp \union {k}
  BY DEF linuxKeyUp, FacadeUp, Release, ReleaseKey, ReleaseModifier, NoteUp
<1>3. \A p : Bears(k, p) => p = q
  BY DEF Bears
<1> HIDE DEF q
<1>4. LinuxTypeOK'
  <2>1. down' \subseteq Key /\ deviceDown' \subseteq Key /\ refusedPress' \subseteq Key
    BY <1>1, <1>2 DEF LinuxInv, LinuxTypeOK, KeyboardTypeOK
  <2>2. KeyboardTypeOK'
    BY <2>1, FacadeTypes DEF LinuxInv, LinuxTypeOK
  <2> QED BY <2>1, <2>2 DEF LinuxInv, LinuxTypeOK
<1>5. Owed \ {k} \subseteq Owed' /\ (r # "ok" => k \in Owed')
  <2>1. CASE Release(k, r)
    BY <1>2, <2>1 DEF Release, Owed
  <2>2. CASE ReleaseKey(k, r)
    <3>1. ToRelease' = ToRelease
      BY <2>2 DEF ReleaseKey, ToRelease
    <3> QED BY <1>2, <2>2, <3>1 DEF ReleaseKey, Owed
  <2>3. CASE ReleaseModifier(k, r)
    <3>1. ToRelease \subseteq ToRelease' \union {k}
      BY <2>3, PopToRelease DEF ReleaseModifier, LinuxInv, LinuxTypeOK, KeyboardTypeOK
    <3> QED BY <1>2, <2>3, <3>1 DEF ReleaseModifier, Owed
  <2> QED BY <2>1, <2>2, <2>3 DEF FacadeUp
<1>6. PositionsOwed'
  <2> SUFFICES ASSUME NEW p \in down' \union deviceDown'
               PROVE  \E h \in Owed' : Bears(h, p)
    BY SameLayout DEF PositionsOwed
  <2>1. p \in down \union deviceDown /\ (r = "ok" => p # q)
    BY <1>1
  <2>2. PICK h \in Owed : Bears(h, p)
    BY <2>1 DEF LinuxInv, PositionsOwed
  <2> QED BY <1>3, <1>5, <2>1, <2>2
<1>7. Reported'
  BY <1>1 DEF LinuxInv, Reported, FacadeUp, Release, ReleaseKey, ReleaseModifier, firstError
<1>8. LoopPositions' /\ ChordPositions'
  BY DEF FacadeUp, Release, ReleaseKey, ReleaseModifier, LoopPositions, ChordPositions
<1> QED BY <1>4, <1>6, <1>7, <1>8 DEF LinuxInv

(* A tap begins and ends with nothing to release.                          *)
LEMMA LocalKeepsInv ==
  ASSUME LinuxInv, FacadeLocal, UNCHANGED <<deviceVars, refusedPress, backend>>, Note
  PROVE  LinuxInv'
<1>1. LinuxTypeOK'
  <2>1. down' \subseteq Key
    BY DEF deviceVars, LinuxInv, LinuxTypeOK, KeyboardTypeOK
  <2> QED BY <2>1, FacadeTypes DEF deviceVars, LinuxInv, LinuxTypeOK
<1>2. Owed \subseteq Owed'
  <2>1. CASE EndTap
    BY <2>1 DEF EndTap, Owed, ToRelease
  <2>2. CASE \E k \in Key, mods \in Chords : BeginTap(k, mods)
    BY <2>2 DEF BeginTap, Owed
  <2> QED BY <2>1, <2>2 DEF FacadeLocal
<1>3. PositionsOwed'
  BY <1>2, SameLayout DEF deviceVars, LinuxInv, PositionsOwed
<1>4. Reported'
  BY DEF deviceVars, LinuxInv, Reported, FacadeLocal, EndTap, BeginTap
<1>5. LoopPositions'
  <2>1. pc' # "modifiers" \/ next' = 1
    BY DEF FacadeLocal, EndTap, BeginTap
  <2> QED BY <2>1, OrderIs DEF LoopPositions
<1>6. ChordPositions'
  BY DEF ChordPositions, FacadeLocal, EndTap, BeginTap
<1> QED BY <1>1, <1>3, <1>4, <1>5, <1>6 DEF LinuxInv

(* Every step keeps the invariant. *)
LEMMA NextKeepsInv == LinuxInv /\ [LinuxNext]_linuxVars => LinuxInv'
<1> SUFFICES ASSUME LinuxInv, [LinuxNext]_linuxVars PROVE LinuxInv'
  OBVIOUS
<1>1. CASE LinuxNext
  BY <1>1, DownKeepsInv, UpKeepsInv, LocalKeepsInv DEF LinuxNext
<1>2. CASE UNCHANGED linuxVars
  <2>1. Owed' = Owed /\ KeyboardTypeOK'
    BY <1>2 DEF linuxVars, keyboardVars, facadeVars, Owed, ToRelease, LinuxInv, LinuxTypeOK,
       KeyboardTypeOK
  <2> QED
    BY <1>2, <2>1, SameLayout
    DEF linuxVars, keyboardVars, facadeVars, LinuxInv, LinuxTypeOK, PositionsOwed, Reported,
        LoopPositions, ChordPositions, Bears
<1> QED BY <1>1, <1>2

(* The initial states satisfy the invariant. *)
LEMMA LinuxInitInv == LinuxInit => LinuxInv
<1> SUFFICES ASSUME LinuxInit PROVE LinuxInv
  OBVIOUS
<1>1. LinuxTypeOK
  BY InitInv DEF LinuxInit, LinuxTypeOK, KeyboardInv
<1> QED
  BY <1>1 DEF LinuxInit, KeyboardInit, LinuxInv, PositionsOwed, Reported, LoopPositions,
     ChordPositions

(* The inductive invariant of the Linux keyboards. *)
LEMMA LinuxInvariant == LinuxSpec => []LinuxInv
BY LinuxInitInv, NextKeepsInv, PTL DEF LinuxSpec

-------------------------------------------------------------------------------
(* Every variable keeps its type, whatever the keys, chords and layout.    *)
THEOREM LinuxTypeCorrect == LinuxSpec => []LinuxTypeOK
<1>1. LinuxInv => LinuxTypeOK
  BY DEF LinuxInv
<1> QED BY <1>1, LinuxInvariant, PTL

(* A position left down, in the device or for the applications, is         *)
(* explained by a key the caller holds or was told of: neither a shared    *)
(* position nor a half-written event (UinputBackend.cpp:163-169) is silent. *)
THEOREM LinuxStuckKeyWasRefused == LinuxSpec => []StuckKeyWasRefused
<1>1. LinuxInv => StuckKeyWasRefused
  BY DEF LinuxInv, PositionsOwed, Owed, StuckKeyWasRefused, Bears
<1> QED BY <1>1, LinuxInvariant, PTL

(* An ok means the device owes the applications nothing, also when the     *)
(* events it reports are an earlier call's.                                *)
THEOREM LinuxOkMeansReported == LinuxSpec => []OkMeansReported
<1>1. LinuxInv => OkMeansReported
  BY DEF LinuxInv, Reported, OkMeansReported
<1> QED BY <1>1, LinuxInvariant, PTL

(* The main key of a chord arrives with every modifier's position down.    *)
THEOREM LinuxChordPositions == LinuxSpec => []ChordPositions
<1>1. LinuxInv => ChordPositions
  BY DEF LinuxInv
<1> QED BY <1>1, LinuxInvariant, PTL
===============================================================================
