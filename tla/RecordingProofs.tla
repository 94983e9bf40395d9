---------------------------- MODULE RecordingProofs ----------------------------
(***************************************************************************)
(* Proofs about Recording, for every set of keys, buttons, points, events  *)
(* and options, every clock and every length of a recording: its stamps    *)
(* start at zero and never go back, a replay keeps to its pace, the        *)
(* recording is what happened, and a replay reproduces it.                 *)
(***************************************************************************)
EXTENDS Recording, SequenceTheorems, TLAPS

(* What an event does to a set of keys and buttons that are down. *)
After(keys, e) ==
  CASE e.kind \in {"key", "button"} /\ e.down  -> keys \union {e.input}
    [] e.kind \in {"key", "button"} /\ ~e.down -> keys \ {e.input}
    [] OTHER -> keys

(* What the recording knows of the keys and buttons after its n-th event.  *)
KnownDown(n) == IF n = 0 THEN {} ELSE trail[n].down
KnownUp(n) == IF n = 0 THEN {} ELSE trail[n].up

Moment == [event : InputEvent, pointer : Point, down : SUBSET Input, up : SUBSET Input]

(* Nothing is being captured, or one event is. *)
Instant == [event : Event, pointer : Point]
InHand ==
  \/ captured = <<>> /\ happening = <<>>
  \/ \E c \in Recorded, h \in Instant : captured = <<c>> /\ happening = <<h>>

(* The types, those of the tape, which grows, and those of the loop that   *)
(* reads it.                                                               *)
TapeTypeOK ==
  /\ events \in Seq(Recorded) /\ InHand
  /\ trail \in Seq(Moment) /\ Len(trail) = Len(events)
  /\ started \in BOOLEAN /\ start \in Nat /\ now \in 0..MaxTime
  /\ stray \in BOOLEAN /\ raced \in BOOLEAN
  /\ recording \in BOOLEAN /\ toggles \in BOOLEAN
  /\ heldModifiers \subseteq ModifierKey /\ (heldModifiers # {} => toggles)
  /\ down \subseteq Input /\ pointer \in Point
  /\ doubtful \subseteq ModifierKey /\ unseen \subseteq Input

LoopTypeOK ==
  /\ pc \in {"idle", "cleared", "pace", "warp", "act", "returned"}
  /\ options \in Options
  /\ last \in Nat /\ at \in 1..(last + 1)
  /\ previous \in Int /\ elapsed \in Int
  /\ result \in Outcome

(* A step that only adds to the tape. *)
TapeGrows ==
  /\ Len(events) <= Len(events')
  /\ \A i \in 1..Len(events) : events'[i] = events[i] /\ trail'[i] = trail[i]
  /\ stray => stray'

(* The clock of the recording runs from its first event, and no stamp is   *)
(* ahead of it, nor of the one that is being captured; unless capture()    *)
(* and reset() overlapped.                                                 *)
ClockInv ==
  /\ started => start <= now
  /\ ~raced =>
       /\ pc = "cleared" => events = <<>> /\ captured = <<>>
       /\ pc # "cleared" => (started <=> (events # <<>> \/ captured # <<>>))
       /\ captured = <<>> /\ events # <<>> =>
            events[Len(events)].stamp <= stampOf(now, start)
       /\ captured # <<>> =>
            /\ captured[1].stamp <= stampOf(now, start)
            /\ events = <<>> => captured[1].stamp = 0
            /\ events # <<>> => events[Len(events)].stamp <= captured[1].stamp

(* The tap of macOS is right about the modifiers that are not doubtful.    *)
HeldTracks ==
  recording /\ toggles =>
    \A m \in ModifierKey \ doubtful : m \in heldModifiers <=> m \in down

(* What has been seen since the tap started is what the last event left.   *)
SeenIsKnown ==
  /\ ~recording => unseen = Input
  /\ down \ unseen \subseteq KnownDown(Len(trail))
  /\ Input \ (down \union unseen) \subseteq KnownUp(Len(trail))

(* Each event, as recorded, leads from what is known before it to what is  *)
(* known after it.                                                         *)
Leads(i) ==
  /\ trail[i].down \subseteq After(KnownDown(i - 1), events[i].event)
  /\ trail[i].up \intersect After(Input \ KnownUp(i - 1), events[i].event) = {}

(* Each event is recorded where the pointer was. *)
Placed(i) == Positioned(events[i].event) => events[i].event.to = trail[i].pointer

(* Each event is recorded as it happened, if its input is known after it. *)
Truth(i) ==
  inputOf(trail[i].event) \subseteq trail[i].down \union trail[i].up =>
    events[i].event = trail[i].event

(* The event that is being captured has happened, and its input is not     *)
(* known yet; as it will be recorded, it is the one that happened, but for *)
(* the direction of a doubtful modifier.                                   *)
Pending ==
  captured # <<>> =>
    LET e == happening[1].event
        c == captured[1].event
    IN /\ recording
       /\ inputOf(e) \subseteq unseen
       /\ \A x \in inputOf(e) : x \in down <=> e.down
       /\ inputOf(c) = inputOf(e)
       /\ inputOf(e) \intersect doubtful = {} => c = e
       /\ Positioned(c) => c.to = happening[1].pointer

TapeInv ==
  /\ ClockInv /\ StampsFromZero
  /\ HeldTracks /\ SeenIsKnown /\ Pending
  /\ \A i \in 1..Len(events) : Leads(i) /\ Placed(i) /\ Truth(i)

(* The loop of replay() is inside the recording, and the event it          *)
(* dispatches is the one it has waited for.                                *)
LoopInv ==
  /\ Replaying => at <= last
  /\ InReplay => last <= Len(events)
  /\ ~stray =>
       /\ Replaying => previous = events[IF Paced > 0 THEN Paced ELSE 1].stamp
       /\ Replaying /\ Paced = 0 => elapsed = 0
       /\ pc = "warp" => Positioned(events[at].event)
       /\ pc = "act" => events[at].event.kind # "move"

RecordingInv == TapeTypeOK /\ LoopTypeOK /\ TapeInv /\ LoopInv /\ Pace /\ Reproduces

-------------------------------------------------------------------------------
(* Division rounds down. *)
LEMMA Division ==
  ASSUME NEW a \in Int, NEW d \in Nat \ {0}
  PROVE  /\ a \div d \in Int
         /\ d * (a \div d) <= a
         /\ a < d * (a \div d) + d
BY Z3

(* It keeps the order. *)
LEMMA DivMonotone ==
  ASSUME NEW a \in Int, NEW b \in Int, a <= b, NEW d \in Nat \ {0}
  PROVE  a \div d <= b \div d
<1> DEFINE p == a \div d
           q == b \div d
<1>1. p \in Int /\ q \in Int /\ d * p <= a /\ b < d * q + d
  BY Division
<1> HIDE DEF p, q
<1>2. d * p < d * (q + 1)
  BY <1>1
<1>3. p < q + 1
  BY <1>1, <1>2
<1> QED BY <1>1, <1>3 DEF p, q

(* Rounding to the nearest is wrong by half a unit at most. *)
LEMMA LlroundError ==
  ASSUME NEW n \in Int, NEW d \in Nat \ {0}
  PROVE  /\ llround(n, d) \in Int
         /\ -d <= 2 * (d * llround(n, d)) - 2 * n
         /\ 2 * (d * llround(n, d)) - 2 * n <= d
<1>1. CASE n >= 0
  <2> DEFINE q == (2 * n + d) \div (2 * d)
  <2>1. q \in Int /\ (2 * d) * q <= 2 * n + d /\ 2 * n + d < (2 * d) * q + 2 * d
    <3>1. 2 * n + d \in Int /\ 2 * d \in Nat \ {0}
      OBVIOUS
    <3> QED BY <3>1, Division
  <2>2. llround(n, d) = q
    BY <1>1 DEF llround
  <2> HIDE DEF q
  <2>3. 2 * (d * q) = (2 * d) * q
    BY <2>1
  <2> QED BY <2>1, <2>2, <2>3
<1>2. CASE n < 0
  <2> DEFINE q == (d - 2 * n) \div (2 * d)
  <2>1. q \in Int /\ (2 * d) * q <= d - 2 * n /\ d - 2 * n < (2 * d) * q + 2 * d
    <3>1. d - 2 * n \in Int /\ 2 * d \in Nat \ {0}
      OBVIOUS
    <3> QED BY <3>1, Division
  <2>2. llround(n, d) = -q
    BY <1>2 DEF llround
  <2> HIDE DEF q
  <2>3. 2 * (d * (-q)) = -((2 * d) * q)
    BY <2>1
  <2> QED BY <2>1, <2>2, <2>3
<1> QED BY <1>1, <1>2

(* It leaves zero alone. *)
LEMMA LlroundZero == ASSUME NEW d \in Nat \ {0} PROVE llround(0, d) = 0
<1> DEFINE q == llround(0, d)
<1>1. q \in Int /\ -d <= 2 * (d * q) /\ 2 * (d * q) <= d
  BY LlroundError
<1> HIDE DEF q
<1>2. d * q > -d /\ d * q < d
  BY <1>1
<1>3. q < 1 /\ q > -1
  BY <1>1, <1>2
<1> QED BY <1>1, <1>3 DEF q

(* The parts an event has. *)
LEMMA EventShape ==
  ASSUME NEW e \in InputEvent
  PROVE  /\ e.kind \in {"key", "button", "move", "scroll"}
         /\ e.kind \in {"key", "button"} => e.input \in Input /\ e.down \in BOOLEAN
         /\ e.kind = "key" => e.input \in Key
         /\ e.kind = "button" => e.input \in Button
         /\ Positioned(e) => e.to \in Point
BY DEF InputEvent, KeyEvent, ButtonEvent, OtherEvent, Input, Positioned

(* What the tap reports differs from what happened in a modifier's         *)
(* direction only.                                                         *)
LEMMA HandleShape ==
  ASSUME NEW e \in Event
  PROVE  /\ handle(e) \in Event
         /\ handle(e).kind = e.kind
         /\ e.kind \in {"key", "button"} => handle(e).input = e.input
         /\ Positioned(e) => handle(e).to = e.to
         /\ ~Toggled(e) => handle(e) = e
         /\ Toggled(e) => handle(e).down = (e.input \notin heldModifiers)
         /\ (Toggled(e) /\ e.down = (e.input \notin heldModifiers)) => handle(e) = e
<1>1. e \in InputEvent
  BY EventAssumption
<1>2. CASE ~Toggled(e)
  BY <1>1, <1>2 DEF handle
<1>3. CASE Toggled(e)
  <2>1. e.kind = "key"
    BY <1>3 DEF Toggled
  <2>2. e \in [kind : {"key"}, input : Key, down : BOOLEAN]
    BY <1>1, <2>1 DEF InputEvent, KeyEvent, ButtonEvent, OtherEvent
  <2> DEFINE b == e.input \notin heldModifiers
  <2>3. handle(e) = [e EXCEPT !.down = b] /\ b \in BOOLEAN
    BY <1>3 DEF handle
  <2>4. handle(e) \in Event
    BY <2>1, <2>3, EventAssumption
  <2>5. /\ handle(e).kind = e.kind /\ handle(e).input = e.input
        /\ handle(e).down = b
        /\ b = e.down => handle(e) = e
    BY <2>2, <2>3
  <2> QED BY <1>3, <2>1, <2>4, <2>5 DEF Positioned
<1> QED BY <1>2, <1>3

(* The effect of an event grows with the set it has an effect on.          *)
LEMMA AfterMonotone ==
  ASSUME NEW e \in InputEvent, NEW S, NEW T, S \subseteq T
  PROVE  After(S, e) \subseteq After(T, e)
BY EventShape DEF After

(* The effect of an event on the keys and buttons is After. *)
LEMMA HappensAfter ==
  ASSUME NEW e \in InputEvent, Happens(e)
  PROVE  down' = After(down, e)
BY DEF Happens, After

-------------------------------------------------------------------------------
(* What is being captured, of the right type. *)
LEMMA Captured ==
  ASSUME TapeTypeOK, captured # <<>>
  PROVE  /\ Len(captured) = 1 /\ captured = <<captured[1]>> /\ captured[1] \in Recorded
         /\ happening[1] \in Instant
         /\ happening[1].event \in InputEvent /\ captured[1].event \in InputEvent
         /\ happening[1].event \in Event /\ captured[1].event \in Event
         /\ captured[1].stamp \in Int
<1>1. PICK c \in Recorded, h \in Instant : captured = <<c>> /\ happening = <<h>>
  BY DEF TapeTypeOK, InHand
<1>2. Len(captured) = 1 /\ captured[1] = c /\ happening[1] = h
  BY <1>1
<1>3. /\ c.stamp \in Int /\ c.event \in Event /\ h.event \in Event
  BY DEF Recorded, Instant
<1> QED BY <1>1, <1>2, <1>3, EventAssumption

(* What the captured event adds to the tape. *)
LEMMA PushGrows ==
  ASSUME TapeTypeOK, Push
  PROVE  /\ TapeGrows
         /\ Len(events') = Len(events) + 1 /\ Len(trail') = Len(events) + 1
         /\ events'[Len(events) + 1] = captured[1]
         /\ trail'[Len(events) + 1] =
              [event |-> happening[1].event, pointer |-> happening[1].pointer,
               down |-> down \ unseen', up |-> Input \ (down \union unseen')]
         /\ events' # <<>> /\ captured # <<>> /\ captured' = <<>> /\ happening' = <<>>
<1>1. /\ captured # <<>> /\ captured' = <<>> /\ happening' = <<>>
      /\ events' = events \o captured
      /\ trail' = Append(trail, [event |-> happening[1].event,
                                 pointer |-> happening[1].pointer, down |-> down \ unseen',
                                 up |-> Input \ (down \union unseen')])
      /\ stray' \in IF Replaying THEN {stray, TRUE} ELSE {stray}
  BY DEF Push, capturePush
<1>2. Len(events) \in Nat /\ Len(trail) = Len(events)
  BY DEF TapeTypeOK
<1>3. captured = <<captured[1]>> /\ captured[1] \in Recorded
  BY <1>1, Captured
<1>4. events' = Append(events, captured[1])
  <2>1. PICK c \in Recorded : c = captured[1]
    BY <1>3
  <2>2. events \o <<c>> = Append(events, c)
    BY DEF TapeTypeOK
  <2> QED BY <1>1, <1>3, <2>1, <2>2
<1>5. /\ Len(events') = Len(events) + 1
      /\ \A i \in 1..Len(events) : events'[i] = events[i]
      /\ events'[Len(events) + 1] = captured[1]
  BY <1>4 DEF TapeTypeOK
<1>6. /\ Len(trail') = Len(trail) + 1
      /\ \A i \in 1..Len(trail) : trail'[i] = trail[i]
      /\ trail'[Len(trail) + 1] =
           [event |-> happening[1].event, pointer |-> happening[1].pointer,
            down |-> down \ unseen', up |-> Input \ (down \union unseen')]
  BY <1>1 DEF TapeTypeOK
<1>7. events' # <<>>
  BY <1>4 DEF TapeTypeOK
<1>8. stray => stray'
  BY <1>1
<1> QED BY <1>1, <1>2, <1>5, <1>6, <1>7, <1>8 DEF TapeGrows

(* A stamp is a whole number of milliseconds. *)
LEMMA StampType ==
  ASSUME NEW t \in Int, NEW s \in Int
  PROVE  stampOf(t, s) \in Int
BY TickAssumption, Division DEF stampOf

(* Stamps follow the clock. *)
LEMMA StampMonotone ==
  ASSUME NEW t \in Int, NEW u \in Int, NEW s \in Int, t <= u
  PROVE  stampOf(t, s) <= stampOf(u, s)
<1>1. t - s \in Int /\ u - s \in Int /\ t - s <= u - s
  OBVIOUS
<1> QED BY <1>1, TickAssumption, DivMonotone DEF stampOf

(* The tap keeps its type when it sees an event. *)
LEMMA RecordTypes ==
  ASSUME TapeTypeOK, NEW e \in Event, NEW t \in now..MaxTime, Happens(e), Record(e, t),
         UNCHANGED <<recording, toggles>>
  PROVE  TapeTypeOK'
<1>1. e \in InputEvent /\ t \in 0..MaxTime /\ t \in Nat
  BY EventAssumption, BoundsAssumption DEF TapeTypeOK
<1>2. /\ started' = TRUE /\ start' = (IF started THEN start ELSE t)
      /\ captured' = <<[stamp |-> stampOf(t, start'), event |-> handle(e)]>>
      /\ happening' = <<[event |-> e, pointer |-> pointer']>>
      /\ raced' = (raced \/ pc = "cleared")
      /\ now' = t /\ UNCHANGED <<events, trail, stray>>
  BY DEF Record, captureClock
<1>3. start' \in Nat /\ started' \in BOOLEAN /\ raced' \in BOOLEAN
  BY <1>1, <1>2 DEF TapeTypeOK
<1>4. down' \subseteq Input /\ pointer' \in Point
  BY <1>1, EventShape DEF Happens, TapeTypeOK, Positioned
<1>5. InHand'
  <2>1. stampOf(t, start') \in Int /\ handle(e) \in Event
    BY <1>1, <1>3, StampType, HandleShape
  <2>2. [stamp |-> stampOf(t, start'), event |-> handle(e)] \in Recorded
    BY <2>1 DEF Recorded
  <2>3. [event |-> e, pointer |-> pointer'] \in Instant
    BY <1>4 DEF Instant
  <2> QED BY <1>2, <2>2, <2>3 DEF InHand
<1>6. doubtful' \subseteq ModifierKey
  BY DEF Record, Redundant, TapeTypeOK
<1>7. unseen' \subseteq Input
  <2>1. inputOf(e) \subseteq Input
    BY <1>1, EventShape DEF inputOf
  <2> QED BY <2>1 DEF Record, TapeTypeOK
<1>8. heldModifiers' \subseteq ModifierKey /\ (heldModifiers' # {} => toggles')
  BY <1>1 DEF Record, trackModifier, Toggled, inputOf, TapeTypeOK
<1> QED BY <1>1, <1>2, <1>3, <1>4, <1>5, <1>6, <1>7, <1>8 DEF TapeTypeOK

(* The tape keeps its type when it grows. *)
LEMMA PushTypes ==
  ASSUME TapeTypeOK, Push
  PROVE  TapeTypeOK'
<1>1. /\ captured' = <<>> /\ happening' = <<>> /\ captured # <<>>
      /\ events' = events \o captured
      /\ unseen' = unseen \ (inputOf(happening[1].event) \ doubtful)
      /\ trail' = Append(trail, [event |-> happening[1].event,
                                 pointer |-> happening[1].pointer, down |-> down \ unseen',
                                 up |-> Input \ (down \union unseen')])
      /\ stray' \in IF Replaying THEN {stray, TRUE} ELSE {stray}
      /\ UNCHANGED <<started, start, raced, now, recording, toggles, heldModifiers,
                     down, pointer, doubtful>>
  BY DEF Push, capturePush, clockVars, tapVars
<1>2. events' \in Seq(Recorded)
  <2>1. PICK c \in Recorded : captured = <<c>>
    BY <1>1, Captured
  <2> QED BY <1>1, <2>1 DEF TapeTypeOK
<1>3. trail' \in Seq(Moment)
  <2> DEFINE m == [event |-> happening[1].event, pointer |-> happening[1].pointer,
                   down |-> down \ unseen', up |-> Input \ (down \union unseen')]
  <2>1. happening[1].event \in InputEvent /\ happening[1].pointer \in Point
    BY <1>1, Captured DEF Instant
  <2>2. m \in Moment
    BY <2>1 DEF Moment, TapeTypeOK
  <2> HIDE DEF m
  <2> QED BY <1>1, <2>2 DEF TapeTypeOK, m
<1>4. Len(trail') = Len(events')
  BY PushGrows
<1>5. stray' \in BOOLEAN
  BY <1>1 DEF TapeTypeOK
<1>6. InHand'
  BY <1>1 DEF InHand
<1> QED BY <1>1, <1>2, <1>3, <1>4, <1>5, <1>6 DEF TapeTypeOK

(* What an entry of the tape holds. *)
LEMMA EventAt ==
  ASSUME TapeTypeOK, NEW i \in 1..Len(events)
  PROVE  /\ events[i].stamp \in Int
         /\ events[i].event \in Event /\ events[i].event \in InputEvent
         /\ trail[i] \in Moment
<1>1. events \in Seq(Recorded) /\ trail \in Seq(Moment)
      /\ Len(trail) = Len(events)
  BY DEF TapeTypeOK
<1>2. events[i] \in Recorded /\ trail[i] \in Moment
  BY <1>1, ElementOfSeq
<1> QED BY <1>2, EventAssumption DEF Recorded

(* The clock goes on, and the stamp it takes is the last.                  *)
LEMMA RecordClock ==
  ASSUME TapeTypeOK, ClockInv, StampsFromZero, NEW e \in Event, NEW t \in now..MaxTime,
         Record(e, t), pc' = "cleared" <=> pc = "cleared"
  PROVE  ClockInv' /\ StampsFromZero'
<1> DEFINE c == [stamp |-> stampOf(t, start'), event |-> handle(e)]
<1>1. /\ started' = TRUE /\ captured = <<>>
      /\ start' = IF started THEN start ELSE t
      /\ captured' = <<c>>
      /\ raced' = (raced \/ pc = "cleared")
      /\ now' = t /\ events' = events
  BY DEF Record, captureClock
<1>2. t \in Int /\ now \in Int /\ start \in Int /\ now <= t
  BY BoundsAssumption DEF TapeTypeOK
<1>3. start' \in Int /\ start' <= t
  BY <1>1, <1>2 DEF ClockInv
<1>4. stampOf(t, start') \in Int
  BY <1>2, <1>3, StampType
<1>5. captured'[1].stamp = stampOf(t, start') /\ captured' # <<>>
  BY <1>1
<1> HIDE DEF c
<1>6. ASSUME ~raced, pc # "cleared"
      PROVE  /\ events = <<>> => stampOf(t, start') = 0
             /\ events # <<>> => events[Len(events)].stamp <= stampOf(t, start')
  <2>1. CASE events = <<>>
    <3>1. start' = t
      BY <1>1, <1>6, <2>1 DEF ClockInv
    <3>2. stampOf(t, t) = 0
      <4>1. 0 \div Tick = 0
        BY TickAssumption, Z3
      <4>2. t - t = 0
        BY <1>2
      <4> QED BY <4>1, <4>2 DEF stampOf
    <3> QED BY <2>1, <3>1, <3>2
  <2>2. CASE events # <<>>
    <3>1. start' = start /\ events[Len(events)].stamp <= stampOf(now, start)
      BY <1>1, <1>6, <2>2 DEF ClockInv
    <3>2. /\ stampOf(now, start) <= stampOf(t, start)
          /\ stampOf(now, start) \in Int /\ stampOf(t, start) \in Int
      BY <1>2, StampMonotone, StampType
    <3>3. Len(events) \in 1..Len(events)
      BY <2>2 DEF TapeTypeOK
    <3>4. events[Len(events)].stamp \in Int
      BY <3>3, EventAt
    <3> QED BY <2>2, <3>1, <3>2, <3>4
  <2> QED BY <2>1, <2>2
<1>7. ClockInv'
  <2>1. started' => start' <= now'
    BY <1>1, <1>3
  <2>2. ~raced' => ~raced /\ pc # "cleared" /\ pc' # "cleared"
    BY <1>1
  <2>3. captured'[1].stamp <= stampOf(now', start')
    BY <1>1, <1>4, <1>5
  <2> QED BY <1>1, <1>5, <1>6, <2>1, <2>2, <2>3 DEF ClockInv
<1>8. StampsFromZero'
  BY <1>1 DEF StampsFromZero
<1> QED BY <1>7, <1>8

(* The new stamp is the last. *)
LEMMA PushClock ==
  ASSUME TapeTypeOK, ClockInv, StampsFromZero, Push
  PROVE  ClockInv' /\ StampsFromZero'
<1>1. /\ UNCHANGED <<started, start, now, raced, pc>>
      /\ captured # <<>> /\ captured' = <<>>
  BY DEF Push, capturePush, clockVars
<1>2. PICK n \in Nat : n = Len(events)
  BY DEF TapeTypeOK
<1>3. n = 0 <=> events = <<>>
  BY <1>2 DEF TapeTypeOK
<1>4. /\ Len(events') = n + 1
      /\ \A i \in 1..n : events'[i] = events[i]
      /\ events'[n + 1] = captured[1] /\ events' # <<>>
  BY <1>2, PushGrows DEF TapeGrows
<1>5. ClockInv'
  BY <1>1, <1>4 DEF ClockInv
<1>6. ASSUME ~raced
      PROVE  /\ events'[1].stamp = 0
             /\ \A i \in 1..n : events'[i].stamp <= events'[i + 1].stamp
  <2>1. CASE n = 0
    BY <1>1, <1>3, <1>4, <1>6, <2>1 DEF ClockInv
  <2>2. CASE n # 0
    <3>1. /\ events[1].stamp = 0
          /\ \A i \in 1..(n - 1) : events[i].stamp <= events[i + 1].stamp
      BY <1>2, <1>3, <1>6, <2>2 DEF StampsFromZero
    <3>2. events'[n].stamp <= events'[n + 1].stamp
      BY <1>1, <1>2, <1>3, <1>4, <1>6, <2>2 DEF ClockInv
    <3>3. ASSUME NEW i \in 1..n, i # n
          PROVE  events'[i].stamp <= events'[i + 1].stamp
      BY <1>4, <3>1, <3>3
    <3>4. events'[1].stamp = 0
      BY <1>4, <2>2, <3>1
    <3> QED BY <3>2, <3>3, <3>4
  <2> QED BY <2>1, <2>2
<1>7. StampsFromZero'
  <2> SUFFICES ASSUME ~raced'
               PROVE  /\ events'[1].stamp = 0
                      /\ \A i \in 1..(Len(events') - 1) :
                           events'[i].stamp <= events'[i + 1].stamp
    BY DEF StampsFromZero
  <2>1. Len(events') - 1 = n
    BY <1>4
  <2> QED BY <1>1, <1>6, <2>1
<1> QED BY <1>5, <1>7

(* The tap of macOS stays right about a modifier that is not doubtful, and *)
(* only for one that is does it report another direction.                  *)
LEMMA RecordHeld ==
  ASSUME TapeTypeOK, HeldTracks, NEW e \in Event, NEW t, Happens(e), Record(e, t),
         recording, UNCHANGED <<recording, toggles>>
  PROVE  /\ HeldTracks'
         /\ inputOf(e) \intersect doubtful' = {} => handle(e) = e
<1>1. e \in InputEvent
  BY EventAssumption
<1>2. doubtful \subseteq doubtful' /\ (Redundant(e) => e.input \in doubtful')
  BY DEF Record
<1>3. CASE ~Toggled(e)
  <2>1. handle(e) = e
    BY <1>3, HandleShape
  <2>2. heldModifiers' = heldModifiers
    BY <1>3 DEF Record, trackModifier
  <2>3. ASSUME toggles, NEW m \in ModifierKey \ doubtful PROVE m \in down' <=> m \in down
    BY <1>1, <1>3, <2>3, EventShape, ModifierAssumption DEF Happens, Toggled, inputOf
  <2> QED BY <1>2, <2>1, <2>2, <2>3 DEF HeldTracks
<1>4. CASE Toggled(e)
  <2>1. /\ toggles /\ e.kind = "key" /\ e.input \in ModifierKey
        /\ inputOf(e) = {e.input} /\ e.down \in BOOLEAN
    BY <1>1, <1>4, EventShape DEF Toggled, inputOf
  <2>2. handle(e).down = (e.input \notin heldModifiers)
    BY <1>4, HandleShape
  <2>3. heldModifiers' = IF e.input \notin heldModifiers THEN heldModifiers \union {e.input}
                         ELSE heldModifiers \ {e.input}
    BY <1>4, <2>2 DEF Record, trackModifier
  <2>4. down' = IF e.down THEN down \union {e.input} ELSE down \ {e.input}
    BY <2>1 DEF Happens
  <2>5. ASSUME e.input \notin doubtful'
        PROVE  e.down = (e.input \notin heldModifiers)
    <3>1. e.input \notin doubtful /\ ~Redundant(e)
      BY <1>2, <2>5
    <3>2. e.input \in heldModifiers <=> e.input \in down
      BY <2>1, <3>1 DEF HeldTracks
    <3> QED BY <2>1, <3>1, <3>2 DEF Redundant
  <2>6. inputOf(e) \intersect doubtful' = {} => handle(e) = e
    BY <1>4, <2>1, <2>5, HandleShape
  <2>7. HeldTracks'
    <3> SUFFICES ASSUME NEW m \in ModifierKey \ doubtful'
                 PROVE  m \in heldModifiers' <=> m \in down'
      BY DEF HeldTracks
    <3>1. CASE m = e.input
      BY <2>1, <2>3, <2>4, <2>5, <3>1
    <3>2. CASE m # e.input
      BY <1>2, <2>1, <2>3, <2>4, <3>2 DEF HeldTracks
    <3> QED BY <3>1, <3>2
  <2> QED BY <2>6, <2>7
<1> QED BY <1>3, <1>4

(* An event has its effect on its own input, and no other. *)
LEMMA AfterMember ==
  ASSUME NEW e \in InputEvent, NEW S, NEW x
  PROVE  /\ x \notin inputOf(e) => (x \in After(S, e) <=> x \in S)
         /\ x \in inputOf(e) => (x \in After(S, e) <=> e.down)
         /\ inputOf(e) \subseteq Input
BY EventShape DEF After, inputOf

(* The event the tap sees is not known yet, and is captured as it happened *)
(* wherever it can be.                                                     *)
LEMMA RecordPending ==
  ASSUME TapeTypeOK, HeldTracks, SeenIsKnown, recording,
         NEW e \in Event, NEW t, Happens(e), Record(e, t),
         e.kind \in {"button", "scroll"} => e.to = pointer,
         UNCHANGED <<recording, toggles>>
  PROVE  SeenIsKnown' /\ Pending'
<1>1. /\ e \in InputEvent /\ handle(e) \in InputEvent
      /\ inputOf(handle(e)) = inputOf(e)
  BY EventAssumption, HandleShape DEF inputOf
<1>2. /\ captured' = <<[stamp |-> stampOf(t, start'), event |-> handle(e)]>>
      /\ happening' = <<[event |-> e, pointer |-> pointer']>>
      /\ unseen' = unseen \union inputOf(e) /\ trail' = trail
  BY DEF Record, captureClock
<1>3. captured'[1].event = handle(e) /\ happening'[1].event = e
      /\ happening'[1].pointer = pointer'
  BY <1>2
<1>4. down' = After(down, e)
  BY <1>1, HappensAfter
<1>5. SeenIsKnown'
  <2>1. down' \ unseen' \subseteq down \ unseen
    BY <1>1, <1>2, <1>4, AfterMember
  <2>2. Input \ (down' \union unseen') \subseteq Input \ (down \union unseen)
    BY <1>1, <1>2, <1>4, AfterMember
  <2> QED BY <1>2, <2>1, <2>2 DEF SeenIsKnown, KnownDown, KnownUp
<1>6. Pending'
  <2>1. \A x \in inputOf(e) : x \in down' <=> e.down
    BY <1>1, <1>4, AfterMember
  <2>2. inputOf(e) \intersect doubtful' = {} => handle(e) = e
    BY RecordHeld
  <2>3. Positioned(handle(e)) => handle(e).to = pointer'
    BY <1>1, HandleShape, EventShape DEF Happens, Positioned
  <2> QED BY <1>1, <1>2, <1>3, <2>1, <2>2, <2>3 DEF Pending
<1> QED BY <1>5, <1>6

(* What is known after the new event follows from what was known before,   *)
(* by the event as it is recorded.                                         *)
LEMMA PushKnown ==
  ASSUME TapeTypeOK, SeenIsKnown, Pending, Push,
         \A i \in 1..Len(events) : Leads(i) /\ Placed(i) /\ Truth(i)
  PROVE  /\ SeenIsKnown'
         /\ \A i \in 1..Len(events') : (Leads(i) /\ Placed(i) /\ Truth(i))'
<1>1. /\ captured # <<>> /\ UNCHANGED <<down, recording, doubtful>>
      /\ unseen' = unseen \ (inputOf(happening[1].event) \ doubtful)
  BY DEF Push, capturePush, tapVars
<1>2. PICK e \in InputEvent : e = happening[1].event
  BY <1>1, Captured
<1>3. PICK c \in InputEvent : c = captured[1].event
  BY <1>1, Captured
<1>4. PICK n \in Nat : n = Len(events)
  BY DEF TapeTypeOK
<1>5. Len(trail) = n
  BY <1>4 DEF TapeTypeOK
<1>6. /\ Len(events') = n + 1 /\ Len(trail') = n + 1
      /\ \A i \in 1..n : events'[i] = events[i] /\ trail'[i] = trail[i]
      /\ events'[n + 1].event = c
      /\ trail'[n + 1].event = e /\ trail'[n + 1].pointer = happening[1].pointer
      /\ trail'[n + 1].down = down \ unseen'
      /\ trail'[n + 1].up = Input \ (down \union unseen')
  <2>1. /\ TapeGrows /\ Len(events') = Len(events) + 1 /\ Len(trail') = Len(events) + 1
        /\ events'[Len(events) + 1] = captured[1]
        /\ trail'[Len(events) + 1] =
             [event |-> happening[1].event, pointer |-> happening[1].pointer,
              down |-> down \ unseen', up |-> Input \ (down \union unseen')]
    BY PushGrows
  <2>2. \A i \in 1..n : events'[i] = events[i] /\ trail'[i] = trail[i]
    BY <1>4, <2>1 DEF TapeGrows
  <2> QED BY <1>2, <1>3, <1>4, <2>1, <2>2
<1>7. \A i \in 0..n : KnownDown(i)' = KnownDown(i) /\ KnownUp(i)' = KnownUp(i)
  BY <1>6 DEF KnownDown, KnownUp
<1>8. /\ down \ unseen \subseteq KnownDown(n)
      /\ Input \ (down \union unseen) \subseteq KnownUp(n)
  BY <1>5 DEF SeenIsKnown
<1>9. /\ recording /\ inputOf(e) \subseteq unseen /\ inputOf(c) = inputOf(e)
      /\ \A x \in inputOf(e) : x \in down <=> e.down
      /\ inputOf(e) \intersect doubtful = {} => c = e
      /\ Positioned(c) => c.to = happening[1].pointer
  BY <1>1, <1>2, <1>3 DEF Pending
<1>10. ASSUME NEW x \in inputOf(e), x \notin unseen'
       PROVE  c = e
  <2>1. inputOf(e) = {x}
    BY <1>10 DEF inputOf
  <2> QED BY <1>1, <1>2, <1>9, <1>10, <2>1
<1>11. SeenIsKnown'
  BY <1>1, <1>4, <1>6, <1>9 DEF SeenIsKnown, KnownDown, KnownUp
<1>12. Leads(n + 1)'
  <2>1. ASSUME NEW x \in down \ unseen'
        PROVE  x \in After(KnownDown(n), c)
    <3>1. CASE x \in inputOf(e)
      BY <1>9, <1>10, <2>1, <3>1, AfterMember
    <3>2. CASE x \notin inputOf(e)
      <4>1. x \in KnownDown(n)
        BY <1>1, <1>2, <1>8, <2>1, <3>2
      <4> QED BY <1>9, <3>2, <4>1, AfterMember
    <3> QED BY <3>1, <3>2
  <2>2. ASSUME NEW x \in Input \ (down \union unseen')
        PROVE  x \notin After(Input \ KnownUp(n), c)
    <3>1. CASE x \in inputOf(e)
      BY <1>9, <1>10, <2>2, <3>1, AfterMember
    <3>2. CASE x \notin inputOf(e)
      <4>1. x \in KnownUp(n)
        BY <1>1, <1>2, <1>8, <2>2, <3>2
      <4> QED BY <1>9, <3>2, <4>1, AfterMember
    <3> QED BY <3>1, <3>2
  <2>3. (n + 1) - 1 = n /\ n \in 0..n
    OBVIOUS
  <2> QED BY <1>6, <1>7, <2>1, <2>2, <2>3 DEF Leads
<1>13. Placed(n + 1)'
  BY <1>6, <1>9 DEF Placed
<1>14. Truth(n + 1)'
  <2> SUFFICES ASSUME inputOf(e) \subseteq Input \ unseen'
               PROVE  c = e
    BY <1>1, <1>6, AfterMember DEF Truth
  <2> QED BY <1>1, <1>2, <1>9
<1>15. ASSUME NEW i \in 1..n
       PROVE  (Leads(i) /\ Placed(i) /\ Truth(i))'
  <2>1. /\ Leads(i) /\ Placed(i) /\ Truth(i)
        /\ events'[i] = events[i] /\ trail'[i] = trail[i]
    BY <1>4, <1>6
  <2>2. KnownDown(i - 1)' = KnownDown(i - 1) /\ KnownUp(i - 1)' = KnownUp(i - 1)
    BY <1>7
  <2> QED BY <2>1, <2>2 DEF Leads, Placed, Truth
<1> QED BY <1>6, <1>11, <1>12, <1>13, <1>14, <1>15

(* An event, injected or the user's, whether the tap sees it or not. *)
LEMMA Observed ==
  ASSUME TapeTypeOK, TapeInv, NEW e \in Event, NEW t \in now..MaxTime,
         Happens(e), Observe(e, t),
         e.kind \in {"button", "scroll"} => e.to = pointer,
         pc' = "cleared" <=> pc = "cleared",
         UNCHANGED <<recording, toggles>>
  PROVE  TapeTypeOK' /\ TapeInv' /\ TapeGrows
<1>1. CASE recording
  <2>1. Record(e, t)
    BY <1>1 DEF Observe
  <2>2. TapeTypeOK'
    BY <2>1, RecordTypes
  <2>3. UNCHANGED <<events, trail, stray>>
    BY <2>1 DEF Record, captureClock
  <2>4. TapeGrows
    BY <2>3 DEF TapeGrows, TapeTypeOK
  <2>5. ClockInv' /\ StampsFromZero'
    BY <2>1, RecordClock DEF TapeInv
  <2>6. HeldTracks'
    BY <1>1, <2>1, RecordHeld DEF TapeInv
  <2>7. SeenIsKnown' /\ Pending'
    BY <1>1, <2>1, RecordPending DEF TapeInv
  <2>8. \A i \in 1..Len(events') : (Leads(i) /\ Placed(i) /\ Truth(i))'
    BY <2>3 DEF TapeInv, Leads, Placed, Truth, KnownDown, KnownUp
  <2> QED BY <2>2, <2>4, <2>5, <2>6, <2>7, <2>8 DEF TapeInv
<1>2. CASE ~recording
  <2>1. UNCHANGED <<timelineVars, stray, raced, heldModifiers, doubtful, unseen, happening,
                    trail, now>>
    BY <1>2 DEF Observe, Ignore
  <2>2. e \in InputEvent
    BY EventAssumption
  <2>3. TapeTypeOK'
    BY <2>1, <2>2, EventShape
       DEF TapeTypeOK, InHand, timelineVars, clockVars, Happens, Positioned
  <2>4. TapeGrows
    BY <2>1 DEF TapeGrows, timelineVars, TapeTypeOK
  <2>5. ClockInv' /\ StampsFromZero' /\ HeldTracks'
    BY <1>2, <2>1 DEF TapeInv, ClockInv, StampsFromZero, HeldTracks, timelineVars, clockVars
  <2>6. SeenIsKnown' /\ Pending'
    <3>1. unseen' = Input /\ down' \subseteq Input
      BY <1>2, <2>1, <2>3 DEF TapeInv, SeenIsKnown, TapeTypeOK
    <3>2. captured' = <<>>
      BY <1>2, <2>1 DEF TapeInv, Pending, timelineVars
    <3> QED BY <3>1, <3>2 DEF SeenIsKnown, Pending
  <2>7. \A i \in 1..Len(events') : (Leads(i) /\ Placed(i) /\ Truth(i))'
    BY <2>1 DEF TapeInv, timelineVars, Leads, Placed, Truth, KnownDown, KnownUp
  <2> QED BY <2>3, <2>4, <2>5, <2>6, <2>7 DEF TapeInv
<1> QED BY <1>1, <1>2

(* A step that neither adds to the tape nor starts or ends the tap. *)
LEMMA Quiet ==
  ASSUME TapeTypeOK, TapeInv,
         UNCHANGED <<timelineVars, raced, happening, trail, now, tapVars, doubtful, unseen>>,
         pc' = "cleared" <=> pc = "cleared",
         down' = down \/ (~recording /\ down' \subseteq Input)
  PROVE  TapeInv'
<1>1. ClockInv' /\ StampsFromZero' /\ HeldTracks'
  BY DEF TapeInv, ClockInv, StampsFromZero, HeldTracks, timelineVars, clockVars, tapVars
<1>2. SeenIsKnown'
  BY DEF TapeInv, SeenIsKnown, KnownDown, KnownUp, tapVars
<1>3. Pending'
  BY DEF TapeInv, Pending, timelineVars, tapVars
<1>4. \A i \in 1..Len(events') : (Leads(i) /\ Placed(i) /\ Truth(i))'
  BY DEF TapeInv, timelineVars, Leads, Placed, Truth, KnownDown, KnownUp
<1> QED BY <1>1, <1>2, <1>3, <1>4 DEF TapeInv

(* Where no replay runs, nothing is said of one. *)
LEMMA Elsewhere ==
  ASSUME ~InReplay'
  PROVE  LoopInv' /\ Pace' /\ Reproduces'
BY DEF InReplay, Replaying, LoopInv, Pace, Reproduces

(* A replay that stands where it was. *)
LEMMA Standing ==
  ASSUME LoopInv, Pace, Reproduces, UNCHANGED <<recorderVars, trail>>,
         InReplay => UNCHANGED <<down, pointer>>
  PROVE  LoopInv' /\ Pace' /\ Reproduces'
<1>1. CASE InReplay
  BY <1>1 DEF InReplay, Replaying, LoopInv, Pace, Paced, Reproduces, Dispatched,
              recorderVars, timelineVars, paceVars
<1>2. CASE ~InReplay
  <2>1. ~InReplay'
    BY <1>2 DEF InReplay, Replaying, recorderVars
  <2> QED BY <2>1, Elsewhere
<1> QED BY <1>1, <1>2

(* A replay goes on beside a tape that grows, as long as it stays in place. *)
LEMMA Beside ==
  ASSUME LoopTypeOK, LoopInv, Pace, Reproduces, TapeTypeOK, TapeTypeOK', TapeGrows,
         UNCHANGED <<pc, paceVars, at, result, down, pointer>>,
         ~Replaying => stray' = stray
  PROVE  LoopTypeOK' /\ LoopInv' /\ Pace' /\ Reproduces'
<1>1. /\ Len(events) \in Nat /\ Len(events') \in Nat /\ Len(events) <= Len(events')
      /\ \A i \in 1..Len(events) : events'[i] = events[i] /\ trail'[i] = trail[i]
      /\ stray => stray'
  BY DEF TapeGrows, TapeTypeOK
<1>2. UNCHANGED <<options, last, previous, elapsed, pc, at, result>>
  BY DEF paceVars
<1>3. LoopTypeOK'
  BY <1>2 DEF LoopTypeOK
<1>4. last \in Nat /\ at \in 1..(last + 1)
  BY DEF LoopTypeOK
<1>5. Paced' = Paced /\ (Replaying' <=> Replaying) /\ (InReplay' <=> InReplay)
  BY DEF Paced, Replaying, InReplay
<1>6. CASE Replaying
  <2>1. at \in 1..Len(events) /\ 1 \in 1..Len(events) /\ at <= last /\ last <= Len(events)
    BY <1>1, <1>4, <1>6 DEF LoopInv, InReplay
  <2>2. Paced > 0 => Paced \in 1..Len(events)
    BY <2>1 DEF Paced
  <2>3. LoopInv'
    <3>1. CASE stray'
      BY <1>1, <1>2, <1>4, <1>5, <1>6, <2>1, <3>1 DEF LoopInv, InReplay, Replaying
    <3>2. CASE ~stray'
      <4>1. ~stray /\ events'[at] = events[at]
        BY <1>1, <2>1, <3>2
      <4>2. previous = events'[IF Paced > 0 THEN Paced ELSE 1].stamp
        BY <1>1, <1>6, <2>1, <2>2, <4>1 DEF LoopInv
      <4> QED BY <1>1, <1>2, <1>4, <1>5, <1>6, <2>1, <4>1, <4>2
              DEF LoopInv, InReplay, Replaying
    <3> QED BY <3>1, <3>2
  <2>4. Pace'
    BY <1>1, <1>2, <1>5, <1>6, <2>1, <2>2 DEF Pace
  <2>5. Dispatched > 0 => Dispatched \in 1..Len(events)
    BY <2>1 DEF Dispatched
  <2>6. Reproduces'
    BY <1>1, <1>2, <1>5, <1>6, <2>1, <2>5 DEF Reproduces, InReplay, Dispatched, Replaying
  <2> QED BY <1>3, <2>3, <2>4, <2>6
<1>7. CASE ~Replaying /\ InReplay
  <2>1. last <= Len(events) /\ pc = "returned"
    BY <1>7 DEF LoopInv, InReplay
  <2>2. LoopInv'
    <3>1. pc' = "returned" /\ last' <= Len(events')
      BY <1>1, <1>2, <1>4, <2>1
    <3> QED BY <1>5, <1>7, <3>1 DEF LoopInv
  <2>3. Pace'
    BY <1>5, <1>7 DEF Pace
  <2>4. Dispatched > 0 => Dispatched \in 1..Len(events)
    BY <1>1, <1>4, <2>1 DEF Dispatched
  <2>5. Reproduces'
    BY <1>1, <1>2, <1>5, <1>7, <2>1, <2>4 DEF Reproduces, Dispatched
  <2> QED BY <1>3, <2>2, <2>3, <2>5
<1>8. CASE ~InReplay
  BY <1>3, <1>5, <1>8, Elsewhere
<1> QED BY <1>6, <1>7, <1>8

-------------------------------------------------------------------------------
(* What a gap between two events becomes: it is wrong by half a            *)
(* millisecond at most, or no longer than maxGap.                          *)
LEMMA ScaledGap ==
  ASSUME options \in Options, NEW gap \in Int
  PROVE  /\ options.timeScale[1] \in Nat /\ options.timeScale[2] \in Nat \ {0}
         /\ options.maxGap \in Nat
         /\ scaledGap(gap) \in Int
         /\ options.maxGap > 0 => scaledGap(gap) <= options.maxGap
         /\ options.maxGap = 0 =>
              LET n == options.timeScale[1]
                  d == options.timeScale[2]
              IN /\ -d <= 2 * (d * scaledGap(gap)) - 2 * (n * gap)
                 /\ 2 * (d * scaledGap(gap)) - 2 * (n * gap) <= d
         /\ gap = 0 => scaledGap(gap) = 0
<1> DEFINE n == options.timeScale[1]
           d == options.timeScale[2]
           s == llround(gap * n, d)
<1>1. n \in Nat /\ d \in Nat \ {0} /\ options.maxGap \in Nat
  BY OptionsAssumption
<1>2. scaledGap(gap) = IF options.maxGap > 0 /\ s > options.maxGap
                       THEN options.maxGap ELSE s
  BY DEF scaledGap
<1> HIDE DEF n, d
<1>3. gap * n \in Int /\ gap * n = n * gap
  BY <1>1
<1>4. /\ s \in Int
      /\ -d <= 2 * (d * s) - 2 * (gap * n)
      /\ 2 * (d * s) - 2 * (gap * n) <= d
  BY <1>1, <1>3, LlroundError
<1>5. gap = 0 => s = 0
  <2>1. gap = 0 => gap * n = 0
    BY <1>1
  <2> QED BY <1>1, <2>1, LlroundZero
<1> HIDE DEF s
<1>6. scaledGap(gap) \in Int /\ (options.maxGap > 0 => scaledGap(gap) <= options.maxGap)
  BY <1>1, <1>2, <1>4
<1>7. options.maxGap = 0 => scaledGap(gap) = s
  BY <1>1, <1>2
<1>8. gap = 0 => scaledGap(gap) = 0
  BY <1>1, <1>2, <1>5
<1> QED BY <1>1, <1>3, <1>4, <1>6, <1>7, <1>8 DEF n, d

(* The types of the loop, and of an event it is at. *)
LEMMA InLoop ==
  ASSUME TapeTypeOK, LoopTypeOK, LoopInv, Replaying
  PROVE  /\ last \in Nat /\ at \in 1..last /\ last <= Len(events) /\ Len(events) \in Nat
         /\ at \in 1..Len(events)
         /\ previous \in Int /\ elapsed \in Int
BY DEF TapeTypeOK, LoopTypeOK, LoopInv, InReplay

(* Waiting for an event adds its gap, scaled, to the time elapsed.         *)
LEMMA WaitPaces ==
  ASSUME TapeTypeOK, LoopTypeOK, LoopInv, Pace, Wait, ~stray
  PROVE  Pace'
<1>1. /\ pc = "pace" /\ pc' \in {"warp", "act"}
      /\ elapsed' = elapsed + scaledGap(events[at].stamp - previous)
      /\ UNCHANGED <<events, options, at, stray>>
  BY DEF Wait, advance, CurrentStamp, timelineVars
<1>2. PICK k \in Nat : at = k + 1
  <2>1. at - 1 \in Nat /\ at = (at - 1) + 1
    BY <1>1, InLoop DEF Replaying
  <2> QED BY <2>1
<1>3. at \in 1..Len(events) /\ Len(events) \in Nat /\ elapsed \in Int
  BY <1>1, InLoop DEF Replaying
<1> DEFINE n == options.timeScale[1]
           d == options.timeScale[2]
           S(i) == events[i].stamp
           gap == S(k + 1) - previous
           g == scaledGap(gap)
<1>4. S(k + 1) \in Int /\ S(1) \in Int /\ (k > 0 => S(k) \in Int)
  BY <1>2, <1>3, EventAt
<1>5. /\ Paced = k /\ Paced' = k + 1
  BY <1>1, <1>2 DEF Paced
<1>6. /\ k > 0 => previous = S(k)
      /\ k = 0 => previous = S(1) /\ elapsed = 0
  BY <1>1, <1>5 DEF LoopInv, Replaying
<1>7. gap \in Int
  BY <1>4, <1>6
<1>8. /\ n \in Nat /\ d \in Nat \ {0} /\ options.maxGap \in Nat /\ g \in Int
      /\ options.maxGap > 0 => g <= options.maxGap
      /\ options.maxGap = 0 => -d <= 2 * (d * g) - 2 * (n * gap)
                              /\ 2 * (d * g) - 2 * (n * gap) <= d
      /\ gap = 0 => g = 0
  BY <1>7, ScaledGap DEF LoopTypeOK
<1>9. elapsed' = elapsed + g
  BY <1>1, <1>2
<1>10. (k > 0 /\ options.maxGap = 0) =>
         2 * (d * elapsed - n * (S(k) - S(1))) \in (-(d * (k - 1)))..(d * (k - 1))
  BY <1>1, <1>5 DEF Pace, Replaying
<1>11. (k > 0 /\ options.maxGap > 0) => elapsed <= options.maxGap * (k - 1)
  BY <1>1, <1>5, <1>8 DEF Pace, Replaying
<1> HIDE DEF n, d, g
<1>12. ASSUME options.maxGap = 0
       PROVE  2 * (d * elapsed' - n * (S(k + 1) - S(1))) \in (-(d * k))..(d * k)
  <2>1. CASE k = 0
    <3>1. elapsed' = 0 /\ S(k + 1) - S(1) = 0
      BY <1>4, <1>6, <1>8, <1>9, <2>1
    <3>2. d * 0 = 0 /\ n * 0 = 0
      BY <1>8
    <3> QED BY <2>1, <3>1, <3>2
  <2>2. CASE k > 0
    <3> DEFINE a == S(k) - S(1)
    <3>1. a \in Int /\ S(k + 1) - S(1) = a + gap
      BY <1>4, <1>6, <2>2
    <3> HIDE DEF gap, a
    <3>2. /\ d * elapsed' = d * elapsed + d * g
          /\ n * (a + gap) = n * a + n * gap
          /\ d * k = d * (k - 1) + d
      BY <1>3, <1>7, <1>8, <1>9, <3>1
    <3>3. /\ d * elapsed \in Int /\ d * g \in Int /\ n * a \in Int /\ n * gap \in Int
          /\ d * (k - 1) \in Int
      BY <1>3, <1>7, <1>8, <3>1
    <3>4. /\ -(d * (k - 1)) <= 2 * (d * elapsed - n * a)
          /\ 2 * (d * elapsed - n * a) <= d * (k - 1)
      BY <1>10, <1>12, <2>2 DEF a
    <3>5. -d <= 2 * (d * g) - 2 * (n * gap) /\ 2 * (d * g) - 2 * (n * gap) <= d
      BY <1>8, <1>12
    <3>6. /\ -(d * k) <= 2 * (d * elapsed' - n * (a + gap))
          /\ 2 * (d * elapsed' - n * (a + gap)) <= d * k
          /\ 2 * (d * elapsed' - n * (a + gap)) \in Int /\ d * k \in Int
      BY <1>8, <3>2, <3>3, <3>4, <3>5
    <3> QED BY <3>1, <3>6
  <2> QED BY <2>1, <2>2
<1>13. ASSUME options.maxGap > 0
       PROVE  elapsed' <= options.maxGap * k
  <2>1. CASE k = 0
    <3>1. elapsed' = 0
      BY <1>4, <1>6, <1>8, <1>9, <2>1
    <3>2. options.maxGap * 0 = 0
      BY <1>8
    <3> QED BY <2>1, <3>1, <3>2
  <2>2. CASE k > 0
    <3>1. options.maxGap * k = options.maxGap * (k - 1) + options.maxGap
      BY <1>8
    <3>2. options.maxGap * (k - 1) \in Int
      BY <1>8
    <3> QED BY <1>3, <1>8, <1>9, <1>11, <1>13, <2>2, <3>1, <3>2
  <2> QED BY <2>1, <2>2
<1>14. options.maxGap = 0 \/ options.maxGap > 0
  BY <1>8
<1>15. (k + 1) - 1 = k
  OBVIOUS
<1> QED BY <1>1, <1>5, <1>8, <1>12, <1>13, <1>14, <1>15 DEF Pace, n, d

(* Waiting for an event changes nothing that is reproduced.                *)
LEMMA WaitLoop ==
  ASSUME TapeTypeOK, LoopTypeOK, LoopInv, Reproduces, Wait, UNCHANGED worldVars
  PROVE  LoopTypeOK' /\ LoopInv' /\ Reproduces'
<1>1. /\ pc = "pace" /\ pc' \in {"warp", "act"}
      /\ UNCHANGED <<events, options, last, at, result, stray, trail, down, pointer>>
  BY DEF Wait, timelineVars, worldVars
<1>2. PICK stamp \in CurrentStamp :
        elapsed' = elapsed + scaledGap(stamp - previous) /\ previous' = stamp
  BY DEF Wait, advance
<1>3. /\ at \in 1..last /\ last <= Len(events) /\ at \in 1..Len(events)
      /\ previous \in Int /\ elapsed \in Int
  BY <1>1, InLoop DEF Replaying
<1>4. stamp \in Int
  BY <1>3, EventAt DEF CurrentStamp
<1>5. elapsed' \in Int /\ previous' \in Int
  <2>1. stamp - previous \in Int
    BY <1>3, <1>4
  <2>2. scaledGap(stamp - previous) \in Int
    BY <2>1, ScaledGap DEF LoopTypeOK
  <2> QED BY <1>2, <1>3, <1>4, <2>2
<1>6. LoopTypeOK'
  BY <1>1, <1>5 DEF LoopTypeOK
<1>7. PICK e \in Current : pc' = IF Positioned(e) THEN "warp" ELSE "act"
  BY DEF Wait
<1>8. ~stray => /\ stamp = events[at].stamp /\ e = events[at].event
                /\ pc' = "act" => ~Positioned(events[at].event)
  BY <1>7 DEF CurrentStamp, Current
<1>9. LoopInv'
  <2>1. Paced' = at /\ at > 0
    BY <1>1, <1>3 DEF Paced
  <2> QED BY <1>1, <1>2, <1>3, <1>7, <1>8, <2>1 DEF LoopInv, Replaying, InReplay, Positioned
<1>10. Reproduces'
  BY <1>1, <1>8 DEF Reproduces, InReplay, Replaying, Dispatched
<1> QED BY <1>6, <1>9, <1>10

(* The event the replay is at has the effect the recording says it had,    *)
(* wherever what was known before it holds.                                *)
LEMMA EffectReproduced ==
  ASSUME TapeTypeOK, LoopTypeOK, TapeInv, LoopInv, Reproduces, Replaying, ~stray,
         down' = After(down, events[at].event)
  PROVE  trail[at].down \subseteq down' /\ trail[at].up \intersect down' = {}
<1>1. at \in 1..Len(events) /\ at \in Nat
  BY InLoop
<1> DEFINE e == events[at].event
<1>2. e \in InputEvent
  BY <1>1, EventAt
<1>3. Leads(at)
  BY <1>1 DEF TapeInv
<1>4. /\ KnownDown(at - 1) \subseteq down
      /\ down \subseteq Input \ KnownUp(at - 1)
  <2>1. CASE at = 1
    BY <2>1 DEF KnownDown, KnownUp, TapeTypeOK
  <2>2. CASE at > 1
    <3>1. at - 1 # 0 /\ at - 1 > 0
      BY <1>1, <2>2
    <3>2. /\ trail[at - 1].down \subseteq down
          /\ trail[at - 1].up \intersect down = {}
      BY <3>1 DEF Reproduces, InReplay, Dispatched
    <3> QED BY <3>1, <3>2 DEF KnownDown, KnownUp, TapeTypeOK
  <2> QED BY <1>1, <2>1, <2>2
<1>5. /\ After(KnownDown(at - 1), e) \subseteq down'
      /\ down' \subseteq After(Input \ KnownUp(at - 1), e)
  BY <1>2, <1>4, AfterMonotone
<1> QED BY <1>3, <1>5 DEF Leads

(* A dispatched call that is answered moves the replay on, and what it     *)
(* leaves behind is what the recording says.                               *)
LEMMA ProceedLoop ==
  ASSUME TapeTypeOK, LoopTypeOK, TapeInv, LoopInv, Pace, Reproduces, TapeTypeOK',
         NEW more \in BOOLEAN, NEW r \in Outcome, Proceed(more, r), TapeGrows,
         pc \in {"warp", "act"},
         (~stray' /\ r = "ok" /\ more) =>
           /\ events[at].event.kind # "move"
           /\ down' = down
           /\ Positioned(events[at].event) => pointer' = trail[at].pointer,
         (~stray' /\ r = "ok" /\ ~more) => down' = After(down, events[at].event),
         (~stray' /\ r # "ok") => down' = down
  PROVE  LoopTypeOK' /\ LoopInv' /\ Pace' /\ Reproduces'
<1>1. Replaying
  BY DEF Replaying
<1>2. /\ last \in Nat /\ at \in 1..last /\ last <= Len(events) /\ Len(events) \in Nat
      /\ at \in 1..Len(events) /\ previous \in Int /\ elapsed \in Int
  BY <1>1, InLoop
<1>3. /\ Len(events) <= Len(events') /\ Len(events') \in Nat
      /\ \A i \in 1..Len(events) : events'[i] = events[i] /\ trail'[i] = trail[i]
      /\ stray => stray'
  BY DEF TapeGrows, TapeTypeOK
<1>4. UNCHANGED <<options, last, previous, elapsed>> /\ result' = r
  BY DEF Proceed, paceVars
<1>5. stray' \in BOOLEAN /\ stray \in BOOLEAN
  BY DEF TapeTypeOK
<1>6. Paced = at
  BY DEF Paced
<1>7. 1 \in 1..Len(events)
  BY <1>2
<1>8. CASE r # "ok" \/ more
  <2>1. at' = at
    BY <1>8 DEF Proceed
  <2>2. pc' = (IF r # "ok" THEN "returned" ELSE "act")
    BY <1>8 DEF Proceed
  <2>3. LoopTypeOK'
    BY <1>4, <2>1, <2>2 DEF LoopTypeOK
  <2>4. pc' = "act" => Paced' = at
    BY <2>1 DEF Paced
  <2>5. (~stray' /\ pc' = "act") =>
          /\ events[at].event.kind # "move"
          /\ Positioned(events[at].event) => pointer' = trail[at].pointer
    BY <1>8, <2>2, Zenon
  <2>6. LoopInv'
    BY <1>1, <1>2, <1>3, <1>4, <1>6, <2>5, <2>1, <2>2, <2>4
       DEF LoopInv, Replaying, InReplay
  <2>7. Pace'
    BY <1>1, <1>2, <1>3, <1>4, <1>6, <1>7, <2>2, <2>4 DEF Pace, Replaying
  <2>8. ASSUME ~stray'
        PROVE  down' = down
    BY <1>8, <2>8, Zenon
  <2>9. ASSUME ~stray', at > 1
        PROVE  trail'[at - 1].down \subseteq down' /\ trail'[at - 1].up \intersect down' = {}
    <3>1. trail'[at - 1] = trail[at - 1]
      BY <1>2, <1>3, <2>9
    <3>2. ~stray /\ InReplay /\ Dispatched > 0
      BY <1>1, <1>2, <1>3, <2>9 DEF InReplay, Dispatched
    <3> QED BY <2>8, <2>9, <3>1, <3>2 DEF Reproduces, Dispatched
  <2>10. ASSUME ~stray', pc' = "act", Positioned(events'[at].event)
        PROVE  pointer' = trail'[at].pointer
    BY <1>2, <1>3, <2>10, <2>5
  <2>11. (Dispatched > 0)' <=> at > 1
    BY <1>2, <2>1 DEF Dispatched
  <2>12. Reproduces'
    BY <1>4, <2>1, <2>2, <2>9, <2>10, <2>11 DEF Reproduces, Dispatched
  <2> QED BY <2>3, <2>6, <2>7, <2>12
<1>9. CASE r = "ok" /\ ~more
  <2>1. at' = at + 1 /\ at' - 1 = at /\ at > 0
    BY <1>2, <1>9 DEF Proceed
  <2>2. pc' = (IF at < last THEN "pace" ELSE "returned")
    BY <1>9 DEF Proceed
  <2>3. LoopTypeOK'
    BY <1>2, <1>4, <2>1, <2>2 DEF LoopTypeOK
  <2>4. pc' = "pace" => Paced' = at
    BY <2>1 DEF Paced
  <2>5. LoopInv'
    BY <1>1, <1>2, <1>3, <1>4, <1>6, <2>1, <2>2, <2>4 DEF LoopInv, Replaying, InReplay
  <2>6. Pace'
    BY <1>1, <1>2, <1>3, <1>4, <1>6, <1>7, <2>2, <2>4 DEF Pace, Replaying
  <2>7. ASSUME ~stray'
        PROVE  trail'[at].down \subseteq down' /\ trail'[at].up \intersect down' = {}
    <3>1. trail[at].down \subseteq down' /\ trail[at].up \intersect down' = {}
      BY <1>1, <1>3, <1>9, <2>7, EffectReproduced
    <3> QED BY <1>2, <1>3, <3>1
  <2>8. pc' = "returned" => at = last
    BY <1>2, <2>2
  <2>9. Reproduces'
    BY <1>4, <2>1, <2>2, <2>7, <2>8 DEF Reproduces, Dispatched
  <2> QED BY <2>3, <2>5, <2>6, <2>9
<1> QED BY <1>8, <1>9

-------------------------------------------------------------------------------
(* The empty tape. *)
LEMMA EmptyTape ==
  /\ <<>> \in Seq(Recorded) /\ <<>> \in Seq(Moment)
  /\ Len(<<>>) = 0
OBVIOUS

(* The types are those of the model. *)
LEMMA Types == TapeTypeOK /\ LoopTypeOK => TypeOK
<1> SUFFICES ASSUME TapeTypeOK, LoopTypeOK PROVE TypeOK
  OBVIOUS
<1>1. captured \in Seq(Recorded) /\ Len(captured) <= 1 /\ Len(happening) = Len(captured)
  <2>1. CASE captured = <<>> /\ happening = <<>>
    BY <2>1, EmptyTape
  <2>2. ASSUME NEW c \in Recorded, NEW h \in Instant, captured = <<c>>, happening = <<h>>
        PROVE  captured \in Seq(Recorded) /\ Len(captured) <= 1
               /\ Len(happening) = Len(captured)
    BY <2>2
  <2> QED BY <2>1, <2>2 DEF TapeTypeOK, InHand
<1> QED BY <1>1 DEF TypeOK, RecorderTypeOK, TapeTypeOK, LoopTypeOK

(* What the world may be found as is of the right type. *)
LEMMA FoundTypes ==
  ASSUME TapeTypeOK, Found \/ Forgotten \/ UNCHANGED <<down, pointer>>
  PROVE  down' \subseteq Input /\ pointer' \in Point
BY PointAssumption DEF Found, Forgotten, Nowhere, TapeTypeOK

(* Where everything starts. *)
LEMMA InitRecording == Init => RecordingInv
<1> SUFFICES ASSUME Init PROVE RecordingInv
  OBVIOUS
<1> USE DEF Init, RecorderInit
<1>1. TapeTypeOK
  <2>1. now \in 0..MaxTime /\ start \in Nat
    BY BoundsAssumption
  <2>2. pointer \in Point
    BY PointAssumption DEF Nowhere
  <2> QED BY <2>1, <2>2, EmptyTape DEF TapeTypeOK, InHand
<1>2. LoopTypeOK
  BY DEF LoopTypeOK, Outcome
<1>3. TapeInv
  <2>1. ClockInv /\ StampsFromZero
    BY DEF ClockInv, StampsFromZero
  <2>2. HeldTracks /\ SeenIsKnown /\ Pending
    BY DEF HeldTracks, SeenIsKnown, Pending
  <2>3. 1..Len(events) = {}
    OBVIOUS
  <2> QED BY <2>1, <2>2, <2>3 DEF TapeInv
<1>4. LoopInv /\ Pace /\ Reproduces
  BY DEF LoopInv, Pace, Reproduces, InReplay, Replaying
<1> QED BY <1>1, <1>2, <1>3, <1>4 DEF RecordingInv

(* The user's events. *)
LEMMA UserStep ==
  ASSUME RecordingInv, NEW e \in Event, NEW t \in now..MaxTime, UserActs(e, t)
  PROVE  RecordingInv'
<1>1. TapeTypeOK /\ LoopTypeOK /\ TapeInv
  BY DEF RecordingInv
<1>2. /\ pc \in {"idle", "cleared"} /\ UserCan(e) /\ Happens(e) /\ Observe(e, t)
      /\ UNCHANGED <<pc, options, last, previous, elapsed, at, result, recording, toggles>>
  BY DEF UserActs, paceVars
<1>3. TapeTypeOK' /\ TapeInv'
  BY <1>1, <1>2, Observed DEF UserCan
<1>4. LoopTypeOK'
  BY <1>1, <1>2 DEF LoopTypeOK
<1>5. LoopInv' /\ Pace' /\ Reproduces'
  BY <1>2, Elsewhere DEF InReplay, Replaying
<1> QED BY <1>3, <1>4, <1>5 DEF RecordingInv

(* The event is appended to the tape. *)
LEMMA PushStep ==
  ASSUME RecordingInv, Push
  PROVE  RecordingInv'
<1>1. TapeTypeOK /\ LoopTypeOK /\ TapeInv /\ LoopInv /\ Pace /\ Reproduces
  BY DEF RecordingInv
<1>2. /\ UNCHANGED <<pc, paceVars, at, result, tapVars, down, pointer, doubtful>>
      /\ ~Replaying => stray' = stray
      /\ captured' = <<>>
  BY DEF Push, capturePush
<1>3. TapeTypeOK' /\ TapeGrows
  BY <1>1, PushTypes, PushGrows
<1>4. ClockInv' /\ StampsFromZero'
  BY <1>1, PushClock DEF TapeInv
<1>5. /\ SeenIsKnown'
      /\ \A i \in 1..Len(events') : (Leads(i) /\ Placed(i) /\ Truth(i))'
  BY <1>1, PushKnown DEF TapeInv
<1>6. HeldTracks' /\ Pending'
  BY <1>1, <1>2 DEF TapeInv, HeldTracks, Pending, tapVars
<1>7. LoopTypeOK' /\ LoopInv' /\ Pace' /\ Reproduces'
  BY <1>1, <1>2, <1>3, Beside
<1> QED BY <1>3, <1>4, <1>5, <1>6, <1>7 DEF RecordingInv, TapeInv

(* The pointer moved by others. *)
LEMMA JumpStep ==
  ASSUME RecordingInv, PointerJumps
  PROVE  RecordingInv'
<1>1. TapeTypeOK /\ LoopTypeOK /\ TapeInv
  BY DEF RecordingInv
<1>2. /\ pc = "idle" /\ pointer' \in Point
      /\ UNCHANGED <<recorderVars, now, tapVars, down, doubtful, unseen, happening, trail>>
  BY DEF PointerJumps
<1>3. TapeTypeOK' /\ LoopTypeOK'
  BY <1>1, <1>2 DEF TapeTypeOK, InHand, LoopTypeOK, recorderVars, timelineVars, clockVars,
                    paceVars, tapVars
<1>4. TapeInv'
  BY <1>1, <1>2, Quiet DEF recorderVars
<1>5. LoopInv' /\ Pace' /\ Reproduces'
  BY <1>2, Elsewhere DEF InReplay, Replaying, recorderVars
<1> QED BY <1>3, <1>4, <1>5 DEF RecordingInv

(* The tap starts. *)
LEMMA StartTapStep ==
  ASSUME RecordingInv, StartTap
  PROVE  RecordingInv'
<1>1. TapeTypeOK /\ LoopTypeOK /\ TapeInv /\ LoopInv /\ Pace /\ Reproduces
  BY DEF RecordingInv
<1>2. /\ recording' = TRUE /\ heldModifiers' = {}
      /\ InReplay => UNCHANGED <<down, pointer>>
      /\ Found \/ Forgotten \/ UNCHANGED <<down, pointer>>
      /\ doubtful' = down' \intersect ModifierKey /\ unseen' = Input
      /\ ~recording /\ UNCHANGED <<recorderVars, now, toggles, happening, trail>>
  BY DEF StartTap, clearModifiers
<1>3. down' \subseteq Input /\ pointer' \in Point
  BY <1>1, <1>2, FoundTypes
<1>4. TapeTypeOK' /\ LoopTypeOK'
  BY <1>1, <1>2, <1>3 DEF TapeTypeOK, InHand, LoopTypeOK, recorderVars, timelineVars,
                          clockVars, paceVars
<1>5. TapeInv'
  <2>1. ClockInv' /\ StampsFromZero'
    BY <1>1, <1>2 DEF TapeInv, ClockInv, StampsFromZero, recorderVars, timelineVars, clockVars
  <2>2. HeldTracks' /\ SeenIsKnown'
    BY <1>2, <1>3 DEF HeldTracks, SeenIsKnown
  <2>4. Pending'
    BY <1>1, <1>2 DEF TapeInv, Pending, recorderVars, timelineVars
  <2>3. \A i \in 1..Len(events') : (Leads(i) /\ Placed(i) /\ Truth(i))'
    BY <1>1, <1>2 DEF TapeInv, recorderVars, timelineVars, Leads, Placed, Truth,
                      KnownDown, KnownUp
  <2> QED BY <2>1, <2>2, <2>3, <2>4 DEF TapeInv
<1>6. LoopInv' /\ Pace' /\ Reproduces'
  BY <1>1, <1>2, Standing
<1> QED BY <1>4, <1>5, <1>6 DEF RecordingInv

(* The tap ends. *)
LEMMA StopTapStep ==
  ASSUME RecordingInv, StopTap
  PROVE  RecordingInv'
<1>1. TapeTypeOK /\ LoopTypeOK /\ TapeInv /\ LoopInv /\ Pace /\ Reproduces
  BY DEF RecordingInv
<1>2. /\ recording' = FALSE
      /\ InReplay => UNCHANGED <<down, pointer>>
      /\ Found \/ Forgotten \/ UNCHANGED <<down, pointer>>
      /\ doubtful' = {} /\ unseen' = Input
      /\ captured = <<>>
      /\ UNCHANGED <<recorderVars, now, toggles, heldModifiers, happening, trail>>
  BY DEF StopTap
<1>3. down' \subseteq Input /\ pointer' \in Point
  BY <1>1, <1>2, FoundTypes
<1>4. TapeTypeOK' /\ LoopTypeOK'
  BY <1>1, <1>2, <1>3 DEF TapeTypeOK, InHand, LoopTypeOK, recorderVars, timelineVars,
                          clockVars, paceVars
<1>5. TapeInv'
  <2>1. ClockInv' /\ StampsFromZero'
    BY <1>1, <1>2 DEF TapeInv, ClockInv, StampsFromZero, recorderVars, timelineVars, clockVars
  <2>2. HeldTracks' /\ SeenIsKnown'
    BY <1>2, <1>3 DEF HeldTracks, SeenIsKnown
  <2>4. Pending'
    BY <1>1, <1>2 DEF TapeInv, Pending, recorderVars, timelineVars
  <2>3. \A i \in 1..Len(events') : (Leads(i) /\ Placed(i) /\ Truth(i))'
    BY <1>1, <1>2 DEF TapeInv, recorderVars, timelineVars, Leads, Placed, Truth,
                      KnownDown, KnownUp
  <2> QED BY <2>1, <2>2, <2>3, <2>4 DEF TapeInv
<1>6. LoopInv' /\ Pace' /\ Reproduces'
  BY <1>1, <1>2, Standing
<1> QED BY <1>4, <1>5, <1>6 DEF RecordingInv

(* The two steps of reset(). *)
LEMMA ResetStep ==
  ASSUME RecordingInv, Reset
  PROVE  RecordingInv'
<1>1. TapeTypeOK /\ LoopTypeOK /\ TapeInv
  BY DEF RecordingInv
<1>2. pc \in {"idle", "cleared"} /\ pc' \in {"idle", "cleared"}
  BY DEF Reset, ResetClear, ResetClock
<1>3. LoopInv' /\ Pace' /\ Reproduces'
  BY <1>2, Elsewhere DEF InReplay, Replaying
<1>4. CASE ResetClear /\ trail' = <<>> /\ unseen' = Input
           /\ UNCHANGED <<now, tapVars, down, pointer, doubtful, happening>>
  <2>1. /\ events' = <<>> /\ raced' = (captured # <<>>) /\ pc' = "cleared"
        /\ UNCHANGED <<started, start, options, last, previous, elapsed, at, result, stray,
                       captured>>
    BY <1>4 DEF ResetClear, clockVars, paceVars
  <2>2. TapeTypeOK' /\ LoopTypeOK'
    <3>1. TapeTypeOK'
      BY <1>1, <1>4, <2>1, EmptyTape DEF TapeTypeOK, InHand, tapVars
    <3>2. LoopTypeOK'
      BY <1>1, <2>1 DEF LoopTypeOK
    <3> QED BY <3>1, <3>2
  <2>3. ClockInv' /\ StampsFromZero'
    BY <1>1, <1>4, <2>1 DEF TapeInv, ClockInv, StampsFromZero
  <2>4. HeldTracks' /\ SeenIsKnown'
    BY <1>1, <1>4 DEF TapeTypeOK, TapeInv, HeldTracks, SeenIsKnown, tapVars
  <2>7. Pending'
    <3> SUFFICES ASSUME captured # <<>>
                 PROVE  Pending'
      BY <2>1 DEF Pending
    <3>1. inputOf(happening[1].event) \subseteq Input
      BY <1>1, Captured, AfterMember
    <3> QED BY <1>1, <1>4, <2>1, <3>1 DEF TapeInv, Pending, tapVars
  <2>5. 1..Len(events') = {}
    BY <2>1
  <2>6. TapeInv'
    BY <2>3, <2>4, <2>5, <2>7 DEF TapeInv
  <2> QED BY <1>3, <2>2, <2>6 DEF RecordingInv
<1>5. CASE ResetClock /\ UNCHANGED worldVars
  <2>1. /\ started' = FALSE /\ pc = "cleared" /\ pc' = "idle"
        /\ UNCHANGED <<events, start, captured, options, last, previous, elapsed, at, result,
                       stray, raced>>
        /\ UNCHANGED <<now, tapVars, down, pointer, doubtful, unseen, happening, trail>>
    BY <1>5 DEF ResetClock, resetClock, paceVars, worldVars
  <2>2. TapeTypeOK' /\ LoopTypeOK'
    BY <1>1, <2>1 DEF TapeTypeOK, InHand, LoopTypeOK, tapVars
  <2>3. ClockInv' /\ StampsFromZero'
    BY <1>1, <2>1 DEF TapeInv, ClockInv, StampsFromZero
  <2>4. HeldTracks' /\ SeenIsKnown' /\ Pending'
    BY <1>1, <2>1 DEF TapeInv, HeldTracks, SeenIsKnown, Pending, tapVars, KnownDown, KnownUp
  <2>5. \A i \in 1..Len(events') : (Leads(i) /\ Placed(i) /\ Truth(i))'
    BY <1>1, <2>1 DEF TapeInv, Leads, Placed, Truth, KnownDown, KnownUp
  <2>6. TapeInv'
    BY <2>3, <2>4, <2>5 DEF TapeInv
  <2> QED BY <1>3, <2>2, <2>6 DEF RecordingInv
<1> QED BY <1>4, <1>5 DEF Reset

(* A replay begins or ends. *)
LEMMA ReplayStep ==
  ASSUME RecordingInv, Replay
  PROVE  RecordingInv'
<1>1. TapeTypeOK /\ LoopTypeOK /\ TapeInv
  BY DEF RecordingInv
<1>2. /\ UNCHANGED <<timelineVars, raced, now, tapVars, doubtful, unseen, happening, trail,
                     options>>
      /\ Found \/ Forgotten \/ UNCHANGED <<down, pointer>>
      /\ recording => UNCHANGED <<down, pointer>>
      /\ pc # "cleared" /\ pc' # "cleared"
      /\ stray' \in {stray, FALSE}
  BY DEF Replay, BeginReplay, Resume
<1>3. down' \subseteq Input /\ pointer' \in Point
  BY <1>1, <1>2, FoundTypes
<1>4. TapeTypeOK'
  BY <1>1, <1>2, <1>3 DEF TapeTypeOK, InHand, timelineVars, clockVars, tapVars
<1>5. TapeInv'
  BY <1>1, <1>2, <1>3, Quiet DEF TapeTypeOK
<1>6. CASE BeginReplay
  <2>1. /\ at' = 1 /\ last' = Len(events) /\ elapsed' = 0 /\ result' = "ok"
        /\ pc' = IF events = <<>> THEN "returned" ELSE "pace"
        /\ previous' = IF events = <<>> THEN 0 ELSE events[1].stamp
        /\ UNCHANGED <<events, options, stray>>
    BY <1>6 DEF BeginReplay, timelineVars
  <2>2. Len(events) \in Nat /\ (events = <<>> <=> Len(events) = 0)
    BY <1>1 DEF TapeTypeOK
  <2>3. previous' \in Int
    <3>1. CASE events = <<>>
      BY <2>1, <3>1
    <3>2. CASE events # <<>>
      <4>1. 1 \in 1..Len(events)
        BY <2>2, <3>2
      <4> QED BY <1>1, <2>1, <3>2, <4>1, EventAt
    <3> QED BY <3>1, <3>2
  <2>4. LoopTypeOK'
    BY <1>1, <2>1, <2>2, <2>3 DEF LoopTypeOK, Outcome
  <2>5. pc' = "pace" => Paced' = 0
    BY <2>1 DEF Paced
  <2>6. LoopInv' /\ Pace'
    BY <2>1, <2>2, <2>5 DEF LoopInv, Pace, Replaying, InReplay
  <2>7. Reproduces'
    BY <2>1, <2>2 DEF Reproduces, Dispatched
  <2> QED BY <1>4, <1>5, <2>4, <2>6, <2>7 DEF RecordingInv
<1>7. CASE Resume
  <2>1. /\ at' = 1 /\ last' = 0 /\ elapsed' = 0 /\ previous' = 0 /\ result' = "ok"
        /\ pc' = "idle" /\ options' = options
    BY <1>7 DEF Resume
  <2>2. LoopTypeOK'
    BY <1>1, <2>1 DEF LoopTypeOK, Outcome
  <2>3. LoopInv' /\ Pace' /\ Reproduces'
    BY <2>1, Elsewhere DEF InReplay, Replaying
  <2> QED BY <1>4, <1>5, <2>2, <2>3 DEF RecordingInv
<1> QED BY <1>6, <1>7 DEF Replay

(* A replay waits. *)
LEMMA WaitStep ==
  ASSUME RecordingInv, Wait, UNCHANGED worldVars
  PROVE  RecordingInv'
<1>1. TapeTypeOK /\ LoopTypeOK /\ TapeInv /\ LoopInv /\ Pace /\ Reproduces
  BY DEF RecordingInv
<1>2. /\ pc = "pace" /\ pc' \in {"warp", "act"}
      /\ UNCHANGED <<timelineVars, stray, raced, now, tapVars, down, pointer,
                     doubtful, unseen, happening, trail>>
  BY DEF Wait, worldVars
<1>3. TapeTypeOK'
  BY <1>1, <1>2 DEF TapeTypeOK, InHand, timelineVars, clockVars, tapVars
<1>4. TapeInv'
  BY <1>1, <1>2, Quiet
<1>5. LoopTypeOK' /\ LoopInv' /\ Reproduces'
  BY <1>1, WaitLoop
<1>6. Pace'
  <2>1. CASE ~stray
    BY <1>1, <2>1, WaitPaces
  <2>2. CASE stray
    BY <1>2, <2>2 DEF Pace
  <2> QED BY <2>1, <2>2
<1> QED BY <1>3, <1>4, <1>5, <1>6 DEF RecordingInv

(* A call a replay dispatches: what is injected is an event the tap may    *)
(* see as it sees the user's.                                              *)
LEMMA Injected ==
  ASSUME TapeTypeOK, TapeInv, NEW e \in Event, NEW r \in Outcome, Inject(e, r),
         e.kind \in {"button", "scroll"} => e.to = pointer,
         pc \in {"warp", "act"}, pc' # "cleared",
         UNCHANGED <<recording, toggles>>
  PROVE  /\ TapeTypeOK' /\ TapeInv' /\ TapeGrows
         /\ r = "ok" => Happens(e)
         /\ r # "ok" => UNCHANGED <<down, pointer>>
<1>1. CASE r = "ok" /\ Happens(e) /\ Observe(e, now)
  <2>1. now \in now..MaxTime
    BY BoundsAssumption DEF TapeTypeOK
  <2> QED BY <1>1, <2>1, Observed
<1>2. CASE r = "error" /\ UNCHANGED <<timelineVars, stray, raced, worldVars>>
  <2>1. UNCHANGED <<timelineVars, stray, raced, now, tapVars, down, pointer,
                    doubtful, unseen, happening, trail>>
    BY <1>2 DEF worldVars
  <2>2. TapeTypeOK'
    BY <2>1 DEF TapeTypeOK, InHand, timelineVars, clockVars, tapVars
  <2>3. TapeInv'
    BY <2>1, Quiet
  <2>4. TapeGrows
    BY <2>1 DEF TapeGrows, TapeTypeOK, timelineVars
  <2> QED BY <1>2, <2>1, <2>2, <2>3, <2>4
<1> QED BY <1>1, <1>2 DEF Inject

(* The event a replay dispatches. *)
LEMMA CurrentEvent ==
  ASSUME TapeTypeOK, LoopTypeOK, LoopInv, Replaying, NEW e \in Current
  PROVE  /\ e \in Event /\ e \in InputEvent
         /\ ~stray => e = events[at].event
<1>1. at \in 1..Len(events)
  BY InLoop
<1> QED BY <1>1, EventAt, EventAssumption DEF Current

(* The pointer is moved to a positioned event's place.                     *)
LEMMA DispatchMoveStep ==
  ASSUME RecordingInv, NEW r \in Outcome, DispatchMove(r)
  PROVE  RecordingInv'
<1>1. TapeTypeOK /\ LoopTypeOK /\ TapeInv /\ LoopInv /\ Pace /\ Reproduces
  BY DEF RecordingInv
<1>2. PICK e \in Current :
        Positioned(e) /\ Proceed(e.kind # "move", r) /\ Inject(warpOf(e), r)
  BY DEF DispatchMove
<1>3. pc = "warp" /\ Replaying /\ UNCHANGED <<recording, toggles>>
  BY DEF DispatchMove, Replaying
<1>4. e \in Event /\ e \in InputEvent /\ (~stray => e = events[at].event)
  BY <1>1, <1>3, CurrentEvent
<1>5. warpOf(e) \in Event /\ warpOf(e).kind = "move" /\ warpOf(e).to = e.to
  <2>1. e.to \in Point
    BY <1>2, <1>4, EventShape
  <2>2. [kind |-> "move", to |-> e.to] \in Event
    BY <1>2, <1>4, <2>1, EventAssumption
  <2> QED BY <2>2 DEF warpOf
<1>6. pc' # "cleared"
  BY <1>2 DEF Proceed
<1>7. /\ TapeTypeOK' /\ TapeInv' /\ TapeGrows
      /\ r = "ok" => Happens(warpOf(e))
      /\ r # "ok" => UNCHANGED <<down, pointer>>
  BY <1>1, <1>2, <1>3, <1>5, <1>6, Injected
<1>8. down' = down /\ (r = "ok" => pointer' = e.to)
  BY <1>5, <1>7 DEF Happens
<1>9. PICK more \in BOOLEAN : more = (e.kind # "move")
  OBVIOUS
<1>10. Proceed(more, r)
  BY <1>2, <1>9
<1>11. ASSUME ~stray'
       PROVE  e = events[at].event /\ at \in 1..Len(events)
  BY <1>1, <1>3, <1>4, <1>7, <1>11, InLoop DEF TapeGrows
<1>12. ASSUME ~stray', r = "ok", more
       PROVE  /\ events[at].event.kind # "move"
              /\ Positioned(events[at].event) => pointer' = trail[at].pointer
  <2>1. events[at].event.kind # "move"
    BY <1>9, <1>11, <1>12, Zenon
  <2>2. Placed(at)
    BY <1>1, <1>11, <1>12 DEF TapeInv
  <2> QED BY <1>8, <1>11, <1>12, <2>1, <2>2 DEF Placed
<1>13. ASSUME ~stray', ~more
       PROVE  down' = After(down, events[at].event)
  BY <1>8, <1>9, <1>11, <1>13 DEF After
<1>14. LoopTypeOK' /\ LoopInv' /\ Pace' /\ Reproduces'
  BY <1>1, <1>3, <1>7, <1>8, <1>10, <1>12, <1>13, ProceedLoop
<1> QED BY <1>7, <1>14 DEF RecordingInv

(* The event itself. *)
LEMMA DispatchActStep ==
  ASSUME RecordingInv, NEW r \in Outcome, DispatchAct(r)
  PROVE  RecordingInv'
<1>1. TapeTypeOK /\ LoopTypeOK /\ TapeInv /\ LoopInv /\ Pace /\ Reproduces
  BY DEF RecordingInv
<1>2. PICK e \in Current :
        e.kind # "move" /\ Proceed(FALSE, r) /\ Inject(actOf(e), r)
  BY DEF DispatchAct
<1>3. pc = "act" /\ Replaying /\ UNCHANGED <<recording, toggles>>
  BY DEF DispatchAct, Replaying
<1>4. e \in Event /\ e \in InputEvent /\ (~stray => e = events[at].event)
  BY <1>1, <1>3, CurrentEvent
<1>5. /\ actOf(e) \in Event /\ actOf(e).kind = e.kind
      /\ e.kind \in {"key", "button"} =>
           actOf(e).input = e.input /\ actOf(e).down = e.down
      /\ Positioned(e) => actOf(e).to = pointer
  <2>1. CASE Positioned(e)
    <3>1. pointer \in Point
      BY <1>1 DEF TapeTypeOK
    <3>2. [e EXCEPT !.to = pointer] \in Event
      BY <1>4, <2>1, <3>1, EventAssumption
    <3>3. /\ [e EXCEPT !.to = pointer].kind = e.kind
          /\ e.kind = "button" => /\ [e EXCEPT !.to = pointer].input = e.input
                                  /\ [e EXCEPT !.to = pointer].down = e.down
          /\ [e EXCEPT !.to = pointer].to = pointer
      BY <1>4, <2>1 DEF InputEvent, KeyEvent, ButtonEvent, OtherEvent, Positioned
    <3> QED BY <2>1, <3>2, <3>3 DEF actOf, Positioned
  <2>2. CASE ~Positioned(e)
    BY <1>4, <2>2 DEF actOf
  <2> QED BY <2>1, <2>2
<1>6. pc' # "cleared"
  BY <1>2 DEF Proceed
<1>7. /\ TapeTypeOK' /\ TapeInv' /\ TapeGrows
      /\ r = "ok" => Happens(actOf(e))
      /\ r # "ok" => UNCHANGED <<down, pointer>>
  <2>1. actOf(e).kind \in {"button", "scroll"} => actOf(e).to = pointer
    BY <1>5 DEF Positioned
  <2> QED BY <1>1, <1>2, <1>3, <1>5, <1>6, <2>1, Injected
<1>8. r = "ok" => down' = After(down, e)
  <2>1. actOf(e) \in InputEvent
    BY <1>5, EventAssumption
  <2>2. r = "ok" => down' = After(down, actOf(e))
    BY <1>7, <2>1, HappensAfter
  <2>3. After(down, actOf(e)) = After(down, e)
    BY <1>5 DEF After
  <2> QED BY <2>2, <2>3
<1>9. ~stray' => e = events[at].event
  BY <1>4, <1>7 DEF TapeGrows
<1>10. LoopTypeOK' /\ LoopInv' /\ Pace' /\ Reproduces'
  <2>1. FALSE \in BOOLEAN
    OBVIOUS
  <2> QED BY <1>1, <1>2, <1>3, <1>7, <1>8, <1>9, <2>1, ProceedLoop
<1> QED BY <1>7, <1>10 DEF RecordingInv

(* Every step keeps the invariant. *)
LEMMA NextRecording == RecordingInv /\ [Next]_vars => RecordingInv'
<1> SUFFICES ASSUME RecordingInv, [Next]_vars PROVE RecordingInv'
  OBVIOUS
<1>1. ASSUME NEW e \in Event, NEW t \in now..MaxTime, UserActs(e, t) PROVE RecordingInv'
  BY <1>1, UserStep
<1>2. CASE PointerJumps
  BY <1>2, JumpStep
<1>3. CASE StartTap
  BY <1>3, StartTapStep
<1>4. CASE StopTap
  BY <1>4, StopTapStep
<1>5. CASE Reset
  BY <1>5, ResetStep
<1>6. CASE Replay
  BY <1>6, ReplayStep
<1>7. CASE Wait /\ UNCHANGED worldVars
  BY <1>7, WaitStep
<1>8. ASSUME NEW r \in Outcome, DispatchMove(r) PROVE RecordingInv'
  BY <1>8, DispatchMoveStep
<1>9. ASSUME NEW r \in Outcome, DispatchAct(r) PROVE RecordingInv'
  BY <1>9, DispatchActStep
<1>10. CASE Push
  BY <1>10, PushStep
<1>11. CASE UNCHANGED vars
  <2>1. UNCHANGED <<recorderVars, timelineVars, raced, stray, trail, now, tapVars, down, pointer,
                    doubtful, unseen, happening>>
    BY <1>11 DEF vars, worldVars, recorderVars
  <2>2. TapeTypeOK' /\ LoopTypeOK'
    BY <2>1 DEF RecordingInv, TapeTypeOK, InHand, LoopTypeOK, recorderVars, timelineVars,
                clockVars, paceVars, tapVars
  <2>3. TapeInv'
    BY <2>1, Quiet DEF RecordingInv, recorderVars
  <2>4. LoopInv' /\ Pace' /\ Reproduces'
    BY <2>1, Standing DEF RecordingInv
  <2> QED BY <2>2, <2>3, <2>4 DEF RecordingInv
<1> QED BY <1>1, <1>2, <1>3, <1>4, <1>5, <1>6, <1>7, <1>8, <1>9, <1>10, <1>11
       DEF Next, Dispatch

(* The inductive invariant holds in every state a recording is ever in. *)
LEMMA RecordingInvariant == Spec => []RecordingInv
BY InitRecording, NextRecording, PTL DEF Spec

(* Every state is of the right type. *)
THEOREM RecordingTypeCorrect == Spec => []TypeOK
<1>1. RecordingInv => TypeOK
  BY Types DEF RecordingInv
<1> QED BY <1>1, RecordingInvariant, PTL

(* A recording's first stamp is zero and its stamps never go back, however *)
(* long it is, whatever the clock, and whichever resets and replays run,   *)
(* unless capture() and reset() overlapped.                                *)
THEOREM RecordingStampsFromZero == Spec => []StampsFromZero
<1>1. RecordingInv => StampsFromZero
  BY DEF RecordingInv, TapeInv
<1> QED BY <1>1, RecordingInvariant, PTL

(* A replay keeps to the pace of the recording, for every timeScale and    *)
(* maxGap: its error is no more than half a millisecond for each gap.      *)
THEOREM RecordingPace == Spec => []Pace
<1>1. RecordingInv => Pace
  BY DEF RecordingInv
<1> QED BY <1>1, RecordingInvariant, PTL

(* The tape says what happened, but of modifiers the tap cannot be sure    *)
(* about.                                                                  *)
THEOREM RecordingTruth == Spec => []RecordedTruth
<1>1. RecordingInv => RecordedTruth
  BY DEF RecordingInv, TapeInv, Truth, RecordedTruth
<1> QED BY <1>1, RecordingInvariant, PTL

(* After each event of a replay the keys and buttons the recording knows   *)
(* are as they were, and each positioned event finds the pointer in place. *)
THEOREM RecordingReproduces == Spec => []Reproduces
<1>1. RecordingInv => Reproduces
  BY DEF RecordingInv
<1> QED BY <1>1, RecordingInvariant, PTL
===============================================================================
