------------------------------ MODULE Recorder ------------------------------
(***************************************************************************)
(* The Recorder (src/common/Recorder.cpp): capture() on the thread of an   *)
(* event tap, reset() and replay() on the caller's, with no lock between   *)
(* them; here their steps interleave.  capture() sees to the clock, which  *)
(* it shares with reset(), before it appends to the recording; replay()    *)
(* walks the recording with the iterators it took at its beginning, waits  *)
(* for each event, and dispatches it to the facades.                       *)
(***************************************************************************)
EXTENDS Integers, Sequences

CONSTANTS Event,     \* the normalized input events
          Options,   \* the ReplayOptions: timeScale is a fraction <<n, d>>
          Tick       \* the clock's ticks in a millisecond

ASSUME OptionsAssumption ==
  Options \subseteq [timeScale : Nat \X (Nat \ {0}), maxGap : Nat]
ASSUME TickAssumption == Tick \in Nat \ {0}

VARIABLES
  events,    \* events_: the recording
  started,   \* started_
  start,     \* start_, a time of the clock
  captured,  \* what capture() holds, its stamp taken, and has yet to push
  pc,        \* where the caller's thread is in reset() or replay()
  options,   \* the ReplayOptions of every replay
  at,        \* the event the replay is at
  last,      \* the last one there was when it began
  previous,  \* the previous event's timestamp
  elapsed,   \* virtualElapsed
  result,    \* what replay() returned
  stray,     \* the recording has moved in memory under the replay
  raced      \* history: capture() and the last reset() overlapped

clockVars == <<started, start>>
timelineVars == <<events, clockVars, captured>>
paceVars == <<options, last, previous, elapsed>>
recorderVars == <<timelineVars, pc, paceVars, at, result, stray, raced>>

Outcome == {"ok", "error"}
Positioned(e) == e.kind # "key"
Replaying == pc \in {"pace", "warp", "act"}

Recorded == [stamp : Int, event : Event]

RecorderTypeOK ==
  /\ events \in Seq(Recorded)
  /\ captured \in Seq(Recorded) /\ Len(captured) <= 1
  /\ started \in BOOLEAN /\ start \in Nat
  /\ pc \in {"idle", "cleared", "pace", "warp", "act", "returned"}
  /\ options \in Options
  /\ at \in 1..(last + 1) /\ last \in Nat
  /\ previous \in Int /\ elapsed \in Int
  /\ result \in Outcome
  /\ stray \in BOOLEAN /\ raced \in BOOLEAN

RecorderInit ==
  /\ events = <<>> /\ started = FALSE /\ start = 0 /\ captured = <<>>
  /\ pc = "idle"
  /\ options \in Options
  /\ at = 1 /\ last = 0 /\ previous = 0 /\ elapsed = 0
  /\ result = "ok" /\ stray = FALSE /\ raced = FALSE

(* duration_cast to milliseconds drops the fraction. *)
stampOf(t, since) == (t - since) \div Tick

(* capture() of an event, at time t.  Of its accesses of started_ only the *)
(* last counts beside those of reset(), and nobody else uses start_: the   *)
(* clock is one step.                                                      *)
captureClock(e, t) ==
  /\ captured = <<>>
  /\ started' = TRUE
  /\ start' = IF started THEN start ELSE t
  /\ captured' = <<[stamp |-> stampOf(t, start'), event |-> e]>>
  /\ raced' = (raced \/ pc = "cleared")
  /\ UNCHANGED <<events, stray>>

(* A push_back that finds no room moves the recording. *)
capturePush ==
  /\ captured # <<>>
  /\ events' = events \o captured /\ captured' = <<>>
  /\ stray' \in IF Replaying THEN {stray, TRUE} ELSE {stray}
  /\ UNCHANGED <<clockVars, raced>>

(* Mutant: the clock goes on. *)
resetClockKept == started' = started
resetClock == started' = FALSE

(* reset(): events_.clear(), then the clock. *)
ResetClear ==
  /\ pc = "idle"
  /\ events' = <<>> /\ raced' = (captured # <<>>)
  /\ pc' = "cleared"
  /\ UNCHANGED <<clockVars, captured, paceVars, at, result, stray>>

ResetClock ==
  /\ pc = "cleared"
  /\ resetClock
  /\ pc' = "idle"
  /\ UNCHANGED <<events, start, captured, paceVars, at, result, stray, raced>>

BeginReplay ==
  /\ pc = "idle"
  /\ at' = 1 /\ last' = Len(events)
  /\ pc' = IF events = <<>> THEN "returned" ELSE "pace"
  /\ previous' = IF events = <<>> THEN 0 ELSE events[1].stamp
  /\ elapsed' = 0 /\ result' = "ok"
  /\ UNCHANGED <<timelineVars, options, stray, raced>>

(* What a dereferenced iterator yields: once it dangles, any event, and a *)
(* timestamp for which two values stand.                                  *)
Current == IF stray THEN Event ELSE {events[at].event}
CurrentStamp == IF stray THEN {previous, previous + 1} ELSE {events[at].stamp}

(* llround(gap * timeScale): to the nearest, halves away from zero. *)
(* Mutant: a cast alone, which drops the fraction.                  *)
truncate(n, d) == IF n >= 0 THEN n \div d ELSE -((-n) \div d)
llround(n, d) == IF n >= 0 THEN (2 * n + d) \div (2 * d) ELSE -((d - 2 * n) \div (2 * d))

scaledGap(gap) ==
  LET scaled == llround(gap * options.timeScale[1], options.timeScale[2])
  IN IF options.maxGap > 0 /\ scaled > options.maxGap THEN options.maxGap ELSE scaled

advance(stamp) == elapsed' = elapsed + scaledGap(stamp - previous) /\ previous' = stamp

(* Wait for the event, and begin to dispatch it. *)
Wait ==
  /\ pc = "pace"
  /\ \E stamp \in CurrentStamp : advance(stamp)
  /\ \E e \in Current : pc' = IF Positioned(e) THEN "warp" ELSE "act"
  /\ UNCHANGED <<timelineVars, options, last, at, result, stray, raced>>

(* A call of dispatch has answered r; `more` says whether another follows. *)
Proceed(more, r) ==
  /\ result' = r
  /\ at' = IF r = "ok" /\ ~more THEN at + 1 ELSE at
  /\ pc' = CASE r # "ok" -> "returned"
             [] r = "ok" /\ more -> "act"
             [] OTHER -> IF at < last THEN "pace" ELSE "returned"
  /\ UNCHANGED paceVars

(* The caller has looked at the result; the locals of replay() are gone. *)
Resume ==
  /\ pc = "returned"
  /\ pc' = "idle" /\ stray' = FALSE
  /\ at' = 1 /\ last' = 0 /\ previous' = 0 /\ elapsed' = 0 /\ result' = "ok"
  /\ UNCHANGED <<timelineVars, options, raced>>

-------------------------------------------------------------------------------
(* A recording's clock starts at its first event and never runs backwards  *)
(* (RecorderTests.cpp), unless capture() and the last reset() overlapped,  *)
(* either way: reset() began between an event's stamp and its push, or an  *)
(* event was stamped after events_.clear() and before started_ = false.    *)
StampsFromZero ==
  (~raced /\ events # <<>>) =>
    /\ events[1].stamp = 0
    /\ \A i \in 1..(Len(events) - 1) : events[i].stamp <= events[i + 1].stamp

(* How many of the recording's events have been waited for. *)
Paced == IF pc = "pace" THEN at - 1 ELSE at

(* A replay keeps to the recording's pace but for half a millisecond in    *)
(* each gap, and no idle time makes it longer than maxGap for each gap.    *)
Pace ==
  (Replaying /\ ~stray /\ Paced > 0) =>
    LET n == options.timeScale[1]
        d == options.timeScale[2]
        drift == 2 * (d * elapsed - n * (events[Paced].stamp - events[1].stamp))
    IN IF options.maxGap = 0
       THEN drift \in (-(d * (Paced - 1)))..(d * (Paced - 1))
       ELSE elapsed <= options.maxGap * (Paced - 1)
===============================================================================
