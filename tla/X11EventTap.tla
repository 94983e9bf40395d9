----------------------------- MODULE X11EventTap -----------------------------
(***************************************************************************)
(* The life of the X11 event taps of a process (X11EventTapBackend.cpp):   *)
(* each tap has its own connections and XRecord context, but the callback  *)
(* of every context reaches its sink through the one g_state.  Each tap    *)
(* has a thread that calls start(); others call stop().                    *)
(***************************************************************************)
CONSTANTS Tap,       \* the event tap backends, one per session
          Stopper,   \* the threads that call stop()
          None       \* no tap

ASSUME TapAssumption == None \notin Tap

VARIABLES
  pc,        \* where the thread of each tap is in start()
  control,   \* control_ of each tap: null, an open display, or one closed
  context,   \* context_ of each tap is not null
  running,   \* running_ of each tap
  gState,    \* the tap whose self, display and sink g_state holds
  recording, \* external: the server has each tap's context enabled
  stopPc,    \* where each stopper is in stop()
  target,    \* the tap it has called stop() on
  requested, \* history: of each tap, a stop() has been in progress since its
             \* last start() began
  repeated,  \* history: of each tap, more than one has, or one that was in
             \* progress before
  delivered, \* history: of each tap, its sink was called since then
  outcome,   \* history: how the last start() on each tap returned
  astray,    \* history: an event of one tap went to the sink of another
  misuse     \* history: a display was used that was not open

stopVars == <<stopPc, target>>
stopHistory == <<requested, repeated>>
vars == <<pc, control, context, running, gState, recording, stopVars, stopHistory,
          delivered, outcome, astray, misuse>>

InStart(tap) == pc[tap] # "idle"
InLoop(tap) == pc[tap] = "loop"
InStop(s) == stopPc[s] # "out"
InStopOn(s, tap) == InStop(s) /\ target[s] = tap

TypeOK ==
  /\ pc \in [Tap -> {"idle", "setup", "publish", "register", "enable", "loop", "free", "clear"}]
  /\ control \in [Tap -> {"null", "open", "closed"}]
  /\ context \in [Tap -> BOOLEAN] /\ running \in [Tap -> BOOLEAN]
  /\ recording \in [Tap -> BOOLEAN]
  /\ requested \in [Tap -> BOOLEAN] /\ repeated \in [Tap -> BOOLEAN]
  /\ delivered \in [Tap -> BOOLEAN]
  /\ gState \in Tap \union {None}
  /\ stopPc \in [Stopper -> {"out", "flag", "check", "disable"}]
  /\ target \in [Stopper -> Tap]
  /\ outcome \in [Tap -> {"none", "ok", "error"}]
  /\ astray \in BOOLEAN /\ misuse \in BOOLEAN

Init ==
  /\ pc = [tap \in Tap |-> "idle"]
  /\ control = [tap \in Tap |-> "null"]
  /\ context = [tap \in Tap |-> FALSE]
  /\ running = [tap \in Tap |-> FALSE]
  /\ gState = None
  /\ recording = [tap \in Tap |-> FALSE]
  /\ stopPc = [s \in Stopper |-> "out"]
  /\ target \in [Stopper -> Tap]
  /\ requested = [tap \in Tap |-> FALSE] /\ repeated = [tap \in Tap |-> FALSE]
  /\ delivered = [tap \in Tap |-> FALSE]
  /\ outcome = [tap \in Tap |-> "none"]
  /\ astray = FALSE /\ misuse = FALSE

Goto(tap, label) == pc' = [pc EXCEPT ![tap] = label]

-------------------------------------------------------------------------------
(* start(), on the tap's thread.                                           *)
CallStart(tap) ==
  /\ ~InStart(tap)
  /\ Goto(tap, "setup")
  /\ requested' = [requested EXCEPT ![tap] = \E s \in Stopper : InStopOn(s, tap)]
  /\ repeated' = [repeated EXCEPT ![tap] = requested'[tap]]
  /\ delivered' = [delivered EXCEPT ![tap] = FALSE]
  /\ UNCHANGED <<control, context, running, gState, recording, stopVars, outcome, astray, misuse>>

(* The connections, the RECORD extension and the context; if one cannot be *)
(* had, the connections are closed again.  context_ is still null, so that *)
(* stop() looks at none of it.                                             *)
SetUp(tap) ==
  /\ pc[tap] = "setup"
  /\ \/ /\ Goto(tap, "publish")
        /\ control' = [control EXCEPT ![tap] = "open"]
        /\ UNCHANGED outcome
     \/ /\ Goto(tap, "idle")
        /\ outcome' = [outcome EXCEPT ![tap] = "error"]
        /\ UNCHANGED control
  /\ UNCHANGED <<context, running, gState, recording, stopVars, stopHistory, delivered,
                 astray, misuse>>

PublishContext(tap) ==
  /\ pc[tap] = "publish"
  /\ Goto(tap, "register")
  /\ context' = [context EXCEPT ![tap] = TRUE]
  /\ UNCHANGED <<control, running, gState, recording, stopVars, stopHistory, delivered,
                 outcome, astray, misuse>>

(* g_state takes this tap, whatever tap it held.                           *)
Register(tap) ==
  /\ pc[tap] = "register"
  /\ Goto(tap, "enable")
  /\ gState' = tap
  /\ running' = [running EXCEPT ![tap] = TRUE]
  /\ UNCHANGED <<control, context, recording, stopVars, stopHistory, delivered, outcome,
                 astray, misuse>>

(* XRecordEnableContext blocks until the context is disabled, or fails.    *)
EnableContext(tap) ==
  /\ pc[tap] = "enable"
  /\ \/ /\ Goto(tap, "loop")
        /\ recording' = [recording EXCEPT ![tap] = TRUE]
        /\ UNCHANGED outcome
     \/ /\ Goto(tap, "free")
        /\ outcome' = [outcome EXCEPT ![tap] = "error"]
        /\ UNCHANGED recording
  /\ UNCHANGED <<control, context, running, gState, stopVars, stopHistory, delivered,
                 astray, misuse>>

(* interceptCallback: the key is looked up on, and the event handed to,    *)
(* the display and the sink that g_state holds.                            *)
Intercept(tap) ==
  /\ InLoop(tap)
  /\ recording[tap]
  /\ delivered' = [delivered EXCEPT ![gState] = TRUE]
  /\ astray' = (astray \/ gState # tap)
  /\ misuse' = (misuse \/ control[gState] # "open")
  /\ UNCHANGED <<pc, control, context, running, gState, recording, stopVars, stopHistory, outcome>>

(* Mutant: the call also returns while the server records.                 *)
LeaveLoopEarly(tap) ==
  /\ InLoop(tap)
  /\ Goto(tap, "free")
  /\ outcome' = [outcome EXCEPT ![tap] = "ok"]
  /\ UNCHANGED <<control, context, running, gState, recording, stopVars, stopHistory,
                 delivered, astray, misuse>>

LeaveLoop(tap) ==
  /\ InLoop(tap)
  /\ ~recording[tap]
  /\ Goto(tap, "free")
  /\ outcome' = [outcome EXCEPT ![tap] = "ok"]
  /\ UNCHANGED <<control, context, running, gState, recording, stopVars, stopHistory,
                 delivered, astray, misuse>>

(* The displays are closed first, the pointers to them cleared afterwards. *)
CloseDisplays(tap) ==
  /\ pc[tap] = "free"
  /\ Goto(tap, "clear")
  /\ running' = [running EXCEPT ![tap] = FALSE]
  /\ control' = [control EXCEPT ![tap] = "closed"]
  /\ UNCHANGED <<context, gState, recording, stopVars, stopHistory, delivered, outcome,
                 astray, misuse>>

ClearPointers(tap) ==
  /\ pc[tap] = "clear"
  /\ Goto(tap, "idle")
  /\ control' = [control EXCEPT ![tap] = "null"]
  /\ context' = [context EXCEPT ![tap] = FALSE]
  /\ UNCHANGED <<running, gState, recording, stopVars, stopHistory, delivered, outcome,
                 astray, misuse>>

-------------------------------------------------------------------------------
(* stop(), on stopper s.                                                   *)
CallStop(s, tap) ==
  /\ ~InStop(s)
  /\ stopPc' = [stopPc EXCEPT ![s] = "flag"]
  /\ target' = [target EXCEPT ![s] = tap]
  /\ requested' = [requested EXCEPT ![tap] = TRUE]
  /\ repeated' = [repeated EXCEPT ![tap] = @ \/ requested[tap]]
  /\ UNCHANGED <<pc, control, context, running, gState, recording, delivered, outcome,
                 astray, misuse>>

ClearRunning(s) ==
  /\ stopPc[s] = "flag"
  /\ stopPc' = [stopPc EXCEPT ![s] = "check"]
  /\ running' = [running EXCEPT ![target[s]] = FALSE]
  /\ UNCHANGED <<pc, control, context, gState, recording, target, stopHistory, delivered,
                 outcome, astray, misuse>>

(* Mutant: the pointers are not looked at.                                 *)
CheckNothing(s) ==
  /\ stopPc[s] = "check"
  /\ stopPc' = [stopPc EXCEPT ![s] = "disable"]
  /\ UNCHANGED <<pc, control, context, running, gState, recording, target, stopHistory,
                 delivered, outcome, astray, misuse>>

(* Mutant: the context is disabled only while running_ is still set.       *)
CheckRunning(s) ==
  /\ stopPc[s] = "check"
  /\ stopPc' = [stopPc EXCEPT ![s] = IF running[target[s]] THEN "disable" ELSE "out"]
  /\ UNCHANGED <<pc, control, context, running, gState, recording, target, stopHistory,
                 delivered, outcome, astray, misuse>>

CheckContext(s) ==
  /\ stopPc[s] = "check"
  /\ stopPc' = [stopPc EXCEPT ![s] =
       IF context[target[s]] /\ control[target[s]] # "null" THEN "disable" ELSE "out"]
  /\ UNCHANGED <<pc, control, context, running, gState, recording, target, stopHistory,
                 delivered, outcome, astray, misuse>>

(* The pointers are read again; disabling a context that the server has    *)
(* not enabled does nothing.                                               *)
DisableContext(s) ==
  /\ stopPc[s] = "disable"
  /\ stopPc' = [stopPc EXCEPT ![s] = "out"]
  /\ IF control[target[s]] = "open"
     THEN /\ recording' = [recording EXCEPT ![target[s]] = FALSE]
          /\ UNCHANGED misuse
     ELSE /\ misuse' = TRUE
          /\ UNCHANGED recording
  /\ UNCHANGED <<pc, control, context, running, gState, target, stopHistory, delivered,
                 outcome, astray>>

-------------------------------------------------------------------------------
StepStart(tap) ==
  \/ SetUp(tap) \/ PublishContext(tap) \/ Register(tap) \/ EnableContext(tap)
  \/ LeaveLoop(tap) \/ CloseDisplays(tap) \/ ClearPointers(tap)

StepStop(s) == ClearRunning(s) \/ CheckContext(s) \/ DisableContext(s)

Next ==
  \/ \E tap \in Tap : CallStart(tap) \/ StepStart(tap) \/ Intercept(tap)
  \/ \E s \in Stopper : StepStop(s) \/ \E tap \in Tap : CallStop(s, tap)

(* Threads are scheduled; no thread owes a call, and the user no event.    *)
Fairness ==
  /\ \A tap \in Tap : WF_vars(StepStart(tap))
  /\ \A s \in Stopper : WF_vars(StepStop(s))

Spec == Init /\ [][Next]_vars /\ Fairness

-------------------------------------------------------------------------------
(* The first stop() of a start(), which closes the displays once its       *)
(* context is disabled, does not use them closed, unless the server had    *)
(* refused to enable it (X11EventTapBackend.cpp:151-168, 176-180).  Of a   *)
(* second one nothing of the kind holds: see StopUsesOpenDisplay.          *)
FirstStopUsesOpenDisplay ==
  \A s \in Stopper :
    LET tap == target[s]
    IN (stopPc[s] = "disable" /\ ~repeated[tap]) =>
         \/ control[tap] = "open"
         \/ pc[tap] \in {"clear", "idle"} /\ outcome[tap] = "error"

(* A stop() called while the tap records ends it, whatever other threads   *)
(* stop it at the same time.                                               *)
StopInLoopEndsIt ==
  \A s \in Stopper, tap \in Tap :
    (InLoop(tap) /\ target[s] = tap /\ stopPc[s] = "flag") ~> ~InLoop(tap)

-------------------------------------------------------------------------------
(* The one tap of a process is the contract of IEventTapBackend.h: it never  *)
(* returns ok unasked, nor an error after an event.  How a start() returns   *)
(* is settled when it leaves, or fails to enter, the loop.                   *)
Only == CHOOSE tap \in Tap : TRUE
Contract == INSTANCE EventTapContract WITH
  phase <- IF pc[Only] \in {"setup", "publish", "register", "enable", "loop"}
           THEN "in" ELSE "out",
  requested <- requested[Only],
  delivered <- delivered[Only],
  outcome <- outcome[Only]
ImplementsContract == Contract!ContractSpec

-------------------------------------------------------------------------------
(* What Session.h:46 says: "There is no global or static input state       *)
(* anywhere in the library"; each session's sink gets its own events.      *)
EventsReachOwnSink == ~astray

(* What IEventTapBackend.h:29 says of stop(): "safe to call from another   *)
(* thread".  It does not hold: a stop() that has found the pointers, or    *)
(* one after an error, uses a display that start() has closed since.       *)
StopUsesOpenDisplay == ~misuse
===============================================================================
