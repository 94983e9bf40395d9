--------------------------- MODULE EventTapContract ---------------------------
(***************************************************************************)
(* What IEventTapBackend.h promises of one tap: start() taps and blocks    *)
(* until stop(), or answers an error before it has tapped anything.        *)
(***************************************************************************)
VARIABLES phase,      \* "out", or "in" while a start() is in progress
          requested,  \* a stop() has been in progress since that start() began
          delivered,  \* that start() has called the sink
          outcome     \* how the last start() returned

contractVars == <<phase, requested, delivered, outcome>>

ContractInit ==
  /\ phase = "out" /\ outcome = "none"
  /\ requested = FALSE /\ delivered = FALSE

Start ==
  /\ phase = "out"
  /\ phase' = "in"
  /\ requested' \in BOOLEAN
  /\ delivered' = FALSE
  /\ UNCHANGED outcome

Stop ==
  /\ requested' = TRUE
  /\ UNCHANGED <<phase, delivered, outcome>>

CallSink ==
  /\ phase = "in"
  /\ delivered' = TRUE
  /\ UNCHANGED <<phase, requested, outcome>>

ReturnOk ==
  /\ phase = "in"
  /\ requested
  /\ phase' = "out"
  /\ outcome' = "ok"
  /\ UNCHANGED <<requested, delivered>>

ReturnError ==
  /\ phase = "in"
  /\ ~delivered
  /\ phase' = "out"
  /\ outcome' = "error"
  /\ UNCHANGED <<requested, delivered>>

ContractNext == Start \/ Stop \/ CallSink \/ ReturnOk \/ ReturnError

ContractSpec == ContractInit /\ [][ContractNext]_contractVars
===============================================================================
