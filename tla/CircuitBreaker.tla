--------------------------- MODULE CircuitBreaker ---------------------------
(***************************************************************************)
(* RetryService.executeWithCircuitBreaker() of tdr-bot for one key: every  *)
(* call to Radarr or to Sonarr goes through the breaker of that service.   *)
(*                                                                         *)
(* A call here is executeWithRetry() with all its attempts, its time limit *)
(* and its waits: it succeeds only while the service is up, and fails only *)
(* if the service was not up all the time. Calls overlap, and the breaker  *)
(* is read when one starts and written when it ends.                       *)
(***************************************************************************)
EXTENDS Naturals

CONSTANTS
  Calls,             \* bound: calls at once
  failureThreshold

BreakerAssumption == failureThreshold \in Nat \ {0}

VARIABLES
  breaker,   \* the entry in circuitBreakers; failures are counted up to the
             \* threshold, which is all they are compared with
  elapsed,   \* resetTimeout has passed since lastFailureTime
  up,        \* the service is up
  call       \* "shaky": a call during which the service was not always up

vars == <<breaker, elapsed, up, call>>

Init ==
  /\ breaker = [state |-> "closed", failures |-> 0]
  /\ elapsed = TRUE
  /\ up = TRUE
  /\ call = [c \in Calls |-> "none"]

\* (mutant of Probe) The state stays open, also when the call succeeds.
ProbeOpen(b) == b

\* The first call after resetTimeout moves an open breaker to half-open.
Probe(b) == IF b.state = "open" THEN [b EXCEPT !.state = "half-open"] ELSE b

\* Until then calls are refused, which changes nothing.
Start(c) ==
  /\ call[c] = "none"
  /\ breaker.state = "open" => elapsed
  /\ breaker' = Probe(breaker)
  /\ call' = [call EXCEPT ![c] = IF up THEN "steady" ELSE "shaky"]
  /\ UNCHANGED <<elapsed, up>>

\* A success resets a half-open breaker, whichever call it was; it does not reset
\* the count of a closed one.
Succeed(c) ==
  /\ call[c] # "none" /\ up
  /\ breaker' = IF breaker.state = "half-open" THEN [state |-> "closed", failures |-> 0]
                ELSE breaker
  /\ call' = [call EXCEPT ![c] = "none"]
  /\ UNCHANGED <<elapsed, up>>

Counted(n) == IF n < failureThreshold THEN n + 1 ELSE n

Fail(c) ==
  /\ call[c] = "shaky"
  /\ LET n == Counted(breaker.failures) IN
     breaker' = [state |-> IF n = failureThreshold THEN "open" ELSE breaker.state, failures |-> n]
  /\ elapsed' = FALSE
  /\ call' = [call EXCEPT ![c] = "none"]
  /\ UNCHANGED up

ResetTimeout == ~elapsed /\ elapsed' = TRUE /\ UNCHANGED <<breaker, up, call>>

GoDown ==
  /\ up /\ up' = FALSE
  /\ call' = [c \in Calls |-> IF call[c] = "none" THEN "none" ELSE "shaky"]
  /\ UNCHANGED <<breaker, elapsed>>
GoUp == ~up /\ up' = TRUE /\ UNCHANGED <<breaker, elapsed, call>>

End(c) == Succeed(c) \/ Fail(c)

Next ==
  \/ ResetTimeout \/ GoDown \/ GoUp
  \/ \E c \in Calls : Start(c) \/ End(c)

\* Time passes, calls end by their time limit, and the service is asked again.
FairSpec ==
  /\ Init /\ [][Next]_vars
  /\ WF_vars(ResetTimeout)
  /\ WF_vars(\E c \in Calls : Start(c))
  /\ \A c \in Calls : WF_vars(End(c))

-----------------------------------------------------------------------------
\* The variables have their types, and the state of the breaker is that of its
\* count: closed below the threshold, open or half-open at it, in whatever order
\* the calls end.
TypeOK ==
  /\ elapsed \in BOOLEAN /\ up \in BOOLEAN
  /\ call \in [Calls -> {"none", "steady", "shaky"}]
  /\ breaker \in [state : {"closed", "open", "half-open"}, failures : 0..failureThreshold]
  /\ breaker.state = "closed" <=> breaker.failures < failureThreshold

\* When the service is up for good the breaker is closed for good, although late
\* failures of calls that were made before may open it again.
BreakerHeals == <>[]up => <>[](breaker.state = "closed")
=============================================================================
