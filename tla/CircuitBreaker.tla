---------------------------- MODULE CircuitBreaker ----------------------------
(***************************************************************************)
(* The circuit breaker of demo_3_4a_circuit_breaker.rs.  before_call,      *)
(* on_success and on_failure each hold the mutex on the state to their     *)
(* end, so each is one step; the call to the service is awaited between    *)
(* them, other callers go on meanwhile, and the future may be dropped.     *)
(***************************************************************************)
EXTENDS Naturals

CONSTANTS
  Caller,
  failure_threshold, success_threshold,
  reset_timeout,    \* in ticks of the clock
  MaxOutages,       \* bound: how often the service goes down
  MaxDrops          \* bound: how many calls are given up

CircuitBreakerAssumption ==
  /\ failure_threshold \in Nat \ {0} /\ success_threshold \in Nat \ {0}
  /\ reset_timeout \in Nat

VARIABLES
  state, failure_count, success_count,
  elapsed,   \* the ticks since opened_at, up to reset_timeout
  pc,        \* pc[c]: "idle", "calling", or the answer, "ok" or "failed"
  up,        \* the service answers
  outages,   \* how often it went down (bound)
  drops,     \* how many calls were given up (bound)
  quiet,     \* the ticks since the circuit last opened, up to reset_timeout (history)
  tested     \* the successes reported since it last half-opened (history)

vars ==
  <<state, failure_count, success_count, elapsed, pc, up, outages, drops, quiet, tested>>

Init ==
  /\ state = "Closed"
  /\ failure_count = 0 /\ success_count = 0
  /\ elapsed = reset_timeout /\ quiet = reset_timeout
  /\ tested = 0
  /\ pc = [c \in Caller |-> "idle"]
  /\ up = TRUE /\ outages = 0 /\ drops = 0

-----------------------------------------------------------------------------
(* call(): before_call, the service, on_success or on_failure. *)

Admit(c) == pc' = [pc EXCEPT ![c] = "calling"]

Pass(c) ==
  /\ pc[c] = "idle" /\ state \in {"Closed", "HalfOpen"}
  /\ Admit(c)
  /\ UNCHANGED <<state, failure_count, success_count, elapsed, up, outages, drops, quiet, tested>>

HalfOpen(c) ==
  /\ pc[c] = "idle" /\ state = "Open" /\ elapsed >= reset_timeout
  /\ Admit(c)
  /\ state' = "HalfOpen"
  /\ success_count' = 0
  /\ tested' = 0
  /\ UNCHANGED <<failure_count, elapsed, up, outages, drops, quiet>>

on_success ==
  /\ CASE state = "HalfOpen" ->
            /\ success_count' = success_count + 1
            /\ tested' = tested + 1
            /\ IF success_count' >= success_threshold
                 THEN state' = "Closed" /\ failure_count' = 0
                 ELSE UNCHANGED <<state, failure_count>>
       [] state = "Closed" ->
            /\ failure_count' = 0
            /\ UNCHANGED <<state, success_count, tested>>
       [] state = "Open" ->
            UNCHANGED <<state, failure_count, success_count, tested>>
  /\ UNCHANGED <<elapsed, quiet>>

Open == state' = "Open" /\ elapsed' = 0 /\ quiet' = 0

\* Mutant: a circuit that opens again keeps the time of its first opening.
OpenAgainLate == state' = "Open" /\ quiet' = 0 /\ UNCHANGED elapsed

OpenAgain == Open

on_failure ==
  /\ CASE state = "Closed" ->
            /\ failure_count' = failure_count + 1
            /\ IF failure_count' >= failure_threshold
                 THEN Open
                 ELSE UNCHANGED <<state, elapsed, quiet>>
       [] state = "HalfOpen" -> OpenAgain /\ UNCHANGED failure_count
       [] state = "Open" -> UNCHANGED <<state, failure_count, elapsed, quiet>>
  /\ UNCHANGED <<success_count, tested>>

Answer(c) ==
  /\ pc[c] = "calling"
  /\ pc' = [pc EXCEPT ![c] = IF up THEN "ok" ELSE "failed"]
  /\ UNCHANGED <<state, failure_count, success_count, elapsed, up, outages, drops, quiet, tested>>

\* The breaker may have left the state in which it let the call through.
Report(c) ==
  /\ \/ pc[c] = "ok" /\ on_success
     \/ pc[c] = "failed" /\ on_failure
  /\ pc' = [pc EXCEPT ![c] = "idle"]
  /\ UNCHANGED <<up, outages, drops>>

\* The caller drops the future: nothing is reported.
Drop(c) ==
  /\ pc[c] = "calling" /\ drops < MaxDrops
  /\ pc' = [pc EXCEPT ![c] = "idle"]
  /\ drops' = drops + 1
  /\ UNCHANGED <<state, failure_count, success_count, elapsed, up, outages, quiet, tested>>

-----------------------------------------------------------------------------
Soon(n) == IF n < reset_timeout THEN n + 1 ELSE n

Tick ==
  /\ elapsed' = Soon(elapsed) /\ quiet' = Soon(quiet)
  /\ UNCHANGED <<state, failure_count, success_count, pc, up, outages, drops, tested>>

GoDown ==
  /\ up /\ outages < MaxOutages
  /\ up' = FALSE /\ outages' = outages + 1
  /\ UNCHANGED <<state, failure_count, success_count, elapsed, pc, drops, quiet, tested>>

ComeBack ==
  /\ ~ up /\ up' = TRUE
  /\ UNCHANGED <<state, failure_count, success_count, elapsed, pc, outages, drops, quiet, tested>>

Call(c) == Pass(c) \/ HalfOpen(c)

Next ==
  \/ \E c \in Caller : Call(c) \/ Answer(c) \/ Report(c) \/ Drop(c)
  \/ Tick \/ GoDown \/ ComeBack

Spec == Init /\ [][Next]_vars

\* Time passes, some caller calls, and a call that is not given up is answered.
FairSpec ==
  /\ Spec /\ WF_vars(Tick) /\ WF_vars(\E c \in Caller : Call(c))
  /\ \A c \in Caller : WF_vars(Answer(c) \/ Report(c))

-----------------------------------------------------------------------------
(* Properties. *)

\* A counter at its threshold has changed the state.
TypeOK ==
  /\ state \in {"Closed", "Open", "HalfOpen"}
  /\ pc \in [Caller -> {"idle", "calling", "ok", "failed"}]
  /\ failure_count \in 0 .. failure_threshold
  /\ success_count \in 0 .. success_threshold
  /\ state = "Closed" => failure_count < failure_threshold
  /\ state = "HalfOpen" => success_count < success_threshold

\* Each opening keeps the circuit open for reset_timeout, whatever is reported
\* late (demo_3_4a_circuit_breaker.rs:18-20).
StaysOpen == state # "Open" => quiet = reset_timeout

\* A step closes the circuit after success_threshold successes reported since it was
\* half-opened, none from an earlier test (demo_3_4a_circuit_breaker.rs:19).
ClosesOnSuccesses ==
  state = "HalfOpen" /\ state' = "Closed" => tested' = success_threshold

\* Once the service stays up the circuit closes for good.
Recovers == <>[](outages = MaxOutages /\ up => state = "Closed")
=============================================================================
