----------------------------- MODULE RetryBackoff -----------------------------
(***************************************************************************)
(* retry_with_backoff (demo_3_4b_retry_backoff.rs): a retryable error is   *)
(* tried again after a delay that grows up to a cap, a permanent one is    *)
(* returned at once.  Delays are in units of the initial delay; a delay    *)
(* with jitter is any one from 0 to the base.                              *)
(***************************************************************************)
EXTENDS Naturals, FiniteSetsExt

CONSTANT Policies  \* a set of [max_retries, max_delay, multiplier, jitter]

RetryBackoffAssumption ==
  Policies \subseteq
    [max_retries : Nat, max_delay : Nat, multiplier : Nat, jitter : BOOLEAN]

VARIABLES
  policy,   \* never changes
  attempt,
  pc,       \* "call", "sleep" or "done"
  delay,    \* the last delay
  before,   \* the one before it (history)
  left,     \* what is left of the last one
  result    \* what the last attempt returned

vars == <<policy, attempt, pc, delay, before, left, result>>

Init ==
  /\ policy \in Policies
  /\ attempt = 0 /\ pc = "call"
  /\ delay = 0 /\ before = 0 /\ left = 0
  /\ result = "none"

\* multiplier.powi(n)
powi[n \in Nat] == IF n = 0 THEN 1 ELSE policy.multiplier * powi[n - 1]

base_delay(n) == Min({powi[n], policy.max_delay})

delays_with_jitter(n) == IF policy.jitter THEN 0 .. base_delay(n) ELSE {base_delay(n)}

Return(r) == pc' = "done" /\ result' = r /\ UNCHANGED <<attempt, delay, before, left>>

CallSucceeds == pc = "call" /\ Return("Ok") /\ UNCHANGED policy

CallFailsForever == pc = "call" /\ Return("Permanent") /\ UNCHANGED policy

Spent == attempt >= policy.max_retries

CallFails ==
  /\ pc = "call"
  /\ IF Spent
       THEN Return("Retryable")
       ELSE \E d \in delays_with_jitter(attempt) :
              /\ result' = "Retryable" /\ pc' = "sleep"
              /\ left' = d /\ delay' = d /\ before' = delay
              /\ UNCHANGED attempt
  /\ UNCHANGED policy

Sleep ==
  /\ pc = "sleep" /\ left > 0
  /\ left' = left - 1
  /\ UNCHANGED <<policy, attempt, pc, delay, before, result>>

Wake ==
  /\ pc = "sleep" /\ left = 0
  /\ pc' = "call" /\ attempt' = attempt + 1
  /\ UNCHANGED <<policy, delay, before, left, result>>

Call == CallSucceeds \/ CallFailsForever \/ CallFails
Next == Call \/ Sleep \/ Wake

Spec == Init /\ [][Next]_vars
FairSpec == Spec /\ WF_vars(Next)

-----------------------------------------------------------------------------
TypeOK ==
  /\ pc \in {"call", "sleep", "done"}
  /\ attempt \in 0 .. policy.max_retries
  /\ result \in {"none", "Ok", "Retryable", "Permanent"}
  /\ left =< delay

\* A call gives up on a retryable error after max_retries + 1 attempts, on a
\* permanent one after the attempt that returned it (demo_3_4b_retry_backoff.rs:
\* 19-22, :201, :219).
GivesUpInTurn ==
  /\ result = "Permanent" => pc = "done"
  /\ pc = "done" /\ result = "Retryable" => attempt = policy.max_retries

\* No delay is longer than the cap, and without jitter each one is the one before
\* times the multiplier until the cap is reached (:15-16, :156).
BacksOff ==
  /\ delay =< policy.max_delay
  /\ ~ policy.jitter /\ before > 0 =>
       delay = Min({policy.multiplier * before, policy.max_delay})

\* No call runs for ever (:219).
CallsEnd == <>[](result # "none" => pc = "done")
=============================================================================
