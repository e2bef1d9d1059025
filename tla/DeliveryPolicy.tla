--------------------------- MODULE DeliveryPolicy ---------------------------
(***************************************************************************)
(* The clock of a delivery: how resolveSendDeliveryPolicy fits attempts    *)
(* and pauses into the execution limit of the host, and how long a call of *)
(* deliverSend under that policy takes.                                    *)
(*                                                                         *)
(* Time is counted in units; the constants of the code are parameters so   *)
(* that small numbers reach every case.  Timers fire on time.              *)
(***************************************************************************)
EXTENDS Integers, FiniteSetsExt

CONSTANTS
  Headroom,      \* SEND_RETRY_BUDGET_HEADROOM_MS
  MinWindow,     \* the floor of the usable window (1_000)
  MaxDelay,      \* SEND_RETRY_MAX_DELAY_MS
  Limits,        \* FUNCTION_TIMEOUT_MS, configured or default
  Timeouts,      \* SEND_PROVIDER_TIMEOUT_MS
  BaseDelays,    \* SEND_RETRY_BASE_DELAY_MS
  Attempts,      \* SEND_MAX_ATTEMPTS
  Fast           \* durations of an attempt the provider answers at once

ASSUME PolicyAssumption ==
  /\ {Headroom, MinWindow, MaxDelay} \subseteq Nat \ {0}
  /\ Limits \cup Timeouts \cup BaseDelays \cup Attempts \subseteq Nat \ {0}
  /\ Fast \subseteq Nat

VARIABLES
  env,         \* the configured values
  allowRetry,  \* an Idempotency-Key claim is held
  phase,       \* of deliverSend
  attempt,     \* number of the current attempt
  elapsed      \* time since deliverSend began

vars == <<env, allowRetry, phase, attempt, elapsed>>

Env == [limit : Limits, timeout : Timeouts, baseDelay : BaseDelays, attempts : Attempts]
-----------------------------------------------------------------------------
(***************************************************************************)
(* The policy.                                                             *)
(***************************************************************************)
TwoTo[n \in Nat] == IF n = 0 THEN 1 ELSE 2 * TwoTo[n - 1]

BackoffMs(n, baseDelay) == Min({MaxDelay, baseDelay * TwoTo[n]})

\* The pauses after the first n attempts.
Pauses(baseDelay) ==
  LET sum[n \in Nat] == IF n = 0 THEN 0 ELSE sum[n - 1] + BackoffMs(n, baseDelay)
  IN  sum

\* computeRetryBudgetMs: n timeouts, and the pauses between them.
RetryBudget(n, timeout, baseDelay) ==
  LET attempts == Max({1, n})
  IN  attempts * timeout + Pauses(baseDelay)[attempts - 1]

UsableWindow(e) == Max({MinWindow, e.limit - Headroom})

\* Mutated form of ProviderTimeout: as configured.
ConfiguredTimeout(e) == e.timeout
ProviderTimeout(e) == Min({e.timeout, UsableWindow(e)})

Budget(e, n) == RetryBudget(n, ProviderTimeout(e), e.baseDelay)

\* Mutated form of OverBudget: a budget that just fits is cut as well.
OverOrFull(e, n) == Budget(e, n) >= UsableWindow(e)
OverBudget(e, n) == Budget(e, n) > UsableWindow(e)

\* The loop that takes attempts away until the budget fits, or one is left.
Clamp(e) ==
  LET clamp[n \in Nat] == IF n > 1 /\ OverBudget(e, n) THEN clamp[n - 1] ELSE n
  IN  clamp

MaxAttempts(e) == Clamp(e)[e.attempts]
-----------------------------------------------------------------------------
(***************************************************************************)
(* deliverSend: an attempt ends with an answer of the provider, or with    *)
(* the timeout (also when both come at the same instant); a retryable      *)
(* failure is followed by a pause and the next attempt.                    *)
(***************************************************************************)
AttemptsAllowed == IF allowRetry THEN MaxAttempts(env) ELSE 1

AttemptsLeft == allowRetry /\ attempt < AttemptsAllowed

Durations == {d \in Fast \cup {ProviderTimeout(env)} : d <= ProviderTimeout(env)}

EndDelivery == phase' = "done" /\ UNCHANGED attempt

\* Accepted, or failed in a way that is not retried.
LastAnswer(d) ==
  /\ phase = "attempt"
  /\ elapsed' = elapsed + d
  /\ EndDelivery
  /\ UNCHANGED <<env, allowRetry>>

RetryableAnswer(d) ==
  /\ phase = "attempt"
  /\ elapsed' = elapsed + d
  /\ IF AttemptsLeft THEN phase' = "pause" /\ UNCHANGED attempt
                     ELSE EndDelivery
  /\ UNCHANGED <<env, allowRetry>>

TimedOut ==
  /\ phase = "attempt"
  /\ elapsed' = elapsed + ProviderTimeout(env)
  /\ EndDelivery
  /\ UNCHANGED <<env, allowRetry>>

Pause ==
  /\ phase = "pause"
  /\ elapsed' = elapsed + BackoffMs(attempt, env.baseDelay)
  /\ phase' = "attempt"
  /\ attempt' = attempt + 1
  /\ UNCHANGED <<env, allowRetry>>

Init ==
  /\ env \in Env
  /\ allowRetry \in BOOLEAN
  /\ phase = "attempt"
  /\ attempt = 1
  /\ elapsed = 0

Next ==
  \/ \E d \in Durations : LastAnswer(d) \/ RetryableAnswer(d)
  \/ TimedOut
  \/ Pause

Spec == Init /\ [][Next]_vars
-----------------------------------------------------------------------------
(***************************************************************************)
(* Whatever the provider does, deliverSend is over before the usable       *)
(* window is: the host does not stop the invocation before the typed       *)
(* timeout and the cleanup of the claim can run.                           *)
(***************************************************************************)
DeliveryEndsInWindow == elapsed <= UsableWindow(env)

(***************************************************************************)
(* The clamp takes away no attempt that would fit: the policy's number is  *)
(* the largest configured number of attempts whose worst case (timeouts    *)
(* and the pauses between them) fits the usable window, or one.            *)
(***************************************************************************)
WorstCase(n) ==
  n * ProviderTimeout(env)
    + MapThenSumSet(LAMBDA i : BackoffMs(i, env.baseDelay), 1 .. n - 1)

AttemptsAreMaximal ==
  MaxAttempts(env) = Max({1} \cup {n \in 1 .. env.attempts : WorstCase(n) <= UsableWindow(env)})
=============================================================================
