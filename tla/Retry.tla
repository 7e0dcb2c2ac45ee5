-------------------------------- MODULE Retry --------------------------------
(***************************************************************************)
(* retry_with_backoff: an operation is awaited up to max_attempts times,   *)
(* with a growing pause between two attempts, as long as its errors are    *)
(* transient.  The configuration is the caller's; max_attempts may be 0.   *)
(* Whole numbers stand for the floating-point product of the backoff.      *)
(***************************************************************************)
EXTENDS Naturals, Sequences

CONSTANTS
    RetryConfigs,   \* the configurations callers may pass
    ErrorKinds      \* the variants of McpError that the operation may return

RetryConfig == [max_attempts : Nat, initial_backoff_ms : Nat,
                max_backoff_ms : Nat, backoff_multiplier : Nat]

ASSUME RetryAssumption ==
    /\ RetryConfigs \subseteq RetryConfig
    /\ {"none", "ok", "panic"} \cap ErrorKinds = {}
    /\ \A c \in RetryConfigs : \A n \in 0 .. c.max_attempts :
          c.backoff_multiplier ^ n \in Nat

VARIABLES
    retryPc,        \* "new", "call", "sleep" or "done"
    config,
    attempt,        \* the loop variable
    last_error,     \* "none" at first
    outcome,        \* "none", "ok", "panic", or the error returned
    errors,         \* history: the errors the operation has returned
    pauses          \* history: the pauses begun

retryVars == <<retryPc, config, attempt, last_error, outcome, errors, pauses>>

is_transient(e) ==
    e \in {"ConnectionFailed", "NetworkError", "PoolError", "DataSourceUnavailable"}

\* Mutant: the pause is not capped.
BackoffUncapped(n) == config.initial_backoff_ms * config.backoff_multiplier ^ n

\* The product, cut to max_backoff_ms.
backoff_duration(n) ==
    LET product == config.initial_backoff_ms * config.backoff_multiplier ^ n
    IN  IF product < config.max_backoff_ms THEN product ELSE config.max_backoff_ms

RetryInit ==
    /\ retryPc = "new"
    /\ config = [max_attempts |-> 0, initial_backoff_ms |-> 0,
                 max_backoff_ms |-> 0, backoff_multiplier |-> 0]
    /\ attempt = 0
    /\ last_error = "none" /\ outcome = "none"
    /\ errors = <<>> /\ pauses = <<>>

StartRetry(c) ==
    /\ retryPc = "new"
    /\ config' = c
    /\ retryPc' = "call"
    /\ UNCHANGED <<attempt, last_error, outcome, errors, pauses>>

Attempting == retryPc = "call" /\ attempt < config.max_attempts

FinishRetry(result) ==
    /\ retryPc' = "done"
    /\ outcome' = result
    /\ UNCHANGED <<config, attempt, last_error, pauses>>

Succeed == Attempting /\ FinishRetry("ok") /\ UNCHANGED errors

FailForGood(e) ==
    /\ Attempting
    /\ ~is_transient(e)
    /\ errors' = Append(errors, e)
    /\ FinishRetry(e)

\* No pause follows the last attempt.
FailForNow(e) ==
    /\ Attempting
    /\ is_transient(e)
    /\ errors' = Append(errors, e)
    /\ last_error' = e
    /\ \/ /\ attempt + 1 < config.max_attempts
          /\ pauses' = Append(pauses, backoff_duration(attempt))
          /\ retryPc' = "sleep"
          /\ UNCHANGED attempt
       \/ /\ attempt + 1 >= config.max_attempts
          /\ attempt' = attempt + 1
          /\ UNCHANGED <<pauses, retryPc>>
    /\ UNCHANGED <<config, outcome>>

Wake ==
    /\ retryPc = "sleep"
    /\ attempt' = attempt + 1
    /\ retryPc' = "call"
    /\ UNCHANGED <<config, last_error, outcome, errors, pauses>>

\* After the loop: last_error.unwrap() panics when no attempt was allowed.
GiveUp ==
    /\ retryPc = "call"
    /\ attempt >= config.max_attempts
    /\ FinishRetry(IF last_error = "none" THEN "panic" ELSE last_error)
    /\ UNCHANGED errors

RetryStep ==
    \/ Succeed
    \/ \E e \in ErrorKinds : FailForGood(e) \/ FailForNow(e)
    \/ Wake
    \/ GiveUp

RetryNext == RetryStep \/ \E c \in RetryConfigs : StartRetry(c)

RetrySpec == RetryInit /\ [][RetryNext]_retryVars

\* The operation answers, and timers fire.
RetryFairness == WF_retryVars(RetryStep)

-----------------------------------------------------------------------------
RetryTypeOK ==
    /\ retryPc \in {"new", "call", "sleep", "done"}
    /\ config \in RetryConfig
    /\ attempt \in 0 .. config.max_attempts
    /\ last_error \in ErrorKinds \cup {"none"}
    /\ outcome \in ErrorKinds \cup {"none", "ok", "panic"}
    /\ errors \in Seq(ErrorKinds)
    /\ pauses \in Seq(Nat)

\* What the caller is told: the last error of the operation, at the first one
\* that is not transient or after as many attempts as were allowed.
OutcomeIsHonest ==
    /\ \A i \in DOMAIN errors : i < Len(errors) => is_transient(errors[i])
    /\ outcome \in ErrorKinds =>
          /\ errors # <<>>
          /\ outcome = errors[Len(errors)]
          /\ is_transient(outcome) => Len(errors) = config.max_attempts
    /\ retryPc = "done" => (outcome = "panic" <=> config.max_attempts = 0)

\* One pause between two attempts and none anywhere else, each within the cap:
\* nobody waits longer than max_attempts - 1 times max_backoff_ms.
PausesAreBounded ==
    /\ \A i \in DOMAIN pauses : pauses[i] <= config.max_backoff_ms
    /\ outcome \in ErrorKinds => Len(errors) = Len(pauses) + 1
    /\ outcome = "ok" => Len(errors) = Len(pauses)

\* Only transient errors are retried, with a bounded pause before each retry and
\* none after the last one, and the caller gets the error that ended it; with
\* no attempt allowed, and only then, there is a panic.
RetriesAreHonest == OutcomeIsHonest /\ PausesAreBounded

\* The retries end.
RetryEnds == retryPc = "call" ~> retryPc = "done"
=============================================================================
