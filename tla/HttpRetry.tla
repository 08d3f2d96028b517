------------------------------- MODULE HttpRetry -------------------------------
(***************************************************************************)
(* contentops/utils/http_retry.py: which faults of a request are retried.  *)
(*                                                                         *)
(* What a client sees of one attempt is a status or a fault. "connect"     *)
(* stands for the exceptions raised before the request left the client     *)
(* (ConnectError, ConnectTimeout, PoolTimeout), "transport" for the other  *)
(* transport exceptions (read timeouts, resets, truncated answers), which  *)
(* say nothing about whether the server acted on the request.              *)
(***************************************************************************)
EXTENDS Naturals

CONSTANT MaxRetries     \* max_retries of request_with_retry (3 in the code)

ASSUME MaxRetriesAssumption == MaxRetries \in Nat

Refusals == {"4xx", "429", "5xx"}          \* error statuses
Exceptions == {"connect", "transport"}     \* raised by httpx

\* Mutant: a POST is retried after every exception, not after statuses.
RetryExceptions(idempotent) ==
    IF idempotent THEN {"429", "5xx"} \cup Exceptions ELSE {"429"} \cup Exceptions

\* retry_status and retry_exceptions: a POST is repeated only after what proves
\* that it was not processed.
Retryable(idempotent) ==
    IF idempotent THEN {"429", "5xx"} \cup Exceptions ELSE {"429", "connect"}

\* request_with_retry, after an attempt that showed `seen`: one budget for
\* statuses and exceptions alike.
Retries(idempotent, seen, attempts) ==
    seen \in Retryable(idempotent) /\ attempts < MaxRetries

\* Otherwise an exception propagates and a status is returned to the caller.
Raises(seen) == seen \in Exceptions
=============================================================================
