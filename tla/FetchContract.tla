---------------------------- MODULE FetchContract ----------------------------
(***************************************************************************)
(* What a caller of PoliteClient::fetch and fetch_post                     *)
(* (src/src/catalog/access.rs) is promised: one call sends at most         *)
(* max_retries + 1 requests, all of them taken from the budget of the      *)
(* sync, and ends with one of the outcomes below.                          *)
(***************************************************************************)
EXTENDS Naturals

CONSTANTS MaxRequests,  \* the budget of one sync
          MaxRetries    \* AccessPolicy::max_retries

VARIABLES remaining,    \* budget left for later calls
          returned      \* what the last call returned

\* Values of FetchOutcome that the client returns.
Answers == {"ok", "not_modified", "not_found"}

\* Values of StopReason.
Stops == {"budget_exhausted", "forbidden", "authentication", "rate_limited"}

\* The other values of ClientError.
Failures == {"too_many_retries", "unexpected_status", "transport"}

Outcomes == Answers \cup Stops \cup Failures

\* k requests may lead from a budget of b to outcome o.
Consumes(b, k, o) ==
  /\ k <= b
  /\ k <= MaxRetries + 1
  /\ o = "budget_exhausted" => k = b
  /\ o # "budget_exhausted" => k > 0
  /\ o \in {"rate_limited", "too_many_retries"} => k = MaxRetries + 1

Init ==
  /\ remaining = MaxRequests
  /\ returned = "none"

Fetch(k, o) ==
  /\ Consumes(remaining, k, o)
  /\ remaining' = remaining - k
  /\ returned' = o

Next == \E k \in 0 .. (MaxRetries + 1), o \in Outcomes : Fetch(k, o)

Spec == Init /\ [][Next]_<<remaining, returned>>

=============================================================================
