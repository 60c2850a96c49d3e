---------------------------- MODULE PoliteClient ----------------------------
(***************************************************************************)
(* The HTTP client for public sources (PoliteClient and RateLimiter in     *)
(* src/src/catalog/access.rs): one call at a time, each call a loop of     *)
(* paced requests with retries, a budget per sync and a token bucket whose *)
(* rate follows the source's answers.                                      *)
(*                                                                         *)
(* Time is counted in ticks.  Rates are token units per tick and a request *)
(* costs Unit of them, so that halving and doubling stay integral.  The    *)
(* source may answer anything at any time.  Back-off and Retry-After are   *)
(* delays of any number of ticks up to MaxDelay.  Requests are serial, so  *)
(* the in-flight cap is never reached and is left out, as are the metrics  *)
(* and the retry count that is only reported.                              *)
(***************************************************************************)
EXTENDS Naturals

CONSTANTS MaxRequests,  \* AccessPolicy::max_requests
          MaxRetries,   \* AccessPolicy::max_retries
          Unit,         \* token units per request
          Burst,        \* AccessPolicy::burst
          Ceiling,      \* AccessPolicy::requests_per_second
          Floor,        \* ADAPTIVE_RATE_FLOOR_RPS
          Window,       \* RECOVERY_SUCCESS_WINDOW
          MaxDelay,     \* bound on Retry-After and back-off
          MaxIdle,      \* ticks that fill the bucket at any rate
          MaxSpan       \* bound on the intervals the rate is measured over

ASSUME BudgetAssumption == MaxRequests \in Nat \ {0}
ASSUME RetriesAssumption == MaxRetries \in Nat
ASSUME BucketAssumption == Unit \in Nat \ {0} /\ Burst \in Nat \ {0}
ASSUME RateAssumption == Ceiling \in Nat \ {0} /\ Floor \in Nat \ {0}
ASSUME WindowAssumption == Window \in Nat \ {0}
ASSUME DelayAssumption == MaxDelay \in Nat /\ MaxSpan \in Nat
ASSUME IdleAssumption ==
  MaxIdle \in Nat /\ MaxIdle * Floor >= Burst * Unit
                  /\ MaxIdle * Ceiling >= Burst * Unit

VARIABLES
  rate,       \* effective_rps
  tokens,     \* tokens of the bucket at the last refill
  since,      \* ticks since the last refill
  successes,  \* towards the next recovery
  budget,     \* budget_remaining
  pc,         \* the call: "idle", "check", "pace", "await", "sleep"
  attempt,    \* retries of the call so far
  nap,        \* ticks left to sleep
  outcome,    \* what the last call returned
  \* History, for the properties:
  owed,       \* ticks the source has asked the call in progress to wait
  span, sent  \* length of the measured interval and requests sent in it

limiterVars == <<rate, tokens, since, successes>>
callVars == <<budget, pc, attempt, nap, outcome>>
historyVars == <<owed, span, sent>>
vars == <<limiterVars, callVars, historyVars>>

AtMost(a, b) == IF a < b THEN a ELSE b
AtLeast(a, b) == IF a > b THEN a ELSE b

Init ==
  /\ rate = Ceiling
  /\ tokens = Burst * Unit
  /\ since = 0
  /\ successes = 0
  /\ budget = MaxRequests
  /\ pc = "idle"
  /\ attempt = 0
  /\ nap = 0
  /\ outcome = "none"
  /\ owed = 0
  /\ span = 0
  /\ sent = 0

-----------------------------------------------------------------------------
(* The rate limiter                                                        *)

\* Mutant: the time that has passed is not credited.
refill_lost == tokens

\* refill: the time since the last refill counts at today's rate.
refill == AtMost(tokens + since * rate, Burst * Unit)

\* Mutant: a success raises the rate without a look at the ceiling.
note_success_uncapped ==
  /\ rate' = rate * 2
  /\ successes' = 0

\* The counter is only bounded here; past the window its value has no effect
\* at the ceiling and a throttle resets it.
note_success ==
  IF successes + 1 >= Window /\ rate < Ceiling
  THEN /\ rate' = AtMost(rate * 2, Ceiling)
       /\ successes' = 0
  ELSE /\ rate' = rate
       /\ successes' = AtMost(successes + 1, Window)

note_throttle ==
  /\ rate' = AtLeast(rate \div 2, Floor)
  /\ successes' = 0

-----------------------------------------------------------------------------
(* A call                                                                  *)

Return(o) ==
  /\ pc' = "idle"
  /\ attempt' = 0
  /\ nap' = 0
  /\ owed' = 0
  /\ outcome' = o

Fetch ==
  /\ pc = "idle"
  /\ pc' = "check"
  /\ UNCHANGED <<limiterVars, budget, attempt, nap, outcome, historyVars>>

\* Mutant: the budget is only looked at when the call begins.
CheckBudget_once ==
  /\ pc = "check"
  /\ IF budget = 0 /\ attempt = 0
     THEN Return("budget_exhausted")
     ELSE pc' = "pace" /\ UNCHANGED <<attempt, nap, owed, outcome>>
  /\ UNCHANGED <<limiterVars, budget, span, sent>>

CheckBudget ==
  /\ pc = "check"
  /\ IF budget = 0
     THEN Return("budget_exhausted")
     ELSE pc' = "pace" /\ UNCHANGED <<attempt, nap, owed, outcome>>
  /\ UNCHANGED <<limiterVars, budget, span, sent>>

\* acquire waits for a token; send_get and send_post count the request.
Pace ==
  /\ pc = "pace"
  /\ refill >= Unit
  /\ tokens' = refill - Unit
  /\ since' = 0
  /\ budget' = IF budget > 0 THEN budget - 1 ELSE 0
  /\ pc' = "await"
  /\ sent' = sent + 1
  /\ UNCHANGED <<rate, successes, attempt, nap, outcome, owed, span>>

\* 200, with the body read or the connection lost while reading it.
AnswerOk ==
  /\ pc = "await"
  /\ note_success
  /\ \E o \in {"ok", "transport"} : Return(o)
  /\ UNCHANGED <<tokens, since, budget, span, sent>>

\* 304 and 404.
AnswerNothing ==
  /\ pc = "await"
  /\ note_success
  /\ \E o \in {"not_modified", "not_found"} : Return(o)
  /\ UNCHANGED <<tokens, since, budget, span, sent>>

\* 401, 403, a status that is not handled, or no response at all.
AnswerFinal ==
  /\ pc = "await"
  /\ \E o \in {"authentication", "forbidden", "unexpected_status", "transport"} : Return(o)
  /\ UNCHANGED <<limiterVars, budget, span, sent>>

\* Sleep d ticks and try again, or give up with o.
RetryOr(o, d, after) ==
  /\ IF attempt >= MaxRetries
     THEN Return(o)
     ELSE /\ pc' = "sleep"
          /\ nap' = d
          /\ attempt' = attempt + 1
          /\ owed' = IF after THEN d ELSE 0
          /\ UNCHANGED outcome

\* 429, with a Retry-After of d ticks or without.
AnswerThrottled(d, after) ==
  /\ pc = "await"
  /\ note_throttle
  /\ RetryOr("rate_limited", d, after)
  /\ UNCHANGED <<tokens, since, budget, span, sent>>

\* 500, 502, 503, 504.
AnswerUnavailable(d, after) ==
  /\ pc = "await"
  /\ RetryOr("too_many_retries", d, after)
  /\ UNCHANGED <<limiterVars, budget, span, sent>>

WakeUp ==
  /\ pc = "sleep"
  /\ nap = 0
  /\ pc' = "check"
  /\ UNCHANGED <<limiterVars, budget, attempt, nap, outcome, historyVars>>

Answer ==
  \/ AnswerOk \/ AnswerNothing \/ AnswerFinal
  \/ \E d \in 0 .. MaxDelay, after \in BOOLEAN :
       AnswerThrottled(d, after) \/ AnswerUnavailable(d, after)

\* Time passes.  An idle bucket is full after MaxIdle ticks.  An interval that
\* has reached MaxSpan is replaced by a new one.
Tick ==
  /\ since' = AtMost(since + 1, MaxIdle)
  /\ nap' = IF nap > 0 THEN nap - 1 ELSE 0
  /\ owed' = IF owed > 0 THEN owed - 1 ELSE 0
  /\ IF span < MaxSpan THEN span' = span + 1 /\ UNCHANGED sent
                       ELSE span' = 0 /\ sent' = 0
  /\ UNCHANGED <<rate, tokens, successes, budget, pc, attempt, outcome>>

\* An interval may begin at any moment.
Measure ==
  /\ span' = 0 /\ sent' = 0
  /\ UNCHANGED <<limiterVars, callVars, owed>>

Next == Fetch \/ CheckBudget \/ Pace \/ Answer \/ WakeUp \/ Tick \/ Measure

Spec == Init /\ [][Next]_vars

\* Time passes, the thread runs and a request gets an answer or fails.
FairSpec ==
  /\ Spec
  /\ WF_vars(Tick) /\ WF_vars(CheckBudget) /\ WF_vars(Pace)
  /\ WF_vars(Answer) /\ WF_vars(WakeUp)

-----------------------------------------------------------------------------
(* Properties                                                              *)

Outcomes == {"none", "ok", "not_modified", "not_found", "budget_exhausted",
             "forbidden", "authentication", "rate_limited", "too_many_retries",
             "unexpected_status", "transport"}

\* Every variable keeps its type; the bucket is never overdrawn or overfull.
TypeOK ==
  /\ rate \in Nat \ {0}
  /\ tokens \in 0 .. (Burst * Unit)
  /\ since \in 0 .. MaxIdle
  /\ successes \in 0 .. Window
  /\ budget \in 0 .. MaxRequests
  /\ pc \in {"idle", "check", "pace", "await", "sleep"}
  /\ attempt \in 0 .. MaxRetries
  /\ nap \in 0 .. MaxDelay
  /\ outcome \in Outcomes
  /\ owed \in 0 .. MaxDelay
  /\ span \in 0 .. MaxSpan
  /\ sent \in Nat

\* The highest rate there is: a configured rate below the floor is accepted
\* (validate), and note_throttle then raises the rate to the floor.
Top == AtLeast(Ceiling, Floor)

\* In any interval at most the burst and what the highest rate allows for its
\* length is sent, however the rate was halved and doubled in between and although
\* refill credits time that has passed at a rate that has changed since.
RateBounded == sent * Unit <= Burst * Unit + span * Top

\* "configured_rps is the ceiling (never exceeded)": the same with the configured
\* rate (RateLimiter).  Not so with a configured rate below the floor.
ConfiguredRateKept == sent * Unit <= Burst * Unit + span * Ceiling

\* The rate is not above the highest, and below the floor only as configured.
RateInRange == rate <= Top /\ (rate >= Floor \/ rate = Ceiling)

\* "honoring Retry-After": a call goes on to its next request only when the
\* time its last answer asked for is over.
RetryAfterKept == pc \in {"check", "pace"} => owed = 0

\* A call ends, whatever the source answers.
CallsEnd == pc # "idle" ~> pc = "idle"

\* Requests the call in progress has sent.
InCall ==
  CASE pc = "idle" -> 0
    [] pc = "await" -> attempt + 1
    [] OTHER -> attempt

Contract == INSTANCE FetchContract WITH
              remaining <- budget + InCall,
              returned <- outcome

\* The client keeps its contract with the callers: what a call may take from
\* the budget, and for which outcome.
ContractSpec == Contract!Spec

\* What the calls rely on: the bucket covers what the interval may still send.
Credit == AtMost(tokens + since * Top, Burst * Unit)

\* What a call at each step knows of its waits and of the budget (fetch_with).
CallKnows ==
  /\ pc = "sleep" => owed <= nap
  /\ pc = "idle" => attempt = 0
  /\ pc \in {"idle", "await"} => owed = 0
  /\ pc = "pace" => budget > 0
  /\ budget + InCall <= MaxRequests

\* What the bucket still allows, added to what was sent, stays within the bound
\* (acquire, note_throttle, note_success).
CreditCovered == sent * Unit + Credit <= Burst * Unit + span * Top

\* Of the calls, at any rate.
CallInv == TypeOK /\ RetryAfterKept /\ CallKnows

\* The inductive invariant of the calls and of the limiter.
Inv == CallInv /\ RateInRange /\ RateBounded /\ CreditCovered

=============================================================================
