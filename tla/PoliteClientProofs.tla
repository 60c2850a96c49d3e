------------------------- MODULE PoliteClientProofs -------------------------
(***************************************************************************)
(* The invariant of PoliteClient for every budget, burst, floor, rate and  *)
(* number of retries, a rate configured below the floor of the adaptive    *)
(* rate included, and the contract the callers of the client rely on.      *)
(***************************************************************************)
EXTENDS PoliteClient, TLAPS

-----------------------------------------------------------------------------
(* Products                                                                *)

LEMMA ProductIsNat ==
  ASSUME NEW a \in Nat, NEW b \in Nat PROVE a * b \in Nat
OBVIOUS

LEMMA OneMore ==
  ASSUME NEW a \in Nat, NEW b \in Nat PROVE (a + 1) * b = a * b + b
OBVIOUS

LEMMA ProductGrows ==
  ASSUME NEW a \in Nat, NEW b \in Nat, NEW c \in Nat, b <= c
  PROVE  a * b <= a * c
<1>1. PICK d \in Nat : c = b + d
  <2>1. c - b \in Nat /\ c = b + (c - b)
    OBVIOUS
  <2> QED BY <2>1
<1>2. a * c = a * b + a * d
  BY <1>1
<1>3. a * b \in Nat /\ a * d \in Nat
  BY ProductIsNat
<1> QED BY <1>2, <1>3

\* Filling a bucket of b.
LEMMA Filling ==
  ASSUME NEW t \in Nat, NEW c \in Nat, NEW d \in Nat, NEW r \in Nat, NEW b \in Nat, d <= c + r
  PROVE  /\ AtMost(t + c, b) \in 0 .. b /\ AtMost(t + d, b) \in 0 .. b
         /\ AtMost(t + d, b) <= AtMost(t + c, b) + r
BY DEF AtMost

\* Products of the constants.
LEMMA Capacity ==
  /\ Burst * Unit \in Nat /\ Unit \in Nat \ {0} /\ Top \in Nat \ {0}
  /\ Ceiling <= Top /\ Floor <= Top
BY ProductIsNat, BucketAssumption, RateAssumption DEF Top, AtLeast

-----------------------------------------------------------------------------
(* Calls                                                                   *)

\* Requests of the call in progress, step by step.
LEMMA InCallIs ==
  /\ pc = "idle" => InCall = 0
  /\ pc = "await" => InCall = attempt + 1
  /\ pc \in {"check", "pace", "sleep"} => InCall = attempt
BY DEF InCall

LEMMA InCallWillBe ==
  /\ pc' = "idle" => InCall' = 0
  /\ pc' = "await" => InCall' = attempt' + 1
  /\ pc' \in {"check", "pace", "sleep"} => InCall' = attempt'
BY DEF InCall

\* A call that returns keeps the types and owes nothing.
LEMMA ReturnKeeps ==
  ASSUME CallInv, NEW o \in Outcomes, Return(o), UNCHANGED budget
  PROVE  /\ pc' = "idle" /\ attempt' \in 0 .. MaxRetries /\ nap' \in 0 .. MaxDelay
         /\ owed' \in 0 .. MaxDelay /\ outcome' \in Outcomes
         /\ RetryAfterKept' /\ CallKnows'
<1>1. /\ MaxRetries \in Nat /\ MaxDelay \in Nat /\ MaxRequests \in Nat
      /\ budget \in 0 .. MaxRequests
  BY RetriesAssumption, DelayAssumption, BudgetAssumption DEF CallInv, TypeOK
<1>2. pc' = "idle" /\ attempt' = 0 /\ nap' = 0 /\ owed' = 0 /\ outcome' = o /\ budget' = budget
  BY DEF Return
<1> QED BY <1>1, <1>2, InCallWillBe DEF RetryAfterKept, CallKnows

\* Giving up or going to sleep, after an answer that may be tried again.
LEMMA RetryKeeps ==
  ASSUME CallInv, NEW o \in Outcomes, NEW d \in 0 .. MaxDelay, NEW after \in BOOLEAN,
         pc = "await", RetryOr(o, d, after), UNCHANGED budget
  PROVE  /\ pc' \in {"idle", "sleep"} /\ attempt' \in 0 .. MaxRetries
         /\ nap' \in 0 .. MaxDelay /\ owed' \in 0 .. MaxDelay /\ outcome' \in Outcomes
         /\ RetryAfterKept' /\ CallKnows'
<1>1. CASE Return(o)
  BY <1>1, ReturnKeeps
<1>2. CASE ~Return(o)
  <2>1. /\ MaxRetries \in Nat /\ MaxDelay \in Nat /\ MaxRequests \in Nat
        /\ budget \in 0 .. MaxRequests /\ attempt \in 0 .. MaxRetries /\ outcome \in Outcomes
        /\ budget + (attempt + 1) <= MaxRequests
    BY RetriesAssumption, DelayAssumption, BudgetAssumption, InCallIs DEF CallInv, TypeOK, CallKnows
  <2>2. /\ attempt < MaxRetries /\ pc' = "sleep" /\ nap' = d /\ attempt' = attempt + 1
        /\ outcome' = outcome /\ budget' = budget /\ owed' = (IF after THEN d ELSE 0)
    BY <1>2, <2>1 DEF RetryOr
  <2>3. owed' \in 0 .. MaxDelay /\ owed' <= nap'
    BY <2>1, <2>2
  <2>4. InCall' = attempt + 1
    BY <2>2, InCallWillBe
  <2> QED BY <2>1, <2>2, <2>3, <2>4 DEF RetryAfterKept, CallKnows
<1> QED BY <1>1, <1>2

\* The rate moves within the naturals.
LEMMA RateIsPositive ==
  ASSUME CallInv, note_success \/ note_throttle \/ UNCHANGED << rate, successes >>
  PROVE  rate' \in Nat \ {0} /\ successes' \in 0 .. Window
<1>1. /\ rate \in Nat \ {0} /\ successes \in 0 .. Window
      /\ Ceiling \in Nat \ {0} /\ Floor \in Nat \ {0} /\ Window \in Nat \ {0}
  BY RateAssumption, WindowAssumption DEF CallInv, TypeOK
<1>2. rate \div 2 \in Nat
  BY <1>1
<1> QED BY <1>1, <1>2 DEF note_success, note_throttle, AtMost, AtLeast

\* The bucket is never overdrawn or overfull.
LEMMA RefillFits ==
  ASSUME CallInv
  PROVE  refill \in 0 .. (Burst * Unit) /\ Credit \in 0 .. (Burst * Unit)
<1>1. tokens \in 0 .. (Burst * Unit) /\ since \in Nat /\ rate \in Nat
  BY Capacity, IdleAssumption DEF CallInv, TypeOK
<1>2. since * rate \in Nat /\ since * Top \in Nat
  BY <1>1, Capacity, ProductIsNat
<1> QED BY <1>1, <1>2, Capacity DEF refill, Credit, AtMost

\* What an answer does to the call and to the limiter.
LEMMA AnswerDoes ==
  ASSUME Answer
  PROVE  /\ pc = "await" /\ UNCHANGED << tokens, since, budget, span, sent >>
         /\ note_success \/ note_throttle \/ UNCHANGED << rate, successes >>
         /\ \/ \E o \in Outcomes : Return(o)
            \/ \E o \in Outcomes, d \in 0 .. MaxDelay, after \in BOOLEAN : RetryOr(o, d, after)
<1>1. CASE AnswerOk \/ AnswerNothing \/ AnswerFinal
  BY <1>1 DEF AnswerOk, AnswerNothing, AnswerFinal, limiterVars, Outcomes
<1>2. ASSUME NEW d \in 0 .. MaxDelay, NEW after \in BOOLEAN,
             AnswerThrottled(d, after) \/ AnswerUnavailable(d, after)
      PROVE  /\ pc = "await" /\ UNCHANGED << tokens, since, budget, span, sent >>
             /\ note_throttle \/ UNCHANGED << rate, successes >>
             /\ \E o \in Outcomes : RetryOr(o, d, after)
  <2>1. "rate_limited" \in Outcomes /\ "too_many_retries" \in Outcomes
    BY DEF Outcomes
  <2> QED BY <1>2, <2>1 DEF AnswerThrottled, AnswerUnavailable, limiterVars
<1> QED BY <1>1, <1>2 DEF Answer

\* An answer ends the call or puts it to sleep.
LEMMA AnswerCall ==
  ASSUME CallInv, Answer PROVE CallInv'
<1>1. /\ pc' \in {"idle", "sleep"} /\ attempt' \in 0 .. MaxRetries
      /\ nap' \in 0 .. MaxDelay /\ owed' \in 0 .. MaxDelay /\ outcome' \in Outcomes
      /\ RetryAfterKept' /\ CallKnows'
  BY AnswerDoes, ReturnKeeps, RetryKeeps
<1>2. rate' \in Nat \ {0} /\ successes' \in 0 .. Window
  BY AnswerDoes, RateIsPositive
<1>3. TypeOK'
  BY <1>1, <1>2, AnswerDoes DEF CallInv, TypeOK
<1> QED BY <1>1, <1>3 DEF CallInv

\* The steps of a call between its requests.
LEMMA BetweenRequests ==
  ASSUME CallInv, Fetch \/ CheckBudget \/ WakeUp
  PROVE  CallInv' /\ UNCHANGED << rate, tokens, since, successes, budget, span, sent >>
<1>1. /\ UNCHANGED << rate, tokens, since, successes, budget, span, sent >>
      /\ \/ Return("budget_exhausted")
         \/ /\ \/ pc' = "check" /\ (pc = "idle" \/ (pc = "sleep" /\ nap = 0))
               \/ pc' = "pace" /\ pc = "check" /\ budget # 0
            /\ UNCHANGED << attempt, nap, owed, outcome >>
  BY DEF Fetch, CheckBudget, WakeUp, limiterVars, historyVars
<1>2. CASE Return("budget_exhausted")
  <2>1. "budget_exhausted" \in Outcomes
    BY DEF Outcomes
  <2>2. /\ pc' = "idle" /\ attempt' \in 0 .. MaxRetries /\ nap' \in 0 .. MaxDelay
        /\ owed' \in 0 .. MaxDelay /\ outcome' \in Outcomes
        /\ RetryAfterKept' /\ CallKnows'
    BY <1>1, <1>2, <2>1, ReturnKeeps
  <2>3. TypeOK'
    BY <1>1, <2>2 DEF CallInv, TypeOK
  <2> QED BY <1>1, <2>2, <2>3 DEF CallInv
<1>3. CASE /\ \/ pc' = "check" /\ (pc = "idle" \/ (pc = "sleep" /\ nap = 0))
              \/ pc' = "pace" /\ pc = "check" /\ budget # 0
           /\ UNCHANGED << attempt, nap, owed, outcome >>
  <2>1. TypeOK'
    BY <1>1, <1>3 DEF CallInv, TypeOK
  <2>2. owed = 0 /\ owed' = 0
    BY <1>3, DelayAssumption DEF CallInv, CallKnows, RetryAfterKept, TypeOK
  <2>3. budget \in 0 .. MaxRequests /\ MaxRequests \in Nat /\ attempt \in Nat /\ attempt' = attempt
    BY <1>3, BudgetAssumption, RetriesAssumption DEF CallInv, TypeOK
  <2>4. InCall' = attempt
    BY <1>3, InCallWillBe
  <2>5. InCall = attempt
    BY <1>3, InCallIs DEF CallInv, CallKnows
  <2>6. CallKnows' /\ RetryAfterKept'
    BY <1>1, <1>3, <2>2, <2>3, <2>4, <2>5 DEF CallInv, CallKnows, RetryAfterKept
  <2> QED BY <1>1, <2>1, <2>6 DEF CallInv
<1> QED BY <1>1, <1>2, <1>3

\* What the send of a request does; the budget was not used up.
LEMMA PaceCall ==
  ASSUME CallInv, Pace
  PROVE  CallInv' /\ tokens' = refill - Unit /\ refill >= Unit
<1>1. /\ refill >= Unit /\ tokens' = refill - Unit /\ since' = 0 /\ sent' = sent + 1
      /\ pc = "pace" /\ pc' = "await" /\ budget' = budget - 1
      /\ UNCHANGED << rate, successes, attempt, nap, outcome, owed, span >>
  BY DEF Pace, CallInv, CallKnows
<1>2. /\ MaxRequests \in Nat /\ MaxRetries \in Nat /\ MaxIdle \in Nat
      /\ budget \in 0 .. MaxRequests /\ budget > 0 /\ attempt \in 0 .. MaxRetries
      /\ sent \in Nat /\ owed = 0 /\ budget + attempt <= MaxRequests
  BY <1>1, BudgetAssumption, RetriesAssumption, IdleAssumption, InCallIs
     DEF CallInv, TypeOK, CallKnows, RetryAfterKept
<1>3. tokens' \in 0 .. (Burst * Unit)
  BY <1>1, RefillFits, Capacity
<1>4. TypeOK'
  BY <1>1, <1>2, <1>3 DEF CallInv, TypeOK
<1>5. CallKnows' /\ RetryAfterKept'
  <2>1. InCall' = attempt + 1
    BY <1>1, InCallWillBe
  <2> QED BY <1>1, <1>2, <2>1 DEF CallKnows, RetryAfterKept
<1> QED BY <1>1, <1>4, <1>5 DEF CallInv

\* Time passes for the nap and for what is owed alike.
LEMMA TickCall ==
  ASSUME CallInv, Tick PROVE CallInv' /\ since' <= since + 1
<1>1. /\ UNCHANGED << rate, tokens, successes, budget, pc, attempt, outcome >>
      /\ since' = AtMost(since + 1, MaxIdle)
      /\ nap' = (IF nap > 0 THEN nap - 1 ELSE 0)
      /\ owed' = (IF owed > 0 THEN owed - 1 ELSE 0)
      /\ \/ span < MaxSpan /\ span' = span + 1 /\ sent' = sent
         \/ span' = 0 /\ sent' = 0
  BY DEF Tick
<1>2. /\ nap \in 0 .. MaxDelay /\ owed \in 0 .. MaxDelay /\ since \in 0 .. MaxIdle
      /\ span \in 0 .. MaxSpan /\ sent \in Nat
      /\ MaxDelay \in Nat /\ MaxIdle \in Nat /\ MaxSpan \in Nat
  BY DelayAssumption, IdleAssumption DEF CallInv, TypeOK
<1>3. /\ nap' \in 0 .. MaxDelay /\ owed' \in 0 .. MaxDelay /\ since' \in 0 .. MaxIdle
      /\ since' <= since + 1 /\ span' \in 0 .. MaxSpan /\ sent' \in Nat
      /\ owed <= nap => owed' <= nap'
      /\ owed = 0 => owed' = 0
  BY <1>1, <1>2 DEF AtMost
<1>4. TypeOK'
  BY <1>1, <1>3 DEF CallInv, TypeOK
<1>5. CallKnows' /\ RetryAfterKept'
  BY <1>1, <1>3 DEF CallKnows, RetryAfterKept, CallInv, InCall
<1> QED BY <1>3, <1>4, <1>5 DEF CallInv

\* Nothing in a call depends on the interval that is measured.
LEMMA MeasureCall ==
  ASSUME CallInv, Measure PROVE CallInv'
<1>1. /\ span' = 0 /\ sent' = 0
      /\ UNCHANGED << rate, tokens, since, successes, budget, pc, attempt, nap, outcome, owed >>
  BY DEF Measure, limiterVars, callVars
<1>2. TypeOK'
  BY <1>1, DelayAssumption DEF CallInv, TypeOK
<1>3. CallKnows' /\ RetryAfterKept'
  BY <1>1 DEF CallKnows, RetryAfterKept, CallInv, InCall
<1> QED BY <1>2, <1>3 DEF CallInv

LEMMA StepCall ==
  ASSUME CallInv, [Next]_vars PROVE CallInv'
<1>1. CASE UNCHANGED vars
  BY <1>1 DEF vars, limiterVars, callVars, historyVars, CallInv, TypeOK, RetryAfterKept,
     CallKnows, InCall
<1>2. CASE Next
  BY <1>2, BetweenRequests, PaceCall, AnswerCall, TickCall, MeasureCall DEF Next
<1> QED BY <1>1, <1>2

LEMMA StartCall ==
  ASSUME Init PROVE CallInv
<1>1. InCall = 0 /\ pc = "idle"
  BY InCallIs DEF Init
<1>2. TypeOK /\ RetryAfterKept
  BY BudgetAssumption, RetriesAssumption, RateAssumption, WindowAssumption, DelayAssumption,
     IdleAssumption, Capacity
     DEF Init, TypeOK, RetryAfterKept, Outcomes
<1>3. CallKnows
  BY <1>1, BudgetAssumption DEF Init, CallKnows
<1> QED BY <1>2, <1>3 DEF CallInv

\* At any configured rate, a call waits as long as Retry-After asks before its
\* next request, and all calls together never send more than the budget
\* (fetch_with, send_get, send_post).
THEOREM CallsAreSafe == Spec => []CallInv
<1>1. Init => CallInv
  BY StartCall
<1>2. CallInv /\ [Next]_vars => CallInv'
  BY StepCall
<1> QED BY <1>1, <1>2, PTL DEF Spec

-----------------------------------------------------------------------------
(* The rate                                                                *)

\* The bucket never holds more than the credit at the highest rate.
LEMMA RefillWithinCredit ==
  ASSUME Inv PROVE refill <= Credit
<1>1. /\ tokens \in Nat /\ since \in Nat /\ rate \in Nat /\ rate <= Top
  BY Capacity, IdleAssumption DEF Inv, CallInv, TypeOK, RateInRange
<1>2. since * rate \in Nat /\ since * Top \in Nat /\ since * rate <= since * Top
  BY <1>1, Capacity, ProductIsNat, ProductGrows
<1> QED BY <1>1, <1>2, Capacity DEF refill, Credit, AtMost

\* Halving and doubling keep the rate in its range.
LEMMA RateMoves ==
  ASSUME Inv,
         note_success \/ note_throttle \/ UNCHANGED << rate, successes >>
  PROVE  RateInRange'
<1>1. /\ rate \in Nat \ {0} /\ rate <= Top /\ (rate >= Floor \/ rate = Ceiling)
      /\ Ceiling \in Nat \ {0} /\ Floor \in Nat \ {0} /\ Top \in Nat
      /\ Ceiling <= Top /\ Floor <= Top
  BY RateAssumption, Capacity DEF Inv, CallInv, TypeOK, RateInRange
<1>2. CASE note_success
  BY <1>1, <1>2 DEF note_success, AtMost, RateInRange
<1>3. CASE note_throttle
  <2>1. rate \div 2 \in Nat /\ rate \div 2 <= rate
    BY <1>1
  <2> QED BY <1>1, <1>3, <2>1 DEF note_throttle, AtLeast, RateInRange
<1>4. CASE UNCHANGED << rate, successes >>
  BY <1>1, <1>4 DEF RateInRange
<1> QED BY <1>2, <1>3, <1>4

\* The bound on what was sent follows from the account.
LEMMA BoundFromAccount ==
  ASSUME CallInv', CreditCovered' PROVE RateBounded'
<1>1. sent' \in Nat /\ span' \in Nat /\ since' \in Nat /\ tokens' \in 0 .. (Burst * Unit)
  BY DelayAssumption, IdleAssumption DEF CallInv, TypeOK
<1>2. sent' * Unit \in Nat /\ span' * Top \in Nat /\ since' * Top \in Nat
  BY <1>1, Capacity, ProductIsNat
<1>3. Credit' \in Nat
  <2>1. tokens' \in Nat /\ 0 \in Nat
    BY <1>1, Capacity
  <2>2. since' * Top <= since' * Top + 0
    BY <1>2
  <2>3. AtMost(tokens' + since' * Top, Burst * Unit) \in 0 .. (Burst * Unit)
    BY <1>2, <2>1, <2>2, Filling, Capacity
  <2> QED BY <2>3, Capacity DEF Credit
<1> QED BY <1>2, <1>3, Capacity DEF CreditCovered, RateBounded

\* Sending a request takes Unit from the credit and adds it to what was sent.
LEMMA PaceCredit ==
  ASSUME Inv, Pace PROVE CreditCovered'
<1>1. /\ refill \in 0 .. (Burst * Unit) /\ Credit \in 0 .. (Burst * Unit) /\ refill <= Credit
  BY RefillFits, RefillWithinCredit DEF Inv
<1>2. /\ refill >= Unit /\ tokens' = refill - Unit /\ since' = 0 /\ sent' = sent + 1 /\ span' = span
  BY DEF Pace
<1>3. Credit' = refill - Unit
  <2>1. tokens' + since' * Top = refill - Unit
    BY <1>1, <1>2, Capacity
  <2> QED BY <1>1, <1>2, <2>1, Capacity DEF Credit, AtMost
<1>4. sent \in Nat /\ span \in Nat
  BY DelayAssumption DEF Inv, CallInv, TypeOK
<1>5. /\ sent' * Unit = sent * Unit + Unit
      /\ sent * Unit \in Nat /\ span * Top \in Nat
  BY <1>2, <1>4, OneMore, ProductIsNat, Capacity
<1>6. sent * Unit + Credit <= Burst * Unit + span * Top
  BY DEF Inv, CreditCovered
<1>7. sent' * Unit + Credit' <= Burst * Unit + span * Top
  BY <1>1, <1>2, <1>3, <1>5, <1>6, Capacity
<1> QED BY <1>2, <1>7 DEF CreditCovered

\* A tick adds at most Top to the credit and Top to what may be sent.
LEMMA TickCredit ==
  ASSUME Inv, Tick PROVE CreditCovered'
<1>1. /\ tokens' = tokens
      /\ \/ span' = span + 1 /\ sent' = sent
         \/ span' = 0 /\ sent' = 0
  BY DEF Tick
<1>2. /\ since \in Nat /\ since' \in Nat /\ since + 1 \in Nat /\ since' <= since + 1
      /\ span \in Nat /\ sent \in Nat /\ tokens \in 0 .. (Burst * Unit) /\ Top \in Nat
  BY TickCall, DelayAssumption, IdleAssumption, Capacity DEF Inv, CallInv, TypeOK
<1>3. since' * Top <= since * Top + Top
  <2>1. Top * since' <= Top * (since + 1)
    BY <1>2, ProductGrows
  <2>2. Top * since' = since' * Top /\ Top * (since + 1) = (since + 1) * Top
    BY <1>2
  <2> QED BY <1>2, <2>1, <2>2, OneMore
<1>4. since * Top \in Nat /\ since' * Top \in Nat
  BY <1>2, ProductIsNat
<1>5. /\ Credit \in 0 .. (Burst * Unit) /\ Credit' \in 0 .. (Burst * Unit)
      /\ Credit' <= Credit + Top
  <2>1. tokens \in Nat
    BY <1>2, Capacity
  <2> QED BY <1>1, <1>2, <1>3, <1>4, <2>1, Filling, Capacity DEF Credit
<1>6. CASE span' = span + 1 /\ sent' = sent
  <2>1. span' * Top = span * Top + Top /\ span * Top \in Nat
    BY <1>2, <1>6, OneMore, ProductIsNat
  <2>2. sent * Unit + Credit <= Burst * Unit + span * Top /\ sent * Unit \in Nat
    BY <1>2, ProductIsNat, Capacity DEF Inv, CreditCovered
  <2>3. sent * Unit + Credit' <= Burst * Unit + span' * Top
    BY <1>5, <2>1, <2>2, Capacity
  <2> QED BY <1>6, <2>3 DEF CreditCovered
<1>7. CASE span' = 0 /\ sent' = 0
  BY <1>5, <1>7, Capacity DEF CreditCovered
<1> QED BY <1>1, <1>6, <1>7

\* A step that sends nothing and does not move time leaves the account as it is;
\* a new interval starts with nothing sent and at most a full bucket.
LEMMA StepAccount ==
  ASSUME Inv, [Next]_vars PROVE CreditCovered'
<1>1. CASE UNCHANGED << tokens, since, span, sent >>
  BY <1>1 DEF Inv, CreditCovered, Credit
<1>2. CASE Measure
  <2>1. span' = 0 /\ sent' = 0 /\ Credit' = Credit
    BY <1>2 DEF Measure, limiterVars, Credit
  <2> QED BY <2>1, RefillFits, Capacity DEF Inv, CreditCovered
<1>3. CASE Fetch \/ CheckBudget \/ WakeUp \/ Answer \/ UNCHANGED vars
  <2>1. CASE UNCHANGED vars
    BY <1>1, <2>1 DEF vars, limiterVars, historyVars
  <2> QED BY <1>1, <1>3, <2>1, BetweenRequests, AnswerDoes DEF Inv
<1> QED BY <1>2, <1>3, PaceCredit, TickCredit DEF Next

LEMMA StepRate ==
  ASSUME Inv, [Next]_vars PROVE RateInRange'
<1>1. CASE Answer
  BY <1>1, AnswerDoes, RateMoves
<1>2. CASE ~Answer
  <2>1. rate' = rate
    BY <1>2 DEF Next, Fetch, CheckBudget, WakeUp, Pace, Tick, Measure, vars, limiterVars
  <2> QED BY <2>1 DEF Inv, RateInRange
<1> QED BY <1>1, <1>2

LEMMA StartRate ==
  ASSUME Init PROVE RateInRange /\ CreditCovered /\ RateBounded
<1>1. Credit = Burst * Unit /\ sent * Unit = 0 /\ span * Top = 0
  BY Capacity DEF Init, Credit, AtMost
<1> QED BY <1>1, Capacity DEF Init, RateInRange, CreditCovered, RateBounded

\* In no interval more is sent than the burst and what the configured rate allows, or
\* the floor of the adaptive rate if that is higher, whatever the source answers and
\* when (RateLimiter).
THEOREM ClientIsPolite == Spec => []Inv
<1>1. Init => Inv
  BY StartCall, StartRate DEF Inv
<1>2. Inv /\ [Next]_vars => Inv'
  BY StepCall, StepAccount, StepRate, BoundFromAccount DEF Inv
<1> QED BY <1>1, <1>2, PTL DEF Spec

-----------------------------------------------------------------------------
(* The contract                                                            *)

\* A call that returns with o has taken from the budget what the contract allows.
LEMMA ReturnIsFetch ==
  ASSUME CallInv, NEW o \in Contract!Outcomes, Return(o), UNCHANGED budget,
         \/ /\ pc = "check" /\ budget = 0 /\ o = "budget_exhausted"
         \/ /\ pc = "await" /\ o # "budget_exhausted"
            /\ o \in {"rate_limited", "too_many_retries"} => attempt >= MaxRetries
  PROVE  Contract!Next
<1>1. /\ budget \in Nat /\ attempt \in 0 .. MaxRetries /\ MaxRetries \in Nat
  BY BudgetAssumption, RetriesAssumption DEF CallInv, TypeOK
<1>2. InCall' = 0 /\ outcome' = o /\ budget' = budget
  BY InCallWillBe DEF Return
<1>3. /\ pc = "check" => InCall = attempt
      /\ pc = "await" => InCall = attempt + 1
  BY InCallIs
<1>4. PICK k \in 0 .. (MaxRetries + 1) : k = InCall
  BY <1>1, <1>3
<1>5. Contract!Consumes(budget + InCall, k, o)
  BY <1>1, <1>3, <1>4 DEF Contract!Consumes
<1>6. (budget + InCall)' = (budget + InCall) - k
  BY <1>1, <1>2, <1>4
<1>7. Contract!Fetch(k, o)
  BY <1>2, <1>5, <1>6 DEF Contract!Fetch
<1> QED BY <1>7 DEF Contract!Next

\* A step that does not return leaves what the caller sees as it is.
LEMMA StepMeetsContract ==
  ASSUME CallInv, [Next]_vars
  PROVE  [Contract!Next]_<< budget + InCall, outcome >>
<1> USE DEF Contract!Outcomes, Contract!Answers, Contract!Stops, Contract!Failures
<1>1. CASE UNCHANGED vars \/ Tick \/ Measure
  <2>1. UNCHANGED << budget, pc, attempt, outcome >>
    BY <1>1 DEF Tick, Measure, vars, callVars
  <2> QED BY <2>1 DEF InCall
<1>2. CASE Fetch \/ WakeUp
  <2>1. /\ UNCHANGED << budget, attempt, outcome >> /\ pc' = "check"
        /\ pc = "sleep" \/ (pc = "idle" /\ attempt = 0)
    BY <1>2 DEF Fetch, WakeUp, CallInv, CallKnows
  <2>2. InCall' = InCall
    BY <2>1, InCallIs, InCallWillBe
  <2> QED BY <2>1, <2>2
<1>3. CASE CheckBudget
  <2>1. CASE budget = 0
    BY <1>3, <2>1, ReturnIsFetch DEF CheckBudget
  <2>2. CASE budget # 0
    <3>1. UNCHANGED << budget, attempt, outcome >> /\ pc' = "pace" /\ pc = "check"
      BY <1>3, <2>2 DEF CheckBudget
    <3>2. InCall' = InCall
      BY <3>1, InCallIs, InCallWillBe
    <3> QED BY <3>1, <3>2
  <2> QED BY <2>1, <2>2
<1>4. CASE Pace
  <2>1. /\ pc = "pace" /\ pc' = "await" /\ budget' = budget - 1 /\ UNCHANGED << attempt, outcome >>
    BY <1>4 DEF Pace, CallInv, CallKnows
  <2>2. budget \in Nat /\ attempt \in Nat
    BY BudgetAssumption, RetriesAssumption DEF CallInv, TypeOK
  <2>3. budget' + InCall' = budget + InCall
    BY <2>1, <2>2, InCallIs, InCallWillBe
  <2> QED BY <2>1, <2>3
<1>5. CASE AnswerOk \/ AnswerNothing \/ AnswerFinal
  <2>1. PICK o \in {"ok", "transport", "not_modified", "not_found", "authentication",
                    "forbidden", "unexpected_status"} :
          Return(o) /\ pc = "await" /\ UNCHANGED budget
    BY <1>5 DEF AnswerOk, AnswerNothing, AnswerFinal
  <2> QED BY <2>1, ReturnIsFetch
<1>6. ASSUME NEW d \in 0 .. MaxDelay, NEW after \in BOOLEAN,
             AnswerThrottled(d, after) \/ AnswerUnavailable(d, after)
      PROVE  [Contract!Next]_<< budget + InCall, outcome >>
  <2>1. PICK o \in {"rate_limited", "too_many_retries"} :
          RetryOr(o, d, after) /\ pc = "await" /\ UNCHANGED budget
    BY <1>6 DEF AnswerThrottled, AnswerUnavailable
  <2>2. CASE attempt >= MaxRetries
    BY <2>1, <2>2, ReturnIsFetch DEF RetryOr
  <2>3. CASE ~(attempt >= MaxRetries)
    <3>1. pc' = "sleep" /\ attempt' = attempt + 1 /\ UNCHANGED << budget, outcome >>
      BY <2>1, <2>3 DEF RetryOr
    <3>2. InCall' = InCall
      BY <2>1, <3>1, InCallIs, InCallWillBe
    <3> QED BY <3>1, <3>2
  <2> QED BY <2>2, <2>3
<1> QED BY <1>1, <1>2, <1>3, <1>4, <1>5, <1>6 DEF Next, Answer

\* The client keeps its contract: a call sends at most max_retries + 1 requests,
\* all of them from the budget, gives up only after the last retry and reports an
\* exhausted budget only when it is (PoliteClient::fetch, fetch_post).
THEOREM ContractIsKept == Spec => ContractSpec
<1>1. Init => Contract!Init
  <2> SUFFICES ASSUME Init PROVE Contract!Init
    OBVIOUS
  <2>1. InCall = 0
    BY InCallIs DEF Init
  <2> QED BY <2>1, BudgetAssumption DEF Init, Contract!Init
<1>2. CallInv /\ [Next]_vars => [Contract!Next]_<< budget + InCall, outcome >>
  BY StepMeetsContract
<1> QED BY <1>1, <1>2, CallsAreSafe, PTL DEF Spec, ContractSpec, Contract!Spec

=============================================================================
