----------------------------- MODULE JobService -----------------------------
(***************************************************************************)
(* The job service (src/src/catalog/jobs/service.rs): the tables           *)
(* analysis_jobs and analysis_job_events and the operations the web        *)
(* handlers, the CLI and the workers call.  Every operation is one SQLite  *)
(* transaction that re-checks in the transaction what it read before it,   *)
(* so each is one atomic action here; an operation that is refused or that *)
(* loses to a busy database changes nothing, and the callers model what    *)
(* they do then.                                                           *)
(*                                                                         *)
(* Data is reduced to what the properties tell apart: a plan revision with *)
(* its canonical hash is one value; a lease is live or expired (the clock  *)
(* is the action LeaseExpires); an error code is the stale-scan's or       *)
(* another; of the append-only event log only the state named by the       *)
(* newest event is kept.  Plan rows are never updated, so the plans here   *)
(* are the ones queue validation accepts.                                  *)
(***************************************************************************)
EXTENDS JobState

CONSTANTS Jobs,      \* the job ids new_job_id can draw
          Plans,     \* plan revisions that are Ready, current and in scope
          Workers,   \* worker processes, which are also the worker ids
          Times,     \* values of requested_at (seconds)
          RunIds,    \* row ids of analysis_runs
          NoJob, NoPlan, NoWorker, NoRun

ASSUME TimesAssumption == Times \subseteq Nat
ASSUME NullsAssumption ==
  /\ NoJob \notin Jobs
  /\ NoPlan \notin Plans
  /\ NoWorker \notin Workers
  /\ NoRun \notin RunIds

VARIABLES
  jobs,      \* analysis_jobs: one row per job id ("Absent": no row yet)
  newest,    \* the state named by the newest event of each job
  accepted   \* history: jobs with an accepted cancellation request

serviceVars == <<jobs, newest, accepted>>

NoRow ==
  [state |-> "Absent", plan |-> NoPlan, requested_at |-> 0, attempt |-> 0,
   original |-> NoJob, worker |-> NoWorker, lease |-> "none",
   stage |-> NoStage, error |-> "none", staged |-> FALSE, run |-> NoRun]

State(j) == jobs[j].state

Exists(j) == State(j) # "Absent"

\* Timestamps do not go back: a new row is at least as late as every other.
Now(t) == \A k \in Jobs : Exists(k) => jobs[k].requested_at <= t

-----------------------------------------------------------------------------
(* transition, fail, complete                                              *)

\* One transaction: the row still is in the state the caller expects, the
\* row moves, the matching event is appended.
transition(j, from, to) ==
  /\ legal_transition(from, to)
  /\ State(j) = from
  /\ jobs' = [jobs EXCEPT ![j] = [@ EXCEPT !.state = to,
                                          !.stage = stage_label(to)]]
  /\ newest' = [newest EXCEPT ![j] = to]
  /\ UNCHANGED accepted

\* The stage column is left as it is.
fail(j, from) ==
  /\ legal_transition(from, "Failed")
  /\ State(j) = from
  /\ jobs' = [jobs EXCEPT ![j] = [@ EXCEPT !.state = "Failed",
                                          !.error = "failure"]]
  /\ newest' = [newest EXCEPT ![j] = "Failed"]
  /\ UNCHANGED accepted

\* publish.rs: the worker's helper reads the state and fails the job from it.
fail_job(j) == fail(j, State(j))

enter_publishing(j) == transition(j, State(j), "PublishingRun")

complete(j, r) ==
  /\ State(j) = "PublishingRun"
  /\ jobs' = [jobs EXCEPT ![j] = [@ EXCEPT !.state = "Completed", !.run = r,
                                          !.stage = NoStage]]
  /\ newest' = [newest EXCEPT ![j] = "Completed"]
  /\ UNCHANGED accepted

-----------------------------------------------------------------------------
(* queue and retry: the two operations that insert rows                    *)

Insert(j, p, t, n, orig) ==
  /\ State(j) = "Absent"
  /\ Now(t)
  /\ jobs' = [jobs EXCEPT ![j] =
                [NoRow EXCEPT !.state = "Queued", !.plan = p,
                              !.requested_at = t, !.attempt = n,
                              !.original = orig]]
  /\ newest' = [newest EXCEPT ![j] = "Queued"]
  /\ UNCHANGED accepted

ActiveFor(p) == {k \in Jobs : /\ Exists(k)
                              /\ jobs[k].plan = p
                              /\ is_active(State(k))}

\* A plan with an active job returns that job and inserts nothing.
queue(p, j, t) ==
  /\ ActiveFor(p) = {}
  /\ Insert(j, p, t, 1, NoJob)

\* Mutant: any job can be retried, also one that still runs.
retry_unchecked(o, j, t) ==
  /\ Exists(o)
  /\ Insert(j, jobs[o].plan, t, jobs[o].attempt + 1, o)

\* The original row is read, never written; nothing looks for another
\* active job of the plan.
retry(o, j, t) ==
  /\ Exists(o)
  /\ is_retryable(State(o))
  /\ Insert(j, jobs[o].plan, t, jobs[o].attempt + 1, o)

-----------------------------------------------------------------------------
(* claim, lease, stale scan                                                *)

\* Mutant: a job whose lease ran out is claimed again.
Oldest_resumes(j) ==
  \/ State(j) = "Queued"
  \/ State(j) \in Leased /\ jobs[j].lease = "expired"

\* The oldest queued job; ids are random, so equal seconds fall either way.
Oldest(j) ==
  /\ State(j) = "Queued"
  /\ \A k \in Jobs : State(k) = "Queued"
                       => jobs[j].requested_at <= jobs[k].requested_at

claim_next(w, j) ==
  /\ Oldest(j)
  /\ jobs' = [jobs EXCEPT ![j] = [@ EXCEPT !.state = "Claimed", !.worker = w,
                                          !.lease = "live",
                                          !.stage = NoStage]]
  /\ newest' = [newest EXCEPT ![j] = "Claimed"]
  /\ UNCHANGED accepted

renew_lease(j, w) ==
  /\ State(j) \in Leased
  /\ jobs[j].worker = w
  /\ jobs' = [jobs EXCEPT ![j] = [@ EXCEPT !.lease = "live"]]
  /\ UNCHANGED <<newest, accepted>>

\* The clock passes lease_expires_at.
LeaseExpires(j) ==
  /\ jobs[j].lease = "live"
  /\ State(j) \in Leased
  /\ jobs' = [jobs EXCEPT ![j] = [@ EXCEPT !.lease = "expired"]]
  /\ UNCHANGED <<newest, accepted>>

\* Mutant: the scan looks at the lease and not at the state.
Stale_any_state == {j \in Jobs : jobs[j].lease = "expired"}

\* Mutant: the scan's list of states misses PublishingRun.
Stale_not_publishing ==
  {j \in Jobs : State(j) \in Executing /\ jobs[j].lease = "expired"}

Stale == {j \in Jobs : State(j) \in Leased /\ jobs[j].lease = "expired"}

\* Every job found stale fails in the same transaction.
mark_stale_leases ==
  /\ jobs' = [j \in Jobs |->
                IF j \in Stale
                THEN [jobs[j] EXCEPT !.state = "Failed",
                                     !.error = "worker_lease_expired"]
                ELSE jobs[j]]
  /\ newest' = [j \in Jobs |-> IF j \in Stale THEN "Failed" ELSE newest[j]]
  /\ UNCHANGED accepted

-----------------------------------------------------------------------------
(* cancellation                                                            *)

cancel_scope_excluded(j) ==
  /\ State(j) \in {"Queued", "Claimed"}
  /\ transition(j, State(j), "Cancelled")

\* Mutant: a running job is cancelled at once, not asked to stop.
request_cancel_at_once(j) ==
  /\ is_cancellable(State(j))
  /\ jobs' = [jobs EXCEPT ![j] = [@ EXCEPT !.state = "Cancelled",
                                          !.stage = NoStage]]
  /\ newest' = [newest EXCEPT ![j] = "Cancelled"]
  /\ accepted' = accepted \cup {j}

\* A queued job is cancelled at once; a running one is asked to stop.
request_cancel(j) ==
  /\ is_cancellable(State(j))
  /\ LET to == IF State(j) = "Queued" THEN "Cancelled" ELSE "CancelRequested"
     IN  /\ jobs' = [jobs EXCEPT ![j] =
                       [@ EXCEPT !.state = to,
                                 !.stage = IF to = "Cancelled" THEN NoStage
                                           ELSE jobs[j].stage]]
         /\ newest' = [newest EXCEPT ![j] = to]
  /\ accepted' = accepted \cup {j}

observe_cancel(j) == transition(j, "CancelRequested", "Cancelled")

-----------------------------------------------------------------------------
(* Columns written without looking at the state                            *)

\* update_progress and the append_event that follows it, each of which may
\* fail alone: s is the stage column afterwards, b the state the newest event
\* names (the state the caller believes the job is in).
update_progress(j, s, b) ==
  /\ Exists(j)
  /\ jobs' = [jobs EXCEPT ![j] = [@ EXCEPT !.stage = s]]
  /\ newest' = [newest EXCEPT ![j] = b]
  /\ UNCHANGED accepted

set_staged_root(j) ==
  /\ Exists(j)
  /\ jobs' = [jobs EXCEPT ![j] = [@ EXCEPT !.staged = TRUE]]
  /\ UNCHANGED <<newest, accepted>>

-----------------------------------------------------------------------------
ServiceInit ==
  /\ jobs = [j \in Jobs |-> NoRow]
  /\ newest = [j \in Jobs |-> "Absent"]
  /\ accepted = {}

\* Any client, in any order: what the service allows, whoever calls it.
ServiceNext ==
  \/ \E j \in Jobs, t \in Times :
        \/ \E p \in Plans : queue(p, j, t)
        \/ \E o \in Jobs : retry(o, j, t)
  \/ \E j \in Jobs, w \in Workers : claim_next(w, j) \/ renew_lease(j, w)
  \/ mark_stale_leases
  \/ \E j \in Jobs :
        \/ LeaseExpires(j)
        \/ cancel_scope_excluded(j)
        \/ request_cancel(j)
        \/ observe_cancel(j)
        \/ fail_job(j)
        \/ set_staged_root(j)
        \/ \E r \in RunIds : complete(j, r)
        \/ \E to \in Leased : transition(j, State(j), to)
        \/ \E s \in Executing \cup {jobs[j].stage},
              b \in Executing \cup {newest[j]} : update_progress(j, s, b)

\* The service as any client may use it; the composed system implements it.
ServiceSpec == ServiceInit /\ [][ServiceNext]_serviceVars

-----------------------------------------------------------------------------
(* What the service promises to any client                                 *)

Rows == [state : States \cup {"Absent"}, plan : Plans \cup {NoPlan},
         requested_at : Nat, attempt : Nat, original : Jobs \cup {NoJob},
         worker : Workers \cup {NoWorker}, lease : {"none", "live", "expired"},
         stage : Leased \cup {NoStage},
         error : {"none", "failure", "worker_lease_expired"},
         staged : BOOLEAN, run : RunIds \cup {NoRun}]

ServiceTypeOK ==
  /\ jobs \in [Jobs -> Rows]
  /\ newest \in [Jobs -> States \cup {"Absent"}]
  /\ accepted \subseteq Jobs

\* Two active jobs of one plan revision are possible only through retry: queue
\* itself never adds one.
QueueNeverDuplicates ==
  \A j, k \in Jobs :
    /\ j # k /\ Exists(j) /\ Exists(k) /\ jobs[j].plan = jobs[k].plan
    /\ is_active(State(j)) /\ is_active(State(k))
    => jobs[j].original # NoJob \/ jobs[k].original # NoJob

\* A retry continues an attempt that really ended without completing, and
\* stays ended: same plan, next attempt number (retry never revives a job).
RetryChain ==
  \A j \in Jobs :
    LET o == jobs[j].original IN
    o # NoJob => /\ is_retryable(State(o))
                 /\ jobs[j].plan = jobs[o].plan
                 /\ jobs[j].attempt = jobs[o].attempt + 1

\* Every change of a state column is a legal transition, also the ones the
\* service makes with UPDATE statements that list states by hand and never
\* call legal_transition (claim_next, mark_stale_leases, request_cancel,
\* complete); in particular an ended job never changes state.
LegalSteps ==
  [][\A j \in Jobs : \/ State(j)' = State(j)
                     \/ State(j) = "Absent" /\ State(j)' = "Queued"
                     \/ legal_transition(State(j), State(j)')]_serviceVars

=============================================================================
