--------------------------- MODULE AnalysisWorker ---------------------------
(***************************************************************************)
(* The worker process (src/src/worker.rs) with the publication of a run    *)
(* (src/src/catalog/jobs/publish.rs), the staging cleanup                  *)
(* (src/src/catalog/jobs/cleanup.rs) and the web and CLI requests, over    *)
(* the job service.                                                        *)
(*                                                                         *)
(* A worker is the main thread of one process, at pc[w] of execute_one and *)
(* publish, and the heartbeat thread that runs beside the pipeline.  Any   *)
(* database call may fail (a busy or conflicting transaction changes       *)
(* nothing), any file operation may fail, a process may die between any    *)
(* two steps, and a lease may run out at any moment.                       *)
(***************************************************************************)
EXTENDS JobService

CONSTANTS PipelineStages,   \* the stages run_real_analysis emits, in order
          KeepFailed,       \* --keep-failed-workdir
          Seconds,          \* seconds in which a pipeline may be started
          NoSecond,
          MaxCrashes        \* bound on process deaths

ASSUME PipelineAssumption == PipelineStages \in Seq(Executing)
ASSUME KeepAssumption == KeepFailed \in BOOLEAN
ASSUME CrashAssumption == MaxCrashes \in Nat

VARIABLES
  pc,        \* the worker's next step
  cur,       \* the job of its claim
  cancel,    \* the AtomicBool shared by pipeline and heartbeat
  hb,        \* heartbeat thread: "off", "beating", "stopped"
  sink,      \* DbSink.state: the state the sink last wrote
  step,      \* how many stages the pipeline has emitted
  rid,       \* the id publish_staged_run returned
  staging,   \* data/jobs/<job>/staging
  final,     \* data/runs/<job>
  started,   \* the second in which each job's pipeline was started
  runs,      \* analysis_runs, with the jobs whose artifacts each run holds
  crashes

workerVars == <<pc, cur, cancel, hb, sink, step, rid>>
fileVars == <<staging, final, started>>
vars == <<serviceVars, workerVars, fileVars, runs, crashes>>

\* A row id that no run has yet: a run holds the artifacts of some job.
NoRunRow == [plan |-> NoPlan, started_at |-> NoSecond, jobs |-> {}]

\* The steps of a worker that has a claim.  The last two groups are the ones
\* from which a run can be published and from which it has been.
Preparing == {"recheck", "stage"}
Running == {"execute", "progress", "join_ok", "join_cancelled", "join_failed"}
Deciding == {"cancel_clean", "cancel_only", "fail", "fail_clean", "unstage",
             "enter"}
Publishing == {"validate", "rename", "import"}
Published == {"complete"}
Busy == Preparing \cup Running \cup Deciding \cup Publishing \cup Published
PC == Busy \cup {"down", "scan", "claim"}

Goto(w, l) == pc' = [pc EXCEPT ![w] = l]

\* The claim is over: back to the loop of run_worker.
Return(w) ==
  /\ Goto(w, "scan")
  /\ cur' = [cur EXCEPT ![w] = NoJob]
  /\ rid' = [rid EXCEPT ![w] = NoRun]
  /\ UNCHANGED <<cancel, hb, sink, step>>

Stay == UNCHANGED <<cur, cancel, hb, sink, step, rid>>

\* A database call whose error the worker ignores: it takes effect, or it is
\* refused or loses to a busy database and changes nothing.
Try(op) == op \/ UNCHANGED serviceVars

-----------------------------------------------------------------------------
(* run_worker                                                              *)

Start(w) ==
  /\ pc[w] = "down"
  /\ Goto(w, "scan") /\ Stay
  /\ UNCHANGED <<serviceVars, fileVars, runs, crashes>>

Scan(w) ==
  /\ pc[w] = "scan"
  /\ Try(mark_stale_leases)
  /\ Goto(w, "claim") /\ Stay
  /\ UNCHANGED <<fileVars, runs, crashes>>

Claim(w) ==
  /\ pc[w] = "claim"
  /\ \E j \in Jobs :
       /\ claim_next(w, j)
       /\ cur' = [cur EXCEPT ![w] = j]
  /\ Goto(w, "recheck")
  /\ UNCHANGED <<cancel, hb, sink, step, rid, fileVars, runs, crashes>>

\* Nothing queued, or the claim transaction failed: sleep and loop.
NoClaim(w) ==
  /\ pc[w] = "claim"
  /\ Goto(w, "scan") /\ Stay
  /\ UNCHANGED <<serviceVars, fileVars, runs, crashes>>

-----------------------------------------------------------------------------
(* execute_one, up to the pipeline                                         *)

\* The project scope, loaded when the process started, is checked again after
\* the claim: in scope; excluded (the job is cancelled unexecuted); or the
\* check itself fails and the job is left as it is.
RecheckScope(w) ==
  LET j == cur[w] IN
  /\ pc[w] = "recheck"
  /\ \/ Goto(w, "stage") /\ Stay /\ UNCHANGED serviceVars
     \/ Return(w) /\ Try(cancel_scope_excluded(j))
  /\ UNCHANGED <<fileVars, runs, crashes>>

\* The inputs are written to a temporary directory, the staging directory is
\* created and its root recorded (an error of the UPDATE is ignored); the
\* heartbeat thread starts with a fresh cancel flag; started_at is read, in
\* seconds, of which it matters whether two are the same.
CreateStaging(w) ==
  LET j == cur[w] IN
  /\ pc[w] = "stage"
  /\ Goto(w, "execute")
  /\ staging' = [staging EXCEPT ![j] = "partial"]
  /\ Try(set_staged_root(j))
  /\ hb' = [hb EXCEPT ![w] = "beating"]
  /\ \E s \in Seconds : started' = [started EXCEPT ![j] = s]
  /\ UNCHANGED <<cur, cancel, sink, step, rid, final, runs, crashes>>

\* The plan cannot be materialised or the directory not created.
PrepareFails(w) ==
  /\ pc[w] = "stage"
  /\ Goto(w, "fail") /\ Stay
  /\ UNCHANGED <<serviceVars, fileVars, runs, crashes>>

-----------------------------------------------------------------------------
(* The heartbeat thread                                                    *)

HeartbeatRenews(w) ==
  /\ hb[w] = "beating"
  /\ renew_lease(cur[w], w)
  /\ UNCHANGED <<workerVars, fileVars, runs, crashes>>

\* A renewal that is refused (the job was cancelled or expired) or that loses
\* to a busy database stops the run and ends the thread.
HeartbeatStops(w) ==
  /\ hb[w] = "beating"
  /\ cancel' = [cancel EXCEPT ![w] = TRUE]
  /\ hb' = [hb EXCEPT ![w] = "stopped"]
  /\ UNCHANGED <<serviceVars, pc, cur, sink, step, rid, fileVars, runs, crashes>>

\* The state read after the renewal shows a request: the thread goes on.
HeartbeatSeesCancel(w) ==
  /\ hb[w] = "beating"
  /\ State(cur[w]) = "CancelRequested"
  /\ cancel' = [cancel EXCEPT ![w] = TRUE]
  /\ UNCHANGED <<serviceVars, pc, cur, hb, sink, step, rid, fileVars, runs,
                 crashes>>

-----------------------------------------------------------------------------
(* The pipeline and its progress sink                                      *)

\* The stage run_real_analysis reports next.
Reported(w) == PipelineStages[step[w] + 1]

\* Mutant: the sink takes every transition it tries for granted.
Emit_unchecked(w) ==
  /\ pc[w] = "execute"
  /\ step[w] < Len(PipelineStages)
  /\ sink' = [sink EXCEPT ![w] = Reported(w)]
  /\ Try(transition(cur[w], sink[w], Reported(w)))
  /\ Goto(w, "progress")
  /\ UNCHANGED <<cur, cancel, hb, step, rid, fileVars, runs, crashes>>

\* The sink moves the job only forward and only from the state it last wrote;
\* a step it cannot make leaves the row alone.
Emit(w) ==
  /\ pc[w] = "execute"
  /\ step[w] < Len(PipelineStages)
  /\ \/ /\ transition(cur[w], sink[w], Reported(w))
        /\ sink' = [sink EXCEPT ![w] = Reported(w)]
     \/ UNCHANGED <<serviceVars, sink>>
  /\ Goto(w, "progress")
  /\ UNCHANGED <<cur, cancel, hb, step, rid, fileVars, runs, crashes>>

\* Then it writes the progress columns (throttled) and appends events, in
\* transactions of their own and whatever the row says by now.
EmitProgress(w) ==
  LET j == cur[w] IN
  /\ pc[w] = "progress"
  /\ \E s \in {jobs[j].stage, Reported(w)}, b \in {newest[j], sink[w]} :
       update_progress(j, s, b)
  /\ step' = [step EXCEPT ![w] = @ + 1]
  /\ Goto(w, "execute")
  /\ UNCHANGED <<cur, cancel, hb, sink, rid, fileVars, runs, crashes>>

\* The pipeline may end after any stage: with a complete artifact set, with
\* one that validation will refuse, with an error, or, at a checkpoint that
\* sees the flag, cancelled.  Writing the artifacts creates the directory.
PipelineEnds(w) ==
  LET j == cur[w] IN
  /\ pc[w] = "execute"
  /\ \/ /\ Goto(w, "join_ok")
        /\ \E c \in {"valid", "invalid"} : staging' = [staging EXCEPT ![j] = c]
     \/ Goto(w, "join_failed") /\ UNCHANGED staging
     \/ cancel[w] /\ Goto(w, "join_cancelled") /\ UNCHANGED staging
  /\ Stay
  /\ UNCHANGED <<serviceVars, final, started, runs, crashes>>

\* The heartbeat thread is stopped and joined, then the flag is read.  Flag
\* and sink are not used after this point.
JoinHeartbeat(w) ==
  /\ pc[w] \in {"join_ok", "join_cancelled", "join_failed"}
  /\ hb' = [hb EXCEPT ![w] = "off"]
  /\ Goto(w, IF pc[w] = "join_failed" THEN "fail_clean"
             ELSE IF pc[w] = "join_cancelled" \/ cancel[w] THEN "cancel_clean"
             ELSE "enter")
  /\ cancel' = [cancel EXCEPT ![w] = FALSE]
  /\ sink' = [sink EXCEPT ![w] = "Claimed"]
  /\ step' = [step EXCEPT ![w] = 0]
  /\ UNCHANGED <<serviceVars, cur, rid, fileVars, runs, crashes>>

-----------------------------------------------------------------------------
(* Ending without a run                                                    *)

\* Mutant: the job is marked cancelled whatever its state.
cancel_job_forced(j) ==
  /\ jobs' = [jobs EXCEPT ![j] = [@ EXCEPT !.state = "Cancelled"]]
  /\ newest' = [newest EXCEPT ![j] = "Cancelled"]
  /\ UNCHANGED accepted

cancel_job(j) ==
  IF State(j) = "CancelRequested" THEN observe_cancel(j) ELSE request_cancel(j)

CancelJob(w) ==
  /\ \/ pc[w] = "cancel_clean" /\ Goto(w, "unstage") /\ Stay
     \/ pc[w] = "cancel_only" /\ Return(w)
  /\ Try(cancel_job(cur[w]))
  /\ UNCHANGED <<fileVars, runs, crashes>>

FailJob(w) ==
  /\ \/ pc[w] = "fail_clean" /\ ~KeepFailed /\ Goto(w, "unstage") /\ Stay
     \/ pc[w] = "fail_clean" /\ KeepFailed /\ Return(w)
     \/ pc[w] = "fail" /\ Return(w)
  /\ Try(fail_job(cur[w]))
  /\ UNCHANGED <<fileVars, runs, crashes>>

\* cleanup_staging: remove_dir_all, errors ignored.
CleanupStaging(w) ==
  /\ pc[w] = "unstage"
  /\ Return(w)
  /\ \/ staging' = [staging EXCEPT ![cur[w]] = "none"]
     \/ UNCHANGED staging
  /\ UNCHANGED <<serviceVars, final, started, runs, crashes>>

-----------------------------------------------------------------------------
(* publish                                                                 *)

\* execution_metadata.json is written into the staged directory, then the job
\* enters PublishingRun, in which publication wins over cancellation.
EnterPublishing(w) ==
  /\ pc[w] = "enter"
  /\ staging[cur[w]] # "none"
  /\ enter_publishing(cur[w])
  /\ Goto(w, "validate") /\ Stay
  /\ UNCHANGED <<fileVars, runs, crashes>>

\* The metadata cannot be written, or the transition is refused or fails: the
\* error text tells an accepted cancellation from anything else.
EnterPublishingFails(w) ==
  /\ pc[w] = "enter"
  /\ \/ State(cur[w]) = "CancelRequested" /\ Goto(w, "cancel_only")
     \/ Goto(w, "fail")
  /\ Stay
  /\ UNCHANGED <<serviceVars, fileVars, runs, crashes>>

ValidateStaged(w) ==
  /\ pc[w] = "validate"
  /\ \/ staging[cur[w]] = "valid" /\ Goto(w, "rename")
     \/ Goto(w, "fail_clean")
  /\ Stay
  /\ UNCHANGED <<serviceVars, fileVars, runs, crashes>>

\* The event directory moves into data/runs/<job>; staging/ stays, empty.
RenameStaged(w) ==
  LET j == cur[w] IN
  /\ pc[w] = "rename"
  /\ final[j] \in {"none", "empty"}
  /\ staging[j] \in {"partial", "valid", "invalid"}
  /\ final' = [final EXCEPT ![j] = staging[j]]
  /\ staging' = [staging EXCEPT ![j] = "empty"]
  /\ Goto(w, "import") /\ Stay
  /\ UNCHANGED <<serviceVars, started, runs, crashes>>

\* data/runs/<job> may have been created before the rename failed.
RenameFails(w) ==
  LET j == cur[w] IN
  /\ pc[w] = "rename"
  /\ \/ final[j] = "none" /\ final' = [final EXCEPT ![j] = "empty"]
     \/ UNCHANGED final
  /\ Goto(w, "fail") /\ Stay
  /\ UNCHANGED <<serviceVars, staging, started, runs, crashes>>

\* insert_run: the run with the same plan and the same second of the start.
RunsLike(j) ==
  {r \in RunIds : /\ runs[r].jobs # {}
                  /\ runs[r].plan = jobs[j].plan
                  /\ runs[r].started_at = started[j]}

insert_run(j, r) ==
  \/ /\ r \in RunsLike(j)
     /\ runs' = [runs EXCEPT ![r].jobs = @ \cup {j}]
  \/ /\ RunsLike(j) = {} /\ runs[r].jobs = {}
     /\ runs' = [runs EXCEPT ![r] = [plan |-> jobs[j].plan,
                                     started_at |-> started[j],
                                     jobs |-> {j}]]

\* One transaction inserts the run, or finds the one that is there, and adds
\* the job's artifacts and summaries to it.  The job row is not read.
ImportRun(w) ==
  /\ pc[w] = "import"
  /\ \E r \in RunIds :
       /\ insert_run(cur[w], r)
       /\ rid' = [rid EXCEPT ![w] = r]
  /\ Goto(w, "complete")
  /\ UNCHANGED <<serviceVars, cur, cancel, hb, sink, step, fileVars, crashes>>

ImportFails(w) ==
  /\ pc[w] = "import"
  /\ Goto(w, "fail") /\ Stay
  /\ UNCHANGED <<serviceVars, fileVars, runs, crashes>>

CompleteJob(w) ==
  /\ pc[w] = "complete"
  /\ complete(cur[w], rid[w])
  /\ Goto(w, "unstage") /\ Stay
  /\ UNCHANGED <<fileVars, runs, crashes>>

\* The run stays published; the error is only logged.
CompleteFails(w) ==
  /\ pc[w] = "complete"
  /\ Return(w)
  /\ UNCHANGED <<serviceVars, fileVars, runs, crashes>>

-----------------------------------------------------------------------------
(* The process dies, or ends after one job (--once)                        *)

Crash(w) ==
  /\ pc[w] # "down"
  /\ crashes < MaxCrashes
  /\ crashes' = crashes + 1
  /\ pc' = [pc EXCEPT ![w] = "down"]
  /\ cur' = [cur EXCEPT ![w] = NoJob]
  /\ cancel' = [cancel EXCEPT ![w] = FALSE]
  /\ hb' = [hb EXCEPT ![w] = "off"]
  /\ sink' = [sink EXCEPT ![w] = "Claimed"]
  /\ step' = [step EXCEPT ![w] = 0]
  /\ rid' = [rid EXCEPT ![w] = NoRun]
  /\ UNCHANGED <<serviceVars, fileVars, runs>>

-----------------------------------------------------------------------------
(* Web handlers and CLI commands                                           *)

Outside == UNCHANGED <<workerVars, fileVars, runs, crashes>>

QueuePlan == Outside /\ \E p \in Plans, j \in Jobs, t \in Times : queue(p, j, t)

JobCancel == Outside /\ \E j \in Jobs : request_cancel(j)

JobRetry == Outside /\ \E o, j \in Jobs, t \in Times : retry(o, j, t)

\* analysis-job audit runs the stale scan too.
Audit == Outside /\ Stale # {} /\ mark_stale_leases

TimePasses == Outside /\ \E j \in Jobs : LeaseExpires(j)

\* Mutant: the state of the job is not looked at.
Cleanup_any_state(j) ==
  /\ jobs[j].staged
  /\ staging[j] # "none"
  /\ staging' = [staging EXCEPT ![j] = "none"]
  /\ UNCHANGED <<serviceVars, workerVars, final, started, runs, crashes>>

\* analysis-job cleanup --apply: a terminal job with a recorded root.
Cleanup(j) ==
  /\ State(j) \in Terminal
  /\ jobs[j].staged
  /\ staging[j] # "none"
  /\ staging' = [staging EXCEPT ![j] = "none"]
  /\ UNCHANGED <<serviceVars, workerVars, final, started, runs, crashes>>

-----------------------------------------------------------------------------
Init ==
  /\ ServiceInit
  /\ pc = [w \in Workers |-> "down"]
  /\ cur = [w \in Workers |-> NoJob]
  /\ cancel = [w \in Workers |-> FALSE]
  /\ hb = [w \in Workers |-> "off"]
  /\ sink = [w \in Workers |-> "Claimed"]
  /\ step = [w \in Workers |-> 0]
  /\ rid = [w \in Workers |-> NoRun]
  /\ staging = [j \in Jobs |-> "none"]
  /\ final = [j \in Jobs |-> "none"]
  /\ started = [j \in Jobs |-> NoSecond]
  /\ runs = [r \in RunIds |-> NoRunRow]
  /\ crashes = 0

MainThread(w) ==
  \/ Scan(w) \/ Claim(w) \/ NoClaim(w)
  \/ RecheckScope(w) \/ CreateStaging(w)
  \/ PrepareFails(w) \/ Emit(w) \/ EmitProgress(w) \/ PipelineEnds(w) \/ JoinHeartbeat(w)
  \/ CancelJob(w) \/ FailJob(w) \/ CleanupStaging(w)
  \/ EnterPublishing(w) \/ EnterPublishingFails(w)
  \/ ValidateStaged(w) \/ RenameStaged(w) \/ RenameFails(w)
  \/ ImportRun(w) \/ ImportFails(w) \/ CompleteJob(w) \/ CompleteFails(w)

HeartbeatThread(w) ==
  HeartbeatRenews(w) \/ HeartbeatStops(w) \/ HeartbeatSeesCancel(w)

Requests == QueuePlan \/ JobCancel \/ JobRetry \/ Audit \/ TimePasses

Next ==
  \/ \E w \in Workers :
       Start(w) \/ MainThread(w) \/ HeartbeatThread(w) \/ Crash(w)
  \/ Requests
  \/ \E j \in Jobs : Cleanup(j)

Spec == Init /\ [][Next]_vars

-----------------------------------------------------------------------------
(* What the system promises                                                *)

RunRows == [plan : Plans \cup {NoPlan}, started_at : Seconds \cup {NoSecond},
            jobs : SUBSET Jobs]

\* Every variable keeps its type: the tables, the workers, the directories.
TypeOK ==
  /\ ServiceTypeOK
  /\ pc \in [Workers -> PC]
  /\ cur \in [Workers -> Jobs \cup {NoJob}]
  /\ cancel \in [Workers -> BOOLEAN]
  /\ hb \in [Workers -> {"off", "beating", "stopped"}]
  /\ sink \in [Workers -> Executing]
  /\ step \in [Workers -> 0..Len(PipelineStages)]
  /\ rid \in [Workers -> RunIds \cup {NoRun}]
  /\ staging \in [Jobs -> {"none", "partial", "valid", "invalid", "empty"}]
  /\ final \in [Jobs -> {"none", "empty", "partial", "valid", "invalid"}]
  /\ started \in [Jobs -> Seconds \cup {NoSecond}]
  /\ runs \in [RunIds -> RunRows]
  /\ crashes \in 0..MaxCrashes

\* A claim is exclusive for the life of the job: two workers never work on
\* the same job, not even after a lease expired or a worker restarted
\* (claim_next; expired jobs fail and are never claimed again).
ClaimExclusive ==
  \A v, w \in Workers : cur[v] = cur[w] /\ cur[v] # NoJob => v = w

\* No run holds artifacts of a job whose cancellation was accepted, whatever
\* the interleaving of the request with enter_publishing and the import
\* ("a run is never published after an accepted cancellation").
NoRunAfterCancel == \A r \in RunIds : runs[r].jobs \cap accepted = {}

\* A job's artifacts are never in two runs, across crashes, stale scans and
\* late workers.
OneRunPerJob ==
  \A r, s \in RunIds : runs[r].jobs \cap runs[s].jobs # {} => r = s

\* A job links a run exactly when it is completed (complete).  The run holds the
\* job's own artifacts, and all the jobs it holds artifacts of, which insert_run
\* may have put together, are of its plan, started in its second and were
\* publishing when their artifacts came in: they are completed, or still
\* PublishingRun, or were failed by a stale scan with the run in place.
CompletedLinksItsRun ==
  /\ \A j \in Jobs :
       /\ State(j) = "Completed" <=> jobs[j].run # NoRun
       /\ jobs[j].run # NoRun => j \in runs[jobs[j].run].jobs
  /\ \A r \in RunIds : \A j \in runs[r].jobs :
       /\ runs[r].plan = jobs[j].plan /\ runs[r].started_at = started[j]
       /\ State(j) \in {"PublishingRun", "Completed", "Failed"}

\* Every job whose artifacts are in the catalog has its directory in place,
\* moved there after validate_staged accepted it, although validation, rename,
\* import and completion are separate steps that may each fail or be the last.
RunsHaveValidArtifacts ==
  \A r \in RunIds : \A j \in runs[r].jobs : final[j] = "valid"

\* "Published analysis runs and their artifact rows" are "immutable": a run
\* that is in the catalog gains nothing (docs/computational-model.md).  Not so when a
\* second job of its plan started in its second.
PublishedRunsUnchanged ==
  [][\A r \in RunIds : runs[r].jobs # {} => runs'[r] = runs[r]]_vars

\* The sink's private copy of the state never disagrees with a row that is
\* still executing, so a forward step it attempts is refused only because
\* someone else ended or interrupted the job (DbSink.transition_to).
SinkAgreesWithRow ==
  \A w \in Workers :
    pc[w] \in Running /\ State(cur[w]) \in Executing
      => State(cur[w]) = sink[w]

\* The timeline of a queued, completed or cancelled job ends with that state:
\* no progress event of a worker lands after it.
TimelineEndsWithState ==
  \A j \in Jobs : State(j) \in {"Queued", "Completed", "Cancelled"}
                    => newest[j] = State(j)

\* While a job is active its worker's staging directory is not taken away:
\* the cleanup command and the worker's own cleanup touch only ended jobs.
ActiveStagingKept ==
  \A w \in Workers :
    /\ pc[w] \in Running \cup {"enter", "validate", "rename"}
    /\ is_active(State(cur[w]))
    => staging[cur[w]] # "none"

-----------------------------------------------------------------------------
(* The invariant that makes the promises inductive: what a worker at each  *)
(* step knows about its claim, about its job's row and about the files.    *)

WorkerInv(w) ==
  LET j == cur[w] IN
  /\ pc[w] \in Busy <=> j # NoJob
  /\ pc[w] \notin Running => hb[w] = "off" /\ sink[w] = "Claimed" /\ step[w] = 0
  /\ pc[w] = "progress" => step[w] < Len(PipelineStages)
  /\ j # NoJob => jobs[j].worker = w /\ State(j) \notin {"Absent", "Queued"}
  /\ pc[w] \in Preparing => State(j) \in {"Claimed", "CancelRequested", "Failed"}
  /\ pc[w] \in Running \cup {"enter"}
       => State(j) \in Executing \cup {"CancelRequested", "Failed"}
  /\ pc[w] \in Running /\ State(j) \in Executing => State(j) = sink[w]
  /\ pc[w] \in Publishing \cup Published
       => State(j) \in {"PublishingRun", "Failed"} /\ j \notin accepted
  /\ pc[w] \in Preparing \cup Publishing => \A r \in RunIds : j \notin runs[r].jobs
  /\ pc[w] = "complete" => rid[w] \in RunIds /\ j \in runs[rid[w]].jobs
  /\ pc[w] \in Running \cup {"enter", "validate", "rename"} /\ is_active(State(j))
       => staging[j] # "none"
  /\ pc[w] = "rename" => staging[j] \in {"valid", "none"}
  /\ pc[w] \in {"import", "complete"} => final[j] = "valid"

JobInv(j) ==
  /\ j \in accepted => State(j) \in {"CancelRequested", "Cancelled", "Failed"}
  /\ State(j) \in {"Queued", "Completed", "Cancelled"} => newest[j] = State(j)
  /\ State(j) = "Completed" => jobs[j].run # NoRun
  /\ jobs[j].run # NoRun => State(j) = "Completed" /\ j \in runs[jobs[j].run].jobs

RunOf(r, j) ==
  /\ State(j) \in {"PublishingRun", "Completed", "Failed"}
  /\ j \notin accepted
  /\ final[j] = "valid"
  /\ runs[r].plan = jobs[j].plan /\ runs[r].started_at = started[j]
  /\ \A s \in RunIds : j \in runs[s].jobs => s = r

RunInv(r) == \A j \in runs[r].jobs : RunOf(r, j)

\* Every worker, job and run is as the step the worker is at requires, in
\* whatever order the steps, scans, requests and deaths of the others fall
\* (execute_one, publish: what is read before a step and relied on after it).
Inv == /\ \A w \in Workers : WorkerInv(w)
       /\ \A j \in Jobs : JobInv(j)
       /\ \A r \in RunIds : RunInv(r)

-----------------------------------------------------------------------------
(* Fairness and liveness                                                   *)

\* The database is not busy for ever (busy_timeout, a retry every poll).
ScanSucceeds(w) == Scan(w) /\ mark_stale_leases

\* An operator keeps the workers running, a process that runs makes its next
\* step, a pipeline ends, time passes.
Fairness ==
  /\ \A w \in Workers : /\ WF_vars(Start(w))
                        /\ WF_vars(MainThread(w))
                        /\ SF_vars(ScanSucceeds(w))
  /\ \A j \in Jobs : WF_vars(Outside /\ LeaseExpires(j))

FairSpec == Spec /\ Fairness

\* A job that a worker holds ends or is asked to stop: a worker that dies leaves a
\* lease that expires, and the stale scan of another one fails the job.
RunningJobsEnd ==
  \A j \in Jobs :
    State(j) \in Leased ~> State(j) \in Terminal \cup {"CancelRequested"}

=============================================================================
