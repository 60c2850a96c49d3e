------------------------ MODULE AnalysisWorkerProofs ------------------------
(***************************************************************************)
(* The promises of the job service hold for every set of jobs, plans,      *)
(* workers and clients, and the worker's for every number of jobs,         *)
(* workers, runs and crashes and for every order of pipeline stages.       *)
(*                                                                         *)
(* A step is an outside request, a step of one worker, or a cleanup.  An   *)
(* outside step leaves a row alone or moves it along one of four foreign   *)
(* edges; a worker's step touches only its own claim.  The invariant of    *)
(* the others is kept by these two shapes alone, and each action is then   *)
(* only looked at for the worker that takes it.                            *)
(***************************************************************************)
EXTENDS AnalysisWorker, TLAPS

-----------------------------------------------------------------------------
(* The job service                                                         *)

\* Where a legal transition leads from and to.
LEMMA LegalEnds ==
  ASSUME NEW a, NEW b, legal_transition(a, b)
  PROVE  /\ a \in States \ Terminal
         /\ b \in States \ {"Queued"}
         /\ a # b
         /\ b \in Executing => a \in Executing \cup {"Queued"}
         /\ b = "PublishingRun" => a \in Executing
         /\ b = "Completed" => a = "PublishingRun"
         /\ b = "CancelRequested" => a \in Executing
         /\ b = "Cancelled" => a \in {"Queued", "Claimed", "CancelRequested"}
         /\ a = "CancelRequested" => b \in {"Cancelled", "Failed"}
         /\ a = "PublishingRun" => b \in {"Completed", "Failed"}
<1>1. \A n \in 1..11 : StageOrder[n] \in Executing \cup {"PublishingRun"}
  BY DEF StageOrder, Executing
<1>2. stage_advance(a, b) => b \in Executing \cup {"PublishingRun"}
  BY <1>1 DEF stage_advance
<1> QED
  BY <1>2 DEF legal_transition, States, Terminal, Executing

\* The hand-written state lists of the service agree with the relation.
LEMMA LegalLists ==
  /\ legal_transition("Queued", "Claimed")
  /\ legal_transition("Queued", "Cancelled")
  /\ legal_transition("PublishingRun", "Completed")
  /\ \A s \in Leased : legal_transition(s, "Failed")
  /\ \A s \in Executing : legal_transition(s, "CancelRequested")
BY DEF legal_transition, Leased, Executing

-----------------------------------------------------------------------------
\* A step of the service inserts one row or moves existing rows forward.
KeepsIdentity(j) ==
  /\ jobs'[j].plan = jobs[j].plan
  /\ jobs'[j].original = jobs[j].original
  /\ jobs'[j].attempt = jobs[j].attempt
  /\ \/ jobs'[j].state = jobs[j].state
     \/ legal_transition(jobs[j].state, jobs'[j].state)

Inserted(j) ==
  /\ jobs[j].state = "Absent"
  /\ jobs'[j].state = "Queued"
  /\ \/ /\ jobs'[j].original = NoJob
        /\ ActiveFor(jobs'[j].plan) = {}
     \/ /\ jobs'[j].original \in Jobs
        /\ is_retryable(jobs[jobs'[j].original].state)
        /\ jobs'[j].plan = jobs[jobs'[j].original].plan
        /\ jobs'[j].attempt = jobs[jobs'[j].original].attempt + 1
  /\ \A k \in Jobs \ {j} : jobs'[k] = jobs[k]

\* Writing a column with a value of the column keeps a row a row.
LEMMA RowUpdates ==
  \A row \in Rows :
    /\ [row EXCEPT !.staged = TRUE] \in Rows
    /\ \A l \in {"live", "expired"} : [row EXCEPT !.lease = l] \in Rows
    /\ \A s \in Leased \cup {NoStage} : [row EXCEPT !.stage = s] \in Rows
    /\ \A t \in States, s \in Leased \cup {NoStage} :
       /\ [row EXCEPT !.state = t, !.stage = s] \in Rows
       /\ \A e \in {"failure", "worker_lease_expired"} :
            [row EXCEPT !.state = t, !.error = e] \in Rows
       /\ \A r \in RunIds :
            [row EXCEPT !.state = t, !.run = r, !.stage = s] \in Rows
       /\ \A w \in Workers :
            [row EXCEPT !.state = t, !.worker = w, !.lease = "live", !.stage = s]
              \in Rows
<1> TAKE row \in Rows
<1> USE DEF Rows
<1>1. \A t \in States, s \in Leased \cup {NoStage} :
        [row EXCEPT !.state = t, !.stage = s] \in Rows
  OBVIOUS
<1>2. \A s \in Leased \cup {NoStage} : [row EXCEPT !.stage = s] \in Rows
  OBVIOUS
<1>3. [row EXCEPT !.staged = TRUE] \in Rows
  OBVIOUS
<1>4. \A t \in States, e \in {"failure", "worker_lease_expired"} :
        [row EXCEPT !.state = t, !.error = e] \in Rows
  OBVIOUS
<1>5. \A l \in {"live", "expired"} : [row EXCEPT !.lease = l] \in Rows
  OBVIOUS
<1>6. \A t \in States, s \in Leased \cup {NoStage}, r \in RunIds :
        [row EXCEPT !.state = t, !.run = r, !.stage = s] \in Rows
  OBVIOUS
<1>7. \A t \in States, s \in Leased \cup {NoStage}, w \in Workers :
        [row EXCEPT !.state = t, !.worker = w, !.lease = "live", !.stage = s]
          \in Rows
  OBVIOUS
<1> HIDE DEF Rows
<1> QED
  BY <1>1, <1>2, <1>3, <1>4, <1>5, <1>6, <1>7, Zenon

\* Every operation keeps the tables well formed.
LEMMA TypeStep ==
  ASSUME ServiceTypeOK, [ServiceNext]_serviceVars
  PROVE  ServiceTypeOK'
<1> USE NullsAssumption DEF ServiceTypeOK
\* One row is replaced by a row, its newest event names a state.
<1>0. ASSUME NEW j \in Jobs, NEW row \in Rows, NEW b \in States \cup {"Absent"},
             jobs' = [jobs EXCEPT ![j] = row],
             newest' = [newest EXCEPT ![j] = b] \/ newest' = newest,
             accepted' \in {accepted, accepted \cup {j}}
      PROVE  ServiceTypeOK'
  BY <1>0
<1>r. \A j \in Jobs : jobs[j] \in Rows
  OBVIOUS
<1>n. /\ NoStage \in Leased \cup {NoStage}
      /\ {"Claimed", "Failed", "Completed", "Cancelled", "CancelRequested"}
           \subseteq States
  BY DEF States, Executing, Terminal
<1>1. ASSUME NEW j \in Jobs, NEW p \in Plans \cup {NoPlan}, NEW t \in Times,
             NEW n \in Nat, NEW o \in Jobs \cup {NoJob}, Insert(j, p, t, n, o)
      PROVE  ServiceTypeOK'
  <2>1. [NoRow EXCEPT !.state = "Queued", !.plan = p, !.requested_at = t,
                      !.attempt = n, !.original = o] \in Rows
    BY TimesAssumption DEF NoRow, Rows, States, Executing, Leased, NoStage
  <2> QED
    BY <1>1, <2>1 DEF Insert, States
<1>2. ASSUME NEW j \in Jobs, NEW o \in Jobs, NEW t \in Times, retry(o, j, t)
      PROVE  ServiceTypeOK'
  <2>1. jobs[o].plan \in Plans \cup {NoPlan} /\ jobs[o].attempt + 1 \in Nat
    BY DEF Rows
  <2> QED
    BY <1>1, <1>2, <2>1 DEF retry
<1>3. ASSUME NEW j \in Jobs, NEW w \in Workers, claim_next(w, j)
      PROVE  ServiceTypeOK'
  <2>1. [jobs[j] EXCEPT !.state = "Claimed", !.worker = w, !.lease = "live",
                        !.stage = NoStage] \in Rows
    BY <1>r, <1>n, RowUpdates, Zenon
  <2> QED
    BY <1>3, <1>0, <1>n, <2>1 DEF claim_next
<1>4. ASSUME NEW j \in Jobs, NEW l \in {"live", "expired"},
             jobs' = [jobs EXCEPT ![j] = [@ EXCEPT !.lease = l]],
             UNCHANGED <<newest, accepted>>
      PROVE  ServiceTypeOK'
  <2>1. [jobs[j] EXCEPT !.lease = l] \in Rows
    BY <1>r, RowUpdates, Zenon
  <2> QED
    BY <1>4, <1>0, <2>1
<1>5. CASE mark_stale_leases
  <2>1. \A j \in Jobs : [jobs[j] EXCEPT !.state = "Failed",
                                        !.error = "worker_lease_expired"] \in Rows
    BY <1>r, <1>n, RowUpdates, Zenon
  <2> QED
    BY <1>5, <1>n, <2>1 DEF mark_stale_leases
<1>6. ASSUME NEW j \in Jobs, NEW a, NEW b, transition(j, a, b)
      PROVE  ServiceTypeOK'
  <2>1. b \in States
    BY <1>6, LegalEnds DEF transition
  <2>2. stage_label(b) \in Leased \cup {NoStage}
    BY DEF stage_label, Leased
  <2>3. [jobs[j] EXCEPT !.state = b, !.stage = stage_label(b)] \in Rows
    BY <1>r, <2>1, <2>2, RowUpdates, Zenon
  <2> QED
    BY <1>6, <1>0, <2>1, <2>3 DEF transition
<1>7. ASSUME NEW j \in Jobs, request_cancel(j)
      PROVE  ServiceTypeOK'
  <2>1. PICK to \in {"Cancelled", "CancelRequested"},
             st \in {NoStage, jobs[j].stage} :
          /\ jobs' = [jobs EXCEPT ![j] = [@ EXCEPT !.state = to, !.stage = st]]
          /\ newest' = [newest EXCEPT ![j] = to]
          /\ accepted' = accepted \cup {j}
    BY <1>7 DEF request_cancel
  <2>2. st \in Leased \cup {NoStage}
    BY <1>r DEF Rows
  <2>3. [jobs[j] EXCEPT !.state = to, !.stage = st] \in Rows
    BY <1>r, <1>n, <2>2, RowUpdates, Zenon
  <2> QED
    BY <1>0, <1>n, <2>1, <2>3
<1>8. ASSUME NEW j \in Jobs, fail_job(j)
      PROVE  ServiceTypeOK'
  <2>1. [jobs[j] EXCEPT !.state = "Failed", !.error = "failure"] \in Rows
    BY <1>r, <1>n, RowUpdates, Zenon
  <2> QED
    BY <1>8, <1>0, <1>n, <2>1 DEF fail_job, fail
<1>9. ASSUME NEW j \in Jobs, set_staged_root(j)
      PROVE  ServiceTypeOK'
  <2>1. [jobs[j] EXCEPT !.staged = TRUE] \in Rows
    BY <1>r, RowUpdates, Zenon
  <2> QED
    BY <1>9, <1>0, <2>1 DEF set_staged_root
<1>10. ASSUME NEW j \in Jobs, NEW r \in RunIds, complete(j, r)
       PROVE  ServiceTypeOK'
  <2>1. [jobs[j] EXCEPT !.state = "Completed", !.run = r, !.stage = NoStage]
          \in Rows
    BY <1>r, <1>n, RowUpdates, Zenon
  <2> QED
    BY <1>10, <1>0, <1>n, <2>1 DEF complete
<1>11. ASSUME NEW j \in Jobs, NEW s \in Executing \cup {jobs[j].stage},
              NEW b \in Executing \cup {newest[j]}, update_progress(j, s, b)
       PROVE  ServiceTypeOK'
  <2>1. s \in Leased \cup {NoStage}
    BY <1>r DEF Rows, Leased
  <2>2. [jobs[j] EXCEPT !.stage = s] \in Rows
    BY <1>r, <2>1, RowUpdates, Zenon
  <2>3. b \in States \cup {"Absent"}
    BY DEF States
  <2> QED
    BY <1>11, <1>0, <2>2, <2>3 DEF update_progress
<1>12. CASE UNCHANGED serviceVars
  BY <1>12 DEF serviceVars
<1> QED
  BY <1>1, <1>2, <1>3, <1>4, <1>5, <1>6, <1>7, <1>8, <1>9, <1>10, <1>11,
     <1>12
     DEF ServiceNext, queue, renew_lease, LeaseExpires, cancel_scope_excluded,
         observe_cancel

\* The service's tables stay well formed whatever its clients do.
THEOREM ServiceTypeCorrect == ServiceSpec => []ServiceTypeOK
<1>1. ServiceInit => ServiceTypeOK
  BY NullsAssumption
     DEF ServiceInit, ServiceTypeOK, Rows, NoRow, NoStage
<1> QED
  BY <1>1, TypeStep, PTL DEF ServiceSpec

-----------------------------------------------------------------------------
\* Every operation moves states legally and keeps plan, attempt and original of
\* the rows that exist, or inserts one row.
LEMMA StepShape ==
  ASSUME ServiceTypeOK, [ServiceNext]_serviceVars
  PROVE  \/ \A j \in Jobs : KeepsIdentity(j)
         \/ \E j \in Jobs : Inserted(j)
<1> USE DEF ServiceTypeOK, Rows, State, Exists
<1>1. ASSUME NEW j \in Jobs, NEW p \in Plans, NEW t \in Times, queue(p, j, t)
      PROVE  Inserted(j)
  BY <1>1 DEF queue, Insert, NoRow, Inserted
<1>2. ASSUME NEW j \in Jobs, NEW o \in Jobs, NEW t \in Times, retry(o, j, t)
      PROVE  Inserted(j)
  BY <1>2 DEF retry, Insert, NoRow, Inserted
<1>3. ASSUME NEW j \in Jobs, NEW w \in Workers, claim_next(w, j)
      PROVE  \A k \in Jobs : KeepsIdentity(k)
  BY <1>3, LegalLists DEF claim_next, Oldest, KeepsIdentity
<1>4. ASSUME NEW j \in Jobs, NEW w \in Workers, renew_lease(j, w)
      PROVE  \A k \in Jobs : KeepsIdentity(k)
  BY <1>4 DEF renew_lease, KeepsIdentity
<1>5. CASE mark_stale_leases
  <2>1. \A k \in Jobs : KeepsIdentity(k)
    BY <1>5, LegalLists, ZenonT(60) DEF mark_stale_leases, Stale, KeepsIdentity
  <2> QED BY <2>1
<1>6. ASSUME NEW j \in Jobs, LeaseExpires(j)
      PROVE  \A k \in Jobs : KeepsIdentity(k)
  BY <1>6 DEF LeaseExpires, KeepsIdentity
<1>7. ASSUME NEW j \in Jobs, NEW a, NEW b, transition(j, a, b)
      PROVE  \A k \in Jobs : KeepsIdentity(k)
  BY <1>7 DEF transition, KeepsIdentity
<1>8. ASSUME NEW j \in Jobs, request_cancel(j)
      PROVE  \A k \in Jobs : KeepsIdentity(k)
  BY <1>8, LegalLists DEF request_cancel, is_cancellable, KeepsIdentity
<1>9. ASSUME NEW j \in Jobs, fail_job(j)
      PROVE  \A k \in Jobs : KeepsIdentity(k)
  BY <1>9 DEF fail_job, fail, KeepsIdentity
<1>10. ASSUME NEW j \in Jobs, set_staged_root(j)
       PROVE  \A k \in Jobs : KeepsIdentity(k)
  BY <1>10 DEF set_staged_root, KeepsIdentity
<1>11. ASSUME NEW j \in Jobs, NEW r \in RunIds, complete(j, r)
       PROVE  \A k \in Jobs : KeepsIdentity(k)
  BY <1>11, LegalLists DEF complete, KeepsIdentity
<1>12. ASSUME NEW j \in Jobs, NEW s, NEW b, update_progress(j, s, b)
       PROVE  \A k \in Jobs : KeepsIdentity(k)
  BY <1>12 DEF update_progress, KeepsIdentity
<1>13. CASE UNCHANGED serviceVars
  <2>1. \A k \in Jobs : KeepsIdentity(k)
    BY <1>13 DEF serviceVars, KeepsIdentity
  <2> QED BY <2>1
<1> QED
  BY <1>1, <1>2, <1>3, <1>4, <1>5, <1>6, <1>7, <1>8, <1>9, <1>10, <1>11,
     <1>12, <1>13
     DEF ServiceNext, cancel_scope_excluded, observe_cancel

-----------------------------------------------------------------------------
ServiceInv == ServiceTypeOK /\ QueueNeverDuplicates /\ RetryChain

\* Every operation preserves QueueNeverDuplicates.
LEMMA QueueStep ==
  ASSUME ServiceInv, [ServiceNext]_serviceVars
  PROVE  QueueNeverDuplicates'
<1> USE DEF ServiceInv, ServiceTypeOK, Rows, State, Exists, is_active
<1>1. CASE \A j \in Jobs : KeepsIdentity(j)
  <2>1. \A j \in Jobs : /\ jobs'[j].state # "Absent" => jobs[j].state # "Absent"
                        /\ jobs'[j].state \notin Terminal
                             => jobs[j].state \notin Terminal
    BY <1>1, LegalEnds DEF KeepsIdentity, States, Executing, Terminal
  <2> QED
    BY <1>1, <2>1 DEF KeepsIdentity, QueueNeverDuplicates
<1>2. ASSUME NEW j \in Jobs, Inserted(j)
      PROVE  QueueNeverDuplicates'
  BY <1>2, NullsAssumption
     DEF Inserted, ActiveFor, QueueNeverDuplicates, Terminal
<1> QED
  BY <1>1, <1>2, StepShape

\* Every operation preserves RetryChain.
LEMMA RetryStep ==
  ASSUME ServiceInv, [ServiceNext]_serviceVars
  PROVE  RetryChain'
<1> USE DEF ServiceInv, ServiceTypeOK, Rows, State, Exists, is_retryable
<1>1. CASE \A j \in Jobs : KeepsIdentity(j)
  <2>1. \A j \in Jobs : jobs[j].state \in Terminal
                          => jobs'[j].state = jobs[j].state
    BY <1>1, LegalEnds DEF KeepsIdentity
  <2> QED
    BY <1>1, <2>1 DEF KeepsIdentity, RetryChain, Terminal
<1>2. ASSUME NEW j \in Jobs, Inserted(j)
      PROVE  RetryChain'
  BY <1>2 DEF Inserted, RetryChain
<1> QED
  BY <1>1, <1>2, StepShape

\* Without retry a plan revision has at most one active job, and every retry
\* continues an ended attempt of the same plan: for every number of jobs,
\* plans, workers and clients (queue, retry).
THEOREM ServicePromises == ServiceSpec => [](QueueNeverDuplicates /\ RetryChain)
<1>1. ServiceInit => ServiceInv
  BY NullsAssumption
     DEF ServiceInit, ServiceInv, ServiceTypeOK, Rows, NoRow, NoStage,
         QueueNeverDuplicates, RetryChain, Exists, State
<1>2. ServiceInv /\ [ServiceNext]_serviceVars => ServiceInv'
  BY TypeStep, QueueStep, RetryStep DEF ServiceInv
<1> QED
  BY <1>1, <1>2, PTL DEF ServiceSpec, ServiceInv

\* Every change of a job's state is one legal_transition allows, also where
\* the service writes the states by hand; an ended job never changes state.
THEOREM ServiceStepsAreLegal == ServiceSpec => LegalSteps
<1>1. ASSUME ServiceTypeOK, [ServiceNext]_serviceVars
      PROVE  [\A j \in Jobs : \/ State(j)' = State(j)
                              \/ State(j) = "Absent" /\ State(j)' = "Queued"
                              \/ legal_transition(State(j), State(j)')]_serviceVars
  <2>1. CASE \A j \in Jobs : KeepsIdentity(j)
    BY <2>1 DEF KeepsIdentity, State
  <2>2. ASSUME NEW j \in Jobs, Inserted(j)
        PROVE  \A k \in Jobs : \/ State(k)' = State(k)
                               \/ State(k) = "Absent" /\ State(k)' = "Queued"
    BY <2>2 DEF Inserted, State
  <2> QED
    BY <1>1, <2>1, <2>2, StepShape
<1> QED
  BY <1>1, ServiceTypeCorrect, PTL DEF ServiceSpec, LegalSteps

-----------------------------------------------------------------------------
(* The worker                                                              *)

\* What anyone but the worker that holds a job can do to it.
Foreign(j) ==
  /\ jobs'[j].plan = jobs[j].plan
  /\ jobs'[j].worker = jobs[j].worker
  /\ jobs'[j].run = jobs[j].run
  /\ \/ /\ jobs'[j].state = jobs[j].state
        /\ newest'[j] = newest[j]
        /\ j \in accepted' <=> j \in accepted
     \/ /\ jobs[j].state \in Leased
        /\ jobs'[j].state = "Failed"
        /\ j \in accepted' <=> j \in accepted
     \/ jobs[j].state \in Executing /\ jobs'[j].state = "CancelRequested"
     \/ /\ jobs[j].state = "Queued"
        /\ jobs'[j].state = "Cancelled"
        /\ newest'[j] = "Cancelled"

\* A row appears.
Appears(j) ==
  /\ jobs[j].state = "Absent"
  /\ jobs'[j] = [NoRow EXCEPT !.state = "Queued", !.plan = jobs'[j].plan,
                              !.requested_at = jobs'[j].requested_at,
                              !.attempt = jobs'[j].attempt,
                              !.original = jobs'[j].original]
  /\ newest'[j] = "Queued"
  /\ j \in accepted' <=> j \in accepted

\* The worker variables of w are as before.
SameWorker(w) ==
  /\ pc'[w] = pc[w] /\ cur'[w] = cur[w] /\ hb'[w] = hb[w] /\ sink'[w] = sink[w]
  /\ step'[w] = step[w] /\ rid'[w] = rid[w]

OthersSame(w) == \A v \in Workers \ {w} : SameWorker(v)

\* No row but that of j is written.
OnlyRow(j) ==
  \A k \in Jobs \ {j} : /\ jobs'[k] = jobs[k] /\ newest'[k] = newest[k]
                        /\ k \in accepted' <=> k \in accepted

\* No directory but that of j is written, and a finished one is kept.
OnlyFiles(j) ==
  /\ \A k \in Jobs \ {j} : /\ staging'[k] = staging[k] /\ final'[k] = final[k]
                            /\ started'[k] = started[k]
  /\ \A k \in Jobs : final[k] = "valid" => final'[k] = "valid"

\* A run gains at most the artifacts of j, and a run that is there keeps its
\* plan and its start.
OnlyRuns(j) ==
  \A r \in RunIds :
    /\ \/ runs'[r].jobs = runs[r].jobs
       \/ runs'[r].jobs = runs[r].jobs \cup {j}
    /\ runs[r].jobs # {} => /\ runs'[r].plan = runs[r].plan
                            /\ runs'[r].started_at = runs[r].started_at

\* The start of a job whose artifacts are in a run is not written again.
StartKept(j) ==
  (\E r \in RunIds : j \in runs[r].jobs) => started'[j] = started[j]

\* A step of worker w touches only the job j, which no other worker holds.
OnlyMine(w, j) ==
  /\ OthersSame(w) /\ OnlyRow(j) /\ OnlyFiles(j) /\ OnlyRuns(j)
  /\ \A v \in Workers \ {w} : cur[v] # NoJob => cur[v] # j

\* What the holder of a job does to its row, short of completing it.
Moves(j) ==
  /\ jobs'[j].plan = jobs[j].plan
  /\ jobs'[j].worker = jobs[j].worker
  /\ jobs'[j].run = jobs[j].run
  /\ \/ jobs'[j].state = jobs[j].state
     \/ /\ legal_transition(jobs[j].state, jobs'[j].state)
        /\ jobs'[j].state # "Completed"
  /\ jobs'[j].state \in {"Queued", "Completed", "Cancelled"}
       => newest'[j] = jobs'[j].state
  /\ \/ j \in accepted' <=> j \in accepted
     \/ jobs[j].state \in Executing /\ jobs'[j].state = "CancelRequested"

-----------------------------------------------------------------------------
\* Two workers never hold the same job, by what Inv says of each.
LEMMA Exclusive ==
  ASSUME Inv, NEW v \in Workers, NEW w \in Workers, v # w, cur[v] # NoJob
  PROVE  cur[v] # cur[w]
BY DEF Inv, WorkerInv

\* A step of w on its own job leaves what Inv says of every other worker.
LEMMA OthersKeep ==
  ASSUME TypeOK, Inv, NEW w \in Workers, NEW j, OnlyMine(w, j),
         NEW v \in Workers \ {w}
  PROVE  WorkerInv(v)'
<1>1. SameWorker(v)
  BY DEF OnlyMine, OthersSame
<1>2. CASE cur[v] = NoJob
  <2>1. pc[v] \notin Busy /\ WorkerInv(v)
    BY <1>2 DEF Inv, WorkerInv
  <2> QED
    BY <1>1, <1>2, <2>1
       DEF SameWorker, WorkerInv, Busy, Preparing, Running, Deciding,
           Publishing, Published
<1>3. CASE cur[v] # NoJob
  <2>1. cur[v] \in Jobs \ {j}
    BY <1>3 DEF TypeOK, OnlyMine
  <2>2. /\ jobs'[cur[v]] = jobs[cur[v]]
        /\ cur[v] \in accepted' <=> cur[v] \in accepted
        /\ staging'[cur[v]] = staging[cur[v]] /\ final'[cur[v]] = final[cur[v]]
        /\ \A r \in RunIds : cur[v] \in runs'[r].jobs <=> cur[v] \in runs[r].jobs
    BY <1>3, <2>1 DEF OnlyMine, OnlyRow, OnlyFiles, OnlyRuns
  <2>3. WorkerInv(v)
    BY DEF Inv
  <2> QED
    BY <1>1, <2>2, <2>3 DEF SameWorker, WorkerInv, State
<1> QED
  BY <1>2, <1>3

\* ... and of every other job,
LEMMA OtherJobsKeep ==
  ASSUME TypeOK, Inv, NEW j, OnlyRow(j), OnlyRuns(j), NEW k \in Jobs \ {j}
  PROVE  JobInv(k)'
<1>1. JobInv(k) /\ jobs[k].run \in RunIds \cup {NoRun}
  BY DEF Inv, TypeOK, ServiceTypeOK, Rows
<1>2. /\ jobs'[k] = jobs[k] /\ newest'[k] = newest[k]
      /\ k \in accepted' <=> k \in accepted
  BY DEF OnlyRow
<1>3. jobs[k].run # NoRun => k \in runs'[jobs[k].run].jobs
  BY <1>1 DEF OnlyRuns, JobInv
<1> QED
  BY <1>1, <1>2, <1>3 DEF JobInv, State

\* ... and of the runs of other jobs.
LEMMA OtherRunsKeep ==
  ASSUME TypeOK, Inv, NEW j, OnlyRow(j), OnlyFiles(j), OnlyRuns(j),
         NEW r \in RunIds, NEW k \in runs'[r].jobs \ {j}
  PROVE  RunOf(r, k)'
<1>1. k \in runs[r].jobs
  BY DEF OnlyRuns
<1>2. k \in Jobs \ {j} /\ RunOf(r, k)
  BY <1>1 DEF Inv, RunInv, TypeOK, RunRows
<1>a. k \in accepted' <=> k \in accepted
  BY <1>2 DEF OnlyRow
<1>3. /\ jobs'[k] = jobs[k]
      /\ final'[k] = "valid" /\ started'[k] = started[k]
  BY <1>2 DEF OnlyRow, OnlyFiles, RunOf
<1>4. runs'[r].plan = runs[r].plan /\ runs'[r].started_at = runs[r].started_at
  BY <1>1 DEF OnlyRuns
<1>5. \A s \in RunIds : k \in runs'[s].jobs => k \in runs[s].jobs
  BY <1>2 DEF OnlyRuns
<1> QED
  BY <1>2, <1>a, <1>3, <1>4, <1>5 DEF RunOf, State

\* What is left to show for a step of w: its own claim, job and runs.
LEMMA OwnStep ==
  ASSUME TypeOK, Inv, NEW w \in Workers, NEW j, OnlyMine(w, j), WorkerInv(w)',
         j \in Jobs => JobInv(j)',
         \A r \in RunIds : j \in runs'[r].jobs => RunOf(r, j)'
  PROVE  Inv'
<1>0. OnlyRow(j) /\ OnlyFiles(j) /\ OnlyRuns(j)
  BY DEF OnlyMine
<1>1. \A v \in Workers : WorkerInv(v)'
  BY OthersKeep
<1>2. \A k \in Jobs : JobInv(k)'
  BY <1>0, OtherJobsKeep
<1>3. \A r \in RunIds : RunInv(r)'
  <2>1. ASSUME NEW r \in RunIds, NEW k \in runs'[r].jobs PROVE RunOf(r, k)'
    BY <1>0, <2>1, OtherRunsKeep
  <2> QED
    BY <2>1 DEF RunInv
<1> QED
  BY <1>1, <1>2, <1>3 DEF Inv

\* A step that changes no table and no file: only the worker itself.
LEMMA QuietStep ==
  ASSUME TypeOK, Inv, NEW w \in Workers, OthersSame(w), WorkerInv(w)',
         UNCHANGED <<serviceVars, fileVars, runs>>
  PROVE  Inv'
<1>1. OnlyMine(w, NoJob)
  BY DEF OnlyMine, OnlyRow, OnlyFiles, OnlyRuns, serviceVars, fileVars
<1>2. \A r \in RunIds : NoJob \notin runs'[r].jobs
  BY NullsAssumption DEF TypeOK, RunRows
<1>3. NoJob \in Jobs => JobInv(NoJob)'
  BY NullsAssumption
<1> QED
  BY <1>1, <1>2, <1>3, OwnStep

\* A step that moves the row of the worker's own job.
LEMMA MoveStep ==
  ASSUME TypeOK, Inv, NEW w \in Workers, NEW j \in Jobs, cur[w] = j,
         OthersSame(w), OnlyRow(j), OnlyFiles(j), UNCHANGED runs, StartKept(j),
         Moves(j), WorkerInv(w)'
  PROVE  Inv'
<1>1. OnlyMine(w, j)
  BY Exclusive, NullsAssumption DEF OnlyMine, OnlyRuns
<1>2. JobInv(j) /\ \A r \in RunIds : RunInv(r)
  BY DEF Inv
<1>3. legal_transition(jobs[j].state, jobs'[j].state)
        => /\ jobs[j].state \notin Terminal
           /\ jobs[j].state = "CancelRequested"
                => jobs'[j].state \in {"Cancelled", "Failed"}
           /\ jobs[j].state = "PublishingRun"
                => jobs'[j].state \in {"Completed", "Failed"}
  BY LegalEnds
<1>4. JobInv(j)'
  BY <1>2, <1>3 DEF Moves, JobInv, State, Terminal, Executing
<1>5. ASSUME NEW r \in RunIds, j \in runs'[r].jobs PROVE RunOf(r, j)'
  <2>1. RunOf(r, j) /\ started'[j] = started[j] /\ final'[j] = "valid"
    BY <1>2, <1>5 DEF RunInv, RunOf, StartKept, OnlyFiles
  <2> QED
    BY <1>3, <2>1 DEF Moves, RunOf, State, Terminal, Executing
<1> QED
  BY <1>1, <1>4, <1>5, OwnStep

-----------------------------------------------------------------------------
(* Steps that no worker takes                                              *)

\* A step from outside preserves Inv when it changes only the tables, and every
\* row that it moves goes where a worker that holds the job expects it to go.
LEMMA ForeignStep ==
  ASSUME TypeOK, Inv, UNCHANGED <<cur, hb, sink, step, rid, fileVars, runs>>,
         \A w \in Workers : pc'[w] = pc[w] \/ {pc[w], pc'[w]} \cap Busy = {},
         \A j \in Jobs : Foreign(j) \/ Appears(j)
  PROVE  Inv'
<1> USE DEF fileVars
<1>1. ASSUME NEW w \in Workers PROVE WorkerInv(w)'
  <2>1. WorkerInv(w)
    BY DEF Inv
  <2>2. CASE cur[w] = NoJob
    <3>1. pc[w] \notin Busy
      BY <2>1, <2>2 DEF WorkerInv
    <3>2. pc'[w] \notin Busy
      BY <3>1
    <3> QED
      BY <2>1, <2>2, <3>1, <3>2
         DEF WorkerInv, Busy, Preparing, Running, Deciding, Publishing, Published
  <2>3. CASE cur[w] # NoJob
    <3>1. cur[w] \in Jobs /\ jobs[cur[w]].state \notin {"Absent", "Queued"}
      BY <2>1, <2>3 DEF TypeOK, WorkerInv, State
    <3>2. Foreign(cur[w]) /\ pc'[w] = pc[w]
      BY <2>1, <2>3, <3>1 DEF Appears, WorkerInv
    <3> QED
      BY <2>1, <3>1, <3>2
         DEF WorkerInv, Foreign, State, Leased, Executing, is_active, Terminal,
             Preparing, Running, Publishing, Published
  <2> QED
    BY <2>2, <2>3
<1>2. ASSUME NEW j \in Jobs PROVE JobInv(j)'
  <2>1. JobInv(j)
    BY DEF Inv
  <2>2. CASE Foreign(j)
    BY <2>1, <2>2 DEF JobInv, Foreign, State, Leased, Executing
  <2>3. CASE Appears(j)
    BY <2>1, <2>3 DEF JobInv, Appears, State, NoRow
  <2> QED
    BY <2>2, <2>3
<1>3. ASSUME NEW r \in RunIds PROVE RunInv(r)'
  <2>1. RunInv(r)
    BY DEF Inv
  <2>2. ASSUME NEW j \in runs[r].jobs PROVE RunOf(r, j)'
    <3>1. j \in Jobs /\ RunOf(r, j)
      BY <2>1, <2>2 DEF TypeOK, RunRows, RunInv
    <3>2. Foreign(j)
      BY <3>1 DEF RunOf, State, Appears
    <3> QED
      BY <3>1, <3>2 DEF RunOf, Foreign, State, Leased, Executing
  <2> QED
    BY <2>2 DEF RunInv
<1> QED
  BY <1>1, <1>2, <1>3 DEF Inv

\* mark_stale_leases is such a step: it only fails jobs that are leased.
LEMMA StaleScanIsForeign ==
  ASSUME TypeOK, mark_stale_leases
  PROVE  \A j \in Jobs : Foreign(j)
<1> SUFFICES ASSUME NEW j \in Jobs PROVE Foreign(j)
  OBVIOUS
<1>1. jobs[j] \in Rows
  BY DEF TypeOK, ServiceTypeOK
<1>2. CASE j \notin Stale
  BY <1>2 DEF mark_stale_leases, Foreign
<1>3. CASE j \in Stale
  <2>1. /\ jobs'[j] = [jobs[j] EXCEPT !.state = "Failed",
                                      !.error = "worker_lease_expired"]
        /\ accepted' = accepted
        /\ jobs[j].state \in Leased
    BY <1>3 DEF mark_stale_leases, Stale, State
  <2> QED
    BY <1>1, <2>1 DEF Foreign, Rows
<1> QED
  BY <1>2, <1>3

\* So are queue, retry, request_cancel and the passing of a lease.
LEMMA RequestIsForeign ==
  ASSUME TypeOK, Requests
  PROVE  \A j \in Jobs : Foreign(j) \/ Appears(j)
<1> USE DEF TypeOK, ServiceTypeOK, Rows, State
<1>1. ASSUME NEW p, NEW t, NEW n, NEW o, NEW k \in Jobs, Insert(k, p, t, n, o)
      PROVE  \A j \in Jobs : Foreign(j) \/ Appears(j)
  <2>1. Appears(k)
    BY <1>1 DEF Insert, Appears, NoRow
  <2>2. \A j \in Jobs \ {k} : Foreign(j)
    BY <1>1 DEF Insert, Foreign
  <2> QED
    BY <2>1, <2>2
<1>2. ASSUME NEW k \in Jobs, request_cancel(k)
      PROVE  \A j \in Jobs : Foreign(j)
  BY <1>2 DEF request_cancel, is_cancellable, Foreign
<1>3. ASSUME NEW k \in Jobs, LeaseExpires(k)
      PROVE  \A j \in Jobs : Foreign(j)
  BY <1>3 DEF LeaseExpires, Foreign
<1> QED
  BY <1>1, <1>2, <1>3, StaleScanIsForeign
     DEF Requests, QueuePlan, JobCancel, JobRetry, Audit, TimePasses, queue, retry

-----------------------------------------------------------------------------
(* The operations a worker calls on the row of its job                     *)

\* The state column after one of them, and the shape of the change.
Moved(j, to) == Moves(j) /\ OnlyRow(j) /\ jobs'[j].state = to

\* transition moves one row to the state asked for.
LEMMA Transitions ==
  ASSUME TypeOK, NEW j \in Jobs, NEW a, NEW b, transition(j, a, b),
         b # "Completed"
  PROVE  Moved(j, b) /\ jobs[j].state = a /\ legal_transition(a, b)
<1>1. jobs[j] \in Rows
  BY DEF TypeOK, ServiceTypeOK
<1>2. /\ legal_transition(a, b) /\ jobs[j].state = a
      /\ jobs'[j] = [jobs[j] EXCEPT !.state = b, !.stage = stage_label(b)]
      /\ newest'[j] = b /\ accepted' = accepted
  BY DEF transition, State, TypeOK, ServiceTypeOK
<1>3. OnlyRow(j)
  BY DEF transition, OnlyRow, TypeOK, ServiceTypeOK
<1> QED
  BY <1>1, <1>2, <1>3 DEF Moves, Moved, Rows

\* fail_job moves one row to Failed.
LEMMA Failures ==
  ASSUME TypeOK, NEW j \in Jobs, fail_job(j)
  PROVE  Moved(j, "Failed") /\ legal_transition(jobs[j].state, "Failed")
<1>1. jobs[j] \in Rows
  BY DEF TypeOK, ServiceTypeOK
<1>2. /\ legal_transition(jobs[j].state, "Failed")
      /\ jobs'[j] = [jobs[j] EXCEPT !.state = "Failed", !.error = "failure"]
      /\ newest'[j] = "Failed" /\ accepted' = accepted
  BY DEF fail_job, fail, State, TypeOK, ServiceTypeOK
<1>3. OnlyRow(j)
  BY DEF fail_job, fail, OnlyRow, TypeOK, ServiceTypeOK
<1> QED
  BY <1>1, <1>2, <1>3 DEF Moves, Moved, Rows

\* cancel_job moves one row to CancelRequested or Cancelled.
LEMMA Cancellations ==
  ASSUME TypeOK, NEW j \in Jobs, State(j) # "Queued", cancel_job(j)
  PROVE  \E to \in {"Cancelled", "CancelRequested"} : Moved(j, to)
<1>1. jobs[j] \in Rows
  BY DEF TypeOK, ServiceTypeOK
<1>2. CASE observe_cancel(j)
  BY <1>2, Transitions DEF observe_cancel
<1>3. CASE request_cancel(j)
  <2>1. /\ jobs[j].state \in Executing
        /\ jobs'[j] = [jobs[j] EXCEPT !.state = "CancelRequested",
                                      !.stage = jobs[j].stage]
    BY <1>3 DEF request_cancel, is_cancellable, State, TypeOK, ServiceTypeOK
  <2>2. OnlyRow(j)
    BY <1>3 DEF request_cancel, OnlyRow, TypeOK, ServiceTypeOK
  <2>3. legal_transition(jobs[j].state, "CancelRequested")
    BY <2>1, LegalLists
  <2> QED
    BY <1>1, <2>1, <2>2, <2>3 DEF Moves, Moved, Rows
<1> QED
  BY <1>2, <1>3 DEF cancel_job

\* The writes that keep the state; the event log may not be written after the
\* states whose event must stay the newest.
LEMMA StateKept ==
  ASSUME TypeOK, NEW j \in Jobs, JobInv(j),
         \/ UNCHANGED serviceVars
         \/ set_staged_root(j)
         \/ \E w \in Workers : renew_lease(j, w)
         \/ /\ \E st, b : update_progress(j, st, b)
            /\ State(j) \notin {"Queued", "Completed", "Cancelled"}
  PROVE  Moved(j, jobs[j].state)
<1>1. jobs[j] \in Rows
  BY DEF TypeOK, ServiceTypeOK
<1>2. CASE UNCHANGED serviceVars
  BY <1>2 DEF serviceVars, Moved, Moves, OnlyRow, JobInv, State
<1>3. CASE set_staged_root(j)
  <2>1. /\ jobs'[j] = [jobs[j] EXCEPT !.staged = TRUE]
        /\ UNCHANGED <<newest, accepted>> /\ OnlyRow(j)
    BY <1>3 DEF set_staged_root, OnlyRow, TypeOK, ServiceTypeOK
  <2> QED
    BY <1>1, <2>1 DEF Moved, Moves, JobInv, State, Rows
<1>4. CASE \E w \in Workers : renew_lease(j, w)
  <2>1. /\ jobs'[j] = [jobs[j] EXCEPT !.lease = "live"]
        /\ UNCHANGED <<newest, accepted>> /\ OnlyRow(j)
    BY <1>4 DEF renew_lease, OnlyRow, TypeOK, ServiceTypeOK
  <2> QED
    BY <1>1, <2>1 DEF Moved, Moves, JobInv, State, Rows
<1>5. ASSUME NEW st, NEW b, update_progress(j, st, b),
             State(j) \notin {"Queued", "Completed", "Cancelled"}
      PROVE  Moved(j, jobs[j].state)
  <2>1. /\ jobs'[j] = [jobs[j] EXCEPT !.stage = st]
        /\ UNCHANGED accepted /\ OnlyRow(j)
    BY <1>5 DEF update_progress, OnlyRow, TypeOK, ServiceTypeOK
  <2> QED
    BY <1>1, <1>5, <2>1 DEF Moved, Moves, State, Rows
<1> QED
  BY <1>2, <1>3, <1>4, <1>5

-----------------------------------------------------------------------------
(* The actions of a worker, one by one                                     *)

\* The steps of a worker that write neither the tables nor a run.
LEMMA QuietActions ==
  ASSUME TypeOK, Inv, NEW w \in Workers,
         \/ Start(w) \/ NoClaim(w) \/ PrepareFails(w)
         \/ HeartbeatStops(w) \/ HeartbeatSeesCancel(w) \/ JoinHeartbeat(w)
         \/ EnterPublishingFails(w) \/ ValidateStaged(w)
         \/ ImportFails(w) \/ CompleteFails(w) \/ Crash(w)
  PROVE  Inv'
<1>0. /\ WorkerInv(w) /\ pc[w] \in PC
      /\ Workers = DOMAIN pc /\ Workers = DOMAIN cur /\ Workers = DOMAIN hb
      /\ Workers = DOMAIN sink /\ Workers = DOMAIN step /\ Workers = DOMAIN rid
      /\ Workers = DOMAIN cancel
  BY DEF Inv, TypeOK
<1> USE DEF Goto, Stay, Return, OthersSame, SameWorker
<1> DEFINE Shape == OthersSame(w) /\ UNCHANGED <<serviceVars, fileVars, runs>>
<1>1. CASE Start(w)
  <2>1. Shape
    BY <1>0, <1>1 DEF Start
  <2>2. WorkerInv(w)'
    BY <1>0, <1>1
       DEF Start, WorkerInv, State, serviceVars, fileVars, PC, Busy, Preparing,
           Running, Deciding, Publishing, Published
  <2> QED
    BY <2>1, <2>2, QuietStep
<1>2. CASE NoClaim(w)
  <2>1. Shape
    BY <1>0, <1>2 DEF NoClaim
  <2>2. WorkerInv(w)'
    BY <1>0, <1>2
       DEF NoClaim, WorkerInv, State, serviceVars, fileVars, PC, Busy, Preparing,
           Running, Deciding, Publishing, Published
  <2> QED
    BY <2>1, <2>2, QuietStep
<1>3. CASE PrepareFails(w)
  <2>1. Shape
    BY <1>0, <1>3 DEF PrepareFails
  <2>2. WorkerInv(w)'
    BY <1>0, <1>3
       DEF PrepareFails, WorkerInv, State, serviceVars, fileVars, PC, Busy, Preparing,
           Running, Deciding, Publishing, Published
  <2> QED
    BY <2>1, <2>2, QuietStep
<1>4. CASE HeartbeatStops(w)
  <2>1. Shape
    BY <1>0, <1>4 DEF HeartbeatStops
  <2>2. WorkerInv(w)'
    BY <1>0, <1>4
       DEF HeartbeatStops, WorkerInv, State, serviceVars, fileVars, PC, Busy, Preparing,
           Running, Deciding, Publishing, Published
  <2> QED
    BY <2>1, <2>2, QuietStep
<1>5. CASE HeartbeatSeesCancel(w)
  <2>1. Shape
    BY <1>0, <1>5 DEF HeartbeatSeesCancel
  <2>2. WorkerInv(w)'
    BY <1>0, <1>5
       DEF HeartbeatSeesCancel, WorkerInv, State, serviceVars, fileVars, PC, Busy, Preparing,
           Running, Deciding, Publishing, Published
  <2> QED
    BY <2>1, <2>2, QuietStep
<1>6. CASE JoinHeartbeat(w)
  <2>1. Shape
    BY <1>0, <1>6 DEF JoinHeartbeat
  <2>2. WorkerInv(w)'
    BY <1>0, <1>6
       DEF JoinHeartbeat, WorkerInv, State, serviceVars, fileVars, PC, Busy, Preparing,
           Running, Deciding, Publishing, Published
  <2> QED
    BY <2>1, <2>2, QuietStep
<1>7. CASE EnterPublishingFails(w)
  <2>1. Shape
    BY <1>0, <1>7 DEF EnterPublishingFails
  <2>2. WorkerInv(w)'
    BY <1>0, <1>7
       DEF EnterPublishingFails, WorkerInv, State, serviceVars, fileVars, PC, Busy, Preparing,
           Running, Deciding, Publishing, Published
  <2> QED
    BY <2>1, <2>2, QuietStep
<1>8. CASE ValidateStaged(w)
  <2>1. Shape
    BY <1>0, <1>8 DEF ValidateStaged
  <2>2. WorkerInv(w)'
    BY <1>0, <1>8
       DEF ValidateStaged, WorkerInv, State, serviceVars, fileVars, PC, Busy, Preparing,
           Running, Deciding, Publishing, Published
  <2> QED
    BY <2>1, <2>2, QuietStep
<1>9. CASE ImportFails(w)
  <2>1. Shape
    BY <1>0, <1>9 DEF ImportFails
  <2>2. WorkerInv(w)'
    BY <1>0, <1>9
       DEF ImportFails, WorkerInv, State, serviceVars, fileVars, PC, Busy, Preparing,
           Running, Deciding, Publishing, Published
  <2> QED
    BY <2>1, <2>2, QuietStep
<1>10. CASE CompleteFails(w)
  <2>1. Shape
    BY <1>0, <1>10 DEF CompleteFails
  <2>2. WorkerInv(w)'
    BY <1>0, <1>10
       DEF CompleteFails, WorkerInv, State, serviceVars, fileVars, PC, Busy, Preparing,
           Running, Deciding, Publishing, Published
  <2> QED
    BY <2>1, <2>2, QuietStep
<1>11. CASE Crash(w)
  <2>1. Shape
    BY <1>0, <1>11 DEF Crash
  <2>2. WorkerInv(w)'
    BY <1>0, <1>11
       DEF Crash, WorkerInv, State, serviceVars, fileVars, PC, Busy, Preparing,
           Running, Deciding, Publishing, Published
  <2> QED
    BY <2>1, <2>2, QuietStep
<1> QED
  BY <1>1, <1>2, <1>3, <1>4, <1>5, <1>6, <1>7, <1>8, <1>9, <1>10, <1>11

\* The steps of a worker that write the row of its job, but for claiming,
\* entering publication and completing.
LEMMA MoveActions ==
  ASSUME TypeOK, Inv, NEW w \in Workers, NEW j \in Jobs, cur[w] = j,
         \/ RecheckScope(w)
         \/ CreateStaging(w)
         \/ HeartbeatRenews(w)
         \/ Emit(w)
         \/ EmitProgress(w)
         \/ PipelineEnds(w)
         \/ CancelJob(w)
         \/ FailJob(w)
         \/ CleanupStaging(w)
         \/ RenameStaged(w)
         \/ RenameFails(w)
  PROVE  Inv'
<1>0. /\ WorkerInv(w) /\ JobInv(j) /\ j # NoJob
      /\ Workers = DOMAIN pc /\ Workers = DOMAIN cur /\ Workers = DOMAIN hb
      /\ Workers = DOMAIN sink /\ Workers = DOMAIN step /\ Workers = DOMAIN rid
      /\ Workers = DOMAIN cancel
      /\ Jobs = DOMAIN staging /\ Jobs = DOMAIN final
      /\ pc[w] \in PC
  BY NullsAssumption DEF Inv, TypeOK
<1> USE DEF Goto, Stay, Return
<1> DEFINE Shape == OthersSame(w) /\ OnlyFiles(j) /\ UNCHANGED runs /\ StartKept(j)
<1>1. CASE RecheckScope(w)
  <2>1. Shape
    BY <1>0, <1>1
       DEF RecheckScope, OthersSame, SameWorker, OnlyFiles, StartKept,
           workerVars, fileVars
  <2>2. \/ Moved(j, jobs[j].state)
        \/ pc'[w] = "scan" /\ Moved(j, "Cancelled")
    BY <1>0, <1>1, StateKept, Transitions
       DEF RecheckScope, Try, cancel_scope_excluded
  <2>3. WorkerInv(w)'
    BY <1>0, <1>1, <2>2, ZenonT(60)
       DEF RecheckScope, Moved, Moves, WorkerInv, State, workerVars, fileVars,
           is_active, Terminal, Executing, PC, Busy, Preparing,
           Running, Deciding, Publishing, Published
  <2> QED
    BY <2>1, <2>2, <2>3, MoveStep DEF Moved
<1>2. CASE CreateStaging(w)
  <2>1. Shape
    BY <1>0, <1>2
       DEF CreateStaging, OthersSame, SameWorker, OnlyFiles, StartKept,
           WorkerInv, Preparing
  <2>2. Moved(j, jobs[j].state)
    BY <1>0, <1>2, StateKept DEF CreateStaging, Try
  <2>3. WorkerInv(w)'
    BY <1>0, <1>2, <2>2
       DEF CreateStaging, Moved, Moves, WorkerInv, State, workerVars, fileVars,
           is_active, Terminal, Executing, PC, Busy, Preparing,
           Running, Deciding, Publishing, Published
  <2> QED
    BY <2>1, <2>2, <2>3, MoveStep DEF Moved
<1>3. CASE HeartbeatRenews(w)
  <2>1. Shape
    BY <1>0, <1>3
       DEF HeartbeatRenews, OthersSame, SameWorker, OnlyFiles, StartKept,
           workerVars, fileVars
  <2>2. Moved(j, jobs[j].state)
    BY <1>0, <1>3, StateKept DEF HeartbeatRenews
  <2>3. WorkerInv(w)'
    BY <1>0, <1>3, <2>2
       DEF HeartbeatRenews, Moved, Moves, WorkerInv, State, workerVars, fileVars,
           is_active, Terminal, Executing, PC, Busy, Preparing,
           Running, Deciding, Publishing, Published
  <2> QED
    BY <2>1, <2>2, <2>3, MoveStep DEF Moved
<1>4. CASE Emit(w)
  <2>1. Shape
    BY <1>0, <1>4
       DEF Emit, OthersSame, SameWorker, OnlyFiles, StartKept,
           workerVars, fileVars
  <2>2. \/ Moved(j, jobs[j].state) /\ sink' = sink
        \/ /\ Moved(j, Reported(w)) /\ Reported(w) \in Executing
           /\ sink'[w] = Reported(w) /\ jobs[j].state \in Executing
    <3>1. Reported(w) \in Executing
      BY <1>0, <1>4, PipelineAssumption DEF Emit, Reported, TypeOK
    <3>2. Reported(w) # "Completed"
      BY <3>1 DEF Executing
    <3> QED
      BY <1>0, <1>4, <3>1, <3>2, StateKept, Transitions DEF Emit, TypeOK
  <2>3. WorkerInv(w)'
    BY <1>0, <1>4, <2>2
       DEF Emit, Moved, Moves, WorkerInv, State, workerVars, fileVars,
           is_active, Terminal, Executing, PC, Busy, Preparing,
           Running, Deciding, Publishing, Published
  <2> QED
    BY <2>1, <2>2, <2>3, MoveStep DEF Moved
<1>5. CASE EmitProgress(w)
  <2>1. Shape
    BY <1>0, <1>5
       DEF EmitProgress, OthersSame, SameWorker, OnlyFiles, StartKept,
           workerVars, fileVars
  <2>2. Moved(j, jobs[j].state)
    <3>1. State(j) \notin {"Queued", "Completed", "Cancelled"}
      BY <1>0, <1>5 DEF EmitProgress, WorkerInv, Running, Executing
    <3> QED
      BY <1>0, <1>5, <3>1, StateKept DEF EmitProgress
  <2>3. WorkerInv(w)'
    BY <1>0, <1>5, <2>2
       DEF EmitProgress, Moved, Moves, WorkerInv, State, workerVars, fileVars,
           is_active, Terminal, Executing, PC, Busy, Preparing,
           Running, Deciding, Publishing, Published
  <2> QED
    BY <2>1, <2>2, <2>3, MoveStep DEF Moved
<1>6. CASE PipelineEnds(w)
  <2>1. Shape
    BY <1>0, <1>6
       DEF PipelineEnds, OthersSame, SameWorker, OnlyFiles, StartKept,
           workerVars, fileVars
  <2>2. Moved(j, jobs[j].state)
    BY <1>0, <1>6, StateKept DEF PipelineEnds
  <2>3. WorkerInv(w)'
    BY <1>0, <1>6, <2>2, ZenonT(60)
       DEF PipelineEnds, Moved, Moves, WorkerInv, State, workerVars, fileVars,
           is_active, Terminal, Executing, PC, Busy, Preparing,
           Running, Deciding, Publishing, Published
  <2> QED
    BY <2>1, <2>2, <2>3, MoveStep DEF Moved
<1>7. CASE CancelJob(w)
  <2>1. Shape
    BY <1>0, <1>7
       DEF CancelJob, OthersSame, SameWorker, OnlyFiles, StartKept,
           workerVars, fileVars
  <2>2. \E to : Moved(j, to) /\ to \notin {"Absent", "Queued"}
    <3>1. State(j) = jobs[j].state /\ State(j) \notin {"Absent", "Queued"}
      BY <1>0 DEF WorkerInv, State
    <3> QED
      BY <1>0, <1>7, <3>1, StateKept, Cancellations DEF CancelJob, Try
  <2>3. WorkerInv(w)'
    BY <1>0, <1>7, <2>2, ZenonT(60)
       DEF CancelJob, Moved, Moves, WorkerInv, State, workerVars, fileVars,
           is_active, Terminal, Executing, PC, Busy, Preparing,
           Running, Deciding, Publishing, Published
  <2> QED
    BY <2>1, <2>2, <2>3, MoveStep DEF Moved
<1>8. CASE FailJob(w)
  <2>1. Shape
    BY <1>0, <1>8
       DEF FailJob, OthersSame, SameWorker, OnlyFiles, StartKept,
           workerVars, fileVars
  <2>2. \E to : Moved(j, to) /\ to \notin {"Absent", "Queued"}
    <3>1. jobs[j].state \notin {"Absent", "Queued"}
      BY <1>0 DEF WorkerInv, State
    <3> QED
      BY <1>0, <1>8, <3>1, StateKept, Failures DEF FailJob, Try
  <2>3. WorkerInv(w)'
    BY <1>0, <1>8, <2>2, ZenonT(60)
       DEF FailJob, Moved, Moves, WorkerInv, State, workerVars, fileVars,
           is_active, Terminal, Executing, PC, Busy, Preparing,
           Running, Deciding, Publishing, Published
  <2> QED
    BY <2>1, <2>2, <2>3, MoveStep DEF Moved
<1>9. CASE CleanupStaging(w)
  <2>1. Shape
    BY <1>0, <1>9
       DEF CleanupStaging, OthersSame, SameWorker, OnlyFiles, StartKept,
           workerVars, fileVars
  <2>2. Moved(j, jobs[j].state)
    BY <1>0, <1>9, StateKept DEF CleanupStaging
  <2>3. WorkerInv(w)'
    BY <1>0, <1>9, <2>2
       DEF CleanupStaging, Moved, Moves, WorkerInv, State, workerVars, fileVars,
           is_active, Terminal, Executing, PC, Busy, Preparing,
           Running, Deciding, Publishing, Published
  <2> QED
    BY <2>1, <2>2, <2>3, MoveStep DEF Moved
<1>10. CASE RenameStaged(w)
  <2>1. Shape
    BY <1>0, <1>10
       DEF RenameStaged, OthersSame, SameWorker, OnlyFiles, StartKept,
           workerVars, fileVars
  <2>2. Moved(j, jobs[j].state)
    BY <1>0, <1>10, StateKept DEF RenameStaged
  <2>3. WorkerInv(w)'
    BY <1>0, <1>10, <2>2
       DEF RenameStaged, Moved, Moves, WorkerInv, State, workerVars, fileVars,
           is_active, Terminal, Executing, PC, Busy, Preparing,
           Running, Deciding, Publishing, Published
  <2> QED
    BY <2>1, <2>2, <2>3, MoveStep DEF Moved
<1>11. CASE RenameFails(w)
  <2>1. Shape
    BY <1>0, <1>11
       DEF RenameFails, OthersSame, SameWorker, OnlyFiles, StartKept,
           workerVars, fileVars
  <2>2. Moved(j, jobs[j].state)
    BY <1>0, <1>11, StateKept DEF RenameFails
  <2>3. WorkerInv(w)'
    BY <1>0, <1>11, <2>2
       DEF RenameFails, Moved, Moves, WorkerInv, State, workerVars, fileVars,
           is_active, Terminal, Executing, PC, Busy, Preparing,
           Running, Deciding, Publishing, Published
  <2> QED
    BY <2>1, <2>2, <2>3, MoveStep DEF Moved
<1> QED
  BY <1>1, <1>2, <1>3, <1>4, <1>5, <1>6, <1>7, <1>8, <1>9, <1>10, <1>11

\* From here on the run may be published: no cancellation was accepted and no
\* run of the job exists, because the row was still executing.
LEMMA EnterPublishingStep ==
  ASSUME TypeOK, Inv, NEW w \in Workers, NEW j \in Jobs, cur[w] = j,
         EnterPublishing(w)
  PROVE  Inv'
<1>1. /\ WorkerInv(w) /\ JobInv(j) /\ j # NoJob
      /\ Workers = DOMAIN pc
  BY NullsAssumption DEF Inv, TypeOK
<1>2. Moved(j, "PublishingRun") /\ jobs[j].state \in Executing
  BY Transitions, LegalEnds DEF EnterPublishing, enter_publishing
<1>3. \A r \in RunIds : j \notin runs[r].jobs
  BY <1>1, <1>2 DEF Inv, RunInv, RunOf, State, Executing
<1>4. j \notin accepted'
  BY <1>1, <1>2 DEF JobInv, Moved, Moves, State, Executing
<1>5. OthersSame(w) /\ OnlyFiles(j) /\ StartKept(j) /\ UNCHANGED <<runs, fileVars>>
  BY <1>1 DEF EnterPublishing, Goto, Stay, OthersSame, SameWorker, OnlyFiles,
              StartKept, fileVars
<1>6. WorkerInv(w)'
  BY <1>1, <1>2, <1>3, <1>4, <1>5
     DEF EnterPublishing, Goto, Stay, Moved, Moves, WorkerInv, State, fileVars,
         Executing, PC, Busy, Preparing,
         Running, Deciding, Publishing, Published
<1> QED
  BY <1>2, <1>5, <1>6, MoveStep DEF Moved

\* A queued job is held by nobody.
LEMMA ClaimStep ==
  ASSUME TypeOK, Inv, NEW w \in Workers, Claim(w)
  PROVE  Inv'
<1>1. PICK j \in Jobs : claim_next(w, j) /\ cur' = [cur EXCEPT ![w] = j]
  BY DEF Claim
<1>2. /\ WorkerInv(w) /\ JobInv(j) /\ j # NoJob /\ jobs[j] \in Rows
      /\ Workers = DOMAIN pc /\ Workers = DOMAIN cur
      /\ \A v \in Workers : WorkerInv(v)
      /\ \A r \in RunIds : RunInv(r)
  BY NullsAssumption DEF Inv, TypeOK, ServiceTypeOK
<1>3. /\ jobs[j].state = "Queued"
      /\ jobs'[j] = [jobs[j] EXCEPT !.state = "Claimed", !.worker = w,
                                    !.lease = "live", !.stage = NoStage]
      /\ accepted' = accepted /\ OnlyRow(j)
  BY <1>1 DEF claim_next, Oldest, State, OnlyRow, TypeOK, ServiceTypeOK
<1>4. /\ jobs'[j].state = "Claimed" /\ jobs'[j].worker = w
      /\ jobs'[j].run = jobs[j].run
      /\ \A r \in RunIds : j \notin runs'[r].jobs
  BY <1>2, <1>3 DEF Rows, Claim, RunInv, RunOf, State
<1>5. OnlyMine(w, j)
  BY <1>1, <1>2, <1>3
     DEF Claim, Goto, OnlyMine, OthersSame, SameWorker, OnlyFiles, OnlyRuns,
         fileVars, WorkerInv, State
<1>6. WorkerInv(w)'
  BY <1>1, <1>2, <1>4
     DEF Claim, Goto, WorkerInv, State, Executing, PC, Busy, Preparing,
         Running, Deciding, Publishing, Published
<1>7. JobInv(j)'
  BY <1>2, <1>3, <1>4 DEF JobInv, State
<1> QED
  BY <1>4, <1>5, <1>6, <1>7, OwnStep

\* The import adds the job to the run of its plan and start, which may hold other
\* jobs already, and to no other.
LEMMA ImportStep ==
  ASSUME TypeOK, Inv, NEW w \in Workers, NEW j \in Jobs, cur[w] = j, ImportRun(w)
  PROVE  Inv'
<1>1. PICK r \in RunIds : insert_run(j, r) /\ rid' = [rid EXCEPT ![w] = r]
  BY DEF ImportRun
<1>2. /\ WorkerInv(w) /\ JobInv(j) /\ j # NoJob
      /\ jobs[j].run \in RunIds \cup {NoRun}
      /\ Workers = DOMAIN pc /\ Workers = DOMAIN rid /\ RunIds = DOMAIN runs
      /\ runs[r] \in RunRows
  BY NullsAssumption DEF Inv, TypeOK, ServiceTypeOK, Rows
<1>3. /\ runs'[r].jobs = runs[r].jobs \cup {j}
      /\ runs'[r].plan = jobs[j].plan /\ runs'[r].started_at = started[j]
      /\ runs[r].jobs # {} => /\ runs'[r].plan = runs[r].plan
                              /\ runs'[r].started_at = runs[r].started_at
      /\ \A s \in RunIds \ {r} : runs'[s] = runs[s]
  <2>1. CASE r \in RunsLike(j) /\ runs' = [runs EXCEPT ![r].jobs = @ \cup {j}]
    <3>1. runs'[r] = [runs[r] EXCEPT !.jobs = runs[r].jobs \cup {j}]
      BY <1>2, <2>1
    <3>2. \A s \in RunIds \ {r} : runs'[s] = runs[s]
      BY <1>2, <2>1
    <3> QED
      BY <1>2, <2>1, <3>1, <3>2 DEF RunsLike, RunRows
  <2>2. CASE /\ runs[r].jobs = {}
             /\ runs' = [runs EXCEPT ![r] = [plan |-> jobs[j].plan,
                                             started_at |-> started[j],
                                             jobs |-> {j}]]
    BY <1>2, <2>2
  <2> QED
    BY <1>1, <2>1, <2>2 DEF insert_run
<1>4. OnlyMine(w, j)
  <2>1. OnlyRuns(j)
    BY <1>3 DEF OnlyRuns
  <2> QED
    BY <1>1, <1>2, <2>1, Exclusive
       DEF ImportRun, Goto, OnlyMine, OthersSame, SameWorker, OnlyRow, OnlyFiles,
           fileVars, serviceVars
<1>5. /\ State(j) \in {"PublishingRun", "Failed"} /\ j \notin accepted
      /\ final[j] = "valid" /\ \A s \in RunIds : j \notin runs[s].jobs
      /\ pc[w] = "import"
  BY <1>2 DEF ImportRun, WorkerInv, Publishing
<1>6. UNCHANGED <<jobs, newest, accepted, cur, hb, sink, step, staging, final, started>>
  BY DEF ImportRun, serviceVars, fileVars
<1>7. WorkerInv(w)'
  <2>1. pc'[w] = "complete" /\ rid'[w] = r
    BY <1>1, <1>2 DEF ImportRun, Goto
  <2> QED
    BY <1>2, <1>3, <1>5, <1>6, <2>1
       DEF WorkerInv, State, Busy, Preparing, Running, Deciding, Publishing,
           Published
<1>8. JobInv(j)'
  BY <1>2, <1>5, <1>6 DEF JobInv, State
<1>9. \A s \in RunIds : j \in runs'[s].jobs => RunOf(s, j)'
  BY <1>3, <1>5, <1>6 DEF RunOf, State
<1> QED
  BY <1>4, <1>7, <1>8, <1>9, OwnStep

\* complete links the run that the worker has imported.
LEMMA CompleteStep ==
  ASSUME TypeOK, Inv, NEW w \in Workers, NEW j \in Jobs, cur[w] = j,
         CompleteJob(w)
  PROVE  Inv'
<1>1. /\ WorkerInv(w) /\ j # NoJob /\ jobs[j] \in Rows
      /\ Workers = DOMAIN pc /\ \A r \in RunIds : RunInv(r)
  BY NullsAssumption DEF Inv, TypeOK, ServiceTypeOK
<1>2. rid[w] \in RunIds /\ j \in runs[rid[w]].jobs /\ j \notin accepted
  BY <1>1 DEF CompleteJob, WorkerInv, Published
<1>3. /\ jobs[j].state = "PublishingRun"
      /\ jobs'[j] = [jobs[j] EXCEPT !.state = "Completed", !.run = rid[w],
                                    !.stage = NoStage]
      /\ newest'[j] = "Completed" /\ accepted' = accepted /\ OnlyRow(j)
  BY DEF CompleteJob, complete, State, OnlyRow, TypeOK, ServiceTypeOK
<1>4. /\ jobs'[j].state = "Completed" /\ jobs'[j].run = rid[w]
      /\ jobs'[j].worker = jobs[j].worker /\ jobs'[j].plan = jobs[j].plan
  BY <1>1, <1>3 DEF Rows
<1>5. OnlyMine(w, j)
  BY <1>1, <1>3, Exclusive
     DEF CompleteJob, Goto, Stay, OnlyMine, OthersSame, SameWorker, OnlyFiles,
         OnlyRuns, fileVars
<1>6. WorkerInv(w)'
  BY <1>1, <1>4
     DEF CompleteJob, Goto, Stay, WorkerInv, State, PC, Busy, Preparing,
         Running, Deciding, Publishing, Published
<1>7. JobInv(j)'
  BY <1>2, <1>3, <1>4, NullsAssumption DEF CompleteJob, JobInv, State
<1>8. ASSUME NEW r \in RunIds, j \in runs'[r].jobs PROVE RunOf(r, j)'
  <2>1. runs' = runs /\ final' = final /\ started' = started
    BY DEF CompleteJob, fileVars
  <2>2. RunOf(r, j)
    BY <1>1, <1>8, <2>1 DEF RunInv
  <2> QED
    BY <1>3, <1>4, <2>1, <2>2 DEF RunOf, State
<1> QED
  BY <1>5, <1>6, <1>7, <1>8, OwnStep

\* The stale scan at the head of run_worker's loop.
LEMMA ScanStep ==
  ASSUME TypeOK, Inv, NEW w \in Workers, Scan(w)
  PROVE  Inv'
<1>1. \A j \in Jobs : Foreign(j)
  BY StaleScanIsForeign DEF Scan, Try, serviceVars, Foreign
<1>2. \A v \in Workers : pc'[v] = pc[v] \/ {pc[v], pc'[v]} \cap Busy = {}
  BY DEF Scan, Goto, TypeOK, Busy, Preparing, Running, Deciding, Publishing,
         Published
<1> QED
  BY <1>1, <1>2, ForeignStep DEF Scan, Stay

\* The cleanup command takes the directory of an ended job.
LEMMA CleanupStep ==
  ASSUME TypeOK, Inv, NEW j \in Jobs, Cleanup(j)
  PROVE  Inv'
<1> USE DEF Cleanup, serviceVars, workerVars, State, TypeOK
<1>1. ASSUME NEW w \in Workers PROVE WorkerInv(w)'
  BY DEF Inv, WorkerInv, is_active
<1>2. ASSUME NEW k \in Jobs PROVE JobInv(k)'
  BY DEF Inv, JobInv
<1>3. ASSUME NEW r \in RunIds PROVE RunInv(r)'
  BY DEF Inv, RunInv, RunOf
<1> QED
  BY <1>1, <1>2, <1>3 DEF Inv

-----------------------------------------------------------------------------
(* The promises                                                            *)

\* The worker of a step that needs a job holds one.
LEMMA HoldsJob ==
  ASSUME TypeOK, Inv, NEW w \in Workers,
         pc[w] \in Busy \/ hb[w] # "off"
  PROVE  cur[w] \in Jobs
BY DEF TypeOK, Inv, WorkerInv, Busy, Running

\* Every step of the system preserves Inv.
LEMMA InvStep ==
  ASSUME TypeOK, Inv, [Next]_vars
  PROVE  Inv'
<1>1. ASSUME NEW w \in Workers, MainThread(w) PROVE Inv'
  <2>1. CASE pc[w] \in Busy
    BY <1>1, <2>1, HoldsJob, QuietActions, MoveActions, EnterPublishingStep,
       ImportStep, CompleteStep, ScanStep, ClaimStep DEF MainThread
  <2>2. CASE pc[w] \notin Busy
    <3>1. Scan(w) \/ Claim(w) \/ NoClaim(w)
      BY <1>1, <2>2
         DEF MainThread, Busy, Preparing, Running, Deciding, Publishing,
             Published, RecheckScope, CreateStaging, PrepareFails, Emit,
             EmitProgress, PipelineEnds, JoinHeartbeat, CancelJob, FailJob,
             CleanupStaging, EnterPublishing, EnterPublishingFails,
             ValidateStaged, RenameStaged, RenameFails, ImportRun, ImportFails,
             CompleteJob, CompleteFails
    <3> QED
      BY <3>1, ScanStep, ClaimStep, QuietActions
  <2> QED
    BY <2>1, <2>2
<1>2. ASSUME NEW w \in Workers, HeartbeatThread(w) PROVE Inv'
  <2>1. CASE HeartbeatRenews(w)
    BY <2>1, HoldsJob, MoveActions DEF HeartbeatRenews
  <2> QED
    BY <1>2, <2>1, QuietActions DEF HeartbeatThread
<1>3. ASSUME NEW w \in Workers, Start(w) \/ Crash(w) PROVE Inv'
  BY <1>3, QuietActions
<1>4. CASE Requests
  <2>1. UNCHANGED <<pc, cur, hb, sink, step, rid, fileVars, runs>>
    BY <1>4 DEF Requests, QueuePlan, JobCancel, JobRetry, Audit, TimePasses,
                Outside, workerVars
  <2> QED
    BY <1>4, <2>1, RequestIsForeign, ForeignStep
<1>5. ASSUME NEW j \in Jobs, Cleanup(j) PROVE Inv'
  BY <1>5, CleanupStep
<1>6. CASE UNCHANGED vars
  <2>1. /\ \A w \in Workers : WorkerInv(w)'
        /\ \A j \in Jobs : JobInv(j)'
        /\ \A r \in RunIds : RunInv(r)'
    BY <1>6 DEF Inv, vars, serviceVars, workerVars, fileVars, WorkerInv, JobInv,
                RunInv, RunOf, State
  <2> QED
    BY <2>1 DEF Inv
<1> QED
  BY <1>1, <1>2, <1>3, <1>4, <1>5, <1>6 DEF Next

\* Whatever the system does to the tables, the service allows.
LEMMA ServiceStep ==
  ASSUME TypeOK, Inv, [Next]_vars
  PROVE  [ServiceNext]_serviceVars
<1>1. ASSUME NEW w \in Workers, NEW j \in Jobs, cur[w] = j,
             MainThread(w) \/ HeartbeatThread(w)
      PROVE  [ServiceNext]_serviceVars
  <2>0. WorkerInv(w)
    BY DEF Inv
  <2>1. CASE RecheckScope(w)
    BY <1>1, <2>1 DEF RecheckScope, Try, ServiceNext
  <2>2. CASE CreateStaging(w)
    BY <1>1, <2>2 DEF CreateStaging, Try, ServiceNext
  <2>3. CASE HeartbeatRenews(w)
    BY <1>1, <2>3 DEF HeartbeatRenews, ServiceNext
  <2>4. CASE Emit(w)
    <3>1. Reported(w) \in Leased
      BY <2>4, PipelineAssumption DEF Emit, Reported, TypeOK, Leased
    <3>2. transition(j, sink[w], Reported(w)) => ServiceNext
      BY <3>1 DEF ServiceNext, transition
    <3> QED
      BY <1>1, <2>4, <3>2 DEF Emit
  <2>5. CASE EmitProgress(w)
    <3>1. Reported(w) \in Executing /\ sink[w] \in Executing
      BY <2>0, <2>5, PipelineAssumption
         DEF EmitProgress, Reported, TypeOK, WorkerInv
    <3>2. \E s \in Executing \cup {jobs[j].stage}, b \in Executing \cup {newest[j]} :
            update_progress(j, s, b)
      BY <1>1, <2>5, <3>1 DEF EmitProgress
    <3> QED
      BY <3>2 DEF ServiceNext
  <2>6. CASE CancelJob(w)
    BY <1>1, <2>6 DEF CancelJob, Try, cancel_job, ServiceNext
  <2>7. CASE FailJob(w)
    BY <1>1, <2>7 DEF FailJob, Try, ServiceNext
  <2>8. CASE EnterPublishing(w)
    <3>1. "PublishingRun" \in Leased
      BY DEF Leased
    <3> QED
      BY <1>1, <2>8, <3>1 DEF EnterPublishing, enter_publishing, ServiceNext
  <2>9. CASE CompleteJob(w)
    <3>1. rid[w] \in RunIds /\ complete(j, rid[w])
      BY <1>1, <2>0, <2>9 DEF CompleteJob, WorkerInv
    <3> QED
      BY <3>1 DEF ServiceNext
  <2>10. CASE Scan(w) \/ Claim(w)
    BY <2>10 DEF Scan, Claim, Try, ServiceNext
  <2>11. CASE UNCHANGED serviceVars
    BY <2>11
  <2> QED
    BY <1>1, <2>1, <2>2, <2>3, <2>4, <2>5, <2>6, <2>7, <2>8, <2>9, <2>10, <2>11
       DEF MainThread, HeartbeatThread, NoClaim, PrepareFails, PipelineEnds,
           JoinHeartbeat, CleanupStaging, EnterPublishingFails, ValidateStaged,
           RenameStaged, RenameFails, ImportRun, ImportFails, CompleteFails,
           HeartbeatStops, HeartbeatSeesCancel
<1>2. ASSUME NEW w \in Workers, MainThread(w) \/ HeartbeatThread(w)
      PROVE  [ServiceNext]_serviceVars
  <2>1. CASE cur[w] \in Jobs
    BY <1>1, <1>2, <2>1
  <2>2. CASE cur[w] \notin Jobs
    <3>1. pc[w] \notin Busy /\ hb[w] = "off"
      BY <2>2, HoldsJob
    <3>2. Scan(w) \/ Claim(w) \/ NoClaim(w)
      BY <1>2, <3>1
         DEF MainThread, HeartbeatThread, Busy, Preparing, Running, Deciding,
             Publishing, Published, RecheckScope, CreateStaging, PrepareFails,
             Emit, EmitProgress, PipelineEnds, JoinHeartbeat, CancelJob, FailJob,
             CleanupStaging, EnterPublishing, EnterPublishingFails,
             ValidateStaged, RenameStaged, RenameFails, ImportRun, ImportFails,
             CompleteJob, CompleteFails, HeartbeatRenews, HeartbeatStops,
             HeartbeatSeesCancel
    <3> QED
      BY <3>2 DEF Scan, Claim, NoClaim, Try, ServiceNext
  <2> QED
    BY <2>1, <2>2
<1>3. ASSUME NEW w \in Workers, Start(w) \/ Crash(w)
      PROVE  [ServiceNext]_serviceVars
  BY <1>3 DEF Start, Crash
<1>4. CASE Requests
  BY <1>4 DEF Requests, QueuePlan, JobCancel, JobRetry, Audit, TimePasses,
              ServiceNext
<1>5. ASSUME NEW j \in Jobs, Cleanup(j) PROVE [ServiceNext]_serviceVars
  BY <1>5 DEF Cleanup
<1>6. CASE UNCHANGED vars
  BY <1>6 DEF vars
<1> QED
  BY <1>2, <1>3, <1>4, <1>5, <1>6 DEF Next

\* The variables of the workers and the files keep their types.
LEMMA WorkerTypeStep ==
  ASSUME TypeOK, Inv, [Next]_vars, ServiceTypeOK'
  PROVE  TypeOK'
<1> USE DEF TypeOK, Goto, Stay, Return
<1>1. ASSUME NEW w \in Workers,
             \/ Start(w) \/ Scan(w) \/ Claim(w) \/ NoClaim(w) \/ RecheckScope(w)
             \/ PrepareFails(w) \/ CancelJob(w) \/ FailJob(w)
             \/ EnterPublishing(w) \/ EnterPublishingFails(w)
             \/ ValidateStaged(w) \/ ImportFails(w)
             \/ CompleteJob(w) \/ CompleteFails(w)
      PROVE  TypeOK'
  BY <1>1, ZenonT(60)
     DEF Start, Scan, Claim, NoClaim, RecheckScope, PrepareFails, CancelJob,
         FailJob, EnterPublishing, EnterPublishingFails, ValidateStaged,
         ImportFails, CompleteJob, CompleteFails, fileVars, PC, Busy, Preparing,
         Running, Deciding, Publishing, Published
<1>2. ASSUME NEW w \in Workers,
             \/ CreateStaging(w) \/ PipelineEnds(w) \/ CleanupStaging(w)
             \/ RenameStaged(w) \/ RenameFails(w)
      PROVE  TypeOK'
  <2>0. CASE CreateStaging(w)
    <3>1. pc' \in [Workers -> PC] /\ hb' \in [Workers -> {"off", "beating", "stopped"}]
      BY <2>0 DEF CreateStaging, PC, Busy, Running
    <3>2. staging' \in [Jobs -> {"none", "partial", "valid", "invalid", "empty"}]
      BY <2>0 DEF CreateStaging
    <3>3. started' \in [Jobs -> Seconds \cup {NoSecond}]
      BY <2>0 DEF CreateStaging
    <3> QED
      BY <2>0, <3>1, <3>2, <3>3 DEF CreateStaging
  <2>1. CASE PipelineEnds(w)
    <3>0. {"join_ok", "join_failed", "join_cancelled"} \subseteq PC
      BY DEF PC, Busy, Running
    <3>1. pc' \in [Workers -> PC]
      BY <2>1, <3>0 DEF PipelineEnds
    <3>2. staging' \in [Jobs -> {"none", "partial", "valid", "invalid", "empty"}]
      BY <2>1 DEF PipelineEnds
    <3> QED
      BY <2>1, <3>1, <3>2 DEF PipelineEnds
  <2>2. CASE CleanupStaging(w)
    BY <2>2 DEF CleanupStaging, PC
  <2>3. CASE RenameStaged(w)
    BY <2>3 DEF RenameStaged, PC, Busy, Publishing
  <2>4. CASE RenameFails(w)
    BY <2>4 DEF RenameFails, PC, Busy, Deciding
  <2> QED
    BY <1>2, <2>0, <2>1, <2>2, <2>3, <2>4
<1>3. ASSUME NEW w \in Workers, HeartbeatThread(w)
      PROVE  TypeOK'
  BY <1>3 DEF HeartbeatThread, HeartbeatRenews, HeartbeatStops,
              HeartbeatSeesCancel, workerVars, fileVars
<1>4. ASSUME NEW w \in Workers, Emit(w) \/ EmitProgress(w)
      PROVE  TypeOK'
  <2>0. WorkerInv(w) /\ Len(PipelineStages) \in Nat
    BY PipelineAssumption DEF Inv
  <2>1. step[w] < Len(PipelineStages)
    BY <1>4, <2>0 DEF Emit, EmitProgress, WorkerInv
  <2>2. Reported(w) \in Executing
    BY <2>1, PipelineAssumption DEF Reported
  <2>3. step[w] + 1 \in 0..Len(PipelineStages)
    BY <2>0, <2>1
  <2> QED
    BY <1>4, <2>2, <2>3
       DEF Emit, EmitProgress, fileVars, PC, Busy, Running
<1>5. ASSUME NEW w \in Workers, JoinHeartbeat(w) \/ Crash(w)
      PROVE  TypeOK'
  <2>1. 0 \in 0..Len(PipelineStages) /\ "Claimed" \in Executing
    BY PipelineAssumption DEF Executing
  <2>2. CASE JoinHeartbeat(w)
    BY <2>1, <2>2 DEF JoinHeartbeat, fileVars, PC, Busy, Deciding
  <2>3. CASE Crash(w)
    <3>1. crashes' \in 0..MaxCrashes
      BY <2>3, CrashAssumption DEF Crash
    <3> QED
      BY <2>1, <2>3, <3>1 DEF Crash, fileVars, PC
  <2> QED
    BY <1>5, <2>2, <2>3
<1>6. ASSUME NEW w \in Workers, ImportRun(w)
      PROVE  TypeOK'
  <2>1. cur[w] \in Jobs
    BY <1>6, HoldsJob DEF ImportRun, Busy, Publishing
  <2>2. PICK r \in RunIds : insert_run(cur[w], r) /\ rid' = [rid EXCEPT ![w] = r]
    BY <1>6 DEF ImportRun
  <2>3. /\ jobs[cur[w]].plan \in Plans \cup {NoPlan}
        /\ started[cur[w]] \in Seconds \cup {NoSecond}
        /\ runs[r] \in RunRows
    BY <2>1 DEF ServiceTypeOK, Rows
  <2>4. /\ [runs[r] EXCEPT !.jobs = runs[r].jobs \cup {cur[w]}] \in RunRows
        /\ [plan |-> jobs[cur[w]].plan, started_at |-> started[cur[w]],
            jobs |-> {cur[w]}] \in RunRows
    BY <2>1, <2>3 DEF RunRows
  <2>5. \E row \in RunRows : runs' = [runs EXCEPT ![r] = row]
    <3>1. CASE runs' = [runs EXCEPT ![r].jobs = @ \cup {cur[w]}]
      <4>1. runs' = [runs EXCEPT ![r] = [runs[r] EXCEPT !.jobs = runs[r].jobs \cup {cur[w]}]]
        BY <3>1
      <4> QED
        BY <2>4, <4>1
    <3> QED
      BY <2>2, <2>4, <3>1 DEF insert_run
  <2>6. runs' \in [RunIds -> RunRows]
    BY <2>5
  <2> QED
    BY <1>6, <2>2, <2>6 DEF ImportRun, fileVars, PC, Busy, Published
<1>7. CASE Requests
  BY <1>7 DEF Requests, QueuePlan, JobCancel, JobRetry, Audit, TimePasses,
              Outside, workerVars, fileVars
<1>8. ASSUME NEW j \in Jobs, Cleanup(j) PROVE TypeOK'
  BY <1>8 DEF Cleanup, workerVars
<1>9. CASE UNCHANGED vars
  BY <1>9 DEF vars, workerVars, fileVars
<1> QED
  BY <1>1, <1>2, <1>3, <1>4, <1>5, <1>6, <1>7, <1>8, <1>9 DEF Next, MainThread

\* TypeOK and Inv together are inductive.
LEMMA Induction == Spec => [](TypeOK /\ Inv)
<1>1. Init => TypeOK /\ Inv
  <2> SUFFICES ASSUME Init PROVE TypeOK /\ Inv
    OBVIOUS
  <2> USE DEF Init
  <2>1. ServiceTypeOK
    BY NullsAssumption
       DEF ServiceInit, ServiceTypeOK, Rows, NoRow, NoStage
  <2>2. 0 \in 0..Len(PipelineStages) /\ "Claimed" \in Executing /\ 0 \in 0..MaxCrashes
    BY PipelineAssumption, CrashAssumption DEF Executing
  <2>3. TypeOK
    BY <2>1, <2>2 DEF TypeOK, PC, NoRunRow, RunRows
  <2>4. \A w \in Workers : WorkerInv(w)
    BY DEF WorkerInv, Busy, Preparing, Running, Deciding, Publishing, Published
  <2>5. \A j \in Jobs : JobInv(j)
    BY DEF ServiceInit, JobInv, State, NoRow
  <2>6. \A r \in RunIds : RunInv(r)
    BY DEF RunInv, NoRunRow
  <2> QED
    BY <2>3, <2>4, <2>5, <2>6 DEF Inv
<1>2. TypeOK /\ Inv /\ [Next]_vars => (TypeOK /\ Inv)'
  <2> SUFFICES ASSUME TypeOK, Inv, [Next]_vars PROVE TypeOK' /\ Inv'
    OBVIOUS
  <2>1. ServiceTypeOK'
    BY ServiceStep, TypeStep DEF TypeOK
  <2> QED
    BY <2>1, WorkerTypeStep, InvStep
<1> QED
  BY <1>1, <1>2, PTL DEF Spec

\* Every variable keeps its type (the tables, the workers, the directories).
THEOREM TypeCorrect == Spec => []TypeOK
BY Induction, PTL

\* What each worker relies on at each step of execute_one and publish holds
\* whatever the others do in between.
THEOREM StepsAreSafe == Spec => []Inv
BY Induction, PTL

\* Workers, handlers and commands use the service as it means to be used:
\* the composed system implements the service's own specification, so all
\* that is proved of the service holds of its tables.
THEOREM ImplementsService == Spec => ServiceSpec
<1>1. Init => ServiceInit
  BY DEF Init
<1>2. TypeOK /\ Inv /\ [Next]_vars => [ServiceNext]_serviceVars
  BY ServiceStep
<1> QED
  BY <1>1, <1>2, Induction, PTL DEF Spec, ServiceSpec

\* A job is worked on by one worker at a time (claim_next, never resumed).
THEOREM ClaimsAreExclusive == Spec => []ClaimExclusive
<1>1. Inv => ClaimExclusive
  BY Exclusive DEF ClaimExclusive
<1> QED
  BY <1>1, Induction, PTL

\* No run is published after an accepted cancellation, wherever the request
\* falls between enter_publishing, the rename and the import (request_cancel).
THEOREM CancellationIsFinal == Spec => []NoRunAfterCancel
<1>1. Inv => NoRunAfterCancel
  BY DEF Inv, RunInv, RunOf, NoRunAfterCancel
<1> QED
  BY <1>1, Induction, PTL

\* A job links a run exactly when it is completed; a run holds the artifacts of the
\* jobs of one plan that started in one second, each of them publishing when they
\* came in; a job's artifacts are in one run at most, were validated and lie in
\* their final directory (publish_staged_run, insert_run, complete).
THEOREM PublicationIsSafe ==
  Spec => [](CompletedLinksItsRun /\ OneRunPerJob /\ RunsHaveValidArtifacts)
<1>1. ASSUME Inv
      PROVE  CompletedLinksItsRun /\ OneRunPerJob /\ RunsHaveValidArtifacts
  <2>1. OneRunPerJob
    BY <1>1 DEF Inv, RunInv, RunOf, OneRunPerJob
  <2>2. CompletedLinksItsRun
    BY <1>1 DEF Inv, JobInv, RunInv, RunOf, CompletedLinksItsRun
  <2>3. RunsHaveValidArtifacts
    BY <1>1 DEF Inv, RunInv, RunOf, RunsHaveValidArtifacts
  <2> QED BY <2>1, <2>2, <2>3
<1> QED
  BY <1>1, Induction, PTL

\* The private copy of the state in the sink never disagrees with the row of a job
\* that is still executing (DbSink.transition_to).
THEOREM SinkIsCurrent == Spec => []SinkAgreesWithRow
<1>1. Inv => SinkAgreesWithRow
  BY DEF Inv, WorkerInv, SinkAgreesWithRow
<1> QED
  BY <1>1, Induction, PTL

\* The newest event of a queued, completed or cancelled job names that state: no
\* progress event of a worker lands after it (DbSink, append_event).  Nothing is
\* claimed of a failed job: a worker that lost its lease goes on reporting to it.
THEOREM TimelineIsFinal == Spec => []TimelineEndsWithState
<1>1. Inv => TimelineEndsWithState
  BY DEF Inv, JobInv, TimelineEndsWithState
<1> QED
  BY <1>1, Induction, PTL

\* Nobody takes the staging directory of an active job away (cleanup, execute_one).
THEOREM StagingIsKept == Spec => []ActiveStagingKept
<1>1. Inv => ActiveStagingKept
  BY DEF Inv, WorkerInv, JobInv, ActiveStagingKept
<1> QED
  BY <1>1, Induction, PTL

=============================================================================
