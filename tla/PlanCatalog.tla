---------------------------- MODULE PlanCatalog ----------------------------
(***************************************************************************)
(* How reviewed manifests become plans, jobs and runs of the catalog: the  *)
(* import of manifests and run output from the repository                  *)
(* (catalog/import.rs), the plan form of the web server                    *)
(* (web/jobs_view.rs), the import of the ticket corpus                     *)
(* (corpus_import.rs), queueing and publication.  Rows are found again by  *)
(* their contents (store.rs): a manifest by its text, a plan by its        *)
(* payload, which holds only some fields of the manifest, a run by its     *)
(* plan and start.                                                         *)
(*                                                                         *)
(* A row is named by its position in its table.  A manifest is its ticket, *)
(* its revision number, its origin ASNs, whether its transit predicate was *)
(* reviewed, and the rest (window, collectors, predicate, notes) as one    *)
(* value.  Two runs of a plan never start at the same time.                *)
(*                                                                         *)
(* An import reads the files one by one inside one transaction.  Nobody    *)
(* else writes the catalog meanwhile, but files may change.                *)
(***************************************************************************)
EXTENDS Naturals, Sequences

CONSTANTS Tickets,          \* numbered in the order of their file names
          Corpus,           \* tickets of the corpus
          Manifests,        \* what reviewers may put into a manifest file
          Forms,            \* what may be entered into the plan form
          Keep,             \* a field of the form that is left empty
          Outputs,          \* contents of an output directory
          Nothing,          \* no file, no output, no edit or import under way
          OutOfScope(_),    \* project scope excludes the manifest
          Importable(_),    \* import_one accepts the manifest
          Supported(_),     \* report schema of an output can be imported
          MaxInputs,        \* bound on files written and forms sent
          MaxJobs

ASSUME TicketsAreNumbers == Tickets \subseteq Nat
ASSUME CorpusIsTickets == Corpus \subseteq Tickets
ASSUME BoundsAreNaturals == {MaxInputs, MaxJobs} \subseteq Nat

\* Manifests, from files or from the form.
Origins == {m.origins : m \in Manifests} \cup ({f.origins : f \in Forms} \ {Keep})
Details == {m.detail : m \in Manifests} \cup ({f.detail : f \in Forms} \ {Keep})
Bodies == [ticket : Tickets, rev : Nat, origins : Origins, ready : BOOLEAN, detail : Details]

ASSUME InputsTyped ==
  /\ Manifests \subseteq Bodies
  /\ \A o \in Outputs : o.ticket \in Tickets
  /\ Nothing \notin Manifests \cup Outputs \cup [manifest : Nat, free : BOOLEAN]

VARIABLES disk,       \* manifests/: the manifest file of a ticket
          out,        \* out/: run output of a ticket
          cat,        \* tables of the catalog
          tx,         \* the import under way: its transaction, files still to read
          edit,       \* manifest row whose plan the form handler is about to insert
          jobs,       \* analysis_jobs: plan and state
          steady,     \* history: no file has changed during the import under way
          imported,   \* history: the files are those of the last import
          reviewed,   \* history: manifests that imports have read from files
          cut,        \* history: manifest rows whose edit was cut off
          inputs

fileVars == << disk, out, steady >>
formVars == << edit, cut >>
vars == << fileVars, formVars, cat, tx, jobs, imported, reviewed, inputs >>

EmptyCatalog == [events |-> << >>, snapshots |-> {}, manifests |-> << >>,
                 plans |-> << >>, runs |-> << >>]

Active == {"Queued"}

\* Manifest of a plan row: manifest_payload_for_plan.
manifest_payload_for_plan(c, p) == c.manifests[c.plans[p].manifest].body

-----------------------------------------------------------------------------
(* store.rs                                                                *)

\* The table with a row unless one is found; and which it is then.
Insert(table, found, row) == IF found = {} THEN Append(table, row) ELSE table
IdOf(found) == CHOOSE i \in found : TRUE

SameEvents(c, e) == {i \in DOMAIN c.events : c.events[i] = e}
upsert_event(c, e) == [c EXCEPT !.events = Insert(@, SameEvents(c, e), e)]
EventId(c, e) == IdOf(SameEvents(c, e))

insert_snapshot(c, s) == [c EXCEPT !.snapshots = @ \cup {s}]

\* By the text, whatever the event.
SameManifests(c, row) == {i \in DOMAIN c.manifests : c.manifests[i].body = row.body}
insert_manifest_revision(c, row) ==
  [c EXCEPT !.manifests = Insert(@, SameManifests(c, row), row)]
ManifestId(c, row) == IdOf(SameManifests(c, row))

\* By the payload; the manifest of a plan that is found stays.
SamePlans(c, row) == {i \in DOMAIN c.plans : c.plans[i].body = row.body}
insert_plan(c, row) == [c EXCEPT !.plans = Insert(@, SamePlans(c, row), row)]
PlanId(c, row) == IdOf(SamePlans(c, row))

\* The same with a row for every insert.
SameRun_never(x, row) == FALSE

SameRun(x, row) == x.plan = row.plan /\ x.started = row.started
SameRuns(c, row) == {i \in DOMAIN c.runs : SameRun(c.runs[i], row)}

\* insert_run and the rows that go with it.
insert_run(c, row) == [c EXCEPT !.runs = Insert(@, SameRuns(c, row), row)]

-----------------------------------------------------------------------------
(* build_plan_record                                                       *)

\* The same for origins that nobody has reviewed.
BlockReason_unreviewed(m, origins_reviewed) ==
  IF m.origins = {} THEN "MissingReviewedEntityMapping"
  ELSE IF ~m.ready THEN "MissingReviewedTransitPredicate" ELSE "None"

BlockReason(m, origins_reviewed) ==
  IF ~origins_reviewed /\ m.origins # {} THEN "OriginMappingNeedsReview"
  ELSE IF m.origins = {} THEN "MissingReviewedEntityMapping"
  ELSE IF ~m.ready THEN "MissingReviewedTransitPredicate" ELSE "None"

\* The same without the revision.
PlanBody_unnumbered(m, reason) ==
  [ticket |-> m.ticket, rev |-> 0, origins |-> m.origins, ready |-> m.ready,
   reason |-> reason]

\* The payload of a plan: window, collectors and predicate are not in it.
PlanBody(m, reason) ==
  [ticket |-> m.ticket, rev |-> m.rev, origins |-> m.origins, ready |-> m.ready,
   reason |-> reason]

build_plan_record(id, m, origins_reviewed) ==
  LET reason == BlockReason(m, origins_reviewed) IN
    [manifest |-> id, body |-> PlanBody(m, reason),
     status |-> IF reason = "None" THEN "Ready" ELSE "Blocked"]

-----------------------------------------------------------------------------
(* Import of the repository                                                *)

\* The snapshot when no reviewed one is on disk is derived from the manifest.
Snapshot(e, m) == << e, m.ticket, m.origins, m.detail >>

ReviewStatus(m) == IF m.ready THEN "Reviewed" ELSE "Unresolved"

\* The same with nothing compared.
Conflicts_ignored(c, run) == FALSE

\* An artifact of a run that is there has other contents now.
Conflicts(c, run) ==
  \E i \in SameRuns(c, run) :
    \E p \in DOMAIN c.runs[i].files \cap DOMAIN run.files :
      c.runs[i].files[p] # run.files[p]

\* import_one up to the plan.
ImportPlan(c, m) ==
  LET c1 == upsert_event(c, <<"local-repository", m.ticket>>)
      e == EventId(c1, <<"local-repository", m.ticket>>)
      c2 == insert_snapshot(c1, Snapshot(e, m))
      row == [event |-> e, body |-> m, snapshot |-> Snapshot(e, m),
              review |-> ReviewStatus(m)]
      c3 == insert_manifest_revision(c2, row)
      plan == build_plan_record(ManifestId(c3, row), m, TRUE)
      c4 == insert_plan(c3, plan)
  IN [cat |-> c4, plan |-> PlanId(c4, plan)]

Failed(c) == [ok |-> FALSE, cat |-> c]
Succeeded(c) == [ok |-> TRUE, cat |-> c]

import_one(c, m, o) ==
  LET p == ImportPlan(c, m)
      run == [plan |-> p.plan, started |-> o.at, files |-> o.files]
  IN CASE ~Importable(m) -> Failed(c)
       [] Importable(m) /\ o = Nothing -> Succeeded(p.cat)
       [] OTHER -> IF ~Supported(o) \/ Conflicts(p.cat, run) THEN Failed(c)
                   ELSE Succeeded(insert_run(p.cat, run))

\* import_repository_scoped: the directory is listed, then the files are read in
\* order, in one transaction.
BeginImport ==
  /\ tx = Nothing
  /\ tx' = [cat |-> cat, todo |-> {t \in Tickets : disk[t] # Nothing}]
  /\ steady' = TRUE
  /\ UNCHANGED << disk, out, formVars, cat, jobs, imported, reviewed, inputs >>

ImportFile(t) ==
  LET result == IF OutOfScope(disk[t]) THEN Succeeded(tx.cat)
                ELSE import_one(tx.cat, disk[t], out[t])
  IN /\ \A u \in tx.todo : t <= u
     /\ result.ok
     /\ tx' = [cat |-> result.cat, todo |-> tx.todo \ {t}]
     /\ reviewed' = reviewed \cup {disk[t]}
     /\ UNCHANGED << fileVars, formVars, cat, jobs, imported, inputs >>

CommitImport ==
  /\ tx # Nothing
  /\ tx.todo = {}
  /\ cat' = tx.cat
  /\ tx' = Nothing
  /\ imported' = steady /\ steady' = FALSE
  /\ UNCHANGED << disk, out, formVars, jobs, reviewed, inputs >>

\* A file is refused, or the process dies: nothing of the import is kept.
ImportFails ==
  /\ tx # Nothing
  /\ tx' = Nothing
  /\ steady' = FALSE
  /\ UNCHANGED << disk, out, formVars, cat, jobs, imported, reviewed, inputs >>

\* import_corpus, for one ticket: not again when the ticket has a plan that is
\* ready, under whatever source.
ImportCorpus(t) ==
  LET ready == \E p \in DOMAIN cat.plans :
                 /\ cat.plans[p].status = "Ready"
                 /\ cat.events[cat.manifests[cat.plans[p].manifest].event][2] = t
      event == <<"grnoc-public-task-viewer", t>>
      c1 == upsert_event(cat, event)
  IN /\ tx = Nothing
     /\ ~ready
     /\ cat' = insert_snapshot(c1, << EventId(c1, event), t >>)
     /\ UNCHANGED << fileVars, formVars, tx, jobs, imported, reviewed, inputs >>

-----------------------------------------------------------------------------
(* The plan form                                                           *)

Latest(ids) == CHOOSE i \in ids : \A j \in ids : j <= i

ManifestsOf(e) == {i \in DOMAIN cat.manifests : cat.manifests[i].event = e}
PlansOf(e) == {p \in DOMAIN cat.plans : cat.plans[p].manifest \in ManifestsOf(e)}

HasActiveJob(p) == \E j \in DOMAIN jobs : jobs[j].plan = p /\ jobs[j].state \in Active

\* The latest manifest of the event with the form's fields and the next revision.
Edited(m, form) ==
  [m EXCEPT !.rev = @ + 1,
            !.origins = IF form.origins = Keep THEN @ ELSE form.origins,
            !.detail = IF form.detail = Keep THEN @ ELSE form.detail]

\* edit_plan_revision up to its first insert.  The event is any with the
\* ticket's number; one without a manifest is refused.
EditManifest(e, form) ==
  /\ tx = Nothing
  /\ edit = Nothing
  /\ inputs < MaxInputs
  /\ ManifestsOf(e) # {}
  /\ PlansOf(e) # {} => ~HasActiveJob(Latest(PlansOf(e)))
  /\ LET old == cat.manifests[Latest(ManifestsOf(e))]
         m == Edited(old.body, form)
         free == form.origins # Keep
         row == [event |-> e, body |-> m, snapshot |-> old.snapshot,
                 review |-> IF free THEN "NeedsReview" ELSE ReviewStatus(m)]
         c1 == insert_manifest_revision(cat, row)
     IN /\ cat' = c1
        /\ edit' = [manifest |-> ManifestId(c1, row), free |-> free]
  /\ inputs' = inputs + 1
  /\ UNCHANGED << fileVars, cut, tx, jobs, imported, reviewed >>

\* Its second insert, in a transaction of its own.
EditPlan ==
  /\ tx = Nothing
  /\ edit # Nothing
  /\ cat' = insert_plan(cat, build_plan_record(edit.manifest,
                                               cat.manifests[edit.manifest].body,
                                               ~edit.free))
  /\ edit' = Nothing
  /\ UNCHANGED << fileVars, cut, tx, jobs, imported, reviewed, inputs >>

\* The server dies, or the second insert fails.
EditLost ==
  /\ edit # Nothing
  /\ edit' = Nothing
  /\ cut' = cut \cup {edit.manifest}
  /\ UNCHANGED << fileVars, cat, tx, jobs, imported, reviewed, inputs >>

-----------------------------------------------------------------------------
(* Jobs                                                                    *)

\* validate_plan_for_queue looks at the manifest, queue at the stored status; a
\* plan with an active job gets no second one.
Queue(p) ==
  LET m == manifest_payload_for_plan(cat, p) IN
    /\ tx = Nothing
    /\ Len(jobs) < MaxJobs
    /\ ~OutOfScope(m) /\ m.origins # {} /\ m.ready
    /\ cat.plans[p].status = "Ready"
    /\ ~HasActiveJob(p)
    /\ jobs' = Append(jobs, [plan |-> p, state |-> "Queued"])
    /\ UNCHANGED << fileVars, formVars, cat, tx, imported, reviewed, inputs >>

\* import_finalized_run, with files of the job's own directory, and the job is
\* completed.
Publish(j) ==
  /\ tx = Nothing
  /\ jobs[j].state \in Active
  /\ cat' = insert_run(cat, [plan |-> jobs[j].plan, started |-> <<"job", j>>,
                             files |-> << j >>])
  /\ jobs' = [jobs EXCEPT ![j].state = "Completed"]
  /\ UNCHANGED << fileVars, formVars, tx, imported, reviewed, inputs >>

\* A job that fails or is cancelled.
EndJob(j) ==
  /\ tx = Nothing
  /\ jobs[j].state \in Active
  /\ jobs' = [jobs EXCEPT ![j].state = "Failed"]
  /\ UNCHANGED << fileVars, formVars, cat, tx, imported, reviewed, inputs >>

-----------------------------------------------------------------------------
(* Files                                                                   *)

\* A reviewer writes a manifest file.
WriteManifest(m) ==
  /\ inputs < MaxInputs
  /\ disk' = [disk EXCEPT ![m.ticket] = m]
  /\ inputs' = inputs + 1
  /\ steady' = FALSE /\ imported' = FALSE
  /\ UNCHANGED << out, formVars, cat, tx, jobs, reviewed >>

\* An analysis outside the job queue writes, or overwrites, its output.
WriteOutput(o) ==
  /\ inputs < MaxInputs
  /\ out' = [out EXCEPT ![o.ticket] = o]
  /\ inputs' = inputs + 1
  /\ steady' = FALSE /\ imported' = FALSE
  /\ UNCHANGED << disk, formVars, cat, tx, jobs, reviewed >>

Init ==
  /\ disk = [t \in Tickets |-> Nothing]
  /\ out = [t \in Tickets |-> Nothing]
  /\ cat = EmptyCatalog
  /\ tx = Nothing
  /\ edit = Nothing
  /\ jobs = << >>
  /\ steady = FALSE
  /\ imported = FALSE
  /\ reviewed = {}
  /\ cut = {}
  /\ inputs = 0

Next ==
  \/ \E m \in Manifests : WriteManifest(m)
  \/ \E o \in Outputs : WriteOutput(o)
  \/ BeginImport \/ CommitImport \/ ImportFails
  \/ tx # Nothing /\ \E t \in tx.todo : ImportFile(t)
  \/ \E t \in Corpus : ImportCorpus(t)
  \/ \E e \in DOMAIN cat.events, form \in Forms : EditManifest(e, form)
  \/ EditPlan \/ EditLost
  \/ \E p \in DOMAIN cat.plans : Queue(p)
  \/ \E j \in DOMAIN jobs : EndJob(j) \/ Publish(j)

Spec == Init /\ [][Next]_vars

-----------------------------------------------------------------------------
(* Properties                                                              *)

EventRows == {"local-repository", "grnoc-public-task-viewer"} \X Tickets
Snapshots == (Nat \X Tickets \X Origins \X Details) \cup (Nat \X Tickets)
ManifestRows == [event : Nat, body : Bodies, snapshot : Snapshots,
                 review : {"Reviewed", "Unresolved", "NeedsReview"}]
Reasons == {"None", "OriginMappingNeedsReview", "MissingReviewedEntityMapping",
            "MissingReviewedTransitPredicate"}
PlanRows == [manifest : Nat, status : {"Ready", "Blocked"},
             body : [ticket : Tickets, rev : Nat, origins : Origins, ready : BOOLEAN,
                     reason : Reasons]]
RunRows == [plan : Nat, started : {o.at : o \in Outputs} \cup ({"job"} \X Nat),
            files : {o.files : o \in Outputs} \cup Seq(Nat)]
Catalogs == [events : Seq(EventRows), snapshots : SUBSET Snapshots,
             manifests : Seq(ManifestRows), plans : Seq(PlanRows), runs : Seq(RunRows)]

\* The tables refer to rows that are there, no two rows have the same key, and a plan
\* says what the manifest it names says.
CatalogOK(c) ==
  /\ c \in Catalogs
  /\ \A i \in DOMAIN c.manifests :
       c.manifests[i].event \in DOMAIN c.events /\ c.manifests[i].snapshot \in c.snapshots
  /\ \A p \in DOMAIN c.plans :
       /\ c.plans[p].manifest \in DOMAIN c.manifests
       /\ c.plans[p].body = PlanBody(manifest_payload_for_plan(c, p), c.plans[p].body.reason)
       /\ c.plans[p].status = "Ready" <=> c.plans[p].body.reason = "None"
  /\ \A r \in DOMAIN c.runs : c.runs[r].plan \in DOMAIN c.plans
  /\ \A i, k \in DOMAIN c.events : c.events[i] = c.events[k] => i = k
  /\ \A i, k \in DOMAIN c.manifests : c.manifests[i].body = c.manifests[k].body => i = k
  /\ \A p, q \in DOMAIN c.plans : c.plans[p].body = c.plans[q].body => p = q
  /\ \A r, s \in DOMAIN c.runs : SameRun(c.runs[r], c.runs[s]) => r = s

\* Every variable keeps its type, the catalog and the open transaction included.
TypeOK ==
  /\ disk \in [Tickets -> Manifests \cup {Nothing}]
  /\ out \in [Tickets -> Outputs \cup {Nothing}]
  /\ CatalogOK(cat)
  /\ tx # Nothing => /\ DOMAIN tx = {"cat", "todo"}
                     /\ CatalogOK(tx.cat)
                     /\ tx.todo \subseteq {t \in Tickets : disk[t] # Nothing}
  /\ edit # Nothing => edit \in [manifest : DOMAIN cat.manifests, free : BOOLEAN]
  /\ jobs \in Seq([plan : Nat, state : {"Queued", "Completed", "Failed"}])
  /\ \A j \in DOMAIN jobs : jobs[j].plan \in DOMAIN cat.plans
  /\ {steady, imported} \subseteq BOOLEAN
  /\ reviewed \subseteq Manifests
  /\ cut \subseteq DOMAIN cat.manifests
  /\ inputs \in 0 .. MaxInputs

\* Importing files that were imported before succeeds and changes nothing,
\* whatever the form, the corpus import and the jobs did in between.
ReimportChangesNothing ==
  imported =>
    \A t \in Tickets :
      disk[t] # Nothing /\ ~OutOfScope(disk[t]) =>
        import_one(cat, disk[t], out[t]) = Succeeded(cat)

\* After an import the runs of the catalog hold no other contents than the
\* files on disk: a conflicting artifact rejects the import, also when the run
\* is there already.
EvidenceMatchesOutput ==
  imported =>
    \A t \in Tickets :
      disk[t] # Nothing /\ ~OutOfScope(disk[t]) /\ out[t] # Nothing =>
        \A r \in DOMAIN cat.runs :
          LET run == cat.runs[r] IN
            /\ cat.plans[run.plan].body = PlanBody(disk[t], BlockReason(disk[t], TRUE))
            /\ run.started = out[t].at
            => \A p \in DOMAIN run.files \cap DOMAIN out[t].files :
                 run.files[p] = out[t].files[p]

\* A row whose origins another revision had before it.
Carried(c, i) ==
  \E k \in DOMAIN c.manifests :
    LET old == c.manifests[k].body
        new == c.manifests[i].body
    IN new.ticket = old.ticket /\ new.rev = old.rev + 1 /\ new.origins = old.origins

\* "Free-form ASN entry marks the plan NeedsReview and it cannot be queued until
\* reviewed": no job runs a manifest that was entered with origins in the form,
\* unless the same manifest was also in a reviewed file, or was entered once more
\* without touching the origins of the revision before it.
NeedsReviewNeverQueued ==
  \A j \in DOMAIN jobs :
    LET i == cat.plans[jobs[j].plan].manifest IN
      cat.manifests[i].review = "NeedsReview" =>
        cat.manifests[i].body \in reviewed \/ Carried(cat, i)

\* Revision rows with the same number, origins and predicate status.
Collide(a, b) ==
  a.ticket = b.ticket /\ a.rev = b.rev /\ a.origins = b.origins /\ a.ready = b.ready

\* Manifest revisions without a plan, other than those that have the number and
\* the origins of another one.
Planless(c) ==
  {i \in DOMAIN c.manifests :
     /\ \A p \in DOMAIN c.plans : c.plans[p].manifest # i
     /\ \A k \in DOMAIN c.manifests \ {i} : ~Collide(c.manifests[k].body, c.manifests[i].body)}

\* A manifest revision has a plan of its own, unless its edit is under way or was
\* cut off between its two transactions, or another revision has the same number
\* and origins: only then does a plan stand for a manifest it does not carry.
ManifestsHavePlans ==
  \A i \in Planless(cat) : i \in cut \/ (edit # Nothing /\ edit.manifest = i)

\* "Free-form origin ASN entry is NEVER silently reviewed": the origins of a job
\* were in a reviewed manifest file.
OriginsWereReviewed ==
  \A j \in DOMAIN jobs :
    LET m == manifest_payload_for_plan(cat, jobs[j].plan) IN
      \E r \in reviewed : r.ticket = m.ticket /\ r.origins = m.origins

\* What importing the file and the output has left: rows that make importing them
\* again a matter of finding them.
Settled(c, m, o) ==
  /\ Importable(m)
  /\ \E i \in SameEvents(c, <<"local-repository", m.ticket>>) : Snapshot(i, m) \in c.snapshots
  /\ \E i \in DOMAIN c.manifests : c.manifests[i].body = m
  /\ \E p \in DOMAIN c.plans :
       /\ c.plans[p].body = PlanBody(m, BlockReason(m, TRUE))
       /\ o # Nothing =>
            /\ Supported(o)
            /\ \E r \in DOMAIN c.runs :
                 /\ c.runs[r].plan = p /\ c.runs[r].started = o.at
                 /\ \A f \in DOMAIN c.runs[r].files \cap DOMAIN o.files :
                      c.runs[r].files[f] = o.files[f]

SettledFor(c, ts) ==
  \A t \in ts : disk[t] # Nothing /\ ~OutOfScope(disk[t]) => Settled(c, disk[t], out[t])

\* Rows are added, never changed.
Grows(c, d) ==
  /\ c.snapshots \subseteq d.snapshots
  /\ \A i \in DOMAIN c.events : i \in DOMAIN d.events /\ d.events[i] = c.events[i]
  /\ \A i \in DOMAIN c.manifests : i \in DOMAIN d.manifests /\ d.manifests[i] = c.manifests[i]
  /\ \A p \in DOMAIN c.plans : p \in DOMAIN d.plans /\ d.plans[p] = c.plans[p]
  /\ \A r \in DOMAIN c.runs : r \in DOMAIN d.runs /\ d.runs[r] = c.runs[r]

\* The import adds to the catalog it began from; what it has read, and what the last
\* one has read, is settled as long as no file changes.
ImportAgrees ==
  /\ imported => SettledFor(cat, Tickets)
  /\ tx # Nothing =>
       /\ Grows(cat, tx.cat)
       /\ Planless(tx.cat) \subseteq Planless(cat)
       /\ steady => SettledFor(tx.cat, Tickets \ tx.todo)

\* A plan that is ready is one for a reviewed file, or for a revision whose origins
\* were not entered with it.
ReadyIsReviewed(c, read) ==
  \A p \in DOMAIN c.plans :
    LET i == c.plans[p].manifest IN
      c.plans[p].status = "Ready" /\ c.manifests[i].review = "NeedsReview" =>
        c.manifests[i].body \in read \/ Carried(c, i)

\* Only ready plans are queued, and the form is about to insert a ready one only
\* for such a revision.
ReviewAgrees ==
  /\ ReadyIsReviewed(cat, reviewed)
  /\ tx # Nothing => ReadyIsReviewed(tx.cat, reviewed)
  /\ \A j \in DOMAIN jobs : cat.plans[jobs[j].plan].status = "Ready"
  /\ edit # Nothing /\ ~edit.free /\ cat.manifests[edit.manifest].review = "NeedsReview" =>
       Carried(cat, edit.manifest)

\* The types, every manifest revision has its plan (insert_plan), and what imports
\* and reviews have established.
Inv == TypeOK /\ ManifestsHavePlans /\ ImportAgrees /\ ReviewAgrees

====
