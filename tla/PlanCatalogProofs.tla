------------------------- MODULE PlanCatalogProofs -------------------------
(***************************************************************************)
(* Proofs about PlanCatalog.  The tables only grow and no two rows have    *)
(* the same key (CatalogOK), so a row that an import has left is found     *)
(* again by every later one: Settled is kept by whatever adds rows         *)
(* (SettledLasts), what one file's import leaves is settled                *)
(* (ImportSettles), and importing what is settled finds everything         *)
(* (SettledIsFound).                                                       *)
(***************************************************************************)
EXTENDS PlanCatalog, WellFoundedInduction, TLAPS

-----------------------------------------------------------------------------
(* Tables                                                                  *)

\* What an insert does to a table: nothing when a row was found, else one row more.
Added(s, t, found, row) ==
  \/ found # {} /\ t = s
  \/ /\ found = {}
     /\ \E n \in Nat : /\ n \notin DOMAIN s /\ DOMAIN t = DOMAIN s \cup {n}
                       /\ \A i \in DOMAIN s : t[i] = s[i]
                       /\ t[n] = row

\* The common part of the inserts of store.rs.
LEMMA InsertAdds ==
  ASSUME NEW S, NEW s \in Seq(S), NEW row \in S, NEW found
  PROVE  Insert(s, found, row) \in Seq(S) /\ Added(s, Insert(s, found, row), found, row)
<1>1. CASE found # {}
  BY <1>1 DEF Insert, Added
<1>2. CASE found = {}
  <2>1. Insert(s, found, row) = Append(s, row)
    BY <1>2 DEF Insert
  <2>2. Append(s, row) \in Seq(S) /\ Len(s) + 1 \in Nat /\ Len(s) + 1 \notin DOMAIN s
    OBVIOUS
  <2>3. DOMAIN Append(s, row) = DOMAIN s \cup {Len(s) + 1}
    OBVIOUS
  <2>4. (\A i \in DOMAIN s : Append(s, row)[i] = s[i]) /\ Append(s, row)[Len(s) + 1] = row
    OBVIOUS
  <2> QED
    BY <1>2, <2>1, <2>2, <2>3, <2>4 DEF Added
<1> QED
  BY <1>1, <1>2

\* The table of an insert holds the old rows.
LEMMA AddedKeeps ==
  ASSUME NEW s, NEW t, NEW found, NEW row, Added(s, t, found, row), found \subseteq DOMAIN s
  PROVE  /\ \A i \in DOMAIN s : i \in DOMAIN t /\ t[i] = s[i]
         /\ \A i \in DOMAIN t : i \in DOMAIN s \/ (found = {} /\ t[i] = row)
         /\ \A i, k \in DOMAIN t : i \notin DOMAIN s /\ k \notin DOMAIN s => i = k
         /\ found # {} => t = s
         /\ found = {} => \E n \in DOMAIN t : n \notin DOMAIN s /\ t[n] = row
BY DEF Added

LEMMA CatalogTypes ==
  ASSUME NEW c \in Catalogs
  PROVE  /\ c.events \in Seq(EventRows) /\ c.snapshots \subseteq Snapshots
         /\ c.manifests \in Seq(ManifestRows) /\ c.plans \in Seq(PlanRows)
         /\ c.runs \in Seq(RunRows)
BY DEF Catalogs

LEMMA RowsOfTables ==
  ASSUME NEW S, NEW s \in Seq(S), NEW i \in DOMAIN s
  PROVE  i \in Nat /\ s[i] \in S
OBVIOUS

\* Adding rows twice is adding rows.
LEMMA GrowsTransitive ==
  ASSUME NEW c, NEW d, NEW e, Grows(c, d), Grows(d, e)
  PROVE  Grows(c, e)
BY DEF Grows

LEMMA GrowsReflexive ==
  ASSUME NEW c
  PROVE  Grows(c, c)
BY DEF Grows

-----------------------------------------------------------------------------
(* The inserts of store.rs                                                 *)

\* upsert_event.
LEMMA UpsertEvent ==
  ASSUME NEW c, CatalogOK(c), NEW e \in EventRows, NEW d, d = upsert_event(c, e)
  PROVE  /\ CatalogOK(d) /\ Grows(c, d)
         /\ d.snapshots = c.snapshots /\ d.manifests = c.manifests
         /\ d.plans = c.plans /\ d.runs = c.runs
         /\ EventId(d, e) \in SameEvents(d, e)
         /\ SameEvents(c, e) # {} => d = c
<1> DEFINE found == SameEvents(c, e)
<1>1. c \in Catalogs /\ c.events \in Seq(EventRows) /\ found \subseteq DOMAIN c.events
  BY CatalogTypes DEF CatalogOK, SameEvents
<1>2. /\ Insert(c.events, found, e) \in Seq(EventRows)
      /\ Added(c.events, Insert(c.events, found, e), found, e)
  BY <1>1, InsertAdds
<1>3. d = [c EXCEPT !.events = Insert(c.events, found, e)]
  BY DEF upsert_event
<1>4. /\ d.events = Insert(c.events, found, e) /\ d.snapshots = c.snapshots
      /\ d.manifests = c.manifests /\ d.plans = c.plans /\ d.runs = c.runs
      /\ d \in Catalogs
      /\ d.events = c.events => d = c
  BY <1>1, <1>2, <1>3 DEF Catalogs
<1>5. Added(c.events, d.events, found, e)
  BY <1>2, <1>4
<1>6. /\ \A i \in DOMAIN c.events : i \in DOMAIN d.events /\ d.events[i] = c.events[i]
      /\ \A i \in DOMAIN d.events : i \in DOMAIN c.events \/ (found = {} /\ d.events[i] = e)
      /\ \A i, k \in DOMAIN d.events : i \notin DOMAIN c.events /\ k \notin DOMAIN c.events => i = k
      /\ found # {} => d.events = c.events
      /\ found = {} => \E n \in DOMAIN d.events : n \notin DOMAIN c.events /\ d.events[n] = e
  BY <1>1, <1>5, AddedKeeps
<1> HIDE DEF found
<1>7. Grows(c, d)
  BY <1>4, <1>6 DEF Grows
<1>8. \A i, k \in DOMAIN d.events : d.events[i] = d.events[k] => i = k
  BY <1>6 DEF CatalogOK, found, SameEvents
<1>9. CatalogOK(d)
  BY <1>4, <1>6, <1>8 DEF CatalogOK, manifest_payload_for_plan
<1>10. SameEvents(d, e) # {}
  BY <1>6 DEF SameEvents, found
<1>11. EventId(d, e) \in SameEvents(d, e)
  BY <1>10 DEF EventId, IdOf
<1> QED
  BY <1>4, <1>6, <1>7, <1>9, <1>11 DEF found

\* insert_snapshot.
LEMMA InsertSnapshot ==
  ASSUME NEW c, CatalogOK(c), NEW s \in Snapshots, NEW d, d = insert_snapshot(c, s)
  PROVE  /\ CatalogOK(d) /\ Grows(c, d) /\ s \in d.snapshots
         /\ d.events = c.events /\ d.manifests = c.manifests
         /\ d.plans = c.plans /\ d.runs = c.runs
         /\ s \in c.snapshots => d = c
<1>1. c \in Catalogs /\ c.snapshots \subseteq Snapshots
  BY CatalogTypes DEF CatalogOK
<1>2. PICK v \in SUBSET Snapshots : v = c.snapshots \cup {s} /\ d = [c EXCEPT !.snapshots = v]
  BY <1>1 DEF insert_snapshot
<1>3. /\ d.snapshots = v /\ d.events = c.events
      /\ d.manifests = c.manifests /\ d.plans = c.plans /\ d.runs = c.runs
      /\ d \in Catalogs
      /\ d.snapshots = c.snapshots => d = c
  BY <1>1, <1>2 DEF Catalogs
<1>4. Grows(c, d)
  BY <1>2, <1>3 DEF Grows
<1>5. CatalogOK(d)
  BY <1>2, <1>3 DEF CatalogOK, manifest_payload_for_plan
<1> QED
  BY <1>2, <1>3, <1>4, <1>5

\* insert_manifest_revision: the row it returns has the body, whoever inserted it.
LEMMA InsertManifest ==
  ASSUME NEW c, CatalogOK(c), NEW row \in ManifestRows,
         row.event \in DOMAIN c.events, row.snapshot \in c.snapshots,
         NEW d, d = insert_manifest_revision(c, row)
  PROVE  /\ CatalogOK(d) /\ Grows(c, d)
         /\ d.events = c.events /\ d.snapshots = c.snapshots
         /\ d.plans = c.plans /\ d.runs = c.runs
         /\ ManifestId(d, row) \in SameManifests(d, row)
         /\ \A i \in DOMAIN d.manifests : i \in DOMAIN c.manifests \/ i = ManifestId(d, row)
         /\ SameManifests(c, row) # {} => d = c
<1> DEFINE found == SameManifests(c, row)
<1>1. c \in Catalogs /\ c.manifests \in Seq(ManifestRows) /\ found \subseteq DOMAIN c.manifests
  BY CatalogTypes DEF CatalogOK, SameManifests
<1>2. /\ Insert(c.manifests, found, row) \in Seq(ManifestRows)
      /\ Added(c.manifests, Insert(c.manifests, found, row), found, row)
  BY <1>1, InsertAdds
<1>3. d = [c EXCEPT !.manifests = Insert(c.manifests, found, row)]
  BY DEF insert_manifest_revision
<1>4. /\ d.manifests = Insert(c.manifests, found, row) /\ d.events = c.events
      /\ d.snapshots = c.snapshots /\ d.plans = c.plans /\ d.runs = c.runs
      /\ d \in Catalogs
      /\ d.manifests = c.manifests => d = c
  BY <1>1, <1>2, <1>3 DEF Catalogs
<1>5. Added(c.manifests, d.manifests, found, row)
  BY <1>2, <1>4
<1>6. /\ \A i \in DOMAIN c.manifests : i \in DOMAIN d.manifests /\ d.manifests[i] = c.manifests[i]
      /\ \A i \in DOMAIN d.manifests :
           i \in DOMAIN c.manifests \/ (found = {} /\ d.manifests[i] = row)
      /\ \A i, k \in DOMAIN d.manifests :
           i \notin DOMAIN c.manifests /\ k \notin DOMAIN c.manifests => i = k
      /\ found # {} => d.manifests = c.manifests
      /\ found = {} => \E n \in DOMAIN d.manifests : n \notin DOMAIN c.manifests /\ d.manifests[n] = row
  BY <1>1, <1>5, AddedKeeps
<1> HIDE DEF found
<1>7. Grows(c, d)
  BY <1>4, <1>6 DEF Grows
<1>8. \A i, k \in DOMAIN d.manifests : d.manifests[i].body = d.manifests[k].body => i = k
  BY <1>6 DEF CatalogOK, found, SameManifests
<1>9. \A i \in DOMAIN d.manifests :
         d.manifests[i].event \in DOMAIN d.events /\ d.manifests[i].snapshot \in d.snapshots
  BY <1>4, <1>6 DEF CatalogOK
<1>10. CatalogOK(d)
  BY <1>4, <1>6, <1>8, <1>9 DEF CatalogOK, manifest_payload_for_plan
<1>11. SameManifests(d, row) # {}
  BY <1>6 DEF SameManifests, found
<1>12. ManifestId(d, row) \in SameManifests(d, row)
  BY <1>11 DEF ManifestId, IdOf
<1>13. \A i \in DOMAIN d.manifests : i \in DOMAIN c.manifests \/ i = ManifestId(d, row)
  BY <1>6, <1>8, <1>12 DEF SameManifests
<1> QED
  BY <1>4, <1>6, <1>7, <1>10, <1>12, <1>13 DEF found

\* insert_plan: the plan that is found or inserted has the payload.
LEMMA InsertPlan ==
  ASSUME NEW c, CatalogOK(c), NEW row \in PlanRows, row.manifest \in DOMAIN c.manifests,
         row.body = PlanBody(c.manifests[row.manifest].body, row.body.reason),
         row.status = "Ready" <=> row.body.reason = "None",
         NEW d, d = insert_plan(c, row)
  PROVE  /\ CatalogOK(d) /\ Grows(c, d)
         /\ d.events = c.events /\ d.snapshots = c.snapshots
         /\ d.manifests = c.manifests /\ d.runs = c.runs
         /\ PlanId(d, row) \in SamePlans(d, row)
         /\ \A p \in DOMAIN d.plans : p \in DOMAIN c.plans \/ d.plans[p] = row
         /\ SamePlans(c, row) # {} => d = c
<1> DEFINE found == SamePlans(c, row)
<1>1. c \in Catalogs /\ c.plans \in Seq(PlanRows) /\ found \subseteq DOMAIN c.plans
  BY CatalogTypes DEF CatalogOK, SamePlans
<1>2. /\ Insert(c.plans, found, row) \in Seq(PlanRows)
      /\ Added(c.plans, Insert(c.plans, found, row), found, row)
  BY <1>1, InsertAdds
<1>3. d = [c EXCEPT !.plans = Insert(c.plans, found, row)]
  BY DEF insert_plan
<1>4. /\ d.plans = Insert(c.plans, found, row) /\ d.events = c.events
      /\ d.snapshots = c.snapshots /\ d.manifests = c.manifests /\ d.runs = c.runs
      /\ d \in Catalogs
      /\ d.plans = c.plans => d = c
  BY <1>1, <1>2, <1>3 DEF Catalogs
<1>5. Added(c.plans, d.plans, found, row)
  BY <1>2, <1>4
<1>6. /\ \A i \in DOMAIN c.plans : i \in DOMAIN d.plans /\ d.plans[i] = c.plans[i]
      /\ \A i \in DOMAIN d.plans : i \in DOMAIN c.plans \/ (found = {} /\ d.plans[i] = row)
      /\ \A i, k \in DOMAIN d.plans : i \notin DOMAIN c.plans /\ k \notin DOMAIN c.plans => i = k
      /\ found # {} => d.plans = c.plans
      /\ found = {} => \E n \in DOMAIN d.plans : n \notin DOMAIN c.plans /\ d.plans[n] = row
  BY <1>1, <1>5, AddedKeeps
<1> HIDE DEF found
<1>7. Grows(c, d)
  BY <1>4, <1>6 DEF Grows
<1>8. \A i, k \in DOMAIN d.plans : d.plans[i].body = d.plans[k].body => i = k
  BY <1>6 DEF CatalogOK, found, SamePlans
<1>9. ASSUME NEW p \in DOMAIN d.plans
      PROVE  /\ d.plans[p].manifest \in DOMAIN d.manifests
             /\ d.plans[p].body = PlanBody(manifest_payload_for_plan(d, p), d.plans[p].body.reason)
             /\ d.plans[p].status = "Ready" <=> d.plans[p].body.reason = "None"
  <2>1. CASE p \in DOMAIN c.plans
    BY <2>1, <1>4, <1>6 DEF CatalogOK, manifest_payload_for_plan
  <2>2. CASE d.plans[p] = row
    BY <2>2, <1>4 DEF manifest_payload_for_plan
  <2> QED
    BY <1>6, <2>1, <2>2
<1>10. \A r \in DOMAIN d.runs : d.runs[r].plan \in DOMAIN d.plans
  BY <1>4, <1>6 DEF CatalogOK
<1>11. CatalogOK(d)
  BY <1>4, <1>8, <1>9, <1>10 DEF CatalogOK
<1>12. SamePlans(d, row) # {}
  BY <1>6 DEF SamePlans, found
<1>13. PlanId(d, row) \in SamePlans(d, row)
  BY <1>12 DEF PlanId, IdOf
<1> QED
  BY <1>4, <1>6, <1>7, <1>11, <1>13 DEF found

\* insert_run: a run with the plan and the start is there afterwards.
LEMMA InsertRun ==
  ASSUME NEW c, CatalogOK(c), NEW row \in RunRows, row.plan \in DOMAIN c.plans,
         NEW d, d = insert_run(c, row)
  PROVE  /\ CatalogOK(d) /\ Grows(c, d)
         /\ d.events = c.events /\ d.snapshots = c.snapshots
         /\ d.manifests = c.manifests /\ d.plans = c.plans
         /\ \E r \in DOMAIN d.runs :
              \/ d.runs[r] = row
              \/ r \in SameRuns(c, row) /\ d.runs[r] = c.runs[r]
         /\ SameRuns(c, row) # {} => d = c
<1> DEFINE found == SameRuns(c, row)
<1>1. c \in Catalogs /\ c.runs \in Seq(RunRows) /\ found \subseteq DOMAIN c.runs
  BY CatalogTypes DEF CatalogOK, SameRuns
<1>2. /\ Insert(c.runs, found, row) \in Seq(RunRows)
      /\ Added(c.runs, Insert(c.runs, found, row), found, row)
  BY <1>1, InsertAdds
<1>3. d = [c EXCEPT !.runs = Insert(c.runs, found, row)]
  BY DEF insert_run
<1>4. /\ d.runs = Insert(c.runs, found, row) /\ d.events = c.events
      /\ d.snapshots = c.snapshots /\ d.manifests = c.manifests /\ d.plans = c.plans
      /\ d \in Catalogs
      /\ d.runs = c.runs => d = c
  BY <1>1, <1>2, <1>3 DEF Catalogs
<1>5. Added(c.runs, d.runs, found, row)
  BY <1>2, <1>4
<1>6. /\ \A i \in DOMAIN c.runs : i \in DOMAIN d.runs /\ d.runs[i] = c.runs[i]
      /\ \A i \in DOMAIN d.runs : i \in DOMAIN c.runs \/ (found = {} /\ d.runs[i] = row)
      /\ \A i, k \in DOMAIN d.runs : i \notin DOMAIN c.runs /\ k \notin DOMAIN c.runs => i = k
      /\ found # {} => d.runs = c.runs
      /\ found = {} => \E n \in DOMAIN d.runs : n \notin DOMAIN c.runs /\ d.runs[n] = row
  BY <1>1, <1>5, AddedKeeps
<1> HIDE DEF found
<1>7. Grows(c, d)
  BY <1>4, <1>6 DEF Grows
<1>8. \A r, s \in DOMAIN d.runs : SameRun(d.runs[r], d.runs[s]) => r = s
  BY <1>6 DEF CatalogOK, found, SameRuns, SameRun
<1>9. \A r \in DOMAIN d.runs : d.runs[r].plan \in DOMAIN d.plans
  BY <1>4, <1>6 DEF CatalogOK
<1>10. CatalogOK(d)
  BY <1>4, <1>8, <1>9 DEF CatalogOK, manifest_payload_for_plan
<1>11. \E r \in DOMAIN d.runs :
          d.runs[r] = row \/ (r \in SameRuns(c, row) /\ d.runs[r] = c.runs[r])
  BY <1>1, <1>6 DEF found
<1> QED
  BY <1>4, <1>6, <1>7, <1>10, <1>11 DEF found

-----------------------------------------------------------------------------
(* What growing tables keep                                                *)

LEMMA CarriedLasts ==
  ASSUME NEW c, NEW d, Grows(c, d), NEW i \in DOMAIN c.manifests, Carried(c, i)
  PROVE  Carried(d, i)
BY DEF Grows, Carried

\* A revision that has no plan of its own and no revision like it had none before.
LEMMA PlanlessShrinks ==
  ASSUME NEW c, NEW d, Grows(c, d)
  PROVE  \A i \in Planless(d) : i \in DOMAIN c.manifests => i \in Planless(c)
<1> SUFFICES ASSUME NEW i \in Planless(d), i \in DOMAIN c.manifests
             PROVE  i \in Planless(c)
  OBVIOUS
<1>1. \A p \in DOMAIN c.plans : c.plans[p].manifest # i
  BY DEF Grows, Planless
<1>2. \A k \in DOMAIN c.manifests \ {i} : ~Collide(c.manifests[k].body, c.manifests[i].body)
  BY DEF Grows, Planless
<1> QED
  BY <1>1, <1>2 DEF Planless

\* Only plans that are new have to be looked at.
LEMMA ReadyLasts ==
  ASSUME NEW c, CatalogOK(c), NEW d, Grows(c, d), NEW old, NEW read, old \subseteq read,
         ReadyIsReviewed(c, old),
         \A p \in DOMAIN d.plans :
           \/ p \in DOMAIN c.plans
           \/ d.plans[p].status # "Ready"
           \/ d.manifests[d.plans[p].manifest].review # "NeedsReview"
           \/ d.manifests[d.plans[p].manifest].body \in read
           \/ Carried(d, d.plans[p].manifest)
  PROVE  ReadyIsReviewed(d, read)
<1> SUFFICES ASSUME NEW p \in DOMAIN d.plans, d.plans[p].status = "Ready",
                    d.manifests[d.plans[p].manifest].review = "NeedsReview"
             PROVE  \/ d.manifests[d.plans[p].manifest].body \in read
                    \/ Carried(d, d.plans[p].manifest)
  BY DEF ReadyIsReviewed
<1>1. CASE p \in DOMAIN c.plans
  <2>1. d.plans[p] = c.plans[p] /\ c.plans[p].manifest \in DOMAIN c.manifests
    BY <1>1 DEF Grows, CatalogOK
  <2>2. d.manifests[c.plans[p].manifest] = c.manifests[c.plans[p].manifest]
    BY <2>1 DEF Grows
  <2>3. \/ c.manifests[c.plans[p].manifest].body \in old
        \/ Carried(c, c.plans[p].manifest)
    BY <1>1, <2>1, <2>2 DEF ReadyIsReviewed
  <2> QED
    BY <2>1, <2>2, <2>3, CarriedLasts
<1> QED
  BY <1>1

\* The rows an import looks for stay.
LEMMA SettledLasts ==
  ASSUME NEW c, NEW d, Grows(c, d), CatalogOK(c), NEW m, NEW o, Settled(c, m, o)
  PROVE  Settled(d, m, o)
<1>1. PICK i \in SameEvents(c, <<"local-repository", m.ticket>>) : Snapshot(i, m) \in c.snapshots
  BY DEF Settled
<1>2. i \in SameEvents(d, <<"local-repository", m.ticket>>) /\ Snapshot(i, m) \in d.snapshots
  BY <1>1 DEF SameEvents, Grows
<1>3. \E k \in DOMAIN d.manifests : d.manifests[k].body = m
  BY DEF Settled, Grows
<1>4. PICK p \in DOMAIN c.plans :
        /\ c.plans[p].body = PlanBody(m, BlockReason(m, TRUE))
        /\ o # Nothing =>
            /\ Supported(o)
            /\ \E r \in DOMAIN c.runs :
                 /\ c.runs[r].plan = p /\ c.runs[r].started = o.at
                 /\ \A f \in DOMAIN c.runs[r].files \cap DOMAIN o.files :
                      c.runs[r].files[f] = o.files[f]
  BY DEF Settled
<1>5. p \in DOMAIN d.plans /\ d.plans[p].body = PlanBody(m, BlockReason(m, TRUE))
  BY <1>4 DEF Grows
<1>6. ASSUME o # Nothing
      PROVE  /\ Supported(o)
             /\ \E r \in DOMAIN d.runs :
                 /\ d.runs[r].plan = p /\ d.runs[r].started = o.at
                 /\ \A f \in DOMAIN d.runs[r].files \cap DOMAIN o.files :
                      d.runs[r].files[f] = o.files[f]
  BY <1>4, <1>6 DEF Grows
<1> QED
  BY <1>2, <1>3, <1>5, <1>6 DEF Settled

-----------------------------------------------------------------------------
(* Plans                                                                   *)

\* build_plan_record: a plan of a manifest row, ready only when its origins are
\* reviewed.
LEMMA PlanRecord ==
  ASSUME NEW c, CatalogOK(c), NEW id \in DOMAIN c.manifests, NEW flag \in BOOLEAN, NEW row,
         row = build_plan_record(id, c.manifests[id].body, flag)
  PROVE  /\ row \in PlanRows /\ row.manifest = id
         /\ row.body = PlanBody(c.manifests[id].body, BlockReason(c.manifests[id].body, flag))
         /\ row.body = PlanBody(c.manifests[id].body, row.body.reason)
         /\ row.status = "Ready" <=> row.body.reason = "None"
         /\ row.status = "Ready" => flag
<1> DEFINE m == c.manifests[id].body
           reason == BlockReason(m, flag)
<1>1. c.manifests \in Seq(ManifestRows)
  BY CatalogTypes DEF CatalogOK
<1>2. c.manifests[id] \in ManifestRows
  BY <1>1
<1>3. m \in Bodies /\ id \in Nat
  BY <1>1, <1>2 DEF ManifestRows
<1>4. reason \in Reasons /\ (reason = "None" => flag)
  BY DEF BlockReason, Reasons
<1>5. row = [manifest |-> id, body |-> PlanBody(m, reason),
             status |-> IF reason = "None" THEN "Ready" ELSE "Blocked"]
  BY DEF build_plan_record
<1> HIDE DEF m, reason
<1>6. PlanBody(m, reason) \in [ticket : Tickets, rev : Nat, origins : Origins, ready : BOOLEAN,
                               reason : Reasons]
  BY <1>3, <1>4 DEF PlanBody, Bodies
<1>7. PlanBody(m, reason).reason = reason
  BY DEF PlanBody
<1>8. row.manifest = id /\ row.body = PlanBody(m, reason) /\ row.body.reason = reason
  BY <1>5, <1>7
<1>9. PICK status : /\ status = (IF reason = "None" THEN "Ready" ELSE "Blocked")
                    /\ row = [manifest |-> id, body |-> PlanBody(m, reason), status |-> status]
  BY <1>5
<1>10. status \in {"Ready", "Blocked"} /\ row.status = status
  BY <1>9
<1>12. row \in PlanRows
  BY <1>3, <1>6, <1>9, <1>10 DEF PlanRows
<1>11. (row.status = "Ready" <=> row.body.reason = "None") /\ (row.status = "Ready" => flag)
  BY <1>4, <1>8, <1>9, <1>10
<1> QED
  BY <1>8, <1>11, <1>12 DEF m, reason

\* After insert_plan the manifest has a plan, or another revision has its number and
\* its origins.
LEMMA PlanIsThere ==
  ASSUME NEW c, CatalogOK(c), NEW id \in DOMAIN c.manifests, NEW flag \in BOOLEAN, NEW row,
         row = build_plan_record(id, c.manifests[id].body, flag),
         NEW d, d = insert_plan(c, row)
  PROVE  id \notin Planless(d)
<1>1. /\ row \in PlanRows /\ row.manifest = id
      /\ row.body = PlanBody(c.manifests[id].body, row.body.reason)
      /\ row.status = "Ready" <=> row.body.reason = "None"
  BY PlanRecord
<1>2. /\ CatalogOK(d) /\ d.manifests = c.manifests
      /\ PlanId(d, row) \in SamePlans(d, row)
  BY <1>1, InsertPlan
<1>3. PICK p \in DOMAIN d.plans : d.plans[p].body = row.body
  BY <1>2 DEF SamePlans
<1>4. /\ d.plans[p].manifest \in DOMAIN d.manifests
      /\ d.plans[p].body = PlanBody(d.manifests[d.plans[p].manifest].body, d.plans[p].body.reason)
  BY <1>2 DEF CatalogOK, manifest_payload_for_plan
<1>5. PICK k \in DOMAIN d.manifests :
        k = d.plans[p].manifest /\ row.body = PlanBody(d.manifests[k].body, row.body.reason)
  BY <1>3, <1>4
<1>6. PlanBody(d.manifests[k].body, row.body.reason) = PlanBody(d.manifests[id].body, row.body.reason)
  BY <1>1, <1>2, <1>5
<1>7. Collide(d.manifests[k].body, d.manifests[id].body)
  BY <1>6 DEF PlanBody, Collide
<1> QED
  BY <1>3, <1>5, <1>7 DEF Planless

-----------------------------------------------------------------------------
(* The import of one file                                                  *)

\* The rows that import_one writes before it looks at output.
LEMMA ImportPlanSettles ==
  ASSUME NEW c, CatalogOK(c), NEW m \in Bodies, NEW d, NEW q, ImportPlan(c, m) = [cat |-> d, plan |-> q]
  PROVE  /\ CatalogOK(d) /\ Grows(c, d) /\ d.runs = c.runs
         /\ \E i \in SameEvents(d, <<"local-repository", m.ticket>>) : Snapshot(i, m) \in d.snapshots
         /\ \E i \in DOMAIN d.manifests : d.manifests[i].body = m
         /\ q \in DOMAIN d.plans /\ d.plans[q].body = PlanBody(m, BlockReason(m, TRUE))
         /\ Planless(d) \subseteq Planless(c)
         /\ \A read : m \in read /\ ReadyIsReviewed(c, read) => ReadyIsReviewed(d, read)
<1>1. PICK ev : ev = <<"local-repository", m.ticket>>
  OBVIOUS
<1>2. PICK c1 : c1 = upsert_event(c, ev)
  OBVIOUS
<1>3. PICK e : e = EventId(c1, ev)
  OBVIOUS
<1>4. PICK sn : sn = Snapshot(e, m)
  OBVIOUS
<1>5. PICK c2 : c2 = insert_snapshot(c1, sn)
  OBVIOUS
<1>6. PICK row : row = [event |-> e, body |-> m, snapshot |-> sn, review |-> ReviewStatus(m)]
  OBVIOUS
<1>7. PICK c3 : c3 = insert_manifest_revision(c2, row)
  OBVIOUS
<1>8. PICK id : id = ManifestId(c3, row)
  OBVIOUS
<1>9. PICK plan : plan = build_plan_record(id, m, TRUE)
  OBVIOUS
<1>10. d = insert_plan(c3, plan) /\ q = PlanId(d, plan)
  <2>1. ImportPlan(c, m) = [cat |-> insert_plan(c3, plan), plan |-> PlanId(insert_plan(c3, plan), plan)]
    BY <1>1, <1>2, <1>3, <1>4, <1>5, <1>6, <1>7, <1>8, <1>9 DEF ImportPlan
  <2> QED
    BY <2>1
<1>11. ev \in EventRows
  BY <1>1 DEF EventRows, Bodies
<1>12. /\ CatalogOK(c1) /\ Grows(c, c1) /\ c1.manifests = c.manifests /\ c1.plans = c.plans
       /\ c1.runs = c.runs /\ e \in SameEvents(c1, ev)
  BY <1>2, <1>3, <1>11, UpsertEvent
<1>13. e \in DOMAIN c1.events /\ e \in Nat
  <2>1. c1.events \in Seq(EventRows)
    BY <1>12, CatalogTypes DEF CatalogOK
  <2> QED
    BY <1>12, <2>1 DEF SameEvents
<1>14. sn \in Snapshots
  BY <1>4, <1>13 DEF Snapshot, Snapshots, Bodies
<1>15. /\ CatalogOK(c2) /\ Grows(c1, c2) /\ sn \in c2.snapshots /\ c2.events = c1.events
       /\ c2.manifests = c.manifests /\ c2.plans = c.plans /\ c2.runs = c.runs
  BY <1>5, <1>12, <1>14, InsertSnapshot
<1>16. row \in ManifestRows /\ row.event = e /\ row.snapshot = sn /\ row.body = m
  <2>1. ReviewStatus(m) \in {"Reviewed", "Unresolved", "NeedsReview"}
    BY DEF ReviewStatus
  <2> QED
    BY <1>6, <1>13, <1>14, <2>1 DEF ManifestRows
<1>17. row.event \in DOMAIN c2.events /\ row.snapshot \in c2.snapshots
  BY <1>13, <1>15, <1>16
<1>18. /\ CatalogOK(c3) /\ Grows(c2, c3) /\ c3.events = c1.events /\ c3.snapshots = c2.snapshots
       /\ c3.plans = c.plans /\ c3.runs = c.runs
       /\ id \in SameManifests(c3, row)
       /\ \A i \in DOMAIN c3.manifests : i \in DOMAIN c.manifests \/ i = id
  BY <1>7, <1>8, <1>15, <1>16, <1>17, InsertManifest
<1>19. id \in DOMAIN c3.manifests /\ c3.manifests[id].body = m
  BY <1>16, <1>18 DEF SameManifests
<1>20. plan = build_plan_record(id, c3.manifests[id].body, TRUE)
  BY <1>9, <1>19
<1>21. /\ plan \in PlanRows /\ plan.manifest = id
       /\ plan.body = PlanBody(m, BlockReason(m, TRUE))
       /\ plan.body = PlanBody(c3.manifests[id].body, plan.body.reason)
       /\ (plan.status = "Ready" <=> plan.body.reason = "None")
  <2>1. TRUE \in BOOLEAN /\ CatalogOK(c3) /\ id \in DOMAIN c3.manifests
    BY <1>18, <1>19
  <2>2. /\ plan \in PlanRows /\ plan.manifest = id
        /\ plan.body = PlanBody(c3.manifests[id].body, BlockReason(c3.manifests[id].body, TRUE))
        /\ plan.body = PlanBody(c3.manifests[id].body, plan.body.reason)
        /\ (plan.status = "Ready" <=> plan.body.reason = "None")
    <3>1. PICK flag \in BOOLEAN : flag = TRUE
      OBVIOUS
    <3>2. plan = build_plan_record(id, c3.manifests[id].body, flag)
      BY <1>20, <3>1
    <3>3. /\ plan \in PlanRows /\ plan.manifest = id
          /\ plan.body = PlanBody(c3.manifests[id].body, BlockReason(c3.manifests[id].body, flag))
          /\ plan.body = PlanBody(c3.manifests[id].body, plan.body.reason)
          /\ (plan.status = "Ready" <=> plan.body.reason = "None")
      BY <2>1, <3>2, PlanRecord
    <3> QED
      BY <3>1, <3>3
  <2> QED
    BY <1>19, <2>2
<1>22. /\ CatalogOK(d) /\ Grows(c3, d) /\ d.events = c1.events /\ d.snapshots = c2.snapshots
       /\ d.manifests = c3.manifests /\ d.runs = c.runs
       /\ q \in SamePlans(d, plan)
       /\ \A p \in DOMAIN d.plans : p \in DOMAIN c.plans \/ d.plans[p] = plan
  <2>1. plan.manifest \in DOMAIN c3.manifests
    BY <1>19, <1>21
  <2>2. plan.body = PlanBody(c3.manifests[plan.manifest].body, plan.body.reason)
    BY <1>21
  <2>3. /\ CatalogOK(d) /\ Grows(c3, d) /\ d.events = c3.events /\ d.snapshots = c3.snapshots
        /\ d.manifests = c3.manifests /\ d.runs = c3.runs
        /\ PlanId(d, plan) \in SamePlans(d, plan)
        /\ \A p \in DOMAIN d.plans : p \in DOMAIN c3.plans \/ d.plans[p] = plan
    <3>1. plan \in PlanRows /\ (plan.status = "Ready" <=> plan.body.reason = "None")
      BY <1>21
    <3>2. CatalogOK(c3) /\ d = insert_plan(c3, plan)
      BY <1>10, <1>18
    <3> QED
      BY <2>1, <2>2, <3>1, <3>2, InsertPlan
  <2> QED
    BY <1>10, <1>18, <2>3
<1>23. Grows(c, d)
  BY <1>12, <1>15, <1>18, <1>22, GrowsTransitive
<1>24. e \in SameEvents(d, <<"local-repository", m.ticket>>) /\ Snapshot(e, m) \in d.snapshots
  BY <1>1, <1>4, <1>12, <1>15, <1>22 DEF SameEvents
<1>25. q \in DOMAIN d.plans /\ d.plans[q].body = PlanBody(m, BlockReason(m, TRUE))
  BY <1>21, <1>22 DEF SamePlans
<1>26. id \notin Planless(d)
  BY <1>10, <1>18, <1>19, <1>20, PlanIsThere
<1>27. Planless(d) \subseteq Planless(c)
  <2> SUFFICES ASSUME NEW i \in Planless(d) PROVE i \in Planless(c)
    OBVIOUS
  <2>1. i \in DOMAIN d.manifests
    BY DEF Planless
  <2>2. i \in DOMAIN c.manifests
    BY <1>18, <1>22, <1>26, <2>1
  <2> QED
    BY <1>23, <2>2, PlanlessShrinks
<1>28. ASSUME NEW read, m \in read, ReadyIsReviewed(c, read)
       PROVE  ReadyIsReviewed(d, read)
  <2>1. \A p \in DOMAIN d.plans : p \in DOMAIN c.plans
                                \/ d.manifests[d.plans[p].manifest].body \in read
    BY <1>19, <1>21, <1>22, <1>28
  <2> QED
    BY <1>23, <1>28, <2>1, ReadyLasts
<1> QED
  BY <1>19, <1>22, <1>23, <1>24, <1>25, <1>27, <1>28

\* What import_one leaves when it succeeds.
LEMMA ImportSettles ==
  ASSUME NEW c, CatalogOK(c), NEW m \in Bodies, NEW o \in Outputs \cup {Nothing},
         NEW d, import_one(c, m, o) = Succeeded(d)
  PROVE  /\ CatalogOK(d) /\ Grows(c, d) /\ Settled(d, m, o)
         /\ Planless(d) \subseteq Planless(c)
         /\ \A read : m \in read /\ ReadyIsReviewed(c, read) => ReadyIsReviewed(d, read)
<1>1. PICK c1, q : ImportPlan(c, m) = [cat |-> c1, plan |-> q]
  BY DEF ImportPlan
<1>2. /\ CatalogOK(c1) /\ Grows(c, c1) /\ c1.runs = c.runs
      /\ \E i \in SameEvents(c1, <<"local-repository", m.ticket>>) : Snapshot(i, m) \in c1.snapshots
      /\ \E i \in DOMAIN c1.manifests : c1.manifests[i].body = m
      /\ q \in DOMAIN c1.plans /\ c1.plans[q].body = PlanBody(m, BlockReason(m, TRUE))
      /\ Planless(c1) \subseteq Planless(c)
      /\ \A read : m \in read /\ ReadyIsReviewed(c, read) => ReadyIsReviewed(c1, read)
  BY <1>1, ImportPlanSettles
<1>3. PICK run : run = [plan |-> q, started |-> o.at, files |-> o.files]
  OBVIOUS
<1>4. import_one(c, m, o) =
        CASE ~Importable(m) -> Failed(c)
          [] Importable(m) /\ o = Nothing -> Succeeded(c1)
          [] OTHER -> IF ~Supported(o) \/ Conflicts(c1, run) THEN Failed(c)
                      ELSE Succeeded(insert_run(c1, run))
  BY <1>1, <1>3 DEF import_one
<1>5. \A x, y : Failed(x) # Succeeded(y) /\ (Succeeded(x) = Succeeded(y) => x = y)
  BY DEF Failed, Succeeded
<1>6. Importable(m)
  BY <1>4, <1>5
<1>7. CASE o = Nothing
  <2>1. d = c1
    BY <1>4, <1>5, <1>6, <1>7
  <2>2. Settled(d, m, o)
    BY <1>2, <1>6, <1>7, <2>1 DEF Settled
  <2> QED
    BY <1>2, <2>1, <2>2
<1>8. CASE o # Nothing
  <2>1. d = insert_run(c1, run) /\ Supported(o) /\ ~Conflicts(c1, run)
    BY <1>4, <1>5, <1>6, <1>8
  <2>2. /\ run \in RunRows /\ run.plan = q /\ run.plan \in DOMAIN c1.plans
        /\ run.started = o.at /\ run.files = o.files
    <3>1. c1.plans \in Seq(PlanRows)
      BY <1>2, CatalogTypes DEF CatalogOK
    <3>2. q \in Nat
      BY <1>2, <3>1
    <3> QED
      BY <1>2, <1>3, <1>8, <3>2 DEF RunRows
  <2>3. /\ CatalogOK(d) /\ Grows(c1, d)
        /\ d.events = c1.events /\ d.snapshots = c1.snapshots
        /\ d.manifests = c1.manifests /\ d.plans = c1.plans
        /\ \E r \in DOMAIN d.runs :
             \/ d.runs[r] = run
             \/ r \in SameRuns(c1, run) /\ d.runs[r] = c1.runs[r]
    BY <1>2, <2>1, <2>2, InsertRun
  <2>4. \E r \in DOMAIN d.runs :
          /\ d.runs[r].plan = q /\ d.runs[r].started = o.at
          /\ \A f \in DOMAIN d.runs[r].files \cap DOMAIN o.files : d.runs[r].files[f] = o.files[f]
    <3>1. PICK r \in DOMAIN d.runs :
            \/ d.runs[r] = run
            \/ r \in SameRuns(c1, run) /\ d.runs[r] = c1.runs[r]
      BY <2>3
    <3>2. CASE d.runs[r] = run
      BY <2>2, <3>2
    <3>3. CASE r \in SameRuns(c1, run) /\ d.runs[r] = c1.runs[r]
      BY <2>1, <2>2, <3>3 DEF SameRuns, SameRun, Conflicts
    <3> QED
      BY <3>1, <3>2, <3>3
  <2>5. Settled(d, m, o)
    BY <1>2, <1>6, <2>1, <2>3, <2>4 DEF Settled, SameEvents
  <2>6. Grows(c, d)
    BY <1>2, <2>3, GrowsTransitive
  <2>7. Planless(d) = Planless(c1)
    BY <2>3 DEF Planless
  <2>8. \A read : ReadyIsReviewed(c1, read) => ReadyIsReviewed(d, read)
    BY <2>3 DEF ReadyIsReviewed, Carried
  <2> QED
    BY <1>2, <2>3, <2>5, <2>6, <2>7, <2>8
<1> QED
  BY <1>7, <1>8

\* What import_one returns is a failure, or a success with its catalog.
LEMMA ImportOutcome ==
  ASSUME NEW c, NEW m, NEW o, import_one(c, m, o).ok
  PROVE  import_one(c, m, o) = Succeeded(import_one(c, m, o).cat)
<1>1. \A x : Failed(x).ok = FALSE /\ Succeeded(x) = Succeeded(Succeeded(x).cat)
  BY DEF Failed, Succeeded
<1>2. \E x : import_one(c, m, o) \in {Failed(x), Succeeded(x)}
  <2>1. CASE ~Importable(m)
    BY <2>1 DEF import_one
  <2>2. CASE Importable(m) /\ o = Nothing
    BY <2>2 DEF import_one
  <2>3. CASE Importable(m) /\ o # Nothing
    BY <2>3 DEF import_one
  <2> QED
    BY <2>1, <2>2, <2>3
<1> QED
  BY <1>1, <1>2

\* Importing what is settled finds every row.
LEMMA SettledIsFound ==
  ASSUME NEW c, CatalogOK(c), NEW m \in Bodies, NEW o, Settled(c, m, o)
  PROVE  import_one(c, m, o) = Succeeded(c)
<1>1. PICK ev : ev = <<"local-repository", m.ticket>>
  OBVIOUS
<1>2. PICK e \in SameEvents(c, ev) : Snapshot(e, m) \in c.snapshots
  BY <1>1 DEF Settled
<1>3. ev \in EventRows
  BY <1>1 DEF EventRows, Bodies
<1>4. upsert_event(c, ev) = c /\ EventId(c, ev) \in SameEvents(c, ev)
  BY <1>2, <1>3, UpsertEvent
<1>5. EventId(c, ev) = e
  BY <1>2, <1>4 DEF CatalogOK, SameEvents
<1>6. PICK sn : sn = Snapshot(e, m)
  OBVIOUS
<1>7. sn \in Snapshots
  BY <1>2, <1>6, CatalogTypes DEF CatalogOK
<1>8. insert_snapshot(c, sn) = c
  BY <1>2, <1>6, <1>7, InsertSnapshot
<1>9. PICK row : row = [event |-> e, body |-> m, snapshot |-> sn, review |-> ReviewStatus(m)]
  OBVIOUS
<1>10. SameManifests(c, row) # {}
  BY <1>9 DEF Settled, SameManifests
<1>11. row \in ManifestRows /\ row.event \in DOMAIN c.events /\ row.snapshot \in c.snapshots
  <2>1. ReviewStatus(m) \in {"Reviewed", "Unresolved", "NeedsReview"}
    BY DEF ReviewStatus
  <2>2. c.events \in Seq(EventRows) /\ e \in DOMAIN c.events
    BY <1>2, CatalogTypes DEF CatalogOK, SameEvents
  <2>3. e \in Nat
    BY <2>2
  <2> QED
    BY <1>2, <1>6, <1>7, <1>9, <2>1, <2>2, <2>3 DEF ManifestRows
<1>12. insert_manifest_revision(c, row) = c /\ ManifestId(c, row) \in SameManifests(c, row)
  BY <1>10, <1>11, InsertManifest
<1>13. PICK id \in DOMAIN c.manifests : id = ManifestId(c, row) /\ c.manifests[id].body = m
  BY <1>9, <1>12 DEF SameManifests
<1>14. PICK p \in DOMAIN c.plans :
        /\ c.plans[p].body = PlanBody(m, BlockReason(m, TRUE))
        /\ o # Nothing =>
            /\ Supported(o)
            /\ \E r \in DOMAIN c.runs :
                 /\ c.runs[r].plan = p /\ c.runs[r].started = o.at
                 /\ \A f \in DOMAIN c.runs[r].files \cap DOMAIN o.files :
                      c.runs[r].files[f] = o.files[f]
  BY DEF Settled
<1>15. PICK flag \in BOOLEAN : flag = TRUE
  OBVIOUS
<1>16. PICK plan : plan = build_plan_record(id, c.manifests[id].body, flag)
  OBVIOUS
<1>17. /\ plan \in PlanRows /\ plan.manifest = id
       /\ plan.body = PlanBody(c.manifests[id].body, BlockReason(c.manifests[id].body, flag))
       /\ plan.body = PlanBody(c.manifests[id].body, plan.body.reason)
       /\ (plan.status = "Ready" <=> plan.body.reason = "None")
  BY <1>16, PlanRecord
<1>18. p \in SamePlans(c, plan)
  BY <1>13, <1>14, <1>15, <1>17 DEF SamePlans
<1>19. insert_plan(c, plan) = c /\ PlanId(c, plan) \in SamePlans(c, plan)
  BY <1>17, <1>18, InsertPlan
<1>20. PlanId(c, plan) = p
  BY <1>18, <1>19 DEF CatalogOK, SamePlans
<1>21. ImportPlan(c, m) = [cat |-> c, plan |-> p]
  <2>1. plan = build_plan_record(ManifestId(c, row), m, TRUE)
    BY <1>13, <1>15, <1>16
  <2> QED
    BY <1>1, <1>4, <1>5, <1>6, <1>8, <1>9, <1>12, <1>19, <1>20, <2>1 DEF ImportPlan
<1>22. PICK run : run = [plan |-> p, started |-> o.at, files |-> o.files]
  OBVIOUS
<1>23. import_one(c, m, o) =
        CASE ~Importable(m) -> Failed(c)
          [] Importable(m) /\ o = Nothing -> Succeeded(c)
          [] OTHER -> IF ~Supported(o) \/ Conflicts(c, run) THEN Failed(c)
                      ELSE Succeeded(insert_run(c, run))
  BY <1>21, <1>22 DEF import_one
<1>24. Importable(m)
  BY DEF Settled
<1>25. CASE o = Nothing
  BY <1>23, <1>24, <1>25
<1>26. CASE o # Nothing
  <2>1. PICK r \in DOMAIN c.runs :
                 /\ c.runs[r].plan = p /\ c.runs[r].started = o.at
                 /\ \A f \in DOMAIN c.runs[r].files \cap DOMAIN o.files :
                      c.runs[r].files[f] = o.files[f]
    BY <1>14, <1>26
  <2>2. run.plan = p /\ run.started = o.at /\ run.files = o.files
    BY <1>22
  <2>3. SameRuns(c, run) = {r}
    BY <2>1, <2>2 DEF SameRuns, SameRun, CatalogOK
  <2>4. ~Conflicts(c, run)
    BY <2>1, <2>2, <2>3 DEF Conflicts
  <2>5. insert_run(c, run) = c
    <3>1. Insert(c.runs, SameRuns(c, run), run) = c.runs
      BY <2>3 DEF Insert
    <3> QED
      BY <3>1 DEF insert_run, CatalogOK, Catalogs
  <2> QED
    BY <1>14, <1>23, <1>24, <1>26, <2>4, <2>5
<1> QED
  BY <1>25, <1>26

-----------------------------------------------------------------------------
(* The plan form                                                           *)

\* The newest row of an event is one of them.
LEMMA LatestIsOne ==
  ASSUME NEW S, NEW s \in Seq(S), NEW ids, ids \subseteq DOMAIN s, ids # {}
  PROVE  Latest(ids) \in ids
<1> DEFINE n == Len(s)
           left == {n - i : i \in ids}
           less == OpToRel(<, Nat)
<1>1. n \in Nat /\ ids \subseteq 1 .. n
  OBVIOUS
<1>2. left \subseteq Nat /\ left # {}
  BY <1>1
<1>3. IsWellFoundedOn(less, Nat)
  BY NatLessThanWellFounded
<1> HIDE DEF left, less
<1>4. PICK x \in left : \A y \in left : ~(<<y, x>> \in less)
  BY <1>2, <1>3, WFMin
<1>5. \A y \in left : ~(y < x)
  BY <1>2, <1>4 DEF less, OpToRel
<1>6. PICK k \in ids : x = n - k
  BY <1>4 DEF left
<1>7. \A j \in ids : j <= k
  <2> SUFFICES ASSUME NEW j \in ids PROVE j <= k
    OBVIOUS
  <2>1. ~(n - j < n - k)
    BY <1>5, <1>6 DEF left
  <2>2. j \in Nat /\ k \in Nat /\ n \in Nat
    BY <1>1
  <2> HIDE DEF n
  <2> QED
    BY <2>1, <2>2
<1> QED
  BY <1>7 DEF Latest

-----------------------------------------------------------------------------
(* Steps                                                                   *)

\* A step that adds rows while no import is under way.
LEMMA RowsAreAdded ==
  ASSUME Inv, tx = Nothing, tx' = Nothing, CatalogOK(cat'), Grows(cat, cat'),
         disk' = disk, out' = out, steady' = steady, imported' = imported,
         reviewed' = reviewed, jobs' = jobs
  PROVE  /\ ImportAgrees'
         /\ \A j \in DOMAIN jobs : /\ jobs[j].plan \in DOMAIN cat'.plans
                                  /\ cat'.plans[jobs[j].plan].status = "Ready"
         /\ cut \subseteq DOMAIN cat'.manifests
<1>1. TypeOK /\ CatalogOK(cat) /\ ImportAgrees /\ ReviewAgrees
  BY DEF Inv, TypeOK
<1>2. imported' => SettledFor(cat, Tickets)'
  <2> SUFFICES ASSUME imported, NEW t \in Tickets, disk[t] # Nothing, ~OutOfScope(disk[t])
               PROVE  Settled(cat', disk[t], out[t])
    BY DEF SettledFor
  <2>1. Settled(cat, disk[t], out[t])
    BY <1>1 DEF ImportAgrees, SettledFor
  <2> QED
    BY <1>1, <2>1, SettledLasts
<1>3. ImportAgrees'
  BY <1>2 DEF ImportAgrees
<1>4. \A j \in DOMAIN jobs : /\ jobs[j].plan \in DOMAIN cat'.plans
                            /\ cat'.plans[jobs[j].plan].status = "Ready"
  BY <1>1 DEF TypeOK, ReviewAgrees, Grows
<1>5. cut \subseteq DOMAIN cat'.manifests
  BY <1>1 DEF TypeOK, Grows
<1> QED
  BY <1>3, <1>4, <1>5

\* The types of what such a step does not touch.
LEMMA RestIsTyped ==
  ASSUME Inv, tx' = Nothing, CatalogOK(cat'),
         disk' = disk, out' = out, steady' = steady, imported' = imported,
         reviewed' = reviewed, jobs' = jobs, cut' = cut, inputs' \in 0 .. MaxInputs,
         \A j \in DOMAIN jobs : jobs[j].plan \in DOMAIN cat'.plans,
         cut \subseteq DOMAIN cat'.manifests,
         edit' # Nothing => edit' \in [manifest : DOMAIN cat'.manifests, free : BOOLEAN]
  PROVE  TypeOK'
BY DEF Inv, TypeOK

LEMMA InitEstablishes ==
  ASSUME Init
  PROVE  Inv
<1>1. CatalogOK(EmptyCatalog) /\ Planless(EmptyCatalog) = {}
  <2>1. \A S : << >> \in Seq(S) /\ DOMAIN << >> = {}
    OBVIOUS
  <2>2. /\ EmptyCatalog.events = << >> /\ EmptyCatalog.snapshots = {}
        /\ EmptyCatalog.manifests = << >> /\ EmptyCatalog.plans = << >>
        /\ EmptyCatalog.runs = << >>
    BY DEF EmptyCatalog
  <2>3. EmptyCatalog \in Catalogs
    BY <2>1 DEF EmptyCatalog, Catalogs
  <2>4. CatalogOK(EmptyCatalog)
    BY <2>1, <2>2, <2>3 DEF CatalogOK
  <2>5. Planless(EmptyCatalog) = {}
    BY <2>1, <2>2 DEF Planless
  <2> QED
    BY <2>4, <2>5
<1>2. TypeOK
  <2>1. disk \in [Tickets -> Manifests \cup {Nothing}] /\ out \in [Tickets -> Outputs \cup {Nothing}]
    BY DEF Init
  <2>2. /\ jobs \in Seq([plan : Nat, state : {"Queued", "Completed", "Failed"}])
        /\ \A j \in DOMAIN jobs : jobs[j].plan \in DOMAIN cat.plans
    BY DEF Init
  <2>3. {steady, imported} \subseteq BOOLEAN
    BY Zenon DEF Init
  <2>4. inputs \in 0 .. MaxInputs
    BY BoundsAreNaturals DEF Init
  <2> QED
    BY <1>1, <2>1, <2>2, <2>3, <2>4 DEF Init, TypeOK
<1>3. ManifestsHavePlans /\ ImportAgrees
  BY <1>1 DEF Init, ManifestsHavePlans, ImportAgrees
<1>4. ReviewAgrees
  <2>1. EmptyCatalog.plans = << >> /\ DOMAIN << >> = {}
    BY DEF EmptyCatalog
  <2> QED
    BY <2>1 DEF Init, ReviewAgrees, ReadyIsReviewed
<1> QED
  BY <1>2, <1>3, <1>4 DEF Inv

\* Reviewers and analyses write files, also while an import reads them.
LEMMA WriteManifestKeeps ==
  ASSUME Inv, NEW m \in Manifests, WriteManifest(m)
  PROVE  Inv'
<1>1. m \in Bodies /\ m # Nothing /\ m.ticket \in Tickets
  BY InputsTyped DEF Bodies
<1>2. /\ disk' = [disk EXCEPT ![m.ticket] = m] /\ steady' = FALSE /\ imported' = FALSE
      /\ inputs' = inputs + 1 /\ inputs < MaxInputs
      /\ UNCHANGED << out, edit, cut, cat, tx, jobs, reviewed >>
  BY DEF WriteManifest, formVars
<1>3. TypeOK'
  <2>1. disk' \in [Tickets -> Manifests \cup {Nothing}]
    BY <1>2 DEF Inv, TypeOK
  <2>2. {t \in Tickets : disk[t] # Nothing} \subseteq {t \in Tickets : disk'[t] # Nothing}
    BY <1>1, <1>2 DEF Inv, TypeOK
  <2>3. inputs' \in 0 .. MaxInputs
    BY <1>2, BoundsAreNaturals DEF Inv, TypeOK
  <2> QED
    BY <1>2, <2>1, <2>2, <2>3 DEF Inv, TypeOK
<1>4. ManifestsHavePlans' /\ ReviewAgrees'
  BY <1>2 DEF Inv, ManifestsHavePlans, ReviewAgrees
<1>5. ImportAgrees'
  BY <1>2 DEF Inv, ImportAgrees
<1> QED
  BY <1>3, <1>4, <1>5 DEF Inv

LEMMA WriteOutputKeeps ==
  ASSUME Inv, NEW o \in Outputs, WriteOutput(o)
  PROVE  Inv'
<1>1. /\ out' = [out EXCEPT ![o.ticket] = o] /\ steady' = FALSE /\ imported' = FALSE
      /\ inputs' = inputs + 1 /\ inputs < MaxInputs
      /\ UNCHANGED << disk, edit, cut, cat, tx, jobs, reviewed >>
  BY DEF WriteOutput, formVars
<1>2. TypeOK'
  <2>1. out' \in [Tickets -> Outputs \cup {Nothing}]
    BY <1>1 DEF Inv, TypeOK
  <2>2. inputs' \in 0 .. MaxInputs
    BY <1>1, BoundsAreNaturals DEF Inv, TypeOK
  <2> QED
    BY <1>1, <2>1, <2>2 DEF Inv, TypeOK
<1>3. ManifestsHavePlans' /\ ReviewAgrees'
  BY <1>1 DEF Inv, ManifestsHavePlans, ReviewAgrees
<1>4. ImportAgrees'
  BY <1>1 DEF Inv, ImportAgrees
<1> QED
  BY <1>2, <1>3, <1>4 DEF Inv

\* The transaction begins with the catalog as it is, and no file read.
LEMMA BeginImportKeeps ==
  ASSUME Inv, BeginImport
  PROVE  Inv'
<1>1. /\ tx = Nothing /\ tx' = [cat |-> cat, todo |-> {t \in Tickets : disk[t] # Nothing}]
      /\ steady' = TRUE
      /\ UNCHANGED << disk, out, edit, cut, cat, jobs, imported, reviewed, inputs >>
  BY DEF BeginImport, formVars
<1>2. tx'.cat = cat /\ tx'.todo = {t \in Tickets : disk[t] # Nothing} /\ DOMAIN tx' = {"cat", "todo"}
  BY <1>1
<1>3. TypeOK'
  BY <1>1, <1>2 DEF Inv, TypeOK
<1>4. ManifestsHavePlans' /\ ReviewAgrees'
  BY <1>1, <1>2 DEF Inv, ManifestsHavePlans, ReviewAgrees
<1>5. SettledFor(tx.cat, Tickets \ tx.todo)'
  BY <1>1, <1>2 DEF SettledFor
<1>6. SettledFor(cat, Tickets)' <=> SettledFor(cat, Tickets)
  BY <1>1 DEF SettledFor
<1>7. ImportAgrees'
  BY <1>1, <1>2, <1>5, <1>6, GrowsReflexive DEF Inv, ImportAgrees
<1> QED
  BY <1>3, <1>4, <1>7 DEF Inv

\* Nothing of a failed import is left.
LEMMA ImportFailsKeeps ==
  ASSUME Inv, ImportFails
  PROVE  Inv'
<1>1. /\ tx' = Nothing /\ steady' = FALSE
      /\ UNCHANGED << disk, out, edit, cut, cat, jobs, imported, reviewed, inputs >>
  BY DEF ImportFails, formVars
<1>2. TypeOK' /\ ManifestsHavePlans' /\ ReviewAgrees'
  BY <1>1 DEF Inv, TypeOK, ManifestsHavePlans, ReviewAgrees
<1>3. SettledFor(cat, Tickets)' <=> SettledFor(cat, Tickets)
  BY <1>1 DEF SettledFor
<1>4. ImportAgrees'
  BY <1>1, <1>3 DEF Inv, ImportAgrees
<1> QED
  BY <1>2, <1>4 DEF Inv

\* One file: what is there already stays settled, what the file asks for is settled
\* now.
LEMMA ImportFileKeeps ==
  ASSUME Inv, tx # Nothing, NEW t \in tx.todo, ImportFile(t)
  PROVE  Inv'
<1>1. /\ TypeOK /\ CatalogOK(cat) /\ CatalogOK(tx.cat) /\ Grows(cat, tx.cat)
      /\ Planless(tx.cat) \subseteq Planless(cat)
      /\ tx.todo \subseteq {u \in Tickets : disk[u] # Nothing}
      /\ ReadyIsReviewed(cat, reviewed) /\ ReadyIsReviewed(tx.cat, reviewed)
  BY DEF Inv, TypeOK, ImportAgrees, ReviewAgrees
<1>2. t \in Tickets /\ disk[t] \in Manifests /\ disk[t] \in Bodies /\ out[t] \in Outputs \cup {Nothing}
  BY <1>1, InputsTyped DEF TypeOK
<1>3. PICK result : result = IF OutOfScope(disk[t]) THEN Succeeded(tx.cat)
                             ELSE import_one(tx.cat, disk[t], out[t])
  OBVIOUS
<1>4. PICK d : d = result.cat
  OBVIOUS
<1>5. /\ result.ok /\ tx' = [cat |-> d, todo |-> tx.todo \ {t}]
      /\ reviewed' = reviewed \cup {disk[t]}
      /\ UNCHANGED << disk, out, steady, edit, cut, cat, jobs, imported, inputs >>
  BY <1>3, <1>4 DEF ImportFile, fileVars, formVars
<1>6. tx'.cat = d /\ tx'.todo = tx.todo \ {t} /\ DOMAIN tx' = {"cat", "todo"}
  BY <1>5
<1>7. ReadyIsReviewed(cat, reviewed') /\ ReadyIsReviewed(tx.cat, reviewed')
  BY <1>1, <1>5 DEF ReadyIsReviewed
<1>8. /\ CatalogOK(d) /\ Grows(tx.cat, d) /\ Planless(d) \subseteq Planless(tx.cat)
      /\ ReadyIsReviewed(d, reviewed')
      /\ ~OutOfScope(disk[t]) => Settled(d, disk[t], out[t])
  <2>1. CASE OutOfScope(disk[t])
    <3>1. d = tx.cat
      BY <1>3, <1>4, <2>1 DEF Succeeded
    <3> QED
      BY <1>1, <1>7, <2>1, <3>1, GrowsReflexive
  <2>2. CASE ~OutOfScope(disk[t])
    <3>1. import_one(tx.cat, disk[t], out[t]).ok /\ d = import_one(tx.cat, disk[t], out[t]).cat
      BY <1>3, <1>4, <1>5, <2>2
    <3>2. import_one(tx.cat, disk[t], out[t]) = Succeeded(d)
      BY <3>1, ImportOutcome
    <3>3. /\ CatalogOK(d) /\ Grows(tx.cat, d) /\ Settled(d, disk[t], out[t])
          /\ Planless(d) \subseteq Planless(tx.cat)
          /\ \A read : disk[t] \in read /\ ReadyIsReviewed(tx.cat, read) => ReadyIsReviewed(d, read)
      BY <1>1, <1>2, <3>2, ImportSettles
    <3>4. disk[t] \in reviewed'
      BY <1>5
    <3> QED
      BY <1>7, <3>3, <3>4
  <2> QED
    BY <2>1, <2>2
<1>9. TypeOK'
  <2>1. reviewed' \subseteq Manifests
    BY <1>1, <1>2, <1>5 DEF TypeOK
  <2>2. tx'.todo \subseteq {u \in Tickets : disk[u] # Nothing}
    BY <1>1, <1>6
  <2> QED
    BY <1>1, <1>5, <1>6, <1>8, <2>1, <2>2 DEF TypeOK
<1>10. ManifestsHavePlans'
  BY <1>5 DEF Inv, ManifestsHavePlans
<1>11. ASSUME steady
       PROVE  SettledFor(tx.cat, Tickets \ tx.todo)'
  <2> SUFFICES ASSUME NEW u \in Tickets, u \notin tx'.todo, disk[u] # Nothing, ~OutOfScope(disk[u])
               PROVE  Settled(d, disk[u], out[u])
    BY <1>5, <1>6 DEF SettledFor
  <2>1. CASE u = t
    BY <1>8, <2>1
  <2>2. CASE u # t
    <3>1. u \in Tickets \ tx.todo
      BY <1>6, <2>2
    <3>2. Settled(tx.cat, disk[u], out[u])
      BY <1>11, <3>1 DEF Inv, ImportAgrees, SettledFor
    <3> QED
      BY <1>1, <1>8, <3>2, SettledLasts
  <2> QED
    BY <2>1, <2>2
<1>12. SettledFor(cat, Tickets)' <=> SettledFor(cat, Tickets)
  BY <1>5 DEF SettledFor
<1>13. Grows(cat, d)
  BY <1>1, <1>8, GrowsTransitive
<1>14. Planless(d) \subseteq Planless(cat)
  BY <1>1, <1>8
<1>15. ImportAgrees'
  BY <1>5, <1>6, <1>11, <1>12, <1>13, <1>14 DEF Inv, ImportAgrees
<1>16. ReviewAgrees'
  BY <1>5, <1>6, <1>7, <1>8 DEF Inv, ReviewAgrees
<1> QED
  BY <1>9, <1>10, <1>15, <1>16 DEF Inv

\* The commit replaces the catalog by one that has grown from it.
LEMMA CommitImportKeeps ==
  ASSUME Inv, CommitImport
  PROVE  Inv'
<1>1. /\ tx # Nothing /\ tx.todo = {} /\ cat' = tx.cat /\ tx' = Nothing
      /\ imported' = steady /\ steady' = FALSE
      /\ UNCHANGED << disk, out, edit, cut, jobs, reviewed, inputs >>
  BY DEF CommitImport, formVars
<1>2. /\ CatalogOK(cat) /\ CatalogOK(tx.cat) /\ Grows(cat, tx.cat)
      /\ Planless(tx.cat) \subseteq Planless(cat)
      /\ (steady => SettledFor(tx.cat, Tickets \ tx.todo))
      /\ ReadyIsReviewed(tx.cat, reviewed)
  BY <1>1 DEF Inv, TypeOK, ImportAgrees, ReviewAgrees
<1>3. /\ DOMAIN cat.manifests \subseteq DOMAIN cat'.manifests
      /\ DOMAIN cat.plans \subseteq DOMAIN cat'.plans
      /\ \A i \in DOMAIN cat.manifests : cat'.manifests[i] = cat.manifests[i]
      /\ \A p \in DOMAIN cat.plans : cat'.plans[p] = cat.plans[p]
  BY <1>1, <1>2 DEF Grows
<1>4. TypeOK'
  <2>1. edit' # Nothing => edit' \in [manifest : DOMAIN cat'.manifests, free : BOOLEAN]
    BY <1>1, <1>3 DEF Inv, TypeOK
  <2>2. cut' \subseteq DOMAIN cat'.manifests /\ \A j \in DOMAIN jobs' : jobs'[j].plan \in DOMAIN cat'.plans
    BY <1>1, <1>3 DEF Inv, TypeOK
  <2> QED
    BY <1>1, <1>2, <2>1, <2>2 DEF Inv, TypeOK
<1>5. ManifestsHavePlans'
  BY <1>1, <1>2 DEF Inv, ManifestsHavePlans
<1>6. ImportAgrees'
  <2>1. steady => SettledFor(cat, Tickets)'
    BY <1>1, <1>2 DEF SettledFor
  <2> QED
    BY <1>1, <2>1 DEF ImportAgrees
<1>7. ReviewAgrees'
  <2>1. ReadyIsReviewed(cat', reviewed')
    BY <1>1, <1>2
  <2>2. \A j \in DOMAIN jobs' : cat'.plans[jobs'[j].plan].status = "Ready"
    BY <1>1, <1>3 DEF Inv, TypeOK, ReviewAgrees
  <2>3. ASSUME edit' # Nothing, ~edit'.free, cat'.manifests[edit'.manifest].review = "NeedsReview"
        PROVE  Carried(cat', edit'.manifest)
    <3>1. edit.manifest \in DOMAIN cat.manifests
      BY <1>1, <2>3 DEF Inv, TypeOK
    <3>2. Carried(cat, edit.manifest)
      BY <1>1, <1>3, <2>3, <3>1 DEF Inv, ReviewAgrees
    <3> QED
      BY <1>1, <1>2, <3>1, <3>2, CarriedLasts
  <2> QED
    BY <1>1, <2>1, <2>2, <2>3 DEF ReviewAgrees
<1> QED
  BY <1>4, <1>5, <1>6, <1>7 DEF Inv

\* An event and a snapshot more.
LEMMA ImportCorpusKeeps ==
  ASSUME Inv, NEW t \in Corpus, ImportCorpus(t)
  PROVE  Inv'
<1>1. PICK event : event = <<"grnoc-public-task-viewer", t>>
  OBVIOUS
<1>2. PICK c1 : c1 = upsert_event(cat, event)
  OBVIOUS
<1>3. PICK sn : sn = << EventId(c1, event), t >>
  OBVIOUS
<1>4. /\ tx = Nothing /\ cat' = insert_snapshot(c1, sn)
      /\ UNCHANGED << disk, out, steady, edit, cut, tx, jobs, imported, reviewed, inputs >>
  BY <1>1, <1>2, <1>3 DEF ImportCorpus, fileVars, formVars
<1>5. CatalogOK(cat) /\ TypeOK
  BY DEF Inv, TypeOK
<1>6. event \in EventRows
  BY <1>1, CorpusIsTickets DEF EventRows
<1>7. /\ CatalogOK(c1) /\ Grows(cat, c1) /\ c1.manifests = cat.manifests /\ c1.plans = cat.plans
      /\ EventId(c1, event) \in SameEvents(c1, event)
  BY <1>2, <1>5, <1>6, UpsertEvent
<1>8. sn \in Snapshots
  <2>1. c1.events \in Seq(EventRows)
    BY <1>7, CatalogTypes DEF CatalogOK
  <2>2. EventId(c1, event) \in Nat
    BY <1>7, <2>1 DEF SameEvents
  <2> QED
    BY <1>3, <2>2, CorpusIsTickets DEF Snapshots
<1>9. /\ CatalogOK(cat') /\ Grows(c1, cat')
      /\ cat'.manifests = cat.manifests /\ cat'.plans = cat.plans
  BY <1>4, <1>7, <1>8, InsertSnapshot
<1>10. Grows(cat, cat')
  BY <1>7, <1>9, GrowsTransitive
<1>11. /\ ImportAgrees'
       /\ \A j \in DOMAIN jobs : /\ jobs[j].plan \in DOMAIN cat'.plans
                                /\ cat'.plans[jobs[j].plan].status = "Ready"
       /\ cut \subseteq DOMAIN cat'.manifests
  BY <1>4, <1>9, <1>10, RowsAreAdded
<1>12. TypeOK'
  <2>1. edit' # Nothing => edit' \in [manifest : DOMAIN cat'.manifests, free : BOOLEAN]
    BY <1>4, <1>5, <1>9 DEF TypeOK
  <2>2. inputs' \in 0 .. MaxInputs
    BY <1>4, <1>5 DEF TypeOK
  <2> QED
    BY <1>4, <1>9, <1>11, <2>1, <2>2, RestIsTyped
<1>13. ManifestsHavePlans'
  BY <1>4, <1>9 DEF Inv, ManifestsHavePlans, Planless
<1>14. ReviewAgrees'
  BY <1>4, <1>9 DEF Inv, ReviewAgrees, ReadyIsReviewed, Carried
<1> QED
  BY <1>11, <1>12, <1>13, <1>14 DEF Inv

\* The first transaction of the form: a new revision has no plan yet, and one whose
\* origins were left alone has those of the revision before it.
LEMMA EditManifestKeeps ==
  ASSUME Inv, NEW e \in DOMAIN cat.events, NEW form \in Forms, EditManifest(e, form)
  PROVE  Inv'
<1>1. CatalogOK(cat) /\ TypeOK /\ cat.manifests \in Seq(ManifestRows) /\ cat.events \in Seq(EventRows)
  BY CatalogTypes DEF Inv, TypeOK, CatalogOK
<1>2. PICK k : k = Latest(ManifestsOf(e))
  OBVIOUS
<1>3. PICK old : old = cat.manifests[k]
  OBVIOUS
<1>4. PICK m : m = Edited(old.body, form)
  OBVIOUS
<1>5. PICK free \in BOOLEAN : free = (form.origins # Keep)
  BY Zenon
<1>6. PICK row : row = [event |-> e, body |-> m, snapshot |-> old.snapshot,
                        review |-> IF free THEN "NeedsReview" ELSE ReviewStatus(m)]
  OBVIOUS
<1>7. PICK id : id = ManifestId(cat', row)
  OBVIOUS
<1>8. /\ tx = Nothing /\ edit = Nothing /\ inputs < MaxInputs /\ inputs' = inputs + 1
      /\ ManifestsOf(e) # {}
      /\ cat' = insert_manifest_revision(cat, row)
      /\ edit' = [manifest |-> id, free |-> free]
      /\ UNCHANGED << disk, out, steady, cut, tx, jobs, imported, reviewed >>
  BY <1>2, <1>3, <1>4, <1>5, <1>6, <1>7 DEF EditManifest, fileVars
<1>9. k \in DOMAIN cat.manifests
  <2>1. ManifestsOf(e) \subseteq DOMAIN cat.manifests
    BY DEF ManifestsOf
  <2>2. k \in ManifestsOf(e)
    BY <1>1, <1>2, <1>8, <2>1, LatestIsOne
  <2> QED
    BY <2>1, <2>2
<1>10. old \in ManifestRows /\ old.snapshot \in cat.snapshots
  BY <1>1, <1>3, <1>9 DEF CatalogOK
<1>11. old.body \in Bodies /\ old.snapshot \in Snapshots
  BY <1>10 DEF ManifestRows
<1>12. /\ m \in Bodies /\ m.ticket = old.body.ticket /\ m.rev = old.body.rev + 1
       /\ (~free => m.origins = old.body.origins)
  <2>1. PICK origins \in Origins : origins = IF form.origins = Keep THEN old.body.origins ELSE form.origins
    BY <1>11 DEF Bodies, Origins
  <2>2. PICK detail \in Details : detail = IF form.detail = Keep THEN old.body.detail ELSE form.detail
    BY <1>11 DEF Bodies, Details
  <2>3. m = [old.body EXCEPT !.rev = old.body.rev + 1, !.origins = origins, !.detail = detail]
    BY <1>4, <1>11, <2>1, <2>2 DEF Edited, Bodies
  <2>4. m = [ticket |-> old.body.ticket, rev |-> old.body.rev + 1, origins |-> origins,
             ready |-> old.body.ready, detail |-> detail]
    BY <1>11, <2>3 DEF Bodies
  <2>5. m \in Bodies
    BY <1>11, <2>4 DEF Bodies
  <2> QED
    BY <1>5, <2>1, <2>4, <2>5
<1>13. row \in ManifestRows /\ row.event = e /\ row.snapshot = old.snapshot /\ row.body = m
  <2>1. PICK review \in {"Reviewed", "Unresolved", "NeedsReview"} :
          review = IF free THEN "NeedsReview" ELSE ReviewStatus(m)
    BY DEF ReviewStatus
  <2>2. row = [event |-> e, body |-> m, snapshot |-> old.snapshot, review |-> review]
    BY <1>6, <2>1
  <2>3. e \in Nat
    BY <1>1
  <2> QED
    BY <1>11, <1>12, <2>2, <2>3 DEF ManifestRows
<1>14. row.event \in DOMAIN cat.events /\ row.snapshot \in cat.snapshots
  BY <1>10, <1>13
<1>15. /\ CatalogOK(cat') /\ Grows(cat, cat') /\ cat'.plans = cat.plans
       /\ id \in SameManifests(cat', row)
       /\ \A i \in DOMAIN cat'.manifests : i \in DOMAIN cat.manifests \/ i = id
  BY <1>1, <1>7, <1>8, <1>13, <1>14, InsertManifest
<1>16. id \in DOMAIN cat'.manifests /\ cat'.manifests[id].body = m
  BY <1>13, <1>15 DEF SameManifests
<1>17. /\ ImportAgrees'
       /\ \A j \in DOMAIN jobs : /\ jobs[j].plan \in DOMAIN cat'.plans
                                /\ cat'.plans[jobs[j].plan].status = "Ready"
       /\ cut \subseteq DOMAIN cat'.manifests
  BY <1>8, <1>15, RowsAreAdded
<1>18. edit' # Nothing /\ edit'.manifest = id /\ edit'.free = free
  <2>1. id \in Nat
    <3>1. cat'.manifests \in Seq(ManifestRows)
      BY <1>15, CatalogTypes DEF CatalogOK
    <3> QED
      BY <1>16, <3>1
  <2>2. edit' \in [manifest : Nat, free : BOOLEAN]
    BY <1>8, <2>1
  <2> QED
    BY <1>8, <2>2, InputsTyped
<1>19. TypeOK'
  <2>1. edit' \in [manifest : DOMAIN cat'.manifests, free : BOOLEAN]
    BY <1>8, <1>16
  <2>2. inputs' \in 0 .. MaxInputs
    BY <1>1, <1>8, BoundsAreNaturals DEF TypeOK
  <2> QED
    BY <1>8, <1>15, <1>17, <2>1, <2>2, RestIsTyped
<1>20. ManifestsHavePlans'
  <2> SUFFICES ASSUME NEW i \in Planless(cat') PROVE i \in cut \/ i = id
    BY <1>8, <1>18 DEF ManifestsHavePlans
  <2>1. CASE i \in DOMAIN cat.manifests
    <3>1. i \in Planless(cat)
      BY <1>15, <2>1, PlanlessShrinks
    <3> QED
      BY <1>8, <3>1 DEF Inv, ManifestsHavePlans
  <2> QED
    BY <1>15, <2>1 DEF Planless
<1>21. ReviewAgrees'
  <2>1. ReadyIsReviewed(cat', reviewed')
    BY <1>1, <1>8, <1>15, ReadyLasts DEF Inv, ReviewAgrees
  <2>2. ASSUME ~free PROVE Carried(cat', id)
    <3>1. k \in DOMAIN cat'.manifests /\ cat'.manifests[k] = old
      BY <1>3, <1>9, <1>15 DEF Grows
    <3> QED
      BY <1>12, <1>16, <2>2, <3>1 DEF Carried
  <2> QED
    BY <1>8, <1>17, <1>18, <2>1, <2>2 DEF ReviewAgrees
<1> QED
  BY <1>17, <1>19, <1>20, <1>21 DEF Inv

\* The second transaction gives the revision its plan.
LEMMA EditPlanKeeps ==
  ASSUME Inv, EditPlan
  PROVE  Inv'
<1>1. CatalogOK(cat) /\ TypeOK /\ ReadyIsReviewed(cat, reviewed)
  BY DEF Inv, TypeOK, ReviewAgrees
<1>2. PICK id \in DOMAIN cat.manifests : id = edit.manifest
  BY <1>1 DEF EditPlan, TypeOK
<1>3. PICK flag \in BOOLEAN : flag = ~edit.free
  BY Zenon
<1>4. PICK row : row = build_plan_record(id, cat.manifests[id].body, flag)
  OBVIOUS
<1>5. /\ tx = Nothing /\ edit # Nothing /\ cat' = insert_plan(cat, row) /\ edit' = Nothing
      /\ UNCHANGED << disk, out, steady, cut, tx, jobs, imported, reviewed, inputs >>
  BY <1>2, <1>3, <1>4 DEF EditPlan, fileVars
<1>6. /\ row \in PlanRows /\ row.manifest = id
      /\ row.body = PlanBody(cat.manifests[id].body, row.body.reason)
      /\ (row.status = "Ready" <=> row.body.reason = "None")
      /\ (row.status = "Ready" => flag)
  BY <1>1, <1>2, <1>4, PlanRecord
<1>7. /\ CatalogOK(cat') /\ Grows(cat, cat') /\ cat'.manifests = cat.manifests
      /\ \A p \in DOMAIN cat'.plans : p \in DOMAIN cat.plans \/ cat'.plans[p] = row
  BY <1>1, <1>2, <1>5, <1>6, InsertPlan
<1>8. id \notin Planless(cat')
  BY <1>1, <1>2, <1>4, <1>5, PlanIsThere
<1>9. /\ ImportAgrees'
      /\ \A j \in DOMAIN jobs : /\ jobs[j].plan \in DOMAIN cat'.plans
                               /\ cat'.plans[jobs[j].plan].status = "Ready"
      /\ cut \subseteq DOMAIN cat'.manifests
  BY <1>5, <1>7, RowsAreAdded
<1>10. TypeOK'
  <2>1. inputs' \in 0 .. MaxInputs
    BY <1>1, <1>5 DEF TypeOK
  <2> QED
    BY <1>5, <1>7, <1>9, <2>1, RestIsTyped
<1>11. ManifestsHavePlans'
  <2> SUFFICES ASSUME NEW i \in Planless(cat') PROVE i \in cut
    BY <1>5 DEF ManifestsHavePlans
  <2>1. i \in DOMAIN cat.manifests
    BY <1>7 DEF Planless
  <2>2. i \in Planless(cat)
    BY <1>7, <2>1, PlanlessShrinks
  <2> QED
    BY <1>2, <1>8, <2>2 DEF Inv, ManifestsHavePlans
<1>12. ReviewAgrees'
  <2>1. ASSUME flag, cat.manifests[id].review = "NeedsReview" PROVE Carried(cat', id)
    <3>1. Carried(cat, id)
      BY <1>2, <1>3, <1>5, <2>1 DEF Inv, ReviewAgrees
    <3> QED
      BY <1>7, <3>1, CarriedLasts
  <2>2. \A p \in DOMAIN cat'.plans :
          \/ p \in DOMAIN cat.plans
          \/ cat'.plans[p].status # "Ready"
          \/ cat'.manifests[cat'.plans[p].manifest].review # "NeedsReview"
          \/ Carried(cat', cat'.plans[p].manifest)
    BY <1>6, <1>7, <2>1
  <2>3. ReadyIsReviewed(cat', reviewed')
    BY <1>1, <1>5, <1>7, <2>2, ReadyLasts
  <2> QED
    BY <1>5, <1>9, <2>3 DEF ReviewAgrees
<1> QED
  BY <1>9, <1>10, <1>11, <1>12 DEF Inv

\* An edit that is cut off is remembered.
LEMMA EditLostKeeps ==
  ASSUME Inv, EditLost
  PROVE  Inv'
<1>1. /\ edit # Nothing /\ edit' = Nothing /\ cut' = cut \cup {edit.manifest}
      /\ UNCHANGED << disk, out, steady, cat, tx, jobs, imported, reviewed, inputs >>
  BY DEF EditLost, fileVars
<1>2. edit.manifest \in DOMAIN cat.manifests
  BY <1>1 DEF Inv, TypeOK
<1>3. TypeOK' /\ ManifestsHavePlans'
  BY <1>1, <1>2 DEF Inv, TypeOK, ManifestsHavePlans
<1>4. /\ SettledFor(cat, Tickets)' <=> SettledFor(cat, Tickets)
      /\ SettledFor(tx.cat, Tickets \ tx.todo)' <=> SettledFor(tx.cat, Tickets \ tx.todo)
  BY <1>1 DEF SettledFor
<1>5. ImportAgrees'
  BY <1>1, <1>4 DEF Inv, ImportAgrees
<1>6. ReviewAgrees'
  BY <1>1 DEF Inv, ReviewAgrees
<1> QED
  BY <1>3, <1>5, <1>6 DEF Inv

\* A job is queued for a plan that is ready.
LEMMA QueueKeeps ==
  ASSUME Inv, NEW p \in DOMAIN cat.plans, Queue(p)
  PROVE  Inv'
<1>1. PICK job : job = [plan |-> p, state |-> "Queued"]
  OBVIOUS
<1>2. /\ jobs' = Append(jobs, job) /\ cat.plans[p].status = "Ready"
      /\ UNCHANGED << disk, out, steady, edit, cut, cat, tx, imported, reviewed, inputs >>
  BY <1>1 DEF Queue, fileVars, formVars
<1>3. jobs \in Seq([plan : Nat, state : {"Queued", "Completed", "Failed"}])
  BY DEF Inv, TypeOK
<1>4. p \in Nat
  <2>1. cat.plans \in Seq(PlanRows)
    BY CatalogTypes DEF Inv, TypeOK, CatalogOK
  <2> QED
    BY <2>1
<1>5. job \in [plan : Nat, state : {"Queued", "Completed", "Failed"}] /\ job.plan = p
  BY <1>1, <1>4
<1>6. /\ jobs' \in Seq([plan : Nat, state : {"Queued", "Completed", "Failed"}])
      /\ \A j \in DOMAIN jobs' : jobs'[j] = job \/ (j \in DOMAIN jobs /\ jobs'[j] = jobs[j])
  BY <1>2, <1>3, <1>5
<1>7. \A j \in DOMAIN jobs' : jobs'[j].plan \in DOMAIN cat.plans
                           /\ cat.plans[jobs'[j].plan].status = "Ready"
  BY <1>2, <1>5, <1>6 DEF Inv, TypeOK, ReviewAgrees
<1>8. TypeOK'
  BY <1>2, <1>6, <1>7 DEF Inv, TypeOK
<1>9. /\ SettledFor(cat, Tickets)' <=> SettledFor(cat, Tickets)
      /\ SettledFor(tx.cat, Tickets \ tx.todo)' <=> SettledFor(tx.cat, Tickets \ tx.todo)
  BY <1>2 DEF SettledFor
<1>10. ManifestsHavePlans' /\ ImportAgrees'
  BY <1>2, <1>9 DEF Inv, ManifestsHavePlans, ImportAgrees
<1>11. ReviewAgrees'
  BY <1>2, <1>7 DEF Inv, ReviewAgrees
<1> QED
  BY <1>8, <1>10, <1>11 DEF Inv

\* The state of a job changes, not its plan.
LEMMA JobsKeepPlans ==
  ASSUME Inv, NEW j \in DOMAIN jobs, NEW state \in {"Completed", "Failed"},
         jobs' = [jobs EXCEPT ![j].state = state]
  PROVE  /\ jobs' \in Seq([plan : Nat, state : {"Queued", "Completed", "Failed"}])
         /\ DOMAIN jobs' = DOMAIN jobs /\ \A i \in DOMAIN jobs : jobs'[i].plan = jobs[i].plan
<1> DEFINE J == [plan : Nat, state : {"Queued", "Completed", "Failed"}]
<1>1. jobs \in Seq(J)
  BY DEF Inv, TypeOK
<1>2. PICK job : job = [jobs[j] EXCEPT !.state = state]
  OBVIOUS
<1>3. job \in J /\ job.plan = jobs[j].plan
  <2>1. jobs[j] \in J
    BY <1>1, RowsOfTables
  <2> QED
    BY <1>2, <2>1
<1>4. jobs' = [jobs EXCEPT ![j] = job]
  BY <1>2
<1> HIDE DEF J
<1>5. jobs' \in Seq(J) /\ DOMAIN jobs' = DOMAIN jobs
  BY <1>1, <1>3, <1>4
<1>6. \A i \in DOMAIN jobs : jobs'[i].plan = jobs[i].plan
  BY <1>3, <1>4
<1> QED
  BY <1>5, <1>6 DEF J

LEMMA EndJobKeeps ==
  ASSUME Inv, NEW j \in DOMAIN jobs, EndJob(j)
  PROVE  Inv'
<1>1. /\ jobs' = [jobs EXCEPT ![j].state = "Failed"]
      /\ UNCHANGED << disk, out, steady, edit, cut, cat, tx, imported, reviewed, inputs >>
  BY DEF EndJob, fileVars, formVars
<1>2. /\ jobs' \in Seq([plan : Nat, state : {"Queued", "Completed", "Failed"}])
      /\ DOMAIN jobs' = DOMAIN jobs /\ \A i \in DOMAIN jobs : jobs'[i].plan = jobs[i].plan
  BY <1>1, JobsKeepPlans
<1>3. TypeOK'
  BY <1>1, <1>2 DEF Inv, TypeOK
<1>4. /\ SettledFor(cat, Tickets)' <=> SettledFor(cat, Tickets)
      /\ SettledFor(tx.cat, Tickets \ tx.todo)' <=> SettledFor(tx.cat, Tickets \ tx.todo)
  BY <1>1 DEF SettledFor
<1>5. ManifestsHavePlans' /\ ImportAgrees'
  BY <1>1, <1>4 DEF Inv, ManifestsHavePlans, ImportAgrees
<1>6. ReviewAgrees'
  BY <1>1, <1>2 DEF Inv, ReviewAgrees
<1> QED
  BY <1>3, <1>5, <1>6 DEF Inv

\* A run more, and the job is completed.
LEMMA PublishKeeps ==
  ASSUME Inv, NEW j \in DOMAIN jobs, Publish(j)
  PROVE  Inv'
<1>1. PICK row : row = [plan |-> jobs[j].plan, started |-> <<"job", j>>, files |-> << j >>]
  OBVIOUS
<1>2. /\ tx = Nothing /\ cat' = insert_run(cat, row)
      /\ jobs' = [jobs EXCEPT ![j].state = "Completed"]
      /\ UNCHANGED << disk, out, steady, edit, cut, tx, imported, reviewed, inputs >>
  BY <1>1 DEF Publish, fileVars, formVars
<1>3. CatalogOK(cat) /\ TypeOK
  BY DEF Inv, TypeOK
<1>4. row \in RunRows /\ row.plan \in DOMAIN cat.plans
  <2>1. jobs \in Seq([plan : Nat, state : {"Queued", "Completed", "Failed"}])
    BY <1>3 DEF TypeOK
  <2>2. j \in Nat /\ jobs[j] \in [plan : Nat, state : {"Queued", "Completed", "Failed"}]
    BY <2>1, RowsOfTables
  <2>4. jobs[j].plan \in Nat /\ jobs[j].plan \in DOMAIN cat.plans
    BY <1>3, <2>2 DEF TypeOK
  <2>3. << j >> \in Seq(Nat) /\ <<"job", j>> \in {"job"} \X Nat
    BY <2>2
  <2> QED
    BY <1>1, <2>3, <2>4 DEF RunRows
<1>5. /\ CatalogOK(cat') /\ Grows(cat, cat')
      /\ cat'.manifests = cat.manifests /\ cat'.plans = cat.plans
  BY <1>2, <1>3, <1>4, InsertRun
<1>6. /\ jobs' \in Seq([plan : Nat, state : {"Queued", "Completed", "Failed"}])
      /\ DOMAIN jobs' = DOMAIN jobs /\ \A i \in DOMAIN jobs : jobs'[i].plan = jobs[i].plan
  BY <1>2, JobsKeepPlans
<1>7. TypeOK'
  BY <1>2, <1>3, <1>5, <1>6 DEF TypeOK
<1>8. ManifestsHavePlans'
  BY <1>2, <1>5 DEF Inv, ManifestsHavePlans, Planless
<1>9. ImportAgrees'
  <2> SUFFICES ASSUME imported, NEW t \in Tickets, disk[t] # Nothing, ~OutOfScope(disk[t])
               PROVE  Settled(cat', disk[t], out[t])
    BY <1>2 DEF ImportAgrees, SettledFor
  <2>1. Settled(cat, disk[t], out[t])
    BY DEF Inv, ImportAgrees, SettledFor
  <2> QED
    BY <1>3, <1>5, <2>1, SettledLasts
<1>10. ReviewAgrees'
  BY <1>2, <1>5, <1>6 DEF Inv, ReviewAgrees, ReadyIsReviewed, Carried
<1> QED
  BY <1>5, <1>7, <1>8, <1>9, <1>10 DEF Inv

-----------------------------------------------------------------------------
(* Theorems                                                                *)

LEMMA NextKeeps ==
  ASSUME Inv, [Next]_vars
  PROVE  Inv'
<1>1. CASE \E m \in Manifests : WriteManifest(m)
  BY <1>1, WriteManifestKeeps
<1>2. CASE \E o \in Outputs : WriteOutput(o)
  BY <1>2, WriteOutputKeeps
<1>3. CASE BeginImport
  BY <1>3, BeginImportKeeps
<1>4. CASE CommitImport
  BY <1>4, CommitImportKeeps
<1>5. CASE ImportFails
  BY <1>5, ImportFailsKeeps
<1>6. CASE tx # Nothing /\ \E t \in tx.todo : ImportFile(t)
  BY <1>6, ImportFileKeeps
<1>7. CASE \E t \in Corpus : ImportCorpus(t)
  BY <1>7, ImportCorpusKeeps
<1>8. CASE \E e \in DOMAIN cat.events, form \in Forms : EditManifest(e, form)
  BY <1>8, EditManifestKeeps
<1>9. CASE EditPlan
  BY <1>9, EditPlanKeeps
<1>10. CASE EditLost
  BY <1>10, EditLostKeeps
<1>11. CASE \E p \in DOMAIN cat.plans : Queue(p)
  BY <1>11, QueueKeeps
<1>12. CASE \E j \in DOMAIN jobs : EndJob(j) \/ Publish(j)
  BY <1>12, EndJobKeeps, PublishKeeps
<1>13. CASE UNCHANGED vars
  <2>1. /\ disk' = disk /\ out' = out /\ cat' = cat /\ tx' = tx /\ edit' = edit /\ jobs' = jobs
        /\ steady' = steady /\ imported' = imported /\ reviewed' = reviewed /\ cut' = cut
        /\ inputs' = inputs
    BY <1>13 DEF vars, fileVars, formVars
  <2>2. TypeOK' /\ ManifestsHavePlans' /\ ReviewAgrees'
    BY <2>1 DEF Inv, TypeOK, ManifestsHavePlans, ReviewAgrees
  <2>3. ImportAgrees'
    BY <2>1 DEF Inv, ImportAgrees, SettledFor
  <2> QED
    BY <2>2, <2>3 DEF Inv
<1> QED
  BY <1>1, <1>2, <1>3, <1>4, <1>5, <1>6, <1>7, <1>8, <1>9, <1>10, <1>11, <1>12, <1>13 DEF Next

\* Whatever files, imports, edits that are cut off and jobs do, in whatever order: the
\* tables refer to rows that are there and no two rows have one key, every manifest
\* revision has its plan but for the exceptions it names, and what an import has read
\* is settled (Inv).
THEOREM CatalogIsConsistent == Spec => []Inv
<1>1. Init => Inv
  BY InitEstablishes
<1>2. Inv /\ [Next]_vars => Inv'
  BY NextKeeps
<1> QED
  BY <1>1, <1>2, PTL DEF Spec

\* Importing the files again that were imported last succeeds and changes nothing,
\* also when edits, the corpus import and jobs have added rows (import_repository_scoped).
THEOREM ImportIsIdempotent == Spec => []ReimportChangesNothing
<1>1. Inv => ReimportChangesNothing
  <2> SUFFICES ASSUME Inv, imported, NEW t \in Tickets, disk[t] # Nothing, ~OutOfScope(disk[t])
               PROVE  import_one(cat, disk[t], out[t]) = Succeeded(cat)
    BY DEF ReimportChangesNothing
  <2>1. CatalogOK(cat) /\ disk[t] \in Manifests /\ Settled(cat, disk[t], out[t])
    BY DEF Inv, TypeOK, ImportAgrees, SettledFor
  <2>2. disk[t] \in Bodies
    BY <2>1, InputsTyped
  <2> QED
    BY <2>1, <2>2, SettledIsFound
<1> QED
  BY <1>1, CatalogIsConsistent, PTL

\* The runs of the catalog agree with the output on disk after an import
\* (the comparison of artifacts in import_one).
THEOREM EvidenceIsGenuine == Spec => []EvidenceMatchesOutput
<1>1. Inv => EvidenceMatchesOutput
  <2> SUFFICES ASSUME Inv, imported, NEW t \in Tickets,
                      disk[t] # Nothing, ~OutOfScope(disk[t]), out[t] # Nothing,
                      NEW r \in DOMAIN cat.runs,
                      cat.plans[cat.runs[r].plan].body = PlanBody(disk[t], BlockReason(disk[t], TRUE)),
                      cat.runs[r].started = out[t].at
               PROVE  \A f \in DOMAIN cat.runs[r].files \cap DOMAIN out[t].files :
                        cat.runs[r].files[f] = out[t].files[f]
    BY DEF EvidenceMatchesOutput
  <2>1. CatalogOK(cat) /\ Settled(cat, disk[t], out[t])
    BY DEF Inv, TypeOK, ImportAgrees, SettledFor
  <2>2. PICK p \in DOMAIN cat.plans, s \in DOMAIN cat.runs :
          /\ cat.plans[p].body = PlanBody(disk[t], BlockReason(disk[t], TRUE))
          /\ cat.runs[s].plan = p /\ cat.runs[s].started = out[t].at
          /\ \A f \in DOMAIN cat.runs[s].files \cap DOMAIN out[t].files :
               cat.runs[s].files[f] = out[t].files[f]
    BY <2>1 DEF Settled
  <2>3. cat.runs[r].plan = p
    <3>1. /\ cat.runs[r].plan \in DOMAIN cat.plans
          /\ \A x, y \in DOMAIN cat.plans : cat.plans[x].body = cat.plans[y].body => x = y
      BY <2>1 DEF CatalogOK
    <3> QED
      BY <2>2, <3>1
  <2>4. r = s
    BY <2>1, <2>2, <2>3 DEF CatalogOK, SameRun
  <2> QED
    BY <2>2, <2>4
<1> QED
  BY <1>1, CatalogIsConsistent, PTL

\* No job runs a revision whose origins were typed into the form, but for the two
\* exceptions the property names (build_plan_record, edit_plan_revision).
THEOREM UnreviewedIsNotQueued == Spec => []NeedsReviewNeverQueued
<1>1. Inv => NeedsReviewNeverQueued
  BY DEF Inv, TypeOK, ReviewAgrees, ReadyIsReviewed, NeedsReviewNeverQueued
<1> QED
  BY <1>1, CatalogIsConsistent, PTL

=============================================================================
