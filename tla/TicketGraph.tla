---------------------------- MODULE TicketGraph ----------------------------
(***************************************************************************)
(* The relationship graph of the catalog's tickets and the candidate       *)
(* incident groups derived from it (relationships.rs, review.rs,           *)
(* grouping.rs and their tables in store.rs).  `relationships rebuild`     *)
(* extracts edges from the latest snapshot of every ticket, resolves       *)
(* targets, derives overlaps and regenerates candidates, statement by      *)
(* statement and without a transaction, while syncs, review imports and    *)
(* analysts change what it reads.                                          *)
(*                                                                         *)
(* A fingerprint is a hash of members and evidence and stands for them.    *)
(* Of a note only the two windows it quotes are kept, and the citing       *)
(* document of a reviewed edge is left out.                                *)
(***************************************************************************)
EXTENDS Integers, FiniteSets, Sequences

CONSTANTS Tickets,      \* external identifiers, natural numbers
          Kinds,        \* relationship kinds that source wording gives
          Windows,      \* event windows, <<start, end>>
          Contents,     \* snapshots: the references of the text, and the window
          Labels,       \* reviewed entity labels
          ChangeIds,    \* reviewed maintenance and change identifiers
          CaseStudies,
          None,
          MaxVersion,   \* bound on the snapshots of a ticket
          MaxChanges,   \* bound on the changes from outside
          MaxRebuilds   \* bound on the rebuilds started

ASSUME TicketsAreNumbers == Tickets \subseteq Nat
ASSUME WindowsAreIntervals == \A w \in Windows : w \in Nat \X Nat /\ w[1] < w[2]
ASSUME ContentsTyped ==
  Contents \subseteq [refs : SUBSET (Tickets \X Kinds), window : Windows \cup {None}]
ASSUME CatalogIsFinite == IsFiniteSet(Tickets) /\ IsFiniteSet(Kinds)
ASSUME BoundsAreNat == {MaxVersion, MaxChanges, MaxRebuilds} \subseteq Nat

VARIABLES snapshots, \* event_snapshots of a ticket, oldest first
          reviews,   \* ticket_reviews: labels and change ids of a ticket
          links,     \* case_study_event_links: the tickets of a case study
          edges,     \* ticket_relationships
          groups,    \* incident_group_candidates
          pc,        \* of the rebuild command
          todo,      \* what the running stage has still to do
          current,   \* the candidate that upsert_group is at, if any
          at,        \* the next statement of upsert_group
          doomed,    \* rows that supersede_pair_groups has still to delete
          changed,   \* number of changes from outside so far
          rebuilds,  \* number of rebuilds started
          fresh,     \* history: nothing changed since the last rebuild began,
                     \* and that rebuild was not cut short
          late       \* history: the rows rejected while upsert_group was at
                     \* a candidate with their members

graph == << snapshots, reviews, links >>
upserting == << current, at, doomed, late >>
vars == << snapshots, reviews, links, edges, groups, pc, todo, upserting,
           changed, rebuilds, fresh >>

Catalogued == {t \in Tickets : snapshots[t] # << >>}
Latest(t) == snapshots[t][Len(snapshots[t])]
\* Unordered pairs; a reviewed edge may pair a ticket with itself.
Pairs == {{q[1], q[2]} : q \in Tickets \X Tickets}

Init ==
  /\ snapshots = [t \in Tickets |-> << >>]
  /\ reviews = [t \in Tickets |-> {}]
  /\ links = [c \in CaseStudies |-> {}]
  /\ edges = {} /\ groups = {}
  /\ pc = "idle" /\ todo = {}
  /\ current = {} /\ at = "check" /\ doomed = {} /\ late = {}
  /\ changed = 0 /\ rebuilds = 0 /\ fresh = FALSE

-----------------------------------------------------------------------------
(* Edges                                                                   *)

\* uq_relationship_dedup
EdgeKey(e) == << e.from, e.to, e.kind, e.evidence, e.snapshot >>

\* insert_relationship, INSERT OR IGNORE: an edge that is there stays.
insert_relationship(all, new) ==
  all \cup {n \in new : \A e \in all : EdgeKey(n) # EdgeKey(e)}

has_reviewed_edge(t, to) ==
  \E e \in edges : e.from = t /\ e.to = to /\ e.reviewed # "Unreviewed"

Edge(from, to, kind, evidence, snapshot, reviewed, note) ==
  [from |-> from, to |-> to, resolved |-> to \in Catalogued, kind |-> kind,
   evidence |-> evidence, snapshot |-> snapshot, reviewed |-> reviewed, note |-> note]

\* One event of extract_relationships_from_snapshots.
ExtractedFrom(t) ==
  {Edge(t, r[1], r[2], "ExplicitTicketText", Len(snapshots[t]), "Unreviewed", None) :
     r \in {x \in Latest(t).refs : x[1] # t /\ ~has_reviewed_edge(t, x[1])}}

Overlap(v, w) == v # None /\ w # None /\ v[1] < w[2] /\ w[1] < v[2]

\* derive_temporal_overlaps: an edge each way, with the windows in its note.
TemporalEdges ==
  {Edge(p[1], p[2], "TemporalOverlap", "DerivedTemporalOverlap", 0, "Unreviewed",
        [t \in {p[1], p[2]} |-> Latest(t).window]) :
     p \in {q \in Catalogued \X Catalogued :
              q[1] # q[2] /\ Overlap(Latest(q[1]).window, Latest(q[2]).window)}}

\* What the reviews of all these tickets name; none when one has no review.
Shared(rs, ts) == {l \in Labels \cup ChangeIds : \A t \in ts : l \in rs[t]}

\* derive_entity_overlaps: one way, from the lower identifier.
EntityEdges(rs) ==
  {Edge(q[1], q[2], "EntityOverlap", "DerivedEntityOverlap", 0, "Unreviewed", None) :
     q \in {x \in Tickets \X Tickets :
              x[1] < x[2] /\ Shared(rs, {x[1], x[2]}) \cap Labels # {}}}

-----------------------------------------------------------------------------
(* Changes from outside                                                    *)

Change ==
  /\ changed < MaxChanges
  /\ changed' = changed + 1
  /\ fresh' = FALSE

\* A sync stores a new snapshot (record_fetch); a text that was stored before is
\* not stored again.
Sync(t, c) ==
  /\ Change
  /\ Len(snapshots[t]) < MaxVersion
  /\ \A n \in DOMAIN snapshots[t] : snapshots[t][n] # c
  /\ snapshots' = [snapshots EXCEPT ![t] = Append(@, c)]
  /\ UNCHANGED << reviews, links, edges, groups, pc, todo, upserting, rebuilds >>

\* A case study's link to a ticket is resolved once the ticket is there.
LinkCaseStudy(c, t) ==
  /\ Change
  /\ t \in Catalogued \ links[c]
  /\ links' = [links EXCEPT ![c] = @ \cup {t}]
  /\ UNCHANGED << snapshots, reviews, edges, groups, pc, todo, upserting, rebuilds >>

\* A review file with one ticket: validate_review, upsert_ticket_review and
\* derive_entity_overlaps, which the import ends with.
ImportReview(t, labels) ==
  /\ Change
  /\ t \in Catalogued
  /\ reviews' = [reviews EXCEPT ![t] = labels]
  /\ edges' = insert_relationship(edges, EntityEdges(reviews'))
  /\ UNCHANGED << snapshots, links, groups, pc, todo, upserting, rebuilds >>

\* The same, ended between the two statements.
ImportReviewInterrupted(t, labels) ==
  /\ Change
  /\ t \in Catalogued
  /\ reviews' = [reviews EXCEPT ![t] = labels]
  /\ UNCHANGED << snapshots, links, edges, groups, pc, todo, upserting, rebuilds >>

\* import_reviewed_edge: the target need not be in the catalog.
ImportReviewedEdge(t, to, kind, evidence) ==
  /\ Change
  /\ t \in Catalogued
  /\ LET new == Edge(t, to, kind, evidence, Len(snapshots[t]), "Accepted", None) IN
       edges' = insert_relationship(edges, {new})
  /\ UNCHANGED << snapshots, reviews, links, groups, pc, todo, upserting, rebuilds >>

\* reject_candidate
Rejection(g) == [g EXCEPT !.confidence = "Rejected", !.review = "Reviewed"]

RejectCandidate(g) ==
  /\ Change
  /\ groups' = (groups \ {g}) \cup {Rejection(g)}
  /\ late' = IF g.confidence # "Rejected" /\ \E c \in current : c.members = g.members
             THEN late \cup {Rejection(g)} ELSE late
  /\ UNCHANGED << snapshots, reviews, links, edges, pc, todo, current, at, doomed, rebuilds >>

-----------------------------------------------------------------------------
(* relationships rebuild                                                   *)

Start ==
  /\ pc = "idle" /\ rebuilds < MaxRebuilds
  /\ pc' = "extract" /\ todo' = Catalogued
  /\ rebuilds' = rebuilds + 1
  /\ fresh' = TRUE
  /\ UNCHANGED << graph, edges, groups, upserting, changed >>

Extract(t) ==
  /\ pc = "extract" /\ t \in todo
  /\ edges' = insert_relationship(edges, ExtractedFrom(t))
  /\ todo' = todo \ {t}
  /\ UNCHANGED << graph, groups, pc, upserting, changed, rebuilds, fresh >>

\* resolve_unresolved_edges
Resolved == {[e EXCEPT !.resolved = e.resolved \/ e.to \in Catalogued] : e \in edges}

Resolve ==
  /\ pc = "extract" /\ todo = {}
  /\ edges' = Resolved
  /\ pc' = "windows"
  /\ UNCHANGED << graph, groups, todo, upserting, changed, rebuilds, fresh >>

\* derive_temporal_overlaps reads all windows and then inserts edge by edge.
ReadWindows ==
  /\ pc = "windows"
  /\ todo' = TemporalEdges
  /\ pc' = "overlaps"
  /\ UNCHANGED << graph, edges, groups, upserting, changed, rebuilds, fresh >>

RecordOverlap(e) ==
  /\ pc = "overlaps" /\ e \in todo
  /\ edges' = insert_relationship(edges, {e})
  /\ todo' = todo \ {e}
  /\ UNCHANGED << graph, groups, pc, upserting, changed, rebuilds, fresh >>

Candidate(members, evidence, confidence) ==
  [members |-> members, evidence |-> evidence, confidence |-> confidence,
   review |-> "Unreviewed"]

\* A signal and its detail; evidence is sorted and deduplicated, a set.
Item(signal, detail) == [signal |-> signal, detail |-> detail]

\* generate_candidates, first part: the case studies with several tickets.
ReadCaseStudies ==
  /\ pc = "overlaps" /\ todo = {}
  /\ todo' = {Candidate(links[c], {Item("SharedCaseStudy", c)}, "StrongCandidate") :
                c \in {x \in CaseStudies : Cardinality(links[x]) > 1}}
  /\ pc' = "case_groups"
  /\ UNCHANGED << graph, edges, groups, upserting, changed, rebuilds, fresh >>

EdgesOf(p, evidence) ==
  {e \in edges : {e.from, e.to} = p /\ e.resolved /\ e.evidence = evidence}

\* The same with the windows as they are now.
TemporalItems_current(p) ==
  {Item("DerivedTemporalOverlap", [t \in p |-> Latest(t).window]) :
     e \in EdgesOf(p, "DerivedTemporalOverlap")}

TemporalItems(p) ==
  {Item("DerivedTemporalOverlap", e.note) : e \in EdgesOf(p, "DerivedTemporalOverlap")}

\* Reviews are compared two by two, each with another one.
SharedOf(p, names) ==
  {Shared(reviews, p) \cap names : q \in {x \in p \X p : x[1] # x[2]}}

\* The supporting signals of an unordered pair.
Evidence(p) ==
  {Item("ExplicitTicketText", << e.kind, e.from, e.to >>) :
     e \in EdgesOf(p, "ExplicitTicketText")}
  \cup TemporalItems(p)
  \cup {Item("SharedReviewedEntity", s) : s \in SharedOf(p, Labels) \ {{}}}
  \cup {Item("SharedMaintenanceChange", s) : s \in SharedOf(p, ChangeIds) \ {{}}}

Signals(evidence) == {i.signal : i \in evidence}

\* classify_pair
classify_pair(evidence) ==
  IF "ExplicitTicketText" \in Signals(evidence) THEN "ExplicitlyLinked"
  ELSE IF Signals(evidence) \cap {"SharedReviewedEntity", "SharedMaintenanceChange"} # {}
       THEN "WeakCandidate" ELSE "TemporalCoincidence"

PairCandidates ==
  {Candidate(p, Evidence(p), classify_pair(Evidence(p))) :
     p \in {q \in Pairs : Evidence(q) # {}}}

\* generate_candidates, second part: all pairs are read before the first upsert.
ReadPairs ==
  /\ pc = "case_groups" /\ todo = {} /\ current = {}
  /\ todo' = PairCandidates
  /\ pc' = "pair_groups"
  /\ UNCHANGED << graph, edges, groups, upserting, changed, rebuilds, fresh >>

\* evidence_fingerprint
SameFingerprint(g, c) == g.members = c.members /\ g.evidence = c.evidence

\* The same by the members alone.
is_rejected_members(c) == \E g \in groups : g.members = c.members /\ g.confidence = "Rejected"

\* is_rejected_fingerprint
is_rejected(c) == \E g \in groups : SameFingerprint(g, c) /\ g.confidence = "Rejected"

\* The same without a look at the review.
Superseded_reviewed(c) ==
  {g \in groups :
     /\ g.members = c.members
     /\ Cardinality(g.evidence) < Cardinality(c.evidence)
     /\ Signals(g.evidence) \subseteq Signals(c.evidence)}

\* supersede_pair_groups compares the numbers of signals and which there are, not
\* their details.
Superseded(c) ==
  {g \in groups :
     /\ g.review = "Unreviewed" /\ g.members = c.members
     /\ Cardinality(g.evidence) < Cardinality(c.evidence)
     /\ Signals(g.evidence) \subseteq Signals(c.evidence)}

\* upsert_group, its first statement; each of the next is one of its statements.
Upsert(c) ==
  /\ c \in todo /\ pc \in {"case_groups", "pair_groups"} /\ current = {}
  /\ todo' = todo \ {c}
  /\ \/ /\ is_rejected(c)
        /\ UNCHANGED << current, at >>
     \/ /\ ~is_rejected(c)
        /\ current' = {c} /\ at' = "list"
  /\ UNCHANGED << graph, edges, groups, pc, doomed, late, changed, rebuilds, fresh >>

\* supersede_pair_groups reads all rows
ListSuperseded ==
  /\ at = "list"
  /\ \E c \in current : doomed' = Superseded(c)
  /\ at' = "delete"
  /\ UNCHANGED << graph, edges, groups, pc, todo, current, late, changed, rebuilds, fresh >>

\* and deletes what it chose by id, whatever has become of the row.
DeleteRow(g) ==
  /\ at = "delete" /\ g \in doomed
  /\ groups' = {h \in groups : ~SameFingerprint(h, g)}
  /\ doomed' = doomed \ {g}
  /\ UNCHANGED << graph, edges, pc, todo, current, at, late, changed, rebuilds, fresh >>

\* upsert_group returns.
Return == current' = {} /\ at' = "check" /\ late' = {}

\* insert_group_candidate looks for a row with the fingerprint
LookUp ==
  /\ at = "delete" /\ doomed = {}
  /\ \E c \in current :
       LET rows == {g \in groups : SameFingerprint(g, c)} IN
         \/ /\ rows = {}
            /\ at' = "insert"
            /\ UNCHANGED << current, late >>
         \/ /\ \E g \in rows : g.confidence # "Rejected" /\ g.review = "Unreviewed"
            /\ at' = "update"
            /\ UNCHANGED << current, late >>
         \/ /\ \E g \in rows : g.confidence = "Rejected" \/ g.review # "Unreviewed"
            /\ Return
  /\ UNCHANGED << graph, edges, groups, pc, todo, doomed, changed, rebuilds, fresh >>

\* and reclassifies it, by id,
Reclassify ==
  /\ at = "update"
  /\ \E c \in current :
       groups' = {IF SameFingerprint(g, c) THEN [g EXCEPT !.confidence = c.confidence] ELSE g :
                    g \in groups}
  /\ Return
  /\ UNCHANGED << graph, edges, pc, todo, doomed, changed, rebuilds, fresh >>

\* or inserts one, OR IGNORE.
InsertCandidate ==
  /\ at = "insert"
  /\ \E c \in current :
       groups' = groups \cup {d \in {c} : \A g \in groups : ~SameFingerprint(g, d)}
  /\ Return
  /\ UNCHANGED << graph, edges, pc, todo, doomed, changed, rebuilds, fresh >>

Finish ==
  /\ pc = "pair_groups" /\ todo = {} /\ current = {}
  /\ pc' = "idle"
  /\ UNCHANGED << graph, edges, groups, todo, upserting, changed, rebuilds, fresh >>

\* The command fails or dies between two statements.
Die ==
  /\ pc # "idle"
  /\ pc' = "idle" /\ todo' = {} /\ doomed' = {} /\ Return
  /\ fresh' = FALSE
  /\ UNCHANGED << graph, edges, groups, changed, rebuilds >>

Outside ==
  \/ \E t \in Tickets, c \in Contents : Sync(t, c)
  \/ \E s \in CaseStudies, t \in Tickets : LinkCaseStudy(s, t)
  \/ \E t \in Tickets, l \in SUBSET (Labels \cup ChangeIds) :
       ImportReview(t, l) \/ ImportReviewInterrupted(t, l)
  \/ \E t, to \in Tickets, k \in Kinds, e \in {"ExplicitTicketText", "AnalystReviewed"} :
       ImportReviewedEdge(t, to, k, e)
  \/ \E g \in groups : RejectCandidate(g)

Rebuild ==
  \/ Start \/ Resolve \/ ReadWindows \/ ReadCaseStudies \/ ReadPairs
  \/ \E x \in todo : Extract(x) \/ RecordOverlap(x) \/ Upsert(x)
  \/ ListSuperseded \/ LookUp \/ Reclassify \/ InsertCandidate \/ Finish \/ Die
  \/ \E g \in doomed : DeleteRow(g)

Next == Outside \/ Rebuild

Spec == Init /\ [][Next]_vars

-----------------------------------------------------------------------------
(* Properties                                                              *)

Edges ==
  [from : Tickets, to : Tickets, resolved : BOOLEAN,
   kind : Kinds \cup {"TemporalOverlap", "EntityOverlap"},
   evidence : {"ExplicitTicketText", "AnalystReviewed", "DerivedTemporalOverlap",
               "DerivedEntityOverlap"},
   snapshot : 0 .. MaxVersion, reviewed : {"Unreviewed", "Accepted"},
   note : {None} \cup UNION {[p -> Windows] : p \in Pairs}]

\* A stored version of the ticket has this window.
HadWindow(t, w, snaps) == \E n \in DOMAIN snaps[t] : snaps[t][n].window = w

\* An edge is resolved only to a known ticket.  What wording gave is in the version
\* of the text that the edge names, an accepted edge names a stored version, and an
\* overlap is one of two windows that the tickets have had.  Only a review pairs a
\* ticket with itself.
EdgeOK(e, snaps) ==
  /\ e \in Edges
  /\ e.resolved => snaps[e.to] # << >>
  /\ e.reviewed = "Unreviewed" => e.from # e.to
  /\ e.reviewed = "Accepted" => e.snapshot \in DOMAIN snaps[e.from]
  /\ e.reviewed = "Unreviewed" /\ e.evidence = "ExplicitTicketText" =>
       e.snapshot \in DOMAIN snaps[e.from]
       /\ << e.to, e.kind >> \in snaps[e.from][e.snapshot].refs
  /\ e.evidence = "DerivedTemporalOverlap" =>
       /\ e.kind = "TemporalOverlap" /\ e.snapshot = 0 /\ e.reviewed = "Unreviewed"
       /\ Overlap(e.note[e.from], e.note[e.to])
       /\ \A t \in {e.from, e.to} : HadWindow(t, e.note[t], snaps)

\* The tables keep their types, and no two rows have one key (the unique indexes
\* on edges and on fingerprints).
TypeOK ==
  /\ snapshots \in [Tickets -> Seq(Contents)]
  /\ \A t \in Tickets : Len(snapshots[t]) <= MaxVersion
  /\ reviews \in [Tickets -> SUBSET (Labels \cup ChangeIds)]
  /\ links \in [CaseStudies -> SUBSET Tickets]
  /\ IsFiniteSet(edges)
  /\ \A e \in edges : EdgeOK(e, snapshots)
  /\ \A e, f \in edges : EdgeKey(e) = EdgeKey(f) => e = f
  /\ \A g, h \in groups : SameFingerprint(g, h) => g = h

\* "Rejected or reviewed rows are never touched" (supersede_pair_groups): a rejected
\* candidate stays what it is, whatever is generated at that time or later.  Not so
\* when it was chosen before it was rejected.
RejectedKept ==
  [][\A g \in groups : g.confidence = "Rejected" => g \in groups']_vars

\* "The rejected fingerprint is retained so regeneration skips it": so it is, but
\* for a rejection that lands while upsert_group is at a candidate of the same
\* tickets; one that survives this call is kept from then on (reject_candidate,
\* supersede_pair_groups, insert_group_candidate).
SettledRejectionsKept ==
  [][\A g \in groups : g.confidence = "Rejected" /\ g \notin late => g \in groups']_vars

\* Evidence is traced to an edge between the members of the group, or to a case
\* study that links them all; what reviews shared is not, as they are overwritten.
Sourced(g, es, ls) ==
  \A i \in g.evidence :
    /\ i.signal = "ExplicitTicketText" =>
         \E e \in es : /\ << e.kind, e.from, e.to >> = i.detail
                       /\ e.evidence = "ExplicitTicketText" /\ e.resolved
                       /\ {e.from, e.to} = g.members
    /\ i.signal = "DerivedTemporalOverlap" =>
         \E e \in es : /\ e.evidence = "DerivedTemporalOverlap" /\ e.note = i.detail
                       /\ {e.from, e.to} = g.members
    /\ i.signal = "SharedCaseStudy" =>
         \E s \in CaseStudies : i.detail = s /\ g.members \subseteq ls[s]

\* Explicit, temporal and case study evidence of a candidate can be traced to what
\* is stored, also when the windows and the wording have changed since
\* (generate_candidates against the append-only edges).
EvidenceHasSource == \A g \in groups : Sourced(g, edges, links)

AllResolved == \A e \in edges : e.resolved <=> e.to \in Catalogued

\* A pair has a row with exactly the evidence there is for it, and no weaker row of
\* it is left to review.
Done(c) ==
  /\ \E g \in groups : SameFingerprint(g, c)
  /\ is_rejected(c) \/ Superseded(c) = {}

\* After a rebuild that nothing disturbed every pair is done, no edge to a ticket
\* of the catalog is unresolved and no overlap is missing; so another one changes
\* nothing ("Idempotent", cmd_relationships_rebuild).
RebuildIsComplete ==
  pc = "idle" /\ fresh =>
    /\ \A c \in PairCandidates : Done(c)
    /\ AllResolved
    /\ TemporalEdges \subseteq {[e EXCEPT !.note = [t \in {e.from, e.to} |-> Latest(t).window]] :
                                  e \in {f \in edges : f.evidence = "DerivedTemporalOverlap"}}

IsRow(g) ==
  g = [members |-> g.members, evidence |-> g.evidence, confidence |-> g.confidence,
       review |-> g.review]

\* What a rejection leaves behind: a row that says so in both columns.
RejectedIsReviewed ==
  \A g \in groups : IsRow(g) /\ (g.confidence = "Rejected" => g.review = "Reviewed")

\* A candidate that generate_candidates may propose.
Proposed(c) ==
  /\ IsRow(c) /\ c.confidence # "Rejected" /\ c.review = "Unreviewed"
  /\ Sourced(c, edges, links)

\* What the rebuild holds in memory between two statements.
PendingAgrees ==
  /\ pc = "extract" => todo \subseteq Catalogued
  /\ pc = "overlaps" => \A e \in todo : EdgeOK(e, snapshots)
  /\ pc \in {"case_groups", "pair_groups"} => \A c \in todo : Proposed(c)
  /\ \A c \in current : Proposed(c) /\ pc \in {"case_groups", "pair_groups"}

\* What upsert_group may still delete or overwrite has the members of its candidate,
\* and of the rejected rows only those that came late are among it.
UpsertAgrees ==
  /\ \A c, d \in current : c = d
  /\ \A d \in doomed : at = "delete" /\ \E c \in current : c.members = d.members
  /\ \A g \in groups : g.confidence = "Rejected" /\ g \notin late =>
       /\ \A d \in doomed : ~SameFingerprint(g, d)
       /\ at = "update" => \A c \in current : ~SameFingerprint(g, c)

\* The tables, and what the rebuild holds of them.
TablesInv ==
  TypeOK /\ EvidenceHasSource /\ RejectedIsReviewed /\ PendingAgrees /\ UpsertAgrees

HasOverlap(e) ==
  \E f \in edges : f.evidence = "DerivedTemporalOverlap" /\ f.from = e.from /\ f.to = e.to

\* How far upsert_group is with its candidate.
UpsertDone(c) ==
  /\ at = "delete" => Superseded(c) \subseteq doomed
  /\ at \in {"update", "insert"} => Superseded(c) = {}
  /\ at = "update" => \E g \in groups : SameFingerprint(g, c)
  /\ at \in {"list", "delete", "update", "insert"}

\* What the stages of a rebuild that nothing disturbed have achieved.
StagesDone ==
  fresh =>
    /\ pc # "extract" => AllResolved
    /\ pc = "overlaps" => /\ todo \subseteq TemporalEdges
                          /\ \A e \in TemporalEdges \ todo : HasOverlap(e)
    /\ pc \in {"case_groups", "pair_groups", "idle"} => \A e \in TemporalEdges : HasOverlap(e)
    /\ pc = "pair_groups" =>
         /\ todo \cup current \subseteq PairCandidates
         /\ todo \cap current = {}
         /\ \A c \in current : UpsertDone(c)
         /\ \A c \in PairCandidates \ (todo \cup current) : Done(c)
    /\ pc = "idle" => \A c \in PairCandidates : Done(c)

\* The types, everything derived has a source, what the statements of a rebuild rely
\* on while others change the tables, and what its stages have achieved when nobody
\* does (relationships.rs, grouping.rs).
Inv == TablesInv /\ StagesDone

=============================================================================
