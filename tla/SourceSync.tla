----------------------------- MODULE SourceSync -----------------------------
(***************************************************************************)
(* How tickets enter the catalog: discovery rows and the fetch frontier    *)
(* (src/src/catalog/discovery.rs, store.rs), the live sync                 *)
(* (cmd_grnoc_sync_live in src/src/main.rs, sync_frontier and fetch_ticket *)
(* in src/src/catalog/grnoc_viewer.rs), the sync from an export            *)
(* (sync_catalog in src/src/catalog/sync.rs) and record_fetch.             *)
(*                                                                         *)
(* A live sync is one process: searches, then one transaction over the     *)
(* whole frontier with a lookup per ticket, then reference expansion.  It  *)
(* may die anywhere; the transaction is then gone.  SQLite admits one      *)
(* writing transaction, so nobody else writes while it is open.  The       *)
(* source may change a ticket at any time.  Requests follow the contract   *)
(* of the HTTP client (FetchContract).                                     *)
(***************************************************************************)
EXTENDS Naturals, Sequences

CONSTANTS Tickets,
          Contents,     \* what the source may serve for a ticket
          Missing,      \* the source does not serve the ticket
          Refers,       \* the tickets a content names
          Served,       \* what the source serves at first
          Excluded,     \* source records excluded by project scope
          Unsupported,  \* ticket families without an endpoint
          Faults,       \* unfavourable outcomes of a request
          MaxRequests, MaxRetries,
          Origins,      \* ways other commands record tickets
          MaxSearches,  \* --search flags of one command
          MaxEdits,     \* bound on changes of the source
          MaxMishaps    \* bound on process deaths and unfavourable outcomes

ASSUME TicketsAssumption ==
  /\ Excluded \subseteq Tickets /\ Unsupported \subseteq Tickets
  /\ Missing \notin Contents
  /\ Refers \in [Contents -> SUBSET Tickets]
  /\ Served \in [Tickets -> Contents \cup {Missing}]
ASSUME SyncBoundsAssumption ==
  /\ MaxRequests \in Nat \ {0} /\ MaxRetries \in Nat
  /\ MaxSearches \in Nat /\ MaxEdits \in Nat /\ MaxMishaps \in Nat
  /\ Origins \subseteq {"AnalystSeed", "CaseStudyReference", "DocumentReference"}

VARIABLES
  source,     \* [Tickets -> Contents \cup {Missing}]
  db,         \* the committed catalog
  tx,         \* the catalog as the open transaction sees it
  pc,         \* the live sync: "idle", "search", "refer", "begin", "frontier", "expand"
  todo,       \* references not yet recorded, or tickets not yet looked at
  stopped,    \* CorpusSyncSummary::stopped is set
  expand,     \* --expand-references
  searches,   \* searches done
  remaining, returned,    \* the HTTP client
  asked,      \* tickets looked up by this command
  edits, mishaps

clientVars == <<remaining, returned>>
vars == <<source, db, tx, pc, todo, stopped, expand, searches, clientVars, asked, edits, mishaps>>

Client == INSTANCE FetchContract

\* An unfavourable outcome is one of the client's, or a body that cannot be parsed.
\* A ticket that is not served and an answer are not unfavourable.
ASSUME FaultsAssumption ==
  Faults \subseteq (Client!Outcomes \cup {"garbled"}) \ {"ok", "not_found"}

\* What the client returns: a body that cannot be parsed is an answer to it.
Reply(o) == IF o = "garbled" THEN "ok" ELSE o

\* Outcomes of a request that may occur next.
Expected == {"ok"} \cup (IF mishaps < MaxMishaps THEN Faults ELSE {})
Count(o) == mishaps' = IF o \in Faults THEN mishaps + 1 ELSE mishaps

\* How a ticket identifier became known.  The hits of a search are recorded as
\* seeds of the analyst; PublicSearchResult is never written.
Provenances == {"AnalystSeed", "CaseStudyReference", "DocumentReference",
                "TicketDescriptionReference"}

\* A row of ticket_discoveries.
Rows == [ticket : Tickets, provenance : Provenances,
         status : {"Pending", "Fetched", "Unresolved"}]

\* The catalog: discovery rows in the order of their ids, and the snapshots of
\* each ticket from oldest to latest.
EmptyCatalog == [rows |-> << >>,
                 snapshots |-> [t \in Tickets |-> << >>]]

Init ==
  /\ source = Served
  /\ db = EmptyCatalog
  /\ tx = EmptyCatalog
  /\ pc = "idle"
  /\ todo = {}
  /\ stopped = FALSE
  /\ expand = FALSE
  /\ searches = 0
  /\ remaining = MaxRequests
  /\ returned = "none"
  /\ asked = {}
  /\ edits = 0
  /\ mishaps = 0

-----------------------------------------------------------------------------
(* The store                                                               *)

PendingIn(c) ==
  {t \in Tickets : \E k \in DOMAIN c.rows : c.rows[k].ticket = t /\ c.rows[k].status = "Pending"}

\* The first pending row of a ticket comes before that of another.
Before(c, t, u) ==
  \E k \in DOMAIN c.rows :
    /\ c.rows[k].ticket = t /\ c.rows[k].status = "Pending"
    /\ \A j \in 1 .. k : ~(c.rows[j].ticket = u /\ c.rows[j].status = "Pending")

\* record_discovery: a second row of a ticket with the same provenance is
\* merged into the first, whatever its status.
record_discovery(c, t, p) ==
  IF \E k \in DOMAIN c.rows : c.rows[k].ticket = t /\ c.rows[k].provenance = p
  THEN c
  ELSE [c EXCEPT !.rows = Append(c.rows, [ticket |-> t, provenance |-> p,
                                          status |-> "Pending"])]

\* mark_frontier_fetched and update_discovery_status_rows.
Advance(c, t, status) ==
  [c EXCEPT !.rows = [k \in DOMAIN c.rows |->
     IF c.rows[k].ticket = t /\ c.rows[k].status = "Pending"
     THEN [c.rows[k] EXCEPT !.status = status]
     ELSE c.rows[k]]]

\* Mutant: the ticket's snapshot is replaced.
record_fetch_replaces(c, t, x) ==
  [c EXCEPT !.snapshots[t] = <<x>>]

\* record_fetch and the body of sync_catalog's loop: a content that the ticket
\* has had before gives no new snapshot.
record_fetch(c, t, x) ==
  [c EXCEPT !.snapshots[t] = IF \E k \in DOMAIN c.snapshots[t] : c.snapshots[t][k] = x
                             THEN c.snapshots[t]
                             ELSE Append(c.snapshots[t], x)]

Latest(c, t) == c.snapshots[t][Len(c.snapshots[t])]

\* expand_from_snapshots reads the latest snapshot of every ticket.
ReferencesIn(c) ==
  {r \in Tickets : \E t \in Tickets \ {r} :
     c.snapshots[t] # << >> /\ r \in Refers[Latest(c, t)]}

-----------------------------------------------------------------------------
(* Other commands and the source                                           *)

NoTransaction == pc # "frontier"

\* Seeds, case studies and documents.
Discover(t, p) ==
  /\ NoTransaction
  /\ db' = record_discovery(db, t, p)
  /\ UNCHANGED <<source, tx, pc, todo, stopped, expand, searches, clientVars, asked, edits, mishaps>>

\* sync_catalog over an export of the source, in one transaction.
SyncCatalog ==
  /\ NoTransaction
  /\ db' = [db EXCEPT
       !.snapshots = [t \in Tickets |->
          IF source[t] = Missing THEN db.snapshots[t]
          ELSE record_fetch(db, t, source[t]).snapshots[t]]]
  /\ UNCHANGED <<source, tx, pc, todo, stopped, expand, searches, clientVars, asked, edits, mishaps>>

Edit(t, x) ==
  /\ source[t] # x
  /\ edits < MaxEdits
  /\ edits' = edits + 1
  /\ source' = [source EXCEPT ![t] = x]
  /\ UNCHANGED <<db, tx, pc, todo, stopped, expand, searches, clientVars, asked, mishaps>>

-----------------------------------------------------------------------------
(* The live sync                                                           *)

\* The command starts with a client of its own and the whole budget.
Begin(e) ==
  /\ pc = "idle"
  /\ pc' = "search"
  /\ expand' = e
  /\ searches' = 0
  /\ stopped' = FALSE
  /\ remaining' = MaxRequests
  /\ returned' = "none"
  /\ asked' = {}
  /\ UNCHANGED <<source, db, tx, todo, edits, mishaps>>

\* A search with one hit or none.  A hit that the scope excludes is not
\* recorded.  After an error no further search is made.
Search ==
  /\ pc = "search"
  /\ searches < MaxSearches
  /\ remaining > 0
  /\ \E k \in 1 .. (MaxRetries + 1), o \in Expected :
       /\ Client!Fetch(k, Reply(o))
       /\ Count(o)
       /\ \/ /\ o \in Client!Answers
             /\ searches' = searches + 1
             /\ \E t \in Tickets :
                  db' = IF o = "ok" /\ source[t] # Missing /\ t \notin Excluded
                        THEN record_discovery(db, t, "AnalystSeed")
                        ELSE db
          \/ /\ o \notin Client!Answers
             /\ searches' = MaxSearches
             /\ UNCHANGED db
  /\ UNCHANGED <<source, tx, pc, todo, stopped, expand, asked, edits>>

\* The searches are over; with --expand-references the latest snapshots are
\* read.  Seeds and case studies are recorded by Discover.
StartExpansion ==
  /\ pc = "search"
  /\ pc' = "refer"
  /\ todo' = IF expand THEN ReferencesIn(db) ELSE {}
  /\ UNCHANGED <<source, db, tx, stopped, expand, searches, clientVars, asked, edits, mishaps>>

\* One row of the reference expansion, committed on its own.
Expand(t) ==
  /\ pc \in {"refer", "expand"}
  /\ t \in todo
  /\ todo' = todo \ {t}
  /\ db' = record_discovery(db, t, "TicketDescriptionReference")
  /\ UNCHANGED <<source, tx, pc, stopped, expand, searches, clientVars, asked, edits, mishaps>>

\* The process ends and forgets what it had.
Quit ==
  /\ pc' = "idle"
  /\ todo' = {}
  /\ stopped' = FALSE
  /\ expand' = FALSE
  /\ searches' = 0
  /\ remaining' = MaxRequests
  /\ returned' = "none"
  /\ asked' = {}
  /\ tx' = EmptyCatalog

\* pending_frontier: with nothing pending the command ends.
ReadFrontier ==
  /\ pc = "refer" /\ todo = {}
  /\ IF PendingIn(db) = {}
     THEN Quit
     ELSE /\ pc' = "begin"
          /\ todo' = PendingIn(db)
          /\ UNCHANGED <<tx, stopped, expand, searches, clientVars, asked>>
  /\ UNCHANGED <<source, db, edits, mishaps>>

\* sync_frontier opens the transaction and writes the row of the sync run.
BeginTransaction ==
  /\ pc = "begin"
  /\ pc' = "frontier"
  /\ tx' = db
  /\ UNCHANGED <<source, db, todo, stopped, expand, searches, clientVars, asked, edits, mishaps>>

\* The ticket is the next of the frontier.
IsNext(t) ==
  /\ pc = "frontier" /\ ~stopped
  /\ t \in todo
  /\ \A u \in todo \ {t} : Before(tx, t, u)

\* The budget is used up before the ticket is looked at.
OutOfBudget ==
  /\ pc = "frontier" /\ ~stopped /\ todo # {}
  /\ remaining = 0
  /\ stopped' = TRUE
  /\ UNCHANGED <<source, db, tx, pc, todo, expand, searches, clientVars, asked, edits, mishaps>>

\* A ticket that is out of scope stays pending; one without an endpoint is
\* unresolved without a request.
Skip(t) ==
  /\ IsNext(t)
  /\ remaining > 0
  /\ t \in Excluded \cup Unsupported
  /\ todo' = todo \ {t}
  /\ tx' = IF t \in Excluded THEN tx ELSE Advance(tx, t, "Unresolved")
  /\ UNCHANGED <<source, db, pc, stopped, expand, searches, clientVars, asked, edits, mishaps>>

InScope(t) == t \notin Excluded \cup Unsupported

\* What may come back from the lookup of a ticket.
Answers(t) == Expected \cup (IF source[t] = Missing THEN {"not_found"} ELSE {})

\* Mutant: rows are advanced on the connection, outside the transaction.
LookUp_committed(t) ==
  /\ IsNext(t)
  /\ remaining > 0
  /\ InScope(t)
  /\ asked' = asked \cup {t}
  /\ todo' = todo \ {t}
  /\ \E k \in 1 .. (MaxRetries + 1), o \in Answers(t) :
       /\ Client!Fetch(k, Reply(o))
       /\ Count(o)
       /\ IF o = "ok" /\ source[t] # Missing
          THEN /\ tx' = Advance(record_fetch(tx, t, source[t]), t, "Fetched")
               /\ db' = Advance(db, t, "Fetched")
          ELSE UNCHANGED <<tx, db>>
       /\ stopped' = (o \in Client!Stops)
  /\ UNCHANGED <<source, pc, expand, searches, edits>>

\* fetch_ticket and what sync_frontier does with it: a record is stored and the
\* ticket's rows advance; a ticket that is not served is unresolved; a failure
\* leaves the ticket pending, and a stop also ends the loop.
LookUp(t) ==
  /\ IsNext(t)
  /\ remaining > 0
  /\ InScope(t)
  /\ asked' = asked \cup {t}
  /\ todo' = todo \ {t}
  /\ \E k \in 1 .. (MaxRetries + 1), o \in Answers(t) :
       /\ Client!Fetch(k, Reply(o))
       /\ Count(o)
       /\ \/ /\ o = "ok" /\ source[t] # Missing
             /\ tx' = Advance(record_fetch(tx, t, source[t]), t, "Fetched")
          \/ /\ o \in Client!Answers
             /\ o = "ok" => source[t] = Missing
             /\ tx' = Advance(tx, t, "Unresolved")
          \/ /\ o \notin Client!Answers
             /\ UNCHANGED tx
       /\ stopped' = (o \in Client!Stops)
  /\ UNCHANGED <<source, db, pc, expand, searches, edits>>

\* Mutant: the transaction is dropped when the loop was stopped.
Commit_unless_stopped ==
  /\ pc = "frontier"
  /\ stopped \/ todo = {}
  /\ db' = IF stopped THEN db ELSE tx
  /\ pc' = "expand"
  /\ todo' = IF expand THEN ReferencesIn(db') ELSE {}
  /\ tx' = EmptyCatalog
  /\ UNCHANGED <<source, stopped, expand, searches, clientVars, asked, edits, mishaps>>

\* The row of the sync run and the commit; then the second expansion begins.
Commit ==
  /\ pc = "frontier"
  /\ stopped \/ todo = {}
  /\ db' = tx
  /\ pc' = "expand"
  /\ todo' = IF expand THEN ReferencesIn(tx) ELSE {}
  /\ tx' = EmptyCatalog
  /\ UNCHANGED <<source, stopped, expand, searches, clientVars, asked, edits, mishaps>>

End ==
  /\ pc = "expand" /\ todo = {}
  /\ Quit
  /\ UNCHANGED <<source, db, edits, mishaps>>

\* The process dies, or an error of the database ends the command and the
\* transaction is rolled back.
Crash ==
  /\ pc # "idle"
  /\ mishaps < MaxMishaps
  /\ mishaps' = mishaps + 1
  /\ Quit
  /\ UNCHANGED <<source, db, edits>>

Progress ==
  \/ StartExpansion \/ ReadFrontier \/ BeginTransaction \/ OutOfBudget
  \/ \E t \in Tickets : Expand(t) \/ Skip(t) \/ LookUp(t)
  \/ Commit \/ End

Next ==
  \/ \E t \in Tickets, p \in Origins : Discover(t, p)
  \/ SyncCatalog
  \/ \E t \in Tickets, x \in Contents \cup {Missing} : Edit(t, x)
  \/ \E e \in BOOLEAN : Begin(e)
  \/ Search
  \/ Progress
  \/ Crash

Spec == Init /\ [][Next]_vars

\* The operator runs the sync again and again, and the process runs.
FairSpec ==
  /\ Spec
  /\ WF_vars(\E e \in BOOLEAN : Begin(e))
  /\ WF_vars(Progress)

-----------------------------------------------------------------------------
(* Properties                                                              *)

Catalogs ==
  [rows : Seq(Rows), snapshots : [Tickets -> Seq(Contents)]]

\* Every variable keeps its type.
TypeOK ==
  /\ source \in [Tickets -> Contents \cup {Missing}]
  /\ db \in Catalogs
  /\ tx \in Catalogs
  /\ pc \in {"idle", "search", "refer", "begin", "frontier", "expand"}
  /\ todo \subseteq Tickets
  /\ stopped \in BOOLEAN /\ expand \in BOOLEAN
  /\ searches \in 0 .. MaxSearches
  /\ remaining \in 0 .. MaxRequests
  /\ returned \in Client!Outcomes \cup {"none"}
  /\ asked \subseteq Tickets
  /\ edits \in 0 .. MaxEdits
  /\ mishaps \in 0 .. MaxMishaps

\* Rows that are Fetched have a content of the ticket.
Stored(c) ==
  \A k \in DOMAIN c.rows :
    c.rows[k].status = "Fetched" => c.snapshots[c.rows[k].ticket] # << >>

\* A row is Fetched only when a content of the ticket is stored, also after a
\* death or an error in the middle of a sync: the row and the snapshot are
\* committed together.
FetchedIsStored == Stored(db)

\* "Each ID is fetched at most once" in a run: the ticket looked up next has
\* not been looked up before.
AskedOnce == pc = "frontier" => todo \cap asked = {}

\* What the history of every ticket holds in catalog c is in that of d, in order.
Extends(c, d) ==
  \A t \in Tickets :
    /\ Len(d.snapshots[t]) >= Len(c.snapshots[t])
    /\ \A k \in DOMAIN c.snapshots[t] : d.snapshots[t][k] = c.snapshots[t][k]

\* "Snapshots are immutable": what a ticket's history holds stays, in order.
SnapshotsAppendOnly == [][Extends(db, db')]_vars

\* "remaining IDs stay Pending and are resumed by a later run": once the source
\* answers, a pending ticket is looked up in the end, although every run has a
\* budget, starts from the head of the frontier and stops at the first refusal,
\* and although excluded tickets stay in the frontier.
PendingResolved ==
  \A t \in Tickets \ Excluded : t \in PendingIn(db) ~> t \notin PendingIn(db)

\* The open transaction has what is committed and what the lookups of this run
\* have added; before the frontier nothing has been looked up.
TransactionAgrees ==
  /\ pc = "frontier" => Stored(tx) /\ Extends(db, tx)
  /\ pc \in {"idle", "search", "refer", "begin"} => asked = {}

\* The types; rows agree with what is stored; no ticket is asked for twice in a run;
\* what the commit relies on (sync_frontier, record_fetch).
Inv == TypeOK /\ FetchedIsStored /\ AskedOnce /\ TransactionAgrees

=============================================================================
