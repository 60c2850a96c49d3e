-------------------------- MODULE SourceSyncProofs --------------------------
(***************************************************************************)
(* The invariant of SourceSync and its append-only history, for every set  *)
(* of tickets and contents, every budget and any number of deaths, edits   *)
(* and refusals.                                                           *)
(***************************************************************************)
EXTENDS SourceSync, SequenceTheorems, TLAPS

-----------------------------------------------------------------------------
(* The operators of the store                                              *)

\* A function on an initial interval is a sequence.
LEMMA FunctionIsSeq ==
  ASSUME NEW n \in Nat, NEW S, NEW f \in [1 .. n -> S]
  PROVE  f \in Seq(S)
<1>1. [1 .. n -> S] \in {[1 .. m -> S] : m \in Nat}
  OBVIOUS
<1> QED BY <1>1, SeqDef, Zenon

\* The parts of a catalog.
LEMMA CatalogParts ==
  ASSUME NEW c \in Catalogs
  PROVE  /\ c.rows \in Seq(Rows) /\ Len(c.rows) \in Nat /\ DOMAIN c.rows = 1 .. Len(c.rows)
         /\ \A k \in DOMAIN c.rows : c.rows[k] \in Rows /\ c.rows[k].ticket \in Tickets
         /\ c.snapshots \in [Tickets -> Seq(Contents)]
         /\ \A t \in Tickets : /\ c.snapshots[t] \in Seq(Contents)
                               /\ Len(c.snapshots[t]) \in Nat
                               /\ DOMAIN c.snapshots[t] = 1 .. Len(c.snapshots[t])
<1>1. /\ c.rows \in Seq(Rows) /\ c.snapshots \in [Tickets -> Seq(Contents)]
  BY DEF Catalogs
<1>2. Len(c.rows) \in Nat /\ DOMAIN c.rows = 1 .. Len(c.rows)
  BY <1>1
<1>3. \A k \in DOMAIN c.rows : c.rows[k] \in Rows
  BY <1>1, <1>2, ElementOfSeq
<1>4. \A t \in Tickets : /\ c.snapshots[t] \in Seq(Contents)
                         /\ Len(c.snapshots[t]) \in Nat
                         /\ DOMAIN c.snapshots[t] = 1 .. Len(c.snapshots[t])
  BY <1>1
<1> QED BY <1>1, <1>2, <1>3, <1>4 DEF Rows

\* Changing one part of a catalog.
LEMMA ChangePart ==
  ASSUME NEW c \in Catalogs
  PROVE  /\ \A r \in Seq(Rows) : /\ [c EXCEPT !.rows = r] \in Catalogs
                                 /\ [c EXCEPT !.rows = r].rows = r
                                 /\ [c EXCEPT !.rows = r].snapshots = c.snapshots
         /\ \A h \in [Tickets -> Seq(Contents)] :
              /\ [c EXCEPT !.snapshots = h] \in Catalogs
              /\ [c EXCEPT !.snapshots = h].rows = c.rows
              /\ [c EXCEPT !.snapshots = h].snapshots = h
BY DEF Catalogs

\* The history of a catalog extends itself, and extensions compose.
LEMMA ExtendsItself ==
  ASSUME NEW c \in Catalogs, NEW d, d.snapshots = c.snapshots
  PROVE  Extends(c, d)
BY CatalogParts DEF Extends

LEMMA ExtendsAgain ==
  ASSUME NEW b \in Catalogs, NEW c \in Catalogs, NEW d \in Catalogs,
         Extends(b, c), Extends(c, d)
  PROVE  Extends(b, d)
<1> SUFFICES ASSUME NEW t \in Tickets
             PROVE  /\ Len(d.snapshots[t]) >= Len(b.snapshots[t])
                    /\ \A k \in DOMAIN b.snapshots[t] : d.snapshots[t][k] = b.snapshots[t][k]
  BY DEF Extends
<1>1. /\ Len(b.snapshots[t]) \in Nat /\ Len(c.snapshots[t]) \in Nat /\ Len(d.snapshots[t]) \in Nat
      /\ DOMAIN b.snapshots[t] = 1 .. Len(b.snapshots[t])
      /\ DOMAIN c.snapshots[t] = 1 .. Len(c.snapshots[t])
  BY CatalogParts
<1>2. DOMAIN b.snapshots[t] \subseteq DOMAIN c.snapshots[t]
  BY <1>1 DEF Extends
<1> QED BY <1>1, <1>2 DEF Extends

\* What is stored stays so when the history is extended and the rows stay.
LEMMA StoredAfterExtension ==
  ASSUME NEW c \in Catalogs, NEW d \in Catalogs, Stored(c), Extends(c, d), d.rows = c.rows
  PROVE  Stored(d)
<1> SUFFICES ASSUME NEW k \in DOMAIN c.rows, c.rows[k].status = "Fetched"
             PROVE  d.snapshots[c.rows[k].ticket] # << >>
  BY DEF Stored
<1> DEFINE t == c.rows[k].ticket
<1>1. t \in Tickets /\ c.snapshots[t] # << >>
  BY CatalogParts DEF Stored
<1> HIDE DEF t
<1>2. Len(c.snapshots[t]) \in Nat \ {0} /\ Len(d.snapshots[t]) \in Nat
  BY <1>1, CatalogParts, EmptySeq
<1>3. Len(d.snapshots[t]) > 0
  BY <1>1, <1>2 DEF Extends
<1>4. d.snapshots[t] # << >>
  BY <1>3
<1> QED BY <1>4 DEF t

\* record_discovery touches the rows alone and adds pending ones.
LEMMA DiscoveryKeeps ==
  ASSUME NEW c \in Catalogs, NEW t \in Tickets, NEW p \in Provenances
  PROVE  /\ record_discovery(c, t, p) \in Catalogs
         /\ record_discovery(c, t, p).snapshots = c.snapshots
         /\ Stored(c) => Stored(record_discovery(c, t, p))
<1> DEFINE row == [ticket |-> t, provenance |-> p, status |-> "Pending"]
           d == [c EXCEPT !.rows = Append(c.rows, row)]
<1>1. CASE record_discovery(c, t, p) = c
  BY <1>1
<1>2. CASE record_discovery(c, t, p) = d
  <2>1. row \in Rows
    BY DEF Rows
  <2>2. c.rows \in Seq(Rows)
    BY CatalogParts
  <2> HIDE DEF row
  <2>4. Append(c.rows, row) \in Seq(Rows)
    BY <2>1, <2>2
  <2>5. d \in Catalogs /\ d.snapshots = c.snapshots /\ d.rows = Append(c.rows, row)
    BY <2>4, ChangePart
  <2>6. ASSUME Stored(c) PROVE Stored(d)
    <3> HIDE DEF d
    <3> SUFFICES ASSUME NEW k \in DOMAIN d.rows, d.rows[k].status = "Fetched"
                 PROVE  d.snapshots[d.rows[k].ticket] # << >>
      BY DEF Stored
    <3>1. /\ Len(c.rows) \in Nat /\ DOMAIN c.rows = 1 .. Len(c.rows)
          /\ DOMAIN d.rows = 1 .. Len(c.rows) + 1
          /\ \A i \in 1 .. Len(c.rows) : d.rows[i] = c.rows[i]
          /\ d.rows[Len(c.rows) + 1] = row
      BY <2>1, <2>2, <2>5, AppendProperties, LenProperties
    <3>2. row.status # "Fetched"
      BY DEF row
    <3>3. k \in DOMAIN c.rows /\ d.rows[k] = c.rows[k]
      BY <3>1, <3>2
    <3> QED BY <2>5, <2>6, <3>3 DEF Stored
  <2> QED BY <1>2, <2>5, <2>6
<1> QED BY <1>1, <1>2 DEF record_discovery

\* Advance touches the rows alone; a row may become Fetched when a content is there.
LEMMA AdvanceKeeps ==
  ASSUME NEW c \in Catalogs, NEW t \in Tickets, NEW st \in {"Fetched", "Unresolved"},
         st = "Fetched" => c.snapshots[t] # << >>
  PROVE  /\ Advance(c, t, st) \in Catalogs
         /\ Advance(c, t, st).snapshots = c.snapshots
         /\ Stored(c) => Stored(Advance(c, t, st))
<1> DEFINE new(k) == IF c.rows[k].ticket = t /\ c.rows[k].status = "Pending"
                     THEN [c.rows[k] EXCEPT !.status = st] ELSE c.rows[k]
           rows == [k \in DOMAIN c.rows |-> new(k)]
           d == Advance(c, t, st)
<1>1. /\ c.rows \in Seq(Rows) /\ Len(c.rows) \in Nat /\ DOMAIN c.rows = 1 .. Len(c.rows)
      /\ \A k \in DOMAIN c.rows : c.rows[k] \in Rows
      /\ c.snapshots \in [Tickets -> Seq(Contents)]
  BY CatalogParts
<1>2. \A k \in DOMAIN c.rows :
        /\ new(k) \in Rows
        /\ new(k).ticket = c.rows[k].ticket
        /\ new(k).status = "Fetched" => c.rows[k].status = "Fetched" \/ (st = "Fetched" /\ c.rows[k].ticket = t)
  BY <1>1 DEF Rows
<1> HIDE DEF new
<1>3. rows \in [1 .. Len(c.rows) -> Rows]
  BY <1>1, <1>2
<1>4. rows \in Seq(Rows)
  BY <1>1, <1>3, FunctionIsSeq
<1>5. d = [c EXCEPT !.rows = rows]
  BY DEF Advance, new
<1>6. d \in Catalogs /\ d.snapshots = c.snapshots /\ d.rows = rows
  BY <1>4, <1>5, ChangePart
<1>7. ASSUME Stored(c) PROVE Stored(d)
  <2> HIDE DEF d
  <2> SUFFICES ASSUME NEW k \in DOMAIN c.rows, new(k).status = "Fetched"
               PROVE  c.snapshots[new(k).ticket] # << >>
    BY <1>6 DEF Stored
  <2> QED BY <1>2, <1>7 DEF Stored
<1> QED BY <1>6, <1>7

\* record_fetch only adds to the history, and the ticket has a content then.
LEMMA FetchExtends ==
  ASSUME NEW c \in Catalogs, NEW t \in Tickets, NEW x \in Contents
  PROVE  /\ record_fetch(c, t, x) \in Catalogs
         /\ record_fetch(c, t, x).rows = c.rows
         /\ record_fetch(c, t, x).snapshots[t] # << >>
         /\ Extends(c, record_fetch(c, t, x))
<1> DEFINE old == c.snapshots[t]
           new == IF \E k \in DOMAIN old : old[k] = x THEN old ELSE Append(old, x)
           d == record_fetch(c, t, x)
<1>1. /\ c.snapshots \in [Tickets -> Seq(Contents)] /\ old \in Seq(Contents)
      /\ Len(old) \in Nat /\ DOMAIN old = 1 .. Len(old)
  BY CatalogParts
<1>2. d = [c EXCEPT !.snapshots = [c.snapshots EXCEPT ![t] = new]]
  BY <1>1 DEF record_fetch
<1>3. /\ new \in Seq(Contents) /\ new # << >> /\ Len(new) >= Len(old)
      /\ \A k \in DOMAIN old : new[k] = old[k]
  <2> HIDE DEF old
  <2>1. CASE \E k \in DOMAIN old : old[k] = x
    BY <1>1, <2>1
  <2>2. CASE ~ \E k \in DOMAIN old : old[k] = x
    BY <1>1, <2>2, AppendProperties
  <2> QED BY <2>1, <2>2
<1> HIDE DEF new, d
<1> DEFINE h == [c.snapshots EXCEPT ![t] = new]
<1>4. h \in [Tickets -> Seq(Contents)] /\ h[t] = new /\ \A u \in Tickets \ {t} : h[u] = c.snapshots[u]
  BY <1>1, <1>3
<1>5. d = [c EXCEPT !.snapshots = h]
  BY <1>2
<1> HIDE DEF h
<1>6. /\ d.rows = c.rows /\ d.snapshots = h
      /\ d \in Catalogs /\ d.snapshots[t] = new
      /\ \A u \in Tickets \ {t} : d.snapshots[u] = c.snapshots[u]
  <2>1. d \in Catalogs /\ d.rows = c.rows /\ d.snapshots = h
    BY <1>4, <1>5, ChangePart
  <2> QED BY <1>4, <2>1
<1>7. Extends(c, d)
  <2> SUFFICES ASSUME NEW u \in Tickets
               PROVE  /\ Len(d.snapshots[u]) >= Len(c.snapshots[u])
                      /\ \A k \in DOMAIN c.snapshots[u] : d.snapshots[u][k] = c.snapshots[u][k]
    BY DEF Extends
  <2>1. CASE u = t
    BY <1>3, <1>6, <2>1
  <2>2. CASE u # t
    BY <1>6, <2>2, CatalogParts
  <2> QED BY <2>1, <2>2
<1> QED BY <1>3, <1>6, <1>7 DEF d

\* The catalog before anything is recorded.
LEMMA EmptyIsCatalog == EmptyCatalog \in Catalogs /\ Stored(EmptyCatalog)
<1>1. << >> \in Seq(Rows) /\ << >> \in Seq(Contents) /\ DOMAIN << >> = {}
  OBVIOUS
<1>2. EmptyCatalog \in Catalogs
  BY <1>1 DEF EmptyCatalog, Catalogs
<1>3. EmptyCatalog.rows = << >>
  BY DEF EmptyCatalog
<1> QED BY <1>1, <1>2, <1>3 DEF Stored

-----------------------------------------------------------------------------
(* The steps                                                               *)

LEMMA InitInv == Init => Inv
<1> SUFFICES ASSUME Init PROVE Inv
  OBVIOUS
<1>1. stopped \in BOOLEAN /\ expand \in BOOLEAN
  BY Zenon DEF Init
<1>2. TypeOK
  BY <1>1, EmptyIsCatalog, TicketsAssumption, SyncBoundsAssumption DEF Init, TypeOK
<1>3. FetchedIsStored
  BY EmptyIsCatalog DEF Init, FetchedIsStored
<1>4. AskedOnce /\ TransactionAgrees
  BY DEF Init, AskedOnce, TransactionAgrees
<1> QED BY <1>2, <1>3, <1>4 DEF Inv

\* A request leaves the client and the count of mishaps in range.
LEMMA RequestTypes ==
  ASSUME TypeOK, NEW k \in 1 .. (MaxRetries + 1), NEW o \in Expected \cup {"not_found"},
         Client!Fetch(k, Reply(o)), Count(o)
  PROVE  /\ remaining' \in 0 .. MaxRequests
         /\ returned' \in Client!Outcomes \cup {"none"}
         /\ mishaps' \in 0 .. MaxMishaps
<1>1. /\ remaining \in 0 .. MaxRequests /\ mishaps \in 0 .. MaxMishaps
      /\ MaxRetries \in Nat /\ MaxRequests \in Nat /\ MaxMishaps \in Nat
  BY SyncBoundsAssumption DEF TypeOK
<1>2. remaining' \in 0 .. MaxRequests
  <2>1. k <= remaining /\ remaining' = remaining - k
    BY DEF Client!Fetch, Client!Consumes
  <2> QED BY <1>1, <2>1
<1>3. returned' \in Client!Outcomes \cup {"none"}
  <2>1. returned' = Reply(o)
    BY DEF Client!Fetch
  <2>2. o \in Client!Outcomes \cup {"garbled"}
    BY FaultsAssumption DEF Expected, Client!Outcomes, Client!Answers
  <2> QED BY <2>1, <2>2 DEF Reply, Client!Outcomes, Client!Answers
<1>4. mishaps' \in 0 .. MaxMishaps
  <2>1. CASE o \in Faults
    <3>1. o \notin {"ok", "not_found"}
      BY <2>1, FaultsAssumption
    <3>2. mishaps < MaxMishaps
      BY <3>1 DEF Expected
    <3> QED BY <1>1, <2>1, <3>2 DEF Count
  <2>2. CASE o \notin Faults
    BY <1>1, <2>2 DEF Count
  <2> QED BY <2>1, <2>2
<1> QED BY <1>2, <1>3, <1>4

\* A row is recorded, by another command or by the sync outside its transaction.
LEMMA RowRecorded ==
  ASSUME Inv, pc # "frontier", NEW t \in Tickets, NEW p \in Provenances,
         db' = record_discovery(db, t, p)
  PROVE  db' \in Catalogs /\ Stored(db') /\ Extends(db, db')
<1>1. db \in Catalogs /\ Stored(db)
  BY DEF Inv, TypeOK, FetchedIsStored
<1>2. db' \in Catalogs /\ db'.snapshots = db.snapshots /\ Stored(db')
  BY <1>1, DiscoveryKeeps
<1> QED BY <1>1, <1>2, ExtendsItself

LEMMA DiscoverInv ==
  ASSUME Inv, NEW t \in Tickets, NEW p \in Origins, Discover(t, p)
  PROVE  Inv' /\ Extends(db, db')
<1>1. p \in Provenances /\ pc # "frontier"
  BY SyncBoundsAssumption DEF Provenances, Discover, NoTransaction
<1>2. db' \in Catalogs /\ Stored(db') /\ Extends(db, db')
  BY <1>1, RowRecorded DEF Discover
<1>3. TypeOK'
  BY <1>2 DEF Inv, TypeOK, Discover, clientVars
<1>4. FetchedIsStored' /\ AskedOnce' /\ TransactionAgrees'
  BY <1>1, <1>2 DEF Inv, FetchedIsStored, AskedOnce, TransactionAgrees, Discover, Stored
<1> QED BY <1>2, <1>3, <1>4 DEF Inv

\* sync_catalog extends the history of every ticket that the source serves.
LEMMA SyncCatalogInv ==
  ASSUME Inv, SyncCatalog
  PROVE  Inv' /\ Extends(db, db')
<1> DEFINE new(t) == IF source[t] = Missing THEN db.snapshots[t]
                     ELSE record_fetch(db, t, source[t]).snapshots[t]
           h == [t \in Tickets |-> new(t)]
<1>1. db \in Catalogs /\ Stored(db) /\ source \in [Tickets -> Contents \cup {Missing}]
  BY DEF Inv, TypeOK, FetchedIsStored
<1>2. ASSUME NEW t \in Tickets
      PROVE  /\ new(t) \in Seq(Contents)
             /\ Len(new(t)) >= Len(db.snapshots[t])
             /\ \A k \in DOMAIN db.snapshots[t] : new(t)[k] = db.snapshots[t][k]
  <2>1. CASE source[t] = Missing
    BY <1>1, <2>1, CatalogParts
  <2>2. CASE source[t] # Missing
    <3> DEFINE d == record_fetch(db, t, source[t])
    <3>1. d \in Catalogs /\ Extends(db, d)
      BY <1>1, <2>2, FetchExtends
    <3>2. new(t) = d.snapshots[t]
      BY <2>2
    <3> HIDE DEF d, new
    <3> QED BY <3>1, <3>2, CatalogParts DEF Extends
  <2> QED BY <2>1, <2>2
<1>3. db' = [db EXCEPT !.snapshots = h]
  BY DEF SyncCatalog
<1> HIDE DEF new
<1>4. h \in [Tickets -> Seq(Contents)]
  BY <1>2
<1>5. db' \in Catalogs /\ db'.rows = db.rows /\ db'.snapshots = h
  BY <1>1, <1>3, <1>4, ChangePart
<1>6. Extends(db, db')
  BY <1>2, <1>5 DEF Extends
<1>7. Stored(db')
  BY <1>1, <1>5, <1>6, StoredAfterExtension
<1>8. TypeOK'
  BY <1>5 DEF Inv, TypeOK, SyncCatalog, clientVars
<1>9. FetchedIsStored' /\ AskedOnce' /\ TransactionAgrees'
  BY <1>7 DEF Inv, FetchedIsStored, AskedOnce, TransactionAgrees, SyncCatalog, Stored, NoTransaction
<1> QED BY <1>6, <1>8, <1>9 DEF Inv

\* A step that leaves both catalogs and the sync alone.
LEMMA SameCatalogs ==
  ASSUME Inv, UNCHANGED << db, tx >>
  PROVE  /\ Extends(db, db') /\ FetchedIsStored'
         /\ pc = "frontier" => Stored(tx') /\ Extends(db', tx')
         /\ db' \in Catalogs /\ tx' \in Catalogs
<1>1. db \in Catalogs /\ tx \in Catalogs
  BY DEF Inv, TypeOK
<1> QED BY <1>1, ExtendsItself DEF Inv, FetchedIsStored, TransactionAgrees

LEMMA EditInv ==
  ASSUME Inv, NEW t \in Tickets, NEW x \in Contents \cup {Missing}, Edit(t, x)
  PROVE  Inv' /\ Extends(db, db')
<1>1. /\ Extends(db, db') /\ FetchedIsStored'
      /\ pc = "frontier" => Stored(tx') /\ Extends(db', tx')
  BY SameCatalogs DEF Edit
<1>2. source' \in [Tickets -> Contents \cup {Missing}] /\ edits' \in 0 .. MaxEdits
  BY SyncBoundsAssumption DEF Inv, TypeOK, Edit
<1>3. TypeOK'
  BY <1>2 DEF Inv, TypeOK, Edit, clientVars
<1>4. AskedOnce' /\ TransactionAgrees'
  BY <1>1 DEF Inv, AskedOnce, TransactionAgrees, Edit
<1> QED BY <1>1, <1>3, <1>4 DEF Inv

LEMMA BeginInv ==
  ASSUME Inv, NEW e \in BOOLEAN, Begin(e)
  PROVE  Inv' /\ Extends(db, db')
<1>1. Extends(db, db') /\ FetchedIsStored'
  BY SameCatalogs DEF Begin
<1>2. TypeOK'
  <2>1. /\ 0 \in 0 .. MaxSearches /\ MaxRequests \in 0 .. MaxRequests
        /\ "none" \in Client!Outcomes \cup {"none"}
    BY SyncBoundsAssumption
  <2>2. /\ searches' \in 0 .. MaxSearches /\ remaining' \in 0 .. MaxRequests
        /\ returned' \in Client!Outcomes \cup {"none"} /\ asked' \subseteq Tickets
        /\ pc' = "search" /\ UNCHANGED << source, db, tx, todo, edits, mishaps >>
    BY <2>1 DEF Begin
  <2>3. stopped' \in BOOLEAN /\ expand' \in BOOLEAN
    BY Zenon DEF Begin
  <2> QED BY <2>2, <2>3 DEF Inv, TypeOK
<1>3. AskedOnce' /\ TransactionAgrees'
  BY DEF AskedOnce, TransactionAgrees, Begin
<1> QED BY <1>1, <1>2, <1>3 DEF Inv

LEMMA SearchInv ==
  ASSUME Inv, Search
  PROVE  Inv' /\ Extends(db, db')
<1>1. PICK k \in 1 .. (MaxRetries + 1), o \in Expected :
        /\ Client!Fetch(k, Reply(o)) /\ Count(o)
        /\ \/ /\ searches' = searches + 1
              /\ \E t \in Tickets : db' = record_discovery(db, t, "AnalystSeed") \/ db' = db
           \/ searches' = MaxSearches /\ db' = db
  BY DEF Search
<1>2. /\ remaining' \in 0 .. MaxRequests
      /\ returned' \in Client!Outcomes \cup {"none"} /\ mishaps' \in 0 .. MaxMishaps
  BY <1>1, RequestTypes DEF Inv
<1>3. searches' \in 0 .. MaxSearches
  BY <1>1, SyncBoundsAssumption DEF Inv, TypeOK, Search
<1>4. db' \in Catalogs /\ Stored(db') /\ Extends(db, db')
  <2>1. CASE db' = db
    BY <2>1, ExtendsItself DEF Inv, TypeOK, FetchedIsStored
  <2>2. CASE \E t \in Tickets : db' = record_discovery(db, t, "AnalystSeed")
    BY <2>2, RowRecorded DEF Provenances, Search
  <2> QED BY <1>1, <2>1, <2>2
<1>5. TypeOK'
  BY <1>2, <1>3, <1>4 DEF Inv, TypeOK, Search
<1>6. FetchedIsStored' /\ AskedOnce' /\ TransactionAgrees'
  BY <1>4 DEF Inv, FetchedIsStored, AskedOnce, TransactionAgrees, Search, Stored
<1> QED BY <1>4, <1>5, <1>6 DEF Inv

LEMMA StartExpansionInv ==
  ASSUME Inv, StartExpansion
  PROVE  Inv' /\ Extends(db, db')
<1>1. Extends(db, db') /\ FetchedIsStored'
  BY SameCatalogs DEF StartExpansion
<1>2. todo' \subseteq Tickets
  BY DEF StartExpansion, ReferencesIn
<1>3. TypeOK'
  BY <1>2 DEF Inv, TypeOK, StartExpansion, clientVars
<1>4. AskedOnce' /\ TransactionAgrees'
  BY DEF Inv, AskedOnce, TransactionAgrees, StartExpansion
<1> QED BY <1>1, <1>3, <1>4 DEF Inv

LEMMA ExpandInv ==
  ASSUME Inv, NEW t \in Tickets, Expand(t)
  PROVE  Inv' /\ Extends(db, db')
<1>1. pc # "frontier" /\ "TicketDescriptionReference" \in Provenances
  BY DEF Expand, Provenances
<1>2. db' \in Catalogs /\ Stored(db') /\ Extends(db, db')
  BY <1>1, RowRecorded DEF Expand
<1>3. TypeOK'
  BY <1>2 DEF Inv, TypeOK, Expand, clientVars
<1>4. FetchedIsStored' /\ AskedOnce' /\ TransactionAgrees'
  BY <1>1, <1>2 DEF Inv, FetchedIsStored, AskedOnce, TransactionAgrees, Expand, Stored
<1> QED BY <1>2, <1>3, <1>4 DEF Inv

\* The end of the process, as planned or by a death: what is committed stays.
LEMMA QuitInv ==
  ASSUME Inv, Quit, UNCHANGED << source, db, edits >>, mishaps' \in 0 .. MaxMishaps
  PROVE  Inv' /\ Extends(db, db')
<1>1. db \in Catalogs
  BY DEF Inv, TypeOK
<1>2. Extends(db, db') /\ FetchedIsStored'
  BY <1>1, ExtendsItself DEF Inv, FetchedIsStored
<1>3. stopped' \in BOOLEAN /\ expand' \in BOOLEAN
  BY Zenon DEF Quit
<1>4. TypeOK'
  BY <1>3, EmptyIsCatalog, SyncBoundsAssumption DEF Inv, TypeOK, Quit
<1>5. AskedOnce' /\ TransactionAgrees'
  BY DEF AskedOnce, TransactionAgrees, Quit
<1> QED BY <1>2, <1>4, <1>5 DEF Inv

LEMMA ReadFrontierInv ==
  ASSUME Inv, ReadFrontier
  PROVE  Inv' /\ Extends(db, db')
<1>1. CASE PendingIn(db) = {}
  BY <1>1, QuitInv DEF ReadFrontier, Inv, TypeOK
<1>2. CASE PendingIn(db) # {}
  <2>1. /\ pc = "refer" /\ pc' = "begin" /\ todo' = PendingIn(db)
        /\ UNCHANGED << tx, stopped, expand, searches, clientVars, asked, source, db, edits, mishaps >>
    BY <1>2 DEF ReadFrontier
  <2>2. Extends(db, db') /\ FetchedIsStored'
    BY <2>1, SameCatalogs
  <2>3. todo' \subseteq Tickets
    BY <2>1 DEF PendingIn
  <2>4. TypeOK'
    BY <2>1, <2>3 DEF Inv, TypeOK, clientVars
  <2>5. AskedOnce' /\ TransactionAgrees'
    BY <2>1 DEF Inv, AskedOnce, TransactionAgrees
  <2> QED BY <2>2, <2>4, <2>5 DEF Inv
<1> QED BY <1>1, <1>2

\* The transaction starts from what is committed.
LEMMA BeginTransactionInv ==
  ASSUME Inv, BeginTransaction
  PROVE  Inv' /\ Extends(db, db')
<1>1. db \in Catalogs /\ db' = db /\ tx' = db
  BY DEF Inv, TypeOK, BeginTransaction
<1>2. Extends(db, db') /\ FetchedIsStored' /\ Stored(tx') /\ Extends(db', tx')
  BY <1>1, ExtendsItself DEF Inv, FetchedIsStored
<1>3. TypeOK'
  BY <1>1 DEF Inv, TypeOK, BeginTransaction, clientVars
<1>4. AskedOnce' /\ TransactionAgrees'
  BY <1>2 DEF Inv, AskedOnce, TransactionAgrees, BeginTransaction
<1> QED BY <1>2, <1>3, <1>4 DEF Inv

LEMMA OutOfBudgetInv ==
  ASSUME Inv, OutOfBudget
  PROVE  Inv' /\ Extends(db, db')
<1>1. /\ Extends(db, db') /\ FetchedIsStored'
      /\ pc = "frontier" => Stored(tx') /\ Extends(db', tx')
  BY SameCatalogs DEF OutOfBudget
<1>2. stopped' \in BOOLEAN
  BY Zenon DEF OutOfBudget
<1>3. TypeOK'
  BY <1>2 DEF Inv, TypeOK, OutOfBudget, clientVars
<1>4. AskedOnce' /\ TransactionAgrees'
  BY <1>1 DEF Inv, AskedOnce, TransactionAgrees, OutOfBudget
<1> QED BY <1>1, <1>3, <1>4 DEF Inv

LEMMA SkipInv ==
  ASSUME Inv, NEW t \in Tickets, Skip(t)
  PROVE  Inv' /\ Extends(db, db')
<1>1. /\ pc = "frontier" /\ tx \in Catalogs /\ db \in Catalogs /\ Stored(tx) /\ Extends(db, tx)
      /\ db' = db
  BY DEF Inv, TypeOK, TransactionAgrees, Skip, IsNext
<1>2. tx' \in Catalogs /\ Stored(tx') /\ tx'.snapshots = tx.snapshots
  <2>1. CASE tx' = tx
    BY <1>1, <2>1
  <2>2. CASE tx' = Advance(tx, t, "Unresolved")
    BY <1>1, <2>2, AdvanceKeeps
  <2> QED BY <2>1, <2>2 DEF Skip
<1>3. Extends(db', tx') /\ Extends(db, db') /\ FetchedIsStored'
  BY <1>1, <1>2, ExtendsItself DEF Extends, Inv, FetchedIsStored
<1>4. TypeOK'
  BY <1>1, <1>2 DEF Inv, TypeOK, Skip, clientVars
<1>5. AskedOnce' /\ TransactionAgrees'
  BY <1>1, <1>2, <1>3 DEF Inv, AskedOnce, TransactionAgrees, Skip
<1> QED BY <1>3, <1>4, <1>5 DEF Inv

\* A lookup moves the ticket from the frontier to those asked for; its record and
\* its rows go into the transaction together.
LEMMA LookUpInv ==
  ASSUME Inv, NEW t \in Tickets, LookUp(t)
  PROVE  Inv' /\ Extends(db, db')
<1>1. /\ pc = "frontier" /\ tx \in Catalogs /\ db \in Catalogs /\ Stored(tx) /\ Extends(db, tx)
      /\ db' = db /\ pc' = pc /\ source \in [Tickets -> Contents \cup {Missing}]
  BY DEF Inv, TypeOK, TransactionAgrees, LookUp, IsNext
<1>2. PICK k \in 1 .. (MaxRetries + 1), o \in Answers(t) :
        /\ Client!Fetch(k, Reply(o)) /\ Count(o)
        /\ \/ /\ source[t] # Missing
              /\ tx' = Advance(record_fetch(tx, t, source[t]), t, "Fetched")
           \/ tx' = Advance(tx, t, "Unresolved")
           \/ tx' = tx
        /\ stopped' = (o \in Client!Stops)
  BY DEF LookUp
<1>3. /\ remaining' \in 0 .. MaxRequests
      /\ returned' \in Client!Outcomes \cup {"none"} /\ mishaps' \in 0 .. MaxMishaps
  <2>1. o \in Expected \cup {"not_found"}
    BY DEF Answers
  <2> QED BY <1>2, <2>1, RequestTypes DEF Inv
<1>4. tx' \in Catalogs /\ Stored(tx') /\ Extends(tx, tx')
  <2>1. CASE tx' = tx
    BY <1>1, <2>1, ExtendsItself
  <2>2. CASE tx' = Advance(tx, t, "Unresolved")
    BY <1>1, <2>2, AdvanceKeeps, ExtendsItself
  <2>3. CASE source[t] # Missing /\ tx' = Advance(record_fetch(tx, t, source[t]), t, "Fetched")
    <3> DEFINE d == record_fetch(tx, t, source[t])
    <3>1. d \in Catalogs /\ d.rows = tx.rows /\ d.snapshots[t] # << >> /\ Extends(tx, d)
      BY <1>1, <2>3, FetchExtends
    <3> HIDE DEF d
    <3>2. Stored(d)
      BY <1>1, <3>1, StoredAfterExtension
    <3>3. tx' = Advance(d, t, "Fetched")
      BY <2>3 DEF d
    <3>4. tx' \in Catalogs /\ tx'.snapshots = d.snapshots /\ Stored(tx')
      BY <3>1, <3>2, <3>3, AdvanceKeeps
    <3> QED BY <1>1, <3>1, <3>4, ExtendsItself, ExtendsAgain
  <2> QED BY <1>2, <2>1, <2>2, <2>3
<1>5. Extends(db', tx') /\ Extends(db, db') /\ FetchedIsStored'
  <2>1. Extends(db, tx')
    BY <1>1, <1>4, ExtendsAgain
  <2> QED BY <1>1, <2>1, ExtendsItself DEF Inv, FetchedIsStored
<1>6. stopped' \in BOOLEAN
  <2>1. CASE o \in Client!Stops
    BY <1>2, <2>1
  <2>2. CASE o \notin Client!Stops
    BY <1>2, <2>2
  <2> QED BY <2>1, <2>2
<1>7. TypeOK'
  BY <1>1, <1>3, <1>4, <1>6 DEF Inv, TypeOK, LookUp
<1>8. AskedOnce'
  BY <1>1 DEF Inv, AskedOnce, LookUp
<1>9. TransactionAgrees'
  BY <1>1, <1>4, <1>5 DEF TransactionAgrees
<1> QED BY <1>5, <1>7, <1>8, <1>9 DEF Inv

\* The commit makes the transaction the catalog, which only adds to it.
LEMMA CommitInv ==
  ASSUME Inv, Commit
  PROVE  Inv' /\ Extends(db, db')
<1>1. /\ tx \in Catalogs /\ Stored(tx) /\ Extends(db, tx) /\ db' = tx /\ tx' = EmptyCatalog
      /\ pc' = "expand"
  BY DEF Inv, TypeOK, TransactionAgrees, Commit
<1>2. todo' \subseteq Tickets
  BY DEF Commit, ReferencesIn
<1>3. TypeOK'
  BY <1>1, <1>2, EmptyIsCatalog DEF Inv, TypeOK, Commit, clientVars
<1>4. FetchedIsStored' /\ AskedOnce' /\ TransactionAgrees'
  BY <1>1 DEF FetchedIsStored, AskedOnce, TransactionAgrees
<1> QED BY <1>1, <1>3, <1>4 DEF Inv

\* Every step preserves the invariant and extends the history.
LEMMA StepInv ==
  ASSUME Inv, [Next]_vars PROVE Inv' /\ Extends(db, db')
<1>1. CASE UNCHANGED vars
  <2>1. UNCHANGED << source, db, tx, pc, todo, stopped, expand, searches, remaining, returned,
                     asked, edits, mishaps >>
    BY <1>1 DEF vars, clientVars
  <2>2. Extends(db, db') /\ FetchedIsStored' /\ (pc = "frontier" => Stored(tx') /\ Extends(db', tx'))
    BY <2>1, SameCatalogs
  <2>3. TypeOK' /\ AskedOnce' /\ TransactionAgrees'
    BY <2>1, <2>2 DEF Inv, TypeOK, AskedOnce, TransactionAgrees
  <2> QED BY <2>2, <2>3 DEF Inv
<1>2. CASE Progress
  <2>1. CASE \E t \in Tickets : Expand(t) \/ Skip(t) \/ LookUp(t)
    BY <2>1, ExpandInv, SkipInv, LookUpInv
  <2>2. CASE StartExpansion \/ ReadFrontier \/ BeginTransaction \/ OutOfBudget \/ Commit
    BY <2>2, StartExpansionInv, ReadFrontierInv, BeginTransactionInv, OutOfBudgetInv, CommitInv
  <2>3. CASE End
    BY <2>3, QuitInv DEF End, Inv, TypeOK
  <2> QED BY <1>2, <2>1, <2>2, <2>3 DEF Progress
<1>3. CASE Crash
  <2>1. mishaps' \in 0 .. MaxMishaps
    BY <1>3, SyncBoundsAssumption DEF Crash, Inv, TypeOK
  <2> QED BY <1>3, <2>1, QuitInv DEF Crash
<1>4. CASE \E t \in Tickets, p \in Origins : Discover(t, p)
  BY <1>4, DiscoverInv
<1>5. CASE \E t \in Tickets, x \in Contents \cup {Missing} : Edit(t, x)
  BY <1>5, EditInv
<1>6. CASE \E e \in BOOLEAN : Begin(e)
  BY <1>6, BeginInv
<1> QED BY <1>1, <1>2, <1>3, <1>4, <1>5, <1>6, SyncCatalogInv, SearchInv DEF Next

-----------------------------------------------------------------------------

\* A row that says Fetched has a stored content and no run asks for a ticket
\* twice, wherever the sync dies and whatever the source answers
\* (sync_frontier, record_fetch).
THEOREM SyncIsSound == Spec => []Inv
<1>1. Init => Inv
  BY InitInv
<1>2. Inv /\ [Next]_vars => Inv'
  BY StepInv
<1> QED BY <1>1, <1>2, PTL DEF Spec

\* No step removes or reorders a snapshot: a commit replaces the catalog by one
\* that extends it (record_fetch, sync_catalog, sync_frontier).
THEOREM HistoryIsAppendOnly == Spec => SnapshotsAppendOnly
<1>1. Inv /\ [Next]_vars => [Extends(db, db')]_vars
  BY StepInv
<1> QED BY <1>1, SyncIsSound, PTL DEF Spec, SnapshotsAppendOnly

=============================================================================
