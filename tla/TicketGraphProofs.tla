------------------------- MODULE TicketGraphProofs --------------------------
(***************************************************************************)
(* The invariant of TicketGraph for every set of tickets, texts, reviews   *)
(* and case studies, and which rejections last.                            *)
(***************************************************************************)
EXTENDS TicketGraph, SequenceTheorems, FiniteSetTheorems, TLAPS

-----------------------------------------------------------------------------
(* Operators                                                               *)

\* The image of a finite set.
LEMMA ImageIsFinite ==
  ASSUME NEW S, NEW T, IsFiniteSet(S), NEW f \in [S -> T], \A y \in T : \E x \in S : f[x] = y
  PROVE  IsFiniteSet(T)
<1>1. f \in Surjection(S, T)
  BY DEF Surjection
<1> QED BY <1>1, FS_Surjection

\* The windows of two tickets, as a note quotes them.
Notes == {None} \cup UNION {[p -> Windows] : p \in Pairs}

LEMMA TwoArePair ==
  ASSUME NEW t \in Tickets, NEW u \in Tickets
  PROVE  {t, u} \in Pairs
<1>1. << t, u >> \in Tickets \X Tickets /\ << t, u >>[1] = t /\ << t, u >>[2] = u
  OBVIOUS
<1> QED BY <1>1 DEF Pairs

\* The latest snapshot of a ticket of the catalog.
LEMMA LatestTyped ==
  ASSUME TypeOK, NEW t \in Catalogued
  PROVE  /\ t \in Tickets /\ Len(snapshots[t]) \in 0 .. MaxVersion
         /\ Latest(t) \in Contents
         /\ Latest(t).refs \subseteq Tickets \X Kinds
         /\ Latest(t).window \in Windows \cup {None}
         /\ Len(snapshots[t]) \in DOMAIN snapshots[t]
         /\ Latest(t) = snapshots[t][Len(snapshots[t])]
<1>1. t \in Tickets /\ snapshots[t] \in Seq(Contents) /\ snapshots[t] # << >>
      /\ Len(snapshots[t]) <= MaxVersion
  BY DEF Catalogued, TypeOK
<1>2. Len(snapshots[t]) \in Nat \ {0} /\ DOMAIN snapshots[t] = 1 .. Len(snapshots[t])
  BY <1>1, EmptySeq, LenProperties
<1>3. Latest(t) \in Contents
  BY <1>1, <1>2, ElementOfSeq DEF Latest
<1>4. Latest(t) \in [refs : SUBSET (Tickets \X Kinds), window : Windows \cup {None}]
  BY <1>3, ContentsTyped
<1>5. Latest(t).refs \subseteq Tickets \X Kinds /\ Latest(t).window \in Windows \cup {None}
  BY <1>4
<1> QED BY <1>1, <1>2, <1>3, <1>5, BoundsAreNat DEF Latest

\* A new edge is well formed.
LEMMA EdgeIsOK ==
  ASSUME NEW from \in Tickets, NEW to \in Tickets,
         NEW kind \in Kinds \cup {"TemporalOverlap", "EntityOverlap"},
         NEW evidence \in {"ExplicitTicketText", "AnalystReviewed", "DerivedTemporalOverlap",
                           "DerivedEntityOverlap"},
         NEW n \in 0 .. MaxVersion, NEW reviewed \in {"Unreviewed", "Accepted"},
         NEW note \in Notes,
         reviewed = "Unreviewed" => from # to,
         reviewed = "Accepted" => n \in DOMAIN snapshots[from],
         reviewed = "Unreviewed" /\ evidence = "ExplicitTicketText" =>
           n \in DOMAIN snapshots[from] /\ << to, kind >> \in snapshots[from][n].refs,
         evidence = "DerivedTemporalOverlap" =>
           /\ kind = "TemporalOverlap" /\ n = 0 /\ reviewed = "Unreviewed"
           /\ Overlap(note[from], note[to])
           /\ \A t \in {from, to} : HadWindow(t, note[t], snapshots)
  PROVE  EdgeOK(Edge(from, to, kind, evidence, n, reviewed, note), snapshots)
<1> DEFINE known == to \in Catalogued
           row(r) == [from |-> from, to |-> to, resolved |-> r, kind |-> kind,
                      evidence |-> evidence, snapshot |-> n, reviewed |-> reviewed,
                      note |-> note]
<1>1. known \in BOOLEAN
  <2>1. CASE to \in Catalogued
    BY <2>1
  <2>2. CASE to \notin Catalogued
    BY <2>2
  <2> QED BY <2>1, <2>2
<1>2. ASSUME NEW r \in BOOLEAN PROVE row(r) \in Edges
  BY DEF Edges, Notes
<1>3. Edge(from, to, kind, evidence, n, reviewed, note) = row(known)
  BY DEF Edge
<1>4. /\ row(known).from = from /\ row(known).to = to /\ (row(known).resolved = known)
      /\ row(known).evidence = evidence /\ row(known).kind = kind
      /\ row(known).snapshot = n /\ row(known).reviewed = reviewed /\ row(known).note = note
  BY DEF Edge
<1> HIDE DEF row
<1>5. row(known) \in Edges
  BY <1>1, <1>2
<1>6. row(known).resolved => snapshots[to] # << >>
  BY <1>4 DEF known, Catalogued
<1>7. PICK e : e = row(known)
  OBVIOUS
<1>8. /\ e \in Edges /\ e.from = from /\ e.to = to /\ e.evidence = evidence /\ e.kind = kind
      /\ e.snapshot = n /\ e.reviewed = reviewed /\ e.note = note
      /\ e.resolved => snapshots[to] # << >>
  BY <1>4, <1>5, <1>6, <1>7
<1>9. EdgeOK(e, snapshots)
  <2>1. /\ e.reviewed = "Unreviewed" => e.from # e.to
        /\ e.reviewed = "Accepted" => e.snapshot \in DOMAIN snapshots[e.from]
        /\ e.reviewed = "Unreviewed" /\ e.evidence = "ExplicitTicketText" =>
             e.snapshot \in DOMAIN snapshots[e.from]
             /\ << e.to, e.kind >> \in snapshots[e.from][e.snapshot].refs
    BY <1>8
  <2>2. e.evidence = "DerivedTemporalOverlap" =>
           /\ e.kind = "TemporalOverlap" /\ e.snapshot = 0 /\ e.reviewed = "Unreviewed"
           /\ Overlap(e.note[e.from], e.note[e.to])
           /\ \A t \in {e.from, e.to} : HadWindow(t, e.note[t], snapshots)
    BY <1>8
  <2> QED BY <1>8, <2>1, <2>2 DEF EdgeOK
<1> QED BY <1>3, <1>7, <1>9

\* What extraction reads from a text.
LEMMA ExtractedOK ==
  ASSUME TypeOK, NEW t \in Catalogued
  PROVE  /\ IsFiniteSet(ExtractedFrom(t))
         /\ \A e \in ExtractedFrom(t) : EdgeOK(e, snapshots)
         /\ \A e, f \in ExtractedFrom(t) : EdgeKey(e) = EdgeKey(f) => e = f
<1>1. /\ t \in Tickets /\ Len(snapshots[t]) \in 0 .. MaxVersion
      /\ Latest(t).refs \subseteq Tickets \X Kinds
      /\ Len(snapshots[t]) \in DOMAIN snapshots[t]
      /\ Latest(t) = snapshots[t][Len(snapshots[t])]
  BY LatestTyped
<1>2. ASSUME NEW e \in ExtractedFrom(t)
      PROVE  \E x \in Latest(t).refs :
               x[1] # t /\ e = Edge(t, x[1], x[2], "ExplicitTicketText", Len(snapshots[t]),
                                    "Unreviewed", None)
  BY <1>2 DEF ExtractedFrom
<1>3. ASSUME NEW e \in ExtractedFrom(t) PROVE EdgeOK(e, snapshots)
  <2>1. PICK x \in Latest(t).refs :
          x[1] # t /\ e = Edge(t, x[1], x[2], "ExplicitTicketText", Len(snapshots[t]),
                               "Unreviewed", None)
    BY <1>2
  <2>2. x[1] \in Tickets /\ x[2] \in Kinds /\ None \in Notes /\ x = << x[1], x[2] >>
    BY <1>1, <2>1 DEF Notes
  <2>3. PICK to, kind : to = x[1] /\ kind = x[2]
    OBVIOUS
  <2>4. /\ to \in Tickets /\ kind \in Kinds /\ to # t
        /\ << to, kind >> \in snapshots[t][Len(snapshots[t])].refs
        /\ e = Edge(t, to, kind, "ExplicitTicketText", Len(snapshots[t]), "Unreviewed", None)
    BY <1>1, <2>1, <2>2, <2>3
  <2> QED BY <1>1, <2>2, <2>4, EdgeIsOK
<1>4. ASSUME NEW e \in ExtractedFrom(t), NEW f \in ExtractedFrom(t), EdgeKey(e) = EdgeKey(f)
      PROVE  e = f
  <2>1. PICK x \in Latest(t).refs :
          e = Edge(t, x[1], x[2], "ExplicitTicketText", Len(snapshots[t]), "Unreviewed", None)
    BY <1>2
  <2>2. PICK y \in Latest(t).refs :
          f = Edge(t, y[1], y[2], "ExplicitTicketText", Len(snapshots[t]), "Unreviewed", None)
    BY <1>2
  <2>3. x[1] = y[1] /\ x[2] = y[2]
    BY <1>4, <2>1, <2>2 DEF EdgeKey, Edge
  <2> QED BY <2>1, <2>2, <2>3
<1>5. IsFiniteSet(ExtractedFrom(t))
  <2> DEFINE S == {x \in Latest(t).refs : x[1] # t /\ ~has_reviewed_edge(t, x[1])}
             f(r) == Edge(t, r[1], r[2], "ExplicitTicketText", Len(snapshots[t]), "Unreviewed",
                          None)
  <2>1. S \subseteq Tickets \X Kinds
    BY <1>1
  <2>2. IsFiniteSet(S)
    BY <2>1, CatalogIsFinite, FS_Product, FS_Subset
  <2>3. IsFiniteSet({f(r) : r \in S})
    <3> HIDE DEF S, f
    <3> DEFINE T == {f(r) : r \in S}
               m == [r \in S |-> f(r)]
    <3>1. m \in [S -> T] /\ \A y \in T : \E x \in S : m[x] = y
      OBVIOUS
    <3> HIDE DEF T, m
    <3>2. IsFiniteSet(T)
      BY <2>2, <3>1, ImageIsFinite
    <3> QED BY <3>2 DEF T
  <2> QED BY <2>3 DEF ExtractedFrom
<1> QED BY <1>3, <1>4, <1>5

\* What the windows give: a derived edge with the windows of both tickets.
LEMMA TemporalOK ==
  ASSUME TypeOK, NEW e \in TemporalEdges
  PROVE  /\ EdgeOK(e, snapshots) /\ e.resolved /\ e.from \in Catalogued /\ e.to \in Catalogued
         /\ e.evidence = "DerivedTemporalOverlap" /\ e.kind = "TemporalOverlap"
         /\ e.snapshot = 0 /\ e.reviewed = "Unreviewed"
         /\ e.note = [t \in {e.from, e.to} |-> Latest(t).window]
<1>1. PICK p \in Catalogued \X Catalogued :
        /\ p[1] # p[2] /\ Overlap(Latest(p[1]).window, Latest(p[2]).window)
        /\ e = Edge(p[1], p[2], "TemporalOverlap", "DerivedTemporalOverlap", 0, "Unreviewed",
                    [t \in {p[1], p[2]} |-> Latest(t).window])
  BY DEF TemporalEdges
<1>2. p[1] \in Catalogued /\ p[2] \in Catalogued /\ Latest(p[1]).window # None
      /\ Latest(p[2]).window # None
  BY <1>1 DEF Overlap
<1>3. p[1] \in Tickets /\ p[2] \in Tickets /\ \A t \in {p[1], p[2]} : Latest(t).window \in Windows
  BY <1>2, LatestTyped
<1>4. {p[1], p[2]} \in Pairs
  BY <1>1, <1>3, TwoArePair
<1> DEFINE note == [t \in {p[1], p[2]} |-> Latest(t).window]
<1>5. note \in [{p[1], p[2]} -> Windows]
  BY <1>3
<1>6. note \in Notes
  BY <1>4, <1>5 DEF Notes
<1>7. 0 \in 0 .. MaxVersion
  BY BoundsAreNat
<1>11. Overlap(note[p[1]], note[p[2]])
  BY <1>1
<1>12. \A t \in {p[1], p[2]} : HadWindow(t, note[t], snapshots)
  BY <1>2, LatestTyped DEF HadWindow
<1>8. e = Edge(p[1], p[2], "TemporalOverlap", "DerivedTemporalOverlap", 0, "Unreviewed", note)
  BY <1>1
<1> HIDE DEF note
<1>9. EdgeOK(e, snapshots)
  <2>1. PICK from, to : from = p[1] /\ to = p[2]
    OBVIOUS
  <2>2. /\ from \in Tickets /\ to \in Tickets /\ from # to
        /\ Overlap(note[from], note[to])
        /\ \A t \in {from, to} : HadWindow(t, note[t], snapshots)
        /\ e = Edge(from, to, "TemporalOverlap", "DerivedTemporalOverlap", 0, "Unreviewed", note)
    BY <1>1, <1>3, <1>8, <1>11, <1>12, <2>1
  <2> QED BY <1>6, <1>7, <2>2, EdgeIsOK
<1>10. /\ e.resolved /\ e.from = p[1] /\ e.to = p[2] /\ e.evidence = "DerivedTemporalOverlap"
       /\ e.kind = "TemporalOverlap" /\ e.snapshot = 0 /\ e.reviewed = "Unreviewed"
       /\ e.note = note
  BY <1>2, <1>8 DEF Edge
<1> QED BY <1>2, <1>9, <1>10 DEF note

\* What the reviews give.
LEMMA EntityOK ==
  ASSUME NEW rs
  PROVE  /\ IsFiniteSet(EntityEdges(rs))
         /\ \A e \in EntityEdges(rs) : EdgeOK(e, snapshots)
         /\ \A e, f \in EntityEdges(rs) : EdgeKey(e) = EdgeKey(f) => e = f
<1>1. ASSUME NEW e \in EntityEdges(rs)
      PROVE  \E x \in Tickets \X Tickets :
               x[1] < x[2] /\ e = Edge(x[1], x[2], "EntityOverlap", "DerivedEntityOverlap", 0,
                                       "Unreviewed", None)
  BY <1>1 DEF EntityEdges
<1>2. ASSUME NEW e \in EntityEdges(rs) PROVE EdgeOK(e, snapshots)
  <2>1. PICK x \in Tickets \X Tickets :
          x[1] < x[2] /\ e = Edge(x[1], x[2], "EntityOverlap", "DerivedEntityOverlap", 0,
                                  "Unreviewed", None)
    BY <1>1
  <2>2. x[1] \in Tickets /\ x[2] \in Tickets
    BY <2>1
  <2>3. x[1] # x[2]
    <3>1. x[1] \in Nat /\ x[2] \in Nat
      BY <2>2, TicketsAreNumbers
    <3> QED BY <2>1, <3>1
  <2>4. None \in Notes /\ 0 \in 0 .. MaxVersion
    BY BoundsAreNat DEF Notes
  <2> QED BY <2>1, <2>2, <2>3, <2>4, EdgeIsOK
<1>3. ASSUME NEW e \in EntityEdges(rs), NEW f \in EntityEdges(rs), EdgeKey(e) = EdgeKey(f)
      PROVE  e = f
  <2>1. PICK x \in Tickets \X Tickets :
          e = Edge(x[1], x[2], "EntityOverlap", "DerivedEntityOverlap", 0, "Unreviewed", None)
    BY <1>1
  <2>2. PICK y \in Tickets \X Tickets :
          f = Edge(y[1], y[2], "EntityOverlap", "DerivedEntityOverlap", 0, "Unreviewed", None)
    BY <1>1
  <2>3. x[1] = y[1] /\ x[2] = y[2]
    BY <1>3, <2>1, <2>2 DEF EdgeKey, Edge
  <2> QED BY <2>1, <2>2, <2>3
<1>4. IsFiniteSet(EntityEdges(rs))
  <2> DEFINE S == {x \in Tickets \X Tickets :
                     x[1] < x[2] /\ Shared(rs, {x[1], x[2]}) \cap Labels # {}}
             f(q) == Edge(q[1], q[2], "EntityOverlap", "DerivedEntityOverlap", 0, "Unreviewed",
                          None)
  <2>1. IsFiniteSet(S)
    BY CatalogIsFinite, FS_Product, FS_Subset
  <2>2. IsFiniteSet({f(q) : q \in S})
    <3> HIDE DEF S, f
    <3> DEFINE T == {f(q) : q \in S}
               m == [q \in S |-> f(q)]
    <3>1. m \in [S -> T] /\ \A y \in T : \E x \in S : m[x] = y
      OBVIOUS
    <3> HIDE DEF T, m
    <3>2. IsFiniteSet(T)
      BY <2>1, <3>1, ImageIsFinite
    <3> QED BY <3>2 DEF T
  <2> QED BY <2>2 DEF EntityEdges
<1> QED BY <1>2, <1>3, <1>4

-----------------------------------------------------------------------------
(* The table of edges                                                      *)

EdgesOK(es, snaps) ==
  /\ IsFiniteSet(es)
  /\ \A e \in es : EdgeOK(e, snaps)
  /\ \A e, f \in es : EdgeKey(e) = EdgeKey(f) => e = f

\* What evidence takes from an edge of es is still in fs.
Covers(es, fs) ==
  \A e \in es : \E f \in fs :
    /\ f.kind = e.kind /\ f.from = e.from /\ f.to = e.to
    /\ f.evidence = e.evidence /\ f.note = e.note
    /\ e.resolved => f.resolved

LEMMA CoversMore ==
  ASSUME NEW es, NEW fs, es \subseteq fs PROVE Covers(es, fs)
BY DEF Covers

\* Links are only added.
Linked(ls, ms) == \A s \in CaseStudies : ls[s] \subseteq ms[s]

\* Evidence keeps its source.
LEMMA SourceCovered ==
  ASSUME NEW es, NEW fs, Covers(es, fs), NEW ls, NEW ms, Linked(ls, ms),
         NEW g, Sourced(g, es, ls)
  PROVE  Sourced(g, fs, ms)
<1> SUFFICES ASSUME NEW i \in g.evidence
             PROVE  /\ i.signal = "ExplicitTicketText" =>
                         \E e \in fs : /\ << e.kind, e.from, e.to >> = i.detail
                                       /\ e.evidence = "ExplicitTicketText" /\ e.resolved
                                       /\ {e.from, e.to} = g.members
                    /\ i.signal = "DerivedTemporalOverlap" =>
                         \E e \in fs : /\ e.evidence = "DerivedTemporalOverlap"
                                       /\ e.note = i.detail /\ {e.from, e.to} = g.members
                    /\ i.signal = "SharedCaseStudy" =>
                         \E s \in CaseStudies : i.detail = s /\ g.members \subseteq ms[s]
  BY DEF Sourced
<1>1. ASSUME i.signal = "ExplicitTicketText"
      PROVE  \E e \in fs : /\ << e.kind, e.from, e.to >> = i.detail
                           /\ e.evidence = "ExplicitTicketText" /\ e.resolved
                           /\ {e.from, e.to} = g.members
  <2>1. PICK e \in es : /\ << e.kind, e.from, e.to >> = i.detail
                        /\ e.evidence = "ExplicitTicketText" /\ e.resolved
                        /\ {e.from, e.to} = g.members
    BY <1>1 DEF Sourced
  <2>2. PICK f \in fs : /\ f.kind = e.kind /\ f.from = e.from /\ f.to = e.to
                        /\ f.evidence = e.evidence /\ f.resolved
    BY <2>1 DEF Covers
  <2> QED BY <2>1, <2>2
<1>2. ASSUME i.signal = "DerivedTemporalOverlap"
      PROVE  \E e \in fs : /\ e.evidence = "DerivedTemporalOverlap" /\ e.note = i.detail
                           /\ {e.from, e.to} = g.members
  <2>1. PICK e \in es : /\ e.evidence = "DerivedTemporalOverlap" /\ e.note = i.detail
                        /\ {e.from, e.to} = g.members
    BY <1>2 DEF Sourced
  <2>2. PICK f \in fs : /\ f.from = e.from /\ f.to = e.to
                        /\ f.evidence = e.evidence /\ f.note = e.note
    BY <2>1 DEF Covers
  <2> QED BY <2>1, <2>2
<1>3. ASSUME i.signal = "SharedCaseStudy"
      PROVE  \E s \in CaseStudies : i.detail = s /\ g.members \subseteq ms[s]
  BY <1>3 DEF Sourced, Linked
<1> QED BY <1>1, <1>2, <1>3

\* insert_relationship adds to the table and respects the unique index.
LEMMA InsertOK ==
  ASSUME NEW snaps, NEW es, EdgesOK(es, snaps), NEW new, EdgesOK(new, snaps)
  PROVE  EdgesOK(insert_relationship(es, new), snaps) /\ Covers(es, insert_relationship(es, new))
<1>1. Covers(es, insert_relationship(es, new))
  BY CoversMore DEF insert_relationship
<1>2. ASSUME NEW e \in insert_relationship(es, new) PROVE EdgeOK(e, snaps)
  BY <1>2 DEF insert_relationship, EdgesOK
<1>3. ASSUME NEW e \in insert_relationship(es, new), NEW f \in insert_relationship(es, new),
             EdgeKey(e) = EdgeKey(f)
      PROVE  e = f
  BY <1>3 DEF insert_relationship, EdgesOK
<1>4. IsFiniteSet(insert_relationship(es, new))
  <2>1. {n \in new : \A e \in es : EdgeKey(n) # EdgeKey(e)} \subseteq new
    OBVIOUS
  <2> QED BY <2>1, FS_Subset, FS_Union DEF EdgesOK, insert_relationship
<1> QED BY <1>1, <1>2, <1>3, <1>4 DEF EdgesOK

\* One edge.
LEMMA InsertOneOK ==
  ASSUME NEW snaps, NEW es, EdgesOK(es, snaps), NEW e, EdgeOK(e, snaps)
  PROVE  EdgesOK(insert_relationship(es, {e}), snaps) /\ Covers(es, insert_relationship(es, {e}))
<1>1. EdgesOK({e}, snaps)
  BY FS_Singleton DEF EdgesOK
<1> QED BY <1>1, InsertOK

\* Snapshots are only added.
Grown(snaps, more) ==
  \A t \in Tickets :
    /\ \A n \in DOMAIN snaps[t] : n \in DOMAIN more[t] /\ more[t][n] = snaps[t][n]
    /\ snaps[t] # << >> => more[t] # << >>

\* What an edge rests on stays.
LEMMA EdgeStaysOK ==
  ASSUME NEW snaps, NEW more, Grown(snaps, more), NEW e, EdgeOK(e, snaps)
  PROVE  EdgeOK(e, more)
<1>1. e \in Edges /\ e.from \in Tickets /\ e.to \in Tickets
  BY DEF EdgeOK, Edges
<1>2. /\ e.resolved => more[e.to] # << >>
      /\ e.reviewed = "Accepted" => e.snapshot \in DOMAIN more[e.from]
  BY <1>1 DEF EdgeOK, Grown
<1>3. e.reviewed = "Unreviewed" /\ e.evidence = "ExplicitTicketText" =>
        e.snapshot \in DOMAIN more[e.from] /\ << e.to, e.kind >> \in more[e.from][e.snapshot].refs
  BY <1>1 DEF EdgeOK, Grown
<1>4. ASSUME NEW t \in Tickets, NEW w, HadWindow(t, w, snaps) PROVE HadWindow(t, w, more)
  BY <1>4 DEF HadWindow, Grown
<1>5. e.evidence = "DerivedTemporalOverlap" =>
        /\ e.kind = "TemporalOverlap" /\ e.snapshot = 0 /\ e.reviewed = "Unreviewed"
        /\ Overlap(e.note[e.from], e.note[e.to])
        /\ \A t \in {e.from, e.to} : HadWindow(t, e.note[t], more)
  BY <1>1, <1>4 DEF EdgeOK
<1> QED BY <1>1, <1>2, <1>3, <1>5 DEF EdgeOK

LEMMA EdgesStayOK ==
  ASSUME NEW snaps, NEW more, Grown(snaps, more), NEW es, EdgesOK(es, snaps)
  PROVE  EdgesOK(es, more)
BY EdgeStaysOK DEF EdgesOK

LEMMA GrownSame ==
  ASSUME NEW snaps PROVE Grown(snaps, snaps)
BY DEF Grown

\* Resolving changes the resolved column only.
LEMMA ResolvedRow ==
  ASSUME NEW e \in Edges, NEW r \in BOOLEAN
  PROVE  /\ [e EXCEPT !.resolved = r] \in Edges
         /\ [e EXCEPT !.resolved = r].resolved = r
         /\ [e EXCEPT !.resolved = r].from = e.from /\ [e EXCEPT !.resolved = r].to = e.to
         /\ [e EXCEPT !.resolved = r].kind = e.kind /\ [e EXCEPT !.resolved = r].note = e.note
         /\ [e EXCEPT !.resolved = r].evidence = e.evidence
         /\ [e EXCEPT !.resolved = r].snapshot = e.snapshot
         /\ [e EXCEPT !.resolved = r].reviewed = e.reviewed
BY DEF Edges

LEMMA ResolveOK ==
  ASSUME EdgesOK(edges, snapshots)
  PROVE  /\ EdgesOK(Resolved, snapshots) /\ Covers(edges, Resolved)
         /\ \A e \in Resolved : e.resolved <=> e.to \in Catalogued
<1> DEFINE r(e) == e.resolved \/ e.to \in Catalogued
           f(e) == [e EXCEPT !.resolved = r(e)]
<1>1. Resolved = {f(e) : e \in edges}
  BY DEF Resolved
<1>2. ASSUME NEW e \in edges
      PROVE  /\ f(e) \in Edges /\ f(e).from = e.from /\ f(e).to = e.to /\ f(e).kind = e.kind
             /\ f(e).note = e.note /\ f(e).evidence = e.evidence /\ f(e).snapshot = e.snapshot
             /\ f(e).reviewed = e.reviewed
             /\ f(e).resolved <=> e.to \in Catalogued
             /\ e.resolved => f(e).resolved
  <2>1. e \in Edges /\ (e.resolved => e.to \in Catalogued)
    BY DEF EdgesOK, EdgeOK, Edges, Catalogued
  <2>2. r(e) \in BOOLEAN
    <3>1. CASE r(e)
      BY <3>1
    <3>2. CASE ~r(e)
      BY <3>2
    <3> QED BY <3>1, <3>2
  <2> QED BY <2>1, <2>2, ResolvedRow
<1> HIDE DEF f
<1>3. ASSUME NEW x \in Resolved PROVE EdgeOK(x, snapshots)
  <2>1. PICK e \in edges : x = f(e)
    BY <1>1, <1>3
  <2>2. /\ x \in Edges /\ x.from = e.from /\ x.to = e.to /\ x.kind = e.kind /\ x.note = e.note
        /\ x.evidence = e.evidence /\ x.snapshot = e.snapshot /\ x.reviewed = e.reviewed
        /\ x.resolved => snapshots[x.to] # << >>
    BY <1>2, <2>1 DEF Catalogued
  <2>3. EdgeOK(e, snapshots)
    BY DEF EdgesOK
  <2> QED BY <2>2, <2>3 DEF EdgeOK
<1>4. Covers(edges, Resolved)
  BY <1>1, <1>2 DEF Covers
<1>5. ASSUME NEW x \in Resolved, NEW y \in Resolved, EdgeKey(x) = EdgeKey(y) PROVE x = y
  <2>1. PICK a \in edges, b \in edges : x = f(a) /\ y = f(b)
    BY <1>1
  <2>2. EdgeKey(a) = EdgeKey(b)
    BY <1>2, <1>5, <2>1 DEF EdgeKey
  <2> QED BY <2>1, <2>2 DEF EdgesOK
<1>6. IsFiniteSet(Resolved)
  <2> DEFINE m == [e \in edges |-> f(e)]
  <2>1. m \in [edges -> Resolved] /\ \A y \in Resolved : \E x \in edges : m[x] = y
    BY <1>1
  <2> HIDE DEF m
  <2> QED BY <2>1, ImageIsFinite DEF EdgesOK
<1> QED BY <1>1, <1>2, <1>3, <1>4, <1>5, <1>6 DEF EdgesOK

-----------------------------------------------------------------------------
(* Steps that leave the candidates alone                                   *)

\* The candidates, stored and proposed, when edges and links only grow.
LEMMA GroupsKept ==
  ASSUME TablesInv, groups' = groups, Covers(edges, edges'), Linked(links, links')
  PROVE  EvidenceHasSource' /\ RejectedIsReviewed'
<1>1. ASSUME NEW g \in groups PROVE Sourced(g, edges', links')
  <2>1. Sourced(g, edges, links)
    BY DEF TablesInv, EvidenceHasSource
  <2> QED BY <2>1, SourceCovered
<1> QED BY <1>1 DEF TablesInv, EvidenceHasSource, RejectedIsReviewed

LEMMA ProposedKept ==
  ASSUME Covers(edges, edges'), Linked(links, links'), NEW c, Proposed(c)
  PROVE  Proposed(c)'
<1>1. Sourced(c, edges', links')
  BY SourceCovered DEF Proposed
<1> QED BY <1>1 DEF Proposed

LEMMA GrownKnown ==
  ASSUME Grown(snapshots, snapshots') PROVE Catalogued \subseteq Catalogued'
BY DEF Grown, Catalogued

LEMMA LinkedSame ==
  ASSUME NEW ls PROVE Linked(ls, ls)
BY DEF Linked

LEMMA PendingKept ==
  ASSUME TablesInv, UNCHANGED << pc, todo, current >>, Covers(edges, edges'),
         Linked(links, links'), Grown(snapshots, snapshots')
  PROVE  PendingAgrees'
<1>1. (pc = "extract" => todo \subseteq Catalogued)'
  BY GrownKnown DEF TablesInv, PendingAgrees
<1>2. (pc = "overlaps" => \A e \in todo : EdgeOK(e, snapshots))'
  BY EdgeStaysOK DEF TablesInv, PendingAgrees
<1>3. (pc \in {"case_groups", "pair_groups"} => \A c \in todo : Proposed(c))'
  BY ProposedKept DEF TablesInv, PendingAgrees
<1>4. (\A c \in current : Proposed(c) /\ pc \in {"case_groups", "pair_groups"})'
  BY ProposedKept DEF TablesInv, PendingAgrees
<1> QED BY <1>1, <1>2, <1>3, <1>4 DEF PendingAgrees

LEMMA UpsertKept ==
  ASSUME TablesInv, UNCHANGED << groups, current, at, doomed, late >> PROVE UpsertAgrees'
BY DEF TablesInv, UpsertAgrees

\* Whoever changes no group and no row of the rebuild needs to keep the tables only.
LEMMA OutsideInv ==
  ASSUME TablesInv, UNCHANGED << groups, pc, todo, current, at, doomed, late >>,
         Covers(edges, edges'), Linked(links, links'), Grown(snapshots, snapshots'),
         EdgesOK(edges', snapshots'),
         snapshots' \in [Tickets -> Seq(Contents)],
         \A t \in Tickets : Len(snapshots'[t]) <= MaxVersion,
         reviews' \in [Tickets -> SUBSET (Labels \cup ChangeIds)],
         links' \in [CaseStudies -> SUBSET Tickets]
  PROVE  TablesInv' /\ \A g \in groups : g \in groups'
<1>1. TypeOK'
  BY DEF TablesInv, TypeOK, EdgesOK, SameFingerprint
<1> QED BY <1>1, GroupsKept, PendingKept, UpsertKept DEF TablesInv

LEMMA TablesOK ==
  ASSUME TablesInv
  PROVE  /\ EdgesOK(edges, snapshots)
         /\ snapshots \in [Tickets -> Seq(Contents)]
         /\ \A t \in Tickets : Len(snapshots[t]) <= MaxVersion
         /\ reviews \in [Tickets -> SUBSET (Labels \cup ChangeIds)]
         /\ links \in [CaseStudies -> SUBSET Tickets]
BY DEF TablesInv, TypeOK, EdgesOK

LEMMA SyncInv ==
  ASSUME TablesInv, NEW t \in Tickets, NEW c \in Contents, Sync(t, c)
  PROVE  TablesInv' /\ \A g \in groups : g \in groups'
<1>1. /\ snapshots' = [snapshots EXCEPT ![t] = Append(snapshots[t], c)]
      /\ Len(snapshots[t]) < MaxVersion
      /\ UNCHANGED << reviews, links, edges, groups, pc, todo, current, at, doomed, late >>
  BY DEF Sync, upserting
<1>2. /\ snapshots[t] \in Seq(Contents) /\ Append(snapshots[t], c) \in Seq(Contents)
      /\ Len(Append(snapshots[t], c)) = Len(snapshots[t]) + 1
      /\ Append(snapshots[t], c) # << >> /\ Len(snapshots[t]) \in Nat
      /\ DOMAIN snapshots[t] = 1 .. Len(snapshots[t])
      /\ DOMAIN Append(snapshots[t], c) = 1 .. Len(snapshots[t]) + 1
      /\ \A n \in 1 .. Len(snapshots[t]) : Append(snapshots[t], c)[n] = snapshots[t][n]
  BY TablesOK, AppendProperties, LenProperties
<1>3. /\ snapshots' \in [Tickets -> Seq(Contents)]
      /\ \A u \in Tickets : Len(snapshots'[u]) <= MaxVersion
  BY <1>1, <1>2, TablesOK, BoundsAreNat
<1>4. Grown(snapshots, snapshots')
  <2> SUFFICES ASSUME NEW u \in Tickets
               PROVE  /\ \A n \in DOMAIN snapshots[u] :
                           n \in DOMAIN snapshots'[u] /\ snapshots'[u][n] = snapshots[u][n]
                      /\ snapshots[u] # << >> => snapshots'[u] # << >>
    BY DEF Grown
  <2>1. CASE u = t
    <3>1. snapshots'[u] = Append(snapshots[t], c)
      BY <1>1, <2>1, TablesOK
    <3> QED BY <1>2, <2>1, <3>1
  <2>2. CASE u # t
    <3>1. snapshots'[u] = snapshots[u]
      BY <1>1, <2>2, TablesOK
    <3> QED BY <3>1
  <2> QED BY <2>1, <2>2
<1>5. EdgesOK(edges', snapshots') /\ Covers(edges, edges') /\ Linked(links, links')
  BY <1>1, <1>4, TablesOK, EdgesStayOK, CoversMore, LinkedSame
<1> QED BY <1>1, <1>3, <1>4, <1>5, TablesOK, OutsideInv

LEMMA LinkInv ==
  ASSUME TablesInv, NEW s \in CaseStudies, NEW t \in Tickets, LinkCaseStudy(s, t)
  PROVE  TablesInv' /\ \A g \in groups : g \in groups'
<1>1. /\ links' \in [CaseStudies -> SUBSET Tickets] /\ Linked(links, links')
      /\ UNCHANGED << snapshots, reviews, edges, groups, pc, todo, current, at, doomed, late >>
  BY TablesOK DEF LinkCaseStudy, upserting, Linked
<1>2. Grown(snapshots, snapshots') /\ Covers(edges, edges')
  BY <1>1, CoversMore, GrownSame
<1> QED BY <1>1, <1>2, TablesOK, OutsideInv

LEMMA ReviewInv ==
  ASSUME TablesInv, NEW t \in Tickets, NEW l \in SUBSET (Labels \cup ChangeIds),
         ImportReview(t, l) \/ ImportReviewInterrupted(t, l)
  PROVE  TablesInv' /\ \A g \in groups : g \in groups'
<1>1. /\ reviews' \in [Tickets -> SUBSET (Labels \cup ChangeIds)]
      /\ edges' = edges \/ edges' = insert_relationship(edges, EntityEdges(reviews'))
      /\ UNCHANGED << snapshots, links, groups, pc, todo, current, at, doomed, late >>
  BY TablesOK DEF ImportReview, ImportReviewInterrupted, upserting
<1>2. Grown(snapshots, snapshots') /\ Linked(links, links')
  BY <1>1, GrownSame, LinkedSame
<1>3. EdgesOK(EntityEdges(reviews'), snapshots)
  BY EntityOK DEF EdgesOK
<1>4. EdgesOK(edges', snapshots) /\ Covers(edges, edges')
  BY <1>1, <1>3, TablesOK, InsertOK, CoversMore
<1> QED BY <1>1, <1>2, <1>4, TablesOK, OutsideInv

LEMMA ReviewedEdgeInv ==
  ASSUME TablesInv, NEW t \in Tickets, NEW to \in Tickets, NEW k \in Kinds,
         NEW e \in {"ExplicitTicketText", "AnalystReviewed"},
         ImportReviewedEdge(t, to, k, e)
  PROVE  TablesInv' /\ \A g \in groups : g \in groups'
<1> DEFINE new == Edge(t, to, k, e, Len(snapshots[t]), "Accepted", None)
<1>1. /\ t \in Catalogued /\ edges' = insert_relationship(edges, {new})
      /\ UNCHANGED << snapshots, reviews, links, groups, pc, todo, current, at, doomed, late >>
  BY DEF ImportReviewedEdge, upserting
<1>2. /\ Len(snapshots[t]) \in 0 .. MaxVersion /\ None \in Notes
      /\ Len(snapshots[t]) \in DOMAIN snapshots[t]
  BY <1>1, LatestTyped DEF TablesInv, Notes
<1>3. EdgeOK(new, snapshots)
  BY <1>2, EdgeIsOK
<1> HIDE DEF new
<1>4. EdgesOK(edges', snapshots) /\ Covers(edges, edges')
  BY <1>1, <1>3, TablesOK, InsertOneOK
<1>5. Grown(snapshots, snapshots') /\ Linked(links, links')
  BY <1>1, GrownSame, LinkedSame
<1> QED BY <1>1, <1>4, <1>5, TablesOK, OutsideInv

-----------------------------------------------------------------------------
(* Steps that change the candidates                                        *)

\* When the candidates change and nothing that they are made of does.
LEMMA GroupsInv ==
  ASSUME TablesInv, UNCHANGED << snapshots, reviews, links, edges >>,
         \A g, h \in groups' : SameFingerprint(g, h) => g = h,
         \A g \in groups' : /\ IsRow(g) /\ (g.confidence = "Rejected" => g.review = "Reviewed")
                            /\ Sourced(g, edges, links)
  PROVE  TypeOK' /\ EvidenceHasSource' /\ RejectedIsReviewed'
<1>1. TypeOK'
  BY DEF TablesInv, TypeOK
<1> QED BY <1>1 DEF TablesInv, EvidenceHasSource, RejectedIsReviewed

\* A row of the table.
LEMMA RowOK ==
  ASSUME TablesInv, NEW g \in groups
  PROVE  /\ IsRow(g) /\ (g.confidence = "Rejected" => g.review = "Reviewed")
         /\ Sourced(g, edges, links)
         /\ \A h \in groups : SameFingerprint(g, h) => g = h
BY DEF TablesInv, RejectedIsReviewed, EvidenceHasSource, TypeOK

\* When no candidate is new or changed.
LEMMA FewerGroups ==
  ASSUME TablesInv, UNCHANGED << snapshots, reviews, links, edges >>, groups' \subseteq groups
  PROVE  TypeOK' /\ EvidenceHasSource' /\ RejectedIsReviewed'
<1>1. \A g, h \in groups' : SameFingerprint(g, h) => g = h
  BY RowOK
<1>2. \A g \in groups' : /\ IsRow(g) /\ (g.confidence = "Rejected" => g.review = "Reviewed")
                         /\ Sourced(g, edges, links)
  BY RowOK
<1> QED BY <1>1, <1>2, GroupsInv

\* What the rebuild holds, when it takes a candidate up or gives one up.
LEMMA PendingLess ==
  ASSUME TablesInv, UNCHANGED << snapshots, links, edges, pc >>, todo' \subseteq todo,
         \A c \in current' : c \in current \/ (c \in todo /\ pc \in {"case_groups", "pair_groups"})
  PROVE  PendingAgrees'
<1>1. \A c : Proposed(c)' <=> Proposed(c)
  BY DEF Proposed
<1>2. Catalogued' = Catalogued
  BY DEF Catalogued
<1>3. \A c \in current' : Proposed(c) /\ pc \in {"case_groups", "pair_groups"}
  BY DEF TablesInv, PendingAgrees
<1>4. /\ pc = "extract" => todo \subseteq Catalogued
      /\ pc = "overlaps" => \A e \in todo : EdgeOK(e, snapshots)
      /\ pc \in {"case_groups", "pair_groups"} => \A c \in todo : Proposed(c)
  BY DEF TablesInv, PendingAgrees
<1> QED BY <1>1, <1>2, <1>3, <1>4 DEF PendingAgrees

\* A rejection changes two columns of one row; one that was rejected before is the
\* same afterwards.
LEMMA RejectionOK ==
  ASSUME TablesInv, NEW g \in groups
  PROVE  /\ Rejection(g).members = g.members /\ Rejection(g).evidence = g.evidence
         /\ Rejection(g).confidence = "Rejected" /\ Rejection(g).review = "Reviewed"
         /\ IsRow(Rejection(g))
         /\ g.confidence = "Rejected" => Rejection(g) = g
<1> DEFINE r == Rejection(g)
<1>1. IsRow(g) /\ (g.confidence = "Rejected" => g.review = "Reviewed")
  BY RowOK
<1>2. r = [members |-> g.members, evidence |-> g.evidence, confidence |-> "Rejected",
           review |-> "Reviewed"]
  <2> DEFINE q == [g EXCEPT !.confidence = "Rejected"]
  <2>1. q = [members |-> g.members, evidence |-> g.evidence, confidence |-> "Rejected",
             review |-> g.review]
    BY <1>1 DEF IsRow
  <2>2. r = [q EXCEPT !.review = "Reviewed"]
    BY <1>1 DEF IsRow, Rejection
  <2> HIDE DEF q, r
  <2> QED BY <2>1, <2>2
<1> HIDE DEF r
<1>3. /\ r.members = g.members /\ r.evidence = g.evidence
      /\ r.confidence = "Rejected" /\ r.review = "Reviewed"
  BY <1>2
<1>4. IsRow(r) /\ (g.confidence = "Rejected" => r = g)
  BY <1>1, <1>2, <1>3 DEF IsRow
<1> QED BY <1>3, <1>4 DEF r

LEMMA RejectInv ==
  ASSUME TablesInv, NEW g \in groups, RejectCandidate(g)
  PROVE  TablesInv' /\ \A h \in groups : h.confidence = "Rejected" => h \in groups'
<1>1. PICK r : r = Rejection(g)
  OBVIOUS
<1>2. /\ groups' = (groups \ {g}) \cup {r}
      /\ late' = IF g.confidence # "Rejected" /\ \E c \in current : c.members = g.members
                 THEN late \cup {r} ELSE late
      /\ UNCHANGED << snapshots, reviews, links, edges, pc, todo, current, at, doomed >>
  BY <1>1 DEF RejectCandidate
<1>3. /\ r.members = g.members /\ r.evidence = g.evidence
      /\ r.confidence = "Rejected" /\ r.review = "Reviewed" /\ IsRow(r)
      /\ g.confidence = "Rejected" => r = g
  BY <1>1, RejectionOK
<1>4. ASSUME NEW a \in groups', NEW b \in groups', SameFingerprint(a, b) PROVE a = b
  BY <1>2, <1>3, <1>4, RowOK DEF SameFingerprint
<1>5. ASSUME NEW a \in groups'
      PROVE  /\ IsRow(a) /\ (a.confidence = "Rejected" => a.review = "Reviewed")
             /\ Sourced(a, edges, links)
  <2>1. CASE a = r
    <3>1. Sourced(g, edges, links)
      BY RowOK
    <3>2. Sourced(r, edges, links)
      BY <1>3, <3>1 DEF Sourced
    <3> QED BY <1>3, <2>1, <3>2
  <2>2. CASE a # r
    BY <1>2, <1>5, <2>2, RowOK
  <2> QED BY <2>1, <2>2
<1>6. TypeOK' /\ EvidenceHasSource' /\ RejectedIsReviewed'
  BY <1>2, <1>4, <1>5, GroupsInv
<1>7. PendingAgrees'
  BY <1>2, PendingLess
<1>8. UpsertAgrees'
  <2>1. /\ \A c, d \in current : c = d
        /\ \A d \in doomed : at = "delete" /\ \E c \in current : c.members = d.members
        /\ \A h \in groups : h.confidence = "Rejected" /\ h \notin late =>
             /\ \A d \in doomed : ~SameFingerprint(h, d)
             /\ at = "update" => \A c \in current : ~SameFingerprint(h, c)
    BY DEF TablesInv, UpsertAgrees
  <2>2. ASSUME NEW h \in groups', h.confidence = "Rejected", h \notin late'
        PROVE  /\ \A d \in doomed : ~SameFingerprint(h, d)
               /\ at = "update" => \A c \in current : ~SameFingerprint(h, c)
    <3>1. CASE h \in groups
      BY <1>2, <2>1, <2>2, <3>1
    <3>2. CASE h \notin groups
      <4>1. h = r /\ g.confidence # "Rejected"
        BY <1>2, <1>3, <2>2, <3>2
      <4>2. ~\E c \in current : c.members = h.members
        BY <1>2, <1>3, <2>2, <4>1
      <4> QED BY <2>1, <4>2 DEF SameFingerprint
    <3> QED BY <3>1, <3>2
  <2> QED BY <1>2, <2>1, <2>2 DEF UpsertAgrees
<1> QED BY <1>2, <1>3, <1>6, <1>7, <1>8 DEF TablesInv

\* The first statements of an upsert choose what is to be deleted: nothing that was
\* reviewed then.
LEMMA UpsertInv ==
  ASSUME TablesInv, \/ \E c \in todo : Upsert(c)
                    \/ ListSuperseded
  PROVE  TablesInv' /\ \A g \in groups : g \in groups'
<1>1. /\ pc' = pc /\ todo' \subseteq todo /\ UNCHANGED << snapshots, reviews, links, edges, groups >>
      /\ \A c \in current' : c \in current \/ (c \in todo /\ pc \in {"case_groups", "pair_groups"})
  BY DEF Upsert, ListSuperseded, graph
<1>2. TypeOK' /\ EvidenceHasSource' /\ RejectedIsReviewed' /\ PendingAgrees'
  BY <1>1, FewerGroups, PendingLess
<1>3. /\ \A c, d \in current : c = d
      /\ \A d \in doomed : at = "delete" /\ \E c \in current : c.members = d.members
      /\ \A g \in groups : g.confidence = "Rejected" /\ g \notin late =>
           /\ \A d \in doomed : ~SameFingerprint(g, d)
           /\ at = "update" => \A c \in current : ~SameFingerprint(g, c)
  BY DEF TablesInv, UpsertAgrees
<1>4. CASE \E c \in todo : Upsert(c)
  <2>1. PICK c \in todo : Upsert(c)
    BY <1>4
  <2>2. /\ doomed' = doomed /\ late' = late /\ current = {}
        /\ \/ current' = current /\ at' = at
           \/ current' = {c} /\ at' = "list"
    BY <2>1 DEF Upsert
  <2>3. doomed = {}
    BY <1>3, <2>2
  <2>4. UpsertAgrees'
    BY <1>1, <1>3, <2>2, <2>3 DEF UpsertAgrees
  <2> QED BY <1>1, <1>2, <2>4 DEF TablesInv
<1>5. CASE ListSuperseded
  <2>1. PICK c \in current : doomed' = Superseded(c)
    BY <1>5 DEF ListSuperseded
  <2>2. current' = current /\ at' = "delete" /\ late' = late
    BY <1>5 DEF ListSuperseded
  <2>3. \A d \in doomed' : d \in groups /\ d.review = "Unreviewed" /\ d.members = c.members
    BY <2>1 DEF Superseded
  <2>4. ASSUME NEW g \in groups, g.confidence = "Rejected"
        PROVE  \A d \in doomed' : ~SameFingerprint(g, d)
    BY <2>3, <2>4, RowOK
  <2>5. UpsertAgrees'
    BY <1>1, <1>3, <2>2, <2>3, <2>4 DEF UpsertAgrees
  <2> QED BY <1>1, <1>2, <2>5 DEF TablesInv
<1> QED BY <1>4, <1>5

\* Deleting by id takes a rejected row only when it was rejected late.
LEMMA DeleteInv ==
  ASSUME TablesInv, NEW g \in doomed, DeleteRow(g)
  PROVE  /\ TablesInv'
         /\ \A h \in groups : h.confidence = "Rejected" /\ h \notin late => h \in groups'
<1>1. /\ groups' = {h \in groups : ~SameFingerprint(h, g)} /\ doomed' = doomed \ {g}
      /\ UNCHANGED << snapshots, reviews, links, edges, pc, todo, current, at, late >>
  BY DEF DeleteRow, graph
<1>2. groups' \subseteq groups
  BY <1>1
<1>3. TypeOK' /\ EvidenceHasSource' /\ RejectedIsReviewed' /\ PendingAgrees'
  BY <1>1, <1>2, FewerGroups, PendingLess
<1>4. UpsertAgrees'
  BY <1>1, <1>2 DEF TablesInv, UpsertAgrees
<1>5. ASSUME NEW h \in groups, h.confidence = "Rejected", h \notin late PROVE h \in groups'
  BY <1>1, <1>5 DEF TablesInv, UpsertAgrees
<1> QED BY <1>3, <1>4, <1>5 DEF TablesInv

LEMMA LookUpInv ==
  ASSUME TablesInv, LookUp
  PROVE  TablesInv' /\ \A g \in groups : g \in groups'
<1>1. /\ doomed = {} /\ doomed' = {}
      /\ UNCHANGED << snapshots, reviews, links, edges, pc, todo, groups >>
  BY DEF LookUp, graph
<1>2. PICK c \in current :
        \/ at' = "insert" /\ current' = current /\ late' = late
        \/ /\ \E g \in groups : SameFingerprint(g, c) /\ g.confidence # "Rejected"
           /\ at' = "update" /\ current' = current /\ late' = late
        \/ current' = {} /\ at' = "check"
  BY DEF LookUp, Return
<1>3. TypeOK' /\ EvidenceHasSource' /\ RejectedIsReviewed' /\ PendingAgrees'
  BY <1>1, <1>2, FewerGroups, PendingLess
<1>4. \A a, b \in current : a = b
  BY DEF TablesInv, UpsertAgrees
<1>5. ASSUME NEW g \in groups, g.confidence = "Rejected", at' = "update", NEW d \in current'
      PROVE  ~SameFingerprint(g, d)
  <2>1. PICK h \in groups : SameFingerprint(h, c) /\ h.confidence # "Rejected"
    BY <1>2, <1>5
  <2>2. d = c
    BY <1>2, <1>4, <1>5
  <2>3. ASSUME SameFingerprint(g, c) PROVE FALSE
    <3>1. SameFingerprint(g, h)
      BY <2>1, <2>3 DEF SameFingerprint
    <3> QED BY <1>5, <2>1, <3>1, RowOK
  <2> QED BY <2>2, <2>3
<1>6. UpsertAgrees'
  BY <1>1, <1>2, <1>4, <1>5 DEF UpsertAgrees
<1> QED BY <1>1, <1>3, <1>6 DEF TablesInv

\* A row with the fingerprint of the candidate is reclassified, by id: a rejected one
\* only when it was rejected late.
LEMMA ReclassifyInv ==
  ASSUME TablesInv, Reclassify
  PROVE  /\ TablesInv'
         /\ \A h \in groups : h.confidence = "Rejected" /\ h \notin late => h \in groups'
<1> DEFINE f(c, g) == IF SameFingerprint(g, c) THEN [g EXCEPT !.confidence = c.confidence] ELSE g
<1>1. PICK c \in current : groups' = {f(c, g) : g \in groups}
  BY DEF Reclassify
<1>2. /\ Proposed(c) /\ at = "update" /\ current' = {} /\ at' = "check" /\ doomed' = doomed
      /\ UNCHANGED << snapshots, reviews, links, edges, pc, todo >>
  BY <1>1 DEF Reclassify, Return, TablesInv, PendingAgrees, graph
<1>3. c.confidence # "Rejected"
  BY <1>2 DEF Proposed
<1>4. ASSUME NEW g \in groups
      PROVE  /\ f(c, g).members = g.members /\ f(c, g).evidence = g.evidence
             /\ IsRow(f(c, g)) /\ (f(c, g).confidence = "Rejected" => f(c, g).review = "Reviewed")
             /\ ~SameFingerprint(g, c) => f(c, g) = g
  <2>1. IsRow(g) /\ (g.confidence = "Rejected" => g.review = "Reviewed")
    BY RowOK
  <2>2. CASE SameFingerprint(g, c)
    <3>1. f(c, g) = [g EXCEPT !.confidence = c.confidence]
      BY <2>2
    <3> QED BY <1>3, <2>1, <2>2, <3>1 DEF IsRow
  <2>3. CASE ~SameFingerprint(g, c)
    BY <2>1, <2>3
  <2> QED BY <2>2, <2>3
<1> HIDE DEF f
<1>5. ASSUME NEW a \in groups', NEW b \in groups', SameFingerprint(a, b) PROVE a = b
  <2>1. PICK x \in groups, y \in groups : a = f(c, x) /\ b = f(c, y)
    BY <1>1, <1>5
  <2>2. SameFingerprint(x, y)
    BY <1>4, <1>5, <2>1 DEF SameFingerprint
  <2> QED BY <2>1, <2>2, RowOK
<1>6. ASSUME NEW a \in groups'
      PROVE  /\ IsRow(a) /\ (a.confidence = "Rejected" => a.review = "Reviewed")
             /\ Sourced(a, edges, links)
  <2>1. PICK x \in groups : a = f(c, x)
    BY <1>1, <1>6
  <2>2. Sourced(x, edges, links) /\ a.members = x.members /\ a.evidence = x.evidence
    BY <1>4, <2>1, RowOK
  <2>3. Sourced(a, edges, links)
    BY <2>2 DEF Sourced
  <2> QED BY <1>4, <2>1, <2>3
<1>7. TypeOK' /\ EvidenceHasSource' /\ RejectedIsReviewed' /\ PendingAgrees'
  BY <1>2, <1>5, <1>6, GroupsInv, PendingLess
<1>8. UpsertAgrees'
  BY <1>2 DEF TablesInv, UpsertAgrees
<1>9. ASSUME NEW h \in groups, h.confidence = "Rejected", h \notin late PROVE h \in groups'
  <2>1. ~SameFingerprint(h, c)
    BY <1>2, <1>9 DEF TablesInv, UpsertAgrees
  <2> QED BY <1>1, <1>4, <2>1
<1> QED BY <1>7, <1>8, <1>9 DEF TablesInv

LEMMA InsertCandidateInv ==
  ASSUME TablesInv, InsertCandidate
  PROVE  TablesInv' /\ \A g \in groups : g \in groups'
<1>1. PICK c \in current :
        groups' = groups \cup {d \in {c} : \A g \in groups : ~SameFingerprint(g, d)}
  BY DEF InsertCandidate
<1>2. /\ Proposed(c) /\ at = "insert" /\ current' = {} /\ doomed' = doomed
      /\ UNCHANGED << snapshots, reviews, links, edges, pc, todo >>
  BY <1>1 DEF InsertCandidate, Return, TablesInv, PendingAgrees, graph
<1>3. /\ IsRow(c) /\ c.confidence # "Rejected" /\ Sourced(c, edges, links)
  BY <1>2 DEF Proposed
<1>4. ASSUME NEW a \in groups', NEW b \in groups', SameFingerprint(a, b) PROVE a = b
  BY <1>1, <1>4, RowOK DEF SameFingerprint
<1>5. ASSUME NEW a \in groups'
      PROVE  /\ IsRow(a) /\ (a.confidence = "Rejected" => a.review = "Reviewed")
             /\ Sourced(a, edges, links)
  BY <1>1, <1>3, <1>5, RowOK
<1>6. TypeOK' /\ EvidenceHasSource' /\ RejectedIsReviewed' /\ PendingAgrees'
  BY <1>2, <1>4, <1>5, GroupsInv, PendingLess
<1>7. UpsertAgrees'
  BY <1>2 DEF TablesInv, UpsertAgrees
<1> QED BY <1>1, <1>6, <1>7 DEF TablesInv

-----------------------------------------------------------------------------
(* The steps of a rebuild                                                  *)

LEMMA ItemFields ==
  ASSUME NEW signal, NEW detail
  PROVE  Item(signal, detail).signal = signal /\ Item(signal, detail).detail = detail
BY DEF Item

LEMMA CandidateFields ==
  ASSUME NEW members, NEW evidence, NEW confidence
  PROVE  LET c == Candidate(members, evidence, confidence) IN
         /\ c.members = members /\ c.evidence = evidence /\ c.confidence = confidence
         /\ c.review = "Unreviewed" /\ IsRow(c)
BY DEF Candidate, IsRow

\* The evidence of a pair comes from the edges that are read.
LEMMA EvidenceSourced ==
  ASSUME NEW c, NEW p, c.members = p, c.evidence = Evidence(p) PROVE Sourced(c, edges, links)
<1> SUFFICES ASSUME NEW i \in Evidence(p)
             PROVE  /\ i.signal = "ExplicitTicketText" =>
                         \E e \in edges : /\ << e.kind, e.from, e.to >> = i.detail
                                          /\ e.evidence = "ExplicitTicketText" /\ e.resolved
                                          /\ {e.from, e.to} = p
                    /\ i.signal = "DerivedTemporalOverlap" =>
                         \E e \in edges : /\ e.evidence = "DerivedTemporalOverlap"
                                          /\ e.note = i.detail /\ {e.from, e.to} = p
                    /\ i.signal # "SharedCaseStudy"
  BY DEF Sourced
<1>1. CASE \E e \in EdgesOf(p, "ExplicitTicketText") :
             i = Item("ExplicitTicketText", << e.kind, e.from, e.to >>)
  BY <1>1, ItemFields DEF EdgesOf
<1>2. CASE \E e \in EdgesOf(p, "DerivedTemporalOverlap") :
             i = Item("DerivedTemporalOverlap", e.note)
  BY <1>2, ItemFields DEF EdgesOf
<1>3. CASE \E d : i = Item("SharedReviewedEntity", d) \/ i = Item("SharedMaintenanceChange", d)
  BY <1>3, ItemFields
<1> QED BY <1>1, <1>2, <1>3 DEF Evidence, TemporalItems

LEMMA PairsProposed ==
  ASSUME NEW c \in PairCandidates PROVE Proposed(c)
<1>1. PICK p \in Pairs : c = Candidate(p, Evidence(p), classify_pair(Evidence(p)))
  BY DEF PairCandidates
<1>2. classify_pair(Evidence(p)) # "Rejected"
  BY DEF classify_pair
<1>3. c.members = p /\ c.evidence = Evidence(p)
  BY <1>1, CandidateFields
<1> QED BY <1>1, <1>2, <1>3, CandidateFields, EvidenceSourced DEF Proposed

LEMMA CasesProposed ==
  ASSUME NEW s \in CaseStudies
  PROVE  Proposed(Candidate(links[s], {Item("SharedCaseStudy", s)}, "StrongCandidate"))
<1>1. PICK c : c = Candidate(links[s], {Item("SharedCaseStudy", s)}, "StrongCandidate")
  OBVIOUS
<1>2. /\ c.members = links[s] /\ c.evidence = {Item("SharedCaseStudy", s)}
      /\ c.confidence = "StrongCandidate" /\ c.review = "Unreviewed" /\ IsRow(c)
  BY <1>1, CandidateFields
<1>3. Sourced(c, edges, links)
  <2>1. PICK x : x = Item("SharedCaseStudy", s)
    OBVIOUS
  <2>2. x.signal = "SharedCaseStudy" /\ x.detail = s
    BY <2>1, ItemFields
  <2>3. \A i \in c.evidence : i = x
    BY <1>2, <2>1
  <2>4. c.members \subseteq links[s]
    BY <1>2
  <2> QED BY <2>2, <2>3, <2>4 DEF Sourced
<1> QED BY <1>1, <1>2, <1>3 DEF Proposed

\* A step of the rebuild that changes edges and what is to be done, no more.
LEMMA StageInv ==
  ASSUME TablesInv, UNCHANGED << snapshots, reviews, links, groups, current, at, doomed, late >>,
         EdgesOK(edges', snapshots), Covers(edges, edges'), PendingAgrees'
  PROVE  TablesInv' /\ \A g \in groups : g \in groups'
<1>1. TypeOK'
  BY DEF TablesInv, TypeOK, EdgesOK
<1> QED BY <1>1, GroupsKept, LinkedSame, UpsertKept DEF TablesInv

\* The candidate that is held stays one.
LEMMA CurrentKept ==
  ASSUME TablesInv, Covers(edges, edges'), links' = links, current' = current
  PROVE  /\ \A c \in current : Proposed(c)'
         /\ current # {} => pc \in {"case_groups", "pair_groups"}
BY ProposedKept, LinkedSame DEF TablesInv, PendingAgrees

LEMMA ExtractInv ==
  ASSUME TablesInv, NEW t \in todo, Extract(t)
  PROVE  TablesInv' /\ \A g \in groups : g \in groups'
<1>1. /\ pc = "extract" /\ pc' = pc /\ todo' \subseteq todo /\ todo \subseteq Catalogued
      /\ edges' = insert_relationship(edges, ExtractedFrom(t))
      /\ UNCHANGED << snapshots, reviews, links, groups, current, at, doomed, late >>
  BY DEF Extract, TablesInv, PendingAgrees, graph, upserting
<1>2. EdgesOK(edges', snapshots) /\ Covers(edges, edges')
  <2>1. EdgesOK(ExtractedFrom(t), snapshots)
    BY <1>1, ExtractedOK DEF TablesInv, EdgesOK
  <2> QED BY <1>1, <2>1, TablesOK, InsertOK
<1>3. Catalogued' = Catalogued
  BY <1>1 DEF Catalogued
<1>4. PendingAgrees'
  BY <1>1, <1>2, <1>3, CurrentKept DEF PendingAgrees
<1> QED BY <1>1, <1>2, <1>4, StageInv

LEMMA ResolveInv ==
  ASSUME TablesInv, Resolve
  PROVE  TablesInv' /\ \A g \in groups : g \in groups'
<1>1. /\ pc = "extract" /\ pc' = "windows" /\ edges' = Resolved
      /\ UNCHANGED << snapshots, reviews, links, groups, current, at, doomed, late >>
  BY DEF Resolve, graph, upserting
<1>2. EdgesOK(edges', snapshots) /\ Covers(edges, edges')
  BY <1>1, TablesOK, ResolveOK
<1>3. PendingAgrees'
  BY <1>1, <1>2, CurrentKept DEF PendingAgrees
<1> QED BY <1>1, <1>2, <1>3, StageInv

LEMMA ReadWindowsInv ==
  ASSUME TablesInv, ReadWindows
  PROVE  TablesInv' /\ \A g \in groups : g \in groups'
<1>1. /\ pc = "windows" /\ pc' = "overlaps" /\ todo' = TemporalEdges
      /\ UNCHANGED << snapshots, reviews, links, groups, current, at, doomed, late, edges >>
  BY DEF ReadWindows, graph, upserting
<1>2. EdgesOK(edges', snapshots) /\ Covers(edges, edges')
  BY <1>1, TablesOK, CoversMore
<1>3. \A e \in todo' : EdgeOK(e, snapshots')
  BY <1>1, TemporalOK DEF TablesInv
<1>4. PendingAgrees'
  BY <1>1, <1>2, <1>3, CurrentKept DEF PendingAgrees
<1> QED BY <1>1, <1>2, <1>4, StageInv

LEMMA RecordOverlapInv ==
  ASSUME TablesInv, NEW e \in todo, RecordOverlap(e)
  PROVE  TablesInv' /\ \A g \in groups : g \in groups'
<1>1. /\ pc = "overlaps" /\ pc' = pc /\ todo' \subseteq todo
      /\ edges' = insert_relationship(edges, {e})
      /\ UNCHANGED << snapshots, reviews, links, groups, current, at, doomed, late >>
  BY DEF RecordOverlap, graph, upserting
<1>2. \A f \in todo : EdgeOK(f, snapshots)
  BY <1>1 DEF TablesInv, PendingAgrees
<1>3. EdgesOK(edges', snapshots) /\ Covers(edges, edges')
  BY <1>1, <1>2, TablesOK, InsertOneOK
<1>4. PendingAgrees'
  BY <1>1, <1>2, <1>3, CurrentKept DEF PendingAgrees
<1> QED BY <1>1, <1>3, <1>4, StageInv

LEMMA ReadCandidatesInv ==
  ASSUME TablesInv, ReadCaseStudies \/ ReadPairs
  PROVE  TablesInv' /\ \A g \in groups : g \in groups'
<1>1. /\ pc' \in {"case_groups", "pair_groups"}
      /\ UNCHANGED << snapshots, reviews, links, groups, current, at, doomed, late, edges >>
  BY DEF ReadCaseStudies, ReadPairs, graph, upserting
<1>2. ASSUME NEW c \in todo' PROVE Proposed(c)
  <2>1. CASE ReadPairs
    BY <1>2, <2>1, PairsProposed DEF ReadPairs
  <2>2. CASE ReadCaseStudies
    <3>1. PICK s \in CaseStudies :
            c = Candidate(links[s], {Item("SharedCaseStudy", s)}, "StrongCandidate")
      BY <1>2, <2>2 DEF ReadCaseStudies
    <3> QED BY <3>1, CasesProposed
  <2> QED BY <2>1, <2>2
<1>3. EdgesOK(edges', snapshots) /\ Covers(edges, edges')
  BY <1>1, TablesOK, CoversMore
<1>4. PendingAgrees'
  BY <1>1, <1>2, <1>3, CurrentKept DEF PendingAgrees, Proposed
<1> QED BY <1>1, <1>3, <1>4, StageInv

LEMMA StartOrEndInv ==
  ASSUME TablesInv, Start \/ Finish \/ Die
  PROVE  TablesInv' /\ \A g \in groups : g \in groups'
<1>1. /\ pc' = "idle" \/ (pc' = "extract" /\ todo' \subseteq Catalogued')
      /\ current' = {} /\ doomed' = {}
      /\ UNCHANGED << snapshots, reviews, links, groups, edges >>
  <2>1. pc = "idle" => current = {}
    BY DEF TablesInv, PendingAgrees
  <2>2. current = {} => doomed = {}
    BY DEF TablesInv, UpsertAgrees
  <2> QED BY <2>1, <2>2 DEF Start, Finish, Die, Return, graph, upserting, Catalogued
<1>2. TypeOK' /\ EvidenceHasSource' /\ RejectedIsReviewed'
  BY <1>1, FewerGroups
<1>3. PendingAgrees'
  BY <1>1 DEF PendingAgrees
<1>4. UpsertAgrees'
  BY <1>1 DEF UpsertAgrees
<1> QED BY <1>1, <1>2, <1>3, <1>4 DEF TablesInv

\* Every step preserves the invariant and keeps what was rejected in time.
LEMMA StepInv ==
  ASSUME TablesInv, [Next]_vars
  PROVE  /\ TablesInv'
         /\ \A g \in groups : g.confidence = "Rejected" /\ g \notin late => g \in groups'
<1>1. CASE UNCHANGED vars
  <2>1. UNCHANGED << snapshots, reviews, links, groups, edges, pc, todo, current, at, doomed, late >>
    BY <1>1 DEF vars, upserting
  <2>2. Grown(snapshots, snapshots') /\ Linked(links, links') /\ Covers(edges, edges')
    BY <2>1, GrownSame, LinkedSame, CoversMore
  <2> QED BY <2>1, <2>2, TablesOK, OutsideInv
<1>2. CASE Outside
  BY <1>2, SyncInv, LinkInv, ReviewInv, ReviewedEdgeInv, RejectInv DEF Outside
<1>3. CASE Rebuild
  BY <1>3, StartOrEndInv, ResolveInv, ReadWindowsInv, ReadCandidatesInv, ExtractInv,
     RecordOverlapInv, UpsertInv, DeleteInv, LookUpInv, ReclassifyInv, InsertCandidateInv
     DEF Rebuild
<1> QED BY <1>1, <1>2, <1>3 DEF Next

-----------------------------------------------------------------------------
(* What the stages achieve                                                 *)

\* There is one candidate for a pair, with finitely many signals.
LEMMA EvidenceIsFinite ==
  ASSUME TablesInv, NEW p PROVE IsFiniteSet(Evidence(p))
<1>1. IsFiniteSet(edges)
  BY DEF TablesInv, TypeOK
<1>2. ASSUME NEW ev PROVE IsFiniteSet(EdgesOf(p, ev))
  BY <1>1, FS_Subset DEF EdgesOf
<1> DEFINE A == {Item("ExplicitTicketText", << e.kind, e.from, e.to >>) :
                   e \in EdgesOf(p, "ExplicitTicketText")}
           B == {Item("DerivedTemporalOverlap", e.note) : e \in EdgesOf(p, "DerivedTemporalOverlap")}
           C == {Item("SharedReviewedEntity", s) : s \in SharedOf(p, Labels) \ {{}}}
           D == {Item("SharedMaintenanceChange", s) : s \in SharedOf(p, ChangeIds) \ {{}}}
<1>3. IsFiniteSet(A)
  <2> DEFINE m == [e \in EdgesOf(p, "ExplicitTicketText") |->
                     Item("ExplicitTicketText", << e.kind, e.from, e.to >>)]
  <2>1. /\ m \in [EdgesOf(p, "ExplicitTicketText") -> A]
        /\ \A y \in A : \E x \in EdgesOf(p, "ExplicitTicketText") : m[x] = y
    OBVIOUS
  <2> HIDE DEF m, A
  <2> QED BY <1>2, <2>1, ImageIsFinite
<1>4. IsFiniteSet(B)
  <2> DEFINE m == [e \in EdgesOf(p, "DerivedTemporalOverlap") |->
                     Item("DerivedTemporalOverlap", e.note)]
  <2>1. /\ m \in [EdgesOf(p, "DerivedTemporalOverlap") -> B]
        /\ \A y \in B : \E x \in EdgesOf(p, "DerivedTemporalOverlap") : m[x] = y
    OBVIOUS
  <2> HIDE DEF m, B
  <2> QED BY <1>2, <2>1, ImageIsFinite
<1>5. IsFiniteSet(C) /\ IsFiniteSet(D)
  <2>1. C \subseteq {Item("SharedReviewedEntity", Shared(reviews, p) \cap Labels)}
        /\ D \subseteq {Item("SharedMaintenanceChange", Shared(reviews, p) \cap ChangeIds)}
    BY DEF SharedOf
  <2>2. \A x : IsFiniteSet({x})
    BY FS_Singleton
  <2> HIDE DEF C, D
  <2> QED BY <2>1, <2>2, FS_Subset
<1>6. Evidence(p) = A \cup B \cup C \cup D
  BY DEF Evidence, TemporalItems
<1> HIDE DEF A, B, C, D
<1> QED BY <1>3, <1>4, <1>5, <1>6, FS_Union

LEMMA OnePerPair ==
  ASSUME TablesInv, NEW c \in PairCandidates
  PROVE  /\ Cardinality(c.evidence) \in Nat
         /\ \A d \in PairCandidates : d.members = c.members => d = c
<1>1. PICK p : c = Candidate(p, Evidence(p), classify_pair(Evidence(p)))
  BY DEF PairCandidates
<1>2. c.evidence = Evidence(p) /\ c.members = p
  BY <1>1, CandidateFields
<1>3. Cardinality(c.evidence) \in Nat
  BY <1>2, EvidenceIsFinite, FS_CardinalityType
<1>4. ASSUME NEW d \in PairCandidates, d.members = c.members PROVE d = c
  <2>1. PICK q : d = Candidate(q, Evidence(q), classify_pair(Evidence(q)))
    BY DEF PairCandidates
  <2>2. q = p
    BY <1>2, <1>4, <2>1, CandidateFields
  <2> QED BY <1>1, <2>1, <2>2
<1> QED BY <1>3, <1>4

\* What is done stays done while the rows of the pair are left alone.
LEMMA DoneKept ==
  ASSUME NEW c, Done(c), \A g : g.members = c.members => (g \in groups <=> g \in groups')
  PROVE  Done(c)'
BY DEF Done, is_rejected, Superseded, SameFingerprint

LEMMA Unchanged ==
  ASSUME UNCHANGED << edges, reviews >> PROVE PairCandidates' = PairCandidates
BY DEF PairCandidates, Evidence, TemporalItems, EdgesOf, Shared, SharedOf, Item, Candidate, classify_pair,
       Signals

LEMMA SameGraph ==
  ASSUME UNCHANGED snapshots PROVE Catalogued' = Catalogued /\ TemporalEdges' = TemporalEdges
<1>1. Catalogued' = Catalogued /\ \A t : Latest(t)' = Latest(t)
  BY DEF Catalogued, Latest
<1>2. TemporalEdges' = TemporalEdges
  BY DEF TemporalEdges, Edge, Overlap, Catalogued, Latest
<1> QED BY <1>1, <1>2

\* Recording an overlap: the edge is there afterwards, or one with its key was.
LEMMA RecordOverlapStage ==
  ASSUME Inv, NEW e \in todo, RecordOverlap(e) PROVE StagesDone'
<1> SUFFICES ASSUME fresh' PROVE StagesDone'
  BY DEF StagesDone
<1>1. /\ pc = "overlaps" /\ pc' = "overlaps" /\ todo' = todo \ {e} /\ fresh
      /\ edges' = insert_relationship(edges, {e}) /\ UNCHANGED snapshots
  BY DEF RecordOverlap, graph
<1>2. /\ AllResolved /\ todo \subseteq TemporalEdges
      /\ \A f \in TemporalEdges \ todo : HasOverlap(f)
  BY <1>1 DEF Inv, StagesDone
<1>3. Catalogued' = Catalogued /\ TemporalEdges' = TemporalEdges
  BY <1>1, SameGraph
<1>4. e.resolved /\ e.to \in Catalogued /\ e.evidence = "DerivedTemporalOverlap"
  BY <1>2, TemporalOK DEF Inv, TablesInv
<1>5. AllResolved'
  BY <1>1, <1>2, <1>3, <1>4 DEF AllResolved, insert_relationship
<1>6. ASSUME NEW f, HasOverlap(f) PROVE HasOverlap(f)'
  BY <1>1, <1>6 DEF HasOverlap, insert_relationship
<1>7. HasOverlap(e)'
  <2>1. CASE e \in edges'
    BY <1>4, <2>1 DEF HasOverlap
  <2>2. CASE e \notin edges'
    <3>1. PICK f \in edges : EdgeKey(f) = EdgeKey(e)
      BY <1>1, <2>2 DEF insert_relationship
    <3>2. f.from = e.from /\ f.to = e.to /\ f.evidence = e.evidence
      BY <3>1 DEF EdgeKey
    <3> QED BY <1>1, <1>4, <3>1, <3>2 DEF HasOverlap, insert_relationship
  <2> QED BY <2>1, <2>2
<1>8. \A f \in TemporalEdges' \ todo' : HasOverlap(f)'
  BY <1>1, <1>2, <1>3, <1>6, <1>7
<1> QED BY <1>1, <1>2, <1>3, <1>5, <1>8 DEF StagesDone

\* Reading and ending: a stage hands on what it has achieved.
LEMMA ReadStage ==
  ASSUME Inv, ReadWindows \/ ReadCaseStudies \/ ReadPairs \/ Finish PROVE StagesDone'
<1> SUFFICES ASSUME fresh' PROVE StagesDone'
  BY DEF StagesDone
<1>1. fresh /\ UNCHANGED << snapshots, reviews, edges, groups >> /\ pc # "extract"
  BY DEF ReadWindows, ReadCaseStudies, ReadPairs, Finish, graph
<1>2. /\ Catalogued' = Catalogued /\ TemporalEdges' = TemporalEdges
      /\ PairCandidates' = PairCandidates
  BY <1>1, SameGraph, Unchanged
<1>3. AllResolved'
  BY <1>1, <1>2 DEF Inv, StagesDone, AllResolved
<1>4. \A f : HasOverlap(f)' = HasOverlap(f)
  BY <1>1 DEF HasOverlap
<1>5. CASE ReadWindows
  BY <1>2, <1>3, <1>5 DEF ReadWindows, StagesDone
<1>6. CASE ReadCaseStudies
  <2>1. \A e \in TemporalEdges : HasOverlap(e)
    BY <1>1, <1>6 DEF Inv, StagesDone, ReadCaseStudies
  <2> QED BY <1>2, <1>3, <1>4, <1>6, <2>1 DEF ReadCaseStudies, StagesDone
<1>7. CASE ReadPairs
  <2>1. \A e \in TemporalEdges : HasOverlap(e)
    BY <1>1, <1>7 DEF Inv, StagesDone, ReadPairs
  <2>2. pc' = "pair_groups" /\ todo' = PairCandidates /\ current' = {}
    BY <1>7 DEF ReadPairs, upserting
  <2> QED BY <1>2, <1>3, <1>4, <2>1, <2>2 DEF StagesDone
<1>8. CASE Finish
  <2>1. /\ \A e \in TemporalEdges : HasOverlap(e)
        /\ \A c \in PairCandidates : Done(c)
        /\ pc' = "idle"
    BY <1>1, <1>8 DEF Inv, StagesDone, Finish
  <2>2. \A c \in PairCandidates : Done(c)'
    BY <1>1, <2>1, DoneKept
  <2> QED BY <1>2, <1>3, <1>4, <2>1, <2>2 DEF StagesDone
<1> QED BY <1>5, <1>6, <1>7, <1>8

\* The statements of an upsert change rows of one pair only.
LEMMA UpsertStage ==
  ASSUME Inv, \/ \E c \in todo : Upsert(c)
              \/ \E g \in doomed : DeleteRow(g)
              \/ ListSuperseded \/ LookUp \/ Reclassify \/ InsertCandidate
  PROVE  StagesDone'
<1> SUFFICES ASSUME fresh' PROVE StagesDone'
  BY DEF StagesDone
<1>1. /\ fresh /\ UNCHANGED << snapshots, reviews, edges, pc >>
      /\ pc \in {"case_groups", "pair_groups"} /\ TablesInv
  <2>1. \A c \in current : pc \in {"case_groups", "pair_groups"}
    BY DEF Inv, TablesInv, PendingAgrees
  <2>2. \A d \in doomed : current # {}
    BY DEF Inv, TablesInv, UpsertAgrees
  <2> QED BY <2>1, <2>2 DEF Upsert, DeleteRow, ListSuperseded, LookUp, Reclassify, InsertCandidate,
             graph, Inv
<1>2. /\ Catalogued' = Catalogued /\ TemporalEdges' = TemporalEdges
      /\ PairCandidates' = PairCandidates
  BY <1>1, SameGraph, Unchanged
<1>3. AllResolved' /\ \A e \in TemporalEdges' : HasOverlap(e)'
  BY <1>1, <1>2 DEF Inv, StagesDone, AllResolved, HasOverlap
<1>4. CASE pc = "case_groups"
  BY <1>1, <1>3, <1>4 DEF StagesDone
<1>5. CASE pc = "pair_groups"
  <2>1. /\ todo \cup current \subseteq PairCandidates /\ todo \cap current = {}
        /\ \A c \in current : UpsertDone(c)
        /\ \A c \in PairCandidates \ (todo \cup current) : Done(c)
    BY <1>1, <1>5 DEF Inv, StagesDone
  <2>2. \A c, d \in current : c = d
    BY <1>1 DEF TablesInv, UpsertAgrees
  <2> DEFINE Goal == /\ todo' \cup current' \subseteq PairCandidates /\ todo' \cap current' = {}
                     /\ \A d \in current' : UpsertDone(d)'
                     /\ \A d \in PairCandidates \ (todo' \cup current') : Done(d)'
  <2>3. ASSUME NEW c \in todo, Upsert(c) PROVE Goal
    <3>1. /\ todo' = todo \ {c} /\ current = {} /\ groups' = groups
          /\ \/ is_rejected(c) /\ current' = {}
             \/ current' = {c} /\ at' = "list"
      BY <2>3 DEF Upsert
    <3>2. todo' \cup current' \subseteq PairCandidates /\ todo' \cap current' = {}
      BY <2>1, <3>1
    <3>3. \A d \in current' : UpsertDone(d)'
      BY <3>1 DEF UpsertDone
    <3>4. ASSUME NEW d \in PairCandidates \ (todo' \cup current') PROVE Done(d)'
      <4>1. CASE d = c
        BY <3>1, <3>4, <4>1 DEF Done, is_rejected
      <4>2. CASE d # c
        <5>1. Done(d)
          BY <2>1, <3>1, <3>4, <4>2
        <5> QED BY <3>1, <5>1, DoneKept
      <4> QED BY <4>1, <4>2
    <3> QED BY <3>2, <3>3, <3>4
  <2>4. ASSUME ListSuperseded PROVE Goal
    <3>1. PICK c \in current : doomed' = Superseded(c)
      BY <2>4 DEF ListSuperseded
    <3>2. UNCHANGED << todo, current, groups >> /\ at' = "delete"
      BY <2>4 DEF ListSuperseded
    <3>3. \A d \in current' : UpsertDone(d)'
      BY <2>2, <3>1, <3>2 DEF UpsertDone, Superseded
    <3>4. \A d \in PairCandidates \ (todo' \cup current') : Done(d)'
      BY <2>1, <3>2, DoneKept
    <3> QED BY <2>1, <3>2, <3>3, <3>4
  <2>5. ASSUME NEW g \in doomed, DeleteRow(g) PROVE Goal
    <3>1. /\ groups' = {h \in groups : ~SameFingerprint(h, g)} /\ doomed' = doomed \ {g}
          /\ at = "delete" /\ at' = at /\ UNCHANGED << todo, current >>
      BY <2>5 DEF DeleteRow
    <3>2. PICK c \in current : c.members = g.members
      BY <1>1, <2>5 DEF TablesInv, UpsertAgrees
    <3>3. Superseded(c) \subseteq doomed
      BY <2>1, <3>1 DEF UpsertDone
    <3>4. Superseded(c)' \subseteq doomed'
      <4>1. Superseded(c)' \subseteq Superseded(c)
        BY <3>1 DEF Superseded
      <4>2. g \notin Superseded(c)'
        BY <3>1 DEF Superseded, SameFingerprint
      <4> QED BY <3>1, <3>3, <4>1, <4>2
    <3>5. \A d \in current' : UpsertDone(d)'
      BY <2>2, <3>1, <3>4 DEF UpsertDone
    <3>6. ASSUME NEW d \in PairCandidates \ (todo' \cup current') PROVE Done(d)'
      <4>1. Done(d) /\ d # c /\ c \in PairCandidates
        BY <2>1, <3>1, <3>6
      <4>2. d.members # c.members
        BY <1>1, <4>1, OnePerPair
      <4>3. \A h : h.members = d.members => (h \in groups <=> h \in groups')
        BY <3>1, <3>2, <4>2 DEF SameFingerprint
      <4> QED BY <4>1, <4>3, DoneKept
    <3> QED BY <2>1, <3>1, <3>5, <3>6
  <2>6. ASSUME LookUp PROVE Goal
    <3>1. UNCHANGED << todo, groups, doomed >> /\ at = "delete" /\ doomed = {}
      BY <2>6 DEF LookUp
    <3>2. PICK c \in current :
            \/ at' = "insert" /\ current' = current
            \/ at' = "update" /\ current' = current /\ \E g \in groups : SameFingerprint(g, c)
            \/ current' = {} /\ \E g \in groups : SameFingerprint(g, c)
      BY <2>6 DEF LookUp, Return
    <3>3. Superseded(c) = {} /\ current = {c}
      BY <2>1, <2>2, <3>1 DEF UpsertDone
    <3>4. Superseded(c)' = {}
      BY <3>1, <3>3 DEF Superseded
    <3>5. \A d \in current' : UpsertDone(d)'
      BY <3>1, <3>2, <3>3, <3>4 DEF UpsertDone
    <3>6. ASSUME NEW d \in PairCandidates \ (todo' \cup current') PROVE Done(d)'
      <4>1. CASE d \in current
        <5>1. d = c /\ \E g \in groups : SameFingerprint(g, c)
          BY <3>2, <3>3, <3>6, <4>1
        <5> QED BY <3>1, <3>4, <5>1 DEF Done
      <4>2. CASE d \notin current
        BY <2>1, <3>1, <3>6, <4>2, DoneKept
      <4> QED BY <4>1, <4>2
    <3> QED BY <2>1, <3>1, <3>2, <3>5, <3>6
  <2>7. ASSUME Reclassify PROVE Goal
    <3> DEFINE f(c, g) == IF SameFingerprint(g, c)
                          THEN [g EXCEPT !.confidence = c.confidence] ELSE g
    <3>1. PICK c \in current : groups' = {f(c, g) : g \in groups}
      BY <2>7 DEF Reclassify
    <3>2. todo' = todo /\ current' = {} /\ at = "update" /\ current = {c}
      BY <2>2, <2>7, <3>1 DEF Reclassify, Return
    <3>3. ASSUME NEW g \in groups
          PROVE  /\ f(c, g).members = g.members /\ f(c, g).evidence = g.evidence
                 /\ f(c, g).review = g.review
                 /\ g.members # c.members => f(c, g) = g
      <4>1. CASE SameFingerprint(g, c)
        <5>1. f(c, g) = [g EXCEPT !.confidence = c.confidence] /\ IsRow(g)
              /\ g.members = c.members
          BY <1>1, <4>1, RowOK DEF SameFingerprint
        <5> QED BY <5>1 DEF IsRow
      <4>2. CASE ~SameFingerprint(g, c)
        BY <4>2
      <4> QED BY <4>1, <4>2
    <3> HIDE DEF f
    <3>4. Superseded(c) = {} /\ (\E g \in groups : SameFingerprint(g, c)) /\ c \in PairCandidates
      BY <2>1, <3>2 DEF UpsertDone
    <3>5. Done(c)'
      <4>1. \E g \in groups' : SameFingerprint(g, c)
        <5>1. PICK g \in groups : SameFingerprint(g, c)
          BY <3>4
        <5>2. f(c, g) \in groups' /\ SameFingerprint(f(c, g), c)
          BY <3>1, <3>3, <5>1 DEF SameFingerprint
        <5> QED BY <5>2
      <4>2. Superseded(c)' = {}
        BY <3>1, <3>3, <3>4 DEF Superseded
      <4> QED BY <4>1, <4>2 DEF Done
    <3>6. ASSUME NEW d \in PairCandidates \ todo PROVE Done(d)'
      <4>1. CASE d = c
        BY <3>5, <4>1
      <4>2. CASE d # c
        <5>1. Done(d) /\ d.members # c.members
          BY <1>1, <2>1, <3>2, <3>4, <3>6, <4>2, OnePerPair
        <5>2. \A g : g.members = d.members => (g \in groups <=> g \in groups')
          BY <3>1, <3>3, <5>1
        <5> QED BY <5>1, <5>2, DoneKept
      <4> QED BY <4>1, <4>2
    <3> QED BY <2>1, <3>2, <3>6
  <2>8. ASSUME InsertCandidate PROVE Goal
    <3>1. PICK c \in current :
            groups' = groups \cup {d \in {c} : \A g \in groups : ~SameFingerprint(g, d)}
      BY <2>8 DEF InsertCandidate
    <3>2. todo' = todo /\ current' = {} /\ at = "insert" /\ current = {c}
      BY <2>2, <2>8, <3>1 DEF InsertCandidate, Return
    <3>3. Superseded(c) = {} /\ c \in PairCandidates
      BY <2>1, <3>2 DEF UpsertDone
    <3>4. Done(c)'
      <4>1. \E g \in groups' : SameFingerprint(g, c)
        BY <3>1 DEF SameFingerprint
      <4>2. Superseded(c)' = {}
        <5>1. ~(Cardinality(c.evidence) < Cardinality(c.evidence))
          BY <1>1, <3>3, OnePerPair
        <5> QED BY <3>1, <3>3, <5>1 DEF Superseded
      <4> QED BY <4>1, <4>2 DEF Done
    <3>5. ASSUME NEW d \in PairCandidates \ todo PROVE Done(d)'
      <4>1. CASE d = c
        BY <3>4, <4>1
      <4>2. CASE d # c
        <5>1. Done(d) /\ d.members # c.members
          BY <1>1, <2>1, <3>2, <3>3, <3>5, <4>2, OnePerPair
        <5>2. \A g : g.members = d.members => (g \in groups <=> g \in groups')
          BY <3>1, <5>1
        <5> QED BY <5>1, <5>2, DoneKept
      <4> QED BY <4>1, <4>2
    <3> QED BY <2>1, <3>2, <3>5
  <2>9. Goal
    BY <2>3, <2>4, <2>5, <2>6, <2>7, <2>8
  <2> QED BY <1>1, <1>2, <1>3, <1>5, <2>9 DEF StagesDone
<1> QED BY <1>1, <1>4, <1>5

LEMMA StepStage ==
  ASSUME Inv, [Next]_vars PROVE StagesDone'
<1>1. CASE Outside \/ Die
  BY <1>1 DEF Outside, Die, Sync, LinkCaseStudy, ImportReview, ImportReviewInterrupted,
     ImportReviewedEdge, RejectCandidate, Change, StagesDone
<1>2. CASE UNCHANGED vars
  <2>1. UNCHANGED << snapshots, reviews, edges, groups, pc, todo, current, at, doomed, fresh >>
    BY <1>2 DEF vars, upserting
  <2>2. /\ Catalogued' = Catalogued /\ TemporalEdges' = TemporalEdges
        /\ PairCandidates' = PairCandidates
    BY <2>1, SameGraph, Unchanged
  <2>3. \A c : UpsertDone(c)' = UpsertDone(c) /\ Done(c)' = Done(c)
    BY <2>1 DEF UpsertDone, Done, is_rejected, Superseded, SameFingerprint
  <2> QED BY <2>1, <2>2, <2>3 DEF Inv, StagesDone, AllResolved, HasOverlap
<1>3. CASE Start \/ (\E t \in todo : Extract(t))
  BY <1>3 DEF Start, Extract, StagesDone
<1>4. CASE Resolve
  <2>1. AllResolved'
    <3>1. \A e \in Resolved : e.resolved <=> e.to \in Catalogued
      BY TablesOK, ResolveOK DEF Inv
    <3>2. edges' = Resolved /\ Catalogued' = Catalogued
      BY <1>4, SameGraph DEF Resolve, graph
    <3> QED BY <3>1, <3>2 DEF AllResolved
  <2> QED BY <1>4, <2>1 DEF Resolve, StagesDone
<1> QED BY <1>1, <1>2, <1>3, <1>4, RecordOverlapStage, ReadStage, UpsertStage DEF Next, Rebuild

-----------------------------------------------------------------------------

\* An edge that wording gave is in the version of the text it names, an overlap is one
\* of two windows that the tickets have had, and an accepted edge names a stored
\* version; explicit, temporal and case study evidence of a candidate is that of its
\* members; the tables keep their unique keys, and each stage finds what the one before
\* it was to leave, although no transaction spans a rebuild (relationships.rs,
\* grouping.rs).
THEOREM EvidenceIsSourced == Spec => []Inv
<1>1. Init => Inv
  <2> SUFFICES ASSUME Init PROVE Inv
    OBVIOUS
  <2>1. \A t \in Tickets : snapshots[t] = << >> /\ Len(snapshots[t]) = 0
    BY DEF Init
  <2>2. TypeOK
    BY <2>1, BoundsAreNat, EmptySeq, FS_EmptySet DEF Init, TypeOK
  <2> QED BY <2>2 DEF Init, Inv, TablesInv, EvidenceHasSource, RejectedIsReviewed, PendingAgrees,
             UpsertAgrees, StagesDone
<1>2. Inv /\ [Next]_vars => Inv'
  BY StepInv, StepStage DEF Inv
<1> QED BY <1>1, <1>2, PTL DEF Spec

\* A rebuild that nothing disturbed is complete, so that running it again changes
\* nothing ("Idempotent", cmd_relationships_rebuild).
THEOREM UndisturbedRebuildIsComplete == Spec => []RebuildIsComplete
<1>1. Inv => RebuildIsComplete
  <2> SUFFICES ASSUME Inv, pc = "idle", fresh
               PROVE  /\ \A c \in PairCandidates : Done(c)
                      /\ AllResolved
                      /\ TemporalEdges \subseteq
                           {[e EXCEPT !.note = [t \in {e.from, e.to} |-> Latest(t).window]] :
                              e \in {f \in edges : f.evidence = "DerivedTemporalOverlap"}}
    BY DEF RebuildIsComplete
  <2>1. /\ \A c \in PairCandidates : Done(c)
        /\ AllResolved
        /\ \A e \in TemporalEdges : HasOverlap(e)
    BY DEF Inv, StagesDone
  <2>2. ASSUME NEW e \in TemporalEdges
        PROVE  \E f \in edges :
                 /\ f.evidence = "DerivedTemporalOverlap"
                 /\ e = [f EXCEPT !.note = [t \in {f.from, f.to} |-> Latest(t).window]]
    <3>1. PICK f \in edges :
            f.evidence = "DerivedTemporalOverlap" /\ f.from = e.from /\ f.to = e.to
      BY <2>1 DEF HasOverlap
    <3>2. /\ e \in Edges /\ e.resolved /\ e.to \in Catalogued
          /\ e.evidence = "DerivedTemporalOverlap" /\ e.kind = "TemporalOverlap"
          /\ e.snapshot = 0 /\ e.reviewed = "Unreviewed"
          /\ e.note = [t \in {e.from, e.to} |-> Latest(t).window]
      BY TemporalOK DEF Inv, TablesInv, EdgeOK
    <3>3. /\ f \in Edges /\ f.resolved /\ f.kind = "TemporalOverlap"
          /\ f.snapshot = 0 /\ f.reviewed = "Unreviewed"
      BY <2>1, <3>1, <3>2 DEF Inv, TablesInv, TypeOK, EdgeOK, AllResolved
    <3>4. [t \in {f.from, f.to} |-> Latest(t).window] = e.note
      BY <3>1, <3>2
    <3>5. e = [f EXCEPT !.note = e.note]
      BY <3>1, <3>2, <3>3 DEF Edges
    <3> QED BY <3>1, <3>4, <3>5
  <2> QED BY <2>1, <2>2
<1> QED BY <1>1, EvidenceIsSourced, PTL

\* A candidate that an analyst rejected stays rejected through every later rebuild;
\* only a rejection that lands while upsert_group is at a candidate of the same tickets
\* may be lost (reject_candidate, supersede_pair_groups, insert_group_candidate).
THEOREM RejectionsLast == Spec => SettledRejectionsKept
<1>1. Inv /\ [Next]_vars =>
        [\A g \in groups : g.confidence = "Rejected" /\ g \notin late => g \in groups']_vars
  BY StepInv DEF Inv
<1> QED BY <1>1, EvidenceIsSourced, PTL DEF Spec, SettledRejectionsKept

=============================================================================
