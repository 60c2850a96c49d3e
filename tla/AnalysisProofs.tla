-------------------------- MODULE AnalysisProofs ---------------------------
(***************************************************************************)
(* The analysis of the observations.  First the invariant of               *)
(* RouteReconstruction for every set of streams, routes and instants and   *)
(* any number of observations: the emitted changes are the whole story of  *)
(* a route, and they carry the right baseline.  From it what the           *)
(* lifecycles, the waves and the verdict of StreamLifecycle say of that    *)
(* story, and what the episodes and findings of Workbench tell of it.      *)
(* Then the grammar of Sequitur, for every alphabet, length and recursion  *)
(* guard: it expands to its input at every call.                           *)
(*                                                                         *)
(* Induction over sequences is by the least counterexample (LeastOf, UpTo).*)
(***************************************************************************)
EXTENDS Workbench, Sequitur, FiniteSetTheorems, SequenceTheorems, WellFoundedInduction, TLAPS

\* The collector of a key is a number.
LEMMA CollectorIsNat ==
  /\ \A k \in Keys : k[1] \in Streams /\ Collector(k) \in Nat
  /\ \A s \in Streams : CollectorOf[s] \in Nat
BY StreamsAreNumbers DEF Keys, Collector

\* Observations are taken in order: the position never goes back.
LEMMA PositionAdvances ==
  ASSUME TypeOK, NEW k \in Keys, NEW t \in Nat, MoveTo(k, t)
  PROVE  /\ at' = [collector |-> Collector(k), time |-> t]
         /\ at' \in [collector : Nat, time : Nat]
         /\ observed' \in 0 .. MaxObservations
         /\ at.collector <= Collector(k)
         /\ \A c \in Nat : Past(c) => Past(c)'
         /\ \A c \in Nat : c > at'.collector => c > at.collector
         /\ t > 0 /\ t >= EventStart => Past(Collector(k))'
         /\ Past(Collector(k)) => t > 0 /\ t >= EventStart
<1>1. at \in [collector : Nat, time : Nat] /\ observed \in 0 .. MaxObservations
  BY DEF TypeOK
<1>2. at' = [collector |-> Collector(k), time |-> t] /\ Collector(k) \in Nat
  BY CollectorIsNat DEF MoveTo
<1>3. at'.collector = Collector(k) /\ at'.time = t
  BY <1>2
<1>4. at.collector \in Nat /\ at.time \in Nat
  BY <1>1
<1>5. at.collector < Collector(k) \/ (at.collector = Collector(k) /\ at.time <= t)
  BY <1>1, <1>2, <1>4 DEF MoveTo, InOrder
<1>6. observed' \in 0 .. MaxObservations
  BY <1>1, BoundIsNat DEF MoveTo
<1>7. EventStart \in Nat
  BY WindowOrdered
<1>8. \A c \in Nat : Past(c) => Past(c)'
  BY <1>2, <1>3, <1>4, <1>5, <1>7 DEF Past
<1>9. Past(Collector(k)) => t > 0 /\ t >= EventStart
  BY <1>2, <1>4, <1>5, <1>7 DEF Past
<1>10. t > 0 /\ t >= EventStart => Past(Collector(k))'
  BY <1>3 DEF Past
<1> QED BY <1>2, <1>3, <1>4, <1>5, <1>6, <1>8, <1>9, <1>10

\* What one more change does to the sequence of changes.
LEMMA OneMore ==
  ASSUME NEW cs \in Seq(Changes), NEW c \in Changes
  PROVE  /\ Append(cs, c) \in Seq(Changes)
         /\ Len(cs) \in Nat /\ Len(Append(cs, c)) = Len(cs) + 1
         /\ DOMAIN cs = 1 .. Len(cs)
         /\ DOMAIN Append(cs, c) = 1 .. (Len(cs) + 1)
         /\ \A i \in 1 .. Len(cs) : Append(cs, c)[i] = cs[i]
         /\ Append(cs, c)[Len(cs) + 1] = c
OBVIOUS

LEMMA InitInv == Init => Chained
<1> SUFFICES ASSUME Init PROVE Chained
  OBVIOUS
<1> USE DEF Init
<1>1. TypeOK
  <2>1. changes \in Seq(Changes)
    OBVIOUS
  <2>2. baseline_frozen \in BOOLEAN
    BY Zenon
  <2>3. /\ rib \in Stores /\ states \in Stores /\ event_baseline \in Stores
        /\ at \in [collector : Nat, time : Nat]
        /\ observed \in 0 .. MaxObservations /\ warmed \subseteq Keys
    BY BoundIsNat DEF Stores, RouteOrNone
  <2> QED BY <2>1, <2>2, <2>3 DEF TypeOK
<1>2. DOMAIN changes = {}
  OBVIOUS
<1>3. ChangesChain /\ BaselineIsStart
  BY <1>2 DEF ChangesChain, BaselineIsStart
<1>4. CollectorsInTurn
  BY <1>2 DEF CollectorsInTurn
<1>5. FrozenAtStart
  BY <1>2 DEF FrozenAtStart
<1> QED BY <1>1, <1>3, <1>4, <1>5 DEF Chained

\* A step that emits nothing and keeps the routes of the instances that have
\* changed keeps the chain.
LEMMA QuietChain ==
  ASSUME ChangesChain, changes' = changes,
         \A j \in DOMAIN changes : states'[changes[j].key] = states[changes[j].key]
  PROVE  ChangesChain'
BY DEF ChangesChain, Adjacent

\* It also keeps what is said of the baselines in the changes, unless a stream of
\* an earlier collector leaves the cohort.
LEMMA QuietBaseline ==
  ASSUME BaselineIsStart, changes' = changes,
         \A j \in DOMAIN changes : \A s \in Cohort \ Cohort' :
           Collector(changes[j].key) <= CollectorOf[s]
  PROVE  BaselineIsStart'
<1>1. \A k : Collector(k)' = Collector(k)
  BY DEF Collector
<1>2. \A j : FirstOfKey(j)' = FirstOfKey(j)
  BY DEF FirstOfKey
<1> SUFFICES ASSUME NEW j \in DOMAIN changes
             PROVE  /\ FirstOfKey(j) => changes[j].baseline \in {changes[j].before, Absent}
                    /\ FirstOfKey(j) /\ (\A s \in Cohort' : Collector(changes[j].key) <= CollectorOf[s])
                         => changes[j].baseline = changes[j].before
                    /\ \A i \in 1 .. (j - 1) :
                         changes[i].key = changes[j].key => changes[i].baseline = changes[j].baseline
  BY <1>1, <1>2 DEF BaselineIsStart
<1>3. (\A s \in Cohort' : Collector(changes[j].key) <= CollectorOf[s])
        => (\A s \in Cohort : Collector(changes[j].key) <= CollectorOf[s])
  OBVIOUS
<1> QED BY <1>3 DEF BaselineIsStart

\* The emitted changes are changes.
LEMMA ChangeTypes ==
  ASSUME TypeOK
  PROVE  /\ changes \in Seq(Changes)
         /\ Len(changes) \in Nat /\ DOMAIN changes = 1 .. Len(changes)
         /\ \A j \in DOMAIN changes : changes[j] \in Changes /\ changes[j].key \in Keys
<1>1. changes \in Seq(Changes)
  BY DEF TypeOK
<1>2. Len(changes) \in Nat /\ DOMAIN changes = 1 .. Len(changes)
  BY <1>1
<1>3. \A j \in DOMAIN changes : changes[j] \in Changes
  BY <1>1, <1>2
<1> QED BY <1>1, <1>2, <1>3 DEF Changes

\* An observation before the event of its collector preserves the invariant: no
\* change of the instance is there, and the baseline, if it is frozen, has
\* nothing of the collector.
LEMMA BeforeEventInv ==
  ASSUME Chained, NEW k \in Keys, NEW r \in RouteOrNone, NEW t \in Nat,
         MoveTo(k, t), t = 0 \/ t < EventStart,
         states' = [states EXCEPT ![k] = r],
         rib' \in Stores, \A q \in Keys \ {k} : rib'[q] = rib[q],
         warmed' \subseteq Keys,
         UNCHANGED << event_baseline, baseline_frozen, changes >>
  PROVE  Chained'
<1>1. TypeOK /\ CollectorsInTurn /\ changes' = changes /\ event_baseline' = event_baseline
      /\ baseline_frozen' = baseline_frozen
  BY DEF Chained
<1>2. states' = [states EXCEPT ![k] = r] /\ states \in Stores
  BY <1>1 DEF TypeOK
<1>4. /\ at' = [collector |-> Collector(k), time |-> t]
      /\ at' \in [collector : Nat, time : Nat] /\ observed' \in 0 .. MaxObservations
      /\ at.collector <= Collector(k)
      /\ \A c \in Nat : Past(c) => Past(c)'
      /\ \A c \in Nat : c > at'.collector => c > at.collector
      /\ ~ Past(Collector(k))
  BY <1>1, PositionAdvances, WindowOrdered
<1>5. Untouched(k)
  BY <1>1, <1>4 DEF CollectorsInTurn, Untouched
<1>6. \A q \in Keys \ {k} : states'[q] = states[q]
  BY <1>2 DEF Stores
<1>7. \A j \in DOMAIN changes : changes[j].key \in Keys /\ changes[j].key # k
  BY <1>1, <1>5, ChangeTypes DEF Untouched
<1>8. \A s \in Streams : s # k[1] => (s \in Cohort <=> s \in Cohort')
  <2> SUFFICES ASSUME NEW s \in Streams, s # k[1] PROVE s \in Cohort <=> s \in Cohort'
    OBVIOUS
  <2>1. \A i \in PathIds : <<s, i>> \in Keys \ {k}
    BY DEF Keys
  <2>2. \A i \in PathIds : rib'[<<s, i>>] = rib[<<s, i>>]
    BY <2>1
  <2> QED BY <2>2 DEF Cohort
<1>9. TypeOK'
  <2>1. states' \in Stores
    BY <1>2 DEF Stores
  <2> QED BY <1>1, <1>4, <2>1 DEF TypeOK
<1>10. ChangesChain'
  BY <1>1, <1>6, <1>7, QuietChain DEF Chained
<1>11. BaselineIsStart'
  <2> SUFFICES ASSUME NEW j \in DOMAIN changes, NEW s \in Cohort \ Cohort'
               PROVE  Collector(changes[j].key) <= CollectorOf[s]
    BY <1>1, QuietBaseline DEF Chained
  <2>1. s \in Streams
    BY DEF Cohort
  <2>2. CollectorOf[s] = Collector(k)
    BY <1>8, <2>1 DEF Collector
  <2>3. Past(Collector(changes[j].key)) /\ Collector(changes[j].key) \in Nat
    BY <1>1, <1>7, CollectorIsNat DEF CollectorsInTurn
  <2>4. at.collector \in Nat /\ Collector(k) \in Nat
    BY <1>1, CollectorIsNat DEF TypeOK
  <2> QED BY <1>4, <2>2, <2>3, <2>4 DEF Past
<1>12. CollectorsInTurn'
  <2>1. ASSUME NEW q \in Keys, Collector(q) > at'.collector PROVE states'[q] = Absent
    <3>1. q # k /\ Collector(q) > at.collector
      BY <1>4, <2>1, CollectorIsNat
    <3> QED BY <1>1, <1>6, <3>1 DEF CollectorsInTurn
  <2>2. \A j \in DOMAIN changes : Past(Collector(changes[j].key))'
    BY <1>1, <1>4, <1>7, CollectorIsNat DEF CollectorsInTurn, Collector
  <2> QED BY <1>1, <2>1, <2>2 DEF CollectorsInTurn, Collector
<1>13. FrozenAtStart'
  <2>1. \A j \in DOMAIN changes' : baseline_frozen' /\ changes'[j].baseline = event_baseline'[changes'[j].key]
    BY <1>1 DEF Chained, FrozenAtStart
  <2>2. CASE ~ baseline_frozen
    BY <1>1, <2>1, <2>2 DEF FrozenAtStart
  <2>3. CASE baseline_frozen
    <3>1. PICK s \in Cohort :
            /\ Past(CollectorOf[s])
            /\ \A q \in Keys :
                 /\ Collector(q) <= CollectorOf[s] /\ Untouched(q) => event_baseline[q] = states[q]
                 /\ Collector(q) > CollectorOf[s] => event_baseline[q] = Absent
      BY <2>3 DEF Chained, FrozenAtStart
    <3>2. s \in Streams /\ CollectorOf[s] \in Nat
      BY CollectorIsNat DEF Cohort
    <3>3. k[1] # s
      BY <1>4, <3>1 DEF Collector
    <3>4. s \in Cohort' /\ Past(CollectorOf[s])'
      BY <1>4, <1>8, <3>1, <3>2, <3>3
    <3>5. Collector(k) > CollectorOf[s]
      <4>1. at.collector \in Nat /\ Collector(k) \in Nat
        BY <1>1, CollectorIsNat DEF TypeOK
      <4> QED BY <1>4, <3>1, <3>2, <4>1 DEF Past
    <3>6. \A q \in Keys :
            /\ Collector(q) <= CollectorOf[s] /\ Untouched(q)' => event_baseline'[q] = states'[q]
            /\ Collector(q) > CollectorOf[s] => event_baseline'[q] = Absent
      <4> SUFFICES ASSUME NEW q \in Keys
                   PROVE /\ Collector(q) <= CollectorOf[s] /\ Untouched(q)' => event_baseline'[q] = states'[q]
                         /\ Collector(q) > CollectorOf[s] => event_baseline'[q] = Absent
        OBVIOUS
      <4>1. Untouched(q)' = Untouched(q)
        BY <1>1 DEF Untouched
      <4>2. Collector(q) <= CollectorOf[s] => q # k
        BY <3>2, <3>5, CollectorIsNat
      <4> QED BY <1>1, <1>6, <3>1, <4>1, <4>2
    <3> QED BY <2>1, <3>4, <3>6 DEF FrozenAtStart, Collector
  <2> QED BY <2>2, <2>3
<1> QED BY <1>9, <1>10, <1>11, <1>12, <1>13 DEF Chained

\* A RIB row preserves the invariant.
LEMMA SeedInv ==
  ASSUME Chained, NEW k \in Keys, NEW r \in Routes, SeedFromRib(k, r)
  PROVE  Chained'
<1>1. rib \in Stores /\ warmed \subseteq Keys
  BY DEF Chained, TypeOK
<1>2. r \in RouteOrNone
  BY DEF RouteOrNone
<1>3. rib' \in Stores /\ \A q \in Keys \ {k} : rib'[q] = rib[q]
  BY <1>1, <1>2 DEF SeedFromRib, Stores
<1> QED BY <1>1, <1>2, <1>3, BeforeEventInv DEF SeedFromRib

\* So does an update before the event.
LEMMA WarmUpInv ==
  ASSUME Chained, NEW k \in Keys, NEW r \in RouteOrNone, NEW t \in Times, WarmUp(k, r, t)
  PROVE  Chained'
<1>1. rib \in Stores /\ warmed \subseteq Keys
  BY DEF Chained, TypeOK
<1>2. t \in Nat
  BY WindowOrdered
<1>3. warmed' \subseteq Keys /\ rib' = rib
  BY <1>1 DEF WarmUp
<1> QED BY <1>1, <1>2, <1>3, BeforeEventInv DEF WarmUp

\* The baseline after an observation of the event period: it is the one that
\* was frozen, or it is frozen now.
LEMMA FreezeNow ==
  ASSUME Chained, NEW k \in Keys, NEW t \in Times, MoveTo(k, t), EventStart <= t, Admitted(k),
         event_baseline' = Baseline, baseline_frozen' = TRUE, rib' = rib
  PROVE  /\ event_baseline' \in Stores
         /\ Past(Collector(k))'
         /\ \E s \in Cohort' :
              /\ Past(CollectorOf[s])'
              /\ \A q \in Keys :
                   /\ Collector(q) <= CollectorOf[s] /\ Untouched(q)
                        => event_baseline'[q] = states[q]
                   /\ Collector(q) > CollectorOf[s] => event_baseline'[q] = Absent
         /\ \A j \in DOMAIN changes :
              changes[j].baseline = event_baseline'[changes[j].key]
<1>1. TypeOK /\ CollectorsInTurn /\ FrozenAtStart
  BY DEF Chained
<1>2. t \in Nat /\ t > 0
  BY WindowOrdered
<1>3. /\ \A c \in Nat : Past(c) => Past(c)'
      /\ at.collector <= Collector(k) /\ Past(Collector(k))'
  BY <1>1, <1>2, PositionAdvances
<1>4. Cohort' = Cohort
  BY DEF Cohort
<1>5. event_baseline' \in Stores
  BY <1>1 DEF TypeOK, Baseline
<1>6. CASE baseline_frozen
  <2>1. event_baseline' = event_baseline
    BY <1>6 DEF Baseline
  <2>2. PICK s \in Cohort :
          /\ Past(CollectorOf[s])
          /\ \A q \in Keys :
               /\ Collector(q) <= CollectorOf[s] /\ Untouched(q) => event_baseline[q] = states[q]
               /\ Collector(q) > CollectorOf[s] => event_baseline[q] = Absent
    BY <1>1, <1>6 DEF FrozenAtStart
  <2>3. CollectorOf[s] \in Nat
    BY CollectorIsNat DEF Cohort
  <2>4. s \in Cohort' /\ Past(CollectorOf[s])'
    BY <1>3, <1>4, <2>2, <2>3
  <2> QED BY <1>1, <1>3, <1>5, <2>1, <2>2, <2>4 DEF FrozenAtStart
<1>7. CASE ~ baseline_frozen
  <2>1. event_baseline' = states
    BY <1>7 DEF Baseline
  <2>2. DOMAIN changes = {}
    BY <1>1, <1>7 DEF FrozenAtStart
  <2>3. k[1] \in Cohort'
    BY <1>4 DEF Admitted
  <2>4. CollectorOf[k[1]] = Collector(k)
    BY DEF Collector
  <2>5. ASSUME NEW q \in Keys, Collector(q) > Collector(k) PROVE states[q] = Absent
    <3>1. Collector(q) > at.collector
      <4>1. at.collector \in Nat /\ Collector(k) \in Nat /\ Collector(q) \in Nat
        BY <1>1, CollectorIsNat DEF TypeOK
      <4> QED BY <1>3, <2>5, <4>1
    <3> QED BY <1>1, <3>1 DEF CollectorsInTurn
  <2> QED BY <1>3, <1>5, <2>1, <2>2, <2>3, <2>4, <2>5
<1> QED BY <1>6, <1>7

\* An observation of the event period that changes no route preserves the
\* invariant.
LEMMA NothingEmittedInv ==
  ASSUME Chained, NEW k \in Keys, NEW t \in Times, MoveTo(k, t), EventStart <= t, Admitted(k),
         event_baseline' = Baseline, baseline_frozen' = TRUE,
         UNCHANGED << rib, states, changes, warmed >>
  PROVE  Chained'
<1>1. TypeOK /\ CollectorsInTurn
  BY DEF Chained
<1>2. t \in Nat
  BY WindowOrdered
<1>3. /\ at' \in [collector : Nat, time : Nat] /\ observed' \in 0 .. MaxObservations
      /\ \A c \in Nat : Past(c) => Past(c)'
      /\ \A c \in Nat : c > at'.collector => c > at.collector
  BY <1>1, <1>2, PositionAdvances
<1>4. /\ event_baseline' \in Stores
      /\ \E s \in Cohort' :
           /\ Past(CollectorOf[s])'
           /\ \A q \in Keys :
                /\ Collector(q) <= CollectorOf[s] /\ Untouched(q)
                     => event_baseline'[q] = states[q]
                /\ Collector(q) > CollectorOf[s] => event_baseline'[q] = Absent
      /\ \A j \in DOMAIN changes :
           changes[j].baseline = event_baseline'[changes[j].key]
  BY FreezeNow
<1>5. TypeOK'
  BY <1>1, <1>3, <1>4 DEF TypeOK
<1>6. ChangesChain'
  BY QuietChain DEF Chained
<1>7. BaselineIsStart'
  <2>1. Cohort' = Cohort
    BY DEF Cohort
  <2> QED BY <2>1, QuietBaseline DEF Chained
<1>8. CollectorsInTurn'
  BY <1>1, <1>3, CollectorIsNat, ChangeTypes DEF CollectorsInTurn, Collector
<1>9. FrozenAtStart'
  BY <1>4 DEF FrozenAtStart, Untouched, Collector
<1> QED BY <1>5, <1>6, <1>7, <1>8, <1>9 DEF Chained

\* An update past the cool-down preserves the invariant.
LEMMA PastCooldownInv ==
  ASSUME Chained, NEW k \in Keys, NEW t \in Times, PastCooldown(k, t)
  PROVE  Chained'
<1>1. EventStart <= t
  BY WindowOrdered DEF PastCooldown
<1> QED BY <1>1, NothingEmittedInv DEF PastCooldown

\* An update that changes a route preserves the invariant: the change starts
\* where the last one of the instance ended, and the last one was not the end.
LEMMA EmittedInv ==
  ASSUME Chained, NEW k \in Keys, NEW r \in RouteOrNone, NEW t \in Times, Apply(k, r, t),
         states[k] # r
  PROVE  Chained'
<1> DEFINE c == Change(k, r, t)
           PastNow(d) == \/ d < at'.collector
                         \/ d = at'.collector /\ at'.time >= EventStart /\ at'.time > 0
           Between(q, i, j) == \A m \in (i + 1) .. (j - 1) : changes'[m].key # q
           First(j) == \A i \in 1 .. (j - 1) : changes'[i].key # changes'[j].key
<1>1. TypeOK /\ ChangesChain /\ BaselineIsStart /\ CollectorsInTurn /\ FrozenAtStart
  BY DEF Chained
<1>2. /\ EventStart <= t /\ Admitted(k) /\ MoveTo(k, t)
      /\ event_baseline' = Baseline /\ baseline_frozen' = TRUE
      /\ states' = [states EXCEPT ![k] = r] /\ changes' = Append(changes, c)
      /\ rib' = rib /\ warmed' = warmed
  BY DEF Apply, Emitted
<1>3. t \in Nat
  BY WindowOrdered
<1> PICK n : n = Len(changes) + 1
  OBVIOUS
<1>4. /\ at' \in [collector : Nat, time : Nat] /\ observed' \in 0 .. MaxObservations
      /\ at' = [collector |-> Collector(k), time |-> t]
      /\ \A d \in Nat : Past(d) => PastNow(d)
      /\ \A d \in Nat : d > at'.collector => d > at.collector
  <2>1. \A d \in Nat : Past(d) => Past(d)'
    BY <1>1, <1>2, <1>3, PositionAdvances
  <2>2. \A d \in Nat : Past(d)' <=> PastNow(d)
    BY DEF Past
  <2> HIDE DEF PastNow
  <2> QED BY <1>1, <1>2, <1>3, <2>1, <2>2, PositionAdvances
<1>5. /\ event_baseline' \in Stores /\ PastNow(Collector(k))
      /\ \E s \in Cohort' :
           /\ Past(CollectorOf[s])'
           /\ \A q \in Keys :
                /\ Collector(q) <= CollectorOf[s] /\ Untouched(q)
                     => event_baseline'[q] = states[q]
                /\ Collector(q) > CollectorOf[s] => event_baseline'[q] = Absent
      /\ \A j \in DOMAIN changes :
           changes[j].baseline = event_baseline'[changes[j].key]
  <2>1. Past(Collector(k))' <=> PastNow(Collector(k))
    BY DEF Past, Collector
  <2> HIDE DEF PastNow
  <2> QED BY <1>2, <2>1, FreezeNow
<1>6. states \in Stores /\ states' \in Stores /\ states'[k] = r
      /\ \A q \in Keys \ {k} : states'[q] = states[q]
  BY <1>1, <1>2 DEF TypeOK, Stores
<1>7. /\ c \in Changes
      /\ c.key = k /\ c.before = states[k] /\ c.after = r /\ c.baseline = event_baseline'[k]
  <2>1. Baseline \in Stores /\ Phase(t) \in {"Event", "Cooldown"}
    BY <1>2, <1>5 DEF Phase
  <2>2. Baseline[k] \in RouteOrNone /\ states[k] \in RouteOrNone
    BY <1>6, <2>1 DEF Stores
  <2> QED BY <1>2, <2>1, <2>2 DEF Change, Changes
<1>8. /\ changes \in Seq(Changes) /\ Len(changes) \in Nat /\ n \in Nat
      /\ DOMAIN changes = 1 .. Len(changes)
      /\ \A j \in DOMAIN changes : changes[j].key \in Keys
  BY <1>1, ChangeTypes
<1>9. /\ changes' \in Seq(Changes) /\ Len(changes') = n /\ DOMAIN changes' = 1 .. n
      /\ \A i \in 1 .. Len(changes) : changes'[i] = changes[i]
      /\ changes'[n] = c
  BY <1>2, <1>7, <1>8, OneMore
<1> HIDE DEF c, PastNow
<1>10. TypeOK'
  BY <1>1, <1>2, <1>4, <1>5, <1>6, <1>9 DEF TypeOK
<1>11. ChangesChain'
  <2> SUFFICES ASSUME NEW j \in 1 .. n
               PROVE  /\ changes'[j].before # changes'[j].after
                      /\ Between(changes'[j].key, j, n + 1) => changes'[j].after = states'[changes'[j].key]
                      /\ \A i \in 1 .. (j - 1) :
                           changes'[i].key = changes'[j].key /\ Between(changes'[j].key, i, j)
                             => changes'[i].after = changes'[j].before
    BY <1>9 DEF ChangesChain, Adjacent
  <2>1. CASE j = n
    <3>1. changes'[j] = c
      BY <1>9, <2>1
    <3>2. ASSUME NEW i \in 1 .. (j - 1), changes'[i].key = k, Between(k, i, j)
          PROVE  changes'[i].after = states[k]
      <4>1. i \in DOMAIN changes /\ changes'[i] = changes[i]
        BY <1>8, <1>9, <2>1
      <4>2. Adjacent(k, i, Len(changes) + 1)
        BY <1>8, <1>9, <2>1, <3>2, <4>1 DEF Adjacent
      <4> QED BY <1>1, <3>2, <4>1, <4>2 DEF ChangesChain
    <3> QED BY <1>6, <1>7, <3>1, <3>2
  <2>2. CASE j # n
    <3>1. j \in DOMAIN changes /\ changes'[j] = changes[j]
      BY <1>8, <1>9, <2>2
    <3> DEFINE q == changes[j].key
    <3>2. ASSUME Between(q, j, n + 1) PROVE changes[j].after = states'[q]
      <4>1. n \in (j + 1) .. ((n + 1) - 1)
        BY <1>8, <3>1
      <4>2. q # k
        BY <1>7, <1>9, <3>2, <4>1 DEF Adjacent
      <4>3. \A m \in (j + 1) .. ((Len(changes) + 1) - 1) : m \in (j + 1) .. ((n + 1) - 1) /\ changes'[m] = changes[m]
        BY <1>8, <1>9, <3>1
      <4>4. Adjacent(q, j, Len(changes) + 1)
        BY <3>2, <4>3 DEF Adjacent
      <4>5. changes[j].after = states[q]
        BY <1>1, <3>1, <4>4 DEF ChangesChain
      <4> QED BY <1>6, <1>8, <3>1, <4>2, <4>5
    <3>3. ASSUME NEW i \in 1 .. (j - 1), changes[i].key = q, Between(q, i, j)
          PROVE  changes[i].after = changes[j].before
      <4>1. \A m \in (i + 1) .. (j - 1) : changes'[m] = changes[m]
        BY <1>8, <1>9, <3>1
      <4>2. Adjacent(q, i, j)
        BY <3>3, <4>1 DEF Adjacent
      <4> QED BY <1>1, <3>1, <3>3, <4>2 DEF ChangesChain
    <3>4. \A i \in 1 .. (j - 1) : changes'[i] = changes[i]
      BY <1>8, <1>9, <3>1
    <3>5. changes[j].before # changes[j].after
      BY <1>1, <3>1 DEF ChangesChain
    <3> QED BY <3>1, <3>2, <3>3, <3>4, <3>5
  <2> QED BY <2>1, <2>2
<1>12. Cohort' = Cohort
  BY <1>2 DEF Cohort
<1>13. BaselineIsStart'
  <2> SUFFICES ASSUME NEW j \in 1 .. n
               PROVE  /\ First(j) => changes'[j].baseline \in {changes'[j].before, Absent}
                      /\ First(j) /\ (\A s \in Cohort : Collector(changes'[j].key) <= CollectorOf[s])
                           => changes'[j].baseline = changes'[j].before
                      /\ \A i \in 1 .. (j - 1) :
                           changes'[i].key = changes'[j].key => changes'[i].baseline = changes'[j].baseline
    BY <1>9, <1>12 DEF BaselineIsStart, Collector, FirstOfKey
  <2>1. CASE j = n
    <3>1. changes'[j] = c /\ \A i \in 1 .. (j - 1) : i \in DOMAIN changes /\ changes'[i] = changes[i]
      BY <1>8, <1>9, <2>1
    <3>2. First(j) => Untouched(k)
      BY <1>7, <1>8, <2>1, <3>1 DEF FirstOfKey, Untouched
    <3>3. PICK s \in Cohort :
            \A q \in Keys :
              /\ Collector(q) <= CollectorOf[s] /\ Untouched(q) => event_baseline'[q] = states[q]
              /\ Collector(q) > CollectorOf[s] => event_baseline'[q] = Absent
      BY <1>5, <1>12
    <3>4. CollectorOf[s] \in Nat /\ Collector(k) \in Nat
      BY CollectorIsNat DEF Cohort
    <3>5. Collector(k) <= CollectorOf[s] \/ Collector(k) > CollectorOf[s]
      BY <3>4
    <3>6. First(j) => event_baseline'[k] \in {states[k], Absent}
      BY <3>2, <3>3, <3>5
    <3>7. First(j) /\ (\A u \in Cohort : Collector(k) <= CollectorOf[u])
            => event_baseline'[k] = states[k]
      BY <3>2, <3>3
    <3>8. \A i \in 1 .. (j - 1) : changes[i].key = k => changes[i].baseline = event_baseline'[k]
      BY <1>5, <3>1
    <3> QED BY <1>7, <3>1, <3>6, <3>7, <3>8
  <2>2. CASE j # n
    <3>1. j \in DOMAIN changes /\ changes'[j] = changes[j]
      BY <1>8, <1>9, <2>2
    <3>2. \A i \in 1 .. (j - 1) : changes'[i] = changes[i]
      BY <1>8, <1>9, <3>1
    <3>3. First(j) = FirstOfKey(j)
      BY <3>1, <3>2 DEF FirstOfKey
    <3> QED BY <1>1, <3>1, <3>2, <3>3 DEF BaselineIsStart
  <2> QED BY <2>1, <2>2
<1>14. CollectorsInTurn'
  <2>1. ASSUME NEW q \in Keys, Collector(q) > at'.collector PROVE states'[q] = Absent
    <3>1. q # k /\ Collector(q) > at.collector
      BY <1>4, <2>1, CollectorIsNat
    <3> QED BY <1>1, <1>6, <3>1 DEF CollectorsInTurn
  <2>2. \A j \in 1 .. n : PastNow(Collector(changes'[j].key))
    <3> SUFFICES ASSUME NEW j \in 1 .. n PROVE PastNow(Collector(changes'[j].key))
      OBVIOUS
    <3>1. CASE j = n
      BY <1>5, <1>7, <1>9, <3>1 DEF Collector
    <3>2. CASE j # n
      <4>1. j \in DOMAIN changes /\ changes'[j] = changes[j]
        BY <1>8, <1>9, <3>2
      <4>2. Past(Collector(changes[j].key)) /\ Collector(changes[j].key) \in Nat
        BY <1>1, <1>8, <4>1, CollectorIsNat DEF CollectorsInTurn
      <4> QED BY <1>4, <4>1, <4>2 DEF Collector
    <3> QED BY <3>1, <3>2
  <2> QED BY <1>9, <2>1, <2>2 DEF CollectorsInTurn, Collector, Past, PastNow
<1>15. FrozenAtStart'
  <2>1. \A j \in 1 .. n : changes'[j].baseline = event_baseline'[changes'[j].key]
    BY <1>5, <1>7, <1>8, <1>9
  <2>2. \A q \in Keys : Untouched(q)' => Untouched(q) /\ q # k
    <3> SUFFICES ASSUME NEW q \in Keys, Untouched(q)' PROVE Untouched(q) /\ q # k
      OBVIOUS
    <3>1. n \in 1 .. n /\ DOMAIN changes \subseteq 1 .. n
      BY <1>8
    <3> QED BY <1>7, <1>8, <1>9, <3>1 DEF Untouched
  <2> QED BY <1>2, <1>5, <1>6, <1>9, <2>1, <2>2 DEF FrozenAtStart, Collector
<1> QED BY <1>10, <1>11, <1>13, <1>14, <1>15 DEF Chained

\* Updates between event start and cool-down end preserve the invariant.
LEMMA ApplyInv ==
  ASSUME Chained, NEW k \in Keys, NEW r \in RouteOrNone, NEW t \in Times, Apply(k, r, t)
  PROVE  Chained'
<1>1. CASE states[k] # r
  BY <1>1, EmittedInv
<1>2. CASE states[k] = r
  <2>1. states' = states
    BY <1>2 DEF Apply, Chained, TypeOK, Stores
  <2>2. changes' = changes
    BY <1>2 DEF Apply, Emitted
  <2> QED BY <2>1, <2>2, NothingEmittedInv DEF Apply
<1> QED BY <1>1, <1>2

\* Every step preserves the invariant.
LEMMA StepInv == Chained /\ [Next]_vars => Chained'
<1> SUFFICES ASSUME Chained, [Next]_vars PROVE Chained'
  OBVIOUS
<1>1. DOMAIN RoutesOf \subseteq Keys
  BY RoutesOccurByKey DEF Keys
<1>2. CASE Next
  <2>1. PICK k \in DOMAIN RoutesOf :
          \/ \E r \in RoutesOf[k] : SeedFromRib(k, r)
          \/ \E r \in RoutesOf[k] \cup {Absent}, t \in Times : WarmUp(k, r, t)
          \/ \E r \in RoutesOf[k] \cup {Absent}, t \in Times : Apply(k, r, t)
          \/ \E t \in Times : PastCooldown(k, t)
    BY <1>2 DEF Next
  <2>2. k \in Keys /\ RoutesOf[k] \subseteq Routes
    BY <1>1, RoutesOccurByKey
  <2>3. RoutesOf[k] \cup {Absent} \subseteq RouteOrNone
    BY <2>2 DEF RouteOrNone
  <2>4. CASE \E r \in RoutesOf[k] : SeedFromRib(k, r)
    BY <2>2, <2>4, SeedInv
  <2>5. CASE \E r \in RoutesOf[k] \cup {Absent}, t \in Times : WarmUp(k, r, t)
    BY <2>2, <2>3, <2>5, WarmUpInv
  <2>6. CASE \E r \in RoutesOf[k] \cup {Absent}, t \in Times : Apply(k, r, t)
    BY <2>2, <2>3, <2>6, ApplyInv
  <2>7. CASE \E t \in Times : PastCooldown(k, t)
    BY <2>2, <2>7, PastCooldownInv
  <2> QED BY <2>1, <2>4, <2>5, <2>6, <2>7
<1>3. CASE UNCHANGED vars
  <2>1. Cohort' = Cohort
    BY <1>3 DEF vars, Cohort
  <2>2. ChangesChain' /\ BaselineIsStart'
    BY <1>3, <2>1, QuietChain, QuietBaseline DEF vars, Chained
  <2>3. TypeOK' /\ CollectorsInTurn'
    BY <1>3 DEF vars, Chained, TypeOK, CollectorsInTurn, Collector, Past
  <2>4. FrozenAtStart'
    BY <1>3, <2>1 DEF vars, Chained, FrozenAtStart, Past, Untouched, Collector
  <2> QED BY <2>2, <2>3, <2>4 DEF Chained
<1> QED BY <1>2, <1>3

\* A step preserves the order of the changes and what untouched instances start from.
LEMMA OrderStep ==
  ASSUME Chained, ChangesInOrder, StartsFromRib, [Next]_vars
  PROVE  ChangesInOrder' /\ StartsFromRib'
<1>1. /\ changes \in Seq(Changes)
      /\ Len(changes) \in Nat /\ DOMAIN changes = 1 .. Len(changes)
      /\ \A j \in DOMAIN changes : changes[j] \in Changes /\ changes[j].key \in Keys
  BY ChangeTypes DEF Chained
<1>2. states \in Stores /\ rib \in Stores /\ warmed \subseteq Keys /\ at \in [collector : Nat, time : Nat]
  BY DEF Chained, TypeOK
<1>3. \A q : Collector(q)' = Collector(q)
  BY DEF Collector
<1>4. CASE UNCHANGED vars
  BY <1>3, <1>4 DEF vars, ChangesInOrder, StartsFromRib, Untouched, FirstOfKey
<1>5. CASE Next
  <2>1. PICK k \in DOMAIN RoutesOf :
          \/ \E r \in RoutesOf[k] : SeedFromRib(k, r)
          \/ \E r \in RoutesOf[k] \cup {Absent}, t \in Times : WarmUp(k, r, t)
          \/ \E r \in RoutesOf[k] \cup {Absent}, t \in Times : Apply(k, r, t)
          \/ \E t \in Times : PastCooldown(k, t)
    BY <1>5 DEF Next
  <2>2. k \in Keys /\ RoutesOf[k] \cup {Absent} \subseteq RouteOrNone
    BY RoutesOccurByKey DEF Keys, RouteOrNone
  <2>3. ASSUME NEW t \in Nat, MoveTo(k, t)
        PROVE  \A j \in DOMAIN changes :
                 \/ Collector(changes[j].key) < at'.collector
                 \/ Collector(changes[j].key) = at'.collector /\ changes[j].time <= at'.time
    <3>1. at' = [collector |-> Collector(k), time |-> t] /\ InOrder(k, t)
      BY <2>3 DEF MoveTo
    <3> SUFFICES ASSUME NEW j \in DOMAIN changes
                 PROVE  \/ Collector(changes[j].key) < at'.collector
                        \/ Collector(changes[j].key) = at'.collector /\ changes[j].time <= at'.time
      OBVIOUS
    <3>2. Collector(changes[j].key) \in Nat /\ Collector(k) \in Nat
      BY <1>1, <2>2, CollectorIsNat
    <3>3. changes[j].time \in Nat
      BY <1>1, WindowOrdered DEF Changes
    <3>4. \/ Collector(changes[j].key) < at.collector
          \/ Collector(changes[j].key) = at.collector /\ changes[j].time <= at.time
      BY DEF ChangesInOrder
    <3>5. at.collector \in Nat /\ at.time \in Nat /\ at'.collector = Collector(k) /\ at'.time = t
      BY <1>2, <3>1
    <3>6. Collector(k) > at.collector \/ (Collector(k) = at.collector /\ t >= at.time)
      BY <3>1 DEF InOrder
    <3> QED
      BY <3>2, <3>3, <3>4, <3>5, <3>6
  <2>4. ASSUME NEW t \in Nat, MoveTo(k, t), changes' = changes
        PROVE  ChangesInOrder'
    BY <1>3, <2>3, <2>4 DEF ChangesInOrder
  <2>5. CASE \E r \in RoutesOf[k] : SeedFromRib(k, r)
    <3>1. PICK r \in RoutesOf[k] : SeedFromRib(k, r)
      BY <2>5
    <3>2. \A j \in DOMAIN changes : changes[j].key # k
      <4>1. ~Past(Collector(k))
        <5>1. MoveTo(k, 0) /\ TypeOK
          BY <3>1 DEF SeedFromRib, Chained
        <5> QED
          BY <2>2, <5>1, PositionAdvances
      <4> QED
        BY <4>1 DEF Chained, CollectorsInTurn
    <3>3. changes' = changes /\ warmed' = warmed /\ \A q \in Keys \ {k} : rib'[q] = rib[q]
      BY <1>2, <3>1 DEF SeedFromRib, Stores
    <3>4. StartsFromRib'
      <4>1. \A q \in Keys \ warmed' : Untouched(q)' => states'[q] = rib'[q]
        BY <1>2, <2>2, <3>1 DEF SeedFromRib, StartsFromRib, Untouched, Stores
      <4>2. \A j \in DOMAIN changes : FirstOfKey(j)' <=> FirstOfKey(j)
        BY <3>3 DEF FirstOfKey
      <4>3. \A j \in DOMAIN changes :
              FirstOfKey(j)' /\ changes[j].key \notin warmed => changes[j].before = rib'[changes[j].key]
        BY <1>1, <3>2, <3>3, <4>2 DEF StartsFromRib
      <4> QED
        BY <3>3, <4>1, <4>3 DEF StartsFromRib
    <3> QED
      BY <2>4, <3>1, <3>4 DEF SeedFromRib
  <2>6. CASE \E r \in RoutesOf[k] \cup {Absent}, t \in Times : WarmUp(k, r, t)
    <3>1. PICK r \in RoutesOf[k] \cup {Absent}, t \in Times : WarmUp(k, r, t)
      BY <2>6
    <3>2. t \in Nat
      BY WindowOrdered
    <3>3. StartsFromRib'
      BY <1>2, <2>2, <3>1 DEF WarmUp, StartsFromRib, Untouched, FirstOfKey, Stores
    <3> QED
      BY <2>4, <3>1, <3>2, <3>3 DEF WarmUp
  <2>7. CASE \E r \in RoutesOf[k] \cup {Absent}, t \in Times : Apply(k, r, t)
    <3>1. PICK r \in RoutesOf[k] \cup {Absent}, t \in Times : Apply(k, r, t)
      BY <2>7
    <3>2. t \in Nat /\ r \in RouteOrNone /\ MoveTo(k, t)
      BY <2>2, <3>1, WindowOrdered DEF Apply
    <3>3. CASE states[k] = r
      <4>1. changes' = changes /\ states' = states /\ rib' = rib /\ warmed' = warmed
        BY <1>2, <3>1, <3>3 DEF Apply, Emitted, Stores
      <4> QED
        BY <2>4, <3>2, <4>1 DEF StartsFromRib, Untouched, FirstOfKey
    <3>4. CASE states[k] # r
      <4>1. PICK c : c = Change(k, r, t)
        OBVIOUS
      <4>2. c \in Changes /\ c.key = k /\ c.time = t
        <5>1. Baseline[k] \in RouteOrNone
          BY <1>2, <2>2 DEF Baseline, Chained, TypeOK, Stores
        <5>2. states[k] \in RouteOrNone /\ Phase(t) \in {"Event", "Cooldown"}
          BY <1>2, <2>2 DEF Stores, Phase
        <5> QED
          BY <2>2, <3>2, <4>1, <5>1, <5>2 DEF Change, Changes
      <4>3. changes' = Append(changes, c)
        BY <3>1, <3>4, <4>1 DEF Apply, Emitted
      <4>4. /\ DOMAIN changes' = 1 .. (Len(changes) + 1)
            /\ \A i \in 1 .. Len(changes) : changes'[i] = changes[i]
            /\ changes'[Len(changes) + 1] = c
        BY <1>1, <4>2, <4>3, OneMore
      <4>5. at'.collector = Collector(k) /\ at'.time = t
        BY <3>2 DEF MoveTo
      <4>6. Collector(k) \in Nat
        BY <2>2, CollectorIsNat
      <4>7. \A j \in DOMAIN changes' :
               \/ Collector(changes'[j].key) < at'.collector
               \/ Collector(changes'[j].key) = at'.collector /\ changes'[j].time <= at'.time
        BY <1>1, <2>3, <3>2, <4>2, <4>4, <4>5
      <4>8. ASSUME NEW i \in DOMAIN changes', NEW j \in DOMAIN changes', i < j,
                   Collector(changes'[i].key) = Collector(changes'[j].key)
            PROVE  changes'[i].time <= changes'[j].time
        <5>1. i \in 1 .. Len(changes) /\ changes'[i] = changes[i]
          BY <1>1, <4>4, <4>8
        <5>2. CASE j \in 1 .. Len(changes)
          BY <1>1, <4>4, <4>8, <5>1, <5>2 DEF ChangesInOrder
        <5>3. CASE j = Len(changes) + 1
          <6>1. Collector(changes[i].key) = Collector(k) /\ changes'[j].time = t
            BY <4>2, <4>4, <4>8, <5>1, <5>3
          <6>2. changes[i].time <= t
            BY <1>1, <2>3, <3>2, <4>5, <4>6, <5>1, <6>1
          <6> QED
            BY <5>1, <6>1, <6>2
        <5> QED
          BY <1>1, <4>4, <5>2, <5>3
      <4>9. ChangesInOrder'
        BY <1>3, <4>7, <4>8 DEF ChangesInOrder
      <4>10. ASSUME NEW q \in Keys, q \notin warmed', Untouched(q)'
             PROVE  states'[q] = rib'[q]
        <5>1. q # k
          BY <1>1, <4>2, <4>4, <4>10 DEF Untouched
        <5>2. Untouched(q)
          BY <1>1, <4>4, <4>10 DEF Untouched
        <5> QED
          BY <1>2, <2>2, <3>1, <4>10, <5>1, <5>2 DEF Apply, StartsFromRib, Stores
      <4>11. ASSUME NEW j \in DOMAIN changes', FirstOfKey(j)', changes'[j].key \notin warmed'
             PROVE  changes'[j].before = rib'[changes'[j].key]
        <5>1. rib' = rib /\ warmed' = warmed /\ c.before = states[k]
          BY <3>1, <4>1 DEF Apply, Change
        <5>2. CASE j \in 1 .. Len(changes)
          <6>1. \A i \in 1 .. (j - 1) : changes'[i] = changes[i]
            BY <1>1, <4>4, <5>2
          <6>2. changes'[j] = changes[j] /\ FirstOfKey(j)
            BY <4>4, <4>11, <5>2, <6>1 DEF FirstOfKey
          <6> QED
            BY <1>1, <4>11, <5>1, <5>2, <6>2 DEF StartsFromRib
        <5>3. CASE j = Len(changes) + 1
          <6>1. \A i \in DOMAIN changes : i \in 1 .. (j - 1) /\ changes'[i] = changes[i]
            BY <1>1, <4>4, <5>3
          <6>2. changes'[j] = c
            BY <4>4, <5>3
          <6>3. Untouched(k)
            BY <4>2, <4>11, <6>1, <6>2 DEF FirstOfKey, Untouched
          <6>4. k \in Keys \ warmed
            BY <2>2, <4>2, <4>11, <5>1, <6>2
          <6> QED
            BY <4>2, <5>1, <6>2, <6>3, <6>4 DEF StartsFromRib
        <5> QED
          BY <1>1, <4>4, <5>2, <5>3
      <4>12. StartsFromRib'
        BY <4>10, <4>11 DEF StartsFromRib
      <4> QED
        BY <4>9, <4>12
    <3> QED
      BY <3>3, <3>4
  <2>8. CASE \E t \in Times : PastCooldown(k, t)
    <3>1. PICK t \in Times : PastCooldown(k, t)
      BY <2>8
    <3>2. t \in Nat
      BY WindowOrdered
    <3> QED
      BY <2>4, <3>1, <3>2 DEF PastCooldown, StartsFromRib, Untouched, FirstOfKey
  <2> QED
    BY <2>1, <2>5, <2>6, <2>7, <2>8
<1> QED
  BY <1>4, <1>5

\* Only updates in the window emit changes.
LEMMA WindowStep ==
  ASSUME Chained, ChangesInWindow, [Next]_vars
  PROVE  ChangesInWindow'
<1>1. changes \in Seq(Changes) /\ Len(changes) \in Nat /\ DOMAIN changes = 1 .. Len(changes)
  BY ChangeTypes DEF Chained
<1>2. CASE changes' = changes
  BY <1>2 DEF ChangesInWindow
<1>3. ASSUME NEW k \in Keys, NEW r \in RouteOrNone, NEW t \in Times, Apply(k, r, t)
      PROVE  ChangesInWindow'
  <2>1. PICK c : c = Change(k, r, t)
    OBVIOUS
  <2>2. c.time = t /\ c.phase = Phase(t) /\ EventStart <= t /\ t <= CooldownEnd
    BY <1>3, <2>1 DEF Change, Apply
  <2>3. CASE changes' = Append(changes, c)
    <3>1. /\ DOMAIN changes' = 1 .. (Len(changes) + 1)
          /\ \A i \in 1 .. Len(changes) : changes'[i] = changes[i]
          /\ changes'[Len(changes) + 1] = c
      BY <1>1, <2>3
    <3>2. \A j \in DOMAIN changes' : j \in 1 .. Len(changes) \/ j = Len(changes) + 1
      BY <1>1, <3>1
    <3> QED
      BY <1>1, <2>2, <3>1, <3>2 DEF ChangesInWindow, Phase
  <2> QED
    BY <1>2, <1>3, <2>1, <2>3 DEF Apply, Emitted
<1>4. CASE UNCHANGED vars
  BY <1>2, <1>4 DEF vars
<1>5. CASE Next
  <2>1. PICK k \in DOMAIN RoutesOf :
          \/ \E r \in RoutesOf[k] : SeedFromRib(k, r)
          \/ \E r \in RoutesOf[k] \cup {Absent}, t \in Times : WarmUp(k, r, t)
          \/ \E r \in RoutesOf[k] \cup {Absent}, t \in Times : Apply(k, r, t)
          \/ \E t \in Times : PastCooldown(k, t)
    BY <1>5 DEF Next
  <2>2. k \in Keys /\ RoutesOf[k] \cup {Absent} \subseteq RouteOrNone
    BY RoutesOccurByKey DEF Keys, RouteOrNone
  <2>3. changes' = changes \/ \E r \in RouteOrNone, t \in Times : Apply(k, r, t)
    BY <2>1, <2>2 DEF SeedFromRib, WarmUp, PastCooldown
  <2> QED
    BY <1>2, <1>3, <2>2, <2>3
<1> QED
  BY <1>4, <1>5

\* Whatever the sources hold and in whatever number, the changes of a route chain
\* from its baseline to the state in the store in the order of their times, and the
\* baseline they carry is the route at event start for the first collector of the
\* cohort (reconstruct_routes).
THEOREM ReconstructionIsSound == Spec => []Inv
<1>1. Init => Inv
  <2> SUFFICES ASSUME Init PROVE Inv
    OBVIOUS
  <2>1. DOMAIN changes = {}
    BY DEF Init
  <2> QED
    BY <2>1, InitInv DEF Init, Inv, ChangesInOrder, StartsFromRib, ChangesInWindow
<1>2. Inv /\ [Next]_vars => Inv'
  BY StepInv, OrderStep, WindowStep DEF Inv
<1> QED BY <1>1, <1>2, PTL DEF Spec

-----------------------------------------------------------------------------
(* The order of the changes of a stream                                    *)

\* A set of natural numbers that is not empty has a least element.
LEMMA LeastOf ==
  ASSUME NEW T, T \subseteq Nat, T # {}
  PROVE  \E x \in T : \A y \in T : x <= y
<1> DEFINE less == OpToRel(<, Nat)
<1>1. IsWellFoundedOn(less, Nat)
  BY NatLessThanWellFounded
<1> HIDE DEF less
<1>2. PICK x \in T : \A y \in T : ~(<<y, x>> \in less)
  BY <1>1, WFMin
<1>3. \A y \in T : ~(y < x)
  BY <1>2 DEF less, OpToRel
<1> QED
  BY <1>3

\* A bounded one has a greatest.
LEMMA GreatestOf ==
  ASSUME NEW n \in Nat, NEW T, T \subseteq 0 .. n, T # {}
  PROVE  Max(T) \in T /\ \A y \in T : y <= Max(T)
<1> DEFINE left == {n - i : i \in T}
<1>1. left \subseteq Nat /\ left # {}
  <2>1. \A i \in T : i \in 0 .. n /\ n - i \in Nat
    OBVIOUS
  <2> QED
    BY <2>1
<1>2. PICK x \in left : \A y \in left : x <= y
  <2> HIDE DEF left
  <2> QED BY <1>1, LeastOf
<1>3. PICK k \in T : x = n - k
  BY <1>2
<1>4. \A y \in T : k >= y
  BY <1>2, <1>3
<1> QED
  BY <1>4 DEF Max

\* The positions of changes with numbers for times and path ids.
Positions(ts, is) ==
  /\ is \subseteq Nat /\ IsFiniteSet(is)
  /\ \A i \in is : ts[i].time \in Nat /\ ts[i].key[2] \in Nat

\* The number of changes before one.
Rank(ts, is, i) == Cardinality({j \in is : Earlier(ts, j, i)})

\* Time, path id and position order the changes strictly.
LEMMA EarlierIsOrder ==
  ASSUME NEW ts, NEW is, Positions(ts, is), NEW i \in is, NEW j \in is
  PROVE  /\ ~Earlier(ts, i, i)
         /\ i = j \/ Earlier(ts, i, j) \/ Earlier(ts, j, i)
         /\ \A k \in is : Earlier(ts, i, j) /\ Earlier(ts, j, k) => Earlier(ts, i, k)
<1>1. /\ i \in Nat /\ j \in Nat
      /\ \A k \in is : k \in Nat /\ ts[k].time \in Nat /\ ts[k].key[2] \in Nat
  BY DEF Positions
<1> QED
  BY <1>1 DEF Earlier

\* An earlier change has fewer before it, and none has all.
LEMMA RankGrows ==
  ASSUME NEW ts, NEW is, Positions(ts, is), NEW i \in is
  PROVE  /\ Rank(ts, is, i) \in Nat /\ Rank(ts, is, i) < Cardinality(is)
         /\ \A j \in is : Earlier(ts, i, j) => Rank(ts, is, i) < Rank(ts, is, j)
<1> DEFINE B(x) == {j \in is : Earlier(ts, j, x)}
<1>1. IsFiniteSet(is)
  BY DEF Positions
<1>2. \A x : B(x) \in SUBSET is
  OBVIOUS
<1>3. \A x : IsFiniteSet(B(x)) /\ Cardinality(B(x)) \in Nat
  BY <1>1, <1>2, FS_Subset, FS_CardinalityType
<1>4. Cardinality(is) \in Nat
  BY <1>1, FS_CardinalityType
<1>5. i \notin B(i)
  BY EarlierIsOrder
<1>6. Cardinality(B(i)) < Cardinality(is)
  <2>1. B(i) # is
    BY <1>5
  <2>2. Cardinality(B(i)) <= Cardinality(is) /\ Cardinality(is) # Cardinality(B(i))
    <3> HIDE DEF B
    <3> QED BY <1>1, <1>2, <2>1, FS_Subset
  <2> QED
    BY <1>3, <1>4, <2>2
<1>7. ASSUME NEW j \in is, Earlier(ts, i, j)
      PROVE  Cardinality(B(i)) < Cardinality(B(j))
  <2>1. B(i) \in SUBSET B(j)
    BY <1>7, EarlierIsOrder
  <2>2. i \in B(j)
    BY <1>7
  <2>3. B(i) # B(j)
    BY <1>5, <2>2
  <2>4. Cardinality(B(i)) <= Cardinality(B(j)) /\ Cardinality(B(j)) # Cardinality(B(i))
    <3> HIDE DEF B
    <3> QED BY <1>3, <2>1, <2>3, FS_Subset
  <2> QED
    BY <1>3, <2>4
<1> QED
  BY <1>3, <1>6, <1>7 DEF Rank

\* Every rank below the number of changes is the rank of one change.
LEMMA RankIsOnto ==
  ASSUME NEW ts, NEW is, Positions(ts, is)
  PROVE  /\ Cardinality(is) \in Nat
         /\ \A i, j \in is : Rank(ts, is, i) = Rank(ts, is, j) => i = j
         /\ \A n \in 0 .. (Cardinality(is) - 1) : \E i \in is : Rank(ts, is, i) = n
<1> DEFINE m == Cardinality(is)
           low == 0 .. (m - 1)
           rank == [i \in is |-> Rank(ts, is, i)]
<1>1. IsFiniteSet(is) /\ m \in Nat
  BY FS_CardinalityType DEF Positions
<1>2. \A i, j \in is : Rank(ts, is, i) = Rank(ts, is, j) => i = j
  BY EarlierIsOrder, RankGrows
<1>3. rank \in [is -> low]
  BY <1>1, RankGrows
<1>4. rank \in Injection(is, low)
  BY <1>2, <1>3 DEF Injection, IsInjective
<1>5. IsFiniteSet(low) /\ Cardinality(low) = m
  BY <1>1, FS_Interval
<1>6. rank \in Surjection(is, low)
  <2> HIDE DEF rank, low
  <2> QED BY <1>4, <1>5, FS_Injection
<1>7. \A n \in low : \E i \in is : rank[i] = n
  BY <1>6 DEF Surjection
<1> QED
  BY <1>1, <1>2, <1>7

\* Ordered lists every change of its positions once, in their order.
LEMMA OrderedIs ==
  ASSUME NEW ts, NEW is, Positions(ts, is)
  PROVE  /\ Cardinality(is) \in Nat
         /\ \E f \in [1 .. Cardinality(is) -> is] :
              /\ Ordered(ts, is) = [n \in 1 .. Cardinality(is) |-> ts[f[n]]]
              /\ \A a, b \in 1 .. Cardinality(is) : a < b => Earlier(ts, f[a], f[b])
              /\ \A i \in is : \E a \in 1 .. Cardinality(is) : f[a] = i
              /\ \A n \in 1 .. Cardinality(is) : Rank(ts, is, f[n]) = n - 1
<1> DEFINE m == Cardinality(is)
           f == [n \in 1 .. m |-> CHOOSE i \in is : Rank(ts, is, i) = n - 1]
<1>1. m \in Nat
  BY RankIsOnto
<1>2. \A n \in 1 .. m : f[n] \in is /\ Rank(ts, is, f[n]) = n - 1
  <2> SUFFICES ASSUME NEW n \in 1 .. m
               PROVE  f[n] \in is /\ Rank(ts, is, f[n]) = n - 1
    OBVIOUS
  <2>1. n - 1 \in 0 .. (m - 1)
    BY <1>1
  <2>2. \E i \in is : Rank(ts, is, i) = n - 1
    BY <2>1, RankIsOnto
  <2> QED
    BY <2>2
<1>3. f \in [1 .. m -> is]
  BY <1>2
<1>4. Ordered(ts, is) = [n \in 1 .. m |-> ts[f[n]]]
  BY DEF Ordered, Rank
<1> HIDE DEF f, m
<1>5. ASSUME NEW a \in 1 .. m, NEW b \in 1 .. m, a < b PROVE Earlier(ts, f[a], f[b])
  <2>1. Rank(ts, is, f[a]) < Rank(ts, is, f[b])
    BY <1>1, <1>2, <1>5
  <2>2. f[a] \in is /\ f[b] \in is /\ Rank(ts, is, f[a]) \in Nat /\ Rank(ts, is, f[b]) \in Nat
    BY <1>1, <1>2
  <2>3. f[a] # f[b] /\ ~(Rank(ts, is, f[b]) < Rank(ts, is, f[a]))
    BY <2>1, <2>2
  <2> QED
    BY <2>2, <2>3, EarlierIsOrder, RankGrows
<1>6. ASSUME NEW i \in is PROVE \E a \in 1 .. m : f[a] = i
  <2>1. Rank(ts, is, i) \in Nat /\ Rank(ts, is, i) < m
    BY RankGrows DEF m
  <2>2. PICK a \in 1 .. m : a = Rank(ts, is, i) + 1
    BY <1>1, <2>1
  <2>3. f[a] \in is /\ Rank(ts, is, f[a]) = Rank(ts, is, i)
    BY <1>2, <2>1, <2>2
  <2> QED
    BY <2>3, RankIsOnto
<1> QED
  BY <1>1, <1>2, <1>3, <1>4, <1>5, <1>6 DEF m

-----------------------------------------------------------------------------
(* The simulation, change by change                                        *)

\* The lifecycle after each change of a sequence.
Replay(s, ts, g) ==
  /\ g[0] = Start(s)
  /\ \A n \in 1 .. Len(ts) : g[n] = Step(s, g[n - 1], ts[n], Kind(ts[n], Absent))

\* Simulate is the last of them.
LEMMA SimulateReplays ==
  ASSUME NEW s, NEW ts, Len(ts) \in Nat
  PROVE  \E g : Replay(s, ts, g) /\ Simulate(s, ts) = g[Len(ts)]
<1> DEFINE N == Len(ts)
           F(c, n) == Step(s, c, ts[n], Kind(ts[n], Absent))
           Upto(m, g) == g = [n \in 0 .. m |-> IF n = 0 THEN Start(s) ELSE F(g[n - 1], n)]
           bad == {m \in 0 .. N : ~ \E g : Upto(m, g)}
<1>1. N \in Nat
  OBVIOUS
<1>2. Simulate(s, ts) = (CHOOSE g : Upto(N, g))[N]
  BY DEF Simulate
<1> HIDE DEF N, F
<1>3. Upto(0, [n \in 0 .. 0 |-> Start(s)])
  OBVIOUS
<1>4. bad = {}
  <2> SUFFICES ASSUME bad # {} PROVE FALSE
    OBVIOUS
  <2>1. bad \subseteq Nat
    BY <1>1
  <2>2. PICK m \in bad : \A y \in bad : m <= y
    <3> HIDE DEF bad
    <3> QED BY <2>1, LeastOf
  <2>3. m \in 0 .. N /\ m # 0
    BY <1>3
  <2>4. m - 1 \in 0 .. N /\ m - 1 \notin bad
    BY <1>1, <2>2, <2>3
  <2>5. PICK g : Upto(m - 1, g)
    BY <2>4
  <2> DEFINE h == [n \in 0 .. m |-> IF n <= m - 1 THEN g[n] ELSE F(g[m - 1], m)]
  <2>6. ASSUME NEW n \in 0 .. m
        PROVE  h[n] = IF n = 0 THEN Start(s) ELSE F(h[n - 1], n)
    <3>1. CASE n <= m - 1
      <4>1. n \in 0 .. (m - 1) /\ h[n] = g[n] /\ (n # 0 => h[n - 1] = g[n - 1])
        BY <1>1, <2>3, <2>6, <3>1
      <4>2. g[n] = IF n = 0 THEN Start(s) ELSE F(g[n - 1], n)
        BY <2>5, <4>1
      <4> QED
        BY <4>1, <4>2
    <3>2. CASE n = m
      <4>1. h[n] = F(g[m - 1], m) /\ h[n - 1] = g[m - 1] /\ n # 0
        BY <1>1, <2>3, <3>2
      <4> QED
        BY <3>2, <4>1
    <3> QED
      BY <1>1, <2>3, <3>1, <3>2
  <2>7. h = [n \in 0 .. m |-> IF n = 0 THEN Start(s) ELSE F(h[n - 1], n)]
    <3>1. h = [n \in 0 .. m |-> h[n]]
      OBVIOUS
    <3> HIDE DEF h
    <3> QED
      BY <2>6, <3>1
  <2>8. Upto(m, h)
    <3> HIDE DEF h
    <3> QED
      BY <2>7
  <2> QED
    BY <2>8
<1>5. N \in 0 .. N /\ N \notin bad
  BY <1>1, <1>4
<1>6. PICK g : g = CHOOSE x : Upto(N, x)
  OBVIOUS
<1>7. Upto(N, g)
  BY <1>5, <1>6
<1>8. g[0] = Start(s) /\ \A n \in 1 .. N : g[n] = F(g[n - 1], n)
  BY <1>1, <1>7
<1> QED
  BY <1>2, <1>6, <1>8 DEF Replay, N, F

\* Every route in the sources has an AS path.  One without is not told from a
\* withdrawal by tokenize, while the store keeps it.
PathsArePresent == \A r \in Routes : r.path # << >>

\* The changes of one stream.
ChangesOf(s, ts) ==
  Len(ts) \in Nat /\ \A n \in 1 .. Len(ts) : ts[n] \in Changes /\ ts[n].key[1] = s

\* With AS paths a withdrawal is what leaves no route.
LEMMA WithdrawalLeavesNone ==
  ASSUME PathsArePresent, NEW t \in Changes
  PROVE  (Kind(t, Absent) = "Withdrawal") <=> t.after = Absent
<1>1. t.after \in Routes \cup {Absent}
  BY DEF Changes, RouteOrNone
<1>2. t.after # Absent => t.after.path # << >>
  BY <1>1 DEF PathsArePresent
<1> QED
  BY <1>2 DEF Kind

\* What one change does to the active instances, to the number of losses and to the
\* categories of a lifecycle.
Follows(c, t, d) ==
  /\ d.active = [c.active EXCEPT ![t.key[2]] = t.after]
  /\ t.after = Absent /\ ~Visible(d.active) => d.withdrawals = c.withdrawals + 1
  /\ t.after # Absent \/ Visible(d.active) => d.withdrawals = c.withdrawals
  /\ \A cat \in c.categories : cat \in d.categories
  /\ Visible(d.active) /\ ~AnyVia(d.active) => "DepartedTransitPath" \in d.categories

LEMMA StepFollows ==
  ASSUME PathsArePresent, NEW s, NEW c, NEW t \in Changes, NEW d,
         d = Step(s, c, t, Kind(t, Absent))
  PROVE  Follows(c, t, d)
<1>1. PICK kind : kind = Kind(t, Absent)
  OBVIOUS
<1>2. (kind = "Withdrawal") <=> t.after = Absent
  BY <1>1, WithdrawalLeavesNone
<1>3. PICK active : active = Held(c.active, t, kind = "Withdrawal")
  OBVIOUS
<1>4. active = [c.active EXCEPT ![t.key[2]] = t.after]
  BY <1>2, <1>3 DEF Held
<1>5. PICK shape : shape = PathShape(t, kind)
  OBVIOUS
<1>6. PICK history : history = History(c, t, kind = "Withdrawal")
  OBVIOUS
<1>7. d = After(s, c, t, kind, shape, active, history)
  BY <1>1, <1>3, <1>5, <1>6 DEF Step
<1>8. /\ d.active = active
      /\ d.withdrawals = IF Lost(active, kind = "Withdrawal") THEN c.withdrawals + 1 ELSE c.withdrawals
      /\ d.categories = c.categories \cup Seen(shape, active)
  BY <1>7 DEF After
<1>9. Visible(active) /\ ~AnyVia(active) => "DepartedTransitPath" \in Seen(shape, active)
  BY DEF Seen
<1> QED
  BY <1>2, <1>4, <1>8, <1>9 DEF Lost, Follows

\* What an instance holds after some changes: the route of the last one of them that
\* is its own, or that of the RIB.
LastOf(s, ts, n, i, r) ==
  \/ (\A b \in 1 .. n : ts[b].key[2] # i) /\ r = rib[<<s, i>>]
  \/ \E b \in 1 .. n :
       /\ ts[b].key[2] = i /\ r = ts[b].after
       /\ \A d \in (b + 1) .. n : ts[d].key[2] # i

\* The simulation holds that at every change.
LEMMA ReplayHolds ==
  ASSUME PathsArePresent, TypeOK, NEW s \in Streams, NEW ts, NEW g, ChangesOf(s, ts),
         Replay(s, ts, g)
  PROVE  \A n \in 0 .. Len(ts) :
           /\ g[n].active \in [PathIds -> RouteOrNone]
           /\ \A i \in PathIds : LastOf(s, ts, n, i, g[n].active[i])
<1> DEFINE Ok(n) == /\ g[n].active \in [PathIds -> RouteOrNone]
                    /\ \A i \in PathIds : LastOf(s, ts, n, i, g[n].active[i])
           bad == {n \in 0 .. Len(ts) : ~Ok(n)}
<1>1. Len(ts) \in Nat
  BY DEF ChangesOf
<1>2. Ok(0)
  <2>1. g[0].active = [i \in PathIds |-> rib[<<s, i>>]]
    BY DEF Replay, Start, BaselineOf
  <2>2. \A i \in PathIds : rib[<<s, i>>] \in RouteOrNone
    BY DEF TypeOK, Stores, Keys
  <2> QED
    BY <2>1, <2>2 DEF LastOf
<1>3. ASSUME NEW n \in 1 .. Len(ts), Ok(n - 1) PROVE Ok(n)
  <2>1. ts[n] \in Changes
    BY DEF ChangesOf
  <2>2. ts[n].key[2] \in PathIds /\ ts[n].after \in RouteOrNone
    BY <2>1 DEF Changes, Keys
  <2>3. g[n].active = [g[n - 1].active EXCEPT ![ts[n].key[2]] = ts[n].after]
    <3>1. g[n] = Step(s, g[n - 1], ts[n], Kind(ts[n], Absent))
      BY DEF Replay
    <3>2. PICK c, t, d : c = g[n - 1] /\ t = ts[n] /\ d = g[n]
      OBVIOUS
    <3>3. t \in Changes /\ d = Step(s, c, t, Kind(t, Absent))
      BY <2>1, <3>1, <3>2
    <3>4. Follows(c, t, d)
      BY <3>3, StepFollows
    <3> QED
      BY <3>2, <3>4 DEF Follows
  <2>4. g[n].active \in [PathIds -> RouteOrNone]
    BY <1>3, <2>2, <2>3
  <2>5. ASSUME NEW i \in PathIds PROVE LastOf(s, ts, n, i, g[n].active[i])
    <3>1. CASE ts[n].key[2] = i
      <4>1. g[n].active[i] = ts[n].after
        BY <1>3, <2>3, <3>1
      <4>2. n \in 1 .. n /\ (n + 1) .. n = {}
        OBVIOUS
      <4> QED
        BY <3>1, <4>1, <4>2 DEF LastOf
    <3>2. CASE ts[n].key[2] # i
      <4>1. g[n].active[i] = g[n - 1].active[i]
        BY <1>3, <2>3, <3>2
      <4>2. LastOf(s, ts, n - 1, i, g[n].active[i])
        BY <1>3, <4>1
      <4>3. \A b \in 1 .. n : b \in 1 .. (n - 1) \/ b = n
        BY <1>1
      <4>4. CASE \A b \in 1 .. (n - 1) : ts[b].key[2] # i
        BY <3>2, <4>2, <4>3, <4>4 DEF LastOf
      <4>5. ASSUME NEW b \in 1 .. (n - 1), ts[b].key[2] = i, g[n].active[i] = ts[b].after,
                   \A d \in (b + 1) .. (n - 1) : ts[d].key[2] # i
            PROVE  LastOf(s, ts, n, i, g[n].active[i])
        <5>1. b \in 1 .. n /\ \A d \in (b + 1) .. n : d \in (b + 1) .. (n - 1) \/ d = n
          BY <1>1
        <5>2. \A d \in (b + 1) .. n : ts[d].key[2] # i
          BY <3>2, <4>5, <5>1
        <5> QED
          BY <4>5, <5>1, <5>2 DEF LastOf
      <4> QED
        BY <4>2, <4>4, <4>5 DEF LastOf
    <3> QED
      BY <3>1, <3>2
  <2> QED
    BY <2>4, <2>5
<1> HIDE DEF Ok
<1>4. bad = {}
  <2> SUFFICES ASSUME bad # {} PROVE FALSE
    OBVIOUS
  <2>1. bad \subseteq Nat
    BY <1>1
  <2>2. PICK m \in bad : \A y \in bad : m <= y
    <3> HIDE DEF bad
    <3> QED BY <2>1, LeastOf
  <2>3. m \in 1 .. Len(ts) /\ m - 1 \in 0 .. Len(ts) /\ m - 1 \notin bad
    BY <1>1, <1>2, <2>2
  <2>4. Ok(m - 1)
    BY <2>3
  <2> QED
    BY <1>3, <2>2, <2>3, <2>4
<1>5. \A n \in 0 .. Len(ts) : Ok(n)
  BY <1>4
<1> QED
  BY <1>5 DEF Ok

-----------------------------------------------------------------------------
(* The simulation against the store                                        *)

\* The changes of a stream as the lifecycle takes them: each one once, those of an
\* instance in the order they were observed in, and all of them when none are tied.
Enumerates(s, ts, f) ==
  /\ ChangesOf(s, ts)
  /\ \A a \in 1 .. Len(ts) : f[a] \in DOMAIN changes /\ ts[a] = changes[f[a]]
  /\ \A i \in DOMAIN changes : changes[i].key[1] = s => \E a \in 1 .. Len(ts) : f[a] = i
  /\ \A a, b \in 1 .. Len(ts) : a < b /\ (ts[a].key = ts[b].key \/ Untied(s)) => f[a] < f[b]
  /\ \A a, b \in 1 .. Len(ts) : a < b => ts[a].time <= ts[b].time

LEMMA StreamChangesEnumerate ==
  ASSUME Inv, NEW s \in Streams
  PROVE  \E f : Enumerates(s, StreamChanges(s, changes), f)
<1> DEFINE is == {i \in DOMAIN changes : changes[i].key[1] = s}
           m == Cardinality(is)
           ts == StreamChanges(s, changes)
<1>1. /\ changes \in Seq(Changes) /\ Len(changes) \in Nat /\ DOMAIN changes = 1 .. Len(changes)
      /\ \A j \in DOMAIN changes : changes[j] \in Changes /\ changes[j].key \in Keys
  BY ChangeTypes DEF Inv, Chained
<1>2. \A i \in DOMAIN changes : changes[i].time \in Nat /\ changes[i].key[2] \in Nat
  BY <1>1, WindowOrdered, StreamsAreNumbers DEF Changes, Keys
<1>3. Positions(changes, is)
  <2>1. is \in SUBSET (1 .. Len(changes)) /\ IsFiniteSet(1 .. Len(changes))
    BY <1>1, FS_Interval
  <2>2. IsFiniteSet(is)
    <3> HIDE DEF is
    <3> QED BY <2>1, FS_Subset
  <2> QED
    BY <1>1, <1>2, <2>1, <2>2 DEF Positions
<1>4. m \in Nat
  BY <1>3, OrderedIs
<1>5. PICK f \in [1 .. m -> is] :
        /\ Ordered(changes, is) = [n \in 1 .. m |-> changes[f[n]]]
        /\ \A a, b \in 1 .. m : a < b => Earlier(changes, f[a], f[b])
        /\ \A i \in is : \E a \in 1 .. m : f[a] = i
  <2> HIDE DEF is
  <2> QED BY <1>3, OrderedIs
<1>6. ts = [n \in 1 .. m |-> changes[f[n]]]
  BY <1>5 DEF StreamChanges
<1>7. \A a \in 1 .. m : f[a] \in DOMAIN changes /\ changes[f[a]].key[1] = s /\ ts[a] = changes[f[a]]
  BY <1>5, <1>6
<1>8. Len(ts) = m
  <2>1. ts \in Seq(Changes) /\ DOMAIN ts = 1 .. m
    BY <1>1, <1>4, <1>6, <1>7
  <2> HIDE DEF ts, m
  <2> QED
    BY <1>4, <2>1
<1>9. ChangesOf(s, ts)
  BY <1>1, <1>4, <1>7, <1>8 DEF ChangesOf
<1> HIDE DEF ts, m
<1>10. ASSUME NEW a \in 1 .. m, NEW b \in 1 .. m, a < b, ts[a].key = ts[b].key \/ Untied(s)
       PROVE  f[a] < f[b]
  <2>1. PICK i \in DOMAIN changes : i = f[a]
    BY <1>7
  <2>2. PICK j \in DOMAIN changes : j = f[b]
    BY <1>7
  <2>3. i \in Nat /\ j \in Nat /\ changes[i].key[1] = s /\ changes[j].key[1] = s
    BY <1>1, <1>7, <2>1, <2>2
  <2>4. Earlier(changes, i, j)
    BY <1>5, <1>10, <2>1, <2>2
  <2>5. changes[i].key = changes[j].key \/ Untied(s)
    BY <1>7, <1>10, <2>1, <2>2
  <2>6. CASE changes[i].time < changes[j].time
    <3>1. Collector(changes[i].key) = Collector(changes[j].key)
      BY <2>3 DEF Collector
    <3>2. j < i => changes[j].time <= changes[i].time
      BY <3>1 DEF Inv, ChangesInOrder
    <3> QED
      BY <1>2, <2>1, <2>2, <2>3, <2>6, <3>2
  <2>7. CASE changes[i].time = changes[j].time
    <3>1. changes[i].key = changes[j].key
      BY <2>3, <2>5, <2>7 DEF Untied
    <3> QED
      BY <1>2, <2>1, <2>2, <2>3, <2>4, <2>7, <3>1 DEF Earlier
  <2> QED
    BY <2>4, <2>6, <2>7 DEF Earlier
<1>11. \A i \in DOMAIN changes : changes[i].key[1] = s => \E a \in 1 .. m : f[a] = i
  BY <1>5
<1>12. ASSUME NEW a \in 1 .. m, NEW b \in 1 .. m, a < b PROVE ts[a].time <= ts[b].time
  <2>1. Earlier(changes, f[a], f[b])
    BY <1>5, <1>12
  <2>2. changes[f[a]].time \in Nat /\ changes[f[b]].time \in Nat
    BY <1>2, <1>7
  <2> QED
    BY <1>7, <2>1, <2>2 DEF Earlier
<1>13. Enumerates(s, ts, f)
  BY <1>7, <1>8, <1>9, <1>10, <1>11, <1>12 DEF Enumerates
<1> QED
  BY <1>13 DEF ts

\* The lifecycle of a stream is the end of a replay of its changes.
LEMMA LifecycleReplays ==
  ASSUME Inv, NEW s \in Streams
  PROVE  \E ts, f, g :
           /\ Enumerates(s, ts, f) /\ Replay(s, ts, g) /\ Len(ts) \in Nat
           /\ Lifecycle(s, changes) = Result(s, ts, g[Len(ts)])
<1>1. PICK ts, f : ts = StreamChanges(s, changes) /\ Enumerates(s, ts, f)
  BY StreamChangesEnumerate
<1>2. Len(ts) \in Nat
  BY <1>1 DEF Enumerates, ChangesOf
<1>3. PICK g : Replay(s, ts, g) /\ Simulate(s, ts) = g[Len(ts)]
  BY <1>2, SimulateReplays
<1> QED
  BY <1>1, <1>2, <1>3 DEF Lifecycle, build_one_lifecycle

\* The end of a replay is what the store holds.
LEMMA ReplayEndsLikeStore ==
  ASSUME PathsArePresent, Inv, NEW s \in Streams, Quiet(s), NEW ts, NEW f, NEW g,
         Enumerates(s, ts, f), Replay(s, ts, g)
  PROVE  g[Len(ts)].active = [i \in PathIds |-> states[<<s, i>>]]
<1>1. /\ Len(changes) \in Nat /\ DOMAIN changes = 1 .. Len(changes)
      /\ \A j \in DOMAIN changes : changes[j] \in Changes /\ changes[j].key \in Keys
  BY ChangeTypes DEF Inv, Chained
<1>2. ChangesOf(s, ts) /\ Len(ts) \in Nat
  BY DEF Enumerates, ChangesOf
<1>3. TypeOK
  BY DEF Inv, Chained
<1>4. /\ g[Len(ts)].active \in [PathIds -> RouteOrNone]
      /\ \A i \in PathIds : LastOf(s, ts, Len(ts), i, g[Len(ts)].active[i])
  <2>1. Len(ts) \in 0 .. Len(ts)
    BY <1>2
  <2> QED
    BY <1>2, <1>3, <2>1, ReplayHolds
<1>5. ASSUME NEW i \in PathIds PROVE g[Len(ts)].active[i] = states[<<s, i>>]
  <2> DEFINE k == <<s, i>>
             n == Len(ts)
  <2>1. k \in Keys
    BY DEF Keys
  <2>2. \A b \in 1 .. n : (ts[b].key[2] = i) <=> ts[b].key = k
    BY <1>2 DEF ChangesOf, Changes, Keys
  <2>3. \A j \in DOMAIN changes : changes[j].key = k => \E b \in 1 .. n : f[b] = j /\ ts[b].key = k
    BY DEF Enumerates
  <2>4. CASE (\A b \in 1 .. n : ts[b].key[2] # i) /\ g[n].active[i] = rib[k]
    <3>1. Untouched(k)
      BY <2>2, <2>3, <2>4 DEF Untouched
    <3>2. k \in Keys \ warmed
      BY <2>1 DEF Quiet
    <3> QED
      BY <2>4, <3>1, <3>2 DEF Inv, StartsFromRib
  <2>5. ASSUME NEW b \in 1 .. n, ts[b].key[2] = i, g[n].active[i] = ts[b].after,
               \A d \in (b + 1) .. n : ts[d].key[2] # i
        PROVE  g[n].active[i] = states[k]
    <3>1. PICK x \in DOMAIN changes : x = f[b] /\ changes[x] = ts[b]
      BY DEF Enumerates
    <3>2. changes[x].key = k
      BY <2>2, <2>5, <3>1
    <3>3. Adjacent(k, x, Len(changes) + 1)
      <4> SUFFICES ASSUME NEW y \in (x + 1) .. ((Len(changes) + 1) - 1), changes[y].key = k
                   PROVE  FALSE
        BY DEF Adjacent
      <4>1. y \in DOMAIN changes /\ x < y
        BY <1>1
      <4>2. PICK d \in 1 .. n : f[d] = y /\ ts[d].key = k
        BY <2>3, <4>1
      <4>3. ~(b < d)
        BY <1>2, <2>2, <2>5, <4>2
      <4>4. d # b
        BY <1>1, <3>1, <4>1, <4>2
      <4>5. d < b
        BY <1>2, <4>3, <4>4
      <4>6. f[d] < f[b]
        BY <2>2, <2>5, <4>2, <4>5 DEF Enumerates
      <4> QED
        BY <1>1, <3>1, <4>1, <4>2, <4>6
    <3>4. changes[x].after = states[k]
      BY <3>2, <3>3 DEF Inv, Chained, ChangesChain
    <3> QED
      BY <2>5, <3>1, <3>4
  <2>6. LastOf(s, ts, n, i, g[n].active[i])
    BY <1>4
  <2> QED
    BY <2>4, <2>5, <2>6 DEF LastOf
<1>6. g[Len(ts)].active = [i \in PathIds |-> g[Len(ts)].active[i]]
  BY <1>4
<1> QED
  BY <1>5, <1>6

\* In every state a behaviour reaches, for every cohort and any number of changes, the
\* simulation of a stream ends with the routes the store holds, although it starts
\* from the RIB and orders the changes by instance within an instant: every route has
\* an AS path and no update before the event touched the stream (build_one_lifecycle
\* against reconstruct_routes).
THEOREM LifecycleEndsLikeTheStore ==
  ASSUME PathsArePresent PROVE Spec => []EndsLikeTheStore
<1>1. ASSUME Inv PROVE EndsLikeTheStore
  <2> SUFFICES ASSUME NEW s \in Cohort, NEW lc, lc = Lifecycle(s, changes), Quiet(lc.stream)
               PROVE  lc.end.active = [i \in PathIds |-> states[<<lc.stream, i>>]]
    BY DEF EndsLikeTheStore, Lifecycles
  <2>1. s \in Streams
    BY DEF Cohort
  <2>2. PICK ts, f, g :
          /\ Enumerates(s, ts, f) /\ Replay(s, ts, g) /\ Len(ts) \in Nat
          /\ Lifecycle(s, changes) = Result(s, ts, g[Len(ts)])
    BY <1>1, <2>1, LifecycleReplays
  <2>3. PICK c : c = g[Len(ts)]
    OBVIOUS
  <2>4. lc = Result(s, ts, c)
    BY <2>2, <2>3
  <2>5. lc.stream = s /\ lc.end = c
    BY <2>4 DEF Result
  <2>6. c.active = [i \in PathIds |-> states[<<s, i>>]]
    BY <1>1, <2>1, <2>2, <2>3, <2>5, ReplayEndsLikeStore
  <2> QED
    BY <2>5, <2>6
<1>2. Inv => EndsLikeTheStore
  BY <1>1
<1> QED
  BY <1>2, ReconstructionIsSound, PTL

-----------------------------------------------------------------------------
(* What the lifecycle says of a stream, against its moments                *)

\* After exactly the changes of a moment the replay has the routes of the moment.
LEMMA ReplayAtMoment ==
  ASSUME PathsArePresent, Inv, NEW s \in Streams, NEW ts, NEW f, NEW g,
         Enumerates(s, ts, f), Replay(s, ts, g),
         NEW n \in Moments, NEW a \in 0 .. Len(ts),
         \A b \in 1 .. Len(ts) : (f[b] <= n) <=> (b <= a)
  PROVE  g[a].active = ActiveAfter(s, n)
<1>1. /\ Len(changes) \in Nat /\ DOMAIN changes = 1 .. Len(changes)
      /\ \A j \in DOMAIN changes : changes[j] \in Changes /\ changes[j].key \in Keys
  BY ChangeTypes DEF Inv, Chained
<1>2. ChangesOf(s, ts) /\ Len(ts) \in Nat /\ n \in Nat /\ n <= Len(changes)
  BY <1>1 DEF Enumerates, ChangesOf, Moments
<1>3. TypeOK
  BY DEF Inv, Chained
<1>4. /\ g[a].active \in [PathIds -> RouteOrNone]
      /\ \A i \in PathIds : LastOf(s, ts, a, i, g[a].active[i])
  BY <1>2, <1>3, ReplayHolds
<1>5. ASSUME NEW i \in PathIds PROVE g[a].active[i] = RouteAfter(<<s, i>>, n)
  <2> DEFINE k == <<s, i>>
             past == {j \in 1 .. n : changes[j].key = k}
  <2>1. \A b \in 1 .. Len(ts) : (ts[b].key[2] = i) <=> ts[b].key = k
    BY <1>2 DEF ChangesOf, Changes, Keys
  <2>2. \A j \in past : \E b \in 1 .. a : f[b] = j /\ ts[b].key = k
    <3> SUFFICES ASSUME NEW j \in past PROVE \E b \in 1 .. a : f[b] = j /\ ts[b].key = k
      OBVIOUS
    <3>1. j \in DOMAIN changes /\ j <= n /\ changes[j].key = k
      BY <1>1, <1>2
    <3>2. PICK b \in 1 .. Len(ts) : f[b] = j /\ ts[b] = changes[j]
      BY <3>1 DEF Enumerates
    <3>3. b <= a
      BY <3>1, <3>2
    <3>4. b \in 1 .. a
      BY <1>2, <3>3
    <3> QED
      BY <3>1, <3>2, <3>4
  <2>3. CASE (\A b \in 1 .. a : ts[b].key[2] # i) /\ g[a].active[i] = rib[k]
    <3>1. past = {}
      <4> SUFFICES ASSUME NEW j \in past PROVE FALSE
        OBVIOUS
      <4>1. PICK b \in 1 .. a : ts[b].key = k
        BY <2>2
      <4>2. b \in 1 .. Len(ts)
        BY <1>2
      <4> QED
        BY <2>1, <2>3, <4>1, <4>2
    <3> QED
      BY <2>3, <3>1 DEF RouteAfter
  <2>4. ASSUME NEW b \in 1 .. a, ts[b].key[2] = i, g[a].active[i] = ts[b].after,
               \A d \in (b + 1) .. a : ts[d].key[2] # i
        PROVE  g[a].active[i] = RouteAfter(k, n)
    <3>1. b \in 1 .. Len(ts) /\ b <= a
      BY <1>2
    <3>2. PICK x \in DOMAIN changes : x = f[b] /\ changes[x] = ts[b] /\ x <= n
      BY <3>1 DEF Enumerates
    <3>3. x \in past
      BY <1>1, <1>2, <2>1, <2>4, <3>1, <3>2
    <3>4. past \subseteq 0 .. n
      BY <1>2
    <3>5. Max(past) \in past /\ \A y \in past : y <= Max(past)
      <4> HIDE DEF past
      <4> QED BY <1>2, <3>3, <3>4, GreatestOf
    <3>6. PICK d \in 1 .. a : f[d] = Max(past) /\ ts[d].key = k
      BY <2>2, <3>5
    <3>7. d \in 1 .. Len(ts) /\ ~(b < d)
      BY <1>2, <2>1, <2>4, <3>6
    <3>8. d < b => Max(past) < x
      <4>1. ts[b].key = k
        BY <2>1, <2>4, <3>1
      <4>2. \A y, z \in 1 .. Len(ts) : y < z /\ ts[y].key = ts[z].key => f[y] < f[z]
        BY DEF Enumerates
      <4>3. d < b => f[d] < f[b]
        BY ONLY <3>1, <3>6, <3>7, <4>1, <4>2
      <4> QED
        BY ONLY <3>2, <3>6, <4>3
    <3>9. Max(past) = x
      <4>1. x \in Nat /\ Max(past) \in Nat /\ x <= Max(past)
        <5> HIDE DEF past
        <5> QED BY <1>2, <3>3, <3>4, <3>5
      <4>2. d = b \/ d < b
        BY <1>2, <3>1, <3>7
      <4> HIDE DEF past
      <4> QED BY <3>2, <3>6, <3>8, <4>1, <4>2
    <3> QED
      BY <2>4, <3>2, <3>3, <3>9 DEF RouteAfter
  <2>5. LastOf(s, ts, a, i, g[a].active[i])
    BY <1>4
  <2> QED
    BY <2>3, <2>4, <2>5 DEF LastOf
<1>6. g[a].active = [i \in PathIds |-> g[a].active[i]]
  BY <1>4
<1> QED
  BY <1>5, <1>6 DEF ActiveAfter

\* The changes of a stream were observed in the order of their times.
LEMMA ObservedInOrder ==
  ASSUME Inv, NEW s \in Streams, NEW ts, NEW f, Enumerates(s, ts, f),
         NEW d \in 1 .. Len(ts), NEW e \in 1 .. Len(ts), ts[d].time < ts[e].time
  PROVE  f[d] < f[e]
<1>1. /\ Len(changes) \in Nat /\ DOMAIN changes = 1 .. Len(changes)
      /\ \A j \in DOMAIN changes : changes[j] \in Changes /\ changes[j].key \in Keys
  BY ChangeTypes DEF Inv, Chained
<1>2. PICK i \in DOMAIN changes : i = f[d] /\ ts[d] = changes[i]
  BY DEF Enumerates
<1>3. PICK j \in DOMAIN changes : j = f[e] /\ ts[e] = changes[j]
  BY DEF Enumerates
<1>4. changes[i].time \in Nat /\ changes[j].time \in Nat /\ i \in Nat /\ j \in Nat
  <2>1. changes[i] \in Changes /\ changes[j] \in Changes /\ i \in Nat /\ j \in Nat
    BY <1>1, <1>2, <1>3
  <2> QED
    BY <2>1, WindowOrdered DEF Changes
<1>5. ts[d].key[1] = s /\ ts[e].key[1] = s
  BY DEF Enumerates, ChangesOf
<1>6. Collector(changes[i].key) = Collector(changes[j].key)
  BY <1>2, <1>3, <1>5 DEF Collector
<1>7. j < i => changes[j].time <= changes[i].time
  BY <1>6 DEF Inv, ChangesInOrder
<1>8. changes[i].time < changes[j].time
  BY <1>2, <1>3
<1>9. i < j
  BY <1>4, <1>7, <1>8
<1> QED
  BY <1>2, <1>3, <1>9

\* The changes of a settled moment come first in the replay.
LEMMA SettledIsPrefix ==
  ASSUME Inv, NEW s \in Streams, NEW ts, NEW f, Enumerates(s, ts, f),
         NEW n \in Moments, Settled(s, n),
         NEW d \in 1 .. Len(ts), NEW e \in 1 .. Len(ts), d < e, f[e] <= n
  PROVE  f[d] <= n
<1>1. Len(changes) \in Nat /\ DOMAIN changes = 1 .. Len(changes)
  BY ChangeTypes DEF Inv, Chained
<1>2. PICK i \in DOMAIN changes : i = f[d] /\ ts[d] = changes[i]
  BY DEF Enumerates
<1>3. PICK j \in DOMAIN changes : j = f[e] /\ ts[e] = changes[j]
  BY DEF Enumerates
<1>4. n \in Nat /\ i \in Nat /\ j \in Nat
  BY <1>1 DEF Moments
<1>5. SUFFICES ASSUME n < i PROVE FALSE
  BY <1>2, <1>4
<1>6. j <= n /\ j < i
  BY <1>3, <1>4, <1>5
<1>7. changes[i].key[1] = s /\ changes[j].key[1] = s
  BY <1>2, <1>3 DEF Enumerates, ChangesOf
<1>8. ts[d].time <= ts[e].time
  BY DEF Enumerates
<1>9. ts[d].time \in Nat /\ ts[e].time \in Nat
  BY WindowOrdered DEF Enumerates, ChangesOf, Changes
<1>10. ~(ts[d].time < ts[e].time)
  <2> SUFFICES ASSUME ts[d].time < ts[e].time PROVE FALSE
    OBVIOUS
  <2>1. f[d] < f[e]
    BY ObservedInOrder
  <2> QED
    BY <1>2, <1>3, <1>4, <1>6, <2>1
<1>11. changes[j].time = changes[i].time
  BY <1>2, <1>3, <1>8, <1>9, <1>10
<1>12. changes[j].key = changes[i].key
  BY <1>5, <1>6, <1>7, <1>11 DEF Settled
<1>13. f[d] < f[e]
  BY <1>2, <1>3, <1>12 DEF Enumerates
<1> QED
  BY <1>2, <1>3, <1>4, <1>6, <1>13

\* Every settled moment is met by the replay, without ties everything the replay meets
\* is a moment, and what it holds after the last change of an instant is a settled one.
LEMMA MomentsAreReplayed ==
  ASSUME PathsArePresent, Inv, NEW s \in Streams, NEW ts, NEW f, NEW g,
         Enumerates(s, ts, f), Replay(s, ts, g)
  PROVE  /\ \A n \in Moments : Settled(s, n) =>
              \E a \in 0 .. Len(ts) : g[a].active = ActiveAfter(s, n)
         /\ Untied(s) =>
              \A a \in 0 .. Len(ts) : \E n \in Moments : g[a].active = ActiveAfter(s, n)
         /\ \A a \in 1 .. Len(ts) :
              (\A d \in (a + 1) .. Len(ts) : ts[a].time < ts[d].time) =>
                \E n \in Moments : Settled(s, n) /\ g[a].active = ActiveAfter(s, n)
<1>1. Len(changes) \in Nat /\ DOMAIN changes = 1 .. Len(changes)
  BY ChangeTypes DEF Inv, Chained
<1>2. Len(ts) \in Nat
  BY DEF Enumerates, ChangesOf
<1>3. \A b \in 1 .. Len(ts) : f[b] \in 1 .. Len(changes)
  BY <1>1 DEF Enumerates
<1>5. ASSUME NEW n \in Moments, Settled(s, n)
      PROVE  \E a \in 0 .. Len(ts) : g[a].active = ActiveAfter(s, n)
  <2> DEFINE known == {0} \cup {b \in 1 .. Len(ts) : f[b] <= n}
  <2>1. n \in Nat /\ known \subseteq 0 .. Len(ts) /\ known # {}
    BY <1>1, <1>2 DEF Moments
  <2>2. PICK a \in known : \A y \in known : y <= a
    <3> HIDE DEF known
    <3> QED BY <1>2, <2>1, GreatestOf
  <2>3. a \in 0 .. Len(ts)
    BY <2>1
  <2>4. ASSUME NEW b \in 1 .. Len(ts) PROVE (f[b] <= n) <=> (b <= a)
    <3>1. f[b] <= n => b <= a
      BY <2>2
    <3>2. ASSUME b <= a PROVE f[b] <= n
      <4>1. a \in 1 .. Len(ts) /\ f[a] <= n
        BY <1>2, <2>2, <3>2
      <4>2. b = a \/ b < a
        BY <1>2, <3>2, <4>1
      <4>3. b < a => f[b] <= n
        BY <1>5, <4>1, SettledIsPrefix
      <4> QED
        BY <4>1, <4>2, <4>3
    <3> QED
      BY <3>1, <3>2
  <2>5. g[a].active = ActiveAfter(s, n)
    BY <2>3, <2>4, ReplayAtMoment
  <2> QED
    BY <2>3, <2>5
<1>6. ASSUME Untied(s), NEW a \in 0 .. Len(ts)
      PROVE  \E n \in Moments : g[a].active = ActiveAfter(s, n)
  <2>0. \A b, d \in 1 .. Len(ts) : b < d => f[b] < f[d]
    BY <1>6 DEF Enumerates
  <2>1. CASE a = 0
    <3>1. 0 \in Moments
      BY <1>1 DEF Moments
    <3>2. \A b \in 1 .. Len(ts) : (f[b] <= 0) <=> (b <= a)
      BY <1>1, <1>2, <1>3, <2>1
    <3>3. g[a].active = ActiveAfter(s, 0)
      BY <3>1, <3>2, ReplayAtMoment
    <3> QED
      BY <3>1, <3>3
  <2>2. CASE a # 0
    <3>1. a \in 1 .. Len(ts)
      BY <1>2, <2>2
    <3>2. f[a] \in Moments
      BY <1>1, <1>3, <3>1 DEF Moments
    <3>3. ASSUME NEW b \in 1 .. Len(ts) PROVE (f[b] <= f[a]) <=> (b <= a)
      <4>1. b = a \/ b < a \/ a < b
        BY <1>2, <3>1
      <4>2. f[a] \in Nat /\ f[b] \in Nat
        BY <1>1, <1>3, <3>1
      <4> QED
        BY <1>2, <2>0, <3>1, <4>1, <4>2
    <3>4. g[a].active = ActiveAfter(s, f[a])
      BY <3>2, <3>3, ReplayAtMoment
    <3> QED
      BY <3>2, <3>4
  <2> QED
    BY <2>1, <2>2
<1>7. ASSUME NEW a \in 1 .. Len(ts), \A d \in (a + 1) .. Len(ts) : ts[a].time < ts[d].time
      PROVE  \E n \in Moments : Settled(s, n) /\ g[a].active = ActiveAfter(s, n)
  <2> DEFINE known == {f[b] : b \in 1 .. a}
  <2>1. known \subseteq 0 .. Len(changes) /\ f[a] \in known
    BY <1>1, <1>2, <1>3
  <2>2. PICK n \in known : \A y \in known : y <= n
    <3> HIDE DEF known
    <3> QED BY <1>1, <2>1, GreatestOf
  <2>3. n \in Moments /\ n \in Nat
    BY <1>1, <2>1, <2>2 DEF Moments
  <2>4. PICK m \in 1 .. a : n = f[m]
    BY <2>2
  <2>5. ASSUME NEW b \in 1 .. a, NEW d \in 1 .. Len(ts), a < d
        PROVE  b \in 1 .. Len(ts) /\ ts[b].time < ts[d].time /\ f[b] < f[d]
    <3>1. b \in 1 .. Len(ts) /\ (b = a \/ b < a) /\ d \in (a + 1) .. Len(ts)
      BY <1>2, <2>5
    <3>2. \A x \in 1 .. Len(ts) : ts[x].time \in Nat
      BY WindowOrdered DEF Enumerates, ChangesOf, Changes
    <3>3. b < a => ts[b].time <= ts[a].time
      BY <3>1 DEF Enumerates
    <3>4. ts[b].time < ts[d].time
      BY <1>7, <2>5, <3>1, <3>2, <3>3
    <3> QED
      BY <3>1, <3>4, ObservedInOrder
  <2>6. ASSUME NEW b \in 1 .. Len(ts) PROVE (f[b] <= n) <=> (b <= a)
    <3>1. b <= a => f[b] <= n
      BY <2>2
    <3>2. a < b => n < f[b]
      BY <2>4, <2>5
    <3> QED
      BY <1>1, <1>2, <1>3, <2>3, <3>1, <3>2
  <2>7. Settled(s, n)
    <3> SUFFICES ASSUME NEW i \in DOMAIN changes, NEW j \in DOMAIN changes, i <= n, n < j,
                        changes[i].key[1] = s, changes[j].key[1] = s,
                        changes[i].time = changes[j].time
                 PROVE  FALSE
      BY DEF Settled
    <3>1. PICK b \in 1 .. Len(ts) : f[b] = i /\ ts[b] = changes[i]
      BY DEF Enumerates
    <3>2. PICK d \in 1 .. Len(ts) : f[d] = j /\ ts[d] = changes[j]
      BY DEF Enumerates
    <3>3. b <= a /\ ~(d <= a)
      BY <1>1, <2>3, <2>6, <3>1, <3>2
    <3>4. b \in 1 .. a /\ a < d
      BY <1>2, <3>3
    <3>5. ts[b].time < ts[d].time
      BY <2>5, <3>4
    <3>6. ts[b].time \in Nat
      BY WindowOrdered DEF Enumerates, ChangesOf, Changes
    <3> QED
      BY <3>1, <3>2, <3>5, <3>6
  <2>8. g[a].active = ActiveAfter(s, n)
    <3>1. a \in 0 .. Len(ts)
      BY <1>2
    <3> QED
      BY <2>3, <2>6, <3>1, ReplayAtMoment
  <2> QED
    BY <2>3, <2>7, <2>8
<1> QED
  BY <1>5, <1>6, <1>7

\* The replay has counted a loss when a change left no instance, and has seen a
\* departure when a change left some but none through the transit.
LEMMA ReplayCounts ==
  ASSUME PathsArePresent, TypeOK, NEW s \in Streams, NEW ts, NEW g, ChangesOf(s, ts),
         Replay(s, ts, g)
  PROVE  \A n \in 0 .. Len(ts) :
           /\ g[n].withdrawals \in Nat
           /\ (g[n].withdrawals > 0) <=> (\E b \in 1 .. n : ~Visible(g[b].active))
           /\ (\E b \in 1 .. n : Visible(g[b].active) /\ ~AnyVia(g[b].active))
                => "DepartedTransitPath" \in g[n].categories
<1> DEFINE Out(b) == ~Visible(g[b].active)
           Off(b) == Visible(g[b].active) /\ ~AnyVia(g[b].active)
           Ok(n) == /\ g[n].withdrawals \in Nat
                    /\ (g[n].withdrawals > 0) <=> (\E b \in 1 .. n : Out(b))
                    /\ (\E b \in 1 .. n : Off(b)) => "DepartedTransitPath" \in g[n].categories
           bad == {n \in 0 .. Len(ts) : ~Ok(n)}
<1>1. Len(ts) \in Nat
  BY DEF ChangesOf
<1>2. Ok(0)
  <2>1. g[0].withdrawals = 0
    BY DEF Replay, Start
  <2> QED
    BY <2>1
<1>3. ASSUME NEW n \in 1 .. Len(ts), Ok(n - 1) PROVE Ok(n)
  <2>1. ts[n] \in Changes /\ n \in 0 .. Len(ts) /\ n - 1 \in 0 .. Len(ts)
    BY <1>1 DEF ChangesOf
  <2>2. ts[n].key[2] \in PathIds /\ ts[n].after \in RouteOrNone
    BY <2>1 DEF Changes, Keys
  <2>3. PICK c, t, d : c = g[n - 1] /\ t = ts[n] /\ d = g[n]
    OBVIOUS
  <2>4. t \in Changes /\ d = Step(s, c, t, Kind(t, Absent))
    BY <2>1, <2>3 DEF Replay
  <2>5. Follows(c, t, d)
    BY <2>4, StepFollows
  <2>6. c.active \in [PathIds -> RouteOrNone]
    BY <2>1, <2>3, ReplayHolds
  <2>7. ~Visible(d.active) => t.after = Absent
    BY <2>2, <2>3, <2>5, <2>6 DEF Follows, Visible
  <2>8. \A b : b \in 1 .. n <=> (b \in 1 .. (n - 1) \/ b = n)
    BY <1>1
  <2>9. Out(n) <=> ~Visible(d.active)
    BY <2>3
  <2>10. Off(n) <=> Visible(d.active) /\ ~AnyVia(d.active)
    BY <2>3
  <2> HIDE DEF Out, Off
  <2>11. c.withdrawals \in Nat /\ ((c.withdrawals > 0) <=> (\E b \in 1 .. (n - 1) : Out(b)))
    BY <1>3, <2>3
  <2>12. d.withdrawals = IF Out(n) THEN c.withdrawals + 1 ELSE c.withdrawals
    BY <2>5, <2>7, <2>9 DEF Follows
  <2>13. d.withdrawals \in Nat /\ ((d.withdrawals > 0) <=> (\E b \in 1 .. n : Out(b)))
    BY <2>8, <2>11, <2>12
  <2>14. (\E b \in 1 .. n : Off(b)) => "DepartedTransitPath" \in d.categories
    BY <1>3, <2>3, <2>5, <2>8, <2>10 DEF Follows
  <2> QED
    BY <2>3, <2>13, <2>14
<1> HIDE DEF Ok
<1>4. bad = {}
  <2> SUFFICES ASSUME bad # {} PROVE FALSE
    OBVIOUS
  <2>1. bad \subseteq Nat
    BY <1>1
  <2>2. PICK m \in bad : \A y \in bad : m <= y
    <3> HIDE DEF bad
    <3> QED BY <2>1, LeastOf
  <2>3. m \in 1 .. Len(ts) /\ m - 1 \in 0 .. Len(ts) /\ m - 1 \notin bad
    BY <1>1, <1>2, <2>2
  <2>4. Ok(m - 1)
    BY <2>3
  <2> QED
    BY <1>3, <2>2, <2>3, <2>4
<1>5. \A n \in 0 .. Len(ts) : Ok(n)
  BY <1>4
<1> QED
  BY <1>5 DEF Ok

\* A stream of the cohort starts through the transit.
LEMMA CohortStartsVia ==
  ASSUME NEW s \in Cohort
  PROVE  /\ ActiveAfter(s, 0) = BaselineOf(s)
         /\ Visible(BaselineOf(s)) /\ AnyVia(BaselineOf(s))
<1>1. \A k : RouteAfter(k, 0) = rib[k]
  BY DEF RouteAfter
<1>2. ActiveAfter(s, 0) = BaselineOf(s)
  BY <1>1 DEF ActiveAfter, BaselineOf
<1>3. Visible(BaselineOf(s)) /\ AnyVia(BaselineOf(s))
  BY DEF Cohort, BaselineOf, Visible, AnyVia
<1> QED
  BY <1>2, <1>3

\* The category of a lifecycle is Withdrawn or Departed when it lost the stream or saw
\* it depart, and Withdrawn only when it lost it.
LEMMA CategoryIs ==
  ASSUME NEW c, c.withdrawals \in Nat
  PROVE  /\ (c.withdrawals > 0) <=> (Category(c) = "Withdrawn")
         /\ "DepartedTransitPath" \in c.categories
              => Category(c) \in {"Withdrawn", "DepartedTransitPath"}
BY DEF Category

\* What the lifecycle of a stream says is what happened to it.
LEMMA LifecycleIsTrue ==
  ASSUME PathsArePresent, Inv, NEW s \in Cohort, NEW lc, lc = Lifecycle(s, changes)
  PROVE  /\ lc.stream = s
         /\ \A n \in Moments : Settled(s, n) /\ ~Visible(ActiveAfter(s, n)) => lc.was_withdrawn
         /\ lc.was_withdrawn /\ Untied(s) => \E n \in Moments : ~Visible(ActiveAfter(s, n))
         /\ \A n \in Moments : Settled(s, n) /\ ~AnyVia(ActiveAfter(s, n))
              => lc.category \in {"Withdrawn", "DepartedTransitPath"}
         /\ lc.was_withdrawn <=> lc.category = "Withdrawn"
<1>1. s \in Streams
  BY DEF Cohort
<1>2. PICK ts, f, g :
        /\ Enumerates(s, ts, f) /\ Replay(s, ts, g) /\ Len(ts) \in Nat
        /\ Lifecycle(s, changes) = Result(s, ts, g[Len(ts)])
  BY <1>1, LifecycleReplays
<1>3. PICK c : c = g[Len(ts)]
  OBVIOUS
<1>4. TypeOK /\ ChangesOf(s, ts) /\ Len(ts) \in 0 .. Len(ts)
  BY <1>2 DEF Inv, Chained, Enumerates
<1>5. /\ c.withdrawals \in Nat
      /\ (c.withdrawals > 0) <=> (\E b \in 1 .. Len(ts) : ~Visible(g[b].active))
      /\ (\E b \in 1 .. Len(ts) : Visible(g[b].active) /\ ~AnyVia(g[b].active))
           => "DepartedTransitPath" \in c.categories
  BY <1>1, <1>2, <1>3, <1>4, ReplayCounts
<1>6. /\ lc.stream = s /\ (lc.was_withdrawn <=> c.withdrawals > 0)
      /\ lc.category = Category(c)
  <2>1. lc = Result(s, ts, c)
    BY <1>2, <1>3
  <2>2. lc.stream = s /\ lc.category = Category(c)
    BY <2>1 DEF Result
  <2>3. PICK w \in BOOLEAN : w <=> c.withdrawals > 0
    BY Zenon
  <2>4. w = (c.withdrawals > 0)
    BY <1>5, <2>3
  <2>5. lc.was_withdrawn = w
    BY ONLY <2>1, <2>4 DEF Result
  <2> QED
    BY <2>2, <2>3, <2>5
<1>7. Visible(g[0].active) /\ AnyVia(g[0].active)
  <2>1. g[0].active = BaselineOf(s)
    BY <1>2 DEF Replay, Start
  <2> QED
    BY <2>1, CohortStartsVia
<1>8. \A a \in 0 .. Len(ts) : a = 0 \/ a \in 1 .. Len(ts)
  BY <1>2
<1>9. \A a \in 1 .. Len(ts) : a \in 0 .. Len(ts)
  BY <1>2
<1>10. /\ \A n \in Moments : Settled(s, n) =>
            \E a \in 0 .. Len(ts) : g[a].active = ActiveAfter(s, n)
       /\ Untied(s) =>
            \A a \in 0 .. Len(ts) : \E n \in Moments : g[a].active = ActiveAfter(s, n)
  BY <1>1, <1>2, MomentsAreReplayed
<1>11. /\ \A n \in Moments : Settled(s, n) /\ ~Visible(ActiveAfter(s, n))
            => \E b \in 1 .. Len(ts) : ~Visible(g[b].active)
       /\ Untied(s) /\ (\E b \in 1 .. Len(ts) : ~Visible(g[b].active))
            => \E n \in Moments : ~Visible(ActiveAfter(s, n))
  BY <1>7, <1>8, <1>9, <1>10
<1>12. \A n \in Moments : Settled(s, n) /\ ~AnyVia(ActiveAfter(s, n))
         => \E b \in 1 .. Len(ts) : ~AnyVia(g[b].active)
  BY <1>7, <1>8, <1>10
<1>13. (\E b \in 1 .. Len(ts) : ~AnyVia(g[b].active))
         => c.withdrawals > 0 \/ "DepartedTransitPath" \in c.categories
  BY <1>5
<1>14. /\ (c.withdrawals > 0) <=> (Category(c) = "Withdrawn")
       /\ "DepartedTransitPath" \in c.categories
            => Category(c) \in {"Withdrawn", "DepartedTransitPath"}
  BY <1>5, CategoryIs
<1> QED
  BY <1>6, <1>5, <1>11, <1>12, <1>13, <1>14

\* A verdict without an impact rests on lifecycles of which none tells of one.
LEMMA NoImpactVerdict ==
  ASSUME NEW lcs, NEW l \in lcs,
         ParticipantVerdict(lcs) \in {"UnexpectedContinuedInternet2Path", "PolicyChangeObserved"}
  PROVE  \/ l.category \in {"Unchanged", "PrependOnly"}
         \/ ~l.was_withdrawn /\ l.category # "DepartedTransitPath"
<1> DEFINE strong == {x \in lcs : ~x.ambiguous}
           withdrawn == {x \in strong : x.was_withdrawn}
           departed == {x \in strong : x.category = "DepartedTransitPath"}
           quiet == \A x \in strong : x.category \in {"Unchanged", "PrependOnly"}
           verdict ==
             IF quiet THEN "PolicyChangeObserved"
             ELSE IF departed # {} /\ withdrawn = {} THEN "ExpectedAlternateRouting"
             ELSE IF withdrawn \cup departed = strong THEN "ExpectedParticipantUnavailability"
             ELSE IF withdrawn \cup departed # {} THEN "PartialImpact"
             ELSE "UnexpectedContinuedInternet2Path"
           Told == CASE lcs = {} -> "UnexpectedContinuedInternet2Path"
                     [] lcs # {} /\ strong = {} -> "InsufficientVisibility"
                     [] OTHER -> Suppressed(lcs, strong, verdict)
<1>1. ParticipantVerdict(lcs) = Told
  BY DEF ParticipantVerdict
<1>2. Told \in {"UnexpectedContinuedInternet2Path", "PolicyChangeObserved"}
  BY <1>1
<1> HIDE DEF verdict, strong
<1>3. lcs # {}
  OBVIOUS
<1>4. strong = lcs /\ verdict \in {"UnexpectedContinuedInternet2Path", "PolicyChangeObserved"}
  BY <1>2, <1>3 DEF Suppressed
<1>5. quiet \/ withdrawn \cup departed = {}
  BY <1>4 DEF verdict
<1>6. l \in strong
  BY <1>4
<1> QED
  BY <1>5, <1>6

\* For every cohort and any number of changes, a verdict that reports no impact on a
\* participant's relationship means that every stream that no update before the event
\* touched had a route through the reviewed transit at every settled moment, of the
\* event and of the cool-down (derive_verdict).
THEOREM NoImpactOnlyWhenVia ==
  ASSUME PathsArePresent PROVE Spec => []NoImpactMeansVia
<1>1. ASSUME Inv PROVE NoImpactMeansVia
  <2> SUFFICES ASSUME derive_verdict("ParticipantRelationshipUnavailable", changes, FALSE)
                        \in {"UnexpectedContinuedInternet2Path", "PolicyChangeObserved"},
                      NEW s \in Cohort, Quiet(s), NEW n \in Moments, Settled(s, n)
               PROVE  AnyVia(ActiveAfter(s, n))
    BY DEF NoImpactMeansVia
  <2>1. CASE changes = << >>
    <3>1. n = 0
      BY <2>1 DEF Moments
    <3> QED
      BY <3>1, CohortStartsVia
  <2>2. CASE changes # << >>
    <3>1. derive_verdict("ParticipantRelationshipUnavailable", changes, FALSE)
            = ParticipantVerdict(Lifecycles(changes))
      BY <2>2, Zenon DEF derive_verdict
    <3>2. PICK lc : lc = Lifecycle(s, changes)
      OBVIOUS
    <3>3. lc \in Lifecycles(changes)
      BY <3>2 DEF Lifecycles
    <3>4. \/ lc.category \in {"Unchanged", "PrependOnly"}
          \/ ~lc.was_withdrawn /\ lc.category # "DepartedTransitPath"
      BY <3>1, <3>3, NoImpactVerdict
    <3>5. /\ ~AnyVia(ActiveAfter(s, n)) => lc.category \in {"Withdrawn", "DepartedTransitPath"}
          /\ lc.was_withdrawn <=> lc.category = "Withdrawn"
      BY <1>1, <3>2, LifecycleIsTrue
    <3> QED
      BY <3>4, <3>5
  <2> QED
    BY <2>1, <2>2
<1>2. Inv => NoImpactMeansVia
  BY <1>1
<1> QED
  BY <1>2, ReconstructionIsSound, PTL

-----------------------------------------------------------------------------
(* Waves                                                                   *)

\* No cut between two positions.
Uncut(cuts, m, n) == \A x \in cuts : ~(m <= x /\ x < n) /\ ~(n <= x /\ x < m)

\* The blocks of a split cover the positions, and a block has exactly the positions
\* that no cut separates from one of its own.
LEMMA SplitBlocks ==
  ASSUME NEW ts, Len(ts) \in Nat, DOMAIN ts = 1 .. Len(ts), NEW cuts, cuts \subseteq Inner(ts)
  PROVE  /\ \A w \in Split(ts, cuts) : w # {} /\ w \subseteq DOMAIN ts
         /\ \A n \in DOMAIN ts : \E w \in Split(ts, cuts) : n \in w
         /\ \A w \in Split(ts, cuts) : \A m \in w, n \in DOMAIN ts : n \in w <=> Uncut(cuts, m, n)
<1> DEFINE N == Len(ts)
           Block(a, b) == {n \in DOMAIN ts : a <= n /\ n <= b /\ \A x \in cuts : x < a \/ x >= b}
           starts == {x + 1 : x \in cuts \cup {0}}
           ends == cuts \cup {N}
<1>1. \A x \in cuts : x \in Nat /\ 1 <= x /\ x < N
  BY DEF Inner
<1>2. Split(ts, cuts) = {Block(a, b) : a \in starts, b \in ends} \ {{}}
  BY DEF Split
<1>3. \A a \in starts : a \in Nat /\ (a = 1 \/ a - 1 \in cuts)
  BY <1>1
<1>4. \A b \in ends : b \in Nat /\ (b = N \/ b \in cuts)
  BY <1>1
<1>0. N \in Nat /\ DOMAIN ts = 1 .. N
  OBVIOUS
<1> HIDE DEF Block, starts, ends, N
<1>5. \A w \in Split(ts, cuts) : w # {} /\ \E a \in starts, b \in ends : w = Block(a, b)
  BY <1>2
<1>6. \A a \in starts, b \in ends : Block(a, b) # {} => Block(a, b) \in Split(ts, cuts)
  BY <1>2
<1>7. ASSUME NEW w \in Split(ts, cuts), NEW m \in w, NEW n \in DOMAIN ts
      PROVE  n \in w <=> Uncut(cuts, m, n)
  <2>1. PICK a \in starts, b \in ends : w = Block(a, b)
    BY <1>5
  <2>2. m \in DOMAIN ts /\ a <= m /\ m <= b /\ \A x \in cuts : x < a \/ x >= b
    BY <2>1 DEF Block
  <2>3. n \in w <=> a <= n /\ n <= b
    BY <2>1, <2>2 DEF Block
  <2>4. m \in Nat /\ n \in Nat /\ 1 <= n /\ n <= N /\ a \in Nat /\ b \in Nat
    BY <1>0, <1>3, <1>4, <2>2
  <2>5. ASSUME a <= n, n <= b PROVE Uncut(cuts, m, n)
    BY <1>1, <2>2, <2>4, <2>5 DEF Uncut
  <2>6. ASSUME Uncut(cuts, m, n) PROVE a <= n
    <3>1. a = 1 \/ a - 1 \in cuts
      BY <1>3
    <3>2. a - 1 \in cuts => ~(n <= a - 1 /\ a - 1 < m)
      BY <2>6 DEF Uncut
    <3> QED
      BY <2>2, <2>4, <3>1, <3>2
  <2>7. ASSUME Uncut(cuts, m, n) PROVE n <= b
    <3>1. b = N \/ b \in cuts
      BY <1>4
    <3>2. b \in cuts => ~(m <= b /\ b < n)
      BY <2>7 DEF Uncut
    <3> QED
      BY <2>2, <2>4, <3>1, <3>2
  <2> QED
    BY <2>3, <2>5, <2>6, <2>7
<1>8. ASSUME NEW n \in DOMAIN ts PROVE \E w \in Split(ts, cuts) : n \in w
  <2> DEFINE low == {0} \cup {x \in cuts : x < n}
             high == {N} \cup {x \in cuts : x >= n}
  <2>1. n \in Nat /\ 1 <= n /\ n <= N
    BY <1>0
  <2>2. low \subseteq 0 .. n /\ low # {} /\ high \subseteq Nat /\ high # {}
    BY <1>0, <1>1, <2>1
  <2>3. PICK x \in low : \A y \in low : y <= x
    <3> HIDE DEF low
    <3> QED BY <2>1, <2>2, GreatestOf
  <2>4. PICK b \in high : \A y \in high : b <= y
    <3> HIDE DEF high
    <3> QED BY <2>2, LeastOf
  <2>5. x + 1 \in starts /\ b \in ends
    BY DEF starts, ends
  <2>6. x \in Nat /\ x < n /\ n <= b /\ b \in Nat
    BY <1>0, <1>1, <2>1, <2>3, <2>4
  <2>7. ASSUME NEW y \in cuts PROVE y < x + 1 \/ y >= b
    <3>1. y < n => y <= x
      BY <2>3
    <3>2. y >= n => b <= y
      BY <2>4
    <3> QED
      BY <1>1, <2>1, <2>6, <3>1, <3>2
  <2>8. n \in Block(x + 1, b)
    BY <2>1, <2>6, <2>7 DEF Block
  <2> QED
    BY <1>6, <2>5, <2>8
<1>9. \A w \in Split(ts, cuts) : w # {} /\ w \subseteq DOMAIN ts
  BY <1>5 DEF Block
<1> QED
  BY <1>7, <1>8, <1>9

\* A gap of more whole seconds than the limit is above the limit.
LEMMA WholeSecondsBelow ==
  ASSUME NEW d \in Nat
  PROVE  /\ Seconds(d) > MaxGap => d > MaxGap * Second
         /\ d = 0 => ~(Seconds(d) > MaxGap) /\ ~(d > MaxGap * Second)
<1> DEFINE q == d \div Second
<1>1. Second \in Nat /\ Second > 0 /\ MaxGap \in Nat
  BY SecondPositive
<1>2. q \in Nat /\ Second * q <= d
  BY <1>1
<1>3. d = 0 => q = 0
  BY <1>1
<1>4. MaxGap * Second \in Nat
  BY <1>1
<1> HIDE DEF q
<1>5. ASSUME q > MaxGap PROVE d > MaxGap * Second
  <2>1. PICK e \in Nat : q = (MaxGap + 1) + e
    BY <1>1, <1>2, <1>5
  <2>2. Second * q = MaxGap * Second + Second + Second * e
    BY <1>1, <2>1
  <2>3. Second * e \in Nat
    BY <1>1, <2>1
  <2> QED
    BY <1>1, <1>2, <1>4, <2>2, <2>3
<1> QED
  BY <1>1, <1>3, <1>4, <1>5 DEF Seconds, q

\* The changes at some positions as they are taken, by their times.
Lists(is, ts, f) ==
  /\ Len(ts) \in Nat /\ DOMAIN ts = 1 .. Len(ts)
  /\ \A n \in DOMAIN ts : /\ f[n] \in is /\ ts[n] = changes[f[n]]
                          /\ ts[n].time \in Nat /\ Rank(changes, is, f[n]) = n - 1
  /\ \A i \in is : \E n \in DOMAIN ts : f[n] = i
  /\ \A a, b \in DOMAIN ts : a <= b => ts[a].time <= ts[b].time

LEMMA OrderedLists ==
  ASSUME Inv, NEW is, is \subseteq DOMAIN changes
  PROVE  Positions(changes, is) /\ \E f : Lists(is, Ordered(changes, is), f)
<1> DEFINE m == Cardinality(is)
           ts == Ordered(changes, is)
<1>1. /\ changes \in Seq(Changes) /\ Len(changes) \in Nat /\ DOMAIN changes = 1 .. Len(changes)
      /\ \A j \in DOMAIN changes : changes[j] \in Changes /\ changes[j].key \in Keys
  BY ChangeTypes DEF Inv, Chained
<1>2. \A i \in DOMAIN changes : changes[i].time \in Nat /\ changes[i].key[2] \in Nat
  BY <1>1, WindowOrdered, StreamsAreNumbers DEF Changes, Keys
<1>3. Positions(changes, is)
  <2>1. is \in SUBSET (1 .. Len(changes)) /\ IsFiniteSet(1 .. Len(changes))
    BY <1>1, FS_Interval
  <2>2. IsFiniteSet(is)
    BY <2>1, FS_Subset
  <2> QED
    BY <1>1, <1>2, <2>1, <2>2 DEF Positions
<1>4. m \in Nat
  BY <1>3, OrderedIs
<1>5. PICK f \in [1 .. m -> is] :
        /\ Ordered(changes, is) = [n \in 1 .. m |-> changes[f[n]]]
        /\ \A a, b \in 1 .. m : a < b => Earlier(changes, f[a], f[b])
        /\ \A i \in is : \E a \in 1 .. m : f[a] = i
        /\ \A n \in 1 .. m : Rank(changes, is, f[n]) = n - 1
  BY <1>3, OrderedIs
<1>6. ts = [n \in 1 .. m |-> changes[f[n]]]
  BY <1>5
<1> HIDE DEF ts, m
<1>7. \A n \in 1 .. m : f[n] \in is /\ f[n] \in DOMAIN changes /\ ts[n] = changes[f[n]] /\ ts[n] \in Changes
  BY <1>1, <1>5, <1>6
<1>8. DOMAIN ts = 1 .. m /\ Len(ts) = m
  <2>1. ts \in [1 .. m -> Changes]
    BY <1>6, <1>7
  <2>2. ts \in Seq(Changes) /\ DOMAIN ts = 1 .. m
    BY <1>4, <2>1
  <2> QED
    BY <1>4, <2>2
<1>9. \A n \in 1 .. m : ts[n].time \in Nat
  BY <1>2, <1>7
<1>10. ASSUME NEW a \in 1 .. m, NEW b \in 1 .. m, a <= b PROVE ts[a].time <= ts[b].time
  <2>1. a < b => ts[a].time <= ts[b].time
    <3>1. ASSUME a < b PROVE Earlier(changes, f[a], f[b])
      BY <1>5, <3>1
    <3> QED
      BY <1>7, <1>9, <3>1 DEF Earlier
  <2>2. a = b \/ a < b
    BY <1>4, <1>10
  <2> QED
    BY <1>9, <2>1, <2>2
<1>11. Lists(is, ts, f)
  BY <1>4, <1>5, <1>7, <1>8, <1>9, <1>10 DEF Lists
<1> QED
  BY <1>3, <1>11 DEF ts

\* The waves of some cuts share nothing and lose nothing.
Partitioned(ts, cuts) ==
  /\ UNION {{ts[n] : n \in w} : w \in Split(ts, cuts)} = {ts[n] : n \in DOMAIN ts}
  /\ \A v, w \in {{ts[n] : n \in p} : p \in Split(ts, cuts)} : v # w => v \cap w = {}

\* That is so when the cuts separate different changes only.
LEMMA WavesPartition ==
  ASSUME NEW ts, Len(ts) \in Nat, DOMAIN ts = 1 .. Len(ts), NEW cuts, cuts \subseteq Inner(ts),
         \A m, n \in DOMAIN ts : ts[m] = ts[n] => Uncut(cuts, m, n)
  PROVE  Partitioned(ts, cuts)
<1> DEFINE W(p) == {ts[n] : n \in p}
<1>1. /\ \A w \in Split(ts, cuts) : w # {} /\ w \subseteq DOMAIN ts
      /\ \A n \in DOMAIN ts : \E w \in Split(ts, cuts) : n \in w
      /\ \A w \in Split(ts, cuts) : \A m \in w, n \in DOMAIN ts : n \in w <=> Uncut(cuts, m, n)
  BY SplitBlocks
<1>2. UNION {W(p) : p \in Split(ts, cuts)} = {ts[n] : n \in DOMAIN ts}
  BY <1>1
<1>3. ASSUME NEW p \in Split(ts, cuts), NEW q \in Split(ts, cuts), W(p) \cap W(q) # {}
      PROVE  p = q
  <2>1. PICK m \in p, n \in q : ts[m] = ts[n]
    BY <1>3
  <2>2. m \in DOMAIN ts /\ n \in DOMAIN ts /\ n \in p
    BY <1>1, <2>1
  <2>3. \A z \in DOMAIN ts : z \in p <=> z \in q
    BY <1>1, <2>1, <2>2
  <2> QED
    BY <1>1, <2>3
<1> QED
  BY <1>2, <1>3 DEF Partitioned

\* Changes of one time are not cut apart by either rule.
LEMMA GapsCut ==
  ASSUME NEW is, NEW ts, NEW f, Lists(is, ts, f), NEW m \in DOMAIN ts, NEW n \in DOMAIN ts,
         ts[m].time = ts[n].time
  PROVE  /\ Uncut({x \in Inner(ts) : Gap(ts, x) > MaxGap * Second}, m, n)
         /\ Uncut({x \in Inner(ts) : Seconds(Gap(ts, x)) > MaxGap}, m, n)
<1>1. Len(ts) \in Nat /\ DOMAIN ts = 1 .. Len(ts) /\ \A x \in DOMAIN ts : ts[x].time \in Nat
  BY DEF Lists
<1>2. \A a, b \in DOMAIN ts : a <= b => ts[a].time <= ts[b].time
  BY DEF Lists
<1>3. ASSUME NEW x \in Inner(ts), (m <= x /\ x < n) \/ (n <= x /\ x < m)
      PROVE  ~(Gap(ts, x) > MaxGap * Second) /\ ~(Seconds(Gap(ts, x)) > MaxGap)
  <2>1. x \in DOMAIN ts /\ x + 1 \in DOMAIN ts /\ m \in Nat /\ n \in Nat /\ x \in Nat
    BY <1>1 DEF Inner
  <2>2. ts[x].time = ts[x + 1].time
    <3>1. CASE m <= x /\ x < n
      <4>1. ts[m].time <= ts[x].time /\ ts[x].time <= ts[x + 1].time /\ ts[x + 1].time <= ts[n].time
        BY <1>2, <2>1, <3>1
      <4> QED
        BY <1>1, <2>1, <4>1
    <3>2. CASE n <= x /\ x < m
      <4>1. ts[n].time <= ts[x].time /\ ts[x].time <= ts[x + 1].time /\ ts[x + 1].time <= ts[m].time
        BY <1>2, <2>1, <3>2
      <4> QED
        BY <1>1, <2>1, <4>1
    <3> QED
      BY <1>3, <3>1, <3>2
  <2>3. Gap(ts, x) = 0
    BY <1>1, <2>1, <2>2 DEF Gap
  <2> QED
    BY <2>3, WholeSecondsBelow
<1> QED
  BY <1>3 DEF Uncut

\* Positions that come before all the others are listed first, in the same order.
LEMMA PrefixIsListed ==
  ASSUME NEW is, NEW js, js \subseteq is, Positions(changes, is), Positions(changes, js),
         \A j \in js, i \in is : Earlier(changes, i, j) => i \in js,
         NEW ts, NEW f, Lists(is, ts, f), NEW us, NEW h, Lists(js, us, h)
  PROVE  /\ \A n \in DOMAIN us : n \in DOMAIN ts /\ us[n] = ts[n]
         /\ \A n \in DOMAIN ts : f[n] \in js => n \in DOMAIN us
<1>1. /\ Len(ts) \in Nat /\ DOMAIN ts = 1 .. Len(ts)
      /\ Len(us) \in Nat /\ DOMAIN us = 1 .. Len(us)
  BY DEF Lists
<1>2. ASSUME NEW j \in js PROVE Rank(changes, is, j) = Rank(changes, js, j)
  <2>1. {i \in is : Earlier(changes, i, j)} = {i \in js : Earlier(changes, i, j)}
    OBVIOUS
  <2> QED
    BY <2>1 DEF Rank
<1>3. ASSUME NEW j \in js, NEW n \in DOMAIN us, h[n] = j
      PROVE  n \in DOMAIN ts /\ f[n] = j
  <2>1. PICK m \in DOMAIN ts : f[m] = j
    BY <1>3 DEF Lists
  <2>2. m - 1 = n - 1
    BY <1>2, <1>3, <2>1 DEF Lists
  <2>3. m = n
    BY <1>1, <2>1, <2>2
  <2> QED
    BY <2>1, <2>3
<1>4. \A n \in DOMAIN us : h[n] \in js /\ us[n] = changes[h[n]]
  BY DEF Lists
<1>5. \A n \in DOMAIN us : n \in DOMAIN ts /\ us[n] = ts[n]
  BY <1>3, <1>4 DEF Lists
<1>6. ASSUME NEW n \in DOMAIN ts, f[n] \in js PROVE n \in DOMAIN us
  <2>1. PICK m \in DOMAIN us : h[m] = f[n]
    BY <1>6 DEF Lists
  <2>2. m - 1 = n - 1
    BY <1>2, <1>6, <2>1 DEF Lists
  <2>3. m = n
    BY <1>1, <2>1, <2>2
  <2> QED
    BY <2>1, <2>3
<1> QED
  BY <1>5, <1>6

\* For any changes and limits, the waves of waves.rs and those of lifecycle.rs lose and
\* repeat no change, and those cut to the fraction of a second refine those cut in
\* whole seconds (detect_waves against derive_semantic_waves).
THEOREM WavesAgree == Spec => []WavesRefine
<1>1. ASSUME Inv PROVE WavesRefine
  <2> DEFINE all == DOMAIN changes
             event == {i \in DOMAIN changes : changes[i].phase = "Event"}
             ts == Ordered(changes, all)
             us == Ordered(changes, event)
             fine == {x \in Inner(ts) : Gap(ts, x) > MaxGap * Second}
             coarse == {x \in Inner(us) : Seconds(Gap(us, x)) > MaxGap}
             impact == {{ts[n] : n \in w} : w \in Split(ts, fine)}
             semantic == {{us[n] : n \in w} : w \in Split(us, coarse)}
             events == {changes[n] : n \in event}
  <2>1. detect_waves(changes) = impact
    BY DEF detect_waves, ImpactOrder, Sorted
  <2>2. derive_semantic_waves(changes) = semantic
    BY DEF derive_semantic_waves
  <2>3. fine \subseteq Inner(ts) /\ coarse \subseteq Inner(us) /\ event \subseteq all
    OBVIOUS
  <2>4. Positions(changes, all) /\ \E f : Lists(all, ts, f)
    BY <1>1, OrderedLists
  <2>5. Positions(changes, event) /\ \E h : Lists(event, us, h)
    <3> HIDE DEF event
    <3> QED BY <1>1, <2>3, OrderedLists
  <2>6. PICK f : Lists(all, ts, f)
    BY <2>4
  <2>7. PICK h : Lists(event, us, h)
    BY <2>5
  <2>8. /\ \A m, n \in DOMAIN ts : ts[m] = ts[n] => Uncut(fine, m, n)
        /\ \A m, n \in DOMAIN us : us[m] = us[n] => Uncut(coarse, m, n)
    <3> HIDE DEF ts, us, all, event
    <3> QED BY <2>6, <2>7, GapsCut
  <2>9. \A j \in event, i \in all : Earlier(changes, i, j) => i \in event
    <3> SUFFICES ASSUME NEW j \in event, NEW i \in all, Earlier(changes, i, j)
                 PROVE  changes[i].phase = "Event"
      OBVIOUS
    <3>1. /\ changes[i].time \in Nat /\ changes[j].time \in Nat
      BY <2>4 DEF Positions
    <3>2. changes[j].phase = Phase(changes[j].time) /\ changes[i].phase = Phase(changes[i].time)
      BY <1>1 DEF Inv, ChangesInWindow
    <3>3. changes[j].time <= EventEnd
      BY <3>2 DEF Phase
    <3>4. changes[i].time <= changes[j].time
      BY <3>1 DEF Earlier
    <3>5. EventEnd \in Nat
      BY WindowOrdered
    <3>6. changes[i].time <= EventEnd
      BY <3>1, <3>3, <3>4, <3>5
    <3> QED
      BY <3>2, <3>6 DEF Phase
  <2> HIDE DEF ts, us, fine, coarse
  <2>10. /\ Len(ts) \in Nat /\ DOMAIN ts = 1 .. Len(ts)
         /\ Len(us) \in Nat /\ DOMAIN us = 1 .. Len(us)
    BY <2>6, <2>7 DEF Lists
  <2>11. UNION impact = {ts[n] : n \in DOMAIN ts}
    <3>1. Partitioned(ts, fine)
      BY <2>3, <2>8, <2>10, WavesPartition
    <3> QED
      BY <3>1 DEF Partitioned
  <2>12. /\ UNION semantic = {us[n] : n \in DOMAIN us}
         /\ \A v, w \in semantic : v # w => v \cap w = {}
    <3>1. Partitioned(us, coarse)
      BY <2>3, <2>8, <2>10, WavesPartition
    <3> QED
      BY <3>1 DEF Partitioned
  <2>13. {ts[n] : n \in DOMAIN ts} = {changes[n] : n \in DOMAIN changes}
    BY <2>6 DEF Lists
  <2>14. {us[n] : n \in DOMAIN us} = events
    <3> HIDE DEF event
    <3> QED BY <2>7 DEF Lists
  <2>15. /\ \A n \in DOMAIN us : n \in DOMAIN ts /\ us[n] = ts[n]
         /\ \A n \in DOMAIN ts : f[n] \in event => n \in DOMAIN us
    <3> HIDE DEF event, all
    <3> QED BY <2>3, <2>4, <2>5, <2>6, <2>7, <2>9, PrefixIsListed
  <2>16. ASSUME NEW v \in impact, v \cap events # {}
         PROVE  \E w \in semantic : v \cap events \subseteq w
    <3>1. PICK p \in Split(ts, fine) : v = {ts[n] : n \in p}
      BY <2>16
    <3>2. /\ p \subseteq DOMAIN ts
          /\ \A m \in p, n \in DOMAIN ts : n \in p <=> Uncut(fine, m, n)
      BY <2>3, <2>10, SplitBlocks
    <3>3. \A c \in v \cap events : \E n \in p : n \in DOMAIN us /\ c = ts[n]
      <4> SUFFICES ASSUME NEW c \in v \cap events PROVE \E n \in p : n \in DOMAIN us /\ c = ts[n]
        OBVIOUS
      <4>1. PICK n \in p : c = ts[n]
        BY <3>1
      <4>2. c.phase = "Event"
        OBVIOUS
      <4>3. f[n] \in event
        BY <2>6, <3>2, <4>1, <4>2 DEF Lists
      <4> QED
        BY <2>15, <3>2, <4>1, <4>3
    <3>4. PICK n \in p : n \in DOMAIN us
      BY <2>16, <3>3
    <3>5. PICK q \in Split(us, coarse) : n \in q
      BY <2>3, <2>10, <3>4, SplitBlocks, SMTT(60)
    <3>6. \A z \in DOMAIN us : z \in q <=> Uncut(coarse, n, z)
      BY <2>3, <2>10, <3>5, SplitBlocks
    <3>7. ASSUME NEW z \in p, z \in DOMAIN us PROVE Uncut(coarse, n, z)
      <4> SUFFICES ASSUME NEW x \in coarse, (n <= x /\ x < z) \/ (z <= x /\ x < n) PROVE FALSE
        BY DEF Uncut
      <4>1. x \in DOMAIN us /\ x + 1 \in DOMAIN us /\ Seconds(Gap(us, x)) > MaxGap
        BY <2>10 DEF coarse, Inner
      <4>2. x \in DOMAIN ts /\ x + 1 \in DOMAIN ts /\ us[x] = ts[x] /\ us[x + 1] = ts[x + 1]
        BY <2>15, <4>1
      <4>3. Gap(us, x) = Gap(ts, x)
        BY <4>2 DEF Gap
      <4>4. Gap(ts, x) \in Nat
        <5>1. ts[x].time \in Nat /\ ts[x + 1].time \in Nat /\ x \in Nat
          BY <2>6, <2>10, <4>2 DEF Lists
        <5>2. \A a, b \in DOMAIN ts : a <= b => ts[a].time <= ts[b].time
          BY <2>6 DEF Lists
        <5>3. x <= x + 1
          BY <5>1
        <5>4. ts[x].time <= ts[x + 1].time
          BY <4>2, <5>2, <5>3
        <5> QED
          BY <5>1, <5>4 DEF Gap
      <4>5. Gap(ts, x) > MaxGap * Second
        BY <4>1, <4>3, <4>4, WholeSecondsBelow
      <4>6. x \in fine
        BY <2>10, <4>2, <4>5 DEF fine, Inner
      <4>7. Uncut(fine, n, z)
        BY <3>2, <3>7
      <4> QED
        BY <4>6, <4>7 DEF Uncut
    <3>8. \A z \in p : z \in DOMAIN us => ts[z] \in {us[y] : y \in q}
      BY <2>15, <3>6, <3>7
    <3>9. v \cap events \subseteq {us[y] : y \in q}
      BY <3>3, <3>8
    <3> QED
      BY <3>9
  <2> QED
    BY <2>1, <2>2, <2>11, <2>12, <2>13, <2>14, <2>16 DEF WavesRefine
<1>2. Inv => WavesRefine
  BY <1>1
<1> QED
  BY <1>2, ReconstructionIsSound, PTL

-----------------------------------------------------------------------------
(* The absences of a stream                                                *)

\* The partial sums of a sequence.
LEMMA TotalSums ==
  ASSUME NEW q, Len(q) \in Nat
  PROVE  \E g : /\ g[0] = 0 /\ Total(q) = g[Len(q)]
                /\ \A n \in 1 .. Len(q) : g[n] = g[n - 1] + q[n]
<1> DEFINE N == Len(q)
           Upto(m, g) == g = [n \in 0 .. m |-> IF n = 0 THEN 0 ELSE g[n - 1] + q[n]]
           bad == {m \in 0 .. N : ~ \E g : Upto(m, g)}
<1>1. N \in Nat
  OBVIOUS
<1>2. Total(q) = (CHOOSE g : Upto(N, g))[N]
  BY DEF Total
<1> HIDE DEF N
<1>3. Upto(0, [n \in 0 .. 0 |-> 0])
  OBVIOUS
<1>4. bad = {}
  <2> SUFFICES ASSUME bad # {} PROVE FALSE
    OBVIOUS
  <2>1. bad \subseteq Nat
    BY <1>1
  <2>2. PICK m \in bad : \A y \in bad : m <= y
    <3> HIDE DEF bad
    <3> QED BY <2>1, LeastOf
  <2>3. m \in 0 .. N /\ m # 0
    BY <1>3
  <2>4. m - 1 \in 0 .. N /\ m - 1 \notin bad
    BY <1>1, <2>2, <2>3
  <2>5. PICK g : Upto(m - 1, g)
    BY <2>4
  <2> DEFINE h == [n \in 0 .. m |-> IF n <= m - 1 THEN g[n] ELSE g[m - 1] + q[m]]
  <2>6. ASSUME NEW n \in 0 .. m
        PROVE  h[n] = IF n = 0 THEN 0 ELSE h[n - 1] + q[n]
    <3>1. CASE n <= m - 1
      <4>1. n \in 0 .. (m - 1) /\ h[n] = g[n] /\ (n # 0 => h[n - 1] = g[n - 1])
        BY <1>1, <2>3, <2>6, <3>1
      <4>2. g[n] = IF n = 0 THEN 0 ELSE g[n - 1] + q[n]
        BY <2>5, <4>1
      <4> QED
        BY <4>1, <4>2
    <3>2. CASE n = m
      <4>1. h[n] = g[m - 1] + q[m] /\ h[n - 1] = g[m - 1] /\ n # 0
        BY <1>1, <2>3, <3>2
      <4> QED
        BY <3>2, <4>1
    <3> QED
      BY <1>1, <2>3, <3>1, <3>2
  <2>7. h = [n \in 0 .. m |-> IF n = 0 THEN 0 ELSE h[n - 1] + q[n]]
    <3>1. h = [n \in 0 .. m |-> h[n]]
      OBVIOUS
    <3> HIDE DEF h
    <3> QED
      BY <2>6, <3>1
  <2>8. Upto(m, h)
    <3> HIDE DEF h
    <3> QED
      BY <2>7
  <2> QED
    BY <2>8
<1>5. N \in 0 .. N /\ N \notin bad
  BY <1>1, <1>4
<1>6. PICK g : g = CHOOSE x : Upto(N, x)
  OBVIOUS
<1>7. Upto(N, g)
  BY <1>5, <1>6
<1>8. g[0] = 0 /\ \A n \in 1 .. N : g[n] = g[n - 1] + q[n]
  BY <1>1, <1>7
<1> QED
  BY <1>2, <1>6, <1>8 DEF N

\* One more element adds to the sum.
LEMMA TotalGrows ==
  ASSUME NEW q \in Seq(Nat), NEW x \in Nat
  PROVE  /\ Total(q) \in Nat
         /\ Total(Append(q, x)) = Total(q) + x
<1>1. Len(q) \in Nat /\ Len(Append(q, x)) = Len(q) + 1 /\ Append(q, x)[Len(q) + 1] = x
  OBVIOUS
<1>2. \A n \in 1 .. Len(q) : q[n] \in Nat /\ Append(q, x)[n] = q[n]
  OBVIOUS
<1>3. PICK g : /\ g[0] = 0 /\ Total(q) = g[Len(q)]
               /\ \A n \in 1 .. Len(q) : g[n] = g[n - 1] + q[n]
  BY <1>1, TotalSums
<1>4. PICK h : /\ h[0] = 0 /\ Total(Append(q, x)) = h[Len(q) + 1]
               /\ \A n \in 1 .. (Len(q) + 1) : h[n] = h[n - 1] + Append(q, x)[n]
  <2>1. PICK r : r = Append(q, x)
    OBVIOUS
  <2>2. Len(r) \in Nat /\ Len(r) = Len(q) + 1
    BY <1>1, <2>1
  <2>3. \E h : /\ h[0] = 0 /\ Total(r) = h[Len(r)]
               /\ \A n \in 1 .. Len(r) : h[n] = h[n - 1] + r[n]
    BY <2>2, TotalSums
  <2> QED
    BY <2>1, <2>2, <2>3
<1> DEFINE bad == {n \in 0 .. Len(q) : ~(g[n] \in Nat /\ g[n] = h[n])}
<1>5. bad = {}
  <2> SUFFICES ASSUME bad # {} PROVE FALSE
    OBVIOUS
  <2>1. bad \subseteq Nat
    BY <1>1
  <2>2. PICK m \in bad : \A y \in bad : m <= y
    <3> HIDE DEF bad
    <3> QED BY <2>1, LeastOf
  <2>3. m \in 1 .. Len(q) /\ m - 1 \in 0 .. Len(q)
    BY <1>1, <1>3, <1>4, <2>2
  <2>4. m - 1 \notin bad
    BY <1>1, <2>2, <2>3
  <2>5. g[m - 1] \in Nat /\ g[m - 1] = h[m - 1]
    BY <2>3, <2>4
  <2>6. g[m] = g[m - 1] + q[m] /\ h[m] = h[m - 1] + q[m] /\ q[m] \in Nat
    BY <1>1, <1>2, <1>3, <1>4, <2>3
  <2>7. g[m] \in Nat /\ g[m] = h[m]
    BY <2>5, <2>6
  <2> QED
    BY <2>2, <2>7
<1>6. g[Len(q)] \in Nat /\ g[Len(q)] = h[Len(q)]
  BY <1>1, <1>5
<1>7. h[Len(q) + 1] = h[Len(q)] + x
  <2>1. Len(q) + 1 \in 1 .. (Len(q) + 1) /\ (Len(q) + 1) - 1 = Len(q)
    BY <1>1
  <2> QED
    BY <1>1, <1>4, <2>1
<1> QED
  BY <1>3, <1>4, <1>6, <1>7

LEMMA NothingAddsUp == Total(<< >>) = 0
<1>1. PICK q : q = << >> /\ Len(q) = 0
  OBVIOUS
<1>2. Total(q) = 0
  BY <1>1, TotalSums
<1> QED
  BY <1>1, <1>2

\* The seconds of two intervals are within those of both together.
LEMMA SecondsAdd ==
  ASSUME NEW a \in Nat, NEW b \in Nat
  PROVE  Seconds(a) \in Nat /\ Seconds(b) \in Nat /\ Seconds(a + b) \in Nat
         /\ Seconds(a) + Seconds(b) <= Seconds(a + b)
<1> DEFINE p == a \div Second
           q == b \div Second
           r == (a + b) \div Second
<1>1. Second \in Nat /\ Second > 0
  BY SecondPositive
<1>2. p \in Nat /\ q \in Nat /\ r \in Nat
  BY <1>1
<1>3. Second * p <= a /\ Second * q <= b /\ a + b < Second * r + Second
  BY <1>1
<1> HIDE DEF p, q, r
<1>4. p + q <= r
  <2> SUFFICES ASSUME p + q > r PROVE FALSE
    BY <1>2
  <2>1. PICK e \in Nat : p + q = (r + 1) + e
    BY <1>2
  <2>2. Second * (p + q) = Second * r + Second + Second * e
    BY <1>1, <1>2, <2>1
  <2>3. Second * (p + q) = Second * p + Second * q
    BY <1>1, <1>2
  <2>4. Second * e \in Nat /\ Second * r \in Nat /\ Second * p \in Nat /\ Second * q \in Nat
    BY <1>1, <1>2, <2>1
  <2> QED
    BY <1>1, <1>3, <2>2, <2>3, <2>4
<1> QED
  BY <1>2, <1>4 DEF Seconds, p, q, r

\* A change of a stream that no update before the event touched starts from the route
\* the replay holds.
LEMMA ReplayHoldsBefore ==
  ASSUME PathsArePresent, Inv, NEW s \in Streams, Quiet(s), NEW ts, NEW f, NEW g,
         Enumerates(s, ts, f), Replay(s, ts, g), NEW n \in 1 .. Len(ts)
  PROVE  /\ ts[n].key[2] \in PathIds /\ g[n - 1].active \in [PathIds -> RouteOrNone]
         /\ g[n - 1].active[ts[n].key[2]] = ts[n].before
<1>1. /\ Len(changes) \in Nat /\ DOMAIN changes = 1 .. Len(changes)
      /\ \A j \in DOMAIN changes : changes[j] \in Changes /\ changes[j].key \in Keys
  BY ChangeTypes DEF Inv, Chained
<1>2. ChangesOf(s, ts) /\ Len(ts) \in Nat /\ n - 1 \in 0 .. Len(ts) /\ n \in Nat
  BY DEF Enumerates, ChangesOf
<1>3. PICK k \in Keys : k = ts[n].key /\ k[1] = s /\ k[2] \in PathIds /\ k = <<s, k[2]>>
  BY <1>2 DEF ChangesOf, Changes, Keys
<1>4. PICK i \in PathIds : i = k[2]
  BY <1>3
<1>5. /\ g[n - 1].active \in [PathIds -> RouteOrNone]
      /\ LastOf(s, ts, n - 1, i, g[n - 1].active[i])
  <2>1. TypeOK
    BY DEF Inv, Chained
  <2> QED
    BY <1>2, <2>1, ReplayHolds
<1>6. PICK j \in DOMAIN changes : j = f[n] /\ changes[j] = ts[n] /\ changes[j].key = k
  BY <1>3 DEF Enumerates
<1>7. \A b \in 1 .. Len(ts) : (ts[b].key[2] = i) <=> ts[b].key = k
  BY <1>2, <1>3, <1>4 DEF ChangesOf, Changes, Keys
<1>8. \A y \in DOMAIN changes : changes[y].key = k => \E d \in 1 .. Len(ts) : f[d] = y /\ ts[d].key = k
  BY <1>3 DEF Enumerates
<1>9. \A a, b \in 1 .. Len(ts) : a < b /\ ts[a].key = k /\ ts[b].key = k => f[a] < f[b]
  BY DEF Enumerates
<1>10. \A y \in DOMAIN changes : changes[y].key = k /\ y < j => \E d \in 1 .. (n - 1) : f[d] = y /\ ts[d].key = k
  <2> SUFFICES ASSUME NEW y \in DOMAIN changes, changes[y].key = k, y < j
               PROVE  \E d \in 1 .. (n - 1) : f[d] = y /\ ts[d].key = k
    OBVIOUS
  <2>1. PICK d \in 1 .. Len(ts) : f[d] = y /\ ts[d].key = k
    BY <1>8
  <2>2. y \in Nat /\ j \in Nat
    BY <1>1
  <2>3. d # n /\ ~(n < d)
    BY <1>3, <1>6, <1>9, <2>1, <2>2
  <2>4. d \in 1 .. (n - 1)
    BY <1>2, <2>1, <2>3
  <2> QED
    BY <2>1, <2>4
<1>11. CASE (\A b \in 1 .. (n - 1) : ts[b].key[2] # i) /\ g[n - 1].active[i] = rib[<<s, i>>]
  <2>1. FirstOfKey(j)
    <3> SUFFICES ASSUME NEW y \in 1 .. (j - 1), changes[y].key = k PROVE FALSE
      BY <1>6 DEF FirstOfKey
    <3>1. y \in DOMAIN changes /\ y < j
      BY <1>1
    <3>2. PICK d \in 1 .. (n - 1) : ts[d].key = k
      BY <1>10, <3>1
    <3>3. d \in 1 .. Len(ts)
      BY <1>2
    <3> QED
      BY <1>7, <1>11, <3>2, <3>3
  <2>2. k \notin warmed
    BY <1>3, <1>4 DEF Quiet
  <2>3. changes[j].before = rib[k]
    BY <1>6, <2>1, <2>2 DEF Inv, StartsFromRib
  <2>4. g[n - 1].active[i] = ts[n].before
    BY <1>3, <1>4, <1>6, <1>11, <2>3
  <2> QED
    BY <1>3, <1>4, <1>5, <2>4
<1>12. ASSUME NEW b \in 1 .. (n - 1), ts[b].key[2] = i, g[n - 1].active[i] = ts[b].after,
              \A d \in (b + 1) .. (n - 1) : ts[d].key[2] # i
       PROVE  g[n - 1].active[i] = ts[n].before
  <2>1. b \in 1 .. Len(ts) /\ b < n /\ ts[b].key = k
    BY <1>2, <1>7, <1>12
  <2>2. PICK x \in DOMAIN changes : x = f[b] /\ changes[x] = ts[b] /\ x < j
    BY <1>3, <1>6, <1>9, <2>1 DEF Enumerates
  <2>3. Adjacent(k, x, j)
    <3> SUFFICES ASSUME NEW y \in (x + 1) .. (j - 1), changes[y].key = k PROVE FALSE
      BY DEF Adjacent
    <3>1. y \in DOMAIN changes /\ y < j /\ x < y /\ x \in Nat /\ y \in Nat
      BY <1>1
    <3>2. PICK d \in 1 .. (n - 1) : f[d] = y /\ ts[d].key = k
      BY <1>10, <3>1
    <3>3. d \in 1 .. Len(ts) /\ d \in Nat /\ b \in Nat
      BY <1>2
    <3>4. ~(b < d)
      BY <1>2, <1>7, <1>12, <3>2, <3>3
    <3>5. d # b /\ ~(d < b)
      BY <1>9, <2>1, <2>2, <3>1, <3>2, <3>3
    <3> QED
      BY <3>3, <3>4, <3>5
  <2>4. x \in 1 .. (j - 1)
    BY <1>1, <2>2
  <2>5. changes[x].after = changes[j].before
    BY <1>6, <2>1, <2>2, <2>3, <2>4 DEF Inv, Chained, ChangesChain
  <2> QED
    BY <1>6, <1>12, <2>2, <2>5
<1>13. CASE \E b \in 1 .. (n - 1) :
              /\ ts[b].key[2] = i /\ g[n - 1].active[i] = ts[b].after
              /\ \A d \in (b + 1) .. (n - 1) : ts[d].key[2] # i
  <2>1. g[n - 1].active[i] = ts[n].before
    BY <1>12, <1>13
  <2> QED
    BY <1>3, <1>4, <1>5, <2>1
<1> QED
  BY <1>5, <1>11, <1>13 DEF LastOf

Returns == [time : Nat, exact : BOOLEAN, equivalent : BOOLEAN, baseline_set : BOOLEAN]

LEMMA RestorationIsReturn ==
  ASSUME NEW s, NEW t, t.time \in Nat, NEW history, NEW active
  PROVE  Restoration(s, t, history, active) \in Returns
         /\ Restoration(s, t, history, active).time = t.time
<1>1. PICK r : r = Restoration(s, t, history, active)
  OBVIOUS
<1>2. \E e, q, b \in BOOLEAN : r = [time |-> t.time, exact |-> e, equivalent |-> q, baseline_set |-> b]
  BY <1>1, Zenon DEF Restoration
<1>3. r \in Returns /\ r.time = t.time
  BY <1>2 DEF Returns
<1> QED
  BY <1>1, <1>3

\* What a change does to the absences of a lifecycle: none while the stream stays, the
\* start of one when it goes, its end when it comes back.
Kept(c, d) ==
  /\ d.absent_since = c.absent_since /\ d.withdrawn_at = c.withdrawn_at
  /\ d.withdrawals = c.withdrawals
  /\ d.absences = c.absences /\ d.restorations = c.restorations

Goes(c, t, d) ==
  /\ c.absent_since = Never => d.absent_since = t.time
  /\ d.withdrawn_at = t.time /\ d.withdrawals = c.withdrawals + 1
  /\ d.absences = c.absences /\ d.restorations = c.restorations

Returning(c, t, d) ==
  /\ d.absent_since = Never /\ d.withdrawn_at = c.withdrawn_at /\ d.withdrawals = c.withdrawals
  /\ c.absent_since # Never /\ Seconds(t.time - c.absent_since) > 0
       => d.absences = Append(c.absences, Seconds(t.time - c.absent_since))
  /\ c.absent_since # Never /\ ~(Seconds(t.time - c.absent_since) > 0)
       => d.absences = c.absences
  /\ \E r \in Returns : r.time = t.time /\ d.restorations = Append(c.restorations, r)

LEMMA StepMoves ==
  ASSUME PathsArePresent, NEW s, NEW c, NEW t \in Changes, NEW d,
         d = Step(s, c, t, Kind(t, Absent)), c.active \in [PathIds -> RouteOrNone],
         c.active[t.key[2]] = t.before, t.before # t.after
  PROVE  /\ Visible(c.active) /\ Visible(d.active) => Kept(c, d)
         /\ Visible(c.active) /\ ~Visible(d.active) => Goes(c, t, d)
         /\ ~Visible(c.active) => Visible(d.active) /\ Returning(c, t, d)
<1>1. PICK kind : kind = Kind(t, Absent)
  OBVIOUS
<1>2. (kind = "Withdrawal") <=> t.after = Absent
  BY <1>1, WithdrawalLeavesNone
<1>3. PICK active : active = Held(c.active, t, kind = "Withdrawal")
  OBVIOUS
<1>4. active = [c.active EXCEPT ![t.key[2]] = t.after]
  BY <1>2, <1>3 DEF Held
<1>5. PICK shape : shape = PathShape(t, kind)
  OBVIOUS
<1>6. PICK history : history = History(c, t, kind = "Withdrawal")
  OBVIOUS
<1>7. d = After(s, c, t, kind, shape, active, history)
  BY <1>1, <1>3, <1>5, <1>6 DEF Step
<1>8. t.key[2] \in PathIds /\ t.time \in Nat
  BY WindowOrdered DEF Changes, Keys
<1>9. ~Visible(active) => t.after = Absent
  BY <1>4, <1>8 DEF Visible
<1>10. ~Visible(c.active) => Visible(active)
  BY <1>4, <1>8 DEF Visible
<1>11. Lost(active, kind = "Withdrawal") <=> ~Visible(active)
  BY <1>2, <1>9 DEF Lost
<1>12. /\ d.active = active
       /\ d.withdrawals = IF Lost(active, kind = "Withdrawal") THEN c.withdrawals + 1 ELSE c.withdrawals
       /\ d.withdrawn_at = IF Lost(active, kind = "Withdrawal") THEN t.time ELSE c.withdrawn_at
       /\ d.restorations = IF ~Visible(c.active) /\ Visible(active)
                           THEN Append(c.restorations, Restoration(s, t, history, active))
                           ELSE c.restorations
  BY <1>7 DEF After
<1>13. d.absent_since = AbsentSince(c, Lost(active, kind = "Withdrawal"),
                                    ~Visible(c.active) /\ Visible(active), t)
  BY <1>7 DEF After
<1>14. d.absences = IF (~Visible(c.active) /\ Visible(active))
                         /\ c.absent_since # Never /\ Seconds(t.time - c.absent_since) > 0
                    THEN Append(c.absences, Seconds(t.time - c.absent_since)) ELSE c.absences
  BY <1>7 DEF After
<1>15. /\ ~Visible(c.active) /\ Visible(active) => d.absent_since = Never
       /\ Visible(c.active) /\ Visible(active) => d.absent_since = c.absent_since
       /\ Visible(c.active) /\ ~Visible(active) /\ c.absent_since = Never => d.absent_since = t.time
  BY <1>11, <1>13 DEF AbsentSince, OrFirst
<1>16. ASSUME Visible(c.active), Visible(d.active) PROVE Kept(c, d)
  BY <1>11, <1>12, <1>14, <1>15, <1>16 DEF Kept
<1>17. ASSUME Visible(c.active), ~Visible(d.active) PROVE Goes(c, t, d)
  BY <1>11, <1>12, <1>14, <1>15, <1>17 DEF Goes
<1>18. ASSUME ~Visible(c.active) PROVE Visible(d.active) /\ Returning(c, t, d)
  <2>1. Visible(active) /\ Visible(d.active)
    BY <1>10, <1>12, <1>18
  <2>2. PICK r \in Returns : r.time = t.time /\ r = Restoration(s, t, history, active)
    BY <1>8, RestorationIsReturn
  <2>3. d.restorations = Append(c.restorations, r)
    BY <1>12, <1>18, <2>1, <2>2
  <2> QED
    BY <1>11, <1>12, <1>14, <1>15, <1>18, <2>1, <2>2, <2>3 DEF Returning
<1> QED
  BY <1>16, <1>17, <1>18

\* The account of the losses and returns of a stream up to some time: they alternate,
\* and the absences so far fit between the event start and that time.
Account(c, now) ==
  /\ now \in Nat /\ EventStart <= now /\ now <= CooldownEnd
  /\ c.withdrawals \in Nat /\ c.restorations \in Seq(Returns) /\ c.absences \in Seq(Nat \ {0})
  /\ Len(c.absences) <= Len(c.restorations)
  /\ Visible(c.active) =>
       /\ c.absent_since = Never /\ c.withdrawals = Len(c.restorations)
       /\ Total(c.absences) <= Seconds(now - EventStart)
  /\ ~Visible(c.active) =>
       /\ c.absent_since \in Nat /\ c.withdrawals = Len(c.restorations) + 1
       /\ c.withdrawn_at = c.absent_since
       /\ EventStart <= c.absent_since /\ c.absent_since <= now
       /\ Total(c.absences) <= Seconds(c.absent_since - EventStart)

\* The one absence of a stream that was lost once.
OneAbsence(c) ==
  c.withdrawals = 1 /\ c.restorations # << >> =>
    /\ c.withdrawn_at \in Nat /\ c.withdrawn_at <= c.restorations[1].time
    /\ Seconds(c.restorations[1].time - c.withdrawn_at) > 0
         => c.absences = << Seconds(c.restorations[1].time - c.withdrawn_at) >>
    /\ ~(Seconds(c.restorations[1].time - c.withdrawn_at) > 0) => c.absences = << >>

\* The seconds between three times in order.
LEMMA SecondsBetween ==
  ASSUME NEW a \in Nat, NEW b \in Nat, NEW c \in Nat, a <= b, b <= c
  PROVE  /\ Seconds(b - a) \in Nat /\ Seconds(c - b) \in Nat /\ Seconds(c - a) \in Nat
         /\ Seconds(b - a) + Seconds(c - b) <= Seconds(c - a)
<1>1. PICK x \in Nat, y \in Nat : x = b - a /\ y = c - b
  OBVIOUS
<1>2. c - a = x + y
  BY <1>1
<1> QED
  BY <1>1, <1>2, SecondsAdd

\* A change carries the account on to its time.
LEMMA AccountStep ==
  ASSUME NEW c, NEW d, NEW t, NEW now, Account(c, now), OneAbsence(c),
         t.time \in Nat, now <= t.time, t.time <= CooldownEnd,
         Visible(c.active) /\ Visible(d.active) => Kept(c, d),
         Visible(c.active) /\ ~Visible(d.active) => Goes(c, t, d),
         ~Visible(c.active) => Visible(d.active) /\ Returning(c, t, d)
  PROVE  Account(d, t.time) /\ OneAbsence(d)
<1>1. /\ now \in Nat /\ EventStart \in Nat /\ CooldownEnd \in Nat /\ EventStart <= now
      /\ EventStart <= t.time
  BY WindowOrdered DEF Account
<1>2. /\ c.withdrawals \in Nat /\ c.restorations \in Seq(Returns) /\ c.absences \in Seq(Nat \ {0})
      /\ Len(c.absences) <= Len(c.restorations)
      /\ Len(c.absences) \in Nat /\ Len(c.restorations) \in Nat /\ c.absences \in Seq(Nat)
  BY DEF Account
<1>3. Total(c.absences) \in Nat
  BY <1>2, TotalGrows
<1>4. CASE Visible(c.active) /\ Visible(d.active)
  <2>1. Kept(c, d)
    BY <1>4
  <2>2. c.absent_since = Never /\ c.withdrawals = Len(c.restorations)
        /\ Total(c.absences) <= Seconds(now - EventStart)
    BY <1>4 DEF Account
  <2>3. /\ Seconds(now - EventStart) \in Nat /\ Seconds(t.time - now) \in Nat
        /\ Seconds(t.time - EventStart) \in Nat
        /\ Seconds(now - EventStart) + Seconds(t.time - now) <= Seconds(t.time - EventStart)
    BY <1>1, SecondsBetween
  <2>4. Total(c.absences) <= Seconds(t.time - EventStart)
    BY <1>3, <2>2, <2>3
  <2>5. Account(d, t.time)
    BY <1>1, <1>2, <1>4, <2>1, <2>2, <2>4 DEF Account, Kept
  <2>6. OneAbsence(d)
    BY <2>1 DEF OneAbsence, Kept
  <2> QED
    BY <2>5, <2>6
<1>5. CASE Visible(c.active) /\ ~Visible(d.active)
  <2>1. Goes(c, t, d)
    BY <1>5
  <2>2. c.absent_since = Never /\ c.withdrawals = Len(c.restorations)
        /\ Total(c.absences) <= Seconds(now - EventStart)
    BY <1>5 DEF Account
  <2>3. /\ Seconds(now - EventStart) \in Nat /\ Seconds(t.time - now) \in Nat
        /\ Seconds(t.time - EventStart) \in Nat
        /\ Seconds(now - EventStart) + Seconds(t.time - now) <= Seconds(t.time - EventStart)
    BY <1>1, SecondsBetween
  <2>4. Total(c.absences) <= Seconds(t.time - EventStart)
    BY <1>3, <2>2, <2>3
  <2>5. /\ d.absent_since = t.time /\ d.withdrawn_at = t.time /\ d.withdrawals = c.withdrawals + 1
        /\ d.absences = c.absences /\ d.restorations = c.restorations
    BY <2>1, <2>2 DEF Goes
  <2>6. Account(d, t.time)
    BY <1>1, <1>2, <1>5, <2>2, <2>4, <2>5 DEF Account
  <2>7. d.withdrawals = 1 => d.restorations = << >>
    BY <1>2, <2>2, <2>5
  <2>8. OneAbsence(d)
    BY <2>7 DEF OneAbsence
  <2> QED
    BY <2>6, <2>8
<1>6. CASE ~Visible(c.active)
  <2>1. Visible(d.active) /\ Returning(c, t, d)
    BY <1>6
  <2>2. /\ c.absent_since \in Nat /\ c.withdrawals = Len(c.restorations) + 1
        /\ c.withdrawn_at = c.absent_since
        /\ EventStart <= c.absent_since /\ c.absent_since <= now
        /\ Total(c.absences) <= Seconds(c.absent_since - EventStart)
    BY <1>6 DEF Account
  <2>3. PICK away : away = Seconds(t.time - c.absent_since)
    OBVIOUS
  <2>4. c.absent_since <= t.time
    BY <1>1, <2>2
  <2>5. /\ Seconds(c.absent_since - EventStart) \in Nat /\ away \in Nat
        /\ Seconds(t.time - EventStart) \in Nat
        /\ Seconds(c.absent_since - EventStart) + away <= Seconds(t.time - EventStart)
    BY <1>1, <2>2, <2>3, <2>4, SecondsBetween
  <2>6. c.absent_since # Never
    BY <2>2 DEF Never
  <2>7. PICK r \in Returns : r.time = t.time /\ d.restorations = Append(c.restorations, r)
    BY <2>1 DEF Returning
  <2>8. /\ d.absent_since = Never /\ d.withdrawn_at = c.withdrawn_at /\ d.withdrawals = c.withdrawals
        /\ away > 0 => d.absences = Append(c.absences, away)
        /\ ~(away > 0) => d.absences = c.absences
    BY <2>1, <2>3, <2>6 DEF Returning
  <2>9. d.restorations \in Seq(Returns) /\ Len(d.restorations) = Len(c.restorations) + 1
    BY <1>2, <2>7
  <2>10. /\ d.absences \in Seq(Nat \ {0}) /\ Len(d.absences) <= Len(c.absences) + 1
         /\ Total(d.absences) <= Total(c.absences) + away
    <3>1. CASE away > 0
      <4>1. away \in Nat \ {0}
        BY <2>5, <3>1
      <4>2. d.absences \in Seq(Nat \ {0}) /\ Len(d.absences) = Len(c.absences) + 1
        <5>1. PICK q \in Seq(Nat \ {0}) : q = c.absences
          BY <1>2
        <5>2. d.absences = Append(q, away)
          BY <2>8, <3>1, <5>1
        <5>3. Append(q, away) \in Seq(Nat \ {0}) /\ Len(Append(q, away)) = Len(q) + 1
          BY <4>1
        <5> QED
          BY <5>1, <5>2, <5>3
      <4>3. Total(d.absences) = Total(c.absences) + away
        <5>1. PICK q \in Seq(Nat) : q = c.absences
          BY <1>2
        <5>2. d.absences = Append(q, away)
          BY <2>8, <3>1, <5>1
        <5>3. Total(Append(q, away)) = Total(q) + away
          BY <2>5, TotalGrows
        <5> QED
          BY <5>1, <5>2, <5>3
      <4> QED
        BY <1>2, <1>3, <2>5, <4>2, <4>3
    <3>2. CASE ~(away > 0)
      BY <1>2, <1>3, <2>5, <2>8, <3>2
    <3> QED
      BY <3>1, <3>2
  <2>11. Total(d.absences) <= Seconds(t.time - EventStart)
    <3>1. Total(d.absences) \in Nat
      <4>1. d.absences \in Seq(Nat)
        BY <2>10
      <4> QED
        BY <4>1, TotalGrows
    <3> QED
      BY <1>3, <2>2, <2>5, <2>10, <3>1
  <2>12. Len(d.absences) <= Len(d.restorations) /\ d.withdrawals = Len(d.restorations)
    BY <1>2, <2>2, <2>8, <2>9, <2>10
  <2>13. Account(d, t.time)
    BY <1>1, <1>2, <2>1, <2>8, <2>9, <2>10, <2>11, <2>12 DEF Account
  <2>14. OneAbsence(d)
    <3> SUFFICES ASSUME d.withdrawals = 1
                 PROVE  /\ d.withdrawn_at \in Nat /\ d.withdrawn_at <= d.restorations[1].time
                        /\ Seconds(d.restorations[1].time - d.withdrawn_at) > 0
                             => d.absences = << Seconds(d.restorations[1].time - d.withdrawn_at) >>
                        /\ ~(Seconds(d.restorations[1].time - d.withdrawn_at) > 0)
                             => d.absences = << >>
      BY DEF OneAbsence
    <3>1. Len(c.restorations) = 0 /\ Len(c.absences) = 0
      BY <1>2, <2>2, <2>8
    <3>2. c.absences = << >> /\ c.restorations = << >>
      BY <1>2, <3>1
    <3>3. d.restorations[1] = r
      BY <2>7, <3>2
    <3>4. d.restorations[1].time = t.time /\ d.withdrawn_at = c.absent_since
      BY <2>2, <2>7, <2>8, <3>3
    <3>5. Seconds(d.restorations[1].time - d.withdrawn_at) = away
      BY <2>3, <3>4
    <3>6. away > 0 => d.absences = << away >>
      BY <2>8, <3>2
    <3> QED
      BY <2>2, <2>4, <2>8, <3>2, <3>4, <3>5, <3>6
  <2> QED
    BY <2>13, <2>14
<1> QED
  BY <1>4, <1>5, <1>6

\* The replay keeps the account.
LEMMA ReplayAccounts ==
  ASSUME PathsArePresent, Inv, NEW s \in Cohort, Quiet(s), NEW ts, NEW f, NEW g,
         Enumerates(s, ts, f), Replay(s, ts, g), Len(ts) \in Nat
  PROVE  (\E now : Account(g[Len(ts)], now)) /\ OneAbsence(g[Len(ts)])
<1> DEFINE Now(n) == IF n = 0 THEN EventStart ELSE ts[n].time
           Ok(n) == Account(g[n], Now(n)) /\ OneAbsence(g[n])
           bad == {n \in 0 .. Len(ts) : ~Ok(n)}
<1>1. s \in Streams
  BY DEF Cohort
<1>2. Ok(0)
  <2>1. PICK c : c = g[0]
    OBVIOUS
  <2>2. /\ c.active = BaselineOf(s) /\ c.absent_since = Never /\ c.withdrawals = 0
        /\ c.absences = << >> /\ c.restorations = << >>
    BY <2>1 DEF Replay, Start
  <2>3. Visible(c.active)
    BY <2>2, CohortStartsVia
  <2>4. EventStart \in Nat /\ EventStart <= CooldownEnd /\ CooldownEnd \in Nat
    BY WindowOrdered
  <2>5. Total(c.absences) <= Seconds(EventStart - EventStart)
    <3>1. Seconds(0) \in Nat /\ EventStart - EventStart = 0
      BY <2>4, SecondsAdd
    <3> QED
      BY <2>2, <3>1, NothingAddsUp
  <2>6. c.restorations \in Seq(Returns) /\ c.absences \in Seq(Nat \ {0})
        /\ Len(c.absences) = 0 /\ Len(c.restorations) = 0
    BY <2>2
  <2>7. Account(c, EventStart)
    BY <2>2, <2>3, <2>4, <2>5, <2>6 DEF Account
  <2>8. OneAbsence(c)
    BY <2>2 DEF OneAbsence
  <2> QED
    BY <2>1, <2>7, <2>8
<1>3. ASSUME NEW n \in 1 .. Len(ts), Ok(n - 1) PROVE Ok(n)
  <2>1. PICK c, t, d, now : c = g[n - 1] /\ t = ts[n] /\ d = g[n] /\ now = Now(n - 1)
    OBVIOUS
  <2>2. t \in Changes /\ d = Step(s, c, t, Kind(t, Absent))
    BY <2>1 DEF Enumerates, ChangesOf, Replay
  <2>3. c.active \in [PathIds -> RouteOrNone] /\ c.active[t.key[2]] = t.before
    BY <1>1, <2>1, ReplayHoldsBefore
  <2>4. PICK j \in DOMAIN changes : t = changes[j]
    BY <2>1 DEF Enumerates
  <2>5. /\ t.before # t.after /\ EventStart <= t.time /\ t.time <= CooldownEnd
    BY <2>4 DEF Inv, Chained, ChangesChain, ChangesInWindow
  <2>6. t.time \in Nat
    BY <2>2, WindowOrdered DEF Changes
  <2>7. now <= t.time
    <3>1. CASE n = 1
      BY <2>1, <2>5, <3>1
    <3>2. CASE n # 1
      <4>1. n - 1 \in 1 .. Len(ts) /\ n - 1 < n /\ n - 1 # 0
        BY <3>2
      <4>2. ts[n - 1].time <= ts[n].time
        BY <4>1 DEF Enumerates
      <4> QED
        BY <2>1, <4>1, <4>2
    <3> QED
      BY <3>1, <3>2
  <2>8. Account(c, now) /\ OneAbsence(c)
    BY <1>3, <2>1
  <2>9. /\ Visible(c.active) /\ Visible(d.active) => Kept(c, d)
        /\ Visible(c.active) /\ ~Visible(d.active) => Goes(c, t, d)
        /\ ~Visible(c.active) => Visible(d.active) /\ Returning(c, t, d)
    BY <2>2, <2>3, <2>5, StepMoves
  <2>10. Account(d, t.time) /\ OneAbsence(d)
    BY <2>5, <2>6, <2>7, <2>8, <2>9, AccountStep
  <2> QED
    BY <2>1, <2>10
<1> HIDE DEF Ok
<1>4. bad = {}
  <2> SUFFICES ASSUME bad # {} PROVE FALSE
    OBVIOUS
  <2>1. bad \subseteq Nat
    OBVIOUS
  <2>2. PICK m \in bad : \A y \in bad : m <= y
    <3> HIDE DEF bad
    <3> QED BY <2>1, LeastOf
  <2>3. m \in 1 .. Len(ts) /\ m - 1 \in 0 .. Len(ts) /\ m - 1 \notin bad
    BY <1>2, <2>2
  <2>4. Ok(m - 1)
    BY <2>3
  <2> QED
    BY <1>3, <2>2, <2>3, <2>4
<1>5. Ok(Len(ts))
  BY <1>4
<1> QED
  BY <1>5 DEF Ok

\* An absence still open is closed within the window.
LEMMA ClosedAccount ==
  ASSUME NEW c, NEW now, Account(c, now)
  PROVE  /\ Len(Closed(c)) <= c.withdrawals
         /\ \A n \in DOMAIN Closed(c) : Closed(c)[n] > 0
         /\ Total(Closed(c)) <= Seconds(CooldownEnd - EventStart)
         /\ Visible(c.active) => Closed(c) = c.absences
<1>1. /\ now \in Nat /\ EventStart \in Nat /\ CooldownEnd \in Nat /\ EventStart <= now
      /\ now <= CooldownEnd
  BY WindowOrdered DEF Account
<1>2. PICK q \in Seq(Nat \ {0}) : q = c.absences
  BY DEF Account
<1>3. /\ c.withdrawals \in Nat /\ Len(q) <= Len(c.restorations)
      /\ Len(q) \in Nat /\ Len(c.restorations) \in Nat /\ q \in Seq(Nat)
  BY <1>2 DEF Account
<1>4. Total(q) \in Nat
  BY <1>3, TotalGrows
<1>5. CASE Visible(c.active)
  <2>1. /\ c.absent_since = Never /\ c.withdrawals = Len(c.restorations)
        /\ Total(q) <= Seconds(now - EventStart)
    BY <1>2, <1>5 DEF Account
  <2>2. Closed(c) = q
    BY <1>2, <2>1 DEF Closed
  <2>3. /\ Seconds(now - EventStart) \in Nat /\ Seconds(CooldownEnd - now) \in Nat
        /\ Seconds(CooldownEnd - EventStart) \in Nat
        /\ Seconds(now - EventStart) + Seconds(CooldownEnd - now) <= Seconds(CooldownEnd - EventStart)
    BY <1>1, SecondsBetween
  <2>4. Total(q) <= Seconds(CooldownEnd - EventStart)
    BY <1>4, <2>1, <2>3
  <2>5. \A n \in DOMAIN q : q[n] > 0
    OBVIOUS
  <2> QED
    BY <1>2, <1>3, <2>1, <2>2, <2>4, <2>5
<1>6. CASE ~Visible(c.active)
  <2>1. PICK since \in Nat : since = c.absent_since
    BY <1>6 DEF Account
  <2>2. /\ c.withdrawals = Len(c.restorations) + 1
        /\ EventStart <= since /\ since <= now /\ Total(q) <= Seconds(since - EventStart)
    BY <1>2, <1>6, <2>1 DEF Account
  <2>3. PICK away : away = Seconds(CooldownEnd - since)
    OBVIOUS
  <2>4. since <= CooldownEnd /\ since # Never
    BY <1>1, <2>1, <2>2 DEF Never
  <2>5. /\ Seconds(since - EventStart) \in Nat /\ away \in Nat
        /\ Seconds(CooldownEnd - EventStart) \in Nat
        /\ Seconds(since - EventStart) + away <= Seconds(CooldownEnd - EventStart)
    BY <1>1, <2>2, <2>3, <2>4, SecondsBetween
  <2>6. Closed(c) = IF away > 0 THEN Append(q, away) ELSE q
    BY <1>2, <2>1, <2>3, <2>4 DEF Closed
  <2>7. CASE away > 0
    <3>1. PICK p : p = Append(q, away)
      OBVIOUS
    <3>2. Closed(c) = p
      BY <2>6, <2>7, <3>1
    <3>3. away \in Nat \ {0}
      BY <2>5, <2>7
    <3>4. p \in Seq(Nat \ {0}) /\ Len(p) = Len(q) + 1
      BY <3>1, <3>3
    <3>5. \A n \in DOMAIN p : p[n] > 0
      BY <3>4
    <3>6. Total(p) = Total(q) + away
      BY <1>3, <2>5, <3>1, TotalGrows
    <3>7. Total(p) <= Seconds(CooldownEnd - EventStart)
      BY <1>4, <2>2, <2>5, <3>6
    <3> QED
      BY <1>3, <1>6, <2>2, <3>2, <3>4, <3>5, <3>7
  <2>8. CASE ~(away > 0)
    <3>1. Closed(c) = q
      BY <2>6, <2>8
    <3>2. \A n \in DOMAIN q : q[n] > 0
      OBVIOUS
    <3>3. Total(q) <= Seconds(CooldownEnd - EventStart)
      BY <1>4, <2>2, <2>5
    <3> QED
      BY <1>3, <1>6, <2>2, <3>1, <3>2, <3>3
  <2> QED
    BY <2>7, <2>8
<1> QED
  BY <1>5, <1>6

\* For every cohort and any number of changes, the losses and returns of a stream that no
\* update before the event touched alternate, its absences are positive and fit into the
\* window together, and the withdrawal audit has the same length for a single absence
\* (build_one_lifecycle, withdrawal_audit).
THEOREM AbsencesFitTheWindow ==
  ASSUME PathsArePresent PROVE Spec => []AbsencesAddUp
<1>1. ASSUME Inv PROVE AbsencesAddUp
  <2> SUFFICES ASSUME NEW s \in Cohort, NEW lc, lc = Lifecycle(s, changes), Quiet(lc.stream)
               PROVE  /\ lc.end.withdrawals
                           = Len(lc.end.restorations) + (IF Visible(lc.end.active) THEN 0 ELSE 1)
                      /\ Len(lc.absences) <= lc.end.withdrawals
                      /\ \A n \in DOMAIN lc.absences : lc.absences[n] > 0
                      /\ Total(lc.absences) <= Seconds(CooldownEnd - EventStart)
                      /\ LostOnce(lc) => lc.absences = (IF AuditRow(lc).away = 0 THEN << >>
                                                        ELSE << AuditRow(lc).away >>)
    BY DEF AbsencesAddUp, Lifecycles
  <2>1. s \in Streams
    BY DEF Cohort
  <2>2. PICK ts, f, g :
          /\ Enumerates(s, ts, f) /\ Replay(s, ts, g) /\ Len(ts) \in Nat
          /\ Lifecycle(s, changes) = Result(s, ts, g[Len(ts)])
    BY <1>1, <2>1, LifecycleReplays
  <2>3. PICK c : c = g[Len(ts)]
    OBVIOUS
  <2>4. lc = Result(s, ts, c)
    BY <2>2, <2>3
  <2>5. lc.stream = s /\ lc.end = c /\ lc.absences = Closed(c)
    BY <2>4 DEF Result
  <2>6. PICK now : Account(c, now)
    BY <1>1, <2>2, <2>3, <2>5, ReplayAccounts
  <2>7. OneAbsence(c)
    BY <1>1, <2>2, <2>3, <2>5, ReplayAccounts
  <2>8. c.withdrawals = Len(c.restorations) + (IF Visible(c.active) THEN 0 ELSE 1)
    <3>1. Len(c.restorations) \in Nat /\ c.withdrawals \in Nat
      BY <2>6 DEF Account
    <3>2. CASE Visible(c.active)
      BY <2>6, <3>1, <3>2 DEF Account
    <3>3. CASE ~Visible(c.active)
      BY <2>6, <3>1, <3>3 DEF Account
    <3> QED
      BY <3>2, <3>3
  <2>9. /\ Len(Closed(c)) <= c.withdrawals
        /\ \A n \in DOMAIN Closed(c) : Closed(c)[n] > 0
        /\ Total(Closed(c)) <= Seconds(CooldownEnd - EventStart)
        /\ Visible(c.active) => Closed(c) = c.absences
    BY <2>6, ClosedAccount
  <2>10. ASSUME LostOnce(lc)
         PROVE  lc.absences = (IF AuditRow(lc).away = 0 THEN << >> ELSE << AuditRow(lc).away >>)
    <3>1. AuditRow(lc).away = RestorationSeconds(c) /\ AuditRow(lc).restored_at = c.restored_at
      BY <2>5 DEF AuditRow
    <3>2. c.withdrawals = 1 /\ c.restorations # << >> /\ c.restored_at = c.restorations[1].time
      BY <2>5, <2>10, <3>1 DEF LostOnce
    <3>3. c.restorations \in Seq(Returns) /\ Len(c.restorations) \in Nat
      BY <2>6 DEF Account
    <3>4. Len(c.restorations) > 0
      BY <3>2, <3>3
    <3>5. Visible(c.active)
      <4>1. ~Visible(c.active) => c.withdrawals = Len(c.restorations) + 1
        BY <2>6 DEF Account
      <4> QED
        BY <3>2, <3>3, <3>4, <4>1
    <3>6. lc.absences = c.absences
      BY <2>5, <2>9, <3>5
    <3>7. PICK r \in Returns : r = c.restorations[1]
      BY <3>3, <3>4
    <3>8. PICK away : away = Seconds(r.time - c.withdrawn_at)
      OBVIOUS
    <3>9. /\ c.withdrawn_at \in Nat /\ r.time \in Nat /\ c.withdrawn_at <= r.time
          /\ away > 0 => c.absences = << away >>
          /\ ~(away > 0) => c.absences = << >>
      BY <2>7, <3>2, <3>7, <3>8 DEF OneAbsence, Returns
    <3>10. away \in Nat
      BY <3>8, <3>9, SecondsBetween
    <3>11. RestorationSeconds(c) = away
      BY <3>2, <3>7, <3>8, <3>9 DEF RestorationSeconds, Never
    <3> QED
      BY <3>1, <3>6, <3>9, <3>10, <3>11
  <2> QED
    BY <2>5, <2>8, <2>9, <2>10
<1>2. Inv => AbsencesAddUp
  BY <1>1
<1> QED
  BY <1>2, ReconstructionIsSound, PTL

\* The replay counts time as absence only when the stream was gone after the last change
\* of an instant: under Quiet the change after a loss brings the stream back.
LEMMA ReplayAbsences ==
  ASSUME PathsArePresent, Inv, NEW s \in Cohort, Quiet(s), NEW ts, NEW f, NEW g,
         Enumerates(s, ts, f), Replay(s, ts, g), Len(ts) \in Nat, NEW n \in 0 .. Len(ts)
  PROVE  /\ ~Visible(g[n].active) => n # 0 /\ g[n].absent_since = ts[n].time
         /\ Visible(g[n].active) => g[n].absent_since = Never
         /\ g[n].absences # << >> =>
              \E b \in 1 .. (n - 1) : ~Visible(g[b].active) /\ ts[b].time < ts[b + 1].time
<1> DEFINE Away(b) == ~Visible(g[b].active) /\ ts[b].time < ts[b + 1].time
           Ok(m) == /\ ~Visible(g[m].active) => m # 0 /\ g[m].absent_since = ts[m].time
                    /\ Visible(g[m].active) => g[m].absent_since = Never
                    /\ g[m].absences # << >> => \E b \in 1 .. (m - 1) : Away(b)
           bad == {m \in 0 .. Len(ts) : ~Ok(m)}
<1>1. s \in Streams
  BY DEF Cohort
<1>2. Ok(0)
  <2>1. PICK c : c = g[0]
    OBVIOUS
  <2>2. c.active = BaselineOf(s) /\ c.absent_since = Never /\ c.absences = << >>
    BY <2>1 DEF Replay, Start
  <2>3. Visible(c.active)
    BY <2>2, CohortStartsVia
  <2> QED
    BY <2>1, <2>2, <2>3
<1>3. ASSUME NEW m \in 1 .. Len(ts), Ok(m - 1) PROVE Ok(m)
  <2>1. PICK c, t, d : c = g[m - 1] /\ t = ts[m] /\ d = g[m]
    OBVIOUS
  <2>2. t \in Changes /\ d = Step(s, c, t, Kind(t, Absent))
    BY <2>1 DEF Enumerates, ChangesOf, Replay
  <2>3. c.active \in [PathIds -> RouteOrNone] /\ c.active[t.key[2]] = t.before
    BY <1>1, <2>1, ReplayHoldsBefore
  <2>4. PICK j \in DOMAIN changes : t = changes[j]
    BY <2>1 DEF Enumerates
  <2>5. t.before # t.after
    BY <2>4 DEF Inv, Chained, ChangesChain
  <2>6. t.time \in Nat
    BY <2>2, WindowOrdered DEF Changes
  <2>7. /\ Visible(c.active) /\ Visible(d.active) => Kept(c, d)
        /\ Visible(c.active) /\ ~Visible(d.active) => Goes(c, t, d)
        /\ ~Visible(c.active) => Visible(d.active) /\ Returning(c, t, d)
    BY <2>2, <2>3, <2>5, StepMoves
  <2>8. /\ ~Visible(c.active) => m - 1 # 0 /\ c.absent_since = ts[m - 1].time
        /\ Visible(c.active) => c.absent_since = Never
        /\ c.absences # << >> => \E b \in 1 .. (m - 2) : Away(b)
    BY <1>3, <2>1
  <2>9. \A b \in 1 .. (m - 2) : b \in 1 .. (m - 1)
    OBVIOUS
  <2> HIDE DEF Away
  <2>10. c.absences # << >> => \E b \in 1 .. (m - 1) : Away(b)
    BY <2>8, <2>9
  <2>11. CASE Visible(c.active) /\ Visible(d.active)
    <3>1. d.absent_since = Never /\ d.absences = c.absences
      BY <2>7, <2>8, <2>11 DEF Kept
    <3> QED
      BY <2>1, <2>10, <2>11, <3>1
  <2>12. CASE Visible(c.active) /\ ~Visible(d.active)
    <3>1. d.absent_since = t.time /\ d.absences = c.absences /\ m # 0
      BY <2>7, <2>8, <2>12 DEF Goes
    <3> QED
      BY <2>1, <2>10, <2>12, <3>1
  <2>13. CASE ~Visible(c.active)
    <3>1. PICK since : since = ts[m - 1].time /\ c.absent_since = since /\ m - 1 # 0
      BY <2>8, <2>13
    <3>2. m - 1 \in 1 .. Len(ts) /\ m - 1 \in 1 .. (m - 1) /\ m - 1 + 1 = m
      BY <3>1
    <3>3. since \in Nat
      <4>1. ts[m - 1] \in Changes
        BY <3>2 DEF Enumerates, ChangesOf
      <4>2. ts[m - 1].time \in Nat
        BY ONLY <4>1, WindowOrdered DEF Changes
      <4> QED
        BY <3>1, <4>2
    <3>4. since # Never
      BY <3>3 DEF Never
    <3>5. Visible(d.active) /\ d.absent_since = Never
      BY <2>7, <2>13 DEF Returning
    <3>6. ~(Seconds(t.time - since) > 0) => d.absences = c.absences
      BY <2>7, <2>13, <3>1, <3>4 DEF Returning
    <3>7. ASSUME Seconds(t.time - since) > 0 PROVE Away(m - 1)
      <4>1. since <= t.time
        BY <2>1, <3>1, <3>2 DEF Enumerates
      <4>2. Seconds(0) = 0
        BY SecondPositive DEF Seconds
      <4>3. since # t.time
        <5> SUFFICES ASSUME since = t.time PROVE FALSE
          OBVIOUS
        <5>1. t.time - since = 0
          BY <2>6
        <5> QED
          BY <3>7, <4>2, <5>1
      <4>4. ts[m - 1].time < ts[m - 1 + 1].time
        BY <2>1, <2>6, <3>1, <3>2, <3>3, <4>1, <4>3
      <4> QED
        BY <2>1, <2>13, <4>4 DEF Away
    <3>8. d.absences # << >> => \E b \in 1 .. (m - 1) : Away(b)
      BY <2>10, <3>2, <3>6, <3>7
    <3> QED
      BY <2>1, <3>5, <3>8
  <2> QED
    BY <2>11, <2>12, <2>13
<1> HIDE DEF Ok
<1>4. bad = {}
  <2> SUFFICES ASSUME bad # {} PROVE FALSE
    OBVIOUS
  <2>1. bad \subseteq Nat
    OBVIOUS
  <2>2. PICK m \in bad : \A y \in bad : m <= y
    <3> HIDE DEF bad
    <3> QED BY <2>1, LeastOf
  <2>3. m \in 1 .. Len(ts) /\ m - 1 \in 0 .. Len(ts) /\ m - 1 \notin bad
    BY <1>2, <2>2
  <2>4. Ok(m - 1)
    BY <2>3
  <2> QED
    BY <1>3, <2>2, <2>3, <2>4
<1>5. Ok(n)
  BY <1>4
<1> QED
  BY <1>5 DEF Ok

\* A stream with counted absence was away at a settled moment.
LEMMA AbsenceWasSettled ==
  ASSUME PathsArePresent, Inv, NEW s \in Cohort, Quiet(s), NEW lc, lc = Lifecycle(s, changes),
         lc.absences # << >>
  PROVE  \E n \in Moments : Settled(s, n) /\ ~Visible(ActiveAfter(s, n))
<1>1. s \in Streams
  BY DEF Cohort
<1>2. PICK ts, f, g :
        /\ Enumerates(s, ts, f) /\ Replay(s, ts, g) /\ Len(ts) \in Nat
        /\ Lifecycle(s, changes) = Result(s, ts, g[Len(ts)])
  BY <1>1, LifecycleReplays
<1>3. PICK c : c = g[Len(ts)]
  OBVIOUS
<1>4. lc.absences = Closed(c)
  <2>1. lc = Result(s, ts, c)
    BY <1>2, <1>3
  <2> QED
    BY <2>1 DEF Result
<1>5. /\ ~Visible(c.active) => Len(ts) # 0
      /\ Visible(c.active) => c.absent_since = Never
      /\ c.absences # << >> =>
           \E b \in 1 .. (Len(ts) - 1) : ~Visible(g[b].active) /\ ts[b].time < ts[b + 1].time
  <2>1. Len(ts) \in 0 .. Len(ts)
    BY <1>2
  <2> QED
    BY <1>2, <1>3, <2>1, ReplayAbsences
<1>6. Visible(c.active) => Closed(c) = c.absences
  BY <1>5 DEF Closed
<1>7. PICK a \in 1 .. Len(ts) :
        /\ ~Visible(g[a].active)
        /\ \A d \in (a + 1) .. Len(ts) : ts[a].time < ts[d].time
  <2>1. CASE ~Visible(c.active)
    <3>1. Len(ts) \in 1 .. Len(ts) /\ (Len(ts) + 1) .. Len(ts) = {}
      BY <1>2, <1>5, <2>1
    <3> QED
      BY <1>3, <2>1, <3>1
  <2>2. CASE Visible(c.active)
    <3>1. PICK b \in 1 .. (Len(ts) - 1) : ~Visible(g[b].active) /\ ts[b].time < ts[b + 1].time
      BY <1>4, <1>5, <1>6, <2>2
    <3>2. b \in 1 .. Len(ts) /\ b + 1 \in 1 .. Len(ts)
      BY <1>2
    <3>3. \A x \in 1 .. Len(ts) : ts[x].time \in Nat
      BY <1>2, WindowOrdered DEF Enumerates, ChangesOf, Changes
    <3>4. ASSUME NEW d \in (b + 1) .. Len(ts) PROVE ts[b].time < ts[d].time
      <4>1. d \in 1 .. Len(ts) /\ (d = b + 1 \/ b + 1 < d)
        BY <1>2, <3>2
      <4>2. b + 1 < d => ts[b + 1].time <= ts[d].time
        BY <1>2, <3>2, <4>1 DEF Enumerates
      <4> QED
        BY <3>1, <3>2, <3>3, <4>1, <4>2
    <3> QED
      BY <3>1, <3>2, <3>4
  <2> QED
    BY <2>1, <2>2
<1>8. \E n \in Moments : Settled(s, n) /\ g[a].active = ActiveAfter(s, n)
  BY <1>1, <1>2, <1>7, MomentsAreReplayed
<1> QED
  BY <1>7, <1>8

\* For every cohort and any number of changes, a stream that no update before the event
\* touched is called withdrawn when no instance of it was there at a settled moment, and
\* departed or withdrawn when none through the transit was; without ties it is called
\* withdrawn only then, and with them it still has a counted absence only then
\* (build_one_lifecycle).
THEOREM WithdrawnAsAbsent ==
  ASSUME PathsArePresent PROVE Spec => []WithdrawnMeansAbsent
<1>1. ASSUME Inv PROVE WithdrawnMeansAbsent
  <2> SUFFICES ASSUME NEW s \in Cohort, NEW lc, lc = Lifecycle(s, changes), Quiet(lc.stream)
               PROVE  /\ (\E n \in {m \in Moments : Settled(lc.stream, m)} :
                             ~Visible(ActiveAfter(lc.stream, n))) => lc.was_withdrawn
                      /\ (\E n \in {m \in Moments : Settled(lc.stream, m)} :
                             ~AnyVia(ActiveAfter(lc.stream, n)))
                           => lc.category \in {"Withdrawn", "DepartedTransitPath"}
                      /\ lc.was_withdrawn /\ Untied(lc.stream)
                           => \E n \in Moments : ~Visible(ActiveAfter(lc.stream, n))
                      /\ lc.absences # << >>
                           => \E n \in {m \in Moments : Settled(lc.stream, m)} :
                                ~Visible(ActiveAfter(lc.stream, n))
    BY DEF WithdrawnMeansAbsent, Lifecycles
  <2>1. lc.stream = s
    BY DEF Lifecycle, build_one_lifecycle, Result
  <2>2. /\ \A n \in Moments : Settled(s, n) /\ ~Visible(ActiveAfter(s, n)) => lc.was_withdrawn
        /\ lc.was_withdrawn /\ Untied(s) => \E n \in Moments : ~Visible(ActiveAfter(s, n))
        /\ \A n \in Moments : Settled(s, n) /\ ~AnyVia(ActiveAfter(s, n))
             => lc.category \in {"Withdrawn", "DepartedTransitPath"}
    BY <1>1, LifecycleIsTrue
  <2>3. lc.absences # << >> =>
          \E n \in Moments : Settled(s, n) /\ ~Visible(ActiveAfter(s, n))
    BY <1>1, <2>1, AbsenceWasSettled
  <2> QED
    BY <2>1, <2>2, <2>3
<1>2. Inv => WithdrawnMeansAbsent
  BY <1>1
<1> QED
  BY <1>2, ReconstructionIsSound, PTL

-----------------------------------------------------------------------------
(* The end states of episodes                                              *)

\* A stream that was lost once has a time of restoration exactly if the store has a
\* route of it, and only then counts as restored.
LEMMA ReturnedIsThere ==
  ASSUME PathsArePresent, Inv, NEW s \in Cohort, Quiet(s), SimpleLoss(s),
         NEW lc, lc = Lifecycle(s, changes)
  PROVE  /\ lc.stream = s
         /\ (lc.end.restored_at # Never) <=> \E i \in PathIds : states[<<s, i>>] # Absent
         /\ lc.end.restored_at = Never => ~lc.restored
<1>1. s \in Streams
  BY DEF Cohort
<1>2. PICK ts, f, g :
        /\ Enumerates(s, ts, f) /\ Replay(s, ts, g) /\ Len(ts) \in Nat
        /\ Lifecycle(s, changes) = Result(s, ts, g[Len(ts)])
  BY <1>1, LifecycleReplays
<1>3. PICK c : c = g[Len(ts)]
  OBVIOUS
<1>4. lc = Result(s, ts, c)
  BY <1>2, <1>3
<1>5. lc.stream = s /\ lc.end = c
  BY <1>4 DEF Result
<1>6. PICK now : Account(c, now)
  BY <1>2, <1>3, ReplayAccounts
<1>7. c.active = [i \in PathIds |-> states[<<s, i>>]]
  BY <1>1, <1>2, <1>3, ReplayEndsLikeStore
<1>8. Visible(c.active) <=> \E i \in PathIds : states[<<s, i>>] # Absent
  BY <1>7 DEF Visible
<1>9. c.withdrawals = 1 /\ (c.restored_at = Never <=> c.restorations = << >>)
  BY <1>5 DEF SimpleLoss
<1>10. c.restorations \in Seq(Returns) /\ Len(c.restorations) \in Nat
  BY <1>6 DEF Account
<1>11. (c.restorations = << >>) <=> Len(c.restorations) = 0
  BY <1>10
<1>12. Visible(c.active) <=> c.restorations # << >>
  <2>1. Visible(c.active) => Len(c.restorations) = 1
    BY <1>6, <1>9 DEF Account
  <2>2. ~Visible(c.active) => Len(c.restorations) + 1 = 1
    BY <1>6, <1>9 DEF Account
  <2> QED
    BY <1>10, <1>11, <2>1, <2>2
<1>13. ASSUME c.restored_at = Never PROVE ~lc.restored
  <2>1. ~(Len(c.restorations) > 0)
    BY <1>9, <1>10, <1>11, <1>13
  <2>2. PICK w \in BOOLEAN : w <=> (Len(c.restorations) > 0
                             /\ ~((~Visible(c.active) /\ c.withdrawals > 0)
                                  \/ (/\ Visible(c.active) /\ ~AnyVia(c.active)
                                      /\ "DepartedTransitPath" \in c.categories)))
    BY Zenon
  <2>3. w = FALSE
    BY <2>1, <2>2
  <2>4. lc.restored = FALSE
    <3>1. w = (Len(c.restorations) > 0
                             /\ ~((~Visible(c.active) /\ c.withdrawals > 0)
                                  \/ (/\ Visible(c.active) /\ ~AnyVia(c.active)
                                      /\ "DepartedTransitPath" \in c.categories)))
      BY <2>2, Zenon
    <3>2. lc.restored = w
      BY ONLY <1>4, <3>1 DEF Result
    <3> QED
      BY <2>3, <3>2
  <2> QED
    BY <2>4
<1> QED
  BY <1>5, <1>8, <1>9, <1>12, <1>13

\* Only withdrawn streams are in an episode of absence.
LEMMA AbsenceIsWithdrawn ==
  ASSUME NEW m, stream_effect_kind(m) \in {"TemporaryStreamAbsence", "RouteWithdrawal"}
  PROVE  m.withdrawn
BY DEF stream_effect_kind

\* What derive_end_state counts, for an episode of absence.
LEMMA EndStateOfAbsence ==
  ASSUME NEW kind \in {"TemporaryStreamAbsence", "RouteWithdrawal"},
         NEW members, members # {},
         \A m \in members : m.withdrawn /\ ~m.ambiguous,
         \A m \in members : m.restoration_time = Never => ~m.restored
  PROVE  LET back == {m \in members : m.restoration_time # Never} IN
           derive_end_state(kind, members)
             = IF back = members THEN "VisibilityRestored"
               ELSE IF back = {} THEN "AbsentAtWindowEnd" ELSE "StillChangedAtWindowEnd"
<1> DEFINE back == {m \in members : m.restoration_time # Never}
<1>1. {m \in members : IsChanged(m)} = members
  BY DEF IsChanged
<1>2. {m \in {n \in members : IsChanged(n)} : m.restoration_time # Never} = back
  BY <1>1
<1>3. back = {} => \E m \in members : m.withdrawn /\ ~m.restored
  OBVIOUS
<1> HIDE DEF back
<1>4. derive_end_state(kind, members)
        = IF back = members THEN "VisibilityRestored"
          ELSE IF back = {} /\ \E m \in members : m.withdrawn /\ ~m.restored
          THEN "AbsentAtWindowEnd" ELSE "StillChangedAtWindowEnd"
  BY <1>1, <1>2 DEF derive_end_state
<1> QED
  BY <1>3, <1>4 DEF back

\* What a summary takes over from the lifecycle of its stream.
LEMMA SummaryIs ==
  ASSUME NEW m \in Summaries(changes)
  PROVE  \E s \in Cohort : \E lc :
           /\ lc = Lifecycle(s, changes) /\ m.stream = lc.stream
           /\ m.withdrawn = lc.was_withdrawn /\ m.restored = lc.restored
           /\ m.ambiguous = lc.ambiguous /\ m.restoration_time = lc.end.restored_at
<1>1. PICK s \in Cohort :
        \E lc : /\ lc = Lifecycle(s, changes)
                /\ m = Summary(lc, Cardinality(EventChanges(lc.stream, changes)))
  BY DEF Summaries, Lifecycles
<1>2. PICK lc : /\ lc = Lifecycle(s, changes)
                /\ m = Summary(lc, Cardinality(EventChanges(lc.stream, changes)))
  BY <1>1
<1>3. /\ m.stream = lc.stream /\ m.withdrawn = lc.was_withdrawn /\ m.restored = lc.restored
      /\ m.ambiguous = lc.ambiguous /\ m.restoration_time = lc.end.restored_at
  BY <1>2 DEF Summary
<1> QED
  BY <1>2, <1>3

\* For every cohort, any sessions and any number of changes, an episode of absence of streams
\* lost once ends as its prefixes stand in the store: all there again, none, or some
\* (derive_end_state against reconstruct_routes).
THEOREM EpisodesEndLikeTheStore ==
  ASSUME PathsArePresent PROVE Spec => []EndStatesAgree
<1>1. ASSUME Inv PROVE EndStatesAgree
  <2> SUFFICES ASSUME NEW m0 \in Summaries(changes), NEW members, NEW e,
                      members = {n \in Summaries(changes) : Together(m0, n)},
                      e = Episode(SessionOf[m0.stream], stream_effect_kind(m0), members),
                      e.kind \in {"TemporaryStreamAbsence", "RouteWithdrawal"},
                      \A m \in e.members : ~m.ambiguous,
                      \A s \in {m.stream : m \in e.members} : Quiet(s) /\ SimpleLoss(s),
                      NEW streams, streams = {m.stream : m \in e.members},
                      NEW there,
                      there = {s \in streams : \E i \in PathIds : states[<<s, i>>] # Absent}
               PROVE  e.end_state = IF there = streams THEN "VisibilityRestored"
                                    ELSE IF there = {} THEN "AbsentAtWindowEnd"
                                    ELSE "StillChangedAtWindowEnd"
    BY ZenonT(60) DEF EndStatesAgree, Episodes, build_episodes
  <2>1. PICK kind : kind = stream_effect_kind(m0)
    OBVIOUS
  <2>2. e.kind = kind /\ e.members = members /\ e.end_state = derive_end_state(kind, members)
    BY <2>1 DEF Episode
  <2>3. m0 \in members /\ \A m \in members : m \in Summaries(changes) /\ stream_effect_kind(m) = kind
    BY <2>1 DEF Together
  <2>4. kind \in {"TemporaryStreamAbsence", "RouteWithdrawal"}
    BY <2>2
  <2>5. \A m \in members : m.withdrawn
    BY <2>3, <2>4, AbsenceIsWithdrawn
  <2>6. ASSUME NEW m \in members
        PROVE  /\ (m.restoration_time # Never) <=> m.stream \in there
               /\ m.restoration_time = Never => ~m.restored
    <3> PICK s \in Cohort :
          \E lc : /\ lc = Lifecycle(s, changes) /\ m.stream = lc.stream
                  /\ m.withdrawn = lc.was_withdrawn /\ m.restored = lc.restored
                  /\ m.ambiguous = lc.ambiguous /\ m.restoration_time = lc.end.restored_at
      BY <2>3, SummaryIs
    <3>1. PICK lc :
            /\ lc = Lifecycle(s, changes) /\ m.stream = lc.stream
            /\ m.withdrawn = lc.was_withdrawn /\ m.restored = lc.restored
            /\ m.ambiguous = lc.ambiguous /\ m.restoration_time = lc.end.restored_at
      OBVIOUS
    <3>2. lc.stream = s
      BY <3>1 DEF Lifecycle, build_one_lifecycle, Result
    <3>3. m.stream = s /\ s \in streams /\ Quiet(s) /\ SimpleLoss(s)
      BY <2>2, <2>6, <3>1, <3>2
    <3>4. /\ (lc.end.restored_at # Never) <=> \E i \in PathIds : states[<<s, i>>] # Absent
          /\ lc.end.restored_at = Never => ~lc.restored
      BY <1>1, <3>1, <3>3, ReturnedIsThere, ZenonT(60)
    <3>5. s \in there <=> \E i \in PathIds : states[<<s, i>>] # Absent
      BY <3>3
    <3> QED
      BY <3>1, <3>3, <3>4, <3>5
  <2> DEFINE back == {m \in members : m.restoration_time # Never}
  <2>7. derive_end_state(kind, members)
          = IF back = members THEN "VisibilityRestored"
            ELSE IF back = {} THEN "AbsentAtWindowEnd" ELSE "StillChangedAtWindowEnd"
    <3>1. members # {} /\ (\A m \in members : m.withdrawn /\ ~m.ambiguous)
      BY <2>2, <2>3, <2>5
    <3>2. \A m \in members : m.restoration_time = Never => ~m.restored
      BY <2>6
    <3> QED
      BY <2>4, <3>1, <3>2, EndStateOfAbsence
  <2>8. \A m \in members : m \in back <=> m.stream \in there
    BY <2>6
  <2> HIDE DEF back
  <2>9. back \subseteq members /\ there \subseteq streams /\ streams = {m.stream : m \in members}
    BY <2>2 DEF back
  <2>10. (back = members) <=> (there = streams)
    <3>1. \A t \in streams : \E m \in members : t = m.stream
      BY <2>9
    <3>2. \A m \in members : m.stream \in streams
      BY <2>9
    <3>3. (back = members) <=> \A m \in members : m \in back
      BY <2>9
    <3>4. (there = streams) <=> \A t \in streams : t \in there
      BY <2>9
    <3>5. (\A m \in members : m \in back) <=> \A t \in streams : t \in there
      BY ONLY <2>8, <3>1, <3>2
    <3> QED
      BY ONLY <3>3, <3>4, <3>5
  <2>11. (back = {}) <=> (there = {})
    <3>1. \A t \in streams : \E m \in members : t = m.stream
      BY <2>9
    <3>2. \A m \in members : m.stream \in streams
      BY <2>9
    <3>3. (back = {}) <=> \A m \in members : m \notin back
      BY <2>9
    <3>4. (there = {}) <=> \A t \in streams : t \notin there
      BY <2>9
    <3>5. (\A m \in members : m \notin back) <=> \A t \in streams : t \notin there
      BY ONLY <2>8, <3>1, <3>2
    <3> QED
      BY ONLY <3>3, <3>4, <3>5
  <2> QED
    BY <2>2, <2>7, <2>10, <2>11
<1>2. Inv => EndStatesAgree
  BY <1>1
<1> QED
  BY <1>2, ReconstructionIsSound, PTL

-----------------------------------------------------------------------------
(* What findings tell                                                      *)

\* The transitions of a stream are a sequence.
LEMMA TransitionsAreSeq ==
  ASSUME Inv, NEW s
  PROVE  \E T : Transitions(s, changes) \in Seq(T)
<1>1. PICK is : is = EventChanges(s, changes)
  OBVIOUS
<1>2. is \subseteq DOMAIN changes
  BY <1>1 DEF EventChanges
<1>3. PICK ts, f : ts = Ordered(changes, is) /\ Lists(is, ts, f)
  BY <1>2, OrderedLists
<1>4. Len(ts) \in Nat /\ DOMAIN ts = 1 .. Len(ts)
  BY <1>3 DEF Lists
<1>5. PICK T : T = {Transition(ts[n]) : n \in DOMAIN ts}
  OBVIOUS
<1>6. AsTransitions(ts) = [n \in DOMAIN ts |-> Transition(ts[n])]
  BY DEF AsTransitions
<1>7. AsTransitions(ts) \in [1 .. Len(ts) -> T]
  BY <1>4, <1>5, <1>6
<1>8. AsTransitions(ts) \in Seq(T)
  BY <1>4, <1>7
<1> QED
  BY <1>1, <1>3, <1>8 DEF Transitions

\* A sequence cut in two is the two parts together.
LEMMA CutAndJoined ==
  ASSUME NEW T, NEW q \in Seq(T), NEW n \in 1 .. Len(q)
  PROVE  SubSeq(q, 1, n - 1) \o SubSeq(q, n, Len(q)) = q
<1>1. Len(q) \in Nat /\ n \in Nat /\ n <= Len(q) /\ 1 <= n /\ DOMAIN q = 1 .. Len(q)
  OBVIOUS
<1>2. PICK a : a = SubSeq(q, 1, n - 1)
  OBVIOUS
<1>3. PICK b : b = SubSeq(q, n, Len(q))
  OBVIOUS
<1>4. a \in Seq(T) /\ Len(a) = n - 1 /\ \A i \in 1 .. (n - 1) : a[i] = q[i]
  <2>1. \A i \in 1 .. (n - 1) : q[i] \in T
    BY <1>1
  <2>2. /\ a \in Seq(T) /\ Len(a) = (IF 1 <= n - 1 THEN (n - 1) - 1 + 1 ELSE 0)
        /\ \A i \in 1 .. ((n - 1) - 1 + 1) : a[i] = q[1 + i - 1]
    BY <1>1, <1>2, <2>1, SubSeqProperties
  <2> QED
    BY <1>1, <2>2
<1>5. /\ b \in Seq(T) /\ Len(b) = Len(q) - (n - 1)
      /\ \A i \in 1 .. (Len(q) - (n - 1)) : b[i] = q[n - 1 + i]
  <2>1. \A i \in n .. Len(q) : q[i] \in T
    BY <1>1
  <2>2. /\ b \in Seq(T) /\ Len(b) = (IF n <= Len(q) THEN Len(q) - n + 1 ELSE 0)
        /\ \A i \in 1 .. (Len(q) - n + 1) : b[i] = q[n + i - 1]
    BY <1>1, <1>3, <2>1, SubSeqProperties
  <2> QED
    BY <1>1, <2>2
<1>6. PICK c : c = a \o b
  OBVIOUS
<1>7. /\ c \in Seq(T) /\ Len(c) = Len(q)
      /\ \A i \in 1 .. Len(q) : c[i] = IF i <= n - 1 THEN a[i] ELSE b[i - (n - 1)]
  <2>1. /\ c \in Seq(T) /\ Len(c) = Len(a) + Len(b)
        /\ \A i \in 1 .. Len(a) + Len(b) : c[i] = IF i <= Len(a) THEN a[i] ELSE b[i - Len(a)]
    BY <1>4, <1>5, <1>6, ConcatProperties
  <2>2. Len(a) + Len(b) = Len(q)
    BY <1>1, <1>4, <1>5
  <2> QED
    BY <1>4, <2>1, <2>2
<1>8. ASSUME NEW i \in 1 .. Len(q) PROVE c[i] = q[i]
  <2>1. CASE i <= n - 1
    BY <1>1, <1>4, <1>7, <2>1
  <2>2. CASE n - 1 < i
    <3>1. c[i] = b[i - (n - 1)]
      BY <1>1, <1>7, <2>2
    <3>2. i - (n - 1) \in 1 .. (Len(q) - (n - 1)) /\ n - 1 + (i - (n - 1)) = i
      BY <1>1, <2>2
    <3> QED
      BY <1>5, <3>1, <3>2
  <2> QED
    BY <1>1, <2>1, <2>2
<1>9. c = q
  BY <1>7, <1>8, SeqEqual
<1> QED
  BY <1>2, <1>3, <1>6, <1>9

\* FirstLoss is the position of the first withdrawal.
LEMMA FirstLossIs ==
  ASSUME NEW T, NEW r, r.transitions \in Seq(T), FirstLoss(r) # 0
  PROVE  /\ FirstLoss(r) \in 1 .. Len(r.transitions)
         /\ IsLoss(r.transitions[FirstLoss(r)])
<1> DEFINE losses == {n \in DOMAIN r.transitions : IsLoss(r.transitions[n])}
<1>1. DOMAIN r.transitions = 1 .. Len(r.transitions) /\ Len(r.transitions) \in Nat
  OBVIOUS
<1>2. losses # {} /\ FirstLoss(r) = Min(losses)
  BY DEF FirstLoss
<1>3. losses \subseteq Nat
  BY <1>1
<1>4. PICK x \in losses : \A y \in losses : x <= y
  <2> HIDE DEF losses
  <2> QED BY <1>2, <1>3, LeastOf
<1>5. Min(losses) \in losses
  <2> HIDE DEF losses
  <2> QED BY <1>4 DEF Min
<1> QED
  BY <1>1, <1>2, <1>5

\* What a finding has of one record of its partition.
Tells(role, r, q) ==
  /\ r.stream = q.stream
  /\ \/ role = "before" /\ r.transitions = Until(q, FirstLoss(q))
     \/ role = "absence" /\ r.transitions = From(q, FirstLoss(q))

LEMMA ProjectTells ==
  ASSUME NEW q, NEW selected
  PROVE  project(q, selected).stream = q.stream /\ project(q, selected).transitions = selected
BY DEF project

LEMMA FindingsTell ==
  ASSUME NEW e, NEW part
  PROVE  /\ Splits(part) =>
              /\ \A f \in FindingsOf(e, part) : \A r \in f.records :
                   \E q \in part : Tells(f.role, r, q)
              /\ \A q \in part : \A role \in {"before", "absence"} :
                   \E f \in FindingsOf(e, part) : \E r \in f.records :
                     f.role = role /\ Tells(role, r, q)
         /\ ~Splits(part) =>
              /\ \A f \in FindingsOf(e, part) : f.role = "whole" /\ f.records = part
              /\ \E f \in FindingsOf(e, part) : TRUE
<1>1. PICK b : b = BeforeFinding(part)
  OBVIOUS
<1>2. /\ b.role = "before"
      /\ b.records = {project(r, Until(r, FirstLoss(r))) : r \in part}
  BY <1>1 DEF BeforeFinding
<1>3. PICK a : a = [role |-> "absence", kind |-> e.kind, end_state |-> e.end_state,
                    records |-> {project(r, From(r, FirstLoss(r))) : r \in part}]
  OBVIOUS
<1>4. a.role = "absence" /\ a.records = {project(r, From(r, FirstLoss(r))) : r \in part}
  BY <1>3
<1>5. PICK w : w = [role |-> "whole", kind |-> e.kind, end_state |-> e.end_state, records |-> part]
  OBVIOUS
<1>6. w.role = "whole" /\ w.records = part
  BY <1>5
<1>7. ~Splits(part) => FindingsOf(e, part) = {w}
  BY <1>5 DEF FindingsOf
<1>8. Splits(part) => FindingsOf(e, part) = {b, a}
  BY <1>1, <1>3 DEF FindingsOf
<1>9. \A r \in b.records : \E q \in part : Tells("before", r, q)
  BY <1>2, ProjectTells DEF Tells
<1>10. \A r \in a.records : \E q \in part : Tells("absence", r, q)
  BY <1>4, ProjectTells DEF Tells
<1>11. \A q \in part : \E r \in b.records : Tells("before", r, q)
  BY <1>2, ProjectTells DEF Tells
<1>12. \A q \in part : \E r \in a.records : Tells("absence", r, q)
  BY <1>4, ProjectTells DEF Tells
<1>13. ASSUME Splits(part)
       PROVE  /\ \A f \in FindingsOf(e, part) : \A r \in f.records :
                   \E q \in part : Tells(f.role, r, q)
              /\ \A q \in part : \A role \in {"before", "absence"} :
                   \E f \in FindingsOf(e, part) : \E r \in f.records :
                     f.role = role /\ Tells(role, r, q)
  <2>1. \A f \in FindingsOf(e, part) : f = b \/ f = a
    BY <1>8, <1>13
  <2>2. b \in FindingsOf(e, part) /\ a \in FindingsOf(e, part)
    BY <1>8, <1>13
  <2>3. \A f \in FindingsOf(e, part) : \A r \in f.records : \E q \in part : Tells(f.role, r, q)
    BY ONLY <1>2, <1>4, <1>9, <1>10, <2>1
  <2>4. \A q \in part : \A role \in {"before", "absence"} :
          \E f \in FindingsOf(e, part) : \E r \in f.records : f.role = role /\ Tells(role, r, q)
    BY ONLY <1>2, <1>4, <1>11, <1>12, <2>2
  <2> QED
    BY <2>3, <2>4
<1> QED
  BY <1>6, <1>7, <1>13

\* A record of an episode is in one partition.
LEMMA OnePartition ==
  ASSUME NEW records, NEW rec \in records
  PROVE  /\ \E part \in Partitions(records) : rec \in part
         /\ \A p, q \in Partitions(records) : rec \in p /\ rec \in q => p = q
         /\ \A part \in Partitions(records) : part \subseteq records
<1>1. \E part \in Partitions(records) : rec \in part
  <2>1. PICK part : part = {r \in records : r.baseline = rec.baseline /\ r.changed = rec.changed}
    OBVIOUS
  <2>2. part \in Partitions(records) /\ rec \in part
    BY <2>1 DEF Partitions
  <2> QED
    BY <2>2
<1>2. ASSUME NEW part \in Partitions(records), rec \in part
      PROVE  part = {r \in records : r.baseline = rec.baseline /\ r.changed = rec.changed}
  <2>1. PICK q \in records : part = {r \in records : r.baseline = q.baseline /\ r.changed = q.changed}
    BY DEF Partitions
  <2>2. rec.baseline = q.baseline /\ rec.changed = q.changed
    BY <1>2, <2>1
  <2> QED
    BY <2>1, <2>2
<1>3. \A part \in Partitions(records) : part \subseteq records
  BY DEF Partitions
<1> QED
  BY ONLY <1>1, <1>2, <1>3

\* For any changes, sessions and kinds, every transition of the event of a changed stream is
\* told by one finding and by no other, unless build_findings panics (build_findings,
\* project).
THEOREM FindingsTellOnce == Spec => []ToldOnce
<1>1. ASSUME Inv PROVE ToldOnce
  <2> SUFFICES ASSUME NEW e \in ChangedEpisodes(changes), ~Panics(e, changes), NEW m \in e.members
               PROVE  LET told == UNION {{[role |-> f.role, ts |-> r.transitions] :
                                r \in {q \in f.records : q.stream = m.stream}} :
                                f \in build_findings(e, changes)}
                          evidence == Transitions(m.stream, changes)
                      IN \/ told = {[role |-> "whole", ts |-> evidence]}
                         \/ \E x, y \in told :
                              /\ told = {x, y} /\ x.role = "before" /\ y.role = "absence"
                              /\ x.ts \o y.ts = evidence
    BY Zenon DEF ToldOnce
  <2> PICK told : told = UNION {{[role |-> f.role, ts |-> r.transitions] :
                                r \in {q \in f.records : q.stream = m.stream}} :
                                f \in build_findings(e, changes)}
    OBVIOUS
  <2>1. PICK s, evidence : s = m.stream /\ evidence = Transitions(s, changes)
    OBVIOUS
  <2>2. PICK records : records = {Evidence(n.stream, changes) : n \in e.members}
    OBVIOUS
  <2>3. PICK rec : rec = Evidence(s, changes)
    OBVIOUS
  <2>4. rec \in records /\ rec.stream = s /\ rec.transitions = evidence
    BY <2>1, <2>2, <2>3 DEF Evidence, EvidenceOf, Record
  <2>5. \A r \in records : r.stream = s => r = rec
    <3>1. \A x : Evidence(x, changes).stream = x
      BY DEF Evidence, EvidenceOf, Record
    <3> QED
      BY <2>2, <2>3, <3>1
  <2>6. PICK part \in Partitions(records) : rec \in part
    BY <2>4, OnePartition
  <2>7. \A p \in Partitions(records) : rec \in p => p = part
    BY <2>4, <2>6, OnePartition
  <2>8. \A p \in Partitions(records) : p \subseteq records
    BY <2>4, OnePartition
  <2>9. PartitionsOf(e, changes) = Partitions(records)
    BY <2>2 DEF PartitionsOf
  <2>10. \A z : z \in told <=>
           \E p \in Partitions(records) : \E f \in FindingsOf(e, p) : \E r \in f.records :
             r.stream = s /\ z = [role |-> f.role, ts |-> r.transitions]
    <3>1. \A f : f \in build_findings(e, changes)
                   <=> \E p \in Partitions(records) : f \in FindingsOf(e, p)
      BY <2>9 DEF build_findings
    <3>2. \A z : z \in told <=>
            \E f \in build_findings(e, changes) : \E r \in f.records :
              r.stream = s /\ z = [role |-> f.role, ts |-> r.transitions]
      BY <2>1
    <3> QED
      BY ONLY <3>1, <3>2
  <2>11. CASE ~Splits(part)
    <3>1. \A f \in FindingsOf(e, part) : f.role = "whole" /\ f.records = part
      BY <2>11, FindingsTell
    <3>2. PICK f0 \in FindingsOf(e, part) : TRUE
      BY <2>11, FindingsTell
    <3>3. [role |-> "whole", ts |-> evidence] \in told
      BY <2>4, <2>6, <2>10, <3>1, <3>2
    <3>4. ASSUME NEW z \in told PROVE z = [role |-> "whole", ts |-> evidence]
      <4> PICK p \in Partitions(records) : \E f \in FindingsOf(e, p) : \E r \in f.records :
            r.stream = s /\ z = [role |-> f.role, ts |-> r.transitions]
        BY <2>10
      <4>1. PICK f \in FindingsOf(e, p) : \E r \in f.records :
              r.stream = s /\ z = [role |-> f.role, ts |-> r.transitions]
        OBVIOUS
      <4>2. PICK r \in f.records : r.stream = s /\ z = [role |-> f.role, ts |-> r.transitions]
        BY <4>1
      <4>3. rec \in p
        <5>1. CASE Splits(p)
          <6>1. PICK q \in p : Tells(f.role, r, q)
            BY <5>1, FindingsTell
          <6>2. q \in records /\ q.stream = s
            BY <2>8, <4>2, <6>1 DEF Tells
          <6> QED
            BY <2>5, <6>2
        <5>2. CASE ~Splits(p)
          <6>1. f.records = p
            BY <5>2, FindingsTell
          <6>2. r \in records
            BY <2>8, <6>1
          <6> QED
            BY <2>5, <4>2, <6>1, <6>2
        <5> QED
          BY <5>1, <5>2
      <4>4. p = part
        BY <2>7, <4>3
      <4>5. f.role = "whole" /\ r \in part /\ r \in records
        BY <2>8, <3>1, <4>4
      <4>6. r = rec
        BY <2>5, <4>2, <4>5
      <4> QED
        BY <2>4, <4>2, <4>5, <4>6
    <3> QED
      BY <2>1, <3>3, <3>4
  <2>12. CASE Splits(part)
    <3>1. PICK n : n = FirstLoss(rec)
      OBVIOUS
    <3>2. n # 0
      BY <2>6, <2>9, <2>12, <3>1 DEF Panics
    <3>3. PICK T : evidence \in Seq(T)
      BY <1>1, <2>1, TransitionsAreSeq
    <3>4. n \in 1 .. Len(evidence)
      BY <2>4, <3>1, <3>2, <3>3, FirstLossIs
    <3>5. PICK x, y : x = [role |-> "before", ts |-> Until(rec, n)]
                      /\ y = [role |-> "absence", ts |-> From(rec, n)]
      OBVIOUS
    <3>6. x.ts \o y.ts = evidence
      <4>1. x.ts = SubSeq(evidence, 1, n - 1) /\ y.ts = SubSeq(evidence, n, Len(evidence))
        BY <2>4, <3>5 DEF Until, From
      <4> QED
        BY <3>3, <3>4, <4>1, CutAndJoined
    <3>7. ASSUME NEW role \in {"before", "absence"}, NEW z,
                 z = [role |-> role, ts |-> IF role = "before" THEN Until(rec, n) ELSE From(rec, n)]
          PROVE  z \in told
      <4>1. PICK f \in FindingsOf(e, part) : \E r \in f.records : f.role = role /\ Tells(role, r, rec)
        BY <2>6, <2>12, FindingsTell
      <4>2. PICK r \in f.records : f.role = role /\ Tells(role, r, rec)
        BY <4>1
      <4>3. r.stream = s /\ z = [role |-> f.role, ts |-> r.transitions]
        BY <2>4, <3>1, <3>7, <4>2 DEF Tells
      <4> QED
        BY <2>6, <2>10, <4>3
    <3>8. x \in told /\ y \in told
      BY <3>5, <3>7
    <3>9. ASSUME NEW z \in told PROVE z = x \/ z = y
      <4> PICK p \in Partitions(records) : \E f \in FindingsOf(e, p) : \E r \in f.records :
            r.stream = s /\ z = [role |-> f.role, ts |-> r.transitions]
        BY <2>10
      <4>1. PICK f \in FindingsOf(e, p) : \E r \in f.records :
              r.stream = s /\ z = [role |-> f.role, ts |-> r.transitions]
        OBVIOUS
      <4>2. PICK r \in f.records : r.stream = s /\ z = [role |-> f.role, ts |-> r.transitions]
        BY <4>1
      <4>3. CASE ~Splits(p)
        <5>1. f.records = p
          BY <4>3, FindingsTell
        <5>2. r \in records
          BY <2>8, <5>1
        <5>3. rec \in p
          BY <2>5, <4>2, <5>1, <5>2
        <5> QED
          BY <2>7, <2>12, <4>3, <5>3
      <4>4. CASE Splits(p)
        <5>1. PICK q \in p : Tells(f.role, r, q)
          BY <4>4, FindingsTell
        <5>2. q \in records /\ q.stream = s
          BY <2>8, <4>2, <5>1 DEF Tells
        <5>3. q = rec
          BY <2>5, <5>2
        <5> QED
          BY <3>1, <3>5, <4>2, <5>1, <5>3 DEF Tells
      <4> QED
        BY <4>3, <4>4
    <3>10. told = {x, y} /\ x.role = "before" /\ y.role = "absence"
      BY <3>5, <3>8, <3>9, ZenonT(60)
    <3> QED
      BY <2>1, <3>6, <3>8, <3>10
  <2> QED
    BY <2>11, <2>12
<1>2. Inv => ToldOnce
  BY <1>1
<1> QED
  BY <1>2, ReconstructionIsSound, PTL

\* The keys of changes are keys that occur in the sources.
KeysOccur == \A j \in DOMAIN changes : changes[j].key \in DOMAIN RoutesOf

LEMMA ChangedKeysOccur == Spec => []KeysOccur
<1>1. Init => KeysOccur
  BY DEF Init, KeysOccur
<1>2. ASSUME Inv, KeysOccur, [Next]_vars PROVE KeysOccur'
  <2>1. changes \in Seq(Changes)
    BY <1>2, ChangeTypes DEF Inv, Chained
  <2>2. CASE UNCHANGED changes
    BY <1>2, <2>2 DEF KeysOccur
  <2>3. ASSUME NEW k \in DOMAIN RoutesOf, NEW r \in RoutesOf[k] \cup {Absent}, NEW t \in Times,
               Apply(k, r, t)
        PROVE  KeysOccur'
    <3>1. CASE states[k] = r
      BY <2>2, <2>3, <3>1 DEF Apply, Emitted
    <3>2. CASE states[k] # r
      <4>1. PICK c : c = Change(k, r, t)
        OBVIOUS
      <4>2. changes' = Append(changes, c) /\ c.key = k
        BY <2>3, <3>2, <4>1 DEF Apply, Emitted, Change
      <4>3. \A j \in DOMAIN changes' : changes'[j] = c \/ (j \in DOMAIN changes /\ changes'[j] = changes[j])
        BY <2>1, <4>2
      <4> QED
        BY <1>2, <4>2, <4>3 DEF KeysOccur
    <3> QED
      BY <3>1, <3>2
  <2>4. (\E k \in DOMAIN RoutesOf : \E r \in RoutesOf[k] \cup {Absent}, t \in Times : Apply(k, r, t))
          \/ UNCHANGED changes
    BY <1>2 DEF Next, vars, SeedFromRib, WarmUp, PastCooldown
  <2> QED
    BY <2>2, <2>3, <2>4
<1> QED
  BY <1>1, <1>2, ReconstructionIsSound, PTL DEF Spec

\* The changes of the event of a stream with one instance, as they are listed, are in the order
\* they were observed in, and each starts where the one before it ended.
LEMMA SingleChains ==
  ASSUME Inv, KeysOccur, NEW s, SingleInstance(s),
         NEW is, is = EventChanges(s, changes), NEW ts, ts = Ordered(changes, is)
  PROVE  /\ Len(ts) \in Nat /\ DOMAIN ts = 1 .. Len(ts)
         /\ \A n \in 1 .. Len(ts) : ts[n] \in Changes /\ ts[n].before # ts[n].after
         /\ \A n \in 2 .. Len(ts) : ts[n].before = ts[n - 1].after
<1>1. /\ Len(changes) \in Nat /\ DOMAIN changes = 1 .. Len(changes)
      /\ \A j \in DOMAIN changes : changes[j] \in Changes /\ changes[j].key \in Keys
  BY ChangeTypes DEF Inv, Chained
<1>2. \A i \in DOMAIN changes : changes[i].time \in Nat /\ changes[i].key[2] \in Nat
  BY <1>1, WindowOrdered, StreamsAreNumbers DEF Changes, Keys
<1>3. is \subseteq DOMAIN changes
  BY DEF EventChanges
<1>4. Positions(changes, is)
  BY <1>3, OrderedLists
<1>5. PICK m \in Nat : m = Cardinality(is)
  BY <1>4, OrderedIs
<1>6. PICK f \in [1 .. m -> is] :
        /\ ts = [n \in 1 .. m |-> changes[f[n]]]
        /\ \A a, b \in 1 .. m : a < b => Earlier(changes, f[a], f[b])
        /\ \A i \in is : \E a \in 1 .. m : f[a] = i
  BY <1>4, <1>5, OrderedIs
<1>7. \A n \in 1 .. m : f[n] \in is /\ f[n] \in DOMAIN changes /\ f[n] \in Nat /\ ts[n] = changes[f[n]]
  BY <1>1, <1>3, <1>6
<1>8. DOMAIN ts = 1 .. m /\ Len(ts) = m
  <2>1. ts \in [1 .. m -> Changes]
    BY <1>1, <1>6, <1>7
  <2>2. ts \in Seq(Changes) /\ DOMAIN ts = 1 .. m
    BY <1>5, <2>1
  <2> QED
    BY <1>5, <2>2
<1>9. \A i, j \in is : changes[i].key = changes[j].key
  BY <1>3 DEF EventChanges, KeysOccur, SingleInstance
<1>10. ASSUME NEW a \in 1 .. m, NEW b \in 1 .. m, a < b PROVE f[a] < f[b]
  <2>1. PICK i \in is, j \in is : i = f[a] /\ j = f[b]
    BY <1>7
  <2>2. Earlier(changes, i, j)
    BY <1>6, <1>10, <2>1
  <2>3. i \in DOMAIN changes /\ j \in DOMAIN changes /\ i \in Nat /\ j \in Nat
    BY <1>1, <1>3
  <2>4. changes[i].key = changes[j].key
    BY <1>9
  <2>5. j < i => changes[j].time <= changes[i].time
    BY <2>3, <2>4 DEF Inv, ChangesInOrder
  <2>6. i < j
    BY <1>2, <2>2, <2>3, <2>4, <2>5 DEF Earlier
  <2> QED
    BY <2>1, <2>6
<1>11. ASSUME NEW n \in 2 .. m PROVE ts[n].before = ts[n - 1].after
  <2>1. n \in 1 .. m /\ n - 1 \in 1 .. m /\ n - 1 < n
    BY <1>5
  <2>2. PICK i \in is, j \in is : i = f[n - 1] /\ j = f[n]
    BY <1>7, <2>1
  <2>3. i \in DOMAIN changes /\ j \in DOMAIN changes /\ i \in Nat /\ j \in Nat /\ i < j
    BY <1>1, <1>3, <1>10, <2>1, <2>2
  <2>4. PICK k : k = changes[j].key
    OBVIOUS
  <2>5. changes[i].key = k
    BY <1>9, <2>4
  <2>6. Adjacent(k, i, j)
    <3> SUFFICES ASSUME NEW x \in (i + 1) .. (j - 1), changes[x].key = k PROVE FALSE
      BY DEF Adjacent
    <3>1. x \in DOMAIN changes /\ i < x /\ x < j /\ x \in Nat
      BY <1>1, <2>3
    <3>2. changes[x].time <= changes[j].time
      BY <2>3, <2>4, <3>1 DEF Inv, ChangesInOrder
    <3>3. changes[j].phase = "Event" /\ changes[j].key[1] = s
      BY DEF EventChanges
    <3>4. changes[j].time <= EventEnd
      BY <2>3, <3>3 DEF Inv, ChangesInWindow, Phase
    <3>5. changes[x].time <= EventEnd
      BY <1>2, <2>3, <3>1, <3>2, <3>4, WindowOrdered
    <3>6. changes[x].phase = "Event"
      BY <3>1, <3>5 DEF Inv, ChangesInWindow, Phase
    <3>7. x \in is
      BY <2>4, <3>1, <3>3, <3>6 DEF EventChanges
    <3>8. PICK a \in 1 .. m : f[a] = x
      BY <1>6, <3>7
    <3>9. a # n /\ a # n - 1
      BY <2>2, <2>3, <3>1, <3>8
    <3>10. CASE a < n - 1
      BY <1>7, <1>10, <2>1, <2>2, <2>3, <3>1, <3>8, <3>10
    <3>11. CASE n < a
      BY <1>7, <1>10, <2>1, <2>2, <2>3, <3>1, <3>8, <3>11
    <3> QED
      BY <1>5, <2>1, <3>9, <3>10, <3>11
  <2>7. i \in 1 .. (j - 1)
    BY <1>1, <2>3
  <2>8. changes[i].after = changes[j].before
    BY <2>3, <2>4, <2>5, <2>6, <2>7 DEF Inv, Chained, ChangesChain
  <2> QED
    BY <1>7, <2>1, <2>2, <2>8
<1>12. \A n \in 1 .. m : ts[n] \in Changes /\ ts[n].before # ts[n].after
  BY <1>1, <1>7 DEF Inv, Chained, ChangesChain
<1> QED
  BY <1>5, <1>8, <1>11, <1>12

\* A path before a withdrawal is never empty.
LEMMA LossHadPath ==
  ASSUME PathsArePresent, NEW t \in Changes, t.before # t.after, IsLoss(Transition(t))
  PROVE  Transition(t).before # << >>
<1>1. PICK x : x = Transition(t)
  OBVIOUS
<1>2. x.kind = Kind(t, Absent) /\ x.before = PathOf(t.before) /\ x.after = PathOf(t.after)
  BY <1>1 DEF Transition
<1>3. CASE x.after = << >> /\ x.before # << >>
  BY <1>1, <1>3
<1>4. CASE x.kind = "Withdrawal"
  <2>1. t.after = Absent
    BY <1>2, <1>4, WithdrawalLeavesNone
  <2>2. t.before \in Routes
    BY <2>1 DEF Changes, RouteOrNone
  <2>3. PathOf(t.before) = t.before.path
    BY <2>1 DEF PathOf
  <2> QED
    BY <1>1, <1>2, <2>2, <2>3 DEF PathsArePresent
<1> QED
  BY <1>1, <1>3, <1>4 DEF IsLoss

\* The records of a split share their position of the withdrawal and what they have before it.
LEMMA SplitSharesShape ==
  ASSUME NEW part, Splits(part), NEW r \in part, NEW q \in part,
         FirstLoss(r) \in Nat \ {0}, FirstLoss(q) \in Nat \ {0}
  PROVE  /\ FirstLoss(r) = FirstLoss(q)
         /\ \A n \in 1 .. (FirstLoss(r) - 1) :
              /\ r.transitions[n].before = q.transitions[n].before
              /\ r.transitions[n].after = q.transitions[n].after
<1>1. Shape(r) \in Shapes(part) /\ Shape(q) \in Shapes(part)
  BY DEF Shapes
<1>2. Shape(r) = Shape(q)
  BY <1>1 DEF Splits
<1>3. PICK a \in Nat \ {0}, b \in Nat \ {0} : a = FirstLoss(r) /\ b = FirstLoss(q)
  OBVIOUS
<1> DEFINE At(x, n) == [kind |-> x.transitions[n].kind, before |-> x.transitions[n].before,
                        after |-> x.transitions[n].after]
<1>4. Shape(r) = [n \in 1 .. (a - 1) |-> At(r, n)] /\ Shape(q) = [n \in 1 .. (b - 1) |-> At(q, n)]
  BY <1>3 DEF Shape
<1> HIDE DEF At
<1>5. 1 .. (a - 1) = 1 .. (b - 1)
  BY <1>2, <1>4
<1>6. a = b
  <2>1. \A x \in Nat : (x \in 1 .. (a - 1)) <=> (x \in 1 .. (b - 1))
    BY <1>5
  <2>2. ~(a < b)
    <3>1. a \in Nat /\ (a < b => a \in 1 .. (b - 1)) /\ a \notin 1 .. (a - 1)
      OBVIOUS
    <3> QED
      BY <2>1, <3>1
  <2>3. ~(b < a)
    <3>1. b \in Nat /\ (b < a => b \in 1 .. (a - 1)) /\ b \notin 1 .. (b - 1)
      OBVIOUS
    <3> QED
      BY <2>1, <3>1
  <2> QED
    BY <2>2, <2>3
<1>7. \A n \in 1 .. (a - 1) : At(r, n) = At(q, n)
  BY <1>2, <1>4, <1>6
<1>8. \A n \in 1 .. (a - 1) : /\ r.transitions[n].before = q.transitions[n].before
                              /\ r.transitions[n].after = q.transitions[n].after
  BY <1>7 DEF At
<1> QED
  BY <1>3, <1>6, <1>8

\* Two records have the same paths before a position.
AlikeUntil(r, q, n) ==
  \A i \in 1 .. (n - 1) : /\ r.transitions[i].before = q.transitions[i].before
                          /\ r.transitions[i].after = q.transitions[i].after

\* A position of a record.
PositionOf(T, r, n) == r.transitions \in Seq(T) /\ n \in 1 .. Len(r.transitions)

\* Records that are alike before the withdrawal share the story of their first half.
LEMMA FirstHalfShared ==
  ASSUME NEW T, NEW r, NEW q, NEW n, PositionOf(T, r, n), PositionOf(T, q, n),
         r.baseline = q.baseline, r.changed = q.changed, AlikeUntil(r, q, n),
         NEW x, NEW y, x = project(r, Until(r, n)), y = project(q, Until(q, n))
  PROVE  x.baseline = y.baseline /\ x.changed = y.changed
<1>1. ASSUME NEW z, z.transitions \in Seq(T), n \in 1 .. Len(z.transitions)
      PROVE  /\ Befores(Until(z, n)) = [i \in 1 .. (n - 1) |-> z.transitions[i].before]
             /\ Afters(Until(z, n)) = [i \in 1 .. (n - 1) |-> z.transitions[i].after]
  <2>1. PICK u \in Seq(T) : u = z.transitions
    BY <1>1
  <2>2. n \in 1 .. Len(u) /\ Len(u) \in Nat
    BY <1>1, <2>1
  <2>3. PICK a : a = SubSeq(u, 1, n - 1)
    OBVIOUS
  <2>4. \A i \in 1 .. (n - 1) : u[i] \in T
    BY <2>2
  <2>5. /\ a \in Seq(T) /\ Len(a) = (IF 1 <= n - 1 THEN (n - 1) - 1 + 1 ELSE 0)
        /\ \A i \in 1 .. ((n - 1) - 1 + 1) : a[i] = u[1 + i - 1]
    BY <2>2, <2>3, <2>4, SubSeqProperties
  <2>6. DOMAIN a = 1 .. (n - 1) /\ \A i \in 1 .. (n - 1) : a[i] = u[i]
    BY <2>2, <2>5
  <2>7. Until(z, n) = a
    BY <2>1, <2>3 DEF Until
  <2> QED
    BY <2>1, <2>6, <2>7 DEF Befores, Afters
<1>2. Befores(Until(r, n)) = Befores(Until(q, n)) /\ Afters(Until(r, n)) = Afters(Until(q, n))
  BY <1>1, ZenonT(60) DEF AlikeUntil, PositionOf
<1>3. ASSUME NEW z, NEW sel
      PROVE  /\ project(z, sel).baseline = FirstPath(Befores(sel), NonEmpty(Befores(sel)), z.baseline)
             /\ project(z, sel).changed = FirstPath(Afters(sel), NonEmpty(Afters(sel)), z.changed)
  BY DEF project
<1> QED
  BY <1>2, <1>3

\* The second half of a story starts with the path before the withdrawal.
LEMMA SecondHalfStarts ==
  ASSUME NEW T, NEW r, r.transitions \in Seq(T), NEW n \in 1 .. Len(r.transitions),
         r.transitions[n].before # << >>
  PROVE  project(r, From(r, n)).baseline = r.transitions[n].before
<1>1. PICK y \in Seq(T) : y = r.transitions
  OBVIOUS
<1>2. n \in 1 .. Len(y) /\ Len(y) \in Nat /\ y[n].before # << >>
  BY <1>1
<1>3. PICK b : b = SubSeq(y, n, Len(y))
  OBVIOUS
<1>4. \A i \in n .. Len(y) : y[i] \in T
  BY <1>2
<1>5. /\ b \in Seq(T) /\ Len(b) = (IF n <= Len(y) THEN Len(y) - n + 1 ELSE 0)
      /\ \A i \in 1 .. (Len(y) - n + 1) : b[i] = y[n + i - 1]
  BY <1>2, <1>3, <1>4, SubSeqProperties
<1>6. PICK m \in Nat : m = Len(b) /\ 1 <= m /\ DOMAIN b = 1 .. m
  BY <1>2, <1>5
<1>7. b[1] = y[n]
  <2>1. 1 \in 1 .. (Len(y) - n + 1) /\ n + 1 - 1 = n
    BY <1>2
  <2> QED
    BY <1>5, <2>1
<1>8. PICK p : p = Befores(b)
  OBVIOUS
<1>9. DOMAIN p = 1 .. m /\ p[1] = y[n].before
  BY <1>6, <1>7, <1>8 DEF Befores
<1>10. 1 \in NonEmpty(p) /\ \A x \in NonEmpty(p) : x \in Nat /\ 1 <= x
  BY <1>2, <1>6, <1>9 DEF NonEmpty
<1>11. Min(NonEmpty(p)) = 1
  <2>1. Min(NonEmpty(p)) \in NonEmpty(p) /\ \A x \in NonEmpty(p) : Min(NonEmpty(p)) <= x
    BY <1>10 DEF Min
  <2>2. Min(NonEmpty(p)) <= 1 /\ 1 <= Min(NonEmpty(p)) /\ Min(NonEmpty(p)) \in Nat
    BY <1>10, <2>1
  <2> QED
    BY <2>2
<1>12. FirstPath(p, NonEmpty(p), r.baseline) = y[n].before
  BY <1>9, <1>10, <1>11 DEF FirstPath
<1>13. From(r, n) = b
  BY <1>1, <1>3 DEF From
<1>14. project(r, b).baseline = FirstPath(Befores(b), NonEmpty(Befores(b)), r.baseline)
  BY DEF project
<1> QED
  BY <1>1, <1>8, <1>12, <1>13, <1>14

\* The withdrawal of a stream with one instance, as its record has it: it takes away the path
\* that was there, which is the baseline or what the change before has left.
LEMMA LossContinues ==
  ASSUME PathsArePresent, Inv, KeysOccur, NEW s, SingleInstance(s),
         NEW r, r = Evidence(s, changes), NEW n, n = FirstLoss(r), n # 0
  PROVE  /\ n \in 1 .. Len(r.transitions) /\ r.transitions[n].before # << >>
         /\ n = 1 => r.transitions[n].before = r.baseline
         /\ n # 1 => r.transitions[n].before = r.transitions[n - 1].after
<1>1. PICK tr : tr = Transitions(s, changes)
  OBVIOUS
<1>2. r.transitions = tr /\ r.baseline = BaselinePath(s, tr)
  BY <1>1 DEF Evidence, EvidenceOf, Record
<1>3. PICK is, ts : is = EventChanges(s, changes) /\ ts = Ordered(changes, is)
  OBVIOUS
<1>4. /\ Len(ts) \in Nat /\ DOMAIN ts = 1 .. Len(ts)
      /\ \A i \in 1 .. Len(ts) : ts[i] \in Changes /\ ts[i].before # ts[i].after
      /\ \A i \in 2 .. Len(ts) : ts[i].before = ts[i - 1].after
  BY <1>3, SingleChains
<1>5. tr = [i \in 1 .. Len(ts) |-> Transition(ts[i])]
  BY <1>1, <1>3, <1>4 DEF Transitions, AsTransitions
<1>6. PICK T : tr \in Seq(T)
  BY <1>1, TransitionsAreSeq
<1>7. n \in 1 .. Len(tr) /\ IsLoss(tr[n])
  BY <1>2, <1>6, FirstLossIs
<1>8. DOMAIN tr = 1 .. Len(tr) /\ Len(tr) = Len(ts)
  BY <1>4, <1>5, <1>6
<1>9. PICK t : t = ts[n]
  OBVIOUS
<1>10. t \in Changes /\ t.before # t.after /\ tr[n] = Transition(t)
  BY <1>4, <1>5, <1>7, <1>8, <1>9
<1>11. tr[n].before # << >>
  BY <1>7, <1>10, LossHadPath
<1>12. n = 1 => tr[n].before = BaselinePath(s, tr)
  <2>1. tr # << >>
    BY <1>6, <1>7
  <2> QED
    BY <1>11, <2>1 DEF BaselinePath
<1>13. ASSUME n # 1 PROVE tr[n].before = tr[n - 1].after
  <2>1. n \in 2 .. Len(ts) /\ n - 1 \in 1 .. Len(ts)
    BY <1>4, <1>7, <1>8, <1>13
  <2>2. ts[n].before = ts[n - 1].after
    BY <1>4, <2>1
  <2>3. tr[n].before = PathOf(ts[n].before) /\ tr[n - 1].after = PathOf(ts[n - 1].after)
    BY <1>5, <1>7, <1>8, <2>1 DEF Transition
  <2> QED
    BY <2>2, <2>3
<1> QED
  BY <1>2, <1>7, <1>11, <1>12, <1>13

\* The findings of a split hold one half of each record.
LEMMA SplitRecords ==
  ASSUME NEW e, NEW part, Splits(part), NEW f \in FindingsOf(e, part), NEW r \in f.records
  PROVE  \/ f.role = "before" /\ \E x \in part : r = project(x, Until(x, FirstLoss(x)))
         \/ f.role = "absence" /\ \E x \in part : r = project(x, From(x, FirstLoss(x)))
<1>1. PICK b : b = BeforeFinding(part)
  OBVIOUS
<1>2. b.role = "before" /\ b.records = {project(x, Until(x, FirstLoss(x))) : x \in part}
  BY <1>1 DEF BeforeFinding
<1>3. PICK a : a = [role |-> "absence", kind |-> e.kind, end_state |-> e.end_state,
                    records |-> {project(x, From(x, FirstLoss(x))) : x \in part}]
  OBVIOUS
<1>4. a.role = "absence" /\ a.records = {project(x, From(x, FirstLoss(x))) : x \in part}
  BY <1>3
<1>5. f = b \/ f = a
  BY <1>1, <1>3 DEF FindingsOf
<1>6. f = b => \E x \in part : r = project(x, Until(x, FirstLoss(x)))
  BY <1>2
<1>7. f = a => \E x \in part : r = project(x, From(x, FirstLoss(x)))
  BY <1>4
<1> QED
  BY <1>2, <1>4, <1>5, <1>6, <1>7

\* For any changes and sessions, the prefixes of a finding have the same route before it and the
\* same first route after it; for the absence half of a split the route before it, if its
\* prefixes had one instance each (build_findings, project).
THEOREM PrefixesShareTheirStory ==
  ASSUME PathsArePresent PROVE Spec => []StoryIsShared
<1>1. ASSUME Inv, KeysOccur PROVE StoryIsShared
  <2> SUFFICES ASSUME NEW e \in ChangedEpisodes(changes), ~Panics(e, changes),
                      NEW f \in build_findings(e, changes), NEW r \in f.records, NEW q \in f.records
               PROVE  \/ /\ r.baseline = q.baseline
                         /\ f.role # "absence" => r.changed = q.changed
                      \/ f.role = "absence" /\ ~(SingleInstance(r.stream) /\ SingleInstance(q.stream))
    BY Zenon DEF StoryIsShared
  <2>1. PICK records : records = {Evidence(n.stream, changes) : n \in e.members}
    OBVIOUS
  <2>2. PICK part \in Partitions(records) : f \in FindingsOf(e, part) /\ part \in PartitionsOf(e, changes)
    BY <2>1 DEF build_findings, PartitionsOf
  <2>3. \A x, y \in part : x.baseline = y.baseline /\ x.changed = y.changed
    <3>1. PICK z \in records : part = {x \in records : x.baseline = z.baseline /\ x.changed = z.changed}
      BY <2>2 DEF Partitions
    <3> QED
      BY <3>1
  <2>4. \A x \in part : x = Evidence(x.stream, changes) /\ x.transitions = Transitions(x.stream, changes)
    <3>1. part \subseteq records
      BY <2>2 DEF Partitions
    <3>2. \A s : Evidence(s, changes).stream = s /\ Evidence(s, changes).transitions = Transitions(s, changes)
      BY DEF Evidence, EvidenceOf, Record
    <3> QED
      BY <2>1, <3>1, <3>2
  <2>5. CASE ~Splits(part)
    BY <2>2, <2>3, <2>5, FindingsTell
  <2>6. CASE Splits(part)
    <3>1. \A x \in part : FirstLoss(x) # 0
      BY <2>2, <2>6 DEF Panics
    <3>2. ASSUME NEW x \in part, NEW y \in part
          PROVE  /\ FirstLoss(x) \in Nat \ {0} /\ FirstLoss(x) = FirstLoss(y)
                 /\ FirstLoss(x) \in 1 .. Len(x.transitions) /\ FirstLoss(x) \in 1 .. Len(y.transitions)
                 /\ \E T : x.transitions \in Seq(T) /\ y.transitions \in Seq(T)
                 /\ \A n \in 1 .. (FirstLoss(x) - 1) :
                      /\ x.transitions[n].before = y.transitions[n].before
                      /\ x.transitions[n].after = y.transitions[n].after
      <4>1. PICK T1 : x.transitions \in Seq(T1)
        BY <1>1, <2>4, TransitionsAreSeq
      <4>2. PICK T2 : y.transitions \in Seq(T2)
        BY <1>1, <2>4, TransitionsAreSeq
      <4>3. x.transitions \in Seq(T1 \cup T2) /\ y.transitions \in Seq(T1 \cup T2)
        <5>1. T1 \subseteq T1 \cup T2 /\ T2 \subseteq T1 \cup T2
          OBVIOUS
        <5> QED
          BY <4>1, <4>2, <5>1, SeqMonotonic
      <4>4. FirstLoss(x) \in 1 .. Len(x.transitions) /\ FirstLoss(y) \in 1 .. Len(y.transitions)
        BY <3>1, <4>1, <4>2, FirstLossIs
      <4>5. FirstLoss(x) \in Nat \ {0} /\ FirstLoss(y) \in Nat \ {0}
        BY <4>4
      <4>6. /\ FirstLoss(x) = FirstLoss(y)
            /\ \A n \in 1 .. (FirstLoss(x) - 1) :
                 /\ x.transitions[n].before = y.transitions[n].before
                 /\ x.transitions[n].after = y.transitions[n].after
        BY <2>6, <4>5, SplitSharesShape
      <4> QED
        BY <4>3, <4>4, <4>5, <4>6
    <3>3. ASSUME NEW x \in part, NEW y \in part,
                 r = project(x, Until(x, FirstLoss(x))), q = project(y, Until(y, FirstLoss(y)))
          PROVE  r.baseline = q.baseline /\ r.changed = q.changed
      <4>1. PICK T, n : x.transitions \in Seq(T) /\ y.transitions \in Seq(T) /\ n = FirstLoss(x)
        <5>1. PICK T : x.transitions \in Seq(T) /\ y.transitions \in Seq(T)
          BY <3>2
        <5> QED
          BY <5>1
      <4>2. /\ n = FirstLoss(y) /\ n \in 1 .. Len(x.transitions) /\ n \in 1 .. Len(y.transitions)
            /\ \A i \in 1 .. (n - 1) : /\ x.transitions[i].before = y.transitions[i].before
                                       /\ x.transitions[i].after = y.transitions[i].after
        BY <3>2, <4>1
      <4>3. x.baseline = y.baseline /\ x.changed = y.changed
        BY <2>3
      <4>4. x.transitions \in Seq(T) /\ y.transitions \in Seq(T)
        BY <4>1
      <4>5. AlikeUntil(x, y, n)
        BY <4>2 DEF AlikeUntil
      <4>6. r = project(x, Until(x, n)) /\ q = project(y, Until(y, n))
        BY <3>3, <4>1, <4>2
      <4> QED
        <5>1. PositionOf(T, x, n) /\ PositionOf(T, y, n)
          BY <4>2, <4>4 DEF PositionOf
        <5> QED
          BY ONLY <4>3, <4>5, <4>6, <5>1, FirstHalfShared
    <3>4. ASSUME NEW x \in part, NEW y \in part, SingleInstance(r.stream), SingleInstance(q.stream),
                 r = project(x, From(x, FirstLoss(x))), q = project(y, From(y, FirstLoss(y)))
          PROVE  r.baseline = q.baseline
      <4>1. PICK T, n : x.transitions \in Seq(T) /\ y.transitions \in Seq(T) /\ n = FirstLoss(x)
        <5>1. PICK T : x.transitions \in Seq(T) /\ y.transitions \in Seq(T)
          BY <3>2
        <5> QED
          BY <5>1
      <4>2. /\ n = FirstLoss(y) /\ n \in Nat \ {0}
            /\ \A i \in 1 .. (n - 1) : x.transitions[i].after = y.transitions[i].after
        BY <3>2, <4>1
      <4>3. SingleInstance(x.stream) /\ SingleInstance(y.stream)
        BY <3>4, ProjectTells
      <4>4. /\ n \in 1 .. Len(x.transitions) /\ x.transitions[n].before # << >>
            /\ n = 1 => x.transitions[n].before = x.baseline
            /\ n # 1 => x.transitions[n].before = x.transitions[n - 1].after
        <5>1. PICK s : s = x.stream
          OBVIOUS
        <5>2. SingleInstance(s) /\ x = Evidence(s, changes) /\ n = FirstLoss(x) /\ n # 0
          BY <2>4, <4>1, <4>2, <4>3, <5>1
        <5> QED
          BY <1>1, <5>2, LossContinues
      <4>5. /\ n \in 1 .. Len(y.transitions) /\ y.transitions[n].before # << >>
            /\ n = 1 => y.transitions[n].before = y.baseline
            /\ n # 1 => y.transitions[n].before = y.transitions[n - 1].after
        <5>1. PICK s : s = y.stream
          OBVIOUS
        <5>2. SingleInstance(s) /\ y = Evidence(s, changes) /\ n = FirstLoss(y) /\ n # 0
          BY <2>4, <4>1, <4>2, <4>3, <5>1
        <5> QED
          BY <1>1, <5>2, LossContinues
      <4>6. r.baseline = x.transitions[n].before
        BY <3>4, <4>1, <4>4, SecondHalfStarts
      <4>7. q.baseline = y.transitions[n].before
        BY <3>4, <4>1, <4>2, <4>5, SecondHalfStarts
      <4>8. x.baseline = y.baseline
        BY <2>3
      <4>9. n # 1 => n - 1 \in 1 .. (n - 1)
        BY <4>2
      <4> QED
        BY <4>2, <4>4, <4>5, <4>6, <4>7, <4>8, <4>9
    <3>5. \/ f.role = "before" /\ \E x \in part : r = project(x, Until(x, FirstLoss(x)))
          \/ f.role = "absence" /\ \E x \in part : r = project(x, From(x, FirstLoss(x)))
      BY <2>2, <2>6, SplitRecords
    <3>6. \/ f.role = "before" /\ \E y \in part : q = project(y, Until(y, FirstLoss(y)))
          \/ f.role = "absence" /\ \E y \in part : q = project(y, From(y, FirstLoss(y)))
      BY <2>2, <2>6, SplitRecords
    <3>7. CASE f.role = "before"
      BY <3>3, <3>5, <3>6, <3>7
    <3>8. CASE f.role = "absence"
      BY <3>4, <3>5, <3>6, <3>8
    <3> QED
      BY <3>5, <3>7, <3>8
  <2> QED
    BY <2>5, <2>6
<1>2. Inv /\ KeysOccur => StoryIsShared
  BY <1>1
<1> QED
  BY <1>2, ReconstructionIsSound, ChangedKeysOccur, PTL
-----------------------------------------------------------------------------
(* What the sequences of a grammar stand for                               *)

\* Induction up to a bound, for a set of numbers.
LEMMA UpTo ==
  ASSUME NEW N \in Nat, NEW P, 0 \in P, \A n \in 1 .. N : n - 1 \in P => n \in P
  PROVE  \A n \in 0 .. N : n \in P
<1> DEFINE bad == {n \in 0 .. N : n \notin P}
<1> SUFFICES ASSUME bad # {} PROVE FALSE
  OBVIOUS
<1>1. bad \subseteq Nat
  OBVIOUS
<1>2. PICK m \in bad : \A y \in bad : m <= y
  <2> HIDE DEF bad
  <2> QED BY <1>1, LeastOf
<1>3. m \in 1 .. N /\ m - 1 \in 0 .. N
  BY <1>2
<1>4. m - 1 \in P
  BY <1>2, <1>3
<1> QED
  BY <1>2, <1>3, <1>4

\* expand_seq, symbol by symbol.
LEMMA TextUnfolds ==
  ASSUME NEW q, NEW V, Len(q) \in Nat
  PROVE  \E g : /\ g[0] = << >> /\ expand_seq(q, V) = g[Len(q)]
                /\ \A n \in 1 .. Len(q) : g[n] = g[n - 1] \o SymbolText(q[n], V)
<1> DEFINE N == Len(q)
           T(n) == SymbolText(q[n], V)
           Upto(m, g) == g = [n \in 0 .. m |-> IF n = 0 THEN << >> ELSE g[n - 1] \o T(n)]
           ok == {m \in 0 .. N : \E g : Upto(m, g)}
<1>1. N \in Nat
  OBVIOUS
<1>2. expand_seq(q, V) = (CHOOSE g : Upto(N, g))[N]
  BY DEF expand_seq
<1> HIDE DEF N, T
<1>3. 0 \in ok
  <2>1. Upto(0, [n \in 0 .. 0 |-> << >>])
    OBVIOUS
  <2> HIDE DEF Upto
  <2> QED
    BY <1>1, <2>1
<1>4. ASSUME NEW m \in 1 .. N, m - 1 \in ok
      PROVE  m \in ok
  <2>1. PICK g : Upto(m - 1, g)
    BY <1>4
  <2> DEFINE h == [n \in 0 .. m |-> IF n <= m - 1 THEN g[n] ELSE g[m - 1] \o T(m)]
  <2>2. ASSUME NEW n \in 0 .. m
        PROVE  h[n] = IF n = 0 THEN << >> ELSE h[n - 1] \o T(n)
    <3>1. CASE n <= m - 1
      <4>1. n \in 0 .. (m - 1) /\ h[n] = g[n] /\ (n # 0 => h[n - 1] = g[n - 1])
        BY <1>1, <3>1
      <4>2. g[n] = IF n = 0 THEN << >> ELSE g[n - 1] \o T(n)
        BY <2>1, <4>1
      <4> QED
        BY <4>1, <4>2
    <3>2. CASE n = m
      <4>1. h[n] = g[m - 1] \o T(m) /\ h[n - 1] = g[m - 1] /\ n # 0
        BY <1>1, <3>2
      <4> QED
        BY <3>2, <4>1
    <3> QED
      BY <1>1, <3>1, <3>2
  <2>3. h = [n \in 0 .. m |-> IF n = 0 THEN << >> ELSE h[n - 1] \o T(n)]
    <3>1. h = [n \in 0 .. m |-> h[n]]
      OBVIOUS
    <3> HIDE DEF h
    <3> QED
      BY <2>2, <3>1
  <2>4. Upto(m, h)
    <3> HIDE DEF h
    <3> QED
      BY <2>3
  <2> HIDE DEF Upto, h
  <2> QED
    BY <1>1, <2>4
<1>5. N \in ok
  <2> HIDE DEF ok
  <2>1. \A m \in 1 .. N : m - 1 \in ok => m \in ok
    BY <1>4
  <2> QED BY <1>1, <1>3, <2>1, UpTo
<1>6. PICK g : g = CHOOSE x : Upto(N, x)
  OBVIOUS
<1>7. Upto(N, g)
  BY <1>5, <1>6
<1>8. \A n \in 0 .. N : g[n] = IF n = 0 THEN << >> ELSE g[n - 1] \o T(n)
  BY <1>7, Zenon
<1>9. g[0] = << >> /\ \A n \in 1 .. N : g[n] = g[n - 1] \o T(n)
  <2>1. 0 \in 0 .. N /\ \A n \in 1 .. N : n \in 0 .. N /\ n # 0
    BY <1>1
  <2> QED
    BY <1>8, <2>1
<1> QED
  BY <1>2, <1>6, <1>9 DEF N, T

\* The symbols over rules R, and what rules may stand for.
SymbolsOver(R) == {Terminal(t) : t \in Nat} \cup {NonTerminal(r) : r \in R}

\* A symbol stands for a sequence of terminals.
LEMMA SymbolTextType ==
  ASSUME NEW R, NEW V \in [R -> Seq(Nat)], NEW y \in SymbolsOver(R)
  PROVE  /\ SymbolText(y, V) \in Seq(Nat)
         /\ (\A r \in R : V[r] # << >>) => Len(SymbolText(y, V)) >= 1
<1>1. CASE \E t \in Nat : y = Terminal(t)
  <2>1. PICK t \in Nat : y = Terminal(t)
    BY <1>1
  <2>2. SymbolText(y, V) = << t >>
    BY <2>1 DEF SymbolText, Terminal
  <2> QED
    BY <2>2
<1>2. CASE \E r \in R : y = NonTerminal(r)
  <2>1. PICK r \in R : y = NonTerminal(r)
    BY <1>2
  <2>2. SymbolText(y, V) = V[r]
    BY <2>1 DEF SymbolText, NonTerminal
  <2>3. V[r] \in Seq(Nat) /\ (V[r] # << >> => Len(V[r]) >= 1)
    OBVIOUS
  <2> QED
    BY <2>2, <2>3
<1> QED
  BY <1>1, <1>2 DEF SymbolsOver

\* So does a sequence of symbols, and one at least as long when no rule stands
\* for nothing.
LEMMA TextType ==
  ASSUME NEW R, NEW V \in [R -> Seq(Nat)], NEW q \in Seq(SymbolsOver(R))
  PROVE  /\ expand_seq(q, V) \in Seq(Nat)
         /\ (\A r \in R : V[r] # << >>) => Len(expand_seq(q, V)) >= Len(q)
<1>1. Len(q) \in Nat /\ \A n \in 1 .. Len(q) : q[n] \in SymbolsOver(R)
  OBVIOUS
<1>2. PICK g : /\ g[0] = << >> /\ expand_seq(q, V) = g[Len(q)]
               /\ \A n \in 1 .. Len(q) : g[n] = g[n - 1] \o SymbolText(q[n], V)
  BY <1>1, TextUnfolds
<1> DEFINE full == \A r \in R : V[r] # << >>
           P == {n \in 0 .. Len(q) : g[n] \in Seq(Nat) /\ (full => Len(g[n]) >= n)}
<1> HIDE DEF full
<1>3. 0 \in P
  <2>1. 0 \in 0 .. Len(q) /\ g[0] \in Seq(Nat) /\ Len(g[0]) >= 0
    BY <1>1, <1>2
  <2> QED
    BY <2>1
<1>4. ASSUME NEW n \in 1 .. Len(q), n - 1 \in P
      PROVE  n \in P
  <2>1. PICK a : a = g[n - 1]
    OBVIOUS
  <2>2. PICK b : b = SymbolText(q[n], V)
    OBVIOUS
  <2>3. a \in Seq(Nat) /\ (full => Len(a) >= n - 1)
    BY <1>4, <2>1
  <2>4. b \in Seq(Nat) /\ (full => Len(b) >= 1)
    BY <1>1, <2>2, SymbolTextType DEF full
  <2>5. g[n] = a \o b
    BY <1>2, <2>1, <2>2
  <2>6. a \o b \in Seq(Nat) /\ Len(a \o b) = Len(a) + Len(b) /\ Len(a) \in Nat /\ Len(b) \in Nat
    BY <2>3, <2>4, ConcatProperties
  <2>7. n \in 0 .. Len(q) /\ (full => Len(a \o b) >= n)
    BY <1>1, <2>3, <2>4, <2>6
  <2> QED
    BY <2>5, <2>6, <2>7
<1>5. Len(q) \in P
  <2> HIDE DEF P
  <2>1. \A n \in 1 .. Len(q) : n - 1 \in P => n \in P
    BY <1>4
  <2>2. \A n \in 0 .. Len(q) : n \in P
    BY <1>1, <1>3, <2>1, UpTo
  <2> QED BY <1>1, <2>2
<1> QED
  BY <1>2, <1>5 DEF full

\* Concatenation is associative.
LEMMA TextsAssociate ==
  ASSUME NEW a \in Seq(Nat), NEW b \in Seq(Nat), NEW c \in Seq(Nat)
  PROVE  (a \o b) \o c = a \o (b \o c)
BY ConcatAssociative

\* Sequences that join stand for what joins.
LEMMA TextJoins ==
  ASSUME NEW R, NEW V \in [R -> Seq(Nat)],
         NEW q \in Seq(SymbolsOver(R)), NEW u \in Seq(SymbolsOver(R))
  PROVE  expand_seq(q \o u, V) = expand_seq(q, V) \o expand_seq(u, V)
<1>1. Len(q) \in Nat /\ Len(u) \in Nat
  OBVIOUS
<1>2. PICK w : w = q \o u
  OBVIOUS
<1>3. /\ w \in Seq(SymbolsOver(R)) /\ Len(w) = Len(q) + Len(u)
      /\ \A i \in 1 .. Len(q) + Len(u) : w[i] = IF i <= Len(q) THEN q[i] ELSE u[i - Len(q)]
  BY <1>2, ConcatProperties
<1>4. PICK g : /\ g[0] = << >> /\ expand_seq(q, V) = g[Len(q)]
               /\ \A n \in 1 .. Len(q) : g[n] = g[n - 1] \o SymbolText(q[n], V)
  BY <1>1, TextUnfolds
<1>5. PICK f : /\ f[0] = << >> /\ expand_seq(u, V) = f[Len(u)]
               /\ \A n \in 1 .. Len(u) : f[n] = f[n - 1] \o SymbolText(u[n], V)
  BY <1>1, TextUnfolds
<1>6. PICK h : /\ h[0] = << >> /\ expand_seq(w, V) = h[Len(w)]
               /\ \A n \in 1 .. Len(w) : h[n] = h[n - 1] \o SymbolText(w[n], V)
  <2>1. Len(w) \in Nat
    BY <1>1, <1>3
  <2> QED
    BY <2>1, TextUnfolds
<1> DEFINE A == {n \in 0 .. Len(q) : h[n] = g[n]}
           B == {n \in 0 .. Len(u) : f[n] \in Seq(Nat) /\ h[Len(q) + n] = g[Len(q)] \o f[n]}
<1>7. Len(q) \in A
  <2>1. 0 \in A
    BY <1>1, <1>4, <1>6
  <2>2. ASSUME NEW n \in 1 .. Len(q), n - 1 \in A
        PROVE  n \in A
    <3>1. n \in 1 .. Len(w) /\ w[n] = q[n]
      BY <1>1, <1>3
    <3>2. h[n] = h[n - 1] \o SymbolText(q[n], V)
      BY <1>6, <3>1
    <3>3. g[n] = g[n - 1] \o SymbolText(q[n], V)
      BY <1>4
    <3>4. h[n - 1] = g[n - 1] /\ n \in 0 .. Len(q)
      BY <1>1, <2>2
    <3> QED
      BY <3>2, <3>3, <3>4
  <2> HIDE DEF A
  <2>3. \A n \in 1 .. Len(q) : n - 1 \in A => n \in A
    BY <2>2
  <2>4. \A n \in 0 .. Len(q) : n \in A
    BY <1>1, <2>1, <2>3, UpTo
  <2> QED BY <1>1, <2>4
<1>8. g[Len(q)] \in Seq(Nat)
  BY <1>4, TextType
<1>9. Len(u) \in B
  <2>1. 0 \in B
    <3>1. h[Len(q)] = g[Len(q)] \o << >>
      BY <1>7, <1>8, ConcatEmptySeq
    <3>2. Len(q) + 0 = Len(q) /\ 0 \in 0 .. Len(u) /\ << >> \in Seq(Nat)
      BY <1>1
    <3> QED
      BY <1>5, <3>1, <3>2
  <2>2. ASSUME NEW n \in 1 .. Len(u), n - 1 \in B
        PROVE  n \in B
    <3>1. PICK x : x = SymbolText(u[n], V)
      OBVIOUS
    <3>2. Len(q) + n \in 1 .. Len(w) /\ w[Len(q) + n] = u[n] /\ (Len(q) + n) - 1 = Len(q) + (n - 1)
      <4>1. Len(q) + n \in 1 .. Len(q) + Len(u) /\ ~(Len(q) + n <= Len(q)) /\ Len(q) + n - Len(q) = n
        BY <1>1
      <4> QED
        BY <1>1, <1>3, <4>1
    <3>3. h[Len(q) + n] = h[Len(q) + (n - 1)] \o x
      <4>1. h[Len(q) + n] = h[(Len(q) + n) - 1] \o SymbolText(w[Len(q) + n], V)
        <5>1. PICK m : m = Len(q) + n
          OBVIOUS
        <5>2. m \in 1 .. Len(w)
          BY <3>2, <5>1
        <5>3. h[m] = h[m - 1] \o SymbolText(w[m], V)
          BY ONLY <1>6, <5>2
        <5> QED
          BY ONLY <5>1, <5>3, Zenon
      <4> QED
        BY <3>1, <3>2, <4>1
    <3>4. x \in Seq(Nat)
      BY <3>1, SymbolTextType
    <3>5. f[n] = f[n - 1] \o x
      BY <1>5, <3>1
    <3>6. f[n - 1] \in Seq(Nat) /\ h[Len(q) + (n - 1)] = g[Len(q)] \o f[n - 1]
      BY <2>2
    <3>7. f[n - 1] \o x \in Seq(Nat)
      BY <3>4, <3>6, ConcatProperties
    <3>8. (g[Len(q)] \o f[n - 1]) \o x = g[Len(q)] \o (f[n - 1] \o x)
      <4>1. PICK a, b : a = g[Len(q)] /\ b = f[n - 1]
        OBVIOUS
      <4>2. a \in Seq(Nat) /\ b \in Seq(Nat)
        BY <1>8, <3>6, <4>1
      <4>3. (a \o b) \o x = a \o (b \o x)
        BY ONLY <3>4, <4>2, TextsAssociate
      <4> QED
        BY <4>1, <4>3
    <3>9. n \in 0 .. Len(u) /\ f[n] \in Seq(Nat) /\ h[Len(q) + n] = g[Len(q)] \o f[n]
      BY <1>1, <3>3, <3>5, <3>6, <3>7, <3>8
    <3> QED
      BY <3>9
  <2> HIDE DEF B
  <2>3. \A n \in 1 .. Len(u) : n - 1 \in B => n \in B
    BY <2>2
  <2>4. \A n \in 0 .. Len(u) : n \in B
    BY <1>1, <2>1, <2>3, UpTo
  <2> QED BY <1>1, <2>4
<1> QED
  BY <1>2, <1>3, <1>4, <1>5, <1>6, <1>9

\* One symbol stands for what it stands for in a sequence.
LEMMA TextOfOne ==
  ASSUME NEW R, NEW V \in [R -> Seq(Nat)], NEW y \in SymbolsOver(R)
  PROVE  expand_seq(<< y >>, V) = SymbolText(y, V) /\ expand_seq(<< >>, V) = << >>
<1>1. PICK q : q = << y >>
  OBVIOUS
<1>2. Len(q) = 1 /\ q[1] = y /\ 1 \in Nat
  BY <1>1
<1>3. PICK g : /\ g[0] = << >> /\ expand_seq(q, V) = g[Len(q)]
               /\ \A n \in 1 .. Len(q) : g[n] = g[n - 1] \o SymbolText(q[n], V)
  BY <1>2, TextUnfolds
<1>4. 1 \in 1 .. 1 /\ 1 - 1 = 0
  OBVIOUS
<1>5. expand_seq(q, V) = << >> \o SymbolText(y, V)
  BY <1>2, <1>3, <1>4
<1>6. SymbolText(y, V) \in Seq(Nat)
  BY SymbolTextType
<1>7. << >> \o SymbolText(y, V) = SymbolText(y, V)
  BY <1>6, ConcatEmptySeq
<1>8. expand_seq(<< >>, V) = << >>
  <2>1. PICK e : e = << >>
    OBVIOUS
  <2>2. Len(e) = 0 /\ 0 \in Nat
    BY <2>1
  <2>3. PICK f : f[0] = << >> /\ expand_seq(e, V) = f[Len(e)]
    BY <2>2, TextUnfolds
  <2> QED
    BY <2>1, <2>2, <2>3
<1> QED
  BY <1>1, <1>5, <1>7, <1>8

\* Only the symbols of a sequence matter to what it stands for.
LEMMA TextAgrees ==
  ASSUME NEW q, NEW V, NEW W, Len(q) \in Nat,
         \A n \in 1 .. Len(q) : SymbolText(q[n], V) = SymbolText(q[n], W)
  PROVE  expand_seq(q, V) = expand_seq(q, W)
<1>1. PICK g : /\ g[0] = << >> /\ expand_seq(q, V) = g[Len(q)]
               /\ \A n \in 1 .. Len(q) : g[n] = g[n - 1] \o SymbolText(q[n], V)
  BY TextUnfolds
<1>2. PICK h : /\ h[0] = << >> /\ expand_seq(q, W) = h[Len(q)]
               /\ \A n \in 1 .. Len(q) : h[n] = h[n - 1] \o SymbolText(q[n], W)
  BY TextUnfolds
<1> DEFINE P == {n \in 0 .. Len(q) : g[n] = h[n]}
<1>3. 0 \in P
  BY <1>1, <1>2
<1>4. \A n \in 1 .. Len(q) : n - 1 \in P => n \in P
  <2> SUFFICES ASSUME NEW n \in 1 .. Len(q), n - 1 \in P
               PROVE  n \in P
    OBVIOUS
  <2>1. n \in 0 .. Len(q) /\ g[n - 1] = h[n - 1]
    OBVIOUS
  <2>2. g[n] = g[n - 1] \o SymbolText(q[n], V) /\ h[n] = h[n - 1] \o SymbolText(q[n], W)
    BY <1>1, <1>2
  <2> QED
    BY <2>1, <2>2
<1>5. Len(q) \in P
  <2> HIDE DEF P
  <2>1. PICK l \in Nat : l = Len(q)
    OBVIOUS
  <2>2. 0 \in P /\ \A n \in 1 .. l : n - 1 \in P => n \in P
    BY ONLY <1>3, <1>4, <2>1
  <2>3. \A n \in 0 .. l : n \in P
    BY ONLY <2>2, UpTo, l \in Nat
  <2> QED BY ONLY <2>1, <2>3, l \in Nat
<1> QED
  BY <1>1, <1>2, <1>5

-----------------------------------------------------------------------------
(* Part of a sequence replaced                                             *)

\* Three sequences in one.
Joined(a, x, b) == a \o x \o b

\* A sequence is its parts.
LEMMA PartsOf ==
  ASSUME NEW S, NEW q \in Seq(S), NEW n \in 1 .. Len(q), NEW k \in n .. Len(q)
  PROVE  /\ SubSeq(q, 1, n - 1) \in Seq(S) /\ Len(SubSeq(q, 1, n - 1)) = n - 1
         /\ SubSeq(q, n, k) \in Seq(S) /\ Len(SubSeq(q, n, k)) = k - n + 1
         /\ SubSeq(q, k + 1, Len(q)) \in Seq(S) /\ Len(SubSeq(q, k + 1, Len(q))) = Len(q) - k
         /\ \A i \in 1 .. (n - 1) : SubSeq(q, 1, n - 1)[i] = q[i]
         /\ \A i \in 1 .. (Len(q) - k) : SubSeq(q, k + 1, Len(q))[i] = q[k + i]
         /\ q = Joined(SubSeq(q, 1, n - 1), SubSeq(q, n, k), SubSeq(q, k + 1, Len(q)))
<1>1. /\ Len(q) \in Nat /\ n \in Nat /\ k \in Nat /\ 1 <= n /\ n <= k /\ k <= Len(q)
      /\ \A i \in 1 .. Len(q) : q[i] \in S
  OBVIOUS
<1>2. /\ SubSeq(q, 1, n - 1) \in Seq(S) /\ Len(SubSeq(q, 1, n - 1)) = n - 1
      /\ \A i \in 1 .. (n - 1) : SubSeq(q, 1, n - 1)[i] = q[i]
  <2>1. \A i \in 1 .. (n - 1) : q[i] \in S
    BY <1>1
  <2>2. PICK a : a = SubSeq(q, 1, n - 1)
    OBVIOUS
  <2>3. /\ a \in Seq(S) /\ Len(a) = (IF 1 <= n - 1 THEN (n - 1) - 1 + 1 ELSE 0)
        /\ \A i \in 1 .. ((n - 1) - 1 + 1) : a[i] = q[1 + i - 1]
    BY <1>1, <2>1, <2>2, SubSeqProperties
  <2>4. a \in Seq(S) /\ Len(a) = n - 1 /\ \A i \in 1 .. (n - 1) : a[i] = q[i]
    BY <1>1, <2>3
  <2> QED
    BY <2>2, <2>4
<1>3. SubSeq(q, n, k) \in Seq(S) /\ Len(SubSeq(q, n, k)) = k - n + 1
  <2>1. \A i \in n .. k : q[i] \in S
    BY <1>1
  <2>2. PICK a : a = SubSeq(q, n, k)
    OBVIOUS
  <2>3. a \in Seq(S) /\ Len(a) = (IF n <= k THEN k - n + 1 ELSE 0)
    BY <1>1, <2>1, <2>2, SubSeqProperties
  <2> QED
    BY <1>1, <2>2, <2>3
<1>4. /\ SubSeq(q, k + 1, Len(q)) \in Seq(S) /\ Len(SubSeq(q, k + 1, Len(q))) = Len(q) - k
      /\ \A i \in 1 .. (Len(q) - k) : SubSeq(q, k + 1, Len(q))[i] = q[k + i]
  <2>1. \A i \in (k + 1) .. Len(q) : q[i] \in S
    BY <1>1
  <2>2. PICK a : a = SubSeq(q, k + 1, Len(q))
    OBVIOUS
  <2>3. /\ a \in Seq(S) /\ Len(a) = (IF k + 1 <= Len(q) THEN Len(q) - (k + 1) + 1 ELSE 0)
        /\ \A i \in 1 .. (Len(q) - (k + 1) + 1) : a[i] = q[(k + 1) + i - 1]
    BY <1>1, <2>1, <2>2, SubSeqProperties
  <2>4. /\ a \in Seq(S) /\ Len(a) = Len(q) - k
        /\ \A i \in 1 .. (Len(q) - k) : a[i] = q[k + i]
    <3>1. PICK l \in Nat : l = Len(q)
      BY <1>1
    <3>2. /\ Len(a) = (IF k + 1 <= l THEN l - (k + 1) + 1 ELSE 0)
          /\ \A i \in 1 .. (l - (k + 1) + 1) : a[i] = q[(k + 1) + i - 1]
      BY ONLY <2>3, <3>1
    <3>3. k \in Nat /\ k <= l /\ l \in Nat
      BY ONLY <1>1, <3>1
    <3>4. Len(a) = l - k
      BY ONLY <3>2, <3>3
    <3>5. \A i \in 1 .. (l - k) : a[i] = q[k + i]
      <4>1. \A i \in 1 .. (l - k) : i \in 1 .. (l - (k + 1) + 1) /\ (k + 1) + i - 1 = k + i
        BY ONLY <3>3
      <4> QED
        BY ONLY <3>2, <4>1
    <3> QED
      BY ONLY <2>3, <3>1, <3>4, <3>5
  <2> QED
    BY <2>2, <2>4
<1>5. SubSeq(q, 1, n - 1) \o SubSeq(q, n, k) = SubSeq(q, 1, k)
  <2>1. 1 \in 1 .. Len(q) + 1 /\ n - 1 \in (1 - 1) .. Len(q) /\ k \in (n - 1) .. Len(q) /\ (n - 1) + 1 = n
    BY <1>1
  <2>2. SubSeq(q, 1, n - 1) \o SubSeq(q, (n - 1) + 1, k) = SubSeq(q, 1, k)
    BY ONLY q \in Seq(S), <2>1, ConcatAdjacentSubSeq
  <2> QED
    BY <2>1, <2>2
<1>6. SubSeq(q, 1, k) \o SubSeq(q, k + 1, Len(q)) = SubSeq(q, 1, Len(q))
  <2>1. 1 \in 1 .. Len(q) + 1 /\ k \in (1 - 1) .. Len(q) /\ Len(q) \in k .. Len(q)
    BY <1>1
  <2> QED
    BY ONLY q \in Seq(S), <2>1, ConcatAdjacentSubSeq
<1>7. SubSeq(q, 1, Len(q)) = q
  BY SubSeqFull
<1>8. q = Joined(SubSeq(q, 1, n - 1), SubSeq(q, n, k), SubSeq(q, k + 1, Len(q)))
  BY ONLY <1>5, <1>6, <1>7 DEF Joined
<1> QED
  BY ONLY <1>2, <1>3, <1>4, <1>8

\* A sequence with m in place of the part from n to k.
Put(q, n, k, m) == Joined(SubSeq(q, 1, n - 1), m, SubSeq(q, k + 1, Len(q)))

\* It consists of elements of m and of q outside the part.
Mixed(w, q, n, k, m) ==
  \A i \in 1 .. Len(w) :
    \/ \E j \in 1 .. Len(m) : w[i] = m[j]
    \/ \E j \in 1 .. Len(q) : (j < n \/ j > k) /\ w[i] = q[j]

\* What a sequence consists of when m took the place of a part of it.
LEMMA Spliced ==
  ASSUME NEW S, NEW q \in Seq(S), NEW m \in Seq(S), NEW n \in 1 .. Len(q), NEW k \in n .. Len(q)
  PROVE  /\ Put(q, n, k, m) \in Seq(S)
         /\ Len(Put(q, n, k, m)) = (Len(q) - (k - n + 1)) + Len(m)
         /\ Mixed(Put(q, n, k, m), q, n, k, m)
<1>0. PICK w : w = Put(q, n, k, m)
  OBVIOUS
<1>1. PICK a : a = SubSeq(q, 1, n - 1)
  OBVIOUS
<1>2. PICK b : b = SubSeq(q, k + 1, Len(q))
  OBVIOUS
<1>3. a \in Seq(S) /\ Len(a) = n - 1 /\ \A i \in 1 .. (n - 1) : a[i] = q[i]
  BY <1>1, PartsOf
<1>4. b \in Seq(S) /\ Len(b) = Len(q) - k /\ \A i \in 1 .. (Len(q) - k) : b[i] = q[k + i]
  BY <1>2, PartsOf
<1>5. PICK c : c = a \o m
  OBVIOUS
<1>6. /\ c \in Seq(S) /\ Len(c) = Len(a) + Len(m)
      /\ \A i \in 1 .. Len(a) + Len(m) : c[i] = IF i <= Len(a) THEN a[i] ELSE m[i - Len(a)]
  BY <1>3, <1>5, ConcatProperties
<1>7. w = c \o b
  BY <1>0, <1>1, <1>2, <1>5 DEF Joined, Put
<1>8. /\ w \in Seq(S) /\ Len(w) = Len(c) + Len(b)
      /\ \A i \in 1 .. Len(c) + Len(b) : w[i] = IF i <= Len(c) THEN c[i] ELSE b[i - Len(c)]
  <2>1. b \in Seq(S) /\ c \in Seq(S)
    BY <1>4, <1>6
  <2>2. /\ c \o b \in Seq(S) /\ Len(c \o b) = Len(c) + Len(b)
        /\ \A i \in 1 .. Len(c) + Len(b) : (c \o b)[i] = IF i <= Len(c) THEN c[i] ELSE b[i - Len(c)]
    BY ONLY <2>1, ConcatProperties, ZenonT(60)
  <2> QED
    BY ONLY <1>7, <2>2
<1>9. PICK lq, lm \in Nat : lq = Len(q) /\ lm = Len(m)
  OBVIOUS
<1>10. n \in Nat /\ k \in Nat /\ 1 <= n /\ n <= k /\ k <= lq
  BY ONLY <1>9, n \in 1 .. Len(q), k \in n .. Len(q), q \in Seq(S)
<1>11. PICK lc \in Nat : lc = (n - 1) + lm
  BY ONLY <1>10, lm \in Nat
<1>12. PICK lb \in Nat : lb = lq - k
  BY ONLY <1>10, lq \in Nat
<1>13. Len(a) = n - 1 /\ Len(b) = lb /\ Len(c) = lc
  BY ONLY <1>3, <1>4, <1>6, <1>9, <1>11, <1>12
<1>14. Len(w) = lc + lb
  BY ONLY <1>8, <1>13
<1>15. \A i \in 1 .. (lc + lb) : w[i] = IF i <= lc THEN c[i] ELSE b[i - lc]
  BY ONLY <1>8, <1>13
<1>16. \A i \in 1 .. lc : c[i] = IF i <= n - 1 THEN a[i] ELSE m[i - (n - 1)]
  BY ONLY <1>6, <1>9, <1>11, <1>13
<1>17. (\A i \in 1 .. (n - 1) : a[i] = q[i]) /\ \A i \in 1 .. lb : b[i] = q[k + i]
  BY ONLY <1>3, <1>4, <1>9, <1>12
<1>18. ASSUME NEW i \in 1 .. (lc + lb)
       PROVE  \/ \E j \in 1 .. lm : w[i] = m[j]
              \/ \E j \in 1 .. lq : (j < n \/ j > k) /\ w[i] = q[j]
  <2>1. i \in Nat /\ 1 <= i /\ i <= lc + lb
    BY ONLY i \in 1 .. (lc + lb), lc \in Nat, lb \in Nat
  <2>2. CASE i <= n - 1
    <3>1. i \in 1 .. lc /\ i \in 1 .. (n - 1) /\ i <= lc /\ i \in 1 .. lq /\ i < n
      BY ONLY <1>10, <1>11, <2>1, <2>2, lm \in Nat, lq \in Nat
    <3>2. w[i] = c[i]
      BY ONLY <1>15, <3>1, i \in 1 .. (lc + lb)
    <3>3. c[i] = a[i]
      BY ONLY <1>16, <2>2, <3>1
    <3>4. w[i] = q[i]
      BY ONLY <1>17, <3>1, <3>2, <3>3
    <3> QED
      BY ONLY <3>1, <3>4
  <2>3. CASE ~ (i <= n - 1) /\ i <= lc
    <3>1. i \in 1 .. lc /\ i - (n - 1) \in 1 .. lm
      BY ONLY <1>10, <1>11, <2>1, <2>3, lm \in Nat
    <3>2. w[i] = c[i]
      BY ONLY <1>15, <2>3, i \in 1 .. (lc + lb)
    <3>3. c[i] = m[i - (n - 1)]
      BY ONLY <1>16, <2>3, <3>1
    <3> QED
      BY ONLY <3>1, <3>2, <3>3
  <2>4. CASE ~ (i <= lc)
    <3>1. PICK j \in Int : j = i - lc
      BY ONLY <2>1, lc \in Nat
    <3>2. j \in 1 .. lb /\ k + j \in 1 .. lq /\ k + j > k
      BY ONLY <1>10, <1>12, <2>1, <2>4, <3>1, lc \in Nat, lq \in Nat
    <3>3. w[i] = b[j]
      BY ONLY <1>15, <2>4, <3>1, i \in 1 .. (lc + lb)
    <3>4. w[i] = q[k + j]
      BY ONLY <1>17, <3>2, <3>3
    <3> QED
      BY ONLY <3>2, <3>4
  <2> QED
    BY ONLY <2>2, <2>3, <2>4
<1>19. Len(w) = (Len(q) - (k - n + 1)) + Len(m)
  <2>1. lc + lb = (lq - (k - n + 1)) + lm
    BY ONLY <1>10, <1>11, <1>12, lm \in Nat, lq \in Nat
  <2> QED
    BY ONLY <1>9, <1>14, <2>1
<1>20. Mixed(w, q, n, k, m)
  BY ONLY <1>9, <1>14, <1>18 DEF Mixed
<1> QED
  BY ONLY <1>0, <1>8, <1>19, <1>20

\* Three sequences about the rules R, and their texts joined.
Worded(R, V, a, x, b) ==
  /\ V \in [R -> Seq(Nat)]
  /\ a \in Seq(SymbolsOver(R)) /\ x \in Seq(SymbolsOver(R)) /\ b \in Seq(SymbolsOver(R))
TextParts(V, a, x, b) ==
  expand_seq(Joined(a, x, b), V) = Joined(expand_seq(a, V), expand_seq(x, V), expand_seq(b, V))

\* Three sequences that join.
LEMMA TextOfThree ==
  ASSUME NEW R, NEW V, NEW a, NEW x, NEW b, Worded(R, V, a, x, b)
  PROVE  TextParts(V, a, x, b)
<1>0. /\ V \in [R -> Seq(Nat)]
      /\ a \in Seq(SymbolsOver(R)) /\ x \in Seq(SymbolsOver(R)) /\ b \in Seq(SymbolsOver(R))
  BY DEF Worded
<1>1. PICK y : y = a \o x
  OBVIOUS
<1>2. y \in Seq(SymbolsOver(R))
  BY <1>0, <1>1, ConcatProperties
<1>3. expand_seq(y \o b, V) = expand_seq(y, V) \o expand_seq(b, V)
  BY <1>0, <1>2, TextJoins
<1>4. expand_seq(a \o x, V) = expand_seq(a, V) \o expand_seq(x, V)
  BY <1>0, TextJoins
<1> QED
  BY ONLY <1>1, <1>3, <1>4 DEF Joined, TextParts

\* The parts by name.
HeadPart(q, n) == SubSeq(q, 1, n - 1)
TailPart(q, k) == SubSeq(q, k + 1, Len(q))
Parted(S, q, n, k, a, x, b) ==
  /\ a \in Seq(S) /\ x \in Seq(S) /\ b \in Seq(S)
  /\ Len(a) = n - 1 /\ Len(b) = Len(q) - k
  /\ q = Joined(a, x, b)

LEMMA PartsNamed ==
  ASSUME NEW S, NEW q \in Seq(S), NEW n \in 1 .. Len(q), NEW k \in n .. Len(q)
  PROVE  Parted(S, q, n, k, HeadPart(q, n), SubSeq(q, n, k), TailPart(q, k))
BY PartsOf DEF Parted, HeadPart, TailPart

\* What stands for the same may take the place of a part.
LEMMA SplicedText ==
  ASSUME NEW R, NEW V \in [R -> Seq(Nat)], NEW q \in Seq(SymbolsOver(R)), NEW m \in Seq(SymbolsOver(R)),
         NEW n \in 1 .. Len(q), NEW k \in n .. Len(q),
         expand_seq(m, V) = expand_seq(SubSeq(q, n, k), V)
  PROVE  expand_seq(Put(q, n, k, m), V) = expand_seq(q, V)
<1>1. PICK a : a = HeadPart(q, n)
  OBVIOUS
<1>2. PICK b : b = TailPart(q, k)
  OBVIOUS
<1>3. PICK x : x = SubSeq(q, n, k)
  OBVIOUS
<1>4. /\ a \in Seq(SymbolsOver(R)) /\ b \in Seq(SymbolsOver(R)) /\ x \in Seq(SymbolsOver(R))
      /\ q = Joined(a, x, b)
  <2>1. PICK S : S = SymbolsOver(R)
    OBVIOUS
  <2>2. q \in Seq(S) /\ n \in 1 .. Len(q) /\ k \in n .. Len(q)
    BY <2>1
  <2>3. Parted(S, q, n, k, HeadPart(q, n), SubSeq(q, n, k), TailPart(q, k))
    BY ONLY <2>2, PartsNamed
  <2>4. Parted(S, q, n, k, a, x, b)
    BY ONLY <1>1, <1>2, <1>3, <2>3
  <2> QED
    BY ONLY <2>1, <2>4 DEF Parted
<1>5. expand_seq(Joined(a, x, b), V) = Joined(expand_seq(a, V), expand_seq(x, V), expand_seq(b, V))
  <2>1. Worded(R, V, a, x, b)
    BY ONLY <1>4, V \in [R -> Seq(Nat)] DEF Worded
  <2>2. TextParts(V, a, x, b)
    BY ONLY <2>1, TextOfThree
  <2> QED
    BY ONLY <2>2 DEF TextParts
<1>6. expand_seq(Joined(a, m, b), V) = Joined(expand_seq(a, V), expand_seq(m, V), expand_seq(b, V))
  <2>1. Worded(R, V, a, m, b)
    BY ONLY <1>4, V \in [R -> Seq(Nat)], m \in Seq(SymbolsOver(R)) DEF Worded
  <2>2. TextParts(V, a, m, b)
    BY ONLY <2>1, TextOfThree
  <2> QED
    BY ONLY <2>2 DEF TextParts
<1>7. Put(q, n, k, m) = Joined(a, m, b)
  BY ONLY <1>1, <1>2 DEF Put, HeadPart, TailPart
<1> QED
  BY <1>3, <1>4, <1>5, <1>6, <1>7

\* A symbol stands for less than the sequence it is in, unless it is alone.
LEMMA SymbolInText ==
  ASSUME NEW R, NEW V \in [R -> Seq(Nat)], \A r \in R : V[r] # << >>,
         NEW q \in Seq(SymbolsOver(R)), NEW n \in 1 .. Len(q)
  PROVE  /\ Len(SymbolText(q[n], V)) \in Nat
         /\ Len(expand_seq(q, V)) \in Nat
         /\ Len(expand_seq(q, V)) >= Len(SymbolText(q[n], V)) + (Len(q) - 1)
<1>0. PICK k : k = n
  OBVIOUS
<1>1. PICK a : a = HeadPart(q, n)
  OBVIOUS
<1>2. PICK b : b = TailPart(q, k)
  OBVIOUS
<1>3. PICK x : x = SubSeq(q, n, k)
  OBVIOUS
<1>4. k \in n .. Len(q) /\ Len(q) \in Nat /\ n \in Nat /\ n \in n .. Len(q)
  BY <1>0
<1>5. /\ a \in Seq(SymbolsOver(R)) /\ b \in Seq(SymbolsOver(R)) /\ x \in Seq(SymbolsOver(R))
      /\ Len(a) = n - 1 /\ Len(b) = Len(q) - k
      /\ q = Joined(a, x, b)
  <2>1. PICK S : S = SymbolsOver(R)
    OBVIOUS
  <2>2. q \in Seq(S) /\ n \in 1 .. Len(q) /\ k \in n .. Len(q)
    BY <1>4, <2>1
  <2>3. Parted(S, q, n, k, HeadPart(q, n), SubSeq(q, n, k), TailPart(q, k))
    BY ONLY <2>2, PartsNamed
  <2>4. Parted(S, q, n, k, a, x, b)
    BY ONLY <1>1, <1>2, <1>3, <2>3
  <2> QED
    BY ONLY <2>1, <2>4 DEF Parted
<1>6. x = << q[n] >>
  <2>1. SubSeq(q, n, n) = << q[n] >> \o SubSeq(q, n + 1, n)
    BY <1>4, SubSeqRecursiveFirst
  <2>2. SubSeq(q, n + 1, n) = << >>
    BY <1>4, SubSeqEmpty
  <2> QED
    <3>1. << q[n] >> \o << >> = << q[n] >>
      OBVIOUS
    <3> QED
      BY ONLY <1>0, <1>3, <2>1, <2>2, <3>1
<1>7. expand_seq(x, V) = SymbolText(q[n], V)
  BY <1>6, TextOfOne
<1>9. expand_seq(q, V) = Joined(expand_seq(a, V), expand_seq(x, V), expand_seq(b, V))
  <2>1. Worded(R, V, a, x, b)
    BY ONLY <1>5, V \in [R -> Seq(Nat)] DEF Worded
  <2>2. TextParts(V, a, x, b)
    BY ONLY <2>1, TextOfThree
  <2> QED
    BY ONLY <1>5, <2>2 DEF TextParts
<1>10. PICK A, X, B : A = expand_seq(a, V) /\ X = expand_seq(x, V) /\ B = expand_seq(b, V)
  OBVIOUS
<1>11. /\ A \in Seq(Nat) /\ X \in Seq(Nat) /\ B \in Seq(Nat)
       /\ Len(A) >= n - 1 /\ Len(B) >= Len(q) - n
  BY <1>0, <1>5, <1>10, TextType
<1>12. Len(Joined(A, X, B)) = Len(A) + Len(X) + Len(B) /\ Len(A) \in Nat /\ Len(X) \in Nat /\ Len(B) \in Nat
  <2>1. A \o X \in Seq(Nat) /\ Len(A \o X) = Len(A) + Len(X)
    BY <1>11, ConcatProperties
  <2>2. PICK y : y = A \o X
    OBVIOUS
  <2>3. Len(y \o B) = Len(y) + Len(B)
    BY <1>11, <2>1, <2>2, ConcatProperties
  <2> QED
    BY <1>11, <2>1, <2>2, <2>3 DEF Joined
<1>13. Len(expand_seq(q, V)) = Len(A) + Len(X) + Len(B) /\ Len(X) = Len(SymbolText(q[n], V))
  BY <1>7, <1>9, <1>10, <1>12
<1> QED
  BY <1>0, <1>4, <1>11, <1>12, <1>13

-----------------------------------------------------------------------------
(* A grammar whose rules stand for V expands to what V says                *)

RulesOf(g) == DOMAIN g \ {StartRule}

\* Grammar g with the ids below k, where rule r stands for V[r], those that are
\* gone included.  Rules are about rules that exist, and a rule that is only
\* another name is about a younger one.
Stands(g, V, k) ==
  /\ k \in Nat /\ DOMAIN g \subseteq 0 .. (k - 1) /\ StartRule \in DOMAIN g
  /\ V \in [1 .. (k - 1) -> Seq(Nat)]
  /\ \A r \in 1 .. (k - 1) : V[r] # << >>
  /\ \A r \in DOMAIN g : g[r] \in Seq(SymbolsOver(RulesOf(g)))
  /\ \A r \in RulesOf(g) : g[r] # << >> /\ expand_seq(g[r], V) = V[r]
  /\ \A r, s \in RulesOf(g) : g[r] = << NonTerminal(s) >> => r < s

\* More rules, more symbols.
LEMMA SymbolsGrow ==
  ASSUME NEW R, NEW Q, R \subseteq Q
  PROVE  SymbolsOver(R) \subseteq SymbolsOver(Q) /\ Seq(SymbolsOver(R)) \subseteq Seq(SymbolsOver(Q))
<1>1. SymbolsOver(R) \subseteq SymbolsOver(Q)
  BY DEF SymbolsOver
<1> QED
  BY <1>1, SeqMonotonic

\* The bodies, over all ids.
LEMMA BodiesOf ==
  ASSUME NEW g, NEW V, NEW k, Stands(g, V, k)
  PROVE  /\ k \in Nat /\ V \in [1 .. (k - 1) -> Seq(Nat)]
         /\ RulesOf(g) \subseteq 1 .. (k - 1)
         /\ \A r \in DOMAIN g : g[r] \in Seq(SymbolsOver(1 .. (k - 1)))
<1>1. RulesOf(g) \subseteq 1 .. (k - 1) /\ k \in Nat
  BY DEF Stands, RulesOf, StartRule
<1>2. Seq(SymbolsOver(RulesOf(g))) \subseteq Seq(SymbolsOver(1 .. (k - 1)))
  BY <1>1, SymbolsGrow
<1> QED
  BY <1>1, <1>2 DEF Stands

\* The order in which a rule comes after the rules its body is about.
Weight(V, k, r) == Len(V[r]) * k + (k - r)

\* A product grows with its first factor.
LEMMA ProductGrows ==
  ASSUME NEW a \in Nat, NEW b \in Nat, NEW k \in Nat, a < b
  PROVE  a * k \in Nat /\ b * k \in Nat /\ a * k + k <= b * k
<1>1. PICK d \in Nat : b = (a + 1) + d
  <2>1. b - (a + 1) \in Nat /\ b = (a + 1) + (b - (a + 1))
    OBVIOUS
  <2> QED
    BY <2>1
<1>2. b * k = a * k + k + d * k
  BY <1>1
<1>3. a * k \in Nat /\ b * k \in Nat /\ d * k \in Nat
  OBVIOUS
<1> QED
  BY <1>2, <1>3

\* A rule in the body of another has the smaller weight; no rule is in its own.
LEMMA UsesAreBelow ==
  ASSUME NEW g, NEW V, NEW k, Stands(g, V, k), NEW r \in RulesOf(g), NEW n \in 1 .. Len(g[r]),
         NEW s, g[r][n] = NonTerminal(s)
  PROVE  /\ s \in RulesOf(g) /\ s # r
         /\ Weight(V, k, s) \in Nat /\ Weight(V, k, r) \in Nat
         /\ Weight(V, k, s) < Weight(V, k, r)
<1>1. /\ k \in Nat /\ V \in [1 .. (k - 1) -> Seq(Nat)] /\ RulesOf(g) \subseteq 1 .. (k - 1)
      /\ g[r] \in Seq(SymbolsOver(1 .. (k - 1)))
  BY BodiesOf DEF RulesOf
<1>2. g[r] \in Seq(SymbolsOver(RulesOf(g))) /\ expand_seq(g[r], V) = V[r] /\ \A i \in 1 .. (k - 1) : V[i] # << >>
  BY DEF Stands, RulesOf
<1>3. s \in RulesOf(g)
  <2>1. NonTerminal(s) \in SymbolsOver(RulesOf(g))
    BY <1>2
  <2> QED
    BY <2>1 DEF SymbolsOver, NonTerminal, Terminal
<1>4. SymbolText(g[r][n], V) = V[s]
  BY <1>1, <1>3 DEF SymbolText, NonTerminal
<1>5. PICK q : q = g[r]
  OBVIOUS
<1>6. /\ q \in Seq(SymbolsOver(1 .. (k - 1))) /\ n \in 1 .. Len(q) /\ q[n] = NonTerminal(s)
      /\ SymbolText(q[n], V) = V[s] /\ expand_seq(q, V) = V[r]
  BY <1>1, <1>2, <1>4, <1>5
<1>7. Len(V[s]) \in Nat /\ Len(V[r]) \in Nat /\ Len(V[r]) >= Len(V[s]) + (Len(q) - 1)
  <2>1. /\ Len(SymbolText(q[n], V)) \in Nat /\ Len(expand_seq(q, V)) \in Nat
        /\ Len(expand_seq(q, V)) >= Len(SymbolText(q[n], V)) + (Len(q) - 1)
    BY <1>1, <1>2, <1>6, SymbolInText
  <2> QED
    BY <1>6, <2>1
<1>8. Len(q) \in Nat /\ Len(q) >= 1 /\ r \in 1 .. (k - 1) /\ s \in 1 .. (k - 1)
  BY <1>1, <1>3, <1>6
<1>9. Len(V[s]) < Len(V[r]) \/ (Len(V[s]) = Len(V[r]) /\ r < s)
  <2>1. CASE Len(q) >= 2
    BY <1>7, <1>8, <2>1
  <2>2. CASE Len(q) = 1
    <3>1. n = 1 /\ q = << NonTerminal(s) >>
      BY <1>6, <2>2
    <3>2. r < s
      BY <1>3, <1>5, <3>1 DEF Stands
    <3> QED
      BY <1>7, <1>8, <2>2, <3>2
  <2>3. Len(q) >= 2 \/ Len(q) = 1
    <3>1. Len(q) \in Nat /\ Len(q) >= 1
      BY <1>8
    <3>2. PICK l \in Nat : l = Len(q)
      BY <3>1
    <3>3. l >= 1
      BY <3>1, <3>2
    <3>4. l >= 2 \/ l = 1
      BY ONLY l \in Nat, <3>3
    <3> QED BY ONLY <3>2, <3>4
  <2> QED
    BY ONLY <2>1, <2>2, <2>3
<1>10. PICK a, b : a = Len(V[s]) /\ b = Len(V[r])
  OBVIOUS
<1>11. a \in Nat /\ b \in Nat /\ (a < b \/ (a = b /\ r < s))
  BY <1>7, <1>9, <1>10
<1>12. a * k \in Nat /\ b * k \in Nat /\ (a < b => a * k + k <= b * k)
  <2>1. a * k \in Nat /\ b * k \in Nat
    BY ONLY <1>1, <1>11
  <2>2. a < b => a * k + k <= b * k
    BY ONLY <1>1, <1>11, ProductGrows
  <2> QED
    BY ONLY <2>1, <2>2
<1>13. Weight(V, k, s) = a * k + (k - s) /\ Weight(V, k, r) = b * k + (k - r)
  BY <1>10 DEF Weight
<1>14. a * k + (k - s) < b * k + (k - r)
  <2>1. PICK c, d : c = a * k /\ d = b * k
    OBVIOUS
  <2>2. c \in Nat /\ d \in Nat /\ (a < b => c + k <= d) /\ (a = b => c = d)
    BY <1>12, <2>1
  <2>3. c + (k - s) < d + (k - r)
    BY ONLY <1>1, <1>8, <1>11, <2>2
  <2> QED
    BY <2>1, <2>3
<1>15. a * k + (k - s) \in Nat /\ b * k + (k - r) \in Nat
  <2>1. k - s \in Nat /\ k - r \in Nat
    BY <1>1, <1>8
  <2> QED
    BY <1>12, <2>1
<1>16. Weight(V, k, s) \in Nat /\ Weight(V, k, r) \in Nat /\ Weight(V, k, s) < Weight(V, k, r)
  BY <1>13, <1>14, <1>15
<1> QED
  BY <1>3, <1>16

\* What the rules stand for inside a stack.
IsInside(f, g) ==
  \A S \in SUBSET RulesOf(g) :
    f[S] = [r \in RulesOf(g) |-> IF r \in S THEN << >> ELSE expand_seq(g[r], f[S \cup {r}])]

\* It is defined: every call has
\* one more rule on its stack.
LEMMA InsideUnfolds ==
  ASSUME NEW g, IsFiniteSet(RulesOf(g))
  PROVE  \E f : expand(g) = expand_seq(g[StartRule], f[{}]) /\ IsInside(f, g)
<1> DEFINE R == RulesOf(g)
           Body(f, S) == [r \in R |-> IF r \in S THEN << >> ELSE expand_seq(g[r], f[S \cup {r}])]
           D(m) == {S \in SUBSET R : Cardinality(R \ S) <= m}
           Upto(m, f) == f = [S \in D(m) |-> Body(f, S)]
           N == Cardinality(R)
           ok == {m \in 0 .. N : \E f : Upto(m, f)}
<1>1. N \in Nat
  BY FS_CardinalityType
<1>2. ASSUME NEW S \in SUBSET R
      PROVE  /\ Cardinality(R \ S) \in 0 .. N
             /\ \A r \in R \ S : Cardinality(R \ (S \cup {r})) = Cardinality(R \ S) - 1
  <2>1. R \ S \in SUBSET R /\ IsFiniteSet(R)
    OBVIOUS
  <2>2. IsFiniteSet(R \ S) /\ Cardinality(R \ S) <= N
    BY ONLY <2>1, FS_Subset
  <2>3. Cardinality(R \ S) \in Nat
    BY ONLY <2>2, FS_CardinalityType
  <2>4. ASSUME NEW r \in R \ S
        PROVE  Cardinality(R \ (S \cup {r})) = Cardinality(R \ S) - 1
    <3>1. R \ (S \cup {r}) = (R \ S) \ {r}
      OBVIOUS
    <3>2. Cardinality((R \ S) \ {r}) = Cardinality(R \ S) - 1
      BY ONLY <2>2, r \in R \ S, FS_RemoveElement
    <3> QED
      BY ONLY <3>1, <3>2
  <2> QED
    BY ONLY <1>1, <2>2, <2>3, <2>4
<1>3. D(N) = SUBSET R
  <2>1. \A S \in SUBSET R : Cardinality(R \ S) <= N
    BY <1>1, <1>2
  <2> HIDE DEF N, R
  <2> QED BY <2>1
<1>4. ASSUME NEW m \in 0 .. N, NEW S \in D(m), NEW r \in R \ S
      PROVE  m - 1 \in 0 .. N /\ S \cup {r} \in D(m - 1)
  <2>1. S \in SUBSET R /\ Cardinality(R \ S) <= m
    OBVIOUS
  <2>2. /\ Cardinality(R \ S) \in 0 .. N
        /\ Cardinality(R \ (S \cup {r})) = Cardinality(R \ S) - 1
    BY <1>2, <2>1
  <2>3. S \cup {r} \in SUBSET R
    BY <2>1
  <2>4. Cardinality(R \ (S \cup {r})) \in 0 .. N
    BY <1>2, <2>3
  <2>5. m - 1 \in 0 .. N /\ Cardinality(R \ (S \cup {r})) <= m - 1
    <3> HIDE DEF N, R, D
    <3> QED BY ONLY <1>1, m \in 0 .. N, <2>1, <2>2, <2>4
  <2> QED
    BY ONLY <2>3, <2>5 DEF D
<1>5. expand(g) = expand_seq(g[StartRule], (CHOOSE f : f = [S \in SUBSET R |-> Body(f, S)])[{}])
  BY DEF expand, RulesOf
<1> HIDE DEF N, R
<1>6. 0 \in ok
  <2> DEFINE f == [S \in D(0) |-> [r \in R |-> << >>]]
  <2>1. ASSUME NEW S \in D(0)
        PROVE  f[S] = Body(f, S)
    <3>1. \A r \in R : r \in S
      <4>1. ASSUME NEW r \in R, r \notin S
            PROVE  FALSE
        <5>1. 0 \in 0 .. N /\ r \in R \ S
          BY <1>1, <4>1
        <5>2. 0 - 1 \in 0 .. N
          BY <1>4, <5>1
        <5> QED
          BY <1>1, <5>2
      <4> QED
        BY <4>1
    <3>2. Body(f, S) = [r \in R |-> << >>]
      <4> HIDE DEF f
      <4> QED BY <3>1
    <3> QED
      BY <3>2
  <2>2. f = [S \in D(0) |-> Body(f, S)]
    <3>1. f = [S \in D(0) |-> f[S]]
      OBVIOUS
    <3> HIDE DEF f, D, Body
    <3> QED BY <2>1, <3>1
  <2>3. Upto(0, f) /\ 0 \in 0 .. N
    <3> HIDE DEF f, D, Body
    <3> QED BY <1>1, <2>2
  <2> HIDE DEF Upto, f
  <2> QED BY <2>3
<1>7. ASSUME NEW m \in 1 .. N, m - 1 \in ok
      PROVE  m \in ok
  <2>1. PICK f : Upto(m - 1, f)
    <3> HIDE DEF Upto
    <3> QED BY <1>7
  <2>2. \A S \in D(m - 1) : f[S] = Body(f, S)
    <3> HIDE DEF D, Body
    <3> QED BY <2>1
  <2>3. m \in 0 .. N /\ m - 1 \in 0 .. N /\ m \in Nat
    BY <1>1
  <2> DEFINE h == [S \in D(m) |-> Body(f, S)]
  <2>4. D(m - 1) \subseteq D(m)
    <3>1. \A S \in SUBSET R : Cardinality(R \ S) \in Nat
      BY <1>1, <1>2
    <3> QED BY <2>3, <3>1
  <2>5. \A S \in D(m - 1) : h[S] = f[S]
    <3> HIDE DEF D, Body
    <3> QED BY <2>2, <2>4
  <2>6. ASSUME NEW S \in D(m)
        PROVE  h[S] = Body(h, S)
    <3>1. \A r \in R \ S : S \cup {r} \in D(m - 1)
      BY <1>4, <2>3
    <3>2. \A r \in R \ S : h[S \cup {r}] = f[S \cup {r}]
      <4> HIDE DEF D, h
      <4> QED BY <2>5, <3>1
    <3>3. Body(f, S) = Body(h, S)
      <4> HIDE DEF D, h
      <4> QED BY <3>2
    <3>4. h[S] = Body(f, S)
      <4> HIDE DEF D, Body
      <4> QED OBVIOUS
    <3> QED BY ONLY <3>3, <3>4
  <2>7. h = [S \in D(m) |-> Body(h, S)]
    <3>1. h = [S \in D(m) |-> h[S]]
      <4> HIDE DEF D, Body
      <4> QED OBVIOUS
    <3> HIDE DEF h, D, Body
    <3> QED BY <2>6, <3>1
  <2>8. Upto(m, h)
    <3> HIDE DEF h, D, Body
    <3> QED BY <2>7
  <2> HIDE DEF Upto, h
  <2> QED BY <2>3, <2>8
<1>8. N \in ok
  <2> HIDE DEF ok
  <2>1. \A m \in 1 .. N : m - 1 \in ok => m \in ok
    BY <1>7
  <2>2. \A m \in 0 .. N : m \in ok
    BY <1>1, <1>6, <2>1, UpTo
  <2> QED BY <1>1, <2>2
<1>9. PICK f : f = CHOOSE x : Upto(N, x)
  OBVIOUS
<1>10. Upto(N, f)
  <2>1. \E x : Upto(N, x)
    <3> HIDE DEF Upto
    <3> QED BY <1>8
  <2> HIDE DEF Upto
  <2> QED BY <1>9, <2>1
<1>11. \A S \in SUBSET R : f[S] = Body(f, S)
  <2> HIDE DEF Body, D
  <2> QED BY <1>3, <1>10
<1>12. expand(g) = expand_seq(g[StartRule], f[{}])
  <2> HIDE DEF Body, D
  <2> QED BY <1>3, <1>5, <1>9
<1>13. \A S \in SUBSET RulesOf(g) :
          f[S] = [r \in RulesOf(g) |-> IF r \in S THEN << >> ELSE expand_seq(g[r], f[S \cup {r}])]
  BY <1>11 DEF R
<1>14. IsInside(f, g)
  BY ONLY <1>13 DEF IsInside
<1> QED
  BY ONLY <1>12, <1>14

\* Rules have ids below a bound.
LEMMA RulesFinite ==
  ASSUME NEW g, NEW V, NEW k, Stands(g, V, k)
  PROVE  IsFiniteSet(RulesOf(g)) /\ IsFiniteSet(DOMAIN g)
<1>1. k \in Nat /\ DOMAIN g \subseteq 0 .. (k - 1)
  BY DEF Stands
<1>2. IsFiniteSet(0 .. (k - 1))
  BY <1>1, FS_Interval
<1>3. DOMAIN g \in SUBSET (0 .. (k - 1)) /\ RulesOf(g) \in SUBSET (0 .. (k - 1))
  BY <1>1 DEF RulesOf
<1> QED
  BY <1>2, <1>3, FS_Subset

\* The stack never hides a rule: the grammar stands for what V says.
LEMMA ExpandsToStands ==
  ASSUME NEW g, NEW V, NEW k, Stands(g, V, k)
  PROVE  expand(g) = expand_seq(g[StartRule], V)
<1> DEFINE R == RulesOf(g)
<1>1. IsFiniteSet(RulesOf(g))
  BY RulesFinite
<1>2. PICK f : expand(g) = expand_seq(g[StartRule], f[{}]) /\ IsInside(f, g)
  BY <1>1, InsideUnfolds
<1>3. /\ k \in Nat /\ V \in [1 .. (k - 1) -> Seq(Nat)] /\ R \subseteq 1 .. (k - 1)
      /\ \A r \in DOMAIN g : g[r] \in Seq(SymbolsOver(R))
  BY BodiesOf DEF Stands
<1>4. ASSUME NEW S \in SUBSET R, NEW q \in Seq(SymbolsOver(R)),
             \A n \in 1 .. Len(q) : \A s \in R : q[n] = NonTerminal(s) => f[S][s] = V[s]
      PROVE  expand_seq(q, f[S]) = expand_seq(q, V)
  <2>1. DOMAIN f[S] = R
    BY <1>2 DEF IsInside
  <2>2. ASSUME NEW n \in 1 .. Len(q)
        PROVE  SymbolText(q[n], f[S]) = SymbolText(q[n], V)
    <3>1. q[n] \in SymbolsOver(R)
      OBVIOUS
    <3>2. CASE \E t \in Nat : q[n] = Terminal(t)
      BY <3>2 DEF SymbolText, Terminal
    <3>3. CASE \E s \in R : q[n] = NonTerminal(s)
      <4>1. PICK s \in R : q[n] = NonTerminal(s)
        BY <3>3
      <4>2. f[S][s] = V[s]
        BY <1>4, <4>1
      <4>3. s \in DOMAIN f[S] /\ s \in DOMAIN V
        BY <1>3, <2>1
      <4> HIDE DEF R
      <4>4. SymbolText(NonTerminal(s), f[S]) = f[S][s] /\ SymbolText(NonTerminal(s), V) = V[s]
        BY ONLY <4>3 DEF SymbolText, NonTerminal
      <4> QED
        BY ONLY <4>1, <4>2, <4>4
    <3> HIDE DEF R
    <3> QED
      BY ONLY <3>1, <3>2, <3>3 DEF SymbolsOver
  <2>3. Len(q) \in Nat
    OBVIOUS
  <2> QED
    BY ONLY <2>2, <2>3, TextAgrees
<1> DEFINE Clear(S, r) == \A t \in R : Weight(V, k, t) <= Weight(V, k, r) => t \notin S
           Bad(w, r, S) == w = Weight(V, k, r) /\ Clear(S, r) /\ f[S][r] # V[r]
           bad == {w \in Nat : \E r \in R : \E S \in SUBSET R : Bad(w, r, S)}
<1>5. \A r \in R : Weight(V, k, r) \in Nat
  <2> SUFFICES ASSUME NEW r \in R PROVE Weight(V, k, r) \in Nat
    OBVIOUS
  <2>1. Len(V[r]) \in Nat /\ k - r \in Nat
    BY <1>3
  <2>2. Len(V[r]) * k \in Nat
    BY <1>3, <2>1
  <2> QED
    BY <2>1, <2>2 DEF Weight
<1>6. bad = {}
  <2> SUFFICES ASSUME bad # {} PROVE FALSE
    OBVIOUS
  <2>1. bad \subseteq Nat
    OBVIOUS
  <2>2. PICK w \in bad : \A y \in bad : w <= y
    <3> HIDE DEF bad
    <3> QED BY <2>1, LeastOf
  <2>3. PICK r \in R : \E S \in SUBSET R : Bad(w, r, S)
    <3> HIDE DEF R, Bad
    <3> QED BY <2>2
  <2>4. PICK S \in SUBSET R : Bad(w, r, S)
    BY <2>3
  <2>5. w = Weight(V, k, r) /\ w \in Nat /\ Clear(S, r) /\ f[S][r] # V[r]
    <3> HIDE DEF Clear, R
    <3> QED BY <1>5, <2>4
  <2>6. r \notin S
    BY <1>5, <2>5
  <2>7. f[S][r] = expand_seq(g[r], f[S \cup {r}])
    <3>1. f[S] = [i \in RulesOf(g) |-> IF i \in S THEN << >> ELSE expand_seq(g[i], f[S \cup {i}])]
      BY <1>2 DEF IsInside
    <3>2. r \in RulesOf(g)
      OBVIOUS
    <3> QED BY ONLY <2>6, <3>1, <3>2
  <2>8. S \cup {r} \in SUBSET R /\ g[r] \in Seq(SymbolsOver(R)) /\ expand_seq(g[r], V) = V[r]
    BY <1>3 DEF Stands, RulesOf
  <2>9. ASSUME NEW n \in 1 .. Len(g[r]), NEW s \in R, g[r][n] = NonTerminal(s)
        PROVE  f[S \cup {r}][s] = V[s]
    <3>1. Weight(V, k, s) \in Nat /\ Weight(V, k, s) < Weight(V, k, r)
      BY <2>9, UsesAreBelow
    <3>2. Clear(S \cup {r}, s)
      <4> SUFFICES ASSUME NEW t \in R, Weight(V, k, t) <= Weight(V, k, s)
                   PROVE  t \notin S /\ t # r
        OBVIOUS
      <4>1. Weight(V, k, t) \in Nat /\ Weight(V, k, r) \in Nat
        BY <1>5
      <4>2. Weight(V, k, t) < Weight(V, k, r)
        BY <3>1, <4>1
      <4>3. t # r
        BY <4>1, <4>2
      <4> QED
        BY <2>5, <4>1, <4>2, <4>3
    <3> HIDE DEF Clear, R
    <3>3. CASE f[S \cup {r}][s] # V[s]
      <4>1. Bad(Weight(V, k, s), s, S \cup {r})
        BY <3>2, <3>3
      <4>2. Weight(V, k, s) \in bad
        <5> HIDE DEF Bad
        <5> QED BY <2>8, <3>1, <4>1
      <4>3. w <= Weight(V, k, s)
        <5> HIDE DEF bad
        <5> QED BY <2>2, <4>2
      <4> QED
        BY ONLY <2>5, <3>1, <4>3
    <3> QED
      BY <3>3
  <2>10. expand_seq(g[r], f[S \cup {r}]) = expand_seq(g[r], V)
    <3> HIDE DEF R, bad
    <3> QED BY ONLY <1>4, <2>8, <2>9
  <2> QED
    BY ONLY <2>5, <2>7, <2>8, <2>10
<1>7. \A s \in R : f[{}][s] = V[s]
  <2> SUFFICES ASSUME NEW s \in R, f[{}][s] # V[s]
               PROVE  FALSE
    OBVIOUS
  <2>1. Bad(Weight(V, k, s), s, {}) /\ {} \in SUBSET R
    OBVIOUS
  <2>2. Weight(V, k, s) \in bad
    <3> HIDE DEF Bad
    <3> QED BY <1>5, <2>1
  <2> QED
    BY ONLY <1>6, <2>2
<1>8. g[StartRule] \in Seq(SymbolsOver(R)) /\ {} \in SUBSET R
  BY <1>3 DEF Stands
<1>9. expand_seq(g[StartRule], f[{}]) = expand_seq(g[StartRule], V)
  <2> HIDE DEF R, bad
  <2> QED BY ONLY <1>4, <1>7, <1>8
<1> QED
  BY ONLY <1>2, <1>9

-----------------------------------------------------------------------------
(* What the methods do to a grammar                                        *)

\* A sequence of rules and terminals has them as elements.
LEMMA ElementsInSeq ==
  ASSUME NEW S, NEW T, NEW q \in Seq(T), \A i \in 1 .. Len(q) : q[i] \in S
  PROVE  q \in Seq(S)
BY SeqDef

\* One sequence rewritten, and possibly rules gone that nothing is about.
LEMMA StandsRewritten ==
  ASSUME NEW g, NEW V, NEW k, Stands(g, V, k),
         NEW h, DOMAIN h \subseteq DOMAIN g, StartRule \in DOMAIN h, NEW r \in DOMAIN h,
         \A x \in DOMAIN h : x # r => h[x] = g[x],
         \A x \in DOMAIN h : h[x] \in Seq(SymbolsOver(RulesOf(h))),
         expand_seq(h[r], V) = expand_seq(g[r], V),
         r # StartRule => h[r] # << >>,
         \A s \in RulesOf(h) : h[r] = << NonTerminal(s) >> => r < s \/ r = StartRule
  PROVE  Stands(h, V, k) /\ expand_seq(h[StartRule], V) = expand_seq(g[StartRule], V)
<1>1. RulesOf(h) \subseteq RulesOf(g)
  BY DEF RulesOf
<1>2. ASSUME NEW x \in RulesOf(h)
      PROVE  h[x] # << >> /\ expand_seq(h[x], V) = V[x]
  <2>1. x \in DOMAIN h /\ x # StartRule /\ x \in RulesOf(g)
    BY <1>1 DEF RulesOf
  <2>2. g[x] # << >> /\ expand_seq(g[x], V) = V[x]
    BY <2>1 DEF Stands
  <2> QED
    BY <2>1, <2>2
<1>3. ASSUME NEW x \in RulesOf(h), NEW s \in RulesOf(h), h[x] = << NonTerminal(s) >>
      PROVE  x < s
  <2>1. x \in DOMAIN h /\ x # StartRule /\ x \in RulesOf(g) /\ s \in RulesOf(g)
    BY <1>1 DEF RulesOf
  <2>2. CASE x = r
    BY <1>3, <2>1, <2>2
  <2>3. CASE x # r
    <3>1. g[x] = << NonTerminal(s) >>
      BY <1>3, <2>1, <2>3
    <3> QED
      BY <2>1, <3>1 DEF Stands
  <2> QED
    BY <2>2, <2>3
<1>4. /\ k \in Nat /\ DOMAIN h \subseteq 0 .. (k - 1)
      /\ V \in [1 .. (k - 1) -> Seq(Nat)] /\ \A x \in 1 .. (k - 1) : V[x] # << >>
  BY DEF Stands
<1>5. expand_seq(h[StartRule], V) = expand_seq(g[StartRule], V)
  OBVIOUS
<1>6. Stands(h, V, k)
  BY <1>2, <1>3, <1>4 DEF Stands
<1> QED
  BY <1>5, <1>6

\* Two neighbours, and one symbol, as a part.
LEMMA PairAt ==
  ASSUME NEW S, NEW q \in Seq(S), NEW p \in 1 .. Len(q)
  PROVE  /\ SubSeq(q, p, p) = << q[p] >>
         /\ p < Len(q) => SubSeq(q, p, p + 1) = << q[p], q[p + 1] >>
<1>1. Len(q) \in Nat /\ p \in Nat
  OBVIOUS
<1>2. ASSUME NEW n \in 1 .. Len(q)
      PROVE  SubSeq(q, n, n) = << q[n] >>
  <2>1. n \in n .. Len(q) /\ n \in Int /\ n + 1 \in Int /\ n < n + 1
    BY <1>1
  <2>2. SubSeq(q, n, n) = << q[n] >> \o SubSeq(q, n + 1, n)
    BY <2>1, SubSeqRecursiveFirst
  <2>3. SubSeq(q, n + 1, n) = << >>
    BY <2>1, SubSeqEmpty
  <2>4. << q[n] >> \o << >> = << q[n] >>
    OBVIOUS
  <2> QED
    BY ONLY <2>2, <2>3, <2>4
<1>3. ASSUME p < Len(q)
      PROVE  SubSeq(q, p, p + 1) = << q[p], q[p + 1] >>
  <2>1. p + 1 \in p .. Len(q) /\ p + 1 \in 1 .. Len(q)
    BY <1>1, <1>3
  <2>2. SubSeq(q, p, p + 1) = << q[p] >> \o SubSeq(q, p + 1, p + 1)
    BY <2>1, SubSeqRecursiveFirst
  <2>3. SubSeq(q, p + 1, p + 1) = << q[p + 1] >>
    BY <1>2, <2>1
  <2>4. PICK a, b : a = q[p] /\ b = q[p + 1]
    OBVIOUS
  <2>5. << a >> \o << b >> = << a, b >>
    <3>1. PICK c, d, e, T : c = << a >> /\ d = << b >> /\ e = << a, b >> /\ T = {a, b}
      OBVIOUS
    <3>2. /\ c \in Seq(T) /\ d \in Seq(T) /\ e \in Seq(T)
          /\ Len(c) = 1 /\ Len(d) = 1 /\ Len(e) = 2 /\ c[1] = a /\ d[1] = b /\ e[1] = a /\ e[2] = b
      BY ONLY <3>1
    <3>3. PICK f : f = c \o d
      OBVIOUS
    <3>4. /\ f \in Seq(T) /\ Len(f) = Len(c) + Len(d)
          /\ \A i \in 1 .. Len(c) + Len(d) : f[i] = IF i <= Len(c) THEN c[i] ELSE d[i - Len(c)]
      BY ONLY <3>2, <3>3, ConcatProperties
    <3>5. Len(f) = Len(e) /\ \A i \in 1 .. Len(f) : f[i] = e[i]
      BY ONLY <3>2, <3>4
    <3>6. f = e
      BY ONLY <3>2, <3>4, <3>5, SeqEqual
    <3> QED
      BY ONLY <3>1, <3>3, <3>6
  <2> QED
    BY ONLY <2>2, <2>3, <2>4, <2>5
<1> QED
  BY <1>2, <1>3

\* A grammar with w for rule r, with d for the new rule k, without rule id, and
\* the texts with t for it.
Edited(g, r, w) == [g EXCEPT ![r] = w]
Extended(g, k, d) == [x \in DOMAIN g \cup {k} |-> IF x = k THEN d ELSE g[x]]
Shrunk(g, id) == [x \in DOMAIN g \ {id} |-> g[x]]
ExtendedTexts(V, k, t) == [x \in 1 .. k |-> IF x = k THEN t ELSE V[x]]

\* What the creation of rule k with body d keeps.
CreationKeeps(g, h, V, W, k, d) ==
  /\ Stands(h, W, k + 1)
  /\ \A q \in Seq(SymbolsOver(1 .. (k - 1))) : expand_seq(q, W) = expand_seq(q, V)
  /\ d \in Seq(SymbolsOver(1 .. (k - 1)))
  /\ W[k] = expand_seq(d, V)
  /\ \A x \in 1 .. (k - 1) : W[x] = V[x]
  /\ h[StartRule] = g[StartRule]

\* The text of a new rule comes with the rule.
LEMMA StandsCreated ==
  ASSUME NEW g, NEW V, NEW k, Stands(g, V, k),
         NEW r \in DOMAIN g, NEW p \in Nat \ {0}, p < Len(g[r]),
         NEW d, d = << g[r][p], g[r][p + 1] >>,
         NEW h, h = Extended(g, k, d), NEW W, W = ExtendedTexts(V, k, expand_seq(d, V))
  PROVE  CreationKeeps(g, h, V, W, k, d)
<1> USE DEF Extended, ExtendedTexts
<1>1. /\ k \in Nat /\ V \in [1 .. (k - 1) -> Seq(Nat)] /\ RulesOf(g) \subseteq 1 .. (k - 1)
      /\ \A x \in DOMAIN g : g[x] \in Seq(SymbolsOver(1 .. (k - 1)))
  BY BodiesOf
<1>2. /\ k >= 1 /\ k \notin DOMAIN g /\ \A x \in 1 .. (k - 1) : V[x] # << >>
      /\ \A x \in DOMAIN g : g[x] \in Seq(SymbolsOver(RulesOf(g)))
      /\ DOMAIN g \subseteq 0 .. (k - 1) /\ StartRule \in DOMAIN g
  BY DEF Stands, StartRule
<1>3. d \in Seq(SymbolsOver(RulesOf(g))) /\ Len(d) = 2
  <2>1. PICK q : q = g[r]
    OBVIOUS
  <2>2. q \in Seq(SymbolsOver(RulesOf(g))) /\ p \in 1 .. Len(q) /\ p + 1 \in 1 .. Len(q)
    BY <1>2, <2>1
  <2>3. q[p] \in SymbolsOver(RulesOf(g)) /\ q[p + 1] \in SymbolsOver(RulesOf(g))
    BY <2>2
  <2>4. d = << q[p], q[p + 1] >>
    BY <2>1
  <2> QED
    BY ONLY <2>3, <2>4
<1>4. d \in Seq(SymbolsOver(1 .. (k - 1)))
  BY <1>1, <1>3, SymbolsGrow
<1>5. expand_seq(d, V) \in Seq(Nat) /\ expand_seq(d, V) # << >>
  <2>1. expand_seq(d, V) \in Seq(Nat) /\ Len(expand_seq(d, V)) >= Len(d)
    BY ONLY <1>1, <1>2, <1>4, TextType
  <2> QED
    BY ONLY <1>3, <2>1
<1>6. /\ W \in [1 .. k -> Seq(Nat)] /\ W[k] = expand_seq(d, V)
      /\ \A x \in 1 .. (k - 1) : W[x] = V[x]
      /\ \A x \in 1 .. k : W[x] # << >>
  <2>1. k \in 1 .. k /\ \A x \in 1 .. k : x # k => x \in 1 .. (k - 1)
    BY <1>1, <1>2
  <2>2. \A x \in 1 .. (k - 1) : x \in 1 .. k /\ x # k
    BY <1>1, <1>2
  <2>3. PICK e : e = expand_seq(d, V)
    OBVIOUS
  <2>4. W = [x \in 1 .. k |-> IF x = k THEN e ELSE V[x]]
    BY <2>3 DEF ExtendedTexts
  <2>5. e \in Seq(Nat) /\ e # << >>
    BY <1>5, <2>3
  <2>6. W[k] = e
    BY ONLY <2>1, <2>4
  <2>7. \A x \in 1 .. (k - 1) : W[x] = V[x]
    BY ONLY <2>2, <2>4
  <2>8. W \in [1 .. k -> Seq(Nat)]
    BY ONLY <1>1, <2>1, <2>4, <2>5
  <2>9. \A x \in 1 .. k : W[x] # << >>
    BY ONLY <1>2, <2>1, <2>5, <2>6, <2>7
  <2> QED
    BY ONLY <2>3, <2>6, <2>7, <2>8, <2>9
<1>7. ASSUME NEW q \in Seq(SymbolsOver(1 .. (k - 1)))
      PROVE  expand_seq(q, W) = expand_seq(q, V)
  <2>1. ASSUME NEW n \in 1 .. Len(q)
        PROVE  SymbolText(q[n], W) = SymbolText(q[n], V)
    <3>1. q[n] \in SymbolsOver(1 .. (k - 1))
      OBVIOUS
    <3>2. CASE \E t \in Nat : q[n] = Terminal(t)
      BY ONLY <3>2 DEF SymbolText, Terminal
    <3>3. CASE \E s \in 1 .. (k - 1) : q[n] = NonTerminal(s)
      <4>1. PICK s \in 1 .. (k - 1) : q[n] = NonTerminal(s)
        BY ONLY <3>3
      <4>2. s \in DOMAIN V /\ s \in DOMAIN W /\ W[s] = V[s]
        BY ONLY <1>1, <1>6, s \in 1 .. (k - 1)
      <4>3. SymbolText(NonTerminal(s), W) = W[s] /\ SymbolText(NonTerminal(s), V) = V[s]
        BY ONLY <4>2 DEF SymbolText, NonTerminal
      <4> QED
        BY ONLY <4>1, <4>2, <4>3
    <3> QED
      BY ONLY <3>1, <3>2, <3>3 DEF SymbolsOver
  <2>2. Len(q) \in Nat
    OBVIOUS
  <2> QED
    BY ONLY <2>1, <2>2, TextAgrees
<1>8. RulesOf(h) = RulesOf(g) \cup {k} /\ DOMAIN h = DOMAIN g \cup {k} /\ h[k] = d
      /\ \A x \in DOMAIN g : h[x] = g[x]
  BY <1>1, <1>2 DEF RulesOf, StartRule
<1>9. \A x \in DOMAIN h : h[x] \in Seq(SymbolsOver(RulesOf(h)))
  <2>1. Seq(SymbolsOver(RulesOf(g))) \subseteq Seq(SymbolsOver(RulesOf(h)))
    BY ONLY <1>8, SymbolsGrow
  <2> QED
    BY ONLY <1>2, <1>3, <1>8, <2>1
<1>10. ASSUME NEW x \in RulesOf(h)
       PROVE  h[x] # << >> /\ expand_seq(h[x], W) = W[x]
  <2>1. CASE x = k
    <3>1. d # << >>
      BY ONLY <1>3
    <3>2. expand_seq(d, W) = W[k]
      BY ONLY <1>4, <1>6, <1>7
    <3> QED
      BY ONLY <1>8, <2>1, <3>1, <3>2
  <2>2. CASE x \in RulesOf(g)
    <3>1. x \in DOMAIN g /\ x \in 1 .. (k - 1) /\ g[x] # << >> /\ expand_seq(g[x], V) = V[x]
      BY <1>1, <2>2 DEF Stands, RulesOf
    <3>2. expand_seq(g[x], W) = expand_seq(g[x], V)
      BY ONLY <1>1, <1>7, <3>1
    <3> QED
      BY ONLY <1>6, <1>8, <3>1, <3>2
  <2> QED
    BY ONLY <1>8, <2>1, <2>2, x \in RulesOf(h)
<1>11. ASSUME NEW x \in RulesOf(h), NEW s \in RulesOf(h), h[x] = << NonTerminal(s) >>
       PROVE  x < s
  <2>1. x # k
    <3>1. Len(<< NonTerminal(s) >>) = 1
      OBVIOUS
    <3>2. Len(h[x]) = 1
      BY ONLY <1>11, <3>1
    <3>3. Len(h[k]) = 2
      BY ONLY <1>3, <1>8
    <3> QED
      BY ONLY <3>2, <3>3
  <2>2. x \in RulesOf(g) /\ h[x] = g[x] /\ x \in 1 .. (k - 1)
    BY <1>1, <1>8, <2>1 DEF RulesOf
  <2>3. CASE s = k
    BY ONLY <1>1, <2>2, <2>3
  <2>4. CASE s \in RulesOf(g)
    BY <1>11, <2>2, <2>4 DEF Stands
  <2> QED
    BY <1>8, <2>3, <2>4
<1>12. (k + 1) - 1 = k /\ k + 1 \in Nat /\ DOMAIN h \subseteq 0 .. k /\ StartRule \in DOMAIN h
  BY ONLY <1>1, <1>2, <1>8
<1>13. Stands(h, W, k + 1)
  BY ONLY <1>6, <1>9, <1>10, <1>11, <1>12 DEF Stands
<1> QED
  BY ONLY <1>2, <1>3, <1>4, <1>6, <1>7, <1>8, <1>13 DEF CreationKeeps

\* A digram replaced by the rule that stands for it.
LEMMA StandsSubstituted ==
  ASSUME NEW g, NEW V, NEW k, Stands(g, V, k),
         NEW r \in DOMAIN g, NEW p \in Nat \ {0}, p < Len(g[r]),
         NEW d, d = << g[r][p], g[r][p + 1] >>,
         NEW id \in RulesOf(g), r < id, expand_seq(d, V) = V[id],
         NEW h, h = Edited(g, r, Joined(SubSeq(g[r], 1, p - 1), << NonTerminal(id) >>,
                                        SubSeq(g[r], p + 2, Len(g[r]))))
  PROVE  /\ Stands(h, V, k) /\ DOMAIN h = DOMAIN g
         /\ expand_seq(h[StartRule], V) = expand_seq(g[StartRule], V)
<1> USE DEF Edited
<1>1. /\ k \in Nat /\ V \in [1 .. (k - 1) -> Seq(Nat)] /\ RulesOf(g) \subseteq 1 .. (k - 1)
      /\ \A x \in DOMAIN g : g[x] \in Seq(SymbolsOver(1 .. (k - 1)))
  BY BodiesOf
<1>2. PICK q, w : /\ q = g[r]
                  /\ w = Joined(SubSeq(q, 1, p - 1), << NonTerminal(id) >>, SubSeq(q, p + 2, Len(q)))
  OBVIOUS
<1>3. DOMAIN h = DOMAIN g /\ h[r] = w /\ \A x \in DOMAIN h : x # r => h[x] = g[x]
  BY <1>2 DEF Joined
<1>4. RulesOf(h) = RulesOf(g)
  BY <1>3 DEF RulesOf
<1>5. /\ q \in Seq(SymbolsOver(RulesOf(g))) /\ q \in Seq(SymbolsOver(1 .. (k - 1)))
      /\ Len(q) \in Nat /\ p \in 1 .. Len(q) /\ p + 1 \in p .. Len(q) /\ p < Len(q)
  <2>1. q \in Seq(SymbolsOver(RulesOf(g))) /\ q \in Seq(SymbolsOver(1 .. (k - 1))) /\ p < Len(q)
    BY <1>1, <1>2 DEF Stands
  <2>2. Len(q) \in Nat
    BY ONLY <2>1
  <2> QED
    BY ONLY <2>1, <2>2, p \in Nat \ {0}
<1>6. PICK m : m = << NonTerminal(id) >>
  OBVIOUS
<1>7. NonTerminal(id) \in SymbolsOver(RulesOf(g)) /\ NonTerminal(id) \in SymbolsOver(1 .. (k - 1))
  BY <1>1 DEF SymbolsOver
<1>8. m \in Seq(SymbolsOver(RulesOf(g))) /\ m \in Seq(SymbolsOver(1 .. (k - 1))) /\ Len(m) = 1 /\ m[1] = NonTerminal(id)
  BY ONLY <1>6, <1>7
<1>9. PICK e : e = p + 1
  OBVIOUS
<1>10. e \in p .. Len(q) /\ e + 1 = p + 2 /\ e \in Nat
  BY ONLY <1>5, <1>9, p \in Nat \ {0}
<1>11. w = Put(q, p, e, m)
  BY ONLY <1>2, <1>6, <1>10 DEF Put
<1>12. /\ w \in Seq(SymbolsOver(RulesOf(g))) /\ Len(w) = (Len(q) - (e - p + 1)) + Len(m)
       /\ Mixed(w, q, p, e, m)
  <2>1. q \in Seq(SymbolsOver(RulesOf(g))) /\ m \in Seq(SymbolsOver(RulesOf(g))) /\ p \in 1 .. Len(q) /\ e \in p .. Len(q)
    BY <1>5, <1>8, <1>10
  <2>2. Put(q, p, e, m) \in Seq(SymbolsOver(RulesOf(g))) /\ Mixed(Put(q, p, e, m), q, p, e, m)
    BY ONLY <2>1, Spliced
  <2>3. Len(Put(q, p, e, m)) = (Len(q) - (e - p + 1)) + Len(m)
    BY ONLY <2>1, Spliced
  <2> QED
    BY ONLY <1>11, <2>2, <2>3
<1>13. expand_seq(w, V) = expand_seq(q, V)
  <2>1. SubSeq(q, p, e) = << q[p], q[p + 1] >>
    BY ONLY <1>5, <1>9, PairAt
  <2>2. expand_seq(SubSeq(q, p, e), V) = V[id]
    BY <1>2, <2>1
  <2>3. expand_seq(m, V) = V[id]
    <3>1. expand_seq(m, V) = SymbolText(NonTerminal(id), V)
      BY ONLY <1>1, <1>6, <1>7, TextOfOne
    <3>2. SymbolText(NonTerminal(id), V) = V[id]
      BY <1>1 DEF SymbolText, NonTerminal
    <3> QED
      BY ONLY <3>1, <3>2
  <2>4. expand_seq(m, V) = expand_seq(SubSeq(q, p, e), V)
    BY ONLY <2>2, <2>3
  <2> QED
    <3>1. /\ V \in [1 .. (k - 1) -> Seq(Nat)] /\ p \in 1 .. Len(q) /\ e \in p .. Len(q)
          /\ q \in Seq(SymbolsOver(1 .. (k - 1))) /\ m \in Seq(SymbolsOver(1 .. (k - 1)))
      BY <1>1, <1>5, <1>8, <1>10
    <3>2. expand_seq(Put(q, p, e, m), V) = expand_seq(q, V)
      BY ONLY <2>4, <3>1, SplicedText
    <3> QED
      BY ONLY <1>11, <3>2
<1>14. Len(w) = Len(q) - 1 /\ Len(w) >= 1
  BY ONLY <1>5, <1>8, <1>9, <1>12, p \in Nat \ {0}
<1>15. ASSUME NEW s, w = << NonTerminal(s) >>
       PROVE  s = id
  <2>1. Len(w) = 1 /\ w[1] = NonTerminal(s)
    BY ONLY <1>15
  <2>2. Len(q) = 2 /\ p = 1 /\ e = 2
    <3>1. PICK l \in Nat : l = Len(q)
      BY <1>5
    <3>2. l - 1 = 1 /\ p < l
      BY <1>5, <1>14, <2>1, <3>1
    <3>3. l = 2
      BY ONLY l \in Nat, <3>2
    <3>4. p = 1
      BY ONLY <3>2, <3>3, p \in Nat \ {0}
    <3> QED
      BY ONLY <1>9, <3>1, <3>3, <3>4
  <2>3. \E j \in 1 .. Len(m) : w[1] = m[j]
    <3>1. 1 \in 1 .. Len(w) /\ ~ \E j \in 1 .. Len(q) : j < p \/ j > e
      BY ONLY <2>1, <2>2
    <3> QED
      BY ONLY <1>12, <3>1 DEF Mixed
  <2>4. w[1] = NonTerminal(id)
    BY ONLY <1>8, <2>3
  <2> QED
    BY ONLY <2>1, <2>4 DEF NonTerminal
<1>16. \A x \in DOMAIN h : h[x] \in Seq(SymbolsOver(RulesOf(h)))
  BY <1>3, <1>4, <1>12 DEF Stands
<1>17. /\ expand_seq(h[r], V) = expand_seq(g[r], V)
       /\ h[r] # << >>
       /\ \A s \in RulesOf(h) : h[r] = << NonTerminal(s) >> => r < s \/ r = StartRule
  <2>1. w # << >>
    BY ONLY <1>14
  <2>2. \A s \in RulesOf(h) : w = << NonTerminal(s) >> => r < s
    BY ONLY <1>15, r < id
  <2> QED
    BY ONLY <1>2, <1>3, <1>13, <2>1, <2>2
<1>18. DOMAIN h \subseteq DOMAIN g /\ StartRule \in DOMAIN h /\ r \in DOMAIN h
  BY <1>3 DEF Stands
<1>19. Stands(h, V, k) /\ expand_seq(h[StartRule], V) = expand_seq(g[StartRule], V)
  BY ONLY Stands(g, V, k), <1>3, <1>16, <1>17, <1>18, StandsRewritten
<1> QED
  BY ONLY <1>3, <1>19

\* The uses of a rule are places of sequences.
LEMMA UsesArePlaces ==
  ASSUME NEW g, NEW id
  PROVE  /\ \A q \in RuleRefs(g, id) : /\ q = << q[1], q[2] >> /\ q[1] \in DOMAIN g
                                       /\ q[2] \in DOMAIN g[q[1]] /\ g[q[1]][q[2]] = NonTerminal(id)
         /\ \A r \in DOMAIN g : \A p \in DOMAIN g[r] :
              g[r][p] = NonTerminal(id) => << r, p >> \in RuleRefs(g, id)
<1>1. ASSUME NEW q \in RuleRefs(g, id)
      PROVE  /\ q = << q[1], q[2] >> /\ q[1] \in DOMAIN g
             /\ q[2] \in DOMAIN g[q[1]] /\ g[q[1]][q[2]] = NonTerminal(id)
  <2>1. PICK T \in {{<<r, p>> : p \in DOMAIN g[r]} : r \in DOMAIN g} : q \in T /\ g[q[1]][q[2]] = NonTerminal(id)
    BY DEF RuleRefs
  <2>2. PICK r \in DOMAIN g : T = {<<r, p>> : p \in DOMAIN g[r]}
    BY <2>1
  <2>3. PICK p \in DOMAIN g[r] : q = << r, p >>
    BY <2>1, <2>2
  <2> QED
    BY <2>1, <2>3
<1>2. ASSUME NEW r \in DOMAIN g, NEW p \in DOMAIN g[r], g[r][p] = NonTerminal(id)
      PROVE  << r, p >> \in RuleRefs(g, id)
  <2>1. << r, p >> \in {<<r, i>> : i \in DOMAIN g[r]}
    OBVIOUS
  <2>2. << r, p >> \in UNION {{<<x, i>> : i \in DOMAIN g[x]} : x \in DOMAIN g}
    BY <2>1
  <2> QED
    BY <1>2, <2>2 DEF RuleRefs
<1> QED
  BY <1>1, <1>2

\* A symbol that is not about a rule does without it.
LEMMA SymbolsWithout ==
  ASSUME NEW R, NEW id, NEW y \in SymbolsOver(R), y # NonTerminal(id)
  PROVE  y \in SymbolsOver(R \ {id})
BY DEF SymbolsOver

\* A rule nothing is about leaves.
LEMMA StandsDropped ==
  ASSUME NEW g, NEW V, NEW k, Stands(g, V, k), NEW id \in 1 .. (k - 1),
         id \in DOMAIN g => RuleRefs(g, id) = {},
         NEW h, h = Shrunk(g, id)
  PROVE  /\ Stands(h, V, k) /\ DOMAIN h = DOMAIN g \ {id}
         /\ expand_seq(h[StartRule], V) = expand_seq(g[StartRule], V)
<1> USE DEF Shrunk
<1>1. /\ k \in Nat /\ DOMAIN g \subseteq 0 .. (k - 1) /\ StartRule \in DOMAIN g
      /\ \A x \in DOMAIN g : g[x] \in Seq(SymbolsOver(RulesOf(g)))
  BY DEF Stands
<1>2. id # StartRule
  BY <1>1 DEF StartRule
<1>3. /\ DOMAIN h = DOMAIN g \ {id} /\ StartRule \in DOMAIN h /\ RulesOf(h) = RulesOf(g) \ {id}
      /\ \A x \in DOMAIN h : h[x] = g[x]
  BY <1>1, <1>2 DEF RulesOf
<1>4. ASSUME NEW x \in DOMAIN h
      PROVE  h[x] \in Seq(SymbolsOver(RulesOf(h)))
  <2>1. x \in DOMAIN g /\ h[x] = g[x] /\ g[x] \in Seq(SymbolsOver(RulesOf(g)))
    BY <1>1, <1>3
  <2>2. PICK q : q = g[x]
    OBVIOUS
  <2>3. ASSUME NEW i \in 1 .. Len(q)
        PROVE  q[i] \in SymbolsOver(RulesOf(h))
    <3>1. q \in Seq(SymbolsOver(RulesOf(g)))
      BY <2>1, <2>2
    <3>2. q[i] \in SymbolsOver(RulesOf(g)) /\ i \in DOMAIN q
      BY ONLY <3>1, i \in 1 .. Len(q)
    <3>3. q[i] # NonTerminal(id)
      <4>1. CASE id \in DOMAIN g
        <5>1. RuleRefs(g, id) = {}
          BY <4>1
        <5> QED
          BY ONLY <2>1, <2>2, <3>2, <5>1, UsesArePlaces
      <4>2. CASE id \notin DOMAIN g
        <5>1. NonTerminal(id) \notin SymbolsOver(RulesOf(g))
          BY ONLY <4>2 DEF SymbolsOver, RulesOf, NonTerminal, Terminal
        <5> QED
          BY ONLY <3>2, <5>1
      <4> QED
        BY ONLY <4>1, <4>2
    <3>4. q[i] \in SymbolsOver(RulesOf(g) \ {id})
      BY ONLY <3>2, <3>3, SymbolsWithout
    <3> QED
      BY ONLY <1>3, <3>4
  <2> QED
    BY ONLY <2>1, <2>2, <2>3, ElementsInSeq
<1>5. /\ DOMAIN h \subseteq DOMAIN g
      /\ \A x \in DOMAIN h : x # StartRule => h[x] = g[x]
      /\ \A x \in DOMAIN h : h[x] \in Seq(SymbolsOver(RulesOf(h)))
      /\ expand_seq(h[StartRule], V) = expand_seq(g[StartRule], V)
      /\ StartRule # StartRule => h[StartRule] # << >>
      /\ \A s \in RulesOf(h) : h[StartRule] = << NonTerminal(s) >> => StartRule < s \/ StartRule = StartRule
  BY ONLY <1>3, <1>4
<1>6. Stands(h, V, k)
  BY ONLY Stands(g, V, k), <1>3, <1>5, StandsRewritten
<1> QED
  BY ONLY <1>3, <1>5, <1>6

\* The one use of a rule, and its body in that place.
UsedOnce(g, id, r, p) == RuleRefs(g, id) = {<< r, p >>}
ExpandedAt(g, f, id, r, p) ==
  Edited(f, r, Joined(SubSeq(f[r], 1, p - 1), g[id], SubSeq(f[r], p + 1, Len(f[r]))))

\* What the expansion keeps.
ExpansionKeeps(g, h, V, k, id, r, p) ==
  /\ r # id /\ r \in DOMAIN g /\ p \in Nat \ {0}
  /\ Stands(h, V, k) /\ DOMAIN h = DOMAIN g \ {id}
  /\ expand_seq(h[StartRule], V) = expand_seq(g[StartRule], V)

\* The body of a rule takes the place of its only use.
LEMMA StandsExpanded ==
  ASSUME NEW g, NEW V, NEW k, Stands(g, V, k), NEW id \in RulesOf(g),
         NEW r, NEW p, UsedOnce(g, id, r, p),
         NEW f, f = Shrunk(g, id),
         NEW h, h = ExpandedAt(g, f, id, r, p)
  PROVE  ExpansionKeeps(g, h, V, k, id, r, p)
<1> USE DEF Shrunk, Edited, UsedOnce, ExpandedAt
<1>1. /\ k \in Nat /\ V \in [1 .. (k - 1) -> Seq(Nat)] /\ RulesOf(g) \subseteq 1 .. (k - 1)
      /\ \A x \in DOMAIN g : g[x] \in Seq(SymbolsOver(1 .. (k - 1)))
  BY BodiesOf
<1>2. /\ \A x \in DOMAIN g : g[x] \in Seq(SymbolsOver(RulesOf(g)))
      /\ StartRule \in DOMAIN g /\ id \in DOMAIN g /\ id # StartRule
      /\ g[id] # << >> /\ expand_seq(g[id], V) = V[id]
  BY DEF Stands, RulesOf
<1>3. r \in DOMAIN g /\ p \in DOMAIN g[r] /\ g[r][p] = NonTerminal(id)
  <2>1. << r, p >> \in RuleRefs(g, id)
    OBVIOUS
  <2> QED
    BY ONLY <2>1, UsesArePlaces
<1>4. \A x \in DOMAIN g : \A i \in DOMAIN g[x] : g[x][i] = NonTerminal(id) => x = r /\ i = p
  <2>1. \A x \in DOMAIN g : \A i \in DOMAIN g[x] : g[x][i] = NonTerminal(id) => << x, i >> = << r, p >>
    <3> SUFFICES ASSUME NEW x \in DOMAIN g, NEW i \in DOMAIN g[x], g[x][i] = NonTerminal(id)
                 PROVE  << x, i >> = << r, p >>
      OBVIOUS
    <3>1. << x, i >> \in RuleRefs(g, id)
      BY UsesArePlaces
    <3>2. RuleRefs(g, id) = {<< r, p >>}
      BY DEF UsedOnce
    <3> QED
      BY ONLY <3>1, <3>2
  <2> QED
    BY ONLY <2>1
<1>5. PICK q, b : q = g[r] /\ b = g[id]
  OBVIOUS
<1>6. /\ q \in Seq(SymbolsOver(RulesOf(g))) /\ q \in Seq(SymbolsOver(1 .. (k - 1)))
      /\ b \in Seq(SymbolsOver(RulesOf(g))) /\ b \in Seq(SymbolsOver(1 .. (k - 1)))
      /\ b # << >> /\ expand_seq(b, V) = V[id]
  BY <1>1, <1>2, <1>3, <1>5
<1>7. DOMAIN q = 1 .. Len(q) /\ Len(q) \in Nat /\ DOMAIN b = 1 .. Len(b) /\ Len(b) \in Nat /\ Len(b) >= 1
  BY ONLY <1>6
<1>8. p \in 1 .. Len(q) /\ p \in Nat \ {0} /\ p \in p .. Len(q) /\ q[p] = NonTerminal(id)
  BY ONLY <1>3, <1>5, <1>7
<1>9. r # id
  <2>1. CASE r = id
    <3>1. p \in 1 .. Len(g[id]) /\ g[id][p] = NonTerminal(id)
      BY ONLY <1>5, <1>8, <2>1
    <3>2. id # id
      BY ONLY Stands(g, V, k), id \in RulesOf(g), <3>1, UsesAreBelow
    <3> QED
      BY ONLY <3>2
  <2> QED
    BY ONLY <2>1
<1>10. PICK w : w = Put(q, p, p, b)
  OBVIOUS
<1>11. DOMAIN h = DOMAIN g \ {id} /\ h[r] = w /\ (\A x \in DOMAIN h : x # r => h[x] = g[x]) /\ r \in DOMAIN h
  <2>1. DOMAIN f = DOMAIN g \ {id} /\ \A x \in DOMAIN f : f[x] = g[x]
    OBVIOUS
  <2>2. f[r] = q /\ r \in DOMAIN f
    BY ONLY <1>3, <1>5, <1>9, <2>1
  <2>3. Joined(SubSeq(f[r], 1, p - 1), g[id], SubSeq(f[r], p + 1, Len(f[r]))) = w
    BY ONLY <1>5, <1>10, <2>2 DEF Put
  <2>4. h = [f EXCEPT ![r] = w]
    BY <2>3
  <2> QED
    BY ONLY <2>1, <2>2, <2>4
<1>12. RulesOf(h) = RulesOf(g) \ {id} /\ StartRule \in DOMAIN h
  BY ONLY <1>2, <1>11 DEF RulesOf
<1>13. w \in Seq(SymbolsOver(RulesOf(g))) /\ Mixed(w, q, p, p, b) /\ Len(w) = (Len(q) - (p - p + 1)) + Len(b)
  <2>1. q \in Seq(SymbolsOver(RulesOf(g))) /\ b \in Seq(SymbolsOver(RulesOf(g))) /\ p \in 1 .. Len(q) /\ p \in p .. Len(q)
    BY ONLY <1>6, <1>8
  <2>2. Put(q, p, p, b) \in Seq(SymbolsOver(RulesOf(g))) /\ Mixed(Put(q, p, p, b), q, p, p, b)
    BY ONLY <2>1, Spliced
  <2>3. Len(Put(q, p, p, b)) = (Len(q) - (p - p + 1)) + Len(b)
    BY ONLY <2>1, Spliced
  <2> QED
    BY ONLY <1>10, <2>2, <2>3
<1>14. Len(w) = (Len(q) - 1) + Len(b)
  BY ONLY <1>7, <1>8, <1>13
<1>15. expand_seq(w, V) = expand_seq(q, V)
  <2>1. SubSeq(q, p, p) = << NonTerminal(id) >>
    BY ONLY <1>6, <1>8, PairAt
  <2>2. expand_seq(<< NonTerminal(id) >>, V) = V[id]
    <3>1. NonTerminal(id) \in SymbolsOver(1 .. (k - 1)) /\ id \in DOMAIN V
      BY <1>1 DEF SymbolsOver
    <3>2. expand_seq(<< NonTerminal(id) >>, V) = SymbolText(NonTerminal(id), V)
      BY ONLY <1>1, <3>1, TextOfOne
    <3>3. SymbolText(NonTerminal(id), V) = V[id]
      BY ONLY <3>1 DEF SymbolText, NonTerminal
    <3> QED
      BY ONLY <3>2, <3>3
  <2>3. expand_seq(b, V) = expand_seq(SubSeq(q, p, p), V)
    BY ONLY <1>6, <2>1, <2>2
  <2>4. /\ V \in [1 .. (k - 1) -> Seq(Nat)] /\ p \in 1 .. Len(q) /\ p \in p .. Len(q)
        /\ q \in Seq(SymbolsOver(1 .. (k - 1))) /\ b \in Seq(SymbolsOver(1 .. (k - 1)))
    BY ONLY <1>1, <1>6, <1>8
  <2> QED
    BY ONLY <1>10, <2>3, <2>4, SplicedText
<1>16. ASSUME NEW x \in DOMAIN g, x # r, NEW i \in 1 .. Len(g[x])
       PROVE  g[x][i] \in SymbolsOver(RulesOf(h))
  <2>1. g[x] \in Seq(SymbolsOver(RulesOf(g)))
    BY <1>2
  <2>2. g[x][i] \in SymbolsOver(RulesOf(g)) /\ i \in DOMAIN g[x]
    BY ONLY <2>1, i \in 1 .. Len(g[x])
  <2>3. g[x][i] # NonTerminal(id)
    BY ONLY <1>4, <1>16, <2>2, x \in DOMAIN g
  <2>4. g[x][i] \in SymbolsOver(RulesOf(g) \ {id})
    BY ONLY <2>2, <2>3, SymbolsWithout
  <2> QED
    BY ONLY <1>12, <2>4
<1>17. ASSUME NEW i \in 1 .. Len(w)
       PROVE  w[i] \in SymbolsOver(RulesOf(h))
  <2>1. CASE \E j \in 1 .. Len(b) : w[i] = b[j]
    <3>1. PICK j \in 1 .. Len(b) : w[i] = b[j]
      BY ONLY <2>1
    <3>2. j \in 1 .. Len(g[id]) /\ b[j] = g[id][j]
      BY ONLY <1>5, j \in 1 .. Len(b)
    <3>3. g[id][j] \in SymbolsOver(RulesOf(h))
      BY ONLY <1>2, <1>9, <1>16, <3>2
    <3> QED
      BY ONLY <3>1, <3>2, <3>3
  <2>2. CASE \E j \in 1 .. Len(q) : (j < p \/ j > p) /\ w[i] = q[j]
    <3>1. PICK j \in 1 .. Len(q) : (j < p \/ j > p) /\ w[i] = q[j]
      BY ONLY <2>2
    <3>2. j # p /\ j \in DOMAIN g[r] /\ q[j] = g[r][j] /\ q[j] \in SymbolsOver(RulesOf(g))
      BY ONLY <1>5, <1>6, <1>7, <1>8, <3>1
    <3>3. q[j] # NonTerminal(id)
      BY ONLY <1>3, <1>4, <3>2
    <3>4. q[j] \in SymbolsOver(RulesOf(g) \ {id})
      BY ONLY <3>2, <3>3, SymbolsWithout
    <3> QED
      BY ONLY <1>12, <3>1, <3>4
  <2> QED
    BY ONLY <1>13, <2>1, <2>2, i \in 1 .. Len(w) DEF Mixed
<1>18. ASSUME NEW x \in DOMAIN h
       PROVE  h[x] \in Seq(SymbolsOver(RulesOf(h)))
  <2>1. CASE x = r
    <3>1. w \in Seq(SymbolsOver(RulesOf(h)))
      BY ONLY <1>13, <1>17, ElementsInSeq
    <3> QED
      BY ONLY <1>11, <2>1, <3>1
  <2>2. CASE x # r
    <3>1. x \in DOMAIN g /\ h[x] = g[x]
      BY ONLY <1>11, <2>2, x \in DOMAIN h
    <3>2. g[x] \in Seq(SymbolsOver(RulesOf(g))) /\ \A i \in 1 .. Len(g[x]) : g[x][i] \in SymbolsOver(RulesOf(h))
      BY <1>2, <1>16, <2>2, <3>1
    <3>3. PICK u : u = g[x]
      OBVIOUS
    <3>4. u \in Seq(SymbolsOver(RulesOf(g))) /\ \A i \in 1 .. Len(u) : u[i] \in SymbolsOver(RulesOf(h))
      BY ONLY <3>2, <3>3
    <3>5. u \in Seq(SymbolsOver(RulesOf(h)))
      BY ONLY <3>4, ElementsInSeq
    <3> QED
      BY ONLY <3>1, <3>3, <3>5
  <2> QED
    BY ONLY <2>1, <2>2
<1>19. w # << >>
  BY ONLY <1>7, <1>8, <1>14
<1>20. ASSUME NEW s \in RulesOf(h), w = << NonTerminal(s) >>, r # StartRule
       PROVE  r < s
  <2>1. Len(w) = 1 /\ w[1] = NonTerminal(s)
    BY ONLY <1>20
  <2>2. Len(q) = 1 /\ Len(b) = 1 /\ p = 1
    <3>1. PICK l \in Nat : l = Len(q)
      BY <1>7
    <3>2. PICK c \in Nat : c = Len(b)
      BY <1>7
    <3>3. 1 = (l - 1) + c /\ c >= 1 /\ p \in 1 .. l
      BY ONLY <1>7, <1>8, <1>14, <2>1, <3>1, <3>2
    <3>4. l = 1 /\ c = 1 /\ p = 1
      BY ONLY l \in Nat, c \in Nat, <3>3
    <3> QED
      BY ONLY <3>1, <3>2, <3>4
  <2>3. \E j \in 1 .. Len(b) : w[1] = b[j]
    <3>1. 1 \in 1 .. Len(w) /\ ~ \E j \in 1 .. Len(q) : j < p \/ j > p
      BY ONLY <2>1, <2>2
    <3> QED
      BY ONLY <1>13, <3>1 DEF Mixed
  <2>4. b[1] = NonTerminal(s)
    BY ONLY <2>1, <2>2, <2>3
  <2>5. b = << NonTerminal(s) >>
    BY ONLY <1>6, <2>2, <2>4
  <2>6. q = << NonTerminal(id) >>
    BY ONLY <1>6, <1>8, <2>2
  <2>7. s \in RulesOf(g) /\ r \in RulesOf(g)
    BY ONLY <1>3, <1>12, <1>20, s \in RulesOf(h) DEF RulesOf
  <2>8. r < id /\ id < s
    BY <1>5, <2>5, <2>6, <2>7 DEF Stands
  <2>9. r \in Nat /\ s \in Nat /\ id \in Nat
    BY <1>1, <2>7
  <2> QED
    BY ONLY <2>8, <2>9
<1>21. /\ DOMAIN h \subseteq DOMAIN g
       /\ expand_seq(h[r], V) = expand_seq(g[r], V)
       /\ r # StartRule => h[r] # << >>
       /\ \A s \in RulesOf(h) : h[r] = << NonTerminal(s) >> => r < s \/ r = StartRule
  BY ONLY <1>5, <1>11, <1>15, <1>19, <1>20
<1>22. Stands(h, V, k) /\ expand_seq(h[StartRule], V) = expand_seq(g[StartRule], V)
  BY ONLY Stands(g, V, k), <1>11, <1>12, <1>18, <1>21, StandsRewritten
<1> QED
  BY ONLY <1>3, <1>8, <1>9, <1>11, <1>22 DEF ExpansionKeeps

\* What appending a symbol does to the text.
SymbolKept(g, h, V, k, t) ==
  Stands(h, V, k) /\ expand_seq(h[StartRule], V) = Append(expand_seq(g[StartRule], V), t)

\* A terminal at the end.
LEMMA StandsAppended ==
  ASSUME NEW g, NEW V, NEW k, Stands(g, V, k), NEW t \in Nat,
         NEW h, h = Edited(g, StartRule, Append(g[StartRule], Terminal(t)))
  PROVE  SymbolKept(g, h, V, k, t)
<1> USE DEF Edited
<1>1. /\ k \in Nat /\ V \in [1 .. (k - 1) -> Seq(Nat)] /\ RulesOf(g) \subseteq 1 .. (k - 1)
      /\ \A x \in DOMAIN g : g[x] \in Seq(SymbolsOver(1 .. (k - 1)))
  BY BodiesOf
<1>2. PICK q, y : q = g[StartRule] /\ y = Terminal(t)
  OBVIOUS
<1>3. /\ \A x \in DOMAIN g : g[x] \in Seq(SymbolsOver(RulesOf(g)))
      /\ StartRule \in DOMAIN g
  BY DEF Stands
<1>4. \A R : y \in SymbolsOver(R)
  BY <1>2 DEF SymbolsOver
<1>5. DOMAIN h = DOMAIN g /\ h[StartRule] = Append(q, y) /\ \A x \in DOMAIN h : x # StartRule => h[x] = g[x]
  BY <1>2, <1>3
<1>6. RulesOf(h) = RulesOf(g) /\ StartRule \in DOMAIN h
  BY ONLY <1>3, <1>5 DEF RulesOf
<1>7. q \in Seq(SymbolsOver(RulesOf(g))) /\ q \in Seq(SymbolsOver(1 .. (k - 1)))
  BY <1>1, <1>2, <1>3
<1>8. Append(q, y) \in Seq(SymbolsOver(RulesOf(g))) /\ Append(q, y) = q \o << y >>
  BY ONLY <1>4, <1>7, AppendProperties, AppendIsConcat
<1>9. expand_seq(Append(q, y), V) = Append(expand_seq(q, V), t)
  <2>1. << y >> \in Seq(SymbolsOver(1 .. (k - 1)))
    BY ONLY <1>4
  <2>2. expand_seq(q \o << y >>, V) = expand_seq(q, V) \o expand_seq(<< y >>, V)
    BY ONLY <1>1, <1>7, <2>1, TextJoins
  <2>3. expand_seq(<< y >>, V) = SymbolText(y, V)
    BY ONLY <1>1, <1>4, TextOfOne
  <2>4. SymbolText(y, V) = << t >>
    BY <1>2 DEF SymbolText, Terminal
  <2>5. expand_seq(q, V) \in Seq(Nat)
    BY ONLY <1>1, <1>7, TextType
  <2>6. PICK e : e = expand_seq(q, V)
    OBVIOUS
  <2>7. e \o << t >> = Append(e, t)
    BY <2>5, <2>6, AppendIsConcat
  <2> QED
    BY ONLY <1>8, <2>2, <2>3, <2>4, <2>6, <2>7
<1>10. Stands(h, V, k)
  <2>1. \A x \in RulesOf(g) : h[x] = g[x] /\ x \in DOMAIN g
    BY <1>5 DEF RulesOf
  <2>2. \A x \in DOMAIN h : h[x] \in Seq(SymbolsOver(RulesOf(h)))
    BY ONLY <1>3, <1>5, <1>6, <1>8
  <2>3. /\ k \in Nat /\ DOMAIN g \subseteq 0 .. (k - 1) /\ \A x \in 1 .. (k - 1) : V[x] # << >>
        /\ \A x \in RulesOf(g) : g[x] # << >> /\ expand_seq(g[x], V) = V[x]
        /\ \A x, s \in RulesOf(g) : g[x] = << NonTerminal(s) >> => x < s
    BY DEF Stands
  <2> QED
    BY ONLY <1>1, <1>5, <1>6, <2>1, <2>2, <2>3 DEF Stands
<1> QED
  BY ONLY <1>2, <1>5, <1>9, <1>10 DEF SymbolKept

-----------------------------------------------------------------------------
(* The positions the index holds                                           *)

\* Places in the sequences with ids below k, those that are gone included.
Places(k) == (0 .. (k - 1)) \X (Nat \ {0})

IndexOk(x, k) == \A d \in DOMAIN x : x[d] \in Seq(Places(k))

\* retain keeps some of the positions.
LEMMA RetainedType ==
  ASSUME NEW S, NEW ps \in Seq(S), NEW q
  PROVE  Retained(ps, q) \in Seq(S)
<1> DEFINE N == Len(ps)
           Add(f, n) == IF ps[n] = q THEN f ELSE Append(f, ps[n])
           Upto(m, f) == f = [n \in 0 .. m |-> IF n = 0 THEN << >> ELSE Add(f[n - 1], n)]
           ok == {m \in 0 .. N : \E f : Upto(m, f)}
<1>1. N \in Nat /\ \A n \in 1 .. N : ps[n] \in S
  OBVIOUS
<1>2. Retained(ps, q) = (CHOOSE f : Upto(N, f))[N]
  BY DEF Retained
<1>3. ASSUME NEW f \in Seq(S), NEW n \in 1 .. N
      PROVE  Add(f, n) \in Seq(S)
  BY <1>1
<1> HIDE DEF N, Add
<1>4. 0 \in ok
  <2>1. Upto(0, [n \in 0 .. 0 |-> << >>])
    OBVIOUS
  <2> HIDE DEF Upto
  <2> QED
    BY <1>1, <2>1
<1>5. ASSUME NEW m \in 1 .. N, m - 1 \in ok
      PROVE  m \in ok
  <2>1. PICK f : Upto(m - 1, f)
    BY <1>5
  <2> DEFINE h == [n \in 0 .. m |-> IF n <= m - 1 THEN f[n] ELSE Add(f[m - 1], m)]
  <2>2. ASSUME NEW n \in 0 .. m
        PROVE  h[n] = IF n = 0 THEN << >> ELSE Add(h[n - 1], n)
    <3>1. CASE n <= m - 1
      <4>1. n \in 0 .. (m - 1) /\ h[n] = f[n] /\ (n # 0 => h[n - 1] = f[n - 1])
        BY <1>1, <3>1
      <4>2. f[n] = IF n = 0 THEN << >> ELSE Add(f[n - 1], n)
        BY <2>1, <4>1
      <4> QED
        BY <4>1, <4>2
    <3>2. CASE n = m
      <4>1. h[n] = Add(f[m - 1], m) /\ h[n - 1] = f[m - 1] /\ n # 0
        BY <1>1, <3>2
      <4> QED
        BY <3>2, <4>1
    <3> QED
      BY <1>1, <3>1, <3>2
  <2>3. h = [n \in 0 .. m |-> IF n = 0 THEN << >> ELSE Add(h[n - 1], n)]
    <3>1. h = [n \in 0 .. m |-> h[n]]
      OBVIOUS
    <3> HIDE DEF h
    <3> QED
      BY <2>2, <3>1
  <2>4. Upto(m, h)
    <3> HIDE DEF h
    <3> QED
      BY <2>3
  <2> HIDE DEF Upto, h
  <2> QED
    BY <1>1, <2>4
<1>6. N \in ok
  <2> HIDE DEF ok
  <2>1. \A m \in 1 .. N : m - 1 \in ok => m \in ok
    BY <1>5
  <2>2. \A m \in 0 .. N : m \in ok
    BY <1>1, <1>4, <2>1, UpTo
  <2> QED BY <1>1, <2>2
<1>7. PICK f : f = CHOOSE x : Upto(N, x)
  OBVIOUS
<1>8. Upto(N, f)
  BY <1>6, <1>7
<1>9. \A n \in 0 .. N : f[n] = IF n = 0 THEN << >> ELSE Add(f[n - 1], n)
  BY <1>8, Zenon
<1> DEFINE P == {n \in 0 .. N : f[n] \in Seq(S)}
<1>10. 0 \in P
  <2>1. 0 \in 0 .. N /\ f[0] = << >>
    BY <1>1, <1>9
  <2>2. << >> \in Seq(S)
    OBVIOUS
  <2>3. f[0] \in Seq(S)
    BY ONLY <2>1, <2>2
  <2> QED
    BY <2>1, <2>3
<1>11. ASSUME NEW n \in 1 .. N, n - 1 \in P
       PROVE  n \in P
  <2>1. n \in 0 .. N /\ f[n] = Add(f[n - 1], n) /\ f[n - 1] \in Seq(S)
    BY <1>1, <1>9, <1>11
  <2> QED
    BY <1>3, <2>1
<1>12. N \in P
  <2> HIDE DEF P
  <2>1. \A n \in 1 .. N : n - 1 \in P => n \in P
    BY <1>11
  <2>2. \A n \in 0 .. N : n \in P
    BY <1>1, <1>10, <2>1, UpTo
  <2> QED BY <1>1, <2>2
<1> QED
  BY <1>2, <1>7, <1>12

\* The positions of a digram.
LEMMA PositionsType ==
  ASSUME NEW k \in Nat, NEW x, IndexOk(x, k), NEW d
  PROVE  PositionsOf(x, d) \in Seq(Places(k))
<1>1. << >> \in Seq(Places(k))
  OBVIOUS
<1> QED
  BY <1>1 DEF IndexOk, PositionsOf

LEMMA PositionsSet ==
  ASSUME NEW k \in Nat, NEW x, IndexOk(x, k), NEW d, NEW ps \in Seq(Places(k))
  PROVE  IndexOk(SetPositions(x, d, ps), k)
BY DEF IndexOk, SetPositions

\* add_digram and remove_digram keep the positions in range.
LEMMA IndexAdded ==
  ASSUME NEW k \in Nat, NEW x, IndexOk(x, k), NEW g, NEW r \in 0 .. (k - 1), NEW p \in Nat \ {0}
  PROVE  IndexOk(add_digram(g, x, r, p), k)
<1>1. PICK d : d = digram_at(g, r, p)
  OBVIOUS
<1>2. PICK ps : ps = PositionsOf(x, d)
  OBVIOUS
<1>3. ps \in Seq(Places(k))
  BY <1>2, PositionsType
<1>4. << r, p >> \in Places(k)
  BY DEF Places
<1>5. Append(ps, << r, p >>) \in Seq(Places(k))
  BY ONLY <1>3, <1>4, AppendProperties
<1>6. IndexOk(SetPositions(x, d, Append(ps, << r, p >>)), k)
  BY <1>5, PositionsSet
<1>7. add_digram(g, x, r, p) = IF d = None THEN x ELSE SetPositions(x, d, Append(ps, << r, p >>))
  BY ONLY <1>1, <1>2 DEF add_digram
<1> QED
  BY <1>6, <1>7

LEMMA IndexRemoved ==
  ASSUME NEW k \in Nat, NEW x, IndexOk(x, k), NEW g, NEW r, NEW p
  PROVE  IndexOk(remove_digram(g, x, r, p), k)
<1>1. PICK d : d = digram_at(g, r, p)
  OBVIOUS
<1>2. PICK ps : ps = PositionsOf(x, d)
  OBVIOUS
<1>3. ps \in Seq(Places(k))
  BY <1>2, PositionsType
<1>5. Retained(ps, << r, p >>) \in Seq(Places(k))
  BY ONLY <1>3, RetainedType
<1>6. IndexOk(SetPositions(x, d, Retained(ps, << r, p >>)), k)
  BY <1>5, PositionsSet
<1>7. remove_digram(g, x, r, p) = IF d = None THEN x ELSE SetPositions(x, d, Retained(ps, << r, p >>))
  BY ONLY <1>1, <1>2 DEF remove_digram
<1> QED
  BY <1>6, <1>7

LEMMA IndexUnindexed ==
  ASSUME NEW k \in Nat, IndexOk(index, k), NEW r, NEW p
  PROVE  IndexOk(Unindexed(r, p), k)
<1>1. PICK left : left = IF p > 1 THEN remove_digram(seqs, index, r, p - 1) ELSE index
  OBVIOUS
<1>2. IndexOk(left, k)
  BY <1>1, IndexRemoved
<1>3. PICK here : here = remove_digram(seqs, left, r, p)
  OBVIOUS
<1>4. IndexOk(here, k)
  BY <1>2, <1>3, IndexRemoved
<1>5. IndexOk(remove_digram(seqs, here, r, p + 1), k)
  BY <1>4, IndexRemoved
<1>6. Unindexed(r, p) = IF p + 2 <= Len(seqs[r]) THEN remove_digram(seqs, here, r, p + 1) ELSE here
  BY ONLY <1>1, <1>3 DEF Unindexed
<1> QED
  BY <1>4, <1>5, <1>6

LEMMA IndexAllAdded ==
  ASSUME NEW k \in Nat, NEW x, IndexOk(x, k), NEW g, NEW r \in 0 .. (k - 1), NEW p \in Nat \ {0},
         NEW count \in Nat
  PROVE  IndexOk(add_digrams(g, x, r, p, count), k)
<1> DEFINE Add(f, n) == add_digram(g, f, r, p + (n - 1))
           Upto(m, f) == f = [n \in 0 .. m |-> IF n = 0 THEN x ELSE Add(f[n - 1], n)]
           ok == {m \in 0 .. count : \E f : Upto(m, f)}
<1>2. add_digrams(g, x, r, p, count) = (CHOOSE f : Upto(count, f))[count]
  BY DEF add_digrams
<1>3. ASSUME NEW f, IndexOk(f, k), NEW n \in 1 .. count
      PROVE  IndexOk(Add(f, n), k)
  <2>1. p + (n - 1) \in Nat \ {0}
    OBVIOUS
  <2> QED
    BY <1>3, <2>1, IndexAdded
<1> HIDE DEF Add
<1>4. 0 \in ok
  <2>1. Upto(0, [n \in 0 .. 0 |-> x])
    OBVIOUS
  <2> HIDE DEF Upto
  <2> QED
    BY <2>1
<1>5. ASSUME NEW m \in 1 .. count, m - 1 \in ok
      PROVE  m \in ok
  <2>1. PICK f : Upto(m - 1, f)
    BY <1>5
  <2> DEFINE h == [n \in 0 .. m |-> IF n <= m - 1 THEN f[n] ELSE Add(f[m - 1], m)]
  <2>2. ASSUME NEW n \in 0 .. m
        PROVE  h[n] = IF n = 0 THEN x ELSE Add(h[n - 1], n)
    <3>1. CASE n <= m - 1
      <4>1. n \in 0 .. (m - 1) /\ h[n] = f[n] /\ (n # 0 => h[n - 1] = f[n - 1])
        BY <3>1
      <4>2. f[n] = IF n = 0 THEN x ELSE Add(f[n - 1], n)
        BY <2>1, <4>1
      <4> QED
        BY <4>1, <4>2
    <3>2. CASE n = m
      <4>1. h[n] = Add(f[m - 1], m) /\ h[n - 1] = f[m - 1] /\ n # 0
        BY <3>2
      <4> QED
        BY <3>2, <4>1
    <3> QED
      BY <3>1, <3>2
  <2>3. h = [n \in 0 .. m |-> IF n = 0 THEN x ELSE Add(h[n - 1], n)]
    <3>1. h = [n \in 0 .. m |-> h[n]]
      OBVIOUS
    <3> HIDE DEF h
    <3> QED
      BY <2>2, <3>1
  <2>4. Upto(m, h)
    <3> HIDE DEF h
    <3> QED
      BY <2>3
  <2> HIDE DEF Upto, h
  <2> QED
    BY <2>4
<1>6. count \in ok
  <2> HIDE DEF ok
  <2>1. \A m \in 1 .. count : m - 1 \in ok => m \in ok
    BY <1>5
  <2>2. \A m \in 0 .. count : m \in ok
    BY <1>4, <2>1, UpTo
  <2> QED BY <2>2
<1>7. PICK f : f = CHOOSE y : Upto(count, y)
  OBVIOUS
<1>8. Upto(count, f)
  BY <1>6, <1>7
<1>9. \A n \in 0 .. count : f[n] = IF n = 0 THEN x ELSE Add(f[n - 1], n)
  BY <1>8, Zenon
<1> DEFINE P == {n \in 0 .. count : IndexOk(f[n], k)}
<1>10. 0 \in P
  <2>1. 0 \in 0 .. count /\ f[0] = x
    BY <1>9
  <2> QED
    BY <2>1
<1>11. ASSUME NEW n \in 1 .. count, n - 1 \in P
       PROVE  n \in P
  <2>1. n \in 0 .. count /\ f[n] = Add(f[n - 1], n) /\ IndexOk(f[n - 1], k)
    BY <1>9, <1>11
  <2> QED
    BY <1>3, <2>1
<1>12. count \in P
  <2> HIDE DEF P
  <2>1. \A n \in 1 .. count : n - 1 \in P => n \in P
    BY <1>11
  <2>2. \A n \in 0 .. count : n \in P
    BY <1>10, <2>1, UpTo
  <2> QED BY <2>2
<1> QED
  BY <1>2, <1>7, <1>12

\* The next id only widens the range.
LEMMA IndexGrows ==
  ASSUME NEW k \in Nat, NEW x, IndexOk(x, k)
  PROVE  IndexOk(x, k + 1)
<1>1. Places(k) \subseteq Places(k + 1)
  BY DEF Places
<1>2. Seq(Places(k)) \subseteq Seq(Places(k + 1))
  BY <1>1, SeqMonotonic
<1> QED
  BY <1>2 DEF IndexOk

-----------------------------------------------------------------------------
(* The calls still to be made                                              *)

PlaceCalls == {"enforce", "right", "recheck"}
RuleCalls == {"utility", "expand"}

\* Calls about ids below k.
Calls(k) ==
       [do : PlaceCalls, r : 0 .. (k - 1), p : Nat \ {0}, depth : Nat]
  \cup [do : {"substitute"}, r : 0 .. (k - 1), p : Nat \ {0}, depth : Nat,
        d : Seq(SymbolsOver(1 .. (k - 1))), id : 1 .. (k - 1)]
  \cup [do : RuleCalls, id : 1 .. (k - 1), depth : Nat]

\* The rules a call cannot do without.
NeededBy(c) ==
  IF c.do \in {"right", "recheck"} THEN {c.r}
  ELSE IF c.do = "substitute" THEN {c.id} ELSE {}

\* What a call relies on: its rules are there, and a substitution is by a rule
\* that is younger than its place and stands for the digram.
Grounded(c, g, V) ==
  /\ NeededBy(c) \subseteq DOMAIN g
  /\ c.do = "substitute" => c.r < c.id /\ expand_seq(c.d, V) = V[c.id]

\* A call that may remove a rule, before calls about older rules only.
SafeBefore(a, b) == a.do \in RuleCalls => \A r \in NeededBy(b) : r < a.id

\* A rule is expanded as soon as it is found to be used once at most.
Expandable(c, i, g) == c.do = "expand" => i = 1 /\ Cardinality(RuleRefs(g, c.id)) < 2

WorkOk(w, g, V, k) ==
  /\ w \in Seq(Calls(k))
  /\ \A i \in 1 .. Len(w) : Grounded(w[i], g, V) /\ Expandable(w[i], i, g)
  /\ \A i, j \in 1 .. Len(w) : i < j => SafeBefore(w[i], w[j])

\* The fields of a call.
LEMMA CallFields ==
  ASSUME NEW k \in Nat, NEW c \in Calls(k)
  PROVE  /\ c.do \in PlaceCalls \cup {"substitute"} =>
              c.r \in 0 .. (k - 1) /\ c.p \in Nat \ {0}
         /\ c.do = "substitute" =>
              c.d \in Seq(SymbolsOver(1 .. (k - 1))) /\ c.id \in 1 .. (k - 1)
         /\ c.do \in RuleCalls => c.id \in 1 .. (k - 1)
         /\ c.depth \in Nat
         /\ NeededBy(c) \subseteq 0 .. (k - 1)
<1> DEFINE A == [do : PlaceCalls, r : 0 .. (k - 1), p : Nat \ {0}, depth : Nat]
           B == [do : {"substitute"}, r : 0 .. (k - 1), p : Nat \ {0}, depth : Nat,
                 d : Seq(SymbolsOver(1 .. (k - 1))), id : 1 .. (k - 1)]
           C == [do : RuleCalls, id : 1 .. (k - 1), depth : Nat]
<1>1. c \in A \/ c \in B \/ c \in C
  BY DEF Calls
<1>2. CASE c \in A
  <2>1. c.do \in PlaceCalls /\ c.r \in 0 .. (k - 1) /\ c.p \in Nat \ {0} /\ c.depth \in Nat
    BY <1>2
  <2> QED
    BY ONLY <2>1 DEF PlaceCalls, RuleCalls, NeededBy
<1>3. CASE c \in B
  <2>1. /\ c.do = "substitute" /\ c.r \in 0 .. (k - 1) /\ c.p \in Nat \ {0} /\ c.depth \in Nat
        /\ c.d \in Seq(SymbolsOver(1 .. (k - 1))) /\ c.id \in 1 .. (k - 1)
    BY <1>3
  <2>2. NeededBy(c) = {c.id}
    BY ONLY <2>1 DEF NeededBy
  <2>3. 1 .. (k - 1) \subseteq 0 .. (k - 1)
    OBVIOUS
  <2> QED
    BY ONLY <2>1, <2>2, <2>3 DEF PlaceCalls, RuleCalls
<1>4. CASE c \in C
  <2>1. c.do \in RuleCalls /\ c.id \in 1 .. (k - 1) /\ c.depth \in Nat
    BY <1>4
  <2> QED
    BY ONLY <2>1 DEF PlaceCalls, RuleCalls, NeededBy
<1> QED
  BY ONLY <1>1, <1>2, <1>3, <1>4

\* More ids, more calls.
LEMMA CallsGrow ==
  ASSUME NEW k \in Nat
  PROVE  Calls(k) \subseteq Calls(k + 1)
<1>1. 0 .. (k - 1) \subseteq 0 .. ((k + 1) - 1) /\ 1 .. (k - 1) \subseteq 1 .. ((k + 1) - 1)
  OBVIOUS
<1>2. Seq(SymbolsOver(1 .. (k - 1))) \subseteq Seq(SymbolsOver(1 .. ((k + 1) - 1)))
  BY ONLY <1>1, SymbolsGrow
<1> QED
  BY ONLY <1>1, <1>2 DEF Calls

\* The calls of the methods.
LEMMA CallTypes ==
  ASSUME NEW k \in Nat, NEW e \in Nat
  PROVE  /\ \A do \in PlaceCalls, r \in 0 .. (k - 1), p \in Nat \ {0} : Call(do, r, p, e) \in Calls(k)
         /\ \A do \in RuleCalls, id \in 1 .. (k - 1) : RuleCall(do, id, e) \in Calls(k)
         /\ \A q \in Places(k), d \in Seq(SymbolsOver(1 .. (k - 1))), id \in 1 .. (k - 1) :
              SubstituteCall(q, d, id, e) \in Calls(k)
<1>1. ASSUME NEW do \in PlaceCalls, NEW r \in 0 .. (k - 1), NEW p \in Nat \ {0}
      PROVE  Call(do, r, p, e) \in Calls(k)
  BY DEF Call, Calls
<1>2. ASSUME NEW do \in RuleCalls, NEW id \in 1 .. (k - 1)
      PROVE  RuleCall(do, id, e) \in Calls(k)
  BY DEF RuleCall, Calls
<1>3. ASSUME NEW q \in Places(k), NEW d \in Seq(SymbolsOver(1 .. (k - 1))), NEW id \in 1 .. (k - 1)
      PROVE  SubstituteCall(q, d, id, e) \in Calls(k)
  <2>1. q[1] \in 0 .. (k - 1) /\ q[2] \in Nat \ {0}
    BY DEF Places
  <2> QED
    BY <2>1 DEF SubstituteCall, Calls
<1> QED
  BY <1>1, <1>2, <1>3

\* New calls take the place of the first one.
LEMMA WorkReplaced ==
  ASSUME NEW w, NEW g, NEW V, NEW k, WorkOk(w, g, V, k), w # << >>,
         NEW h, NEW W, NEW e, Calls(k) \subseteq Calls(e), NEW n \in Seq(Calls(e)),
         \A i \in 1 .. Len(n) : Grounded(n[i], h, W) /\ Expandable(n[i], i, h),
         \A i, j \in 1 .. Len(n) : i < j => SafeBefore(n[i], n[j]),
         \A j \in 2 .. Len(w) : Grounded(w[j], h, W),
         \A i \in 1 .. Len(n) : \A j \in 2 .. Len(w) : SafeBefore(n[i], w[j])
  PROVE  WorkOk(n \o Tail(w), h, W, e)
<1>1. w \in Seq(Calls(k)) /\ w \in Seq(Calls(e)) /\ Len(w) \in Nat /\ Len(w) >= 1
  <2>1. w \in Seq(Calls(k))
    BY DEF WorkOk
  <2> QED
    BY <2>1, SeqMonotonic
<1>2. PICK t : t = Tail(w)
  OBVIOUS
<1>3. t \in Seq(Calls(e)) /\ Len(t) = Len(w) - 1 /\ \A i \in 1 .. Len(t) : t[i] = w[i + 1]
  BY <1>1, <1>2, HeadTailProperties
<1>4. PICK u : u = n \o t
  OBVIOUS
<1>5. /\ u \in Seq(Calls(e)) /\ Len(u) = Len(n) + Len(t)
      /\ \A i \in 1 .. Len(n) + Len(t) : u[i] = IF i <= Len(n) THEN n[i] ELSE t[i - Len(n)]
  BY <1>3, <1>4, ConcatProperties
<1>6. Len(n) \in Nat
  OBVIOUS
<1>7. ASSUME NEW i \in 1 .. Len(u)
      PROVE  /\ i <= Len(n) => i \in 1 .. Len(n) /\ u[i] = n[i]
             /\ i > Len(n) => (i - Len(n)) + 1 \in 2 .. Len(w) /\ u[i] = w[(i - Len(n)) + 1]
  <2>1. i \in 1 .. Len(n) + Len(t) /\ i \in Nat
    BY ONLY <1>5, i \in 1 .. Len(u)
  <2>2. CASE i <= Len(n)
    BY ONLY <1>5, <1>6, <2>1, <2>2
  <2>3. CASE i > Len(n)
    <3>1. i - Len(n) \in 1 .. Len(t)
      BY ONLY <1>1, <1>3, <1>6, <2>1, <2>3
    <3>2. u[i] = t[i - Len(n)]
      BY ONLY <1>5, <1>6, <2>1, <2>3
    <3>3. t[i - Len(n)] = w[(i - Len(n)) + 1]
      BY ONLY <1>3, <3>1
    <3>4. (i - Len(n)) + 1 \in 2 .. Len(w)
      BY ONLY <1>1, <1>3, <3>1
    <3> QED
      BY ONLY <1>6, <2>1, <2>3, <3>2, <3>3, <3>4
  <2> QED
    BY ONLY <1>6, <2>1, <2>2, <2>3
<1>8. \A j \in 2 .. Len(w) : \A m : w[j].do # "expand" /\ Expandable(w[j], m, h)
  <2>1. \A j \in 2 .. Len(w) : Expandable(w[j], j, g) /\ j # 1
    BY <1>1 DEF WorkOk
  <2> QED
    BY ONLY <2>1 DEF Expandable
<1>9. ASSUME NEW i \in 1 .. Len(u)
      PROVE  Grounded(u[i], h, W) /\ Expandable(u[i], i, h)
  <2>1. i \in Nat
    BY ONLY i \in 1 .. Len(u)
  <2>2. CASE i <= Len(n)
    <3>1. i \in 1 .. Len(n) /\ u[i] = n[i]
      BY ONLY <1>7, <2>2, i \in 1 .. Len(u)
    <3> QED
      BY <3>1
  <2>3. CASE i > Len(n)
    <3>1. PICK j : j = (i - Len(n)) + 1
      OBVIOUS
    <3>2. j \in 2 .. Len(w) /\ u[i] = w[j]
      BY ONLY <1>7, <2>3, <3>1, i \in 1 .. Len(u)
    <3>3. Grounded(w[j], h, W)
      BY <3>2
    <3>4. Expandable(w[j], i, h)
      BY ONLY <1>8, <3>2
    <3> QED
      BY ONLY <3>2, <3>3, <3>4
  <2> QED
    BY ONLY <1>6, <2>1, <2>2, <2>3
<1>10. ASSUME NEW i \in 1 .. Len(u), NEW j \in 1 .. Len(u), i < j
       PROVE  SafeBefore(u[i], u[j])
  <2>1. i \in Nat /\ j \in Nat
    OBVIOUS
  <2>2. CASE j <= Len(n)
    <3>1. i \in 1 .. Len(n) /\ u[i] = n[i] /\ j \in 1 .. Len(n) /\ u[j] = n[j]
      <4>1. i <= Len(n)
        BY ONLY <1>6, <1>10, <2>1, <2>2
      <4> QED
        BY ONLY <1>7, <2>2, <4>1, i \in 1 .. Len(u), j \in 1 .. Len(u)
    <3> QED
      BY <1>10, <3>1
  <2>3. CASE i <= Len(n) /\ j > Len(n)
    <3>1. PICK b : b = (j - Len(n)) + 1
      OBVIOUS
    <3>2. i \in 1 .. Len(n) /\ u[i] = n[i] /\ b \in 2 .. Len(w) /\ u[j] = w[b]
      BY ONLY <1>7, <2>3, <3>1, i \in 1 .. Len(u), j \in 1 .. Len(u)
    <3>3. SafeBefore(n[i], w[b])
      BY <3>2
    <3> QED
      BY ONLY <3>2, <3>3
  <2>4. CASE i > Len(n)
    <3>1. PICK a, b : a = (i - Len(n)) + 1 /\ b = (j - Len(n)) + 1
      OBVIOUS
    <3>2. j > Len(n) /\ a < b
      BY ONLY <1>6, <1>10, <2>1, <2>4, <3>1
    <3>3. a \in 2 .. Len(w) /\ u[i] = w[a] /\ b \in 2 .. Len(w) /\ u[j] = w[b]
      BY ONLY <1>7, <2>4, <3>1, <3>2, i \in 1 .. Len(u), j \in 1 .. Len(u)
    <3>4. a \in 1 .. Len(w) /\ b \in 1 .. Len(w)
      BY ONLY <1>1, <3>3
    <3>5. SafeBefore(w[a], w[b])
      BY <3>2, <3>4 DEF WorkOk
    <3> QED
      BY ONLY <3>3, <3>5
  <2> QED
    BY ONLY <1>6, <2>1, <2>2, <2>3, <2>4
<1>11. WorkOk(u, h, W, e)
  BY ONLY <1>5, <1>9, <1>10 DEF WorkOk
<1> QED
  BY ONLY <1>2, <1>4, <1>11

\* The first call and the others.
LEMMA FirstCall ==
  ASSUME NEW w, NEW g, NEW V, NEW k, WorkOk(w, g, V, k), w # << >>
  PROVE  /\ Head(w) = w[1] /\ w[1] \in Calls(k)
         /\ Grounded(w[1], g, V) /\ Expandable(w[1], 1, g)
         /\ \A j \in 2 .. Len(w) : /\ w[j] \in Calls(k) /\ Grounded(w[j], g, V)
                                   /\ SafeBefore(w[1], w[j])
<1>1. w \in Seq(Calls(k))
  BY DEF WorkOk
<1>2. Len(w) \in Nat /\ Len(w) >= 1 /\ Head(w) = w[1]
  BY <1>1
<1>3. \A j \in 1 .. Len(w) : w[j] \in Calls(k)
  BY <1>1
<1>4. /\ \A i \in 1 .. Len(w) : Grounded(w[i], g, V) /\ Expandable(w[i], i, g)
      /\ \A i, j \in 1 .. Len(w) : i < j => SafeBefore(w[i], w[j])
  BY DEF WorkOk
<1>5. 1 \in 1 .. Len(w) /\ \A j \in 2 .. Len(w) : j \in 1 .. Len(w) /\ 1 < j
  BY ONLY <1>2
<1> QED
  BY ONLY <1>2, <1>3, <1>4, <1>5

\* A call relies on the same rules and the same texts.
LEMMA GroundedKept ==
  ASSUME NEW c, NEW g, NEW V, Grounded(c, g, V), NEW h, NeededBy(c) \subseteq DOMAIN h
  PROVE  Grounded(c, h, V)
BY DEF Grounded

\* Calls about places take the place of the first call.
LEMMA WorkAtPlaces ==
  ASSUME NEW w, NEW g, NEW V, NEW k, WorkOk(w, g, V, k), w # << >>, NEW h,
         NEW n \in Seq(Calls(k)),
         \A i \in 1 .. Len(n) : n[i].do \in PlaceCalls /\ NeededBy(n[i]) \subseteq DOMAIN h,
         \A j \in 2 .. Len(w) : NeededBy(w[j]) \subseteq DOMAIN h
  PROVE  WorkOk(n \o Tail(w), h, V, k)
<1>1. \A i \in 1 .. Len(n) : Grounded(n[i], h, V) /\ Expandable(n[i], i, h)
  BY DEF PlaceCalls, Grounded, Expandable
<1>2. \A i \in 1 .. Len(n) : n[i].do \notin RuleCalls
  BY DEF PlaceCalls, RuleCalls
<1>3. \A i, j \in 1 .. Len(n) : i < j => SafeBefore(n[i], n[j])
  BY ONLY <1>2 DEF SafeBefore
<1>4. \A i \in 1 .. Len(n) : \A j \in 2 .. Len(w) : SafeBefore(n[i], w[j])
  BY ONLY <1>2 DEF SafeBefore
<1>5. \A j \in 2 .. Len(w) : Grounded(w[j], h, V)
  BY FirstCall, GroundedKept
<1> QED
  BY ONLY <1>1, <1>3, <1>4, <1>5, WorkReplaced, WorkOk(w, g, V, k), w # << >>, n \in Seq(Calls(k))

\* A work list of no call, and of one.
LEMMA WorkShort ==
  ASSUME NEW g, NEW V, NEW k
  PROVE  /\ WorkOk(<< >>, g, V, k)
         /\ \A c \in Calls(k) : Grounded(c, g, V) /\ Expandable(c, 1, g) => WorkOk(<< c >>, g, V, k)
<1>1. WorkOk(<< >>, g, V, k)
  BY DEF WorkOk
<1>2. ASSUME NEW c \in Calls(k), Grounded(c, g, V), Expandable(c, 1, g)
      PROVE  WorkOk(<< c >>, g, V, k)
  <2>1. PICK w : w = << c >>
    OBVIOUS
  <2>2. w \in Seq(Calls(k)) /\ Len(w) = 1 /\ w[1] = c
    BY <2>1
  <2>3. \A i \in 1 .. Len(w) : i = 1
    BY ONLY <2>2
  <2>4. \A i \in 1 .. Len(w) : Grounded(w[i], g, V) /\ Expandable(w[i], i, g)
    BY ONLY <2>2, <2>3, <1>2
  <2>5. \A i, j \in 1 .. Len(w) : i < j => SafeBefore(w[i], w[j])
    BY ONLY <2>2
  <2>6. WorkOk(w, g, V, k)
    BY ONLY <2>2, <2>4, <2>5 DEF WorkOk
  <2> QED
    BY ONLY <2>1, <2>6
<1> QED
  BY <1>1, <1>2

-----------------------------------------------------------------------------
(* The uses of a rule are finitely many                                    *)

\* A set of lengths has a bound.
LEMMA LengthsBounded ==
  ASSUME NEW k \in Nat, NEW l, \A x \in 0 .. k : l[x] \in Nat
  PROVE  \E m \in Nat : \A x \in 0 .. k : l[x] <= m
<1> DEFINE ok == {n \in 0 .. k : \E m \in Nat : \A x \in 0 .. n : l[x] <= m}
<1>1. 0 \in ok
  <2>1. l[0] \in Nat /\ \A x \in 0 .. 0 : l[x] <= l[0]
    OBVIOUS
  <2> QED
    BY <2>1
<1>2. ASSUME NEW n \in 1 .. k, n - 1 \in ok
      PROVE  n \in ok
  <2>1. PICK m \in Nat : \A x \in 0 .. (n - 1) : l[x] <= m
    BY <1>2
  <2>2. l[n] \in Nat /\ m + l[n] \in Nat
    OBVIOUS
  <2>3. ASSUME NEW x \in 0 .. n
        PROVE  l[x] <= m + l[n]
    <3>1. l[x] \in Nat
      OBVIOUS
    <3>2. CASE x = n
      BY ONLY <2>2, <3>2, m \in Nat
    <3>3. CASE x # n
      <4>1. x \in 0 .. (n - 1)
        BY <3>3
      <4>2. l[x] <= m
        BY <2>1, <4>1
      <4> QED
        BY ONLY <2>2, <3>1, <4>2, m \in Nat
    <3> QED
      BY ONLY <3>2, <3>3
  <2>4. \A x \in 0 .. n : l[x] <= m + l[n]
    BY ONLY <2>3
  <2> QED
    BY ONLY <2>2, <2>4, n \in 1 .. k, k \in Nat
<1>3. k \in ok
  <2> HIDE DEF ok
  <2>1. \A n \in 1 .. k : n - 1 \in ok => n \in ok
    BY <1>2
  <2>2. \A n \in 0 .. k : n \in ok
    BY <1>1, <2>1, UpTo
  <2> QED BY <2>2
<1> QED
  BY <1>3

LEMMA UsesFinite ==
  ASSUME NEW g, NEW V, NEW k, Stands(g, V, k), NEW id
  PROVE  /\ IsFiniteSet(RuleRefs(g, id)) /\ Cardinality(RuleRefs(g, id)) \in Nat
         /\ Cardinality(RuleRefs(g, id)) < 2 =>
              \A q \in RuleRefs(g, id) : RuleRefs(g, id) = {q}
<1>1. k \in Nat /\ DOMAIN g \subseteq 0 .. (k - 1) /\ \A r \in DOMAIN g : g[r] \in Seq(SymbolsOver(1 .. (k - 1)))
  BY BodiesOf DEF Stands
<1>2. \A r \in DOMAIN g : Len(g[r]) \in Nat /\ DOMAIN g[r] = 1 .. Len(g[r])
  BY <1>1
<1>3. PICK l : l = [x \in 0 .. k |-> IF x \in DOMAIN g THEN Len(g[x]) ELSE 0]
  OBVIOUS
<1>4. \A x \in 0 .. k : l[x] \in Nat
  BY ONLY <1>2, <1>3
<1>5. PICK m \in Nat : \A x \in 0 .. k : l[x] <= m
  BY ONLY <1>1, <1>4, LengthsBounded
<1>6. ASSUME NEW q \in RuleRefs(g, id)
      PROVE  q \in (0 .. k) \X (0 .. m)
  <2>1. q = << q[1], q[2] >> /\ q[1] \in DOMAIN g /\ q[2] \in DOMAIN g[q[1]]
    BY UsesArePlaces
  <2>2. q[1] \in 0 .. k /\ q[2] \in 1 .. Len(g[q[1]])
    BY <1>1, <1>2, <2>1
  <2>3. Len(g[q[1]]) <= m /\ Len(g[q[1]]) \in Nat
    BY <1>2, <1>3, <1>5, <2>1, <2>2
  <2>4. q[2] \in 0 .. m
    BY ONLY <2>2, <2>3, m \in Nat
  <2> QED
    BY ONLY <2>1, <2>2, <2>4
<1>7. IsFiniteSet((0 .. k) \X (0 .. m))
  <2>1. IsFiniteSet(0 .. k) /\ IsFiniteSet(0 .. m)
    BY <1>1, FS_Interval
  <2> QED
    BY ONLY <2>1, FS_Product
<1>8. PICK U : U = RuleRefs(g, id)
  OBVIOUS
<1>9. IsFiniteSet(U) /\ Cardinality(U) \in Nat
  <2>1. U \subseteq (0 .. k) \X (0 .. m)
    BY ONLY <1>6, <1>8
  <2> QED
    BY ONLY <1>7, <2>1, FS_Subset, FS_CardinalityType
<1>10. ASSUME Cardinality(U) < 2, NEW q \in U
       PROVE  U = {q}
  <2>1. Cardinality(U) # 0
    BY ONLY <1>9, FS_EmptySet, q \in U
  <2>2. Cardinality(U) = 1
    BY ONLY <1>9, <1>10, <2>1
  <2>3. \E x : U = {x}
    BY ONLY <1>9, <2>2, FS_Singleton
  <2> QED
    BY ONLY <2>3, q \in U
<1> QED
  BY ONLY <1>8, <1>9, <1>10

-----------------------------------------------------------------------------
(* The builder's invariant                                                 *)

\* V tells what every rule stands for since it was created: the grammar stands
\* for the input, and the cleanup leaves no rule with fewer uses than two.
Built(V, i, g, k, x, w, ph, pa) ==
  /\ Stands(g, V, k) /\ expand_seq(g[StartRule], V) = i
  /\ IndexOk(x, k) /\ WorkOk(w, g, V, k)
  /\ pa = FALSE
  /\ ph = "done" => w = << >> /\ \A r \in RulesOf(g) : Cardinality(RuleRefs(g, r)) >= 2

BuildInv == \E V : Built(V, input, seqs, next, index, work, phase, panicked)

\* The empty sequence stands for nothing.
LEMMA EmptyText ==
  ASSUME NEW V
  PROVE  expand_seq(<< >>, V) = << >>
<1>1. PICK q : q = << >>
  OBVIOUS
<1>2. Len(q) = 0 /\ Len(q) \in Nat
  BY <1>1
<1>3. \E f : f[0] = << >> /\ expand_seq(q, V) = f[Len(q)]
  BY ONLY <1>2, TextUnfolds
<1>4. expand_seq(q, V) = << >>
  BY ONLY <1>2, <1>3
<1> QED
  BY <1>1, <1>4

LEMMA BuildStarts == BuildInit => BuildInv
<1> SUFFICES ASSUME BuildInit PROVE BuildInv
  OBVIOUS
<1>1. PICK V : V = [x \in {} |-> << >>]
  OBVIOUS
<1>2. DOMAIN seqs = {StartRule} /\ seqs[StartRule] = << >> /\ next = 1 /\ RulesOf(seqs) = {}
  BY DEF BuildInit, RulesOf
<1>3. 1 .. (1 - 1) = {}
  OBVIOUS
<1>4. V \in [1 .. (1 - 1) -> Seq(Nat)]
  BY <1>1, <1>3
<1>5. << >> \in Seq(SymbolsOver(RulesOf(seqs)))
  OBVIOUS
<1>6. Stands(seqs, V, next)
  <2>1. 1 \in Nat /\ {0} \subseteq 0 .. (1 - 1)
    OBVIOUS
  <2>2. \A r \in DOMAIN seqs : seqs[r] \in Seq(SymbolsOver(RulesOf(seqs)))
    BY ONLY <1>2, <1>5
  <2> QED
    BY ONLY <1>2, <1>3, <1>4, <2>1, <2>2 DEF Stands, StartRule
<1>7. expand_seq(<< >>, V) = << >>
  BY EmptyText
<1>8. IndexOk(index, next)
  BY DEF BuildInit, IndexOk
<1>9. WorkOk(work, seqs, V, next)
  BY WorkShort DEF BuildInit
<1>10. Built(V, input, seqs, next, index, work, phase, panicked)
  BY <1>2, <1>6, <1>7, <1>8, <1>9 DEF Built, BuildInit
<1> QED
  BY <1>10 DEF BuildInv

\* The call at hand.
LEMMA TurnOf ==
  ASSUME NEW V, Built(V, input, seqs, next, index, work, phase, panicked), NEW do, Turn(do),
         NEW c, c = Head(work)
  PROVE  /\ c = work[1] /\ c.do = do /\ c \in Calls(next) /\ work # << >> /\ phase # "done"
         /\ Grounded(c, seqs, V) /\ Expandable(c, 1, seqs)
         /\ WorkOk(work, seqs, V, next) /\ Stands(seqs, V, next) /\ next \in Nat
         /\ IndexOk(index, next) /\ panicked = FALSE /\ expand_seq(seqs[StartRule], V) = input
         /\ \A j \in 2 .. Len(work) : /\ work[j] \in Calls(next) /\ Grounded(work[j], seqs, V)
                                      /\ SafeBefore(c, work[j])
<1>1. work # << >> /\ c.do = do /\ phase # "done"
  BY DEF Turn, Built
<1>2. /\ WorkOk(work, seqs, V, next) /\ Stands(seqs, V, next) /\ IndexOk(index, next)
      /\ panicked = FALSE /\ expand_seq(seqs[StartRule], V) = input
  BY DEF Built
<1>3. next \in Nat
  BY <1>2 DEF Stands
<1>4. c = work[1]
  BY <1>1, <1>2, FirstCall
<1> QED
  BY <1>1, <1>2, <1>3, <1>4, FirstCall

\* What a step that leaves the phase alone has to keep.
LEMMA BuiltAgain ==
  ASSUME NEW W, phase # "done", phase' = phase, panicked' = FALSE,
         Stands(seqs', W, next'), expand_seq(seqs'[StartRule], W) = input',
         IndexOk(index', next'), WorkOk(work', seqs', W, next')
  PROVE  BuildInv'
<1>1. Built(W, input', seqs', next', index', work', phase', panicked')
  BY DEF Built
<1> QED
  BY <1>1 DEF BuildInv

\* Turns whose calls are replaced by calls about places, or by none, and that
\* leave the rules and their texts.
LEMMA PlacesAgain ==
  ASSUME NEW V, Built(V, input, seqs, next, index, work, phase, panicked), work # << >>,
         phase' = phase, panicked' = FALSE, next' = next, input' = input,
         Stands(seqs', V, next), expand_seq(seqs'[StartRule], V) = expand_seq(seqs[StartRule], V),
         IndexOk(index', next),
         NEW n \in Seq(Calls(next)), Replaced(n),
         \A i \in 1 .. Len(n) : n[i].do \in PlaceCalls /\ NeededBy(n[i]) \subseteq DOMAIN seqs',
         \A j \in 2 .. Len(work) : NeededBy(work[j]) \subseteq DOMAIN seqs'
  PROVE  BuildInv'
<1>1. /\ WorkOk(work, seqs, V, next) /\ expand_seq(seqs[StartRule], V) = input /\ phase # "done"
  BY DEF Built
<1>2. work' = n \o Tail(work)
  BY DEF Replaced
<1>3. PICK h : h = seqs'
  OBVIOUS
<1>4. WorkOk(n \o Tail(work), h, V, next)
  BY <1>1, <1>3, WorkAtPlaces
<1>5. WorkOk(work', seqs', V, next')
  BY <1>2, <1>3, <1>4
<1> QED
  BY <1>1, <1>5, BuiltAgain

\* One call about a place, in a rule that is there.
LEMMA OnePlace ==
  ASSUME NEW k \in Nat, NEW do \in PlaceCalls, NEW r \in 0 .. (k - 1), NEW p \in Nat \ {0},
         NEW e \in Nat, NEW g, do # "enforce" => r \in DOMAIN g
  PROVE  /\ << >> \in Seq(Calls(k)) /\ << Call(do, r, p, e) >> \in Seq(Calls(k))
         /\ Call(do, r, p, e).do \in PlaceCalls /\ NeededBy(Call(do, r, p, e)) \subseteq DOMAIN g
<1>1. Call(do, r, p, e) \in Calls(k)
  BY CallTypes
<1>2. Call(do, r, p, e).do = do /\ Call(do, r, p, e).r = r
  BY DEF Call
<1>3. NeededBy(Call(do, r, p, e)) \subseteq DOMAIN g
  BY <1>2 DEF NeededBy, PlaceCalls
<1> QED
  BY <1>1, <1>2, <1>3

\* At most one call about a place.
LEMMA AtMostOne ==
  ASSUME NEW K, NEW D, NEW c, << c >> \in Seq(K), c.do \in PlaceCalls, NeededBy(c) \subseteq D,
         NEW n, n = << >> \/ n = << c >>
  PROVE  /\ n \in Seq(K)
         /\ \A i \in 1 .. Len(n) : n[i].do \in PlaceCalls /\ NeededBy(n[i]) \subseteq D
<1>1. CASE n = << >>
  BY <1>1
<1>2. CASE n = << c >>
  <2>1. Len(n) = 1 /\ n[1] = c
    BY <1>2
  <2>2. \A i \in 1 .. Len(n) : n[i] = c
    BY ONLY <2>1
  <2> QED
    BY <1>2, <2>2
<1> QED
  BY <1>1, <1>2

LEMMA RightBuilds == BuildInv /\ SubstituteRight => BuildInv'
<1> SUFFICES ASSUME BuildInv, SubstituteRight PROVE BuildInv'
  OBVIOUS
<1>1. PICK V : Built(V, input, seqs, next, index, work, phase, panicked)
  BY DEF BuildInv
<1>2. PICK c : c = Head(work)
  OBVIOUS
<1>3. /\ Turn("right") /\ index' = add_digram(seqs, index, c.r, c.p)
      /\ panicked' = (c.r \notin DOMAIN seqs)
      /\ Replaced(IF ~panicked' /\ c.p + 1 <= Len(seqs[c.r])
                  THEN << Call("enforce", c.r, c.p, c.depth + 1) >> ELSE << >>)
      /\ UNCHANGED << input, seqs, next, phase >>
  BY <1>2 DEF SubstituteRight
<1>4. /\ c.do = "right" /\ c \in Calls(next) /\ work # << >> /\ Grounded(c, seqs, V)
      /\ Stands(seqs, V, next) /\ next \in Nat /\ IndexOk(index, next)
      /\ \A j \in 2 .. Len(work) : Grounded(work[j], seqs, V)
  BY <1>1, <1>2, <1>3, TurnOf
<1>5. c.r \in 0 .. (next - 1) /\ c.p \in Nat \ {0} /\ c.depth \in Nat /\ c.depth + 1 \in Nat
  BY <1>4, CallFields DEF PlaceCalls
<1>6. c.r \in DOMAIN seqs
  BY <1>4 DEF Grounded, NeededBy
<1>7. panicked' = FALSE
  BY <1>3, <1>6
<1>8. IndexOk(index', next)
  BY <1>3, <1>4, <1>5, IndexAdded
<1>9. \A j \in 2 .. Len(work) : NeededBy(work[j]) \subseteq DOMAIN seqs
  BY <1>4 DEF Grounded
<1>10. PICK n : n = IF ~panicked' /\ c.p + 1 <= Len(seqs[c.r])
                    THEN << Call("enforce", c.r, c.p, c.depth + 1) >> ELSE << >>
  OBVIOUS
<1>11. n = << >> \/ n = << Call("enforce", c.r, c.p, c.depth + 1) >>
  BY <1>10
<1>12. /\ << >> \in Seq(Calls(next)) /\ << Call("enforce", c.r, c.p, c.depth + 1) >> \in Seq(Calls(next))
       /\ Call("enforce", c.r, c.p, c.depth + 1).do \in PlaceCalls
       /\ NeededBy(Call("enforce", c.r, c.p, c.depth + 1)) \subseteq DOMAIN seqs
  BY <1>4, <1>5, <1>6, OnePlace DEF PlaceCalls
<1>13. /\ n \in Seq(Calls(next))
       /\ \A i \in 1 .. Len(n) : n[i].do \in PlaceCalls /\ NeededBy(n[i]) \subseteq DOMAIN seqs
  <2>1. PICK b : b = Call("enforce", c.r, c.p, c.depth + 1)
    OBVIOUS
  <2>2. /\ << b >> \in Seq(Calls(next)) /\ b.do \in PlaceCalls /\ NeededBy(b) \subseteq DOMAIN seqs
        /\ n = << >> \/ n = << b >>
    BY ONLY <1>11, <1>12, <2>1
  <2> QED
    BY ONLY <2>2, AtMostOne
<1>14. Replaced(n)
  BY <1>3, <1>10
<1> QED
  BY <1>1, <1>3, <1>4, <1>7, <1>8, <1>9, <1>13, <1>14, PlacesAgain

LEMMA RecheckBuilds == BuildInv /\ Recheck => BuildInv'
<1> SUFFICES ASSUME BuildInv, Recheck PROVE BuildInv'
  OBVIOUS
<1>1. PICK V : Built(V, input, seqs, next, index, work, phase, panicked)
  BY DEF BuildInv
<1>2. PICK c : c = Head(work)
  OBVIOUS
<1>3. /\ Turn("recheck")
      /\ panicked' = (c.r \notin DOMAIN seqs)
      /\ Replaced(IF ~panicked' /\ c.p + 1 <= Len(seqs[c.r])
                  THEN << Call("enforce", c.r, c.p, c.depth) >> ELSE << >>)
      /\ UNCHANGED << input, seqs, next, index, phase >>
  BY <1>2 DEF Recheck
<1>4. /\ c.do = "recheck" /\ c \in Calls(next) /\ work # << >> /\ Grounded(c, seqs, V)
      /\ Stands(seqs, V, next) /\ next \in Nat /\ IndexOk(index, next)
      /\ \A j \in 2 .. Len(work) : Grounded(work[j], seqs, V)
  BY <1>1, <1>2, <1>3, TurnOf
<1>5. c.r \in 0 .. (next - 1) /\ c.p \in Nat \ {0} /\ c.depth \in Nat
  BY <1>4, CallFields DEF PlaceCalls
<1>6. c.r \in DOMAIN seqs
  BY <1>4 DEF Grounded, NeededBy
<1>7. panicked' = FALSE
  BY <1>3, <1>6
<1>8. \A j \in 2 .. Len(work) : NeededBy(work[j]) \subseteq DOMAIN seqs
  BY <1>4 DEF Grounded
<1>9. PICK n : n = IF ~panicked' /\ c.p + 1 <= Len(seqs[c.r])
                   THEN << Call("enforce", c.r, c.p, c.depth) >> ELSE << >>
  OBVIOUS
<1>10. n = << >> \/ n = << Call("enforce", c.r, c.p, c.depth) >>
  BY <1>9
<1>11. /\ << >> \in Seq(Calls(next)) /\ << Call("enforce", c.r, c.p, c.depth) >> \in Seq(Calls(next))
       /\ Call("enforce", c.r, c.p, c.depth).do \in PlaceCalls
       /\ NeededBy(Call("enforce", c.r, c.p, c.depth)) \subseteq DOMAIN seqs
  BY <1>4, <1>5, <1>6, OnePlace DEF PlaceCalls
<1>12. /\ n \in Seq(Calls(next))
       /\ \A i \in 1 .. Len(n) : n[i].do \in PlaceCalls /\ NeededBy(n[i]) \subseteq DOMAIN seqs
  <2>1. PICK b : b = Call("enforce", c.r, c.p, c.depth)
    OBVIOUS
  <2>2. /\ << b >> \in Seq(Calls(next)) /\ b.do \in PlaceCalls /\ NeededBy(b) \subseteq DOMAIN seqs
        /\ n = << >> \/ n = << b >>
    BY ONLY <1>10, <1>11, <2>1
  <2> QED
    BY ONLY <2>2, AtMostOne
<1>13. Replaced(n)
  BY <1>3, <1>9
<1> QED
  BY <1>1, <1>3, <1>4, <1>7, <1>8, <1>12, <1>13, PlacesAgain

\* A call that is dropped.
LEMMA DroppedBuilds ==
  ASSUME BuildInv, NEW do, Turn(do), Replaced(<< >>),
         UNCHANGED << input, seqs, next, index, phase, panicked >>
  PROVE  BuildInv'
<1>1. PICK V : Built(V, input, seqs, next, index, work, phase, panicked)
  BY DEF BuildInv
<1>2. PICK c : c = Head(work)
  OBVIOUS
<1>3. /\ work # << >> /\ Stands(seqs, V, next) /\ IndexOk(index, next) /\ panicked = FALSE
      /\ \A j \in 2 .. Len(work) : Grounded(work[j], seqs, V)
  BY <1>1, <1>2, TurnOf
<1>4. \A j \in 2 .. Len(work) : NeededBy(work[j]) \subseteq DOMAIN seqs
  BY <1>3 DEF Grounded
<1>5. << >> \in Seq(Calls(next)) /\ \A i \in 1 .. Len(<< >>) : FALSE
  OBVIOUS
<1> QED
  BY <1>1, <1>3, <1>4, <1>5, PlacesAgain

\* The digram at a place that has one.
LEMMA DigramThere ==
  ASSUME NEW g, NEW r, NEW p, digram_at(g, r, p) # None
  PROVE  /\ r \in DOMAIN g /\ p < Len(g[r])
         /\ digram_at(g, r, p) = << g[r][p], g[r][p + 1] >>
BY DEF digram_at

\* A substitution that is made.
LEMMA SubstitutedBuilds ==
  ASSUME BuildInv, Substitute, NEW c, c = Head(work), StillThere(c)
  PROVE  BuildInv'
<1>1. PICK V : Built(V, input, seqs, next, index, work, phase, panicked)
  BY DEF BuildInv
<1>2. PICK h : h = [seqs EXCEPT ![c.r] = SubSeq(seqs[c.r], 1, c.p - 1) \o << NonTerminal(c.id) >>
                                            \o SubSeq(seqs[c.r], c.p + 2, Len(seqs[c.r]))]
  OBVIOUS
<1>3. PICK n : n = (IF c.p > 1 THEN << Call("enforce", c.r, c.p - 1, c.depth + 1) >> ELSE << >>)
                   \o << Call("right", c.r, c.p, c.depth) >>
  OBVIOUS
<1>4. /\ Turn("substitute") /\ seqs' = h
      /\ index' = IF c.p > 1 THEN add_digram(h, Unindexed(c.r, c.p), c.r, c.p - 1)
                  ELSE Unindexed(c.r, c.p)
      /\ Replaced(n)
      /\ UNCHANGED << input, next, phase, panicked >>
  BY <1>2, <1>3 DEF Substitute
<1>5. /\ c.do = "substitute" /\ c \in Calls(next) /\ work # << >> /\ Grounded(c, seqs, V)
      /\ Stands(seqs, V, next) /\ next \in Nat /\ IndexOk(index, next) /\ panicked = FALSE
      /\ \A j \in 2 .. Len(work) : Grounded(work[j], seqs, V)
  BY <1>1, <1>4, TurnOf
<1>6. /\ c.r \in 0 .. (next - 1) /\ c.p \in Nat \ {0} /\ c.depth \in Nat /\ c.depth + 1 \in Nat
      /\ c.id \in 1 .. (next - 1) /\ (c.p > 1 => c.p - 1 \in Nat \ {0})
  BY <1>5, CallFields
<1>7. c.id \in DOMAIN seqs /\ c.r < c.id /\ expand_seq(c.d, V) = V[c.id]
  BY <1>5 DEF Grounded, NeededBy
<1>8. c.id \in RulesOf(seqs)
  BY <1>6, <1>7 DEF RulesOf, StartRule
<1>9. c.d # None
  <2>1. \A x \in 1 .. (next - 1) : V[x] # << >>
    BY <1>5 DEF Stands
  <2>2. V[c.id] # << >>
    BY ONLY <1>6, <2>1
  <2> QED
    BY <1>7, <2>2, EmptyText DEF None
<1>10. /\ c.r \in DOMAIN seqs /\ c.p < Len(seqs[c.r])
       /\ c.d = << seqs[c.r][c.p], seqs[c.r][c.p + 1] >>
  BY <1>9, DigramThere DEF StillThere
<1>11. /\ Stands(h, V, next) /\ DOMAIN h = DOMAIN seqs
       /\ expand_seq(h[StartRule], V) = expand_seq(seqs[StartRule], V)
  <2>2. PICK g, k, r, p, id, d : g = seqs /\ k = next /\ r = c.r /\ p = c.p /\ id = c.id /\ d = c.d
    OBVIOUS
  <2>3. Stands(g, V, k)
    BY ONLY <1>5, <2>2
  <2>4. /\ r \in DOMAIN g /\ p \in Nat \ {0} /\ p < Len(g[r])
        /\ id \in RulesOf(g) /\ r < id /\ expand_seq(d, V) = V[id]
        /\ d = << g[r][p], g[r][p + 1] >>
    BY ONLY <1>6, <1>7, <1>8, <1>10, <2>2
  <2>5. h = Edited(g, r, Joined(SubSeq(g[r], 1, p - 1), << NonTerminal(id) >>,
                                SubSeq(g[r], p + 2, Len(g[r]))))
    BY ONLY <1>2, <2>2 DEF Edited, Joined
  <2>6. /\ Stands(h, V, k) /\ DOMAIN h = DOMAIN g
        /\ expand_seq(h[StartRule], V) = expand_seq(g[StartRule], V)
    BY ONLY <2>3, <2>4, <2>5, StandsSubstituted
  <2> QED
    BY ONLY <2>2, <2>6
<1>12. IndexOk(index', next)
  <2>1. IndexOk(Unindexed(c.r, c.p), next)
    BY <1>5, IndexUnindexed
  <2> QED
    BY <1>4, <1>5, <1>6, <2>1, IndexAdded
<1>13. PICK a, b : a = Call("enforce", c.r, c.p - 1, c.depth + 1) /\ b = Call("right", c.r, c.p, c.depth)
  OBVIOUS
<1>14. /\ b \in Calls(next) /\ b.do \in PlaceCalls /\ NeededBy(b) \subseteq DOMAIN h
       /\ c.p > 1 => a \in Calls(next) /\ a.do \in PlaceCalls /\ NeededBy(a) \subseteq DOMAIN h
  <2>1. b \in Calls(next) /\ (c.p > 1 => a \in Calls(next))
    BY <1>5, <1>6, <1>13, CallTypes DEF PlaceCalls
  <2>2. b.do = "right" /\ b.r = c.r /\ a.do = "enforce"
    BY <1>13 DEF Call
  <2> QED
    BY <1>10, <1>11, <2>1, <2>2 DEF PlaceCalls, NeededBy
<1>15. /\ n \in Seq(Calls(next))
       /\ \A i \in 1 .. Len(n) : n[i].do \in PlaceCalls /\ NeededBy(n[i]) \subseteq DOMAIN h
  <2>1. CASE c.p > 1
    <3>0. n = << a >> \o << b >>
      BY ONLY <1>3, <1>13, <2>1
    <3>1. PICK u, v : u = << a >> /\ v = << b >>
      OBVIOUS
    <3>2. /\ u \in Seq(Calls(next)) /\ Len(u) = 1 /\ u[1] = a
          /\ v \in Seq(Calls(next)) /\ Len(v) = 1 /\ v[1] = b
      BY <1>14, <2>1, <3>1
    <3>3. n = u \o v
      BY ONLY <3>0, <3>1
    <3>4. /\ n \in Seq(Calls(next)) /\ Len(n) = Len(u) + Len(v)
          /\ \A i \in 1 .. Len(u) + Len(v) : n[i] = IF i <= Len(u) THEN u[i] ELSE v[i - Len(u)]
      BY ONLY <3>2, <3>3, ConcatProperties
    <3>5. \A i \in 1 .. Len(n) : n[i] = a \/ n[i] = b
      BY ONLY <3>2, <3>4
    <3> QED
      BY ONLY <1>14, <2>1, <3>4, <3>5
  <2>2. CASE ~(c.p > 1)
    <3>0. n = << >> \o << b >>
      BY ONLY <1>3, <1>13, <2>2
    <3>1. n = << b >>
      BY ONLY <3>0
    <3>2. << b >> \in Seq(Calls(next))
      BY <1>14
    <3> QED
      BY ONLY <1>14, <3>1, <3>2, AtMostOne
  <2> QED
    BY ONLY <2>1, <2>2
<1>16. \A j \in 2 .. Len(work) : NeededBy(work[j]) \subseteq DOMAIN h
  BY <1>5, <1>11 DEF Grounded
<1> QED
  BY <1>1, <1>4, <1>5, <1>11, <1>12, <1>15, <1>16, PlacesAgain

LEMMA SubstituteBuilds == BuildInv /\ Substitute => BuildInv'
<1> SUFFICES ASSUME BuildInv, Substitute PROVE BuildInv'
  OBVIOUS
<1>1. PICK c : c = Head(work)
  OBVIOUS
<1>2. CASE StillThere(c)
  BY <1>1, <1>2, SubstitutedBuilds
<1>3. CASE ~StillThere(c)
  <2>1. /\ Turn("substitute") /\ Replaced(<< >>)
        /\ UNCHANGED << input, seqs, next, index, phase, panicked >>
    BY <1>1, <1>3 DEF Substitute
  <2> QED
    BY <2>1, DroppedBuilds
<1> QED
  BY <1>2, <1>3

LEMMA UtilityBuilds == BuildInv /\ Utility => BuildInv'
<1> SUFFICES ASSUME BuildInv, Utility PROVE BuildInv'
  OBVIOUS
<1>1. PICK V : Built(V, input, seqs, next, index, work, phase, panicked)
  BY DEF BuildInv
<1>2. PICK c : c = Head(work)
  OBVIOUS
<1>3. PICK b : b = RuleCall("expand", c.id, c.depth + 1)
  OBVIOUS
<1>4. /\ Turn("utility") /\ Replaced(IF Underused(c.id) THEN << b >> ELSE << >>)
      /\ UNCHANGED << input, seqs, next, index, phase, panicked >>
  BY <1>2, <1>3 DEF Utility
<1>5. CASE ~Underused(c.id)
  <2>1. Replaced(<< >>)
    BY <1>4, <1>5
  <2> QED
    BY <1>4, <2>1, DroppedBuilds
<1>6. CASE Underused(c.id)
  <2>1. /\ c.do = "utility" /\ c \in Calls(next) /\ work # << >> /\ phase # "done"
        /\ WorkOk(work, seqs, V, next) /\ Stands(seqs, V, next) /\ next \in Nat
        /\ IndexOk(index, next) /\ panicked = FALSE /\ expand_seq(seqs[StartRule], V) = input
        /\ \A j \in 2 .. Len(work) : Grounded(work[j], seqs, V) /\ SafeBefore(c, work[j])
    BY <1>1, <1>2, <1>4, TurnOf
  <2>2. c.id \in 1 .. (next - 1) /\ c.depth + 1 \in Nat
    BY <2>1, CallFields DEF RuleCalls
  <2>3. b \in Calls(next)
    BY <1>3, <2>1, <2>2, CallTypes DEF RuleCalls
  <2>4. b.do = "expand" /\ b.id = c.id
    BY <1>3 DEF RuleCall
  <2>5. PICK n : n = << b >>
    OBVIOUS
  <2>6. n \in Seq(Calls(next)) /\ Len(n) = 1 /\ n[1] = b
    BY <2>3, <2>5
  <2>7. \A i \in 1 .. Len(n) : i = 1 /\ n[i] = b
    BY ONLY <2>6
  <2>8. Grounded(b, seqs, V) /\ Expandable(b, 1, seqs)
    BY <1>6, <2>4 DEF Grounded, NeededBy, Expandable, Underused, count_rule_refs
  <2>9. \A j \in 2 .. Len(work) : SafeBefore(b, work[j])
    BY <2>1, <2>4 DEF SafeBefore, RuleCalls
  <2>10. \A i \in 1 .. Len(n) : Grounded(n[i], seqs, V) /\ Expandable(n[i], i, seqs)
    BY ONLY <2>7, <2>8
  <2>11. \A i, j \in 1 .. Len(n) : i < j => SafeBefore(n[i], n[j])
    BY ONLY <2>7
  <2>12. \A i \in 1 .. Len(n) : \A j \in 2 .. Len(work) : SafeBefore(n[i], work[j])
    BY ONLY <2>7, <2>9
  <2>13. WorkOk(n \o Tail(work), seqs, V, next)
    BY ONLY <2>1, <2>6, <2>10, <2>11, <2>12, WorkReplaced
  <2>14. work' = n \o Tail(work)
    BY <1>4, <1>6, <2>5 DEF Replaced
  <2> QED
    BY <1>4, <2>1, <2>13, <2>14, BuiltAgain
<1> QED
  BY <1>5, <1>6

\* A call relies on what it relied on when a rule is created.
LEMMA GroundedLater ==
  ASSUME NEW k \in Nat, NEW c \in Calls(k), NEW g, NEW V, Grounded(c, g, V),
         NEW h, DOMAIN g \subseteq DOMAIN h, NEW W,
         \A q \in Seq(SymbolsOver(1 .. (k - 1))) : expand_seq(q, W) = expand_seq(q, V),
         \A x \in 1 .. (k - 1) : W[x] = V[x]
  PROVE  Grounded(c, h, W)
<1>1. NeededBy(c) \subseteq DOMAIN h
  BY DEF Grounded
<1>2. ASSUME c.do = "substitute"
      PROVE  c.r < c.id /\ expand_seq(c.d, W) = W[c.id]
  <2>1. c.d \in Seq(SymbolsOver(1 .. (k - 1))) /\ c.id \in 1 .. (k - 1)
    BY ONLY <1>2, CallFields, k \in Nat, c \in Calls(k)
  <2>2. c.r < c.id /\ expand_seq(c.d, V) = V[c.id]
    BY <1>2 DEF Grounded
  <2> QED
    BY <2>1, <2>2
<1> QED
  BY <1>1, <1>2 DEF Grounded

\* The substitutions for the places of digram d by the new rule k, and the look
\* at its uses.
NewCalls(places, d, k, e) ==
  [i \in DOMAIN places |-> SubstituteCall(places[i], d, k, e + 1)] \o << RuleCall("utility", k, e) >>

\* They rely on what they may rely on.
NewCallsOk(n, k, h, W) ==
  /\ n \in Seq(Calls(k + 1))
  /\ \A i \in 1 .. Len(n) : Grounded(n[i], h, W) /\ Expandable(n[i], i, h)
  /\ \A i, j \in 1 .. Len(n) : i < j => SafeBefore(n[i], n[j])
  /\ \A i \in 1 .. Len(n) : n[i].do \in RuleCalls => n[i].id = k

LEMMA NewRuleCalls ==
  ASSUME NEW k \in Nat, k >= 1, NEW places \in Seq(Places(k)), NEW e \in Nat,
         NEW d \in Seq(SymbolsOver(1 .. (k - 1))), NEW h, k \in DOMAIN h,
         NEW W, expand_seq(d, W) = W[k],
         NEW n, n = NewCalls(places, d, k, e)
  PROVE  NewCallsOk(n, k, h, W)
<1>1. PICK m, b, u : /\ m = [i \in DOMAIN places |-> SubstituteCall(places[i], d, k, e + 1)]
                     /\ b = RuleCall("utility", k, e) /\ u = << b >>
  OBVIOUS
<1>2. /\ Len(places) \in Nat /\ DOMAIN places = 1 .. Len(places) /\ e + 1 \in Nat
      /\ \A i \in 1 .. Len(places) : places[i] \in Places(k)
  OBVIOUS
<1>3. 1 .. (k - 1) \subseteq 1 .. ((k + 1) - 1) /\ k \in 1 .. ((k + 1) - 1) /\ Places(k) \subseteq Places(k + 1)
  BY DEF Places
<1>4. d \in Seq(SymbolsOver(1 .. ((k + 1) - 1)))
  BY <1>3, SymbolsGrow
<1>5. ASSUME NEW i \in 1 .. Len(places)
      PROVE  m[i] \in Calls(k + 1) /\ m[i].do = "substitute" /\ Grounded(m[i], h, W)
  <2>1. PICK q : q = places[i]
    OBVIOUS
  <2>2. m[i] = SubstituteCall(q, d, k, e + 1)
    BY <1>1, <1>2, <2>1
  <2>3. q \in Places(k) /\ q[1] \in 0 .. (k - 1)
    BY <1>2, <2>1 DEF Places
  <2>4. m[i] \in Calls(k + 1)
    <3>1. PICK a, y : a = k + 1 /\ y = e + 1
      OBVIOUS
    <3>2. a \in Nat /\ y \in Nat /\ q \in Places(a) /\ k \in 1 .. (a - 1)
      BY <1>2, <1>3, <2>3, <3>1
    <3>3. d \in Seq(SymbolsOver(1 .. (a - 1)))
      BY ONLY <1>4, <3>1
    <3>4. SubstituteCall(q, d, k, y) \in Calls(a)
      BY ONLY <3>2, <3>3, CallTypes
    <3> QED
      BY ONLY <2>2, <3>1, <3>4
  <2>5. m[i].do = "substitute" /\ m[i].r = q[1] /\ m[i].d = d /\ m[i].id = k
    BY <2>2 DEF SubstituteCall
  <2>6. q[1] < k
    BY <2>3
  <2> QED
    BY <2>4, <2>5, <2>6 DEF Grounded, NeededBy
<1>6. m \in Seq(Calls(k + 1)) /\ Len(m) = Len(places)
  <2>1. m = [i \in 1 .. Len(places) |-> m[i]]
    BY <1>1, <1>2
  <2>2. \A i \in 1 .. Len(places) : m[i] \in Calls(k + 1)
    BY <1>5
  <2>3. PICK L, K : L = Len(places) /\ K = Calls(k + 1)
    OBVIOUS
  <2>4. L \in Nat /\ m \in [1 .. L -> K]
    BY ONLY <1>2, <2>1, <2>2, <2>3
  <2>5. m \in Seq(K) /\ Len(m) = L
    BY ONLY <2>4
  <2> QED
    BY ONLY <2>3, <2>5
<1>7. b \in Calls(k + 1) /\ b.do = "utility" /\ b.id = k
  <2>1. b \in Calls(k + 1)
    BY <1>1, <1>3, CallTypes DEF RuleCalls
  <2> QED
    BY <1>1, <2>1 DEF RuleCall
<1>8. u \in Seq(Calls(k + 1)) /\ Len(u) = 1 /\ u[1] = b
  BY <1>1, <1>7
<1>9. n = m \o u
  BY ONLY <1>1, n = NewCalls(places, d, k, e) DEF NewCalls
<1>10. /\ n \in Seq(Calls(k + 1)) /\ Len(n) = Len(m) + Len(u)
       /\ \A i \in 1 .. Len(m) + Len(u) : n[i] = IF i <= Len(m) THEN m[i] ELSE u[i - Len(m)]
  <2>1. PICK K : K = Calls(k + 1)
    OBVIOUS
  <2>2. m \in Seq(K) /\ u \in Seq(K)
    BY ONLY <1>6, <1>8, <2>1
  <2>3. /\ n \in Seq(K) /\ Len(n) = Len(m) + Len(u)
        /\ \A i \in 1 .. Len(m) + Len(u) : n[i] = IF i <= Len(m) THEN m[i] ELSE u[i - Len(m)]
    BY ONLY <1>9, <2>2, ConcatProperties
  <2> QED
    BY ONLY <2>1, <2>3
<1>11. PICK l \in Nat : l = Len(m)
  BY <1>2, <1>6
<1>12. /\ Len(n) = l + 1
       /\ \A i \in 1 .. l : n[i] = m[i] /\ i \in 1 .. Len(places)
       /\ n[l + 1] = b
  <2>1. Len(m) = l /\ Len(u) = 1 /\ Len(places) = l
    BY ONLY <1>6, <1>8, <1>11
  <2>2. Len(n) = l + 1 /\ \A i \in 1 .. (l + 1) : n[i] = IF i <= l THEN m[i] ELSE u[i - l]
    BY ONLY <1>10, <2>1
  <2>3. \A i \in 1 .. l : n[i] = m[i] /\ i \in 1 .. Len(places)
    BY ONLY <2>1, <2>2, l \in Nat
  <2>4. n[l + 1] = u[(l + 1) - l] /\ (l + 1) - l = 1
    BY ONLY <2>2, l \in Nat
  <2> QED
    BY ONLY <1>8, <2>2, <2>3, <2>4
<1>13. \A i \in 1 .. Len(n) : i \in 1 .. l \/ i = l + 1
  BY ONLY <1>12, l \in Nat
<1>14. \A i \in 1 .. l : Grounded(n[i], h, W) /\ n[i].do = "substitute"
  BY ONLY <1>5, <1>12
<1>15. Grounded(b, h, W)
  BY <1>7 DEF Grounded, NeededBy
<1>16. \A i \in 1 .. Len(n) : Grounded(n[i], h, W) /\ (n[i].do = "substitute" \/ n[i].do = "utility")
  BY ONLY <1>7, <1>12, <1>13, <1>14, <1>15
<1>17. \A i \in 1 .. Len(n) : Grounded(n[i], h, W) /\ Expandable(n[i], i, h)
  BY ONLY <1>16 DEF Expandable
<1>18. \A i \in 1 .. Len(n) : n[i].do \in RuleCalls => i = l + 1 /\ n[i].id = k
  BY ONLY <1>7, <1>12, <1>13, <1>14 DEF RuleCalls
<1>19. ASSUME NEW i \in 1 .. Len(n), NEW j \in 1 .. Len(n), i < j
       PROVE  SafeBefore(n[i], n[j])
  <2>1. i # l + 1
    BY ONLY <1>12, <1>19, l \in Nat, i \in 1 .. Len(n), j \in 1 .. Len(n)
  <2> QED
    BY ONLY <1>18, <2>1, i \in 1 .. Len(n) DEF SafeBefore
<1> QED
  BY ONLY <1>10, <1>17, <1>18, <1>19 DEF NewCallsOk

\* Positions in the opposite order.
LEMMA ReverseType ==
  ASSUME NEW S, NEW s \in Seq(S)
  PROVE  Reverse(s) \in Seq(S)
<1>1. Len(s) \in Nat /\ \A i \in 1 .. Len(s) : s[i] \in S
  OBVIOUS
<1>2. \A i \in 1 .. Len(s) : (Len(s) - i) + 1 \in 1 .. Len(s)
  BY ONLY <1>1
<1>3. Reverse(s) \in [1 .. Len(s) -> S]
  BY <1>1, <1>2 DEF Reverse
<1> QED
  BY <1>1, <1>3

\* A rule that is created.
LEMMA CreatedBuilds ==
  ASSUME BuildInv, Enforce, NEW c, c = Head(work), ~Unique(c)
  PROVE  BuildInv'
<1>1. PICK V : Built(V, input, seqs, next, index, work, phase, panicked)
  BY DEF BuildInv
<1>2. PICK g, k, d, places : /\ g = seqs /\ k = next /\ d = digram_at(seqs, c.r, c.p)
                             /\ places = Reverse(PositionsOf(index, d))
  OBVIOUS
<1>3. PICK n : n = NewCalls(places, d, k, c.depth)
  OBVIOUS
<1>4. PICK h : h = Extended(g, k, d)
  OBVIOUS
<1>5. /\ Turn("enforce") /\ next' = k + 1 /\ seqs' = h /\ Replaced(n)
      /\ UNCHANGED << index, input, phase, panicked >>
  BY <1>2, <1>3, <1>4 DEF Enforce, Extended, NewCalls
<1>6. /\ c.do = "enforce" /\ c \in Calls(k) /\ work # << >> /\ phase # "done"
      /\ WorkOk(work, g, V, k) /\ Stands(g, V, k) /\ k \in Nat /\ IndexOk(index, k)
      /\ panicked = FALSE /\ expand_seq(g[StartRule], V) = input
      /\ \A j \in 2 .. Len(work) : work[j] \in Calls(k) /\ Grounded(work[j], g, V)
  BY <1>1, <1>2, <1>5, TurnOf
<1>7. c.r \in 0 .. (k - 1) /\ c.p \in Nat \ {0} /\ c.depth \in Nat
  BY <1>6, CallFields DEF PlaceCalls
<1>8. /\ c.r \in DOMAIN g /\ c.p < Len(g[c.r])
      /\ d = << g[c.r][c.p], g[c.r][c.p + 1] >>
  <2>1. d # None
    BY <1>2 DEF Unique
  <2> QED
    BY <1>2, <2>1, DigramThere
<1>9. PICK W : W = ExtendedTexts(V, k, expand_seq(d, V))
  OBVIOUS
<1>10. /\ Stands(h, W, k + 1)
       /\ \A q \in Seq(SymbolsOver(1 .. (k - 1))) : expand_seq(q, W) = expand_seq(q, V)
       /\ d \in Seq(SymbolsOver(1 .. (k - 1)))
       /\ W[k] = expand_seq(d, V)
       /\ \A x \in 1 .. (k - 1) : W[x] = V[x]
       /\ h[StartRule] = g[StartRule]
  <2>1. PICK r, p : r = c.r /\ p = c.p
    OBVIOUS
  <2>2. /\ r \in DOMAIN g /\ p \in Nat \ {0} /\ p < Len(g[r]) /\ d = << g[r][p], g[r][p + 1] >>
    BY ONLY <1>7, <1>8, <2>1
  <2>3. Stands(g, V, k)
    BY <1>6
  <2>4. CreationKeeps(g, h, V, W, k, d)
    BY ONLY <1>4, <1>9, <2>2, <2>3, StandsCreated
  <2> QED
    BY ONLY <2>4 DEF CreationKeeps
<1>11. DOMAIN h = DOMAIN g \cup {k}
  BY <1>4 DEF Extended
<1>12. expand_seq(d, W) = W[k]
  BY ONLY <1>10
<1>13. k >= 1
  <2>1. StartRule \in 0 .. (k - 1) /\ k \in Nat
    BY <1>6 DEF Stands
  <2> QED
    BY ONLY <2>1 DEF StartRule
<1>14. places \in Seq(Places(k))
  BY <1>2, <1>6, PositionsType, ReverseType
<1>15. /\ n \in Seq(Calls(k + 1))
       /\ \A i \in 1 .. Len(n) : Grounded(n[i], h, W) /\ Expandable(n[i], i, h)
       /\ \A i, j \in 1 .. Len(n) : i < j => SafeBefore(n[i], n[j])
       /\ \A i \in 1 .. Len(n) : n[i].do \in RuleCalls => n[i].id = k
  <2>1. PICK e : e = c.depth
    OBVIOUS
  <2>2. e \in Nat /\ n = NewCalls(places, d, k, e)
    BY ONLY <1>3, <1>7, <2>1
  <2>3. k \in Nat /\ k \in DOMAIN h /\ d \in Seq(SymbolsOver(1 .. (k - 1)))
    BY <1>6, <1>10, <1>11
  <2>4. NewCallsOk(n, k, h, W)
    BY ONLY <1>12, <1>13, <1>14, <2>2, <2>3, NewRuleCalls
  <2> QED
    BY ONLY <2>4 DEF NewCallsOk
<1>16. \A j \in 2 .. Len(work) : Grounded(work[j], h, W)
  <2>1. DOMAIN g \subseteq DOMAIN h
    BY <1>11
  <2> QED
    BY ONLY <1>6, <1>10, <2>1, GroundedLater
<1>17. \A i \in 1 .. Len(n) : \A j \in 2 .. Len(work) : SafeBefore(n[i], work[j])
  <2>1. \A j \in 2 .. Len(work) : NeededBy(work[j]) \subseteq 0 .. (k - 1)
    BY ONLY <1>6, CallFields
  <2>2. \A j \in 2 .. Len(work) : \A r \in NeededBy(work[j]) : r < k
    <3>1. k \in Nat /\ \A r \in 0 .. (k - 1) : r < k
      BY <1>6
    <3> QED
      BY ONLY <2>1, <3>1
  <2> QED
    BY ONLY <1>15, <2>2 DEF SafeBefore
<1>18. WorkOk(n \o Tail(work), h, W, k + 1)
  <2>1. Calls(k) \subseteq Calls(k + 1)
    BY <1>6, CallsGrow
  <2> QED
    BY ONLY <1>6, <1>15, <1>16, <1>17, <2>1, WorkReplaced
<1>19. work' = n \o Tail(work)
  BY <1>5 DEF Replaced
<1>20. IndexOk(index', next')
  BY <1>5, <1>6, IndexGrows
<1>21. Stands(seqs', W, next') /\ WorkOk(work', seqs', W, next')
  BY ONLY <1>5, <1>10, <1>18, <1>19
<1>22. expand_seq(seqs'[StartRule], W) = input'
  <2>1. g[StartRule] \in Seq(SymbolsOver(1 .. (k - 1)))
    BY <1>6, BodiesOf DEF Stands
  <2> QED
    BY ONLY <1>5, <1>6, <1>10, <2>1
<1> QED
  BY <1>5, <1>6, <1>20, <1>21, <1>22, BuiltAgain

LEMMA EnforceBuilds == BuildInv /\ Enforce => BuildInv'
<1> SUFFICES ASSUME BuildInv, Enforce PROVE BuildInv'
  OBVIOUS
<1>1. PICK c : c = Head(work)
  OBVIOUS
<1>2. CASE ~Unique(c)
  BY <1>1, <1>2, CreatedBuilds
<1>3. CASE Unique(c)
  <2>1. /\ Turn("enforce") /\ Replaced(<< >>)
        /\ UNCHANGED << input, seqs, next, index, phase, panicked >>
    BY <1>1, <1>3 DEF Enforce
  <2> QED
    BY <2>1, DroppedBuilds
<1> QED
  BY <1>2, <1>3

\* The rules the other calls need are older than the one that is removed.
LEMMA OthersNeedOlder ==
  ASSUME NEW c, NEW b, NEW g, NEW V, c.do = "expand", SafeBefore(c, b), Grounded(b, g, V),
         c.id \in Nat, NeededBy(b) \subseteq Nat, NEW h, DOMAIN h = DOMAIN g \ {c.id}
  PROVE  NeededBy(b) \subseteq DOMAIN h
<1>1. \A r \in NeededBy(b) : r < c.id /\ r \in Nat
  BY DEF SafeBefore, RuleCalls
<1>2. \A r \in NeededBy(b) : r # c.id
  BY <1>1
<1>3. NeededBy(b) \subseteq DOMAIN g
  BY DEF Grounded
<1> QED
  BY ONLY <1>2, <1>3, DOMAIN h = DOMAIN g \ {c.id}

\* The calls for the places from `first' on.
RecheckCalls(r, first, count, e) == [i \in 1 .. count |-> Call("recheck", r, first + (i - 1), e)]

\* They are calls about places of r.
AtPlaces(n, k, D) ==
  /\ n \in Seq(Calls(k))
  /\ \A i \in 1 .. Len(n) : n[i].do \in PlaceCalls /\ NeededBy(n[i]) \subseteq D

LEMMA RecheckCallTypes ==
  ASSUME NEW k \in Nat, NEW r \in 0 .. (k - 1), NEW first \in Nat \ {0}, NEW count \in Nat,
         NEW e \in Nat, NEW D, r \in D, NEW n, n = RecheckCalls(r, first, count, e)
  PROVE  AtPlaces(n, k, D)
<1>1. ASSUME NEW i \in 1 .. count
      PROVE  n[i] \in Calls(k) /\ n[i].do \in PlaceCalls /\ NeededBy(n[i]) \subseteq D
  <2>1. PICK p : p = first + (i - 1)
    OBVIOUS
  <2>2. p \in Nat \ {0}
    BY ONLY <2>1, first \in Nat \ {0}, count \in Nat, i \in 1 .. count
  <2>3. n[i] = Call("recheck", r, p, e)
    BY <2>1 DEF RecheckCalls
  <2>4. n[i] \in Calls(k)
    BY <2>2, <2>3, CallTypes DEF PlaceCalls
  <2>5. n[i].do = "recheck" /\ n[i].r = r
    BY <2>3 DEF Call
  <2> QED
    BY <2>4, <2>5 DEF PlaceCalls, NeededBy
<1>2. PICK K : K = Calls(k)
  OBVIOUS
<1>3. n = [i \in 1 .. count |-> n[i]]
  BY DEF RecheckCalls
<1>4. \A i \in 1 .. count : n[i] \in K
  BY ONLY <1>1, <1>2
<1>5. n \in [1 .. count -> K]
  BY ONLY <1>3, <1>4
<1>6. n \in Seq(K) /\ Len(n) = count
  BY ONLY <1>5, count \in Nat
<1> QED
  BY ONLY <1>1, <1>2, <1>6 DEF AtPlaces

\* The facts of a call that expands a rule.
LEMMA ExpandTurn ==
  ASSUME NEW V, Built(V, input, seqs, next, index, work, phase, panicked), Turn("expand"),
         NEW c, c = Head(work)
  PROVE  /\ Stands(seqs, V, next) /\ next \in Nat /\ IndexOk(index, next)
         /\ c.id \in 1 .. (next - 1) /\ c.depth \in Nat /\ work # << >> /\ panicked = FALSE
         /\ Cardinality(RuleRefs(seqs, c.id)) < 2
         /\ \A h : DOMAIN h = DOMAIN seqs \ {c.id} =>
              \A j \in 2 .. Len(work) : NeededBy(work[j]) \subseteq DOMAIN h
<1>1. /\ c.do = "expand" /\ c \in Calls(next) /\ work # << >> /\ Expandable(c, 1, seqs)
      /\ Stands(seqs, V, next) /\ next \in Nat /\ IndexOk(index, next) /\ panicked = FALSE
      /\ \A j \in 2 .. Len(work) : /\ work[j] \in Calls(next) /\ Grounded(work[j], seqs, V)
                                   /\ SafeBefore(c, work[j])
  BY TurnOf
<1>2. c.id \in 1 .. (next - 1) /\ c.depth \in Nat
  BY <1>1, CallFields DEF RuleCalls
<1>3. Cardinality(RuleRefs(seqs, c.id)) < 2
  BY <1>1 DEF Expandable
<1>4. c.id \in Nat /\ \A x \in 0 .. (next - 1) : x \in Nat
  BY ONLY <1>1, <1>2
<1>5. \A j \in 2 .. Len(work) : NeededBy(work[j]) \subseteq 0 .. (next - 1)
  BY ONLY <1>1, CallFields
<1>6. \A j \in 2 .. Len(work) : NeededBy(work[j]) \subseteq Nat
  BY ONLY <1>4, <1>5
<1>7. ASSUME NEW h, DOMAIN h = DOMAIN seqs \ {c.id}, NEW j \in 2 .. Len(work)
      PROVE  NeededBy(work[j]) \subseteq DOMAIN h
  BY ONLY <1>1, <1>4, <1>6, <1>7, j \in 2 .. Len(work), OthersNeedOlder
<1> QED
  BY ONLY <1>1, <1>2, <1>3, <1>7

\* A rule without a use, or one that is gone already.
LEMMA UnusedBuilds ==
  ASSUME BuildInv, ExpandRule, NEW c, c = Head(work),
         c.id \notin DOMAIN seqs \/ RuleRefs(seqs, c.id) = {}
  PROVE  BuildInv'
<1>1. PICK V : Built(V, input, seqs, next, index, work, phase, panicked)
  BY DEF BuildInv
<1>2. PICK h : h = Shrunk(seqs, c.id)
  OBVIOUS
<1>3. /\ Turn("expand") /\ seqs' = h /\ Replaced(<< >>)
      /\ UNCHANGED << index, panicked, input, next, phase >>
  BY <1>2 DEF ExpandRule, Without, Shrunk
<1>4. /\ Stands(seqs, V, next) /\ next \in Nat /\ IndexOk(index, next)
      /\ c.id \in 1 .. (next - 1) /\ work # << >> /\ panicked = FALSE
  BY <1>1, <1>3, ExpandTurn
<1>5. /\ Stands(h, V, next) /\ DOMAIN h = DOMAIN seqs \ {c.id}
      /\ expand_seq(h[StartRule], V) = expand_seq(seqs[StartRule], V)
  <2>1. PICK g, k, id : g = seqs /\ k = next /\ id = c.id
    OBVIOUS
  <2>2. Stands(g, V, k) /\ id \in 1 .. (k - 1) /\ h = Shrunk(g, id)
    BY ONLY <1>2, <1>4, <2>1
  <2>3. id \in DOMAIN g => RuleRefs(g, id) = {}
    BY <2>1
  <2>4. /\ Stands(h, V, k) /\ DOMAIN h = DOMAIN g \ {id}
        /\ expand_seq(h[StartRule], V) = expand_seq(g[StartRule], V)
    BY ONLY <2>2, <2>3, StandsDropped
  <2> QED
    BY ONLY <2>1, <2>4
<1>6. \A j \in 2 .. Len(work) : NeededBy(work[j]) \subseteq DOMAIN h
  BY <1>1, <1>3, <1>5, ExpandTurn
<1>7. << >> \in Seq(Calls(next)) /\ \A i \in 1 .. Len(<< >>) : FALSE
  OBVIOUS
<1> QED
  BY <1>1, <1>3, <1>4, <1>5, <1>6, <1>7, PlacesAgain

\* A rule that is expanded where it is used.
LEMMA ExpandedBuilds ==
  ASSUME BuildInv, ExpandRule, NEW c, c = Head(work),
         c.id \in DOMAIN seqs, RuleRefs(seqs, c.id) # {}
  PROVE  BuildInv'
<1>1. PICK V : Built(V, input, seqs, next, index, work, phase, panicked)
  BY DEF BuildInv
<1>2. Turn("expand")
  BY DEF ExpandRule
<1>3. /\ Stands(seqs, V, next) /\ next \in Nat /\ IndexOk(index, next)
      /\ c.id \in 1 .. (next - 1) /\ c.depth \in Nat /\ work # << >> /\ panicked = FALSE
      /\ Cardinality(RuleRefs(seqs, c.id)) < 2
  BY <1>1, <1>2, ExpandTurn
<1>4. PICK q : q = CHOOSE u \in RuleRefs(seqs, c.id) : TRUE
  OBVIOUS
<1>5. PICK g, k, id, r, p : g = seqs /\ k = next /\ id = c.id /\ r = q[1] /\ p = q[2]
  OBVIOUS
<1>6. PICK f : f = Shrunk(g, id)
  OBVIOUS
<1>7. PICK h : h = ExpandedAt(g, f, id, r, p)
  OBVIOUS
<1>8. UsedOnce(g, id, r, p)
  <2>1. q \in RuleRefs(g, id)
    BY <1>4, <1>5
  <2>2. RuleRefs(g, id) = {q}
    BY ONLY <1>3, <1>5, <2>1, UsesFinite
  <2>3. q = << q[1], q[2] >>
    BY ONLY <2>1, UsesArePlaces
  <2> QED
    BY ONLY <1>5, <2>2, <2>3 DEF UsedOnce
<1>9. id \in RulesOf(g) /\ Stands(g, V, k) /\ k \in Nat /\ id \in 1 .. (k - 1)
  <2>1. id \in DOMAIN g /\ Stands(g, V, k) /\ k \in Nat /\ id \in 1 .. (k - 1)
    BY <1>3, <1>5
  <2>2. id # 0
    BY ONLY <2>1
  <2> QED
    BY ONLY <2>1, <2>2 DEF RulesOf, StartRule
<1>10. /\ r # id /\ r \in DOMAIN g /\ p \in Nat \ {0}
       /\ Stands(h, V, k) /\ DOMAIN h = DOMAIN g \ {id}
       /\ expand_seq(h[StartRule], V) = expand_seq(g[StartRule], V)
  <2>1. ExpansionKeeps(g, h, V, k, id, r, p)
    BY ONLY <1>6, <1>7, <1>8, <1>9, StandsExpanded
  <2> QED
    BY ONLY <2>1 DEF ExpansionKeeps
<1>11. PICK first : first = IF p > 1 THEN p - 1 ELSE p
  OBVIOUS
<1>12. PICK count : count = p + Len(g[id]) - first
  OBVIOUS
<1>13. PICK left : left = IF p > 1 THEN remove_digram(f, index, r, p - 1) ELSE index
  OBVIOUS
<1>14. PICK n : n = RecheckCalls(r, first, count, c.depth + 1)
  OBVIOUS
<1>15. /\ seqs' = h
       /\ index' = add_digrams(h, remove_digram(f, left, r, p), r, first, count)
       /\ Replaced(n)
       /\ UNCHANGED << panicked, input, next, phase >>
  <2>1. f = Without(c.id)
    BY <1>5, <1>6 DEF Without, Shrunk
  <2>2. h = [f EXCEPT ![r] = SubSeq(f[r], 1, p - 1) \o g[id] \o SubSeq(f[r], p + 1, Len(f[r]))]
    BY <1>7 DEF ExpandedAt, Edited, Joined
  <2>3. n = [i \in 1 .. count |-> Call("recheck", r, first + (i - 1), c.depth + 1)]
    BY <1>14 DEF RecheckCalls
  <2>4. q[1] # c.id
    BY ONLY <1>5, <1>10
  <2>5. UNCHANGED << panicked, input, next, phase >>
    BY <1>4, <2>4 DEF ExpandRule
  <2>6. seqs' = [f EXCEPT ![q[1]] = SubSeq(f[q[1]], 1, q[2] - 1) \o seqs[c.id]
                                      \o SubSeq(f[q[1]], q[2] + 1, Len(f[q[1]]))]
    BY ONLY <1>4, <2>1, <2>4, ExpandRule, c = Head(work), c.id \in DOMAIN seqs, RuleRefs(seqs, c.id) # {},
       ZenonT(60) DEF ExpandRule
  <2>7. seqs' = h
    BY ONLY <1>5, <2>2, <2>6
  <2>8. Replaced([i \in 1 .. (q[2] + Len(seqs[c.id]) - (IF q[2] > 1 THEN q[2] - 1 ELSE q[2])) |->
                    Call("recheck", q[1], (IF q[2] > 1 THEN q[2] - 1 ELSE q[2]) + (i - 1), c.depth + 1)])
    BY ONLY <1>4, <2>4, ExpandRule, c = Head(work), c.id \in DOMAIN seqs, RuleRefs(seqs, c.id) # {},
       ZenonT(60) DEF ExpandRule
  <2>9. Replaced(n)
    BY ONLY <1>5, <1>11, <1>12, <2>3, <2>8
  <2>10. index' = add_digrams(seqs', remove_digram(f, IF q[2] > 1 THEN remove_digram(f, index, q[1], q[2] - 1) ELSE index, q[1], q[2]),
                              q[1], IF q[2] > 1 THEN q[2] - 1 ELSE q[2],
                              q[2] + Len(seqs[c.id]) - (IF q[2] > 1 THEN q[2] - 1 ELSE q[2]))
    BY ONLY <1>4, <2>1, <2>4, <2>6, ExpandRule, c = Head(work), c.id \in DOMAIN seqs, RuleRefs(seqs, c.id) # {},
       ZenonT(60) DEF ExpandRule
  <2>11. index' = add_digrams(h, remove_digram(f, left, r, p), r, first, count)
    BY ONLY <1>5, <1>11, <1>12, <1>13, <2>7, <2>10
  <2> QED
    BY ONLY <2>5, <2>7, <2>9, <2>11
<1>16. /\ first \in Nat \ {0} /\ count \in Nat
  <2>1. Len(g[id]) \in Nat
    <3>1. g[id] \in Seq(SymbolsOver(1 .. (k - 1)))
      BY <1>9, BodiesOf DEF RulesOf
    <3> QED
      BY ONLY <3>1
  <2>2. first \in Nat \ {0} /\ first <= p
    BY ONLY <1>10, <1>11
  <2> QED
    BY ONLY <1>10, <1>12, <2>1, <2>2
<1>17. r \in 0 .. (k - 1)
  BY ONLY <1>9, <1>10 DEF Stands
<1>18. IndexOk(index', next)
  <2>1. IndexOk(left, k)
    BY <1>3, <1>5, <1>13, IndexRemoved
  <2>2. IndexOk(remove_digram(f, left, r, p), k)
    BY <1>9, <2>1, IndexRemoved
  <2>3. IndexOk(add_digrams(h, remove_digram(f, left, r, p), r, first, count), k)
    BY ONLY <1>9, <1>16, <1>17, <2>2, IndexAllAdded
  <2> QED
    BY ONLY <1>5, <1>15, <2>3
<1>19. /\ n \in Seq(Calls(next))
       /\ \A i \in 1 .. Len(n) : n[i].do \in PlaceCalls /\ NeededBy(n[i]) \subseteq DOMAIN h
  <2>1. PICK D, e : D = DOMAIN h /\ e = c.depth + 1
    OBVIOUS
  <2>2. r \in D /\ e \in Nat /\ n = RecheckCalls(r, first, count, e)
    BY <1>3, <1>10, <1>14, <2>1
  <2>3. /\ n \in Seq(Calls(k))
        /\ \A i \in 1 .. Len(n) : n[i].do \in PlaceCalls /\ NeededBy(n[i]) \subseteq D
    <3>1. k \in Nat
      BY <1>9
    <3>2. AtPlaces(n, k, D)
      BY ONLY <1>16, <1>17, <2>2, <3>1, RecheckCallTypes
    <3> QED
      BY ONLY <3>2 DEF AtPlaces
  <2> QED
    BY ONLY <1>5, <2>1, <2>3
<1>20. \A j \in 2 .. Len(work) : NeededBy(work[j]) \subseteq DOMAIN h
  <2>1. DOMAIN h = DOMAIN seqs \ {c.id}
    BY ONLY <1>5, <1>10
  <2> QED
    BY <1>1, <1>2, <2>1, ExpandTurn
<1>21. Stands(h, V, next) /\ expand_seq(h[StartRule], V) = expand_seq(seqs[StartRule], V)
  BY ONLY <1>5, <1>10
<1> QED
  BY <1>1, <1>3, <1>15, <1>18, <1>19, <1>20, <1>21, PlacesAgain

LEMMA ExpandBuilds == BuildInv /\ ExpandRule => BuildInv'
<1> SUFFICES ASSUME BuildInv, ExpandRule PROVE BuildInv'
  OBVIOUS
<1>1. PICK c : c = Head(work)
  OBVIOUS
<1> QED
  BY <1>1, UnusedBuilds, ExpandedBuilds

LEMMA AppendBuilds ==
  ASSUME BuildInv, NEW t \in Terminals, AppendSymbol(t)
  PROVE  BuildInv'
<1>1. PICK V : Built(V, input, seqs, next, index, work, phase, panicked)
  BY DEF BuildInv
<1>2. PICK g, k, h, p : /\ g = seqs /\ k = next /\ p = Len(seqs[StartRule])
                        /\ h = Edited(g, StartRule, Append(g[StartRule], Terminal(t)))
  OBVIOUS
<1>3. /\ phase = "append" /\ work = << >> /\ input' = Append(input, t) /\ seqs' = h
      /\ index' = IF p = 0 THEN index ELSE add_digram(h, index, StartRule, p)
      /\ work' = IF p = 0 THEN << >> ELSE << Call("enforce", StartRule, p, 0) >>
      /\ UNCHANGED << next, phase, panicked >>
  <2>1. h = [seqs EXCEPT ![StartRule] = Append(seqs[StartRule], Terminal(t))]
    BY ONLY <1>2 DEF Edited
  <2>2. seqs' = h
    BY ONLY <2>1, AppendSymbol(t) DEF AppendSymbol
  <2> QED
    BY ONLY <1>2, <2>2, AppendSymbol(t) DEF AppendSymbol
<1>4. /\ Stands(g, V, k) /\ expand_seq(g[StartRule], V) = input /\ IndexOk(index, k)
      /\ panicked = FALSE
  BY <1>1, <1>2 DEF Built
<1>5. t \in Nat
  BY TerminalsAreNumbers
<1>6. Stands(h, V, k) /\ expand_seq(h[StartRule], V) = Append(expand_seq(g[StartRule], V), t)
  <2>1. h = Edited(g, StartRule, Append(g[StartRule], Terminal(t))) /\ Stands(g, V, k)
    BY ONLY <1>2, <1>4
  <2>2. SymbolKept(g, h, V, k, t)
    BY ONLY <1>5, <2>1, StandsAppended
  <2> QED
    BY ONLY <2>2 DEF SymbolKept
<1>7. p \in Nat /\ k \in Nat /\ StartRule \in 0 .. (k - 1)
  <2>1. k \in Nat /\ StartRule \in DOMAIN g /\ DOMAIN g \subseteq 0 .. (k - 1)
    BY <1>4 DEF Stands
  <2>2. g[StartRule] \in Seq(SymbolsOver(1 .. (k - 1)))
    BY <1>4, <2>1, BodiesOf
  <2> QED
    BY ONLY <1>2, <2>1, <2>2
<1>8. IndexOk(index', k)
  <2>1. CASE p = 0
    BY <1>3, <1>4, <2>1
  <2>2. CASE p # 0
    <3>1. p \in Nat \ {0}
      BY <1>7, <2>2
    <3> QED
      BY <1>3, <1>4, <1>7, <2>2, <3>1, IndexAdded
  <2> QED
    BY <2>1, <2>2
<1>9. WorkOk(work', h, V, k)
  <2>1. CASE p = 0
    BY <1>3, <2>1, WorkShort
  <2>2. CASE p # 0
    <3>1. PICK c : c = Call("enforce", StartRule, p, 0)
      OBVIOUS
    <3>2. p \in Nat \ {0}
      BY <1>7, <2>2
    <3>3. c \in Calls(k)
      BY <1>7, <3>1, <3>2, CallTypes DEF PlaceCalls
    <3>4. c.do = "enforce"
      BY <3>1 DEF Call
    <3>5. Grounded(c, h, V) /\ Expandable(c, 1, h)
      BY <3>4 DEF Grounded, Expandable, NeededBy
    <3>6. work' = << c >>
      BY <1>3, <2>2, <3>1
    <3> QED
      BY ONLY <3>3, <3>5, <3>6, WorkShort
  <2> QED
    BY <2>1, <2>2
<1>10. /\ Stands(seqs', V, next') /\ expand_seq(seqs'[StartRule], V) = input'
       /\ IndexOk(index', next') /\ WorkOk(work', seqs', V, next')
  BY ONLY <1>2, <1>3, <1>4, <1>6, <1>8, <1>9
<1> QED
  BY <1>3, <1>4, <1>10, BuiltAgain

LEMMA FinalizeBuilds == BuildInv /\ Finalize => BuildInv'
<1> SUFFICES ASSUME BuildInv, Finalize PROVE BuildInv'
  OBVIOUS
<1>1. PICK V : Built(V, input, seqs, next, index, work, phase, panicked)
  BY DEF BuildInv
<1>2. Built(V, input', seqs', next', index', work', phase', panicked')
  BY <1>1 DEF Built, Finalize
<1> QED
  BY <1>2 DEF BuildInv

LEMMA CleanupBuilds == BuildInv /\ EnforceGlobalRuleUtility => BuildInv'
<1> SUFFICES ASSUME BuildInv, EnforceGlobalRuleUtility PROVE BuildInv'
  OBVIOUS
<1>1. PICK V : Built(V, input, seqs, next, index, work, phase, panicked)
  BY DEF BuildInv
<1>2. PICK U : U = {r \in Rules : Underused(r)}
  OBVIOUS
<1>3. /\ phase = "finalize" /\ work = << >> /\ UNCHANGED << input, seqs, next, index, panicked >>
      /\ IF U = {} THEN phase' = "done" /\ UNCHANGED work
         ELSE work' = << RuleCall("expand", Min(U), 0) >> /\ UNCHANGED phase
  BY <1>2 DEF EnforceGlobalRuleUtility
<1>4. /\ Stands(seqs, V, next) /\ expand_seq(seqs[StartRule], V) = input /\ IndexOk(index, next)
      /\ panicked = FALSE
  BY <1>1 DEF Built
<1>5. RulesOf(seqs) = Rules
  BY DEF RulesOf, Rules
<1>6. CASE U = {}
  <2>1. ASSUME NEW r \in RulesOf(seqs)
        PROVE  Cardinality(RuleRefs(seqs, r)) >= 2
    <3>1. ~(Cardinality(RuleRefs(seqs, r)) < 2)
      BY <1>2, <1>5, <1>6 DEF Underused, count_rule_refs
    <3>2. Cardinality(RuleRefs(seqs, r)) \in Nat
      BY <1>4, UsesFinite
    <3> QED
      BY ONLY <3>1, <3>2
  <2>2. phase' = "done" /\ work' = << >> /\ panicked' = FALSE
    BY <1>3, <1>4, <1>6
  <2>3. WorkOk(work', seqs, V, next)
    BY <2>2, WorkShort
  <2>4. Built(V, input, seqs, next, index, work', phase', panicked')
    BY <1>4, <2>1, <2>2, <2>3 DEF Built
  <2>5. Built(V, input', seqs', next', index', work', phase', panicked')
    BY <1>3, <2>4
  <2> QED
    BY <2>5 DEF BuildInv
<1>7. CASE U # {}
  <2>1. U \subseteq 1 .. (next - 1) /\ next \in Nat
    BY <1>2, <1>4, <1>5, BodiesOf
  <2>2. U \subseteq Nat
    BY <2>1
  <2>3. \E x \in U : \A y \in U : x <= y
    BY ONLY <1>7, <2>2, LeastOf
  <2>4. PICK m : m = Min(U)
    OBVIOUS
  <2>5. m \in U
    BY ONLY <2>3, <2>4 DEF Min
  <2>6. m \in 1 .. (next - 1) /\ Underused(m)
    BY <1>2, <2>1, <2>5
  <2>7. PICK c : c = RuleCall("expand", m, 0)
    OBVIOUS
  <2>8. c \in Calls(next)
    BY <2>1, <2>6, <2>7, CallTypes DEF RuleCalls
  <2>9. c.do = "expand" /\ c.id = m
    BY <2>7 DEF RuleCall
  <2>10. Grounded(c, seqs, V) /\ Expandable(c, 1, seqs)
    BY <2>6, <2>9 DEF Grounded, NeededBy, Expandable, Underused, count_rule_refs
  <2>11. work' = << c >> /\ phase' = phase
    BY <1>3, <1>7, <2>4, <2>7
  <2>12. WorkOk(work', seqs, V, next)
    BY ONLY <2>8, <2>10, <2>11, WorkShort
  <2>13. /\ Stands(seqs', V, next') /\ expand_seq(seqs'[StartRule], V) = input'
         /\ IndexOk(index', next') /\ WorkOk(work', seqs', V, next')
    BY ONLY <1>3, <1>4, <2>12
  <2> QED
    BY <1>3, <1>4, <2>11, <2>13, BuiltAgain
<1> QED
  BY <1>6, <1>7

LEMMA BuildStutters == BuildInv /\ UNCHANGED build_vars => BuildInv'
<1> SUFFICES ASSUME BuildInv, UNCHANGED build_vars PROVE BuildInv'
  OBVIOUS
<1>1. PICK V : Built(V, input, seqs, next, index, work, phase, panicked)
  BY DEF BuildInv
<1>2. Built(V, input', seqs', next', index', work', phase', panicked')
  BY <1>1 DEF build_vars
<1> QED
  BY <1>2 DEF BuildInv

\* Every step of the builder keeps the invariant.
LEMMA BuildInductive == BuildInv /\ [BuildNext]_build_vars => BuildInv'
BY EnforceBuilds, SubstituteBuilds, RightBuilds, UtilityBuilds, ExpandBuilds, RecheckBuilds,
   CleanupBuilds, FinalizeBuilds, AppendBuilds, BuildStutters DEF BuildNext, Work

\* The grammar expands to the input at every step, and no call panics because a
\* nested one removed its rule, for every alphabet, length and recursion guard.
THEOREM BuildExpandsToInput == BuildSpec => []ExpandsToInput
<1>1. BuildInv => ExpandsToInput
  <2> SUFFICES ASSUME BuildInv PROVE ExpandsToInput
    OBVIOUS
  <2>1. PICK V : Built(V, input, seqs, next, index, work, phase, panicked)
    BY DEF BuildInv
  <2>2. Stands(seqs, V, next) /\ expand_seq(seqs[StartRule], V) = input /\ panicked = FALSE
    BY <2>1 DEF Built
  <2>3. expand(seqs) = input
    BY <2>2, ExpandsToStands
  <2> QED
    BY <2>2, <2>3 DEF ExpandsToInput
<1> QED
  BY <1>1, BuildStarts, BuildInductive, PTL DEF BuildSpec

=============================================================================
