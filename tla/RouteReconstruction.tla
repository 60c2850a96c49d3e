------------------------ MODULE RouteReconstruction ------------------------
(***************************************************************************)
(* Route state rebuilt from observations: the RIB rows that seed it and    *)
(* freeze the cohort (cohort.rs, target.rs), the updates applied to it in  *)
(* the deterministic order of derived_cache.rs, and the state changes this *)
(* emits inside the event window and its cool-down (routes.rs).            *)
(*                                                                         *)
(* A stream is a (collector, peer, prefix); a route instance of it is a    *)
(* key <<stream, path id>>, path id 0 standing for an unkeyed record.      *)
(* Observations arrive already sorted: by collector, then by time, and     *)
(* within one instant by archive and element, which is their arrival       *)
(* order.  Times are in units smaller than a second.  No source produces   *)
(* session boundaries, so the continuity of every change is Known.         *)
(***************************************************************************)
EXTENDS Integers, Sequences

CONSTANTS Streams,          \* natural numbers
          CollectorOf,      \* the collector of a stream, numbered in name order
          PathIds,          \* natural numbers, 0 when unkeyed
          RoutesOf,         \* the routes that occur in the sources, by key
          Routes,           \* attribute sets: an AS path and what goes with it
          Absent,           \* no route
          Via(_),           \* reviewed transit predicate on a route
          Times,            \* instants of updates; RIB rows are at 0
          EventStart, EventEnd, CooldownEnd,
          MaxObservations   \* bound on the observations of a behaviour

ASSUME StreamsAreNumbers ==
  Streams \subseteq Nat /\ CollectorOf \in [Streams -> Nat] /\ PathIds \subseteq Nat
ASSUME RoutesOccurByKey ==
  /\ DOMAIN RoutesOf \subseteq Streams \X PathIds
  /\ \A k \in DOMAIN RoutesOf : RoutesOf[k] \subseteq Routes
ASSUME AbsentIsNoRoute == Absent \notin Routes
ASSUME WindowOrdered ==
  /\ {EventStart, EventEnd, CooldownEnd} \subseteq Nat /\ Times \subseteq Nat \ {0}
  /\ EventStart <= EventEnd /\ EventEnd <= CooldownEnd
ASSUME ViaIsBoolean == \A r \in Routes : Via(r) \in BOOLEAN
ASSUME BoundIsNat == MaxObservations \in Nat

VARIABLES rib,              \* RIB row of a key: FrozenCohort.baseline_instances
          states,           \* RouteStateStore.states
          event_baseline,   \* RouteStateStore.event_baseline
          baseline_frozen,
          changes,          \* emitted StateChanges
          at,               \* position in the sorted observations
          observed,         \* number of observations so far
          warmed            \* history: keys whose route an update before the
                            \* event changed

vars == << rib, states, event_baseline, baseline_frozen, changes, at, observed,
           warmed >>

Keys == Streams \X PathIds
RouteOrNone == Routes \cup {Absent}
Stores == [Keys -> RouteOrNone]

\* observation_key's collector
Collector(k) == CollectorOf[k[1]]

\* sort_deterministic: observations are taken by collector, then by time.
InOrder(k, t) ==
  \/ Collector(k) > at.collector
  \/ Collector(k) = at.collector /\ t >= at.time

MoveTo(k, t) ==
  /\ observed < MaxObservations
  /\ InOrder(k, t)
  /\ at' = [collector |-> Collector(k), time |-> t]
  /\ observed' = observed + 1

\* freeze_cohort, scan_rib_and_freeze: a stream is in the cohort, and its updates
\* are admitted, when one of its RIB instances satisfies the predicate.
Cohort ==
  {s \in Streams : \E i \in PathIds :
     rib[<<s, i>>] # Absent /\ Via(rib[<<s, i>>])}

\* admit_observation looks at the stream alone, never at the route.
Admitted(k) == k[1] \in Cohort

\* AnalysisPhase of an observation that may emit a change.
Phase(t) == IF t <= EventEnd THEN "Event" ELSE "Cooldown"

\* freeze_event_baseline: what is in the store now, of every collector, when
\* the first observation of the event period of any collector comes.
Baseline == IF baseline_frozen THEN event_baseline ELSE states

-----------------------------------------------------------------------------

Init ==
  /\ rib = [k \in Keys |-> Absent]
  /\ states = [k \in Keys |-> Absent]
  /\ event_baseline = [k \in Keys |-> Absent]
  /\ baseline_frozen = FALSE
  /\ changes = << >>
  /\ at = [collector |-> 0, time |-> 0]
  /\ observed = 0
  /\ warmed = {}

\* seed_from_rib: RIB rows come before the updates of their collector.  A later
\* row of a key replaces an earlier one, in the store and in the cohort.
SeedFromRib(k, r) ==
  /\ MoveTo(k, 0)
  /\ rib' = [rib EXCEPT ![k] = r]
  /\ states' = [states EXCEPT ![k] = r]
  /\ UNCHANGED << event_baseline, baseline_frozen, changes, warmed >>

\* An update before the event start is applied silently; r = Absent is a
\* withdrawal.
WarmUp(k, r, t) ==
  /\ t < EventStart
  /\ Admitted(k)
  /\ MoveTo(k, t)
  /\ states' = [states EXCEPT ![k] = r]
  /\ warmed' = IF states[k] = r THEN warmed ELSE warmed \cup {k}
  /\ UNCHANGED << rib, event_baseline, baseline_frozen, changes >>

\* apply_update's StateChange.
Change(k, r, t) ==
  [key |-> k, baseline |-> Baseline[k], before |-> states[k], after |-> r,
   time |-> t, phase |-> Phase(t)]

\* The same with every announcement recorded as a change.
Emitted_duplicates(k, r, t) ==
  IF states[k] = r /\ r = Absent THEN changes ELSE Append(changes, Change(k, r, t))

\* An announcement of what is there, and a withdrawal of what is not, emit
\* nothing.
Emitted(k, r, t) ==
  IF states[k] = r THEN changes ELSE Append(changes, Change(k, r, t))

\* An update between event start and cool-down end.
Apply(k, r, t) ==
  /\ EventStart <= t /\ t <= CooldownEnd
  /\ Admitted(k)
  /\ MoveTo(k, t)
  /\ event_baseline' = Baseline
  /\ baseline_frozen' = TRUE
  /\ states' = [states EXCEPT ![k] = r]
  /\ changes' = Emitted(k, r, t)
  /\ UNCHANGED << rib, warmed >>

\* An update after the cool-down end is ignored, but it freezes the baseline.
PastCooldown(k, t) ==
  /\ CooldownEnd < t
  /\ Admitted(k)
  /\ MoveTo(k, t)
  /\ event_baseline' = Baseline
  /\ baseline_frozen' = TRUE
  /\ UNCHANGED << rib, states, changes, warmed >>

Next ==
  \E k \in DOMAIN RoutesOf :
    \/ \E r \in RoutesOf[k] : SeedFromRib(k, r)
    \/ \E r \in RoutesOf[k] \cup {Absent}, t \in Times : WarmUp(k, r, t)
    \/ \E r \in RoutesOf[k] \cup {Absent}, t \in Times : Apply(k, r, t)
    \/ \E t \in Times : PastCooldown(k, t)

Spec == Init /\ [][Next]_vars

-----------------------------------------------------------------------------
(* Properties                                                              *)

Changes ==
  [key : Keys, baseline : RouteOrNone, before : RouteOrNone, after : RouteOrNone,
   time : Times, phase : {"Event", "Cooldown"}]

\* Every variable keeps its type.
TypeOK ==
  /\ rib \in Stores /\ states \in Stores /\ event_baseline \in Stores
  /\ baseline_frozen \in BOOLEAN
  /\ changes \in Seq(Changes)
  /\ at \in [collector : Nat, time : Nat]
  /\ observed \in 0 .. MaxObservations
  /\ warmed \subseteq Keys

\* No change of the key between the i-th and the j-th change.
Adjacent(k, i, j) == \A m \in (i + 1) .. (j - 1) : changes[m].key # k

\* The emitted changes are the whole story of a route in the window: each starts
\* where the one before it of the same instance ended, and the last ends in the
\* state the store holds (apply_update, whose before and after the lifecycle,
\* the waves and the verdict are computed from).
ChangesChain ==
  \A j \in DOMAIN changes :
    LET k == changes[j].key IN
      /\ changes[j].before # changes[j].after
      /\ Adjacent(k, j, Len(changes) + 1) => changes[j].after = states[k]
      /\ \A i \in 1 .. (j - 1) :
           changes[i].key = k /\ Adjacent(k, i, j) => changes[i].after = changes[j].before

\* A change that no earlier one of its instance precedes.
FirstOfKey(j) == \A i \in 1 .. (j - 1) : changes[i].key # changes[j].key

\* The event baseline a change carries is the route its instance had when the
\* event began, for the collector that comes first.
BaselineIsStart ==
  \A j \in DOMAIN changes :
    /\ FirstOfKey(j) => changes[j].baseline \in {changes[j].before, Absent}
    /\ FirstOfKey(j) /\ (\A s \in Cohort : Collector(changes[j].key) <= CollectorOf[s])
         => changes[j].baseline = changes[j].before
    /\ \A i \in 1 .. (j - 1) :
         changes[i].key = changes[j].key => changes[i].baseline = changes[j].baseline

\* Updates of the event period of a collector have been taken.
Past(c) ==
  c < at.collector \/ (c = at.collector /\ at.time >= EventStart /\ at.time > 0)

\* The store is empty for the collectors still to come, and changes are of
\* collectors whose event period has begun (sort_deterministic).
CollectorsInTurn ==
  /\ \A k \in Keys : Collector(k) > at.collector => states[k] = Absent
  /\ \A j \in DOMAIN changes : Past(Collector(changes[j].key))

\* No change of the instance has been emitted.
Untouched(k) == \A j \in DOMAIN changes : changes[j].key # k

\* Changes carry the frozen baseline.  It was frozen when the event of a stream
\* of the cohort began: it is where the instances of this and of earlier
\* collectors started, and it has nothing of later ones (freeze_event_baseline).
FrozenAtStart ==
  /\ \A j \in DOMAIN changes :
       baseline_frozen /\ changes[j].baseline = event_baseline[changes[j].key]
  /\ baseline_frozen =>
       \E s \in Cohort :
         /\ Past(CollectorOf[s])
         /\ \A k \in Keys :
              /\ Collector(k) <= CollectorOf[s] /\ Untouched(k) => event_baseline[k] = states[k]
              /\ Collector(k) > CollectorOf[s] => event_baseline[k] = Absent

\* The types, the chain of changes, the baseline they carry and what both rest on.
Chained == TypeOK /\ ChangesChain /\ BaselineIsStart /\ CollectorsInTurn /\ FrozenAtStart

\* The changes of a collector were emitted in the order of their times, and none lies
\* ahead (sort_deterministic).
ChangesInOrder ==
  /\ \A j \in DOMAIN changes :
       \/ Collector(changes[j].key) < at.collector
       \/ Collector(changes[j].key) = at.collector /\ changes[j].time <= at.time
  /\ \A i, j \in DOMAIN changes :
       i < j /\ Collector(changes[i].key) = Collector(changes[j].key)
         => changes[i].time <= changes[j].time

\* An instance that no update has changed is as the RIB row left it, and its first
\* change starts there (seed_from_rib).
StartsFromRib ==
  /\ \A k \in Keys \ warmed : Untouched(k) => states[k] = rib[k]
  /\ \A j \in DOMAIN changes :
       FirstOfKey(j) /\ changes[j].key \notin warmed => changes[j].before = rib[changes[j].key]

\* Changes lie in the window, and their phase is that of their time (apply_update).
ChangesInWindow ==
  \A j \in DOMAIN changes :
    /\ EventStart <= changes[j].time /\ changes[j].time <= CooldownEnd
    /\ changes[j].phase = Phase(changes[j].time)

\* What the lifecycle, which replays the changes from the RIB in an order of its own,
\* takes for granted (reconstruct_routes).
Inv == Chained /\ ChangesInOrder /\ StartsFromRib /\ ChangesInWindow

=============================================================================
