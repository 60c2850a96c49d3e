-------------------------- MODULE StreamLifecycle --------------------------
(***************************************************************************)
(* What the analysis says of the changes RouteReconstruction emitted: the  *)
(* lifecycle of each stream of the cohort, simulated instance by instance, *)
(* its withdrawal audit, the waves of changes, and the verdict             *)
(* (lifecycle.rs, waves.rs, assess.rs).  They are functions of the emitted *)
(* changes and of the cohort, so every state of RouteReconstruction is an  *)
(* input for them.                                                         *)
(***************************************************************************)
EXTENDS RoutePaths, RouteReconstruction

CONSTANTS Predicate,   \* the reviewed transit predicate
          Second,      \* units of time in a second
          MaxGap       \* seconds between changes of one wave

ASSUME ViaIsPredicate == \A r \in Routes : Via(r) = evaluate(Predicate, r.path)
ASSUME SecondPositive == Second \in Nat \ {0} /\ MaxGap \in Nat

\* No time recorded: None.
Never == -1

\* num_seconds truncates.
Seconds(d) == d \div Second

-----------------------------------------------------------------------------
(* build_lifecycles                                                        *)

\* Order of the changes of a stream: time, then path id, unkeyed first, whatever
\* the order they were observed in; the sort is stable.
Earlier(ts, i, j) ==
  \/ ts[i].time < ts[j].time
  \/ ts[i].time = ts[j].time /\ ts[i].key[2] < ts[j].key[2]
  \/ ts[i].time = ts[j].time /\ ts[i].key[2] = ts[j].key[2] /\ i < j

\* The changes at some positions, in this order.
Ordered(ts, is) ==
  [n \in 1 .. Cardinality(is) |->
     ts[CHOOSE i \in is : Cardinality({j \in is : Earlier(ts, j, i)}) = n - 1]]

Sorted(ts) == Ordered(ts, DOMAIN ts)

StreamChanges(s, ts) == Ordered(ts, {i \in DOMAIN ts : ts[i].key[1] = s})

Visible(active) == \E i \in PathIds : active[i] # Absent

AnyVia(active) == \E i \in PathIds : active[i] # Absent /\ Via(active[i])

BaselineOf(s) == [i \in PathIds |-> rib[<<s, i>>]]

\* The first instance of the baseline, in the order of its keys.
Tagged(r) == r # Absent /\ r.tag

PrincipalTagged(s) ==
  \E i \in PathIds :
    Tagged(rib[<<s, i>>]) /\ \A j \in PathIds : j < i => rib[<<s, j>>] = Absent

\* build_one_lifecycle before its loop: the instances of the RIB are active.
Start(s) ==
  [active |-> BaselineOf(s), absent_since |-> Never, withdrawals |-> 0,
   withdrawn_at |-> Never, via_at_loss |-> FALSE, absences |-> << >>,
   restorations |-> << >>, restored_at |-> Never, history |-> << >>,
   categories |-> {}, first_change |-> Never, baseline_restored |-> FALSE,
   tag |-> PrincipalTagged(s), tag_added_at |-> Never, tag_before_loss |-> FALSE,
   tag_removed |-> FALSE, consequence_at |-> Never]

OrFirst(recorded, holds, time) == IF recorded = Never /\ holds THEN time ELSE recorded

\* classify_restoration: how what came back compares with what was lost since
\* the last absence and with the baseline.
Restoration(s, t, history, active) ==
  LET lost == SelectSeq(history, LAMBDA h : h.key = t.key)
      base == BaselineOf(s)
      same == IF lost # << >> THEN lost[1].route ELSE base[t.key[2]]
      count(a, r) == Cardinality({i \in PathIds : a[i] = r})
  IN [time |-> t.time,
      exact |-> same = t.after,
      equivalent |-> \E i \in PathIds : base[i] = t.after,
      baseline_set |-> \A r \in Routes : count(base, r) = count(active, r)]

\* The same with a withdrawal that takes the whole stream away.
Held_stream(active, t, gone) ==
  IF gone THEN [i \in PathIds |-> Absent] ELSE [active EXCEPT ![t.key[2]] = t.after]

\* The active instances after a change; a withdrawal takes one away.
Held(active, t, gone) == [active EXCEPT ![t.key[2]] = IF gone THEN Absent ELSE t.after]

\* The same with the loss of any instance.
Lost_any(active, gone) == gone

\* The stream is absent when its last instance is withdrawn.
Lost(active, gone) == gone /\ ~Visible(active)

\* The same without the reset.
AbsentSince_kept(c, lost, back, t) == OrFirst(c.absent_since, lost, t.time)

AbsentSince(c, lost, back, t) ==
  IF back THEN Never ELSE OrFirst(c.absent_since, lost, t.time)

\* The shape of a replaced path.
PathShape(t, kind) ==
  IF kind = "PathReplacement" THEN classify_path_change(Predicate, t.before, t.after)
  ELSE "None"

\* What was withdrawn since the last return.
History(c, t, gone) ==
  IF gone /\ t.before # Absent THEN Append(c.history, [key |-> t.key, route |-> t.before])
  ELSE c.history

\* The categories a change adds.
Seen(shape, active) ==
  {cat \in {"PrependOnly"} : shape = "Prepend"}
    \cup {cat \in {"PathChangedStillViaTransit"} : shape = "StillVia"}
    \cup {cat \in {"DepartedTransitPath"} :
            shape = "Departed" \/ (Visible(active) /\ ~AnyVia(active))}

\* The rest of a lifecycle after a change with its kind and shape, which leaves
\* the stream with some active instances.
After(s, c, t, kind, shape, active, history) ==
  LET gone == kind = "Withdrawal"
      lost == Lost(active, gone)
      back == ~Visible(c.active) /\ Visible(active)
      away == Seconds(t.time - c.absent_since)
      hit == c.tag /\ kind \in {"Withdrawal", "PathReplacement"}
  IN [active |-> active,
      absent_since |-> AbsentSince(c, lost, back, t),
      withdrawals |-> IF lost THEN c.withdrawals + 1 ELSE c.withdrawals,
      withdrawn_at |-> IF lost THEN t.time ELSE c.withdrawn_at,
      via_at_loss |-> IF lost THEN Via(t.before) ELSE c.via_at_loss,
      absences |-> IF back /\ c.absent_since # Never /\ away > 0
                   THEN Append(c.absences, away) ELSE c.absences,
      restorations |-> IF back THEN Append(c.restorations, Restoration(s, t, history, active))
                       ELSE c.restorations,
      restored_at |-> OrFirst(c.restored_at, back \/ shape = "Returned", t.time),
      history |-> IF back THEN << >> ELSE history,
      categories |-> c.categories \cup Seen(shape, active),
      first_change |-> OrFirst(c.first_change, t.phase = "Event", t.time),
      baseline_restored |-> c.baseline_restored \/ kind = "ReturnToBaseline",
      tag |-> Tagged(t.after),
      tag_added_at |-> OrFirst(c.tag_added_at, ~Tagged(t.before) /\ Tagged(t.after), t.time),
      tag_before_loss |-> c.tag_before_loss \/ (gone /\ c.tag),
      tag_removed |-> c.tag_removed \/ (Tagged(t.before) /\ ~Tagged(t.after)),
      consequence_at |-> OrFirst(c.consequence_at, hit, t.time)]

\* The loop body of build_one_lifecycle, on one change of some kind.
Step(s, c, t, kind) ==
  After(s, c, t, kind, PathShape(t, kind), Held(c.active, t, kind = "Withdrawal"),
        History(c, t, kind = "Withdrawal"))

\* The loop of build_one_lifecycle.
Simulate(s, ts) ==
  LET run[n \in 0 .. Len(ts)] == IF n = 0 THEN Start(s) ELSE Step(s, run[n - 1], ts[n], Kind(ts[n], Absent))
  IN run[Len(ts)]

\* An absence still open is closed at the cool-down end.
Closed(c) ==
  LET away == Seconds(CooldownEnd - c.absent_since) IN
    IF c.absent_since # Never /\ away > 0 THEN Append(c.absences, away) ELSE c.absences

\* Category precedence.
Category(c) ==
  CASE c.withdrawals > 0 -> "Withdrawn"
    [] c.withdrawals = 0 /\ "DepartedTransitPath" \in c.categories -> "DepartedTransitPath"
    [] OTHER ->
         IF "PathChangedStillViaTransit" \in c.categories THEN "PathChangedStillViaTransit"
         ELSE IF "PrependOnly" \in c.categories THEN "PrependOnly" ELSE "Unchanged"

\* detect_stream_ambiguity: keyed and unkeyed records in one stream.
Ambiguous(s, ts) ==
  LET ids == {i \in PathIds : rib[<<s, i>>] # Absent} \cup {ts[n].key[2] : n \in DOMAIN ts}
  IN 0 \in ids /\ ids # {0}

\* build_one_lifecycle after its loop, from the changes and where the loop ended.
Result(s, ts, c) ==
  LET ended_absent == ~Visible(c.active) /\ c.withdrawals > 0
      ended_departed == /\ Visible(c.active) /\ ~AnyVia(c.active)
                        /\ "DepartedTransitPath" \in c.categories
  IN [stream |-> s, end |-> c, category |-> Category(c),
      was_withdrawn |-> c.withdrawals > 0,
      not_restored |-> ended_absent \/ ended_departed,
      restored |-> Len(c.restorations) > 0 /\ ~(ended_absent \/ ended_departed),
      multiple_cycles |-> c.withdrawals > 1
                            \/ (c.withdrawals > 0 /\ Len(c.restorations) > 1),
      ambiguous |-> Ambiguous(s, ts),
      absences |-> Closed(c),
      affected |-> IF c.first_change = Never THEN Never
                   ELSE Seconds((IF c.restored_at = Never THEN CooldownEnd
                                 ELSE c.restored_at) - c.first_change),
      tag_to_consequence |-> IF c.tag_added_at # Never /\ c.consequence_at >= c.tag_added_at
                             THEN Seconds(c.consequence_at - c.tag_added_at) ELSE Never]

\* build_one_lifecycle
build_one_lifecycle(s, ts) == Result(s, ts, Simulate(s, ts))

Lifecycle(s, all) == build_one_lifecycle(s, StreamChanges(s, all))

\* build_lifecycles: one for each stream of the cohort; only those have changes.
Lifecycles(all) == {Lifecycle(s, all) : s \in Cohort}

-----------------------------------------------------------------------------
(* withdrawal_audit                                                        *)

\* Between the last loss and the first restoration, never below zero.
RestorationSeconds(c) ==
  IF c.restored_at = Never THEN Never
  ELSE IF c.restored_at < c.withdrawn_at THEN 0
       ELSE Seconds(c.restored_at - c.withdrawn_at)

\* One row for each withdrawn stream: the last time it became absent, the first
\* time anything was restored, and the time between.
AuditRow(lc) ==
  LET c == lc.end IN
    [stream |-> lc.stream, withdrawn_at |-> c.withdrawn_at, restored_at |-> c.restored_at,
     away |-> RestorationSeconds(c),
     exact |-> c.restorations # << >> /\ c.restorations[1].exact,
     baseline_set |-> c.restorations # << >> /\ c.restorations[1].baseline_set]

withdrawal_audit(lcs) == {AuditRow(lc) : lc \in {l \in lcs : l.was_withdrawn}}

\* WithdrawalAuditSummary::from_records
AuditSummary(rows) ==
  [withdrawn |-> Cardinality(rows),
   restored |-> Cardinality({r \in rows : r.restored_at # Never}),
   unresolved |-> Cardinality({r \in rows : r.restored_at = Never}),
   longest |-> LET known == {r.away : r \in rows} \ {Never} IN
                 IF known = {} THEN Never ELSE Max(known)]

-----------------------------------------------------------------------------
(* Waves                                                                   *)

\* The time between a change of a sorted sequence and the next.
Gap(ts, n) == ts[n + 1].time - ts[n].time

\* The positions of a sequence that have a next one.
Inner(ts) == 1 .. (Len(ts) - 1)

\* The waves as sets of consecutive positions, from the cuts between them.
Split(ts, cuts) ==
  {{n \in DOMAIN ts : a <= n /\ n <= b /\ \A x \in cuts : x < a \/ x >= b} :
     a \in {x + 1 : x \in cuts \cup {0}}, b \in cuts \cup {Len(ts)}} \ {{}}

\* detect_waves: a gap above the limit, to the fraction, starts a new wave.
ImpactOrder(all) == Sorted(all)

detect_waves(all) ==
  LET ts == ImpactOrder(all) IN
    {{ts[n] : n \in w} : w \in Split(ts, {n \in Inner(ts) : Gap(ts, n) > MaxGap * Second})}

\* The same with a wave that ends at a gap of exactly the limit.
derive_semantic_waves_closed(all) ==
  LET ts == Ordered(all, {i \in DOMAIN all : all[i].phase = "Event"}) IN
    {{ts[n] : n \in w} : w \in Split(ts, {n \in Inner(ts) : Seconds(Gap(ts, n)) >= MaxGap})}

\* derive_semantic_waves: changes of the event only, gaps in whole seconds.
derive_semantic_waves(all) ==
  LET ts == Ordered(all, {i \in DOMAIN all : all[i].phase = "Event"}) IN
    {{ts[n] : n \in w} : w \in Split(ts, {n \in Inner(ts) : Seconds(Gap(ts, n)) > MaxGap})}

\* build_semantic_wave: what each change of a wave counts for.
Labels(t) ==
  LET kind == Kind(t, Absent) IN
    (IF t.before # Absent /\ t.after # Absent
     THEN {l \in {"PrependReduction"} : prepend(t) = "Reduced"}
            \cup {l \in {"PrependIncrease"} : prepend(t) = "Increased"}
     ELSE {})
    \cup {l \in {"TransitDeparture"} :
             t.after # Absent /\ t.before # Absent /\ Via(t.before) /\ ~Via(t.after)}
    \cup {l \in {"TransitReturn"} :
             t.after # Absent /\ Via(t.after) /\ (t.before = Absent \/ ~Via(t.before))}
    \cup {l \in {"StreamWithdrawal"} : kind = "Withdrawal"}
    \cup {l \in {"BaselinePolicyRestoration"} : kind = "ReturnToBaseline"}

\* The label of a wave: the most frequent one, none when two are.
WaveLabel(wave) ==
  LET used == UNION {Labels(t) : t \in wave}
      count(l) == Cardinality({t \in wave : l \in Labels(t)})
      top == {l \in used : \A m \in used : count(m) <= count(l)}
  IN IF Cardinality(top) = 1 THEN CHOOSE l \in top : TRUE ELSE "MixedRouteChange"

-----------------------------------------------------------------------------
(* derive_verdict                                                          *)

Expectations == {"Redundant", "NonRedundant", "ParticipantRelationshipUnavailable",
                 "PeerRelationshipUnavailable", "Unknown"}

\* The same for the streams without ambiguity, whatever the others show.
Suppressed_never(lcs, strong, verdict) == verdict

\* With ambiguous streams there is no verdict without an impact.
Suppressed(lcs, strong, verdict) ==
  IF strong # lcs /\ verdict \in {"UnexpectedContinuedInternet2Path", "PolicyChangeObserved"}
  THEN "InsufficientVisibility" ELSE verdict

\* The set-based rules for a participant, on the streams without ambiguity.
ParticipantVerdict(lcs) ==
  LET strong == {l \in lcs : ~l.ambiguous}
      withdrawn == {l \in strong : l.was_withdrawn}
      departed == {l \in strong : l.category = "DepartedTransitPath"}
      quiet == \A l \in strong : l.category \in {"Unchanged", "PrependOnly"}
      verdict ==
        IF quiet THEN "PolicyChangeObserved"
        ELSE IF departed # {} /\ withdrawn = {} THEN "ExpectedAlternateRouting"
        ELSE IF withdrawn \cup departed = strong THEN "ExpectedParticipantUnavailability"
        ELSE IF withdrawn \cup departed # {} THEN "PartialImpact"
        ELSE "UnexpectedContinuedInternet2Path"
  IN CASE lcs = {} -> "UnexpectedContinuedInternet2Path"
       [] lcs # {} /\ strong = {} -> "InsufficientVisibility"
       [] OTHER -> Suppressed(lcs, strong, verdict)

\* gap: an update archive is missing (validate_update_gaps).
derive_verdict(expectation, all, gap) ==
  LET kinds == {Kind(all[n], Absent) : n \in DOMAIN all}
      lost == "Withdrawal" \in kinds
      moved == "PathReplacement" \in kinds
  IN IF gap THEN "InsufficientVisibility"
     ELSE IF all = << >> THEN
       CASE expectation \in {"ParticipantRelationshipUnavailable",
                             "PeerRelationshipUnavailable"} -> "UnexpectedContinuedInternet2Path"
         [] expectation = "NonRedundant" -> "LessImpactThanExpected"
         [] OTHER -> "NoObservableBgpImpact"
     ELSE
       CASE expectation = "Redundant" ->
              IF lost THEN "RedundancyFailureObserved"
              ELSE IF moved THEN "ExpectedRedundantImpact" ELSE "NoObservableBgpImpact"
         [] expectation = "NonRedundant" ->
              IF lost THEN "ExpectedLossOfReachability" ELSE "LessImpactThanExpected"
         [] expectation = "ParticipantRelationshipUnavailable" ->
              ParticipantVerdict(Lifecycles(all))
         [] expectation = "PeerRelationshipUnavailable" ->
              IF lost THEN "ExpectedParticipantUnavailability"
              ELSE IF moved THEN "ExpectedAlternateRouting"
              ELSE "UnexpectedContinuedInternet2Path"
         [] expectation = "Unknown" -> "Indeterminate"

-----------------------------------------------------------------------------
(* Properties                                                              *)

\* The route an instance had after the first n changes, in the order they were
\* observed.
RouteAfter(k, n) ==
  LET past == {j \in 1 .. n : changes[j].key = k} IN
    IF past = {} THEN rib[k] ELSE changes[Max(past)].after

ActiveAfter(s, n) == [i \in PathIds |-> RouteAfter(<<s, i>>, n)]

Moments == 0 .. Len(changes)

\* No update before the event touched the stream.
Quiet(s) == \A i \in PathIds : <<s, i>> \notin warmed

\* The moment does not fall between changes of two instances of the stream that
\* have the same time: the replay may take those in another order.
Settled(s, n) ==
  \A i, j \in DOMAIN changes :
    /\ i <= n /\ n < j
    /\ changes[i].key[1] = s /\ changes[j].key[1] = s
    /\ changes[i].time = changes[j].time
    => changes[i].key = changes[j].key

\* Every moment is settled: no two instances changed at the same time.
Untied(s) ==
  \A m, n \in DOMAIN changes :
    /\ changes[m].key[1] = s /\ changes[n].key[1] = s
    /\ changes[m].time = changes[n].time
    => changes[m].key = changes[n].key

\* The simulation ends where the store does: what the lifecycle calls active is
\* what was reconstructed, although it replays the changes in another order and
\* starts from the RIB (build_one_lifecycle against reconstruct_routes).
EndsLikeTheStore ==
  \A lc \in Lifecycles(changes) : Quiet(lc.stream) =>
    lc.end.active = [i \in PathIds |-> states[<<lc.stream, i>>]]

\* "Stream absence requires the loss of the FINAL instance": a stream of which no
\* instance was there at a settled moment is called withdrawn, and one of which none
\* matched is called withdrawn or departed, whatever changes were tied before and
\* after it.  The other way round only for a stream without ties, since within one
\* instant the replay may pass through an absence nobody observed; but time is
\* counted as absence only if the stream was really away (build_one_lifecycle).
WithdrawnMeansAbsent ==
  \A lc \in Lifecycles(changes) :
    LET s == lc.stream
        settled == {n \in Moments : Settled(s, n)}
    IN Quiet(s) =>
        /\ (\E n \in settled : ~Visible(ActiveAfter(s, n))) => lc.was_withdrawn
        /\ (\E n \in settled : ~AnyVia(ActiveAfter(s, n)))
             => lc.category \in {"Withdrawn", "DepartedTransitPath"}
        /\ lc.was_withdrawn /\ Untied(s) => \E n \in Moments : ~Visible(ActiveAfter(s, n))
        /\ lc.absences # << >> => \E n \in settled : ~Visible(ActiveAfter(s, n))

\* The stream was lost once and came back, and its audit row gives the time of
\* that return, not of an earlier return to the transit.
LostOnce(lc) ==
  /\ lc.end.withdrawals = 1 /\ lc.end.restorations # << >>
  /\ AuditRow(lc).restored_at = lc.end.restorations[1].time

\* The sum of a sequence.
Total(q) ==
  LET sum[n \in 0 .. Len(q)] == IF n = 0 THEN 0 ELSE sum[n - 1] + q[n] IN sum[Len(q)]

\* Losses and returns of a stream alternate, and the intervals of absence are
\* positive, at most one for each loss, and fit into the window together, also
\* when changes of several instances fall into one instant; the audit gives the
\* same length for a single absence (withdrawal_audit against build_one_lifecycle).
AbsencesAddUp ==
  \A lc \in Lifecycles(changes) : Quiet(lc.stream) =>
    /\ lc.end.withdrawals
         = Len(lc.end.restorations) + (IF Visible(lc.end.active) THEN 0 ELSE 1)
    /\ Len(lc.absences) <= lc.end.withdrawals
    /\ \A n \in DOMAIN lc.absences : lc.absences[n] > 0
    /\ Total(lc.absences) <= Seconds(CooldownEnd - EventStart)
    /\ LostOnce(lc) => lc.absences = (IF AuditRow(lc).away = 0 THEN << >>
                                      ELSE << AuditRow(lc).away >>)

\* A verdict that reports no impact on a participant's relationship is given only
\* when every stream had a route through the reviewed transit at every settled
\* moment of the event and of the cool-down, both of which the verdict reads, and
\* the streams it sets aside as ambiguous are no exception (derive_verdict).
NoImpactMeansVia ==
  LET verdict == derive_verdict("ParticipantRelationshipUnavailable", changes, FALSE) IN
    verdict \in {"UnexpectedContinuedInternet2Path", "PolicyChangeObserved"}
    => \A s \in Cohort : Quiet(s) =>
         \A n \in Moments : Settled(s, n) => AnyVia(ActiveAfter(s, n))

\* "Cooldown observations never change the event-window verdict": with the changes
\* of the event alone the verdict is the same (derive_verdict).  Not so, for one, when
\* a stream is withdrawn in the cool-down only.
CooldownLeavesVerdict ==
  \A e \in Expectations :
    derive_verdict(e, changes, FALSE)
      = derive_verdict(e, SelectSeq(changes, LAMBDA t : t.phase = "Event"), FALSE)

\* The waves of waves.rs and those of lifecycle.rs are cut independently, one with
\* gaps to the fraction of a second and one in whole seconds: what the first puts
\* into one wave, the second does too, and neither loses or repeats a change.
WavesRefine ==
  LET events == {changes[n] : n \in {m \in DOMAIN changes : changes[m].phase = "Event"}}
      semantic == derive_semantic_waves(changes)
      impact == detect_waves(changes)
  IN /\ UNION semantic = events
     /\ \A v, w \in semantic : v # w => v \cap w = {}
     /\ UNION impact = {changes[n] : n \in DOMAIN changes}
     /\ \A v \in impact : v \cap events = {} \/ \E w \in semantic : v \cap events \subseteq w

=============================================================================
