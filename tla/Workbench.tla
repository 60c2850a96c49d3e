----------------------------- MODULE Workbench -----------------------------
(***************************************************************************)
(* What the workbench tells an operator about a run: the stream summaries  *)
(* that are imported from its lifecycles (import.rs), the episodes they    *)
(* are grouped into, and the routing findings, each a route story of a set *)
(* of prefixes (catalog/workbench.rs).  These are functions of the         *)
(* lifecycles, so every state of RouteReconstruction is an input for them. *)
(*                                                                         *)
(* A stream stands for its prefix.  Paths are compared and never shown, an *)
(* empty one stands for none.  Names of peers, plane labels, identifiers   *)
(* and sentences are left out, and so are the times of restoration.        *)
(***************************************************************************)
EXTENDS StreamLifecycle

CONSTANT SessionOf   \* the (collector, peer) of a stream

ASSUME StreamsHaveSessions == DOMAIN SessionOf = Streams

PathOf(r) == IF r = Absent THEN << >> ELSE r.path

\* The transitions of lifecycle.json, by their positions: those of the event.  The ones of the
\* cool-down are kept in a list of their own, which nothing here reads.
EventChanges(s, all) == {i \in DOMAIN all : all[i].key[1] = s /\ all[i].phase = "Event"}

Transition(t) ==
  [time |-> t.time, kind |-> Kind(t, Absent), before |-> PathOf(t.before),
   after |-> PathOf(t.after)]

AsTransitions(ts) == [n \in DOMAIN ts |-> Transition(ts[n])]

Transitions(s, all) == AsTransitions(Ordered(all, EventChanges(s, all)))

\* import_stream_summaries: the category is stored as the transit state too.
Summary(lc, count) ==
  [stream |-> lc.stream, category |-> lc.category, transit_state |-> lc.category,
   transition_count |-> count, withdrawn |-> lc.was_withdrawn,
   restored |-> lc.restored, ambiguous |-> lc.ambiguous,
   restoration_time |-> lc.end.restored_at]

Summaries(all) ==
  {Summary(lc, Cardinality(EventChanges(lc.stream, all))) : lc \in Lifecycles(all)}

-----------------------------------------------------------------------------
(* Episodes                                                                *)

\* stream_effect_kind
stream_effect_kind(m) ==
  CASE m.withdrawn -> IF m.restored THEN "TemporaryStreamAbsence" ELSE "RouteWithdrawal"
    [] ~m.withdrawn /\ m.transit_state \in {"departed", "left"} -> "NamedPlaneDeparture"
    [] ~m.withdrawn /\ m.transit_state = "returned" -> "NamedPlaneReturn"
    [] OTHER ->
         IF m.category = "PrependOnly" THEN "PrependChange"
         ELSE IF m.category \in {"PathChangedStillViaTransit", "GenericPathChange"}
                   \/ m.transition_count > 0
              THEN "PathReplacement" ELSE "NoRouteStateChange"

IsChanged(m) == m.transition_count > 0 \/ m.withdrawn \/ m.category # "Unchanged"

\* The same with one restored stream speaking for all.
derive_end_state_any(kind, members) ==
  LET changed == {m \in members : IsChanged(m)}
      back == {m \in changed : m.restoration_time # Never}
  IN CASE kind = "NoRouteStateChange" \/ changed = {} -> "NoRouteStateChange"
       [] OTHER ->
            IF \E m \in members : m.ambiguous THEN "Unresolved"
            ELSE IF back # {} THEN "VisibilityRestored" ELSE "AbsentAtWindowEnd"

\* derive_end_state
derive_end_state(kind, members) ==
  LET changed == {m \in members : IsChanged(m)}
      back == {m \in changed : m.restoration_time # Never}
      absence == kind \in {"TemporaryStreamAbsence", "RouteWithdrawal"}
  IN CASE kind = "NoRouteStateChange" \/ changed = {} -> "NoRouteStateChange"
       [] OTHER ->
            IF \E m \in members : m.ambiguous THEN "Unresolved"
            ELSE IF back = changed
                 THEN IF absence THEN "VisibilityRestored" ELSE "BaselineRestored"
            ELSE IF absence /\ back = {} /\ \E m \in members : m.withdrawn /\ ~m.restored
                 THEN "AbsentAtWindowEnd" ELSE "StillChangedAtWindowEnd"

\* build_episodes: the streams of a session with one kind of effect.
Episode(session, kind, members) ==
  [session |-> session, kind |-> kind, members |-> members,
   end_state |-> derive_end_state(kind, members)]

\* Streams of one session with one kind of effect.
Together(m, n) ==
  /\ SessionOf[n.stream] = SessionOf[m.stream]
  /\ stream_effect_kind(n) = stream_effect_kind(m)

build_episodes(summaries) ==
  {Episode(SessionOf[m.stream], stream_effect_kind(m), {n \in summaries : Together(m, n)}) :
     m \in summaries}

Episodes(all) == build_episodes(Summaries(all))

-----------------------------------------------------------------------------
(* Findings                                                                *)

\* The baseline path of a lifecycle is that of its first RIB instance.
FirstInstance(s) ==
  LET there == {i \in PathIds : rib[<<s, i>>] # Absent} IN rib[<<s, Min(there)>>].path

\* The first, or the last, of the paths at some positions, or another one.
FirstPath(ts, at_, else) == IF at_ = {} THEN else ELSE ts[Min(at_)]
LastPath(ts, at_, else) == IF at_ = {} THEN else ELSE ts[Max(at_)]

Befores(ts) == [n \in DOMAIN ts |-> ts[n].before]
Afters(ts) == [n \in DOMAIN ts |-> ts[n].after]
NonEmpty(paths) == {n \in DOMAIN paths : paths[n] # << >>}

\* LifecyclePathIndex::load: the path present before the first change is the
\* baseline, the first other one the changed path.
BaselinePath(s, ts) ==
  IF ts # << >> /\ ts[1].before # << >> THEN ts[1].before ELSE FirstInstance(s)

Record(s, ts, baseline) ==
  LET seen == NonEmpty(Afters(ts)) IN
    [stream |-> s, transitions |-> ts, baseline |-> baseline,
     changed |-> FirstPath(Afters(ts), {n \in seen : ts[n].after # baseline}, << >>),
     final |-> LastPath(Afters(ts), seen, << >>)]

EvidenceOf(s, ts) == Record(s, ts, BaselinePath(s, ts))

Evidence(s, all) == EvidenceOf(s, Transitions(s, all))

\* The same by the baseline alone.
Partitions_baseline(records) ==
  {{r \in records : r.baseline = q.baseline} : q \in records}

\* Streams of another baseline or another first change never share a finding.
Partitions(records) ==
  {{r \in records : r.baseline = q.baseline /\ r.changed = q.changed} : q \in records}

IsLoss(t) == t.kind = "Withdrawal" \/ (t.after = << >> /\ t.before # << >>)

\* Position of the first withdrawal of a record, 0 when it has none.
FirstLoss(r) ==
  LET losses == {n \in DOMAIN r.transitions : IsLoss(r.transitions[n])} IN
    IF losses = {} THEN 0 ELSE Min(losses)

\* What came before the withdrawal, without its times.
Shape(r) ==
  [n \in 1 .. (FirstLoss(r) - 1) |->
     LET t == r.transitions[n] IN [kind |-> t.kind, before |-> t.before, after |-> t.after]]

Shapes(part) == {Shape(r) : r \in {q \in part : FirstLoss(q) # 0}}

\* pre_shape is Some: the records with a withdrawal have the same changes of a
\* visible path before it, which may be none at all.
Splits(part) ==
  \E shape \in Shapes(part) :
    /\ Shapes(part) = {shape}
    /\ \A n \in DOMAIN shape : shape[n].before # << >> /\ shape[n].after # << >>

\* diff_paths, when it shows a change of occurrences alone
OnlyCounts(before, after) ==
  /\ ToSet(before) = ToSet(after)
  /\ \E a \in ToSet(after) : Len(SelectSeq(before, LAMBDA x : x = a))
                               # Len(SelectSeq(after, LAMBDA x : x = a))

\* project: the evidence of a record from some of its transitions.
project(r, selected) ==
  [stream |-> r.stream, transitions |-> selected,
   baseline |-> FirstPath(Befores(selected), NonEmpty(Befores(selected)), r.baseline),
   changed |-> FirstPath(Afters(selected), NonEmpty(Afters(selected)), r.changed),
   final |-> LastPath(Afters(selected), NonEmpty(Afters(selected)), r.final)]

\* The same from behind the withdrawal.
From_behind(r, n) == SubSeq(r.transitions, n + 1, Len(r.transitions))

From(r, n) == SubSeq(r.transitions, n, Len(r.transitions))
Until(r, n) == SubSeq(r.transitions, 1, n - 1)

\* The visible changes before the withdrawal, as a finding of their own.
BeforeFinding(part) ==
  LET shape == CHOOSE x \in Shapes(part) : TRUE
      records == {project(r, Until(r, FirstLoss(r))) : r \in part}
  IN [role |-> "before", records |-> records,
      kind |-> IF shape # << >> /\ OnlyCounts(shape[1].before, shape[1].after)
               THEN "PrependChange" ELSE "PathReplacement",
      end_state |-> IF \A r \in records : r.final = r.baseline
                    THEN "BaselineRestored" ELSE "StillChangedAtWindowEnd"]

\* build_findings, of one partition of an episode.
FindingsOf(e, part) ==
  IF Splits(part)
  THEN {BeforeFinding(part),
        [role |-> "absence", kind |-> e.kind, end_state |-> e.end_state,
         records |-> {project(r, From(r, FirstLoss(r))) : r \in part}]}
  ELSE {[role |-> "whole", kind |-> e.kind, end_state |-> e.end_state, records |-> part]}

PartitionsOf(e, all) == Partitions({Evidence(m.stream, all) : m \in e.members})

ChangedEpisodes(all) == {e \in Episodes(all) : e.kind # "NoRouteStateChange"}

\* expect("withdrawal present in the split branch") fails, and with it the page.
Panics(e, all) ==
  \E part \in PartitionsOf(e, all) : Splits(part) /\ \E r \in part : FirstLoss(r) = 0

build_findings(e, all) == UNION {FindingsOf(e, part) : part \in PartitionsOf(e, all)}

-----------------------------------------------------------------------------
(* Properties                                                              *)

\* The stream was lost once, and the time of restoration on record is not that of
\* a return to the transit before it.
SimpleLoss(s) ==
  \A lc \in {Lifecycle(s, changes)} :
    /\ lc.end.withdrawals = 1
    /\ lc.end.restored_at = Never <=> lc.end.restorations = << >>

\* "Withdrawn streams were still absent", "returned to visibility": the end state
\* of an episode of absence is where the reconstruction stands at the end, for all
\* its prefixes together, although it is derived from counts of restoration times
\* (derive_end_state against the route state).
EndStatesAgree ==
  \A e \in Episodes(changes) :
    LET streams == {m.stream : m \in e.members}
        there == {s \in streams : \E i \in PathIds : states[<<s, i>>] # Absent}
    IN /\ e.kind \in {"TemporaryStreamAbsence", "RouteWithdrawal"}
       /\ \A m \in e.members : ~m.ambiguous
       /\ \A s \in streams : Quiet(s) /\ SimpleLoss(s)
       => e.end_state = (IF there = streams THEN "VisibilityRestored"
                         ELSE IF there = {} THEN "AbsentAtWindowEnd"
                         ELSE "StillChangedAtWindowEnd")

\* Every transition of every changed stream is told by one finding and by no other:
\* the split of an episode at the withdrawal neither loses nor repeats evidence.
ToldOnce ==
  \A e \in ChangedEpisodes(changes) :
    LET findings == build_findings(e, changes) IN
      ~Panics(e, changes) =>
        \A m \in e.members :
          LET told == UNION {{[role |-> f.role, ts |-> r.transitions] :
                                r \in {q \in f.records : q.stream = m.stream}} : f \in findings}
              evidence == Transitions(m.stream, changes)
          IN \/ told = {[role |-> "whole", ts |-> evidence]}
             \/ \E x, y \in told :
                  /\ told = {x, y} /\ x.role = "before" /\ y.role = "absence"
                  /\ x.ts \o y.ts = evidence

\* The stream has never had more than one route instance.
SingleInstance(s) == \A j, k \in DOMAIN RoutesOf : j[1] = s /\ k[1] = s => j = k

\* "a finding's route story must be true for every prefix": the prefixes of a
\* finding had the same route before it and, unless it is the absence half of a
\* split, the same first route after it.
StoryIsShared ==
  \A e \in ChangedEpisodes(changes) :
    ~Panics(e, changes) =>
      \A f \in build_findings(e, changes) : \A r, q \in f.records :
        \/ /\ r.baseline = q.baseline
           /\ f.role # "absence" => r.changed = q.changed
        \/ f.role = "absence" /\ ~(SingleInstance(r.stream) /\ SingleInstance(q.stream))

\* "withdrawal present in the split branch"
SplitHasWithdrawal == \A e \in ChangedEpisodes(changes) : ~Panics(e, changes)

=============================================================================
