----------------------------- MODULE RoutePaths -----------------------------
(***************************************************************************)
(* What two AS paths have to do with each other: prepending, the reviewed  *)
(* transit predicate, and the kind of a change (domain/route.rs,           *)
(* tokenize.rs, and the path part of lifecycle.rs).  A route is a record   *)
(* of its AS path, its GRACEFUL_SHUTDOWN tag and one more attribute that   *)
(* stands for those that are only compared.                                *)
(***************************************************************************)
EXTENDS Integers, Sequences, SequencesExt

\* TransitPredicate::evaluate
evaluate(predicate, path) ==
  CASE predicate.kind = "ContainsAny" -> \E a \in predicate.asns : Contains(path, a)
    [] predicate.kind = "ContainsAll" -> \A a \in predicate.asns : Contains(path, a)
    [] predicate.kind = "Adjacent" ->
         \E i \in 1 .. (Len(path) - 1) : {path[i], path[i + 1]} = predicate.asns

\* collapse_as_path: of a run of one ASN only the first stays.
collapse_as_path(path) ==
  LET first == {i \in DOMAIN path : i = 1 \/ path[i] # path[i - 1]} IN
    [n \in 1 .. Cardinality(first) |->
       path[CHOOSE i \in first : Cardinality({j \in first : j <= i}) = n]]

\* collapsed_equivalent
collapsed_equivalent(a, b) == collapse_as_path(a) = collapse_as_path(b)

\* diff_states and tokenize: the kind of a change.  An announcement without an
\* AS path is taken for a withdrawal when a route was there before it.
Kind(t, absent) ==
  CASE t.after = absent -> "Withdrawal"
    [] t.after # absent /\ t.before = absent -> "Announcement"
    [] OTHER ->
         CASE t.after.path = << >> -> "Withdrawal"
           [] t.after.path # << >> /\ t.after.path = t.before.path -> "AttributeChange"
           [] OTHER -> IF t.baseline # absent /\ t.after.path = t.baseline.path
                       THEN "ReturnToBaseline" ELSE "PathReplacement"

\* GenericTransitionEffects.prepend
prepend(t) ==
  IF t.before.path = t.after.path \/ ~collapsed_equivalent(t.before.path, t.after.path)
  THEN "None"
  ELSE IF Len(t.before.path) > Len(t.after.path) THEN "Reduced" ELSE "Increased"

\* PathChangeShape by whether the two paths satisfy the predicate.
TransitShape(from_has, to_has) ==
  CASE from_has /\ to_has -> "StillVia"
    [] from_has /\ ~to_has -> "Departed"
    [] ~from_has /\ to_has -> "Returned"
    [] OTHER -> "Generic"

\* classify_path_change, of a change whose path is replaced
classify_path_change(predicate, from, to) ==
  IF collapsed_equivalent(from.path, to.path) THEN "Prepend"
  ELSE TransitShape(evaluate(predicate, from.path), evaluate(predicate, to.path))

=============================================================================
