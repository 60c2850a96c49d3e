---------------------------- MODULE MCWorkbench ----------------------------
(* Small instances of Workbench, and of StreamLifecycle with it.           *)
EXTENDS Workbench

Route(p, g) == [path |-> p, tag |-> g]

\* AS 1 is the transit under review, AS 9 the origin.
MCPredicate == [kind |-> "ContainsAny", asns |-> {1}]

MCVia(r) == evaluate(MCPredicate, r.path)

\* Through the transit, the same with a prepend, and around it.
Direct == Route(<<1, 9>>, FALSE)
Prepended == Route(<<1, 9, 9>>, FALSE)
Around == Route(<<2, 9>>, FALSE)

ThreeRoutes == {Direct, Prepended, Around}

\* Two prefixes of one session, the first with two route instances, the second with
\* an instance under a path id and one without (id 0).
OneCollector == << 1, 1 >>
OneSession == << "peer", "peer" >>
FourInstances ==
  (<<1, 1>> :> ThreeRoutes) @@ (<<1, 2>> :> {Direct})
    @@ (<<2, 0>> :> {Direct}) @@ (<<2, 1>> :> {Around})
=============================================================================
