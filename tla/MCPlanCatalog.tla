--------------------------- MODULE MCPlanCatalog ---------------------------
(* Small instances of PlanCatalog.  ASN 66 is outside the project scope.   *)
EXTENDS PlanCatalog

Manifest(t, rev, origins, ready, detail) ==
  [ticket |-> t, rev |-> rev, origins |-> origins, ready |-> ready, detail |-> detail]

\* The first ticket is revised without a new number, or gets the origins that may
\* be entered in the form; the second has no origins, an open event without
\* provenance of its cutoff, or is out of scope.
MCManifests ==
  {Manifest(1, 1, {10}, TRUE, "a"), Manifest(1, 1, {10}, TRUE, "b"),
   Manifest(1, 1, {30}, TRUE, "a"),
   Manifest(2, 1, {}, TRUE, "a"), Manifest(2, 1, {20}, FALSE, "open"),
   Manifest(2, 1, {66}, TRUE, "a")}

MCOutOfScope(m) == 66 \in m.origins

\* Manifest::load refuses a manifest without origins, the import an open event
\* without provenance.
MCImportable(m) == m.origins # {} /\ m.detail # "open"

\* Another window, free-form origins.
MCForms ==
  {[origins |-> Keep, detail |-> "b"], [origins |-> {30}, detail |-> Keep]}

\* An analysis of the first ticket, and the same with other contents and another file, in a schema
\* that is supported or not.
Output(files, schema) ==
  [ticket |-> 1, at |-> << "out", 1 >>, files |-> files, schema |-> schema]

MCOutputs == {Output(<< 1 >>, 3), Output(<< 2, 1 >>, 3), Output(<< 1 >>, 1)}

MCSupported(o) == o.schema \in 2 .. 3
=============================================================================
