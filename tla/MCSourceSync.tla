---------------------------- MODULE MCSourceSync ----------------------------
(***************************************************************************)
(* Small instances of SourceSync.  Of the two contents, c2 names ticket t2 *)
(* and c1 names none; at first the source serves c2 for t1 alone.          *)
(***************************************************************************)
EXTENDS SourceSync, TLC

CONSTANTS t1, t2, c1, c2

MCRefers == (c1 :> {}) @@ (c2 :> {t2})

MCServed == [t \in Tickets |-> IF t = t1 THEN c2 ELSE c1]

=============================================================================
