--------------------------- MODULE MCTicketGraph ---------------------------
(* A small instance of TicketGraph.                                        *)
EXTENDS TicketGraph

CONSTANT References

\* Two windows that overlap.
MCWindows == {<<1, 3>>, <<2, 4>>}

\* Texts that refer to both tickets, one of them being the ticket itself, or to
\* none, with either window or without one.
MCContents ==
  {[refs |-> {<<1, References>>, <<2, References>>}, window |-> None],
   [refs |-> {<<1, References>>, <<2, References>>}, window |-> <<1, 3>>],
   [refs |-> {}, window |-> <<2, 4>>]}
=============================================================================
