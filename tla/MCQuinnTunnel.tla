--------------------------- MODULE MCQuinnTunnel ---------------------------
(***************************************************************************)
(* QuinnTunnel for TLC.                                                    *)
(***************************************************************************)
EXTENDS QuinnTunnel

CONSTANTS c1, c2, o1, a1, r1, r2, l1, l2

\* An error that is converted, and one that is kept.
MCFailures == {"Reset", "TimedOut"}

\* Streams against two calls of close; authentication against one.
MCParties == {{c1, c2, o1, a1}, {c1, r1, r2, l1, l2}}
=============================================================================
