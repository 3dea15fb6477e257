-------------------------- MODULE MCCachedRegistry -------------------------
(***************************************************************************)
(* CachedRegistry for TLC: two origins take a name over from each other;   *)
(* one of them also deregisters the name, or looks it up.                  *)
(***************************************************************************)
EXTENDS CachedRegistry

CONSTANTS o1, o2, r1, r2

MCOrigins == {o1, o2}
MCRids == {r1, r2}
MCOriginOf == [r \in MCRids |-> IF r = r1 THEN o1 ELSE o2]

\* Renewal and deregistration under losses; the cache; and the cache with a
\* record that the registry behind it refuses.
MCSetups == {[cleaners |-> {o1}, caching |-> {}, mapped |-> MCRids, getdel |-> FALSE, losses |-> 1],
             [cleaners |-> {}, caching |-> {o1}, mapped |-> MCRids, getdel |-> TRUE, losses |-> 0],
             [cleaners |-> {o1}, caching |-> {o1}, mapped |-> {r2}, getdel |-> TRUE, losses |-> 0]}

MCForeignSetups ==
    {[cleaners |-> {o1}, caching |-> {}, mapped |-> MCRids, getdel |-> TRUE, losses |-> 0]}
=============================================================================
