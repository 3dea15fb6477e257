-------------------------- MODULE MCDemandProxy ----------------------------
(* The demand proxy with two clients, and one or two ports. *)
EXTENDS DemandProxy

CONSTANTS t1, t2, any4, any6

MCTasks == {t1, t2}
MCRanges == {{1}, {1, 2}}
\* The list of server_main.
MCBindLists == {<<any6, any4>>}
MCUnspecified == {any4, any6}
=============================================================================
