--------------------------- MODULE MCPeerTracker ---------------------------
(***************************************************************************)
(* PeerTracker for TLC: three tunnels share a name, so that insertions,    *)
(* removals and sweeps meet in one subtable and its successors; a fourth   *)
(* has a name of its own, so that sweeps visit more than one entry.        *)
(***************************************************************************)
EXTENDS PeerTracker, TLC

CONSTANTS t1, t2, t3, t4, alpha, beta

MCTunnels == {t1, t2, t3, t4}
MCNames == {alpha, beta}
MCNameOf == t1 :> alpha @@ t2 :> alpha @@ t3 :> alpha @@ t4 :> beta
=============================================================================
