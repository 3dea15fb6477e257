------------------------------ MODULE MCDaemon -----------------------------
(***************************************************************************)
(* Daemon for TLC: tunnels that share a name, the case in which their      *)
(* lifecycles meet in the peer tables and in the registry.                 *)
(***************************************************************************)
EXTENDS Daemon, TLC

CONSTANT alpha

MCNames == {alpha}
MCNameOf == [t \in Tunnels |-> alpha]
MCSymmetry == Permutations(Tunnels)
=============================================================================
