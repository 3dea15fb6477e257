-------------------------- MODULE MCTunnelSources --------------------------
(* TunnelSources for TLC; the model values are given by the configurations. *)
EXTENDS TunnelSources
=============================================================================
