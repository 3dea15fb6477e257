--------------------------- MODULE PeerDirectory ---------------------------
(***************************************************************************)
(* What the daemon's peer tracker promises to the readers of a PeersView:  *)
(* two plain indexes of tunnels, one by id and one by name, in which every *)
(* tunnel is entered once and removed once, by its own steps only.         *)
(*                                                                         *)
(* Nothing here knows of subtables, of their sharing between threads or of *)
(* the sweep that drops the empty ones; PeerTracker.tla models those, and  *)
(* is shown to implement this specification.                               *)
(***************************************************************************)
CONSTANTS
    Tunnels,    \* tunnel ids, never reused (tunnel/id.rs generators)
    Names,      \* tunnel names; any number of tunnels may share one
    NameOf      \* the name each tunnel receives from its authentication

VARIABLES
    ids,        \* the index by id: a set of tunnels
    named,      \* the index by name: a set of tunnels for each name
    stage       \* how far each tunnel has come

dirVars == <<ids, named, stage>>

Init ==
    /\ ids = {}
    /\ named = [n \in Names |-> {}]
    /\ stage = [t \in Tunnels |-> "new"]

Advance(t, from, to) ==
    /\ stage[t] = from
    /\ stage' = [stage EXCEPT ![t] = to]

\* A new tunnel can be found by its id before it can be found by its name.
AddId(t) ==
    /\ Advance(t, "new", "id_only")
    /\ ids' = ids \union {t}
    /\ UNCHANGED named

AddName(t) ==
    /\ Advance(t, "id_only", "tracked")
    /\ named' = [named EXCEPT ![NameOf[t]] = @ \union {t}]
    /\ UNCHANGED ids

\* A leaving tunnel disappears from the index by id first.
DropId(t) ==
    /\ Advance(t, "tracked", "name_only")
    /\ ids' = ids \ {t}
    /\ UNCHANGED named

DropName(t) ==
    /\ Advance(t, "name_only", "gone")
    /\ named' = [named EXCEPT ![NameOf[t]] = @ \ {t}]
    /\ UNCHANGED ids

Next == \E t \in Tunnels : AddId(t) \/ AddName(t) \/ DropId(t) \/ DropName(t)

Spec == Init /\ [][Next]_dirVars
=============================================================================
