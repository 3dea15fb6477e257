---------------------------- MODULE PeerTracker ----------------------------
(***************************************************************************)
(* The daemon's table of live peers (daemon/mod.rs: PeerTracker, PeersView *)
(* and the table part of DeregisteringTunnelWrapper::deregister_identifier)*)
(* at the granularity of the DashMap guards.                               *)
(*                                                                         *)
(* by_id maps a tunnel id to its record.  by_name maps a name to a shared  *)
(* (Arc) subtable, itself a map from id to record.  Inserting threads and  *)
(* the blocking threads of deregistrations run in parallel; one step below *)
(* is what happens under one guard, or between two.                        *)
(*                                                                         *)
(* A subtable is identified by the tunnel whose insertion allocated it:    *)
(* a tunnel is inserted at most once, so the name is never used twice.     *)
(***************************************************************************)
EXTENDS Naturals

CONSTANTS Tunnels, Names, NameOf, NoTable

ASSUME TrackerAssumption ==
    /\ NameOf \in [Tunnels -> Names]
    /\ NoTable \notin Tunnels

VARIABLES
    by_id,      \* ids present in PeerTracker.by_id
    by_name,    \* name -> the subtable it maps to, or NoTable
    subtables,  \* subtable -> the ids it holds
    phase,      \* where the thread working for the tunnel stands
    fetched,    \* the subtable Arc a deregistration has cloned
    unvisited   \* the names its by_name.retain has still to visit

trackerVars == <<by_id, by_name, subtables, phase, fetched, unvisited>>

Phases == {"untracked", "by_id_inserted", "tracked", "by_id_removed",
           "subtable_fetched", "retaining", "cleared"}

TrackerTypeOK ==
    /\ by_id \in SUBSET Tunnels
    /\ by_name \in [Names -> Tunnels \union {NoTable}]
    /\ subtables \in [Tunnels -> SUBSET Tunnels]
    /\ phase \in [Tunnels -> Phases]
    /\ fetched \in [Tunnels -> Tunnels \union {NoTable}]
    /\ unvisited \in [Tunnels -> SUBSET Names]

TrackerInit ==
    /\ by_id = {}
    /\ by_name = [n \in Names |-> NoTable]
    /\ subtables = [t \in Tunnels |-> {}]
    /\ phase = [t \in Tunnels |-> "untracked"]
    /\ fetched = [t \in Tunnels |-> NoTable]
    /\ unvisited = [t \in Tunnels |-> {}]

Advance(t, from, to) ==
    /\ phase[t] = from
    /\ phase' = [phase EXCEPT ![t] = to]

(***************************************************************************)
(* PeerTracker::insert, first statement.                                   *)
(***************************************************************************)
InsertById(t) ==
    /\ Advance(t, "untracked", "by_id_inserted")
    /\ by_id' = by_id \union {t}
    /\ UNCHANGED <<by_name, subtables, fetched, unvisited>>

\* Faulty variant: a new subtable for every insertion, entry() or not.
InsertByNameOverwriting(t) ==
    /\ Advance(t, "by_id_inserted", "tracked")
    /\ by_name' = [by_name EXCEPT ![NameOf[t]] = t]
    /\ subtables' = [subtables EXCEPT ![t] = {t}]
    /\ UNCHANGED <<by_id, fetched, unvisited>>

(***************************************************************************)
(* PeerTracker::insert, second statement: the guard that entry() returns   *)
(* is held until the insertion into the subtable is over, so that a sweep  *)
(* cannot drop the subtable between the two.                               *)
(***************************************************************************)
InsertByName(t) ==
    LET n     == NameOf[t]
        table == IF by_name[n] = NoTable THEN t ELSE by_name[n]
    IN  /\ Advance(t, "by_id_inserted", "tracked")
        /\ by_name' = [by_name EXCEPT ![n] = table]
        /\ subtables' = [subtables EXCEPT ![table] = @ \union {t}]
        /\ UNCHANGED <<by_id, fetched, unvisited>>

\* The blocking closure of deregister_identifier: peers_by_id.remove.
RemoveById(t) ==
    /\ Advance(t, "tracked", "by_id_removed")
    /\ by_id' = by_id \ {t}
    /\ UNCHANGED <<by_name, subtables, fetched, unvisited>>

\* The subtable's Arc is cloned, and the guard on by_name released.
FetchSubtable(t) ==
    /\ Advance(t, "by_id_removed", "subtable_fetched")
    /\ fetched' = [fetched EXCEPT ![t] = by_name[NameOf[t]]]
    /\ UNCHANGED <<by_id, by_name, subtables, unvisited>>

\* Faulty variant: no sweep follows.
RemoveFromSubtableUnswept(t) ==
    /\ Advance(t, "subtable_fetched", "retaining")
    /\ subtables' = [subtables EXCEPT ![fetched[t]] = @ \ {t}]
    /\ UNCHANGED <<by_id, by_name, fetched, unvisited>>

\* Faulty variant: the whole subtable is cleared.
RemoveFromSubtableAll(t) ==
    /\ Advance(t, "subtable_fetched", "retaining")
    /\ subtables' = [subtables EXCEPT ![fetched[t]] = {}]
    /\ unvisited' = [unvisited EXCEPT ![t] = Names]
    /\ UNCHANGED <<by_id, by_name, fetched>>

\* The id is removed from whichever subtable was fetched, then the sweep starts.
RemoveFromSubtable(t) ==
    /\ Advance(t, "subtable_fetched", "retaining")
    /\ subtables' = IF fetched[t] = NoTable
                    THEN subtables
                    ELSE [subtables EXCEPT ![fetched[t]] = @ \ {t}]
    /\ unvisited' = [unvisited EXCEPT ![t] = Names]
    /\ UNCHANGED <<by_id, by_name, fetched>>

\* Faulty variant: entries are dropped whether or not they are empty.
RetainVisitDropping(t, n) ==
    /\ phase[t] = "retaining"
    /\ n \in unvisited[t]
    /\ unvisited' = [unvisited EXCEPT ![t] = @ \ {n}]
    /\ by_name' = [by_name EXCEPT ![n] = NoTable]
    /\ UNCHANGED <<by_id, subtables, phase, fetched>>

(***************************************************************************)
(* One entry of by_name.retain(): dropped if its subtable is empty.  The   *)
(* sweep locks one shard at a time, so other threads run between visits.   *)
(***************************************************************************)
RetainVisit(t, n) ==
    /\ phase[t] = "retaining"
    /\ n \in unvisited[t]
    /\ unvisited' = [unvisited EXCEPT ![t] = @ \ {n}]
    /\ by_name' = IF by_name[n] # NoTable /\ subtables[by_name[n]] = {}
                  THEN [by_name EXCEPT ![n] = NoTable]
                  ELSE by_name
    /\ UNCHANGED <<by_id, subtables, phase, fetched>>

\* Faulty variant: the closure waits for its name to be unused.
RetainEndWaiting(t) ==
    /\ unvisited[t] = {}
    /\ by_name[NameOf[t]] = NoTable
    /\ Advance(t, "retaining", "cleared")
    /\ UNCHANGED <<by_id, by_name, subtables, fetched, unvisited>>

\* The sweep is over: the closure ends and drops its strong PeerRecord.
RetainEnd(t) ==
    /\ unvisited[t] = {}
    /\ Advance(t, "retaining", "cleared")
    /\ UNCHANGED <<by_id, by_name, subtables, fetched, unvisited>>

ClearStep(t) ==
    \/ RemoveById(t)
    \/ FetchSubtable(t)
    \/ RemoveFromSubtable(t)
    \/ \E n \in Names : RetainVisit(t, n)
    \/ RetainEnd(t)

TrackerNext ==
    \E t \in Tunnels : InsertById(t) \/ InsertByName(t) \/ ClearStep(t)

TrackerSpec == TrackerInit /\ [][TrackerNext]_trackerVars

\* A blocking closure that has started runs to its end.
ClearingFairness ==
    \A t \in Tunnels : WF_trackerVars(phase[t] # "tracked" /\ ClearStep(t))

TrackerFairSpec == TrackerSpec /\ ClearingFairness
-----------------------------------------------------------------------------
\* The tunnels by_name leads to for a name.
Lookup(n) == IF by_name[n] = NoTable THEN {} ELSE subtables[by_name[n]]

\* Phases in which the tunnel has entered the index by name and not left it.
Named == {"tracked", "by_id_removed", "subtable_fetched"}

(***************************************************************************)
(* No peer is lost: from the end of its insertion until its own thread     *)
(* removes it, a tunnel is found under its name, whatever the insertions,  *)
(* removals and sweeps of other tunnels of that name do in between         *)
(* (daemon/mod.rs:218-221 against 266-272).                                *)
(***************************************************************************)
FoundByName ==
    \A t \in Tunnels : phase[t] \in Named => t \in Lookup(NameOf[t])

(***************************************************************************)
(* No ghost: a tunnel whose removal from its subtable is over is in no     *)
(* subtable any more, reachable or still held by another thread, and the   *)
(* index by id holds exactly the tunnels between insertion and removal     *)
(* (daemon/mod.rs:263-270).                                                *)
(***************************************************************************)
NoGhost ==
    \A t \in Tunnels :
        /\ (\E table \in Tunnels : t \in subtables[table]) => phase[t] \in Named
        /\ t \in by_id <=> phase[t] \in {"by_id_inserted", "tracked"}

(***************************************************************************)
(* The by-name table does not grow with the names ever seen: an empty      *)
(* subtable is always awaited by a sweep that has yet to visit its name    *)
(* (daemon/mod.rs:271-272, "Shrink by-name table by removing empty by-id   *)
(* sub-entries").                                                          *)
(***************************************************************************)
EmptySubtableIsDoomed ==
    \A n \in Names :
        by_name[n] # NoTable /\ Lookup(n) = {}
            => \E t \in Tunnels : phase[t] = "retaining" /\ n \in unvisited[t]

(***************************************************************************)
(* The inductive invariant behind the three.  A subtable holds only        *)
(* tunnels of the one name that leads to it, so the Arc a deregistration   *)
(* has cloned is still the live one when its id is removed from it.        *)
(***************************************************************************)
TrackerInv ==
    /\ TrackerTypeOK
    /\ FoundByName
    /\ NoGhost
    /\ EmptySubtableIsDoomed
    /\ \A t, table \in Tunnels :
           t \in subtables[table] => by_name[NameOf[t]] = table
    /\ \A n \in Names : \A table \in Tunnels :
           by_name[n] = table => /\ NameOf[table] = n
                                 /\ phase[table] \notin {"untracked", "by_id_inserted"}
    /\ \A t \in Tunnels :
           phase[t] = "subtable_fetched" => fetched[t] = by_name[NameOf[t]]

(***************************************************************************)
(* The two-level table implements the plain directory of PeerDirectory.    *)
(* Subtables and sweeps disappear: a name maps to what its subtable holds. *)
(***************************************************************************)
StageOf(p) ==
    IF p = "untracked" THEN "new"
    ELSE IF p = "by_id_inserted" THEN "id_only"
    ELSE IF p = "tracked" THEN "tracked"
    ELSE IF p \in Named THEN "name_only"
    ELSE "gone"

Directory == INSTANCE PeerDirectory WITH
    ids   <- by_id,
    named <- [n \in Names |-> Lookup(n)],
    stage <- [t \in Tunnels |-> StageOf(phase[t])]

DirectorySpec == Directory!Spec
-----------------------------------------------------------------------------
(***************************************************************************)
(* A deregistration that has begun completes, even if other tunnels of its *)
(* name keep coming and going under its sweep (daemon/mod.rs:262-274).     *)
(***************************************************************************)
ClearingEnds ==
    \A t \in Tunnels : phase[t] = "by_id_removed" ~> phase[t] = "cleared"

(***************************************************************************)
(* An empty subtable does not stay: it is swept away or taken into use by  *)
(* a new tunnel of its name, though the deregistration that emptied it may *)
(* have been overtaken by others (daemon/mod.rs:271-272 against 218-221).  *)
(***************************************************************************)
EmptySubtableGoes ==
    \A n \in Names :
        by_name[n] # NoTable /\ Lookup(n) = {} ~> by_name[n] = NoTable \/ Lookup(n) # {}
=============================================================================
