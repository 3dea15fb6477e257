---------------------------- MODULE DaemonProofs ---------------------------
(***************************************************************************)
(* The peer tables keep their invariant, and implement the plain           *)
(* directory, for any number of tunnels and any sharing of names. The      *)
(* daemon drives the tables by their own steps only, and keeps its         *)
(* invariant for any number of tunnels, names and requests.                *)
(***************************************************************************)
EXTENDS Daemon, SequenceTheorems, TLAPS

-----------------------------------------------------------------------------
(* The peer tables.                                                        *)

\* The initial tables are empty and satisfy the invariant.
LEMMA TrackerInitInv == TrackerInit => TrackerInv
BY TrackerAssumption
   DEF TrackerInit, TrackerInv, TrackerTypeOK, Phases, FoundByName, NoGhost,
       EmptySubtableIsDoomed, Lookup, Named

\* Every step of an inserting thread, or of a deregistering one, keeps the
\* invariant of the tables.
LEMMA TrackerStepInv ==
    ASSUME TrackerInv, [TrackerNext]_trackerVars
    PROVE  TrackerInv'
<1> USE TrackerAssumption
<1>1. ASSUME NEW t \in Tunnels, InsertById(t)
      PROVE  TrackerInv'
  <2>. USE <1>1 DEF InsertById, Advance, TrackerInv
  <2>1. TrackerTypeOK'
    BY DEF TrackerTypeOK, Phases
  <2>2. FoundByName'
    BY DEF TrackerTypeOK, FoundByName, Named, Lookup
  <2>3. NoGhost'
    BY DEF TrackerTypeOK, NoGhost, Named
  <2>4. EmptySubtableIsDoomed'
    BY DEF TrackerTypeOK, EmptySubtableIsDoomed, Lookup
  <2>. QED
    BY <2>1, <2>2, <2>3, <2>4 DEF TrackerTypeOK
<1>2. ASSUME NEW t \in Tunnels, InsertByName(t)
      PROVE  TrackerInv'
  <2>. USE <1>2 DEF InsertByName, Advance, TrackerInv
  <2>1. TrackerTypeOK'
    BY DEF TrackerTypeOK, Phases
  <2>2. FoundByName'
    BY DEF TrackerTypeOK, FoundByName, NoGhost, Named, Lookup
  <2>3. NoGhost'
    BY DEF TrackerTypeOK, NoGhost, Named
  <2>4. EmptySubtableIsDoomed'
    BY DEF TrackerTypeOK, EmptySubtableIsDoomed, Lookup
  <2>5. \A u, table \in Tunnels :
           u \in subtables'[table] => by_name'[NameOf[u]] = table
    <3>1. CASE by_name[NameOf[t]] = NoTable
      \* The subtable allocated is a new one, so it holds the tunnel alone.
      <4>1. subtables[t] = {}
        BY <3>1 DEF TrackerTypeOK
      <4>. QED
        BY <3>1, <4>1 DEF TrackerTypeOK
    <3>2. CASE by_name[NameOf[t]] # NoTable
      BY <3>2 DEF TrackerTypeOK
    <3>. QED
      BY <3>1, <3>2
  <2>6. \A n \in Names : \A table \in Tunnels :
           by_name'[n] = table =>
               /\ NameOf[table] = n
               /\ phase'[table] \notin {"untracked", "by_id_inserted"}
    BY DEF TrackerTypeOK
  <2>7. \A u \in Tunnels :
           phase'[u] = "subtable_fetched" => fetched'[u] = by_name'[NameOf[u]]
    BY DEF TrackerTypeOK, FoundByName, Named, Lookup
  <2>. QED
    BY <2>1, <2>2, <2>3, <2>4, <2>5, <2>6, <2>7
<1>3. ASSUME NEW t \in Tunnels, RemoveById(t)
      PROVE  TrackerInv'
  <2>. USE <1>3 DEF RemoveById, Advance, TrackerInv
  <2>1. TrackerTypeOK'
    BY DEF TrackerTypeOK, Phases
  <2>2. FoundByName'
    BY DEF TrackerTypeOK, FoundByName, Named, Lookup
  <2>3. NoGhost'
    BY DEF TrackerTypeOK, NoGhost, Named
  <2>4. EmptySubtableIsDoomed'
    BY DEF TrackerTypeOK, EmptySubtableIsDoomed, Lookup
  <2>. QED
    BY <2>1, <2>2, <2>3, <2>4 DEF TrackerTypeOK
<1>4. ASSUME NEW t \in Tunnels, FetchSubtable(t)
      PROVE  TrackerInv'
  <2>. USE <1>4 DEF FetchSubtable, Advance, TrackerInv
  <2>1. TrackerTypeOK'
    BY DEF TrackerTypeOK, Phases
  <2>2. FoundByName'
    BY DEF TrackerTypeOK, FoundByName, Named, Lookup
  <2>3. NoGhost'
    BY DEF TrackerTypeOK, NoGhost, Named
  <2>4. EmptySubtableIsDoomed'
    BY DEF TrackerTypeOK, EmptySubtableIsDoomed, Lookup
  <2>. QED
    BY <2>1, <2>2, <2>3, <2>4 DEF TrackerTypeOK
<1>5. ASSUME NEW t \in Tunnels, RemoveFromSubtable(t)
      PROVE  TrackerInv'
  <2>. USE <1>5 DEF RemoveFromSubtable, Advance, TrackerInv
  \* The fetched Arc is the live subtable, because the tunnel is still in it.
  <2>1. fetched[t] \in Tunnels /\ fetched[t] = by_name[NameOf[t]]
    BY DEF TrackerTypeOK, FoundByName, Named, Lookup
  <2>2. TrackerTypeOK'
    BY DEF TrackerTypeOK, Phases
  <2>3. FoundByName'
    BY <2>1 DEF TrackerTypeOK, FoundByName, Named, Lookup
  <2>4. NoGhost'
    BY <2>1 DEF TrackerTypeOK, NoGhost, Named
  <2>5. EmptySubtableIsDoomed'
    BY <2>1 DEF TrackerTypeOK, EmptySubtableIsDoomed, Lookup
  <2>. QED
    BY <2>1, <2>2, <2>3, <2>4, <2>5 DEF TrackerTypeOK
<1>6. ASSUME NEW t \in Tunnels, NEW n \in Names, RetainVisit(t, n)
      PROVE  TrackerInv'
  <2>. USE <1>6 DEF RetainVisit, TrackerInv
  <2>1. TrackerTypeOK'
    BY DEF TrackerTypeOK, Phases
  <2>2. FoundByName'
    BY DEF TrackerTypeOK, FoundByName, Named, Lookup
  <2>3. NoGhost'
    BY DEF TrackerTypeOK, NoGhost, Named
  <2>4. EmptySubtableIsDoomed'
    BY DEF TrackerTypeOK, EmptySubtableIsDoomed, Lookup
  <2>5. \A u, table \in Tunnels :
           u \in subtables'[table] => by_name'[NameOf[u]] = table
    BY DEF TrackerTypeOK
  <2>6. \A u \in Tunnels :
           phase'[u] = "subtable_fetched" => fetched'[u] = by_name'[NameOf[u]]
    BY DEF TrackerTypeOK, FoundByName, Named, Lookup
  <2>. QED
    BY <2>1, <2>2, <2>3, <2>4, <2>5, <2>6 DEF TrackerTypeOK
<1>7. ASSUME NEW t \in Tunnels, RetainEnd(t)
      PROVE  TrackerInv'
  <2>. USE <1>7 DEF RetainEnd, Advance, TrackerInv
  <2>1. TrackerTypeOK'
    BY DEF TrackerTypeOK, Phases
  <2>2. FoundByName'
    BY DEF TrackerTypeOK, FoundByName, Named, Lookup
  <2>3. NoGhost'
    BY DEF TrackerTypeOK, NoGhost, Named
  <2>4. EmptySubtableIsDoomed'
    BY DEF TrackerTypeOK, EmptySubtableIsDoomed, Lookup
  <2>. QED
    BY <2>1, <2>2, <2>3, <2>4 DEF TrackerTypeOK
<1>8. CASE UNCHANGED trackerVars
  BY <1>8 DEF trackerVars, TrackerInv, TrackerTypeOK, FoundByName, NoGhost,
              EmptySubtableIsDoomed, Lookup, Named
<1>. QED
  BY <1>1, <1>2, <1>3, <1>4, <1>5, <1>6, <1>7, <1>8 DEF TrackerNext, ClearStep

(***************************************************************************)
(* The tables keep TrackerInv in every behaviour: no peer is lost, no      *)
(* ghost remains, and no empty subtable outlives the sweeps under way      *)
(* (PeerTracker::insert against deregister_identifier).                    *)
(***************************************************************************)
THEOREM TrackerCorrect == TrackerSpec => []TrackerInv
<1>1. TrackerInit => TrackerInv
  BY TrackerInitInv
<1>2. TrackerInv /\ [TrackerNext]_trackerVars => TrackerInv'
  BY TrackerStepInv
<1>. QED
  BY <1>1, <1>2, PTL DEF TrackerSpec

(***************************************************************************)
(* A tunnel that is tracked is found under its name in every reachable     *)
(* state (PeersView::get_by_name, find_by_name_and_comparator).            *)
(***************************************************************************)
THEOREM TrackedIsFound == TrackerSpec => []FoundByName
<1>1. TrackerInv => FoundByName
  BY DEF TrackerInv
<1>. QED
  BY <1>1, TrackerCorrect, PTL

\* The empty tables are the empty directory.
LEMMA DirectoryInit == TrackerInit => Directory!Init
BY TrackerAssumption DEF TrackerInit, Directory!Init, Lookup, StageOf, Named

(***************************************************************************)
(* A step of the tables is the step of the directory with the same effect, *)
(* or changes nothing a reader of the directory can see: cloning the Arc   *)
(* of a subtable and sweeping away empty ones are invisible.               *)
(***************************************************************************)
LEMMA DirectoryStep ==
    ASSUME TrackerInv, [TrackerNext]_trackerVars
    PROVE  [Directory!Next]_Directory!dirVars
<1> USE TrackerAssumption DEF TrackerInv, TrackerTypeOK
<1> DEFINE named == [n \in Names |-> Lookup(n)]
           stage == [t \in Tunnels |-> StageOf(phase[t])]
<1>1. ASSUME NEW t \in Tunnels, InsertById(t)
      PROVE  Directory!AddId(t)
  <2>. USE <1>1 DEF InsertById, Advance
  <2>1. named' = named
    BY DEF Lookup
  <2>2. stage[t] = "new" /\ stage' = [stage EXCEPT ![t] = "id_only"]
    BY Zenon DEF StageOf, Phases, Named
  <2>. QED
    BY <2>1, <2>2 DEF Directory!AddId, Directory!Advance
<1>2. ASSUME NEW t \in Tunnels, InsertByName(t)
      PROVE  Directory!AddName(t)
  <2>. USE <1>2 DEF InsertByName, Advance
  <2>1. named' = [named EXCEPT ![NameOf[t]] = @ \union {t}]
    <3>1. by_name[NameOf[t]] = NoTable => subtables[t] = {}
      OBVIOUS
    <3>2. ASSUME NEW n \in Names, n # NameOf[t]
          PROVE  Lookup(n)' = Lookup(n)
      BY <3>2 DEF Lookup
    <3>3. Lookup(NameOf[t])' = Lookup(NameOf[t]) \union {t}
      BY <3>1 DEF Lookup
    <3>. QED
      BY <3>2, <3>3, Zenon
  <2>2. stage[t] = "id_only" /\ stage' = [stage EXCEPT ![t] = "tracked"]
    BY Zenon DEF StageOf, Phases, Named
  <2>. QED
    BY <2>1, <2>2 DEF Directory!AddName, Directory!Advance
<1>3. ASSUME NEW t \in Tunnels, RemoveById(t)
      PROVE  Directory!DropId(t)
  <2>. USE <1>3 DEF RemoveById, Advance
  <2>1. named' = named
    BY DEF Lookup
  <2>2. stage[t] = "tracked" /\ stage' = [stage EXCEPT ![t] = "name_only"]
    BY Zenon DEF StageOf, Phases, Named
  <2>. QED
    BY <2>1, <2>2 DEF Directory!DropId, Directory!Advance
<1>4. ASSUME NEW t \in Tunnels, FetchSubtable(t)
      PROVE  UNCHANGED Directory!dirVars
  <2>. USE <1>4 DEF FetchSubtable, Advance
  <2>1. named' = named
    BY DEF Lookup
  <2>2. stage' = stage
    BY DEF StageOf, Phases, Named
  <2>. QED
    BY <2>1, <2>2 DEF Directory!dirVars
<1>5. ASSUME NEW t \in Tunnels, RemoveFromSubtable(t)
      PROVE  Directory!DropName(t)
  <2>. USE <1>5 DEF RemoveFromSubtable, Advance
  <2>1. fetched[t] \in Tunnels /\ fetched[t] = by_name[NameOf[t]]
    BY DEF FoundByName, Named, Lookup
  <2>2. named' = [named EXCEPT ![NameOf[t]] = @ \ {t}]
    <3>1. ASSUME NEW n \in Names, n # NameOf[t]
          PROVE  Lookup(n)' = Lookup(n)
      BY <2>1, <3>1 DEF Lookup
    <3>2. Lookup(NameOf[t])' = Lookup(NameOf[t]) \ {t}
      BY <2>1 DEF Lookup
    <3>. QED
      BY <3>1, <3>2, Zenon
  <2>3. stage[t] = "name_only" /\ stage' = [stage EXCEPT ![t] = "gone"]
    BY Zenon DEF StageOf, Phases, Named
  <2>. QED
    BY <2>2, <2>3 DEF Directory!DropName, Directory!Advance
<1>6. ASSUME NEW t \in Tunnels, NEW n \in Names, RetainVisit(t, n)
      PROVE  UNCHANGED Directory!dirVars
  <2>. USE <1>6 DEF RetainVisit
  <2>1. named' = named
    BY Zenon DEF Lookup
  <2>2. stage' = stage
    BY DEF StageOf
  <2>. QED
    BY <2>1, <2>2 DEF Directory!dirVars
<1>7. ASSUME NEW t \in Tunnels, RetainEnd(t)
      PROVE  UNCHANGED Directory!dirVars
  <2>. USE <1>7 DEF RetainEnd, Advance
  <2>1. named' = named
    BY DEF Lookup
  <2>2. stage' = stage
    BY DEF StageOf, Phases, Named
  <2>. QED
    BY <2>1, <2>2 DEF Directory!dirVars
<1>8. CASE UNCHANGED trackerVars
  BY <1>8 DEF trackerVars, Directory!dirVars, Lookup, StageOf, Named
<1>. QED
  BY <1>1, <1>2, <1>3, <1>4, <1>5, <1>6, <1>7, <1>8
     DEF TrackerNext, ClearStep, Directory!Next

(***************************************************************************)
(* The concurrent two-level tables implement the plain directory: a reader *)
(* can treat by_name as a map from names to sets of tunnels.               *)
(***************************************************************************)
THEOREM TrackerImplementsDirectory == TrackerSpec => DirectorySpec
<1>1. TrackerInit => Directory!Init
  BY DirectoryInit
<1>2. TrackerInv /\ [TrackerNext]_trackerVars => [Directory!Next]_Directory!dirVars
  BY DirectoryStep
<1>. QED
  BY <1>1, <1>2, TrackerCorrect, PTL DEF TrackerSpec, DirectorySpec, Directory!Spec

-----------------------------------------------------------------------------
(* The daemon.                                                             *)


(***************************************************************************)
(* Every step of the daemon is a step of the peer tables or leaves them    *)
(* alone: only peers.insert and the deregistration task touch them.        *)
(***************************************************************************)
LEMMA DaemonTrackerStep ==
    ASSUME [Next]_vars
    PROVE  [TrackerNext]_trackerVars
<1>1. ASSUME NEW t \in Tunnels, LifecycleStep(t)
      PROVE  [TrackerNext]_trackerVars
  BY <1>1, Zenon DEF LifecycleStep, Authenticated, AuthenticationFails, RecordConstructed,
      ConstructionFails, RegistrationFails, TrackById, TrackByName, ReportAuthentication, OpenDownlink,
      DownlinkClosed, IncomingEnds, IncomingFails, Drained, CloseAfterLifecycle, TrackerNext
<1>2. ASSUME NEW t \in Tunnels, BackgroundStep(t)
      PROVE  [TrackerNext]_trackerVars
  BY <1>2, Zenon DEF BackgroundStep, RegistryRegister, RegistryRegisterFails, SendDisconnected,
      ClearPeer, RegistryDeregister, RegistryDeregisterFails, TrackerNext
<1>3. ASSUME NEW t \in Tunnels,
             \/ Accept(t) \/ AuthenticationStep(t)
             \/ \E reason \in Reasons : Close(t, reason)
             \/ ServiceRetains(t) \/ ServiceReleases(t)
             \/ LoseConnection(t) \/ AcceptFails(t) \/ OpenFails(t) \/ Cancel(t)
      PROVE  UNCHANGED trackerVars
  BY <1>3 DEF Accept, AuthenticationStep, AuthenticationTaskEnds, Close, ServiceRetains,
      ServiceReleases, LoseConnection, AcceptFails, OpenFails, Cancel
<1>4. ASSUME NEW t \in Tunnels, NEW r \in Requests,
             IncomingRequest(t, r) \/ NegotiationStep(t, r) \/ HandlerReturns(t, r)
      PROVE  UNCHANGED trackerVars
  BY <1>4 DEF IncomingRequest, NegotiationStep, NegotiationRefused, Negotiated,
      NegotiationFatal, HandlerReturns, RequestStep
<1>5. CASE Shutdown
  BY <1>5 DEF Shutdown
<1>6. CASE UNCHANGED vars
  BY <1>6 DEF vars
<1>. QED
  BY <1>1, <1>2, <1>3, <1>4, <1>5, <1>6 DEF Next

(***************************************************************************)
(* What is proved of the peer tables holds of the daemon.                  *)
(***************************************************************************)
THEOREM DaemonImplementsTracker == Safety => TrackerSpec
<1>1. Init => TrackerInit
  BY DEF Init
<1>2. [Next]_vars => [TrackerNext]_trackerVars
  BY DaemonTrackerStep
<1>. QED
  BY <1>1, <1>2, PTL DEF Safety, TrackerSpec

\* What Append does to the short logs of EventOrder.
LEMMA AppendToOne == \A a, b : Append(<<a>>, b) = <<a, b>>
<1>. TAKE a, b
<1>. DEFINE S == {a, b}
            p == <<a>>
            s == Append(p, b)
            r == <<a, b>>
<1>1. p \in Seq(S) /\ s \in Seq(S) /\ r \in Seq(S)
  OBVIOUS
<1>2. Len(s) = 2 /\ s[1] = a /\ s[2] = b
  BY <1>1
<1>3. Len(r) = 2 /\ r[1] = a /\ r[2] = b
  OBVIOUS
<1>4. Len(s) = Len(r) /\ \A i \in 1 .. Len(s) : s[i] = r[i]
  BY <1>2, <1>3
<1>. HIDE DEF S, p, s, r
<1>5. s = r
  BY <1>1, <1>4, SeqEqual, Zenon
<1>. QED
  BY <1>5 DEF s, r, p

LEMMA AppendToTwo == \A a, b, c : Append(<<a, b>>, c) = <<a, b, c>>
<1>. TAKE a, b, c
<1>. DEFINE S == {a, b, c}
            p == <<a, b>>
            s == Append(p, c)
            r == <<a, b, c>>
<1>1. p \in Seq(S) /\ s \in Seq(S) /\ r \in Seq(S)
  OBVIOUS
<1>2. Len(s) = 3 /\ s[1] = a /\ s[2] = b /\ s[3] = c
  BY <1>1
<1>3. Len(r) = 3 /\ r[1] = a /\ r[2] = b /\ r[3] = c
  OBVIOUS
<1>4. Len(s) = Len(r) /\ \A i \in 1 .. Len(s) : s[i] = r[i]
  BY <1>2, <1>3
<1>. HIDE DEF S, p, s, r
<1>5. s = r
  BY <1>1, <1>4, SeqEqual, Zenon
<1>. QED
  BY <1>5 DEF s, r, p

\* The initial state satisfies the invariant.
LEMMA DaemonInitInv == Init => DaemonInv
<1>. SUFFICES ASSUME Init PROVE DaemonInv
  OBVIOUS
<1>1. TrackerInv
  BY TrackerInitInv DEF Init
<1>2. DaemonTypeOK
  <2>1. events \in [Tunnels -> Seq({"connected", "authenticated", "disconnected"})]
    BY DEF Init
  <2>2. shutdown \in BOOLEAN
    BY Zenon DEF Init
  <2>. QED
    BY <1>1, <2>1, <2>2, DaemonAssumption
       DEF Init, DaemonTypeOK, TrackerInv, Running, Awaiting, Reasons
<1>3. \A t \in Tunnels : TunnelInv(t)
  BY Zenon DEF Init, TrackerInit, TunnelInv, Wrapped, Running, Awaiting, Served
<1>4. RegistryInv
  BY DaemonAssumption DEF Init, RegistryInv
<1>. QED
  BY <1>1, <1>2, <1>3, <1>4 DEF DaemonInv
-----------------------------------------------------------------------------
(***************************************************************************)
(* What Dropkick does once the lifecycle, the authentication task or a     *)
(* service task of t has dropped its clone: nothing while another clone is *)
(* alive, else the callback that is armed, and only for t.                 *)
(***************************************************************************)
LEMMA DropCallbackEffect ==
    ASSUME DaemonTypeOK, NEW t \in Tunnels, RunDropCallback(t)
    PROVE  /\ callback' \in [Tunnels -> {"none", "failure_closing", "deregistering", "spent"}]
           /\ deregistration' \in [Tunnels -> {"none", "spawned", "clearing", "done", "failed"}]
           /\ closing' \in [Tunnels -> SUBSET Reasons]
           /\ \A u \in Tunnels \ {t} : /\ callback'[u] = callback[u]
                                       /\ deregistration'[u] = deregistration[u]
                                       /\ closing'[u] = closing[u]
           /\ Wrapped(t)' => /\ callback'[t] = callback[t]
                             /\ deregistration'[t] = deregistration[t]
                             /\ closing'[t] = closing[t]
           /\ ~Wrapped(t)' => /\ callback'[t] = "spent"
                              /\ deregistration'[t] = IF callback[t] = "deregistering"
                                                      THEN "spawned" ELSE deregistration[t]
                              /\ closing'[t] = IF callback[t] = "failure_closing"
                                               THEN closing[t] \union {"AuthenticationFailure"}
                                               ELSE closing[t]
<1>. /\ callback \in [Tunnels -> {"none", "failure_closing", "deregistering", "spent"}]
     /\ deregistration \in [Tunnels -> {"none", "spawned", "clearing", "done", "failed"}]
     /\ closing \in [Tunnels -> SUBSET Reasons]
  BY DEF DaemonTypeOK
<1>1. CASE Wrapped(t)'
  <2>. UNCHANGED <<callback, deregistration, closing>>
    BY <1>1 DEF RunDropCallback, dropVars
  <2>. QED
    BY <1>1
<1>2. CASE ~Wrapped(t)'
  <2>1. /\ callback' = [callback EXCEPT ![t] = "spent"]
        /\ \/ callback[t] # "failure_closing" /\ closing' = closing
           \/ /\ callback[t] = "failure_closing"
              /\ closing' = [closing EXCEPT ![t] = @ \union {"AuthenticationFailure"}]
        /\ \/ /\ callback[t] = "deregistering"
              /\ deregistration' = [deregistration EXCEPT ![t] = "spawned"]
           \/ callback[t] # "deregistering" /\ deregistration' = deregistration
    BY <1>2 DEF RunDropCallback, RegistrationFailureClosing, DeregistrationDropkick
  <2>2. /\ closing' \in [Tunnels -> SUBSET Reasons]
        /\ closing'[t] = IF callback[t] = "failure_closing"
                         THEN closing[t] \union {"AuthenticationFailure"} ELSE closing[t]
        /\ \A u \in Tunnels \ {t} : closing'[u] = closing[u]
    BY <2>1 DEF Reasons
  <2>3. /\ callback' \in [Tunnels -> {"none", "failure_closing", "deregistering", "spent"}]
        /\ callback'[t] = "spent"
        /\ \A u \in Tunnels \ {t} : callback'[u] = callback[u]
    BY <2>1
  <2>4. /\ deregistration' \in [Tunnels -> {"none", "spawned", "clearing", "done", "failed"}]
        /\ deregistration'[t] = IF callback[t] = "deregistering"
                                THEN "spawned" ELSE deregistration[t]
        /\ \A u \in Tunnels \ {t} : deregistration'[u] = deregistration[u]
    BY <2>1
  <2>. QED
    BY <1>2, <2>2, <2>3, <2>4
<1>. QED
  BY <1>1, <1>2

-----------------------------------------------------------------------------
\* Types are kept, one case per shape of action.
LEMMA DaemonTypeStep ==
    ASSUME DaemonTypeOK, TrackerTypeOK', [Next]_vars
    PROVE  DaemonTypeOK'
<1>. USE DEF DaemonTypeOK, Running, Awaiting, vars, daemonVars, lifecycleVars, dropVars,
             serviceVars, tunnelVars
\* The actions that may drop the last clone of the wrapper.
<1>1. ASSUME NEW t \in Tunnels, RunDropCallback(t),
             UNCHANGED <<registering, registry, tunnelVars, events, shutdown>>,
             pc' \in [Tunnels -> Running \union {"source", "ended", "over"}],
             outcome' \in [Tunnels -> {"none", "ok", "refused", "error", "cancelled"}],
             auth' \in [Tunnels -> {"none", "running", "ok", "refused", "error"}],
             request' \in [Tunnels -> [Requests -> {"idle", "negotiating", "handling"}]],
             retained' \in SUBSET Tunnels
      PROVE  DaemonTypeOK'
  BY <1>1, DropCallbackEffect, Zenon
<1>2. ASSUME NEW t \in Tunnels, NEW result \in {"ok", "refused", "error"}, Return(t, result),
             UNCHANGED <<auth, registering, registry, tunnelVars, events, shutdown>>
      PROVE  DaemonTypeOK'
  <2>1. /\ pc' \in [Tunnels -> Running \union {"source", "ended", "over"}]
        /\ outcome' \in [Tunnels -> {"none", "ok", "refused", "error", "cancelled"}]
    BY <1>2 DEF Return
  <2>2. request' \in [Tunnels -> [Requests -> {"idle", "negotiating", "handling"}]]
    BY <1>2 DEF Return
  <2>. QED
    BY <1>1, <1>2, <2>1, <2>2, Zenon DEF Return
<1>3. ASSUME NEW t \in Tunnels,
             \/ AuthenticationFails(t) \/ ConstructionFails(t) \/ RegistrationFails(t)
             \/ DownlinkClosed(t) \/ IncomingFails(t) \/ Drained(t)
             \/ \E r \in Requests : NegotiationFatal(t, r)
      PROVE  DaemonTypeOK'
  <2>1. /\ \E result \in {"ok", "refused", "error"} : Return(t, result)
        /\ UNCHANGED <<auth, registering, registry, tunnelVars, events, shutdown>>
    BY <1>3 DEF AuthenticationFails, ConstructionFails, RegistrationFails, DownlinkClosed,
        IncomingFails, Drained, NegotiationFatal
  <2>. QED
    BY <1>2, <2>1
<1>4. ASSUME NEW t \in Tunnels, NEW result \in {"ok", "refused", "error"},
             AuthenticationTaskEnds(t, result)
      PROVE  DaemonTypeOK'
  BY <1>1, <1>4, Zenon DEF AuthenticationTaskEnds
<1>5. ASSUME NEW t \in Tunnels, Cancel(t)
      PROVE  DaemonTypeOK'
  <2>1. /\ pc' \in [Tunnels -> Running \union {"source", "ended", "over"}]
        /\ outcome' \in [Tunnels -> {"none", "ok", "refused", "error", "cancelled"}]
    BY <1>5 DEF Cancel
  <2>2. request' \in [Tunnels -> [Requests -> {"idle", "negotiating", "handling"}]]
    BY <1>5 DEF Cancel
  <2>. QED
    BY <1>1, <1>5, <2>1, <2>2, Zenon DEF Cancel
<1>6. ASSUME NEW t \in Tunnels, ServiceReleases(t)
      PROVE  DaemonTypeOK'
  BY <1>1, <1>6, Zenon DEF ServiceReleases
\* The others.
<1>7. ASSUME NEW t \in Tunnels, NEW event \in {"connected", "authenticated", "disconnected"},
             Send(t, event)
      PROVE  events' \in [Tunnels -> Seq({"connected", "authenticated", "disconnected"})]
  BY <1>7 DEF Send
<1>8. ASSUME NEW t \in Tunnels, Accept(t)
      PROVE  DaemonTypeOK'
  <2>1. events' \in [Tunnels -> Seq({"connected", "authenticated", "disconnected"})]
    BY <1>7, <1>8 DEF Accept, StartLifecycle
  <2>. QED
    BY <1>8, <2>1, Zenon DEF Accept, StartLifecycle, Proceed
<1>9. ASSUME NEW t \in Tunnels, ReportAuthentication(t)
      PROVE  DaemonTypeOK'
  <2>1. events' \in [Tunnels -> Seq({"connected", "authenticated", "disconnected"})]
    BY <1>7, <1>9 DEF ReportAuthentication
  <2>. QED
    BY <1>9, <2>1, Zenon DEF ReportAuthentication, Proceed
<1>10. ASSUME NEW t \in Tunnels, SendDisconnected(t)
       PROVE  DaemonTypeOK'
  <2>1. events' \in [Tunnels -> Seq({"connected", "authenticated", "disconnected"})]
    BY <1>7, <1>10 DEF SendDisconnected
  <2>. QED
    BY <1>10, <2>1, Zenon DEF SendDisconnected
<1>11. ASSUME NEW t \in Tunnels, CloseAfterLifecycle(t)
       PROVE  DaemonTypeOK'
  <2>1. closing \in [Tunnels -> SUBSET Reasons] /\ CloseReasonFor(outcome[t]) \in Reasons
    BY DEF CloseReasonFor, Reasons
  <2>2. \/ closing' = [closing EXCEPT ![t] = @ \union {CloseReasonFor(outcome[t])}]
        \/ closing' = closing
    BY <1>11 DEF CloseAfterLifecycle
  <2>3. closing' \in [Tunnels -> SUBSET Reasons]
    BY ONLY t \in Tunnels, <2>1, <2>2
  <2>4. lost' \in SUBSET Tunnels
    BY <1>11 DEF CloseAfterLifecycle
  <2>. QED
    BY <1>11, <2>3, <2>4, Zenon DEF CloseAfterLifecycle
<1>12. ASSUME NEW t \in Tunnels,
              Authenticated(t) \/ TrackById(t) \/ TrackByName(t) \/ OpenDownlink(t) \/ IncomingEnds(t)
       PROVE  DaemonTypeOK'
  <2>1. /\ \E to \in Running : pc' = [pc EXCEPT ![t] = to]
        /\ UNCHANGED <<outcome, auth, registering, registry, dropVars, serviceVars, tunnelVars,
                       events, shutdown>>
    BY <1>12, Zenon DEF Authenticated, TrackById, TrackByName, OpenDownlink, IncomingEnds, Proceed
  <2>. QED
    BY <2>1
<1>13. ASSUME NEW t \in Tunnels, RecordConstructed(t)
       PROVE  DaemonTypeOK'
  BY <1>13 DEF RecordConstructed, Proceed
<1>14. ASSUME NEW t \in Tunnels, RegistryRegister(t)
       PROVE  DaemonTypeOK'
  BY <1>14, Zenon DEF RegistryRegister
<1>15. ASSUME NEW t \in Tunnels, NEW r \in Requests,
              NEW from, NEW to \in {"idle", "negotiating", "handling"}, RequestStep(t, r, from, to)
       PROVE  DaemonTypeOK'
  <2>1. request' \in [Tunnels -> [Requests -> {"idle", "negotiating", "handling"}]]
    BY <1>15 DEF RequestStep
  <2>. QED
    BY <1>15, <2>1 DEF RequestStep
<1>16. ASSUME NEW t \in Tunnels, NEW r \in Requests,
              \/ IncomingRequest(t, r) \/ NegotiationRefused(t, r) \/ Negotiated(t, r)
              \/ HandlerReturns(t, r)
       PROVE  DaemonTypeOK'
  BY <1>15, <1>16, Zenon DEF IncomingRequest, NegotiationRefused, Negotiated, HandlerReturns
<1>17. ASSUME NEW t \in Tunnels, ServiceRetains(t)
       PROVE  DaemonTypeOK'
  BY <1>17 DEF ServiceRetains
<1>18. ASSUME NEW t \in Tunnels, NEW reason \in Reasons, Close(t, reason)
       PROVE  DaemonTypeOK'
  BY <1>18 DEF Close
<1>19. ASSUME NEW t \in Tunnels, LoseConnection(t) \/ AcceptFails(t) \/ OpenFails(t)
       PROVE  DaemonTypeOK'
  <2>1. close_reason' \in [Tunnels -> Reasons \union {"Unspecified"}]
    BY <1>19 DEF LoseConnection, AcceptFails, OpenFails, Reasons
  <2>2. lost' \in SUBSET Tunnels /\ closed' \in SUBSET Tunnels
    BY <1>19 DEF LoseConnection, AcceptFails, OpenFails
  <2>3. UNCHANGED <<lifecycleVars, dropVars, serviceVars, events, shutdown>>
    BY <1>19 DEF LoseConnection, AcceptFails, OpenFails
  <2>. QED
    BY <2>1, <2>2, <2>3
<1>20. CASE Shutdown
  BY <1>20 DEF Shutdown
<1>21. CASE UNCHANGED vars
  BY <1>21
<1>22. ASSUME NEW t \in Tunnels, RegistryRegisterFails(t)
       PROVE  DaemonTypeOK'
  BY <1>22 DEF RegistryRegisterFails
<1>23. ASSUME NEW t \in Tunnels, ClearPeer(t)
       PROVE  DaemonTypeOK'
  BY <1>23 DEF ClearPeer
<1>24. ASSUME NEW t \in Tunnels, RegistryDeregister(t)
       PROVE  DaemonTypeOK'
  BY <1>24, Zenon DEF RegistryDeregister
<1>25. ASSUME NEW t \in Tunnels, RegistryDeregisterFails(t)
       PROVE  DaemonTypeOK'
  BY <1>25 DEF RegistryDeregisterFails
<1>. HIDE DEF DaemonTypeOK
<1>. QED
  BY <1>3, <1>4, <1>5, <1>6, <1>8, <1>9, <1>10, <1>11, <1>12, <1>13, <1>14, <1>16,
     <1>17, <1>18, <1>19, <1>20, <1>21, <1>22, <1>23, <1>24, <1>25, Zenon
     DEF Next, LifecycleStep, BackgroundStep, NegotiationStep, AuthenticationStep

-----------------------------------------------------------------------------
\* Nothing that TunnelInv(u) speaks of has changed.
SameFor(u) ==
    /\ pc'[u] = pc[u] /\ auth'[u] = auth[u] /\ registering'[u] = registering[u]
    /\ callback'[u] = callback[u] /\ deregistration'[u] = deregistration[u]
    /\ request'[u] = request[u] /\ (u \in retained' <=> u \in retained)
    /\ events'[u] = events[u] /\ phase'[u] = phase[u]

\* A step that concerns another tunnel keeps the invariant of this one.
LEMMA Frame ==
    ASSUME NEW u \in Tunnels, TunnelInv(u), SameFor(u)
    PROVE  TunnelInv(u)'
BY Zenon DEF TunnelInv, SameFor, Wrapped

\* A register call, once done, stays done; only such calls fill the registry.
LEMMA RegistryStep ==
    ASSUME DaemonTypeOK, \A t \in Tunnels : TunnelInv(t), RegistryInv, [Next]_vars
    PROVE  RegistryInv'
<1>. USE DEF lifecycleVars
<1>1. ASSUME UNCHANGED <<registry, registering>>
      PROVE  RegistryInv'
  BY <1>1 DEF RegistryInv
<1>2. ASSUME NEW t \in Tunnels, RecordConstructed(t)
      PROVE  RegistryInv'
  <2>1. registering[t] # "done"
    BY <1>2, Zenon DEF RecordConstructed, Proceed, TunnelInv
  <2>2. \A u \in Tunnels : registering[u] = "done" => registering'[u] = "done"
    BY <1>2, <2>1 DEF RecordConstructed, DaemonTypeOK
  <2>. QED
    BY <1>2, <2>2 DEF RecordConstructed, RegistryInv
<1>3. ASSUME NEW t \in Tunnels, RegistryRegister(t)
      PROVE  RegistryInv'
  <2>1. \A u \in Tunnels : u = t \/ registering[u] = "done" => registering'[u] = "done"
    BY <1>3 DEF RegistryRegister, DaemonTypeOK
  <2>2. \A n \in Names : registry'[n] \in {registry[n], t}
    BY <1>3 DEF RegistryRegister, DaemonTypeOK
  <2>. QED
    BY <2>1, <2>2 DEF RegistryInv
<1>4. ASSUME NEW t \in Tunnels, RegistryRegisterFails(t)
      PROVE  RegistryInv'
  <2>1. \A u \in Tunnels : registering[u] = "done" => registering'[u] = "done"
    BY <1>4 DEF RegistryRegisterFails, DaemonTypeOK
  <2>. QED
    BY <1>4, <2>1 DEF RegistryRegisterFails, RegistryInv
<1>5. ASSUME NEW t \in Tunnels, RegistryDeregister(t)
      PROVE  RegistryInv'
  <2>1. \A n \in Names : registry'[n] \in {registry[n], Nobody}
    BY <1>5, Zenon DEF RegistryDeregister, DaemonTypeOK
  <2>2. registering' = registering
    BY <1>5, Zenon DEF RegistryDeregister
  <2>. QED
    BY <2>1, <2>2, DaemonAssumption DEF RegistryInv
<1>6. ASSUME NEW t \in Tunnels, LifecycleStep(t), ~RecordConstructed(t)
      PROVE  UNCHANGED <<registry, registering>>
  BY <1>6, Zenon DEF LifecycleStep, Authenticated, AuthenticationFails, ConstructionFails,
      RegistrationFails, TrackById, TrackByName, ReportAuthentication, OpenDownlink,
      DownlinkClosed, IncomingEnds, IncomingFails, Drained, CloseAfterLifecycle
<1>7. ASSUME NEW t \in Tunnels,
             SendDisconnected(t) \/ ClearPeer(t) \/ RegistryDeregisterFails(t)
      PROVE  UNCHANGED <<registry, registering>>
  BY <1>7 DEF SendDisconnected, ClearPeer, RegistryDeregisterFails, daemonVars
<1>8. ASSUME NEW t \in Tunnels,
             \/ Accept(t) \/ AuthenticationStep(t)
             \/ \E reason \in Reasons : Close(t, reason)
             \/ ServiceRetains(t) \/ ServiceReleases(t)
             \/ LoseConnection(t) \/ AcceptFails(t) \/ OpenFails(t) \/ Cancel(t)
      PROVE  UNCHANGED <<registry, registering>>
  BY <1>8, Zenon DEF Accept, AuthenticationStep, AuthenticationTaskEnds, Close, ServiceRetains,
      ServiceReleases, LoseConnection, AcceptFails, OpenFails, Cancel
<1>9. ASSUME NEW t \in Tunnels, NEW r \in Requests,
             IncomingRequest(t, r) \/ NegotiationStep(t, r) \/ HandlerReturns(t, r)
      PROVE  UNCHANGED <<registry, registering>>
  BY <1>9 DEF IncomingRequest, NegotiationStep, NegotiationRefused, Negotiated,
      NegotiationFatal, HandlerReturns, RequestStep
<1>10. CASE Shutdown \/ UNCHANGED vars
  BY <1>1, <1>10 DEF Shutdown, vars, daemonVars
<1>. QED
  BY <1>1, <1>2, <1>3, <1>4, <1>5, <1>6, <1>7, <1>8, <1>9, <1>10 DEF Next, BackgroundStep

(***************************************************************************)
(* A tunnel dropped before it was registered is left in a consistent       *)
(* state, however far its lifecycle had come.                              *)
(***************************************************************************)
LEMMA UnregisteredEnds ==
    ASSUME NEW t \in Tunnels, TunnelInv(t), callback[t] = "failure_closing",
           pc'[t] \in {"ended", "over"}, ~Wrapped(t)', callback'[t] = "spent",
           auth'[t] = auth[t] \/ (auth'[t] # "running" /\ registering[t] = "none"),
           deregistration'[t] = deregistration[t], registering'[t] = registering[t],
           phase[t] # "by_id_inserted", phase'[t] = phase[t], events'[t] = events[t],
           \A r \in Requests : request'[t][r] = "idle"
    PROVE  TunnelInv(t)'
BY Zenon DEF TunnelInv, Wrapped, Running, Awaiting, Served

\* A registered tunnel whose last clone is dropped is to be deregistered.
LEMMA RegisteredEnds ==
    ASSUME NEW t \in Tunnels, TunnelInv(t), callback[t] = "deregistering",
           pc'[t] \in {"ended", "over"}, ~Wrapped(t)', callback'[t] = "spent",
           auth'[t] = auth[t], deregistration'[t] = "spawned",
           registering'[t] = registering[t], phase'[t] = phase[t], events'[t] = events[t],
           \A r \in Requests : request'[t][r] = "idle"
    PROVE  TunnelInv(t)'
BY Zenon DEF TunnelInv, Wrapped, Running, Awaiting, Served

(***************************************************************************)
(* Every step keeps what the armed callback says of a tunnel.  The case of *)
(* an action names its effect on the one tunnel it concerns; the other     *)
(* tunnels are left alone (Frame).                                         *)
(***************************************************************************)
LEMMA TunnelStep ==
    ASSUME DaemonTypeOK, \A t \in Tunnels : TunnelInv(t), [Next]_vars
    PROVE  \A t \in Tunnels : TunnelInv(t)'
<1>. DEFINE Goal == \A t \in Tunnels : TunnelInv(t)'
            Others(t) == \A u \in Tunnels \ {t} : SameFor(u)
<1>. USE DEF lifecycleVars, dropVars, serviceVars, trackerVars, tunnelVars
<1>0. ASSUME NEW t \in Tunnels, Others(t), TunnelInv(t)'
      PROVE  Goal
  BY <1>0, Frame
\* The tunnel's own control and monitoring: no task of the daemon moves.
<1>1. ASSUME UNCHANGED <<pc, auth, registering, callback, deregistration, request,
                         retained, events, phase>>
      PROVE  Goal
  BY <1>1, Frame DEF SameFor
<1>2. ASSUME NEW t \in Tunnels,
             \/ \E reason \in Reasons : Close(t, reason)
             \/ LoseConnection(t) \/ AcceptFails(t) \/ OpenFails(t)
      PROVE  Goal
  BY <1>1, <1>2 DEF Close, LoseConnection, AcceptFails, OpenFails
<1>3. ASSUME Shutdown \/ UNCHANGED vars
      PROVE  Goal
  BY <1>1, <1>3 DEF Shutdown, vars, daemonVars
\* Registration, up to the exchange of the callbacks.
<1>4. ASSUME NEW t \in Tunnels, Accept(t)
      PROVE  Goal
  <2>. USE <1>4 DEF Accept, StartLifecycle, Proceed, Send
  <2>1. Others(t)
    BY DEF DaemonTypeOK, SameFor
  <2>2. TunnelInv(t)
    OBVIOUS
  <2>3. events[t] = <<>>
    BY <2>2, Zenon DEF TunnelInv
  <2>4. events'[t] = <<"connected">>
    BY <2>3 DEF DaemonTypeOK
  <2>5. /\ pc[t] = "source"
        /\ pc'[t] = "authenticating" /\ callback'[t] = "failure_closing"
        /\ auth'[t] = "running" /\ deregistration'[t] = deregistration[t]
        /\ registering'[t] = registering[t] /\ phase'[t] = phase[t]
        /\ request'[t] = request[t] /\ retained' = retained
    BY DEF DaemonTypeOK
  <2>6. TunnelInv(t)'
    BY ONLY <2>2, <2>4, <2>5, Zenon DEF TunnelInv, Wrapped, Running, Awaiting, Served
  <2>. QED
    BY <1>0, <2>1, <2>6
<1>5. ASSUME NEW t \in Tunnels, Authenticated(t)
      PROVE  Goal
  <2>. USE <1>5 DEF Authenticated, Proceed
  <2>1. Others(t)
    BY DEF DaemonTypeOK, SameFor
  <2>2. TunnelInv(t)
    OBVIOUS
  <2>3. /\ pc[t] = "authenticating" /\ pc'[t] = "constructing" /\ auth[t] = "ok"
        /\ UNCHANGED <<auth, registering, callback, deregistration, request, retained,
                       events, phase>>
    BY DEF DaemonTypeOK
  <2>4. TunnelInv(t)'
    BY ONLY <2>2, <2>3, Zenon DEF TunnelInv, Wrapped, Running, Awaiting, Served
  <2>. QED
    BY <1>0, <2>1, <2>4
<1>6. ASSUME NEW t \in Tunnels, RecordConstructed(t)
      PROVE  Goal
  <2>. USE <1>6 DEF RecordConstructed, Proceed
  <2>1. Others(t)
    BY DEF DaemonTypeOK, SameFor
  <2>2. TunnelInv(t)
    OBVIOUS
  <2>3. /\ pc[t] = "constructing" /\ pc'[t] = "registering" /\ registering'[t] = "pending"
        /\ UNCHANGED <<auth, callback, deregistration, request, retained, events, phase>>
    BY DEF DaemonTypeOK
  <2>4. TunnelInv(t)'
    BY ONLY <2>2, <2>3, Zenon DEF TunnelInv, Wrapped, Running, Awaiting, Served
  <2>. QED
    BY <1>0, <2>1, <2>4
<1>7. ASSUME NEW t \in Tunnels, RegistryRegister(t)
      PROVE  Goal
  <2>. USE <1>7 DEF RegistryRegister
  <2>1. Others(t)
    BY Zenon DEF DaemonTypeOK, SameFor
  <2>2. TunnelInv(t)
    OBVIOUS
  <2>3. /\ registering[t] = "pending" /\ registering'[t] = "done"
        /\ UNCHANGED <<pc, auth, callback, deregistration, request, retained, events, phase>>
    BY DEF DaemonTypeOK
  <2>4. TunnelInv(t)'
    BY ONLY <2>2, <2>3, Zenon DEF TunnelInv, Wrapped, Running, Awaiting, Served
  <2>. QED
    BY <1>0, <2>1, <2>4
<1>8. ASSUME NEW t \in Tunnels, RegistryRegisterFails(t)
      PROVE  Goal
  <2>. USE <1>8 DEF RegistryRegisterFails
  <2>1. Others(t)
    BY DEF DaemonTypeOK, SameFor
  <2>2. TunnelInv(t)
    OBVIOUS
  <2>3. /\ registering[t] = "pending" /\ registering'[t] = "failed"
        /\ UNCHANGED <<pc, auth, callback, deregistration, request, retained, events, phase>>
    BY DEF DaemonTypeOK
  <2>4. TunnelInv(t)'
    BY ONLY <2>2, <2>3, Zenon DEF TunnelInv, Wrapped, Running, Awaiting, Served
  <2>. QED
    BY <1>0, <2>1, <2>4
<1>9. ASSUME NEW t \in Tunnels, TrackById(t)
      PROVE  Goal
  <2>. USE <1>9 DEF TrackById, Proceed, InsertById, Advance
  <2>1. Others(t)
    BY DEF DaemonTypeOK, TrackerTypeOK, SameFor
  <2>2. TunnelInv(t)
    OBVIOUS
  <2>3. /\ pc[t] = "registering" /\ registering[t] = "done" /\ pc'[t] = "tracking"
        /\ phase'[t] = "by_id_inserted"
        /\ UNCHANGED <<auth, registering, callback, deregistration, request, retained, events>>
    BY DEF DaemonTypeOK, TrackerTypeOK
  <2>4. TunnelInv(t)'
    BY ONLY <2>2, <2>3, Zenon DEF TunnelInv, Wrapped, Running, Awaiting, Served
  <2>. QED
    BY <1>0, <2>1, <2>4
<1>10. ASSUME NEW t \in Tunnels, TrackByName(t)
      PROVE  Goal
  <2>. USE <1>10 DEF TrackByName, Proceed, InsertByName, Advance
  <2>1. Others(t)
    BY Zenon DEF DaemonTypeOK, TrackerTypeOK, SameFor
  <2>2. TunnelInv(t)
    OBVIOUS
  <2>3. /\ pc[t] = "tracking" /\ pc'[t] = "reporting" /\ phase'[t] = "tracked"
        /\ UNCHANGED <<auth, registering, callback, deregistration, request, retained, events>>
    BY Zenon DEF DaemonTypeOK, TrackerTypeOK
  <2>4. TunnelInv(t)'
    BY ONLY <2>2, <2>3, Zenon DEF TunnelInv, Wrapped, Running, Awaiting, Served
  <2>. QED
    BY <1>0, <2>1, <2>4
<1>11. ASSUME NEW t \in Tunnels, ReportAuthentication(t)
      PROVE  Goal
  <2>. USE <1>11 DEF ReportAuthentication, Proceed, Send
  <2>1. Others(t)
    BY DEF DaemonTypeOK, SameFor
  <2>2. TunnelInv(t)
    OBVIOUS
  <2>3. /\ pc[t] = "reporting" /\ pc'[t] = "downlink" /\ callback'[t] = "deregistering"
        /\ UNCHANGED <<auth, registering, deregistration, request, retained, phase>>
    BY DEF DaemonTypeOK
  <2>4. events[t] = <<"connected">>
    BY ONLY <2>2, <2>3, Zenon DEF TunnelInv, Running, Awaiting, Served
  <2>5. events'[t] \in {<<"connected">>, <<"connected", "authenticated">>}
    <3>1. events'[t] = events[t] \/ events'[t] = Append(events[t], "authenticated")
      BY DEF DaemonTypeOK
    <3>. QED
      BY ONLY <2>4, <3>1, AppendToOne
  <2>6. TunnelInv(t)'
    BY ONLY <2>2, <2>3, <2>5, Zenon DEF TunnelInv, Wrapped, Running, Awaiting, Served
  <2>. QED
    BY <1>0, <2>1, <2>6
\* Service.
<1>12. ASSUME NEW t \in Tunnels, OpenDownlink(t) \/ IncomingEnds(t)
      PROVE  Goal
  <2>. USE <1>12 DEF OpenDownlink, IncomingEnds, Proceed
  <2>1. Others(t)
    <3>1. \A u \in Tunnels \ {t} : pc'[u] = pc[u]
      BY DEF DaemonTypeOK
    <3>. QED
      BY <3>1, Zenon DEF SameFor
  <2>2. TunnelInv(t)
    OBVIOUS
  <2>3. /\ \/ pc[t] = "downlink" /\ pc'[t] = "serving"
           \/ pc[t] = "serving" /\ pc'[t] = "draining"
        /\ UNCHANGED <<auth, registering, callback, deregistration, request, retained,
                       events, phase>>
    BY Zenon DEF DaemonTypeOK
  <2>4. TunnelInv(t)'
    BY ONLY <2>2, <2>3, Zenon DEF TunnelInv, Wrapped, Running, Awaiting, Served
  <2>. QED
    BY <1>0, <2>1, <2>4
<1>13. ASSUME NEW t \in Tunnels, NEW r \in Requests,
              \/ IncomingRequest(t, r) \/ NegotiationRefused(t, r) \/ Negotiated(t, r)
              \/ HandlerReturns(t, r)
       PROVE  Goal
  <2>. USE <1>13 DEF IncomingRequest, NegotiationRefused, Negotiated, HandlerReturns, RequestStep
  <2>1. Others(t)
    <3>1. \E to : request' = [request EXCEPT ![t][r] = to]
      BY Zenon
    <3>2. \A u \in Tunnels \ {t} : request'[u] = request[u]
      BY ONLY DaemonTypeOK, t \in Tunnels, <3>1 DEF DaemonTypeOK
    <3>3. UNCHANGED <<pc, auth, registering, callback, deregistration, retained, events, phase>>
      BY Zenon
    <3>. QED
      BY ONLY <3>2, <3>3, Zenon DEF SameFor
  <2>2. TunnelInv(t)
    BY Zenon
  <2>3. /\ pc[t] = "serving" \/ request[t][r] # "idle"
        /\ UNCHANGED <<pc, auth, registering, callback, deregistration, retained, events, phase>>
    BY Zenon
  <2>4. pc[t] \in {"serving", "draining"}
    BY ONLY r \in Requests, <2>2, <2>3, Zenon DEF TunnelInv
  <2>5. TunnelInv(t)'
    BY ONLY <2>2, <2>3, <2>4, Zenon DEF TunnelInv, Wrapped, Running, Awaiting, Served
  <2>. QED
    BY <1>0, <2>1, <2>5, Zenon
<1>14. ASSUME NEW t \in Tunnels, ServiceRetains(t)
       PROVE  Goal
  <2>. USE <1>14 DEF ServiceRetains
  <2>1. Others(t)
    BY DEF DaemonTypeOK, SameFor
  <2>2. TunnelInv(t)
    BY Zenon
  <2>3. /\ \E r \in Requests : request[t][r] # "idle"
        /\ t \in retained'
        /\ UNCHANGED <<pc, auth, registering, callback, deregistration, request, events, phase>>
    BY Zenon
  <2>4. pc[t] \in {"serving", "draining"}
    BY ONLY <2>2, <2>3, Zenon DEF TunnelInv
  <2>5. TunnelInv(t)'
    BY ONLY <2>2, <2>3, <2>4, Zenon DEF TunnelInv, Wrapped, Running, Awaiting, Served
  <2>. QED
    BY <1>0, <2>1, <2>5
\* The actions that may drop the last clone of the wrapper., Zenon
<1>15. ASSUME NEW t \in Tunnels, NEW result, Return(t, result),
              UNCHANGED <<auth, registering, events, phase>>,
              auth[t] # "running", t \in retained => callback[t] = "deregistering",
              \/ callback[t] = "failure_closing" /\ phase[t] # "by_id_inserted"
              \/ callback[t] = "deregistering"
       PROVE  Goal
  <2>. USE <1>15 DEF Return
  <2>1. Others(t)
    <3>1. \A u \in Tunnels \ {t} : callback'[u] = callback[u] /\ deregistration'[u] = deregistration[u]
      BY DropCallbackEffect, Zenon
    <3>2. /\ \A u \in Tunnels \ {t} : pc'[u] = pc[u] /\ request'[u] = request[u]
          /\ UNCHANGED <<auth, registering, retained, events, phase>>
      BY DEF DaemonTypeOK
    <3>. QED
      BY ONLY <3>1, <3>2 DEF SameFor
  <2>2. TunnelInv(t)
    BY Zenon
  <2>3. /\ pc'[t] = "ended" /\ (\A r \in Requests : request'[t][r] = "idle")
        /\ UNCHANGED <<auth, registering, retained, events, phase>>
    BY DEF DaemonTypeOK
  <2>4. /\ Wrapped(t)' => /\ callback'[t] = callback[t]
                          /\ deregistration'[t] = deregistration[t]
        /\ ~Wrapped(t)' => /\ callback'[t] = "spent"
                           /\ deregistration'[t] = IF callback[t] = "deregistering"
                                                   THEN "spawned" ELSE deregistration[t]
    BY DropCallbackEffect, Zenon
  <2>5. ASSUME Wrapped(t)'
      PROVE  TunnelInv(t)'
    <3>1. t \in retained /\ callback[t] = "deregistering"
      BY ONLY <1>15, <2>3, <2>5, Zenon DEF Wrapped, Running, Awaiting
    <3>. QED
      BY ONLY <2>2, <2>3, <2>4, <2>5, <3>1, Zenon DEF TunnelInv, Wrapped, Running, Awaiting, Served
  <2>6. ASSUME ~Wrapped(t)' /\ callback[t] = "failure_closing"
      PROVE  TunnelInv(t)'
    BY ONLY t \in Tunnels, <1>15, <2>2, <2>3, <2>4, <2>6, UnregisteredEnds, Zenon
  <2>7. ASSUME ~Wrapped(t)' /\ callback[t] = "deregistering"
      PROVE  TunnelInv(t)'
    BY ONLY t \in Tunnels, <1>15, <2>2, <2>3, <2>4, <2>7, RegisteredEnds, Zenon
  <2>. QED
    BY <1>0, <2>1, <2>5, <2>6, <2>7, Zenon
<1>16. ASSUME NEW t \in Tunnels,
              AuthenticationFails(t) \/ ConstructionFails(t) \/ RegistrationFails(t)
       PROVE  Goal
  <2>1. /\ \E result : Return(t, result)
        /\ UNCHANGED <<auth, registering, events, phase>>
        /\ \/ pc[t] = "authenticating" /\ auth[t] # "running"
           \/ pc[t] \in {"constructing", "registering"}
    BY <1>16, Zenon DEF AuthenticationFails, ConstructionFails, RegistrationFails
  <2>2. TunnelInv(t)
    OBVIOUS
  <2>3. /\ auth[t] # "running" /\ callback[t] = "failure_closing"
        /\ t \notin retained /\ phase[t] # "by_id_inserted"
    BY ONLY <2>1, <2>2, Zenon DEF TunnelInv, Running, Awaiting, Served
  <2>. QED
    BY <1>15, <2>1, <2>3, Zenon
<1>17. ASSUME NEW t \in Tunnels,
              \/ DownlinkClosed(t) \/ IncomingFails(t) \/ Drained(t)
              \/ \E r \in Requests : NegotiationFatal(t, r)
       PROVE  Goal
  <2>1. /\ \E result : Return(t, result)
        /\ UNCHANGED <<auth, registering, events, phase>>
        /\ \/ pc[t] \in {"downlink", "serving", "draining"}
           \/ \E r \in Requests : request[t][r] # "idle"
    BY <1>17, Zenon DEF DownlinkClosed, IncomingFails, Drained, NegotiationFatal
  <2>2. TunnelInv(t)
    OBVIOUS
  <2>3. auth[t] # "running" /\ callback[t] = "deregistering"
    BY ONLY <2>1, <2>2, Zenon DEF TunnelInv, Running, Awaiting, Served
  <2>. QED
    BY <1>15, <2>1, <2>3, Zenon
<1>18. ASSUME NEW t \in Tunnels, NEW result \in {"ok", "refused", "error"},
              AuthenticationTaskEnds(t, result)
       PROVE  Goal
  <2>. USE <1>18 DEF AuthenticationTaskEnds
  <2>1. Others(t)
    <3>1. \A u \in Tunnels \ {t} : callback'[u] = callback[u] /\ deregistration'[u] = deregistration[u]
      BY DropCallbackEffect, Zenon
    <3>2. /\ \A u \in Tunnels \ {t} : auth'[u] = auth[u]
          /\ UNCHANGED <<pc, registering, request, retained, events, phase>>
      BY DEF DaemonTypeOK
    <3>. QED
      BY ONLY <3>1, <3>2, Zenon DEF SameFor
  <2>2. TunnelInv(t)
    OBVIOUS
  <2>3. /\ auth[t] = "running" /\ auth'[t] # "running"
        /\ UNCHANGED <<pc, registering, request, retained, events, phase>>
    BY DEF DaemonTypeOK
  <2>4. /\ Wrapped(t)' => /\ callback'[t] = callback[t]
                          /\ deregistration'[t] = deregistration[t]
        /\ ~Wrapped(t)' => /\ callback'[t] = "spent"
                           /\ deregistration'[t] = IF callback[t] = "deregistering"
                                                   THEN "spawned" ELSE deregistration[t]
    BY DropCallbackEffect, Zenon
  <2>5. /\ callback[t] = "failure_closing" /\ registering[t] = "none"
        /\ phase[t] # "by_id_inserted" /\ pc[t] \in {"authenticating", "over"}
        /\ t \notin retained /\ \A r \in Requests : request[t][r] = "idle"
    BY ONLY <2>2, <2>3, Zenon DEF TunnelInv, Running, Awaiting, Served
  <2>6. ASSUME pc[t] = "authenticating"
      PROVE  TunnelInv(t)'
    <3>1. Wrapped(t)'
      BY ONLY <2>3, <2>6 DEF Wrapped, Running, Awaiting
    <3>. QED
      BY ONLY <2>2, <2>3, <2>4, <2>5, <2>6, <3>1, Zenon DEF TunnelInv, Wrapped, Running, Awaiting, Served
  <2>7. ASSUME pc[t] = "over"
      PROVE  TunnelInv(t)'
    <3>1. ~Wrapped(t)'
      BY ONLY <2>3, <2>5, <2>7, Zenon DEF Wrapped, Running, Awaiting
    <3>. QED
      BY ONLY t \in Tunnels, <2>2, <2>3, <2>4, <2>5, <2>7, <3>1, UnregisteredEnds, Zenon
  <2>. QED
    BY <1>0, <2>1, <2>5, <2>6, <2>7, Zenon
<1>19. ASSUME NEW t \in Tunnels, ServiceReleases(t)
       PROVE  Goal
  <2>. USE <1>19 DEF ServiceReleases
  <2>1. Others(t)
    <3>1. \A u \in Tunnels \ {t} : callback'[u] = callback[u] /\ deregistration'[u] = deregistration[u]
      BY DropCallbackEffect, Zenon
    <3>2. /\ \A u \in Tunnels \ {t} : u \in retained' <=> u \in retained
          /\ UNCHANGED <<pc, auth, registering, request, events, phase>>
      BY DEF DaemonTypeOK
    <3>. QED
      BY ONLY <3>1, <3>2, Zenon DEF SameFor
  <2>2. TunnelInv(t)
    OBVIOUS
  <2>3. /\ t \in retained /\ t \notin retained'
        /\ UNCHANGED <<pc, auth, registering, request, events, phase>>
    OBVIOUS
  <2>4. /\ Wrapped(t)' => /\ callback'[t] = callback[t]
                          /\ deregistration'[t] = deregistration[t]
        /\ ~Wrapped(t)' => /\ callback'[t] = "spent"
                           /\ deregistration'[t] = IF callback[t] = "deregistering"
                                                   THEN "spawned" ELSE deregistration[t]
    BY DropCallbackEffect, Zenon
  <2>5. callback[t] = "deregistering" /\ auth[t] # "running"
    BY ONLY <2>2, <2>3, Zenon DEF TunnelInv
  <2>6. ASSUME Wrapped(t)'
      PROVE  TunnelInv(t)'
    BY ONLY <2>2, <2>3, <2>4, <2>5, <2>6, Zenon DEF TunnelInv, Wrapped, Running, Awaiting, Served
  <2>7. ASSUME ~Wrapped(t)'
      PROVE  TunnelInv(t)'
    <3>1. pc[t] \in {"ended", "over"} /\ \A r \in Requests : request[t][r] = "idle"
      BY ONLY <2>2, <2>3, <2>5, <2>7, DaemonTypeOK, t \in Tunnels
        , Zenon DEF TunnelInv, Wrapped, Running, Awaiting, Served, DaemonTypeOK
    <3>. QED
      BY ONLY t \in Tunnels, <2>2, <2>3, <2>4, <2>5, <2>7, <3>1, RegisteredEnds, Zenon
  <2>. QED
    BY <1>0, <2>1, <2>6, <2>7
<1>20. ASSUME NEW t \in Tunnels, Cancel(t)
       PROVE  Goal
  <2>. USE <1>20 DEF Cancel
  <2>1. Others(t)
    <3>1. \A u \in Tunnels \ {t} : callback'[u] = callback[u] /\ deregistration'[u] = deregistration[u]
      BY DropCallbackEffect, Zenon
    <3>2. /\ \A u \in Tunnels \ {t} : pc'[u] = pc[u] /\ request'[u] = request[u]
          /\ UNCHANGED <<auth, registering, retained, events, phase>>
      BY DEF DaemonTypeOK
    <3>. QED
      BY ONLY <3>1, <3>2 DEF SameFor
  <2>2. TunnelInv(t)
    OBVIOUS
  <2>3. /\ pc[t] \in Awaiting /\ pc'[t] = "over"
        /\ \A r \in Requests : request'[t][r] = "idle"
        /\ UNCHANGED <<auth, registering, retained, events, phase>>
    BY DEF DaemonTypeOK
  <2>4. /\ Wrapped(t)' => /\ callback'[t] = callback[t]
                          /\ deregistration'[t] = deregistration[t]
        /\ ~Wrapped(t)' => /\ callback'[t] = "spent"
                           /\ deregistration'[t] = IF callback[t] = "deregistering"
                                                   THEN "spawned" ELSE deregistration[t]
    BY DropCallbackEffect, Zenon
  <2>5. /\ phase[t] # "by_id_inserted"
        /\ \/ callback[t] = "failure_closing" /\ t \notin retained
           \/ callback[t] = "deregistering" /\ auth[t] # "running"
    BY ONLY <2>2, <2>3, Zenon DEF TunnelInv, Running, Awaiting, Served
  <2>6. ASSUME Wrapped(t)'
        PROVE  TunnelInv(t)'
    <3>1. \/ auth[t] = "running" /\ pc[t] = "authenticating"
          \/ t \in retained /\ callback[t] = "deregistering"
      BY ONLY <2>2, <2>3, <2>5, <2>6, Zenon DEF TunnelInv, Wrapped, Running, Awaiting
    <3>. QED
      BY ONLY <2>2, <2>3, <2>4, <2>5, <2>6, <3>1, Zenon DEF TunnelInv, Wrapped, Running, Awaiting, Served
  <2>7. ASSUME ~Wrapped(t)', callback[t] = "failure_closing"
        PROVE  TunnelInv(t)'
    BY ONLY t \in Tunnels, <2>2, <2>3, <2>4, <2>5, <2>7, UnregisteredEnds, Zenon
  <2>8. ASSUME ~Wrapped(t)', callback[t] = "deregistering"
        PROVE  TunnelInv(t)'
    BY ONLY t \in Tunnels, <2>2, <2>3, <2>4, <2>8, RegisteredEnds, Zenon
  <2>. QED
    BY <1>0, <2>1, <2>5, <2>6, <2>7, <2>8
\* After the lifecycle: the tunnel is closed, and deregistered if it was registered., Zenon
<1>21. ASSUME NEW t \in Tunnels, CloseAfterLifecycle(t)
       PROVE  Goal
  <2>. USE <1>21 DEF CloseAfterLifecycle
  <2>1. Others(t)
    BY Zenon DEF DaemonTypeOK, SameFor
  <2>2. TunnelInv(t)
    OBVIOUS
  <2>3. /\ pc[t] = "ended" /\ pc'[t] = "over"
        /\ UNCHANGED <<auth, registering, callback, deregistration, request, retained,
                       events, phase>>
    BY DEF DaemonTypeOK
  <2>4. TunnelInv(t)'
    BY ONLY <2>2, <2>3, Zenon DEF TunnelInv, Wrapped, Running, Awaiting, Served
  <2>. QED
    BY <1>0, <2>1, <2>4
<1>22. ASSUME NEW t \in Tunnels, SendDisconnected(t)
       PROVE  Goal
  <2>. USE <1>22 DEF SendDisconnected, Send
  <2>1. Others(t)
    <3>1. \A u \in Tunnels \ {t} : deregistration'[u] = deregistration[u] /\ events'[u] = events[u]
      BY DEF DaemonTypeOK
    <3>. QED
      BY <3>1, Zenon DEF SameFor
  <2>2. TunnelInv(t)
    OBVIOUS
  <2>3. /\ deregistration[t] = "spawned" /\ deregistration'[t] = "clearing"
        /\ events'[t] = Append(events[t], "disconnected")
        /\ UNCHANGED <<pc, auth, registering, callback, request, retained, phase>>
    BY DEF DaemonTypeOK
  <2>4. events[t] \in {<<"connected">>, <<"connected", "authenticated">>}
    BY ONLY <2>2, <2>3, Zenon DEF TunnelInv
  <2>5. events'[t] \in {<<"connected", "disconnected">>,
                        <<"connected", "authenticated", "disconnected">>}
    BY ONLY <2>3, <2>4, AppendToOne, AppendToTwo, Zenon
  <2>6. TunnelInv(t)'
    BY ONLY <2>2, <2>3, <2>5, Zenon DEF TunnelInv, Wrapped, Running, Awaiting, Served
  <2>. QED
    BY <1>0, <2>1, <2>6
<1>23. ASSUME NEW t \in Tunnels, ClearPeer(t)
       PROVE  Goal
  <2>. USE <1>23 DEF ClearPeer, daemonVars
  <2>1. /\ phase[t] \notin {"untracked", "by_id_inserted"}
        /\ phase'[t] \notin {"untracked", "by_id_inserted"}
        /\ \A u \in Tunnels \ {t} : phase'[u] = phase[u]
    <3>. phase \in [Tunnels -> Phases]
      BY DEF DaemonTypeOK, TrackerTypeOK
    <3>1. CASE RemoveById(t)
      BY <3>1 DEF RemoveById, Advance
    <3>2. CASE FetchSubtable(t)
      BY <3>2, Zenon DEF FetchSubtable, Advance
    <3>3. CASE RemoveFromSubtable(t)
      BY <3>3, Zenon DEF RemoveFromSubtable, Advance
    <3>4. CASE \E n \in Names : RetainVisit(t, n)
      BY <3>4, Zenon DEF RetainVisit
    <3>5. CASE RetainEnd(t)
      BY <3>5, Zenon DEF RetainEnd, Advance
    <3>. QED
      BY <3>1, <3>2, <3>3, <3>4, <3>5, Zenon DEF ClearStep
  <2>2. Others(t)
    BY <2>1, Zenon DEF SameFor
  <2>3. TunnelInv(t)
    OBVIOUS
  <2>4. /\ deregistration[t] = "clearing"
        /\ UNCHANGED <<pc, auth, registering, callback, deregistration, request, retained,
                       events>>
    OBVIOUS
  <2>5. TunnelInv(t)'
    BY ONLY <2>1, <2>3, <2>4, Zenon DEF TunnelInv, Wrapped, Running, Awaiting, Served
  <2>. QED
    BY <1>0, <2>2, <2>5
<1>24. ASSUME NEW t \in Tunnels, NEW end \in {"done", "failed"}, deregistration[t] = "clearing",
              deregistration' = [deregistration EXCEPT ![t] = end],
              UNCHANGED <<pc, auth, registering, callback, request, retained, events, phase>>
       PROVE  Goal
  <2>. USE <1>24
  <2>1. Others(t)
    BY DEF DaemonTypeOK, SameFor
  <2>2. TunnelInv(t)
    OBVIOUS
  <2>3. deregistration'[t] \in {"done", "failed"}
    BY DEF DaemonTypeOK
  <2>4. TunnelInv(t)'
    BY ONLY <1>24, <2>2, <2>3, Zenon DEF TunnelInv, Wrapped, Running, Awaiting, Served
  <2>. QED
    BY <1>0, <2>1, <2>4
<1>25. ASSUME NEW t \in Tunnels, RegistryDeregister(t)
       PROVE  Goal
  BY <1>24, <1>25, Zenon DEF RegistryDeregister
<1>26. ASSUME NEW t \in Tunnels, RegistryDeregisterFails(t)
       PROVE  Goal
  BY <1>24, <1>26, Zenon DEF RegistryDeregisterFails
<1>. HIDE DEF Goal, Others
<1>27. ASSUME NEW t \in Tunnels, LifecycleStep(t)
       PROVE  Goal
  BY <1>27, <1>5, <1>6, <1>9, <1>10, <1>11, <1>12, <1>16, <1>17, <1>21 DEF LifecycleStep
<1>28. ASSUME NEW t \in Tunnels, BackgroundStep(t)
       PROVE  Goal
  BY <1>28, <1>7, <1>8, <1>22, <1>23, <1>25, <1>26 DEF BackgroundStep
<1>29. ASSUME NEW t \in Tunnels, NEW r \in Requests,
              IncomingRequest(t, r) \/ NegotiationStep(t, r) \/ HandlerReturns(t, r)
       PROVE  Goal
  BY <1>29, <1>13, <1>17 DEF NegotiationStep
<1>30. ASSUME NEW t \in Tunnels, AuthenticationStep(t)
       PROVE  Goal
  BY <1>30, <1>18 DEF AuthenticationStep
<1>31. ASSUME NEW t \in Tunnels,
              \/ Accept(t) \/ ServiceRetains(t) \/ ServiceReleases(t) \/ Cancel(t)
              \/ LoseConnection(t) \/ AcceptFails(t) \/ OpenFails(t)
              \/ \E reason \in Reasons : Close(t, reason)
       PROVE  Goal
  BY <1>31, <1>2, <1>4, <1>14, <1>19, <1>20
<1>32. Goal
  BY <1>3, <1>27, <1>28, <1>29, <1>30, <1>31 DEF Next
<1>. QED
  BY <1>32 DEF Goal

\* DaemonInv is inductive.
LEMMA DaemonStepInv ==
    ASSUME DaemonInv, [Next]_vars
    PROVE  DaemonInv'
<1>1. /\ DaemonTypeOK /\ TrackerInv /\ RegistryInv
      /\ \A t \in Tunnels : TunnelInv(t)
  BY DEF DaemonInv
<1>2. TrackerInv' /\ TrackerTypeOK'
  <2>1. [TrackerNext]_trackerVars
    BY DaemonTrackerStep
  <2>. QED
    BY <1>1, <2>1, TrackerStepInv, Zenon DEF TrackerInv
<1>3. DaemonTypeOK'
  BY <1>1, <1>2, DaemonTypeStep
<1>4. RegistryInv'
  BY <1>1, RegistryStep
<1>5. \A t \in Tunnels : TunnelInv(t)'
  BY <1>1, TunnelStep
<1>. QED
  BY <1>2, <1>3, <1>4, <1>5 DEF DaemonInv

(***************************************************************************)
(* The inductive invariant holds throughout, with any interleaving of the  *)
(* lifecycles, registry calls, services, cancellations and deregistrations *)
(* of any number of tunnels.                                               *)
(***************************************************************************)
THEOREM DaemonCorrect == Safety => []DaemonInv
<1>1. Init => DaemonInv
  BY DaemonInitInv
<1>2. DaemonInv /\ [Next]_vars => DaemonInv'
  BY DaemonStepInv
<1>. QED
  BY <1>1, <1>2, PTL DEF Safety

(***************************************************************************)
(* A tunnel that has not passed authentication is in no peer table, not in *)
(* the registry, and has no request: register_tunnel is the only way into  *)
(* either, and comes after authenticate_tunnel in tunnel_lifecycle.        *)
(***************************************************************************)
THEOREM AuthenticationComesFirst == Safety => []OnlyAuthenticatedIsRegistered
<1>1. DaemonInv => OnlyAuthenticatedIsRegistered
  <2>. SUFFICES ASSUME DaemonInv, NEW t \in Tunnels
                PROVE  \/ t \in by_id \/ t \in Lookup(NameOf[t]) \/ registry[NameOf[t]] = t
                       \/ \E r \in Requests : request[t][r] # "idle"
                       => auth[t] = "ok"
    BY Zenon DEF OnlyAuthenticatedIsRegistered
  <2>. USE TrackerAssumption DEF DaemonInv
  <2>1. phase[t] # "untracked" => auth[t] = "ok"
    BY Zenon DEF TunnelInv
  <2>2. t \in by_id \/ t \in Lookup(NameOf[t]) => phase[t] # "untracked"
    BY DEF TrackerInv, TrackerTypeOK, NoGhost, Lookup, Named
  <2>3. registry[NameOf[t]] = t => auth[t] = "ok"
    <3>1. registry[NameOf[t]] = t => registering[t] = "done"
      BY DEF RegistryInv
    <3>2. registering[t] = "done" => auth[t] = "ok"
      BY Zenon DEF TunnelInv
    <3>. QED
      BY <3>1, <3>2, Zenon
  <2>4. (\E r \in Requests : request[t][r] # "idle") => auth[t] = "ok"
    BY Zenon DEF TunnelInv, Served
  <2>. QED
    BY <2>1, <2>2, <2>3, <2>4, Zenon
<1>. QED
  BY <1>1, DaemonCorrect, PTL

(***************************************************************************)
(* A registered tunnel that is served, or that a service's task retains,   *)
(* is found by id and by name in the PeersView, whatever the insertions    *)
(* and deregistrations of other tunnels do to the subtable they share.     *)
(***************************************************************************)
THEOREM ServedIsFound == Safety => []ServedTunnelIsFound
<1>1. DaemonInv => ServedTunnelIsFound
  <2>. SUFFICES ASSUME DaemonInv, NEW t \in Tunnels, pc[t] \in Served \/ t \in retained
                PROVE  GetById(t) /\ t \in GetByName(NameOf[t])
    BY DEF ServedTunnelIsFound, Served
  <2>1. callback[t] = "deregistering" /\ phase[t] = "tracked"
    BY Zenon DEF DaemonInv, TunnelInv
  <2>2. RecordAlive(t)
    BY <2>1 DEF RecordAlive
  <2>3. t \in by_id /\ t \in Lookup(NameOf[t])
    BY <2>1, Zenon DEF DaemonInv, TrackerInv, FoundByName, NoGhost, Named
  <2>. QED
    BY <2>2, <2>3 DEF GetById, GetByName
<1>. QED
  BY <1>1, DaemonCorrect, PTL

(***************************************************************************)
(* Dropkick spawns the deregistration only after the last clone of the     *)
(* wrapper is gone: no lifecycle, authentication task, request or service  *)
(* task still uses the tunnel.                                             *)
(***************************************************************************)
THEOREM DeregistrationComesLast == Safety => []DeregisteredOnlyWhenReleased
<1>1. DaemonInv => DeregisteredOnlyWhenReleased
  <2>. SUFFICES ASSUME DaemonInv, NEW t \in Tunnels, deregistration[t] # "none"
                PROVE  ~Wrapped(t) /\ \A r \in Requests : request[t][r] = "idle"
    BY Zenon DEF DeregisteredOnlyWhenReleased
  <2>1. TunnelInv(t)
    BY DEF DaemonInv
  <2>2. ~Wrapped(t)
    BY ONLY <2>1, deregistration[t] # "none", Zenon DEF TunnelInv
  <2>3. pc[t] \notin {"serving", "draining"}
    BY ONLY <2>2 DEF Wrapped, Running, Awaiting
  <2>. QED
    BY ONLY <2>1, <2>2, <2>3, Zenon DEF TunnelInv
<1>. QED
  BY <1>1, DaemonCorrect, PTL

\* Two events appended to one log are told apart.
LEMMA AppendDiffers ==
    ASSUME NEW S, NEW s \in Seq(S), NEW a \in S, NEW b \in S, a # b
    PROVE  s # Append(s, b) /\ Append(s, a) # Append(s, b)
<1>1. /\ Len(s) \in Nat /\ Len(Append(s, b)) = Len(s) + 1
      /\ Append(s, a)[Len(s) + 1] = a /\ Append(s, b)[Len(s) + 1] = b
  OBVIOUS
<1>2. Len(s) # Len(s) + 1
  BY ONLY <1>1
<1>. QED
  BY ONLY <1>1, <1>2, a # b, Zenon

\* The three steps that send an event.
LEMMA EventStep ==
    ASSUME [Next]_vars
    PROVE  \/ events' = events
           \/ \E u \in Tunnels : Accept(u) \/ ReportAuthentication(u) \/ SendDisconnected(u)
<1>. USE DEF lifecycleVars
<1>1. ASSUME NEW t \in Tunnels, LifecycleStep(t), ~ReportAuthentication(t)
      PROVE  events' = events
  BY <1>1, Zenon DEF LifecycleStep, Authenticated, AuthenticationFails, RecordConstructed,
      ConstructionFails, RegistrationFails, TrackById, TrackByName, OpenDownlink,
      DownlinkClosed, IncomingEnds, IncomingFails, Drained, CloseAfterLifecycle
<1>2. ASSUME NEW t \in Tunnels, BackgroundStep(t), ~SendDisconnected(t)
      PROVE  events' = events
  BY <1>2, Zenon DEF BackgroundStep, RegistryRegister, RegistryRegisterFails, ClearPeer,
      RegistryDeregister, RegistryDeregisterFails, daemonVars
<1>3. ASSUME NEW t \in Tunnels,
             \/ AuthenticationStep(t) \/ \E reason \in Reasons : Close(t, reason)
             \/ ServiceRetains(t) \/ ServiceReleases(t)
             \/ LoseConnection(t) \/ AcceptFails(t) \/ OpenFails(t) \/ Cancel(t)
      PROVE  events' = events
  BY <1>3, Zenon DEF AuthenticationStep, AuthenticationTaskEnds, Close, ServiceRetains,
      ServiceReleases, LoseConnection, AcceptFails, OpenFails, Cancel
<1>4. ASSUME NEW t \in Tunnels, NEW r \in Requests,
             IncomingRequest(t, r) \/ NegotiationStep(t, r) \/ HandlerReturns(t, r)
      PROVE  events' = events
  BY <1>4, Zenon DEF IncomingRequest, NegotiationStep, NegotiationRefused, Negotiated,
      NegotiationFatal, HandlerReturns, RequestStep
<1>5. CASE Shutdown \/ UNCHANGED vars
  BY <1>5, Zenon DEF Shutdown, vars, daemonVars
<1>. QED
  BY <1>1, <1>2, <1>3, <1>4, <1>5, Zenon DEF Next

\* report_authentication_success looks whether the tunnel is closed.
LEMMA ClosedIsNotAnnounced ==
    ASSUME DaemonTypeOK, [Next]_vars, NEW t \in closed
    PROVE  events'[t] # Append(events[t], "authenticated")
<1>. DEFINE Kinds == {"connected", "authenticated", "disconnected"}
<1>1. t \in Tunnels /\ events \in [Tunnels -> Seq(Kinds)] /\ events[t] \in Seq(Kinds)
  BY DEF DaemonTypeOK
<1>2. /\ events[t] # Append(events[t], "authenticated")
      /\ Append(events[t], "connected") # Append(events[t], "authenticated")
      /\ Append(events[t], "disconnected") # Append(events[t], "authenticated")
  <2>1. /\ "connected" \in Kinds /\ "authenticated" \in Kinds /\ "disconnected" \in Kinds
        /\ "connected" # "authenticated" /\ "disconnected" # "authenticated"
    OBVIOUS
  <2>. HIDE DEF Kinds
  <2>. QED
    BY ONLY <1>1, <2>1, AppendDiffers, Zenon
<1>. HIDE DEF Kinds
<1>3. CASE events' = events
  BY ONLY <1>2, <1>3, Zenon
<1>4. ASSUME NEW u \in Tunnels, Accept(u)
      PROVE  events'[t] # Append(events[t], "authenticated")
  <2>1. events' = [events EXCEPT ![u] = Append(@, "connected")]
    BY <1>4, Zenon DEF Accept, StartLifecycle, Send
  <2>. QED
    BY ONLY <1>1, <1>2, <2>1, u \in Tunnels, Zenon
<1>5. ASSUME NEW u \in Tunnels, ReportAuthentication(u)
      PROVE  events'[t] # Append(events[t], "authenticated")
  <2>1. events' = events \/ (u # t /\ events' = [events EXCEPT ![u] = Append(@, "authenticated")])
    BY <1>5, Zenon DEF ReportAuthentication, Send
  <2>. QED
    BY ONLY <1>1, <1>2, <2>1, u \in Tunnels, Zenon
<1>6. ASSUME NEW u \in Tunnels, SendDisconnected(u)
      PROVE  events'[t] # Append(events[t], "authenticated")
  <2>1. events' = [events EXCEPT ![u] = Append(@, "disconnected")]
    BY <1>6, Zenon DEF SendDisconnected, Send
  <2>. QED
    BY ONLY <1>1, <1>2, <2>1, u \in Tunnels, Zenon
<1>. QED
  BY <1>3, <1>4, <1>5, <1>6, EventStep, Zenon

(***************************************************************************)
(* TunnelConnected, TunnelAuthenticated and TunnelDisconnected are sent at *)
(* most once each for a tunnel and in this order, TunnelDisconnected with  *)
(* its deregistration, and TunnelAuthenticated never for a closed tunnel.  *)
(***************************************************************************)
THEOREM EventsInOrder == Safety => EventOrder
<1>. DEFINE Ordered ==
        \A t \in Tunnels :
            \/ /\ events[t] \in {<<>>, <<"connected">>, <<"connected", "authenticated">>}
               /\ deregistration[t] \in {"none", "spawned"}
            \/ /\ events[t] \in {<<"connected", "disconnected">>,
                                 <<"connected", "authenticated", "disconnected">>}
               /\ deregistration[t] \in {"clearing", "done", "failed"}
<1>1. DaemonInv => Ordered
  <2>. SUFFICES ASSUME DaemonInv, NEW t \in Tunnels
                PROVE  \/ /\ events[t] \in {<<>>, <<"connected">>, <<"connected", "authenticated">>}
                          /\ deregistration[t] \in {"none", "spawned"}
                       \/ /\ events[t] \in {<<"connected", "disconnected">>,
                                            <<"connected", "authenticated", "disconnected">>}
                          /\ deregistration[t] \in {"clearing", "done", "failed"}
    OBVIOUS
  <2>1. /\ callback[t] \in {"none", "failure_closing", "deregistering", "spent"}
        /\ deregistration[t] \in {"none", "spawned", "clearing", "done", "failed"}
    BY DEF DaemonInv, DaemonTypeOK
  <2>2. TunnelInv(t)
    BY Zenon DEF DaemonInv
  <2>. QED
    BY ONLY <2>1, <2>2, Zenon DEF TunnelInv
<1>2. DaemonInv /\ [Next]_vars =>
        \A t \in closed : events'[t] # Append(events[t], "authenticated")
  BY ClosedIsNotAnnounced, Zenon DEF DaemonInv
<1>3. Safety => []Ordered
  BY <1>1, DaemonCorrect, PTL
<1>4. Safety => [][\A t \in closed : events'[t] # Append(events[t], "authenticated")]_vars
  BY <1>2, DaemonCorrect, PTL DEF Safety
<1>. QED
  BY <1>3, <1>4, PTL DEF EventOrder
-----------------------------------------------------------------------------
\* No result is given, no reason but "Error" added, and a spent callback stays spent.
OutcomeKept(u) ==
    /\ outcome'[u] = outcome[u]
    /\ pc'[u] \in {"ended", "over"} <=> pc[u] \in {"ended", "over"}
    /\ callback'[u] = "failure_closing" => callback[u] = "failure_closing" \/ outcome[u] = "none"
    /\ callback[u] = "spent" => callback'[u] = "spent"
    /\ callback[u] = "spent" /\ deregistration[u] = "none" => deregistration'[u] = "none"
    /\ closing'[u] \union {close_reason'[u]} \subseteq closing[u] \union {close_reason[u], "Error"}

\* Such a step keeps what the reasons of a tunnel say of its result.
LEMMA OutcomeFrame ==
    ASSUME NEW u \in Tunnels, OutcomeInv(u), OutcomeKept(u)
    PROVE  OutcomeInv(u)'
<1>1. \A reason \in {"GracefulExit", "AuthenticationFailure"} :
         reason \in closing'[u] \union {close_reason'[u]} => reason \in closing[u] \union {close_reason[u]}
  BY Zenon DEF OutcomeKept
<1>. QED
  BY ONLY <1>1, OutcomeInv(u), OutcomeKept(u), Zenon DEF OutcomeKept, OutcomeInv

(***************************************************************************)
(* Every step keeps OutcomeInv.  Four actions do more than OutcomeKept to  *)
(* their tunnel: the lifecycle returns, or is dropped, the authentication  *)
(* task ends, and run closes the tunnel for the result.                    *)
(***************************************************************************)
LEMMA OutcomeStep ==
    ASSUME DaemonTypeOK, \A t \in Tunnels : TunnelInv(t), \A t \in Tunnels : OutcomeInv(t),
           [Next]_vars
    PROVE  \A t \in Tunnels : OutcomeInv(t)'
<1>. DEFINE Goal == \A t \in Tunnels : OutcomeInv(t)'
            Others(t) == \A u \in Tunnels \ {t} : OutcomeKept(u)
<1>. USE DEF lifecycleVars, dropVars, tunnelVars
<1>0. ASSUME NEW t \in Tunnels, Others(t), OutcomeInv(t)'
      PROVE  Goal
  BY <1>0, OutcomeFrame
<1>1. ASSUME \A u \in Tunnels : OutcomeKept(u)
      PROVE  Goal
  BY <1>1, OutcomeFrame
\* Steps that do not move a result, a callback or a reason.
<1>2. ASSUME UNCHANGED <<outcome, callback, closing, close_reason, deregistration>>,
             \A u \in Tunnels : pc'[u] \in {"ended", "over"} <=> pc[u] \in {"ended", "over"}
      PROVE  Goal
  <2>1. \A u \in Tunnels : OutcomeKept(u)
    BY <1>2, Zenon DEF OutcomeKept
  <2>. QED
    BY <1>1, <2>1
<1>3. ASSUME NEW t \in Tunnels,
             Authenticated(t) \/ RecordConstructed(t) \/ TrackById(t) \/ TrackByName(t)
             \/ OpenDownlink(t) \/ IncomingEnds(t)
      PROVE  Goal
  <2>1. /\ \E to \in Running : pc' = [pc EXCEPT ![t] = to]
        /\ pc[t] \in Running
        /\ UNCHANGED <<outcome, callback, closing, close_reason, deregistration>>
    BY <1>3, Zenon DEF Authenticated, RecordConstructed, TrackById, TrackByName, OpenDownlink,
        IncomingEnds, Proceed, Running, Awaiting
  <2>2. \A u \in Tunnels : pc'[u] \in {"ended", "over"} <=> pc[u] \in {"ended", "over"}
    BY <2>1 DEF DaemonTypeOK, Running, Awaiting
  <2>. QED
    BY <1>2, <2>1, <2>2, Zenon
<1>4. ASSUME \/ Shutdown \/ UNCHANGED vars
             \/ \E t \in Tunnels : \/ RegistryRegister(t) \/ RegistryRegisterFails(t)
                                   \/ ClearPeer(t) \/ ServiceRetains(t) \/ LoseConnection(t)
             \/ \E t \in Tunnels, r \in Requests :
                   \/ IncomingRequest(t, r) \/ NegotiationRefused(t, r) \/ Negotiated(t, r)
                   \/ HandlerReturns(t, r)
      PROVE  Goal
  <2>1. UNCHANGED <<pc, outcome, callback, closing, close_reason, deregistration>>
    BY <1>4, Zenon DEF Shutdown, vars, daemonVars, RegistryRegister, RegistryRegisterFails, ClearPeer,
        ServiceRetains, LoseConnection, IncomingRequest, NegotiationRefused, Negotiated,
        HandlerReturns, RequestStep
  <2>. QED
    BY <1>2, <2>1
<1>5. ASSUME NEW t \in Tunnels, AcceptFails(t) \/ OpenFails(t)
      PROVE  Goal
  <2>1. \A u \in Tunnels : close_reason'[u] \in {close_reason[u], "Error"}
    BY <1>5 DEF AcceptFails, OpenFails, DaemonTypeOK
  <2>2. UNCHANGED <<pc, outcome, callback, closing, deregistration>>
    BY <1>5 DEF AcceptFails, OpenFails
  <2>3. \A u \in Tunnels : OutcomeKept(u)
    BY <2>1, <2>2, Zenon DEF OutcomeKept
  <2>. QED
    BY <1>1, <2>3
<1>6. ASSUME NEW t \in Tunnels, NEW reason \in Reasons, Close(t, reason)
      PROVE  Goal
  <2>1. \A u \in Tunnels :
           closing'[u] \union {close_reason'[u]} \subseteq closing[u] \union {close_reason[u]}
    <3>1. \A u \in Tunnels \ {t} : closing'[u] = closing[u] /\ close_reason'[u] = close_reason[u]
      BY <1>6 DEF Close, DaemonTypeOK
    <3>2. /\ closing'[t] \subseteq closing[t] /\ reason \in closing[t]
          /\ close_reason'[t] \in {close_reason[t], reason}
      BY <1>6 DEF Close, DaemonTypeOK
    <3>. QED
      BY ONLY <3>1, <3>2
  <2>2. UNCHANGED <<pc, outcome, callback, deregistration>>
    BY <1>6, Zenon DEF Close
  <2>3. \A u \in Tunnels : OutcomeKept(u)
    BY <2>1, <2>2, Zenon DEF OutcomeKept
  <2>. QED
    BY <1>1, <2>3
\* The callback is armed, exchanged, and the task it spawned goes on.
<1>7. ASSUME NEW t \in Tunnels, Accept(t)
      PROVE  Goal
  <2>1. /\ pc[t] = "source" /\ pc' = [pc EXCEPT ![t] = "authenticating"]
        /\ callback' = [callback EXCEPT ![t] = "failure_closing"]
        /\ UNCHANGED <<outcome, closing, close_reason, deregistration>>
    BY <1>7 DEF Accept, Proceed, StartLifecycle
  <2>2. callback[t] = "none" /\ outcome[t] = "none"
    BY <2>1, Zenon DEF TunnelInv, OutcomeInv
  <2>3. \A u \in Tunnels : OutcomeKept(u)
    BY <2>1, <2>2, Zenon DEF OutcomeKept, DaemonTypeOK
  <2>. QED
    BY <1>1, <2>3
<1>8. ASSUME NEW t \in Tunnels, ReportAuthentication(t)
      PROVE  Goal
  <2>1. /\ pc[t] = "reporting" /\ pc' = [pc EXCEPT ![t] = "downlink"]
        /\ callback' = [callback EXCEPT ![t] = "deregistering"]
        /\ UNCHANGED <<outcome, closing, close_reason, deregistration>>
    BY <1>8 DEF ReportAuthentication, Proceed
  <2>2. callback[t] = "failure_closing"
    BY <2>1, Zenon DEF TunnelInv, Running, Awaiting, Served
  <2>3. \A u \in Tunnels : OutcomeKept(u)
    BY <2>1, <2>2 DEF OutcomeKept, DaemonTypeOK
  <2>. QED
    BY <1>1, <2>3
<1>9. ASSUME NEW t \in Tunnels,
             SendDisconnected(t) \/ RegistryDeregister(t) \/ RegistryDeregisterFails(t)
      PROVE  Goal
  <2>1. /\ deregistration[t] # "none"
        /\ \E to : deregistration' = [deregistration EXCEPT ![t] = to]
        /\ UNCHANGED <<pc, outcome, callback, closing, close_reason>>
    BY <1>9, Zenon DEF SendDisconnected, RegistryDeregister, RegistryDeregisterFails
  <2>2. \A u \in Tunnels : deregistration[u] = "none" => deregistration'[u] = "none"
    BY <2>1 DEF DaemonTypeOK
  <2>3. \A u \in Tunnels : OutcomeKept(u)
    BY <2>1, <2>2, Zenon DEF OutcomeKept
  <2>. QED
    BY <1>1, <2>3
<1>10. ASSUME NEW t \in Tunnels, ServiceReleases(t)
       PROVE  Goal
  <2>1. /\ RunDropCallback(t) /\ t \in retained
        /\ UNCHANGED <<pc, outcome, close_reason>>
    BY <1>10 DEF ServiceReleases
  <2>2. callback[t] = "deregistering"
    BY <2>1, Zenon DEF TunnelInv
  <2>3. /\ \A u \in Tunnels : closing'[u] = closing[u]
        /\ \A u \in Tunnels \ {t} : callback'[u] = callback[u] /\ deregistration'[u] = deregistration[u]
        /\ callback'[t] \in {"deregistering", "spent"}
    BY <2>1, <2>2, DropCallbackEffect, Zenon
  <2>4. \A u \in Tunnels : OutcomeKept(u)
    BY <2>1, <2>2, <2>3, Zenon DEF OutcomeKept
  <2>. QED
    BY <1>1, <2>4
\* The lifecycle has a result: it had none, so no reason spoke of one.
<1>11. ASSUME NEW t \in Tunnels, NEW result \in {"ok", "refused", "error", "cancelled"},
              pc[t] \in Running, RunDropCallback(t), UNCHANGED <<auth, retained, close_reason>>,
              \E to \in {"ended", "over"} : pc' = [pc EXCEPT ![t] = to],
              outcome' = [outcome EXCEPT ![t] = result],
              result = "ok" => callback[t] = "deregistering",
              result = "refused" => auth[t] = "refused"
       PROVE  Goal
  <2>1. /\ \A u \in Tunnels \ {t} : /\ callback'[u] = callback[u] /\ closing'[u] = closing[u]
                                    /\ deregistration'[u] = deregistration[u]
        /\ Wrapped(t)' => callback'[t] = callback[t] /\ closing'[t] = closing[t]
        /\ ~Wrapped(t)' => /\ callback'[t] = "spent"
                           /\ closing'[t] = IF callback[t] = "failure_closing"
                                            THEN closing[t] \union {"AuthenticationFailure"}
                                            ELSE closing[t]
        /\ callback[t] # "deregistering" => deregistration'[t] = deregistration[t]
    BY <1>11, DropCallbackEffect, Zenon
  <2>2. /\ pc'[t] \in {"ended", "over"} /\ outcome'[t] = result
        /\ \A u \in Tunnels \ {t} : pc'[u] = pc[u] /\ outcome'[u] = outcome[u]
        /\ close_reason' = close_reason /\ auth' = auth /\ retained' = retained
    BY <1>11, Zenon DEF DaemonTypeOK
  <2>3. Others(t)
    BY ONLY <2>1, <2>2, Zenon DEF OutcomeKept
  <2>4. /\ "GracefulExit" \notin closing[t] \union {close_reason[t]}
        /\ "AuthenticationFailure" \notin closing[t] \union {close_reason[t]}
    <3>1. OutcomeInv(t) /\ pc[t] \notin {"ended", "over"}
      BY <1>11 DEF Running, Awaiting
    <3>. QED
      BY ONLY <3>1, Zenon DEF OutcomeInv
  <2>5. /\ callback[t] \in {"failure_closing", "deregistering"}
        /\ callback[t] = "failure_closing" => t \notin retained /\ deregistration[t] = "none"
        /\ result = "refused" => callback[t] = "failure_closing" /\ auth[t] # "running"
    <3>1. TunnelInv(t) /\ pc[t] \in Running
      BY <1>11, Zenon
    <3>2. auth[t] = "refused" => callback[t] = "failure_closing"
      BY <3>1, <1>11, Zenon DEF TunnelInv
    <3>. QED
      BY ONLY <1>11, <3>1, <3>2, Zenon DEF TunnelInv, Running, Awaiting, Served
  <2>6. OutcomeInv(t)'
    <3>1. result = "refused" => ~Wrapped(t)'
      BY ONLY <2>2, <2>5, Zenon DEF Wrapped, Running, Awaiting
    <3>2. outcome'[t] = "refused" => callback'[t] = "spent" /\ deregistration'[t] = "none"
      BY ONLY <2>1, <2>2, <2>5, <3>1, Zenon
    <3>3. "GracefulExit" \notin closing'[t] \union {close_reason'[t]}
      <4>1. closing'[t] \subseteq closing[t] \union {"AuthenticationFailure"}
        BY ONLY <2>1, Zenon
      <4>2. close_reason'[t] = close_reason[t]
        BY ONLY <2>2, Zenon
      <4>. QED
        BY ONLY <2>4, <4>1, <4>2
    <3>4. "AuthenticationFailure" \in closing'[t] \union {close_reason'[t]} =>
             callback[t] = "failure_closing" /\ callback'[t] = "spent" /\ deregistration'[t] = "none"
      BY ONLY <2>1, <2>2, <2>4, <2>5, Zenon
    <3>5. outcome'[t] = "ok" => callback'[t] # "failure_closing" /\ callback[t] # "failure_closing"
      BY ONLY <1>11, <2>1, <2>2, Zenon
    <3>. QED
      BY ONLY <1>11, <2>2, <3>2, <3>3, <3>4, <3>5, Zenon DEF OutcomeInv
  <2>. QED
    BY <1>0, <2>3, <2>6
<1>12. ASSUME NEW t \in Tunnels,
              \/ AuthenticationFails(t) \/ ConstructionFails(t) \/ RegistrationFails(t)
              \/ DownlinkClosed(t) \/ IncomingFails(t) \/ Drained(t)
              \/ \E r \in Requests : NegotiationFatal(t, r)
       PROVE  Goal
  <2>1. TunnelInv(t)
    OBVIOUS
  <2>2. PICK result \in {"ok", "refused", "error"} :
           /\ Return(t, result)
           /\ result = "ok" => pc[t] = "draining"
           /\ result = "refused" => auth[t] = "refused"
    BY <1>12, Zenon DEF AuthenticationFails, ConstructionFails, RegistrationFails, DownlinkClosed,
        IncomingFails, Drained, NegotiationFatal
  <2>3. /\ UNCHANGED <<auth, close_reason>>
        /\ pc[t] \in Running \/ \E r \in Requests : request[t][r] # "idle"
    BY <1>12, Zenon DEF AuthenticationFails, ConstructionFails, RegistrationFails, DownlinkClosed,
        IncomingFails, Drained, NegotiationFatal, Running, Awaiting
  <2>4. pc[t] \in Running /\ (pc[t] = "draining" => callback[t] = "deregistering")
    BY ONLY <2>1, <2>3, Zenon DEF TunnelInv, Running, Awaiting, Served
  <2>5. /\ RunDropCallback(t) /\ retained' = retained
        /\ pc' = [pc EXCEPT ![t] = "ended"]
        /\ outcome' = [outcome EXCEPT ![t] = result]
    BY <2>2 DEF Return
  <2>. QED
    BY <1>11, <2>2, <2>3, <2>4, <2>5, Zenon
<1>13. ASSUME NEW t \in Tunnels, Cancel(t)
       PROVE  Goal
  <2>1. /\ pc[t] \in Running /\ RunDropCallback(t) /\ UNCHANGED <<auth, retained, close_reason>>
        /\ pc' = [pc EXCEPT ![t] = "over"]
        /\ outcome' = [outcome EXCEPT ![t] = "cancelled"]
    BY <1>13 DEF Cancel, Running
  <2>. QED
    BY <1>11, <2>1
\* The task of a dropped lifecycle may hold the last clone., Zenon
<1>14. ASSUME NEW t \in Tunnels, NEW result \in {"ok", "refused", "error"},
              AuthenticationTaskEnds(t, result)
       PROVE  Goal
  <2>1. /\ RunDropCallback(t) /\ auth[t] = "running"
        /\ UNCHANGED <<pc, outcome, close_reason>>
    BY <1>14 DEF AuthenticationTaskEnds
  <2>2. /\ \A u \in Tunnels \ {t} : /\ callback'[u] = callback[u] /\ closing'[u] = closing[u]
                                    /\ deregistration'[u] = deregistration[u]
        /\ Wrapped(t)' => callback'[t] = callback[t] /\ closing'[t] = closing[t]
        /\ ~Wrapped(t)' => /\ callback'[t] = "spent"
                           /\ closing'[t] = IF callback[t] = "failure_closing"
                                            THEN closing[t] \union {"AuthenticationFailure"}
                                            ELSE closing[t]
        /\ callback[t] # "deregistering" => deregistration'[t] = deregistration[t]
    BY <2>1, DropCallbackEffect, Zenon
  <2>3. Others(t)
    BY ONLY <2>1, <2>2, Zenon DEF OutcomeKept
  <2>4. callback[t] = "failure_closing" /\ deregistration[t] = "none"
    BY <2>1, Zenon DEF TunnelInv
  <2>5. OutcomeInv(t) /\ outcome[t] \in {"none", "ok", "refused", "error", "cancelled"}
    BY DEF DaemonTypeOK
  <2>6. ~Wrapped(t)' => pc[t] \in {"ended", "over"}
    <3>1. TunnelInv(t)
      OBVIOUS
    <3>. QED
      BY ONLY <3>1, <2>1, Zenon DEF TunnelInv, Wrapped, Running, Awaiting
  <2>7. ASSUME Wrapped(t)'
        PROVE  OutcomeInv(t)'
    <3>1. /\ callback'[t] = callback[t] /\ closing'[t] = closing[t]
          /\ deregistration'[t] = deregistration[t]
      BY ONLY <2>2, <2>4, <2>7, Zenon
    <3>. QED
      BY ONLY <2>1, <2>5, <3>1, Zenon DEF OutcomeInv
  <2>8. ASSUME ~Wrapped(t)'
        PROVE  OutcomeInv(t)'
    <3>1. /\ callback'[t] = "spent" /\ deregistration'[t] = "none"
          /\ closing'[t] = closing[t] \union {"AuthenticationFailure"}
      BY ONLY <2>2, <2>4, <2>8, Zenon
    <3>2. outcome[t] \in {"refused", "error", "cancelled"}
      BY ONLY <2>4, <2>5, <2>6, <2>8, Zenon DEF OutcomeInv
    <3>. QED
      BY ONLY <2>1, <2>5, <2>6, <2>8, <3>1, <3>2, Zenon DEF OutcomeInv
  <2>. QED
    BY <1>0, <2>3, <2>7, <2>8
<1>15. ASSUME NEW t \in Tunnels, CloseAfterLifecycle(t)
       PROVE  Goal
  <2>1. /\ pc[t] = "ended" /\ pc' = [pc EXCEPT ![t] = "over"]
        /\ UNCHANGED <<outcome, callback, close_reason, deregistration>>
        /\ \/ closing' = [closing EXCEPT ![t] = @ \union {CloseReasonFor(outcome[t])}]
           \/ closing' = closing
    BY <1>15 DEF CloseAfterLifecycle
  <2>2. /\ pc'[t] = "over"
        /\ \A u \in Tunnels \ {t} : pc'[u] = pc[u] /\ closing'[u] = closing[u]
        /\ closing'[t] \subseteq closing[t] \union {CloseReasonFor(outcome[t])}
    BY <2>1 DEF DaemonTypeOK
  <2>3. Others(t)
    BY ONLY <2>1, <2>2, Zenon DEF OutcomeKept
  <2>4. OutcomeInv(t)
    OBVIOUS
  <2>5. OutcomeInv(t)'
    BY ONLY <2>1, <2>2, <2>4, Zenon DEF OutcomeInv, CloseReasonFor
  <2>. QED
    BY <1>0, <2>3, <2>5
<1>. HIDE DEF Goal, Others
<1>16. ASSUME NEW t \in Tunnels, LifecycleStep(t)
       PROVE  Goal
  BY <1>16, <1>3, <1>8, <1>12, <1>15 DEF LifecycleStep
<1>17. ASSUME NEW t \in Tunnels, BackgroundStep(t)
       PROVE  Goal
  BY <1>17, <1>4, <1>9 DEF BackgroundStep
<1>18. ASSUME NEW t \in Tunnels, NEW r \in Requests,
              IncomingRequest(t, r) \/ NegotiationStep(t, r) \/ HandlerReturns(t, r)
       PROVE  Goal
  BY <1>18, <1>4, <1>12 DEF NegotiationStep
<1>19. ASSUME NEW t \in Tunnels,
              \/ Accept(t) \/ AuthenticationStep(t) \/ ServiceRetains(t) \/ ServiceReleases(t)
              \/ Cancel(t) \/ LoseConnection(t) \/ AcceptFails(t) \/ OpenFails(t)
              \/ \E reason \in Reasons : Close(t, reason)
       PROVE  Goal
  BY <1>19, <1>4, <1>5, <1>6, <1>7, <1>10, <1>13, <1>14 DEF AuthenticationStep
<1>20. Goal
  BY <1>4, <1>16, <1>17, <1>18, <1>19, Zenon DEF Next
<1>. QED
  BY <1>20 DEF Goal

(***************************************************************************)
(* The reason a tunnel is closed with fits the result of its lifecycle,    *)
(* whichever of the failure callback's task and run's own close comes      *)
(* first: a registered tunnel is never closed as failing authentication,   *)
(* and only a lifecycle that succeeded is closed as a graceful exit.       *)
(***************************************************************************)
THEOREM CloseReasonFitsOutcome == Safety => []CloseReasonMatchesOutcome
<1>. DEFINE OInv == \A t \in Tunnels : OutcomeInv(t)
<1>1. Init => OInv
  <2>. SUFFICES ASSUME Init, NEW t \in Tunnels
                PROVE  OutcomeInv(t)
    BY Zenon
  <2>. QED
    BY DEF Init, OutcomeInv
<1>2. DaemonInv /\ OInv /\ [Next]_vars => OInv'
  BY OutcomeStep DEF DaemonInv
<1>3. OInv => CloseReasonMatchesOutcome
  <2>. SUFFICES ASSUME NEW t \in Tunnels, OutcomeInv(t)
                PROVE  /\ close_reason[t] = "GracefulExit" => outcome[t] = "ok"
                       /\ close_reason[t] = "AuthenticationFailure" =>
                             /\ outcome[t] \in {"refused", "error", "cancelled"}
                             /\ deregistration[t] = "none"
    BY Zenon DEF CloseReasonMatchesOutcome
  <2>. QED
    BY DEF OutcomeInv
<1>. QED
  BY <1>1, <1>2, <1>3, DaemonCorrect, PTL DEF Safety
-----------------------------------------------------------------------------
\* No registry call of the tunnel ends; its record is left behind only if the
\* lifecycle is dropped.
RegisteredKept(u) ==
    /\ registering'[u] = registering[u]
    /\ registering[u] = "pending" => pc'[u] = pc[u] \/ DroppedHalfWay(u)'
    /\ registering[u] = "done" /\ pc[u] \in {"registering", "tracking", "reporting"} =>
          \/ pc'[u] \in {"registering", "tracking", "reporting"}
          \/ callback'[u] = "deregistering"
          \/ DroppedHalfWay(u)'
    /\ callback[u] = "deregistering" => callback'[u] = "deregistering" \/ deregistration'[u] # "none"
    /\ deregistration[u] # "none" => deregistration'[u] # "none"
    /\ deregistration'[u] = "done" => deregistration[u] = "done"
    /\ DroppedHalfWay(u) => DroppedHalfWay(u)'
    /\ \A n \in Names : registry'[n] = u => registry[n] = u

\* Such a step keeps what is known of a registered tunnel.
LEMMA RegisteredFrame ==
    ASSUME NEW u \in Tunnels, RegisteredInv(u), RegisteredKept(u)
    PROVE  RegisteredInv(u)'
BY Zenon DEF RegisteredInv, RegisteredKept

(***************************************************************************)
(* Every step keeps RegisteredInv.  Only the steps of register and         *)
(* deregister do more than RegisteredKept.                                 *)
(***************************************************************************)
LEMMA RegisteredStep ==
    ASSUME DaemonTypeOK, \A t \in Tunnels : TunnelInv(t),
           \A t \in Tunnels : RegisteredInv(t), [Next]_vars
    PROVE  \A t \in Tunnels : RegisteredInv(t)'
<1>. DEFINE Goal == \A t \in Tunnels : RegisteredInv(t)'
<1>. USE DEF lifecycleVars, dropVars
<1>0. ASSUME NEW t \in Tunnels, \A u \in Tunnels \ {t} : RegisteredKept(u), RegisteredInv(t)'
      PROVE  Goal
  BY <1>0, RegisteredFrame
<1>1. ASSUME \A u \in Tunnels : RegisteredKept(u)
      PROVE  Goal
  BY <1>1, RegisteredFrame
\* The lifecycle goes on: not before its register call has returned.
<1>2. ASSUME NEW t \in Tunnels,
             \/ Accept(t) \/ Authenticated(t) \/ TrackById(t) \/ TrackByName(t)
             \/ OpenDownlink(t) \/ IncomingEnds(t) \/ CloseAfterLifecycle(t)
      PROVE  Goal
  <2>1. RegisteredInv(t) /\ TunnelInv(t)
    OBVIOUS
  <2>2. /\ UNCHANGED <<outcome, registering, registry, deregistration>>
        /\ \/ callback' = callback
           \/ pc[t] = "source" /\ callback' = [callback EXCEPT ![t] = "failure_closing"]
        /\ \E to : /\ pc' = [pc EXCEPT ![t] = to]
                   /\ pc[t] \in {"registering", "tracking"} => to \in {"tracking", "reporting"}
        /\ pc[t] # "reporting"
        /\ pc[t] = "registering" => registering[t] = "done"
    BY <1>2, Zenon DEF Accept, StartLifecycle, Authenticated, TrackById, TrackByName, OpenDownlink,
        IncomingEnds, CloseAfterLifecycle, Proceed
  <2>3. registering[t] = "pending" => DroppedHalfWay(t)
    BY ONLY <2>1, <2>2, Zenon DEF RegisteredInv
  <2>4. \A u \in Tunnels : /\ callback[u] = "deregistering" => callback'[u] = "deregistering"
                           /\ callback[u] = "spent" => callback'[u] = "spent"
    <3>1. pc[t] = "source" => callback[t] = "none"
      BY ONLY <2>1, Zenon DEF TunnelInv
    <3>. QED
      BY <2>2, <3>1, Zenon DEF DaemonTypeOK
  <2>5. \A u \in Tunnels \ {t} : pc'[u] = pc[u]
    BY <2>2 DEF DaemonTypeOK
  <2>6. pc[t] \in {"registering", "tracking", "reporting"} =>
           pc'[t] \in {"registering", "tracking", "reporting"}
    BY <2>2, Zenon DEF DaemonTypeOK
  <2>7. \A u \in Tunnels : DroppedHalfWay(u) => DroppedHalfWay(u)'
    BY ONLY <2>2, <2>4, Zenon DEF DroppedHalfWay
  <2>8. \A u \in Tunnels : RegisteredKept(u)
    BY ONLY t \in Tunnels, <2>2, <2>3, <2>4, <2>5, <2>6, <2>7, Zenon DEF RegisteredKept
  <2>. QED
    BY <1>1, <2>8
<1>3. ASSUME NEW t \in Tunnels, ReportAuthentication(t)
      PROVE  Goal
  <2>1. /\ UNCHANGED <<outcome, registering, registry, deregistration>>
        /\ pc[t] = "reporting" /\ pc' = [pc EXCEPT ![t] = "downlink"]
        /\ callback' = [callback EXCEPT ![t] = "deregistering"]
    BY <1>3 DEF ReportAuthentication, Proceed
  <2>2. callback[t] # "spent" /\ registering[t] # "pending"
    <3>1. RegisteredInv(t) /\ TunnelInv(t)
      OBVIOUS
    <3>2. callback[t] = "failure_closing"
      BY ONLY <2>1, <3>1, Zenon DEF TunnelInv, Running, Awaiting, Served
    <3>. QED
      BY ONLY <2>1, <3>1, <3>2, Zenon DEF RegisteredInv, DroppedHalfWay
  <2>3. /\ callback'[t] = "deregistering"
        /\ \A u \in Tunnels \ {t} : pc'[u] = pc[u] /\ callback'[u] = callback[u]
    BY <2>1, Zenon DEF DaemonTypeOK
  <2>4. \A u \in Tunnels : RegisteredKept(u)
    BY ONLY t \in Tunnels, <2>1, <2>2, <2>3, Zenon DEF RegisteredKept, DroppedHalfWay
  <2>. QED
    BY <1>1, <2>4
\* What the registry and the record do not depend on.
<1>4. ASSUME \/ Shutdown \/ UNCHANGED vars
             \/ \E t \in Tunnels : \/ ClearPeer(t) \/ ServiceRetains(t) \/ LoseConnection(t)
                                   \/ AcceptFails(t) \/ OpenFails(t)
                                   \/ \E reason \in Reasons : Close(t, reason)
             \/ \E t \in Tunnels, r \in Requests :
                   \/ IncomingRequest(t, r) \/ NegotiationRefused(t, r) \/ Negotiated(t, r)
                   \/ HandlerReturns(t, r)
      PROVE  Goal
  <2>1. UNCHANGED <<pc, outcome, registering, registry, callback, deregistration>>
    BY <1>4, Zenon DEF Shutdown, vars, daemonVars, ClearPeer, ServiceRetains, LoseConnection, AcceptFails,
        OpenFails, Close, IncomingRequest, NegotiationRefused, Negotiated, HandlerReturns, RequestStep
  <2>2. \A u \in Tunnels : RegisteredKept(u)
    BY ONLY <2>1, Zenon DEF RegisteredKept, DroppedHalfWay
  <2>. QED
    BY <1>1, <2>2
\* The last clone may go: a registered tunnel's callback spawns its deregistration.
<1>5. ASSUME NEW t \in Tunnels, RunDropCallback(t), UNCHANGED <<registering, registry>>,
             \A u \in Tunnels \ {t} : pc'[u] = pc[u],
             \A u \in Tunnels \ {t} : outcome'[u] = outcome[u], callback[t] # "spent",
             pc'[t] = pc[t] \/ registering[t] \in {"none", "failed"} \/ pc[t] \in Served,
             pc[t] \in {"registering", "tracking", "reporting"} =>
                pc'[t] = pc[t] \/ registering[t] = "failed"
      PROVE  Goal
  <2>1. /\ \A u \in Tunnels \ {t} : callback'[u] = callback[u] /\ deregistration'[u] = deregistration[u]
        /\ callback[t] = "deregistering" => callback'[t] = "deregistering" \/ deregistration'[t] = "spawned"
        /\ deregistration'[t] \in {deregistration[t], "spawned"}
    BY <1>5, DropCallbackEffect, Zenon
  <2>2. registering[t] = "pending" => pc[t] = "registering"
    BY <1>5, Zenon DEF RegisteredInv, DroppedHalfWay
  <2>3. \A u \in Tunnels \ {t} : RegisteredKept(u)
    BY ONLY <1>5, <2>1, Zenon DEF RegisteredKept, DroppedHalfWay
  <2>4. RegisteredKept(t)
    BY ONLY <1>5, <2>1, <2>2, Zenon DEF RegisteredKept, DroppedHalfWay, Served
  <2>. QED
    BY <1>1, <2>3, <2>4
<1>6. ASSUME NEW t \in Tunnels,
             \/ AuthenticationFails(t) \/ ConstructionFails(t) \/ RegistrationFails(t)
             \/ DownlinkClosed(t) \/ IncomingFails(t) \/ Drained(t)
             \/ \E r \in Requests : NegotiationFatal(t, r)
      PROVE  Goal
  <2>1. TunnelInv(t)
    OBVIOUS
  <2>2. /\ \E result : Return(t, result)
        /\ UNCHANGED <<registering, registry>>
        /\ \/ pc[t] \in {"authenticating", "constructing"} \/ pc[t] \in Served
           \/ pc[t] = "registering" /\ registering[t] = "failed"
           \/ \E r \in Requests : request[t][r] # "idle"
    BY <1>6, <2>1, Zenon DEF AuthenticationFails, ConstructionFails, RegistrationFails, DownlinkClosed,
        IncomingFails, Drained, NegotiationFatal, Served
  <2>3. /\ registering[t] \in {"none", "failed"} \/ pc[t] \in Served
        /\ pc[t] \in {"registering", "tracking", "reporting"} => registering[t] = "failed"
        /\ callback[t] # "spent"
    BY ONLY <2>1, <2>2, Zenon DEF TunnelInv, Wrapped, Running, Awaiting, Served
  <2>4. /\ RunDropCallback(t) /\ pc' = [pc EXCEPT ![t] = "ended"]
        /\ \E result : outcome' = [outcome EXCEPT ![t] = result]
    BY <2>2, Zenon DEF Return
  <2>5. \A u \in Tunnels \ {t} : pc'[u] = pc[u] /\ outcome'[u] = outcome[u]
    BY <2>4, Zenon DEF DaemonTypeOK
  <2>. QED
    BY <1>5, <2>2, <2>3, <2>4, <2>5, Zenon
<1>7. ASSUME NEW t \in Tunnels, ServiceReleases(t) \/ AuthenticationStep(t)
      PROVE  Goal
  <2>1. /\ RunDropCallback(t) /\ UNCHANGED <<pc, outcome, registering, registry>>
        /\ t \in retained \/ auth[t] = "running"
    BY <1>7, Zenon DEF ServiceReleases, AuthenticationStep, AuthenticationTaskEnds
  <2>2. TunnelInv(t)
    OBVIOUS
  <2>3. callback[t] # "spent"
    BY ONLY <2>1, <2>2, Zenon DEF TunnelInv, Wrapped
  <2>. QED
    BY <1>5, <2>1, <2>3, Zenon
\* The registry's own calls.
<1>8. ASSUME NEW t \in Tunnels, RecordConstructed(t)
      PROVE  Goal
  <2>1. /\ pc[t] = "constructing" /\ pc' = [pc EXCEPT ![t] = "registering"]
        /\ registering' = [registering EXCEPT ![t] = "pending"]
        /\ UNCHANGED <<outcome, registry, callback, deregistration>>
    BY <1>8 DEF RecordConstructed, Proceed
  <2>2. /\ pc'[t] = "registering" /\ registering'[t] = "pending"
        /\ \A u \in Tunnels \ {t} : pc'[u] = pc[u] /\ registering'[u] = registering[u]
    BY <2>1 DEF DaemonTypeOK
  <2>3. \A u \in Tunnels \ {t} : RegisteredKept(u)
    BY ONLY <2>1, <2>2, Zenon DEF RegisteredKept, DroppedHalfWay
  <2>4. RegisteredInv(t)
    OBVIOUS
  <2>5. RegisteredInv(t)'
    BY ONLY <2>1, <2>2, <2>4, Zenon DEF RegisteredInv
  <2>. QED
    BY <1>0, <2>3, <2>5
<1>9. ASSUME NEW t \in Tunnels, RegistryRegister(t)
       PROVE  Goal
  <2>1. /\ registering[t] = "pending"
        /\ registering' = [registering EXCEPT ![t] = "done"]
        /\ registry' = [registry EXCEPT ![NameOf[t]] = t]
        /\ UNCHANGED <<pc, outcome, callback, deregistration>>
    BY <1>9 DEF RegistryRegister
  <2>2. /\ registering'[t] = "done"
        /\ \A u \in Tunnels \ {t} : registering'[u] = registering[u]
    BY <2>1 DEF DaemonTypeOK
  <2>3. \A n \in Names : \/ registry'[n] = registry[n]
                         \/ registry'[n] = t /\ n = NameOf[t]
    BY <2>1 DEF DaemonTypeOK
  <2>4. \A u \in Tunnels \ {t} : RegisteredKept(u)
    BY ONLY <2>1, <2>2, <2>3, Zenon DEF RegisteredKept, DroppedHalfWay
  <2>5. /\ RegisteredInv(t) /\ deregistration[t] = "none"
        /\ pc[t] = "registering" \/ DroppedHalfWay(t)
    <3>1. RegisteredInv(t) /\ TunnelInv(t)
      OBVIOUS
    <3>2. pc[t] = "registering" \/ DroppedHalfWay(t)
      BY ONLY <2>1, <3>1, Zenon DEF RegisteredInv
    <3>3. pc[t] = "registering" => deregistration[t] = "none"
      BY ONLY <3>1, Zenon DEF TunnelInv, Running, Awaiting, Served
    <3>. QED
      BY ONLY <3>1, <3>2, <3>3, Zenon DEF DroppedHalfWay
  <2>6. RegisteredInv(t)'
    BY ONLY <2>1, <2>2, <2>3, <2>5, Zenon DEF RegisteredInv, DroppedHalfWay
  <2>. QED
    BY <1>0, <2>4, <2>6
<1>10. ASSUME NEW t \in Tunnels, SendDisconnected(t)
       PROVE  Goal
  <2>1. /\ deregistration[t] = "spawned"
        /\ deregistration' = [deregistration EXCEPT ![t] = "clearing"]
        /\ UNCHANGED <<pc, outcome, registering, registry, callback>>
    BY <1>10 DEF SendDisconnected
  <2>2. /\ deregistration'[t] = "clearing"
        /\ \A u \in Tunnels \ {t} : deregistration'[u] = deregistration[u]
    BY <2>1, Zenon DEF DaemonTypeOK
  <2>3. \A u \in Tunnels : RegisteredKept(u)
    BY ONLY t \in Tunnels, <2>1, <2>2, Zenon DEF RegisteredKept, DroppedHalfWay
  <2>. QED
    BY <1>1, <2>3
<1>11. ASSUME NEW t \in Tunnels, RegistryDeregister(t)
       PROVE  Goal
  <2>1. /\ deregistration[t] = "clearing"
        /\ deregistration' = [deregistration EXCEPT ![t] = "done"]
        /\ registry' = [registry EXCEPT ![NameOf[t]] = Nobody]
        /\ UNCHANGED <<pc, outcome, registering, callback>>
    BY <1>11, Zenon DEF RegistryDeregister
  <2>2. /\ deregistration'[t] = "done"
        /\ \A u \in Tunnels \ {t} : deregistration'[u] = deregistration[u]
    BY <2>1, Zenon DEF DaemonTypeOK
  <2>3. \A n \in Names : \/ registry'[n] = registry[n] /\ n # NameOf[t]
                         \/ registry'[n] = Nobody
    BY <2>1, Zenon DEF DaemonTypeOK
  <2>4. Nobody \notin Tunnels
    BY DaemonAssumption
  <2>5. \A u \in Tunnels \ {t} : RegisteredKept(u)
    BY ONLY <2>1, <2>2, <2>3, <2>4, Zenon DEF RegisteredKept, DroppedHalfWay
  <2>6. RegisteredInv(t)
    OBVIOUS
  <2>7. RegisteredInv(t)'
    BY ONLY t \in Tunnels, <2>1, <2>2, <2>3, <2>4, <2>6, Zenon DEF RegisteredInv, DroppedHalfWay
  <2>. QED
    BY <1>0, <2>5, <2>7
<1>12. ASSUME NEW t \in Tunnels, RegistryRegisterFails(t)
       PROVE  Goal
  <2>1. /\ registering' = [registering EXCEPT ![t] = "failed"]
        /\ UNCHANGED <<pc, outcome, registry, callback, deregistration>>
    BY <1>12, Zenon DEF RegistryRegisterFails
  <2>2. /\ registering'[t] = "failed"
        /\ \A u \in Tunnels \ {t} : registering'[u] = registering[u]
    BY <2>1, Zenon DEF DaemonTypeOK
  <2>3. \A u \in Tunnels \ {t} : RegisteredKept(u)
    BY ONLY <2>1, <2>2, Zenon DEF RegisteredKept, DroppedHalfWay
  <2>4. RegisteredInv(t)
    OBVIOUS
  <2>5. RegisteredInv(t)'
    BY ONLY <2>1, <2>2, <2>4, Zenon DEF RegisteredInv
  <2>. QED
    BY <1>0, <2>3, <2>5
<1>13. ASSUME NEW t \in Tunnels, RegistryDeregisterFails(t)
       PROVE  Goal
  <2>1. /\ deregistration[t] = "clearing"
        /\ deregistration' = [deregistration EXCEPT ![t] = "failed"]
        /\ UNCHANGED <<pc, outcome, registering, registry, callback>>
    BY <1>13, Zenon DEF RegistryDeregisterFails
  <2>2. /\ deregistration'[t] = "failed"
        /\ \A u \in Tunnels \ {t} : deregistration'[u] = deregistration[u]
    BY <2>1, Zenon DEF DaemonTypeOK
  <2>3. \A u \in Tunnels : RegisteredKept(u)
    BY ONLY t \in Tunnels, <2>1, <2>2, Zenon DEF RegisteredKept, DroppedHalfWay
  <2>. QED
    BY <1>1, <2>3
\* The lifecycle is dropped: before the exchange of callbacks for good.
<1>14. ASSUME NEW t \in Tunnels, Cancel(t)
       PROVE  Goal
  <2>1. /\ RunDropCallback(t) /\ UNCHANGED <<auth, registering, registry, retained>>
        /\ pc[t] \in Awaiting
        /\ pc' = [pc EXCEPT ![t] = "over"] /\ outcome' = [outcome EXCEPT ![t] = "cancelled"]
    BY <1>14, Zenon DEF Cancel
  <2>2. /\ pc'[t] = "over" /\ outcome'[t] = "cancelled"
        /\ \A u \in Tunnels \ {t} : pc'[u] = pc[u] /\ outcome'[u] = outcome[u]
    BY <2>1, Zenon DEF DaemonTypeOK
  <2>3. TunnelInv(t)
    OBVIOUS
  <2>4. callback[t] # "spent"
    BY ONLY <2>1, <2>3, Zenon DEF TunnelInv, Wrapped, Running
  <2>5. CASE pc[t] \in {"registering", "reporting"}
    <3>1. /\ callback[t] = "failure_closing" /\ auth[t] = "ok" /\ t \notin retained
          /\ deregistration[t] = "none"
      BY ONLY <2>3, <2>5, Zenon DEF TunnelInv, Running, Awaiting, Served
    <3>2. ~Wrapped(t)'
      BY ONLY <2>1, <2>2, <3>1, Zenon DEF Wrapped, Running, Awaiting
    <3>3. /\ callback'[t] = "spent" /\ deregistration'[t] = "none"
          /\ \A u \in Tunnels \ {t} : /\ callback'[u] = callback[u]
                                      /\ deregistration'[u] = deregistration[u]
      BY <2>1, <3>1, <3>2, DropCallbackEffect, Zenon
    <3>4. DroppedHalfWay(t)'
      BY ONLY <2>2, <3>3, Zenon DEF DroppedHalfWay
    <3>5. RegisteredKept(t)
      BY ONLY <2>1, <3>1, <3>3, <3>4, Zenon DEF RegisteredKept
    <3>6. \A u \in Tunnels \ {t} : RegisteredKept(u)
      BY ONLY <2>1, <2>2, <3>3, Zenon DEF RegisteredKept, DroppedHalfWay
    <3>. QED
      BY <1>1, <3>5, <3>6
  <2>6. CASE pc[t] \notin {"registering", "reporting"}
    <3>1. pc[t] \in {"authenticating", "constructing"} \/ pc[t] \in Served
      BY ONLY <2>1, <2>6, Zenon DEF Awaiting, Served
    <3>2. registering[t] = "none" \/ pc[t] \in Served
      BY ONLY <2>3, <3>1, Zenon DEF TunnelInv
    <3>3. pc[t] \notin {"registering", "tracking", "reporting"}
      BY ONLY <3>1 DEF Served
    <3>. QED
      BY <1>5, <2>1, <2>2, <2>4, <3>2, <3>3, Zenon
  <2>. QED
    BY <2>5, <2>6
<1>. HIDE DEF Goal
<1>15. ASSUME NEW t \in Tunnels, LifecycleStep(t)
       PROVE  Goal
  BY <1>15, <1>2, <1>3, <1>6, <1>8 DEF LifecycleStep
<1>16. ASSUME NEW t \in Tunnels, BackgroundStep(t)
       PROVE  Goal
  BY <1>16, <1>4, <1>9, <1>10, <1>11, <1>12, <1>13 DEF BackgroundStep
<1>17. ASSUME NEW t \in Tunnels, NEW r \in Requests,
              IncomingRequest(t, r) \/ NegotiationStep(t, r) \/ HandlerReturns(t, r)
       PROVE  Goal
  BY <1>17, <1>4, <1>6 DEF NegotiationStep
<1>18. ASSUME NEW t \in Tunnels,
              \/ Accept(t) \/ AuthenticationStep(t) \/ ServiceRetains(t) \/ ServiceReleases(t)
              \/ Cancel(t) \/ LoseConnection(t) \/ AcceptFails(t) \/ OpenFails(t)
              \/ \E reason \in Reasons : Close(t, reason)
       PROVE  Goal
  BY <1>18, <1>2, <1>4, <1>7, <1>14
<1>19. Goal
  BY <1>4, <1>15, <1>16, <1>17, <1>18, Zenon DEF Next
<1>. QED
  BY <1>19 DEF Goal

(***************************************************************************)
(* No record stays in the registry that nothing will deregister, except    *)
(* after one of two faults: the lifecycle was dropped before the exchange  *)
(* of the callbacks, or the registry failed to deregister.  Failing        *)
(* authentications, registrations, requests and connections, and service   *)
(* tasks that keep the tunnel, do not lead there.                          *)
(***************************************************************************)
THEOREM RegistrationsAreCleared == Safety => []StaleOnlyAfterFault
<1>. DEFINE RInv == \A t \in Tunnels : RegisteredInv(t)
<1>1. Init => RInv
  <2>. SUFFICES ASSUME Init, NEW t \in Tunnels
                PROVE  RegisteredInv(t)
    BY Zenon
  <2>. QED
    BY DaemonAssumption DEF Init, RegisteredInv
<1>2. DaemonInv /\ RInv /\ [Next]_vars => RInv'
  BY RegisteredStep DEF DaemonInv
<1>3. DaemonInv /\ RInv => StaleOnlyAfterFault
  <2>. SUFFICES ASSUME DaemonInv, RInv, NEW n \in Names, NEW t \in Tunnels, registry[n] = t
                PROVE  \/ Wrapped(t) \/ deregistration[t] \in {"spawned", "clearing"}
                       \/ DroppedHalfWay(t)
                       \/ deregistration[t] = "failed"
    BY Zenon DEF StaleOnlyAfterFault
  <2>1. /\ TunnelInv(t) /\ RegisteredInv(t) /\ registering[t] = "done"
        /\ deregistration[t] \in {"none", "spawned", "clearing", "done", "failed"}
    BY Zenon DEF DaemonInv, RegistryInv, DaemonTypeOK
  <2>. QED
    BY ONLY n \in Names, registry[n] = t, <2>1, Zenon
       DEF TunnelInv, RegisteredInv, Wrapped, Running, Awaiting, Served
<1>. QED
  BY <1>1, <1>2, <1>3, DaemonCorrect, PTL DEF Safety
=============================================================================
