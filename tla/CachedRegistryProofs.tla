----------------------- MODULE CachedRegistryProofs -----------------------
(***************************************************************************)
(* RegistryInv is invariant, for any number of origins, registrations and  *)
(* takeovers of the name, with and without caches and losses.              *)
(***************************************************************************)
EXTENDS CachedRegistry, TLAPS

RedisInv ==
    /\ RedisTypeOK
    /\ \A r \in Rids : RegistrationInv(r)
    /\ \A o \in Origins : UnlinkInv(o)

\* What the steps of one registration, and of one origin, do to the registry
\* in Redis.
OfRegistration(r) ==
    \/ SetRef(r) \/ StartRenewal(r) \/ Wake(r) \/ ExpireEntry(r) \/ Reinsert(r)
    \/ DeleteEntry(r) \/ Expire(r) \/ DropIdentifier(r) \/ LoseKey(r)
    \/ Register(r) \/ Downcast(r) \/ Deregister(r)
OfOrigin(o) ==
    \/ CallDeregister(o) \/ ClearRef(o) \/ ForgetRid(o) \/ DeleteOwned(o)
    \/ DropRegistry(o) \/ Crash(o)
RedisStep ==
    \/ UNCHANGED redisVars \/ RefExpires
    \/ \E r \in Rids : OfRegistration(r)
    \/ \E o \in Origins : OfOrigin(o)

LEMMA StepOfRedis ==
    ASSUME [Next]_vars
    PROVE  RedisStep
  BY DEF Next, vars, redisVars, RedisStep, OfRegistration, OfOrigin, Below, RegisterStep, Renewal,
         CachedRegister, CachedDeregister, CacheInsert, CacheRemove, CachedCrash,
         CachedCallDeregister, CacheForget, LookupMisses, LookupRef, LookupEntry, LookupFails, LookupCaches

\* A registration that a step does not concern.
LEMMA RegistrationFrame ==
    ASSUME NEW r \in Rids, RegistrationInv(r), reg'[r] = reg[r], renewer'[r] = renewer[r],
           dereg'[r] = dereg[r], r \in cancelled' <=> r \in cancelled, r \in owned' => r \in owned,
           losses' = 0 => losses = 0 /\ (r \in entry => r \in entry')
    PROVE  RegistrationInv(r)'
  BY DEF RegistrationInv

LEMMA OfRegistrationInv ==
    ASSUME NEW r \in Rids, RedisInv, OfRegistration(r)
    PROVE  RedisInv'
<1> DEFINE Others == \A q \in Rids \ {r} :
                        /\ reg'[q] = reg[q] /\ renewer'[q] = renewer[q] /\ dereg'[q] = dereg[q]
                        /\ q \in cancelled' <=> q \in cancelled
                        /\ q \in owned' => q \in owned
                        /\ losses' = 0 => losses = 0 /\ (q \in entry => q \in entry')
<1>1. RedisTypeOK /\ RegistrationInv(r)
  BY DEF RedisInv
<1>2. SUFFICES RedisTypeOK' /\ Others /\ RegistrationInv(r)' /\ UNCHANGED unlink
                /\ cancelled \subseteq cancelled'
  <2>1. \A q \in Rids \ {r} : RegistrationInv(q)'
    BY <1>2, RegistrationFrame DEF RedisInv
  <2>2. \A o \in Origins : UnlinkInv(o)'
    BY <1>2 DEF RedisInv, UnlinkInv
  <2> QED
    BY <1>2, <2>1, <2>2 DEF RedisInv
<1> USE DEF Step, renewalFrame
<1>3. CASE SetRef(r)
  BY <1>1, <1>3 DEF SetRef, RedisTypeOK, RegistrationInv
<1>4. CASE StartRenewal(r)
  BY <1>1, <1>4 DEF StartRenewal, RedisTypeOK, RegistrationInv
<1>5. CASE Wake(r)
  BY <1>1, <1>5 DEF Wake, RedisTypeOK, RegistrationInv
<1>6. CASE ExpireEntry(r)
  BY <1>1, <1>6 DEF ExpireEntry, RedisTypeOK, RegistrationInv
<1>7. CASE Reinsert(r)
  BY <1>1, <1>7 DEF Reinsert, RedisTypeOK, RegistrationInv
<1>8. CASE DeleteEntry(r)
  BY <1>1, <1>8 DEF DeleteEntry, RedisTypeOK, RegistrationInv
<1>9. CASE Expire(r)
  BY <1>1, <1>9 DEF Expire, Renewing, RedisTypeOK, RegistrationInv
<1>10. CASE DropIdentifier(r)
  BY <1>1, <1>10 DEF DropIdentifier, RedisTypeOK, RegistrationInv
<1>11. CASE LoseKey(r)
  BY <1>1, <1>11 DEF LoseKey, RedisTypeOK, RegistrationInv
<1>12. CASE Register(r)
  BY <1>1, <1>12 DEF Register, RedisTypeOK, RegistrationInv
<1>13. CASE Downcast(r)
  BY <1>1, <1>13 DEF Downcast, RedisTypeOK, RegistrationInv
<1>14. CASE Deregister(r)
  BY <1>1, <1>14 DEF Deregister, RedisTypeOK, RegistrationInv
<1> QED
  BY <1>3, <1>4, <1>5, <1>6, <1>7, <1>8, <1>9, <1>10, <1>11, <1>12, <1>13, <1>14 DEF OfRegistration

LEMMA OfOriginInv ==
    ASSUME NEW o \in Origins, RedisInv, OfOrigin(o)
    PROVE  RedisInv'
<1> USE DEF Step
<1>1. /\ RedisTypeOK /\ UnlinkInv(o) /\ OriginOf \in [Rids -> Origins]
      /\ \A r \in Rids : RegistrationInv(r)
      /\ unlink[o] \in [at : {"idle", "called", "read", "rid", "own"}, rid : Rids \union {NoRid}]
  BY RedisAssumption DEF RedisInv, RedisTypeOK
<1>2. Idle \in [at : {"idle"}, rid : {NoRid}]
  BY DEF Idle
<1>3. CASE ForgetRid(o)
  <2> DEFINE r == unlink[o].rid
  <2>1. CASE r \in owned /\ OriginOf[r] = o
    <3>1. unlink' = [unlink EXCEPT ![o] = [unlink[o] EXCEPT !.at = "own"]]
          /\ cancelled' = cancelled \union {r} /\ owned' = owned \ {r}
          /\ UNCHANGED <<ref, reg, renewer, dereg, losses, entry>>
      BY <1>3, <2>1 DEF ForgetRid
    <3>2. RedisTypeOK'
      BY <1>1, <3>1 DEF RedisTypeOK
    <3>3. \A q \in Rids : RegistrationInv(q)'
      BY <1>1, <2>1, <3>1 DEF RegistrationInv
    <3>4. \A p \in Origins : UnlinkInv(p)'
      BY <1>1, <1>3, <2>1, <3>1 DEF ForgetRid, RedisInv, RedisTypeOK, UnlinkInv
    <3> QED
      BY <3>2, <3>3, <3>4 DEF RedisInv
  <2>2. CASE ~(r \in owned /\ OriginOf[r] = o)
    <3>1. /\ unlink' = [unlink EXCEPT ![o] = Idle]
          /\ UNCHANGED <<ref, reg, renewer, dereg, losses, entry, cancelled, owned>>
      BY <1>3, <2>2 DEF ForgetRid
    <3> QED
      BY <1>1, <1>2, <3>1 DEF RedisInv, RedisTypeOK, UnlinkInv, RegistrationInv
  <2> QED
    BY <2>1, <2>2
<1>4. CASE DeleteOwned(o)
  <2>1. RedisTypeOK' /\ \A p \in Origins : UnlinkInv(p)'
    BY <1>1, <1>2, <1>4 DEF DeleteOwned, RedisInv, RedisTypeOK, UnlinkInv
  <2>2. \A q \in Rids : RegistrationInv(q)'
    BY <1>1, <1>4 DEF DeleteOwned, UnlinkInv, RegistrationInv
  <2> QED
    BY <2>1, <2>2 DEF RedisInv
<1>5. CASE DropRegistry(o)
  <2>1. RedisTypeOK' /\ \A p \in Origins : UnlinkInv(p)'
    BY <1>1, <1>5 DEF DropRegistry, RedisInv, RedisTypeOK, UnlinkInv
  <2>2. \A q \in Rids : RegistrationInv(q)'
    BY <1>1, <1>5 DEF DropRegistry, Of, RegistrationInv, RedisTypeOK
  <2> QED
    BY <2>1, <2>2 DEF RedisInv
<1>6. CASE ClearRef(o)
  <2>1. PICK u \in [at : {"read", "rid"}, rid : Rids] \union {Idle} : unlink' = [unlink EXCEPT ![o] = u]
    <3>1. CASE unlink[o].at = "called"
      BY <1>1, <1>6, <3>1 DEF ClearRef, RedisTypeOK
    <3>2. CASE unlink[o].at = "read"
      BY <1>1, <1>6, <3>2 DEF ClearRef, UnlinkInv
    <3> QED
      BY <1>6, <3>1, <3>2 DEF ClearRef
  <2>2. ref' \in Rids \union {NoRid}
    BY <1>1, <1>6 DEF ClearRef, RedisTypeOK
  <2>3. RedisTypeOK' /\ \A p \in Origins : UnlinkInv(p)'
    BY <1>1, <1>2, <1>6, <2>1, <2>2 DEF ClearRef, RedisInv, RedisTypeOK, UnlinkInv
  <2>4. \A q \in Rids : RegistrationInv(q)'
    BY <1>1, <1>6 DEF ClearRef, RegistrationInv
  <2> QED
    BY <2>3, <2>4 DEF RedisInv
<1>7. CASE Crash(o)
  <2>1. RedisTypeOK' /\ \A p \in Origins : UnlinkInv(p)'
    BY <1>1, <1>2, <1>7 DEF Crash, RedisInv, RedisTypeOK, UnlinkInv
  <2>2. \A q \in Rids : RegistrationInv(q)'
    BY <1>1, <1>7 DEF Crash, Of, RegistrationInv, RedisTypeOK
  <2> QED
    BY <2>1, <2>2 DEF RedisInv
<1>8. CASE CallDeregister(o)
  <2>1. /\ unlink' = [unlink EXCEPT ![o] = [at |-> "called", rid |-> NoRid]]
        /\ UNCHANGED <<ref, reg, renewer, dereg, losses, entry, cancelled, owned>>
    BY <1>8 DEF CallDeregister
  <2>2. [at |-> "called", rid |-> NoRid]
           \in [at : {"idle", "called", "read", "rid", "own"}, rid : Rids \union {NoRid}]
    OBVIOUS
  <2>3. RedisTypeOK' /\ \A p \in Origins : UnlinkInv(p)'
    BY <1>1, <2>1, <2>2 DEF RedisInv, RedisTypeOK, UnlinkInv
  <2>4. \A q \in Rids : RegistrationInv(q)'
    BY <1>1, <2>1 DEF RegistrationInv
  <2> QED
    BY <2>3, <2>4 DEF RedisInv
<1> QED
  BY <1>3, <1>4, <1>5, <1>6, <1>7, <1>8 DEF OfOrigin

LEMMA RedisStepInv ==
    ASSUME RedisInv, RedisStep
    PROVE  RedisInv'
<1>1. CASE UNCHANGED redisVars \/ RefExpires
  BY <1>1 DEF redisVars, RefExpires, RedisInv, RedisTypeOK, RegistrationInv, UnlinkInv
<1> QED
  BY <1>1, OfRegistrationInv, OfOriginInv DEF RedisStep
-----------------------------------------------------------------------------
(***************************************************************************)
(* Lookups.  Watch forgets a registration that is no longer held, so only  *)
(* the steps of the lookup itself are left to consider.                    *)
(***************************************************************************)
LEMMA WatchInv ==
    ASSUME RegistryInv, Watch, UNCHANGED look
    PROVE  /\ steady' \in [Origins -> Rids \union {NoRid}]
           /\ \A o \in Origins : SteadyInv(o)'
  BY DEF RegistryInv, Watch, SteadyInv

LEMMA LookupInv ==
    ASSUME RegistryInv, [Next]_vars
    PROVE  /\ look' \in [Origins -> [at : {"idle", "missed", "ref", "found"},
                                     rid : Rids \union {NoRid}]]
           /\ steady' \in [Origins -> Rids \union {NoRid}]
           /\ \A o \in Origins : SteadyInv(o)'
<1> DEFINE Goal == /\ look' \in [Origins -> [at : {"idle", "missed", "ref", "found"},
                                             rid : Rids \union {NoRid}]]
                   /\ steady' \in [Origins -> Rids \union {NoRid}]
                   /\ \A o \in Origins : SteadyInv(o)'
<1> USE DEF Step
<1>1. /\ look \in [Origins -> [at : {"idle", "missed", "ref", "found"}, rid : Rids \union {NoRid}]]
      /\ steady \in [Origins -> Rids \union {NoRid}]
      /\ \A o \in Origins : SteadyInv(o)
      /\ ref \in Rids \union {NoRid}
  BY DEF RegistryInv, RedisTypeOK
<1>2. Idle \in [at : {"idle"}, rid : {NoRid}]
  BY DEF Idle
<1>3. CASE Watch /\ UNCHANGED look
  BY <1>1, <1>3, WatchInv
<1>4. CASE UNCHANGED <<redisVars, look, steady>>
  BY <1>1, <1>4 DEF redisVars, SteadyInv, Held
<1>5. ASSUME NEW o \in Origins, LookupMisses(o) PROVE Goal
  BY <1>1, <1>2, <1>5 DEF LookupMisses, redisVars, SteadyInv, Held
<1>6. ASSUME NEW o \in Origins, LookupRef(o) PROVE Goal
  BY <1>1, <1>6 DEF LookupRef, redisVars, SteadyInv, Held
<1>7. ASSUME NEW o \in Origins, LookupEntry(o) \/ LookupFails(o) PROVE Goal
  BY <1>1, <1>2, <1>7 DEF LookupEntry, LookupFails, redisVars, SteadyInv, Held
<1>8. ASSUME NEW o \in Origins, LookupCaches(o) PROVE Goal
  BY <1>1, <1>2, <1>8 DEF LookupCaches, redisVars, SteadyInv, Held
<1>9. ASSUME NEW o \in Origins, CachedCrash(o) PROVE Goal
  BY <1>1, <1>2, <1>9 DEF CachedCrash, SteadyInv
<1> QED
  BY <1>3, <1>4, <1>5, <1>6, <1>7, <1>8, <1>9
  DEF Next, vars, cacheVars, Below, CachedRegister, CachedDeregister, CacheInsert, CacheRemove,
      CachedCallDeregister, CacheForget
-----------------------------------------------------------------------------
LEMMA RegistryInitInv == Init => RegistryInv
  BY DEF Init, RedisInit, Idle, RegistryInv, RedisTypeOK, RegistrationInv, UnlinkInv, SteadyInv

LEMMA RegistryStepInv == RegistryInv /\ [Next]_vars => RegistryInv'
<1> SUFFICES ASSUME RegistryInv, [Next]_vars PROVE RegistryInv'
  OBVIOUS
<1>1. RedisInv
  BY DEF RegistryInv, RedisInv
<1>2. RedisInv'
  BY <1>1, StepOfRedis, RedisStepInv
<1> QED
  BY <1>2, LookupInv DEF RegistryInv, RedisInv

(***************************************************************************)
(* RegistryInv is invariant.                                               *)
(***************************************************************************)
THEOREM RegistryCorrect == Spec => []RegistryInv
  BY RegistryInitInv, RegistryStepInv, PTL DEF Spec

(***************************************************************************)
(* A lookup finds a record if one registration has been held under the     *)
(* name all along, whatever other origins and their caches do meanwhile    *)
(* (register, run_renewal and lookup of redis.rs; cache.rs).               *)
(***************************************************************************)
THEOREM HeldRegistrationIsFound == Spec => HeldIsFound
<1>1. RegistryInv /\ [Next]_vars => \A o \in Origins : LookupFails(o) => steady[o] = NoRid
  <2> SUFFICES ASSUME RegistryInv, NEW o \in Origins, LookupFails(o), steady[o] # NoRid
               PROVE  FALSE
    OBVIOUS
  <2>1. /\ Held /\ ref = steady[o] /\ ref \in Rids /\ RegistrationInv(ref)
        /\ look[o].at = "ref" => look[o].rid = ref
    BY DEF RegistryInv, RedisTypeOK, SteadyInv, Held
  <2> QED
    BY <2>1 DEF LookupFails, RegistrationInv, Held
<1> QED
  BY <1>1, RegistryCorrect, PTL DEF Spec, HeldIsFound

\* One step leaves the entry and the renewal of a held registration alone.
Stays(r) ==
    reg[r] = "registered" /\ r \notin cancelled /\ losses' = losses =>
        /\ r \in entry => r \in entry'
        /\ r \in cancelled' => reg'[r] = "gone" \/ unlink'[OriginOf[r]] # unlink[OriginOf[r]]

LEMMA RegistrationStays ==
    ASSUME NEW q \in Rids, NEW r \in Rids, RedisInv, OfRegistration(q)
    PROVE  Stays(r)
<1>1. RedisTypeOK /\ RegistrationInv(r) /\ RegistrationInv(q)
  BY DEF RedisInv
<1> USE DEF Step, renewalFrame, Stays
<1>2. CASE SetRef(q) \/ StartRenewal(q) \/ Wake(q) \/ ExpireEntry(q) \/ Reinsert(q) \/ Register(q)
           \/ Downcast(q)
  BY <1>2 DEF SetRef, StartRenewal, Wake, ExpireEntry, Reinsert, Register, Downcast
<1>3. CASE DeleteEntry(q)
  BY <1>1, <1>3 DEF DeleteEntry, RegistrationInv
<1>4. CASE Expire(q)
  BY <1>1, <1>4 DEF Expire, Renewing, RegistrationInv
<1>5. CASE DropIdentifier(q) \/ Deregister(q)
  BY <1>1, <1>5 DEF DropIdentifier, Deregister, RedisTypeOK
<1>6. CASE LoseKey(q)
  BY <1>1, <1>6 DEF LoseKey, RedisTypeOK
<1> QED
  BY <1>2, <1>3, <1>4, <1>5, <1>6 DEF OfRegistration

LEMMA OriginStays ==
    ASSUME NEW o \in Origins, NEW r \in Rids, RedisInv, OfOrigin(o)
    PROVE  Stays(r)
<1>1. /\ RedisTypeOK /\ UnlinkInv(o) /\ OriginOf \in [Rids -> Origins]
  BY RedisAssumption DEF RedisInv
<1> USE DEF Step, Stays
<1>2. CASE CallDeregister(o) \/ ClearRef(o) \/ Crash(o)
  BY <1>2 DEF CallDeregister, ClearRef, Crash
<1>3. CASE ForgetRid(o)
  <2>1. UNCHANGED entry
    BY <1>3 DEF ForgetRid
  <2>2. r \notin cancelled /\ r \in cancelled' =>
           /\ OriginOf[r] = o /\ unlink[o].at = "rid"
           /\ unlink' = [unlink EXCEPT ![o] = [unlink[o] EXCEPT !.at = "own"]]
    BY <1>3 DEF ForgetRid
  <2>3. r \notin cancelled /\ r \in cancelled' => unlink'[o].at = "own" /\ unlink[o].at = "rid"
    BY <1>1, <2>2 DEF RedisTypeOK
  <2> QED
    BY <2>1, <2>2, <2>3
<1>4. CASE DeleteOwned(o)
  BY <1>1, <1>4 DEF DeleteOwned, UnlinkInv
<1>5. CASE DropRegistry(o)
  BY <1>1, <1>5 DEF DropRegistry, Of, RedisTypeOK
<1> QED
  BY <1>2, <1>3, <1>4, <1>5 DEF OfOrigin

(***************************************************************************)
(* The entry and the renewal of a registration that is held end only by    *)
(* what its own process does, whoever takes the name over or deregisters   *)
(* it elsewhere (deregister_by_rid, run_renewal).                          *)
(***************************************************************************)
THEOREM HeldEntriesStay == Spec => HeldEntryStays
<1>1. RegistryInv /\ [Next]_vars => [\A r \in Rids : Stays(r)]_redisVars
  <2> SUFFICES ASSUME RegistryInv, [Next]_vars, NEW r \in Rids, ~ UNCHANGED redisVars
               PROVE  Stays(r)
    OBVIOUS
  <2>1. RedisInv /\ RedisStep
    BY StepOfRedis DEF RegistryInv, RedisInv
  <2>2. CASE RefExpires
    BY <2>2 DEF RefExpires, Stays
  <2> QED
    BY <2>1, <2>2, RegistrationStays, OriginStays DEF RedisStep
<1> QED
  BY <1>1, RegistryCorrect, PTL DEF Spec, HeldEntryStays, Stays
=============================================================================
