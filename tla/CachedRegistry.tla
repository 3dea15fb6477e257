--------------------------- MODULE CachedRegistry --------------------------
(***************************************************************************)
(* The Redis registry as an origin can use it: through a                   *)
(* MappedTunnelRegistry (tunnel/registry/mapped.rs) and, in some origins,  *)
(* behind a WriteThroughCache (cache.rs) over an InMemoryTunnelRegistry    *)
(* (memory.rs).                                                            *)
(*                                                                         *)
(* Calls of the in-memory registry run in blocking tasks, at any time      *)
(* between the call and the end of the try_join that awaits them.          *)
(***************************************************************************)
EXTENDS RedisRegistry

VARIABLES
    cache,      \* origin -> the record in its in-memory registry
    inserting,  \* registrations whose in-memory register has yet to run
    removing,   \* registrations, and origins that deregister the name, whose
                \* in-memory deregister has yet to run
    look,       \* origin -> the progress of a lookup that missed the cache
    steady      \* origin -> the registration that has been held under the name
                \* ever since its lookup began, if any

cacheVars == <<cache, inserting, removing, look, steady>>
vars == <<redisVars, cacheVars>>

Init ==
    /\ RedisInit
    /\ cache = [o \in Origins |-> NoRid]
    /\ inserting = {} /\ removing = {}
    /\ look = [o \in Origins |-> Idle]
    /\ steady = [o \in Origins |-> NoRid]

\* The name resolves to a registration that is held.
Held == ref # NoRid /\ reg[ref] \in {"linked", "registered"} /\ ref \notin cancelled /\ losses = 0
Watch == steady' = [o \in Origins |-> IF Held' /\ ref' = steady[o] THEN steady[o] ELSE NoRid]

Cached(r) == IF OriginOf[r] \in setup.caching THEN {r} ELSE {}

\* MappedTunnelRegistry::register gives up before it calls the inner registry.
Downcast(r) ==
    /\ reg[r] = "idle"
    /\ reg' = Step(reg, r, "failed")
    /\ UNCHANGED <<setup, ref, entry, owned, cancelled, renewer, dereg,
                   unlink, losses>>

\* register: both registries at once.  A record the mapping cannot convert is
\* refused before Redis is called, but not before the cache is.
CachedRegister(r) ==
    /\ IF r \in setup.mapped THEN Register(r) ELSE Downcast(r)
    /\ inserting' = inserting \union Cached(r)
    /\ UNCHANGED <<cache, removing, look>>
    /\ Watch

\* InMemoryTunnelRegistry::register and ::deregister; its identifier is the name.
CacheInsert(r) ==
    /\ r \in inserting
    /\ inserting' = inserting \ {r}
    /\ cache' = Step(cache, OriginOf[r], r)
    /\ UNCHANGED <<redisVars, removing, look, steady>>

CacheRemove(r) ==
    /\ r \in removing
    /\ removing' = removing \ {r}
    /\ cache' = Step(cache, OriginOf[r], NoRid)
    /\ UNCHANGED <<redisVars, inserting, look, steady>>

\* deregister_identifier: both registries at once.
CachedDeregister(r) ==
    /\ r \notin inserting
    /\ Deregister(r)
    /\ removing' = removing \union Cached(r)
    /\ UNCHANGED <<cache, inserting, look>>
    /\ Watch

\* lookup: the cache, then GET of the reference, then GET of the entry, and
\* what is found is registered in the cache; that identifier is dropped.
LookupMisses(o) ==
    /\ o \in setup.caching /\ look[o].at = "idle" /\ cache[o] = NoRid
    /\ look' = Step(look, o, [Idle EXCEPT !.at = "missed"])
    /\ steady' = Step(steady, o, IF Held THEN ref ELSE NoRid)
    /\ UNCHANGED <<redisVars, cache, inserting, removing>>

LookupRef(o) ==
    /\ look[o].at = "missed" /\ ref # NoRid
    /\ look' = Step(look, o, [at |-> "ref", rid |-> ref])
    /\ UNCHANGED <<redisVars, cache, inserting, removing, steady>>

LookupEntry(o) ==
    /\ look[o].at = "ref" /\ look[o].rid \in entry
    /\ look' = Step(look, o, [look[o] EXCEPT !.at = "found"])
    /\ steady' = Step(steady, o, NoRid)
    /\ UNCHANGED <<redisVars, cache, inserting, removing>>

\* There is no reference, or it dangles: the answer is None.
LookupFails(o) ==
    /\ \/ look[o].at = "missed" /\ ref = NoRid
       \/ look[o].at = "ref" /\ look[o].rid \notin entry
    /\ look' = Step(look, o, Idle)
    /\ steady' = Step(steady, o, NoRid)
    /\ UNCHANGED <<redisVars, cache, inserting, removing>>

LookupCaches(o) ==
    /\ look[o].at = "found"
    /\ look' = Step(look, o, Idle)
    /\ cache' = Step(cache, o, look[o].rid)
    /\ UNCHANGED <<redisVars, inserting, removing, steady>>

\* A process that dies takes its cache and its calls with it.
CachedCrash(o) ==
    /\ Crash(o)
    /\ cache' = Step(cache, o, NoRid)
    /\ inserting' = inserting \ Of(o) /\ removing' = removing \ (Of(o) \union {o})
    /\ look' = Step(look, o, Idle)
    /\ steady' = [p \in Origins |->
                     IF p # o /\ Held' /\ ref' = steady[p] THEN steady[p] ELSE NoRid]

\* deregister: both registries at once; the cache loses the name whoever
\* registered it, and whether or not Redis has a reference.
CachedCallDeregister(o) ==
    /\ CallDeregister(o)
    /\ removing' = removing \union ({o} \intersect setup.caching)
    /\ UNCHANGED <<cache, inserting, look>>
    /\ Watch

CacheForget(o) ==
    /\ o \in removing
    /\ removing' = removing \ {o}
    /\ cache' = Step(cache, o, NoRid)
    /\ UNCHANGED <<redisVars, inserting, look, steady>>

\* Steps of the Redis registry that the cache has no part in.
Below(A) == A /\ Watch /\ UNCHANGED <<cache, inserting, removing, look>>

Next ==
    \/ Below(RefExpires)
    \/ \E r \in Rids :
          \/ Below(RegisterStep(r)) \/ Below(Renewal(r)) \/ Below(DeleteEntry(r))
          \/ Below(Expire(r)) \/ Below(DropIdentifier(r)) \/ Below(LoseKey(r))
          \/ CachedRegister(r) \/ CachedDeregister(r) \/ CacheInsert(r) \/ CacheRemove(r)
    \/ \E o \in Origins :
          \/ Below(ForgetRid(o)) \/ Below(DeleteOwned(o)) \/ Below(DropRegistry(o))
          \/ Below(ClearRef(o)) \/ CachedCallDeregister(o) \/ CacheForget(o) \/ CachedCrash(o)
    \/ \E o \in Origins : LookupMisses(o) \/ LookupRef(o) \/ LookupEntry(o)
          \/ LookupFails(o) \/ LookupCaches(o)

\* A register call that has begun goes on, renewal tasks are polled, and keys
\* that nobody renews expire.  Nothing is assumed of deregistrations.
Fairness ==
    \A r \in Rids : /\ WF_vars(Below(RegisterStep(r) \/ Renewal(r)))
                    /\ WF_vars(Below(Expire(r)))

Spec == Init /\ [][Next]_vars /\ Fairness
-----------------------------------------------------------------------------
\* A lookup finds a record if one registration has been held under the name
\* from its beginning to its end: the entry of a registration exists before
\* the name refers to it, is renewed while it is held, and a cache emptied by
\* an older tunnel of the same name is refilled from Redis.
HeldIsFound == [][\A o \in Origins : LookupFails(o) => steady[o] = NoRid]_vars
-----------------------------------------------------------------------------
\* The inductive invariant behind HeldIsFound and HeldEntryStays: who may
\* still delete an entry or let it expire, and what a lookup relies on.
RedisTypeOK ==
    /\ ref \in Rids \union {NoRid}
    /\ reg \in [Rids -> {"idle", "entered", "linked", "registered", "gone", "failed"}]
    /\ renewer \in [Rids -> {"none", "sleeping", "awake", "absent", "done"}]
    /\ dereg \in [Rids -> {"none", "clearing", "left", "done"}]
    /\ unlink \in [Origins -> [at : {"idle", "called", "read", "rid", "own"}, rid : Rids \union {NoRid}]]
    /\ losses \in Nat

RegistrationInv(r) ==
    /\ reg[r] \in {"idle", "entered", "linked"} =>
          r \notin cancelled /\ r \notin owned /\ renewer[r] = "none"
    /\ reg[r] = "registered" /\ r \notin cancelled => renewer[r] \in {"sleeping", "awake", "absent"}
    /\ dereg[r] = "clearing" => reg[r] = "gone"
    /\ losses = 0 /\ r \notin cancelled /\ reg[r] \in {"entered", "linked", "registered"} =>
          r \in entry

UnlinkInv(o) ==
    /\ unlink[o].at = "own" => unlink[o].rid \in cancelled /\ OriginOf[unlink[o].rid] = o
    /\ unlink[o].at \in {"read", "rid", "own"} => unlink[o].rid \in Rids

SteadyInv(o) == steady[o] # NoRid =>
    /\ Held /\ ref = steady[o]
    /\ look[o].at \in {"missed", "ref"}
    /\ look[o].at = "ref" => look[o].rid = steady[o]

RegistryInv ==
    /\ RedisTypeOK
    /\ look \in [Origins -> [at : {"idle", "missed", "ref", "found"}, rid : Rids \union {NoRid}]]
    /\ steady \in [Origins -> Rids \union {NoRid}]
    /\ \A r \in Rids : RegistrationInv(r)
    /\ \A o \in Origins : UnlinkInv(o) /\ SteadyInv(o)
=============================================================================
