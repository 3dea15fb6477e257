--------------------------- MODULE RedisRegistry ---------------------------
(***************************************************************************)
(* RedisRegistry (tunnel/registry/redis.rs): several server processes      *)
(* ("origins") register tunnels under one name.  A registration owns an    *)
(* entry key, addressed by a random id and kept alive by a renewal task;   *)
(* the reference key of the name holds the id of the last registration.    *)
(*                                                                         *)
(* Redis (external) runs one command at a time, expires keys, and may lose *)
(* them.  Every step is one Redis command or what a task does between two  *)
(* of them; failed renewals are late ones.                                 *)
(***************************************************************************)
EXTENDS Naturals, FiniteSets

CONSTANTS
    Rids,         \* registrations, by the random id each one draws
    Origins,      \* server processes
    OriginOf,     \* the process that makes a registration
    NoRid,        \* an absent key
    Setups        \* the configurations considered: the origins that call
                  \* deregister, those that have a cache, the registrations
                  \* whose record can be mapped, whether Redis knows the GETDEL
                  \* command, and how many keys it loses

ASSUME RedisAssumption ==
    /\ OriginOf \in [Rids -> Origins] /\ NoRid \notin Rids
    /\ Setups \subseteq [cleaners : SUBSET Origins, caching : SUBSET Origins,
                         mapped : SUBSET Rids, getdel : BOOLEAN, losses : Nat]

VARIABLES
    setup,    \* the configuration of this behaviour
    ref,      \* the value of the name's reference key
    entry,    \* the registrations whose entry key exists
    reg,      \* registration -> the progress of its register call
    owned,    \* active_registration_map of every origin, which are disjoint
    cancelled,\* registrations whose renewal token has been cancelled
    renewer,  \* registration -> its renewal task
    dereg,    \* registration -> the progress of deregister_identifier, and
              \* whether it deleted the entry or left it
    unlink,   \* origin -> the progress of deregister, and the id it has read
    losses    \* keys lost so far

redisVars == <<setup, ref, entry, reg, owned, cancelled, renewer,
               dereg, unlink, losses>>

Idle == [at |-> "idle", rid |-> NoRid]

RedisInit ==
    /\ setup \in Setups
    /\ ref = NoRid
    /\ entry = {}
    /\ reg = [r \in Rids |-> "idle"]
    /\ owned = {} /\ cancelled = {}
    /\ renewer = [r \in Rids |-> "none"]
    /\ dereg = [r \in Rids |-> "none"]
    /\ unlink = [o \in Origins |-> Idle]
    /\ losses = 0

Step(f, x, v) == [f EXCEPT ![x] = v]

\* Somebody relies on the entry being renewed.
Renewing(r) == reg[r] \in {"entered", "linked"} \/ (renewer[r] \notin {"none", "done"} /\ r \notin cancelled)
-----------------------------------------------------------------------------
(***************************************************************************)
(* register                                                                *)
(***************************************************************************)
\* Faulty variant: the name is linked before the entry exists.
RegisterAfterRef(r) ==
    /\ \/ reg[r] = "idle" /\ reg' = Step(reg, r, "entered") /\ UNCHANGED entry
       \/ reg[r] = "linked" /\ r \notin entry /\ entry' = entry \union {r} /\ UNCHANGED reg
    /\ UNCHANGED <<setup, ref, owned, cancelled, renewer, dereg, unlink, losses>>

\* SET of a fresh key, NX, tried again after an error with another id; a failed
\* attempt leaves at most a key that nobody knows.
Register(r) ==
    /\ reg[r] = "idle"
    /\ \/ reg' = Step(reg, r, "entered") /\ entry' = entry \union {r}
       \/ reg' = Step(reg, r, "failed") /\ UNCHANGED entry
    /\ UNCHANGED <<setup, ref, owned, cancelled, renewer, dereg, unlink, losses>>

\* SET of the reference, which takes the name over; or an error, of a command
\* that may have been run all the same, and then nobody renews the entry.
SetRef(r) ==
    /\ reg[r] = "entered"
    /\ \/ reg' = Step(reg, r, "linked") /\ ref' = r
       \/ reg' = Step(reg, r, "failed") /\ ref' \in {ref, r}
    /\ UNCHANGED <<setup, entry, owned, cancelled, renewer, dereg, unlink, losses>>

\* register_for_renewals, and the identifier is returned.
StartRenewal(r) ==
    /\ reg[r] = "linked"
    /\ reg' = Step(reg, r, "registered")
    /\ renewer' = Step(renewer, r, "sleeping")
    /\ owned' = owned \union {r}
    /\ UNCHANGED <<setup, ref, entry, cancelled, dereg, unlink, losses>>
-----------------------------------------------------------------------------
(***************************************************************************)
(* run_renewal                                                             *)
(***************************************************************************)
renewalFrame == <<setup, reg, owned, cancelled, dereg, unlink, losses>>

\* Faulty variant: the loop does not look at its token.
WakeAlways(r) ==
    /\ renewer[r] = "sleeping"
    /\ renewer' = Step(renewer, r, "awake")
    /\ UNCHANGED <<renewalFrame, ref, entry>>

\* Sleep until the next renewal or the cancellation, and look at the token.
Wake(r) ==
    /\ renewer[r] = "sleeping"
    /\ renewer' = Step(renewer, r, IF r \in cancelled THEN "done" ELSE "awake")
    /\ UNCHANGED <<renewalFrame, ref, entry>>

\* EXPIRE of the reference key and of the entry key (see Expire).  If there is
\* no entry key, and EXISTS confirms it, the task goes on to restore it.
ExpireEntry(r) ==
    /\ renewer[r] = "awake"
    /\ renewer' = Step(renewer, r, IF r \in entry THEN "sleeping" ELSE "absent")
    /\ UNCHANGED <<renewalFrame, ref, entry>>

\* Faulty variant: a missing entry is given up.
ReinsertForgotten(r) ==
    /\ renewer[r] = "absent"
    /\ renewer' = Step(renewer, r, "sleeping")
    /\ UNCHANGED <<renewalFrame, ref, entry>>

\* SET NX of the saved copy.
Reinsert(r) ==
    /\ renewer[r] = "absent"
    /\ renewer' = Step(renewer, r, "sleeping")
    /\ entry' = entry \union {r}
    /\ UNCHANGED <<renewalFrame, ref>>

Renewal(r) == Wake(r) \/ ExpireEntry(r) \/ Reinsert(r)
-----------------------------------------------------------------------------
(***************************************************************************)
(* deregister_identifier, deregister, and the drop of identifiers          *)
(***************************************************************************)
\* The identifier is dropped, which cancels the renewal, and the registration
\* leaves the map; all before the first await.
Deregister(r) ==
    /\ reg[r] = "registered" /\ dereg[r] = "none"
    /\ reg' = Step(reg, r, "gone")
    /\ cancelled' = cancelled \union {r}
    /\ owned' = owned \ {r}
    /\ dereg' = Step(dereg, r, IF r \in owned THEN "clearing" ELSE "left")
    /\ UNCHANGED <<setup, ref, entry, renewer, unlink, losses>>

\* GETDEL of the entry key, or an error that leaves it to its time to live.
DeleteEntry(r) ==
    /\ dereg[r] = "clearing"
    /\ \/ entry' = entry \ {r} /\ dereg' = Step(dereg, r, "done")
       \/ dereg' = Step(dereg, r, "left") /\ UNCHANGED entry
    /\ UNCHANGED <<setup, ref, reg, owned, cancelled, renewer, unlink, losses>>

\* The last clone of the identifier is dropped without deregistration: the
\* renewal stops and the keys are left to expire.
DropIdentifier(r) ==
    /\ reg[r] = "registered"
    /\ reg' = Step(reg, r, "gone")
    /\ cancelled' = cancelled \union {r}
    /\ UNCHANGED <<setup, ref, entry, owned, renewer, dereg, unlink, losses>>

\* deregister(name) is called.
CallDeregister(o) ==
    /\ unlink[o].at = "idle" /\ o \in setup.cleaners
    /\ unlink' = Step(unlink, o, [at |-> "called", rid |-> NoRid])
    /\ UNCHANGED <<setup, ref, entry, reg, owned, cancelled, renewer, dereg, losses>>

\* GETDEL of the reference, or GET and then DEL, whoever registered it last; or
\* an error, of a command that may have been run all the same.
ClearRef(o) ==
    /\ \/ unlink[o].at = "called" /\ ref = NoRid
          /\ unlink' = Step(unlink, o, Idle) /\ UNCHANGED ref
       \/ unlink[o].at = "called" /\ ref # NoRid
          /\ unlink' = Step(unlink, o, [at |-> IF setup.getdel THEN "rid" ELSE "read", rid |-> ref])
          /\ ref' = IF setup.getdel THEN NoRid ELSE ref
       \/ unlink[o].at = "read"
          /\ unlink' = Step(unlink, o, [unlink[o] EXCEPT !.at = "rid"])
          /\ ref' = NoRid
       \/ unlink[o].at \in {"called", "read"}
          /\ unlink' = Step(unlink, o, Idle) /\ ref' \in {ref, NoRid}
    /\ UNCHANGED <<setup, entry, reg, owned, cancelled, renewer, dereg, losses>>

\* Faulty variant: the map of this origin is not consulted.
ForgetRidUnchecked(o) ==
    /\ unlink[o].at = "rid"
    /\ LET r == unlink[o].rid
       IN  /\ owned' = owned \ {r} /\ cancelled' = cancelled \union {r}
           /\ unlink' = Step(unlink, o, [unlink[o] EXCEPT !.at = "own"])
    /\ UNCHANGED <<setup, ref, entry, reg, renewer, dereg, losses>>

\* deregister_by_rid: a registration of this origin is cancelled and its entry
\* deleted; any other is only read.
ForgetRid(o) ==
    /\ unlink[o].at = "rid"
    /\ LET r == unlink[o].rid
       IN  IF r \in owned /\ OriginOf[r] = o
           THEN /\ owned' = owned \ {r} /\ cancelled' = cancelled \union {r}
                /\ unlink' = Step(unlink, o, [unlink[o] EXCEPT !.at = "own"])
           ELSE unlink' = Step(unlink, o, Idle) /\ UNCHANGED <<owned, cancelled>>
    /\ UNCHANGED <<setup, ref, entry, reg, renewer, dereg, losses>>

\* As in DeleteEntry.
DeleteOwned(o) ==
    /\ unlink[o].at = "own"
    /\ entry' \in {entry, entry \ {unlink[o].rid}}
    /\ unlink' = Step(unlink, o, Idle)
    /\ UNCHANGED <<setup, ref, reg, owned, cancelled, renewer, dereg, losses>>
-----------------------------------------------------------------------------
(***************************************************************************)
(* The environment                                                         *)
(***************************************************************************)
Of(o) == {r \in Rids : OriginOf[r] = o}

\* The process of an origin dies, with its renewals and its calls.
Crash(o) ==
    /\ \E r \in Of(o) : reg[r] \notin {"idle", "gone", "failed"}
    /\ reg' = [r \in Rids |-> IF r \in Of(o) /\ reg[r] # "idle" THEN "gone" ELSE reg[r]]
    /\ renewer' = [r \in Rids |-> IF r \in Of(o) /\ renewer[r] # "none" THEN "done" ELSE renewer[r]]
    /\ dereg' = [r \in Rids |-> IF r \in Of(o) /\ dereg[r] = "clearing" THEN "left" ELSE dereg[r]]
    /\ owned' = owned \ Of(o)
    /\ unlink' = Step(unlink, o, Idle)
    /\ UNCHANGED <<setup, ref, entry, cancelled, losses>>

\* The registry object of an origin is dropped, and no register call holds on to
\* its core_canceller, the parent of every renewal's token.  A deregister call
\* under way keeps the map, for the registration it has read.
DropRegistry(o) ==
    /\ \A r \in Of(o) : reg[r] \in {"idle", "registered", "gone", "failed"}
    /\ \E r \in Of(o) : reg[r] = "registered"
    /\ cancelled' = cancelled \union {r \in Of(o) : renewer[r] # "none"}
    /\ reg' = [r \in Rids |-> IF r \in Of(o) /\ reg[r] = "registered" THEN "gone" ELSE reg[r]]
    /\ owned' = owned \ (Of(o) \ {unlink[o].rid})
    /\ UNCHANGED <<setup, ref, entry, renewer, dereg, unlink, losses>>

\* Redis loses a key, as by a failover, or lets it expire after an outage that
\* outlasted its life.
LoseKey(r) ==
    /\ losses < setup.losses /\ losses' = losses + 1
    /\ \/ r \in entry /\ entry' = entry \ {r} /\ UNCHANGED ref
       \/ ref = r /\ ref' = NoRid /\ UNCHANGED entry
    /\ UNCHANGED <<setup, reg, owned, cancelled, renewer, dereg, unlink>>

\* An entry lives for three renewals, so it expires only if nobody renews it.
Expire(r) ==
    /\ r \in entry /\ ~Renewing(r)
    /\ entry' = entry \ {r}
    /\ UNCHANGED <<setup, ref, reg, owned, cancelled, renewer, dereg, unlink, losses>>

\* The reference key lives ten times as long as an entry and is renewed with
\* it, so it expires only after the entry it refers to.
RefExpires ==
    /\ ref # NoRid /\ ref \notin entry /\ ~Renewing(ref)
    /\ ref' = NoRid
    /\ UNCHANGED <<setup, entry, reg, owned, cancelled, renewer, dereg, unlink, losses>>
-----------------------------------------------------------------------------
RegisterStep(r) == SetRef(r) \/ StartRenewal(r)
-----------------------------------------------------------------------------
\* As long as a registration is held, nothing but Redis itself loses its entry,
\* and only its own process ends it: by its identifier, by its death, or by a
\* deregister call of its own for the name.  Deregistrations of the name
\* elsewhere, takeovers and late renewals leave it alone (deregister_by_rid,
\* run_renewal).
HeldEntryStays ==
    [][\A r \in Rids : reg[r] = "registered" /\ r \notin cancelled /\ losses' = losses =>
          /\ r \in entry => r \in entry'
          /\ r \in cancelled' =>
                reg'[r] = "gone" \/ unlink'[OriginOf[r]] # unlink[OriginOf[r]]]_redisVars

\* The name of a registration that is held is cleared by no other origin
\* (registry/mod.rs:57-58 "implementations will generally not allow deletion of
\* an entry created by another origin's instances; This is purely for explicit
\* cleanup of those it created").  The entry stays, but deregister deletes the
\* reference before it looks whose it is (redis.rs:453-454), and no renewal
\* sets a reference again.
NameStaysWithHolder ==
    [][\A r \in Rids :
          ref = r /\ ref' = NoRid /\ reg[r] = "registered" /\ r \notin cancelled /\ losses' = losses
             => unlink'[OriginOf[r]] # unlink[OriginOf[r]]]_redisVars

\* Eventual consistency: the entry of a registration that nobody renews, be it
\* deregistered, dropped or lost with its process, is gone for good in the end.
AbandonedEntryGoes ==
    \A r \in Rids : reg[r] \in {"gone", "failed"} \/ r \in cancelled ~> [](r \notin entry)

\* An entry that Redis lost is restored by the renewal of its registration.
LostEntryIsRestored ==
    \A r \in Rids : r \notin entry /\ Renewing(r) ~> r \in entry \/ ~Renewing(r)
=============================================================================
