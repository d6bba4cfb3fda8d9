---------------------------- MODULE ReadThrough ----------------------------
(***************************************************************************)
(* One key of CacheService, and the requests that read the database through *)
(* it and invalidate it: the list of available bookings of a washer        *)
(* (WasherService, invalidated by BookingsService, OffersService and        *)
(* WasherService) and the user JwtStrategy.validate looks up on every      *)
(* request (invalidated by AdminService).  Both follow the same protocol.  *)
(*                                                                         *)
(* Not every change is announced to the cache: a cancellation by the       *)
(* client, a vehicle removed with its bookings, a new position or name and *)
(* the passing of expiresAt change what is cached and invalidate nothing.  *)
(*                                                                         *)
(* The data is a version number.  The entry is in Redis when there is one, *)
(* and in the Map of the process otherwise; every call to Redis can fail.  *)
(***************************************************************************)
EXTENDS Naturals

CONSTANTS
    MaxVersion,   \* bound: how often the data changes
    TTL,          \* time units an entry lives
    Faults,       \* whether calls to Redis can fail and processes die
    Slots,        \* requests that can be in flight at the same time
    None          \* no entry, no value

ASSUME BoundsAreNumbers == MaxVersion \in Nat /\ TTL \in Nat \ {0}
ASSUME FaultsOrNot == Faults \in BOOLEAN
ASSUME NoneIsNoVersion == None \notin Nat

VARIABLES
    version,   \* the data in the database
    announced, \* the last of it whose writer invalidates the key
    redis,     \* the entry in Redis, or None
    memory,    \* the entry in the Map, or None
    online,    \* whether there is a connection to Redis
    req        \* the request each slot is working on

vars == <<version, announced, redis, memory, online, req>>

-----------------------------------------------------------------------------
Versions == 0..MaxVersion

\* left: the time until the entry expires; an expired one is as good as none.
Entry == [data: Versions, left: 1..TTL]
Request == [at: {"set"}, data: Versions]
             \cup [at: {"idle", "query", "del"}, data: {None}]

Idle == [at |-> "idle", data |-> None]
At(s, stage) == req[s].at = stage
Step(s, at, data) == req' = [req EXCEPT ![s] = [at |-> at, data |-> data]]

Fresh(entry) == entry # None /\ entry.left > 0

Init == /\ version = 0
        /\ announced = 0
        /\ redis = None
        /\ memory = None
        /\ online \in BOOLEAN
        /\ req = [s \in Slots |-> Idle]

\* The connection is given up when the first attempt fails; requests may have
\* been served by then.
Disconnect ==
    /\ online
    /\ Faults
    /\ online' = FALSE
    /\ UNCHANGED <<version, announced, redis, memory, req>>
-----------------------------------------------------------------------------
\* What get finds: with a connection only what Redis has counts.
Found == IF online THEN redis ELSE memory

\* A request that finds the key answers at once and leaves no trace; one that
\* does not, or that Redis fails, queries the database.
LookUp(s) ==
    /\ At(s, "idle")
    /\ \/ ~ Fresh(Found)
       \/ online /\ Faults
    /\ Step(s, "query", None)
    /\ UNCHANGED <<version, announced, redis, memory, online>>

Query(s) ==
    /\ At(s, "query")
    /\ Step(s, "set", version)
    /\ UNCHANGED <<version, announced, redis, memory, online>>

\* Seeded fault: the entry is stored without an expiry.
BugLasting(data) == [data |-> data, left |-> TTL + 1]

Stored(data) == [data |-> data, left |-> TTL]

\* set writes to Redis, and to the Map only without Redis or when it fails; a call
\* that fails may have had its effect.
Set(s) ==
    /\ At(s, "set")
    /\ \/ /\ online
          /\ redis' = Stored(req[s].data)
          /\ UNCHANGED memory
       \/ /\ ~ online \/ Faults
          /\ memory' = Stored(req[s].data)
          /\ redis' \in IF online THEN {redis, Stored(req[s].data)} ELSE {redis}
    /\ Step(s, "idle", None)
    /\ UNCHANGED <<version, announced, online>>

\* A handler commits its change, and invalidates the key after that.
Change(s) ==
    /\ At(s, "idle")
    /\ version < MaxVersion
    /\ version' = version + 1
    /\ announced' = version + 1
    /\ Step(s, "del", None)
    /\ UNCHANGED <<redis, memory, online>>

\* A change that nothing follows.
SilentChange ==
    /\ version < MaxVersion
    /\ version' = version + 1
    /\ UNCHANGED <<announced, redis, memory, online, req>>

\* del and delPattern: a failure of Redis is ignored.
RedisOnceDeleted == IF ~ online THEN {redis}
                    ELSE IF Faults THEN {redis, None} ELSE {None}

Delete(s) ==
    /\ At(s, "del")
    /\ redis' \in RedisOnceDeleted
    /\ memory' = None
    /\ Step(s, "idle", None)
    /\ UNCHANGED <<version, announced, online>>

\* A request ends early: a query throws.
Abort(s) ==
    /\ At(s, "query") \/ (Faults /\ ~ At(s, "idle"))
    /\ Step(s, "idle", None)
    /\ UNCHANGED <<version, announced, redis, memory, online>>

\* The process dies and is started again: the Map is empty, what requests had still
\* to store or to delete is forgotten, and Redis keeps what it has.
Restart ==
    /\ Faults
    /\ memory' = None
    /\ req' = [s \in Slots |-> Idle]
    /\ online' \in BOOLEAN
    /\ UNCHANGED <<version, announced, redis>>

\* Seeded fault: time does not count against an entry.
BugOlder(entry) == entry

Older(entry) == IF entry = None \/ entry.left = 1 THEN None
                ELSE [entry EXCEPT !.left = entry.left - 1]

Tick ==
    /\ redis # None \/ memory # None
    /\ redis' = Older(redis)
    /\ memory' = Older(memory)
    /\ UNCHANGED <<version, announced, online, req>>

Next == \/ \E s \in Slots : \/ LookUp(s) \/ Query(s) \/ Set(s)
                            \/ Change(s) \/ Delete(s) \/ Abort(s)
        \/ SilentChange
        \/ Disconnect
        \/ Restart
        \/ Tick

Spec == Init /\ [][Next]_vars

\* Time passes.
FairSpec == Spec /\ WF_vars(Tick)
-----------------------------------------------------------------------------
(***************************************************************************)
(* Properties                                                              *)
(***************************************************************************)

\* Everything has its shape; no entry outlives its time to live.
TypeOK == /\ version \in Versions
          /\ announced \in 0..version
          /\ redis \in Entry \cup {None}
          /\ memory \in Entry \cup {None}
          /\ online \in BOOLEAN
          /\ req \in [Slots -> Request]

Stale == Fresh(Found) /\ Found.data # version

AllInvalidated == \A s \in Slots : ~ At(s, "del")

\* "Clear available bookings cache": once every change that the code announces has
\* been followed by its invalidation, nothing older than the last of them is
\* served.  It holds while nothing fails and no such change overtakes what a
\* request is about to store.
Coherent ==
    AllInvalidated => (Fresh(Found) => Found.data >= announced)

\* What the silent changes make false: that what is served is then up to date.
UpToDate == AllInvalidated => ~ Stale

\* Whatever fails and however requests overlap, what is served is brought up to
\* date in the end: a lost invalidation, or a list stored after it, costs a delay.
StaleEnds == Stale ~> ~ Stale
-----------------------------------------------------------------------------
(***************************************************************************)
(* What holds when no announced change is committed between the query of a *)
(* request and the set that stores what it returned; all else may overlap. *)
(***************************************************************************)
NotOvertaken == \A s \in Slots : At(s, "set") => req[s].data >= announced

ApartSpec == Init /\ [][Next /\ NotOvertaken']_vars
=============================================================================
