---------------------------- MODULE PublicCache ----------------------------
(* One namespace of the public response cache (apps/core/cache.py and       *)
(* api_cache.py). Writers commit a change and, after the commit, bump the   *)
(* namespace version; readers take the version, look the payload up under a *)
(* key that holds it and, if it is missing or past its soft lifetime, build *)
(* it from the database and store it. The version key may be missing (cold  *)
(* start, eviction) and is then seeded from the clock in two cache calls.  *)
(* A payload is the number of the last change it shows.                     *)
EXTENDS Naturals

CONSTANTS
    Readers, Writers,
    MaxData,        \* bound: changes committed
    MaxTicks,       \* bound: milliseconds
    MaxEvictions    \* bound: losses of the version key

ASSUME CacheBounds == MaxData \in Nat /\ MaxTicks \in Nat \ {0} /\ MaxEvictions \in Nat

Versions == 1..MaxTicks
Empty == MaxData + 1        \* no payload under a key
Missing == 0                \* no version key

VARIABLES
    data,           \* last committed change
    invalidated,    \* last change whose invalidation has been applied
    tick, version, evictions,
    entry,          \* the payload stored under each version
    softExpired,    \* keys past their soft lifetime
    lock,           \* keys whose refresh lock is taken
    g_pc, g_version, g_value, g_locked,
    w_pc, w_seed,
    highest,        \* greatest version so far
    receded         \* has a seed ever failed to exceed it?

storeVars == <<entry, softExpired, lock>>
readerVars == <<g_pc, g_version, g_value, g_locked>>
writerVars == <<w_pc, w_seed>>
cacheVars == <<data, invalidated, tick, version, evictions, storeVars, readerVars,
               writerVars, highest, receded>>

CacheInit ==
    /\ data = 0 /\ invalidated = 0 /\ tick = 1 /\ version = Missing /\ evictions = 0
    /\ entry = [v \in Versions |-> Empty]
    /\ softExpired = {} /\ lock = {} /\ highest = 0 /\ receded = FALSE
    /\ g_pc = [r \in Readers |-> "idle"]
    /\ g_version = [r \in Readers |-> Missing]
    /\ g_value = [r \in Readers |-> 0]
    /\ g_locked = [r \in Readers |-> FALSE]
    /\ w_pc = [w \in Writers |-> "idle"]
    /\ w_seed = [w \in Writers |-> Missing]

-----------------------------------------------------------------------------
(* The namespace version.                                                   *)

SetVersion(v) ==
    /\ version' = v
    /\ highest' = IF v > highest THEN v ELSE highest

\* cache.set(version_key, seed): whatever is there by now is replaced.
_seed_namespace_version(seed) ==
    /\ SetVersion(seed)
    /\ receded' = (receded \/ seed <= highest)

get_namespace_version(r) ==
    /\ g_pc[r] = "idle"
    /\ g_pc' = [g_pc EXCEPT ![r] = IF version = Missing THEN "seeding" ELSE "lookup"]
    /\ g_version' = [g_version EXCEPT ![r] = IF version = Missing THEN tick ELSE version]
    /\ UNCHANGED <<data, invalidated, tick, version, evictions, storeVars, g_value, g_locked,
                   writerVars, highest, receded>>

ReaderSeeds(r) ==
    /\ g_pc[r] = "seeding"
    /\ _seed_namespace_version(g_version[r])
    /\ g_pc' = [g_pc EXCEPT ![r] = "lookup"]
    /\ UNCHANGED <<data, invalidated, tick, evictions, storeVars, g_version, g_value, g_locked,
                   writerVars>>

\* Invalidations of one namespace are at least a millisecond apart.
Tick == tick < MaxTicks /\ tick' = tick + 1

-----------------------------------------------------------------------------
(* Writers.                                                                 *)

CommitChange(w) ==
    /\ w_pc[w] = "idle" /\ data < MaxData
    /\ data' = data + 1
    /\ w_pc' = [w_pc EXCEPT ![w] = "committed"]
    /\ UNCHANGED <<invalidated, tick, version, evictions, storeVars, readerVars, w_seed, highest, receded>>

\* on_commit: incr, or a seed when the key is missing. Everything committed so
\* far is covered.
cache_delete_namespace(w) ==
    /\ w_pc[w] = "committed"
    /\ Tick
    /\ IF version = Missing
       THEN /\ w_pc' = [w_pc EXCEPT ![w] = "seeding"]
            /\ w_seed' = [w_seed EXCEPT ![w] = tick]
            /\ UNCHANGED <<version, highest, invalidated>>
       ELSE /\ SetVersion(version + 1)
            /\ invalidated' = data
            /\ w_pc' = [w_pc EXCEPT ![w] = "idle"]
            /\ UNCHANGED w_seed
    /\ UNCHANGED <<data, evictions, storeVars, readerVars, receded>>

WriterSeeds(w) ==
    /\ w_pc[w] = "seeding"
    /\ _seed_namespace_version(w_seed[w])
    /\ invalidated' = data
    /\ w_pc' = [w_pc EXCEPT ![w] = "idle"]
    /\ w_seed' = [w_seed EXCEPT ![w] = Missing]
    /\ UNCHANGED <<data, tick, evictions, storeVars, readerVars>>

\* The process dies after the commit: the invalidation is lost.
WriterDies(w) ==
    /\ w_pc[w] # "idle"
    /\ w_pc' = [w_pc EXCEPT ![w] = "idle"]
    /\ w_seed' = [w_seed EXCEPT ![w] = Missing]
    /\ UNCHANGED <<data, invalidated, tick, version, evictions, storeVars, readerVars, highest, receded>>

-----------------------------------------------------------------------------
(* Readers: cache_get_or_set_swr on the key of the version they took.       *)

Key(r) == g_version[r]

Served(r) ==
    /\ g_pc' = [g_pc EXCEPT ![r] = "idle"]
    /\ g_version' = [g_version EXCEPT ![r] = Missing]
    /\ g_value' = [g_value EXCEPT ![r] = 0]
    /\ g_locked' = [g_locked EXCEPT ![r] = FALSE]
    /\ UNCHANGED <<data, invalidated, tick, version, evictions, writerVars, highest, receded>>

\* A payload that is fresh, or stale with its refresh lock taken, is served.
ServeCached(r) ==
    /\ g_pc[r] = "lookup" /\ entry[Key(r)] # Empty
    /\ Key(r) \in softExpired => Key(r) \in lock
    /\ Served(r)
    /\ UNCHANGED storeVars

\* Whoever gets the lock of a stale or missing payload builds it; without the
\* lock a missing one is waited for, and built all the same after the timeout.
StartBuilding(r) ==
    LET stale == Key(r) \in softExpired
        missing == entry[Key(r)] = Empty
        locked == Key(r) \in lock IN
    /\ g_pc[r] = "lookup"
    /\ missing \/ (stale /\ ~locked)
    /\ lock' = lock \cup {Key(r)}
    /\ g_locked' = [g_locked EXCEPT ![r] = ~locked]
    /\ g_pc' = [g_pc EXCEPT ![r] = "building"]
    /\ UNCHANGED <<data, invalidated, tick, version, evictions, entry, softExpired,
                   g_version, g_value, writerVars, highest, receded>>

Factory(r) ==
    /\ g_pc[r] = "building"
    /\ g_value' = [g_value EXCEPT ![r] = data]
    /\ g_pc' = [g_pc EXCEPT ![r] = "built"]
    /\ UNCHANGED <<data, invalidated, tick, version, evictions, storeVars, g_version, g_locked,
                   writerVars, highest, receded>>

ReleaseLock(r) == lock' = IF g_locked[r] THEN lock \ {Key(r)} ELSE lock

\* The factory raises: the stale payload is served, or the error is.
FactoryFails(r) ==
    /\ g_pc[r] = "building"
    /\ ReleaseLock(r)
    /\ Served(r)
    /\ UNCHANGED <<entry, softExpired>>

\* Mutant: the payload is stored under the version of the moment.
StoreUnderCurrent(r) ==
    /\ g_pc[r] = "built" /\ version # Missing
    /\ entry' = [entry EXCEPT ![version] = g_value[r]]
    /\ softExpired' = softExpired \ {version}
    /\ ReleaseLock(r)
    /\ Served(r)

_swr_store(r) ==
    /\ g_pc[r] = "built"
    /\ entry' = [entry EXCEPT ![Key(r)] = g_value[r]]
    /\ softExpired' = softExpired \ {Key(r)}
    /\ ReleaseLock(r)
    /\ Served(r)

\* The lifetimes of a payload and of its lock.
SoftExpires(v) ==
    /\ entry[v] # Empty /\ v \notin softExpired
    /\ softExpired' = softExpired \cup {v}
    /\ UNCHANGED <<data, invalidated, tick, version, evictions, entry, lock, readerVars,
                   writerVars, highest, receded>>

HardExpires(v) ==
    /\ v \in softExpired
    /\ softExpired' = softExpired \ {v}
    /\ entry' = [entry EXCEPT ![v] = Empty]
    /\ UNCHANGED <<data, invalidated, tick, version, evictions, lock, readerVars, writerVars,
                   highest, receded>>

LockExpires(v) ==
    /\ v \in lock
    /\ lock' = lock \ {v}
    /\ UNCHANGED <<data, invalidated, tick, version, evictions, entry, softExpired, readerVars,
                   writerVars, highest, receded>>

EvictVersion ==
    /\ version # Missing /\ evictions < MaxEvictions
    /\ version' = Missing /\ evictions' = evictions + 1
    /\ Tick
    /\ UNCHANGED <<data, invalidated, storeVars, readerVars, writerVars, highest, receded>>

-----------------------------------------------------------------------------
CacheNext ==
    \/ \E w \in Writers : \/ CommitChange(w) \/ cache_delete_namespace(w)
                          \/ WriterSeeds(w) \/ WriterDies(w)
    \/ \E r \in Readers :
        \/ get_namespace_version(r) \/ ReaderSeeds(r) \/ ServeCached(r) \/ StartBuilding(r)
        \/ Factory(r) \/ FactoryFails(r) \/ _swr_store(r)
    \/ \E v \in Versions : SoftExpires(v) \/ HardExpires(v) \/ LockExpires(v)
    \/ EvictVersion

CacheSpec == CacheInit /\ [][CacheNext]_cacheVars

-----------------------------------------------------------------------------
CacheTypeOK ==
    /\ data \in 0..MaxData /\ invalidated \in 0..data /\ tick \in 1..MaxTicks
    /\ version \in 0..MaxTicks /\ evictions \in 0..MaxEvictions /\ highest \in 0..MaxTicks /\ receded \in BOOLEAN
    /\ entry \in [Versions -> 0..Empty] /\ softExpired \subseteq Versions /\ lock \subseteq Versions
    /\ g_pc \in [Readers -> {"idle", "seeding", "lookup", "building", "built"}]
    /\ g_version \in [Readers -> 0..MaxTicks] /\ g_value \in [Readers -> 0..MaxData]
    /\ g_locked \in [Readers -> BOOLEAN]
    /\ w_pc \in [Writers -> {"idle", "committed", "seeding"}] /\ w_seed \in [Writers -> 0..MaxTicks]

\* After an invalidation has been applied, the payload under the current
\* version shows at least the changes it covers: slow readers that took the
\* previous version, or read the database before the commit, cannot put an old
\* payload where new readers look. It needs what _seed_namespace_version counts
\* on, that no seed falls short of a version before it (cache.py,
\* cache_delete_namespace, _swr_store).
InvalidationHidesOldPayloads ==
    ~receded /\ version # Missing /\ entry[version] # Empty => entry[version] >= invalidated

\* What _seed_namespace_version says of a rebuilt key: its value is greater
\* than every version before it.
VersionsOnlyGrow ==
    [][version # Missing /\ version' # Missing => version' >= version]_cacheVars
=============================================================================
