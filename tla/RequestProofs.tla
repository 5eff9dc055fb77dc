--------------------------- MODULE RequestProofs ----------------------------
(* Proofs about what a request finds in the shared cache and leaves there:  *)
(* the verdict on its session (AuthSession), the public page (PublicCache)  *)
(* and its invalidation on commit (PendingInvalidations), the mark of a     *)
(* counted view (KindnessViews). They hold for any number of sessions,      *)
(* logins, requests, readers, writers, viewers, changes, savepoints,        *)
(* transactions, windows and evictions.                                     *)
EXTENDS AuthSession, PublicCache, PendingInvalidations, KindnessViews,
        TLAPS

-----------------------------------------------------------------------------
(* AuthSession: the inductive invariant.                                    *)

\* A request that has read a session remembers what the row said, and a row
\* once revoked stays revoked.
ReadersRemember ==
    \A q \in TokenRequests :
        /\ q_pc[q] # "idle" => q_session[q] \in Sessions
        /\ q_pc[q] = "read" =>
            /\ q_seen[q] \in {"live", "revoked"}
            /\ q_seen[q] = "revoked" => session[q_session[q]] = "revoked"

\* Password operations follow one another, and each has under its hands every
\* live session but the one it keeps and those logged in meanwhile.
OperationsReach ==
    \A o \in Operations : PasswordOperation(o) =>
        /\ password < MaxPasswords
        /\ \A p \in Operations : PasswordOperation(p) => p = o
        /\ \A s \in Sessions : session[s] = "live" =>
            s \in op_todo[o] \cup op_done[o] \cup {op_keep[o]} \cup straddling

SessionInv ==
    /\ SessionTypeOK /\ ReadersRemember /\ OperationsReach
    /\ RefusalsAreTrue /\ OldPasswordSessionsEnd

-----------------------------------------------------------------------------
LEMMA SessionInitially == SessionInit => SessionInv
<1> SUFFICES ASSUME SessionInit PROVE SessionInv
  BY Zenon
<1> USE PasswordBound DEF SessionInit
<1>1. SessionTypeOK
  BY DEF SessionTypeOK
<1>2. ReadersRemember /\ OperationsReach
  BY Zenon DEF ReadersRemember, OperationsReach, PasswordOperation
<1>3. RefusalsAreTrue /\ OldPasswordSessionsEnd
  BY Zenon DEF RefusalsAreTrue, OldPasswordSessionsEnd, LiveSessions
<1> QED
  BY Zenon, <1>1, <1>2, <1>3 DEF SessionInv

LEMMA SessionStep == SessionInv /\ [SessionNext]_sessionVars => SessionInv'
<1> SUFFICES ASSUME SessionInv, [SessionNext]_sessionVars PROVE SessionInv'
  BY Zenon
<1> USE PasswordBound, NoSessionIsNew
    DEF SessionInv, SessionTypeOK, ReadersRemember, OperationsReach, RefusalsAreTrue,
        OldPasswordSessionsEnd, LiveSessions, PasswordOperation, loginVars, tokenVars, opVars
<1>1. ASSUME NEW l \in Logins, login_with_password(l) PROVE SessionInv'
  BY Zenon, <1>1 DEF login_with_password
<1>2. ASSUME NEW l \in Logins, NEW s \in Sessions, _build_login_result(l, s) PROVE SessionInv'
  BY <1>2 DEF _build_login_result
<1>3. ASSUME NEW o \in Operations, NEW s \in Sessions, RevokeOne(o, s) PROVE SessionInv'
  BY <1>3 DEF RevokeOne, Start
<1>15. ASSUME NEW o \in Operations, revoke_all_user_sessions(o) PROVE SessionInv'
  BY <1>15 DEF revoke_all_user_sessions, Start
<1>4. ASSUME NEW o \in Operations, NEW s \in Sessions, revoke_auth_session(o, s)
      PROVE  SessionInv'
  BY <1>4 DEF revoke_auth_session, invalidate_session_validity_cache
<1>5. ASSUME NEW o \in Operations, NEW keep \in LiveSessions \cup {NoSession},
             change_password(o, keep)
      PROVE  SessionInv'
  BY <1>5 DEF change_password, OnlyPasswordOperation, Start
<1>6. ASSUME NEW o \in Operations, reset_password(o) PROVE SessionInv'
  BY <1>6 DEF reset_password, OnlyPasswordOperation, Start
<1>7. ASSUME NEW o \in Operations, CommitOperation(o) PROVE SessionInv'
  BY <1>7 DEF CommitOperation, Close
<1>8. ASSUME NEW o \in Operations, AbortOperation(o) PROVE SessionInv'
  BY <1>8 DEF AbortOperation, Close
<1>9. ASSUME NEW q \in TokenRequests, NEW s \in Sessions, ReadSession(q, s) PROVE SessionInv'
  BY <1>9 DEF ReadSession
<1>10. ASSUME NEW q \in TokenRequests, CacheVerdict(q) PROVE SessionInv'
  BY <1>10 DEF CacheVerdict, RequestDone
<1>11. ASSUME NEW q \in TokenRequests, NEW s \in Sessions, ReadForRefresh(q, s) PROVE SessionInv'
  BY <1>11 DEF ReadForRefresh
<1>12. ASSUME NEW q \in TokenRequests, RotateToken(q) PROVE SessionInv'
  BY <1>12 DEF RotateToken, RequestDone
<1>13. ASSUME NEW s \in Sessions, VerdictExpires(s) PROVE SessionInv'
  BY <1>13 DEF VerdictExpires
<1>14. CASE UNCHANGED sessionVars
  BY Zenon, <1>14 DEF sessionVars
<1> HIDE DEF SessionInv, LiveSessions
<1> QED
  BY Zenon, <1>1, <1>2, <1>3, <1>4, <1>5, <1>6, <1>7, <1>8, <1>9, <1>10, <1>11, <1>12, <1>13, <1>14,
     <1>15
  DEF SessionNext, logout_user, validate_and_touch_session

-----------------------------------------------------------------------------
\* The invariant holds throughout: readers remember rows as they were or as
\* they still are, and a password operation reaches every older session.
THEOREM SessionInvariance == SessionSpec => []SessionInv
BY SessionInitially, SessionStep, PTL DEF SessionSpec

\* Every column, cache entry and local variable keeps its type.
THEOREM SessionTypeCorrect == SessionSpec => []SessionTypeOK
BY SessionInvariance, PTL DEF SessionInv

\* A cached refusal is never wrong, whatever transactions are rolled back
\* (validate_and_touch_session, invalidate_session_validity_cache).
THEOREM RefusalsAlwaysTrue == SessionSpec => []RefusalsAreTrue
BY SessionInvariance, PTL DEF SessionInv

\* No session outlives the password it was opened with, but for the one the
\* change keeps and those whose login overlapped it (change_password,
\* reset_password_with_otp).
THEOREM OldPasswordSessionsAlwaysEnd == SessionSpec => []OldPasswordSessionsEnd
BY SessionInvariance, PTL DEF SessionInv

-----------------------------------------------------------------------------
(* Types. A version is never ahead of the clock it is seeded from.          *)

StoreTypes ==
    /\ data \in 0..MaxData /\ invalidated \in 0..data /\ tick \in 1..MaxTicks
    /\ evictions \in 0..MaxEvictions
    /\ entry \in [Versions -> 0..Empty] /\ softExpired \subseteq Versions /\ lock \subseteq Versions

VersionTypes ==
    /\ version \in 0..tick /\ highest \in 0..tick /\ receded \in BOOLEAN
    /\ w_pc \in [Writers -> {"idle", "committed", "seeding"}]
    /\ w_seed \in [Writers -> 0..tick]
    /\ \A w \in Writers : w_pc[w] = "seeding" => w_seed[w] \in 1..tick

ReaderTypes ==
    /\ g_pc \in [Readers -> {"idle", "seeding", "lookup", "building", "built"}]
    /\ g_version \in [Readers -> 0..tick] /\ g_value \in [Readers -> 0..MaxData]
    /\ g_locked \in [Readers -> BOOLEAN]
    /\ \A r \in Readers : g_pc[r] # "idle" => g_version[r] \in 1..tick

CacheTypes == StoreTypes /\ VersionTypes /\ ReaderTypes

LEMMA CacheTypesInitially == CacheInit => CacheTypes
<1> SUFFICES ASSUME CacheInit PROVE CacheTypes
  OBVIOUS
<1> USE CacheBounds DEF CacheInit, Missing, Empty
<1>1. StoreTypes
  BY DEF StoreTypes
<1>2. VersionTypes
  <2>1. 0 \in 0..tick
    OBVIOUS
  <2>2. w_seed \in [Writers -> 0..tick] /\ version \in 0..tick /\ highest \in 0..tick
    BY Zenon, <2>1
  <2> QED
    BY Zenon, <2>2 DEF VersionTypes
<1>3. ReaderTypes
  BY DEF ReaderTypes
<1> QED
  BY Zenon, <1>1, <1>2, <1>3 DEF CacheTypes

LEMMA BooleanColumn ==
    ASSUME NEW S, NEW f \in [S -> BOOLEAN], NEW x, NEW b \in BOOLEAN
    PROVE  [f EXCEPT ![x] = b] \in [S -> BOOLEAN]
BY Zenon

\* The answer of a request, and the clock going on, keep the types.
LEMMA ServedTypes ==
    ASSUME StoreTypes, ReaderTypes, NEW r \in Readers, Served(r) PROVE ReaderTypes'
<1>1. g_locked' \in [Readers -> BOOLEAN]
  BY Zenon, BooleanColumn DEF ReaderTypes, Served
<1>2. 0 \in 0..tick /\ 0 \in 0..MaxData
  BY CacheBounds DEF StoreTypes
<1>3. g_version' \in [Readers -> 0..tick] /\ g_value' \in [Readers -> 0..MaxData]
  BY Zenon, <1>2 DEF ReaderTypes, Served, Missing
<1>4. /\ g_pc' \in [Readers -> {"idle", "seeding", "lookup", "building", "built"}]
      /\ \A q \in Readers : g_pc'[q] # "idle" => g_version'[q] \in 1..tick
  BY Zenon DEF ReaderTypes, Served
<1>5. tick' = tick
  BY Zenon DEF Served
<1> QED
  BY Zenon, <1>1, <1>3, <1>4, <1>5 DEF ReaderTypes

LEMMA ClockTypes ==
    ASSUME StoreTypes, ReaderTypes, tick' >= tick, tick' \in 1..MaxTicks, UNCHANGED readerVars
    PROVE  ReaderTypes'
<1>1. \A n \in 0..tick : n \in 0..tick'
  BY CacheBounds DEF StoreTypes
<1>2. \A n \in 1..tick : n \in 1..tick'
  BY CacheBounds DEF StoreTypes
<1>3. g_version' \in [Readers -> 0..tick']
  BY Zenon, <1>1 DEF ReaderTypes, readerVars
<1> QED
  BY Zenon, <1>2, <1>3 DEF ReaderTypes, readerVars

LEMMA CacheTypesStep == CacheTypes /\ [CacheNext]_cacheVars => CacheTypes'
<1> SUFFICES ASSUME CacheTypes, [CacheNext]_cacheVars PROVE CacheTypes'
  OBVIOUS
<1> USE CacheBounds DEF CacheTypes, storeVars, readerVars, writerVars
<1>1. ASSUME UNCHANGED <<data, invalidated, tick, evictions, storeVars>> PROVE StoreTypes'
  BY Zenon, <1>1 DEF StoreTypes
<1>2. ASSUME UNCHANGED <<tick, version, highest, receded, writerVars>> PROVE VersionTypes'
  BY Zenon, <1>2 DEF VersionTypes
<1>3. ASSUME UNCHANGED <<tick, readerVars>> PROVE ReaderTypes'
  BY Zenon, <1>3 DEF ReaderTypes
<1>n. /\ tick \in Nat /\ data \in Nat /\ invalidated \in Nat /\ invalidated <= data
      /\ tick >= 1 /\ tick <= MaxTicks /\ data <= MaxData
  BY DEF StoreTypes
<1>c. ASSUME Tick PROVE tick' = tick + 1 /\ tick' \in 1..MaxTicks /\ tick' >= tick
  BY <1>c, <1>n DEF Tick
<1>s. ASSUME NEW seed \in 1..tick, _seed_namespace_version(seed), UNCHANGED tick
      PROVE  version' \in 0..tick /\ highest' \in 0..tick /\ receded' \in BOOLEAN
  <2>1. receded' \in BOOLEAN
    BY <1>s, Zenon DEF _seed_namespace_version
  <2> QED
    BY <1>s, <1>n, <2>1 DEF _seed_namespace_version, SetVersion, VersionTypes
<1>4. ASSUME NEW w \in Writers, CommitChange(w) PROVE CacheTypes'
  BY <1>3, <1>4, <1>n DEF CommitChange, StoreTypes, VersionTypes
<1>5. ASSUME NEW w \in Writers, cache_delete_namespace(w) PROVE CacheTypes'
  <2>1. tick' = tick + 1 /\ tick' \in 1..MaxTicks /\ tick' >= tick
    BY Zenon, <1>5, <1>c DEF cache_delete_namespace
  <2>2. StoreTypes'
    BY <1>5, <1>n, <2>1 DEF cache_delete_namespace, StoreTypes
  <2>3. ReaderTypes'
    BY Zenon, <1>5, <2>1, ClockTypes DEF cache_delete_namespace
  <2>4. VersionTypes'
    <3>1. (\A n \in 0..tick : n \in 0..tick') /\ (\A n \in 1..tick : n \in 1..tick') /\ tick \in 1..tick'
      BY <1>n, <2>1
    <3>2. w_seed \in [Writers -> 0..tick']
      BY Zenon, <3>1 DEF VersionTypes
    <3>3. CASE version = Missing
      <4>1. version' = version /\ highest' = highest /\ receded' = receded
        BY Zenon, <1>5, <3>3 DEF cache_delete_namespace
      <4>2. w_pc' = [w_pc EXCEPT ![w] = "seeding"] /\ w_seed' = [w_seed EXCEPT ![w] = tick]
        BY Zenon, <1>5, <3>3 DEF cache_delete_namespace
      <4>3. w_seed' \in [Writers -> 0..tick']
        BY <3>1, <3>2, <4>2, <1>n, <2>1
      <4>4. \A v \in Writers : w_pc'[v] = "seeding" => w_seed'[v] \in 1..tick'
        BY Zenon, <3>1, <4>2 DEF VersionTypes
      <4> QED
        BY Zenon, <3>1, <4>1, <4>2, <4>3, <4>4 DEF VersionTypes
    <3>4. CASE version # Missing
      <4>1. /\ version' = version + 1 /\ receded' = receded /\ w_seed' = w_seed
            /\ highest' = IF version + 1 > highest THEN version + 1 ELSE highest
            /\ w_pc' = [w_pc EXCEPT ![w] = "idle"]
        BY Zenon, <1>5, <3>4 DEF cache_delete_namespace, SetVersion
      <4>2. version' \in 0..tick' /\ highest' \in 0..tick'
        BY <1>n, <2>1, <4>1 DEF VersionTypes
      <4>3. \A v \in Writers : w_pc'[v] = "seeding" => w_seed'[v] \in 1..tick'
        BY Zenon, <3>1, <4>1 DEF VersionTypes
      <4> QED
        BY Zenon, <3>2, <4>1, <4>2, <4>3 DEF VersionTypes
    <3> QED
      BY Zenon, <3>3, <3>4
  <2> QED
    BY Zenon, <2>2, <2>3, <2>4
<1>6. ASSUME NEW w \in Writers, WriterSeeds(w) PROVE CacheTypes'
  <2>1. w_seed[w] \in 1..tick /\ UNCHANGED tick
    BY Zenon, <1>6 DEF WriterSeeds, VersionTypes
  <2>2. version' \in 0..tick /\ highest' \in 0..tick /\ receded' \in BOOLEAN
    BY Zenon, <1>6, <1>s, <2>1 DEF WriterSeeds
  <2>3. w_seed' \in [Writers -> 0..tick]
    BY <1>6, <1>n DEF WriterSeeds, VersionTypes, Missing
  <2>4. VersionTypes'
    BY Zenon, <1>6, <2>1, <2>2, <2>3 DEF WriterSeeds, VersionTypes
  <2>5. StoreTypes'
    BY <1>6, <1>n DEF WriterSeeds, StoreTypes
  <2> QED
    BY Zenon, <1>3, <1>6, <2>4, <2>5 DEF WriterSeeds
<1>7. ASSUME NEW w \in Writers, WriterDies(w) PROVE CacheTypes'
  <2>1. w_seed' \in [Writers -> 0..tick]
    BY <1>7, <1>n DEF WriterDies, VersionTypes, Missing
  <2>2. VersionTypes'
    BY Zenon, <1>7, <2>1 DEF WriterDies, VersionTypes
  <2> QED
    BY Zenon, <1>1, <1>3, <1>7, <2>2 DEF WriterDies
<1>8. ASSUME NEW r \in Readers, get_namespace_version(r) PROVE CacheTypes'
  <2>1. (IF version = Missing THEN tick ELSE version) \in 1..tick
    BY <1>n DEF VersionTypes, Missing
  <2>2. g_version' \in [Readers -> 0..tick] /\ g_version'[r] \in 1..tick
    BY <1>8, <1>n, <2>1 DEF get_namespace_version, ReaderTypes
  <2>3. ReaderTypes'
    BY Zenon, <1>8, <2>2 DEF get_namespace_version, ReaderTypes
  <2> QED
    BY Zenon, <1>1, <1>2, <1>8, <2>3 DEF get_namespace_version
<1>9. ASSUME NEW r \in Readers, ReaderSeeds(r) PROVE CacheTypes'
  <2>1. g_version[r] \in 1..tick
    BY Zenon, <1>9 DEF ReaderSeeds, ReaderTypes
  <2>2. version' \in 0..tick /\ highest' \in 0..tick /\ receded' \in BOOLEAN
    BY Zenon, <1>9, <1>s, <2>1 DEF ReaderSeeds
  <2>3. VersionTypes'
    BY Zenon, <1>9, <2>2 DEF ReaderSeeds, VersionTypes
  <2>4. ReaderTypes'
    BY Zenon, <1>9 DEF ReaderSeeds, ReaderTypes
  <2> QED
    BY Zenon, <1>1, <1>9, <2>3, <2>4 DEF ReaderSeeds
<1>10. ASSUME NEW r \in Readers, StartBuilding(r) PROVE CacheTypes'
  <2>1. Key(r) \in Versions
    BY <1>10, <1>n DEF StartBuilding, Key, ReaderTypes, Versions
  <2>2. g_locked' \in [Readers -> BOOLEAN]
    BY <1>10, BooleanColumn, Zenon DEF StartBuilding, ReaderTypes
  <2>3. StoreTypes'
    BY Zenon, <1>10, <2>1 DEF StartBuilding, StoreTypes
  <2>4. ReaderTypes'
    BY Zenon, <1>10, <2>2 DEF StartBuilding, ReaderTypes
  <2> QED
    BY Zenon, <1>2, <1>10, <2>3, <2>4 DEF StartBuilding
<1>11. ASSUME NEW r \in Readers, Factory(r) PROVE CacheTypes'
  <2>1. g_value' \in [Readers -> 0..MaxData]
    BY <1>11, <1>n DEF Factory, ReaderTypes
  <2>2. ReaderTypes'
    BY Zenon, <1>11, <2>1 DEF Factory, ReaderTypes
  <2> QED
    BY Zenon, <1>1, <1>2, <1>11, <2>2 DEF Factory
<1>12. ASSUME NEW r \in Readers, ServeCached(r) \/ FactoryFails(r) \/ _swr_store(r)
       PROVE  CacheTypes'
  <2>1. Served(r)
    BY Zenon, <1>12 DEF ServeCached, FactoryFails, _swr_store
  <2>2. ReaderTypes' /\ VersionTypes'
    BY Zenon, <1>2, <2>1, ServedTypes DEF Served
  <2>3. lock' \subseteq lock /\ softExpired' \subseteq softExpired
    BY Zenon, <1>12 DEF ServeCached, FactoryFails, _swr_store, ReleaseLock
  <2>4. entry' \in [Versions -> 0..Empty]
    <3>1. \A n \in 0..MaxData : n \in 0..Empty
      BY DEF Empty
    <3>2. g_value[r] \in 0..Empty
      BY Zenon, <3>1 DEF ReaderTypes
    <3> QED
      BY Zenon, <1>12, <3>2 DEF ServeCached, FactoryFails, _swr_store, StoreTypes
  <2>5. StoreTypes'
    BY Zenon, <2>1, <2>3, <2>4 DEF Served, StoreTypes
  <2> QED
    BY Zenon, <2>2, <2>5
<1>13. ASSUME NEW v \in Versions, SoftExpires(v) \/ HardExpires(v) \/ LockExpires(v)
       PROVE  CacheTypes'
  <2>1. Empty \in 0..Empty
    BY DEF Empty
  <2>2. entry' \in [Versions -> 0..Empty]
    BY Zenon, <1>13, <2>1 DEF SoftExpires, HardExpires, LockExpires, StoreTypes
  <2>3. StoreTypes'
    BY Zenon, <1>13, <2>2 DEF SoftExpires, HardExpires, LockExpires, StoreTypes
  <2> QED
    BY Zenon, <1>2, <1>3, <1>13, <2>3 DEF SoftExpires, HardExpires, LockExpires
<1>14. CASE EvictVersion
  <2>1. tick' = tick + 1 /\ tick' \in 1..MaxTicks /\ tick' >= tick
    BY Zenon, <1>14, <1>c DEF EvictVersion
  <2>2. (\A n \in 0..tick : n \in 0..tick') /\ (\A n \in 1..tick : n \in 1..tick') /\ 0 \in 0..tick'
    BY <1>n, <2>1
  <2>3. w_seed' \in [Writers -> 0..tick']
    BY Zenon, <1>14, <2>2 DEF EvictVersion, VersionTypes
  <2>4. VersionTypes'
    BY Zenon, <1>14, <2>2, <2>3 DEF EvictVersion, VersionTypes, Missing
  <2>5. StoreTypes'
    BY <1>14, <2>1 DEF EvictVersion, StoreTypes
  <2> QED
    BY Zenon, <1>14, <2>1, <2>4, <2>5, ClockTypes DEF EvictVersion
<1>15. CASE UNCHANGED cacheVars
  BY Zenon, <1>1, <1>2, <1>3, <1>15 DEF cacheVars
<1> QED
  BY Zenon, <1>4, <1>5, <1>6, <1>7, <1>8, <1>9, <1>10, <1>11, <1>12, <1>13, <1>14, <1>15
  DEF CacheNext

\* Every variable stays in its type, versions within the clock (cache.py).
THEOREM CacheTypeCorrect == CacheSpec => []CacheTypeOK
<1>1. CacheTypes => CacheTypeOK
  <2> SUFFICES ASSUME CacheTypes PROVE CacheTypeOK
    BY Zenon
  <2>1. tick \in 1..MaxTicks /\ \A n \in 0..tick : n \in 0..MaxTicks
    BY CacheBounds DEF CacheTypes, StoreTypes
  <2>2. g_version \in [Readers -> 0..MaxTicks] /\ w_seed \in [Writers -> 0..MaxTicks]
    BY Zenon, <2>1 DEF CacheTypes, ReaderTypes, VersionTypes
  <2> QED
    BY Zenon, <2>1, <2>2 DEF CacheTypes, StoreTypes, VersionTypes, ReaderTypes, CacheTypeOK
<1> QED
  BY <1>1, CacheTypesInitially, CacheTypesStep, PTL DEF CacheSpec

-----------------------------------------------------------------------------
(* Old payloads stay out of sight.                                          *)

\* While no seed has fallen short: the version in force is the greatest one so
\* far, no payload lies and no reader works under a greater one, and what lies
\* or is about to be stored under the greatest one shows every change whose
\* invalidation has been applied.
HighestIsFresh ==
    ~receded =>
        /\ version # Missing => version = highest
        /\ \A v \in Versions : entry[v] # Empty => v <= highest
        /\ \A r \in Readers : g_pc[r] \in {"lookup", "building", "built"} => g_version[r] <= highest
        /\ \A r \in Readers : g_pc[r] = "built" /\ g_version[r] = highest => g_value[r] >= invalidated
        /\ highest \in Versions /\ entry[highest] # Empty => entry[highest] >= invalidated

LEMMA FreshStep == CacheTypes /\ HighestIsFresh /\ [CacheNext]_cacheVars => HighestIsFresh'
<1> SUFFICES ASSUME CacheTypes, HighestIsFresh, [CacheNext]_cacheVars, ~receded'
             PROVE  HighestIsFresh'
  BY Zenon DEF HighestIsFresh
<1> USE CacheBounds DEF storeVars, readerVars, writerVars
<1>n. /\ version \in Nat /\ highest \in Nat /\ data \in Nat /\ invalidated \in Nat
      /\ invalidated <= data
      /\ \A v \in Versions : v \in Nat
      /\ \A r \in Readers : g_version[r] \in Nat /\ g_value[r] \in Nat
  BY DEF CacheTypes, StoreTypes, VersionTypes, ReaderTypes, Versions
<1>t. /\ g_pc \in [Readers -> {"idle", "seeding", "lookup", "building", "built"}]
      /\ g_version \in [Readers -> 0..tick] /\ g_value \in [Readers -> 0..MaxData]
      /\ entry \in [Versions -> 0..Empty]
  BY Zenon DEF CacheTypes, StoreTypes, ReaderTypes
<1>r. ~receded
  BY Zenon DEF CacheNext, CommitChange, cache_delete_namespace, WriterSeeds, WriterDies,
         get_namespace_version, ReaderSeeds, ServeCached, StartBuilding, Factory, FactoryFails,
         _swr_store, Served, SoftExpires, HardExpires, LockExpires, EvictVersion,
         _seed_namespace_version, cacheVars
<1>i. /\ version # Missing => version = highest
      /\ \A v \in Versions : entry[v] # Empty => v <= highest
      /\ \A r \in Readers : g_pc[r] \in {"lookup", "building", "built"} => g_version[r] <= highest
      /\ \A r \in Readers : g_pc[r] = "built" /\ g_version[r] = highest => g_value[r] >= invalidated
      /\ highest \in Versions /\ entry[highest] # Empty => entry[highest] >= invalidated
  BY Zenon, <1>r DEF HighestIsFresh
<1>1. ASSUME UNCHANGED <<version, highest, invalidated, entry, g_pc, g_version, g_value>>
      PROVE  HighestIsFresh'
  BY Zenon, <1>1, <1>i DEF HighestIsFresh
\* A new greatest version: nothing lies under it, nobody works under it.
<1>2. ASSUME highest' \in Nat, highest' > highest, version' = highest', entry' = entry,
             \A r \in Readers : \/ g_pc'[r] = g_pc[r] /\ g_version'[r] = g_version[r]
                                \/ g_pc'[r] = "lookup" /\ g_version'[r] = highest'
      PROVE  HighestIsFresh'
  <2>1. \A v \in Versions : entry'[v] # Empty => v <= highest' /\ v # highest'
    BY <1>2, <1>i, <1>n
  <2>2. \A r \in Readers : g_pc'[r] \in {"lookup", "building", "built"} => g_version'[r] <= highest'
    BY <1>2, <1>i, <1>n
  <2>3. \A r \in Readers : g_pc'[r] = "built" => g_version'[r] # highest'
    BY <1>2, <1>i, <1>n
  <2> QED
    BY Zenon, <1>2, <2>1, <2>2, <2>3 DEF HighestIsFresh
<1>3. ASSUME NEW seed \in Nat, _seed_namespace_version(seed)
      PROVE  highest' = seed /\ version' = seed /\ seed > highest
  <2>1. ~(seed <= highest)
    BY <1>3, Zenon DEF _seed_namespace_version
  <2> QED
    BY <1>3, <1>n, <2>1 DEF _seed_namespace_version, SetVersion
<1>4. ASSUME NEW w \in Writers, cache_delete_namespace(w) PROVE HighestIsFresh'
  <2>1. CASE version = Missing
    BY Zenon, <1>1, <1>4, <2>1 DEF cache_delete_namespace
  <2>2. CASE version # Missing
    <3>1. version = highest /\ version' = version + 1 /\ highest' = version + 1
      BY <1>4, <1>i, <1>n, <2>2 DEF cache_delete_namespace, SetVersion
    <3>2. entry' = entry /\ g_pc' = g_pc /\ g_version' = g_version
      BY Zenon, <1>4 DEF cache_delete_namespace
    <3>3. highest' \in Nat /\ highest' > highest /\ version' = highest'
      BY <1>n, <3>1
    <3> QED
      BY Zenon, <1>2, <3>2, <3>3
  <2> QED
    BY Zenon, <2>1, <2>2
<1>5. ASSUME NEW w \in Writers, WriterSeeds(w) PROVE HighestIsFresh'
  <2>1. w_seed[w] \in Nat
    BY <1>5 DEF WriterSeeds, CacheTypes, VersionTypes
  <2>2. highest' = w_seed[w] /\ version' = w_seed[w] /\ w_seed[w] > highest
    BY Zenon, <1>3, <1>5, <2>1 DEF WriterSeeds
  <2>3. entry' = entry /\ g_pc' = g_pc /\ g_version' = g_version
    BY Zenon, <1>5 DEF WriterSeeds
  <2> QED
    BY Zenon, <1>2, <2>1, <2>2, <2>3
<1>6. ASSUME NEW r \in Readers, ReaderSeeds(r) PROVE HighestIsFresh'
  <2>1. highest' = g_version[r] /\ version' = g_version[r] /\ g_version[r] > highest
    BY Zenon, <1>3, <1>6, <1>n DEF ReaderSeeds
  <2>2. \A q \in Readers : \/ g_pc'[q] = g_pc[q] /\ g_version'[q] = g_version[q]
                           \/ g_pc'[q] = "lookup" /\ g_version'[q] = highest'
    <3>1. g_version' = g_version /\ g_pc' = [g_pc EXCEPT ![r] = "lookup"]
      BY Zenon, <1>6 DEF ReaderSeeds
    <3> QED
      BY Zenon, <1>t, <2>1, <3>1
  <2> QED
    BY Zenon, <1>2, <1>6, <1>n, <2>1, <2>2 DEF ReaderSeeds
<1>7. ASSUME NEW w \in Writers, CommitChange(w) \/ WriterDies(w) PROVE HighestIsFresh'
  BY Zenon, <1>1, <1>7 DEF CommitChange, WriterDies
<1>8. ASSUME NEW r \in Readers, get_namespace_version(r) PROVE HighestIsFresh'
  <2>1. \A q \in Readers : q # r => g_pc'[q] = g_pc[q] /\ g_version'[q] = g_version[q]
    BY Zenon, <1>8, <1>t DEF get_namespace_version
  <2>2. g_pc'[r] = "seeding" \/ (g_pc'[r] = "lookup" /\ g_version'[r] = highest)
    BY Zenon, <1>8, <1>t, <1>i DEF get_namespace_version
  <2>3. \A q \in Readers : /\ g_pc'[q] \in {"lookup", "building", "built"} => g_version'[q] <= highest
                           /\ g_pc'[q] = "built" => g_pc[q] = "built" /\ g_version'[q] = g_version[q]
    BY <1>i, <1>n, <2>1, <2>2
  <2> QED
    <3>1. /\ version' = version /\ highest' = highest /\ invalidated' = invalidated
          /\ entry' = entry /\ g_value' = g_value
      BY Zenon, <1>8 DEF get_namespace_version
    <3> QED
      BY Zenon, <1>i, <2>3, <3>1 DEF HighestIsFresh
<1>9. ASSUME NEW r \in Readers, StartBuilding(r) PROVE HighestIsFresh'
  <2>1. \A q \in Readers : /\ g_pc'[q] \in {"lookup", "building", "built"} =>
                               g_pc[q] \in {"lookup", "building", "built"}
                           /\ g_pc'[q] = "built" => g_pc[q] = "built"
    BY Zenon, <1>9, <1>t DEF StartBuilding
  <2> QED
    BY Zenon, <1>9, <1>i, <2>1 DEF StartBuilding, HighestIsFresh
<1>10. ASSUME NEW r \in Readers, Factory(r) PROVE HighestIsFresh'
  <2>1. \A q \in Readers : /\ g_pc'[q] \in {"lookup", "building", "built"} =>
                               g_pc[q] \in {"lookup", "building", "built"}
                           /\ \/ g_pc'[q] = g_pc[q] /\ g_value'[q] = g_value[q]
                              \/ g_value'[q] = data
    BY Zenon, <1>10, <1>t DEF Factory
  <2> QED
    BY Zenon, <1>10, <1>i, <1>n, <2>1 DEF Factory, HighestIsFresh
<1>11. ASSUME NEW r \in Readers, Served(r),
              \/ entry' = entry
              \/ g_pc[r] = "built" /\ entry' = [entry EXCEPT ![g_version[r]] = g_value[r]]
       PROVE  HighestIsFresh'
  <2>1. \A q \in Readers : \/ g_pc'[q] = "idle"
                           \/ /\ g_pc'[q] = g_pc[q] /\ g_version'[q] = g_version[q]
                              /\ g_value'[q] = g_value[q]
    BY Zenon, <1>11, <1>t DEF Served
  <2>2. UNCHANGED <<version, highest, invalidated>>
    BY Zenon, <1>11 DEF Served
  <2>3. /\ \A v \in Versions : entry'[v] # Empty => v <= highest
        /\ highest \in Versions /\ entry'[highest] # Empty => entry'[highest] >= invalidated
    <3>1. CASE entry' = entry
      BY Zenon, <1>i, <3>1
    <3>2. CASE g_pc[r] = "built" /\ entry' = [entry EXCEPT ![g_version[r]] = g_value[r]]
      BY Zenon, <1>i, <1>t, <3>2
    <3> QED
      BY Zenon, <1>11, <3>1, <3>2
  <2> QED
    BY Zenon, <1>i, <2>1, <2>2, <2>3 DEF HighestIsFresh
<1>12. ASSUME NEW r \in Readers, ServeCached(r) \/ FactoryFails(r) \/ _swr_store(r)
       PROVE  HighestIsFresh'
  BY Zenon, <1>11, <1>12 DEF ServeCached, FactoryFails, _swr_store, Key
<1>13. ASSUME NEW v \in Versions, SoftExpires(v) \/ LockExpires(v) PROVE HighestIsFresh'
  BY Zenon, <1>1, <1>13 DEF SoftExpires, LockExpires
<1>14. ASSUME NEW v \in Versions, HardExpires(v) PROVE HighestIsFresh'
  <2>1. \A u \in Versions : entry'[u] = Empty \/ entry'[u] = entry[u]
    BY Zenon, <1>14, <1>t DEF HardExpires
  <2> QED
    BY Zenon, <1>14, <1>i, <2>1 DEF HardExpires, HighestIsFresh
<1>15. CASE EvictVersion
  BY Zenon, <1>15, <1>i DEF EvictVersion, HighestIsFresh
<1>16. CASE UNCHANGED cacheVars
  BY Zenon, <1>1, <1>16 DEF cacheVars
<1> QED
  BY Zenon, <1>4, <1>5, <1>6, <1>7, <1>8, <1>9, <1>10, <1>12, <1>13, <1>14, <1>15, <1>16
  DEF CacheNext

\* Once an invalidation has been applied, no payload older than the changes it
\* covers is under the version that readers take, as long as no seed has fallen
\* short (cache.py, cache_delete_namespace, _swr_store).
THEOREM OldPayloadsStayHidden == CacheSpec => []InvalidationHidesOldPayloads
<1>1. CacheInit => HighestIsFresh
  BY Zenon, CacheBounds DEF CacheInit, HighestIsFresh, Versions
<1>2. CacheTypes /\ HighestIsFresh => InvalidationHidesOldPayloads
  <2> SUFFICES ASSUME CacheTypes, HighestIsFresh, ~receded, version # Missing,
                      entry[version] # Empty
               PROVE  entry[version] >= invalidated
    BY Zenon DEF InvalidationHidesOldPayloads
  <2>1. version \in Versions
    BY CacheBounds DEF CacheTypes, StoreTypes, VersionTypes, Versions, Missing
  <2> QED
    BY Zenon, <2>1 DEF HighestIsFresh
<1> QED
  BY <1>1, <1>2, CacheTypesInitially, CacheTypesStep, FreshStep, PTL DEF CacheSpec

-----------------------------------------------------------------------------
ViewTypes ==
    /\ window \in 0..MaxWindow
    /\ marks \subseteq Marks
    /\ v_mark \in [Beacons -> Marks]
    /\ by_row \in [Marks -> Nat] /\ by_key \in [Marks -> Nat] /\ drops \in [Marks -> Nat]
    /\ v_pc \in [Beacons -> {"idle", "mark", "fallback", "bump", "remember"}]

\* The purge keeps the mark of every window a request may still be in.
Kept(k) == k[2] >= window - keep_windows

\* A request under way is in a window that is kept; one that the table did not
\* answer is known as such.
RequestsAreCurrent ==
    \A b \in Beacons : /\ v_pc[b] # "idle" => Kept(v_mark[b])
                       /\ v_pc[b] = "fallback" => v_mark[b] \in degraded

\* What was counted by its row has its row as long as its window is kept; what was
\* counted by its fast key has the key or lost it since, once for each count.
CountIsKept ==
    \A k \in Marks :
        /\ by_row[k] <= 1
        /\ by_row[k] = 1 /\ Kept(k) => k \in marks
        /\ k \notin degraded => by_key[k] = 0
        /\ by_key[k] <= IF k \in seen THEN drops[k] + 1 ELSE drops[k]

ViewInv == ViewTypes /\ RequestsAreCurrent /\ CountIsKept

LEMMA ViewInvInitially == ViewInit => ViewInv
<1> SUFFICES ASSUME ViewInit PROVE ViewInv
  OBVIOUS
<1>1. 0 \in 0..MaxWindow
  BY ViewAssumption
<1>2. v_mark \in [Beacons -> Marks]
  BY Zenon, <1>1 DEF ViewInit, Marks
<1>3. ViewTypes
  BY Zenon, <1>1, <1>2 DEF ViewInit, ViewTypes
<1>4. RequestsAreCurrent
  BY Zenon DEF ViewInit, RequestsAreCurrent
<1>5. CountIsKept
  BY DEF ViewInit, CountIsKept
<1> QED
  BY Zenon, <1>3, <1>4, <1>5 DEF ViewInv

LEMMA ViewInvStep == ViewInv /\ [ViewNext]_viewVars => ViewInv'
<1> SUFFICES ASSUME ViewInv, [ViewNext]_viewVars PROVE ViewInv'
  OBVIOUS
<1> USE ViewAssumption
<1>t. /\ window \in 0..MaxWindow /\ marks \subseteq Marks /\ v_mark \in [Beacons -> Marks]
      /\ by_row \in [Marks -> Nat] /\ by_key \in [Marks -> Nat] /\ drops \in [Marks -> Nat]
      /\ v_pc \in [Beacons -> {"idle", "mark", "fallback", "bump", "remember"}]
  BY Zenon DEF ViewInv, ViewTypes
<1>k. \A k \in Marks : k[2] \in 0..MaxWindow
  BY Zenon DEF Marks
\* A request moves on in its window; nothing is counted.
<1>1. ASSUME NEW b \in Beacons, v_pc[b] # "idle",
             NEW pc \in {"idle", "bump", "remember"}, v_pc' = [v_pc EXCEPT ![b] = pc],
             UNCHANGED <<window, marks, v_mark>>, UNCHANGED histories,
             seen \subseteq seen'
      PROVE  ViewInv'
  <2>1. ViewTypes'
    BY Zenon, <1>1, <1>t DEF ViewTypes, histories
  <2>2. RequestsAreCurrent'
    BY Zenon, <1>1, <1>t DEF ViewInv, RequestsAreCurrent, Kept, histories
  <2>3. CountIsKept'
    BY <1>1, <1>t DEF ViewInv, CountIsKept, Kept, histories
  <2> QED
    BY Zenon, <2>1, <2>2, <2>3 DEF ViewInv
<1>2. ASSUME NEW b \in Beacons, view_window_index(b) PROVE ViewInv'
  <2>1. v_mark[b][1] \in Viewers
    BY Zenon, <1>t DEF Marks
  <2>2. v_mark' \in [Beacons -> Marks] /\ v_mark'[b] = <<v_mark[b][1], window>>
    BY Zenon, <1>2, <1>t, <2>1 DEF view_window_index, Marks
  <2>u. UNCHANGED <<window, marks, seen>> /\ UNCHANGED histories
    BY Zenon, <1>2 DEF view_window_index
  <2>p. /\ v_pc' \in [Beacons -> {"idle", "mark", "fallback", "bump", "remember"}]
        /\ v_pc'[b] # "fallback"
        /\ \A c \in Beacons : c # b => v_pc'[c] = v_pc[c] /\ v_mark'[c] = v_mark[c]
    BY Zenon, <1>2, <1>t DEF view_window_index
  <2>3. ViewTypes'
    BY Zenon, <1>t, <2>2, <2>u, <2>p DEF ViewTypes, histories
  <2>4. ASSUME NEW c \in Beacons
        PROVE  /\ v_pc'[c] # "idle" => Kept(v_mark'[c])
               /\ v_pc'[c] = "fallback" => v_mark'[c] \in degraded
    <3>1. CASE c = b
      BY <1>t, <2>2, <2>p, <3>1 DEF Kept
    <3>2. CASE c # b
      BY Zenon, <2>p, <3>2 DEF ViewInv, RequestsAreCurrent
    <3> QED
      BY Zenon, <3>1, <3>2
  <2>5. RequestsAreCurrent'
    BY Zenon, <2>4, <2>u DEF RequestsAreCurrent, Kept, histories
  <2>6. CountIsKept'
    BY Zenon, <2>u DEF ViewInv, CountIsKept, Kept, histories
  <2> QED
    BY Zenon, <2>3, <2>5, <2>6 DEF ViewInv
\* The unique key: a view is counted with the row that is created for it.
<1>3. ASSUME NEW b \in Beacons, _try_mark_view(b) PROVE ViewInv'
  <2> DEFINE m == v_mark[b]
  <2>1. m \in Marks /\ Kept(m)
    BY Zenon, <1>3, <1>t DEF _try_mark_view, ViewInv, RequestsAreCurrent
  <2>2. by_row' = [by_row EXCEPT ![m] = IF m \in marks THEN @ ELSE @ + 1]
    BY Zenon, <1>3 DEF _try_mark_view
  <2>3. marks' = marks \cup {m} /\ UNCHANGED <<window, v_mark, seen, by_key, degraded, drops>>
    BY Zenon, <1>3 DEF _try_mark_view
  <2>4. /\ v_pc' \in [Beacons -> {"idle", "mark", "fallback", "bump", "remember"}]
        /\ \A c \in Beacons : /\ v_pc'[c] # "idle" => v_pc[c] # "idle"
                              /\ v_pc'[c] = "fallback" => v_pc[c] = "fallback"
    BY Zenon, <1>3, <1>t DEF _try_mark_view
  <2> HIDE DEF m
  <2>5. ViewTypes'
    BY <1>t, <2>1, <2>2, <2>3, <2>4 DEF ViewTypes
  <2>6. ASSUME NEW k \in Marks
        PROVE  by_row'[k] <= 1 /\ (by_row'[k] = 1 /\ Kept(k) => k \in marks')
    <3>1. by_row[k] <= 1 /\ (by_row[k] = 1 /\ Kept(k) => k \in marks)
      BY Zenon DEF ViewInv, CountIsKept
    <3>2. CASE k = m
      BY <1>t, <2>1, <2>2, <2>3, <3>1, <3>2
    <3>3. CASE k # m
      BY Zenon, <1>t, <2>1, <2>2, <2>3, <3>1, <3>3
    <3> QED
      BY Zenon, <3>2, <3>3
  <2>7. CountIsKept'
    BY Zenon, <2>3, <2>6 DEF ViewInv, CountIsKept, Kept
  <2>8. RequestsAreCurrent'
    BY Zenon, <2>3, <2>4 DEF ViewInv, RequestsAreCurrent, Kept
  <2> QED
    BY Zenon, <2>5, <2>7, <2>8 DEF ViewInv
\* The table does not answer: a row may be there, and nothing is counted.
<1>9. ASSUME NEW b \in Beacons, MarkUnanswered(b) PROVE ViewInv'
  <2>1. v_mark[b] \in Marks
    BY Zenon, <1>t
  <2>2. /\ marks \subseteq marks' /\ marks' \subseteq Marks
        /\ degraded' = degraded \cup {v_mark[b]}
        /\ UNCHANGED <<window, v_mark, seen, by_row, by_key, drops>>
    BY Zenon, <1>9, <1>t, <2>1 DEF MarkUnanswered
  <2>3. /\ v_pc[b] = "mark" /\ v_pc' = [v_pc EXCEPT ![b] = "fallback"]
    BY Zenon, <1>9 DEF MarkUnanswered
  <2>4. ViewTypes'
    BY Zenon, <1>t, <2>2, <2>3 DEF ViewTypes
  <2>5. RequestsAreCurrent'
    BY Zenon, <1>t, <2>2, <2>3 DEF ViewInv, RequestsAreCurrent, Kept
  <2>6. CountIsKept'
    BY Zenon, <2>2 DEF ViewInv, CountIsKept, Kept
  <2> QED
    BY Zenon, <2>4, <2>5, <2>6 DEF ViewInv
\* The cache key decides: a count by it needs the key to be away.
<1>4. ASSUME NEW b \in Beacons, MarkInCache(b) PROVE ViewInv'
  <2> DEFINE m == v_mark[b]
  <2>1. m \in Marks /\ m \in degraded /\ v_pc[b] = "fallback"
    BY Zenon, <1>4, <1>t DEF MarkInCache, ViewInv, RequestsAreCurrent
  <2>2. UNCHANGED <<window, marks, v_mark, by_row, degraded, drops>>
    BY Zenon, <1>4 DEF MarkInCache
  <2>3. CASE /\ m \notin seen /\ seen' = seen \cup {m}
             /\ by_key' = [by_key EXCEPT ![m] = @ + 1]
             /\ v_pc' = [v_pc EXCEPT ![b] = "bump"]
    <3> HIDE DEF m
    <3>1. ViewTypes'
      BY <1>t, <2>1, <2>2, <2>3 DEF ViewTypes
    <3>2. RequestsAreCurrent'
      BY Zenon, <1>t, <2>1, <2>2, <2>3 DEF ViewInv, RequestsAreCurrent, Kept
    <3>3. ASSUME NEW k \in Marks
          PROVE  /\ k \notin degraded => by_key'[k] = 0
                 /\ by_key'[k] <= IF k \in seen' THEN drops[k] + 1 ELSE drops[k]
      <4>1. /\ k \notin degraded => by_key[k] = 0
            /\ by_key[k] <= IF k \in seen THEN drops[k] + 1 ELSE drops[k]
        BY Zenon DEF ViewInv, CountIsKept
      <4>2. CASE k = m
        BY <1>t, <2>1, <2>3, <4>1, <4>2
      <4>3. CASE k # m
        BY Zenon, <1>t, <2>1, <2>3, <4>1, <4>3
      <4> QED
        BY Zenon, <4>2, <4>3
    <3>4. CountIsKept'
      BY Zenon, <2>2, <3>3 DEF ViewInv, CountIsKept, Kept
    <3> QED
      BY Zenon, <3>1, <3>2, <3>4 DEF ViewInv
  <2>4. CASE v_pc' = [v_pc EXCEPT ![b] = "remember"] /\ UNCHANGED <<seen, by_key>>
    BY Zenon, <1>1, <2>1, <2>2, <2>4 DEF histories
  <2> QED
    BY Zenon, <1>4, <2>3, <2>4 DEF MarkInCache
<1>5. ASSUME NEW b \in Beacons,
             bump_listing_view_count(b) \/ BumpFails(b) \/ RememberView(b) \/ BeaconDies(b)
      PROVE  ViewInv'
  BY Zenon, <1>1, <1>5 DEF bump_listing_view_count, BumpFails, RememberView, BeaconDies
<1>6. CASE purge_stale_listing_views
  <2>1. /\ \A k \in marks : Kept(k) => k \in marks'
        /\ marks' \subseteq Marks
        /\ UNCHANGED <<window, seen, v_pc, v_mark>> /\ UNCHANGED histories
    BY Zenon, <1>6, <1>t DEF purge_stale_listing_views, Kept
  <2>2. ViewTypes' /\ RequestsAreCurrent'
    BY Zenon, <1>t, <2>1 DEF ViewInv, ViewTypes, RequestsAreCurrent, Kept, histories
  <2>3. CountIsKept'
    BY Zenon, <2>1 DEF ViewInv, CountIsKept, Kept, histories
  <2> QED
    BY Zenon, <2>2, <2>3 DEF ViewInv
\* A dropped key pays for the next count.
<1>7. ASSUME NEW k \in Marks, KeyExpires(k) PROVE ViewInv'
  <2>1. /\ k \in seen /\ seen' = seen \ {k} /\ drops' = [drops EXCEPT ![k] = @ + 1]
        /\ UNCHANGED <<window, marks, v_pc, v_mark, by_row, by_key, degraded>>
    BY Zenon, <1>7 DEF KeyExpires
  <2>2. ViewTypes'
    BY <1>t, <2>1 DEF ViewTypes
  <2>3. RequestsAreCurrent'
    BY Zenon, <2>1 DEF ViewInv, RequestsAreCurrent, Kept
  <2>4. ASSUME NEW j \in Marks
        PROVE  by_key[j] <= IF j \in seen' THEN drops'[j] + 1 ELSE drops'[j]
    <3>1. by_key[j] <= IF j \in seen THEN drops[j] + 1 ELSE drops[j]
      BY Zenon DEF ViewInv, CountIsKept
    <3>2. CASE j = k
      BY <1>t, <2>1, <3>1, <3>2
    <3>3. CASE j # k
      BY Zenon, <1>t, <2>1, <3>1, <3>3
    <3> QED
      BY Zenon, <3>2, <3>3
  <2>5. CountIsKept'
    BY Zenon, <2>1, <2>4 DEF ViewInv, CountIsKept, Kept
  <2> QED
    BY Zenon, <2>2, <2>3, <2>5 DEF ViewInv
<1>8. CASE WindowPasses
  <2>1. window' = window + 1 /\ window' \in 0..MaxWindow
    BY <1>8, <1>t DEF WindowPasses
  <2>2. \A b \in Beacons : v_pc[b] # "idle" => v_mark[b][2] >= window' - keep_windows
    BY <1>8, <1>t, <1>k, <2>1 DEF WindowPasses
  <2>3. \A k \in Marks : k[2] >= window' - keep_windows => Kept(k)
    BY <1>t, <1>k, <2>1 DEF Kept
  <2>u. UNCHANGED <<marks, seen, v_pc, v_mark>> /\ UNCHANGED histories
    BY Zenon, <1>8 DEF WindowPasses
  <2>4. ViewTypes'
    BY Zenon, <1>t, <2>1, <2>u DEF ViewTypes, histories
  <2>5. RequestsAreCurrent'
    BY Zenon, <2>2, <2>u DEF ViewInv, RequestsAreCurrent, Kept, histories
  <2>6. CountIsKept'
    BY Zenon, <2>3, <2>u DEF ViewInv, CountIsKept, Kept, histories
  <2> QED
    BY Zenon, <2>4, <2>5, <2>6 DEF ViewInv
<1>10. CASE UNCHANGED viewVars
  BY Zenon, <1>10 DEF viewVars, ViewInv, ViewTypes, RequestsAreCurrent, CountIsKept, Kept
<1> QED
  BY Zenon, <1>2, <1>3, <1>4, <1>5, <1>6, <1>7, <1>8, <1>9, <1>10
     DEF ViewNext, register_listing_view

\* A viewer is counted at most once in a window for which the table answers, and
\* beyond that once for the failure and once for each loss of the fast key, for any
\* number of viewers, requests, failures and windows kept (services.py,
\* register_listing_view and purge_stale_listing_views).
THEOREM ViewsCountedOnce == ViewSpec => []CountedOncePerWindow
<1>1. ViewInv => CountedOncePerWindow
  <2> SUFFICES ASSUME ViewInv, NEW k \in Marks
               PROVE  by_row[k] + by_key[k] <= IF k \in degraded THEN 2 + drops[k] ELSE 1
    BY Zenon DEF CountedOncePerWindow
  <2>1. by_row[k] \in Nat /\ by_key[k] \in Nat /\ drops[k] \in Nat
    BY Zenon DEF ViewInv, ViewTypes
  <2>2. /\ by_row[k] <= 1
        /\ k \notin degraded => by_key[k] = 0
        /\ by_key[k] <= IF k \in seen THEN drops[k] + 1 ELSE drops[k]
    BY Zenon DEF ViewInv, CountIsKept
  <2> QED
    BY <2>1, <2>2
<1> QED
  BY <1>1, ViewInvInitially, ViewInvStep, PTL DEF ViewSpec

-----------------------------------------------------------------------------
(* PendingInvalidations. The inductive invariant.                           *)

\* The current queue is one of this transaction's, or none was used yet; the
\* queues of this transaction hold only what it asked for.
QueuesAreOwn ==
    /\ savepoints \subseteq 1..steps /\ steps \in 0..MaxSteps
    /\ thread_queue \in 0..steps /\ epoch \in Nat \ {0} /\ queue_epoch \in 0..epoch
    /\ queues \in [Ids -> SUBSET Domains]
    /\ thread_queue = 0 => queue_epoch = 0
    /\ \A q \in Ids : q > 0 => queues[q] \subseteq touched
    /\ \A q \in Ids : q > thread_queue => queues[q] = {}

\* While its list is in force, the current queue has a callback in it.
CurrentIsRegistered ==
    /\ Registered \subseteq 1..thread_queue
    /\ queue_epoch = epoch => thread_queue \in Registered

\* A callback that holds a write's domain is dropped only by rolling back a
\* savepoint that drops the write.
Covers(callback, w) ==
    /\ w.domain \in queues[callback.queue]
    /\ callback.sids \cap savepoints \subseteq w.sids

WritesAreCovered ==
    /\ \A callback \in run_on_commit : callback.sids \subseteq 1..steps
    /\ \A w \in writes : \E callback \in run_on_commit : Covers(callback, w)

QueueInv ==
    /\ QueuesAreOwn /\ CurrentIsRegistered /\ WritesAreCovered
    /\ \A w \in writes : w.domain \in touched
    /\ touched \subseteq Domains
    /\ InvalidatesItsOwnChanges

LEMMA QueueInitially == QueueInit => QueueInv
<1> SUFFICES ASSUME QueueInit PROVE QueueInv
  BY Zenon
<1>1. savepoints = {} /\ Registered = {}
  BY Zenon DEF QueueInit, Registered
<1>2. QueuesAreOwn
  BY <1>1, TransactionBounds DEF QueueInit, QueuesAreOwn, Ids
<1> QED
  BY <1>1, <1>2, TransactionBounds
  DEF QueueInit, QueueInv, CurrentIsRegistered, WritesAreCovered, InvalidatesItsOwnChanges

LEMMA InvalidateStep ==
    ASSUME QueueInv, NEW d \in Domains, invalidate_public_domain(d)
    PROVE  QueueInv'
<1> DEFINE q == _pending_queue
           mine == [sids |-> savepoints, queue |-> q]
           write == [sids |-> savepoints, domain |-> d]
<1>1. /\ q \in 1..steps' /\ q \in Ids /\ q >= thread_queue /\ steps' = steps + 1
      /\ steps' \in 1..MaxSteps
  BY TransactionBounds
  DEF QueueInv, QueuesAreOwn, invalidate_public_domain, Step, _pending_queue, Ids
<1>2. /\ touched' = touched \cup {d} /\ writes' = writes \cup {write}
      /\ thread_queue' = q /\ queue_epoch' = epoch /\ UNCHANGED <<savepoints, epoch, last>>
      /\ queues' = [queues EXCEPT ![q] = @ \cup {d}]
      /\ run_on_commit' = IF d \in queues[q] THEN run_on_commit ELSE run_on_commit \cup {mine}
  BY Zenon DEF invalidate_public_domain
<1>3. savepoints' = savepoints
  BY Zenon, <1>2
\* The callback that will flush the domain.
<1>4. PICK c \in run_on_commit' : c.queue = q /\ (c \in run_on_commit \/ c = mine)
  <2>1. CASE d \in queues[q]
    <3>1. queue_epoch = epoch /\ q = thread_queue
      BY <2>1, <1>1 DEF QueueInv, QueuesAreOwn, _pending_queue
    <3> QED
      BY Zenon, <1>2, <2>1, <3>1 DEF QueueInv, CurrentIsRegistered, Registered
  <2>2. CASE d \notin queues[q]
    BY Zenon, <1>2, <2>2
  <2> QED
    BY Zenon, <2>1, <2>2
<1> HIDE DEF q
<1>5. QueuesAreOwn'
  <2>1. queues' \in [Ids -> SUBSET Domains]
    BY Zenon, <1>1, <1>2 DEF QueueInv, QueuesAreOwn
  <2>2. \A p \in Ids : p > 0 => queues'[p] \subseteq touched'
    BY Zenon, <1>1, <1>2 DEF QueueInv, QueuesAreOwn
  <2>3. \A p \in Ids : p > thread_queue' => queues'[p] = {}
    BY <1>1, <1>2 DEF QueueInv, QueuesAreOwn, Ids
  <2> QED
    BY <1>1, <1>2, <1>3, <2>1, <2>2, <2>3 DEF QueueInv, QueuesAreOwn
<1>6. CurrentIsRegistered'
  <2>1. Registered' \subseteq Registered \cup {q}
    BY <1>2 DEF Registered
  <2>2. Registered \subseteq 1..thread_queue
    BY Zenon DEF QueueInv, CurrentIsRegistered
  <2>3. q \in Registered'
    BY Zenon, <1>4 DEF Registered
  <2>4. thread_queue \in Nat
    BY DEF QueueInv, QueuesAreOwn
  <2> QED
    BY <1>1, <1>2, <2>1, <2>2, <2>3, <2>4 DEF CurrentIsRegistered
<1>7. WritesAreCovered'
  <2>1. \A b \in run_on_commit' : b.sids \subseteq 1..steps'
    <3>1. savepoints \subseteq 1..steps' /\ 1..steps \subseteq 1..steps'
      BY <1>1 DEF QueueInv, QueuesAreOwn
    <3> QED
      BY <1>2, <3>1 DEF QueueInv, WritesAreCovered
  <2>2. \A b \in run_on_commit : b.queue \in Ids /\ b \in run_on_commit'
    <3>1. 1..thread_queue \subseteq Ids
      BY TransactionBounds DEF QueueInv, QueuesAreOwn, Ids
    <3> QED
      BY Zenon, <1>2, <3>1 DEF QueueInv, CurrentIsRegistered, Registered
  <2>3. \A p \in Ids : queues[p] \subseteq queues'[p]
    BY Zenon, <1>1, <1>2 DEF QueueInv, QueuesAreOwn
  <2>4. ASSUME NEW w \in writes
        PROVE  \E b \in run_on_commit' : Covers(b, w)'
    BY Zenon, <1>3, <2>2, <2>3 DEF QueueInv, WritesAreCovered, Covers
  <2>5. ASSUME NEW w, w = write
        PROVE  Covers(c, w)'
    <3>1. d \in queues'[q]
      BY Zenon, <1>1, <1>2 DEF QueueInv, QueuesAreOwn
    <3> QED
      BY Zenon, <1>3, <1>4, <2>5, <3>1 DEF Covers
  <2> QED
    <3> SUFFICES ASSUME NEW w \in writes'
                 PROVE  \E b \in run_on_commit' : Covers(b, w)'
      BY Zenon, <2>1 DEF WritesAreCovered
    <3>1. CASE w \in writes
      BY Zenon, <2>4, <3>1
    <3>2. CASE w = write
      BY Zenon, <2>5, <3>2
    <3> QED
      BY Zenon, <1>2, <3>1, <3>2
<1>8. /\ \A w \in writes' : w.domain \in touched'
      /\ touched' \subseteq Domains
      /\ InvalidatesItsOwnChanges'
  BY <1>2 DEF QueueInv, InvalidatesItsOwnChanges
<1> QED
  BY Zenon, <1>5, <1>6, <1>7, <1>8 DEF QueueInv

LEMMA SavepointStep ==
    ASSUME QueueInv, Savepoint \/ ReleaseSavepoint
    PROVE  QueueInv'
<1>1. UNCHANGED <<run_on_commit, epoch, queues, queue_epoch, thread_queue, writes, touched, last>>
  BY Zenon DEF Savepoint, ReleaseSavepoint
<1>2. /\ steps' \in 0..MaxSteps /\ steps' >= steps /\ steps \in Nat
      /\ savepoints' \subseteq savepoints \cup ((steps + 1)..steps')
  BY TransactionBounds DEF Savepoint, ReleaseSavepoint, Step, QueueInv, QueuesAreOwn
<1>3. QueuesAreOwn'
  <2>1. savepoints' \subseteq 1..steps'
    BY <1>2 DEF QueueInv, QueuesAreOwn
  <2> QED
    BY <1>1, <1>2, <2>1 DEF QueueInv, QueuesAreOwn
<1>4. CurrentIsRegistered'
  BY Zenon, <1>1 DEF QueueInv, CurrentIsRegistered, Registered
<1>5. WritesAreCovered'
  <2>1. \A c \in run_on_commit : c.sids \subseteq 1..steps
    BY Zenon DEF QueueInv, WritesAreCovered
  <2>2. \A c \in run_on_commit :
          c.sids \cap savepoints' \subseteq c.sids \cap savepoints /\ c.sids \subseteq 1..steps'
    BY <1>2, <2>1
  <2> QED
    BY Zenon, <1>1, <2>2 DEF QueueInv, WritesAreCovered, Covers
<1> QED
  BY Zenon, <1>1, <1>2, <1>3, <1>4, <1>5 DEF QueueInv, InvalidatesItsOwnChanges

LEMMA RollbackSavepointStep ==
    ASSUME QueueInv, RollbackSavepoint
    PROVE  QueueInv'
<1>1. PICK sid \in savepoints :
        /\ savepoints' = savepoints \ {sid}
        /\ run_on_commit' = {c \in run_on_commit : sid \notin c.sids}
        /\ writes' = {w \in writes : sid \notin w.sids}
  BY Zenon DEF RollbackSavepoint
<1>2. epoch' = epoch + 1 /\ UNCHANGED <<queues, queue_epoch, thread_queue, touched, last>>
  BY Zenon DEF RollbackSavepoint
<1>3. steps' = steps + 1 /\ steps \in Nat /\ steps' \in 0..MaxSteps
  BY TransactionBounds DEF RollbackSavepoint, Step, QueueInv, QueuesAreOwn
<1>4. QueuesAreOwn'
  BY <1>1, <1>2, <1>3 DEF QueueInv, QueuesAreOwn
<1>5. CurrentIsRegistered'
  <2>1. queue_epoch' # epoch'
    BY <1>2 DEF QueueInv, QueuesAreOwn
  <2> QED
    BY Zenon, <1>1, <1>2, <2>1 DEF QueueInv, CurrentIsRegistered, Registered
<1>6. WritesAreCovered'
  <2>1. \A c \in run_on_commit' : c.sids \subseteq 1..steps'
    <3>1. 1..steps \subseteq 1..steps'
      BY <1>3
    <3> QED
      BY Zenon, <1>1, <3>1 DEF QueueInv, WritesAreCovered
  <2>2. ASSUME NEW w \in writes'
        PROVE  \E c \in run_on_commit' : Covers(c, w)'
    <3>1. PICK c \in run_on_commit : Covers(c, w)
      BY Zenon, <1>1 DEF QueueInv, WritesAreCovered
    <3>2. c \in run_on_commit' /\ Covers(c, w)'
      BY Zenon, <1>1, <1>2, <3>1 DEF Covers
    <3> QED
      BY Zenon, <3>2
  <2> QED
    BY Zenon, <2>1, <2>2 DEF WritesAreCovered
<1> QED
  BY Zenon, <1>1, <1>2, <1>4, <1>5, <1>6 DEF QueueInv, InvalidatesItsOwnChanges

\* The next transaction starts with nothing of its own.
LEMMA NextTransactionStep ==
    ASSUME NEW remains \in SUBSET Domains, NextTransaction(remains), InvalidatesItsOwnChanges'
    PROVE  QueueInv'
<1>1. /\ savepoints' = {} /\ run_on_commit' = {} /\ writes' = {} /\ touched' = {}
      /\ epoch' = 1 /\ queue_epoch' = 0 /\ thread_queue' = 0 /\ steps' = 0
      /\ queues' = [q \in Ids |-> IF q = 0 THEN remains ELSE {}]
  BY Zenon DEF NextTransaction
<1>2. savepoints' = {} /\ Registered' = {}
  BY Zenon, <1>1 DEF Registered
<1>3. QueuesAreOwn'
  BY <1>1, <1>2, TransactionBounds DEF QueuesAreOwn, Ids
<1> QED
  BY <1>1, <1>2, <1>3, TransactionBounds
  DEF QueueInv, CurrentIsRegistered, WritesAreCovered

LEMMA TransactionEnds ==
    ASSUME QueueInv, Commit \/ Rollback
    PROVE  QueueInv'
<1>1. queues[thread_queue] \subseteq Domains
  BY TransactionBounds DEF QueueInv, QueuesAreOwn, Ids
<1>2. CASE Commit
  <2>1. {w.domain : w \in writes} \subseteq _flush_pending_invalidations
    BY DEF QueueInv, WritesAreCovered, Covers, _flush_pending_invalidations, Registered
  <2>2. _flush_pending_invalidations \subseteq touched
    <3>1. \A q \in Registered : q \in Ids /\ q > 0
      BY TransactionBounds DEF QueueInv, QueuesAreOwn, CurrentIsRegistered, Ids
    <3> QED
      BY Zenon, <3>1 DEF QueueInv, QueuesAreOwn, _flush_pending_invalidations
  <2>3. InvalidatesItsOwnChanges'
    BY Zenon, <1>2, <2>1, <2>2 DEF Commit, InvalidatesItsOwnChanges
  <2>4. \E remains \in SUBSET Domains : NextTransaction(remains)
    BY Zenon, <1>1, <1>2 DEF Commit
  <2> QED
    BY Zenon, <2>3, <2>4, NextTransactionStep
<1>3. CASE Rollback
  <2>1. InvalidatesItsOwnChanges'
    BY Zenon, <1>3 DEF Rollback, InvalidatesItsOwnChanges
  <2> QED
    BY Zenon, <1>1, <1>3, <2>1, NextTransactionStep DEF Rollback
<1> QED
  BY Zenon, <1>2, <1>3

LEMMA QueueStep == QueueInv /\ [QueueNext]_queueVars => QueueInv'
<1> SUFFICES ASSUME QueueInv, [QueueNext]_queueVars PROVE QueueInv'
  BY Zenon
<1>1. CASE UNCHANGED queueVars
  BY Zenon, <1>1
  DEF queueVars, QueueInv, QueuesAreOwn, CurrentIsRegistered, WritesAreCovered, Covers,
              Registered, InvalidatesItsOwnChanges
<1> QED
  BY Zenon, <1>1, InvalidateStep, SavepointStep, RollbackSavepointStep, TransactionEnds
  DEF QueueNext

\* The invariant holds throughout: every surviving write of a transaction has a
\* registered callback that will flush its domain, through any savepoints.
THEOREM QueueInvariance == QueueSpec => []QueueInv
BY QueueInitially, QueueStep, PTL DEF QueueSpec

\* The queue, the callbacks and the savepoints keep their types.
THEOREM QueueTypeCorrect == QueueSpec => []QueueTypeOK
<1>1. QueueInv => QueueTypeOK
  BY TransactionBounds DEF QueueInv, QueuesAreOwn, CurrentIsRegistered, QueueTypeOK, Ids
<1> QED
  BY <1>1, QueueInvariance, PTL

\* A committed transaction invalidates every domain a surviving write changed,
\* and nothing an earlier transaction asked for and rolled back
\* (_pending_queue, _flush_pending_invalidations).
THEOREM AlwaysInvalidatesItsOwn == QueueSpec => []InvalidatesItsOwnChanges
<1>1. QueueInv => InvalidatesItsOwnChanges
  BY Zenon DEF QueueInv
<1> QED
  BY <1>1, QueueInvariance, PTL
=============================================================================
