---------------------------- MODULE KindnessViews ----------------------------
(* The view counter of a listing of apps/kindness_wall: each viewer counts  *)
(* once per window, by a row with a unique key and a fast key in the cache. *)
(* When the table does not answer (an error, or before its migration) the   *)
(* cache key alone decides.                                                 *)
EXTENDS Integers, FiniteSets

CONSTANTS
    Viewers, Beacons,   \* viewers, and the requests of their browsers
    keep_windows,
    MaxWindow,          \* bound: windows that pass
    MaxDegraded,        \* bound: marks for which the table does not answer
    MaxDrops            \* bound: times the cache drops one key

ASSUME ViewAssumption ==
    /\ keep_windows \in Nat \ {0} /\ MaxWindow \in Nat
    /\ MaxDegraded \in Nat /\ MaxDrops \in Nat

Marks == Viewers \X (0..MaxWindow)

VARIABLES
    window,             \* the current window
    marks, seen,        \* KindnessListingView; the fast keys in the cache
    view_count,
    v_pc, v_mark,       \* a beacon's step, and its viewer and window
    by_row, by_key,     \* history: times a mark was counted, by its row or its fast key
    degraded,           \* history: the marks for which the table did not answer
    drops               \* history: times the cache dropped a mark's fast key

viewVars == <<window, marks, seen, view_count, v_pc, v_mark, by_row, by_key,
              degraded, drops>>
histories == <<by_row, by_key, degraded, drops>>

ViewInit ==
    /\ window = 0
    /\ marks = {} /\ seen = {} /\ view_count = 0 /\ degraded = {}
    /\ v_pc = [b \in Beacons |-> "idle"] /\ v_mark \in [Beacons -> Viewers \X {0}]
    /\ by_row = [k \in Marks |-> 0] /\ by_key = [k \in Marks |-> 0]
    /\ drops = [k \in Marks |-> 0]

-----------------------------------------------------------------------------
\* The window is read once. A key in the cache ends the request, unless the cache
\* fails to answer.
view_window_index(b) ==
    /\ v_pc[b] = "idle"
    /\ v_mark' = [v_mark EXCEPT ![b] = <<@[1], window>>]
    /\ \/ v_mark'[b] \in seen /\ UNCHANGED v_pc
       \/ v_pc' = [v_pc EXCEPT ![b] = "mark"]
    /\ UNCHANGED <<window, marks, seen, view_count, histories>>

\* Mutant: the row is looked for and then created without the unique key.
MarkAnyway(b) ==
    /\ v_pc[b] = "mark"
    /\ marks' = marks \cup {v_mark[b]}
    /\ v_pc' = [v_pc EXCEPT ![b] = "bump"]
    /\ by_row' = [by_row EXCEPT ![v_mark[b]] = @ + 1]
    /\ UNCHANGED <<window, seen, view_count, v_mark, by_key, degraded, drops>>

\* get_or_create, in a transaction of its own; the unique key decides a race.
_try_mark_view(b) ==
    /\ v_pc[b] = "mark"
    /\ marks' = marks \cup {v_mark[b]}
    /\ v_pc' = [v_pc EXCEPT ![b] = IF v_mark[b] \in marks THEN "remember" ELSE "bump"]
    /\ by_row' = [by_row EXCEPT ![v_mark[b]] = IF v_mark[b] \in marks THEN @ ELSE @ + 1]
    /\ UNCHANGED <<window, seen, view_count, v_mark, by_key, degraded, drops>>

\* Any other error makes it None: there is no table, or the connection broke, perhaps
\* after the row was committed.
MarkUnanswered(b) ==
    /\ v_pc[b] = "mark"
    /\ marks' \in {marks, marks \cup {v_mark[b]}}
    /\ v_pc' = [v_pc EXCEPT ![b] = "fallback"]
    /\ degraded' = degraded \cup {v_mark[b]} /\ Cardinality(degraded') <= MaxDegraded
    /\ UNCHANGED <<window, seen, view_count, v_mark, by_row, by_key, drops>>

\* cache.add decides. If it fails too, the view is not counted.
MarkInCache(b) ==
    /\ v_pc[b] = "fallback"
    /\ \/ /\ v_mark[b] \notin seen /\ seen' = seen \cup {v_mark[b]}
          /\ by_key' = [by_key EXCEPT ![v_mark[b]] = @ + 1]
          /\ v_pc' = [v_pc EXCEPT ![b] = "bump"]
       \/ /\ v_pc' = [v_pc EXCEPT ![b] = "remember"]
          /\ UNCHANGED <<seen, by_key>>
    /\ UNCHANGED <<window, marks, view_count, v_mark, by_row, degraded, drops>>

bump_listing_view_count(b) ==
    /\ v_pc[b] = "bump" /\ view_count' = view_count + 1
    /\ v_pc' = [v_pc EXCEPT ![b] = "remember"]
    /\ UNCHANGED <<window, marks, seen, v_mark, histories>>

\* A failed update is logged, and the view is not counted.
BumpFails(b) ==
    /\ v_pc[b] = "bump"
    /\ v_pc' = [v_pc EXCEPT ![b] = "remember"]
    /\ UNCHANGED <<window, marks, seen, view_count, v_mark, histories>>

\* The fast key, unless the cache fails, and the answer.
RememberView(b) ==
    /\ v_pc[b] = "remember" /\ seen' \in {seen, seen \cup {v_mark[b]}}
    /\ v_pc' = [v_pc EXCEPT ![b] = "idle"]
    /\ UNCHANGED <<window, marks, view_count, v_mark, histories>>

\* The process dies.
BeaconDies(b) ==
    /\ v_pc[b] # "idle" /\ v_pc' = [v_pc EXCEPT ![b] = "idle"]
    /\ UNCHANGED <<window, marks, seen, view_count, v_mark, histories>>

register_listing_view(b) ==
    \/ view_window_index(b) \/ _try_mark_view(b) \/ MarkUnanswered(b) \/ MarkInCache(b)
    \/ bump_listing_view_count(b) \/ BumpFails(b) \/ RememberView(b) \/ BeaconDies(b)

purge_stale_listing_views ==
    /\ marks' = {k \in marks : k[2] >= window - keep_windows} /\ marks' # marks
    /\ UNCHANGED <<window, seen, view_count, v_pc, v_mark, histories>>

\* The cache drops a key: its time is over or the memory is needed.
KeyExpires(k) ==
    /\ k \in seen /\ drops[k] < MaxDrops
    /\ seen' = seen \ {k} /\ drops' = [drops EXCEPT ![k] = @ + 1]
    /\ UNCHANGED <<window, marks, view_count, v_pc, v_mark, by_row, by_key, degraded>>

\* No request outlives the windows that the purge keeps.
WindowPasses ==
    /\ window < MaxWindow /\ window' = window + 1
    /\ \A b \in Beacons : v_pc[b] # "idle" => window' - v_mark[b][2] <= keep_windows
    /\ UNCHANGED <<marks, seen, view_count, v_pc, v_mark, histories>>

ViewNext ==
    \/ \E b \in Beacons : register_listing_view(b)
    \/ \E k \in Marks : KeyExpires(k)
    \/ purge_stale_listing_views \/ WindowPasses

ViewSpec == ViewInit /\ [][ViewNext]_viewVars

-----------------------------------------------------------------------------
\* Each viewer is counted at most once per window, across concurrent beacons, lost
\* cache keys, crashes and the purge (register_listing_view: "in each window only
\* one count"). Where the table failed to answer for the viewer there may be one more
\* count, and another one for each time the cache lost the fast key.
CountedOncePerWindow ==
    \A k \in Marks :
        by_row[k] + by_key[k] <= IF k \in degraded THEN 2 + drops[k] ELSE 1
=============================================================================
