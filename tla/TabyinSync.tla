----------------------------- MODULE TabyinSync -----------------------------
(* The content wall of apps/tabyin as the sync engine keeps it: rows        *)
(* mirrored from an external source by full and incremental runs, which may *)
(* overlap, beside the rows users submitted. The source shows one item per  *)
(* page, newest first, and changes while it is read.                        *)
EXTENDS Naturals, Sequences, FiniteSets, Functions

CONSTANTS
    Items,                  \* contents of the source
    Submissions,            \* rows users submitted
    FullRuns, IncrementalRuns,
    MAX_UNCHANGED_PAGES,
    MaxChanges,             \* bound: changes of the source
    MaxErrors               \* bound: pages that fail to load

ASSUME TabyinAssumption ==
    /\ MAX_UNCHANGED_PAGES \in Nat \ {0} /\ MaxChanges \in Nat /\ MaxErrors \in Nat
    /\ Cardinality(Items) \in Nat /\ Items \cap Submissions = {} /\ FullRuns \cap IncrementalRuns = {}

Rows == Items \cup Submissions
Runs == FullRuns \cup IncrementalRuns
Absent == MaxChanges + 1        \* no such row; no such item on the page
NoItem == [item |-> Absent, hash |-> Absent]

VARIABLES
    source, hash,           \* the source's list, and each item's content
    content_hash,           \* of each mirrored row
    is_deleted_in_source,   \* set and cleared together with is_active here
    y_pc, y_page, y_total, y_ids, y_item, y_known, y_unchanged,
    y_clean,                \* nothing has disturbed the run so far
    changes, errors

sourceVars == <<source, hash, changes>>
mirrorVars == <<content_hash, is_deleted_in_source>>
runVars == <<y_pc, y_page, y_total, y_ids, y_item, y_known, y_unchanged>>
tabyinVars == <<sourceVars, mirrorVars, runVars, y_clean, errors>>

TabyinInit ==
    /\ source \in [1..Cardinality(Items) -> Items] /\ IsInjective(source)
    /\ hash = [i \in Items |-> 0]
    /\ content_hash = [i \in Items |-> Absent]
    /\ is_deleted_in_source = [r \in Rows |-> FALSE]
    /\ y_pc = [y \in Runs |-> "idle"] /\ y_page = [y \in Runs |-> 0]
    /\ y_total = [y \in Runs |-> 0] /\ y_ids = [y \in Runs |-> {}]
    /\ y_item = [y \in Runs |-> NoItem] /\ y_known = [y \in Runs |-> Absent]
    /\ y_unchanged = [y \in Runs |-> 0] /\ y_clean = [y \in Runs |-> FALSE]
    /\ changes = 0 /\ errors = 0

-----------------------------------------------------------------------------
(* The source (external).                                                   *)

SourceChanges(list, content) ==
    /\ changes < MaxChanges /\ changes' = changes + 1
    /\ source' = list /\ hash' = content
    /\ y_clean' = [y \in Runs |-> FALSE]
    /\ UNCHANGED <<mirrorVars, runVars, errors>>

SourceEdits(i) == i \in Range(source) /\ SourceChanges(source, [hash EXCEPT ![i] = changes + 1])
SourceRemoves(k) ==
    SourceChanges(SubSeq(source, 1, k - 1) \o SubSeq(source, k + 1, Len(source)), hash)
SourceAdds(i) == i \notin Range(source) /\ SourceChanges(<<i>> \o source, hash)

-----------------------------------------------------------------------------
(* The sync engine.                                                         *)

Existing == Submissions \cup {i \in Items : content_hash[i] # Absent}

\* Another run under way may write the page this one has read.
Alone(y) == \A z \in Runs \ {y} : y_pc[z] = "idle"

DropPage(y) ==
    /\ y_item' = [y_item EXCEPT ![y] = NoItem] /\ y_known' = [y_known EXCEPT ![y] = Absent]

EndRun(y) ==
    /\ y_pc' = [y_pc EXCEPT ![y] = "idle"] /\ y_page' = [y_page EXCEPT ![y] = 0]
    /\ y_total' = [y_total EXCEPT ![y] = 0] /\ y_ids' = [y_ids EXCEPT ![y] = {}]
    /\ y_unchanged' = [y_unchanged EXCEPT ![y] = 0]
    /\ DropPage(y)

\* get_total_pages; a source without pages, or out of reach, ends the run.
run_sync(y) ==
    /\ y_pc[y] = "idle" /\ Len(source) > 0
    /\ y_pc' = [y_pc EXCEPT ![y] = "fetch"] /\ y_page' = [y_page EXCEPT ![y] = 1]
    /\ y_total' = [y_total EXCEPT ![y] = Len(source)]
    /\ y_clean' = [z \in Runs |-> z = y /\ Alone(y)]
    /\ UNCHANGED <<sourceVars, mirrorVars, y_ids, y_item, y_known, y_unchanged, errors>>

\* The page is over; `changed` tells whether it wrote anything.
NextPage(y, changed) ==
    LET streak == IF changed THEN 0 ELSE y_unchanged[y] + 1
        last == y_page[y] = y_total[y] \/ (y \in IncrementalRuns /\ streak >= MAX_UNCHANGED_PAGES)
    IN
    IF last /\ y \in IncrementalRuns THEN EndRun(y)
    ELSE /\ y_pc' = [y_pc EXCEPT ![y] = IF last THEN "delete" ELSE "fetch"]
         /\ y_page' = [y_page EXCEPT ![y] = IF last THEN @ ELSE @ + 1]
         /\ y_unchanged' = [y_unchanged EXCEPT ![y] = IF y \in FullRuns THEN 0 ELSE streak]
         /\ DropPage(y)
         /\ UNCHANGED y_total

\* fetch_page gives up on the page; the run goes on without it.
FetchFails(y) ==
    /\ y_pc[y] = "fetch" /\ errors < MaxErrors /\ errors' = errors + 1
    /\ NextPage(y, FALSE)
    /\ y_clean' = [y_clean EXCEPT ![y] = FALSE]
    /\ (y_pc'[y] # "idle" => UNCHANGED y_ids)
    /\ UNCHANGED <<sourceVars, mirrorVars>>

FetchPage(y) ==
    /\ y_pc[y] = "fetch"
    /\ IF y_page[y] <= Len(source)
       THEN LET i == source[y_page[y]] IN
            /\ y_item' = [y_item EXCEPT ![y] = [item |-> i, hash |-> hash[i]]]
            /\ y_ids' = [y_ids EXCEPT ![y] = @ \cup {i}]
            /\ y_pc' = [y_pc EXCEPT ![y] = "read"]
            /\ UNCHANGED <<y_page, y_total, y_known, y_unchanged>>
       ELSE NextPage(y, FALSE) /\ (y_pc'[y] # "idle" => UNCHANGED y_ids)
    /\ UNCHANGED <<sourceVars, mirrorVars, y_clean, errors>>

ReadExisting(y) ==
    /\ y_pc[y] = "read"
    /\ y_known' = [y_known EXCEPT ![y] = content_hash[y_item[y].item]]
    /\ y_pc' = [y_pc EXCEPT ![y] = "write"]
    /\ UNCHANGED <<sourceVars, mirrorVars, y_page, y_total, y_ids, y_item, y_unchanged, y_clean,
                   errors>>

\* _bulk_create or _bulk_update, which also shows the row again; a row whose hash
\* has not changed is left as it is.
_upsert_batch(y) ==
    LET i == y_item[y].item IN
    /\ y_pc[y] = "write" /\ (y_known[y] # Absent \/ content_hash[i] = Absent)
    /\ IF y_known[y] = y_item[y].hash THEN UNCHANGED mirrorVars
       ELSE /\ content_hash' = [content_hash EXCEPT ![i] = y_item[y].hash]
            /\ is_deleted_in_source' = [is_deleted_in_source EXCEPT ![i] = FALSE]
    /\ NextPage(y, y_known[y] # y_item[y].hash)
    /\ (y_pc'[y] # "idle" => UNCHANGED y_ids)
    /\ UNCHANGED <<sourceVars, y_clean, errors>>

\* The unique external_id refuses a row another run has created: the task fails
\* and Celery runs it again from the first page.
UpsertFails(y) ==
    /\ y_pc[y] = "write" /\ y_known[y] = Absent /\ content_hash[y_item[y].item] # Absent
    /\ EndRun(y)
    /\ UNCHANGED <<sourceVars, mirrorVars, y_clean, errors>>

\* Mutant: the last page does not count as read.
HidesLastPage(y) ==
    LET kept == y_ids[y] \ {source[i] : i \in DOMAIN source \cap {y_total[y]}}
        missing == {r \in Existing \ kept : ~is_deleted_in_source[r]}
    IN
    /\ y_pc[y] = "delete"
    /\ is_deleted_in_source' = [r \in Rows |-> is_deleted_in_source[r] \/ r \in missing]
    /\ EndRun(y)
    /\ UNCHANGED <<sourceVars, content_hash, y_clean, errors>>

\* Every row outside source_ids, of whatever origin, unless no page was read.
_soft_delete_missing(y) ==
    LET missing == {r \in Existing \ y_ids[y] : ~is_deleted_in_source[r] /\ y_ids[y] # {}} IN
    /\ y_pc[y] = "delete"
    /\ is_deleted_in_source' = [r \in Rows |-> is_deleted_in_source[r] \/ r \in missing]
    /\ EndRun(y)
    /\ UNCHANGED <<sourceVars, content_hash, y_clean, errors>>

_process_page(y) ==
    FetchPage(y) \/ FetchFails(y) \/ ReadExisting(y) \/ _upsert_batch(y) \/ UpsertFails(y)

-----------------------------------------------------------------------------
(* The only other writer of the mark.                                       *)

\* The approval of a submission also takes back a sync's mark.
approve_user_submission(r) ==
    /\ is_deleted_in_source' = [is_deleted_in_source EXCEPT ![r] = FALSE]
    /\ UNCHANGED <<sourceVars, content_hash, runVars, y_clean, errors>>

-----------------------------------------------------------------------------
TabyinNext ==
    \/ \E i \in Items : SourceEdits(i) \/ SourceAdds(i)
    \/ \E k \in DOMAIN source : SourceRemoves(k)
    \/ \E y \in Runs : run_sync(y) \/ _process_page(y)
    \/ \E y \in FullRuns : _soft_delete_missing(y)
    \/ \E r \in Submissions : approve_user_submission(r)

\* What a full run does when the source answers.
FullRunStep(y) ==
    \/ run_sync(y) \/ FetchPage(y) \/ ReadExisting(y) \/ _upsert_batch(y) \/ UpsertFails(y)
    \/ _soft_delete_missing(y)

\* Celery beat starts a full run every night (CELERY_BEAT_SCHEDULE), and Celery
\* runs a started task to its end.
TabyinFairness == \A y \in FullRuns : WF_tabyinVars(FullRunStep(y))

TabyinSpec == TabyinInit /\ [][TabyinNext]_tabyinVars /\ TabyinFairness

-----------------------------------------------------------------------------
\* Each variable has its type, and the page counters of a run stay within what
\* sync_full and sync_incremental let them reach.
TabyinTypeOK ==
    /\ content_hash \in [Items -> 0..Absent]
    /\ is_deleted_in_source \in [Rows -> BOOLEAN]
    /\ \A y \in Runs : y_pc[y] # "idle" => y_page[y] \in 1..y_total[y]
    /\ \A y \in Runs : y_unchanged[y] < MAX_UNCHANGED_PAGES /\ y_ids[y] \subseteq Items

\* The source's contents as the source has them, the others not shown.
Mirrored ==
    \A i \in Items :
        IF i \in Range(source) THEN content_hash[i] = hash[i]
        ELSE content_hash[i] # Absent => is_deleted_in_source[i]

\* A full run that nothing disturbs hides exactly the mirrored contents the source
\* no longer has, and leaves the others as the source has them (sync_full).
CleanRunMirrors ==
    [][\A y \in FullRuns : _soft_delete_missing(y) /\ y_clean[y] =>
        /\ Mirrored'
        /\ \A i \in Range(source) : is_deleted_in_source'[i] => is_deleted_in_source[i]
       ]_tabyinVars

\* Once the source rests, the rows catch up with it and stay so, whatever failed
\* pages, shifted pages and overlapping runs came before (SyncEngine).
WallCatchesUp == <>[](Len(source) > 0 => Mirrored)

\* "Soft delete of contents removed at the source" (engine.py, module docstring):
\* a run marks nothing that the source still has, and no row users submitted.
OnlyRemovedAreDeleted ==
    [][\A y \in FullRuns, r \in Rows :
        _soft_delete_missing(y) /\ is_deleted_in_source'[r] /\ ~is_deleted_in_source[r]
            => r \in Items \ Range(source)]_tabyinVars
=============================================================================
