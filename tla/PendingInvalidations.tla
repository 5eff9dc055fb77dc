------------------------ MODULE PendingInvalidations ------------------------
(* The per-transaction queue of apps/core/cache_invalidation.py on one      *)
(* database connection: invalidate_public_domain collects a domain once per *)
(* queue and registers the flush with on_commit; the queue belongs to the   *)
(* object connection.run_on_commit, which Django replaces on commit, on     *)
(* rollback and on the rollback of a savepoint.                             *)
EXTENDS Naturals

CONSTANTS
    Domains,
    MaxSteps    \* bound: calls of one transaction

ASSUME TransactionBounds == MaxSteps \in Nat

VARIABLES
    savepoints,     \* the open savepoints, each known by the step that opened it
    run_on_commit,  \* registered callbacks [sids, queue], in no matter what order
    epoch,          \* identity of the run_on_commit list
    queues,         \* the domains in each queue
    queue_epoch,    \* the list the connection's current queue belongs to
    thread_queue,   \* the connection's current queue
    writes,         \* changes of this transaction: [sids, domain]
    steps,
    touched,        \* domains this transaction asked to invalidate
    last            \* the last finished transaction: [changed, touched, flushed]

queueVars == <<savepoints, run_on_commit, epoch, queues, queue_epoch, thread_queue, writes, steps,
               touched, last>>

\* Every call of a transaction makes at most one list and one queue.
Ids == 0..MaxSteps

QueueInit ==
    /\ savepoints = {} /\ run_on_commit = {} /\ writes = {}
    /\ epoch = 1 /\ queue_epoch = 0 /\ thread_queue = 0
    /\ queues = [q \in Ids |-> {}]
    /\ steps = 0 /\ touched = {}
    /\ last = [changed |-> {}, touched |-> {}, flushed |-> {}]

Step == steps < MaxSteps /\ steps' = steps + 1

\* Mutant: the queue stays on the connection until it is flushed.
KeepQueue == thread_queue

\* The queue of this transaction epoch, a new one when the list was replaced.
_pending_queue == IF queue_epoch = epoch THEN thread_queue ELSE thread_queue + 1

\* A public model of domain d is saved; its signal handler asks for the
\* invalidation.
invalidate_public_domain(d) ==
    LET q == _pending_queue
        known == d \in queues[q] IN
    /\ Step
    /\ touched' = touched \cup {d}
    /\ writes' = writes \cup {[sids |-> savepoints, domain |-> d]}
    /\ thread_queue' = q /\ queue_epoch' = epoch
    /\ queues' = [queues EXCEPT ![q] = @ \cup {d}]
    /\ run_on_commit' = IF known THEN run_on_commit
                        ELSE run_on_commit \cup {[sids |-> savepoints, queue |-> q]}
    /\ UNCHANGED <<savepoints, epoch, last>>

Savepoint ==
    /\ Step
    /\ savepoints' = savepoints \cup {steps'}
    /\ UNCHANGED <<run_on_commit, epoch, queues, queue_epoch, thread_queue, writes, touched, last>>

\* Savepoints nest: only the one opened last can end.
Innermost(sid) == \A outer \in savepoints : outer <= sid

ReleaseSavepoint ==
    /\ \E sid \in savepoints : Innermost(sid) /\ savepoints' = savepoints \ {sid}
    /\ UNCHANGED <<run_on_commit, epoch, queues, queue_epoch, thread_queue, writes, steps, touched, last>>

\* Callbacks registered under the savepoint are dropped, in a new list.
RollbackSavepoint ==
    /\ Step
    /\ \E sid \in savepoints :
         /\ Innermost(sid)
         /\ savepoints' = savepoints \ {sid}
         /\ run_on_commit' = {callback \in run_on_commit : sid \notin callback.sids}
         /\ writes' = {w \in writes : sid \notin w.sids}
    /\ epoch' = epoch + 1
    /\ UNCHANGED <<queues, queue_epoch, thread_queue, touched, last>>

\* Each callback flushes the queue it was registered with; a second one finds
\* it empty.
Registered == {callback.queue : callback \in run_on_commit}
_flush_pending_invalidations == UNION {queues[q] : q \in Registered}

\* The connection goes on to its next transaction with a new list. The queue
\* it holds (renumbered 0) keeps what was not flushed from it.
NextTransaction(kept) ==
    /\ run_on_commit' = {} /\ savepoints' = {} /\ writes' = {} /\ touched' = {}
    /\ epoch' = 1 /\ queue_epoch' = 0 /\ thread_queue' = 0 /\ steps' = 0
    /\ queues' = [q \in Ids |-> IF q = 0 THEN kept ELSE {}]

Commit ==
    /\ savepoints = {} /\ steps > 0
    /\ last' = [changed |-> {w.domain : w \in writes}, touched |-> touched,
                flushed |-> _flush_pending_invalidations]
    /\ NextTransaction(IF thread_queue \in Registered THEN {} ELSE queues[thread_queue])

Rollback ==
    /\ steps > 0
    /\ last' = [changed |-> {}, touched |-> touched, flushed |-> {}]
    /\ NextTransaction(queues[thread_queue])

QueueNext ==
    \/ \E d \in Domains : invalidate_public_domain(d)
    \/ Savepoint \/ ReleaseSavepoint \/ RollbackSavepoint \/ Commit \/ Rollback

QueueSpec == QueueInit /\ [][QueueNext]_queueVars

-----------------------------------------------------------------------------
QueueTypeOK ==
    /\ savepoints \subseteq 1..steps /\ steps \in 0..MaxSteps
    /\ Registered \subseteq 0..thread_queue /\ thread_queue \in Ids /\ queue_epoch \in 0..epoch
    /\ queues \in [Ids -> SUBSET Domains] /\ touched \subseteq Domains
    /\ \A w \in writes : w.domain \in touched

\* A transaction that commits invalidates every domain one of its surviving
\* writes changed, whichever of its savepoints were rolled back, and nothing
\* that an earlier transaction of the connection asked for and rolled back
\* (cache_invalidation.py, the epoch check of _pending_queue).
InvalidatesItsOwnChanges ==
    last.changed \subseteq last.flushed /\ last.flushed \subseteq last.touched
=============================================================================
