----------------------------- MODULE AuditChain -----------------------------
(* The append-only audit log (apps/audit_logs): every record carries its     *)
(* position in one hash chain.  Writers do not lock the chain: each reads the *)
(* head, links its record to it, and lets the unique index on chain_index     *)
(* refuse the loser of a race, who reads the head again.  Writers are request *)
(* threads, which may be inside a longer business transaction, and Celery     *)
(* workers, which the broker may hand the same message twice.                 *)
EXTENDS Naturals, FiniteSets

CONSTANTS
    Requests,                    \* request threads
    Workers,                     \* Celery workers
    Users,                       \* rows of the user table
    NoUser,                      \* the NULL user_id
    Entries,                     \* calls of log_action / log_action_async
    NoEntry,                     \* a process that is not logging
    CHAIN_INSERT_MAX_ATTEMPTS,   \* 8 in the code
    AUDIT_TASK_MAX_RETRIES,      \* 5 in the code
    MaxFaults                    \* bound: killed processes and database errors

ASSUME AuditAssumptions ==
    /\ Requests \cap Workers = {}
    /\ NoUser \notin Users
    /\ NoEntry \notin Entries
    /\ CHAIN_INSERT_MAX_ATTEMPTS \in Nat \ {0}
    /\ AUDIT_TASK_MAX_RETRIES \in Nat
    /\ MaxFaults \in Nat

VARIABLES
    table,      \* committed audit rows
    pending,    \* process -> rows its open transaction has inserted
    users,      \* users that exist
    author,     \* entry -> the user_id it is logged with
    stage,      \* entry -> "new", "called", "queued" (accepted by the broker), "lost" (reported)
    queue,      \* messages the broker has not seen acknowledged
    retries,    \* entry -> retries its task has used
    call,       \* process -> its create_audit_log call
    instance,   \* process -> the position and previous hash of its unsaved record
    faults      \* killed processes and database errors so far

vars == <<table, pending, users, author, stage, queue, retries, call, instance, faults>>

Processes == Requests \cup Workers
GENESIS_HASH == <<>>              \* 64 zeros: the hash of no record
GENESIS_CHAIN_INDEX == 1

\* Mutant: the hash leaves the user out.
HashWithoutUser(previous_hash, user_id, entry) == <<previous_hash, entry>>

(* SHA-256 of the canonical JSON of the hashed fields: equal exactly when they are. *)
compute_event_hash(previous_hash, user_id, entry) == <<previous_hash, user_id, entry>>

AuditLog(index, previous_hash, user_id, entry) ==
    [chain_index |-> index, previous_hash |-> previous_hash,
     event_hash |-> compute_event_hash(previous_hash, user_id, entry),
     user_id |-> user_id, entry |-> entry]

(* on_delete=SET_NULL: the row loses its user and keeps everything else. *)
SetNull(r) ==
    [chain_index |-> r.chain_index, previous_hash |-> r.previous_hash,
     event_hash |-> r.event_hash, user_id |-> NoUser, entry |-> r.entry]

Position(index, previous_hash) == [chain_index |-> index, previous_hash |-> previous_hash]
NoPosition == Position(0, GENESIS_HASH)

(* base is the head the call started from: history, for the properties. *)
Idle == [pc |-> "idle", kind |-> "none", atomic |-> FALSE, entry |-> NoEntry,
         attempts |-> 0, base |-> 0]

Init ==
    /\ table = {}
    /\ pending = [p \in Processes |-> {}]
    /\ users = Users
    /\ author \in [Entries -> Users \cup {NoUser}]
    /\ stage = [e \in Entries |-> "new"]
    /\ queue = {}
    /\ retries = [e \in Entries |-> 0]
    /\ call = [p \in Processes |-> Idle]
    /\ instance = [p \in Processes |-> NoPosition]
    /\ faults = 0

-----------------------------------------------------------------------------
(* What a statement of process p sees: READ COMMITTED. *)
Visible(p) == table \cup pending[p]

IsHead(r, S) == r \in S /\ \A q \in S : q.chain_index <= r.chain_index

HeadIndex(S) ==
    IF \E r \in S : IsHead(r, S) THEN (CHOOSE r \in S : IsHead(r, S)).chain_index ELSE 0

(* create_audit_log is entered: the first thing it does is read the head. *)
Entered(p, e, kind, atomic) ==
    [pc |-> "link", kind |-> kind, atomic |-> atomic, entry |-> e,
     attempts |-> 0, base |-> HeadIndex(Visible(p))]

(* A request thread logs while its transaction, if it has one, is open. *)
MayLog(p, e) == p \in Requests /\ call[p].pc = "idle" /\ stage[e] = "new"
OpenIfNeeded(p, atomic) == pending[p] # {} => atomic

log_action(p, e, atomic) ==
    /\ MayLog(p, e) /\ OpenIfNeeded(p, atomic)
    /\ call' = [call EXCEPT ![p] = Entered(p, e, "request", atomic)]
    /\ stage' = [stage EXCEPT ![e] = "called"]
    /\ UNCHANGED <<table, pending, users, author, queue, retries, instance, faults>>

(* The broker accepts the task ... *)
log_action_async(p, e) ==
    /\ MayLog(p, e)
    /\ stage' = [stage EXCEPT ![e] = "queued"]
    /\ queue' = queue \cup {e}
    /\ UNCHANGED <<table, pending, users, author, retries, call, instance, faults>>

(* ... or is unreachable, and the request writes the record itself. *)
log_action_fallback(p, e, atomic) ==
    /\ MayLog(p, e) /\ OpenIfNeeded(p, atomic)
    /\ call' = [call EXCEPT ![p] = Entered(p, e, "fallback", atomic)]
    /\ stage' = [stage EXCEPT ![e] = "called"]
    /\ UNCHANGED <<table, pending, users, author, queue, retries, instance, faults>>

(* A worker takes a message nobody else is holding. *)
create_audit_log_task(w, e) ==
    /\ w \in Workers /\ call[w].pc = "idle"
    /\ e \in queue /\ \A v \in Workers : call[v].entry # e
    /\ call' = [call EXCEPT ![w] = Entered(w, e, "task", FALSE)]
    /\ UNCHANGED <<table, pending, users, author, stage, queue, retries, instance, faults>>

\* Mutant: the row links to any row, not the head.
LinkToAnyRow(p) ==
    /\ call[p].pc = "link"
    /\ call' = [call EXCEPT ![p].pc = "insert"]
    /\ LET all == UNION {Visible(q) : q \in Processes}
       IN  \/ all = {} /\ instance' = [instance EXCEPT ![p] = Position(GENESIS_CHAIN_INDEX, GENESIS_HASH)]
           \/ \E head \in all :
                 /\ IsHead(head, all)
                 /\ instance' = [instance EXCEPT ![p] = Position(head.chain_index + 1, head.event_hash)]
    /\ UNCHANGED <<table, pending, users, author, stage, queue, retries, faults>>

(* Take the position after the head this process sees. *)
_link_to_chain_head(p) ==
    /\ call[p].pc = "link"
    /\ call' = [call EXCEPT ![p].pc = "insert"]
    /\ \/ /\ Visible(p) = {}
          /\ instance' = [instance EXCEPT ![p] = Position(GENESIS_CHAIN_INDEX, GENESIS_HASH)]
       \/ \E head \in Visible(p) :
             /\ IsHead(head, Visible(p))
             /\ instance' = [instance EXCEPT ![p] = Position(head.chain_index + 1, head.event_hash)]
    /\ UNCHANGED <<table, pending, users, author, stage, queue, retries, faults>>

-----------------------------------------------------------------------------
NewRow(p) == AuditLog(instance[p].chain_index, instance[p].previous_hash,
                      author[call[p].entry], call[p].entry)

(* The unique indexes on chain_index and event_hash. *)
Collides(r, S) == \E q \in S : q.chain_index = r.chain_index \/ q.event_hash = r.event_hash

(* An insert waits while another open transaction holds a colliding row. *)
Unblocked(p) == \A q \in Processes \ {p} : ~Collides(NewRow(p), pending[q])

(* The user foreign key is checked when the transaction commits. *)
UserExists(u) == u \in users \cup {NoUser}

(* What happens to a message when its task has returned: nothing until the worker acknowledges. *)
Returned(p) ==
    /\ call' = [call EXCEPT ![p] = IF call[p].kind = "task"
                                   THEN [Idle EXCEPT !.pc = "ack", !.entry = call[p].entry]
                                   ELSE Idle]
    /\ instance' = [instance EXCEPT ![p] = NoPosition]

Abandoned(p) ==
    /\ call' = [call EXCEPT ![p] = Idle]
    /\ instance' = [instance EXCEPT ![p] = NoPosition]

(* The insert succeeds: in the caller's transaction, or committed at once. *)
save(p) ==
    /\ call[p].pc = "insert" /\ Unblocked(p)
    /\ ~Collides(NewRow(p), Visible(p))
    /\ IF call[p].atomic
       THEN pending' = [pending EXCEPT ![p] = @ \cup {NewRow(p)}] /\ UNCHANGED table
       ELSE UserExists(author[call[p].entry])
            /\ table' = table \cup {NewRow(p)} /\ UNCHANGED pending
    /\ Returned(p)
    /\ UNCHANGED <<users, author, stage, queue, retries, faults>>

InsertFails(p) ==
    /\ call[p].pc = "insert" /\ Unblocked(p)
    /\ \/ Collides(NewRow(p), Visible(p))
       \/ ~call[p].atomic /\ ~UserExists(author[call[p].entry])

\* Mutant: attempts are not counted.
RetryUncounted(p) ==
    /\ InsertFails(p)
    /\ call' = [call EXCEPT ![p].pc = "link"]
    /\ UNCHANGED <<table, pending, users, author, stage, queue, retries, instance, faults>>

(* IntegrityError: read the head again ... *)
save_retry(p) ==
    /\ InsertFails(p)
    /\ call[p].attempts + 1 < CHAIN_INSERT_MAX_ATTEMPTS
    /\ call' = [call EXCEPT ![p].pc = "link", ![p].attempts = @ + 1]
    /\ UNCHANGED <<table, pending, users, author, stage, queue, retries, instance, faults>>

(* ... or give up.  log_action raises out of the caller's transaction; the   *)
(* fallback and the task report the record lost and carry on.                *)
AuditLogChainContentionError(p) ==
    /\ InsertFails(p)
    /\ call[p].attempts + 1 = CHAIN_INSERT_MAX_ATTEMPTS
    /\ Returned(p)
    /\ stage' = [stage EXCEPT ![call[p].entry] = "lost"]
    /\ pending' = [pending EXCEPT ![p] = IF call[p].kind = "request" THEN {} ELSE @]
    /\ UNCHANGED <<table, users, author, queue, retries, faults>>

\* Mutant: the message is acknowledged before the work.
AckEarly(w) ==
    /\ w \in Workers /\ call[w].pc \in {"link", "insert", "ack"}
    /\ queue' = queue \ {call[w].entry}
    /\ call' = [call EXCEPT ![w] = IF @.pc = "ack" THEN Idle ELSE @]
    /\ UNCHANGED <<table, pending, users, author, stage, retries, instance, faults>>

(* The message is acknowledged after the task has returned (acks_late). *)
task_ack(w) ==
    /\ w \in Workers /\ call[w].pc = "ack"
    /\ queue' = queue \ {call[w].entry}
    /\ call' = [call EXCEPT ![w] = Idle]
    /\ UNCHANGED <<table, pending, users, author, stage, retries, instance, faults>>

-----------------------------------------------------------------------------
(* The business transaction around log_action commits, if every user its     *)
(* rows name still exists, or is rolled back.                                *)
commit(p) ==
    /\ call[p].pc = "idle" /\ pending[p] # {}
    /\ \A r \in pending[p] : UserExists(r.user_id)
    /\ table' = table \cup pending[p]
    /\ pending' = [pending EXCEPT ![p] = {}]
    /\ UNCHANGED <<users, author, stage, queue, retries, call, instance, faults>>

rollback(p) ==
    /\ call[p].pc = "idle" /\ pending[p] # {}
    /\ pending' = [pending EXCEPT ![p] = {}]
    /\ UNCHANGED <<table, users, author, stage, queue, retries, call, instance, faults>>

(* A database error (not an IntegrityError) in create_audit_log.  When it    *)
(* hits a commit, the row may have been written all the same.  The task is   *)
(* retried AUDIT_TASK_MAX_RETRIES times; log_action raises; the fallback     *)
(* reports the loss.                                                         *)
database_error(p) ==
    /\ faults < MaxFaults /\ faults' = faults + 1
    /\ call[p].pc \in {"link", "insert"}
    /\ \/ UNCHANGED table
       \/ /\ call[p].pc = "insert" /\ ~call[p].atomic /\ Unblocked(p)
          /\ ~Collides(NewRow(p), Visible(p)) /\ UserExists(author[call[p].entry])
          /\ table' = table \cup {NewRow(p)}
    /\ pending' = [pending EXCEPT ![p] = {}]
    /\ LET e == call[p].entry
           again == call[p].kind = "task" /\ retries[e] < AUDIT_TASK_MAX_RETRIES
       IN  IF again
           THEN /\ Abandoned(p)
                /\ retries' = [retries EXCEPT ![e] = @ + 1] /\ UNCHANGED stage
           ELSE /\ Returned(p)
                /\ stage' = [stage EXCEPT ![e] = "lost"] /\ UNCHANGED retries
    /\ UNCHANGED <<users, author, queue>>

(* A process is killed: its transaction is rolled back; a worker's message   *)
(* goes back to the queue (reject_on_worker_lost).                           *)
process_killed(p) ==
    /\ faults < MaxFaults /\ faults' = faults + 1
    /\ call[p].pc # "idle" \/ pending[p] # {}
    /\ Abandoned(p)
    /\ pending' = [pending EXCEPT ![p] = {}]
    /\ UNCHANGED <<table, users, author, stage, queue, retries>>

\* Mutant: the audit rows go with their user.
DeleteCascades(u) ==
    /\ u \in users
    /\ users' = users \ {u}
    /\ table' = {r \in table : r.user_id # u}
    /\ UNCHANGED <<pending, author, stage, queue, retries, call, instance, faults>>

(* A user row is deleted in the admin site: the foreign key is SET NULL. *)
delete_user(u) ==
    /\ u \in users
    /\ users' = users \ {u}
    /\ table' = {IF r.user_id = u THEN SetNull(r) ELSE r : r \in table}
    /\ UNCHANGED <<pending, author, stage, queue, retries, call, instance, faults>>

-----------------------------------------------------------------------------
Step(p) ==
    \/ _link_to_chain_head(p)
    \/ save(p)
    \/ save_retry(p)
    \/ AuditLogChainContentionError(p)
    \/ task_ack(p)

TransactionEnds(p) == commit(p) \/ rollback(p)

Next ==
    \/ \E p \in Requests, e \in Entries :
          \/ \E atomic \in BOOLEAN : log_action(p, e, atomic) \/ log_action_fallback(p, e, atomic)
          \/ log_action_async(p, e)
    \/ \E w \in Workers, e \in Entries : create_audit_log_task(w, e)
    \/ \E p \in Processes : Step(p) \/ TransactionEnds(p) \/ database_error(p) \/ process_killed(p)
    \/ \E u \in Users : delete_user(u)

Spec == Init /\ [][Next]_vars

(* A process that is running goes on, a transaction ends (the request has a  *)
(* time limit), and an idle worker takes what is queued.                     *)
FairSpec ==
    /\ Spec
    /\ \A p \in Processes : WF_vars(Step(p)) /\ WF_vars(TransactionEnds(p))
    /\ \A w \in Workers : WF_vars(\E e \in Entries : create_audit_log_task(w, e))

-----------------------------------------------------------------------------
CallType == [pc : {"idle", "link", "insert", "ack"},
             kind : {"none", "request", "fallback", "task"},
             atomic : BOOLEAN, entry : Entries \cup {NoEntry},
             attempts : 0..CHAIN_INSERT_MAX_ATTEMPTS - 1, base : Nat]

(* Every variable has the shape the code gives it. *)
TypeOK ==
    /\ \A r \in table \cup UNION {pending[p] : p \in Processes} :
          r.chain_index \in Nat /\ r.user_id \in Users \cup {NoUser} /\ r.entry \in Entries
    /\ users \subseteq Users
    /\ author \in [Entries -> Users \cup {NoUser}]
    /\ stage \in [Entries -> {"new", "called", "queued", "lost"}]
    /\ queue \subseteq Entries
    /\ retries \in [Entries -> 0..AUDIT_TASK_MAX_RETRIES]
    /\ call \in [Processes -> CallType]
    /\ \A p \in Processes : instance[p].chain_index \in Nat
    /\ faults \in 0..MaxFaults

(* The committed rows are one unforked chain without gaps: positions are     *)
(* unique, the first row follows the genesis hash, and every other carries   *)
(* the event hash of the row one position before it.  This must survive      *)
(* racing inserts, transactions that roll back after others have read the    *)
(* head, killed writers and users deleted underneath.  (AuditLog.save)       *)
ChainLinked ==
    /\ \A q, r \in table : q.chain_index = r.chain_index => q = r
    /\ \A r \in table :
          \/ r.chain_index = GENESIS_CHAIN_INDEX /\ r.previous_hash = GENESIS_HASH
          \/ \E q \in table : /\ r.chain_index = q.chain_index + 1
                              /\ r.previous_hash = q.event_hash

(* verify_audit_chain_integrity walks the rows by chain_index. *)
HashBefore(r, rows) ==
    LET earlier == {q \in rows : q.chain_index < r.chain_index}
    IN  IF earlier = {} THEN GENESIS_HASH ELSE (CHOOSE q \in earlier : IsHead(q, earlier)).event_hash

verify_audit_chain_integrity(rows) ==
    \A r \in rows :
        /\ r.previous_hash = HashBefore(r, rows)
        /\ r.event_hash = compute_event_hash(HashBefore(r, rows), r.user_id, r.entry)

(* The verifier accepts the table exactly when every row still names the     *)
(* user it was logged with: the only thing it can ever complain about is the *)
(* SET NULL of a deleted user.  (verify_audit_chain_integrity)               *)
VerifiesIffAuthorsKept ==
    verify_audit_chain_integrity(table) <=> \A r \in table : r.user_id = author[r.entry]

(* A contention error is never spurious: every attempt a writer loses was    *)
(* lost to one more committed row, so after n lost attempts the chain has    *)
(* grown by n since the call began - unless the user the entry names is gone *)
(* and the foreign key, not the position, refused it.  (AuditLog.save)       *)
LostRacesAreProgress ==
    \A p \in Processes : call[p].attempts > 0 =>
        \/ author[call[p].entry] \notin users \cup {NoUser}
        \/ \E r \in Visible(p) : r.chain_index >= call[p].base + call[p].attempts

(* A record whose task the broker accepted does not disappear silently: once *)
(* the message is gone the record is in the table, or its loss was reported. *)
(* (create_audit_log_task: acks_late, reject_on_worker_lost, autoretry)      *)
NoSilentLoss ==
    \A e \in Entries : stage[e] = "queued" /\ e \notin queue => \E r \in table : r.entry = e

(* Each copy of a record beyond the first was paid for by a killed process   *)
(* or a database error: delivery is at least once, never freely repeated.    *)
(* (create_audit_log_task)                                                   *)
DuplicatesCostFaults ==
    \A e \in Entries : Cardinality({r \in table : r.entry = e}) <= 1 + faults

(* No step removes a committed row or changes anything of it but its user.   *)
(* (AuditLogQuerySet, AuditLog.save, the SET NULL foreign key)               *)
RowsAreAppendOnly ==
    [][\A r \in table : r \in table' \/ SetNull(r) \in table']_vars

(* Every message the broker accepted is eventually acknowledged; with        *)
(* NoSilentLoss, recorded or reported lost.  (create_audit_log_task)         *)
QueueDrains == \A e \in Entries : e \in queue ~> e \notin queue

(* "audit logs ... must never be mutated or deleted through application      *)
(* code": the verifier accepts the table at all times.                       *)
ChainAlwaysVerifies == verify_audit_chain_integrity(table)
=============================================================================
