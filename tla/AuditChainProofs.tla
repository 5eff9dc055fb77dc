-------------------------- MODULE AuditChainProofs --------------------------
(* Proofs about the audit chain, for any number of request threads, workers, *)
(* users and entries and any retry limits.                                   *)
EXTENDS AuditChain, FiniteSetTheorems, TLAPS

AllRows == table \cup UNION {pending[p] : p \in Processes}

Domains == /\ pending = [p \in Processes |-> pending[p]]
           /\ instance = [p \in Processes |-> instance[p]]

(* A position is the one after some row of S, or the first. *)
Follows(index, hash, S) ==
    \/ index = GENESIS_CHAIN_INDEX /\ hash = GENESIS_HASH
    \/ \E q \in S : index = q.chain_index + 1 /\ hash = q.event_hash

(* The unique indexes, over committed and uncommitted rows alike. *)
Unique == /\ \A q, r \in AllRows : /\ q.chain_index = r.chain_index => q = r
                                   /\ q.event_hash = r.event_hash => q.chain_index = r.chain_index
          /\ \A p \in Processes : table \cap pending[p] = {}
          /\ \A p, o \in Processes : p # o => pending[p] \cap pending[o] = {}

Hashed == \A r \in AllRows : r.event_hash = compute_event_hash(r.previous_hash, author[r.entry], r.entry)

Linked == /\ \A r \in table : Follows(r.chain_index, r.previous_hash, table)
          /\ \A p \in Processes : \A r \in pending[p] :
                Follows(r.chain_index, r.previous_hash, Visible(p))

AuthorGone(p) == author[call[p].entry] \notin users \cup {NoUser}

(* A writer's position follows a row it can still see, and is beyond every   *)
(* position it has lost; rows it has not committed exist only inside a       *)
(* transaction.                                                              *)
Writer(p) ==
    /\ call[p].pc = "insert" => Follows(instance[p].chain_index, instance[p].previous_hash, Visible(p))
    /\ call[p].pc \in {"link", "insert"} => call[p].entry \in Entries
    /\ call[p].pc \in {"link", "insert"} /\ ~call[p].atomic => pending[p] = {}
    /\ p \in Workers => ~call[p].atomic /\ pending[p] = {}
    /\ call[p].kind = "task" => p \in Workers

Progress(p) ==
    /\ call[p].attempts > 0 => call[p].pc \in {"link", "insert"}
    /\ call[p].pc \in {"link", "insert"} =>
          \/ AuthorGone(p)
          \/ call[p].base + call[p].attempts = 0
          \/ \E r \in Visible(p) : r.chain_index >= call[p].base + call[p].attempts
    /\ call[p].pc = "insert" =>
          AuthorGone(p) \/ instance[p].chain_index >= call[p].base + call[p].attempts + 1

Writers == \A p \in Processes : Writer(p) /\ Progress(p)

ChainInv == TypeOK /\ Domains /\ Unique /\ Hashed /\ Linked /\ Writers

LEMMA IdleType == Idle \in CallType
BY AuditAssumptions DEF Idle, CallType

LEMMA HeadIndexNat ==
    ASSUME NEW S, \A r \in S : r.chain_index \in Nat
    PROVE  /\ HeadIndex(S) \in Nat
           /\ HeadIndex(S) = 0 \/ \E r \in S : r.chain_index = HeadIndex(S)
<1>1. CASE \E r \in S : IsHead(r, S)
  <2>1. IsHead(CHOOSE r \in S : IsHead(r, S), S)
    BY Zenon, <1>1
  <2> QED BY Zenon, <2>1, <1>1 DEF HeadIndex, IsHead
<1>2. CASE ~\E r \in S : IsHead(r, S)
  BY Zenon, <1>2 DEF HeadIndex
<1> QED BY Zenon, <1>1, <1>2

(* A call that starts is well typed. *)
LEMMA EnteredType ==
    ASSUME TypeOK, NEW p \in Processes, NEW e \in Entries,
           NEW kind \in {"request", "fallback", "task"}, NEW atomic \in BOOLEAN
    PROVE  Entered(p, e, kind, atomic) \in CallType
<1>1. \A r \in Visible(p) : r.chain_index \in Nat
  BY Zenon DEF TypeOK, Visible
<1>2. HeadIndex(Visible(p)) \in Nat
  BY Zenon, <1>1, HeadIndexNat
<1> QED BY <1>2, AuditAssumptions DEF Entered, Idle, CallType

LEMMA ReturnedType ==
    ASSUME TypeOK, Domains, NEW p \in Processes, Returned(p) \/ Abandoned(p)
    PROVE  /\ call' \in [Processes -> CallType]
           /\ \A q \in Processes : instance'[q].chain_index \in Nat
           /\ instance' = [q \in Processes |-> instance'[q]]
<1>1. [Idle EXCEPT !.pc = "ack", !.entry = call[p].entry] \in CallType
  BY Zenon, IdleType DEF TypeOK, CallType
<1>2. call' \in [Processes -> CallType]
  BY Zenon, <1>1, IdleType DEF TypeOK, CallType, Returned, Abandoned
<1>3. instance' = [instance EXCEPT ![p] = NoPosition]
  BY Zenon DEF Returned, Abandoned
<1>4. NoPosition.chain_index \in Nat
  BY Zenon DEF NoPosition, Position
<1> QED BY Zenon, <1>2, <1>3, <1>4 DEF TypeOK, Domains

(* The record about to be inserted is well typed and hashed. *)
LEMMA NewRowType ==
    ASSUME ChainInv, NEW p \in Processes, call[p].pc = "insert"
    PROVE  /\ NewRow(p).chain_index = instance[p].chain_index
           /\ NewRow(p).chain_index \in Nat
           /\ NewRow(p).previous_hash = instance[p].previous_hash
           /\ NewRow(p).user_id \in Users \cup {NoUser}
           /\ NewRow(p).entry \in Entries
           /\ NewRow(p).entry = call[p].entry
           /\ NewRow(p).event_hash
                 = compute_event_hash(NewRow(p).previous_hash, author[NewRow(p).entry], NewRow(p).entry)
<1>1. call[p].entry \in Entries
  BY Zenon DEF ChainInv, Writers, Writer
<1>2. instance[p].chain_index \in Nat /\ author[call[p].entry] \in Users \cup {NoUser}
  BY Zenon, <1>1 DEF ChainInv, TypeOK
<1> QED BY Zenon, <1>1, <1>2 DEF NewRow, AuditLog

LEMMA TypeStep ==
    ASSUME ChainInv, Next
    PROVE  TypeOK' /\ Domains'
<1> USE DEF ChainInv
<1>1. ASSUME NEW p \in Requests, NEW e \in Entries, NEW atomic \in BOOLEAN,
             log_action(p, e, atomic) \/ log_action_fallback(p, e, atomic)
      PROVE  TypeOK' /\ Domains'
  <2>1. PICK kind \in {"request", "fallback", "task"} :
           call' = [call EXCEPT ![p] = Entered(p, e, kind, atomic)]
    BY Zenon, <1>1 DEF log_action, log_action_fallback
  <2>2. p \in Processes
    BY Zenon DEF Processes
  <2>3. Entered(p, e, kind, atomic) \in CallType
    BY Zenon, <2>2, EnteredType
  <2>4. call' \in [Processes -> CallType]
    BY Zenon, <2>1, <2>3 DEF TypeOK, CallType
  <2> QED BY <1>1, <2>4 DEF log_action, log_action_fallback, TypeOK, Domains
<1>2. ASSUME NEW p \in Requests, NEW e \in Entries, log_action_async(p, e)
      PROVE  TypeOK' /\ Domains'
  BY <1>2 DEF log_action_async, TypeOK, Domains
<1>3. ASSUME NEW w \in Workers, NEW e \in Entries, create_audit_log_task(w, e)
      PROVE  TypeOK' /\ Domains'
  <2>1. w \in Processes
    BY Zenon DEF Processes
  <2>2. Entered(w, e, "task", FALSE) \in CallType
    BY Zenon, <2>1, EnteredType
  <2>3. call' \in [Processes -> CallType]
    BY Zenon, <1>3, <2>2 DEF create_audit_log_task, TypeOK, CallType
  <2>4. UNCHANGED <<table, pending, users, author, stage, queue, retries, instance, faults>>
    BY Zenon, <1>3 DEF create_audit_log_task
  <2> QED BY <2>3, <2>4 DEF TypeOK, Domains
<1>4. ASSUME NEW p \in Processes, _link_to_chain_head(p)
      PROVE  TypeOK' /\ Domains'
  <2>1. call' \in [Processes -> CallType]
    BY <1>4 DEF _link_to_chain_head, TypeOK, CallType
  <2>2. PICK i \in Nat : \E h : instance' = [instance EXCEPT ![p] = Position(i, h)]
    <3>1. CASE instance' = [instance EXCEPT ![p] = Position(GENESIS_CHAIN_INDEX, GENESIS_HASH)]
      BY Zenon, <3>1 DEF GENESIS_CHAIN_INDEX
    <3>2. ASSUME NEW head \in Visible(p),
                 instance' = [instance EXCEPT ![p] = Position(head.chain_index + 1, head.event_hash)]
          PROVE  \E i \in Nat : \E h : instance' = [instance EXCEPT ![p] = Position(i, h)]
      <4>1. head.chain_index + 1 \in Nat
        BY DEF TypeOK, Visible
      <4> QED BY Zenon, <3>2, <4>1
    <3> QED BY Zenon, <1>4, <3>1, <3>2 DEF _link_to_chain_head
  <2>3. \A h : Position(i, h).chain_index \in Nat
    BY Zenon, <2>2 DEF Position
  <2>4. /\ instance' = [q \in Processes |-> instance'[q]]
        /\ \A q \in Processes : instance'[q].chain_index \in Nat
    BY Zenon, <2>2, <2>3 DEF TypeOK, Domains
  <2> QED BY <1>4, <2>1, <2>4 DEF _link_to_chain_head, TypeOK, Domains
<1>5. ASSUME NEW p \in Processes, save(p)
      PROVE  TypeOK' /\ Domains'
  <2>1. Returned(p)
    BY Zenon, <1>5 DEF save
  <2>2. \A r \in AllRows' : r \in AllRows \/ r = NewRow(p)
    BY <1>5 DEF save, AllRows, Domains
  <2>3. pending' = [q \in Processes |-> pending'[q]]
    BY Zenon, <1>5 DEF save, Domains
  <2>4. call[p].pc = "insert"
    BY Zenon, <1>5 DEF save
  <2>5. \A r \in AllRows' :
           r.chain_index \in Nat /\ r.user_id \in Users \cup {NoUser} /\ r.entry \in Entries
    BY Zenon, <2>2, <2>4, NewRowType DEF TypeOK, AllRows
  <2> QED BY Zenon, <1>5, <2>1, <2>3, <2>5, ReturnedType DEF save, TypeOK, Domains, AllRows
<1>6. ASSUME NEW p \in Processes, save_retry(p)
      PROVE  TypeOK' /\ Domains'
  <2>1. call[p].attempts + 1 \in 0..CHAIN_INSERT_MAX_ATTEMPTS - 1
    BY <1>6, AuditAssumptions DEF save_retry, TypeOK, CallType
  <2>2. call' \in [Processes -> CallType]
    BY <1>6, <2>1 DEF save_retry, TypeOK, CallType
  <2> QED BY <1>6, <2>2 DEF save_retry, TypeOK, Domains
<1>7. ASSUME NEW p \in Processes, AuditLogChainContentionError(p)
      PROVE  TypeOK' /\ Domains'
  <2>1. Returned(p) /\ call[p].entry \in Entries
    BY Zenon, <1>7 DEF AuditLogChainContentionError, InsertFails, Writers, Writer
  <2>2. pending' = [q \in Processes |-> pending'[q]] /\ AllRows' \subseteq AllRows
    BY Zenon, <1>7 DEF AuditLogChainContentionError, Domains, AllRows
  <2> QED BY Zenon, <1>7, <2>1, <2>2, ReturnedType
          DEF AuditLogChainContentionError, TypeOK, Domains, AllRows
<1>8. ASSUME NEW p \in Processes, task_ack(p)
      PROVE  TypeOK' /\ Domains'
  <2>1. call' \in [Processes -> CallType]
    BY Zenon, <1>8, IdleType DEF task_ack, TypeOK, CallType
  <2> QED BY <1>8, <2>1 DEF task_ack, TypeOK, Domains
<1>9. ASSUME NEW p \in Processes, commit(p) \/ rollback(p)
      PROVE  TypeOK' /\ Domains'
  <2>1. pending' = [q \in Processes |-> pending'[q]] /\ AllRows' \subseteq AllRows
    BY <1>9 DEF commit, rollback, Domains, AllRows
  <2> QED BY Zenon, <1>9, <2>1 DEF commit, rollback, TypeOK, Domains, AllRows
<1>10. ASSUME NEW p \in Processes, database_error(p)
       PROVE  TypeOK' /\ Domains'
  <2>1. (Returned(p) \/ Abandoned(p)) /\ call[p].entry \in Entries
    BY Zenon, <1>10 DEF database_error, Writers, Writer
  <2>2. pending' = [q \in Processes |-> pending'[q]]
    BY Zenon, <1>10 DEF database_error, Domains
  <2>3. \A r \in AllRows' : r \in AllRows \/ (r = NewRow(p) /\ call[p].pc = "insert")
    BY Zenon, <1>10 DEF database_error, Domains, AllRows
  <2>4. \A r \in AllRows' :
           r.chain_index \in Nat /\ r.user_id \in Users \cup {NoUser} /\ r.entry \in Entries
    BY Zenon, <2>3, NewRowType DEF TypeOK, AllRows
  <2>5. /\ stage' \in [Entries -> {"new", "called", "queued", "lost"}]
        /\ retries' \in [Entries -> 0..AUDIT_TASK_MAX_RETRIES]
    BY <1>10, <2>1, AuditAssumptions DEF database_error, TypeOK
  <2>6. faults' \in 0..MaxFaults
    BY <1>10, AuditAssumptions DEF database_error, TypeOK
  <2>7. UNCHANGED <<users, author, queue>>
    BY Zenon, <1>10 DEF database_error
  <2> QED BY Zenon, <2>1, <2>2, <2>4, <2>5, <2>6, <2>7, ReturnedType DEF TypeOK, Domains, AllRows
<1>11. ASSUME NEW p \in Processes, process_killed(p)
       PROVE  TypeOK' /\ Domains'
  <2>1. Abandoned(p)
    BY Zenon, <1>11 DEF process_killed
  <2>2. pending' = [q \in Processes |-> pending'[q]] /\ AllRows' \subseteq AllRows
    BY Zenon, <1>11 DEF process_killed, Domains, AllRows
  <2>3. faults' \in 0..MaxFaults
    BY <1>11, AuditAssumptions DEF process_killed, TypeOK
  <2> QED BY Zenon, <1>11, <2>1, <2>2, <2>3, ReturnedType
          DEF process_killed, TypeOK, Domains, AllRows
<1>12. ASSUME NEW u \in Users, delete_user(u)
       PROVE  TypeOK' /\ Domains'
  <2>1. \A r \in AllRows' : \E q \in AllRows : r = q \/ r = SetNull(q)
    BY Zenon, <1>12 DEF delete_user, AllRows
  <2>2. \A r \in AllRows' :
           r.chain_index \in Nat /\ r.user_id \in Users \cup {NoUser} /\ r.entry \in Entries
    BY <2>1 DEF TypeOK, AllRows, SetNull
  <2> QED BY Zenon, <1>12, <2>2 DEF delete_user, TypeOK, Domains, AllRows
<1> QED BY Zenon, <1>1, <1>2, <1>3, <1>4, <1>5, <1>6, <1>7, <1>8, <1>9, <1>10, <1>11, <1>12
        DEF Next, Step, TransactionEnds

LEMMA FollowsMono ==
    ASSUME NEW index, NEW hash, NEW S, NEW T, Follows(index, hash, S),
           \A q \in S : \E r \in T : r.chain_index = q.chain_index /\ r.event_hash = q.event_hash
    PROVE  Follows(index, hash, T)
BY Zenon DEF Follows

(* The unique indexes let a row in only at a position and with a hash that   *)
(* no row, committed or not, has.                                            *)
LEMMA FreshRow ==
    ASSUME ChainInv, NEW p \in Processes, call[p].pc = "insert",
           Unblocked(p), ~Collides(NewRow(p), Visible(p))
    PROVE  /\ \A q \in AllRows : /\ q.chain_index # NewRow(p).chain_index
                                 /\ q.event_hash # NewRow(p).event_hash
           /\ Follows(NewRow(p).chain_index, NewRow(p).previous_hash, Visible(p))
<1>1. \A q \in AllRows : \/ q \in Visible(p)
                         \/ \E o \in Processes \ {p} : q \in pending[o]
  BY Zenon DEF AllRows, Visible
<1>2. Follows(instance[p].chain_index, instance[p].previous_hash, Visible(p))
  BY Zenon DEF ChainInv, Writers, Writer
<1> QED BY Zenon, <1>1, <1>2, NewRowType DEF Unblocked, Collides

(* What the actions do to the rows: nothing, one row more, some uncommitted  *)
(* rows fewer, one transaction committed, or one user set to null.           *)
Kept == UNCHANGED <<table, pending, author>>
Inserted(p) == /\ call[p].pc = "insert" /\ Unblocked(p) /\ ~Collides(NewRow(p), Visible(p))
               /\ \/ UNCHANGED table /\ pending' = [pending EXCEPT ![p] = @ \cup {NewRow(p)}]
                  \/ /\ table' = table \cup {NewRow(p)} /\ ~call[p].atomic
                     /\ pending' = [pending EXCEPT ![p] = {}]
               /\ UNCHANGED author
Discarded(p) == UNCHANGED <<table, author>> /\ pending' = [pending EXCEPT ![p] = {}]
Committed(p) == /\ table' = table \cup pending[p] /\ pending' = [pending EXCEPT ![p] = {}]
                /\ UNCHANGED author
Nulled(u) == /\ table' = {IF r.user_id = u THEN SetNull(r) ELSE r : r \in table}
             /\ UNCHANGED <<pending, author>>

LEMMA RowEffects ==
    ASSUME ChainInv, Next
    PROVE  \/ Kept
           \/ \E p \in Processes : \/ Inserted(p) /\ (save(p) \/ database_error(p))
                                  \/ Discarded(p) \/ Committed(p)
           \/ \E u \in Users : Nulled(u)
<1> USE DEF ChainInv, Domains
<1>1. ASSUME NEW p \in Requests, NEW e \in Entries, NEW atomic \in BOOLEAN,
             log_action(p, e, atomic) \/ log_action_fallback(p, e, atomic)
      PROVE  Kept
  BY Zenon, <1>1 DEF log_action, log_action_fallback, Kept
<1>2. ASSUME NEW p \in Requests, NEW e \in Entries, log_action_async(p, e)
      PROVE  Kept
  BY Zenon, <1>2 DEF log_action_async, Kept
<1>3. ASSUME NEW w \in Workers, NEW e \in Entries, create_audit_log_task(w, e)
      PROVE  Kept
  BY Zenon, <1>3 DEF create_audit_log_task, Kept
<1>4. ASSUME NEW p \in Processes, _link_to_chain_head(p) \/ save_retry(p) \/ task_ack(p)
      PROVE  Kept
  BY Zenon, <1>4 DEF _link_to_chain_head, save_retry, task_ack, Kept
<1>5. ASSUME NEW p \in Processes, save(p)
      PROVE  Inserted(p)
  <2>1. CASE call[p].atomic
    BY Zenon, <1>5, <2>1 DEF save, Inserted
  <2>2. CASE ~call[p].atomic
    <3>1. pending[p] = {}
      BY Zenon, <1>5, <2>2 DEF save, Writers, Writer
    <3>2. pending' = [pending EXCEPT ![p] = {}]
      BY Zenon, <1>5, <2>2, <3>1 DEF save
    <3> QED BY Zenon, <1>5, <2>2, <3>2 DEF save, Inserted
  <2> QED BY Zenon, <2>1, <2>2
<1>6. ASSUME NEW p \in Processes, AuditLogChainContentionError(p)
      PROVE  Kept \/ Discarded(p)
  <2>1. CASE call[p].kind = "request"
    BY Zenon, <1>6, <2>1 DEF AuditLogChainContentionError, Discarded
  <2>2. CASE call[p].kind # "request"
    BY Zenon, <1>6, <2>2 DEF AuditLogChainContentionError, Kept
  <2> QED BY Zenon, <2>1, <2>2
<1>7. ASSUME NEW p \in Processes, commit(p)
      PROVE  Committed(p)
  BY Zenon, <1>7 DEF commit, Committed
<1>8. ASSUME NEW p \in Processes, rollback(p) \/ process_killed(p)
      PROVE  Discarded(p)
  BY Zenon, <1>8 DEF rollback, process_killed, Discarded
<1>9. ASSUME NEW p \in Processes, database_error(p)
      PROVE  Discarded(p) \/ Inserted(p)
  BY Zenon, <1>9 DEF database_error, Discarded, Inserted
<1>10. ASSUME NEW u \in Users, delete_user(u)
       PROVE  Nulled(u)
  BY Zenon, <1>10 DEF delete_user, Nulled
<1> QED BY Zenon, <1>1, <1>2, <1>3, <1>4, <1>5, <1>6, <1>7, <1>8, <1>9, <1>10
        DEF Next, Step, TransactionEnds

LEMMA RowsStep ==
    ASSUME ChainInv, Next
    PROVE  Unique' /\ Hashed' /\ Linked'
<1> USE DEF ChainInv
<1>1. CASE Kept
  <2>1. table' = table /\ pending' = pending /\ author' = author
    BY Zenon, <1>1 DEF Kept
  <2>2. AllRows' = AllRows /\ \A p \in Processes : Visible(p)' = Visible(p)
    BY Zenon, <2>1 DEF AllRows, Visible
  <2>3. Unique' /\ Hashed'
    BY Zenon, <2>1, <2>2 DEF Unique, Hashed
  <2> QED BY Zenon, <2>1, <2>2, <2>3 DEF Linked
<1>2. ASSUME NEW p \in Processes, Inserted(p)
      PROVE  Unique' /\ Hashed' /\ Linked'
  <2>1. \A q \in AllRows' : q \in AllRows \/ q = NewRow(p)
    BY <1>2 DEF Inserted, AllRows, Domains
  <2>2. /\ \A q \in AllRows : /\ q.chain_index # NewRow(p).chain_index
                              /\ q.event_hash # NewRow(p).event_hash
        /\ Follows(NewRow(p).chain_index, NewRow(p).previous_hash, Visible(p))
    BY Zenon, <1>2, FreshRow DEF Inserted
  <2>3. Unique'
    <3>1. NewRow(p) \notin AllRows
      BY Zenon, <2>2
    <3>2. \A o \in Processes : NewRow(p) \notin pending[o]
      BY Zenon, <3>1 DEF AllRows
    <3>3. NewRow(p) \notin table
      BY Zenon, <3>1 DEF AllRows
    <3>4. /\ \A o \in Processes : table' \cap pending'[o] = {}
          /\ \A o, q \in Processes : q # o => pending'[q] \cap pending'[o] = {}
      BY <1>2, <3>2, <3>3 DEF Inserted, Unique, Domains
    <3>5. \A q, r \in AllRows' : /\ q.chain_index = r.chain_index => q = r
                                 /\ q.event_hash = r.event_hash => q.chain_index = r.chain_index
      BY <2>1, <2>2 DEF Unique
    <3> QED BY Zenon, <3>4, <3>5 DEF Unique
  <2>4. Hashed'
    <3>1. author' = author /\ call[p].pc = "insert"
      BY Zenon, <1>2 DEF Inserted
    <3> QED BY Zenon, <2>1, <3>1, NewRowType DEF Hashed
  <2>5. CASE UNCHANGED table /\ pending' = [pending EXCEPT ![p] = @ \cup {NewRow(p)}]
    <3>1. \A q \in Processes : Visible(q) \subseteq Visible(q)'
      BY Zenon, <2>5 DEF Visible, Domains
    <3>2. ASSUME NEW q \in Processes, NEW r \in pending'[q]
          PROVE  Follows(r.chain_index, r.previous_hash, Visible(q)')
      <4>1. Follows(r.chain_index, r.previous_hash, Visible(q))
        BY Zenon, <2>2, <2>5, <3>2 DEF Linked, Domains
      <4> QED BY Zenon, <3>1, <4>1, FollowsMono
    <3>3. \A r \in table' : Follows(r.chain_index, r.previous_hash, table')
      BY Zenon, <2>5 DEF Linked
    <3> QED BY Zenon, <2>3, <2>4, <3>2, <3>3 DEF Linked
  <2>6. CASE table' = table \cup {NewRow(p)} /\ ~call[p].atomic /\ pending' = [pending EXCEPT ![p] = {}]
    <3>1. Visible(p) = table
      BY Zenon, <1>2, <2>6 DEF Inserted, Writers, Writer, Visible
    <3>2. ASSUME NEW r \in table'
          PROVE  Follows(r.chain_index, r.previous_hash, table')
      <4>1. Follows(r.chain_index, r.previous_hash, table)
        BY Zenon, <2>2, <2>6, <3>1 DEF Linked
      <4> QED BY Zenon, <2>6, <4>1, FollowsMono
    <3>3. ASSUME NEW q \in Processes, NEW r \in pending'[q]
          PROVE  Follows(r.chain_index, r.previous_hash, Visible(q)')
      <4>1. q # p /\ r \in pending[q]
        BY Zenon, <2>6 DEF Domains
      <4>2. Follows(r.chain_index, r.previous_hash, Visible(q))
        BY Zenon, <4>1 DEF Linked
      <4>3. Visible(q) \subseteq Visible(q)'
        BY Zenon, <2>6, <4>1 DEF Visible, Domains
      <4> QED BY Zenon, <4>2, <4>3, FollowsMono
    <3> QED BY Zenon, <2>3, <2>4, <3>2, <3>3 DEF Linked
  <2> QED BY Zenon, <1>2, <2>5, <2>6 DEF Inserted
<1>3. ASSUME NEW p \in Processes, Discarded(p) \/ Committed(p)
      PROVE  Unique' /\ Hashed' /\ Linked'
  <2>1. AllRows' \subseteq AllRows /\ author' = author
    BY <1>3 DEF Discarded, Committed, AllRows, Domains
  <2>2. Unique' /\ Hashed'
    <3>1. /\ \A o \in Processes : table' \cap pending'[o] = {}
          /\ \A o, q \in Processes : q # o => pending'[q] \cap pending'[o] = {}
      BY Zenon, <1>3 DEF Discarded, Committed, Unique, Domains
    <3> QED BY Zenon, <2>1, <3>1 DEF Unique, Hashed
  <2>3. ASSUME NEW r \in table'
        PROVE  Follows(r.chain_index, r.previous_hash, table')
    <3>1. CASE Discarded(p)
      BY Zenon, <3>1 DEF Discarded, Linked
    <3>2. CASE Committed(p)
      <4>1. table' = Visible(p) /\ table \subseteq table'
        BY Zenon, <3>2 DEF Committed, Visible
      <4>2. \/ Follows(r.chain_index, r.previous_hash, table)
            \/ Follows(r.chain_index, r.previous_hash, Visible(p))
        BY Zenon, <4>1 DEF Linked, Visible
      <4> QED BY Zenon, <4>1, <4>2, FollowsMono
    <3> QED BY Zenon, <1>3, <3>1, <3>2
  <2>4. ASSUME NEW q \in Processes, NEW r \in pending'[q]
        PROVE  Follows(r.chain_index, r.previous_hash, Visible(q)')
    <3>1. q # p /\ r \in pending[q]
      BY Zenon, <1>3 DEF Discarded, Committed, Domains
    <3>2. Follows(r.chain_index, r.previous_hash, Visible(q))
      BY <3>1 DEF Linked
    <3>3. Visible(q) \subseteq Visible(q)'
      BY Zenon, <1>3, <3>1 DEF Discarded, Committed, Visible, Domains
    <3> QED BY <3>2, <3>3, FollowsMono
  <2> QED BY Zenon, <2>2, <2>3, <2>4 DEF Linked
<1>4. ASSUME NEW u \in Users, Nulled(u)
      PROVE  Unique' /\ Hashed' /\ Linked'
  <2> DEFINE Image(q) == IF q.user_id = u THEN SetNull(q) ELSE q
  <2>1. \A q : /\ Image(q).chain_index = q.chain_index /\ Image(q).event_hash = q.event_hash
               /\ Image(q).previous_hash = q.previous_hash /\ Image(q).entry = q.entry
    BY Zenon DEF SetNull
  <2>2. table' = {Image(q) : q \in table} /\ pending' = pending /\ author' = author
    BY Zenon, <1>4 DEF Nulled
  <2> HIDE DEF Image
  <2>3. \A r \in AllRows' : \/ r \in UNION {pending[p] : p \in Processes}
                            \/ \E q \in table : r = Image(q)
    BY Zenon, <2>2 DEF AllRows
  <2>4. Hashed'
    BY <2>1, <2>2, <2>3 DEF Hashed, AllRows
  <2>5. ASSUME NEW r \in AllRows'
        PROVE  \E q \in AllRows : /\ q.chain_index = r.chain_index /\ q.event_hash = r.event_hash
                                  /\ (r = q /\ q \notin table) \/ (r = Image(q) /\ q \in table)
    <3>1. CASE \E q \in table : r = Image(q)
      BY Zenon, <2>1, <3>1 DEF AllRows
    <3>2. CASE r \in UNION {pending[p] : p \in Processes}
      <4>1. r \in AllRows
        BY Zenon, <3>2 DEF AllRows
      <4>2. r \notin table
        BY <3>2 DEF Unique
      <4> QED BY Zenon, <4>1, <4>2
    <3> QED BY Zenon, <2>3, <3>1, <3>2
  <2>6. \A q, r \in AllRows' : /\ q.chain_index = r.chain_index => q = r
                               /\ q.event_hash = r.event_hash => q.chain_index = r.chain_index
    BY <2>5 DEF Unique
  <2>7. \A p \in Processes : table' \cap pending'[p] = {}
    <3> SUFFICES ASSUME NEW p \in Processes, NEW r \in table', r \in pending[p]
                 PROVE  FALSE
      BY Zenon, <2>2
    <3>1. PICK q \in table : r = Image(q)
      BY Zenon, <2>2
    <3>2. q = r
      BY <2>1, <3>1 DEF Unique, AllRows
    <3> QED BY Zenon, <3>2 DEF Unique
  <2>8. Unique'
    BY Zenon, <2>2, <2>6, <2>7 DEF Unique
  <2>9. \A q \in table : \E r \in table' : r.chain_index = q.chain_index /\ r.event_hash = q.event_hash
    BY Zenon, <2>1, <2>2
  <2>10. ASSUME NEW r \in table'
         PROVE  Follows(r.chain_index, r.previous_hash, table')
    <3>1. Follows(r.chain_index, r.previous_hash, table)
      BY Zenon, <2>1, <2>2 DEF Linked
    <3> QED BY Zenon, <2>9, <3>1, FollowsMono
  <2>11. ASSUME NEW p \in Processes, NEW r \in pending'[p]
         PROVE  Follows(r.chain_index, r.previous_hash, Visible(p)')
    <3>1. Follows(r.chain_index, r.previous_hash, Visible(p))
      BY Zenon, <2>2 DEF Linked
    <3>2. \A q \in Visible(p) : \E t \in Visible(p)' :
             t.chain_index = q.chain_index /\ t.event_hash = q.event_hash
      BY Zenon, <2>2, <2>9 DEF Visible
    <3> QED BY Zenon, <3>1, <3>2, FollowsMono
  <2> QED BY Zenon, <2>4, <2>8, <2>10, <2>11 DEF Linked
<1> QED BY Zenon, <1>1, <1>2, <1>3, <1>4, RowEffects

(* Committed rows stay, save for the user that SET NULL takes from them. *)
RowsKept(S, T) == \A q \in S : \E r \in T : /\ r.chain_index = q.chain_index
                                            /\ r.event_hash = q.event_hash /\ r.entry = q.entry

LEMMA TableKept ==
    ASSUME ChainInv, Next
    PROVE  RowsKept(table, table') /\ author' = author /\ users' \subseteq users
<1>1. author' = author /\ users' \subseteq users
  BY Zenon DEF Next, Step, TransactionEnds, log_action, log_action_async, log_action_fallback,
         create_audit_log_task, _link_to_chain_head, save, save_retry, task_ack,
         AuditLogChainContentionError, commit, rollback, database_error, process_killed, delete_user
<1>2. ASSUME NEW u \in Users, Nulled(u)
      PROVE  RowsKept(table, table')
  <2> SUFFICES ASSUME NEW q \in table
               PROVE  \E r \in table' : /\ r.chain_index = q.chain_index
                                        /\ r.event_hash = q.event_hash /\ r.entry = q.entry
    BY Zenon DEF RowsKept
  <2> DEFINE r == IF q.user_id = u THEN SetNull(q) ELSE q
  <2>1. r \in table'
    BY Zenon, <1>2 DEF Nulled
  <2>2. r.chain_index = q.chain_index /\ r.event_hash = q.event_hash /\ r.entry = q.entry
    BY Zenon DEF SetNull
  <2> QED BY Zenon, <2>1, <2>2
<1>3. ASSUME table \subseteq table'
      PROVE  RowsKept(table, table')
  <2> SUFFICES ASSUME NEW q \in table
               PROVE  \E r \in table' : /\ r.chain_index = q.chain_index
                                        /\ r.event_hash = q.event_hash /\ r.entry = q.entry
    BY Zenon DEF RowsKept
  <2>1. q \in table'
    BY Zenon, <1>3
  <2> QED BY Zenon, <2>1
<1> QED BY Zenon, <1>1, <1>2, <1>3, RowEffects DEF Kept, Inserted, Discarded, Committed

(* What another process does leaves a writer's position as good as it was. *)
LEMMA Undisturbed ==
    ASSUME ChainInv, Next, NEW q \in Processes,
           call'[q] = call[q], instance'[q] = instance[q], pending'[q] = pending[q]
    PROVE  Writer(q)' /\ Progress(q)'
<1>1. RowsKept(Visible(q), Visible(q)')
  BY Zenon, TableKept DEF RowsKept, Visible
<1>2. Writer(q) /\ Progress(q)
  BY Zenon DEF ChainInv, Writers
<1>3. Writer(q)'
  <2>1. ASSUME call[q].pc = "insert"
        PROVE  Follows(instance[q].chain_index, instance[q].previous_hash, Visible(q)')
    BY <1>1, <1>2, <2>1, FollowsMono DEF Writer, RowsKept
  <2> QED BY Zenon, <1>2, <2>1 DEF Writer
<1>4. AuthorGone(q) => AuthorGone(q)'
  BY Zenon, TableKept DEF AuthorGone
<1>5. ASSUME NEW n, \E r \in Visible(q) : r.chain_index >= n
      PROVE  \E r \in Visible(q)' : r.chain_index >= n
  BY Zenon, <1>1, <1>5 DEF RowsKept
<1>6. Progress(q)'
  BY Zenon, <1>2, <1>4, <1>5 DEF Progress
<1> QED BY Zenon, <1>3, <1>6

(* A process that has left create_audit_log has no position. *)
LEMMA ReturnedWriter ==
    ASSUME ChainInv, Next, NEW p \in Processes, Returned(p) \/ Abandoned(p),
           p \in Workers => pending'[p] = {}
    PROVE  Writer(p)' /\ Progress(p)'
<1>1. /\ call'[p].pc \in {"idle", "ack"} /\ call'[p].attempts = 0
      /\ call'[p].atomic = FALSE /\ call'[p].kind = "none"
  <2> DEFINE ack == [Idle EXCEPT !.pc = "ack", !.entry = call[p].entry]
  <2>1. call'[p] = Idle \/ call'[p] = ack
    BY Zenon DEF Returned, Abandoned, ChainInv, TypeOK
  <2>2. ack.pc = "ack" /\ ack.attempts = 0 /\ ack.atomic = FALSE /\ ack.kind = "none"
    BY Zenon DEF Idle
  <2>3. Idle.pc = "idle" /\ Idle.attempts = 0 /\ Idle.atomic = FALSE /\ Idle.kind = "none"
    BY Zenon DEF Idle
  <2> QED BY Zenon, <2>1, <2>2, <2>3
<1> QED BY <1>1 DEF Writer, Progress

(* One process moves at a time. *)
LEMMA WritersStep1 ==
    ASSUME ChainInv, Next, NEW p \in Processes, Writer(p)' /\ Progress(p)',
           \A q \in Processes \ {p} : /\ call'[q] = call[q]
                                      /\ instance'[q] = instance[q] /\ pending'[q] = pending[q]
    PROVE  Writers'
<1> QED BY Zenon, Undisturbed DEF Writers

(* Two records with one hash sit at one position. *)
LEMMA SameHashSamePosition ==
    ASSUME ChainInv, NEW p \in Processes, call[p].pc = "insert",
           NEW q \in Visible(p), q.event_hash = NewRow(p).event_hash
    PROVE  q.chain_index = instance[p].chain_index
<1> USE DEF ChainInv
<1>1. q \in AllRows
  BY Zenon DEF Visible, AllRows
<1>2. q.previous_hash = instance[p].previous_hash
  BY <1>1, NewRowType DEF Hashed, compute_event_hash
<1>3. Follows(q.chain_index, q.previous_hash, Visible(p))
  <2>1. CASE q \in table
    <3>1. Follows(q.chain_index, q.previous_hash, table)
      BY Zenon, <2>1 DEF Linked
    <3> QED BY Zenon, <3>1 DEF Follows, Visible
  <2>2. CASE q \in pending[p]
    BY Zenon, <2>2 DEF Linked
  <2> QED BY Zenon, <2>1, <2>2 DEF Visible
<1>4. Follows(instance[p].chain_index, instance[p].previous_hash, Visible(p))
  BY Zenon DEF Writers, Writer
<1>5. \A r \in Visible(p) : r.event_hash # GENESIS_HASH
  BY DEF Hashed, Visible, AllRows, compute_event_hash, GENESIS_HASH
<1>6. \A r, t \in Visible(p) : r.event_hash = t.event_hash => r.chain_index = t.chain_index
  BY DEF Unique, Visible, AllRows
<1> QED BY <1>2, <1>3, <1>4, <1>5, <1>6 DEF Follows

LEMMA EnteredWriter ==
    ASSUME ChainInv, Next, NEW p \in Processes, NEW e \in Entries,
           NEW kind \in {"request", "fallback", "task"}, NEW atomic \in BOOLEAN,
           call' = [call EXCEPT ![p] = Entered(p, e, kind, atomic)],
           table' = table, pending' = pending, instance' = instance,
           atomic \/ pending[p] = {}, p \in Workers => ~atomic /\ pending[p] = {},
           kind = "task" => p \in Workers
    PROVE  Writers'
<1>1. call'[p] = Entered(p, e, kind, atomic)
  BY Zenon DEF ChainInv, TypeOK
<1>2. Visible(p)' = Visible(p)
  BY Zenon DEF Visible
<1>3. Writer(p)'
  BY <1>1 DEF Writer, Entered
<1>4. /\ HeadIndex(Visible(p)) \in Nat
      /\ HeadIndex(Visible(p)) = 0 \/ \E r \in Visible(p) : r.chain_index = HeadIndex(Visible(p))
  <2>1. \A r \in Visible(p) : r.chain_index \in Nat
    BY Zenon DEF ChainInv, TypeOK, Visible
  <2> QED BY Zenon, <2>1, HeadIndexNat
<1>5. Progress(p)'
  BY <1>1, <1>2, <1>4 DEF Progress, Entered
<1>6. \A q \in Processes \ {p} : call'[q] = call[q]
  BY Zenon DEF ChainInv, TypeOK
<1> QED BY Zenon, <1>3, <1>5, <1>6, WritersStep1

LEMMA LinkWriter ==
    ASSUME ChainInv, Next, NEW p \in Processes, _link_to_chain_head(p)
    PROVE  Writers'
<1> USE DEF ChainInv
<1>1. /\ call' = [call EXCEPT ![p].pc = "insert"] /\ call[p].pc = "link"
      /\ UNCHANGED <<table, pending, users, author>>
  BY Zenon DEF _link_to_chain_head
<1>2. /\ call'[p].pc = "insert" /\ call'[p].kind = call[p].kind /\ call'[p].atomic = call[p].atomic
      /\ call'[p].entry = call[p].entry /\ call'[p].attempts = call[p].attempts
      /\ call'[p].base = call[p].base
      /\ \A q \in Processes \ {p} : call'[q] = call[q]
  BY Zenon, <1>1 DEF TypeOK, CallType
<1>3. Visible(p)' = Visible(p) /\ AuthorGone(p)' = AuthorGone(p)
  BY Zenon, <1>1, <1>2 DEF Visible, AuthorGone
<1>4. Writer(p) /\ Progress(p)
  BY Zenon DEF Writers
<1>5. /\ call[p].base + call[p].attempts \in Nat
      /\ \A r \in Visible(p) : r.chain_index \in Nat
  BY AuditAssumptions DEF TypeOK, CallType, Visible
<1>6. ASSUME NEW i \in Nat, NEW h, Follows(i, h, Visible(p)),
             instance' = [instance EXCEPT ![p] = Position(i, h)],
             \A r \in Visible(p) : r.chain_index < i, i >= 1
      PROVE  Writers'
  <2>1. instance'[p].chain_index = i /\ instance'[p].previous_hash = h
    BY Zenon, <1>6 DEF Domains, Position
  <2>2. Writer(p)'
    BY Zenon, <1>1, <1>2, <1>3, <1>4, <1>6, <2>1 DEF Writer
  <2>3. Progress(p)'
    <3>1. AuthorGone(p) \/ i >= call[p].base + call[p].attempts + 1
      BY <1>1, <1>4, <1>5, <1>6 DEF Progress
    <3> QED BY Zenon, <1>1, <1>2, <1>3, <1>4, <2>1, <3>1 DEF Progress
  <2>4. \A q \in Processes \ {p} : instance'[q] = instance[q] /\ pending'[q] = pending[q]
    BY Zenon, <1>1, <1>6 DEF Domains
  <2> QED BY Zenon, <1>2, <2>2, <2>3, <2>4, WritersStep1
<1>7. CASE Visible(p) = {} /\ instance' = [instance EXCEPT ![p] = Position(GENESIS_CHAIN_INDEX, GENESIS_HASH)]
  <2>1. Follows(GENESIS_CHAIN_INDEX, GENESIS_HASH, Visible(p))
    BY Zenon DEF Follows
  <2>2. GENESIS_CHAIN_INDEX \in Nat /\ GENESIS_CHAIN_INDEX >= 1
    BY DEF GENESIS_CHAIN_INDEX
  <2> QED BY Zenon, <1>6, <1>7, <2>1, <2>2
<1>8. ASSUME NEW head \in Visible(p), IsHead(head, Visible(p)),
             instance' = [instance EXCEPT ![p] = Position(head.chain_index + 1, head.event_hash)]
      PROVE  Writers'
  <2>1. Follows(head.chain_index + 1, head.event_hash, Visible(p))
    BY Zenon DEF Follows
  <2>2. head.chain_index + 1 \in Nat /\ head.chain_index + 1 >= 1
        /\ \A r \in Visible(p) : r.chain_index < head.chain_index + 1
    BY <1>5, <1>8 DEF IsHead
  <2> DEFINE i == head.chain_index + 1
  <2>3. /\ i \in Nat /\ i >= 1 /\ Follows(i, head.event_hash, Visible(p))
        /\ instance' = [instance EXCEPT ![p] = Position(i, head.event_hash)]
        /\ \A r \in Visible(p) : r.chain_index < i
    BY Zenon, <1>8, <2>1, <2>2
  <2> HIDE DEF i
  <2> QED BY Zenon, <1>6, <2>3
<1> QED BY Zenon, <1>7, <1>8 DEF _link_to_chain_head

LEMMA RetryWriter ==
    ASSUME ChainInv, Next, NEW p \in Processes, save_retry(p)
    PROVE  Writers'
<1> USE DEF ChainInv
<1>1. /\ call' = [call EXCEPT ![p].pc = "link", ![p].attempts = @ + 1] /\ call[p].pc = "insert"
      /\ UNCHANGED <<table, pending, users, author, instance>>
  BY Zenon DEF save_retry, InsertFails
<1>2. /\ call'[p].pc = "link" /\ call'[p].kind = call[p].kind /\ call'[p].atomic = call[p].atomic
      /\ call'[p].entry = call[p].entry /\ call'[p].attempts = call[p].attempts + 1
      /\ call'[p].base = call[p].base
      /\ \A q \in Processes \ {p} : call'[q] = call[q]
  BY Zenon, <1>1 DEF TypeOK, CallType
<1>3. Visible(p)' = Visible(p) /\ AuthorGone(p)' = AuthorGone(p)
  BY Zenon, <1>1, <1>2 DEF Visible, AuthorGone
<1>4. Writer(p) /\ Progress(p)
  BY DEF Writers
<1>5. call[p].base \in Nat /\ call[p].attempts \in Nat
  BY AuditAssumptions DEF TypeOK, CallType
<1>6. AuthorGone(p) \/ \E r \in Visible(p) : r.chain_index = instance[p].chain_index
  <2>1. ASSUME Collides(NewRow(p), Visible(p))
        PROVE  \E r \in Visible(p) : r.chain_index = instance[p].chain_index
    BY Zenon, <1>1, <2>1, NewRowType, SameHashSamePosition DEF Collides
  <2> QED BY Zenon, <2>1 DEF save_retry, InsertFails, UserExists, AuthorGone
<1>7. Writer(p)'
  BY Zenon, <1>1, <1>2, <1>4 DEF Writer
<1>8. Progress(p)'
  <2>1. \/ AuthorGone(p)
        \/ \E r \in Visible(p) : r.chain_index >= call[p].base + (call[p].attempts + 1)
    <3>1. AuthorGone(p) \/ instance[p].chain_index >= call[p].base + call[p].attempts + 1
      BY Zenon, <1>1, <1>4 DEF Progress
    <3>2. instance[p].chain_index \in Nat
      BY Zenon DEF TypeOK
    <3> QED BY <1>5, <1>6, <3>1, <3>2
  <2> QED BY Zenon, <1>2, <1>3, <2>1 DEF Progress
<1> QED BY Zenon, <1>1, <1>2, <1>7, <1>8, WritersStep1

LEMMA WritersStep ==
    ASSUME ChainInv, Next
    PROVE  Writers'
<1> USE DEF ChainInv
<1>1. ASSUME NEW p \in Requests, NEW e \in Entries, NEW atomic \in BOOLEAN,
             log_action(p, e, atomic) \/ log_action_fallback(p, e, atomic)
      PROVE  Writers'
  <2>1. PICK kind \in {"request", "fallback"} :
           call' = [call EXCEPT ![p] = Entered(p, e, kind, atomic)]
    BY Zenon, <1>1 DEF log_action, log_action_fallback
  <2>2. /\ table' = table /\ pending' = pending /\ instance' = instance
        /\ atomic \/ pending[p] = {}
    BY Zenon, <1>1 DEF log_action, log_action_fallback, OpenIfNeeded
  <2>3. p \in Processes /\ p \notin Workers
    BY Zenon, AuditAssumptions DEF Processes
  <2> QED BY Zenon, <2>1, <2>2, <2>3, EnteredWriter
<1>2. ASSUME NEW p \in Requests, NEW e \in Entries, log_action_async(p, e)
      PROVE  Writers'
  <2>1. p \in Processes
    BY Zenon DEF Processes
  <2>2. call' = call /\ instance' = instance /\ pending' = pending
    BY Zenon, <1>2 DEF log_action_async
  <2> QED BY Zenon, <2>1, <2>2, Undisturbed, WritersStep1
<1>3. ASSUME NEW w \in Workers, NEW e \in Entries, create_audit_log_task(w, e)
      PROVE  Writers'
  <2>1. w \in Processes
    BY DEF Processes
  <2>2. /\ call' = [call EXCEPT ![w] = Entered(w, e, "task", FALSE)]
        /\ table' = table /\ pending' = pending /\ instance' = instance
    BY Zenon, <1>3 DEF create_audit_log_task
  <2>3. pending[w] = {}
    BY Zenon, <2>1 DEF Writers, Writer
  <2> QED BY Zenon, <2>1, <2>2, <2>3, EnteredWriter
<1>4. ASSUME NEW p \in Processes, Returned(p) \/ Abandoned(p),
             \A q \in Processes \ {p} : pending'[q] = pending[q],
             p \in Workers => pending'[p] = {}
      PROVE  Writers'
  <2>1. \A q \in Processes \ {p} : call'[q] = call[q] /\ instance'[q] = instance[q]
    BY Zenon, <1>4 DEF Returned, Abandoned, TypeOK, Domains
  <2> QED BY Zenon, <1>4, <2>1, ReturnedWriter, WritersStep1
<1>5. ASSUME NEW p \in Processes, save(p) \/ AuditLogChainContentionError(p)
      PROVE  Writers'
  <2>1. Returned(p)
    BY Zenon, <1>5 DEF save, AuditLogChainContentionError
  <2>2. \A q \in Processes \ {p} : pending'[q] = pending[q]
    BY Zenon, <1>5 DEF save, AuditLogChainContentionError, Domains
  <2>3. p \in Workers => ~call[p].atomic /\ pending[p] = {}
    BY Zenon DEF Writers, Writer
  <2>4. p \in Workers => pending'[p] = {}
    BY Zenon, <1>5, <2>3 DEF save, AuditLogChainContentionError, Domains
  <2> QED BY Zenon, <1>4, <2>1, <2>2, <2>4
<1>6. ASSUME NEW p \in Processes, database_error(p) \/ process_killed(p)
      PROVE  Writers'
  <2>1. Returned(p) \/ Abandoned(p)
    BY Zenon, <1>6 DEF database_error, process_killed
  <2>2. pending' = [pending EXCEPT ![p] = {}]
    BY Zenon, <1>6 DEF database_error, process_killed
  <2> QED BY Zenon, <1>4, <2>1, <2>2 DEF Domains
<1>7. ASSUME NEW p \in Processes, task_ack(p)
      PROVE  Writers'
  <2>1. call' = [call EXCEPT ![p] = Idle] /\ instance' = instance /\ pending' = pending
    BY Zenon, <1>7 DEF task_ack
  <2>2. call'[p] = Idle /\ \A q \in Processes \ {p} : call'[q] = call[q]
    BY Zenon, <2>1 DEF TypeOK
  <2>3. Writer(p)' /\ Progress(p)'
    BY <2>1, <2>2 DEF Writers, Writer, Progress, Idle
  <2> QED BY Zenon, <2>1, <2>2, <2>3, WritersStep1
<1>8. ASSUME NEW p \in Processes, commit(p) \/ rollback(p)
      PROVE  Writers'
  <2>1. call' = call /\ instance' = instance /\ pending' = [pending EXCEPT ![p] = {}]
    BY Zenon, <1>8 DEF commit, rollback
  <2>2. call[p].pc = "idle"
    BY Zenon, <1>8 DEF commit, rollback
  <2>3. Writer(p)' /\ Progress(p)'
    BY Zenon, <2>1, <2>2 DEF Writers, Writer, Progress, Domains
  <2>4. \A q \in Processes \ {p} : pending'[q] = pending[q]
    BY Zenon, <2>1 DEF Domains
  <2> QED BY Zenon, <2>1, <2>3, <2>4, WritersStep1
<1>9. ASSUME NEW u \in Users, delete_user(u)
      PROVE  Writers'
  <2>1. call' = call /\ instance' = instance /\ pending' = pending
    BY Zenon, <1>9 DEF delete_user
  <2> QED BY Zenon, <2>1, Undisturbed DEF Writers
<1> QED BY Zenon, <1>1, <1>2, <1>3, <1>5, <1>6, <1>7, <1>8, <1>9, LinkWriter, RetryWriter
        DEF Next, Step, TransactionEnds

-----------------------------------------------------------------------------
(* A message is acknowledged only when its record is committed or reported lost. *)
Delivered == \A p \in Processes : call[p].pc = "ack" =>
                /\ call[p].entry \in Entries
                /\ stage[call[p].entry] = "lost" \/ \E r \in table : r.entry = call[p].entry

Delivery == Delivered /\ NoSilentLoss

LEMMA StagesKept ==
    ASSUME ChainInv, Next, NEW e \in Entries
    PROVE  /\ stage[e] = "lost" => stage'[e] = "lost"
           /\ stage'[e] = "queued" => stage[e] = "queued" \/ e \in queue'
           /\ (\E r \in table : r.entry = e) => \E r \in table' : r.entry = e
<1>1. (\E r \in table : r.entry = e) => \E r \in table' : r.entry = e
  BY Zenon, TableKept DEF RowsKept
<1>2. ASSUME NEW d \in Entries, stage[d] = "new", stage' = [stage EXCEPT ![d] = "called"]
      PROVE  (stage[e] = "lost" => stage'[e] = "lost") /\ (stage'[e] = "queued" => stage[e] = "queued")
  BY Zenon, <1>2 DEF ChainInv, TypeOK
<1>3. ASSUME NEW d \in Entries, stage[d] = "new", stage' = [stage EXCEPT ![d] = "queued"],
             queue' = queue \cup {d}
      PROVE  /\ stage[e] = "lost" => stage'[e] = "lost"
             /\ stage'[e] = "queued" => stage[e] = "queued" \/ e \in queue'
  BY Zenon, <1>3 DEF ChainInv, TypeOK
<1>4. ASSUME NEW d, stage' = [stage EXCEPT ![d] = "lost"] \/ stage' = stage
      PROVE  (stage[e] = "lost" => stage'[e] = "lost") /\ (stage'[e] = "queued" => stage[e] = "queued")
  BY Zenon, <1>4 DEF ChainInv, TypeOK
<1>5. \/ \E d \in Entries : stage[d] = "new" /\ stage' = [stage EXCEPT ![d] = "called"]
      \/ \E d \in Entries : /\ stage[d] = "new" /\ stage' = [stage EXCEPT ![d] = "queued"]
                            /\ queue' = queue \cup {d}
      \/ \E d : stage' = [stage EXCEPT ![d] = "lost"] \/ stage' = stage
  BY Zenon
  DEF Next, Step, TransactionEnds, log_action, log_action_async, log_action_fallback, MayLog,
         create_audit_log_task, _link_to_chain_head, save, save_retry, task_ack,
         AuditLogChainContentionError, commit, rollback, database_error, process_killed, delete_user
<1> QED BY Zenon, <1>1, <1>2, <1>3, <1>4, <1>5

(* How a process comes to "ack", and how a message leaves the queue. *)
LEMMA AckCauses ==
    ASSUME ChainInv, Next, NEW p \in Processes, call'[p].pc = "ack"
    PROVE  \/ call'[p] = call[p]
           \/ /\ call'[p].entry = call[p].entry /\ call[p].entry \in Entries
              /\ \/ stage'[call[p].entry] = "lost"
                 \/ \E r \in table' : r.entry = call[p].entry
<1> USE DEF ChainInv
<1>1. ASSUME NEW q \in Processes, NEW c, call' = [call EXCEPT ![q] = c], c.pc # "ack"
      PROVE  call'[p] = call[p]
  BY Zenon, <1>1 DEF TypeOK
<1>2. \A q, e, k, a : Entered(q, e, k, a).pc # "ack"
  BY Zenon DEF Entered
<1>3. Idle.pc # "ack"
  BY Zenon DEF Idle
<1>4. ASSUME NEW q \in Processes, NEW e \in Entries, NEW k, NEW a,
             call' = [call EXCEPT ![q] = Entered(q, e, k, a)]
      PROVE  call'[p] = call[p]
  BY <1>1, <1>2, <1>4
<1>5. ASSUME NEW q \in Processes, _link_to_chain_head(q) \/ save_retry(q)
      PROVE  call'[p] = call[p]
  BY Zenon, <1>5 DEF _link_to_chain_head, save_retry, TypeOK, CallType
<1>6. ASSUME NEW q \in Processes, Abandoned(q) \/ task_ack(q)
      PROVE  call'[p] = call[p]
  BY Zenon, <1>1, <1>3, <1>6 DEF Abandoned, task_ack
<1>7. ASSUME NEW q \in Processes, Returned(q)
      PROVE  \/ call'[p] = call[p]
             \/ p = q /\ call'[p].entry = call[p].entry /\ call[p].kind = "task"
  BY Zenon, <1>3, <1>7 DEF Returned, TypeOK, CallType, Idle
<1>8. ASSUME NEW q \in Processes, save(q)
      PROVE  \/ call'[p] = call[p]
             \/ /\ call'[p].entry = call[p].entry /\ call[p].entry \in Entries
                /\ \E r \in table' : r.entry = call[p].entry
  <2>1. CASE p = q /\ call'[p].entry = call[p].entry /\ call[p].kind = "task"
    <3>1. ~call[p].atomic /\ call[p].pc = "insert"
      BY Zenon, <1>8, <2>1 DEF save, Writers, Writer
    <3>2. NewRow(p) \in table'
      BY Zenon, <1>8, <2>1, <3>1 DEF save
    <3>3. NewRow(p).entry = call[p].entry /\ NewRow(p).entry \in Entries
      BY Zenon, <3>1, NewRowType
    <3> QED BY Zenon, <2>1, <3>2, <3>3
  <2> QED BY Zenon, <1>7, <1>8, <2>1 DEF save
<1>9. ASSUME NEW q \in Processes, Returned(q), call[q].pc \in {"link", "insert"},
             stage' = [stage EXCEPT ![call[q].entry] = "lost"]
      PROVE  \/ call'[p] = call[p]
             \/ /\ call'[p].entry = call[p].entry /\ call[p].entry \in Entries
                /\ stage'[call[p].entry] = "lost"
  <2>1. call[q].entry \in Entries
    BY Zenon, <1>9 DEF Writers, Writer
  <2>2. stage'[call[q].entry] = "lost"
    BY Zenon, <1>9, <2>1 DEF TypeOK
  <2> QED BY Zenon, <1>7, <1>9, <2>1, <2>2
<1>10. ASSUME NEW q \in Processes, AuditLogChainContentionError(q) \/ database_error(q)
       PROVE  \/ call'[p] = call[p]
              \/ /\ call'[p].entry = call[p].entry /\ call[p].entry \in Entries
                 /\ stage'[call[p].entry] = "lost"
  BY Zenon, <1>6, <1>9, <1>10 DEF AuditLogChainContentionError, InsertFails, database_error
<1>11. ASSUME UNCHANGED call
       PROVE  call'[p] = call[p]
  BY Zenon, <1>11
<1>12. ASSUME NEW q \in Requests, NEW e \in Entries, NEW atomic \in BOOLEAN,
              log_action(q, e, atomic) \/ log_action_fallback(q, e, atomic) \/ log_action_async(q, e)
       PROVE  call'[p] = call[p]
  <2>1. q \in Processes
    BY Zenon DEF Processes
  <2> QED BY <1>4, <1>12, <2>1 DEF log_action, log_action_fallback, log_action_async
<1>13. ASSUME NEW w \in Workers, NEW e \in Entries, create_audit_log_task(w, e)
       PROVE  call'[p] = call[p]
  <2>1. w \in Processes
    BY Zenon DEF Processes
  <2> QED BY Zenon, <1>4, <1>13, <2>1 DEF create_audit_log_task
<1>14. ASSUME NEW q \in Processes, commit(q) \/ rollback(q) \/ process_killed(q)
       PROVE  call'[p] = call[p]
  BY Zenon, <1>6, <1>14 DEF commit, rollback, process_killed
<1>15. ASSUME NEW u \in Users, delete_user(u)
       PROVE  call'[p] = call[p]
  BY Zenon, <1>15 DEF delete_user
<1> QED BY Zenon, <1>5, <1>6, <1>8, <1>10, <1>12, <1>13, <1>14, <1>15
        DEF Next, Step, TransactionEnds

LEMMA DeliveryStep ==
    ASSUME ChainInv, Delivery, Next
    PROVE  Delivery'
<1>1. Delivered'
  <2> SUFFICES ASSUME NEW p \in Processes, call'[p].pc = "ack"
               PROVE  /\ call'[p].entry \in Entries
                      /\ \/ stage'[call'[p].entry] = "lost"
                         \/ \E r \in table' : r.entry = call'[p].entry
    BY Zenon DEF Delivered
  <2> QED BY AckCauses, StagesKept DEF Delivery, Delivered
<1>2. NoSilentLoss'
  <2> SUFFICES ASSUME NEW e \in Entries, stage'[e] = "queued", e \notin queue'
               PROVE  \E r \in table' : r.entry = e
    BY Zenon DEF NoSilentLoss
  <2>1. stage[e] = "queued"
    BY Zenon, StagesKept
  <2>2. CASE e \notin queue
    BY Zenon, <2>1, <2>2, StagesKept DEF Delivery, NoSilentLoss
  <2>3. CASE e \in queue
    <3>1. PICK w \in Processes : call[w].pc = "ack" /\ call[w].entry = e
      BY Zenon, <2>3
      DEF Next, Step, TransactionEnds, log_action, log_action_async, log_action_fallback,
         create_audit_log_task, _link_to_chain_head, save, save_retry, task_ack,
         AuditLogChainContentionError, commit, rollback, database_error, process_killed, delete_user
    <3> QED BY Zenon, <2>1, <3>1, StagesKept DEF Delivery, Delivered
  <2> QED BY Zenon, <2>2, <2>3
<1> QED BY Zenon, <1>1, <1>2 DEF Delivery

-----------------------------------------------------------------------------
Inv == ChainInv /\ Delivery

LEMMA InitInv == Init => Inv
<1> SUFFICES ASSUME Init PROVE Inv
  BY Zenon
<1> USE DEF Init
<1>1. AllRows = {}
  BY Zenon DEF AllRows
<1>2. TypeOK
  BY <1>1, IdleType, AuditAssumptions DEF TypeOK, AllRows, NoPosition, Position
<1>3. Domains /\ Unique /\ Hashed /\ Linked
  BY Zenon, <1>1 DEF Domains, Unique, Hashed, Linked
<1>4. Writers
  BY DEF Writers, Writer, Progress, Idle
<1>5. Delivery
  BY Zenon DEF Delivery, Delivered, NoSilentLoss, Idle
<1> QED BY Zenon, <1>2, <1>3, <1>4, <1>5 DEF Inv, ChainInv

LEMMA NextInv == Inv /\ [Next]_vars => Inv'
<1> SUFFICES ASSUME Inv, [Next]_vars PROVE Inv'
  BY Zenon
<1>1. CASE Next
  BY Zenon, <1>1, TypeStep, RowsStep, WritersStep, DeliveryStep DEF Inv, ChainInv
<1>2. CASE UNCHANGED vars
  <2>1. TypeOK' /\ Domains' /\ Hashed' /\ Unique'
    BY <1>2 DEF vars, Inv, ChainInv, TypeOK, Domains, Hashed, Unique, AllRows
  <2>2. Linked' /\ Writers'
    BY Zenon, <1>2 DEF vars, Inv, ChainInv, Linked, Writers, Writer, Progress, AuthorGone, Visible
  <2>3. Delivery'
    BY Zenon, <1>2 DEF vars, Inv, Delivery, Delivered, NoSilentLoss
  <2> QED BY Zenon, <2>1, <2>2, <2>3 DEF Inv, ChainInv
<1> QED BY Zenon, <1>1, <1>2

(* The inductive invariant holds in every reachable state of the writers. *)
THEOREM ChainInvariance == Spec => []Inv
BY InitInv, NextInv, PTL DEF Spec

(* Every variable of the audit chain keeps its type.  (AuditLog) *)
THEOREM ChainTypeCorrect == Spec => []TypeOK
<1>1. Inv => TypeOK
  BY Zenon DEF Inv, ChainInv
<1> QED BY <1>1, ChainInvariance, PTL

(* The chain never forks and never has a gap, whatever the number of writers, *)
(* their transactions, the faults and the deleted users.  (AuditLog.save)     *)
THEOREM ChainNeverForks == Spec => []ChainLinked
<1>1. Inv => ChainLinked
  BY Zenon DEF Inv, ChainInv, ChainLinked, Unique, Linked, AllRows, Follows
<1> QED BY <1>1, ChainInvariance, PTL

(* A writer that has lost n attempts sees a chain that grew by n, unless its  *)
(* user is gone.  (AuditLog.save)                                             *)
THEOREM LostRacesAlwaysProgress == Spec => []LostRacesAreProgress
<1>1. Inv => LostRacesAreProgress
  <2> SUFFICES ASSUME Inv, NEW p \in Processes, call[p].attempts > 0
               PROVE  \/ author[call[p].entry] \notin users \cup {NoUser}
                      \/ \E r \in Visible(p) : r.chain_index >= call[p].base + call[p].attempts
    BY Zenon DEF LostRacesAreProgress
  <2>1. call[p].base \in Nat /\ call[p].attempts \in Nat
    BY AuditAssumptions DEF Inv, ChainInv, TypeOK, CallType
  <2>2. Progress(p)
    BY Zenon DEF Inv, ChainInv, Writers
  <2>3. call[p].base + call[p].attempts # 0
    BY <2>1
  <2> QED BY Zenon, <2>2, <2>3 DEF Progress, AuthorGone
<1> QED BY <1>1, ChainInvariance, PTL

(* A record the broker accepted is queued, recorded or reported lost.         *)
(* (create_audit_log_task)                                                    *)
THEOREM NeverSilentlyLost == Spec => []NoSilentLoss
<1>1. Inv => NoSilentLoss
  BY Zenon DEF Inv, Delivery
<1> QED BY <1>1, ChainInvariance, PTL

(* The hash the verifier expects before a row is the one the row carries. *)
LEMMA VerifierExpects ==
    ASSUME ChainInv, NEW r \in table
    PROVE  HashBefore(r, table) = r.previous_hash
<1> DEFINE earlier == {q \in table : q.chain_index < r.chain_index}
<1>1. \A q \in table : /\ q.chain_index \in Nat /\ q.chain_index >= 1
                       /\ Follows(q.chain_index, q.previous_hash, table)
  <2>1. \A q \in table : q.chain_index \in Nat /\ Follows(q.chain_index, q.previous_hash, table)
    BY Zenon DEF ChainInv, TypeOK, Linked
  <2> QED BY <2>1 DEF Follows, GENESIS_CHAIN_INDEX
<1>2. CASE r.chain_index = GENESIS_CHAIN_INDEX /\ r.previous_hash = GENESIS_HASH
  <2>1. earlier = {}
    BY <1>1, <1>2 DEF GENESIS_CHAIN_INDEX
  <2> QED BY Zenon, <1>2, <2>1 DEF HashBefore
<1>3. ASSUME NEW s \in table, r.chain_index = s.chain_index + 1, r.previous_hash = s.event_hash
      PROVE  HashBefore(r, table) = r.previous_hash
  <2>1. s \in earlier /\ IsHead(s, earlier)
    BY <1>1, <1>3 DEF IsHead
  <2>2. \A q \in earlier : IsHead(q, earlier) => q = s
    <3>1. \A q \in earlier : IsHead(q, earlier) => q.chain_index = s.chain_index
      BY <1>1, <2>1 DEF IsHead
    <3> QED BY Zenon, <3>1 DEF ChainInv, Unique, AllRows
  <2>3. (CHOOSE q \in earlier : IsHead(q, earlier)) = s
    BY Zenon, <2>1, <2>2
  <2> QED BY Zenon, <1>3, <2>1, <2>3 DEF HashBefore
<1> QED BY Zenon, <1>1, <1>2, <1>3 DEF Follows

(* The verifier rejects the table exactly when a row has lost its user.       *)
(* (verify_audit_chain_integrity)                                             *)
THEOREM VerifierExact == Spec => []VerifiesIffAuthorsKept
<1>1. Inv => VerifiesIffAuthorsKept
  <2> SUFFICES ASSUME ChainInv PROVE VerifiesIffAuthorsKept
    BY Zenon DEF Inv
  <2>1. \A r \in table : HashBefore(r, table) = r.previous_hash
    BY Zenon, VerifierExpects
  <2>2. \A r \in table : r.event_hash = compute_event_hash(r.previous_hash, author[r.entry], r.entry)
    BY Zenon DEF ChainInv, Hashed, AllRows
  <2>3. \A r \in table : r.event_hash = compute_event_hash(r.previous_hash, r.user_id, r.entry)
                          <=> r.user_id = author[r.entry]
    BY <2>2 DEF compute_event_hash
  <2> QED BY Zenon, <2>1, <2>3 DEF VerifiesIffAuthorsKept, verify_audit_chain_integrity
<1> QED BY <1>1, ChainInvariance, PTL

(* No step takes a committed row away or changes more of it than its user.    *)
(* (AuditLogQuerySet, AuditLog.save, the SET NULL foreign key)                *)
THEOREM AppendOnly == Spec => RowsAreAppendOnly
<1>1. Inv /\ [Next]_vars => [\A r \in table : r \in table' \/ SetNull(r) \in table']_vars
  <2> SUFFICES ASSUME ChainInv, Next, NEW r \in table
               PROVE  r \in table' \/ SetNull(r) \in table'
    BY Zenon DEF Inv
  <2> QED BY Zenon, RowEffects DEF Kept, Inserted, Discarded, Committed, Nulled
<1> QED BY <1>1, ChainInvariance, PTL DEF Spec, RowsAreAppendOnly

-----------------------------------------------------------------------------
(* At least once, and each further copy has its fault: who may still write an *)
(* entry, and how many copies of it there are by then.                        *)
Busy(p) == call[p].pc \in {"link", "insert"}

(* Every entry is in the hands of one process at a time: the request that    *)
(* logs it itself, or the worker that holds its message.                     *)
Owner(p) ==
    /\ call[p].pc = "idle" => call[p].entry = NoEntry
    /\ call[p].pc # "idle" =>
          /\ call[p].entry \in Entries /\ stage[call[p].entry] # "new"
          /\ p \in Requests => call[p].entry \notin queue
          /\ p \in Workers => call[p].entry \in queue /\ (Busy(p) => call[p].kind = "task")
          /\ \A q \in Processes : call[q].entry = call[p].entry => q = p

Owned ==
    /\ \A p \in Processes : Owner(p)
    /\ \A e \in queue : stage[e] # "new"

(* The positions given to an entry. *)
Slots(e) == {r.chain_index : r \in {q \in AllRows : q.entry = e}}

(* The record of e may still be written: by its request, by the worker that  *)
(* holds it, or by the next one to receive its message.                      *)
Unwritten(e) ==
    \/ stage[e] = "new"
    \/ \E p \in Processes : Busy(p) /\ call[p].entry = e
    \/ e \in queue /\ \A p \in Processes : call[p].entry # e

Paid(e) ==
    /\ IsFiniteSet(Slots(e)) /\ Cardinality(Slots(e)) <= 1 + faults
    /\ Unwritten(e) => Cardinality(Slots(e)) <= faults

CopiesInv == Inv /\ Owned /\ \A e \in Entries : Paid(e)

(* A process takes, keeps or gives back an entry nobody else has. *)
Takes(p, c) ==
    /\ call' = [call EXCEPT ![p] = c]
    /\ c.pc = "idle" => c.entry = NoEntry
    /\ c.pc # "idle" =>
          /\ c.entry \in Entries /\ stage'[c.entry] # "new"
          /\ p \in Requests => c.entry \notin queue'
          /\ p \in Workers => c.entry \in queue' /\ (c.pc \in {"link", "insert"} => c.kind = "task")
          /\ \A q \in Processes \ {p} : call[q].entry # c.entry

(* Whatever a process takes that way, each entry keeps one owner. *)
LEMMA TakesOwned ==
    ASSUME ChainInv, Owned, NEW p \in Processes, NEW c, Takes(p, c),
           \A e \in Entries : stage[e] # "new" => stage'[e] # "new",
           \A q \in Processes \ {p} : call[q].pc # "idle" =>
              (call[q].entry \in queue' <=> call[q].entry \in queue),
           \A e \in queue' : stage'[e] # "new"
    PROVE  Owned'
<1>1. call'[p] = c /\ \A q \in Processes \ {p} : call'[q] = call[q]
  BY Zenon DEF Takes, ChainInv, TypeOK
<1>2. NoEntry \notin Entries
  BY Zenon, AuditAssumptions
<1>3. Owner(p)'
  <2>1. ASSUME c.pc # "idle", NEW q \in Processes, call'[q].entry = c.entry PROVE q = p
    BY Zenon, <1>1, <2>1 DEF Takes
  <2> QED BY Zenon, <1>1, <2>1 DEF Takes, Owner, Busy
<1>4. ASSUME NEW q \in Processes \ {p} PROVE Owner(q)'
  <2>1. Owner(q) /\ call'[q] = call[q]
    BY Zenon, <1>1 DEF Owned
  <2>2. ASSUME call[q].pc # "idle", NEW o \in Processes, call'[o].entry = call[q].entry PROVE o = q
    <3>1. CASE o # p
      BY Zenon, <1>1, <2>1, <2>2, <3>1 DEF Owner
    <3>2. CASE o = p
      <4>1. c.entry = call[q].entry /\ c.entry \in Entries
        BY Zenon, <1>1, <2>1, <2>2, <3>2 DEF Owner
      <4>2. c.pc # "idle"
        BY Zenon, <1>2, <4>1 DEF Takes
      <4> QED BY Zenon, <4>1, <4>2 DEF Takes
    <3> QED BY Zenon, <3>1, <3>2
  <2> QED BY Zenon, <2>1, <2>2 DEF Owner, Busy
<1> QED BY Zenon, <1>3, <1>4 DEF Owned

(* Nobody has an entry that is not yet logged. *)
LEMMA NewIsFree ==
    ASSUME ChainInv, Owned, NEW e \in Entries, stage[e] = "new"
    PROVE  e \notin queue /\ \A q \in Processes : call[q].entry # e
<1>1. NoEntry \notin Entries
  BY Zenon, AuditAssumptions
<1> QED BY Zenon, <1>1 DEF Owned, Owner

(* Nor one whose message no worker holds. *)
LEMMA QueuedIsFree ==
    ASSUME ChainInv, Owned, NEW e \in queue, \A v \in Workers : call[v].entry # e
    PROVE  \A q \in Processes : call[q].entry # e
<1>1. NoEntry \notin Entries /\ queue \subseteq Entries
  BY Zenon, AuditAssumptions DEF ChainInv, TypeOK
<1> QED BY Zenon, <1>1 DEF Owned, Owner, Processes

(* What a call that ends leaves its process with. *)
LEMMA EndOfCall ==
    ASSUME ChainInv, Owned, NEW p \in Processes, Busy(p), Returned(p) \/ Abandoned(p),
           queue' = queue, \A e \in Entries : stage[e] # "new" => stage'[e] # "new"
    PROVE  \E c : /\ Takes(p, c) /\ c.pc \in {"idle", "ack"}
                  /\ Returned(p) /\ p \in Workers => c.pc = "ack" /\ c.entry = call[p].entry
<1>1. /\ call[p].entry \in Entries /\ stage[call[p].entry] # "new"
      /\ p \in Requests => call[p].entry \notin queue
      /\ p \in Workers => call[p].entry \in queue /\ call[p].kind = "task"
      /\ \A q \in Processes \ {p} : call[q].entry # call[p].entry
  BY Zenon DEF Owned, Owner, Busy
<1>2. call[p].kind = "task" => p \in Workers
  BY Zenon DEF ChainInv, Writers, Writer
<1> DEFINE acked == [Idle EXCEPT !.pc = "ack", !.entry = call[p].entry]
<1>3. acked.pc = "ack" /\ acked.entry = call[p].entry
  BY Zenon DEF Idle
<1>4. Idle.pc = "idle" /\ Idle.entry = NoEntry
  BY Zenon DEF Idle
<1> HIDE DEF acked
<1>5. ASSUME call' = [call EXCEPT ![p] = Idle] PROVE Takes(p, Idle)
  BY Zenon, <1>4, <1>5 DEF Takes
<1>6. ASSUME call' = [call EXCEPT ![p] = acked], call[p].kind = "task" PROVE Takes(p, acked)
  BY Zenon, <1>1, <1>2, <1>3, <1>6 DEF Takes
<1>7. CASE Abandoned(p) /\ ~Returned(p)
  BY Zenon, <1>4, <1>5, <1>7 DEF Abandoned
<1>8. CASE Returned(p) /\ call[p].kind = "task"
  <2>1. call' = [call EXCEPT ![p] = acked]
    BY Zenon, <1>8 DEF Returned, acked
  <2> QED BY Zenon, <1>3, <1>6, <1>8, <2>1
<1>9. CASE Returned(p) /\ call[p].kind # "task"
  <2>1. call' = [call EXCEPT ![p] = Idle]
    BY Zenon, <1>9 DEF Returned
  <2> QED BY Zenon, <1>1, <1>4, <1>5, <1>9, <2>1
<1> QED BY Zenon, <1>7, <1>8, <1>9
(* A call that ends, in success or in failure, is its process's alone. *)
LEMMA EndOwned ==
    ASSUME ChainInv, Owned, NEW p \in Processes, Busy(p), Returned(p) \/ Abandoned(p),
           queue' = queue, stage' = stage \/ stage' = [stage EXCEPT ![call[p].entry] = "lost"]
    PROVE  Owned'
<1>1. \A e \in Entries : stage[e] # "new" => stage'[e] # "new"
  BY Zenon DEF ChainInv, TypeOK
<1>2. queue \subseteq Entries
  BY Zenon DEF ChainInv, TypeOK
<1>3. \A e \in queue' : stage'[e] # "new"
  BY Zenon, <1>1, <1>2 DEF Owned
<1>4. PICK c : Takes(p, c)
  BY Zenon, <1>1, EndOfCall
<1> QED BY Zenon, <1>1, <1>3, <1>4, TakesOwned

(* Every step leaves each entry in the hands of one process. *)
LEMMA OwnedStep ==
    ASSUME ChainInv, Owned, Next
    PROVE  Owned'
<1> USE DEF ChainInv
<1>0. queue \subseteq Entries /\ Requests \subseteq Processes /\ Workers \subseteq Processes
      /\ Requests \cap Workers = {}
  BY Zenon, AuditAssumptions DEF TypeOK, Processes
<1>1. ASSUME NEW p \in Requests, NEW e \in Entries, NEW atomic \in BOOLEAN,
             log_action(p, e, atomic) \/ log_action_fallback(p, e, atomic)
      PROVE  Owned'
  <2>1. PICK kind : call' = [call EXCEPT ![p] = Entered(p, e, kind, atomic)]
    BY Zenon, <1>1 DEF log_action, log_action_fallback
  <2>2. /\ stage[e] = "new" /\ stage' = [stage EXCEPT ![e] = "called"] /\ queue' = queue
    BY Zenon, <1>1 DEF log_action, log_action_fallback, MayLog
  <2>3. e \notin queue /\ \A q \in Processes : call[q].entry # e
    BY Zenon, <2>2, NewIsFree
  <2>4. \A d \in Entries : stage[d] # "new" => stage'[d] # "new"
    BY Zenon, <2>2 DEF TypeOK
  <2>5. stage'[e] # "new"
    BY Zenon, <2>2 DEF TypeOK
  <2>6. Entered(p, e, kind, atomic).pc = "link" /\ Entered(p, e, kind, atomic).entry = e
    BY Zenon DEF Entered
  <2>7. Takes(p, Entered(p, e, kind, atomic))
    BY Zenon, <1>0, <2>1, <2>2, <2>3, <2>5, <2>6 DEF Takes
  <2>8. \A d \in queue' : stage'[d] # "new"
    BY Zenon, <1>0, <2>2, <2>4 DEF Owned
  <2> QED BY Zenon, <1>0, <2>2, <2>4, <2>7, <2>8, TakesOwned
<1>2. ASSUME NEW p \in Requests, NEW e \in Entries, log_action_async(p, e)
      PROVE  Owned'
  <2>1. /\ stage[e] = "new" /\ stage' = [stage EXCEPT ![e] = "queued"]
        /\ queue' = queue \cup {e} /\ call' = call
    BY Zenon, <1>2 DEF log_action_async, MayLog
  <2>2. \A q \in Processes : call[q].entry # e
    BY Zenon, <2>1, NewIsFree
  <2>3. \A d \in Entries : (stage[d] # "new" \/ d = e) => stage'[d] # "new"
    BY Zenon, <2>1 DEF TypeOK
  <2>4. \A q \in Processes : Owner(q)'
    BY Zenon, <2>1, <2>2, <2>3 DEF Owned, Owner, Busy
  <2>5. \A d \in queue' : stage'[d] # "new"
    BY Zenon, <1>0, <2>1, <2>3 DEF Owned
  <2> QED BY Zenon, <2>4, <2>5 DEF Owned
<1>3. ASSUME NEW w \in Workers, NEW e \in Entries, create_audit_log_task(w, e)
      PROVE  Owned'
  <2>1. /\ e \in queue /\ queue' = queue /\ stage' = stage
        /\ call' = [call EXCEPT ![w] = Entered(w, e, "task", FALSE)]
        /\ \A v \in Workers : call[v].entry # e
    BY Zenon, <1>3 DEF create_audit_log_task
  <2>2. \A q \in Processes : call[q].entry # e
    BY Zenon, <2>1, QueuedIsFree
  <2>3. /\ Entered(w, e, "task", FALSE).pc = "link" /\ Entered(w, e, "task", FALSE).entry = e
        /\ Entered(w, e, "task", FALSE).kind = "task"
    BY Zenon DEF Entered
  <2>4. Takes(w, Entered(w, e, "task", FALSE))
    BY Zenon, <1>0, <2>1, <2>2, <2>3 DEF Takes, Owned
  <2> QED BY Zenon, <1>0, <2>1, <2>4, TakesOwned DEF Owned
<1>4. ASSUME NEW p \in Processes, _link_to_chain_head(p) \/ save_retry(p)
      PROVE  Owned'
  <2>1. /\ Busy(p) /\ queue' = queue /\ stage' = stage
        /\ \A q \in Processes : /\ call'[q].entry = call[q].entry /\ call'[q].kind = call[q].kind
                                /\ q # p => call'[q] = call[q]
        /\ call'[p].pc \in {"link", "insert"}
    BY <1>4 DEF _link_to_chain_head, save_retry, InsertFails, Busy, TypeOK, CallType
  <2>2. ASSUME NEW q \in Processes PROVE Owner(q)'
    <3>1. /\ Owner(q) /\ call'[q].entry = call[q].entry /\ call'[q].kind = call[q].kind
          /\ call'[q].pc = "idle" <=> call[q].pc = "idle"
          /\ Busy(q)' <=> Busy(q)
      BY Zenon, <2>1 DEF Owned, Busy
    <3>2. \A o \in Processes : call'[o].entry = call[o].entry
      BY Zenon, <2>1
    <3> QED BY Zenon, <2>1, <3>1, <3>2 DEF Owner
  <2> QED BY Zenon, <2>1, <2>2 DEF Owned
<1>5. ASSUME NEW p \in Processes, save(p) \/ AuditLogChainContentionError(p) \/ database_error(p)
      PROVE  Owned'
  <2>1. /\ Busy(p) /\ (Returned(p) \/ Abandoned(p)) /\ queue' = queue
        /\ stage' = stage \/ stage' = [stage EXCEPT ![call[p].entry] = "lost"]
    BY Zenon, <1>5 DEF save, AuditLogChainContentionError, InsertFails, database_error, Busy
  <2> QED BY Zenon, <2>1, EndOwned
<1>6. ASSUME NEW w \in Processes, task_ack(w)
      PROVE  Owned'
  <2>1. /\ queue' = queue \ {call[w].entry} /\ stage' = stage /\ call' = [call EXCEPT ![w] = Idle]
        /\ call[w].pc # "idle"
    BY Zenon, <1>6 DEF task_ack
  <2>2. Takes(w, Idle)
    BY Zenon, <2>1 DEF Takes, Idle
  <2>3. \A q \in Processes \ {w} : call[q].entry # call[w].entry
    BY Zenon, <2>1 DEF Owned, Owner
  <2>4. \A d \in queue' : stage'[d] # "new"
    BY Zenon, <2>1 DEF Owned
  <2>5. \A q \in Processes \ {w} : call[q].entry \in queue' <=> call[q].entry \in queue
    BY Zenon, <2>1, <2>3
  <2> QED BY Zenon, <2>1, <2>2, <2>4, <2>5, TakesOwned
<1>7. ASSUME NEW p \in Processes, process_killed(p)
      PROVE  Owned'
  <2>1. queue' = queue /\ stage' = stage /\ call' = [call EXCEPT ![p] = Idle]
    BY Zenon, <1>7 DEF process_killed, Abandoned
  <2>2. Takes(p, Idle)
    BY Zenon, <2>1 DEF Takes, Idle
  <2> QED BY Zenon, <2>1, <2>2, TakesOwned DEF Owned
<1>8. ASSUME UNCHANGED <<queue, stage, call>>
      PROVE  Owned'
  BY Zenon, <1>8 DEF Owned, Owner, Busy
<1>9. ASSUME NEW p \in Processes, commit(p) \/ rollback(p)
      PROVE  Owned'
  BY Zenon, <1>8, <1>9 DEF commit, rollback
<1>10. ASSUME NEW u \in Users, delete_user(u)
       PROVE  Owned'
  BY Zenon, <1>8, <1>10 DEF delete_user
<1> QED BY Zenon, <1>1, <1>2, <1>3, <1>4, <1>5, <1>6, <1>7, <1>9, <1>10
        DEF Next, Step, TransactionEnds
(* An insert is its call's last: the entry is not written again, unless a     *)
(* fault makes its message come back.                                         *)
LEMMA SaveIsLast ==
    ASSUME ChainInv, Owned, NEW p \in Processes, NEW e, save(p), e = call[p].entry
    PROVE  ~Unwritten(e)'
<1>1. /\ Busy(p) /\ Returned(p) /\ queue' = queue /\ stage' = stage
  BY Zenon DEF save, Busy
<1>2. /\ call[p].entry \in Entries /\ stage[call[p].entry] # "new"
      /\ p \in Requests => call[p].entry \notin queue
      /\ \A q \in Processes \ {p} : call[q].entry # call[p].entry
  BY Zenon, <1>1 DEF Owned, Owner, Busy
<1>3. PICK c : /\ Takes(p, c) /\ c.pc \in {"idle", "ack"}
               /\ p \in Workers => c.pc = "ack" /\ c.entry = call[p].entry
  BY Zenon, <1>1, EndOfCall
<1>4. call'[p] = c /\ \A q \in Processes \ {p} : call'[q] = call[q]
  BY Zenon, <1>3 DEF Takes, ChainInv, TypeOK
<1>5. ~\E q \in Processes : Busy(q)' /\ call'[q].entry = call[p].entry
  BY Zenon, <1>2, <1>3, <1>4 DEF Busy
<1>6. call[p].entry \in queue => call'[p].entry = call[p].entry
  BY Zenon, <1>2, <1>3, <1>4 DEF Processes
<1>7. stage'[call[p].entry] # "new"
  BY Zenon, <1>1, <1>2
<1>8. ~(call[p].entry \in queue' /\ \A q \in Processes : call'[q].entry # call[p].entry)
  BY Zenon, <1>1, <1>6
<1> QED BY Zenon, <1>5, <1>7, <1>8 DEF Unwritten

(* Only a fault puts an entry up for writing that was done with. *)
LEMMA TurnStep ==
    ASSUME ChainInv, Owned, Next, NEW e \in Entries
    PROVE  \/ faults' = faults + 1
           \/ faults' = faults /\ (Unwritten(e)' => Unwritten(e))
<1> DEFINE Stays == faults' = faults /\ (Unwritten(e)' => Unwritten(e))
<1> USE DEF ChainInv
<1>0. queue \subseteq Entries /\ Requests \subseteq Processes /\ Workers \subseteq Processes
  BY Zenon DEF TypeOK, Processes
<1>1. ASSUME NEW p \in Requests, NEW d \in Entries, NEW atomic \in BOOLEAN,
             log_action(p, d, atomic) \/ log_action_fallback(p, d, atomic)
      PROVE  Stays
  <2>1. PICK kind : call' = [call EXCEPT ![p] = Entered(p, d, kind, atomic)]
    BY Zenon, <1>1 DEF log_action, log_action_fallback
  <2>2. /\ stage[d] = "new" /\ stage' = [stage EXCEPT ![d] = "called"] /\ queue' = queue
        /\ faults' = faults /\ call[p].pc = "idle"
    BY Zenon, <1>1 DEF log_action, log_action_fallback, MayLog
  <2>3. CASE e = d
    BY Zenon, <2>2, <2>3 DEF Unwritten
  <2>4. CASE e # d
    <3>1. call'[p].entry = d /\ \A q \in Processes \ {p} : call'[q] = call[q]
      BY Zenon, <1>0, <2>1 DEF TypeOK, Entered
    <3>2. stage'[e] = stage[e]
      BY Zenon, <2>2, <2>4 DEF TypeOK
    <3>3. call[p].entry # e
      BY Zenon, <1>0, <2>2, AuditAssumptions DEF Owned, Owner
    <3> QED BY Zenon, <2>2, <2>4, <3>1, <3>2, <3>3 DEF Unwritten, Busy
  <2> QED BY Zenon, <2>2, <2>3, <2>4
<1>2. ASSUME NEW p \in Requests, NEW d \in Entries, log_action_async(p, d)
      PROVE  Stays
  <2>1. /\ stage[d] = "new" /\ stage' = [stage EXCEPT ![d] = "queued"]
        /\ queue' = queue \cup {d} /\ call' = call /\ faults' = faults
    BY Zenon, <1>2 DEF log_action_async, MayLog
  <2>2. CASE e = d
    BY Zenon, <2>1, <2>2 DEF Unwritten
  <2>3. CASE e # d
    <3>1. stage'[e] = stage[e]
      BY Zenon, <2>1, <2>3 DEF TypeOK
    <3> QED BY Zenon, <2>1, <2>3, <3>1 DEF Unwritten, Busy
  <2> QED BY Zenon, <2>1, <2>2, <2>3
<1>3. ASSUME NEW w \in Workers, NEW d \in Entries, create_audit_log_task(w, d)
      PROVE  Stays
  <2>1. /\ d \in queue /\ queue' = queue /\ stage' = stage /\ faults' = faults
        /\ call' = [call EXCEPT ![w] = Entered(w, d, "task", FALSE)] /\ call[w].pc = "idle"
        /\ \A v \in Workers : call[v].entry # d
    BY Zenon, <1>3 DEF create_audit_log_task
  <2>2. CASE e = d
    BY Zenon, <2>1, <2>2, QueuedIsFree DEF Unwritten
  <2>3. CASE e # d
    <3>1. call'[w].entry = d /\ \A q \in Processes \ {w} : call'[q] = call[q]
      BY Zenon, <1>0, <2>1 DEF TypeOK, Entered
    <3>2. call[w].entry # e
      BY Zenon, <1>0, <2>1, AuditAssumptions DEF Owned, Owner
    <3> QED BY Zenon, <2>1, <2>3, <3>1, <3>2 DEF Unwritten, Busy
  <2> QED BY Zenon, <2>1, <2>2, <2>3
<1>4. ASSUME NEW p \in Processes, _link_to_chain_head(p) \/ save_retry(p)
      PROVE  Stays
  <2>1. /\ Busy(p) /\ queue' = queue /\ stage' = stage /\ faults' = faults
        /\ \A q \in Processes : /\ call'[q].entry = call[q].entry
                                /\ q # p => call'[q] = call[q]
    BY <1>4 DEF _link_to_chain_head, save_retry, InsertFails, Busy, TypeOK, CallType
  <2>2. \A q \in Processes : Busy(q)' => Busy(q)
    BY Zenon, <2>1 DEF Busy
  <2> QED BY Zenon, <2>1, <2>2 DEF Unwritten
<1>5. ASSUME NEW p \in Processes, save(p) \/ AuditLogChainContentionError(p)
      PROVE  Stays
  <2>1. /\ Busy(p) /\ Returned(p) /\ queue' = queue /\ faults' = faults
        /\ stage' = stage \/ stage' = [stage EXCEPT ![call[p].entry] = "lost"]
    BY Zenon, <1>5 DEF save, AuditLogChainContentionError, InsertFails, Busy
  <2>2. CASE e = call[p].entry
    BY Zenon, <2>1, <2>2 DEF Unwritten
  <2>3. CASE e # call[p].entry
    <3>1. stage'[e] = "new" => stage[e] = "new"
      BY Zenon, <2>1 DEF TypeOK
    <3>2. \A d \in Entries : stage[d] # "new" => stage'[d] # "new"
      BY Zenon, <2>1 DEF TypeOK
    <3>3. PICK c : Takes(p, c) /\ c.pc \in {"idle", "ack"}
      BY Zenon, <2>1, <3>2, EndOfCall
    <3>4. call'[p] = c /\ \A q \in Processes \ {p} : call'[q] = call[q]
      BY Zenon, <3>3 DEF Takes, TypeOK
    <3>5. ~Busy(p)'
      BY Zenon, <3>3, <3>4 DEF Busy
    <3> QED BY Zenon, <2>1, <2>3, <3>1, <3>4, <3>5 DEF Unwritten, Busy
  <2> QED BY Zenon, <2>1, <2>2, <2>3
<1>6. ASSUME NEW w \in Processes, task_ack(w)
      PROVE  Stays
  <2>1. /\ queue' = queue \ {call[w].entry} /\ stage' = stage /\ call' = [call EXCEPT ![w] = Idle]
        /\ call[w].pc = "ack" /\ faults' = faults
    BY Zenon, <1>6 DEF task_ack
  <2>2. /\ call'[w].pc = "idle" /\ call'[w].entry = NoEntry
        /\ \A q \in Processes \ {w} : call'[q] = call[q]
    BY Zenon, <2>1 DEF TypeOK, Idle
  <2>3. \A q \in Processes : Busy(q)' => Busy(q) /\ call'[q] = call[q]
    BY Zenon, <2>2 DEF Busy
  <2>4. ASSUME e \in queue', \A q \in Processes : call'[q].entry # e
        PROVE  e \in queue /\ \A q \in Processes : call[q].entry # e
    BY Zenon, <2>1, <2>2, <2>4
  <2> QED BY Zenon, <2>1, <2>3, <2>4 DEF Unwritten
<1>7. ASSUME UNCHANGED <<queue, stage, call, faults>>
      PROVE  Stays
  BY Zenon, <1>7 DEF Unwritten, Busy
<1>8. ASSUME NEW p \in Processes, commit(p) \/ rollback(p)
      PROVE  Stays
  BY Zenon, <1>7, <1>8 DEF commit, rollback
<1>9. ASSUME NEW u \in Users, delete_user(u)
      PROVE  Stays
  BY Zenon, <1>7, <1>9 DEF delete_user
<1>10. ASSUME NEW p \in Processes, database_error(p) \/ process_killed(p)
       PROVE  faults' = faults + 1
  BY Zenon, <1>10 DEF database_error, process_killed
<1> HIDE DEF Stays
<1>11. faults' = faults + 1 \/ Stays
  BY Zenon, <1>1, <1>2, <1>3, <1>4, <1>5, <1>6, <1>8, <1>9, <1>10 DEF Next, Step, TransactionEnds
<1> QED BY Zenon, <1>11 DEF Stays
(* Rows leave the positions of the entry e where they are, or give some up. *)
LEMMA SlotsShrink ==
    ASSUME ChainInv, NEW e,
           \/ Kept
           \/ \E p \in Processes : Discarded(p) \/ Committed(p)
           \/ \E u \in Users : Nulled(u)
    PROVE  Slots(e)' \subseteq Slots(e)
<1>1. ASSUME NEW r \in AllRows', r.entry = e
      PROVE  \E q \in AllRows : q.entry = e /\ q.chain_index = r.chain_index
  <2>1. CASE Kept
    BY Zenon, <1>1, <2>1 DEF Kept, AllRows
  <2>2. ASSUME NEW p \in Processes, Discarded(p) \/ Committed(p)
        PROVE  r \in AllRows
    <3>1. \A o \in Processes : pending'[o] \subseteq pending[o]
      BY Zenon, <2>2 DEF Discarded, Committed, ChainInv, Domains
    <3> QED BY Zenon, <1>1, <2>2, <3>1 DEF Discarded, Committed, AllRows
  <2>3. ASSUME NEW u \in Users, Nulled(u)
        PROVE  \E q \in AllRows : q.entry = e /\ q.chain_index = r.chain_index
    <3>1. CASE r \in table'
      <4>1. PICK q \in table : r = IF q.user_id = u THEN SetNull(q) ELSE q
        BY Zenon, <2>3, <3>1 DEF Nulled
      <4>2. q.entry = r.entry /\ q.chain_index = r.chain_index
        BY Zenon, <4>1 DEF SetNull
      <4> QED BY Zenon, <1>1, <4>2 DEF AllRows
    <3>2. CASE r \notin table'
      BY Zenon, <1>1, <2>3, <3>2 DEF Nulled, AllRows
    <3> QED BY Zenon, <3>1, <3>2
  <2> QED BY Zenon, <1>1, <2>1, <2>2, <2>3
<1> QED BY Zenon, <1>1 DEF Slots

(* An insert gives one position more, to the entry of its call. *)
LEMMA SlotsGrow ==
    ASSUME ChainInv, NEW p \in Processes, Inserted(p), NEW e
    PROVE  /\ Slots(e)' \subseteq Slots(e) \cup {NewRow(p).chain_index}
           /\ e # call[p].entry => Slots(e)' \subseteq Slots(e)
<1>1. \A o \in Processes : pending'[o] \subseteq pending[o] \cup {NewRow(p)}
  BY Zenon DEF Inserted, ChainInv, Domains
<1>2. \A r \in AllRows' : r \in AllRows \/ r = NewRow(p)
  BY Zenon, <1>1 DEF Inserted, AllRows
<1>3. NewRow(p).entry = call[p].entry
  BY Zenon, NewRowType DEF Inserted
<1> QED BY Zenon, <1>2, <1>3 DEF Slots

(* A position is only ever given to an entry that was still to be written,   *)
(* and it is not to be written after that without a fault.                   *)
LEMMA SlotsStep ==
    ASSUME ChainInv, Owned, Next, NEW e \in Entries
    PROVE  \/ Slots(e)' \subseteq Slots(e)
           \/ /\ Unwritten(e) /\ \E i : Slots(e)' \subseteq Slots(e) \cup {i}
              /\ faults' = faults + 1 \/ ~Unwritten(e)'
<1>1. ASSUME NEW p \in Processes, Inserted(p), save(p) \/ database_error(p), e = call[p].entry
      PROVE  /\ Unwritten(e) /\ \E i : Slots(e)' \subseteq Slots(e) \cup {i}
             /\ faults' = faults + 1 \/ ~Unwritten(e)'
  <2>1. Unwritten(e)
    BY Zenon, <1>1 DEF Inserted, Unwritten, Busy
  <2>2. Slots(e)' \subseteq Slots(e) \cup {NewRow(p).chain_index}
    BY Zenon, <1>1, SlotsGrow
  <2>3. faults' = faults + 1 \/ ~Unwritten(e)'
    BY Zenon, <1>1, SaveIsLast DEF database_error
  <2> QED BY Zenon, <2>1, <2>2, <2>3
<1>2. ASSUME NEW p \in Processes, Inserted(p), e # call[p].entry
      PROVE  Slots(e)' \subseteq Slots(e)
  BY Zenon, <1>2, SlotsGrow
<1> QED BY Zenon, <1>1, <1>2, RowEffects, SlotsShrink

(* So every copy but one has its fault. *)
LEMMA PaidStep ==
    ASSUME ChainInv, Owned, Next, NEW e \in Entries, Paid(e)
    PROVE  Paid(e)'
<1>1. faults \in Nat
  BY DEF ChainInv, TypeOK
<1>2. IsFiniteSet(Slots(e)) /\ Cardinality(Slots(e)) \in Nat
  BY Zenon, FS_CardinalityType DEF Paid
<1>3. CASE Slots(e)' \subseteq Slots(e)
  <2>1. IsFiniteSet(Slots(e)') /\ Cardinality(Slots(e)') <= Cardinality(Slots(e))
    BY Zenon, <1>2, <1>3, FS_Subset
  <2>2. Cardinality(Slots(e)') \in Nat
    BY Zenon, <2>1, FS_CardinalityType
  <2>3. Cardinality(Slots(e)') <= 1 + faults' /\ (Unwritten(e)' => Cardinality(Slots(e)') <= faults')
    BY <1>1, <1>2, <2>1, <2>2, TurnStep DEF Paid
  <2> QED BY Zenon, <2>1, <2>3 DEF Paid
<1>4. ASSUME NEW i, Unwritten(e), Slots(e)' \subseteq Slots(e) \cup {i}
      PROVE  IsFiniteSet(Slots(e)') /\ Cardinality(Slots(e)') <= 1 + faults
  <2>1. /\ IsFiniteSet(Slots(e) \cup {i})
        /\ Cardinality(Slots(e) \cup {i}) = IF i \in Slots(e) THEN Cardinality(Slots(e))
                                                              ELSE Cardinality(Slots(e)) + 1
    BY Zenon, <1>2, FS_AddElement
  <2>2. IsFiniteSet(Slots(e)') /\ Cardinality(Slots(e)') <= Cardinality(Slots(e) \cup {i})
    BY Zenon, <1>4, <2>1, FS_Subset
  <2>3. Cardinality(Slots(e)') \in Nat
    BY Zenon, <2>2, FS_CardinalityType
  <2> QED BY <1>1, <1>2, <1>4, <2>1, <2>2, <2>3 DEF Paid
<1>5. CASE ~(Slots(e)' \subseteq Slots(e))
  <2>1. /\ IsFiniteSet(Slots(e)') /\ Cardinality(Slots(e)') <= 1 + faults
        /\ faults' = faults + 1 \/ ~Unwritten(e)'
    BY Zenon, <1>4, <1>5, SlotsStep
  <2>2. Cardinality(Slots(e)') \in Nat
    BY Zenon, <2>1, FS_CardinalityType
  <2>3. Cardinality(Slots(e)') <= 1 + faults' /\ (Unwritten(e)' => Cardinality(Slots(e)') <= faults')
    BY <1>1, <2>1, <2>2, TurnStep
  <2> QED BY Zenon, <2>1, <2>3 DEF Paid
<1> QED BY Zenon, <1>3, <1>5
(* Nothing is logged and nothing written at first. *)
LEMMA CopiesInitially == Init => CopiesInv
<1> SUFFICES ASSUME Init PROVE CopiesInv
  BY Zenon
<1>1. Owned
  BY Zenon DEF Init, Owned, Owner, Idle
<1>2. ASSUME NEW e \in Entries PROVE Paid(e)
  <2>1. Slots(e) = {}
    BY Zenon DEF Init, Slots, AllRows
  <2>2. IsFiniteSet(Slots(e)) /\ Cardinality(Slots(e)) = 0
    BY Zenon, <2>1, FS_EmptySet
  <2> QED BY <2>2 DEF Init, Paid
<1> QED BY Zenon, <1>1, <1>2, InitInv DEF CopiesInv

(* The invariant survives every step. *)
LEMMA CopiesStep == CopiesInv /\ [Next]_vars => CopiesInv'
<1> SUFFICES ASSUME CopiesInv, [Next]_vars PROVE CopiesInv'
  BY Zenon
<1>1. CASE Next
  BY Zenon, <1>1, NextInv, OwnedStep, PaidStep DEF CopiesInv, Inv
<1>2. CASE UNCHANGED vars
  <2>1. Owned'
    BY Zenon, <1>2 DEF vars, CopiesInv, Owned, Owner, Busy
  <2>2. ASSUME NEW e \in Entries PROVE Paid(e)'
    BY Zenon, <1>2 DEF vars, CopiesInv, Paid, Slots, AllRows, Unwritten, Busy
  <2> QED BY Zenon, <1>2, <2>1, <2>2, NextInv DEF CopiesInv
<1> QED BY Zenon, <1>1, <1>2

(* An entry is in the hands of one process at a time, and has a fault for     *)
(* every position given to it, but for the one after which it is not written  *)
(* again.  (create_audit_log_task: acks_late, reject_on_worker_lost)          *)
THEOREM CopiesInvariance == Spec => []CopiesInv
BY CopiesInitially, CopiesStep, PTL DEF Spec

(* Every record of an entry beyond the first was paid for by a killed process *)
(* or a database error: races, retries and redelivery alone duplicate nothing. *)
(* (create_audit_log_task, AuditLog.save)                                      *)
THEOREM DuplicatesAlwaysCost == Spec => []DuplicatesCostFaults
<1>1. CopiesInv => DuplicatesCostFaults
  <2> SUFFICES ASSUME CopiesInv, NEW e \in Entries
               PROVE  Cardinality({r \in table : r.entry = e}) <= 1 + faults
    BY Zenon DEF DuplicatesCostFaults
  <2> DEFINE rows == {r \in table : r.entry = e}
             positions == {r.chain_index : r \in rows}
             at == [i \in positions |-> CHOOSE r \in rows : r.chain_index = i]
  <2>1. \A q, r \in rows : q.chain_index = r.chain_index => q = r
    BY Zenon DEF CopiesInv, Inv, ChainInv, Unique, AllRows
  <2>2. \A r \in rows : r.chain_index \in positions /\ at[r.chain_index] = r
    <3> TAKE r \in rows
    <3>1. r.chain_index \in positions
      BY Zenon
    <3>2. (CHOOSE q \in rows : q.chain_index = r.chain_index) = r
      BY Zenon, <2>1
    <3> QED BY Zenon, <3>1, <3>2
  <2>3. \A i \in positions : at[i] \in rows
    BY Zenon, <2>2
  <2>4. at \in Surjection(positions, rows)
    <3>1. at \in [positions -> rows]
      BY Zenon, <2>3
    <3> QED BY Zenon, <2>2, <3>1 DEF Surjection
  <2> HIDE DEF at
  <2>5. positions \subseteq Slots(e)
    BY Zenon DEF Slots, AllRows
  <2>6. IsFiniteSet(Slots(e)) /\ Cardinality(Slots(e)) <= 1 + faults
    BY Zenon DEF CopiesInv, Paid
  <2>7. IsFiniteSet(positions) /\ Cardinality(positions) <= Cardinality(Slots(e))
    BY Zenon, <2>5, <2>6, FS_Subset
  <2>8. IsFiniteSet(rows) /\ Cardinality(rows) <= Cardinality(positions)
    BY Zenon, <2>4, <2>7, FS_Surjection
  <2>9. Cardinality(Slots(e)) \in Nat /\ Cardinality(positions) \in Nat /\ Cardinality(rows) \in Nat
    BY Zenon, <2>6, <2>7, <2>8, FS_CardinalityType
  <2>10. faults \in Nat
    BY DEF CopiesInv, Inv, ChainInv, TypeOK
  <2> HIDE DEF rows, positions
  <2>11. Cardinality(rows) <= 1 + faults
    BY <2>6, <2>7, <2>8, <2>9, <2>10
  <2> QED BY Zenon, <2>11 DEF rows
<1> QED BY <1>1, CopiesInvariance, PTL
=============================================================================
