------------------------- MODULE InvalidationOutbox -------------------------
(* The outbox of cache invalidation events (apps/core/tasks.py): the Celery *)
(* task that claims an event, calls the frontend and saves the outcome from *)
(* its own copy of the row, the sweeper that queues due events again, and   *)
(* the operator's actions (apps/core/admin.py). Messages are acknowledged   *)
(* late: a worker that dies gives its message back. The task retries itself *)
(* a bounded number of times on a failed call.                              *)
EXTENDS Naturals

CONSTANTS
    Events, Workers, NoEvent,
    CACHE_INVALIDATION_MAX_ATTEMPTS,
    MaxRetries,     \* max_retries of the task
    MaxCopies,      \* bound: messages for one event and retry number
    MaxFaults,      \* bound: workers that die, tasks that a database error or a limit ends
    MaxOperator     \* bound: operator actions

ASSUME OutboxBounds ==
    /\ CACHE_INVALIDATION_MAX_ATTEMPTS \in Nat \ {0} /\ MaxRetries \in Nat
    /\ MaxCopies \in Nat \ {0} /\ MaxFaults \in Nat /\ MaxOperator \in Nat

VARIABLES
    event_status, event_attempts,   \* the rows; "none" before the event exists
    messages,           \* how many messages wait per event and retry number
    t_pc, t_event, t_retry, t_attempts,
    settled,            \* events of which a task's call has ended normally
    unsaved,            \* events whose task was aborted while they were "processing"
    faults, actions

rowVars == <<event_status, event_attempts>>
workerVars == <<t_pc, t_event, t_retry, t_attempts>>
histories == <<settled, unsaved>>
outboxVars == <<rowVars, messages, workerVars, histories, faults, actions>>

Retries == 0..MaxRetries
Terminal == {"succeeded", "dead"}

OutboxInit ==
    /\ event_status = [e \in Events |-> "none"]
    /\ event_attempts = [e \in Events |-> 0]
    /\ messages = [e \in Events |-> [n \in Retries |-> 0]]
    /\ t_pc = [w \in Workers |-> "idle"]
    /\ t_event = [w \in Workers |-> NoEvent]
    /\ t_retry = [w \in Workers |-> 0]
    /\ t_attempts = [w \in Workers |-> 0]
    /\ settled = {} /\ unsaved = {}
    /\ faults = 0 /\ actions = 0

With(e, n) == [messages EXCEPT ![e][n] = @ + 1]
HasRoom(e, n) == messages[e][n] < MaxCopies

-----------------------------------------------------------------------------
\* The row is created; handing the task to the broker may fail, which is only
\* logged.
enqueue_cache_invalidation_event(e) ==
    /\ event_status[e] = "none"
    /\ event_status' = [event_status EXCEPT ![e] = "pending"]
    /\ messages' \in {messages, With(e, 0)}
    /\ UNCHANGED <<event_attempts, workerVars, histories, faults, actions>>

\* The worker takes a message and reads the row.
LoadEvent(w, e, n) ==
    /\ t_pc[w] = "idle" /\ messages[e][n] > 0
    /\ messages' = [messages EXCEPT ![e][n] = @ - 1]
    /\ t_pc' = [t_pc EXCEPT ![w] = IF event_status[e] \in Terminal THEN "idle" ELSE "loaded"]
    /\ t_event' = [t_event EXCEPT ![w] = IF event_status[e] \in Terminal THEN NoEvent ELSE e]
    /\ t_retry' = [t_retry EXCEPT ![w] = IF event_status[e] \in Terminal THEN 0 ELSE n]
    /\ t_attempts' = [t_attempts EXCEPT ![w] = IF event_status[e] \in Terminal THEN 0 ELSE event_attempts[e]]
    /\ UNCHANGED <<rowVars, histories, faults, actions>>

Finish(w) ==
    /\ t_pc' = [t_pc EXCEPT ![w] = "idle"]
    /\ t_event' = [t_event EXCEPT ![w] = NoEvent]
    /\ t_retry' = [t_retry EXCEPT ![w] = 0]
    /\ t_attempts' = [t_attempts EXCEPT ![w] = 0]

MoveToDeadLetter(w) ==
    /\ t_pc[w] = "loaded" /\ t_attempts[w] >= CACHE_INVALIDATION_MAX_ATTEMPTS
    /\ event_status' = [event_status EXCEPT ![t_event[w]] = "dead"]
    /\ Finish(w)
    /\ UNCHANGED <<event_attempts, messages, histories, faults, actions>>

\* The count is written from the copy that was read.
ClaimEvent(w) ==
    /\ t_pc[w] = "loaded" /\ t_attempts[w] < CACHE_INVALIDATION_MAX_ATTEMPTS
    /\ event_status' = [event_status EXCEPT ![t_event[w]] = "processing"]
    /\ event_attempts' = [event_attempts EXCEPT ![t_event[w]] = t_attempts[w] + 1]
    /\ t_attempts' = [t_attempts EXCEPT ![w] = @ + 1]
    /\ t_pc' = [t_pc EXCEPT ![w] = "calling"]
    /\ UNCHANGED <<messages, t_event, t_retry, histories, faults, actions>>

\* The call ends normally with an answer below 500 (a refusal, 4xx, included), and
\* without a call when revalidation is off, has no address or secret, or the event
\* names no tag and no path.
CallEnds(w) ==
    /\ t_pc[w] = "calling"
    /\ settled' = settled \cup {t_event[w]}
    /\ t_pc' = [t_pc EXCEPT ![w] = "answered"]
    /\ UNCHANGED <<rowVars, messages, t_event, t_retry, t_attempts, unsaved, faults, actions>>

CallFails(w) ==
    /\ t_pc[w] = "calling"
    /\ t_pc' = [t_pc EXCEPT ![w] = "failed"]
    /\ UNCHANGED <<rowVars, messages, t_event, t_retry, t_attempts, histories, faults, actions>>

revalidate_frontend_task(w) == CallEnds(w) \/ CallFails(w)

SaveSucceeded(w) ==
    /\ t_pc[w] = "answered"
    /\ event_status' = [event_status EXCEPT ![t_event[w]] = "succeeded"]
    /\ Finish(w)
    /\ UNCHANGED <<event_attempts, messages, histories, faults, actions>>

\* Mutant: the outcome of a failed call is not told from that of a good one.
SaveFailureAsSuccess(w) ==
    /\ t_pc[w] = "failed"
    /\ event_status' = [event_status EXCEPT ![t_event[w]] = "succeeded"]
    /\ Finish(w)
    /\ UNCHANGED <<event_attempts, messages, histories, faults, actions>>

\* The status is saved (the count is not), and the error makes Celery queue the task
\* again while it has retries left, if the broker takes the message.
SaveFailure(w) ==
    LET e == t_event[w]
        retry == t_retry[w] + 1 IN
    /\ t_pc[w] = "failed"
    /\ retry <= MaxRetries => HasRoom(e, retry)
    /\ event_status' = [event_status EXCEPT ![e] =
                    IF t_attempts[w] >= CACHE_INVALIDATION_MAX_ATTEMPTS THEN "dead" ELSE "failed"]
    /\ messages' \in {messages} \cup (IF retry <= MaxRetries THEN {With(e, retry)} ELSE {})
    /\ Finish(w)
    /\ UNCHANGED <<event_attempts, histories, faults, actions>>

\* acks_late and reject_on_worker_lost: the message is delivered again.
WorkerDies(w) ==
    /\ t_pc[w] # "idle" /\ faults < MaxFaults /\ HasRoom(t_event[w], t_retry[w])
    /\ messages' = With(t_event[w], t_retry[w])
    /\ faults' = faults + 1
    /\ Finish(w)
    /\ UNCHANGED <<rowVars, histories, actions>>

\* An error of the database at any query, or a time limit: the task fails, Celery
\* retries it for errors of the call only, and its message counts as handled.
TaskAborts(w) ==
    /\ t_pc[w] # "idle" /\ faults < MaxFaults
    /\ unsaved' = IF event_status[t_event[w]] = "processing" THEN unsaved \cup {t_event[w]}
                  ELSE unsaved
    /\ faults' = faults + 1
    /\ Finish(w)
    /\ UNCHANGED <<rowVars, messages, settled, actions>>

process_cache_invalidation_event_task(w) ==
    \/ \E e \in Events, n \in Retries : LoadEvent(w, e, n)
    \/ MoveToDeadLetter(w) \/ ClaimEvent(w) \/ revalidate_frontend_task(w)
    \/ SaveSucceeded(w) \/ SaveFailure(w)

-----------------------------------------------------------------------------
\* Mutant: only failed events are queued again.
SweepFailedOnly(e) ==
    /\ event_status[e] = "failed"
    /\ event_attempts[e] < CACHE_INVALIDATION_MAX_ATTEMPTS /\ HasRoom(e, 0)
    /\ messages' = With(e, 0)
    /\ UNCHANGED <<rowVars, workerVars, histories, faults, actions>>

\* The sweeper queues a due event that has attempts left. (A failed one falls
\* due when its delay has passed.)
process_pending_cache_invalidation_events_task(e) ==
    /\ event_status[e] \in {"pending", "failed"}
    /\ event_attempts[e] < CACHE_INVALIDATION_MAX_ATTEMPTS /\ HasRoom(e, 0)
    /\ messages' = With(e, 0)
    /\ UNCHANGED <<rowVars, workerVars, histories, faults, actions>>

(* The operator.                                                            *)

OperatorActs == actions < MaxOperator /\ actions' = actions + 1

retry_selected_events(e) ==
    /\ OperatorActs /\ event_status[e] \notin {"none", "succeeded"} /\ HasRoom(e, 0)
    /\ event_status' = [event_status EXCEPT ![e] = "pending"]
    /\ messages' = With(e, 0)
    /\ UNCHANGED <<event_attempts, workerVars, histories, faults>>

mark_selected_as_dead(e) ==
    /\ OperatorActs /\ event_status[e] \notin {"none", "succeeded"}
    /\ event_status' = [event_status EXCEPT ![e] = "dead"]
    /\ UNCHANGED <<event_attempts, messages, workerVars, histories, faults>>

mark_selected_as_pending(e) ==
    /\ OperatorActs /\ event_status[e] \in {"failed", "dead"}
    /\ event_status' = [event_status EXCEPT ![e] = "pending"]
    /\ UNCHANGED <<event_attempts, messages, workerVars, histories, faults>>

-----------------------------------------------------------------------------
OutboxNext ==
    \/ \E w \in Workers : process_cache_invalidation_event_task(w) \/ WorkerDies(w) \/ TaskAborts(w)
    \/ \E e \in Events :
        \/ enqueue_cache_invalidation_event(e)
        \/ process_pending_cache_invalidation_events_task(e)
        \/ retry_selected_events(e) \/ mark_selected_as_dead(e) \/ mark_selected_as_pending(e)

\* Workers run the tasks they have and take waiting messages; Celery beat runs
\* the sweeper every minute.
OutboxFairness ==
    /\ WF_outboxVars(\E w \in Workers : process_cache_invalidation_event_task(w))
    /\ SF_outboxVars(\E w \in Workers, e \in Events, n \in Retries : LoadEvent(w, e, n))
    /\ WF_outboxVars(\E e \in Events : process_pending_cache_invalidation_events_task(e))

OutboxSpec == OutboxInit /\ [][OutboxNext]_outboxVars /\ OutboxFairness

-----------------------------------------------------------------------------
OutboxTypeOK ==
    /\ event_status \in [Events -> {"none", "pending", "processing", "succeeded", "failed", "dead"}]
    /\ event_attempts \in [Events -> 0..CACHE_INVALIDATION_MAX_ATTEMPTS]
    /\ messages \in [Events -> [Retries -> 0..MaxCopies]]
    /\ t_pc \in [Workers -> {"idle", "loaded", "calling", "answered", "failed"}]
    /\ t_event \in [Workers -> Events \cup {NoEvent}] /\ t_retry \in [Workers -> Retries]
    /\ t_attempts \in [Workers -> 0..CACHE_INVALIDATION_MAX_ATTEMPTS]
    /\ settled \subseteq Events /\ unsaved \subseteq Events

\* An event is saved as succeeded only after a task of it has had an answer from the
\* frontend, or has found that there was nothing to call, whatever tasks for the same
\* event overlap, die and are delivered again (process_cache_invalidation_event_task).
SucceededWasSettled ==
    \A e \in Events : event_status[e] = "succeeded" => e \in settled

\* No event is forgotten: once its row exists it is settled, given up, or has used its
\* attempts up, though the broker may refuse its messages and workers may die at any
\* step; unless a task of it was aborted while the row said "processing", a status the
\* sweeper does not look for (tasks.py, acks_late and the sweeper).
NoEventForgotten ==
    \A e \in Events :
        event_status[e] # "none" ~>
            \/ event_status[e] \in Terminal
            \/ event_attempts[e] = CACHE_INVALIDATION_MAX_ATTEMPTS
            \/ e \in unsaved

\* Not kept: "succeeded" and "dead" are terminal (process_cache_invalidation_event_task
\* returns early for them). A task that loaded the row before saves its own outcome
\* over them.
OutcomesAreFinal ==
    [][\A w \in Workers : \A e \in Events :
        process_cache_invalidation_event_task(w) /\ event_status[e] \in Terminal =>
            event_status'[e] = event_status[e]]_outboxVars

\* Not kept: "Queue selected non-succeeded events for immediate retry" (admin.py), so
\* that an event put back is called before it is given up. Its attempts are kept, and
\* when they are used up the task gives it up at once.
RetriedBeforeGivenUp ==
    [][\A w \in Workers : MoveToDeadLetter(w) => event_status[t_event[w]] # "pending"]_outboxVars
=============================================================================
