------------------------ MODULE NotificationDispatch ------------------------
(* One notification event and its deliveries (apps/notifications): creation *)
(* inside the caller's transaction, the hand-over to Celery after commit or *)
(* the dispatch in the request when the broker is down, the three phases of *)
(* dispatch_event with the providers called outside any transaction, and    *)
(* the user reading. Celery redelivers the message of a lost worker; a      *)
(* dispatch that raises, or a web process that dies, is not made up for.    *)
EXTENDS Naturals, FiniteSets

CONSTANTS
    Channels,       \* one delivery per channel of the recipient
    Dispatchers,    \* the web process and the Celery workers
    Web,            \* the web process
    MaxLosses       \* bound: workers, acknowledgements and confirmations lost

ASSUME DispatchAssumption ==
    Web \in Dispatchers /\ IsFiniteSet(Dispatchers) /\ MaxLosses \in Nat

NotificationEventStatus == {"none", "pending", "processing", "sent", "partial", "failed"}
NotificationDeliveryStatus == {"none", "pending", "sent", "failed", "read"}

VARIABLES
    notice,         \* NotificationEvent.status; "none" before the commit
    delivery,       \* NotificationDelivery.status
    waiting,        \* messages of the task that wait for a worker
    d_pc, d_pending, d_todo, d_sent, d_failed,
    muted,          \* channels the recipient has switched off
    sends,          \* how often a provider has accepted each delivery
    losses,
    dropped         \* a dispatch has ended early, with no message left for it

processVars == <<d_pc, d_pending, d_todo, d_sent, d_failed>>
noticeVars == <<notice, delivery, waiting, processVars, muted, sends, losses, dropped>>

NoticeInit ==
    /\ notice = "none" /\ delivery = [c \in Channels |-> "none"] /\ waiting = 0
    /\ d_pc = [d \in Dispatchers |-> IF d = Web THEN "request" ELSE "idle"]
    /\ d_pending = [d \in Dispatchers |-> {}] /\ d_todo = [d \in Dispatchers |-> {}]
    /\ d_sent = [d \in Dispatchers |-> {}] /\ d_failed = [d \in Dispatchers |-> {}]
    /\ muted \in SUBSET Channels
    /\ sends = [c \in Channels |-> 0] /\ losses = 0 /\ dropped = FALSE

Loses == losses < MaxLosses /\ losses' = losses + 1

-----------------------------------------------------------------------------
\* The event and its deliveries appear together, when the caller commits.
create_notification_event ==
    /\ d_pc[Web] = "request"
    /\ notice' = "pending"
    /\ delivery' = [c \in Channels |-> IF c \in muted THEN "none" ELSE "pending"]
    /\ d_pc' = [d_pc EXCEPT ![Web] = "committed"]
    /\ UNCHANGED <<waiting, d_pending, d_todo, d_sent, d_failed, muted, sends, losses, dropped>>

\* Mutant: no return after the hand-over, so the request dispatches as well.
EmitFallsThrough ==
    /\ d_pc[Web] = "committed"
    /\ waiting' \in {waiting, waiting + 1}
    /\ d_pc' = [d_pc EXCEPT ![Web] = "dispatch"]
    /\ UNCHANGED <<notice, delivery, d_pending, d_todo, d_sent, d_failed, muted, sends, losses,
                   dropped>>

\* on_commit: hand over to the broker, or dispatch here when it refuses; it may have
\* taken the message and only its confirmation been lost.
emit_domain_notification ==
    /\ d_pc[Web] = "committed"
    /\ \/ /\ waiting' = waiting + 1 /\ d_pc' = [d_pc EXCEPT ![Web] = "idle"]
          /\ UNCHANGED losses
       \/ /\ d_pc' = [d_pc EXCEPT ![Web] = "dispatch"]
          /\ UNCHANGED waiting /\ UNCHANGED losses
       \/ /\ d_pc' = [d_pc EXCEPT ![Web] = "dispatch"]
          /\ waiting' = waiting + 1 /\ Loses
    /\ UNCHANGED <<notice, delivery, d_pending, d_todo, d_sent, d_failed, muted, sends, dropped>>

\* acks_late: the message is the worker's until the task has ended.
dispatch_notification_event_task(d) ==
    /\ d # Web /\ d_pc[d] = "idle" /\ waiting > 0
    /\ waiting' = waiting - 1
    /\ d_pc' = [d_pc EXCEPT ![d] = "dispatch"]
    /\ UNCHANGED <<notice, delivery, d_pending, d_todo, d_sent, d_failed, muted, sends, losses,
                   dropped>>

MarkProcessing(d) ==
    /\ d_pc[d] = "dispatch"
    /\ notice' = "processing"
    /\ d_pc' = [d_pc EXCEPT ![d] = "select"]
    /\ UNCHANGED <<delivery, waiting, d_pending, d_todo, d_sent, d_failed, muted, sends, losses,
                   dropped>>

SelectPending(d) ==
    /\ d_pc[d] = "select"
    /\ LET pending == {c \in Channels : delivery[c] = "pending"} IN
        /\ d_pending' = [d_pending EXCEPT ![d] = pending]
        /\ d_todo' = [d_todo EXCEPT ![d] = pending]
    /\ d_pc' = [d_pc EXCEPT ![d] = "send"]
    /\ UNCHANGED <<notice, delivery, waiting, d_sent, d_failed, muted, sends, losses, dropped>>

\* The provider's answer; an exception of the provider is a failure.
_send_delivery(d, c) ==
    /\ d_pc[d] = "send" /\ c \in d_todo[d]
    /\ d_todo' = [d_todo EXCEPT ![d] = @ \ {c}]
    /\ \/ /\ sends' = [sends EXCEPT ![c] = @ + 1]
          /\ d_sent' = [d_sent EXCEPT ![d] = @ \cup {c}]
          /\ UNCHANGED d_failed
       \/ d_failed' = [d_failed EXCEPT ![d] = @ \cup {c}] /\ UNCHANGED <<sends, d_sent>>
    /\ UNCHANGED <<notice, delivery, waiting, d_pc, d_pending, muted, losses, dropped>>

\* The task acknowledges its message as it ends; if that is lost, it is delivered again.
Acknowledge(d) ==
    \/ UNCHANGED <<waiting, losses>>
    \/ d # Web /\ Loses /\ waiting' = waiting + 1

Forget(d) ==
    /\ d_pc' = [d_pc EXCEPT ![d] = "idle"]
    /\ d_pending' = [d_pending EXCEPT ![d] = {}] /\ d_todo' = [d_todo EXCEPT ![d] = {}]
    /\ d_sent' = [d_sent EXCEPT ![d] = {}] /\ d_failed' = [d_failed EXCEPT ![d] = {}]

\* bulk_update of the deliveries it selected, whatever has become of them.
SaveResults(d) ==
    /\ d_pc[d] = "send" /\ d_todo[d] = {}
    /\ delivery' = [c \in Channels |-> CASE c \in d_sent[d] -> "sent"
                                         [] c \in d_failed[d] -> "failed"
                                         [] OTHER -> delivery[c]]
    /\ notice' = IF d_failed[d] = {} THEN "sent" ELSE IF d_sent[d] # {} THEN "partial" ELSE "failed"
    /\ Acknowledge(d) /\ Forget(d)
    /\ UNCHANGED <<muted, sends, dropped>>

dispatch_event(d) ==
    \/ MarkProcessing(d) \/ SelectPending(d) \/ SaveResults(d)
    \/ \E c \in Channels : _send_delivery(d, c)

\* Mutant: the message is acknowledged before the task runs, and lost with the worker.
LostWithItsMessage(d) ==
    /\ d # Web /\ d_pc[d] # "idle" /\ Loses
    /\ Forget(d)
    /\ UNCHANGED <<notice, delivery, waiting, muted, sends, dropped>>

\* A worker is lost; its message is redelivered.
WorkerLost(d) ==
    /\ d # Web /\ d_pc[d] # "idle" /\ Loses
    /\ waiting' = waiting + 1
    /\ Forget(d)
    /\ UNCHANGED <<notice, delivery, muted, sends, dropped>>

\* An exception of the database, which a request logs and which ends a task for good
\* (so does a time limit); or the web process dies after the commit.
DispatchAborted(d) ==
    /\ d_pc[d] \in {"committed", "dispatch", "select", "send"}
    /\ dropped' = TRUE
    /\ Forget(d)
    /\ UNCHANGED <<notice, delivery, waiting, muted, sends, losses>>

mark_delivery_read(c) ==
    /\ delivery[c] # "none"
    /\ delivery' = [delivery EXCEPT ![c] = "read"]
    /\ UNCHANGED <<notice, waiting, processVars, muted, sends, losses, dropped>>

mark_all_read ==
    /\ notice # "none"
    /\ delivery' = [c \in Channels |-> IF delivery[c] = "none" THEN "none" ELSE "read"]
    /\ UNCHANGED <<notice, waiting, processVars, muted, sends, losses, dropped>>

set_preference(c) ==
    /\ muted' = IF c \in muted THEN muted \ {c} ELSE muted \cup {c}
    /\ UNCHANGED <<notice, delivery, waiting, processVars, sends, losses, dropped>>

NoticeNext ==
    \/ create_notification_event \/ emit_domain_notification \/ mark_all_read
    \/ \E d \in Dispatchers :
        \/ dispatch_notification_event_task(d) \/ dispatch_event(d)
        \/ WorkerLost(d) \/ DispatchAborted(d)
    \/ \E c \in Channels : mark_delivery_read(c) \/ set_preference(c)

\* The request goes on, Celery delivers its messages, and a dispatch ends.
NoticeProgress ==
    \/ create_notification_event \/ emit_domain_notification
    \/ \E d \in Dispatchers : dispatch_event(d) \/ dispatch_notification_event_task(d)

NoticeSpec == NoticeInit /\ [][NoticeNext]_noticeVars /\ WF_noticeVars(NoticeProgress)

-----------------------------------------------------------------------------
NoticeTypeOK ==
    /\ notice \in NotificationEventStatus
    /\ delivery \in [Channels -> NotificationDeliveryStatus] /\ waiting \in Nat
    /\ d_pc \in [Dispatchers -> {"request", "committed", "idle", "dispatch", "select", "send"}]
    /\ \A d \in Dispatchers :
        /\ d_todo[d] \cup d_sent[d] \cup d_failed[d] = d_pending[d]
        /\ d_todo[d] \cap (d_sent[d] \cup d_failed[d]) = {} /\ d_sent[d] \cap d_failed[d] = {}
    /\ muted \subseteq Channels /\ sends \in [Channels -> Nat]
    /\ losses \in 0..MaxLosses /\ dropped \in BOOLEAN

\* A provider accepts a delivery once, and once more at most for every worker,
\* acknowledgement and confirmation of the broker that is lost, whatever dispatches
\* overlap, fail and are repeated (emit_domain_notification, dispatch_event).
SentOnceButForLosses == \A c \in Channels : sends[c] <= 1 + losses

\* Every delivery created gets a result, though workers, acknowledgements and
\* confirmations are lost on the way, unless a dispatch ended early with no message
\* left for it (domain.py, _dispatch; services.py, dispatch_event).
DeliveriesGetResults ==
    notice = "pending" ~> (dropped \/ \A c \in Channels : delivery[c] # "pending")

\* Not kept: "the event and the deliveries are already persisted in the DB, so nothing
\* is lost" (domain.py, _dispatch). Nothing looks for deliveries left pending.
NothingIsLost == notice = "pending" ~> (\A c \in Channels : delivery[c] # "pending")

\* Not kept: "sent" says that no delivery failed (services.py, the last transaction of
\* dispatch_event computes it from the deliveries of this run only).
SentMeansNoneFailed == notice = "sent" => \A c \in Channels : delivery[c] # "failed"
=============================================================================
