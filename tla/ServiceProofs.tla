--------------------------- MODULE ServiceProofs ----------------------------
(* Proofs about NotificationDispatch, for any set of channels, any number   *)
(* of Celery workers, any number of losses and of dispatches that raise,    *)
(* about InvalidationOutbox, for any events, workers, retries, deaths,      *)
(* errors and operator actions, about SupportTicket, for any number of      *)
(* requests and task runs, any SLA policy and any time, and about           *)
(* BusinessCalendar, for any week, any two times of opening, holidays,      *)
(* starting instant and minutes.                                            *)
EXTENDS NotificationDispatch, InvalidationOutbox, SupportTicket, BusinessCalendar,
        FiniteSetTheorems, TLAPS

-----------------------------------------------------------------------------
(* NotificationDispatch. The inductive invariant: a delivery has been sent, *)
(* and can still be sent, no more often in all than once and once per loss. *)

DispatchTypes ==
    /\ delivery \in [Channels -> NotificationDeliveryStatus]
    /\ d_pc \in [Dispatchers -> {"request", "committed", "idle", "dispatch", "select", "send"}]
    /\ d_pending \in [Dispatchers -> SUBSET Channels]
    /\ d_todo \in [Dispatchers -> SUBSET Channels]
    /\ d_sent \in [Dispatchers -> SUBSET Channels]
    /\ d_failed \in [Dispatchers -> SUBSET Channels]
    /\ muted \in SUBSET Channels /\ dropped \in BOOLEAN

DispatchCounts ==
    /\ notice \in NotificationEventStatus
    /\ waiting \in Nat /\ losses \in 0..MaxLosses /\ sends \in [Channels -> Nat]

\* The answers of a dispatch are a partition of what it selected, and nothing is
\* remembered outside the calls.
Remembers(d) ==
    /\ d_todo[d] \cup d_sent[d] \cup d_failed[d] = d_pending[d]
    /\ d_todo[d] \cap (d_sent[d] \cup d_failed[d]) = {} /\ d_sent[d] \cap d_failed[d] = {}
    /\ d_pc[d] # "send" => d_pending[d] = {}

\* The dispatches that have yet to send a delivery, if it is still pending.
MaySend(c) ==
    {d \in Dispatchers : d_pc[d] \in {"request", "committed", "dispatch", "select"}
                         \/ c \in d_todo[d]}

\* Every message in the broker is a dispatch to come.
SendsArePaid(c) == sends[c] + waiting + Cardinality(MaySend(c)) <= 1 + losses

DispatchInv ==
    /\ DispatchTypes /\ DispatchCounts
    /\ \A d \in Dispatchers : Remembers(d)
    /\ \A c \in Channels : SendsArePaid(c)

-----------------------------------------------------------------------------
LEMMA DispatchInitially == NoticeInit => DispatchInv
<1> SUFFICES ASSUME NoticeInit PROVE DispatchInv
  BY Zenon
<1> USE DispatchAssumption DEF NoticeInit
<1>1. DispatchTypes /\ DispatchCounts
  <2>1. d_pc \in [Dispatchers -> {"request", "committed", "idle", "dispatch", "select", "send"}]
    OBVIOUS
  <2>2. DispatchTypes
    BY Zenon, <2>1 DEF DispatchTypes, NotificationDeliveryStatus
  <2>3. DispatchCounts
    BY DEF DispatchCounts, NotificationEventStatus
  <2> QED
    BY Zenon, <2>2, <2>3
<1>2. \A d \in Dispatchers : Remembers(d)
  BY Zenon DEF Remembers
<1>3. ASSUME NEW c \in Channels PROVE SendsArePaid(c)
  <2>1. MaySend(c) = {Web}
    BY DEF MaySend
  <2>2. Cardinality({Web}) = 1
    BY FS_Singleton
  <2> QED
    BY <2>1, <2>2 DEF SendsArePaid
<1> QED
  BY Zenon, <1>1, <1>2, <1>3 DEF DispatchInv

\* How the number of dispatches changes when one is taken away or added.
LEMMA Senders ==
    ASSUME NEW S \in SUBSET Dispatchers, NEW T \in SUBSET Dispatchers, NEW d \in Dispatchers
    PROVE  /\ Cardinality(S) \in Nat /\ Cardinality(T) \in Nat
           /\ S \subseteq T => Cardinality(S) <= Cardinality(T)
           /\ d \in T /\ S \subseteq T \ {d} => Cardinality(S) + 1 <= Cardinality(T)
           /\ S \subseteq T \cup {d} => Cardinality(S) <= Cardinality(T) + 1
<1>1. IsFiniteSet(S) /\ IsFiniteSet(T) /\ IsFiniteSet(T \ {d}) /\ IsFiniteSet(T \cup {d})
  BY DispatchAssumption, FS_Subset
<1>2. /\ Cardinality(S) \in Nat /\ Cardinality(T) \in Nat
      /\ Cardinality(T \ {d}) \in Nat /\ Cardinality(T \cup {d}) \in Nat
  BY Zenon, <1>1, FS_CardinalityType
<1>3. S \subseteq T => Cardinality(S) <= Cardinality(T)
  BY Zenon, <1>1, FS_Subset
<1>4. ASSUME d \in T, S \subseteq T \ {d} PROVE Cardinality(S) + 1 <= Cardinality(T)
  <2>1. Cardinality(S) <= Cardinality(T \ {d})
    BY Zenon, <1>1, <1>4, FS_Subset
  <2>2. Cardinality(T \ {d}) = Cardinality(T) - 1
    BY Zenon, <1>1, <1>4, FS_RemoveElement
  <2> QED
    BY <1>2, <2>1, <2>2
<1>5. ASSUME S \subseteq T \cup {d} PROVE Cardinality(S) <= Cardinality(T) + 1
  <2>1. Cardinality(S) <= Cardinality(T \cup {d})
    BY Zenon, <1>1, <1>5, FS_Subset
  <2>2. Cardinality(T \cup {d}) = Cardinality(T) \/ Cardinality(T \cup {d}) = Cardinality(T) + 1
    BY Zenon, <1>1, FS_AddElement
  <2> QED
    BY <1>2, <2>1, <2>2
<1> QED
  BY Zenon, <1>2, <1>3, <1>4, <1>5

\* A step that adds no dispatch and no send, or pays for it.
LEMMA PaidStep ==
    ASSUME DispatchCounts, DispatchCounts', NEW c \in Channels, SendsArePaid(c),
           NEW d \in Dispatchers,
           \/ /\ MaySend(c)' \subseteq MaySend(c) /\ sends'[c] = sends[c]
              /\ \/ waiting' = waiting /\ losses' = losses
                 \/ waiting' = waiting + 1 /\ losses' = losses + 1
           \/ /\ d \in MaySend(c) /\ MaySend(c)' \subseteq MaySend(c) \ {d}
              /\ losses' = losses
              /\ \/ sends'[c] = sends[c] /\ waiting' = waiting + 1
                 \/ sends'[c] = sends[c] + 1 /\ waiting' = waiting
           \/ /\ MaySend(c)' \subseteq MaySend(c) \cup {d}
              /\ losses' = losses /\ sends'[c] = sends[c] /\ waiting' = waiting - 1
    PROVE  SendsArePaid(c)'
<1>1. MaySend(c) \in SUBSET Dispatchers /\ MaySend(c)' \in SUBSET Dispatchers
  BY Zenon DEF MaySend
<1> DEFINE n == Cardinality(MaySend(c))
           m == Cardinality(MaySend(c)')
<1>2. /\ n \in Nat /\ m \in Nat
      /\ MaySend(c)' \subseteq MaySend(c) => m <= n
      /\ d \in MaySend(c) /\ MaySend(c)' \subseteq MaySend(c) \ {d} => m + 1 <= n
      /\ MaySend(c)' \subseteq MaySend(c) \cup {d} => m <= n + 1
  BY Zenon, <1>1, Senders
<1>3. /\ sends[c] + waiting + n <= 1 + losses
      /\ SendsArePaid(c)' <=> sends'[c] + waiting' + m <= 1 + losses'
  BY Zenon DEF SendsArePaid
<1>4. /\ sends[c] \in Nat /\ sends'[c] \in Nat /\ waiting \in Nat /\ waiting' \in Nat
      /\ losses \in Nat /\ losses' \in Nat
  BY DispatchAssumption DEF DispatchCounts
<1> HIDE DEF n, m
<1> QED
  BY <1>2, <1>3, <1>4

LEMMA DispatchStep == DispatchInv /\ [NoticeNext]_noticeVars => DispatchInv'
<1> SUFFICES ASSUME DispatchInv, [NoticeNext]_noticeVars PROVE DispatchInv'
  BY Zenon
<1> USE DispatchAssumption DEF DispatchInv
<1>0. ASSUME DispatchTypes', DispatchCounts', \A d \in Dispatchers : Remembers(d)',
             \A c \in Channels : SendsArePaid(c)'
      PROVE  DispatchInv'
  BY Zenon, <1>0
<1>1. CASE create_notification_event
  <2>1. DispatchTypes' /\ DispatchCounts' /\ \A d \in Dispatchers : Remembers(d)'
    BY Zenon, <1>1 DEF create_notification_event, DispatchTypes, DispatchCounts, Remembers,
                       NotificationDeliveryStatus, NotificationEventStatus
  <2>2. ASSUME NEW c \in Channels PROVE SendsArePaid(c)'
    <3>1. MaySend(c)' \subseteq MaySend(c)
      BY <1>1 DEF create_notification_event, DispatchTypes, MaySend
    <3> QED
      BY Zenon, <1>1, <2>1, <3>1, PaidStep DEF create_notification_event
  <2> QED
    BY Zenon, <1>0, <2>1, <2>2
<1>2. CASE emit_domain_notification
  <2>1. DispatchTypes' /\ \A d \in Dispatchers : Remembers(d)'
    BY Zenon, <1>2 DEF emit_domain_notification, DispatchTypes, Remembers
  <2>2. DispatchCounts'
    BY <1>2 DEF emit_domain_notification, DispatchCounts, Loses
  <2>3. ASSUME NEW c \in Channels PROVE SendsArePaid(c)'
    <3>1. CASE waiting' = waiting + 1 /\ d_pc' = [d_pc EXCEPT ![Web] = "idle"] /\ losses' = losses
      <4>1. Web \in MaySend(c) /\ MaySend(c)' \subseteq MaySend(c) \ {Web}
        BY <1>2, <3>1 DEF emit_domain_notification, DispatchTypes, MaySend, Remembers
      <4> QED
        BY Zenon, <1>2, <2>2, <3>1, <4>1, PaidStep DEF emit_domain_notification
    <3>2. CASE /\ d_pc' = [d_pc EXCEPT ![Web] = "dispatch"]
               /\ \/ waiting' = waiting /\ losses' = losses
                  \/ waiting' = waiting + 1 /\ losses' = losses + 1
      <4>1. MaySend(c)' \subseteq MaySend(c)
        BY <1>2, <3>2 DEF emit_domain_notification, DispatchTypes, MaySend
      <4> QED
        BY Zenon, <1>2, <2>2, <3>2, <4>1, PaidStep DEF emit_domain_notification
    <3> QED
      BY Zenon, <1>2, <3>1, <3>2 DEF emit_domain_notification, Loses
  <2> QED
    BY Zenon, <1>0, <2>1, <2>2, <2>3
<1>3. ASSUME NEW d \in Dispatchers, dispatch_notification_event_task(d) PROVE DispatchInv'
  <2>1. DispatchTypes' /\ \A e \in Dispatchers : Remembers(e)'
    BY Zenon, <1>3 DEF dispatch_notification_event_task, DispatchTypes, Remembers
  <2>2. DispatchCounts'
    BY <1>3 DEF dispatch_notification_event_task, DispatchCounts
  <2>3. ASSUME NEW c \in Channels PROVE SendsArePaid(c)'
    <3>1. MaySend(c)' \subseteq MaySend(c) \cup {d}
      BY Zenon, <1>3 DEF dispatch_notification_event_task, DispatchTypes, MaySend
    <3> QED
      BY Zenon, <1>3, <2>2, <3>1, PaidStep DEF dispatch_notification_event_task
  <2> QED
    BY Zenon, <1>0, <2>1, <2>2, <2>3
<1>4. ASSUME NEW d \in Dispatchers, MarkProcessing(d) \/ SelectPending(d) PROVE DispatchInv'
  <2>1. DispatchTypes' /\ DispatchCounts' /\ \A e \in Dispatchers : Remembers(e)'
    <3>1. CASE MarkProcessing(d)
      BY Zenon, <3>1 DEF MarkProcessing, DispatchTypes, DispatchCounts, Remembers,
                         NotificationEventStatus
    <3>2. CASE SelectPending(d)
      BY Zenon, <3>2 DEF SelectPending, DispatchTypes, DispatchCounts, Remembers
    <3> QED
      BY Zenon, <1>4, <3>1, <3>2
  <2>2. ASSUME NEW c \in Channels PROVE SendsArePaid(c)'
    <3>1. MaySend(c)' \subseteq MaySend(c)
      BY Zenon, <1>4 DEF MarkProcessing, SelectPending, DispatchTypes, MaySend
    <3> QED
      BY Zenon, <1>4, <2>1, <3>1, PaidStep DEF MarkProcessing, SelectPending
  <2> QED
    BY Zenon, <1>0, <2>1, <2>2
<1>5. ASSUME NEW d \in Dispatchers, NEW b \in Channels, _send_delivery(d, b) PROVE DispatchInv'
  <2>1. DispatchTypes' /\ \A e \in Dispatchers : Remembers(e)'
    <3>1. DispatchTypes'
      <4>1. /\ d_todo' = [d_todo EXCEPT ![d] = d_todo[d] \ {b}]
            /\ d_sent' \in {d_sent, [d_sent EXCEPT ![d] = d_sent[d] \cup {b}]}
            /\ d_failed' \in {d_failed, [d_failed EXCEPT ![d] = d_failed[d] \cup {b}]}
            /\ UNCHANGED <<delivery, d_pc, d_pending, muted, dropped>>
        BY Zenon, <1>5 DEF _send_delivery
      <4>2. /\ d_todo' \in [Dispatchers -> SUBSET Channels]
            /\ d_sent' \in [Dispatchers -> SUBSET Channels]
            /\ d_failed' \in [Dispatchers -> SUBSET Channels]
        BY <4>1 DEF DispatchTypes
      <4> QED
        BY Zenon, <4>1, <4>2 DEF DispatchTypes
    <3>2. ASSUME NEW e \in Dispatchers PROVE Remembers(e)'
      BY <1>5 DEF _send_delivery, DispatchTypes, Remembers
    <3> QED
      BY Zenon, <3>1, <3>2
  <2>2. DispatchCounts'
    BY <1>5 DEF _send_delivery, DispatchCounts
  <2>3. ASSUME NEW c \in Channels PROVE SendsArePaid(c)'
    <3>1. MaySend(c)' \subseteq MaySend(c) /\ waiting' = waiting /\ losses' = losses
      BY Zenon, <1>5 DEF _send_delivery, DispatchTypes, MaySend
    <3>2. CASE sends'[c] = sends[c]
      BY Zenon, <2>2, <3>1, <3>2, PaidStep
    <3>3. CASE c = b /\ sends'[c] = sends[c] + 1
      <4>1. c \in d_todo[d] /\ d_pc[d] = "send" /\ d_pc' = d_pc
            /\ d_todo' = [d_todo EXCEPT ![d] = @ \ {c}]
        BY Zenon, <1>5, <3>3 DEF _send_delivery
      <4>2. d \in MaySend(c) /\ MaySend(c)' \subseteq MaySend(c) \ {d}
        BY <4>1 DEF DispatchTypes, MaySend
      <4> QED
        BY Zenon, <2>2, <3>1, <3>3, <4>2, PaidStep
    <3> QED
      BY <1>5, <3>2, <3>3 DEF _send_delivery, DispatchCounts
  <2> QED
    BY Zenon, <1>0, <2>1, <2>2, <2>3
<1>6. ASSUME NEW d \in Dispatchers, SaveResults(d) PROVE DispatchInv'
  <2>1. \/ waiting' = waiting /\ losses' = losses
        \/ waiting' = waiting + 1 /\ losses < MaxLosses /\ losses' = losses + 1
    BY Zenon, <1>6 DEF SaveResults, Acknowledge, Loses
  <2>2. \A c \in Channels : delivery'[c] \in {delivery[c], "sent", "failed"}
    BY Zenon, <1>6 DEF SaveResults
  <2>3. delivery' \in [Channels -> NotificationDeliveryStatus]
    BY <1>6, <2>2 DEF SaveResults, DispatchTypes, NotificationDeliveryStatus
  <2>4. DispatchTypes' /\ \A e \in Dispatchers : Remembers(e)'
    BY Zenon, <1>6, <2>3 DEF SaveResults, Forget, DispatchTypes, Remembers
  <2>5. DispatchCounts'
    BY <1>6, <2>1 DEF SaveResults, DispatchCounts, NotificationEventStatus
  <2>6. ASSUME NEW c \in Channels PROVE SendsArePaid(c)'
    <3>1. MaySend(c)' \subseteq MaySend(c)
      BY Zenon, <1>6 DEF SaveResults, Forget, DispatchTypes, MaySend
    <3> QED
      BY Zenon, <1>6, <2>1, <2>5, <3>1, PaidStep DEF SaveResults
  <2> QED
    BY Zenon, <1>0, <2>4, <2>5, <2>6
<1>7. ASSUME NEW d \in Dispatchers, WorkerLost(d) \/ DispatchAborted(d) PROVE DispatchInv'
  <2>1. /\ Forget(d) /\ UNCHANGED <<notice, delivery, muted, sends>> /\ dropped' \in {dropped, TRUE}
        /\ \/ waiting' = waiting /\ losses' = losses
           \/ waiting' = waiting + 1 /\ losses < MaxLosses /\ losses' = losses + 1
    BY Zenon, <1>7 DEF WorkerLost, DispatchAborted, Loses
  <2>2. DispatchTypes' /\ \A e \in Dispatchers : Remembers(e)'
    BY Zenon, <2>1 DEF Forget, DispatchTypes, Remembers
  <2>3. DispatchCounts'
    BY <2>1 DEF DispatchCounts
  <2>4. ASSUME NEW c \in Channels PROVE SendsArePaid(c)'
    <3>1. MaySend(c)' \subseteq MaySend(c)
      BY Zenon, <2>1 DEF Forget, DispatchTypes, MaySend
    <3> QED
      BY Zenon, <2>1, <2>3, <3>1, PaidStep
  <2> QED
    BY Zenon, <1>0, <2>2, <2>3, <2>4
<1>8. ASSUME NEW c \in Channels, mark_delivery_read(c) \/ set_preference(c) PROVE DispatchInv'
  BY Zenon, <1>8 DEF mark_delivery_read, set_preference, processVars, DispatchTypes,
                     DispatchCounts, Remembers, SendsArePaid, MaySend, NotificationDeliveryStatus
<1>9. CASE mark_all_read
  BY Zenon, <1>9 DEF mark_all_read, processVars, DispatchTypes, DispatchCounts, Remembers,
                     SendsArePaid, MaySend, NotificationDeliveryStatus
<1>10. CASE UNCHANGED noticeVars
  BY Zenon, <1>10 DEF noticeVars, processVars, DispatchTypes, DispatchCounts, Remembers,
                      SendsArePaid, MaySend
<1> HIDE DEF DispatchInv
<1> QED
  BY Zenon, <1>1, <1>2, <1>3, <1>4, <1>5, <1>6, <1>7, <1>8, <1>9, <1>10
  DEF NoticeNext, dispatch_event

-----------------------------------------------------------------------------
\* The invariant holds throughout: what was sent and what can still be sent is paid
\* for by the first dispatch and the losses.
THEOREM DispatchInvariance == NoticeSpec => []DispatchInv
BY DispatchInitially, DispatchStep, PTL DEF NoticeSpec

\* Every column and every local variable keeps its type, and the answers of a
\* dispatch partition the deliveries it selected (dispatch_event).
THEOREM DispatchTypeCorrect == NoticeSpec => []NoticeTypeOK
<1>1. DispatchInv => NoticeTypeOK
  BY Zenon DEF DispatchInv, DispatchTypes, DispatchCounts, Remembers, NoticeTypeOK
<1> QED
  BY <1>1, DispatchInvariance, PTL

\* A provider accepts a delivery once, and once more at most for every worker,
\* acknowledgement and confirmation that is lost (emit_domain_notification,
\* dispatch_event).
THEOREM AlwaysSentOnceButForLosses == NoticeSpec => []SentOnceButForLosses
<1>1. DispatchInv => SentOnceButForLosses
  <2> SUFFICES ASSUME DispatchInv, NEW c \in Channels PROVE sends[c] <= 1 + losses
    BY Zenon DEF SentOnceButForLosses
  <2>1. Cardinality(MaySend(c)) \in Nat
    BY DispatchAssumption, Senders DEF MaySend
  <2> QED
    BY <2>1 DEF DispatchInv, DispatchCounts, SendsArePaid
<1> QED
  BY <1>1, DispatchInvariance, PTL

-----------------------------------------------------------------------------
(* InvalidationOutbox. The inductive invariant: a task works on an event    *)
(* whose row exists, and ends well only for an event that is settled.       *)

AtWork(w) ==
    /\ t_pc[w] # "idle" => t_event[w] \in Events /\ event_status[t_event[w]] # "none"
    /\ t_pc[w] = "answered" => t_event[w] \in settled

\* Only rows that exist have messages.
NoStrayMessages ==
    \A e \in Events : event_status[e] = "none" => \A n \in Retries : messages[e][n] = 0

OutboxInv ==
    /\ OutboxTypeOK /\ NoStrayMessages /\ SucceededWasSettled
    /\ \A w \in Workers : AtWork(w)

LEMMA OutboxInitially == OutboxInit => OutboxInv
BY OutboxBounds
DEF OutboxInit, OutboxInv, OutboxTypeOK, NoStrayMessages, SucceededWasSettled, AtWork, Retries

\* One more message for an event that has room for it.
LEMMA OneMoreMessage ==
    ASSUME OutboxTypeOK, NEW e \in Events, NEW n \in Retries, HasRoom(e, n),
           event_status[e] # "none", NoStrayMessages
    PROVE  /\ With(e, n) \in [Events -> [Retries -> 0..MaxCopies]]
           /\ \A f \in Events : event_status[f] = "none" =>
                \A m \in Retries : With(e, n)[f][m] = 0
BY OutboxBounds DEF OutboxTypeOK, HasRoom, With, NoStrayMessages

\* A task that ends leaves its worker idle.
LEMMA FinishStep ==
    ASSUME OutboxTypeOK, NEW w \in Workers, Finish(w)
    PROVE  /\ t_pc' \in [Workers -> {"idle", "loaded", "calling", "answered", "failed"}]
           /\ t_event' \in [Workers -> Events \cup {NoEvent}] /\ t_retry' \in [Workers -> Retries]
           /\ t_attempts' \in [Workers -> 0..CACHE_INVALIDATION_MAX_ATTEMPTS]
           /\ \A v \in Workers :
                \/ t_pc'[v] = "idle"
                \/ t_pc'[v] = t_pc[v] /\ t_event'[v] = t_event[v]
BY OutboxBounds DEF OutboxTypeOK, Finish, Retries

LEMMA OutboxStep == OutboxInv /\ [OutboxNext]_outboxVars => OutboxInv'
<1> SUFFICES ASSUME OutboxInv, [OutboxNext]_outboxVars PROVE OutboxInv'
  OBVIOUS
<1> USE DEF OutboxInv, histories
<1>1. ASSUME NEW w \in Workers, NEW e \in Events, NEW n \in Retries, LoadEvent(w, e, n)
      PROVE  OutboxInv'
  <2>1. messages' \in [Events -> [Retries -> 0..MaxCopies]] /\ NoStrayMessages'
    BY <1>1, OutboxBounds DEF LoadEvent, OutboxTypeOK, NoStrayMessages, rowVars
  <2>2. event_status[e] # "none"
    BY <1>1 DEF LoadEvent, NoStrayMessages
  <2>3. OutboxTypeOK'
    <3>1. 0 \in Retries /\ 0 \in 0..CACHE_INVALIDATION_MAX_ATTEMPTS
      BY OutboxBounds DEF Retries
    <3>2. /\ t_pc' \in [Workers -> {"idle", "loaded", "calling", "answered", "failed"}]
          /\ t_event' \in [Workers -> Events \cup {NoEvent}]
          /\ t_retry' \in [Workers -> Retries]
          /\ t_attempts' \in [Workers -> 0..CACHE_INVALIDATION_MAX_ATTEMPTS]
      BY Zenon, <1>1, <3>1 DEF LoadEvent, OutboxTypeOK
    <3> QED
      BY Zenon, <1>1, <2>1, <3>2 DEF LoadEvent, OutboxTypeOK, rowVars
  <2>4. SucceededWasSettled'
    BY Zenon, <1>1 DEF LoadEvent, SucceededWasSettled, rowVars
  <2>5. ASSUME NEW v \in Workers PROVE AtWork(v)'
    BY Zenon, <1>1, <2>2 DEF LoadEvent, AtWork, OutboxTypeOK, rowVars
  <2> QED
    BY Zenon, <2>1, <2>3, <2>4, <2>5
<1>2. ASSUME NEW w \in Workers, MoveToDeadLetter(w) \/ SaveSucceeded(w)
      PROVE  OutboxInv'
  <2>1. /\ t_event[w] \in Events /\ t_pc[w] # "idle" /\ Finish(w)
        /\ UNCHANGED <<event_attempts, messages, histories>>
        /\ \/ event_status' = [event_status EXCEPT ![t_event[w]] = "dead"]
           \/ t_event[w] \in settled
              /\ event_status' = [event_status EXCEPT ![t_event[w]] = "succeeded"]
    BY Zenon, <1>2 DEF MoveToDeadLetter, SaveSucceeded, AtWork
  <2>2. OutboxTypeOK'
    BY Zenon, <2>1, FinishStep DEF OutboxTypeOK
  <2>3. NoStrayMessages' /\ SucceededWasSettled'
    BY Zenon, <2>1 DEF OutboxTypeOK, NoStrayMessages, SucceededWasSettled
  <2>4. ASSUME NEW v \in Workers PROVE AtWork(v)'
    BY <2>1, FinishStep DEF AtWork, OutboxTypeOK
  <2> QED
    BY Zenon, <2>2, <2>3, <2>4
<1>3. ASSUME NEW w \in Workers, ClaimEvent(w)
      PROVE  OutboxInv'
  <2>1. t_event[w] \in Events /\ event_status[t_event[w]] # "none"
    BY Zenon, <1>3 DEF ClaimEvent, AtWork
  <2>2. OutboxTypeOK'
    BY <1>3, <2>1, OutboxBounds DEF ClaimEvent, OutboxTypeOK
  <2>3. NoStrayMessages' /\ SucceededWasSettled'
    BY Zenon, <1>3, <2>1 DEF ClaimEvent, OutboxTypeOK, NoStrayMessages, SucceededWasSettled
  <2>4. ASSUME NEW v \in Workers PROVE AtWork(v)'
    BY Zenon, <1>3, <2>1 DEF ClaimEvent, AtWork, OutboxTypeOK
  <2> QED
    BY <2>2, <2>3, <2>4
<1>4. ASSUME NEW w \in Workers, CallEnds(w) \/ CallFails(w)
      PROVE  OutboxInv'
  <2>1. t_event[w] \in Events /\ event_status[t_event[w]] # "none"
    BY Zenon, <1>4 DEF CallEnds, CallFails, AtWork
  <2>2. OutboxTypeOK'
    BY Zenon, <1>4, <2>1 DEF CallEnds, CallFails, OutboxTypeOK, rowVars
  <2>3. NoStrayMessages' /\ SucceededWasSettled'
    BY Zenon, <1>4
    DEF CallEnds, CallFails, NoStrayMessages, SucceededWasSettled, rowVars
  <2>4. ASSUME NEW v \in Workers PROVE AtWork(v)'
    BY Zenon, <1>4, <2>1 DEF CallEnds, CallFails, AtWork, OutboxTypeOK, rowVars
  <2> QED
    BY <2>2, <2>3, <2>4
<1>5. ASSUME NEW w \in Workers, SaveFailure(w)
      PROVE  OutboxInv'
  <2>1. /\ t_event[w] \in Events /\ event_status[t_event[w]] # "none" /\ Finish(w)
        /\ UNCHANGED <<event_attempts, histories>>
        /\ \/ event_status' = [event_status EXCEPT ![t_event[w]] = "dead"]
           \/ event_status' = [event_status EXCEPT ![t_event[w]] = "failed"]
    BY Zenon, <1>5 DEF SaveFailure, AtWork
  <2>2. /\ messages' \in [Events -> [Retries -> 0..MaxCopies]]
        /\ \A f \in Events : event_status[f] = "none" => \A m \in Retries : messages'[f][m] = 0
    <3>1. CASE t_retry[w] + 1 <= MaxRetries /\ messages' # messages
      <4>1. t_retry[w] + 1 \in Retries
        BY <3>1, OutboxBounds DEF OutboxTypeOK, Retries
      <4>2. HasRoom(t_event[w], t_retry[w] + 1) /\ messages' = With(t_event[w], t_retry[w] + 1)
        BY Zenon, <1>5, <3>1 DEF SaveFailure
      <4> QED
        BY <2>1, <4>1, <4>2, OneMoreMessage
    <3>2. CASE ~(t_retry[w] + 1 <= MaxRetries) \/ messages' = messages
      BY Zenon, <1>5, <3>2 DEF SaveFailure, OutboxTypeOK, NoStrayMessages
    <3> QED
      BY Zenon, <3>1, <3>2
  <2>3. OutboxTypeOK'
    BY Zenon, <2>1, <2>2, FinishStep DEF OutboxTypeOK
  <2>4. NoStrayMessages' /\ SucceededWasSettled'
    BY Zenon, <2>1, <2>2 DEF OutboxTypeOK, NoStrayMessages, SucceededWasSettled
  <2>5. ASSUME NEW v \in Workers PROVE AtWork(v)'
    BY <2>1, FinishStep DEF AtWork, OutboxTypeOK
  <2> QED
    BY <2>3, <2>4, <2>5
<1>6. ASSUME NEW w \in Workers, WorkerDies(w)
      PROVE  OutboxInv'
  <2>1. /\ t_event[w] \in Events /\ event_status[t_event[w]] # "none" /\ Finish(w)
        /\ t_retry[w] \in Retries /\ HasRoom(t_event[w], t_retry[w])
        /\ messages' = With(t_event[w], t_retry[w])
        /\ UNCHANGED <<rowVars, histories>>
    BY Zenon, <1>6 DEF WorkerDies, AtWork, OutboxTypeOK
  <2>2. OutboxTypeOK'
    BY Zenon, <2>1, OneMoreMessage, FinishStep DEF OutboxTypeOK, rowVars
  <2>3. NoStrayMessages' /\ SucceededWasSettled'
    BY Zenon, <2>1, OneMoreMessage DEF NoStrayMessages, SucceededWasSettled, rowVars
  <2>4. ASSUME NEW v \in Workers PROVE AtWork(v)'
    BY Zenon, <2>1, FinishStep DEF AtWork, rowVars
  <2> QED
    BY <2>2, <2>3, <2>4
<1>7. ASSUME NEW e \in Events, enqueue_cache_invalidation_event(e)
      PROVE  OutboxInv'
  <2>1. 0 \in Retries
    BY OutboxBounds DEF Retries
  <2>2. \A n \in Retries : messages[e][n] = 0
    BY Zenon, <1>7 DEF enqueue_cache_invalidation_event, NoStrayMessages
  <2>3. /\ messages' \in [Events -> [Retries -> 0..MaxCopies]]
        /\ \A f \in Events : f # e => messages'[f] = messages[f]
    <3>1. messages' = messages \/ messages' = [messages EXCEPT ![e][0] = @ + 1]
      BY Zenon, <1>7 DEF enqueue_cache_invalidation_event, With
    <3>2. messages \in [Events -> [Retries -> 0..MaxCopies]]
      BY Zenon DEF OutboxTypeOK
    <3> HIDE DEF OutboxInv
    <3> QED
      BY <2>1, <2>2, <3>1, <3>2, OutboxBounds
  <2>4. OutboxTypeOK'
    BY Zenon, <1>7, <2>3 DEF enqueue_cache_invalidation_event, OutboxTypeOK, workerVars
  <2>5. NoStrayMessages' /\ SucceededWasSettled'
    BY <1>7, <2>3
    DEF enqueue_cache_invalidation_event, NoStrayMessages, SucceededWasSettled, OutboxTypeOK
  <2>6. ASSUME NEW v \in Workers PROVE AtWork(v)'
    BY Zenon, <1>7 DEF enqueue_cache_invalidation_event, AtWork, OutboxTypeOK, workerVars
  <2> QED
    BY Zenon, <2>4, <2>5, <2>6
<1>8. ASSUME NEW e \in Events,
             \/ process_pending_cache_invalidation_events_task(e) \/ retry_selected_events(e)
             \/ mark_selected_as_dead(e) \/ mark_selected_as_pending(e)
      PROVE  OutboxInv'
  <2>1. /\ event_status[e] # "none"
        /\ event_status' \in {event_status} \cup
             {[event_status EXCEPT ![e] = s] : s \in {"pending", "dead"}}
        /\ messages' = messages \/ (HasRoom(e, 0) /\ messages' = With(e, 0))
        /\ UNCHANGED <<event_attempts, workerVars, histories>>
    BY Zenon, <1>8 DEF process_pending_cache_invalidation_events_task, retry_selected_events,
                mark_selected_as_dead, mark_selected_as_pending, rowVars
  <2>2. 0 \in Retries
    BY OutboxBounds DEF Retries
  <2>3. /\ messages' \in [Events -> [Retries -> 0..MaxCopies]]
        /\ \A f \in Events : event_status[f] = "none" => \A m \in Retries : messages'[f][m] = 0
    <3>1. CASE messages' = messages
      BY Zenon, <3>1 DEF OutboxTypeOK, NoStrayMessages
    <3>2. CASE HasRoom(e, 0) /\ messages' = With(e, 0)
      <4>1. /\ With(e, 0) \in [Events -> [Retries -> 0..MaxCopies]]
            /\ \A f \in Events :
                  event_status[f] = "none" => \A m \in Retries : With(e, 0)[f][m] = 0
        BY Zenon, <2>1, <2>2, <3>2, OneMoreMessage DEF NoStrayMessages
      <4> QED
        BY Zenon, <3>2, <4>1
    <3> QED
      BY Zenon, <2>1, <3>1, <3>2
  <2>4. OutboxTypeOK'
    BY Zenon, <2>1, <2>3 DEF OutboxTypeOK, workerVars
  <2>5. NoStrayMessages' /\ SucceededWasSettled'
    BY Zenon, <2>1, <2>3 DEF OutboxTypeOK, NoStrayMessages, SucceededWasSettled
  <2>6. ASSUME NEW v \in Workers PROVE AtWork(v)'
    BY Zenon, <2>1 DEF AtWork, OutboxTypeOK, workerVars
  <2> QED
    BY <2>4, <2>5, <2>6
<1>9. ASSUME NEW w \in Workers, TaskAborts(w)
      PROVE  OutboxInv'
  <2>1. /\ t_event[w] \in Events /\ Finish(w)
        /\ unsaved' \in {unsaved, unsaved \cup {t_event[w]}}
        /\ UNCHANGED <<rowVars, messages, settled>>
    BY Zenon, <1>9 DEF TaskAborts, AtWork
  <2>2. OutboxTypeOK'
    BY Zenon, <2>1, FinishStep DEF OutboxTypeOK, rowVars
  <2>3. NoStrayMessages' /\ SucceededWasSettled'
    BY Zenon, <2>1 DEF NoStrayMessages, SucceededWasSettled, rowVars
  <2>4. ASSUME NEW v \in Workers PROVE AtWork(v)'
    BY Zenon, <2>1, FinishStep DEF AtWork, rowVars
  <2> QED
    BY <2>2, <2>3, <2>4
<1>10. CASE UNCHANGED outboxVars
  BY Zenon, <1>10 DEF outboxVars, rowVars, workerVars, OutboxTypeOK, NoStrayMessages,
              SucceededWasSettled, AtWork
<1> HIDE DEF OutboxInv, histories
<1> QED
  BY Zenon, <1>1, <1>2, <1>3, <1>4, <1>5, <1>6, <1>7, <1>8, <1>9, <1>10
  DEF OutboxNext, process_cache_invalidation_event_task, revalidate_frontend_task

\* The invariant of the outbox holds throughout: every task works on an event
\* that exists, whatever tasks overlap, abort, die and are delivered again.
THEOREM OutboxInvariance == OutboxSpec => []OutboxInv
BY OutboxInitially, OutboxStep, PTL DEF OutboxSpec

\* Rows, messages and tasks keep their types: no more attempts are counted than
\* CACHE_INVALIDATION_MAX_ATTEMPTS (process_cache_invalidation_event_task).
THEOREM OutboxTypeCorrect == OutboxSpec => []OutboxTypeOK
<1>1. OutboxInv => OutboxTypeOK
  BY Zenon DEF OutboxInv
<1> QED
  BY <1>1, OutboxInvariance, PTL

\* An event is saved as succeeded only after the frontend has answered for it, or a
\* task has found nothing to call (process_cache_invalidation_event_task).
THEOREM SucceededAlwaysSettled == OutboxSpec => []SucceededWasSettled
<1>1. OutboxInv => SucceededWasSettled
  BY Zenon DEF OutboxInv
<1> QED
  BY <1>1, OutboxInvariance, PTL

-----------------------------------------------------------------------------
(* SupportTicket. The inductive invariant, of the row and of every copy.    *)

\* The end of the time a row has accounted for.
Since(row, now) == IF row.sla_paused_at = None THEN now ELSE row.sla_paused_at

\* The pauses counted are in the past, and so the due times are bounded.
PausesArePast(row, now) ==
    /\ Since(row, now) <= now
    /\ row.sla_total_paused <= Since(row, now)
    /\ row.first_response_due_at <=
         first_response_minutes + MaxClosed + MaxClock + Since(row, now)
    /\ row.resolution_due_at <= resolution_minutes + MaxClosed + MaxClock + Since(row, now)

\* The due times of a row are the granted ones and its pauses; before they are set
\* it has no pauses.
Granted(row) ==
    IF row.resolution_due_at = 0
    THEN row.first_response_due_at = 0 /\ row.sla_total_paused = 0 /\ row.sla_paused_at = None
    ELSE /\ row.granted.first_response > 0
         /\ row.resolution_due_at = row.granted.resolution + row.sla_total_paused
         /\ row.first_response_due_at = row.granted.first_response + row.sla_total_paused

\* A copy that was loaded after the submission is of that submission.
SameSubmission(copy, row) ==
    copy.resolution_due_at > 0 =>
        row.resolution_due_at > 0 /\ copy.granted = row.granted

SlaInv ==
    /\ SupportTypeOK
    /\ PausesArePast(ticket, clock)
    /\ \A r \in Requests : PausesArePast(r_ticket[r], clock)
    /\ ~resubmitted =>
        /\ Granted(ticket)
        /\ \A r \in Requests : Granted(r_ticket[r]) /\ SameSubmission(r_ticket[r], ticket)

\* What SlaInv says of a row besides its type, and of no other field.
SameSla(a, b) ==
    /\ a.granted = b.granted
    /\ a.sla_paused_at = b.sla_paused_at /\ a.sla_total_paused = b.sla_total_paused
    /\ a.first_response_due_at = b.first_response_due_at
    /\ a.resolution_due_at = b.resolution_due_at

LEMMA DraftRow ==
    /\ Draft \in SupportTicketRow /\ Granted(Draft) /\ Draft.resolution_due_at = 0
    /\ \A now \in 0..MaxClock : PausesArePast(Draft, now)
BY SlaAssumption
DEF Draft, SupportTicketRow, Granted, PausesArePast, Since, None, TicketStatus, Horizon

LEMMA RowTypes ==
    ASSUME NEW row \in SupportTicketRow
    PROVE  /\ row.status \in TicketStatus
           /\ row.granted \in [first_response : 0..Horizon, resolution : 0..Horizon]
           /\ row.sla_paused_at \in 0..None /\ row.sla_total_paused \in 0..MaxClock
           /\ row.first_response_due_at \in 0..Horizon /\ row.resolution_due_at \in 0..Horizon
BY Zenon DEF SupportTicketRow

LEMMA StatusKeepsSla ==
    ASSUME NEW row \in SupportTicketRow, NEW from, NEW to \in TicketStatus
    PROVE  /\ _change_status(row, from, to) \in SupportTicketRow
           /\ SameSla(_change_status(row, from, to), row)
BY Zenon DEF _change_status, SupportTicketRow, SameSla

\* A pause, from a copy of the same submission.
LEMMA PauseKeepsGrant ==
    ASSUME NEW row \in SupportTicketRow, NEW copy \in SupportTicketRow, clock \in 0..MaxClock,
           PausesArePast(row, clock)
    PROVE  LET next == _pause_sla_if_needed(row, copy) IN
           /\ next \in SupportTicketRow /\ PausesArePast(next, clock)
           /\ next.granted = row.granted
           /\ next.resolution_due_at = row.resolution_due_at
           /\ Granted(row) /\ SameSubmission(copy, row) => Granted(next)
<1> DEFINE next == _pause_sla_if_needed(row, copy)
<1>1. CASE pause_when_waiting_for_user /\ copy.resolution_due_at > 0 /\ copy.sla_paused_at = None
  <2>1. /\ next = [row EXCEPT !.sla_paused_at = clock]
        /\ clock \in 0..None /\ clock # None
    BY <1>1, SlaAssumption DEF _pause_sla_if_needed, None
  <2>2. /\ next \in SupportTicketRow /\ next.sla_paused_at = clock
        /\ next.granted = row.granted /\ next.sla_total_paused = row.sla_total_paused
        /\ next.first_response_due_at = row.first_response_due_at
        /\ next.resolution_due_at = row.resolution_due_at
    BY Zenon, <2>1 DEF SupportTicketRow
  <2> HIDE DEF next
  <2>3. PausesArePast(next, clock)
    BY <2>1, <2>2, RowTypes, SlaAssumption DEF PausesArePast, Since, None, Horizon
  <2>4. Granted(row) /\ SameSubmission(copy, row) => Granted(next)
    BY <1>1, <2>2, RowTypes, SlaAssumption DEF Granted, SameSubmission, Horizon
  <2> QED
    BY Zenon, <2>2, <2>3, <2>4 DEF next
<1>2. CASE ~(pause_when_waiting_for_user /\ copy.resolution_due_at > 0
             /\ copy.sla_paused_at = None)
  <2>1. next = row
    BY Zenon, <1>2 DEF _pause_sla_if_needed
  <2> QED
    BY Zenon, <2>1
<1> QED
  BY Zenon, <1>1, <1>2

\* The end of a pause, from a copy of the same submission.
LEMMA ResumeKeepsGrant ==
    ASSUME NEW row \in SupportTicketRow, NEW copy \in SupportTicketRow, clock \in 0..MaxClock,
           PausesArePast(row, clock), PausesArePast(copy, clock)
    PROVE  LET next == _resume_sla_if_needed(row, copy) IN
           /\ next \in SupportTicketRow /\ PausesArePast(next, clock)
           /\ next.granted = row.granted
           /\ Granted(row) /\ Granted(copy) /\ SameSubmission(copy, row) =>
                Granted(next) /\ (row.resolution_due_at > 0 => next.resolution_due_at > 0)
<1> DEFINE next == _resume_sla_if_needed(row, copy)
<1>1. CASE copy.sla_paused_at = None
  <2>1. next = row
    BY Zenon, <1>1 DEF _resume_sla_if_needed
  <2> QED
    BY Zenon, <2>1
<1>2. CASE copy.sla_paused_at # None
  <2> DEFINE paused == clock - copy.sla_paused_at
             Later(due) == IF due = 0 THEN 0 ELSE due + paused
             total == copy.sla_total_paused + paused
             first == Later(copy.first_response_due_at)
             resolution == Later(copy.resolution_due_at)
  <2>1. /\ paused \in 0..MaxClock /\ total \in 0..clock /\ clock <= MaxClock
        /\ first \in 0..(first_response_minutes + MaxClosed + MaxClock + clock)
        /\ resolution \in 0..(resolution_minutes + MaxClosed + MaxClock + clock)
    BY <1>2, RowTypes, SlaAssumption DEF PausesArePast, Since, None, Horizon
  <2>2. total \in 0..MaxClock /\ first \in 0..Horizon /\ resolution \in 0..Horizon
    BY <2>1, SlaAssumption DEF Horizon
  <2>3. next = [row EXCEPT !.sla_total_paused = total, !.first_response_due_at = first,
                           !.resolution_due_at = resolution, !.sla_paused_at = None]
    BY Zenon, <1>2 DEF _resume_sla_if_needed
  <2>4. None \in 0..None
    BY SlaAssumption DEF None
  <2> HIDE DEF total, first, resolution, next
  <2>5. /\ next \in SupportTicketRow /\ next.granted = row.granted
        /\ next.sla_total_paused = total /\ next.first_response_due_at = first
        /\ next.resolution_due_at = resolution /\ next.sla_paused_at = None
    BY Zenon, <2>2, <2>3, <2>4 DEF SupportTicketRow
  <2>6. PausesArePast(next, clock)
    BY <2>1, <2>5, SlaAssumption DEF PausesArePast, Since
  <2>7. ASSUME Granted(row), Granted(copy), SameSubmission(copy, row)
        PROVE  Granted(next) /\ next.resolution_due_at > 0
    <3>1. /\ copy.resolution_due_at > 0 /\ copy.granted = row.granted
          /\ copy.granted.first_response > 0
          /\ copy.resolution_due_at = copy.granted.resolution + copy.sla_total_paused
          /\ copy.first_response_due_at = copy.granted.first_response + copy.sla_total_paused
      BY <1>2, <2>7, RowTypes, SlaAssumption DEF Granted, SameSubmission, Horizon
    <3>2. /\ resolution = copy.resolution_due_at + paused
          /\ first = copy.first_response_due_at + paused
          /\ total = copy.sla_total_paused + paused
      BY <3>1, RowTypes, SlaAssumption DEF resolution, first, total
    <3> HIDE DEF paused
    <3> QED
      BY <2>1, <2>5, <3>1, <3>2, RowTypes, SlaAssumption DEF Granted
  <2> QED
    BY Zenon, <2>5, <2>6, <2>7 DEF next
<1> QED
  BY Zenon, <1>1, <1>2

LEMMA SubmitGrants ==
    ASSUME NEW row \in SupportTicketRow, clock \in 0..MaxClock, PausesArePast(row, clock),
           NEW first \in _calculate_sla_due_at(first_response_minutes),
           NEW resolution \in _calculate_sla_due_at(resolution_minutes)
    PROVE  LET next == _apply_sla(row, first, resolution) IN
           /\ next \in SupportTicketRow /\ PausesArePast(next, clock)
           /\ Granted(row) /\ row.resolution_due_at = 0 => Granted(next)
<1> DEFINE next == _apply_sla(row, first, resolution)
<1>1. /\ first \in 0..Horizon /\ first > 0 /\ first <= first_response_minutes + MaxClosed + clock
      /\ resolution \in 1..Horizon /\ resolution <= resolution_minutes + MaxClosed + clock
      /\ resolution \in 0..Horizon
  BY SlaAssumption DEF Horizon, _calculate_sla_due_at
<1>2. /\ next \in SupportTicketRow
      /\ next.granted.first_response = first /\ next.granted.resolution = resolution
      /\ next.first_response_due_at = first /\ next.resolution_due_at = resolution
      /\ next.sla_total_paused = row.sla_total_paused /\ next.sla_paused_at = row.sla_paused_at
  BY Zenon, <1>1 DEF _apply_sla, SupportTicketRow
<1> HIDE DEF next
<1>3. PausesArePast(next, clock)
  BY <1>1, <1>2, RowTypes, SlaAssumption DEF PausesArePast, Since, None
<1>4. Granted(row) /\ row.resolution_due_at = 0 => Granted(next)
  BY <1>1, <1>2, RowTypes, SlaAssumption DEF Granted
<1> QED
  BY Zenon, <1>2, <1>3, <1>4 DEF next

-----------------------------------------------------------------------------
LEMMA SlaInitially == SupportInit => SlaInv
<1> SUFFICES ASSUME SupportInit PROVE SlaInv
  OBVIOUS
<1>1. 0 \in 0..MaxClock /\ "draft" \in TicketStatus
  BY SlaAssumption DEF TicketStatus
<1>2. /\ ticket = Draft /\ clock = 0 /\ resubmitted = FALSE
      /\ \A r \in Requests : r_ticket[r] = Draft
  BY Zenon DEF SupportInit
<1>3. SupportTypeOK
  BY Zenon, <1>1, DraftRow DEF SupportInit, SupportTypeOK
<1>4. \A r \in Requests : Granted(r_ticket[r]) /\ SameSubmission(r_ticket[r], ticket)
  BY Zenon, <1>2, DraftRow DEF SameSubmission
<1> QED
  BY Zenon, <1>1, <1>2, <1>3, <1>4, DraftRow DEF SlaInv

\* A request that ends drops its copy.
LEMMA RespondStep ==
    ASSUME SlaInv, NEW r \in Requests, Respond(r)
    PROVE  /\ r_pc' \in [Requests -> {"idle", "loaded"}]
           /\ r_ticket' \in [Requests -> SupportTicketRow] /\ clock' = clock
           /\ k_pc' \in [Sweepers -> {"idle", "selected"}]
           /\ k_status' \in [Sweepers -> TicketStatus]
           /\ \A q \in Requests : r_ticket'[q] \in {Draft, r_ticket[q]}
BY Zenon, DraftRow DEF SlaInv, SupportTypeOK, Respond, sweepVars

\* The ticket is saved and copies are only dropped.
LEMMA SavedTicket ==
    ASSUME SlaInv, NEW r \in Requests, Respond(r), ticket' \in SupportTicketRow,
           PausesArePast(ticket', clock), resubmitted' \in BOOLEAN, reopenWindow' \in BOOLEAN,
           ~resubmitted' =>
             /\ ~resubmitted /\ Granted(ticket')
             /\ \A q \in Requests :
                  SameSubmission(r_ticket[q], ticket) => SameSubmission(r_ticket[q], ticket')
    PROVE  SlaInv'
<1>1. SupportTypeOK'
  BY Zenon, RespondStep DEF SlaInv, SupportTypeOK
<1>2. \A q \in Requests : PausesArePast(r_ticket'[q], clock)
  BY Zenon, RespondStep, DraftRow DEF SlaInv, SupportTypeOK
<1>3. ~resubmitted' =>
        \A q \in Requests : Granted(r_ticket'[q]) /\ SameSubmission(r_ticket'[q], ticket')
  <2> SUFFICES ASSUME ~resubmitted', NEW q \in Requests
               PROVE  Granted(r_ticket'[q]) /\ SameSubmission(r_ticket'[q], ticket')
    BY Zenon
  <2>1. CASE r_ticket'[q] = Draft
    BY <2>1, DraftRow DEF SameSubmission
  <2>2. CASE r_ticket'[q] = r_ticket[q]
    BY Zenon, <2>2 DEF SlaInv
  <2> QED
    BY Zenon, <2>1, <2>2, RespondStep
<1>4. clock' = clock
  BY Zenon, RespondStep
<1> QED
  BY Zenon, <1>1, <1>2, <1>3, <1>4 DEF SlaInv, PausesArePast, Since, Granted, SameSubmission

\* A save of the status, or of fields the SLA does not look at.
LEMMA StatusStep ==
    ASSUME SlaInv, ticket' \in SupportTicketRow, SameSla(ticket', ticket)
    PROVE  /\ PausesArePast(ticket', clock)
           /\ ~resubmitted => Granted(ticket')
           /\ \A copy : SameSubmission(copy, ticket) => SameSubmission(copy, ticket')
<1>1. PausesArePast(ticket, clock) /\ (~resubmitted => Granted(ticket))
  BY Zenon DEF SlaInv
<1> QED
  BY Zenon, <1>1 DEF SameSla, PausesArePast, Since, Granted, SameSubmission

LEMMA HandleStep ==
    ASSUME SlaInv, NEW r \in Requests, Handle(r)
    PROVE  SlaInv'
<1> DEFINE copy == r_ticket[r]
<1>1. /\ ticket \in SupportTicketRow /\ copy \in SupportTicketRow /\ clock \in 0..MaxClock
      /\ resubmitted \in BOOLEAN /\ reopenWindow \in BOOLEAN
      /\ PausesArePast(ticket, clock) /\ PausesArePast(copy, clock)
      /\ ~resubmitted => Granted(ticket) /\ Granted(copy) /\ SameSubmission(copy, ticket)
  BY Zenon DEF SlaInv, SupportTypeOK
<1>2. ticket.resolution_due_at \in Nat /\ copy.resolution_due_at \in Nat
  BY <1>1, RowTypes, SlaAssumption DEF Horizon
<1>3. CASE submit_ticket(r)
  <2> DEFINE row == _change_status(ticket, copy.status, "submitted")
  <2>1. row \in SupportTicketRow /\ SameSla(row, ticket)
    BY Zenon, <1>1, StatusKeepsSla DEF TicketStatus
  <2>2. /\ Respond(r) /\ UNCHANGED reopenWindow
        /\ resubmitted' = (resubmitted \/ ticket.resolution_due_at > 0)
        /\ \/ ticket' = row
           \/ \E first \in _calculate_sla_due_at(first_response_minutes),
                 resolution \in _calculate_sla_due_at(resolution_minutes) :
                ticket' = _apply_sla(row, first, resolution)
    BY Zenon, <1>3 DEF submit_ticket, SavesDraft
  <2> HIDE DEF row
  <2>3. PausesArePast(row, clock) /\ (Granted(ticket) => Granted(row))
        /\ row.resolution_due_at = ticket.resolution_due_at
    BY Zenon, <1>1, <2>1 DEF SameSla, PausesArePast, Since, Granted
  <2>4. ticket' \in SupportTicketRow /\ PausesArePast(ticket', clock)
    BY Zenon, <1>1, <2>1, <2>2, <2>3, SubmitGrants
  <2>5. ASSUME ~resubmitted'
        PROVE  /\ ~resubmitted /\ Granted(ticket')
               /\ \A q \in Requests :
                    SameSubmission(r_ticket[q], ticket) => SameSubmission(r_ticket[q], ticket')
    <3>1. ~resubmitted /\ ticket.resolution_due_at = 0
      <4>1. ~resubmitted /\ ~(ticket.resolution_due_at > 0)
        BY <2>2, <2>5, Zenon
      <4> QED
        BY <1>2, <4>1
    <3>2. Granted(ticket')
      BY Zenon, <1>1, <2>1, <2>2, <2>3, <3>1, SubmitGrants
    <3> QED
      BY <3>1, <3>2 DEF SameSubmission
  <2>6. resubmitted' \in BOOLEAN /\ reopenWindow' \in BOOLEAN
    BY Zenon, <1>1, <2>2
  <2> QED
    BY Zenon, <2>2, <2>4, <2>5, <2>6, SavedTicket
<1>4. CASE update_draft_ticket(r)
  <2>1. /\ Respond(r) /\ ticket' = copy /\ UNCHANGED reopenWindow
        /\ resubmitted' = (resubmitted \/ ticket.resolution_due_at > 0)
    BY Zenon, <1>4 DEF update_draft_ticket, SavesDraft
  <2>2. ASSUME ~resubmitted'
        PROVE  /\ ~resubmitted /\ Granted(ticket')
               /\ \A q \in Requests :
                    SameSubmission(r_ticket[q], ticket) => SameSubmission(r_ticket[q], ticket')
    <3>1. ~resubmitted /\ ticket.resolution_due_at = 0
      <4>1. ~resubmitted /\ ~(ticket.resolution_due_at > 0)
        BY <2>1, <2>2, Zenon
      <4> QED
        BY <1>2, <4>1
    <3> QED
      BY <1>1, <2>1, <3>1 DEF SameSubmission
  <2>3. resubmitted' \in BOOLEAN /\ reopenWindow' \in BOOLEAN
    BY Zenon, <1>1, <2>1
  <2> QED
    BY Zenon, <1>1, <2>1, <2>2, <2>3, SavedTicket
<1>5. CASE add_user_reply(r) \/ reopen_ticket(r)
  <2> DEFINE row == _resume_sla_if_needed(ticket, copy)
  <2>1. /\ row \in SupportTicketRow /\ PausesArePast(row, clock)
        /\ row.granted = ticket.granted
        /\ Granted(ticket) /\ Granted(copy) /\ SameSubmission(copy, ticket) =>
             Granted(row) /\ (ticket.resolution_due_at > 0 => row.resolution_due_at > 0)
    BY Zenon, <1>1, ResumeKeepsGrant
  <2>2. /\ Respond(r) /\ UNCHANGED <<resubmitted, reopenWindow>>
        /\ \E to \in TicketStatus : ticket' = _change_status(row, copy.status, to)
    BY Zenon, <1>5 DEF add_user_reply, reopen_ticket, TicketStatus
  <2> HIDE DEF row
  <2>3. ticket' \in SupportTicketRow /\ SameSla(ticket', row)
    BY Zenon, <2>1, <2>2, StatusKeepsSla
  <2>4. PausesArePast(ticket', clock) /\ (Granted(row) => Granted(ticket'))
    BY Zenon, <2>1, <2>3 DEF SameSla, PausesArePast, Since, Granted
  <2>5. ASSUME ~resubmitted, NEW q \in Requests, SameSubmission(r_ticket[q], ticket)
        PROVE  SameSubmission(r_ticket[q], ticket')
    BY Zenon, <1>1, <2>1, <2>3, <2>5 DEF SameSubmission, SameSla
  <2> QED
    BY Zenon, <1>1, <2>1, <2>2, <2>3, <2>4, <2>5, SavedTicket
<1>6. CASE add_admin_reply(r)
  <2> DEFINE told == [ticket EXCEPT !.responded = TRUE]
             row == _change_status(told, copy.status, "waiting_for_user")
  <2>1. told \in SupportTicketRow /\ SameSla(told, ticket)
    BY Zenon, <1>1 DEF SupportTicketRow, SameSla
  <2>2. row \in SupportTicketRow /\ SameSla(row, told)
    BY Zenon, <2>1, StatusKeepsSla DEF TicketStatus
  <2>3. /\ Respond(r) /\ UNCHANGED <<resubmitted, reopenWindow>>
        /\ ticket' = _pause_sla_if_needed(row, copy)
    BY Zenon, <1>6 DEF add_admin_reply
  <2> HIDE DEF told, row
  <2>4. /\ PausesArePast(row, clock) /\ (Granted(ticket) => Granted(row))
        /\ row.granted = ticket.granted
        /\ row.resolution_due_at = ticket.resolution_due_at
    BY Zenon, <1>1, <2>1, <2>2 DEF SameSla, PausesArePast, Since, Granted
  <2>5. /\ ticket' \in SupportTicketRow /\ PausesArePast(ticket', clock)
        /\ ticket'.granted = ticket.granted
        /\ ticket'.resolution_due_at = ticket.resolution_due_at
        /\ Granted(row) /\ SameSubmission(copy, row) => Granted(ticket')
    BY Zenon, <1>1, <2>2, <2>3, <2>4, PauseKeepsGrant
  <2>6. \A c : SameSubmission(c, ticket) => SameSubmission(c, row) /\ SameSubmission(c, ticket')
    BY Zenon, <2>4, <2>5 DEF SameSubmission
  <2> QED
    BY Zenon, <1>1, <2>3, <2>4, <2>5, <2>6, SavedTicket
<1>7. ASSUME NEW to \in TicketStatus, change_ticket_status(r, to)
      PROVE  SlaInv'
  <2>1. /\ Respond(r) /\ UNCHANGED resubmitted /\ reopenWindow' \in BOOLEAN
        /\ ticket' = _change_status(ticket, copy.status, to)
    BY Zenon, <1>1, <1>7 DEF change_ticket_status, ClosedOrResolved
  <2>2. ticket' \in SupportTicketRow /\ SameSla(ticket', ticket)
    BY Zenon, <1>1, <2>1, StatusKeepsSla
  <2> QED
    BY Zenon, <1>1, <2>1, <2>2, StatusStep, SavedTicket
<1>8. CASE Refuse(r)
  BY Zenon, <1>1, <1>8, SavedTicket DEF Refuse
<1> QED
  BY Zenon, <1>3, <1>4, <1>5, <1>6, <1>7, <1>8, StatusesAreStatuses
  DEF Handle, resolve_ticket, close_ticket, escalate_ticket, TicketStatus

LEMMA SlaStep == SlaInv /\ [SupportNext]_supportVars => SlaInv'
<1> SUFFICES ASSUME SlaInv, [SupportNext]_supportVars PROVE SlaInv'
  OBVIOUS
<1>1. ASSUME NEW r \in Requests, Load(r)
      PROVE  SlaInv'
  <2>1. /\ UNCHANGED <<ticket, clock, resubmitted, reopenWindow, sweepVars>>
        /\ r_pc' \in [Requests -> {"idle", "loaded"}]
        /\ \A q \in Requests : r_ticket'[q] \in {ticket, r_ticket[q]}
        /\ r_ticket' \in [Requests -> SupportTicketRow]
    BY Zenon, <1>1 DEF Load, SlaInv, SupportTypeOK
  <2>2. SupportTypeOK'
    BY Zenon, <2>1 DEF SlaInv, SupportTypeOK, sweepVars
  <2>3. ASSUME NEW q \in Requests
        PROVE  /\ PausesArePast(r_ticket'[q], clock)
               /\ ~resubmitted => Granted(r_ticket'[q]) /\ SameSubmission(r_ticket'[q], ticket)
    <3>1. CASE r_ticket'[q] = ticket
      BY Zenon, <3>1 DEF SlaInv, SameSubmission
    <3>2. CASE r_ticket'[q] = r_ticket[q]
      BY Zenon, <3>2 DEF SlaInv
    <3> QED
      BY Zenon, <2>1, <3>1, <3>2
  <2> QED
    BY Zenon, <2>1, <2>2, <2>3 DEF SlaInv, PausesArePast, Since, Granted, SameSubmission
\* The row changes in nothing the SLA looks at, and the copies not at all.
<1>2. ASSUME ticket' \in SupportTicketRow, SameSla(ticket', ticket),
             UNCHANGED <<clock, resubmitted, requestVars>>, reopenWindow' \in BOOLEAN,
             k_pc' \in [Sweepers -> {"idle", "selected"}], k_status' \in [Sweepers -> TicketStatus]
      PROVE  SlaInv'
  <2>1. SupportTypeOK'
    BY Zenon, <1>2 DEF SlaInv, SupportTypeOK, requestVars
  <2>2. /\ PausesArePast(ticket', clock) /\ (~resubmitted => Granted(ticket'))
        /\ \A copy : SameSubmission(copy, ticket) => SameSubmission(copy, ticket')
    BY Zenon, <1>2, StatusStep
  <2>3. clock' = clock /\ resubmitted' = resubmitted /\ r_ticket' = r_ticket
    BY Zenon, <1>2 DEF requestVars
  <2> QED
    BY Zenon, <2>1, <2>2, <2>3 DEF SlaInv, PausesArePast, Since, Granted, SameSubmission
<1>3. ASSUME NEW k \in Sweepers, SelectBreach(k) \/ SaveBreach(k)
      PROVE  SlaInv'
  <2>1. CASE SelectBreach(k)
    <3>1. /\ UNCHANGED <<ticket, clock, resubmitted, reopenWindow, requestVars>>
          /\ k_pc' \in [Sweepers -> {"idle", "selected"}]
          /\ k_status' \in [Sweepers -> TicketStatus]
      BY Zenon, <2>1, RowTypes DEF SelectBreach, SlaInv, SupportTypeOK
    <3>2. SameSla(ticket', ticket)
      BY Zenon, <3>1 DEF SameSla
    <3> QED
      BY Zenon, <1>2, <3>1, <3>2 DEF SlaInv, SupportTypeOK
  <2>2. CASE SaveBreach(k)
    <3> DEFINE marked == [ticket EXCEPT !.breached = TRUE]
    <3>1. marked \in SupportTicketRow /\ SameSla(marked, ticket)
      BY Zenon DEF SlaInv, SupportTypeOK, SupportTicketRow, SameSla
    <3>2. /\ UNCHANGED <<clock, resubmitted, reopenWindow, requestVars>>
          /\ k_pc' \in [Sweepers -> {"idle", "selected"}]
          /\ k_status' \in [Sweepers -> TicketStatus]
          /\ ticket' \in {marked, _change_status(marked, k_status[k], "escalated")}
      BY Zenon, <2>2 DEF SaveBreach, SlaInv, SupportTypeOK, TicketStatus
    <3> HIDE DEF marked
    <3>3. ticket' \in SupportTicketRow /\ SameSla(ticket', marked)
      BY <3>1, <3>2, StatusKeepsSla DEF TicketStatus, SameSla
    <3>4. SameSla(ticket', ticket)
      BY Zenon, <3>1, <3>3 DEF SameSla
    <3> QED
      BY Zenon, <1>2, <3>2, <3>3, <3>4 DEF SlaInv, SupportTypeOK
  <2> QED
    BY Zenon, <1>3, <2>1, <2>2
<1>4. CASE cleanup_stale_support_drafts_task
  <2>1. ticket' \in SupportTicketRow /\ SameSla(ticket', ticket)
    BY Zenon, <1>4 DEF cleanup_stale_support_drafts_task, SlaInv, SupportTypeOK, SupportTicketRow,
                SameSla, TicketStatus
  <2> QED
    BY Zenon, <1>2, <1>4, <2>1
    DEF cleanup_stale_support_drafts_task, SlaInv, SupportTypeOK, sweepVars
<1>5. CASE Minute
  <2>1. /\ UNCHANGED <<ticket, resubmitted, reopenWindow, requestVars, sweepVars>>
        /\ clock' = clock + 1 /\ clock' \in 0..MaxClock /\ clock \in Nat
    BY <1>5, SlaAssumption DEF Minute, SlaInv, SupportTypeOK
  <2>2. SupportTypeOK'
    BY Zenon, <2>1 DEF SlaInv, SupportTypeOK, requestVars, sweepVars
  <2>3. ASSUME NEW row \in SupportTicketRow, PausesArePast(row, clock)
        PROVE  PausesArePast(row, clock')
    BY <2>1, <2>3, RowTypes, SlaAssumption DEF PausesArePast, Since, None, Horizon
  <2>4. /\ PausesArePast(ticket, clock')
        /\ \A r \in Requests : PausesArePast(r_ticket[r], clock')
    BY Zenon, <2>3 DEF SlaInv, SupportTypeOK
  <2> QED
    BY Zenon, <2>1, <2>2, <2>4
    DEF SlaInv, PausesArePast, Since, Granted, SameSubmission, requestVars
<1>6. CASE ReopenWindowPasses \/ UNCHANGED supportVars
  <2>1. UNCHANGED <<ticket, clock, resubmitted, requestVars, sweepVars>>
        /\ reopenWindow' \in BOOLEAN
    BY Zenon, <1>6
    DEF ReopenWindowPasses, supportVars, requestVars, sweepVars, SlaInv, SupportTypeOK
  <2>2. SameSla(ticket', ticket)
    BY Zenon, <2>1 DEF SameSla
  <2> QED
    BY Zenon, <1>2, <2>1, <2>2 DEF SlaInv, SupportTypeOK, sweepVars
<1> QED
  BY Zenon, <1>1, <1>3, <1>4, <1>5, <1>6, HandleStep DEF SupportNext, mark_sla_breaches

\* The invariant holds throughout: every copy of the ticket agrees with the row
\* on the submission it is of, through any overlapping requests.
THEOREM SlaInvariance == SupportSpec => []SlaInv
BY SlaInitially, SlaStep, PTL DEF SupportSpec

\* The row and the copies keep their types: no due time runs beyond what the
\* policy and the pauses allow.
THEOREM SupportTypeCorrect == SupportSpec => []SupportTypeOK
<1>1. SlaInv => SupportTypeOK
  BY Zenon DEF SlaInv
<1> QED
  BY <1>1, SlaInvariance, PTL

\* The time granted is the policy's plus exactly the pauses counted, whatever
\* requests overlap (_pause_sla_if_needed, _resume_sla_if_needed).
THEOREM DueAlwaysMovesWithPauses == SupportSpec => []DueMovesWithPauses
<1>1. SlaInv => DueMovesWithPauses
  BY RowTypes DEF SlaInv, SupportTypeOK, Granted, DueMovesWithPauses
<1> QED
  BY <1>1, SlaInvariance, PTL

-----------------------------------------------------------------------------
(* BusinessCalendar. The working time behind the loops is at least what they  *)
(* have counted, in half-minutes; with opening hours of whole minutes at most *)
(* one half-minute is lost, and only before the loops have come to an opening. *)

Elapsed == WorkingTime(start_at, current)
Counted == 2 * (minutes - remaining)

AtOpening == current = Opening(Day(current))

OnTheClock ==
    /\ Elapsed >= Counted
    /\ WholeHours => Elapsed = Counted \/ (Elapsed = Counted + 1 /\ AtOpening)

CalendarInv ==
    /\ workday_start \in Times /\ workday_end \in Times
    /\ start_at \in Nat /\ minutes \in Nat /\ remaining \in 0..minutes /\ current \in Nat
    /\ current >= start_at
    /\ b_pc \in {"next", "consume", "done"}
    /\ b_pc = "consume" => WorkingDay(Day(current)) /\ Opening(Day(current)) <= current
    /\ b_pc # "done" => remaining > 0 /\ OnTheClock
    /\ DueAfterTheMinutes /\ NoHoursNoEnd

-----------------------------------------------------------------------------
\* A day is the whole number of day lengths before an instant.
LEMMA DayBounds ==
  ASSUME NEW t \in Nat
  PROVE Day(t) \in Nat /\ Day(t) * DayLength <= t /\ t < Day(t) * DayLength + DayLength
<1>1. DayLength \in Nat \ {0}
  BY CalendarAssumption
<1> QED
  BY <1>1 DEF Day

\* ... and the only such number.
LEMMA DayIsUnique ==
  ASSUME NEW t \in Nat, NEW d \in Nat, d * DayLength <= t, t < d * DayLength + DayLength
  PROVE Day(t) = d
<1>1. DayLength \in Nat \ {0}
  BY CalendarAssumption
<1>2. Day(t) \in Nat /\ Day(t) * DayLength <= t /\ t < Day(t) * DayLength + DayLength
  BY Zenon, DayBounds
<1>3. ASSUME NEW a \in Nat, NEW b \in Nat, a < b PROVE a * DayLength + DayLength <= b * DayLength
  <2>1. PICK k \in Nat : b = a + 1 + k
    <3>1. b - a - 1 \in Nat /\ b = a + 1 + (b - a - 1)
      BY <1>3
    <3> QED
      BY Zenon, <3>1
  <2>2. b * DayLength = a * DayLength + DayLength + k * DayLength
    BY <1>1, <2>1
  <2>3. k * DayLength \in Nat /\ a * DayLength \in Nat
    BY <1>1
  <2> QED
    BY <1>1, <2>2, <2>3
<1>4. d * DayLength \in Nat /\ Day(t) * DayLength \in Nat
  BY <1>1, <1>2
<1>5. ~(Day(t) < d)
  BY <1>1, <1>2, <1>3, <1>4
<1>6. ~(d < Day(t))
  BY <1>1, <1>2, <1>3, <1>4
<1> QED
  BY <1>2, <1>5, <1>6

\* The hours of a day lie within it.
LEMMA Hours ==
  ASSUME NEW d \in Nat, workday_start \in Times, workday_end \in Times
  PROVE /\ d * DayLength \in Nat /\ Opening(d) \in Nat /\ Closing(d) \in Nat
        /\ d * DayLength <= Opening(d) /\ Opening(d) < d * DayLength + DayLength
        /\ Closing(d) <= d * DayLength + DayLength
        /\ Opening(d + 1) = Opening(d) + DayLength
        /\ d * DayLength + DayLength = (d + 1) * DayLength
        /\ Day(Opening(d)) = d
<1>1. /\ DayLength \in Nat \ {0} /\ workday_start \in Nat /\ workday_end \in Nat
      /\ workday_start < DayLength /\ workday_end < DayLength
  BY CalendarAssumption DEF Times
<1>2. d * DayLength \in Nat /\ (d + 1) * DayLength = d * DayLength + DayLength
  BY <1>1
<1>3. /\ Opening(d) \in Nat /\ Closing(d) \in Nat
      /\ d * DayLength <= Opening(d) /\ Opening(d) < d * DayLength + DayLength
      /\ Closing(d) <= d * DayLength + DayLength
      /\ Opening(d + 1) = Opening(d) + DayLength
  BY <1>1, <1>2 DEF Opening, Closing
<1>4. Day(Opening(d)) = d
  BY <1>1, <1>2, <1>3, DayIsUnique
<1> QED
  BY Zenon, <1>2, <1>3, <1>4

\* Before the next opening the working time is that of the day's hours.
LEMMA UntilNextOpening ==
  ASSUME NEW t \in Nat, NEW u \in Nat, t <= u, u < Opening(Day(t) + 1),
         workday_start \in Times, workday_end \in Times
  PROVE Working(u) <=> WorkingDay(Day(t)) /\ Opening(Day(t)) <= u /\ u < Closing(Day(t))
<1> DEFINE d == Day(t)
<1>1. d \in Nat /\ d * DayLength <= t /\ t < d * DayLength + DayLength
  BY Zenon, DayBounds
<1> HIDE DEF d
<1>2. DayLength \in Nat \ {0}
  BY CalendarAssumption
<1>3. /\ d * DayLength \in Nat /\ Opening(d) \in Nat /\ Closing(d) \in Nat
      /\ Closing(d) <= d * DayLength + DayLength /\ Opening(d + 1) = Opening(d) + DayLength
      /\ d * DayLength + DayLength = (d + 1) * DayLength /\ Opening(d) < d * DayLength + DayLength
  BY Zenon, <1>1, Hours
<1>4. CASE u < d * DayLength + DayLength
  <2>1. Day(u) = d
    BY <1>1, <1>2, <1>3, <1>4, DayIsUnique
  <2> QED
    BY Zenon, <2>1 DEF Working, d
<1>5. CASE ~(u < d * DayLength + DayLength)
  <2>1. u < (d + 1) * DayLength + DayLength
    BY <1>1, <1>2, <1>3, <1>5 DEF d
  <2>2. Day(u) = d + 1
    BY <1>1, <1>2, <1>3, <1>5, <2>1, DayIsUnique
  <2>3. ~Working(u)
    <3>1. u < Opening(d + 1) /\ Opening(d + 1) \in Nat
      BY <1>2, <1>3 DEF d
    <3> QED
      BY <2>2, <3>1 DEF Working
  <2>4. ~(u < Closing(d))
    BY <1>1, <1>2, <1>3, <1>5
  <2> QED
    BY Zenon, <2>3, <2>4 DEF d
<1> QED
  BY Zenon, <1>4, <1>5

-----------------------------------------------------------------------------
\* Working time adds up.
LEMMA TimeAddsUp ==
  ASSUME NEW a \in Nat, NEW b \in Nat, NEW c \in Nat, a <= b, b <= c
  PROVE /\ WorkingTime(a, b) \in Nat /\ WorkingTime(b, c) \in Nat
        /\ WorkingTime(a, c) = WorkingTime(a, b) + WorkingTime(b, c)
<1> DEFINE W(x, y) == {t \in x..(y - 1) : Working(t)}
<1>1. ASSUME NEW x \in Nat, NEW y \in Nat PROVE IsFiniteSet(W(x, y))
  <2>1. IsFiniteSet(x..(y - 1))
    BY FS_Interval
  <2> QED
    BY Zenon, <2>1, FS_Subset
<1>2. W(a, c) = W(a, b) \cup W(b, c) /\ W(a, b) \cap W(b, c) = {}
  OBVIOUS
<1>3. IsFiniteSet(W(a, b)) /\ IsFiniteSet(W(b, c))
  BY Zenon, <1>1
<1>4. Cardinality(W(a, b)) \in Nat /\ Cardinality(W(b, c)) \in Nat
  BY Zenon, <1>3, FS_CardinalityType
<1>5. Cardinality(W(a, b) \cup W(b, c)) = Cardinality(W(a, b)) + Cardinality(W(b, c))
  <2>1. Cardinality(W(a, b) \cap W(b, c)) = 0
    BY Zenon, <1>2, FS_EmptySet
  <2>2. Cardinality(W(a, b) \cup W(b, c))
           = Cardinality(W(a, b)) + Cardinality(W(b, c)) - Cardinality(W(a, b) \cap W(b, c))
    BY Zenon, <1>3, FS_Union
  <2> QED
    BY <1>4, <2>1, <2>2
<1> QED
  BY Zenon, <1>2, <1>4, <1>5 DEF WorkingTime

\* A stretch of working time counts in full.
LEMMA AllWorking ==
  ASSUME NEW b \in Nat, NEW c \in Nat, b <= c, \A t \in b..(c - 1) : Working(t)
  PROVE WorkingTime(b, c) = c - b
<1>1. {t \in b..(c - 1) : Working(t)} = b..(c - 1)
  BY Zenon
<1>2. Cardinality(b..(c - 1)) = c - b
  <2>1. Cardinality(b..(c - 1)) = IF b > c - 1 THEN 0 ELSE c - 1 - b + 1
    <3>1. b \in Int /\ c - 1 \in Int
      OBVIOUS
    <3> QED
      BY <3>1, FS_Interval, Zenon
  <2> QED
    BY <2>1
<1> QED
  BY Zenon, <1>1, <1>2 DEF WorkingTime

\* One without any counts nothing.
LEMMA NoneWorking ==
  ASSUME NEW b \in Nat, NEW c \in Nat, \A t \in b..(c - 1) : ~Working(t)
  PROVE WorkingTime(b, c) = 0
<1>1. {t \in b..(c - 1) : Working(t)} = {}
  BY Zenon
<1> QED
  BY Zenon, <1>1, FS_EmptySet DEF WorkingTime

-----------------------------------------------------------------------------
\* The calendar does not change, so the clock is read with the same hours.
LEMMA SameCalendar ==
  ASSUME given' = given
  PROVE /\ Elapsed' = WorkingTime(start_at, current')
        /\ Working(current)' <=> Working(current')
        /\ AtOpening' <=> current' = Opening(Day(current'))
        /\ WholeHours' <=> WholeHours
<1>1. Elapsed' = WorkingTime(start_at, current')
  BY Zenon DEF given, Elapsed, WorkingTime, Working, WorkingDay, Opening, Closing, Day
<1>2. Working(current)' <=> Working(current')
  BY Zenon DEF given, Working, WorkingDay, Opening, Closing, Day
<1>3. AtOpening' <=> current' = Opening(Day(current'))
  BY Zenon DEF given, AtOpening, Opening, Day
<1>4. WholeHours' <=> WholeHours
  BY Zenon DEF given, WholeHours
<1> QED
  BY Zenon, <1>1, <1>2, <1>3, <1>4

\* What a round starts from: the day of the current instant and its hours.
LEMMA TheDay ==
  ASSUME CalendarInv, NEW d, d = Day(current)
  PROVE /\ d \in Nat /\ Opening(d) \in Nat /\ Closing(d) \in Nat /\ Opening(d + 1) \in Nat
        /\ Opening(d) < Opening(d + 1) /\ Closing(d) <= Opening(d + 1)
        /\ current < Opening(d + 1)
        /\ Day(Opening(d + 1)) = d + 1
        /\ Day(Opening(d)) = d
<1>1. current \in Nat /\ workday_start \in Times /\ workday_end \in Times
  BY Zenon DEF CalendarInv
<1>2. d \in Nat /\ d * DayLength <= current /\ current < d * DayLength + DayLength
  BY Zenon, <1>1, DayBounds
<1>3. /\ d * DayLength \in Nat /\ Opening(d) \in Nat /\ Closing(d) \in Nat
      /\ d * DayLength <= Opening(d)
      /\ Closing(d) <= d * DayLength + DayLength /\ Opening(d + 1) = Opening(d) + DayLength
      /\ Day(Opening(d)) = d
  BY Zenon, <1>1, <1>2, Hours
<1>4. d + 1 \in Nat
  BY <1>2
<1>5. Day(Opening(d + 1)) = d + 1 /\ Opening(d + 1) \in Nat
  BY Zenon, <1>1, <1>4, Hours
<1>6. DayLength \in Nat \ {0}
  BY Zenon, CalendarAssumption
<1> QED
  BY <1>1, <1>2, <1>3, <1>5, <1>6

\* The clock of a later instant is that of the current one and what lies between.
LEMMA ClockAddsUp ==
  ASSUME CalendarInv, NEW to \in Nat, current <= to
  PROVE Elapsed \in Nat /\ WorkingTime(start_at, to) = Elapsed + WorkingTime(current, to)
<1>1. start_at \in Nat /\ current \in Nat /\ start_at <= current
  BY Zenon DEF CalendarInv
<1>2. /\ WorkingTime(start_at, current) \in Nat
      /\ WorkingTime(start_at, to) = WorkingTime(start_at, current) + WorkingTime(current, to)
  BY <1>1, TimeAddsUp
<1> QED
  BY Zenon, <1>2 DEF Elapsed

\* Time without working hours leaves the clock where it was.
LEMMA ClockStands ==
  ASSUME CalendarInv, NEW to \in Nat, current <= to,
         \A u \in current..(to - 1) : ~Working(u)
  PROVE WorkingTime(start_at, to) = Elapsed
<1>1. current \in Nat
  BY Zenon DEF CalendarInv
<1>2. WorkingTime(current, to) = 0
  BY Zenon, <1>1, NoneWorking
<1>3. Elapsed \in Nat /\ WorkingTime(start_at, to) = Elapsed + WorkingTime(current, to)
  BY Zenon, ClockAddsUp
<1> QED
  BY <1>2, <1>3

\* Within the hours of the day it runs.
LEMMA ClockRuns ==
  ASSUME CalendarInv, Working(current), NEW to \in Nat, current <= to, to <= Closing(Day(current))
  PROVE WorkingTime(start_at, to) = Elapsed + (to - current) /\ Elapsed \in Nat
<1> DEFINE d == Day(current)
<1>1. /\ start_at \in Nat /\ current \in Nat /\ start_at <= current
      /\ workday_start \in Times /\ workday_end \in Times
  BY Zenon DEF CalendarInv
<1>2. WorkingDay(d) /\ Opening(d) <= current
  BY Zenon DEF Working
<1>3. /\ d \in Nat /\ Opening(d) \in Nat /\ Closing(d) \in Nat
      /\ Closing(d) <= Opening(d + 1) /\ Opening(d + 1) \in Nat
  BY Zenon, TheDay
<1>4. ASSUME NEW u \in current..(to - 1) PROVE Working(u)
  <2>1. u \in Nat /\ current <= u /\ u < Closing(d) /\ u < Opening(d + 1) /\ Opening(d) <= u
    BY <1>1, <1>2, <1>3
  <2> QED
    BY Zenon, <1>1, <1>2, <2>1, UntilNextOpening
<1>5. WorkingTime(current, to) = to - current
  BY Zenon, <1>1, <1>4, AllWorking
<1>6. Elapsed \in Nat /\ WorkingTime(start_at, to) = Elapsed + WorkingTime(current, to)
  BY Zenon, ClockAddsUp
<1> QED
  BY Zenon, <1>5, <1>6

\* From a working instant to the next opening it runs until the closing.
LEMMA RestOfTheDay ==
  ASSUME CalendarInv, Working(current)
  PROVE WorkingTime(start_at, Opening(Day(current) + 1)) = Elapsed + (Closing(Day(current)) - current)
<1> DEFINE d == Day(current)
<1>1. /\ start_at \in Nat /\ current \in Nat /\ start_at <= current
      /\ workday_start \in Times /\ workday_end \in Times
  BY Zenon DEF CalendarInv
<1>2. /\ d \in Nat /\ Closing(d) \in Nat /\ Opening(d + 1) \in Nat /\ Closing(d) <= Opening(d + 1)
  BY Zenon, TheDay
<1>3. current < Closing(d)
  BY Zenon DEF Working
<1>4. WorkingTime(start_at, Closing(d)) = Elapsed + (Closing(d) - current) /\ Elapsed \in Nat
  BY <1>1, <1>2, <1>3, ClockRuns
<1>5. ASSUME NEW u \in Closing(d)..(Opening(d + 1) - 1) PROVE ~Working(u)
  <2>1. u \in Nat /\ current <= u /\ u < Opening(d + 1) /\ ~(u < Closing(d))
    BY <1>1, <1>2, <1>3, <1>5
  <2> QED
    BY Zenon, <1>1, <2>1, UntilNextOpening
<1>6. WorkingTime(Closing(d), Opening(d + 1)) = 0
  BY Zenon, <1>2, <1>5, NoneWorking
<1>7. WorkingTime(start_at, Opening(d + 1))
         = WorkingTime(start_at, Closing(d)) + WorkingTime(Closing(d), Opening(d + 1))
  BY <1>1, <1>2, <1>3, TimeAddsUp
<1> QED
  BY <1>1, <1>2, <1>4, <1>6, <1>7

-----------------------------------------------------------------------------
\* A round of _next_working_instant passes no working time.
LEMMA NextInstantStep ==
  ASSUME CalendarInv, _next_working_instant
  PROVE CalendarInv'
<1> DEFINE d == Day(current)
<1>1. /\ workday_start \in Times /\ workday_end \in Times
      /\ start_at \in Nat /\ minutes \in Nat /\ remaining \in 0..minutes /\ current \in Nat
      /\ current >= start_at /\ remaining > 0 /\ OnTheClock
  BY Zenon DEF CalendarInv, _next_working_instant
<1>2. given' = given /\ remaining' = remaining /\ b_pc = "next"
  BY Zenon DEF _next_working_instant
<1>3. Counted' = Counted
  BY Zenon, <1>2 DEF Counted, given
<1>4. /\ d \in Nat /\ Opening(d) \in Nat /\ Closing(d) \in Nat /\ Opening(d + 1) \in Nat
      /\ Opening(d) < Opening(d + 1) /\ Closing(d) <= Opening(d + 1)
      /\ current < Opening(d + 1)
      /\ Day(Opening(d + 1)) = d + 1 /\ Day(Opening(d)) = d
  BY Zenon, TheDay
<1>5. /\ Elapsed' = WorkingTime(start_at, current')
      /\ Working(current)' <=> Working(current')
      /\ AtOpening' <=> current' = Opening(Day(current'))
      /\ WholeHours' <=> WholeHours
  BY Zenon, <1>2, SameCalendar
<1>6. ASSUME b_pc' \in {"next", "consume"}, current' \in Nat, current <= current',
             b_pc' = "consume" => WorkingDay(Day(current')) /\ Opening(Day(current')) <= current',
             Elapsed' = Elapsed, AtOpening => AtOpening'
      PROVE  CalendarInv'
  <2>1. OnTheClock'
    BY Zenon, <1>1, <1>3, <1>5, <1>6 DEF OnTheClock
  <2>2. current' >= start_at'
    BY <1>1, <1>2, <1>6 DEF given
  <2> QED
    BY Zenon, <1>1, <1>2, <1>5, <1>6, <2>1, <2>2
    DEF CalendarInv, DueAfterTheMinutes, NoHoursNoEnd, WorkingDay, Opening, Day, given, Times
<1>7. CASE WorkingDay(d) /\ (current < Opening(d) \/ current < Closing(d))
  <2>1. b_pc' = "consume" /\ current' = IF current < Opening(d) THEN Opening(d) ELSE current
    BY Zenon, <1>7, <1>2 DEF _next_working_instant
  <2>2. /\ current' \in Nat /\ current <= current'
        /\ Opening(d) <= current' /\ current' < Opening(d + 1)
    BY <1>1, <1>4, <1>7, <2>1
  <2>3. WorkingDay(Day(current')) /\ Opening(Day(current')) <= current'
    <3>1. Day(current') = d
      BY Zenon, <1>4, <2>1
    <3> QED
      BY Zenon, <1>7, <2>2, <3>1
  <2>4. ASSUME NEW u \in current..(current' - 1) PROVE ~Working(u)
    <3>1. u \in Nat /\ current <= u /\ u < Opening(d) /\ u < Opening(d + 1)
      BY <1>1, <1>4, <2>1, <2>2
    <3>2. ~(Opening(d) <= u)
      BY <1>4, <3>1
    <3> QED
      BY Zenon, <1>1, <3>1, <3>2, UntilNextOpening
  <2>5. Elapsed' = Elapsed
    BY Zenon, <1>5, <2>2, <2>4, ClockStands
  <2>6. AtOpening => AtOpening'
    <3>1. ASSUME AtOpening PROVE current' = current
      BY Zenon, <1>1, <1>4, <2>1, <3>1 DEF AtOpening
    <3> QED
      BY Zenon, <1>5, <3>1 DEF AtOpening
  <2> QED
    BY Zenon, <1>6, <2>1, <2>2, <2>3, <2>5, <2>6
<1>8. CASE ~(WorkingDay(d) /\ (current < Opening(d) \/ current < Closing(d)))
  <2>1. b_pc' = "next" /\ current' = Opening(d + 1)
    BY Zenon, <1>8, <1>2 DEF _next_working_instant
  <2>2. ASSUME NEW u \in current..(current' - 1) PROVE ~Working(u)
    <3>1. u \in Nat /\ current <= u /\ u < Opening(d + 1)
      BY <1>1, <1>4, <2>1
    <3>2. ~(WorkingDay(d) /\ u < Closing(d))
      BY <1>1, <1>4, <1>8, <3>1
    <3> QED
      BY Zenon, <1>1, <3>1, <3>2, UntilNextOpening
  <2>3. current' \in Nat /\ current <= current'
    BY <1>1, <1>4, <2>1
  <2>4. Elapsed' = Elapsed
    BY Zenon, <1>5, <2>2, <2>3, ClockStands
  <2>5. AtOpening'
    BY Zenon, <1>4, <1>5, <2>1
  <2> QED
    BY Zenon, <1>6, <2>1, <2>3, <2>4, <2>5
<1> QED
  BY Zenon, <1>7, <1>8

\* A round of add_business_minutes counts the whole minutes it passes; with hours of
\* whole minutes only a day that was not entered at its opening can lose half a minute.
LEMMA ConsumeStep ==
  ASSUME CalendarInv, add_business_minutes
  PROVE CalendarInv'
<1> DEFINE d == Day(current)
           left == Closing(d) - current
           available == IF current < Closing(d) THEN left \div 2 ELSE 0
<1>1. /\ workday_start \in Times /\ workday_end \in Times
      /\ start_at \in Nat /\ minutes \in Nat /\ remaining \in 0..minutes /\ current \in Nat
      /\ current >= start_at /\ remaining > 0
      /\ WorkingDay(d) /\ Opening(d) <= current
  BY Zenon DEF CalendarInv, add_business_minutes
<1>2. given' = given /\ OnTheClock
  BY Zenon DEF CalendarInv, add_business_minutes
<1>3. /\ d \in Nat /\ Opening(d) \in Nat /\ Closing(d) \in Nat /\ Opening(d + 1) \in Nat
      /\ Opening(d) < Opening(d + 1) /\ Closing(d) <= Opening(d + 1)
      /\ current < Opening(d + 1) /\ Day(Opening(d + 1)) = d + 1
  BY Zenon, TheDay
<1>4. /\ Elapsed' = WorkingTime(start_at, current')
      /\ AtOpening' <=> current' = Opening(Day(current'))
      /\ WholeHours' <=> WholeHours
  BY Zenon, <1>2, SameCalendar
<1>5. Counted \in Nat /\ Elapsed \in Nat
  BY <1>1, ClockAddsUp DEF Counted
<1>6. /\ available \in Nat
      /\ current < Closing(d) => left \in Nat /\ (left = 2 * available \/ left = 2 * available + 1)
      /\ ~(current < Closing(d)) => available = 0
  BY <1>1, <1>3
<1>7. Closing(d) - Opening(d) = workday_end - workday_start
      /\ workday_end - workday_start \in Int
  BY <1>1, <1>3, CalendarAssumption DEF Opening, Closing, Times
<1>8. CASE available >= remaining
  <2> HIDE DEF available
  <2>1. current' = current + 2 * remaining /\ b_pc' = "done" /\ remaining' = remaining
    BY Zenon, <1>8 DEF add_business_minutes, available
  <2>2. current < Closing(d) /\ left \in Nat /\ left >= 2 * available /\ available > 0
    <3> HIDE DEF left, d
    <3> QED
      BY <1>1, <1>6, <1>8
  <2>3. current' \in Nat /\ current <= current' /\ current' <= Closing(d)
    BY <1>1, <1>3, <1>6, <1>8, <2>1, <2>2
  <2>4. Working(current)
    BY Zenon, <1>1, <2>2 DEF Working
  <2>5. Elapsed' = Elapsed + 2 * remaining
    <3>1. Elapsed' = Elapsed + (current' - current)
      BY Zenon, <1>4, <2>3, <2>4, ClockRuns
    <3> QED
      BY <1>1, <1>5, <2>1, <3>1
  <2>6. Elapsed' >= 2 * minutes /\ (WholeHours => Elapsed' < 2 * minutes + 2)
    <3>1. Elapsed >= Counted /\ (WholeHours => Elapsed = Counted \/ Elapsed = Counted + 1)
      BY Zenon, <1>2 DEF OnTheClock
    <3> HIDE DEF WholeHours
    <3> QED
      BY <1>1, <1>5, <2>5, <3>1 DEF Counted
  <2>7. DueAfterTheMinutes'
    BY Zenon, <1>2, <1>4, <2>6 DEF DueAfterTheMinutes, Elapsed, given
  <2>8. current' >= start_at'
    BY <1>1, <1>2, <2>3 DEF given
  <2>9. workday_end - workday_start >= 2
    BY <1>1, <1>3, <1>6, <1>7, <2>2
  <2>10. NoHoursNoEnd'
    BY <1>2, <1>7, <2>9 DEF NoHoursNoEnd, given
  <2> QED
    BY Zenon, <1>1, <1>2, <2>1, <2>3, <2>7, <2>8, <2>10 DEF CalendarInv, given, Times
<1>9. CASE ~(available >= remaining)
  <2> HIDE DEF available
  <2>1. /\ current' = Opening(d + 1) /\ b_pc' = "next" /\ remaining' = remaining - available
    BY Zenon, <1>9 DEF add_business_minutes, available
  <2>2. remaining' \in 0..minutes /\ remaining' > 0
    BY <1>1, <1>6, <1>9, <2>1
  <2>3. current' \in Nat /\ current <= current' /\ current' >= start_at'
    BY <1>1, <1>2, <1>3, <2>1 DEF given
  <2>4. AtOpening'
    BY Zenon, <1>3, <1>4, <2>1
  <2>5. Counted' = Counted + 2 * available
    BY <1>1, <1>2, <1>6, <2>1 DEF Counted, given
  <2>6. OnTheClock'
    <3>1. CASE current < Closing(d)
      <4>1. Elapsed' = Elapsed + left
        <5>1. Working(current)
          BY Zenon, <1>1, <3>1 DEF Working
        <5> QED
          BY Zenon, <1>4, <2>1, <5>1, RestOfTheDay
      <4>2. Elapsed' >= Counted'
        BY <1>2, <1>5, <1>6, <2>5, <3>1, <4>1 DEF OnTheClock
      <4>3. ASSUME WholeHours PROVE Elapsed' = Counted' \/ Elapsed' = Counted' + 1
        <5>1. CASE Elapsed = Counted
          <6> HIDE DEF left
          <6> QED
            BY <1>5, <1>6, <2>5, <3>1, <4>1, <5>1
        <5>2. CASE Elapsed = Counted + 1 /\ AtOpening
          <6>1. left = workday_end - workday_start
            BY Zenon, <1>7, <5>2 DEF AtOpening
          <6>2. left % 2 = 0
            BY Zenon, <4>3, <6>1 DEF WholeHours
          <6> HIDE DEF left
          <6>3. left = 2 * available
            BY <1>6, <3>1, <6>2
          <6> QED
            BY <1>5, <1>6, <2>5, <4>1, <5>2, <6>3
        <5> QED
          BY Zenon, <1>2, <4>3, <5>1, <5>2 DEF OnTheClock
      <4> QED
        BY Zenon, <1>4, <2>4, <4>2, <4>3 DEF OnTheClock
    <3>2. CASE ~(current < Closing(d))
      <4>1. ASSUME NEW u \in current..(Opening(d + 1) - 1) PROVE ~Working(u)
        <5>1. u \in Nat /\ current <= u /\ u < Opening(d + 1) /\ ~(u < Closing(d))
          BY <1>1, <1>3, <3>2
        <5> QED
          BY Zenon, <1>1, <5>1, UntilNextOpening
      <4>2. Elapsed' = Elapsed
        BY Zenon, <1>3, <1>4, <2>1, <2>3, <4>1, ClockStands
      <4>3. Counted' = Counted
        BY <1>5, <1>6, <2>5, <3>2
      <4> QED
        BY Zenon, <1>2, <1>4, <2>4, <4>2, <4>3 DEF OnTheClock
    <3> QED
      BY Zenon, <3>1, <3>2
  <2> QED
    BY Zenon, <1>1, <1>2, <2>1, <2>2, <2>3, <2>6
    DEF CalendarInv, DueAfterTheMinutes, NoHoursNoEnd, given, Times
<1> QED
  BY Zenon, <1>8, <1>9

\* Both loops keep the clock of CalendarInv.
LEMMA CalendarStep ==
  ASSUME CalendarInv, [CalendarNext]_calendarVars
  PROVE CalendarInv'
<1>1. CASE UNCHANGED calendarVars
  BY Zenon, <1>1 DEF calendarVars, given, CalendarInv, OnTheClock, WholeHours, Elapsed, Counted,
              AtOpening, Working, WorkingTime, WorkingDay, Opening, Closing, Day, Times,
              DueAfterTheMinutes, NoHoursNoEnd
<1> QED
  BY Zenon, <1>1, NextInstantStep, ConsumeStep DEF CalendarNext

\* No working time has passed and no minute is counted when the loop starts.
LEMMA CalendarInitially ==
  ASSUME CalendarInit
  PROVE CalendarInv
<1>1. /\ start_at \in Nat /\ minutes \in Nat /\ remaining = minutes /\ current = start_at
      /\ b_pc = IF minutes = 0 THEN "done" ELSE "next"
      /\ workday_start \in Times /\ workday_end \in Times
  <2>1. StartDays * DayLength - 1 \in Int /\ MaxMinutes \in Nat
    BY CalendarAssumption
  <2> QED
    BY <2>1 DEF CalendarInit
<1>2. \A t \in current..(current - 1) : ~Working(t)
  BY <1>1
<1>3. Elapsed = 0
  BY Zenon, <1>1, <1>2, NoneWorking DEF Elapsed
<1>4. Counted = 0
  BY <1>1 DEF Counted
<1>5. OnTheClock
  BY <1>3, <1>4 DEF OnTheClock
<1> QED
  BY <1>1, <1>3, <1>5 DEF CalendarInv, DueAfterTheMinutes, NoHoursNoEnd, Elapsed

\* While add_business_minutes runs, the working time behind its current instant is at
\* least what it has counted; with hours of whole minutes it is that, or half a minute
\* more once it stands at an opening.
THEOREM CalendarInvariance == CalendarSpec => []CalendarInv
<1> QED
  BY CalendarInitially, CalendarStep, PTL DEF CalendarSpec

\* The due time add_business_minutes returns leaves the full number of working minutes
\* after the request, and less than one more if the opening hours are whole minutes,
\* for every week, any two times as opening hours, and every set of holidays.
THEOREM DueIsAfterTheMinutes == CalendarSpec => []DueAfterTheMinutes
<1>1. CalendarInv => DueAfterTheMinutes
  BY Zenon DEF CalendarInv
<1> QED
  BY <1>1, CalendarInvariance, PTL

\* The arguments of add_business_minutes stay as they were given, and minutes
\* are only taken from a working instant.
THEOREM CalendarTypeCorrect == CalendarSpec => []CalendarTypeOK
<1> DEFINE Given == start_at \in 0..(StartDays * DayLength - 1) /\ minutes \in 0..MaxMinutes
<1>1. CalendarInit => Given
  BY Zenon DEF CalendarInit
<1>2. Given /\ [CalendarNext]_calendarVars => Given'
  BY Zenon DEF CalendarNext, _next_working_instant, add_business_minutes, calendarVars, given
<1>3. CalendarInv /\ Given => CalendarTypeOK
  BY Zenon DEF CalendarInv, CalendarTypeOK
<1> QED
  BY <1>1, <1>2, <1>3, CalendarInvariance, PTL DEF CalendarSpec

\* With opening hours shorter than a minute, or that end before they begin, which no
\* form refuses, add_business_minutes never returns.
THEOREM NoHoursNeverEnd == CalendarSpec => []NoHoursNoEnd
<1>1. CalendarInv => NoHoursNoEnd
  BY Zenon DEF CalendarInv
<1> QED
  BY <1>1, CalendarInvariance, PTL

=============================================================================
