------------------------------ MODULE MCServices ------------------------------
(* The components that owe something in the end to background tasks, on     *)
(* small instances. They share no state, so a behaviour is one of a single  *)
(* component, chosen at the start.                                          *)
EXTENDS InvalidationOutbox, SupportTicket, NotificationDispatch, KindnessListing, TabyinSync,
        SequencesExt

VARIABLE part

vars == <<part, outboxVars, supportVars, noticeVars, listingVars, tabyinVars>>

Init ==
    /\ part \in {"outbox", "support", "notice", "listing", "tabyin"}
    /\ OutboxInit /\ SupportInit /\ NoticeInit /\ ListingInit /\ TabyinInit
    /\ part # "notice" => muted = {}
    /\ part # "listing" => listing = Draft_
    /\ part # "tabyin" => source = SetToSeq(Items)

\* A step of component p and of no other.
Of(p) ==
    /\ part = p /\ UNCHANGED part
    /\ p # "outbox" => UNCHANGED outboxVars
    /\ p # "support" => UNCHANGED supportVars
    /\ p # "notice" => UNCHANGED noticeVars
    /\ p # "listing" => UNCHANGED listingVars
    /\ p # "tabyin" => UNCHANGED tabyinVars

Next ==
    \/ Of("outbox") /\ OutboxNext
    \/ Of("support") /\ SupportNext
    \/ Of("notice") /\ NoticeNext
    \/ Of("listing") /\ ListingNext
    \/ Of("tabyin") /\ TabyinNext

\* The fairness of the chosen component's specification: only one disjunct of a
\* condition is ever enabled.
Fairness ==
    /\ WF_vars(\/ Of("outbox") /\ \E w \in Workers : process_cache_invalidation_event_task(w)
               \/ Of("support") /\ \E k \in Sweepers : mark_sla_breaches(k)
               \/ Of("notice") /\ NoticeProgress
               \/ Of("listing") /\ SelectDue
               \/ Of("tabyin") /\ \E y \in FullRuns : FullRunStep(y))
    /\ WF_vars(Of("outbox") /\ \E e \in Events : process_pending_cache_invalidation_events_task(e))
    /\ SF_vars(\/ Of("outbox") /\ \E w \in Workers, e \in Events, n \in Retries : LoadEvent(w, e, n)
               \/ Of("listing") /\ expire_due_listings)

Spec == Init /\ [][Next]_vars /\ Fairness

-----------------------------------------------------------------------------
\* WallCatchesUp, for the behaviours in which the sync runs at all.
WallCatchesUpWhenSyncing == part = "tabyin" => WallCatchesUp
=============================================================================
