------------------------------ MODULE MCRequests ------------------------------
(* Components whose promises are invariants under interleaved requests, on  *)
(* small instances. They share no state, so a behaviour is one of a single  *)
(* component, chosen at the start.                                          *)
EXTENDS MadadkarFinance, SupportTicket, BusinessCalendar, KindnessViews, PublicCache,
        PendingInvalidations

VARIABLE part

vars == <<part, financeVars, supportVars, calendarVars, viewVars, cacheVars, queueVars>>

Init ==
    /\ part \in {"finance", "support", "calendar", "views", "cache", "queue"}
    /\ FinanceInit /\ SupportInit /\ CalendarInit /\ ViewInit /\ CacheInit /\ QueueInit
    /\ part # "calendar" => workday_start = 0 /\ workday_end = 0 /\ start_at = 0 /\ minutes = 0
                            /\ holidays = {}

\* A step of component p and of no other.
Of(p) ==
    /\ part = p /\ UNCHANGED part
    /\ p # "finance" => UNCHANGED financeVars
    /\ p # "support" => UNCHANGED supportVars
    /\ p # "calendar" => UNCHANGED calendarVars
    /\ p # "views" => UNCHANGED viewVars
    /\ p # "cache" => UNCHANGED cacheVars
    /\ p # "queue" => UNCHANGED queueVars

Next ==
    \/ Of("finance") /\ FinanceNext
    \/ Of("support") /\ SupportNext
    \/ Of("calendar") /\ CalendarNext
    \/ Of("views") /\ ViewNext
    \/ Of("cache") /\ CacheNext
    \/ Of("queue") /\ QueueNext

Spec == Init /\ [][Next]_vars
=============================================================================
