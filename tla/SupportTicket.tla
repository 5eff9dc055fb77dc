---------------------------- MODULE SupportTicket ----------------------------
(* One support ticket (apps/support_desk/services.py): the owner's and the  *)
(* staff's requests, the SLA clock that pauses while the user is awaited,   *)
(* and the task that marks breaches. Nothing locks the ticket: a request    *)
(* loads it, and its transaction decides on that copy and saves the fields  *)
(* it names, so that loading and saving are steps of their own.             *)
EXTENDS Integers

CONSTANTS
    Requests, Sweepers,
    first_response_minutes, resolution_minutes,
    pause_when_waiting_for_user, escalate_on_breach,    \* of the SLA policy
    AdminStatuses,      \* bound: the statuses an admin sets directly
    MaxClosed,          \* bound: the closed minutes a business calendar skips
    MaxClock            \* bound: minutes

ASSUME SlaAssumption ==
    /\ first_response_minutes \in Nat \ {0} /\ resolution_minutes \in Nat \ {0}
    /\ pause_when_waiting_for_user \in BOOLEAN /\ escalate_on_breach \in BOOLEAN
    /\ MaxClock \in Nat /\ MaxClosed \in Nat

TicketStatus == {"draft", "submitted", "open", "in_progress", "waiting_for_user",
                 "waiting_for_admin", "reopened", "escalated", "resolved", "closed", "archived",
                 "spam"}
ASSUME StatusesAreStatuses == AdminStatuses \subseteq TicketStatus
TERMINAL_STATUSES == {"closed", "archived", "spam"}
USER_REPLY_ALLOWED_STATUSES ==
    {"submitted", "open", "in_progress", "waiting_for_user", "reopened", "escalated"}
ADMIN_REPLY_ALLOWED_STATUSES ==
    {"submitted", "open", "in_progress", "waiting_for_admin", "reopened", "escalated"}
CLOSABLE_STATUSES ==
    {"resolved", "waiting_for_user", "open", "in_progress", "reopened", "escalated"}

None == MaxClock + 1        \* an unset sla_paused_at
Horizon == 2 * MaxClock + MaxClosed + first_response_minutes + resolution_minutes

\* Times are minutes; 0 is an unset due time. granted is a history of the row: the
\* due times that its submission set.
SupportTicketRow ==
    [status : TicketStatus, granted : [first_response : 0..Horizon, resolution : 0..Horizon],
     sla_paused_at : 0..None, sla_total_paused : 0..MaxClock,
     first_response_due_at : 0..Horizon, resolution_due_at : 0..Horizon,
     responded : BOOLEAN, breached : BOOLEAN]

VARIABLES
    ticket,             \* the row
    clock,
    resubmitted,        \* has a draft been saved over a submitted ticket?
    reopenWindow,       \* less than 7 days since it was closed or resolved?
    r_pc, r_ticket,     \* the requests and their copies
    k_pc, k_status      \* the runs of the breach task and the status they read

requestVars == <<r_pc, r_ticket>>
sweepVars == <<k_pc, k_status>>
supportVars == <<ticket, clock, resubmitted, reopenWindow, requestVars, sweepVars>>

Draft == [status |-> "draft", granted |-> [first_response |-> 0, resolution |-> 0],
          sla_paused_at |-> None, sla_total_paused |-> 0, first_response_due_at |-> 0,
          resolution_due_at |-> 0, responded |-> FALSE, breached |-> FALSE]

SupportInit ==
    /\ ticket = Draft /\ clock = 0 /\ resubmitted = FALSE
    /\ reopenWindow = FALSE
    /\ r_pc = [r \in Requests |-> "idle"] /\ r_ticket = [r \in Requests |-> Draft]
    /\ k_pc = [k \in Sweepers |-> "idle"] /\ k_status = [k \in Sweepers |-> "draft"]

-----------------------------------------------------------------------------
Load(r) ==
    /\ r_pc[r] = "idle"
    /\ r_pc' = [r_pc EXCEPT ![r] = "loaded"]
    /\ r_ticket' = [r_ticket EXCEPT ![r] = ticket]
    /\ UNCHANGED <<ticket, clock, resubmitted, reopenWindow, sweepVars>>

\* The request is over and forgets its copy; its handler's check may refuse it.
Respond(r) ==
    /\ r_pc[r] = "loaded"
    /\ r_pc' = [r_pc EXCEPT ![r] = "idle"]
    /\ r_ticket' = [r_ticket EXCEPT ![r] = Draft]
    /\ UNCHANGED <<clock, sweepVars>>

Refuse(r) == Respond(r) /\ UNCHANGED <<ticket, resubmitted, reopenWindow>>

\* Saving a status: a copy that already has it saves nothing.
_change_status(row, from_status, to_status) ==
    IF from_status = to_status THEN row ELSE [row EXCEPT !.status = to_status]
ClosedOrResolved(copy, to_status) ==
    reopenWindow' = (reopenWindow \/ (to_status \in {"closed", "resolved"} /\ copy.status # to_status))

_pause_sla_if_needed(row, copy) ==
    IF pause_when_waiting_for_user /\ copy.resolution_due_at > 0 /\ copy.sla_paused_at = None
    THEN [row EXCEPT !.sla_paused_at = clock] ELSE row

\* Mutant: the due times stay where they were.
ResumeForgetsDue(row, copy) ==
    IF copy.sla_paused_at = None THEN row
    ELSE [row EXCEPT !.sla_total_paused = copy.sla_total_paused + (clock - copy.sla_paused_at),
                     !.sla_paused_at = None]

\* The time of the pause is added to the total and to both due times.
_resume_sla_if_needed(row, copy) ==
    LET paused == clock - copy.sla_paused_at
        Later(due) == IF due = 0 THEN 0 ELSE due + paused IN
    IF copy.sla_paused_at = None THEN row
    ELSE [row EXCEPT !.sla_total_paused = copy.sla_total_paused + paused,
                     !.first_response_due_at = Later(copy.first_response_due_at),
                     !.resolution_due_at = Later(copy.resolution_due_at),
                     !.sla_paused_at = None]

\* By the wall clock or, under a policy of business hours, by the calendar, which
\* skips what is closed (BusinessCalendar, add_business_minutes).
_calculate_sla_due_at(minutes) == clock + minutes .. clock + minutes + MaxClosed

_apply_sla(row, first_response, resolution) ==
    [row EXCEPT !.granted = [first_response |-> first_response, resolution |-> resolution],
                !.first_response_due_at = first_response, !.resolution_due_at = resolution]

SavesDraft == resubmitted' = (resubmitted \/ ticket.resolution_due_at > 0)

\* resolve_sla_policy may find no policy, and then no due time is set.
submit_ticket(r) ==
    /\ Respond(r) /\ r_ticket[r].status = "draft"
    /\ LET submitted == _change_status(ticket, r_ticket[r].status, "submitted") IN
       \/ ticket' = submitted
       \/ \E first_response \in _calculate_sla_due_at(first_response_minutes),
             resolution \in _calculate_sla_due_at(resolution_minutes) :
            ticket' = _apply_sla(submitted, first_response, resolution)
    /\ SavesDraft /\ UNCHANGED reopenWindow

\* ticket.save(): every field is written from the copy.
update_draft_ticket(r) ==
    /\ Respond(r) /\ r_ticket[r].status = "draft"
    /\ ticket' = r_ticket[r]
    /\ SavesDraft /\ UNCHANGED reopenWindow

add_user_reply(r) ==
    /\ Respond(r) /\ r_ticket[r].status \in USER_REPLY_ALLOWED_STATUSES
    /\ ticket' = _change_status(_resume_sla_if_needed(ticket, r_ticket[r]), r_ticket[r].status,
                                "waiting_for_admin")
    /\ UNCHANGED <<resubmitted, reopenWindow>>

add_admin_reply(r) ==
    /\ Respond(r) /\ r_ticket[r].status \in ADMIN_REPLY_ALLOWED_STATUSES
    /\ ticket' = _pause_sla_if_needed(
                    _change_status([ticket EXCEPT !.responded = TRUE], r_ticket[r].status,
                                   "waiting_for_user"), r_ticket[r])
    /\ UNCHANGED <<resubmitted, reopenWindow>>

\* Any status may be set by an admin; the SLA clock is not looked at.
change_ticket_status(r, status) ==
    /\ Respond(r)
    /\ ticket' = _change_status(ticket, r_ticket[r].status, status)
    /\ ClosedOrResolved(r_ticket[r], status)
    /\ UNCHANGED resubmitted

resolve_ticket(r) ==
    r_ticket[r].status \notin TERMINAL_STATUSES /\ change_ticket_status(r, "resolved")

close_ticket(r) ==
    r_ticket[r].status \in CLOSABLE_STATUSES /\ change_ticket_status(r, "closed")

escalate_ticket(r) == change_ticket_status(r, "escalated")

reopen_ticket(r) ==
    /\ Respond(r) /\ r_ticket[r].status \in {"resolved", "closed"} /\ reopenWindow
    /\ ticket' = _change_status(_resume_sla_if_needed(ticket, r_ticket[r]), r_ticket[r].status,
                                "reopened")
    /\ UNCHANGED <<resubmitted, reopenWindow>>

-----------------------------------------------------------------------------
(* The tasks.                                                               *)

OpenQueue(row) == row.status \notin TERMINAL_STATUSES
models_Q_first_response_due(row) ==
    ~row.responded /\ row.first_response_due_at > 0 /\ row.first_response_due_at <= clock
models_Q_resolution_due(row) == row.resolution_due_at > 0 /\ row.resolution_due_at <= clock

Overdue(row) == models_Q_first_response_due(row) \/ models_Q_resolution_due(row)

SelectBreach(k) ==
    /\ k_pc[k] = "idle" /\ OpenQueue(ticket) /\ ~ticket.breached /\ Overdue(ticket)
    /\ k_pc' = [k_pc EXCEPT ![k] = "selected"]
    /\ k_status' = [k_status EXCEPT ![k] = ticket.status]
    /\ UNCHANGED <<ticket, clock, resubmitted, reopenWindow, requestVars>>

\* Mutant: the escalation is saved without the mark.
EscalateUnmarked(k) ==
    /\ k_pc[k] = "selected"
    /\ ticket' = _change_status(ticket, k_status[k], "escalated")
    /\ k_pc' = [k_pc EXCEPT ![k] = "idle"]
    /\ k_status' = [k_status EXCEPT ![k] = "draft"]
    /\ UNCHANGED <<clock, resubmitted, reopenWindow, requestVars>>

SaveBreach(k) ==
    /\ k_pc[k] = "selected"
    /\ ticket' = LET marked == [ticket EXCEPT !.breached = TRUE] IN
                 IF escalate_on_breach THEN _change_status(marked, k_status[k], "escalated") ELSE marked
    /\ k_pc' = [k_pc EXCEPT ![k] = "idle"]
    /\ k_status' = [k_status EXCEPT ![k] = "draft"]
    /\ UNCHANGED <<clock, resubmitted, reopenWindow, requestVars>>

mark_sla_breaches(k) == SelectBreach(k) \/ SaveBreach(k)

\* One conditional UPDATE.
cleanup_stale_support_drafts_task ==
    /\ ticket.status = "draft"
    /\ ticket' = [ticket EXCEPT !.status = "archived"]
    /\ UNCHANGED <<clock, resubmitted, reopenWindow, requestVars, sweepVars>>

Minute ==
    /\ clock < MaxClock /\ clock' = clock + 1
    /\ UNCHANGED <<ticket, resubmitted, reopenWindow, requestVars, sweepVars>>

ReopenWindowPasses ==
    /\ reopenWindow /\ reopenWindow' = FALSE
    /\ UNCHANGED <<ticket, clock, resubmitted, requestVars, sweepVars>>

-----------------------------------------------------------------------------
Handle(r) ==
    \/ submit_ticket(r) \/ update_draft_ticket(r) \/ add_user_reply(r) \/ add_admin_reply(r)
    \/ resolve_ticket(r) \/ close_ticket(r) \/ escalate_ticket(r) \/ reopen_ticket(r)
    \/ Refuse(r)
    \/ \E status \in AdminStatuses : change_ticket_status(r, status)

SupportNext ==
    \/ \E r \in Requests : Load(r) \/ Handle(r)
    \/ \E k \in Sweepers : mark_sla_breaches(k)
    \/ cleanup_stale_support_drafts_task \/ Minute \/ ReopenWindowPasses

\* Celery beat runs the breach task over and over; a run ends.
SupportFairness == \A k \in Sweepers : WF_supportVars(mark_sla_breaches(k))

SupportSpec == SupportInit /\ [][SupportNext]_supportVars /\ SupportFairness

-----------------------------------------------------------------------------
SupportTypeOK ==
    /\ ticket \in SupportTicketRow /\ clock \in 0..MaxClock
    /\ resubmitted \in BOOLEAN /\ reopenWindow \in BOOLEAN
    /\ r_pc \in [Requests -> {"idle", "loaded"}] /\ r_ticket \in [Requests -> SupportTicketRow]
    /\ k_pc \in [Sweepers -> {"idle", "selected"}] /\ k_status \in [Sweepers -> TicketStatus]

\* Through any overlapping replies, status changes, closures and reopenings, the
\* due times are those set at the submission plus exactly the pauses counted, unless
\* the ticket is submitted again (services.py, _pause_sla_if_needed,
\* _resume_sla_if_needed).
DueMovesWithPauses ==
    ~resubmitted /\ ticket.resolution_due_at > 0 =>
        /\ ticket.resolution_due_at = ticket.granted.resolution + ticket.sla_total_paused
        /\ ticket.first_response_due_at = ticket.granted.first_response + ticket.sla_total_paused

\* An open ticket past a due time is marked as breached, unless it leaves the
\* queue or its due times move first (services.py, mark_sla_breaches).
OverdueTicketsAreMarked ==
    (OpenQueue(ticket) /\ Overdue(ticket)) ~>
        (ticket.breached \/ ~OpenQueue(ticket) \/ ~Overdue(ticket))

\* "When the user is awaited, the SLA is paused" (SUPPORT_DESK_BLUEPRINT.md): no
\* breach is selected while the clock is paused.
PausedClockNeverBreaches ==
    [][\A k \in Sweepers : SelectBreach(k) => ticket.sla_paused_at = None]_supportVars
=============================================================================
