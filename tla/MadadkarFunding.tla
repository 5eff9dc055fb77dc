--------------------------- MODULE MadadkarFunding ---------------------------
(***************************************************************************)
(* One charity campaign of apps/madadkar: its lifecycle, the reservation   *)
(* of shares by participations, their payments through the gateway, the    *)
(* shares funded outside the site, and the two Celery Beat sweeps.         *)
(*                                                                         *)
(* One action is one database transaction, or one read that a later        *)
(* transaction relies on.  Between them the process holds no lock: the     *)
(* variables requests, calls, loaded, sweep and due are what the code has  *)
(* in local memory at such a point.                                        *)
(***************************************************************************)
EXTENDS Naturals, Sequences, FiniteSets

CONSTANTS
  Participations,   \* participation rows (each with its one-to-one payment)
  Fundings,         \* external funding rows
  MAXIMUM_TOTAL_SHARES,
  TotalShares,      \* total_shares of the campaign when it is created
  WebThreads,       \* requests the web server serves at a time
  Answers           \* what the payment provider may answer to a verify call

ASSUME FiniteRows ==
  /\ IsFiniteSet(Participations)
  /\ IsFiniteSet(Fundings)
  /\ Participations \cap Fundings = {}
ASSUME ShareBounds ==
  /\ MAXIMUM_TOTAL_SHARES \in Nat
  /\ TotalShares \in 1..MAXIMUM_TOTAL_SHARES
  /\ WebThreads \in Nat
ASSUME AnswerKinds ==
  Answers \subseteq {"verified", "declined", "unreachable", "mismatch"}

CampaignStatus == {"draft", "published", "completed", "closed"}
ParticipationStatus == {"pending_payment", "paid", "failed", "expired"}
PaymentStatus == {"pending", "success", "failed"}
PaymentEventKind == {"created", "verify_success", "verify_failed",
                     "amount_mismatch", "expired"}

\* A row that has not been inserted yet.
None == "none"

VARIABLES
  campaign,       \* the Campaign row
  participation,  \* Participation.status
  share_count,    \* Participation.share_count
  payment,        \* Payment.status
  events,         \* the append-only PaymentEvent rows of each payment
  receipt,        \* the payments with a DonationReceipt
  funding,        \* ExternalFunding.status
  funding_shares, \* ExternalFunding.shares
  captured,       \* authorities whose money the gateway has captured
  requests,       \* participations whose initiate request waits for the gateway
  calls,          \* <<p, answer>>: verify requests that hold the gateway's answer
  loaded,         \* admin requests that checked the status of a loaded campaign
  stale,          \* participations older than the payment timeout
  sweep,          \* participations the expiry task has listed and not reached
  due             \* the closing task has listed the campaign

rowVars == <<participation, share_count, payment, events, receipt>>
fundingVars == <<funding, funding_shares>>
localVars == <<requests, calls, loaded, stale, sweep, due>>
vars == <<campaign, participation, share_count, payment, events, receipt,
          funding, funding_shares, captured, requests, calls, loaded, stale,
          sweep, due>>

Campaigns ==
  [status : CampaignStatus, is_active : BOOLEAN, is_visible : BOOLEAN,
   deadline : {None, "future", "past"},
   total_shares : 1..MAXIMUM_TOTAL_SHARES, purchased_shares : Nat,
   external_funded_shares : Nat]

PaymentEvents ==
  [kind : PaymentEventKind, previous : PaymentStatus \cup {None},
   new : PaymentStatus]

----------------------------------------------------------------------------
(* Counters.  A sum of share counts is the number of single shares held:   *)
(* the pairs <<row, i>> with i up to the row's count.                      *)

Held(part, count) ==
  {u \in Participations \X (1..MAXIMUM_TOTAL_SHARES) :
     part[u[1]] \in {"paid", "pending_payment"} /\ u[2] <= count[u[1]]}

External(fund, count) ==
  {u \in Fundings \X (1..MAXIMUM_TOTAL_SHARES) :
     fund[u[1]] = "recorded" /\ u[2] <= count[u[1]]}

\* The counters are recomputed from the rows the transaction has written,
\* never incremented.
SyncCampaignCounters(c, part, pcount, fund, fcount) ==
  [c EXCEPT !.purchased_shares = Cardinality(Held(part, pcount)),
            !.external_funded_shares = Cardinality(External(fund, fcount))]

funded_shares(c) == c.purchased_shares + c.external_funded_shares

\* Mutant: the shares funded outside the site are forgotten.
RemainingOnlineOnly(c) ==
  IF c.total_shares > c.purchased_shares
  THEN c.total_shares - c.purchased_shares ELSE 0

remaining_shares(c) ==
  IF c.total_shares > funded_shares(c) THEN c.total_shares - funded_shares(c)
                                       ELSE 0

is_fully_funded(c) == funded_shares(c) >= c.total_shares

\* The CHECK constraint of the table: a transaction that would break it is
\* rolled back with an IntegrityError.  External shares are not part of it.
PurchasedLteTotal(c) == c.purchased_shares <= c.total_shares

\* Campaign.objects only sees active rows: locking a soft-deleted campaign
\* raises DoesNotExist and rolls the transaction back.
CampaignLockable == campaign.is_active

AutoComplete(c) ==
  IF c.status = "published" /\ is_fully_funded(c)
  THEN [c EXCEPT !.status = "completed"] ELSE c

IsOpenForParticipation(c) ==
  /\ c.is_active
  /\ c.is_visible
  /\ c.status = "published"
  /\ c.deadline # "past"
  /\ ~is_fully_funded(c)

RecordPaymentEvent(p, kind, new) ==
  events' = [events EXCEPT ![p] =
               Append(@, [kind |-> kind, previous |-> payment[p], new |-> new])]

\* The end of every transaction that changes participation p: its new status,
\* and the campaign row c saved under the campaign's row lock.
SettleParticipation(p, status, c) ==
  /\ CampaignLockable
  /\ participation' = [participation EXCEPT ![p] = status]
  /\ campaign' = c
  /\ PurchasedLteTotal(c)

\* The campaign with the counters that p's new status gives.
SyncedWith(p, status) ==
  SyncCampaignCounters(campaign, [participation EXCEPT ![p] = status],
                       share_count, funding, funding_shares)

\* A request that spans several steps keeps one of the server's threads.
ThreadFree ==
  Cardinality(requests) + Cardinality(calls) + Cardinality(loaded) < WebThreads

----------------------------------------------------------------------------
Init ==
  /\ campaign \in [status : {"draft"}, is_active : {TRUE}, is_visible : {TRUE},
                   deadline : {None, "future"}, total_shares : {TotalShares},
                   purchased_shares : {0}, external_funded_shares : {0}]
  /\ participation = [p \in Participations |-> None]
  /\ share_count = [p \in Participations |-> 0]
  /\ payment = [p \in Participations |-> None]
  /\ events = [p \in Participations |-> <<>>]
  /\ receipt = {}
  /\ funding = [f \in Fundings |-> None]
  /\ funding_shares = [f \in Fundings |-> 0]
  /\ captured = {}
  /\ requests = {}
  /\ calls = {}
  /\ loaded = {}
  /\ stale = {}
  /\ sweep = {}
  /\ due = FALSE

----------------------------------------------------------------------------
(* Campaign lifecycle.  A view loads the campaign without a lock and the   *)
(* service tests the status of that object; the write comes later.         *)

\* publish_campaign, close_campaign and record_external_funding all test the
\* status of the object the view has loaded.
LoadCampaign(op) ==
  /\ op \notin loaded
  /\ campaign.is_active
  /\ ThreadFree
  /\ \/ op = "publish" /\ campaign.status = "draft"
     \/ op = "close" /\ campaign.status = "published"
     \/ op = "external" /\ campaign.status \in {"draft", "published"}
  /\ loaded' = loaded \cup {op}
  /\ UNCHANGED <<campaign, rowVars, fundingVars, captured, requests, calls,
                 stale, sweep, due>>

WriteStatus(op, status) ==
  /\ op \in loaded
  /\ loaded' = loaded \ {op}
  /\ campaign' = [campaign EXCEPT !.status = status]
  /\ UNCHANGED <<rowVars, fundingVars, captured, requests, calls, stale, sweep,
                 due>>

publish_campaign == WriteStatus("publish", "published")

close_campaign == WriteStatus("close", "closed")

DeadlinePasses ==
  /\ campaign.deadline = "future"
  /\ campaign' = [campaign EXCEPT !.deadline = "past"]
  /\ UNCHANGED <<rowVars, fundingVars, captured, localVars>>

\* close_expired_campaigns_task lists the campaigns, then closes each object.
get_campaigns_due_for_closing ==
  /\ campaign.is_active
  /\ campaign.status = "published"
  /\ campaign.deadline = "past"
  /\ due' = TRUE
  /\ UNCHANGED <<campaign, rowVars, fundingVars, captured, requests, calls,
                 loaded, stale, sweep>>

close_campaign_due_to_deadline ==
  /\ due
  /\ due' = FALSE
  /\ campaign' = [campaign EXCEPT !.status = "closed"]
  /\ UNCHANGED <<rowVars, fundingVars, captured, requests, calls, loaded,
                 stale, sweep>>

----------------------------------------------------------------------------
(* External funding. *)

record_external_funding(f, n) ==
  /\ "external" \in loaded
  /\ CampaignLockable
  /\ loaded' = loaded \ {"external"}
  /\ funding[f] = None
  /\ n \in 1..remaining_shares(campaign)
  /\ funding' = [funding EXCEPT ![f] = "recorded"]
  /\ funding_shares' = [funding_shares EXCEPT ![f] = n]
  /\ campaign' = AutoComplete(SyncCampaignCounters(campaign, participation,
                                share_count, funding', funding_shares'))
  /\ PurchasedLteTotal(campaign')
  /\ UNCHANGED <<rowVars, captured, requests, calls, stale, sweep, due>>

\* Mutant: the counters are not re-synced.
VoidWithoutSync(f) ==
  /\ funding[f] = "recorded"
  /\ funding' = [funding EXCEPT ![f] = "voided"]
  /\ UNCHANGED <<campaign, rowVars, funding_shares, captured, localVars>>

\* Mutant: voiding deletes the row instead of marking it.
VoidDeletesRow(f) ==
  /\ funding[f] = "recorded"
  /\ CampaignLockable
  /\ funding' = [funding EXCEPT ![f] = None]
  /\ funding_shares' = [funding_shares EXCEPT ![f] = 0]
  /\ campaign' = SyncCampaignCounters(campaign, participation, share_count,
                                      funding', funding_shares')
  /\ UNCHANGED <<rowVars, captured, localVars>>

void_external_funding(f) ==
  /\ funding[f] = "recorded"
  /\ CampaignLockable
  /\ funding' = [funding EXCEPT ![f] = "voided"]
  /\ campaign' = SyncCampaignCounters(campaign, participation, share_count,
                                      funding', funding_shares)
  /\ PurchasedLteTotal(campaign')
  /\ UNCHANGED <<rowVars, funding_shares, captured, localVars>>

----------------------------------------------------------------------------
(* initiate_participation: reserve, call the gateway, persist or release.  *)

_reserve_participation_shares(p, n) ==
  /\ participation[p] = None
  /\ ThreadFree
  /\ IsOpenForParticipation(campaign)
  /\ n \in 1..remaining_shares(campaign)
  /\ participation' = [participation EXCEPT ![p] = "pending_payment"]
  /\ share_count' = [share_count EXCEPT ![p] = n]
  /\ campaign' = SyncCampaignCounters(campaign, participation', share_count',
                                      funding, funding_shares)
  /\ PurchasedLteTotal(campaign')
  /\ requests' = requests \cup {p}
  /\ UNCHANGED <<payment, events, receipt, fundingVars, captured, calls, loaded,
                 stale, sweep, due>>

_persist_initiated_payment(p) ==
  /\ p \in requests
  /\ requests' = requests \ {p}
  /\ payment' = [payment EXCEPT ![p] = "pending"]
  /\ RecordPaymentEvent(p, "created", "pending")
  /\ UNCHANGED <<campaign, participation, share_count, receipt, fundingVars,
                 captured, calls, loaded, stale, sweep, due>>

\* The gateway refused the request or could not be reached.
_release_reserved_participation(p) ==
  /\ p \in requests
  /\ requests' = requests \ {p}
  /\ IF participation[p] = "pending_payment"
     THEN SettleParticipation(p, "failed", SyncedWith(p, "failed"))
     ELSE UNCHANGED <<campaign, participation>>
  /\ UNCHANGED <<share_count, payment, events, receipt, fundingVars, captured,
                 calls, loaded, stale, sweep, due>>

----------------------------------------------------------------------------
(* verify_payment, its callbacks and the gateway behind it. *)

\* The provider's answer, and whether the gateway has captured the money.  A
\* transport error is answered like a refusal, and leaves that open.
CaptureOutcomes(answer) ==
  CASE answer \in {"verified", "mismatch"} -> {TRUE}
    [] answer = "declined" -> {FALSE}
    [] answer = "unreachable" -> BOOLEAN

\* A callback reads a pending payment and calls the provider, outside any
\* transaction.
CallGateway(p, answer) ==
  /\ payment[p] = "pending"
  /\ ThreadFree
  /\ calls' = calls \cup {<<p, answer>>}
  /\ \E outcome \in CaptureOutcomes(answer) :
       captured' = IF outcome THEN captured \cup {p} ELSE captured
  /\ UNCHANGED <<campaign, rowVars, fundingVars, requests, loaded, stale, sweep,
                 due>>

Succeed(p) ==
  /\ payment' = [payment EXCEPT ![p] = "success"]
  /\ RecordPaymentEvent(p, "verify_success", "success")
  /\ receipt' = receipt \cup {p}
  /\ SettleParticipation(p, "paid", AutoComplete(SyncedWith(p, "paid")))

\* Mutant: no event is recorded.
FailSilently(p, kind, status) ==
  /\ payment' = [payment EXCEPT ![p] = "failed"]
  /\ SettleParticipation(p, status, SyncedWith(p, status))
  /\ UNCHANGED <<events, receipt>>

Fail(p, kind, status) ==
  /\ payment' = [payment EXCEPT ![p] = "failed"]
  /\ RecordPaymentEvent(p, kind, "failed")
  /\ SettleParticipation(p, status, SyncedWith(p, status))
  /\ UNCHANGED receipt

\* Mutant: the status is not tested again under the lock.
VerifyWithoutDoubleCheck(p, answer) ==
  /\ <<p, answer>> \in calls
  /\ calls' = calls \ {<<p, answer>>}
  /\ IF answer = "verified" THEN Succeed(p)
                            ELSE Fail(p, "verify_failed", "failed")
  /\ UNCHANGED <<share_count, fundingVars, captured, requests, loaded, stale,
                 sweep, due>>

\* The transaction after the call: the status is tested again under the lock,
\* except where the verified amount differs.
verify_payment(p, answer) ==
  /\ <<p, answer>> \in calls
  /\ calls' = calls \ {<<p, answer>>}
  /\ \/ answer = "mismatch" /\ Fail(p, "amount_mismatch", "failed")
     \/ answer # "mismatch" /\ payment[p] # "pending"
        /\ UNCHANGED <<campaign, participation, payment, events, receipt>>
     \/ answer \in {"declined", "unreachable"} /\ payment[p] = "pending"
        /\ Fail(p, "verify_failed", "failed")
     \/ answer = "verified" /\ payment[p] = "pending" /\ Succeed(p)
  /\ UNCHANGED <<share_count, fundingVars, captured, requests, loaded, stale,
                 sweep, due>>

\* A callback with Status=NOK: no gateway call, status tested under the lock.
cancel_pending_payment(p) ==
  /\ payment[p] = "pending"
  /\ Fail(p, "verify_failed", "failed")
  /\ UNCHANGED <<share_count, fundingVars, captured, localVars>>

----------------------------------------------------------------------------
(* expire_stale_participations_task. *)

\* The payment timeout (15 minutes) passes.  An initiate request is bounded
\* by the provider's 10 second timeout, so it is over by then.
TimeoutPasses(p) ==
  /\ participation[p] # None
  /\ p \notin requests
  /\ p \notin stale
  /\ stale' = stale \cup {p}
  /\ UNCHANGED <<campaign, rowVars, fundingVars, captured, requests, calls,
                 loaded, sweep, due>>

\* Mutant: only reservations with a pending payment are looked for.
StaleWithPayment ==
  {p \in stale : participation[p] = "pending_payment" /\ payment[p] = "pending"}

StalePending == {p \in stale : participation[p] = "pending_payment"}

\* The task reads the rows once; overlapping runs add to what is listed.
get_stale_participations ==
  /\ StalePending \ sweep # {}
  /\ sweep' = sweep \cup StalePending
  /\ UNCHANGED <<campaign, rowVars, fundingVars, captured, requests, calls,
                 loaded, stale, due>>

\* Mutant: the payment stays pending.
ExpireParticipationOnly(p) ==
  /\ p \in sweep
  /\ sweep' = sweep \ {p}
  /\ SettleParticipation(p, "expired", SyncedWith(p, "expired"))
  /\ UNCHANGED <<payment, events, receipt, share_count, fundingVars, captured,
                 requests, calls, loaded, stale, due>>

\* The status that is tested is the listed object's, always pending_payment.
expire_stale_participation(p) ==
  /\ p \in sweep
  /\ sweep' = sweep \ {p}
  /\ IF payment[p] = "pending"
     THEN Fail(p, "expired", "expired")
     ELSE /\ SettleParticipation(p, "expired", SyncedWith(p, "expired"))
          /\ UNCHANGED <<payment, events, receipt>>
  /\ UNCHANGED <<share_count, fundingVars, captured, requests, calls, loaded,
                 stale, due>>

----------------------------------------------------------------------------
(* A worker dies, or an exception ends its request or task: what it had in *)
(* memory is gone and no transaction of it is half done.                   *)

InitiateDies(p) ==
  /\ p \in requests
  /\ requests' = requests \ {p}
  /\ UNCHANGED <<campaign, rowVars, fundingVars, captured, calls, loaded, stale,
                 sweep, due>>

VerifyDies(p, answer) ==
  /\ <<p, answer>> \in calls
  /\ calls' = calls \ {<<p, answer>>}
  /\ UNCHANGED <<campaign, rowVars, fundingVars, captured, requests, loaded,
                 stale, sweep, due>>

TaskDies ==
  /\ sweep # {} \/ due
  /\ sweep' = {}
  /\ due' = FALSE
  /\ UNCHANGED <<campaign, rowVars, fundingVars, captured, requests, calls,
                 loaded, stale>>

AdminOps == {"publish", "close", "external"}

Next ==
  \/ \E op \in AdminOps : LoadCampaign(op)
  \/ publish_campaign
  \/ close_campaign
  \/ DeadlinePasses
  \/ get_campaigns_due_for_closing
  \/ close_campaign_due_to_deadline
  \/ \E f \in Fundings, n \in 1..MAXIMUM_TOTAL_SHARES :
       record_external_funding(f, n)
  \/ \E f \in Fundings : void_external_funding(f)
  \/ \E p \in Participations, n \in 1..MAXIMUM_TOTAL_SHARES :
       _reserve_participation_shares(p, n)
  \/ \E p \in Participations :
       \/ _persist_initiated_payment(p)
       \/ _release_reserved_participation(p)
       \/ cancel_pending_payment(p)
       \/ TimeoutPasses(p)
       \/ expire_stale_participation(p)
       \/ InitiateDies(p)
  \/ \E p \in Participations, answer \in Answers :
       \/ CallGateway(p, answer)
       \/ verify_payment(p, answer)
       \/ VerifyDies(p, answer)
  \/ get_stale_participations
  \/ TaskDies

Spec == Init /\ [][Next]_vars

\* Celery Beat runs both tasks periodically; a web worker finishes or dies; a
\* task that is killed is delivered again, and is not killed for ever before it
\* reaches a given row.
Fairness ==
  /\ \A p \in Participations :
       /\ WF_vars(_persist_initiated_payment(p)
                  \/ _release_reserved_participation(p) \/ InitiateDies(p))
       /\ WF_vars(TimeoutPasses(p))
       /\ SF_vars(expire_stale_participation(p))
  /\ WF_vars(get_stale_participations)

FairSpec == Spec /\ Fairness

----------------------------------------------------------------------------
(* Properties. *)

\* Every column holds a value its field admits.
TypeOK ==
  /\ campaign \in Campaigns
  /\ participation \in [Participations -> ParticipationStatus \cup {None}]
  /\ share_count \in [Participations -> 0..MAXIMUM_TOTAL_SHARES]
  /\ payment \in [Participations -> PaymentStatus \cup {None}]
  /\ events \in [Participations -> Seq(PaymentEvents)]
  /\ receipt \subseteq Participations
  /\ funding \in [Fundings -> {None, "recorded", "voided"}]
  /\ funding_shares \in [Fundings -> 0..MAXIMUM_TOTAL_SHARES]
  /\ captured \subseteq Participations
  /\ requests \subseteq Participations
  /\ calls \subseteq Participations \X Answers
  /\ loaded \subseteq AdminOps
  /\ stale \subseteq Participations
  /\ sweep \subseteq Participations
  /\ due \in BOOLEAN

\* The denormalized counters of the campaign row equal the sums over the rows
\* after every transaction, whatever callbacks, sweeps, admin requests and
\* crashes interleave: every path that moves a participation or an external
\* funding re-syncs them before it commits.
CountersExact ==
  /\ campaign.purchased_shares = Cardinality(Held(participation, share_count))
  /\ campaign.external_funded_shares =
       Cardinality(External(funding, funding_shares))

\* No combined oversell while total_shares is not edited: online reservations
\* and sales together with external fundings never exceed the campaign, though
\* the CHECK constraint only covers the online part and verify_payment marks a
\* participation PAID without looking at the remaining shares.
FundedWithinTotal == funded_shares(campaign) <= campaign.total_shares

\* A payment that can still succeed holds its reservation: this is what lets
\* verify_payment write PAID over whatever the participation's status is.  The
\* sweep, the cancel callback and the failed verify all settle both rows.
PendingPaymentHoldsReservation ==
  \A p \in Participations :
    payment[p] = "pending" => participation[p] = "pending_payment"

\* The append-only PaymentEvent ledger explains the payment: its events start
\* with the creation, each one continues where the previous one ended, and the
\* last one ends in the payment's present status.
LedgerExplainsPayment ==
  \A p \in Participations :
    LET log == events[p] IN
    /\ (log = <<>>) <=> (payment[p] = None)
    /\ log # <<>> => log[Len(log)].new = payment[p]
    /\ \A i \in 1..Len(log) :
         log[i].previous = IF i = 1 THEN None ELSE log[i - 1].new

\* A payment is SUCCESS only if the gateway has captured its money: a verify
\* answer that was lost or refused never turns into a sale.
SuccessIsCaptured ==
  \A p \in Participations : payment[p] = "success" => p \in captured

\* A receipt exists exactly for the payments that are SUCCESS (with providers
\* that verify the amount they were asked to verify).
ReceiptIffSuccess ==
  \A p \in Participations : p \in receipt <=> payment[p] = "success"

\* A settled payment is final: a duplicated callback, a NOK after an OK or a
\* sweep never moves it again (same providers as above).
SettledPaymentFinal ==
  [][\A p \in Participations :
       payment[p] \in {"success", "failed"} => payment'[p] = payment[p]]_vars

\* Every reservation is settled in the end, also one whose request died before
\* its payment existed: "if the payment does not succeed, the shares are freed
\* automatically".
ReservationsSettle ==
  \A p \in Participations :
    participation[p] = "pending_payment" ~> participation[p] # "pending_payment"

\* The rows implement the abstract promise of ShareCapacity: shares are taken
\* only if the rows (not the counters) leave them free, and a participation
\* that has given its shares back never holds them again.
Rows == Participations \cup Fundings
Capacity == INSTANCE ShareCapacity WITH
  Holders <- Rows,
  Total <- TotalShares,
  taken <- [h \in Rows |-> IF h \in Participations THEN share_count[h]
                                                  ELSE funding_shares[h]],
  phase <- [h \in Rows |->
    IF h \in Participations
    THEN IF participation[h] = None THEN "new"
         ELSE IF participation[h] \in {"pending_payment", "paid"}
              THEN "holding" ELSE "gone"
    ELSE IF funding[h] = None THEN "new"
         ELSE IF funding[h] = "recorded" THEN "holding" ELSE "gone"]
ImplementsCapacity == Capacity!HoldersSpec

\* What the processes hold in memory agrees with the rows.  A request that
\* waits for the gateway to answer has its reservation and no payment yet, a
\* verify call has a payment, the sweep only lists rows past the timeout, and
\* a row not inserted has nothing.  This is what makes the invariants above
\* inductive.
MemoryAgrees ==
  /\ \A p \in requests :
       /\ participation[p] = "pending_payment"
       /\ payment[p] = None
       /\ p \notin stale
  /\ \A call \in calls :
       /\ payment[call[1]] # None
       /\ call[2] \in {"verified", "mismatch"} => call[1] \in captured
  /\ sweep \subseteq stale
  /\ \A p \in Participations :
       participation[p] = None => payment[p] = None /\ p \notin stale

\* A participation is only expired if it was not paid for: the task turns
\* PENDING_PAYMENT participations into EXPIRED ones.
ExpiredIsUnpaid ==
  \A p \in Participations :
    participation[p] = "expired" => payment[p] # "success"

\* A campaign that completed by itself is not closed by the deadline task.
DeadlineSparesCompleted ==
  [][close_campaign_due_to_deadline =>
       campaign.status # "completed"]_vars

\* A campaign completes on one hundred percent sold, so it has no reservation
\* that may still be released.
CompletedIsSold ==
  campaign.status = "completed" =>
    \A p \in Participations : participation[p] # "pending_payment"

\* A verify call that did not reach the gateway changes nothing: the
\* reservation stays until the timeout frees it.
UnreachableKeepsReservation ==
  [][\A p \in Participations :
       <<p, "unreachable">> \in calls /\ <<p, "unreachable">> \notin calls'
         => payment'[p] = payment[p]]_vars

=============================================================================
