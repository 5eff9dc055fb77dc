--------------------------- MODULE MadadkarFinance ---------------------------
(***************************************************************************)
(* The money of one campaign of apps/madadkar after its payments have      *)
(* settled: refunds, manual adjustments and disbursements to recipients.   *)
(*                                                                         *)
(* Every operation is one transaction that locks the row it tests; the     *)
(* operations that write a counter also lock the campaign.  An amount is   *)
(* counted in units: a sum is the number of pairs <<row, i>> with i up to  *)
(* the row's amount.                                                       *)
(***************************************************************************)
EXTENDS Integers, FiniteSets

CONSTANTS
  Payments,        \* payments (each with its one-to-one participation)
  Refunds,         \* PaymentRefund rows
  Adjustments,     \* CampaignFinancialAdjustment rows
  Disbursements,   \* CampaignDisbursement rows
  Keys,            \* idempotency keys a client may send
  MaxAmount,       \* bound on the amount of one row
  NoRow             \* no row yet, no key

ASSUME FiniteRows ==
  /\ IsFiniteSet(Payments) /\ IsFiniteSet(Refunds)
  /\ IsFiniteSet(Adjustments) /\ IsFiniteSet(Disbursements)
ASSUME AmountBound == MaxAmount \in Nat \ {0}
ASSUME NoneIsNew ==
  /\ NoRow \notin Keys \cup Payments
  /\ NoRow \notin {"paid", "refunded", "failed", "expired", "success",
                  "pending_review", "approved", "rejected", "completed",
                  "applied", "requested"}

RefundStatus == {"pending_review", "approved", "rejected", "completed"}
FinancialAdjustmentStatus == {"pending_review", "approved", "rejected", "applied"}
FinancialAdjustmentType == {"credit", "debit"}
DisbursementStatus == {"requested", "approved", "rejected", "paid"}

Amount == 0..MaxAmount

VARIABLES
  payment,             \* Payment.status
  participation,       \* Participation.status
  amount,              \* Payment.amount
  refund,              \* PaymentRefund.status
  refund_payment,      \* PaymentRefund.payment
  refund_amount,       \* PaymentRefund.amount
  refund_key,          \* PaymentRefund.idempotency_key
  adjustment,          \* CampaignFinancialAdjustment.status
  adjustment_type,
  adjustment_amount,
  disbursement,        \* CampaignDisbursement.status
  disbursement_amount,
  purchased_amount     \* Campaign.purchased_amount

paymentVars == <<payment, participation, amount>>
refundVars == <<refund, refund_payment, refund_amount, refund_key>>
adjustmentVars == <<adjustment, adjustment_type, adjustment_amount>>
disbursementVars == <<disbursement, disbursement_amount>>
financeVars == <<payment, participation, amount, refund, refund_payment,
          refund_amount, refund_key, adjustment, adjustment_type,
          adjustment_amount, disbursement, disbursement_amount,
          purchased_amount>>

----------------------------------------------------------------------------
(* Sums, as sets of units. *)

Units == 1..MaxAmount

PaidUnits(part, amt) ==
  {u \in Payments \X Units : part[u[1]] = "paid" /\ u[2] <= amt[u[1]]}

\* Completed refunds count against the campaign while the participation they
\* belong to is still counted as paid.
RefundedUnits(part, ref) ==
  {u \in Refunds \X Units :
     /\ ref[u[1]] = "completed"
     /\ refund_payment[u[1]] \in Payments
     /\ part[refund_payment[u[1]]] = "paid"
     /\ u[2] <= refund_amount[u[1]]}

AppliedUnits(adj, type) ==
  {u \in Adjustments \X Units :
     /\ adj[u[1]] = "applied"
     /\ adjustment_type[u[1]] = type
     /\ u[2] <= adjustment_amount[u[1]]}

\* purchased_amount as the recomputation leaves it.
SyncCampaignCounters(part, amt, ref, adj) ==
  LET net == Cardinality(PaidUnits(part, amt))
             - Cardinality(RefundedUnits(part, ref))
             + Cardinality(AppliedUnits(adj, "credit"))
             - Cardinality(AppliedUnits(adj, "debit"))
  IN IF net > 0 THEN net ELSE 0

\* The refunds of payment p with a status in S.
RefundUnits(p, S) ==
  {u \in Refunds \X Units :
     refund[u[1]] \in S /\ refund_payment[u[1]] = p /\ u[2] <= refund_amount[u[1]]}

_completed_refund_total(p) == Cardinality(RefundUnits(p, {"completed"}))

_open_refund_total(p) == Cardinality(RefundUnits(p, {"pending_review", "approved"}))

CommittedUnits ==
  {u \in Disbursements \X Units :
     /\ disbursement[u[1]] \in {"requested", "approved", "paid"}
     /\ u[2] <= disbursement_amount[u[1]]}

\* Mutant: a paid disbursement frees its amount again.
DisbursableForgetsPaid ==
  purchased_amount - Cardinality({u \in CommittedUnits :
                                    disbursement[u[1]] # "paid"})

calculate_campaign_disbursable_amount ==
  LET free == purchased_amount - Cardinality(CommittedUnits)
  IN IF free > 0 THEN free ELSE 0

----------------------------------------------------------------------------
FinanceInit ==
  /\ payment = [p \in Payments |-> NoRow]
  /\ participation = [p \in Payments |-> NoRow]
  /\ amount = [p \in Payments |-> 0]
  /\ refund = [r \in Refunds |-> NoRow]
  /\ refund_payment = [r \in Refunds |-> NoRow]
  /\ refund_amount = [r \in Refunds |-> 0]
  /\ refund_key = [r \in Refunds |-> NoRow]
  /\ adjustment = [a \in Adjustments |-> NoRow]
  /\ adjustment_type = [a \in Adjustments |-> NoRow]
  /\ adjustment_amount = [a \in Adjustments |-> 0]
  /\ disbursement = [d \in Disbursements |-> NoRow]
  /\ disbursement_amount = [d \in Disbursements |-> 0]
  /\ purchased_amount = 0

----------------------------------------------------------------------------
(* Payments, as MadadkarFunding settles them. *)

\* verify_payment with a verified answer.
PaymentSucceeds(p, n) ==
  /\ payment[p] = NoRow
  /\ payment' = [payment EXCEPT ![p] = "success"]
  /\ participation' = [participation EXCEPT ![p] = "paid"]
  /\ amount' = [amount EXCEPT ![p] = n]
  /\ purchased_amount' =
       SyncCampaignCounters(participation', amount', refund, adjustment)
  /\ UNCHANGED <<refundVars, adjustmentVars, disbursementVars>>

\* verify_payment of a second callback whose verified amount differs: it does
\* not test the status.
PaymentMismatch(p) ==
  /\ payment[p] = "success"
  /\ payment' = [payment EXCEPT ![p] = "failed"]
  /\ participation' = [participation EXCEPT ![p] = "failed"]
  /\ purchased_amount' =
       SyncCampaignCounters(participation', amount, refund, adjustment)
  /\ UNCHANGED <<amount, refundVars, adjustmentVars, disbursementVars>>

\* The expiry task reaches a participation it listed while it was pending.
PaidExpires(p) ==
  /\ payment[p] = "success"
  /\ participation[p] \in {"paid", "refunded"}
  /\ participation' = [participation EXCEPT ![p] = "expired"]
  /\ purchased_amount' =
       SyncCampaignCounters(participation', amount, refund, adjustment)
  /\ UNCHANGED <<payment, amount, refundVars, adjustmentVars, disbursementVars>>

----------------------------------------------------------------------------
(* Refunds. *)

\* Mutant: the refunds still in progress are forgotten.
RequestIgnoresOpen(r, p, n, k) ==
  /\ refund[r] = NoRow
  /\ payment[p] = "success"
  /\ n \in 1..(amount[p] - _completed_refund_total(p))
  /\ k = NoRow \/ \A q \in Refunds : refund_key[q] # k
  /\ refund' = [refund EXCEPT ![r] = "pending_review"]
  /\ refund_payment' = [refund_payment EXCEPT ![r] = p]
  /\ refund_amount' = [refund_amount EXCEPT ![r] = n]
  /\ refund_key' = [refund_key EXCEPT ![r] = k]
  /\ UNCHANGED <<paymentVars, adjustmentVars, disbursementVars, purchased_amount>>

\* A key that is already in use returns the refund that has it, or fails on
\* the unique constraint: no row is written either way.
request_payment_refund(r, p, n, k) ==
  /\ refund[r] = NoRow
  /\ payment[p] = "success"
  /\ n \in 1..(amount[p] - _completed_refund_total(p) - _open_refund_total(p))
  /\ k = NoRow \/ \A q \in Refunds : refund_key[q] # k
  /\ refund' = [refund EXCEPT ![r] = "pending_review"]
  /\ refund_payment' = [refund_payment EXCEPT ![r] = p]
  /\ refund_amount' = [refund_amount EXCEPT ![r] = n]
  /\ refund_key' = [refund_key EXCEPT ![r] = k]
  /\ UNCHANGED <<paymentVars, adjustmentVars, disbursementVars, purchased_amount>>

ReviewRefund(r, status) ==
  /\ refund[r] = "pending_review"
  /\ refund' = [refund EXCEPT ![r] = status]
  /\ UNCHANGED <<paymentVars, refund_payment, refund_amount, refund_key,
                 adjustmentVars, disbursementVars, purchased_amount>>

approve_payment_refund(r) == ReviewRefund(r, "approved")

reject_payment_refund(r) == ReviewRefund(r, "rejected")

\* Mutant: any completed refund marks the participation refunded.
CompleteAlwaysRefunds(r) ==
  LET p == refund_payment[r] IN
  /\ refund[r] = "approved"
  /\ refund' = [refund EXCEPT ![r] = "completed"]
  /\ participation' = [participation EXCEPT ![p] = "refunded"]
  /\ purchased_amount' =
       SyncCampaignCounters(participation', amount, refund', adjustment)
  /\ UNCHANGED <<payment, amount, refund_payment, refund_amount, refund_key,
                 adjustmentVars, disbursementVars>>

\* Only a single refund of the whole amount marks the participation.
complete_payment_refund(r) ==
  LET p == refund_payment[r] IN
  /\ refund[r] = "approved"
  /\ refund' = [refund EXCEPT ![r] = "completed"]
  /\ participation' = IF refund_amount[r] >= amount[p]
                      THEN [participation EXCEPT ![p] = "refunded"]
                      ELSE participation
  /\ purchased_amount' =
       SyncCampaignCounters(participation', amount, refund', adjustment)
  /\ UNCHANGED <<payment, amount, refund_payment, refund_amount, refund_key,
                 adjustmentVars, disbursementVars>>

----------------------------------------------------------------------------
(* Manual adjustments. *)

create_financial_adjustment(a, type, n) ==
  /\ adjustment[a] = NoRow
  /\ n > 0
  /\ adjustment' = [adjustment EXCEPT ![a] = "pending_review"]
  /\ adjustment_type' = [adjustment_type EXCEPT ![a] = type]
  /\ adjustment_amount' = [adjustment_amount EXCEPT ![a] = n]
  /\ UNCHANGED <<paymentVars, refundVars, disbursementVars, purchased_amount>>

ReviewAdjustment(a, status) ==
  /\ adjustment[a] = "pending_review"
  /\ adjustment' = [adjustment EXCEPT ![a] = status]
  /\ UNCHANGED <<paymentVars, refundVars, adjustment_type, adjustment_amount,
                 disbursementVars, purchased_amount>>

approve_financial_adjustment(a) == ReviewAdjustment(a, "approved")

reject_financial_adjustment(a) == ReviewAdjustment(a, "rejected")

apply_financial_adjustment(a) ==
  /\ adjustment[a] = "approved"
  /\ adjustment' = [adjustment EXCEPT ![a] = "applied"]
  /\ purchased_amount' =
       SyncCampaignCounters(participation, amount, refund, adjustment')
  /\ UNCHANGED <<paymentVars, refundVars, adjustment_type, adjustment_amount,
                 disbursementVars>>

----------------------------------------------------------------------------
(* Disbursements. *)

request_campaign_disbursement(d, n) ==
  /\ disbursement[d] = NoRow
  /\ n \in 1..calculate_campaign_disbursable_amount
  /\ disbursement' = [disbursement EXCEPT ![d] = "requested"]
  /\ disbursement_amount' = [disbursement_amount EXCEPT ![d] = n]
  /\ UNCHANGED <<paymentVars, refundVars, adjustmentVars, purchased_amount>>

\* The funds are tested again with the request's own amount added back, and
\* what is available is never negative: the test always succeeds.
approve_campaign_disbursement(d) ==
  /\ disbursement[d] = "requested"
  /\ disbursement_amount[d] <=
       calculate_campaign_disbursable_amount + disbursement_amount[d]
  /\ disbursement' = [disbursement EXCEPT ![d] = "approved"]
  /\ UNCHANGED <<paymentVars, refundVars, adjustmentVars, disbursement_amount,
                 purchased_amount>>

reject_campaign_disbursement(d) ==
  /\ disbursement[d] = "requested"
  /\ disbursement' = [disbursement EXCEPT ![d] = "rejected"]
  /\ UNCHANGED <<paymentVars, refundVars, adjustmentVars, disbursement_amount,
                 purchased_amount>>

mark_campaign_disbursement_paid(d) ==
  /\ disbursement[d] = "approved"
  /\ disbursement' = [disbursement EXCEPT ![d] = "paid"]
  /\ UNCHANGED <<paymentVars, refundVars, adjustmentVars, disbursement_amount,
                 purchased_amount>>

----------------------------------------------------------------------------
FinanceNext ==
  \/ \E p \in Payments :
       \/ \E n \in Units : PaymentSucceeds(p, n)
       \/ PaymentMismatch(p)
       \/ PaidExpires(p)
  \/ \E r \in Refunds :
       \/ \E p \in Payments, n \in Units, k \in Keys \cup {NoRow} :
            request_payment_refund(r, p, n, k)
       \/ approve_payment_refund(r)
       \/ reject_payment_refund(r)
       \/ complete_payment_refund(r)
  \/ \E a \in Adjustments :
       \/ \E type \in FinancialAdjustmentType, n \in Units :
            create_financial_adjustment(a, type, n)
       \/ approve_financial_adjustment(a)
       \/ reject_financial_adjustment(a)
       \/ apply_financial_adjustment(a)
  \/ \E d \in Disbursements :
       \/ \E n \in Units : request_campaign_disbursement(d, n)
       \/ approve_campaign_disbursement(d)
       \/ reject_campaign_disbursement(d)
       \/ mark_campaign_disbursement_paid(d)

FinanceSpec == FinanceInit /\ [][FinanceNext]_financeVars

----------------------------------------------------------------------------
(* Properties. *)

\* Every column keeps the type the models declare for it.
FinanceTypeOK ==
  /\ payment \in [Payments -> {NoRow, "success", "failed"}]
  /\ participation \in
       [Payments -> {NoRow, "paid", "refunded", "failed", "expired"}]
  /\ amount \in [Payments -> Amount]
  /\ refund \in [Refunds -> RefundStatus \cup {NoRow}]
  /\ refund_payment \in [Refunds -> Payments \cup {NoRow}]
  /\ refund_amount \in [Refunds -> Amount]
  /\ refund_key \in [Refunds -> Keys \cup {NoRow}]
  /\ adjustment \in [Adjustments -> FinancialAdjustmentStatus \cup {NoRow}]
  /\ adjustment_type \in [Adjustments -> FinancialAdjustmentType \cup {NoRow}]
  /\ adjustment_amount \in [Adjustments -> Amount]
  /\ disbursement \in [Disbursements -> DisbursementStatus \cup {NoRow}]
  /\ disbursement_amount \in [Disbursements -> Amount]
  /\ purchased_amount \in Nat

\* The refunds of a payment, in progress and completed together, never exceed
\* what was paid, however requests, reviews and completions of several
\* refunds interleave.
RefundsWithinPayment ==
  \A p \in Payments :
    Cardinality(RefundUnits(p, {"pending_review", "approved", "completed"}))
      <= amount[p]

\* Every participation that is or was counted as paid.
GrossUnits ==
  {u \in Payments \X Units : participation[u[1]] \in {"paid", "refunded"}
                               /\ u[2] <= amount[u[1]]}

GivenBackUnits ==
  {u \in Refunds \X Units :
     /\ refund[u[1]] = "completed"
     /\ refund_payment[u[1]] \in Payments
     /\ participation[refund_payment[u[1]]] \in {"paid", "refunded"}
     /\ u[2] <= refund_amount[u[1]]}

\* purchased_amount is what the donors of this campaign really gave, less
\* everything given back, plus the applied adjustments, and never below zero.
\* The counter leaves out refunds of refunded participations and their
\* amounts: that is right only if a participation is marked refunded exactly
\* when all of its money went back.
NetAmountExact ==
  LET net == Cardinality(GrossUnits) - Cardinality(GivenBackUnits)
             + Cardinality(AppliedUnits(adjustment, "credit"))
             - Cardinality(AppliedUnits(adjustment, "debit"))
  IN purchased_amount = IF net > 0 THEN net ELSE 0

\* All money that ever came in: captured payments and applied credits.
IncomeUnits ==
  {u \in Payments \X Units : u[2] <= amount[u[1]]}

\* What is promised or paid to recipients never exceeds what came in, even
\* when payments, refunds and debits change after a disbursement is approved.
DisbursedWithinIncome ==
  Cardinality(CommittedUnits) <=
    Cardinality(IncomeUnits) + Cardinality(AppliedUnits(adjustment, "credit"))

\* Not kept: "Approve a requested disbursement after re-checking available
\* funds" (docstring of approve_campaign_disbursement).  The test made there
\* cannot fail, so a request is approved after refunds or debits took the
\* money that covered it.
ApprovalsAreCovered ==
  [][(\E d \in Disbursements : disbursement[d] = "requested"
                                /\ disbursement'[d] = "approved") =>
       Cardinality(CommittedUnits) <= purchased_amount]_financeVars

\* Money leaves only after a review: a refund is completed and a disbursement
\* paid only from approved, and neither changes afterwards.
MoneyLeavesOnlyApproved ==
  [][/\ \A r \in Refunds :
         /\ refund'[r] = "completed" => refund[r] \in {"approved", "completed"}
         /\ refund[r] = "completed" =>
              refund'[r] = "completed" /\ refund_amount'[r] = refund_amount[r]
     /\ \A d \in Disbursements :
         /\ disbursement'[d] = "paid" => disbursement[d] \in {"approved", "paid"}
         /\ disbursement[d] = "paid" =>
              /\ disbursement'[d] = "paid"
              /\ disbursement_amount'[d] = disbursement_amount[d]]_financeVars
====
