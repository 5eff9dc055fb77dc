------------------------ MODULE MadadkarFinanceProofs ------------------------
(***************************************************************************)
(* Proofs about MadadkarFinance for any number of payments, refunds,       *)
(* adjustments and disbursements, and amounts up to any bound.             *)
(***************************************************************************)
EXTENDS MadadkarFinance, FiniteSetTheorems, TLAPS

----------------------------------------------------------------------------
(* Counting units. *)

\* A set of units of finitely many rows is finite.
LEMMA RowUnits ==
  ASSUME NEW Rows, IsFiniteSet(Rows), NEW T \in SUBSET (Rows \X Units)
  PROVE  IsFiniteSet(T) /\ Cardinality(T) \in Nat
<1>1. IsFiniteSet(Units)
  BY FS_Interval, AmountBound DEF Units
<1>2. IsFiniteSet(Rows \X Units)
  BY Zenon, <1>1, FS_Product
<1>3. IsFiniteSet(T)
  BY Zenon, <1>2, FS_Subset
<1> QED
  BY Zenon, <1>3, FS_CardinalityType

\* A row with amount n has n units.
LEMMA UnitsOfRow ==
  ASSUME NEW r, NEW n \in Nat
  PROVE  IsFiniteSet({r} \X (1..n)) /\ Cardinality({r} \X (1..n)) = n
<1>1. IsFiniteSet(1..n) /\ Cardinality(1..n) = n
  BY FS_Interval
<1>2. IsFiniteSet({r}) /\ Cardinality({r}) = 1
  BY Zenon, FS_Singleton
<1> QED
  BY <1>1, <1>2, FS_Product

\* What is in one of two finite sets is at most as much as both hold.
LEMMA AtMostBoth ==
  ASSUME NEW S, NEW T, NEW U \in SUBSET (S \cup T),
         IsFiniteSet(S), IsFiniteSet(T)
  PROVE  IsFiniteSet(U) /\ Cardinality(U) <= Cardinality(S) + Cardinality(T)
<1>1. /\ IsFiniteSet(S \cup T) /\ IsFiniteSet(S \cap T)
      /\ Cardinality(S \cup T) =
           Cardinality(S) + Cardinality(T) - Cardinality(S \cap T)
  BY Zenon, FS_Union, FS_Subset
<1>2. IsFiniteSet(U) /\ Cardinality(U) <= Cardinality(S \cup T)
  BY Zenon, <1>1, FS_Subset
<1>3. /\ Cardinality(S) \in Nat /\ Cardinality(T) \in Nat
      /\ Cardinality(S \cap T) \in Nat /\ Cardinality(U) \in Nat
  BY Zenon, <1>1, <1>2, FS_CardinalityType
<1> QED
  BY <1>1, <1>2, <1>3

\* Two finite sets without a common element hold exactly as much as both.
LEMMA ExactlyBoth ==
  ASSUME NEW S, NEW T, IsFiniteSet(S), IsFiniteSet(T), S \cap T = {}
  PROVE  Cardinality(S \cup T) = Cardinality(S) + Cardinality(T)
<1>1. Cardinality(S \cap T) = 0
  BY Zenon, FS_EmptySet
<1>2. Cardinality(S) \in Nat /\ Cardinality(T) \in Nat
  BY Zenon, FS_CardinalityType
<1>3. Cardinality(S \cup T) =
        Cardinality(S) + Cardinality(T) - Cardinality(S \cap T)
  BY Zenon, FS_Union
<1> QED
  BY <1>1, <1>2, <1>3

----------------------------------------------------------------------------
(* The inductive invariant. *)

\* A row that exists has an amount and belongs to a payment that exists; a
\* participation is refunded only by a refund of the whole payment.
RowsAgree ==
  /\ \A p \in Payments :
       IF payment[p] = NoRow THEN amount[p] = 0 /\ participation[p] = NoRow
       ELSE amount[p] \in Units
  /\ \A r \in Refunds :
       refund[r] # NoRow =>
         /\ refund_payment[r] \in Payments /\ refund_amount[r] \in Units
         /\ payment[refund_payment[r]] # NoRow
  /\ \A p \in Payments :
       participation[p] = "refunded" =>
         \E r \in Refunds :
           /\ refund[r] = "completed" /\ refund_payment[r] = p
           /\ refund_amount[r] >= amount[p]

\* The counter is what the last recomputation would give now.
CounterSynced ==
  purchased_amount =
    SyncCampaignCounters(participation, amount, refund, adjustment)

FinanceInv ==
  /\ FinanceTypeOK /\ RowsAgree /\ CounterSynced
  /\ RefundsWithinPayment /\ DisbursedWithinIncome


\* The recomputed counter is a natural number, at most the payments counted as
\* paid and the applied credits.
LEMMA SyncBound ==
  ASSUME NEW part, NEW amt, NEW ref, NEW adj
  PROVE  /\ SyncCampaignCounters(part, amt, ref, adj) \in Nat
         /\ SyncCampaignCounters(part, amt, ref, adj) <=
              Cardinality(PaidUnits(part, amt))
                + Cardinality(AppliedUnits(adj, "credit"))
<1>1. Cardinality(PaidUnits(part, amt)) \in Nat
  BY Zenon, RowUnits, FiniteRows DEF PaidUnits
<1>2. Cardinality(RefundedUnits(part, ref)) \in Nat
  BY Zenon, RowUnits, FiniteRows DEF RefundedUnits
<1>3. \A type : Cardinality(AppliedUnits(adj, type)) \in Nat
  BY Zenon, RowUnits, FiniteRows DEF AppliedUnits
<1> QED
  BY <1>1, <1>2, <1>3 DEF SyncCampaignCounters

LEMMA FinanceInitially == FinanceInit => FinanceInv
<1> SUFFICES ASSUME FinanceInit PROVE FinanceInv
  BY Zenon
<1>1. FinanceTypeOK
  BY AmountBound DEF FinanceInit, FinanceTypeOK, Amount
<1>2. RowsAgree
  BY Zenon, NoneIsNew DEF FinanceInit, RowsAgree
<1>3. /\ PaidUnits(participation, amount) = {}
      /\ RefundedUnits(participation, refund) = {}
      /\ AppliedUnits(adjustment, "credit") = {}
      /\ AppliedUnits(adjustment, "debit") = {}
      /\ CommittedUnits = {}
  BY Zenon, NoneIsNew
     DEF FinanceInit, PaidUnits, RefundedUnits, AppliedUnits, CommittedUnits
<1>4. \A p \in Payments :
        RefundUnits(p, {"pending_review", "approved", "completed"}) = {}
  BY Zenon, NoneIsNew DEF FinanceInit, RefundUnits
<1>5. CounterSynced
  BY <1>3, FS_EmptySet DEF FinanceInit, CounterSynced, SyncCampaignCounters
<1>6. RefundsWithinPayment
  <2> SUFFICES ASSUME NEW p \in Payments
               PROVE  Cardinality(RefundUnits(p,
                        {"pending_review", "approved", "completed"})) <= amount[p]
    BY Zenon DEF RefundsWithinPayment
  <2>1. Cardinality(RefundUnits(p,
          {"pending_review", "approved", "completed"})) = 0
    BY Zenon, <1>4, FS_EmptySet
  <2> QED
    BY <2>1 DEF FinanceInit
<1>7. Cardinality(IncomeUnits) \in Nat
  BY Zenon, RowUnits, FiniteRows DEF IncomeUnits
<1>8. DisbursedWithinIncome
  BY <1>3, <1>7, FS_EmptySet DEF DisbursedWithinIncome
<1> QED
  BY Zenon, <1>1, <1>2, <1>5, <1>6, <1>8 DEF FinanceInv

----------------------------------------------------------------------------
(* Types. *)

LEMMA FinanceTypesStep ==
  FinanceTypeOK /\ RowsAgree /\ [FinanceNext]_financeVars => FinanceTypeOK'
<1> SUFFICES ASSUME FinanceTypeOK, RowsAgree, [FinanceNext]_financeVars
             PROVE  FinanceTypeOK'
  BY Zenon
<1> USE DEF FinanceTypeOK, Amount, Units
<1>1. ASSUME NEW p \in Payments, NEW n \in Units, PaymentSucceeds(p, n)
      PROVE  FinanceTypeOK'
  BY <1>1, SyncBound
     DEF PaymentSucceeds, refundVars, adjustmentVars, disbursementVars
<1>2. ASSUME NEW p \in Payments, PaymentMismatch(p) \/ PaidExpires(p)
      PROVE  FinanceTypeOK'
  BY <1>2, SyncBound DEF PaymentMismatch, PaidExpires,
                         refundVars, adjustmentVars, disbursementVars
<1>3. ASSUME NEW r \in Refunds, NEW p \in Payments, NEW n \in Units,
             NEW k \in Keys \cup {NoRow}, request_payment_refund(r, p, n, k)
      PROVE  FinanceTypeOK'
  BY <1>3 DEF request_payment_refund, RefundStatus,
              paymentVars, adjustmentVars, disbursementVars
<1>4. ASSUME NEW r \in Refunds,
             approve_payment_refund(r) \/ reject_payment_refund(r)
      PROVE  FinanceTypeOK'
  BY <1>4 DEF approve_payment_refund, reject_payment_refund, ReviewRefund,
              RefundStatus, paymentVars, adjustmentVars, disbursementVars
<1>5. ASSUME NEW r \in Refunds, complete_payment_refund(r)
      PROVE  FinanceTypeOK'
  BY Zenon, <1>5, SyncBound DEF complete_payment_refund, RefundStatus,
                         adjustmentVars, disbursementVars
<1>6. ASSUME NEW a \in Adjustments, NEW type \in FinancialAdjustmentType,
             NEW n \in Units, create_financial_adjustment(a, type, n)
      PROVE  FinanceTypeOK'
  BY <1>6 DEF create_financial_adjustment, FinancialAdjustmentStatus,
              paymentVars, refundVars, disbursementVars
<1>7. ASSUME NEW a \in Adjustments,
             approve_financial_adjustment(a) \/ reject_financial_adjustment(a)
      PROVE  FinanceTypeOK'
  BY <1>7 DEF approve_financial_adjustment, reject_financial_adjustment,
              ReviewAdjustment, FinancialAdjustmentStatus,
              paymentVars, refundVars, disbursementVars
<1>8. ASSUME NEW a \in Adjustments, apply_financial_adjustment(a)
      PROVE  FinanceTypeOK'
  BY Zenon, <1>8, SyncBound DEF apply_financial_adjustment, FinancialAdjustmentStatus,
                         paymentVars, refundVars, disbursementVars
<1>9. ASSUME NEW d \in Disbursements, NEW n \in Units,
             request_campaign_disbursement(d, n)
      PROVE  FinanceTypeOK'
  BY <1>9 DEF request_campaign_disbursement, DisbursementStatus,
              paymentVars, refundVars, adjustmentVars
<1>10. ASSUME NEW d \in Disbursements,
              \/ approve_campaign_disbursement(d)
              \/ reject_campaign_disbursement(d)
              \/ mark_campaign_disbursement_paid(d)
       PROVE  FinanceTypeOK'
  BY <1>10 DEF approve_campaign_disbursement, reject_campaign_disbursement,
               mark_campaign_disbursement_paid, DisbursementStatus,
               paymentVars, refundVars, adjustmentVars
<1>11. CASE UNCHANGED financeVars
  BY Zenon, <1>11 DEF financeVars
<1> QED
  BY Zenon, <1>1, <1>2, <1>3, <1>4, <1>5, <1>6, <1>7, <1>8, <1>9, <1>10, <1>11
     DEF FinanceNext

----------------------------------------------------------------------------
(* The rows. *)

LEMMA RowsStep ==
  FinanceTypeOK /\ RowsAgree /\ [FinanceNext]_financeVars => RowsAgree'
<1> SUFFICES ASSUME FinanceTypeOK, RowsAgree, [FinanceNext]_financeVars
             PROVE  RowsAgree'
  BY Zenon
<1> USE NoneIsNew DEF FinanceTypeOK, RowsAgree
<1>1. ASSUME NEW p \in Payments, NEW n \in Units, PaymentSucceeds(p, n)
      PROVE  RowsAgree'
  BY <1>1 DEF PaymentSucceeds, refundVars
<1>2. ASSUME NEW p \in Payments, PaymentMismatch(p)
      PROVE  RowsAgree'
  BY <1>2 DEF PaymentMismatch, refundVars
<1>3. ASSUME NEW p \in Payments, PaidExpires(p)
      PROVE  RowsAgree'
  BY <1>3 DEF PaidExpires, refundVars
<1>4. ASSUME NEW r \in Refunds, NEW p \in Payments, NEW n \in Units,
             NEW k \in Keys \cup {NoRow}, request_payment_refund(r, p, n, k)
      PROVE  RowsAgree'
  BY <1>4 DEF request_payment_refund, paymentVars
<1>5. ASSUME NEW r \in Refunds,
             approve_payment_refund(r) \/ reject_payment_refund(r)
      PROVE  RowsAgree'
  BY <1>5 DEF approve_payment_refund, reject_payment_refund, ReviewRefund,
              paymentVars
<1>6. ASSUME NEW r \in Refunds, complete_payment_refund(r)
      PROVE  RowsAgree'
  BY <1>6 DEF complete_payment_refund
<1>7. ASSUME UNCHANGED <<paymentVars, refundVars>>
      PROVE  RowsAgree'
  BY Zenon, <1>7 DEF paymentVars, refundVars
<1>8. ASSUME NEW a \in Adjustments,
             \/ \E type \in FinancialAdjustmentType, n \in Units :
                  create_financial_adjustment(a, type, n)
             \/ approve_financial_adjustment(a)
             \/ reject_financial_adjustment(a)
             \/ apply_financial_adjustment(a)
      PROVE  UNCHANGED <<paymentVars, refundVars>>
  BY Zenon, <1>8 DEF create_financial_adjustment, approve_financial_adjustment,
              reject_financial_adjustment, ReviewAdjustment,
              apply_financial_adjustment, paymentVars, refundVars
<1>9. ASSUME NEW d \in Disbursements,
             \/ \E n \in Units : request_campaign_disbursement(d, n)
             \/ approve_campaign_disbursement(d)
             \/ reject_campaign_disbursement(d)
             \/ mark_campaign_disbursement_paid(d)
      PROVE  UNCHANGED <<paymentVars, refundVars>>
  BY Zenon, <1>9 DEF request_campaign_disbursement, approve_campaign_disbursement,
              reject_campaign_disbursement, mark_campaign_disbursement_paid,
              paymentVars, refundVars
<1>10. CASE UNCHANGED financeVars
  BY Zenon, <1>10 DEF financeVars
<1> QED
  BY Zenon, <1>1, <1>2, <1>3, <1>4, <1>5, <1>6, <1>7, <1>8, <1>9, <1>10
     DEF FinanceNext

----------------------------------------------------------------------------
(* The counter: every step that changes what it sums recomputes it. *)

LEMMA CounterStep ==
  FinanceTypeOK /\ CounterSynced /\ [FinanceNext]_financeVars => CounterSynced'
<1> SUFFICES ASSUME FinanceTypeOK, CounterSynced, [FinanceNext]_financeVars
             PROVE  CounterSynced'
  OBVIOUS
\* Equal sets of units give equal counters.
<1>1. ASSUME purchased_amount' = purchased_amount,
             PaidUnits(participation, amount)' = PaidUnits(participation, amount),
             RefundedUnits(participation, refund)' =
               RefundedUnits(participation, refund),
             AppliedUnits(adjustment, "credit")' = AppliedUnits(adjustment, "credit"),
             AppliedUnits(adjustment, "debit")' = AppliedUnits(adjustment, "debit")
      PROVE  CounterSynced'
  BY Zenon, <1>1 DEF CounterSynced, SyncCampaignCounters
<1>2. ASSUME NEW p \in Payments,
             \/ \E n \in Units : PaymentSucceeds(p, n)
             \/ PaymentMismatch(p) \/ PaidExpires(p)
      PROVE  CounterSynced'
  <2>1. /\ purchased_amount' =
             SyncCampaignCounters(participation', amount', refund, adjustment)
        /\ UNCHANGED <<refund, refund_payment, refund_amount>>
        /\ UNCHANGED <<adjustment, adjustment_type, adjustment_amount>>
    BY Zenon, <1>2 DEF PaymentSucceeds, PaymentMismatch, PaidExpires, refundVars, adjustmentVars
  <2> QED
    BY <2>1 DEF CounterSynced, SyncCampaignCounters, PaidUnits, RefundedUnits, AppliedUnits
<1>3. ASSUME NEW r \in Refunds, complete_payment_refund(r)
      PROVE  CounterSynced'
  BY <1>3 DEF complete_payment_refund, CounterSynced, SyncCampaignCounters,
              PaidUnits, RefundedUnits, AppliedUnits, adjustmentVars
<1>4. ASSUME NEW a \in Adjustments, apply_financial_adjustment(a)
      PROVE  CounterSynced'
  BY Zenon, <1>4 DEF apply_financial_adjustment, CounterSynced, SyncCampaignCounters,
              PaidUnits, RefundedUnits, AppliedUnits, paymentVars, refundVars
<1>5. ASSUME NEW r \in Refunds,
             \/ \E p \in Payments, n \in Units, k \in Keys \cup {NoRow} :
                  request_payment_refund(r, p, n, k)
             \/ approve_payment_refund(r) \/ reject_payment_refund(r)
      PROVE  CounterSynced'
  <2>1. /\ UNCHANGED <<paymentVars, adjustmentVars, purchased_amount>>
        /\ \A q \in Refunds \ {r} : /\ refund'[q] = refund[q]
                                    /\ refund_payment'[q] = refund_payment[q]
                                    /\ refund_amount'[q] = refund_amount[q]
        /\ refund[r] # "completed" /\ refund'[r] # "completed"
    BY <1>5, NoneIsNew
       DEF request_payment_refund, approve_payment_refund,
           reject_payment_refund, ReviewRefund, FinanceTypeOK
  <2>2. RefundedUnits(participation, refund)' =
          RefundedUnits(participation, refund)
    BY <2>1 DEF RefundedUnits, paymentVars
  <2>3. /\ PaidUnits(participation, amount)' = PaidUnits(participation, amount)
        /\ AppliedUnits(adjustment, "credit")' = AppliedUnits(adjustment, "credit")
        /\ AppliedUnits(adjustment, "debit")' = AppliedUnits(adjustment, "debit")
    BY Zenon, <2>1 DEF PaidUnits, AppliedUnits, paymentVars, adjustmentVars
  <2> QED
    BY Zenon, <1>1, <2>1, <2>2, <2>3
<1>6. ASSUME NEW a \in Adjustments,
             \/ \E type \in FinancialAdjustmentType, n \in Units :
                  create_financial_adjustment(a, type, n)
             \/ approve_financial_adjustment(a) \/ reject_financial_adjustment(a)
      PROVE  CounterSynced'
  <2>1. /\ UNCHANGED <<paymentVars, refundVars, purchased_amount>>
        /\ \A b \in Adjustments \ {a} :
             /\ adjustment'[b] = adjustment[b]
             /\ adjustment_type'[b] = adjustment_type[b]
             /\ adjustment_amount'[b] = adjustment_amount[b]
        /\ adjustment[a] # "applied" /\ adjustment'[a] # "applied"
    BY <1>6, NoneIsNew
       DEF create_financial_adjustment, approve_financial_adjustment,
           reject_financial_adjustment, ReviewAdjustment, FinanceTypeOK
  <2>2. /\ AppliedUnits(adjustment, "credit")' = AppliedUnits(adjustment, "credit")
        /\ AppliedUnits(adjustment, "debit")' = AppliedUnits(adjustment, "debit")
    BY <2>1 DEF AppliedUnits
  <2>3. /\ PaidUnits(participation, amount)' = PaidUnits(participation, amount)
        /\ RefundedUnits(participation, refund)' =
             RefundedUnits(participation, refund)
    BY Zenon, <2>1 DEF PaidUnits, RefundedUnits, paymentVars, refundVars
  <2> QED
    BY Zenon, <1>1, <2>1, <2>2, <2>3
<1>7. ASSUME UNCHANGED <<paymentVars, refundVars, adjustmentVars, purchased_amount>>
      PROVE  CounterSynced'
  BY Zenon, <1>1, <1>7 DEF PaidUnits, RefundedUnits, AppliedUnits,
                    paymentVars, refundVars, adjustmentVars
<1>8. ASSUME NEW d \in Disbursements,
             \/ \E n \in Units : request_campaign_disbursement(d, n)
             \/ approve_campaign_disbursement(d)
             \/ reject_campaign_disbursement(d)
             \/ mark_campaign_disbursement_paid(d)
      PROVE  UNCHANGED <<paymentVars, refundVars, adjustmentVars, purchased_amount>>
  BY Zenon, <1>8 DEF request_campaign_disbursement, approve_campaign_disbursement,
              reject_campaign_disbursement, mark_campaign_disbursement_paid
<1>9. CASE UNCHANGED financeVars
  BY Zenon, <1>7, <1>9 DEF financeVars, paymentVars, refundVars, adjustmentVars
<1> QED
  BY Zenon, <1>2, <1>3, <1>4, <1>5, <1>6, <1>7, <1>8, <1>9 DEF FinanceNext

----------------------------------------------------------------------------
(* Refunds. *)

Live == {"pending_review", "approved", "completed"}

LEMMA RefundUnitsFinite ==
  ASSUME NEW p, NEW S
  PROVE  IsFiniteSet(RefundUnits(p, S)) /\ Cardinality(RefundUnits(p, S)) \in Nat
BY Zenon, RowUnits, FiniteRows DEF RefundUnits

LEMMA RefundsStep ==
  FinanceTypeOK /\ RowsAgree /\ RefundsWithinPayment /\ [FinanceNext]_financeVars
    => RefundsWithinPayment'
<1> SUFFICES ASSUME FinanceTypeOK, RowsAgree, RefundsWithinPayment,
                    [FinanceNext]_financeVars, NEW p \in Payments
             PROVE  Cardinality(RefundUnits(p, Live)') <= amount'[p]
  BY Zenon DEF RefundsWithinPayment, Live
<1> DEFINE old == RefundUnits(p, Live)
           new == RefundUnits(p, Live)'
<1>1. IsFiniteSet(old) /\ Cardinality(old) \in Nat /\ Cardinality(old) <= amount[p]
  BY Zenon, RefundUnitsFinite DEF RefundsWithinPayment, Live
<1> HIDE DEF old
\* Fewer refunds of a payment that keeps its amount, or gets one.
<1>2. ASSUME new \subseteq old, amount'[p] = amount[p] \/ amount[p] = 0,
             amount'[p] \in Nat
      PROVE  Cardinality(new) <= amount'[p]
  <2>1. IsFiniteSet(new) /\ Cardinality(new) <= Cardinality(old)
    BY Zenon, <1>1, <1>2, FS_Subset
  <2>2. Cardinality(new) \in Nat
    BY Zenon, <2>1, FS_CardinalityType
  <2> HIDE DEF new
  <2> QED
    BY <1>1, <1>2, <2>1, <2>2 DEF FinanceTypeOK, Amount
<1>3. ASSUME UNCHANGED refundVars
      PROVE  new = old
  BY Zenon, <1>3 DEF refundVars, RefundUnits, old
<1>4. ASSUME NEW q \in Payments,
             \/ \E n \in Units : PaymentSucceeds(q, n)
             \/ PaymentMismatch(q) \/ PaidExpires(q)
      PROVE  Cardinality(new) <= amount'[p]
  <2>1. UNCHANGED refundVars /\ (amount'[p] = amount[p] \/ amount[p] = 0)
        /\ amount'[p] \in Nat
    BY <1>4 DEF PaymentSucceeds, PaymentMismatch, PaidExpires, RowsAgree,
                FinanceTypeOK, Amount, Units
  <2> QED
    BY Zenon, <1>2, <1>3, <2>1
<1>5. ASSUME NEW r \in Refunds, NEW q \in Payments, NEW n \in Units,
             NEW k \in Keys \cup {NoRow}, request_payment_refund(r, q, n, k)
      PROVE  Cardinality(new) <= amount'[p]
  <2>1. CASE q # p
    <3>1. new \subseteq old
      BY Zenon, <1>5, <2>1 DEF request_payment_refund, RefundUnits, old, FinanceTypeOK
    <3>2. amount'[p] = amount[p] /\ amount'[p] \in Nat
      BY <1>5 DEF request_payment_refund, paymentVars, FinanceTypeOK, Amount
    <3> QED
      BY Zenon, <1>2, <3>1, <3>2
  <2>2. CASE q = p
    <3> DEFINE done == RefundUnits(p, {"completed"})
               open == RefundUnits(p, {"pending_review", "approved"})
               row == {r} \X (1..n)
    <3>1. /\ IsFiniteSet(done) /\ IsFiniteSet(open)
          /\ Cardinality(done) \in Nat /\ Cardinality(open) \in Nat
      BY Zenon, RefundUnitsFinite
    <3>2. IsFiniteSet(row) /\ Cardinality(row) = n /\ n \in Nat
      <4>1. n \in Nat
        BY AmountBound DEF Units
      <4> QED
        BY Zenon, <4>1, UnitsOfRow
    <3>3. n <= amount[p] - Cardinality(done) - Cardinality(open)
      BY <1>5, <2>2, <3>1, <3>2
         DEF request_payment_refund, _completed_refund_total, _open_refund_total,
             FinanceTypeOK, Amount
    <3>4. new \subseteq (done \cup open) \cup row
      BY <1>5, <2>2 DEF request_payment_refund, RefundUnits, Live, FinanceTypeOK,
                        Units
    <3> HIDE DEF done, open, row, new
    <3>5. /\ IsFiniteSet(done \cup open)
          /\ Cardinality(done \cup open) <= Cardinality(done) + Cardinality(open)
      BY Zenon, <3>1, AtMostBoth
    <3>6. /\ IsFiniteSet(new)
          /\ Cardinality(new) <= Cardinality(done \cup open) + Cardinality(row)
      BY Zenon, <3>2, <3>4, <3>5, AtMostBoth
    <3>7. Cardinality(done \cup open) \in Nat /\ Cardinality(new) \in Nat
      BY Zenon, <3>5, <3>6, FS_CardinalityType
    <3>8. amount'[p] = amount[p] /\ amount[p] \in Nat
      BY <1>5 DEF request_payment_refund, paymentVars, FinanceTypeOK, Amount
    <3> QED
      BY <3>1, <3>2, <3>3, <3>5, <3>6, <3>7, <3>8
  <2> QED
    BY Zenon, <2>1, <2>2
<1>6. ASSUME NEW r \in Refunds,
             \/ approve_payment_refund(r) \/ reject_payment_refund(r)
             \/ complete_payment_refund(r)
      PROVE  Cardinality(new) <= amount'[p]
  <2>1. new \subseteq old
    BY <1>6 DEF approve_payment_refund, reject_payment_refund, ReviewRefund,
                complete_payment_refund, RefundUnits, Live, old, FinanceTypeOK
  <2>2. amount'[p] = amount[p] /\ amount'[p] \in Nat
    BY <1>6 DEF approve_payment_refund, reject_payment_refund, ReviewRefund,
                complete_payment_refund, paymentVars, FinanceTypeOK, Amount
  <2> QED
    BY Zenon, <1>2, <2>1, <2>2
<1>7. ASSUME UNCHANGED <<paymentVars, refundVars>>
      PROVE  Cardinality(new) <= amount'[p]
  <2>1. amount'[p] = amount[p] /\ amount'[p] \in Nat
    BY <1>7 DEF paymentVars, FinanceTypeOK, Amount
  <2> QED
    BY Zenon, <1>2, <1>3, <1>7, <2>1
<1>8. ASSUME NEW a \in Adjustments,
             \/ \E type \in FinancialAdjustmentType, n \in Units :
                  create_financial_adjustment(a, type, n)
             \/ approve_financial_adjustment(a)
             \/ reject_financial_adjustment(a)
             \/ apply_financial_adjustment(a)
      PROVE  UNCHANGED <<paymentVars, refundVars>>
  BY Zenon, <1>8 DEF create_financial_adjustment, approve_financial_adjustment,
              reject_financial_adjustment, ReviewAdjustment,
              apply_financial_adjustment
<1>9. ASSUME NEW d \in Disbursements,
             \/ \E n \in Units : request_campaign_disbursement(d, n)
             \/ approve_campaign_disbursement(d)
             \/ reject_campaign_disbursement(d)
             \/ mark_campaign_disbursement_paid(d)
      PROVE  UNCHANGED <<paymentVars, refundVars>>
  BY Zenon, <1>9 DEF request_campaign_disbursement, approve_campaign_disbursement,
              reject_campaign_disbursement, mark_campaign_disbursement_paid
<1>10. ASSUME UNCHANGED financeVars
       PROVE  UNCHANGED <<paymentVars, refundVars>>
  BY Zenon, <1>10 DEF financeVars, paymentVars, refundVars
<1> HIDE DEF new
<1> QED
  BY Zenon, <1>4, <1>5, <1>6, <1>7, <1>8, <1>9, <1>10 DEF FinanceNext, new

----------------------------------------------------------------------------
(* Disbursements. *)

\* A request adds its amount to what is committed, and stays within the counter.
LEMMA RequestCommits ==
  ASSUME FinanceTypeOK, NEW d \in Disbursements, NEW n \in Units,
         request_campaign_disbursement(d, n)
  PROVE  Cardinality(CommittedUnits') <= purchased_amount
<1> DEFINE old == CommittedUnits
           row == {d} \X (1..n)
           new == CommittedUnits'
<1>1. IsFiniteSet(old) /\ Cardinality(old) \in Nat
  BY Zenon, RowUnits, FiniteRows DEF CommittedUnits
<1>2. IsFiniteSet(row) /\ Cardinality(row) = n /\ n \in Nat
  <2>1. n \in Nat
    BY AmountBound DEF Units
  <2> QED
    BY Zenon, <2>1, UnitsOfRow
<1>3. new \subseteq old \cup row
  BY DEF request_campaign_disbursement, CommittedUnits, FinanceTypeOK, Units
<1>4. n <= purchased_amount - Cardinality(old)
  BY <1>1, <1>2 DEF request_campaign_disbursement,
                    calculate_campaign_disbursable_amount, FinanceTypeOK, Units
<1> HIDE DEF old, row, new
<1>5. IsFiniteSet(new) /\ Cardinality(new) <= Cardinality(old) + Cardinality(row)
  BY Zenon, <1>1, <1>2, <1>3, AtMostBoth
<1>6. Cardinality(new) \in Nat
  BY Zenon, <1>5, FS_CardinalityType
<1>7. Cardinality(new) <= purchased_amount
  BY <1>1, <1>2, <1>4, <1>5, <1>6 DEF FinanceTypeOK
<1> QED
  BY Zenon, <1>7 DEF new

\* No other step adds to what is committed.
LEMMA OthersDoNotCommit ==
  ASSUME FinanceTypeOK, [FinanceNext]_financeVars
  PROVE  \/ CommittedUnits' \subseteq CommittedUnits
         \/ \E d \in Disbursements, n \in Units : request_campaign_disbursement(d, n)
<1>1. ASSUME UNCHANGED disbursementVars
      PROVE  CommittedUnits' \subseteq CommittedUnits
  BY Zenon, <1>1 DEF CommittedUnits, disbursementVars
<1>2. ASSUME NEW d \in Disbursements,
             \/ approve_campaign_disbursement(d)
             \/ reject_campaign_disbursement(d)
             \/ mark_campaign_disbursement_paid(d)
      PROVE  CommittedUnits' \subseteq CommittedUnits
  BY <1>2 DEF approve_campaign_disbursement, reject_campaign_disbursement,
              mark_campaign_disbursement_paid, CommittedUnits, FinanceTypeOK
<1>3. ASSUME NEW p \in Payments,
             \/ \E n \in Units : PaymentSucceeds(p, n)
             \/ PaymentMismatch(p) \/ PaidExpires(p)
      PROVE  UNCHANGED disbursementVars
  BY Zenon, <1>3 DEF PaymentSucceeds, PaymentMismatch, PaidExpires
<1>4. ASSUME NEW r \in Refunds,
             \/ \E p \in Payments, n \in Units, k \in Keys \cup {NoRow} :
                  request_payment_refund(r, p, n, k)
             \/ approve_payment_refund(r) \/ reject_payment_refund(r)
             \/ complete_payment_refund(r)
      PROVE  UNCHANGED disbursementVars
  BY Zenon, <1>4 DEF request_payment_refund, approve_payment_refund,
              reject_payment_refund, ReviewRefund, complete_payment_refund
<1>5. ASSUME NEW a \in Adjustments,
             \/ \E type \in FinancialAdjustmentType, n \in Units :
                  create_financial_adjustment(a, type, n)
             \/ approve_financial_adjustment(a)
             \/ reject_financial_adjustment(a)
             \/ apply_financial_adjustment(a)
      PROVE  UNCHANGED disbursementVars
  BY Zenon, <1>5 DEF create_financial_adjustment, approve_financial_adjustment,
              reject_financial_adjustment, ReviewAdjustment,
              apply_financial_adjustment
<1>6. ASSUME UNCHANGED financeVars
      PROVE  UNCHANGED disbursementVars
  BY Zenon, <1>6 DEF financeVars, disbursementVars
<1> QED
  BY Zenon, <1>1, <1>2, <1>3, <1>4, <1>5, <1>6 DEF FinanceNext

\* The money that came in never shrinks.
LEMMA IncomeGrows ==
  ASSUME FinanceTypeOK, RowsAgree, [FinanceNext]_financeVars
  PROVE  /\ IncomeUnits \subseteq IncomeUnits'
         /\ AppliedUnits(adjustment, "credit") \subseteq
              AppliedUnits(adjustment, "credit")'
<1>1. ASSUME UNCHANGED amount
      PROVE  IncomeUnits \subseteq IncomeUnits'
  BY Zenon, <1>1 DEF IncomeUnits
<1>2. ASSUME UNCHANGED adjustmentVars
      PROVE  AppliedUnits(adjustment, "credit") \subseteq
               AppliedUnits(adjustment, "credit")'
  BY Zenon, <1>2 DEF AppliedUnits, adjustmentVars
<1>3. ASSUME NEW p \in Payments, NEW n \in Units, PaymentSucceeds(p, n)
      PROVE  UNCHANGED adjustmentVars /\ IncomeUnits \subseteq IncomeUnits'
  <2>1. UNCHANGED adjustmentVars
    BY Zenon, <1>3 DEF PaymentSucceeds
  <2>2. \A q \in Payments : amount[q] = amount'[q] \/ amount[q] = 0
    BY <1>3 DEF PaymentSucceeds, RowsAgree, FinanceTypeOK
  <2>3. \A i \in Units : ~(i <= 0)
    BY AmountBound DEF Units
  <2> QED
    BY Zenon, <2>1, <2>2, <2>3 DEF IncomeUnits
<1>4. ASSUME NEW p \in Payments, PaymentMismatch(p) \/ PaidExpires(p)
      PROVE  UNCHANGED <<amount, adjustmentVars>>
  BY Zenon, <1>4 DEF PaymentMismatch, PaidExpires
<1>5. ASSUME NEW r \in Refunds,
             \/ \E p \in Payments, n \in Units, k \in Keys \cup {NoRow} :
                  request_payment_refund(r, p, n, k)
             \/ approve_payment_refund(r) \/ reject_payment_refund(r)
             \/ complete_payment_refund(r)
      PROVE  UNCHANGED <<amount, adjustmentVars>>
  BY Zenon, <1>5 DEF request_payment_refund, approve_payment_refund,
              reject_payment_refund, ReviewRefund, complete_payment_refund,
              paymentVars
<1>6. ASSUME NEW a \in Adjustments,
             \/ \E type \in FinancialAdjustmentType, n \in Units :
                  create_financial_adjustment(a, type, n)
             \/ approve_financial_adjustment(a)
             \/ reject_financial_adjustment(a)
             \/ apply_financial_adjustment(a)
      PROVE  /\ UNCHANGED amount
             /\ AppliedUnits(adjustment, "credit") \subseteq
                  AppliedUnits(adjustment, "credit")'
  <2>1. UNCHANGED amount
    BY Zenon, <1>6 DEF create_financial_adjustment, approve_financial_adjustment,
                reject_financial_adjustment, ReviewAdjustment,
                apply_financial_adjustment, paymentVars
  <2>2. \A b \in Adjustments :
          adjustment[b] = "applied" =>
            /\ adjustment'[b] = "applied"
            /\ adjustment_type'[b] = adjustment_type[b]
            /\ adjustment_amount'[b] = adjustment_amount[b]
    BY <1>6, NoneIsNew
       DEF create_financial_adjustment, approve_financial_adjustment,
           reject_financial_adjustment, ReviewAdjustment,
           apply_financial_adjustment, FinanceTypeOK
  <2> QED
    BY Zenon, <2>1, <2>2 DEF AppliedUnits
<1>7. ASSUME NEW d \in Disbursements,
             \/ \E n \in Units : request_campaign_disbursement(d, n)
             \/ approve_campaign_disbursement(d)
             \/ reject_campaign_disbursement(d)
             \/ mark_campaign_disbursement_paid(d)
      PROVE  UNCHANGED <<amount, adjustmentVars>>
  BY Zenon, <1>7 DEF request_campaign_disbursement, approve_campaign_disbursement,
              reject_campaign_disbursement, mark_campaign_disbursement_paid,
              paymentVars
<1>8. ASSUME UNCHANGED financeVars
      PROVE  UNCHANGED <<amount, adjustmentVars>>
  BY Zenon, <1>8 DEF financeVars, adjustmentVars
<1> QED
  BY Zenon, <1>1, <1>2, <1>3, <1>4, <1>5, <1>6, <1>7, <1>8 DEF FinanceNext

LEMMA IncomeStep ==
  FinanceTypeOK /\ RowsAgree /\ CounterSynced /\ DisbursedWithinIncome
    /\ [FinanceNext]_financeVars => DisbursedWithinIncome'
<1> SUFFICES ASSUME FinanceTypeOK, RowsAgree, CounterSynced,
                    DisbursedWithinIncome, [FinanceNext]_financeVars
             PROVE  DisbursedWithinIncome'
  BY Zenon
<1> DEFINE credit == AppliedUnits(adjustment, "credit")
<1>1. /\ IsFiniteSet(IncomeUnits') /\ Cardinality(IncomeUnits') \in Nat
      /\ IsFiniteSet(credit') /\ Cardinality(credit') \in Nat
      /\ IsFiniteSet(IncomeUnits) /\ Cardinality(IncomeUnits) \in Nat
      /\ IsFiniteSet(credit) /\ Cardinality(credit) \in Nat
  BY Zenon, RowUnits, FiniteRows DEF IncomeUnits, AppliedUnits
<1>2. /\ IsFiniteSet(CommittedUnits) /\ Cardinality(CommittedUnits) \in Nat
      /\ IsFiniteSet(CommittedUnits') /\ Cardinality(CommittedUnits') \in Nat
  BY Zenon, RowUnits, FiniteRows DEF CommittedUnits
<1>3. /\ Cardinality(IncomeUnits) <= Cardinality(IncomeUnits')
      /\ Cardinality(credit) <= Cardinality(credit')
  BY Zenon, <1>1, IncomeGrows, FS_Subset
<1>4. Cardinality(CommittedUnits') <= Cardinality(IncomeUnits) + Cardinality(credit)
  <2>1. CASE CommittedUnits' \subseteq CommittedUnits
    <3>1. Cardinality(CommittedUnits') <= Cardinality(CommittedUnits)
      BY Zenon, <1>2, <2>1, FS_Subset
    <3> HIDE DEF credit
    <3> QED
      BY <1>1, <1>2, <3>1 DEF DisbursedWithinIncome, credit
  <2>2. CASE \E d \in Disbursements, n \in Units :
               request_campaign_disbursement(d, n)
    <3>1. Cardinality(CommittedUnits') <= purchased_amount
      BY Zenon, <2>2, RequestCommits
    <3> DEFINE paid == PaidUnits(participation, amount)
    <3>2. purchased_amount <= Cardinality(paid) + Cardinality(credit)
      BY Zenon, SyncBound DEF CounterSynced
    <3>3. paid \subseteq IncomeUnits
      BY Zenon DEF PaidUnits, IncomeUnits
    <3>4. Cardinality(paid) <= Cardinality(IncomeUnits) /\ Cardinality(paid) \in Nat
      BY Zenon, <1>1, <3>3, FS_Subset, FS_CardinalityType
    <3> HIDE DEF paid, credit
    <3> QED
      BY <1>1, <1>2, <3>1, <3>2, <3>4 DEF FinanceTypeOK
  <2> QED
    BY Zenon, <2>1, <2>2, OthersDoNotCommit
<1> HIDE DEF credit
<1>5. Cardinality(CommittedUnits') <=
        Cardinality(IncomeUnits') + Cardinality(credit')
  BY <1>1, <1>2, <1>3, <1>4
<1> QED
  BY Zenon, <1>5 DEF DisbursedWithinIncome, credit

----------------------------------------------------------------------------
(* The counter against the money that really moved. *)

\* The refund that returned a whole payment is its only completed one, and
\* returned exactly the payment.
LEMMA FullRefundIsOnly ==
  ASSUME FinanceTypeOK, RowsAgree, RefundsWithinPayment, NEW p \in Payments,
         NEW r \in Refunds, refund[r] = "completed", refund_payment[r] = p,
         refund_amount[r] >= amount[p]
  PROVE  /\ refund_amount[r] = amount[p]
         /\ \A s \in Refunds :
              refund[s] = "completed" /\ refund_payment[s] = p => s = r
<1> DEFINE all == RefundUnits(p, Live)
           mine == {r} \X (1..refund_amount[r])
<1>1. IsFiniteSet(all) /\ Cardinality(all) \in Nat /\ Cardinality(all) <= amount[p]
  BY Zenon, RefundUnitsFinite DEF RefundsWithinPayment, Live
<1>2. \A s \in Refunds :
        refund[s] = "completed" /\ refund_payment[s] = p =>
          /\ refund_amount[s] \in Nat \ {0}
          /\ ({s} \X (1..refund_amount[s])) \subseteq all
  <2> SUFFICES ASSUME NEW s \in Refunds, refund[s] = "completed",
                      refund_payment[s] = p
               PROVE  /\ refund_amount[s] \in Nat \ {0}
                      /\ ({s} \X (1..refund_amount[s])) \subseteq all
    BY Zenon
  <2>1. refund_amount[s] \in Units
    BY Zenon, NoneIsNew DEF RowsAgree
  <2>2. refund_amount[s] \in Nat \ {0} /\ 1..refund_amount[s] \subseteq Units
    BY <2>1, AmountBound DEF Units
  <2>3. \A i \in 1..refund_amount[s] : i <= refund_amount[s]
    BY <2>2
  <2> QED
    BY Zenon, <2>2, <2>3 DEF RefundUnits, Live
<1>3. IsFiniteSet(mine) /\ Cardinality(mine) = refund_amount[r]
  BY Zenon, <1>2, UnitsOfRow
<1> HIDE DEF all
<1>4. Cardinality(mine) <= Cardinality(all)
  BY Zenon, <1>1, <1>2, FS_Subset
<1>5. refund_amount[r] = amount[p]
  BY <1>1, <1>2, <1>3, <1>4 DEF FinanceTypeOK, Amount
<1>6. ASSUME NEW s \in Refunds, refund[s] = "completed", refund_payment[s] = p,
             s # r
      PROVE  FALSE
  <2> DEFINE other == {s} \X (1..refund_amount[s])
  <2>1. IsFiniteSet(other) /\ Cardinality(other) = refund_amount[s]
    BY Zenon, <1>2, <1>6, UnitsOfRow
  <2>2. mine \cap other = {}
    BY Zenon, <1>6
  <2>3. mine \cup other \subseteq all
    BY Zenon, <1>2, <1>6
  <2>4. Cardinality(mine \cup other) = refund_amount[r] + refund_amount[s]
    BY <1>3, <2>1, <2>2, ExactlyBoth
  <2>5. Cardinality(mine \cup other) <= Cardinality(all)
    BY Zenon, <1>1, <2>3, FS_Subset
  <2> HIDE DEF mine, other
  <2> QED
    BY <1>1, <1>2, <1>5, <1>6, <2>4, <2>5
<1> QED
  BY Zenon, <1>5, <1>6

\* The payments marked refunded and their refunds are the same money, so the
\* counter may leave both out.
LEMMA RefundedCancelOut ==
  ASSUME FinanceTypeOK, RowsAgree, RefundsWithinPayment
  PROVE  Cardinality(GrossUnits) - Cardinality(GivenBackUnits) =
           Cardinality(PaidUnits(participation, amount))
             - Cardinality(RefundedUnits(participation, refund))
<1> DEFINE paid == PaidUnits(participation, amount)
           back == RefundedUnits(participation, refund)
           paidAll == {u \in Payments \X Units :
                         participation[u[1]] = "refunded" /\ u[2] <= amount[u[1]]}
           backAll == {u \in Refunds \X Units :
                         /\ refund[u[1]] = "completed"
                         /\ refund_payment[u[1]] \in Payments
                         /\ participation[refund_payment[u[1]]] = "refunded"
                         /\ u[2] <= refund_amount[u[1]]}
           to == [u \in backAll |-> <<refund_payment[u[1]], u[2]>>]
<1>1. /\ IsFiniteSet(paid) /\ IsFiniteSet(back)
      /\ IsFiniteSet(paidAll) /\ IsFiniteSet(backAll)
  BY Zenon, RowUnits, FiniteRows DEF PaidUnits, RefundedUnits
<1>2. Cardinality(GrossUnits) = Cardinality(paid) + Cardinality(paidAll)
  <2>1. GrossUnits = paid \cup paidAll /\ paid \cap paidAll = {}
    BY Zenon DEF GrossUnits, PaidUnits
  <2> HIDE DEF paid, paidAll
  <2> QED
    BY Zenon, <1>1, <2>1, ExactlyBoth
<1>3. Cardinality(GivenBackUnits) = Cardinality(back) + Cardinality(backAll)
  <2>1. GivenBackUnits = back \cup backAll /\ back \cap backAll = {}
    BY Zenon DEF GivenBackUnits, RefundedUnits
  <2> HIDE DEF back, backAll
  <2> QED
    BY Zenon, <1>1, <2>1, ExactlyBoth
<1>4. Cardinality(paidAll) = Cardinality(backAll)
  <2>1. \A p \in Payments : participation[p] = "refunded" =>
          \E r \in Refunds :
            /\ refund[r] = "completed" /\ refund_payment[r] = p
            /\ refund_amount[r] = amount[p]
            /\ \A s \in Refunds :
                 refund[s] = "completed" /\ refund_payment[s] = p => s = r
    BY FullRefundIsOnly DEF RowsAgree
  <2>2. \A u \in backAll :
          /\ u[1] \in Refunds /\ u[2] \in Units /\ u = <<u[1], u[2]>>
          /\ to[u] = <<refund_payment[u[1]], u[2]>>
    OBVIOUS
  <2>3. to \in [backAll -> paidAll]
    <3> SUFFICES ASSUME NEW u \in backAll
                 PROVE  <<refund_payment[u[1]], u[2]>> \in paidAll
      BY Zenon
    <3>1. refund_amount[u[1]] = amount[refund_payment[u[1]]]
      BY Zenon, <2>1
    <3> QED
      BY Zenon, <3>1
  <2>4. ASSUME NEW u \in backAll, NEW v \in backAll, to[u] = to[v]
        PROVE  u = v
    <3>1. refund_payment[u[1]] = refund_payment[v[1]] /\ u[2] = v[2]
      BY Zenon, <2>2, <2>4
    <3>2. u[1] = v[1]
      BY <2>1, <3>1
    <3> QED
      BY Zenon, <2>2, <3>1, <3>2
  <2>5. ASSUME NEW w \in paidAll
        PROVE  \E u \in backAll : to[u] = w
    <3>1. PICK r \in Refunds : /\ refund[r] = "completed"
                               /\ refund_payment[r] = w[1]
                               /\ refund_amount[r] = amount[w[1]]
      BY Zenon, <2>1
    <3>2. <<r, w[2]>> \in backAll
      BY Zenon, <3>1
    <3>3. to[<<r, w[2]>>] = w
      BY <3>1, <3>2
    <3> QED
      BY Zenon, <3>2, <3>3
  <2> HIDE DEF to, paidAll, backAll
  <2>6. to \in Bijection(backAll, paidAll)
    BY Zenon, <2>3, <2>4, <2>5 DEF Bijection, Injection, Surjection, IsInjective
  <2> QED
    BY Zenon, <1>1, <2>6, FS_Bijection DEF ExistsBijection
<1>5. /\ Cardinality(paid) \in Nat /\ Cardinality(back) \in Nat
      /\ Cardinality(paidAll) \in Nat /\ Cardinality(backAll) \in Nat
  BY Zenon, <1>1, FS_CardinalityType
<1> HIDE DEF paid, back, paidAll, backAll
<1>6. Cardinality(GrossUnits) - Cardinality(GivenBackUnits) =
        Cardinality(paid) - Cardinality(back)
  BY <1>2, <1>3, <1>4, <1>5
<1> QED
  BY Zenon, <1>6 DEF paid, back

LEMMA NetFollows == FinanceInv => NetAmountExact
<1> SUFFICES ASSUME FinanceInv PROVE NetAmountExact
  BY Zenon
<1>1. Cardinality(GrossUnits) - Cardinality(GivenBackUnits) =
        Cardinality(PaidUnits(participation, amount))
          - Cardinality(RefundedUnits(participation, refund))
  BY Zenon, RefundedCancelOut DEF FinanceInv
<1> QED
  BY Zenon, <1>1 DEF FinanceInv, CounterSynced, SyncCampaignCounters, NetAmountExact

----------------------------------------------------------------------------
(* Results. *)

\* The inductive invariant holds in every reachable state: rows, sums and the
\* counter agree whatever the order in which refunds, adjustments and
\* disbursements are requested, reviewed and carried out.
THEOREM FinanceInvariance == FinanceSpec => []FinanceInv
<1>1. FinanceInv /\ [FinanceNext]_financeVars => FinanceInv'
  BY Zenon, FinanceTypesStep, RowsStep, CounterStep, RefundsStep, IncomeStep
     DEF FinanceInv
<1> QED
  BY FinanceInitially, <1>1, PTL DEF FinanceSpec

\* Every column keeps its type.
THEOREM FinanceTypeCorrect == FinanceSpec => []FinanceTypeOK
<1>1. FinanceInv => FinanceTypeOK
  BY Zenon DEF FinanceInv
<1> QED
  BY FinanceInvariance, <1>1, PTL

\* The refunds of a payment never exceed it.
THEOREM RefundsAlwaysWithinPayment == FinanceSpec => []RefundsWithinPayment
<1>1. FinanceInv => RefundsWithinPayment
  BY Zenon DEF FinanceInv
<1> QED
  BY FinanceInvariance, <1>1, PTL

\* purchased_amount is what was given less what was given back, adjusted.
THEOREM NetAmountAlwaysExact == FinanceSpec => []NetAmountExact
BY FinanceInvariance, NetFollows, PTL

\* What is promised or paid to recipients never exceeds what came in.
THEOREM DisbursedAlwaysWithinIncome == FinanceSpec => []DisbursedWithinIncome
<1>1. FinanceInv => DisbursedWithinIncome
  BY Zenon DEF FinanceInv
<1> QED
  BY FinanceInvariance, <1>1, PTL

\* Money leaves a campaign only after its review, and what has left stays as it
\* was written (complete_payment_refund, mark_campaign_disbursement_paid).
THEOREM MoneyAlwaysReviewed == FinanceSpec => MoneyLeavesOnlyApproved
<1> DEFINE Refund(r) ==
             /\ refund'[r] = "completed" => refund[r] \in {"approved", "completed"}
             /\ refund[r] = "completed" =>
                  refund'[r] = "completed" /\ refund_amount'[r] = refund_amount[r]
           Disbursement(d) ==
             /\ disbursement'[d] = "paid" => disbursement[d] \in {"approved", "paid"}
             /\ disbursement[d] = "paid" =>
                  /\ disbursement'[d] = "paid"
                  /\ disbursement_amount'[d] = disbursement_amount[d]
<1>1. ASSUME FinanceTypeOK, FinanceNext, NEW r \in Refunds
      PROVE  Refund(r)
  <2>1. NoRow # "completed"
    BY Zenon, NoneIsNew
  <2>2. CASE UNCHANGED <<refund, refund_amount>>
    BY Zenon, <2>2
  <2>3. ASSUME NEW q \in Refunds, NEW p, NEW n, NEW k, request_payment_refund(q, p, n, k)
        PROVE  Refund(r)
    BY Zenon, <1>1, <2>1, <2>3 DEF request_payment_refund, FinanceTypeOK
  <2>4. ASSUME NEW q \in Refunds, approve_payment_refund(q) \/ reject_payment_refund(q)
        PROVE  Refund(r)
    BY Zenon, <1>1, <2>4 DEF approve_payment_refund, reject_payment_refund, ReviewRefund, FinanceTypeOK
  <2>5. ASSUME NEW q \in Refunds, complete_payment_refund(q)
        PROVE  Refund(r)
    BY Zenon, <1>1, <2>5 DEF complete_payment_refund, FinanceTypeOK
  <2> HIDE DEF Refund
  <2> QED
    BY Zenon, <1>1, <2>2, <2>3, <2>4, <2>5
       DEF FinanceNext, PaymentSucceeds, PaymentMismatch, PaidExpires, create_financial_adjustment,
           approve_financial_adjustment, reject_financial_adjustment, ReviewAdjustment,
           apply_financial_adjustment, request_campaign_disbursement, approve_campaign_disbursement,
           reject_campaign_disbursement, mark_campaign_disbursement_paid, refundVars
<1>2. ASSUME FinanceTypeOK, FinanceNext, NEW d \in Disbursements
      PROVE  Disbursement(d)
  <2>1. NoRow # "paid"
    BY Zenon, NoneIsNew
  <2>2. CASE UNCHANGED <<disbursement, disbursement_amount>>
    BY Zenon, <2>2
  <2>3. ASSUME NEW e \in Disbursements, NEW n, request_campaign_disbursement(e, n)
        PROVE  Disbursement(d)
    BY Zenon, <1>2, <2>1, <2>3 DEF request_campaign_disbursement, FinanceTypeOK
  <2>4. ASSUME NEW e \in Disbursements,
               approve_campaign_disbursement(e) \/ reject_campaign_disbursement(e)
        PROVE  Disbursement(d)
    BY Zenon, <1>2, <2>4 DEF approve_campaign_disbursement, reject_campaign_disbursement, FinanceTypeOK
  <2>5. ASSUME NEW e \in Disbursements, mark_campaign_disbursement_paid(e)
        PROVE  Disbursement(d)
    BY Zenon, <1>2, <2>5 DEF mark_campaign_disbursement_paid, FinanceTypeOK
  <2> HIDE DEF Disbursement
  <2> QED
    BY Zenon, <1>2, <2>2, <2>3, <2>4, <2>5
       DEF FinanceNext, PaymentSucceeds, PaymentMismatch, PaidExpires, create_financial_adjustment,
           approve_financial_adjustment, reject_financial_adjustment, ReviewAdjustment,
           apply_financial_adjustment, request_payment_refund, approve_payment_refund,
           reject_payment_refund, ReviewRefund, complete_payment_refund, disbursementVars
<1>3. FinanceTypeOK /\ [FinanceNext]_financeVars =>
        [(\A r \in Refunds : Refund(r)) /\ (\A d \in Disbursements : Disbursement(d))]_financeVars
  BY Zenon, <1>1, <1>2
<1> QED
  BY <1>3, FinanceTypeCorrect, PTL DEF FinanceSpec, MoneyLeavesOnlyApproved

=============================================================================
