----------------------- MODULE MadadkarFundingProofs -----------------------
(***************************************************************************)
(* Proofs about MadadkarFunding, alone and with the admins' edits of       *)
(* MadadkarCampaignAdmin, for any number of participations and external    *)
(* fundings, any total of shares and any number of threads and edits.      *)
(***************************************************************************)
EXTENDS MadadkarCampaignAdmin, FiniteSetTheorems, TLAPS

----------------------------------------------------------------------------
(* Counting shares. *)

\* A count of shares is a natural number: both sets of units are finite.
LEMMA UnitsFinite ==
  ASSUME NEW part, NEW count
  PROVE  /\ IsFiniteSet(Held(part, count))
         /\ IsFiniteSet(External(part, count))
         /\ Cardinality(Held(part, count)) \in Nat
         /\ Cardinality(External(part, count)) \in Nat
<1> DEFINE I == 1..MAXIMUM_TOTAL_SHARES
<1>1. IsFiniteSet(I)
  BY FS_Interval, ShareBounds
<1>2. IsFiniteSet(Participations \X I) /\ IsFiniteSet(Fundings \X I)
  BY Zenon, <1>1, FS_Product, FiniteRows
<1>3. /\ Held(part, count) \subseteq Participations \X I
      /\ External(part, count) \subseteq Fundings \X I
  BY Zenon DEF Held, External
<1>4. IsFiniteSet(Held(part, count)) /\ IsFiniteSet(External(part, count))
  BY Zenon, <1>2, <1>3, FS_Subset
<1> QED
  BY Zenon, <1>4, FS_CardinalityType

\* A row with n shares has n units.
LEMMA UnitsOfRow ==
  ASSUME NEW r, NEW n \in 1..MAXIMUM_TOTAL_SHARES
  PROVE  /\ IsFiniteSet({r} \X (1..n))
         /\ Cardinality({r} \X (1..n)) = n
<1>1. IsFiniteSet(1..n) /\ Cardinality(1..n) = n
  BY FS_Interval, ShareBounds
<1>2. IsFiniteSet({r}) /\ Cardinality({r}) = 1
  BY Zenon, FS_Singleton
<1>3. QED
  BY <1>1, <1>2, FS_Product

\* Re-syncing and completing a campaign row keep its type and its total, and
\* set the counters to the numbers of units.
LEMMA SyncType ==
  ASSUME NEW c \in Campaigns, NEW part, NEW pcount, NEW fund, NEW fcount
  PROVE  LET s == SyncCampaignCounters(c, part, pcount, fund, fcount) IN
         /\ s \in Campaigns
         /\ s.total_shares = c.total_shares
         /\ s.purchased_shares = Cardinality(Held(part, pcount))
         /\ s.external_funded_shares = Cardinality(External(fund, fcount))
BY Zenon, UnitsFinite DEF SyncCampaignCounters, Campaigns

LEMMA SyncKeepsTotal ==
  ASSUME NEW k \in Campaigns, NEW part, NEW pcount, NEW fund, NEW fcount,
         NEW c, c = SyncCampaignCounters(k, part, pcount, fund, fcount)
  PROVE  c \in Campaigns /\ c.total_shares = k.total_shares
BY Zenon, UnitsFinite DEF SyncCampaignCounters, Campaigns

LEMMA AutoCompleteType ==
  ASSUME NEW c \in Campaigns
  PROVE  /\ AutoComplete(c) \in Campaigns
         /\ AutoComplete(c).total_shares = c.total_shares
         /\ AutoComplete(c).purchased_shares = c.purchased_shares
         /\ AutoComplete(c).external_funded_shares = c.external_funded_shares
BY Zenon DEF AutoComplete, Campaigns, CampaignStatus

\* A status that holds no shares takes units away, one that holds them keeps
\* the units of a row that held them.
LEMMA HeldAfterStatus ==
  ASSUME NEW part, NEW count, NEW p \in Participations, NEW status,
         part = [q \in Participations |-> part[q]],
         status \in {"paid", "pending_payment"} =>
           part[p] \in {"paid", "pending_payment"}
  PROVE  Cardinality(Held([part EXCEPT ![p] = status], count)) <=
           Cardinality(Held(part, count))
<1>1. Held([part EXCEPT ![p] = status], count) \subseteq Held(part, count)
  BY Zenon DEF Held
<1> QED
  BY Zenon, <1>1, UnitsFinite, FS_Subset

\* A reservation of n shares adds at most n units.
LEMMA HeldAfterReserve ==
  ASSUME NEW part, NEW count, NEW p \in Participations,
         NEW n \in 1..MAXIMUM_TOTAL_SHARES,
         part = [q \in Participations |-> part[q]],
         count \in [Participations -> 0..MAXIMUM_TOTAL_SHARES],
         part[p] = None
  PROVE  Cardinality(Held([part EXCEPT ![p] = "pending_payment"],
                          [count EXCEPT ![p] = n])) <=
           Cardinality(Held(part, count)) + n
<1> DEFINE new == Held([part EXCEPT ![p] = "pending_payment"],
                       [count EXCEPT ![p] = n])
           old == Held(part, count)
           row == {p} \X (1..n)
<1>1. new \subseteq old \cup row
  BY DEF Held
<1>2. IsFiniteSet(old) /\ IsFiniteSet(row) /\ Cardinality(row) = n
  BY Zenon, UnitsFinite, UnitsOfRow
<1>3. IsFiniteSet(old \cup row)
      /\ Cardinality(old \cup row) = Cardinality(old) + n
                                     - Cardinality(old \cap row)
  BY <1>2, FS_Union
<1>4. IsFiniteSet(old \cap row)
  BY Zenon, <1>2, FS_Subset
<1>5. Cardinality(old \cap row) \in Nat /\ Cardinality(old) \in Nat
  BY Zenon, <1>2, <1>4, FS_CardinalityType
<1>6. Cardinality(new) <= Cardinality(old \cup row) /\ Cardinality(new) \in Nat
  BY Zenon, <1>1, <1>3, FS_Subset, UnitsFinite
<1> QED
  BY <1>3, <1>5, <1>6

\* The same for an external funding.
LEMMA ExternalAfterRecord ==
  ASSUME NEW fund, NEW count, NEW f \in Fundings,
         NEW n \in 1..MAXIMUM_TOTAL_SHARES,
         fund = [q \in Fundings |-> fund[q]],
         count \in [Fundings -> 0..MAXIMUM_TOTAL_SHARES]
  PROVE  Cardinality(External([fund EXCEPT ![f] = "recorded"],
                              [count EXCEPT ![f] = n])) <=
           Cardinality(External(fund, count)) + n
<1> DEFINE new == External([fund EXCEPT ![f] = "recorded"],
                           [count EXCEPT ![f] = n])
           old == External(fund, count)
           row == {f} \X (1..n)
<1>1. new \subseteq old \cup row
  BY DEF External
<1>2. IsFiniteSet(old) /\ IsFiniteSet(row) /\ Cardinality(row) = n
  BY Zenon, UnitsFinite, UnitsOfRow
<1>3. IsFiniteSet(old \cup row)
      /\ Cardinality(old \cup row) = Cardinality(old) + n
                                     - Cardinality(old \cap row)
  BY <1>2, FS_Union
<1>4. IsFiniteSet(old \cap row)
  BY Zenon, <1>2, FS_Subset
<1>5. Cardinality(old \cap row) \in Nat /\ Cardinality(old) \in Nat
  BY Zenon, <1>2, <1>4, FS_CardinalityType
<1>6. Cardinality(new) <= Cardinality(old \cup row) /\ Cardinality(new) \in Nat
  BY Zenon, <1>1, <1>3, FS_Subset, UnitsFinite
<1> QED
  BY <1>3, <1>5, <1>6

\* Voiding an external funding takes units away.
LEMMA ExternalAfterVoid ==
  ASSUME NEW fund, NEW count, NEW f \in Fundings,
         fund = [q \in Fundings |-> fund[q]]
  PROVE  Cardinality(External([fund EXCEPT ![f] = "voided"], count)) <=
           Cardinality(External(fund, count))
<1>1. External([fund EXCEPT ![f] = "voided"], count) \subseteq
        External(fund, count)
  BY Zenon DEF External
<1> QED
  BY Zenon, <1>1, UnitsFinite, FS_Subset


----------------------------------------------------------------------------
(* The inductive invariant. *)

\* Every column and every local variable keeps its type (TypeOK) in every step.
LEMMA TypeStep ==
  TypeOK /\ [Next]_vars => TypeOK'
<1> SUFFICES ASSUME TypeOK, [Next]_vars PROVE TypeOK'
  BY Zenon
<1> USE DEF rowVars, fundingVars, localVars, AdminOps
<1>1. ASSUME NEW op \in AdminOps, LoadCampaign(op) PROVE TypeOK'
  BY Zenon, <1>1 DEF TypeOK, LoadCampaign
<1>2. CASE publish_campaign
  BY Zenon, <1>2 DEF TypeOK, publish_campaign, WriteStatus, Campaigns, CampaignStatus
<1>3. CASE close_campaign
  BY Zenon, <1>3 DEF TypeOK, close_campaign, WriteStatus, Campaigns, CampaignStatus
<1>4. CASE DeadlinePasses
  BY Zenon, <1>4 DEF TypeOK, DeadlinePasses, Campaigns
<1>5. CASE get_campaigns_due_for_closing
  BY Zenon, <1>5 DEF TypeOK, get_campaigns_due_for_closing
<1>6. CASE close_campaign_due_to_deadline
  BY Zenon, <1>6 DEF TypeOK, close_campaign_due_to_deadline, Campaigns, CampaignStatus
<1>7. ASSUME NEW f \in Fundings, NEW n \in 1..MAXIMUM_TOTAL_SHARES,
             record_external_funding(f, n)
      PROVE  TypeOK'
  <2>1. campaign' \in Campaigns
    BY Zenon, <1>7, SyncType, AutoCompleteType DEF TypeOK, record_external_funding
  <2> QED
    BY <1>7, <2>1 DEF TypeOK, record_external_funding
<1>8. ASSUME NEW f \in Fundings, void_external_funding(f) PROVE TypeOK'
  <2>1. campaign' \in Campaigns
    BY Zenon, <1>8, SyncType DEF TypeOK, void_external_funding
  <2> QED
    BY Zenon, <1>8, <2>1 DEF TypeOK, void_external_funding
<1>9. ASSUME NEW p \in Participations, NEW n \in 1..MAXIMUM_TOTAL_SHARES,
             _reserve_participation_shares(p, n)
      PROVE  TypeOK'
  <2>1. campaign' \in Campaigns
    BY Zenon, <1>9, SyncType DEF TypeOK, _reserve_participation_shares
  <2> QED
    BY <1>9, <2>1
    DEF TypeOK, _reserve_participation_shares, ParticipationStatus
<1>10. ASSUME NEW p \in Participations, _persist_initiated_payment(p)
       PROVE  TypeOK'
  <2>1. [kind |-> "created", previous |-> payment[p], new |-> "pending"]
          \in PaymentEvents
    BY Zenon DEF TypeOK, PaymentEvents, PaymentEventKind, PaymentStatus
  <2> QED
    BY <1>10, <2>1
    DEF TypeOK, _persist_initiated_payment, RecordPaymentEvent, PaymentStatus
<1>11. ASSUME NEW p \in Participations, NEW status \in ParticipationStatus,
              NEW c, SettleParticipation(p, status, c),
              c = SyncedWith(p, status) \/ c = AutoComplete(SyncedWith(p, status))
       PROVE  /\ campaign' \in Campaigns
              /\ participation' \in
                   [Participations -> ParticipationStatus \cup {None}]
  <2>1. SyncedWith(p, status) \in Campaigns
    BY Zenon, SyncType DEF TypeOK, SyncedWith
  <2>2. c \in Campaigns
    BY Zenon, <1>11, <2>1, AutoCompleteType
  <2> QED
    BY Zenon, <1>11, <2>2 DEF TypeOK, SettleParticipation
<1>12. ASSUME NEW p \in Participations, NEW kind \in PaymentEventKind,
              NEW status \in ParticipationStatus, Fail(p, kind, status)
       PROVE  /\ campaign' \in Campaigns
              /\ participation' \in
                   [Participations -> ParticipationStatus \cup {None}]
              /\ payment' \in [Participations -> PaymentStatus \cup {None}]
              /\ events' \in [Participations -> Seq(PaymentEvents)]
              /\ receipt' \subseteq Participations
  <2>1. [kind |-> kind, previous |-> payment[p], new |-> "failed"]
          \in PaymentEvents
    BY Zenon DEF TypeOK, PaymentEvents, PaymentStatus
  <2>2. /\ campaign' \in Campaigns
        /\ participation' \in
             [Participations -> ParticipationStatus \cup {None}]
    BY Zenon, <1>11, <1>12 DEF Fail
  <2>3. payment' \in [Participations -> PaymentStatus \cup {None}]
    BY Zenon, <1>12 DEF TypeOK, Fail, PaymentStatus
  <2>4. events' \in [Participations -> Seq(PaymentEvents)]
    BY <1>12, <2>1 DEF TypeOK, Fail, RecordPaymentEvent
  <2>5. receipt' \subseteq Participations
    BY Zenon, <1>12 DEF TypeOK, Fail
  <2> QED
    BY Zenon, <2>2, <2>3, <2>4, <2>5
<1>13. ASSUME NEW p \in Participations, Succeed(p)
       PROVE  /\ campaign' \in Campaigns
              /\ participation' \in
                   [Participations -> ParticipationStatus \cup {None}]
              /\ payment' \in [Participations -> PaymentStatus \cup {None}]
              /\ events' \in [Participations -> Seq(PaymentEvents)]
              /\ receipt' \subseteq Participations
  <2>1. [kind |-> "verify_success", previous |-> payment[p],
         new |-> "success"] \in PaymentEvents
    BY Zenon DEF TypeOK, PaymentEvents, PaymentEventKind, PaymentStatus
  <2>2. /\ campaign' \in Campaigns
        /\ participation' \in
             [Participations -> ParticipationStatus \cup {None}]
    BY Zenon, <1>11, <1>13 DEF Succeed, ParticipationStatus
  <2>3. payment' \in [Participations -> PaymentStatus \cup {None}]
    BY Zenon, <1>13 DEF TypeOK, Succeed, PaymentStatus
  <2>4. events' \in [Participations -> Seq(PaymentEvents)]
    BY <1>13, <2>1 DEF TypeOK, Succeed, RecordPaymentEvent
  <2>5. receipt' \subseteq Participations
    BY Zenon, <1>13 DEF TypeOK, Succeed
  <2> QED
    BY Zenon, <2>2, <2>3, <2>4, <2>5
<1>14. ASSUME NEW p \in Participations, _release_reserved_participation(p)
       PROVE  TypeOK'
  <2>1. CASE participation[p] = "pending_payment"
    <3>1. /\ campaign' \in Campaigns
          /\ participation' \in
               [Participations -> ParticipationStatus \cup {None}]
      BY Zenon, <1>11, <1>14, <2>1
      DEF _release_reserved_participation, ParticipationStatus
    <3> QED
      BY Zenon, <1>14, <3>1 DEF TypeOK, _release_reserved_participation
  <2>2. CASE participation[p] # "pending_payment"
    BY Zenon, <1>14, <2>2 DEF TypeOK, _release_reserved_participation
  <2> QED
    BY Zenon, <2>1, <2>2
<1>15. ASSUME NEW p \in Participations, cancel_pending_payment(p) PROVE TypeOK'
  BY Zenon, <1>12, <1>15
  DEF TypeOK, cancel_pending_payment, PaymentEventKind, ParticipationStatus
<1>16. ASSUME NEW p \in Participations, TimeoutPasses(p) PROVE TypeOK'
  BY Zenon, <1>16 DEF TypeOK, TimeoutPasses
<1>17. ASSUME NEW p \in Participations, expire_stale_participation(p)
       PROVE  TypeOK'
  <2>1. CASE payment[p] = "pending"
    <3>1. Fail(p, "expired", "expired")
      BY Zenon, <1>17, <2>1 DEF expire_stale_participation
    <3> QED
      BY Zenon, <1>12, <1>17, <3>1
      DEF TypeOK, expire_stale_participation, PaymentEventKind,
          ParticipationStatus
  <2>2. CASE payment[p] # "pending"
    <3>1. /\ campaign' \in Campaigns
          /\ participation' \in
               [Participations -> ParticipationStatus \cup {None}]
      BY Zenon, <1>11, <1>17, <2>2
      DEF expire_stale_participation, ParticipationStatus
    <3> QED
      BY Zenon, <1>17, <2>2, <3>1 DEF TypeOK, expire_stale_participation
  <2> QED
    BY Zenon, <2>1, <2>2
<1>18. ASSUME NEW p \in Participations, InitiateDies(p) PROVE TypeOK'
  BY Zenon, <1>18 DEF TypeOK, InitiateDies
<1>19. ASSUME NEW p \in Participations, NEW answer \in Answers,
              CallGateway(p, answer)
       PROVE  TypeOK'
  BY <1>19 DEF TypeOK, CallGateway
<1>20. ASSUME NEW p \in Participations, NEW answer \in Answers,
              verify_payment(p, answer)
       PROVE  TypeOK'
  <2>1. /\ campaign' \in Campaigns
        /\ participation' \in
             [Participations -> ParticipationStatus \cup {None}]
        /\ payment' \in [Participations -> PaymentStatus \cup {None}]
        /\ events' \in [Participations -> Seq(PaymentEvents)]
        /\ receipt' \subseteq Participations
    <3>1. CASE Fail(p, "amount_mismatch", "failed")
      BY Zenon, <1>12, <3>1 DEF PaymentEventKind, ParticipationStatus
    <3>2. CASE Fail(p, "verify_failed", "failed")
      BY Zenon, <1>12, <3>2 DEF PaymentEventKind, ParticipationStatus
    <3>3. CASE Succeed(p)
      BY Zenon, <1>13, <3>3
    <3>4. CASE UNCHANGED <<campaign, participation, payment, events, receipt>>
      BY Zenon, <3>4 DEF TypeOK
    <3> QED
      BY Zenon, <1>20, <3>1, <3>2, <3>3, <3>4 DEF verify_payment
  <2> QED
    BY Zenon, <1>20, <2>1 DEF TypeOK, verify_payment
<1>21. ASSUME NEW p \in Participations, NEW answer \in Answers,
              VerifyDies(p, answer)
       PROVE  TypeOK'
  BY Zenon, <1>21 DEF TypeOK, VerifyDies
<1>22. CASE get_stale_participations
  BY Zenon, <1>22 DEF TypeOK, get_stale_participations, StalePending
<1>23. CASE TaskDies
  BY Zenon, <1>23 DEF TypeOK, TaskDies
<1>24. CASE UNCHANGED vars
  BY Zenon, <1>24 DEF TypeOK, vars
<1> QED
  BY Zenon, <1>1, <1>2, <1>3, <1>4, <1>5, <1>6, <1>7, <1>8, <1>9, <1>10, <1>14,
     <1>15, <1>16, <1>17, <1>18, <1>19, <1>20, <1>21, <1>22, <1>23, <1>24
  DEF Next


\* What the processes remember agrees with the rows: this part needs the status
\* of a pending payment's participation and the capture behind a success, and
\* they need it.
RowsInv ==
  /\ MemoryAgrees
  /\ PendingPaymentHoldsReservation
  /\ SuccessIsCaptured

\* RowsInv is kept by every step.
LEMMA RowsStep ==
  TypeOK /\ RowsInv /\ [Next]_vars => RowsInv'
<1> SUFFICES ASSUME TypeOK, RowsInv, [Next]_vars PROVE RowsInv'
  BY Zenon
<1> USE DEF rowVars, fundingVars, localVars, RowsInv, MemoryAgrees,
            PendingPaymentHoldsReservation, SuccessIsCaptured
<1>1. ASSUME NEW op \in AdminOps, LoadCampaign(op) PROVE RowsInv'
  BY Zenon, <1>1 DEF LoadCampaign
<1>2. CASE publish_campaign \/ close_campaign
  BY Zenon, <1>2 DEF publish_campaign, close_campaign, WriteStatus
<1>3. CASE DeadlinePasses \/ get_campaigns_due_for_closing
           \/ close_campaign_due_to_deadline
  BY Zenon, <1>3 DEF DeadlinePasses, get_campaigns_due_for_closing,
              close_campaign_due_to_deadline
<1>4. ASSUME NEW f \in Fundings, NEW n \in 1..MAXIMUM_TOTAL_SHARES,
             record_external_funding(f, n)
      PROVE  RowsInv'
  BY Zenon, <1>4 DEF record_external_funding
<1>5. ASSUME NEW f \in Fundings, void_external_funding(f) PROVE RowsInv'
  BY Zenon, <1>5 DEF void_external_funding
<1>6. ASSUME NEW p \in Participations, NEW n \in 1..MAXIMUM_TOTAL_SHARES,
             _reserve_participation_shares(p, n)
      PROVE  RowsInv'
  BY <1>6 DEF TypeOK, _reserve_participation_shares, None
<1>7. ASSUME NEW p \in Participations, _persist_initiated_payment(p)
      PROVE  RowsInv'
  BY <1>7 DEF TypeOK, _persist_initiated_payment, None
<1>8. ASSUME NEW p \in Participations, _release_reserved_participation(p)
      PROVE  RowsInv'
  BY <1>8
  DEF TypeOK, _release_reserved_participation, SettleParticipation, None
<1>9. ASSUME NEW p \in Participations, p \notin requests, payment[p] # None,
             NEW kind, NEW status \in {"failed", "expired"},
             Fail(p, kind, status), calls' \subseteq calls, sweep' \subseteq sweep,
             UNCHANGED <<requests, stale, captured>>
      PROVE  RowsInv'
  BY <1>9 DEF TypeOK, Fail, SettleParticipation, None
<1>10. ASSUME NEW p \in Participations, cancel_pending_payment(p)
       PROVE  RowsInv'
  BY Zenon, <1>9, <1>10 DEF TypeOK, cancel_pending_payment, None
<1>11. ASSUME NEW p \in Participations, TimeoutPasses(p) PROVE RowsInv'
  BY <1>11 DEF TypeOK, TimeoutPasses
<1>12. ASSUME NEW p \in Participations, expire_stale_participation(p)
       PROVE  RowsInv'
  <2>1. p \notin requests /\ sweep' \subseteq sweep
    BY Zenon, <1>12 DEF expire_stale_participation
  <2>2. CASE payment[p] = "pending"
    BY Zenon, <1>9, <1>12, <2>1, <2>2 DEF expire_stale_participation, None
  <2>3. CASE payment[p] # "pending"
    BY <1>12, <2>1, <2>3
    DEF TypeOK, expire_stale_participation, SettleParticipation, None
  <2> QED
    BY Zenon, <2>2, <2>3
<1>13. ASSUME NEW p \in Participations, InitiateDies(p) PROVE RowsInv'
  BY Zenon, <1>13 DEF InitiateDies
<1>14. ASSUME NEW p \in Participations, NEW answer \in Answers,
              CallGateway(p, answer)
       PROVE  RowsInv'
  <2>1. /\ payment[p] = "pending"
        /\ calls' = calls \cup {<<p, answer>>}
        /\ UNCHANGED <<participation, payment, requests, stale, sweep>>
    BY Zenon, <1>14 DEF CallGateway
  <2>2. /\ captured \subseteq captured'
        /\ answer \in {"verified", "mismatch"} => p \in captured'
    BY Zenon, <1>14 DEF CallGateway, CaptureOutcomes
  <2>3. ASSUME NEW call \in calls'
        PROVE  /\ payment[call[1]] # None
               /\ call[2] \in {"verified", "mismatch"} => call[1] \in captured'
    BY <2>1, <2>2, <2>3 DEF None
  <2> QED
    BY Zenon, <2>1, <2>2, <2>3
<1>15. ASSUME NEW p \in Participations, NEW answer \in Answers,
              verify_payment(p, answer)
       PROVE  RowsInv'
  <2>1. /\ <<p, answer>> \in calls
        /\ payment[p] # None
        /\ p \notin requests
        /\ calls' \subseteq calls
        /\ UNCHANGED <<requests, stale, captured, sweep>>
    BY Zenon, <1>15 DEF verify_payment
  <2>2. CASE \E kind : Fail(p, kind, "failed")
    BY Zenon, <1>9, <2>1, <2>2
  <2>3. CASE answer = "verified" /\ payment[p] = "pending" /\ Succeed(p)
    BY <2>1, <2>3 DEF TypeOK, Succeed, SettleParticipation, None
  <2>4. CASE UNCHANGED <<campaign, participation, payment, events, receipt>>
    BY Zenon, <2>1, <2>4
  <2> QED
    BY Zenon, <1>15, <2>2, <2>3, <2>4 DEF verify_payment
<1>16. ASSUME NEW p \in Participations, NEW answer \in Answers,
              VerifyDies(p, answer)
       PROVE  RowsInv'
  BY Zenon, <1>16 DEF VerifyDies
<1>17. CASE get_stale_participations
  BY Zenon, <1>17 DEF get_stale_participations, StalePending
<1>18. CASE TaskDies
  BY Zenon, <1>18 DEF TaskDies
<1>19. CASE UNCHANGED vars
  BY Zenon, <1>19 DEF vars
<1> QED
  BY Zenon, <1>1, <1>2, <1>3, <1>4, <1>5, <1>6, <1>7, <1>8, <1>10, <1>11, <1>12,
     <1>13, <1>14, <1>15, <1>16, <1>17, <1>18, <1>19
  DEF Next


\* Every transaction leaves exact counters, and no transaction funds more than
\* the total: a reservation and an external funding are bounded by what the
\* exact counters leave, and a success only turns a reservation into a sale.
SharesInv == CountersExact /\ FundedWithinTotal

LEMMA SharesStep ==
  TypeOK /\ RowsInv /\ SharesInv /\ [Next]_vars => SharesInv'
<1> SUFFICES ASSUME TypeOK, RowsInv, SharesInv, [Next]_vars PROVE SharesInv'
  BY Zenon
<1> USE DEF rowVars, fundingVars, localVars
<1> DEFINE SameShares ==
             /\ UNCHANGED <<participation, share_count, funding, funding_shares>>
             /\ campaign'.total_shares = campaign.total_shares
             /\ campaign'.purchased_shares = campaign.purchased_shares
             /\ campaign'.external_funded_shares =
                  campaign.external_funded_shares
<1>1. ASSUME SameShares PROVE SharesInv'
  BY Zenon, <1>1 DEF SharesInv, CountersExact, FundedWithinTotal, funded_shares
<1>2. ASSUME NEW status \in CampaignStatus, NEW op, WriteStatus(op, status)
      PROVE  SharesInv'
  BY Zenon, <1>1, <1>2 DEF WriteStatus, TypeOK, Campaigns
<1>3. CASE publish_campaign \/ close_campaign
  BY Zenon, <1>2, <1>3 DEF publish_campaign, close_campaign, CampaignStatus
<1>4. CASE DeadlinePasses
  BY Zenon, <1>1, <1>4 DEF DeadlinePasses, TypeOK, Campaigns
<1>5. CASE close_campaign_due_to_deadline
  BY Zenon, <1>1, <1>5 DEF close_campaign_due_to_deadline, TypeOK, Campaigns
<1>6. ASSUME UNCHANGED <<campaign, participation, share_count, funding,
                         funding_shares>>
      PROVE  SharesInv'
  BY Zenon, <1>1, <1>6
<1>7. ASSUME NEW f \in Fundings, NEW n \in 1..MAXIMUM_TOTAL_SHARES,
             record_external_funding(f, n)
      PROVE  SharesInv'
  <2> DEFINE c == SyncCampaignCounters(campaign, participation, share_count,
                                       funding', funding_shares')
  <2>1. /\ campaign'.total_shares = campaign.total_shares
        /\ campaign'.purchased_shares = Cardinality(Held(participation, share_count))
        /\ campaign'.external_funded_shares =
             Cardinality(External(funding', funding_shares'))
    <3>1. /\ c \in Campaigns
          /\ c.total_shares = campaign.total_shares
          /\ c.purchased_shares = Cardinality(Held(participation, share_count))
          /\ c.external_funded_shares =
               Cardinality(External(funding', funding_shares'))
      BY SyncType DEF TypeOK
    <3>2. campaign' = AutoComplete(c)
      BY Zenon, <1>7 DEF record_external_funding
    <3> HIDE DEF c
    <3> QED
      BY Zenon, <3>1, <3>2, AutoCompleteType
  <2>2. campaign'.external_funded_shares <= campaign.external_funded_shares + n
    <3>1. /\ funding = [q \in Fundings |-> funding[q]]
          /\ funding_shares \in [Fundings -> 0..MAXIMUM_TOTAL_SHARES]
      BY Zenon DEF TypeOK
    <3>2. Cardinality(External([funding EXCEPT ![f] = "recorded"],
                               [funding_shares EXCEPT ![f] = n])) <=
            Cardinality(External(funding, funding_shares)) + n
      BY Zenon, <3>1, ExternalAfterRecord
    <3> QED
      BY Zenon, <1>7, <2>1, <3>2 DEF record_external_funding, SharesInv, CountersExact
  <2>3. campaign.purchased_shares + campaign.external_funded_shares + n
          <= campaign.total_shares
    BY <1>7 DEF record_external_funding, remaining_shares, funded_shares,
                TypeOK, Campaigns
  <2>4. campaign' \in Campaigns
    BY Zenon, TypeStep DEF TypeOK
  <2> QED
    BY <1>7, <2>1, <2>2, <2>3, <2>4
    DEF record_external_funding, SharesInv, CountersExact, FundedWithinTotal,
        funded_shares, TypeOK, Campaigns
<1>8. ASSUME NEW f \in Fundings, void_external_funding(f) PROVE SharesInv'
  <2>1. /\ campaign'.total_shares = campaign.total_shares
        /\ campaign'.purchased_shares = Cardinality(Held(participation, share_count))
        /\ campaign'.external_funded_shares =
             Cardinality(External(funding', funding_shares))
    BY <1>8, SyncType DEF void_external_funding, TypeOK
  <2>2. campaign'.external_funded_shares <= campaign.external_funded_shares
    <3>1. funding = [q \in Fundings |-> funding[q]]
      BY Zenon DEF TypeOK
    <3>2. Cardinality(External([funding EXCEPT ![f] = "voided"],
                               funding_shares)) <=
            Cardinality(External(funding, funding_shares))
      BY Zenon, <3>1, ExternalAfterVoid
    <3> QED
      BY Zenon, <1>8, <2>1, <3>2 DEF void_external_funding, SharesInv, CountersExact
  <2>3. campaign' \in Campaigns
    BY Zenon, TypeStep DEF TypeOK
  <2> QED
    BY <1>8, <2>1, <2>2, <2>3
    DEF void_external_funding, SharesInv, CountersExact, FundedWithinTotal,
        funded_shares, TypeOK, Campaigns
<1>9. ASSUME NEW p \in Participations, NEW n \in 1..MAXIMUM_TOTAL_SHARES,
             _reserve_participation_shares(p, n)
      PROVE  SharesInv'
  <2>1. /\ campaign'.total_shares = campaign.total_shares
        /\ campaign'.purchased_shares =
             Cardinality(Held(participation', share_count'))
        /\ campaign'.external_funded_shares =
             Cardinality(External(funding, funding_shares))
    BY <1>9, SyncType DEF _reserve_participation_shares, TypeOK
  <2>2. campaign'.purchased_shares <= campaign.purchased_shares + n
    <3>1. /\ participation = [q \in Participations |-> participation[q]]
          /\ share_count \in [Participations -> 0..MAXIMUM_TOTAL_SHARES]
          /\ participation[p] = None
      BY Zenon, <1>9 DEF TypeOK, _reserve_participation_shares
    <3>2. Cardinality(Held([participation EXCEPT ![p] = "pending_payment"],
                           [share_count EXCEPT ![p] = n])) <=
            Cardinality(Held(participation, share_count)) + n
      BY Zenon, <3>1, HeldAfterReserve
    <3> QED
      BY Zenon, <1>9, <2>1, <3>2
      DEF _reserve_participation_shares, SharesInv, CountersExact
  <2>3. campaign.purchased_shares + campaign.external_funded_shares + n
          <= campaign.total_shares
    BY <1>9 DEF _reserve_participation_shares, remaining_shares, funded_shares,
                TypeOK, Campaigns
  <2>4. campaign' \in Campaigns
    BY Zenon, TypeStep DEF TypeOK
  <2> QED
    BY <1>9, <2>1, <2>2, <2>3, <2>4
    DEF _reserve_participation_shares, SharesInv, CountersExact,
        FundedWithinTotal, funded_shares, TypeOK, Campaigns
<1>10. ASSUME NEW p \in Participations, NEW status \in ParticipationStatus,
              NEW c, SettleParticipation(p, status, c),
              c = SyncedWith(p, status) \/ c = AutoComplete(SyncedWith(p, status)),
              status \in {"paid", "pending_payment"} =>
                participation[p] \in {"paid", "pending_payment"},
              UNCHANGED <<share_count, funding, funding_shares>>
       PROVE  SharesInv'
  <2>1. /\ SyncedWith(p, status) \in Campaigns
        /\ SyncedWith(p, status).total_shares = campaign.total_shares
        /\ SyncedWith(p, status).purchased_shares =
             Cardinality(Held([participation EXCEPT ![p] = status], share_count))
        /\ SyncedWith(p, status).external_funded_shares =
             Cardinality(External(funding, funding_shares))
    BY SyncType DEF SyncedWith, TypeOK
  <2>2. /\ campaign' \in Campaigns
        /\ campaign'.total_shares = campaign.total_shares
        /\ campaign'.purchased_shares =
             Cardinality(Held(participation', share_count))
        /\ campaign'.external_funded_shares =
             Cardinality(External(funding, funding_shares))
    BY Zenon, <1>10, <2>1, AutoCompleteType DEF SettleParticipation
  <2>3. campaign'.purchased_shares <= campaign.purchased_shares
    <3>1. participation = [q \in Participations |-> participation[q]]
      BY Zenon DEF TypeOK
    <3>2. Cardinality(Held([participation EXCEPT ![p] = status], share_count))
            <= Cardinality(Held(participation, share_count))
      BY Zenon, <1>10, <3>1, HeldAfterStatus
    <3> QED
      BY Zenon, <1>10, <2>2, <3>2 DEF SettleParticipation, SharesInv, CountersExact
  <2> QED
    BY <1>10, <2>2, <2>3
    DEF SharesInv, CountersExact, FundedWithinTotal, funded_shares, TypeOK,
        Campaigns
<1>11. ASSUME NEW p \in Participations, _release_reserved_participation(p)
       PROVE  SharesInv'
  BY Zenon, <1>6, <1>10, <1>11
  DEF _release_reserved_participation, ParticipationStatus
<1>12. ASSUME NEW p \in Participations, NEW kind,
              NEW status \in {"failed", "expired"}, Fail(p, kind, status),
              UNCHANGED <<share_count, funding, funding_shares>>
       PROVE  SharesInv'
  BY Zenon, <1>10, <1>12 DEF Fail, ParticipationStatus
<1>13. ASSUME NEW p \in Participations, cancel_pending_payment(p)
       PROVE  SharesInv'
  BY Zenon, <1>12, <1>13 DEF cancel_pending_payment
<1>14. ASSUME NEW p \in Participations, expire_stale_participation(p)
       PROVE  SharesInv'
  BY Zenon, <1>10, <1>12, <1>14 DEF expire_stale_participation, ParticipationStatus
<1>15. ASSUME NEW p \in Participations, NEW answer \in Answers,
              verify_payment(p, answer)
       PROVE  SharesInv'
  <2>1. UNCHANGED <<share_count, funding, funding_shares>>
    BY Zenon, <1>15 DEF verify_payment
  <2>2. CASE \E kind : Fail(p, kind, "failed")
    BY Zenon, <1>12, <2>1, <2>2
  <2>3. CASE payment[p] = "pending" /\ Succeed(p)
    <3>1. participation[p] = "pending_payment"
      BY Zenon, <2>3 DEF RowsInv, PendingPaymentHoldsReservation
    <3> QED
      BY <1>10, <2>1, <2>3, <3>1 DEF Succeed, ParticipationStatus
  <2>4. CASE UNCHANGED <<campaign, participation, payment, events, receipt>>
    BY Zenon, <1>6, <2>1, <2>4
  <2> QED
    BY <1>15, <2>2, <2>3, <2>4 DEF verify_payment
<1>16. CASE \/ \E op \in AdminOps : LoadCampaign(op)
            \/ get_campaigns_due_for_closing
            \/ get_stale_participations
            \/ TaskDies
  BY Zenon, <1>6, <1>16 DEF LoadCampaign, get_campaigns_due_for_closing,
                     get_stale_participations, TaskDies
<1>17. CASE \E p \in Participations :
              _persist_initiated_payment(p) \/ TimeoutPasses(p) \/ InitiateDies(p)
  BY Zenon, <1>6, <1>17 DEF _persist_initiated_payment, TimeoutPasses, InitiateDies
<1>18. CASE \E p \in Participations, answer \in Answers :
              CallGateway(p, answer) \/ VerifyDies(p, answer)
  BY Zenon, <1>6, <1>18 DEF CallGateway, VerifyDies
<1>19. CASE UNCHANGED vars
  BY Zenon, <1>6, <1>19 DEF vars
<1> QED
  BY <1>3, <1>4, <1>5, <1>7, <1>8, <1>9, <1>11, <1>13, <1>14, <1>15, <1>16,
     <1>17, <1>18, <1>19
  DEF Next


\* An event that records the present status as the previous one, in the
\* transaction that sets the new one, keeps the ledger complete.
LEMMA LedgerAfterRecord ==
  ASSUME TypeOK, LedgerExplainsPayment,
         NEW p \in Participations, NEW kind \in PaymentEventKind,
         NEW new \in PaymentStatus,
         RecordPaymentEvent(p, kind, new),
         payment' = [payment EXCEPT ![p] = new]
  PROVE  LedgerExplainsPayment'
<1> DEFINE e == [kind |-> kind, previous |-> payment[p], new |-> new]
<1>1. e \in PaymentEvents /\ e.new = new /\ e.previous = payment[p]
  BY Zenon DEF TypeOK, PaymentEvents
<1>2. events[p] \in Seq(PaymentEvents) /\ payment'[p] = new /\ new # None
  BY Zenon DEF TypeOK, PaymentStatus, None
<1>3. events'[p] = Append(events[p], e)
  BY Zenon DEF RecordPaymentEvent, TypeOK
<1>4. \A q \in Participations : q # p =>
        events'[q] = events[q] /\ payment'[q] = payment[q]
  BY Zenon DEF RecordPaymentEvent, TypeOK
<1> HIDE DEF e
<1>5. /\ Len(events'[p]) = Len(events[p]) + 1
      /\ events'[p] # <<>>
      /\ events'[p][Len(events[p]) + 1] = e
      /\ \A i \in 1..Len(events[p]) : events'[p][i] = events[p][i]
      /\ Len(events[p]) \in Nat
  BY <1>1, <1>2, <1>3
<1>6. \A i \in 1..Len(events'[p]) : events'[p][i].previous =
        IF i = 1 THEN None ELSE events'[p][i - 1].new
  <2> SUFFICES ASSUME NEW i \in 1..Len(events'[p])
               PROVE  events'[p][i].previous =
                        IF i = 1 THEN None ELSE events'[p][i - 1].new
    BY Zenon
  <2>1. CASE i \in 1..Len(events[p])
    <3>1. i = 1 \/ i - 1 \in 1..Len(events[p])
      BY <1>5, <2>1
    <3>2. events[p][i].previous = IF i = 1 THEN None ELSE events[p][i - 1].new
      BY Zenon, <2>1 DEF LedgerExplainsPayment
    <3> QED
      BY Zenon, <1>5, <2>1, <3>1, <3>2
  <2>2. CASE i = Len(events[p]) + 1 /\ events[p] = <<>>
    BY <1>1, <1>5, <2>2 DEF LedgerExplainsPayment
  <2>3. CASE i = Len(events[p]) + 1 /\ events[p] # <<>>
    <3>1. Len(events[p]) >= 1
      BY <1>2, <1>5, <2>3
    <3> QED
      BY <1>1, <1>5, <2>3, <3>1 DEF LedgerExplainsPayment
  <2> QED
    BY <1>5, <2>1, <2>2, <2>3
<1>7. events'[p][Len(events'[p])].new = payment'[p] /\ payment'[p] # None
  BY Zenon, <1>1, <1>2, <1>5
<1> DEFINE Explained(log, status) ==
             /\ (log = <<>>) <=> (status = None)
             /\ log # <<>> => log[Len(log)].new = status
             /\ \A i \in 1..Len(log) : log[i].previous =
                  IF i = 1 THEN None ELSE log[i - 1].new
<1>8. Explained(events'[p], payment'[p])
  BY Zenon, <1>5, <1>6, <1>7
<1>9. \A q \in Participations \ {p} : Explained(events[q], payment[q])
  BY Zenon DEF LedgerExplainsPayment
<1>10. \A q \in Participations : Explained(events'[q], payment'[q])
  <2> HIDE DEF Explained
  <2> QED
    BY Zenon, <1>4, <1>8, <1>9
<1> QED
  BY Zenon, <1>10 DEF LedgerExplainsPayment

\* Every transaction that moves a payment records its event, so the ledger
\* explains every payment after every step.
LEMMA LedgerStep ==
  TypeOK /\ LedgerExplainsPayment /\ [Next]_vars => LedgerExplainsPayment'
<1> SUFFICES ASSUME TypeOK, LedgerExplainsPayment, [Next]_vars
             PROVE  LedgerExplainsPayment'
  OBVIOUS
<1> USE DEF rowVars, fundingVars, localVars
<1>1. ASSUME UNCHANGED <<payment, events>> PROVE LedgerExplainsPayment'
  BY <1>1 DEF LedgerExplainsPayment
<1>2. ASSUME NEW p \in Participations, NEW kind \in PaymentEventKind,
             NEW status, Fail(p, kind, status)
      PROVE  LedgerExplainsPayment'
  BY Zenon, <1>2, LedgerAfterRecord DEF Fail, PaymentStatus
<1>3. ASSUME NEW p \in Participations, _persist_initiated_payment(p)
      PROVE  LedgerExplainsPayment'
  BY Zenon, <1>3, LedgerAfterRecord
  DEF _persist_initiated_payment, PaymentStatus, PaymentEventKind
<1>4. ASSUME NEW p \in Participations, NEW answer \in Answers,
             verify_payment(p, answer)
      PROVE  LedgerExplainsPayment'
  <2>1. CASE \E kind \in PaymentEventKind : Fail(p, kind, "failed")
    BY Zenon, <1>2, <2>1
  <2>2. CASE Succeed(p)
    BY Zenon, <2>2, LedgerAfterRecord DEF Succeed, PaymentStatus, PaymentEventKind
  <2>3. CASE UNCHANGED <<payment, events>>
    BY Zenon, <1>1, <2>3
  <2> QED
    BY Zenon, <1>4, <2>1, <2>2, <2>3 DEF verify_payment, PaymentEventKind
<1>5. ASSUME NEW p \in Participations,
             cancel_pending_payment(p) \/ expire_stale_participation(p)
      PROVE  LedgerExplainsPayment'
  BY Zenon, <1>1, <1>2, <1>5
  DEF cancel_pending_payment, expire_stale_participation, PaymentEventKind
<1>6. CASE \/ \E op \in AdminOps : LoadCampaign(op)
           \/ publish_campaign \/ close_campaign \/ DeadlinePasses
           \/ get_campaigns_due_for_closing \/ close_campaign_due_to_deadline
           \/ get_stale_participations \/ TaskDies
  BY Zenon, <1>1, <1>6
  DEF LoadCampaign, publish_campaign, close_campaign, WriteStatus,
      DeadlinePasses, get_campaigns_due_for_closing,
      close_campaign_due_to_deadline, get_stale_participations, TaskDies
<1>7. CASE \/ \E f \in Fundings, n \in 1..MAXIMUM_TOTAL_SHARES :
                record_external_funding(f, n)
           \/ \E f \in Fundings : void_external_funding(f)
           \/ \E p \in Participations, n \in 1..MAXIMUM_TOTAL_SHARES :
                _reserve_participation_shares(p, n)
  BY Zenon, <1>1, <1>7 DEF record_external_funding, void_external_funding,
                    _reserve_participation_shares
<1>8. CASE \E p \in Participations :
             \/ _release_reserved_participation(p)
             \/ TimeoutPasses(p) \/ InitiateDies(p)
  BY Zenon, <1>1, <1>8 DEF _release_reserved_participation, TimeoutPasses, InitiateDies
<1>9. CASE \E p \in Participations, answer \in Answers :
             CallGateway(p, answer) \/ VerifyDies(p, answer)
  BY Zenon, <1>1, <1>9 DEF CallGateway, VerifyDies
<1>10. CASE UNCHANGED vars
  BY Zenon, <1>1, <1>10 DEF vars
<1> QED
  BY <1>3, <1>4, <1>5, <1>6, <1>7, <1>8, <1>9, <1>10 DEF Next


----------------------------------------------------------------------------
(* The theorems. *)

IInv == TypeOK /\ RowsInv /\ SharesInv /\ LedgerExplainsPayment

\* A campaign is created with nothing reserved, funded or paid.
LEMMA InitIInv == Init => IInv
<1> SUFFICES ASSUME Init PROVE IInv
  BY Zenon
<1>1. TypeOK
  <2>1. campaign \in Campaigns
    <3>1. campaign \in [status : CampaignStatus, is_active : BOOLEAN,
                        is_visible : BOOLEAN,
                        deadline : {None, "future", "past"},
                        total_shares : {TotalShares},
                        purchased_shares : {0}, external_funded_shares : {0}]
      BY Zenon DEF Init, CampaignStatus
    <3> QED
      BY <3>1, ShareBounds DEF Campaigns
  <2>2. events \in [Participations -> Seq(PaymentEvents)]
    BY DEF Init
  <2>3. /\ share_count \in [Participations -> 0..MAXIMUM_TOTAL_SHARES]
        /\ funding_shares \in [Fundings -> 0..MAXIMUM_TOTAL_SHARES]
    BY ShareBounds DEF Init
  <2> QED
    BY Zenon, <2>1, <2>2, <2>3 DEF Init, TypeOK
<1>2. RowsInv
  BY Zenon DEF Init, RowsInv, MemoryAgrees, PendingPaymentHoldsReservation,
         SuccessIsCaptured, None
<1>3. Held(participation, share_count) = {}
  BY Zenon DEF Init, Held, None
<1>4. External(funding, funding_shares) = {}
  BY Zenon DEF Init, External, None
<1>5. SharesInv
  <2>1. /\ campaign.purchased_shares = 0
        /\ campaign.external_funded_shares = 0
        /\ campaign.total_shares = TotalShares
    BY Zenon DEF Init
  <2>2. Cardinality({}) = 0
    BY Zenon, FS_EmptySet
  <2> QED
    BY <1>3, <1>4, <2>1, <2>2, ShareBounds
    DEF SharesInv, CountersExact, FundedWithinTotal, funded_shares
<1>6. LedgerExplainsPayment
  BY DEF Init, LedgerExplainsPayment
<1> QED
  BY Zenon, <1>1, <1>2, <1>5, <1>6 DEF IInv

\* The inductive invariant holds in every reachable state.
THEOREM Invariance == Spec => []IInv
<1>1. IInv /\ [Next]_vars => IInv'
  BY Zenon, TypeStep, RowsStep, SharesStep, LedgerStep DEF IInv
<1> QED
  BY <1>1, InitIInv, PTL DEF Spec

\* Every column always holds a value its field admits.
THEOREM TypeCorrect == Spec => []TypeOK
<1>1. IInv => TypeOK
  BY Zenon DEF IInv
<1> QED
  BY <1>1, Invariance, PTL

\* The denormalized counters that _sync_campaign_counters recomputes always
\* equal the sums over the rows.
THEOREM CountersAlwaysExact == Spec => []CountersExact
<1>1. IInv => CountersExact
  BY Zenon DEF IInv, SharesInv
<1> QED
  BY <1>1, Invariance, PTL

\* Online reservations and sales together with external fundings never exceed
\* total_shares, for any number of rows, shares and concurrent requests.
THEOREM NoCombinedOversell == Spec => []FundedWithinTotal
<1>1. IInv => FundedWithinTotal
  BY Zenon DEF IInv, SharesInv
<1> QED
  BY <1>1, Invariance, PTL

\* A payment verify_payment may still turn into SUCCESS holds its reservation.
THEOREM PendingPaymentSafe == Spec => []PendingPaymentHoldsReservation
<1>1. IInv => PendingPaymentHoldsReservation
  BY Zenon DEF IInv, RowsInv
<1> QED
  BY <1>1, Invariance, PTL

\* A payment is SUCCESS only if the gateway captured its money.
THEOREM NoUnpaidSuccess == Spec => []SuccessIsCaptured
<1>1. IInv => SuccessIsCaptured
  BY Zenon DEF IInv, RowsInv
<1> QED
  BY <1>1, Invariance, PTL

\* The PaymentEvent rows always explain the status of their payment.
THEOREM LedgerComplete == Spec => []LedgerExplainsPayment
<1>1. IInv => LedgerExplainsPayment
  BY Zenon DEF IInv
<1> QED
  BY <1>1, Invariance, PTL

\* With providers that never answer another amount than they were asked to
\* verify, no callback, cancellation or sweep moves a settled payment: this
\* rests on the second test under the lock, and on a request that waits for
\* the gateway having no payment yet.
THEOREM SettledPaymentsFinal ==
  ASSUME "mismatch" \notin Answers
  PROVE  Spec => SettledPaymentFinal
<1> DEFINE Kept == \A p \in Participations :
             payment[p] \in {"success", "failed"} => payment'[p] = payment[p]
<1>1. IInv /\ [Next]_vars => [Kept]_vars
  <2> SUFFICES ASSUME IInv, Next PROVE Kept
    BY Zenon
  <2> USE DEF rowVars, fundingVars, localVars
  <2>1. ASSUME UNCHANGED payment PROVE Kept
    BY Zenon, <2>1
  <2>2. ASSUME NEW p \in Participations, payment[p] \notin {"success", "failed"},
               NEW status, payment' = [payment EXCEPT ![p] = status]
        PROVE  Kept
    BY Zenon, <2>2 DEF IInv, TypeOK
  <2>3. ASSUME NEW p \in Participations, _persist_initiated_payment(p)
        PROVE  Kept
    BY Zenon, <2>2, <2>3
    DEF _persist_initiated_payment, IInv, RowsInv, MemoryAgrees, None
  <2>4. ASSUME NEW p \in Participations, NEW answer \in Answers,
               verify_payment(p, answer)
        PROVE  Kept
    <3>1. answer # "mismatch"
      BY Zenon
    <3>2. CASE payment[p] = "pending"
      BY <2>1, <2>2, <2>4, <3>1, <3>2 DEF verify_payment, Fail, Succeed
    <3>3. CASE payment[p] # "pending"
      BY <2>1, <2>4, <3>1, <3>3 DEF verify_payment
    <3> QED
      BY Zenon, <3>2, <3>3
  <2>5. ASSUME NEW p \in Participations,
               cancel_pending_payment(p) \/ expire_stale_participation(p)
        PROVE  Kept
    BY Zenon, <2>1, <2>2, <2>5
    DEF cancel_pending_payment, expire_stale_participation, Fail
  <2>6. CASE \/ \E op \in AdminOps : LoadCampaign(op)
             \/ publish_campaign \/ close_campaign \/ DeadlinePasses
             \/ get_campaigns_due_for_closing \/ close_campaign_due_to_deadline
             \/ get_stale_participations \/ TaskDies
    BY Zenon, <2>1, <2>6
    DEF LoadCampaign, publish_campaign, close_campaign, WriteStatus,
        DeadlinePasses, get_campaigns_due_for_closing,
        close_campaign_due_to_deadline, get_stale_participations, TaskDies
  <2>7. CASE \/ \E f \in Fundings, n \in 1..MAXIMUM_TOTAL_SHARES :
                  record_external_funding(f, n)
             \/ \E f \in Fundings : void_external_funding(f)
             \/ \E p \in Participations, n \in 1..MAXIMUM_TOTAL_SHARES :
                  _reserve_participation_shares(p, n)
    BY Zenon, <2>1, <2>7 DEF record_external_funding, void_external_funding,
                      _reserve_participation_shares
  <2>8. CASE \E p \in Participations :
               \/ _release_reserved_participation(p)
               \/ TimeoutPasses(p) \/ InitiateDies(p)
    BY Zenon, <2>1, <2>8
    DEF _release_reserved_participation, TimeoutPasses, InitiateDies
  <2>9. CASE \E p \in Participations, answer \in Answers :
               CallGateway(p, answer) \/ VerifyDies(p, answer)
    BY Zenon, <2>1, <2>9 DEF CallGateway, VerifyDies
  <2> QED
    BY <2>3, <2>4, <2>5, <2>6, <2>7, <2>8, <2>9 DEF Next
<1> QED
  BY <1>1, Invariance, PTL DEF Spec, SettledPaymentFinal

\* What a request, a verify call or the sweep remembers always agrees with the
\* rows: it is the part of the inductive invariant about local memory.
THEOREM MemoryAlwaysAgrees == Spec => []MemoryAgrees
<1>1. IInv => MemoryAgrees
  BY Zenon DEF IInv, RowsInv
<1> QED
  BY <1>1, Invariance, PTL

\* With providers that never answer another amount, a receipt exists exactly
\* for the successful payments: Succeed issues it in the transaction that sets
\* the status, and no later transaction leaves SUCCESS.
THEOREM ReceiptsMatchPayments ==
  ASSUME "mismatch" \notin Answers
  PROVE  Spec => []ReceiptIffSuccess
<1> USE DEF ReceiptIffSuccess
<1>1. Init => ReceiptIffSuccess
  BY Zenon DEF Init, None
<1>2. IInv /\ ReceiptIffSuccess /\ [Next]_vars => ReceiptIffSuccess'
  <2> SUFFICES ASSUME IInv, ReceiptIffSuccess, [Next]_vars
               PROVE  ReceiptIffSuccess'
    BY Zenon
  <2> USE DEF rowVars, fundingVars, localVars
  <2>1. ASSUME UNCHANGED <<payment, receipt>> PROVE ReceiptIffSuccess'
    BY Zenon, <2>1
  <2>2. ASSUME NEW p \in Participations, payment[p] # "success",
               NEW status \in {"pending", "failed"},
               payment' = [payment EXCEPT ![p] = status], UNCHANGED receipt
        PROVE  ReceiptIffSuccess'
    BY Zenon, <2>2 DEF IInv, TypeOK
  <2>3. ASSUME NEW p \in Participations, _persist_initiated_payment(p)
        PROVE  ReceiptIffSuccess'
    BY Zenon, <2>2, <2>3
    DEF _persist_initiated_payment, IInv, RowsInv, MemoryAgrees, None
  <2>4. ASSUME NEW p \in Participations, NEW answer \in Answers,
               verify_payment(p, answer)
        PROVE  ReceiptIffSuccess'
    <3>1. answer # "mismatch"
      BY Zenon
    <3>2. CASE payment[p] = "pending" /\ Succeed(p)
      BY Zenon, <3>2 DEF Succeed, IInv, TypeOK
    <3>3. CASE payment[p] = "pending" /\ \E kind : Fail(p, kind, "failed")
      BY Zenon, <2>2, <3>3 DEF Fail
    <3> QED
      BY <2>1, <2>4, <3>1, <3>2, <3>3 DEF verify_payment
  <2>5. ASSUME NEW p \in Participations,
               cancel_pending_payment(p) \/ expire_stale_participation(p)
        PROVE  ReceiptIffSuccess'
    BY Zenon, <2>1, <2>2, <2>5
    DEF cancel_pending_payment, expire_stale_participation, Fail
  <2>6. CASE \/ \E op \in AdminOps : LoadCampaign(op)
             \/ publish_campaign \/ close_campaign \/ DeadlinePasses
             \/ get_campaigns_due_for_closing \/ close_campaign_due_to_deadline
             \/ get_stale_participations \/ TaskDies
    BY Zenon, <2>1, <2>6
    DEF LoadCampaign, publish_campaign, close_campaign, WriteStatus,
        DeadlinePasses, get_campaigns_due_for_closing,
        close_campaign_due_to_deadline, get_stale_participations, TaskDies
  <2>7. CASE \/ \E f \in Fundings, n \in 1..MAXIMUM_TOTAL_SHARES :
                  record_external_funding(f, n)
             \/ \E f \in Fundings : void_external_funding(f)
             \/ \E p \in Participations, n \in 1..MAXIMUM_TOTAL_SHARES :
                  _reserve_participation_shares(p, n)
    BY Zenon, <2>1, <2>7 DEF record_external_funding, void_external_funding,
                      _reserve_participation_shares
  <2>8. CASE \E p \in Participations :
               \/ _release_reserved_participation(p)
               \/ TimeoutPasses(p) \/ InitiateDies(p)
    BY Zenon, <2>1, <2>8
    DEF _release_reserved_participation, TimeoutPasses, InitiateDies
  <2>9. CASE \E p \in Participations, answer \in Answers :
               CallGateway(p, answer) \/ VerifyDies(p, answer)
    BY Zenon, <2>1, <2>9 DEF CallGateway, VerifyDies
  <2>10. CASE UNCHANGED vars
    BY Zenon, <2>1, <2>10 DEF vars
  <2> QED
    BY <2>3, <2>4, <2>5, <2>6, <2>7, <2>8, <2>9, <2>10 DEF Next
<1> QED
  BY <1>1, <1>2, Invariance, PTL DEF Spec

----------------------------------------------------------------------------
(* The rows implement ShareCapacity. *)

\* total_shares is written by no operation of the specification.
TotalKept == campaign.total_shares = TotalShares

LEMMA TotalNeverMoves == Spec => []TotalKept
<1> USE DEF TotalKept
<1>1. Init => TotalKept
  BY Zenon DEF Init
<1>2. IInv /\ TotalKept /\ [Next]_vars => TotalKept'
  <2> SUFFICES ASSUME IInv, TotalKept, [Next]_vars PROVE TotalKept'
    BY Zenon
  <2> USE DEF rowVars, fundingVars, localVars
  <2>1. ASSUME UNCHANGED campaign PROVE TotalKept'
    BY Zenon, <2>1
  <2>2. campaign \in Campaigns
    BY Zenon DEF IInv, TypeOK
  <2>3. ASSUME NEW part, NEW pcount, NEW fund, NEW fcount,
               NEW c, c = SyncCampaignCounters(campaign, part, pcount, fund, fcount),
               campaign' = c \/ campaign' = AutoComplete(c)
        PROVE  TotalKept'
    <3>1. c \in Campaigns /\ c.total_shares = campaign.total_shares
      BY <2>2, <2>3, SyncKeepsTotal
    <3> QED
      BY Zenon, <2>3, <3>1, AutoCompleteType
  <2>4. ASSUME NEW p \in Participations, NEW status, NEW c,
               SettleParticipation(p, status, c),
               c = SyncedWith(p, status) \/ c = AutoComplete(SyncedWith(p, status))
        PROVE  TotalKept'
    BY Zenon, <2>3, <2>4 DEF SettleParticipation, SyncedWith
  <2>5. CASE \/ publish_campaign \/ close_campaign \/ DeadlinePasses
             \/ close_campaign_due_to_deadline
    BY Zenon, <2>2, <2>5 DEF publish_campaign, close_campaign, WriteStatus,
                      DeadlinePasses, close_campaign_due_to_deadline, Campaigns
  <2>6. ASSUME NEW f \in Fundings, NEW n \in 1..MAXIMUM_TOTAL_SHARES,
               record_external_funding(f, n)
        PROVE  TotalKept'
    <3> DEFINE c == SyncCampaignCounters(campaign, participation, share_count,
                                         funding', funding_shares')
    <3>1. c \in Campaigns /\ c.total_shares = campaign.total_shares
      BY <2>2, SyncType
    <3>2. campaign' = AutoComplete(c)
      BY Zenon, <2>6 DEF record_external_funding
    <3> HIDE DEF c
    <3> QED
      BY Zenon, <3>1, <3>2, AutoCompleteType
  <2>7. ASSUME NEW f \in Fundings, void_external_funding(f) PROVE TotalKept'
    BY <2>2, <2>7, SyncType DEF void_external_funding
  <2>8. ASSUME NEW p \in Participations, NEW n \in 1..MAXIMUM_TOTAL_SHARES,
               _reserve_participation_shares(p, n)
        PROVE  TotalKept'
    BY <2>2, <2>8, SyncType DEF _reserve_participation_shares
  <2>9. ASSUME NEW p \in Participations,
               \/ _release_reserved_participation(p)
               \/ cancel_pending_payment(p) \/ expire_stale_participation(p)
        PROVE  TotalKept'
    BY Zenon, <2>1, <2>4, <2>9 DEF _release_reserved_participation,
         cancel_pending_payment, expire_stale_participation, Fail
  <2>10. ASSUME NEW p \in Participations, NEW answer \in Answers,
                verify_payment(p, answer)
         PROVE  TotalKept'
    BY Zenon, <2>1, <2>4, <2>10 DEF verify_payment, Succeed, Fail
  <2>11. CASE \/ \E op \in AdminOps : LoadCampaign(op)
              \/ get_campaigns_due_for_closing \/ get_stale_participations
              \/ TaskDies \/ UNCHANGED vars
    BY Zenon, <2>1, <2>11 DEF LoadCampaign, get_campaigns_due_for_closing,
         get_stale_participations, TaskDies, vars
  <2>12. CASE \E p \in Participations :
                _persist_initiated_payment(p) \/ TimeoutPasses(p) \/ InitiateDies(p)
    BY Zenon, <2>1, <2>12 DEF _persist_initiated_payment, TimeoutPasses, InitiateDies
  <2>13. CASE \E p \in Participations, answer \in Answers :
                CallGateway(p, answer) \/ VerifyDies(p, answer)
    BY Zenon, <2>1, <2>13 DEF CallGateway, VerifyDies
  <2> QED
    BY <2>5, <2>6, <2>7, <2>8, <2>9, <2>10, <2>11, <2>12, <2>13 DEF Next
<1> QED
  BY <1>1, <1>2, Invariance, PTL DEF Spec

\* The shares the abstract specification counts are units of the rows, so they
\* are no more than the exact counters say.
LEMMA TakenWithinCounters ==
  ASSUME IInv, TotalKept
  PROVE  /\ Cardinality(Capacity!TakenShares) \in Nat
         /\ Cardinality(Capacity!TakenShares) <= funded_shares(campaign)
<1> DEFINE H == Held(participation, share_count)
           E == External(funding, funding_shares)
<1>1. Capacity!TakenShares \subseteq H \cup E
  <2> SUFFICES ASSUME NEW u \in Capacity!TakenShares PROVE u \in H \cup E
    BY Zenon
  <2>1. /\ u \in Rows \X (1..TotalShares)
        /\ u[1] \in Rows /\ u[2] \in 1..TotalShares
    BY Zenon DEF Capacity!TakenShares
  <2>2. u[2] \in 1..MAXIMUM_TOTAL_SHARES
    BY <2>1, ShareBounds
  <2>3. CASE u[1] \in Participations
    BY Zenon, <2>1, <2>2, <2>3 DEF Capacity!TakenShares, Held, None
  <2>4. CASE u[1] \notin Participations
    BY Zenon, <2>1, <2>2, <2>4 DEF Capacity!TakenShares, External, Rows, None
  <2> QED
    BY Zenon, <2>3, <2>4
<1>2. /\ IsFiniteSet(H) /\ IsFiniteSet(E)
      /\ Cardinality(H) \in Nat /\ Cardinality(E) \in Nat
  BY Zenon, UnitsFinite
<1>3. /\ IsFiniteSet(H \cup E)
      /\ Cardinality(H \cup E) = Cardinality(H) + Cardinality(E)
                                 - Cardinality(H \cap E)
  BY Zenon, <1>2, FS_Union
<1>4. Cardinality(H \cap E) \in Nat
  <2>1. IsFiniteSet(H \cap E)
    BY Zenon, <1>2, FS_Subset
  <2> QED
    BY Zenon, <2>1, FS_CardinalityType
<1>5. /\ Cardinality(Capacity!TakenShares) \in Nat
      /\ Cardinality(Capacity!TakenShares) <= Cardinality(H \cup E)
  BY <1>1, <1>3, FS_Subset, FS_CardinalityType
<1>6. funded_shares(campaign) = Cardinality(H) + Cardinality(E)
  BY Zenon DEF IInv, SharesInv, CountersExact, funded_shares
<1> QED
  BY <1>2, <1>3, <1>4, <1>5, <1>6

\* The refinement mapping.
Phase ==
  [h \in Rows |->
    IF h \in Participations
    THEN IF participation[h] = None THEN "new"
         ELSE IF participation[h] \in {"pending_payment", "paid"}
              THEN "holding" ELSE "gone"
    ELSE IF funding[h] = None THEN "new"
         ELSE IF funding[h] = "recorded" THEN "holding" ELSE "gone"]
Taken ==
  [h \in Rows |-> IF h \in Participations THEN share_count[h]
                                          ELSE funding_shares[h]]

\* What the mapping shows of a step that takes shares, and of one that gives
\* them back, is the abstract step.
LEMMA MappedTake ==
  ASSUME NEW h \in Rows, NEW n \in 1..TotalShares,
         Cardinality(Capacity!TakenShares) + n <= TotalShares,
         Phase[h] = "new",
         \A g \in Rows : /\ Phase'[g] = IF g = h THEN "holding" ELSE Phase[g]
                         /\ Taken'[g] = IF g = h THEN n ELSE Taken[g]
  PROVE  Capacity!HoldersNext
<1>1. /\ Phase = [g \in Rows |-> Phase[g]] /\ Phase' = [g \in Rows |-> Phase'[g]]
      /\ Taken = [g \in Rows |-> Taken[g]] /\ Taken' = [g \in Rows |-> Taken'[g]]
  BY Zenon DEF Phase, Taken
<1>2. /\ Phase' = [Phase EXCEPT ![h] = "holding"]
      /\ Taken' = [Taken EXCEPT ![h] = n]
  BY Zenon, <1>1
<1>3. Capacity!Cardinality(Capacity!TakenShares) + n <= TotalShares
  BY Zenon DEF Capacity!Cardinality, Cardinality
<1>4. Capacity!Take(h, n)
  BY <1>2, <1>3, Zenon DEF Capacity!Take, Phase, Taken
<1> QED
  BY <1>4, Zenon DEF Capacity!HoldersNext

LEMMA MappedGiveBack ==
  ASSUME NEW h \in Rows, Phase[h] = "holding",
         \A g \in Rows : /\ Phase'[g] = IF g = h THEN "gone" ELSE Phase[g]
                         /\ Taken'[g] = Taken[g]
  PROVE  Capacity!HoldersNext
<1>1. /\ Phase = [g \in Rows |-> Phase[g]] /\ Phase' = [g \in Rows |-> Phase'[g]]
      /\ Taken = [g \in Rows |-> Taken[g]] /\ Taken' = [g \in Rows |-> Taken'[g]]
  BY Zenon DEF Phase, Taken
<1>2. Phase' = [Phase EXCEPT ![h] = "gone"] /\ Taken' = Taken
  BY Zenon, <1>1
<1>3. Capacity!GiveBack(h)
  BY <1>2, Zenon DEF Capacity!GiveBack, Phase, Taken
<1> QED
  BY Zenon, <1>3 DEF Capacity!HoldersNext

LEMMA FundedIsNumber == TypeOK => funded_shares(campaign) \in Nat
<1> SUFFICES ASSUME TypeOK PROVE funded_shares(campaign) \in Nat
  BY Zenon
<1>1. campaign.purchased_shares \in Nat /\ campaign.external_funded_shares \in Nat
  BY Zenon DEF TypeOK, Campaigns
<1> QED
  BY <1>1 DEF funded_shares

\* Every step takes free shares for a new row, gives a row's shares back, or
\* changes neither: a row never holds again what it has given back.
LEMMA CapacityStep ==
  IInv /\ TotalKept /\ [Next]_vars => [Capacity!HoldersNext]_(Capacity!holderVars)
<1> SUFFICES ASSUME IInv, TotalKept, [Next]_vars
             PROVE  \/ Capacity!HoldersNext
                    \/ UNCHANGED Capacity!holderVars
  BY Zenon DEF Capacity!holderVars
<1> USE DEF rowVars, fundingVars, localVars
<1> DEFINE Goal == Capacity!HoldersNext \/ UNCHANGED Capacity!holderVars
           Holding == {"pending_payment", "paid"}
<1>1. ASSUME UNCHANGED <<participation, share_count, funding, funding_shares>>
      PROVE  Goal
  BY Zenon, <1>1 DEF Capacity!holderVars
<1>2. ASSUME NEW p \in Participations, NEW status \in {"paid", "failed", "expired"},
             participation' = [participation EXCEPT ![p] = status],
             participation[p] # None,
             status = "paid" => participation[p] \in Holding,
             UNCHANGED <<share_count, funding, funding_shares>>
      PROVE  Goal
  <2>1. participation \in [Participations -> ParticipationStatus \cup {None}]
    BY Zenon DEF IInv, TypeOK
  <2>2. CASE participation[p] \in Holding /\ status # "paid"
    <3>1. /\ Phase[p] = "holding"
          /\ \A g \in Rows : /\ Phase'[g] = IF g = p THEN "gone" ELSE Phase[g]
                             /\ Taken'[g] = Taken[g]
      BY Zenon, <1>2, <2>1, <2>2 DEF Phase, Taken, Rows, None
    <3> QED
      BY Zenon, <3>1, MappedGiveBack DEF Rows
  <2>3. CASE status = "paid" \/ participation[p] \notin Holding
    BY <1>2, <2>1, <2>3, FiniteRows DEF Capacity!holderVars, Rows, None
  <2> QED
    BY Zenon, <2>2, <2>3
<1>3. ASSUME NEW p \in Participations, NEW n \in 1..MAXIMUM_TOTAL_SHARES,
             _reserve_participation_shares(p, n)
      PROVE  Goal
  <2>1. /\ n \in 1..TotalShares
        /\ Cardinality(Capacity!TakenShares) + n <= TotalShares
    <3>1. n \in 1..remaining_shares(campaign) /\ campaign.total_shares = TotalShares
      BY Zenon, <1>3 DEF _reserve_participation_shares, TotalKept
    <3>2. /\ funded_shares(campaign) \in Nat
          /\ Cardinality(Capacity!TakenShares) <= funded_shares(campaign)
          /\ Cardinality(Capacity!TakenShares) \in Nat
      BY Zenon, TakenWithinCounters, FundedIsNumber DEF IInv
    <3> QED
      BY <3>1, <3>2, ShareBounds DEF remaining_shares
  <2>2. /\ participation \in [Participations -> ParticipationStatus \cup {None}]
        /\ share_count \in [Participations -> 0..MAXIMUM_TOTAL_SHARES]
        /\ participation[p] = None
        /\ participation' = [participation EXCEPT ![p] = "pending_payment"]
        /\ share_count' = [share_count EXCEPT ![p] = n]
        /\ UNCHANGED <<funding, funding_shares>>
    BY Zenon, <1>3 DEF IInv, TypeOK, _reserve_participation_shares
  <2>3. /\ Phase[p] = "new"
        /\ \A g \in Rows :
             /\ Phase'[g] = IF g = p THEN "holding" ELSE Phase[g]
             /\ Taken'[g] = IF g = p THEN n ELSE Taken[g]
    BY Zenon, <2>2, FiniteRows DEF Phase, Taken, Rows, None
  <2> QED
    BY <2>1, <2>3, MappedTake DEF Rows
<1>4. ASSUME NEW f \in Fundings, NEW n \in 1..MAXIMUM_TOTAL_SHARES,
             record_external_funding(f, n)
      PROVE  Goal
  <2>1. /\ n \in 1..TotalShares
        /\ Cardinality(Capacity!TakenShares) + n <= TotalShares
    <3>1. n \in 1..remaining_shares(campaign) /\ campaign.total_shares = TotalShares
      BY Zenon, <1>4 DEF record_external_funding, TotalKept
    <3>2. /\ funded_shares(campaign) \in Nat
          /\ Cardinality(Capacity!TakenShares) <= funded_shares(campaign)
          /\ Cardinality(Capacity!TakenShares) \in Nat
      BY Zenon, TakenWithinCounters, FundedIsNumber DEF IInv
    <3> QED
      BY <3>1, <3>2, ShareBounds DEF remaining_shares
  <2>2. /\ funding = [q \in Fundings |-> funding[q]]
        /\ funding_shares \in [Fundings -> 0..MAXIMUM_TOTAL_SHARES]
        /\ funding[f] = None
        /\ funding' = [funding EXCEPT ![f] = "recorded"]
        /\ funding_shares' = [funding_shares EXCEPT ![f] = n]
        /\ UNCHANGED <<participation, share_count>>
    BY Zenon, <1>4 DEF IInv, TypeOK, record_external_funding
  <2>3. /\ Phase[f] = "new"
        /\ \A g \in Rows :
             /\ Phase'[g] = IF g = f THEN "holding" ELSE Phase[g]
             /\ Taken'[g] = IF g = f THEN n ELSE Taken[g]
    BY Zenon, <2>2, FiniteRows DEF Phase, Taken, Rows, None
  <2> QED
    BY <2>1, <2>3, MappedTake DEF Rows
<1>5. ASSUME NEW f \in Fundings, void_external_funding(f) PROVE Goal
  <2>1. /\ funding = [q \in Fundings |-> funding[q]]
        /\ funding[f] = "recorded"
        /\ funding' = [funding EXCEPT ![f] = "voided"]
        /\ UNCHANGED <<participation, share_count, funding_shares>>
    BY Zenon, <1>5 DEF IInv, TypeOK, void_external_funding
  <2>2. /\ Phase[f] = "holding"
        /\ \A g \in Rows : /\ Phase'[g] = IF g = f THEN "gone" ELSE Phase[g]
                           /\ Taken'[g] = Taken[g]
    BY Zenon, <2>1, FiniteRows DEF Phase, Taken, Rows, None
  <2> QED
    BY Zenon, <2>2, MappedGiveBack DEF Rows
<1>6. ASSUME NEW p \in Participations, _release_reserved_participation(p)
      PROVE  Goal
  BY Zenon, <1>1, <1>2, <1>6
  DEF _release_reserved_participation, SettleParticipation, None
<1>7. ASSUME NEW p \in Participations, cancel_pending_payment(p) PROVE Goal
  <2>1. participation[p] = "pending_payment"
    BY Zenon, <1>7 DEF IInv, RowsInv, PendingPaymentHoldsReservation,
                cancel_pending_payment
  <2>2. /\ participation' = [participation EXCEPT ![p] = "failed"]
        /\ UNCHANGED <<share_count, funding, funding_shares>>
    BY Zenon, <1>7 DEF cancel_pending_payment, Fail, SettleParticipation
  <2> QED
    BY Zenon, <1>2, <2>1, <2>2 DEF None
<1>8. ASSUME NEW p \in Participations, expire_stale_participation(p) PROVE Goal
  <2>1. participation[p] # None
    BY Zenon, <1>8 DEF IInv, RowsInv, MemoryAgrees, expire_stale_participation
  <2> QED
    BY Zenon, <1>2, <1>8, <2>1
    DEF expire_stale_participation, Fail, SettleParticipation
<1>9. ASSUME NEW p \in Participations, NEW answer \in Answers,
             verify_payment(p, answer)
      PROVE  Goal
  <2>1. participation[p] # None
    BY Zenon, <1>9 DEF IInv, RowsInv, MemoryAgrees, verify_payment
  <2>2. UNCHANGED <<share_count, funding, funding_shares>>
    BY Zenon, <1>9 DEF verify_payment
  <2>3. CASE payment[p] = "pending" /\ Succeed(p)
    <3>1. participation[p] = "pending_payment"
      BY Zenon, <2>3 DEF IInv, RowsInv, PendingPaymentHoldsReservation
    <3>2. participation' = [participation EXCEPT ![p] = "paid"]
      BY Zenon, <2>3 DEF Succeed, SettleParticipation
    <3> QED
      BY Zenon, <1>2, <2>1, <2>2, <3>1, <3>2
  <2>4. CASE \E kind : Fail(p, kind, "failed")
    <3>1. participation' = [participation EXCEPT ![p] = "failed"]
      BY Zenon, <2>4 DEF Fail, SettleParticipation
    <3> QED
      BY Zenon, <1>2, <2>1, <2>2, <3>1
  <2> QED
    BY <1>1, <1>9, <2>3, <2>4 DEF verify_payment
<1>10. CASE \/ \E op \in AdminOps : LoadCampaign(op)
            \/ publish_campaign \/ close_campaign \/ DeadlinePasses
            \/ get_campaigns_due_for_closing \/ close_campaign_due_to_deadline
            \/ get_stale_participations \/ TaskDies \/ UNCHANGED vars
  BY Zenon, <1>1, <1>10
  DEF LoadCampaign, publish_campaign, close_campaign, WriteStatus,
      DeadlinePasses, get_campaigns_due_for_closing,
      close_campaign_due_to_deadline, get_stale_participations, TaskDies, vars
<1>11. CASE \E p \in Participations :
              _persist_initiated_payment(p) \/ TimeoutPasses(p) \/ InitiateDies(p)
  BY Zenon, <1>1, <1>11 DEF _persist_initiated_payment, TimeoutPasses, InitiateDies
<1>12. CASE \E p \in Participations, answer \in Answers :
              CallGateway(p, answer) \/ VerifyDies(p, answer)
  BY Zenon, <1>1, <1>12 DEF CallGateway, VerifyDies
<1> QED
  BY <1>3, <1>4, <1>5, <1>6, <1>7, <1>8, <1>9, <1>10, <1>11, <1>12 DEF Next

\* The rows of a campaign implement the abstract promise of its shares: taken
\* once and only if free, given back at most once, through every callback,
\* cancellation, sweep and crash.
THEOREM CapacityImplemented == Spec => ImplementsCapacity
<1>1. Init => Capacity!HoldersInit
  BY DEF Init, Capacity!HoldersInit, Rows, None
<1> QED
  BY <1>1, CapacityStep, Invariance, TotalNeverMoves, PTL
  DEF Spec, ImplementsCapacity, Capacity!HoldersSpec

----------------------------------------------------------------------------
(* Admin edits.  Under them total_shares moves, so the bound on what is    *)
(* funded is gone; the rest of the invariant does not rest on it.          *)

\* Every transaction leaves exact counters, whatever total_shares is.
LEMMA CountersStep ==
  TypeOK /\ CountersExact /\ [Next]_vars => CountersExact'
<1> SUFFICES ASSUME TypeOK, CountersExact, [Next]_vars PROVE CountersExact'
  BY Zenon
<1> USE DEF rowVars, fundingVars, localVars
<1>1. ASSUME UNCHANGED <<participation, share_count, funding, funding_shares>>,
             campaign'.purchased_shares = campaign.purchased_shares,
             campaign'.external_funded_shares = campaign.external_funded_shares
      PROVE  CountersExact'
  BY Zenon, <1>1 DEF CountersExact
<1>2. ASSUME UNCHANGED <<campaign, participation, share_count, funding, funding_shares>>
      PROVE  CountersExact'
  BY Zenon, <1>1, <1>2
<1>3. ASSUME NEW k, k = SyncCampaignCounters(campaign, participation', share_count',
                                             funding', funding_shares'),
             campaign' = k \/ campaign' = AutoComplete(k)
      PROVE  CountersExact'
  <2>1. /\ k \in Campaigns
        /\ k.purchased_shares = Cardinality(Held(participation', share_count'))
        /\ k.external_funded_shares = Cardinality(External(funding', funding_shares'))
    BY Zenon, <1>3, UnitsFinite DEF SyncCampaignCounters, TypeOK, Campaigns
  <2>2. /\ campaign'.purchased_shares = k.purchased_shares
        /\ campaign'.external_funded_shares = k.external_funded_shares
    BY Zenon, <1>3, <2>1, AutoCompleteType
  <2> QED
    BY Zenon, <2>1, <2>2 DEF CountersExact
<1>4. ASSUME NEW p \in Participations, NEW status, NEW c, SettleParticipation(p, status, c),
             c = SyncedWith(p, status) \/ c = AutoComplete(SyncedWith(p, status)),
             UNCHANGED <<share_count, funding, funding_shares>>
      PROVE  CountersExact'
  BY Zenon, <1>3, <1>4 DEF SettleParticipation, SyncedWith
<1>5. ASSUME NEW p \in Participations, NEW kind, NEW status, Fail(p, kind, status),
             UNCHANGED <<share_count, funding, funding_shares>>
      PROVE  CountersExact'
  BY Zenon, <1>4, <1>5 DEF Fail
<1>6. CASE publish_campaign \/ close_campaign \/ DeadlinePasses \/ close_campaign_due_to_deadline
  BY Zenon, <1>1, <1>6 DEF publish_campaign, close_campaign, WriteStatus, DeadlinePasses,
                           close_campaign_due_to_deadline, TypeOK, Campaigns
<1>7. ASSUME NEW f \in Fundings, NEW n, record_external_funding(f, n) PROVE CountersExact'
  BY Zenon, <1>3, <1>7 DEF record_external_funding
<1>8. ASSUME NEW f \in Fundings, void_external_funding(f) PROVE CountersExact'
  BY Zenon, <1>3, <1>8 DEF void_external_funding
<1>9. ASSUME NEW p \in Participations, NEW n, _reserve_participation_shares(p, n)
      PROVE  CountersExact'
  BY Zenon, <1>3, <1>9 DEF _reserve_participation_shares
<1>10. ASSUME NEW p \in Participations,
              \/ _release_reserved_participation(p) \/ cancel_pending_payment(p)
              \/ expire_stale_participation(p)
       PROVE  CountersExact'
  BY Zenon, <1>2, <1>4, <1>5, <1>10
  DEF _release_reserved_participation, cancel_pending_payment, expire_stale_participation
<1>11. ASSUME NEW p \in Participations, NEW answer \in Answers, verify_payment(p, answer)
       PROVE  CountersExact'
  BY Zenon, <1>2, <1>4, <1>5, <1>11 DEF verify_payment, Succeed
<1>12. CASE \/ \E op \in AdminOps : LoadCampaign(op)
            \/ get_campaigns_due_for_closing \/ get_stale_participations \/ TaskDies
  BY Zenon, <1>2, <1>12 DEF LoadCampaign, get_campaigns_due_for_closing,
                            get_stale_participations, TaskDies
<1>13. CASE \E p \in Participations :
              _persist_initiated_payment(p) \/ TimeoutPasses(p) \/ InitiateDies(p)
  BY Zenon, <1>2, <1>13 DEF _persist_initiated_payment, TimeoutPasses, InitiateDies
<1>14. CASE \E p \in Participations, answer \in Answers :
              CallGateway(p, answer) \/ VerifyDies(p, answer)
  BY Zenon, <1>2, <1>14 DEF CallGateway, VerifyDies
<1>15. CASE UNCHANGED vars
  BY Zenon, <1>2, <1>15 DEF vars
<1> QED
  BY Zenon, <1>6, <1>7, <1>8, <1>9, <1>10, <1>11, <1>12, <1>13, <1>14, <1>15 DEF Next

\* What edits leave standing: types, exact counters, and the agreement of
\* participations, payments and their ledger.
EditsInv ==
  /\ AdminTypeOK /\ CountersExact
  /\ RowsInv /\ LedgerExplainsPayment

LEMMA EditsInitially == AdminInit => EditsInv
<1> SUFFICES ASSUME AdminInit PROVE EditsInv
  BY Zenon
<1>1. IInv
  BY Zenon, InitIInv DEF AdminInit
<1>2. share_price \in 0..TotalAmount
  BY AmountBounds, ShareBounds DEF AdminInit, SharePrice
<1> QED
  BY Zenon, <1>1, <1>2 DEF IInv, SharesInv, AdminInit, AdminTypeOK, EditsInv

\* An edit writes its columns over the present row: the counters and the rows
\* of the donors stay.
LEMMA SaveEditStep ==
  ASSUME EditsInv, NEW e \in edits, SaveEdit(e)
  PROVE  /\ campaign' \in Campaigns /\ share_price' \in 0..TotalAmount
         /\ campaign'.purchased_shares = campaign.purchased_shares
         /\ campaign'.external_funded_shares = campaign.external_funded_shares
<1>1. campaign \in Campaigns /\ e.row \in Campaigns /\ share_price \in 0..TotalAmount
  BY Zenon DEF EditsInv, AdminTypeOK, TypeOK, Edits
<1>2. ASSUME NEW n \in 1..MAXIMUM_TOTAL_SHARES PROVE SharePrice(n) \in 0..TotalAmount
  BY AmountBounds, ShareBounds DEF SharePrice
<1>3. ASSUME NEW n \in ShareTotals PROVE n \in 1..MAXIMUM_TOTAL_SHARES
  BY Zenon, AmountBounds
<1>4. CASE delete_campaign(e)
  BY Zenon, <1>1, <1>4 DEF delete_campaign, SaveRow, Campaigns
<1>5. CASE e.op = "resize" /\ update_campaign(e)
  <2>1. PICK n \in ShareTotals :
          campaign' = [campaign EXCEPT !.total_shares = n] /\ share_price' = SharePrice(n)
    BY Zenon, <1>5 DEF update_campaign, SaveRow
  <2> QED
    BY Zenon, <1>1, <1>2, <1>3, <2>1 DEF Campaigns
<1>6. CASE e.op # "resize" /\ update_campaign(e)
  <2>1. campaign' = EditedRow(e) /\ share_price' = SharePrice(e.row.total_shares)
    BY Zenon, <1>6 DEF update_campaign, SaveRow
  <2>2. share_price' \in 0..TotalAmount
    BY Zenon, <1>1, <1>2, <2>1 DEF Campaigns
  <2>3. /\ EditedRow(e) \in Campaigns
        /\ EditedRow(e).purchased_shares = campaign.purchased_shares
        /\ EditedRow(e).external_funded_shares = campaign.external_funded_shares
    BY Zenon, <1>1 DEF EditedRow, Campaigns, None
  <2> QED
    BY Zenon, <2>1, <2>2, <2>3
<1> QED
  BY Zenon, <1>4, <1>5, <1>6 DEF SaveEdit

LEMMA EditsStep == EditsInv /\ [ApiNext]_adminVars => EditsInv'
<1> SUFFICES ASSUME EditsInv, [ApiNext]_adminVars PROVE EditsInv'
  BY Zenon
<1>1. ASSUME [Next]_vars, UNCHANGED <<share_price, edits>> PROVE EditsInv'
  BY Zenon, <1>1, TypeStep, CountersStep, RowsStep, LedgerStep DEF EditsInv, AdminTypeOK
<1>2. ASSUME AdminUnchanged, campaign' \in Campaigns, share_price' \in 0..TotalAmount,
             edits' \subseteq Edits,
             campaign'.purchased_shares = campaign.purchased_shares,
             campaign'.external_funded_shares = campaign.external_funded_shares
      PROVE  EditsInv'
  <2>1. UNCHANGED <<participation, share_count, payment, events, receipt, funding,
                    funding_shares, captured, requests, calls, loaded, stale, sweep, due>>
    BY Zenon, <1>2 DEF AdminUnchanged, rowVars, fundingVars, localVars
  <2>2. AdminTypeOK'
    BY Zenon, <1>2, <2>1 DEF EditsInv, AdminTypeOK, TypeOK
  <2>3. CountersExact'
    BY Zenon, <1>2, <2>1 DEF EditsInv, CountersExact
  <2>4. RowsInv' /\ LedgerExplainsPayment'
    BY Zenon, <2>1 DEF EditsInv, RowsInv, MemoryAgrees, PendingPaymentHoldsReservation,
                       SuccessIsCaptured, LedgerExplainsPayment
  <2> QED
    BY Zenon, <2>2, <2>3, <2>4 DEF EditsInv
<1>3. ASSUME NEW op \in EditOps, LoadForEdit(op) PROVE EditsInv'
  <2>1. [op |-> op, row |-> campaign, checked |-> FALSE] \in Edits
    BY Zenon DEF EditsInv, AdminTypeOK, TypeOK, Edits
  <2>2. edits' \subseteq Edits
    BY Zenon, <1>3, <2>1 DEF LoadForEdit, EditsInv, AdminTypeOK
  <2> QED
    BY Zenon, <1>2, <1>3, <2>2 DEF LoadForEdit, EditsInv, AdminTypeOK, TypeOK
<1>4. ASSUME NEW e \in edits, CheckEdit(e) PROVE EditsInv'
  <2>1. e \in Edits /\ [e EXCEPT !.checked = TRUE] \in Edits
    BY Zenon DEF EditsInv, AdminTypeOK, Edits
  <2>2. edits' \subseteq Edits
    BY Zenon, <1>4, <2>1 DEF CheckEdit, EditsInv, AdminTypeOK
  <2> QED
    BY Zenon, <1>2, <1>4, <2>2 DEF CheckEdit, EditsInv, AdminTypeOK, TypeOK
<1>5. ASSUME NEW e \in edits, SaveEdit(e) PROVE EditsInv'
  BY Zenon, <1>2, <1>5, SaveEditStep DEF SaveEdit, EditsInv, AdminTypeOK
<1> QED
  BY Zenon, <1>1, <1>3, <1>4, <1>5 DEF ApiNext, adminVars

\* The invariant holds while admins edit the campaign through the API.
THEOREM EditsInvariance == ApiSpec => []EditsInv
BY EditsInitially, EditsStep, PTL DEF ApiSpec

\* Edits that race with reservations, callbacks and sweeps stay typed.
THEOREM AdminTypeCorrect == ApiSpec => []AdminTypeOK
BY EditsInvariance, PTL DEF EditsInv

\* The PATCH and DELETE views never write a counter they have loaded
\* (update_fields of update_campaign), so the counters stay exact though
\* total_shares, the deadline and the visibility move under them.
THEOREM CountersExactUnderEdits == ApiSpec => []CountersExact
BY EditsInvariance, PTL DEF EditsInv

\* No edit parts a payment from its reservation, its capture or its ledger.
THEOREM MoneyRowsSurviveEdits ==
  ApiSpec => []( /\ PendingPaymentHoldsReservation /\ SuccessIsCaptured
                 /\ LedgerExplainsPayment )
<1>1. EditsInv => /\ PendingPaymentHoldsReservation /\ SuccessIsCaptured
                  /\ LedgerExplainsPayment
  BY Zenon DEF EditsInv, RowsInv
<1> QED
  BY <1>1, EditsInvariance, PTL

============================================================================
