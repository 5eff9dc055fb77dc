------------------------- MODULE OneTimeCodeProofs -------------------------
(* Proofs about OneTimeCode for any number of requests, rows and allowed    *)
(* attempts.                                                                *)
EXTENDS OneTimeCode, FiniteSetTheorems, WellFoundedInduction, TLAPS

-----------------------------------------------------------------------------
(* The newest row.                                                          *)

\* A non-empty set of row ids has a newest one.
LEMMA HasNewest ==
    ASSUME NEW n \in Nat, NEW S \in SUBSET (1..n), S # {}
    PROVE  \E m \in S : \A x \in S : x <= m
<1> DEFINE T == {n - x : x \in S}
           R == OpToRel(<, Nat)
<1>1. T \subseteq Nat /\ T # {}
  <2>1. \A x \in S : n - x \in Nat
    OBVIOUS
  <2>2. PICK x \in S : TRUE
    BY Zenon
  <2> QED
    BY <2>1, <2>2, Zenon
<1>2. PICK t \in T : \A u \in T : ~(<<u, t>> \in R)
  BY Zenon, <1>1, NatLessThanWellFounded, WFMin
<1>3. \A u \in T : ~(u < t)
  BY Zenon, <1>1, <1>2 DEF OpToRel
<1>4. PICK m \in S : t = n - m
  BY Zenon
<1>5. \A x \in S : ~(n - x < n - m)
  BY Zenon, <1>3, <1>4
<1> QED
  BY <1>4, <1>5

LEMMA NewestIsNewest ==
    ASSUME NEW n \in Nat, NEW S \in SUBSET (1..n), S # {}
    PROVE  Newest(S) \in S /\ \A x \in S : x <= Newest(S)
BY HasNewest, Zenon DEF Newest

-----------------------------------------------------------------------------
(* Types.                                                                   *)

RowTypes ==
    /\ created \in 0..MaxOtps /\ flushes \in 0..MaxFlushes /\ slot \in BOOLEAN
    /\ rows \subseteq 1..created /\ fresh \subseteq 1..created
    /\ committed \subseteq 1..created /\ crossed \subseteq 1..created
    /\ delivered \subseteq 1..created
    /\ is_used \in [Otps -> BOOLEAN] /\ expired \in [Otps -> BOOLEAN]
    /\ attempts \in [Otps -> Nat]

\* Where a send has a row that may still be delivered.
Holding == {"sending", "sent", "retiring"}

\* A send past its first phases works on a row that exists.
SenderTypes ==
    /\ s_pc \in [Senders -> {"idle", "reserved", "clear", "sending", "sent", "retiring", "failed"}]
    /\ s_otp \in [Senders -> 0..created] /\ s_legacy \in [Senders -> BOOLEAN]
    /\ s_retired \in [Senders -> SUBSET Otps]
    /\ \A s \in Senders : s_pc[s] \in {"sending", "sent", "retiring", "failed"} => s_otp[s] \in 1..created

\* So does a verification that has read one.
VerifierTypes ==
    /\ v_pc \in [Verifiers -> {"idle", "read", "counted"}]
    /\ v_otp \in [Verifiers -> 0..created] /\ v_attempts \in [Verifiers -> Nat]
    /\ v_right \in [Verifiers -> BOOLEAN] /\ v_flow \in [Verifiers -> Flows]
    /\ \A v \in Verifiers : v_pc[v] # "idle" => v_otp[v] \in 1..created

AnswerTypes == wrong \in [Flows -> [Otps -> Nat]] /\ accepted \in [Otps -> Nat]

OtpTypes == RowTypes /\ SenderTypes /\ VerifierTypes /\ AnswerTypes

LEMMA TypesInitially == OtpInit => OtpTypes
<1> SUFFICES ASSUME OtpInit PROVE OtpTypes
  BY Zenon
<1> USE BoundsAreNaturals DEF OtpInit
<1>1. RowTypes
  <2>1. created \in 0..MaxOtps /\ flushes \in 0..MaxFlushes
    OBVIOUS
  <2> QED
    BY Zenon, <2>1 DEF RowTypes
<1>2. SenderTypes
  BY DEF SenderTypes
<1>3. VerifierTypes
  BY DEF VerifierTypes, Flows
<1>4. AnswerTypes
  BY Zenon DEF AnswerTypes
<1> QED
  BY Zenon, <1>1, <1>2, <1>3, <1>4 DEF OtpTypes

\* One entry of a column of booleans changes.
LEMMA BooleanColumn ==
    ASSUME NEW S, NEW f \in [S -> BOOLEAN], NEW x, NEW b \in BOOLEAN
    PROVE  [f EXCEPT ![x] = b] \in [S -> BOOLEAN]
BY Zenon

LEMMA ReturnTypes ==
    ASSUME RowTypes, SenderTypes, NEW s \in Senders, Return(s), UNCHANGED created
    PROVE  SenderTypes'
<1>1. s_legacy' \in [Senders -> BOOLEAN] /\ s_retired' \in [Senders -> SUBSET Otps]
  BY Zenon, BooleanColumn DEF SenderTypes, Return
<1>2. s_otp' \in [Senders -> 0..created]
  BY BoundsAreNaturals DEF RowTypes, SenderTypes, Return
<1>3. /\ s_pc' \in [Senders -> {"idle", "reserved", "clear", "sending", "sent", "retiring", "failed"}]
      /\ \A t \in Senders : s_pc'[t] \in {"sending", "sent", "retiring", "failed"} => s_otp'[t] \in 1..created
  BY Zenon DEF SenderTypes, Return
<1> QED
  BY Zenon, <1>1, <1>2, <1>3 DEF SenderTypes

LEMMA ForgetTypes ==
    ASSUME RowTypes, VerifierTypes, NEW v \in Verifiers, Forget(v), UNCHANGED created
    PROVE  VerifierTypes'
<1>1. v_right' \in [Verifiers -> BOOLEAN]
  BY Zenon, BooleanColumn DEF VerifierTypes, Forget
<1>2. v_otp' \in [Verifiers -> 0..created] /\ v_attempts' \in [Verifiers -> Nat]
  BY BoundsAreNaturals DEF RowTypes, VerifierTypes, Forget
<1>3. /\ v_pc' \in [Verifiers -> {"idle", "read", "counted"}]
      /\ v_flow' \in [Verifiers -> Flows]
      /\ \A w \in Verifiers : v_pc'[w] # "idle" => v_otp'[w] \in 1..created
  BY Zenon DEF VerifierTypes, Forget, Flows
<1> QED
  BY Zenon, <1>1, <1>2, <1>3 DEF VerifierTypes

LEMMA TypesStep == OtpTypes /\ [OtpNext]_otpVars => OtpTypes'
<1> SUFFICES ASSUME OtpTypes, [OtpNext]_otpVars PROVE OtpTypes'
  BY Zenon
<1> USE BoundsAreNaturals DEF OtpTypes, rowVars, slotVars, senderVars, verifierVars
<1>1. ASSUME UNCHANGED <<rowVars, delivered, slotVars>> PROVE RowTypes'
  BY Zenon, <1>1 DEF RowTypes
<1>2. ASSUME UNCHANGED <<created, senderVars>> PROVE SenderTypes'
  BY Zenon, <1>2 DEF SenderTypes
<1>3. ASSUME UNCHANGED <<created, verifierVars>> PROVE VerifierTypes'
  BY Zenon, <1>3 DEF VerifierTypes
<1>4. ASSUME UNCHANGED <<wrong, accepted>> PROVE AnswerTypes'
  BY Zenon, <1>4 DEF AnswerTypes
<1>5. ASSUME NEW s \in Senders, _reserve_cooldown_slot(s) PROVE OtpTypes'
  <2>1. RowTypes' /\ SenderTypes'
    BY Zenon, <1>5 DEF _reserve_cooldown_slot, RowTypes, SenderTypes
  <2> QED
    BY Zenon, <1>3, <1>4, <1>5, <2>1 DEF _reserve_cooldown_slot
<1>6. ASSUME NEW s \in Senders, CheckCooldown(s) PROVE OtpTypes'
  <2>1. RowTypes'
    <3>1. slot' \in BOOLEAN
      BY <1>6, Zenon DEF CheckCooldown, RowTypes
    <3> QED
      BY Zenon, <1>6, <3>1 DEF CheckCooldown, RowTypes
  <2>2. SenderTypes'
    BY Zenon, <1>6 DEF CheckCooldown, SenderTypes
  <2> QED
    BY Zenon, <1>3, <1>4, <1>6, <2>1, <2>2 DEF CheckCooldown
<1>7. ASSUME NEW s \in Senders, NEW legacy \in BOOLEAN, _persist_new_otp(s, legacy)
      PROVE  OtpTypes'
  <2>1. RowTypes'
    BY <1>7 DEF _persist_new_otp, RowTypes
  <2>2. s_legacy' \in [Senders -> BOOLEAN]
    BY Zenon, <1>7, BooleanColumn DEF _persist_new_otp, SenderTypes
  <2>3. SenderTypes'
    BY <1>7, <2>2 DEF _persist_new_otp, SenderTypes, RowTypes
  <2>4. VerifierTypes'
    BY <1>7 DEF _persist_new_otp, VerifierTypes, RowTypes
  <2> QED
    BY Zenon, <1>4, <1>7, <2>1, <2>3, <2>4 DEF _persist_new_otp
<1>8. ASSUME NEW s \in Senders, ProviderSends(s) PROVE OtpTypes'
  <2>1. RowTypes' /\ SenderTypes'
    BY Zenon, <1>8 DEF ProviderSends, RowTypes, SenderTypes
  <2> QED
    BY Zenon, <1>3, <1>4, <1>8, <2>1 DEF ProviderSends
<1>9. ASSUME NEW s \in Senders, _discard_undelivered_otp(s) PROVE OtpTypes'
  <2>1. RowTypes' /\ SenderTypes'
    BY Zenon, <1>9 DEF _discard_undelivered_otp, RowTypes, SenderTypes
  <2> QED
    BY Zenon, <1>3, <1>4, <1>9, <2>1 DEF _discard_undelivered_otp
<1>10. ASSUME NEW s \in Senders, _release_cooldown_slot(s) PROVE OtpTypes'
  <2>1. RowTypes'
    BY Zenon, <1>10 DEF _release_cooldown_slot, RowTypes
  <2> QED
    BY Zenon, <1>3, <1>4, <1>10, <2>1, ReturnTypes DEF _release_cooldown_slot
<1>11. ASSUME NEW s \in Senders, DeliveryCommits(s) PROVE OtpTypes'
  <2>1. is_used' \in [Otps -> BOOLEAN]
    BY <1>11, Zenon DEF DeliveryCommits
  <2>2. RowTypes'
    BY Zenon, <1>11, <2>1 DEF DeliveryCommits, RowTypes, SenderTypes
  <2> QED
    BY Zenon, <1>3, <1>4, <1>11, <2>2, ReturnTypes DEF DeliveryCommits
<1>22. ASSUME NEW s \in Senders, _commit_otp_delivery(s) PROVE OtpTypes'
  <2>1. Live \subseteq Otps
    <3>1. 1..created \subseteq Otps
      BY DEF RowTypes, Otps
    <3> QED
      BY Zenon, <3>1 DEF RowTypes, Live
  <2>2. RowTypes'
    <3>1. crossed' \subseteq 1..created
      BY Zenon, <1>22 DEF _commit_otp_delivery, Retire, Uncommitted, RowTypes, SenderTypes
    <3> QED
      BY Zenon, <1>22, <3>1 DEF _commit_otp_delivery, Retire, RowTypes
  <2>3. SenderTypes'
    BY Zenon, <1>22, <2>1 DEF _commit_otp_delivery, Retire, SenderTypes
  <2> QED
    BY Zenon, <1>3, <1>4, <1>22, <2>2, <2>3 DEF _commit_otp_delivery, Retire
<1>12. ASSUME NEW s \in Senders, SenderDies(s) PROVE OtpTypes'
  <2>1. RowTypes'
    BY Zenon, <1>12 DEF SenderDies, RowTypes
  <2> QED
    BY Zenon, <1>3, <1>4, <1>12, <2>1, ReturnTypes DEF SenderDies
<1>13. ASSUME NEW v \in Verifiers, NEW flow \in Flows, NEW right \in BOOLEAN,
              ReadNewest(v, flow, right)
       PROVE  OtpTypes'
  <2>1. Newest(Live) \in 1..created /\ Newest(Live) \in Otps
    <3>1. Live # {} /\ Live \subseteq rows
      BY <1>13, Zenon DEF ReadNewest, Live
    <3>2. created \in Nat /\ created <= MaxOtps /\ Live \in SUBSET (1..created)
      BY <3>1 DEF RowTypes
    <3>3. Newest(Live) \in Live
      BY Zenon, <3>1, <3>2, NewestIsNewest
    <3>4. Newest(Live) \in 1..created
      BY <3>2, <3>3, Zenon
    <3> HIDE DEF OtpTypes
    <3> QED
      BY <3>2, <3>4 DEF Otps
  <2>2. v_right' \in [Verifiers -> BOOLEAN]
    BY Zenon, <1>13, BooleanColumn DEF ReadNewest, VerifierTypes
  <2>3. VerifierTypes'
    BY <1>13, <2>1, <2>2 DEF ReadNewest, VerifierTypes, RowTypes
  <2> QED
    BY Zenon, <1>1, <1>2, <1>4, <1>13, <2>3 DEF ReadNewest
<1>14. ASSUME NEW v \in Verifiers, Answer(v), is_used' \in [Otps -> BOOLEAN],
              attempts' \in [Otps -> Nat], AnswerTypes'
       PROVE  OtpTypes'
  <2>1. RowTypes'
    BY Zenon, <1>14 DEF Answer, RowTypes
  <2> QED
    BY Zenon, <1>2, <1>14, <2>1, ForgetTypes DEF Answer
<1>15. ASSUME NEW v \in Verifiers, RefuseStale(v) \/ RetireExhausted(v) PROVE OtpTypes'
  <2>1. is_used' \in [Otps -> BOOLEAN] /\ attempts' \in [Otps -> Nat]
    BY Zenon, <1>15, BooleanColumn DEF RefuseStale, RetireExhausted, RowTypes
  <2> QED
    BY Zenon, <1>4, <1>14, <1>15, <2>1 DEF RefuseStale, RetireExhausted
<1>16. ASSUME NEW v \in Verifiers, AcceptCode(v) PROVE OtpTypes'
  <2>1. is_used' \in [Otps -> BOOLEAN] /\ attempts' \in [Otps -> Nat]
    BY Zenon, <1>16, BooleanColumn DEF AcceptCode, RowTypes
  <2>2. AnswerTypes'
    BY <1>16 DEF AcceptCode, AnswerTypes
  <2> QED
    BY Zenon, <1>14, <1>16, <2>1, <2>2 DEF AcceptCode
<1>17. ASSUME NEW v \in Verifiers, VerifierDies(v) PROVE OtpTypes'
  BY Zenon, <1>4, <1>14, <1>17 DEF VerifierDies, RowTypes
<1>18. ASSUME NEW v \in Verifiers, RefuseWrong(v) PROVE OtpTypes'
  <2>1. v_otp[v] \in Otps /\ v_flow[v] \in Flows
    BY <1>18 DEF RefuseWrong, Compared, VerifierTypes, RowTypes, Otps
  <2>2. AnswerTypes'
    BY <1>18, <2>1 DEF RefuseWrong, AnswerTypes
  <2>3. attempts' \in [Otps -> Nat]
    BY <1>18, <2>1 DEF RefuseWrong, _increment_otp_attempts, RowTypes
  <2>4. RowTypes'
    BY Zenon, <1>18, <2>3 DEF RefuseWrong, RowTypes
  <2>5. VerifierTypes'
    <3>1. CASE Forget(v)
      BY Zenon, <1>18, <3>1, ForgetTypes DEF RefuseWrong
    <3>2. CASE /\ v_pc' = [v_pc EXCEPT ![v] = "counted"]
               /\ UNCHANGED <<v_otp, v_attempts, v_right, v_flow>>
      BY Zenon, <1>18, <3>2 DEF RefuseWrong, Compared, VerifierTypes
    <3> QED
      BY Zenon, <1>18, <3>1, <3>2 DEF RefuseWrong
  <2> QED
    BY Zenon, <1>2, <1>18, <2>2, <2>4, <2>5 DEF RefuseWrong
<1>19. ASSUME NEW o \in Otps, CooldownPasses(o) \/ LifetimePasses(o) PROVE OtpTypes'
  <2>1. expired' \in [Otps -> BOOLEAN]
    BY Zenon, <1>19, BooleanColumn DEF CooldownPasses, LifetimePasses, RowTypes
  <2>2. RowTypes'
    BY Zenon, <1>19, <2>1 DEF CooldownPasses, LifetimePasses, RowTypes
  <2> QED
    BY Zenon, <1>2, <1>3, <1>4, <1>19, <2>2 DEF CooldownPasses, LifetimePasses
<1>20. CASE SlotExpires \/ CacheFlush
  <2>1. slot' = FALSE /\ flushes' \in 0..MaxFlushes
    BY <1>20 DEF SlotExpires, CacheFlush, RowTypes
  <2>2. RowTypes'
    BY Zenon, <1>20, <2>1 DEF SlotExpires, CacheFlush, RowTypes
  <2> QED
    BY Zenon, <1>2, <1>3, <1>4, <1>20, <2>2 DEF SlotExpires, CacheFlush
<1>21. CASE UNCHANGED otpVars
  BY Zenon, <1>1, <1>2, <1>3, <1>4, <1>21 DEF otpVars
<1> HIDE DEF OtpTypes
<1> QED
  BY Zenon, <1>5, <1>6, <1>7, <1>8, <1>9, <1>10, <1>11, <1>12, <1>13, <1>15, <1>16, <1>17, <1>18,
     <1>19, <1>20, <1>21, <1>22
  DEF OtpNext, generate_and_send_otp, verify_otp

\* Every column, key and local variable keeps its type, and every request past
\* its first read holds a row that was created (otp.py).
THEOREM OtpTypeCorrect == OtpSpec => []OtpTypeOK
<1>1. OtpTypes => OtpTypeOK
  BY Zenon DEF OtpTypes, RowTypes, SenderTypes, VerifierTypes, AnswerTypes, OtpTypeOK
<1> QED
  BY <1>1, TypesInitially, TypesStep, PTL DEF OtpSpec

-----------------------------------------------------------------------------
(* Using a code.                                                            *)

\* What a step does to the uses: none is taken back, and at most one is
\* granted, to a row that was unused and is used from now on.
Uses ==
    /\ \A o \in Otps : is_used[o] => is_used'[o]
    /\ \/ UNCHANGED accepted
       \/ \E o \in Otps : /\ ~is_used[o] /\ is_used'[o]
                          /\ accepted' = [accepted EXCEPT ![o] = @ + 1]

LEMMA StepUses == OtpTypes /\ [OtpNext]_otpVars => Uses
<1> SUFFICES ASSUME OtpTypes, [OtpNext]_otpVars PROVE Uses
  BY Zenon
<1> USE DEF rowVars, slotVars, senderVars, verifierVars
<1>1. ASSUME UNCHANGED <<is_used, accepted>> PROVE Uses
  BY Zenon, <1>1 DEF Uses
<1>2. ASSUME NEW o \in Otps, is_used' = [is_used EXCEPT ![o] = TRUE], UNCHANGED accepted
      PROVE  Uses
  BY Zenon, <1>2 DEF Uses, OtpTypes, RowTypes
<1>3. ASSUME NEW s \in Senders, generate_and_send_otp(s) PROVE Uses
  <2>1. CASE DeliveryCommits(s)
    BY <2>1, Zenon DEF DeliveryCommits, Uses
  <2> QED
    BY Zenon, <1>1, <1>3, <2>1
    DEF generate_and_send_otp, _reserve_cooldown_slot, CheckCooldown, _persist_new_otp,
        ProviderSends, _discard_undelivered_otp, _release_cooldown_slot, _commit_otp_delivery,
        Retire, SenderDies
<1>4. ASSUME NEW v \in Verifiers, verify_otp(v) PROVE Uses
  <2>1. v_pc[v] # "idle" => v_otp[v] \in Otps
    BY BoundsAreNaturals DEF OtpTypes, RowTypes, VerifierTypes, Otps
  <2>2. CASE RefuseStale(v) \/ RetireExhausted(v)
    BY Zenon, <1>1, <1>2, <2>1, <2>2 DEF RefuseStale, RetireExhausted
  <2>3. CASE AcceptCode(v)
    <3>1. v_otp[v] \in Otps
      BY Zenon, <2>1, <2>3 DEF AcceptCode, Compared
    <3>2. CASE UNCHANGED <<is_used, accepted>>
      BY Zenon, <1>1, <3>2
    <3>3. CASE /\ v_otp[v] \in Live
               /\ is_used' = [is_used EXCEPT ![v_otp[v]] = TRUE]
               /\ accepted' = [accepted EXCEPT ![v_otp[v]] = @ + 1]
      <4>1. ~is_used[v_otp[v]]
        BY <3>3, Zenon DEF Live
      <4>2. is_used'[v_otp[v]] /\ \A o \in Otps : is_used[o] => is_used'[o]
        BY Zenon, <3>1, <3>3 DEF OtpTypes, RowTypes
      <4> QED
        BY <3>1, <3>3, <4>1, <4>2, Zenon DEF Uses
    <3> QED
      BY Zenon, <2>3, <3>2, <3>3 DEF AcceptCode, _mark_otp_used
  <2> QED
    BY Zenon, <1>1, <1>4, <2>2, <2>3
    DEF verify_otp, ReadNewest, RefuseWrong, VerifierDies
<1>5. CASE \/ \E o \in Otps : CooldownPasses(o) \/ LifetimePasses(o)
           \/ SlotExpires \/ CacheFlush \/ UNCHANGED otpVars
  BY Zenon, <1>1, <1>5 DEF CooldownPasses, LifetimePasses, SlotExpires, CacheFlush, otpVars
<1> QED
  BY Zenon, <1>3, <1>4, <1>5 DEF OtpNext

\* A code that was accepted is used.
AcceptedIsUsed ==
    \A o \in Otps : accepted[o] = 0 \/ (accepted[o] = 1 /\ is_used[o])

LEMMA AcceptedStep ==
    OtpTypes /\ AcceptedIsUsed /\ [OtpNext]_otpVars => AcceptedIsUsed'
<1> SUFFICES ASSUME OtpTypes, AcceptedIsUsed, [OtpNext]_otpVars PROVE AcceptedIsUsed'
  BY Zenon
<1>1. Uses
  BY Zenon, StepUses
<1>2. CASE UNCHANGED accepted
  BY <1>1, <1>2, Zenon DEF Uses, AcceptedIsUsed
<1>3. ASSUME NEW o \in Otps, ~is_used[o], is_used'[o],
             accepted' = [accepted EXCEPT ![o] = @ + 1]
      PROVE  AcceptedIsUsed'
  <2>1. accepted[o] = 0 /\ accepted \in [Otps -> Nat]
    BY Zenon, <1>3 DEF AcceptedIsUsed, OtpTypes, AnswerTypes
  <2>2. \A p \in Otps : accepted'[p] = IF p = o THEN 1 ELSE accepted[p]
    BY <1>3, <2>1
  <2> QED
    BY <1>1, <1>3, <2>2, Zenon DEF Uses, AcceptedIsUsed
<1> QED
  BY Zenon, <1>1, <1>2, <1>3 DEF Uses

\* A code is accepted at most once, for any number of verifications that run
\* together (otp.py, _mark_otp_used).
THEOREM CodesUsedOnce == OtpSpec => []CodeUsedOnce
<1>1. OtpInit => AcceptedIsUsed
  BY Zenon DEF OtpInit, AcceptedIsUsed
<1>2. AcceptedIsUsed => CodeUsedOnce
  BY DEF AcceptedIsUsed, CodeUsedOnce
<1> QED
  BY <1>1, <1>2, TypesInitially, TypesStep, AcceptedStep, PTL DEF OtpSpec

-----------------------------------------------------------------------------
(* One code in force.                                                       *)

\* A send has its row to itself, and another sees it unless the caller is legacy.
RowsAreOwned ==
    /\ \A s, t \in Senders : s_pc[s] \in Holding /\ s_pc[t] \in Holding /\ s_otp[s] = s_otp[t] => s = t
    /\ \A s \in Senders : s_pc[s] \in Holding /\ ~s_legacy[s] => s_otp[s] \in rows

LEMMA OwnedStep == OtpTypes /\ RowsAreOwned /\ [OtpNext]_otpVars => RowsAreOwned'
<1> SUFFICES ASSUME OtpTypes, RowsAreOwned, [OtpNext]_otpVars PROVE RowsAreOwned'
  BY Zenon
<1> USE DEF rowVars, slotVars, senderVars, verifierVars
<1>1. ASSUME UNCHANGED senderVars, rows \subseteq rows' PROVE RowsAreOwned'
  BY Zenon, <1>1 DEF RowsAreOwned
<1>2. ASSUME NEW s \in Senders, UNCHANGED <<s_otp, s_legacy>>, rows \subseteq rows',
             NEW pc, s_pc' = [s_pc EXCEPT ![s] = pc], pc \in Holding => s_pc[s] \in Holding
      PROVE  RowsAreOwned'
  <2>1. \A t \in Senders : s_pc'[t] \in Holding => s_pc[t] \in Holding
    BY Zenon, <1>2 DEF OtpTypes, SenderTypes
  <2> QED
    BY Zenon, <1>2, <2>1 DEF RowsAreOwned
<1>3. ASSUME NEW s \in Senders, Return(s), rows \subseteq rows' PROVE RowsAreOwned'
  <2>1. \A t \in Senders : s_pc'[t] \in Holding =>
           t # s /\ s_pc[t] \in Holding /\ s_otp'[t] = s_otp[t] /\ s_legacy'[t] = s_legacy[t]
    BY Zenon, <1>3 DEF Return, Holding, OtpTypes, SenderTypes
  <2> QED
    BY Zenon, <1>3, <2>1 DEF RowsAreOwned
<1>4. ASSUME NEW s \in Senders, NEW legacy \in BOOLEAN, _persist_new_otp(s, legacy) PROVE RowsAreOwned'
  <2>1. \A t \in Senders : t # s => /\ s_pc'[t] = s_pc[t] /\ s_otp'[t] = s_otp[t]
                                   /\ s_legacy'[t] = s_legacy[t]
    BY Zenon, <1>4 DEF _persist_new_otp, OtpTypes, SenderTypes
  <2>2. s_otp'[s] = created + 1 /\ s_legacy'[s] = legacy
    BY Zenon, <1>4 DEF _persist_new_otp, OtpTypes, SenderTypes
  <2>3. \A t \in Senders : s_otp[t] # created + 1
    BY BoundsAreNaturals DEF OtpTypes, SenderTypes, RowTypes
  <2>4. rows \subseteq rows' /\ (~legacy => created + 1 \in rows')
    BY <1>4 DEF _persist_new_otp
  <2>5. \A t \in Senders : s_pc'[t] \in Holding /\ ~s_legacy'[t] => s_otp'[t] \in rows'
    BY Zenon, <2>1, <2>2, <2>4 DEF RowsAreOwned
  <2>6. \A t \in Senders : t # s => s_otp'[t] # s_otp'[s]
    BY Zenon, <2>1, <2>2, <2>3
  <2> QED
    BY Zenon, <2>1, <2>5, <2>6 DEF RowsAreOwned
<1>5. ASSUME NEW s \in Senders, _discard_undelivered_otp(s) PROVE RowsAreOwned'
  <2>1. \A t \in Senders : s_pc'[t] \in Holding => t # s /\ s_pc[t] \in Holding
    BY Zenon, <1>5 DEF _discard_undelivered_otp, Holding, OtpTypes, SenderTypes
  <2>2. s_pc[s] \in Holding
    BY Zenon, <1>5 DEF _discard_undelivered_otp, Holding
  <2> QED
    BY Zenon, <1>5, <2>1, <2>2 DEF _discard_undelivered_otp, RowsAreOwned
<1>6. ASSUME NEW s \in Senders, generate_and_send_otp(s) PROVE RowsAreOwned'
  <2>1. CASE _reserve_cooldown_slot(s) \/ CheckCooldown(s)
    BY Zenon, <1>2, <2>1 DEF _reserve_cooldown_slot, CheckCooldown, Holding
  <2>2. CASE ProviderSends(s) \/ _commit_otp_delivery(s)
    BY Zenon, <1>2, <2>2 DEF ProviderSends, _commit_otp_delivery, Retire, Holding
  <2>3. CASE _release_cooldown_slot(s) \/ DeliveryCommits(s) \/ SenderDies(s)
    BY Zenon, <1>3, <2>3 DEF _release_cooldown_slot, DeliveryCommits, SenderDies
  <2> QED
    BY Zenon, <1>4, <1>5, <1>6, <2>1, <2>2, <2>3 DEF generate_and_send_otp
<1>7. CASE \/ \E v \in Verifiers : verify_otp(v)
           \/ \E o \in Otps : CooldownPasses(o) \/ LifetimePasses(o)
           \/ SlotExpires \/ CacheFlush \/ UNCHANGED otpVars
  <2>1. UNCHANGED <<senderVars, rows>>
    BY Zenon, <1>7 DEF verify_otp, ReadNewest, RefuseStale, RefuseWrong, RetireExhausted, AcceptCode,
                VerifierDies, Answer, CooldownPasses, LifetimePasses, SlotExpires, CacheFlush, otpVars
  <2> QED
    BY Zenon, <1>1, <2>1
<1> QED
  BY Zenon, <1>6, <1>7 DEF OtpNext

\* Codes that are used, or whose transaction was crossed.
Settled == {o \in Otps : is_used[o] \/ o \in crossed}

\* A send that has retired rows missed no committed row, and of two such sends one
\* retires the row of the other.
MissedNone ==
    /\ \A s \in Senders : s_pc[s] = "retiring" =>
          \A o \in committed \cap rows : \/ o = s_otp[s] \/ o \in s_retired[s]
                                       \/ o \in Settled \/ s_otp[s] \in Settled
    /\ \A s, t \in Senders : s_pc[s] = "retiring" /\ s_pc[t] = "retiring" /\ s # t =>
          \/ s_otp[s] \in s_retired[t] \/ s_otp[t] \in s_retired[s]
          \/ s_otp[s] \in Settled \/ s_otp[t] \in Settled

AtMostOne == \A o, p \in committed \cap rows : o = p \/ o \in Settled \/ p \in Settled

InForce == AtMostOne /\ MissedNone

LEMMA InForceStep ==
    OtpTypes /\ RowsAreOwned /\ InForce /\ [OtpNext]_otpVars => InForce'
<1> SUFFICES ASSUME OtpTypes, RowsAreOwned, InForce, [OtpNext]_otpVars PROVE InForce'
  BY Zenon
<1> USE DEF rowVars, slotVars, senderVars, verifierVars
<1>t. /\ rows \subseteq Otps /\ committed \subseteq Otps
      /\ \A s \in Senders : s_pc[s] \in Holding => s_otp[s] \in Otps
  BY BoundsAreNaturals DEF OtpTypes, RowTypes, SenderTypes, Holding, Otps
<1>h. \A s \in Senders : s_pc[s] = "retiring" => s_otp[s] \in Otps
  BY Zenon, <1>t DEF Holding
<1>u. ASSUME crossed \subseteq crossed' PROVE Settled \subseteq Settled'
  BY <1>u, StepUses, Zenon DEF Uses, Settled
<1>m. /\ \A s \in Senders : s_pc[s] = "retiring" =>
            \A o \in committed \cap rows : \/ o = s_otp[s] \/ o \in s_retired[s]
                                         \/ o \in Settled \/ s_otp[s] \in Settled
      /\ \A s, t \in Senders : s_pc[s] = "retiring" /\ s_pc[t] = "retiring" /\ s # t =>
            \/ s_otp[s] \in s_retired[t] \/ s_otp[t] \in s_retired[s]
            \/ s_otp[s] \in Settled \/ s_otp[t] \in Settled
  BY Zenon DEF InForce, MissedNone
\* Steps that commit nothing and retire nothing.
<1>1. ASSUME UNCHANGED <<committed, crossed>>, committed \cap rows' \subseteq rows,
             \A s \in Senders : s_pc'[s] = "retiring" =>
                 s_pc[s] = "retiring" /\ s_otp'[s] = s_otp[s] /\ s_retired'[s] = s_retired[s]
      PROVE  InForce'
  <2>1. Settled \subseteq Settled'
    BY Zenon, <1>1, <1>u
  <2>2. AtMostOne'
    BY Zenon, <1>1, <2>1 DEF InForce, AtMostOne
  <2>3. MissedNone'
    BY Zenon, <1>1, <1>m, <2>1 DEF MissedNone
  <2> QED
    BY Zenon, <2>2, <2>3 DEF InForce
<1>2. ASSUME NEW s \in Senders, _commit_otp_delivery(s) PROVE InForce'
  <2>1. Settled \subseteq Settled'
    BY Zenon, <1>2, <1>u DEF _commit_otp_delivery, Retire
  <2>2. UNCHANGED <<rows, committed, is_used, s_otp, s_legacy>>
    BY Zenon, <1>2 DEF _commit_otp_delivery, Retire
  <2>3. /\ s_retired'[s] = Live \ {s_otp[s]}
        /\ \A t \in Senders : t # s => s_pc'[t] = s_pc[t] /\ s_retired'[t] = s_retired[t]
    BY Zenon, <1>2 DEF _commit_otp_delivery, Retire, OtpTypes, SenderTypes
  <2>4. \A t \in Senders : s_pc[t] = "retiring" /\ s_legacy[t] => s_otp[t] \in crossed'
    BY Zenon, <1>2 DEF _commit_otp_delivery, Retire, Uncommitted
  <2>5. \A o \in rows : o = s_otp[s] \/ o \in s_retired'[s] \/ o \in Settled'
    BY <1>t, <2>2, <2>3, Zenon DEF Live, Settled
  <2>6. AtMostOne'
    BY Zenon, <2>1, <2>2 DEF InForce, AtMostOne
  <2>7. ASSUME NEW t \in Senders, t # s, s_pc[t] = "retiring"
        PROVE  s_otp[t] \in s_retired'[s] \/ s_otp[t] \in Settled'
    <3>1. s_otp[t] # s_otp[s]
      BY Zenon, <1>2, <2>7 DEF RowsAreOwned, Holding, _commit_otp_delivery, Retire
    <3>2. CASE s_legacy[t]
      BY <1>h, <2>4, <2>7, <3>2, Zenon DEF Settled
    <3>3. CASE ~s_legacy[t]
      <4>1. s_otp[t] \in rows
        BY Zenon, <2>7, <3>3 DEF RowsAreOwned, Holding
      <4> QED
        BY Zenon, <2>5, <3>1, <4>1
    <3> QED
      BY Zenon, <3>2, <3>3
  <2>8. ASSUME NEW r \in Senders, s_pc'[r] = "retiring", NEW o \in committed \cap rows
        PROVE  \/ o = s_otp[r] \/ o \in s_retired'[r] \/ o \in Settled' \/ s_otp[r] \in Settled'
    <3>1. CASE r = s
      BY Zenon, <2>5, <3>1
    <3>2. CASE r # s
      BY Zenon, <1>m, <2>1, <2>3, <2>8, <3>2
    <3> QED
      BY Zenon, <3>1, <3>2
  <2>9. ASSUME NEW r \in Senders, NEW t \in Senders, r # t, s_pc'[r] = "retiring", s_pc'[t] = "retiring"
        PROVE  \/ s_otp[r] \in s_retired'[t] \/ s_otp[t] \in s_retired'[r]
               \/ s_otp[r] \in Settled' \/ s_otp[t] \in Settled'
    <3>1. CASE r = s
      BY Zenon, <2>3, <2>7, <2>9, <3>1
    <3>2. CASE t = s
      BY Zenon, <2>3, <2>7, <2>9, <3>2
    <3>3. CASE r # s /\ t # s
      BY Zenon, <1>m, <2>1, <2>3, <2>9, <3>3
    <3> QED
      BY Zenon, <3>1, <3>2, <3>3
  <2>10. MissedNone'
    BY Zenon, <2>2, <2>8, <2>9 DEF MissedNone
  <2> QED
    BY Zenon, <2>6, <2>10 DEF InForce
<1>3. ASSUME NEW s \in Senders, DeliveryCommits(s) PROVE InForce'
  <2>1. Settled \subseteq Settled'
    BY Zenon, <1>3, <1>u DEF DeliveryCommits
  <2>2. \A o \in s_retired[s] : o \in Settled'
    <3>1. s_retired[s] \subseteq Otps
      BY Zenon DEF OtpTypes, SenderTypes
    <3> QED
      BY <1>3, <3>1, Zenon DEF DeliveryCommits, Settled
  <2>3. /\ s_pc[s] = "retiring" /\ committed' \cap rows' \subseteq (committed \cap rows) \cup {s_otp[s]}
        /\ \A t \in Senders : s_pc'[t] = "retiring" =>
              t # s /\ s_pc[t] = "retiring" /\ s_otp'[t] = s_otp[t] /\ s_retired'[t] = s_retired[t]
    <3>1. \A o \in committed : o \in rows \/ o \notin rows' \/ o = s_otp[s]
      BY Zenon, <1>3 DEF DeliveryCommits
    <3> QED
      BY Zenon, <1>3, <3>1 DEF DeliveryCommits, Return, OtpTypes, SenderTypes
  <2>4. \A o \in committed \cap rows : o = s_otp[s] \/ o \in Settled' \/ s_otp[s] \in Settled'
    BY Zenon, <1>m, <2>1, <2>2, <2>3
  <2>5. AtMostOne'
    BY Zenon, <2>1, <2>3, <2>4 DEF InForce, AtMostOne
  <2>6. ASSUME NEW r \in Senders, s_pc'[r] = "retiring", NEW o \in committed' \cap rows'
        PROVE  \/ o = s_otp'[r] \/ o \in s_retired'[r] \/ o \in Settled' \/ s_otp'[r] \in Settled'
    <3>1. r # s /\ s_pc[r] = "retiring" /\ s_otp'[r] = s_otp[r] /\ s_retired'[r] = s_retired[r]
      BY Zenon, <2>3, <2>6
    <3>2. CASE o = s_otp[s]
      BY Zenon, <1>m, <2>1, <2>2, <2>3, <3>1, <3>2
    <3>3. CASE o \in committed \cap rows
      BY Zenon, <1>m, <2>1, <3>1, <3>3
    <3> QED
      BY Zenon, <2>3, <3>2, <3>3
  <2>7. ASSUME NEW r \in Senders, NEW t \in Senders, r # t, s_pc'[r] = "retiring", s_pc'[t] = "retiring"
        PROVE  \/ s_otp'[r] \in s_retired'[t] \/ s_otp'[t] \in s_retired'[r]
               \/ s_otp'[r] \in Settled' \/ s_otp'[t] \in Settled'
    BY Zenon, <1>m, <2>1, <2>3, <2>7
  <2>8. MissedNone'
    BY Zenon, <2>6, <2>7 DEF MissedNone
  <2> QED
    BY Zenon, <2>5, <2>8 DEF InForce
<1>4. ASSUME NEW s \in Senders, NEW legacy \in BOOLEAN, _persist_new_otp(s, legacy) PROVE InForce'
  <2>1. committed \cap rows' \subseteq rows
    <3>1. created + 1 \notin committed
      BY BoundsAreNaturals DEF OtpTypes, RowTypes
    <3> QED
      BY Zenon, <1>4, <3>1 DEF _persist_new_otp
  <2>2. \A t \in Senders : s_pc'[t] = "retiring" => t # s /\ s_pc[t] = "retiring"
    BY Zenon, <1>4 DEF _persist_new_otp, OtpTypes, SenderTypes
  <2> QED
    BY Zenon, <1>1, <1>4, <2>1, <2>2 DEF _persist_new_otp, OtpTypes, SenderTypes
<1>5. ASSUME NEW s \in Senders, \/ _reserve_cooldown_slot(s) \/ CheckCooldown(s) \/ ProviderSends(s)
                               \/ _discard_undelivered_otp(s) \/ _release_cooldown_slot(s) \/ SenderDies(s)
      PROVE  InForce'
  <2>1. UNCHANGED <<committed, crossed>> /\ rows' \subseteq rows
    BY Zenon, <1>5 DEF _reserve_cooldown_slot, CheckCooldown, ProviderSends,
                _discard_undelivered_otp, _release_cooldown_slot, SenderDies
  <2>2. \A t \in Senders : s_pc'[t] = "retiring" =>
           s_pc[t] = "retiring" /\ s_otp'[t] = s_otp[t] /\ s_retired'[t] = s_retired[t]
    <3>1. CASE Return(s)
      BY Zenon, <3>1 DEF Return, OtpTypes, SenderTypes
    <3>2. CASE ~Return(s)
      BY Zenon, <1>5, <3>2 DEF _reserve_cooldown_slot, CheckCooldown, ProviderSends,
                        _discard_undelivered_otp, _release_cooldown_slot, SenderDies, OtpTypes,
                        SenderTypes
    <3> QED
      BY Zenon, <3>1, <3>2
  <2> QED
    BY Zenon, <1>1, <2>1, <2>2
<1>6. CASE \/ \E v \in Verifiers : verify_otp(v)
           \/ \E o \in Otps : CooldownPasses(o) \/ LifetimePasses(o)
           \/ SlotExpires \/ CacheFlush \/ UNCHANGED otpVars
  <2>1. UNCHANGED <<committed, crossed, rows, senderVars>>
    BY Zenon, <1>6 DEF verify_otp, ReadNewest, RefuseStale, RefuseWrong, RetireExhausted, AcceptCode,
                VerifierDies, Answer, CooldownPasses, LifetimePasses, SlotExpires, CacheFlush, otpVars
  <2> QED
    BY Zenon, <1>1, <2>1
<1> QED
  BY Zenon, <1>2, <1>3, <1>4, <1>5, <1>6 DEF OtpNext, generate_and_send_otp

LEMMA InForceMeans == AtMostOne => OneCodeInForce
<1> SUFFICES ASSUME AtMostOne, NEW o \in committed \cap Live, NEW p \in committed \cap Live
             PROVE  o = p \/ o \in crossed \/ p \in crossed
  BY Zenon DEF OneCodeInForce
<1>1. \A q \in Live : q \in rows /\ (q \in Settled => q \in crossed)
  BY Zenon DEF Live, Settled
<1> QED
  BY Zenon, <1>1 DEF AtMostOne

\* Of the codes whose delivery was committed at most one is unused, however many
\* sends overlap, unless a send retired its rows while a legacy caller's transaction
\* was open past its own UPDATE (otp.py, _commit_otp_delivery).
THEOREM OneCodeAlwaysInForce == OtpSpec => []OneCodeInForce
<1>1. OtpInit => RowsAreOwned /\ InForce
  BY Zenon DEF OtpInit, RowsAreOwned, Holding, InForce, AtMostOne, MissedNone
<1>2. InForce => OneCodeInForce
  BY InForceMeans, Zenon DEF InForce
<1> QED
  BY <1>1, <1>2, TypesInitially, TypesStep, OwnedStep, InForceStep, PTL DEF OtpSpec

-----------------------------------------------------------------------------
(* The spacing of sends.                                                    *)

\* A send under way holds the slot, alone.
SlotHeld ==
    /\ \A s \in Senders : s_pc[s] # "idle" => slot
    /\ \A s, t \in Senders : s_pc[s] # "idle" /\ s_pc[t] # "idle" => s = t

\* The rows in their cooldown that are unused: the newest row or none, and none
\* once a send has seen its way clear.
Pending == {o \in fresh : ~is_used[o]}
PendingIsNewest ==
    /\ \A o \in Pending : o = created
    /\ \A s \in Senders : s_pc[s] = "clear" => Pending = {}

\* A row in its cooldown is visible or still in the hands of its sender; it has
\* not expired, and neither has a row that does not exist yet.
Unexpired == {o \in Otps : ~expired[o]}
FreshIsThere ==
    /\ \A o \in fresh : \/ o \in rows
                        \/ \E s \in Senders : s_pc[s] \in Holding /\ s_otp[s] = o
    /\ \A s \in Senders : s_pc[s] \in Holding /\ s_otp[s] \notin rows => s_legacy[s]
    /\ fresh \subseteq Unexpired
    /\ \A o \in Otps : o > created => o \in Unexpired

Spaced == flushes = 0 => SlotHeld /\ PendingIsNewest /\ FreshIsThere

LEMMA SpacedStep == OtpTypes /\ Spaced /\ [OtpNext]_otpVars => Spaced'
<1> SUFFICES ASSUME OtpTypes, Spaced, [OtpNext]_otpVars, flushes' = 0
             PROVE  SlotHeld' /\ PendingIsNewest' /\ FreshIsThere'
  BY Zenon DEF Spaced
<1> USE DEF rowVars, slotVars, senderVars, verifierVars, Holding
<1>u. Uses
  BY Zenon, StepUses
<1>t. /\ created \in Nat /\ created <= MaxOtps
      /\ rows \subseteq 1..created /\ fresh \subseteq 1..created
      /\ 1..created \subseteq Otps /\ rows \subseteq Otps /\ fresh \subseteq Otps
  BY BoundsAreNaturals DEF OtpTypes, RowTypes, Otps
<1>s. /\ s_pc \in [Senders -> {"idle", "reserved", "clear", "sending", "sent", "retiring", "failed"}]
      /\ s_otp \in [Senders -> 0..created] /\ s_legacy \in [Senders -> BOOLEAN]
      /\ \A s \in Senders : s_pc[s] \in {"sending", "sent", "retiring", "failed"} => s_otp[s] \in 1..created
  BY Zenon DEF OtpTypes, SenderTypes
<1>f. CASE CacheFlush
  BY <1>f, BoundsAreNaturals DEF CacheFlush, OtpTypes, RowTypes
<1> SUFFICES ASSUME ~CacheFlush PROVE SlotHeld' /\ PendingIsNewest' /\ FreshIsThere'
  BY Zenon, <1>f
<1>i. SlotHeld /\ PendingIsNewest /\ FreshIsThere
  <2>1. flushes' = flushes
    BY Zenon DEF OtpNext, otpVars, generate_and_send_otp, _reserve_cooldown_slot, CheckCooldown,
           _persist_new_otp, ProviderSends, _discard_undelivered_otp, _release_cooldown_slot,
           _commit_otp_delivery, Retire, DeliveryCommits, SenderDies, verify_otp, ReadNewest, RefuseStale, RefuseWrong,
           RetireExhausted, AcceptCode, VerifierDies, Answer, CooldownPasses, LifetimePasses,
           SlotExpires
  <2> QED
    BY Zenon, <2>1 DEF Spaced
<1>p. ASSUME fresh' \subseteq fresh PROVE Pending' \subseteq Pending
  BY <1>p, <1>u, <1>t, Zenon DEF Uses, Pending
<1>1. ASSUME UNCHANGED <<created, rows, expired, fresh, slot, senderVars>>
      PROVE  SlotHeld' /\ PendingIsNewest' /\ FreshIsThere'
  <2>1. Pending' \subseteq Pending
    BY Zenon, <1>1, <1>p
  <2>2. Unexpired' = Unexpired
    BY Zenon, <1>1 DEF Unexpired
  <2> QED
    BY Zenon, <1>1, <1>i, <2>1, <2>2 DEF SlotHeld, PendingIsNewest, FreshIsThere
<1>2. ASSUME NEW s \in Senders, _reserve_cooldown_slot(s)
      PROVE  SlotHeld' /\ PendingIsNewest' /\ FreshIsThere'
  <2>1. Pending' \subseteq Pending /\ Unexpired' = Unexpired
    BY Zenon, <1>2, <1>p DEF _reserve_cooldown_slot, Unexpired
  <2>2. \A t \in Senders : s_pc[t] = "idle"
    BY Zenon, <1>2, <1>i DEF _reserve_cooldown_slot, SlotHeld
  <2>3. \A t \in Senders : s_pc'[t] = IF t = s THEN "reserved" ELSE "idle"
    BY Zenon, <1>2, <1>s, <2>2 DEF _reserve_cooldown_slot
  <2>4. SlotHeld'
    BY Zenon, <1>2, <2>3 DEF _reserve_cooldown_slot, SlotHeld
  <2> QED
    BY <1>2, <1>i, <2>1, <2>2, <2>3, <2>4
    DEF _reserve_cooldown_slot, PendingIsNewest, FreshIsThere
\* The newest active row is the pending one, if there is one.
<1>3. ASSUME NEW s \in Senders, CheckCooldown(s)
      PROVE  SlotHeld' /\ PendingIsNewest' /\ FreshIsThere'
  <2> DEFINE cooling == Active # {} /\ Newest(Active) \in fresh
  <2>1. Pending' \subseteq Pending /\ Unexpired' = Unexpired
    BY Zenon, <1>3, <1>p DEF CheckCooldown, Unexpired
  <2>2. \A t \in Senders : t # s => s_pc[t] = "idle"
    BY Zenon, <1>3, <1>i DEF CheckCooldown, SlotHeld
  <2>3. ASSUME ~cooling PROVE Pending = {}
    <3> SUFFICES ASSUME NEW o \in Pending PROVE FALSE
      BY Zenon
    <3>1. o = created /\ o \in fresh /\ o \in Unexpired /\ ~is_used[o]
      BY <1>i, Zenon DEF PendingIsNewest, FreshIsThere, Pending
    <3>2. o \in rows
      BY Zenon, <1>3, <1>i, <2>2, <3>1 DEF CheckCooldown, FreshIsThere
    <3>3. o \in Active
      BY <3>1, <3>2, Zenon DEF Active, Live, Unexpired
    <3>4. Active \in SUBSET (1..created)
      BY <1>t, Zenon DEF Active, Live
    <3>5. Newest(Active) \in Active /\ o <= Newest(Active)
      BY Zenon, <1>t, <3>3, <3>4, NewestIsNewest
    <3>6. Newest(Active) = o
      <4>1. Newest(Active) \in 1..created
        BY <3>4, <3>5, Zenon
      <4>2. ASSUME NEW n \in 1..created, created <= n PROVE n = created
        BY <1>t, <4>2
      <4> QED
        BY <3>1, <3>5, <4>1, <4>2, Zenon
    <3> QED
      BY Zenon, <2>3, <3>1, <3>3, <3>6
  <2>4. \A t \in Senders : s_pc'[t] = IF t = s THEN (IF cooling THEN "idle" ELSE "clear") ELSE "idle"
    BY Zenon, <1>3, <1>s, <2>2 DEF CheckCooldown
  <2>5. SlotHeld'
    <3>1. ~cooling => slot'
      BY <1>3, <1>i, Zenon DEF CheckCooldown, SlotHeld
    <3> HIDE DEF cooling
    <3> QED
      BY Zenon, <2>4, <3>1 DEF SlotHeld
  <2> HIDE DEF cooling
  <2>6. PendingIsNewest'
    BY <1>3, <1>i, <2>1, <2>3, <2>4 DEF CheckCooldown, PendingIsNewest
  <2>7. FreshIsThere'
    BY <1>3, <1>i, <2>1, <2>2, <2>4 DEF CheckCooldown, FreshIsThere
  <2> QED
    BY Zenon, <2>5, <2>6, <2>7
<1>4. ASSUME NEW s \in Senders, NEW legacy \in BOOLEAN, _persist_new_otp(s, legacy)
      PROVE  SlotHeld' /\ PendingIsNewest' /\ FreshIsThere'
  <2>1. Pending = {} /\ Unexpired' = Unexpired
    BY Zenon, <1>4, <1>i DEF _persist_new_otp, PendingIsNewest, Unexpired
  <2>2. Pending' \subseteq {created + 1}
    BY <1>4, <2>1, Zenon DEF _persist_new_otp, Pending
  <2>3. \A t \in Senders : t # s => s_pc[t] = "idle"
    BY Zenon, <1>4, <1>i DEF _persist_new_otp, SlotHeld
  <2>4. \A t \in Senders : s_pc'[t] = IF t = s THEN "sending" ELSE "idle"
    BY Zenon, <1>4, <1>s, <2>3 DEF _persist_new_otp
  <2>5. SlotHeld'
    BY Zenon, <1>4, <1>i, <2>4 DEF _persist_new_otp, SlotHeld
  <2>6. PendingIsNewest'
    BY <1>4, <2>2, <2>4 DEF _persist_new_otp, PendingIsNewest
  <2>7. s_otp'[s] = created + 1 /\ s_legacy'[s] = legacy /\ created + 1 \in Otps
    BY <1>4, <1>s, <1>t, BoundsAreNaturals DEF _persist_new_otp, Otps
  <2>8. fresh' \subseteq Unexpired /\ \A o \in Otps : o > created' => o \in Unexpired
    BY <1>4, <1>i, <1>t, <2>7, BoundsAreNaturals DEF _persist_new_otp, FreshIsThere, Otps
  <2>9. \A o \in fresh' : o \in rows' \/ (s_pc'[s] \in Holding /\ s_otp'[s] = o)
    BY Zenon, <1>4, <1>i, <2>3, <2>4, <2>7 DEF _persist_new_otp, FreshIsThere
  <2>10. ~legacy => s_otp'[s] \in rows'
    BY <1>4, <2>7 DEF _persist_new_otp
  <2> QED
    BY Zenon, <2>1, <2>4, <2>5, <2>6, <2>7, <2>8, <2>9, <2>10 DEF FreshIsThere
<1>5. ASSUME NEW s \in Senders, ProviderSends(s)
      PROVE  SlotHeld' /\ PendingIsNewest' /\ FreshIsThere'
  <2>1. Pending' \subseteq Pending /\ Unexpired' = Unexpired
    BY Zenon, <1>5, <1>p DEF ProviderSends, Unexpired
  <2>2. \A t \in Senders : s_pc'[t] = IF t = s THEN "sent" ELSE s_pc[t]
    BY Zenon, <1>5, <1>s DEF ProviderSends
  <2> QED
    BY <1>5, <1>i, <2>1, <2>2 DEF ProviderSends, SlotHeld, PendingIsNewest, FreshIsThere
<1>6. ASSUME NEW s \in Senders, _discard_undelivered_otp(s)
      PROVE  SlotHeld' /\ PendingIsNewest' /\ FreshIsThere'
  <2>1. Pending' \subseteq Pending /\ Unexpired' = Unexpired
    BY Zenon, <1>6, <1>p DEF _discard_undelivered_otp, Unexpired
  <2>2. \A t \in Senders : s_pc'[t] = IF t = s THEN "failed" ELSE "idle"
    BY Zenon, <1>6, <1>s, <1>i DEF _discard_undelivered_otp, SlotHeld
  <2>3. \A o \in fresh : o \in rows \/ o = s_otp[s]
    BY <1>6, <1>i DEF _discard_undelivered_otp, FreshIsThere, SlotHeld
  <2>4. SlotHeld'
    BY Zenon, <1>6, <1>i, <2>2 DEF _discard_undelivered_otp, SlotHeld
  <2>5. PendingIsNewest'
    BY <1>6, <1>i, <2>1, <2>2 DEF _discard_undelivered_otp, PendingIsNewest
  <2> QED
    BY <1>6, <1>i, <2>1, <2>2, <2>3, <2>4, <2>5 DEF _discard_undelivered_otp, FreshIsThere
<1>7. ASSUME NEW s \in Senders, s_pc[s] # "idle", Return(s), UNCHANGED <<created, expired>>,
             fresh' \subseteq fresh, fresh' \subseteq rows', rows \subseteq rows'
      PROVE  SlotHeld' /\ PendingIsNewest' /\ FreshIsThere'
  <2>1. Pending' \subseteq Pending /\ Unexpired' = Unexpired
    BY Zenon, <1>7, <1>p DEF Unexpired
  <2>2. \A t \in Senders : s_pc'[t] = "idle"
    BY Zenon, <1>7, <1>s, <1>i DEF Return, SlotHeld
  <2> QED
    BY Zenon, <1>7, <1>i, <2>1, <2>2 DEF SlotHeld, PendingIsNewest, FreshIsThere
<1>8. ASSUME NEW s \in Senders, _release_cooldown_slot(s)
      PROVE  SlotHeld' /\ PendingIsNewest' /\ FreshIsThere'
  <2>1. fresh \subseteq rows
    BY Zenon, <1>8, <1>i DEF _release_cooldown_slot, FreshIsThere, SlotHeld
  <2> QED
    BY Zenon, <1>7, <1>8, <2>1 DEF _release_cooldown_slot
<1>9. ASSUME NEW s \in Senders, DeliveryCommits(s)
      PROVE  SlotHeld' /\ PendingIsNewest' /\ FreshIsThere'
  <2>1. fresh \subseteq rows \cup {s_otp[s]}
    BY Zenon, <1>9, <1>i DEF DeliveryCommits, FreshIsThere, SlotHeld, Holding
  <2> QED
    BY Zenon, <1>7, <1>9, <2>1 DEF DeliveryCommits
<1>16. ASSUME NEW s \in Senders, _commit_otp_delivery(s)
       PROVE  SlotHeld' /\ PendingIsNewest' /\ FreshIsThere'
  <2>1. Pending' \subseteq Pending /\ Unexpired' = Unexpired
    BY Zenon, <1>16, <1>p DEF _commit_otp_delivery, Retire, Unexpired
  <2>2. \A t \in Senders : s_pc'[t] = IF t = s THEN "retiring" ELSE s_pc[t]
    BY Zenon, <1>16, <1>s DEF _commit_otp_delivery, Retire
  <2> QED
    BY <1>16, <1>i, <2>1, <2>2
    DEF _commit_otp_delivery, Retire, SlotHeld, PendingIsNewest, FreshIsThere, Holding
<1>10. ASSUME NEW s \in Senders, SenderDies(s)
       PROVE  SlotHeld' /\ PendingIsNewest' /\ FreshIsThere'
  <2>1. \A o \in fresh : o \in rows \/ (s_pc[s] \in Holding /\ s_otp[s] = o)
    BY <1>10, <1>i DEF SenderDies, FreshIsThere, SlotHeld
  <2>2. fresh' \subseteq rows
    <3>1. CASE s_legacy[s]
      BY Zenon, <1>10, <2>1, <3>1 DEF SenderDies
    <3>2. CASE ~s_legacy[s]
      BY <1>10, <1>i, <2>1, <3>2 DEF SenderDies, FreshIsThere
    <3> QED
      BY Zenon, <3>1, <3>2
  <2> QED
    BY Zenon, <1>7, <1>10, <2>2 DEF SenderDies
<1>11. ASSUME NEW v \in Verifiers, verify_otp(v)
       PROVE  SlotHeld' /\ PendingIsNewest' /\ FreshIsThere'
  BY Zenon, <1>1, <1>11 DEF verify_otp, ReadNewest, RefuseStale, RefuseWrong, RetireExhausted,
                     AcceptCode, VerifierDies, Answer
<1>12. ASSUME NEW o \in Otps, CooldownPasses(o)
       PROVE  SlotHeld' /\ PendingIsNewest' /\ FreshIsThere'
  <2>1. Pending' \subseteq Pending /\ Unexpired' = Unexpired
    BY Zenon, <1>12, <1>p DEF CooldownPasses, Unexpired
  <2> QED
    BY Zenon, <1>12, <1>i, <2>1 DEF CooldownPasses, SlotHeld, PendingIsNewest, FreshIsThere
<1>13. ASSUME NEW o \in Otps, LifetimePasses(o)
       PROVE  SlotHeld' /\ PendingIsNewest' /\ FreshIsThere'
  <2>1. Pending' \subseteq Pending
    BY Zenon, <1>13, <1>p DEF LifetimePasses
  <2>2. Unexpired \subseteq Unexpired' \cup {o} /\ o \in 1..created /\ o \notin fresh
    <3>1. \A q \in Otps : q # o => expired'[q] = expired[q]
      BY Zenon, <1>13 DEF LifetimePasses, OtpTypes, RowTypes
    <3>2. Unexpired \subseteq Unexpired' \cup {o}
      BY <3>1, Zenon DEF Unexpired
    <3> QED
      BY Zenon, <1>13, <1>t, <3>2 DEF LifetimePasses
  <2>3. fresh \subseteq Unexpired' /\ \A q \in Otps : q > created => q \in Unexpired'
    BY <1>i, <1>t, <2>2 DEF FreshIsThere, Otps
  <2> QED
    BY <1>13, <1>i, <2>1, <2>3 DEF LifetimePasses, SlotHeld, PendingIsNewest, FreshIsThere
<1>14. CASE SlotExpires
  <2>1. Pending' \subseteq Pending /\ Unexpired' = Unexpired
    BY Zenon, <1>14, <1>p DEF SlotExpires, Unexpired
  <2> QED
    BY Zenon, <1>14, <1>i, <2>1
    DEF SlotExpires, NoSendUnderWay, SlotHeld, PendingIsNewest, FreshIsThere
<1>15. CASE UNCHANGED otpVars
  BY <1>1, <1>15 DEF otpVars
<1> QED
  BY Zenon, <1>2, <1>3, <1>4, <1>5, <1>6, <1>8, <1>9, <1>10, <1>11, <1>12, <1>13, <1>14, <1>15,
     <1>16
  DEF OtpNext, generate_and_send_otp

\* While the cache keeps its keys, two codes in their cooldown are never both
\* unused, for any number of senders and rows (otp.py, _reserve_cooldown_slot
\* and the second check of generate_and_send_otp).
THEOREM SendsAlwaysSpaced == OtpSpec => []SendsAreSpaced
<1>1. OtpInit => Spaced
  BY DEF OtpInit, Spaced, SlotHeld, PendingIsNewest, FreshIsThere, Pending, Unexpired,
         Holding
<1>2. Spaced => SendsAreSpaced
  BY Zenon DEF Spaced, SendsAreSpaced, PendingIsNewest, Pending
<1> QED
  BY <1>1, <1>2, TypesInitially, TypesStep, SpacedStep, PTL DEF OtpSpec

-----------------------------------------------------------------------------
(* Counting refusals.                                                       *)

\* The verifications that have read row o in time and may still count.
MayCount(o) ==
    {v \in Verifiers : v_pc[v] = "read" /\ v_otp[v] = o /\ v_attempts[v] < AUTH_OTP_MAX_ATTEMPTS}

\* A count uses up a verification that read the row in time, and once the limit
\* is reached no other one does.
Counted(o) ==
    /\ attempts[o] = wrong["plain"][o]
    /\ attempts[o] + Cardinality(MayCount(o)) < AUTH_OTP_MAX_ATTEMPTS + Cardinality(Verifiers)

LEMMA MayCountFinite ==
    ASSUME NEW S \in SUBSET Verifiers
    PROVE  IsFiniteSet(S) /\ Cardinality(S) \in Nat /\ Cardinality(S) <= Cardinality(Verifiers)
           /\ Cardinality(Verifiers) \in Nat
BY Zenon, RequestsAreFinite, FS_Subset, FS_CardinalityType

\* Fewer verifications under way leave the bound as it is.
LEMMA FewerMayCount ==
    ASSUME OtpTypes, NEW o \in Otps, Counted(o), attempts'[o] = attempts[o],
           wrong'["plain"][o] = wrong["plain"][o], MayCount(o)' \subseteq MayCount(o)
    PROVE  Counted(o)'
<1>1. /\ IsFiniteSet(MayCount(o)) /\ Cardinality(MayCount(o)) \in Nat
      /\ Cardinality(MayCount(o)') \in Nat /\ Cardinality(Verifiers) \in Nat
  BY Zenon, MayCountFinite DEF MayCount
<1>2. Cardinality(MayCount(o)') <= Cardinality(MayCount(o))
  BY Zenon, <1>1, FS_Subset
<1>3. attempts[o] \in Nat
  BY Zenon DEF OtpTypes, RowTypes
<1> QED
  BY <1>1, <1>2, <1>3, BoundsAreNaturals DEF Counted

LEMMA CountedStep ==
    ASSUME OtpTypes, [OtpNext]_otpVars, NEW o \in Otps, Counted(o)
    PROVE  Counted(o)'
<1> USE DEF rowVars, slotVars, senderVars, verifierVars
<1>1. ASSUME UNCHANGED <<attempts, wrong, verifierVars>> PROVE Counted(o)'
  BY Zenon, <1>1, FewerMayCount DEF MayCount
<1>2. ASSUME NEW v \in Verifiers, Forget(v) PROVE MayCount(o)' \subseteq MayCount(o) \ {v}
  BY Zenon, <1>2 DEF Forget, MayCount, OtpTypes, VerifierTypes
<1>3. ASSUME NEW v \in Verifiers, Answer(v), UNCHANGED <<attempts, wrong>> PROVE Counted(o)'
  BY Zenon, <1>2, <1>3, FewerMayCount DEF Answer
<1>4. ASSUME NEW v \in Verifiers, NEW flow \in Flows, NEW right \in BOOLEAN,
             ReadNewest(v, flow, right)
      PROVE  Counted(o)'
  <2>1. /\ UNCHANGED <<attempts, wrong>>
        /\ \A w \in Verifiers : w # v =>
             v_pc'[w] = v_pc[w] /\ v_otp'[w] = v_otp[w] /\ v_attempts'[w] = v_attempts[w]
        /\ v_pc'[v] = "read" /\ v_attempts'[v] = attempts[v_otp'[v]]
    BY Zenon, <1>4 DEF ReadNewest, OtpTypes, VerifierTypes
  <2>2. CASE attempts[o] < AUTH_OTP_MAX_ATTEMPTS
    <3>1. Cardinality(MayCount(o)') \in Nat /\ Cardinality(Verifiers) \in Nat
          /\ Cardinality(MayCount(o)') <= Cardinality(Verifiers)
      BY Zenon, MayCountFinite DEF MayCount
    <3>2. attempts[o] \in Nat
      BY Zenon DEF OtpTypes, RowTypes
    <3>3. attempts'[o] = attempts[o] /\ wrong'["plain"][o] = wrong["plain"][o]
      BY Zenon, <2>1
    <3>4. attempts'[o] + Cardinality(MayCount(o)') < AUTH_OTP_MAX_ATTEMPTS + Cardinality(Verifiers)
      BY ONLY <2>2, <3>1, <3>2, <3>3, BoundsAreNaturals
    <3> QED
      BY Zenon, <3>3, <3>4 DEF Counted
  <2>3. CASE ~(attempts[o] < AUTH_OTP_MAX_ATTEMPTS)
    <3>1. MayCount(o)' \subseteq MayCount(o)
      BY Zenon, <2>1, <2>3 DEF MayCount
    <3> QED
      BY Zenon, <2>1, <3>1, FewerMayCount
  <2> QED
    BY Zenon, <2>2, <2>3
<1>5. ASSUME NEW v \in Verifiers, RefuseWrong(v) PROVE Counted(o)'
  <2>1. /\ v_pc[v] = "read" /\ v_attempts[v] < AUTH_OTP_MAX_ATTEMPTS
        /\ v_otp[v] \in Otps /\ v_flow[v] \in Flows
    BY <1>5, BoundsAreNaturals
    DEF RefuseWrong, Compared, OtpTypes, VerifierTypes, RowTypes, Otps
  <2>2. MayCount(o)' \subseteq MayCount(o) \ {v}
    <3>1. CASE Forget(v)
      BY Zenon, <1>2, <3>1
    <3>2. CASE /\ v_pc' = [v_pc EXCEPT ![v] = "counted"]
               /\ UNCHANGED <<v_otp, v_attempts, v_right, v_flow>>
      BY Zenon, <3>2 DEF MayCount, OtpTypes, VerifierTypes
    <3> QED
      BY Zenon, <1>5, <3>1, <3>2 DEF RefuseWrong
  <2>3. CASE v_otp[v] \in Live /\ v_flow[v] = "plain" /\ v_otp[v] = o
    <3>1. /\ attempts' = [attempts EXCEPT ![o] = @ + 1]
          /\ wrong' = [wrong EXCEPT !["plain"][o] = @ + 1]
      BY Zenon, <1>5, <2>3 DEF RefuseWrong, _increment_otp_attempts
    <3>2. /\ attempts'[o] = attempts[o] + 1 /\ attempts[o] \in Nat
          /\ wrong'["plain"][o] = wrong["plain"][o] + 1
      BY Zenon, <3>1 DEF OtpTypes, RowTypes, AnswerTypes, Flows
    <3>3. v \in MayCount(o)
      BY Zenon, <2>1, <2>3 DEF MayCount
    <3>4. /\ IsFiniteSet(MayCount(o)) /\ IsFiniteSet(MayCount(o) \ {v})
          /\ Cardinality(MayCount(o)) \in Nat /\ Cardinality(MayCount(o)') \in Nat
          /\ Cardinality(Verifiers) \in Nat
      BY Zenon, MayCountFinite DEF MayCount
    <3>5. Cardinality(MayCount(o) \ {v}) = Cardinality(MayCount(o)) - 1
      BY Zenon, <3>3, <3>4, FS_RemoveElement
    <3>6. Cardinality(MayCount(o)') <= Cardinality(MayCount(o) \ {v})
      BY Zenon, <2>2, <3>4, FS_Subset
    <3>7. /\ attempts[o] = wrong["plain"][o]
          /\ attempts[o] + Cardinality(MayCount(o)) < AUTH_OTP_MAX_ATTEMPTS + Cardinality(Verifiers)
      BY Zenon DEF Counted
    <3>8. attempts'[o] + Cardinality(MayCount(o)') < AUTH_OTP_MAX_ATTEMPTS + Cardinality(Verifiers)
      BY ONLY <3>2, <3>4, <3>5, <3>6, <3>7, BoundsAreNaturals
    <3> QED
      BY Zenon, <3>2, <3>7, <3>8 DEF Counted
  <2>4. CASE ~(v_otp[v] \in Live /\ v_flow[v] = "plain" /\ v_otp[v] = o)
    <3>1. attempts'[o] = attempts[o] /\ wrong'["plain"][o] = wrong["plain"][o]
      BY Zenon, <1>5, <2>1, <2>4
      DEF RefuseWrong, _increment_otp_attempts, OtpTypes, RowTypes, AnswerTypes, Flows
    <3> QED
      BY Zenon, <2>2, <3>1, FewerMayCount
  <2> QED
    BY Zenon, <2>3, <2>4
<1>6. ASSUME NEW s \in Senders, generate_and_send_otp(s) PROVE Counted(o)'
  BY Zenon, <1>1, <1>6
  DEF generate_and_send_otp, _reserve_cooldown_slot, CheckCooldown, _persist_new_otp,
      ProviderSends, _discard_undelivered_otp, _release_cooldown_slot, _commit_otp_delivery,
      Retire, DeliveryCommits, SenderDies
<1>7. ASSUME NEW v \in Verifiers, verify_otp(v) PROVE Counted(o)'
  BY Zenon, <1>3, <1>4, <1>5, <1>7
  DEF verify_otp, RefuseStale, RetireExhausted, AcceptCode, VerifierDies
<1>8. CASE \/ \E p \in Otps : CooldownPasses(p) \/ LifetimePasses(p)
           \/ SlotExpires \/ CacheFlush \/ UNCHANGED otpVars
  BY Zenon, <1>1, <1>8 DEF CooldownPasses, LifetimePasses, SlotExpires, CacheFlush, otpVars
<1> QED
  BY Zenon, <1>6, <1>7, <1>8 DEF OtpNext

\* No refusal outside a surrounding transaction is lost, and those that race
\* past the limit are fewer than the verifications there are (otp.py,
\* _increment_otp_attempts and the limit check of verify_otp).
THEOREM AttemptsAlwaysCounted == OtpSpec => []AttemptsCounted
<1> DEFINE AllCounted == \A o \in Otps : Counted(o)
<1>1. OtpInit => AllCounted
  <2> SUFFICES ASSUME OtpInit, NEW o \in Otps PROVE Counted(o)
    BY Zenon
  <2>1. MayCount(o) = {}
    BY Zenon DEF OtpInit, MayCount
  <2>2. Cardinality(MayCount(o)) = 0 /\ Cardinality(Verifiers) \in Nat
    BY Zenon, <2>1, FS_EmptySet, MayCountFinite
  <2> QED
    BY <2>2, BoundsAreNaturals DEF OtpInit, Counted, Flows
<1>2. OtpTypes /\ AllCounted /\ [OtpNext]_otpVars => AllCounted'
  BY Zenon, CountedStep
<1>3. OtpTypes /\ AllCounted => AttemptsCounted
  <2> SUFFICES ASSUME OtpTypes, NEW o \in Otps, Counted(o)
               PROVE  /\ attempts[o] = wrong["plain"][o]
                      /\ attempts[o] < AUTH_OTP_MAX_ATTEMPTS + Cardinality(Verifiers)
    BY Zenon DEF AttemptsCounted
  <2>1. /\ Cardinality(MayCount(o)) \in Nat /\ Cardinality(Verifiers) \in Nat
        /\ attempts[o] \in Nat
    BY Zenon, MayCountFinite DEF MayCount, OtpTypes, RowTypes
  <2> QED
    BY <2>1, BoundsAreNaturals DEF Counted
<1> HIDE DEF AllCounted
<1> QED
  BY <1>1, <1>2, <1>3, TypesInitially, TypesStep, PTL DEF OtpSpec
=============================================================================
