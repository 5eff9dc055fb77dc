----------------------------- MODULE LmsProofs ------------------------------
(* Proofs about the course: LmsLearning for any lessons, allowance and      *)
(* number of requests that start attempts together; LmsDiscussion for any   *)
(* users, answers and number of requests.                                   *)
EXTENDS LmsLearning, LmsDiscussion, TLAPS

-----------------------------------------------------------------------------
(* The attempts as a sequence of rows.                                      *)

\* A row is saved: the others, and their number, stay.
LEMMA SaveRow ==
    ASSUME NEW rows \in Seq(QuizAttempt), NEW n, NEW r,
           n \in DOMAIN rows => r \in QuizAttempt
    PROVE  LET saved == [rows EXCEPT ![n] = r] IN
           /\ saved \in Seq(QuizAttempt) /\ Len(saved) = Len(rows)
           /\ DOMAIN saved = DOMAIN rows
           /\ \A m \in DOMAIN rows : saved[m] = IF m = n THEN r ELSE rows[m]
<1> DEFINE saved == [rows EXCEPT ![n] = r]
<1>1. /\ DOMAIN saved = 1..Len(rows) /\ Len(rows) \in Nat
      /\ \A m \in 1..Len(rows) : saved[m] = IF m = n THEN r ELSE rows[m]
  OBVIOUS
<1>2. saved \in [1..Len(rows) -> QuizAttempt]
  <2>1. saved = [m \in 1..Len(rows) |-> IF m = n THEN r ELSE rows[m]]
    OBVIOUS
  <2>2. \A m \in 1..Len(rows) : (IF m = n THEN r ELSE rows[m]) \in QuizAttempt
    OBVIOUS
  <2> HIDE DEF saved
  <2> QED
    BY <2>1, <2>2, Zenon
<1>3. saved \in Seq(QuizAttempt) /\ Len(saved) = Len(rows)
  BY <1>1, <1>2
<1> QED
  BY Zenon, <1>1, <1>3

\* What is saved in a row is a row, and only a pass touches is_passed.
LEMMA RowUpdates ==
    ASSUME NEW q \in QuizAttempt
    PROVE  /\ LET r == [q EXCEPT !.status = "expired"] IN
              r \in QuizAttempt /\ r.is_passed = q.is_passed
           /\ LET r == [q EXCEPT !.overdue = TRUE] IN
              r \in QuizAttempt /\ r.is_passed = q.is_passed
           /\ LET r == [q EXCEPT !.recent = FALSE] IN
              r \in QuizAttempt /\ r.is_passed = q.is_passed
           /\ LET r == [q EXCEPT !.status = "failed", !.recent = TRUE] IN
              r \in QuizAttempt /\ r.is_passed = q.is_passed
           /\ LET r == [q EXCEPT !.status = "passed", !.is_passed = TRUE] IN
              r \in QuizAttempt /\ r.is_passed
BY Zenon DEF QuizAttempt

LEMMA NewRow == NewAttempt \in QuizAttempt /\ ~NewAttempt.is_passed
BY Zenon DEF QuizAttempt, NewAttempt

Passed(rows) == {n \in DOMAIN rows : rows[n].is_passed}

LEMMA SaveKeepsPasses ==
    ASSUME NEW rows \in Seq(QuizAttempt), NEW n, NEW r,
           n \in DOMAIN rows => r \in QuizAttempt /\ r.is_passed = rows[n].is_passed
    PROVE  Passed([rows EXCEPT ![n] = r]) = Passed(rows)
<1> DEFINE saved == [rows EXCEPT ![n] = r]
<1>1. DOMAIN saved = DOMAIN rows
  BY Zenon
<1>2. \A m \in DOMAIN rows : saved[m].is_passed = rows[m].is_passed
  BY Zenon
<1> HIDE DEF saved
<1>3. Passed(saved) = Passed(rows)
  BY <1>1, <1>2, Zenon DEF Passed
<1> QED
  BY Zenon, <1>3 DEF saved

\* What a step does to the rows: the first n rows stay the first n, at most one
\* is added, and only a passing submission adds a pass.
RowsChange ==
    /\ attempts' \in Seq(QuizAttempt)
    /\ Passed(attempts) \subseteq Passed(attempts')
    /\ Passed(attempts') = Passed(attempts) \/ \E n \in DOMAIN attempts : SubmitPasses(n)
    /\ \/ Len(attempts') = Len(attempts)
       \/ \E s \in Starters : /\ s_pc[s] = "numbered" /\ s_number[s] > Len(attempts)
                              /\ Len(attempts') = Len(attempts) + 1

LEMMA StepRows ==
    ASSUME attempts \in Seq(QuizAttempt), [LmsNext]_lmsVars
    PROVE  RowsChange
<1> USE DEF lessonVars, progressVars, enrollmentVars, awardVars, unlockVars, startVars
<1>1. ASSUME UNCHANGED attempts PROVE RowsChange
  BY Zenon, <1>1 DEF RowsChange
<1>2. ASSUME NEW n, NEW r, attempts' = [attempts EXCEPT ![n] = r],
             n \in DOMAIN attempts => r \in QuizAttempt /\ r.is_passed = attempts[n].is_passed
      PROVE  RowsChange
  <2>1. Passed(attempts') = Passed(attempts)
    BY Zenon, <1>2, SaveKeepsPasses
  <2>2. attempts' \in Seq(QuizAttempt) /\ Len(attempts') = Len(attempts)
    BY Zenon, <1>2, SaveRow
  <2> QED
    BY Zenon, <2>1, <2>2 DEF RowsChange
<1>3. ASSUME NEW s \in Starters, CloseOverdue(s) PROVE RowsChange
  <2> DEFINE r == [attempts[s_attempt[s]] EXCEPT !.status = "expired"]
  <2>1. attempts' = [attempts EXCEPT ![s_attempt[s]] = r]
    BY Zenon, <1>3 DEF CloseOverdue
  <2>2. s_attempt[s] \in DOMAIN attempts => r \in QuizAttempt /\ r.is_passed = attempts[s_attempt[s]].is_passed
    <3>1. s_attempt[s] \in DOMAIN attempts => attempts[s_attempt[s]] \in QuizAttempt
      OBVIOUS
    <3> QED
      BY Zenon, <3>1, RowUpdates
  <2> HIDE DEF r
  <2> QED
    BY Zenon, <1>2, <2>1, <2>2
<1>4. ASSUME NEW s \in Starters, CreateAttempt(s) PROVE RowsChange
  <2>1. CASE attempts' = Append(attempts, NewAttempt) /\ s_number[s] > Len(attempts)
    <3>1. /\ attempts' \in Seq(QuizAttempt) /\ Len(attempts') = Len(attempts) + 1
          /\ DOMAIN attempts' = DOMAIN attempts \cup {Len(attempts) + 1}
          /\ \A m \in DOMAIN attempts : attempts'[m] = attempts[m]
          /\ attempts'[Len(attempts) + 1] = NewAttempt
      BY <2>1, NewRow
    <3>2. Passed(attempts') = Passed(attempts)
      BY <3>1, NewRow, Zenon DEF Passed
    <3> QED
      BY Zenon, <1>4, <2>1, <3>1, <3>2 DEF CreateAttempt, RowsChange
  <2> QED
    BY Zenon, <1>1, <1>4, <2>1 DEF CreateAttempt
<1>5. ASSUME NEW s \in Starters, start_quiz_attempt(s) PROVE RowsChange
  BY Zenon, <1>1, <1>3, <1>4, <1>5 DEF start_quiz_attempt, ReadLiveAttempt, CheckReady, TakeNumber
<1>6. ASSUME NEW n \in DOMAIN attempts,
             TimeLimitPasses(n) \/ RetakeDelayPasses(n) \/ SubmitFails(n)
      PROVE  RowsChange
  <2>1. CASE TimeLimitPasses(n)
    <3> DEFINE r == [attempts[n] EXCEPT !.overdue = TRUE]
    <3>1. attempts' = [attempts EXCEPT ![n] = r]
      BY Zenon, <2>1 DEF TimeLimitPasses
    <3>2. n \in DOMAIN attempts => r \in QuizAttempt /\ r.is_passed = attempts[n].is_passed
      <4>1. n \in DOMAIN attempts => attempts[n] \in QuizAttempt
        OBVIOUS
      <4> QED
        BY Zenon, <4>1, RowUpdates
    <3> HIDE DEF r
    <3> QED
      BY Zenon, <1>2, <3>1, <3>2
  <2>2. CASE RetakeDelayPasses(n)
    <3> DEFINE r == [attempts[n] EXCEPT !.recent = FALSE]
    <3>1. attempts' = [attempts EXCEPT ![n] = r]
      BY Zenon, <2>2 DEF RetakeDelayPasses
    <3>2. n \in DOMAIN attempts => r \in QuizAttempt /\ r.is_passed = attempts[n].is_passed
      <4>1. n \in DOMAIN attempts => attempts[n] \in QuizAttempt
        OBVIOUS
      <4> QED
        BY Zenon, <4>1, RowUpdates
    <3> HIDE DEF r
    <3> QED
      BY Zenon, <1>2, <3>1, <3>2
  <2>3. CASE SubmitFails(n)
    <3> DEFINE r == [attempts[n] EXCEPT !.status = "failed", !.recent = TRUE]
    <3>1. attempts' = [attempts EXCEPT ![n] = r]
      BY Zenon, <2>3 DEF SubmitFails
    <3>2. n \in DOMAIN attempts => r \in QuizAttempt /\ r.is_passed = attempts[n].is_passed
      <4>1. n \in DOMAIN attempts => attempts[n] \in QuizAttempt
        OBVIOUS
      <4> QED
        BY Zenon, <4>1, RowUpdates
    <3> HIDE DEF r
    <3> QED
      BY Zenon, <1>2, <3>1, <3>2
  <2> QED
    BY Zenon, <1>6, <2>1, <2>2, <2>3
<1>7. ASSUME NEW n \in DOMAIN attempts, SubmitPasses(n) PROVE RowsChange
  <2> DEFINE r == [attempts[n] EXCEPT !.status = "passed", !.is_passed = TRUE]
  <2>1. attempts' = [attempts EXCEPT ![n] = r] /\ r \in QuizAttempt /\ r.is_passed
    <3>1. attempts[n] \in QuizAttempt
      OBVIOUS
    <3>2. r \in QuizAttempt /\ r.is_passed
      BY Zenon, <3>1, RowUpdates
    <3>3. attempts' = [attempts EXCEPT ![n] = r]
      BY Zenon, <1>7 DEF SubmitPasses
    <3> QED
      BY Zenon, <3>2, <3>3
  <2> HIDE DEF r
  <2>2. /\ attempts' \in Seq(QuizAttempt) /\ Len(attempts') = Len(attempts)
        /\ DOMAIN attempts' = DOMAIN attempts
        /\ \A m \in DOMAIN attempts : attempts'[m] = IF m = n THEN r ELSE attempts[m]
    BY Zenon, <2>1, SaveRow
  <2>3. Passed(attempts) \subseteq Passed(attempts')
    BY <2>1, <2>2, Zenon DEF Passed
  <2> QED
    BY Zenon, <1>7, <2>2, <2>3 DEF RowsChange
<1>8. CASE \/ enroll_user_in_course \/ revoke_certificate \/ unlock_quiz_for_user \/ UnlockLapses
           \/ \E l \in Lessons :
                \/ SwitchLesson(l) \/ _stamp_media_opened(l)
                \/ \E seconds \in 0..duration_seconds, mark, open \in BOOLEAN :
                     update_lesson_progress(l, seconds, mark, open)
           \/ UNCHANGED lmsVars
  BY Zenon, <1>1, <1>8
  DEF enroll_user_in_course, revoke_certificate, unlock_quiz_for_user, UnlockLapses,
                    SwitchLesson, _stamp_media_opened, update_lesson_progress, lmsVars
<1> QED
  BY Zenon, <1>5, <1>6, <1>7, <1>8 DEF LmsNext, submit_quiz_attempt

-----------------------------------------------------------------------------
(* The allowance.                                                           *)

\* A number that a request has taken, and has yet to use, is within the
\* allowance too.
Allowed ==
    /\ attempts \in Seq(QuizAttempt)
    /\ s_pc \in [Starters -> {"idle", "closing", "checking", "ready", "numbered"}]
    /\ s_number \in [Starters -> Nat]
    /\ unlocks \in Nat /\ granted \in Nat /\ unlocks <= granted
    /\ Len(attempts) <= max_attempts + granted
    /\ \A s \in Starters : s_pc[s] = "numbered" => s_number[s] <= max_attempts + granted

LEMMA AllowedInitially == LmsInit => Allowed
<1> SUFFICES ASSUME LmsInit PROVE Allowed
  BY Zenon
<1>1. attempts \in Seq(QuizAttempt) /\ Len(attempts) = 0
  BY DEF LmsInit
<1> QED
  BY <1>1, LmsAssumption DEF LmsInit, Allowed

LEMMA AllowedStep == Allowed /\ [LmsNext]_lmsVars => Allowed'
<1> SUFFICES ASSUME Allowed, [LmsNext]_lmsVars PROVE Allowed'
  BY Zenon
<1> USE LmsAssumption DEF lessonVars, progressVars, enrollmentVars, awardVars, unlockVars, startVars
<1>1. RowsChange
  BY Zenon, StepRows DEF Allowed
<1>2. /\ attempts' \in Seq(QuizAttempt) /\ Len(attempts') \in Nat /\ Len(attempts) \in Nat
      /\ Len(attempts') <= max_attempts + granted
  <2>1. attempts' \in Seq(QuizAttempt) /\ Len(attempts') \in Nat /\ Len(attempts) \in Nat
    BY <1>1 DEF RowsChange, Allowed
  <2>2. CASE Len(attempts') = Len(attempts)
    BY Zenon, <2>1, <2>2 DEF Allowed
  <2>3. ASSUME NEW s \in Starters, s_pc[s] = "numbered", s_number[s] > Len(attempts),
               Len(attempts') = Len(attempts) + 1
        PROVE  Len(attempts') <= max_attempts + granted
    BY <2>1, <2>3 DEF Allowed
  <2> QED
    BY Zenon, <1>1, <2>1, <2>2, <2>3 DEF RowsChange
<1>3. ASSUME UNCHANGED <<s_pc, s_number, unlockVars>> PROVE Allowed'
  BY Zenon, <1>2, <1>3 DEF Allowed
<1>4. ASSUME NEW s \in Starters, start_quiz_attempt(s) PROVE Allowed'
  <2>1. UNCHANGED unlockVars
    BY Zenon, <1>4 DEF start_quiz_attempt, ReadLiveAttempt, CloseOverdue, CheckReady, TakeNumber,
                CreateAttempt, OnlyAttempts
  <2>t. /\ s_pc \in [Starters -> {"idle", "closing", "checking", "ready", "numbered"}]
        /\ s_number \in [Starters -> Nat]
    BY Zenon DEF Allowed
  <2>2. ASSUME NEW pc \in {"idle", "closing", "checking", "ready"},
               s_pc' = [s_pc EXCEPT ![s] = pc],
               s_number' = s_number \/ s_number' = [s_number EXCEPT ![s] = 0]
        PROVE  Allowed'
    <3>1. /\ s_pc' \in [Starters -> {"idle", "closing", "checking", "ready", "numbered"}]
          /\ s_number' \in [Starters -> Nat]
      BY <2>2, <2>t
    <3>2. \A t \in Starters : s_pc'[t] = "numbered" =>
             s_pc[t] = "numbered" /\ s_number'[t] = s_number[t]
      BY Zenon, <2>2, <2>t
    <3> QED
      BY Zenon, <1>2, <2>1, <3>1, <3>2 DEF Allowed
  <2>3. CASE ReadLiveAttempt(s) \/ CloseOverdue(s)
    BY Zenon, <2>2, <2>3 DEF ReadLiveAttempt, CloseOverdue
  <2>4. CASE CheckReady(s) \/ CreateAttempt(s)
    BY Zenon, <2>2, <2>4 DEF CheckReady, CreateAttempt, EndStart
  <2>5. CASE TakeNumber(s)
    <3>1. CASE EndStart(s)
      BY Zenon, <2>2, <3>1 DEF EndStart
    <3>2. CASE /\ s_pc' = [s_pc EXCEPT ![s] = "numbered"]
               /\ s_number' = [s_number EXCEPT ![s] = Len(attempts) + 1]
               /\ ~(Len(attempts) + 1 > max_attempts + unlocks)
      <4>1. /\ s_pc' \in [Starters -> {"idle", "closing", "checking", "ready", "numbered"}]
            /\ s_number' \in [Starters -> Nat]
        BY <1>2, <2>t, <3>2
      <4>2. \A t \in Starters : s_pc'[t] = "numbered" =>
               \/ s_pc[t] = "numbered" /\ s_number'[t] = s_number[t]
               \/ s_number'[t] = Len(attempts) + 1
        BY Zenon, <2>t, <3>2
      <4>3. Len(attempts) + 1 <= max_attempts + granted
        BY <1>2, <3>2 DEF Allowed
      <4> QED
        BY Zenon, <1>2, <2>1, <4>1, <4>2, <4>3 DEF Allowed
    <3> QED
      BY Zenon, <2>5, <3>1, <3>2 DEF TakeNumber, _next_attempt_number, allowed_attempts
  <2> QED
    BY Zenon, <1>4, <2>3, <2>4, <2>5 DEF start_quiz_attempt
<1>5. CASE unlock_quiz_for_user \/ UnlockLapses
  BY <1>2, <1>5 DEF unlock_quiz_for_user, UnlockLapses, Allowed
<1>6. CASE \E n \in DOMAIN attempts :
             TimeLimitPasses(n) \/ RetakeDelayPasses(n) \/ submit_quiz_attempt(n)
  BY Zenon, <1>3, <1>6 DEF TimeLimitPasses, RetakeDelayPasses, submit_quiz_attempt, SubmitFails,
                    SubmitPasses, OnlyAttempts
<1>7. CASE \/ enroll_user_in_course \/ revoke_certificate
           \/ \E l \in Lessons :
                \/ SwitchLesson(l) \/ _stamp_media_opened(l)
                \/ \E seconds \in 0..duration_seconds, mark, open \in BOOLEAN :
                     update_lesson_progress(l, seconds, mark, open)
           \/ UNCHANGED lmsVars
  BY <1>3, <1>7 DEF enroll_user_in_course, revoke_certificate, SwitchLesson,
                    _stamp_media_opened, update_lesson_progress, lmsVars
<1> QED
  BY Zenon, <1>4, <1>5, <1>6, <1>7 DEF LmsNext

\* However many requests start attempts together, there are never more attempts
\* than the quiz allows and the unlocks ever granted add (services.py,
\* start_quiz_attempt).
THEOREM AttemptsAlwaysWithinAllowance == LmsSpec => []AttemptsWithinAllowance
<1>1. Allowed => AttemptsWithinAllowance
  BY Zenon DEF Allowed, AttemptsWithinAllowance
<1> QED
  BY <1>1, AllowedInitially, AllowedStep, PTL DEF LmsSpec

-----------------------------------------------------------------------------
(* Awards.                                                                  *)

\* Certificate and skill move together, and a pass has had its effects.
Awarded ==
    /\ \/ certificate = "none" /\ skill = "none"
       \/ certificate = "issued" /\ skill = "held"
       \/ certificate = "revoked" /\ skill = "deleted"
    /\ Passed(attempts) # {} => enrollment = "completed"
    /\ certificate # "none" <=> (Passed(attempts) # {} /\ is_required_for_certificate)

LEMMA AwardedStep == Allowed /\ Awarded /\ [LmsNext]_lmsVars => Awarded'
<1> SUFFICES ASSUME Allowed, Awarded, [LmsNext]_lmsVars PROVE Awarded'
  BY Zenon
<1> USE LmsAssumption DEF lessonVars, progressVars, enrollmentVars, awardVars, unlockVars, startVars
<1>1. RowsChange
  BY Zenon, StepRows DEF Allowed
<1>2. ASSUME NEW n \in DOMAIN attempts, SubmitPasses(n) PROVE Awarded'
  <2>1. Passed(attempts') # {}
    <3>1. attempts[n] \in QuizAttempt /\ attempts \in Seq(QuizAttempt)
      BY DEF Allowed
    <3>2. attempts' = [attempts EXCEPT ![n] = [attempts[n] EXCEPT !.status = "passed", !.is_passed = TRUE]]
      BY Zenon, <1>2 DEF SubmitPasses
    <3>3. n \in DOMAIN attempts' /\ attempts'[n].is_passed
      BY Zenon, <3>1, <3>2 DEF QuizAttempt
    <3> QED
      BY <3>3, Zenon DEF Passed
  <2>2. enrollment' = "completed"
    BY Zenon, <1>2 DEF SubmitPasses, issue_certificate_for_attempt, complete_enrollment_after_pass
  <2>3. CASE is_required_for_certificate
    BY Zenon, <1>2, <2>1, <2>2, <2>3 DEF SubmitPasses, issue_certificate_for_attempt,
                                  create_skill_for_certificate, Awarded
  <2>4. CASE ~is_required_for_certificate
    BY Zenon, <1>2, <2>1, <2>2, <2>4 DEF SubmitPasses, Awarded
  <2> QED
    BY Zenon, <2>3, <2>4
<1>3. ASSUME ~\E n \in DOMAIN attempts : SubmitPasses(n) PROVE Passed(attempts') = Passed(attempts)
  BY Zenon, <1>1, <1>3 DEF RowsChange
<1>4. CASE revoke_certificate
  <2>1. Passed(attempts') = Passed(attempts)
    BY Zenon, <1>4 DEF revoke_certificate
  <2> QED
    BY Zenon, <1>4, <2>1 DEF revoke_certificate, Awarded
<1>5. ASSUME ~revoke_certificate, ~\E n \in DOMAIN attempts : SubmitPasses(n)
      PROVE  UNCHANGED awardVars /\ (enrollment = "completed" => enrollment' = "completed")
  BY Zenon, <1>5 DEF LmsNext, enroll_user_in_course, SwitchLesson, _stamp_media_opened,
              update_lesson_progress, _sync_enrollment_progress, start_quiz_attempt,
              ReadLiveAttempt, CloseOverdue, CheckReady, TakeNumber, CreateAttempt, OnlyAttempts,
              TimeLimitPasses, RetakeDelayPasses, submit_quiz_attempt, SubmitFails,
              unlock_quiz_for_user, UnlockLapses, lmsVars
<1> QED
  BY Zenon, <1>2, <1>3, <1>4, <1>5 DEF Awarded

LEMMA AwardedInitially == LmsInit => Awarded
<1> SUFFICES ASSUME LmsInit PROVE Awarded
  OBVIOUS
<1>1. Passed(attempts) = {}
  BY DEF LmsInit, Passed
<1> QED
  BY Zenon, <1>1 DEF LmsInit, Awarded

\* A pass has completed the enrollment and earned the certificate, where the
\* quiz asks for one, and nothing else earns it (services.py,
\* submit_quiz_attempt).
THEOREM PassesAlwaysAwarded == LmsSpec => []PassesAreAwarded
<1>1. Awarded => PassesAreAwarded
  BY Zenon DEF Awarded, PassesAreAwarded, PassedBefore, Passed
<1> QED
  BY <1>1, AllowedInitially, AllowedStep, AwardedInitially, AwardedStep, PTL DEF LmsSpec

\* The skill is held exactly while its certificate stands (services.py,
\* revoke_certificate, create_skill_for_certificate).
THEOREM SkillAlwaysFollows == LmsSpec => []SkillFollowsCertificate
<1>1. Awarded => SkillFollowsCertificate
  BY Zenon DEF Awarded, SkillFollowsCertificate
<1> QED
  BY <1>1, AllowedInitially, AllowedStep, AwardedInitially, AwardedStep, PTL DEF LmsSpec

-----------------------------------------------------------------------------
(* Progress.                                                                *)

Watching == watched \in [Lessons -> Nat]

LEMMA StepWatches ==
    ASSUME Watching, [LmsNext]_lmsVars
    PROVE  /\ Watching' /\ \A l \in Lessons : watched'[l] >= watched[l]
           /\ completed \subseteq completed'
           /\ enrollment = "completed" => enrollment' = "completed"
<1> USE LmsAssumption DEF lessonVars, progressVars, enrollmentVars, awardVars, unlockVars, startVars
<1>1. ASSUME NEW l \in Lessons, NEW seconds \in 0..duration_seconds, NEW mark \in BOOLEAN,
             NEW open \in BOOLEAN, update_lesson_progress(l, seconds, mark, open)
      PROVE  /\ Watching' /\ \A k \in Lessons : watched'[k] >= watched[k]
             /\ completed \subseteq completed'
             /\ enrollment = "completed" => enrollment' = "completed"
  <2> DEFINE n == IF mark THEN duration_seconds ELSE seconds
  <2>0. n \in Nat
    OBVIOUS
  <2>1. watched' = [watched EXCEPT ![l] = Larger(@, n)]
    BY <1>1, Zenon DEF update_lesson_progress
  <2> HIDE DEF n
  <2>2. \A k \in Lessons : watched[k] \in Nat
    BY Zenon DEF Watching
  <2>3. Larger(watched[l], n) \in Nat /\ Larger(watched[l], n) >= watched[l]
    BY <2>0, <2>2 DEF Larger
  <2>4. Watching' /\ \A k \in Lessons : watched'[k] >= watched[k]
    BY <2>1, <2>2, <2>3 DEF Watching
  <2>5. completed \subseteq completed' /\ (enrollment = "completed" => enrollment' = "completed")
    BY Zenon, <1>1 DEF update_lesson_progress, _sync_enrollment_progress
  <2> QED
    BY Zenon, <2>4, <2>5
<1>2. ASSUME UNCHANGED <<watched, completed>>, enrollment = "completed" => enrollment' = "completed"
      PROVE  /\ Watching' /\ \A k \in Lessons : watched'[k] >= watched[k]
             /\ completed \subseteq completed'
             /\ enrollment = "completed" => enrollment' = "completed"
  BY <1>2 DEF Watching
<1> QED
  BY Zenon, <1>1, <1>2
  DEF LmsNext, enroll_user_in_course, SwitchLesson, _stamp_media_opened, start_quiz_attempt,
      ReadLiveAttempt, CloseOverdue, CheckReady, TakeNumber, CreateAttempt, OnlyAttempts,
      TimeLimitPasses, RetakeDelayPasses, submit_quiz_attempt, SubmitFails, SubmitPasses,
      issue_certificate_for_attempt, complete_enrollment_after_pass, revoke_certificate,
      unlock_quiz_for_user, UnlockLapses, lmsVars

\* No step takes back watched seconds, a completed lesson, a completed
\* enrollment or a pass (services.py, update_lesson_progress).
THEOREM NothingEverUnlearned == LmsSpec => NothingIsUnlearned
<1> DEFINE Kept == /\ \A l \in Lessons : watched'[l] >= watched[l]
                   /\ completed \subseteq completed'
                   /\ enrollment = "completed" => enrollment' = "completed"
                   /\ \A n \in DOMAIN attempts : attempts[n].is_passed => attempts'[n].is_passed
<1>1. LmsInit => Watching
  BY DEF LmsInit, Watching
<1>2. Watching /\ [LmsNext]_lmsVars => Watching'
  BY Zenon, StepWatches
<1>3. Allowed /\ Watching /\ [LmsNext]_lmsVars => [Kept]_lmsVars
  <2> SUFFICES ASSUME Allowed, Watching, [LmsNext]_lmsVars PROVE Kept
    BY Zenon
  <2>1. Passed(attempts) \subseteq Passed(attempts')
    BY Zenon, StepRows DEF Allowed, RowsChange
  <2>2. \A n \in DOMAIN attempts : attempts[n].is_passed => attempts'[n].is_passed
    BY <2>1, Zenon DEF Passed
  <2>3. /\ \A l \in Lessons : watched'[l] >= watched[l]
        /\ completed \subseteq completed'
        /\ enrollment = "completed" => enrollment' = "completed"
    BY Zenon, StepWatches
  <2> QED
    BY <2>2, <2>3, Zenon
<1> QED
  BY <1>1, <1>2, <1>3, AllowedInitially, AllowedStep, PTL DEF LmsSpec, NothingIsUnlearned

-----------------------------------------------------------------------------
(* LmsDiscussion. What goes with a deletion was posted before the rows were  *)
(* collected, and is visible only if it was shown since the deletion looked. *)

\* Answer a goes with what request u deletes.
GoesWith(u, a) ==
    /\ d_target[u] = Question \/ parent[a] = d_target[u]
    /\ d_pc[u] = "erasing" => a \in d_seen[u]

SeenWasHidden ==
    \A u \in Users, a \in Answers :
        /\ d_pc[u] \in Deleting /\ GoesWith(u, a) /\ status[a] = "visible" => a \in crossed
        /\ d_pc[u] = "erasing" /\ a \in d_seen[u] => status[a] # "none"

\* Whoever deletes after a step was as far before it.
DeletersStay ==
    \A u \in Users : d_pc'[u] \in Deleting =>
        d_pc'[u] = d_pc[u] /\ d_target'[u] = d_target[u] /\ d_seen'[u] = d_seen[u]

DiscussionInv ==
    /\ DiscussionTypeOK /\ SeenWasHidden /\ ThreadsAreOneLevel /\ OneAcceptedAnswer

-----------------------------------------------------------------------------
LEMMA DiscussionInitially == DiscussionInit => DiscussionInv
<1> SUFFICES ASSUME DiscussionInit PROVE DiscussionInv
  OBVIOUS
<1>1. DiscussionTypeOK
  <2>1. /\ status \in [Answers -> Statuses \cup {"none", "gone"}]
        /\ parent \in [Answers -> Answers \cup {NoAnswer}]
        /\ reply_to \in [Answers -> Answers \cup {NoAnswer}]
    BY DiscussionAssumption DEF DiscussionInit, Statuses, Answers, NoAnswer
  <2>2. d_copy \in [Users -> [status : Statuses \cup {"none"}, is_accepted : BOOLEAN]]
    BY Zenon DEF DiscussionInit, NoCopy
  <2>3. /\ is_accepted \in [Answers -> BOOLEAN] /\ stale \in BOOLEAN
    BY Zenon DEF DiscussionInit
  <2> QED
    BY <2>1, <2>2, <2>3, DiscussionAssumption DEF DiscussionInit, DiscussionTypeOK, Statuses
<1>2. ThreadsAreOneLevel
  BY DiscussionAssumption DEF DiscussionInit, ThreadsAreOneLevel, Present, Answers, NoAnswer
<1> QED
  BY Zenon, <1>1, <1>2 DEF DiscussionInit, DiscussionInv, SeenWasHidden, OneAcceptedAnswer,
                               Deleting

-----------------------------------------------------------------------------
LEMMA NoCopyType == NoCopy \in [status : Statuses \cup {"none"}, is_accepted : BOOLEAN]
BY Zenon DEF NoCopy

LEMMA ResetTypes ==
    ASSUME DiscussionTypeOK, NEW u \in Users, Reset(u)
    PROVE  /\ d_pc' \in [Users -> {"idle", "loaded", "posting", "looking", "looked", "erasing"}]
           /\ d_target' \in [Users -> Answers \cup {Question}]
           /\ d_to' \in [Users -> Answers \cup {NoAnswer}]
           /\ d_copy' \in [Users -> [status : Statuses \cup {"none"}, is_accepted : BOOLEAN]]
           /\ d_seen' \in [Users -> SUBSET Answers]
           /\ DeletersStay
BY Zenon, NoCopyType DEF DiscussionTypeOK, Reset, DeletersStay, Deleting

\* Nothing is shown, and no deletion gets on.
LEMMA HiddenStays ==
    ASSUME DiscussionInv, DeletersStay, crossed' = crossed,
           \A a \in Answers :
               /\ status'[a] = "visible" => status[a] = "visible" /\ parent'[a] = parent[a]
               /\ status[a] # "none" => status'[a] # "none"
    PROVE  SeenWasHidden'
<1> SUFFICES ASSUME NEW u \in Users, NEW a \in Answers, d_pc'[u] \in Deleting
             PROVE  /\ GoesWith(u, a)' /\ status'[a] = "visible" => a \in crossed'
                    /\ d_pc'[u] = "erasing" /\ a \in d_seen'[u] => status'[a] # "none"
  BY Zenon DEF SeenWasHidden, Deleting
<1>1. d_pc'[u] = d_pc[u] /\ d_target'[u] = d_target[u] /\ d_seen'[u] = d_seen[u]
  BY Zenon DEF DeletersStay
<1> QED
  BY Zenon, <1>1 DEF DiscussionInv, SeenWasHidden, GoesWith

\* A request that only loads or looks, or is refused, disturbs nothing.
LEMMA LookingStep ==
    ASSUME DiscussionInv, UNCHANGED <<answerVars, historyVars>>, DeletersStay
    PROVE  SeenWasHidden' /\ ThreadsAreOneLevel' /\ OneAcceptedAnswer'
<1>1. SeenWasHidden'
  BY Zenon, HiddenStays DEF answerVars, historyVars
<1> QED
  BY Zenon, <1>1
  DEF DiscussionInv, ThreadsAreOneLevel, OneAcceptedAnswer, answerVars, historyVars, Present

\* A deletion gets on with nothing visible that it has not missed.
LEMMA DeletionStep ==
    ASSUME DiscussionInv, NEW u \in Users, UNCHANGED <<answerVars, historyVars>>,
           UNCHANGED d_target,
           \A w \in Users \ {u} : d_pc'[w] = d_pc[w] /\ d_seen'[w] = d_seen[w],
           \A a \in Answers : GoesWith(u, a)' /\ status[a] = "visible" => a \in crossed,
           d_pc'[u] = "erasing" => d_seen'[u] \subseteq Present
    PROVE  SeenWasHidden' /\ ThreadsAreOneLevel' /\ OneAcceptedAnswer'
<1>1. SeenWasHidden'
  <2> SUFFICES ASSUME NEW w \in Users, NEW a \in Answers
               PROVE  /\ d_pc'[w] \in Deleting /\ GoesWith(w, a)' /\ status'[a] = "visible" =>
                           a \in crossed'
                      /\ d_pc'[w] = "erasing" /\ a \in d_seen'[w] => status'[a] # "none"
    BY Zenon DEF SeenWasHidden, Deleting
  <2>1. CASE w = u
    BY Zenon, <2>1 DEF answerVars, historyVars, Present
  <2>2. CASE w # u
    BY Zenon, <2>2 DEF DiscussionInv, SeenWasHidden, GoesWith, answerVars, historyVars
  <2> QED
    BY Zenon, <2>1, <2>2
<1> QED
  BY Zenon, <1>1
  DEF DiscussionInv, ThreadsAreOneLevel, OneAcceptedAnswer, answerVars, historyVars, Present

\* A new answer takes a free row under answers that are there.
LEMMA PostStep ==
    ASSUME DiscussionInv, NEW u \in Users, AnswerCommits(u)
    PROVE  DiscussionInv'
<1> DEFINE to == d_to[u]
<1>1. Reset(u) /\ UNCHANGED <<q_status, stale, requests>>
  BY Zenon DEF AnswerCommits
<1>2. PICK new \in Answers :
        /\ status[new] = "none"
        /\ \/ UNCHANGED <<answerVars, crossed>>
           \/ /\ {to, Anchor(to)} \subseteq Present \cup {NoAnswer}
              /\ status' = [status EXCEPT ![new] = "visible"]
              /\ parent' = [parent EXCEPT ![new] = Anchor(to)]
              /\ reply_to' = [reply_to EXCEPT ![new] = to]
              /\ crossed' = crossed \cup (IF AnyAt({"looking", "looked"}) THEN {new} ELSE {})
              /\ UNCHANGED is_accepted
  BY Zenon DEF AnswerCommits, NextRow
<1>3. to \in Answers \cup {NoAnswer} /\ Anchor(to) \in Answers \cup {NoAnswer}
  BY Zenon DEF DiscussionInv, DiscussionTypeOK, Anchor, NoAnswer, Answers
<1>4. CASE UNCHANGED <<answerVars, crossed>>
  <2>1. DiscussionTypeOK'
    BY Zenon, <1>1, <1>4, ResetTypes DEF DiscussionInv, DiscussionTypeOK, answerVars
  <2> QED
    BY Zenon, <1>1, <1>4, <2>1, ResetTypes, LookingStep DEF DiscussionInv, historyVars
<1>5. CASE /\ {to, Anchor(to)} \subseteq Present \cup {NoAnswer}
           /\ status' = [status EXCEPT ![new] = "visible"]
           /\ parent' = [parent EXCEPT ![new] = Anchor(to)]
           /\ reply_to' = [reply_to EXCEPT ![new] = to]
           /\ crossed' = crossed \cup (IF AnyAt({"looking", "looked"}) THEN {new} ELSE {})
           /\ UNCHANGED is_accepted
  <2> HIDE DEF to
  <2>1. DiscussionTypeOK'
    BY Zenon, <1>1, <1>3, <1>5, ResetTypes, DiscussionAssumption
    DEF DiscussionInv, DiscussionTypeOK, Statuses
  <2>2. SeenWasHidden'
    <3> SUFFICES ASSUME NEW w \in Users, NEW a \in Answers, d_pc'[w] \in Deleting
                 PROVE  /\ GoesWith(w, a)' /\ status'[a] = "visible" => a \in crossed'
                        /\ d_pc'[w] = "erasing" /\ a \in d_seen'[w] => status'[a] # "none"
      BY Zenon DEF SeenWasHidden, Deleting
    <3>1. /\ DeletersStay /\ d_pc[w] = d_pc'[w]
          /\ d_target'[w] = d_target[w] /\ d_seen'[w] = d_seen[w]
      BY Zenon, <1>1, ResetTypes DEF DeletersStay, DiscussionInv
    <3>2. CASE a = new
      <4>1. d_pc'[w] # "erasing" => a \in crossed'
        BY Zenon, <1>5, <3>1, <3>2 DEF AnyAt, Deleting
      <4>2. d_pc'[w] = "erasing" => a \notin d_seen'[w]
        BY Zenon, <1>2, <3>1, <3>2 DEF DiscussionInv, SeenWasHidden
      <4> QED
        BY Zenon, <4>1, <4>2 DEF GoesWith
    <3>3. CASE a # new
      <4>1. status'[a] = status[a] /\ parent'[a] = parent[a] /\ crossed \subseteq crossed'
        BY Zenon, <1>5, <3>3 DEF DiscussionInv, DiscussionTypeOK
      <4> QED
        BY Zenon, <3>1, <4>1 DEF DiscussionInv, SeenWasHidden, GoesWith
    <3> QED
      BY Zenon, <3>2, <3>3
  <2>3. Present' = Present \cup {new} /\ new \notin Present
    BY <1>1, <1>2, <1>5 DEF DiscussionInv, DiscussionTypeOK, Present
  <2>4. /\ \A a \in Present : parent'[a] = parent[a] /\ reply_to'[a] = reply_to[a]
        /\ parent'[new] = Anchor(to) /\ reply_to'[new] = to
    BY Zenon, <1>1, <1>5, <2>3 DEF DiscussionInv, DiscussionTypeOK, Present
  <2>5. Anchor(to) # NoAnswer =>
          /\ Anchor(to) \in Present /\ parent[Anchor(to)] = NoAnswer
          /\ to \in {Anchor(to)} \cup {b \in Present : parent[b] = Anchor(to)}
    BY Zenon, <1>3, <1>5 DEF Anchor, DiscussionInv, ThreadsAreOneLevel, NoAnswer
  <2>6. ThreadsAreOneLevel'
    <3> SUFFICES ASSUME NEW a \in Present', parent'[a] # NoAnswer
                 PROVE  /\ parent'[a] \in Present' /\ parent'[parent'[a]] = NoAnswer
                        /\ reply_to'[a] \in {NoAnswer, parent'[a]}
                              \cup {b \in Present' : parent'[b] = parent'[a]}
      BY Zenon DEF ThreadsAreOneLevel, NoAnswer
    <3>1. CASE a = new
      BY Zenon, <2>3, <2>4, <2>5, <3>1
    <3>2. CASE a \in Present
      BY <2>3, <2>4, <3>2 DEF DiscussionInv, ThreadsAreOneLevel
    <3> QED
      BY Zenon, <2>3, <3>1, <3>2
  <2>7. OneAcceptedAnswer'
    BY Zenon, <1>1, <1>5 DEF DiscussionInv, OneAcceptedAnswer
  <2> QED
    BY Zenon, <2>1, <2>2, <2>6, <2>7 DEF DiscussionInv
<1> QED
  BY Zenon, <1>2, <1>4, <1>5

\* Rows go with every reply under them, and what answered them answers no one.
LEMMA EraseStep ==
    ASSUME DiscussionInv, NEW u \in Users, NEW rows \in SUBSET Present, Erase(rows), Reset(u),
           UNCHANGED <<historyVars, requests>>, q_status' \in Statuses \cup {"gone"},
           \A b \in Present : parent[b] \in rows => b \in rows
    PROVE  DiscussionInv'
<1>1. DiscussionTypeOK'
  BY Zenon, ResetTypes
  DEF DiscussionInv, DiscussionTypeOK, Erase, Present, historyVars
<1>2. SeenWasHidden'
  <2>1. DeletersStay /\ crossed' = crossed
    BY Zenon, ResetTypes DEF DiscussionInv, historyVars
  <2>2. ASSUME NEW a \in Answers
        PROVE  /\ status'[a] = "visible" => status[a] = "visible" /\ parent'[a] = parent[a]
               /\ status[a] # "none" => status'[a] # "none"
    BY Zenon DEF Erase
  <2> QED
    BY Zenon, <2>1, <2>2, HiddenStays
<1>3. Present' = Present \ rows
  BY Zenon DEF Erase, Present, DiscussionInv, DiscussionTypeOK
<1>4. \A a \in Present' : /\ parent'[a] = parent[a]
                          /\ reply_to'[a] = IF reply_to[a] \in rows THEN NoAnswer ELSE reply_to[a]
  BY <1>3 DEF Erase, Present
<1>5. ThreadsAreOneLevel'
  <2> SUFFICES ASSUME NEW a \in Present', parent'[a] # NoAnswer
               PROVE  /\ parent'[a] \in Present' /\ parent'[parent'[a]] = NoAnswer
                      /\ reply_to'[a] \in {NoAnswer, parent'[a]}
                            \cup {b \in Present' : parent'[b] = parent'[a]}
    BY Zenon DEF ThreadsAreOneLevel, NoAnswer
  <2>1. /\ parent[a] \in Present /\ parent[parent[a]] = NoAnswer
        /\ reply_to[a] \in {NoAnswer, parent[a]} \cup {b \in Present : parent[b] = parent[a]}
    BY Zenon, <1>3, <1>4 DEF DiscussionInv, ThreadsAreOneLevel
  <2>2. parent[a] \notin rows
    BY Zenon, <1>3
  <2> QED
    BY Zenon, <1>3, <1>4, <2>1, <2>2
<1>6. OneAcceptedAnswer'
  BY Zenon DEF DiscussionInv, OneAcceptedAnswer, Erase, historyVars
<1> QED
  BY Zenon, <1>1, <1>2, <1>5, <1>6 DEF DiscussionInv

\* A status set on a row that is there, by a deletion or a moderation.
LEMMA StatusStep ==
    ASSUME DiscussionInv, NEW u \in Users, NEW a \in Present, NEW s \in Statuses,
           status' = [status EXCEPT ![a] = s], Reset(u),
           s = "visible" /\ status[a] # "visible" /\ AnyAt(Deleting) => a \in crossed',
           crossed \subseteq crossed', UNCHANGED <<parent, reply_to>>
    PROVE  SeenWasHidden' /\ ThreadsAreOneLevel'
<1>1. Present' = Present
  BY Zenon, DiscussionAssumption DEF Present, DiscussionInv, DiscussionTypeOK, Statuses
<1>2. ThreadsAreOneLevel'
  BY Zenon, <1>1 DEF DiscussionInv, ThreadsAreOneLevel
<1>3. SeenWasHidden'
  <2> SUFFICES ASSUME NEW w \in Users, NEW b \in Answers, d_pc'[w] \in Deleting
               PROVE  /\ GoesWith(w, b)' /\ status'[b] = "visible" => b \in crossed'
                      /\ d_pc'[w] = "erasing" /\ b \in d_seen'[w] => status'[b] # "none"
    BY Zenon DEF SeenWasHidden, Deleting
  <2>1. /\ d_pc[w] = d_pc'[w] /\ d_target'[w] = d_target[w] /\ d_seen'[w] = d_seen[w]
        /\ AnyAt(Deleting)
    BY Zenon, ResetTypes DEF DeletersStay, DiscussionInv, AnyAt
  <2>2. GoesWith(w, b)' => GoesWith(w, b)
    BY Zenon, <2>1 DEF GoesWith
  <2>3. CASE b = a
    BY Zenon, <2>1, <2>2, <2>3, DiscussionAssumption
    DEF DiscussionInv, DiscussionTypeOK, SeenWasHidden, Statuses
  <2>4. CASE b # a
    BY Zenon, <2>1, <2>2, <2>4 DEF DiscussionInv, DiscussionTypeOK, SeenWasHidden
  <2> QED
    BY Zenon, <2>3, <2>4
<1> QED
  BY Zenon, <1>2, <1>3

LEMMA StepTypes ==
    ASSUME DiscussionInv, NEW u \in Users, NEW pc \in {"looking", "looked"}, Step(u, pc),
           UNCHANGED <<historyVars, requests>>
    PROVE  /\ DiscussionTypeOK' /\ d_pc'[u] = pc /\ UNCHANGED <<answerVars, d_target>>
           /\ \A w \in Users \ {u} : d_pc'[w] = d_pc[w] /\ d_seen'[w] = d_seen[w]
BY Zenon, NoCopyType DEF Step, DiscussionInv, DiscussionTypeOK, answerVars, historyVars

\* One of the two looks of the deletion of an answer.
LEMMA LookStep ==
    ASSUME DiscussionInv, NEW u \in Users, NEW a \in Answers, NEW pc \in {"looking", "looked"},
           NEW replies, LookAmong(u, a, replies, pc), d_target[u] = a,
           replies \cap Visible = {} =>
               \A b \in Answers : parent[b] = a /\ status[b] = "visible" => b \in crossed
    PROVE  DiscussionInv'
<1>1. CASE replies \cap Visible # {}
  <2>1. /\ status' = [status EXCEPT ![a] = IF a \in Present THEN "deleted" ELSE @] /\ Reset(u)
        /\ UNCHANGED <<q_status, parent, reply_to, is_accepted, historyVars, requests>>
    BY Zenon, <1>1 DEF LookAmong
  <2>2. DiscussionTypeOK'
    BY Zenon, <2>1, ResetTypes DEF DiscussionInv, DiscussionTypeOK, Statuses, historyVars
  <2>3. OneAcceptedAnswer'
    BY Zenon, <2>1 DEF DiscussionInv, OneAcceptedAnswer, historyVars
  <2>4. CASE a \in Present
    <3>1. /\ status' = [status EXCEPT ![a] = "deleted"] /\ "deleted" \in Statuses
          /\ crossed' = crossed
      BY Zenon, <2>1, <2>4 DEF Statuses, historyVars
    <3> QED
      BY Zenon, <2>1, <2>2, <2>3, <2>4, <3>1, StatusStep DEF DiscussionInv
  <2>5. CASE a \notin Present
    <3>1. status' = status
      BY Zenon, <2>1, <2>5 DEF DiscussionInv, DiscussionTypeOK
    <3> QED
      BY Zenon, <2>1, <2>2, <3>1, ResetTypes, LookingStep DEF DiscussionInv, answerVars
  <2> QED
    BY Zenon, <2>4, <2>5
<1>2. CASE replies \cap Visible = {}
  <2>1. Step(u, pc) /\ UNCHANGED <<historyVars, requests>>
    BY Zenon, <1>2 DEF LookAmong
  <2>2. UNCHANGED <<answerVars, d_target>> /\ d_pc'[u] # "erasing"
    BY <2>1, StepTypes
  <2>3. \A b \in Answers : GoesWith(u, b)' /\ status[b] = "visible" => b \in crossed
    BY <1>2, <2>2 DEF GoesWith, answerVars, Question, Answers
  <2> QED
    BY Zenon, <2>1, <2>2, <2>3, StepTypes, DeletionStep DEF DiscussionInv
<1> QED
  BY Zenon, <1>1, <1>2

LEMMA DiscussionStep == DiscussionInv /\ [DiscussionNext]_discussionVars => DiscussionInv'
<1> SUFFICES ASSUME DiscussionInv, [DiscussionNext]_discussionVars PROVE DiscussionInv'
  OBVIOUS
<1> USE DEF answerVars, talkVars, historyVars
<1>1. CASE UNCHANGED discussionVars
  <2>1. DiscussionTypeOK'
    BY Zenon, <1>1 DEF DiscussionInv, DiscussionTypeOK, discussionVars
  <2>2. DeletersStay /\ UNCHANGED <<answerVars, historyVars>>
    BY <1>1 DEF DeletersStay, discussionVars
  <2> QED
    BY Zenon, <2>1, <2>2, LookingStep DEF DiscussionInv
<1>2. ASSUME NEW u \in Users, NEW t \in {Question} \cup Answers, LoadTarget(u, t)
      PROVE  DiscussionInv'
  <2>1. DiscussionTypeOK'
    <3> DEFINE copy == IF t = Question THEN [status |-> q_status, is_accepted |-> FALSE]
                       ELSE [status |-> status[t], is_accepted |-> is_accepted[t]]
    <3>1. copy \in [status : Statuses \cup {"none"}, is_accepted : BOOLEAN]
      BY Zenon, <1>2 DEF LoadTarget, DiscussionInv, DiscussionTypeOK, Present
    <3>2. d_copy' = [d_copy EXCEPT ![u] = copy]
      BY Zenon, <1>2 DEF LoadTarget
    <3> HIDE DEF copy
    <3>3. d_copy' \in [Users -> [status : Statuses \cup {"none"}, is_accepted : BOOLEAN]]
      BY Zenon, <3>1, <3>2 DEF DiscussionInv, DiscussionTypeOK
    <3> QED
      BY <1>2, <3>3, DiscussionAssumption DEF LoadTarget, DiscussionInv, DiscussionTypeOK
  <2>2. DeletersStay
    BY Zenon, <1>2 DEF LoadTarget, DiscussionInv, DiscussionTypeOK, DeletersStay, Deleting
  <2> QED
    BY Zenon, <1>2, <2>1, <2>2, LookingStep DEF LoadTarget, DiscussionInv
<1>3. ASSUME NEW u \in Users, NEW to \in {NoAnswer} \cup Answers, create_lesson_answer(u, to)
      PROVE  DiscussionInv'
  <2>1. DiscussionTypeOK'
    BY Zenon, <1>3, NoCopyType DEF create_lesson_answer, DiscussionInv, DiscussionTypeOK
  <2>2. DeletersStay
    BY Zenon, <1>3 DEF create_lesson_answer, DiscussionInv, DiscussionTypeOK, DeletersStay, Deleting
  <2> QED
    BY Zenon, <1>3, <2>1, <2>2, LookingStep DEF create_lesson_answer, DiscussionInv
<1>4. ASSUME NEW u \in Users, NEW a \in Answers, accept_lesson_answer(u, a)
      PROVE  DiscussionInv'
  <2>1. DiscussionTypeOK'
    BY Zenon, <1>4, ResetTypes DEF accept_lesson_answer, DiscussionInv, DiscussionTypeOK
  <2>2. SeenWasHidden'
    <3>1. DeletersStay /\ UNCHANGED <<status, parent, crossed>>
      BY Zenon, <1>4, ResetTypes DEF accept_lesson_answer, DiscussionInv
    <3> QED
      BY Zenon, <3>1, HiddenStays
  <2>3. ThreadsAreOneLevel'
    BY Zenon, <1>4 DEF accept_lesson_answer, DiscussionInv, ThreadsAreOneLevel, Present
  <2>4. OneAcceptedAnswer'
    BY Zenon, <1>4 DEF accept_lesson_answer, OneAcceptedAnswer
  <2> QED
    BY Zenon, <2>1, <2>2, <2>3, <2>4 DEF DiscussionInv
<1>5. ASSUME NEW u \in Users, delete_lesson_question(u) PROVE DiscussionInv'
  <2>1. CASE Visible # {}
    <3>1. Reset(u) /\ q_status' = "deleted" /\ UNCHANGED <<answerVars, historyVars, requests>>
      BY Zenon, <1>5, <2>1 DEF delete_lesson_question
    <3>2. DiscussionTypeOK'
      BY Zenon, <3>1, ResetTypes DEF DiscussionInv, DiscussionTypeOK, Statuses
    <3> QED
      BY Zenon, <3>1, <3>2, ResetTypes, LookingStep DEF DiscussionInv
  <2>2. CASE Visible = {}
    <3>1. Step(u, "looked") /\ UNCHANGED <<historyVars, requests>>
      BY Zenon, <1>5, <2>2 DEF delete_lesson_question
    <3>2. \A a \in Answers : GoesWith(u, a)' /\ status[a] = "visible" => a \in crossed
      BY Zenon, <2>2 DEF Visible
    <3> QED
      BY Zenon, <3>1, <3>2, StepTypes, DeletionStep DEF DiscussionInv
  <2> QED
    BY Zenon, <2>1, <2>2
<1>6. ASSUME NEW u \in Users, QuestionErased(u) PROVE DiscussionInv'
  <2>1. CASE Present \subseteq d_seen[u]
    <3>1. \A b \in Present : parent[b] \in Present => b \in Present
      BY Zenon
    <3> QED
      BY Zenon, <1>6, <2>1, <3>1, EraseStep DEF QuestionErased
  <2>2. CASE ~(Present \subseteq d_seen[u])
    <3>1. Reset(u) /\ UNCHANGED <<q_status, answerVars, historyVars, requests>>
      BY Zenon, <1>6, <2>2 DEF QuestionErased
    <3>2. DiscussionTypeOK'
      BY Zenon, <3>1, ResetTypes DEF DiscussionInv, DiscussionTypeOK
    <3> QED
      BY Zenon, <3>1, <3>2, ResetTypes, LookingStep DEF DiscussionInv
  <2> QED
    BY Zenon, <2>1, <2>2
<1>7. ASSUME NEW u \in Users, NEW a \in Answers, delete_lesson_answer(u, a)
      PROVE  DiscussionInv'
  <2>1. CASE LookAmong(u, a, {b \in Present : parent[b] = a}, "looking") /\ d_target[u] = a
    <3>1. ASSUME {b \in Present : parent[b] = a} \cap Visible = {}
          PROVE  \A b \in Answers : parent[b] = a /\ status[b] = "visible" => b \in crossed
      BY <3>1 DEF Visible, Present
    <3> QED
      BY Zenon, <2>1, <3>1, LookStep
  <2>2. CASE /\ LookAmong(u, a, {b \in Present : reply_to[b] = a}, "looked")
             /\ d_pc[u] = "looking" /\ d_target[u] = a
    <3>1. \A b \in Answers : parent[b] = a /\ status[b] = "visible" => b \in crossed
      BY <2>2 DEF DiscussionInv, SeenWasHidden, GoesWith, Deleting
    <3> QED
      BY Zenon, <2>2, <3>1, LookStep
  <2> QED
    BY Zenon, <1>7, <2>1, <2>2 DEF delete_lesson_answer, Loaded
<1>12. ASSUME NEW u \in Users, Collect(u) PROVE DiscussionInv'
  <2> DEFINE seen == IF d_target[u] = Question THEN Present ELSE Under(d_target[u])
  <2>1. seen \subseteq Present /\ Present \subseteq Answers
    BY Zenon DEF Under, Present
  <2>2. /\ d_pc[u] = "looked" /\ d_pc' = [d_pc EXCEPT ![u] = "erasing"]
        /\ d_seen' = [d_seen EXCEPT ![u] = seen]
        /\ UNCHANGED <<q_status, answerVars, d_target, d_copy, d_to, historyVars, requests>>
    BY Zenon, <1>12 DEF Collect
  <2> HIDE DEF seen
  <2>3. DiscussionTypeOK'
    BY Zenon, <2>1, <2>2 DEF DiscussionInv, DiscussionTypeOK
  <2>4. ASSUME NEW a \in Answers, GoesWith(u, a)', status[a] = "visible" PROVE a \in crossed
    <3>1. GoesWith(u, a)
      BY Zenon, <2>2, <2>4 DEF GoesWith
    <3> QED
      BY Zenon, <2>2, <2>4, <3>1 DEF DiscussionInv, SeenWasHidden, Deleting
  <2>5. /\ \A w \in Users \ {u} : d_pc'[w] = d_pc[w] /\ d_seen'[w] = d_seen[w]
        /\ d_seen'[u] = seen
    BY Zenon, <2>2 DEF DiscussionInv, DiscussionTypeOK
  <2> QED
    BY Zenon, <2>1, <2>2, <2>3, <2>4, <2>5, DeletionStep DEF DiscussionInv
<1>8. ASSUME NEW u \in Users, NEW a \in Answers, AnswerErased(u, a) PROVE DiscussionInv'
  <2>1. Reset(u) /\ UNCHANGED <<q_status, historyVars, requests>>
    BY Zenon, <1>8 DEF AnswerErased
  <2>2. CASE q_status # "gone" /\ Under(a) \subseteq d_seen[u]
    <3> DEFINE rows == (d_seen[u] \cap {b \in Present : parent[b] = a}) \cup ({a} \cap Present)
    <3>1. Erase(rows)
      BY Zenon, <1>8, <2>2 DEF AnswerErased
    <3>2. rows \in SUBSET Present
      BY Zenon
    <3>3. \A b \in Present : parent[b] = a => b \in rows
      BY Zenon, <2>2 DEF Under
    <3>4. \A b \in Present : parent[b] \in rows => b \in rows
      <4> SUFFICES ASSUME NEW b \in Present, parent[b] \in rows, parent[b] # a PROVE FALSE
        BY Zenon, <3>3
      <4>1. parent[parent[b]] = a /\ parent[b] # NoAnswer
        BY DEF Present, Answers, NoAnswer
      <4> QED
        BY <4>1 DEF DiscussionInv, ThreadsAreOneLevel, Answers, NoAnswer
    <3>5. q_status' \in Statuses \cup {"gone"}
      BY Zenon, <2>1 DEF DiscussionInv, DiscussionTypeOK
    <3> QED
      BY Zenon, <2>1, <3>1, <3>2, <3>4, <3>5, EraseStep
  <2>3. CASE UNCHANGED answerVars
    <3>1. DiscussionTypeOK'
      BY Zenon, <2>1, <2>3, ResetTypes DEF DiscussionInv, DiscussionTypeOK
    <3> QED
      BY Zenon, <2>1, <2>3, <3>1, ResetTypes, LookingStep DEF DiscussionInv
  <2> QED
    BY Zenon, <1>8, <2>2, <2>3 DEF AnswerErased
<1>9. ASSUME NEW u \in Users, NEW s \in Inputs, moderate_lesson_question(u, s)
      PROVE  DiscussionInv'
  <2>1. /\ Reset(u) /\ UNCHANGED <<answerVars, historyVars, requests>>
        /\ q_status' \in Statuses
    BY Zenon, <1>9 DEF moderate_lesson_question, Statuses
  <2>2. DiscussionTypeOK'
    BY Zenon, <2>1, ResetTypes DEF DiscussionInv, DiscussionTypeOK
  <2> QED
    BY Zenon, <2>1, <2>2, ResetTypes, LookingStep DEF DiscussionInv
<1>10. ASSUME NEW u \in Users, NEW a \in Answers, NEW s \in Inputs,
              NEW accept \in {"yes", "no", "unsaid"}, moderate_lesson_answer(u, a, s, accept)
       PROVE  DiscussionInv'
  <2>1. /\ a \in Present /\ s \in Statuses /\ s \in DiscussionStatus
        /\ status' = [status EXCEPT ![a] = s] /\ Reset(u)
        /\ crossed' = crossed \cup (IF s = "visible" /\ AnyAt(Deleting)
                                    THEN {a} \ Visible ELSE {})
        /\ UNCHANGED <<q_status, parent, reply_to, requests>>
    BY Zenon, <1>10 DEF moderate_lesson_answer, Statuses
  <2>2. SeenWasHidden' /\ ThreadsAreOneLevel'
    <3>1. s = "visible" /\ status[a] # "visible" /\ AnyAt(Deleting) => a \in crossed'
      BY Zenon, <2>1 DEF Visible
    <3> QED
      BY Zenon, <2>1, <3>1, StatusStep
  <2>3. is_accepted' \in [Answers -> BOOLEAN]
    BY <1>10, Zenon DEF moderate_lesson_answer
  <2>4. stale' \in BOOLEAN
    BY <1>10, Zenon DEF moderate_lesson_answer
  <2>5. DiscussionTypeOK'
    BY Zenon, <2>1, <2>3, <2>4, ResetTypes DEF DiscussionInv, DiscussionTypeOK, Present
  <2>6. OneAcceptedAnswer'
    BY Zenon, <1>10 DEF moderate_lesson_answer, DiscussionInv, DiscussionTypeOK, OneAcceptedAnswer
  <2> QED
    BY Zenon, <2>2, <2>5, <2>6 DEF DiscussionInv
<1>11. ASSUME NEW u \in Users, Refused(u) PROVE DiscussionInv'
  <2>1. Reset(u) /\ UNCHANGED <<q_status, answerVars, historyVars, requests>>
    BY Zenon, <1>11 DEF Refused
  <2>2. DiscussionTypeOK'
    BY <2>1, ResetTypes DEF DiscussionInv, DiscussionTypeOK
  <2> QED
    BY <2>1, <2>2, ResetTypes, LookingStep DEF DiscussionInv
<1> HIDE DEF answerVars, talkVars, historyVars
<1> QED
  BY Zenon, <1>1, <1>2, <1>3, <1>4, <1>5, <1>6, <1>7, <1>8, <1>9, <1>10, <1>11, <1>12,
     PostStep
  DEF DiscussionNext

\* The invariant holds throughout any number of overlapping requests.
THEOREM DiscussionInvariance == DiscussionSpec => []DiscussionInv
BY DiscussionInitially, DiscussionStep, PTL DEF DiscussionSpec

\* The question, its answers and the requests keep their types.
THEOREM DiscussionTypeCorrect == DiscussionSpec => []DiscussionTypeOK
BY DiscussionInvariance, PTL DEF DiscussionInv

\* Threads stay one level deep and whole, whatever deletions and replies cross
\* (create_lesson_answer, delete_lesson_answer).
THEOREM ThreadsAlwaysOneLevel == DiscussionSpec => []ThreadsAreOneLevel
BY DiscussionInvariance, PTL DEF DiscussionInv

\* Two acceptances never both last, until a moderation saves one out of date
\* (accept_lesson_answer, moderate_lesson_answer).
THEOREM AlwaysOneAccepted == DiscussionSpec => []OneAcceptedAnswer
BY DiscussionInvariance, PTL DEF DiscussionInv

\* No deletion destroys a visible answer that was there when it looked, or is posted
\* once it has collected the rows: only the answer being deleted goes while visible,
\* or one shown in between (delete_lesson_question, delete_lesson_answer).
THEOREM VisibleAnswersAlwaysSurvive == DiscussionSpec => VisibleAnswersSurvive
<1> DEFINE Survives ==
      \A a \in Visible : status'[a] = "gone" =>
          a \in crossed \/ \E u \in Users : d_pc[u] = "erasing" /\ d_target[u] = a
<1>1. DiscussionInv /\ [DiscussionNext]_discussionVars => Survives
  <2> SUFFICES ASSUME DiscussionInv, DiscussionNext, NEW a \in Visible, status'[a] = "gone"
               PROVE  a \in crossed
                      \/ \E u \in Users : d_pc[u] = "erasing" /\ d_target[u] = a
    BY Zenon DEF discussionVars, answerVars, Visible
  <2>1. a \in Present /\ status'[a] # status[a] /\ "gone" \notin DiscussionStatus
    BY Zenon, DiscussionAssumption DEF Visible, Present
  <2>2. ASSUME NEW u \in Users, d_pc[u] = "erasing", GoesWith(u, a) PROVE a \in crossed
    BY Zenon, <2>2 DEF DiscussionInv, SeenWasHidden, Visible, Deleting
  <2>3. ASSUME NEW u \in Users, QuestionErased(u) PROVE a \in crossed
    BY Zenon, <2>1, <2>2, <2>3 DEF QuestionErased, answerVars, GoesWith
  <2>4. ASSUME NEW u \in Users, NEW b \in Answers, AnswerErased(u, b)
        PROVE  a \in crossed \/ (d_pc[u] = "erasing" /\ d_target[u] = a)
    <3>1. d_pc[u] = "erasing" /\ d_target[u] = b
      BY Zenon, <2>4 DEF AnswerErased
    <3>2. a \in Answers
      BY Zenon DEF Visible
    <3>3. PICK rows \in SUBSET ((d_seen[u] \cap {c \in Present : parent[c] = b}) \cup {b}) :
            Erase(rows) \/ UNCHANGED answerVars
      BY Zenon, <2>4 DEF AnswerErased
    <3>4. a = b \/ (a \in d_seen[u] /\ parent[a] = b)
      BY Zenon, <2>1, <3>2, <3>3 DEF Erase, answerVars
    <3> QED
      BY Zenon, <2>2, <3>1, <3>4 DEF GoesWith
  <2>5. ASSUME NEW u \in Users, AnswerCommits(u) PROVE FALSE
    <3>1. PICK new \in Answers : status' = [status EXCEPT ![new] = "visible"] \/ status' = status
      BY Zenon, <2>5 DEF AnswerCommits, answerVars
    <3> QED
      BY Zenon, <2>1, <3>1 DEF DiscussionInv, DiscussionTypeOK, Visible
  <2>6. ASSUME NEW u \in Users, NEW b \in Answers, delete_lesson_answer(u, b) PROVE FALSE
    <3>1. PICK replies, pc : LookAmong(u, b, replies, pc)
      BY Zenon, <2>6 DEF delete_lesson_answer
    <3>2. CASE status' = status
      BY Zenon, <2>1, <3>2
    <3>3. CASE status' = [status EXCEPT ![b] = IF b \in Present THEN "deleted" ELSE @]
      BY Zenon, <2>1, <3>3 DEF DiscussionInv, DiscussionTypeOK, Visible
    <3> QED
      BY Zenon, <3>1, <3>2, <3>3 DEF LookAmong, Step, answerVars
  <2>7. ASSUME NEW u \in Users, NEW b \in Answers, NEW s \in Inputs,
               NEW accept \in {"yes", "no", "unsaid"}, moderate_lesson_answer(u, b, s, accept)
        PROVE  FALSE
    BY <2>1, <2>7 DEF moderate_lesson_answer, DiscussionInv, DiscussionTypeOK
  <2>8. ASSUME UNCHANGED status PROVE FALSE
    BY Zenon, <2>1, <2>8
  <2> QED
    BY <2>3, <2>4, <2>5, <2>6, <2>7, <2>8
    DEF DiscussionNext, LoadTarget, create_lesson_answer, delete_lesson_question,
        Step, Collect, moderate_lesson_question, accept_lesson_answer, Refused, answerVars
<1> QED
  BY <1>1, DiscussionInvariance, PTL DEF DiscussionSpec, VisibleAnswersSurvive
=============================================================================
