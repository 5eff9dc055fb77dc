---------------------------- MODULE LmsLearning ----------------------------
(* One user in one course (apps/lms/services.py): the lessons and the       *)
(* enrollment's progress, the quiz attempts, and the certificate with its   *)
(* skill. Starting an attempt is not a transaction: its reads and its       *)
(* insert are steps of their own. Everything else is one transaction that   *)
(* locks the row it decides on. Attempt n is the n-th of the sequence, as   *)
(* attempt_number is the latest one plus 1 and unique per quiz and user.    *)
EXTENDS Naturals, Sequences, FiniteSets, FiniteSetsExt

CONSTANTS
    Lessons,                \* lesson orders
    Documents, Articles,    \* lessons the user completes; the others are media
    duration_seconds,       \* of every media lesson
    max_attempts,
    is_required_for_certificate,
    Starters,               \* concurrent POST start requests
    MaxUnlocks,             \* bound: unlocks granted
    MaxEdits                \* bound: lessons switched on or off

ASSUME LmsAssumption ==
    /\ Lessons \subseteq Nat \ {0} /\ Documents \subseteq Lessons /\ Articles \subseteq Lessons
    /\ duration_seconds \in Nat \ {0} /\ max_attempts \in Nat \ {0}
    /\ is_required_for_certificate \in BOOLEAN /\ MaxUnlocks \in Nat /\ MaxEdits \in Nat

VARIABLES
    active,                             \* active lessons
    opened, watched, completed,         \* LessonProgress
    enrollment, progress_percent,       \* Enrollment
    attempts,                           \* QuizAttempt rows
    certificate, skill,
    unlocks, granted,                   \* extra attempts still valid / ever granted
    edits,
    s_pc, s_attempt, s_number           \* the start requests

lessonVars == <<active, edits>>
progressVars == <<opened, watched, completed>>
enrollmentVars == <<enrollment, progress_percent>>
awardVars == <<certificate, skill>>
unlockVars == <<unlocks, granted>>
startVars == <<s_pc, s_attempt, s_number>>
lmsVars == <<lessonVars, progressVars, enrollmentVars, attempts, awardVars, unlockVars, startVars>>

Manual == Documents \cup Articles
MaxNumber == max_attempts + MaxUnlocks
QuizAttempt == [status : {"in_progress", "passed", "failed", "expired"}, is_passed : BOOLEAN,
                overdue : BOOLEAN,      \* expires_at has passed
                recent : BOOLEAN]       \* failed less than retake_delay_days ago

LmsInit ==
    /\ active = Lessons /\ edits = 0
    /\ opened = {} /\ watched = [l \in Lessons |-> 0] /\ completed = {}
    /\ enrollment = "none" /\ progress_percent = 0
    /\ attempts = <<>>
    /\ certificate = "none" /\ skill = "none"
    /\ unlocks = 0 /\ granted = 0
    /\ s_pc = [s \in Starters |-> "idle"]
    /\ s_attempt = [s \in Starters |-> 0]
    /\ s_number = [s \in Starters |-> 0]

-----------------------------------------------------------------------------
(* Lessons and progress.                                                    *)

enroll_user_in_course ==
    /\ enrollment = "none"
    /\ enrollment' = "active"
    /\ UNCHANGED <<lessonVars, progressVars, progress_percent, attempts, awardVars, unlockVars, startVars>>

\* update_lesson with is_active, or delete_lesson; enrollments are not touched.
SwitchLesson(l) ==
    /\ edits < MaxEdits
    /\ edits' = edits + 1
    /\ active' = IF l \in active THEN active \ {l} ELSE active \cup {l}
    /\ UNCHANGED <<progressVars, enrollmentVars, attempts, awardVars, unlockVars, startVars>>

ensure_lesson_sequence_open(l) ==
    enrollment # "completed" => \A k \in active : k < l => k \in completed

_calculate_percent(seconds) == (seconds * 100) \div duration_seconds

LessonPercent(l, done, seconds) ==
    IF l \in done THEN 100 ELSE IF l \in Manual THEN 0 ELSE _calculate_percent(seconds[l])

\* The average over the active lessons.
EnrollmentPercent(done, seconds) ==
    IF active = {} THEN 0
    ELSE MapThenSumSet(LAMBDA l : LessonPercent(l, done, seconds), active) \div Cardinality(active)

\* Progress rows are counted whether or not their lesson is still active.
_sync_enrollment_progress(done, seconds) ==
    /\ progress_percent' = EnrollmentPercent(done, seconds)
    /\ enrollment' = IF active # {} /\ Cardinality(done) >= Cardinality(active)
                     THEN "completed" ELSE enrollment

Larger(a, b) == IF a > b THEN a ELSE b

\* A media lesson is completed by watching 90% of it, a document or an article
\* by the user's mark, a document only once it was opened.
update_lesson_progress(l, seconds, mark_completed, media_opened) ==
    /\ enrollment \in {"active", "completed"}
    /\ ensure_lesson_sequence_open(l)
    /\ mark_completed => l \in Manual /\ (l \in Documents => media_opened \/ l \in opened)
    /\ opened' = IF media_opened THEN opened \cup {l} ELSE opened
    /\ watched' = [watched EXCEPT ![l] = Larger(@, IF mark_completed THEN duration_seconds ELSE seconds)]
    /\ completed' = IF mark_completed \/ (l \notin Manual /\ _calculate_percent(watched'[l]) >= 90)
                    THEN completed \cup {l} ELSE completed
    /\ _sync_enrollment_progress(completed', watched')
    /\ UNCHANGED <<lessonVars, attempts, awardVars, unlockVars, startVars>>

_stamp_media_opened(l) ==
    /\ enrollment \in {"active", "completed"} /\ l \in Manual /\ l \notin opened
    /\ ensure_lesson_sequence_open(l)
    /\ opened' = opened \cup {l}
    /\ UNCHANGED <<lessonVars, watched, completed, enrollmentVars, attempts, awardVars, unlockVars, startVars>>

-----------------------------------------------------------------------------
(* Quiz attempts.                                                           *)

InProgress == {n \in DOMAIN attempts : attempts[n].status = "in_progress"}
PassedBefore == \E n \in DOMAIN attempts : attempts[n].is_passed
_next_attempt_number == Len(attempts) + 1
allowed_attempts == max_attempts + unlocks

quiz_lessons_remaining ==
    IF enrollment = "completed" THEN 0 ELSE Cardinality(active \ completed)

\* The failure submitted last is still inside retake_delay_days.
Cooling == \E n \in DOMAIN attempts : attempts[n].status = "failed" /\ attempts[n].recent

\* No extra attempt is valid, and the attempt would be a regular one.
MustWait(number) == Cooling /\ number <= max_attempts /\ unlocks = 0

EndStart(s) ==
    /\ s_pc' = [s_pc EXCEPT ![s] = "idle"]
    /\ s_attempt' = [s_attempt EXCEPT ![s] = 0]
    /\ s_number' = [s_number EXCEPT ![s] = 0]

OnlyAttempts == UNCHANGED <<lessonVars, progressVars, enrollmentVars, awardVars, unlockVars>>

\* The live attempt is returned as it is; an overdue one is to be closed.
ReadLiveAttempt(s) ==
    /\ s_pc[s] = "idle" /\ enrollment \in {"active", "completed"}
    /\ InProgress # {} => attempts[Max(InProgress)].overdue
    /\ s_pc' = [s_pc EXCEPT ![s] = IF InProgress = {} THEN "checking" ELSE "closing"]
    /\ s_attempt' = [s_attempt EXCEPT ![s] = IF InProgress = {} THEN 0 ELSE Max(InProgress)]
    /\ UNCHANGED <<s_number, attempts>> /\ OnlyAttempts

\* The status is saved over whatever it is by now.
CloseOverdue(s) ==
    /\ s_pc[s] = "closing"
    /\ attempts' = [attempts EXCEPT ![s_attempt[s]].status = "expired"]
    /\ s_pc' = [s_pc EXCEPT ![s] = "checking"]
    /\ s_attempt' = [s_attempt EXCEPT ![s] = 0]
    /\ UNCHANGED s_number /\ OnlyAttempts

CheckReady(s) ==
    /\ s_pc[s] = "checking"
    /\ IF PassedBefore \/ quiz_lessons_remaining > 0
       THEN EndStart(s)
       ELSE s_pc' = [s_pc EXCEPT ![s] = "ready"] /\ UNCHANGED <<s_attempt, s_number>>
    /\ UNCHANGED attempts /\ OnlyAttempts

TakeNumber(s) ==
    /\ s_pc[s] = "ready"
    /\ IF _next_attempt_number > allowed_attempts \/ MustWait(_next_attempt_number)
       THEN EndStart(s)
       ELSE /\ s_pc' = [s_pc EXCEPT ![s] = "numbered"]
            /\ s_number' = [s_number EXCEPT ![s] = _next_attempt_number]
            /\ UNCHANGED s_attempt
    /\ UNCHANGED attempts /\ OnlyAttempts

NewAttempt == [status |-> "in_progress", is_passed |-> FALSE, overdue |-> FALSE, recent |-> FALSE]

\* Mutant: attempt numbers are not unique.
CreateDuplicate(s) ==
    /\ s_pc[s] = "numbered"
    /\ attempts' = Append(attempts, NewAttempt)
    /\ EndStart(s) /\ OnlyAttempts

\* The unique constraint refuses a number that was taken in the meantime.
CreateAttempt(s) ==
    /\ s_pc[s] = "numbered"
    /\ attempts' = IF s_number[s] > Len(attempts) THEN Append(attempts, NewAttempt) ELSE attempts
    /\ EndStart(s) /\ OnlyAttempts

start_quiz_attempt(s) ==
    \/ ReadLiveAttempt(s) \/ CloseOverdue(s) \/ CheckReady(s) \/ TakeNumber(s) \/ CreateAttempt(s)

TimeLimitPasses(n) ==
    /\ n \in InProgress /\ ~attempts[n].overdue
    /\ attempts' = [attempts EXCEPT ![n].overdue = TRUE]
    /\ UNCHANGED startVars /\ OnlyAttempts

RetakeDelayPasses(n) ==
    /\ attempts[n].recent
    /\ attempts' = [attempts EXCEPT ![n].recent = FALSE]
    /\ UNCHANGED startVars /\ OnlyAttempts

-----------------------------------------------------------------------------
(* Results and awards.                                                      *)

SubmitFails(n) ==
    /\ n \in InProgress /\ ~attempts[n].overdue
    /\ attempts' = [attempts EXCEPT ![n].status = "failed", ![n].recent = TRUE]
    /\ UNCHANGED startVars /\ OnlyAttempts

complete_enrollment_after_pass == enrollment' = "completed"

\* get_or_create by user and course; a soft-deleted row is not found and still
\* holds the unique key, so that creating it fails.
create_skill_for_certificate == skill # "deleted" /\ skill' = "held"

issue_certificate_for_attempt ==
    /\ certificate' = IF certificate = "none" THEN "issued" ELSE certificate
    /\ create_skill_for_certificate
    /\ complete_enrollment_after_pass

\* Mutant: a pass leaves the enrollment to the lessons.
PassOnlyRecorded(n) ==
    /\ n \in InProgress /\ ~attempts[n].overdue
    /\ attempts' = [attempts EXCEPT ![n].status = "passed", ![n].is_passed = TRUE]
    /\ UNCHANGED <<lessonVars, progressVars, enrollmentVars, awardVars, unlockVars, startVars>>

\* A submission that is refused, or fails on the way, leaves nothing behind
\* (an overdue one too: EXPIRED is rolled back with the error that follows).
SubmitPasses(n) ==
    /\ n \in InProgress /\ ~attempts[n].overdue
    /\ attempts' = [attempts EXCEPT ![n].status = "passed", ![n].is_passed = TRUE]
    /\ IF is_required_for_certificate THEN issue_certificate_for_attempt
       ELSE complete_enrollment_after_pass /\ UNCHANGED awardVars
    /\ UNCHANGED <<lessonVars, progressVars, progress_percent, unlockVars, startVars>>

submit_quiz_attempt(n) == SubmitFails(n) \/ SubmitPasses(n)

revoke_certificate ==
    /\ certificate # "none"
    /\ certificate' = "revoked" /\ skill' = "deleted"
    /\ UNCHANGED <<lessonVars, progressVars, enrollmentVars, attempts, unlockVars, startVars>>

unlock_quiz_for_user ==
    /\ granted < MaxUnlocks
    /\ unlocks' = unlocks + 1 /\ granted' = granted + 1
    /\ UNCHANGED <<lessonVars, progressVars, enrollmentVars, attempts, awardVars, startVars>>

UnlockLapses ==
    /\ unlocks > 0 /\ unlocks' = unlocks - 1
    /\ UNCHANGED <<granted, lessonVars, progressVars, enrollmentVars, attempts, awardVars, startVars>>

-----------------------------------------------------------------------------
LmsNext ==
    \/ enroll_user_in_course
    \/ \E l \in Lessons :
        \/ SwitchLesson(l) \/ _stamp_media_opened(l)
        \/ \E seconds \in 0..duration_seconds, mark, open \in BOOLEAN :
            update_lesson_progress(l, seconds, mark, open)
    \/ \E s \in Starters : start_quiz_attempt(s)
    \/ \E n \in DOMAIN attempts :
        TimeLimitPasses(n) \/ RetakeDelayPasses(n) \/ submit_quiz_attempt(n)
    \/ revoke_certificate \/ unlock_quiz_for_user \/ UnlockLapses

LmsSpec == LmsInit /\ [][LmsNext]_lmsVars

-----------------------------------------------------------------------------
LmsTypeOK ==
    /\ active \subseteq Lessons /\ opened \subseteq Lessons /\ completed \subseteq Lessons
    /\ watched \in [Lessons -> 0..duration_seconds]
    /\ enrollment \in {"none", "active", "completed"} /\ progress_percent \in 0..100
    /\ Len(attempts) <= MaxNumber /\ \A n \in DOMAIN attempts : attempts[n] \in QuizAttempt
    /\ certificate \in {"none", "issued", "revoked"} /\ skill \in {"none", "held", "deleted"}
    /\ unlocks \in 0..granted /\ granted \in 0..MaxUnlocks
    /\ s_pc \in [Starters -> {"idle", "closing", "checking", "ready", "numbered"}]
    /\ s_attempt \in [Starters -> 0..MaxNumber] /\ s_number \in [Starters -> 0..MaxNumber]

\* However many requests start attempts at once, a user never has more of them
\* than max_attempts and the extra ones ever granted (services.py,
\* start_quiz_attempt and the unique attempt number).
AttemptsWithinAllowance == Len(attempts) <= max_attempts + granted

\* A pass completes the enrollment and, where the quiz asks for it, earns the
\* certificate; nothing else earns one (services.py, submit_quiz_attempt).
PassesAreAwarded ==
    /\ PassedBefore => enrollment = "completed"
    /\ PassedBefore /\ is_required_for_certificate <=> certificate # "none"

\* The user holds the skill of a certificate exactly while it stands, even when
\* an attempt that was open at the revocation is passed afterwards (services.py,
\* revoke_certificate, create_skill_for_certificate).
SkillFollowsCertificate == skill = "held" <=> certificate = "issued"

\* What was learned stays: repeated and late progress reports, edits of the
\* course and overlapping requests never take back watched seconds, a completed
\* lesson, a completed enrollment or a pass (services.py,
\* update_lesson_progress: "Update lesson progress monotonically").
NothingIsUnlearned ==
    [][/\ \A l \in Lessons : watched'[l] >= watched[l]
       /\ completed \subseteq completed'
       /\ enrollment = "completed" => enrollment' = "completed"
       /\ \A n \in DOMAIN attempts : attempts[n].is_passed => attempts'[n].is_passed]_lmsVars

\* What _sync_enrollment_progress says of its formula: "k of n lessons" and the
\* percentage always tell the same story. So the lessons complete an enrollment
\* only with a full bar.
LessonsCompleteWithFullBar ==
    [][enrollment = "active" /\ enrollment' = "completed" /\ UNCHANGED attempts
        => progress_percent' = 100]_lmsVars

\* get_quiz_attempt_state, and what start_quiz_attempt would do now.
LiveAttempt == \E n \in InProgress : ~attempts[n].overdue
can_attempt ==
    /\ enrollment # "none" /\ ~PassedBefore
    /\ LiveAttempt \/ quiz_lessons_remaining = 0
    /\ _next_attempt_number <= allowed_attempts /\ ~MustWait(_next_attempt_number)
StartWouldSucceed ==
    /\ enrollment # "none"
    /\ \/ InProgress # {} /\ ~attempts[Max(InProgress)].overdue
       \/ /\ ~PassedBefore /\ quiz_lessons_remaining = 0
          /\ _next_attempt_number <= allowed_attempts /\ ~MustWait(_next_attempt_number)

\* get_quiz_attempt_state is "the exact mirror" of start_quiz_attempt's policy.
StateMirrorsStart == can_attempt <=> StartWouldSucceed
=============================================================================
