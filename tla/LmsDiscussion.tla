---------------------------- MODULE LmsDiscussion ----------------------------
(* The discussion under one lesson question (apps/lms): answers, replies one *)
(* level deep, acceptance, moderation, and deletion that leaves a tombstone   *)
(* when somebody else's text would go with it. No request locks a row: each   *)
(* loads what it acts on and decides in a READ COMMITTED transaction, and     *)
(* the foreign keys of the table are checked when that commits.               *)
EXTENDS Naturals

CONSTANTS
    Users,                  \* members and admins, each with one request at a time
    MaxAnswers,             \* bound: answers posted to the question
    MaxRequests,            \* bound: requests to the discussion
    DiscussionStatus        \* the statuses admins set, among them "visible"

ASSUME DiscussionAssumption ==
    /\ MaxAnswers \in Nat \ {0} /\ MaxRequests \in Nat
    /\ "visible" \in DiscussionStatus /\ {"none", "gone"} \cap DiscussionStatus = {}

Answers == 1..MaxAnswers
Question == 0               \* the row a request is about, when it is not an answer
NoAnswer == 0                   \* no parent, no reply_to
Inputs == DiscussionStatus \cup {"other"}
Statuses == DiscussionStatus \cup {"deleted"}

VARIABLES
    q_status,               \* of the question; "gone" when its row is deleted
    status, parent, reply_to, is_accepted,      \* of the answers; "none" before
    d_pc, d_target, d_copy, d_to, d_seen,     \* of the requests
    crossed,                \* answers shown while a deletion was past its look at them
    stale,                  \* a moderation has saved an acceptance out of date
    requests

answerVars == <<status, parent, reply_to, is_accepted>>
talkVars == <<d_pc, d_target, d_copy, d_to, d_seen>>
historyVars == <<crossed, stale>>
discussionVars == <<q_status, answerVars, talkVars, historyVars, requests>>

NoCopy == [status |-> "none", is_accepted |-> FALSE]

DiscussionInit ==
    /\ q_status = "visible"
    /\ \E posted \in Answers \cup {0}, thread \in BOOLEAN :
          /\ status = [a \in Answers |-> IF a <= posted THEN "visible" ELSE "none"]
          /\ parent = [a \in Answers |-> IF thread /\ a \in 2..posted THEN 1 ELSE NoAnswer]
          /\ reply_to = [a \in Answers |-> IF thread /\ a \in 2..posted THEN a - 1 ELSE NoAnswer]
    /\ is_accepted = [a \in Answers |-> FALSE]
    /\ d_pc = [u \in Users |-> "idle"] /\ d_target = [u \in Users |-> Question]
    /\ d_copy = [u \in Users |-> NoCopy] /\ d_to = [u \in Users |-> NoAnswer]
    /\ d_seen = [u \in Users |-> {}]
    /\ crossed = {} /\ stale = FALSE /\ requests = 0

-----------------------------------------------------------------------------
Present == {a \in Answers : status[a] \notin {"none", "gone"}}
Visible == {a \in Answers : status[a] = "visible"}
Under(a) == {b \in Present : parent[b] = a \/ reply_to[b] = a}

Reset(u) ==
    /\ d_pc' = [d_pc EXCEPT ![u] = "idle"] /\ d_target' = [d_target EXCEPT ![u] = Question]
    /\ d_copy' = [d_copy EXCEPT ![u] = NoCopy] /\ d_to' = [d_to EXCEPT ![u] = NoAnswer]
    /\ d_seen' = [d_seen EXCEPT ![u] = {}]

\* The view loads the question or the answer.
LoadTarget(u, t) ==
    /\ d_pc[u] = "idle" /\ requests < MaxRequests /\ requests' = requests + 1
    /\ IF t = Question THEN q_status # "gone" ELSE t \in Present
    /\ d_pc' = [d_pc EXCEPT ![u] = "loaded"] /\ d_target' = [d_target EXCEPT ![u] = t]
    /\ d_copy' = [d_copy EXCEPT ![u] =
                    IF t = Question THEN [status |-> q_status, is_accepted |-> FALSE]
                    ELSE [status |-> status[t], is_accepted |-> is_accepted[t]]]
    /\ UNCHANGED <<q_status, answerVars, d_to, d_seen, historyVars>>

Loaded(u, t) == d_pc[u] = "loaded" /\ d_target[u] = t

Deleting == {"looking", "looked", "erasing"}
AnyAt(steps) == \E v \in Users : d_pc[v] \in steps

-----------------------------------------------------------------------------
\* create_lesson_answer looks up the answer replied to; its own is seen by others
\* once it commits.
create_lesson_answer(u, to) ==
    /\ Loaded(u, Question) /\ to # NoAnswer => status[to] = "visible"
    /\ d_pc' = [d_pc EXCEPT ![u] = "posting"] /\ d_to' = [d_to EXCEPT ![u] = to]
    /\ d_copy' = [d_copy EXCEPT ![u] = NoCopy]
    /\ UNCHANGED <<q_status, answerVars, d_target, d_seen, historyVars, requests>>

\* A reply to a reply hangs under the answer that began the thread.
Anchor(to) == IF to # NoAnswer /\ parent[to] # NoAnswer THEN parent[to] ELSE to

NextRow(a) == status[a] = "none" /\ \A b \in Answers : b < a => status[b] # "none"

AnswerCommits(u) ==
    /\ d_pc[u] = "posting"
    /\ \E new \in Answers : LET to == d_to[u] IN
       /\ NextRow(new)
       /\ IF q_status # "gone" /\ {to, Anchor(to)} \subseteq Present \cup {NoAnswer}
          THEN /\ status' = [status EXCEPT ![new] = "visible"]
               /\ parent' = [parent EXCEPT ![new] = Anchor(to)]
               /\ reply_to' = [reply_to EXCEPT ![new] = to]
               /\ crossed' = crossed \cup (IF AnyAt({"looking", "looked"}) THEN {new} ELSE {})
               /\ UNCHANGED is_accepted
          ELSE UNCHANGED <<answerVars, crossed>>
    /\ Reset(u)
    /\ UNCHANGED <<q_status, stale, requests>>

\* Mutant: the acceptance of another answer is left.
AcceptsAnother(u, a) ==
    /\ Loaded(u, Question) /\ a \in Present
    /\ is_accepted' = [is_accepted EXCEPT ![a] = TRUE]
    /\ Reset(u)
    /\ UNCHANGED <<q_status, status, parent, reply_to, historyVars, requests>>

accept_lesson_answer(u, a) ==
    /\ Loaded(u, Question) /\ a \in Present
    /\ is_accepted' = [b \in Answers |-> b = a]
    /\ Reset(u)
    /\ UNCHANGED <<q_status, status, parent, reply_to, historyVars, requests>>

-----------------------------------------------------------------------------
(* Deletion: look for what others wrote, collect the rows that go along, and *)
(* erase them. Each is a query or a statement of its own.                    *)

Step(u, pc) ==
    /\ d_pc' = [d_pc EXCEPT ![u] = pc] /\ d_copy' = [d_copy EXCEPT ![u] = NoCopy]
    /\ UNCHANGED <<q_status, answerVars, d_target, d_to, d_seen>>

\* A question with visible answers leaves a tombstone.
delete_lesson_question(u) ==
    /\ Loaded(u, Question) /\ d_copy[u].status # "deleted"
    /\ IF Visible = {} THEN Step(u, "looked")
       ELSE q_status' = "deleted" /\ Reset(u) /\ UNCHANGED answerVars
    /\ UNCHANGED <<historyVars, requests>>

\* So does an answer with visible replies, those of its thread being looked for
\* first and those that name it next.
LookAmong(u, a, replies, pc) ==
    /\ IF replies \cap Visible = {} THEN Step(u, pc)
       ELSE /\ status' = [status EXCEPT ![a] = IF a \in Present THEN "deleted" ELSE @]
            /\ Reset(u) /\ UNCHANGED <<q_status, parent, reply_to, is_accepted>>
    /\ UNCHANGED <<historyVars, requests>>

delete_lesson_answer(u, a) ==
    \/ /\ Loaded(u, a) /\ d_copy[u].status # "deleted"
       /\ LookAmong(u, a, {b \in Present : parent[b] = a}, "looking")
    \/ /\ d_pc[u] = "looking" /\ d_target[u] = a
       /\ LookAmong(u, a, {b \in Present : reply_to[b] = a}, "looked")

\* Django collects the rows that go with any other one before it deletes them.
Collect(u) ==
    /\ d_pc[u] = "looked"
    /\ d_pc' = [d_pc EXCEPT ![u] = "erasing"]
    /\ d_seen' = [d_seen EXCEPT ![u] =
                     IF d_target[u] = Question THEN Present ELSE Under(d_target[u])]
    /\ UNCHANGED <<q_status, answerVars, d_target, d_copy, d_to, historyVars, requests>>

Erase(rows) ==
    /\ status' = [a \in Answers |-> IF a \in rows THEN "gone" ELSE status[a]]
    /\ is_accepted' = [a \in Answers |-> a \notin rows /\ is_accepted[a]]
    /\ reply_to' = [a \in Answers |->
                      IF {a, reply_to[a]} \cap rows # {} THEN NoAnswer ELSE reply_to[a]]
    /\ parent' = [a \in Answers |-> IF a \in rows THEN NoAnswer ELSE parent[a]]

\* Mutant: whatever hangs under the question goes with it.
CascadeInDatabase(u) ==
    /\ d_pc[u] = "erasing" /\ d_target[u] = Question
    /\ q_status' = "gone" /\ Erase(Present)
    /\ Reset(u)
    /\ UNCHANGED <<historyVars, requests>>

\* An answer committed meanwhile still refers to the question: the transaction
\* fails and everything stays.
QuestionErased(u) ==
    /\ d_pc[u] = "erasing" /\ d_target[u] = Question
    /\ IF Present \subseteq d_seen[u]
       THEN q_status' = "gone" /\ Erase(Present)
       ELSE UNCHANGED <<q_status, answerVars>>
    /\ Reset(u)
    /\ UNCHANGED <<historyVars, requests>>

\* The answer goes with the hidden replies under it.
AnswerErased(u, a) ==
    /\ d_pc[u] = "erasing" /\ d_target[u] = a
    /\ IF q_status # "gone" /\ Under(a) \subseteq d_seen[u]
       THEN /\ Erase((d_seen[u] \cap {b \in Present : parent[b] = a}) \cup ({a} \cap Present))
       ELSE UNCHANGED answerVars
    /\ Reset(u)
    /\ UNCHANGED <<q_status, historyVars, requests>>

-----------------------------------------------------------------------------
moderate_lesson_question(u, s) ==
    /\ Loaded(u, Question) /\ q_status # "gone" /\ s \in DiscussionStatus
    /\ q_status' = s
    /\ Reset(u)
    /\ UNCHANGED <<answerVars, historyVars, requests>>

\* Saves the status and the acceptance; without a new acceptance, the one loaded.
moderate_lesson_answer(u, a, s, accept) ==
    /\ Loaded(u, a) /\ a \in Present /\ s \in DiscussionStatus
    /\ status' = [status EXCEPT ![a] = s]
    /\ is_accepted' = [b \in Answers |->
                         IF b = a
                         THEN accept = "yes" \/ (accept = "unsaid" /\ d_copy[u].is_accepted)
                         ELSE accept # "yes" /\ is_accepted[b]]
    /\ crossed' = crossed \cup (IF s = "visible" /\ AnyAt(Deleting)
                                THEN {a} \ Visible ELSE {})
    /\ stale' = (stale \/ (accept = "unsaid" /\ d_copy[u].is_accepted /\ ~is_accepted[a]))
    /\ Reset(u)
    /\ UNCHANGED <<q_status, parent, reply_to, requests>>

\* The request is refused (not found, not the author's, nothing to reply to), or
\* the row it saves has gone; its transaction changes nothing.
Refused(u) ==
    /\ d_pc[u] # "idle"
    /\ Reset(u)
    /\ UNCHANGED <<q_status, answerVars, historyVars, requests>>

DiscussionNext ==
    \E u \in Users :
        \/ \E t \in {Question} \cup Answers : LoadTarget(u, t)
        \/ \E to \in {NoAnswer} \cup Answers : create_lesson_answer(u, to)
        \/ AnswerCommits(u)
        \/ delete_lesson_question(u) \/ Collect(u) \/ QuestionErased(u)
        \/ \E s \in Inputs : moderate_lesson_question(u, s)
        \/ \E a \in Answers :
              \/ accept_lesson_answer(u, a)
              \/ delete_lesson_answer(u, a) \/ AnswerErased(u, a)
              \/ \E s \in Inputs, accept \in {"yes", "no", "unsaid"} :
                    moderate_lesson_answer(u, a, s, accept)
        \/ Refused(u)

DiscussionSpec == DiscussionInit /\ [][DiscussionNext]_discussionVars

-----------------------------------------------------------------------------
\* Type invariant of the question, its answers and the requests.
DiscussionTypeOK ==
    /\ q_status \in Statuses \cup {"gone"}
    /\ status \in [Answers -> Statuses \cup {"none", "gone"}]
    /\ parent \in [Answers -> Answers \cup {NoAnswer}] /\ reply_to \in [Answers -> Answers \cup {NoAnswer}]
    /\ is_accepted \in [Answers -> BOOLEAN]
    /\ d_pc \in [Users -> {"idle", "loaded", "posting", "looking", "looked", "erasing"}]
    /\ d_target \in [Users -> Answers \cup {Question}] /\ d_to \in [Users -> Answers \cup {NoAnswer}]
    /\ d_copy \in [Users -> [status : Statuses \cup {"none"}, is_accepted : BOOLEAN]]
    /\ d_seen \in [Users -> SUBSET Answers]
    /\ crossed \subseteq Answers /\ stale \in BOOLEAN
    /\ requests \in 0..MaxRequests

\* A deletion destroys somebody else's visible answer only when that was posted, or
\* shown again by an admin, between the deletion's look and its collection of the
\* rows, or shown again before they are erased. Whatever else crosses with it is
\* spared: what was there is seen, and what is posted later makes it fail
\* (delete_lesson_question, delete_lesson_answer).
VisibleAnswersSurvive ==
    [][\A a \in Visible : status'[a] = "gone" =>
          a \in crossed \/ \E u \in Users : d_pc[u] = "erasing" /\ d_target[u] = a]_discussionVars

\* Not kept: a question is erased only without visible answers, "so that the valuable
\* answers of others are not destroyed" (docstring of delete_lesson_question).
QuestionsGoAlone ==
    [][q_status # "gone" /\ q_status' = "gone" => Visible = {}]_discussionVars

\* Threads are one level deep and whole, as LessonAnswer promises: a reply hangs
\* under an answer that is there and hangs under nothing, and answers one of the
\* same thread.
ThreadsAreOneLevel ==
    \A a \in Present :
        parent[a] # NoAnswer =>
            /\ parent[a] \in Present /\ parent[parent[a]] = NoAnswer
            /\ reply_to[a] \in {NoAnswer, parent[a]} \cup {b \in Present : parent[b] = parent[a]}

\* At most one answer is the accepted one, whoever accepts at the same time,
\* until a moderation that says nothing of acceptance saves the one it loaded.
OneAcceptedAnswer ==
    ~stale => \A a, b \in Answers : is_accepted[a] /\ is_accepted[b] => a = b
=============================================================================
