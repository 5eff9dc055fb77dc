---------------------------- MODULE OneTimeCode ----------------------------
(* One-time codes of apps/authentication/otp.py for one identifier and one  *)
(* purpose: generate_and_send_otp in its four phases (reserve the cooldown  *)
(* slot in the cache, look at the newest row, persist a row, call the       *)
(* provider outside any transaction, then commit or discard), and verify_otp*)
(* in its read and write steps, under the two kinds of caller it has in     *)
(* services.py:                                                             *)
(*   "plain"   login_otp_verify and the legacy verify_otp, which let each   *)
(*             short transaction of a refusal commit;                       *)
(*   "atomic"  signup_verify, forgot_password_confirm, identifier_add_verify*)
(*             which wrap verification in transaction.atomic and raise on   *)
(*             refusal, so everything verification wrote is rolled back.    *)
EXTENDS Naturals, FiniteSets

CONSTANTS
    Senders,                \* requests for a code being served
    Verifiers,              \* requests that present a code being served
    MaxOtps,                \* bound: rows ever created
    AUTH_OTP_MAX_ATTEMPTS,
    MaxFlushes,             \* bound: times the cache loses the slot early
    MaxRolledBack           \* bound: refusals rolled back, per row

Otps == 1..MaxOtps
Flows == {"plain", "atomic"}

ASSUME BoundsAreNaturals ==
    /\ MaxOtps \in Nat /\ MaxFlushes \in Nat /\ MaxRolledBack \in Nat
    /\ AUTH_OTP_MAX_ATTEMPTS \in Nat \ {0}
ASSUME RequestsAreFinite == IsFiniteSet(Senders) /\ IsFiniteSet(Verifiers)

VARIABLES
    created,    \* number of rows created so far; row ids follow created_at
    rows,       \* rows other transactions can see
    is_used, attempts, expired,
    fresh,      \* rows younger than AUTH_OTP_COOLDOWN_SECONDS
    committed,  \* rows whose delivery was finalised
    delivered,  \* codes that reached the user
    slot,       \* the cooldown key is in the cache
    flushes,
    s_pc, s_otp, s_legacy,
    s_retired,  \* rows the sender's UPDATE has retired, not yet committed
    crossed,    \* rows of a transaction still open when another send retired its rows
    v_pc, v_otp, v_attempts, v_right, v_flow,
    wrong,      \* wrong-code answers given per kind of caller and row
    accepted    \* times each code was accepted for good

rowVars == <<created, rows, is_used, attempts, expired, fresh, committed, crossed>>
slotVars == <<slot, flushes>>
senderVars == <<s_pc, s_otp, s_legacy, s_retired>>
verifierVars == <<v_pc, v_otp, v_attempts, v_right, v_flow>>
otpVars == <<rowVars, delivered, slotVars, senderVars, verifierVars, wrong, accepted>>

OtpInit ==
    /\ created = 0 /\ rows = {} /\ fresh = {} /\ committed = {} /\ delivered = {}
    /\ crossed = {}
    /\ is_used = [o \in Otps |-> FALSE]
    /\ attempts = [o \in Otps |-> 0]
    /\ expired = [o \in Otps |-> FALSE]
    /\ slot = FALSE /\ flushes = 0
    /\ s_pc = [s \in Senders |-> "idle"]
    /\ s_otp = [s \in Senders |-> 0]
    /\ s_legacy = [s \in Senders |-> FALSE]
    /\ s_retired = [s \in Senders |-> {}]
    /\ v_pc = [v \in Verifiers |-> "idle"]
    /\ v_otp = [v \in Verifiers |-> 0]
    /\ v_attempts = [v \in Verifiers |-> 0]
    /\ v_right = [v \in Verifiers |-> FALSE]
    /\ v_flow = [v \in Verifiers |-> "plain"]
    /\ wrong = [f \in Flows |-> [o \in Otps |-> 0]]
    /\ accepted = [o \in Otps |-> 0]

Live == {o \in rows : ~is_used[o]}
Active == {o \in Live : ~expired[o]}
Newest(S) == CHOOSE o \in S : \A p \in S : p <= o

-----------------------------------------------------------------------------
(* Sending a code.                                                          *)

Return(s) ==
    /\ s_pc' = [s_pc EXCEPT ![s] = "idle"]
    /\ s_otp' = [s_otp EXCEPT ![s] = 0]
    /\ s_legacy' = [s_legacy EXCEPT ![s] = FALSE]
    /\ s_retired' = [s_retired EXCEPT ![s] = {}]

\* cache.add claims the slot; a request that finds it taken answers
\* OTPCooldownActive and changes nothing.
_reserve_cooldown_slot(s) ==
    /\ s_pc[s] = "idle" /\ ~slot
    /\ slot' = TRUE
    /\ s_pc' = [s_pc EXCEPT ![s] = "reserved"]
    /\ UNCHANGED <<rowVars, delivered, flushes, s_otp, s_legacy, s_retired, verifierVars, wrong,
                   accepted>>

\* Mutant: the newest active row is not looked at.
CheckNothing(s) ==
    /\ s_pc[s] = "reserved"
    /\ s_pc' = [s_pc EXCEPT ![s] = "clear"]
    /\ UNCHANGED <<rowVars, delivered, slotVars, s_otp, s_legacy, s_retired, verifierVars, wrong,
                   accepted>>

\* The row in the database is the second barrier: a newest active row still in
\* its cooldown releases the slot and refuses the request.
CheckCooldown(s) ==
    LET cooling == Active # {} /\ Newest(Active) \in fresh IN
    /\ s_pc[s] = "reserved"
    /\ s_pc' = [s_pc EXCEPT ![s] = IF cooling THEN "idle" ELSE "clear"]
    /\ slot' = (slot /\ ~cooling)
    /\ UNCHANGED <<rowVars, delivered, flushes, s_otp, s_legacy, s_retired, verifierVars, wrong,
                   accepted>>

\* legacy = TRUE is the call from create_and_send_otp, whose own transaction
\* stays open until the code is sent: the row is not visible before that.
_persist_new_otp(s, legacy) ==
    /\ s_pc[s] = "clear" /\ created < MaxOtps
    /\ created' = created + 1
    /\ rows' = IF legacy THEN rows ELSE rows \cup {created + 1}
    /\ fresh' = fresh \cup {created + 1}
    /\ s_otp' = [s_otp EXCEPT ![s] = created + 1]
    /\ s_legacy' = [s_legacy EXCEPT ![s] = legacy]
    /\ s_pc' = [s_pc EXCEPT ![s] = "sending"]
    /\ UNCHANGED <<is_used, attempts, expired, committed, crossed, delivered, slotVars, s_retired,
                   verifierVars, wrong, accepted>>

ProviderSends(s) ==
    /\ s_pc[s] = "sending"
    /\ delivered' = delivered \cup {s_otp[s]}
    /\ s_pc' = [s_pc EXCEPT ![s] = "sent"]
    /\ UNCHANGED <<rowVars, slotVars, s_otp, s_legacy, s_retired, verifierVars, wrong, accepted>>

\* The provider reports an error: the row is deleted. (Should the message have
\* gone out all the same, its code matches no row.)
_discard_undelivered_otp(s) ==
    /\ s_pc[s] = "sending"
    /\ rows' = rows \ {s_otp[s]}
    /\ fresh' = fresh \ {s_otp[s]}
    /\ s_pc' = [s_pc EXCEPT ![s] = "failed"]
    /\ UNCHANGED <<created, is_used, attempts, expired, committed, crossed, delivered, slotVars,
                   s_otp, s_legacy, s_retired, verifierVars, wrong, accepted>>

_release_cooldown_slot(s) ==
    /\ s_pc[s] = "failed"
    /\ slot' = FALSE
    /\ Return(s)
    /\ UNCHANGED <<rowVars, delivered, flushes, verifierVars, wrong, accepted>>

\* Legacy callers that have retired rows and not committed.
Uncommitted == {q \in Senders : s_pc[q] = "retiring" /\ s_legacy[q]}

\* The UPDATE that retires rows sees what is committed now, and so no row of a
\* legacy caller whose transaction is still open.
Retire(s, others) ==
    /\ s_pc[s] = "sent"
    /\ s_pc' = [s_pc EXCEPT ![s] = "retiring"]
    /\ s_retired' = [s_retired EXCEPT ![s] = others \ {s_otp[s]}]
    /\ crossed' = crossed \cup {s_otp[q] : q \in Uncommitted}
    /\ UNCHANGED <<created, rows, is_used, attempts, expired, fresh, committed, delivered, slotVars,
                   s_otp, s_legacy, verifierVars, wrong, accepted>>

\* Mutant: only codes that have not expired are retired.
CommitSkipsExpired(s) == Retire(s, Active)

\* Every other unused row of the identifier and purpose is retired, after the send.
_commit_otp_delivery(s) == Retire(s, Live)

\* The UPDATE is committed: at once, or with the transaction of a legacy caller, whose
\* row becomes visible with it. (A write to a row
\* in between counts as made before the UPDATE locked that row.)
DeliveryCommits(s) ==
    /\ s_pc[s] = "retiring"
    /\ is_used' = [o \in Otps |-> is_used[o] \/ o \in s_retired[s]]
    /\ rows' = rows \cup {s_otp[s]}
    /\ committed' = committed \cup {s_otp[s]}
    /\ Return(s)
    /\ UNCHANGED <<created, attempts, expired, fresh, crossed, delivered, slotVars,
                   verifierVars, wrong, accepted>>

\* The worker dies: slot and row stay as they are (a legacy row was never
\* visible).
SenderDies(s) ==
    /\ s_pc[s] # "idle"
    /\ Return(s)
    /\ fresh' = IF s_legacy[s] THEN fresh \ {s_otp[s]} ELSE fresh
    /\ UNCHANGED <<created, rows, is_used, attempts, expired, committed, crossed, delivered,
                   slotVars, verifierVars, wrong, accepted>>

generate_and_send_otp(s) ==
    \/ _reserve_cooldown_slot(s) \/ CheckCooldown(s)
    \/ \E legacy \in BOOLEAN : _persist_new_otp(s, legacy)
    \/ ProviderSends(s) \/ _discard_undelivered_otp(s) \/ _release_cooldown_slot(s)
    \/ _commit_otp_delivery(s) \/ DeliveryCommits(s)
    \/ SenderDies(s)

-----------------------------------------------------------------------------
(* Time and the cache. A send takes at most the provider timeout (10 to 15  *)
(* seconds), a fraction of the cooldown (60) and of the lifetime (300), so  *)
(* neither runs out while a send is under way.                              *)

NoSendUnderWay == \A s \in Senders : s_pc[s] = "idle"

SlotExpires ==
    /\ slot /\ NoSendUnderWay
    /\ slot' = FALSE
    /\ UNCHANGED <<rowVars, delivered, flushes, senderVars, verifierVars, wrong, accepted>>

CacheFlush ==
    /\ slot /\ flushes < MaxFlushes
    /\ slot' = FALSE /\ flushes' = flushes + 1
    /\ UNCHANGED <<rowVars, delivered, senderVars, verifierVars, wrong, accepted>>

CooldownPasses(o) ==
    /\ o \in fresh \cap rows /\ NoSendUnderWay
    /\ fresh' = fresh \ {o}
    /\ UNCHANGED <<created, rows, is_used, attempts, expired, committed, crossed, delivered,
                   slotVars, senderVars, verifierVars, wrong, accepted>>

LifetimePasses(o) ==
    /\ o \in rows \ fresh /\ ~expired[o]
    /\ expired' = [expired EXCEPT ![o] = TRUE]
    /\ UNCHANGED <<created, rows, is_used, attempts, fresh, committed, crossed, delivered,
                   slotVars, senderVars, verifierVars, wrong, accepted>>

-----------------------------------------------------------------------------
(* Verifying a code.                                                        *)

\* The newest unused row is read, with its attempts; without
\* one the answer is OTPNotFound. right: the code presented is this row's,
\* which takes that it was delivered.
ReadNewest(v, flow, right) ==
    /\ v_pc[v] = "idle" /\ Live # {}
    /\ right => Newest(Live) \in delivered
    /\ v_pc' = [v_pc EXCEPT ![v] = "read"]
    /\ v_otp' = [v_otp EXCEPT ![v] = Newest(Live)]
    /\ v_attempts' = [v_attempts EXCEPT ![v] = attempts[Newest(Live)]]
    /\ v_right' = [v_right EXCEPT ![v] = right]
    /\ v_flow' = [v_flow EXCEPT ![v] = flow]
    /\ UNCHANGED <<rowVars, delivered, slotVars, senderVars, wrong, accepted>>

\* Mutant: the row is updated without asking that it is still unused.
MarkUnconditionally(o) == o \in rows

\* Does the conditional update find its row? It does not when the row was
\* used or deleted since it was read.
_mark_otp_used(o) == o \in Live

\* The request is over and its memory with it.
Forget(v) ==
    /\ v_pc' = [v_pc EXCEPT ![v] = "idle"]
    /\ v_otp' = [v_otp EXCEPT ![v] = 0]
    /\ v_attempts' = [v_attempts EXCEPT ![v] = 0]
    /\ v_right' = [v_right EXCEPT ![v] = FALSE]
    /\ v_flow' = [v_flow EXCEPT ![v] = "plain"]

Answer(v) ==
    /\ Forget(v)
    /\ UNCHANGED <<created, rows, expired, fresh, committed, crossed, delivered, slotVars,
                   senderVars>>

\* Too old, or attempts already used up when read: the row is retired, unless
\* the caller's transaction is rolled back by the refusal.
RefuseStale(v) ==
    /\ v_pc[v] = "read"
    /\ expired[v_otp[v]] \/ v_attempts[v] >= AUTH_OTP_MAX_ATTEMPTS
    /\ is_used' = IF v_flow[v] = "plain" THEN [is_used EXCEPT ![v_otp[v]] = TRUE] ELSE is_used
    /\ Answer(v)
    /\ UNCHANGED <<attempts, wrong, accepted>>

\* Mutant: the counter is written from the value that was read.
IncrementFromRead(v) == [attempts EXCEPT ![v_otp[v]] = v_attempts[v] + 1]

\* attempts=F("attempts") + 1, in the database.
_increment_otp_attempts(v) == [attempts EXCEPT ![v_otp[v]] = @ + 1]

Compared(v) ==
    v_pc[v] = "read" /\ ~expired[v_otp[v]] /\ v_attempts[v] < AUTH_OTP_MAX_ATTEMPTS

\* A wrong code: counted if the row is still unused; the count that reaches the
\* limit retires the row in a second transaction.
RefuseWrong(v) ==
    LET o == v_otp[v]
        counts == o \in Live
        plain == v_flow[v] = "plain" IN
    /\ Compared(v) /\ ~v_right[v]
    /\ plain \/ wrong["atomic"][o] < MaxRolledBack
    /\ wrong' = IF counts THEN [wrong EXCEPT ![v_flow[v]][o] = @ + 1] ELSE wrong
    /\ attempts' = IF counts /\ plain THEN _increment_otp_attempts(v) ELSE attempts
    /\ IF counts /\ plain /\ attempts'[o] >= AUTH_OTP_MAX_ATTEMPTS
       THEN /\ v_pc' = [v_pc EXCEPT ![v] = "counted"]
            /\ UNCHANGED <<v_otp, v_attempts, v_right, v_flow>>
       ELSE Forget(v)
    /\ UNCHANGED <<created, rows, is_used, expired, fresh, committed, crossed, delivered,
                   slotVars, senderVars, accepted>>

RetireExhausted(v) ==
    /\ v_pc[v] = "counted"
    /\ is_used' = [is_used EXCEPT ![v_otp[v]] = TRUE]
    /\ Answer(v)
    /\ UNCHANGED <<attempts, wrong, accepted>>

\* The right code: whoever flips is_used wins, the others get OTPNotFound. An
\* atomic caller that fails afterwards (identifier taken, no such user) rolls
\* the use back.
AcceptCode(v) ==
    LET o == v_otp[v] IN
    /\ Compared(v) /\ v_right[v]
    /\ \/ /\ _mark_otp_used(o)
          /\ is_used' = [is_used EXCEPT ![o] = TRUE]
          /\ accepted' = [accepted EXCEPT ![o] = @ + 1]
       \/ /\ ~_mark_otp_used(o) \/ v_flow[v] = "atomic"
          /\ UNCHANGED <<is_used, accepted>>
    /\ Answer(v)
    /\ UNCHANGED <<attempts, wrong>>

VerifierDies(v) ==
    /\ v_pc[v] # "idle"
    /\ Answer(v)
    /\ UNCHANGED <<is_used, attempts, wrong, accepted>>

verify_otp(v) ==
    \/ \E flow \in Flows, right \in BOOLEAN : ReadNewest(v, flow, right)
    \/ RefuseStale(v) \/ RefuseWrong(v) \/ RetireExhausted(v) \/ AcceptCode(v)
    \/ VerifierDies(v)

-----------------------------------------------------------------------------
OtpNext ==
    \/ \E s \in Senders : generate_and_send_otp(s)
    \/ \E v \in Verifiers : verify_otp(v)
    \/ \E o \in Otps : CooldownPasses(o) \/ LifetimePasses(o)
    \/ SlotExpires \/ CacheFlush

OtpSpec == OtpInit /\ [][OtpNext]_otpVars

-----------------------------------------------------------------------------
OtpTypeOK ==
    /\ created \in 0..MaxOtps /\ flushes \in 0..MaxFlushes /\ slot \in BOOLEAN
    /\ rows \subseteq 1..created /\ fresh \subseteq 1..created
    /\ committed \subseteq 1..created /\ crossed \subseteq 1..created
    /\ delivered \subseteq 1..created
    /\ is_used \in [Otps -> BOOLEAN] /\ expired \in [Otps -> BOOLEAN]
    /\ attempts \in [Otps -> Nat]
    /\ s_pc \in [Senders -> {"idle", "reserved", "clear", "sending", "sent", "retiring", "failed"}]
    /\ s_otp \in [Senders -> 0..created] /\ s_legacy \in [Senders -> BOOLEAN]
    /\ s_retired \in [Senders -> SUBSET Otps]
    /\ v_pc \in [Verifiers -> {"idle", "read", "counted"}]
    /\ v_otp \in [Verifiers -> 0..created] /\ v_attempts \in [Verifiers -> Nat]
    /\ v_right \in [Verifiers -> BOOLEAN] /\ v_flow \in [Verifiers -> Flows]
    /\ wrong \in [Flows -> [Otps -> Nat]] /\ accepted \in [Otps -> Nat]

\* A code is accepted at most once, whatever verifications run together and
\* whichever of them die between reading the row and using it (otp.py, the
\* conditional update of _mark_otp_used).
CodeUsedOnce == \A o \in Otps : accepted[o] <= 1

\* Delivery that was finalised leaves one usable code: of the codes whose delivery was
\* committed, at most one is unused, even when an older, slower send commits after a
\* newer one; unless another send retired its rows while the transaction of a legacy
\* caller, its own rows retired, was still open (otp.py, _commit_otp_delivery;
\* services.py, create_and_send_otp).
OneCodeInForce ==
    \A o, p \in committed \cap Live : o = p \/ {o, p} \cap crossed # {}

\* Not kept: a delivery retires "the previous OTPs" (docstring of _commit_otp_delivery).
\* A send that was slow retires the code of a newer one as well.
RetiresPreviousCodes ==
    [][\A s \in Senders : DeliveryCommits(s) =>
          \A o \in s_retired[s] : o < s_otp[s] \/ is_used[o]]_otpVars

\* The attempts counter loses no refusal answered outside a surrounding
\* transaction, and refusals that race past the limit are no more than the
\* other verifications that had read the row in time (otp.py,
\* _increment_otp_attempts and the limit check of verify_otp).
AttemptsCounted ==
    \A o \in Otps :
        /\ attempts[o] = wrong["plain"][o]
        /\ attempts[o] < AUTH_OTP_MAX_ATTEMPTS + Cardinality(Verifiers)

\* As long as the cache keeps its keys, two codes still in their cooldown are
\* never both unused: the slot and the row together space the sends out, also
\* around failed sends and dead workers (otp.py, _reserve_cooldown_slot and
\* the second check of generate_and_send_otp).
SendsAreSpaced ==
    flushes = 0 => \A o, p \in fresh : (~is_used[o] /\ ~is_used[p]) => o = p

\* What the note in verify_otp promises of every caller: a refusal is counted
\* and stays counted when the error is raised, so no row is refused more often
\* than the limit and the verifications under way allow.
EveryRefusalCounts ==
    \A o \in Otps :
        wrong["plain"][o] + wrong["atomic"][o] < AUTH_OTP_MAX_ATTEMPTS + Cardinality(Verifiers)
=============================================================================
