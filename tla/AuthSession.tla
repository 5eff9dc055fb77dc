---------------------------- MODULE AuthSession ----------------------------
(* Tracked login sessions of one user (apps/authentication/services.py):    *)
(* password logins that check the password and create the session row in    *)
(* separate steps, the transactions that revoke one session or all of them  *)
(* (revoke_auth_session, change_password, the two password resets), the     *)
(* per-request validity check with its cached verdict, and token refresh.   *)
(* A revoking transaction clears the cached verdicts while it is open; its  *)
(* rows change when it commits.                                             *)
EXTENDS Naturals

CONSTANTS
    Sessions, Logins, TokenRequests,
    Operations,     \* transactions that revoke sessions
    MaxPasswords,   \* bound: passwords the user ever has
    NoSession

ASSUME PasswordBound == MaxPasswords \in Nat
ASSUME NoSessionIsNew == NoSession \notin Sessions

VARIABLES
    session,    \* each session row: "none", "live" or "revoked"
    under,      \* the password each session was opened with
    password,   \* the current password (a version number)
    cached,     \* session_validity_cache_key: "none", "valid" or "revoked"
    rotated,    \* sessions whose refresh token is no longer refresh_jti
    l_pc, l_password,
    q_pc, q_session, q_seen,
    op, op_todo, op_done, op_keep,
    kept,       \* sessions a password change left alone on purpose
    straddling  \* sessions whose login overlapped a password operation

loginVars == <<l_pc, l_password>>
tokenVars == <<q_pc, q_session, q_seen>>
opVars == <<op, op_todo, op_done, op_keep>>
sessionVars == <<session, under, password, cached, rotated, loginVars, tokenVars,
                 opVars, kept, straddling>>

SessionInit ==
    /\ session = [s \in Sessions |-> "none"]
    /\ under = [s \in Sessions |-> 0]
    /\ password = 0
    /\ cached = [s \in Sessions |-> "none"]
    /\ rotated = {} /\ kept = {} /\ straddling = {}
    /\ l_pc = [l \in Logins |-> "idle"]
    /\ l_password = [l \in Logins |-> 0]
    /\ q_pc = [q \in TokenRequests |-> "idle"]
    /\ q_session = [q \in TokenRequests |-> NoSession]
    /\ q_seen = [q \in TokenRequests |-> "none"]
    /\ op = [o \in Operations |-> "none"]
    /\ op_todo = [o \in Operations |-> {}]
    /\ op_done = [o \in Operations |-> {}]
    /\ op_keep = [o \in Operations |-> NoSession]

LiveSessions == {s \in Sessions : session[s] = "live"}
PasswordOperation(o) == op[o] \in {"change", "reset"}
Locked == UNION {op_todo[o] \cup op_done[o] : o \in Operations}

-----------------------------------------------------------------------------
(* Logging in: check_password on the row that was read, then the session.   *)

login_with_password(l) ==
    /\ l_pc[l] = "idle"
    /\ l_pc' = [l_pc EXCEPT ![l] = "checked"]
    /\ l_password' = [l_password EXCEPT ![l] = password]
    /\ UNCHANGED <<session, under, password, cached, rotated, tokenVars, opVars,
                   kept, straddling>>

_build_login_result(l, s) ==
    /\ l_pc[l] = "checked" /\ session[s] = "none"
    /\ session' = [session EXCEPT ![s] = "live"]
    /\ under' = [under EXCEPT ![s] = l_password[l]]
    /\ straddling' = IF l_password[l] # password \/ \E o \in Operations : PasswordOperation(o)
                     THEN straddling \cup {s} ELSE straddling
    /\ l_pc' = [l_pc EXCEPT ![l] = "idle"]
    /\ l_password' = [l_password EXCEPT ![l] = 0]
    /\ UNCHANGED <<password, cached, rotated, tokenVars, opVars, kept>>

-----------------------------------------------------------------------------
(* Revoking. The rows of a transaction are locked from its start.           *)

Start(o, kind, sessions, keep) ==
    /\ op[o] = "none" /\ sessions \cap Locked = {}
    /\ op' = [op EXCEPT ![o] = kind]
    /\ op_todo' = [op_todo EXCEPT ![o] = sessions]
    /\ op_keep' = [op_keep EXCEPT ![o] = keep]
    /\ UNCHANGED <<session, under, password, cached, rotated, loginVars, tokenVars,
                   op_done, kept, straddling>>

RevokeOne(o, s) == s \in LiveSessions /\ Start(o, "revoke", {s}, NoSession)

\* An admin ends every session of the user.
revoke_all_user_sessions(o) == Start(o, "revoke", LiveSessions, NoSession)

\* The session is found by refresh_jti, the first token of the session: after
\* a rotation the token presented finds no session.
logout_user(o, s) == s \notin rotated /\ RevokeOne(o, s)

\* The user row is written first: password operations follow one another.
OnlyPasswordOperation ==
    password < MaxPasswords /\ \A o \in Operations : ~PasswordOperation(o)

change_password(o, keep) ==
    OnlyPasswordOperation /\ Start(o, "change", LiveSessions \ {keep}, keep)

\* Mutant: the reset, too, leaves a session alone.
ResetKeepsOne(o) ==
    /\ OnlyPasswordOperation
    /\ \E s \in LiveSessions : Start(o, "reset", LiveSessions \ {s}, NoSession)

\* forgot_password_confirm and reset_password_with_otp.
reset_password(o) ==
    OnlyPasswordOperation /\ Start(o, "reset", LiveSessions, NoSession)

\* Mutant: the verdict is cached instead of being dropped.
CacheVerdictEarly(s) == [cached EXCEPT ![s] = "revoked"]

invalidate_session_validity_cache(s) == [cached EXCEPT ![s] = "none"]

\* One turn of the loop of revoke_all_user_sessions, or revoke_auth_session.
revoke_auth_session(o, s) ==
    /\ s \in op_todo[o]
    /\ cached' = invalidate_session_validity_cache(s)
    /\ op_todo' = [op_todo EXCEPT ![o] = @ \ {s}]
    /\ op_done' = [op_done EXCEPT ![o] = @ \cup {s}]
    /\ UNCHANGED <<session, under, password, rotated, loginVars, tokenVars, op, op_keep,
                   kept, straddling>>

Close(o) ==
    /\ op' = [op EXCEPT ![o] = "none"]
    /\ op_todo' = [op_todo EXCEPT ![o] = {}]
    /\ op_done' = [op_done EXCEPT ![o] = {}]
    /\ op_keep' = [op_keep EXCEPT ![o] = NoSession]
    /\ UNCHANGED <<under, cached, rotated, loginVars, tokenVars, straddling>>

CommitOperation(o) ==
    /\ op[o] # "none" /\ op_todo[o] = {}
    /\ session' = [s \in Sessions |-> IF s \in op_done[o] THEN "revoked" ELSE session[s]]
    /\ password' = IF PasswordOperation(o) THEN password + 1 ELSE password
    /\ kept' = kept \cup ({op_keep[o]} \cap Sessions)
    /\ Close(o)

\* An error or a lost connection: the rows stay, the cleared verdicts too.
AbortOperation(o) ==
    /\ op[o] # "none"
    /\ Close(o)
    /\ UNCHANGED <<session, password, kept>>

-----------------------------------------------------------------------------
(* Requests that carry a token of the session.                               *)

\* A fresh cached verdict answers by itself and changes nothing; without one,
\* or past the touch window, the row is read.
ReadSession(q, s) ==
    /\ q_pc[q] = "idle" /\ session[s] # "none" /\ cached[s] # "revoked"
    /\ q_pc' = [q_pc EXCEPT ![q] = "read"]
    /\ q_session' = [q_session EXCEPT ![q] = s]
    /\ q_seen' = [q_seen EXCEPT ![q] = session[s]]
    /\ UNCHANGED <<session, under, password, cached, rotated, loginVars, opVars, kept, straddling>>

RequestDone(q) ==
    /\ q_pc' = [q_pc EXCEPT ![q] = "idle"]
    /\ q_session' = [q_session EXCEPT ![q] = NoSession]
    /\ q_seen' = [q_seen EXCEPT ![q] = "none"]
    /\ UNCHANGED <<session, under, password, loginVars, opVars, kept, straddling>>

CacheVerdict(q) ==
    /\ q_pc[q] = "read"
    /\ cached' = [cached EXCEPT ![q_session[q]] = IF q_seen[q] = "live" THEN "valid" ELSE "revoked"]
    /\ RequestDone(q)
    /\ UNCHANGED rotated

validate_and_touch_session(q) ==
    (\E s \in Sessions : ReadSession(q, s)) \/ CacheVerdict(q)

\* SessionAwareTokenRefreshSerializer: the session is read, then the token is
\* rotated.
ReadForRefresh(q, s) ==
    /\ q_pc[q] = "idle" /\ session[s] = "live"
    /\ q_pc' = [q_pc EXCEPT ![q] = "refreshing"]
    /\ q_session' = [q_session EXCEPT ![q] = s]
    /\ UNCHANGED <<session, under, password, cached, rotated, loginVars, q_seen, opVars,
                   kept, straddling>>

RotateToken(q) ==
    /\ q_pc[q] = "refreshing"
    /\ rotated' = rotated \cup {q_session[q]}
    /\ RequestDone(q)
    /\ UNCHANGED cached

\* Mutant: verdicts are stored without a timeout.
NeverExpires(s) == FALSE /\ UNCHANGED sessionVars

\* timeout=LAST_SEEN_TOUCH_SECONDS, or any earlier loss of the key.
VerdictExpires(s) ==
    /\ cached[s] # "none"
    /\ cached' = [cached EXCEPT ![s] = "none"]
    /\ UNCHANGED <<session, under, password, rotated, loginVars, tokenVars, opVars,
                   kept, straddling>>

-----------------------------------------------------------------------------
SessionNext ==
    \/ \E l \in Logins : login_with_password(l) \/ \E s \in Sessions : _build_login_result(l, s)
    \/ \E o \in Operations :
        \/ \E s \in Sessions : \/ RevokeOne(o, s) \/ logout_user(o, s)
                               \/ revoke_auth_session(o, s)
        \/ \E keep \in LiveSessions \cup {NoSession} : change_password(o, keep)
        \/ revoke_all_user_sessions(o) \/ reset_password(o) \/ CommitOperation(o) \/ AbortOperation(o)
    \/ \E q \in TokenRequests :
        \/ validate_and_touch_session(q)
        \/ \E s \in Sessions : ReadForRefresh(q, s)
        \/ RotateToken(q)
    \/ \E s \in Sessions : VerdictExpires(s)

\* A request that has read its session ends (it runs to the end or its worker
\* dies, which is answered for by the client's next request), and the cache
\* drops an entry whose timeout has passed.
SessionFairness ==
    /\ \A q \in TokenRequests : WF_sessionVars(CacheVerdict(q)) /\ WF_sessionVars(RotateToken(q))
    /\ \A s \in Sessions : WF_sessionVars(VerdictExpires(s))

SessionSpec == SessionInit /\ [][SessionNext]_sessionVars /\ SessionFairness

-----------------------------------------------------------------------------
SessionTypeOK ==
    /\ session \in [Sessions -> {"none", "live", "revoked"}]
    /\ under \in [Sessions -> 0..MaxPasswords] /\ password \in 0..MaxPasswords
    /\ cached \in [Sessions -> {"none", "valid", "revoked"}]
    /\ rotated \subseteq Sessions /\ kept \subseteq Sessions /\ straddling \subseteq Sessions
    /\ l_pc \in [Logins -> {"idle", "checked"}] /\ l_password \in [Logins -> 0..MaxPasswords]
    /\ q_pc \in [TokenRequests -> {"idle", "read", "refreshing"}]
    /\ q_session \in [TokenRequests -> Sessions \cup {NoSession}]
    /\ q_seen \in [TokenRequests -> {"none", "live", "revoked"}]
    /\ op \in [Operations -> {"none", "revoke", "change", "reset"}]
    /\ op_todo \in [Operations -> SUBSET Sessions] /\ op_done \in [Operations -> SUBSET Sessions]
    /\ op_keep \in [Operations -> Sessions \cup {NoSession}]

\* A session opened with a password that is no longer the user's does not
\* outlive the change, unless the change kept it or its login overlapped the
\* change (services.py, change_password, reset_password_with_otp).
OldPasswordSessionsEnd ==
    \A s \in LiveSessions : under[s] # password => s \in kept \cup straddling

\* A cached refusal is never wrong: a session the cache calls revoked is
\* revoked in the database, even when a revoking transaction was rolled back
\* (services.py, validate_and_touch_session, invalidate_session_validity_cache).
RefusalsAreTrue ==
    \A s \in Sessions : cached[s] = "revoked" => session[s] = "revoked"

\* Revocation takes hold: whatever requests raced with the commit, there comes
\* a point after which the cache never again calls the session valid and no
\* refresh that saw it live is under way (services.py, the timeout that
\* validate_and_touch_session calls its safety net).
RevocationTakesHold ==
    \A s \in Sessions :
        session[s] = "revoked" ~>
            [](cached[s] # "valid" /\ ~\E q \in TokenRequests : q_pc[q] = "refreshing" /\ q_session[q] = s)

\* What the comment in revoke_auth_session says: a committed revocation works
\* from the next request on, without waiting for the timeout.
RevocationIsImmediate ==
    \A s \in Sessions : session[s] = "revoked" => cached[s] # "valid"
=============================================================================
