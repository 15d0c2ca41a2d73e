----------------------------- MODULE AuthSession -----------------------------
(***************************************************************************)
(* Refresh-token rotation: AuthSessionService, the login and refresh flows *)
(* of AuthService that use it, logout and the account's status, for the    *)
(* sessions of one account.  Every database call is a step of its own, so  *)
(* calls that present the same token interleave between their reads and    *)
(* their conditional updates.                                              *)
(*                                                                         *)
(* A session is named by the login that creates it.  A session's tokens    *)
(* are numbered in the order it issues them: the random token of a         *)
(* rotation is the next number, and a hash is the token it is the hash of. *)
(***************************************************************************)
EXTENDS Integers, FiniteSets

CONSTANTS
    Logins,         \* login calls
    Refreshes,      \* handleRefreshToken calls
    Lifetime,       \* refreshCookieMaxAgeMs, in ticks
    HistoryLimit,   \* refreshTokenHistoryLimit
    MaxTime,        \* bound: the clock stops here
    MaxFaults,      \* bound: crashes and unexpected errors
    MaxStatusChanges \* bound: changes of the account's status

ASSUME AuthAssumption ==
    /\ Logins \cap Refreshes = {}
    /\ Lifetime \in Nat \ {0}
    /\ HistoryLimit \in Nat \ {0}
    /\ MaxTime \in Nat
    /\ MaxFaults \in Nat
    /\ MaxStatusChanges \in Nat

VARIABLES
    now,            \* the clock
    active,         \* the account's status is "active"
    session,        \* revokedAt of a session document, and whether there is one
    current,        \* the token whose hash is refreshTokenHash
    used,           \* usedTokenHashes
    expiresAt,      \* expiresAt of the session document
    handed,         \* tokens of the session that clients have received
    pc,             \* control point of each call
    token,          \* the token a refresh call presents
    readAt,         \* `now` of a refresh call: the time its filters use
    answer,         \* how a refresh call ended
    faults,         \* crashes and errors so far
    statusChanges   \* changes of the account's status so far

doc    == <<session, current, used, expiresAt>>
call   == <<token, readAt, answer>>
env    == <<now, faults, statusChanges>>
vars   == <<active, doc, handed, pc, call, env>>

Tokens == [session : Logins, gen : Nat]
NoGen  == 0

Exists(s) == session[s] \in {"live", "revoked"}

\* activeSessionFilter(t)
ActiveAt(s, t) == session[s] = "live" /\ expiresAt[s] > t

\* revokeSession: conditional on revokedAt being null.
Revoke(s) == session' = [session EXCEPT ![s] = IF @ = "live" THEN "revoked" ELSE @]

-----------------------------------------------------------------------------
Init ==
    /\ now = 0
    /\ active = TRUE
    /\ session = [s \in Logins |-> "none"]
    /\ current = [s \in Logins |-> NoGen]
    /\ used = [s \in Logins |-> {}]
    /\ expiresAt = [s \in Logins |-> 0]
    /\ handed = [s \in Logins |-> {}]
    /\ pc = [c \in Logins \cup Refreshes |-> "start"]
    /\ token \in [Refreshes -> [session : Logins, gen : {NoGen}]]
    /\ readAt = [c \in Refreshes |-> 0]
    /\ answer = [c \in Refreshes |-> "none"]
    /\ faults = 0
    /\ statusChanges = 0

(* login *)

\* The account is read before the password is compared and its status checked.
CheckLogin(s) ==
    /\ pc[s] = "start"
    /\ pc' = [pc EXCEPT ![s] = IF active THEN "create" ELSE "done"]
    /\ UNCHANGED <<active, doc, handed, call, env>>

\* AuthSessionService.create
CreateSession(s) ==
    /\ pc[s] = "create"
    /\ session' = [session EXCEPT ![s] = "live"]
    /\ current' = [current EXCEPT ![s] = 1]
    /\ expiresAt' = [expiresAt EXCEPT ![s] = now + Lifetime]
    /\ handed' = [handed EXCEPT ![s] = {1}]
    /\ pc' = [pc EXCEPT ![s] = "done"]
    /\ UNCHANGED <<active, used, call, env>>

(* rotate *)

Session(c) == token[c].session
Gen(c)     == token[c].gen

\* The presented token is among the hashes its session remembers.
Reused(c) == Exists(Session(c)) /\ Gen(c) \in used[Session(c)]

\* Mutant: reuse is only looked for once.
NeverReused(c) == FALSE

\* revokeIfReused after the session was not found.
ReusedMeanwhile(c) == Reused(c)

\* Mutant: the update matches the session by its _id alone.
AnyToken(c) == TRUE

\* findOneAndUpdate's filter on refreshTokenHash.
TokenIsCurrent(c) == Gen(c) = current[Session(c)]

\* Mutant: the update does not ask for revokedAt null.
NotExpiredAtRead(c) == expiresAt[Session(c)] > readAt[c]

\* findOneAndUpdate's activeSessionFilter, with the time of the earlier read.
StillActive(c) == ActiveAt(Session(c), readAt[c])

\* $push with $slice: the last HistoryLimit tokens.
Remember(s, n) == {k \in used[s] \cup {n} : k + HistoryLimit > n}

\* A client presents a token it was handed, now or long ago.
Present(c) ==
    /\ pc[c] = "start"
    /\ \E s \in Logins : \E n \in handed[s] :
        token' = [token EXCEPT ![c] = [session |-> s, gen |-> n]]
    /\ pc' = [pc EXCEPT ![c] = "check"]
    /\ UNCHANGED <<active, doc, handed, readAt, answer, env>>

\* revokeIfReused, its query
CheckReuse(c) ==
    /\ pc[c] = "check"
    /\ pc' = [pc EXCEPT ![c] = IF Reused(c) THEN "revoke" ELSE "find"]
    /\ UNCHANGED <<active, doc, handed, call, env>>

FindSession(c) ==
    /\ pc[c] = "find"
    /\ readAt' = [readAt EXCEPT ![c] = now]
    /\ pc' = [pc EXCEPT ![c] =
                IF Gen(c) = current[Session(c)] /\ ActiveAt(Session(c), now)
                THEN "rotate" ELSE "recheck"]
    /\ UNCHANGED <<active, doc, handed, token, answer, env>>

\* The session was not found: its token was just rotated, or it is not valid.
RecheckReuse(c) ==
    /\ pc[c] = "recheck"
    /\ \/ /\ ReusedMeanwhile(c)
          /\ pc' = [pc EXCEPT ![c] = "revoke"]
          /\ UNCHANGED answer
       \/ /\ ~ReusedMeanwhile(c)
          /\ pc' = [pc EXCEPT ![c] = "done"]
          /\ answer' = [answer EXCEPT ![c] = "invalid"]
    /\ UNCHANGED <<active, doc, handed, token, readAt, env>>

\* findOneAndUpdate
Rotate(c) ==
    LET s == Session(c) IN
    /\ pc[c] = "rotate"
    /\ TokenIsCurrent(c)
    /\ StillActive(c)
    /\ current' = [current EXCEPT ![s] = @ + 1]
    /\ used' = [used EXCEPT ![s] = Remember(s, Gen(c))]
    /\ pc' = [pc EXCEPT ![c] = "account"]
    /\ UNCHANGED <<active, session, expiresAt, handed, call, env>>

LoseRace(c) ==
    /\ pc[c] = "rotate"
    /\ ~(TokenIsCurrent(c) /\ StillActive(c))
    /\ pc' = [pc EXCEPT ![c] = "revoke"]
    /\ UNCHANGED <<active, doc, handed, call, env>>

\* "Refresh token reuse detected; session revoked"
RevokeReused(c) ==
    /\ pc[c] = "revoke"
    /\ Revoke(Session(c))
    /\ pc' = [pc EXCEPT ![c] = "done"]
    /\ answer' = [answer EXCEPT ![c] = "reuse"]
    /\ UNCHANGED <<active, current, used, expiresAt, handed, token, readAt, env>>

(* handleRefreshToken, after the rotation *)

\* The token the call's rotation made; the caller receives it.
GrantRefresh(c) ==
    /\ pc[c] = "account"
    /\ active
    /\ handed' = [handed EXCEPT ![Session(c)] = @ \cup {Gen(c) + 1}]
    /\ pc' = [pc EXCEPT ![c] = "done"]
    /\ answer' = [answer EXCEPT ![c] = "granted"]
    /\ UNCHANGED <<active, doc, token, readAt, env>>

AccountUnavailable(c) ==
    /\ pc[c] = "account"
    /\ ~active
    /\ pc' = [pc EXCEPT ![c] = "unavailable"]
    /\ UNCHANGED <<active, doc, handed, call, env>>

RevokeUnavailable(c) ==
    /\ pc[c] = "unavailable"
    /\ Revoke(Session(c))
    /\ pc' = [pc EXCEPT ![c] = "done"]
    /\ answer' = [answer EXCEPT ![c] = "unavailable"]
    /\ UNCHANGED <<active, current, used, expiresAt, handed, token, readAt, env>>

\* The process crashes or the database fails: the client gets no token.
RefreshFails(c) ==
    /\ pc[c] \notin {"start", "done"}
    /\ faults < MaxFaults
    /\ faults' = faults + 1
    /\ pc' = [pc EXCEPT ![c] = "done"]
    /\ answer' = [answer EXCEPT ![c] = "failed"]
    /\ UNCHANGED <<active, doc, handed, token, readAt, now, statusChanges>>

-----------------------------------------------------------------------------
(* Logout, the admin, the TTL index and the clock *)

\* revokeById
Logout(s) ==
    /\ session[s] = "live"
    /\ Revoke(s)
    /\ UNCHANGED <<active, current, used, expiresAt, handed, pc, call, env>>

\* AccountService.updateStatus
UpdateStatus ==
    /\ statusChanges < MaxStatusChanges
    /\ active' = ~active
    /\ statusChanges' = statusChanges + 1
    /\ UNCHANGED <<doc, handed, pc, call, now, faults>>

\* The TTL index on expiresAt removes the document, some time after it is due.
RemoveExpired(s) ==
    /\ Exists(s)
    /\ expiresAt[s] <= now
    /\ session' = [session EXCEPT ![s] = "removed"]
    /\ UNCHANGED <<active, current, used, expiresAt, handed, pc, call, env>>

Tick ==
    /\ now < MaxTime
    /\ now' = now + 1
    /\ UNCHANGED <<active, doc, handed, pc, call, faults, statusChanges>>

-----------------------------------------------------------------------------
RefreshStep(c) ==
    \/ Present(c)
    \/ CheckReuse(c)
    \/ FindSession(c)
    \/ RecheckReuse(c)
    \/ Rotate(c)
    \/ LoseRace(c)
    \/ RevokeReused(c)
    \/ GrantRefresh(c)
    \/ AccountUnavailable(c)
    \/ RevokeUnavailable(c)
    \/ RefreshFails(c)

SessionStep(s) ==
    \/ CheckLogin(s)
    \/ CreateSession(s)
    \/ Logout(s)
    \/ RemoveExpired(s)

Next ==
    \/ \E c \in Refreshes : RefreshStep(c)
    \/ \E s \in Logins : SessionStep(s)
    \/ UpdateStatus
    \/ Tick

Spec == Init /\ [][Next]_vars

-----------------------------------------------------------------------------
(* Properties *)

\* Types, and the bound on usedTokenHashes.
AuthTypeOK ==
    /\ now \in Nat
    /\ active \in BOOLEAN
    /\ session \in [Logins -> {"none", "live", "revoked", "removed"}]
    /\ current \in [Logins -> Nat]
    /\ used \in [Logins -> SUBSET Nat]
    /\ \A s \in Logins : \A j, k \in used[s] : j - k < HistoryLimit
    /\ expiresAt \in [Logins -> Nat]
    /\ handed \in [Logins -> SUBSET Nat]
    /\ pc \in [Logins \cup Refreshes ->
                {"start", "create", "check", "find", "recheck", "rotate",
                 "revoke", "account", "unavailable", "done"}]
    /\ token \in [Refreshes -> Tokens]
    /\ readAt \in [Refreshes -> Nat]
    /\ answer \in [Refreshes -> {"none", "invalid", "reuse", "granted",
                                 "unavailable", "failed"}]
    /\ faults \in Nat
    /\ statusChanges \in Nat

Exchanged(c) ==
    \/ pc[c] \in {"account", "unavailable"}
    \/ answer[c] \in {"granted", "unavailable"}

\* However refreshes race, a token is exchanged at most once.
ExchangedOnce ==
    \A c, d \in Refreshes :
        Exchanged(c) /\ Exchanged(d) /\ token[c] = token[d] => c = d

\* The session's history has dropped the token.
Forgotten(t) == t.gen + HistoryLimit < current[t.session]

\* A token that is presented again after it was exchanged has leaked: once that
\* call is answered the session is over (revoked, expired or removed), unless
\* more than HistoryLimit rotations have come between.
ReuseEndsSession ==
    \A c, d \in Refreshes :
        /\ c # d
        /\ token[c] = token[d]
        /\ Exchanged(d)
        /\ answer[c] \in {"invalid", "reuse", "granted", "unavailable"}
        => ~ActiveAt(Session(c), now) \/ Forgotten(token[c])

\* A revoked session stays revoked, until it is removed, and rotates no more.
RevokedForGood ==
    [][\A s \in Logins : session[s] \in {"revoked", "removed"} =>
        /\ session'[s] \in {"revoked", "removed"}
        /\ current'[s] = current[s]]_vars
=============================================================================
