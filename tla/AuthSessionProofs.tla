-------------------------- MODULE AuthSessionProofs --------------------------
(***************************************************************************)
(* Proofs about AuthSession, for every set of logins and refreshes, every  *)
(* lifetime, every history limit and every bound.                          *)
(*                                                                         *)
(* Tokens of a session are handed out and presented only after they were   *)
(* issued, an exchanged token is older than the current one, and the       *)
(* history holds exactly the last HistoryLimit tokens before it.  That no  *)
(* token is exchanged twice and that reuse ends the session both follow.   *)
(***************************************************************************)
EXTENDS AuthSession, TLAPS

-----------------------------------------------------------------------------
(* The inductive invariant *)

TypeInv ==
    /\ now \in Nat
    /\ active \in BOOLEAN
    /\ session \in [Logins -> {"none", "live", "revoked", "removed"}]
    /\ current \in [Logins -> Nat]
    /\ used \in [Logins -> SUBSET Nat]
    /\ expiresAt \in [Logins -> Nat]
    /\ handed \in [Logins -> SUBSET Nat]
    /\ pc \in [Logins \cup Refreshes ->
                {"start", "create", "check", "find", "recheck", "rotate",
                 "revoke", "account", "unavailable", "done"}]
    /\ token \in [Refreshes -> Tokens]
    /\ readAt \in [Refreshes -> Nat]
    /\ answer \in [Refreshes -> {"none", "invalid", "reuse", "granted",
                                 "unavailable", "failed"}]
    /\ faults \in Nat
    /\ statusChanges \in Nat

\* A login that has not created its session: there is nothing to present.
Unborn ==
    \A s \in Logins : pc[s] \in {"start", "create"} =>
        session[s] = "none" /\ current[s] = NoGen /\ used[s] = {} /\ handed[s] = {}

\* Clients hold issued tokens of sessions that exist or existed.
Issued ==
    \A s \in Logins : \A n \in handed[s] :
        1 <= n /\ n <= current[s] /\ session[s] # "none"

\* The history: the last HistoryLimit tokens before the current one.
Window ==
    \A s \in Logins : \A n \in Nat :
        n \in used[s] <=> 1 <= n /\ n < current[s] /\ n + HistoryLimit >= current[s]

\* A call presents an issued token; one it exchanged is no longer current.
Presented ==
    \A c \in Refreshes :
        /\ pc[c] = "start" => answer[c] = "none" /\ Gen(c) = NoGen
        /\ pc[c] # "done" => answer[c] = "none"
        /\ pc[c] # "start" => 1 <= Gen(c) /\ session[Session(c)] # "none"
        /\ Gen(c) <= current[Session(c)]
        /\ Exchanged(c) => Gen(c) < current[Session(c)]

\* The token will not be found current and active any more.
Dead(c) == Gen(c) < current[Session(c)] \/ ~ActiveAt(Session(c), now)

\* What a call's answer says of its session.
Answered ==
    \A c \in Refreshes :
        /\ pc[c] = "recheck" => Dead(c)
        /\ answer[c] = "invalid" =>
              ~ActiveAt(Session(c), now) \/ Forgotten(token[c])
        /\ answer[c] \in {"reuse", "unavailable"} => session[Session(c)] # "live"

AuthInv == TypeInv /\ Unborn /\ Issued /\ Window /\ Presented /\ Answered

-----------------------------------------------------------------------------
(* Each part of it is preserved by every step *)

\* Each call keeps the types of what it writes.
LEMMA TypeInvStep ==
    ASSUME TypeInv, [Next]_vars
    PROVE  TypeInv'
<1> USE AuthAssumption
<1>1. ASSUME NEW e \in Refreshes, Present(e) PROVE TypeInv'
  BY <1>1 DEF TypeInv, Tokens, Gen, Session, Present, doc, call, env
<1>2. ASSUME NEW e \in Refreshes, CheckReuse(e) PROVE TypeInv'
  BY <1>2 DEF TypeInv, Tokens, Gen, Session, CheckReuse, Reused, doc, call,
     env
<1>3. ASSUME NEW e \in Refreshes, FindSession(e) PROVE TypeInv'
  BY <1>3 DEF TypeInv, Tokens, Gen, Session, FindSession, ActiveAt, doc, call,
     env
<1>4. ASSUME NEW e \in Refreshes, RecheckReuse(e) PROVE TypeInv'
  BY <1>4 DEF TypeInv, Tokens, Gen, Session, RecheckReuse, ReusedMeanwhile,
     Reused, doc, call, env
<1>5. ASSUME NEW e \in Refreshes, Rotate(e) PROVE TypeInv'
  BY <1>5 DEF TypeInv, Tokens, Gen, Session, Rotate, TokenIsCurrent,
     StillActive, ActiveAt, Remember, doc, call, env
<1>6. ASSUME NEW e \in Refreshes, LoseRace(e) PROVE TypeInv'
  BY <1>6 DEF TypeInv, Tokens, Gen, Session, LoseRace, doc, call, env
<1>7. ASSUME NEW e \in Refreshes, RevokeReused(e) PROVE TypeInv'
  BY <1>7 DEF TypeInv, Tokens, Gen, Session, RevokeReused, Revoke, doc, call,
     env
<1>8. ASSUME NEW e \in Refreshes, GrantRefresh(e) PROVE TypeInv'
  BY <1>8 DEF TypeInv, Tokens, Gen, Session, GrantRefresh, doc, call, env
<1>9. ASSUME NEW e \in Refreshes, AccountUnavailable(e) PROVE TypeInv'
  BY <1>9 DEF TypeInv, Tokens, Gen, Session, AccountUnavailable, doc, call,
     env
<1>10. ASSUME NEW e \in Refreshes, RevokeUnavailable(e) PROVE TypeInv'
  BY <1>10 DEF TypeInv, Tokens, Gen, Session, RevokeUnavailable, Revoke, doc,
     call, env
<1>11. ASSUME NEW e \in Refreshes, RefreshFails(e) PROVE TypeInv'
  BY <1>11 DEF TypeInv, Tokens, Gen, Session, RefreshFails, doc, call, env
<1>12. ASSUME NEW z \in Logins, CheckLogin(z) PROVE TypeInv'
  BY <1>12 DEF TypeInv, Tokens, Gen, Session, CheckLogin, doc, call, env
<1>13. ASSUME NEW z \in Logins, CreateSession(z) PROVE TypeInv'
  BY <1>13 DEF TypeInv, Tokens, Gen, Session, CreateSession, doc, call, env
<1>14. ASSUME NEW z \in Logins, Logout(z) PROVE TypeInv'
  BY <1>14 DEF TypeInv, Tokens, Gen, Session, Logout, Revoke, doc, call, env
<1>15. ASSUME NEW z \in Logins, RemoveExpired(z) PROVE TypeInv'
  BY <1>15 DEF TypeInv, Tokens, Gen, Session, RemoveExpired, Exists, doc,
     call, env
<1>16. CASE UpdateStatus
  BY <1>16 DEF TypeInv, Tokens, Gen, Session, UpdateStatus, doc, call, env
<1>17. CASE Tick
  BY <1>17 DEF TypeInv, Tokens, Gen, Session, Tick, doc, call, env
<1>18. CASE UNCHANGED vars
  BY <1>18 DEF TypeInv, Tokens, Gen, Session, vars, doc, call, env
<1> QED BY <1>1, <1>2, <1>3, <1>4, <1>5, <1>6, <1>7, <1>8, <1>9, <1>10, <1>11,
   <1>12, <1>13, <1>14, <1>15, <1>16, <1>17, <1>18 DEF Next, RefreshStep,
   SessionStep

\* A login that has created no session has handed out no token.
LEMMA UnbornStep ==
    ASSUME TypeInv, Unborn, Presented, [Next]_vars
    PROVE  Unborn'
<1> USE AuthAssumption
<1>1. ASSUME NEW e \in Refreshes, Present(e) PROVE Unborn'
  BY <1>1 DEF TypeInv, Tokens, Gen, Session, Unborn, Presented, Present, doc,
     call, env
<1>2. ASSUME NEW e \in Refreshes, CheckReuse(e) PROVE Unborn'
  BY <1>2 DEF TypeInv, Tokens, Gen, Session, Unborn, Presented, CheckReuse,
     Reused, doc, call, env
<1>3. ASSUME NEW e \in Refreshes, FindSession(e) PROVE Unborn'
  BY <1>3 DEF TypeInv, Tokens, Gen, Session, Unborn, Presented, FindSession,
     ActiveAt, doc, call, env
<1>4. ASSUME NEW e \in Refreshes, RecheckReuse(e) PROVE Unborn'
  BY <1>4 DEF TypeInv, Tokens, Gen, Session, Unborn, Presented, RecheckReuse,
     ReusedMeanwhile, Reused, doc, call, env
<1>5. ASSUME NEW e \in Refreshes, Rotate(e) PROVE Unborn'
  BY <1>5 DEF TypeInv, Tokens, Gen, Session, Unborn, Presented, Rotate,
     TokenIsCurrent, StillActive, ActiveAt, Remember, doc, call, env
<1>6. ASSUME NEW e \in Refreshes, LoseRace(e) PROVE Unborn'
  BY <1>6 DEF TypeInv, Tokens, Gen, Session, Unborn, Presented, LoseRace, doc,
     call, env
<1>7. ASSUME NEW e \in Refreshes, RevokeReused(e) PROVE Unborn'
  BY <1>7 DEF TypeInv, Tokens, Gen, Session, Unborn, Presented, RevokeReused,
     Revoke, doc, call, env
<1>8. ASSUME NEW e \in Refreshes, GrantRefresh(e) PROVE Unborn'
  BY <1>8 DEF TypeInv, Tokens, Gen, Session, Unborn, Presented, GrantRefresh,
     doc, call, env
<1>9. ASSUME NEW e \in Refreshes, AccountUnavailable(e) PROVE Unborn'
  BY <1>9 DEF TypeInv, Tokens, Gen, Session, Unborn, Presented,
     AccountUnavailable, doc, call, env
<1>10. ASSUME NEW e \in Refreshes, RevokeUnavailable(e) PROVE Unborn'
  BY <1>10 DEF TypeInv, Tokens, Gen, Session, Unborn, Presented,
     RevokeUnavailable, Revoke, doc, call, env
<1>11. ASSUME NEW e \in Refreshes, RefreshFails(e) PROVE Unborn'
  BY <1>11 DEF TypeInv, Tokens, Gen, Session, Unborn, Presented, RefreshFails,
     doc, call, env
<1>12. ASSUME NEW z \in Logins, CheckLogin(z) PROVE Unborn'
  BY <1>12 DEF TypeInv, Tokens, Gen, Session, Unborn, Presented, CheckLogin,
     doc, call, env
<1>13. ASSUME NEW z \in Logins, CreateSession(z) PROVE Unborn'
  BY <1>13 DEF TypeInv, Tokens, Gen, Session, Unborn, Presented,
     CreateSession, doc, call, env
<1>14. ASSUME NEW z \in Logins, Logout(z) PROVE Unborn'
  BY <1>14 DEF TypeInv, Tokens, Gen, Session, Unborn, Presented, Logout,
     Revoke, doc, call, env
<1>15. ASSUME NEW z \in Logins, RemoveExpired(z) PROVE Unborn'
  BY <1>15 DEF TypeInv, Tokens, Gen, Session, Unborn, Presented,
     RemoveExpired, Exists, doc, call, env
<1>16. CASE UpdateStatus
  BY <1>16 DEF TypeInv, Tokens, Gen, Session, Unborn, Presented, UpdateStatus,
     doc, call, env
<1>17. CASE Tick
  BY <1>17 DEF TypeInv, Tokens, Gen, Session, Unborn, Presented, Tick, doc,
     call, env
<1>18. CASE UNCHANGED vars
  BY <1>18 DEF TypeInv, Tokens, Gen, Session, Unborn, Presented, vars, doc,
     call, env
<1> QED BY <1>1, <1>2, <1>3, <1>4, <1>5, <1>6, <1>7, <1>8, <1>9, <1>10, <1>11,
   <1>12, <1>13, <1>14, <1>15, <1>16, <1>17, <1>18 DEF Next, RefreshStep,
   SessionStep

\* Clients hold no token newer than the current one.
LEMMA IssuedStep ==
    ASSUME TypeInv, Unborn, Issued, Presented, [Next]_vars
    PROVE  Issued'
<1> USE AuthAssumption
<1>1. ASSUME NEW e \in Refreshes, Present(e) PROVE Issued'
  BY <1>1 DEF TypeInv, Tokens, Gen, Session, Unborn, Issued, Presented,
     Exchanged, Present, doc, call, env
<1>2. ASSUME NEW e \in Refreshes, CheckReuse(e) PROVE Issued'
  BY <1>2 DEF TypeInv, Tokens, Gen, Session, Unborn, Issued, Presented,
     Exchanged, CheckReuse, Reused, doc, call, env
<1>3. ASSUME NEW e \in Refreshes, FindSession(e) PROVE Issued'
  BY <1>3 DEF TypeInv, Tokens, Gen, Session, Unborn, Issued, Presented,
     Exchanged, FindSession, ActiveAt, doc, call, env
<1>4. ASSUME NEW e \in Refreshes, RecheckReuse(e) PROVE Issued'
  BY <1>4 DEF TypeInv, Tokens, Gen, Session, Unborn, Issued, Presented,
     Exchanged, RecheckReuse, ReusedMeanwhile, Reused, doc, call, env
<1>5. ASSUME NEW e \in Refreshes, Rotate(e) PROVE Issued'
  BY <1>5 DEF TypeInv, Tokens, Gen, Session, Unborn, Issued, Presented,
     Exchanged, Rotate, TokenIsCurrent, StillActive, ActiveAt, Remember, doc,
     call, env
<1>6. ASSUME NEW e \in Refreshes, LoseRace(e) PROVE Issued'
  BY <1>6 DEF TypeInv, Tokens, Gen, Session, Unborn, Issued, Presented,
     Exchanged, LoseRace, doc, call, env
<1>7. ASSUME NEW e \in Refreshes, RevokeReused(e) PROVE Issued'
  BY <1>7 DEF TypeInv, Tokens, Gen, Session, Unborn, Issued, Presented,
     Exchanged, RevokeReused, Revoke, doc, call, env
<1>8. ASSUME NEW e \in Refreshes, GrantRefresh(e) PROVE Issued'
  BY <1>8 DEF TypeInv, Tokens, Gen, Session, Unborn, Issued, Presented,
     Exchanged, GrantRefresh, doc, call, env
<1>9. ASSUME NEW e \in Refreshes, AccountUnavailable(e) PROVE Issued'
  BY <1>9 DEF TypeInv, Tokens, Gen, Session, Unborn, Issued, Presented,
     Exchanged, AccountUnavailable, doc, call, env
<1>10. ASSUME NEW e \in Refreshes, RevokeUnavailable(e) PROVE Issued'
  BY <1>10 DEF TypeInv, Tokens, Gen, Session, Unborn, Issued, Presented,
     Exchanged, RevokeUnavailable, Revoke, doc, call, env
<1>11. ASSUME NEW e \in Refreshes, RefreshFails(e) PROVE Issued'
  BY <1>11 DEF TypeInv, Tokens, Gen, Session, Unborn, Issued, Presented,
     Exchanged, RefreshFails, doc, call, env
<1>12. ASSUME NEW z \in Logins, CheckLogin(z) PROVE Issued'
  BY <1>12 DEF TypeInv, Tokens, Gen, Session, Unborn, Issued, Presented,
     Exchanged, CheckLogin, doc, call, env
<1>13. ASSUME NEW z \in Logins, CreateSession(z) PROVE Issued'
  BY <1>13 DEF TypeInv, Tokens, Gen, Session, Unborn, Issued, Presented,
     Exchanged, CreateSession, doc, call, env
<1>14. ASSUME NEW z \in Logins, Logout(z) PROVE Issued'
  BY <1>14 DEF TypeInv, Tokens, Gen, Session, Unborn, Issued, Presented,
     Exchanged, Logout, Revoke, doc, call, env
<1>15. ASSUME NEW z \in Logins, RemoveExpired(z) PROVE Issued'
  BY <1>15 DEF TypeInv, Tokens, Gen, Session, Unborn, Issued, Presented,
     Exchanged, RemoveExpired, Exists, doc, call, env
<1>16. CASE UpdateStatus
  BY <1>16 DEF TypeInv, Tokens, Gen, Session, Unborn, Issued, Presented,
     Exchanged, UpdateStatus, doc, call, env
<1>17. CASE Tick
  BY <1>17 DEF TypeInv, Tokens, Gen, Session, Unborn, Issued, Presented,
     Exchanged, Tick, doc, call, env
<1>18. CASE UNCHANGED vars
  BY <1>18 DEF TypeInv, Tokens, Gen, Session, Unborn, Issued, Presented,
     Exchanged, vars, doc, call, env
<1> QED BY <1>1, <1>2, <1>3, <1>4, <1>5, <1>6, <1>7, <1>8, <1>9, <1>10, <1>11,
   <1>12, <1>13, <1>14, <1>15, <1>16, <1>17, <1>18 DEF Next, RefreshStep,
   SessionStep

\* The history is the last HistoryLimit tokens before the current one.
LEMMA WindowStep ==
    ASSUME TypeInv, Unborn, Window, Presented, [Next]_vars
    PROVE  Window'
<1> USE AuthAssumption
<1>1. ASSUME NEW e \in Refreshes, Present(e) PROVE Window'
  BY <1>1 DEF TypeInv, Tokens, Gen, Session, Unborn, Window, Presented,
     Present, doc, call, env
<1>2. ASSUME NEW e \in Refreshes, CheckReuse(e) PROVE Window'
  BY <1>2 DEF TypeInv, Tokens, Gen, Session, Unborn, Window, Presented,
     CheckReuse, Reused, doc, call, env
<1>3. ASSUME NEW e \in Refreshes, FindSession(e) PROVE Window'
  BY <1>3 DEF TypeInv, Tokens, Gen, Session, Unborn, Window, Presented,
     FindSession, ActiveAt, doc, call, env
<1>4. ASSUME NEW e \in Refreshes, RecheckReuse(e) PROVE Window'
  BY <1>4 DEF TypeInv, Tokens, Gen, Session, Unborn, Window, Presented,
     RecheckReuse, ReusedMeanwhile, Reused, doc, call, env
<1>5. ASSUME NEW e \in Refreshes, Rotate(e) PROVE Window'
  <2> DEFINE t == Session(e)
  <2>1. t \in Logins /\ Gen(e) \in Nat /\ Gen(e) = current[t] /\ Gen(e) >= 1
    BY <1>5 DEF TypeInv, Tokens, Session, Gen, Presented, Rotate, TokenIsCurrent
  <2>2. /\ current' = [current EXCEPT ![t] = @ + 1]
        /\ used' = [used EXCEPT ![t] = Remember(t, Gen(e))]
    BY <1>5 DEF Rotate
  <2>3. ASSUME NEW n \in Nat
        PROVE  n \in Remember(t, Gen(e)) <=>
                 1 <= n /\ n < current[t] + 1 /\ n + HistoryLimit >= current[t] + 1
    <3>1. HistoryLimit \in Nat /\ HistoryLimit >= 1
      BY AuthAssumption
    <3>2. n \in used[t] <=>
            1 <= n /\ n < current[t] /\ n + HistoryLimit >= current[t]
      BY <2>1 DEF Window
    <3>3. n \in Remember(t, Gen(e)) <=>
            (n \in used[t] \/ n = Gen(e)) /\ n + HistoryLimit > Gen(e)
      BY DEF Remember
    <3>4. current[t] \in Nat
      BY <2>1 DEF TypeInv
    <3> QED BY <2>1, <3>1, <3>2, <3>3, <3>4
  <2>4. used'[t] = Remember(t, Gen(e)) /\ current'[t] = current[t] + 1
    BY <2>1, <2>2 DEF TypeInv
  <2>5. \A s \in Logins \ {t} : used'[s] = used[s] /\ current'[s] = current[s]
    BY <2>2 DEF TypeInv
  <2> QED BY <2>3, <2>4, <2>5 DEF Window
<1>6. ASSUME NEW e \in Refreshes, LoseRace(e) PROVE Window'
  BY <1>6 DEF TypeInv, Tokens, Gen, Session, Unborn, Window, Presented,
     LoseRace, doc, call, env
<1>7. ASSUME NEW e \in Refreshes, RevokeReused(e) PROVE Window'
  BY <1>7 DEF TypeInv, Tokens, Gen, Session, Unborn, Window, Presented,
     RevokeReused, Revoke, doc, call, env
<1>8. ASSUME NEW e \in Refreshes, GrantRefresh(e) PROVE Window'
  BY <1>8 DEF TypeInv, Tokens, Gen, Session, Unborn, Window, Presented,
     GrantRefresh, doc, call, env
<1>9. ASSUME NEW e \in Refreshes, AccountUnavailable(e) PROVE Window'
  BY <1>9 DEF TypeInv, Tokens, Gen, Session, Unborn, Window, Presented,
     AccountUnavailable, doc, call, env
<1>10. ASSUME NEW e \in Refreshes, RevokeUnavailable(e) PROVE Window'
  BY <1>10 DEF TypeInv, Tokens, Gen, Session, Unborn, Window, Presented,
     RevokeUnavailable, Revoke, doc, call, env
<1>11. ASSUME NEW e \in Refreshes, RefreshFails(e) PROVE Window'
  BY <1>11 DEF TypeInv, Tokens, Gen, Session, Unborn, Window, Presented,
     RefreshFails, doc, call, env
<1>12. ASSUME NEW z \in Logins, CheckLogin(z) PROVE Window'
  BY <1>12 DEF TypeInv, Tokens, Gen, Session, Unborn, Window, Presented,
     CheckLogin, doc, call, env
<1>13. ASSUME NEW z \in Logins, CreateSession(z) PROVE Window'
  BY <1>13 DEF TypeInv, Tokens, Gen, Session, Unborn, Window, Presented,
     CreateSession, doc, call, env
<1>14. ASSUME NEW z \in Logins, Logout(z) PROVE Window'
  BY <1>14 DEF TypeInv, Tokens, Gen, Session, Unborn, Window, Presented,
     Logout, Revoke, doc, call, env
<1>15. ASSUME NEW z \in Logins, RemoveExpired(z) PROVE Window'
  BY <1>15 DEF TypeInv, Tokens, Gen, Session, Unborn, Window, Presented,
     RemoveExpired, Exists, doc, call, env
<1>16. CASE UpdateStatus
  BY <1>16 DEF TypeInv, Tokens, Gen, Session, Unborn, Window, Presented,
     UpdateStatus, doc, call, env
<1>17. CASE Tick
  BY <1>17 DEF TypeInv, Tokens, Gen, Session, Unborn, Window, Presented, Tick,
     doc, call, env
<1>18. CASE UNCHANGED vars
  BY <1>18 DEF TypeInv, Tokens, Gen, Session, Unborn, Window, Presented, vars,
     doc, call, env
<1> QED BY <1>1, <1>2, <1>3, <1>4, <1>5, <1>6, <1>7, <1>8, <1>9, <1>10, <1>11,
   <1>12, <1>13, <1>14, <1>15, <1>16, <1>17, <1>18 DEF Next, RefreshStep,
   SessionStep

\* A call presents a token its session issued, and an exchanged one is past.
LEMMA PresentedStep ==
    ASSUME TypeInv, Unborn, Issued, Presented, [Next]_vars
    PROVE  Presented'
<1> USE AuthAssumption
<1>1. ASSUME NEW e \in Refreshes, Present(e) PROVE Presented'
  BY <1>1 DEF TypeInv, Tokens, Gen, Session, Unborn, Issued, Presented,
     Exchanged, Present, doc, call, env
<1>2. ASSUME NEW e \in Refreshes, CheckReuse(e) PROVE Presented'
  BY <1>2 DEF TypeInv, Tokens, Gen, Session, Unborn, Issued, Presented,
     Exchanged, CheckReuse, Reused, doc, call, env
<1>3. ASSUME NEW e \in Refreshes, FindSession(e) PROVE Presented'
  BY <1>3 DEF TypeInv, Tokens, Gen, Session, Unborn, Issued, Presented,
     Exchanged, FindSession, ActiveAt, doc, call, env
<1>4. ASSUME NEW e \in Refreshes, RecheckReuse(e) PROVE Presented'
  BY <1>4 DEF TypeInv, Tokens, Gen, Session, Unborn, Issued, Presented,
     Exchanged, RecheckReuse, ReusedMeanwhile, Reused, doc, call, env
<1>5. ASSUME NEW e \in Refreshes, Rotate(e) PROVE Presented'
  BY <1>5 DEF TypeInv, Tokens, Gen, Session, Unborn, Issued, Presented,
     Exchanged, Rotate, TokenIsCurrent, StillActive, ActiveAt, Remember, doc,
     call, env
<1>6. ASSUME NEW e \in Refreshes, LoseRace(e) PROVE Presented'
  BY <1>6 DEF TypeInv, Tokens, Gen, Session, Unborn, Issued, Presented,
     Exchanged, LoseRace, doc, call, env
<1>7. ASSUME NEW e \in Refreshes, RevokeReused(e) PROVE Presented'
  BY <1>7 DEF TypeInv, Tokens, Gen, Session, Unborn, Issued, Presented,
     Exchanged, RevokeReused, Revoke, doc, call, env
<1>8. ASSUME NEW e \in Refreshes, GrantRefresh(e) PROVE Presented'
  BY <1>8 DEF TypeInv, Tokens, Gen, Session, Unborn, Issued, Presented,
     Exchanged, GrantRefresh, doc, call, env
<1>9. ASSUME NEW e \in Refreshes, AccountUnavailable(e) PROVE Presented'
  BY <1>9 DEF TypeInv, Tokens, Gen, Session, Unborn, Issued, Presented,
     Exchanged, AccountUnavailable, doc, call, env
<1>10. ASSUME NEW e \in Refreshes, RevokeUnavailable(e) PROVE Presented'
  BY <1>10 DEF TypeInv, Tokens, Gen, Session, Unborn, Issued, Presented,
     Exchanged, RevokeUnavailable, Revoke, doc, call, env
<1>11. ASSUME NEW e \in Refreshes, RefreshFails(e) PROVE Presented'
  BY <1>11 DEF TypeInv, Tokens, Gen, Session, Unborn, Issued, Presented,
     Exchanged, RefreshFails, doc, call, env
<1>12. ASSUME NEW z \in Logins, CheckLogin(z) PROVE Presented'
  BY <1>12 DEF TypeInv, Tokens, Gen, Session, Unborn, Issued, Presented,
     Exchanged, CheckLogin, doc, call, env
<1>13. ASSUME NEW z \in Logins, CreateSession(z) PROVE Presented'
  <2>1. session[z] = "none" /\ current[z] = 0
    BY <1>13 DEF CreateSession, Unborn, NoGen
  <2>2. /\ session' = [session EXCEPT ![z] = "live"]
        /\ current' = [current EXCEPT ![z] = 1]
        /\ pc' = [pc EXCEPT ![z] = "done"]
        /\ token' = token /\ answer' = answer
    BY <1>13 DEF CreateSession, call
  <2>3. ASSUME NEW c \in Refreshes
        PROVE  /\ pc'[c] = pc[c]
               /\ Session(c) \in Logins
               /\ current'[Session(c)] \in Nat
               /\ current'[Session(c)] >= current[Session(c)]
               /\ session[Session(c)] # "none" => session'[Session(c)] # "none"
    BY <2>1, <2>2, AuthAssumption DEF TypeInv, Tokens, Session
  <2>4. \A c \in Refreshes : Gen(c) \in Nat /\ current[Session(c)] \in Nat
    BY <2>3 DEF TypeInv, Tokens, Gen
  <2>5. \A c \in Refreshes : Exchanged(c)' <=> Exchanged(c)
    BY <2>2, <2>3 DEF Exchanged
  <2>6. \A c \in Refreshes : Gen(c)' = Gen(c) /\ Session(c)' = Session(c)
    BY <2>2 DEF Gen, Session
  <2> QED BY <2>2, <2>3, <2>4, <2>5, <2>6 DEF Presented
<1>14. ASSUME NEW z \in Logins, Logout(z) PROVE Presented'
  BY <1>14 DEF TypeInv, Tokens, Gen, Session, Unborn, Issued, Presented,
     Exchanged, Logout, Revoke, doc, call, env
<1>15. ASSUME NEW z \in Logins, RemoveExpired(z) PROVE Presented'
  BY <1>15 DEF TypeInv, Tokens, Gen, Session, Unborn, Issued, Presented,
     Exchanged, RemoveExpired, Exists, doc, call, env
<1>16. CASE UpdateStatus
  BY <1>16 DEF TypeInv, Tokens, Gen, Session, Unborn, Issued, Presented,
     Exchanged, UpdateStatus, doc, call, env
<1>17. CASE Tick
  BY <1>17 DEF TypeInv, Tokens, Gen, Session, Unborn, Issued, Presented,
     Exchanged, Tick, doc, call, env
<1>18. CASE UNCHANGED vars
  BY <1>18 DEF TypeInv, Tokens, Gen, Session, Unborn, Issued, Presented,
     Exchanged, vars, doc, call, env
<1> QED BY <1>1, <1>2, <1>3, <1>4, <1>5, <1>6, <1>7, <1>8, <1>9, <1>10, <1>11,
   <1>12, <1>13, <1>14, <1>15, <1>16, <1>17, <1>18 DEF Next, RefreshStep,
   SessionStep

\* An answer to a token that is past leaves its session ended or the token
\* forgotten.
LEMMA AnsweredStep ==
    ASSUME TypeInv, Unborn, Issued, Window, Presented, Answered, [Next]_vars
    PROVE  Answered'
<1> USE AuthAssumption
<1>1. ASSUME NEW e \in Refreshes, Present(e) PROVE Answered'
  BY <1>1 DEF TypeInv, Tokens, Gen, Session, Unborn, Issued, Window,
     Presented, Answered, Dead, Forgotten, ActiveAt, Exists, Present, doc,
     call, env
<1>2. ASSUME NEW e \in Refreshes, CheckReuse(e) PROVE Answered'
  BY <1>2 DEF TypeInv, Tokens, Gen, Session, Unborn, Issued, Window,
     Presented, Answered, Dead, Forgotten, ActiveAt, Exists, CheckReuse,
     Reused, doc, call, env
<1>3. ASSUME NEW e \in Refreshes, FindSession(e) PROVE Answered'
  <2>1. ASSUME NEW c \in Refreshes, c # e
        PROVE  pc'[c] = pc[c] /\ answer'[c] = answer[c]
    BY <1>3, <2>1 DEF FindSession, TypeInv
  <2>2. pc'[e] = "recheck" => Dead(e)
    BY <1>3 DEF FindSession, Dead, TypeInv, Tokens, Presented, Gen, Session
  <2>3. answer'[e] = "none"
    BY <1>3 DEF FindSession, Presented
  <2>4. \A c \in Refreshes :
            /\ Dead(c)' <=> Dead(c)
            /\ Forgotten(token[c])' <=> Forgotten(token[c])
            /\ ActiveAt(Session(c), now)' <=> ActiveAt(Session(c), now)
            /\ Session(c)' = Session(c)
    BY <1>3 DEF FindSession, Dead, Forgotten, ActiveAt, Session, Gen, doc, env
  <2>5. session' = session
    BY <1>3 DEF FindSession, doc
  <2> QED BY <2>1, <2>2, <2>3, <2>4, <2>5 DEF Answered
<1>4. ASSUME NEW e \in Refreshes, RecheckReuse(e) PROVE Answered'
  BY <1>4 DEF TypeInv, Tokens, Gen, Session, Unborn, Issued, Window,
     Presented, Answered, Dead, Forgotten, ActiveAt, Exists, RecheckReuse,
     ReusedMeanwhile, Reused, doc, call, env
<1>5. ASSUME NEW e \in Refreshes, Rotate(e) PROVE Answered'
  BY <1>5 DEF TypeInv, Tokens, Gen, Session, Unborn, Issued, Window,
     Presented, Answered, Dead, Forgotten, ActiveAt, Exists, Rotate,
     TokenIsCurrent, StillActive, Remember, doc, call, env
<1>6. ASSUME NEW e \in Refreshes, LoseRace(e) PROVE Answered'
  BY <1>6 DEF TypeInv, Tokens, Gen, Session, Unborn, Issued, Window,
     Presented, Answered, Dead, Forgotten, ActiveAt, Exists, LoseRace, doc,
     call, env
<1>7. ASSUME NEW e \in Refreshes, RevokeReused(e) PROVE Answered'
  BY <1>7 DEF TypeInv, Tokens, Gen, Session, Unborn, Issued, Window,
     Presented, Answered, Dead, Forgotten, ActiveAt, Exists, RevokeReused,
     Revoke, doc, call, env
<1>8. ASSUME NEW e \in Refreshes, GrantRefresh(e) PROVE Answered'
  BY <1>8 DEF TypeInv, Tokens, Gen, Session, Unborn, Issued, Window,
     Presented, Answered, Dead, Forgotten, ActiveAt, Exists, GrantRefresh,
     doc, call, env
<1>9. ASSUME NEW e \in Refreshes, AccountUnavailable(e) PROVE Answered'
  BY <1>9 DEF TypeInv, Tokens, Gen, Session, Unborn, Issued, Window,
     Presented, Answered, Dead, Forgotten, ActiveAt, Exists,
     AccountUnavailable, doc, call, env
<1>10. ASSUME NEW e \in Refreshes, RevokeUnavailable(e) PROVE Answered'
  BY <1>10 DEF TypeInv, Tokens, Gen, Session, Unborn, Issued, Window,
     Presented, Answered, Dead, Forgotten, ActiveAt, Exists,
     RevokeUnavailable, Revoke, doc, call, env
<1>11. ASSUME NEW e \in Refreshes, RefreshFails(e) PROVE Answered'
  BY <1>11 DEF TypeInv, Tokens, Gen, Session, Unborn, Issued, Window,
     Presented, Answered, Dead, Forgotten, ActiveAt, Exists, RefreshFails,
     doc, call, env
<1>12. ASSUME NEW z \in Logins, CheckLogin(z) PROVE Answered'
  BY <1>12 DEF TypeInv, Tokens, Gen, Session, Unborn, Issued, Window,
     Presented, Answered, Dead, Forgotten, ActiveAt, Exists, CheckLogin, doc,
     call, env
<1>13. ASSUME NEW z \in Logins, CreateSession(z) PROVE Answered'
  BY <1>13 DEF TypeInv, Tokens, Gen, Session, Unborn, Issued, Window,
     Presented, Answered, Dead, Forgotten, ActiveAt, Exists, CreateSession,
     doc, call, env
<1>14. ASSUME NEW z \in Logins, Logout(z) PROVE Answered'
  BY <1>14 DEF TypeInv, Tokens, Gen, Session, Unborn, Issued, Window,
     Presented, Answered, Dead, Forgotten, ActiveAt, Exists, Logout, Revoke,
     doc, call, env
<1>15. ASSUME NEW z \in Logins, RemoveExpired(z) PROVE Answered'
  BY <1>15 DEF TypeInv, Tokens, Gen, Session, Unborn, Issued, Window,
     Presented, Answered, Dead, Forgotten, ActiveAt, Exists, RemoveExpired,
     doc, call, env
<1>16. CASE UpdateStatus
  BY <1>16 DEF TypeInv, Tokens, Gen, Session, Unborn, Issued, Window,
     Presented, Answered, Dead, Forgotten, ActiveAt, Exists, UpdateStatus,
     doc, call, env
<1>17. CASE Tick
  BY <1>17 DEF TypeInv, Tokens, Gen, Session, Unborn, Issued, Window,
     Presented, Answered, Dead, Forgotten, ActiveAt, Exists, Tick, doc, call,
     env
<1>18. CASE UNCHANGED vars
  BY <1>18 DEF TypeInv, Tokens, Gen, Session, Unborn, Issued, Window,
     Presented, Answered, Dead, Forgotten, ActiveAt, Exists, vars, doc, call,
     env
<1> QED BY <1>1, <1>2, <1>3, <1>4, <1>5, <1>6, <1>7, <1>8, <1>9, <1>10, <1>11,
   <1>12, <1>13, <1>14, <1>15, <1>16, <1>17, <1>18 DEF Next, RefreshStep,
   SessionStep

\* The update that exchanges a token makes it past for every other call.
LEMMA OnceStep ==
    ASSUME TypeInv, Presented, ExchangedOnce, [Next]_vars
    PROVE  ExchangedOnce'
<1> USE AuthAssumption
<1>1. ASSUME NEW e \in Refreshes, Present(e) PROVE ExchangedOnce'
  BY <1>1 DEF TypeInv, Tokens, Gen, Session, Presented, ExchangedOnce,
     Exchanged, Present, doc, call, env
<1>2. ASSUME NEW e \in Refreshes, CheckReuse(e) PROVE ExchangedOnce'
  BY <1>2 DEF TypeInv, Tokens, Gen, Session, Presented, ExchangedOnce,
     Exchanged, CheckReuse, Reused, doc, call, env
<1>3. ASSUME NEW e \in Refreshes, FindSession(e) PROVE ExchangedOnce'
  BY <1>3 DEF TypeInv, Tokens, Gen, Session, Presented, ExchangedOnce,
     Exchanged, FindSession, ActiveAt, doc, call, env
<1>4. ASSUME NEW e \in Refreshes, RecheckReuse(e) PROVE ExchangedOnce'
  BY <1>4 DEF TypeInv, Tokens, Gen, Session, Presented, ExchangedOnce,
     Exchanged, RecheckReuse, ReusedMeanwhile, Reused, doc, call, env
<1>5. ASSUME NEW e \in Refreshes, Rotate(e) PROVE ExchangedOnce'
  BY <1>5 DEF TypeInv, Tokens, Gen, Session, Presented, ExchangedOnce,
     Exchanged, Rotate, TokenIsCurrent, StillActive, ActiveAt, Remember, doc,
     call, env
<1>6. ASSUME NEW e \in Refreshes, LoseRace(e) PROVE ExchangedOnce'
  BY <1>6 DEF TypeInv, Tokens, Gen, Session, Presented, ExchangedOnce,
     Exchanged, LoseRace, doc, call, env
<1>7. ASSUME NEW e \in Refreshes, RevokeReused(e) PROVE ExchangedOnce'
  BY <1>7 DEF TypeInv, Tokens, Gen, Session, Presented, ExchangedOnce,
     Exchanged, RevokeReused, Revoke, doc, call, env
<1>8. ASSUME NEW e \in Refreshes, GrantRefresh(e) PROVE ExchangedOnce'
  BY <1>8 DEF TypeInv, Tokens, Gen, Session, Presented, ExchangedOnce,
     Exchanged, GrantRefresh, doc, call, env
<1>9. ASSUME NEW e \in Refreshes, AccountUnavailable(e) PROVE ExchangedOnce'
  BY <1>9 DEF TypeInv, Tokens, Gen, Session, Presented, ExchangedOnce,
     Exchanged, AccountUnavailable, doc, call, env
<1>10. ASSUME NEW e \in Refreshes, RevokeUnavailable(e) PROVE ExchangedOnce'
  BY <1>10 DEF TypeInv, Tokens, Gen, Session, Presented, ExchangedOnce,
     Exchanged, RevokeUnavailable, Revoke, doc, call, env
<1>11. ASSUME NEW e \in Refreshes, RefreshFails(e) PROVE ExchangedOnce'
  BY <1>11 DEF TypeInv, Tokens, Gen, Session, Presented, ExchangedOnce,
     Exchanged, RefreshFails, doc, call, env
<1>12. ASSUME NEW z \in Logins, CheckLogin(z) PROVE ExchangedOnce'
  BY <1>12 DEF TypeInv, Tokens, Gen, Session, Presented, ExchangedOnce,
     Exchanged, CheckLogin, doc, call, env
<1>13. ASSUME NEW z \in Logins, CreateSession(z) PROVE ExchangedOnce'
  BY <1>13 DEF TypeInv, Tokens, Gen, Session, Presented, ExchangedOnce,
     Exchanged, CreateSession, doc, call, env
<1>14. ASSUME NEW z \in Logins, Logout(z) PROVE ExchangedOnce'
  BY <1>14 DEF TypeInv, Tokens, Gen, Session, Presented, ExchangedOnce,
     Exchanged, Logout, Revoke, doc, call, env
<1>15. ASSUME NEW z \in Logins, RemoveExpired(z) PROVE ExchangedOnce'
  BY <1>15 DEF TypeInv, Tokens, Gen, Session, Presented, ExchangedOnce,
     Exchanged, RemoveExpired, Exists, doc, call, env
<1>16. CASE UpdateStatus
  BY <1>16 DEF TypeInv, Tokens, Gen, Session, Presented, ExchangedOnce,
     Exchanged, UpdateStatus, doc, call, env
<1>17. CASE Tick
  BY <1>17 DEF TypeInv, Tokens, Gen, Session, Presented, ExchangedOnce,
     Exchanged, Tick, doc, call, env
<1>18. CASE UNCHANGED vars
  BY <1>18 DEF TypeInv, Tokens, Gen, Session, Presented, ExchangedOnce,
     Exchanged, vars, doc, call, env
<1> QED BY <1>1, <1>2, <1>3, <1>4, <1>5, <1>6, <1>7, <1>8, <1>9, <1>10, <1>11,
   <1>12, <1>13, <1>14, <1>15, <1>16, <1>17, <1>18 DEF Next, RefreshStep,
   SessionStep

\* The invariant holds before any login.
LEMMA InvInit == Init => AuthInv /\ ExchangedOnce
<1> SUFFICES ASSUME Init PROVE AuthInv /\ ExchangedOnce
  OBVIOUS
<1> USE AuthAssumption DEF Init, NoGen
<1>1. TypeInv
  BY DEF TypeInv, Tokens
<1>2. Unborn /\ Issued /\ Window
  BY DEF Unborn, Issued, Window
<1>3. \A c \in Refreshes : token[c].session \in Logins /\ token[c].gen = 0
  OBVIOUS
<1>4. Presented /\ Answered
  BY <1>3 DEF Presented, Answered, Exchanged, Gen, Session
<1>5. ExchangedOnce
  BY DEF ExchangedOnce, Exchanged
<1> QED BY <1>1, <1>2, <1>4, <1>5 DEF AuthInv

\* Every step keeps the conjuncts of the invariant together.
LEMMA InvStep ==
    ASSUME AuthInv, ExchangedOnce, [Next]_vars
    PROVE  AuthInv' /\ ExchangedOnce'
BY TypeInvStep, UnbornStep, IssuedStep, WindowStep, PresentedStep,
   AnsweredStep, OnceStep DEF AuthInv

\* The inductive invariant of the refresh flow: what rotate leaves in the session
\* document, in its history and in the hands of clients fits together.
THEOREM AuthInvariant == Spec => [](AuthInv /\ ExchangedOnce)
<1>1. AuthInv /\ ExchangedOnce /\ [Next]_vars => (AuthInv /\ ExchangedOnce)'
  BY InvStep
<1> QED BY <1>1, InvInit, PTL DEF Spec

-----------------------------------------------------------------------------
(* The properties *)

\* Every variable keeps its type, and usedTokenHashes never holds tokens more
\* than HistoryLimit rotations apart.
THEOREM AuthTypeCorrect == Spec => []AuthTypeOK
<1>1. AuthInv => AuthTypeOK
  <2> SUFFICES ASSUME AuthInv PROVE AuthTypeOK
    OBVIOUS
  <2>1. ASSUME NEW s \in Logins, NEW j \in used[s], NEW k \in used[s]
        PROVE  j - k < HistoryLimit
    <3>1. j \in Nat /\ k \in Nat /\ current[s] \in Nat
      BY DEF AuthInv, TypeInv
    <3>2. j < current[s] /\ k + HistoryLimit >= current[s]
      BY <3>1 DEF AuthInv, Window
    <3> QED BY <3>1, <3>2, AuthAssumption
  <2> QED BY <2>1 DEF AuthInv, TypeInv, AuthTypeOK
<1> QED BY <1>1, AuthInvariant, PTL

\* Refreshes that race with one token: at most one of them gets a new one.
THEOREM TokensAreExchangedOnce == Spec => []ExchangedOnce
BY AuthInvariant, PTL

\* A leaked token that is presented again ends its session, as long as the
\* history remembers it, in whatever order the two calls ran.
THEOREM ReuseIsDetected == Spec => []ReuseEndsSession
<1>1. AuthInv /\ ExchangedOnce => ReuseEndsSession
  <2> SUFFICES ASSUME AuthInv, ExchangedOnce,
                      NEW c \in Refreshes, NEW d \in Refreshes,
                      c # d, token[c] = token[d], Exchanged(d),
                      answer[c] \in {"invalid", "reuse", "granted", "unavailable"}
               PROVE  ~ActiveAt(Session(c), now) \/ Forgotten(token[c])
    BY DEF ReuseEndsSession
  <2>1. answer[c] \notin {"granted", "unavailable"}
    BY DEF ExchangedOnce, Exchanged
  <2>2. CASE answer[c] = "invalid"
    BY <2>2 DEF AuthInv, Answered
  <2>3. CASE answer[c] = "reuse"
    BY <2>3 DEF AuthInv, Answered, ActiveAt
  <2> QED BY <2>1, <2>2, <2>3
<1> QED BY <1>1, AuthInvariant, PTL

\* No call, crash or expiry brings a revoked session back or rotates its token.
THEOREM RevocationIsFinal == Spec => RevokedForGood
<1> DEFINE Final(s) ==
        session[s] \in {"revoked", "removed"} =>
            /\ session'[s] \in {"revoked", "removed"}
            /\ current'[s] = current[s]
<1>1. ASSUME AuthInv, [Next]_vars PROVE \A s \in Logins : Final(s)
  <2> SUFFICES ASSUME NEW s \in Logins PROVE Final(s)
    OBVIOUS
  <2> USE AuthInv DEF AuthInv, TypeInv
  <2>1. ASSUME NEW c \in Refreshes, RefreshStep(c) PROVE Final(s)
    <3>1. CASE Rotate(c)
      BY <3>1 DEF Rotate, StillActive, ActiveAt
    <3>2. CASE RevokeReused(c) \/ RevokeUnavailable(c)
      BY <3>2 DEF RevokeReused, RevokeUnavailable, Revoke
    <3>3. CASE ~Rotate(c) /\ ~RevokeReused(c) /\ ~RevokeUnavailable(c)
      BY <2>1, <3>3 DEF RefreshStep, Present, CheckReuse, FindSession,
         RecheckReuse, LoseRace, GrantRefresh, AccountUnavailable,
         RefreshFails, doc
    <3> QED BY <3>1, <3>2, <3>3
  <2>2. ASSUME NEW z \in Logins, SessionStep(z) PROVE Final(s)
    BY <2>2 DEF SessionStep, CheckLogin, CreateSession, Logout, RemoveExpired,
       Revoke, Unborn, doc
  <2>3. CASE UpdateStatus \/ Tick \/ UNCHANGED vars
    BY <2>3 DEF UpdateStatus, Tick, vars, doc
  <2> QED BY <1>1, <2>1, <2>2, <2>3 DEF Next
<1>2. Spec => []AuthInv
  BY AuthInvariant, PTL
<1> QED BY <1>1, <1>2, PTL DEF Spec, RevokedForGood
=============================================================================
