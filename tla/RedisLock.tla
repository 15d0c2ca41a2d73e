----------------------------- MODULE RedisLock -----------------------------
(***************************************************************************)
(* The short locks in Redis: withLocks takes one key per product in        *)
(* productId order, runs a task, and releases the keys in reverse.  A key  *)
(* is set only if it does not exist and expires after LOCK_TTL_MS, however *)
(* long the task takes; it is deleted only by the token that set it.       *)
(*                                                                         *)
(* Every acquireLock draws a fresh token, so a token is named by its call  *)
(* and its product.  Time passes in ticks of LOCK_RETRY_DELAY_MS.          *)
(***************************************************************************)
EXTENDS Naturals, FiniteSets

CONSTANTS
    LockTasks,      \* calls of withLocks
    LockProducts,   \* products, numbered in productId order
    LockTargets,    \* the products each call locks
    LockTTL,        \* LOCK_TTL_MS, in ticks
    LockAttempts,   \* LOCK_ATTEMPTS
    LockMaxFaults,  \* bound on crashes and lost answers
    Unlocked        \* no token

ASSUME LockAssumption ==
    /\ LockProducts \subseteq Nat
    /\ LockTargets \in [LockTasks -> (SUBSET LockProducts) \ {{}}]
    /\ \A P \in SUBSET LockProducts : P # {} => \E p \in P : \A q \in P : q <= p
    /\ \A P \in SUBSET LockProducts : P # {} => \E p \in P : \A q \in P : p <= q
    /\ LockTTL \in Nat \ {0}
    /\ LockAttempts \in Nat \ {0}
    /\ LockMaxFaults \in Nat
    /\ Unlocked \notin LockTasks

VARIABLES
    token,          \* whose token each key holds
    ttl,            \* ticks until it expires
    lockPc,         \* control point of each call
    locks,          \* the locks it has pushed
    attempt,        \* its attempts at the next key
    pause,          \* ticks it still waits before the next attempt
    ran,            \* properties only: calls that ran their task
    busyAt,         \* properties only: the key a call gave up on
    lapsed,         \* properties only: <<call, product>> whose token expired
    lockFaulty,     \* properties only: calls that met a fault
    lockFaults

keys     == <<token, ttl>>
caller   == <<lockPc, locks, attempt, pause>>
ghosts   == <<ran, busyAt, lapsed, lockFaulty>>
lockVars == <<keys, caller, ghosts, lockFaults>>

LockInit ==
    /\ token = [p \in LockProducts |-> Unlocked]
    /\ ttl = [p \in LockProducts |-> 0]
    /\ lockPc = [t \in LockTasks |-> "acquire"]
    /\ locks = [t \in LockTasks |-> {}]
    /\ attempt = [t \in LockTasks |-> 1]
    /\ pause = [t \in LockTasks |-> 0]
    /\ ran = {}
    /\ busyAt = [t \in LockTasks |-> {}]
    /\ lapsed = {}
    /\ lockFaulty = {}
    /\ lockFaults = 0

-----------------------------------------------------------------------------
(* acquireLock *)

\* Mutant: the targets are not sorted.
AnyTarget(t, p) == p \in LockTargets[t] \ locks[t]

\* The loop goes through the targets in productId order.
NextTarget(t, p) ==
    /\ p \in LockTargets[t] \ locks[t]
    /\ \A q \in LockTargets[t] \ locks[t] : p <= q

Grant(t, p) ==
    /\ token' = [token EXCEPT ![p] = t]
    /\ ttl' = [ttl EXCEPT ![p] = LockTTL]

MayTry(t, p) == lockPc[t] = "acquire" /\ pause[t] = 0 /\ NextTarget(t, p)

\* SET NX PX answers OK.
Lock(t, p) ==
    /\ MayTry(t, p)
    /\ token[p] = Unlocked
    /\ Grant(t, p)
    /\ locks' = [locks EXCEPT ![t] = @ \cup {p}]
    /\ attempt' = [attempt EXCEPT ![t] = 1]
    /\ lockPc' = [lockPc EXCEPT ![t] = IF LockTargets[t] = locks[t] \cup {p} THEN "task" ELSE @]
    /\ UNCHANGED <<pause, ghosts, lockFaults>>

\* The key is taken: wait, and try again.
Retry(t, p) ==
    /\ MayTry(t, p)
    /\ token[p] # Unlocked
    /\ attempt[t] < LockAttempts
    /\ attempt' = [attempt EXCEPT ![t] = @ + 1]
    /\ pause' = [pause EXCEPT ![t] = 1]
    /\ UNCHANGED <<keys, lockPc, locks, ghosts, lockFaults>>

\* Mutant: no finally.
GiveUpWithoutFinally(t, p) ==
    /\ MayTry(t, p)
    /\ token[p] # Unlocked
    /\ attempt[t] = LockAttempts
    /\ lockPc' = [lockPc EXCEPT ![t] = "over"]
    /\ busyAt' = [busyAt EXCEPT ![t] = {p}]
    /\ UNCHANGED <<keys, locks, attempt, pause, ran, lapsed, lockFaulty, lockFaults>>

\* It is still taken at the last attempt: the call answers busyMessage.
GiveUp(t, p) ==
    /\ MayTry(t, p)
    /\ token[p] # Unlocked
    /\ attempt[t] = LockAttempts
    /\ lockPc' = [lockPc EXCEPT ![t] = "release"]
    /\ busyAt' = [busyAt EXCEPT ![t] = {p}]
    /\ UNCHANGED <<keys, locks, attempt, pause, ran, lapsed, lockFaulty, lockFaults>>

-----------------------------------------------------------------------------
(* withLocks *)

\* The task returns or throws.
RunTask(t) ==
    /\ lockPc[t] = "task"
    /\ lockPc' = [lockPc EXCEPT ![t] = "release"]
    /\ ran' = ran \cup {t}
    /\ UNCHANGED <<keys, locks, attempt, pause, busyAt, lapsed, lockFaulty, lockFaults>>

LastLock(t, p) == p \in locks[t] /\ \A q \in locks[t] : q <= p

\* Mutant: DEL without comparing.
JustDelete(t, p) ==
    /\ token' = [token EXCEPT ![p] = Unlocked]
    /\ ttl' = [ttl EXCEPT ![p] = 0]

\* RELEASE_LOCK_SCRIPT: compare and delete.
CompareAndDelete(t, p) ==
    /\ token' = IF token[p] = t THEN [token EXCEPT ![p] = Unlocked] ELSE token
    /\ ttl' = IF token[p] = t THEN [ttl EXCEPT ![p] = 0] ELSE ttl

Release(t, p) ==
    /\ lockPc[t] = "release"
    /\ LastLock(t, p)
    /\ CompareAndDelete(t, p)
    /\ locks' = [locks EXCEPT ![t] = @ \ {p}]
    /\ UNCHANGED <<lockPc, attempt, pause, ghosts, lockFaults>>

Finish(t) ==
    /\ lockPc[t] = "release"
    /\ locks[t] = {}
    /\ lockPc' = [lockPc EXCEPT ![t] = "over"]
    /\ UNCHANGED <<keys, locks, attempt, pause, ghosts, lockFaults>>

-----------------------------------------------------------------------------
(* Time and faults *)

\* Redis drops a key whose time is over; delays run on.
Tick ==
    /\ \/ \E p \in LockProducts : ttl[p] > 0
       \/ \E t \in LockTasks : pause[t] > 0
    /\ token' = [p \in LockProducts |-> IF ttl[p] <= 1 THEN Unlocked ELSE token[p]]
    /\ ttl' = [p \in LockProducts |-> IF ttl[p] = 0 THEN 0 ELSE ttl[p] - 1]
    /\ pause' = [t \in LockTasks |-> IF pause[t] = 0 THEN 0 ELSE pause[t] - 1]
    /\ lapsed' = lapsed \cup {<<token[p], p>> : p \in {q \in LockProducts : ttl[q] = 1}}
    /\ UNCHANGED <<lockPc, locks, attempt, ran, busyAt, lockFaulty, lockFaults>>

Faulty(t) ==
    /\ lockFaults < LockMaxFaults
    /\ lockFaults' = lockFaults + 1
    /\ lockFaulty' = lockFaulty \cup {t}
    /\ UNCHANGED <<attempt, pause, ran, busyAt, lapsed>>

\* Redis fails, or its answer is lost after it set the key: acquireLock throws and
\* the lock is not pushed.
SetFails(t, p) ==
    /\ MayTry(t, p)
    /\ Faulty(t)
    /\ \/ token[p] = Unlocked /\ Grant(t, p)
       \/ UNCHANGED keys
    /\ lockPc' = [lockPc EXCEPT ![t] = "release"]
    /\ UNCHANGED locks

\* A failed unlock is logged.
ReleaseFails(t, p) ==
    /\ lockPc[t] = "release"
    /\ LastLock(t, p)
    /\ Faulty(t)
    /\ CompareAndDelete(t, p) \/ UNCHANGED keys
    /\ locks' = [locks EXCEPT ![t] = @ \ {p}]
    /\ UNCHANGED lockPc

\* The process dies and its keys stay until they expire.
LockCrash(t) ==
    /\ lockPc[t] \notin {"over", "dead"}
    /\ Faulty(t)
    /\ lockPc' = [lockPc EXCEPT ![t] = "dead"]
    /\ UNCHANGED <<keys, locks>>

-----------------------------------------------------------------------------
LockCall(t) ==
    \/ RunTask(t) \/ Finish(t)
    \/ \E p \in LockProducts : Lock(t, p) \/ Retry(t, p) \/ GiveUp(t, p) \/ Release(t, p)

LockFault(t) == LockCrash(t) \/ \E p \in LockProducts : SetFails(t, p) \/ ReleaseFails(t, p)

LockNext == Tick \/ \E t \in LockTasks : LockCall(t) \/ LockFault(t)
LockSpec == LockInit /\ [][LockNext]_lockVars

-----------------------------------------------------------------------------
(* Properties *)

\* Every variable has its type.
LockTypeOK ==
    /\ token \in [LockProducts -> LockTasks \cup {Unlocked}]
    /\ ttl \in [LockProducts -> Nat]
    /\ lockPc \in [LockTasks -> {"acquire", "task", "release", "over", "dead"}]
    /\ locks \in [LockTasks -> SUBSET LockProducts]
    /\ attempt \in [LockTasks -> Nat]
    /\ pause \in [LockTasks -> Nat]
    /\ ran \subseteq LockTasks
    /\ busyAt \in [LockTasks -> SUBSET LockProducts]
    /\ lapsed \subseteq (LockTasks \cup {Unlocked}) \X LockProducts
    /\ lockFaulty \subseteq LockTasks
    /\ lockFaults \in Nat

\* Two tasks that lock the same product run at the same time only if the lock of
\* one of them has expired under it: releases, failed ones too, and late callers
\* never take a lock from its owner.
LockExclusive ==
    \A t, u \in LockTasks : \A p \in LockTargets[t] \cap LockTargets[u] :
        t # u /\ lockPc[t] = "task" /\ lockPc[u] = "task" =>
            <<t, p>> \in lapsed \/ <<u, p>> \in lapsed

\* A call that is over leaves no key behind, whether it ran or was turned away,
\* unless Redis failed it.
NothingLeftLocked ==
    \A t \in LockTasks \ lockFaulty : lockPc[t] = "over" =>
        \A p \in LockProducts : token[p] # t

\* Callers with common products never all turn each other away: the order of the
\* keys lets one through, whatever the timing, unless Redis or a process failed.
SomebodyGetsThrough ==
    (\A t \in LockTasks : lockPc[t] = "over") /\ lockFaulty = {} /\ LockTasks # {} => ran # {}
=============================================================================
