--------------------------- MODULE ProcessProofs ----------------------------
(***************************************************************************)
(* What a server process runs: RedisLock, ServerLife, PubSub and           *)
(* RateLimiter.  They have no state in common; for every set of callers    *)
(* and products, of clients and signals, of streams and channels, of keys  *)
(* and limits:                                                             *)
(*   - the locks exclude each other while they last, nothing stays locked  *)
(*     after a call, and the order of the keys lets some caller through;   *)
(*   - nothing that somebody waits for runs without its database;          *)
(*   - a stream that is closed or refused hears nothing, and Redis sends   *)
(*     what the table of handlers routes;                                  *)
(*   - the limiter lets through no more and refuses no more than it says.  *)
(***************************************************************************)
EXTENDS RedisLock, ServerLife, PubSub, RateLimiter, SequenceTheorems, FiniteSetTheorems, TLAPS

-----------------------------------------------------------------------------
(* RedisLock: the keys *)

\* A pushed lock is held by its token until it expires.
HeldOrLapsed ==
    \A t \in LockTasks : \A p \in locks[t] : token[p] = t \/ <<t, p>> \in lapsed

\* A key that is set runs out.
Ticking == \A p \in LockProducts : token[p] # Unlocked => ttl[p] > 0

\* A key that is set was pushed, unless Redis failed the call that set it.
Pushed ==
    \A t \in LockTasks \ lockFaulty : \A p \in LockProducts : token[p] = t => p \in locks[t]

\* What a call has pushed, by where it is.
InPlace ==
    \A t \in LockTasks :
        /\ lockPc[t] = "acquire" => locks[t] \subseteq LockTargets[t]
        /\ lockPc[t] = "task" => locks[t] = LockTargets[t]
        /\ lockPc[t] = "over" => locks[t] = {}
        /\ lockPc[t] = "dead" => t \in lockFaulty

KeysInv == LockTypeOK /\ HeldOrLapsed /\ Ticking /\ Pushed /\ InPlace

LEMMA KeysInitially == LockInit => KeysInv
  <1> SUFFICES ASSUME LockInit
               PROVE  KeysInv
    OBVIOUS
  <1>1. LockTypeOK
    BY DEF LockInit, LockTypeOK
  <1>2. HeldOrLapsed /\ Ticking /\ Pushed /\ InPlace
    BY LockAssumption DEF LockInit, HeldOrLapsed, Ticking, Pushed, InPlace
  <1> QED
    BY <1>1, <1>2 DEF KeysInv

\* Taking a free key for a call.
LEMMA GrantKeeps ==
    ASSUME KeysInv, NEW t \in LockTasks, NEW p \in LockProducts,
           token[p] = Unlocked, Grant(t, p), UNCHANGED lapsed
    PROVE  /\ token' \in [LockProducts -> LockTasks \cup {Unlocked}]
           /\ ttl' \in [LockProducts -> Nat]
           /\ Ticking'
           /\ \A u \in LockTasks : \A q \in locks[u] \cap LockProducts :
                 token'[q] = u \/ <<u, q>> \in lapsed'
           /\ token'[p] = t
           /\ \A q \in LockProducts : q # p => token'[q] = token[q]
  <1> USE DEF KeysInv, LockTypeOK
  <1>1. /\ token' \in [LockProducts -> LockTasks \cup {Unlocked}]
        /\ ttl' \in [LockProducts -> Nat]
    BY LockAssumption DEF Grant
  <1>2. Ticking'
    BY LockAssumption DEF Grant, Ticking
  <1>3. token'[p] = t /\ \A q \in LockProducts : q # p => token'[q] = token[q]
    BY DEF Grant
  <1>4. ASSUME NEW u \in LockTasks, NEW q \in locks[u] \cap LockProducts
        PROVE  token'[q] = u \/ <<u, q>> \in lapsed'
    <2>1. token[q] = u \/ <<u, q>> \in lapsed
      BY DEF HeldOrLapsed
    <2>2. u # Unlocked
      BY LockAssumption
    <2> QED
      BY <1>3, <2>1, <2>2
  <1> QED
    BY <1>1, <1>2, <1>3, <1>4

\* Only its owner's key is deleted.
LEMMA DeleteKeeps ==
    ASSUME KeysInv, NEW t \in LockTasks, NEW p \in LockProducts,
           CompareAndDelete(t, p) \/ UNCHANGED keys
    PROVE  /\ token' \in [LockProducts -> LockTasks \cup {Unlocked}]
           /\ ttl' \in [LockProducts -> Nat]
           /\ Ticking'
           /\ \A q \in LockProducts : token'[q] = token[q] \/ (q = p /\ token[p] = t /\ token'[p] = Unlocked)
  <1> USE DEF KeysInv, LockTypeOK
  <1>1. CASE UNCHANGED keys
    BY <1>1 DEF keys, Ticking
  <1>2. CASE CompareAndDelete(t, p) /\ token[p] = t
    BY <1>2 DEF CompareAndDelete, Ticking
  <1>3. CASE CompareAndDelete(t, p) /\ token[p] # t
    BY <1>3 DEF CompareAndDelete, Ticking
  <1> QED
    BY <1>1, <1>2, <1>3

\* The call that releases p keeps the rest.
LEMMA ReleaseKeeps ==
    ASSUME KeysInv, NEW t \in LockTasks, NEW p \in LockProducts,
           lockPc[t] = "release", lockPc' = lockPc, lapsed' = lapsed,
           locks' = [locks EXCEPT ![t] = @ \ {p}],
           \/ CompareAndDelete(t, p) /\ lockFaulty' = lockFaulty
           \/ (CompareAndDelete(t, p) \/ UNCHANGED keys) /\ lockFaulty' = lockFaulty \cup {t},
           UNCHANGED <<attempt, pause, ran, busyAt>>, lockFaults' \in Nat
    PROVE  KeysInv'
  <1> USE DEF KeysInv, LockTypeOK
  <1>1. /\ token' \in [LockProducts -> LockTasks \cup {Unlocked}]
        /\ ttl' \in [LockProducts -> Nat]
        /\ Ticking'
        /\ \A q \in LockProducts : token'[q] = token[q] \/ (q = p /\ token[p] = t /\ token'[p] = Unlocked)
    BY DeleteKeeps
  <1>2. locks' \in [LockTasks -> SUBSET LockProducts] /\ lockFaulty' \subseteq LockTasks
    OBVIOUS
  <1>3. HeldOrLapsed'
    <2> SUFFICES ASSUME NEW u \in LockTasks, NEW q \in locks'[u]
                 PROVE  token'[q] = u \/ <<u, q>> \in lapsed'
      BY DEF HeldOrLapsed
    <2>1. q \in locks[u] /\ q \in LockProducts /\ (u = t => q # p)
      OBVIOUS
    <2>2. token[q] = u \/ <<u, q>> \in lapsed
      BY <2>1 DEF HeldOrLapsed
    <2> QED
      BY <1>1, <2>1, <2>2
  <1>4. Pushed'
    <2> SUFFICES ASSUME NEW u \in LockTasks \ lockFaulty', NEW q \in LockProducts, token'[q] = u
                 PROVE  q \in locks'[u]
      BY DEF Pushed
    <2>1. token[q] = u /\ u \notin lockFaulty
      BY <1>1, LockAssumption
    <2>2. q \in locks[u]
      BY <2>1 DEF Pushed
    <2>3. u = t => q # p
      <3> SUFFICES ASSUME u = t, q = p
                   PROVE  FALSE
        OBVIOUS
      <3>1. CompareAndDelete(t, p)
        OBVIOUS
      <3>2. token'[p] = Unlocked
        BY <2>1, <3>1 DEF CompareAndDelete
      <3> QED
        BY <3>2, LockAssumption
    <2> QED
      BY <2>2, <2>3
  <1>5. InPlace'
    BY DEF InPlace
  <1> QED
    BY <1>1, <1>2, <1>3, <1>4, <1>5

\* Time takes keys away only by expiry.
LEMMA TickKeeps == ASSUME KeysInv, Tick PROVE KeysInv'
  <1> USE DEF KeysInv, LockTypeOK
  <1>1. token' \in [LockProducts -> LockTasks \cup {Unlocked}]
    BY DEF Tick
  <1>2. ttl' \in [LockProducts -> Nat]
    <2>1. ASSUME NEW p \in LockProducts
          PROVE  (IF ttl[p] = 0 THEN 0 ELSE ttl[p] - 1) \in Nat
      OBVIOUS
    <2> QED
      BY <2>1 DEF Tick
  <1>3. pause' \in [LockTasks -> Nat]
    <2>1. ASSUME NEW t \in LockTasks
          PROVE  (IF pause[t] = 0 THEN 0 ELSE pause[t] - 1) \in Nat
      OBVIOUS
    <2> QED
      BY <2>1 DEF Tick
  <1>4. lapsed' \subseteq (LockTasks \cup {Unlocked}) \X LockProducts
    BY DEF Tick
  <1>5. UNCHANGED <<lockPc, locks, attempt, ran, busyAt, lockFaulty, lockFaults>>
    BY DEF Tick
  <1>6. ASSUME NEW p \in LockProducts
        PROVE  /\ token'[p] # Unlocked => token'[p] = token[p] /\ ttl'[p] > 0
               /\ token[p] # Unlocked => token'[p] = token[p] \/ <<token[p], p>> \in lapsed'
    <2>1. token[p] # Unlocked => ttl[p] > 0
      BY DEF Ticking
    <2>2. /\ token'[p] = IF ttl[p] <= 1 THEN Unlocked ELSE token[p]
          /\ ttl'[p] = IF ttl[p] = 0 THEN 0 ELSE ttl[p] - 1
          /\ ttl[p] = 1 => <<token[p], p>> \in lapsed'
      BY DEF Tick
    <2>3. ttl[p] \in Nat
      OBVIOUS
    <2> QED
      BY <2>1, <2>2, <2>3
  <1>7. lapsed \subseteq lapsed'
    BY DEF Tick
  <1>8. HeldOrLapsed'
    <2> SUFFICES ASSUME NEW u \in LockTasks, NEW q \in locks'[u]
                 PROVE  token'[q] = u \/ <<u, q>> \in lapsed'
      BY DEF HeldOrLapsed
    <2>1. q \in locks[u] /\ q \in LockProducts /\ u # Unlocked
      BY <1>5, LockAssumption
    <2>2. token[q] = u \/ <<u, q>> \in lapsed
      BY <2>1 DEF HeldOrLapsed
    <2> QED
      BY <1>6, <1>7, <2>1, <2>2
  <1>9. Ticking'
    BY <1>6 DEF Ticking
  <1>10. Pushed'
    <2> SUFFICES ASSUME NEW u \in LockTasks \ lockFaulty, NEW q \in LockProducts, token'[q] = u
                 PROVE  q \in locks[u]
      BY <1>5 DEF Pushed
    <2>1. token[q] = u
      BY <1>6, LockAssumption
    <2> QED
      BY <2>1 DEF Pushed
  <1>11. InPlace'
    BY <1>5 DEF InPlace
  <1> QED
    BY <1>1, <1>2, <1>3, <1>4, <1>5, <1>8, <1>9, <1>10, <1>11

LEMMA KeysInductive == KeysInv /\ [LockNext]_lockVars => KeysInv'
  <1> SUFFICES ASSUME KeysInv, [LockNext]_lockVars
               PROVE  KeysInv'
    OBVIOUS
  <1> USE DEF KeysInv, LockTypeOK
  <1>1. CASE Tick
    BY <1>1, TickKeeps
  <1>2. ASSUME NEW t \in LockTasks, NEW p \in LockProducts, Lock(t, p)
        PROVE  KeysInv'
    <2>1. /\ lockPc[t] = "acquire" /\ p \in LockTargets[t] \ locks[t]
          /\ token[p] = Unlocked /\ Grant(t, p) /\ UNCHANGED lapsed
          /\ locks' = [locks EXCEPT ![t] = @ \cup {p}]
          /\ UNCHANGED <<lockFaulty, lockFaults, pause, ran, busyAt>>
      BY <1>2 DEF Lock, MayTry, NextTarget, ghosts
    <2>2. /\ token' \in [LockProducts -> LockTasks \cup {Unlocked}]
          /\ ttl' \in [LockProducts -> Nat]
          /\ Ticking'
          /\ \A u \in LockTasks : \A q \in locks[u] \cap LockProducts :
                token'[q] = u \/ <<u, q>> \in lapsed'
          /\ token'[p] = t
          /\ \A q \in LockProducts : q # p => token'[q] = token[q]
      BY <2>1, GrantKeeps
    <2>3. /\ locks' \in [LockTasks -> SUBSET LockProducts]
          /\ lockPc' \in [LockTasks -> {"acquire", "task", "release", "over", "dead"}]
          /\ attempt' \in [LockTasks -> Nat]
      BY <1>2, <2>1 DEF Lock
    <2>4. HeldOrLapsed' /\ Pushed'
      BY <2>1, <2>2, <2>3 DEF HeldOrLapsed, Pushed
    <2>5. InPlace'
      <3> SUFFICES ASSUME NEW u \in LockTasks
                   PROVE  /\ lockPc'[u] = "acquire" => locks'[u] \subseteq LockTargets[u]
                          /\ lockPc'[u] = "task" => locks'[u] = LockTargets[u]
                          /\ lockPc'[u] = "over" => locks'[u] = {}
                          /\ lockPc'[u] = "dead" => u \in lockFaulty'
        BY DEF InPlace
      <3>1. CASE u # t
        BY <1>2, <2>1, <3>1 DEF InPlace, Lock
      <3>2. CASE u = t
        <4>1. lockPc'[t] = IF LockTargets[t] = locks[t] \cup {p} THEN "task" ELSE "acquire"
          BY <1>2, <2>1 DEF Lock
        <4> QED
          BY <2>1, <3>2, <4>1 DEF InPlace
      <3> QED
        BY <3>1, <3>2
    <2> QED
      BY <2>1, <2>2, <2>3, <2>4, <2>5
  <1>3. ASSUME NEW t \in LockTasks, NEW p \in LockProducts, Retry(t, p) \/ GiveUp(t, p)
        PROVE  KeysInv'
    <2>1. /\ UNCHANGED <<keys, locks, lapsed, lockFaulty, lockFaults, ran>>
          /\ lockPc[t] = "acquire"
          /\ lockPc' = lockPc \/ lockPc' = [lockPc EXCEPT ![t] = "release"]
          /\ busyAt' \in [LockTasks -> SUBSET LockProducts]
          /\ attempt' \in [LockTasks -> Nat] /\ pause' \in [LockTasks -> Nat]
      BY <1>3 DEF Retry, GiveUp, MayTry, ghosts
    <2> QED
      BY <2>1 DEF keys, HeldOrLapsed, Ticking, Pushed, InPlace
  <1>4. ASSUME NEW t \in LockTasks, NEW p \in LockProducts, Release(t, p)
        PROVE  KeysInv'
    BY <1>4, ReleaseKeeps DEF Release, ghosts
  <1>5. ASSUME NEW t \in LockTasks, NEW p \in LockProducts, ReleaseFails(t, p)
        PROVE  KeysInv'
    <2>1. /\ lockPc[t] = "release" /\ lockPc' = lockPc /\ lapsed' = lapsed
          /\ locks' = [locks EXCEPT ![t] = @ \ {p}]
          /\ CompareAndDelete(t, p) \/ UNCHANGED keys
          /\ lockFaulty' = lockFaulty \cup {t} /\ lockFaults' = lockFaults + 1
          /\ UNCHANGED <<attempt, pause, ran, busyAt>>
      BY <1>5 DEF ReleaseFails, Faulty
    <2>2. lockFaults' \in Nat
      BY <2>1
    <2> QED
      BY <2>1, <2>2, ReleaseKeeps
  <1>6. ASSUME NEW t \in LockTasks, RunTask(t)
        PROVE  KeysInv'
    BY <1>6 DEF RunTask, keys, HeldOrLapsed, Ticking, Pushed, InPlace
  <1>7. ASSUME NEW t \in LockTasks, Finish(t)
        PROVE  KeysInv'
    BY <1>7 DEF Finish, keys, ghosts, HeldOrLapsed, Ticking, Pushed, InPlace
  <1>8. ASSUME NEW t \in LockTasks, LockCrash(t)
        PROVE  KeysInv'
    <2>1. /\ UNCHANGED <<keys, locks, attempt, pause, ran, busyAt, lapsed>>
          /\ lockPc' = [lockPc EXCEPT ![t] = "dead"]
          /\ lockFaulty' = lockFaulty \cup {t} /\ lockFaults' = lockFaults + 1
      BY <1>8 DEF LockCrash, Faulty
    <2>2. LockTypeOK'
      BY <2>1 DEF keys
    <2>3. HeldOrLapsed' /\ Ticking' /\ Pushed'
      BY <2>1 DEF keys, HeldOrLapsed, Ticking, Pushed
    <2>4. InPlace'
      BY <2>1 DEF InPlace
    <2> QED
      BY <2>2, <2>3, <2>4
  <1>9. ASSUME NEW t \in LockTasks, NEW p \in LockProducts, SetFails(t, p)
        PROVE  KeysInv'
    <2>1. /\ lockPc[t] = "acquire"
          /\ lockPc' = [lockPc EXCEPT ![t] = "release"]
          /\ lockFaulty' = lockFaulty \cup {t} /\ lockFaults' = lockFaults + 1
          /\ UNCHANGED <<locks, lapsed, attempt, pause, ran, busyAt>>
      BY <1>9 DEF SetFails, Faulty, MayTry
    <2>2. InPlace'
      BY <2>1 DEF InPlace
    <2>3. CASE UNCHANGED keys
      BY <2>1, <2>2, <2>3 DEF keys, HeldOrLapsed, Ticking, Pushed
    <2>4. CASE token[p] = Unlocked /\ Grant(t, p)
      <3>1. /\ token' \in [LockProducts -> LockTasks \cup {Unlocked}]
            /\ ttl' \in [LockProducts -> Nat]
            /\ Ticking'
            /\ \A u \in LockTasks : \A q \in locks[u] \cap LockProducts :
                  token'[q] = u \/ <<u, q>> \in lapsed'
            /\ token'[p] = t
            /\ \A q \in LockProducts : q # p => token'[q] = token[q]
        BY <2>1, <2>4, GrantKeeps
      <3>2. HeldOrLapsed' /\ Pushed'
        BY <2>1, <3>1 DEF HeldOrLapsed, Pushed
      <3> QED
        BY <2>1, <2>2, <3>1, <3>2
    <2> QED
      BY <1>9, <2>3, <2>4 DEF SetFails
  <1>10. CASE UNCHANGED lockVars
    BY <1>10 DEF lockVars, keys, caller, ghosts, HeldOrLapsed, Ticking, Pushed, InPlace
  <1> QED
    BY <1>1, <1>2, <1>3, <1>4, <1>5, <1>6, <1>7, <1>8, <1>9, <1>10
       DEF LockNext, LockCall, LockFault

LEMMA KeysInvariant == LockSpec => []KeysInv
  BY KeysInitially, KeysInductive, PTL DEF LockSpec

\* Every variable of RedisLock keeps its type.
THEOREM LockTypeCorrect == LockSpec => []LockTypeOK
  <1>1. KeysInv => LockTypeOK
    BY DEF KeysInv
  <1> QED
    BY <1>1, KeysInvariant, PTL

\* Of two tasks that run with a product in common, one has lost its lock to time:
\* no release, no failure and no late caller takes it.
THEOREM LocksExclude == LockSpec => []LockExclusive
  <1>1. KeysInv => LockExclusive
    <2> SUFFICES ASSUME KeysInv,
                        NEW t \in LockTasks, NEW u \in LockTasks,
                        NEW p \in LockTargets[t] \cap LockTargets[u],
                        t # u, lockPc[t] = "task", lockPc[u] = "task"
                 PROVE  <<t, p>> \in lapsed \/ <<u, p>> \in lapsed
      BY DEF LockExclusive
    <2>1. p \in locks[t] /\ p \in locks[u]
      BY DEF KeysInv, InPlace
    <2> QED
      BY <2>1 DEF KeysInv, HeldOrLapsed
  <1> QED
    BY <1>1, KeysInvariant, PTL

\* A call that Redis did not fail leaves no key when it is over.
THEOREM LocksAreReleased == LockSpec => []NothingLeftLocked
  <1>1. KeysInv => NothingLeftLocked
    BY DEF KeysInv, InPlace, Pushed, NothingLeftLocked
  <1> QED
    BY <1>1, KeysInvariant, PTL

-----------------------------------------------------------------------------
(* The order of the keys *)

\* A call has the first of its products.
InOrder ==
    \A t \in LockTasks : lockPc[t] = "acquire" =>
        \A p \in locks[t], q \in LockTargets[t] \ locks[t] : p < q

\* It gave up at a later product than p.
GaveUpAfter(t, p) == \E q \in LockProducts : busyAt[t] = {q} /\ p < q

HoldsEarlier ==
    \A t \in LockTasks : lockPc[t] = "release" /\ t \notin ran =>
        \A p \in locks[t] : GaveUpAfter(t, p)

\* The call has got p: it has not been turned away there.
Beyond(u, p) ==
    \/ lockPc[u] = "acquire" /\ p \in locks[u]
    \/ lockPc[u] = "task"
    \/ u \in ran
    \/ lockPc[u] \in {"release", "over"} /\ GaveUpAfter(u, p)

\* Whoever was turned away was so by a call that got further.
TurnedAway ==
    \A t \in LockTasks : lockPc[t] \in {"release", "over"} =>
        \/ t \in ran
        \/ \E p \in LockProducts : busyAt[t] = {p} /\ \E u \in LockTasks : Beyond(u, p)

OrderInv == lockFaulty = {} => InOrder /\ HoldsEarlier /\ TurnedAway

\* A step that meets no fault.
GoodStep ==
    \/ Tick
    \/ \E t \in LockTasks : LockCall(t)
    \/ UNCHANGED lockVars

LEMMA FaultsShow ==
    ASSUME [LockNext]_lockVars, lockFaulty' = {}
    PROVE  GoodStep /\ lockFaulty = {}
  <1>1. ASSUME NEW t \in LockTasks, Faulty(t)
        PROVE  FALSE
    BY <1>1 DEF Faulty
  <1>2. ASSUME NEW t \in LockTasks
        PROVE  ~LockFault(t)
    BY <1>1 DEF LockFault, LockCrash, SetFails, ReleaseFails
  <1>3. GoodStep
    BY <1>2 DEF LockNext, GoodStep
  <1>4. lockFaulty' = lockFaulty
    BY <1>3 DEF GoodStep, Tick, LockCall, RunTask, Finish, Lock, Retry, GiveUp, Release,
                ghosts, lockVars
  <1> QED
    BY <1>3, <1>4

\* What a call locks comes after what it has.
LEMMA LockedInOrder ==
    ASSUME KeysInv, InOrder, NEW t \in LockTasks, NEW p \in LockProducts, MayTry(t, p)
    PROVE  /\ \A q \in locks[t] : q < p
           /\ \A q \in LockTargets[t] \ (locks[t] \cup {p}) : p < q
  <1>1. /\ lockPc[t] = "acquire"
        /\ p \in LockTargets[t] \ locks[t]
        /\ \A q \in LockTargets[t] \ locks[t] : p <= q
    BY DEF MayTry, NextTarget
  <1>2. LockTargets[t] \subseteq Nat
    BY LockAssumption
  <1>3. \A q \in LockTargets[t] \ (locks[t] \cup {p}) : p < q
    BY <1>1, <1>2
  <1> QED
    BY <1>1, <1>3 DEF InOrder

\* A call that has got p keeps it in that sense.
LEMMA BeyondStays ==
    ASSUME KeysInv, OrderInv, lockFaulty = {}, GoodStep,
           NEW u \in LockTasks, NEW p \in LockProducts, Beyond(u, p)
    PROVE  Beyond(u, p)'
  <1> USE DEF KeysInv, LockTypeOK
  <1>1. CASE Tick \/ UNCHANGED lockVars
    BY <1>1 DEF Tick, lockVars, caller, ghosts, Beyond, GaveUpAfter
  <1>2. ASSUME NEW t \in LockTasks, NEW q \in LockProducts, GiveUp(t, q)
        PROVE  Beyond(u, p)'
    <2>1. CASE t = u /\ p \in locks[t]
      <3>1. p < q
        BY <1>2, <2>1, LockedInOrder DEF GiveUp, OrderInv
      <3>2. lockPc'[t] = "release" /\ busyAt'[t] = {q}
        BY <1>2 DEF GiveUp
      <3> QED
        BY <2>1, <3>1, <3>2 DEF Beyond, GaveUpAfter
    <2>2. CASE t = u /\ p \notin locks[t]
      BY <1>2, <2>2 DEF GiveUp, MayTry, Beyond
    <2>3. CASE t # u
      BY <1>2, <2>3 DEF GiveUp, Beyond, GaveUpAfter
    <2> QED
      BY <2>1, <2>2, <2>3
  <1>3. ASSUME NEW t \in LockTasks, NEW q \in LockProducts, Lock(t, q)
        PROVE  Beyond(u, p)'
    BY <1>3 DEF Lock, MayTry, ghosts, Beyond, GaveUpAfter
  <1>4. ASSUME NEW t \in LockTasks, NEW q \in LockProducts, Retry(t, q)
        PROVE  Beyond(u, p)'
    BY <1>4 DEF Retry, ghosts, Beyond, GaveUpAfter
  <1>5. ASSUME NEW t \in LockTasks, NEW q \in LockProducts, Release(t, q)
        PROVE  Beyond(u, p)'
    BY <1>5 DEF Release, ghosts, Beyond, GaveUpAfter
  <1>6. ASSUME NEW t \in LockTasks, RunTask(t)
        PROVE  Beyond(u, p)'
    BY <1>6 DEF RunTask, Beyond, GaveUpAfter
  <1>7. ASSUME NEW t \in LockTasks, Finish(t)
        PROVE  Beyond(u, p)'
    BY <1>7 DEF Finish, ghosts, Beyond, GaveUpAfter
  <1> QED
    BY <1>1, <1>2, <1>3, <1>4, <1>5, <1>6, <1>7 DEF GoodStep, LockCall

\* The owner of a key has got it.
LEMMA OwnerBeyond ==
    ASSUME KeysInv, OrderInv, lockFaulty = {},
           NEW p \in LockProducts, token[p] # Unlocked
    PROVE  Beyond(token[p], p)
  <1> DEFINE u == token[p]
  <1>1. u \in LockTasks /\ lockPc[u] \in {"acquire", "task", "release", "over", "dead"}
    BY DEF KeysInv, LockTypeOK
  <1>2. p \in locks[u]
    BY <1>1 DEF KeysInv, Pushed
  <1>3. lockPc[u] \notin {"over", "dead"}
    BY <1>1, <1>2 DEF KeysInv, InPlace
  <1>4. lockPc[u] = "release" /\ u \notin ran => GaveUpAfter(u, p)
    BY <1>1, <1>2 DEF OrderInv, HoldsEarlier
  <1> QED
    BY <1>1, <1>2, <1>3, <1>4 DEF Beyond

LEMMA OrderInitially == LockInit => OrderInv
  BY LockAssumption DEF LockInit, OrderInv, InOrder, HoldsEarlier, TurnedAway

LEMMA InOrderStays ==
    ASSUME KeysInv, OrderInv, lockFaulty = {}, GoodStep
    PROVE  InOrder' /\ HoldsEarlier'
  <1> USE DEF KeysInv, LockTypeOK
  <1>0. InOrder /\ HoldsEarlier
    BY DEF OrderInv
  <1>1. CASE Tick \/ UNCHANGED lockVars
    BY <1>0, <1>1 DEF Tick, lockVars, caller, ghosts, InOrder, HoldsEarlier, GaveUpAfter
  <1>2. ASSUME NEW t \in LockTasks, NEW p \in LockProducts, Lock(t, p)
        PROVE  InOrder' /\ HoldsEarlier'
    <2>1. /\ MayTry(t, p) /\ lockPc[t] = "acquire"
          /\ locks' = [locks EXCEPT ![t] = @ \cup {p}]
          /\ \A u \in LockTasks : u # t => lockPc'[u] = lockPc[u]
          /\ lockPc'[t] \in {"acquire", "task"}
          /\ UNCHANGED <<ran, busyAt>>
      BY <1>2 DEF Lock, MayTry, ghosts
    <2>2. InOrder'
      <3> SUFFICES ASSUME NEW u \in LockTasks, lockPc'[u] = "acquire",
                          NEW q \in locks'[u], NEW r \in LockTargets[u] \ locks'[u]
                   PROVE  q < r
        BY DEF InOrder
      <3>1. CASE u = t
        BY <1>0, <2>1, <3>1, LockedInOrder DEF InOrder
      <3>2. CASE u # t
        BY <1>0, <2>1, <3>2 DEF InOrder
      <3> QED
        BY <3>1, <3>2
    <2>3. HoldsEarlier'
      BY <1>0, <2>1 DEF HoldsEarlier, GaveUpAfter
    <2> QED
      BY <2>2, <2>3
  <1>3. ASSUME NEW t \in LockTasks, NEW p \in LockProducts, Retry(t, p)
        PROVE  InOrder' /\ HoldsEarlier'
    BY <1>0, <1>3 DEF Retry, ghosts, InOrder, HoldsEarlier, GaveUpAfter
  <1>4. ASSUME NEW t \in LockTasks, NEW p \in LockProducts, GiveUp(t, p)
        PROVE  InOrder' /\ HoldsEarlier'
    <2>1. /\ MayTry(t, p)
          /\ lockPc' = [lockPc EXCEPT ![t] = "release"]
          /\ busyAt' = [busyAt EXCEPT ![t] = {p}]
          /\ UNCHANGED <<locks, ran>>
      BY <1>4 DEF GiveUp
    <2>2. \A q \in locks[t] : q < p
      BY <1>0, <2>1, LockedInOrder
    <2>3. InOrder'
      BY <1>0, <2>1 DEF InOrder
    <2>4. HoldsEarlier'
      BY <1>0, <2>1, <2>2 DEF HoldsEarlier, GaveUpAfter
    <2> QED
      BY <2>3, <2>4
  <1>5. ASSUME NEW t \in LockTasks, NEW p \in LockProducts, Release(t, p)
        PROVE  InOrder' /\ HoldsEarlier'
    BY <1>0, <1>5 DEF Release, ghosts, InOrder, HoldsEarlier, GaveUpAfter
  <1>6. ASSUME NEW t \in LockTasks, RunTask(t) \/ Finish(t)
        PROVE  InOrder' /\ HoldsEarlier'
    BY <1>0, <1>6 DEF RunTask, Finish, ghosts, InOrder, HoldsEarlier, GaveUpAfter
  <1> QED
    BY <1>1, <1>2, <1>3, <1>4, <1>5, <1>6 DEF GoodStep, LockCall

LEMMA TurnedAwayStays ==
    ASSUME KeysInv, OrderInv, lockFaulty = {}, GoodStep
    PROVE  TurnedAway'
  <1> USE DEF KeysInv, LockTypeOK
  <1>0. TurnedAway
    BY DEF OrderInv
  <1> SUFFICES ASSUME NEW t \in LockTasks, lockPc'[t] \in {"release", "over"}, t \notin ran'
               PROVE  \E p \in LockProducts : busyAt'[t] = {p} /\ \E u \in LockTasks : Beyond(u, p)'
    BY DEF TurnedAway
  <1>1. CASE lockPc[t] \in {"release", "over"} /\ busyAt'[t] = busyAt[t] /\ t \notin ran
    <2>1. PICK p \in LockProducts : busyAt[t] = {p} /\ \E u \in LockTasks : Beyond(u, p)
      BY <1>0, <1>1 DEF TurnedAway
    <2>2. PICK u \in LockTasks : Beyond(u, p)
      BY <2>1
    <2>3. Beyond(u, p)'
      BY <2>2, BeyondStays
    <2> QED
      BY <1>1, <2>1, <2>3
  <1>2. ASSUME NEW p \in LockProducts, GiveUp(t, p)
        PROVE  \E q \in LockProducts : busyAt'[t] = {q} /\ \E u \in LockTasks : Beyond(u, q)'
    <2>1. token[p] # Unlocked /\ busyAt'[t] = {p}
      BY <1>2 DEF GiveUp
    <2>2. PICK u \in LockTasks : Beyond(u, p)
      BY <2>1, OwnerBeyond
    <2>3. Beyond(u, p)'
      BY <2>2, BeyondStays
    <2> QED
      BY <2>1, <2>3
  <1>3. CASE Tick \/ UNCHANGED lockVars
    BY <1>1, <1>3 DEF Tick, lockVars, caller, ghosts
  <1>4. ASSUME NEW v \in LockTasks, LockCall(v)
        PROVE  \/ lockPc[t] \in {"release", "over"} /\ busyAt'[t] = busyAt[t] /\ t \notin ran
               \/ \E p \in LockProducts : GiveUp(t, p)
    <2>1. ASSUME NEW p \in LockProducts, Lock(v, p) \/ Retry(v, p) \/ Release(v, p)
          PROVE  lockPc[t] \in {"release", "over"} /\ busyAt'[t] = busyAt[t] /\ t \notin ran
      BY <2>1 DEF Lock, Retry, Release, MayTry, ghosts
    <2>2. ASSUME NEW p \in LockProducts, GiveUp(v, p), v # t
          PROVE  lockPc[t] \in {"release", "over"} /\ busyAt'[t] = busyAt[t] /\ t \notin ran
      BY <2>2 DEF GiveUp
    <2>3. CASE RunTask(v) \/ Finish(v)
      BY <2>3 DEF RunTask, Finish, ghosts
    <2> QED
      BY <1>4, <2>1, <2>2, <2>3 DEF LockCall
  <1> QED
    BY <1>1, <1>2, <1>3, <1>4 DEF GoodStep

LEMMA OrderInductive == KeysInv /\ OrderInv /\ [LockNext]_lockVars => OrderInv'
  <1> SUFFICES ASSUME KeysInv, OrderInv, [LockNext]_lockVars, lockFaulty' = {}
               PROVE  InOrder' /\ HoldsEarlier' /\ TurnedAway'
    BY DEF OrderInv
  <1> QED
    BY FaultsShow, InOrderStays, TurnedAwayStays

\* Of the products somebody was turned away at, the last was held by a call that
\* got further: not everybody can have been turned away.
LEMMA LastOneRan ==
    ASSUME KeysInv, OrderInv
    PROVE  SomebodyGetsThrough
  <1> SUFFICES ASSUME \A t \in LockTasks : lockPc[t] = "over", lockFaulty = {},
                      LockTasks # {}, ran = {}
               PROVE  FALSE
    BY DEF SomebodyGetsThrough
  <1> DEFINE P == {p \in LockProducts : \E t \in LockTasks : busyAt[t] = {p}}
  <1>1. \A t \in LockTasks : \E p \in LockProducts :
            busyAt[t] = {p} /\ \E u \in LockTasks : Beyond(u, p)
    BY DEF OrderInv, TurnedAway
  <1>2. P \in SUBSET LockProducts /\ P # {}
    BY <1>1
  <1>3. PICK p \in P : \A q \in P : q <= p
    BY <1>2, LockAssumption
  <1>4. PICK t \in LockTasks : busyAt[t] = {p}
    BY <1>3
  <1>5. PICK u \in LockTasks : Beyond(u, p)
    <2>1. PICK q \in LockProducts : busyAt[t] = {q} /\ \E u \in LockTasks : Beyond(u, q)
      BY <1>1, <1>4
    <2>2. q = p
      BY <1>4, <2>1
    <2> QED
      BY <2>1, <2>2
  <1>6. PICK q \in LockProducts : busyAt[u] = {q} /\ p < q
    BY <1>5 DEF Beyond, GaveUpAfter
  <1>7. q \in P
    BY <1>6
  <1>8. q <= p
    BY <1>3, <1>7
  <1>9. p \in Nat /\ q \in Nat
    BY <1>3, <1>6, LockAssumption
  <1> QED
    BY <1>6, <1>8, <1>9

\* When all callers are over and Redis failed none of them, one has run its task.
THEOREM OneCallerRuns == LockSpec => []SomebodyGetsThrough
  <1>1. KeysInv /\ OrderInv /\ [LockNext]_lockVars /\ KeysInv' => OrderInv'
    BY OrderInductive
  <1> QED
    BY <1>1, KeysInvariant, OrderInitially, LastOneRan, PTL DEF LockSpec

-----------------------------------------------------------------------------
(* ServerLife *)

\* The connection is closed only by the shutdown, after the server and the job.
Connected ==
    \/ life \in {"start", "serving", "closing", "cleanup"}
    \/ life = "disconnect" /\ "database" \in leaving

LifeInv ==
    /\ Connected => database = "up"
    /\ leaving # {} => life \in {"disconnect"} \cup Ended
    /\ "cleanup" \in timers => life \in {"serving", "closing"}
    /\ pending => life \in {"serving", "closing", "cleanup"}
    /\ link \in [Clients -> {"none", "request", "stream"}]
    /\ \A c \in Clients : link[c] # "none" => life \in {"serving", "closing"}
    /\ handler \subseteq Clients
    /\ handler # {} => life \in {"serving", "closing", "cleanup", "disconnect"}
    /\ life \in {"cleanup", "disconnect"} => stopped

LEMMA LifeInitially == LifeInit => LifeInv
  BY DEF LifeInit, LifeInv, Connected

LEMMA DeadIsQuiet ==
    ASSUME LifeInv, NEW how \in Ended, Die(how)
    PROVE  LifeInv'
  BY DEF LifeInv, Connected, Die, Ended

LEMMA LifeInductive == LifeInv /\ [LifeNext]_lifeVars => LifeInv'
  <1> SUFFICES ASSUME LifeInv, [LifeNext]_lifeVars
               PROVE  LifeInv'
    OBVIOUS
  <1> USE DEF LifeInv, Connected, Ended
  <1>1. CASE ConnectRedis \/ ConnectDatabase \/ Serve
    BY <1>1 DEF ConnectRedis, ConnectDatabase, Serve
  <1>2. CASE BootFails \/ DisconnectFails \/ Exit
    BY <1>2, DeadIsQuiet DEF BootFails, DisconnectFails, Exit
  <1>3. CASE StartPass \/ EndPass
    BY <1>3 DEF StartPass, EndPass
  <1>4. CASE Closed \/ CleanupStopped
    BY <1>4 DEF Closed, CleanupStopped
  <1>5. CASE DisconnectDatabase \/ DisconnectRedis
    BY <1>5 DEF DisconnectDatabase, DisconnectRedis
  <1>6. CASE LoseRedis \/ ReconnectRedis
    BY <1>6 DEF LoseRedis, ReconnectRedis
  <1>7. ASSUME NEW c \in Clients, Open(c) \/ Handled(c) \/ ClientLeaves(c)
        PROVE  LifeInv'
    BY <1>7 DEF Open, Handled, ClientLeaves
  <1>8. ASSUME NEW g \in Signals, Signal(g)
        PROVE  LifeInv'
    <2>1. CASE Die("killed")
      BY <2>1, DeadIsQuiet
    <2>2. CASE ~Die("killed")
      BY <1>8, <2>2 DEF Signal, Booting
    <2> QED
      BY <2>1, <2>2
  <1>9. CASE UNCHANGED lifeVars
    BY <1>9 DEF lifeVars
  <1> QED
    BY <1>1, <1>2, <1>3, <1>4, <1>5, <1>6, <1>7, <1>8, <1>9 DEF LifeNext, Shutdown

\* Wherever a signal, a failure or a client that leaves finds them: no cleanup pass runs
\* without the database, nor does any handler, but one whose client left before the
\* server closed and that is still running while shutdown disconnects.
THEOREM WorkKeepsDatabase == LifeSpec => []WorkHasDatabase
  <1>1. LifeInv => WorkHasDatabase
    BY DEF LifeInv, Connected, WorkHasDatabase
  <1> QED
    BY <1>1, LifeInitially, LifeInductive, PTL DEF LifeSpec

-----------------------------------------------------------------------------
(* PubSub *)

Command == [stream : Streams, channel : Channels, subscribe : BOOLEAN]

PubSubType ==
    /\ handlers \in [Channels -> Streams \cup {NoSet}]
    /\ members \in [Channels -> [Streams -> SUBSET Streams]]
    /\ connection \in {"none", "connecting", "ready", "lost"}
    /\ wire \in Seq(Command)
    /\ subscribed \in SUBSET Channels
    /\ pc \in [Streams -> {"start", "subscribe", "answer", "open", "closed"}]
    /\ at \in [Streams -> {1, 2}]
    /\ gone \in [Streams -> {"no", "early", "late"}]

Waiting(s) == pc[s] \in {"start", "subscribe", "answer"}

\* Each SUBSCRIBE on the wire is the one its stream waits for.
Asked ==
    \A i \in DOMAIN wire : wire[i].subscribe =>
        /\ pc[wire[i].stream] = "answer"
        /\ wire[i].channel = Channel(wire[i].stream)
        /\ \A j \in DOMAIN wire :
              wire[j].subscribe /\ wire[j].stream = wire[i].stream => j = i

\* A handler is only in sets of its stream's channels, and while the stream still
\* subscribes only in sets of the first.
MembersBelong ==
    \A s, h \in Streams, ch \in Channels : s \in members[ch][h] =>
        /\ ch \in {ChannelsOf[s][1], ChannelsOf[s][2]}
        /\ Waiting(s) => at[s] = 2 /\ ch = ChannelsOf[s][1]

\* A set that is still to be made is empty and not in the table.
MayCreate(s, ch) ==
    \/ ch = ChannelsOf[s][1] /\ at[s] = 1 /\ pc[s] \in {"start", "subscribe"}
    \/ ch = ChannelsOf[s][2] /\ at[s] = 1 /\ Waiting(s)
    \/ ch = ChannelsOf[s][2] /\ at[s] = 2 /\ pc[s] \in {"start", "subscribe"}

Fresh ==
    \A s \in Streams, ch \in Channels : MayCreate(s, ch) =>
        handlers[ch] # s /\ members[ch][s] = {}

\* A connection never established has answered nobody: every set in the table was
\* made by a stream that waits for the answer.
Unanswered ==
    connection \in {"none", "connecting"} =>
        \A ch \in Channels : handlers[ch] # NoSet =>
            /\ connection = "connecting"
            /\ pc[handlers[ch]] = "answer"
            /\ Channel(handlers[ch]) = ch

\* Redis sends ch, or will when it has read the wire, and no UNSUBSCRIBE has the
\* last word.
Heard(ch) ==
    /\ \A j \in DOMAIN wire : wire[j].channel = ch /\ ~wire[j].subscribe =>
          \E i \in DOMAIN wire : i > j /\ wire[i].channel = ch /\ wire[i].subscribe
    /\ \/ ch \in subscribed
       \/ \E i \in DOMAIN wire : wire[i].channel = ch /\ wire[i].subscribe

TableHeard ==
    connection # "lost" =>
        \A ch \in Channels : handlers[ch] # NoSet => Heard(ch)

HandlerInv == MembersBelong /\ Fresh /\ NoGhostHandler

WireInv == Asked /\ Unanswered /\ TableHeard

-----------------------------------------------------------------------------
(* Leaving channels *)

\* Handlers that leave are in no set of the table; other sets stay as they are.
LEMMA LeavingShrinks ==
    ASSUME PubSubType, NEW h \in [Channels -> Streams \cup {NoSet}],
           NEW exits \in [Channels -> SUBSET Streams]
    PROVE  /\ Members(h, exits) \in [Channels -> [Streams -> SUBSET Streams]]
           /\ Table(h, exits) \in [Channels -> Streams \cup {NoSet}]
           /\ \A ch \in Channels, s \in Streams :
                 Members(h, exits)[ch][s] \subseteq members[ch][s]
           /\ \A ch \in Channels : Table(h, exits)[ch] \in {NoSet, h[ch]}
           /\ \A ch \in Channels : h[ch] \in Streams =>
                 Members(h, exits)[ch][h[ch]] \cap exits[ch] = {}
<1>1. Members(h, exits) \in [Channels -> [Streams -> SUBSET Streams]]
  BY DEF PubSubType, Members
<1>2. Table(h, exits) \in [Channels -> Streams \cup {NoSet}]
  BY DEF Table
<1>3. \A ch \in Channels : Table(h, exits)[ch] \in {NoSet, h[ch]}
  BY DEF Table
<1>4. \A ch \in Channels, s \in Streams : Members(h, exits)[ch][s] =
        IF s = h[ch] THEN members[ch][s] \ exits[ch] ELSE members[ch][s]
  BY DEF Members
<1> DEFINE M == Members(h, exits)
<1> HIDE DEF M
<1>5. ASSUME NEW ch \in Channels, NEW s \in Streams
      PROVE  M[ch][s] \subseteq members[ch][s]
  BY <1>4 DEF M
<1>6. ASSUME NEW ch \in Channels, h[ch] \in Streams
      PROVE  M[ch][h[ch]] \cap exits[ch] = {}
  <2>1. M[ch][h[ch]] = members[ch][h[ch]] \ exits[ch]
    BY <1>4, <1>6 DEF M
  <2> QED BY <2>1
<1> QED BY <1>1, <1>2, <1>3, <1>5, <1>6 DEF M

\* The table without the channels of the calls that fail.
ForgetTable(S) ==
    [ch \in Channels |-> IF ch \in Forgets(S) THEN NoSet ELSE handlers[ch]]

\* Rejected streams are closed and routed nowhere; the others stay where they are.
LEMMA RejectRoutesNone ==
    ASSUME PubSubType, MembersBelong, NEW S \in SUBSET Streams, Reject(S),
           \A s \in S : pc[s] \in {"subscribe", "answer"}
    PROVE  /\ members' \in [Channels -> [Streams -> SUBSET Streams]]
           /\ handlers' \in [Channels -> Streams \cup {NoSet}]
           /\ pc' \in [Streams -> {"start", "subscribe", "answer", "open", "closed"}]
           /\ \A ch \in Channels, s \in Streams : members'[ch][s] \subseteq members[ch][s]
           /\ \A ch \in Channels : handlers'[ch] \in {NoSet, handlers[ch]}
           /\ \A s \in S : Channel(s) \in Channels => handlers'[Channel(s)] = NoSet
           /\ \A s \in Streams : pc'[s] = IF s \in S THEN "closed" ELSE pc[s]
           /\ \A s \in S, ch \in Channels : ~Routed(s, ch)'
<1> DEFINE h == ForgetTable(S)
           l == GivesUp(S)
<1>1. /\ members' = Members(h, l) /\ handlers' = Table(h, l)
      /\ pc' = [s \in Streams |-> IF s \in S THEN "closed" ELSE pc[s]]
  BY DEF Reject, ForgetTable
<1>2. h \in [Channels -> Streams \cup {NoSet}] /\ l \in [Channels -> SUBSET Streams]
  BY DEF PubSubType, ForgetTable, GivesUp
<1>3. /\ \A ch \in Channels : h[ch] = IF ch \in Forgets(S) THEN NoSet ELSE handlers[ch]
      /\ \A ch \in Channels, s \in S : at[s] = 2 /\ ChannelsOf[s][1] = ch => s \in l[ch]
  BY DEF ForgetTable, GivesUp
<1> HIDE DEF h, l
<1>4. /\ members' \in [Channels -> [Streams -> SUBSET Streams]]
      /\ handlers' \in [Channels -> Streams \cup {NoSet}]
      /\ \A ch \in Channels, s \in Streams : members'[ch][s] \subseteq members[ch][s]
      /\ \A ch \in Channels : handlers'[ch] \in {NoSet, h[ch]}
      /\ \A ch \in Channels : h[ch] \in Streams => members'[ch][h[ch]] \cap l[ch] = {}
  BY <1>1, <1>2, LeavingShrinks
<1>5. pc' \in [Streams -> {"start", "subscribe", "answer", "open", "closed"}]
  BY <1>1 DEF PubSubType
<1>6. \A s \in Streams : pc'[s] = IF s \in S THEN "closed" ELSE pc[s]
  BY <1>1
<1>7. \A s \in S : Channel(s) \in Channels => handlers'[Channel(s)] = NoSet
  BY <1>3, <1>4 DEF Forgets
<1>8. ASSUME NEW s \in S, NEW ch \in Channels, Routed(s, ch)' PROVE FALSE
  <2>1. /\ handlers'[ch] = handlers[ch] /\ handlers[ch] \in Streams /\ h[ch] = handlers[ch]
        /\ s \in members'[ch][h[ch]]
    BY <1>3, <1>4, <1>8 DEF Routed, PubSubType
  <2>2. s \in members[ch][handlers[ch]]
    BY <1>4, <2>1
  <2>3. at[s] = 2 /\ ch = ChannelsOf[s][1]
    BY <2>1, <2>2 DEF MembersBelong, Waiting
  <2> QED BY <1>3, <1>4, <2>1, <2>3
<1> QED BY <1>3, <1>4, <1>5, <1>6, <1>7, <1>8

-----------------------------------------------------------------------------
(* Types *)

LEMMA ChannelsKnown ==
    ASSUME PubSubType, NEW s \in Streams
    PROVE  /\ ChannelsOf[s][1] \in Channels /\ ChannelsOf[s][2] \in Channels
           /\ ChannelsOf[s][1] # ChannelsOf[s][2]
           /\ Channel(s) = IF at[s] = 1 THEN ChannelsOf[s][1] ELSE ChannelsOf[s][2]
           /\ Channel(s) \in Channels
<1>1. ChannelsOf[s] \in Channels \X Channels /\ at[s] \in {1, 2}
  BY PubSubAssumption DEF PubSubType
<1>2. ChannelsOf[s][1] \in Channels /\ ChannelsOf[s][2] \in Channels
  BY <1>1
<1> QED BY <1>1, <1>2, PubSubAssumption DEF Channel

\* The channels that the stream leaves when it closes.
Leaving(s) ==
    [ch \in Channels |-> IF ch \in {ChannelsOf[s][1], ChannelsOf[s][2]} THEN {s} ELSE {}]

Goodbye(s, ch) == [stream |-> s, channel |-> ch, subscribe |-> FALSE]

Goodbyes(s, ch) ==
    IF handlers'[ch] # handlers[ch] THEN <<Goodbye(s, ch)>> ELSE <<>>

\* A stream that closes is routed nowhere, and the wire only gets the UNSUBSCRIBE of
\* channels that the table no longer has.
LEMMA CloseRoutesNone ==
    ASSUME PubSubType, MembersBelong, NEW s \in Streams, Close(s)
    PROVE  /\ members' \in [Channels -> [Streams -> SUBSET Streams]]
           /\ handlers' \in [Channels -> Streams \cup {NoSet}]
           /\ \A ch \in Channels, t \in Streams : members'[ch][t] \subseteq members[ch][t]
           /\ \A ch \in Channels : handlers'[ch] \in {NoSet, handlers[ch]}
           /\ \A t \in Streams : pc'[t] = IF t = s THEN "closed" ELSE pc[t]
           /\ \A ch \in Channels : ~Routed(s, ch)'
           /\ wire' \in Seq(Command)
           /\ Len(wire) <= Len(wire')
           /\ \A i \in 1..Len(wire) : wire'[i] = wire[i]
           /\ \A i \in Len(wire) + 1 .. Len(wire') :
                 ~wire'[i].subscribe /\ handlers'[wire'[i].channel] = NoSet
<1> DEFINE l == Leaving(s)
           c1 == ChannelsOf[s][1]
           c2 == ChannelsOf[s][2]
<1>1. /\ members' = Members(handlers, l) /\ handlers' = Table(handlers, l)
      /\ pc' = [pc EXCEPT ![s] = "closed"]
      /\ wire' = IF connection = "ready" THEN wire \o Goodbyes(s, c1) \o Goodbyes(s, c2)
                                         ELSE wire
  BY DEF Close, Leaving, Goodbyes, Goodbye
<1>2. /\ l \in [Channels -> SUBSET Streams]
      /\ \A ch \in Channels : ch \in {c1, c2} => l[ch] = {s}
      /\ c1 \in Channels /\ c2 \in Channels
      /\ handlers \in [Channels -> Streams \cup {NoSet}]
  BY ChannelsKnown DEF Leaving, PubSubType
<1> HIDE DEF l, c1, c2
<1>3. /\ members' \in [Channels -> [Streams -> SUBSET Streams]]
      /\ handlers' \in [Channels -> Streams \cup {NoSet}]
      /\ \A ch \in Channels, t \in Streams : members'[ch][t] \subseteq members[ch][t]
      /\ \A ch \in Channels : handlers'[ch] \in {NoSet, handlers[ch]}
      /\ \A ch \in Channels : handlers[ch] \in Streams =>
            members'[ch][handlers[ch]] \cap l[ch] = {}
  BY <1>1, <1>2, LeavingShrinks
<1>4. \A t \in Streams : pc'[t] = IF t = s THEN "closed" ELSE pc[t]
  BY <1>1 DEF PubSubType
<1>5. ASSUME NEW ch \in Channels, Routed(s, ch)' PROVE FALSE
  <2>1. handlers'[ch] = handlers[ch] /\ handlers[ch] \in Streams /\ s \in members'[ch][handlers[ch]]
    BY <1>3, <1>5, <1>2 DEF Routed
  <2>2. ch \in {c1, c2}
    BY <1>3, <2>1 DEF MembersBelong, c1, c2
  <2> QED BY <1>2, <1>3, <2>1, <2>2
<1>6. ASSUME NEW ch \in Channels
      PROVE  /\ Goodbyes(s, ch) \in Seq(Command)
             /\ \A i \in 1..Len(Goodbyes(s, ch)) :
                   /\ ~Goodbyes(s, ch)[i].subscribe
                   /\ handlers'[Goodbyes(s, ch)[i].channel] = NoSet
  <2>1. Goodbye(s, ch) \in Command /\ ~Goodbye(s, ch).subscribe /\ Goodbye(s, ch).channel = ch
    BY <1>6 DEF Goodbye, Command
  <2>2. CASE handlers'[ch] # handlers[ch]
    <3>1. handlers'[ch] = NoSet
      BY <1>3, <2>2
    <3> HIDE DEF Command
    <3>2. /\ Goodbyes(s, ch) = <<Goodbye(s, ch)>> /\ Len(<<Goodbye(s, ch)>>) = 1
          /\ <<Goodbye(s, ch)>>[1] = Goodbye(s, ch)
      BY <2>2 DEF Goodbyes
    <3> QED BY <2>1, <3>1, <3>2
  <2>3. CASE handlers'[ch] = handlers[ch]
    BY <2>3 DEF Goodbyes
  <2> QED BY <2>2, <2>3
<1>7. wire \in Seq(Command)
  BY DEF PubSubType
<1>8. /\ wire' \in Seq(Command)
      /\ Len(wire) <= Len(wire')
      /\ \A i \in 1..Len(wire) : wire'[i] = wire[i]
      /\ \A i \in Len(wire) + 1 .. Len(wire') :
            ~wire'[i].subscribe /\ handlers'[wire'[i].channel] = NoSet
  <2>1. CASE connection # "ready"
    BY <1>1, <1>7, <2>1, LenProperties
  <2>2. CASE connection = "ready"
    <3> DEFINE p == Goodbyes(s, c1)
               q == Goodbyes(s, c2)
               w == wire \o p
    <3>1. /\ p \in Seq(Command) /\ q \in Seq(Command)
          /\ \A i \in 1..Len(p) : ~p[i].subscribe /\ handlers'[p[i].channel] = NoSet
          /\ \A i \in 1..Len(q) : ~q[i].subscribe /\ handlers'[q[i].channel] = NoSet
      BY <1>2, <1>6
    <3>2. wire' = w \o q
      BY <1>1, <2>2
    <3> HIDE DEF p, q
    <3>3. /\ w \in Seq(Command) /\ Len(w) = Len(wire) + Len(p)
          /\ \A i \in 1 .. Len(wire) + Len(p) :
                w[i] = IF i <= Len(wire) THEN wire[i] ELSE p[i - Len(wire)]
      BY <1>7, <3>1, ConcatProperties
    <3> HIDE DEF w
    <3>4. /\ wire' \in Seq(Command) /\ Len(wire') = Len(w) + Len(q)
          /\ \A i \in 1 .. Len(w) + Len(q) :
                wire'[i] = IF i <= Len(w) THEN w[i] ELSE q[i - Len(w)]
      <4>1. w \in Seq(Command) /\ q \in Seq(Command)
        BY <3>1, <3>3
      <4>2. /\ w \o q \in Seq(Command) /\ Len(w \o q) = Len(w) + Len(q)
            /\ \A i \in 1 .. Len(w) + Len(q) :
                  (w \o q)[i] = IF i <= Len(w) THEN w[i] ELSE q[i - Len(w)]
        BY <4>1, ConcatProperties
      <4> QED BY <3>2, <4>2, Zenon
    <3>5. Len(wire) \in Nat /\ Len(p) \in Nat /\ Len(q) \in Nat
      BY <1>7, <3>1, LenProperties
    <3>6. Len(wire) <= Len(wire')
      BY <3>3, <3>4, <3>5
    <3>7. ASSUME NEW i \in 1..Len(wire) PROVE wire'[i] = wire[i]
      BY <3>3, <3>4, <3>5
    <3>8. ASSUME NEW i \in Len(wire) + 1 .. Len(wire')
          PROVE  ~wire'[i].subscribe /\ handlers'[wire'[i].channel] = NoSet
      <4>1. CASE i <= Len(w)
        <5>1. wire'[i] = p[i - Len(wire)] /\ i - Len(wire) \in 1..Len(p)
          BY <3>3, <3>4, <3>5, <4>1
        <5> QED BY <3>1, <5>1
      <4>2. CASE i > Len(w)
        <5>1. wire'[i] = q[i - Len(w)] /\ i - Len(w) \in 1..Len(q)
          BY <3>3, <3>4, <3>5, <4>2
        <5> QED BY <3>1, <5>1
      <4> QED BY <3>3, <3>5, <4>1, <4>2
    <3> QED BY <3>4, <3>6, <3>7, <3>8
  <2> QED BY <2>1, <2>2
<1> QED BY <1>3, <1>4, <1>5, <1>8

LEMMA AnsweredCommand ==
    ASSUME PubSubType, Asked, wire # <<>>
    PROVE  /\ Head(wire) = wire[1] /\ Head(wire) \in Command /\ Len(wire) \in Nat \ {0}
           /\ DOMAIN wire = 1..Len(wire)
           /\ Tail(wire) \in Seq(Command) /\ Len(Tail(wire)) = Len(wire) - 1
           /\ DOMAIN Tail(wire) = 1..Len(wire) - 1
           /\ \A i \in 1..Len(wire) - 1 : Tail(wire)[i] = wire[i + 1]
           /\ Head(wire).stream \in Streams /\ Head(wire).channel \in Channels
           /\ Head(wire).subscribe =>
                 /\ pc[Head(wire).stream] = "answer"
                 /\ Head(wire).channel = Channel(Head(wire).stream)
<1>1. wire \in Seq(Command)
  BY DEF PubSubType
<1>2. Len(wire) \in Nat \ {0} /\ DOMAIN wire = 1..Len(wire)
  BY <1>1, EmptySeq, LenProperties
<1>3. /\ Tail(wire) \in Seq(Command) /\ Len(Tail(wire)) = Len(wire) - 1 /\ Head(wire) \in Command
      /\ \A i \in 1..Len(Tail(wire)) : Tail(wire)[i] = wire[i + 1]
  BY <1>1, HeadTailProperties
<1>4. DOMAIN Tail(wire) = 1..Len(wire) - 1
  BY <1>3, LenProperties
<1>5. Head(wire) = wire[1]
  BY DEF Head
<1>6. Head(wire).stream \in Streams /\ Head(wire).channel \in Channels
  BY <1>3 DEF Command
<1>7. 1 \in DOMAIN wire
  BY <1>2
<1> QED BY <1>2, <1>3, <1>4, <1>5, <1>6, <1>7 DEF Asked

\* The command that a new subscription puts at the end of the wire.
LEMMA AskedCommand ==
    ASSUME PubSubType, NEW s \in Streams, NEW c,
           c = [stream |-> s, channel |-> Channel(s), subscribe |-> TRUE]
    PROVE  /\ Append(wire, c) \in Seq(Command) /\ Len(Append(wire, c)) = Len(wire) + 1
           /\ DOMAIN Append(wire, c) = 1 .. Len(wire) + 1
           /\ Append(wire, c)[Len(wire) + 1] = c
           /\ \A i \in 1..Len(wire) : Append(wire, c)[i] = wire[i]
           /\ Len(wire) \in Nat /\ DOMAIN wire = 1..Len(wire)
<1>1. wire \in Seq(Command) /\ c \in Command
  BY ChannelsKnown DEF PubSubType, Command
<1> HIDE DEF Command
<1>2. Append(wire, c) \in Seq(Command) /\ Len(Append(wire, c)) = Len(wire) + 1
  BY <1>1, AppendProperties
<1>3. /\ Append(wire, c)[Len(wire) + 1] = c
      /\ \A i \in 1..Len(wire) : Append(wire, c)[i] = wire[i]
  BY <1>1, AppendProperties
<1>4. DOMAIN Append(wire, c) = 1..Len(Append(wire, c))
  BY <1>2, LenProperties
<1>5. Len(wire) \in Nat /\ DOMAIN wire = 1..Len(wire)
  BY <1>1, LenProperties
<1>6. DOMAIN Append(wire, c) = 1 .. Len(wire) + 1
  BY <1>2, <1>4, Zenon
<1> QED BY <1>2, <1>3, <1>5, <1>6

\* One more handler leaves sets of handlers.
LEMMA HandlerAdded ==
    ASSUME NEW f \in [Channels -> [Streams -> SUBSET Streams]], NEW ch \in Channels,
           NEW g \in Streams, NEW s \in Streams
    PROVE  [f EXCEPT ![ch][g] = @ \cup {s}] \in [Channels -> [Streams -> SUBSET Streams]]
<1> DEFINE row == [f[ch] EXCEPT ![g] = @ \cup {s}]
<1>1. row \in [Streams -> SUBSET Streams]
  OBVIOUS
<1>2. [f EXCEPT ![ch] = row] \in [Channels -> [Streams -> SUBSET Streams]]
  <2> HIDE DEF row
  <2> QED BY <1>1
<1> QED BY <1>2

\* No action leaves the types.
LEMMA PubSubTypeStep ==
    ASSUME PubSubType, MembersBelong, Asked, [Next]_vars
    PROVE  PubSubType'
<1> USE DEF PubSubType
<1>1. ASSUME NEW s \in Streams, Request(s) PROVE PubSubType'
  BY <1>1 DEF Request, handlerSets, subscriber
<1>2. ASSUME NEW s \in Streams, Join(s) PROVE PubSubType'
  <2>1. handlers[Channel(s)] \in Streams /\ Channel(s) \in Channels
    BY <1>2, ChannelsKnown DEF Join
  <2>2. members' = [members EXCEPT ![Channel(s)][handlers[Channel(s)]] = @ \cup {s}]
    BY <1>2 DEF Join
  <2>3. members' \in [Channels -> [Streams -> SUBSET Streams]]
    BY <2>1, <2>2, HandlerAdded
  <2> QED BY <1>2, <2>3 DEF Join, Return, subscriber
<1>3. ASSUME NEW s \in Streams, Create(s) PROVE PubSubType'
  <2>1. wire' \in Seq(Command)
    BY <1>3, AskedCommand DEF Create
  <2>2. connection' \in {"none", "connecting", "ready", "lost"}
    BY <1>3 DEF Create
  <2> QED BY <1>3, <2>1, <2>2 DEF Create
<1>4. ASSUME NEW s \in Streams, CreateRejected(s) PROVE PubSubType'
  <2>1. Reject({s}) /\ {s} \in SUBSET Streams /\ \A t \in {s} : pc[t] \in {"subscribe", "answer"}
    BY <1>4 DEF CreateRejected
  <2>2. /\ members' \in [Channels -> [Streams -> SUBSET Streams]]
        /\ handlers' \in [Channels -> Streams \cup {NoSet}]
        /\ pc' \in [Streams -> {"start", "subscribe", "answer", "open", "closed"}]
    BY <2>1, RejectRoutesNone
  <2> QED BY <1>4, <2>2 DEF CreateRejected, subscriber
<1>5. ASSUME Connect PROVE PubSubType'
  BY <1>5 DEF Connect, handlerSets
<1>6. ASSUME AnswerSubscribe PROVE PubSubType'
  <2> DEFINE s == Head(wire).stream
  <2>1. wire' \in Seq(Command) /\ s \in Streams /\ Channel(s) \in Channels
    BY <1>6, AnsweredCommand, ChannelsKnown DEF AnswerSubscribe
  <2>2. /\ members' = [members EXCEPT ![Channel(s)][s] = @ \cup {s}]
        /\ subscribed' = subscribed \cup {Channel(s)}
        /\ at' = [at EXCEPT ![s] = 2]
        /\ pc' = [pc EXCEPT ![s] = IF at[s] = 1 THEN "subscribe" ELSE "open"]
        /\ UNCHANGED <<handlers, connection, gone>>
    BY <1>6 DEF AnswerSubscribe, Return
  <2> HIDE DEF s
  <2>3. members' \in [Channels -> [Streams -> SUBSET Streams]]
    BY <2>1, <2>2, HandlerAdded
  <2> QED BY <2>1, <2>2, <2>3
<1>7. ASSUME AnswerUnsubscribe PROVE PubSubType'
  <2>1. wire' \in Seq(Command)
    BY <1>7, AnsweredCommand DEF AnswerUnsubscribe
  <2> QED BY <1>7, <2>1 DEF AnswerUnsubscribe, handlerSets
<1>8. ASSUME LoseConnection PROVE PubSubType'
  <2> DEFINE S == {s \in Streams : pc[s] = "answer"}
  <2>1. Reject(S) /\ S \in SUBSET Streams /\ \A t \in S : pc[t] \in {"subscribe", "answer"}
    BY <1>8 DEF LoseConnection
  <2> HIDE DEF S
  <2>2. /\ members' \in [Channels -> [Streams -> SUBSET Streams]]
        /\ handlers' \in [Channels -> Streams \cup {NoSet}]
        /\ pc' \in [Streams -> {"start", "subscribe", "answer", "open", "closed"}]
    BY <2>1, RejectRoutesNone
  <2>3. wire' \in Seq(Command)
    BY <1>8, EmptySeq DEF LoseConnection
  <2> QED BY <1>8, <2>2, <2>3 DEF LoseConnection
<1>9. ASSUME NEW s \in Streams, Disconnect(s) PROVE PubSubType'
  BY <1>9 DEF Disconnect, handlerSets, subscriber
<1>10. ASSUME NEW s \in Streams, Close(s) PROVE PubSubType'
  <2>1. /\ members' \in [Channels -> [Streams -> SUBSET Streams]]
        /\ handlers' \in [Channels -> Streams \cup {NoSet}]
        /\ wire' \in Seq(Command)
    BY <1>10, CloseRoutesNone
  <2> QED BY <1>10, <2>1 DEF Close
<1>11. CASE UNCHANGED vars
  BY <1>11 DEF vars, handlerSets, subscriber
<1> QED
  BY <1>1, <1>2, <1>3, <1>4, <1>5, <1>6, <1>7, <1>8, <1>9, <1>10, <1>11
  DEF Next, StreamStep, ClientStep

-----------------------------------------------------------------------------
(* The handlers *)

\* Steps that only take handlers away: from streams that close, or none.
LEMMA HandlersShrink ==
    ASSUME PubSubType, HandlerInv,
           \A ch \in Channels, s \in Streams : members'[ch][s] \subseteq members[ch][s],
           \A ch \in Channels : handlers'[ch] \in {NoSet, handlers[ch]},
           at' = at,
           \A s \in Streams :
              \/ pc'[s] = pc[s]
              \/ pc[s] = "start" /\ pc'[s] = "subscribe"
              \/ pc'[s] = "closed" /\ \A ch \in Channels : ~Routed(s, ch)'
    PROVE  HandlerInv'
<1>1. \A s \in Streams : Waiting(s)' => Waiting(s)
  BY DEF Waiting
<1>2. MembersBelong'
  <2> SUFFICES ASSUME NEW s \in Streams, NEW h \in Streams, NEW ch \in Channels,
                      s \in members'[ch][h]
               PROVE  /\ ch \in {ChannelsOf[s][1], ChannelsOf[s][2]}
                      /\ Waiting(s)' => at'[s] = 2 /\ ch = ChannelsOf[s][1]
    BY DEF MembersBelong
  <2>1. s \in members[ch][h]
    OBVIOUS
  <2> QED BY <1>1, <2>1 DEF HandlerInv, MembersBelong
<1>3. Fresh'
  <2> SUFFICES ASSUME NEW s \in Streams, NEW ch \in Channels, MayCreate(s, ch)'
               PROVE  handlers'[ch] # s /\ members'[ch][s] = {}
    BY DEF Fresh
  <2>1. MayCreate(s, ch)
    BY <1>1 DEF MayCreate, Waiting
  <2>2. handlers[ch] # s /\ members[ch][s] = {}
    BY <2>1 DEF HandlerInv, Fresh
  <2>3. handlers'[ch] \in {NoSet, handlers[ch]} /\ members'[ch][s] \subseteq members[ch][s]
    OBVIOUS
  <2> QED BY <2>2, <2>3, PubSubAssumption
<1>4. NoGhostHandler'
  <2> SUFFICES ASSUME NEW s \in Streams, NEW ch \in Channels, Routed(s, ch)'
               PROVE  pc'[s] \in {"subscribe", "answer", "open"}
    BY DEF NoGhostHandler
  <2>1. handlers'[ch] = handlers[ch] /\ handlers[ch] \in Streams /\ handlers[ch] # NoSet
    BY DEF Routed, PubSubType
  <2>2. s \in members'[ch][handlers[ch]]
    BY <2>1 DEF Routed
  <2>3. Routed(s, ch)
    BY <2>1, <2>2 DEF Routed
  <2>4. pc[s] \in {"subscribe", "answer", "open"}
    BY <2>3 DEF HandlerInv, NoGhostHandler
  <2> QED BY <2>4
<1> QED BY <1>2, <1>3, <1>4 DEF HandlerInv

\* A subscription that is complete puts its handler into a set of its channel; no one
\* still has to make that set.
LEMMA HandlerJoins ==
    ASSUME PubSubType, HandlerInv, NEW s \in Streams, NEW h \in Streams,
           \/ pc[s] = "subscribe" /\ handlers[Channel(s)] = h
           \/ pc[s] = "answer" /\ h = s,
           members' = [members EXCEPT ![Channel(s)][h] = @ \cup {s}],
           handlers' = handlers,
           Return(s)
    PROVE  HandlerInv'
<1> DEFINE c == Channel(s)
<1>1. /\ ChannelsOf[s][1] \in Channels /\ ChannelsOf[s][2] \in Channels
      /\ ChannelsOf[s][1] # ChannelsOf[s][2] /\ c \in Channels
      /\ c = IF at[s] = 1 THEN ChannelsOf[s][1] ELSE ChannelsOf[s][2]
      /\ at[s] \in {1, 2}
  BY ChannelsKnown DEF PubSubType
<1>2. /\ \A ch \in Channels, t \in Streams :
            members'[ch][t] = IF ch = c /\ t = h THEN members[ch][t] \cup {s} ELSE members[ch][t]
      /\ \A t \in Streams : at'[t] = IF t = s THEN 2 ELSE at[t]
      /\ \A t \in Streams : pc'[t] = IF t # s THEN pc[t]
                                     ELSE IF at[s] = 1 THEN "subscribe" ELSE "open"
  BY <1>1 DEF PubSubType, Return
<1>3. Waiting(s)
  BY DEF Waiting
<1> HIDE DEF c
<1>4. \A t \in Streams : t # s => (Waiting(t)' <=> Waiting(t))
  BY <1>2 DEF Waiting
<1>5. MembersBelong'
  <2> SUFFICES ASSUME NEW t \in Streams, NEW k \in Streams, NEW ch \in Channels,
                      t \in members'[ch][k]
               PROVE  /\ ch \in {ChannelsOf[t][1], ChannelsOf[t][2]}
                      /\ Waiting(t)' => at'[t] = 2 /\ ch = ChannelsOf[t][1]
    BY DEF MembersBelong
  <2>1. CASE t # s
    <3>1. t \in members[ch][k]
      BY <1>2, <2>1
    <3> QED BY <1>2, <1>4, <2>1, <3>1 DEF HandlerInv, MembersBelong
  <2>2. CASE t = s /\ t \in members[ch][k]
    BY <1>2, <1>3, <2>2 DEF HandlerInv, MembersBelong
  <2>3. CASE t = s /\ ch = c
    <3>1. ch \in {ChannelsOf[t][1], ChannelsOf[t][2]}
      BY <1>1, <2>3
    <3>2. Waiting(t)' => at[s] = 1
      BY <1>2, <2>3 DEF Waiting
    <3> QED BY <1>1, <1>2, <2>3, <3>1, <3>2
  <2> QED BY <1>2, <2>1, <2>2, <2>3
<1>6. Fresh'
  <2> SUFFICES ASSUME NEW t \in Streams, NEW ch \in Channels, MayCreate(t, ch)'
               PROVE  handlers'[ch] # t /\ members'[ch][t] = {}
    BY DEF Fresh
  <2>1. MayCreate(t, ch)
    <3>1. CASE t # s
      BY <1>2, <1>4, <3>1 DEF MayCreate
    <3>2. CASE t = s
      <4>1. at'[s] = 2 /\ ch = ChannelsOf[s][2] /\ pc'[s] = "subscribe"
        BY <1>2, <3>2 DEF MayCreate
      <4>2. at[s] = 1
        BY <1>1, <1>2, <4>1
      <4> QED BY <1>3, <3>2, <4>1, <4>2 DEF MayCreate
    <3> QED BY <3>1, <3>2
  <2>2. handlers[ch] # t /\ members[ch][t] = {}
    BY <2>1 DEF HandlerInv, Fresh
  <2>3. ~(ch = c /\ t = h)
    <3> SUFFICES ASSUME ch = c, t = h PROVE FALSE
      OBVIOUS
    <3>1. CASE pc[s] = "subscribe" /\ handlers[Channel(s)] = h
      BY <2>2, <3>1 DEF c
    <3>2. CASE pc[s] = "answer" /\ h = s
      <4>1. at'[s] = 2 /\ c = ChannelsOf[s][2] /\ pc'[s] = "subscribe"
        BY <1>2, <3>2 DEF MayCreate
      <4> QED BY <1>1, <1>2, <4>1
    <3> QED BY <3>1, <3>2
  <2> QED BY <1>2, <2>2, <2>3
<1>7. NoGhostHandler'
  <2> SUFFICES ASSUME NEW t \in Streams, NEW ch \in Channels, Routed(t, ch)'
               PROVE  pc'[t] \in {"subscribe", "answer", "open"}
    BY DEF NoGhostHandler
  <2>1. CASE t = s
    BY <1>2, <2>1
  <2>2. CASE t # s
    <3>1. handlers[ch] \in Streams /\ handlers[ch] # NoSet
      BY DEF Routed, PubSubType
    <3>2. Routed(t, ch)
      BY <1>2, <2>2, <3>1 DEF Routed
    <3>3. pc[t] \in {"subscribe", "answer", "open"}
      BY <3>2 DEF HandlerInv, NoGhostHandler
    <3> QED BY <1>2, <2>2, <3>3
  <2> QED BY <2>1, <2>2
<1> QED BY <1>5, <1>6, <1>7 DEF HandlerInv

LEMMA HandlerCreates ==
    ASSUME PubSubType, HandlerInv, NEW s \in Streams, Create(s)
    PROVE  HandlerInv'
<1> DEFINE c == Channel(s)
<1>1. /\ ChannelsOf[s][1] # ChannelsOf[s][2] /\ c \in Channels
      /\ c = IF at[s] = 1 THEN ChannelsOf[s][1] ELSE ChannelsOf[s][2]
      /\ at[s] \in {1, 2} /\ pc[s] = "subscribe"
  BY ChannelsKnown DEF PubSubType, Create
<1>2. /\ \A ch \in Channels : handlers'[ch] = IF ch = c THEN s ELSE handlers[ch]
      /\ \A t \in Streams : pc'[t] = IF t = s THEN "answer" ELSE pc[t]
      /\ members' = members /\ at' = at
  BY <1>1 DEF PubSubType, Create
<1>3. members[c][s] = {}
  BY <1>1 DEF HandlerInv, Fresh, MayCreate
<1> HIDE DEF c
<1>4. \A t \in Streams : Waiting(t)' <=> Waiting(t)
  BY <1>1, <1>2 DEF Waiting
<1>5. MembersBelong'
  BY <1>2, <1>4 DEF HandlerInv, MembersBelong
<1>6. Fresh'
  <2> SUFFICES ASSUME NEW t \in Streams, NEW ch \in Channels, MayCreate(t, ch)'
               PROVE  handlers'[ch] # t /\ members'[ch][t] = {}
    BY DEF Fresh
  <2>1. MayCreate(t, ch) /\ ~(t = s /\ ch = c)
    BY <1>1, <1>2, <1>4 DEF MayCreate
  <2> QED BY <1>2, <2>1 DEF HandlerInv, Fresh
<1>7. NoGhostHandler'
  <2> SUFFICES ASSUME NEW t \in Streams, NEW ch \in Channels, Routed(t, ch)'
               PROVE  pc'[t] \in {"subscribe", "answer", "open"}
    BY DEF NoGhostHandler
  <2>1. ch # c
    BY <1>2, <1>3 DEF Routed
  <2>2. Routed(t, ch)
    BY <1>2, <2>1 DEF Routed
  <2> QED BY <1>1, <1>2, <2>2 DEF HandlerInv, NoGhostHandler
<1> QED BY <1>5, <1>6, <1>7 DEF HandlerInv

LEMMA HandlerStep ==
    ASSUME PubSubType, HandlerInv, Asked, [Next]_vars
    PROVE  HandlerInv'
<1>0. MembersBelong
  BY DEF HandlerInv
<1>1. ASSUME NEW s \in Streams, Request(s) PROVE HandlerInv'
  BY <1>1, HandlersShrink DEF Request, handlerSets, subscriber, PubSubType
<1>2. ASSUME NEW s \in Streams, Join(s) PROVE HandlerInv'
  <2>1. handlers[Channel(s)] \in Streams
    BY <1>2, ChannelsKnown DEF Join, PubSubType
  <2> QED BY <1>2, <2>1, HandlerJoins DEF Join
<1>3. ASSUME NEW s \in Streams, Create(s) PROVE HandlerInv'
  BY <1>3, HandlerCreates
<1>4. ASSUME NEW s \in Streams, CreateRejected(s) PROVE HandlerInv'
  <2>1. Reject({s}) /\ {s} \in SUBSET Streams /\ \A t \in {s} : pc[t] \in {"subscribe", "answer"}
    BY <1>4 DEF CreateRejected
  <2>2. at' = at
    BY <1>4 DEF CreateRejected
  <2> QED BY <1>0, <2>1, <2>2, RejectRoutesNone, HandlersShrink
<1>5. ASSUME Connect PROVE HandlerInv'
  BY <1>5, HandlersShrink DEF Connect, handlerSets
<1>6. ASSUME AnswerSubscribe PROVE HandlerInv'
  <2>1. Head(wire).stream \in Streams /\ pc[Head(wire).stream] = "answer"
    BY <1>6, AnsweredCommand DEF AnswerSubscribe
  <2> QED BY <1>6, <2>1, HandlerJoins DEF AnswerSubscribe
<1>7. ASSUME AnswerUnsubscribe PROVE HandlerInv'
  BY <1>7, HandlersShrink DEF AnswerUnsubscribe, handlerSets
<1>8. ASSUME LoseConnection PROVE HandlerInv'
  <2> DEFINE S == {s \in Streams : pc[s] = "answer"}
  <2>1. Reject(S) /\ S \in SUBSET Streams /\ \A t \in S : pc[t] \in {"subscribe", "answer"}
    BY <1>8 DEF LoseConnection
  <2>2. at' = at
    BY <1>8 DEF LoseConnection
  <2> HIDE DEF S
  <2> QED BY <1>0, <2>1, <2>2, RejectRoutesNone, HandlersShrink
<1>9. ASSUME NEW s \in Streams, Disconnect(s) PROVE HandlerInv'
  BY <1>9, HandlersShrink DEF Disconnect, handlerSets
<1>10. ASSUME NEW s \in Streams, Close(s) PROVE HandlerInv'
  <2>1. at' = at
    BY <1>10 DEF Close
  <2> QED BY <1>0, <1>10, <2>1, CloseRoutesNone, HandlersShrink
<1>11. CASE UNCHANGED vars
  BY <1>11, HandlersShrink DEF vars, handlerSets
<1> QED
  BY <1>1, <1>2, <1>3, <1>4, <1>5, <1>6, <1>7, <1>8, <1>9, <1>10, <1>11
  DEF Next, StreamStep, ClientStep

-----------------------------------------------------------------------------
(* The wire *)

\* Steps that only add UNSUBSCRIBE commands, of channels the table no longer has, and
\* leave every waiting stream where it is.
LEMMA WireGrows ==
    ASSUME PubSubType, PubSubType', WireInv,
           Len(wire) <= Len(wire'),
           \A i \in 1..Len(wire) : wire'[i] = wire[i],
           \A i \in Len(wire) + 1 .. Len(wire') :
              ~wire'[i].subscribe /\ handlers'[wire'[i].channel] = NoSet,
           \A ch \in Channels : handlers'[ch] \in {NoSet, handlers[ch]},
           \A s \in Streams : pc[s] = "answer" => pc'[s] = "answer" /\ at'[s] = at[s],
           \/ connection' = connection
           \/ connection = "connecting" /\ connection' = "ready",
           subscribed' = subscribed
    PROVE  WireInv'
<1>1. /\ wire \in Seq(Command) /\ Len(wire) \in Nat /\ DOMAIN wire = 1..Len(wire)
      /\ wire' \in Seq(Command) /\ Len(wire') \in Nat /\ DOMAIN wire' = 1..Len(wire')
  <2>1. wire \in Seq(Command) /\ wire' \in Seq(Command)
    BY DEF PubSubType
  <2> QED BY <2>1, LenProperties
<1>2. \A i \in DOMAIN wire' : wire'[i].subscribe => i \in DOMAIN wire /\ wire'[i] = wire[i]
  BY <1>1
<1>3. Asked'
  <2> SUFFICES ASSUME NEW i \in DOMAIN wire', wire'[i].subscribe
               PROVE  /\ pc'[wire'[i].stream] = "answer"
                      /\ wire'[i].channel = ChannelsOf[wire'[i].stream][at'[wire'[i].stream]]
                      /\ \A j \in DOMAIN wire' :
                            wire'[j].subscribe /\ wire'[j].stream = wire'[i].stream => j = i
    BY DEF Asked, Channel
  <2>1. i \in DOMAIN wire /\ wire'[i] = wire[i]
    BY <1>2
  <2>2. wire[i].stream \in Streams
    <3>1. wire[i] \in Command
      BY <1>1, <2>1, ElementOfSeq
    <3> QED BY <3>1 DEF Command
  <2>3. pc[wire[i].stream] = "answer" /\ wire[i].channel = Channel(wire[i].stream)
    BY <2>1 DEF WireInv, Asked
  <2>4. \A j \in DOMAIN wire' :
           wire'[j].subscribe /\ wire'[j].stream = wire'[i].stream => j = i
    BY <1>2, <2>1 DEF WireInv, Asked
  <2> QED BY <2>1, <2>2, <2>3, <2>4 DEF Channel
<1>4. Unanswered'
  <2> SUFFICES ASSUME connection' \in {"none", "connecting"},
                      NEW ch \in Channels, handlers'[ch] # NoSet
               PROVE  /\ connection' = "connecting"
                      /\ pc'[handlers'[ch]] = "answer"
                      /\ ChannelsOf[handlers'[ch]][at'[handlers'[ch]]] = ch
    BY DEF Unanswered, Channel
  <2>1. handlers'[ch] = handlers[ch] /\ handlers[ch] \in Streams /\ handlers[ch] # NoSet
    BY DEF PubSubType
  <2>2. connection' = connection
    OBVIOUS
  <2>3. connection = "connecting" /\ pc[handlers[ch]] = "answer" /\ Channel(handlers[ch]) = ch
    BY <2>1, <2>2 DEF WireInv, Unanswered
  <2> QED BY <2>1, <2>2, <2>3 DEF Channel
<1>5. TableHeard'
  <2> SUFFICES ASSUME connection' # "lost", NEW ch \in Channels, handlers'[ch] # NoSet
               PROVE  Heard(ch)'
    BY DEF TableHeard
  <2>1. Heard(ch)
    BY DEF WireInv, TableHeard
  <2>2. \A i \in DOMAIN wire : i \in DOMAIN wire' /\ wire'[i] = wire[i]
    BY <1>1
  <2>3. \A j \in DOMAIN wire' : wire'[j].channel = ch => j \in DOMAIN wire
    BY <1>1
  <2>4. ASSUME NEW j \in DOMAIN wire', wire'[j].channel = ch, ~wire'[j].subscribe
        PROVE  \E i \in DOMAIN wire' : i > j /\ wire'[i].channel = ch /\ wire'[i].subscribe
    <3>1. j \in DOMAIN wire /\ wire'[j] = wire[j]
      BY <2>2, <2>3, <2>4
    <3>2. PICK i \in DOMAIN wire : i > j /\ wire[i].channel = ch /\ wire[i].subscribe
      BY <2>1, <2>4, <3>1 DEF Heard
    <3> QED BY <2>2, <3>2
  <2>5. ch \in subscribed' \/ \E i \in DOMAIN wire' : wire'[i].channel = ch /\ wire'[i].subscribe
    BY <2>1, <2>2 DEF Heard
  <2> QED BY <2>4, <2>5 DEF Heard
<1> QED BY <1>3, <1>4, <1>5 DEF WireInv

\* A stream whose subscription is complete waits for nothing.
LEMMA WireJoin ==
    ASSUME PubSubType, PubSubType', WireInv, NEW s \in Streams, Join(s)
    PROVE  WireInv'
<1>1. /\ wire' = wire /\ handlers' = handlers /\ connection' = connection
      /\ subscribed' = subscribed /\ pc[s] = "subscribe"
      /\ \A t \in Streams : t # s => pc'[t] = pc[t] /\ at'[t] = at[t]
  BY DEF Join, Return, subscriber, PubSubType
<1>2. Len(wire) \in Nat
  <2>1. wire \in Seq(Command)
    BY DEF PubSubType
  <2> QED BY <2>1, LenProperties
<1>3. \A i \in Len(wire) + 1 .. Len(wire') :
         ~wire'[i].subscribe /\ handlers'[wire'[i].channel] = NoSet
  BY <1>1, <1>2
<1>4. /\ Len(wire) <= Len(wire')
      /\ \A i \in 1..Len(wire) : wire'[i] = wire[i]
      /\ \A ch \in Channels : handlers'[ch] \in {NoSet, handlers[ch]}
      /\ \A t \in Streams : pc[t] = "answer" => pc'[t] = "answer" /\ at'[t] = at[t]
  BY <1>1, <1>2
<1>5. connection' = connection /\ subscribed' = subscribed
  BY <1>1
<1> QED BY <1>3, <1>4, <1>5, WireGrows, Zenon

LEMMA WireCreate ==
    ASSUME PubSubType, PubSubType', WireInv, NEW s \in Streams, Create(s)
    PROVE  WireInv'
<1> DEFINE c == Channel(s)
           a == [stream |-> s, channel |-> Channel(s), subscribe |-> TRUE]
           n == Len(wire) + 1
<1>1. /\ wire' = Append(wire, a) /\ DOMAIN wire' = 1..n /\ wire'[n] = a
      /\ \A i \in 1..Len(wire) : wire'[i] = wire[i]
      /\ Len(wire) \in Nat /\ DOMAIN wire = 1..Len(wire)
  BY AskedCommand DEF Create
<1>2. a.stream = s /\ a.channel = c /\ a.subscribe
  OBVIOUS
<1>3. c \in Channels /\ pc[s] = "subscribe"
  BY ChannelsKnown DEF Create
<1>4. /\ \A ch \in Channels : handlers'[ch] = IF ch = c THEN s ELSE handlers[ch]
      /\ \A t \in Streams : pc'[t] = IF t = s THEN "answer" ELSE pc[t]
      /\ subscribed' = subscribed /\ at' = at
      /\ connection # "lost"
      /\ connection' = IF connection = "none" THEN "connecting" ELSE connection
  BY <1>3 DEF PubSubType, Create
<1>5. \A t \in Streams : ChannelsOf[t][at'[t]] = Channel(t)
  BY <1>4 DEF Channel
<1> HIDE DEF a, c
<1>6. wire \in Seq(Command)
  BY DEF PubSubType
<1>7. \A i \in DOMAIN wire : wire[i].stream \in Streams
  <2>1. \A i \in DOMAIN wire : wire[i] \in Command
    BY <1>1, <1>6, ElementOfSeq
  <2> QED BY <2>1 DEF Command
<1>8. \A i \in DOMAIN wire : wire[i].subscribe => wire[i].stream # s
  BY <1>3 DEF WireInv, Asked
<1>9. \A i \in DOMAIN wire' : (i \in DOMAIN wire /\ wire'[i] = wire[i]) \/ (i = n /\ wire'[i] = a)
  BY <1>1
<1>10. \A i \in DOMAIN wire : i \in DOMAIN wire' /\ wire'[i] = wire[i] /\ n > i
  BY <1>1
<1>11. n \in DOMAIN wire'
  BY <1>1
<1>12. n \notin DOMAIN wire
  BY <1>1
<1> HIDE DEF n
<1>13. Asked'
  <2> SUFFICES ASSUME NEW i \in DOMAIN wire', wire'[i].subscribe
               PROVE  /\ pc'[wire'[i].stream] = "answer"
                      /\ wire'[i].channel = ChannelsOf[wire'[i].stream][at'[wire'[i].stream]]
                      /\ \A j \in DOMAIN wire' :
                            wire'[j].subscribe /\ wire'[j].stream = wire'[i].stream => j = i
    BY DEF Asked, Channel
  <2>1. CASE i = n /\ wire'[i] = a
    BY <1>2, <1>4, <1>5, <1>8, <1>9, <2>1 DEF c
  <2>2. CASE i \in DOMAIN wire /\ wire'[i] = wire[i]
    <3>1. /\ pc[wire[i].stream] = "answer" /\ wire[i].channel = Channel(wire[i].stream)
          /\ wire[i].stream \in Streams /\ wire[i].stream # s
          /\ \A j \in DOMAIN wire :
                wire[j].subscribe /\ wire[j].stream = wire[i].stream => j = i
      BY <1>7, <1>8, <2>2 DEF WireInv, Asked
    <3>2. ASSUME NEW j \in DOMAIN wire', wire'[j].subscribe, wire'[j].stream = wire'[i].stream
          PROVE  j = i
      BY <1>2, <1>9, <2>2, <3>1, <3>2
    <3> QED BY <1>4, <1>5, <2>2, <3>1, <3>2
  <2> QED BY <1>9, <2>1, <2>2
<1>14. Unanswered'
  <2> SUFFICES ASSUME connection' \in {"none", "connecting"},
                      NEW ch \in Channels, handlers'[ch] # NoSet
               PROVE  /\ connection' = "connecting"
                      /\ pc'[handlers'[ch]] = "answer"
                      /\ ChannelsOf[handlers'[ch]][at'[handlers'[ch]]] = ch
    BY DEF Unanswered, Channel
  <2>1. connection' = "connecting" /\ connection \in {"none", "connecting"}
    BY <1>4
  <2>2. CASE ch = c
    BY <1>4, <1>5, <2>1, <2>2 DEF c
  <2>3. CASE ch # c
    <3>1. /\ pc[handlers[ch]] = "answer" /\ Channel(handlers[ch]) = ch
          /\ handlers'[ch] = handlers[ch] /\ handlers[ch] \in Streams
      BY <1>4, <2>1, <2>3 DEF WireInv, Unanswered, PubSubType
    <3> QED BY <1>4, <1>5, <2>1, <3>1
  <2> QED BY <2>2, <2>3
<1>15. TableHeard'
  <2> SUFFICES ASSUME NEW ch \in Channels, handlers'[ch] # NoSet
               PROVE  Heard(ch)'
    BY DEF TableHeard
  <2>1. CASE ch = c
    <3>1. \A j \in DOMAIN wire' : ~wire'[j].subscribe => n > j
      BY <1>2, <1>9, <1>10
    <3> QED BY <1>2, <1>1, <1>11, <2>1, <3>1 DEF Heard
  <2>2. CASE ch # c
    <3>1. Heard(ch)
      BY <1>4, <2>2 DEF WireInv, TableHeard
    <3>2. \A j \in DOMAIN wire' : wire'[j].channel = ch => j \in DOMAIN wire
      BY <1>2, <1>9, <2>2
    <3>3. ASSUME NEW j \in DOMAIN wire', wire'[j].channel = ch, ~wire'[j].subscribe
          PROVE  \E i \in DOMAIN wire' : i > j /\ wire'[i].channel = ch /\ wire'[i].subscribe
      <4>1. j \in DOMAIN wire /\ wire'[j] = wire[j]
        BY <1>10, <3>2, <3>3
      <4>2. PICK i \in DOMAIN wire : i > j /\ wire[i].channel = ch /\ wire[i].subscribe
        BY <3>1, <3>3, <4>1 DEF Heard
      <4> QED BY <1>10, <4>2
    <3>4. ch \in subscribed'
          \/ \E i \in DOMAIN wire' : wire'[i].channel = ch /\ wire'[i].subscribe
      BY <1>4, <1>10, <3>1 DEF Heard
    <3> QED BY <3>3, <3>4 DEF Heard
  <2> QED BY <2>1, <2>2
<1> QED BY <1>13, <1>14, <1>15 DEF WireInv

\* The answer to a command: the rest of the wire moves up.
LEMMA WireMoves ==
    ASSUME PubSubType, Asked, wire # <<>>, wire' = Tail(wire)
    PROVE  /\ \A i \in DOMAIN wire' : i + 1 \in DOMAIN wire /\ wire'[i] = wire[i + 1]
           /\ \A i \in DOMAIN wire : i # 1 => i - 1 \in DOMAIN wire' /\ wire'[i - 1] = wire[i]
           /\ 1 \in DOMAIN wire /\ DOMAIN wire \subseteq Int /\ DOMAIN wire' \subseteq Int
           /\ \A i \in DOMAIN wire : i >= 1
BY AnsweredCommand

\* A channel that the table has, whose command was not the one answered, is heard as
\* before; one whose SUBSCRIBE was answered is heard now.
LEMMA HeardMoves ==
    ASSUME PubSubType, Asked, wire # <<>>, wire' = Tail(wire),
           NEW ch \in Channels, Heard(ch),
           ch \in subscribed /\ (Head(wire).subscribe \/ Head(wire).channel # ch)
              => ch \in subscribed',
           Head(wire).subscribe /\ Head(wire).channel = ch => ch \in subscribed'
    PROVE  Heard(ch)'
<1>1. /\ \A i \in DOMAIN wire' : i + 1 \in DOMAIN wire /\ wire'[i] = wire[i + 1]
      /\ \A i \in DOMAIN wire : i # 1 => i - 1 \in DOMAIN wire' /\ wire'[i - 1] = wire[i]
      /\ 1 \in DOMAIN wire /\ DOMAIN wire \subseteq Int /\ DOMAIN wire' \subseteq Int
      /\ \A i \in DOMAIN wire : i >= 1
  BY WireMoves
<1>2. Head(wire) = wire[1]
  BY AnsweredCommand
<1>3. ASSUME NEW j \in DOMAIN wire', wire'[j].channel = ch, ~wire'[j].subscribe
      PROVE  \E i \in DOMAIN wire' : i > j /\ wire'[i].channel = ch /\ wire'[i].subscribe
  <2>1. j + 1 \in DOMAIN wire /\ wire'[j] = wire[j + 1] /\ j \in Int /\ j + 1 >= 1
    BY <1>1
  <2>2. PICK i \in DOMAIN wire : i > j + 1 /\ wire[i].channel = ch /\ wire[i].subscribe
    BY <1>3, <2>1 DEF Heard
  <2>3. i \in Int /\ i # 1 /\ i - 1 > j
    BY <1>1, <2>1, <2>2
  <2>4. i - 1 \in DOMAIN wire' /\ wire'[i - 1] = wire[i]
    BY <1>1, <2>3
  <2> QED BY <2>2, <2>3, <2>4
<1>4. ch \in subscribed' \/ \E i \in DOMAIN wire' : wire'[i].channel = ch /\ wire'[i].subscribe
  <2>1. CASE \E i \in DOMAIN wire : wire[i].channel = ch /\ wire[i].subscribe
    <3>1. PICK i \in DOMAIN wire : wire[i].channel = ch /\ wire[i].subscribe
      BY <2>1
    <3>2. CASE i = 1
      BY <1>2, <3>1, <3>2
    <3>3. CASE i # 1
      BY <1>1, <3>1, <3>3
    <3> QED BY <3>2, <3>3
  <2>2. CASE ~\E i \in DOMAIN wire : wire[i].channel = ch /\ wire[i].subscribe
    <3>1. ch \in subscribed
      BY <2>2 DEF Heard
    <3>2. wire[1].channel # ch
      <4> SUFFICES ASSUME wire[1].channel = ch PROVE FALSE
        OBVIOUS
      <4>1. ~wire[1].subscribe
        BY <1>1, <2>2
      <4> QED BY <1>1, <2>2, <4>1 DEF Heard
    <3> QED BY <1>2, <3>1, <3>2
  <2> QED BY <2>1, <2>2
<1> QED BY <1>3, <1>4 DEF Heard

\* The commands still on the wire are asked as before, unless their stream moved.
LEMMA AskedMoves ==
    ASSUME PubSubType, Asked, wire # <<>>, wire' = Tail(wire),
           \A s \in Streams : ~(Head(wire).subscribe /\ s = Head(wire).stream) =>
              pc'[s] = pc[s] /\ at'[s] = at[s]
    PROVE  Asked'
<1>1. /\ \A i \in DOMAIN wire' : i + 1 \in DOMAIN wire /\ wire'[i] = wire[i + 1]
      /\ 1 \in DOMAIN wire /\ DOMAIN wire \subseteq Int /\ DOMAIN wire' \subseteq Int
      /\ \A i \in DOMAIN wire : i >= 1
  BY WireMoves
<1>2. Head(wire) = wire[1]
  BY AnsweredCommand
<1>3. \A i \in DOMAIN wire : wire[i].stream \in Streams
  <2>1. wire \in Seq(Command)
    BY DEF PubSubType
  <2>2. \A i \in DOMAIN wire : wire[i] \in Command
    BY <2>1, LenProperties, ElementOfSeq
  <2> QED BY <2>2 DEF Command
<1> SUFFICES ASSUME NEW i \in DOMAIN wire', wire'[i].subscribe
             PROVE  /\ pc'[wire'[i].stream] = "answer"
                    /\ wire'[i].channel = ChannelsOf[wire'[i].stream][at'[wire'[i].stream]]
                    /\ \A j \in DOMAIN wire' :
                          wire'[j].subscribe /\ wire'[j].stream = wire'[i].stream => j = i
  BY DEF Asked, Channel
<1>4. i + 1 \in DOMAIN wire /\ wire'[i] = wire[i + 1] /\ i + 1 # 1
  <2>1. i + 1 \in DOMAIN wire /\ wire'[i] = wire[i + 1] /\ i \in Int
    BY <1>1
  <2>2. i \in DOMAIN Tail(wire)
    OBVIOUS
  <2>3. i >= 1
    BY <2>2, AnsweredCommand
  <2> QED BY <2>1, <2>3
<1>5. /\ pc[wire[i + 1].stream] = "answer"
      /\ wire[i + 1].channel = Channel(wire[i + 1].stream)
      /\ \A j \in DOMAIN wire :
            wire[j].subscribe /\ wire[j].stream = wire[i + 1].stream => j = i + 1
  BY <1>4 DEF Asked
<1>6. ~(wire[1].subscribe /\ wire[1].stream = wire[i + 1].stream)
  BY <1>1, <1>4, <1>5
<1>7. pc'[wire[i + 1].stream] = "answer" /\ at'[wire[i + 1].stream] = at[wire[i + 1].stream]
  BY <1>2, <1>3, <1>4, <1>5, <1>6
<1>8. ASSUME NEW j \in DOMAIN wire', wire'[j].subscribe, wire'[j].stream = wire'[i].stream
      PROVE  j = i
  <2>1. j + 1 \in DOMAIN wire /\ wire'[j] = wire[j + 1] /\ j \in Int /\ i \in Int
    BY <1>1
  <2>2. j + 1 = i + 1
    BY <1>4, <1>5, <1>8, <2>1
  <2> QED BY <2>1, <2>2
<1> QED BY <1>4, <1>5, <1>7, <1>8 DEF Channel

LEMMA WireAnswers ==
    ASSUME PubSubType, PubSubType', WireInv, AnswerSubscribe \/ AnswerUnsubscribe
    PROVE  WireInv'
<1> DEFINE s == Head(wire).stream
           c == Head(wire).channel
<1>1. /\ wire # <<>> /\ wire' = Tail(wire) /\ Asked
      /\ handlers' = handlers /\ connection' = connection /\ connection = "ready"
  BY DEF AnswerSubscribe, AnswerUnsubscribe, handlerSets, WireInv
<1>2. /\ s \in Streams /\ c \in Channels
      /\ Head(wire).subscribe => c = Channel(s)
  BY <1>1, AnsweredCommand
<1>3. /\ \A t \in Streams : ~(Head(wire).subscribe /\ t = s) => pc'[t] = pc[t] /\ at'[t] = at[t]
      /\ subscribed' = IF Head(wire).subscribe THEN subscribed \cup {c} ELSE subscribed \ {c}
  <2>1. CASE AnswerSubscribe
    BY <1>2, <2>1 DEF AnswerSubscribe, Return, PubSubType
  <2>2. CASE AnswerUnsubscribe
    BY <2>2 DEF AnswerUnsubscribe
  <2> QED BY <2>1, <2>2
<1>4. Asked'
  BY <1>1, <1>3, AskedMoves
<1>5. Unanswered'
  BY <1>1 DEF Unanswered
<1>6. ASSUME NEW ch \in Channels, handlers'[ch] # NoSet PROVE Heard(ch)'
  <2>1. Heard(ch)
    BY <1>1, <1>6 DEF WireInv, TableHeard
  <2>2. /\ ch \in subscribed /\ (Head(wire).subscribe \/ Head(wire).channel # ch)
              => ch \in subscribed'
        /\ Head(wire).subscribe /\ Head(wire).channel = ch => ch \in subscribed'
    BY <1>3
  <2> QED BY <1>1, <2>1, <2>2, HeardMoves
<1>7. TableHeard'
  BY <1>6 DEF TableHeard
<1> QED BY <1>4, <1>5, <1>7 DEF WireInv

\* Everyone who waits for the subscriber is rejected: a connection that never answered
\* leaves no set behind.
LEMMA WireLost ==
    ASSUME PubSubType, PubSubType', MembersBelong, WireInv, LoseConnection
    PROVE  WireInv'
<1> DEFINE S == {s \in Streams : pc[s] = "answer"}
<1>1. Reject(S) /\ S \in SUBSET Streams /\ \A t \in S : pc[t] \in {"subscribe", "answer"}
  BY DEF LoseConnection
<1>2. /\ wire' = <<>>
      /\ \/ connection = "connecting" /\ connection' = "none"
         \/ connection = "ready" /\ connection' = "lost"
  BY DEF LoseConnection
<1>3. \A s \in Streams : pc[s] = "answer" => s \in S
  OBVIOUS
<1> HIDE DEF S
<1>4. /\ \A ch \in Channels : handlers'[ch] \in {NoSet, handlers[ch]}
      /\ \A s \in S : Channel(s) \in Channels => handlers'[Channel(s)] = NoSet
  BY <1>1, RejectRoutesNone
<1>5. DOMAIN wire' = {}
  BY <1>2
<1>6. Asked'
  BY <1>5 DEF Asked
<1>7. CASE connection = "connecting" /\ connection' = "none"
  <2>1. ASSUME NEW ch \in Channels, handlers'[ch] # NoSet PROVE FALSE
    <3>1. handlers'[ch] = handlers[ch] /\ handlers[ch] # NoSet /\ handlers[ch] \in Streams
      BY <1>4, <2>1 DEF PubSubType
    <3>2. pc[handlers[ch]] = "answer" /\ Channel(handlers[ch]) = ch
      BY <1>7, <3>1 DEF WireInv, Unanswered
    <3> QED BY <1>3, <1>4, <2>1, <3>1, <3>2
  <2>2. Unanswered' /\ TableHeard'
    BY <2>1 DEF Unanswered, TableHeard
  <2> QED BY <1>6, <2>2 DEF WireInv
<1>8. CASE connection' = "lost"
  <2>1. Unanswered' /\ TableHeard'
    BY <1>8 DEF Unanswered, TableHeard
  <2> QED BY <1>6, <2>1 DEF WireInv
<1> QED BY <1>2, <1>7, <1>8

LEMMA WireStep ==
    ASSUME PubSubType, PubSubType', MembersBelong, WireInv, [Next]_vars
    PROVE  WireInv'
<1>0. Len(wire) \in Nat
  <2>1. wire \in Seq(Command)
    BY DEF PubSubType
  <2> QED BY <2>1, LenProperties
\* The steps that leave the wire and every waiting stream alone.
<1>1. ASSUME wire' = wire, subscribed' = subscribed, at' = at,
             connection' = connection \/ (connection = "connecting" /\ connection' = "ready"),
             \A ch \in Channels : handlers'[ch] \in {NoSet, handlers[ch]},
             \A s \in Streams : pc[s] = "answer" => pc'[s] = "answer"
      PROVE  WireInv'
  <2>1. \A i \in Len(wire) + 1 .. Len(wire') :
           ~wire'[i].subscribe /\ handlers'[wire'[i].channel] = NoSet
    BY <1>0, <1>1
  <2>2. /\ Len(wire) <= Len(wire')
        /\ \A i \in 1..Len(wire) : wire'[i] = wire[i]
        /\ \A s \in Streams : pc[s] = "answer" => pc'[s] = "answer" /\ at'[s] = at[s]
    BY <1>0, <1>1
  <2> QED BY <1>1, <2>1, <2>2, WireGrows
<1>2. ASSUME NEW s \in Streams, Request(s) PROVE WireInv'
  BY <1>1, <1>2 DEF Request, handlerSets, subscriber, PubSubType
<1>3. ASSUME NEW s \in Streams, Join(s) PROVE WireInv'
  BY <1>3, WireJoin
<1>4. ASSUME NEW s \in Streams, Create(s) PROVE WireInv'
  BY <1>4, WireCreate
<1>5. ASSUME NEW s \in Streams, CreateRejected(s) PROVE WireInv'
  <2>1. Reject({s}) /\ {s} \in SUBSET Streams /\ \A t \in {s} : pc[t] \in {"subscribe", "answer"}
    BY <1>5 DEF CreateRejected
  <2>2. /\ \A ch \in Channels : handlers'[ch] \in {NoSet, handlers[ch]}
        /\ \A t \in Streams : pc'[t] = IF t \in {s} THEN "closed" ELSE pc[t]
    BY <2>1, RejectRoutesNone
  <2>3. pc[s] = "subscribe" /\ UNCHANGED <<wire, subscribed, connection, at>>
    BY <1>5 DEF CreateRejected, subscriber
  <2> QED BY <1>1, <2>2, <2>3
<1>6. ASSUME Connect PROVE WireInv'
  BY <1>1, <1>6 DEF Connect, handlerSets
<1>7. ASSUME AnswerSubscribe \/ AnswerUnsubscribe PROVE WireInv'
  BY <1>7, WireAnswers
<1>8. ASSUME LoseConnection PROVE WireInv'
  BY <1>8, WireLost
<1>9. ASSUME NEW s \in Streams, Disconnect(s) PROVE WireInv'
  BY <1>1, <1>9 DEF Disconnect, handlerSets, subscriber
<1>10. ASSUME NEW s \in Streams, Close(s) PROVE WireInv'
  <2>1. pc[s] = "open" /\ UNCHANGED <<connection, subscribed, at>>
    BY <1>10 DEF Close
  <2>2. /\ \A ch \in Channels : handlers'[ch] \in {NoSet, handlers[ch]}
        /\ \A t \in Streams : pc'[t] = IF t = s THEN "closed" ELSE pc[t]
        /\ Len(wire) <= Len(wire')
        /\ \A i \in 1..Len(wire) : wire'[i] = wire[i]
        /\ \A i \in Len(wire) + 1 .. Len(wire') :
              ~wire'[i].subscribe /\ handlers'[wire'[i].channel] = NoSet
    BY <1>10, CloseRoutesNone
  <2>3. \A t \in Streams : pc[t] = "answer" => pc'[t] = "answer" /\ at'[t] = at[t]
    BY <2>1, <2>2
  <2> QED BY <2>1, <2>2, <2>3, WireGrows
<1>11. CASE UNCHANGED vars
  BY <1>1, <1>11 DEF vars, handlerSets, subscriber
<1> QED
  BY <1>2, <1>3, <1>4, <1>5, <1>6, <1>7, <1>8, <1>9, <1>10, <1>11
  DEF Next, StreamStep, ClientStep

-----------------------------------------------------------------------------
(* The properties *)

LEMMA PubSubInvariant == Spec => [](PubSubType /\ HandlerInv /\ WireInv)
<1>1. Init => PubSubType /\ HandlerInv /\ WireInv
  <2> SUFFICES ASSUME Init PROVE PubSubType /\ HandlerInv /\ WireInv
    OBVIOUS
  <2>1. PubSubType
    BY EmptySeq DEF Init, PubSubType
  <2>2. /\ \A ch \in Channels : handlers[ch] = NoSet
        /\ \A ch \in Channels, s \in Streams : members[ch][s] = {}
        /\ DOMAIN wire = {}
    BY DEF Init
  <2>3. HandlerInv
    BY <2>2, PubSubAssumption DEF HandlerInv, MembersBelong, Fresh, NoGhostHandler, Routed
  <2>4. WireInv
    BY <2>2 DEF WireInv, Asked, Unanswered, TableHeard
  <2> QED BY <2>1, <2>3, <2>4
<1>2. PubSubType /\ HandlerInv /\ WireInv /\ [Next]_vars
      => (PubSubType /\ HandlerInv /\ WireInv)'
  <2> SUFFICES ASSUME PubSubType, HandlerInv, WireInv, [Next]_vars
               PROVE  (PubSubType /\ HandlerInv /\ WireInv)'
    OBVIOUS
  <2>1. MembersBelong /\ Asked
    BY DEF HandlerInv, WireInv
  <2>2. PubSubType'
    BY <2>1, PubSubTypeStep
  <2>3. HandlerInv'
    BY <2>1, HandlerStep
  <2>4. WireInv'
    BY <2>1, <2>2, WireStep
  <2> QED BY <2>2, <2>3, <2>4
<1> QED BY <1>1, <1>2, PTL DEF Spec

\* The router of RedisPubSubService never calls the handler of a stream that is closed
\* or whose subscription failed, however the subscriptions, the failures of the
\* connection and the "close" events interleave.
THEOREM ClosedStreamsHearNothing == Spec => []NoGhostHandler
<1>1. HandlerInv => NoGhostHandler
  BY DEF HandlerInv
<1> QED BY <1>1, PubSubInvariant, PTL

\* Once Redis has answered every command it sends each channel the table routes: no
\* UNSUBSCRIBE of a stream that closes overtakes the SUBSCRIBE of a later one.
THEOREM TableIsSubscribed == Spec => []RoutedIsSubscribed
<1>1. PubSubType /\ WireInv => RoutedIsSubscribed
  <2> SUFFICES ASSUME WireInv, wire = <<>>, connection # "lost",
                      NEW ch \in Channels, handlers[ch] # NoSet
               PROVE  ch \in subscribed
    BY DEF RoutedIsSubscribed
  <2>1. Heard(ch)
    BY DEF WireInv, TableHeard
  <2>2. DOMAIN wire = {}
    OBVIOUS
  <2> QED BY <2>1, <2>2 DEF Heard
<1> QED BY <1>1, PubSubInvariant, PTL

-----------------------------------------------------------------------------
(* RateLimiter *)

LimitAnswer == [at : Nat, admitted : BOOLEAN, reset : Nat]

LimitType ==
    /\ limitNow \in Nat
    /\ DOMAIN table \subseteq LimitKeys
    /\ table = [k \in DOMAIN table |-> table[k]]
    /\ \A k \in DOMAIN table : table[k].count \in Nat \ {0} /\ table[k].resetAt \in Nat
    /\ answers \in [LimitKeys -> Seq(LimitAnswer)]
    /\ evicted \subseteq LimitKeys

\* The answers in s that let a request through in the window that ends at u.
Through(s, u) == {j \in 1..Len(s) : s[j].admitted /\ s[j].reset = u}

\* Answers are given in the order of time, each within a window that is not over.
InWindow(k) ==
    /\ \A i \in 1..Len(answers[k]) :
        /\ answers[k][i].at <= limitNow
        /\ answers[k][i].at < answers[k][i].reset
        /\ answers[k][i].reset <= answers[k][i].at + Window
    /\ \A i, j \in 1..Len(answers[k]) : i <= j => answers[k][i].at <= answers[k][j].at

\* An entry was opened by an answer, and counts no more than has been let through,
\* or it counts beyond the limit, which has been let through.
Earned(k) ==
    k \in DOMAIN table =>
        /\ \E i \in 1..Len(answers[k]) : answers[k][i].reset = table[k].resetAt
        /\ Cardinality(Through(answers[k], table[k].resetAt)) >=
              IF table[k].count <= Limit THEN table[k].count ELSE Limit

\* Two windows of a key do not overlap.
Apart(k) ==
    \A i, j \in 1..Len(answers[k]) :
        \/ answers[k][i].reset = answers[k][j].reset
        \/ answers[k][i].reset + Window <= answers[k][j].reset
        \/ answers[k][j].reset + Window <= answers[k][i].reset

\* No window lets more than Limit through.
Allowed(k) ==
    \A i \in 1..Len(answers[k]) : Cardinality(Through(answers[k], answers[k][i].reset)) <= Limit

\* The table has the window that is not over, and counts all it has let through.
Remembered(k) ==
    /\ \A i \in 1..Len(answers[k]) :
          answers[k][i].reset > limitNow =>
              k \in DOMAIN table /\ table[k].resetAt = answers[k][i].reset
    /\ k \in DOMAIN table => Cardinality(Through(answers[k], table[k].resetAt)) <= table[k].count

KeyCounted(k) == InWindow(k) /\ Earned(k)
KeyLimited(k) == Apart(k) /\ Allowed(k) /\ Remembered(k)

LimitInv ==
    /\ LimitType
    /\ \A k \in LimitKeys : KeyCounted(k)
    /\ \A k \in LimitKeys \ evicted : KeyLimited(k)
    /\ RefusalEarned

\* A part of a sequence's positions is finite.
LEMMA PositionsFinite ==
    ASSUME NEW n \in Nat, NEW S \in SUBSET (1..n)
    PROVE  IsFiniteSet(S) /\ Cardinality(S) \in Nat
  <1>1. IsFiniteSet(1..n)
    BY FS_Interval
  <1>2. IsFiniteSet(S)
    BY <1>1, FS_Subset
  <1> QED
    BY <1>2, FS_CardinalityType

\* Types of the answers.
LEMMA AnswersTyped ==
    ASSUME LimitType, NEW k \in LimitKeys
    PROVE  /\ Len(answers[k]) \in Nat
           /\ \A i \in 1..Len(answers[k]) :
                 /\ answers[k][i].at \in Nat
                 /\ answers[k][i].admitted \in BOOLEAN
                 /\ answers[k][i].reset \in Nat
  <1> DEFINE s == answers[k]
  <1>1. s \in Seq(LimitAnswer)
    BY DEF LimitType
  <1> HIDE DEF s
  <1>2. Len(s) \in Nat /\ \A i \in 1..Len(s) : s[i] \in LimitAnswer
    BY <1>1, LenProperties, ElementOfSeq
  <1>3. ASSUME NEW i \in 1..Len(s)
        PROVE  s[i].at \in Nat /\ s[i].admitted \in BOOLEAN /\ s[i].reset \in Nat
    <2>1. s[i] \in LimitAnswer
      BY <1>2
    <2> QED
      BY <2>1 DEF LimitAnswer
  <1> QED
    BY <1>2, <1>3 DEF s

\* Types of what has been let through.
LEMMA ThroughFinite ==
    ASSUME LimitType, NEW k \in LimitKeys, NEW u
    PROVE  /\ IsFiniteSet(Through(answers[k], u)) /\ Cardinality(Through(answers[k], u)) \in Nat
           /\ Len(answers[k]) \in Nat
  <1>1. Len(answers[k]) \in Nat
    BY DEF LimitType
  <1>2. Through(answers[k], u) \in SUBSET (1..Len(answers[k]))
    BY DEF Through
  <1> QED
    BY <1>1, <1>2, PositionsFinite

-----------------------------------------------------------------------------
(* What the invariant says *)

\* Ends of windows that are apart, in a span of less than two windows.
LEMMA TwoEnds ==
    ASSUME NEW t \in Nat, NEW w \in Nat, NEW x \in Nat, NEW y \in Nat, NEW z \in Nat,
           t < x, x < t + w + w, t < y, y < t + w + w, t < z, z < t + w + w,
           x + w <= y \/ y + w <= x,
           x = z \/ x + w <= z \/ z + w <= x,
           y = z \/ y + w <= z \/ z + w <= y
    PROVE  z = x \/ z = y
  OBVIOUS

\* A window that an answer is in ends less than two windows after that answer may
\* have been given at the earliest.
LEMMA EndsSoon ==
    ASSUME NEW t \in Nat, NEW w \in Nat, NEW x \in Nat, NEW r \in Nat,
           t <= x, x < r, r <= x + w, x < t + w
    PROVE  t < r /\ r < t + w + w
  OBVIOUS

\* Windows that are apart: three answers less than a window apart are in two of them.
LEMMA TwoWindows ==
    ASSUME LimitType, NEW k \in LimitKeys, InWindow(k), Apart(k),
           NEW i \in 1..Len(answers[k]),
           NEW a \in i..Len(answers[k]), NEW b \in i..Len(answers[k]), NEW c \in i..Len(answers[k]),
           answers[k][a].at < answers[k][i].at + Window,
           answers[k][b].at < answers[k][i].at + Window,
           answers[k][c].at < answers[k][i].at + Window,
           answers[k][a].reset # answers[k][b].reset
    PROVE  answers[k][c].reset \in {answers[k][a].reset, answers[k][b].reset}
  <1> DEFINE s == answers[k]
  <1>1. Window \in Nat \ {0}
    BY LimiterAssumption
  <1>2. Len(s) \in Nat /\ \A x \in 1..Len(s) : s[x].at \in Nat /\ s[x].reset \in Nat
    BY AnswersTyped
  <1>3. a \in 1..Len(s) /\ b \in 1..Len(s) /\ c \in 1..Len(s)
    BY <1>2
  <1>4. /\ s[i].at \in Nat
        /\ s[a].at \in Nat /\ s[a].reset \in Nat
        /\ s[b].at \in Nat /\ s[b].reset \in Nat
        /\ s[c].at \in Nat /\ s[c].reset \in Nat
    BY <1>2, <1>3
  <1>5. /\ s[i].at <= s[a].at /\ s[a].at < s[a].reset /\ s[a].reset <= s[a].at + Window
        /\ s[i].at <= s[b].at /\ s[b].at < s[b].reset /\ s[b].reset <= s[b].at + Window
        /\ s[i].at <= s[c].at /\ s[c].at < s[c].reset /\ s[c].reset <= s[c].at + Window
    BY <1>2, <1>3 DEF InWindow
  <1>6. /\ s[a].reset + Window <= s[b].reset \/ s[b].reset + Window <= s[a].reset
        /\ \/ s[a].reset = s[c].reset
           \/ s[a].reset + Window <= s[c].reset
           \/ s[c].reset + Window <= s[a].reset
        /\ \/ s[b].reset = s[c].reset
           \/ s[b].reset + Window <= s[c].reset
           \/ s[c].reset + Window <= s[b].reset
    BY <1>3 DEF Apart
  <1>7. s[a].at < s[i].at + Window /\ s[b].at < s[i].at + Window /\ s[c].at < s[i].at + Window
    OBVIOUS
  <1> HIDE DEF s
  <1>8. /\ s[i].at < s[a].reset /\ s[a].reset < s[i].at + Window + Window
        /\ s[i].at < s[b].reset /\ s[b].reset < s[i].at + Window + Window
        /\ s[i].at < s[c].reset /\ s[c].reset < s[i].at + Window + Window
    BY <1>1, <1>4, <1>5, <1>7, EndsSoon
  <1>9. s[c].reset = s[a].reset \/ s[c].reset = s[b].reset
    BY <1>1, <1>4, <1>6, <1>8, TwoEnds
  <1> QED
    BY <1>9 DEF s

\* The limit holds of a key whose windows do not overlap and let no more through.
LEMMA LimitedHolds ==
    ASSUME LimitInv
    PROVE  LimitHolds
  <1> SUFFICES ASSUME NEW k \in LimitKeys \ evicted, NEW i \in 1..Len(answers[k])
               PROVE  Cardinality({j \in i..Len(answers[k]) :
                                      /\ answers[k][j].admitted
                                      /\ answers[k][j].at < answers[k][i].at + Window}) <= 2 * Limit
    BY DEF LimitHolds
  <1> DEFINE s == answers[k]
             Span == {j \in i..Len(s) : s[j].admitted /\ s[j].at < s[i].at + Window}
  <1>1. LimitType /\ InWindow(k) /\ Apart(k) /\ Allowed(k)
    BY DEF LimitInv, KeyCounted, KeyLimited
  <1>2. Limit \in Nat /\ Len(s) \in Nat
    BY <1>1, LimiterAssumption DEF LimitType
  <1>3. Span \in SUBSET (1..Len(s))
    BY <1>2
  <1>4. CASE Span = {}
    <2>1. Cardinality(Span) = 0
      BY <1>4, FS_EmptySet
    <2> QED
      BY <2>1, <1>2
  <1>5. CASE \E a \in Span : \A c \in Span : s[c].reset = s[a].reset
    <2>1. PICK a \in Span : \A c \in Span : s[c].reset = s[a].reset
      BY <1>5
    <2>2. Span \subseteq Through(answers[k], s[a].reset)
      BY <1>3, <2>1 DEF Through
    <2>3. Cardinality(Span) <= Cardinality(Through(answers[k], s[a].reset))
      BY <2>2, <1>1, ThroughFinite, FS_Subset
    <2>4. Cardinality(Through(answers[k], s[a].reset)) <= Limit
      BY <1>1, <1>3, <2>1 DEF Allowed
    <2>5. Cardinality(Span) \in Nat /\ Cardinality(Through(answers[k], s[a].reset)) \in Nat
      BY <1>1, <1>2, <1>3, PositionsFinite, ThroughFinite
    <2> HIDE DEF Span
    <2> QED
      BY <2>3, <2>4, <2>5, <1>2 DEF Span
  <1>6. CASE \E a, b \in Span : s[a].reset # s[b].reset
    <2>1. PICK a \in Span, b \in Span : s[a].reset # s[b].reset
      BY <1>6
    <2>2. \A c \in Span : s[c].reset \in {s[a].reset, s[b].reset}
      BY <1>1, <2>1, TwoWindows
    <2>3. Span \subseteq Through(answers[k], s[a].reset) \cup Through(answers[k], s[b].reset)
      BY <1>3, <2>2 DEF Through
    <2>4. /\ Cardinality(Through(answers[k], s[a].reset)) <= Limit
          /\ Cardinality(Through(answers[k], s[b].reset)) <= Limit
      BY <1>1, <1>3, <2>1 DEF Allowed
    <2>5. /\ IsFiniteSet(Through(answers[k], s[a].reset)) /\ Cardinality(Through(answers[k], s[a].reset)) \in Nat
          /\ IsFiniteSet(Through(answers[k], s[b].reset)) /\ Cardinality(Through(answers[k], s[b].reset)) \in Nat
      BY <1>1, ThroughFinite
    <2> DEFINE A == Through(answers[k], s[a].reset)
               B == Through(answers[k], s[b].reset)
    <2> HIDE DEF A, B, Span
    <2>6. /\ IsFiniteSet(A \cup B)
          /\ Cardinality(A \cup B) = Cardinality(A) + Cardinality(B) - Cardinality(A \cap B)
      BY <2>5, FS_Union DEF A, B
    <2>7. Cardinality(A \cap B) \in Nat
      BY <2>5, FS_Intersection, FS_CardinalityType DEF A, B
    <2>8. Cardinality(Span) <= Cardinality(A \cup B)
      BY <2>3, <2>6, FS_Subset DEF A, B
    <2>9. Cardinality(A) <= Limit /\ Cardinality(B) <= Limit /\ Cardinality(A) \in Nat /\ Cardinality(B) \in Nat
      BY <2>4, <2>5 DEF A, B
    <2>10. Cardinality(Span) \in Nat
      BY <1>2, <1>3, PositionsFinite
    <2>11. Cardinality(Span) <= 2 * Limit
      BY <2>6, <2>7, <2>8, <2>9, <2>10, <1>2
    <2> QED
      BY <2>11 DEF Span
  <1> QED
    BY <1>4, <1>5, <1>6

-----------------------------------------------------------------------------
(* A request *)

\* One more answer.
LEMMA OneMoreAnswer ==
    ASSUME NEW s \in Seq(LimitAnswer), NEW a \in LimitAnswer
    PROVE  /\ Append(s, a) \in Seq(LimitAnswer)
           /\ Len(s) \in Nat /\ Len(Append(s, a)) = Len(s) + 1
           /\ \A i \in 1..Len(s) : Append(s, a)[i] = s[i]
           /\ Append(s, a)[Len(s) + 1] = a
  BY AppendProperties, LenProperties

\* It counts in its own window if it lets the request through, and in no other.
LEMMA OneMoreThrough ==
    ASSUME NEW s \in Seq(LimitAnswer), NEW a \in LimitAnswer, NEW u
    PROVE  /\ Cardinality(Through(s, u)) \in Nat
           /\ a.admitted /\ a.reset = u =>
                 Cardinality(Through(Append(s, a), u)) = Cardinality(Through(s, u)) + 1
           /\ ~(a.admitted /\ a.reset = u) => Through(Append(s, a), u) = Through(s, u)
  <1> DEFINE n == Len(s)
             T == Through(s, u)
             U == Through(Append(s, a), u)
  <1>1. /\ n \in Nat /\ Len(Append(s, a)) = n + 1
        /\ \A i \in 1..n : Append(s, a)[i] = s[i]
        /\ Append(s, a)[n + 1] = a
    BY OneMoreAnswer
  <1>2. T \in SUBSET (1..n)
    BY DEF Through
  <1>3. IsFiniteSet(T) /\ Cardinality(T) \in Nat
    BY <1>1, <1>2, PositionsFinite
  <1>4. 1..(n + 1) = (1..n) \cup {n + 1} /\ n + 1 \notin 1..n
    BY <1>1
  <1>5. U = {j \in (1..n) \cup {n + 1} : Append(s, a)[j].admitted /\ Append(s, a)[j].reset = u}
    BY <1>1, <1>4 DEF Through
  <1>6. T = {j \in 1..n : Append(s, a)[j].admitted /\ Append(s, a)[j].reset = u}
    BY <1>1 DEF Through
  <1>7. ASSUME a.admitted /\ a.reset = u PROVE Cardinality(U) = Cardinality(T) + 1
    <2>1. U = T \cup {n + 1}
      BY <1>1, <1>5, <1>6, <1>7
    <2>2. n + 1 \notin T
      BY <1>2, <1>4
    <2> QED
      BY <2>1, <2>2, <1>3, FS_AddElement
  <1>8. ASSUME ~(a.admitted /\ a.reset = u) PROVE U = T
    BY <1>1, <1>5, <1>6, <1>8
  <1> QED
    BY <1>3, <1>7, <1>8

\* The entry a request makes: in a window that is not over.
LEMMA EntryTyped ==
    ASSUME LimitInv, NEW k \in LimitKeys
    PROVE  /\ Entry(k).count \in Nat \ {0}
           /\ Entry(k).resetAt \in Nat
           /\ limitNow < Entry(k).resetAt /\ Entry(k).resetAt <= limitNow + Window
           /\ Answer(k) \in LimitAnswer
           /\ Answer(k).at = limitNow /\ Answer(k).reset = Entry(k).resetAt
           /\ Answer(k).admitted <=> Entry(k).count <= Limit
  <1>1. LimitType /\ InWindow(k) /\ Earned(k)
    BY DEF LimitInv, KeyCounted
  <1>2. Window \in Nat \ {0} /\ limitNow \in Nat
    BY <1>1, LimiterAssumption DEF LimitType
  <1>3. /\ Entry(k).count \in Nat \ {0}
        /\ Entry(k).resetAt \in Nat
        /\ limitNow < Entry(k).resetAt /\ Entry(k).resetAt <= limitNow + Window
    <2>1. CASE Running(k)
      <3>1. Entry(k).count = table[k].count + 1 /\ Entry(k).resetAt = table[k].resetAt
        BY <2>1 DEF Entry
      <3>2. k \in DOMAIN table /\ table[k].resetAt > limitNow
        BY <2>1 DEF Running
      <3>3. table[k].count \in Nat \ {0} /\ table[k].resetAt \in Nat
        BY <1>1, <3>2 DEF LimitType
      <3>4. PICK i \in 1..Len(answers[k]) : answers[k][i].reset = table[k].resetAt
        BY <1>1, <3>2 DEF Earned
      <3>5. answers[k][i].reset <= answers[k][i].at + Window /\ answers[k][i].at <= limitNow
        BY <1>1 DEF InWindow
      <3>6. answers[k][i].at \in Nat
        BY <1>1, AnswersTyped
      <3>7. table[k].resetAt <= limitNow + Window
        BY <1>2, <3>3, <3>4, <3>5, <3>6
      <3> QED
        BY <3>1, <3>2, <3>3, <3>7, <1>2
    <2>2. CASE ~Running(k)
      <3>1. Entry(k).count = 1 /\ Entry(k).resetAt = limitNow + Window
        BY <2>2 DEF Entry
      <3> QED
        BY <3>1, <1>2
    <2> QED
      BY <2>1, <2>2
  <1>4. /\ Answer(k).at = limitNow /\ Answer(k).reset = Entry(k).resetAt
        /\ Answer(k).admitted = (Entry(k).count <= Limit)
    BY DEF Answer
  <1>5. (Entry(k).count <= Limit) \in BOOLEAN
    OBVIOUS
  <1>6. Answer(k) \in LimitAnswer
    BY <1>2, <1>3, <1>5 DEF Answer, LimitAnswer
  <1> QED
    BY <1>3, <1>4, <1>6

\* What a request makes of the table: other keys keep their entries or lose them,
\* and a key that loses a window that is not over is evicted.
LEMMA HitTable ==
    ASSUME LimitInv, NEW k \in LimitKeys, Hit(k)
    PROVE  /\ DOMAIN table' \subseteq DOMAIN table \cup {k}
           /\ table' = [x \in DOMAIN table' |-> table'[x]]
           /\ k \in DOMAIN table' => table'[k] = Entry(k)
           /\ \A x \in DOMAIN table' : x # k => table'[x] = table[x]
           /\ k \notin evicted' => k \in DOMAIN table'
           /\ \A x \in DOMAIN table : x \notin evicted' /\ table[x].resetAt > limitNow =>
                 x \in DOMAIN table'
           /\ evicted \subseteq evicted' /\ evicted' \subseteq LimitKeys
  <1> DEFINE P == Put(k)
  <1>1. /\ DOMAIN P = DOMAIN table \cup {k}
        /\ P[k] = Entry(k)
        /\ \A x \in DOMAIN table : x # k => P[x] = table[x]
    BY DEF Put
  <1>2. table' = Restrict(P, Kept(P)) /\ evicted' = evicted \cup (Unexpired(P) \ Kept(P))
    BY DEF Hit, Pruned
  <1>3. table' = [x \in Kept(P) |-> P[x]]
    BY <1>2 DEF Restrict
  <1>4. Kept(P) \subseteq DOMAIN P /\ Unexpired(P) \subseteq DOMAIN P
    BY DEF Kept, Unexpired
  <1>5. DOMAIN table' = Kept(P) /\ \A x \in Kept(P) : table'[x] = P[x]
    BY <1>3
  <1>6. k \in Unexpired(P)
    BY <1>1, EntryTyped DEF Unexpired
  <1>7. \A x \in DOMAIN table : table[x].resetAt > limitNow => x \in Unexpired(P)
    BY <1>1, <1>6 DEF Unexpired
  <1>8. DOMAIN table \subseteq LimitKeys /\ evicted \subseteq LimitKeys
    BY DEF LimitInv, LimitType
  <1>9. \A x \in DOMAIN table : x \notin evicted' /\ table[x].resetAt > limitNow => x \in DOMAIN table'
    BY <1>2, <1>5, <1>7
  <1> HIDE DEF P
  <1> QED
    BY <1>1, <1>2, <1>3, <1>4, <1>5, <1>6, <1>8, <1>9

\* What a request makes of the answers.
LEMMA HitAnswers ==
    ASSUME LimitInv, NEW k \in LimitKeys, Hit(k)
    PROVE  /\ limitNow' = limitNow
           /\ answers' \in [LimitKeys -> Seq(LimitAnswer)]
           /\ \A x \in LimitKeys : x # k => answers'[x] = answers[x]
           /\ answers'[k] = Append(answers[k], Answer(k))
           /\ Len(answers[k]) \in Nat /\ Len(answers'[k]) = Len(answers[k]) + 1
           /\ \A i \in 1..Len(answers[k]) : answers'[k][i] = answers[k][i]
           /\ answers'[k][Len(answers[k]) + 1] = Answer(k)
  <1>1. answers \in [LimitKeys -> Seq(LimitAnswer)]
    BY DEF LimitInv, LimitType
  <1>2. answers' = [answers EXCEPT ![k] = Append(answers[k], Answer(k))] /\ limitNow' = limitNow
    BY DEF Hit
  <1>3. answers[k] \in Seq(LimitAnswer) /\ Answer(k) \in LimitAnswer
    BY <1>1, EntryTyped
  <1>4. answers'[k] = Append(answers[k], Answer(k))
    BY <1>1, <1>2
  <1>5. /\ Append(answers[k], Answer(k)) \in Seq(LimitAnswer)
        /\ Len(answers[k]) \in Nat /\ Len(Append(answers[k], Answer(k))) = Len(answers[k]) + 1
        /\ \A i \in 1..Len(answers[k]) : Append(answers[k], Answer(k))[i] = answers[k][i]
        /\ Append(answers[k], Answer(k))[Len(answers[k]) + 1] = Answer(k)
    BY <1>3, OneMoreAnswer
  <1>6. /\ answers' \in [LimitKeys -> Seq(LimitAnswer)]
        /\ \A x \in LimitKeys : x # k => answers'[x] = answers[x]
    BY <1>1, <1>2, <1>5
  <1> QED
    BY <1>2, <1>4, <1>5, <1>6

\* A request keeps the types.
LEMMA HitTypes ==
    ASSUME LimitInv, NEW k \in LimitKeys, Hit(k)
    PROVE  LimitType'
  <1>1. LimitType
    BY DEF LimitInv
  <1>2. DOMAIN table' \subseteq LimitKeys
    BY <1>1, HitTable DEF LimitType
  <1>3. \A x \in DOMAIN table' : table'[x].count \in Nat \ {0} /\ table'[x].resetAt \in Nat
    <2> TAKE x \in DOMAIN table'
    <2>1. CASE x = k
      BY <2>1, HitTable, EntryTyped
    <2>2. CASE x # k
      BY <2>2, <1>1, HitTable DEF LimitType
    <2> QED
      BY <2>1, <2>2
  <1> QED
    BY <1>1, <1>2, <1>3, HitTable, HitAnswers DEF LimitType

\* Other keys keep what the invariant says of them.
LEMMA HitOthers ==
    ASSUME LimitInv, NEW k \in LimitKeys, Hit(k), NEW x \in LimitKeys, x # k
    PROVE  KeyCounted(x)' /\ (x \notin evicted' => KeyLimited(x)')
  <1>1. /\ answers'[x] = answers[x] /\ limitNow' = limitNow
        /\ x \in DOMAIN table' => x \in DOMAIN table /\ table'[x] = table[x]
    BY HitAnswers, HitTable
  <1>2. KeyCounted(x)
    BY DEF LimitInv
  <1>3. InWindow(x)'
    BY <1>1, <1>2 DEF KeyCounted, InWindow
  <1>4. Earned(x)'
    BY <1>1, <1>2 DEF KeyCounted, Earned
  <1>5. ASSUME x \notin evicted' PROVE KeyLimited(x)'
    <2>1. x \notin evicted
      BY <1>5, HitTable
    <2>2. KeyLimited(x)
      BY <2>1 DEF LimitInv
    <2>3. Apart(x)' /\ Allowed(x)'
      BY <1>1, <2>2 DEF KeyLimited, Apart, Allowed
    <2>4. x \in DOMAIN table /\ table[x].resetAt > limitNow => x \in DOMAIN table'
      BY <1>5, HitTable
    <2>5. Remembered(x)'
      BY <1>1, <2>2, <2>4 DEF KeyLimited, Remembered
    <2> QED
      BY <2>3, <2>5 DEF KeyLimited
  <1> QED
    BY <1>3, <1>4, <1>5 DEF KeyCounted

\* The new answer comes last, in a window that is not over; an entry still stands
\* for what was let through.
LEMMA HitCounted ==
    ASSUME LimitInv, NEW k \in LimitKeys, Hit(k)
    PROVE  KeyCounted(k)'
  <1> DEFINE s == answers[k]
             n == Len(s)
             a == Answer(k)
             z == answers'[k]
  <1>1. LimitType /\ InWindow(k) /\ Earned(k)
    BY DEF LimitInv, KeyCounted
  <1>2. s \in Seq(LimitAnswer) /\ a \in LimitAnswer
    BY <1>1, EntryTyped DEF LimitType
  <1>3. /\ z = Append(s, a)
        /\ n \in Nat /\ Len(z) = n + 1
        /\ \A i \in 1..n : z[i] = s[i]
        /\ z[n + 1] = a
    BY HitAnswers
  <1>4. limitNow' = limitNow /\ limitNow \in Nat /\ Limit \in Nat \ {0}
    BY <1>1, HitAnswers, LimiterAssumption DEF LimitType
  <1>5. \A i \in 1..(n + 1) : i \in 1..n \/ i = n + 1
    BY <1>3
  <1>6. InWindow(k)'
    <2>1. \A i \in 1..n : /\ s[i].at <= limitNow
                          /\ s[i].at < s[i].reset
                          /\ s[i].reset <= s[i].at + Window
      BY <1>1 DEF InWindow
    <2>2. \A i, j \in 1..n : i <= j => s[i].at <= s[j].at
      BY <1>1 DEF InWindow
    <2>3. a.at = limitNow /\ a.at < a.reset /\ a.reset <= a.at + Window
      BY EntryTyped
    <2>4. \A i \in 1..(n + 1) : /\ z[i].at <= limitNow
                                /\ z[i].at < z[i].reset
                                /\ z[i].reset <= z[i].at + Window
      BY <1>3, <1>4, <1>5, <2>1, <2>3
    <2>5. \A i, j \in 1..(n + 1) : i <= j => z[i].at <= z[j].at
      <3> TAKE i, j \in 1..(n + 1)
      <3> HAVE i <= j
      <3>1. CASE j \in 1..n
        <4>1. i \in 1..n
          BY <1>3, <3>1
        <4> QED
          BY <1>3, <2>2, <3>1, <4>1
      <3>2. CASE j = n + 1
        BY <1>3, <2>3, <2>4, <3>2
      <3> QED
        BY <1>5, <3>1, <3>2
    <2> QED
      BY <1>3, <1>4, <2>4, <2>5 DEF InWindow
  <1>7. Earned(k)'
    <2> SUFFICES ASSUME k \in DOMAIN table'
                 PROVE  /\ \E i \in 1..Len(z) : z[i].reset = table'[k].resetAt
                        /\ Cardinality(Through(z, table'[k].resetAt)) >=
                              IF table'[k].count <= Limit THEN table'[k].count ELSE Limit
      BY DEF Earned
    <2> DEFINE e == Entry(k)
    <2>1. table'[k] = e
      BY HitTable
    <2>2. /\ e.count \in Nat \ {0} /\ a.reset = e.resetAt
          /\ a.admitted <=> e.count <= Limit
      BY EntryTyped
    <2>3. /\ Cardinality(Through(s, e.resetAt)) \in Nat
          /\ a.admitted => Cardinality(Through(z, e.resetAt)) = Cardinality(Through(s, e.resetAt)) + 1
          /\ ~a.admitted => Cardinality(Through(z, e.resetAt)) = Cardinality(Through(s, e.resetAt))
      BY <1>2, <1>3, <2>2, OneMoreThrough
    <2>4. CASE Running(k)
      <3>1. e.count = table[k].count + 1 /\ e.resetAt = table[k].resetAt /\ k \in DOMAIN table
        BY <2>4 DEF Entry, Running
      <3>2. table[k].count \in Nat \ {0}
        BY <1>1, <3>1 DEF LimitType
      <3>3. Cardinality(Through(s, e.resetAt)) >=
              IF table[k].count <= Limit THEN table[k].count ELSE Limit
        BY <1>1, <3>1 DEF Earned
      <3>4. Cardinality(Through(z, e.resetAt)) >= IF e.count <= Limit THEN e.count ELSE Limit
        <4> HIDE DEF z, e, s, a
        <4> QED
          BY <1>4, <2>2, <2>3, <3>1, <3>2, <3>3
      <3> QED
        BY <1>3, <2>1, <2>2, <3>4
    <2>5. CASE ~Running(k)
      <3>1. e.count = 1
        BY <2>5 DEF Entry
      <3>2. Cardinality(Through(z, e.resetAt)) >= 1 /\ e.count <= Limit
        <4> HIDE DEF z, e, s, a
        <4> QED
          BY <1>4, <2>2, <2>3, <3>1
      <3> QED
        BY <1>3, <2>1, <2>2, <3>1, <3>2
    <2> QED
      BY <2>4, <2>5
  <1> QED
    BY <1>6, <1>7 DEF KeyCounted

\* A new window begins after all others; one that runs counts the new answer.
LEMMA HitLimited ==
    ASSUME LimitInv, NEW k \in LimitKeys, Hit(k), k \notin evicted'
    PROVE  KeyLimited(k)'
  <1> DEFINE s == answers[k]
             n == Len(s)
             a == Answer(k)
             z == answers'[k]
             e == Entry(k)
  <1>1. LimitType /\ Earned(k) /\ Apart(k) /\ Allowed(k) /\ Remembered(k)
    BY HitTable DEF LimitInv, KeyCounted, KeyLimited
  <1>2. s \in Seq(LimitAnswer) /\ a \in LimitAnswer
    BY <1>1, EntryTyped DEF LimitType
  <1>3. /\ z = Append(s, a)
        /\ n \in Nat /\ Len(z) = n + 1
        /\ \A i \in 1..n : z[i] = s[i]
        /\ z[n + 1] = a
    BY HitAnswers
  <1>4. /\ limitNow' = limitNow /\ limitNow \in Nat
        /\ Limit \in Nat \ {0} /\ Window \in Nat \ {0}
    BY <1>1, HitAnswers, LimiterAssumption DEF LimitType
  <1>5. \A i \in 1..(n + 1) : i \in 1..n \/ i = n + 1
    BY <1>3
  <1>6. k \in DOMAIN table' /\ table'[k] = e
    BY HitTable
  <1>7. /\ e.count \in Nat \ {0} /\ a.reset = e.resetAt /\ e.resetAt \in Nat /\ limitNow < e.resetAt
        /\ a.admitted <=> e.count <= Limit
    BY EntryTyped
  <1>8. \A u : /\ Cardinality(Through(s, u)) \in Nat
               /\ a.admitted /\ u = e.resetAt =>
                     Cardinality(Through(z, u)) = Cardinality(Through(s, u)) + 1
               /\ ~(a.admitted /\ u = e.resetAt) => Through(z, u) = Through(s, u)
    BY <1>2, <1>3, <1>7, OneMoreThrough
  <1>9. \A i \in 1..n : s[i].reset \in Nat
    BY <1>1, AnswersTyped
  \* The window of the entry and those of the earlier answers.
  <1>10. \A i \in 1..n : s[i].reset = e.resetAt \/ s[i].reset + Window <= e.resetAt
                            \/ e.resetAt + Window <= s[i].reset
    <2>1. CASE Running(k)
      <3>1. e.resetAt = table[k].resetAt /\ k \in DOMAIN table
        BY <2>1 DEF Entry, Running
      <3>2. PICK j \in 1..n : s[j].reset = e.resetAt
        BY <1>1, <3>1 DEF Earned
      <3> QED
        BY <1>1, <3>2 DEF Apart
    <2>2. CASE ~Running(k)
      <3>1. e.resetAt = limitNow + Window
        BY <2>2 DEF Entry
      <3>2. \A i \in 1..n : ~(s[i].reset > limitNow)
        BY <1>1, <2>2 DEF Remembered, Running
      <3> HIDE DEF e, s, n
      <3> QED
        BY <1>4, <1>9, <3>1, <3>2
    <2> QED
      BY <2>1, <2>2
  <1>11. Cardinality(Through(z, e.resetAt)) <= e.count /\ Cardinality(Through(z, e.resetAt)) <= Limit
    <2>1. CASE Running(k)
      <3>1. e.count = table[k].count + 1 /\ e.resetAt = table[k].resetAt /\ k \in DOMAIN table
        BY <2>1 DEF Entry, Running
      <3>2. table[k].count \in Nat \ {0}
        BY <1>1, <3>1 DEF LimitType
      <3>3. Cardinality(Through(s, e.resetAt)) <= table[k].count
        BY <1>1, <3>1 DEF Remembered
      <3>4. PICK j \in 1..n : s[j].reset = e.resetAt
        BY <1>1, <3>1 DEF Earned
      <3>5. Cardinality(Through(s, e.resetAt)) <= Limit
        BY <1>1, <3>4 DEF Allowed
      <3>6. /\ Cardinality(Through(s, e.resetAt)) \in Nat
            /\ a.admitted => Cardinality(Through(z, e.resetAt)) = Cardinality(Through(s, e.resetAt)) + 1
            /\ ~a.admitted => Cardinality(Through(z, e.resetAt)) = Cardinality(Through(s, e.resetAt))
        BY <1>8
      <3> HIDE DEF z, e, s, a
      <3> QED
        BY <1>4, <1>7, <3>1, <3>2, <3>3, <3>5, <3>6
    <2>2. CASE ~Running(k)
      <3>1. e.resetAt = limitNow + Window /\ e.count = 1
        BY <2>2 DEF Entry
      <3>2. \A i \in 1..n : ~(s[i].reset > limitNow)
        BY <1>1, <2>2 DEF Remembered, Running
      <3>3. \A i \in 1..n : s[i].reset # e.resetAt
        BY <1>7, <3>2
      <3>4. Through(s, e.resetAt) = {}
        BY <3>3 DEF Through
      <3>5. Cardinality(Through(s, e.resetAt)) = 0
        BY <3>4, FS_EmptySet
      <3>6. a.admitted
        BY <1>4, <1>7, <3>1
      <3>7. Cardinality(Through(z, e.resetAt)) = Cardinality(Through(s, e.resetAt)) + 1
        BY <1>8, <3>6
      <3> HIDE DEF z, e, s, a
      <3> QED
        BY <1>4, <3>1, <3>5, <3>7
    <2> QED
      BY <2>1, <2>2
  <1>12. Apart(k)'
    <2>1. \A i, j \in 1..n : s[i].reset = s[j].reset \/ s[i].reset + Window <= s[j].reset
                                \/ s[j].reset + Window <= s[i].reset
      BY <1>1 DEF Apart
    <2>2. \A i, j \in 1..(n + 1) : z[i].reset = z[j].reset \/ z[i].reset + Window <= z[j].reset
                                      \/ z[j].reset + Window <= z[i].reset
      <3> TAKE i, j \in 1..(n + 1)
      <3> HIDE DEF z, s, a, e, n
      <3>1. CASE i \in 1..n /\ j \in 1..n
        BY <1>3, <2>1, <3>1
      <3>2. CASE i \in 1..n /\ j = n + 1
        BY <1>3, <1>7, <1>10, <3>2
      <3>3. CASE i = n + 1 /\ j \in 1..n
        BY <1>3, <1>7, <1>10, <3>3
      <3>4. CASE i = n + 1 /\ j = n + 1
        BY <3>4
      <3> QED
        BY <1>5, <3>1, <3>2, <3>3, <3>4
    <2> QED
      BY <1>3, <2>2 DEF Apart
  <1>13. Allowed(k)'
    <2>1. \A i \in 1..(n + 1) : Cardinality(Through(z, z[i].reset)) <= Limit
      <3> TAKE i \in 1..(n + 1)
      <3>1. CASE z[i].reset = e.resetAt
        BY <1>11, <3>1
      <3>2. CASE z[i].reset # e.resetAt
        <4>1. i \in 1..n /\ z[i] = s[i]
          BY <1>3, <1>5, <1>7, <3>2
        <4>2. Cardinality(Through(s, s[i].reset)) <= Limit
          BY <1>1, <4>1 DEF Allowed
        <4>3. Through(z, z[i].reset) = Through(s, z[i].reset)
          BY <1>8, <3>2
        <4> QED
          BY <4>1, <4>2, <4>3
      <3> QED
        BY <3>1, <3>2
    <2> QED
      BY <1>3, <2>1 DEF Allowed
  <1>14. Remembered(k)'
    <2>1. \A i \in 1..(n + 1) : z[i].reset > limitNow => z[i].reset = e.resetAt
      <3> TAKE i \in 1..(n + 1)
      <3> HAVE z[i].reset > limitNow
      <3>1. CASE i = n + 1
        BY <1>3, <1>7, <3>1
      <3>2. CASE i \in 1..n
        <4>1. z[i] = s[i] /\ s[i].reset > limitNow
          BY <1>3, <3>2
        <4>2. k \in DOMAIN table /\ table[k].resetAt = s[i].reset
          BY <1>1, <3>2, <4>1 DEF Remembered
        <4>3. Running(k)
          BY <4>1, <4>2 DEF Running
        <4> QED
          BY <4>1, <4>2, <4>3 DEF Entry
      <3> QED
        BY <1>5, <3>1, <3>2
    <2> QED
      BY <1>3, <1>4, <1>6, <1>11, <2>1 DEF Remembered
  <1> QED
    BY <1>12, <1>13, <1>14 DEF KeyLimited

\* A request that is refused was counted beyond the limit in a window that began
\* less than a window ago; earlier answers stand.
LEMMA HitEarned ==
    ASSUME LimitInv, NEW k \in LimitKeys, Hit(k)
    PROVE  RefusalEarned'
  <1> DEFINE Before(s, i) == {j \in 1..i : s[j].admitted /\ s[i].at < s[j].at + Window}
  <1>1. RefusalEarned /\ LimitType
    BY DEF LimitInv
  <1>2. \A x \in LimitKeys : \A i \in 1..Len(answers[x]) :
           ~answers[x][i].admitted => Cardinality(Before(answers[x], i)) >= Limit
    BY <1>1 DEF RefusalEarned
  <1>3. SUFFICES ASSUME NEW x \in LimitKeys, NEW i \in 1..Len(answers'[x]), ~answers'[x][i].admitted
                 PROVE  Cardinality(Before(answers'[x], i)) >= Limit
    BY DEF RefusalEarned
  <1>4. CASE x # k
    BY <1>2, <1>3, <1>4, HitAnswers
  <1>5. CASE x = k
    <2> DEFINE s == answers[k]
               n == Len(s)
               a == Answer(k)
               z == answers'[k]
               e == Entry(k)
    <2>1. s \in Seq(LimitAnswer) /\ a \in LimitAnswer
      BY <1>1, EntryTyped DEF LimitType
    <2>2. /\ n \in Nat /\ Len(z) = n + 1
          /\ \A j \in 1..n : z[j] = s[j]
          /\ z[n + 1] = a
      BY HitAnswers
    <2>3. CASE i \in 1..n
      <3>1. ~s[i].admitted
        BY <1>3, <1>5, <2>2, <2>3
      <3>2. Before(z, i) = Before(s, i)
        BY <2>2, <2>3
      <3> HIDE DEF Before
      <3> QED
        BY <1>2, <1>5, <2>3, <3>1, <3>2
    <2>4. CASE i = n + 1
      <3>1. ~a.admitted
        BY <1>3, <1>5, <2>2, <2>4
      <3>2. /\ e.count \in Nat \ {0} /\ ~(e.count <= Limit) /\ a.at = limitNow
        BY <3>1, EntryTyped
      <3>3. Limit \in Nat \ {0} /\ Window \in Nat /\ limitNow \in Nat
        BY <1>1, LimiterAssumption DEF LimitType
      <3>4. Running(k)
        BY <3>2, <3>3 DEF Entry
      <3>5. e.count = table[k].count + 1 /\ k \in DOMAIN table /\ table[k].resetAt > limitNow
        BY <3>4 DEF Entry, Running
      <3>6. table[k].count \in Nat \ {0} /\ table[k].resetAt \in Nat
        BY <1>1, <3>5 DEF LimitType
      <3>7. Cardinality(Through(s, table[k].resetAt)) >=
              IF table[k].count <= Limit THEN table[k].count ELSE Limit
        BY <3>5 DEF LimitInv, KeyCounted, Earned
      <3>8. Cardinality(Through(s, table[k].resetAt)) \in Nat
        BY <2>1, OneMoreThrough
      <3>9. Cardinality(Through(s, table[k].resetAt)) >= Limit
        <4> HIDE DEF e, s
        <4> QED
          BY <3>2, <3>3, <3>5, <3>6, <3>7, <3>8
      <3>10. Through(s, table[k].resetAt) \subseteq Before(z, i)
        <4> SUFFICES ASSUME NEW j \in Through(s, table[k].resetAt)
                     PROVE  j \in Before(z, i)
          OBVIOUS
        <4>1. j \in 1..n /\ s[j].admitted /\ s[j].reset = table[k].resetAt
          BY DEF Through
        <4>2. s[j].reset <= s[j].at + Window
          BY <4>1 DEF LimitInv, KeyCounted, InWindow
        <4>3. s[j].at \in Nat /\ s[j].reset \in Nat
          BY <1>1, <4>1, AnswersTyped
        <4>4. limitNow < s[j].at + Window
          BY <3>3, <3>5, <3>6, <4>1, <4>2, <4>3
        <4>5. j \in 1..i /\ z[j] = s[j] /\ z[i].at = limitNow
          BY <2>2, <2>4, <3>2, <4>1
        <4> QED
          BY <4>1, <4>4, <4>5
      <3>11. Before(z, i) \in SUBSET (1..i) /\ i \in Nat
        BY <2>2, <2>4
      <3>12. IsFiniteSet(Before(z, i)) /\ Cardinality(Before(z, i)) \in Nat
        BY <3>11, PositionsFinite
      <3>13. Cardinality(Through(s, table[k].resetAt)) <= Cardinality(Before(z, i))
        BY <3>10, <3>12, FS_Subset
      <3>14. Cardinality(Before(z, i)) >= Limit
        <4> HIDE DEF Before, s, z
        <4> QED
          BY <3>3, <3>8, <3>9, <3>12, <3>13
      <3> QED
        BY <1>5, <3>14
    <2> QED
      BY <1>5, <2>2, <2>3, <2>4
  <1> QED
    BY <1>4, <1>5

-----------------------------------------------------------------------------
(* The invariant holds *)

\* Nothing has been asked at the start.
LEMMA LimitInitially == LimitInit => LimitInv
  <1> SUFFICES ASSUME LimitInit PROVE LimitInv
    OBVIOUS
  <1>1. /\ limitNow = 0 /\ DOMAIN table = {} /\ table = [k \in {} |-> 0]
        /\ answers = [k \in LimitKeys |-> <<>>] /\ evicted = {}
    BY DEF LimitInit
  <1>2. \A k \in LimitKeys : answers[k] = <<>> /\ Len(answers[k]) = 0
    BY <1>1
  <1>3. LimitType
    BY <1>1, EmptySeq DEF LimitType
  <1>4. ASSUME NEW k \in LimitKeys PROVE KeyCounted(k) /\ KeyLimited(k)
    <2>1. 1..Len(answers[k]) = {}
      BY <1>2
    <2> QED
      BY <1>1, <2>1 DEF KeyCounted, InWindow, Earned, KeyLimited, Apart, Allowed, Remembered
  <1>5. RefusalEarned
    <2>1. \A k \in LimitKeys : 1..Len(answers[k]) = {}
      BY <1>2
    <2> QED
      BY <2>1 DEF RefusalEarned
  <1> QED
    BY <1>3, <1>4, <1>5 DEF LimitInv

LEMMA LimitInductive == LimitInv /\ [LimitNext]_limitVars => LimitInv'
  <1> SUFFICES ASSUME LimitInv, [LimitNext]_limitVars PROVE LimitInv'
    OBVIOUS
  <1>1. ASSUME NEW k \in LimitKeys, Hit(k) PROVE LimitInv'
    <2>1. \A x \in LimitKeys : KeyCounted(x)'
      BY <1>1, HitOthers, HitCounted
    <2>2. \A x \in LimitKeys \ evicted' : KeyLimited(x)'
      BY <1>1, HitOthers, HitLimited
    <2> QED
      BY <1>1, <2>1, <2>2, HitTypes, HitEarned DEF LimitInv
  <1>2. CASE LimitTick
    <2>1. /\ limitNow' = limitNow + 1 /\ table' = table /\ answers' = answers /\ evicted' = evicted
      BY <1>2 DEF LimitTick
    <2>2. limitNow \in Nat /\ LimitType
      BY DEF LimitInv, LimitType
    <2>3. LimitType'
      BY <2>1, <2>2 DEF LimitType
    <2>4. ASSUME NEW k \in LimitKeys PROVE KeyCounted(k)'
      <3>1. InWindow(k) /\ Earned(k)
        BY DEF LimitInv, KeyCounted
      <3>2. \A i \in 1..Len(answers[k]) : answers[k][i].at \in Nat
        BY <2>2, AnswersTyped
      <3>3. \A i \in 1..Len(answers[k]) : answers[k][i].at <= limitNow + 1
        BY <2>2, <3>1, <3>2 DEF InWindow
      <3> QED
        BY <2>1, <3>1, <3>3 DEF KeyCounted, InWindow, Earned
    <2>5. ASSUME NEW k \in LimitKeys \ evicted' PROVE KeyLimited(k)'
      <3>1. Apart(k) /\ Allowed(k) /\ Remembered(k)
        BY <2>1 DEF LimitInv, KeyLimited
      <3>2. \A i \in 1..Len(answers[k]) : answers[k][i].reset \in Nat
        BY <2>2, AnswersTyped
      <3>3. \A i \in 1..Len(answers[k]) :
               answers[k][i].reset > limitNow + 1 => answers[k][i].reset > limitNow
        BY <2>2, <3>2
      <3>4. Remembered(k)'
        BY <2>1, <3>1, <3>3 DEF Remembered
      <3> QED
        BY <2>1, <3>1, <3>4 DEF KeyLimited, Apart, Allowed
    <2>6. RefusalEarned'
      BY <2>1 DEF LimitInv, RefusalEarned
    <2> QED
      BY <2>3, <2>4, <2>5, <2>6 DEF LimitInv
  <1>3. CASE UNCHANGED limitVars
    BY <1>3 DEF limitVars, LimitInv, LimitType, KeyCounted, InWindow, Earned, KeyLimited, Apart,
                Allowed, Remembered, RefusalEarned
  <1> QED
    BY <1>1, <1>2, <1>3 DEF LimitNext

\* A key gets no more than 2 * Limit requests through in a span of one window unless
\* the table dropped its count, and is refused only for Limit requests of less than
\* a window ago.
THEOREM LimiterIsExact == LimitSpec => []LimiterExact
  <1>1. LimitInv => LimiterExact
    BY LimitedHolds DEF LimitInv, LimiterExact
  <1> QED
    BY <1>1, LimitInitially, LimitInductive, PTL DEF LimitSpec
=============================================================================
