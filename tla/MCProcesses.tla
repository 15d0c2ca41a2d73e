---------------------------- MODULE MCProcesses ----------------------------
(* What processes share or keep for themselves: the Redis locks, an         *)
(* inventory's reservations, a rate limiter's table and the life of a       *)
(* server.  They have no state in common, so each is checked while the      *)
(* others stand still: part says which moves.                               *)
EXTENDS RedisLock, Reservations, RateLimiter, ServerLife

CONSTANTS t1, t2, t3, c1, c2, c3

\* Two checkouts that share both their products, and one that wants the second.
MCLockTargets == [t \in LockTasks |-> IF t = t3 THEN {2} ELSE {1, 2}]

MCRequest(op, id, cart, n) == [op |-> op, id |-> id, cart |-> cart, quantity |-> n]

MCRequestList ==
    <<MCRequest("reserve", "r1", "a", 2), MCRequest("reserve", "r1", "a", 1),
      MCRequest("reserve", "r2", "b", 1), MCRequest("confirm", "r1", "a", 1),
      MCRequest("cancel", "r1", "a", 1), MCRequest("cancel", "r1", "b", 1),
      MCRequest("cleanup", "r1", "a", 1), MCRequest("restock", "r1", "a", 1)>>

MCStockRequests == Range(MCRequestList)

\* The calls are alike, so it does not matter which of them asks for what.
MCSorted ==
    \E i, j, k \in DOMAIN MCRequestList :
        /\ i <= j /\ j <= k
        /\ asked[c1] = MCRequestList[i]
        /\ asked[c2] = MCRequestList[j]
        /\ asked[c3] = MCRequestList[k]

\* No reservation yet, or one that runs out at 1.
MCFirstReserved ==
    {[id \in Ids |-> NoReservation],
     [id \in Ids |-> IF id = "r1" THEN [cart |-> "a", quantity |-> 1, expiresAt |-> 1, status |-> "active"]
                     ELSE NoReservation]}

VARIABLE part

MCInit ==
    /\ LockInit /\ LimitInit /\ LifeInit /\ StockInit
    /\ part \in {"locks", "stock", "limiter", "life"}
    /\ MCSorted
    /\ part # "stock" => asked[c1] = MCRequestList[8]

MCNext ==
    /\ \/ part = "locks" /\ LockNext /\ UNCHANGED <<stockVars, limitVars, lifeVars>>
       \/ part = "stock" /\ StockNext /\ UNCHANGED <<lockVars, limitVars, lifeVars>>
       \/ part = "limiter" /\ LimitNext /\ UNCHANGED <<lockVars, stockVars, lifeVars>>
       \/ part = "life" /\ LifeNext /\ UNCHANGED <<lockVars, stockVars, limitVars>>
    /\ UNCHANGED part

MCSpec == MCInit /\ [][MCNext]_<<lockVars, stockVars, limitVars, lifeVars, part>> /\ LifeFairness
=============================================================================
