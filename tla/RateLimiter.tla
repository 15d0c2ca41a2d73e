---------------------------- MODULE RateLimiter ----------------------------
(***************************************************************************)
(* createRateLimiter: fixed windows counted per key in a Map of the        *)
(* process, pruned when it grows past its limit.  A Map keeps the order in *)
(* which its keys were first set; setting a key again leaves it in place.  *)
(***************************************************************************)
EXTENDS Naturals, FiniteSets, FiniteSetsExt, Functions, Sequences

CONSTANTS
    LimitKeys,      \* values of keyGenerator
    Window,         \* windowMs, in ticks
    Limit,          \* max
    TableLimit,     \* entries the table keeps: 10,000
    LimitMaxTime,   \* bound on the clock
    LimitMaxHits    \* bound on requests

ASSUME LimiterAssumption ==
    /\ Window \in Nat \ {0}
    /\ Limit \in Nat \ {0}
    /\ TableLimit \in Nat \ {0}
    /\ LimitMaxTime \in Nat
    /\ LimitMaxHits \in Nat

VARIABLES
    limitNow,
    table,          \* the Map: the entry of each key it has
    answers,        \* properties only: for each key, the requests answered so far
    evicted         \* properties only: keys that lost a window that was not over

limitVars == <<limitNow, table, answers, evicted>>

LimitInit ==
    /\ limitNow = 0
    /\ table = [k \in {} |-> 0]
    /\ answers = [k \in LimitKeys |-> <<>>]
    /\ evicted = {}

\* Where the Map keeps the key: entries.keys() yields them by place.
Place(k) ==
    IF k \in DOMAIN table THEN table[k].place
    ELSE 1 + Max({0} \cup {table[x].place : x \in DOMAIN table})

\* The key has a window that is not over.
Running(k) == k \in DOMAIN table /\ table[k].resetAt > limitNow

\* Mutant: every request starts the window anew.
SlidingEntry(k) ==
    [count   |-> IF Running(k) THEN table[k].count + 1 ELSE 1,
     resetAt |-> limitNow + Window,
     place   |-> Place(k)]

\* The entry for the request: one more in the current window, or a new one.
Entry(k) ==
    [count   |-> IF Running(k) THEN table[k].count + 1 ELSE 1,
     resetAt |-> IF Running(k) THEN table[k].resetAt ELSE limitNow + Window,
     place   |-> Place(k)]

\* entries.set
Put(k) == [x \in DOMAIN table \cup {k} |-> IF x = k THEN Entry(k) ELSE table[x]]

Unexpired(entries) == {x \in DOMAIN entries : entries[x].resetAt > limitNow}

\* Past the limit the expired entries go, then the oldest ones.
Kept(entries) ==
    IF Cardinality(DOMAIN entries) <= TableLimit THEN DOMAIN entries
    ELSE {x \in Unexpired(entries) :
            Cardinality({y \in Unexpired(entries) : entries[y].place > entries[x].place}) < TableLimit}

Pruned(entries) == Restrict(entries, Kept(entries))

\* The answer, with RateLimit-Reset.
Answer(k) == [at |-> limitNow, admitted |-> Entry(k).count <= Limit, reset |-> Entry(k).resetAt]

Hit(k) ==
    /\ MapThenSumSet(LAMBDA key : Len(answers[key]), LimitKeys) < LimitMaxHits
    /\ table' = Pruned(Put(k))
    /\ answers' = [answers EXCEPT ![k] = Append(@, Answer(k))]
    /\ evicted' = evicted \cup (Unexpired(Put(k)) \ Kept(Put(k)))
    /\ UNCHANGED limitNow

LimitTick ==
    /\ limitNow < LimitMaxTime
    /\ limitNow' = limitNow + 1
    /\ UNCHANGED <<table, answers, evicted>>

LimitNext == LimitTick \/ \E k \in LimitKeys : Hit(k)
LimitSpec == LimitInit /\ [][LimitNext]_limitVars

-----------------------------------------------------------------------------
(* Properties *)

\* No key gets more than 2 * Limit requests through in any span of one window, the
\* bound that fixed windows give at their boundary, unless the table was full and
\* dropped its count.
LimitHolds ==
    \A k \in LimitKeys \ evicted : \A i \in 1..Len(answers[k]) :
        Cardinality({j \in i..Len(answers[k]) : /\ answers[k][j].admitted
                                                /\ answers[k][j].at < answers[k][i].at + Window})
            <= 2 * Limit

\* A request is refused only if its key got Limit requests through less than one
\* window ago: no count outlives its window.
RefusalEarned ==
    \A k \in LimitKeys : \A i \in 1..Len(answers[k]) :
        ~answers[k][i].admitted =>
            Cardinality({j \in 1..i : /\ answers[k][j].admitted
                                      /\ answers[k][i].at < answers[k][j].at + Window}) >= Limit

\* Both: the limiter neither lets through more nor refuses more than it says.
LimiterExact == LimitHolds /\ RefusalEarned
=============================================================================
