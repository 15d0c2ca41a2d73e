------------------------------- MODULE Orders -------------------------------
(***************************************************************************)
(* Orders and the stock they hold: OrderService.createOrder and            *)
(* cancelOrder, the reservation cleanup job, the conditional updates of    *)
(* the inventory repository and the seller's absolute stock update, all    *)
(* running concurrently against one MongoDB replica set.                   *)
(*                                                                         *)
(* An order document, its reservationId and the createOrder call that      *)
(* made them are one to one (the call draws a fresh id before it locks),   *)
(* so all three are named by the call.  An inventory document is named by  *)
(* its product.                                                            *)
(*                                                                         *)
(* A MongoDB transaction reads its snapshot in the step that begins it and *)
(* buffers its writes until it commits.  missed[t] holds the documents     *)
(* that others committed since t took its snapshot: a write to one of      *)
(* them, or to a document another open transaction has written, is a       *)
(* WriteConflict, on which withTransaction runs the callback again.  A     *)
(* write outside a transaction waits for the writer of its document.       *)
(* A document t may write is therefore the same in its snapshot and in     *)
(* the database, and no copy of the snapshot is kept.                      *)
(*                                                                         *)
(* The Redis locks around createOrder expire after three seconds, however  *)
(* long the transaction takes, so nothing here relies on them: a busy lock *)
(* ends a call (RejectOrder), a held one excludes nobody.                  *)
(***************************************************************************)
EXTENDS Integers, FiniteSets

CONSTANTS
    Products,       \* inventory documents, numbered in productId order
    Calls,          \* createOrder calls
    Cancellers,     \* cancelOrder calls
    Workers,        \* server processes running the cleanup job
    Requests,       \* (accountId, requestId) pairs
    Hashes,         \* requestHash: fingerprints of a checkout's content
    RequestOf,      \* the request a call carries
    HashOf,         \* the hash of the content it carries
    Quantity,       \* Quantity[c][p]: units of p in c's checkout, 0 if none
    InitialStock,   \* inven_stock of each product when the system starts
    StockLevels,    \* the stock values a seller may write
    TTL,            \* RESERVATION_TTL_MS, in ticks
    BatchSize,      \* EXPIRE_BATCH_SIZE
    MaxTime,        \* bound: the clock stops here
    MaxFaults,      \* bound: crashes and unexpected errors
    MaxSellerUpdates, \* bound: stock overwrites by sellers
    NoOrder         \* no order document

ASSUME OrdersAssumption ==
    /\ Products \subseteq Nat
    /\ IsFiniteSet(Products)
    /\ IsFiniteSet(Calls)
    /\ IsFiniteSet(Workers)
    /\ Calls \cap Cancellers = {}
    /\ Calls \cap Products = {}
    /\ Calls \cap {"none", "rejected"} = {}
    /\ RequestOf \in [Calls -> Requests]
    /\ HashOf \in [Calls -> Hashes]
    /\ Quantity \in [Calls -> [Products -> Nat]]
    /\ InitialStock \in [Products -> Nat]
    /\ StockLevels \subseteq Nat
    /\ TTL \in Nat \ {0}
    /\ BatchSize \in Nat \ {0}
    /\ MaxTime \in Nat
    /\ MaxFaults \in Nat
    /\ MaxSellerUpdates \in Nat
    /\ NoOrder \notin Calls

VARIABLES
    now,            \* the clock every process reads
    stock,          \* inven_stock
    reservation,    \* reservation[p][o]: status of o's reservation of p
    status,         \* status[o] of the order document
    expiresAt,      \* expiresAt of o and of its reservations
    pc,             \* control point of each createOrder and cancelOrder call
    order,          \* the order a cancelOrder call names
    todo,           \* inventory documents its transaction still has to write
    wrote,          \* inventory documents its transaction has written
    missed,         \* documents committed by others since its snapshot
    verdict,        \* the order status its transaction will commit
    wasPending,     \* cancelOrder's transitioned flag
    placed,         \* whether createOrder's local variable placed is set
    result,         \* the order a createOrder call answers with
    job,            \* the cleanup pass of each worker
    inbox,          \* notifications stored for the buyer of each order
    faults,         \* crashes and errors so far
    sellerUpdates,  \* stock overwrites so far
    supplied        \* ghost: units sellers have put in, net of overwrites

db     == <<stock, reservation, status>>
intent == <<order, expiresAt, verdict, wasPending, placed>>
writes == <<todo, wrote, missed>>
env    == <<now, faults, sellerUpdates, supplied>>
vars   == <<db, intent, writes, pc, result, job, inbox, env>>

Actors == Calls \cup Cancellers
Docs   == Products \cup Calls

ReservationStatuses == {"none", "active", "cancelled", "expired"}
OrderStatuses == {"none", "pending_payment", "cancelled", "expired"}
PcStates == {"start", "begin", "write", "saved", "notify", "done"}
JobPhases == {"idle", "inventory", "orders"}
Types == {"order_placed", "order_cancelled", "order_expired"}

Items(c) == {p \in Products : Quantity[c][p] > 0}
Due(o)   == expiresAt[o] <= now
Placed(o) == status[o] # "none"
Pending(o) == status[o] = "pending_payment"

\* Transactions ------------------------------------------------------------

InTransaction(t) == pc[t] \in {"write", "saved"}

\* An open transaction other than t has an uncommitted write of document d.
WrittenByOther(t, d) ==
    \E u \in Actors \ {t} :
        \/ d \in wrote[u]
        \/ pc[u] = "saved" /\ d = order[u]

MayWrite(t, d) == d \notin missed[t] /\ ~WrittenByOther(t, d)

\* A write outside a transaction waits while a transaction holds d.
Unlocked(d) ==
    \A u \in Actors : d \notin wrote[u] /\ ~(pc[u] = "saved" /\ d = order[u])

\* The documents D changed in the database: open transactions have missed them.
Publish(D) ==
    [u \in Actors |-> IF InTransaction(u) THEN missed[u] \cup D ELSE missed[u]]

\* t's transaction is over, leaving the documents D changed, and t goes on at
\* control point next.
Close(t, next, D) ==
    /\ pc' = [pc EXCEPT ![t] = next]
    /\ todo' = [todo EXCEPT ![t] = {}]
    /\ wrote' = [wrote EXCEPT ![t] = {}]
    /\ missed' = [Publish(D) EXCEPT ![t] = {}]

-----------------------------------------------------------------------------
Init ==
    /\ now = 0
    /\ stock = InitialStock
    /\ reservation = [p \in Products |-> [o \in Calls |-> "none"]]
    /\ status = [o \in Calls |-> "none"]
    /\ expiresAt = [o \in Calls |-> 0]
    /\ pc = [t \in Actors |-> "start"]
    /\ order = [t \in Actors |-> IF t \in Calls THEN t ELSE NoOrder]
    /\ todo = [t \in Actors |-> {}]
    /\ wrote = [t \in Actors |-> {}]
    /\ missed = [t \in Actors |-> {}]
    /\ verdict = [t \in Actors |-> "none"]
    /\ wasPending = [t \in Actors |-> FALSE]
    /\ placed = [c \in Calls |-> FALSE]
    /\ result = [c \in Calls |-> "none"]
    /\ job = [w \in Workers |-> [phase |-> "idle", cutoff |-> 0, queue |-> {},
                                 due |-> {}, more |-> FALSE, expired |-> {}]]
    /\ inbox = [o \in Calls |-> [type \in Types |-> 0]]
    /\ faults = 0
    /\ sellerUpdates = 0
    /\ supplied = InitialStock

-----------------------------------------------------------------------------
(* createOrder *)

Existing(c) == {d \in Calls : Placed(d) /\ RequestOf[d] = RequestOf[c]}

\* toIdempotentResult
Answer(c, d) == IF HashOf[d] = HashOf[c] THEN d ELSE "rejected"

\* reserveInventoryStock's filter on inven_stock, and reviewCheckout's check.
EnoughStock(c, p) == stock[p] >= Quantity[c][p]

\* The part of reviewCheckout that reads the inventory.
Sufficient(c) == \A p \in Items(c) : EnoughStock(c, p)

\* Mutant: no unique index.
KeyNeverTaken(c) == FALSE

\* The unique index on (accountId, requestId) already has c's key: committed
\* since c's snapshot, or inserted by an open transaction.
KeyTaken(c) ==
    \E d \in Calls \ {c} :
        RequestOf[d] = RequestOf[c] /\ (d \in missed[c] \/ pc[d] = "saved")

\* The look-up before any lock is taken finds no order.
FindPrevious(c) ==
    /\ pc[c] = "start"
    /\ Existing(c) = {}
    /\ pc' = [pc EXCEPT ![c] = "begin"]
    /\ UNCHANGED <<db, intent, writes, result, job, inbox, env>>

\* Mutant: a run of the callback starts with what the last one left.
LeftPlaced(c) == placed[c]

\* placed, when a run of the callback starts.
PlacedAtStart(c) == FALSE

\* That look-up, or the one in the transaction, finds the order of an earlier
\* call with this request.
AnswerExisting(c) ==
    /\ pc[c] \in {"start", "begin"}
    /\ \E d \in Existing(c) : result' = [result EXCEPT ![c] = Answer(c, d)]
    /\ placed' = [placed EXCEPT ![c] = PlacedAtStart(c)]
    /\ pc' = [pc EXCEPT ![c] = IF PlacedAtStart(c) THEN "notify" ELSE "done"]
    /\ UNCHANGED <<db, order, expiresAt, verdict, wasPending, writes, job, inbox,
                   env>>

\* The transaction's snapshot reads: no order has the request yet and the
\* checkout passes review.  expiresAt[c] is what c stamps on its documents.
BeginOrder(c) ==
    /\ pc[c] = "begin"
    /\ Existing(c) = {}
    /\ Sufficient(c)
    /\ pc' = [pc EXCEPT ![c] = "write"]
    /\ todo' = [todo EXCEPT ![c] = Items(c)]
    /\ expiresAt' = [expiresAt EXCEPT ![c] = now + TTL]
    /\ placed' = [placed EXCEPT ![c] = PlacedAtStart(c)]
    /\ UNCHANGED <<db, order, verdict, wasPending, wrote, missed, result, job,
                   inbox, env>>

\* A lock is busy, or the checkout fails a check: purchasable products, active
\* sellers, cart, stock, totals.  All but the stock are outside this module and
\* may fail at any time.
RejectOrder(c) ==
    /\ pc[c] = "begin"
    /\ pc' = [pc EXCEPT ![c] = "done"]
    /\ result' = [result EXCEPT ![c] = "rejected"]
    /\ UNCHANGED <<db, intent, writes, job, inbox, env>>

\* Mutant: the update neither runs in the session nor looks at inven_stock again.
ReserveReviewed(c, p) ==
    /\ pc[c] = "write"
    /\ p \in todo[c]
    /\ \A q \in todo[c] : p <= q
    /\ ~WrittenByOther(c, p)
    /\ todo' = [todo EXCEPT ![c] = @ \ {p}]
    /\ wrote' = [wrote EXCEPT ![c] = @ \cup {p}]
    /\ UNCHANGED <<db, intent, missed, pc, result, job, inbox, env>>

\* reserveInventoryStock for the next item in productId order.  Its retry
\* branches need a reservation with c's fresh id and are never taken here.
ReserveItem(c, p) ==
    /\ pc[c] = "write"
    /\ p \in todo[c]
    /\ \A q \in todo[c] : p <= q
    /\ MayWrite(c, p)
    /\ EnoughStock(c, p)
    /\ reservation[p][c] = "none"
    /\ todo' = [todo EXCEPT ![c] = @ \ {p}]
    /\ wrote' = [wrote EXCEPT ![c] = @ \cup {p}]
    /\ UNCHANGED <<db, intent, missed, pc, result, job, inbox, env>>

\* OrderModel.create
InsertOrder(c) ==
    /\ pc[c] = "write"
    /\ todo[c] = {}
    /\ ~KeyTaken(c)
    /\ pc' = [pc EXCEPT ![c] = "saved"]
    /\ placed' = [placed EXCEPT ![c] = TRUE]
    /\ UNCHANGED <<db, order, expiresAt, verdict, wasPending, writes, result, job,
                   inbox, env>>

\* The insert lost the race for the request: the callback's error ends the
\* transaction and the catch block reads the winner's order.
DuplicateKey(c) ==
    /\ pc[c] = "write"
    /\ todo[c] = {}
    /\ \E d \in missed[c] \cap Existing(c) :
        result' = [result EXCEPT ![c] = Answer(c, d)]
    /\ Close(c, "done", {})
    /\ UNCHANGED <<db, intent, job, inbox, env>>

CommitOrder(c) ==
    /\ pc[c] = "saved"
    /\ stock' = [p \in Products |->
                    IF p \in wrote[c] THEN stock[p] - Quantity[c][p]
                                      ELSE stock[p]]
    /\ reservation' = [p \in Products |->
                          IF p \in wrote[c]
                          THEN [reservation[p] EXCEPT ![c] = "active"]
                          ELSE reservation[p]]
    /\ status' = [status EXCEPT ![c] = "pending_payment"]
    /\ result' = [result EXCEPT ![c] = c]
    /\ Close(c, "notify", wrote[c] \cup {c})
    /\ UNCHANGED <<intent, job, inbox, env>>

\* Best effort: a notification that cannot be stored is only logged.
NotifyPlaced(c) ==
    /\ pc[c] = "notify"
    /\ \/ inbox' = [inbox EXCEPT ![c]["order_placed"] = @ + 1]
       \/ UNCHANGED inbox
    /\ pc' = [pc EXCEPT ![c] = "done"]
    /\ UNCHANGED <<db, intent, writes, result, job, env>>

-----------------------------------------------------------------------------
(* cancelOrder *)

\* Mutant: the filter does not ask for status "active".
MatchesAny(p, o) == reservation[p][o] # "none"

\* finishReservation's condition on the reservation it restores.
MatchesActive(p, o) == reservation[p][o] = "active"

\* Mutant: the status of an overdue order is left as it is.
KeepsOverdueStatus(o) == IF Due(o) THEN status[o] ELSE "cancelled"
\* Mutant: the expiry is not looked at.
AlwaysCancelled(o) == "cancelled"

Verdict(o) == IF Due(o) THEN "expired" ELSE "cancelled"

\* Mutant: an order the job expired is announced again.
AlwaysTransitions(o) == TRUE

Transitions(o) == Pending(o)

\* Mutant: one message for every end.
CancelledNotice(x) == "order_cancelled"

EndNotice(x) == IF verdict[x] = "expired" THEN "order_expired"
                                          ELSE "order_cancelled"

\* The transaction's reads: the order and its reservations.  A reservation
\* already cancelled or expired is done and needs no write.
BeginCancel(x, o) ==
    /\ pc[x] \in {"start", "begin"}
    /\ order[x] \in {NoOrder, o}
    /\ status[o] \in {"pending_payment", "expired"}
    /\ pc' = [pc EXCEPT ![x] = "write"]
    /\ order' = [order EXCEPT ![x] = o]
    /\ todo' = [todo EXCEPT ![x] =
                   {p \in Items(o) : MatchesActive(p, o)}]
    /\ verdict' = [verdict EXCEPT ![x] = Verdict(o)]
    /\ wasPending' = [wasPending EXCEPT ![x] = Transitions(o)]
    /\ UNCHANGED <<db, expiresAt, placed, wrote, missed, result, job, inbox, env>>

\* The order does not exist (404) or is already cancelled (returned as is).
NothingToCancel(x, o) ==
    /\ pc[x] \in {"start", "begin"}
    /\ order[x] \in {NoOrder, o}
    /\ status[o] \in {"none", "cancelled"}
    /\ pc' = [pc EXCEPT ![x] = "done"]
    /\ UNCHANGED <<db, intent, writes, result, job, inbox, env>>

\* cancelReservationInventory in the session.
ReleaseItem(x, p) ==
    /\ pc[x] = "write"
    /\ p \in todo[x]
    /\ MayWrite(x, p)
    /\ MatchesActive(p, order[x])
    /\ todo' = [todo EXCEPT ![x] = @ \ {p}]
    /\ wrote' = [wrote EXCEPT ![x] = @ \cup {p}]
    /\ UNCHANGED <<db, intent, missed, pc, result, job, inbox, env>>

\* order.save
SaveOrder(x) ==
    /\ pc[x] = "write"
    /\ todo[x] = {}
    /\ MayWrite(x, order[x])
    /\ pc' = [pc EXCEPT ![x] = "saved"]
    /\ UNCHANGED <<db, intent, writes, result, job, inbox, env>>

CommitCancel(x) ==
    LET o == order[x] IN
    /\ pc[x] = "saved"
    /\ stock' = [p \in Products |->
                    IF p \in wrote[x] THEN stock[p] + Quantity[o][p]
                                      ELSE stock[p]]
    /\ reservation' = [p \in Products |->
                          IF p \in wrote[x]
                          THEN [reservation[p] EXCEPT ![o] = "cancelled"]
                          ELSE reservation[p]]
    /\ status' = [status EXCEPT ![o] = verdict[x]]
    /\ Close(x, IF wasPending[x] THEN "notify" ELSE "done", wrote[x] \cup {o})
    /\ UNCHANGED <<intent, result, job, inbox, env>>

NotifyEnded(x) ==
    /\ pc[x] = "notify"
    /\ \/ inbox' = [inbox EXCEPT ![order[x]][EndNotice(x)] = @ + 1]
       \/ UNCHANGED inbox
    /\ pc' = [pc EXCEPT ![x] = "done"]
    /\ UNCHANGED <<db, intent, writes, result, job, env>>

-----------------------------------------------------------------------------
(* Both kinds of call *)

\* The write t's callback comes to next meets a WriteConflict.
Blocked(t) ==
    \/ \E p \in todo[t] :
        /\ t \in Calls => \A q \in todo[t] : p <= q
        /\ ~MayWrite(t, p)
    \/ todo[t] = {} /\ t \in Calls /\ KeyTaken(t)
    \/ todo[t] = {} /\ t \in Cancellers /\ ~MayWrite(t, order[t])


\* withTransaction aborts and runs the callback again.
WriteConflict(t) ==
    /\ pc[t] = "write"
    /\ Blocked(t)
    /\ Close(t, "begin", {})
    /\ UNCHANGED <<db, intent, result, job, inbox, env>>

\* The commit fails with a TransientTransactionError: withTransaction runs the
\* callback again, after all of its writes.
CommitFails(t) ==
    /\ pc[t] = "saved"
    /\ faults < MaxFaults
    /\ faults' = faults + 1
    /\ Close(t, "begin", {})
    /\ UNCHANGED <<db, intent, result, job, now, inbox, sellerUpdates,
                   supplied>>

\* The process crashes, or an error other than those above ends the call: an
\* open transaction is aborted, a committed one is not notified.
CallFails(t) ==
    /\ pc[t] \in {"begin", "write", "saved", "notify"}
    /\ faults < MaxFaults
    /\ faults' = faults + 1
    /\ Close(t, "done", {})
    /\ UNCHANGED <<db, intent, result, job, now, inbox, sellerUpdates,
                   supplied>>

-----------------------------------------------------------------------------
(* The cleanup job: one pass at a time per worker *)

Least(m, n) == IF m <= n THEN m ELSE n

\* A query with limit(BatchSize) returns any BatchSize of the matches, or all.
Batches(S) == {B \in SUBSET S : Cardinality(B) = Least(Cardinality(S), BatchSize)}

\* Mutant: only pending orders are thought to hold stock.
DueWhilePending(p) ==
    {o \in Calls : reservation[p][o] = "active" /\ Due(o) /\ Pending(o)}

DueReservations(p) == {o \in Calls : reservation[p][o] = "active" /\ Due(o)}

\* expireInventoryReservations finds the inventories with a due reservation.
ScanInventories(w) ==
    /\ job[w].phase = "idle"
    /\ \E batch \in Batches({p \in Products : DueReservations(p) # {}}) :
        job' = [job EXCEPT
                  ![w].phase = "inventory",
                  ![w].queue = {r \in batch \X Calls : r[2] \in DueReservations(r[1])}]
    /\ UNCHANGED <<db, intent, writes, pc, result, inbox, env>>

\* finishReservation(.., "expired"), one conditional update.  Where the
\* reservation is no longer active the conflict is swallowed.
ExpireReservation(w, p, o) ==
    /\ <<p, o>> \in job[w].queue
    /\ job' = [job EXCEPT ![w].queue = @ \ {<<p, o>>}]
    /\ \/ /\ MatchesActive(p, o)
          /\ Due(o)
          /\ Unlocked(p)
          /\ reservation' = [reservation EXCEPT ![p][o] = "expired"]
          /\ stock' = [stock EXCEPT ![p] = @ + Quantity[o][p]]
          /\ missed' = Publish({p})
       \/ /\ ~MatchesActive(p, o)
          /\ UNCHANGED <<reservation, stock, missed>>
    /\ UNCHANGED <<status, intent, todo, wrote, pc, result, inbox, env>>

\* Mutant: orders are found by the stock they still hold.
DueHolders(cutoff) ==
    {o \in Calls : /\ Pending(o) /\ expiresAt[o] <= cutoff
                   /\ \E p \in Products : reservation[p][o] = "active"}

DueOrders(cutoff) == {o \in Calls : Pending(o) /\ expiresAt[o] <= cutoff}

\* The next batch of expirePendingOrders, due at its cutoff.
FindDueOrders(w, cutoff) ==
    \E batch \in Batches(DueOrders(cutoff)) :
        job' = [job EXCEPT ![w].phase = "orders",
                           ![w].cutoff = cutoff,
                           ![w].due = batch,
                           ![w].more = Cardinality(batch) = BatchSize]

ScanOrders(w) ==
    /\ job[w].phase = "inventory"
    /\ job[w].queue = {}
    /\ FindDueOrders(w, now)
    /\ UNCHANGED <<db, intent, writes, pc, result, inbox, env>>

RescanOrders(w) ==
    /\ job[w].phase = "orders"
    /\ job[w].due = {}
    /\ job[w].more
    /\ FindDueOrders(w, job[w].cutoff)
    /\ UNCHANGED <<db, intent, writes, pc, result, inbox, env>>

\* findOneAndUpdate: an order no longer pending is skipped.
ExpireOrder(w, o) ==
    /\ o \in job[w].due
    /\ \/ /\ Pending(o)
          /\ Unlocked(o)
          /\ status' = [status EXCEPT ![o] = "expired"]
          /\ missed' = Publish({o})
          /\ job' = [job EXCEPT ![w].due = @ \ {o},
                                ![w].expired = @ \cup {o}]
       \/ /\ ~Pending(o)
          /\ job' = [job EXCEPT ![w].due = @ \ {o}]
          /\ UNCHANGED <<status, missed>>
    /\ UNCHANGED <<stock, reservation, intent, todo, wrote, pc, result, inbox,
                   env>>

\* The pass ends: each notification is stored, or fails on its own.
NotifyExpired(w) ==
    /\ job[w].phase = "orders"
    /\ job[w].due = {}
    /\ ~job[w].more
    /\ \E sent \in SUBSET job[w].expired :
        inbox' = [o \in Calls |->
                    IF o \in sent
                    THEN [inbox[o] EXCEPT !["order_expired"] = @ + 1]
                    ELSE inbox[o]]
    /\ job' = [job EXCEPT ![w].phase = "idle", ![w].expired = {},
                          ![w].cutoff = 0]
    /\ UNCHANGED <<db, intent, writes, pc, result, env>>

\* The process crashes, or an error that is no conflict abandons the pass; the
\* next one starts from the database.
CleanupFails(w) ==
    /\ job[w].phase # "idle"
    /\ faults < MaxFaults
    /\ faults' = faults + 1
    /\ job' = [job EXCEPT ![w] = [phase |-> "idle", cutoff |-> 0, queue |-> {},
                                  due |-> {}, more |-> FALSE, expired |-> {}]]
    /\ UNCHANGED <<db, intent, writes, pc, result, now, inbox, sellerUpdates,
                   supplied>>

-----------------------------------------------------------------------------
(* The seller and the clock *)

\* ProductService.updateProduct writes inven_stock outside any transaction,
\* whatever it was.
SetInventoryStock(p, n) ==
    /\ sellerUpdates < MaxSellerUpdates
    /\ Unlocked(p)
    /\ stock[p] # n
    /\ stock' = [stock EXCEPT ![p] = n]
    /\ supplied' = [supplied EXCEPT ![p] = @ + n - stock[p]]
    /\ missed' = Publish({p})
    /\ sellerUpdates' = sellerUpdates + 1
    /\ UNCHANGED <<reservation, status, intent, todo, wrote, pc, result, job,
                   now, inbox, faults>>

Tick ==
    /\ now < MaxTime
    /\ now' = now + 1
    /\ UNCHANGED <<db, intent, writes, pc, result, job, inbox, faults,
                   sellerUpdates, supplied>>

-----------------------------------------------------------------------------
CreateStep(c) ==
    \/ FindPrevious(c)
    \/ BeginOrder(c)
    \/ AnswerExisting(c)
    \/ RejectOrder(c)
    \/ \E p \in Products : ReserveItem(c, p)
    \/ InsertOrder(c)
    \/ DuplicateKey(c)
    \/ CommitOrder(c)
    \/ NotifyPlaced(c)
    \/ WriteConflict(c)

CancelStep(x) ==
    \/ \E o \in Calls : BeginCancel(x, o) \/ NothingToCancel(x, o)
    \/ \E p \in Products : ReleaseItem(x, p)
    \/ SaveOrder(x)
    \/ CommitCancel(x)
    \/ NotifyEnded(x)
    \/ WriteConflict(x)

CleanupStep(w) ==
    \/ ScanInventories(w)
    \/ \E p \in Products, o \in Calls : ExpireReservation(w, p, o)
    \/ ScanOrders(w)
    \/ RescanOrders(w)
    \/ \E o \in Calls : ExpireOrder(w, o)
    \/ NotifyExpired(w)

Next ==
    \/ \E c \in Calls : CreateStep(c)
    \/ \E x \in Cancellers : CancelStep(x)
    \/ \E t \in Actors : CommitFails(t) \/ CallFails(t)
    \/ \E w \in Workers : CleanupStep(w) \/ CleanupFails(w)
    \/ \E p \in Products, n \in StockLevels : SetInventoryStock(p, n)
    \/ Tick

Spec == Init /\ [][Next]_vars

\* Time passes, setInterval starts a pass whenever none is running, and a call
\* that was started goes on while its process lives.
Fairness ==
    /\ WF_vars(Tick)
    /\ \A c \in Calls : WF_vars(pc[c] # "start" /\ CreateStep(c))
    /\ \A x \in Cancellers : WF_vars(pc[x] # "start" /\ CancelStep(x))
    /\ \A w \in Workers : WF_vars(CleanupStep(w))

FairSpec == Spec /\ Fairness

-----------------------------------------------------------------------------
(* Properties *)

TypeOK ==
    /\ now \in Nat
    /\ stock \in [Products -> Int]
    /\ reservation \in [Products -> [Calls -> ReservationStatuses]]
    /\ status \in [Calls -> OrderStatuses]
    /\ expiresAt \in [Calls -> Nat]
    /\ pc \in [Actors -> PcStates]
    /\ order \in [Actors -> Calls \cup {NoOrder}]
    /\ todo \in [Actors -> SUBSET Products]
    /\ wrote \in [Actors -> SUBSET Products]
    /\ missed \in [Actors -> SUBSET Docs]
    /\ verdict \in [Actors -> {"none", "cancelled", "expired"}]
    /\ wasPending \in [Actors -> BOOLEAN]
    /\ placed \in [Calls -> BOOLEAN]
    /\ result \in [Calls -> Calls \cup {"none", "rejected"}]
    /\ job \in [Workers -> [phase : JobPhases, cutoff : Nat,
                            queue : SUBSET (Products \X Calls),
                            due : SUBSET Calls, more : BOOLEAN,
                            expired : SUBSET Calls]]
    /\ inbox \in [Calls -> [Types -> Nat]]
    /\ faults \in Nat
    /\ sellerUpdates \in Nat
    /\ supplied \in [Products -> Int]

\* The units of p in the orders A, each named apart.
Units(p, A) ==
    {u \in A \X UNION {1..Quantity[o][p] : o \in Calls} :
        u[2] <= Quantity[u[1]][p]}

Holders(p) == {o \in Calls : reservation[p][o] = "active"}

\* No unit is created or lost: whatever calls, cancellations, expiries and
\* retries interleave, what is for sale and what active reservations hold add
\* up to what the seller supplied (inventory.repo.ts: terminal records are
\* retained so retries never decrement or restore stock twice).
StockConserved ==
    \A p \in Products : stock[p] + Cardinality(Units(p, Holders(p))) = supplied[p]

\* Concurrent orders never take more units than there are.
NoOversell == \A p \in Products : stock[p] >= 0

\* However calls that carry one request race, at most one order has that
\* request, and a call is only ever answered with an order of its own request
\* and its own content.
IdempotentCreate ==
    /\ \A c, d \in Calls :
        Placed(c) /\ Placed(d) /\ RequestOf[c] = RequestOf[d] => c = d
    /\ \A c \in Calls : result[c] \in Calls =>
        LET d == result[c] IN
        Placed(d) /\ RequestOf[d] = RequestOf[c] /\ HashOf[d] = HashOf[c]

\* An order and the reservations of its items appear together; while the order
\* is pending it holds every item, or it is due and the job got there first.
PendingHoldsItems ==
    \A o \in Calls : \A p \in Products :
        /\ reservation[p][o] # "none" <=> Placed(o) /\ p \in Items(o)
        /\ Pending(o) /\ p \in Items(o) =>
              \/ reservation[p][o] = "active"
              \/ reservation[p][o] = "expired" /\ Due(o)

\* An order is cancelled whole: each of its reservations was cancelled with
\* it, none by the job and none left holding stock.
CancelledWhole ==
    \A o \in Calls : status[o] = "cancelled" =>
        \A p \in Items(o) : reservation[p][o] = "cancelled"

\* The buyer hears at most once that an order was placed and at most once that
\* it ended, whichever of the canceller and the workers ended it.
NotifiedOnce ==
    \A o \in Calls :
        /\ inbox[o]["order_placed"] <= 1
        /\ inbox[o]["order_cancelled"] + inbox[o]["order_expired"] <= 1

\* No ghost notification: what the buyer was told is what was committed.
NotifiedTruth ==
    \A o \in Calls :
        /\ inbox[o]["order_placed"] > 0 => Placed(o)
        /\ inbox[o]["order_cancelled"] > 0 => status[o] = "cancelled"
        /\ inbox[o]["order_expired"] > 0 => status[o] = "expired"

\* A step never takes an order or a reservation out of a terminal status.
TerminalStays ==
    [][\A o \in Calls :
        /\ status[o] \in {"cancelled", "expired"} => status'[o] = status[o]
        /\ \A p \in Products :
            reservation[p][o] \in {"cancelled", "expired"} =>
                reservation'[p][o] = reservation[p][o]]_vars

\* The order_expired message says "its items were released"
\* (notification.service.ts): the buyer who has it has nothing held any more.
ExpiredNoticeMeansReleased ==
    \A o \in Calls : inbox[o]["order_expired"] > 0 =>
        \A p \in Products : reservation[p][o] # "active"

\* Every pending order that is due ends.
DueOrderEnds == \A o \in Calls : Pending(o) /\ Due(o) ~> ~Pending(o)

\* Every reservation that is due gives its stock back, the batch limit, the
\* crashes and the open transactions notwithstanding.
DueStockReturns ==
    \A p \in Products, o \in Calls :
        reservation[p][o] = "active" /\ Due(o) ~> reservation[p][o] # "active"

=============================================================================
