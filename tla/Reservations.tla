---------------------------- MODULE Reservations ----------------------------
(***************************************************************************)
(* The reservations of one inventory outside any transaction: reserving    *)
(* with an id that a retry uses again, confirming, cancelling, the cleanup *)
(* pass, and the seller who sets the stock.  Each of them is a few round   *)
(* trips to the database, and every call may stop between two of them or   *)
(* lose the answer of one, be sent again, and interleave with the others.  *)
(*                                                                         *)
(* reserveInventory also holds a short Redis lock, which expires: nothing  *)
(* here depends on it.                                                     *)
(***************************************************************************)
EXTENDS Naturals

CONSTANTS
    StockCalls,
    Ids,            \* reservation ids
    StockRequests,  \* what calls may ask for
    FirstStock,
    FirstReserved,  \* the reservations there may be at first
    HoldTime,       \* RESERVATION_TTL_MS, in ticks
    StockMaxTime,   \* bound on the clock
    StockMaxFaults, \* bound on crashes and lost answers
    NoReservation

Terminal == {"confirmed", "cancelled", "expired"}

ReservationType ==
    [cart : STRING, quantity : Nat \ {0}, expiresAt : Nat, status : {"active"} \cup Terminal]

ASSUME StockAssumption ==
    /\ StockRequests \subseteq [op : {"reserve", "confirm", "cancel", "cleanup", "restock"},
                                id : Ids, cart : STRING, quantity : Nat]
    /\ \A r \in StockRequests : r.op # "restock" => r.quantity > 0
    /\ FirstStock \in Nat
    /\ FirstReserved \subseteq [Ids -> ReservationType \cup {NoReservation}]
    /\ HoldTime \in Nat
    /\ StockMaxTime \in Nat
    /\ StockMaxFaults \in Nat
    /\ NoReservation \notin ReservationType

VARIABLES
    stockNow,
    stock,          \* inven_stock
    reservations,   \* inven_reservations: of each id, or NoReservation
    asked,          \* what each call asks for
    stockPc,        \* its control point
    todo,           \* ids it has still to finish
    at,             \* the id it is finishing
    found,          \* the reservation findReservation returned
    began,          \* its const now
    stockReply,     \* its answer
    stockFaults

inventory == <<stock, reservations>>
locals    == <<stockPc, todo, at, found, began>>
stockVars == <<stockNow, inventory, asked, locals, stockReply, stockFaults>>

StockInit ==
    /\ stockNow = 0
    /\ stock = FirstStock
    /\ reservations \in FirstReserved
    /\ asked \in [StockCalls -> StockRequests]
    /\ stockPc = [c \in StockCalls |-> "idle"]
    /\ todo = [c \in StockCalls |-> {asked[c].id}]
    /\ at = [c \in StockCalls |-> asked[c].id]
    /\ found = [c \in StockCalls |-> NoReservation]
    /\ began = [c \in StockCalls |-> 0]
    /\ stockReply = [c \in StockCalls |-> "none"]
    /\ stockFaults = 0

-----------------------------------------------------------------------------
Stored(id) == reservations[id] # NoReservation

StockGoto(c, point) == stockPc' = [stockPc EXCEPT ![c] = point]

StockAnswer(c, answer) ==
    /\ StockGoto(c, "over")
    /\ stockReply' = [stockReply EXCEPT ![c] = answer]

-----------------------------------------------------------------------------
(* reserveInventoryStock *)

StartReserve(c) ==
    /\ stockPc[c] = "idle"
    /\ asked[c].op = "reserve"
    /\ StockGoto(c, "reserve")
    /\ began' = [began EXCEPT ![c] = stockNow]
    /\ UNCHANGED <<stockNow, inventory, asked, todo, at, found, stockReply, stockFaults>>

\* The filter of the conditional update.
MayReserve(c) == asked[c].quantity <= stock /\ ~Stored(asked[c].id)

PushReservation(c) ==
    /\ stock' = stock - asked[c].quantity
    /\ reservations' =
        [reservations EXCEPT ![asked[c].id] =
            [cart |-> asked[c].cart, quantity |-> asked[c].quantity,
             expiresAt |-> began[c] + HoldTime, status |-> "active"]]

Reserve(c) ==
    /\ stockPc[c] = "reserve"
    /\ IF MayReserve(c) THEN PushReservation(c) /\ StockAnswer(c, "ok")
       ELSE StockGoto(c, "existing") /\ UNCHANGED <<inventory, stockReply>>
    /\ UNCHANGED <<stockNow, asked, todo, at, found, began, stockFaults>>

\* A retry gets the reservation it made, as long as it was running at const now.
SameReservation(c) ==
    LET existing == reservations[asked[c].id] IN
    /\ Stored(asked[c].id)
    /\ existing.cart = asked[c].cart
    /\ existing.quantity = asked[c].quantity
    /\ \/ existing.status = "active" /\ existing.expiresAt > began[c]
       \/ existing.status = "confirmed"

ReadExisting(c) ==
    /\ stockPc[c] = "existing"
    /\ StockAnswer(c, IF SameReservation(c) THEN "ok" ELSE "refused")
    /\ UNCHANGED <<stockNow, inventory, asked, todo, at, found, began, stockFaults>>

-----------------------------------------------------------------------------
(* finishReservation *)

Outcome(c) ==
    CASE asked[c].op = "confirm" -> "confirmed"
      [] asked[c].op = "cancel"  -> "cancelled"
      [] asked[c].op = "cleanup" -> "expired"

\* A cancel request on an already expired reservation is treated as done.
IsAlreadyFinished(current, target) ==
    current = target \/ (target = "cancelled" /\ current = "expired")

\* One reservation is dealt with: the cleanup goes on, whatever came of it.
Conclude(c, answer) ==
    /\ todo' = [todo EXCEPT ![c] = @ \ {at'[c]}]
    /\ IF asked[c].op = "cleanup" THEN StockGoto(c, "find") /\ UNCHANGED stockReply
       ELSE StockAnswer(c, answer)

\* The cleanup passes the cart it has read, so it is always the right one.
OwnCart(c, id) == asked[c].op = "cleanup" \/ reservations[id].cart = asked[c].cart

FindReservation(c, id) ==
    LET existing == reservations[id] IN
    /\ \/ stockPc[c] = "idle" /\ asked[c].op \in {"confirm", "cancel"}
       \/ stockPc[c] = "find"
    /\ id \in todo[c]
    /\ at' = [at EXCEPT ![c] = id]
    /\ IF ~Stored(id) \/ ~OwnCart(c, id)
       THEN Conclude(c, "refused") /\ UNCHANGED <<found, began>>
       ELSE IF existing.status # "active"
       THEN /\ Conclude(c, IF IsAlreadyFinished(existing.status, Outcome(c)) THEN "ok" ELSE "refused")
            /\ UNCHANGED <<found, began>>
       ELSE /\ StockGoto(c, "write")
            /\ found' = [found EXCEPT ![c] = existing]
            /\ began' = [began EXCEPT ![c] = stockNow]
            /\ UNCHANGED <<todo, stockReply>>
    /\ UNCHANGED <<stockNow, inventory, asked, stockFaults>>

\* Confirmation before expiry, expiry after it, by const now.
InTime(c) ==
    CASE asked[c].op = "confirm" -> found[c].expiresAt > began[c]
      [] asked[c].op = "cancel"  -> TRUE
      [] asked[c].op = "cleanup" -> found[c].expiresAt <= began[c]

\* Mutant: the filter of the update does not ask for the status.
MatchesAnyStatus(c) ==
    LET current == reservations[at[c]] IN
    /\ Stored(at[c])
    /\ current.cart = found[c].cart /\ current.quantity = found[c].quantity
    /\ InTime(c)

\* $elemMatch
MatchesFound(c) ==
    LET current == reservations[at[c]] IN
    /\ Stored(at[c])
    /\ current.cart = found[c].cart /\ current.quantity = found[c].quantity
    /\ current.status = "active"
    /\ InTime(c)

WriteOutcome(c) ==
    /\ reservations' = [reservations EXCEPT ![at[c]].status = Outcome(c)]
    /\ stock' = IF Outcome(c) = "confirmed" THEN stock ELSE stock + found[c].quantity

FinishReservation(c) ==
    /\ stockPc[c] = "write"
    /\ UNCHANGED at
    /\ IF MatchesFound(c) THEN WriteOutcome(c) /\ Conclude(c, "ok")
       ELSE StockGoto(c, "current") /\ UNCHANGED <<inventory, todo, stockReply>>
    /\ UNCHANGED <<stockNow, asked, found, began, stockFaults>>

ReadCurrent(c) ==
    /\ stockPc[c] = "current"
    /\ UNCHANGED at
    /\ Conclude(c, IF Stored(at[c]) /\ IsAlreadyFinished(reservations[at[c]].status, Outcome(c))
                   THEN "ok" ELSE "refused")
    /\ UNCHANGED <<stockNow, inventory, asked, found, began, stockFaults>>

-----------------------------------------------------------------------------
(* expireInventoryReservations and setInventoryStock *)

DueIds == {id \in Ids : /\ Stored(id) /\ reservations[id].status = "active"
                        /\ reservations[id].expiresAt <= stockNow}

FindDue(c) ==
    /\ stockPc[c] = "idle"
    /\ asked[c].op = "cleanup"
    /\ StockGoto(c, "find")
    /\ todo' = [todo EXCEPT ![c] = DueIds]
    /\ UNCHANGED <<stockNow, inventory, asked, at, found, began, stockReply, stockFaults>>

EndCleanup(c) ==
    /\ stockPc[c] = "find"
    /\ todo[c] = {}
    /\ StockAnswer(c, "ok")
    /\ UNCHANGED <<stockNow, inventory, asked, todo, at, found, began, stockFaults>>

SetInventoryStock(c) ==
    /\ stockPc[c] = "idle"
    /\ asked[c].op = "restock"
    /\ stock' = asked[c].quantity
    /\ StockAnswer(c, "ok")
    /\ UNCHANGED <<stockNow, reservations, asked, todo, at, found, began, stockFaults>>

-----------------------------------------------------------------------------
(* Time and faults *)

StockTick ==
    /\ stockNow < StockMaxTime
    /\ stockNow' = stockNow + 1
    /\ UNCHANGED <<inventory, asked, locals, stockReply, stockFaults>>

\* The process dies, or the answer of an update is lost after it was made.
StockCallFails(c) ==
    /\ stockPc[c] \notin {"idle", "over"}
    /\ stockFaults < StockMaxFaults
    /\ stockFaults' = stockFaults + 1
    /\ StockGoto(c, "over")
    /\ \/ stockPc[c] = "reserve" /\ MayReserve(c) /\ PushReservation(c)
       \/ stockPc[c] = "write" /\ MatchesFound(c) /\ WriteOutcome(c)
       \/ UNCHANGED inventory
    /\ UNCHANGED <<stockNow, asked, todo, at, found, began, stockReply>>

-----------------------------------------------------------------------------
StockCall(c) ==
    \/ StartReserve(c) \/ Reserve(c) \/ ReadExisting(c)
    \/ \E id \in Ids : FindReservation(c, id)
    \/ FinishReservation(c) \/ ReadCurrent(c)
    \/ FindDue(c) \/ EndCleanup(c) \/ SetInventoryStock(c)
    \/ StockCallFails(c)

StockNext == StockTick \/ \E c \in StockCalls : StockCall(c)
StockSpec == StockInit /\ [][StockNext]_stockVars

-----------------------------------------------------------------------------
(* Properties *)

\* Every variable has its type.
StockTypeOK ==
    /\ stockNow \in Nat
    /\ stock \in Nat
    /\ reservations \in [Ids -> ReservationType \cup {NoReservation}]
    /\ asked \in [StockCalls -> StockRequests]
    /\ stockPc \in [StockCalls -> {"idle", "reserve", "existing", "find", "write", "current", "over"}]
    /\ todo \in [StockCalls -> SUBSET Ids]
    /\ at \in [StockCalls -> Ids]
    /\ found \in [StockCalls -> ReservationType \cup {NoReservation}]
    /\ began \in [StockCalls -> Nat]
    /\ stockReply \in [StockCalls -> {"none", "ok", "refused"}]
    /\ stockFaults \in Nat

Ledger == INSTANCE ReservationLedger
    WITH Calls <- StockCalls, clock <- stockNow, shelf <- stock, ledger <- reservations,
         ask <- asked, reply <- stockReply

\* Whatever is retried, lost or racing, the inventory behaves as if each call took
\* effect at one instant: stock leaves it once for a reservation and returns once
\* unless it is confirmed, none expires early, and every answer is true when given.
StockIsLedger == Ledger!Spec
=============================================================================
