----------------------------- MODULE ShopProofs ------------------------------
(***************************************************************************)
(* What the shops have, what they ask for it and what is put in the cart:  *)
(* Reservations, Pricing and Cart, which have no state in common.  For     *)
(* every set of calls, ids and requests, of shops, codes and changes, of   *)
(* products and quantities:                                                *)
(*   - Reservations keeps its types, and its round trips implement the     *)
(*     atomic ledger of ReservationLedger;                                 *)
(*   - stored discount codes stay legal, a withdrawn code is not applied   *)
(*     any more, and a review takes off what fits the prices it shows;     *)
(*   - the calls of Cart implement the atomic ones of AtomicCart, and one  *)
(*     that gives up has seen as many changes by others as it made         *)
(*     attempts.                                                           *)
(***************************************************************************)
EXTENDS Cart, Reservations, Pricing, TLAPS, FiniteSetTheorems, WellFoundedInduction

-----------------------------------------------------------------------------
(* Reservations *)

\* What StockRequests promises of its members.
LEMMA RequestTyped ==
    ASSUME StockTypeOK, NEW c \in StockCalls
    PROVE  /\ asked[c].op \in {"reserve", "confirm", "cancel", "cleanup", "restock"}
           /\ asked[c].id \in Ids
           /\ asked[c].cart \in STRING
           /\ asked[c].quantity \in Nat
           /\ asked[c].op = "reserve" => asked[c].quantity \in Nat \ {0}
  <1> DEFINE r == asked[c]
  <1>1. r \in StockRequests
    BY DEF StockTypeOK
  <1> QED
    BY <1>1, StockAssumption

-----------------------------------------------------------------------------
(* The inductive invariant *)

Finishing(c) == stockPc[c] \in {"write", "current"}

\* What a call has found is the reservation that is there, but for its status:
\* reservations are never removed and nothing else in them changes.
FoundSound(c) ==
    Finishing(c) =>
        /\ asked[c].op \in {"confirm", "cancel", "cleanup"}
        /\ began[c] <= stockNow
        /\ found[c] # NoReservation
        /\ Stored(at[c])
        /\ reservations[at[c]].cart = found[c].cart
        /\ reservations[at[c]].quantity = found[c].quantity
        /\ reservations[at[c]].expiresAt = found[c].expiresAt
        /\ asked[c].op # "cleanup" => at[c] = asked[c].id /\ found[c].cart = asked[c].cart

\* After a failed update the reservation has ended, or it was not the time.
FailedForAReason(c) ==
    stockPc[c] = "current" => reservations[at[c]].status # "active" \/ ~InTime(c)

\* A call is where its request takes it, and has no answer before it is over.
OnItsWay(c) ==
    /\ stockPc[c] \in {"reserve", "existing"} => asked[c].op = "reserve" /\ began[c] <= stockNow
    /\ stockPc[c] = "find" => asked[c].op = "cleanup"
    /\ asked[c].op # "cleanup" => todo[c] \subseteq {asked[c].id}
    /\ stockPc[c] # "over" => stockReply[c] = "none"

CallInv(c) == FoundSound(c) /\ FailedForAReason(c) /\ OnItsWay(c)

StockInv == StockTypeOK /\ \A c \in StockCalls : CallInv(c)

-----------------------------------------------------------------------------
(* What a step does to the inventory *)

\* A new reservation is one.
LEMMA PushTyped ==
    ASSUME StockInv, NEW c \in StockCalls, asked[c].op = "reserve",
           MayReserve(c), PushReservation(c)
    PROVE  /\ stock' \in Nat
           /\ reservations' \in [Ids -> ReservationType \cup {NoReservation}]
  <1> DEFINE new == [cart |-> asked[c].cart, quantity |-> asked[c].quantity,
                     expiresAt |-> began[c] + HoldTime, status |-> "active"]
  <1>1. /\ stock \in Nat /\ began[c] \in Nat
        /\ reservations \in [Ids -> ReservationType \cup {NoReservation}]
    BY DEF StockInv, StockTypeOK
  <1>2. /\ asked[c].id \in Ids /\ asked[c].cart \in STRING
        /\ asked[c].quantity \in Nat \ {0}
    BY RequestTyped DEF StockInv
  <1>3. stock' \in Nat
    BY <1>1, <1>2 DEF MayReserve, PushReservation
  <1>4. new \in ReservationType
    BY <1>1, <1>2, StockAssumption DEF ReservationType
  <1>5. reservations' = [reservations EXCEPT ![asked[c].id] = new]
    BY DEF PushReservation
  <1> QED
    BY <1>1, <1>3, <1>4, <1>5

\* The matching update is one of an active reservation, of the quantity found.
LEMMA WriteTyped ==
    ASSUME StockInv, NEW c \in StockCalls, stockPc[c] = "write",
           MatchesFound(c), WriteOutcome(c)
    PROVE  /\ at[c] \in Ids
           /\ reservations[at[c]] \in ReservationType
           /\ reservations[at[c]].status = "active"
           /\ reservations[at[c]].quantity = found[c].quantity
           /\ Outcome(c) \in Terminal
           /\ stock' \in Nat
           /\ reservations' \in [Ids -> ReservationType \cup {NoReservation}]
  <1>1. /\ stock \in Nat /\ at[c] \in Ids
        /\ reservations \in [Ids -> ReservationType \cup {NoReservation}]
    BY DEF StockInv, StockTypeOK
  <1>2. reservations[at[c]] \in ReservationType
    BY <1>1 DEF MatchesFound, Stored
  <1>3. /\ reservations[at[c]].status = "active"
        /\ reservations[at[c]].quantity = found[c].quantity
    BY DEF MatchesFound
  <1>4. asked[c].op \in {"confirm", "cancel", "cleanup"}
    BY DEF StockInv, CallInv, FoundSound, Finishing
  <1>5. Outcome(c) \in Terminal
    BY <1>4 DEF Outcome, Terminal
  <1>6. found[c].quantity \in Nat
    BY <1>2, <1>3 DEF ReservationType
  <1>7. stock' \in Nat
    BY <1>1, <1>6 DEF WriteOutcome
  <1> DEFINE ended == [reservations[at[c]] EXCEPT !.status = Outcome(c)]
  <1>8. ended \in ReservationType
    BY <1>2, <1>5 DEF ReservationType
  <1>9. reservations' = [reservations EXCEPT ![at[c]] = ended]
    BY DEF WriteOutcome
  <1> QED
    BY <1>1, <1>2, <1>3, <1>5, <1>7, <1>8, <1>9

\* A step adds a reservation, ends one, sets the stock, or leaves all as it is.
Pushes(c) ==
    /\ stockPc[c] = "reserve" /\ asked[c].op = "reserve"
    /\ MayReserve(c) /\ PushReservation(c)
Writes(c) == stockPc[c] = "write" /\ MatchesFound(c) /\ WriteOutcome(c)
Restocks(c) ==
    /\ asked[c].op = "restock"
    /\ stock' = asked[c].quantity /\ UNCHANGED reservations

LEMMA FourKinds ==
    ASSUME StockInv, NEW c \in StockCalls, StockCall(c)
    PROVE  Pushes(c) \/ Writes(c) \/ Restocks(c) \/ UNCHANGED inventory
  <1>1. stockPc[c] = "reserve" => asked[c].op = "reserve"
    BY DEF StockInv, CallInv, OnItsWay
  <1>2. CASE StartReserve(c)
    BY <1>2 DEF StartReserve
  <1>3. CASE Reserve(c)
    BY <1>1, <1>3 DEF Reserve, Pushes, inventory
  <1>4. CASE ReadExisting(c)
    BY <1>4 DEF ReadExisting
  <1>5. CASE \E id \in Ids : FindReservation(c, id)
    BY <1>5 DEF FindReservation
  <1>6. CASE FinishReservation(c)
    BY <1>6 DEF FinishReservation, Writes, inventory
  <1>7. CASE ReadCurrent(c)
    BY <1>7 DEF ReadCurrent
  <1>8. CASE FindDue(c)
    BY <1>8 DEF FindDue
  <1>9. CASE EndCleanup(c)
    BY <1>9 DEF EndCleanup
  <1>10. CASE SetInventoryStock(c)
    BY <1>10 DEF SetInventoryStock, Restocks
  <1>11. CASE StockCallFails(c)
    BY <1>1, <1>11 DEF StockCallFails, Pushes, Writes
  <1> QED
    BY <1>2, <1>3, <1>4, <1>5, <1>6, <1>7, <1>8, <1>9, <1>10, <1>11 DEF StockCall

LEMMA InventoryTyped ==
    ASSUME StockInv, NEW c \in StockCalls, StockCall(c)
    PROVE  /\ stock' \in Nat
           /\ reservations' \in [Ids -> ReservationType \cup {NoReservation}]
  <1>1. CASE Pushes(c)
    BY <1>1, PushTyped DEF Pushes
  <1>2. CASE Writes(c)
    BY <1>2, WriteTyped DEF Writes
  <1>3. CASE Restocks(c)
    BY <1>3, RequestTyped DEF Restocks, StockInv, StockTypeOK
  <1>4. CASE UNCHANGED inventory
    BY <1>4 DEF inventory, StockInv, StockTypeOK
  <1> QED
    BY <1>1, <1>2, <1>3, <1>4, FourKinds

\* Whatever a step does, a reservation stays, keeps its data, and ends once.
LEMMA ReservationsStay ==
    ASSUME StockInv, NEW c \in StockCalls, StockCall(c), NEW id \in Ids, Stored(id)
    PROVE  /\ Stored(id)'
           /\ reservations'[id].cart = reservations[id].cart
           /\ reservations'[id].quantity = reservations[id].quantity
           /\ reservations'[id].expiresAt = reservations[id].expiresAt
           /\ reservations[id].status # "active" =>
                  reservations'[id].status = reservations[id].status
  <1>0. /\ reservations \in [Ids -> ReservationType \cup {NoReservation}]
        /\ at[c] \in Ids
    BY DEF StockInv, StockTypeOK
  <1>1. CASE Pushes(c)
    <2>1. asked[c].id # id
      BY <1>1 DEF Pushes, MayReserve
    <2> QED
      BY <1>0, <1>1, <2>1 DEF Pushes, PushReservation, Stored
  <1>2. CASE Writes(c)
    <2>1. reservations' \in [Ids -> ReservationType \cup {NoReservation}]
      BY InventoryTyped
    <2>2. CASE at[c] = id
      <3>1. /\ reservations[id] \in ReservationType
            /\ reservations[id].status = "active"
        BY <1>2, <2>2, WriteTyped DEF Writes
      <3>2. reservations'[id] = [reservations[id] EXCEPT !.status = Outcome(c)]
        BY <1>0, <1>2, <2>2 DEF Writes, WriteOutcome
      <3>3. reservations'[id] \in ReservationType
        BY <1>2, <3>1, <3>2, WriteTyped DEF Writes, ReservationType
      <3> QED
        BY <3>1, <3>2, <3>3, StockAssumption DEF Stored, ReservationType
    <2>3. CASE at[c] # id
      BY <1>0, <1>2, <2>3 DEF Writes, WriteOutcome, Stored
    <2> QED
      BY <2>2, <2>3
  <1>3. CASE UNCHANGED reservations
    BY <1>3 DEF Stored
  <1> QED
    BY <1>1, <1>2, <1>3, FourKinds DEF Restocks, inventory

-----------------------------------------------------------------------------
(* Induction *)

LEMMA InvInitially == StockInit => StockInv
  <1> SUFFICES ASSUME StockInit
               PROVE  StockInv
    OBVIOUS
  <1>1. ASSUME NEW c \in StockCalls
        PROVE  asked[c].id \in Ids
    <2>1. asked[c] \in StockRequests
      BY DEF StockInit
    <2> QED
      BY <2>1, StockAssumption
  <1>2. StockTypeOK
    <2>1. todo \in [StockCalls -> SUBSET Ids] /\ at \in [StockCalls -> Ids]
      BY <1>1 DEF StockInit
    <2>2. reservations \in [Ids -> ReservationType \cup {NoReservation}]
      BY StockAssumption DEF StockInit
    <2> QED
      BY <2>1, <2>2, StockAssumption DEF StockInit, StockTypeOK
  <1>3. ASSUME NEW c \in StockCalls
        PROVE  CallInv(c)
    BY <1>3 DEF StockInit, CallInv, FoundSound, Finishing, FailedForAReason, OnItsWay
  <1> QED
    BY <1>2, <1>3 DEF StockInv

\* What a step of c leaves alone.
LEMMA OthersUntouched ==
    ASSUME StockInv, NEW c \in StockCalls, StockCall(c),
           NEW d \in StockCalls, d # c
    PROVE  /\ stockNow' = stockNow /\ asked' = asked
           /\ stockPc'[d] = stockPc[d] /\ todo'[d] = todo[d] /\ at'[d] = at[d]
           /\ found'[d] = found[d] /\ began'[d] = began[d]
           /\ stockReply'[d] = stockReply[d]
  <1> USE DEF StockInv, StockTypeOK, StockGoto, StockAnswer
  <1>1. CASE StartReserve(c)
    BY <1>1 DEF StartReserve
  <1>2. CASE Reserve(c)
    BY <1>2 DEF Reserve
  <1>3. CASE ReadExisting(c)
    BY <1>3 DEF ReadExisting
  <1>4. ASSUME NEW id \in Ids, FindReservation(c, id)
        PROVE  /\ stockNow' = stockNow /\ asked' = asked
               /\ stockPc'[d] = stockPc[d] /\ todo'[d] = todo[d] /\ at'[d] = at[d]
               /\ found'[d] = found[d] /\ began'[d] = began[d]
               /\ stockReply'[d] = stockReply[d]
    BY <1>4 DEF FindReservation, Conclude
  <1>5. CASE FinishReservation(c)
    BY <1>5 DEF FinishReservation, Conclude
  <1>6. CASE ReadCurrent(c)
    BY <1>6 DEF ReadCurrent, Conclude
  <1>7. CASE FindDue(c)
    BY <1>7 DEF FindDue
  <1>8. CASE EndCleanup(c)
    BY <1>8 DEF EndCleanup
  <1>9. CASE SetInventoryStock(c)
    BY <1>9 DEF SetInventoryStock
  <1>10. CASE StockCallFails(c)
    BY <1>10 DEF StockCallFails
  <1> QED
    BY <1>1, <1>2, <1>3, <1>4, <1>5, <1>6, <1>7, <1>8, <1>9, <1>10 DEF StockCall

LEMMA OthersKeepTheirs ==
    ASSUME StockInv, NEW c \in StockCalls, StockCall(c),
           NEW d \in StockCalls, d # c
    PROVE  CallInv(d)'
  <1>1. CallInv(d)
    BY DEF StockInv
  <1>2. at[d] \in Ids
    BY DEF StockInv, StockTypeOK
  <1>3. FoundSound(d)'
    BY <1>1, <1>2, OthersUntouched, ReservationsStay DEF CallInv, FoundSound, Finishing
  <1>4. InTime(d)' <=> InTime(d)
    BY OthersUntouched DEF InTime
  <1>5. FailedForAReason(d)'
    <2> SUFFICES ASSUME stockPc'[d] = "current"
                 PROVE  reservations'[at'[d]].status # "active" \/ ~InTime(d)'
      BY DEF FailedForAReason
    <2>1. stockPc[d] = "current" /\ at'[d] = at[d]
      BY OthersUntouched
    <2>2. Stored(at[d])
      BY <1>1, <2>1 DEF CallInv, FoundSound, Finishing
    <2>3. reservations[at[d]].status # "active" \/ ~InTime(d)
      BY <1>1, <2>1 DEF CallInv, FailedForAReason
    <2> QED
      BY <1>2, <1>4, <2>1, <2>2, <2>3, ReservationsStay
  <1>6. OnItsWay(d)'
    BY <1>1, OthersUntouched DEF CallInv, OnItsWay
  <1> QED
    BY <1>3, <1>5, <1>6 DEF CallInv

\* The call that moves: its variables keep their types, and its part of the
\* invariant holds where it arrives.
LocalsTyped ==
    /\ stockNow \in Nat
    /\ asked \in [StockCalls -> StockRequests]
    /\ stockPc \in [StockCalls -> {"idle", "reserve", "existing", "find", "write", "current", "over"}]
    /\ todo \in [StockCalls -> SUBSET Ids]
    /\ at \in [StockCalls -> Ids]
    /\ found \in [StockCalls -> ReservationType \cup {NoReservation}]
    /\ began \in [StockCalls -> Nat]
    /\ stockReply \in [StockCalls -> {"none", "ok", "refused"}]
    /\ stockFaults \in Nat

LEMMA LocalsStayTyped ==
    ASSUME StockInv, NEW c \in StockCalls, StockCall(c)
    PROVE  LocalsTyped'
  <1> USE DEF LocalsTyped, StockGoto, StockAnswer
  <1>0. LocalsTyped /\ reservations \in [Ids -> ReservationType \cup {NoReservation}]
    BY DEF StockInv, StockTypeOK
  <1>1. CASE StartReserve(c)
    BY <1>0, <1>1 DEF StartReserve
  <1>2. CASE Reserve(c)
    BY <1>0, <1>2 DEF Reserve
  <1>3. CASE ReadExisting(c)
    BY <1>0, <1>3 DEF ReadExisting
  <1>4. ASSUME NEW id \in Ids, FindReservation(c, id)
        PROVE  LocalsTyped'
    <2>1. at' \in [StockCalls -> Ids]
      BY <1>0, <1>4 DEF FindReservation
    <2>2. found' \in [StockCalls -> ReservationType \cup {NoReservation}]
      BY <1>0, <1>4 DEF FindReservation
    <2>3. began' \in [StockCalls -> Nat]
      BY <1>0, <1>4 DEF FindReservation
    <2>4. ASSUME NEW a \in {"ok", "refused"}, Conclude(c, a)
          PROVE  /\ stockPc' \in [StockCalls -> {"idle", "reserve", "existing", "find", "write", "current", "over"}]
                 /\ todo' \in [StockCalls -> SUBSET Ids]
                 /\ stockReply' \in [StockCalls -> {"none", "ok", "refused"}]
      BY <1>0, <2>4 DEF Conclude
    <2>5. /\ stockPc' \in [StockCalls -> {"idle", "reserve", "existing", "find", "write", "current", "over"}]
          /\ todo' \in [StockCalls -> SUBSET Ids]
          /\ stockReply' \in [StockCalls -> {"none", "ok", "refused"}]
      BY <1>0, <1>4, <2>4 DEF FindReservation
    <2> QED
      BY <1>0, <1>4, <2>1, <2>2, <2>3, <2>5 DEF FindReservation
  <1>5. CASE FinishReservation(c)
    BY <1>0, <1>5 DEF FinishReservation, Conclude
  <1>6. CASE ReadCurrent(c)
    BY <1>0, <1>6 DEF ReadCurrent, Conclude
  <1>7. CASE FindDue(c)
    BY <1>0, <1>7 DEF FindDue, DueIds
  <1>8. CASE EndCleanup(c)
    BY <1>0, <1>8 DEF EndCleanup
  <1>9. CASE SetInventoryStock(c)
    BY <1>0, <1>9 DEF SetInventoryStock
  <1>10. CASE StockCallFails(c)
    BY <1>0, <1>10 DEF StockCallFails
  <1> QED
    BY <1>1, <1>2, <1>3, <1>4, <1>5, <1>6, <1>7, <1>8, <1>9, <1>10 DEF StockCall

LEMMA OwnInvariant ==
    ASSUME StockInv, NEW c \in StockCalls, StockCall(c)
    PROVE  CallInv(c)'
  <1> USE DEF StockGoto, StockAnswer, CallInv, OnItsWay
  <1>0. LocalsTyped /\ CallInv(c) /\ reservations \in [Ids -> ReservationType \cup {NoReservation}]
    BY DEF StockInv, StockTypeOK, LocalsTyped
  <1>a. asked' = asked /\ stockNow' = stockNow
    BY DEF StockCall, StartReserve, Reserve, ReadExisting, FindReservation, FinishReservation,
           ReadCurrent, FindDue, EndCleanup, SetInventoryStock, StockCallFails
  <1>b. ASSUME stockPc'[c] \notin {"write", "current"}
        PROVE  FoundSound(c)' /\ FailedForAReason(c)'
    BY <1>b DEF FoundSound, Finishing, FailedForAReason
  <1> USE DEF LocalsTyped
  <1>1. CASE StartReserve(c)
    BY <1>0, <1>b, <1>1 DEF StartReserve
  <1>2. CASE Reserve(c)
    BY <1>0, <1>b, <1>2 DEF Reserve
  <1>3. CASE ReadExisting(c)
    BY <1>0, <1>b, <1>3 DEF ReadExisting
  <1>4. ASSUME NEW id \in Ids, FindReservation(c, id)
        PROVE  CallInv(c)'
    <2>1. /\ asked[c].op \in {"confirm", "cancel", "cleanup"}
          /\ asked[c].op # "cleanup" => id = asked[c].id
          /\ stockPc[c] # "over"
          /\ at'[c] = id
      BY <1>0, <1>4 DEF FindReservation
    <2>2. ASSUME NEW a \in {"ok", "refused"}, Conclude(c, a)
          PROVE  CallInv(c)'
      <3>1. stockPc'[c] = IF asked[c].op = "cleanup" THEN "find" ELSE "over"
        BY <1>0, <2>2 DEF Conclude
      <3>2. OnItsWay(c)'
        BY <1>0, <1>a, <2>1, <2>2, <3>1 DEF Conclude
      <3> QED
        BY <1>b, <3>1, <3>2
    <2>3. CASE stockPc'[c] = "write"
      <3>1. /\ Stored(id) /\ OwnCart(c, id)
            /\ found'[c] = reservations[id]
            /\ began'[c] = stockNow
            /\ UNCHANGED <<reservations, todo, stockReply>>
        BY <1>0, <1>4, <2>3 DEF FindReservation, Conclude, inventory
      <3>2. FoundSound(c)'
        BY <1>0, <1>a, <2>1, <3>1 DEF FoundSound, Stored, OwnCart
      <3>3. FailedForAReason(c)'
        BY <2>3 DEF FailedForAReason
      <3>4. OnItsWay(c)'
        BY <1>0, <1>a, <2>1, <2>3, <3>1
      <3> QED
        BY <3>2, <3>3, <3>4
    <2>4. (\E a \in {"ok", "refused"} : Conclude(c, a)) \/ stockPc'[c] = "write"
      BY <1>0, <1>4 DEF FindReservation
    <2> QED
      BY <2>2, <2>3, <2>4
  <1>5. CASE FinishReservation(c)
    <2>1. CASE MatchesFound(c)
      <3>1. stockPc'[c] = IF asked[c].op = "cleanup" THEN "find" ELSE "over"
        BY <1>0, <1>5, <2>1 DEF FinishReservation, Conclude
      <3>2. OnItsWay(c)'
        BY <1>0, <1>a, <1>5, <2>1, <3>1 DEF FinishReservation, Conclude, FoundSound, Finishing
      <3> QED
        BY <1>b, <3>1, <3>2
    <2>2. CASE ~MatchesFound(c)
      <3>1. /\ stockPc'[c] = "current"
            /\ UNCHANGED <<reservations, todo, stockReply, at, found, began>>
            /\ stockPc[c] = "write"
        BY <1>0, <1>5, <2>2 DEF FinishReservation, inventory
      <3>2. FoundSound(c)'
        BY <1>0, <1>a, <3>1 DEF FoundSound, Finishing, Stored
      <3>3. reservations[at[c]].status # "active" \/ ~InTime(c)
        BY <1>0, <2>2, <3>1 DEF FoundSound, Finishing, MatchesFound
      <3>4. InTime(c)' <=> InTime(c)
        BY <1>a, <3>1 DEF InTime
      <3>5. FailedForAReason(c)'
        BY <3>1, <3>3, <3>4 DEF FailedForAReason
      <3>6. OnItsWay(c)'
        BY <1>0, <1>a, <3>1
      <3> QED
        BY <3>2, <3>5, <3>6
    <2> QED
      BY <2>1, <2>2
  <1>6. CASE ReadCurrent(c)
    <2>1. stockPc'[c] = IF asked[c].op = "cleanup" THEN "find" ELSE "over"
      BY <1>0, <1>6 DEF ReadCurrent, Conclude
    <2>2. OnItsWay(c)'
      BY <1>0, <1>a, <1>6, <2>1 DEF ReadCurrent, Conclude, FoundSound, Finishing
    <2> QED
      BY <1>b, <2>1, <2>2
  <1>7. CASE FindDue(c)
    BY <1>0, <1>a, <1>b, <1>7 DEF FindDue
  <1>8. CASE EndCleanup(c)
    BY <1>0, <1>a, <1>b, <1>8 DEF EndCleanup
  <1>9. CASE SetInventoryStock(c)
    BY <1>0, <1>a, <1>b, <1>9 DEF SetInventoryStock
  <1>10. CASE StockCallFails(c)
    BY <1>0, <1>a, <1>b, <1>10 DEF StockCallFails
  <1> QED
    BY <1>1, <1>2, <1>3, <1>4, <1>5, <1>6, <1>7, <1>8, <1>9, <1>10 DEF StockCall

LEMMA InvInductive == StockInv /\ [StockNext]_stockVars => StockInv'
  <1>1. ASSUME StockInv, NEW c \in StockCalls, StockCall(c)
        PROVE  StockInv'
    <2>1. StockTypeOK'
      BY <1>1, InventoryTyped, LocalsStayTyped DEF StockTypeOK, LocalsTyped
    <2>2. ASSUME NEW d \in StockCalls
          PROVE  CallInv(d)'
      BY <1>1, OwnInvariant, OthersKeepTheirs
    <2> QED
      BY <2>1, <2>2 DEF StockInv
  <1>2. ASSUME StockInv, StockTick
        PROVE  StockInv'
    <2>1. StockTypeOK'
      BY <1>2 DEF StockInv, StockTypeOK, StockTick, inventory, locals
    <2>2. ASSUME NEW d \in StockCalls
          PROVE  CallInv(d)'
      <3>1. CallInv(d) /\ stockNow \in Nat /\ began \in [StockCalls -> Nat]
        BY <1>2 DEF StockInv, StockTypeOK
      <3>2. stockNow' = stockNow + 1 /\ UNCHANGED <<stock, reservations, asked, stockPc, todo, at,
                                                   found, began, stockReply>>
        BY <1>2 DEF StockTick, inventory, locals
      <3>3. began[d] <= stockNow => began[d] <= stockNow'
        BY <3>1, <3>2
      <3>4. FoundSound(d)'
        BY <3>1, <3>2, <3>3 DEF CallInv, FoundSound, Finishing, Stored
      <3>5. InTime(d)' <=> InTime(d)
        BY <3>2 DEF InTime
      <3>6. FailedForAReason(d)'
        BY <3>1, <3>2, <3>5 DEF CallInv, FailedForAReason
      <3>7. OnItsWay(d)'
        BY <3>1, <3>2, <3>3 DEF CallInv, OnItsWay
      <3> QED
        BY <3>4, <3>6, <3>7 DEF CallInv
    <2> QED
      BY <2>1, <2>2 DEF StockInv
  <1>3. ASSUME StockInv, UNCHANGED stockVars
        PROVE  StockInv'
    BY <1>3 DEF StockInv, StockTypeOK, stockVars, inventory, locals, CallInv, FoundSound,
                Finishing, FailedForAReason, OnItsWay, InTime, Stored
  <1> QED
    BY <1>1, <1>2, <1>3 DEF StockNext

LEMMA StockInvariant == StockSpec => []StockInv
  BY InvInitially, InvInductive, PTL DEF StockSpec

\* Every variable of Reservations keeps its type; the stock in particular is
\* never negative.
THEOREM StockTypeCorrect == StockSpec => []StockTypeOK
  <1>1. StockInv => StockTypeOK
    BY DEF StockInv
  <1> QED
    BY <1>1, StockInvariant, PTL

-----------------------------------------------------------------------------
(* The refinement *)

Unclocked == stockNow' = stockNow /\ asked' = asked

\* A call that has not been answered may be answered.
LEMMA LedgerCall ==
    ASSUME StockInv, NEW c \in StockCalls, stockPc[c] # "over", Unclocked,
           \/ Ledger!Take(c) \/ Ledger!Confirm(c) \/ Ledger!Cancel(c)
           \/ Ledger!Restock(c) \/ Ledger!Reply(c)
    PROVE  Ledger!Next
  <1>1. stockReply[c] = "none"
    BY DEF StockInv, CallInv, OnItsWay
  <1> QED
    BY <1>1 DEF Ledger!Next, Ledger!Call, Unclocked

\* Making a reservation takes it from the ledger, answered or not.
LEMMA PushTakes ==
    ASSUME StockInv, NEW c \in StockCalls, stockPc[c] = "reserve", Unclocked,
           MayReserve(c), PushReservation(c), Ledger!Answers(c)
    PROVE  Ledger!Next
  <1>1. /\ asked[c].op = "reserve" /\ began[c] <= stockNow
        /\ stockNow \in Nat /\ began[c] \in Nat
    BY DEF StockInv, StockTypeOK, CallInv, OnItsWay
  <1>2. began[c] + HoldTime \in 0..(stockNow + HoldTime)
    BY <1>1, StockAssumption
  <1>3. Ledger!Take(c)
    BY <1>1, <1>2 DEF MayReserve, PushReservation, Stored, Ledger!Take, Ledger!Named
  <1> QED
    BY <1>3, LedgerCall

\* Writing the outcome ends the reservation the call found, in its time.
LEMMA WriteEnds ==
    ASSUME StockInv, NEW c \in StockCalls, stockPc[c] = "write", Unclocked,
           MatchesFound(c), WriteOutcome(c),
           IF asked[c].op = "cleanup" THEN UNCHANGED stockReply ELSE Ledger!Answers(c)
    PROVE  Ledger!Next
  <1>1. CallInv(c) /\ at[c] \in Ids /\ stockNow \in Nat /\ began[c] \in Nat
    BY DEF StockInv, StockTypeOK
  <1>2. /\ asked[c].op \in {"confirm", "cancel", "cleanup"}
        /\ began[c] <= stockNow
        /\ reservations[at[c]].cart = found[c].cart
        /\ reservations[at[c]].expiresAt = found[c].expiresAt
        /\ asked[c].op # "cleanup" => at[c] = asked[c].id /\ found[c].cart = asked[c].cart
    BY <1>1 DEF CallInv, FoundSound, Finishing
  <1>3. Ledger!End(at[c], Outcome(c))
    BY <1>1 DEF MatchesFound, WriteOutcome, Stored, Ledger!End
  <1>4. asked[c].op # "cleanup" => Ledger!Mine(c)
    BY <1>2 DEF MatchesFound, Stored, Ledger!Mine, Ledger!Named
  <1>5. CASE asked[c].op = "confirm"
    BY <1>2, <1>3, <1>4, <1>5, LedgerCall DEF Outcome, Ledger!Confirm
  <1>6. CASE asked[c].op = "cancel"
    BY <1>2, <1>3, <1>4, <1>6, LedgerCall DEF Outcome, Ledger!Cancel
  <1>7. CASE asked[c].op = "cleanup"
    <2>1. found[c].expiresAt <= began[c]
      BY <1>7 DEF MatchesFound, InTime
    <2>2. reservations[at[c]].expiresAt \in Nat
      BY <1>1 DEF StockInv, StockTypeOK, MatchesFound, Stored, ReservationType
    <2>3. reservations[at[c]].expiresAt <= stockNow
      BY <1>1, <1>2, <2>1, <2>2
    <2>4. Ledger!Expire(at[c])
      BY <1>3, <1>7, <2>3 DEF Outcome, Ledger!Expire
    <2> QED
      BY <1>1, <2>4 DEF Ledger!Next, Unclocked
  <1> QED
    BY <1>2, <1>5, <1>6, <1>7

\* An answer that is true when it is given.
LEMMA TrueAnswer ==
    ASSUME StockInv, NEW c \in StockCalls, stockPc[c] # "over", Unclocked, UNCHANGED inventory,
           NEW a \in {"ok", "refused"}, stockReply' = [stockReply EXCEPT ![c] = a],
           a = "ok" => Ledger!Settled(c),
           a = "refused" => Ledger!Hopeless(c)
    PROVE  Ledger!Next
  <1>1. Ledger!Reply(c)
    BY DEF Ledger!Reply, inventory
  <1> QED
    BY <1>1, LedgerCall

\* What confirm or cancel says of a reservation that it cannot end is true.
LEMMA EndingAnswer ==
    ASSUME StockInv, NEW c \in StockCalls, stockPc[c] # "over", Unclocked, UNCHANGED inventory,
           asked[c].op \in {"confirm", "cancel", "cleanup"},
           NEW id \in Ids, asked[c].op # "cleanup" => id = asked[c].id,
           NEW a \in {"ok", "refused"}, Conclude(c, a),
           a = "ok" => /\ Stored(id) /\ OwnCart(c, id)
                       /\ IsAlreadyFinished(reservations[id].status, Outcome(c)),
           a = "refused" => \/ ~Stored(id)
                            \/ ~OwnCart(c, id)
                            \/ /\ ~IsAlreadyFinished(reservations[id].status, Outcome(c))
                               /\ \/ reservations[id].status # "active"
                                  \/ asked[c].op = "confirm" /\ reservations[id].expiresAt <= stockNow
    PROVE  [Ledger!Next]_<<stockNow, stock, reservations, asked, stockReply>>
  <1>1. CASE asked[c].op = "cleanup"
    BY <1>1 DEF Conclude, Unclocked, inventory
  <1>2. CASE asked[c].op # "cleanup"
    <2>1. /\ id = asked[c].id
          /\ stockReply' = [stockReply EXCEPT ![c] = a]
      BY <1>2 DEF Conclude, StockAnswer
    <2>2. Stored(id) => reservations[id].status \in {"active", "confirmed", "cancelled", "expired"}
      BY DEF StockInv, StockTypeOK, Stored, ReservationType, Terminal
    <2>3. a = "ok" => Ledger!Settled(c)
      BY <1>2, <2>1, <2>2 DEF Ledger!Settled, Ledger!Mine, Ledger!Named, IsAlreadyFinished,
                              Outcome, OwnCart, Stored
    <2>4. a = "refused" => Ledger!Hopeless(c)
      BY <1>2, <2>1, <2>2 DEF Ledger!Hopeless, Ledger!Mine, Ledger!Named, IsAlreadyFinished,
                              Outcome, OwnCart, Stored
    <2> QED
      BY <2>1, <2>3, <2>4, TrueAnswer
  <1> QED
    BY <1>1, <1>2

\* Every step of a call is an atomic step or none.
LEMMA CallRefines ==
    ASSUME StockInv, NEW c \in StockCalls, StockCall(c)
    PROVE  [Ledger!Next]_<<stockNow, stock, reservations, asked, stockReply>>
  <1> DEFINE Here == [Ledger!Next]_<<stockNow, stock, reservations, asked, stockReply>>
  <1>1. CASE StartReserve(c)
    BY <1>1 DEF StartReserve, inventory
  <1>2. CASE Reserve(c)
    <2>1. CASE MayReserve(c)
      BY <1>2, <2>1, PushTakes DEF Reserve, StockAnswer, Ledger!Answers, Unclocked
    <2>2. CASE ~MayReserve(c)
      BY <1>2, <2>2 DEF Reserve, inventory
    <2> QED
      BY <2>1, <2>2
  <1>3. CASE ReadExisting(c)
    <2> DEFINE a == IF SameReservation(c) THEN "ok" ELSE "refused"
               existing == reservations[asked[c].id]
    <2>1. /\ Unclocked /\ UNCHANGED inventory
          /\ stockReply' = [stockReply EXCEPT ![c] = a]
          /\ stockPc[c] = "existing"
      BY <1>3 DEF ReadExisting, StockAnswer, Unclocked
    <2>2. asked[c].op = "reserve" /\ began[c] <= stockNow
      BY <2>1 DEF StockInv, CallInv, OnItsWay
    <2>3. /\ stockNow \in Nat /\ began[c] \in Nat
          /\ Stored(asked[c].id) => /\ existing.status \in {"active", "confirmed", "cancelled", "expired"}
                                    /\ existing.expiresAt \in Nat
      BY RequestTyped DEF StockInv, StockTypeOK, Stored, ReservationType, Terminal
    <2>4. a = "ok" => Ledger!Settled(c)
      BY <2>2 DEF SameReservation, Stored, Ledger!Settled, Ledger!Mine, Ledger!Named
    <2>5. a = "refused" => Ledger!Hopeless(c)
      <3>1. ~(existing.expiresAt > began[c]) /\ existing.expiresAt \in Nat
               => existing.expiresAt <= stockNow
        BY <2>2, <2>3
      <3> QED
        BY <2>2, <2>3, <3>1 DEF SameReservation, Stored, Ledger!Hopeless, Ledger!Mine, Ledger!Named
    <2> HIDE DEF a
    <2>6. a \in {"ok", "refused"}
      BY DEF a
    <2> QED
      BY <2>1, <2>4, <2>5, <2>6, TrueAnswer
  <1>4. ASSUME NEW id \in Ids, FindReservation(c, id)
        PROVE  Here
    <2>1. /\ asked[c].op \in {"confirm", "cancel", "cleanup"}
          /\ asked[c].op # "cleanup" => id = asked[c].id
          /\ stockPc[c] # "over"
          /\ Unclocked /\ UNCHANGED inventory
      BY <1>4 DEF FindReservation, Unclocked, StockInv, CallInv, OnItsWay
    <2>2. CASE ~Stored(id) \/ ~OwnCart(c, id)
      BY <1>4, <2>1, <2>2, EndingAnswer DEF FindReservation
    <2>3. CASE /\ Stored(id) /\ OwnCart(c, id)
               /\ reservations[id].status # "active"
      <3>1. CASE IsAlreadyFinished(reservations[id].status, Outcome(c))
        BY <1>4, <2>1, <2>3, <3>1, EndingAnswer DEF FindReservation
      <3>2. CASE ~IsAlreadyFinished(reservations[id].status, Outcome(c))
        BY <1>4, <2>1, <2>3, <3>2, EndingAnswer DEF FindReservation
      <3> QED
        BY <3>1, <3>2
    <2>4. CASE /\ Stored(id) /\ OwnCart(c, id)
               /\ reservations[id].status = "active"
      BY <1>4, <2>4 DEF FindReservation, inventory
    <2> QED
      BY <2>2, <2>3, <2>4
  <1>5. CASE FinishReservation(c)
    <2>1. CASE MatchesFound(c)
      <3>1. IF asked[c].op = "cleanup" THEN UNCHANGED stockReply ELSE Ledger!Answers(c)
        BY <1>5, <2>1 DEF FinishReservation, Conclude, StockAnswer, Ledger!Answers
      <3> QED
        BY <1>5, <2>1, <3>1, WriteEnds DEF FinishReservation, Unclocked
    <2>2. CASE ~MatchesFound(c)
      BY <1>5, <2>2 DEF FinishReservation, inventory
    <2> QED
      BY <2>1, <2>2
  <1>6. CASE ReadCurrent(c)
    <2> DEFINE id == at[c]
               done == Stored(id) /\ IsAlreadyFinished(reservations[id].status, Outcome(c))
    <2>1. /\ stockPc[c] = "current" /\ Unclocked /\ UNCHANGED inventory
          /\ Conclude(c, IF done THEN "ok" ELSE "refused")
      BY <1>6 DEF ReadCurrent, Unclocked
    <2>2. /\ CallInv(c) /\ id \in Ids /\ stockNow \in Nat /\ began[c] \in Nat
          /\ reservations \in [Ids -> ReservationType \cup {NoReservation}]
      BY DEF StockInv, StockTypeOK
    <2>3. /\ asked[c].op \in {"confirm", "cancel", "cleanup"}
          /\ began[c] <= stockNow
          /\ Stored(id)
          /\ asked[c].op # "cleanup" => id = asked[c].id
          /\ OwnCart(c, id)
          /\ reservations[id].expiresAt = found[c].expiresAt
      BY <2>1, <2>2 DEF CallInv, FoundSound, Finishing, OwnCart
    <2>4. reservations[id].expiresAt \in Nat
      BY <2>2, <2>3 DEF Stored, ReservationType
    <2>5. reservations[id].status # "active" \/ ~InTime(c)
      BY <2>1, <2>2 DEF CallInv, FailedForAReason
    <2>6. \/ asked[c].op = "cleanup"
          \/ reservations[id].status # "active"
          \/ asked[c].op = "confirm" /\ reservations[id].expiresAt <= stockNow
      <3>1. CASE asked[c].op = "confirm"
        <4>1. InTime(c) <=> found[c].expiresAt > began[c]
          BY <3>1 DEF InTime
        <4>2. ~InTime(c) => reservations[id].expiresAt <= stockNow
          BY <2>2, <2>3, <2>4, <4>1
        <4> QED
          BY <2>5, <3>1, <4>2
      <3>2. CASE asked[c].op = "cancel"
        BY <2>5, <3>2 DEF InTime
      <3> QED
        BY <2>3, <3>1, <3>2
    <2>7. CASE asked[c].op = "cleanup"
      BY <2>1, <2>7 DEF Conclude, Unclocked, inventory
    <2>8. CASE asked[c].op # "cleanup" /\ done
      BY <2>1, <2>2, <2>3, <2>8, EndingAnswer
    <2>9. CASE asked[c].op # "cleanup" /\ ~done
      BY <2>1, <2>2, <2>3, <2>6, <2>9, EndingAnswer
    <2> QED
      BY <2>7, <2>8, <2>9
  <1>7. CASE FindDue(c)
    BY <1>7 DEF FindDue, inventory
  <1>8. CASE EndCleanup(c)
    <2>1. /\ asked[c].op = "cleanup" /\ stockPc[c] # "over"
          /\ Unclocked /\ UNCHANGED inventory
          /\ stockReply' = [stockReply EXCEPT ![c] = "ok"]
      BY <1>8 DEF EndCleanup, StockAnswer, Unclocked, StockInv, CallInv, OnItsWay
    <2>2. Ledger!Settled(c)
      BY <2>1 DEF Ledger!Settled
    <2> QED
      BY <2>1, <2>2, TrueAnswer
  <1>9. CASE SetInventoryStock(c)
    <2>1. Ledger!Restock(c) /\ Unclocked /\ stockPc[c] # "over"
      BY <1>9 DEF SetInventoryStock, StockAnswer, Unclocked, Ledger!Restock, Ledger!Answers
    <2> QED
      BY <2>1, LedgerCall
  <1>10. CASE StockCallFails(c)
    <2>1. Unclocked /\ UNCHANGED stockReply /\ Ledger!Answers(c)
      BY <1>10 DEF StockCallFails, Unclocked, Ledger!Answers
    <2>2. CASE stockPc[c] = "reserve" /\ MayReserve(c) /\ PushReservation(c)
      BY <2>1, <2>2, PushTakes
    <2>3. CASE stockPc[c] = "write" /\ MatchesFound(c) /\ WriteOutcome(c)
      BY <2>1, <2>3, WriteEnds
    <2>4. CASE UNCHANGED inventory
      BY <2>1, <2>4 DEF inventory, Unclocked
    <2> QED
      BY <1>10, <2>2, <2>3, <2>4 DEF StockCallFails
  <1> QED
    BY <1>1, <1>2, <1>3, <1>4, <1>5, <1>6, <1>7, <1>8, <1>9, <1>10 DEF StockCall

\* Reserving, confirming, cancelling, expiring and restocking, each in several
\* round trips that may race, fail or be retried, behave as if each took effect
\* at one instant, with answers that are true when given.
THEOREM ReservationsImplementLedger == StockSpec => StockIsLedger
  <1>1. StockInit => Ledger!Init
    BY StockAssumption DEF StockInit, Ledger!Init
  <1>2. StockInv /\ [StockNext]_stockVars
           => [Ledger!Next]_<<stockNow, stock, reservations, asked, stockReply>>
    <2>1. ASSUME StockInv, NEW c \in StockCalls, StockCall(c)
          PROVE  [Ledger!Next]_<<stockNow, stock, reservations, asked, stockReply>>
      BY <2>1, CallRefines
    <2>2. CASE StockTick
      BY <2>2 DEF StockTick, inventory, Ledger!Next
    <2>3. CASE UNCHANGED stockVars
      BY <2>3 DEF stockVars, inventory
    <2> QED
      BY <2>1, <2>2, <2>3 DEF StockNext
  <1> QED
    BY <1>1, <1>2, StockInvariant, PTL DEF StockSpec, StockIsLedger, Ledger!Spec

-----------------------------------------------------------------------------
(* Pricing *)

\* A legal change of legal rules is a set of rules.
LEMMA SetTyped ==
    ASSUME NEW old \in RuleType, NEW change \in Changes
    PROVE  Set(old, change) \in RuleType
  <1>1. Fits(change)
    BY PricingAssumption
  <1> DEFINE n == Set(old, change)
  <1>2. /\ n.type \in {"percentage", "fixed_amount"}
        /\ n.value \in Nat /\ n.minimum \in Nat /\ n.start \in Nat /\ n.end \in Nat
        /\ n.appliesTo \in {"all", "specific_products"}
        /\ n.products \in SUBSET Goods
    BY <1>1 DEF Set, Fits, RuleType, OfferFields
  <1>3. n = [type |-> n.type, value |-> n.value, minimum |-> n.minimum, start |-> n.start,
             end |-> n.end, appliesTo |-> n.appliesTo, products |-> n.products]
    BY DEF Set, OfferFields
  <1> QED
    BY <1>2, <1>3 DEF RuleType

-----------------------------------------------------------------------------
(* The codes *)

CodesTyped ==
    /\ offer \in [Shops -> OfferType \cup {NoOffer}]
    /\ editPc \in [Editors -> {"idle", "insert", "update", "done"}]
    /\ editShop \in [Editors -> Shops]
    /\ edit \in [Editors -> RuleType \cup Changes \cup {NoOffer}]
    /\ editing \subseteq Shops
    /\ withdrawn \subseteq Shops

\* What a call is about to store is legal, as long as nobody else changes the code:
\* that of an update, merged with the rules that are there, not those it has read.
InsertsLegal(e) ==
    editPc[e] = "insert" => edit[e] \in NewOffers /\ LegalRules(edit[e], editShop[e])

UpdatesLegal(e) ==
    editPc[e] = "update" =>
        /\ edit[e] \in Changes
        /\ offer[editShop[e]] # NoOffer
        /\ editShop[e] \notin editing =>
              LegalRules(Set(offer[editShop[e]].rules, edit[e]), editShop[e])

OneUpdater ==
    \A d, e \in Editors :
        /\ d # e
        /\ editPc[d] = "update" /\ editPc[e] = "update"
        /\ editShop[d] = editShop[e]
        => editShop[e] \in editing

\* A withdrawn code is there and cannot be used.
StayWithdrawn ==
    \A s \in withdrawn : offer[s] # NoOffer /\ (~offer[s].active \/ offer[s].deleted)

CodesInv ==
    /\ CodesTyped
    /\ \A e \in Editors : InsertsLegal(e) /\ UpdatesLegal(e)
    /\ OneUpdater
    /\ DiscountLegal
    /\ StayWithdrawn

LEMMA CodesInitially == PricingInit => CodesInv
  <1> SUFFICES ASSUME PricingInit
               PROVE  CodesInv
    OBVIOUS
  <1>1. offer \in [Shops -> OfferType \cup {NoOffer}]
    <2> DEFINE first(o) == [active |-> TRUE, deleted |-> FALSE, rules |-> o]
    <2>1. ASSUME NEW o \in NewOffers
          PROVE  first(o) \in OfferType
      BY PricingAssumption DEF OfferType
    <2> QED
      BY <2>1 DEF PricingInit
  <1>2. (CHOOSE s \in Shops : TRUE) \in Shops
    BY PricingAssumption
  <1>3. CodesTyped
    BY <1>1, <1>2 DEF PricingInit, CodesTyped
  <1>4. DiscountLegal
    BY DEF PricingInit, DiscountLegal
  <1>5. OneUpdater /\ StayWithdrawn /\ \A e \in Editors : InsertsLegal(e) /\ UpdatesLegal(e)
    BY DEF PricingInit, OneUpdater, StayWithdrawn, InsertsLegal, UpdatesLegal
  <1> QED
    BY <1>3, <1>4, <1>5 DEF CodesInv

\* LegalRules reads no variable.
LEMMA LegalIsConstant ==
    ASSUME NEW o, NEW s
    PROVE  LegalRules(o, s)' <=> LegalRules(o, s)
  BY DEF LegalRules

\* A call that starts.
LEMMA StartKeepsCodes ==
    ASSUME CodesInv, NEW e \in Editors, NEW s \in Shops,
           NEW point \in {"insert", "update"}, NEW change \in RuleType \cup Changes,
           EditFrom(e, point, s, change),
           editing \subseteq editing', editing' \subseteq Shops,
           point = "insert" => change \in NewOffers /\ LegalRules(change, s),
           point = "update" =>
               /\ change \in Changes /\ offer[s] # NoOffer
               /\ LegalRules(Set(offer[s].rules, change), s)
               /\ (\E d \in Editors : editPc[d] = "update" /\ editShop[d] = s) => s \in editing'
    PROVE  CodesInv'
  <1> USE DEF CodesInv
  <1>1. /\ editPc' = [editPc EXCEPT ![e] = point]
        /\ editShop' = [editShop EXCEPT ![e] = s]
        /\ edit' = [edit EXCEPT ![e] = change]
        /\ offer' = offer /\ withdrawn' = withdrawn
        /\ editPc[e] = "idle"
    BY DEF EditFrom
  <1>2. CodesTyped'
    BY <1>1 DEF CodesTyped
  <1>3. ASSUME NEW d \in Editors
        PROVE  InsertsLegal(d)' /\ UpdatesLegal(d)'
    <2>1. CASE d = e
      <3>1. editPc'[d] = point /\ editShop'[d] = s /\ edit'[d] = change
        BY <1>1, <2>1 DEF CodesTyped
      <3>2. InsertsLegal(d)'
        BY <3>1 DEF InsertsLegal, LegalRules
      <3>3. UpdatesLegal(d)'
        BY <1>1, <3>1 DEF UpdatesLegal, LegalRules, Set
      <3> QED
        BY <3>2, <3>3
    <2>2. CASE d # e
      <3>1. editPc'[d] = editPc[d] /\ editShop'[d] = editShop[d] /\ edit'[d] = edit[d]
        BY <1>1, <2>2 DEF CodesTyped
      <3>2. InsertsLegal(d)'
        BY <3>1 DEF InsertsLegal, LegalRules
      <3> DEFINE merged == Set(offer[editShop[d]].rules, edit[d])
      <3>3. UpdatesLegal(d)'
        <4>1. merged' = merged
          BY <1>1, <3>1 DEF Set
        <4>2. LegalRules(merged, editShop[d])' <=> LegalRules(merged, editShop[d])
          <5> HIDE DEF merged
          <5> QED BY <3>1, <4>1 DEF LegalRules
        <4>3. UpdatesLegal(d)
          OBVIOUS
        <4> QED
          BY <1>1, <3>1, <4>2, <4>3 DEF UpdatesLegal
      <3> QED
        BY <3>2, <3>3
    <2> QED
      BY <2>1, <2>2
  <1>4. OneUpdater'
    BY <1>1 DEF CodesTyped, OneUpdater
  <1>5. DiscountLegal' /\ StayWithdrawn'
    BY <1>1 DEF DiscountLegal, LegalRules, StayWithdrawn
  <1> QED
    BY <1>2, <1>3, <1>4, <1>5

\* A call that ends, with what it has made of the code of s.
LEMMA EndKeepsCodes ==
    ASSUME CodesInv, NEW e \in Editors, NEW s \in Shops, NEW new,
           EndEdit(e, s, new),
           new = offer[s] \/ new \in OfferType,
           offer[s] # NoOffer => new # NoOffer,
           s \notin editing => new = NoOffer \/ LegalRules(new.rules, s),
           withdrawn \subseteq withdrawn', withdrawn' \subseteq withdrawn \cup {s},
           s \in withdrawn' => new # NoOffer /\ (~new.active \/ new.deleted),
           \/ offer[s] = NoOffer
           \/ new.rules = offer[s].rules
           \/ editPc[e] = "update" /\ editShop[e] = s
    PROVE  CodesInv'
  <1> USE DEF CodesInv
  <1>1. /\ editPc' = [editPc EXCEPT ![e] = "done"]
        /\ offer' = [offer EXCEPT ![s] = new]
        /\ UNCHANGED <<editShop, edit, editing>>
    BY DEF EndEdit
  <1>2. CodesTyped'
    BY <1>1 DEF CodesTyped
  <1>3. ASSUME NEW d \in Editors
        PROVE  InsertsLegal(d)'
    BY <1>1 DEF CodesTyped, InsertsLegal, LegalRules
  <1>4. ASSUME NEW d \in Editors
        PROVE  UpdatesLegal(d)'
    <2> SUFFICES ASSUME editPc'[d] = "update"
                 PROVE  /\ edit'[d] \in Changes
                        /\ offer'[editShop'[d]] # NoOffer
                        /\ editShop'[d] \notin editing' =>
                              LegalRules(Set(offer'[editShop'[d]].rules, edit'[d]), editShop'[d])
      BY DEF UpdatesLegal, LegalRules, Set
    <2>1. d # e /\ editPc[d] = "update"
      BY <1>1 DEF CodesTyped
    <2>2. UpdatesLegal(d)
      OBVIOUS
    <2>3. CASE editShop[d] # s
      BY <1>1, <2>1, <2>2, <2>3 DEF CodesTyped, UpdatesLegal
    <2>4. CASE editShop[d] = s
      <3>1. offer'[s] = new
        BY <1>1 DEF CodesTyped
      <3>2. s \notin editing => new.rules = offer[s].rules
        BY <2>1, <2>2, <2>4 DEF UpdatesLegal, OneUpdater
      <3> QED
        BY <1>1, <2>1, <2>2, <2>4, <3>1, <3>2 DEF UpdatesLegal
    <2> QED
      BY <2>3, <2>4
  <1>5. OneUpdater'
    BY <1>1 DEF CodesTyped, OneUpdater
  <1>6. DiscountLegal'
    <2> SUFFICES ASSUME NEW z \in Shops \ editing, offer'[z] # NoOffer
                 PROVE  LegalRules(offer'[z].rules, z)
      BY <1>1 DEF DiscountLegal, LegalRules
    <2>1. CASE z = s
      BY <1>1, <2>1 DEF CodesTyped
    <2>2. CASE z # s
      BY <1>1, <2>2 DEF CodesTyped, DiscountLegal
    <2> QED
      BY <2>1, <2>2
  <1>7. StayWithdrawn'
    BY <1>1 DEF CodesTyped, StayWithdrawn
  <1> QED
    BY <1>2, <1>3, <1>4, <1>5, <1>6, <1>7

LEMMA CodesInductive == CodesInv /\ [PricingNext]_pricingVars => CodesInv'
  <1> SUFFICES ASSUME CodesInv, [PricingNext]_pricingVars
               PROVE  CodesInv'
    OBVIOUS
  <1>1. CASE UNCHANGED codes
    <2>1. UNCHANGED <<offer, editPc, editShop, edit, editing, withdrawn>>
      BY <1>1 DEF codes
    <2>2. CodesTyped' /\ OneUpdater' /\ StayWithdrawn'
      BY <2>1 DEF CodesInv, CodesTyped, OneUpdater, StayWithdrawn
    <2>3. DiscountLegal'
      BY <2>1 DEF CodesInv, DiscountLegal, LegalRules
    <2>4. ASSUME NEW e \in Editors
          PROVE  InsertsLegal(e)' /\ UpdatesLegal(e)'
      <3>1. InsertsLegal(e) /\ UpdatesLegal(e)
        BY DEF CodesInv
      <3>2. InsertsLegal(e)'
        BY <2>1, <3>1 DEF InsertsLegal, LegalRules
      <3>3. UpdatesLegal(e)'
        BY <2>1, <3>1 DEF UpdatesLegal, LegalRules, Set
      <3> QED
        BY <3>2, <3>3
    <2> QED
      BY <2>2, <2>3, <2>4 DEF CodesInv
  <1>2. ASSUME NEW e \in Editors, EditorCall(e)
        PROVE  CodesInv'
    <2> USE DEF CodesInv
    <2>0. CodesTyped
      OBVIOUS
    <2>1. ASSUME NEW s \in Shops, NEW new \in NewOffers, StartCreate(e, s, new)
          PROVE  CodesInv'
      <3>1. new \in RuleType
        BY PricingAssumption
      <3>2. LegalRules(new, s) /\ EditFrom(e, "insert", s, new) /\ editing' = editing
        BY <2>1 DEF StartCreate, ValidRules
      <3> QED
        BY <2>0, <3>1, <3>2, StartKeepsCodes DEF CodesTyped
    <2>2. ASSUME NEW s \in Shops, NEW change \in Changes, StartUpdate(e, s, change)
          PROVE  CodesInv'
      <3>1. /\ LegalRules(Set(offer[s].rules, change), s)
            /\ EditFrom(e, "update", s, change)
            /\ offer[s] # NoOffer
        BY <2>2 DEF StartUpdate, ValidRules, Findable
      <3>2. /\ editing \subseteq editing' /\ editing' \subseteq Shops
            /\ (\E d \in Editors : editPc[d] = "update" /\ editShop[d] = s) => s \in editing'
        BY <2>0, <2>2 DEF StartUpdate, CodesTyped
      <3> QED
        BY <3>1, <3>2, StartKeepsCodes
    <2>3. CASE InsertOffer(e)
      <3> DEFINE s == editShop[e]
                 fresh == [rules |-> edit[e], active |-> TRUE, deleted |-> FALSE]
                 new == IF offer[s] # NoOffer THEN offer[s] ELSE fresh
      <3>1. /\ s \in Shops /\ editPc[e] = "insert"
            /\ EndEdit(e, s, new) /\ withdrawn' = withdrawn
        BY <2>0, <2>3 DEF CodesTyped, InsertOffer
      <3>2. edit[e] \in RuleType /\ LegalRules(edit[e], s)
        BY <3>1, PricingAssumption DEF InsertsLegal
      <3>3. fresh \in OfferType /\ fresh.rules = edit[e]
        BY <3>2 DEF OfferType
      <3>4. s \in withdrawn => offer[s] # NoOffer /\ (~offer[s].active \/ offer[s].deleted)
        BY DEF StayWithdrawn
      <3>5. s \notin editing /\ offer[s] # NoOffer => LegalRules(offer[s].rules, s)
        BY <3>1 DEF DiscountLegal
      <3> HIDE DEF fresh
      <3>6. CASE offer[s] # NoOffer
        BY <3>1, <3>4, <3>5, <3>6, EndKeepsCodes
      <3>7. CASE offer[s] = NoOffer
        BY <3>1, <3>2, <3>3, <3>4, <3>7, EndKeepsCodes
      <3> QED
        BY <3>6, <3>7
    <2>4. CASE WriteUpdate(e)
      <3> DEFINE s == editShop[e]
                 merged == Set(offer[s].rules, edit[e])
      <3>1. /\ s \in Shops /\ editPc[e] = "update" /\ withdrawn' = withdrawn
            /\ EndEdit(e, s, IF Findable(s) THEN [offer[s] EXCEPT !.rules = merged] ELSE offer[s])
        BY <2>0, <2>4 DEF CodesTyped, WriteUpdate
      <3>2. /\ edit[e] \in Changes /\ offer[s] # NoOffer
            /\ s \notin editing => LegalRules(merged, s)
        BY <3>1 DEF UpdatesLegal
      <3>3. offer[s] \in OfferType
        BY <2>0, <3>1, <3>2 DEF CodesTyped
      <3>4. merged \in RuleType
        <4>1. offer[s].rules \in RuleType
          BY <3>3 DEF OfferType
        <4> QED
          BY <3>2, <4>1, SetTyped
      <3> HIDE DEF merged
      <3>5. s \in withdrawn => ~offer[s].active \/ offer[s].deleted
        BY DEF StayWithdrawn
      <3>6. s \notin editing => LegalRules(offer[s].rules, s)
        BY <3>1, <3>2 DEF DiscountLegal
      <3>7. CASE ~Findable(s)
        BY <3>1, <3>2, <3>3, <3>5, <3>6, <3>7, EndKeepsCodes
      <3>8. CASE Findable(s)
        <4> DEFINE new == [offer[s] EXCEPT !.rules = merged]
        <4>1. /\ new \in OfferType /\ new.rules = merged
              /\ new.active = offer[s].active /\ new.deleted = offer[s].deleted
          BY <3>3, <3>4 DEF OfferType
        <4>2. new # NoOffer
          BY <4>1, PricingAssumption
        <4>3. EndEdit(e, s, new)
          BY <3>1, <3>8
        <4> HIDE DEF new
        <4> QED
          BY <3>1, <3>2, <3>5, <4>1, <4>2, <4>3, EndKeepsCodes
      <3> QED
        BY <3>7, <3>8
    <2>5. ASSUME NEW s \in Shops, CancelOffer(e, s) \/ DeleteOffer(e, s)
          PROVE  CodesInv'
      <3>1. offer[s] \in OfferType /\ offer[s] # NoOffer /\ withdrawn' = withdrawn \cup {s}
        BY <2>0, <2>5 DEF CodesTyped, CancelOffer, DeleteOffer, Findable
      <3>2. PICK new \in OfferType :
                EndEdit(e, s, new) /\ new.rules = offer[s].rules /\ (~new.active \/ new.deleted)
        <4>1. CASE CancelOffer(e, s)
          <5> DEFINE cancelled == [offer[s] EXCEPT !.active = FALSE]
          <5>1. EndEdit(e, s, cancelled)
            BY <4>1 DEF CancelOffer
          <5>2. /\ cancelled \in OfferType /\ cancelled.rules = offer[s].rules
                /\ ~cancelled.active
            BY <3>1 DEF OfferType
          <5> QED
            BY <5>1, <5>2
        <4>2. CASE DeleteOffer(e, s)
          <5> DEFINE dropped == [offer[s] EXCEPT !.deleted = TRUE]
          <5>1. EndEdit(e, s, dropped)
            BY <4>2 DEF DeleteOffer
          <5>2. /\ dropped \in OfferType /\ dropped.rules = offer[s].rules
                /\ dropped.deleted
            BY <3>1 DEF OfferType
          <5> QED
            BY <5>1, <5>2
        <4> QED
          BY <2>5, <4>1, <4>2
      <3>3. new # NoOffer
        BY PricingAssumption
      <3>4. s \notin editing => LegalRules(offer[s].rules, s)
        BY <3>1 DEF DiscountLegal
      <3> QED
        BY <3>1, <3>2, <3>3, <3>4, EndKeepsCodes
    <2> QED
      BY <1>2, <2>1, <2>2, <2>3, <2>4, <2>5 DEF EditorCall
  <1>3. (\E e \in Editors : EditorCall(e)) \/ UNCHANGED codes
    BY DEF PricingNext, PricingTick, Reprice, ReviewCall, ReadCart, ReadPrices, ReadStocks,
           SkipDiscount, FindDiscount, PriceDiscount, ReviewStep, pricingVars
  <1> QED
    BY <1>1, <1>2, <1>3

LEMMA CodesInvariant == PricingSpec => []CodesInv
  BY CodesInitially, CodesInductive, PTL DEF PricingSpec

\* Validating the rules merged with what is stored keeps stored codes legal, in
\* spite of the time between reading and writing, unless two updates of one code
\* overlap.
THEOREM CodesStayLegal == PricingSpec => []DiscountLegal
  <1>1. CodesInv => DiscountLegal
    BY DEF CodesInv
  <1> QED
    BY <1>1, CodesInvariant, PTL

-----------------------------------------------------------------------------
(* The reviews *)

LEMMA FirstShop ==
    ASSUME NEW S \in SUBSET Shops, S # {}
    PROVE  Min(S) \in S /\ \A s \in S : Min(S) <= s
  <1>1. S \subseteq Nat
    BY PricingAssumption
  <1>2. PICK x \in S : \A y \in S : ~(<<y, x>> \in OpToRel(<, Nat))
    BY <1>1, WFMin, NatLessThanWellFounded, Zenon
  <1>3. ASSUME NEW y \in S
        PROVE  x <= y
    <2>1. x \in Nat /\ y \in Nat
      BY <1>1
    <2>2. <<y, x>> \in OpToRel(<, Nat) <=> y < x
      BY <2>1 DEF OpToRel
    <2>3. ~(y < x)
      BY <1>2, <2>2, Zenon
    <2> QED
      BY <2>1, <2>3
  <1>4. \E z \in S : \A y \in S : z <= y
    BY <1>3
  <1> QED
    BY <1>4 DEF Min

\* The codes of these shops were withdrawn before the review began, so it has not
\* passed them: it is at one of them or has them ahead.
Doomed(r) == WithCode \cap gone[r]

Ahead(r) ==
    /\ reviewPc[r] \in {"idle", "products", "stocks", "discount"} =>
          \A s \in Doomed(r) : s >= reviewShop[r]
    /\ reviewPc[r] = "price" => \A s \in Doomed(r) : s > reviewShop[r]
    /\ reviewPc[r] = "done" => Doomed(r) = {}

ReviewsInv ==
    /\ withdrawn \subseteq Shops
    /\ reviewPc \in [Reviews -> {"idle", "products", "stocks", "discount", "price", "refused", "done"}]
    /\ reviewShop \in [Reviews -> Shops]
    /\ gone \in [Reviews -> SUBSET withdrawn]
    /\ \A r \in Reviews : reviewPc[r] \in {"idle", "products", "stocks"} => reviewShop[r] = Min(Shops)
    /\ \A r \in Reviews : Ahead(r)

LEMMA ReviewsInitially == PricingInit => ReviewsInv
  <1> SUFFICES ASSUME PricingInit
               PROVE  ReviewsInv
    OBVIOUS
  <1>1. Min(Shops) \in Shops
    BY FirstShop, PricingAssumption
  <1> QED
    BY <1>1 DEF PricingInit, ReviewsInv, Ahead, Doomed

\* When the review leaves a shop that is not withdrawn, those ahead stay ahead.
LEMMA GoesOn ==
    ASSUME ReviewsInv, NEW r \in Reviews, gone' = gone,
           \A s \in Doomed(r) : s > reviewShop[r],
           ReviewStep(r, reviewPc[r], After(r)), GoOn(r)
    PROVE  /\ reviewPc' \in [Reviews -> {"idle", "products", "stocks", "discount", "price", "refused", "done"}]
           /\ reviewShop' \in [Reviews -> Shops]
           /\ reviewPc'[r] \in {"discount", "done"}
           /\ Ahead(r)'
           /\ \A q \in Reviews : q # r => reviewPc'[q] = reviewPc[q] /\ reviewShop'[q] = reviewShop[q]
  <1> USE DEF ReviewsInv
  <1>1. Doomed(r) \subseteq Later(r)
    BY PricingAssumption DEF Doomed, Later
  <1>2. reviewPc' = [reviewPc EXCEPT ![r] = After(r)] /\ Doomed(r)' = Doomed(r)
    BY DEF ReviewStep, Doomed
  <1>3. CASE Later(r) = {}
    BY <1>1, <1>2, <1>3 DEF After, GoOn, Ahead
  <1>4. CASE Later(r) # {}
    <2>1. Min(Later(r)) \in Later(r) /\ \A s \in Later(r) : Min(Later(r)) <= s
      BY <1>4, FirstShop DEF Later
    <2>2. /\ reviewPc'[r] = "discount"
          /\ reviewShop' = [reviewShop EXCEPT ![r] = Min(Later(r))]
      BY <1>2, <1>4 DEF After, GoOn
    <2>3. Min(Later(r)) \in Shops
      BY <2>1 DEF Later
    <2>4. \A s \in Doomed(r) : s >= Min(Later(r))
      BY <1>1, <2>1, PricingAssumption DEF Later
    <2> QED
      BY <1>2, <2>2, <2>3, <2>4 DEF After, Ahead
  <1> QED
    BY <1>3, <1>4

LEMMA ReviewsInductive ==
    ASSUME CodesInv, CodesInv', ReviewsInv, [PricingNext]_pricingVars
    PROVE  ReviewsInv'
  <1> USE DEF ReviewsInv
  <1> DEFINE Points == {"idle", "products", "stocks", "discount", "price", "refused", "done"}
  <1>1. CASE UNCHANGED review
    <2>1. withdrawn \subseteq withdrawn' /\ withdrawn' \subseteq Shops
      <3>1. withdrawn' \subseteq Shops
        BY DEF CodesInv, CodesTyped
      <3>2. withdrawn \subseteq withdrawn'
        BY DEF PricingNext, PricingTick, Reprice, EditorCall, StartCreate, StartUpdate, InsertOffer,
               WriteUpdate, CancelOffer, DeleteOffer, EditFrom, ReviewCall, ReadCart, ReadPrices,
               ReadStocks, SkipDiscount, FindDiscount, PriceDiscount, ReviewStep, codes, pricingVars
      <3> QED
        BY <3>1, <3>2
    <2>2. UNCHANGED <<reviewPc, reviewShop, gone>>
      BY <1>1 DEF review
    <2>3. gone' \in [Reviews -> SUBSET withdrawn']
      BY <2>1, <2>2
    <2>4. \A r \in Reviews : Ahead(r)'
      BY <2>2 DEF Ahead, Doomed
    <2> QED
      BY <2>1, <2>2, <2>3, <2>4
  <1>2. ASSUME NEW r \in Reviews, ReviewCall(r)
        PROVE  ReviewsInv'
    <2>0. UNCHANGED <<offer, withdrawn>>
      BY <1>2 DEF ReviewCall, ReadCart, ReadPrices, ReadStocks, SkipDiscount, FindDiscount,
                  PriceDiscount, ReviewStep, codes
    <2>a. Doomed(r) \subseteq Nat /\ reviewShop[r] \in Nat
      BY PricingAssumption DEF Doomed
    <2>1. ASSUME reviewPc' \in [Reviews -> Points], reviewShop' \in [Reviews -> Shops],
                 gone' \in [Reviews -> SUBSET withdrawn],
                 \A q \in Reviews : q # r => /\ reviewPc'[q] = reviewPc[q]
                                            /\ reviewShop'[q] = reviewShop[q]
                                            /\ gone'[q] = gone[q],
                 reviewPc'[r] \in {"idle", "products", "stocks"} => reviewShop'[r] = Min(Shops),
                 Ahead(r)'
          PROVE  ReviewsInv'
      BY <2>0, <2>1 DEF Ahead, Doomed
    <2>2. CASE ReadCart(r)
      <3>1. /\ reviewPc' \in [Reviews -> Points] /\ reviewPc'[r] \in {"products", "refused"}
            /\ \A q \in Reviews : q # r => reviewPc'[q] = reviewPc[q]
            /\ reviewPc[r] = "idle"
            /\ gone' = [gone EXCEPT ![r] = withdrawn] /\ reviewShop' = reviewShop
        BY <2>2 DEF ReadCart, ReviewStep
      <3>2. reviewShop[r] = Min(Shops) /\ Min(Shops) \in Shops /\ \A s \in Shops : Min(Shops) <= s
        BY <3>1, FirstShop, PricingAssumption
      <3>3. Ahead(r)'
        BY <3>1, <3>2, PricingAssumption DEF Ahead, Doomed
      <3> QED
        BY <2>1, <3>1, <3>2, <3>3
    <2>3. CASE ReadPrices(r) \/ ReadStocks(r)
      <3>1. /\ reviewPc' \in [Reviews -> Points] /\ reviewPc'[r] \in {"stocks", "discount", "refused"}
            /\ \A q \in Reviews : q # r => reviewPc'[q] = reviewPc[q]
            /\ reviewPc[r] \in {"products", "stocks"}
            /\ gone' = gone /\ reviewShop' = reviewShop
        BY <2>3 DEF ReadPrices, ReadStocks, ReviewStep
      <3>2. Ahead(r)'
        BY <3>1 DEF Ahead, Doomed
      <3> QED
        BY <2>1, <3>1, <3>2
    <2>4. CASE SkipDiscount(r)
      <3>1. /\ gone' = gone /\ GoOn(r) /\ ReviewStep(r, "discount", After(r))
            /\ reviewPc[r] = "discount" /\ reviewShop[r] \notin WithCode
        BY <2>4 DEF SkipDiscount, ReviewStep
      <3>2. reviewShop[r] \notin Doomed(r)
        BY <3>1 DEF Doomed
      <3>3. \A s \in Doomed(r) : s > reviewShop[r]
        BY <2>a, <3>1, <3>2 DEF Ahead
      <3> QED
        BY <2>1, <3>1, <3>3, GoesOn
    <2>5. CASE FindDiscount(r)
      <3>1. CASE Findable(reviewShop[r]) /\ Usable(offer[reviewShop[r]])
        <4>1. /\ reviewPc' = [reviewPc EXCEPT ![r] = "price"] /\ reviewPc[r] = "discount"
              /\ gone' = gone /\ reviewShop' = reviewShop
          BY <2>5, <3>1 DEF FindDiscount, ReviewStep
        <4>2. reviewShop[r] \notin withdrawn
          BY <3>1 DEF CodesInv, StayWithdrawn, Findable, Usable
        <4>3. reviewShop[r] \notin Doomed(r)
          BY <4>2 DEF Doomed
        <4>4. \A s \in Doomed(r) : s > reviewShop[r]
          BY <2>a, <4>1, <4>3 DEF Ahead
        <4>5. Ahead(r)'
          BY <4>1, <4>4 DEF Ahead, Doomed
        <4> QED
          BY <2>1, <4>1, <4>5
      <3>2. CASE ~(Findable(reviewShop[r]) /\ Usable(offer[reviewShop[r]]))
        <4>1. /\ reviewPc' = [reviewPc EXCEPT ![r] = "refused"]
              /\ gone' = gone /\ reviewShop' = reviewShop
          BY <2>5, <3>2 DEF FindDiscount, ReviewStep
        <4>2. Ahead(r)'
          BY <4>1 DEF Ahead, Doomed
        <4> QED
          BY <2>1, <4>1, <4>2
      <3> QED
        BY <3>1, <3>2
    <2>6. CASE PriceDiscount(r)
      <3>1. reviewPc[r] = "price" /\ gone' = gone
        BY <2>6 DEF PriceDiscount
      <3>2. \A s \in Doomed(r) : s > reviewShop[r]
        BY <3>1 DEF Ahead
      <3>3. CASE ReviewStep(r, "price", After(r)) /\ GoOn(r)
        BY <2>1, <3>1, <3>2, <3>3, GoesOn
      <3>4. CASE ReviewStep(r, "price", "refused") /\ UNCHANGED reviewShop
        <4>1. Ahead(r)'
          BY <3>1, <3>4 DEF Ahead, ReviewStep
        <4> QED
          BY <2>1, <3>1, <3>4, <4>1 DEF ReviewStep
      <3> QED
        BY <2>6, <3>3, <3>4 DEF PriceDiscount
    <2> QED
      BY <1>2, <2>2, <2>3, <2>4, <2>5, <2>6 DEF ReviewCall
  <1>3. (\E r \in Reviews : ReviewCall(r)) \/ UNCHANGED review
    BY DEF PricingNext, PricingTick, Reprice, EditorCall, StartCreate, StartUpdate, InsertOffer,
           WriteUpdate, CancelOffer, DeleteOffer, EditFrom, EndEdit, pricingVars
  <1> QED
    BY <1>1, <1>2, <1>3

\* A code that was withdrawn before a review began is not applied in it: no update
\* that was under way brings it back.
THEOREM WithdrawnCodesStay == PricingSpec => []WithdrawnStays
  <1>1. ReviewsInv => WithdrawnStays
    BY DEF ReviewsInv, Ahead, Doomed, WithdrawnStays
  <1>2. CodesInv /\ CodesInv' /\ ReviewsInv /\ [PricingNext]_pricingVars => ReviewsInv'
    BY ReviewsInductive
  <1> QED
    BY <1>1, <1>2, CodesInvariant, ReviewsInitially, PTL DEF PricingSpec

-----------------------------------------------------------------------------
(* Sums *)

LEMMA CoinsFinite ==
    ASSUME NEW D, IsFiniteSet(D), NEW f \in [D -> Nat]
    PROVE  IsFiniteSet(Coins(f)) /\ SumOf(f) \in Nat
  <1> DEFINE piles == {{x} \X (1..f[x]) : x \in D}
             pile == [x \in D |-> {x} \X (1..f[x])]
  <1>1. pile \in Surjection(D, piles)
    BY DEF Surjection
  <1>2. IsFiniteSet(piles)
    BY <1>1, FS_Surjection
  <1>3. ASSUME NEW x \in D
        PROVE  IsFiniteSet({x} \X (1..f[x]))
    <2> DEFINE one == {x}
               coins == 1..f[x]
    <2>1. IsFiniteSet(one)
      BY FS_Singleton
    <2>3. IsFiniteSet(coins)
      <3>1. f[x] \in Int
        OBVIOUS
      <3> QED
        BY <3>1, FS_Interval
    <2> HIDE DEF one, coins
    <2>2. IsFiniteSet(one \X coins)
      BY <2>1, <2>3, FS_Product
    <2> QED
      BY <2>2 DEF one, coins
  <1>4. \A T \in piles : IsFiniteSet(T)
    BY <1>3
  <1>5. Coins(f) = UNION piles
    BY DEF Coins
  <1>6. IsFiniteSet(Coins(f))
    <2> HIDE DEF piles
    <2> QED
      BY <1>2, <1>4, <1>5, FS_UNION
  <1> QED
    BY <1>6, FS_CardinalityType DEF SumOf

LEMMA CoinOf ==
    ASSUME NEW D, NEW f \in [D -> Nat], NEW x, NEW i
    PROVE  <<x, i>> \in Coins(f) <=> x \in D /\ i \in 1..f[x]
  BY DEF Coins

\* Smaller amounts of fewer things make a smaller sum.
LEMMA SumGrows ==
    ASSUME NEW D, IsFiniteSet(D), NEW E \in SUBSET D,
           NEW f \in [E -> Nat], NEW g \in [D -> Nat],
           \A x \in E : f[x] <= g[x]
    PROVE  /\ Coins(f) \subseteq Coins(g)
           /\ SumOf(f) <= SumOf(g) /\ SumOf(f) \in Nat /\ SumOf(g) \in Nat
  <1>1. Coins(f) \subseteq Coins(g)
    <2> SUFFICES ASSUME NEW c \in Coins(f) PROVE c \in Coins(g)
      OBVIOUS
    <2>1. PICK x \in E : c \in {x} \X (1..f[x])
      BY DEF Coins
    <2>2. PICK i \in 1..f[x] : c = <<x, i>>
      BY <2>1
    <2>3. i \in 1..g[x]
      BY <2>1, <2>2
    <2> QED
      BY <2>2, <2>3, CoinOf
  <1>2. IsFiniteSet(E)
    BY FS_Subset
  <1>3. IsFiniteSet(Coins(g)) /\ SumOf(f) \in Nat /\ SumOf(g) \in Nat
    BY <1>2, CoinsFinite
  <1>4. SumOf(f) <= SumOf(g)
    BY <1>1, <1>3, FS_Subset DEF SumOf
  <1> QED
    BY <1>1, <1>3, <1>4

\* Amounts that are no larger and have the same sum are the same.
LEMMA SameSum ==
    ASSUME NEW D, IsFiniteSet(D), NEW f \in [D -> Nat], NEW g \in [D -> Nat],
           \A x \in D : f[x] <= g[x],
           SumOf(f) = SumOf(g)
    PROVE  \A x \in D : f[x] = g[x]
  <1>1. Coins(f) \subseteq Coins(g) /\ IsFiniteSet(Coins(g))
    BY SumGrows, CoinsFinite
  <1>2. Coins(f) = Coins(g)
    BY <1>1, FS_Subset DEF SumOf
  <1> SUFFICES ASSUME NEW x \in D, f[x] < g[x] PROVE FALSE
    OBVIOUS
  <1>3. g[x] \in 1..g[x]
    OBVIOUS
  <1>4. <<x, g[x]>> \in Coins(g)
    BY <1>3, CoinOf
  <1>5. g[x] \in 1..f[x]
    BY <1>2, <1>4, CoinOf
  <1> QED
    BY <1>5

-----------------------------------------------------------------------------
(* Totals and discounts *)

LEMMA AmountGrows ==
    ASSUME NEW a \in Nat, NEW b \in Nat, NEW q \in Nat, a <= b
    PROVE  a * q \in Nat /\ b * q \in Nat /\ a * q <= b * q
  OBVIOUS

LEMMA TotalTyped ==
    ASSUME NEW P \in SUBSET Goods, NEW list \in [Goods -> Nat]
    PROVE  /\ IsFiniteSet(P)
           /\ [p \in P |-> list[p] * Quantity[p]] \in [P -> Nat]
           /\ Total(P, list) \in Nat
  <1>1. IsFiniteSet(P)
    BY PricingAssumption, FS_Subset
  <1>2. ASSUME NEW p \in P PROVE list[p] * Quantity[p] \in Nat
    <2>1. list[p] \in Nat /\ Quantity[p] \in Nat
      BY PricingAssumption
    <2> QED
      BY <2>1, AmountGrows
  <1>3. [p \in P |-> list[p] * Quantity[p]] \in [P -> Nat]
    BY <1>2
  <1> QED
    BY <1>1, <1>3, CoinsFinite DEF Total

\* What some of the products cost is part of what all cost.
LEMMA PartOfTotal ==
    ASSUME NEW P \in SUBSET Goods, NEW E \in SUBSET P, NEW list \in [Goods -> Nat]
    PROVE  Total(E, list) <= Total(P, list)
  <1> DEFINE f == [p \in E |-> list[p] * Quantity[p]]
             g == [p \in P |-> list[p] * Quantity[p]]
  <1>1. IsFiniteSet(P) /\ f \in [E -> Nat] /\ g \in [P -> Nat]
    BY TotalTyped
  <1>2. \A p \in E : f[p] = g[p] /\ g[p] \in Nat
    BY <1>1
  <1>3. \A p \in E : f[p] <= g[p]
    <2> HIDE DEF f, g
    <2> QED BY <1>2
  <1>4. SumOf(f) <= SumOf(g)
    <2> HIDE DEF f, g
    <2> QED BY <1>1, <1>3, SumGrows
  <1> QED
    BY <1>4 DEF Total

\* Prices none of which is larger, with the same total, have the same total over
\* any part.
LEMMA NoneDearer ==
    ASSUME NEW P \in SUBSET Goods, NEW E \in SUBSET P,
           NEW low \in [Goods -> Nat], NEW high \in [Goods -> Nat],
           \A p \in P : low[p] <= high[p],
           Total(P, low) = Total(P, high)
    PROVE  Total(E, low) = Total(E, high)
  <1> DEFINE f == [p \in P |-> low[p] * Quantity[p]]
             g == [p \in P |-> high[p] * Quantity[p]]
  <1>1. IsFiniteSet(P) /\ f \in [P -> Nat] /\ g \in [P -> Nat]
    BY TotalTyped
  <1>2. ASSUME NEW p \in P PROVE f[p] <= g[p]
    <2>1. low[p] \in Nat /\ high[p] \in Nat /\ Quantity[p] \in Nat /\ low[p] <= high[p]
      BY PricingAssumption
    <2> QED
      BY <2>1, AmountGrows
  <1>3. SumOf(f) = SumOf(g)
    BY DEF Total
  <1>4. \A p \in P : f[p] = g[p]
    <2> HIDE DEF f, g
    <2> QED BY <1>1, <1>2, <1>3, SameSum
  <1>5. [p \in E |-> low[p] * Quantity[p]] = [p \in E |-> high[p] * Quantity[p]]
    BY <1>4
  <1> QED
    BY <1>5 DEF Total

LEMMA EligibleSelected ==
    ASSUME NEW o, NEW s
    PROVE  Eligible(o, s) \subseteq Selected(s) /\ Selected(s) \subseteq Goods
  BY DEF Eligible, Selected

\* A discount is never more than the products it is for cost.
LEMMA DiscountBounded ==
    ASSUME NEW o \in RuleType, NEW s \in Shops, NEW list \in [Goods -> Nat]
    PROVE  /\ DiscountAmount(o, s, list) \in Nat
           /\ DiscountAmount(o, s, list) <= Total(Selected(s), list)
  <1> DEFINE total == Total(Eligible(o, s), list)
             raw == IF o.type = "percentage" THEN (o.value * total) \div 100 ELSE o.value
  <1>1. Eligible(o, s) \in SUBSET Selected(s) /\ Selected(s) \in SUBSET Goods
    BY EligibleSelected
  <1>2. total \in Nat /\ Total(Selected(s), list) \in Nat /\ total <= Total(Selected(s), list)
    BY <1>1, TotalTyped, PartOfTotal
  <1>3. o.value \in Nat
    BY DEF RuleType
  <1> HIDE DEF total
  <1>4. o.value * total \in Nat
    BY <1>2, <1>3, AmountGrows
  <1>5. raw \in Nat
    BY <1>3, <1>4
  <1> HIDE DEF raw
  <1>6. \E m \in {raw, total} : \A y \in {raw, total} : m <= y
    BY <1>2, <1>5
  <1>7. Min({raw, total}) \in {raw, total} /\ Min({raw, total}) <= total
    BY <1>6 DEF Min
  <1>8. DiscountAmount(o, s, list) = Min({raw, total})
    BY DEF DiscountAmount, raw, total
  <1> QED
    BY <1>2, <1>5, <1>7, <1>8

\* It depends on the prices by what the products it is for cost.
LEMMA DiscountByTotal ==
    ASSUME NEW o, NEW s, NEW a, NEW b,
           Total(Eligible(o, s), a) = Total(Eligible(o, s), b)
    PROVE  DiscountAmount(o, s, a) = DiscountAmount(o, s, b)
  BY DEF DiscountAmount

-----------------------------------------------------------------------------
(* The prices a review has read *)

\* The review has found the code of s, and the shop's total was the same when it
\* read the prices again.
Agreed(r, s) ==
    /\ rules[r][s] \in RuleType
    /\ Total(Selected(s), repriced[r][s]) = Total(Selected(s), priced[r])

\* The shops the review is past agree; the one whose price it is at has a code.
Agrees(r) ==
    /\ reviewPc[r] = "price" => rules[r][reviewShop[r]] \in RuleType
    /\ reviewPc[r] \in {"discount", "price"} =>
          \A s \in WithCode : s < reviewShop[r] => Agreed(r, s)
    /\ reviewPc[r] = "done" => \A s \in WithCode : Agreed(r, s)

PricesTyped ==
    /\ price \in [Goods -> Prices]
    /\ priced \in [Reviews -> [Goods -> Prices]]
    /\ repriced \in [Reviews -> [Shops -> [Goods -> Prices]]]
    /\ rules \in [Reviews -> [Shops -> RuleType \cup {NoOffer}]]

PricesInv == PricesTyped /\ \A r \in Reviews : Agrees(r)

\* Shops with a code that give nothing else than their code does, or have none.
LEMMA ShownRight ==
    ASSUME PricesInv, NEW r \in Reviews, reviewPc[r] = "done"
    PROVE  /\ TotalCheckout(r) >= FeeShipping
           /\ \A s \in WithCode :
                 \/ ShopDiscount(r, s) = DiscountAmount(rules[r][s], s, priced[r])
                 \/ /\ rules[r][s].appliesTo = "specific_products"
                    /\ \E p, q \in Selected(s) : /\ priced[r][p] < repriced[r][s][p]
                                                  /\ priced[r][q] > repriced[r][s][q]
  <1> DEFINE paid == [s \in Shops |-> Total(Selected(s), priced[r])]
             off == [s \in Shops |-> ShopDiscount(r, s)]
             fees == [s \in Shops |-> Cardinality(Selected(s)) * ShippingFee]
  <1>1. /\ \A s \in WithCode : Agreed(r, s)
        /\ priced[r] \in [Goods -> Prices]
        /\ \A s \in Shops : repriced[r][s] \in [Goods -> Prices]
    BY DEF PricesInv, PricesTyped, Agrees
  <1>2. /\ priced[r] \in [Goods -> Nat]
        /\ \A s \in Shops : repriced[r][s] \in [Goods -> Nat]
    BY <1>1, PricingAssumption
  <1>3. WithCode \subseteq Shops /\ IsFiniteSet(Shops)
    BY PricingAssumption
  <1>4. ASSUME NEW s \in Shops
        PROVE  /\ paid[s] \in Nat /\ off[s] \in Nat
               /\ off[s] <= paid[s]
    <2>1. Total(Selected(s), priced[r]) \in Nat
      BY <1>2, EligibleSelected, TotalTyped
    <2>2. CASE s \in WithCode
      <3>1. /\ rules[r][s] \in RuleType
            /\ Total(Selected(s), repriced[r][s]) = Total(Selected(s), priced[r])
        BY <1>1, <2>2 DEF Agreed
      <3>2. /\ DiscountAmount(rules[r][s], s, repriced[r][s]) \in Nat
            /\ DiscountAmount(rules[r][s], s, repriced[r][s]) <= Total(Selected(s), repriced[r][s])
        BY <1>2, <3>1, DiscountBounded
      <3>3. off[s] = DiscountAmount(rules[r][s], s, repriced[r][s])
        BY <2>2 DEF ShopDiscount
      <3> QED
        BY <2>1, <3>1, <3>2, <3>3
    <2>3. CASE s \notin WithCode
      <3>1. off[s] = 0
        BY <2>3 DEF ShopDiscount
      <3> QED
        BY <2>1, <3>1
    <2> QED
      BY <2>2, <2>3
  <1>5. /\ SumOf(off) <= SumOf(paid) /\ SumOf(off) \in Nat /\ SumOf(paid) \in Nat
    <2>1. off \in [Shops -> Nat] /\ paid \in [Shops -> Nat]
      BY <1>4
    <2> HIDE DEF off, paid
    <2> QED
      BY <1>3, <1>4, <2>1, SumGrows
  <1>6. FeeShipping \in Nat
    <2>1. ASSUME NEW s \in Shops PROVE fees[s] \in Nat
      <3>1. Cardinality(Selected(s)) \in Nat /\ ShippingFee \in Nat
        BY <1>2, EligibleSelected, TotalTyped, FS_CardinalityType, PricingAssumption
      <3> QED
        BY <3>1, AmountGrows
    <2>2. fees \in [Shops -> Nat]
      BY <2>1
    <2>3. SumOf(fees) \in Nat
      <3> HIDE DEF fees
      <3> QED BY <1>3, <2>2, CoinsFinite
    <2> QED
      BY <2>3 DEF FeeShipping
  <1>7. TotalCheckout(r) >= FeeShipping
    <2>1. TotalPrice(r) = SumOf(paid) /\ TotalDiscount(r) = SumOf(off)
      BY DEF TotalPrice, TotalDiscount
    <2>2. TotalCheckout(r) = SumOf(paid) + FeeShipping - SumOf(off)
      BY <2>1 DEF TotalCheckout
    <2> HIDE DEF paid, off
    <2> QED
      BY <1>5, <1>6, <2>2
  <1>8. ASSUME NEW s \in WithCode,
               ShopDiscount(r, s) # DiscountAmount(rules[r][s], s, priced[r])
        PROVE  /\ rules[r][s].appliesTo = "specific_products"
               /\ \E p, q \in Selected(s) : /\ priced[r][p] < repriced[r][s][p]
                                             /\ priced[r][q] > repriced[r][s][q]
    <2> DEFINE o == rules[r][s]
               a == priced[r]
               b == repriced[r][s]
    <2>1. /\ o \in RuleType
          /\ Total(Selected(s), b) = Total(Selected(s), a)
          /\ a \in [Goods -> Nat] /\ b \in [Goods -> Nat]
      BY <1>1, <1>2, <1>3 DEF Agreed
    <2>2. ShopDiscount(r, s) = DiscountAmount(o, s, b)
      BY DEF ShopDiscount
    <2>3. Total(Eligible(o, s), a) # Total(Eligible(o, s), b)
      BY <1>8, <2>2, DiscountByTotal
    <2>4. Selected(s) \in SUBSET Goods /\ Eligible(o, s) \in SUBSET Selected(s)
      BY EligibleSelected
    <2>5. o.appliesTo = "specific_products"
      <3>1. o.appliesTo \in {"all", "specific_products"}
        BY <2>1 DEF RuleType
      <3>2. o.appliesTo # "all"
        BY <2>1, <2>3 DEF Eligible
      <3> QED
        BY <3>1, <3>2
    <2>6. \A p \in Selected(s) : a[p] \in Nat /\ b[p] \in Nat
      BY <2>1, <2>4
    <2> HIDE DEF a, b, o
    <2>7. \E p \in Selected(s) : a[p] < b[p]
      <3> SUFFICES ASSUME ~ \E p \in Selected(s) : a[p] < b[p] PROVE FALSE
        OBVIOUS
      <3>1. \A p \in Selected(s) : b[p] <= a[p]
        BY <2>6
      <3>2. Total(Eligible(o, s), b) = Total(Eligible(o, s), a)
        BY <2>1, <2>4, <3>1, NoneDearer
      <3> QED
        BY <2>3, <3>2
    <2>8. \E q \in Selected(s) : a[q] > b[q]
      <3> SUFFICES ASSUME ~ \E q \in Selected(s) : a[q] > b[q] PROVE FALSE
        OBVIOUS
      <3>1. \A q \in Selected(s) : a[q] <= b[q]
        BY <2>6
      <3>2. Total(Eligible(o, s), a) = Total(Eligible(o, s), b)
        BY <2>1, <2>4, <3>1, NoneDearer
      <3> QED
        BY <2>3, <3>2
    <2> QED
      BY <2>5, <2>7, <2>8 DEF a, b, o
  <1> QED
    BY <1>7, <1>8

LEMMA PricesInitially == PricingInit => PricesInv
  <1> SUFFICES ASSUME PricingInit PROVE PricesInv
    OBVIOUS
  <1>1. PricesTyped
    BY DEF PricingInit, PricesTyped
  <1> QED
    BY <1>1 DEF PricesInv, PricingInit, Agrees

\* A review that leaves a shop has agreed with those it is past.
LEMMA AgreesOn ==
    ASSUME ReviewsInv, NEW r \in Reviews, Agrees(r),
           reviewPc[r] \in {"discount", "price"},
           priced' = priced,
           \A s \in Shops : s < reviewShop[r] => rules'[r][s] = rules[r][s] /\ repriced'[r][s] = repriced[r][s],
           NEW t \in Shops, t = reviewShop[r], t \in WithCode => Agreed(r, t)',
           ReviewStep(r, reviewPc[r], After(r)), GoOn(r)
    PROVE  Agrees(r)'
  <1>1. /\ reviewPc \in [Reviews -> {"idle", "products", "stocks", "discount", "price", "refused", "done"}]
        /\ reviewShop \in [Reviews -> Shops]
    BY DEF ReviewsInv
  <1>2. reviewPc'[r] = After(r)
    BY <1>1 DEF ReviewStep
  <1>3. WithCode \subseteq Shops /\ Shops \subseteq Nat /\ reviewShop[r] \in Nat
    BY <1>1, PricingAssumption
  <1>4. ASSUME NEW s \in WithCode, s < reviewShop[r] PROVE Agreed(r, s)'
    BY <1>3, <1>4 DEF Agrees, Agreed
  <1>5. ASSUME NEW s \in WithCode, s <= reviewShop[r] PROVE Agreed(r, s)'
    <2>1. CASE s = t
      BY <2>1
    <2>2. CASE s < reviewShop[r]
      BY <1>4, <2>2
    <2> QED
      BY <1>3, <1>5, <2>1, <2>2
  <1>6. CASE Later(r) = {}
    <2>1. \A s \in WithCode : s <= reviewShop[r]
      BY <1>3, <1>6 DEF Later
    <2>2. reviewPc'[r] = "done"
      BY <1>2, <1>6 DEF After
    <2> QED
      BY <1>5, <2>1, <2>2 DEF Agrees
  <1>7. CASE Later(r) # {}
    <2>1. Min(Later(r)) \in Later(r) /\ \A s \in Later(r) : Min(Later(r)) <= s
      BY <1>7, FirstShop DEF Later
    <2>2. /\ reviewPc'[r] = "discount"
          /\ reviewShop'[r] = Min(Later(r))
      BY <1>1, <1>2, <1>7 DEF After, GoOn
    <2>3. Min(Later(r)) \in Nat
      BY <1>3, <2>1 DEF Later
    <2>4. \A s \in WithCode : s < Min(Later(r)) => s <= reviewShop[r]
      BY <1>3, <2>1, <2>3 DEF Later
    <2> QED
      BY <1>5, <2>2, <2>4 DEF Agrees
  <1> QED
    BY <1>6, <1>7

LEMMA PricesInductive ==
    ASSUME CodesInv, ReviewsInv, PricesInv, [PricingNext]_pricingVars
    PROVE  PricesInv'
  <1> DEFINE Points == {"idle", "products", "stocks", "discount", "price", "refused", "done"}
  <1>1. /\ PricesTyped
        /\ reviewPc \in [Reviews -> Points] /\ reviewShop \in [Reviews -> Shops]
    BY DEF PricesInv, ReviewsInv
  <1>2. CASE UNCHANGED review
    <2>1. /\ reviewPc' = reviewPc /\ reviewShop' = reviewShop /\ priced' = priced
          /\ rules' = rules /\ repriced' = repriced
      BY <1>2 DEF review
    <2>2. price' \in [Goods -> Prices]
      <3>1. CASE \E p \in Goods : Reprice(p)
        BY <1>1, <3>1 DEF Reprice, PricesTyped
      <3>2. CASE ~ \E p \in Goods : Reprice(p)
        <4>1. price' = price
          BY <3>2 DEF PricingNext, PricingTick, EditorCall, StartCreate, StartUpdate, InsertOffer,
                      WriteUpdate, CancelOffer, DeleteOffer, EditFrom, EndEdit, ReviewCall, ReadCart,
                      ReadPrices, ReadStocks, SkipDiscount, FindDiscount, PriceDiscount, ReviewStep,
                      pricingVars
        <4> QED
          BY <1>1, <4>1 DEF PricesTyped
      <3> QED
        BY <3>1, <3>2
    <2>3. PricesTyped'
      BY <1>1, <2>1, <2>2 DEF PricesTyped
    <2>4. ASSUME NEW r \in Reviews PROVE Agrees(r)'
      BY <2>1 DEF PricesInv, Agrees, Agreed
    <2> QED
      BY <2>3, <2>4 DEF PricesInv
  <1>3. ASSUME NEW r \in Reviews, ReviewCall(r)
        PROVE  PricesInv'
    <2>1. /\ price' = price
          /\ \A q \in Reviews : q # r => reviewPc'[q] = reviewPc[q]
      BY <1>1, <1>3 DEF ReviewCall, ReadCart, ReadPrices, ReadStocks, SkipDiscount, FindDiscount,
                        PriceDiscount, ReviewStep
    <2>2. ASSUME PricesTyped', Agrees(r)',
                 \A q \in Reviews : q # r =>
                     /\ reviewShop'[q] = reviewShop[q] /\ priced'[q] = priced[q]
                     /\ rules'[q] = rules[q] /\ repriced'[q] = repriced[q]
          PROVE  PricesInv'
      <3>1. ASSUME NEW q \in Reviews, q # r PROVE Agrees(q)'
        BY <2>1, <2>2, <3>1 DEF PricesInv, Agrees, Agreed
      <3> QED
        BY <2>2, <3>1 DEF PricesInv
    <2>3. CASE ReadCart(r)
      <3>1. /\ reviewPc'[r] \in {"products", "refused"}
            /\ UNCHANGED <<reviewShop, priced, rules, repriced>>
        BY <1>1, <2>3 DEF ReadCart, ReviewStep
      <3>2. PricesTyped' /\ Agrees(r)'
        BY <1>1, <2>1, <3>1 DEF PricesTyped, Agrees
      <3> QED
        BY <2>2, <3>1, <3>2
    <2>4. CASE ReadPrices(r)
      <3>1. /\ reviewPc'[r] = "stocks"
            /\ priced' = [priced EXCEPT ![r] = price]
            /\ UNCHANGED <<reviewShop, rules, repriced>>
        BY <1>1, <2>4 DEF ReadPrices, ReviewStep
      <3>2. PricesTyped' /\ Agrees(r)'
        BY <1>1, <2>1, <3>1 DEF PricesTyped, Agrees
      <3> QED
        BY <1>1, <2>2, <3>1, <3>2 DEF PricesTyped
    <2>5. CASE ReadStocks(r)
      <3>1. /\ reviewPc[r] = "stocks" /\ reviewPc'[r] \in {"discount", "refused"}
            /\ UNCHANGED <<reviewShop, priced, rules, repriced>>
        BY <1>1, <2>5 DEF ReadStocks, ReviewStep
      <3>2. reviewShop[r] = Min(Shops) /\ \A s \in Shops : Min(Shops) <= s
        BY <3>1, FirstShop, PricingAssumption DEF ReviewsInv
      <3>3. \A s \in WithCode : ~(s < reviewShop[r])
        <4> TAKE s \in WithCode
        <4>1. s \in Shops /\ s \in Nat /\ reviewShop[r] \in Nat
          BY <1>1, PricingAssumption
        <4>2. reviewShop[r] <= s
          BY <3>2, <4>1
        <4> QED
          BY <4>1, <4>2
      <3>4. PricesTyped' /\ Agrees(r)'
        BY <1>1, <2>1, <3>1, <3>3 DEF PricesTyped, Agrees
      <3> QED
        BY <2>2, <3>1, <3>4
    <2>6. CASE SkipDiscount(r)
      <3>1. /\ reviewPc[r] = "discount" /\ reviewShop[r] \notin WithCode
            /\ ReviewStep(r, reviewPc[r], After(r)) /\ GoOn(r)
            /\ UNCHANGED <<priced, rules, repriced>>
        BY <2>6 DEF SkipDiscount, ReviewStep
      <3>2. /\ \A q \in Reviews : q # r => reviewShop'[q] = reviewShop[q]
        BY <1>1, <3>1 DEF GoOn
      <3>3. PricesTyped'
        BY <1>1, <2>1, <3>1 DEF PricesTyped
      <3>4. Agrees(r)'
        BY <1>1, <3>1, AgreesOn DEF PricesInv
      <3> QED
        BY <2>2, <3>1, <3>2, <3>3, <3>4
    <2>7. CASE FindDiscount(r)
      <3> DEFINE t == reviewShop[r]
      <3>1. /\ reviewPc[r] = "discount" /\ t \in WithCode /\ t \in Shops
            /\ UNCHANGED <<reviewShop, priced, repriced>>
        BY <1>1, <2>7 DEF FindDiscount, ReviewStep
      <3>2. CASE Findable(t) /\ Usable(offer[t])
        <4>1. /\ reviewPc'[r] = "price"
              /\ rules' = [rules EXCEPT ![r][t] = offer[t].rules]
          BY <1>1, <2>7, <3>2 DEF FindDiscount, ReviewStep
        <4>2. offer[t].rules \in RuleType
          <5>1. offer[t] \in OfferType
            BY <3>1, <3>2 DEF CodesInv, CodesTyped, Findable
          <5> QED
            BY <5>1 DEF OfferType
        <4>3. rules' \in [Reviews -> [Shops -> RuleType \cup {NoOffer}]]
          BY <1>1, <3>1, <4>1, <4>2 DEF PricesTyped
        <4>4. /\ rules'[r][t] \in RuleType
              /\ \A s \in Shops : s # t => rules'[r][s] = rules[r][s]
              /\ \A q \in Reviews : q # r => rules'[q] = rules[q]
          BY <1>1, <3>1, <4>1, <4>2 DEF PricesTyped
        <4>5. PricesTyped'
          BY <1>1, <2>1, <3>1, <4>3 DEF PricesTyped
        <4>6. \A s \in WithCode : s < t => s \in Shops /\ s # t
          BY <3>1, PricingAssumption
        <4>7. ASSUME NEW s \in WithCode, s < t PROVE Agreed(r, s)'
          BY <3>1, <4>4, <4>6, <4>7 DEF PricesInv, Agrees, Agreed
        <4>8. Agrees(r)'
          BY <3>1, <4>1, <4>4, <4>7 DEF Agrees
        <4> QED
          BY <2>2, <3>1, <4>4, <4>5, <4>8
      <3>3. CASE ~(Findable(t) /\ Usable(offer[t]))
        <4>1. /\ reviewPc'[r] = "refused" /\ rules' = rules
          BY <1>1, <2>7, <3>3 DEF FindDiscount, ReviewStep
        <4>2. PricesTyped' /\ Agrees(r)'
          BY <1>1, <2>1, <3>1, <4>1 DEF PricesTyped, Agrees
        <4> QED
          BY <2>2, <3>1, <4>1, <4>2
      <3> QED
        BY <3>2, <3>3
    <2>8. CASE PriceDiscount(r)
      <3> DEFINE t == reviewShop[r]
      <3>1. /\ reviewPc[r] = "price" /\ t \in Shops
            /\ repriced' = [repriced EXCEPT ![r][t] = price]
            /\ UNCHANGED <<priced, rules>>
        BY <1>1, <2>8 DEF PriceDiscount
      <3>2. /\ repriced'[r][t] = price
            /\ \A s \in Shops : s # t => repriced'[r][s] = repriced[r][s]
            /\ \A q \in Reviews : q # r => repriced'[q] = repriced[q]
            /\ repriced' \in [Reviews -> [Shops -> [Goods -> Prices]]]
        BY <1>1, <3>1 DEF PricesTyped
      <3>3. PricesTyped'
        BY <1>1, <2>1, <3>1, <3>2 DEF PricesTyped
      <3>4. CASE /\ Total(Selected(t), price) = Total(Selected(t), priced[r])
                 /\ ReviewStep(r, "price", After(r)) /\ GoOn(r)
        <4>1. \A s \in Shops : s < t => rules'[r][s] = rules[r][s] /\ repriced'[r][s] = repriced[r][s]
          <5>1. \A s \in Shops : s < t => s # t
            BY <3>1, PricingAssumption
          <5> QED
            BY <3>1, <3>2, <5>1
        <4>2. rules[r][t] \in RuleType
          BY <3>1 DEF PricesInv, Agrees
        <4>3. \A q \in Reviews : q # r => reviewShop'[q] = reviewShop[q]
          BY <1>1, <3>4 DEF GoOn
        <4>4. Agrees(r)'
          <5>1. Agrees(r)
            BY DEF PricesInv
          <5>2. PICK v \in Shops : v = reviewShop[r]
            BY <3>1
          <5>3. Agreed(r, v)'
            BY <3>1, <3>2, <3>4, <4>2, <5>2 DEF Agreed
          <5> QED
            BY <3>1, <3>4, <4>1, <5>1, <5>2, <5>3, AgreesOn
        <4> QED
          BY <2>2, <3>1, <3>2, <3>3, <4>3, <4>4
      <3>5. CASE ReviewStep(r, "price", "refused") /\ UNCHANGED reviewShop
        <4>1. reviewPc'[r] = "refused"
          BY <1>1, <3>5 DEF ReviewStep
        <4>2. Agrees(r)'
          BY <4>1 DEF Agrees
        <4> QED
          BY <2>2, <3>1, <3>2, <3>3, <3>5, <4>2
      <3> QED
        BY <2>8, <3>4, <3>5 DEF PriceDiscount
    <2> QED
      BY <1>3, <2>3, <2>4, <2>5, <2>6, <2>7, <2>8 DEF ReviewCall
  <1>4. (\E r \in Reviews : ReviewCall(r)) \/ UNCHANGED review
    BY DEF PricingNext, PricingTick, Reprice, EditorCall, StartCreate, StartUpdate, InsertOffer,
           WriteUpdate, CancelOffer, DeleteOffer, EditFrom, EndEdit, pricingVars
  <1> QED
    BY <1>2, <1>3, <1>4

\* What a review answers costs no less than the shipping, and takes off what each
\* code gives on the prices shown, but for a code for specific products whose prices
\* moved against each other.
THEOREM DiscountsFitPrices == PricingSpec => []PaidAsShown
  <1>1. PricesInv => PaidAsShown
    BY ShownRight DEF PaidAsShown
  <1>2. CodesInv /\ CodesInv' /\ ReviewsInv /\ [PricingNext]_pricingVars => ReviewsInv'
    BY ReviewsInductive
  <1>3. CodesInv /\ ReviewsInv /\ PricesInv /\ [PricingNext]_pricingVars => PricesInv'
    BY PricesInductive
  <1> QED
    BY <1>1, <1>2, <1>3, CodesInvariant, ReviewsInitially, PricesInitially, PTL DEF PricingSpec

-----------------------------------------------------------------------------
(* Cart *)

\* What Operation promises of its members.
LEMMA OperationTyped ==
    ASSUME NEW c \in Calls
    PROVE  /\ Kind(c) \in {"add", "set", "remove", "clear"}
           /\ Kind(c) # "clear" => Product(c) \in Products
           /\ Kind(c) \in {"add", "set"} => Operation[c].quantity \in Nat
  <1>1. Operation[c] \in Operations
    BY CartAssumption
  <1>2. CASE Operation[c] \in [kind : {"add", "set"}, product : Products,
                               quantity : Nat \ {0}]
    BY <1>2 DEF Kind, Product
  <1>3. CASE Operation[c] \in [kind : {"remove"}, product : Products]
    BY <1>3 DEF Kind, Product
  <1>4. CASE Operation[c] \in [kind : {"clear"}]
    BY <1>4 DEF Kind
  <1> QED
    BY <1>1, <1>2, <1>3, <1>4 DEF Operations

\* Replacing one quantity by another leaves quantities.
LEMMA QuantityReplaced ==
    ASSUME NEW f \in [Products -> Nat], NEW x, NEW n \in Nat
    PROVE  [f EXCEPT ![x] = n] \in [Products -> Nat]
  OBVIOUS

\* The items a call saves are quantities of products again.
LEMMA EditedTyped ==
    ASSUME CartTypeOK, NEW c \in Calls
    PROVE  /\ Edited(c) \in [Products -> Nat]
           /\ Edited(c) # NoCart
  <1>1. copy[c] # NoCart => copy[c] \in [Products -> Nat]
    BY DEF CartTypeOK
  <1>2. Empty \in [Products -> Nat]
    BY DEF Empty
  <1>3. Kind(c) \in {"add", "set"} => Resulting(c) \in Nat
    BY <1>1, OperationTyped DEF Resulting, Has
  <1>4. Edited(c) \in [Products -> Nat]
    <2> DEFINE items == IF copy[c] = NoCart THEN Empty ELSE copy[c]
    <2>1. items \in [Products -> Nat]
      BY <1>1, <1>2
    <2> HIDE DEF items
    <2>3. CASE Kind(c) \in {"add", "set"}
      <3>1. Edited(c) = [items EXCEPT ![Product(c)] = Resulting(c)]
        BY <2>3 DEF Edited, items
      <3> QED
        BY <3>1, <2>1, <2>3, <1>3, QuantityReplaced
    <2>4. CASE Kind(c) = "remove"
      <3>1. Edited(c) = [items EXCEPT ![Product(c)] = 0]
        BY <2>4 DEF Edited, items
      <3> QED
        BY <3>1, <2>1, QuantityReplaced
    <2>5. CASE Kind(c) = "clear"
      <3>1. Edited(c) = Empty
        BY <2>5 DEF Edited
      <3> QED
        BY <3>1, <1>2
    <2> QED
      BY <2>3, <2>4, <2>5, OperationTyped
  <1> QED
    BY <1>4, CartAssumption

-----------------------------------------------------------------------------
(* The inductive invariant *)

Active(c)  == pc[c] # "done"
Holding(c) == pc[c] \in {"check", "save"}

\* Changes of the cart when the copy was read.
ReadAt(c) == copyVersion[c] + (IF copy[c] = NoCart THEN 0 ELSE 1)

\* A copy is older than the cart, or it is the cart.
CopySound(c) ==
    Holding(c) =>
        /\ copyVersion[c] <= version
        /\ copy[c] = NoCart => copyVersion[c] = 0
        /\ copy[c] # NoCart => cart # NoCart
        /\ copy[c] # NoCart /\ copyVersion[c] = version => copy[c] = cart

\* What a call is about to save is legal on its copy.
Checked(c) ==
    pc[c] = "save" =>
        /\ ~Refusable(c)
        /\ Kind(c) \in {"add", "set"} => Resulting(c) <= Stock[Product(c)]

\* Every lost race is a change by someone else.
Counted(c) ==
    /\ Active(c) => attempts[c] < MaxAttempts /\ answer[c] = "none"
    /\ attempts[c] <= CartChanges
    /\ Holding(c) => attempts[c] <= ReadAt(c)
    /\ answer[c] = "conflict" => attempts[c] = MaxAttempts

CartInv ==
    /\ CartTypeOK
    /\ cart = NoCart => version = 0
    /\ \A c \in Calls : CopySound(c) /\ Checked(c) /\ Counted(c)

\* A save that finds its version saves what it made of the cart itself.
LEMMA UnchangedIsCurrent ==
    ASSUME CartInv, NEW c \in Calls, pc[c] = "save", Unchanged(c)
    PROVE  copy[c] = cart
  BY DEF CartInv, CopySound, Holding, Unchanged

\* A save that does not has been overtaken by a change.
LEMMA RaceIsChange ==
    ASSUME CartInv, NEW c \in Calls, pc[c] = "save", ~Unchanged(c)
    PROVE  ReadAt(c) + 1 <= CartChanges
  <1>0. /\ version \in Nat /\ copyVersion[c] \in Nat
        /\ CopySound(c) /\ Holding(c)
    BY DEF CartInv, CartTypeOK, Holding
  <1>1. CASE copy[c] = NoCart
    <2>1. ReadAt(c) = 0
      BY <1>0, <1>1 DEF ReadAt, CopySound
    <2>2. CartChanges = version + 1
      BY <1>1 DEF CartChanges, Unchanged
    <2> QED
      BY <1>0, <2>1, <2>2
  <1>2. CASE copy[c] # NoCart
    <2>1. ReadAt(c) = copyVersion[c] + 1 /\ CartChanges = version + 1
      BY <1>0, <1>2 DEF ReadAt, CopySound, CartChanges
    <2>2. copyVersion[c] < version
      BY <1>0, <1>2 DEF CopySound, Unchanged
    <2> QED
      BY <1>0, <2>1, <2>2
  <1> QED
    BY <1>1, <1>2

\* A step keeps the types.
LEMMA StepTyped ==
    ASSUME CartInv, NEW c \in Calls, CallStep(c)
    PROVE  CartTypeOK'
  <1> USE DEF CartTypeOK, document, read, End
  <1>0. CartTypeOK /\ Counted(c)
    BY DEF CartInv
  <1>1. CASE FindCart(c)
    BY <1>0, <1>1 DEF FindCart
  <1>2. CASE Refuse(c)
    BY <1>0, <1>2 DEF Refuse
  <1>3. CASE Validate(c)
    BY <1>0, <1>3 DEF Validate
  <1>4. CASE Unavailable(c)
    BY <1>0, <1>4 DEF Unavailable
  <1>5. CASE Save(c)
    BY <1>0, <1>5, EditedTyped DEF Save
  <1>6. CASE LoseRace(c)
    <2>1. attempts[c] + 1 \in 0..MaxAttempts
      BY <1>0, <1>6, CartAssumption DEF LoseRace, Counted, Active
    <2> QED
      BY <1>0, <1>6, <2>1 DEF LoseRace
  <1>7. CASE CallFails(c)
    BY <1>0, <1>7 DEF CallFails
  <1> QED
    BY <1>1, <1>2, <1>3, <1>4, <1>5, <1>6, <1>7 DEF CallStep

\* What a save does to the document.
LEMMA SaveChanges ==
    ASSUME CartInv, NEW c \in Calls, Save(c)
    PROVE  /\ cart' \in [Products -> Nat]
           /\ cart' # NoCart
           /\ version <= version'
           /\ cart # NoCart /\ version' = version => cart' = cart
           /\ cart = NoCart => version' = 0
           /\ CartChanges <= CartChanges'
  <1>1. CartTypeOK /\ copy[c] = cart
    BY UnchangedIsCurrent DEF CartInv, Save
  <1>2. cart' = Edited(c) /\ cart' \in [Products -> Nat] /\ cart' # NoCart
    BY <1>1, EditedTyped DEF Save
  <1>3. version' \in {version, version + 1}
    BY DEF Save
  <1>4. cart # NoCart /\ version' = version => cart' = cart
    BY <1>1, <1>2 DEF Save, CartTypeOK
  <1>5. cart = NoCart => version' = 0
    BY <1>1 DEF Save, CartInv
  <1>6. version \in Nat /\ version <= version'
    BY <1>1, <1>3 DEF CartTypeOK
  <1>7. CartChanges <= CartChanges'
    <2>1. CartChanges' = version' + 1
      BY <1>2 DEF CartChanges
    <2>2. CartChanges = version \/ CartChanges = version + 1
      BY <1>6 DEF CartChanges
    <2>3. version' = version \/ version' = version + 1
      BY <1>3
    <2> QED
      BY <2>1, <2>2, <2>3, <1>6
  <1> QED
    BY <1>2, <1>4, <1>5, <1>6, <1>7

\* A step of one call keeps what is known of each call d.
LEMMA StepKnown ==
    ASSUME CartInv, CartTypeOK', NEW c \in Calls, CallStep(c), NEW d \in Calls
    PROVE  /\ cart' = NoCart => version' = 0
           /\ CopySound(d)' /\ Checked(d)' /\ Counted(d)'
  <1> USE DEF document, read, End
  <1>0. /\ CartTypeOK /\ CopySound(d) /\ Checked(d) /\ Counted(d)
        /\ CopySound(c) /\ Checked(c) /\ Counted(c)
        /\ cart = NoCart => version = 0
    BY DEF CartInv
  <1> DEFINE Known == CopySound(d)' /\ Checked(d)' /\ Counted(d)'
  <1>1. CASE UNCHANGED document /\ \E how \in {"refused", "failed"} :
                 End(c, how) /\ UNCHANGED <<read, attempts>>
    BY <1>0, <1>1 DEF CartTypeOK, CopySound, Checked, Counted, Holding, Active,
                      ReadAt, CartChanges, Refusable, Resulting, Has, Full, Distinct
  <1>2. CASE FindCart(c)
    <2>1. CopySound(d)'
      BY <1>0, <1>2 DEF FindCart, CartTypeOK, CopySound, Holding
    <2>2. Checked(d)'
      <3>1. CASE d = c
        BY <3>1, <1>0, <1>2 DEF FindCart, CartTypeOK, Checked
      <3>2. CASE d # c
        <4>1. pc'[d] = pc[d] /\ copy'[d] = copy[d]
          BY <3>2, <1>0, <1>2 DEF FindCart, CartTypeOK
        <4> QED
          BY <4>1, <1>0 DEF Checked, Refusable, Resulting, Has, Full, Distinct
      <3> QED
        BY <3>1, <3>2
    <2>3. Counted(d)'
      <3>1. CartChanges' = CartChanges /\ attempts' = attempts /\ answer' = answer
        BY <1>2 DEF FindCart, CartChanges
      <3>2. CASE d = c
        <4>1. ReadAt(d)' = CartChanges
          BY <3>2, <1>0, <1>2 DEF FindCart, CartTypeOK, ReadAt, CartChanges
        <4>2. pc[d] = "read" /\ pc'[d] = "check"
          BY <3>2, <1>0, <1>2 DEF FindCart, CartTypeOK
        <4> QED
          BY <3>1, <4>1, <4>2, <1>0 DEF Counted, Active
      <3>3. CASE d # c
        <4>1. pc'[d] = pc[d] /\ ReadAt(d)' = ReadAt(d)
          BY <3>3, <1>0, <1>2 DEF FindCart, CartTypeOK, ReadAt
        <4> QED
          BY <3>1, <4>1, <1>0 DEF Counted, Active, Holding
      <3> QED
        BY <3>2, <3>3
    <2> QED
      BY <1>0, <1>2, <2>1, <2>2, <2>3 DEF FindCart
  <1>3. CASE Validate(c)
    BY <1>0, <1>3 DEF Validate, CartTypeOK, CopySound, Checked, Counted, Holding,
              Active, ReadAt, CartChanges, Refusable, Resulting, Has, Full, Distinct
  <1>4. CASE Save(c)
    <2>1. /\ cart' # NoCart /\ version <= version' /\ CartChanges <= CartChanges'
          /\ cart # NoCart /\ version' = version => cart' = cart
          /\ cart = NoCart => version' = 0
      BY <1>4, SaveChanges
    <2>2. CopySound(d)'
      BY <1>0, <1>4, <2>1 DEF Save, CartTypeOK, CopySound, Holding
    <2>3. Checked(d)'
      <3>1. (pc[d] = "save" \/ pc'[d] # "save") /\ copy' = copy
        BY <1>0, <1>4 DEF Save, CartTypeOK
      <3> QED
        BY <3>1, <1>0 DEF Checked, Refusable, Resulting, Has, Full, Distinct
    <2>4. Counted(d)'
      BY <1>0, <1>4, <2>1 DEF Save, CartTypeOK, Counted, Holding, Active, ReadAt,
                              CartChanges
    <2> QED
      BY <2>1, <2>2, <2>3, <2>4
  <1>5. CASE LoseRace(c)
    <2>1. ReadAt(c) + 1 <= CartChanges
      BY <1>5, RaceIsChange DEF LoseRace
    <2>2. CopySound(d)'
      BY <1>0, <1>5 DEF LoseRace, CartTypeOK, CopySound, Holding
    <2>3. Checked(d)'
      BY <1>0, <1>5 DEF LoseRace, CartTypeOK, Checked, Refusable, Resulting, Has,
                        Full, Distinct
    <2>4. Counted(d)'
      BY <1>0, <1>5, <2>1, CartAssumption
         DEF LoseRace, LastAttempt, CartTypeOK, Counted, Holding, Active, ReadAt,
             CartChanges
    <2> QED
      BY <1>0, <1>5, <2>2, <2>3, <2>4 DEF LoseRace
  <1> QED
    BY <1>1, <1>2, <1>3, <1>4, <1>5 DEF CallStep, Refuse, Unavailable, CallFails

\* CartInv holds throughout.
LEMMA CartInvariant == Spec => []CartInv
  <1>1. Init => CartInv
    BY CartAssumption DEF Init, CartInv, CartTypeOK, CopySound, Checked, Counted,
                          Holding, Active, ReadAt, CartChanges
  <1>2. CartInv /\ [Next]_vars => CartInv'
    <2> SUFFICES ASSUME CartInv, [Next]_vars PROVE CartInv'
      OBVIOUS
    <2>1. ASSUME NEW c \in Calls, CallStep(c) PROVE CartInv'
      BY <2>1, StepTyped, StepKnown DEF CartInv
    <2>2. CASE UNCHANGED vars
      BY <2>2 DEF vars, document, read, CartInv, CartTypeOK, CopySound, Checked,
                  Counted, Holding, Active, ReadAt, CartChanges, Refusable, Resulting,
                  Has, Full, Distinct
    <2> QED
      BY <2>1, <2>2 DEF Next
  <1> QED
    BY <1>1, <1>2, PTL DEF Spec

\* The values of Cart's variables; no call attempts more often than it may.
THEOREM CartTypeCorrect == Spec => []CartTypeOK
  <1>1. CartInv => CartTypeOK
    BY DEF CartInv
  <1> QED
    BY <1>1, CartInvariant, PTL

\* A call that answers "modified concurrently" was overtaken by as many changes
\* as it made attempts.
THEOREM GivingUpIsProgress == Spec => []ConflictMeansProgress
  <1>1. CartInv => ConflictMeansProgress
    BY DEF CartInv, CartTypeOK, Counted, ConflictMeansProgress, CartChanges
  <1> QED
    BY <1>1, CartInvariant, PTL

-----------------------------------------------------------------------------
(* Refinement *)

\* The two modules count alike.
LEMMA SameCount ==
    ASSUME NEW S
    PROVE  Atomic!Cardinality(S) = Cardinality(S)
  BY DEF Cardinality, Atomic!Cardinality

\* A save is an atomic operation on the cart as it then is.
LEMMA SaveIsAtomic ==
    ASSUME CartInv, NEW c \in Calls, Save(c)
    PROVE  Atomic!Apply(Operation[c])
  <1>1. copy[c] = cart
    BY UnchangedIsCurrent DEF Save
  <1>2. ~Refusable(c) /\ (Kind(c) \in {"add", "set"} => Resulting(c) <= Stock[Product(c)])
    BY DEF CartInv, Checked, Save
  <1>3. cart' = Edited(c)
    BY DEF Save
  <1>4. cart # NoCart => cart \in [Products -> Nat]
    BY DEF CartInv, CartTypeOK
  <1> USE DEF Kind, Product
  <1>5. CASE Kind(c) = "add"
    <2> DEFINE p == Product(c)
               n == Operation[c].quantity
    <2>1. p \in Products /\ n \in Nat
      BY <1>5, OperationTyped
    <2>2. Atomic!In(p) \/ ~Atomic!Full
      BY <1>1, <1>2, <1>5, SameCount
         DEF Refusable, Has, Full, Distinct, Atomic!In, Atomic!Full
    <2>3. Resulting(c) = Atomic!Current[p] + n
      BY <1>1, <1>4, <1>5, <2>1
         DEF Resulting, Has, Atomic!Current, Atomic!Empty
    <2>4. cart' = [Atomic!Current EXCEPT ![p] = Resulting(c)]
      BY <1>1, <1>3, <1>5 DEF Edited, Empty, Atomic!Current, Atomic!Empty
    <2>5. Atomic!Add(p, n)
      BY <1>2, <1>5, <2>2, <2>3, <2>4 DEF Atomic!Add
    <2> QED
      BY <1>5, <2>5 DEF Atomic!Apply
  <1>6. CASE Kind(c) = "set"
    <2> DEFINE p == Product(c)
               n == Operation[c].quantity
    <2>1. Atomic!In(p)
      BY <1>1, <1>2, <1>6 DEF Refusable, Has, Atomic!In
    <2>2. Resulting(c) = n
      BY <1>6 DEF Resulting
    <2>3. cart' = [cart EXCEPT ![p] = n]
      BY <1>1, <1>3, <1>6, <2>1, <2>2 DEF Edited, Atomic!In
    <2>4. Atomic!Set(p, n)
      BY <1>2, <1>6, <2>1, <2>2, <2>3 DEF Atomic!Set
    <2> QED
      BY <1>6, <2>4 DEF Atomic!Apply
  <1>7. CASE Kind(c) = "remove"
    BY <1>1, <1>2, <1>3, <1>7
       DEF Edited, Refusable, Has, Atomic!In, Atomic!Remove, Atomic!Apply
  <1>8. CASE Kind(c) = "clear"
    BY <1>1, <1>2, <1>3, <1>8
       DEF Edited, Refusable, Empty, Atomic!Empty, Atomic!Clear, Atomic!Apply
  <1> QED
    BY <1>5, <1>6, <1>7, <1>8, OperationTyped

\* Every step of a call is an atomic step or none.
LEMMA StepRefines ==
    ASSUME CartInv, NEW c \in Calls, CallStep(c)
    PROVE  [Atomic!Next]_<<cart, FinalAnswer>>
  <1> USE DEF document, read
  <1>0. CartTypeOK /\ Counted(c)
    BY DEF CartInv
  <1>1. ASSUME pc[c] # "done", NEW how \in {"ok", "refused", "conflict", "failed"},
               End(c, how)
        PROVE  /\ FinalAnswer[c] = "none"
               /\ FinalAnswer' = [FinalAnswer EXCEPT ![c] = IF how = "ok" THEN "ok" ELSE "refused"]
    BY <1>0, <1>1 DEF End, FinalAnswer, Counted, Active, CartTypeOK
  <1>2. ASSUME pc[c] # "done", NEW how \in {"refused", "conflict", "failed"},
               End(c, how), cart' = cart
        PROVE  Atomic!Next
    <2>1. FinalAnswer[c] = "none" /\ FinalAnswer' = [FinalAnswer EXCEPT ![c] = "refused"]
      BY <1>1, <1>2
    <2> QED
      BY <1>2, <2>1 DEF Atomic!Next, Atomic!Refuse, FinalAnswer
  <1>3. CASE cart' = cart /\ answer' = answer
    BY <1>3 DEF FinalAnswer
  <1>4. CASE Save(c)
    <2>1. FinalAnswer[c] = "none" /\ FinalAnswer' = [FinalAnswer EXCEPT ![c] = "ok"]
      BY <1>1, <1>4 DEF Save
    <2>2. Atomic!Succeed(c)
      BY <1>4, <2>1, SaveIsAtomic DEF Atomic!Succeed, FinalAnswer
    <2> QED
      BY <2>2 DEF Atomic!Next
  <1> QED
    BY <1>2, <1>3, <1>4 DEF CallStep, FindCart, Refuse, Validate, Unavailable,
                            LoseRace, CallFails

\* Whatever interleaves, the calls on a cart take effect one at a time, each on
\* the cart its predecessor left, or not at all.
THEOREM CartImplementsAtomic == Spec => CartIsAtomic
  <1>1. Init => Atomic!Init
    BY DEF Init, FinalAnswer, Atomic!Init
  <1>2. CartInv /\ [Next]_vars => [Atomic!Next]_<<cart, FinalAnswer>>
    <2>1. ASSUME CartInv, NEW c \in Calls, CallStep(c)
          PROVE  [Atomic!Next]_<<cart, FinalAnswer>>
      BY <2>1, StepRefines
    <2>2. CASE UNCHANGED vars
      BY <2>2 DEF vars, document, FinalAnswer
    <2> QED
      BY <2>1, <2>2 DEF Next
  <1> QED
    BY <1>1, <1>2, CartInvariant, PTL DEF Spec, CartIsAtomic, Atomic!Spec
=============================================================================
