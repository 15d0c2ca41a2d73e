---------------------------- MODULE OrderEndProofs ----------------------------
(***************************************************************************)
(* What an order holds until it ends, and what its buyer is told then.     *)
(* The first invariant follows the buffer of a transaction from its reads  *)
(* to its commit: what it has written and what it still has to write are   *)
(* the items of its order.  The second follows the one who ends an order:  *)
(* whoever commits the end, cancellation or worker, is the only one left   *)
(* to announce it, and nobody has announced it before.                     *)
(***************************************************************************)
EXTENDS OrdersProofs

\* An open transaction that places or cancels its order has written, or has
\* still to write, each item of it, and all of them once it has saved the
\* order; a transaction that ended has left nothing in its buffer.
Buffered(t) ==
    /\ InTransaction(t) /\ (t \in Calls \/ verdict[t] = "cancelled") =>
          wrote[t] \cup todo[t] = Items(order[t])
    /\ pc[t] = "saved" => todo[t] = {}
    /\ ~InTransaction(t) => wrote[t] = {}

BufferInv == \A t \in Actors : Buffered(t)

ItemsInv == PendingHoldsItems /\ CancelledWhole

\* Nothing is ordered, and no transaction open, at the start.
LEMMA HoldInit == Init => BufferInv /\ ItemsInv
<1> SUFFICES ASSUME Init PROVE BufferInv /\ ItemsInv
  OBVIOUS
<1>1. BufferInv
  BY DEF Init, BufferInv, Buffered, InTransaction
<1>2. PendingHoldsItems
  BY DEF Init, PendingHoldsItems, Placed, Pending
<1>3. CancelledWhole
  BY DEF Init, CancelledWhole
<1> QED BY <1>1, <1>2, <1>3 DEF ItemsInv

-----------------------------------------------------------------------------
(* Buffers *)

\* A step that leaves a transaction where it is, or ends it, or writes one of
\* the documents it has to.
LEMMA BufferKept ==
    ASSUME TypeInv, NEW t \in Actors, Buffered(t),
           \/ ~InTransaction(t)' /\ wrote'[t] = {}
           \/ /\ UNCHANGED <<pc[t], order[t], verdict[t]>>
              /\ wrote'[t] \cup todo'[t] = wrote[t] \cup todo[t]
              /\ pc[t] = "saved" => todo'[t] = todo[t]
              /\ ~InTransaction(t) => wrote'[t] = wrote[t]
    PROVE  Buffered(t)'
<1>1. CASE ~InTransaction(t)' /\ wrote'[t] = {}
  BY <1>1 DEF Buffered, InTransaction
<1>2. CASE /\ UNCHANGED <<pc[t], order[t], verdict[t]>>
           /\ wrote'[t] \cup todo'[t] = wrote[t] \cup todo[t]
           /\ pc[t] = "saved" => todo'[t] = todo[t]
           /\ ~InTransaction(t) => wrote'[t] = wrote[t]
  BY <1>2 DEF Buffered, InTransaction, Items
<1> QED BY <1>1, <1>2

\* A transaction that closes empties its buffer and touches no other's.
LEMMA BufferClosed ==
    ASSUME TypeInv, BufferInv, NEW t \in Actors, NEW next \in {"begin", "notify", "done"},
           NEW D, Close(t, next, D), UNCHANGED <<order, verdict>>
    PROVE  BufferInv'
<1>1. /\ pc' = [pc EXCEPT ![t] = next] /\ todo' = [todo EXCEPT ![t] = {}]
      /\ wrote' = [wrote EXCEPT ![t] = {}]
  BY DEF Close
<1>2. /\ pc \in [Actors -> PcStates] /\ todo \in [Actors -> SUBSET Products]
      /\ wrote \in [Actors -> SUBSET Products]
  BY DEF TypeInv, TypeOK
<1>3. pc'[t] = next /\ wrote'[t] = {}
  BY <1>1, <1>2
<1>4. \A u \in Actors \ {t} : UNCHANGED <<pc[u], todo[u], wrote[u], order[u], verdict[u]>>
  BY <1>1, <1>2
<1>5. Buffered(t)'
  BY <1>3 DEF Buffered, InTransaction
<1>6. \A u \in Actors \ {t} : Buffered(u)'
  BY <1>4, BufferKept DEF BufferInv
<1> QED BY <1>5, <1>6 DEF BufferInv

\* A call that takes a step outside its transactions.
LEMMA BufferOutside ==
    ASSUME TypeInv, BufferInv, NEW t \in Actors, NEW next \in PcStates \ {"write", "saved"},
           ~InTransaction(t), pc' = [pc EXCEPT ![t] = next],
           UNCHANGED <<todo, wrote, order, verdict>>
    PROVE  BufferInv'
<1>1. pc'[t] = next /\ \A u \in Actors \ {t} : pc'[u] = pc[u]
  BY DEF TypeInv, TypeOK
<1>2. ~InTransaction(t)' /\ wrote'[t] = {}
  BY <1>1 DEF BufferInv, Buffered, InTransaction
<1> QED BY <1>1, <1>2, BufferKept DEF BufferInv

\* A transaction writes the next document.
LEMMA BufferWrite ==
    ASSUME TypeInv, BufferInv, NEW t \in Actors, NEW p \in Products,
           pc[t] = "write", p \in todo[t],
           todo' = [todo EXCEPT ![t] = @ \ {p}],
           wrote' = [wrote EXCEPT ![t] = @ \cup {p}],
           UNCHANGED <<pc, order, verdict>>
    PROVE  BufferInv'
<1>1. /\ todo'[t] = todo[t] \ {p} /\ wrote'[t] = wrote[t] \cup {p}
      /\ \A u \in Actors \ {t} : todo'[u] = todo[u] /\ wrote'[u] = wrote[u]
  BY DEF TypeInv, TypeOK
<1>2. wrote'[t] \cup todo'[t] = wrote[t] \cup todo[t]
  BY <1>1
<1>3. InTransaction(t)
  BY DEF InTransaction
<1> QED BY <1>1, <1>2, <1>3, BufferKept DEF BufferInv

\* A transaction saves its order when it has nothing left to write.
LEMMA BufferSave ==
    ASSUME TypeInv, BufferInv, NEW t \in Actors, pc[t] = "write", todo[t] = {},
           pc' = [pc EXCEPT ![t] = "saved"],
           UNCHANGED <<todo, wrote, order, verdict>>
    PROVE  BufferInv'
<1>1. pc'[t] = "saved" /\ \A u \in Actors \ {t} : pc'[u] = pc[u]
  BY DEF TypeInv, TypeOK
<1>2. Buffered(t)'
  BY <1>1 DEF BufferInv, Buffered, InTransaction, Items
<1> QED BY <1>1, <1>2, BufferKept DEF BufferInv

\* The order and its items are read in one snapshot: a cancellation that finds
\* the order not due finds all its items active.
LEMMA BufferBegin ==
    ASSUME TypeInv, StatusInv, BufferInv, ItemsInv, NEW x \in Cancellers,
           NEW o \in Calls, BeginCancel(x, o)
    PROVE  BufferInv'
<1>1. /\ pc[x] \in {"start", "begin"}
      /\ status[o] \in {"pending_payment", "expired"}
      /\ pc' = [pc EXCEPT ![x] = "write"]
      /\ order' = [order EXCEPT ![x] = o]
      /\ todo' = [todo EXCEPT ![x] = {p \in Items(o) : MatchesActive(p, o)}]
      /\ verdict' = [verdict EXCEPT ![x] = Verdict(o)]
      /\ wrote' = wrote
  BY DEF BeginCancel
<1>2. x \in Actors /\ x \notin Calls
  BY OrdersAssumption DEF Actors
<1>3. /\ pc'[x] = "write" /\ order'[x] = o /\ verdict'[x] = Verdict(o)
      /\ todo'[x] = {p \in Items(o) : MatchesActive(p, o)}
      /\ \A u \in Actors \ {x} : UNCHANGED <<pc[u], order[u], todo[u], verdict[u]>>
  BY <1>1, <1>2 DEF TypeInv, TypeOK
<1>4. wrote'[x] = {}
  BY <1>1, <1>2 DEF BufferInv, Buffered, InTransaction
<1>5. Verdict(o) = "cancelled" => todo'[x] = Items(o)
  <2> SUFFICES ASSUME Verdict(o) = "cancelled", NEW p \in Items(o)
               PROVE  MatchesActive(p, o)
    BY <1>3
  <2>1. ~Due(o)
    BY DEF Verdict
  <2>2. Pending(o)
    BY <1>1, <2>1 DEF StatusInv, ExpiredIsDue, Pending
  <2>3. p \in Products
    BY DEF Items
  <2> QED BY <2>1, <2>2, <2>3 DEF ItemsInv, PendingHoldsItems, MatchesActive
<1>6. Buffered(x)'
  BY <1>2, <1>3, <1>4, <1>5 DEF Buffered, InTransaction, Items
<1>7. \A u \in Actors \ {x} : Buffered(u)'
  BY <1>1, <1>3, BufferKept DEF BufferInv
<1> QED BY <1>6, <1>7 DEF BufferInv

\* Every step keeps BufferInv: one case per action.
LEMMA BufferStep ==
    ASSUME TypeInv, StatusInv, BufferInv, ItemsInv, [Next]_vars
    PROVE  BufferInv'
<1>0. /\ Calls \cap Cancellers = {} /\ Calls \subseteq Actors /\ Cancellers \subseteq Actors
  BY OrdersAssumption DEF Actors
<1>1. ASSUME UNCHANGED <<pc, todo, wrote, order, verdict>> PROVE BufferInv'
  BY <1>1, BufferKept DEF BufferInv
<1>2. ASSUME NEW c \in Calls, CreateStep(c) PROVE BufferInv'
  <2>1. CASE FindPrevious(c) \/ AnswerExisting(c) \/ RejectOrder(c) \/ NotifyPlaced(c)
    BY <1>0, <2>1, BufferOutside
       DEF FindPrevious, AnswerExisting, RejectOrder, NotifyPlaced, InTransaction,
           PcStates, intent, writes
  <2>2. CASE BeginOrder(c)
    <3>1. /\ ~InTransaction(c) /\ pc' = [pc EXCEPT ![c] = "write"]
          /\ todo' = [todo EXCEPT ![c] = Items(c)]
          /\ UNCHANGED <<wrote, order, verdict>>
      BY <2>2 DEF BeginOrder, InTransaction
    <3>2. /\ pc'[c] = "write" /\ todo'[c] = Items(c) /\ wrote'[c] = {} /\ order'[c] = c
          /\ \A u \in Actors \ {c} : UNCHANGED <<pc[u], todo[u]>>
      BY <1>0, <3>1 DEF TypeInv, TypeOK, NamesOrder, BufferInv, Buffered
    <3>3. Buffered(c)'
      BY <3>2 DEF Buffered, InTransaction, Items
    <3>4. \A u \in Actors \ {c} : Buffered(u)'
      BY <3>1, <3>2, BufferKept DEF BufferInv
    <3> QED BY <3>3, <3>4 DEF BufferInv
  <2>3. ASSUME NEW p \in Products, ReserveItem(c, p) PROVE BufferInv'
    BY <1>0, <2>3, BufferWrite DEF ReserveItem, intent
  <2>4. CASE InsertOrder(c)
    BY <1>0, <2>4, BufferSave DEF InsertOrder, intent, writes
  <2>5. CASE DuplicateKey(c) \/ CommitOrder(c) \/ WriteConflict(c)
    BY <1>0, <2>5, BufferClosed DEF DuplicateKey, CommitOrder, WriteConflict, intent
  <2> QED BY <1>2, <2>1, <2>2, <2>3, <2>4, <2>5 DEF CreateStep
<1>3. ASSUME NEW x \in Cancellers, CancelStep(x) PROVE BufferInv'
  <2>1. ASSUME NEW o \in Calls, BeginCancel(x, o) PROVE BufferInv'
    BY <2>1, BufferBegin
  <2>2. ASSUME NEW o \in Calls, NothingToCancel(x, o) PROVE BufferInv'
    BY <1>0, <2>2, BufferOutside
       DEF NothingToCancel, InTransaction, PcStates, intent, writes
  <2>3. ASSUME NEW p \in Products, ReleaseItem(x, p) PROVE BufferInv'
    BY <1>0, <2>3, BufferWrite DEF ReleaseItem, intent
  <2>4. CASE SaveOrder(x)
    BY <1>0, <2>4, BufferSave DEF SaveOrder, intent, writes
  <2>5. CASE CommitCancel(x)
    <3>1. Close(x, IF wasPending[x] THEN "notify" ELSE "done", wrote[x] \cup {order[x]})
      BY <2>5 DEF CommitCancel
    <3> QED BY <1>0, <2>5, <3>1, BufferClosed DEF CommitCancel, intent
  <2>6. CASE NotifyEnded(x)
    BY <1>0, <2>6, BufferOutside DEF NotifyEnded, InTransaction, PcStates, intent, writes
  <2>7. CASE WriteConflict(x)
    BY <1>0, <2>7, BufferClosed DEF WriteConflict, intent
  <2> QED BY <1>3, <2>1, <2>2, <2>3, <2>4, <2>5, <2>6, <2>7 DEF CancelStep
<1>4. ASSUME NEW t \in Actors, CommitFails(t) \/ CallFails(t) PROVE BufferInv'
  BY <1>4, BufferClosed DEF CommitFails, CallFails, intent
<1>5. ASSUME NEW w \in Workers, CleanupStep(w) PROVE BufferInv'
  BY <1>1, <1>5
     DEF CleanupStep, ScanInventories, ExpireReservation, ScanOrders, RescanOrders,
         ExpireOrder, NotifyExpired, intent, writes
<1>6. ASSUME NEW w \in Workers, CleanupFails(w) PROVE BufferInv'
  BY <1>1, <1>6 DEF CleanupFails, intent, writes
<1>7. ASSUME NEW p \in Products, NEW n \in StockLevels, SetInventoryStock(p, n)
      PROVE  BufferInv'
  BY <1>1, <1>7 DEF SetInventoryStock, intent
<1>8. CASE Tick \/ UNCHANGED vars
  BY <1>1, <1>8 DEF Tick, vars, intent, writes
<1> QED BY <1>2, <1>3, <1>4, <1>5, <1>6, <1>7, <1>8 DEF Next

-----------------------------------------------------------------------------
(* What an order holds *)

\* The only steps that write an order or a reservation.
LEMMA Writers ==
    ASSUME [Next]_vars
    PROVE  \/ UNCHANGED <<status, reservation>>
           \/ \E c \in Calls : CommitOrder(c)
           \/ \E x \in Cancellers : CommitCancel(x)
           \/ \E w \in Workers, p \in Products, o \in Calls :
                 ExpireReservation(w, p, o) /\ MatchesActive(p, o)
           \/ \E w \in Workers, o \in Calls : ExpireOrder(w, o) /\ Pending(o)
<1>1. ASSUME NEW c \in Calls, CreateStep(c), ~CommitOrder(c)
      PROVE  UNCHANGED <<status, reservation>>
  BY <1>1
     DEF CreateStep, FindPrevious, BeginOrder, AnswerExisting, RejectOrder,
         ReserveItem, InsertOrder, DuplicateKey, NotifyPlaced, WriteConflict, db
<1>2. ASSUME NEW x \in Cancellers, CancelStep(x), ~CommitCancel(x)
      PROVE  UNCHANGED <<status, reservation>>
  BY <1>2
     DEF CancelStep, BeginCancel, NothingToCancel, ReleaseItem, SaveOrder,
         NotifyEnded, WriteConflict, db
<1>3. ASSUME NEW w \in Workers, CleanupStep(w),
             ~\E p \in Products, o \in Calls :
                 ExpireReservation(w, p, o) /\ MatchesActive(p, o),
             ~\E o \in Calls : ExpireOrder(w, o) /\ Pending(o)
      PROVE  UNCHANGED <<status, reservation>>
  BY <1>3
     DEF CleanupStep, ScanInventories, ExpireReservation, ScanOrders, RescanOrders,
         ExpireOrder, NotifyExpired, db
<1> QED BY <1>1, <1>2, <1>3
        DEF Next, CommitFails, CallFails, CleanupFails, SetInventoryStock, Tick, vars, db

\* An order that exists and is due stays due: its expiry no longer changes, and
\* the clock only goes on.
LEMMA DueStays ==
    ASSUME TypeInv, StatusInv, [Next]_vars, NEW o \in Calls, Placed(o), Due(o)
    PROVE  Due(o)'
<1>1. now' >= now
  <2>1. ASSUME NEW c \in Calls, CreateStep(c) PROVE now' = now
    BY <2>1
       DEF CreateStep, FindPrevious, BeginOrder, AnswerExisting, RejectOrder,
           ReserveItem, InsertOrder, DuplicateKey, CommitOrder, NotifyPlaced,
           WriteConflict, env
  <2>2. ASSUME NEW x \in Cancellers, CancelStep(x) PROVE now' = now
    BY <2>2
       DEF CancelStep, BeginCancel, NothingToCancel, ReleaseItem, SaveOrder,
           CommitCancel, NotifyEnded, WriteConflict, env
  <2>3. ASSUME NEW w \in Workers, CleanupStep(w) PROVE now' = now
    BY <2>3
       DEF CleanupStep, ScanInventories, ExpireReservation, ScanOrders, RescanOrders,
           ExpireOrder, NotifyExpired, env
  <2>4. now' = now \/ now' = now + 1
    BY <2>1, <2>2, <2>3
       DEF Next, CommitFails, CallFails, CleanupFails, SetInventoryStock, Tick, vars, env
  <2> QED BY <2>4 DEF TypeInv, TypeOK
<1>2. expiresAt'[o] = expiresAt[o]
  <2>1. ASSUME NEW c \in Calls, CreateStep(c), ~BeginOrder(c)
        PROVE  expiresAt' = expiresAt
    BY <2>1
       DEF CreateStep, FindPrevious, AnswerExisting, RejectOrder, ReserveItem,
           InsertOrder, DuplicateKey, CommitOrder, NotifyPlaced, WriteConflict, intent
  <2>2. ASSUME NEW c \in Calls, BeginOrder(c)
        PROVE  expiresAt'[o] = expiresAt[o]
    <3>1. pc[c] = "begin" /\ expiresAt' = [expiresAt EXCEPT ![c] = now + TTL]
      BY <2>2 DEF BeginOrder
    <3>2. c # o
      BY <3>1 DEF StatusInv, Unplaced, Early, Placed
    <3> QED BY <3>1, <3>2 DEF TypeInv, TypeOK
  <2>3. ASSUME NEW x \in Cancellers, CancelStep(x) PROVE expiresAt' = expiresAt
    BY <2>3
       DEF CancelStep, BeginCancel, NothingToCancel, ReleaseItem, SaveOrder,
           CommitCancel, NotifyEnded, WriteConflict, intent
  <2>4. ASSUME NEW w \in Workers, CleanupStep(w) PROVE expiresAt' = expiresAt
    BY <2>4
       DEF CleanupStep, ScanInventories, ExpireReservation, ScanOrders, RescanOrders,
           ExpireOrder, NotifyExpired, intent
  <2> QED BY <2>1, <2>2, <2>3, <2>4
          DEF Next, CommitFails, CallFails, CleanupFails, SetInventoryStock, Tick, vars, intent
<1>3. expiresAt[o] \in Nat /\ now \in Nat
  BY DEF TypeInv, TypeOK
<1>4. now' \in Nat
  BY TypeStep DEF TypeInv, TypeOK
<1> QED BY <1>1, <1>2, <1>3, <1>4 DEF Due

\* The order appears with all its reservations, where it had none.
LEMMA ItemsPlaced ==
    ASSUME TypeInv, StatusInv, BufferInv, ItemsInv, NEW c \in Calls, CommitOrder(c)
    PROVE  ItemsInv'
<1>1. /\ pc[c] = "saved" /\ status' = [status EXCEPT ![c] = "pending_payment"]
      /\ \A p \in Products : reservation'[p] =
            IF p \in wrote[c] THEN [reservation[p] EXCEPT ![c] = "active"]
                              ELSE reservation[p]
      /\ UNCHANGED <<now, expiresAt>>
  BY DEF CommitOrder, intent, env
<1>2. c \in Actors /\ order[c] = c
  BY DEF Actors, TypeInv, NamesOrder
<1>3. wrote[c] = Items(c)
  BY <1>1, <1>2 DEF BufferInv, Buffered, InTransaction
<1>4. /\ \A o \in Calls : status'[o] = IF o = c THEN "pending_payment" ELSE status[o]
      /\ \A p \in Products, o \in Calls : reservation'[p][o] =
            IF o = c /\ p \in Items(c) THEN "active" ELSE reservation[p][o]
  <2>1. /\ reservation \in [Products -> [Calls -> ReservationStatuses]]
        /\ status \in [Calls -> OrderStatuses]
    BY DEF TypeInv, TypeOK
  <2>2. ASSUME NEW p \in Products, NEW o \in Calls
        PROVE  reservation'[p][o] =
                  IF o = c /\ p \in wrote[c] THEN "active" ELSE reservation[p][o]
    BY <1>1, <2>1
  <2> QED BY <1>1, <1>3, <2>1, <2>2
<1>5. \A o \in Calls : (Due(o)' <=> Due(o)) /\ Items(o)' = Items(o)
  BY <1>1 DEF Due, Items
<1>6. \A p \in Products : reservation[p][c] = "none"
  BY <1>1 DEF ItemsInv, PendingHoldsItems, StatusInv, Unplaced, Early, Placed
<1>7. PendingHoldsItems'
  <2> SUFFICES ASSUME NEW o \in Calls, NEW p \in Products
               PROVE  /\ reservation'[p][o] # "none" <=> status'[o] # "none" /\ p \in Items(o)
                      /\ status'[o] = "pending_payment" /\ p \in Items(o) =>
                            \/ reservation'[p][o] = "active"
                            \/ reservation'[p][o] = "expired" /\ Due(o)
    BY <1>5 DEF PendingHoldsItems, Placed, Pending
  <2>1. CASE o = c
    BY <1>4, <1>6, <2>1
  <2>2. CASE o # c
    BY <1>4, <2>2 DEF ItemsInv, PendingHoldsItems, Placed, Pending
  <2> QED BY <2>1, <2>2
<1>8. CancelledWhole'
  <2>1. \A o \in Calls : status'[o] = "cancelled" =>
            /\ o # c /\ status[o] = "cancelled"
            /\ \A p \in Products : reservation'[p][o] = reservation[p][o]
    BY <1>4
  <2>2. \A o \in Calls : \A p \in Items(o) : p \in Products
    BY DEF Items
  <2> QED BY <1>5, <2>1, <2>2 DEF ItemsInv, CancelledWhole
<1> QED BY <1>7, <1>8 DEF ItemsInv

\* A cancellation ends the order with the reservations that were still active;
\* where its verdict is "cancelled" those are all of them.
LEMMA ItemsCancelled ==
    ASSUME TypeInv, StockInv, StatusInv, BufferInv, ItemsInv, NEW x \in Cancellers,
           CommitCancel(x)
    PROVE  ItemsInv'
<1> DEFINE o == order[x]
<1>1. /\ pc[x] = "saved" /\ status' = [status EXCEPT ![o] = verdict[x]]
      /\ \A p \in Products : reservation'[p] =
            IF p \in wrote[x] THEN [reservation[p] EXCEPT ![o] = "cancelled"]
                              ELSE reservation[p]
      /\ UNCHANGED <<now, expiresAt>>
  BY DEF CommitCancel, intent, env
<1>2. x \in Actors /\ o \in Calls
  BY <1>1 DEF Actors, TypeInv, NamesOrder
<1>3. verdict[x] \in {"cancelled", "expired"} /\ status[o] # "none"
  BY <1>1 DEF StatusInv, Ending
<1>4. verdict[x] = "cancelled" => wrote[x] = Items(o)
  BY <1>1, <1>2 DEF BufferInv, Buffered, InTransaction
<1>5. \A p \in wrote[x] : p \in Products /\ reservation[p][o] = "active"
  BY <1>2 DEF StockInv, ReleasesFit, TypeInv, TypeOK
<1>6. \A d \in Calls : (Due(d)' <=> Due(d)) /\ Items(d)' = Items(d)
  BY <1>1 DEF Due, Items
<1> HIDE DEF o
<1>7. /\ \A d \in Calls : status'[d] = IF d = o THEN verdict[x] ELSE status[d]
      /\ \A p \in Products, d \in Calls : reservation'[p][d] =
            IF d = o /\ p \in wrote[x] THEN "cancelled" ELSE reservation[p][d]
  <2>1. /\ status \in [Calls -> OrderStatuses]
        /\ reservation \in [Products -> [Calls -> ReservationStatuses]]
    BY DEF TypeInv, TypeOK
  <2> QED BY <1>1, <1>2, <2>1
<1>8. PendingHoldsItems'
  <2> SUFFICES ASSUME NEW d \in Calls, NEW p \in Products
               PROVE  /\ reservation'[p][d] # "none" <=> status'[d] # "none" /\ p \in Items(d)
                      /\ status'[d] = "pending_payment" /\ p \in Items(d) =>
                            \/ reservation'[p][d] = "active"
                            \/ reservation'[p][d] = "expired" /\ Due(d)
    BY <1>6 DEF PendingHoldsItems, Placed, Pending
  <2>1. /\ reservation[p][d] # "none" <=> status[d] # "none" /\ p \in Items(d)
        /\ status[d] = "pending_payment" /\ p \in Items(d) =>
              \/ reservation[p][d] = "active"
              \/ reservation[p][d] = "expired" /\ Due(d)
    BY DEF ItemsInv, PendingHoldsItems, Placed, Pending
  <2>2. CASE d = o
    BY <1>3, <1>5, <1>7, <2>1, <2>2
  <2>3. CASE d # o
    BY <1>7, <2>1, <2>3
  <2> QED BY <2>2, <2>3
<1>9. CancelledWhole'
  <2> SUFFICES ASSUME NEW d \in Calls, status'[d] = "cancelled", NEW p \in Items(d)
               PROVE  reservation'[p][d] = "cancelled"
    BY <1>6 DEF CancelledWhole
  <2>1. p \in Products
    BY DEF Items
  <2>2. CASE d = o
    BY <1>4, <1>7, <2>1, <2>2
  <2>3. CASE d # o
    BY <1>7, <2>1, <2>3 DEF ItemsInv, CancelledWhole
  <2> QED BY <2>2, <2>3
<1> QED BY <1>8, <1>9 DEF ItemsInv

\* The job takes an item of an order that is due.
LEMMA ItemsExpired ==
    ASSUME TypeInv, ItemsInv, NEW w \in Workers, NEW p \in Products, NEW o \in Calls,
           ExpireReservation(w, p, o), MatchesActive(p, o)
    PROVE  ItemsInv'
<1>1. /\ Due(o) /\ reservation[p][o] = "active"
      /\ reservation' = [reservation EXCEPT ![p][o] = "expired"]
      /\ UNCHANGED <<status, now, expiresAt>>
  BY DEF ExpireReservation, MatchesActive, intent, env
<1>2. \A q \in Products, d \in Calls : reservation'[q][d] =
        IF q = p /\ d = o THEN "expired" ELSE reservation[q][d]
  <2>1. reservation \in [Products -> [Calls -> ReservationStatuses]]
    BY DEF TypeInv, TypeOK
  <2> QED BY <1>1, <2>1
<1>3. \A d \in Calls : (Due(d)' <=> Due(d)) /\ Items(d)' = Items(d)
  BY <1>1 DEF Due, Items
<1>4. \A d \in Calls : \A q \in Items(d) : q \in Products
  BY DEF Items
<1>5. PendingHoldsItems'
  BY <1>1, <1>2, <1>3 DEF ItemsInv, PendingHoldsItems, Placed, Pending
<1>6. CancelledWhole'
  <2>1. status[o] # "cancelled"
    BY <1>1 DEF ItemsInv, PendingHoldsItems, CancelledWhole, Placed
  <2> QED BY <1>1, <1>2, <1>3, <1>4, <2>1 DEF ItemsInv, CancelledWhole
<1> QED BY <1>5, <1>6 DEF ItemsInv

\* Every step keeps ItemsInv.
LEMMA ItemsStep ==
    ASSUME TypeInv, StockInv, StatusInv, BufferInv, ItemsInv, [Next]_vars
    PROVE  ItemsInv'
<1>0. \A o \in Calls : (Placed(o) /\ Due(o) => Due(o)') /\ Items(o)' = Items(o)
  BY DueStays DEF Items
<1>1. CASE UNCHANGED <<status, reservation>>
  <2>1. PendingHoldsItems'
    BY <1>0, <1>1 DEF ItemsInv, PendingHoldsItems, Placed, Pending
  <2>2. CancelledWhole'
    BY <1>0, <1>1 DEF ItemsInv, CancelledWhole
  <2> QED BY <2>1, <2>2 DEF ItemsInv
<1>2. ASSUME NEW w \in Workers, NEW o \in Calls, ExpireOrder(w, o), Pending(o)
      PROVE  ItemsInv'
  <2>1. /\ status' = [status EXCEPT ![o] = "expired"] /\ reservation' = reservation
        /\ \A d \in Calls : (Due(d)' <=> Due(d)) /\ Items(d)' = Items(d)
    BY <1>2 DEF ExpireOrder, intent, env, Due, Items
  <2>2. \A d \in Calls : status'[d] = IF d = o THEN "expired" ELSE status[d]
    BY <2>1 DEF TypeInv, TypeOK
  <2>3. PendingHoldsItems'
    BY <1>2, <2>1, <2>2 DEF ItemsInv, PendingHoldsItems, Placed, Pending
  <2>4. CancelledWhole'
    BY <2>1, <2>2 DEF ItemsInv, CancelledWhole
  <2> QED BY <2>3, <2>4 DEF ItemsInv
<1> QED BY <1>1, <1>2, Writers, ItemsPlaced, ItemsCancelled, ItemsExpired

\* The inductive invariant of what orders hold.
LEMMA HoldInvariant == Spec => [](BufferInv /\ ItemsInv)
<1>1. Init => TypeInv /\ StockInv /\ StatusInv /\ BufferInv /\ ItemsInv
  BY TypeInit, StockInit, StatusInit, HoldInit
<1>2. TypeInv /\ StockInv /\ StatusInv /\ BufferInv /\ ItemsInv /\ [Next]_vars
        => (TypeInv /\ StockInv /\ StatusInv /\ BufferInv /\ ItemsInv)'
  BY TypeStep, StockStep, StatusStep, BufferStep, ItemsStep
<1> QED BY <1>1, <1>2, PTL DEF Spec

\* However placements, cancellations, conflicts, crashes and cleanup passes
\* interleave, an order and its reservations appear together and a pending order
\* holds its items until it is due.
THEOREM PendingOrdersHold == Spec => []PendingHoldsItems
<1>1. ItemsInv => PendingHoldsItems
  BY DEF ItemsInv
<1> QED BY <1>1, HoldInvariant, PTL

\* An order is never cancelled in part: a cancellation that races with the job
\* either gets every reservation or leaves the order to be expired.
THEOREM CancellationIsWhole == Spec => []CancelledWhole
<1>1. ItemsInv => CancelledWhole
  BY DEF ItemsInv
<1> QED BY <1>1, HoldInvariant, PTL

-----------------------------------------------------------------------------
(* Who may still tell the buyer that an order ended *)

\* The cancellations, and the cleanup passes, that ended o and have not said so.
Tellers(o) == {x \in Cancellers : pc[x] = "notify" /\ order[x] = o}
Passes(o)  == {w \in Workers : o \in job[w].expired}

Told(o) == inbox[o]["order_cancelled"] + inbox[o]["order_expired"]

\* Whoever has ended o is alone, and nobody has told its end.
TellsOnce(o) ==
    /\ Told(o) <= 1
    /\ Tellers(o) # {} \/ Passes(o) # {} => Told(o) = 0
    /\ \A x, y \in Tellers(o) : x = y
    /\ \A v, w \in Passes(o) : v = w
    /\ Tellers(o) = {} \/ Passes(o) = {}

\* What was told, and what is going to be told, is how o ended.
TellsTruth(o) ==
    /\ inbox[o]["order_cancelled"] > 0 => status[o] = "cancelled"
    /\ inbox[o]["order_expired"] > 0 => status[o] = "expired"
    /\ \A x \in Tellers(o) : verdict[x] = status[o]
    /\ Passes(o) # {} => status[o] = "expired"

Tells(o) == TellsOnce(o) /\ TellsTruth(o)

EndInv == \A o \in Calls : Tells(o)

\* A cancellation knows whether it is the one that ends its order, unless somebody
\* has written the order behind its back.
Seen(x) ==
    InTransaction(x) /\ order[x] \notin missed[x] =>
        (wasPending[x] <=> Pending(order[x]))

SeenInv == \A x \in Cancellers : Seen(x)

\* A createOrder call tells of its order last, and only if it exists.
PlacedInv ==
    \A c \in Calls :
        /\ inbox[c]["order_placed"] <= 1
        /\ pc[c] # "done" => inbox[c]["order_placed"] = 0
        /\ inbox[c]["order_placed"] > 0 \/ pc[c] = "notify" => Placed(c)

\* Nobody has been told anything at the start.
LEMMA TellInit == Init => EndInv /\ SeenInv /\ PlacedInv
<1> SUFFICES ASSUME Init PROVE EndInv /\ SeenInv /\ PlacedInv
  OBVIOUS
<1>1. SeenInv /\ PlacedInv
  BY DEF Init, SeenInv, Seen, PlacedInv, InTransaction, Actors, Types
<1>2. ASSUME NEW o \in Calls PROVE Tells(o)
  <2>1. Tellers(o) = {} /\ Passes(o) = {}
    BY DEF Init, Tellers, Passes, Actors
  <2>2. inbox[o]["order_cancelled"] = 0 /\ inbox[o]["order_expired"] = 0
    BY DEF Init, Types
  <2> QED BY <2>1, <2>2 DEF Tells, TellsOnce, TellsTruth, Told
<1> QED BY <1>1, <1>2 DEF EndInv

\* A closing transaction leaves the others where they are; those that are open
\* have missed the documents it changed.
LEMMA CloseOthers ==
    ASSUME TypeInv, NEW t \in Actors, NEW next, NEW D, Close(t, next, D)
    PROVE  /\ pc'[t] = next
           /\ \A u \in Actors \ {t} :
                 /\ pc'[u] = pc[u]
                 /\ missed'[u] = IF InTransaction(u) THEN missed[u] \cup D ELSE missed[u]
<1>1. /\ pc' = [pc EXCEPT ![t] = next] /\ missed' = [Publish(D) EXCEPT ![t] = {}]
      /\ pc \in [Actors -> PcStates]
  BY DEF Close, TypeInv, TypeOK
<1> QED BY <1>1 DEF Publish

-----------------------------------------------------------------------------
(* What a cancellation knows *)

\* A step that writes no order a cancellation has read, unless it is missed.
LEMMA SeenKept ==
    ASSUME NEW x \in Cancellers, Seen(x),
           InTransaction(x)' =>
               /\ InTransaction(x)
               /\ UNCHANGED <<order[x], wasPending[x]>>
               /\ order[x] \in missed[x] => order[x] \in missed'[x]
               /\ order[x] \in missed'[x] \/ status'[order[x]] = status[order[x]]
    PROVE  Seen(x)'
BY DEF Seen, Pending

\* A step that leaves orders and snapshots alone and starts no cancellation.
LEMMA SeenQuiet ==
    ASSUME SeenInv, UNCHANGED <<status, order, wasPending>>,
           \A x \in Cancellers : InTransaction(x)' =>
               InTransaction(x) /\ missed[x] \subseteq missed'[x]
    PROVE  SeenInv'
BY SeenKept DEF SeenInv

\* A transaction that closes without a change.
LEMMA SeenAbort ==
    ASSUME TypeInv, SeenInv, NEW t \in Actors, NEW next \in {"begin", "done"},
           Close(t, next, {}), UNCHANGED <<status, order, wasPending>>
    PROVE  SeenInv'
<1>1. ~InTransaction(t)'
  BY CloseOthers DEF InTransaction
<1>2. \A u \in Actors \ {t} : InTransaction(u)' =>
         InTransaction(u) /\ missed[u] \subseteq missed'[u]
  BY CloseOthers DEF InTransaction
<1> QED BY <1>1, <1>2, SeenQuiet DEF Actors

\* A commit that writes the order d: open cancellations of d have missed it.
LEMMA SeenCommit ==
    ASSUME TypeInv, SeenInv, NEW t \in Actors, NEW d \in Calls,
           NEW next \in {"notify", "done"}, NEW D, d \in D, Close(t, next, D),
           \A o \in Calls \ {d} : status'[o] = status[o],
           UNCHANGED <<order, wasPending>>
    PROVE  SeenInv'
<1> SUFFICES ASSUME NEW x \in Cancellers, InTransaction(x)' PROVE Seen(x)'
  BY DEF SeenInv, Seen
<1>1. x \in Actors /\ x # t
  BY CloseOthers DEF Actors, InTransaction
<1>2. InTransaction(x) /\ missed'[x] = missed[x] \cup D
  BY <1>1, CloseOthers DEF InTransaction
<1>3. order[x] \in Calls
  BY <1>2 DEF TypeInv, NamesOrder, InTransaction
<1>4. order[x] \in missed'[x] \/ status'[order[x]] = status[order[x]]
  BY <1>2, <1>3
<1> QED BY <1>2, <1>4, SeenKept DEF SeenInv

\* Every step keeps SeenInv: one case per action.
LEMMA SeenStep ==
    ASSUME TypeInv, StatusInv, SeenInv, [Next]_vars
    PROVE  SeenInv'
<1>0. /\ Calls \cap Cancellers = {} /\ Calls \subseteq Actors /\ Cancellers \subseteq Actors
      /\ pc \in [Actors -> PcStates]
  BY OrdersAssumption DEF Actors, TypeInv, TypeOK
<1>a. ASSUME UNCHANGED <<status, order, wasPending, missed>>,
             \A x \in Cancellers : pc'[x] \in {"write", "saved"} =>
                 pc[x] \in {"write", "saved"}
      PROVE  SeenInv'
  BY <1>a, SeenQuiet DEF InTransaction
<1>1. ASSUME NEW c \in Calls, CreateStep(c) PROVE SeenInv'
  <2>1. CASE CommitOrder(c)
    <3>1. /\ Close(c, "notify", wrote[c] \cup {c}) /\ UNCHANGED <<order, wasPending>>
          /\ \A o \in Calls \ {c} : status'[o] = status[o]
      BY <2>1 DEF CommitOrder, intent, TypeInv, TypeOK
    <3> QED BY <1>0, <3>1, SeenCommit
  <2>2. CASE DuplicateKey(c) \/ WriteConflict(c)
    BY <1>0, <2>2, SeenAbort DEF DuplicateKey, WriteConflict, db, intent
  <2>3. CASE FindPrevious(c) \/ AnswerExisting(c) \/ RejectOrder(c) \/ NotifyPlaced(c)
             \/ BeginOrder(c) \/ InsertOrder(c)
    <3>1. \A x \in Cancellers : pc'[x] = pc[x]
      BY <1>0, <2>3
         DEF FindPrevious, AnswerExisting, RejectOrder, NotifyPlaced, BeginOrder, InsertOrder
    <3> QED BY <1>a, <2>3, <3>1
            DEF FindPrevious, AnswerExisting, RejectOrder, NotifyPlaced, BeginOrder,
                InsertOrder, db, intent, writes
  <2>4. ASSUME NEW p \in Products, ReserveItem(c, p) PROVE SeenInv'
    BY <1>a, <2>4 DEF ReserveItem, db, intent
  <2> QED BY <1>1, <2>1, <2>2, <2>3, <2>4 DEF CreateStep
<1>2. ASSUME NEW x \in Cancellers, CancelStep(x) PROVE SeenInv'
  <2>1. ASSUME NEW o \in Calls, BeginCancel(x, o) PROVE SeenInv'
    <3>1. /\ UNCHANGED <<status, missed>>
          /\ order' = [order EXCEPT ![x] = o]
          /\ wasPending' = [wasPending EXCEPT ![x] = Transitions(o)]
          /\ pc' = [pc EXCEPT ![x] = "write"]
      BY <2>1 DEF BeginCancel, db
    <3>2. order'[x] = o /\ wasPending'[x] = Pending(o)
      BY <1>0, <3>1 DEF TypeInv, TypeOK, Transitions
    <3>3. Seen(x)'
      BY <3>1, <3>2 DEF Seen, Pending
    <3>4. \A y \in Cancellers \ {x} :
            UNCHANGED <<pc[y], order[y], wasPending[y]>>
      BY <1>0, <3>1 DEF TypeInv, TypeOK
    <3>5. \A y \in Cancellers \ {x} : Seen(y)'
      BY <3>1, <3>4, SeenKept DEF SeenInv, InTransaction
    <3> QED BY <3>3, <3>5 DEF SeenInv
  <2>2. CASE CommitCancel(x)
    <3>1. order[x] \in Calls
      BY <2>2 DEF CommitCancel, TypeInv, NamesOrder
    <3>2. /\ Close(x, IF wasPending[x] THEN "notify" ELSE "done", wrote[x] \cup {order[x]})
          /\ UNCHANGED <<order, wasPending>>
          /\ \A o \in Calls \ {order[x]} : status'[o] = status[o]
      BY <2>2, <3>1 DEF CommitCancel, intent, TypeInv, TypeOK
    <3> QED BY <1>0, <3>1, <3>2, SeenCommit
  <2>3. CASE WriteConflict(x)
    BY <1>0, <2>3, SeenAbort DEF WriteConflict, db, intent
  <2>4. CASE NotifyEnded(x) \/ SaveOrder(x) \/ \E o \in Calls : NothingToCancel(x, o)
    <3>1. \A y \in Cancellers : pc'[y] \in {"write", "saved"} =>
                 pc[y] \in {"write", "saved"}
      BY <1>0, <2>4 DEF NotifyEnded, SaveOrder, NothingToCancel
    <3> QED BY <1>a, <2>4, <3>1 DEF NotifyEnded, SaveOrder, NothingToCancel, db, intent, writes
  <2>5. ASSUME NEW p \in Products, ReleaseItem(x, p) PROVE SeenInv'
    BY <1>a, <2>5 DEF ReleaseItem, db, intent
  <2> QED BY <1>2, <2>1, <2>2, <2>3, <2>4, <2>5 DEF CancelStep
<1>3. ASSUME NEW t \in Actors, CommitFails(t) \/ CallFails(t) PROVE SeenInv'
  BY <1>3, SeenAbort DEF CommitFails, CallFails, db, intent
<1>4. ASSUME NEW D, missed' = Publish(D), UNCHANGED <<status, order, wasPending, pc>>
      PROVE  SeenInv'
  BY <1>0, <1>4, SeenQuiet DEF Publish, InTransaction
<1>5. ASSUME NEW w \in Workers, CleanupStep(w) PROVE SeenInv'
  <2>1. ASSUME NEW p \in Products, NEW o \in Calls, ExpireReservation(w, p, o)
        PROVE  SeenInv'
    BY <1>4, <1>a, <2>1 DEF ExpireReservation, intent
  <2>2. ASSUME NEW o \in Calls, ExpireOrder(w, o) PROVE SeenInv'
    <3>1. CASE ~Pending(o)
      BY <1>a, <2>2, <3>1 DEF ExpireOrder, intent
    <3>2. CASE Pending(o)
      <4>1. /\ status' = [status EXCEPT ![o] = "expired"] /\ missed' = Publish({o})
            /\ UNCHANGED <<order, wasPending, pc>>
        BY <2>2, <3>2 DEF ExpireOrder, intent
      <4> SUFFICES ASSUME NEW x \in Cancellers, InTransaction(x) PROVE Seen(x)'
        BY <4>1 DEF SeenInv, Seen, InTransaction
      <4>2. missed'[x] = missed[x] \cup {o}
        BY <1>0, <4>1 DEF Publish
      <4>3. order[x] \in missed'[x] \/ status'[order[x]] = status[order[x]]
        BY <4>1, <4>2
      <4> QED BY <4>1, <4>2, <4>3, SeenKept DEF SeenInv, InTransaction
    <3> QED BY <3>1, <3>2
  <2>3. CASE ScanInventories(w) \/ ScanOrders(w) \/ RescanOrders(w) \/ NotifyExpired(w)
    BY <1>a, <2>3
       DEF ScanInventories, ScanOrders, RescanOrders, NotifyExpired, db, intent, writes
  <2> QED BY <1>5, <2>1, <2>2, <2>3 DEF CleanupStep
<1>6. ASSUME NEW w \in Workers, CleanupFails(w) PROVE SeenInv'
  BY <1>6, <1>a DEF CleanupFails, db, intent, writes
<1>7. ASSUME NEW p \in Products, NEW n \in StockLevels, SetInventoryStock(p, n)
      PROVE  SeenInv'
  BY <1>4, <1>7 DEF SetInventoryStock, intent
<1>8. CASE Tick \/ UNCHANGED vars
  BY <1>8, <1>a DEF Tick, vars, db, intent, writes
<1> QED BY <1>1, <1>2, <1>3, <1>5, <1>6, <1>7, <1>8 DEF Next

-----------------------------------------------------------------------------
(* What the buyer is told *)

\* The state in which o's end has not been committed: nobody is going to tell it,
\* and nobody has.
LEMMA NotEndedNotTold ==
    ASSUME TypeInv, NEW o \in Calls, Tells(o), status[o] \notin {"cancelled", "expired"}
    PROVE  /\ Tellers(o) = {} /\ Passes(o) = {}
           /\ inbox[o]["order_cancelled"] = 0 /\ inbox[o]["order_expired"] = 0
<1>1. \A x \in Tellers(o) : verdict[x] \in {"cancelled", "expired"}
  BY DEF Tellers, TypeInv, NamesOrder
<1>2. inbox[o]["order_cancelled"] \in Nat /\ inbox[o]["order_expired"] \in Nat
  BY DEF TypeInv, TypeOK, Types
<1> QED BY <1>1, <1>2 DEF Tells, TellsTruth

\* A step that says nothing of o's end and makes nobody responsible for it.
LEMMA TellsKept ==
    ASSUME NEW o \in Calls, Tells(o), status'[o] = status[o],
           UNCHANGED <<inbox[o]["order_cancelled"], inbox[o]["order_expired"]>>,
           Tellers(o)' \subseteq Tellers(o), Passes(o)' \subseteq Passes(o),
           \A x \in Tellers(o)' : verdict'[x] = verdict[x]
    PROVE  Tells(o)'
<1>1. TellsOnce(o)'
  BY DEF Tells, TellsOnce, Told
<1>2. TellsTruth(o)'
  BY DEF Tells, TellsTruth
<1> QED BY <1>1, <1>2 DEF Tells

\* Steps after which no more calls and passes are to tell an end.
LEMMA EndQuiet ==
    ASSUME EndInv, UNCHANGED <<status, inbox>>,
           \A x \in Cancellers : pc'[x] = "notify" =>
               pc[x] = "notify" /\ UNCHANGED <<order[x], verdict[x]>>,
           \A w \in Workers : job'[w].expired \subseteq job[w].expired
    PROVE  EndInv'
<1> SUFFICES ASSUME NEW o \in Calls PROVE Tells(o)'
  BY DEF EndInv
<1>1. Tellers(o)' \subseteq Tellers(o) /\ Passes(o)' \subseteq Passes(o)
  BY DEF Tellers, Passes
<1>2. \A x \in Tellers(o)' : verdict'[x] = verdict[x]
  BY DEF Tellers
<1> QED BY <1>1, <1>2, TellsKept DEF EndInv

\* The commit of a cancellation that found the order pending: it ends the order,
\* and it alone.  One that found it expired leaves it so and tells nothing.
LEMMA EndCancelled ==
    ASSUME TypeInv, StatusInv, SeenInv, EndInv, NEW x \in Cancellers,
           NEW o \in Calls, order[x] = o, CommitCancel(x)
    PROVE  EndInv'
<1>1. /\ pc[x] = "saved" /\ status' = [status EXCEPT ![o] = verdict[x]]
      /\ Close(x, IF wasPending[x] THEN "notify" ELSE "done", wrote[x] \cup {o})
      /\ UNCHANGED <<order, verdict, inbox, job>>
  BY DEF CommitCancel, intent
<1>2. x \in Actors
  BY DEF Actors
<1>3. /\ verdict[x] \in {"cancelled", "expired"}
      /\ status[o] \in {"pending_payment", "expired"}
      /\ status[o] = "expired" => verdict[x] = "expired"
      /\ wasPending[x] <=> Pending(o)
  BY <1>1 DEF StatusInv, Ending, SeenInv, Seen, InTransaction
<1>4. \A d \in Calls : status'[d] = IF d = o THEN verdict[x] ELSE status[d]
  BY <1>1, <1>2 DEF TypeInv, TypeOK
<1>5. /\ pc'[x] = IF wasPending[x] THEN "notify" ELSE "done"
      /\ \A y \in Cancellers : y # x => pc'[y] = pc[y]
  BY <1>1, <1>2, CloseOthers DEF Actors
<1>6. \A d \in Calls : Passes(d)' = Passes(d)
  BY <1>1 DEF Passes
<1>7. \A d \in Calls : d # o => Tellers(d)' = Tellers(d)
  BY <1>1, <1>5 DEF Tellers
<1>8. ASSUME NEW d \in Calls, d # o PROVE Tells(d)'
  BY <1>1, <1>4, <1>6, <1>7, <1>8, TellsKept DEF EndInv
<1>9. Tells(o)'
  <2>0. Tells(o)
    BY <1>2 DEF EndInv
  <2>1. CASE ~Pending(o)
    <3>1. status'[o] = status[o]
      BY <1>2, <1>3, <1>4, <2>1 DEF Pending
    <3>2. Tellers(o)' = Tellers(o)
      BY <1>1, <1>3, <1>5, <2>1 DEF Tellers
    <3> QED BY <1>1, <1>2, <1>6, <2>0, <3>1, <3>2, TellsKept
  <2>2. CASE Pending(o)
    <3>1. /\ Tellers(o) = {} /\ Passes(o) = {}
          /\ inbox[o]["order_cancelled"] = 0 /\ inbox[o]["order_expired"] = 0
      BY <1>2, <2>0, <2>2, NotEndedNotTold DEF Pending
    <3>2. Tellers(o)' \subseteq {x} /\ Passes(o)' = {} /\ UNCHANGED inbox
      BY <1>1, <1>2, <1>5, <1>6, <3>1 DEF Tellers
    <3>3. status'[o] = verdict'[x]
      BY <1>1, <1>2, <1>4
    <3> QED BY <3>1, <3>2, <3>3 DEF Tells, TellsOnce, TellsTruth, Told
  <2> QED BY <2>1, <2>2
<1> QED BY <1>8, <1>9 DEF EndInv

\* The one that ended the order tells it, and is done.
LEMMA EndTold ==
    ASSUME TypeInv, EndInv, NEW x \in Cancellers, NEW o \in Calls, order[x] = o,
           NotifyEnded(x)
    PROVE  EndInv'
<1>1. /\ pc[x] = "notify" /\ pc' = [pc EXCEPT ![x] = "done"]
      /\ \/ inbox' = [inbox EXCEPT ![o][EndNotice(x)] = @ + 1]
         \/ UNCHANGED inbox
      /\ UNCHANGED <<status, order, verdict, job>>
  BY DEF NotifyEnded, db, intent
<1>2. x \in Actors /\ verdict[x] \in {"cancelled", "expired"}
  BY <1>1 DEF Actors, TypeInv, NamesOrder
<1>3. x \in Tellers(o)
  BY <1>1 DEF Tellers
<1>4. pc'[x] = "done" /\ \A y \in Cancellers : y # x => pc'[y] = pc[y]
  BY <1>1, <1>2 DEF TypeInv, TypeOK, Actors
<1>5. \A d \in Calls : Passes(d)' = Passes(d) /\ Tellers(d)' = Tellers(d) \ {x}
  BY <1>1, <1>4 DEF Passes, Tellers
<1>6. CASE UNCHANGED inbox
  BY <1>1, <1>5, <1>6, TellsKept DEF EndInv
<1>7. CASE inbox' = [inbox EXCEPT ![o][EndNotice(x)] = @ + 1]
  <2>0. inbox \in [Calls -> [Types -> Nat]]
    BY DEF TypeInv, TypeOK
  <2>1. ASSUME NEW d \in Calls, d # o PROVE Tells(d)'
    <3>1. inbox'[d] = inbox[d]
      BY <1>7, <2>0, <2>1
    <3> QED BY <1>1, <1>5, <3>1, TellsKept DEF EndInv
  <2>2. Tells(o)'
    <3>1. Tells(o)
      BY <1>2 DEF EndInv
    <3>2. /\ inbox[o]["order_cancelled"] = 0 /\ inbox[o]["order_expired"] = 0
          /\ Passes(o) = {} /\ Tellers(o) = {x} /\ verdict[x] = status[o]
      <4>1. inbox[o]["order_cancelled"] \in Nat /\ inbox[o]["order_expired"] \in Nat
        BY <1>2, <2>0 DEF Types
      <4> QED BY <1>3, <3>1, <4>1 DEF Tells, TellsOnce, TellsTruth, Told
    <3>3. inbox'[o] = [inbox[o] EXCEPT ![EndNotice(x)] = @ + 1]
      BY <1>2, <1>7, <2>0
    <3>4. inbox[o] \in [Types -> Nat]
      BY <1>2, <2>0
    <3>5. CASE verdict[x] = "expired"
      <4>1. inbox'[o]["order_cancelled"] = 0 /\ inbox'[o]["order_expired"] = 1
        BY <3>2, <3>3, <3>4, <3>5 DEF EndNotice, Types
      <4> QED BY <1>1, <1>2, <1>5, <3>2, <3>5, <4>1
              DEF Tells, TellsOnce, TellsTruth, Told
    <3>6. CASE verdict[x] = "cancelled"
      <4>1. inbox'[o]["order_cancelled"] = 1 /\ inbox'[o]["order_expired"] = 0
        BY <3>2, <3>3, <3>4, <3>6 DEF EndNotice, Types
      <4> QED BY <1>1, <1>2, <1>5, <3>2, <3>6, <4>1
              DEF Tells, TellsOnce, TellsTruth, Told
    <3> QED BY <1>2, <3>5, <3>6
  <2> QED BY <2>1, <2>2 DEF EndInv
<1> QED BY <1>1, <1>6, <1>7

\* A worker ends a pending order and takes it over into its pass.
LEMMA EndExpired ==
    ASSUME TypeInv, EndInv, NEW w \in Workers, NEW o \in Calls, ExpireOrder(w, o)
    PROVE  EndInv'
<1>0. job \in [Workers -> [phase : JobPhases, cutoff : Nat,
                          queue : SUBSET (Products \X Calls),
                          due : SUBSET Calls, more : BOOLEAN,
                          expired : SUBSET Calls]]
  BY DEF TypeInv, TypeOK
<1>1. UNCHANGED <<pc, order, verdict, inbox>>
  BY DEF ExpireOrder, intent
<1>2. \A d \in Calls : Tellers(d)' = Tellers(d)
  BY <1>1 DEF Tellers
<1>3. CASE ~Pending(o)
  <2>1. UNCHANGED status /\ job' = [job EXCEPT ![w].due = @ \ {o}]
    BY <1>3 DEF ExpireOrder
  <2>2. \A v \in Workers : job'[v].expired = job[v].expired
    BY <1>0, <2>1
  <2> QED BY <1>1, <2>1, <2>2, EndQuiet
<1>4. CASE Pending(o)
  <2>1. /\ status' = [status EXCEPT ![o] = "expired"]
        /\ job' = [job EXCEPT ![w].due = @ \ {o}, ![w].expired = @ \cup {o}]
    BY <1>4 DEF ExpireOrder
  <2>2. \A v \in Workers : job'[v].expired =
            IF v = w THEN job[v].expired \cup {o} ELSE job[v].expired
    BY <1>0, <2>1
  <2>3. ASSUME NEW d \in Calls, d # o PROVE Tells(d)'
    <3>1. Passes(d)' = Passes(d)
      BY <2>2, <2>3 DEF Passes
    <3>2. status'[d] = status[d]
      BY <2>1, <2>3 DEF TypeInv, TypeOK
    <3>3. \A x \in Tellers(d)' : verdict'[x] = verdict[x]
      BY <1>1
    <3>4. Tells(d)
      BY DEF EndInv
    <3> QED BY <1>1, <1>2, <3>1, <3>2, <3>3, <3>4, TellsKept
  <2>4. Tells(o)'
    <3>1. /\ Tellers(o) = {} /\ Passes(o) = {}
          /\ inbox[o]["order_cancelled"] = 0 /\ inbox[o]["order_expired"] = 0
      BY <1>4, NotEndedNotTold DEF Pending, EndInv
    <3>2. Passes(o)' = {w} /\ Tellers(o)' = {} /\ status'[o] = "expired"
      BY <1>2, <2>1, <2>2, <3>1 DEF Passes, TypeInv, TypeOK
    <3> QED BY <1>1, <3>1, <3>2 DEF Tells, TellsOnce, TellsTruth, Told
  <2> QED BY <2>3, <2>4 DEF EndInv
<1> QED BY <1>3, <1>4

\* The pass ends: each order it expired is told once, or not at all.
LEMMA EndPassed ==
    ASSUME TypeInv, EndInv, NEW w \in Workers, NotifyExpired(w)
    PROVE  EndInv'
<1>0. /\ job \in [Workers -> [phase : JobPhases, cutoff : Nat,
                          queue : SUBSET (Products \X Calls),
                          due : SUBSET Calls, more : BOOLEAN,
                          expired : SUBSET Calls]]
      /\ inbox \in [Calls -> [Types -> Nat]]
  BY DEF TypeInv, TypeOK
<1>1. PICK sent \in SUBSET job[w].expired :
        inbox' = [o \in Calls |->
                    IF o \in sent
                    THEN [inbox[o] EXCEPT !["order_expired"] = @ + 1]
                    ELSE inbox[o]]
  BY DEF NotifyExpired
<1>2. /\ job' = [job EXCEPT ![w].phase = "idle", ![w].expired = {}, ![w].cutoff = 0]
      /\ UNCHANGED <<status, pc, order, verdict>>
  BY DEF NotifyExpired, db, intent
<1>3. \A v \in Workers : job'[v].expired = IF v = w THEN {} ELSE job[v].expired
  BY <1>0, <1>2
<1>4. \A o \in Calls : Tellers(o)' = Tellers(o) /\ Passes(o)' = Passes(o) \ {w}
  <2>1. \A o \in Calls : Tellers(o)' = Tellers(o)
    BY <1>2 DEF Tellers
  <2>2. \A o \in Calls : Passes(o)' = Passes(o) \ {w}
    BY <1>3 DEF Passes
  <2> QED BY <2>1, <2>2
<1> SUFFICES ASSUME NEW o \in Calls PROVE Tells(o)'
  BY DEF EndInv
<1>5. Tells(o)
  BY DEF EndInv
<1>6. CASE o \notin sent
  BY <1>1, <1>2, <1>4, <1>5, <1>6, TellsKept
<1>7. CASE o \in sent
  <2>1. inbox[o]["order_cancelled"] \in Nat /\ inbox[o]["order_expired"] \in Nat
    BY <1>0 DEF Types
  <2>2. w \in Passes(o)
    BY <1>7 DEF Passes
  <2>3. /\ inbox[o]["order_cancelled"] = 0 /\ inbox[o]["order_expired"] = 0
        /\ Passes(o) = {w} /\ Tellers(o) = {} /\ status[o] = "expired"
    BY <1>5, <2>1, <2>2 DEF Tells, TellsOnce, TellsTruth, Told
  <2>4. inbox'[o]["order_cancelled"] = 0 /\ inbox'[o]["order_expired"] = 1
    BY <1>0, <1>1, <1>7, <2>3 DEF Types
  <2> QED BY <1>2, <1>4, <2>3, <2>4 DEF Tells, TellsOnce, TellsTruth, Told
<1> QED BY <1>6, <1>7

\* The end of each order is told by the one that made it: one case per action.
LEMMA EndStep ==
    ASSUME TypeInv, StatusInv, SeenInv, EndInv, [Next]_vars
    PROVE  EndInv'
<1>0. /\ Calls \cap Cancellers = {} /\ Calls \subseteq Actors /\ Cancellers \subseteq Actors
      /\ pc \in [Actors -> PcStates]
  BY OrdersAssumption DEF Actors, TypeInv, TypeOK
<1>a. job \in [Workers -> [phase : JobPhases, cutoff : Nat,
                           queue : SUBSET (Products \X Calls),
                           due : SUBSET Calls, more : BOOLEAN,
                           expired : SUBSET Calls]]
  BY DEF TypeInv, TypeOK
<1>b. ASSUME UNCHANGED <<status, inbox, order, verdict, job>>,
             \A x \in Cancellers : pc'[x] = "notify" => pc[x] = "notify"
      PROVE  EndInv'
  BY <1>b, EndQuiet
<1>1. ASSUME NEW c \in Calls, CreateStep(c) PROVE EndInv'
  <2>1. CASE CommitOrder(c)
    <3>1. /\ pc[c] = "saved" /\ status' = [status EXCEPT ![c] = "pending_payment"]
          /\ Close(c, "notify", wrote[c] \cup {c})
          /\ UNCHANGED <<order, verdict, inbox, job>>
      BY <2>1 DEF CommitOrder, intent
    <3>2. \A x \in Cancellers : pc'[x] = pc[x]
      BY <1>0, <3>1, CloseOthers
    <3>3. \A o \in Calls : Tellers(o)' = Tellers(o)
      BY <3>1, <3>2 DEF Tellers
    <3>4. \A o \in Calls : Passes(o)' = Passes(o)
      BY <3>1 DEF Passes
    <3>5. ASSUME NEW o \in Calls, o # c PROVE Tells(o)'
      <4>1. status'[o] = status[o]
        BY <3>1, <3>5
      <4> QED BY <3>1, <3>3, <3>4, <4>1, TellsKept DEF EndInv
    <3>6. Tells(c)'
      <4>1. status[c] = "none"
        BY <3>1 DEF StatusInv, Unplaced, Early
      <4>2. /\ Tellers(c) = {} /\ Passes(c) = {}
            /\ inbox[c]["order_cancelled"] = 0 /\ inbox[c]["order_expired"] = 0
        BY <4>1, NotEndedNotTold DEF EndInv
      <4> QED BY <3>1, <3>3, <3>4, <4>2 DEF Tells, TellsOnce, TellsTruth, Told
    <3> QED BY <3>5, <3>6 DEF EndInv
  <2>2. CASE NotifyPlaced(c)
    <3>1. /\ UNCHANGED <<status, order, verdict, job>> /\ pc' = [pc EXCEPT ![c] = "done"]
          /\ \/ inbox' = [inbox EXCEPT ![c]["order_placed"] = @ + 1]
             \/ UNCHANGED inbox
      BY <2>2 DEF NotifyPlaced, db, intent
    <3>2. inbox \in [Calls -> [Types -> Nat]]
      BY DEF TypeInv, TypeOK
    <3>3. \A o \in Calls : /\ inbox'[o]["order_cancelled"] = inbox[o]["order_cancelled"]
                           /\ inbox'[o]["order_expired"] = inbox[o]["order_expired"]
      BY <3>1, <3>2 DEF Types
    <3>4. \A x \in Cancellers : pc'[x] = pc[x]
      BY <1>0, <3>1
    <3>5. \A o \in Calls : Tellers(o)' = Tellers(o)
      BY <3>1, <3>4 DEF Tellers
    <3>6. \A o \in Calls : Passes(o)' = Passes(o)
      BY <3>1 DEF Passes
    <3> QED BY <3>1, <3>3, <3>5, <3>6, TellsKept DEF EndInv
  <2>3. CASE DuplicateKey(c) \/ WriteConflict(c)
    <3>1. \A x \in Cancellers : pc'[x] = pc[x]
      BY <1>0, <2>3, CloseOthers DEF DuplicateKey, WriteConflict
    <3> QED BY <1>b, <2>3, <3>1 DEF DuplicateKey, WriteConflict, db, intent
  <2>4. CASE FindPrevious(c) \/ AnswerExisting(c) \/ RejectOrder(c) \/ InsertOrder(c)
    <3>1. \A x \in Cancellers : pc'[x] = pc[x]
      BY <1>0, <2>4 DEF FindPrevious, AnswerExisting, RejectOrder, InsertOrder
    <3> QED BY <1>b, <2>4, <3>1
            DEF FindPrevious, AnswerExisting, RejectOrder, InsertOrder, db, intent
  <2>5. CASE BeginOrder(c)
    <3>1. \A x \in Cancellers : pc'[x] = pc[x]
      BY <1>0, <2>5 DEF BeginOrder
    <3> QED BY <1>b, <2>5, <3>1 DEF BeginOrder, db
  <2>6. ASSUME NEW p \in Products, ReserveItem(c, p) PROVE EndInv'
    BY <1>b, <2>6 DEF ReserveItem, db, intent
  <2> QED BY <1>1, <2>1, <2>2, <2>3, <2>4, <2>5, <2>6 DEF CreateStep
<1>2. ASSUME NEW x \in Cancellers, CancelStep(x) PROVE EndInv'
  <2>1. ASSUME NEW o \in Calls, BeginCancel(x, o) PROVE EndInv'
    <3>1. \A y \in Cancellers : pc'[y] = "notify" =>
             pc[y] = "notify" /\ UNCHANGED <<order[y], verdict[y]>>
      BY <1>0, <2>1 DEF BeginCancel, TypeInv, TypeOK
    <3> QED BY <2>1, <3>1, EndQuiet DEF BeginCancel, db
  <2>2. CASE CommitCancel(x)
    <3>1. order[x] \in Calls
      BY <2>2 DEF CommitCancel, TypeInv, NamesOrder
    <3> QED BY <2>2, <3>1, EndCancelled
  <2>3. CASE NotifyEnded(x)
    <3>1. order[x] \in Calls
      BY <2>3 DEF NotifyEnded, TypeInv, NamesOrder
    <3> QED BY <2>3, <3>1, EndTold
  <2>4. CASE WriteConflict(x)
    <3>1. \A y \in Cancellers : pc'[y] = "notify" => pc[y] = "notify"
      BY <1>0, <2>4, CloseOthers DEF WriteConflict
    <3> QED BY <1>b, <2>4, <3>1 DEF WriteConflict, db, intent
  <2>5. CASE SaveOrder(x) \/ \E o \in Calls : NothingToCancel(x, o)
    <3>1. \A y \in Cancellers : pc'[y] = "notify" => pc[y] = "notify"
      BY <1>0, <2>5 DEF SaveOrder, NothingToCancel
    <3> QED BY <1>b, <2>5, <3>1 DEF SaveOrder, NothingToCancel, db, intent
  <2>6. ASSUME NEW p \in Products, ReleaseItem(x, p) PROVE EndInv'
    BY <1>b, <2>6 DEF ReleaseItem, db, intent
  <2> QED BY <1>2, <2>1, <2>2, <2>3, <2>4, <2>5, <2>6 DEF CancelStep
<1>3. ASSUME NEW t \in Actors, CommitFails(t) \/ CallFails(t) PROVE EndInv'
  <2>0. PICK next \in {"begin", "done"} : Close(t, next, {})
    BY <1>3 DEF CommitFails, CallFails
  <2>1. \A y \in Cancellers : pc'[y] = "notify" => pc[y] = "notify"
    BY <1>0, <2>0, CloseOthers DEF Actors
  <2> QED BY <1>b, <1>3, <2>1 DEF CommitFails, CallFails, db, intent
<1>4. ASSUME NEW w \in Workers, CleanupStep(w) PROVE EndInv'
  <2>1. ASSUME NEW o \in Calls, ExpireOrder(w, o) PROVE EndInv'
    BY <2>1, EndExpired
  <2>2. CASE NotifyExpired(w)
    BY <2>2, EndPassed
  <2>3. ASSUME UNCHANGED <<status, inbox, order, verdict, pc>>,
               \A v \in Workers : job'[v].expired = job[v].expired
        PROVE  EndInv'
    BY <2>3, EndQuiet
  <2>4. CASE ScanInventories(w)
    <3>1. \A v \in Workers : job'[v].expired = job[v].expired
      BY <1>a, <2>4 DEF ScanInventories
    <3> QED BY <2>3, <2>4, <3>1 DEF ScanInventories, db, intent
  <2>5. ASSUME NEW p \in Products, NEW o \in Calls, ExpireReservation(w, p, o)
        PROVE  EndInv'
    <3>1. \A v \in Workers : job'[v].expired = job[v].expired
      BY <1>a, <2>5 DEF ExpireReservation
    <3> QED BY <2>3, <2>5, <3>1 DEF ExpireReservation, intent
  <2>6. CASE ScanOrders(w) \/ RescanOrders(w)
    <3>1. \E cutoff : FindDueOrders(w, cutoff)
      BY <2>6 DEF ScanOrders, RescanOrders
    <3>2. \A v \in Workers : job'[v].expired = job[v].expired
      BY <1>a, <3>1 DEF FindDueOrders
    <3> QED BY <2>3, <2>6, <3>2 DEF ScanOrders, RescanOrders, db, intent
  <2> QED BY <1>4, <2>1, <2>2, <2>4, <2>5, <2>6 DEF CleanupStep
<1>5. ASSUME NEW w \in Workers, CleanupFails(w) PROVE EndInv'
  <2>1. \A v \in Workers : job'[v].expired \subseteq job[v].expired
    BY <1>a, <1>5 DEF CleanupFails
  <2> QED BY <1>5, <2>1, EndQuiet DEF CleanupFails, db, intent
<1>6. ASSUME NEW p \in Products, NEW n \in StockLevels, SetInventoryStock(p, n)
      PROVE  EndInv'
  BY <1>b, <1>6 DEF SetInventoryStock, intent
<1>7. CASE Tick \/ UNCHANGED vars
  BY <1>b, <1>7 DEF Tick, vars, db, intent, writes
<1> QED BY <1>1, <1>2, <1>3, <1>4, <1>5, <1>6, <1>7 DEF Next

\* An order that exists goes on existing.
LEMMA PlacedStays ==
    ASSUME TypeInv, StatusInv, [Next]_vars, NEW o \in Calls, Placed(o)
    PROVE  Placed(o)'
<1>1. ASSUME NEW c \in Calls, CommitOrder(c) PROVE Placed(o)'
  BY <1>1 DEF CommitOrder, Placed, TypeInv, TypeOK
<1>2. ASSUME NEW x \in Cancellers, CommitCancel(x) PROVE Placed(o)'
  BY <1>2 DEF CommitCancel, StatusInv, Ending, Placed, TypeInv, TypeOK
<1>3. ASSUME NEW w \in Workers, NEW p \in Products, NEW d \in Calls,
             ExpireReservation(w, p, d)
      PROVE  Placed(o)'
  BY <1>3 DEF ExpireReservation, Placed
<1>4. ASSUME NEW w \in Workers, NEW d \in Calls, ExpireOrder(w, d) PROVE Placed(o)'
  BY <1>4 DEF ExpireOrder, Placed, TypeInv, TypeOK
<1>5. CASE UNCHANGED status
  BY <1>5 DEF Placed
<1> QED BY <1>1, <1>2, <1>3, <1>4, <1>5, Writers

\* Steps that tell no buyer of an order placed, and commit none.
LEMMA PlacedQuiet ==
    ASSUME TypeInv, StatusInv, PlacedInv, [Next]_vars,
           \A c \in Calls : inbox'[c]["order_placed"] = inbox[c]["order_placed"],
           \A c \in Calls : /\ pc'[c] # "done" => pc[c] # "done"
                            /\ pc'[c] = "notify" => pc[c] = "notify"
    PROVE  PlacedInv'
BY PlacedStays DEF PlacedInv

\* Every step keeps PlacedInv: one case per action that could disturb it.
LEMMA PlacedStep ==
    ASSUME TypeInv, StatusInv, PlacedInv, [Next]_vars
    PROVE  PlacedInv'
<1>0. /\ Calls \cap Cancellers = {} /\ Calls \subseteq Actors /\ Cancellers \subseteq Actors
      /\ pc \in [Actors -> PcStates] /\ inbox \in [Calls -> [Types -> Nat]]
  BY OrdersAssumption DEF Actors, TypeInv, TypeOK
<1>a. ASSUME UNCHANGED inbox,
             \A c \in Calls : /\ pc'[c] # "done" => pc[c] # "done"
                              /\ pc'[c] = "notify" => pc[c] = "notify"
      PROVE  PlacedInv'
  BY <1>a, PlacedQuiet
<1>1. ASSUME NEW c \in Calls, CreateStep(c) PROVE PlacedInv'
  <2>1. CASE CommitOrder(c)
    <3>1. /\ pc[c] = "saved" /\ status' = [status EXCEPT ![c] = "pending_payment"]
          /\ Close(c, "notify", wrote[c] \cup {c}) /\ UNCHANGED inbox
      BY <2>1 DEF CommitOrder
    <3>2. \A d \in Calls \ {c} : pc'[d] = pc[d]
      BY <1>0, <3>1, CloseOthers
    <3>3. Placed(c)'
      BY <3>1 DEF Placed, TypeInv, TypeOK
    <3> QED BY <3>1, <3>2, <3>3, PlacedStays DEF PlacedInv
  <2>2. CASE NotifyPlaced(c)
    <3>1. /\ pc[c] = "notify" /\ pc' = [pc EXCEPT ![c] = "done"]
          /\ \/ inbox' = [inbox EXCEPT ![c]["order_placed"] = @ + 1]
             \/ UNCHANGED inbox
      BY <2>2 DEF NotifyPlaced
    <3>2. /\ pc'[c] = "done" /\ \A d \in Calls \ {c} : pc'[d] = pc[d]
          /\ \A d \in Calls \ {c} : inbox'[d] = inbox[d]
      BY <1>0, <3>1
    <3>3. Placed(c)' /\ inbox[c]["order_placed"] = 0
      BY <3>1, PlacedStays DEF PlacedInv
    <3>4. inbox'[c]["order_placed"] <= 1
      BY <1>0, <3>1, <3>3 DEF Types
    <3> QED BY <3>2, <3>3, <3>4, PlacedStays DEF PlacedInv
  <2>3. CASE DuplicateKey(c) \/ WriteConflict(c)
    <3>1. pc[c] = "write" /\ UNCHANGED inbox
      BY <2>3 DEF DuplicateKey, WriteConflict
    <3>2. pc'[c] # "notify" /\ \A d \in Calls \ {c} : pc'[d] = pc[d]
      <4>1. Close(c, "done", {}) \/ Close(c, "begin", {})
        BY <2>3 DEF DuplicateKey, WriteConflict
      <4>2. ASSUME NEW next, Close(c, next, {})
            PROVE  pc'[c] = next /\ \A d \in Calls \ {c} : pc'[d] = pc[d]
        BY <1>0, <4>2, CloseOthers
      <4> QED BY <4>1, <4>2
    <3>3. \A d \in Calls : /\ pc'[d] # "done" => pc[d] # "done"
                           /\ pc'[d] = "notify" => pc[d] = "notify"
      BY <3>1, <3>2
    <3> QED BY <1>a, <3>1, <3>3
  <2>4. CASE FindPrevious(c) \/ AnswerExisting(c) \/ RejectOrder(c) \/ InsertOrder(c)
             \/ BeginOrder(c)
    <3>1. \A d \in Calls : /\ pc'[d] # "done" => pc[d] # "done"
                           /\ pc'[d] = "notify" => pc[d] = "notify"
      BY <1>0, <2>4
         DEF FindPrevious, AnswerExisting, PlacedAtStart, RejectOrder, InsertOrder, BeginOrder
    <3> QED BY <1>a, <2>4, <3>1
            DEF FindPrevious, AnswerExisting, RejectOrder, InsertOrder, BeginOrder
  <2>5. ASSUME NEW p \in Products, ReserveItem(c, p) PROVE PlacedInv'
    BY <1>a, <2>5 DEF ReserveItem
  <2> QED BY <1>1, <2>1, <2>2, <2>3, <2>4, <2>5 DEF CreateStep
<1>2. ASSUME NEW x \in Cancellers, CancelStep(x) PROVE PlacedInv'
  <2>1. \A c \in Calls : pc'[c] = pc[c]
    <3>1. ASSUME NEW next, NEW D, Close(x, next, D) PROVE \A c \in Calls : pc'[c] = pc[c]
      BY <1>0, <3>1, CloseOthers
    <3>2. CASE CommitCancel(x) \/ WriteConflict(x)
      BY <3>1, <3>2 DEF CommitCancel, WriteConflict
    <3>3. CASE ~CommitCancel(x) /\ ~WriteConflict(x)
      BY <1>0, <1>2, <3>3
         DEF CancelStep, BeginCancel, NothingToCancel, ReleaseItem, SaveOrder, NotifyEnded
    <3> QED BY <3>2, <3>3
  <2>2. CASE NotifyEnded(x)
    <3>1. EndNotice(x) # "order_placed"
      BY DEF EndNotice
    <3>2. \A c \in Calls : inbox'[c]["order_placed"] = inbox[c]["order_placed"]
      BY <1>0, <2>2, <3>1 DEF NotifyEnded, Types
    <3> QED BY <2>1, <3>2, PlacedQuiet
  <2>3. CASE ~NotifyEnded(x)
    BY <1>2, <1>a, <2>1, <2>3
       DEF CancelStep, BeginCancel, NothingToCancel, ReleaseItem, SaveOrder,
           CommitCancel, WriteConflict
  <2> QED BY <2>2, <2>3
<1>3. ASSUME NEW t \in Actors, CommitFails(t) \/ CallFails(t) PROVE PlacedInv'
  <2>0. PICK next \in {"begin", "done"} : Close(t, next, {})
    BY <1>3 DEF CommitFails, CallFails
  <2>1. /\ UNCHANGED inbox /\ pc[t] # "done" /\ pc'[t] \in {"begin", "done"}
        /\ \A u \in Actors \ {t} : pc'[u] = pc[u]
    BY <1>0, <1>3, <2>0, CloseOthers DEF CommitFails, CallFails
  <2>2. \A c \in Calls : /\ pc'[c] # "done" => pc[c] # "done"
                         /\ pc'[c] = "notify" => pc[c] = "notify"
    BY <2>1 DEF Actors
  <2> QED BY <1>a, <2>1, <2>2
<1>4. ASSUME NEW w \in Workers, CleanupStep(w) PROVE PlacedInv'
  <2>1. UNCHANGED pc
    BY <1>4
       DEF CleanupStep, ScanInventories, ExpireReservation, ScanOrders, RescanOrders,
           ExpireOrder, NotifyExpired
  <2>2. CASE NotifyExpired(w)
    <3>1. \A c \in Calls : inbox'[c]["order_placed"] = inbox[c]["order_placed"]
      BY <1>0, <2>2 DEF NotifyExpired, Types
    <3> QED BY <2>1, <3>1, PlacedQuiet
  <2>3. CASE ~NotifyExpired(w)
    BY <1>4, <1>a, <2>1, <2>3
       DEF CleanupStep, ScanInventories, ExpireReservation, ScanOrders, RescanOrders,
           ExpireOrder
  <2> QED BY <2>2, <2>3
<1>5. CASE UNCHANGED <<pc, inbox>>
  BY <1>5, <1>a
<1> QED BY <1>1, <1>2, <1>3, <1>4, <1>5
        DEF Next, CleanupFails, SetInventoryStock, Tick, vars

\* The inductive invariant of what buyers are told.
LEMMA TellInvariant == Spec => [](TypeInv /\ EndInv /\ PlacedInv)
<1>1. Init => TypeInv /\ StockInv /\ StatusInv /\ SeenInv /\ EndInv /\ PlacedInv
  BY TypeInit, StockInit, StatusInit, TellInit
<1>2. TypeInv /\ StockInv /\ StatusInv /\ SeenInv /\ EndInv /\ PlacedInv /\ [Next]_vars
        => (TypeInv /\ StockInv /\ StatusInv /\ SeenInv /\ EndInv /\ PlacedInv)'
  BY TypeStep, StockStep, StatusStep, SeenStep, EndStep, PlacedStep
<1> QED BY <1>1, <1>2, PTL DEF Spec

\* The buyer hears at most once that an order was placed and at most once that it
\* ended, however cancellations and workers race to end it and crash after that.
THEOREM BuyersHearOnce == Spec => []NotifiedOnce
<1>1. EndInv /\ PlacedInv => NotifiedOnce
  BY DEF EndInv, Tells, TellsOnce, Told, PlacedInv, NotifiedOnce
<1> QED BY <1>1, TellInvariant, PTL

\* No ghost notification: what a buyer is told of an order is what was committed.
THEOREM BuyersHearTheTruth == Spec => []NotifiedTruth
<1>1. EndInv /\ PlacedInv => NotifiedTruth
  BY DEF EndInv, Tells, TellsTruth, PlacedInv, NotifiedTruth
<1> QED BY <1>1, TellInvariant, PTL
=============================================================================
