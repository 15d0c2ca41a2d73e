---------------------------- MODULE OrdersProofs ----------------------------
(***************************************************************************)
(* Proofs about Orders, for every set of calls, cancellers, workers and    *)
(* products, every quantity and every bound.                               *)
(*                                                                         *)
(* First the stock: what is sold and what is held add up.  Then the ends:  *)
(* orders and reservations end once, for whichever of the cancellations    *)
(* and the workers comes first, the status it leaves is final; the         *)
(* invariant says what each of them still knows of the order between its   *)
(* read and its write.  And one request makes one order: a createOrder     *)
(* call whose snapshot does not show the winner of its request has missed  *)
(* it, so the unique index stops the call before its insert.               *)
(***************************************************************************)
EXTENDS Orders, FiniteSetTheorems, TLAPS

-----------------------------------------------------------------------------
(* Units: how many units a set of orders holds *)

\* The units 1..n of one order are n.
LEMMA IntervalFinite ==
    ASSUME NEW n \in Nat
    PROVE  IsFiniteSet(1..n) /\ Cardinality(1..n) = n
BY FS_Interval, SMT

\* The units of a set of orders are finitely many.
LEMMA UnitsFinite ==
    ASSUME NEW p \in Products, NEW A \in SUBSET Calls
    PROVE  IsFiniteSet(Units(p, A))
<1> DEFINE Ranges == {1..Quantity[o][p] : o \in Calls}
           f == [o \in Calls |-> 1..Quantity[o][p]]
<1>1. IsFiniteSet(Ranges)
  <2>1. f \in Surjection(Calls, Ranges)
    BY DEF Surjection
  <2>2. IsFiniteSet(Calls)
    BY OrdersAssumption
  <2> QED BY <2>1, <2>2, FS_Surjection
<1>2. \A T \in Ranges : IsFiniteSet(T)
  <2> SUFFICES ASSUME NEW o \in Calls PROVE IsFiniteSet(1..Quantity[o][p])
    OBVIOUS
  <2>1. Quantity[o][p] \in Nat
    BY OrdersAssumption
  <2> QED BY <2>1, IntervalFinite
<1>3. IsFiniteSet(UNION Ranges)
  BY <1>1, <1>2, FS_UNION
<1>4. IsFiniteSet(A)
  BY OrdersAssumption, FS_Subset
<1>5. IsFiniteSet(A \X UNION Ranges)
  BY <1>3, <1>4, FS_Product
<1>6. Units(p, A) \in SUBSET (A \X UNION Ranges)
  BY DEF Units
<1> QED BY <1>5, <1>6, FS_Subset

\* One more order holds its quantity more.
LEMMA UnitsAdd ==
    ASSUME NEW p \in Products, NEW A \in SUBSET Calls, NEW o \in Calls \ A
    PROVE  Cardinality(Units(p, A \cup {o}))
               = Cardinality(Units(p, A)) + Quantity[o][p]
<1> DEFINE New == {o} \X (1..Quantity[o][p])
<1>1. Quantity[o][p] \in Nat
  BY OrdersAssumption
<1>2. Units(p, A \cup {o}) = Units(p, A) \cup New
  BY <1>1 DEF Units
<1>3. Units(p, A) \cap New = {}
  BY DEF Units
<1>4. IsFiniteSet(New) /\ Cardinality(New) = Quantity[o][p]
  <2>1. IsFiniteSet({o}) /\ Cardinality({o}) = 1
    BY FS_Singleton
  <2>2. IsFiniteSet(1..Quantity[o][p])
        /\ Cardinality(1..Quantity[o][p]) = Quantity[o][p]
    BY <1>1, IntervalFinite
  <2>3. IsFiniteSet(New) /\ Cardinality(New) = 1 * Quantity[o][p]
    BY <2>1, <2>2, FS_Product
  <2> QED BY <1>1, <2>3
<1>5. IsFiniteSet(Units(p, A)) /\ Cardinality(Units(p, A)) \in Nat
  BY UnitsFinite, FS_CardinalityType
<1>6. Cardinality(Units(p, A) \cup New)
        = Cardinality(Units(p, A)) + Quantity[o][p] - Cardinality({})
  BY <1>3, <1>4, <1>5, FS_Union
<1>7. Cardinality({}) = 0
  BY FS_EmptySet
<1>8. Cardinality(Units(p, A \cup {o})) = Cardinality(Units(p, A) \cup New)
  BY <1>2
<1> HIDE DEF New
<1> QED BY <1>1, <1>5, <1>6, <1>7, <1>8

\* One order less holds its quantity less.
LEMMA UnitsRemove ==
    ASSUME NEW p \in Products, NEW A \in SUBSET Calls, NEW o \in A
    PROVE  Cardinality(Units(p, A \ {o}))
               = Cardinality(Units(p, A)) - Quantity[o][p]
<1>1. Cardinality(Units(p, (A \ {o}) \cup {o}))
        = Cardinality(Units(p, A \ {o})) + Quantity[o][p]
  BY UnitsAdd
<1>2. (A \ {o}) \cup {o} = A
  OBVIOUS
<1>3. Cardinality(Units(p, A \ {o})) \in Nat
  BY UnitsFinite, FS_CardinalityType
<1>4. Quantity[o][p] \in Nat
  BY OrdersAssumption
<1>5. Cardinality(Units(p, (A \ {o}) \cup {o})) = Cardinality(Units(p, A))
  BY <1>2
<1> QED BY <1>1, <1>3, <1>4, <1>5

-----------------------------------------------------------------------------
(* Type correctness *)

\* A createOrder call names its own order, and a cancelOrder call that is past
\* its reads names an order that exists.
NamesOrder ==
    /\ \A c \in Calls : order[c] = c
    /\ \A x \in Cancellers : pc[x] \in {"write", "saved", "notify"} =>
          order[x] \in Calls /\ verdict[x] \in {"cancelled", "expired"}

TypeInv == TypeOK /\ NamesOrder

\* Publish yields sets of documents.
LEMMA PublishType ==
    ASSUME TypeOK, NEW D \in SUBSET Docs
    PROVE  Publish(D) \in [Actors -> SUBSET Docs]
BY DEF Publish, TypeOK

\* Closing a transaction keeps the types of its buffers.
LEMMA CloseType ==
    ASSUME TypeOK, NEW t \in Actors, NEW next \in PcStates,
           NEW D \in SUBSET Docs, Close(t, next, D)
    PROVE  /\ pc' \in [Actors -> PcStates]
           /\ todo' \in [Actors -> SUBSET Products]
           /\ wrote' \in [Actors -> SUBSET Products]
           /\ missed' \in [Actors -> SUBSET Docs]
BY PublishType DEF Close, TypeOK

\* One more message of a type in an order's inbox.
LEMMA TellType ==
    ASSUME TypeOK, NEW o \in Calls, NEW type \in Types
    PROVE  [inbox EXCEPT ![o][type] = @ + 1] \in [Calls -> [Types -> Nat]]
<1>1. inbox[o][type] \in Nat /\ inbox \in [Calls -> [Types -> Nat]]
  BY DEF TypeOK
<1> QED BY <1>1

\* The initial state is typed.
LEMMA TypeInit == Init => TypeInv
BY OrdersAssumption
   DEF Init, TypeInv, TypeOK, NamesOrder, Actors, PcStates, ReservationStatuses,
       OrderStatuses, JobPhases, Types

\* Every step keeps the types: one case per action.
LEMMA TypeStep == TypeInv /\ [Next]_vars => TypeInv'
<1> SUFFICES ASSUME TypeInv, [Next]_vars PROVE TypeInv'
  OBVIOUS
<1> USE OrdersAssumption
<1>1. ASSUME NEW c \in Calls, CreateStep(c) PROVE TypeInv'
  <2> USE DEF TypeInv, NamesOrder, PcStates, Actors
  <2>1. CASE FindPrevious(c)
    BY <2>1 DEF FindPrevious, TypeOK, db, intent, writes, env
  <2>2. CASE BeginOrder(c)
    BY <2>2 DEF BeginOrder, PlacedAtStart, TypeOK, db, env, Items
  <2>3. CASE AnswerExisting(c)
    BY <2>3 DEF AnswerExisting, PlacedAtStart, Existing, Answer, TypeOK, db, writes, env
  <2>4. CASE RejectOrder(c)
    BY <2>4 DEF RejectOrder, TypeOK, db, intent, writes, env
  <2>5. ASSUME NEW p \in Products, ReserveItem(c, p) PROVE TypeInv'
    BY <2>5 DEF ReserveItem, TypeOK, db, intent, env
  <2>6. CASE InsertOrder(c)
    BY <2>6 DEF InsertOrder, TypeOK, db, intent, writes, env
  <2>7. CASE DuplicateKey(c)
    <3>1. Close(c, "done", {})
      BY <2>7 DEF DuplicateKey
    <3>2. /\ pc' = [pc EXCEPT ![c] = "done"]
          /\ todo' \in [Actors -> SUBSET Products]
          /\ wrote' \in [Actors -> SUBSET Products]
          /\ missed' \in [Actors -> SUBSET Docs]
      BY <3>1, CloseType DEF Close
    <3>3. result' \in [Calls -> Calls \cup {"none", "rejected"}]
      BY <2>7 DEF DuplicateKey, Existing, Answer, TypeOK
    <3> QED BY <2>7, <3>2, <3>3 DEF DuplicateKey, TypeOK, db, intent, env
  <2>8. CASE CommitOrder(c)
    <3>1. Close(c, "notify", wrote[c] \cup {c}) /\ wrote[c] \cup {c} \in SUBSET Docs
      BY <2>8 DEF CommitOrder, TypeOK, Docs
    <3>2. /\ pc' = [pc EXCEPT ![c] = "notify"]
          /\ todo' \in [Actors -> SUBSET Products]
          /\ wrote' \in [Actors -> SUBSET Products]
          /\ missed' \in [Actors -> SUBSET Docs]
      BY <3>1, CloseType DEF Close
    <3>3. reservation' \in [Products -> [Calls -> ReservationStatuses]]
      BY <2>8 DEF CommitOrder, TypeOK, ReservationStatuses
    <3>4. stock' \in [Products -> Int] /\ status' \in [Calls -> OrderStatuses]
      BY <2>8 DEF CommitOrder, TypeOK, OrderStatuses
    <3> QED BY <2>8, <3>2, <3>3, <3>4 DEF CommitOrder, TypeOK, intent, env
  <2>9. CASE NotifyPlaced(c)
    <3>1. inbox' \in [Calls -> [Types -> Nat]]
      <4>1. [inbox EXCEPT ![c]["order_placed"] = @ + 1]
                \in [Calls -> [Types -> Nat]]
        BY TellType DEF Types
      <4> QED BY <2>9, <4>1 DEF NotifyPlaced, TypeOK
    <3> QED BY <2>9, <3>1 DEF NotifyPlaced, TypeOK, db, intent, writes, env
  <2>10. CASE WriteConflict(c)
    <3>1. Close(c, "begin", {})
      BY <2>10 DEF WriteConflict
    <3>2. /\ pc' = [pc EXCEPT ![c] = "begin"]
          /\ todo' \in [Actors -> SUBSET Products]
          /\ wrote' \in [Actors -> SUBSET Products]
          /\ missed' \in [Actors -> SUBSET Docs]
      BY <3>1, CloseType DEF Close
    <3> QED BY <2>10, <3>2 DEF WriteConflict, TypeOK, db, intent, env
  <2> HIDE DEF TypeInv, NamesOrder, PcStates, Actors
  <2> QED BY <1>1, <2>1, <2>2, <2>3, <2>4, <2>5, <2>6, <2>7, <2>8, <2>9, <2>10
          DEF CreateStep
<1>2. ASSUME NEW x \in Cancellers, CancelStep(x) PROVE TypeInv'
  <2> USE DEF TypeInv, NamesOrder, PcStates, Actors
  <2>1. ASSUME NEW o \in Calls, BeginCancel(x, o) PROVE TypeInv'
    <3>1. verdict' \in [Actors -> {"none", "cancelled", "expired"}]
          /\ verdict'[x] \in {"cancelled", "expired"}
      BY <2>1 DEF BeginCancel, Verdict, TypeOK
    <3>2. wasPending' \in [Actors -> BOOLEAN]
      BY <2>1 DEF BeginCancel, Transitions, Pending, TypeOK
    <3>3. todo' \in [Actors -> SUBSET Products]
      BY <2>1 DEF BeginCancel, Items, TypeOK
    <3>4. \A y \in Actors : y # x => verdict'[y] = verdict[y]
      BY <2>1 DEF BeginCancel, TypeOK
    <3> QED BY <2>1, <3>1, <3>2, <3>3, <3>4 DEF BeginCancel, TypeOK, db, env
  <2>2. ASSUME NEW o \in Calls, NothingToCancel(x, o) PROVE TypeInv'
    BY <2>2 DEF NothingToCancel, TypeOK, db, intent, writes, env
  <2>3. ASSUME NEW p \in Products, ReleaseItem(x, p) PROVE TypeInv'
    BY <2>3 DEF ReleaseItem, TypeOK, db, intent, env
  <2>4. CASE SaveOrder(x)
    BY <2>4 DEF SaveOrder, TypeOK, db, intent, writes, env
  <2>5. CASE CommitCancel(x)
    <3> DEFINE next == IF wasPending[x] THEN "notify" ELSE "done"
    <3>1. order[x] \in Calls /\ verdict[x] \in OrderStatuses
      BY <2>5 DEF CommitCancel, OrderStatuses
    <3>2. /\ Close(x, next, wrote[x] \cup {order[x]})
          /\ wrote[x] \cup {order[x]} \in SUBSET Docs
          /\ next \in PcStates
      BY <2>5, <3>1 DEF CommitCancel, TypeOK, Docs
    <3>3. /\ pc' = [pc EXCEPT ![x] = next]
          /\ todo' \in [Actors -> SUBSET Products]
          /\ wrote' \in [Actors -> SUBSET Products]
          /\ missed' \in [Actors -> SUBSET Docs]
      BY <3>2, CloseType DEF Close
    <3>4. reservation' \in [Products -> [Calls -> ReservationStatuses]]
      BY <2>5, <3>1 DEF CommitCancel, TypeOK, ReservationStatuses
    <3>5. stock' \in [Products -> Int]
      BY <2>5, <3>1 DEF CommitCancel, TypeOK
    <3>6. status' \in [Calls -> OrderStatuses]
      BY <2>5, <3>1 DEF CommitCancel, TypeOK
    <3> HIDE DEF next
    <3> QED BY <2>5, <3>1, <3>2, <3>3, <3>4, <3>5, <3>6
            DEF CommitCancel, TypeOK, intent, env
  <2>6. CASE NotifyEnded(x)
    <3>1. inbox' \in [Calls -> [Types -> Nat]]
      <4>1. order[x] \in Calls /\ EndNotice(x) \in Types
        BY <2>6 DEF NotifyEnded, EndNotice, Types
      <4>2. [inbox EXCEPT ![order[x]][EndNotice(x)] = @ + 1]
                \in [Calls -> [Types -> Nat]]
        BY <4>1, TellType
      <4> QED BY <2>6, <4>2 DEF NotifyEnded, TypeOK
    <3> QED BY <2>6, <3>1 DEF NotifyEnded, TypeOK, db, intent, writes, env
  <2>7. CASE WriteConflict(x)
    <3>1. Close(x, "begin", {})
      BY <2>7 DEF WriteConflict
    <3>2. /\ pc' = [pc EXCEPT ![x] = "begin"]
          /\ todo' \in [Actors -> SUBSET Products]
          /\ wrote' \in [Actors -> SUBSET Products]
          /\ missed' \in [Actors -> SUBSET Docs]
      BY <3>1, CloseType DEF Close
    <3> QED BY <2>7, <3>2 DEF WriteConflict, TypeOK, db, intent, env
  <2> HIDE DEF TypeInv, NamesOrder, PcStates, Actors
  <2> QED BY <1>2, <2>1, <2>2, <2>3, <2>4, <2>5, <2>6, <2>7 DEF CancelStep
<1>3. ASSUME NEW t \in Actors, CommitFails(t) \/ CallFails(t) PROVE TypeInv'
  <2> USE DEF TypeInv, NamesOrder, PcStates, Actors
  <2>1. PICK next \in {"begin", "done"} : Close(t, next, {})
    BY <1>3 DEF CommitFails, CallFails
  <2>2. /\ pc' = [pc EXCEPT ![t] = next]
        /\ todo' \in [Actors -> SUBSET Products]
        /\ wrote' \in [Actors -> SUBSET Products]
        /\ missed' \in [Actors -> SUBSET Docs]
    BY <2>1, CloseType DEF Close
  <2> QED BY <1>3, <2>2 DEF CommitFails, CallFails, TypeOK, db, intent
<1>4. ASSUME NEW w \in Workers, CleanupStep(w) PROVE TypeInv'
  <2> DEFINE Pass == [phase : JobPhases, cutoff : Nat,
                      queue : SUBSET (Products \X Calls),
                      due : SUBSET Calls, more : BOOLEAN,
                      expired : SUBSET Calls]
  <2>0. job \in [Workers -> Pass] /\ job[w] \in Pass
    BY DEF TypeInv, TypeOK
  <2>1. CASE ScanInventories(w)
    <3>1. PICK batch \in SUBSET Products :
            job' = [job EXCEPT ![w].phase = "inventory",
                               ![w].queue = {r \in batch \X Calls :
                                               r[2] \in DueReservations(r[1])}]
      BY <2>1 DEF ScanInventories, Batches
    <3>2. {r \in batch \X Calls : r[2] \in DueReservations(r[1])}
             \in SUBSET (Products \X Calls)
      OBVIOUS
    <3>3. job' \in [Workers -> Pass]
      BY <2>0, <3>1, <3>2 DEF JobPhases
    <3> QED BY <2>1, <3>3
            DEF ScanInventories, TypeInv, TypeOK, NamesOrder, db, intent, writes, env
  <2>2. ASSUME NEW p \in Products, NEW o \in Calls, ExpireReservation(w, p, o)
        PROVE  TypeInv'
    <3>1. job' \in [Workers -> Pass]
      BY <2>0, <2>2 DEF ExpireReservation
    <3>2. Publish({p}) \in [Actors -> SUBSET Docs]
      BY PublishType DEF TypeInv, Docs
    <3>3. missed' \in [Actors -> SUBSET Docs]
      BY <2>2, <3>2 DEF ExpireReservation, TypeInv, TypeOK
    <3>4. stock' \in [Products -> Int]
      <4>1. Quantity[o][p] \in Nat /\ stock \in [Products -> Int]
        BY DEF TypeInv, TypeOK
      <4> QED BY <2>2, <4>1 DEF ExpireReservation
    <3>5. reservation' \in [Products -> [Calls -> ReservationStatuses]]
      <4>1. /\ "expired" \in ReservationStatuses
            /\ reservation \in [Products -> [Calls -> ReservationStatuses]]
        BY DEF TypeInv, TypeOK, ReservationStatuses
      <4>2. [reservation EXCEPT ![p][o] = "expired"]
                \in [Products -> [Calls -> ReservationStatuses]]
        BY <4>1
      <4> QED BY <2>2, <4>1, <4>2 DEF ExpireReservation
    <3> QED BY <2>2, <3>1, <3>3, <3>4, <3>5
            DEF ExpireReservation, TypeInv, TypeOK, NamesOrder, intent, env
  <2>3. ASSUME NEW cutoff \in Nat, FindDueOrders(w, cutoff)
        PROVE  job' \in [Workers -> Pass]
    <3>1. PICK batch \in SUBSET Calls :
            job' = [job EXCEPT ![w].phase = "orders",
                               ![w].cutoff = cutoff,
                               ![w].due = batch,
                               ![w].more = Cardinality(batch) = BatchSize]
      BY <2>3 DEF FindDueOrders, Batches, DueOrders
    <3> DEFINE more == Cardinality(batch) = BatchSize
    <3>2. more \in BOOLEAN
      OBVIOUS
    <3>3. job' = [job EXCEPT ![w].phase = "orders", ![w].cutoff = cutoff,
                             ![w].due = batch, ![w].more = more]
      BY <3>1
    <3> HIDE DEF more
    <3> QED BY <2>0, <3>2, <3>3 DEF JobPhases
  <2>4. CASE ScanOrders(w)
    <3>1. job' \in [Workers -> Pass]
      BY <2>3, <2>4 DEF ScanOrders, TypeInv, TypeOK
    <3> QED BY <2>4, <3>1
            DEF ScanOrders, TypeInv, TypeOK, NamesOrder, db, intent, writes, env
  <2>5. CASE RescanOrders(w)
    <3>1. job' \in [Workers -> Pass]
      BY <2>0, <2>3, <2>5 DEF RescanOrders
    <3> QED BY <2>5, <3>1
            DEF RescanOrders, TypeInv, TypeOK, NamesOrder, db, intent, writes, env
  <2>6. ASSUME NEW o \in Calls, ExpireOrder(w, o) PROVE TypeInv'
    <3>1. job' \in [Workers -> Pass]
      <4>1. CASE job' = [job EXCEPT ![w].due = @ \ {o}]
        BY <2>0, <4>1
      <4>2. CASE job' = [job EXCEPT ![w].due = @ \ {o}, ![w].expired = @ \cup {o}]
        BY <2>0, <4>2
      <4> QED BY <2>6, <4>1, <4>2 DEF ExpireOrder
    <3>2. Publish({o}) \in [Actors -> SUBSET Docs]
      BY PublishType DEF TypeInv, Docs
    <3>3. /\ missed' \in [Actors -> SUBSET Docs]
          /\ status' \in [Calls -> OrderStatuses]
      BY <2>6, <3>2 DEF ExpireOrder, TypeInv, TypeOK, OrderStatuses
    <3> QED BY <2>6, <3>1, <3>3
            DEF ExpireOrder, TypeInv, TypeOK, NamesOrder, intent, env
  <2>7. CASE NotifyExpired(w)
    <3>1. job' \in [Workers -> Pass]
      BY <2>0, <2>7 DEF NotifyExpired, JobPhases
    <3>2. inbox' \in [Calls -> [Types -> Nat]]
      BY <2>7 DEF NotifyExpired, TypeInv, TypeOK, Types
    <3> QED BY <2>7, <3>1, <3>2
            DEF NotifyExpired, TypeInv, TypeOK, NamesOrder, db, intent, writes, env
  <2> QED BY <1>4, <2>1, <2>2, <2>4, <2>5, <2>6, <2>7 DEF CleanupStep
<1>5. ASSUME NEW w \in Workers, CleanupFails(w) PROVE TypeInv'
  <2>1. job' \in [Workers -> [phase : JobPhases, cutoff : Nat,
                              queue : SUBSET (Products \X Calls),
                              due : SUBSET Calls, more : BOOLEAN,
                              expired : SUBSET Calls]]
    BY <1>5 DEF CleanupFails, TypeInv, TypeOK, JobPhases
  <2> QED BY <1>5, <2>1
          DEF CleanupFails, TypeInv, TypeOK, NamesOrder, db, intent, writes
<1>6. ASSUME NEW p \in Products, NEW n \in StockLevels, SetInventoryStock(p, n)
      PROVE  TypeInv'
  <2>1. missed' \in [Actors -> SUBSET Docs]
    BY <1>6, PublishType DEF SetInventoryStock, TypeInv, Docs
  <2>2. n \in Nat /\ stock \in [Products -> Int] /\ supplied \in [Products -> Int]
    BY DEF TypeInv, TypeOK
  <2>3. stock' \in [Products -> Int] /\ supplied' \in [Products -> Int]
    <3>1. /\ stock' = [stock EXCEPT ![p] = n]
          /\ supplied' = [supplied EXCEPT ![p] = supplied[p] + n - stock[p]]
      BY <1>6 DEF SetInventoryStock
    <3>2. n \in Int /\ supplied[p] + n - stock[p] \in Int
      BY <2>2
    <3>3. stock' \in [Products -> Int]
      BY <2>2, <3>1, <3>2
    <3>4. supplied' \in [Products -> Int]
      <4> DEFINE m == supplied[p] + n - stock[p]
      <4> HIDE DEF m
      <4>1. m \in Int /\ supplied' = [supplied EXCEPT ![p] = m]
        BY <3>1, <3>2 DEF m
      <4> QED BY <2>2, <4>1
    <3> QED BY <3>3, <3>4
  <2>4. sellerUpdates' \in Nat
    BY <1>6 DEF SetInventoryStock, TypeInv, TypeOK
  <2>5. UNCHANGED <<reservation, status, intent, todo, wrote, pc, result, job,
                    now, inbox, faults>>
    BY <1>6 DEF SetInventoryStock
  <2> QED BY <2>1, <2>3, <2>4, <2>5 DEF TypeInv, TypeOK, NamesOrder, intent
<1>7. CASE Tick
  BY <1>7 DEF Tick, TypeInv, TypeOK, NamesOrder, db, intent, writes
<1>8. CASE UNCHANGED vars
  BY <1>8 DEF vars, TypeInv, TypeOK, NamesOrder, db, intent, writes, env
<1> QED BY <1>1, <1>2, <1>3, <1>4, <1>5, <1>6, <1>7, <1>8 DEF Next

\* The state keeps its types, and every call names an order it may end.
THEOREM TypeCorrect == Spec => []TypeOK
<1>1. TypeInv => TypeOK
  BY DEF TypeInv
<1> QED BY <1>1, TypeInit, TypeStep, PTL DEF Spec

-----------------------------------------------------------------------------
(* Stock is conserved and never oversold *)

\* No two open transactions have written one inventory document.
OneWriter ==
    \A t, u \in Actors : \A p \in Products :
        p \in wrote[t] /\ p \in wrote[u] => t = u

\* What a createOrder transaction has buffered still fits the database.
ReservesFit ==
    \A c \in Calls : \A p \in wrote[c] :
        reservation[p][c] = "none" /\ stock[p] >= Quantity[c][p]

\* What a cancelOrder transaction has buffered still fits the database.
ReleasesFit ==
    \A x \in Cancellers : \A p \in wrote[x] :
        order[x] \in Calls /\ reservation[p][order[x]] = "active"

StockInv == OneWriter /\ ReservesFit /\ ReleasesFit /\ StockConserved /\ NoOversell

\* The holders of a product are finitely many orders.
LEMMA HoldersType ==
    ASSUME NEW p \in Products
    PROVE  /\ Holders(p) \in SUBSET Calls
           /\ Cardinality(Units(p, Holders(p))) \in Nat
<1>1. Holders(p) \in SUBSET Calls
  BY DEF Holders
<1> QED BY <1>1, UnitsFinite, FS_CardinalityType

\* Nothing is held at the start.
LEMMA StockInit == Init => StockInv
<1> SUFFICES ASSUME Init PROVE StockInv
  OBVIOUS
<1> USE OrdersAssumption
<1>1. OneWriter /\ ReservesFit /\ ReleasesFit
  BY DEF Init, OneWriter, ReservesFit, ReleasesFit, Actors
<1>2. NoOversell
  BY DEF Init, NoOversell
<1>3. ASSUME NEW p \in Products
      PROVE  stock[p] + Cardinality(Units(p, Holders(p))) = supplied[p]
  <2>1. Holders(p) = {}
    BY DEF Init, Holders
  <2>2. Units(p, {}) = {}
    BY DEF Units
  <2>3. Cardinality(Units(p, Holders(p))) = 0
    BY <2>1, <2>2, FS_EmptySet
  <2>4. stock[p] = supplied[p] /\ stock[p] \in Nat
    BY DEF Init
  <2> QED BY <2>3, <2>4
<1>4. StockConserved
  BY <1>3 DEF StockConserved
<1> QED BY <1>1, <1>2, <1>4 DEF StockInv

\* A step that leaves the stock, the reservations and the buffers alone.
LEMMA StockQuiet ==
    ASSUME StockInv, UNCHANGED <<stock, reservation, wrote, order, supplied>>
    PROVE  StockInv'
<1>1. OneWriter' /\ ReservesFit' /\ ReleasesFit'
  BY DEF StockInv, OneWriter, ReservesFit, ReleasesFit
<1>2. StockConserved' /\ NoOversell'
  BY DEF StockInv, StockConserved, NoOversell, Holders
<1> QED BY <1>1, <1>2 DEF StockInv

\* An aborted transaction leaves nothing behind.
LEMMA StockAbort ==
    ASSUME TypeInv, StockInv, NEW t \in Actors, NEW next, Close(t, next, {}),
           UNCHANGED <<stock, reservation, order, supplied>>
    PROVE  StockInv'
<1>1. wrote' = [wrote EXCEPT ![t] = {}] /\ wrote \in [Actors -> SUBSET Products]
  BY DEF Close, TypeInv, TypeOK
<1>2. \A u \in Actors : wrote'[u] \subseteq wrote[u]
  BY <1>1
<1>3. OneWriter' /\ ReservesFit' /\ ReleasesFit'
  BY <1>2 DEF StockInv, OneWriter, ReservesFit, ReleasesFit, Actors
<1>4. StockConserved' /\ NoOversell'
  BY DEF StockInv, StockConserved, NoOversell, Holders
<1> QED BY <1>3, <1>4 DEF StockInv

\* A transaction writes one more document it may write.
LEMMA StockWrite ==
    ASSUME TypeInv, StockInv, NEW t \in Actors, NEW p \in Products,
           MayWrite(t, p), wrote' = [wrote EXCEPT ![t] = @ \cup {p}],
           UNCHANGED <<stock, reservation, order, supplied>>,
           t \in Calls => reservation[p][t] = "none" /\ stock[p] >= Quantity[t][p],
           t \in Cancellers => order[t] \in Calls /\ reservation[p][order[t]] = "active"
    PROVE  StockInv'
<1>1. wrote \in [Actors -> SUBSET Products]
  BY DEF TypeInv, TypeOK
<1>2. \A u \in Actors : u # t => p \notin wrote[u] /\ wrote'[u] = wrote[u]
  BY <1>1 DEF MayWrite, WrittenByOther
<1>3. wrote'[t] = wrote[t] \cup {p}
  BY <1>1
<1>4. OneWriter'
  BY <1>2, <1>3 DEF StockInv, OneWriter
<1>5. ReservesFit' /\ ReleasesFit'
  BY <1>2, <1>3, OrdersAssumption DEF StockInv, ReservesFit, ReleasesFit, Actors
<1>6. StockConserved' /\ NoOversell'
  BY DEF StockInv, StockConserved, NoOversell, Holders
<1> QED BY <1>4, <1>5, <1>6 DEF StockInv

\* The commit of an order moves its units from the stock to its reservations.
LEMMA StockCommitOrder ==
    ASSUME TypeInv, StockInv, NEW c \in Calls, CommitOrder(c)
    PROVE  StockInv'
<1> USE OrdersAssumption
<1>0. /\ wrote' = [wrote EXCEPT ![c] = {}]
      /\ order' = order /\ supplied' = supplied
      /\ \A p \in Products : p \in wrote[c] =>
            /\ stock'[p] = stock[p] - Quantity[c][p]
            /\ reservation'[p] = [reservation[p] EXCEPT ![c] = "active"]
      /\ \A p \in Products : p \notin wrote[c] =>
            stock'[p] = stock[p] /\ reservation'[p] = reservation[p]
  BY DEF CommitOrder, Close, intent, env
<1>1. /\ wrote \in [Actors -> SUBSET Products] /\ stock \in [Products -> Int]
      /\ reservation \in [Products -> [Calls -> ReservationStatuses]]
  BY DEF TypeInv, TypeOK
<1>2. wrote'[c] = {} /\ \A u \in Actors : u # c => wrote'[u] = wrote[u]
  BY <1>0, <1>1 DEF Actors
<1>3. \A u \in Actors : u # c => \A p \in wrote[u] : p \in Products /\ p \notin wrote[c]
  BY <1>1 DEF StockInv, OneWriter, Actors
<1>4. OneWriter'
  BY <1>2 DEF StockInv, OneWriter
<1>5. ReservesFit' /\ ReleasesFit'
  <2>1. ASSUME NEW u \in Actors, NEW p \in wrote'[u]
        PROVE  /\ p \in wrote[u] /\ order'[u] = order[u]
               /\ stock'[p] = stock[p] /\ reservation'[p] = reservation[p]
    BY <1>0, <1>2, <1>3
  <2>2. ReservesFit'
    BY <2>1 DEF StockInv, ReservesFit, Actors
  <2>3. ReleasesFit'
    BY <2>1 DEF StockInv, ReleasesFit, Actors
  <2> QED BY <2>2, <2>3
<1>6. ASSUME NEW p \in Products
      PROVE  /\ stock'[p] + Cardinality(Units(p, Holders(p)')) = supplied'[p]
             /\ stock'[p] >= 0
  <2>1. /\ stock[p] + Cardinality(Units(p, Holders(p))) = supplied[p]
        /\ stock[p] >= 0 /\ stock[p] \in Int /\ Quantity[c][p] \in Nat
    <3>1. StockConserved /\ NoOversell
      BY DEF StockInv
    <3>2. /\ stock[p] + Cardinality(Units(p, Holders(p))) = supplied[p]
          /\ stock[p] >= 0
      BY <3>1 DEF StockConserved, NoOversell
    <3>3. stock[p] \in Int
      BY <1>1
    <3>4. Quantity[c] \in [Products -> Nat]
      BY OrdersAssumption, Zenon
    <3>5. Quantity[c][p] \in Nat
      BY <3>4, Zenon
    <3> QED BY <3>2, <3>3, <3>5
  <2>2. CASE p \notin wrote[c]
    <3>1. Holders(p)' = Holders(p)
      BY <1>0, <2>2 DEF Holders
    <3> QED BY <1>0, <2>1, <2>2, <3>1
  <2>3. CASE p \in wrote[c]
    <3>1. reservation[p][c] = "none" /\ stock[p] >= Quantity[c][p]
      BY <2>3 DEF StockInv, ReservesFit
    <3>2. Holders(p)' = Holders(p) \cup {c} /\ c \notin Holders(p)
      <4>1. /\ reservation[p] \in [Calls -> ReservationStatuses]
            /\ reservation'[p] = [reservation[p] EXCEPT ![c] = "active"]
        BY <1>0, <1>1, <2>3
      <4>2. \A o \in Calls : reservation'[p][o] = "active"
                                <=> reservation[p][o] = "active" \/ o = c
        BY <4>1
      <4> QED BY <3>1, <4>2 DEF Holders
    <3>3. Cardinality(Units(p, Holders(p)'))
            = Cardinality(Units(p, Holders(p))) + Quantity[c][p]
      BY <3>2, UnitsAdd, HoldersType
    <3>4. stock'[p] = stock[p] - Quantity[c][p] /\ supplied'[p] = supplied[p]
      BY <1>0, <2>3
    <3>5. Cardinality(Units(p, Holders(p))) \in Nat
      BY HoldersType
    <3> QED BY <2>1, <3>1, <3>3, <3>4, <3>5
  <2> QED BY <2>2, <2>3
<1>7. StockConserved' /\ NoOversell'
  BY <1>6 DEF StockConserved, NoOversell
<1> QED BY <1>4, <1>5, <1>7 DEF StockInv

\* The commit of a cancellation moves them back.
LEMMA StockCommitCancel ==
    ASSUME TypeInv, StockInv, NEW x \in Cancellers, CommitCancel(x)
    PROVE  StockInv'
<1> USE OrdersAssumption
<1> DEFINE o == order[x]
<1>0. /\ wrote' = [wrote EXCEPT ![x] = {}]
      /\ order' = order /\ supplied' = supplied
      /\ \A p \in Products : p \in wrote[x] =>
            /\ stock'[p] = stock[p] + Quantity[o][p]
            /\ reservation'[p] = [reservation[p] EXCEPT ![o] = "cancelled"]
      /\ \A p \in Products : p \notin wrote[x] =>
            stock'[p] = stock[p] /\ reservation'[p] = reservation[p]
  BY DEF CommitCancel, Close, intent, env
<1>1. /\ wrote \in [Actors -> SUBSET Products] /\ stock \in [Products -> Int]
      /\ reservation \in [Products -> [Calls -> ReservationStatuses]]
      /\ o \in Calls
  BY DEF TypeInv, TypeOK, NamesOrder, CommitCancel
<1> HIDE DEF o
<1>2. wrote'[x] = {} /\ \A u \in Actors : u # x => wrote'[u] = wrote[u]
  BY <1>0, <1>1 DEF Actors
<1>3. \A u \in Actors : u # x => \A p \in wrote[u] : p \in Products /\ p \notin wrote[x]
  BY <1>1 DEF StockInv, OneWriter, Actors
<1>4. OneWriter'
  BY <1>2 DEF StockInv, OneWriter
<1>5. ReservesFit' /\ ReleasesFit'
  <2>1. ASSUME NEW u \in Actors, NEW p \in wrote'[u]
        PROVE  /\ p \in wrote[u] /\ order'[u] = order[u]
               /\ stock'[p] = stock[p] /\ reservation'[p] = reservation[p]
    BY <1>0, <1>2, <1>3
  <2>2. ReservesFit'
    BY <2>1 DEF StockInv, ReservesFit, Actors
  <2>3. ReleasesFit'
    BY <2>1 DEF StockInv, ReleasesFit, Actors
  <2> QED BY <2>2, <2>3
<1>6. ASSUME NEW p \in Products
      PROVE  /\ stock'[p] + Cardinality(Units(p, Holders(p)')) = supplied'[p]
             /\ stock'[p] >= 0
  <2>1. /\ stock[p] + Cardinality(Units(p, Holders(p))) = supplied[p]
        /\ stock[p] >= 0 /\ stock[p] \in Int /\ Quantity[o][p] \in Nat
    BY <1>1 DEF StockInv, StockConserved, NoOversell
  <2>2. CASE p \notin wrote[x]
    <3>1. Holders(p)' = Holders(p)
      BY <1>0, <2>2 DEF Holders
    <3> QED BY <1>0, <2>1, <2>2, <3>1
  <2>3. CASE p \in wrote[x]
    <3>1. reservation[p][o] = "active"
      BY <2>3 DEF StockInv, ReleasesFit, o
    <3>2. Holders(p)' = Holders(p) \ {o} /\ o \in Holders(p)
      <4>1. /\ reservation[p] \in [Calls -> ReservationStatuses]
            /\ reservation'[p] = [reservation[p] EXCEPT ![o] = "cancelled"]
        BY <1>0, <1>1, <2>3
      <4>2. \A q \in Calls : reservation'[p][q] = "active"
                                <=> reservation[p][q] = "active" /\ q # o
        BY <4>1
      <4> QED BY <1>1, <3>1, <4>2 DEF Holders
    <3>3. Cardinality(Units(p, Holders(p)'))
            = Cardinality(Units(p, Holders(p))) - Quantity[o][p]
      BY <3>2, UnitsRemove, HoldersType
    <3>4. stock'[p] = stock[p] + Quantity[o][p] /\ supplied'[p] = supplied[p]
      BY <1>0, <2>3
    <3>5. Cardinality(Units(p, Holders(p))) \in Nat
      BY HoldersType
    <3> QED BY <2>1, <3>3, <3>4, <3>5
  <2> QED BY <2>2, <2>3
<1>7. StockConserved' /\ NoOversell'
  BY <1>6 DEF StockConserved, NoOversell
<1> QED BY <1>4, <1>5, <1>7 DEF StockInv

\* The job moves the units of one reservation back.
LEMMA StockExpire ==
    ASSUME TypeInv, StockInv, NEW w \in Workers, NEW p \in Products, NEW o \in Calls,
           ExpireReservation(w, p, o)
    PROVE  StockInv'
<1> USE OrdersAssumption
<1>1. CASE ~MatchesActive(p, o)
  BY <1>1, StockQuiet DEF ExpireReservation, intent, env
<1>2. CASE MatchesActive(p, o)
  <2>0. /\ wrote' = wrote /\ order' = order /\ supplied' = supplied
        /\ \A u \in Actors : p \notin wrote[u]
        /\ reservation' = [reservation EXCEPT ![p][o] = "expired"]
        /\ stock' = [stock EXCEPT ![p] = @ + Quantity[o][p]]
    BY <1>2 DEF ExpireReservation, Unlocked, intent, env
  <2>1. /\ stock \in [Products -> Int] /\ Quantity[o][p] \in Nat
        /\ reservation \in [Products -> [Calls -> ReservationStatuses]]
        /\ wrote \in [Actors -> SUBSET Products]
    BY DEF TypeInv, TypeOK
  <2>2. \A q \in Products : q # p =>
            stock'[q] = stock[q] /\ reservation'[q] = reservation[q]
    BY <2>0, <2>1
  <2>3. OneWriter' /\ ReservesFit' /\ ReleasesFit'
    <3>1. \A u \in Actors : \A q \in wrote'[u] :
             /\ q \in wrote[u] /\ stock'[q] = stock[q]
             /\ reservation'[q] = reservation[q]
      BY <2>0, <2>1, <2>2
    <3>2. OneWriter'
      BY <2>0 DEF StockInv, OneWriter
    <3>3. ReservesFit'
      BY <3>1 DEF StockInv, ReservesFit, Actors
    <3>4. ReleasesFit'
      BY <2>0, <3>1 DEF StockInv, ReleasesFit, Actors
    <3> QED BY <3>2, <3>3, <3>4
  <2>4. ASSUME NEW q \in Products
        PROVE  /\ stock'[q] + Cardinality(Units(q, Holders(q)')) = supplied'[q]
               /\ stock'[q] >= 0
    <3>1. /\ stock[q] + Cardinality(Units(q, Holders(q))) = supplied[q]
          /\ stock[q] >= 0 /\ stock[q] \in Int
          /\ Cardinality(Units(q, Holders(q))) \in Nat
      BY <2>1, HoldersType DEF StockInv, StockConserved, NoOversell
    <3>2. CASE q # p
      <4>1. Holders(q)' = Holders(q)
        BY <2>2, <3>2 DEF Holders
      <4> QED BY <2>0, <2>2, <3>1, <3>2, <4>1
    <3>3. CASE q = p
      <4>1. \A r \in Calls : reservation'[p][r] = "active"
                                <=> reservation[p][r] = "active" /\ r # o
        BY <2>0, <2>1
      <4>2. Holders(p)' = Holders(p) \ {o} /\ o \in Holders(p)
        BY <1>2, <4>1 DEF Holders, MatchesActive
      <4>3. Cardinality(Units(p, Holders(p)'))
              = Cardinality(Units(p, Holders(p))) - Quantity[o][p]
        BY <4>2, UnitsRemove, HoldersType
      <4>4. stock'[p] = stock[p] + Quantity[o][p]
        BY <2>0, <2>1
      <4> QED BY <2>0, <2>1, <3>1, <3>3, <4>3, <4>4
    <3> QED BY <3>2, <3>3
  <2>5. StockConserved' /\ NoOversell'
    BY <2>4 DEF StockConserved, NoOversell
  <2> QED BY <2>3, <2>5 DEF StockInv
<1> QED BY <1>1, <1>2

\* A seller's overwrite changes what is supplied by what it changes the stock.
LEMMA StockOverwrite ==
    ASSUME TypeInv, StockInv, NEW p \in Products, NEW n \in StockLevels,
           SetInventoryStock(p, n)
    PROVE  StockInv'
<1> USE OrdersAssumption
<1>0. /\ wrote' = wrote /\ order' = order /\ reservation' = reservation
      /\ \A u \in Actors : p \notin wrote[u]
      /\ stock' = [stock EXCEPT ![p] = n]
      /\ supplied' = [supplied EXCEPT ![p] = @ + n - stock[p]]
  BY DEF SetInventoryStock, Unlocked, intent
<1>1. /\ stock \in [Products -> Int] /\ supplied \in [Products -> Int] /\ n \in Nat
      /\ wrote \in [Actors -> SUBSET Products]
  BY DEF TypeInv, TypeOK
<1>2. \A q \in Products : q # p => stock'[q] = stock[q] /\ supplied'[q] = supplied[q]
  BY <1>0, <1>1
<1>3. stock'[p] = n /\ supplied'[p] = supplied[p] + n - stock[p]
  BY <1>0, <1>1
<1>4. OneWriter' /\ ReservesFit' /\ ReleasesFit'
  <2>1. \A u \in Actors : \A q \in wrote'[u] : q \in wrote[u] /\ stock'[q] = stock[q]
    BY <1>0, <1>1, <1>2
  <2>2. OneWriter' /\ ReleasesFit'
    BY <1>0 DEF StockInv, OneWriter, ReleasesFit
  <2>3. ReservesFit'
    BY <1>0, <2>1 DEF StockInv, ReservesFit, Actors
  <2> QED BY <2>2, <2>3
<1>5. ASSUME NEW q \in Products
      PROVE  /\ stock'[q] + Cardinality(Units(q, Holders(q)')) = supplied'[q]
             /\ stock'[q] >= 0
  <2>1. /\ stock[q] + Cardinality(Units(q, Holders(q))) = supplied[q]
        /\ stock[q] >= 0 /\ stock[q] \in Int /\ supplied[q] \in Int
        /\ Cardinality(Units(q, Holders(q))) \in Nat
    BY <1>1, HoldersType DEF StockInv, StockConserved, NoOversell
  <2>2. Holders(q)' = Holders(q)
    BY <1>0 DEF Holders
  <2>3. CASE q # p
    BY <1>2, <2>1, <2>2, <2>3
  <2>4. CASE q = p
    BY <1>1, <1>3, <2>1, <2>2, <2>4
  <2> QED BY <2>3, <2>4
<1>6. StockConserved' /\ NoOversell'
  BY <1>5 DEF StockConserved, NoOversell
<1> QED BY <1>4, <1>6 DEF StockInv

\* Every step keeps StockInv: one case per action.
LEMMA StockStep == TypeInv /\ StockInv /\ [Next]_vars => StockInv'
<1> SUFFICES ASSUME TypeInv, StockInv, [Next]_vars PROVE StockInv'
  OBVIOUS
<1>0. \A t \in Calls \cup Cancellers : t \in Actors
  BY DEF Actors
<1>1. ASSUME NEW c \in Calls, CreateStep(c) PROVE StockInv'
  <2>1. CASE FindPrevious(c) \/ AnswerExisting(c) \/ RejectOrder(c) \/ InsertOrder(c)
    BY <2>1, StockQuiet DEF FindPrevious, AnswerExisting, RejectOrder, InsertOrder,
       db, intent, writes, env
  <2>2. CASE BeginOrder(c) \/ NotifyPlaced(c)
    BY <2>2, StockQuiet DEF BeginOrder, NotifyPlaced, db, intent, writes, env
  <2>3. ASSUME NEW p \in Products, ReserveItem(c, p) PROVE StockInv'
    <3>1. /\ MayWrite(c, p) /\ wrote' = [wrote EXCEPT ![c] = @ \cup {p}]
          /\ UNCHANGED <<stock, reservation, order, supplied>>
          /\ reservation[p][c] = "none" /\ stock[p] >= Quantity[c][p]
      BY <2>3 DEF ReserveItem, EnoughStock, db, intent, env
    <3>2. c \notin Cancellers
      BY OrdersAssumption
    <3> QED BY <1>0, <3>1, <3>2, StockWrite
  <2>4. CASE DuplicateKey(c)
    BY <1>0, <2>4, StockAbort DEF DuplicateKey, db, intent, env
  <2>5. CASE CommitOrder(c)
    BY <2>5, StockCommitOrder
  <2>6. CASE WriteConflict(c)
    BY <1>0, <2>6, StockAbort DEF WriteConflict, db, intent, env
  <2> QED BY <1>1, <2>1, <2>2, <2>3, <2>4, <2>5, <2>6 DEF CreateStep
<1>2. ASSUME NEW x \in Cancellers, CancelStep(x) PROVE StockInv'
  <2>1. ASSUME NEW o \in Calls, BeginCancel(x, o) PROVE StockInv'
    <3>1. /\ order[x] \in {NoOrder, o} /\ order' = [order EXCEPT ![x] = o]
          /\ UNCHANGED <<stock, reservation, wrote, supplied>>
      BY <2>1 DEF BeginCancel, db, env
    <3>2. order \in [Actors -> Calls \cup {NoOrder}] /\ x \in Actors
      BY <1>0 DEF TypeInv, TypeOK
    <3>3. ReleasesFit'
      <4>1. ASSUME NEW y \in Cancellers, NEW p \in wrote[y]
            PROVE  order'[y] = order[y]
        <5>1. order[y] \in Calls
          BY DEF StockInv, ReleasesFit
        <5> QED BY <3>1, <3>2, <5>1, OrdersAssumption DEF Actors
      <4> QED BY <3>1, <4>1 DEF StockInv, ReleasesFit
    <3>4. OneWriter' /\ ReservesFit'
      BY <3>1 DEF StockInv, OneWriter, ReservesFit
    <3>5. StockConserved' /\ NoOversell'
      BY <3>1 DEF StockInv, StockConserved, NoOversell, Holders
    <3> QED BY <3>3, <3>4, <3>5 DEF StockInv
  <2>2. ASSUME NEW o \in Calls, NothingToCancel(x, o) PROVE StockInv'
    BY <2>2, StockQuiet DEF NothingToCancel, db, intent, writes, env
  <2>3. ASSUME NEW p \in Products, ReleaseItem(x, p) PROVE StockInv'
    <3>1. /\ MayWrite(x, p) /\ wrote' = [wrote EXCEPT ![x] = @ \cup {p}]
          /\ UNCHANGED <<stock, reservation, order, supplied>>
          /\ reservation[p][order[x]] = "active" /\ pc[x] = "write"
      BY <2>3 DEF ReleaseItem, MatchesActive, db, intent, env
    <3>2. order[x] \in Calls /\ x \notin Calls
      BY <3>1, OrdersAssumption DEF TypeInv, NamesOrder
    <3> QED BY <1>0, <3>1, <3>2, StockWrite
  <2>4. CASE SaveOrder(x) \/ NotifyEnded(x)
    BY <2>4, StockQuiet DEF SaveOrder, NotifyEnded, db, intent, writes, env
  <2>5. CASE CommitCancel(x)
    BY <2>5, StockCommitCancel
  <2>6. CASE WriteConflict(x)
    BY <1>0, <2>6, StockAbort DEF WriteConflict, db, intent, env
  <2> QED BY <1>2, <2>1, <2>2, <2>3, <2>4, <2>5, <2>6 DEF CancelStep
<1>3. ASSUME NEW t \in Actors, CommitFails(t) \/ CallFails(t) PROVE StockInv'
  BY <1>3, StockAbort DEF CommitFails, CallFails, db, intent
<1>4. ASSUME NEW w \in Workers, CleanupStep(w) PROVE StockInv'
  <2>1. CASE ScanInventories(w) \/ ScanOrders(w) \/ RescanOrders(w)
    BY <2>1, StockQuiet
       DEF ScanInventories, ScanOrders, RescanOrders, db, intent, writes, env
  <2>2. ASSUME NEW p \in Products, NEW o \in Calls, ExpireReservation(w, p, o)
        PROVE  StockInv'
    BY <2>2, StockExpire
  <2>3. ASSUME NEW o \in Calls, ExpireOrder(w, o) PROVE StockInv'
    BY <2>3, StockQuiet DEF ExpireOrder, intent, env
  <2>4. CASE NotifyExpired(w)
    BY <2>4, StockQuiet DEF NotifyExpired, db, intent, writes, env
  <2> QED BY <1>4, <2>1, <2>2, <2>3, <2>4 DEF CleanupStep
<1>5. ASSUME NEW w \in Workers, CleanupFails(w) PROVE StockInv'
  BY <1>5, StockQuiet DEF CleanupFails, db, intent, writes
<1>6. ASSUME NEW p \in Products, NEW n \in StockLevels, SetInventoryStock(p, n)
      PROVE  StockInv'
  BY <1>6, StockOverwrite
<1>7. CASE Tick
  BY <1>7, StockQuiet DEF Tick, db, intent, writes
<1>8. CASE UNCHANGED vars
  BY <1>8, StockQuiet DEF vars, db, intent, writes, env
<1> QED BY <1>1, <1>2, <1>3, <1>4, <1>5, <1>6, <1>7, <1>8 DEF Next

\* The inductive invariant of the stock.
LEMMA StockInvariant == Spec => []StockInv
<1>1. Init => TypeInv /\ StockInv
  BY TypeInit, StockInit
<1>2. TypeInv /\ StockInv /\ [Next]_vars => (TypeInv /\ StockInv)'
  BY TypeStep, StockStep
<1> QED BY <1>1, <1>2, PTL DEF Spec

\* No interleaving of calls, cancellations, cleanup passes, crashes and stock
\* overwrites creates or loses a unit.
THEOREM StockIsConserved == Spec => []StockConserved
<1>1. StockInv => StockConserved
  BY DEF StockInv
<1> QED BY <1>1, StockInvariant, PTL

\* Concurrent orders never take more units than there are.
THEOREM StockIsNeverOversold == Spec => []NoOversell
<1>1. StockInv => NoOversell
  BY DEF StockInv
<1> QED BY <1>1, StockInvariant, PTL

-----------------------------------------------------------------------------
(* Ends and requests *)

Early == {"start", "begin", "write", "saved"}

\* A createOrder call that has not committed has no order document.
Unplaced == \A c \in Calls : pc[c] \in Early => status[c] = "none"

ExpiredIsDue == \A o \in Calls : status[o] = "expired" => Due(o)

\* What a worker found due stays due.
JobSound ==
    \A w \in Workers :
        /\ job[w].cutoff <= now
        /\ \A o \in job[w].due : status[o] # "none" /\ Due(o)

\* A cancellation between its reads and its commit: as long as nobody changed
\* the order behind its back, the status it will write follows from the
\* order's, and once it has written the order nobody can.
Ending ==
    \A x \in Cancellers : pc[x] \in {"write", "saved"} =>
        /\ status[order[x]] # "none"
        /\ verdict[x] \in {"cancelled", "expired"}
        /\ verdict[x] = "expired" => Due(order[x])
        /\ order[x] \notin missed[x] =>
              /\ status[order[x]] \in {"pending_payment", "expired"}
              /\ status[order[x]] = "expired" => verdict[x] = "expired"
        /\ pc[x] = "saved" => order[x] \notin missed[x]

OneSaver ==
    \A x, y \in Cancellers :
        pc[x] = "saved" /\ pc[y] = "saved" /\ order[x] = order[y] => x = y

StatusInv == Unplaced /\ ExpiredIsDue /\ JobSound /\ Ending /\ OneSaver

\* There is no order and no cancellation at the start.
LEMMA StatusInit == Init => StatusInv
<1> SUFFICES ASSUME Init PROVE StatusInv
  OBVIOUS
<1> USE OrdersAssumption
<1>1. Unplaced /\ ExpiredIsDue
  BY DEF Init, Unplaced, ExpiredIsDue
<1>2. JobSound
  BY DEF Init, JobSound
<1>3. Ending /\ OneSaver
  BY DEF Init, Ending, OneSaver, Actors
<1> QED BY <1>1, <1>2, <1>3 DEF StatusInv

-----------------------------------------------------------------------------
(* Steps that change no order *)

\* What a step that changes no order, and starts or saves none, may do.
LEMMA StatusFrame ==
    ASSUME TypeInv, StatusInv, TypeInv',
           UNCHANGED <<status, expiresAt, order, verdict>>,
           now' >= now,
           \A c \in Calls : pc'[c] \in Early => pc[c] \in Early,
           \A w \in Workers :
               job'[w].cutoff <= now' /\ job'[w].due \subseteq job[w].due,
           \A x \in Cancellers : pc'[x] \in {"write", "saved"} =>
               /\ pc[x] \in {"write", "saved"}
               /\ pc'[x] = "saved" => pc[x] = "saved"
               /\ order[x] \in missed'[x] <=> order[x] \in missed[x]
    PROVE  StatusInv'
<1>1. \A o \in Calls : Due(o) => Due(o)'
  BY DEF TypeInv, TypeOK, Due
<1>2. Unplaced'
  BY DEF StatusInv, Unplaced
<1>3. ExpiredIsDue'
  BY <1>1 DEF StatusInv, ExpiredIsDue
<1>4. \A w \in Workers : job[w].due \subseteq Calls
  BY DEF TypeInv, TypeOK
<1>5. JobSound'
  BY <1>1, <1>4 DEF StatusInv, JobSound
<1>6. \A x \in Cancellers : pc[x] \in {"write", "saved"} => order[x] \in Calls
  BY OrdersAssumption DEF TypeInv, NamesOrder, Actors
<1>7. Ending'
  <2> SUFFICES ASSUME NEW x \in Cancellers, pc'[x] \in {"write", "saved"}
               PROVE  /\ status[order[x]] # "none"
                      /\ verdict[x] \in {"cancelled", "expired"}
                      /\ verdict[x] = "expired" => Due(order[x])'
                      /\ order[x] \notin missed'[x] =>
                            /\ status[order[x]] \in {"pending_payment", "expired"}
                            /\ status[order[x]] = "expired" => verdict[x] = "expired"
                      /\ pc'[x] = "saved" => order[x] \notin missed'[x]
    BY DEF Ending, Due
  <2>1. pc[x] \in {"write", "saved"} /\ order[x] \in Calls
    BY <1>6
  <2>2. order[x] \in missed'[x] <=> order[x] \in missed[x]
    OBVIOUS
  <2> QED BY <1>1, <2>1, <2>2 DEF StatusInv, Ending
<1>8. OneSaver'
  BY DEF StatusInv, OneSaver
<1> QED BY <1>2, <1>3, <1>5, <1>7, <1>8 DEF StatusInv

\* A transaction that ends without changing a document.
LEMMA StatusAbort ==
    ASSUME TypeInv, StatusInv, TypeInv', NEW t \in Actors,
           Close(t, "begin", {}) \/ Close(t, "done", {}),
           pc[t] \in Early \/ Close(t, "done", {}),
           UNCHANGED <<status, expiresAt, order, verdict, now, job>>
    PROVE  StatusInv'
<1>1. \A u \in Actors \ {t} : pc'[u] = pc[u] /\ missed'[u] = missed[u]
  BY DEF Close, Publish, TypeInv, TypeOK
<1>2. pc'[t] \in {"begin", "done"}
  BY DEF Close, TypeInv, TypeOK
<1>3. pc'[t] = "begin" => pc[t] \in Early
  BY DEF Close, TypeInv, TypeOK
<1>4. \A w \in Workers : job'[w].cutoff <= now' /\ job'[w].due \subseteq job[w].due
  BY DEF StatusInv, JobSound
<1>5. \A c \in Calls : pc'[c] \in Early => pc[c] \in Early
  BY <1>1, <1>2, <1>3 DEF Early, Actors
<1>6. now' >= now
  BY DEF TypeInv, TypeOK
<1> QED BY <1>1, <1>2, <1>4, <1>5, <1>6, StatusFrame DEF Actors

\* A document of another kind than orders is published.
LEMMA StatusPublish ==
    ASSUME TypeInv, StatusInv, TypeInv', NEW p \in Products, missed' = Publish({p}),
           \A w \in Workers :
               job'[w].cutoff = job[w].cutoff /\ job'[w].due = job[w].due,
           UNCHANGED <<status, expiresAt, order, verdict, now, pc>>
    PROVE  StatusInv'
<1>1. \A x \in Cancellers : pc[x] \in {"write", "saved"} => order[x] # p
  BY OrdersAssumption DEF TypeInv, NamesOrder
<1>2. \A x \in Cancellers : pc[x] \in {"write", "saved"} =>
        (order[x] \in missed'[x] <=> order[x] \in missed[x])
  BY <1>1 DEF Publish, Actors
<1>3. \A w \in Workers : job'[w].cutoff <= now' /\ job'[w].due \subseteq job[w].due
  BY DEF StatusInv, JobSound
<1>4. now' >= now
  BY DEF TypeInv, TypeOK
<1> QED BY <1>2, <1>3, <1>4, StatusFrame

-----------------------------------------------------------------------------
(* Steps that do *)

\* expiresAt changes while there is no order: nothing is due yet.
LEMMA StatusBegin ==
    ASSUME TypeInv, StatusInv, TypeInv', NEW c \in Calls, BeginOrder(c)
    PROVE  StatusInv'
<1>1. /\ status' = status /\ order' = order /\ verdict' = verdict
      /\ missed' = missed /\ job' = job /\ now' = now
      /\ pc' = [pc EXCEPT ![c] = "write"]
      /\ expiresAt' = [expiresAt EXCEPT ![c] = now + TTL]
      /\ pc[c] = "begin"
  BY DEF BeginOrder, db, env
<1>2. status[c] = "none"
  BY <1>1 DEF StatusInv, Unplaced, Early
<1>3. \A o \in Calls : status[o] # "none" => (Due(o)' <=> Due(o))
  BY <1>1, <1>2 DEF Due, TypeInv, TypeOK
<1>4. Unplaced'
  BY <1>1, <1>2, OrdersAssumption DEF StatusInv, Unplaced, TypeInv, TypeOK, Actors
<1>5. ExpiredIsDue'
  BY <1>1, <1>3 DEF StatusInv, ExpiredIsDue
<1>6. JobSound'
  <2>1. \A w \in Workers : job[w].due \subseteq Calls
    BY DEF TypeInv, TypeOK
  <2> QED BY <1>1, <1>3, <2>1 DEF StatusInv, JobSound
<1>7. \A x \in Cancellers : pc'[x] = pc[x]
  BY <1>1, OrdersAssumption
<1>8. \A x \in Cancellers : pc[x] \in {"write", "saved"} => order[x] \in Calls
  BY DEF TypeInv, NamesOrder
<1>9. Ending'
  <2> SUFFICES ASSUME NEW x \in Cancellers, pc[x] \in {"write", "saved"}
               PROVE  Due(order[x]) => Due(order[x])'
    BY <1>1, <1>7 DEF StatusInv, Ending, Due
  <2>1. order[x] \in Calls /\ status[order[x]] # "none"
    BY <1>8 DEF StatusInv, Ending
  <2>2. Due(order[x])' <=> Due(order[x])
    BY <1>1, <1>3, <2>1 DEF Due
  <2> QED BY <2>2
<1>10. OneSaver'
  BY <1>1, <1>7 DEF StatusInv, OneSaver
<1> QED BY <1>4, <1>5, <1>6, <1>9, <1>10 DEF StatusInv

\* The order appears, pending; nobody can have read it before.
LEMMA StatusCommitOrder ==
    ASSUME TypeInv, StatusInv, TypeInv', NEW c \in Calls, CommitOrder(c)
    PROVE  StatusInv'
<1>1. /\ pc[c] = "saved"
      /\ pc' = [pc EXCEPT ![c] = "notify"]
      /\ status' = [status EXCEPT ![c] = "pending_payment"]
      /\ missed' = [Publish(wrote[c] \cup {c}) EXCEPT ![c] = {}]
      /\ UNCHANGED <<order, expiresAt, verdict, now, job>>
  BY DEF CommitOrder, Close, intent, env
<1>2. status[c] = "none" /\ c \notin Cancellers
  BY <1>1, OrdersAssumption DEF StatusInv, Unplaced, Early
<1>3. \A o \in Calls : Due(o)' <=> Due(o)
  BY <1>1 DEF Due
<1>4. \A o \in Calls : o # c => status'[o] = status[o]
  BY <1>1 DEF TypeInv, TypeOK
<1>5. status'[c] = "pending_payment"
  BY <1>1 DEF TypeInv, TypeOK
<1>6. \A u \in Actors : pc'[u] = IF u = c THEN "notify" ELSE pc[u]
  BY <1>1 DEF TypeInv, TypeOK
<1>7. Unplaced'
  BY <1>4, <1>6 DEF StatusInv, Unplaced, Early, Actors
<1>8. ExpiredIsDue'
  BY <1>3, <1>4, <1>5 DEF StatusInv, ExpiredIsDue
<1>9. JobSound'
  <2>1. \A w \in Workers : job[w].due \subseteq Calls
    BY DEF TypeInv, TypeOK
  <2> QED BY <1>1, <1>2, <1>3, <1>4, <2>1 DEF StatusInv, JobSound
<1>10. Ending'
  <2> SUFFICES ASSUME NEW x \in Cancellers, pc[x] \in {"write", "saved"}
               PROVE  /\ status'[order[x]] # "none"
                      /\ verdict[x] \in {"cancelled", "expired"}
                      /\ verdict[x] = "expired" => Due(order[x])
                      /\ order[x] \notin missed'[x] =>
                            /\ status'[order[x]] \in {"pending_payment", "expired"}
                            /\ status'[order[x]] = "expired" => verdict[x] = "expired"
                      /\ pc[x] = "saved" => order[x] \notin missed'[x]
    BY <1>1, <1>2, <1>6 DEF Ending, Due, Actors
  <2>1. order[x] \in Calls /\ order[x] # c
    BY <1>2 DEF StatusInv, Ending, TypeInv, NamesOrder
  <2>2. order[x] \notin wrote[c]
    BY <2>1, OrdersAssumption DEF TypeInv, TypeOK, Actors
  <2>3. x \in Actors /\ x # c
    BY <1>2 DEF Actors
  <2>4. Publish(wrote[c] \cup {c})[x] = missed[x] \cup wrote[c] \cup {c}
    BY <2>3 DEF Publish, InTransaction
  <2>5. missed'[x] = missed[x] \cup wrote[c] \cup {c}
    BY <1>1, <2>3, <2>4 DEF Publish
  <2>6. status'[order[x]] = status[order[x]]
    BY <1>4, <2>1
  <2>7. order[x] \in missed'[x] <=> order[x] \in missed[x]
    BY <2>1, <2>2, <2>5
  <2> QED BY <2>6, <2>7 DEF StatusInv, Ending
<1>11. OneSaver'
  BY <1>1, <1>2, <1>6 DEF StatusInv, OneSaver, Actors
<1> QED BY <1>7, <1>8, <1>9, <1>10, <1>11 DEF StatusInv

\* The snapshot's reads: an order found expired is due, and so is its verdict.
LEMMA StatusBeginCancel ==
    ASSUME TypeInv, StatusInv, TypeInv', NEW x \in Cancellers, NEW o \in Calls,
           BeginCancel(x, o)
    PROVE  StatusInv'
<1>1. /\ status[o] \in {"pending_payment", "expired"}
      /\ pc' = [pc EXCEPT ![x] = "write"]
      /\ order' = [order EXCEPT ![x] = o]
      /\ verdict' = [verdict EXCEPT ![x] = Verdict(o)]
      /\ UNCHANGED <<status, expiresAt, missed, now, job>>
  BY DEF BeginCancel, db, env
<1>2. x \in Actors /\ x \notin Calls
  BY OrdersAssumption DEF Actors
<1>3. pc'[x] = "write" /\ order'[x] = o /\ verdict'[x] = Verdict(o)
  BY <1>1, <1>2 DEF TypeInv, TypeOK
<1>4. \A u \in Actors \ {x} :
        pc'[u] = pc[u] /\ order'[u] = order[u] /\ verdict'[u] = verdict[u]
  BY <1>1 DEF TypeInv, TypeOK
<1>5. \A d \in Calls : Due(d)' <=> Due(d)
  BY <1>1 DEF Due
<1>6. Unplaced' /\ ExpiredIsDue'
  BY <1>1, <1>2, <1>4, <1>5 DEF StatusInv, Unplaced, ExpiredIsDue, Actors
<1>7. JobSound'
  <2>1. \A w \in Workers : job[w].due \subseteq Calls
    BY DEF TypeInv, TypeOK
  <2> QED BY <1>1, <1>5, <2>1 DEF StatusInv, JobSound
<1>8. status[o] = "expired" => Due(o)
  BY DEF StatusInv, ExpiredIsDue
<1>9. Ending'
  <2> SUFFICES ASSUME NEW y \in Cancellers, pc'[y] \in {"write", "saved"}
               PROVE  /\ status[order'[y]] # "none"
                      /\ verdict'[y] \in {"cancelled", "expired"}
                      /\ verdict'[y] = "expired" => Due(order'[y])
                      /\ order'[y] \notin missed[y] =>
                            /\ status[order'[y]] \in {"pending_payment", "expired"}
                            /\ status[order'[y]] = "expired" => verdict'[y] = "expired"
                      /\ pc'[y] = "saved" => order'[y] \notin missed[y]
    BY <1>1 DEF Ending, Due
  <2>1. CASE y = x
    BY <1>1, <1>3, <1>8, <2>1 DEF Verdict
  <2>2. CASE y # x
    BY <1>4, <2>2 DEF StatusInv, Ending, Actors
  <2> QED BY <2>1, <2>2
<1>10. OneSaver'
  BY <1>3, <1>4 DEF StatusInv, OneSaver, Actors
<1> QED BY <1>6, <1>7, <1>9, <1>10 DEF StatusInv

\* order.save: no other transaction has written the order.
LEMMA StatusSave ==
    ASSUME TypeInv, StatusInv, TypeInv', NEW x \in Cancellers, SaveOrder(x)
    PROVE  StatusInv'
<1>1. /\ pc[x] = "write" /\ MayWrite(x, order[x])
      /\ pc' = [pc EXCEPT ![x] = "saved"]
      /\ UNCHANGED <<status, expiresAt, order, verdict, missed, now, job>>
  BY DEF SaveOrder, db, intent, writes, env
<1>2. x \in Actors /\ x \notin Calls
  BY OrdersAssumption DEF Actors
<1>3. \A u \in Actors : pc'[u] = IF u = x THEN "saved" ELSE pc[u]
  BY <1>1 DEF TypeInv, TypeOK
<1>4. Unplaced' /\ ExpiredIsDue' /\ JobSound'
  BY <1>1, <1>2, <1>3 DEF StatusInv, Unplaced, ExpiredIsDue, JobSound, Due, Actors
<1>5. order[x] \notin missed[x]
  BY <1>1 DEF MayWrite
<1>6. Ending'
  BY <1>1, <1>2, <1>3, <1>5 DEF StatusInv, Ending, Due, Actors
<1>7. \A y \in Cancellers : y # x /\ pc[y] = "saved" => order[y] # order[x]
  BY <1>1 DEF MayWrite, WrittenByOther, Actors
<1>8. OneSaver'
  BY <1>1, <1>3, <1>7 DEF StatusInv, OneSaver, Actors
<1> QED BY <1>4, <1>6, <1>8 DEF StatusInv

\* The order gets the verdict; other cancellations of it have missed the order.
LEMMA StatusCommitCancel ==
    ASSUME TypeInv, StatusInv, TypeInv', NEW x \in Cancellers, CommitCancel(x)
    PROVE  StatusInv'
<1> DEFINE o == order[x]
           next == IF wasPending[x] THEN "notify" ELSE "done"
<1>1. /\ pc[x] = "saved"
      /\ pc' = [pc EXCEPT ![x] = next]
      /\ status' = [status EXCEPT ![o] = verdict[x]]
      /\ missed' = [Publish(wrote[x] \cup {o}) EXCEPT ![x] = {}]
      /\ UNCHANGED <<order, expiresAt, verdict, now, job>>
  BY DEF CommitCancel, Close, intent, env
<1>2. x \in Actors /\ x \notin Calls /\ o \in Calls
  BY <1>1, OrdersAssumption DEF Actors, TypeInv, NamesOrder
<1>3. /\ status[o] # "none"
      /\ verdict[x] \in {"cancelled", "expired"}
      /\ verdict[x] = "expired" => Due(o)
  BY <1>1 DEF StatusInv, Ending
<1>4. \A u \in Actors : pc'[u] = IF u = x THEN next ELSE pc[u]
  BY <1>1 DEF TypeInv, TypeOK
<1>5. \A d \in Calls : status'[d] = IF d = o THEN verdict[x] ELSE status[d]
  BY <1>1 DEF TypeInv, TypeOK
<1>6. \A d \in Calls : Due(d)' <=> Due(d)
  BY <1>1 DEF Due
<1>7. next \in {"notify", "done"}
  OBVIOUS
<1> HIDE DEF next
<1>8. Unplaced'
  BY <1>2, <1>3, <1>4, <1>5 DEF StatusInv, Unplaced, Actors
<1>9. ExpiredIsDue'
  BY <1>3, <1>5, <1>6 DEF StatusInv, ExpiredIsDue
<1>10. JobSound'
  <2>1. \A w \in Workers : job[w].due \subseteq Calls
    BY DEF TypeInv, TypeOK
  <2> QED BY <1>1, <1>3, <1>5, <1>6, <2>1 DEF StatusInv, JobSound
<1>11. Ending'
  <2> SUFFICES ASSUME NEW y \in Cancellers, pc[y] \in {"write", "saved"}, y # x
               PROVE  /\ status'[order[y]] # "none"
                      /\ verdict[y] \in {"cancelled", "expired"}
                      /\ verdict[y] = "expired" => Due(order[y])
                      /\ order[y] \notin missed'[y] =>
                            /\ status'[order[y]] \in {"pending_payment", "expired"}
                            /\ status'[order[y]] = "expired" => verdict[y] = "expired"
                      /\ pc[y] = "saved" => order[y] \notin missed'[y]
    BY <1>1, <1>4, <1>7 DEF Ending, Due, Actors
  <2>1. y \in Actors /\ order[y] \in Calls
    BY DEF Actors, TypeInv, NamesOrder
  <2>2. order[y] \notin wrote[x]
    BY <1>2, <2>1, OrdersAssumption DEF TypeInv, TypeOK
  <2>3. Publish(wrote[x] \cup {o})[y] = missed[y] \cup wrote[x] \cup {o}
    BY <2>1 DEF Publish, InTransaction
  <2>4. missed'[y] = missed[y] \cup wrote[x] \cup {o}
    BY <1>1, <2>1, <2>3 DEF Publish
  <2>5. order[y] \in missed'[y] <=> order[y] \in missed[y] \/ order[y] = o
    BY <2>2, <2>4
  <2>6. pc[y] = "saved" => order[y] # o
    BY <1>1 DEF StatusInv, OneSaver
  <2> HIDE DEF o
  <2> QED BY <1>3, <1>5, <2>1, <2>5, <2>6 DEF StatusInv, Ending
<1>12. OneSaver'
  BY <1>1, <1>4, <1>7 DEF StatusInv, OneSaver, Actors
<1> QED BY <1>8, <1>9, <1>10, <1>11, <1>12 DEF StatusInv

\* A worker's query finds orders due at its cutoff.
LEMMA StatusFind ==
    ASSUME TypeInv, StatusInv, TypeInv', NEW w \in Workers,
           NEW cutoff \in Nat, cutoff <= now, FindDueOrders(w, cutoff),
           UNCHANGED <<status, expiresAt, order, verdict, now, pc, missed>>
    PROVE  StatusInv'
<1>1. PICK batch \in Batches(DueOrders(cutoff)) :
        job' = [job EXCEPT ![w].phase = "orders",
                           ![w].cutoff = cutoff,
                           ![w].due = batch,
                           ![w].more = Cardinality(batch) = BatchSize]
  BY DEF FindDueOrders
<1>2. job'[w].due = batch /\ job'[w].cutoff = cutoff
  BY <1>1 DEF TypeInv, TypeOK
<1>3. \A v \in Workers : v # w => job'[v] = job[v]
  BY <1>1 DEF TypeInv, TypeOK
<1>4. \A o \in batch : o \in Calls /\ Pending(o) /\ expiresAt[o] <= cutoff
  BY DEF Batches, DueOrders
<1>5. \A o \in batch : status[o] # "none" /\ Due(o)
  <2> SUFFICES ASSUME NEW o \in batch PROVE status[o] # "none" /\ Due(o)
    OBVIOUS
  <2>1. expiresAt[o] \in Nat /\ now \in Nat
    BY <1>4 DEF TypeInv, TypeOK
  <2> QED BY <1>4, <2>1 DEF Pending, Due
<1>6. JobSound'
  BY <1>2, <1>3, <1>5 DEF StatusInv, JobSound, Due
<1> QED BY <1>6 DEF StatusInv, Unplaced, ExpiredIsDue, Ending, OneSaver, Due

\* findOneAndUpdate: cancellations that read the order before have missed it.
LEMMA StatusExpire ==
    ASSUME TypeInv, StatusInv, TypeInv', NEW w \in Workers, NEW o \in Calls,
           ExpireOrder(w, o)
    PROVE  StatusInv'
<1>1. /\ o \in job[w].due
      /\ UNCHANGED <<expiresAt, order, verdict, now, pc>>
  BY DEF ExpireOrder, intent, env
<1>2. \A v \in Workers :
        job'[v].cutoff = job[v].cutoff /\ job'[v].due \subseteq job[v].due
  <2>1. job \in [Workers -> [phase : JobPhases, cutoff : Nat,
                            queue : SUBSET (Products \X Calls),
                            due : SUBSET Calls, more : BOOLEAN,
                            expired : SUBSET Calls]]
    BY DEF TypeInv, TypeOK
  <2>2. CASE job' = [job EXCEPT ![w].due = @ \ {o}, ![w].expired = @ \cup {o}]
    BY <2>1, <2>2
  <2>3. CASE job' = [job EXCEPT ![w].due = @ \ {o}]
    BY <2>1, <2>3
  <2> QED BY <2>2, <2>3 DEF ExpireOrder
<1>3. \A v \in Workers : job[v].due \subseteq Calls
  BY DEF TypeInv, TypeOK
<1>4. CASE ~Pending(o)
  <2>1. UNCHANGED <<status, missed>>
    BY <1>4 DEF ExpireOrder
  <2>2. now' >= now
    BY <1>1 DEF TypeInv, TypeOK
  <2>3. \A v \in Workers :
          job'[v].cutoff <= now' /\ job'[v].due \subseteq job[v].due
    BY <1>1, <1>2 DEF StatusInv, JobSound
  <2>4. UNCHANGED <<status, expiresAt, order, verdict, pc, missed>>
    BY <1>1, <2>1
  <2> QED BY <2>2, <2>3, <2>4, StatusFrame
<1>5. CASE Pending(o)
  <2>1. /\ Unlocked(o)
        /\ status' = [status EXCEPT ![o] = "expired"]
        /\ missed' = Publish({o})
    BY <1>5 DEF ExpireOrder
  <2>2. status[o] = "pending_payment" /\ Due(o)
    BY <1>1, <1>5 DEF StatusInv, JobSound, Pending
  <2>3. \A d \in Calls : status'[d] = IF d = o THEN "expired" ELSE status[d]
    BY <2>1 DEF TypeInv, TypeOK
  <2>4. \A d \in Calls : Due(d)' <=> Due(d)
    BY <1>1 DEF Due
  <2>5. Unplaced' /\ ExpiredIsDue' /\ JobSound'
    BY <1>1, <1>2, <1>3, <2>2, <2>3, <2>4
       DEF StatusInv, Unplaced, ExpiredIsDue, JobSound
  <2>6. Ending'
    <3> SUFFICES ASSUME NEW y \in Cancellers, pc[y] \in {"write", "saved"}
                 PROVE  /\ status'[order[y]] # "none"
                        /\ order[y] \notin missed'[y] =>
                              status'[order[y]] = status[order[y]]
                              /\ order[y] \notin missed[y]
                        /\ pc[y] = "saved" => order[y] \notin missed'[y]
      BY <1>1 DEF StatusInv, Ending, Due
    <3>1. y \in Actors /\ order[y] \in Calls
      BY DEF Actors, TypeInv, NamesOrder
    <3>2. missed'[y] = missed[y] \cup {o}
      BY <2>1, <3>1 DEF Publish, InTransaction
    <3>3. pc[y] = "saved" => order[y] # o
      BY <2>1, <3>1 DEF Unlocked
    <3> QED BY <2>3, <3>1, <3>2, <3>3 DEF StatusInv, Ending
  <2>7. OneSaver'
    BY <1>1 DEF StatusInv, OneSaver
  <2> QED BY <2>5, <2>6, <2>7 DEF StatusInv
<1> QED BY <1>4, <1>5

-----------------------------------------------------------------------------
(* Every step *)

\* A step of a transaction that changes its todo list or nothing at all.
LEMMA StatusQuiet ==
    ASSUME TypeInv, StatusInv, TypeInv',
           UNCHANGED <<status, expiresAt, order, verdict, missed, now>>,
           \A w \in Workers :
               job'[w].cutoff <= now /\ job'[w].due \subseteq job[w].due,
           \A c \in Calls : pc'[c] \in Early => pc[c] \in Early,
           \A x \in Cancellers : pc'[x] \in {"write", "saved"} => pc'[x] = pc[x]
    PROVE  StatusInv'
<1>1. now' >= now
  BY DEF TypeInv, TypeOK
<1> QED BY <1>1, StatusFrame

\* Every step keeps StatusInv: one case per action.
LEMMA StatusStep == TypeInv /\ StatusInv /\ [Next]_vars => StatusInv'
<1> SUFFICES ASSUME TypeInv, StatusInv, [Next]_vars PROVE StatusInv'
  OBVIOUS
<1>0. TypeInv'
  BY TypeStep
<1>a. \A w \in Workers : job[w].cutoff <= now
  BY DEF StatusInv, JobSound
<1>b. /\ pc \in [Actors -> PcStates] /\ Calls \cap Cancellers = {}
      /\ Calls \subseteq Actors /\ Cancellers \subseteq Actors
  BY OrdersAssumption DEF TypeInv, TypeOK, Actors
<1>1. ASSUME NEW c \in Calls, CreateStep(c) PROVE StatusInv'
  <2>1. CASE FindPrevious(c) \/ AnswerExisting(c) \/ RejectOrder(c)
             \/ InsertOrder(c) \/ NotifyPlaced(c)
    BY <1>0, <1>a, <1>b, <2>1, StatusQuiet
       DEF FindPrevious, AnswerExisting, RejectOrder, InsertOrder, NotifyPlaced,
           Early, db, intent, writes, env
  <2>2. CASE BeginOrder(c)
    BY <1>0, <2>2, StatusBegin
  <2>3. ASSUME NEW p \in Products, ReserveItem(c, p) PROVE StatusInv'
    BY <1>0, <1>a, <2>3, StatusQuiet DEF ReserveItem, db, intent, env
  <2>4. CASE DuplicateKey(c)
    BY <1>0, <1>b, <2>4, StatusAbort DEF DuplicateKey, db, intent, env
  <2>5. CASE CommitOrder(c)
    BY <1>0, <2>5, StatusCommitOrder
  <2>6. CASE WriteConflict(c)
    BY <1>0, <1>b, <2>6, StatusAbort DEF WriteConflict, Early, db, intent, env
  <2> QED BY <1>1, <2>1, <2>2, <2>3, <2>4, <2>5, <2>6 DEF CreateStep
<1>2. ASSUME NEW x \in Cancellers, CancelStep(x) PROVE StatusInv'
  <2>1. ASSUME NEW o \in Calls, BeginCancel(x, o) PROVE StatusInv'
    BY <1>0, <2>1, StatusBeginCancel
  <2>2. ASSUME NEW o \in Calls, NothingToCancel(x, o) PROVE StatusInv'
    BY <1>0, <1>a, <1>b, <2>2, StatusQuiet
       DEF NothingToCancel, Early, db, intent, writes, env
  <2>3. ASSUME NEW p \in Products, ReleaseItem(x, p) PROVE StatusInv'
    BY <1>0, <1>a, <2>3, StatusQuiet DEF ReleaseItem, db, intent, env
  <2>4. CASE SaveOrder(x)
    BY <1>0, <2>4, StatusSave
  <2>5. CASE CommitCancel(x)
    BY <1>0, <2>5, StatusCommitCancel
  <2>6. CASE NotifyEnded(x)
    BY <1>0, <1>a, <1>b, <2>6, StatusQuiet
       DEF NotifyEnded, Early, db, intent, writes, env
  <2>7. CASE WriteConflict(x)
    BY <1>0, <1>b, <2>7, StatusAbort DEF WriteConflict, Early, db, intent, env
  <2> QED BY <1>2, <2>1, <2>2, <2>3, <2>4, <2>5, <2>6, <2>7 DEF CancelStep
<1>3. ASSUME NEW t \in Actors, CommitFails(t) \/ CallFails(t) PROVE StatusInv'
  BY <1>0, <1>3, StatusAbort DEF CommitFails, CallFails, Early, db, intent
<1>4. ASSUME NEW w \in Workers, CleanupStep(w) PROVE StatusInv'
  <2>0. job \in [Workers -> [phase : JobPhases, cutoff : Nat,
                            queue : SUBSET (Products \X Calls),
                            due : SUBSET Calls, more : BOOLEAN,
                            expired : SUBSET Calls]]
        /\ now \in Nat
    BY DEF TypeInv, TypeOK
  <2>1. CASE ScanInventories(w)
    <3>1. \A v \in Workers :
            job'[v].cutoff = job[v].cutoff /\ job'[v].due = job[v].due
      BY <2>0, <2>1 DEF ScanInventories
    <3> QED BY <1>0, <1>a, <2>1, <3>1, StatusQuiet
            DEF ScanInventories, db, intent, writes, env
  <2>2. ASSUME NEW p \in Products, NEW o \in Calls, ExpireReservation(w, p, o)
        PROVE  StatusInv'
    <3>1. \A v \in Workers :
            job'[v].cutoff = job[v].cutoff /\ job'[v].due = job[v].due
      BY <2>0, <2>2 DEF ExpireReservation
    <3>2. UNCHANGED <<status, expiresAt, order, verdict, now, pc>>
      BY <2>2 DEF ExpireReservation, intent, env
    <3>3. CASE missed' = Publish({p})
      BY <1>0, <3>1, <3>2, <3>3, StatusPublish
    <3>4. CASE missed' = missed
      BY <1>0, <1>a, <3>1, <3>2, <3>4, StatusQuiet
    <3> QED BY <2>2, <3>3, <3>4 DEF ExpireReservation
  <2>3. CASE ScanOrders(w)
    BY <1>0, <2>0, <2>3, StatusFind DEF ScanOrders, db, intent, writes, env
  <2>4. CASE RescanOrders(w)
    <3>1. job[w].cutoff \in Nat /\ job[w].cutoff <= now
      BY <1>a, <2>0
    <3> QED BY <1>0, <2>4, <3>1, StatusFind DEF RescanOrders, db, intent, writes, env
  <2>5. ASSUME NEW o \in Calls, ExpireOrder(w, o) PROVE StatusInv'
    BY <1>0, <2>5, StatusExpire
  <2>6. CASE NotifyExpired(w)
    <3>1. \A v \in Workers : job'[v].cutoff <= now /\ job'[v].due = job[v].due
      BY <1>a, <2>0, <2>6 DEF NotifyExpired
    <3> QED BY <1>0, <2>6, <3>1, StatusQuiet DEF NotifyExpired, db, intent, writes, env
  <2> QED BY <1>4, <2>1, <2>2, <2>3, <2>4, <2>5, <2>6 DEF CleanupStep
<1>5. ASSUME NEW w \in Workers, CleanupFails(w) PROVE StatusInv'
  <2>1. \A v \in Workers : job'[v].cutoff <= now /\ job'[v].due \subseteq job[v].due
    BY <1>a, <1>5 DEF CleanupFails, TypeInv, TypeOK
  <2> QED BY <1>0, <1>5, <2>1, StatusQuiet DEF CleanupFails, db, intent, writes
<1>6. ASSUME NEW p \in Products, NEW n \in StockLevels, SetInventoryStock(p, n)
      PROVE  StatusInv'
  BY <1>0, <1>6, StatusPublish DEF SetInventoryStock, intent
<1>7. CASE Tick
  <2>1. now' >= now /\ \A w \in Workers : job[w].cutoff <= now'
    BY <1>a, <1>7 DEF Tick, TypeInv, TypeOK
  <2> QED BY <1>0, <1>7, <2>1, StatusFrame DEF Tick, db, intent, writes
<1>8. CASE UNCHANGED vars
  BY <1>0, <1>a, <1>8, StatusQuiet DEF vars, db, intent, writes, env
<1> QED BY <1>1, <1>2, <1>3, <1>4, <1>5, <1>6, <1>7, <1>8 DEF Next

\* The inductive invariant of the ends of orders.
LEMMA StatusInvariant == Spec => [](TypeInv /\ StockInv /\ StatusInv)
<1>1. Init => TypeInv /\ StockInv /\ StatusInv
  BY TypeInit, StockInit, StatusInit
<1>2. TypeInv /\ StockInv /\ StatusInv /\ [Next]_vars
        => (TypeInv /\ StockInv /\ StatusInv)'
  BY TypeStep, StockStep, StatusStep
<1> QED BY <1>1, <1>2, PTL DEF Spec

-----------------------------------------------------------------------------
(* A terminal status is final *)

OrderStays(o) ==
    status[o] \in {"cancelled", "expired"} => status'[o] = status[o]

ReservationStays(p, o) ==
    reservation[p][o] \in {"cancelled", "expired"} =>
        reservation'[p][o] = reservation[p][o]

\* An order in a terminal status keeps it in every step.
LEMMA OrdersStay ==
    ASSUME TypeInv, StatusInv, [Next]_vars, NEW o \in Calls
    PROVE  OrderStays(o)
<1> USE DEF OrderStays
<1>1. ASSUME NEW c \in Calls, CreateStep(c) PROVE OrderStays(o)
  <2>1. CASE CommitOrder(c)
    BY <2>1 DEF CommitOrder, StatusInv, Unplaced, Early, TypeInv, TypeOK
  <2>2. CASE ~CommitOrder(c)
    BY <1>1, <2>2
       DEF CreateStep, FindPrevious, BeginOrder, AnswerExisting, RejectOrder,
           ReserveItem, InsertOrder, DuplicateKey, NotifyPlaced, WriteConflict, db
  <2> QED BY <2>1, <2>2
<1>2. ASSUME NEW x \in Cancellers, CancelStep(x) PROVE OrderStays(o)
  <2>1. CASE CommitCancel(x)
    <3>1. pc[x] = "saved" /\ status' = [status EXCEPT ![order[x]] = verdict[x]]
      BY <2>1 DEF CommitCancel
    <3>2. /\ status[order[x]] \in {"pending_payment", "expired"}
          /\ status[order[x]] = "expired" => verdict[x] = "expired"
      BY <3>1 DEF StatusInv, Ending
    <3> QED BY <3>1, <3>2 DEF TypeInv, TypeOK
  <2>2. CASE ~CommitCancel(x)
    BY <1>2, <2>2
       DEF CancelStep, BeginCancel, NothingToCancel, ReleaseItem, SaveOrder,
           NotifyEnded, WriteConflict, db
  <2> QED BY <2>1, <2>2
<1>3. ASSUME NEW w \in Workers, CleanupStep(w) PROVE OrderStays(o)
  <2>1. ASSUME NEW d \in Calls, ExpireOrder(w, d) PROVE OrderStays(o)
    BY <2>1 DEF ExpireOrder, Pending, TypeInv, TypeOK
  <2>2. CASE ~\E d \in Calls : ExpireOrder(w, d)
    BY <1>3, <2>2
       DEF CleanupStep, ScanInventories, ExpireReservation, ScanOrders,
           RescanOrders, NotifyExpired, db
  <2> QED BY <2>1, <2>2
<1>4. CASE UNCHANGED status
  BY <1>4
<1> QED BY <1>1, <1>2, <1>3, <1>4
        DEF Next, CommitFails, CallFails, CleanupFails, SetInventoryStock, Tick, vars, db

\* A reservation in a terminal status keeps it in every step.
LEMMA ReservationsStay ==
    ASSUME TypeInv, StockInv, [Next]_vars, NEW p \in Products, NEW o \in Calls
    PROVE  ReservationStays(p, o)
<1> USE DEF ReservationStays
<1>1. ASSUME NEW c \in Calls, CreateStep(c) PROVE ReservationStays(p, o)
  <2>1. CASE CommitOrder(c)
    BY <2>1 DEF CommitOrder, StockInv, ReservesFit, TypeInv, TypeOK
  <2>2. CASE ~CommitOrder(c)
    BY <1>1, <2>2
       DEF CreateStep, FindPrevious, BeginOrder, AnswerExisting, RejectOrder,
           ReserveItem, InsertOrder, DuplicateKey, NotifyPlaced, WriteConflict, db
  <2> QED BY <2>1, <2>2
<1>2. ASSUME NEW x \in Cancellers, CancelStep(x) PROVE ReservationStays(p, o)
  <2>1. CASE CommitCancel(x)
    BY <2>1 DEF CommitCancel, StockInv, ReleasesFit, TypeInv, TypeOK
  <2>2. CASE ~CommitCancel(x)
    BY <1>2, <2>2
       DEF CancelStep, BeginCancel, NothingToCancel, ReleaseItem, SaveOrder,
           NotifyEnded, WriteConflict, db
  <2> QED BY <2>1, <2>2
<1>3. ASSUME NEW w \in Workers, CleanupStep(w) PROVE ReservationStays(p, o)
  <2>1. ASSUME NEW q \in Products, NEW d \in Calls, ExpireReservation(w, q, d)
        PROVE  ReservationStays(p, o)
    <3>1. \/ /\ reservation[q][d] = "active"
             /\ reservation' = [reservation EXCEPT ![q][d] = "expired"]
          \/ reservation' = reservation
      BY <2>1 DEF ExpireReservation, MatchesActive
    <3>2. reservation \in [Products -> [Calls -> ReservationStatuses]]
      BY DEF TypeInv, TypeOK
    <3> QED BY <3>1, <3>2
  <2>2. CASE ~\E q \in Products, d \in Calls : ExpireReservation(w, q, d)
    BY <1>3, <2>2
       DEF CleanupStep, ScanInventories, ExpireOrder, ScanOrders, RescanOrders,
           NotifyExpired, db
  <2> QED BY <2>1, <2>2
<1>4. CASE UNCHANGED reservation
  BY <1>4
<1> QED BY <1>1, <1>2, <1>3, <1>4
        DEF Next, CommitFails, CallFails, CleanupFails, SetInventoryStock, Tick, vars, db

\* No step of any call, cancellation or worker, whatever it read before, takes
\* an order or a reservation out of "cancelled" or "expired".
THEOREM TerminalIsFinal == Spec => TerminalStays
<1> DEFINE Stays ==
        \A o \in Calls :
            /\ status[o] \in {"cancelled", "expired"} => status'[o] = status[o]
            /\ \A p \in Products :
                reservation[p][o] \in {"cancelled", "expired"} =>
                    reservation'[p][o] = reservation[p][o]
<1>1. TypeInv /\ StockInv /\ StatusInv /\ [Next]_vars => [Stays]_vars
  BY OrdersStay, ReservationsStay DEF OrderStays, ReservationStays
<1> QED BY <1>1, StatusInvariant, PTL DEF Spec, TerminalStays

-----------------------------------------------------------------------------
(* One order per request *)

\* Orders that have appeared with a call's request since its snapshot are among
\* the documents it has missed.
MissedWinners ==
    \A c \in Calls : pc[c] = "write" => Existing(c) \subseteq missed[c]

\* A call that has inserted its order is the only one to have the request's key.
OwnsKey ==
    \A c \in Calls : pc[c] = "saved" =>
        /\ Existing(c) = {}
        /\ \A d \in Calls : pc[d] = "saved" /\ RequestOf[d] = RequestOf[c] => d = c

KeyInv == MissedWinners /\ OwnsKey /\ IdempotentCreate

LEMMA KeyInit == Init => KeyInv
<1> SUFFICES ASSUME Init PROVE KeyInv
  OBVIOUS
<1>1. \A c \in Calls : pc[c] = "start" /\ result[c] = "none" /\ ~Placed(c)
  BY DEF Init, Actors, Placed
<1> QED BY <1>1, OrdersAssumption DEF KeyInv, MissedWinners, OwnsKey, IdempotentCreate

\* A step that places no order, takes no snapshot and inserts nothing.
LEMMA KeyFrame ==
    ASSUME KeyInv,
           \A o \in Calls : Placed(o)' <=> Placed(o),
           \A c \in Calls : pc'[c] = "write" =>
               pc[c] = "write" /\ missed[c] \subseteq missed'[c],
           \A c \in Calls : pc'[c] = "saved" => pc[c] = "saved",
           \A c \in Calls :
               \/ result'[c] = result[c]
               \/ result'[c] \notin Calls
               \/ result'[c] \in Existing(c) /\ HashOf[result'[c]] = HashOf[c]
    PROVE  KeyInv'
<1>1. \A c \in Calls : Existing(c)' = Existing(c)
  BY DEF Existing
<1>2. MissedWinners' /\ OwnsKey'
  BY <1>1 DEF KeyInv, MissedWinners, OwnsKey
<1>3. IdempotentCreate'
  <2>1. \A c, d \in Calls :
          Placed(c)' /\ Placed(d)' /\ RequestOf[c] = RequestOf[d] => c = d
    BY DEF KeyInv, IdempotentCreate
  <2>2. ASSUME NEW c \in Calls, result'[c] \in Calls
        PROVE  /\ Placed(result[c])' /\ RequestOf[result'[c]] = RequestOf[c]
               /\ HashOf[result'[c]] = HashOf[c]
    <3>1. CASE result'[c] = result[c]
      BY <2>2, <3>1 DEF KeyInv, IdempotentCreate
    <3>2. CASE result'[c] \in Existing(c) /\ HashOf[result'[c]] = HashOf[c]
      BY <2>2, <3>2 DEF Existing
    <3> QED BY <2>2, <3>1, <3>2
  <2> QED BY <2>1, <2>2 DEF IdempotentCreate
<1> QED BY <1>2, <1>3 DEF KeyInv

\* The snapshot: no order has the request, and none has been missed.
LEMMA KeyBegin ==
    ASSUME TypeInv, KeyInv, NEW c \in Calls, BeginOrder(c)
    PROVE  KeyInv'
<1>1. /\ pc[c] = "begin" /\ Existing(c) = {}
      /\ pc' = [pc EXCEPT ![c] = "write"]
      /\ UNCHANGED <<status, result, missed>>
  BY DEF BeginOrder, db
<1>2. \A d \in Calls : Existing(d)' = Existing(d)
  BY <1>1 DEF Existing, Placed
<1>3. \A d \in Calls : d # c => pc'[d] = pc[d]
  BY <1>1 DEF TypeInv, TypeOK, Actors
<1>4. pc'[c] = "write"
  BY <1>1 DEF TypeInv, TypeOK, Actors
<1>5. MissedWinners'
  BY <1>1, <1>2, <1>3 DEF KeyInv, MissedWinners
<1>6. OwnsKey'
  BY <1>2, <1>3, <1>4 DEF KeyInv, OwnsKey
<1>7. IdempotentCreate'
  BY <1>1 DEF KeyInv, IdempotentCreate, Placed
<1> QED BY <1>5, <1>6, <1>7 DEF KeyInv

\* The unique index: nobody else has the key.
LEMMA KeyInsert ==
    ASSUME TypeInv, StatusInv, KeyInv, NEW c \in Calls, InsertOrder(c)
    PROVE  KeyInv'
<1>1. /\ pc[c] = "write" /\ ~KeyTaken(c)
      /\ pc' = [pc EXCEPT ![c] = "saved"]
      /\ UNCHANGED <<status, result, missed>>
  BY DEF InsertOrder, db, writes
<1>2. \A d \in Calls : Existing(d)' = Existing(d)
  BY <1>1 DEF Existing, Placed
<1>3. \A d \in Calls : d # c => pc'[d] = pc[d]
  BY <1>1 DEF TypeInv, TypeOK, Actors
<1>4. pc'[c] = "saved"
  BY <1>1 DEF TypeInv, TypeOK, Actors
<1>5. c \notin Existing(c)
  BY <1>1 DEF StatusInv, Unplaced, Early, Existing, Placed
<1>6. Existing(c) = {}
  <2>1. Existing(c) \subseteq missed[c]
    BY <1>1 DEF KeyInv, MissedWinners
  <2> QED BY <1>1, <1>5, <2>1 DEF KeyTaken, Existing
<1>7. \A d \in Calls : RequestOf[d] = RequestOf[c] /\ pc[d] = "saved" => d = c
  BY <1>1 DEF KeyTaken
<1>8. MissedWinners'
  BY <1>1, <1>2, <1>3, <1>4 DEF KeyInv, MissedWinners
<1>9. OwnsKey'
  <2> SUFFICES ASSUME NEW d \in Calls, pc'[d] = "saved"
               PROVE  /\ Existing(d)' = {}
                      /\ \A e \in Calls : pc'[e] = "saved" /\ RequestOf[e] = RequestOf[d] => e = d
    BY DEF OwnsKey
  <2>1. CASE d = c
    BY <1>2, <1>3, <1>6, <1>7, <2>1
  <2>2. CASE d # c
    BY <1>2, <1>3, <1>7, <2>2 DEF KeyInv, OwnsKey
  <2> QED BY <2>1, <2>2
<1>10. IdempotentCreate'
  BY <1>1 DEF KeyInv, IdempotentCreate, Placed
<1> QED BY <1>8, <1>9, <1>10 DEF KeyInv

\* The order appears, the first of its request; whoever has a snapshot without it
\* has missed it.
LEMMA KeyCommit ==
    ASSUME TypeInv, KeyInv, NEW c \in Calls, CommitOrder(c)
    PROVE  KeyInv'
<1>1. /\ pc[c] = "saved"
      /\ pc' = [pc EXCEPT ![c] = "notify"]
      /\ status' = [status EXCEPT ![c] = "pending_payment"]
      /\ result' = [result EXCEPT ![c] = c]
      /\ missed' = [Publish(wrote[c] \cup {c}) EXCEPT ![c] = {}]
  BY DEF CommitOrder, Close
<1>2. \A o \in Calls : Placed(o)' <=> Placed(o) \/ o = c
  BY <1>1 DEF TypeInv, TypeOK, Placed
<1>3. /\ \A d \in Calls : d # c => pc'[d] = pc[d] /\ result'[d] = result[d]
      /\ pc'[c] = "notify" /\ result'[c] = c
  BY <1>1 DEF TypeInv, TypeOK, Actors
<1>4. Existing(c) = {} /\ \A d \in Calls : pc[d] = "saved" /\ RequestOf[d] = RequestOf[c] => d = c
  BY <1>1 DEF KeyInv, OwnsKey
<1>5. \A d \in Calls : Existing(d)' = Existing(d) \cup {e \in {c} : RequestOf[e] = RequestOf[d]}
  BY <1>2 DEF Existing
<1>6. MissedWinners'
  <2> SUFFICES ASSUME NEW d \in Calls, pc'[d] = "write"
               PROVE  Existing(d)' \subseteq missed'[d]
    BY DEF MissedWinners
  <2>1. d # c /\ pc[d] = "write" /\ d \in Actors
    BY <1>3 DEF Actors
  <2>2. missed'[d] = missed[d] \cup (wrote[c] \cup {c})
    BY <1>1, <2>1 DEF Publish, InTransaction
  <2>3. Existing(d) \subseteq missed[d]
    BY <2>1 DEF KeyInv, MissedWinners
  <2> QED BY <1>5, <2>2, <2>3
<1>7. OwnsKey'
  <2> SUFFICES ASSUME NEW d \in Calls, pc'[d] = "saved"
               PROVE  /\ Existing(d)' = {}
                      /\ \A e \in Calls : pc'[e] = "saved" /\ RequestOf[e] = RequestOf[d] => e = d
    BY DEF OwnsKey
  <2>1. d # c /\ pc[d] = "saved"
    BY <1>3
  <2>2. RequestOf[d] # RequestOf[c]
    BY <1>4, <2>1
  <2>3. /\ Existing(d) = {}
        /\ \A e \in Calls : pc[e] = "saved" /\ RequestOf[e] = RequestOf[d] => e = d
    BY <2>1 DEF KeyInv, OwnsKey
  <2> QED BY <1>3, <1>5, <2>2, <2>3
<1>8. IdempotentCreate'
  <2>1. ASSUME NEW d \in Calls, NEW e \in Calls, Placed(d)', Placed(e)', RequestOf[d] = RequestOf[e]
        PROVE  d = e
    <3>1. \A o \in Calls : Placed(o) => RequestOf[o] # RequestOf[c]
      BY <1>4 DEF Existing
    <3>2. Placed(d) /\ Placed(e) => d = e
      BY <2>1 DEF KeyInv, IdempotentCreate
    <3> QED BY <1>2, <2>1, <3>1, <3>2
  <2>2. ASSUME NEW d \in Calls, result'[d] \in Calls
        PROVE  /\ Placed(result[d])' /\ RequestOf[result'[d]] = RequestOf[d]
               /\ HashOf[result'[d]] = HashOf[d]
    <3>1. CASE d = c
      BY <1>2, <1>3, <3>1
    <3>2. CASE d # c
      <4>1. /\ result'[d] = result[d] /\ Placed(result[d])
            /\ RequestOf[result[d]] = RequestOf[d] /\ HashOf[result[d]] = HashOf[d]
        BY <1>3, <2>2, <3>2 DEF KeyInv, IdempotentCreate
      <4> QED BY <1>2, <2>2, <4>1
    <3> QED BY <3>1, <3>2
  <2> QED BY <2>1, <2>2 DEF IdempotentCreate
<1> QED BY <1>6, <1>7, <1>8 DEF KeyInv

\* A step that leaves the calls and the orders' existence alone.
LEMMA KeyQuiet ==
    ASSUME KeyInv,
           \A o \in Calls : Placed(o)' <=> Placed(o),
           \A c \in Calls : pc'[c] \notin {"write", "saved"} \/ pc'[c] = pc[c],
           \A c \in Calls : pc'[c] = "write" => missed[c] \subseteq missed'[c],
           result' = result
    PROVE  KeyInv'
<1>1. \A c \in Calls : pc'[c] = "write" => pc[c] = "write" /\ missed[c] \subseteq missed'[c]
  OBVIOUS
<1>2. \A c \in Calls : pc'[c] = "saved" => pc[c] = "saved"
  OBVIOUS
<1> QED BY <1>1, <1>2, KeyFrame

\* An answer with the order of an earlier call.
LEMMA KeyAnswer ==
    ASSUME KeyInv, NEW c \in Calls, NEW d \in Existing(c),
           result' = [result EXCEPT ![c] = Answer(c, d)],
           status' = status,
           \A e \in Calls : pc'[e] \notin {"write", "saved"} \/ pc'[e] = pc[e],
           \A e \in Calls : pc'[e] = "write" => missed[e] \subseteq missed'[e],
           result \in [Calls -> Calls \cup {"none", "rejected"}]
    PROVE  KeyInv'
<1>1. \/ Answer(c, d) = "rejected"
      \/ Answer(c, d) \in Existing(c) /\ HashOf[Answer(c, d)] = HashOf[c]
  BY DEF Answer
<1>2. "rejected" \notin Calls
  BY OrdersAssumption
<1>3. \A e \in Calls :
        \/ result'[e] = result[e]
        \/ result'[e] \notin Calls
        \/ result'[e] \in Existing(e) /\ HashOf[result'[e]] = HashOf[e]
  BY <1>1, <1>2
<1>4. \A o \in Calls : Placed(o)' <=> Placed(o)
  BY DEF Placed
<1>5. \A e \in Calls : pc'[e] = "write" => pc[e] = "write" /\ missed[e] \subseteq missed'[e]
  OBVIOUS
<1>6. \A e \in Calls : pc'[e] = "saved" => pc[e] = "saved"
  OBVIOUS
<1> QED BY <1>3, <1>4, <1>5, <1>6, KeyFrame

\* A transaction that ends, with the documents D changed, leaves the others at
\* their places, having missed no less.
LEMMA CloseKeeps ==
    ASSUME TypeInv, NEW t \in Actors, NEW next \in {"begin", "notify", "done"}, NEW D,
           Close(t, next, D)
    PROVE  /\ \A c \in Calls : pc'[c] \notin {"write", "saved"} \/ pc'[c] = pc[c]
           /\ \A c \in Calls : pc'[c] = "write" => missed[c] \subseteq missed'[c]
<1>1. /\ pc' = [pc EXCEPT ![t] = next]
      /\ missed' = [Publish(D) EXCEPT ![t] = {}]
  BY DEF Close
<1>2. pc'[t] = next /\ \A u \in Actors \ {t} : pc'[u] = pc[u]
  BY <1>1 DEF TypeInv, TypeOK
<1>3. \A u \in Actors \ {t} : missed[u] \subseteq missed'[u]
  BY <1>1 DEF Publish
<1> QED BY <1>2, <1>3 DEF Actors

\* One request keeps at most one order in every step.
LEMMA KeyStep == TypeInv /\ StatusInv /\ KeyInv /\ [Next]_vars => KeyInv'
<1> SUFFICES ASSUME TypeInv, StatusInv, KeyInv, [Next]_vars PROVE KeyInv'
  OBVIOUS
<1>a. \A o \in Calls : status' = status => (Placed(o)' <=> Placed(o))
  BY DEF Placed
<1>b. \A c \in Calls : c \in Actors /\ c \notin Cancellers
  BY OrdersAssumption DEF Actors
<1>c. \A x \in Cancellers : x \in Actors
  BY DEF Actors
<1>d. result \in [Calls -> Calls \cup {"none", "rejected"}]
  BY DEF TypeInv, TypeOK
<1>e. pc \in [Actors -> PcStates]
  BY DEF TypeInv, TypeOK
<1>1. ASSUME NEW c \in Calls, CreateStep(c) PROVE KeyInv'
  <2>1. CASE FindPrevious(c)
    <3>1. \A d \in Calls : pc'[d] \notin {"write", "saved"} \/ pc'[d] = pc[d]
      BY <1>b, <1>e, <2>1 DEF FindPrevious
    <3> QED BY <1>a, <2>1, <3>1, KeyQuiet DEF FindPrevious, db, writes
  <2>2. CASE BeginOrder(c)
    BY <2>2, KeyBegin
  <2>3. CASE AnswerExisting(c)
    <3>1. \A d \in Calls : pc'[d] \notin {"write", "saved"} \/ pc'[d] = pc[d]
      BY <1>b, <1>e, <2>3 DEF AnswerExisting
    <3>2. PICK d \in Existing(c) : result' = [result EXCEPT ![c] = Answer(c, d)]
      BY <2>3 DEF AnswerExisting
    <3>3. status' = status /\ missed' = missed
      BY <2>3 DEF AnswerExisting, db, writes
    <3> QED BY <1>d, <3>1, <3>2, <3>3, KeyAnswer
  <2>4. CASE RejectOrder(c)
    <3>1. \A d \in Calls : pc'[d] \notin {"write", "saved"} \/ pc'[d] = pc[d]
      BY <1>b, <1>e, <2>4 DEF RejectOrder
    <3>2. \A d \in Calls : result'[d] = result[d] \/ result'[d] \notin Calls
      BY <1>d, <2>4, OrdersAssumption DEF RejectOrder
    <3>3. status' = status /\ missed' = missed
      BY <2>4 DEF RejectOrder, db, writes
    <3> QED BY <1>a, <3>1, <3>2, <3>3, KeyFrame
  <2>5. ASSUME NEW p \in Products, ReserveItem(c, p) PROVE KeyInv'
    BY <1>a, <2>5, KeyQuiet DEF ReserveItem, db
  <2>6. CASE InsertOrder(c)
    BY <2>6, KeyInsert
  <2>7. CASE DuplicateKey(c)
    <3>1. Close(c, "done", {}) /\ status' = status
      BY <2>7 DEF DuplicateKey, db
    <3>2. PICK d \in missed[c] \cap Existing(c) :
            result' = [result EXCEPT ![c] = Answer(c, d)]
      BY <2>7 DEF DuplicateKey
    <3>3. /\ \A e \in Calls : pc'[e] \notin {"write", "saved"} \/ pc'[e] = pc[e]
          /\ \A e \in Calls : pc'[e] = "write" => missed[e] \subseteq missed'[e]
      BY <1>b, <3>1, CloseKeeps
    <3> QED BY <1>d, <3>1, <3>2, <3>3, KeyAnswer
  <2>8. CASE CommitOrder(c)
    BY <2>8, KeyCommit
  <2>9. CASE NotifyPlaced(c)
    <3>1. \A d \in Calls : pc'[d] \notin {"write", "saved"} \/ pc'[d] = pc[d]
      BY <1>b, <1>e, <2>9 DEF NotifyPlaced
    <3> QED BY <1>a, <2>9, <3>1, KeyQuiet DEF NotifyPlaced, db, writes
  <2>10. CASE WriteConflict(c)
    BY <1>a, <1>b, <2>10, CloseKeeps, KeyQuiet DEF WriteConflict, db
  <2> QED BY <1>1, <2>1, <2>2, <2>3, <2>4, <2>5, <2>6, <2>7, <2>8, <2>9, <2>10
          DEF CreateStep
<1>2. ASSUME NEW x \in Cancellers, CancelStep(x) PROVE KeyInv'
  <2>1. ASSUME NEW o \in Calls, BeginCancel(x, o) \/ NothingToCancel(x, o) PROVE KeyInv'
    <3>0. \E v : pc' = [pc EXCEPT ![x] = v]
      BY <2>1 DEF BeginCancel, NothingToCancel
    <3>1. \A d \in Calls : pc'[d] = pc[d]
      BY <1>b, <1>e, <3>0
    <3> QED BY <1>a, <2>1, <3>1, KeyQuiet DEF BeginCancel, NothingToCancel, db, writes
  <2>2. ASSUME NEW p \in Products, ReleaseItem(x, p) PROVE KeyInv'
    BY <1>a, <2>2, KeyQuiet DEF ReleaseItem, db
  <2>3. CASE SaveOrder(x)
    <3>1. \A d \in Calls : pc'[d] = pc[d]
      BY <1>b, <2>3 DEF SaveOrder
    <3> QED BY <1>a, <2>3, <3>1, KeyQuiet DEF SaveOrder, db, writes
  <2>4. CASE CommitCancel(x)
    <3>1. /\ status[order[x]] # "none"
          /\ verdict[x] \in {"cancelled", "expired"}
          /\ status' = [status EXCEPT ![order[x]] = verdict[x]]
      BY <2>4 DEF CommitCancel, StatusInv, Ending
    <3>2. \A o \in Calls : Placed(o)' <=> Placed(o)
      BY <3>1 DEF Placed, TypeInv, TypeOK
    <3>3. Close(x, IF wasPending[x] THEN "notify" ELSE "done", wrote[x] \cup {order[x]})
      BY <2>4 DEF CommitCancel
    <3>4. /\ \A d \in Calls : pc'[d] \notin {"write", "saved"} \/ pc'[d] = pc[d]
          /\ \A d \in Calls : pc'[d] = "write" => missed[d] \subseteq missed'[d]
      BY <1>c, <3>3, CloseKeeps
    <3>5. result' = result
      BY <2>4 DEF CommitCancel
    <3> QED BY <3>2, <3>4, <3>5, KeyQuiet
  <2>5. CASE NotifyEnded(x)
    <3>1. \A d \in Calls : pc'[d] = pc[d]
      BY <1>b, <2>5 DEF NotifyEnded
    <3> QED BY <1>a, <2>5, <3>1, KeyQuiet DEF NotifyEnded, db, writes
  <2>6. CASE WriteConflict(x)
    BY <1>a, <1>c, <2>6, CloseKeeps, KeyQuiet DEF WriteConflict, db
  <2> QED BY <1>2, <2>1, <2>2, <2>3, <2>4, <2>5, <2>6 DEF CancelStep
<1>3. ASSUME NEW t \in Actors, CommitFails(t) \/ CallFails(t) PROVE KeyInv'
  BY <1>a, <1>3, CloseKeeps, KeyQuiet DEF CommitFails, CallFails, db
<1>4. ASSUME NEW p \in Products, missed' = Publish({p}), pc' = pc,
             status' = status, result' = result
      PROVE  KeyInv'
  <2>1. \A c \in Calls : missed[c] \subseteq missed'[c]
    BY <1>b, <1>4 DEF Publish
  <2> QED BY <1>a, <1>4, <2>1, KeyQuiet
<1>5. ASSUME NEW w \in Workers, CleanupStep(w) PROVE KeyInv'
  <2>1. CASE ScanInventories(w) \/ ScanOrders(w) \/ RescanOrders(w) \/ NotifyExpired(w)
    BY <1>a, <2>1, KeyQuiet
       DEF ScanInventories, ScanOrders, RescanOrders, NotifyExpired, db, writes
  <2>2. ASSUME NEW p \in Products, NEW o \in Calls, ExpireReservation(w, p, o)
        PROVE  KeyInv'
    <3>1. CASE missed' = missed
      BY <1>a, <2>2, <3>1, KeyQuiet DEF ExpireReservation
    <3>2. CASE missed' = Publish({p})
      BY <1>4, <2>2, <3>2 DEF ExpireReservation
    <3> QED BY <2>2, <3>1, <3>2 DEF ExpireReservation
  <2>3. ASSUME NEW o \in Calls, ExpireOrder(w, o) PROVE KeyInv'
    <3>1. \A d \in Calls : Placed(d)' <=> Placed(d)
      BY <2>3 DEF ExpireOrder, Pending, Placed, TypeInv, TypeOK
    <3>2. \A c \in Calls : missed[c] \subseteq missed'[c]
      BY <1>b, <2>3 DEF ExpireOrder, Publish
    <3>3. pc' = pc /\ result' = result
      BY <2>3 DEF ExpireOrder
    <3> QED BY <3>1, <3>2, <3>3, KeyQuiet
  <2> QED BY <1>5, <2>1, <2>2, <2>3 DEF CleanupStep
<1>6. ASSUME NEW w \in Workers, CleanupFails(w) PROVE KeyInv'
  BY <1>a, <1>6, KeyQuiet DEF CleanupFails, db, writes
<1>7. ASSUME NEW p \in Products, NEW n \in StockLevels, SetInventoryStock(p, n)
      PROVE  KeyInv'
  BY <1>4, <1>7 DEF SetInventoryStock
<1>8. CASE Tick \/ UNCHANGED vars
  BY <1>a, <1>8, KeyQuiet DEF Tick, vars, db, writes
<1> QED BY <1>1, <1>2, <1>3, <1>5, <1>6, <1>7, <1>8 DEF Next

\* However many calls carry one request and however they race, retry and fail,
\* one order has it, and every call is answered with an order of its own content.
THEOREM CreateIsIdempotent == Spec => []IdempotentCreate
<1>1. Init => TypeInv /\ StockInv /\ StatusInv /\ KeyInv
  BY TypeInit, StockInit, StatusInit, KeyInit
<1>2. TypeInv /\ StockInv /\ StatusInv /\ KeyInv /\ [Next]_vars
        => (TypeInv /\ StockInv /\ StatusInv /\ KeyInv)'
  BY TypeStep, StockStep, StatusStep, KeyStep
<1>3. KeyInv => IdempotentCreate
  BY DEF KeyInv
<1> QED BY <1>1, <1>2, <1>3, PTL DEF Spec
=============================================================================
