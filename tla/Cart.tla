-------------------------------- MODULE Cart --------------------------------
(***************************************************************************)
(* The cart of one account: CartService's calls as read-modify-write       *)
(* cycles on one document with a version (optimisticConcurrency), repeated *)
(* at most MaxAttempts times.  Each await is a step of its own.            *)
(*                                                                         *)
(* Items are quantities by product, zero for a product that is not in      *)
(* cart_items.  Products, sellers and stock belong to other modules: a     *)
(* product may turn out unavailable at any time, and Stock is the most a   *)
(* call will find on hand.                                                 *)
(***************************************************************************)
EXTENDS Integers, FiniteSets

CONSTANTS
    Products,
    Calls,          \* calls of addProductToCart, updateProductQuantity,
                    \* removeProductFromCart and clearCart
    Operation,      \* what each of them asks for
    Stock,          \* inven_stock of each product
    MaxItems,       \* MAX_CART_ITEMS
    MaxAttempts,    \* MAX_WRITE_ATTEMPTS
    NoCart          \* there is no cart document

Operations ==
    [kind : {"add", "set"}, product : Products, quantity : Nat \ {0}]
        \cup [kind : {"remove"}, product : Products]
        \cup [kind : {"clear"}]

ASSUME CartAssumption ==
    /\ IsFiniteSet(Products)
    /\ Operation \in [Calls -> Operations]
    /\ Stock \in [Products -> Nat]
    /\ MaxItems \in Nat
    /\ MaxAttempts \in Nat \ {0}
    /\ NoCart \notin [Products -> Nat]

VARIABLES
    cart,           \* cart_items of the document, or NoCart
    version,        \* __v
    pc,             \* control point of each call
    copy,           \* the cart a call has read
    copyVersion,    \* and its version
    attempts,       \* how often it has lost a race
    answer          \* how it ended

document == <<cart, version>>
read     == <<copy, copyVersion>>
vars     == <<document, pc, read, attempts, answer>>

Init ==
    /\ cart = NoCart
    /\ version = 0
    /\ pc = [c \in Calls |-> "read"]
    /\ copy = [c \in Calls |-> NoCart]
    /\ copyVersion = [c \in Calls |-> 0]
    /\ attempts = [c \in Calls |-> 0]
    /\ answer = [c \in Calls |-> "none"]

-----------------------------------------------------------------------------
(* What a call makes of its copy *)

Empty == [p \in Products |-> 0]

Kind(c)    == Operation[c].kind
Product(c) == Operation[c].product

Has(c) == copy[c] # NoCart /\ copy[c][Product(c)] > 0
Distinct(items) == Cardinality({p \in Products : items[p] > 0})

Full(c) == copy[c] # NoCart /\ Distinct(copy[c]) >= MaxItems

\* The cart, or the product in it, is not found, or there is no room for it.
Refusable(c) ==
    CASE Kind(c) = "add"               -> ~Has(c) /\ Full(c)
      [] Kind(c) \in {"set", "remove"} -> ~Has(c)
      [] Kind(c) = "clear"             -> copy[c] = NoCart

\* resultingQuantity of an add, the quantity of a set.
Resulting(c) ==
    IF Kind(c) = "add" /\ Has(c) THEN copy[c][Product(c)] + Operation[c].quantity
                                 ELSE Operation[c].quantity

\* The items the call saves.
Edited(c) ==
    LET items == IF copy[c] = NoCart THEN Empty ELSE copy[c] IN
    CASE Kind(c) \in {"add", "set"} -> [items EXCEPT ![Product(c)] = Resulting(c)]
      [] Kind(c) = "remove"         -> [items EXCEPT ![Product(c)] = 0]
      [] Kind(c) = "clear"          -> Empty

-----------------------------------------------------------------------------
(* A call *)

End(c, how) ==
    /\ pc' = [pc EXCEPT ![c] = "done"]
    /\ answer' = [answer EXCEPT ![c] = how]

\* Mutant: the cart is read outside the retried operation.
ReadOnce(c) ==
    /\ pc[c] = "read"
    /\ IF attempts[c] = 0
       THEN /\ copy' = [copy EXCEPT ![c] = cart]
            /\ copyVersion' = [copyVersion EXCEPT ![c] = version]
       ELSE UNCHANGED read
    /\ pc' = [pc EXCEPT ![c] = "check"]
    /\ UNCHANGED <<document, attempts, answer>>

FindCart(c) ==
    /\ pc[c] = "read"
    /\ copy' = [copy EXCEPT ![c] = cart]
    /\ copyVersion' = [copyVersion EXCEPT ![c] = version]
    /\ pc' = [pc EXCEPT ![c] = "check"]
    /\ UNCHANGED <<document, attempts, answer>>

Refuse(c) ==
    /\ pc[c] = "check"
    /\ Refusable(c)
    /\ End(c, "refused")
    /\ UNCHANGED <<document, read, attempts>>

\* validateProductAvailability; remove and clear do not call it.
Validate(c) ==
    /\ pc[c] = "check"
    /\ ~Refusable(c)
    /\ Kind(c) \in {"add", "set"} => Resulting(c) <= Stock[Product(c)]
    /\ pc' = [pc EXCEPT ![c] = "save"]
    /\ UNCHANGED <<document, read, attempts, answer>>

\* The stock does not suffice, or the product is not for sale.
Unavailable(c) ==
    /\ pc[c] = "check"
    /\ ~Refusable(c)
    /\ Kind(c) \in {"add", "set"}
    /\ End(c, "refused")
    /\ UNCHANGED <<document, read, attempts>>

\* Mutant: no optimisticConcurrency.
AnyVersion(c) == (copy[c] = NoCart) = (cart = NoCart)

\* createCart needs that there is no cart yet (unique cart_account), save that
\* the document still has the version that was read.
Unchanged(c) ==
    IF copy[c] = NoCart THEN cart = NoCart
                        ELSE cart # NoCart /\ copyVersion[c] = version

\* Setting the quantity that is there already modifies nothing, and the version
\* stays; a splice counts as a modification even of an empty list.
Save(c) ==
    /\ pc[c] = "save"
    /\ Unchanged(c)
    /\ cart' = Edited(c)
    /\ version' = IF copy[c] = NoCart \/ (Kind(c) = "set" /\ Edited(c) = copy[c])
                  THEN version ELSE version + 1
    /\ End(c, "ok")
    /\ UNCHANGED <<read, attempts>>

LastAttempt(c) == attempts[c] + 1 = MaxAttempts

\* VersionError or a duplicate key: once more, on a fresh copy, or give up.
LoseRace(c) ==
    /\ pc[c] = "save"
    /\ ~Unchanged(c)
    /\ attempts' = [attempts EXCEPT ![c] = @ + 1]
    /\ IF LastAttempt(c)
       THEN End(c, "conflict")
       ELSE pc' = [pc EXCEPT ![c] = "read"] /\ UNCHANGED answer
    /\ UNCHANGED <<document, read>>

\* A crash or a database error.
CallFails(c) ==
    /\ pc[c] # "done"
    /\ End(c, "failed")
    /\ UNCHANGED <<document, read, attempts>>

-----------------------------------------------------------------------------
CallStep(c) ==
    \/ FindCart(c)
    \/ Refuse(c)
    \/ Validate(c)
    \/ Unavailable(c)
    \/ Save(c)
    \/ LoseRace(c)
    \/ CallFails(c)

Next == \E c \in Calls : CallStep(c)

Spec == Init /\ [][Next]_vars

-----------------------------------------------------------------------------
(* Properties *)

CartTypeOK ==
    /\ cart \in [Products -> Nat] \cup {NoCart}
    /\ version \in Nat
    /\ pc \in [Calls -> {"read", "check", "save", "done"}]
    /\ copy \in [Calls -> [Products -> Nat] \cup {NoCart}]
    /\ copyVersion \in [Calls -> Nat]
    /\ attempts \in [Calls -> 0..MaxAttempts]
    /\ answer \in [Calls -> {"none", "ok", "refused", "conflict", "failed"}]

\* The answers as the atomic cart gives them.
FinalAnswer ==
    [c \in Calls |-> IF answer[c] \in {"none", "ok"} THEN answer[c] ELSE "refused"]

\* However calls interleave, each takes effect at one instant on the cart as it
\* then is, and only if it is legal there: no addition is lost, no total or
\* number of products grows beyond what a single call may make it.
Atomic == INSTANCE AtomicCart WITH answer <- FinalAnswer
CartIsAtomic == Atomic!Spec

\* Changes of the cart so far; its creation is one.
CartChanges == version + (IF cart = NoCart THEN 0 ELSE 1)

\* "Cart was modified concurrently": a call only gives up after as many changes
\* by others as it made attempts, so some call always gets through.
ConflictMeansProgress ==
    \A c \in Calls : answer[c] = "conflict" => CartChanges >= MaxAttempts
=============================================================================
