----------------------------- MODULE AtomicCart -----------------------------
(***************************************************************************)
(* What a cart promises its account: every call takes effect on the cart   *)
(* at one instant, and only if it is legal there and then, or is refused   *)
(* and has no effect.  A cart is the quantity of each product in it.       *)
(***************************************************************************)
EXTENDS Integers, FiniteSets

CONSTANTS Products, Calls, Operation, Stock, MaxItems, NoCart

VARIABLES cart, answer

In(p) == cart # NoCart /\ cart[p] > 0
Full  == cart # NoCart /\ Cardinality({p \in Products : cart[p] > 0}) >= MaxItems
Empty == [p \in Products |-> 0]
Current == IF cart = NoCart THEN Empty ELSE cart

Init ==
    /\ cart = NoCart
    /\ answer = [c \in Calls |-> "none"]

\* More of a product, if the cart has room for it and the stock for its total.
Add(p, n) ==
    /\ In(p) \/ ~Full
    /\ Current[p] + n <= Stock[p]
    /\ cart' = [Current EXCEPT ![p] = @ + n]

\* Another quantity of a product in the cart.
Set(p, n) ==
    /\ In(p)
    /\ n <= Stock[p]
    /\ cart' = [cart EXCEPT ![p] = n]

Remove(p) ==
    /\ In(p)
    /\ cart' = [cart EXCEPT ![p] = 0]

Clear ==
    /\ cart # NoCart
    /\ cart' = Empty

Apply(o) ==
    \/ o.kind = "add" /\ Add(o.product, o.quantity)
    \/ o.kind = "set" /\ Set(o.product, o.quantity)
    \/ o.kind = "remove" /\ Remove(o.product)
    \/ o.kind = "clear" /\ Clear

Succeed(c) ==
    /\ answer[c] = "none"
    /\ Apply(Operation[c])
    /\ answer' = [answer EXCEPT ![c] = "ok"]

Refuse(c) ==
    /\ answer[c] = "none"
    /\ answer' = [answer EXCEPT ![c] = "refused"]
    /\ UNCHANGED cart

Next == \E c \in Calls : Succeed(c) \/ Refuse(c)

Spec == Init /\ [][Next]_<<cart, answer>>
=============================================================================
