------------------------------- MODULE MCCart -------------------------------
(* An instance of Cart: additions of one product whose sum exceeds its stock, *)
(* of another for which the cart may have no room, and calls that undo them.  *)
EXTENDS Cart

CONSTANTS a1, a2, a3, s1, r1, p, q

MCOperation ==
    [c \in Calls |->
        CASE c = a1 -> [kind |-> "add", product |-> p, quantity |-> 1]
          [] c = a2 -> [kind |-> "add", product |-> p, quantity |-> 2]
          [] c = a3 -> [kind |-> "add", product |-> q, quantity |-> 1]
          [] c = s1 -> [kind |-> "set", product |-> p, quantity |-> 2]
          [] c = r1 -> [kind |-> "remove", product |-> p]
          [] OTHER  -> [kind |-> "clear"]]

MCStock == [x \in Products |-> 2]
=============================================================================
