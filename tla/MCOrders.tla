------------------------------ MODULE MCOrders ------------------------------
(* Instances of Orders for TLC: c1 and c2 are one checkout sent twice, c3   *)
(* reuses their requestId with other content, c4 is another request.        *)
EXTENDS Orders, TLC

CONSTANTS c1, c2, c3, c4, x1, x2, w1, w2, r1, r2, h1, h2

MCRequestOf == [c \in Calls |-> IF c = c4 THEN r2 ELSE r1]
MCHashOf    == [c \in Calls |-> IF c = c3 THEN h2 ELSE h1]
MCQuantity  == [c \in Calls |-> CASE c = c3 -> <<0, 2>>
                                  [] c = c4 -> <<1, 1>>
                                  [] OTHER  -> <<1, 0>>]
MCStock     == <<1, 2>>

\* Cancellations of one order, and workers, are interchangeable.
MCEnders    == Permutations(Cancellers) \cup Permutations(Workers)
\* So are the two sendings of one checkout.
MCResends   == Permutations({c1, c2})
=============================================================================
