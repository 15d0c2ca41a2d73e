------------------------- MODULE ReservationLedger -------------------------
(***************************************************************************)
(* What an inventory promises about its reservations: each takes its stock *)
(* once, ends once, and gives the stock back once unless it is confirmed.  *)
(* Every call takes effect at one instant, or not at all, and its answer   *)
(* is true of the ledger at the instant it is given.                       *)
(***************************************************************************)
EXTENDS Naturals

CONSTANTS Calls, Ids, HoldTime, NoReservation

VARIABLES clock, shelf, ledger, ask, reply

Named(c) == ledger[ask[c].id]
Mine(c)  == Named(c) # NoReservation /\ Named(c).cart = ask[c].cart

Init ==
    /\ shelf \in Nat
    /\ reply = [c \in Calls |-> "none"]

\* A call is answered, or its answer is lost.
Answers(c) == reply' \in {reply, [reply EXCEPT ![c] = "ok"]}

Take(c) ==
    /\ ask[c].op = "reserve"
    /\ Named(c) = NoReservation
    /\ ask[c].quantity <= shelf
    /\ shelf' = shelf - ask[c].quantity
    /\ \E deadline \in 0..(clock + HoldTime) :
        ledger' = [ledger EXCEPT ![ask[c].id] =
                      [cart |-> ask[c].cart, quantity |-> ask[c].quantity,
                       expiresAt |-> deadline, status |-> "active"]]
    /\ Answers(c)

\* An active reservation ends, and its stock returns unless it is confirmed.
End(id, outcome) ==
    /\ ledger[id] # NoReservation
    /\ ledger[id].status = "active"
    /\ ledger' = [ledger EXCEPT ![id].status = outcome]
    /\ shelf' = IF outcome = "confirmed" THEN shelf ELSE shelf + ledger[id].quantity

Confirm(c) == ask[c].op = "confirm" /\ Mine(c) /\ End(ask[c].id, "confirmed") /\ Answers(c)
Cancel(c)  == ask[c].op = "cancel" /\ Mine(c) /\ End(ask[c].id, "cancelled") /\ Answers(c)

\* Never before its time.
Expire(id) == End(id, "expired") /\ ledger[id].expiresAt <= clock /\ UNCHANGED reply

Restock(c) ==
    /\ ask[c].op = "restock"
    /\ shelf' = ask[c].quantity
    /\ Answers(c)
    /\ UNCHANGED ledger

\* The call asks for what is so already.
Settled(c) ==
    CASE ask[c].op = "reserve" -> /\ Mine(c) /\ Named(c).quantity = ask[c].quantity
                                  /\ Named(c).status \in {"active", "confirmed"}
      [] ask[c].op = "confirm" -> Mine(c) /\ Named(c).status = "confirmed"
      [] ask[c].op = "cancel"  -> Mine(c) /\ Named(c).status \in {"cancelled", "expired"}
      [] OTHER                 -> TRUE

\* What it asks for cannot be had.
Hopeless(c) ==
    CASE ask[c].op = "reserve" -> \/ ~Mine(c) \/ Named(c).quantity # ask[c].quantity
                                  \/ Named(c).status \in {"cancelled", "expired"}
                                  \/ Named(c).expiresAt <= clock
      [] ask[c].op = "confirm" -> \/ ~Mine(c) \/ Named(c).status \in {"cancelled", "expired"}
                                  \/ Named(c).expiresAt <= clock
      [] ask[c].op = "cancel"  -> ~Mine(c) \/ Named(c).status = "confirmed"
      [] OTHER                 -> FALSE

Reply(c) ==
    /\ \/ Settled(c) /\ reply' = [reply EXCEPT ![c] = "ok"]
       \/ Hopeless(c) /\ reply' = [reply EXCEPT ![c] = "refused"]
    /\ UNCHANGED <<shelf, ledger>>

Call(c) ==
    /\ reply[c] = "none"
    /\ Take(c) \/ Confirm(c) \/ Cancel(c) \/ Restock(c) \/ Reply(c)
    /\ UNCHANGED clock

Next ==
    /\ \/ \E c \in Calls : Call(c)
       \/ \E id \in Ids : Expire(id) /\ UNCHANGED clock
       \/ clock' = clock + 1 /\ UNCHANGED <<shelf, ledger, reply>>
    /\ UNCHANGED ask

Spec == Init /\ [][Next]_<<clock, shelf, ledger, ask, reply>>
=============================================================================
