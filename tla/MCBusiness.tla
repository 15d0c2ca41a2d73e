----------------------------- MODULE MCBusiness -----------------------------
(* Accounts, the inbox and prices.  They have no state in common, so each is  *)
(* checked while the others stand still: part says which moves.               *)
EXTENDS Accounts, Inbox, Pricing

CONSTANTS a1, a2, seller, c1, c2, c3, n1, n2, b1, r1, r2, p1, p2, p3

VARIABLE part

-----------------------------------------------------------------------------
(* Accounts: two administrators, a seller, and three calls: a newcomer or the *)
(* seller, somebody who gets in their way, and a second administrator.        *)

MCFounderRole == [f \in Founders |-> IF f = seller THEN "seller" ELSE "admin"]

\* All sign-ups want one e-mail address.
MCEmailOf == [a \in Accounts |-> IF a \in Founders THEN a ELSE c1]

\* A request; operations that need no token, target or role ignore theirs.
R(op, token, target, want) ==
    [op |-> op, token |-> token, target |-> target, want |-> want]

Newcomer == {R("signup", a1, a1, "buyer"), R("register", a1, a1, "buyer")}
Sellers  == {R("product", seller, a1, "buyer"), R("discount", seller, a1, "buyer")}

Anybody  == {R("logout", a1, a1, "buyer"), R("role", a1, a2, "buyer"),
             R("role", a1, seller, "buyer"), R("status", a1, a2, "inactive")}

AboutNewcomer == {R("register", a1, a1, "buyer"), R("login", a1, c1, "buyer"),
                  R("approve", a1, c1, "buyer"), R("role", a1, c1, "admin"),
                  R("role", a1, a1, "buyer")}
AboutSeller   == {R("discount", seller, a1, "buyer"), R("publish", seller, c1, "buyer"),
                  R("ownProfile", seller, a1, "buyer")}

SecondAdmins == {R("role", a2, a1, "seller"), R("role", a2, seller, "buyer"),
                 R("role", a2, seller, "seller")}

MCRequests == Newcomer \cup Sellers \cup Anybody \cup AboutNewcomer \cup AboutSeller \cup SecondAdmins

MCAccountsInit ==
    /\ Init
    /\ \/ request[c1] \in Newcomer /\ request[c2] \in Anybody \cup AboutNewcomer
       \/ request[c1] \in Sellers /\ request[c2] \in Anybody \cup AboutSeller
    /\ request[c3] \in SecondAdmins

-----------------------------------------------------------------------------
(* The inbox: one call pages, counts or marks everything; another one marks   *)
(* everything, the first notification or the broadcast.                       *)

MCInboxInit ==
    /\ InboxInit
    /\ asks[r1] \in {"walk", "count", "all"}
    /\ asks[r2] \in {"all", b1} \/ (asks[r1] = "count" /\ asks[r2] = n1)
    /\ stage[n1] = "stored"
    /\ stage[b1] = "none" => b1 \in forMe

-----------------------------------------------------------------------------
(* Prices: a shop with a code and two products, and one without a code.       *)

MCShopOf   == [p \in Goods |-> IF p = p3 THEN 2 ELSE 1]
MCQuantity == [p \in Goods |-> 1]

MCOffer(type, value, appliesTo, products) ==
    [type |-> type, value |-> value, minimum |-> 0, start |-> 0, end |-> 2,
     appliesTo |-> appliesTo, products |-> products]

MCNewOffers ==
    {MCOffer("percentage", 50, "all", {}),
     [MCOffer("fixed_amount", 150, "specific_products", {p1}) EXCEPT !.minimum = 4]}

\* Each is harmless alone; some two of them are not.
MCChanges ==
    {[type |-> "percentage"], [value |-> 200], [appliesTo |-> "specific_products"],
     [products |-> {}], [start |-> 1], [end |-> 1]}

MCPricingInit ==
    /\ PricingInit
    /\ offer[2] = NoOffer
    /\ price = [p \in Goods |-> IF p = p1 THEN 4 ELSE 2]

-----------------------------------------------------------------------------
MCInit ==
    /\ MCAccountsInit
    /\ MCInboxInit
    /\ MCPricingInit
    /\ part \in {"accounts", "inbox", "pricing"}
    \* What does not move starts in one way only.
    /\ part # "accounts" => /\ request[c1].op = "signup"
                          /\ request[c2].op = "logout"
                          /\ request[c3].target = a1
    /\ part # "inbox" => /\ asks = [c \in Readers |-> "all"]
                       /\ stage = [x \in Items |-> "stored"]
                       /\ at = [x \in Items |-> 0]
                       /\ forMe = Broadcasts
    /\ part # "pricing" => offer = [s \in Shops |-> NoOffer]

MCNext ==
    /\ \/ part = "accounts" /\ Next /\ UNCHANGED <<inboxVars, pricingVars>>
       \/ part = "inbox" /\ InboxNext /\ UNCHANGED <<vars, pricingVars>>
       \/ part = "pricing" /\ PricingNext /\ UNCHANGED <<vars, inboxVars>>
    /\ UNCHANGED part

MCSpec == MCInit /\ [][MCNext]_<<vars, inboxVars, pricingVars, part>>
=============================================================================
