------------------------------ MODULE Pricing ------------------------------
(***************************************************************************)
(* What a buyer pays: sellers' discount codes and prices, and the review   *)
(* of a checkout that reads both.  POST /checkout/review runs outside any  *)
(* transaction, so prices and codes change between its queries; inside     *)
(* createOrder the same code reads one snapshot.                           *)
(*                                                                         *)
(* A seller has one code here.  Amounts are numbers that make percentages  *)
(* come out even.  discount_used_count and discount_used_by_accounts are   *)
(* never written by the program, so their checks refuse nobody.            *)
(***************************************************************************)
EXTENDS Naturals, FiniteSets, FiniteSetsExt

CONSTANTS
    Shops,          \* sellers, numbered in the order of shop_ids
    Goods,          \* products
    ShopOf,         \* product_seller
    Quantity,       \* of each product in the checkout, 0 if not selected
    WithCode,       \* shops whose discount_id the checkout names
    Prices,         \* prices sellers may set
    Changes,        \* what an update may change: fields and their new values
    NewOffers,      \* what a new code may be
    Editors,        \* calls of sellers about their codes
    Reviews,        \* calls of reviewCheckout
    ShippingFee,    \* SHIPPING_FEE_PER_ITEM
    PricingMaxTime, \* bound on the clock
    MaxRepricings,  \* bound on changes of a price
    NoOffer         \* no code

OfferFields == {"type", "value", "minimum", "start", "end", "appliesTo", "products"}

RuleType ==
    [type : {"percentage", "fixed_amount"}, value : Nat, minimum : Nat, start : Nat, end : Nat,
     appliesTo : {"all", "specific_products"}, products : SUBSET Goods]

OfferType == [rules : RuleType, active : BOOLEAN, deleted : BOOLEAN]

\* A change of some fields, applied to any rules, gives rules.
Fits(change) ==
    LET has(f, S) == f \in DOMAIN change => change[f] \in S IN
    /\ DOMAIN change \subseteq OfferFields /\ DOMAIN change # {}
    /\ has("type", {"percentage", "fixed_amount"})
    /\ has("value", Nat) /\ has("minimum", Nat) /\ has("start", Nat) /\ has("end", Nat)
    /\ has("appliesTo", {"all", "specific_products"})
    /\ has("products", SUBSET Goods)

ASSUME PricingAssumption ==
    /\ IsFiniteSet(Shops) /\ Shops \subseteq Nat /\ Shops # {}
    /\ IsFiniteSet(Goods)
    /\ ShopOf \in [Goods -> Shops]
    /\ Quantity \in [Goods -> Nat]
    /\ WithCode \subseteq Shops
    /\ Prices \subseteq Nat
    /\ \A change \in Changes : Fits(change)
    /\ NewOffers \subseteq RuleType
    /\ ShippingFee \in Nat
    /\ NoOffer \notin OfferType

VARIABLES
    pricingNow,
    price,          \* product_price
    offer,          \* the code of each shop: its rules, discount_status, is_deleted
    editPc,         \* control point of each editor's call
    editShop,       \* its seller
    edit,           \* what it creates or changes
    reviewPc,       \* control point of each review
    reviewShop,     \* the shop it is at
    priced,         \* the prices it read first
    rules,          \* the rules it read for each shop
    repriced,       \* the prices it read again for each shop
    withdrawn,      \* properties only: shops whose code was cancelled or deleted ...
    gone,           \* ... and those of them when a review began
    editing,        \* properties only: shops with overlapping updates of a code
    repricings

codes       == <<offer, editPc, editShop, edit, editing, withdrawn>>
review      == <<reviewPc, reviewShop, priced, rules, repriced, gone>>
pricingVars == <<pricingNow, price, codes, review, repricings>>

-----------------------------------------------------------------------------
(* validateDiscountRules and calculateDiscount *)

\* The rules a stored code must satisfy, whenever it started.
LegalRules(o, s) ==
    /\ o.end > o.start
    /\ o.type = "percentage" => o.value <= 100
    /\ o.appliesTo = "specific_products" => o.products # {}
    /\ \A p \in o.products : ShopOf[p] = s

\* Mutant: only the dates of the merged rules are validated.
ValidDates(o, s, startChanged) == o.end > o.start /\ (startChanged => o.start >= pricingNow)

\* A start date that is newly supplied is not in the past.
ValidRules(o, s, startChanged) == LegalRules(o, s) /\ (startChanged => o.start >= pricingNow)

\* parseDiscountInput, of the fields that are there.
Parses(change) ==
    DOMAIN change \cap {"type", "value"} = {"type", "value"} /\ change.type = "percentage" => change.value <= 100

\* assertDiscountUsable
Usable(o) == o.active /\ o.rules.start <= pricingNow /\ pricingNow <= o.rules.end

Selected(s) == {p \in Goods : ShopOf[p] = s /\ Quantity[p] > 0}

\* sum, as the number of coins it takes to pay each amount.
Coins(amount) == UNION {{x} \X (1..amount[x]) : x \in DOMAIN amount}
SumOf(amount) == Cardinality(Coins(amount))

\* The total of some products by a price list.
Total(P, list) == SumOf([p \in P |-> list[p] * Quantity[p]])

Eligible(o, s) == IF o.appliesTo = "all" THEN Selected(s) ELSE Selected(s) \cap o.products

\* The errors of calculateDiscount.
Applies(o, s, list) ==
    /\ o.minimum > 0 => Total(Selected(s), list) >= o.minimum
    /\ Eligible(o, s) # {}

DiscountAmount(o, s, list) ==
    LET eligibleTotalPrice == Total(Eligible(o, s), list)
        rawDiscount == IF o.type = "percentage" THEN (o.value * eligibleTotalPrice) \div 100 ELSE o.value
    IN Min({rawDiscount, eligibleTotalPrice})

-----------------------------------------------------------------------------
PricingInit ==
    /\ pricingNow = 0
    /\ price \in [Goods -> Prices]
    /\ offer \in [Shops -> {NoOffer} \cup {[active |-> TRUE, deleted |-> FALSE, rules |-> o] : o \in NewOffers}]
    /\ \A s \in Shops : offer[s] # NoOffer => LegalRules(offer[s].rules, s)
    /\ editPc = [e \in Editors |-> "idle"]
    /\ editShop = [e \in Editors |-> CHOOSE s \in Shops : TRUE]
    /\ edit = [e \in Editors |-> NoOffer]
    /\ reviewPc = [r \in Reviews |-> "idle"]
    /\ reviewShop = [r \in Reviews |-> Min(Shops)]
    /\ priced = [r \in Reviews |-> price]
    /\ rules = [r \in Reviews |-> [s \in Shops |-> NoOffer]]
    /\ repriced = [r \in Reviews |-> [s \in Shops |-> price]]
    /\ gone = [r \in Reviews |-> {}]
    /\ editing = {}
    /\ withdrawn = {}
    /\ repricings = 0

PricingTick ==
    /\ pricingNow < PricingMaxTime
    /\ pricingNow' = pricingNow + 1
    /\ UNCHANGED <<price, codes, review, repricings>>

\* updateProduct
Reprice(p) ==
    /\ repricings < MaxRepricings
    /\ repricings' = repricings + 1
    /\ \E amount \in Prices \ {price[p]} : price' = [price EXCEPT ![p] = amount]
    /\ UNCHANGED <<pricingNow, codes, review>>

-----------------------------------------------------------------------------
(* createDiscountCode, updateDiscountCode, cancelDiscountCode, deleteDiscountCode *)

\* sellerDiscountFilter finds it.
Findable(s) == offer[s] # NoOffer /\ ~offer[s].deleted

\* $set
Set(old, change) == [f \in OfferFields |-> IF f \in DOMAIN change THEN change[f] ELSE old[f]]

EditFrom(e, point, s, change) ==
    /\ editPc[e] = "idle"
    /\ editPc' = [editPc EXCEPT ![e] = point]
    /\ editShop' = [editShop EXCEPT ![e] = s]
    /\ edit' = [edit EXCEPT ![e] = change]
    /\ UNCHANGED <<pricingNow, price, offer, withdrawn, review, repricings>>

StartCreate(e, s, new) ==
    /\ Parses(new)
    /\ ValidRules(new, s, TRUE)
    /\ EditFrom(e, "insert", s, new)
    /\ UNCHANGED editing

\* The rules are read, merged with the changes and validated ...
StartUpdate(e, s, change) ==
    /\ Parses(change)
    /\ Findable(s)
    /\ ValidRules(Set(offer[s].rules, change), s, "start" \in DOMAIN change)
    /\ EditFrom(e, "update", s, change)
    /\ editing' = IF \E d \in Editors : editPc[d] = "update" /\ editShop[d] = s
                  THEN editing \cup {s} ELSE editing

EndEdit(e, s, new) ==
    /\ editPc' = [editPc EXCEPT ![e] = "done"]
    /\ offer' = [offer EXCEPT ![s] = new]
    /\ UNCHANGED <<pricingNow, price, editShop, edit, editing, review, repricings>>

\* discountCodeExists, and the unique index behind it: a deleted code counts.
InsertOffer(e) ==
    LET s == editShop[e] IN
    /\ editPc[e] = "insert"
    /\ EndEdit(e, s, IF offer[s] # NoOffer THEN offer[s]
                     ELSE [rules |-> edit[e], active |-> TRUE, deleted |-> FALSE])
    /\ UNCHANGED withdrawn

\* Mutant: the whole document is written back.
StoreUpdate(e) ==
    LET s == editShop[e] IN
    /\ editPc[e] = "update"
    /\ EndEdit(e, s, IF Findable(s)
                     THEN [rules |-> Set(offer[s].rules, edit[e]), active |-> TRUE, deleted |-> FALSE]
                     ELSE offer[s])
    /\ UNCHANGED withdrawn

\* ... and after the products have been counted, only the changed fields are written.
WriteUpdate(e) ==
    LET s == editShop[e] IN
    /\ editPc[e] = "update"
    /\ EndEdit(e, s, IF Findable(s) THEN [offer[s] EXCEPT !.rules = Set(@, edit[e])] ELSE offer[s])
    /\ UNCHANGED withdrawn

\* One conditional update each.
CancelOffer(e, s) ==
    /\ editPc[e] = "idle"
    /\ Findable(s)
    /\ EndEdit(e, s, [offer[s] EXCEPT !.active = FALSE])
    /\ withdrawn' = withdrawn \cup {s}

DeleteOffer(e, s) ==
    /\ editPc[e] = "idle"
    /\ Findable(s)
    /\ EndEdit(e, s, [offer[s] EXCEPT !.deleted = TRUE])
    /\ withdrawn' = withdrawn \cup {s}

-----------------------------------------------------------------------------
(* reviewCheckout *)

ReviewStep(r, from, to) ==
    /\ reviewPc[r] = from
    /\ reviewPc' = [reviewPc EXCEPT ![r] = to]
    /\ UNCHANGED <<pricingNow, price, codes, repricings>>

\* findOwnedCart; carts and stocks are outside, and may end the review.
ReadCart(r) ==
    /\ \E point \in {"products", "refused"} : ReviewStep(r, "idle", point)
    /\ gone' = [gone EXCEPT ![r] = withdrawn]
    /\ UNCHANGED <<reviewShop, priced, rules, repriced>>

\* findProductsForCheckout
ReadPrices(r) ==
    /\ ReviewStep(r, "products", "stocks")
    /\ priced' = [priced EXCEPT ![r] = price]
    /\ UNCHANGED <<reviewShop, rules, repriced, gone>>

ReadStocks(r) ==
    /\ \E point \in {"discount", "refused"} : ReviewStep(r, "stocks", point)
    /\ UNCHANGED <<reviewShop, priced, rules, repriced, gone>>

\* The next shop, or the answer.
Later(r) == {s \in Shops : s > reviewShop[r]}
After(r) == IF Later(r) = {} THEN "done" ELSE "discount"
GoOn(r)  == reviewShop' = IF Later(r) = {} THEN reviewShop ELSE [reviewShop EXCEPT ![r] = Min(Later(r))]

SkipDiscount(r) ==
    /\ reviewShop[r] \notin WithCode
    /\ ReviewStep(r, "discount", After(r))
    /\ GoOn(r)
    /\ UNCHANGED <<priced, rules, repriced, gone>>

\* findApplicableDiscount and assertDiscountUsable
FindDiscount(r) ==
    LET s == reviewShop[r] IN
    /\ s \in WithCode
    /\ IF Findable(s) /\ Usable(offer[s])
       THEN /\ ReviewStep(r, "discount", "price")
            /\ rules' = [rules EXCEPT ![r][s] = offer[s].rules]
       ELSE ReviewStep(r, "discount", "refused") /\ UNCHANGED rules
    /\ UNCHANGED <<reviewShop, priced, repriced, gone>>

\* Mutant: the subtotals are not compared.
PriceAgain(r) ==
    LET s == reviewShop[r] IN
    /\ reviewPc[r] = "price"
    /\ IF Applies(rules[r][s], s, price)
       THEN ReviewStep(r, "price", After(r)) /\ GoOn(r)
       ELSE ReviewStep(r, "price", "refused") /\ UNCHANGED reviewShop
    /\ repriced' = [repriced EXCEPT ![r][s] = price]
    /\ UNCHANGED <<priced, rules, gone>>

\* findSellerProductPrices and calculateDiscount; a changed subtotal is refused.
PriceDiscount(r) ==
    LET s == reviewShop[r] IN
    /\ reviewPc[r] = "price"
    /\ IF /\ Applies(rules[r][s], s, price)
          /\ Total(Selected(s), price) = Total(Selected(s), priced[r])
       THEN ReviewStep(r, "price", After(r)) /\ GoOn(r)
       ELSE ReviewStep(r, "price", "refused") /\ UNCHANGED reviewShop
    /\ repriced' = [repriced EXCEPT ![r][s] = price]
    /\ UNCHANGED <<priced, rules, gone>>

\* What the review answers.
ShopDiscount(r, s) == IF s \in WithCode THEN DiscountAmount(rules[r][s], s, repriced[r][s]) ELSE 0
TotalPrice(r)    == SumOf([s \in Shops |-> Total(Selected(s), priced[r])])
TotalDiscount(r) == SumOf([s \in Shops |-> ShopDiscount(r, s)])
FeeShipping      == SumOf([s \in Shops |-> Cardinality(Selected(s)) * ShippingFee])
TotalCheckout(r) == TotalPrice(r) + FeeShipping - TotalDiscount(r)

-----------------------------------------------------------------------------
EditorCall(e) ==
    \/ InsertOffer(e) \/ WriteUpdate(e)
    \/ \E s \in Shops :
        \/ CancelOffer(e, s) \/ DeleteOffer(e, s)
        \/ \E new \in NewOffers : StartCreate(e, s, new)
        \/ \E change \in Changes : StartUpdate(e, s, change)

ReviewCall(r) ==
    ReadCart(r) \/ ReadPrices(r) \/ ReadStocks(r) \/ SkipDiscount(r) \/ FindDiscount(r) \/ PriceDiscount(r)

PricingNext ==
    \/ PricingTick
    \/ \E p \in Goods : Reprice(p)
    \/ \E e \in Editors : EditorCall(e)
    \/ \E r \in Reviews : ReviewCall(r)

PricingSpec == PricingInit /\ [][PricingNext]_pricingVars

-----------------------------------------------------------------------------
(* Properties *)

\* Stored codes keep the rules their validation enforces on the merged document:
\* only two updates of one code that overlap can break them together.
DiscountLegal ==
    \A s \in Shops \ editing : offer[s] # NoOffer => LegalRules(offer[s].rules, s)

\* A review that is answered never charges less than the shipping, and takes off
\* what the code gives on the very prices it shows, although it read them twice;
\* only a code for specific products may be priced from prices that changed
\* meanwhile without changing the shop's total.
PaidAsShown ==
    \A r \in Reviews : reviewPc[r] = "done" =>
        /\ TotalCheckout(r) >= FeeShipping
        /\ \A s \in WithCode :
            \/ ShopDiscount(r, s) = DiscountAmount(rules[r][s], s, priced[r])
            \/ /\ rules[r][s].appliesTo = "specific_products"
               /\ \E p, q \in Selected(s) : /\ priced[r][p] < repriced[r][s][p]
                                             /\ priced[r][q] > repriced[r][s][q]

\* A code that was cancelled or deleted before a review began is never applied in
\* it, whatever updates were under way.
WithdrawnStays ==
    \A r \in Reviews : reviewPc[r] = "done" => WithCode \cap gone[r] = {}
=============================================================================
