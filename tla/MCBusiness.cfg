\* Three calls about accounts with one fault; pages of one item with one failed
\* write; one review while two updates are made and a price changes twice.
CONSTANTS
    a1 = a1
    a2 = a2
    seller = seller
    c1 = c1
    c2 = c2
    c3 = c3
    n1 = n1
    n2 = n2
    b1 = b1
    r1 = r1
    r2 = r2
    p1 = p1
    p2 = p2
    p3 = p3
    Calls = {c1, c2, c3}
    Founders = {a1, a2, seller}
    FounderRole <- MCFounderRole
    EmailOf <- MCEmailOf
    Requests <- MCRequests
    MaxFaults = 1
    Notes = {n1, n2}
    Broadcasts = {b1}
    Readers = {r1, r2}
    PageLimit = 1
    MaxUnseen = 2
    InboxMaxTime = 2
    InboxMaxFaults = 1
    Shops = {1, 2}
    Goods = {p1, p2, p3}
    ShopOf <- MCShopOf
    Quantity <- MCQuantity
    WithCode = {1}
    Prices = {2, 4}
    Changes <- MCChanges
    NewOffers <- MCNewOffers
    Editors = {e1, e2}
    Reviews = {v}
    ShippingFee = 5
    PricingMaxTime = 1
    MaxRepricings = 2
    NoOffer = NoOffer
SPECIFICATION MCSpec
CHECK_DEADLOCK FALSE
INVARIANTS
    SignUpAllOrNothing AdminRemains BuyerOwnsNothing SellerHasStore ProductHasInventory
    PagesComplete ReadShownRight
    DiscountLegal PaidAsShown WithdrawnStays
PROPERTY ReadStaysRead
