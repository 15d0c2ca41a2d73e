------------------------------ MODULE Accounts ------------------------------
(***************************************************************************)
(* Accounts, their profiles and sessions, and what their owners sell:      *)
(* sign-up with its compensation, login, request authentication, and the   *)
(* calls that change a role, a status, a profile, a product or a discount. *)
(* None of them uses a transaction: each await is a step of its own, any   *)
(* call may fail or crash between two of them, and all of them interleave. *)
(*                                                                         *)
(* A document is named by the call that inserts it: the account, profile   *)
(* and session of a sign-up, the session of a login, the product and the   *)
(* discount code of a seller's call.  Founders were there from the start.  *)
(***************************************************************************)
EXTENDS Naturals, FiniteSets

CONSTANTS
    Calls,
    Founders,       \* accounts that exist, each with a session
    FounderRole,
    EmailOf,        \* of each account, of each sign-up
    Requests,       \* what calls may ask for
    MaxFaults       \* bound on crashes and database errors

Accounts == Founders \cup Calls
Roles    == {"buyer", "seller", "admin"}
Statuses == {"pending", "active", "inactive"}
SignUps  == {"signup", "register"}
Managing == {"role", "status", "approve"}
Selling  == {"product", "publish", "discount"}
Authenticated == Managing \cup Selling \cup {"ownProfile", "logout"}

\* token: the session a request presents; target: the account, or the call
\* whose product, it is about; want: the new role or status.
RequestType ==
    [op : SignUps \cup {"login"} \cup Authenticated, token : Accounts,
     target : Accounts, want : Roles \cup Statuses]

ASSUME AccountsAssumption ==
    /\ Founders \cap Calls = {}
    /\ FounderRole \in [Founders -> Roles]
    /\ Requests \subseteq RequestType
    /\ \A r \in Requests : r.op = "status" => r.want \in {"active", "inactive"}
    /\ \A r \in Requests : r.op = "role" => r.want \in Roles
    /\ \E f \in Founders : FounderRole[f] = "admin"
    /\ MaxFaults \in Nat

VARIABLES
    role,           \* of each account document, "none" if there is none
    status,
    profile,        \* "none", or a profile that is "plain" or has a "store"
    issued,         \* sessions ever created
    live,           \* those that are stored and not revoked
    product,        \* "none", "draft" or "published"
    inventory,      \* products with an inventory document
    discount,       \* discount codes stored
    request,        \* what each call asks for
    pc,             \* control point of each call
    reads,          \* its queries that are still out
    saw,            \* what the others have returned
    undo,           \* deletions its compensation has still to make
    met,            \* proof and properties only: calls it overlapped with
    torn,           \* calls that crashed, or failed beyond their own repair
    faults

documents == <<role, status, profile>>
sessions  == <<issued, live>>
goods     == <<product, inventory, discount>>
locals    == <<reads, saw, undo>>
vars      == <<documents, sessions, goods, request, pc, locals, met, torn, faults>>

Nothing == [session |-> FALSE, actor |-> "none", target |-> "none",
            profile |-> "none", owns |-> FALSE]

Init ==
    /\ role = [a \in Accounts |-> IF a \in Founders THEN FounderRole[a] ELSE "none"]
    /\ status = [a \in Accounts |-> "active"]
    /\ profile = [a \in Accounts |->
                    IF a \notin Founders THEN "none"
                    ELSE IF FounderRole[a] = "buyer" THEN "plain" ELSE "store"]
    /\ issued = Founders
    /\ live = Founders
    /\ product = [c \in Calls |-> "none"]
    /\ inventory = {}
    /\ discount = {}
    /\ request \in [Calls -> Requests]
    /\ pc = [c \in Calls |-> "idle"]
    /\ reads = [c \in Calls |-> {}]
    /\ saw = [c \in Calls |-> Nothing]
    /\ undo = [c \in Calls |-> {}]
    /\ met = [c \in Calls |-> {}]
    /\ torn = {}
    /\ faults = 0

-----------------------------------------------------------------------------
(* Calls and accounts *)

Op(c)     == request[c].op
Want(c)   == request[c].want
Target(c) == IF Op(c) \in SignUps THEN c ELSE request[c].target

OwnerOf(s) == IF s \in Founders THEN s ELSE Target(s)
Actor(c)   == OwnerOf(request[c].token)

Over    == {"idle", "ok", "refused", "dead"}
Running == {c \in Calls : pc[c] \notin Over}

Exists(a)      == role[a] # "none"
ActiveAdmin(a) == role[a] = "admin" /\ status[a] = "active"

Owns(c)     == product[c] # "none" \/ c \in discount
Products(a) == {c \in Calls : product[c] # "none" /\ Actor(c) = a}
Codes(a)    == {c \in discount : Actor(c) = a}

Level == [none |-> 0, buyer |-> 1, seller |-> 2, admin |-> 3]

hasMinimumRole(actual, required) == Level[actual] >= Level[required]

\* requireMinimumRole, by route.
Required(op) ==
    IF op \in Managing THEN "admin" ELSE IF op \in Selling THEN "seller" ELSE "buyer"

Goto(c, point) == pc' = [pc EXCEPT ![c] = point]

\* The call goes on to the given point, or is refused.
Check(c, passes, point) == Goto(c, IF passes THEN point ELSE "refused")

\* The call goes on to the given point, with these queries out.
Query(c, point, queries) ==
    /\ Goto(c, point)
    /\ reads' = [reads EXCEPT ![c] = queries]

\* One of the queries answers.
Answered(c, query, field, value) ==
    /\ query \in reads[c]
    /\ reads' = [reads EXCEPT ![c] = @ \ {query}]
    /\ saw' = [saw EXCEPT ![c][field] = value]
    /\ UNCHANGED <<documents, sessions, goods, request, pc, undo, met, torn, faults>>

-----------------------------------------------------------------------------
(* A request arrives *)

Start(c) ==
    /\ pc[c] = "idle"
    /\ Op(c) \in Authenticated => request[c].token \in issued
    /\ CASE Op(c) \in SignUps       -> Query(c, "exists", {})
         [] Op(c) = "login"         -> Query(c, "find", {})
         [] Op(c) \in Authenticated -> Query(c, "auth", {"session", "account"})
    /\ met' = [d \in Calls |-> IF d = c THEN Running
                               ELSE IF d \in Running THEN met[d] \cup {c} ELSE met[d]]
    /\ UNCHANGED <<documents, sessions, goods, request, saw, undo, torn, faults>>

-----------------------------------------------------------------------------
(* Sign-up and login *)

EmailTaken(c) == \E a \in Accounts : Exists(a) /\ EmailOf[a] = EmailOf[c]

\* AccountModel.exists, before the password is hashed.
CheckEmail(c) ==
    /\ pc[c] = "exists"
    /\ Check(c, ~EmailTaken(c), "account")
    /\ UNCHANGED <<documents, sessions, goods, request, locals, met, torn, faults>>

NewRole(c)   == IF Op(c) = "signup" THEN "buyer" ELSE "seller"
NewStatus(c) == IF Op(c) = "signup" THEN "active" ELSE "pending"

InsertAccount(c) ==
    /\ role' = [role EXCEPT ![c] = NewRole(c)]
    /\ status' = [status EXCEPT ![c] = NewStatus(c)]
    /\ UNCHANGED profile

\* The unique index on email decides.
CreateAccount(c) ==
    /\ pc[c] = "account"
    /\ Check(c, ~EmailTaken(c), "profile")
    /\ IF EmailTaken(c) THEN UNCHANGED documents ELSE InsertAccount(c)
    /\ UNCHANGED <<sessions, goods, request, locals, met, torn, faults>>

InsertProfile(c) ==
    profile' = [profile EXCEPT ![c] = IF Op(c) = "signup" THEN "plain" ELSE "store"]

CreateProfile(c) ==
    /\ pc[c] = "profile"
    /\ InsertProfile(c)
    /\ Goto(c, IF Op(c) = "signup" THEN "session" ELSE "ok")
    /\ UNCHANGED <<role, status, sessions, goods, request, locals, met, torn, faults>>

\* findByEmailForAuthentication, the password and the status.
FindAccount(c) ==
    /\ pc[c] = "find"
    /\ Check(c, Exists(Target(c)) /\ status[Target(c)] = "active", "session")
    /\ UNCHANGED <<documents, sessions, goods, request, locals, met, torn, faults>>

InsertSession(c) ==
    /\ issued' = issued \cup {c}
    /\ live' = live \cup {c}

CreateSession(c) ==
    /\ pc[c] = "session"
    /\ InsertSession(c)
    /\ Goto(c, "ok")
    /\ UNCHANGED <<documents, goods, request, locals, met, torn, faults>>

\* Mutant: only what createAccount has made is deleted.
RollBackAccount(c) ==
    /\ Goto(c, "undo")
    /\ undo' = [undo EXCEPT ![c] = {"profile", "account"}]

\* AuthService.rollback: three deletions at once, each on its own.
RollBack(c) ==
    /\ Goto(c, "undo")
    /\ undo' = [undo EXCEPT ![c] = {"profile", "account", "sessions"}]

Delete(c, part) ==
    /\ role' = IF part = "account" THEN [role EXCEPT ![c] = "none"] ELSE role
    /\ profile' = IF part = "profile" THEN [profile EXCEPT ![c] = "none"] ELSE profile
    /\ live' = IF part = "sessions" THEN {s \in live : OwnerOf(s) # c} ELSE live
    /\ product' = IF part = "product" THEN [product EXCEPT ![c] = "none"] ELSE product
    /\ UNCHANGED <<status, issued, inventory, discount>>

\* One deletion is done; the last one ends the call.
Forget(c, part) ==
    /\ undo' = [undo EXCEPT ![c] = @ \ {part}]
    /\ Goto(c, IF undo[c] = {part} THEN "refused" ELSE "undo")

Undo(c) ==
    /\ pc[c] = "undo"
    /\ \E part \in undo[c] : Delete(c, part) /\ Forget(c, part)
    /\ UNCHANGED <<request, reads, saw, met, torn, faults>>

-----------------------------------------------------------------------------
(* Authentication of a request *)

ReadSession(c) == Answered(c, "session", "session", request[c].token \in live)

\* Mutant: the role is the one the account had when it logged in.
RoleInToken(c) ==
    Answered(c, "account", "actor",
             IF Actor(c) \in Founders THEN FounderRole[Actor(c)] ELSE role[Actor(c)])

ReadAccount(c) ==
    Answered(c, "account", "actor",
             IF Exists(Actor(c)) /\ status[Actor(c)] = "active" THEN role[Actor(c)] ELSE "none")

\* An administrator may not demote or lock itself.
Self(c) ==
    /\ Target(c) = Actor(c)
    /\ \/ Op(c) = "role" /\ Want(c) # "admin"
       \/ Op(c) = "status" /\ Want(c) = "inactive"

Admitted(c) ==
    /\ saw[c].session
    /\ saw[c].actor # "none"
    /\ hasMinimumRole(saw[c].actor, Required(Op(c)))
    /\ ~Self(c)

\* The two answers, the role check, and the start of the handler.
Admit(c) ==
    /\ pc[c] = "auth"
    /\ reads[c] = {}
    /\ IF Admitted(c) /\ Op(c) = "role" THEN Query(c, "load", {"target", "targetProfile"})
       ELSE Check(c, Admitted(c), Op(c)) /\ UNCHANGED reads
    /\ UNCHANGED <<documents, sessions, goods, request, saw, undo, met, torn, faults>>

-----------------------------------------------------------------------------
(* AccountService *)

ReadTarget(c)  == Answered(c, "target", "target", role[Target(c)])
ReadProfile(c) == Answered(c, "targetProfile", "profile", profile[Target(c)])

Loaded(c) == saw[c].target # "none" /\ saw[c].profile # "none"

\* Only an account that is not a buyer yet is checked for seller-owned data.
DecideRole(c) ==
    /\ pc[c] = "load"
    /\ reads[c] = {}
    /\ IF Loaded(c) /\ Want(c) = "buyer" /\ saw[c].target # "buyer"
       THEN Query(c, "owned", {"products", "codes"})
       ELSE Check(c, Loaded(c), "storefront") /\ UNCHANGED reads
    /\ UNCHANGED <<documents, sessions, goods, request, saw, undo, met, torn, faults>>

ReadProducts(c) == Answered(c, "products", "owns", saw[c].owns \/ Products(Target(c)) # {})

\* Mutant: only products count as seller-owned data.
CodesForgotten(c) == Answered(c, "codes", "owns", saw[c].owns)

ReadCodes(c)    == Answered(c, "codes", "owns", saw[c].owns \/ Codes(Target(c)) # {})

\* assertNoSellerOwnedData
DecideOwned(c) ==
    /\ pc[c] = "owned"
    /\ reads[c] = {}
    /\ Check(c, ~saw[c].owns, "storefront")
    /\ UNCHANGED <<documents, sessions, goods, request, locals, met, torn, faults>>

\* Mutant: a new seller is given no store.
StorefrontOfBuyersOnly(c) ==
    IF profile[Target(c)] # "none" /\ Want(c) = "buyer" THEN "plain" ELSE profile[Target(c)]

\* $set or $unset of sellerProfile, for sellers without one and for buyers.
Storefront(c) ==
    IF profile[Target(c)] = "none" THEN "none"
    ELSE IF Want(c) = "seller" /\ saw[c].profile = "plain" THEN "store"
    ELSE IF Want(c) = "buyer" THEN "plain"
    ELSE profile[Target(c)]

\* parseNewSellerProfile refuses a new seller without a store's name.
NoStoreName(c) ==
    /\ pc[c] = "storefront"
    /\ Want(c) = "seller"
    /\ saw[c].profile = "plain"
    /\ Goto(c, "refused")
    /\ UNCHANGED <<documents, sessions, goods, request, locals, met, torn, faults>>

WriteStorefront(c) ==
    /\ pc[c] = "storefront"
    /\ profile' = [profile EXCEPT ![Target(c)] = Storefront(c)]
    /\ Goto(c, "role")
    /\ UNCHANGED <<role, status, sessions, goods, request, locals, met, torn, faults>>

WriteRole(c) ==
    /\ pc[c] = "role"
    /\ role' = IF Exists(Target(c)) THEN [role EXCEPT ![Target(c)] = Want(c)] ELSE role
    /\ Goto(c, "ok")
    /\ UNCHANGED <<status, profile, sessions, goods, request, locals, met, torn, faults>>

Status(c) == IF Op(c) = "approve" THEN "active" ELSE Want(c)

\* updateAccountWithProfile: one findOneAndUpdate with its condition.
WriteStatus(c) ==
    LET matches == \/ pc[c] = "status" /\ Exists(Target(c))
                   \/ /\ pc[c] = "approve"
                      /\ role[Target(c)] = "seller"
                      /\ status[Target(c)] = "pending"
    IN
    /\ pc[c] \in {"status", "approve"}
    /\ status' = IF matches THEN [status EXCEPT ![Target(c)] = Status(c)] ELSE status
    /\ Check(c, matches, "ok")
    /\ UNCHANGED <<role, profile, sessions, goods, request, locals, met, torn, faults>>

\* updateOwnProfile with seller fields: the role is the one authentication read.
WriteOwnProfile(c) ==
    LET matches == hasMinimumRole(saw[c].actor, "seller") /\ profile[Actor(c)] # "none" IN
    /\ pc[c] = "ownProfile"
    /\ profile' = IF matches THEN [profile EXCEPT ![Actor(c)] = "store"] ELSE profile
    /\ Check(c, matches, "ok")
    /\ UNCHANGED <<role, status, sessions, goods, request, locals, met, torn, faults>>

-----------------------------------------------------------------------------
(* Products, discount codes, logout *)

\* createProduct: the product, then its inventory.
InsertProduct(c) ==
    /\ pc[c] = "product"
    /\ product' = [product EXCEPT ![c] = "draft"]
    /\ Goto(c, "inventory")
    /\ UNCHANGED <<documents, sessions, inventory, discount, request, locals, met, torn, faults>>

InsertInventory(c) ==
    /\ pc[c] = "inventory"
    /\ inventory' = inventory \cup {c}
    /\ Goto(c, "ok")
    /\ UNCHANGED <<documents, sessions, product, discount, request, locals, met, torn, faults>>

\* setProductsPublication, of a product of the same seller.
Publish(c) ==
    LET matches == /\ Target(c) \in Calls
                   /\ product[Target(c)] # "none"
                   /\ Actor(Target(c)) = Actor(c)
    IN
    /\ pc[c] = "publish"
    /\ product' = IF matches THEN [product EXCEPT ![Target(c)] = "published"] ELSE product
    /\ Check(c, matches, "ok")
    /\ UNCHANGED <<documents, sessions, inventory, discount, request, locals, met, torn, faults>>

\* Every code of a seller is the same one here: discountCodeExists ...
CheckCode(c) ==
    /\ pc[c] = "discount"
    /\ Check(c, Codes(Actor(c)) = {}, "code")
    /\ UNCHANGED <<documents, sessions, goods, request, locals, met, torn, faults>>

\* ... and the unique index on code and seller.
InsertCode(c) ==
    /\ pc[c] = "code"
    /\ discount' = IF Codes(Actor(c)) = {} THEN discount \cup {c} ELSE discount
    /\ Check(c, Codes(Actor(c)) = {}, "ok")
    /\ UNCHANGED <<documents, sessions, product, inventory, request, locals, met, torn, faults>>

Logout(c) ==
    /\ pc[c] = "logout"
    /\ live' = live \ {request[c].token}
    /\ Goto(c, "ok")
    /\ UNCHANGED <<documents, issued, goods, request, locals, met, torn, faults>>

-----------------------------------------------------------------------------
(* Faults *)

\* What an insert whose answer is lost may have stored nevertheless.
Inserted(c) ==
    CASE pc[c] = "account"   -> ~EmailTaken(c) /\ InsertAccount(c) /\ UNCHANGED <<sessions, goods>>
      [] pc[c] = "profile"   -> InsertProfile(c) /\ UNCHANGED <<role, status, sessions, goods>>
      [] pc[c] = "session"   -> InsertSession(c) /\ UNCHANGED <<documents, goods>>
      [] pc[c] = "product"   -> /\ product' = [product EXCEPT ![c] = "draft"]
                                /\ UNCHANGED <<documents, sessions, inventory, discount>>
      [] pc[c] = "inventory" -> /\ inventory' = inventory \cup {c}
                                /\ UNCHANGED <<documents, sessions, product, discount>>

\* Mutant: createProduct has no compensation.
RepairedSignUp(c) == pc[c] = "profile" \/ (pc[c] = "session" /\ Op(c) = "signup")

\* createdAccountId and createdProduct are set by then, so the catch block repairs.
Repaired(c) == pc[c] \in {"profile", "inventory"} \/ (pc[c] = "session" /\ Op(c) = "signup")

Repair(c) ==
    IF pc[c] = "inventory"
    THEN Goto(c, "undo") /\ undo' = [undo EXCEPT ![c] = {"product"}]
    ELSE RollBack(c)

\* An insert fails: toAccountCreationError after rollback, or the compensation of
\* createProduct.  Without one the call just fails.
InsertFails(c) ==
    /\ pc[c] \in {"account", "profile", "session", "product", "inventory"}
    /\ faults < MaxFaults
    /\ faults' = faults + 1
    /\ \/ /\ UNCHANGED <<documents, sessions, goods>>
          /\ UNCHANGED torn
       \/ /\ Inserted(c)
          /\ torn' = IF Repaired(c) /\ pc[c] # "inventory" THEN torn ELSE torn \cup {c}
    /\ IF Repaired(c) THEN Repair(c) ELSE Goto(c, "refused") /\ UNCHANGED undo
    /\ UNCHANGED <<request, reads, saw, met>>

\* A deletion of the compensation fails: it is logged, or swallowed.
UndoFails(c) ==
    /\ pc[c] = "undo"
    /\ \E part \in undo[c] : Forget(c, part)
    /\ torn' = torn \cup {c}
    /\ UNCHANGED <<documents, sessions, goods, request, reads, saw, met, faults>>

\* The process dies, or a query or an update fails and the error is passed on.
Crash(c) ==
    /\ c \in Running
    /\ faults < MaxFaults
    /\ faults' = faults + 1
    /\ Goto(c, "dead")
    /\ torn' = torn \cup {c}
    /\ UNCHANGED <<documents, sessions, goods, request, locals, met>>

-----------------------------------------------------------------------------
(* Specification *)

Authenticate(c) == ReadSession(c) \/ ReadAccount(c) \/ Admit(c)
SignUp(c) ==
    CheckEmail(c) \/ CreateAccount(c) \/ CreateProfile(c) \/ CreateSession(c) \/ Undo(c)
UpdateRole(c) ==
    \/ ReadTarget(c) \/ ReadProfile(c) \/ DecideRole(c)
    \/ ReadProducts(c) \/ ReadCodes(c) \/ DecideOwned(c)
    \/ NoStoreName(c) \/ WriteStorefront(c) \/ WriteRole(c)
Sell(c) ==
    InsertProduct(c) \/ InsertInventory(c) \/ Publish(c) \/ CheckCode(c) \/ InsertCode(c)
Fail(c) == InsertFails(c) \/ UndoFails(c) \/ Crash(c)

Next == \E c \in Calls :
    \/ Start(c) \/ SignUp(c) \/ FindAccount(c) \/ Authenticate(c) \/ UpdateRole(c)
    \/ WriteStatus(c) \/ WriteOwnProfile(c) \/ Sell(c) \/ Logout(c) \/ Fail(c)

Spec == Init /\ [][Next]_vars

-----------------------------------------------------------------------------
(* Properties *)

\* A sign-up that succeeded has its account and profile.  One that was refused has
\* left nothing behind, unless its own repair failed: no account that keeps the
\* e-mail taken, no profile, and no session but that of a login that overlapped it.
SignUpAllOrNothing ==
    \A c \in Calls \ torn : Op(c) \in SignUps =>
        /\ pc[c] = "ok" => Exists(c) /\ profile[c] # "none"
        /\ pc[c] = "refused" =>
            /\ ~Exists(c) /\ profile[c] = "none"
            /\ \A s \in live : OwnerOf(s) = c => s \in met[c]

\* A call that can take an account's administrator rights away.
Unseats(c) == Op(c) \in {"role", "status"} \cup SignUps

\* The check that an administrator does not remove itself suffices as long as calls
\* do not overlap: the last active administrator is lost only if two of the calls
\* that can take rights away, or compensate a sign-up, ran at the same time.
AdminRemains ==
    \/ \E a \in Accounts : ActiveAdmin(a)
    \/ \E c, d \in Calls : d \in met[c] /\ Unseats(c) /\ Unseats(d)

\* What sellers own has a seller: only a change of role that overlapped the call
\* that stored a product or a code can leave it with a buyer.
BuyerOwnsNothing ==
    \A c \in Calls : Owns(c) /\ role[Actor(c)] = "buyer" =>
        \E d \in met[c] : Op(d) = "role" /\ Target(d) = Actor(c)

\* A seller has a store profile, except while a sign-up or change of role is at
\* work, when one was cut short, or when another change of role overlapped it.
SellerHasStore ==
    \A a \in Accounts : role[a] = "seller" /\ profile[a] # "store" =>
        \E c \in Calls :
            /\ Op(c) \in SignUps \cup {"role"}
            /\ Target(c) = a
            /\ \/ c \in Running \cup torn
               \/ \E d \in met[c] : Op(d) = "role" /\ Target(d) = a

\* A product has its inventory, except while it is being created, or when its
\* creation crashed or failed beyond its own repair.
ProductHasInventory ==
    \A c \in Calls : product[c] # "none" => c \in inventory \cup Running \cup torn
=============================================================================
