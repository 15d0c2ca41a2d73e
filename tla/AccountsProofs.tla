--------------------------- MODULE AccountsProofs ---------------------------
(***************************************************************************)
(* Sign-ups, administrators, sellers and what they sell, for every set of  *)
(* calls, founders and requests and every bound on the faults.             *)
(*                                                                         *)
(* The calls use no transaction, so the properties hold up to the calls    *)
(* that overlapped with the one in question, met.  The invariant says for  *)
(* each call, between two of its awaits, what its queries have returned    *)
(* that is still so, and what it has written that its compensation still   *)
(* has to undo.                                                            *)
(***************************************************************************)
EXTENDS Accounts, TLAPS

Queries == {"session", "account", "target", "targetProfile", "products", "codes"}
Parts   == {"profile", "account", "sessions", "product"}
Stores  == {"none", "plain", "store"}
Points  == Over \cup SignUps \cup {"login"} \cup Authenticated \cup {"exists", "account", "profile", "session", "find", "auth",
                "load", "owned", "storefront", "inventory", "code", "undo"}

SawType ==
    [session : BOOLEAN, actor : Roles \cup {"none"}, target : Roles \cup {"none"},
     profile : Stores, owns : BOOLEAN]

AccountsType ==
    /\ role \in [Accounts -> Roles \cup {"none"}]
    /\ status \in [Accounts -> Statuses]
    /\ profile \in [Accounts -> Stores]
    /\ issued \in SUBSET Accounts
    /\ live \in SUBSET Accounts
    /\ product \in [Calls -> {"none", "draft", "published"}]
    /\ inventory \in SUBSET Calls
    /\ discount \in SUBSET Calls
    /\ request \in [Calls -> Requests]
    /\ pc \in [Calls -> Points]
    /\ reads \in [Calls -> SUBSET Queries]
    /\ saw \in [Calls -> SawType]
    /\ undo \in [Calls -> SUBSET Parts]
    /\ met \in [Calls -> SUBSET Calls]
    /\ torn \in SUBSET Calls

-----------------------------------------------------------------------------
(* Where a call may be *)

\* The operations whose calls pass each point.
Routes ==
    [exists |-> SignUps, account |-> SignUps, profile |-> SignUps,
     session |-> {"signup", "login"}, find |-> {"login"}, auth |-> Authenticated,
     load |-> {"role"}, owned |-> {"role"}, storefront |-> {"role"}, role |-> {"role"},
     status |-> {"status"}, approve |-> {"approve"}, ownProfile |-> {"ownProfile"},
     product |-> {"product"}, inventory |-> {"product"}, publish |-> {"publish"},
     discount |-> {"discount"}, code |-> {"discount"}, logout |-> {"logout"},
     undo |-> SignUps \cup {"product"}]

OnRoute == \A c \in Calls : pc[c] \in Over \/ (pc[c] \in DOMAIN Routes /\ Op(c) \in Routes[pc[c]])

\* The queries that can be out, unless the process died.
Asks(c) ==
    /\ pc[c] = "auth"  => reads[c] \subseteq {"session", "account"}
    /\ pc[c] = "load"  => reads[c] \subseteq {"target", "targetProfile"}
    /\ pc[c] = "owned" => reads[c] \subseteq {"products", "codes"}
    /\ pc[c] \notin {"auth", "load", "owned", "dead"} => reads[c] = {}

Handling == {"load", "owned", "storefront", "role", "status", "approve", "ownProfile",
             "product", "inventory", "publish", "discount", "code", "logout"}

\* Handlers run for requests that were admitted.
Authorised(c) == pc[c] \in Handling => Admitted(c)

\* What a compensation has still to do.
Undoing(c) ==
    pc[c] = "undo" =>
        undo[c] \subseteq IF Op(c) = "product" THEN {"product"} ELSE {"profile", "account", "sessions"}

\* Calls that run together have met.
Meeting ==
    /\ \A c, d \in Running : c # d => d \in met[c]
    /\ \A c \in Calls : pc[c] = "idle" => met[c] = {}

CallInv ==
    /\ OnRoute /\ Meeting
    /\ \A c \in Calls : Asks(c) /\ Authorised(c) /\ Undoing(c)

-----------------------------------------------------------------------------
(* Products and their inventory *)

StockInv ==
    \A c \in Calls \ torn : product[c] # "none" =>
        \/ pc[c] = "inventory"
        \/ pc[c] = "undo" /\ "product" \in undo[c]
        \/ c \in inventory

-----------------------------------------------------------------------------
(* Sign-ups *)

Uncreated(c) == Op(c) \in SignUps /\ pc[c] \in {"idle", "exists", "account"}

Undone(c, part) == pc[c] = "refused" \/ (pc[c] = "undo" /\ part \notin undo[c])

SignUpInv ==
    \A c \in Calls : Op(c) \in SignUps =>
        /\ Uncreated(c) => role[c] = "none" /\ profile[c] = "none"
        /\ pc[c] \in {"profile", "session", "ok"} => role[c] # "none"
        /\ pc[c] \in {"session", "ok"} => profile[c] # "none"
        /\ pc[c] = "dead" => c \in torn
        /\ c \notin torn =>
            /\ Undone(c, "account") => role[c] = "none"
            /\ Undone(c, "profile") => profile[c] = "none"

\* A login found the account of a sign-up that has succeeded or met it.
Found(s) ==
    (pc[s] = "session" \/ s \in live) /\ Target(s) \in Calls /\ Op(Target(s)) \in SignUps =>
        (s \in met[Target(s)] \/ pc[Target(s)] = "ok" \/ Target(s) \in torn)

\* A sign-up's own session.
OwnSession(c) ==
    c \in live => pc[c] = "ok" \/ c \in torn \/ (pc[c] = "undo" /\ "sessions" \in undo[c])

SessionInv ==
    /\ \A s \in Calls : Op(s) = "login" => Found(s)
    /\ \A c \in Calls : Op(c) \in SignUps => OwnSession(c)
    /\ \A s \in live \cap Calls : Op(s) \in SignUps \cup {"login"}

-----------------------------------------------------------------------------
(* Sellers and their stores *)

Moulds(c, a) == Op(c) \in SignUps \cup {"role"} /\ Target(c) = a

Quiet(a) ==
    \A c \in Calls : Moulds(c, a) =>
        /\ c \notin torn
        /\ \A d \in met[c] : ~(Op(d) = "role" /\ Target(d) = a)

\* The call is between the two writes that make a seller.
Halfway(c) ==
    \/ Op(c) \in SignUps /\ pc[c] \in {"profile", "undo"}
    \/ Op(c) = "role" /\ pc[c] = "role"

SawStore(c) ==
    /\ saw[c].profile = "store" => profile[Target(c)] = "store"
    /\ saw[c].profile # "none" => profile[Target(c)] # "none"

StoreInv ==
    \A a \in Accounts : Quiet(a) =>
        /\ role[a] = "seller" /\ profile[a] # "store" =>
              \E c \in Calls : Target(c) = a /\ Halfway(c)
        /\ \A c \in Calls : Op(c) \in SignUps /\ Target(c) = a =>
              (pc[c] \in {"profile", "session"} => role[a] = NewRole(c))
        /\ \A c \in Calls : Op(c) = "role" /\ Target(c) = a =>
              /\ pc[c] = "load" /\ "targetProfile" \notin reads[c] => SawStore(c)
              /\ pc[c] \in {"owned", "storefront"} => SawStore(c) /\ saw[c].profile # "none"
              /\ pc[c] = "role" /\ Want(c) = "seller" => profile[a] = "store"

-----------------------------------------------------------------------------
(* What sellers own *)

Exempt(c) == \E d \in met[c] : Op(d) = "role" /\ Target(d) = Actor(c)

Rightly(a) == \A c \in Calls : Owns(c) /\ Actor(c) = a => Exempt(c)

IsSeller(c) ==
    \/ Owns(c)
    \/ pc[c] \in {"auth", "product", "inventory", "discount", "code"} /\ "account" \notin reads[c]
       /\ saw[c].actor \in {"seller", "admin"}

OwnInv ==
    /\ \A c \in Calls : IsSeller(c) /\ role[Actor(c)] = "buyer" => Exempt(c)
    /\ \A c, d \in Calls : Uncreated(d) /\ Actor(c) = d => ~Owns(c) /\ saw[c].actor = "none"
    /\ \A d \in Calls : Op(d) = "role" =>
          /\ pc[d] = "load" /\ "target" \notin reads[d] /\ saw[d].target = "buyer"
                => Rightly(Target(d))
          /\ pc[d] = "owned" /\ "products" \notin reads[d] /\ ~saw[d].owns =>
                \A c \in Calls : product[c] # "none" /\ Actor(c) = Target(d) => Exempt(c)
          /\ pc[d] = "owned" /\ "codes" \notin reads[d] /\ ~saw[d].owns =>
                \A c \in discount : Actor(c) = Target(d) => Exempt(c)
          /\ pc[d] \in {"storefront", "role"} /\ Want(d) = "buyer" => Rightly(Target(d))

-----------------------------------------------------------------------------
(* Administrators *)

Contested == \E c, d \in Calls : d \in met[c] /\ Unseats(c) /\ Unseats(d)

AdminInv ==
    ~Contested =>
        /\ \E a \in Accounts : ActiveAdmin(a)
        /\ \A d \in Running : Op(d) \in {"role", "status"} /\ "account" \notin reads[d]
                              /\ saw[d].actor = "admin" => ActiveAdmin(Actor(d))
        /\ \A c \in Calls : Op(c) \in SignUps /\ pc[c] \in {"profile", "session", "undo"} =>
              role[c] # "admin"

-----------------------------------------------------------------------------
(* Types *)

LEMMA AccountNames ==
    /\ Founders \subseteq Accounts /\ Calls \subseteq Accounts
    /\ \A a \in Accounts : (a \in Founders) <=> (a \notin Calls)
BY AccountsAssumption DEF Accounts

LEMMA RequestNames ==
    ASSUME AccountsType, NEW c \in Calls
    PROVE  /\ request[c] \in Requests /\ request[c] \in RequestType
           /\ Op(c) \in SignUps \cup {"login"} \cup Authenticated
           /\ Want(c) \in Roles \cup Statuses
           /\ Op(c) = "role" => Want(c) \in Roles
           /\ Op(c) = "status" => Want(c) \in {"active", "inactive"}
           /\ Target(c) \in Accounts /\ Actor(c) \in Accounts
           /\ request[c].token \in Accounts
           /\ Op(c) \in SignUps => Target(c) = c
<1>1. request[c] \in Requests /\ request[c] \in RequestType
  BY AccountsAssumption DEF AccountsType
<1>2. /\ request[c].op \in SignUps \cup {"login"} \cup Authenticated
      /\ request[c].token \in Accounts /\ request[c].target \in Accounts
      /\ request[c].want \in Roles \cup Statuses
  BY <1>1 DEF RequestType
<1>3. \A s \in Calls : request[s].target \in Accounts
  BY AccountsAssumption DEF AccountsType, RequestType
<1>4. \A s \in Calls : Target(s) \in Accounts
  BY <1>3, AccountNames DEF Target
<1>5. Actor(c) \in Accounts
  BY <1>2, <1>4, AccountNames DEF Actor, OwnerOf
<1> QED BY <1>1, <1>2, <1>4, <1>5, AccountsAssumption DEF Op, Want, Target

\* Requests never change, nor do the names that depend on them.
LEMMA NamesKept ==
    ASSUME request' = request
    PROVE  /\ \A c : Op(c)' = Op(c) /\ Want(c)' = Want(c) /\ Target(c)' = Target(c)
           /\ \A c : Actor(c)' = Actor(c) /\ OwnerOf(c)' = OwnerOf(c)
BY DEF Op, Want, Target, Actor, OwnerOf

\* What an answer to a query changes: nothing but the call's own view.
LEMMA AnswerChanges ==
    ASSUME AccountsType, NEW c \in Calls, NEW query, NEW field, NEW value,
           Answered(c, query, field, value),
           \/ field = "session" /\ value \in BOOLEAN
           \/ field \in {"actor", "target"} /\ value \in Roles \cup {"none"}
           \/ field = "profile" /\ value \in Stores
           \/ field = "owns" /\ value \in BOOLEAN
    PROVE  /\ saw' \in [Calls -> SawType]
           /\ reads' \in [Calls -> SUBSET Queries]
           /\ \A d \in Calls : d # c => saw'[d] = saw[d] /\ reads'[d] = reads[d]
           /\ query \in reads[c] /\ reads'[c] = reads[c] \ {query}
           /\ saw'[c].session = IF field = "session" THEN value ELSE saw[c].session
           /\ saw'[c].actor = IF field = "actor" THEN value ELSE saw[c].actor
           /\ saw'[c].target = IF field = "target" THEN value ELSE saw[c].target
           /\ saw'[c].profile = IF field = "profile" THEN value ELSE saw[c].profile
           /\ saw'[c].owns = IF field = "owns" THEN value ELSE saw[c].owns
           /\ UNCHANGED <<documents, sessions, goods, request, pc, undo, met, torn, faults>>
<1>1. saw[c] \in SawType /\ saw \in [Calls -> SawType]
  BY DEF AccountsType
<1>2. saw' = [saw EXCEPT ![c] = [saw[c] EXCEPT ![field] = value]]
  BY DEF Answered
<1> DEFINE r == [saw[c] EXCEPT ![field] = value]
<1>3. /\ r \in SawType
      /\ r.session = IF field = "session" THEN value ELSE saw[c].session
      /\ r.actor = IF field = "actor" THEN value ELSE saw[c].actor
      /\ r.target = IF field = "target" THEN value ELSE saw[c].target
      /\ r.profile = IF field = "profile" THEN value ELSE saw[c].profile
      /\ r.owns = IF field = "owns" THEN value ELSE saw[c].owns
  BY <1>1 DEF SawType
<1> HIDE DEF r
<1>4. /\ saw' \in [Calls -> SawType] /\ saw'[c] = r
      /\ \A d \in Calls : d # c => saw'[d] = saw[d]
  BY <1>1, <1>2, <1>3 DEF r
<1>5. /\ reads' \in [Calls -> SUBSET Queries]
      /\ \A d \in Calls : d # c => reads'[d] = reads[d]
      /\ query \in reads[c] /\ reads'[c] = reads[c] \ {query}
  BY DEF Answered, AccountsType
<1> QED BY <1>3, <1>4, <1>5 DEF Answered

Reading(c) ==
    \/ ReadSession(c) \/ ReadAccount(c) \/ ReadTarget(c) \/ ReadProfile(c)
    \/ ReadProducts(c) \/ ReadCodes(c)

\* Steps that store nothing.
Deciding(c) ==
    \/ Start(c) \/ CheckEmail(c) \/ FindAccount(c) \/ Admit(c) \/ DecideRole(c)
    \/ DecideOwned(c) \/ NoStoreName(c) \/ CheckCode(c) \/ UndoFails(c) \/ Crash(c)

Writing(c) ==
    \/ CreateAccount(c) \/ CreateProfile(c) \/ CreateSession(c) \/ Undo(c)
    \/ WriteStorefront(c) \/ WriteRole(c) \/ WriteStatus(c) \/ WriteOwnProfile(c)
    \/ InsertProduct(c) \/ InsertInventory(c) \/ Publish(c) \/ InsertCode(c) \/ Logout(c)
    \/ InsertFails(c)

LEMMA NextSplits ==
    ASSUME Next
    PROVE  \E c \in Calls : Reading(c) \/ Deciding(c) \/ Writing(c)
BY DEF Next, SignUp, Authenticate, UpdateRole, Sell, Fail, Reading, Deciding, Writing

\* Answers to queries.
LEMMA ReadingChanges ==
    ASSUME AccountsType, NEW c \in Calls, Reading(c)
    PROVE  /\ saw' \in [Calls -> SawType]
           /\ reads' \in [Calls -> SUBSET Queries]
           /\ reads[c] # {} /\ \A d \in Calls : reads'[d] \subseteq reads[d]
           /\ \A d \in Calls : d # c => saw'[d] = saw[d] /\ reads'[d] = reads[d]
           /\ UNCHANGED <<documents, sessions, goods, request, pc, undo, met, torn, faults>>
<1>1. /\ role[Actor(c)] \in Roles \cup {"none"} /\ role[Target(c)] \in Roles \cup {"none"}
      /\ profile[Target(c)] \in Stores /\ saw[c].owns \in BOOLEAN
  BY RequestNames DEF AccountsType, SawType
<1>2. CASE ReadSession(c)
  <2>1. (request[c].token \in live) \in BOOLEAN
    OBVIOUS
  <2>2. Answered(c, "session", "session", request[c].token \in live)
    BY <1>2 DEF ReadSession
  <2> HIDE DEF Answered
  <2> QED BY <2>1, <2>2, AnswerChanges
<1>3. CASE ReadAccount(c)
  BY <1>1, <1>3, AnswerChanges DEF ReadAccount
<1>4. CASE ReadTarget(c)
  BY <1>1, <1>4, AnswerChanges DEF ReadTarget
<1>5. CASE ReadProfile(c)
  BY <1>1, <1>5, AnswerChanges DEF ReadProfile
<1>6. CASE ReadProducts(c)
  BY <1>1, <1>6, AnswerChanges DEF ReadProducts
<1>7. CASE ReadCodes(c)
  BY <1>1, <1>7, AnswerChanges DEF ReadCodes
<1> QED BY <1>2, <1>3, <1>4, <1>5, <1>6, <1>7 DEF Reading

\* Steps that decide change the place of their call, and its queries when they ask.
LEMMA DecidingChanges ==
    ASSUME AccountsType, NEW c \in Calls, Deciding(c)
    PROVE  /\ pc' \in [Calls -> Points] /\ reads' \in [Calls -> SUBSET Queries]
           /\ undo' \in [Calls -> SUBSET Parts] /\ met' \in [Calls -> SUBSET Calls]
           /\ torn' \in SUBSET Calls /\ torn \subseteq torn' /\ torn' \subseteq torn \cup {c}
           /\ \A d \in Calls : d # c => pc'[d] = pc[d] /\ reads'[d] = reads[d] /\ undo'[d] = undo[d]
           /\ UNCHANGED <<documents, sessions, goods, request, saw>>
           /\ pc[c] # "idle" => met' = met
<1>1. CASE Start(c)
  <2>0. \E point \in {"exists", "find", "auth"}, queries \in SUBSET {"session", "account"} :
           Query(c, point, queries)
    <3>1. Query(c, "exists", {}) \/ Query(c, "find", {}) \/ Query(c, "auth", {"session", "account"})
      BY <1>1, RequestNames DEF Start
    <3> QED BY <3>1, Zenon
  <2>1. met' \in [Calls -> SUBSET Calls]
    BY <1>1 DEF Start, Running, AccountsType
  <2>2. pc' \in [Calls -> Points] /\ reads' \in [Calls -> SUBSET Queries]
    BY <2>0 DEF Query, Goto, AccountsType, Queries, Points, Over
  <2>3. \A d \in Calls : d # c => pc'[d] = pc[d] /\ reads'[d] = reads[d]
    BY <2>0 DEF Query, Goto, AccountsType
  <2> QED BY <1>1, <2>1, <2>2, <2>3 DEF Start, AccountsType
<1>2. CASE CheckEmail(c)
  BY <1>2 DEF CheckEmail, Check, Goto, locals, AccountsType, Points, Over
<1>3. CASE FindAccount(c)
  BY <1>3 DEF FindAccount, Check, Goto, locals, AccountsType, Points, Over
<1>4. CASE Admit(c)
  <2>1. Op(c) \in Points
    BY RequestNames DEF Points
  <2> QED BY <1>4, <2>1 DEF Admit, Check, Query, Goto, AccountsType, Queries, Points, Over
<1>5. CASE DecideRole(c)
  BY <1>5 DEF DecideRole, Check, Query, Goto, AccountsType, Queries, Points, Over
<1>6. CASE DecideOwned(c)
  BY <1>6 DEF DecideOwned, Check, Goto, locals, AccountsType, Points, Over
<1>7. CASE NoStoreName(c)
  BY <1>7 DEF NoStoreName, Check, Goto, locals, AccountsType, Points, Over
<1>8. CASE CheckCode(c)
  BY <1>8 DEF CheckCode, Check, Goto, locals, AccountsType, Points, Over
<1>9. CASE UndoFails(c)
  BY <1>9 DEF UndoFails, Forget, Goto, AccountsType, Points, Over
<1>10. CASE Crash(c)
  BY <1>10 DEF Crash, Goto, locals, AccountsType, Points, Over
<1> QED
  BY <1>1, <1>2, <1>3, <1>4, <1>5, <1>6, <1>7, <1>8, <1>9, <1>10 DEF Deciding

LEMMA InsertChanges ==
    ASSUME AccountsType, NEW c \in Calls, Inserted(c),
           pc[c] \in {"account", "profile", "session", "product", "inventory"}
    PROVE  /\ role' \in [Accounts -> Roles \cup {"none"}] /\ status' \in [Accounts -> Statuses]
           /\ profile' \in [Accounts -> Stores]
           /\ issued' \in SUBSET Accounts /\ live' \in SUBSET Accounts
           /\ product' \in [Calls -> {"none", "draft", "published"}]
           /\ inventory' \in SUBSET Calls /\ discount' = discount
           /\ \A a \in Accounts : a # c => role'[a] = role[a] /\ status'[a] = status[a]
                                           /\ profile'[a] = profile[a]
           /\ pc[c] = "account" => /\ ~EmailTaken(c)
                                   /\ role'[c] = NewRole(c) /\ UNCHANGED <<profile, sessions, goods>>
           /\ pc[c] = "profile" => /\ profile'[c] = IF Op(c) = "signup" THEN "plain" ELSE "store"
                                   /\ UNCHANGED <<role, status, sessions, goods>>
           /\ pc[c] = "session" => live' = live \cup {c} /\ UNCHANGED <<documents, goods>>
           /\ pc[c] = "product" => /\ product' = [product EXCEPT ![c] = "draft"]
                                   /\ UNCHANGED <<documents, sessions, inventory, discount>>
           /\ pc[c] = "inventory" => /\ inventory' = inventory \cup {c}
                                     /\ UNCHANGED <<documents, sessions, product, discount>>
<1> USE AccountNames DEF AccountsType, documents, sessions, goods
<1>1. CASE pc[c] = "account"
  <2>1. ~EmailTaken(c) /\ InsertAccount(c) /\ UNCHANGED <<sessions, goods>>
    BY <1>1 DEF Inserted
  <2>2. NewRole(c) \in Roles /\ NewStatus(c) \in Statuses
    BY DEF NewRole, NewStatus, Roles, Statuses
  <2> QED BY <1>1, <2>1, <2>2 DEF InsertAccount
<1>2. CASE pc[c] = "profile"
  <2>1. InsertProfile(c) /\ UNCHANGED <<role, status, sessions, goods>>
    BY <1>2 DEF Inserted
  <2> QED BY <1>2, <2>1 DEF InsertProfile, Stores
<1>3. CASE pc[c] = "session"
  <2>1. InsertSession(c) /\ UNCHANGED <<documents, goods>>
    BY <1>3 DEF Inserted
  <2> QED BY <1>3, <2>1 DEF InsertSession
<1>4. CASE pc[c] = "product"
  <2>1. product' = [product EXCEPT ![c] = "draft"] /\ UNCHANGED <<documents, sessions, inventory, discount>>
    BY <1>4 DEF Inserted
  <2> QED BY <1>4, <2>1
<1>5. CASE pc[c] = "inventory"
  <2>1. inventory' = inventory \cup {c} /\ UNCHANGED <<documents, sessions, product, discount>>
    BY <1>5 DEF Inserted
  <2> QED BY <1>5, <2>1
<1> QED BY <1>1, <1>2, <1>3, <1>4, <1>5

\* Steps that store something.
LEMMA WritingChanges ==
    ASSUME AccountsType, OnRoute, NEW c \in Calls, Writing(c)
    PROVE  /\ role' \in [Accounts -> Roles \cup {"none"}] /\ status' \in [Accounts -> Statuses]
           /\ profile' \in [Accounts -> Stores]
           /\ issued' \in SUBSET Accounts /\ live' \in SUBSET Accounts
           /\ product' \in [Calls -> {"none", "draft", "published"}]
           /\ inventory' \in SUBSET Calls /\ discount' \in SUBSET Calls
           /\ pc' \in [Calls -> Points] /\ undo' \in [Calls -> SUBSET Parts]
           /\ torn' \in SUBSET Calls /\ torn \subseteq torn' /\ torn' \subseteq torn \cup {c}
           /\ \A d \in Calls : d # c => pc'[d] = pc[d] /\ undo'[d] = undo[d]
           /\ UNCHANGED <<request, reads, saw, met>>
           /\ pc[c] \in Points \ Over
<1> USE AccountNames DEF AccountsType, Points, Over
<1>1. CASE CreateAccount(c)
  <2>1. NewRole(c) \in Roles /\ NewStatus(c) \in Statuses
    BY DEF NewRole, NewStatus, Roles, Statuses
  <2> QED BY <1>1, <2>1 DEF CreateAccount, InsertAccount, Check, Goto, documents, sessions, goods, locals
<1>2. CASE CreateProfile(c)
  BY <1>2 DEF CreateProfile, InsertProfile, Goto, sessions, goods, locals, Stores
<1>3. CASE CreateSession(c)
  BY <1>3 DEF CreateSession, InsertSession, Goto, documents, goods, locals
<1>4. CASE Undo(c)
  <2>1. PICK part \in undo[c] : Delete(c, part) /\ Forget(c, part)
    BY <1>4 DEF Undo
  <2>2. UNCHANGED <<request, reads, saw, met, torn, faults>> /\ pc[c] = "undo"
    BY <1>4 DEF Undo
  <2>3. /\ role' \in [Accounts -> Roles \cup {"none"}] /\ status' \in [Accounts -> Statuses]
        /\ profile' \in [Accounts -> Stores]
        /\ issued' \in SUBSET Accounts /\ live' \in SUBSET Accounts
        /\ product' \in [Calls -> {"none", "draft", "published"}]
        /\ inventory' \in SUBSET Calls /\ discount' \in SUBSET Calls
    BY <2>1 DEF Delete, Stores
  <2>4. /\ pc' \in [Calls -> Points] /\ undo' \in [Calls -> SUBSET Parts]
        /\ \A d \in Calls : d # c => pc'[d] = pc[d] /\ undo'[d] = undo[d]
    BY <2>1 DEF Forget, Goto
  <2> QED BY <2>2, <2>3, <2>4
<1>5. CASE WriteStorefront(c)
  <2>1. Storefront(c) \in Stores
    BY RequestNames DEF Storefront, Stores
  <2>2. profile' \in [Accounts -> Stores]
    BY <1>5, <2>1 DEF WriteStorefront
  <2> QED BY <1>5, <2>2 DEF WriteStorefront, Goto, sessions, goods, locals, Authenticated, Managing
<1>6. CASE WriteRole(c)
  <2>1. Want(c) \in Roles
    BY <1>6, RequestNames DEF WriteRole, OnRoute, Routes
  <2>2. role' \in [Accounts -> Roles \cup {"none"}]
    BY <1>6, <2>1 DEF WriteRole
  <2> QED BY <1>6, <2>2 DEF WriteRole, Goto, sessions, goods, locals
<1>7. CASE WriteStatus(c)
  <2>1. Status(c) \in Statuses
    BY <1>7, RequestNames DEF WriteStatus, Status, OnRoute, Routes, Statuses
  <2>2. status' \in [Accounts -> Statuses]
    BY <1>7, <2>1 DEF WriteStatus
  <2> QED BY <1>7, <2>2 DEF WriteStatus, Check, Goto, sessions, goods, locals
<1>8. CASE WriteOwnProfile(c)
  BY <1>8, RequestNames DEF WriteOwnProfile, Check, Goto, sessions, goods, locals, Stores
<1>9. CASE InsertProduct(c)
  BY <1>9 DEF InsertProduct, Goto, documents, sessions, locals
<1>10. CASE InsertInventory(c)
  BY <1>10 DEF InsertInventory, Goto, documents, sessions, locals
<1>11. CASE Publish(c)
  BY <1>11 DEF Publish, Check, Goto, documents, sessions, locals
<1>12. CASE InsertCode(c)
  BY <1>12 DEF InsertCode, Check, Goto, documents, sessions, locals
<1>13. CASE Logout(c)
  BY <1>13 DEF Logout, Goto, documents, goods, locals
<1>14. CASE InsertFails(c)
  <2>1. /\ role' \in [Accounts -> Roles \cup {"none"}] /\ status' \in [Accounts -> Statuses]
        /\ profile' \in [Accounts -> Stores]
        /\ issued' \in SUBSET Accounts /\ live' \in SUBSET Accounts
        /\ product' \in [Calls -> {"none", "draft", "published"}]
        /\ inventory' \in SUBSET Calls /\ discount' \in SUBSET Calls
    <3>1. CASE UNCHANGED <<documents, sessions, goods>>
      BY <3>1 DEF documents, sessions, goods
    <3>2. CASE Inserted(c)
      BY <1>14, <3>2, InsertChanges DEF InsertFails
    <3> QED BY <1>14, <3>1, <3>2 DEF InsertFails
  <2>2. /\ pc' \in [Calls -> Points] /\ undo' \in [Calls -> SUBSET Parts]
        /\ \A d \in Calls : d # c => pc'[d] = pc[d] /\ undo'[d] = undo[d]
    BY <1>14 DEF InsertFails, Repair, RollBack, Goto, Parts
  <2>3. torn' \in SUBSET Calls /\ torn \subseteq torn' /\ torn' \subseteq torn \cup {c}
    BY <1>14 DEF InsertFails
  <2>4. UNCHANGED <<request, reads, saw, met>> /\ pc[c] \in Points \ Over
    BY <1>14 DEF InsertFails
  <2> QED BY <2>1, <2>2, <2>3, <2>4
<1> QED
  BY <1>1, <1>2, <1>3, <1>4, <1>5, <1>6, <1>7, <1>8, <1>9, <1>10, <1>11, <1>12, <1>13, <1>14
  DEF Writing

-----------------------------------------------------------------------------
(* The places of the calls *)

Step(c) == Reading(c) \/ Deciding(c) \/ Writing(c)

\* A step changes the place and the view of its own call only.
LEMMA StepChanges ==
    ASSUME AccountsType, OnRoute, Meeting, NEW c \in Calls, Step(c)
    PROVE  /\ AccountsType'
           /\ request' = request
           /\ torn \subseteq torn' /\ torn' \subseteq torn \cup {c}
           /\ \A d \in Calls : d # c => /\ pc'[d] = pc[d] /\ reads'[d] = reads[d]
                                        /\ saw'[d] = saw[d] /\ undo'[d] = undo[d]
           /\ \A d \in Calls : met[d] \subseteq met'[d]
<1> USE DEF documents, sessions, goods
<1>1. CASE Reading(c)
  <2>1. UNCHANGED <<documents, sessions, goods, request, pc, undo, met, torn, faults>>
    BY <1>1, ReadingChanges
  <2>2. /\ saw' \in [Calls -> SawType] /\ reads' \in [Calls -> SUBSET Queries]
        /\ \A d \in Calls : d # c => saw'[d] = saw[d] /\ reads'[d] = reads[d]
    BY <1>1, ReadingChanges
  <2> QED BY <2>1, <2>2 DEF AccountsType
<1>2. CASE Deciding(c)
  <2>1. /\ pc' \in [Calls -> Points] /\ reads' \in [Calls -> SUBSET Queries]
        /\ undo' \in [Calls -> SUBSET Parts] /\ met' \in [Calls -> SUBSET Calls]
        /\ torn' \in SUBSET Calls /\ torn \subseteq torn' /\ torn' \subseteq torn \cup {c}
        /\ \A d \in Calls : d # c => pc'[d] = pc[d] /\ reads'[d] = reads[d] /\ undo'[d] = undo[d]
        /\ UNCHANGED <<documents, sessions, goods, request, saw>>
        /\ pc[c] # "idle" => met' = met
    BY <1>2, DecidingChanges
  <2>2. \A d \in Calls : met[d] \subseteq met'[d]
    <3>1. CASE Start(c)
      BY <3>1 DEF Start, Meeting, AccountsType
    <3>2. CASE ~Start(c)
      <4>1. pc[c] # "idle"
        BY <1>2, <3>2 DEF Deciding, CheckEmail, FindAccount, Admit, DecideRole, DecideOwned,
                          NoStoreName, CheckCode, UndoFails, Crash, Running, Over
      <4> QED BY <2>1, <4>1
    <3> QED BY <3>1, <3>2
  <2> QED BY <2>1, <2>2 DEF AccountsType
<1>3. CASE Writing(c)
  <2>1. /\ role' \in [Accounts -> Roles \cup {"none"}] /\ status' \in [Accounts -> Statuses]
        /\ profile' \in [Accounts -> Stores]
        /\ issued' \in SUBSET Accounts /\ live' \in SUBSET Accounts
        /\ product' \in [Calls -> {"none", "draft", "published"}]
        /\ inventory' \in SUBSET Calls /\ discount' \in SUBSET Calls
        /\ pc' \in [Calls -> Points] /\ undo' \in [Calls -> SUBSET Parts]
        /\ torn' \in SUBSET Calls /\ torn \subseteq torn' /\ torn' \subseteq torn \cup {c}
        /\ \A d \in Calls : d # c => pc'[d] = pc[d] /\ undo'[d] = undo[d]
        /\ UNCHANGED <<request, reads, saw, met>>
    BY <1>3, WritingChanges
  <2> QED BY <2>1 DEF AccountsType
<1> QED BY <1>1, <1>2, <1>3 DEF Step

\* The answer to each query, and what it says.
LEMMA ReadingAnswers ==
    ASSUME AccountsType, NEW c \in Calls, Reading(c)
    PROVE  \E query \in reads[c] :
              /\ reads'[c] = reads[c] \ {query}
              /\ query = "session" \/ saw'[c].session = saw[c].session
              /\ IF query = "account"
                 THEN saw'[c].actor \in {role[Actor(c)], "none"} /\
                      (saw'[c].actor # "none" => Exists(Actor(c)) /\ status[Actor(c)] = "active")
                 ELSE saw'[c].actor = saw[c].actor
              /\ saw'[c].target = IF query = "target" THEN role[Target(c)] ELSE saw[c].target
              /\ saw'[c].profile = IF query = "targetProfile" THEN profile[Target(c)]
                                                              ELSE saw[c].profile
              /\ CASE query = "products" -> ~saw'[c].owns => ~saw[c].owns /\ Products(Target(c)) = {}
                   [] query = "codes" -> ~saw'[c].owns => ~saw[c].owns /\ Codes(Target(c)) = {}
                   [] OTHER -> saw'[c].owns = saw[c].owns
<1>1. /\ role[Actor(c)] \in Roles \cup {"none"} /\ role[Target(c)] \in Roles \cup {"none"}
      /\ profile[Target(c)] \in Stores /\ saw[c].owns \in BOOLEAN
  BY RequestNames DEF AccountsType, SawType
<1>2. CASE ReadSession(c)
  <2>1. (request[c].token \in live) \in BOOLEAN
    OBVIOUS
  <2>2. Answered(c, "session", "session", request[c].token \in live)
    BY <1>2 DEF ReadSession
  <2>3. /\ "session" \in reads[c] /\ reads'[c] = reads[c] \ {"session"}
        /\ saw'[c].actor = saw[c].actor /\ saw'[c].target = saw[c].target
        /\ saw'[c].profile = saw[c].profile /\ saw'[c].owns = saw[c].owns
    BY <2>1, <2>2, AnswerChanges
  <2> QED BY <2>3
<1>3. CASE ReadAccount(c)
  <2>1. /\ "account" \in reads[c] /\ reads'[c] = reads[c] \ {"account"}
        /\ saw'[c].actor = IF Exists(Actor(c)) /\ status[Actor(c)] = "active"
                           THEN role[Actor(c)] ELSE "none"
        /\ saw'[c].session = saw[c].session /\ saw'[c].target = saw[c].target
        /\ saw'[c].profile = saw[c].profile /\ saw'[c].owns = saw[c].owns
    BY <1>1, <1>3, AnswerChanges DEF ReadAccount
  <2> QED BY <2>1
<1>4. CASE ReadTarget(c)
  <2>1. /\ "target" \in reads[c] /\ reads'[c] = reads[c] \ {"target"}
        /\ saw'[c].actor = saw[c].actor
        /\ saw'[c].session = saw[c].session /\ saw'[c].target = role[Target(c)]
        /\ saw'[c].profile = saw[c].profile /\ saw'[c].owns = saw[c].owns
    BY <1>1, <1>4, AnswerChanges DEF ReadTarget
  <2> QED BY <2>1
<1>5. CASE ReadProfile(c)
  <2>1. /\ "targetProfile" \in reads[c] /\ reads'[c] = reads[c] \ {"targetProfile"}
        /\ saw'[c].actor = saw[c].actor
        /\ saw'[c].session = saw[c].session /\ saw'[c].target = saw[c].target
        /\ saw'[c].profile = profile[Target(c)] /\ saw'[c].owns = saw[c].owns
    BY <1>1, <1>5, AnswerChanges DEF ReadProfile
  <2> QED BY <2>1
<1>6. CASE ReadProducts(c)
  <2>1. /\ "products" \in reads[c] /\ reads'[c] = reads[c] \ {"products"}
        /\ saw'[c].actor = saw[c].actor
        /\ saw'[c].session = saw[c].session /\ saw'[c].target = saw[c].target
        /\ saw'[c].profile = saw[c].profile
        /\ saw'[c].owns = (saw[c].owns \/ Products(Target(c)) # {})
    BY <1>1, <1>6, AnswerChanges DEF ReadProducts
  <2> QED BY <1>1, <2>1
<1>7. CASE ReadCodes(c)
  <2>1. /\ "codes" \in reads[c] /\ reads'[c] = reads[c] \ {"codes"}
        /\ saw'[c].actor = saw[c].actor
        /\ saw'[c].session = saw[c].session /\ saw'[c].target = saw[c].target
        /\ saw'[c].profile = saw[c].profile
        /\ saw'[c].owns = (saw[c].owns \/ Codes(Target(c)) # {})
    BY <1>1, <1>7, AnswerChanges DEF ReadCodes
  <2> QED BY <1>1, <2>1
<1> QED BY <1>2, <1>3, <1>4, <1>5, <1>6, <1>7 DEF Reading

\* Requests are admitted for what the account may do.
LEMMA AdmittedKept ==
    ASSUME request' = request, NEW c, saw'[c].session = saw[c].session,
           saw'[c].actor = saw[c].actor
    PROVE  Admitted(c)' <=> Admitted(c)
<1>1. Op(c)' = Op(c) /\ Self(c)' = Self(c)
  BY DEF Op, Self, Target, Actor, OwnerOf, Want
<1> QED BY <1>1 DEF Admitted

LEMMA CallKept ==
    ASSUME request' = request, NEW c \in Calls,
           Asks(c) /\ Authorised(c) /\ Undoing(c),
           pc'[c] = pc[c] \/ (pc[c] = "undo" /\ pc'[c] = "undo"),
           reads'[c] = reads[c], saw'[c] = saw[c], undo'[c] \subseteq undo[c]
    PROVE  (Asks(c) /\ Authorised(c) /\ Undoing(c))'
<1>1. Op(c)' = Op(c)
  BY DEF Op
<1>2. Admitted(c)' <=> Admitted(c)
  BY AdmittedKept
<1> QED BY <1>1, <1>2 DEF Asks, Authorised, Undoing

\* The next place of a call that decides or writes.
LEMMA Places ==
    ASSUME AccountsType, CallInv, NEW c \in Calls, Deciding(c) \/ Writing(c)
    PROVE  /\ pc'[c] \in Over \/ (pc'[c] \in DOMAIN Routes /\ Op(c) \in Routes[pc'[c]])
           /\ Asks(c)' /\ Authorised(c)' /\ Undoing(c)'
<1>1. /\ request' = request /\ Asks(c) /\ Authorised(c) /\ Undoing(c) /\ OnRoute
      /\ saw'[c] = saw[c]
  BY DecidingChanges, WritingChanges DEF CallInv
<1>2. Op(c)' = Op(c) /\ (Admitted(c)' <=> Admitted(c))
  BY <1>1, AdmittedKept DEF Op
<1>3. pc[c] \in Over \/ (pc[c] \in DOMAIN Routes /\ Op(c) \in Routes[pc[c]])
  BY <1>1 DEF OnRoute
<1> USE <1>1, <1>2, <1>3
    DEF AccountsType, Routes, Asks, Authorised, Undoing, Handling, Check, Goto, Query, Over
<1>4. CASE Start(c)
  <2>1. \/ Op(c) \in SignUps /\ Query(c, "exists", {})
        \/ Op(c) = "login" /\ Query(c, "find", {})
        \/ Op(c) \in Authenticated /\ Query(c, "auth", {"session", "account"})
    BY <1>4, RequestNames DEF Start
  <2> QED BY <2>1
<1>5. CASE CheckEmail(c)
  BY <1>5 DEF CheckEmail, locals
<1>6. CASE FindAccount(c)
  BY <1>6 DEF FindAccount, locals
<1>7. CASE Admit(c)
  <2>1. CASE ~Admitted(c)
    BY <1>7, <2>1 DEF Admit
  <2>2. CASE Admitted(c) /\ Op(c) = "role"
    BY <1>7, <2>2 DEF Admit
  <2>3. CASE Admitted(c) /\ Op(c) # "role"
    <3>1. Op(c) \in Authenticated
      BY <1>7 DEF Admit
    <3>2. pc'[c] = Op(c) /\ reads'[c] = {}
      BY <1>7, <2>3 DEF Admit
    <3> QED BY <2>3, <3>1, <3>2 DEF Authenticated, Managing, Selling
  <2> QED BY <2>1, <2>2, <2>3
<1>8. CASE DecideRole(c)
  BY <1>8 DEF DecideRole
<1>9. CASE DecideOwned(c)
  BY <1>9 DEF DecideOwned, locals
<1>10. CASE NoStoreName(c)
  BY <1>10 DEF NoStoreName, locals
<1>11. CASE CheckCode(c)
  BY <1>11 DEF CheckCode, locals
<1>12. CASE UndoFails(c)
  BY <1>12 DEF UndoFails, Forget
<1>13. CASE Crash(c)
  BY <1>13 DEF Crash, locals
<1>14. CASE CreateAccount(c)
  BY <1>14 DEF CreateAccount, locals
<1>15. CASE CreateProfile(c)
  BY <1>15, RequestNames DEF CreateProfile, locals, SignUps
<1>16. CASE CreateSession(c)
  BY <1>16 DEF CreateSession, locals
<1>17. CASE Undo(c)
  <2>1. PICK part \in undo[c] : Forget(c, part)
    BY <1>17 DEF Undo
  <2> QED BY <1>17, <2>1 DEF Undo, Forget
<1>18. CASE WriteStorefront(c)
  BY <1>18 DEF WriteStorefront, locals
<1>19. CASE WriteRole(c)
  BY <1>19 DEF WriteRole, locals
<1>20. CASE WriteStatus(c)
  BY <1>20 DEF WriteStatus, locals
<1>21. CASE WriteOwnProfile(c)
  BY <1>21 DEF WriteOwnProfile, locals
<1>22. CASE InsertProduct(c)
  BY <1>22 DEF InsertProduct, locals
<1>23. CASE InsertInventory(c)
  BY <1>23 DEF InsertInventory, locals
<1>24. CASE Publish(c)
  BY <1>24 DEF Publish, locals
<1>25. CASE InsertCode(c)
  BY <1>25 DEF InsertCode, locals
<1>26. CASE Logout(c)
  BY <1>26 DEF Logout, locals
<1>27. CASE InsertFails(c)
  BY <1>27 DEF InsertFails, Repaired, Repair, RollBack, SignUps
<1> QED
  BY <1>4, <1>5, <1>6, <1>7, <1>8, <1>9, <1>10, <1>11, <1>12, <1>13, <1>14, <1>15, <1>16,
     <1>17, <1>18, <1>19, <1>20, <1>21, <1>22, <1>23, <1>24, <1>25, <1>26, <1>27
  DEF Deciding, Writing

LEMMA MeetingStep ==
    ASSUME AccountsType, Meeting, OnRoute, NEW c \in Calls, Step(c)
    PROVE  Meeting'
<1>1. \A d \in Calls : d # c => pc'[d] = pc[d]
  BY StepChanges
<1>2. CASE Start(c)
  <2>1. \A d \in Calls : met'[d] = IF d = c THEN Running
                                   ELSE IF d \in Running THEN met[d] \cup {c} ELSE met[d]
    BY <1>2 DEF Start
  <2>2. \A d \in Running' : d # c => d \in Running
    BY <1>1 DEF Running
  <2>3. pc'[c] # "idle"
    <3>1. \E point \in {"exists", "find", "auth"} : pc'[c] = point
      BY <1>2, RequestNames DEF Start, Query, Goto, AccountsType
    <3> QED BY <3>1
  <2>4. c \notin Running
    BY <1>2 DEF Start, Running, Over
  <2>5. \A d \in Running : pc[d] # "idle" /\ d \in Calls
    BY DEF Running, Over
  <2>6. ASSUME NEW d \in Running', NEW e \in Running', d # e PROVE e \in met'[d]
    <3>1. d \in Calls /\ e \in Calls
      BY DEF Running
    <3>2. CASE d = c
      BY <2>1, <2>2, <2>6, <3>1, <3>2
    <3>3. CASE d # c /\ e = c
      BY <2>1, <2>2, <3>1, <3>3
    <3>4. CASE d # c /\ e # c
      BY <2>1, <2>2, <2>6, <3>1, <3>4 DEF Meeting
    <3> QED BY <3>2, <3>3, <3>4
  <2>7. ASSUME NEW d \in Calls, pc'[d] = "idle" PROVE met'[d] = {}
    <3>1. d # c /\ d \notin Running
      BY <1>1, <2>3, <2>7 DEF Running, Over
    <3> QED BY <1>1, <2>1, <2>7, <3>1 DEF Meeting
  <2> QED BY <2>6, <2>7 DEF Meeting
<1>3. CASE ~Start(c)
  <2>1. met' = met
    <3>1. CASE Reading(c)
      BY <3>1, ReadingChanges
    <3>2. CASE Deciding(c)
      <4>1. pc[c] # "idle"
        BY <1>3, <3>2 DEF Deciding, CheckEmail, FindAccount, Admit, DecideRole, DecideOwned,
                          NoStoreName, CheckCode, UndoFails, Crash, Running, Over
      <4> QED BY <3>2, <4>1, DecidingChanges
    <3>3. CASE Writing(c)
      BY <3>3, WritingChanges
    <3> QED BY <3>1, <3>2, <3>3 DEF Step
  <2>2. pc[c] \notin Over \/ pc'[c] = pc[c]
    <3>1. CASE Reading(c)
      BY <3>1, ReadingChanges
    <3>2. CASE Deciding(c)
      BY <1>3, <3>2 DEF Deciding, CheckEmail, FindAccount, Admit, DecideRole, DecideOwned,
                        NoStoreName, CheckCode, UndoFails, Crash, Running, Over
    <3>3. CASE Writing(c)
      BY <3>3, WritingChanges
    <3> QED BY <3>1, <3>2, <3>3 DEF Step
  <2>3. pc'[c] # "idle" \/ pc[c] = "idle"
    <3>1. CASE Reading(c)
      BY <3>1, ReadingChanges
    <3>2. CASE Deciding(c)
      <4>1. CASE Admit(c)
        BY <4>1 DEF Admit, Check, Query, Goto, AccountsType, OnRoute, Routes, Over, Authenticated,
                    Managing, Selling
      <4>2. CASE ~Admit(c)
        BY <1>3, <3>2, <4>2 DEF Deciding, CheckEmail, FindAccount, DecideRole, DecideOwned,
              NoStoreName, CheckCode, UndoFails, Crash, Check, Query, Goto, Forget, AccountsType
      <4> QED BY <4>1, <4>2
    <3>3. CASE Writing(c)
      BY <3>3 DEF Writing, CreateAccount, CreateProfile, CreateSession, Undo, WriteStorefront,
            WriteRole, WriteStatus, WriteOwnProfile, InsertProduct, InsertInventory, Publish,
            InsertCode, Logout, InsertFails, Check, Goto, Forget, Repair, RollBack, AccountsType
    <3> QED BY <3>1, <3>2, <3>3 DEF Step
  <2>4. Running' \subseteq Running
    BY <1>1, <2>2 DEF Running
  <2>5. \A d \in Calls : pc'[d] = "idle" => pc[d] = "idle"
    BY <1>1, <2>3
  <2> QED BY <2>1, <2>4, <2>5 DEF Meeting
<1> QED BY <1>2, <1>3

LEMMA CallStep ==
    ASSUME AccountsType, CallInv, NEW c \in Calls, Step(c)
    PROVE  CallInv'
<1>0. OnRoute /\ Meeting
  BY DEF CallInv
<1>1. /\ request' = request
      /\ \A d \in Calls : d # c => /\ pc'[d] = pc[d] /\ reads'[d] = reads[d]
                                   /\ saw'[d] = saw[d] /\ undo'[d] = undo[d]
  BY <1>0, StepChanges
<1>2. ASSUME NEW d \in Calls, d # c PROVE (Asks(d) /\ Authorised(d) /\ Undoing(d))'
  BY <1>1, <1>2, CallKept DEF CallInv
<1>3. /\ pc'[c] \in Over \/ (pc'[c] \in DOMAIN Routes /\ Op(c) \in Routes[pc'[c]])
      /\ (Asks(c) /\ Authorised(c) /\ Undoing(c))'
  <2>1. CASE Deciding(c) \/ Writing(c)
    BY <2>1, Places
  <2>2. CASE Reading(c)
    <3>1. /\ pc' = pc /\ undo' = undo /\ reads[c] # {} /\ reads'[c] \subseteq reads[c]
      BY <2>2, ReadingChanges
    <3>2. Op(c)' = Op(c)
      BY <1>1 DEF Op
    <3>3. Authorised(c)'
      <4> SUFFICES ASSUME pc[c] \in Handling PROVE Admitted(c)'
        BY <3>1 DEF Authorised
      <4>1. "session" \notin reads[c] /\ "account" \notin reads[c]
        BY DEF CallInv, Asks, Handling
      <4>2. saw'[c].session = saw[c].session /\ saw'[c].actor = saw[c].actor
        BY <2>2, <4>1, ReadingAnswers
      <4>3. Admitted(c)' <=> Admitted(c)
        BY <1>1, <4>2, AdmittedKept
      <4> QED BY <4>3 DEF CallInv, Authorised
    <3>4. Asks(c)'
      BY <3>1 DEF CallInv, Asks
    <3>5. Undoing(c)'
      BY <3>1, <3>2 DEF CallInv, Undoing
    <3> QED BY <3>1, <3>3, <3>4, <3>5, <1>0 DEF OnRoute
  <2> QED BY <2>1, <2>2 DEF Step
<1>4. \A d \in Calls : Op(d)' = Op(d)
  BY <1>1 DEF Op
<1>5. OnRoute'
  BY <1>0, <1>1, <1>3, <1>4 DEF OnRoute
<1>6. Meeting'
  BY <1>0, MeetingStep
<1> QED BY <1>2, <1>3, <1>5, <1>6 DEF CallInv

-----------------------------------------------------------------------------
(* Products and their inventory: the steps *)

\* Goods appear where they are inserted, and only a compensation takes them away.
LEMMA GoodsChange ==
    ASSUME AccountsType, CallInv, NEW c \in Calls, Step(c)
    PROVE  /\ \A d \in Calls : d # c => (product'[d] = "none" <=> product[d] = "none")
           /\ inventory \subseteq inventory'
           /\ discount \subseteq discount' /\ discount' \subseteq discount \cup {c}
           /\ product'[c] # "none" /\ product[c] = "none" =>
                 pc[c] = "product" /\ (pc'[c] = "inventory" \/ c \in torn')
           /\ c \in discount' \ discount => pc[c] = "code"
           /\ product'[c] # "none" /\ pc[c] = "inventory" =>
                 c \in inventory' \/ c \in torn' \/ (pc'[c] = "undo" /\ "product" \in undo'[c])
           /\ product'[c] # "none" /\ pc[c] = "undo" /\ "product" \in undo[c] =>
                 c \in torn' \/ (pc'[c] = "undo" /\ "product" \in undo'[c])
<1> USE DEF goods
<1>0. OnRoute
  BY DEF CallInv
<1>1. CASE Reading(c)
  <2>1. UNCHANGED goods /\ reads[c] # {}
    BY <1>1, ReadingChanges
  <2>2. pc[c] \notin {"inventory", "undo"}
    BY <2>1 DEF CallInv, Asks
  <2> QED BY <2>1, <2>2
<1>2. CASE Deciding(c)
  <2>1. UNCHANGED goods
    BY <1>2, DecidingChanges
  <2>2. pc[c] = "inventory" => c \in torn'
    BY <1>2 DEF Deciding, Start, CheckEmail, FindAccount, Admit, DecideRole, DecideOwned,
                NoStoreName, CheckCode, UndoFails, Crash
  <2>3. pc[c] = "undo" => c \in torn'
    BY <1>2 DEF Deciding, Start, CheckEmail, FindAccount, Admit, DecideRole, DecideOwned,
                NoStoreName, CheckCode, UndoFails, Crash
  <2> QED BY <2>1, <2>2, <2>3
<1>3. CASE CreateAccount(c) \/ CreateProfile(c) \/ CreateSession(c) \/ WriteStorefront(c)
           \/ WriteRole(c) \/ WriteStatus(c) \/ WriteOwnProfile(c) \/ Logout(c)
  <2>1. UNCHANGED goods
    BY <1>3 DEF CreateAccount, CreateProfile, CreateSession, WriteStorefront, WriteRole,
                WriteStatus, WriteOwnProfile, Logout
  <2>2. pc[c] \notin {"inventory", "undo"}
    BY <1>3 DEF CreateAccount, CreateProfile, CreateSession, WriteStorefront, WriteRole,
                WriteStatus, WriteOwnProfile, Logout
  <2> QED BY <2>1, <2>2
<1>4. CASE Undo(c)
  <2>1. PICK part \in undo[c] : Delete(c, part) /\ Forget(c, part)
    BY <1>4 DEF Undo
  <2>2. /\ product' = IF part = "product" THEN [product EXCEPT ![c] = "none"] ELSE product
        /\ UNCHANGED <<inventory, discount>> /\ pc[c] = "undo"
        /\ undo'[c] = undo[c] \ {part}
        /\ pc'[c] = IF undo[c] = {part} THEN "refused" ELSE "undo"
    BY <1>4, <2>1 DEF Undo, Delete, Forget, Goto, AccountsType
  <2>3. CASE part = "product"
    BY <2>2, <2>3 DEF AccountsType
  <2>4. CASE part # "product"
    BY <2>2, <2>4
  <2> QED BY <2>3, <2>4
<1>5. CASE InsertProduct(c)
  BY <1>5 DEF InsertProduct, Goto, AccountsType
<1>6. CASE InsertInventory(c)
  BY <1>6 DEF InsertInventory, Goto, AccountsType
<1>7. CASE Publish(c)
  <2>1. \A d \in Calls : product'[d] = "none" <=> product[d] = "none"
    BY <1>7 DEF Publish, AccountsType
  <2> QED BY <1>7, <2>1 DEF Publish
<1>8. CASE InsertCode(c)
  BY <1>8 DEF InsertCode
<1>9. CASE InsertFails(c)
  <2>1. pc[c] = "inventory" => pc'[c] = "undo" /\ "product" \in undo'[c]
    BY <1>9 DEF InsertFails, Repaired, Repair, Goto, AccountsType
  <2>2. CASE UNCHANGED <<documents, sessions, goods>>
    BY <1>9, <2>1, <2>2 DEF InsertFails
  <2>3. CASE Inserted(c) /\ torn' = IF Repaired(c) /\ pc[c] # "inventory" THEN torn ELSE torn \cup {c}
    <3>1. pc[c] \in {"account", "profile", "session", "product", "inventory"}
      BY <1>9 DEF InsertFails
    <3>2. pc[c] \in {"account", "profile", "session"} => UNCHANGED goods
      BY <2>3, <3>1, InsertChanges
    <3>3. pc[c] = "product" => product' = [product EXCEPT ![c] = "draft"]
                               /\ UNCHANGED <<inventory, discount>>
      BY <2>3, <3>1, InsertChanges
    <3>4. pc[c] = "inventory" => inventory' = inventory \cup {c} /\ UNCHANGED <<product, discount>>
      BY <2>3, <3>1, InsertChanges
    <3>5. pc[c] = "product" => c \in torn'
      BY <2>3 DEF Repaired
    <3> QED BY <2>1, <3>1, <3>2, <3>3, <3>4, <3>5 DEF AccountsType
  <2> QED BY <1>9, <2>2, <2>3 DEF InsertFails
<1> QED
  BY <1>1, <1>2, <1>3, <1>4, <1>5, <1>6, <1>7, <1>8, <1>9 DEF Step, Writing

LEMMA StockStep ==
    ASSUME AccountsType, CallInv, StockInv, NEW c \in Calls, Step(c)
    PROVE  StockInv'
<1>1. /\ torn \subseteq torn'
      /\ \A d \in Calls : d # c => pc'[d] = pc[d] /\ undo'[d] = undo[d]
  BY StepChanges DEF CallInv
<1> SUFFICES ASSUME NEW d \in Calls \ torn', product'[d] # "none"
             PROVE  \/ pc'[d] = "inventory"
                    \/ pc'[d] = "undo" /\ "product" \in undo'[d]
                    \/ d \in inventory'
  BY DEF StockInv
<1>2. CASE d # c
  BY <1>1, <1>2, GoodsChange DEF StockInv
<1>3. CASE d = c /\ product[c] = "none"
  BY <1>3, GoodsChange
<1>4. CASE d = c /\ product[c] # "none"
  <2>1. \/ pc[c] = "inventory"
        \/ pc[c] = "undo" /\ "product" \in undo[c]
        \/ c \in inventory
    BY <1>1, <1>4 DEF StockInv
  <2> QED BY <1>4, <2>1, GoodsChange
<1> QED BY <1>2, <1>3, <1>4

-----------------------------------------------------------------------------
(* Documents and sessions: who changes them *)

\* Steps that touch neither documents nor sessions.
LEMMA ReadersStay ==
    ASSUME AccountsType, CallInv, NEW c \in Calls, Reading(c)
    PROVE  /\ pc[c] \in {"auth", "load", "owned", "dead"}
           /\ UNCHANGED <<documents, sessions, goods, request, pc, undo, met, torn, faults>>
<1>1. reads[c] # {} /\ UNCHANGED <<documents, sessions, goods, request, pc, undo, met, torn, faults>>
  BY ReadingChanges
<1>2. pc[c] \in {"auth", "load", "owned", "dead"}
  BY <1>1 DEF CallInv, Asks
<1> QED BY <1>1, <1>2

\* A role is written by a sign-up for its own account and by changes of role.
LEMMA RoleChanges ==
    ASSUME AccountsType, CallInv, NEW c \in Calls, Step(c), NEW a \in Accounts, role'[a] # role[a]
    PROVE  \/ /\ a = c /\ pc[c] = "account" /\ Op(c) \in SignUps
              /\ role[a] = "none" /\ role'[a] = NewRole(c)
              /\ pc'[c] = "profile" \/ c \in torn'
           \/ /\ a = c /\ pc[c] = "undo" /\ Op(c) \in SignUps
              /\ "account" \in undo[c] /\ role'[a] = "none"
           \/ /\ a = Target(c) /\ pc[c] = "role" /\ Op(c) = "role" /\ pc'[c] = "ok"
              /\ role[a] # "none" /\ role'[a] = Want(c) /\ Want(c) \in Roles
<1> USE DEF documents
<1>0. /\ OnRoute
      /\ pc[c] \in Over \/ (pc[c] \in DOMAIN Routes /\ Op(c) \in Routes[pc[c]])
  BY DEF CallInv, OnRoute
<1>1. /\ c \in Accounts /\ role \in [Accounts -> Roles \cup {"none"}]
      /\ pc[c] = "account" => Op(c) \in SignUps
      /\ pc[c] = "role" => Op(c) = "role"
      /\ pc[c] = "undo" => Op(c) \in SignUps \cup {"product"}
  BY <1>0, AccountNames DEF AccountsType, Routes, Over
<1>2. ~Reading(c)
  BY ReadersStay
<1>3. ~Deciding(c)
  BY DecidingChanges
<1>4. CASE CreateAccount(c)
  <2>1. /\ pc[c] = "account" /\ ~EmailTaken(c) /\ pc'[c] = "profile"
        /\ role' = [role EXCEPT ![c] = NewRole(c)]
    BY <1>4 DEF CreateAccount, InsertAccount, Check, Goto, AccountsType
  <2>2. role[c] = "none"
    BY <1>1, <2>1 DEF EmailTaken, Exists
  <2> QED BY <1>1, <2>1, <2>2
<1>5. CASE Undo(c)
  <2>1. PICK part \in undo[c] : Delete(c, part)
    BY <1>5 DEF Undo
  <2>2. part = "account" /\ role' = [role EXCEPT ![c] = "none"] /\ pc[c] = "undo"
    BY <1>5, <2>1 DEF Delete, Undo
  <2>3. Op(c) # "product"
    BY <2>2 DEF CallInv, Undoing
  <2> QED BY <1>1, <2>1, <2>2, <2>3
<1>6. CASE WriteRole(c)
  <2>1. /\ pc[c] = "role" /\ pc'[c] = "ok" /\ Exists(Target(c))
        /\ role' = [role EXCEPT ![Target(c)] = Want(c)]
    BY <1>6 DEF WriteRole, Goto, AccountsType
  <2>2. Target(c) \in Accounts /\ Want(c) \in Roles
    BY <1>1, <2>1, RequestNames
  <2> QED BY <1>1, <2>1, <2>2 DEF Exists
<1>7. CASE InsertFails(c)
  <2>1. Inserted(c) /\ pc[c] \in {"account", "profile", "session", "product", "inventory"}
    BY <1>7 DEF InsertFails
  <2>2. pc[c] = "account" /\ a = c /\ ~EmailTaken(c) /\ role'[c] = NewRole(c)
    BY <2>1, InsertChanges
  <2>3. role[c] = "none"
    BY <1>1, <2>2 DEF EmailTaken, Exists
  <2>4. c \in torn'
    BY <1>7, <2>2 DEF InsertFails, Repaired
  <2> QED BY <1>1, <2>2, <2>3, <2>4
<1>8. ~(CreateProfile(c) \/ CreateSession(c) \/ WriteStorefront(c) \/ WriteStatus(c)
        \/ WriteOwnProfile(c) \/ InsertProduct(c) \/ InsertInventory(c) \/ Publish(c)
        \/ InsertCode(c) \/ Logout(c))
  BY DEF CreateProfile, CreateSession, WriteStorefront, WriteStatus, WriteOwnProfile,
         InsertProduct, InsertInventory, Publish, InsertCode, Logout
<1> QED BY <1>2, <1>3, <1>4, <1>5, <1>6, <1>7, <1>8 DEF Step, Writing

\* A profile is written by a sign-up for its own account, by changes of role and by
\* its owner.
LEMMA ProfileChanges ==
    ASSUME AccountsType, CallInv, NEW c \in Calls, Step(c), NEW a \in Accounts,
           profile'[a] # profile[a]
    PROVE  \/ /\ a = c /\ pc[c] = "profile" /\ Op(c) \in SignUps
              /\ profile'[a] = IF Op(c) = "signup" THEN "plain" ELSE "store"
              /\ \/ pc'[c] = "undo" /\ "profile" \in undo'[c]
                 \/ pc'[c] = IF Op(c) = "signup" THEN "session" ELSE "ok"
           \/ /\ a = c /\ pc[c] = "undo" /\ Op(c) \in SignUps
              /\ "profile" \in undo[c] /\ profile'[a] = "none"
           \/ /\ a = Target(c) /\ pc[c] = "storefront" /\ Op(c) = "role" /\ pc'[c] = "role"
              /\ profile[a] # "none" /\ profile'[a] = Storefront(c)
           \/ /\ a = Actor(c) /\ Op(c) = "ownProfile"
              /\ profile[a] # "none" /\ profile'[a] = "store"
<1> USE DEF documents
<1>0. /\ OnRoute
      /\ pc[c] \in Over \/ (pc[c] \in DOMAIN Routes /\ Op(c) \in Routes[pc[c]])
  BY DEF CallInv, OnRoute
<1>1. /\ c \in Accounts /\ profile \in [Accounts -> Stores]
      /\ pc[c] = "profile" => Op(c) \in SignUps
      /\ pc[c] = "storefront" => Op(c) = "role"
      /\ pc[c] = "ownProfile" => Op(c) = "ownProfile"
      /\ pc[c] = "undo" => Op(c) \in SignUps \cup {"product"}
  BY <1>0, AccountNames DEF AccountsType, Routes, Over
<1>2. ~Reading(c)
  BY ReadersStay
<1>3. ~Deciding(c)
  BY DecidingChanges
<1>4. CASE CreateProfile(c)
  BY <1>1, <1>4 DEF CreateProfile, InsertProfile, Goto, AccountsType
<1>5. CASE Undo(c)
  <2>1. PICK part \in undo[c] : Delete(c, part)
    BY <1>5 DEF Undo
  <2>2. part = "profile" /\ profile' = [profile EXCEPT ![c] = "none"] /\ pc[c] = "undo"
    BY <1>5, <2>1 DEF Delete, Undo
  <2>3. Op(c) # "product"
    BY <2>1, <2>2 DEF CallInv, Undoing
  <2> QED BY <1>1, <2>1, <2>2, <2>3
<1>6. CASE WriteStorefront(c)
  <2>1. /\ pc[c] = "storefront" /\ pc'[c] = "role"
        /\ profile' = [profile EXCEPT ![Target(c)] = Storefront(c)]
    BY <1>6 DEF WriteStorefront, Goto, AccountsType
  <2>2. a = Target(c) /\ profile'[a] = Storefront(c)
    BY <1>1, <2>1
  <2>3. profile[a] # "none"
    BY <2>2 DEF Storefront
  <2> QED BY <1>1, <2>1, <2>2, <2>3
<1>7. CASE WriteOwnProfile(c)
  <2>1. /\ pc[c] = "ownProfile" /\ profile[Actor(c)] # "none"
        /\ profile' = [profile EXCEPT ![Actor(c)] = "store"]
    BY <1>7 DEF WriteOwnProfile
  <2> QED BY <1>1, <2>1
<1>8. CASE InsertFails(c)
  <2>1. Inserted(c) /\ pc[c] \in {"account", "profile", "session", "product", "inventory"}
    BY <1>8 DEF InsertFails
  <2>2. /\ pc[c] = "profile" /\ a = c
        /\ profile'[c] = IF Op(c) = "signup" THEN "plain" ELSE "store"
    BY <2>1, InsertChanges
  <2>3. pc'[c] = "undo" /\ "profile" \in undo'[c]
    BY <1>8, <2>2 DEF InsertFails, Repaired, Repair, RollBack, Goto, AccountsType
  <2> QED BY <1>1, <2>2, <2>3
<1>9. ~(CreateAccount(c) \/ CreateSession(c) \/ WriteRole(c) \/ WriteStatus(c)
        \/ InsertProduct(c) \/ InsertInventory(c) \/ Publish(c) \/ InsertCode(c) \/ Logout(c))
  BY DEF CreateAccount, InsertAccount, CreateSession, WriteRole, WriteStatus,
         InsertProduct, InsertInventory, Publish, InsertCode, Logout
<1> QED BY <1>2, <1>3, <1>4, <1>5, <1>6, <1>7, <1>8, <1>9 DEF Step, Writing

\* A session is stored by its own login or sign-up; a compensation takes away the
\* sign-up's.
LEMMA SessionsChange ==
    ASSUME AccountsType, CallInv, NEW c \in Calls, Step(c)
    PROVE  /\ live' \subseteq live \cup {c}
           /\ c \in live' \ live => pc[c] = "session"
           /\ c \in live' /\ Op(c) \in SignUps /\ pc[c] = "session" =>
                 pc'[c] = "ok" \/ c \in torn' \/ c \in live
                 \/ (pc'[c] = "undo" /\ "sessions" \in undo'[c])
           /\ c \in live' /\ Op(c) \in SignUps /\ pc[c] = "undo" /\ "sessions" \in undo[c] =>
                 c \in torn' \/ (pc'[c] = "undo" /\ "sessions" \in undo'[c])
<1> USE DEF sessions
<1>1. CASE Reading(c)
  BY <1>1, ReadersStay
<1>2. CASE Deciding(c)
  <2>1. UNCHANGED sessions
    BY <1>2, DecidingChanges
  <2>2. pc[c] \in {"session", "undo"} => c \in torn'
    BY <1>2 DEF Deciding, Start, CheckEmail, FindAccount, Admit, DecideRole, DecideOwned,
                NoStoreName, CheckCode, UndoFails, Crash
  <2> QED BY <2>1, <2>2
<1>3. CASE CreateSession(c)
  BY <1>3 DEF CreateSession, InsertSession, Goto, AccountsType
<1>4. CASE Undo(c)
  <2>1. PICK part \in undo[c] : Delete(c, part) /\ Forget(c, part)
    BY <1>4 DEF Undo
  <2>2. /\ live' = IF part = "sessions" THEN {s \in live : OwnerOf(s) # c} ELSE live
        /\ pc[c] = "undo" /\ undo'[c] = undo[c] \ {part}
        /\ pc'[c] = IF undo[c] = {part} THEN "refused" ELSE "undo"
    BY <1>4, <2>1 DEF Undo, Delete, Forget, Goto, AccountsType
  <2>3. Op(c) \in SignUps => OwnerOf(c) = c
    BY RequestNames, AccountNames DEF OwnerOf
  <2>4. CASE part = "sessions"
    BY <2>2, <2>3, <2>4
  <2>5. CASE part # "sessions"
    BY <2>1, <2>2, <2>5
  <2> QED BY <2>4, <2>5
<1>5. CASE Logout(c)
  BY <1>5 DEF Logout
<1>6. CASE InsertFails(c)
  <2>1. Inserted(c) \/ UNCHANGED sessions
    BY <1>6 DEF InsertFails
  <2>2. pc[c] \in {"account", "profile", "session", "product", "inventory"}
    BY <1>6 DEF InsertFails
  <2>3. live' = live \/ (pc[c] = "session" /\ live' = live \cup {c})
    BY <2>1, <2>2, InsertChanges
  <2>4. pc[c] = "session" /\ Op(c) \in SignUps => Op(c) = "signup"
    BY DEF CallInv, OnRoute, Routes, SignUps, Over
  <2>5. pc[c] = "session" /\ Op(c) \in SignUps => pc'[c] = "undo" /\ "sessions" \in undo'[c]
    BY <1>6, <2>4 DEF InsertFails, Repaired, Repair, RollBack, Goto, AccountsType
  <2> QED BY <2>2, <2>3, <2>5
<1>7. CASE Writing(c) /\ ~(CreateSession(c) \/ Undo(c) \/ Logout(c) \/ InsertFails(c))
  <2>1. UNCHANGED sessions /\ pc[c] \notin {"session", "undo"}
    BY <1>7 DEF Writing, CreateAccount, CreateProfile, WriteStorefront, WriteRole, WriteStatus,
                WriteOwnProfile, InsertProduct, InsertInventory, Publish, InsertCode
  <2> QED BY <2>1
<1> QED BY <1>1, <1>2, <1>3, <1>4, <1>5, <1>6, <1>7 DEF Step

-----------------------------------------------------------------------------
(* Sign-ups: the steps *)

\* The stations of a sign-up, backwards.
LEMMA SignUpPlaces ==
    ASSUME AccountsType, CallInv, NEW c \in Calls, Step(c), Op(c) \in SignUps
    PROVE  /\ pc[c] \in Over \cup {"exists", "account", "profile", "session", "undo"}
           /\ pc[c] \in Over \ {"idle"} => pc'[c] = pc[c]
           /\ pc'[c] \in {"idle", "exists", "account"} => pc[c] \in {"idle", "exists", "account"}
           /\ pc'[c] \in {"idle", "exists", "account"} => role' = role /\ profile' = profile
           /\ pc'[c] = "profile" =>
                 \/ pc[c] = "profile"
                 \/ pc[c] = "account" /\ role'[c] = NewRole(c)
           /\ pc'[c] = "session" =>
                 \/ pc[c] = "session"
                 \/ pc[c] = "profile" /\ profile'[c] # "none"
           /\ pc'[c] = "ok" =>
                 \/ pc[c] \in {"session", "ok"}
                 \/ pc[c] = "profile" /\ profile'[c] # "none"
           /\ pc'[c] = "dead" => pc[c] = "dead" \/ c \in torn'
           /\ pc'[c] = "refused" =>
                 \/ c \in torn'
                 \/ pc[c] = "refused"
                 \/ pc[c] \in {"exists", "account"} /\ role' = role /\ profile' = profile
                 \/ \E part \in undo[c] :
                       pc[c] = "undo" /\ Delete(c, part) /\ undo[c] = {part}
           /\ pc'[c] = "undo" => pc[c] \in {"profile", "session", "undo"}
           /\ pc'[c] = "undo" =>
                 \/ c \in torn'
                 \/ pc[c] \in {"profile", "session"} /\ undo'[c] = {"profile", "account", "sessions"}
                 \/ \E part \in undo[c] :
                       pc[c] = "undo" /\ Delete(c, part) /\ undo'[c] = undo[c] \ {part}
<1>0. pc[c] \in Over \cup {"exists", "account", "profile", "session", "undo"}
  BY DEF CallInv, OnRoute, Routes, SignUps, Over, Authenticated, Managing, Selling
<1> USE DEF documents, Goto, AccountsType
<1>1. Reading(c) => pc[c] = "dead" /\ pc'[c] = "dead"
  BY <1>0, ReadersStay DEF Over
<1>2. CASE Start(c)
  <2>1. pc[c] = "idle" /\ pc'[c] = "exists" /\ UNCHANGED documents
    <3>1. Op(c) # "login" /\ Op(c) \notin Authenticated
      BY DEF SignUps, Authenticated, Managing, Selling
    <3> QED BY <1>2, <3>1 DEF Start, Query
  <2> QED BY <2>1 DEF Over
<1>3. CASE CheckEmail(c)
  <2>1. pc[c] = "exists" /\ pc'[c] \in {"account", "refused"} /\ UNCHANGED documents
    BY <1>3 DEF CheckEmail, Check
  <2> QED BY <2>1 DEF Over
<1>4. CASE UndoFails(c) \/ Crash(c)
  <2>1. /\ c \in torn' /\ pc'[c] \in {"undo", "refused", "dead"} /\ pc[c] \notin Over
        /\ pc'[c] = "undo" => pc[c] = "undo"
    BY <1>4 DEF UndoFails, Crash, Forget, Running, Over
  <2> QED BY <1>0, <2>1
<1>5. CASE CreateAccount(c)
  <2>1. pc[c] = "account" /\ pc'[c] \in {"profile", "refused"}
    BY <1>5 DEF CreateAccount, Check
  <2>2. pc'[c] = "profile" => role'[c] = NewRole(c)
    BY <1>5, AccountNames DEF CreateAccount, InsertAccount, Check
  <2>3. pc'[c] = "refused" => role' = role /\ profile' = profile
    BY <1>5 DEF CreateAccount, InsertAccount, Check
  <2> QED BY <2>1, <2>2, <2>3 DEF Over
<1>6. CASE CreateProfile(c)
  BY <1>6, AccountNames DEF CreateProfile, InsertProfile, Over
<1>7. CASE CreateSession(c)
  BY <1>7 DEF CreateSession, Over
<1>8. CASE Undo(c)
  <2>1. PICK part \in undo[c] : Delete(c, part) /\ Forget(c, part)
    BY <1>8 DEF Undo
  <2>2. /\ pc[c] = "undo" /\ undo'[c] = undo[c] \ {part}
        /\ pc'[c] = IF undo[c] = {part} THEN "refused" ELSE "undo"
    BY <1>8, <2>1 DEF Undo, Forget
  <2> QED BY <2>1, <2>2 DEF Over
<1>9. CASE InsertFails(c)
  <2>1. pc[c] \in {"account", "profile", "session"}
    BY <1>0, <1>9 DEF InsertFails, Over
  <2>2. CASE pc[c] = "account"
    <3>1. pc'[c] = "refused"
      BY <1>9, <2>2 DEF InsertFails, Repaired
    <3>2. c \in torn' \/ UNCHANGED documents
      BY <1>9, <2>2 DEF InsertFails, Repaired
    <3> QED BY <2>2, <3>1, <3>2 DEF Over
  <2>3. CASE pc[c] \in {"profile", "session"}
    <3>1. pc[c] = "session" => Op(c) = "signup"
      BY DEF CallInv, OnRoute, Routes, SignUps, Over
    <3>2. pc'[c] = "undo" /\ undo'[c] = {"profile", "account", "sessions"}
      BY <1>9, <2>3, <3>1 DEF InsertFails, Repaired, Repair, RollBack
    <3> QED BY <2>3, <3>2 DEF Over
  <2> QED BY <2>1, <2>2, <2>3
<1>10. \/ Reading(c) \/ Start(c) \/ CheckEmail(c) \/ UndoFails(c) \/ Crash(c) \/ CreateAccount(c)
       \/ CreateProfile(c) \/ CreateSession(c) \/ Undo(c) \/ InsertFails(c)
  <2>1. pc[c] \notin {"find", "auth", "load", "owned", "storefront", "role", "status", "approve",
                      "ownProfile", "product", "inventory", "publish", "discount", "code", "logout"}
    BY <1>0 DEF Over
  <2> QED BY <2>1 DEF Step, Deciding, Writing, FindAccount, Admit, DecideRole, DecideOwned,
         NoStoreName, CheckCode, WriteStorefront, WriteRole, WriteStatus, WriteOwnProfile,
         InsertProduct, InsertInventory, Publish, InsertCode, Logout
<1>11. CASE Reading(c)
  BY <1>1, <1>11 DEF Over
<1> QED BY <1>0, <1>2, <1>3, <1>4, <1>5, <1>6, <1>7, <1>8, <1>9, <1>10, <1>11

\* Nobody else takes a document away, or makes one.
LEMMA OthersKeep ==
    ASSUME AccountsType, CallInv, NEW c \in Calls, Step(c), NEW a \in Accounts,
           a # c \/ pc[c] \notin {"account", "profile", "undo"}
    PROVE  (role'[a] = "none" <=> role[a] = "none") /\ (profile'[a] = "none" <=> profile[a] = "none")
<1>1. role'[a] = "none" <=> role[a] = "none"
  <2>1. CASE role'[a] # role[a]
    <3>1. role[a] # "none" /\ role'[a] \in Roles
      BY <2>1, RoleChanges
    <3> QED BY <3>1 DEF Roles
  <2> QED BY <2>1
<1>2. profile'[a] = "none" <=> profile[a] = "none"
  <2>1. CASE profile'[a] # profile[a]
    <3>1. profile[a] # "none" /\ profile'[a] \in {"store", Storefront(c)}
          /\ (profile'[a] = "store" \/ a = Target(c))
      BY <2>1, ProfileChanges
    <3>2. a = Target(c) => Storefront(c) # "none"
      BY <3>1 DEF Storefront
    <3> QED BY <3>1, <3>2
  <2> QED BY <2>1
<1> QED BY <1>1, <1>2

LEMMA SignUpStep ==
    ASSUME AccountsType, CallInv, SignUpInv, NEW c \in Calls, Step(c)
    PROVE  SignUpInv'
<1>0. OnRoute /\ Meeting
  BY DEF CallInv
<1>1. /\ request' = request /\ torn \subseteq torn'
      /\ \A d \in Calls : d # c => pc'[d] = pc[d] /\ undo'[d] = undo[d]
  BY <1>0, StepChanges
<1>2. \A d \in Calls : Op(d)' = Op(d)
  BY <1>1 DEF Op
<1> SUFFICES ASSUME NEW d \in Calls, Op(d) \in SignUps
             PROVE  /\ pc'[d] \in {"idle", "exists", "account"} =>
                          role'[d] = "none" /\ profile'[d] = "none"
                    /\ pc'[d] \in {"profile", "session", "ok"} => role'[d] # "none"
                    /\ pc'[d] \in {"session", "ok"} => profile'[d] # "none"
                    /\ pc'[d] = "dead" => d \in torn'
                    /\ d \notin torn' =>
                        /\ Undone(d, "account")' => role'[d] = "none"
                        /\ Undone(d, "profile")' => profile'[d] = "none"
  BY <1>2 DEF SignUpInv, Uncreated
<1>3. /\ pc[d] \in {"idle", "exists", "account"} => role[d] = "none" /\ profile[d] = "none"
      /\ pc[d] \in {"profile", "session", "ok"} => role[d] # "none"
      /\ pc[d] \in {"session", "ok"} => profile[d] # "none"
      /\ pc[d] = "dead" => d \in torn
      /\ d \notin torn =>
          /\ Undone(d, "account") => role[d] = "none"
          /\ Undone(d, "profile") => profile[d] = "none"
  BY DEF SignUpInv, Uncreated
<1>4. d \in Accounts
  BY AccountNames
<1>5. CASE d # c
  <2>1. /\ role'[d] = "none" <=> role[d] = "none"
        /\ profile'[d] = "none" <=> profile[d] = "none"
    BY <1>4, <1>5, OthersKeep
  <2> QED BY <1>1, <1>3, <1>5, <2>1 DEF Undone
<1>6. CASE d = c
  <2>1. /\ pc[d] \in Over \cup {"exists", "account", "profile", "session", "undo"}
        /\ pc[d] \in Over \ {"idle"} => pc'[d] = pc[d]
    BY <1>6, SignUpPlaces
  <2>2. pc[d] \notin {"account", "profile", "undo"} =>
           /\ role'[d] = "none" <=> role[d] = "none"
           /\ profile'[d] = "none" <=> profile[d] = "none"
    BY <1>4, <1>6, OthersKeep
  <2>3. role'[d] # role[d] => pc[d] \in {"account", "undo"}
    <3>1. pc[d] # "role"
      BY <2>1 DEF Over
    <3> QED BY <1>4, <1>6, <3>1, RoleChanges
  <2>4. profile'[d] # profile[d] => pc[d] \in {"profile", "undo"}
    <3>1. pc[d] # "storefront" /\ Op(d) # "ownProfile"
      BY <2>1 DEF Over, SignUps
    <3> QED BY <1>4, <1>6, <3>1, ProfileChanges
  <2>5. CASE pc'[d] \in {"idle", "exists", "account"}
    <3>1. pc[d] \in {"idle", "exists", "account"} /\ role' = role /\ profile' = profile
      BY <1>6, <2>5, SignUpPlaces
    <3> QED BY <1>3, <2>5, <3>1 DEF Undone
  <2>6. CASE pc'[d] = "profile"
    <3>1. role'[d] # "none"
      <4>1. CASE pc[d] = "profile"
        BY <1>3, <2>3, <4>1
      <4>2. CASE role'[d] = NewRole(d)
        BY <4>2 DEF NewRole
      <4> QED BY <1>6, <2>6, <4>1, <4>2, SignUpPlaces
    <3> QED BY <2>6, <3>1 DEF Undone
  <2>7. CASE pc'[d] = "session" \/ (pc'[d] = "ok" /\ pc[d] # "ok")
    <3>1. pc[d] \in {"profile", "session"} /\ role'[d] # "none"
      BY <1>3, <1>6, <2>3, <2>7, SignUpPlaces
    <3>2. profile'[d] # "none"
      BY <1>3, <1>6, <2>4, <2>7, SignUpPlaces
    <3> QED BY <2>7, <3>1, <3>2 DEF Undone
  <2>8. CASE pc'[d] = "ok" /\ pc[d] = "ok"
    BY <1>3, <2>3, <2>4, <2>8 DEF Undone
  <2>9. CASE pc'[d] = "dead"
    BY <1>1, <1>3, <1>6, <2>9, SignUpPlaces DEF Undone
  <2>10. CASE pc'[d] \in {"refused", "undo"} /\ d \notin torn'
    <3>1. CASE pc[d] = "refused" /\ pc'[d] = "refused"
      BY <1>1, <1>3, <2>3, <2>4, <2>10, <3>1 DEF Undone
    <3>2. CASE pc[d] \in {"exists", "account"} /\ role' = role /\ profile' = profile
      BY <1>3, <2>10, <3>2
    <3>3. CASE pc'[d] = "undo" /\ undo'[d] = {"profile", "account", "sessions"}
      BY <3>3 DEF Undone
    <3>4. CASE \E part \in undo[d] :
                  /\ pc[d] = "undo" /\ Delete(d, part)
                  /\ \/ pc'[d] = "refused" /\ undo[d] = {part}
                     \/ pc'[d] = "undo" /\ undo'[d] = undo[d] \ {part}
      <4>1. PICK part \in undo[d] :
                  /\ pc[d] = "undo" /\ Delete(d, part)
                  /\ \/ pc'[d] = "refused" /\ undo[d] = {part}
                     \/ pc'[d] = "undo" /\ undo'[d] = undo[d] \ {part}
        BY <3>4
      <4>2. /\ role'[d] = IF part = "account" THEN "none" ELSE role[d]
            /\ profile'[d] = IF part = "profile" THEN "none" ELSE profile[d]
        BY <1>4, <4>1 DEF Delete, AccountsType
      <4>3. /\ Undone(d, "account")' => part = "account" \/ "account" \notin undo[d]
            /\ Undone(d, "profile")' => part = "profile" \/ "profile" \notin undo[d]
        BY <4>1 DEF Undone
      <4> QED BY <1>1, <1>3, <2>10, <4>1, <4>2, <4>3 DEF Undone
    <3> QED BY <1>6, <2>10, <3>1, <3>2, <3>3, <3>4, SignUpPlaces
  <2>11. CASE pc'[d] \in {"refused", "undo"} /\ d \in torn'
    BY <2>11
  <2>12. pc'[d] \in Over \cup {"exists", "account", "profile", "session", "undo"}
    <3>1. CallInv'
      BY CallStep
    <3> QED BY <1>2, <3>1 DEF CallInv, OnRoute, Routes, SignUps, Over, Authenticated, Managing, Selling
  <2> QED BY <2>5, <2>6, <2>7, <2>8, <2>9, <2>10, <2>11, <2>12 DEF Over
<1> QED BY <1>5, <1>6

\* An account that a login finds is there because its sign-up met the login, has
\* succeeded, or has left it behind.
LEMMA FoundWhere ==
    ASSUME AccountsType, CallInv, SignUpInv, NEW s \in Calls, NEW d \in Calls,
           pc[s] = "find", Op(d) \in SignUps, role[d] # "none"
    PROVE  s \in met[d] \/ pc[d] = "ok" \/ d \in torn
<1>1. pc[d] \in Over \cup {"exists", "account", "profile", "session", "undo"}
  BY DEF CallInv, OnRoute, Routes, SignUps, Over, Authenticated, Managing, Selling
<1>2. /\ pc[d] \notin {"idle", "exists", "account"}
      /\ pc[d] = "dead" => d \in torn
      /\ pc[d] = "refused" => d \in torn
  BY DEF SignUpInv, Uncreated, Undone
<1>3. CASE pc[d] \in {"profile", "session", "undo"}
  <2>1. d \in Running /\ s \in Running /\ d # s
    BY <1>3 DEF Running, Over
  <2> QED BY <2>1 DEF CallInv, Meeting
<1> QED BY <1>1, <1>2, <1>3 DEF Over

LEMMA SessionStep ==
    ASSUME AccountsType, CallInv, SignUpInv, SessionInv, NEW c \in Calls, Step(c)
    PROVE  SessionInv'
<1>0. OnRoute /\ Meeting
  BY DEF CallInv
<1>1. /\ request' = request /\ torn \subseteq torn'
      /\ \A d \in Calls : d # c => pc'[d] = pc[d] /\ undo'[d] = undo[d]
      /\ \A d \in Calls : met[d] \subseteq met'[d]
  BY <1>0, StepChanges
<1>2. \A d : Op(d)' = Op(d) /\ Target(d)' = Target(d)
  BY <1>1, NamesKept
<1>3. \A d \in Calls : Op(d) \in SignUps /\ pc[d] = "ok" => pc'[d] = "ok"
  <2> SUFFICES ASSUME NEW d \in Calls, Op(d) \in SignUps, pc[d] = "ok" PROVE pc'[d] = "ok"
    OBVIOUS
  <2>1. CASE d = c
    BY <2>1, SignUpPlaces DEF Over
  <2> QED BY <1>1, <2>1
<1>4. live' \subseteq live \cup {c} /\ (c \in live' \ live => pc[c] = "session")
  BY SessionsChange
<1>5. ASSUME NEW s \in Calls, Op(s) = "login" PROVE Found(s)'
  <2> DEFINE d == Target(s)
  <2> SUFFICES ASSUME pc'[s] = "session" \/ s \in live', d \in Calls, Op(d) \in SignUps
               PROVE  s \in met'[d] \/ pc'[d] = "ok" \/ d \in torn'
    BY <1>2 DEF Found
  <2>1. CASE pc[s] = "session" \/ s \in live
    <3>1. s \in met[d] \/ pc[d] = "ok" \/ d \in torn
      BY <1>5, <2>1 DEF SessionInv, Found
    <3> QED BY <1>1, <1>3, <3>1
  <2>2. CASE ~(pc[s] = "session" \/ s \in live)
    <3>1. s = c /\ pc'[s] = "session"
      BY <1>1, <1>4, <2>2
    <3>2. FindAccount(s)
      <4>1. pc[s] \in Over \cup {"find"}
        BY <1>0, <1>5, <2>2 DEF OnRoute, Routes, SignUps, Over, Authenticated, Managing, Selling
      <4>2. ~Reading(s) \/ pc'[s] = pc[s]
        BY <3>1, ReadersStay
      <4>3. Deciding(s) \/ Writing(s)
        BY <2>2, <3>1, <4>2 DEF Step
      <4>4. ~Writing(s)
        BY <4>1, WritingChanges, <1>0 DEF Writing, CreateAccount, CreateProfile, CreateSession,
              Undo, WriteStorefront, WriteRole, WriteStatus, WriteOwnProfile, InsertProduct,
              InsertInventory, Publish, InsertCode, Logout, InsertFails, Over
      <4>5. ~Start(s)
        <5>1. Op(s) \notin SignUps /\ Op(s) \notin Authenticated
          BY <1>5 DEF SignUps, Authenticated, Managing, Selling
        <5> QED BY <1>5, <3>1, <5>1 DEF Start, Query, Goto, AccountsType
      <4>6. Start(s) \/ FindAccount(s) \/ Crash(s)
        BY <4>1, <4>3, <4>4 DEF Deciding, CheckEmail, Admit, DecideRole, DecideOwned,
              NoStoreName, CheckCode, UndoFails, Over
      <4> QED BY <3>1, <4>5, <4>6 DEF Crash, Goto, AccountsType
    <3>3. pc[s] = "find" /\ role[d] # "none"
      BY <3>1, <3>2 DEF FindAccount, Check, Goto, Exists, AccountsType
    <3>4. s \in met[d] \/ pc[d] = "ok" \/ d \in torn
      BY <3>3, FoundWhere
    <3> QED BY <1>1, <1>3, <3>4
  <2> QED BY <2>1, <2>2
<1>6. ASSUME NEW d \in Calls, Op(d) \in SignUps PROVE OwnSession(d)'
  <2> SUFFICES ASSUME d \in live'
               PROVE  pc'[d] = "ok" \/ d \in torn' \/ (pc'[d] = "undo" /\ "sessions" \in undo'[d])
    BY DEF OwnSession
  <2>1. CASE d # c
    BY <1>1, <1>4, <1>6, <2>1 DEF SessionInv, OwnSession
  <2>2. CASE d = c /\ d \notin live
    BY <1>4, <1>6, <2>2, SessionsChange
  <2>3. CASE d = c /\ d \in live
    <3>1. pc[d] = "ok" \/ d \in torn \/ (pc[d] = "undo" /\ "sessions" \in undo[d])
      BY <1>6, <2>3 DEF SessionInv, OwnSession
    <3>2. CASE pc[d] = "undo" /\ "sessions" \in undo[d]
      BY <1>6, <2>3, <3>2, SessionsChange
    <3> QED BY <1>1, <1>3, <1>6, <3>1, <3>2
  <2> QED BY <2>1, <2>2, <2>3
<1>7. ASSUME NEW s \in live' \cap Calls PROVE Op(s) \in SignUps \cup {"login"}
  <2>1. CASE s \in live
    BY <2>1 DEF SessionInv
  <2>2. CASE s \notin live
    <3>1. s = c /\ pc[c] = "session"
      BY <1>4, <2>2
    <3> QED BY <1>0, <3>1 DEF OnRoute, Routes, SignUps, Over
  <2> QED BY <2>1, <2>2
<1> QED BY <1>2, <1>5, <1>6, <1>7 DEF SessionInv

\* Sessions of an account whose sign-up was repaired are those of logins that met it.
LEMMA NoSessionLeft ==
    ASSUME AccountsType, SignUpInv, SessionInv, NEW c \in Calls, Op(c) \in SignUps,
           c \notin torn, pc[c] = "refused", NEW s \in live, OwnerOf(s) = c
    PROVE  s \in met[c]
<1>1. s \in Calls /\ Target(s) = c
  BY AccountNames DEF OwnerOf, AccountsType
<1>2. s # c
  BY DEF SessionInv, OwnSession
<1>3. Op(s) = "login"
  <2>1. Op(s) \in SignUps \cup {"login"}
    BY <1>1 DEF SessionInv
  <2> QED BY <1>1, <1>2, <2>1, RequestNames
<1> QED BY <1>1, <1>3 DEF SessionInv, Found

-----------------------------------------------------------------------------
(* Sellers and their stores: the steps *)

\* The stations of a change of role, backwards.
LEMMA RolePlaces ==
    ASSUME AccountsType, CallInv, NEW c \in Calls, Step(c), Op(c) = "role"
    PROVE  /\ pc[c] \in Over \cup {"auth", "load", "owned", "storefront", "role"}
           /\ pc'[c] = "load" =>
                 \/ pc[c] = "load" /\ Reading(c)
                 \/ pc[c] = "auth" /\ reads'[c] = {"target", "targetProfile"}
           /\ pc'[c] = "owned" =>
                 \/ pc[c] = "owned" /\ Reading(c)
                 \/ pc[c] = "load" /\ reads[c] = {} /\ Loaded(c) /\ reads'[c] = {"products", "codes"}
           /\ pc'[c] = "storefront" =>
                 /\ reads[c] = {}
                 /\ \/ /\ pc[c] = "load" /\ Loaded(c)
                       /\ Want(c) # "buyer" \/ saw[c].target = "buyer"
                    \/ pc[c] = "owned" /\ ~saw[c].owns
           /\ pc'[c] = "role" => pc[c] = "storefront" /\ WriteStorefront(c)
           /\ pc[c] = "role" => c \in torn' \/ WriteRole(c)
<1>0. pc[c] \in Over \cup {"auth", "load", "owned", "storefront", "role"}
  BY DEF CallInv, OnRoute, Routes, SignUps, Over, Authenticated, Managing, Selling
<1> USE DEF Goto, Check, Query, AccountsType
<1>1. CASE Reading(c)
  <2>1. pc' = pc /\ pc[c] \in {"auth", "load", "owned", "dead"}
    BY <1>1, ReadersStay
  <2> QED BY <1>0, <1>1, <2>1
<1>2. CASE Start(c)
  <2>1. pc[c] = "idle" /\ pc'[c] = "auth"
    <3>1. Op(c) \in Authenticated /\ Op(c) \notin SignUps /\ Op(c) # "login"
      BY DEF SignUps, Authenticated, Managing
    <3> QED BY <1>2, <3>1 DEF Start
  <2> QED BY <1>0, <2>1
<1>3. CASE Admit(c)
  <2>1. pc[c] = "auth" /\ (pc'[c] = "refused" \/ (pc'[c] = "load" /\ reads'[c] = {"target", "targetProfile"}))
    BY <1>3 DEF Admit
  <2> QED BY <1>0, <2>1
<1>4. CASE DecideRole(c)
  <2>1. pc[c] = "load" /\ reads[c] = {}
    BY <1>4 DEF DecideRole
  <2>2. CASE Loaded(c) /\ Want(c) = "buyer" /\ saw[c].target # "buyer"
    <3>1. pc'[c] = "owned" /\ reads'[c] = {"products", "codes"}
      BY <1>4, <2>2 DEF DecideRole
    <3> QED BY <1>0, <2>1, <2>2, <3>1
  <2>3. CASE ~(Loaded(c) /\ Want(c) = "buyer" /\ saw[c].target # "buyer")
    <3>1. pc'[c] = IF Loaded(c) THEN "storefront" ELSE "refused"
      BY <1>4, <2>3 DEF DecideRole
    <3> QED BY <1>0, <2>1, <2>3, <3>1
  <2> QED BY <2>2, <2>3
<1>5. CASE DecideOwned(c)
  <2>1. pc[c] = "owned" /\ reads[c] = {} /\ pc'[c] = IF ~saw[c].owns THEN "storefront" ELSE "refused"
    BY <1>5 DEF DecideOwned
  <2> QED BY <1>0, <2>1
<1>6. CASE NoStoreName(c)
  <2>1. pc[c] = "storefront" /\ pc'[c] = "refused"
    BY <1>6 DEF NoStoreName
  <2> QED BY <1>0, <2>1
<1>7. CASE WriteStorefront(c)
  <2>1. pc[c] = "storefront" /\ pc'[c] = "role"
    BY <1>7 DEF WriteStorefront
  <2> QED BY <1>0, <1>7, <2>1
<1>8. CASE WriteRole(c)
  <2>1. pc[c] = "role" /\ pc'[c] = "ok"
    BY <1>8 DEF WriteRole
  <2> QED BY <1>0, <1>8, <2>1
<1>9. CASE Crash(c)
  <2>1. c \in torn' /\ pc'[c] = "dead"
    BY <1>9 DEF Crash
  <2> QED BY <1>0, <2>1
<1>10. \/ Reading(c) \/ Start(c) \/ Admit(c) \/ DecideRole(c) \/ DecideOwned(c) \/ NoStoreName(c)
       \/ WriteStorefront(c) \/ WriteRole(c) \/ Crash(c)
  <2>1. pc[c] \notin {"find", "exists", "account", "profile", "session", "undo", "status", "approve",
                      "ownProfile", "product", "inventory", "publish", "discount", "code", "logout"}
    BY <1>0 DEF Over
  <2> QED BY <2>1 DEF Step, Deciding, Writing, CheckEmail, FindAccount, UndoFails, CreateAccount,
         CreateProfile, CreateSession, Undo, CheckCode, WriteStatus, WriteOwnProfile,
         InsertProduct, InsertInventory, Publish, InsertCode, Logout, InsertFails
<1> QED BY <1>1, <1>2, <1>3, <1>4, <1>5, <1>6, <1>7, <1>8, <1>9, <1>10

\* A sign-up leaves "profile" with the profile made, or with repairs to do.
LEMMA ProfileMade ==
    ASSUME AccountsType, CallInv, NEW c \in Calls, Step(c), Op(c) \in SignUps, pc[c] = "profile"
    PROVE  \/ pc'[c] = "undo" \/ c \in torn'
           \/ profile'[c] = IF Op(c) = "signup" THEN "plain" ELSE "store"
<1>1. ~Reading(c)
  BY ReadersStay
<1>2. Deciding(c) => Crash(c)
  BY DEF Deciding, Start, CheckEmail, FindAccount, Admit, DecideRole, DecideOwned, NoStoreName,
         CheckCode, UndoFails
<1>3. Writing(c) => CreateProfile(c) \/ InsertFails(c)
  BY DEF Writing, CreateAccount, CreateSession, Undo, WriteStorefront, WriteRole, WriteStatus,
         WriteOwnProfile, InsertProduct, InsertInventory, Publish, InsertCode, Logout
<1>4. CASE Crash(c)
  BY <1>4 DEF Crash
<1>5. CASE CreateProfile(c)
  BY <1>5, AccountNames DEF CreateProfile, InsertProfile, AccountsType
<1>6. CASE InsertFails(c)
  BY <1>6 DEF InsertFails, Repaired, Repair, RollBack, Goto, AccountsType
<1> QED BY <1>1, <1>2, <1>3, <1>4, <1>5, <1>6 DEF Step

\* As long as no two of them meet, a change of role has its account to itself.
LEMMA Alone ==
    ASSUME CallInv, NEW a \in Accounts, Quiet(a), NEW c \in Running, Op(c) = "role", Target(c) = a,
           NEW d \in Running, Moulds(d, a)
    PROVE  d = c
<1> SUFFICES ASSUME d # c PROVE FALSE
  OBVIOUS
<1>1. c \in met[d] /\ d \in Calls
  BY DEF CallInv, Meeting, Running
<1> QED BY <1>1 DEF Quiet

LEMMA QuietBefore ==
    ASSUME AccountsType, CallInv, NEW c \in Calls, Step(c), NEW a \in Accounts, Quiet(a)'
    PROVE  Quiet(a)
<1>1. /\ request' = request /\ torn \subseteq torn'
      /\ \A d \in Calls : met[d] \subseteq met'[d]
  BY StepChanges DEF CallInv
<1>2. \A d : Op(d)' = Op(d) /\ Target(d)' = Target(d)
  BY <1>1, NamesKept
<1> QED BY <1>1, <1>2 DEF Quiet, Moulds

\* A new seller: its account, its profile, or a change of role that is half done.
LEMMA StoreStep ==
    ASSUME AccountsType, CallInv, SignUpInv, StoreInv, NEW c \in Calls, Step(c)
    PROVE  StoreInv'
<1>0. OnRoute /\ Meeting
  BY DEF CallInv
<1>1. /\ request' = request /\ torn \subseteq torn'
      /\ \A d \in Calls : d # c => /\ pc'[d] = pc[d] /\ undo'[d] = undo[d]
                                   /\ reads'[d] = reads[d] /\ saw'[d] = saw[d]
  BY <1>0, StepChanges
<1>2. \A d : Op(d)' = Op(d) /\ Want(d)' = Want(d) /\ Target(d)' = Target(d) /\ NewRole(d)' = NewRole(d)
  BY <1>1, NamesKept DEF NewRole
<1>3. \A d : Halfway(d)' <=> \/ Op(d) \in SignUps /\ pc'[d] \in {"profile", "undo"}
                             \/ Op(d) = "role" /\ pc'[d] = "role"
  BY <1>2 DEF Halfway
<1>4. \A d, a : Moulds(d, a)' <=> Moulds(d, a)
  BY <1>2 DEF Moulds
<1>5. SignUpInv' /\ CallInv' /\ AccountsType'
  BY <1>0, SignUpStep, CallStep, StepChanges
<1> SUFFICES ASSUME NEW a \in Accounts, Quiet(a)'
             PROVE  /\ role'[a] = "seller" /\ profile'[a] # "store" =>
                         \E d \in Calls : Target(d) = a /\ Halfway(d)'
                    /\ \A d \in Calls : Op(d) \in SignUps /\ Target(d) = a =>
                         (pc'[d] \in {"profile", "session"} => role'[a] = NewRole(d))
                    /\ \A d \in Calls : Op(d) = "role" /\ Target(d) = a =>
                         /\ pc'[d] = "load" /\ "targetProfile" \notin reads'[d] => SawStore(d)'
                         /\ pc'[d] \in {"owned", "storefront"} =>
                               SawStore(d)' /\ saw'[d].profile # "none"
                         /\ pc'[d] = "role" /\ Want(d) = "seller" => profile'[a] = "store"
  BY <1>2 DEF StoreInv
<1>6. Quiet(a)
  BY QuietBefore
<1>7. /\ role[a] = "seller" /\ profile[a] # "store" =>
            \E d \in Calls : Target(d) = a /\ Halfway(d)
      /\ \A d \in Calls : Op(d) \in SignUps /\ Target(d) = a =>
            (pc[d] \in {"profile", "session"} => role[a] = NewRole(d))
      /\ \A d \in Calls : Op(d) = "role" /\ Target(d) = a =>
            /\ pc[d] = "load" /\ "targetProfile" \notin reads[d] => SawStore(d)
            /\ pc[d] \in {"owned", "storefront"} => SawStore(d) /\ saw[d].profile # "none"
            /\ pc[d] = "role" /\ Want(d) = "seller" => profile[a] = "store"
  BY <1>6 DEF StoreInv
<1>8. \A d \in Calls : Moulds(d, a) => d \notin torn'
  BY <1>4 DEF Quiet
<1>9. \A d \in Calls : Op(d) = "role" => Op(d) \notin SignUps
  BY DEF SignUps
<1>10. role'[a] # role[a] /\ profile'[a] # profile[a] => pc[c] = "undo"
  <2> SUFFICES ASSUME role'[a] # role[a], profile'[a] # profile[a] PROVE pc[c] = "undo"
    OBVIOUS
  <2>1. /\ pc[c] \in {"account", "undo", "role"} /\ Op(c) \in SignUps \cup {"role"}
    BY RoleChanges
  <2>2. pc[c] \in {"profile", "undo", "storefront"} \/ Op(c) = "ownProfile"
    BY ProfileChanges
  <2> QED BY <2>1, <2>2 DEF SignUps
<1>11. ASSUME role'[a] = "seller", profile'[a] # "store"
       PROVE  \E d \in Calls : Target(d) = a /\ Halfway(d)'
  <2>1. CASE role'[a] # role[a]
    <3>1. CASE a = c /\ Op(c) \in SignUps /\ (pc'[c] = "profile" \/ c \in torn')
      <4>1. Target(c) = a
        BY <3>1, RequestNames
      <4>2. pc'[c] = "profile"
        BY <1>8, <3>1, <4>1 DEF Moulds
      <4> QED BY <1>3, <3>1, <4>1, <4>2
    <3>2. CASE /\ a = Target(c) /\ pc[c] = "role" /\ Op(c) = "role" /\ role'[a] = Want(c)
      <4>1. profile[a] = "store"
        BY <1>7, <1>11, <3>2
      <4> QED BY <1>10, <1>11, <2>1, <3>2, <4>1
    <3> QED BY <1>11, <2>1, <3>1, <3>2, RoleChanges
  <2>2. CASE role'[a] = role[a] /\ Op(c) \in SignUps /\ a = c /\ pc[c] = "profile"
    <3>1. Target(c) = a
      BY <2>2, RequestNames
    <3>2. role[a] = NewRole(c)
      BY <1>7, <2>2, <3>1
    <3>3. Op(c) # "signup"
      BY <1>11, <2>2, <3>2 DEF NewRole
    <3>4. pc'[c] = "undo" \/ c \in torn'
      BY <1>11, <2>2, <3>3, ProfileMade
    <3>5. pc'[c] = "undo"
      BY <1>8, <2>2, <3>1, <3>4 DEF Moulds
    <3> QED BY <1>3, <2>2, <3>1, <3>5
  <2>3. CASE role'[a] = role[a] /\ Op(c) \in SignUps /\ a = c /\ pc[c] = "undo"
    <3>1. Target(c) = a /\ c \notin torn'
      BY <1>8, <2>3, RequestNames DEF Moulds
    <3>2. pc'[c] # "refused"
      BY <1>2, <1>5, <1>11, <2>3, <3>1 DEF SignUpInv, Undone
    <3>3. pc'[c] \in Over \cup {"exists", "account", "profile", "session", "undo"}
      BY <1>2, <1>5, <2>3 DEF CallInv, OnRoute, Routes, SignUps, Over, Authenticated, Managing, Selling
    <3>4. pc'[c] = "undo"
      BY <2>3, <3>1, <3>2, <3>3, SignUpPlaces DEF Over
    <3> QED BY <1>3, <2>3, <3>1, <3>4
  <2>4. CASE role'[a] = role[a] /\ Op(c) = "role" /\ Target(c) = a /\ pc[c] = "role"
    <3>1. c \notin torn'
      BY <1>8, <2>4 DEF Moulds
    <3>2. WriteRole(c)
      BY <2>4, <3>1, RolePlaces
    <3>3. Want(c) = "seller" /\ profile' = profile
      BY <1>11, <2>4, <3>2 DEF WriteRole, Exists, AccountsType
    <3> QED BY <1>7, <1>11, <2>4, <3>3
  <2>5. CASE /\ role'[a] = role[a] /\ profile'[a] = profile[a]
             /\ ~(Op(c) \in SignUps /\ a = c /\ pc[c] \in {"profile", "undo"})
             /\ ~(Op(c) = "role" /\ Target(c) = a /\ pc[c] = "role")
    <3>1. PICK d \in Calls : Target(d) = a /\ Halfway(d)
      BY <1>7, <1>11, <2>5
    <3>2. d # c
      BY <2>5, <3>1, RequestNames DEF Halfway
    <3> QED BY <1>1, <1>3, <3>1, <3>2 DEF Halfway
  <2>6. CASE /\ role'[a] = role[a] /\ profile'[a] # profile[a]
             /\ ~(Op(c) \in SignUps /\ a = c /\ pc[c] \in {"profile", "undo"})
    <3>1. a = Target(c) /\ Op(c) = "role" /\ pc'[c] = "role"
      BY <1>11, <2>6, ProfileChanges
    <3> QED BY <1>3, <3>1
  <2> QED BY <2>1, <2>2, <2>3, <2>4, <2>5, <2>6
<1>12. ASSUME NEW d \in Calls, Op(d) \in SignUps, Target(d) = a, pc'[d] \in {"profile", "session"}
       PROVE  role'[a] = NewRole(d)
  <2>1. a = d /\ Moulds(d, a)
    BY <1>12, RequestNames DEF Moulds
  <2>2. CASE d # c
    <3>1. pc[d] \in {"profile", "session"} /\ d \in Running
      BY <1>1, <1>12, <2>2 DEF Running, Over
    <3>2. role[a] = NewRole(d)
      BY <1>7, <1>12, <3>1
    <3>3. role'[a] = role[a]
      <4> SUFFICES ASSUME role'[a] # role[a] PROVE FALSE
        OBVIOUS
      <4>1. a = Target(c) /\ pc[c] = "role" /\ Op(c) = "role"
        BY <2>1, <2>2, RoleChanges
      <4>2. c \in Running
        BY <4>1 DEF Running, Over
      <4> QED BY <1>6, <2>1, <2>2, <3>1, <4>1, <4>2, Alone
    <3> QED BY <3>2, <3>3
  <2>3. CASE d = c
    <3>1. CASE pc[c] \in {"profile", "session"}
      <4>1. role'[a] = role[a]
        BY <1>9, <1>12, <2>3, <3>1, RoleChanges
      <4> QED BY <1>7, <1>12, <2>3, <3>1, <4>1
    <3> QED BY <1>12, <2>1, <2>3, <3>1, SignUpPlaces
  <2> QED BY <2>2, <2>3
<1>13. ASSUME NEW d \in Calls, Op(d) = "role", Target(d) = a
       PROVE  /\ pc'[d] = "load" /\ "targetProfile" \notin reads'[d] => SawStore(d)'
              /\ pc'[d] \in {"owned", "storefront"} => SawStore(d)' /\ saw'[d].profile # "none"
              /\ pc'[d] = "role" /\ Want(d) = "seller" => profile'[a] = "store"
  <2>1. Moulds(d, a)
    BY <1>13 DEF Moulds
  <2>2. SawStore(d)' <=> /\ saw'[d].profile = "store" => profile'[a] = "store"
                         /\ saw'[d].profile # "none" => profile'[a] # "none"
    BY <1>2, <1>13 DEF SawStore
  <2>3. SawStore(d) <=> /\ saw[d].profile = "store" => profile[a] = "store"
                        /\ saw[d].profile # "none" => profile[a] # "none"
    BY <1>13 DEF SawStore
  <2>4. CASE d # c /\ pc'[d] \in {"load", "owned", "storefront", "role"}
    <3>1. d \in Running
      BY <1>1, <2>4 DEF Running, Over
    <3>2. profile'[a] = profile[a] \/ (profile[a] # "none" /\ profile'[a] = "store")
      <4> SUFFICES ASSUME profile'[a] # profile[a], ~(profile[a] # "none" /\ profile'[a] = "store")
                   PROVE  FALSE
        OBVIOUS
      <4>1. pc[c] \in {"profile", "undo", "storefront"} /\ Op(c) \in SignUps \cup {"role"}
            /\ Target(c) = a
        BY ProfileChanges, RequestNames
      <4>2. c \in Running /\ Moulds(c, a)
        BY <4>1 DEF Running, Moulds, Over
      <4> QED BY <1>6, <1>13, <2>4, <3>1, <4>2, Alone
    <3> QED BY <1>1, <1>7, <1>13, <2>2, <2>3, <2>4, <3>2
  <2>5. CASE d = c /\ pc'[d] = "load" /\ "targetProfile" \notin reads'[d]
    <3>1. pc[c] = "load" /\ Reading(c)
      BY <1>13, <2>5, RolePlaces
    <3>2. profile' = profile
      BY <3>1, ReadersStay DEF documents
    <3>3. PICK query \in reads[c] :
             /\ reads'[c] = reads[c] \ {query}
             /\ saw'[c].profile = IF query = "targetProfile" THEN profile[Target(c)] ELSE saw[c].profile
      BY <3>1, ReadingAnswers
    <3>4. CASE query = "targetProfile"
      BY <1>13, <2>2, <2>5, <3>2, <3>3, <3>4
    <3>5. CASE query # "targetProfile"
      BY <1>7, <1>13, <2>2, <2>3, <2>5, <3>1, <3>2, <3>3, <3>5
    <3> QED BY <3>4, <3>5
  <2>6. CASE d = c /\ pc'[d] \in {"owned", "storefront"}
    <3>1. CASE Reading(c)
      <4>1. pc[c] = "owned" /\ profile' = profile
        BY <2>6, <3>1, ReadersStay DEF documents
      <4>2. PICK query \in reads[c] :
               saw'[c].profile = IF query = "targetProfile" THEN profile[Target(c)] ELSE saw[c].profile
        BY <3>1, ReadingAnswers
      <4>3. query # "targetProfile"
        BY <4>1, <4>2 DEF CallInv, Asks
      <4> QED BY <1>7, <1>13, <2>2, <2>3, <2>6, <4>1, <4>2, <4>3
    <3>2. CASE ~Reading(c)
      <4>1. /\ \/ pc[c] = "load" /\ reads[c] = {} /\ Loaded(c)
               \/ pc[c] = "owned"
        BY <1>13, <2>6, <3>2, RolePlaces
      <4>2. saw'[c] = saw[c]
        BY <3>2, DecidingChanges, WritingChanges, <1>0 DEF Step
      <4>3. profile'[a] = profile[a]
        BY <1>9, <1>13, <2>6, <4>1, ProfileChanges
      <4>4. SawStore(c) /\ saw[c].profile # "none"
        BY <1>7, <1>13, <2>6, <4>1 DEF Loaded
      <4> QED BY <2>2, <2>3, <2>6, <4>2, <4>3, <4>4
    <3> QED BY <3>1, <3>2
  <2>7. CASE d = c /\ pc'[d] = "role" /\ Want(d) = "seller"
    <3>1. pc[c] = "storefront" /\ WriteStorefront(c)
      BY <1>13, <2>7, RolePlaces
    <3>2. SawStore(c) /\ saw[c].profile # "none" /\ saw[c].profile \in Stores
      BY <1>7, <1>13, <2>7, <3>1 DEF AccountsType, SawType
    <3>3. Storefront(c) = "store"
      BY <1>13, <2>7, <3>2 DEF SawStore, Storefront, Stores
    <3> QED BY <1>13, <2>7, <3>1, <3>3 DEF WriteStorefront, AccountsType
  <2> QED BY <2>4, <2>5, <2>6, <2>7
<1> QED BY <1>11, <1>12, <1>13

-----------------------------------------------------------------------------
(* What sellers own: the steps *)

\* A handler that sells works for an account that was read as a seller's.
LEMMA SellerAdmitted ==
    ASSUME AccountsType, CallInv, NEW c \in Calls,
           pc[c] \in {"product", "inventory", "discount", "code"}
    PROVE  IsSeller(c) /\ saw[c].actor \in {"seller", "admin"}
<1>0. saw[c].actor \in Roles \cup {"none"} /\ reads[c] = {}
  BY DEF CallInv, Asks, AccountsType, SawType
<1>1. Admitted(c) /\ Op(c) \in {"product", "discount"}
  <2>1. Admitted(c)
    BY DEF CallInv, Authorised, Handling
  <2>2. Op(c) \in {"product", "discount"}
    BY DEF CallInv, OnRoute, Routes, Over
  <2> QED BY <2>1, <2>2
<1>2. Required(Op(c)) = "seller"
  BY <1>1 DEF Required, Managing, Selling
<1>3. saw[c].actor # "none" /\ Level[saw[c].actor] >= Level["seller"]
  BY <1>1, <1>2 DEF Admitted, hasMinimumRole
<1>4. saw[c].actor \in {"seller", "admin"}
  BY <1>0, <1>3 DEF Level, Roles
<1> QED BY <1>0, <1>4 DEF IsSeller

\* What is newly owned was inserted by a seller's call.
LEMMA NewGoods ==
    ASSUME AccountsType, CallInv, NEW c \in Calls, Step(c), NEW e \in Calls
    PROVE  /\ product'[e] # "none" => product[e] # "none" \/ (e = c /\ pc[c] = "product")
           /\ e \in discount' => e \in discount \/ (e = c /\ pc[c] = "code")
           /\ Owns(e)' => Owns(e) \/ (e = c /\ pc[c] \in {"product", "code"})
<1>1. /\ product'[e] # "none" => product[e] # "none" \/ (e = c /\ pc[c] = "product")
      /\ e \in discount' => e \in discount \/ (e = c /\ pc[c] = "code")
  BY GoodsChange
<1> QED BY <1>1 DEF Owns

\* Where the calls that sell come from.
LEMMA SellerPlaces ==
    ASSUME AccountsType, CallInv, NEW c \in Calls, Step(c), ~Reading(c),
           pc'[c] \in {"auth", "product", "inventory", "discount", "code"}
    PROVE  /\ saw'[c] = saw[c]
           /\ \/ pc'[c] = "auth" /\ "account" \in reads'[c]
              \/ pc[c] \in {"auth", "product", "discount"} /\ reads[c] = {}
<1>0. OnRoute /\ Asks(c)
  BY DEF CallInv
<1>1. saw'[c] = saw[c]
  BY <1>0, DecidingChanges, WritingChanges DEF Step
<1> USE DEF Goto, Check, Query, AccountsType
<1>2. CASE Start(c)
  <2>1. \/ pc'[c] = "auth" /\ reads'[c] = {"session", "account"}
        \/ pc'[c] \in {"exists", "find"}
    <3>1. Query(c, "exists", {}) \/ Query(c, "find", {}) \/ Query(c, "auth", {"session", "account"})
      BY <1>2, RequestNames DEF Start
    <3> QED BY <3>1
  <2> QED BY <1>1, <2>1
<1>3. CASE Admit(c)
  BY <1>1, <1>3 DEF Admit
<1>4. CASE InsertProduct(c) \/ CheckCode(c)
  BY <1>0, <1>1, <1>4 DEF InsertProduct, CheckCode, Asks
<1>5. ~(CheckEmail(c) \/ FindAccount(c) \/ DecideRole(c) \/ DecideOwned(c) \/ NoStoreName(c)
        \/ UndoFails(c) \/ Crash(c))
  BY DEF CheckEmail, FindAccount, DecideRole, DecideOwned, NoStoreName, UndoFails, Forget, Crash
<1>6. ~(CreateAccount(c) \/ CreateProfile(c) \/ CreateSession(c) \/ Undo(c) \/ WriteStorefront(c)
        \/ WriteRole(c) \/ WriteStatus(c) \/ WriteOwnProfile(c) \/ InsertInventory(c) \/ Publish(c)
        \/ InsertCode(c) \/ Logout(c) \/ InsertFails(c))
  BY DEF CreateAccount, CreateProfile, CreateSession, Undo, Forget, WriteStorefront,
         WriteRole, WriteStatus, WriteOwnProfile, InsertInventory, Publish,
         InsertCode, Logout, InsertFails, Repair, RollBack
<1> QED BY <1>2, <1>3, <1>4, <1>5, <1>6 DEF Step, Deciding, Writing

\* A call that sells did so before the step, or has just read the role.
LEMMA SellerBefore ==
    ASSUME AccountsType, CallInv, NEW c \in Calls, Step(c), NEW e \in Calls, IsSeller(e)'
    PROVE  \/ IsSeller(e)
           \/ role[Actor(e)] \in {"seller", "admin"} /\ role' = role
<1>0. OnRoute /\ Meeting
  BY DEF CallInv
<1>1. \A d \in Calls : d # c => pc'[d] = pc[d] /\ reads'[d] = reads[d] /\ saw'[d] = saw[d]
  BY <1>0, StepChanges
<1>2. CASE Owns(e)'
  <2>1. CASE Owns(e)
    BY <2>1 DEF IsSeller
  <2>2. CASE e = c /\ pc[c] \in {"product", "code"}
    BY <2>2, SellerAdmitted
  <2> QED BY <1>2, <2>1, <2>2, NewGoods
<1>3. CASE /\ pc'[e] \in {"auth", "product", "inventory", "discount", "code"}
           /\ "account" \notin reads'[e] /\ saw'[e].actor \in {"seller", "admin"}
  <2>1. CASE e # c
    BY <1>1, <1>3, <2>1 DEF IsSeller
  <2>2. CASE e = c /\ Reading(c)
    <3>1. pc' = pc /\ role' = role
      BY <2>2, ReadersStay DEF documents
    <3>2. PICK query \in reads[c] :
             /\ reads'[c] = reads[c] \ {query}
             /\ IF query = "account" THEN saw'[c].actor \in {role[Actor(c)], "none"}
                                     ELSE saw'[c].actor = saw[c].actor
      BY <2>2, ReadingAnswers
    <3>3. CASE query = "account"
      BY <1>3, <2>2, <3>1, <3>2, <3>3
    <3>4. CASE query # "account"
      BY <1>3, <2>2, <3>1, <3>2, <3>4 DEF IsSeller
    <3> QED BY <3>3, <3>4
  <2>3. CASE e = c /\ ~Reading(c)
    BY <1>3, <2>3, SellerPlaces DEF IsSeller
  <2> QED BY <2>1, <2>2, <2>3
<1> QED BY <1>2, <1>3 DEF IsSeller

\* While a change of role runs, whatever its account newly owns was stored by a call
\* that met it.
LEMMA GoodsOfTarget ==
    ASSUME AccountsType, CallInv, NEW c \in Calls, Step(c),
           NEW d \in Running, Op(d) = "role", NEW e \in Calls, Actor(e) = Target(d)
    PROVE  /\ product'[e] # "none" => product[e] # "none" \/ Exempt(e)
           /\ e \in discount' => e \in discount \/ Exempt(e)
<1>1. ASSUME e = c, pc[c] \in {"product", "code"} PROVE Exempt(e)
  <2>1. c \in Running
    BY <1>1 DEF Running, Over
  <2>2. Op(c) # "role"
    BY <1>1 DEF CallInv, OnRoute, Routes, Over
  <2>3. d \in met[c] /\ d \in Calls
    BY <2>1, <2>2 DEF CallInv, Meeting, Running
  <2> QED BY <1>1, <2>3 DEF Exempt
<1> QED BY <1>1, NewGoods

LEMMA OwnStep ==
    ASSUME AccountsType, CallInv, SignUpInv, OwnInv, NEW c \in Calls, Step(c)
    PROVE  OwnInv'
<1>0. OnRoute /\ Meeting
  BY DEF CallInv
<1>1. /\ request' = request
      /\ \A d \in Calls : d # c => /\ pc'[d] = pc[d] /\ reads'[d] = reads[d] /\ saw'[d] = saw[d]
      /\ \A d \in Calls : met[d] \subseteq met'[d]
  BY <1>0, StepChanges
<1>2. \A d : Op(d)' = Op(d) /\ Want(d)' = Want(d) /\ Target(d)' = Target(d) /\ Actor(d)' = Actor(d)
  BY <1>1, NamesKept
<1>3. \A e \in Calls : Exempt(e) => Exempt(e)'
  BY <1>1, <1>2 DEF Exempt
<1>4. \A e \in Calls : IsSeller(e) /\ role[Actor(e)] = "buyer" => Exempt(e)
  BY DEF OwnInv
<1>5. \A d, e \in Calls : Uncreated(d) /\ Actor(e) = d => ~Owns(e) /\ saw[e].actor = "none"
  BY DEF OwnInv
<1>6. \A d \in Calls : Op(d) = "role" =>
          /\ pc[d] = "load" /\ "target" \notin reads[d] /\ saw[d].target = "buyer"
                => Rightly(Target(d))
          /\ pc[d] = "owned" /\ "products" \notin reads[d] /\ ~saw[d].owns =>
                \A e \in Calls : product[e] # "none" /\ Actor(e) = Target(d) => Exempt(e)
          /\ pc[d] = "owned" /\ "codes" \notin reads[d] /\ ~saw[d].owns =>
                \A e \in discount : Actor(e) = Target(d) => Exempt(e)
          /\ pc[d] \in {"storefront", "role"} /\ Want(d) = "buyer" => Rightly(Target(d))
  BY DEF OwnInv
<1>7. ASSUME NEW e \in Calls, IsSeller(e)', role'[Actor(e)] = "buyer" PROVE Exempt(e)'
  <2>1. IsSeller(e)
    BY <1>7, SellerBefore
  <2>2. CASE role[Actor(e)] = "buyer"
    BY <1>3, <1>4, <2>1, <2>2
  <2>3. CASE role[Actor(e)] # "buyer"
    <3>0. Actor(e) \in Accounts
      BY RequestNames
    <3>1. CASE Actor(e) = c /\ pc[c] = "account" /\ Op(c) \in SignUps
      <4>1. ~Owns(e) /\ saw[e].actor = "none"
        BY <1>5, <3>1 DEF Uncreated
      <4> QED BY <2>1, <4>1 DEF IsSeller
    <3>2. CASE Actor(e) = Target(c) /\ pc[c] = "role" /\ Op(c) = "role" /\ Want(c) = "buyer"
      <4>1. CASE Owns(e)
        <5>1. Rightly(Target(c))
          BY <1>6, <3>2
        <5> QED BY <1>3, <3>2, <4>1, <5>1 DEF Rightly
      <4>2. CASE ~Owns(e)
        <5>1. e \in Running /\ c \in Running /\ c # e
          BY <2>1, <3>2, <4>2 DEF IsSeller, Running, Over
        <5>2. c \in met[e]
          BY <1>0, <5>1 DEF Meeting
        <5> QED BY <1>3, <3>2, <5>2 DEF Exempt
      <4> QED BY <4>1, <4>2
    <3> QED BY <1>7, <2>3, <3>0, <3>1, <3>2, RoleChanges
  <2> QED BY <2>2, <2>3
<1>8. ASSUME NEW d \in Calls, NEW e \in Calls, Uncreated(d)', Actor(e) = d
      PROVE  ~Owns(e)' /\ saw'[e].actor = "none"
  <2>1. Op(d) \in SignUps /\ pc'[d] \in {"idle", "exists", "account"}
    BY <1>2, <1>8 DEF Uncreated
  <2>2. Uncreated(d)
    <3>1. CASE d = c
      BY <2>1, <3>1, SignUpPlaces DEF Uncreated
    <3>2. CASE d # c
      BY <1>1, <2>1, <3>2 DEF Uncreated
    <3> QED BY <3>1, <3>2
  <2>3. ~Owns(e) /\ saw[e].actor = "none" /\ role[d] = "none"
    BY <1>5, <1>8, <2>1, <2>2 DEF SignUpInv
  <2>4. ~Owns(e)'
    <3>1. ~(pc[e] \in {"product", "code"})
      BY <2>3, SellerAdmitted
    <3> QED BY <2>3, <3>1, NewGoods
  <2>5. saw'[e].actor = "none"
    <3>1. CASE e = c /\ Reading(c)
      <4>1. saw'[c].actor \in {role[Actor(c)], saw[c].actor, "none"}
        BY <3>1, ReadingAnswers
      <4> QED BY <1>8, <2>3, <3>1, <4>1
    <3>2. CASE ~(e = c /\ Reading(c))
      <4>1. saw'[e] = saw[e]
        BY <1>0, <1>1, <3>2, DecidingChanges, WritingChanges DEF Step
      <4> QED BY <2>3, <4>1
    <3> QED BY <3>1, <3>2
  <2> QED BY <2>4, <2>5
<1>9. ASSUME NEW d \in Running, Op(d) = "role"
      PROVE  /\ (\A e \in Calls : product[e] # "none" /\ Actor(e) = Target(d) => Exempt(e)) =>
                (\A e \in Calls : product'[e] # "none" /\ Actor(e) = Target(d) => Exempt(e)')
             /\ (\A e \in discount : Actor(e) = Target(d) => Exempt(e)) =>
                (\A e \in discount' : Actor(e) = Target(d) => Exempt(e)')
             /\ Rightly(Target(d)) =>
                (\A e \in Calls : Owns(e)' /\ Actor(e) = Target(d) => Exempt(e)')
  <2>1. discount' \subseteq Calls
    BY <1>0, StepChanges DEF AccountsType
  <2>2. \A e \in Calls : Actor(e) = Target(d) =>
           /\ product'[e] # "none" => product[e] # "none" \/ Exempt(e)
           /\ e \in discount' => e \in discount \/ Exempt(e)
    BY <1>9, GoodsOfTarget
  <2> QED BY <1>3, <2>1, <2>2 DEF Rightly, Owns
<1>10. ASSUME NEW d \in Calls, Op(d) = "role"
       PROVE  /\ pc'[d] = "load" /\ "target" \notin reads'[d] /\ saw'[d].target = "buyer"
                   => \A e \in Calls : Owns(e)' /\ Actor(e) = Target(d) => Exempt(e)'
              /\ pc'[d] = "owned" /\ "products" \notin reads'[d] /\ ~saw'[d].owns =>
                   \A e \in Calls : product'[e] # "none" /\ Actor(e) = Target(d) => Exempt(e)'
              /\ pc'[d] = "owned" /\ "codes" \notin reads'[d] /\ ~saw'[d].owns =>
                   \A e \in discount' : Actor(e) = Target(d) => Exempt(e)'
              /\ pc'[d] \in {"storefront", "role"} /\ Want(d) = "buyer" =>
                   \A e \in Calls : Owns(e)' /\ Actor(e) = Target(d) => Exempt(e)'
  <2>1. CASE d # c
    <3>1. pc'[d] \in {"load", "owned", "storefront", "role"} => d \in Running
      BY <1>1, <2>1 DEF Running, Over
    <3> QED BY <1>1, <1>6, <1>9, <1>10, <2>1, <3>1
  <2>2. CASE d = c /\ Reading(c)
    <3>1. pc' = pc /\ (pc'[c] \in {"load", "owned"} => c \in Running)
          /\ pc[c] \notin {"storefront", "role"}
      BY <2>2, ReadersStay DEF Running, Over
    <3>2. PICK query \in reads[c] :
             /\ reads'[c] = reads[c] \ {query}
             /\ saw'[c].target = IF query = "target" THEN role[Target(c)] ELSE saw[c].target
             /\ CASE query = "products" -> ~saw'[c].owns => ~saw[c].owns /\ Products(Target(c)) = {}
                  [] query = "codes" -> ~saw'[c].owns => ~saw[c].owns /\ Codes(Target(c)) = {}
                  [] OTHER -> saw'[c].owns = saw[c].owns
      BY <2>2, ReadingAnswers
    <3>3. /\ query = "products" => (~saw'[c].owns => ~saw[c].owns /\ Products(Target(c)) = {})
          /\ query = "codes" => (~saw'[c].owns => ~saw[c].owns /\ Codes(Target(c)) = {})
          /\ query \notin {"products", "codes"} => saw'[c].owns = saw[c].owns
      BY <3>2
    <3>4. ASSUME pc'[c] = "load", "target" \notin reads'[c], saw'[c].target = "buyer"
          PROVE  Rightly(Target(c))
      <4>1. CASE query = "target"
        BY <1>4, <3>2, <3>4, <4>1 DEF Rightly, IsSeller
      <4>2. CASE query # "target"
        BY <1>6, <1>10, <2>2, <3>1, <3>2, <3>4, <4>2
      <4> QED BY <4>1, <4>2
    <3>5. ASSUME pc'[c] = "owned", "products" \notin reads'[c], ~saw'[c].owns
          PROVE  \A e \in Calls : product[e] # "none" /\ Actor(e) = Target(c) => Exempt(e)
      <4>1. CASE query = "products"
        BY <3>3, <3>5, <4>1 DEF Products
      <4>2. CASE query # "products"
        BY <1>6, <1>10, <2>2, <3>1, <3>2, <3>3, <3>5, <4>2
      <4> QED BY <4>1, <4>2
    <3>6. ASSUME pc'[c] = "owned", "codes" \notin reads'[c], ~saw'[c].owns
          PROVE  \A e \in discount : Actor(e) = Target(c) => Exempt(e)
      <4>1. CASE query = "codes"
        BY <3>3, <3>6, <4>1 DEF Codes
      <4>2. CASE query # "codes"
        BY <1>6, <1>10, <2>2, <3>1, <3>2, <3>3, <3>6, <4>2
      <4> QED BY <4>1, <4>2
    <3> QED BY <1>9, <1>10, <2>2, <3>1, <3>4, <3>5, <3>6
  <2>3. CASE d = c /\ ~Reading(c)
    <3>1. /\ pc'[c] = "load" => reads'[c] = {"target", "targetProfile"}
          /\ pc'[c] = "owned" => reads'[c] = {"products", "codes"}
      BY <1>10, <2>3, RolePlaces
    <3>2. ASSUME pc'[c] \in {"storefront", "role"}, Want(c) = "buyer"
          PROVE  c \in Running /\ Rightly(Target(c))
      <4>1. CASE pc'[c] = "role"
        BY <1>6, <1>10, <2>3, <3>2, <4>1, RolePlaces DEF Running, Over
      <4>2. CASE pc'[c] = "storefront" /\ pc[c] = "load"
        BY <1>6, <1>10, <2>3, <3>2, <4>2, RolePlaces DEF Running, Over
      <4>3. CASE pc'[c] = "storefront" /\ pc[c] = "owned"
        <5>1. reads[c] = {} /\ ~saw[c].owns /\ c \in Running
          BY <1>10, <2>3, <4>3, RolePlaces DEF Running, Over
        <5> QED BY <1>6, <1>10, <2>3, <4>3, <5>1 DEF Rightly, Owns
      <4> QED BY <1>10, <2>3, <3>2, <4>1, <4>2, <4>3, RolePlaces
    <3> QED BY <1>9, <1>10, <2>3, <3>1, <3>2
  <2> QED BY <2>1, <2>2, <2>3
<1>11. \A a : Rightly(a)' <=> \A e \in Calls : Owns(e)' /\ Actor(e) = a => Exempt(e)'
  BY <1>2 DEF Rightly
<1> QED BY <1>2, <1>7, <1>8, <1>10, <1>11 DEF OwnInv

-----------------------------------------------------------------------------
(* Administrators: the steps *)

\* A status is written with a new account and by changes of status.
LEMMA StatusChanges ==
    ASSUME AccountsType, CallInv, NEW c \in Calls, Step(c), NEW a \in Accounts,
           status'[a] # status[a]
    PROVE  \/ a = c /\ role[a] = "none"
           \/ /\ a = Target(c) /\ pc[c] = Op(c) /\ Op(c) \in {"status", "approve"}
              /\ status'[a] = Status(c)
<1> USE DEF documents
<1>0. c \in Accounts /\ OnRoute
  BY AccountNames DEF CallInv
<1>1. ~Reading(c)
  BY ReadersStay
<1>2. ~Deciding(c)
  BY DecidingChanges
<1>3. CASE CreateAccount(c)
  <2>1. ~EmailTaken(c) /\ status' = [status EXCEPT ![c] = NewStatus(c)]
    BY <1>3 DEF CreateAccount, InsertAccount
  <2> QED BY <1>0, <2>1 DEF EmailTaken, Exists, AccountsType
<1>4. CASE WriteStatus(c)
  <2>1. pc[c] \in {"status", "approve"} /\ status' = [status EXCEPT ![Target(c)] = Status(c)]
    BY <1>4 DEF WriteStatus
  <2>2. pc[c] = Op(c)
    BY <1>0, <2>1 DEF OnRoute, Routes, Over
  <2> QED BY <2>1, <2>2 DEF AccountsType
<1>5. CASE InsertFails(c)
  <2>1. Inserted(c) /\ pc[c] \in {"account", "profile", "session", "product", "inventory"}
    BY <1>5 DEF InsertFails
  <2>2. pc[c] = "account" /\ a = c /\ ~EmailTaken(c)
    BY <2>1, InsertChanges
  <2> QED BY <1>0, <2>2 DEF EmailTaken, Exists
<1>6. ~(CreateProfile(c) \/ CreateSession(c) \/ Undo(c) \/ WriteStorefront(c) \/ WriteRole(c)
        \/ WriteOwnProfile(c) \/ InsertProduct(c) \/ InsertInventory(c) \/ Publish(c)
        \/ InsertCode(c) \/ Logout(c))
  BY DEF CreateProfile, CreateSession, Undo, Delete, WriteStorefront, WriteRole, WriteOwnProfile,
         InsertProduct, InsertInventory, Publish, InsertCode, Logout
<1> QED BY <1>1, <1>2, <1>3, <1>4, <1>5, <1>6 DEF Step, Writing

\* An administrator is lost to a change of its role or its status.
LEMMA AdminLost ==
    ASSUME AccountsType, CallInv, NEW c \in Calls, Step(c), NEW a \in Accounts,
           ActiveAdmin(a), ~ActiveAdmin(a)',
           a = c /\ Op(c) \in SignUps => pc[c] # "undo"
    PROVE  /\ a = Target(c) /\ pc[c] = Op(c)
           /\ \/ Op(c) = "role" /\ Want(c) # "admin"
              \/ Op(c) = "status" /\ Want(c) = "inactive"
<1>1. CASE role'[a] # role[a]
  <2>1. a = Target(c) /\ pc[c] = "role" /\ Op(c) = "role" /\ role'[a] = Want(c)
    BY <1>1, RoleChanges DEF ActiveAdmin
  <2>2. status'[a] = status[a]
    <3>1. role[a] # "none"
      BY DEF ActiveAdmin
    <3> QED BY <2>1, <3>1, StatusChanges
  <2> QED BY <2>1, <2>2 DEF ActiveAdmin
<1>2. CASE role'[a] = role[a]
  <2>1. status'[a] # status[a] /\ status[a] = "active" /\ role[a] # "none"
    BY <1>2 DEF ActiveAdmin
  <2>2. /\ a = Target(c) /\ pc[c] = Op(c) /\ Op(c) \in {"status", "approve"}
        /\ status'[a] = Status(c)
    BY <2>1, StatusChanges
  <2>3. Op(c) = "status" /\ Want(c) # "active"
    BY <2>1, <2>2 DEF Status
  <2> QED BY <2>2, <2>3, RequestNames
<1> QED BY <1>1, <1>2

\* A change of role or status comes to its handler with what authentication has read.
LEMMA ManagingPlaces ==
    ASSUME AccountsType, CallInv, NEW c \in Calls, Step(c), ~Reading(c),
           Op(c) \in {"role", "status"}, c \in Running', "account" \notin reads'[c]
    PROVE  c \in Running /\ "account" \notin reads[c] /\ saw'[c] = saw[c]
<1>0. OnRoute /\ Asks(c)
  BY DEF CallInv
<1>1. saw'[c] = saw[c]
  BY <1>0, DecidingChanges, WritingChanges DEF Step
<1>2. ~Start(c)
  <2>1. Op(c) \notin SignUps /\ Op(c) # "login" /\ Op(c) \in Authenticated
    BY DEF SignUps, Authenticated, Managing
  <2> QED BY <2>1 DEF Start, Query, AccountsType
<1>3. c \in Running
  <2>1. pc[c] \notin Over
    BY <1>0, <1>2, WritingChanges DEF Step, Deciding, CheckEmail, FindAccount, Admit, DecideRole,
       DecideOwned, NoStoreName, CheckCode, UndoFails, Crash, Running, Over
  <2> QED BY <2>1 DEF Running
<1>4. ASSUME "account" \in reads[c] PROVE FALSE
  <2>1. pc[c] = "auth"
    BY <1>0, <1>3, <1>4 DEF Asks, Running, Over
  <2>2. Crash(c)
    BY <1>2, <1>4, <2>1 DEF Step, Deciding, CheckEmail, FindAccount, Admit, DecideRole, DecideOwned,
       NoStoreName, CheckCode, UndoFails, Writing, CreateAccount, CreateProfile, CreateSession,
       Undo, WriteStorefront, WriteRole, WriteStatus, WriteOwnProfile, InsertProduct,
       InsertInventory, Publish, InsertCode, Logout, InsertFails
  <2> QED BY <2>2 DEF Crash, Goto, Running, Over, AccountsType
<1> QED BY <1>1, <1>3, <1>4

\* As long as no two calls that can take an administrator away have met, the one that
\* runs leaves the administrator who sent it.
LEMMA AdminStep ==
    ASSUME AccountsType, CallInv, AdminInv, NEW c \in Calls, Step(c)
    PROVE  AdminInv'
<1>0. OnRoute /\ Meeting
  BY DEF CallInv
<1>1. /\ request' = request
      /\ \A d \in Calls : d # c => /\ pc'[d] = pc[d] /\ reads'[d] = reads[d] /\ saw'[d] = saw[d]
      /\ \A d \in Calls : met[d] \subseteq met'[d]
  BY <1>0, StepChanges
<1>2. \A d : Op(d)' = Op(d) /\ Target(d)' = Target(d) /\ Actor(d)' = Actor(d)
  BY <1>1, NamesKept
<1>3. Contested => Contested'
  BY <1>1, <1>2 DEF Contested, Unseats
<1> SUFFICES ASSUME ~Contested'
             PROVE  /\ \E a \in Accounts : ActiveAdmin(a)'
                    /\ \A d \in Running' : Op(d) \in {"role", "status"} /\ "account" \notin reads'[d]
                              /\ saw'[d].actor = "admin" => ActiveAdmin(Actor(d))'
                    /\ \A d \in Calls : Op(d) \in SignUps /\ pc'[d] \in {"profile", "session", "undo"}
                              => role'[d] # "admin"
  BY <1>2 DEF AdminInv, ActiveAdmin
<1>4. /\ \E a \in Accounts : ActiveAdmin(a)
      /\ \A d \in Running : Op(d) \in {"role", "status"} /\ "account" \notin reads[d]
                /\ saw[d].actor = "admin" => ActiveAdmin(Actor(d))
      /\ \A d \in Calls : Op(d) \in SignUps /\ pc[d] \in {"profile", "session", "undo"}
                => role[d] # "admin"
  BY <1>3 DEF AdminInv
<1>5. ASSUME NEW d \in Running, NEW e \in Running, Unseats(d), Unseats(e) PROVE d = e
  BY <1>0, <1>3, <1>5 DEF Contested, Meeting, Running
<1>6. \A d \in Calls : d \in Accounts /\ Actor(d) \in Accounts
  BY AccountNames, RequestNames
<1>7. ASSUME NEW a \in Accounts, ActiveAdmin(a), ~ActiveAdmin(a)'
      PROVE  /\ a = Target(c) /\ c \in Running /\ Unseats(c)
             /\ a # Actor(c) /\ ActiveAdmin(Actor(c))
  <2>1. a = c /\ Op(c) \in SignUps => pc[c] # "undo"
    BY <1>4, <1>7 DEF ActiveAdmin
  <2>2. /\ a = Target(c) /\ pc[c] = Op(c)
        /\ \/ Op(c) = "role" /\ Want(c) # "admin"
           \/ Op(c) = "status" /\ Want(c) = "inactive"
    BY <1>7, <2>1, AdminLost
  <2>3. c \in Running /\ Unseats(c)
    BY <2>2 DEF Running, Over, Unseats
  <2>4. Admitted(c)
    BY <2>2 DEF CallInv, Authorised, Handling
  <2>5. a # Actor(c)
    BY <2>2, <2>4 DEF Admitted, Self
  <2>6. reads[c] = {}
    BY <2>2 DEF CallInv, Asks
  <2>7. saw[c].actor = "admin"
    <3>1. Required(Op(c)) = "admin" /\ saw[c].actor \in Roles
      BY <2>2, <2>4 DEF Required, Managing, Admitted, AccountsType, SawType
    <3>2. Level[saw[c].actor] >= Level["admin"]
      BY <2>4, <3>1 DEF Admitted, hasMinimumRole
    <3> QED BY <3>1, <3>2 DEF Level, Roles
  <2>8. ActiveAdmin(Actor(c))
    BY <1>4, <2>2, <2>3, <2>6, <2>7
  <2> QED BY <2>2, <2>3, <2>5, <2>8
<1>8. \E a \in Accounts : ActiveAdmin(a)'
  <2>1. PICK a \in Accounts : ActiveAdmin(a)
    BY <1>4
  <2>2. CASE ActiveAdmin(a)'
    BY <2>2
  <2>3. CASE ~ActiveAdmin(a)'
    <3>1. a = Target(c) /\ a # Actor(c) /\ ActiveAdmin(Actor(c))
      BY <1>7, <2>1, <2>3
    <3>2. ActiveAdmin(Actor(c))'
      <4> SUFFICES ASSUME ~ActiveAdmin(Actor(c))' PROVE FALSE
        OBVIOUS
      <4>1. \A b \in Accounts : ActiveAdmin(b) /\ ~ActiveAdmin(b)' => b = Target(c)
        BY <1>7
      <4> QED BY <1>2, <1>6, <3>1, <4>1 DEF ActiveAdmin
    <3>3. \E b \in Accounts : ActiveAdmin(b)'
      BY <1>2, <1>6, <3>2 DEF ActiveAdmin
    <3> QED BY <3>3
  <2> QED BY <2>2, <2>3
<1>9. ASSUME NEW d \in Running', Op(d) \in {"role", "status"}, "account" \notin reads'[d],
             saw'[d].actor = "admin"
      PROVE  ActiveAdmin(Actor(d))'
  <2>0. d \in Calls /\ Unseats(d)
    BY <1>9 DEF Running, Unseats
  <2>1. ActiveAdmin(Actor(d)) /\ (d \in Running \/ UNCHANGED <<role, status>>)
    <3>1. CASE d # c
      <4>1. d \in Running
        BY <1>1, <2>0, <3>1 DEF Running
      <4> QED BY <1>1, <1>4, <1>9, <2>0, <3>1, <4>1
    <3>2. CASE d = c /\ Reading(c)
      <4>1. UNCHANGED <<role, status>> /\ pc' = pc
        BY <3>2, ReadersStay DEF documents
      <4>2. c \in Running
        BY <1>9, <3>2, <4>1 DEF Running
      <4>3. PICK query \in reads[c] :
               /\ reads'[c] = reads[c] \ {query}
               /\ IF query = "account"
                  THEN saw'[c].actor \in {role[Actor(c)], "none"} /\
                       (saw'[c].actor # "none" => Exists(Actor(c)) /\ status[Actor(c)] = "active")
                  ELSE saw'[c].actor = saw[c].actor
        BY <3>2, ReadingAnswers
      <4>4. CASE query = "account"
        BY <1>9, <3>2, <4>1, <4>3, <4>4 DEF ActiveAdmin
      <4>5. CASE query # "account"
        BY <1>4, <1>9, <3>2, <4>1, <4>2, <4>3, <4>5
      <4> QED BY <4>4, <4>5
    <3>3. CASE d = c /\ ~Reading(c)
      <4>1. c \in Running /\ "account" \notin reads[c] /\ saw'[c] = saw[c]
        BY <1>9, <3>3, ManagingPlaces
      <4> QED BY <1>4, <1>9, <3>3, <4>1
    <3> QED BY <3>1, <3>2, <3>3
  <2>2. ActiveAdmin(Actor(d)) => role'[Actor(d)] = "admin" /\ status'[Actor(d)] = "active"
    <3>1. CASE UNCHANGED <<role, status>>
      BY <2>1, <3>1 DEF ActiveAdmin
    <3>2. CASE d \in Running
      <4> SUFFICES ASSUME ~(role'[Actor(d)] = "admin" /\ status'[Actor(d)] = "active") PROVE FALSE
        OBVIOUS
      <4>1. \A b \in Accounts : ActiveAdmin(b) /\ ~(role'[b] = "admin" /\ status'[b] = "active") =>
               c \in Running /\ Unseats(c) /\ b # Actor(c)
        BY <1>7 DEF ActiveAdmin
      <4>2. c \in Running /\ Unseats(c) /\ Actor(d) # Actor(c)
        BY <1>6, <2>0, <2>1, <4>1
      <4>3. c = d
        BY <1>5, <2>0, <3>2, <4>2
      <4> QED BY <4>2, <4>3
    <3> QED BY <2>1, <3>1, <3>2
  <2> QED BY <1>2, <2>1, <2>2 DEF ActiveAdmin
<1>10. ASSUME NEW d \in Calls, Op(d) \in SignUps, pc'[d] \in {"profile", "session", "undo"}
       PROVE  role'[d] # "admin"
  <2>1. CASE d # c
    <3>1. d \in Running /\ Unseats(d) /\ role[d] # "admin"
      BY <1>1, <1>4, <1>10, <2>1 DEF Running, Over, Unseats
    <3>2. role'[d] = role[d]
      <4> SUFFICES ASSUME role'[d] # role[d] PROVE FALSE
        OBVIOUS
      <4>1. pc[c] = "role" /\ Op(c) = "role"
        BY <1>6, <2>1, RoleChanges
      <4>2. c \in Running /\ Unseats(c)
        BY <4>1 DEF Running, Over, Unseats
      <4> QED BY <1>5, <2>1, <3>1, <4>2
    <3> QED BY <3>1, <3>2
  <2>2. CASE d = c
    <3>1. CASE pc[c] = "account"
      <4>1. role'[c] = NewRole(c)
        BY <1>10, <2>2, <3>1, SignUpPlaces
      <4> QED BY <2>2, <4>1 DEF NewRole
    <3>2. CASE pc[c] \in {"profile", "session", "undo"}
      <4>1. role[c] # "admin"
        BY <1>4, <1>10, <2>2, <3>2
      <4>2. role'[c] = role[c] \/ role'[c] = "none"
        BY <1>6, <3>2, RoleChanges
      <4> QED BY <2>2, <4>1, <4>2
    <3> QED BY <1>10, <2>2, <3>1, <3>2, SignUpPlaces
  <2> QED BY <2>1, <2>2
<1> QED BY <1>8, <1>9, <1>10

-----------------------------------------------------------------------------
(* The theorems *)

AccountsInv ==
    /\ AccountsType /\ CallInv
    /\ StockInv /\ SignUpInv /\ SessionInv /\ StoreInv /\ OwnInv /\ AdminInv

LEMMA AccountsInit == Init => AccountsInv
<1> SUFFICES ASSUME Init PROVE AccountsInv
  OBVIOUS
<1>1. \A c \in Calls : /\ pc[c] = "idle" /\ reads[c] = {} /\ saw[c] = Nothing /\ undo[c] = {}
                       /\ met[c] = {} /\ product[c] = "none" /\ c \notin discount
                       /\ role[c] = "none" /\ profile[c] = "none" /\ c \notin live
  BY AccountNames DEF Init
<1>2. AccountsType
  <2>1. \A f \in Founders : FounderRole[f] \in Roles
    BY AccountsAssumption
  <2>2. role \in [Accounts -> Roles \cup {"none"}] /\ profile \in [Accounts -> Stores]
    BY <2>1 DEF Init, Stores
  <2>3. Nothing \in SawType
    BY DEF Nothing, SawType, Stores
  <2> QED BY <2>2, <2>3, AccountNames DEF Init, AccountsType, Statuses, Points, Over
<1>3. Running = {}
  BY <1>1 DEF Running, Over
<1>4. CallInv
  BY <1>1, <1>3 DEF CallInv, OnRoute, Meeting, Asks, Authorised, Undoing, Handling, Over
<1>5. StockInv /\ SignUpInv
  BY <1>1 DEF StockInv, SignUpInv, Uncreated, Undone
<1>6. SessionInv
  BY <1>1 DEF SessionInv, Found, OwnSession
<1>7. StoreInv
  <2>1. \A a \in Accounts : role[a] = "seller" => profile[a] = "store"
    BY DEF Init
  <2> QED BY <1>1, <2>1 DEF StoreInv
<1>8. OwnInv
  BY <1>1 DEF OwnInv, IsSeller, Owns, Nothing
<1>9. AdminInv
  <2>1. PICK f \in Founders : FounderRole[f] = "admin"
    BY AccountsAssumption
  <2>2. ActiveAdmin(f) /\ f \in Accounts
    BY <2>1, AccountNames DEF Init, ActiveAdmin
  <2> QED BY <1>1, <1>3, <2>2 DEF AdminInv
<1> QED BY <1>2, <1>4, <1>5, <1>6, <1>7, <1>8, <1>9 DEF AccountsInv

LEMMA AccountsNext == AccountsInv /\ [Next]_vars => AccountsInv'
<1> SUFFICES ASSUME AccountsInv, [Next]_vars PROVE AccountsInv'
  OBVIOUS
<1>1. CASE Next
  <2>1. PICK c \in Calls : Step(c)
    BY <1>1, NextSplits DEF Step
  <2>2. AccountsType' /\ CallInv' /\ StockInv'
    BY <2>1, StepChanges, CallStep, StockStep DEF AccountsInv, CallInv
  <2>3. SignUpInv' /\ SessionInv' /\ StoreInv'
    BY <2>1, SignUpStep, SessionStep, StoreStep DEF AccountsInv
  <2>4. OwnInv' /\ AdminInv'
    BY <2>1, OwnStep, AdminStep DEF AccountsInv
  <2> QED BY <2>2, <2>3, <2>4 DEF AccountsInv
<1>2. CASE UNCHANGED vars
  <2> USE <1>2 DEF AccountsInv, vars, documents, sessions, goods, locals
  <2>1. request' = request
    OBVIOUS
  <2>2. AccountsType' /\ StockInv'
    BY DEF AccountsType, StockInv
  <2>3. \A d : Op(d)' = Op(d) /\ Want(d)' = Want(d) /\ Target(d)' = Target(d) /\ Actor(d)' = Actor(d)
               /\ OwnerOf(d)' = OwnerOf(d)
    BY <2>1, NamesKept
  <2>4. CallInv'
    BY <2>3 DEF CallInv, OnRoute, Meeting, Running, Asks, Authorised, Admitted, Self, Undoing
  <2>5. SignUpInv' /\ SessionInv'
    BY <2>3 DEF SignUpInv, Uncreated, Undone, SessionInv, Found, OwnSession
  <2>6. StoreInv'
    BY <2>3 DEF StoreInv, Quiet, Moulds, Halfway, SawStore, NewRole
  <2>7. OwnInv'
    BY <2>3 DEF OwnInv, IsSeller, Owns, Exempt, Rightly, Uncreated
  <2>8. AdminInv'
    BY <2>3 DEF AdminInv, Contested, Unseats, ActiveAdmin, Running
  <2> QED BY <2>2, <2>4, <2>5, <2>6, <2>7, <2>8
<1> QED BY <1>1, <1>2

LEMMA AccountsInvariant == Spec => []AccountsInv
BY AccountsInit, AccountsNext, PTL DEF Spec

\* A sign-up is whole or leaves nothing: one that succeeded has its account and its
\* profile; one that was refused and repaired has neither, and no session but that of
\* a login that overlapped it (createAccount with its rollback).
THEOREM SignUpsAreWhole == Spec => []SignUpAllOrNothing
<1>1. AccountsInv => SignUpAllOrNothing
  <2> SUFFICES ASSUME AccountsInv, NEW c \in Calls \ torn, Op(c) \in SignUps
               PROVE  /\ pc[c] = "ok" => Exists(c) /\ profile[c] # "none"
                      /\ pc[c] = "refused" =>
                          /\ ~Exists(c) /\ profile[c] = "none"
                          /\ \A s \in live : OwnerOf(s) = c => s \in met[c]
    BY DEF SignUpAllOrNothing
  <2>1. pc[c] = "ok" => Exists(c) /\ profile[c] # "none"
    BY DEF AccountsInv, SignUpInv, Exists
  <2>2. pc[c] = "refused" => ~Exists(c) /\ profile[c] = "none"
    BY DEF AccountsInv, SignUpInv, Undone, Exists
  <2>3. pc[c] = "refused" => \A s \in live : OwnerOf(s) = c => s \in met[c]
    BY NoSessionLeft DEF AccountsInv
  <2> QED BY <2>1, <2>2, <2>3
<1> QED BY <1>1, AccountsInvariant, PTL

\* An active administrator remains unless two calls overlapped that can take one away:
\* changes of role, changes of status, and sign-ups, whose repair deletes the account.
THEOREM AnAdminRemains == Spec => []AdminRemains
<1>1. AccountsInv => AdminRemains
  BY DEF AccountsInv, AdminInv, Contested, AdminRemains
<1> QED BY <1>1, AccountsInvariant, PTL

\* What sellers own has a seller: assertNoSellerOwnedData fails only for a call that
\* overlapped the change of role.
THEOREM OwnersAreSellers == Spec => []BuyerOwnsNothing
<1>1. AccountsInv => BuyerOwnsNothing
  BY DEF AccountsInv, OwnInv, IsSeller, Exempt, BuyerOwnsNothing
<1> QED BY <1>1, AccountsInvariant, PTL

\* A seller without a store profile has a sign-up or a change of role at work, cut
\* short, or overlapped by another change of role.
THEOREM SellersHaveStores == Spec => []SellerHasStore
<1>1. AccountsInv => SellerHasStore
  <2> SUFFICES ASSUME AccountsInv, NEW a \in Accounts, role[a] = "seller", profile[a] # "store"
               PROVE  \E c \in Calls :
                         /\ Op(c) \in SignUps \cup {"role"}
                         /\ Target(c) = a
                         /\ \/ c \in Running \cup torn
                            \/ \E d \in met[c] : Op(d) = "role" /\ Target(d) = a
    BY DEF SellerHasStore
  <2>1. CASE Quiet(a)
    <3>1. PICK c \in Calls : Target(c) = a /\ Halfway(c)
      BY <2>1 DEF AccountsInv, StoreInv
    <3> QED BY <3>1 DEF Halfway, Running, Over
  <2>2. CASE ~Quiet(a)
    BY <2>2 DEF Quiet, Moulds
  <2> QED BY <2>1, <2>2
<1> QED BY <1>1, AccountsInvariant, PTL

\* A product has its inventory, unless its creation is at work, crashed, or failed
\* beyond its own repair.
THEOREM ProductsHaveInventory == Spec => []ProductHasInventory
<1>1. AccountsInv => ProductHasInventory
  BY DEF AccountsInv, AccountsType, StockInv, ProductHasInventory, Running, Over
<1> QED BY <1>1, AccountsInvariant, PTL
=============================================================================
