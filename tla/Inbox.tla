------------------------------- MODULE Inbox -------------------------------
(***************************************************************************)
(* One account's inbox: the notifications pushed to it, the broadcasts its *)
(* role may read, and the calls that page through them, count them and     *)
(* mark them read.  Every query is by account, so the documents of other   *)
(* accounts appear only as broadcasts for other roles.                     *)
(*                                                                         *)
(* Each await is a step of its own.  A call takes the time it works with   *)
(* when it starts its queries, and they answer at later instants, in any   *)
(* order.                                                                  *)
(***************************************************************************)
EXTENDS Naturals, Sequences, FiniteSets, FiniteSetsExt

CONSTANTS
    Notes,          \* personal notifications
    Broadcasts,
    Readers,        \* calls of the account's owner
    PageLimit,      \* query.limit
    MaxUnseen,      \* MAX_UNSEEN_BROADCASTS
    InboxMaxTime,   \* bound on the clock
    InboxMaxFaults  \* bound on failed writes

Never == InboxMaxTime + 1

ASSUME InboxAssumption ==
    /\ Notes \cap Broadcasts = {}
    /\ IsFiniteSet(Notes \cup Broadcasts)
    /\ {"walk", "count", "all"} \cap (Notes \cup Broadcasts) = {}
    /\ PageLimit \in Nat \ {0}
    /\ MaxUnseen \in Nat
    /\ InboxMaxTime \in Nat
    /\ InboxMaxFaults \in Nat

Items == Notes \cup Broadcasts
Times == 0..InboxMaxTime

VARIABLES
    inboxNow,
    stage,          \* of each item: "none", "draft" (stamped, validated) or "stored"
    at,             \* createdAt, publish_at
    until,          \* expire_at, Never if null
    forMe,          \* broadcasts whose audience is empty or has the account's role
    readNotes,      \* notifications with noti_read_at
    receipts,       \* broadcasts with a read receipt
    seenAt,         \* broadcast_seen_at + 1, 0 if null
    asks,           \* what each call is: "walk", "count", "all", or the item it marks
    inboxPc,        \* its control point
    queries,        \* its queries that are still out
    clock,          \* the time it works with
    before,         \* its cursor
    found,          \* what its queries have returned ...
    foundRead,      \* ... the notifications among them that were read ...
    foundSeen,      \* ... and the mark
    shown,          \* pages of a walk: items, and those shown as read
    known,          \* properties only: items it could see when it started
    unread,         \* properties only: items not read when its page or count began
    overlap,        \* properties only: calls that overlapped with another "all"
    inboxFaults

stored    == <<stage, at, until, forMe>>
readState == <<readNotes, receipts, seenAt>>
answer    == <<queries, clock, before, found, foundRead, foundSeen, shown>>
watched   == <<known, unread, overlap>>
inboxVars == <<inboxNow, stored, readState, asks, inboxPc, answer, watched, inboxFaults>>

-----------------------------------------------------------------------------
(* Items *)

IsStored(x) == stage[x] = "stored"

\* visibleBroadcastFilter; a notification is visible once it is stored.
VisibleAt(x, t) ==
    /\ IsStored(x)
    /\ x \in Broadcasts => at[x] <= t /\ until[x] > t /\ x \in forMe

SeenBy(x, seen) == at[x] < seen

IsRead(x) ==
    \/ x \in readNotes
    \/ x \in Broadcasts /\ (x \in receipts \/ SeenBy(x, seenAt))

\* The answers a query sorted by time, newest first, and limited to n may give.
Newest(S, n) ==
    {T \in SUBSET S : /\ Cardinality(T) = Min({n, Cardinality(S)})
                      /\ \A x \in T, y \in S \ T : at[x] >= at[y]}

InboxInit ==
    /\ inboxNow = 1
    /\ stage \in [Items -> {"none", "stored"}]
    /\ at \in [Items -> {0, 1}]
    /\ until \in [Items -> {Never}]
    /\ \A x \in Items : stage[x] = "none" => at[x] = 0
    /\ forMe \in SUBSET Broadcasts
    /\ readNotes = {}
    /\ receipts = {}
    /\ seenAt = 0
    /\ asks \in [Readers -> {"walk", "count", "all"} \cup Items]
    /\ inboxPc = [c \in Readers |-> "idle"]
    /\ queries = [c \in Readers |-> {}]
    /\ clock = [c \in Readers |-> 0]
    /\ before = [c \in Readers |-> 0]
    /\ found = [c \in Readers |-> {}]
    /\ foundRead = [c \in Readers |-> {}]
    /\ foundSeen = [c \in Readers |-> 0]
    /\ shown = [c \in Readers |-> <<>>]
    /\ known = [c \in Readers |-> {}]
    /\ unread = [c \in Readers |-> {}]
    /\ overlap = {}
    /\ inboxFaults = 0

InboxTick ==
    /\ inboxNow < InboxMaxTime
    /\ inboxNow' = inboxNow + 1
    /\ UNCHANGED <<stored, readState, asks, inboxPc, answer, watched, inboxFaults>>

-----------------------------------------------------------------------------
(* push and createBroadcast *)

\* The time is stamped, or the payload validated, before the document is inserted.
Draft(x) ==
    /\ stage[x] = "none"
    /\ stage' = [stage EXCEPT ![x] = "draft"]
    /\ IF x \in Notes
       THEN at' = [at EXCEPT ![x] = inboxNow] /\ UNCHANGED until
       ELSE \E publish \in Times, expire \in Times \cup {Never} :
              /\ expire > publish
              /\ at' = [at EXCEPT ![x] = publish]
              /\ until' = [until EXCEPT ![x] = expire]
    /\ UNCHANGED <<inboxNow, forMe, readState, asks, inboxPc, answer, watched, inboxFaults>>

\* What publishSafely sends afterwards changes nothing that is stored.
Insert(x) ==
    /\ stage[x] = "draft"
    /\ stage' = [stage EXCEPT ![x] = "stored"]
    /\ UNCHANGED <<inboxNow, at, until, forMe, readState, asks, inboxPc, answer, watched, inboxFaults>>

-----------------------------------------------------------------------------
(* getInbox: a client that follows next_cursor to the end *)

Unread == {x \in Items : ~(IsStored(x) /\ IsRead(x))}

\* Queries go out, with the time they work with.
Send(c, point, sent) ==
    /\ inboxPc' = [inboxPc EXCEPT ![c] = point]
    /\ queries' = [queries EXCEPT ![c] = sent]
    /\ clock' = [clock EXCEPT ![c] = inboxNow]
    /\ UNCHANGED <<inboxNow, stored, readState, asks, shown, overlap, inboxFaults>>

StartPage(c) ==
    /\ asks[c] = "walk"
    /\ inboxPc[c] \in {"idle", "next"}
    /\ Send(c, "page", {"personal", "broadcasts", "seen"})
    /\ before' = IF inboxPc[c] = "idle" THEN [before EXCEPT ![c] = inboxNow] ELSE before
    /\ found' = [found EXCEPT ![c] = {}]
    /\ foundRead' = [foundRead EXCEPT ![c] = {}]
    /\ unread' = [unread EXCEPT ![c] = Unread]
    /\ known' = IF inboxPc[c] = "idle"
                THEN [known EXCEPT ![c] = {x \in Items : VisibleAt(x, inboxNow) /\ at[x] < inboxNow}] ELSE known
    /\ UNCHANGED foundSeen

\* One query answers, with one of these sets.
Answer(c, query, sets) ==
    /\ query \in queries[c]
    /\ queries' = [queries EXCEPT ![c] = @ \ {query}]
    /\ \E S \in sets : /\ found' = [found EXCEPT ![c] = @ \cup S]
                       /\ foundRead' = [foundRead EXCEPT ![c] = @ \cup (S \cap readNotes)]
    /\ UNCHANGED <<inboxNow, stored, readState, asks, inboxPc, clock, before, foundSeen, shown,
                   watched, inboxFaults>>

Older(c, S) == {x \in S : VisibleAt(x, clock[c]) /\ at[x] < before[c]}

FindNotifications(c) ==
    inboxPc[c] = "page" /\ Answer(c, "personal", Newest(Older(c, Notes), PageLimit))

FindBroadcasts(c) ==
    inboxPc[c] = "page" /\ Answer(c, "broadcasts", Newest(Older(c, Broadcasts), PageLimit))

\* findBroadcastSeenAt: among the page's queries, and before those of a count.
FindSeenAt(c) ==
    /\ inboxPc[c] = "page"
    /\ "seen" \in queries[c]
    /\ queries' = [queries EXCEPT ![c] = @ \ {"seen"}]
    /\ foundSeen' = [foundSeen EXCEPT ![c] = seenAt]
    /\ UNCHANGED <<inboxNow, stored, readState, asks, inboxPc, clock, before, found, foundRead, shown,
                   watched, inboxFaults>>

\* Mutant: the lists are concatenated and not sorted.
Unsorted(S) ==
    {T \in SUBSET S : /\ Cardinality(T) = Min({PageLimit, Cardinality(S)})
                      /\ T \cap Broadcasts # {} => S \cap Notes \subseteq T}

\* The sort is stable, and notifications come first.
Merged(S) ==
    {T \in Newest(S, PageLimit) :
        \A x \in T \cap Broadcasts, y \in (S \ T) \cap Notes : at[x] > at[y]}

\* findReadBroadcastIds, for the broadcasts that the mark does not cover.
FlaggedRead(c, x) ==
    IF x \in Notes THEN x \in foundRead[c] ELSE SeenBy(x, foundSeen[c]) \/ x \in receipts

Merge(c) ==
    /\ inboxPc[c] = "page"
    /\ queries[c] = {}
    /\ \E page \in Merged(found[c]) :
        /\ shown' = [shown EXCEPT ![c] = Append(@, [items |-> page,
                                                   read |-> {x \in page : FlaggedRead(c, x)}])]
        /\ IF Cardinality(page) = PageLimit
           THEN /\ inboxPc' = [inboxPc EXCEPT ![c] = "next"]
                /\ before' = [before EXCEPT ![c] = Min({at[x] : x \in page})]
           ELSE inboxPc' = [inboxPc EXCEPT ![c] = "over"] /\ UNCHANGED before
    /\ UNCHANGED <<inboxNow, stored, readState, asks, queries, clock, found, foundRead, foundSeen,
                   watched, inboxFaults>>

-----------------------------------------------------------------------------
(* getUnreadCount *)

\* The mark is read first; the time is taken when it has been.
StartCount(c) ==
    /\ asks[c] = "count"
    /\ inboxPc[c] = "idle"
    /\ known' = [known EXCEPT ![c] = {x \in Items : IsStored(x)}]
    /\ unread' = [unread EXCEPT ![c] = Unread]
    /\ foundSeen' = [foundSeen EXCEPT ![c] = seenAt]
    /\ Send(c, "count", {"personal", "broadcasts"})
    /\ UNCHANGED <<before, found, foundRead>>

CountUnread(c) ==
    inboxPc[c] = "count"
    /\ Answer(c, "personal", {{x \in Notes : IsStored(x) /\ x \notin readNotes}})

\* findUnseenBroadcastIds: as many as MAX_UNSEEN_BROADCASTS of them, in no order.
FindUnseen(c) ==
    LET unseen == {x \in Broadcasts : VisibleAt(x, clock[c]) /\ ~SeenBy(x, foundSeen[c])} IN
    /\ inboxPc[c] = "count"
    /\ Answer(c, "broadcasts", kSubset(Min({MaxUnseen, Cardinality(unseen)}), unseen))

\* Mutant: receipts are not subtracted.
CountAll(c) ==
    /\ inboxPc[c] = "count"
    /\ queries[c] = {}
    /\ inboxPc' = [inboxPc EXCEPT ![c] = "over"]
    /\ UNCHANGED <<inboxNow, stored, readState, asks, queries, clock, before, found, foundRead,
                   foundSeen, shown, watched, inboxFaults>>

\* Those with a receipt are subtracted.
Count(c) ==
    /\ inboxPc[c] = "count"
    /\ queries[c] = {}
    /\ found' = [found EXCEPT ![c] = @ \ receipts]
    /\ inboxPc' = [inboxPc EXCEPT ![c] = "over"]
    /\ UNCHANGED <<inboxNow, stored, readState, asks, queries, clock, before, foundRead, foundSeen,
                   shown, watched, inboxFaults>>

-----------------------------------------------------------------------------
(* markRead and markAllRead *)

\* An id is known once its document is stored.
StartMark(c) ==
    /\ asks[c] \in Items
    /\ IsStored(asks[c])
    /\ inboxPc[c] = "idle"
    /\ IF asks[c] \in Notes
       THEN readNotes' = readNotes \cup {asks[c]} /\ UNCHANGED <<receipts, seenAt>>
       ELSE UNCHANGED readState
    /\ inboxPc' = [inboxPc EXCEPT ![c] = IF asks[c] \in Notes THEN "over" ELSE "find"]
    /\ UNCHANGED <<inboxNow, stored, asks, answer, watched, inboxFaults>>

\* findVisibleBroadcast, or 404.
FindBroadcast(c) ==
    /\ inboxPc[c] = "find"
    /\ inboxPc' = [inboxPc EXCEPT ![c] = IF VisibleAt(asks[c], inboxNow) THEN "mark" ELSE "over"]
    /\ UNCHANGED <<inboxNow, stored, readState, asks, answer, watched, inboxFaults>>

MarkBroadcast(c) ==
    /\ inboxPc[c] = "mark"
    /\ receipts' = receipts \cup {asks[c]}
    /\ inboxPc' = [inboxPc EXCEPT ![c] = "over"]
    /\ UNCHANGED <<inboxNow, stored, readNotes, seenAt, asks, answer, watched, inboxFaults>>

Marking == {c \in Readers : asks[c] = "all" /\ queries[c] # {}}

\* One time for both writes, which go out at once.
StartMarkAll(c) ==
    /\ asks[c] = "all"
    /\ inboxPc[c] = "idle"
    /\ inboxPc' = [inboxPc EXCEPT ![c] = "all"]
    /\ queries' = [queries EXCEPT ![c] = {"notes", "mark"}]
    /\ clock' = [clock EXCEPT ![c] = inboxNow]
    /\ overlap' = IF Marking = {} THEN overlap ELSE overlap \cup {c}
    /\ UNCHANGED <<inboxNow, stored, readState, asks, before, found, foundRead, foundSeen, shown,
                   known, unread, inboxFaults>>

\* One of the writes is over; the call ends with the last one, or failed before.
Written(c, write) ==
    /\ write \in queries[c]
    /\ queries' = [queries EXCEPT ![c] = @ \ {write}]
    /\ UNCHANGED <<inboxNow, stored, asks, clock, before, found, foundRead, foundSeen, shown, watched>>

EndsWith(c, write) ==
    IF inboxPc[c] = "all" /\ queries[c] = {write} THEN [inboxPc EXCEPT ![c] = "over"] ELSE inboxPc

MarkAllNotifications(c) ==
    /\ Written(c, "notes")
    /\ inboxPc' = EndsWith(c, "notes")
    /\ readNotes' = readNotes \cup {x \in Notes : IsStored(x)}
    /\ UNCHANGED <<receipts, seenAt, inboxFaults>>

\* Mutant: the receipts are thought to be covered by the mark.
SetSeenAndTidy(c) ==
    /\ Written(c, "mark")
    /\ inboxPc' = EndsWith(c, "mark")
    /\ seenAt' = clock[c] + 1
    /\ receipts' = {}
    /\ UNCHANGED <<readNotes, inboxFaults>>

SetBroadcastSeenAt(c) ==
    /\ Written(c, "mark")
    /\ inboxPc' = EndsWith(c, "mark")
    /\ seenAt' = clock[c] + 1
    /\ UNCHANGED <<readNotes, receipts, inboxFaults>>

\* A write fails and the call with it; the other write goes on.
WriteFails(c) ==
    /\ inboxFaults < InboxMaxFaults
    /\ inboxFaults' = inboxFaults + 1
    /\ \E write \in {"notes", "mark"} : Written(c, write)
    /\ inboxPc' = [inboxPc EXCEPT ![c] = "failed"]
    /\ UNCHANGED readState

-----------------------------------------------------------------------------
InboxCall(c) ==
    \/ StartPage(c) \/ FindNotifications(c) \/ FindBroadcasts(c) \/ FindSeenAt(c) \/ Merge(c)
    \/ StartCount(c) \/ CountUnread(c) \/ FindUnseen(c) \/ Count(c)
    \/ StartMark(c) \/ FindBroadcast(c) \/ MarkBroadcast(c)
    \/ StartMarkAll(c) \/ MarkAllNotifications(c) \/ SetBroadcastSeenAt(c) \/ WriteFails(c)

InboxNext ==
    \/ InboxTick
    \/ \E x \in Items : Draft(x) \/ Insert(x)
    \/ \E c \in Readers : InboxCall(c)

InboxSpec == InboxInit /\ [][InboxNext]_inboxVars

-----------------------------------------------------------------------------
(* Properties *)

PageItems(c, i) == shown[c][i].items

\* A walk through the inbox shows every older item that was visible when it began
\* and still is when it ends, unless the item has the very time of a page's last
\* item; it shows nothing twice, and each page is older than the one before.
PagesComplete ==
    \A c \in Readers : asks[c] = "walk" =>
        /\ \A i, j \in 1..Len(shown[c]) : i < j =>
              \A x \in PageItems(c, i), y \in PageItems(c, j) : at[y] < at[x]
        /\ inboxPc[c] = "over" =>
              \A x \in known[c] : VisibleAt(x, inboxNow) =>
                \E i \in 1..Len(shown[c]) :
                    x \in PageItems(c, i) \/ \E y \in PageItems(c, i) : at[y] = at[x]

\* What a page shows as read is read, and what was read when its queries began is
\* shown as read, unless two calls marked everything at the same time.
ReadFlagTrue ==
    overlap = {} => \A c \in Readers : inboxPc[c] \in {"next", "over"} /\ shown[c] # <<>> =>
        LET last == shown[c][Len(shown[c])] IN
        \A x \in last.items : (x \notin unread[c] => x \in last.read) /\ (x \in last.read => IsRead(x))

\* The unread count counts everything that stayed visible and unread while it ran,
\* and nothing that was read before, unless more broadcasts are unseen than it
\* fetches, or two calls marked everything at the same time.
BadgeTrue ==
    \A c \in Readers : asks[c] = "count" /\ inboxPc[c] = "over" /\ overlap = {} =>
        /\ found[c] \subseteq unread[c] \cup (Items \ known[c])
        /\ Cardinality(Broadcasts) <= MaxUnseen =>
              {x \in known[c] : VisibleAt(x, clock[c]) /\ VisibleAt(x, inboxNow) /\ ~IsRead(x)} \subseteq found[c]

\* Both, for whatever the account is shown of what it has read.
ReadShownRight == ReadFlagTrue /\ BadgeTrue

\* What is read stays read, unless two calls marked everything at the same time.
ReadStaysRead ==
    [][\A x \in Items : IsStored(x) /\ IsRead(x) => IsRead(x)' \/ overlap' # {}]_inboxVars
=============================================================================
