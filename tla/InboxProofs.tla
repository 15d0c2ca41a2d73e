----------------------------- MODULE InboxProofs -----------------------------
(***************************************************************************)
(* What an account is shown of its inbox, for every finite set of          *)
(* notifications and broadcasts, every set of calls and every page limit.  *)
(*                                                                         *)
(* The invariant follows a walk (what it knew and has not shown is older   *)
(* than its cursor, and once the query has answered, found or behind a     *)
(* page of newer items), a count (what it leaves out and what it has       *)
(* found) and the mark (without an overlap it does not go back).           *)
(***************************************************************************)
EXTENDS Inbox, TLAPS, FiniteSetTheorems, SequenceTheorems, WellFoundedInduction

Page == [items : SUBSET Items, read : SUBSET Items]

InboxType ==
    /\ inboxNow \in Nat
    /\ stage \in [Items -> {"none", "draft", "stored"}]
    /\ at \in [Items -> Nat]
    /\ until \in [Items -> Nat]
    /\ forMe \in SUBSET Broadcasts
    /\ readNotes \in SUBSET Notes
    /\ receipts \in SUBSET Broadcasts
    /\ seenAt \in Nat
    /\ asks \in [Readers -> {"walk", "count", "all"} \cup Items]
    /\ inboxPc \in [Readers -> {"idle", "page", "next", "count", "find", "mark", "all", "over", "failed"}]
    /\ queries \in [Readers -> SUBSET {"personal", "broadcasts", "seen", "notes", "mark"}]
    /\ clock \in [Readers -> Nat]
    /\ before \in [Readers -> Nat]
    /\ found \in [Readers -> SUBSET Items]
    /\ foundRead \in [Readers -> SUBSET Items]
    /\ foundSeen \in [Readers -> Nat]
    /\ shown \in [Readers -> Seq(Page)]
    /\ known \in [Readers -> SUBSET Items]
    /\ unread \in [Readers -> SUBSET Items]
    /\ overlap \in SUBSET Readers

\* Where a call of each kind may be, and the queries it may have out.
InboxPlace(c) ==
    /\ asks[c] = "walk" =>
         /\ inboxPc[c] \in {"idle", "page", "next", "over"}
         /\ queries[c] \subseteq {"personal", "broadcasts", "seen"}
         /\ inboxPc[c] # "page" => queries[c] = {}
    /\ asks[c] = "count" =>
         /\ inboxPc[c] \in {"idle", "count", "over"}
         /\ queries[c] \subseteq {"personal", "broadcasts"}
         /\ inboxPc[c] # "count" => queries[c] = {}
    /\ asks[c] = "all" =>
         /\ inboxPc[c] \in {"idle", "all", "over", "failed"}
         /\ queries[c] \subseteq {"notes", "mark"}
         /\ inboxPc[c] = "idle" => queries[c] = {}
    /\ asks[c] \in Items =>
         /\ inboxPc[c] \in {"idle", "find", "mark", "over"}
         /\ inboxPc[c] \in {"find", "mark"} => asks[c] \in Broadcasts
         /\ queries[c] = {}
    /\ asks[c] # "walk" \/ inboxPc[c] = "idle" => shown[c] = <<>>

\* What a call has found is stored, and read if it says so.
Finds(c) ==
    /\ clock[c] <= inboxNow
    /\ foundRead[c] \subseteq readNotes
    /\ \A x \in found[c] : IsStored(x)
    /\ \A i \in 1..Len(shown[c]) : \A x \in PageItems(c, i) : IsStored(x)

CallsInv == \A c \in Readers : InboxPlace(c) /\ Finds(c)

-----------------------------------------------------------------------------
(* The mark *)

\* As long as two of them do not overlap, one call marks everything, with a time not
\* before the mark.
MarkInv ==
    /\ seenAt <= inboxNow + 1
    /\ overlap = {} =>
         /\ \A c, d \in Marking : c = d
         /\ \A c \in Marking : seenAt <= clock[c] + 1
         /\ \A c \in Readers : foundSeen[c] <= seenAt

-----------------------------------------------------------------------------
(* What is shown as read *)

\* A page will show as read what was read when its queries began.
KeepsRead(c) ==
    \A x \in Items \ unread[c] :
        /\ IsStored(x)
        /\ x \in Notes => x \in readNotes /\ (x \in found[c] => x \in foundRead[c])
        /\ x \in Broadcasts =>
             x \in receipts \/ at[x] < (IF "seen" \in queries[c] THEN seenAt ELSE foundSeen[c])

FlagsTrue(c) ==
    LET last == shown[c][Len(shown[c])] IN
    \A x \in last.items : (x \notin unread[c] => x \in last.read) /\ (x \in last.read => IsRead(x))

FlagInv ==
    overlap = {} => \A c \in Readers :
        /\ inboxPc[c] = "page" => KeepsRead(c)
        /\ inboxPc[c] \in {"next", "over"} /\ shown[c] # <<>> => FlagsTrue(c)

-----------------------------------------------------------------------------
(* The count *)

\* What a count leaves out.
Omits(c) ==
    \A x \in Items \ unread[c] :
        /\ IsStored(x)
        /\ x \in Notes => x \in readNotes /\ x \notin found[c]
        /\ x \in Broadcasts =>
             \/ x \in receipts /\ (inboxPc[c] = "over" => x \notin found[c])
             \/ at[x] < foundSeen[c] /\ x \notin found[c]

\* What it counts.
Includes(c) ==
    \A x \in known[c] :
        /\ IsStored(x)
        /\ x \in Notes /\ "personal" \notin queries[c] => x \in found[c] \/ x \in readNotes
        /\ x \in Broadcasts /\ "broadcasts" \notin queries[c] /\ Cardinality(Broadcasts) <= MaxUnseen =>
              \/ x \in found[c] \/ x \in receipts
              \/ ~VisibleAt(x, clock[c]) \/ at[x] < foundSeen[c]

CountInv ==
    \A c \in Readers : asks[c] = "count" =>
        IF inboxPc[c] = "idle" THEN found[c] = {} ELSE Omits(c) /\ Includes(c)

-----------------------------------------------------------------------------
(* The walk *)

\* Each page is older than the one before, and the cursor is where the last one ends.
Falling(c) ==
    \A i, j \in 1..Len(shown[c]) : i < j =>
        \A x \in PageItems(c, i), y \in PageItems(c, j) : at[y] < at[x]

Ordered(c) ==
    /\ Falling(c)
    /\ inboxPc[c] # "over" =>
          \A i \in 1..Len(shown[c]) : \A x \in PageItems(c, i) : before[c] <= at[x]
    /\ inboxPc[c] = "page" => \A x \in found[c] : at[x] < before[c]

Covered(c, x) ==
    \E i \in 1..Len(shown[c]) : x \in PageItems(c, i) \/ \E y \in PageItems(c, i) : at[y] = at[x]

\* An item is found, or as many newer ones of a page.
Reached(c, x) ==
    x \in found[c] \/ \E T \in SUBSET found[c] :
                         Cardinality(T) = PageLimit /\ \A y \in T : at[y] >= at[x]

Remains(c, x) ==
    /\ inboxPc[c] # "over"
    /\ at[x] < before[c]
    /\ inboxPc[c] = "page" =>
         /\ x \in Notes /\ "personal" \notin queries[c] => Reached(c, x)
         /\ x \in Broadcasts /\ "broadcasts" \notin queries[c] => Reached(c, x)

Follows(c, x) ==
    /\ IsStored(x)
    /\ x \in Broadcasts => at[x] <= clock[c] /\ x \in forMe
    /\ VisibleAt(x, inboxNow) => Covered(c, x) \/ Remains(c, x)

WalkInv ==
    \A c \in Readers : asks[c] = "walk" =>
        Ordered(c) /\ (inboxPc[c] # "idle" => \A x \in known[c] : Follows(c, x))

InboxInv == InboxType /\ CallsInv /\ MarkInv /\ FlagInv /\ CountInv /\ WalkInv

-----------------------------------------------------------------------------
(* Sets of items *)

LEMMA MinIsFirst ==
    ASSUME NEW S \in SUBSET Nat, S # {}
    PROVE  Min(S) \in S /\ \A s \in S : Min(S) <= s
  <1>2. PICK x \in S : \A y \in S : ~(<<y, x>> \in OpToRel(<, Nat))
    BY WFMin, NatLessThanWellFounded, Zenon
  <1>3. ASSUME NEW y \in S
        PROVE  x <= y
    <2>1. x \in Nat /\ y \in Nat
      OBVIOUS
    <2>2. <<y, x>> \in OpToRel(<, Nat) <=> y < x
      BY <2>1 DEF OpToRel
    <2>3. ~(y < x)
      BY <1>2, <2>2, Zenon
    <2> QED
      BY <2>1, <2>3
  <1>4. \E z \in S : \A y \in S : z <= y
    BY <1>3
  <1> QED
    BY <1>4 DEF Min

LEMMA FiniteItems ==
    ASSUME NEW S \in SUBSET Items
    PROVE  IsFiniteSet(S) /\ Cardinality(S) \in Nat
<1>1. IsFiniteSet(S)
  BY InboxAssumption, FS_Subset DEF Items
<1> QED BY <1>1, FS_CardinalityType

\* The newest items of a set: all of it, or as many as are asked for.
LEMMA NewestIs ==
    ASSUME InboxType, NEW S \in SUBSET Items, NEW n \in Nat, NEW T \in Newest(S, n)
    PROVE  /\ T \in SUBSET S
           /\ \A x \in T, y \in S \ T : at[x] >= at[y]
           /\ T # S => Cardinality(T) = n
           /\ Cardinality(T) <= n /\ Cardinality(T) \in Nat
<1>1. /\ T \in SUBSET S
      /\ \A x \in T, y \in S \ T : at[x] >= at[y]
      /\ Cardinality(T) = Min({n, Cardinality(S)})
  BY DEF Newest
<1>2. Cardinality(S) \in Nat /\ Cardinality(T) \in Nat /\ IsFiniteSet(S)
  BY <1>1, FiniteItems
<1>3. /\ Min({n, Cardinality(S)}) \in {n, Cardinality(S)}
      /\ Min({n, Cardinality(S)}) <= n
  BY <1>2, MinIsFirst
<1>4. T # S => Cardinality(T) # Cardinality(S)
  BY <1>1, <1>2, FS_Subset
<1> QED BY <1>1, <1>2, <1>3, <1>4

\* A page is the newest of what was found.
LEMMA MergedIs ==
    ASSUME InboxType, NEW c \in Readers, NEW page \in Merged(found[c])
    PROVE  page \in Newest(found[c], PageLimit) /\ page \in SUBSET found[c]
BY NewestIs, InboxAssumption DEF Merged, InboxType

\* The time of the oldest item of a page.
LEMMA PageEnd ==
    ASSUME InboxType, NEW page \in SUBSET Items, page # {}
    PROVE  /\ Min({at[x] : x \in page}) \in Nat
           /\ \E x \in page : Min({at[y] : y \in page}) = at[x]
           /\ \A x \in page : Min({at[y] : y \in page}) <= at[x]
<1> DEFINE S == {at[x] : x \in page}
<1>1. S \in SUBSET Nat /\ S # {}
  BY DEF InboxType
<1>2. Min(S) \in S /\ \A s \in S : Min(S) <= s
  BY <1>1, MinIsFirst
<1> QED BY <1>1, <1>2

\* A query answers with one of the sets.
LEMMA AnswerIs ==
    ASSUME InboxType, NEW c \in Readers, NEW query, NEW sets, \A S \in sets : S \subseteq Items,
           Answer(c, query, sets)
    PROVE  /\ \E S \in sets : found'[c] = found[c] \cup S
                              /\ foundRead'[c] = foundRead[c] \cup (S \cap readNotes)
           /\ found' \in [Readers -> SUBSET Items] /\ foundRead' \in [Readers -> SUBSET Items]
           /\ query \in queries[c] /\ queries'[c] = queries[c] \ {query}
           /\ queries' \in [Readers -> SUBSET {"personal", "broadcasts", "seen", "notes", "mark"}]
           /\ \A d \in Readers : d # c => /\ found'[d] = found[d] /\ foundRead'[d] = foundRead[d]
                                          /\ queries'[d] = queries[d]
           /\ UNCHANGED <<inboxNow, stored, readState, asks, inboxPc, clock, before, foundSeen,
                          shown, watched, inboxFaults>>
<1>1. PICK S \in sets : /\ found' = [found EXCEPT ![c] = @ \cup S]
                        /\ foundRead' = [foundRead EXCEPT ![c] = @ \cup (S \cap readNotes)]
  BY DEF Answer
<1>2. S \subseteq Items
  OBVIOUS
<1> QED BY <1>1, <1>2 DEF Answer, InboxType

LEMMA AnswerKeeps ==
    ASSUME InboxType, NEW c \in Readers, NEW query, NEW sets, \A S \in sets : S \subseteq Items,
           Answer(c, query, sets)
    PROVE  /\ InboxType'
           /\ UNCHANGED <<inboxNow, stored, readState, asks, inboxPc, clock, before, foundSeen,
                          shown, known, unread, overlap, inboxFaults>>
           /\ \A d \in Readers : d # c => /\ found'[d] = found[d] /\ foundRead'[d] = foundRead[d]
                                          /\ queries'[d] = queries[d]
<1>1. /\ found' \in [Readers -> SUBSET Items] /\ foundRead' \in [Readers -> SUBSET Items]
      /\ queries' \in [Readers -> SUBSET {"personal", "broadcasts", "seen", "notes", "mark"}]
      /\ \A d \in Readers : d # c => /\ found'[d] = found[d] /\ foundRead'[d] = foundRead[d]
                                     /\ queries'[d] = queries[d]
  BY AnswerIs
<1>2. UNCHANGED <<inboxNow, stored, readState, asks, inboxPc, clock, before, foundSeen, shown,
                  known, unread, overlap, inboxFaults>>
  BY DEF Answer, watched
<1> QED BY <1>1, <1>2 DEF InboxType, stored, readState

-----------------------------------------------------------------------------
(* What the steps change *)

Background == InboxTick \/ \E x \in Items : Draft(x) \/ Insert(x)

\* Time passes and items are stored: what is stored stays as it is.
LEMMA BackgroundChanges ==
    ASSUME InboxType, Background
    PROVE  /\ InboxType'
           /\ inboxNow <= inboxNow'
           /\ \A x \in Items : IsStored(x) => IsStored(x)' /\ at'[x] = at[x] /\ until'[x] = until[x]
           /\ UNCHANGED <<forMe, readState, asks, inboxPc, answer, watched>>
<1>1. CASE InboxTick
  BY <1>1 DEF InboxTick, InboxType, IsStored, stored, readState, answer, watched
<1>2. ASSUME NEW x \in Items, Draft(x)
      PROVE  /\ stage' = [stage EXCEPT ![x] = "draft"] /\ stage[x] = "none"
             /\ at' \in [Items -> Nat] /\ until' \in [Items -> Nat]
             /\ \A y \in Items : y # x => at'[y] = at[y] /\ until'[y] = until[y]
             /\ UNCHANGED <<inboxNow, forMe, readState, asks, inboxPc, answer, watched>>
  <2>1. CASE x \in Notes
    BY <1>2, <2>1 DEF Draft, InboxType
  <2>2. CASE x \notin Notes
    <3>1. PICK publish \in Times, expire \in Times \cup {Never} :
             /\ at' = [at EXCEPT ![x] = publish] /\ until' = [until EXCEPT ![x] = expire]
      BY <1>2, <2>2 DEF Draft
    <3>2. publish \in Nat /\ expire \in Nat
      BY InboxAssumption DEF Times, Never
    <3> QED BY <1>2, <3>1, <3>2 DEF Draft, InboxType
  <2> QED BY <2>1, <2>2
<1>3. CASE \E x \in Items : Draft(x)
  <2>1. PICK x \in Items : Draft(x)
    BY <1>3
  <2>2. /\ stage' = [stage EXCEPT ![x] = "draft"] /\ stage[x] = "none"
        /\ at' \in [Items -> Nat] /\ until' \in [Items -> Nat]
        /\ \A y \in Items : y # x => at'[y] = at[y] /\ until'[y] = until[y]
        /\ UNCHANGED <<inboxNow, forMe, readState, asks, inboxPc, answer, watched>>
    BY <1>2, <2>1
  <2> QED BY <2>2 DEF InboxType, IsStored, readState, answer, watched
<1>4. CASE \E x \in Items : Insert(x)
  BY <1>4 DEF Insert, InboxType, IsStored, readState, answer, watched
<1> QED BY <1>1, <1>3, <1>4 DEF Background

LEMMA Sources ==
    ASSUME InboxType, NEW c \in Readers
    PROVE  /\ \A S \in Newest(Older(c, Notes), PageLimit) : S \subseteq Items
           /\ \A S \in Newest(Older(c, Broadcasts), PageLimit) : S \subseteq Items
           /\ \A S \in {{x \in Notes : IsStored(x) /\ x \notin readNotes}} : S \subseteq Items
           /\ \A n, S : \A T \in kSubset(n, S) : T \subseteq S /\ Cardinality(T) = n
BY DEF Newest, Older, Items, kSubset

\* A page is appended to what the walk has shown.
LEMMA MergeIs ==
    ASSUME InboxType, NEW c \in Readers, Merge(c)
    PROVE  \E page \in Merged(found[c]), n \in Nat :
              /\ n = Len(shown[c]) + 1 /\ page \in SUBSET found[c] /\ page \in SUBSET Items
              /\ shown' \in [Readers -> Seq(Page)]
              /\ \A d \in Readers : d # c => shown'[d] = shown[d] /\ inboxPc'[d] = inboxPc[d]
                                             /\ before'[d] = before[d]
              /\ Len(shown[c]) \in Nat /\ Len(shown'[c]) = n /\ shown'[c] # <<>>
              /\ \A i \in 1..Len(shown[c]) : PageItems(c, i)' = PageItems(c, i)
              /\ shown'[c][n].items = page
              /\ shown'[c][n].read = {x \in page : FlaggedRead(c, x)}
              /\ before' \in [Readers -> Nat]
              /\ \/ /\ Cardinality(page) = PageLimit /\ inboxPc'[c] = "next"
                    /\ before'[c] = Min({at[x] : x \in page})
                 \/ Cardinality(page) # PageLimit /\ inboxPc'[c] = "over" /\ before' = before
<1>1. PICK page \in Merged(found[c]) :
        /\ shown' = [shown EXCEPT ![c] = Append(@, [items |-> page,
                                                   read |-> {x \in page : FlaggedRead(c, x)}])]
        /\ IF Cardinality(page) = PageLimit
           THEN /\ inboxPc' = [inboxPc EXCEPT ![c] = "next"]
                /\ before' = [before EXCEPT ![c] = Min({at[x] : x \in page})]
           ELSE inboxPc' = [inboxPc EXCEPT ![c] = "over"] /\ UNCHANGED before
  BY DEF Merge
<1> DEFINE flagged == {x \in page : FlaggedRead(c, x)}
           entry == [items |-> page, read |-> flagged]
<1>2. page \in SUBSET found[c] /\ page \in SUBSET Items
  BY MergedIs DEF InboxType
<1>3. entry \in Page /\ entry.items = page /\ entry.read = flagged
  BY <1>2 DEF Page
<1>4. shown[c] \in Seq(Page)
  BY DEF InboxType
<1>5. shown' = [shown EXCEPT ![c] = Append(shown[c], entry)]
  BY <1>1
<1> HIDE DEF entry, flagged
<1>6. /\ Append(shown[c], entry) \in Seq(Page) /\ Append(shown[c], entry) # <<>>
      /\ Len(Append(shown[c], entry)) = Len(shown[c]) + 1
      /\ \A i \in 1..Len(shown[c]) : Append(shown[c], entry)[i] = shown[c][i]
      /\ Append(shown[c], entry)[Len(shown[c]) + 1] = entry
      /\ Len(shown[c]) \in Nat
  BY <1>3, <1>4, AppendProperties, LenProperties
<1>7. /\ shown' \in [Readers -> Seq(Page)] /\ shown'[c] = Append(shown[c], entry)
      /\ \A d \in Readers : d # c => shown'[d] = shown[d]
  BY <1>5, <1>6 DEF InboxType
<1>8. /\ \A i \in 1..Len(shown[c]) : PageItems(c, i)' = PageItems(c, i)
      /\ shown'[c][Len(shown[c]) + 1].items = page
      /\ shown'[c][Len(shown[c]) + 1].read = flagged
  <2>1. \A i : PageItems(c, i)' = shown'[c][i].items /\ PageItems(c, i) = shown[c][i].items
    BY DEF PageItems
  <2>2. \A i \in 1..Len(shown[c]) : shown'[c][i] = shown[c][i]
    BY <1>6, <1>7
  <2>3. shown'[c][Len(shown[c]) + 1] = entry
    BY <1>6, <1>7
  <2>4. \A i \in 1..Len(shown[c]) : PageItems(c, i)' = PageItems(c, i)
    BY <2>1, <2>2
  <2>5. shown'[c][Len(shown[c]) + 1].items = page
    BY <1>3, <2>3
  <2>6. shown'[c][Len(shown[c]) + 1].read = flagged
    BY <1>3, <2>3
  <2> QED BY <2>4, <2>5, <2>6
<1>9. /\ before' \in [Readers -> Nat]
      /\ \A d \in Readers : d # c => inboxPc'[d] = inboxPc[d] /\ before'[d] = before[d]
      /\ \/ /\ Cardinality(page) = PageLimit /\ inboxPc'[c] = "next"
            /\ before'[c] = Min({at[x] : x \in page})
         \/ Cardinality(page) # PageLimit /\ inboxPc'[c] = "over" /\ before' = before
  <2>1. CASE Cardinality(page) = PageLimit
    <3>1. page # {}
      <4>1. Cardinality(page) # 0
        BY <2>1, InboxAssumption
      <4> QED BY <4>1, FS_EmptySet
    <3>2. Min({at[x] : x \in page}) \in Nat
      BY <1>2, <3>1, PageEnd
    <3> QED BY <1>1, <2>1, <3>2 DEF InboxType
  <2>2. CASE Cardinality(page) # PageLimit
    BY <1>1, <2>2 DEF InboxType
  <2> QED BY <2>1, <2>2
<1> DEFINE n == Len(shown[c]) + 1
<1>10. n \in Nat /\ n = Len(shown[c]) + 1
  BY <1>6
<1>11. shown'[c][n].items = page /\ shown'[c][n].read = flagged /\ Len(shown'[c]) = n
  BY <1>6, <1>7, <1>8
<1> HIDE DEF n
<1> QED BY <1>2, <1>6, <1>7, <1>8, <1>9, <1>10, <1>11 DEF flagged

\* The steps of a call of each kind.
LEMMA KindSteps ==
    ASSUME InboxType, NEW c \in Readers, InboxPlace(c), InboxCall(c)
    PROVE  /\ asks[c] = "walk" =>
                StartPage(c) \/ FindNotifications(c) \/ FindBroadcasts(c) \/ FindSeenAt(c) \/ Merge(c)
           /\ asks[c] = "count" => StartCount(c) \/ CountUnread(c) \/ FindUnseen(c) \/ Count(c)
           /\ asks[c] = "all" =>
                \/ StartMarkAll(c) \/ MarkAllNotifications(c) \/ SetBroadcastSeenAt(c) \/ WriteFails(c)
           /\ asks[c] \in Items => StartMark(c) \/ FindBroadcast(c) \/ MarkBroadcast(c)
           /\ asks[c] \in {"walk", "count", "all"} \cup Items
           /\ asks[c] \in Items => asks[c] \notin {"walk", "count", "all"}
<1>0. /\ asks[c] \in {"walk", "count", "all"} \cup Items
      /\ asks[c] \in Items => asks[c] \notin {"walk", "count", "all"}
  BY InboxAssumption DEF InboxType, Items
<1>1. CASE StartPage(c) \/ StartCount(c) \/ StartMarkAll(c) \/ StartMark(c)
  BY <1>0, <1>1 DEF StartPage, StartCount, StartMarkAll, StartMark
<1>2. CASE FindNotifications(c) \/ FindBroadcasts(c) \/ FindSeenAt(c) \/ Merge(c)
  <2>1. inboxPc[c] = "page"
    BY <1>2 DEF FindNotifications, FindBroadcasts, FindSeenAt, Merge
  <2>2. asks[c] = "walk"
    BY <1>0, <2>1 DEF InboxPlace
  <2> QED BY <1>0, <1>2, <2>2
<1>3. CASE CountUnread(c) \/ FindUnseen(c) \/ Count(c)
  <2>1. inboxPc[c] = "count"
    BY <1>3 DEF CountUnread, FindUnseen, Count
  <2>2. asks[c] = "count"
    BY <1>0, <2>1 DEF InboxPlace
  <2> QED BY <1>0, <1>3, <2>2
<1>4. CASE FindBroadcast(c) \/ MarkBroadcast(c)
  <2>1. inboxPc[c] \in {"find", "mark"}
    BY <1>4 DEF FindBroadcast, MarkBroadcast
  <2>2. asks[c] \in Items
    BY <1>0, <2>1 DEF InboxPlace
  <2> QED BY <1>0, <1>4, <2>2
<1>5. CASE MarkAllNotifications(c) \/ SetBroadcastSeenAt(c) \/ WriteFails(c)
  <2>1. "notes" \in queries[c] \/ "mark" \in queries[c]
    BY <1>5 DEF MarkAllNotifications, SetBroadcastSeenAt, WriteFails, Written
  <2>2. asks[c] = "all"
    BY <1>0, <2>1 DEF InboxPlace
  <2> QED BY <1>0, <1>5, <2>2
<1> QED BY <1>1, <1>2, <1>3, <1>4, <1>5 DEF InboxCall

\* A call changes nothing of the others, and nobody becomes unread by it but through
\* the mark.
LEMMA CallChanges ==
    ASSUME InboxType, NEW c \in Readers, InboxPlace(c), InboxCall(c)
    PROVE  /\ InboxType'
           /\ UNCHANGED <<inboxNow, stored, asks>>
           /\ readNotes \subseteq readNotes' /\ receipts \subseteq receipts'
           /\ overlap \subseteq overlap'
           /\ seenAt' # seenAt => SetBroadcastSeenAt(c)
           /\ \A d \in Readers : d # c =>
                /\ inboxPc'[d] = inboxPc[d] /\ queries'[d] = queries[d] /\ clock'[d] = clock[d]
                /\ before'[d] = before[d] /\ found'[d] = found[d] /\ foundRead'[d] = foundRead[d]
                /\ foundSeen'[d] = foundSeen[d] /\ shown'[d] = shown[d]
                /\ known'[d] = known[d] /\ unread'[d] = unread[d]
<1>2. CASE FindNotifications(c)
  <2> DEFINE sets == Newest(Older(c, Notes), PageLimit)
  <2>1. Answer(c, "personal", sets) /\ \A S \in sets : S \subseteq Items
    BY <1>2, Sources DEF FindNotifications
  <2> HIDE DEF sets
  <2>2. /\ InboxType'
        /\ UNCHANGED <<inboxNow, stored, readState, asks, inboxPc, clock, before, foundSeen,
                       shown, known, unread, overlap, inboxFaults>>
        /\ \A d \in Readers : d # c => /\ found'[d] = found[d] /\ foundRead'[d] = foundRead[d]
                                       /\ queries'[d] = queries[d]
    BY <2>1, AnswerKeeps
  <2> QED BY <2>2 DEF stored, readState
<1>3. CASE FindBroadcasts(c)
  <2> DEFINE sets == Newest(Older(c, Broadcasts), PageLimit)
  <2>1. Answer(c, "broadcasts", sets) /\ \A S \in sets : S \subseteq Items
    BY <1>3, Sources DEF FindBroadcasts
  <2> HIDE DEF sets
  <2>2. /\ InboxType'
        /\ UNCHANGED <<inboxNow, stored, readState, asks, inboxPc, clock, before, foundSeen,
                       shown, known, unread, overlap, inboxFaults>>
        /\ \A d \in Readers : d # c => /\ found'[d] = found[d] /\ foundRead'[d] = foundRead[d]
                                       /\ queries'[d] = queries[d]
    BY <2>1, AnswerKeeps
  <2> QED BY <2>2 DEF stored, readState
<1>7. CASE CountUnread(c)
  <2>1. Answer(c, "personal", {{x \in Notes : IsStored(x) /\ x \notin readNotes}})
    BY <1>7 DEF CountUnread
  <2> QED BY <2>1, Sources, AnswerKeeps DEF stored, readState
<1>8. CASE FindUnseen(c)
  <2> DEFINE unseen == {x \in Broadcasts : VisibleAt(x, clock[c]) /\ ~SeenBy(x, foundSeen[c])}
             n == Min({MaxUnseen, Cardinality(unseen)})
  <2>1. Answer(c, "broadcasts", kSubset(n, unseen))
    BY <1>8 DEF FindUnseen
  <2>2. \A T \in kSubset(n, unseen) : T \subseteq Items
    <3>1. \A T \in kSubset(n, unseen) : T \subseteq unseen
      BY Sources
    <3> QED BY <3>1 DEF Items
  <2> HIDE DEF n, unseen
  <2> QED BY <2>1, <2>2, AnswerKeeps DEF stored, readState
<1>5. CASE Merge(c)
  <2>1. UNCHANGED <<inboxNow, stored, readState, asks, queries, clock, found, foundRead, foundSeen,
                    watched, inboxFaults>>
    BY <1>5 DEF Merge
  <2>2. inboxPc' \in [Readers -> {"idle", "page", "next", "count", "find", "mark", "all", "over", "failed"}]
    BY <1>5 DEF Merge, InboxType
  <2>3. /\ shown' \in [Readers -> Seq(Page)] /\ before' \in [Readers -> Nat]
        /\ \A d \in Readers : d # c => shown'[d] = shown[d] /\ inboxPc'[d] = inboxPc[d]
                                       /\ before'[d] = before[d]
    BY <1>5, MergeIs
  <2> QED BY <2>1, <2>2, <2>3 DEF InboxType, stored, readState, watched
<1> USE DEF InboxType, stored, readState, answer, watched
<1>0. Unread \in SUBSET Items
  BY DEF Unread
<1>1. CASE StartPage(c)
  BY <1>0, <1>1 DEF StartPage, Send
<1>4. CASE FindSeenAt(c)
  BY <1>4 DEF FindSeenAt
<1>6. CASE StartCount(c)
  BY <1>0, <1>6 DEF StartCount, Send
<1>9. CASE Count(c)
  BY <1>9 DEF Count
<1>10. CASE StartMark(c)
  BY <1>10 DEF StartMark
<1>11. CASE FindBroadcast(c)
  BY <1>11 DEF FindBroadcast
<1>13. CASE StartMarkAll(c)
  BY <1>13 DEF StartMarkAll
<1>14. CASE MarkAllNotifications(c)
  BY <1>14 DEF MarkAllNotifications, Written, EndsWith
<1>15. CASE SetBroadcastSeenAt(c)
  BY <1>15 DEF SetBroadcastSeenAt, Written, EndsWith
<1>16. CASE WriteFails(c)
  BY <1>16 DEF WriteFails, Written
<1>17. CASE MarkBroadcast(c)
  <2>1. asks[c] \in Broadcasts
    BY <1>17, KindSteps DEF MarkBroadcast, InboxPlace, Items
  <2> QED BY <1>17, <2>1 DEF MarkBroadcast
<1> QED
  BY <1>1, <1>2, <1>3, <1>4, <1>5, <1>6, <1>7, <1>8, <1>9, <1>10, <1>11, <1>13, <1>14,
     <1>15, <1>16, <1>17 DEF InboxCall

InboxStep == Background \/ \E c \in Readers : InboxCall(c)

\* What is stored stays stored, with its times and its audience.
LEMMA StoredKept ==
    ASSUME InboxType, CallsInv, InboxStep
    PROVE  /\ InboxType'
           /\ inboxNow <= inboxNow' /\ asks' = asks /\ forMe' = forMe
           /\ readNotes \subseteq readNotes' /\ receipts \subseteq receipts'
           /\ overlap \subseteq overlap'
           /\ \A x \in Items : IsStored(x) => IsStored(x)' /\ at'[x] = at[x] /\ until'[x] = until[x]
<1>1. CASE Background
  BY <1>1, BackgroundChanges DEF readState, watched
<1>2. CASE \E c \in Readers : InboxCall(c)
  <2>1. PICK c \in Readers : InboxCall(c)
    BY <1>2
  <2>2. InboxPlace(c)
    BY DEF CallsInv
  <2>3. /\ InboxType' /\ UNCHANGED <<inboxNow, stored, asks>>
        /\ readNotes \subseteq readNotes' /\ receipts \subseteq receipts'
        /\ overlap \subseteq overlap'
    BY <2>1, <2>2, CallChanges
  <2> QED BY <2>3 DEF stored, IsStored, InboxType
<1> QED BY <1>1, <1>2 DEF InboxStep

\* What the step does to a call other than the one that takes it: nothing.
Still(d) ==
    /\ inboxPc'[d] = inboxPc[d] /\ queries'[d] = queries[d] /\ clock'[d] = clock[d]
    /\ before'[d] = before[d] /\ found'[d] = found[d] /\ foundRead'[d] = foundRead[d]
    /\ foundSeen'[d] = foundSeen[d] /\ shown'[d] = shown[d]
    /\ known'[d] = known[d] /\ unread'[d] = unread[d]

LEMMA StillOrStep ==
    ASSUME InboxType, CallsInv, InboxStep, NEW d \in Readers
    PROVE  Still(d) \/ InboxCall(d)
<1>1. CASE Background
  BY <1>1, BackgroundChanges DEF answer, watched, Still
<1>2. CASE \E c \in Readers : InboxCall(c)
  <2>1. PICK c \in Readers : InboxCall(c)
    BY <1>2
  <2>2. InboxPlace(c)
    BY DEF CallsInv
  <2>3. d # c => Still(d)
    BY <2>1, <2>2, CallChanges DEF Still
  <2> QED BY <2>1, <2>3
<1> QED BY <1>1, <1>2 DEF InboxStep

-----------------------------------------------------------------------------
(* Where the calls are: the steps *)

LEMMA InboxPlaceStep ==
    ASSUME InboxType, NEW c \in Readers, InboxPlace(c), InboxCall(c)
    PROVE  InboxPlace(c)'
<1>0. /\ asks' = asks /\ asks[c] \in {"walk", "count", "all"} \cup Items
      /\ asks[c] \in Items => asks[c] \notin {"walk", "count", "all"}
  BY CallChanges, KindSteps
<1>1. CASE asks[c] = "walk"
  <2> SUFFICES /\ inboxPc'[c] \in {"page", "next", "over"}
               /\ queries'[c] \subseteq {"personal", "broadcasts", "seen"}
               /\ inboxPc'[c] # "page" => queries'[c] = {}
    BY <1>0, <1>1 DEF InboxPlace
  <2>1. queries[c] \subseteq {"personal", "broadcasts", "seen"}
    BY <1>1 DEF InboxPlace
  <2>2. CASE StartPage(c)
    BY <2>2 DEF StartPage, Send, InboxType
  <2>3. CASE FindNotifications(c) \/ FindBroadcasts(c)
    BY <2>1, <2>3 DEF FindNotifications, FindBroadcasts, Answer, InboxType
  <2>4. CASE FindSeenAt(c)
    BY <2>1, <2>4 DEF FindSeenAt, InboxType
  <2>5. CASE Merge(c)
    <3>1. queries' = queries /\ queries[c] = {}
      BY <2>5 DEF Merge
    <3>2. inboxPc'[c] \in {"next", "over"}
      BY <2>5, MergeIs
    <3> QED BY <3>1, <3>2
  <2> QED BY <1>1, <2>2, <2>3, <2>4, <2>5, KindSteps
<1>2. CASE asks[c] = "count"
  <2> SUFFICES /\ inboxPc'[c] \in {"count", "over"}
               /\ queries'[c] \subseteq {"personal", "broadcasts"}
               /\ inboxPc'[c] # "count" => queries'[c] = {}
               /\ shown' = shown
    BY <1>0, <1>2 DEF InboxPlace
  <2>1. queries[c] \subseteq {"personal", "broadcasts"}
    BY <1>2 DEF InboxPlace
  <2>2. CASE StartCount(c)
    BY <2>2 DEF StartCount, Send, InboxType
  <2>3. CASE CountUnread(c) \/ FindUnseen(c)
    BY <2>1, <2>3 DEF CountUnread, FindUnseen, Answer, InboxType
  <2>4. CASE Count(c)
    BY <2>4 DEF Count, InboxType
  <2> QED BY <1>2, <2>2, <2>3, <2>4, KindSteps
<1>3. CASE asks[c] = "all"
  <2> SUFFICES /\ inboxPc'[c] \in {"all", "over", "failed"}
               /\ queries'[c] \subseteq {"notes", "mark"}
               /\ shown' = shown
    BY <1>0, <1>3 DEF InboxPlace
  <2>1. queries[c] \subseteq {"notes", "mark"} /\ inboxPc[c] \in {"idle", "all", "over", "failed"}
        /\ (inboxPc[c] = "idle" => queries[c] = {})
    BY <1>3 DEF InboxPlace
  <2>2. CASE StartMarkAll(c)
    BY <2>2 DEF StartMarkAll, InboxType
  <2>3. CASE MarkAllNotifications(c) \/ SetBroadcastSeenAt(c)
    BY <2>1, <2>3 DEF MarkAllNotifications, SetBroadcastSeenAt, Written, EndsWith, InboxType
  <2>4. CASE WriteFails(c)
    BY <2>1, <2>4 DEF WriteFails, Written, InboxType
  <2> QED BY <1>3, <2>2, <2>3, <2>4, KindSteps
<1>4. CASE asks[c] \in Items
  <2> SUFFICES /\ inboxPc'[c] \in {"find", "mark", "over"}
               /\ inboxPc'[c] \in {"find", "mark"} => asks[c] \in Broadcasts
               /\ queries'[c] = {}
               /\ shown' = shown
    BY <1>0, <1>4 DEF InboxPlace
  <2>1. queries[c] = {} /\ (inboxPc[c] \in {"find", "mark"} => asks[c] \in Broadcasts)
    BY <1>4 DEF InboxPlace
  <2>2. CASE StartMark(c)
    BY <1>4, <2>1, <2>2 DEF StartMark, InboxType, answer, Items
  <2>3. CASE FindBroadcast(c) \/ MarkBroadcast(c)
    BY <2>1, <2>3 DEF FindBroadcast, MarkBroadcast, InboxType, answer
  <2> QED BY <1>4, <2>2, <2>3, KindSteps
<1> QED BY <1>0, <1>1, <1>2, <1>3, <1>4

LEMMA FindsStep ==
    ASSUME InboxType, NEW c \in Readers, InboxPlace(c), Finds(c), InboxCall(c)
    PROVE  Finds(c)'
<1>0. /\ UNCHANGED <<inboxNow, stored>> /\ readNotes \subseteq readNotes'
      /\ \A x : IsStored(x)' <=> IsStored(x)
  BY CallChanges DEF stored, IsStored
<1>1. CASE StartPage(c)
  <2>1. /\ clock'[c] = inboxNow /\ found'[c] = {} /\ foundRead'[c] = {} /\ shown' = shown
    BY <1>1 DEF StartPage, Send, InboxType
  <2>2. inboxNow \in Nat /\ inboxNow' = inboxNow
    BY <1>0 DEF InboxType
  <2> QED BY <1>0, <2>1, <2>2 DEF Finds, PageItems
<1>2. CASE FindNotifications(c) \/ FindBroadcasts(c)
  <2> DEFINE sets == Newest(Older(c, Notes), PageLimit) \cup Newest(Older(c, Broadcasts), PageLimit)
  <2>1. \A S \in sets : S \subseteq Items /\ \A x \in S : IsStored(x)
    BY Sources DEF Newest, Older, VisibleAt
  <2>2. \E query : Answer(c, query, sets)
    BY <1>2 DEF FindNotifications, FindBroadcasts, Answer
  <2> HIDE DEF sets
  <2>3. PICK S \in sets : found'[c] = found[c] \cup S /\ foundRead'[c] = foundRead[c] \cup (S \cap readNotes)
    BY <2>1, <2>2, AnswerIs
  <2>4. UNCHANGED <<clock, shown>>
    BY <2>2 DEF Answer
  <2> QED BY <1>0, <2>1, <2>3, <2>4 DEF Finds, PageItems
<1>3. CASE Merge(c)
  <2>1. PICK page \in SUBSET found[c], n \in Nat :
           /\ n = Len(shown[c]) + 1 /\ Len(shown'[c]) = n /\ Len(shown[c]) \in Nat
           /\ \A i \in 1..Len(shown[c]) : PageItems(c, i)' = PageItems(c, i)
           /\ shown'[c][n].items = page
    BY <1>3, MergeIs
  <2>2. UNCHANGED <<clock, found, foundRead>>
    BY <1>3 DEF Merge
  <2>3. \A i \in 1..Len(shown'[c]) : \A x \in shown'[c][i].items : IsStored(x)
    <3> SUFFICES ASSUME NEW i \in 1..Len(shown'[c]), NEW x \in shown'[c][i].items PROVE IsStored(x)
      OBVIOUS
    <3>1. CASE i = n
      BY <2>1, <3>1 DEF Finds
    <3>2. CASE i # n
      <4>1. i \in 1..Len(shown[c])
        BY <2>1, <3>2
      <4>2. x \in PageItems(c, i)
        BY <2>1, <4>1 DEF PageItems
      <4> QED BY <4>1, <4>2 DEF Finds
    <3> QED BY <3>1, <3>2
  <2> QED BY <1>0, <2>2, <2>3 DEF Finds, PageItems
<1>4. CASE CountUnread(c)
  <2> DEFINE sets == {{x \in Notes : IsStored(x) /\ x \notin readNotes}}
  <2>1. \A S \in sets : S \subseteq Items /\ \A x \in S : IsStored(x)
    BY Sources
  <2>2. Answer(c, "personal", sets)
    BY <1>4 DEF CountUnread
  <2> HIDE DEF sets
  <2>3. PICK S \in sets : found'[c] = found[c] \cup S /\ foundRead'[c] = foundRead[c] \cup (S \cap readNotes)
    BY <2>1, <2>2, AnswerIs
  <2>4. UNCHANGED <<clock, shown>>
    BY <2>2 DEF Answer
  <2> QED BY <1>0, <2>1, <2>3, <2>4 DEF Finds, PageItems
<1>5. CASE FindUnseen(c)
  <2> DEFINE unseen == {x \in Broadcasts : VisibleAt(x, clock[c]) /\ ~SeenBy(x, foundSeen[c])}
             n == Min({MaxUnseen, Cardinality(unseen)})
  <2>1. Answer(c, "broadcasts", kSubset(n, unseen))
    BY <1>5 DEF FindUnseen
  <2>2. \A T \in kSubset(n, unseen) : T \subseteq Items /\ \A x \in T : IsStored(x)
    <3>1. \A T \in kSubset(n, unseen) : T \subseteq unseen
      BY Sources
    <3> QED BY <3>1 DEF Items, VisibleAt
  <2> HIDE DEF n, unseen
  <2>3. PICK S \in kSubset(n, unseen) : /\ found'[c] = found[c] \cup S
                                        /\ foundRead'[c] = foundRead[c] \cup (S \cap readNotes)
    BY <2>1, <2>2, AnswerIs
  <2>4. UNCHANGED <<clock, shown>>
    BY <2>1 DEF Answer
  <2> QED BY <1>0, <2>2, <2>3, <2>4 DEF Finds, PageItems
<1>6. CASE StartCount(c) \/ Count(c) \/ StartMarkAll(c)
  <2>1. /\ clock'[c] \in {clock[c], inboxNow} /\ foundRead'[c] = foundRead[c]
        /\ found'[c] \subseteq found[c] /\ shown' = shown
    BY <1>6 DEF StartCount, Send, Count, StartMarkAll, InboxType
  <2> QED BY <1>0, <2>1 DEF Finds, PageItems, InboxType
<1>7. CASE FindSeenAt(c) \/ StartMark(c) \/ FindBroadcast(c) \/ MarkBroadcast(c)
           \/ MarkAllNotifications(c) \/ SetBroadcastSeenAt(c) \/ WriteFails(c)
  <2>1. UNCHANGED <<clock, found, foundRead, shown>>
    BY <1>7 DEF FindSeenAt, StartMark, FindBroadcast, MarkBroadcast, MarkAllNotifications,
                SetBroadcastSeenAt, WriteFails, Written, answer
  <2> QED BY <1>0, <2>1 DEF Finds, PageItems
<1> QED BY <1>1, <1>2, <1>3, <1>4, <1>5, <1>6, <1>7 DEF InboxCall

LEMMA CallsStep ==
    ASSUME InboxType, CallsInv, InboxStep
    PROVE  CallsInv'
<1> SUFFICES ASSUME NEW d \in Readers PROVE InboxPlace(d)' /\ Finds(d)'
  BY DEF CallsInv
<1>0. InboxPlace(d) /\ Finds(d)
  BY DEF CallsInv
<1>1. CASE InboxCall(d)
  BY <1>0, <1>1, InboxPlaceStep, FindsStep
<1>2. CASE Still(d)
  <2>1. /\ inboxNow <= inboxNow' /\ asks' = asks /\ readNotes \subseteq readNotes'
        /\ \A x \in Items : IsStored(x) => IsStored(x)'
        /\ inboxNow' \in Nat
    BY StoredKept DEF InboxType
  <2>2. InboxPlace(d)'
    BY <1>0, <1>2, <2>1 DEF Still, InboxPlace
  <2>3. \A i \in 1..Len(shown[d]) : PageItems(d, i) \subseteq Items
    <3>1. shown[d] \in Seq(Page)
      BY DEF InboxType
    <3>2. \A i \in 1..Len(shown[d]) : shown[d][i] \in Page
      BY <3>1, ElementOfSeq
    <3> QED BY <3>2 DEF PageItems, Page
  <2>4. \A i : PageItems(d, i)' = PageItems(d, i)
    BY <1>2 DEF Still, PageItems
  <2>5. Finds(d)'
    BY <1>0, <1>2, <2>1, <2>3, <2>4 DEF Still, Finds, InboxType
  <2> QED BY <2>2, <2>5
<1> QED BY <1>1, <1>2, StillOrStep

-----------------------------------------------------------------------------
(* The mark: the steps *)

\* What a call does to the mark.
LEMMA Marks ==
    ASSUME InboxType, NEW c \in Readers, InboxPlace(c), InboxCall(c)
    PROVE  \/ /\ asks[c] = "all" /\ (overlap' = {} => Marking = {})
              /\ UNCHANGED <<seenAt, foundSeen>> /\ clock'[c] = inboxNow
           \/ /\ c \in Marking /\ seenAt' = clock[c] + 1
              /\ UNCHANGED <<foundSeen, clock>>
           \/ /\ seenAt' = seenAt /\ foundSeen'[c] \in {foundSeen[c], seenAt}
              /\ asks[c] = "all" => clock'[c] = clock[c] /\ (queries'[c] # {} => queries[c] # {})
<1>0. asks[c] \in {"walk", "count", "all"} \cup Items
  BY DEF InboxType
<1>1. CASE asks[c] = "all"
  <2>1. CASE StartMarkAll(c)
    <3>1. clock'[c] = inboxNow /\ UNCHANGED <<seenAt, foundSeen>>
      BY <2>1 DEF StartMarkAll, InboxType, readState
    <3>2. overlap' = {} => Marking = {}
      BY <2>1 DEF StartMarkAll
    <3> QED BY <1>1, <3>1, <3>2
  <2>2. CASE SetBroadcastSeenAt(c)
    <3>1. c \in Marking
      BY <1>1, <2>2 DEF SetBroadcastSeenAt, Written, Marking
    <3> QED BY <2>2, <3>1 DEF SetBroadcastSeenAt, Written
  <2>3. CASE MarkAllNotifications(c) \/ WriteFails(c)
    BY <2>3 DEF MarkAllNotifications, WriteFails, Written, readState
  <2> QED BY <1>1, <2>1, <2>2, <2>3, KindSteps
<1>2. CASE asks[c] = "walk"
  <2>1. CASE FindNotifications(c) \/ FindBroadcasts(c) \/ Merge(c) \/ StartPage(c)
    BY <1>2, <2>1 DEF FindNotifications, FindBroadcasts, Merge, StartPage, Send, Answer, readState
  <2>2. CASE FindSeenAt(c)
    BY <1>2, <2>2 DEF FindSeenAt, readState, InboxType
  <2> QED BY <1>2, <2>1, <2>2, KindSteps
<1>3. CASE asks[c] = "count"
  <2>1. CASE CountUnread(c) \/ FindUnseen(c) \/ Count(c)
    BY <1>3, <2>1 DEF CountUnread, FindUnseen, Count, Answer, readState
  <2>2. CASE StartCount(c)
    BY <1>3, <2>2 DEF StartCount, Send, readState, InboxType
  <2> QED BY <1>3, <2>1, <2>2, KindSteps
<1>4. CASE asks[c] \in Items
  <2>1. asks[c] # "all" /\ (StartMark(c) \/ FindBroadcast(c) \/ MarkBroadcast(c))
    BY <1>4, KindSteps
  <2> QED BY <2>1 DEF StartMark, FindBroadcast, MarkBroadcast, readState, answer
<1> QED BY <1>0, <1>1, <1>2, <1>3, <1>4

LEMMA MarkStep ==
    ASSUME InboxType, CallsInv, MarkInv, InboxStep
    PROVE  MarkInv'
<1>0. /\ InboxType' /\ inboxNow <= inboxNow' /\ asks' = asks
      /\ overlap' = {} => overlap = {}
  BY StoredKept
<1>a. /\ \A d : d \in Marking <=> d \in Readers /\ asks[d] = "all" /\ queries[d] # {}
      /\ \A d : d \in Marking' <=> d \in Readers /\ asks'[d] = "all" /\ queries'[d] # {}
  BY DEF Marking
<1>1. CASE Background
  <2>1. UNCHANGED <<seenAt, overlap, queries, clock, foundSeen, asks>>
    BY <1>1, BackgroundChanges DEF readState, answer, watched
  <2>2. Marking' = Marking
    BY <2>1 DEF Marking
  <2>3. seenAt' <= inboxNow' + 1
    <3>1. seenAt \in Nat /\ inboxNow \in Nat /\ inboxNow' \in Nat /\ seenAt' \in Nat
      BY <1>0 DEF InboxType
    <3>2. seenAt <= inboxNow + 1
      BY DEF MarkInv
    <3>3. seenAt' = seenAt /\ inboxNow <= inboxNow'
      BY <1>0, <2>1
    <3>4. \A mark, now, later \in Nat : mark <= now + 1 /\ now <= later => mark <= later + 1
      OBVIOUS
    <3> QED BY <3>1, <3>2, <3>3, <3>4, Zenon
  <2> QED BY <2>1, <2>2, <2>3 DEF MarkInv
<1>2. ASSUME NEW c \in Readers, InboxCall(c)
      PROVE  MarkInv'
  <2>0. /\ inboxNow' = inboxNow
        /\ \A d \in Readers : d # c => /\ queries'[d] = queries[d] /\ clock'[d] = clock[d]
                                       /\ foundSeen'[d] = foundSeen[d]
        /\ clock[c] <= inboxNow
    BY <1>2, CallChanges DEF CallsInv, Finds
  <2>t. /\ inboxNow \in Nat /\ seenAt \in Nat /\ seenAt' \in Nat
        /\ \A d \in Readers : /\ clock[d] \in Nat /\ clock'[d] \in Nat
                              /\ foundSeen[d] \in Nat /\ foundSeen'[d] \in Nat
    BY <1>0 DEF InboxType
  <2>m. MarkInv
    OBVIOUS
  <2>1. CASE /\ asks[c] = "all" /\ (overlap' = {} => Marking = {})
             /\ UNCHANGED <<seenAt, foundSeen>> /\ clock'[c] = inboxNow
    <3>1. overlap' = {} => \A d \in Marking' : d = c
      BY <1>0, <1>a, <2>0, <2>1
    <3>2. seenAt' <= inboxNow' + 1
      BY <2>0, <2>1 DEF MarkInv
    <3>3. overlap' = {} => \A d \in Marking' : seenAt' <= clock'[d] + 1
      BY <2>1, <3>1, <3>2, <2>0
    <3>4. overlap' = {} => \A d \in Readers : foundSeen'[d] <= seenAt'
      BY <1>0, <2>1 DEF MarkInv
    <3> QED BY <3>1, <3>2, <3>3, <3>4 DEF MarkInv
  <2>2. CASE c \in Marking /\ seenAt' = clock[c] + 1 /\ UNCHANGED <<foundSeen, clock>>
    <3>1. overlap' = {} => \A d \in Marking' : d = c
      BY <1>0, <1>a, <2>0, <2>2 DEF MarkInv
    <3>2. seenAt' <= inboxNow' + 1
      BY <2>0, <2>2, <2>t
    <3>3. overlap' = {} => \A d \in Marking' : seenAt' <= clock'[d] + 1
      BY <2>2, <2>t, <3>1
    <3>4. overlap' = {} => seenAt <= seenAt'
      BY <1>0, <2>2 DEF MarkInv
    <3>5. overlap' = {} => \A d \in Readers : foundSeen'[d] <= seenAt'
      BY <1>0, <2>2, <2>t, <3>4 DEF MarkInv
    <3> QED BY <3>1, <3>2, <3>3, <3>5 DEF MarkInv
  <2>3. CASE /\ seenAt' = seenAt /\ foundSeen'[c] \in {foundSeen[c], seenAt}
             /\ asks[c] = "all" => clock'[c] = clock[c] /\ (queries'[c] # {} => queries[c] # {})
    <3>1. \A d \in Marking' : d \in Marking /\ clock'[d] = clock[d]
      BY <1>0, <1>a, <2>0, <2>3
    <3>2. overlap' = {} => \A d, e \in Marking' : d = e
      BY <1>0, <3>1 DEF MarkInv
    <3>3. overlap' = {} => \A d \in Marking' : seenAt' <= clock'[d] + 1
      BY <1>0, <2>3, <3>1 DEF MarkInv
    <3>4. overlap' = {} => \A d \in Readers : foundSeen'[d] <= seenAt'
      BY <1>0, <2>0, <2>3, <2>t DEF MarkInv
    <3> QED BY <2>0, <2>3, <2>m, <3>2, <3>3, <3>4 DEF MarkInv
  <2>4. InboxPlace(c)
    BY DEF CallsInv
  <2> QED BY <1>2, <2>1, <2>2, <2>3, <2>4, Marks
<1> QED BY <1>1, <1>2 DEF InboxStep

\* Without an overlap the mark does not go back.
LEMMA MarkGrows ==
    ASSUME InboxType, CallsInv, MarkInv, InboxStep, overlap' = {}
    PROVE  overlap = {} /\ seenAt <= seenAt'
<1>1. overlap = {} /\ seenAt \in Nat
  BY StoredKept DEF InboxType
<1>2. CASE Background
  BY <1>1, <1>2, BackgroundChanges DEF readState
<1>3. ASSUME NEW c \in Readers, InboxCall(c)
      PROVE  seenAt <= seenAt'
  <2>1. InboxPlace(c)
    BY DEF CallsInv
  <2> QED BY <1>1, <1>3, <2>1, Marks DEF MarkInv
<1> QED BY <1>1, <1>2, <1>3 DEF InboxStep

\* So what is read stays read.
LEMMA ReadKept ==
    ASSUME InboxType, CallsInv, MarkInv, InboxStep, overlap' = {},
           NEW x \in Items, IsStored(x), IsRead(x)
    PROVE  IsRead(x)'
<1>1. /\ readNotes \subseteq readNotes' /\ receipts \subseteq receipts' /\ at'[x] = at[x]
      /\ at[x] \in Nat /\ seenAt \in Nat /\ seenAt' \in Nat
  BY StoredKept DEF InboxType
<1>2. seenAt <= seenAt'
  BY MarkGrows
<1> QED BY <1>1, <1>2 DEF IsRead, SeenBy

-----------------------------------------------------------------------------
(* What is shown as read: the steps *)

\* The pages of a call hold items.
LEMMA PagesHoldItems ==
    ASSUME InboxType, NEW c \in Readers
    PROVE  /\ Len(shown[c]) \in Nat
           /\ \A i \in 1..Len(shown[c]) : PageItems(c, i) \subseteq Items
           /\ shown[c] # <<>> => Len(shown[c]) \in 1..Len(shown[c])
<1>1. shown[c] \in Seq(Page)
  BY DEF InboxType
<1>2. /\ \A i \in 1..Len(shown[c]) : shown[c][i] \in Page
      /\ Len(shown[c]) \in Nat
      /\ shown[c] # <<>> => Len(shown[c]) # 0
  BY <1>1, ElementOfSeq, LenProperties, EmptySeq
<1> QED BY <1>2 DEF PageItems, Page

LEMMA FlagStill ==
    ASSUME InboxType, CallsInv, MarkInv, InboxStep, overlap' = {}, NEW d \in Readers, Still(d)
    PROVE  /\ KeepsRead(d) => KeepsRead(d)'
           /\ shown[d] # <<>> /\ FlagsTrue(d) => FlagsTrue(d)'
<1>0. /\ readNotes \subseteq readNotes' /\ receipts \subseteq receipts'
      /\ \A x \in Items : IsStored(x) => IsStored(x)' /\ at'[x] = at[x]
  BY StoredKept
<1>t. /\ seenAt \in Nat /\ seenAt' \in Nat /\ foundSeen[d] \in Nat
      /\ \A x \in Items : at[x] \in Nat
      /\ readNotes \subseteq Items /\ Notes \subseteq Items /\ Broadcasts \subseteq Items
  BY StoredKept DEF InboxType, Items
<1>1. ASSUME KeepsRead(d) PROVE KeepsRead(d)'
  <2>1. seenAt <= seenAt'
    BY MarkGrows
  <2> SUFFICES ASSUME NEW x \in Items, x \notin unread[d]
               PROVE  /\ IsStored(x)'
                      /\ x \in Notes => x \in readNotes' /\ (x \in found[d] => x \in foundRead[d])
                      /\ x \in Broadcasts =>
                           x \in receipts' \/ at'[x] < (IF "seen" \in queries[d] THEN seenAt' ELSE foundSeen[d])
    BY DEF KeepsRead, Still
  <2>2. /\ IsStored(x)
        /\ x \in Notes => x \in readNotes /\ (x \in found[d] => x \in foundRead[d])
        /\ x \in Broadcasts =>
             x \in receipts \/ at[x] < (IF "seen" \in queries[d] THEN seenAt ELSE foundSeen[d])
    BY <1>1 DEF KeepsRead
  <2>3. IsStored(x)' /\ at'[x] = at[x]
    BY <1>0, <2>2
  <2>4. at[x] < seenAt => at[x] < seenAt'
    BY <1>t, <2>1
  <2> QED BY <1>0, <2>2, <2>3, <2>4
<1>2. ASSUME shown[d] # <<>>, FlagsTrue(d) PROVE FlagsTrue(d)'
  <2> DEFINE last == shown[d][Len(shown[d])]
  <2>1. \A x \in last.items : x \in Items /\ IsStored(x)
    BY <1>2, PagesHoldItems DEF CallsInv, Finds, PageItems
  <2>2. \A x \in last.items : (x \notin unread[d] => x \in last.read) /\ (x \in last.read => IsRead(x))
    BY <1>2 DEF FlagsTrue
  <2>3. shown'[d][Len(shown'[d])] = last /\ unread'[d] = unread[d]
    BY DEF Still
  <2> HIDE DEF last
  <2>4. \A x \in last.items : (x \notin unread[d] => x \in last.read) /\ (x \in last.read => IsRead(x)')
    BY <2>1, <2>2, ReadKept
  <2> QED BY <2>3, <2>4 DEF FlagsTrue
<1> QED BY <1>1, <1>2

\* The queries of a page keep what was read when they began.
LEMMA PageKeeps ==
    ASSUME InboxType, NEW c \in Readers, inboxPc[c] = "page" => KeepsRead(c),
           StartPage(c) \/ FindNotifications(c) \/ FindBroadcasts(c) \/ FindSeenAt(c)
    PROVE  KeepsRead(c)'
<1>0. /\ Notes \subseteq Items /\ Broadcasts \subseteq Items /\ Notes \cap Broadcasts = {}
      /\ readNotes \subseteq Notes /\ receipts \subseteq Broadcasts
  BY InboxAssumption DEF Items, InboxType
<1>1. CASE StartPage(c)
  <2>1. /\ unread'[c] = Unread /\ found'[c] = {} /\ "seen" \in queries'[c]
        /\ UNCHANGED <<stage, at, readNotes, receipts, seenAt>>
    BY <1>1 DEF StartPage, Send, InboxType, stored, readState
  <2>2. \A x \in Items \ Unread : IsStored(x) /\ IsRead(x)
    BY DEF Unread
  <2> QED BY <1>0, <2>1, <2>2 DEF KeepsRead, IsStored, IsRead, SeenBy
<1>2. CASE FindNotifications(c) \/ FindBroadcasts(c)
  <2> DEFINE sets == Newest(Older(c, Notes), PageLimit) \cup Newest(Older(c, Broadcasts), PageLimit)
  <2>1. \A S \in sets : S \subseteq Items
    BY Sources
  <2>2. PICK query \in {"personal", "broadcasts"} : Answer(c, query, sets)
    BY <1>2 DEF FindNotifications, FindBroadcasts, Answer
  <2> HIDE DEF sets
  <2>3. PICK S \in sets : found'[c] = found[c] \cup S /\ foundRead'[c] = foundRead[c] \cup (S \cap readNotes)
    BY <2>1, <2>2, AnswerIs
  <2>4. /\ queries'[c] = queries[c] \ {query}
        /\ UNCHANGED <<stored, readState, watched, foundSeen>>
    BY <2>1, <2>2, AnswerIs
  <2>5. UNCHANGED <<stage, at, readNotes, receipts, seenAt, unread, foundSeen>>
    BY <2>4 DEF stored, readState, watched
  <2>6. KeepsRead(c)
    BY <1>2 DEF FindNotifications, FindBroadcasts
  <2>7. "seen" \in queries'[c] <=> "seen" \in queries[c]
    BY <2>4
  <2> QED BY <2>3, <2>5, <2>6, <2>7 DEF KeepsRead, IsStored
<1>3. CASE FindSeenAt(c)
  <2>1. /\ "seen" \in queries[c] /\ "seen" \notin queries'[c] /\ foundSeen'[c] = seenAt
        /\ UNCHANGED <<stage, at, readNotes, receipts, seenAt, unread, found, foundRead>>
        /\ KeepsRead(c)
    BY <1>3 DEF FindSeenAt, InboxType, stored, readState, watched
  <2> QED BY <2>1 DEF KeepsRead, IsStored
<1> QED BY <1>1, <1>2, <1>3

LEMMA MergeFlags ==
    ASSUME InboxType, NEW c \in Readers, KeepsRead(c), foundSeen[c] <= seenAt,
           foundRead[c] \subseteq readNotes, Merge(c)
    PROVE  FlagsTrue(c)'
<1>1. PICK page \in SUBSET found[c], n \in Nat :
        /\ page \subseteq Items
        /\ Len(shown'[c]) = n /\ shown'[c][n].items = page
        /\ shown'[c][n].read = {x \in page : FlaggedRead(c, x)}
  BY MergeIs
<1>2. /\ queries[c] = {}
      /\ UNCHANGED <<at, readNotes, receipts, seenAt, unread>>
  BY DEF Merge, stored, readState, watched
<1>3. /\ foundSeen[c] \in Nat /\ seenAt \in Nat /\ \A x \in Items : at[x] \in Nat
      /\ readNotes \subseteq Notes /\ Items = Notes \cup Broadcasts
  BY DEF InboxType, Items
<1>4. ASSUME NEW x \in page
      PROVE  (x \notin unread[c] => FlaggedRead(c, x)) /\ (FlaggedRead(c, x) => IsRead(x)')
  <2>1. x \in found[c] /\ x \in Items /\ at[x] \in Nat
    BY <1>1, <1>3
  <2>2. x \notin unread[c] => FlaggedRead(c, x)
    BY <1>2, <1>3, <2>1 DEF KeepsRead, FlaggedRead, SeenBy
  <2>3. FlaggedRead(c, x) => IsRead(x)
    <3>1. at[x] < foundSeen[c] => at[x] < seenAt
      BY <1>3, <2>1
    <3> QED BY <1>3, <2>1, <3>1 DEF FlaggedRead, SeenBy, IsRead
  <2>4. IsRead(x)' <=> IsRead(x)
    BY <1>2 DEF IsRead, SeenBy
  <2> QED BY <2>2, <2>3, <2>4
<1> QED BY <1>1, <1>2, <1>4 DEF FlagsTrue

LEMMA FlagStep ==
    ASSUME InboxType, CallsInv, MarkInv, FlagInv, InboxStep
    PROVE  FlagInv'
<1> SUFFICES ASSUME overlap' = {}, NEW d \in Readers
             PROVE  /\ inboxPc'[d] = "page" => KeepsRead(d)'
                    /\ inboxPc'[d] \in {"next", "over"} /\ shown'[d] # <<>> => FlagsTrue(d)'
  BY DEF FlagInv
<1>0. /\ overlap = {} /\ CallsInv' /\ asks' = asks
      /\ inboxPc[d] = "page" => KeepsRead(d)
      /\ inboxPc[d] \in {"next", "over"} /\ shown[d] # <<>> => FlagsTrue(d)
      /\ foundSeen[d] <= seenAt
  BY StoredKept, CallsStep, MarkGrows DEF FlagInv, MarkInv
<1>1. CASE Still(d)
  <2>1. inboxPc'[d] = inboxPc[d] /\ shown'[d] = shown[d]
    BY <1>1 DEF Still
  <2> QED BY <1>0, <1>1, <2>1, FlagStill
<1>2. CASE InboxCall(d) /\ asks[d] = "walk"
  <2>1. InboxPlace(d) /\ foundRead[d] \subseteq readNotes
    BY DEF CallsInv, Finds
  <2>2. CASE StartPage(d) \/ FindNotifications(d) \/ FindBroadcasts(d) \/ FindSeenAt(d)
    <3>1. inboxPc'[d] = "page"
      BY <2>2 DEF StartPage, Send, FindNotifications, FindBroadcasts, Answer, FindSeenAt, InboxType
    <3> QED BY <1>0, <2>2, <3>1, PageKeeps
  <2>3. CASE Merge(d)
    <3>1. inboxPc'[d] \in {"next", "over"} /\ inboxPc[d] = "page"
      BY <2>3, MergeIs DEF Merge
    <3> QED BY <1>0, <2>1, <2>3, <3>1, MergeFlags
  <2> QED BY <1>2, <2>1, <2>2, <2>3, KindSteps
<1>3. CASE asks[d] # "walk"
  <2>1. InboxPlace(d)' /\ InboxType'
    BY <1>0, StoredKept DEF CallsInv
  <2>2. shown'[d] = <<>>
    BY <1>0, <1>3, <2>1 DEF InboxPlace
  <2>3. inboxPc'[d] # "page"
    <3>1. asks[d] \in {"count", "all"} \cup Items
      BY <1>3 DEF InboxType
    <3> QED BY <1>0, <2>1, <3>1 DEF InboxPlace
  <2> QED BY <2>2, <2>3
<1> QED BY <1>1, <1>2, <1>3, StillOrStep

-----------------------------------------------------------------------------
(* The count: the steps *)

\* What is stored is visible at a time or not, whatever happens.
LEMMA VisibleKept ==
    ASSUME InboxType, CallsInv, InboxStep, NEW x \in Items, IsStored(x), NEW t
    PROVE  VisibleAt(x, t)' <=> VisibleAt(x, t)
BY StoredKept DEF VisibleAt

LEMMA CountStill ==
    ASSUME InboxType, CallsInv, InboxStep, NEW d \in Readers, Still(d), Omits(d), Includes(d)
    PROVE  Omits(d)' /\ Includes(d)'
<1>0. /\ readNotes \subseteq readNotes' /\ receipts \subseteq receipts'
      /\ \A x \in Items : IsStored(x) => IsStored(x)' /\ at'[x] = at[x]
      /\ known[d] \subseteq Items
  BY StoredKept DEF InboxType
<1>1. Omits(d)'
  BY <1>0 DEF Omits, Still
<1>2. Includes(d)'
  <2> SUFFICES ASSUME NEW x \in known[d]
               PROVE  /\ IsStored(x)'
                      /\ x \in Notes /\ "personal" \notin queries[d] => x \in found[d] \/ x \in readNotes'
                      /\ x \in Broadcasts /\ "broadcasts" \notin queries[d] /\ Cardinality(Broadcasts) <= MaxUnseen =>
                            \/ x \in found[d] \/ x \in receipts'
                            \/ ~VisibleAt(x, clock[d]) \/ at'[x] < foundSeen[d]
    <3>1. \A x \in known[d] : VisibleAt(x, clock[d])' <=> VisibleAt(x, clock[d])
      <4>1. \A x \in known[d] : IsStored(x) /\ x \in Items
        BY <1>0 DEF Includes
      <4>2. \A x \in known[d] : \A t : VisibleAt(x, t)' <=> VisibleAt(x, t)
        BY <4>1, VisibleKept
      <4>3. clock'[d] = clock[d]
        BY DEF Still
      <4> QED BY <4>2, <4>3 DEF VisibleAt, IsStored
    <3> QED BY <3>1 DEF Includes, Still, VisibleAt, IsStored
  <2>1. /\ IsStored(x)
        /\ x \in Notes /\ "personal" \notin queries[d] => x \in found[d] \/ x \in readNotes
        /\ x \in Broadcasts /\ "broadcasts" \notin queries[d] /\ Cardinality(Broadcasts) <= MaxUnseen =>
              \/ x \in found[d] \/ x \in receipts
              \/ ~VisibleAt(x, clock[d]) \/ at[x] < foundSeen[d]
    BY DEF Includes
  <2>2. IsStored(x)' /\ at'[x] = at[x]
    BY <1>0, <2>1
  <2> QED BY <1>0, <2>1, <2>2
<1> QED BY <1>1, <1>2

\* Fetching as many as there are is fetching them all.
LEMMA AllUnseen ==
    ASSUME NEW unseen \in SUBSET Broadcasts, Cardinality(Broadcasts) <= MaxUnseen,
           NEW S \in kSubset(Min({MaxUnseen, Cardinality(unseen)}), unseen)
    PROVE  S = unseen
<1>1. /\ IsFiniteSet(Broadcasts) /\ Cardinality(Broadcasts) \in Nat
      /\ IsFiniteSet(unseen) /\ Cardinality(unseen) \in Nat
  BY FiniteItems DEF Items
<1>2. Cardinality(unseen) <= Cardinality(Broadcasts)
  BY <1>1, FS_Subset
<1>3. MaxUnseen \in Nat
  BY InboxAssumption
<1> DEFINE n == Min({MaxUnseen, Cardinality(unseen)})
<1>4. n \in {MaxUnseen, Cardinality(unseen)} /\ n <= Cardinality(unseen) /\ n <= MaxUnseen
  BY <1>1, <1>3, MinIsFirst
<1>5. n = Cardinality(unseen)
  BY <1>1, <1>2, <1>3, <1>4
<1>6. S \subseteq unseen /\ Cardinality(S) = n
  BY DEF kSubset
<1> QED BY <1>1, <1>5, <1>6, FS_Subset

LEMMA CountCall ==
    ASSUME InboxType, NEW c \in Readers, InboxPlace(c), asks[c] = "count", InboxCall(c),
           IF inboxPc[c] = "idle" THEN found[c] = {} ELSE Omits(c) /\ Includes(c)
    PROVE  inboxPc'[c] # "idle" /\ Omits(c)' /\ Includes(c)'
<1>0. /\ Notes \subseteq Items /\ Broadcasts \subseteq Items /\ Notes \cap Broadcasts = {}
      /\ readNotes \subseteq Notes /\ receipts \subseteq Broadcasts
      /\ Items = Notes \cup Broadcasts /\ known[c] \subseteq Items
  BY InboxAssumption DEF Items, InboxType
<1>1. CASE StartCount(c)
  <2>1. /\ inboxPc[c] = "idle" /\ inboxPc'[c] = "count"
        /\ unread'[c] = Unread /\ known'[c] = {x \in Items : IsStored(x)}
        /\ foundSeen'[c] = seenAt /\ queries'[c] = {"personal", "broadcasts"}
        /\ UNCHANGED <<stage, at, readNotes, receipts, found>>
    BY <1>1 DEF StartCount, Send, InboxType, stored, readState
  <2>2. \A x \in Items \ Unread : IsStored(x) /\ IsRead(x)
    BY DEF Unread
  <2>3. Omits(c)'
    BY <1>0, <2>1, <2>2 DEF Omits, IsStored, IsRead, SeenBy
  <2>4. Includes(c)'
    BY <2>1 DEF Includes, IsStored
  <2> QED BY <2>1, <2>3, <2>4
<1>2. CASE CountUnread(c)
  <2> DEFINE new == {x \in Notes : IsStored(x) /\ x \notin readNotes}
  <2>1. Answer(c, "personal", {new}) /\ inboxPc[c] = "count" /\ \A S \in {new} : S \subseteq Items
    BY <1>0, <1>2 DEF CountUnread
  <2>2. \A x : x \in new <=> x \in Notes /\ IsStored(x) /\ x \notin readNotes
    OBVIOUS
  <2> HIDE DEF new
  <2>3. /\ found'[c] = found[c] \cup new /\ queries'[c] = queries[c] \ {"personal"}
        /\ UNCHANGED <<stored, readState, inboxPc, clock, foundSeen, watched>>
    BY <2>1, AnswerIs
  <2>4. UNCHANGED <<stage, at, until, forMe, readNotes, receipts, inboxPc, clock, foundSeen, known, unread>>
    BY <2>3 DEF stored, readState, watched
  <2>5. Omits(c) /\ Includes(c)
    BY <2>1
  <2>6. Omits(c)'
    BY <1>0, <2>1, <2>2, <2>3, <2>4, <2>5 DEF Omits, IsStored
  <2>7. Includes(c)'
    BY <1>0, <2>2, <2>3, <2>4, <2>5 DEF Includes, IsStored, VisibleAt
  <2> QED BY <2>1, <2>4, <2>6, <2>7
<1>3. CASE FindUnseen(c)
  <2> DEFINE unseen == {x \in Broadcasts : VisibleAt(x, clock[c]) /\ ~SeenBy(x, foundSeen[c])}
             sets == kSubset(Min({MaxUnseen, Cardinality(unseen)}), unseen)
  <2>1. Answer(c, "broadcasts", sets) /\ inboxPc[c] = "count"
    BY <1>3 DEF FindUnseen
  <2>2. /\ \A S \in sets : S \subseteq unseen
        /\ Cardinality(Broadcasts) <= MaxUnseen => \A S \in sets : S = unseen
    <3>1. \A S \in sets : S \subseteq unseen
      BY Sources
    <3>2. unseen \in SUBSET Broadcasts
      OBVIOUS
    <3> HIDE DEF unseen
    <3>3. Cardinality(Broadcasts) <= MaxUnseen => \A S \in sets : S = unseen
      BY <3>2, AllUnseen
    <3> QED BY <3>1, <3>3
  <2>3. \A x : x \in unseen <=> x \in Broadcasts /\ VisibleAt(x, clock[c]) /\ ~(at[x] < foundSeen[c])
    BY DEF SeenBy
  <2> HIDE DEF sets, unseen
  <2>4. \A S \in sets : S \subseteq Items
    BY <1>0, <2>2, <2>3
  <2>5. PICK S \in sets : found'[c] = found[c] \cup S
    BY <2>1, <2>4, AnswerIs
  <2>6. /\ queries'[c] = queries[c] \ {"broadcasts"}
        /\ UNCHANGED <<stored, readState, inboxPc, clock, foundSeen, watched>>
    BY <2>1, <2>4, AnswerIs
  <2>7. UNCHANGED <<stage, at, until, forMe, readNotes, receipts, inboxPc, clock, foundSeen, known, unread>>
    BY <2>6 DEF stored, readState, watched
  <2>8. Omits(c) /\ Includes(c)
    BY <2>1
  <2>9. Omits(c)'
    BY <1>0, <2>1, <2>2, <2>3, <2>5, <2>7, <2>8 DEF Omits, IsStored
  <2>10. Includes(c)'
    BY <1>0, <2>2, <2>3, <2>5, <2>6, <2>7, <2>8 DEF Includes, IsStored, VisibleAt
  <2> QED BY <2>1, <2>7, <2>9, <2>10
<1>4. CASE Count(c)
  <2>1. /\ inboxPc[c] = "count" /\ inboxPc'[c] = "over" /\ found'[c] = found[c] \ receipts
        /\ UNCHANGED <<stage, at, until, forMe, readNotes, receipts, queries, clock, foundSeen, known, unread>>
    BY <1>4 DEF Count, InboxType, stored, readState, watched
  <2>2. Omits(c) /\ Includes(c)
    BY <2>1
  <2>3. Omits(c)'
    BY <1>0, <2>1, <2>2 DEF Omits, IsStored
  <2>4. Includes(c)'
    BY <1>0, <2>1, <2>2 DEF Includes, IsStored, VisibleAt
  <2> QED BY <2>1, <2>3, <2>4
<1> QED BY <1>1, <1>2, <1>3, <1>4, KindSteps

LEMMA CountStep ==
    ASSUME InboxType, CallsInv, CountInv, InboxStep
    PROVE  CountInv'
<1> SUFFICES ASSUME NEW d \in Readers, asks[d] = "count"
             PROVE  IF inboxPc'[d] = "idle" THEN found'[d] = {} ELSE Omits(d)' /\ Includes(d)'
  BY StoredKept DEF CountInv
<1>1. IF inboxPc[d] = "idle" THEN found[d] = {} ELSE Omits(d) /\ Includes(d)
  BY DEF CountInv
<1>2. CASE Still(d)
  <2>1. inboxPc'[d] = inboxPc[d] /\ found'[d] = found[d]
    BY <1>2 DEF Still
  <2> QED BY <1>1, <1>2, <2>1, CountStill
<1>3. CASE InboxCall(d)
  <2>1. InboxPlace(d)
    BY DEF CallsInv
  <2> QED BY <1>1, <1>3, <2>1, CountCall
<1> QED BY <1>2, <1>3, StillOrStep

-----------------------------------------------------------------------------
(* The walk: the steps *)

\* What became visible before, and is now, was all the time.
LEMMA VisibleBack ==
    ASSUME InboxType, CallsInv, InboxStep, NEW x \in Items, IsStored(x),
           x \in Broadcasts => at[x] <= inboxNow, VisibleAt(x, inboxNow)'
    PROVE  VisibleAt(x, inboxNow)
<1>1. /\ inboxNow <= inboxNow' /\ inboxNow \in Nat /\ inboxNow' \in Nat /\ until[x] \in Nat
      /\ until'[x] = until[x] /\ forMe' = forMe
  BY StoredKept DEF InboxType
<1>2. \A end, now, later \in Nat : end > later /\ now <= later => end > now
  OBVIOUS
<1>3. x \in Broadcasts => until[x] > inboxNow' /\ x \in forMe
  BY <1>1 DEF VisibleAt
<1>4. x \in Broadcasts => until[x] > inboxNow
  BY <1>1, <1>2, <1>3
<1> QED BY <1>3, <1>4 DEF VisibleAt

\* As long as no page is shown, the pages are what they were.
LEMMA PagesKept ==
    ASSUME InboxType, CallsInv, InboxStep, NEW c \in Readers, shown'[c] = shown[c]
    PROVE  /\ Falling(c) => Falling(c)'
           /\ \A x \in Items : IsStored(x) /\ Covered(c, x) => Covered(c, x)'
           /\ \A i \in 1..Len(shown[c]) : \A x \in PageItems(c, i) : at'[x] = at[x]
<1>1. \A i \in 1..Len(shown[c]) : \A x \in PageItems(c, i) : x \in Items /\ IsStored(x)
  BY PagesHoldItems DEF CallsInv, Finds
<1>2. \A x \in Items : IsStored(x) => at'[x] = at[x]
  BY StoredKept
<1>3. \A i : PageItems(c, i)' = PageItems(c, i)
  BY DEF PageItems
<1>4. \A i \in 1..Len(shown[c]) : \A x \in PageItems(c, i) : at'[x] = at[x]
  BY <1>1, <1>2
<1>5. ASSUME Falling(c) PROVE Falling(c)'
  <2> SUFFICES ASSUME NEW i \in 1..Len(shown[c]), NEW j \in 1..Len(shown[c]), i < j,
                      NEW x \in PageItems(c, i), NEW y \in PageItems(c, j)
               PROVE  at'[y] < at'[x]
    BY <1>3 DEF Falling
  <2>1. at[y] < at[x]
    BY <1>5 DEF Falling
  <2> QED BY <1>4, <2>1
<1>6. ASSUME NEW x \in Items, IsStored(x), Covered(c, x) PROVE Covered(c, x)'
  <2>1. PICK i \in 1..Len(shown[c]) : x \in PageItems(c, i) \/ \E y \in PageItems(c, i) : at[y] = at[x]
    BY <1>6 DEF Covered
  <2>2. x \in PageItems(c, i) \/ \E y \in PageItems(c, i) : at'[y] = at'[x]
    BY <1>2, <1>4, <1>6, <2>1
  <2> QED BY <1>3, <2>2 DEF Covered
<1> QED BY <1>4, <1>5, <1>6

\* What was reached is, if the items found are still among them.
LEMMA ReachedKept ==
    ASSUME InboxType, CallsInv, InboxStep, NEW c \in Readers, found[c] \subseteq found'[c],
           NEW x \in Items, IsStored(x), Reached(c, x)
    PROVE  Reached(c, x)'
<1>1. \A y \in found[c] : at'[y] = at[y]
  BY StoredKept DEF CallsInv, Finds, InboxType
<1>2. at'[x] = at[x]
  BY StoredKept
<1>3. CASE x \in found[c]
  BY <1>3 DEF Reached
<1>4. CASE x \notin found[c]
  <2>1. PICK T \in SUBSET found[c] : Cardinality(T) = PageLimit /\ \A y \in T : at[y] >= at[x]
    BY <1>4 DEF Reached
  <2>2. T \in SUBSET found'[c] /\ Cardinality(T) = PageLimit /\ \A y \in T : at'[y] >= at'[x]
    BY <1>1, <1>2, <2>1
  <2> QED BY <2>2 DEF Reached
<1> QED BY <1>3, <1>4

LEMMA WalkStill ==
    ASSUME InboxType, CallsInv, InboxStep, NEW d \in Readers, Still(d), Ordered(d),
           inboxPc[d] # "idle" => \A x \in known[d] : Follows(d, x)
    PROVE  Ordered(d)' /\ (inboxPc'[d] # "idle" => \A x \in known'[d] : Follows(d, x)')
<1>0. /\ shown'[d] = shown[d] /\ inboxPc'[d] = inboxPc[d] /\ before'[d] = before[d]
      /\ found'[d] = found[d] /\ queries'[d] = queries[d] /\ clock'[d] = clock[d] /\ known'[d] = known[d]
  BY DEF Still
<1>1. /\ \A x \in Items : IsStored(x) => IsStored(x)' /\ at'[x] = at[x]
      /\ known[d] \subseteq Items /\ found[d] \subseteq Items /\ \A x \in found[d] : IsStored(x)
      /\ forMe' = forMe /\ clock[d] <= inboxNow /\ clock[d] \in Nat /\ inboxNow \in Nat
      /\ \A x \in Items : at[x] \in Nat
  BY StoredKept DEF InboxType, CallsInv, Finds
<1>2. Ordered(d)'
  <2>1. Falling(d)'
    BY <1>0, PagesKept DEF Ordered
  <2>2. inboxPc[d] # "over" => \A i \in 1..Len(shown[d]) : \A x \in PageItems(d, i) : before[d] <= at'[x]
    BY <1>0, PagesKept DEF Ordered
  <2>3. \A i : PageItems(d, i)' = PageItems(d, i)
    BY <1>0 DEF PageItems
  <2>4. inboxPc[d] = "page" => \A x \in found[d] : at'[x] < before[d]
    BY <1>1 DEF Ordered
  <2> QED BY <1>0, <2>1, <2>2, <2>3, <2>4 DEF Ordered
<1>3. ASSUME inboxPc[d] # "idle", NEW x \in known[d] PROVE Follows(d, x)'
  <2>1. Follows(d, x) /\ x \in Items
    BY <1>1, <1>3
  <2>2. IsStored(x) /\ IsStored(x)' /\ at'[x] = at[x] /\ (x \in Broadcasts => at[x] <= inboxNow)
    BY <1>1, <2>1 DEF Follows
  <2>3. ASSUME VisibleAt(x, inboxNow)' PROVE Covered(d, x)' \/ Remains(d, x)'
    <3>1. Covered(d, x) \/ Remains(d, x)
      BY <2>1, <2>2, <2>3, VisibleBack DEF Follows
    <3>2. CASE Covered(d, x)
      BY <1>0, <2>1, <2>2, <3>2, PagesKept
    <3>3. CASE Remains(d, x)
      <4>1. Reached(d, x) => Reached(d, x)'
        BY <1>0, <2>1, <2>2, ReachedKept
      <4> QED BY <1>0, <2>2, <3>3, <4>1 DEF Remains
    <3> QED BY <3>1, <3>2, <3>3
  <2> QED BY <1>0, <1>1, <2>1, <2>2, <2>3 DEF Follows
<1> QED BY <1>0, <1>2, <1>3

\* A page begins: at the start of the walk with everything that is older, then with
\* what is left.
LEMMA WalkStarts ==
    ASSUME InboxType, CallsInv, InboxStep, NEW c \in Readers, StartPage(c), Ordered(c),
           inboxPc[c] # "idle" => \A x \in known[c] : Follows(c, x)
    PROVE  Ordered(c)' /\ \A x \in known'[c] : Follows(c, x)'
<1>0. /\ inboxPc'[c] = "page" /\ found'[c] = {} /\ clock'[c] = inboxNow
      /\ queries'[c] = {"personal", "broadcasts", "seen"}
      /\ UNCHANGED <<inboxNow, stage, at, until, forMe, shown>>
      /\ asks[c] = "walk" /\ inboxPc[c] \in {"idle", "next"}
      /\ inboxPc[c] = "idle" => /\ before'[c] = inboxNow
                                /\ known'[c] = {x \in Items : VisibleAt(x, inboxNow) /\ at[x] < inboxNow}
      /\ inboxPc[c] = "next" => before'[c] = before[c] /\ known'[c] = known[c]
  BY DEF StartPage, Send, InboxType, stored
<1>1. CASE inboxPc[c] = "idle"
  <2>1. shown[c] = <<>>
    BY <1>1 DEF CallsInv, InboxPlace
  <2>2. Len(shown'[c]) = 0
    BY <1>0, <2>1, EmptySeq
  <2>3. \A i : i \notin 1..Len(shown'[c])
    BY <2>2
  <2>4. Ordered(c)'
    BY <1>0, <2>3 DEF Ordered, Falling
  <2>5. ASSUME NEW x \in known'[c] PROVE Follows(c, x)'
    <3>1. VisibleAt(x, inboxNow) /\ at[x] < inboxNow
      BY <1>0, <1>1, <2>5
    <3>2. Remains(c, x)'
      BY <1>0, <1>1, <3>1 DEF Remains
    <3> QED BY <1>0, <3>1, <3>2 DEF Follows, VisibleAt, IsStored
  <2> QED BY <2>4, <2>5
<1>2. CASE inboxPc[c] = "next"
  <2>1. Ordered(c)'
    <3>1. Falling(c)'
      BY <1>0, PagesKept DEF Ordered
    <3> QED BY <1>0, <1>2, <3>1 DEF Ordered, PageItems
  <2>2. /\ clock[c] <= inboxNow /\ clock[c] \in Nat /\ inboxNow \in Nat
        /\ \A x \in Items : at[x] \in Nat
        /\ known[c] \subseteq Items
    BY DEF CallsInv, Finds, InboxType
  <2>3. ASSUME NEW x \in known'[c] PROVE Follows(c, x)'
    <3>1. Follows(c, x) /\ x \in Items
      BY <1>0, <1>2, <2>2, <2>3
    <3>2. IsStored(x) /\ (x \in Broadcasts => at[x] <= inboxNow /\ x \in forMe)
      BY <2>2, <3>1 DEF Follows
    <3>3. Covered(c, x) => Covered(c, x)'
      BY <1>0, <3>1, <3>2, PagesKept
    <3>4. Remains(c, x) => Remains(c, x)'
      BY <1>0, <1>2 DEF Remains
    <3>5. VisibleAt(x, inboxNow)' => VisibleAt(x, inboxNow)
      BY <1>0 DEF VisibleAt, IsStored
    <3> QED BY <1>0, <3>1, <3>2, <3>3, <3>4, <3>5 DEF Follows, IsStored
  <2> QED BY <2>1, <2>3
<1> QED BY <1>0, <1>1, <1>2

\* The newest of what is older than the cursor: an item is among them, or as many newer
\* ones of a page.
LEMMA NewestReach ==
    ASSUME InboxType, NEW c \in Readers, NEW Kind \in SUBSET Items,
           NEW S \in Newest(Older(c, Kind), PageLimit), NEW x \in Kind,
           VisibleAt(x, clock[c]), at[x] < before[c]
    PROVE  x \in S \/ (Cardinality(S) = PageLimit /\ \A y \in S : at[y] >= at[x])
<1>1. x \in Older(c, Kind) /\ Older(c, Kind) \in SUBSET Items
  BY DEF Older
<1>2. PageLimit \in Nat
  BY InboxAssumption
<1>3. /\ \A y \in S, z \in Older(c, Kind) \ S : at[y] >= at[z]
      /\ S # Older(c, Kind) => Cardinality(S) = PageLimit
  BY <1>1, <1>2, NewestIs
<1> QED BY <1>1, <1>3

\* A query of a page answers, for the items of one kind.
LEMMA WalkFinds ==
    ASSUME InboxType, CallsInv, InboxStep, NEW c \in Readers, inboxPc[c] = "page", Ordered(c),
           \A x \in known[c] : Follows(c, x),
           NEW Kind, NEW query,
           \/ Kind = Notes /\ query = "personal"
           \/ Kind = Broadcasts /\ query = "broadcasts",
           Answer(c, query, Newest(Older(c, Kind), PageLimit))
    PROVE  Ordered(c)' /\ \A x \in known'[c] : Follows(c, x)'
<1> DEFINE sets == Newest(Older(c, Kind), PageLimit)
<1>k. /\ Kind \in SUBSET Items /\ Notes \cap Broadcasts = {} /\ Items = Notes \cup Broadcasts
      /\ \A S \in sets : S \subseteq Items
  BY Sources, InboxAssumption DEF Items
<1>a. Answer(c, query, sets)
  OBVIOUS
<1> HIDE DEF sets
<1>1. PICK S \in sets : found'[c] = found[c] \cup S
  BY <1>k, <1>a, AnswerIs
<1>2. /\ queries'[c] = queries[c] \ {query}
      /\ UNCHANGED <<inboxNow, stored, inboxPc, clock, before, shown, watched>>
  BY <1>k, <1>a, AnswerIs
<1>3. UNCHANGED <<inboxNow, stage, at, until, forMe, inboxPc, clock, before, shown, known>>
  BY <1>2 DEF stored, watched
<1>4. \A y \in S : at[y] < before[c]
  BY DEF sets, Newest, Older
<1>5. Ordered(c)'
  <2>1. Falling(c)'
    BY <1>3, PagesKept DEF Ordered
  <2> QED BY <1>1, <1>3, <1>4, <2>1 DEF Ordered, PageItems
<1>6. /\ clock[c] <= inboxNow /\ clock[c] \in Nat /\ inboxNow \in Nat
      /\ \A x \in Items : at[x] \in Nat /\ until[x] \in Nat
      /\ known[c] \subseteq Items
  BY DEF CallsInv, Finds, InboxType
<1>7. ASSUME NEW x \in known'[c] PROVE Follows(c, x)'
  <2>1. Follows(c, x) /\ x \in Items /\ IsStored(x)
    BY <1>3, <1>6 DEF Follows
  <2>2. VisibleAt(x, inboxNow)' => VisibleAt(x, inboxNow)
    BY <1>3 DEF VisibleAt, IsStored
  <2>3. Covered(c, x) => Covered(c, x)'
    BY <1>3, <2>1, PagesKept
  <2>4. Reached(c, x) => Reached(c, x)'
    BY <1>1, <2>1, ReachedKept
  <2>5. ASSUME x \in Kind, VisibleAt(x, inboxNow), Remains(c, x) PROVE Reached(c, x)'
    <3>1. x \in Broadcasts => until[x] > inboxNow /\ x \in forMe
      BY <2>5 DEF VisibleAt
    <3>2. x \in Broadcasts => until[x] > clock[c] /\ at[x] <= clock[c]
      BY <1>6, <2>1, <3>1 DEF Follows
    <3>3. VisibleAt(x, clock[c]) /\ at[x] < before[c]
      BY <2>1, <2>5, <3>1, <3>2 DEF VisibleAt, Remains
    <3>4. x \in S \/ (Cardinality(S) = PageLimit /\ \A y \in S : at[y] >= at[x])
      BY <1>k, <2>5, <3>3, NewestReach DEF sets
    <3> QED BY <1>1, <1>3, <3>4 DEF Reached
  <2>6. ASSUME VisibleAt(x, inboxNow), Remains(c, x) PROVE Remains(c, x)'
    <3>1. x \in Kind => Reached(c, x)'
      BY <2>5, <2>6
    <3>2. \A other \in {"personal", "broadcasts"} :
             other # query /\ other \notin queries'[c] => other \notin queries[c]
      BY <1>2
    <3>3. x \in Notes /\ "personal" \notin queries'[c] => Reached(c, x)'
      BY <1>k, <2>4, <2>6, <3>1, <3>2 DEF Remains
    <3>4. x \in Broadcasts /\ "broadcasts" \notin queries'[c] => Reached(c, x)'
      BY <1>k, <2>4, <2>6, <3>1, <3>2 DEF Remains
    <3> QED BY <1>3, <2>6, <3>3, <3>4 DEF Remains
  <2> QED BY <1>3, <2>1, <2>2, <2>3, <2>6 DEF Follows, IsStored
<1> QED BY <1>5, <1>7

\* What was reached and is not on the page is not newer than any of it, and the page
\* is full.
LEMMA PageIsFull ==
    ASSUME InboxType, NEW c \in Readers, NEW page \in Merged(found[c]), NEW x \in Items,
           Reached(c, x), x \notin page
    PROVE  Cardinality(page) = PageLimit /\ \A y \in page : at[y] >= at[x]
<1>1. PageLimit \in Nat
  BY InboxAssumption
<1>2. page \in Newest(found[c], PageLimit) /\ found[c] \in SUBSET Items
  BY MergedIs DEF InboxType
<1>3. /\ page \in SUBSET found[c]
      /\ \A y \in page, z \in found[c] \ page : at[y] >= at[z]
      /\ page # found[c] => Cardinality(page) = PageLimit
      /\ Cardinality(page) <= PageLimit /\ Cardinality(page) \in Nat
  BY <1>1, <1>2, NewestIs
<1>4. \A y \in Items : at[y] \in Nat
  BY DEF InboxType
<1>5. CASE x \in found[c]
  BY <1>3, <1>5
<1>6. CASE x \notin found[c]
  <2>1. PICK T \in SUBSET found[c] : Cardinality(T) = PageLimit /\ \A y \in T : at[y] >= at[x]
    BY <1>6 DEF Reached
  <2>2. IsFiniteSet(page) /\ IsFiniteSet(T)
    BY <1>2, <1>3, <2>1, FiniteItems
  <2>3. CASE T \subseteq page
    <3>1. Cardinality(T) <= Cardinality(page) /\ (Cardinality(T) = Cardinality(page) => T = page)
      BY <2>2, <2>3, FS_Subset
    <3>2. Cardinality(page) = PageLimit
      BY <1>1, <1>3, <2>1, <3>1
    <3> QED BY <2>1, <3>1, <3>2
  <2>4. CASE ~(T \subseteq page)
    <3>1. PICK t \in T : t \notin page
      BY <2>4
    <3>2. t \in found[c] /\ at[t] >= at[x] /\ at[t] \in Nat /\ at[x] \in Nat
      BY <1>2, <1>4, <2>1, <3>1
    <3>3. page # found[c]
      BY <3>1, <3>2
    <3>4. \A y \in page : at[y] >= at[t] /\ at[y] \in Nat
      BY <1>2, <1>3, <1>4, <3>1, <3>2
    <3>5. \A y \in page : at[y] >= at[x]
      BY <3>2, <3>4
    <3> QED BY <1>3, <3>3, <3>5
  <2> QED BY <2>3, <2>4
<1> QED BY <1>5, <1>6

LEMMA WalkMerges ==
    ASSUME InboxType, CallsInv, NEW c \in Readers, Merge(c), Ordered(c),
           \A x \in known[c] : Follows(c, x)
    PROVE  Ordered(c)' /\ \A x \in known'[c] : Follows(c, x)'
<1>1. PICK page \in Merged(found[c]), n \in Nat :
        /\ n = Len(shown[c]) + 1 /\ page \in SUBSET found[c] /\ page \in SUBSET Items
        /\ Len(shown[c]) \in Nat /\ Len(shown'[c]) = n
        /\ \A i \in 1..Len(shown[c]) : PageItems(c, i)' = PageItems(c, i)
        /\ shown'[c][n].items = page
        /\ before' \in [Readers -> Nat]
        /\ \/ /\ Cardinality(page) = PageLimit /\ inboxPc'[c] = "next"
              /\ before'[c] = Min({at[x] : x \in page})
           \/ Cardinality(page) # PageLimit /\ inboxPc'[c] = "over"
  BY MergeIs
<1>2. /\ inboxPc[c] = "page" /\ queries[c] = {}
      /\ UNCHANGED <<inboxNow, stage, at, until, forMe, clock, known>>
  BY DEF Merge, stored, watched
<1>3. /\ \A x \in Items : at[x] \in Nat
      /\ before[c] \in Nat /\ before'[c] \in Nat /\ PageLimit \in Nat \ {0}
      /\ known[c] \subseteq Items /\ Items = Notes \cup Broadcasts
  BY <1>1, InboxAssumption DEF InboxType, Items
<1>4. /\ \A i \in 1..Len(shown[c]) : PageItems(c, i) \subseteq Items
      /\ \A i \in 1..Len(shown[c]) : \A x \in PageItems(c, i) : before[c] <= at[x]
      /\ \A x \in page : at[x] < before[c]
  BY <1>1, <1>2, PagesHoldItems DEF Ordered
<1>5. \A i : PageItems(c, i)' = shown'[c][i].items
  BY DEF PageItems
<1>6. \A i \in 1..n : \/ i \in 1..Len(shown[c]) /\ PageItems(c, i)' = PageItems(c, i)
                      \/ i = n /\ PageItems(c, i)' = page
  BY <1>1, <1>5
<1>7. ASSUME inboxPc'[c] = "next"
      PROVE  /\ \E y \in page : before'[c] = at[y]
             /\ \A y \in page : before'[c] <= at[y]
             /\ \A i \in 1..Len(shown[c]) : \A x \in PageItems(c, i) : before'[c] <= at[x]
  <2>1. Cardinality(page) = PageLimit /\ before'[c] = Min({at[x] : x \in page})
    BY <1>1, <1>7
  <2>2. page # {}
    <3>1. Cardinality(page) # 0
      BY <1>3, <2>1
    <3> QED BY <3>1, FS_EmptySet
  <2>3. /\ \E y \in page : before'[c] = at[y]
        /\ \A y \in page : before'[c] <= at[y]
    BY <1>1, <2>1, <2>2, PageEnd
  <2>4. PICK y \in page : before'[c] = at[y]
    BY <2>3
  <2>5. before'[c] <= before[c]
    BY <1>1, <1>3, <1>4, <2>4
  <2>6. \A i \in 1..Len(shown[c]) : \A x \in PageItems(c, i) : before'[c] <= at[x]
    <3>1. \A i \in 1..Len(shown[c]) : \A x \in PageItems(c, i) : at[x] \in Nat /\ before[c] <= at[x]
      BY <1>3, <1>4
    <3>2. \A old, new, t \in Nat : new <= old /\ old <= t => new <= t
      OBVIOUS
    <3> QED BY <1>1, <1>3, <2>5, <3>1, <3>2
  <2> QED BY <2>3, <2>6
<1>8. Ordered(c)'
  <2>1. Falling(c)'
    <3> SUFFICES ASSUME NEW i \in 1..n, NEW j \in 1..n, i < j,
                        NEW x \in shown'[c][i].items, NEW y \in shown'[c][j].items
                 PROVE  at[y] < at[x]
      BY <1>1, <1>2, <1>5 DEF Falling
    <3>1. i \in 1..Len(shown[c]) /\ x \in PageItems(c, i) /\ x \in Items
      BY <1>1, <1>4, <1>5, <1>6
    <3>2. CASE j = n
      <4>1. y \in page /\ y \in Items
        BY <1>1, <3>2
      <4>2. at[y] < before[c] /\ before[c] <= at[x] /\ at[x] \in Nat /\ at[y] \in Nat
        BY <1>3, <1>4, <3>1, <4>1
      <4> QED BY <1>3, <4>2
    <3>3. CASE j # n
      <4>1. j \in 1..Len(shown[c]) /\ y \in PageItems(c, j)
        BY <1>1, <1>5, <1>6, <3>3
      <4> QED BY <3>1, <4>1 DEF Ordered, Falling
    <3> QED BY <3>2, <3>3
  <2>2. inboxPc'[c] # "over" =>
          \A i \in 1..n : \A x \in shown'[c][i].items : before'[c] <= at[x]
    BY <1>1, <1>5, <1>6, <1>7
  <2> QED BY <1>1, <1>2, <1>5, <2>1, <2>2 DEF Ordered
<1>9. ASSUME NEW x \in known'[c] PROVE Follows(c, x)'
  <2>1. Follows(c, x) /\ x \in Items
    BY <1>2, <1>3, <1>9
  <2>2. VisibleAt(x, inboxNow)' => VisibleAt(x, inboxNow)
    BY <1>2 DEF VisibleAt, IsStored
  <2>3. Covered(c, x) => Covered(c, x)'
    <3>1. \A i \in 1..Len(shown[c]) : i \in 1..n
      BY <1>1
    <3> QED BY <1>1, <1>2, <3>1 DEF Covered
  <2>4. ASSUME Remains(c, x) PROVE Covered(c, x)' \/ Remains(c, x)'
    <3>1. Reached(c, x)
      BY <1>2, <1>3, <2>1, <2>4 DEF Remains
    <3>2. CASE x \in page
      <4>1. n \in 1..Len(shown'[c]) /\ x \in shown'[c][n].items
        BY <1>1, <3>2
      <4>2. \E i \in 1..Len(shown'[c]) : x \in shown'[c][i].items
        BY <4>1
      <4> QED BY <1>5, <4>2 DEF Covered
    <3>3. CASE x \notin page
      <4>1. Cardinality(page) = PageLimit /\ \A y \in page : at[y] >= at[x]
        BY <2>1, <3>1, <3>3, PageIsFull
      <4>2. inboxPc'[c] = "next"
        BY <1>1, <4>1
      <4>3. PICK y \in page : before'[c] = at[y]
        BY <1>7, <4>2
      <4>4. at[x] <= before'[c] /\ at[x] \in Nat
        BY <1>1, <1>3, <2>1, <4>1, <4>3
      <4>5. CASE at[x] < before'[c]
        BY <1>2, <4>2, <4>5 DEF Remains
      <4>6. CASE at[x] = before'[c]
        <5>1. n \in 1..Len(shown'[c]) /\ \E z \in shown'[c][n].items : at'[z] = at'[x]
          BY <1>1, <1>2, <4>3, <4>6
        <5> QED BY <1>5, <5>1 DEF Covered
      <4> QED BY <1>1, <4>4, <4>5, <4>6
    <3> QED BY <3>2, <3>3
  <2> QED BY <1>2, <2>1, <2>2, <2>3, <2>4 DEF Follows, IsStored
<1> QED BY <1>8, <1>9

LEMMA WalkStep ==
    ASSUME InboxType, CallsInv, WalkInv, InboxStep
    PROVE  WalkInv'
<1> SUFFICES ASSUME NEW d \in Readers, asks[d] = "walk"
             PROVE  Ordered(d)' /\ (inboxPc'[d] # "idle" => \A x \in known'[d] : Follows(d, x)')
  BY StoredKept DEF WalkInv
<1>1. Ordered(d) /\ (inboxPc[d] # "idle" => \A x \in known[d] : Follows(d, x))
  BY DEF WalkInv
<1>2. CASE Still(d)
  BY <1>1, <1>2, WalkStill
<1>3. CASE InboxCall(d)
  <2>0. InboxPlace(d)
    BY DEF CallsInv
  <2>1. CASE StartPage(d)
    BY <1>1, <2>1, WalkStarts
  <2>2. CASE FindNotifications(d)
    <3>1. inboxPc[d] = "page" /\ Answer(d, "personal", Newest(Older(d, Notes), PageLimit))
      BY <2>2 DEF FindNotifications
    <3> QED BY <1>1, <3>1, WalkFinds
  <2>3. CASE FindBroadcasts(d)
    <3>1. inboxPc[d] = "page" /\ Answer(d, "broadcasts", Newest(Older(d, Broadcasts), PageLimit))
      BY <2>3 DEF FindBroadcasts
    <3> QED BY <1>1, <3>1, WalkFinds
  <2>4. CASE Merge(d)
    <3>1. inboxPc[d] = "page"
      BY <2>4 DEF Merge
    <3> QED BY <1>1, <2>4, <3>1, WalkMerges
  <2>5. CASE FindSeenAt(d)
    <3>1. /\ inboxPc[d] = "page" /\ queries'[d] = queries[d] \ {"seen"}
          /\ UNCHANGED <<inboxNow, stage, at, until, forMe, inboxPc, clock, before, found, shown, known>>
      BY <2>5 DEF FindSeenAt, InboxType, stored, watched
    <3>2. /\ "personal" \in queries'[d] <=> "personal" \in queries[d]
          /\ "broadcasts" \in queries'[d] <=> "broadcasts" \in queries[d]
      BY <3>1
    <3>3. Ordered(d)'
      BY <1>1, <3>1 DEF Ordered, Falling, PageItems
    <3>4. ASSUME NEW x \in known'[d] PROVE Follows(d, x)'
      <4>1. Follows(d, x)
        BY <1>1, <3>1, <3>4
      <4>2. Covered(d, x)' <=> Covered(d, x)
        BY <3>1 DEF Covered, PageItems
      <4>3. Reached(d, x)' <=> Reached(d, x)
        BY <3>1 DEF Reached
      <4>4. Remains(d, x)' <=> Remains(d, x)
        BY <3>1, <3>2, <4>3 DEF Remains
      <4>5. VisibleAt(x, inboxNow)' <=> VisibleAt(x, inboxNow)
        BY <3>1 DEF VisibleAt, IsStored
      <4> QED BY <3>1, <4>1, <4>2, <4>4, <4>5 DEF Follows, IsStored
    <3> QED BY <3>3, <3>4
  <2> QED BY <1>3, <2>0, <2>1, <2>2, <2>3, <2>4, <2>5, KindSteps
<1> QED BY <1>2, <1>3, StillOrStep

-----------------------------------------------------------------------------
LEMMA InboxStarts ==
    ASSUME InboxInit
    PROVE  InboxInv
<1>0. /\ \A c \in Readers : /\ inboxPc[c] = "idle" /\ queries[c] = {} /\ clock[c] = 0
                            /\ found[c] = {} /\ foundRead[c] = {} /\ foundSeen[c] = 0
                            /\ shown[c] = <<>> /\ Len(shown[c]) = 0
      /\ inboxNow = 1 /\ seenAt = 0
  BY EmptySeq DEF InboxInit
<1>1. InboxType
  <2>1. <<>> \in Seq(Page)
    BY EmptySeq
  <2>2. Never \in Nat
    BY InboxAssumption DEF Never
  <2>3. /\ at \in [Items -> Nat] /\ until \in [Items -> Nat]
        /\ stage \in [Items -> {"none", "draft", "stored"}]
    BY <2>2 DEF InboxInit
  <2> QED BY <2>1, <2>3 DEF InboxInit, InboxType
<1>2. CallsInv
  BY <1>0 DEF CallsInv, InboxPlace, Finds
<1>3. MarkInv
  BY <1>0 DEF MarkInv, Marking
<1>4. FlagInv /\ CountInv
  BY <1>0 DEF FlagInv, CountInv
<1>5. WalkInv
  BY <1>0 DEF WalkInv, Ordered, Falling
<1> QED BY <1>1, <1>2, <1>3, <1>4, <1>5 DEF InboxInv

LEMMA InboxSteps ==
    ASSUME InboxInv, [InboxNext]_inboxVars
    PROVE  InboxInv'
<1>1. CASE InboxNext
  <2>1. InboxStep
    BY <1>1 DEF InboxNext, InboxStep, Background
  <2> QED BY <2>1, StoredKept, CallsStep, MarkStep, FlagStep, CountStep, WalkStep DEF InboxInv
<1>2. CASE UNCHANGED inboxVars
  <2>1. UNCHANGED <<inboxNow, stage, at, until, forMe, readNotes, receipts, seenAt, asks, inboxPc,
                    queries, clock, before, found, foundRead, foundSeen, shown, known, unread, overlap>>
    BY <1>2 DEF inboxVars, stored, readState, answer, watched
  <2>2. InboxType' /\ CallsInv'
    BY <2>1 DEF InboxInv, InboxType, CallsInv, InboxPlace, Finds, PageItems, IsStored
  <2>3. MarkInv' /\ FlagInv'
    BY <2>1 DEF InboxInv, MarkInv, Marking, FlagInv, KeepsRead, FlagsTrue, IsStored, IsRead, SeenBy
  <2>4. CountInv'
    BY <2>1 DEF InboxInv, CountInv, Omits, Includes, VisibleAt, IsStored
  <2>5. WalkInv'
    BY <2>1 DEF InboxInv, WalkInv, Ordered, Falling, Follows, Covered, Remains, Reached, PageItems,
                VisibleAt, IsStored
  <2> QED BY <2>2, <2>3, <2>4, <2>5 DEF InboxInv
<1> QED BY <1>1, <1>2

LEMMA InboxHolds == InboxSpec => []InboxInv
<1>1. InboxInit => InboxInv
  BY InboxStarts
<1>2. InboxInv /\ [InboxNext]_inboxVars => InboxInv'
  BY InboxSteps
<1> QED BY <1>1, <1>2, PTL DEF InboxSpec

\* A walk shows every older item that was visible when it began and still is, unless it
\* has the very time of a page's last item, and nothing twice.
THEOREM InboxPagesComplete == InboxSpec => []PagesComplete
<1>1. InboxInv => PagesComplete
  BY DEF InboxInv, WalkInv, Ordered, Falling, Follows, Covered, Remains, PagesComplete
<1> QED BY <1>1, InboxHolds, PTL

\* What the pages show as read, and what the count counts, is right, unless two calls
\* marked everything at the same time.
THEOREM InboxReadShownRight == InboxSpec => []ReadShownRight
<1>1. ASSUME InboxInv PROVE ReadFlagTrue
  BY <1>1 DEF InboxInv, FlagInv, FlagsTrue, ReadFlagTrue
<1>2. ASSUME InboxInv PROVE BadgeTrue
  <2> SUFFICES ASSUME NEW c \in Readers, asks[c] = "count", inboxPc[c] = "over", overlap = {}
               PROVE  /\ found[c] \subseteq unread[c] \cup (Items \ known[c])
                      /\ Cardinality(Broadcasts) <= MaxUnseen =>
                           {x \in known[c] : /\ VisibleAt(x, clock[c]) /\ VisibleAt(x, inboxNow)
                                             /\ ~IsRead(x)} \subseteq found[c]
    BY DEF BadgeTrue
  <2>1. Omits(c) /\ Includes(c) /\ queries[c] = {}
    BY <1>2 DEF InboxInv, CountInv, CallsInv, InboxPlace
  <2>2. /\ found[c] \subseteq Items /\ known[c] \subseteq Items /\ Items = Notes \cup Broadcasts
        /\ foundSeen[c] <= seenAt /\ foundSeen[c] \in Nat /\ seenAt \in Nat
        /\ \A x \in Items : at[x] \in Nat
    BY <1>2 DEF InboxInv, InboxType, MarkInv, Items
  <2>3. found[c] \subseteq unread[c]
    BY <2>1, <2>2 DEF Omits
  <2>4. ASSUME Cardinality(Broadcasts) <= MaxUnseen, NEW x \in known[c],
               VisibleAt(x, clock[c]), ~IsRead(x)
        PROVE  x \in found[c]
    <3>1. x \in Items /\ at[x] \in Nat
      BY <2>2
    <3>2. at[x] < foundSeen[c] => at[x] < seenAt
      BY <2>2, <3>1
    <3> QED BY <2>1, <2>2, <2>4, <3>1, <3>2 DEF Includes, IsRead, SeenBy
  <2> QED BY <2>3, <2>4
<1>3. InboxInv => ReadShownRight
  BY <1>1, <1>2 DEF ReadShownRight
<1> QED BY <1>3, InboxHolds, PTL

\* What is read stays read, unless two calls marked everything at the same time.
THEOREM InboxReadStaysRead == InboxSpec => ReadStaysRead
<1>1. ASSUME InboxInv, [InboxNext]_inboxVars
      PROVE  [\A x \in Items : IsStored(x) /\ IsRead(x) => IsRead(x)' \/ overlap' # {}]_inboxVars
  <2>1. CASE InboxNext
    <3>1. InboxStep
      BY <2>1 DEF InboxNext, InboxStep, Background
    <3> QED BY <1>1, <3>1, ReadKept DEF InboxInv
  <2> QED BY <1>1, <2>1
<1>2. InboxInv /\ [InboxNext]_inboxVars
        => [\A x \in Items : IsStored(x) /\ IsRead(x) => IsRead(x)' \/ overlap' # {}]_inboxVars
  BY <1>1
<1> QED BY <1>2, InboxHolds, PTL DEF InboxSpec, ReadStaysRead
=============================================================================
