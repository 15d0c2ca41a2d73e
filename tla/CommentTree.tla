---------------------------- MODULE CommentTree ----------------------------
(***************************************************************************)
(* The comments of one product as a nested set: CommentService's           *)
(* createComment and deleteComment as concurrent MongoDB transactions, and *)
(* getCommentThread, which reads a comment and its range in two queries    *)
(* outside any.  Products share nothing: every query filters by product    *)
(* first.                                                                  *)
(*                                                                         *)
(* The comment a createComment call inserts is named by the call.  As in   *)
(* Orders, a transaction reads its snapshot in the step that begins it and *)
(* a write to a document that others changed since, or that another open   *)
(* transaction has written, is a WriteConflict.  The documents it shifts   *)
(* are therefore the same in its snapshot and in the database.             *)
(*                                                                         *)
(* An insertion is a write nobody conflicts with.  Two history variables,  *)
(* which no guard reads, follow what comes of it: added, and raced, which  *)
(* says whether a root was ever committed across another insertion.        *)
(*                                                                         *)
(* The notification of the parent's author, after the commit, is left out: *)
(* it touches no comment.                                                  *)
(***************************************************************************)
EXTENDS Integers, FiniteSets, Sequences

CONSTANTS
    Seeds,          \* comments there are when the system starts
    SeedParent,     \* their comment_parent
    SeedLeft,       \* their comment_left
    SeedRight,      \* their comment_right
    Calls,          \* createComment, deleteComment and getCommentThread calls
    Workloads,      \* what the calls may ask for, each in [Calls -> Kinds]
    NoComment       \* comment_parent of a root comment

Kinds == {"root", "reply", "delete", "thread"}
Comments == Seeds \cup Calls

\* b lies strictly inside the range of d.
Inside(l, r, b, d) == l[d] < l[b] /\ r[b] < r[d]

\* The comments in the range of d.
Held(D, l, r, d) == {b \in D : l[d] <= l[b] /\ r[b] <= r[d]}

\* The comments D, with parents p and positions l and r, are a nested set: two
\* ranges nest or are apart, a comment lies in the ranges of the one it answers and
\* of that one's ancestors, and a range has room for two positions a comment.
NestedSet(D, p, l, r) ==
    /\ \A d \in D :
         /\ l[d] < r[d]
         /\ r[d] - l[d] + 1 = 2 * Cardinality(Held(D, l, r, d))
         /\ p[d] = NoComment \/ (p[d] \in D /\ Inside(l, r, d, p[d]))
    /\ \A b, d \in D : b # d =>
         /\ r[b] < l[d] \/ r[d] < l[b] \/ Inside(l, r, b, d) \/ Inside(l, r, d, b)
         /\ Inside(l, r, b, d) => p[b] = d \/ (p[b] \in D /\ Inside(l, r, p[b], d))

ASSUME CommentsAssumption ==
    /\ IsFiniteSet(Comments)
    /\ Seeds \cap Calls = {}
    /\ NoComment \notin Comments
    /\ SeedParent \in [Seeds -> Seeds \cup {NoComment}]
    /\ SeedLeft \in [Seeds -> Nat]
    /\ SeedRight \in [Seeds -> Nat]
    /\ NestedSet(Seeds, SeedParent, SeedLeft, SeedRight)
    /\ Workloads \subseteq [Calls -> Kinds]

VARIABLES
    present,        \* comment documents in the database
    parent,         \* comment_parent
    left,           \* comment_left
    right,          \* comment_right
    kind,           \* what each call asks for
    target,         \* the comment a call answers, deletes or reads
    pc,             \* control point of each call
    edit,           \* what its transaction writes, by its snapshot
    missed,         \* comments others changed or deleted since its snapshot
    added,          \* history: comments others inserted since its snapshot
    raced,          \* history: a root and another comment were inserted by
                    \* transactions that overlapped
    span,           \* the range of the comment a reader has found
    thread          \* what it answers

tree   == <<present, parent, left, right>>
reader == <<span, thread>>
past   == <<added, raced>>
vars   == <<tree, kind, target, pc, edit, missed, past, reader>>

\* What a transaction writes: the comments it deletes, those whose right and
\* left it moves by delta, and the position of the comment it inserts.
NoEdit == [erase |-> {}, right |-> {}, left |-> {}, delta |-> 0, at |-> 0]
Touched(c) == edit[c].erase \cup edit[c].right \cup edit[c].left

\* buildTree of no comments
NoThread == [root |-> NoComment, edges |-> {}]

InTransaction(c) == pc[c] \in {"write", "written"}

\* A comment c's transaction may not write.
Conflicting(c, d) ==
    \/ d \in missed[c]
    \/ \E b \in Calls \ {c} : pc[b] = "written" /\ d \in Touched(b)

Init ==
    /\ present = Seeds
    /\ parent = [d \in Comments |-> IF d \in Seeds THEN SeedParent[d] ELSE NoComment]
    /\ left = [d \in Comments |-> IF d \in Seeds THEN SeedLeft[d] ELSE 0]
    /\ right = [d \in Comments |-> IF d \in Seeds THEN SeedRight[d] ELSE 0]
    /\ kind \in Workloads
    /\ target = [c \in Calls |-> NoComment]
    /\ pc = [c \in Calls |-> "start"]
    /\ edit = [c \in Calls |-> NoEdit]
    /\ missed = [c \in Calls |-> {}]
    /\ added = [c \in Calls |-> {}]
    /\ raced = FALSE
    /\ span = [c \in Calls |-> <<0, 0>>]
    /\ thread = [c \in Calls |-> NoThread]

-----------------------------------------------------------------------------
(* The repository, on a snapshot *)

\* findMaxRight
MaxRight == LET R == {right[d] : d \in present} \cup {0}
            IN CHOOSE r \in R : \A s \in R : s <= r

\* shiftPositionsFrom: the comments each of its updates matches.
RightsFrom(position) == {d \in present : right[d] >= position}
LeftsFrom(position)  == {d \in present : left[d] >= position}

\* Mutant: the condition on right is missing.
FromLeft(l, r) == {d \in present : left[d] >= l}

\* deleteCommentsInRange, findCommentsInRange
InRange(l, r) == {d \in present : left[d] >= l /\ right[d] <= r}

-----------------------------------------------------------------------------
(* createComment and deleteComment *)

\* The request: a root comment, or a comment the client has seen, to answer it,
\* to delete it or to read its thread.
Request(c) ==
    /\ pc[c] = "start"
    /\ IF kind[c] = "root"
       THEN UNCHANGED target
       ELSE \E d \in present : target' = [target EXCEPT ![c] = d]
    /\ pc' = [pc EXCEPT ![c] = "begin"]
    /\ UNCHANGED <<tree, kind, edit, missed, past, reader>>

Begin(c, e) ==
    /\ edit' = [edit EXCEPT ![c] = e]
    /\ pc' = [pc EXCEPT ![c] = "write"]
    /\ UNCHANGED <<tree, kind, target, missed, past, reader>>

BeginRoot(c) ==
    /\ pc[c] = "begin"
    /\ kind[c] = "root"
    /\ Begin(c, [NoEdit EXCEPT !.at = MaxRight + 1])

BeginReply(c) ==
    /\ pc[c] = "begin"
    /\ kind[c] = "reply"
    /\ target[c] \in present
    /\ LET position == right[target[c]] IN
        Begin(c, [erase |-> {}, right |-> RightsFrom(position),
                  left |-> LeftsFrom(position), delta |-> 2, at |-> position])

\* Mutant: the gap is closed by the replies' width alone.
InnerWidth(d) == right[d] - left[d] - 1

\* right - left + 1
Width(d) == right[d] - left[d] + 1

BeginDelete(c) ==
    /\ pc[c] = "begin"
    /\ kind[c] = "delete"
    /\ target[c] \in present
    /\ LET t == target[c] IN
        Begin(c, [erase |-> InRange(left[t], right[t]),
                  right |-> RightsFrom(right[t] + 1),
                  left |-> LeftsFrom(right[t] + 1), delta |-> -Width(t), at |-> 0])

\* The parent, or the comment to delete or to read, does not exist (404).
NotFound(c) ==
    /\ pc[c] = "begin"
    /\ kind[c] # "root"
    /\ target[c] \notin present
    /\ pc' = [pc EXCEPT ![c] = "done"]
    /\ UNCHANGED <<tree, kind, target, edit, missed, past, reader>>

\* deleteMany, the two updateMany and the insert.
Write(c) ==
    /\ pc[c] = "write"
    /\ \A d \in Touched(c) : ~Conflicting(c, d)
    /\ pc' = [pc EXCEPT ![c] = "written"]
    /\ UNCHANGED <<tree, kind, target, edit, missed, past, reader>>

\* c's transaction is over, leaving the comments D changed and new inserted, and c goes
\* on at control point next.
Close(c, next, D, new) ==
    /\ pc' = [pc EXCEPT ![c] = next]
    /\ edit' = [edit EXCEPT ![c] = NoEdit]
    /\ missed' = [b \in Calls |-> IF b = c \/ ~InTransaction(b) THEN {}
                                  ELSE missed[b] \cup D]
    /\ added' = [b \in Calls |-> IF b = c \/ ~InTransaction(b) THEN {}
                                 ELSE added[b] \cup new]
    /\ UNCHANGED <<kind, target, reader>>

\* What c inserts and what was inserted since its snapshot have a root among them.
Races(c) == kind[c] # "delete" /\ \E b \in added[c] : "root" \in {kind[b], kind[c]}

Commit(c) ==
    LET e == edit[c]
        new == IF kind[c] = "delete" THEN {} ELSE {c}
    IN
    /\ pc[c] = "written"
    /\ present' = (present \ e.erase) \cup new
    /\ parent' = [parent EXCEPT ![c] = target[c]]
    /\ left' = [d \in Comments |->
                  IF d \in new THEN e.at
                  ELSE IF d \in e.left THEN left[d] + e.delta ELSE left[d]]
    /\ right' = [d \in Comments |->
                   IF d \in new THEN e.at + 1
                   ELSE IF d \in e.right THEN right[d] + e.delta ELSE right[d]]
    /\ raced' = (raced \/ Races(c))
    /\ Close(c, "done", Touched(c), new)

\* withTransaction aborts and runs the callback again.
WriteConflict(c) ==
    /\ pc[c] = "write"
    /\ \E d \in Touched(c) : Conflicting(c, d)
    /\ Close(c, "begin", {}, {})
    /\ UNCHANGED <<tree, raced>>

\* The comment is somebody else's (403), or an error or a crash ends the call:
\* an open transaction is aborted.
CallFails(c) ==
    /\ pc[c] \in {"begin", "write", "written", "range"}
    /\ Close(c, "done", {}, {})
    /\ UNCHANGED <<tree, raced>>

-----------------------------------------------------------------------------
(* getCommentThread *)

\* Mutant: the stack is popped once at most.
PopOne(stack, d) ==
    IF stack # <<>> /\ right[stack[Len(stack)]] < left[d]
    THEN SubSeq(stack, 1, Len(stack) - 1) ELSE stack

\* Ancestors that end before d starts are popped.
Pop(stack, d) ==
    LET keep == {i \in 1..Len(stack) : right[stack[i]] >= left[d]}
    IN SubSeq(stack, 1, CHOOSE i \in keep \cup {0} : \A j \in keep : j <= i)

\* One turn of the loop: d hangs below the top of the stack, or is the root.
Attach(d, acc) ==
    LET stack == Pop(acc.stack, d) IN
    [stack |-> Append(stack, d),
     root  |-> IF stack = <<>> /\ acc.root = NoComment THEN d ELSE acc.root,
     edges |-> IF stack = <<>> THEN acc.edges
               ELSE acc.edges \cup {<<stack[Len(stack)], d>>}]

LastByLeft(D) == CHOOSE d \in D : \A b \in D : left[b] <= left[d]

\* buildTree of the comments D, taken in the order of left.
BuildTree(D) ==
    LET built[B \in SUBSET D] ==
            IF B = {} THEN [stack |-> <<>>, root |-> NoComment, edges |-> {}]
            ELSE Attach(LastByLeft(B), built[B \ {LastByLeft(B)}])
    IN [root |-> built[D].root, edges |-> built[D].edges]

\* findActiveCommentById
FindRoot(c) ==
    /\ pc[c] = "begin"
    /\ kind[c] = "thread"
    /\ target[c] \in present
    /\ span' = [span EXCEPT ![c] = <<left[target[c]], right[target[c]]>>]
    /\ pc' = [pc EXCEPT ![c] = "range"]
    /\ UNCHANGED <<tree, kind, target, edit, missed, past, thread>>

\* findCommentsInRange of the range the root had, and buildTree.
ReadRange(c) ==
    /\ pc[c] = "range"
    /\ thread' = [thread EXCEPT ![c] = BuildTree(InRange(span[c][1], span[c][2]))]
    /\ pc' = [pc EXCEPT ![c] = "answered"]
    /\ UNCHANGED <<tree, kind, target, edit, missed, past, span>>


-----------------------------------------------------------------------------
CommentStep(c) ==
    \/ Request(c)
    \/ BeginRoot(c)
    \/ BeginReply(c)
    \/ BeginDelete(c)
    \/ FindRoot(c)
    \/ ReadRange(c)
    \/ NotFound(c)
    \/ Write(c)
    \/ Commit(c)
    \/ WriteConflict(c)
    \/ CallFails(c)

Next == \E c \in Calls : CommentStep(c)

Spec == Init /\ [][Next]_vars

-----------------------------------------------------------------------------
(* Properties *)

\* d and the replies below it, by comment_parent: the least set that holds d and
\* the answers to what it holds.
Subtree(d) ==
    {b \in present : \A S \in SUBSET present :
        d \in S /\ (\A x \in present : parent[x] \in S => x \in S) => b \in S}

\* The range of a comment holds the comment, its replies and nothing else
\* (docs/index.html, "Toàn bộ thread của X").
ThreadHoldsReplies ==
    \A d \in present : InRange(left[d], right[d]) = Subtree(d)

\* The thread of d, by comment_parent.
ThreadOf(d) == [root |-> d, edges |-> {<<parent[b], b>> : b \in Subtree(d) \ {d}}]

\* The three below hold of every mix of calls until a root has been committed across
\* another insertion: of two such transactions neither writes what the other does, one
\* puts its comment where the other has made room or put its own, and a range may
\* hold a stranger from then on (ThreadHoldsReplies fails).

\* A reader never shows a comment below another than the one it answers, whatever
\* insertions and deletions shifted the comments between its two reads; and if the
\* root still has the range it was found with, the thread is complete and exact.
ThreadRead ==
    [][\A c \in Calls : ~raced /\ pc[c] = "range" /\ pc'[c] = "answered" =>
        /\ \A e \in thread'[c].edges : parent[e[2]] = e[1]
        /\ target[c] \in present /\ span[c] = <<left[target[c]], right[target[c]]>> =>
            thread'[c] = ThreadOf(target[c])]_vars

\* countDescendants
ReplyCount(d) == (right[d] - left[d] - 1) \div 2

\* countDescendants needs no query: the width of the range counts the replies.
ReplyCountExact ==
    ~raced => \A d \in present : ReplyCount(d) = Cardinality(Subtree(d)) - 1

\* What a deletion takes from the database is one comment with all its replies,
\* those that were committed while it ran included, and nobody else's.
DeleteTakesReplies ==
    [][~raced /\ present \ present' # {} =>
        \E d \in present : present \ present' = Subtree(d)]_vars
=============================================================================
