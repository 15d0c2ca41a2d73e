---------------------------- MODULE CommentProofs ----------------------------
(***************************************************************************)
(* Comments are a nested set whatever calls run at the same time, for      *)
(* every forest to start with, every set of calls and every mix of them,   *)
(* until a root is committed across another insertion.                     *)
(*                                                                         *)
(* Two transactions that reply or delete have a comment in common that     *)
(* both shift or erase, unless one of them works on comments that came,    *)
(* behind all others, after the other began to delete; whichever writes    *)
(* second conflicts.  What is committed was therefore computed from the    *)
(* comments as they are, but for those late ones, which need not move.     *)
(*                                                                         *)
(* The loop of buildTree is followed turn by turn, by induction on how     *)
(* many comments it has taken: its stack holds nested comments, among them *)
(* all that have not ended yet, so the top is the one the next answers.    *)
(***************************************************************************)
EXTENDS CommentTree, TLAPS, FiniteSetTheorems, SequenceTheorems, WellFoundedInduction

EditType == [erase : SUBSET Comments, right : SUBSET Comments, left : SUBSET Comments,
             delta : Int, at : Int]

CommentType ==
    /\ present \in SUBSET Comments
    /\ parent \in [Comments -> Comments \cup {NoComment}]
    /\ left \in [Comments -> Int]
    /\ right \in [Comments -> Int]
    /\ kind \in Workloads
    /\ target \in [Calls -> Comments \cup {NoComment}]
    /\ pc \in [Calls -> {"start", "begin", "write", "written", "range", "answered", "done"}]
    /\ edit \in [Calls -> EditType]
    /\ missed \in [Calls -> SUBSET Comments]
    /\ added \in [Calls -> SUBSET Calls]
    /\ raced \in BOOLEAN

\* Where a call may be, and what it has inserted.
PlaceInv ==
    \A c \in Calls :
        /\ InTransaction(c) => kind[c] \in {"root", "reply", "delete"}
        /\ kind[c] = "root" => target[c] = NoComment
        /\ c \in present => pc[c] = "done"

\* What came behind the others after a deletion's snapshot: roots and their replies.
Late(c) == {d \in present : right[d] > right[target[c]] /\ d \notin edit[c].right}

\* The transaction would write the same if it began now.
Fresh(c) ==
    LET t == target[c] IN
    /\ t \in present
    /\ kind[c] = "reply" =>
         edit[c] = [erase |-> {}, right |-> RightsFrom(right[t]), left |-> LeftsFrom(right[t]),
                    delta |-> 2, at |-> right[t]]
    /\ kind[c] = "delete" =>
         /\ edit[c].erase = InRange(left[t], right[t])
         /\ edit[c].right = RightsFrom(right[t] + 1) \ Late(c)
         /\ edit[c].left = LeftsFrom(right[t] + 1) \ Late(c)
         /\ edit[c].delta = -Width(t)
         /\ \A k \in Late(c), d \in present \ Late(c) : right[d] < left[k]

Untouched(c) == missed[c] \cap Touched(c) = {}

Sound(c) ==
    IF kind[c] = "root"
    THEN Touched(c) = {} /\ (~Races(c) => \A d \in present : right[d] < edit[c].at)
    ELSE /\ kind[c] = "reply" => edit[c].erase = {}
         /\ Untouched(c) /\ ~Races(c) => Fresh(c)
         /\ pc[c] = "written" => Untouched(c)

EditInv ==
    /\ \A c \in Calls : InTransaction(c) => Sound(c)
    /\ \A b, c \in Calls : b # c /\ pc[b] = "written" /\ pc[c] = "written" =>
          Touched(b) \cap Touched(c) = {}

TreeInv == NestedSet(present, parent, left, right)

CommentInv == CommentType /\ PlaceInv /\ EditInv /\ TreeInv

-----------------------------------------------------------------------------
(* Nested sets *)

LEMMA FiniteComments ==
    ASSUME NEW D \in SUBSET Comments
    PROVE  IsFiniteSet(D) /\ Cardinality(D) \in Nat
BY CommentsAssumption, FS_Subset, FS_CardinalityType

\* A comment behind all others.
LEMMA NestedRoot ==
    ASSUME NEW D \in SUBSET Comments, NEW p, NEW l \in [Comments -> Int], NEW r \in [Comments -> Int],
           NestedSet(D, p, l, r), NEW c \in Comments \ D, NEW at \in Int, \A d \in D : r[d] < at,
           NEW q, NEW m \in [Comments -> Int], NEW s \in [Comments -> Int],
           \A d \in D : q[d] = p[d] /\ m[d] = l[d] /\ s[d] = r[d],
           q[c] = NoComment, m[c] = at, s[c] = at + 1
    PROVE  NestedSet(D \cup {c}, q, m, s)
<1> DEFINE E == D \cup {c}
<1>1. /\ \A d \in D : l[d] \in Int /\ r[d] \in Int /\ l[d] < r[d]
      /\ c \notin D
  BY DEF NestedSet
<1>2. \A d \in D : Held(E, m, s, d) = Held(D, l, r, d)
  BY <1>1 DEF Held
<1>3. Held(E, m, s, c) = {c}
  BY <1>1 DEF Held
<1>4. Cardinality(Held(E, m, s, c)) = 1
  BY <1>3, FS_Singleton, Zenon
<1>5. \A d \in D : /\ m[d] < s[d]
                   /\ s[d] - m[d] + 1 = 2 * Cardinality(Held(E, m, s, d))
                   /\ q[d] = NoComment \/ (q[d] \in E /\ Inside(m, s, d, q[d]))
  BY <1>1, <1>2 DEF NestedSet, Inside
<1>6. /\ m[c] < s[c]
      /\ s[c] - m[c] + 1 = 2 * Cardinality(Held(E, m, s, c))
  BY <1>4
<1>7. ASSUME NEW b \in D, NEW d \in D, b # d
      PROVE  /\ s[b] < m[d] \/ s[d] < m[b] \/ Inside(m, s, b, d) \/ Inside(m, s, d, b)
             /\ Inside(m, s, b, d) => q[b] = d \/ (q[b] \in E /\ Inside(m, s, q[b], d))
  BY <1>7 DEF NestedSet, Inside
<1>8. ASSUME NEW d \in D
      PROVE  s[d] < m[c] /\ ~Inside(m, s, d, c) /\ ~Inside(m, s, c, d)
  BY <1>1 DEF Inside
<1>9. ASSUME NEW d \in E
      PROVE  /\ m[d] < s[d]
             /\ s[d] - m[d] + 1 = 2 * Cardinality(Held(E, m, s, d))
             /\ q[d] = NoComment \/ (q[d] \in E /\ Inside(m, s, d, q[d]))
  BY <1>5, <1>6
<1>10. ASSUME NEW b \in E, NEW d \in E, b # d
       PROVE  /\ s[b] < m[d] \/ s[d] < m[b] \/ Inside(m, s, b, d) \/ Inside(m, s, d, b)
              /\ Inside(m, s, b, d) => q[b] = d \/ (q[b] \in E /\ Inside(m, s, q[b], d))
  BY <1>7, <1>8, <1>10
<1> HIDE DEF E
<1>11. NestedSet(E, q, m, s)
  BY <1>9, <1>10 DEF NestedSet
<1> QED BY <1>11 DEF E

\* A reply before the end of the comment t: what lies from there on moves by two.
LEMMA NestedReply ==
    ASSUME NEW D \in SUBSET Comments, NEW p, NEW l \in [Comments -> Int], NEW r \in [Comments -> Int],
           NestedSet(D, p, l, r), NEW c \in Comments \ D, NEW t \in D,
           NEW q, NEW m \in [Comments -> Int], NEW s \in [Comments -> Int],
           \A d \in D : /\ q[d] = p[d]
                        /\ m[d] = IF l[d] >= r[t] THEN l[d] + 2 ELSE l[d]
                        /\ s[d] = IF r[d] >= r[t] THEN r[d] + 2 ELSE r[d],
           q[c] = t, m[c] = r[t], s[c] = r[t] + 1
    PROVE  NestedSet(D \cup {c}, q, m, s)
<1> DEFINE E == D \cup {c}
<1>1. /\ \A d \in D : l[d] \in Int /\ r[d] \in Int /\ l[d] < r[d] /\ m[d] \in Int /\ s[d] \in Int
      /\ c \notin D /\ r[t] \in Int
  BY DEF NestedSet
<1>2. \A b, d \in D : /\ l[b] <= l[d] <=> m[b] <= m[d]
                      /\ r[b] <= r[d] <=> s[b] <= s[d]
                      /\ l[b] < l[d] <=> m[b] < m[d]
                      /\ r[b] < r[d] <=> s[b] < s[d]
                      /\ r[b] < l[d] <=> s[b] < m[d]
  BY <1>1
<1>3. \A b, d \in D : Inside(l, r, b, d) <=> Inside(m, s, b, d)
  BY <1>2 DEF Inside
<1>4. ASSUME NEW d \in D, l[d] < r[t], r[t] <= r[d]
      PROVE  /\ Inside(m, s, c, d) /\ ~Inside(m, s, d, c)
             /\ Held(E, m, s, d) = Held(D, l, r, d) \cup {c}
             /\ s[d] - m[d] = r[d] - l[d] + 2
  <2>1. Inside(m, s, c, d) /\ ~Inside(m, s, d, c) /\ s[d] - m[d] = r[d] - l[d] + 2
    BY <1>1, <1>4 DEF Inside
  <2>2. \A b \in D : b \in Held(E, m, s, d) <=> b \in Held(D, l, r, d)
    BY <1>2 DEF Held
  <2>3. c \in Held(E, m, s, d)
    BY <2>1, <1>1 DEF Held, Inside
  <2> QED BY <2>1, <2>2, <2>3 DEF Held
<1>5. ASSUME NEW d \in D, ~(l[d] < r[t] /\ r[t] <= r[d])
      PROVE  /\ s[c] < m[d] \/ s[d] < m[c]
             /\ ~Inside(m, s, c, d) /\ ~Inside(m, s, d, c)
             /\ Held(E, m, s, d) = Held(D, l, r, d)
             /\ s[d] - m[d] = r[d] - l[d]
  <2>1. /\ s[c] < m[d] \/ s[d] < m[c]
        /\ ~Inside(m, s, c, d) /\ ~Inside(m, s, d, c)
        /\ s[d] - m[d] = r[d] - l[d]
        /\ ~(m[d] <= m[c] /\ s[c] <= s[d])
    BY <1>1, <1>5 DEF Inside
  <2>2. \A b \in D : b \in Held(E, m, s, d) <=> b \in Held(D, l, r, d)
    BY <1>2 DEF Held
  <2>3. c \notin Held(E, m, s, d)
    BY <2>1 DEF Held
  <2> QED BY <2>1, <2>2, <2>3 DEF Held
<1>6. Held(E, m, s, c) = {c}
  <2>1. \A d \in D : ~(m[c] <= m[d] /\ s[d] <= s[c])
    BY <1>1
  <2> QED BY <2>1, <1>1 DEF Held
<1>7. \A d \in D : /\ m[d] < s[d]
                   /\ s[d] - m[d] + 1 = 2 * Cardinality(Held(E, m, s, d))
  <2> SUFFICES ASSUME NEW d \in D
               PROVE  m[d] < s[d] /\ s[d] - m[d] + 1 = 2 * Cardinality(Held(E, m, s, d))
    OBVIOUS
  <2>1. r[d] - l[d] + 1 = 2 * Cardinality(Held(D, l, r, d)) /\ m[d] < s[d]
    BY <1>1 DEF NestedSet
  <2>2. /\ IsFiniteSet(Held(D, l, r, d)) /\ Cardinality(Held(D, l, r, d)) \in Nat
        /\ c \notin Held(D, l, r, d)
    BY FiniteComments DEF Held
  <2>3. Cardinality(Held(D, l, r, d) \cup {c}) = Cardinality(Held(D, l, r, d)) + 1
    BY <2>2, FS_AddElement
  <2>4. CASE l[d] < r[t] /\ r[t] <= r[d]
    <3>1. Cardinality(Held(E, m, s, d)) = Cardinality(Held(D, l, r, d)) + 1
      BY <2>3, <2>4, <1>4, Zenon
    <3> QED BY <3>1, <2>1, <2>2, <2>4, <1>1, <1>4
  <2>5. CASE ~(l[d] < r[t] /\ r[t] <= r[d])
    BY <2>1, <2>2, <2>5, <1>1, <1>5
  <2> QED BY <2>4, <2>5
<1>8. \A d \in D : q[d] = NoComment \/ (q[d] \in E /\ Inside(m, s, d, q[d]))
  BY <1>3 DEF NestedSet
<1>9. /\ m[c] < s[c] /\ s[c] - m[c] + 1 = 2 * Cardinality(Held(E, m, s, c))
      /\ q[c] \in E /\ Inside(m, s, c, q[c])
  <2>1. Inside(m, s, c, t)
    BY <1>1, <1>4
  <2>2. Cardinality(Held(E, m, s, c)) = 1
    BY <1>6, FS_Singleton, Zenon
  <2> QED BY <2>1, <2>2, <1>1
<1>10. ASSUME NEW b \in D, NEW d \in D, b # d
       PROVE  /\ s[b] < m[d] \/ s[d] < m[b] \/ Inside(m, s, b, d) \/ Inside(m, s, d, b)
              /\ Inside(m, s, b, d) => q[b] = d \/ (q[b] \in E /\ Inside(m, s, q[b], d))
  <2>1. /\ r[b] < l[d] \/ r[d] < l[b] \/ Inside(l, r, b, d) \/ Inside(l, r, d, b)
        /\ Inside(l, r, b, d) => p[b] = d \/ (p[b] \in D /\ Inside(l, r, p[b], d))
    BY <1>10 DEF NestedSet
  <2> QED BY <2>1, <1>2, <1>3
<1>11. ASSUME NEW d \in D
       PROVE  /\ s[c] < m[d] \/ s[d] < m[c] \/ Inside(m, s, c, d)
              /\ ~Inside(m, s, d, c)
              /\ Inside(m, s, c, d) => q[c] = d \/ (q[c] \in E /\ Inside(m, s, q[c], d))
  <2>1. CASE l[d] < r[t] /\ r[t] <= r[d]
    <3>1. d = t \/ Inside(l, r, t, d)
      BY <2>1, <1>1 DEF NestedSet, Inside
    <3> QED BY <3>1, <2>1, <1>4, <1>3
  <2>2. CASE ~(l[d] < r[t] /\ r[t] <= r[d])
    BY <2>2, <1>5
  <2> QED BY <2>1, <2>2
<1>12. ASSUME NEW d \in E
       PROVE  /\ m[d] < s[d]
              /\ s[d] - m[d] + 1 = 2 * Cardinality(Held(E, m, s, d))
              /\ q[d] = NoComment \/ (q[d] \in E /\ Inside(m, s, d, q[d]))
  BY <1>7, <1>8, <1>9
<1>13. ASSUME NEW b \in E, NEW d \in E, b # d
       PROVE  /\ s[b] < m[d] \/ s[d] < m[b] \/ Inside(m, s, b, d) \/ Inside(m, s, d, b)
              /\ Inside(m, s, b, d) => q[b] = d \/ (q[b] \in E /\ Inside(m, s, q[b], d))
  BY <1>10, <1>11, <1>13
<1> HIDE DEF E
<1>14. NestedSet(E, q, m, s)
  BY <1>12, <1>13 DEF NestedSet
<1> QED BY <1>14 DEF E

\* What lies behind t moves from l and r to m and s, by the width of t, but for the
\* comments K, which are behind t and all others.
ClosesGap(D, l, r, t, K, m, s) ==
    /\ K \subseteq D \ {t}
    /\ \A k \in K, d \in D \ K : r[d] < l[k]
    /\ \A d \in D : /\ m[d] = IF l[d] > r[t] /\ d \notin K THEN l[d] - (r[t] - l[t] + 1) ELSE l[d]
                    /\ s[d] = IF r[d] > r[t] /\ d \notin K THEN r[d] - (r[t] - l[t] + 1) ELSE r[d]

\* A comment leaves with all it holds.
LEMMA NestedDelete ==
    ASSUME NEW D \in SUBSET Comments, NEW p, NEW l \in [Comments -> Int], NEW r \in [Comments -> Int],
           NestedSet(D, p, l, r), NEW t \in D, NEW K,
           NEW m \in [Comments -> Int], NEW s \in [Comments -> Int],
           ClosesGap(D, l, r, t, K, m, s)
    PROVE  /\ NestedSet(D \ Held(D, l, r, t), p, m, s)
           /\ \A b, d \in D \ Held(D, l, r, t) : r[b] < l[d] <=> s[b] < m[d]
<1>0. /\ K \subseteq D /\ t \notin K
      /\ \A k \in K, d \in D \ K : r[d] < l[k]
      /\ \A d \in D : /\ m[d] = IF l[d] > r[t] /\ d \notin K THEN l[d] - (r[t] - l[t] + 1) ELSE l[d]
                      /\ s[d] = IF r[d] > r[t] /\ d \notin K THEN r[d] - (r[t] - l[t] + 1) ELSE r[d]
  BY DEF ClosesGap
<1> DEFINE E == D \ Held(D, l, r, t)
           w == r[t] - l[t] + 1
<1>1. /\ \A d \in D : l[d] \in Int /\ r[d] \in Int /\ l[d] < r[d] /\ m[d] \in Int /\ s[d] \in Int
      /\ t \in D /\ r[t] \in Int /\ l[t] \in Int /\ l[t] < r[t] /\ w \in Int
      /\ E \subseteq D
  <2>1. \A d \in D : l[d] \in Int /\ r[d] \in Int
    OBVIOUS
  <2>2. \A d \in D : m[d] \in Int /\ s[d] \in Int
    OBVIOUS
  <2>3. \A d \in D : l[d] < r[d]
    BY DEF NestedSet
  <2> QED BY <2>1, <2>2, <2>3
<1>2. ASSUME NEW d \in E
      PROVE  r[d] < l[t] \/ r[t] < l[d] \/ (l[d] < l[t] /\ r[t] < r[d] /\ d \notin K)
  <2>1. d # t
    BY <1>1 DEF Held
  <2>2. r[d] < l[t] \/ r[t] < l[d] \/ Inside(l, r, d, t) \/ Inside(l, r, t, d)
    BY <2>1, <1>1 DEF NestedSet
  <2>3. ~Inside(l, r, d, t)
    BY <1>1 DEF Held, Inside
  <2>4. d \in K => r[t] < l[d]
    BY <2>1, <1>0, <1>1
  <2> QED BY <2>2, <2>3, <2>4, <1>1 DEF Inside
<1>3. ASSUME NEW b \in E, NEW d \in E
      PROVE  /\ l[b] <= l[d] <=> m[b] <= m[d]
             /\ r[b] <= r[d] <=> s[b] <= s[d]
             /\ l[b] < l[d] <=> m[b] < m[d]
             /\ r[b] < r[d] <=> s[b] < s[d]
             /\ r[b] < l[d] <=> s[b] < m[d]
  <2>0. /\ l[b] \in Int /\ r[b] \in Int /\ l[b] < r[b] /\ b \in D
        /\ l[d] \in Int /\ r[d] \in Int /\ l[d] < r[d] /\ d \in D
    BY <1>1
  <2>1. /\ m[b] = IF l[b] > r[t] /\ b \notin K THEN l[b] - w ELSE l[b]
        /\ s[b] = IF r[b] > r[t] /\ b \notin K THEN r[b] - w ELSE r[b]
        /\ m[d] = IF l[d] > r[t] /\ d \notin K THEN l[d] - w ELSE l[d]
        /\ s[d] = IF r[d] > r[t] /\ d \notin K THEN r[d] - w ELSE r[d]
    BY <2>0, <1>0
  <2>2. (b \in K /\ d \notin K => r[d] < l[b]) /\ (d \in K /\ b \notin K => r[b] < l[d])
    <3>1. \A k \in K, e \in D \ K : r[e] < l[k]
      BY <1>0
    <3> HIDE DEF E, w
    <3> QED BY <2>0, <3>1
  <2>4. CASE b \in K /\ d \notin K
    BY <1>2, <2>0, <2>1, <2>2, <2>4, <1>1
  <2>5. CASE b \notin K /\ d \in K
    BY <1>2, <2>0, <2>1, <2>2, <2>5, <1>1
  <2>6. CASE b \notin K /\ d \notin K
    BY <1>2, <2>0, <2>1, <2>6, <1>1
  <2>7. CASE b \in K /\ d \in K
    BY <2>1, <2>7
  <2> QED BY <2>4, <2>5, <2>6, <2>7
<1>4. \A b, d \in E : Inside(l, r, b, d) <=> Inside(m, s, b, d)
  BY <1>3 DEF Inside
<1>5. ASSUME NEW d \in E
      PROVE  /\ m[d] < s[d]
             /\ s[d] - m[d] + 1 = 2 * Cardinality(Held(E, m, s, d))
  <2>1. Held(E, m, s, d) = Held(D, l, r, d) \ Held(D, l, r, t)
    BY <1>1, <1>3 DEF Held
  <2>2. r[d] - l[d] + 1 = 2 * Cardinality(Held(D, l, r, d)) /\ w = 2 * Cardinality(Held(D, l, r, t))
    BY <1>1 DEF NestedSet
  <2>3. /\ IsFiniteSet(Held(D, l, r, d)) /\ IsFiniteSet(Held(D, l, r, t))
        /\ Cardinality(Held(D, l, r, d)) \in Nat /\ Cardinality(Held(D, l, r, t)) \in Nat
    BY FiniteComments DEF Held
  <2>4. CASE r[d] < l[t] \/ r[t] < l[d]
    <3>1. Held(D, l, r, d) \ Held(D, l, r, t) = Held(D, l, r, d)
      <4>1. \A b \in D : ~(b \in Held(D, l, r, d) /\ b \in Held(D, l, r, t))
        BY <2>4, <1>1 DEF Held
      <4> QED BY <4>1 DEF Held
    <3>2. Cardinality(Held(E, m, s, d)) = Cardinality(Held(D, l, r, d))
      BY <3>1, <2>1, Zenon
    <3>3. s[d] - m[d] = r[d] - l[d]
      BY <2>4, <1>0, <1>1
    <3> HIDE DEF E, w
    <3> QED BY <3>2, <3>3, <2>2, <2>3, <1>1
  <2>5. CASE l[d] < l[t] /\ r[t] < r[d] /\ d \notin K
    <3>1. Held(D, l, r, t) \subseteq Held(D, l, r, d)
      BY <2>5, <1>1 DEF Held
    <3>2. Cardinality(Held(D, l, r, d) \ Held(D, l, r, t)) =
             Cardinality(Held(D, l, r, d)) - Cardinality(Held(D, l, r, d) \cap Held(D, l, r, t))
      BY <2>3, FS_Difference
    <3>3. Held(D, l, r, d) \cap Held(D, l, r, t) = Held(D, l, r, t)
      BY <3>1
    <3>4. Cardinality(Held(E, m, s, d)) =
             Cardinality(Held(D, l, r, d)) - Cardinality(Held(D, l, r, t))
      BY <3>2, <3>3, <2>1, Zenon
    <3>5. s[d] - m[d] = r[d] - l[d] - w
      BY <2>5, <1>0, <1>1
    <3>6. m[d] < s[d]
      BY <2>5, <1>0, <1>1
    <3> HIDE DEF E, w
    <3> QED BY <3>4, <3>5, <3>6, <2>2, <2>3, <1>1
  <2> QED BY <2>4, <2>5, <1>2
<1>6. ASSUME NEW d \in E
      PROVE  p[d] = NoComment \/ (p[d] \in E /\ Inside(m, s, d, p[d]))
  <2>1. p[d] = NoComment \/ (p[d] \in D /\ Inside(l, r, d, p[d]))
    BY <1>1 DEF NestedSet
  <2>2. ASSUME p[d] \in D, Inside(l, r, d, p[d])
        PROVE  p[d] \in E
    BY <2>2, <1>1 DEF Held, Inside
  <2> QED BY <2>1, <2>2, <1>4
<1>7. ASSUME NEW b \in E, NEW d \in E, b # d
      PROVE  /\ s[b] < m[d] \/ s[d] < m[b] \/ Inside(m, s, b, d) \/ Inside(m, s, d, b)
             /\ Inside(m, s, b, d) => p[b] = d \/ (p[b] \in E /\ Inside(m, s, p[b], d))
  <2>1. /\ r[b] < l[d] \/ r[d] < l[b] \/ Inside(l, r, b, d) \/ Inside(l, r, d, b)
        /\ Inside(l, r, b, d) => p[b] = d \/ (p[b] \in D /\ Inside(l, r, p[b], d))
        /\ p[b] = NoComment \/ (p[b] \in D /\ Inside(l, r, b, p[b]))
    BY <1>1, <1>7 DEF NestedSet
  <2>2. p[b] = NoComment \/ p[b] \in E
    BY <1>6
  <2>3. NoComment \notin D
    BY CommentsAssumption
  <2>4. s[b] < m[d] \/ s[d] < m[b] \/ Inside(m, s, b, d) \/ Inside(m, s, d, b)
    BY <2>1, <1>3, <1>4
  <2>5. ASSUME Inside(m, s, b, d), p[b] # d
        PROVE  p[b] \in E /\ Inside(m, s, p[b], d)
    <3>1. p[b] \in D /\ Inside(l, r, p[b], d)
      BY <2>1, <2>5, <1>4
    <3> QED BY <3>1, <2>2, <2>3, <1>4
  <2> QED BY <2>4, <2>5
<1> HIDE DEF E
<1>8. NestedSet(E, p, m, s)
  BY <1>5, <1>6, <1>7 DEF NestedSet
<1> QED BY <1>3, <1>8 DEF E

\* A range holds a comment, its replies and nothing else.
LEMMA RangeIsSubtree ==
    ASSUME CommentType, TreeInv, NEW d \in present
    PROVE  /\ InRange(left[d], right[d]) = Held(present, left, right, d)
           /\ Held(present, left, right, d) = Subtree(d)
<1> DEFINE H == Held(present, left, right, d)
<1>1. /\ \A b \in present : left[b] \in Int /\ right[b] \in Int /\ left[b] < right[b]
      /\ H \subseteq present /\ d \in H
      /\ NoComment \notin present
  <2>1. \A b \in present : left[b] \in Int /\ right[b] \in Int
    BY DEF CommentType
  <2>2. \A b \in present : left[b] < right[b]
    BY DEF TreeInv, NestedSet
  <2>3. NoComment \notin present
    BY CommentsAssumption DEF CommentType
  <2> QED BY <2>1, <2>2, <2>3 DEF Held
<1>2. InRange(left[d], right[d]) = H
  BY <1>1 DEF InRange, Held
<1>3. ASSUME NEW b \in Subtree(d)
      PROVE  b \in H
  <2>1. ASSUME NEW x \in present, parent[x] \in H
        PROVE  x \in H
    <3>1. Inside(left, right, x, parent[x])
      BY <2>1, <1>1 DEF TreeInv, NestedSet
    <3> QED BY <2>1, <3>1, <1>1 DEF Held, Inside
  <2> QED BY <2>1, <1>1 DEF Subtree
<1>4. ASSUME NEW b \in H
      PROVE  b \in Subtree(d)
  <2> SUFFICES ASSUME NEW S \in SUBSET present, d \in S,
                      \A x \in present : parent[x] \in S => x \in S,
                      b \notin S
               PROVE  FALSE
    BY <1>1 DEF Subtree
  <2> DEFINE far(x) == left[x] - left[d]
             N == {n \in Nat : \E x \in H \ S : n = far(x)}
  <2>1. \A x \in H : far(x) \in Nat
    BY <1>1 DEF Held
  <2>2. N # {}
    BY <2>1
  <2>3. PICK n \in N : \A k \in N : ~(<<k, n>> \in OpToRel(<, Nat))
    BY <2>2, WFMin, NatLessThanWellFounded, Zenon
  <2>4. PICK x \in H \ S : n = far(x)
    BY <2>3
  <2>5. x \in present /\ x # d /\ Inside(left, right, x, d)
    <3>1. x # d /\ x \in present /\ left[d] <= left[x] /\ right[x] <= right[d]
      BY <2>4, <1>1 DEF Held
    <3> QED BY <3>1, <1>1 DEF TreeInv, NestedSet, Inside
  <2>6. parent[x] = d \/ (parent[x] \in present /\ Inside(left, right, parent[x], d))
    BY <2>5 DEF TreeInv, NestedSet
  <2>7. parent[x] \in H /\ Inside(left, right, x, parent[x])
    <3>1. parent[x] \in present /\ Inside(left, right, x, parent[x])
      BY <2>5, <2>6, <1>1 DEF TreeInv, NestedSet
    <3> QED BY <3>1, <2>6, <1>1 DEF Held, Inside
  <2>8. parent[x] \notin S
    BY <2>4, <2>5
  <2>9. far(parent[x]) \in N /\ far(parent[x]) < n
    BY <2>1, <2>4, <2>5, <2>7, <2>8, <1>1 DEF Inside
  <2>10. <<far(parent[x]), n>> \in OpToRel(<, Nat)
    BY <2>9 DEF OpToRel
  <2> QED BY <2>3, <2>9, <2>10
<1> QED BY <1>2, <1>3, <1>4

-----------------------------------------------------------------------------
(* Transactions *)

LEMMA MaxIsLast ==
    ASSUME NEW R \in SUBSET Int, IsFiniteSet(R), R # {}
    PROVE  \E r \in R : \A s \in R : s <= r
<1> DEFINE Bad(T) == T # {} /\ ~\E r \in T : \A s \in T : s <= r
           N == {n \in Nat : \E T \in SUBSET R : Cardinality(T) = n /\ Bad(T)}
<1> SUFFICES ASSUME Bad(R) PROVE FALSE
  OBVIOUS
<1>1. Cardinality(R) \in N
  BY FS_CardinalityType
<1>2. PICK n \in N : \A k \in N : ~(<<k, n>> \in OpToRel(<, Nat))
  BY <1>1, WFMin, NatLessThanWellFounded, Zenon
<1>3. PICK T \in SUBSET R : Cardinality(T) = n /\ Bad(T)
  BY <1>2
<1>4. PICK x \in T : TRUE
  BY <1>3
<1>5. IsFiniteSet(T) /\ IsFiniteSet(T \ {x}) /\ Cardinality(T \ {x}) = Cardinality(T) - 1
      /\ Cardinality(T \ {x}) \in Nat
  BY <1>4, FS_Subset, FS_RemoveElement, FS_CardinalityType
<1>6. ~Bad(T \ {x})
  <2>0. n \in Nat /\ Cardinality(T) = n
    BY <1>2, <1>3
  <2>1. Cardinality(T \ {x}) < n
    <3> HIDE DEF N, Bad
    <3> QED BY <2>0, <1>5
  <2>2. <<Cardinality(T \ {x}), n>> \in OpToRel(<, Nat)
    BY <2>1, <1>5, <1>2 DEF OpToRel
  <2>3. Cardinality(T \ {x}) \notin N
    BY <2>2, <1>2, Zenon
  <2>4. T \ {x} \in SUBSET R
    BY <1>3
  <2> HIDE DEF Bad
  <2> QED BY <2>3, <2>4, <1>5
<1>7. \A s \in T : s \in Int
  BY <1>3
<1> QED BY <1>3, <1>4, <1>6, <1>7

\* A new root begins behind all comments.
LEMMA RootBehindAll ==
    ASSUME CommentType
    PROVE  MaxRight \in Int /\ \A d \in present : right[d] < MaxRight + 1
<1> DEFINE R == {right[d] : d \in present} \cup {0}
<1>1. R \in SUBSET Int /\ R # {}
  BY DEF CommentType
<1>2. IsFiniteSet({right[d] : d \in present})
  <2>1. IsFiniteSet(present)
    BY FiniteComments DEF CommentType
  <2> DEFINE f == [d \in present |-> right[d]]
  <2>2. f \in Surjection(present, {right[d] : d \in present})
    BY DEF Surjection
  <2> QED BY <2>1, <2>2, FS_Surjection, Zenon
<1>3. IsFiniteSet(R)
  BY <1>2, FS_AddElement
<1>4. \E r \in R : \A s \in R : s <= r
  BY <1>1, <1>3, MaxIsLast
<1>5. MaxRight \in R /\ \A s \in R : s <= MaxRight
  BY <1>4 DEF MaxRight
<1>6. \A d \in present : right[d] \in R
  OBVIOUS
<1>7. MaxRight \in Int /\ \A d \in present : right[d] \in Int /\ right[d] <= MaxRight
  <2> HIDE DEF R
  <2> QED BY <1>1, <1>5, <1>6
<1> QED BY <1>7

LEMMA Positions ==
    ASSUME CommentType, TreeInv
    PROVE  \A d \in present : left[d] \in Int /\ right[d] \in Int /\ left[d] < right[d]
                              /\ Width(d) \in Int /\ Width(d) > 0
BY DEF CommentType, TreeInv, NestedSet, Width

\* Two transactions that are up to date have a comment in common, unless one works on
\* what came after the other began to delete.
LEMMA InCommon ==
    ASSUME CommentInv, NEW b \in Calls, NEW c \in Calls, Fresh(b), Fresh(c),
           kind[b] \in {"reply", "delete"}, kind[c] \in {"reply", "delete"},
           Touched(b) \cap Touched(c) = {}, right[target[b]] <= right[target[c]]
    PROVE  kind[b] = "delete" /\ target[c] \in Late(b)
<1> DEFINE t == target[b]
           u == target[c]
<1>1. /\ t \in present /\ u \in present
      /\ left[t] \in Int /\ right[t] \in Int /\ left[t] < right[t]
      /\ left[u] \in Int /\ right[u] \in Int /\ left[u] < right[u]
  BY Positions DEF CommentInv, Fresh
<1>2. u \in Touched(c)
  <2>1. CASE kind[c] = "reply"
    BY <1>1, <2>1 DEF Fresh, Touched, RightsFrom
  <2>2. CASE kind[c] = "delete"
    BY <1>1, <2>2 DEF Fresh, Touched, InRange
  <2> QED BY <2>1, <2>2
<1>3. u \notin Touched(b)
  BY <1>2
<1>4. kind[b] = "delete"
  <2>1. CASE kind[b] = "reply"
    BY <1>1, <1>3, <2>1 DEF Fresh, Touched, RightsFrom
  <2> QED BY <2>1
<1>5. right[t] < right[u]
  <2>1. CASE u = t
    BY <1>1, <1>3, <1>4, <2>1 DEF Fresh, Touched, InRange
  <2>2. CASE u # t
    BY <1>1, <2>2 DEF CommentInv, TreeInv, NestedSet, Inside
  <2> QED BY <2>1, <2>2
<1>6. u \in Late(b)
  BY <1>1, <1>3, <1>5 DEF Late, Touched
<1> QED BY <1>4, <1>6

LEMMA Common ==
    ASSUME CommentInv, NEW b \in Calls, NEW c \in Calls, Fresh(b), Fresh(c),
           kind[b] \in {"reply", "delete"}, kind[c] \in {"reply", "delete"},
           Touched(b) \cap Touched(c) = {}
    PROVE  \/ kind[b] = "delete" /\ target[c] \in Late(b)
           \/ kind[c] = "delete" /\ target[b] \in Late(c)
<1>1. right[target[b]] \in Int /\ right[target[c]] \in Int
  BY Positions DEF CommentInv, Fresh
<1>2. CASE right[target[b]] <= right[target[c]]
  BY <1>2, InCommon
<1>3. CASE right[target[c]] <= right[target[b]]
  <2>1. Touched(c) \cap Touched(b) = {}
    OBVIOUS
  <2> QED BY <2>1, <1>3, InCommon
<1> QED BY <1>1, <1>2, <1>3

\* A deletion does not depend on what happens behind all it has seen.
LEMMA LateChange ==
    ASSUME CommentInv, CommentType', NEW c \in Calls, kind[c] = "delete", Fresh(c),
           UNCHANGED <<edit[c], kind, target>>,
           NEW G, G = present \ Late(c), G \subseteq present',
           \A d \in G : left'[d] = left[d] /\ right'[d] = right[d],
           \A k \in present' \ G : /\ k \notin edit[c].right /\ left'[k] < right'[k]
                                   /\ \A d \in G : right[d] < left'[k]
    PROVE  Fresh(c)'
<1> DEFINE t == target[c]
           n == right[t] + 1
           N == present' \ G
<1>1. /\ \A d \in present : left[d] \in Int /\ right[d] \in Int /\ left[d] < right[d]
      /\ \A d \in present' : left'[d] \in Int /\ right'[d] \in Int
      /\ Late(c) \subseteq present
  BY Positions DEF CommentInv, CommentType, Late
<1>2. t \in G /\ t \in present' /\ left'[t] = left[t] /\ right'[t] = right[t]
  BY <1>1 DEF Fresh, Late
<1>3. \A k \in Late(c) : right[k] > right[t]
  BY DEF Late
<1>4. \A k \in N : left'[k] > right[t] /\ right'[k] > right[t]
  BY <1>1, <1>2
<1> HIDE DEF t
<1>5. {d \in present' : left'[d] >= left[t] /\ right'[d] <= right[t]} = InRange(left[t], right[t])
  <2>1. \A d \in N : ~(right'[d] <= right[t])
    BY <1>1, <1>2, <1>4
  <2>2. \A d \in Late(c) : ~(right[d] <= right[t])
    BY <1>1, <1>2, <1>3
  <2> QED BY <2>1, <2>2 DEF InRange
<1>6. /\ {d \in present' : right'[d] >= n} = (RightsFrom(n) \ Late(c)) \cup N
      /\ {d \in present' : left'[d] >= n} = (LeftsFrom(n) \ Late(c)) \cup N
  <2>1. \A d \in N : right'[d] >= n /\ left'[d] >= n
    BY <1>1, <1>2, <1>4
  <2> HIDE DEF n
  <2>2. \A d \in present' : right'[d] >= n <=> d \in N \/ (d \in G /\ right[d] >= n)
    BY <2>1
  <2>3. \A d \in present' : left'[d] >= n <=> d \in N \/ (d \in G /\ left[d] >= n)
    BY <2>1
  <2> QED BY <2>2, <2>3 DEF RightsFrom, LeftsFrom
<1>7. {d \in present' : right'[d] > right[t] /\ d \notin edit[c].right} = N
  <2>1. \A d \in G : ~(right[d] > right[t] /\ d \notin edit[c].right)
    BY DEF Late, t
  <2> QED BY <2>1, <1>4
<1>8. /\ edit[c].erase = InRange(left[t], right[t])
      /\ edit[c].right = RightsFrom(n) \ Late(c)
      /\ edit[c].left = LeftsFrom(n) \ Late(c)
      /\ edit[c].delta = -Width(t)
  BY DEF Fresh, t
<1>9. /\ target'[c] = t /\ edit'[c] = edit[c] /\ kind'[c] = "delete" /\ t' = t
  BY DEF t
<1>10. /\ InRange(left[t], right[t])' = InRange(left[t], right[t])
       /\ RightsFrom(right[t] + 1)' = (RightsFrom(n) \ Late(c)) \cup N
       /\ LeftsFrom(right[t] + 1)' = (LeftsFrom(n) \ Late(c)) \cup N
       /\ Late(c)' = N
       /\ Width(t)' = Width(t)
  BY <1>2, <1>5, <1>6, <1>7, <1>9 DEF InRange, RightsFrom, LeftsFrom, Late, Width
<1>11. /\ ((RightsFrom(n) \ Late(c)) \cup N) \ N = RightsFrom(n) \ Late(c)
       /\ ((LeftsFrom(n) \ Late(c)) \cup N) \ N = LeftsFrom(n) \ Late(c)
  BY DEF RightsFrom, LeftsFrom
<1>12. \A k \in N, d \in present' \ N : right'[d] < left'[k]
  OBVIOUS
<1> HIDE DEF n, N
<1> QED BY <1>2, <1>8, <1>9, <1>10, <1>11, <1>12 DEF Fresh

\* Nor does what is done behind a deletion depend on it: the comments L stay where they
\* are, and all others stay before them.
LEMMA LateKept ==
    ASSUME CommentInv, CommentType', NEW c \in Calls, kind[c] \in {"reply", "delete"}, Fresh(c),
           UNCHANGED <<edit[c], kind, target>>,
           NEW L \in SUBSET present, L \subseteq present', target[c] \in L,
           \A k \in L : left'[k] = left[k] /\ right'[k] = right[k],
           \A d \in present \ L : right[d] < left[target[c]],
           \A d \in present' \ L : left'[d] < right'[d] /\ right'[d] < left[target[c]]
    PROVE  Fresh(c)'
<1> DEFINE u == target[c]
<1>1. /\ \A d \in present : left[d] \in Int /\ right[d] \in Int /\ left[d] < right[d]
      /\ \A d \in present' : left'[d] \in Int /\ right'[d] \in Int
      /\ u \in L /\ u \in present /\ u \in present'
      /\ left'[u] = left[u] /\ right'[u] = right[u]
  BY Positions DEF CommentInv, CommentType
<1> HIDE DEF u
<1>2. ASSUME NEW n \in Int, n >= left[u]
      PROVE  /\ {d \in present' : right'[d] >= n} = RightsFrom(n)
             /\ {d \in present' : left'[d] >= n} = LeftsFrom(n)
  <2>1. \A d \in present \ L : ~(right[d] >= n) /\ ~(left[d] >= n)
    BY <1>1, <1>2 DEF u
  <2>2. \A d \in present' \ L : ~(right'[d] >= n) /\ ~(left'[d] >= n)
    BY <1>1, <1>2 DEF u
  <2>3. \A d \in present' : right'[d] >= n <=> d \in L /\ right[d] >= n
    BY <2>2
  <2>4. \A d \in present' : left'[d] >= n <=> d \in L /\ left[d] >= n
    BY <2>2
  <2> QED BY <2>1, <2>3, <2>4 DEF RightsFrom, LeftsFrom
<1>3. /\ target'[c] = u /\ edit'[c] = edit[c] /\ kind'[c] = kind[c] /\ u' = u
      /\ u \in present'
  BY <1>1 DEF u
<1>4. right[u] \in Int /\ left[u] \in Int /\ right[u] >= left[u] /\ right[u] + 1 >= left[u]
  BY <1>1
<1>5. CASE kind[c] = "reply"
  <2>1. edit[c] = [erase |-> {}, right |-> RightsFrom(right[u]), left |-> LeftsFrom(right[u]),
                   delta |-> 2, at |-> right[u]]
    BY <1>5 DEF Fresh, u
  <2>2. RightsFrom(right[u])' = RightsFrom(right[u]) /\ LeftsFrom(right[u])' = LeftsFrom(right[u])
    BY <1>1, <1>2, <1>3, <1>4 DEF RightsFrom, LeftsFrom
  <2>3. right'[u] = right[u]
    BY <1>1
  <2> QED BY <1>3, <1>5, <2>1, <2>2, <2>3 DEF Fresh
<1>6. CASE kind[c] = "delete"
  <2> DEFINE n == right[u] + 1
  <2>1. /\ edit[c].erase = InRange(left[u], right[u])
        /\ edit[c].right = RightsFrom(n) \ Late(c)
        /\ edit[c].left = LeftsFrom(n) \ Late(c)
        /\ edit[c].delta = -Width(u)
        /\ \A k \in Late(c), d \in present \ Late(c) : right[d] < left[k]
    BY <1>6 DEF Fresh, u
  <2>2. RightsFrom(right[u] + 1)' = RightsFrom(n) /\ LeftsFrom(right[u] + 1)' = LeftsFrom(n)
    BY <1>1, <1>2, <1>3, <1>4 DEF RightsFrom, LeftsFrom
  <2>3. InRange(left[u], right[u])' = InRange(left[u], right[u])
    <3>1. \A d \in present \ L : ~(left[d] >= left[u])
      BY <1>1 DEF u
    <3>2. \A d \in present' \ L : ~(left'[d] >= left[u])
      BY <1>1 DEF u
    <3>3. \A d \in present' : left'[d] >= left[u] /\ right'[d] <= right[u]
                              <=> d \in L /\ left[d] >= left[u] /\ right[d] <= right[u]
      BY <3>2
    <3>4. {d \in present' : left'[d] >= left[u] /\ right'[d] <= right[u]} = InRange(left[u], right[u])
      BY <3>1, <3>3 DEF InRange
    <3> QED BY <1>1, <1>3, <3>4 DEF InRange
  <2>4. \A d \in present : d \in Late(c) <=> d \in L /\ right[d] > right[u] /\ d \notin edit[c].right
    <3>1. \A d \in present \ L : ~(right[d] > right[u])
      BY <1>1 DEF u
    <3> QED BY <3>1 DEF Late, u
  <2>5. \A d \in present' : d \in Late(c)' <=> d \in L /\ right[d] > right[u] /\ d \notin edit[c].right
    <3>1. \A d \in present' \ L : ~(right'[d] > right[u])
      BY <1>1 DEF u
    <3>2. \A d \in present' : d \in Late(c)' <=> right'[d] > right[u] /\ d \notin edit[c].right
      BY <1>1, <1>3 DEF Late
    <3> QED BY <3>1, <3>2
  <2>6. Late(c)' = Late(c)
    <3>1. Late(c)' \subseteq present' /\ Late(c) \subseteq present
      BY DEF Late
    <3> QED BY <2>4, <2>5, <3>1
  <2>7. \A k \in Late(c), d \in present' \ Late(c) : right'[d] < left'[k]
    <3> SUFFICES ASSUME NEW k \in Late(c), NEW d \in present' \ Late(c)
                 PROVE  right'[d] < left'[k]
      OBVIOUS
    <3>1. k \in L /\ left'[k] = left[k] /\ left[k] \in Int
      BY <1>1, <2>4 DEF Late
    <3>2. CASE d \in L
      BY <2>1, <3>1, <3>2
    <3>3. CASE d \notin L
      <4>1. u \in present \ Late(c)
        BY <1>1, <2>4
      <4>2. right[u] < left[k]
        BY <2>1, <4>1
      <4>3. right'[d] < left[u]
        BY <3>3 DEF u
      <4> QED BY <1>1, <3>1, <4>2, <4>3
    <3> QED BY <3>2, <3>3
  <2>8. Width(u)' = Width(u)
    BY <1>1, <1>3 DEF Width
  <2> HIDE DEF n
  <2> QED BY <1>3, <1>6, <2>1, <2>2, <2>3, <2>6, <2>7, <2>8 DEF Fresh
<1> QED BY <1>5, <1>6

\* A transaction that nothing happens to.
LEMMA SoundKept ==
    ASSUME NEW c \in Calls, Sound(c),
           UNCHANGED <<tree, kind, pc[c], edit[c], missed[c], added[c], target[c]>>
    PROVE  Sound(c)'
BY DEF Sound, Races, Untouched, Touched, Fresh, Late, RightsFrom, LeftsFrom, InRange, Width, tree

\* Steps that neither write nor begin or go on with a transaction.
LEMMA EditsKept ==
    ASSUME CommentInv, CommentType', UNCHANGED <<tree, kind>>,
           \A c \in Calls : InTransaction(c)' =>
               InTransaction(c) /\ UNCHANGED <<pc[c], edit[c], missed[c], added[c], target[c]>>,
           \A c \in Calls : /\ pc[c] = "done" => pc'[c] = "done"
                            /\ kind[c] = "root" => target'[c] = target[c]
    PROVE  CommentInv'
<1>1. PlaceInv'
  BY DEF CommentInv, PlaceInv, tree
<1>2. TreeInv'
  BY DEF CommentInv, TreeInv, tree
<1>3. ASSUME NEW c \in Calls, InTransaction(c)' PROVE Sound(c)'
  <2>1. InTransaction(c) /\ UNCHANGED <<pc[c], edit[c], missed[c], added[c], target[c]>>
    BY <1>3
  <2>2. Sound(c)
    BY <2>1 DEF CommentInv, EditInv
  <2> QED BY <2>1, <2>2, SoundKept
<1>4. ASSUME NEW b \in Calls, NEW c \in Calls, b # c, pc'[b] = "written", pc'[c] = "written"
      PROVE  Touched(b)' \cap Touched(c)' = {}
  <2>1. /\ InTransaction(b)' /\ InTransaction(c)'
    BY <1>4 DEF InTransaction
  <2>2. UNCHANGED <<pc[b], edit[b], pc[c], edit[c]>>
    BY <2>1
  <2> QED BY <1>4, <2>2 DEF CommentInv, EditInv, Touched
<1> QED BY <1>1, <1>2, <1>3, <1>4 DEF CommentInv, EditInv

-----------------------------------------------------------------------------
(* Steps *)

LEMMA CommentTypeStep ==
    ASSUME CommentType, [Next]_vars
    PROVE  CommentType'
<1> USE DEF CommentType
<1>1. ASSUME NEW c \in Calls, NEW e \in EditType, Begin(c, e) PROVE CommentType'
  BY <1>1 DEF Begin, tree, past, reader
<1>2. ASSUME NEW c \in Calls, NEW d \in SUBSET Comments, NEW next \in {"begin", "done"},
             NEW new \in SUBSET Calls, Close(c, next, d, new)
      PROVE  /\ pc' \in [Calls -> {"start", "begin", "write", "written", "range", "answered", "done"}]
             /\ edit' \in [Calls -> EditType]
             /\ missed' \in [Calls -> SUBSET Comments]
             /\ added' \in [Calls -> SUBSET Calls]
             /\ UNCHANGED <<kind, target>>
  <2>1. NoEdit \in EditType
    BY DEF NoEdit, EditType
  <2>2. edit' \in [Calls -> EditType]
    BY <1>2, <2>1 DEF Close
  <2>3. \A b \in Calls :
           /\ (IF b = c \/ ~InTransaction(b) THEN {} ELSE missed[b] \cup d) \in SUBSET Comments
           /\ (IF b = c \/ ~InTransaction(b) THEN {} ELSE added[b] \cup new) \in SUBSET Calls
    OBVIOUS
  <2> QED BY <1>2, <2>2, <2>3 DEF Close
<1>3. \A n \in Int : RightsFrom(n) \in SUBSET Comments /\ LeftsFrom(n) \in SUBSET Comments
  BY DEF RightsFrom, LeftsFrom
<1>4. ASSUME NEW c \in Calls, Request(c) PROVE CommentType'
  <2>1. target' \in [Calls -> Comments \cup {NoComment}]
    BY <1>4 DEF Request
  <2> QED BY <1>4, <2>1 DEF Request, tree, past, reader
<1>5. ASSUME NEW c \in Calls, BeginRoot(c) PROVE CommentType'
  <2>1. MaxRight + 1 \in Int
    BY RootBehindAll
  <2>2. [NoEdit EXCEPT !.at = MaxRight + 1] \in EditType
    BY <2>1 DEF NoEdit, EditType
  <2> QED BY <2>2, <1>1, <1>5 DEF BeginRoot
<1>6. ASSUME NEW c \in Calls, BeginReply(c) PROVE CommentType'
  <2> DEFINE n == right[target[c]]
             e == [erase |-> {}, right |-> RightsFrom(n), left |-> LeftsFrom(n), delta |-> 2, at |-> n]
  <2>1. n \in Int
    BY <1>6 DEF BeginReply
  <2>2. e \in EditType
    <3> HIDE DEF n
    <3> QED BY <1>3, <2>1 DEF EditType
  <2>3. Begin(c, e)
    BY <1>6 DEF BeginReply
  <2> QED BY <1>1, <2>2, <2>3
<1>7. ASSUME NEW c \in Calls, BeginDelete(c) PROVE CommentType'
  <2> DEFINE t == target[c]
             e == [erase |-> InRange(left[t], right[t]), right |-> RightsFrom(right[t] + 1),
                   left |-> LeftsFrom(right[t] + 1), delta |-> -Width(t), at |-> 0]
  <2>1. left[t] \in Int /\ right[t] \in Int /\ -Width(t) \in Int
    BY <1>7 DEF BeginDelete, Width
  <2>2. InRange(left[t], right[t]) \in SUBSET Comments
    BY DEF InRange
  <2>3. e \in EditType
    <3>1. right[t] + 1 \in Int
      BY <2>1
    <3> HIDE DEF t
    <3> QED BY <1>3, <2>1, <2>2, <3>1 DEF EditType
  <2>4. Begin(c, e)
    BY <1>7 DEF BeginDelete
  <2> QED BY <1>1, <2>3, <2>4
<1>8. ASSUME NEW c \in Calls, FindRoot(c) PROVE CommentType'
  BY <1>8 DEF FindRoot, tree, past
<1>9. ASSUME NEW c \in Calls, ReadRange(c) PROVE CommentType'
  BY <1>9 DEF ReadRange, tree, past
<1>10. ASSUME NEW c \in Calls, NotFound(c) PROVE CommentType'
  BY <1>10 DEF NotFound, tree, past, reader
<1>11. ASSUME NEW c \in Calls, Write(c) PROVE CommentType'
  BY <1>11 DEF Write, tree, past, reader
<1>12. ASSUME NEW c \in Calls, Commit(c) PROVE CommentType'
  <2>1. Touched(c) \in SUBSET Comments /\ edit[c].delta \in Int /\ edit[c].at \in Int
    BY DEF Touched, EditType
  <2>2. c \in Comments
    BY DEF Comments
  <2>3. present' \in SUBSET Comments
    BY <1>12, <2>2 DEF Commit
  <2>4. parent' \in [Comments -> Comments \cup {NoComment}]
    BY <1>12, <2>2 DEF Commit
  <2>5. left' \in [Comments -> Int] /\ right' \in [Comments -> Int]
    BY <1>12, <2>1 DEF Commit
  <2>6. raced' \in BOOLEAN
    BY <1>12 DEF Commit, Races
  <2>7. \E new \in SUBSET Calls : Close(c, "done", Touched(c), new)
    BY <1>12 DEF Commit
  <2> QED BY <1>2, <2>1, <2>3, <2>4, <2>5, <2>6, <2>7
<1>13. ASSUME NEW c \in Calls, WriteConflict(c) \/ CallFails(c) PROVE CommentType'
  <2>1. /\ Close(c, "begin", {}, {}) \/ Close(c, "done", {}, {})
        /\ UNCHANGED <<present, parent, left, right, raced>>
    BY <1>13 DEF WriteConflict, CallFails, tree
  <2>2. {} \in SUBSET Comments /\ {} \in SUBSET Calls
    OBVIOUS
  <2>3. /\ pc' \in [Calls -> {"start", "begin", "write", "written", "range", "answered", "done"}]
        /\ edit' \in [Calls -> EditType]
        /\ missed' \in [Calls -> SUBSET Comments]
        /\ added' \in [Calls -> SUBSET Calls]
        /\ UNCHANGED <<kind, target>>
    BY <1>2, <2>1, <2>2
  <2> QED BY <2>1, <2>3
<1>14. CASE UNCHANGED vars
  BY <1>14 DEF vars, tree, past, reader
<1> QED BY <1>4, <1>5, <1>6, <1>7, <1>8, <1>9, <1>10, <1>11, <1>12, <1>13, <1>14
        DEF Next, CommentStep

\* A transaction that begins is up to date, whatever it has missed before.
LEMMA BeginKeeps ==
    ASSUME CommentInv, CommentType', NEW c \in Calls, NEW e, Begin(c, e),
           pc[c] = "begin", kind[c] \in {"root", "reply", "delete"}, Sound(c)'
    PROVE  CommentInv'
<1>1. /\ pc' = [pc EXCEPT ![c] = "write"] /\ edit' = [edit EXCEPT ![c] = e]
      /\ UNCHANGED <<tree, kind, target, missed, added>>
  BY DEF Begin, past
<1>2. pc'[c] = "write" /\ \A d \in Calls \ {c} : pc'[d] = pc[d] /\ edit'[d] = edit[d]
  BY <1>1 DEF CommentInv, CommentType
<1>3. PlaceInv'
  BY <1>1, <1>2 DEF CommentInv, PlaceInv, InTransaction, tree
<1>4. TreeInv'
  BY <1>1 DEF CommentInv, TreeInv, tree
<1>5. ASSUME NEW d \in Calls, InTransaction(d)' PROVE Sound(d)'
  <2>1. CASE d # c
    <3>1. UNCHANGED <<tree, kind, pc[d], edit[d], missed[d], added[d], target[d]>>
      BY <1>1, <1>2, <2>1
    <3>2. Sound(d)
      BY <1>5, <3>1 DEF CommentInv, EditInv, InTransaction
    <3> QED BY <3>1, <3>2, SoundKept
  <2> QED BY <2>1
<1>6. ASSUME NEW b \in Calls, NEW d \in Calls, b # d, pc'[b] = "written", pc'[d] = "written"
      PROVE  Touched(b)' \cap Touched(d)' = {}
  <2>1. b # c /\ d # c
    BY <1>2, <1>6
  <2>2. UNCHANGED <<pc[b], edit[b], pc[d], edit[d]>>
    BY <1>2, <2>1
  <2> QED BY <1>6, <2>2 DEF CommentInv, EditInv, Touched
<1> QED BY <1>3, <1>4, <1>5, <1>6 DEF CommentInv, EditInv

LEMMA BeginStep ==
    ASSUME CommentInv, CommentType', NEW c \in Calls, BeginRoot(c) \/ BeginReply(c) \/ BeginDelete(c)
    PROVE  CommentInv'
<1> USE DEF CommentInv
<1>0. \A e : Begin(c, e) => edit'[c] = e /\ UNCHANGED <<tree, kind, target>>
                            /\ UNCHANGED <<present, left, right>> /\ pc'[c] = "write"
  BY DEF Begin, tree, CommentType
<1>1. CASE BeginRoot(c)
  <2> DEFINE e == [NoEdit EXCEPT !.at = MaxRight + 1]
  <2>1. Begin(c, e) /\ pc[c] = "begin" /\ kind[c] = "root"
    BY <1>1 DEF BeginRoot
  <2>2. e.erase = {} /\ e.right = {} /\ e.left = {} /\ e.at = MaxRight + 1
    BY DEF NoEdit
  <2>3. edit'[c] = e /\ kind'[c] = "root" /\ UNCHANGED <<present, right>>
    BY <1>0, <2>1
  <2>4. Touched(c)' = {} /\ \A d \in present' : right'[d] < edit'[c].at
    <3> HIDE DEF e
    <3> QED BY <2>2, <2>3, RootBehindAll DEF Touched
  <2>5. Sound(c)'
    BY <2>3, <2>4 DEF Sound
  <2> HIDE DEF e
  <2> QED BY <2>1, <2>5, BeginKeeps
<1>2. CASE BeginReply(c)
  <2> DEFINE n == right[target[c]]
             e == [erase |-> {}, right |-> RightsFrom(n), left |-> LeftsFrom(n), delta |-> 2, at |-> n]
  <2>1. Begin(c, e) /\ pc[c] = "begin" /\ kind[c] = "reply" /\ target[c] \in present
    BY <1>2 DEF BeginReply
  <2>2. edit'[c] = e /\ pc'[c] = "write" /\ UNCHANGED <<kind, target, present, left, right>>
    BY <1>0, <2>1
  <2>3. Sound(c)'
    BY <2>1, <2>2 DEF Sound, Fresh, RightsFrom, LeftsFrom
  <2> HIDE DEF e
  <2> QED BY <2>1, <2>3, BeginKeeps
<1>3. CASE BeginDelete(c)
  <2> DEFINE t == target[c]
             e == [erase |-> InRange(left[t], right[t]), right |-> RightsFrom(right[t] + 1),
                   left |-> LeftsFrom(right[t] + 1), delta |-> -Width(t), at |-> 0]
  <2>1. Begin(c, e) /\ pc[c] = "begin" /\ kind[c] = "delete" /\ t \in present
    BY <1>3 DEF BeginDelete
  <2>2. edit'[c] = e /\ pc'[c] = "write" /\ UNCHANGED <<kind, target, present, left, right>>
    BY <1>0, <2>1
  <2>3. Late(c)' = {}
    <3>1. right[t] \in Int /\ \A d \in present : right[d] \in Int
      BY <2>1, Positions
    <3>2. edit'[c].right = RightsFrom(right[t] + 1) /\ t' = t /\ right'[t] = right[t]
      BY <2>2
    <3>3. \A d \in present : right[d] > right[t] => d \in RightsFrom(right[t] + 1)
      BY <3>1 DEF RightsFrom
    <3> QED BY <2>2, <3>2, <3>3 DEF Late
  <2>4. Fresh(c)'
    <3>1. /\ InRange(left[t], right[t])' = InRange(left[t], right[t])
          /\ RightsFrom(right[t] + 1)' = RightsFrom(right[t] + 1)
          /\ LeftsFrom(right[t] + 1)' = LeftsFrom(right[t] + 1)
          /\ Width(t)' = Width(t) /\ t' = t
      BY <2>2 DEF InRange, RightsFrom, LeftsFrom, Width
    <3>2. /\ edit'[c].erase = InRange(left[t], right[t])
          /\ edit'[c].right = RightsFrom(right[t] + 1)
          /\ edit'[c].left = LeftsFrom(right[t] + 1)
          /\ edit'[c].delta = -Width(t)
      BY <2>2
    <3> QED BY <2>1, <2>2, <2>3, <3>1, <3>2 DEF Fresh
  <2>5. Sound(c)'
    BY <2>1, <2>2, <2>4 DEF Sound
  <2> HIDE DEF e
  <2> QED BY <2>1, <2>5, BeginKeeps
<1> QED BY <1>1, <1>2, <1>3

\* Only a transaction that has missed none of its comments writes, and no other
\* that has written is in its way.
LEMMA WriteStep ==
    ASSUME CommentInv, CommentType', NEW c \in Calls, Write(c)
    PROVE  CommentInv'
<1> USE DEF CommentInv
<1>1. /\ pc' = [pc EXCEPT ![c] = "written"] /\ pc[c] = "write"
      /\ UNCHANGED <<tree, kind, target, edit, missed, added>>
  BY DEF Write, past
<1>2. pc'[c] = "written" /\ \A d \in Calls \ {c} : pc'[d] = pc[d]
  BY <1>1 DEF CommentType
<1>3. PlaceInv'
  BY <1>1, <1>2 DEF PlaceInv, InTransaction, tree
<1>4. TreeInv'
  BY <1>1 DEF TreeInv, tree
<1>5. Untouched(c)
  BY DEF Write, Conflicting, Untouched
<1>6. ASSUME NEW d \in Calls, InTransaction(d)' PROVE Sound(d)'
  <2>1. InTransaction(d)
    BY <1>1, <1>2, <1>6 DEF InTransaction
  <2>2. Sound(d)
    BY <2>1 DEF EditInv
  <2>3. CASE d # c
    BY <1>1, <1>2, <2>2, <2>3, SoundKept
  <2>4. CASE d = c
    BY <1>1, <1>2, <1>5, <2>2, <2>4
       DEF Sound, Races, Untouched, Touched, Fresh, Late, RightsFrom, LeftsFrom, InRange, Width, tree
  <2> QED BY <2>3, <2>4
<1>7. ASSUME NEW b \in Calls, NEW d \in Calls, b # d, pc'[b] = "written", pc'[d] = "written"
      PROVE  Touched(b)' \cap Touched(d)' = {}
  <2>1. Touched(b)' = Touched(b) /\ Touched(d)' = Touched(d)
    BY <1>1 DEF Touched
  <2>2. CASE b # c /\ d # c
    BY <1>2, <1>7, <2>1, <2>2 DEF EditInv
  <2>3. \A a \in Calls \ {c} : pc[a] = "written" => Touched(a) \cap Touched(c) = {}
    BY DEF Write, Conflicting
  <2>4. CASE b = c
    BY <1>2, <1>7, <2>1, <2>3, <2>4
  <2>5. CASE d = c
    BY <1>2, <1>7, <2>1, <2>3, <2>5
  <2> QED BY <2>2, <2>4, <2>5
<1> QED BY <1>3, <1>4, <1>6, <1>7 DEF EditInv

\* What a commit does to other calls.
LEMMA CommitOthers ==
    ASSUME CommentInv, CommentType', NEW b \in Calls, Commit(b)
    PROVE  /\ pc[b] = "written" /\ InTransaction(b) /\ Sound(b) /\ b \notin present
           /\ kind[b] \in {"root", "reply", "delete"}
           /\ pc'[b] = "done" /\ UNCHANGED <<kind, target>>
           /\ ~raced' => ~Races(b)
           /\ \A c \in Calls \ {b} : pc'[c] = pc[c] /\ edit'[c] = edit[c] /\ Touched(c)' = Touched(c)
           /\ \A c \in Calls : InTransaction(c)' =>
                 /\ c # b /\ InTransaction(c) /\ Sound(c)
                 /\ kind[c] \in {"root", "reply", "delete"}
                 /\ missed'[c] = missed[c] \cup Touched(b)
                 /\ kind[b] = "delete" => (Races(c)' <=> Races(c))
                 /\ Races(c) => Races(c)'
                 /\ kind[b] # "delete" /\ kind[c] # "delete" /\ "root" \in {kind[b], kind[c]} => Races(c)'
                 /\ pc'[c] = "written" => Touched(b) \cap Touched(c) = {}
           /\ \A c, d \in Calls : c # d /\ pc'[c] = "written" /\ pc'[d] = "written" =>
                 Touched(c)' \cap Touched(d)' = {}
<1> USE DEF CommentInv
<1>1. /\ pc[b] = "written"
      /\ pc' = [pc EXCEPT ![b] = "done"] /\ edit' = [edit EXCEPT ![b] = NoEdit]
      /\ missed' = [c \in Calls |-> IF c = b \/ ~InTransaction(c) THEN {} ELSE missed[c] \cup Touched(b)]
      /\ added' = [c \in Calls |-> IF c = b \/ ~InTransaction(c) THEN {}
                                   ELSE added[c] \cup (IF kind[b] = "delete" THEN {} ELSE {b})]
      /\ UNCHANGED <<kind, target>>
      /\ raced' = (raced \/ Races(b))
  BY DEF Commit, Close
<1>2. pc'[b] = "done" /\ \A c \in Calls \ {b} : pc'[c] = pc[c] /\ edit'[c] = edit[c]
  BY <1>1 DEF CommentType
<1>3. InTransaction(b) /\ Sound(b) /\ b \notin present /\ kind[b] \in {"root", "reply", "delete"}
  BY <1>1 DEF InTransaction, PlaceInv, EditInv
<1>4. \A c \in Calls \ {b} : Touched(c)' = Touched(c)
  BY <1>2 DEF Touched
<1>5. ASSUME NEW c \in Calls, InTransaction(c)'
      PROVE  /\ c # b /\ InTransaction(c) /\ Sound(c)
             /\ kind[c] \in {"root", "reply", "delete"}
             /\ missed'[c] = missed[c] \cup Touched(b)
             /\ added'[c] = added[c] \cup (IF kind[b] = "delete" THEN {} ELSE {b})
             /\ pc'[c] = "written" => Touched(b) \cap Touched(c) = {}
  <2>1. c # b /\ InTransaction(c)
    BY <1>2, <1>5 DEF InTransaction
  <2>2. /\ missed'[c] = missed[c] \cup Touched(b)
        /\ added'[c] = added[c] \cup (IF kind[b] = "delete" THEN {} ELSE {b})
    BY <1>1, <2>1
  <2>3. Sound(c) /\ kind[c] \in {"root", "reply", "delete"}
    BY <2>1 DEF EditInv, PlaceInv
  <2>4. pc'[c] = "written" => Touched(b) \cap Touched(c) = {}
    BY <1>1, <1>2, <2>1 DEF EditInv
  <2> QED BY <2>1, <2>2, <2>3, <2>4
<1>6. ASSUME NEW c \in Calls, NEW d \in Calls, c # d, pc'[c] = "written", pc'[d] = "written"
      PROVE  Touched(c)' \cap Touched(d)' = {}
  <2>1. c # b /\ d # b
    BY <1>2, <1>6
  <2> QED BY <1>2, <1>4, <1>6, <2>1 DEF EditInv
<1>7. ASSUME NEW c \in Calls, InTransaction(c)'
      PROVE  /\ kind[b] = "delete" => (Races(c)' <=> Races(c))
             /\ Races(c) => Races(c)'
             /\ kind[b] # "delete" /\ kind[c] # "delete" /\ "root" \in {kind[b], kind[c]} => Races(c)'
  BY <1>1, <1>5, <1>7 DEF Races
<1> QED BY <1>1, <1>2, <1>3, <1>4, <1>5, <1>6, <1>7

\* What is left of the invariant.
LEMMA CommitKeeps ==
    ASSUME CommentInv, CommentType', NEW b \in Calls, Commit(b), TreeInv',
           present' \subseteq present \cup {b},
           \A c \in Calls : InTransaction(c)' => Sound(c)'
    PROVE  CommentInv'
<1>1. PlaceInv'
  <2>1. \A c \in Calls : c \in present' => pc'[c] = "done"
    BY CommitOthers DEF CommentInv, PlaceInv
  <2>2. \A c \in Calls : InTransaction(c)' => kind'[c] \in {"root", "reply", "delete"}
    BY CommitOthers
  <2>3. \A c \in Calls : kind'[c] = "root" => target'[c] = NoComment
    BY CommitOthers DEF CommentInv, PlaceInv
  <2> QED BY <2>1, <2>2, <2>3 DEF PlaceInv
<1>2. EditInv'
  BY CommitOthers DEF EditInv
<1> QED BY <1>1, <1>2 DEF CommentInv

\* What is committed was computed from the comments as they are, and nobody else
\* has anything left to commit but what does not depend on it.
LEMMA CommitFresh ==
    ASSUME CommentInv, CommentType', ~raced', NEW b \in Calls, Commit(b),
           kind[b] \in {"reply", "delete"}
    PROVE  /\ Fresh(b)
           /\ \A c \in Calls : InTransaction(c)' /\ kind[c] # "root" =>
                /\ pc'[c] = "written" => Untouched(c)'
                /\ Untouched(c)' /\ ~Races(c)' =>
                     /\ Fresh(c)
                     /\ \/ kind[b] = "delete" /\ target[c] \in Late(b)
                        \/ kind[c] = "delete" /\ target[b] \in Late(c)
<1>1. Fresh(b)
  BY CommitOthers DEF Sound
<1>2. ASSUME NEW c \in Calls, InTransaction(c)', kind[c] # "root"
      PROVE  pc'[c] = "written" => Untouched(c)'
  BY <1>2, CommitOthers DEF Sound, Untouched
<1>3. ASSUME NEW c \in Calls, InTransaction(c)', kind[c] # "root", Untouched(c)', ~Races(c)'
      PROVE  /\ Fresh(c)
             /\ \/ kind[b] = "delete" /\ target[c] \in Late(b)
                \/ kind[c] = "delete" /\ target[b] \in Late(c)
  <2>1. /\ kind[c] \in {"reply", "delete"} /\ Sound(c) /\ ~Races(c)
        /\ missed'[c] = missed[c] \cup Touched(b) /\ Touched(c)' = Touched(c)
    BY <1>3, CommitOthers
  <2>2. Touched(b) \cap Touched(c) = {} /\ Untouched(c)
    BY <1>3, <2>1 DEF Untouched
  <2>3. Fresh(c)
    BY <2>1, <2>2 DEF Sound
  <2> QED BY <1>1, <2>1, <2>2, <2>3, Common
<1> QED BY <1>1, <1>2, <1>3

\* The rest of what must hold of an open transaction after a commit.
LEMMA SoundAfter ==
    ASSUME CommentInv, CommentType', NEW b \in Calls, Commit(b),
           NEW c \in Calls, InTransaction(c)', kind[c] # "root",
           pc'[c] = "written" => Untouched(c)',
           Untouched(c)' /\ ~Races(c)' => Fresh(c)'
    PROVE  Sound(c)'
<1>1. c # b /\ Sound(c) /\ kind'[c] = kind[c] /\ edit'[c] = edit[c]
  BY CommitOthers
<1> QED BY <1>1 DEF Sound

LEMMA CommitRoot ==
    ASSUME CommentInv, CommentType', ~raced', NEW b \in Calls, Commit(b), kind[b] = "root"
    PROVE  CommentInv'
<1> USE DEF CommentInv
<1> DEFINE n == edit[b].at
<1>1. /\ Touched(b) = {} /\ edit[b].erase = {} /\ edit[b].left = {} /\ edit[b].right = {}
      /\ n \in Int /\ \A d \in present : right[d] < n
      /\ b \in Comments \ present /\ target[b] = NoComment
  BY CommitOthers DEF Sound, Touched, CommentType, EditType, PlaceInv, Comments
<1>2. present' = present \cup {b}
  BY <1>1 DEF Commit
<1>3. /\ parent'[b] = NoComment /\ left'[b] = n /\ right'[b] = n + 1
      /\ \A d \in present : parent'[d] = parent[d] /\ left'[d] = left[d] /\ right'[d] = right[d]
  BY <1>1 DEF Commit, CommentType
<1>4. /\ present \in SUBSET Comments /\ left \in [Comments -> Int] /\ right \in [Comments -> Int]
      /\ left' \in [Comments -> Int] /\ right' \in [Comments -> Int]
  BY DEF CommentType
<1> HIDE DEF n
<1>5. TreeInv'
  <2>1. NestedSet(present \cup {b}, parent', left', right')
    BY <1>1, <1>3, <1>4, NestedRoot DEF TreeInv
  <2> QED BY <2>1, <1>2 DEF TreeInv
<1>6. ASSUME NEW c \in Calls, InTransaction(c)' PROVE Sound(c)'
  <2>1. /\ c # b /\ kind[c] \in {"root", "reply", "delete"} /\ missed'[c] = missed[c] /\ Sound(c)
        /\ UNCHANGED <<pc[c], edit[c], kind, target>> /\ Touched(c)' = Touched(c)
        /\ kind[c] # "delete" => Races(c)'
    BY <1>1, <1>6, CommitOthers
  <2>2. CASE kind[c] = "root"
    BY <2>1, <2>2 DEF Sound
  <2>3. CASE kind[c] = "reply"
    BY <2>1, <2>3 DEF Sound, Untouched
  <2>4. CASE kind[c] = "delete"
    <3>1. ASSUME Fresh(c) PROVE Fresh(c)'
      <4> DEFINE G == present \ Late(c)
      <4>1. \A k \in present' \ G : k = b \/ k \in Late(c)
        BY <1>2
      <4>2. edit[c].right \subseteq present
        BY <2>4, <3>1 DEF Fresh, RightsFrom
      <4>3. ASSUME NEW k \in Late(c)
            PROVE  k \notin edit[c].right /\ left'[k] < right'[k] /\ \A d \in G : right[d] < left'[k]
        <5>1. k \in present /\ k \notin edit[c].right /\ left[k] < right[k]
          BY Positions DEF Late
        <5>2. \A d \in G : right[d] < left[k]
          BY <2>4, <3>1 DEF Fresh
        <5> QED BY <1>3, <5>1, <5>2
      <4>4. b \notin edit[c].right /\ left'[b] < right'[b] /\ \A d \in G : right[d] < left'[b]
        BY <1>1, <1>3, <4>2
      <4>5. G \subseteq present' /\ \A d \in G : left'[d] = left[d] /\ right'[d] = right[d]
        BY <1>2, <1>3
      <4> HIDE DEF G
      <4>6. G = present \ Late(c)
        BY DEF G
      <4> QED BY <2>1, <2>4, <3>1, <4>1, <4>3, <4>4, <4>5, <4>6, LateChange
    <3>2. Untouched(c)' <=> Untouched(c)
      BY <2>1 DEF Untouched
    <3>3. ~Races(c)
      BY <2>4 DEF Races
    <3> QED BY <1>6, <2>1, <2>4, <3>1, <3>2, <3>3, SoundAfter DEF Sound
  <2> QED BY <2>1, <2>2, <2>3, <2>4
<1> QED BY <1>2, <1>5, <1>6, CommitKeeps

LEMMA CommitReply ==
    ASSUME CommentInv, CommentType', ~raced', NEW b \in Calls, Commit(b), kind[b] = "reply"
    PROVE  CommentInv'
<1> USE DEF CommentInv
<1> DEFINE t == target[b]
<1>1. /\ t \in present /\ b \in Comments \ present
      /\ edit[b] = [erase |-> {}, right |-> RightsFrom(right[t]), left |-> LeftsFrom(right[t]),
                    delta |-> 2, at |-> right[t]]
  BY CommitOthers, CommitFresh DEF Fresh, Comments
<1>2. /\ present \in SUBSET Comments /\ left \in [Comments -> Int] /\ right \in [Comments -> Int]
      /\ left' \in [Comments -> Int] /\ right' \in [Comments -> Int] /\ parent \in [Comments -> Comments \cup {NoComment}]
  BY DEF CommentType
<1>3. present' = present \cup {b}
  BY <1>1 DEF Commit
<1>4. /\ parent'[b] = t /\ left'[b] = right[t] /\ right'[b] = right[t] + 1
      /\ \A d \in present : /\ parent'[d] = parent[d]
                            /\ left'[d] = IF left[d] >= right[t] THEN left[d] + 2 ELSE left[d]
                            /\ right'[d] = IF right[d] >= right[t] THEN right[d] + 2 ELSE right[d]
  <2>1. /\ \A d \in present : d \in edit[b].left <=> left[d] >= right[t]
        /\ \A d \in present : d \in edit[b].right <=> right[d] >= right[t]
        /\ edit[b].delta = 2 /\ edit[b].at = right[t]
    BY <1>1 DEF LeftsFrom, RightsFrom
  <2>2. parent' = [parent EXCEPT ![b] = t]
    BY DEF Commit
  <2>3. /\ left' = [d \in Comments |-> IF d \in {b} THEN edit[b].at
                      ELSE IF d \in edit[b].left THEN left[d] + edit[b].delta ELSE left[d]]
        /\ right' = [d \in Comments |-> IF d \in {b} THEN edit[b].at + 1
                      ELSE IF d \in edit[b].right THEN right[d] + edit[b].delta ELSE right[d]]
    BY DEF Commit
  <2> HIDE DEF t
  <2> QED BY <2>1, <2>2, <2>3, <1>1, <1>2
<1> HIDE DEF t
<1>5. TreeInv'
  <2>1. NestedSet(present \cup {b}, parent', left', right')
    BY <1>1, <1>2, <1>4, NestedReply DEF TreeInv
  <2> QED BY <2>1, <1>3 DEF TreeInv
<1>6. ASSUME NEW c \in Calls, InTransaction(c)', kind[c] # "root" PROVE Sound(c)'
  <2>1. ASSUME Untouched(c)', ~Races(c)' PROVE Fresh(c)'
    <3>1. kind[c] = "delete" /\ Fresh(c) /\ t \in Late(c)
      BY <1>6, <2>1, CommitFresh DEF t
    <3>2. UNCHANGED <<edit[c], kind, target>>
      BY <1>6, CommitOthers
    <3> DEFINE G == present \ Late(c)
    <3>3. /\ \A d \in present : left[d] \in Int /\ right[d] \in Int /\ left[d] < right[d]
          /\ \A d \in G : right[d] < left[t]
      BY <3>1, Positions DEF Fresh
    <3>4. \A d \in G : left'[d] = left[d] /\ right'[d] = right[d]
      BY <1>1, <1>4, <3>3
    <3>5. ASSUME NEW k \in Late(c)
          PROVE  k \notin edit[c].right /\ left'[k] < right'[k] /\ \A d \in G : right[d] < left'[k]
      <4>1. k \in present /\ k \notin edit[c].right
        BY DEF Late
      <4>2. \A d \in G : right[d] < left[k]
        BY <3>1 DEF Fresh
      <4>3. left'[k] >= left[k] /\ left'[k] < right'[k] /\ left'[k] \in Int
        BY <1>1, <1>4, <3>3, <4>1
      <4> QED BY <3>3, <4>1, <4>2, <4>3
    <3>6. b \notin edit[c].right /\ left'[b] < right'[b] /\ \A d \in G : right[d] < left'[b]
      <4>1. edit[c].right \subseteq present
        BY <3>1 DEF Fresh, RightsFrom
      <4> QED BY <1>1, <1>4, <3>3, <4>1
    <3>7. G \subseteq present' /\ \A k \in present' \ G : k = b \/ k \in Late(c)
      BY <1>3
    <3> HIDE DEF G
    <3>8. G = present \ Late(c)
      BY DEF G
    <3> QED BY <3>1, <3>2, <3>4, <3>5, <3>6, <3>7, <3>8, LateChange
  <2> QED BY <1>6, <2>1, CommitFresh, SoundAfter
<1>7. ASSUME NEW c \in Calls, InTransaction(c)', kind[c] = "root" PROVE Sound(c)'
  <2>1. Races(c)' /\ Sound(c) /\ kind'[c] = "root" /\ Touched(c)' = Touched(c)
    BY <1>7, CommitOthers
  <2> QED BY <1>7, <2>1 DEF Sound
<1> QED BY <1>3, <1>5, <1>6, <1>7, CommitKeeps

\* What a deletion does to the comments.
LEMMA DeletesTree ==
    ASSUME CommentInv, ~raced', CommentType', NEW b \in Calls, Commit(b), kind[b] = "delete"
    PROVE  LET t == target[b] IN
           /\ t \in present /\ edit[b].erase = Held(present, left, right, t)
           /\ present' = present \ Held(present, left, right, t)
           /\ \A k \in Late(b), d \in present \ Late(b) : right[d] < left[k]
           /\ \A d \in present :
                /\ parent'[d] = parent[d]
                /\ left'[d] = IF left[d] > right[t] /\ d \notin Late(b) THEN left[d] - Width(t) ELSE left[d]
                /\ right'[d] = IF right[d] > right[t] /\ d \notin Late(b) THEN right[d] - Width(t) ELSE right[d]
<1> USE DEF CommentInv
<1> DEFINE t == target[b]
<1>1. /\ t \in present /\ b \notin present
      /\ edit[b].erase = InRange(left[t], right[t])
      /\ edit[b].right = RightsFrom(right[t] + 1) \ Late(b)
      /\ edit[b].left = LeftsFrom(right[t] + 1) \ Late(b)
      /\ edit[b].delta = -Width(t)
      /\ \A k \in Late(b), d \in present \ Late(b) : right[d] < left[k]
  BY CommitOthers, CommitFresh DEF Fresh
<1>2. /\ left \in [Comments -> Int] /\ right \in [Comments -> Int]
      /\ present \in SUBSET Comments /\ parent \in [Comments -> Comments \cup {NoComment}]
  BY DEF CommentType
<1>3. edit[b].erase = Held(present, left, right, t)
  BY <1>1, RangeIsSubtree, Zenon
<1>4. present' = present \ edit[b].erase
  BY DEF Commit
<1>5. Width(t) \in Int /\ right[t] \in Int
  BY <1>1, Positions
<1>6. ASSUME NEW d \in present
      PROVE  /\ parent'[d] = parent[d]
             /\ left'[d] = IF left[d] > right[t] /\ d \notin Late(b) THEN left[d] - Width(t) ELSE left[d]
             /\ right'[d] = IF right[d] > right[t] /\ d \notin Late(b) THEN right[d] - Width(t) ELSE right[d]
  <2>1. /\ d \in edit[b].left <=> left[d] > right[t] /\ d \notin Late(b)
        /\ d \in edit[b].right <=> right[d] > right[t] /\ d \notin Late(b)
        /\ left[d] \in Int /\ right[d] \in Int
    BY <1>1, <1>2, <1>5 DEF LeftsFrom, RightsFrom
  <2>2. parent' = [parent EXCEPT ![b] = t]
    BY DEF Commit
  <2>3. /\ left' = [x \in Comments |-> IF x \in {} THEN edit[b].at
                      ELSE IF x \in edit[b].left THEN left[x] + edit[b].delta ELSE left[x]]
        /\ right' = [x \in Comments |-> IF x \in {} THEN edit[b].at + 1
                      ELSE IF x \in edit[b].right THEN right[x] + edit[b].delta ELSE right[x]]
    BY DEF Commit
  <2>4. d \in Comments /\ d # b
    BY <1>1, <1>2
  <2>5. /\ left'[d] = IF d \in edit[b].left THEN left[d] + edit[b].delta ELSE left[d]
        /\ right'[d] = IF d \in edit[b].right THEN right[d] + edit[b].delta ELSE right[d]
    BY <2>3, <2>4
  <2>6. parent'[d] = parent[d]
    BY <1>2, <2>2, <2>4
  <2> HIDE DEF t
  <2> QED BY <2>1, <2>5, <2>6, <1>1, <1>5
<1> QED BY <1>1, <1>3, <1>4, <1>6, Zenon

\* It leaves a nested set.
LEMMA DeletesNested ==
    ASSUME CommentInv, ~raced', CommentType', NEW b \in Calls, Commit(b), kind[b] = "delete"
    PROVE  TreeInv'
<1> USE DEF CommentInv
<1> DEFINE t == target[b]
           K == Late(b)
           H == Held(present, left, right, t)
<1>1. /\ t \in present /\ present' = present \ H
      /\ \A k \in K, d \in present \ K : right[d] < left[k]
      /\ \A d \in present :
           /\ parent'[d] = parent[d]
           /\ left'[d] = IF left[d] > right[t] /\ d \notin K THEN left[d] - Width(t) ELSE left[d]
           /\ right'[d] = IF right[d] > right[t] /\ d \notin K THEN right[d] - Width(t) ELSE right[d]
  BY DeletesTree
<1>2. /\ left \in [Comments -> Int] /\ right \in [Comments -> Int]
      /\ left' \in [Comments -> Int] /\ right' \in [Comments -> Int]
      /\ present \in SUBSET Comments
      /\ right[t] \in Int /\ Width(t) = right[t] - left[t] + 1
  BY <1>1, Positions DEF CommentType, Width
<1>3. K \subseteq present \ {t}
  BY <1>2 DEF Late
<1> HIDE DEF t, K
<1>4. ClosesGap(present, left, right, t, K, left', right')
  BY <1>1, <1>2, <1>3 DEF ClosesGap
<1>5. NestedSet(present, parent, left, right)
  BY DEF TreeInv
<1>6. NestedSet(present \ H, parent, left', right')
  BY <1>1, <1>2, <1>4, <1>5, NestedDelete
<1>7. \A d \in present' : parent'[d] = parent[d]
  BY <1>1
<1>8. NestedSet(present', parent, left', right')
  BY <1>1, <1>6
<1> QED BY <1>7, <1>8 DEF TreeInv, NestedSet

\* A deletion does nothing to what came after it began, and behind all it has seen.
LEMMA DeletesBefore ==
    ASSUME CommentInv, ~raced', CommentType', NEW b \in Calls, Commit(b), kind[b] = "delete",
           NEW c \in Calls, kind[c] \in {"reply", "delete"}, Fresh(c), UNCHANGED edit[c],
           target[c] \in Late(b)
    PROVE  Fresh(c)'
<1> USE DEF CommentInv
<1> DEFINE t == target[b]
           u == target[c]
           L == Late(b)
<1>1. /\ t \in present /\ present' = present \ Held(present, left, right, t)
      /\ \A k \in L, d \in present \ L : right[d] < left[k]
      /\ \A d \in present :
           /\ left'[d] = IF left[d] > right[t] /\ d \notin L THEN left[d] - Width(t) ELSE left[d]
           /\ right'[d] = IF right[d] > right[t] /\ d \notin L THEN right[d] - Width(t) ELSE right[d]
  BY DeletesTree
<1>2. /\ \A d \in present : left[d] \in Int /\ right[d] \in Int /\ left[d] < right[d]
      /\ Width(t) \in Int /\ Width(t) > 0
  BY <1>1, Positions
<1>3. \A d \in present' : left'[d] < right'[d]
  BY DeletesNested DEF TreeInv, NestedSet
<1>4. L \in SUBSET present /\ \A k \in L : right[k] > right[t]
  BY DEF Late
<1>5. u \in L
  OBVIOUS
<1> HIDE DEF t, u, L
<1>6. L \subseteq present'
  <2>1. \A k \in L : k \notin Held(present, left, right, t)
    BY <1>1, <1>2, <1>4 DEF Held
  <2> QED BY <1>1, <1>4, <2>1
<1>7. \A k \in L : left'[k] = left[k] /\ right'[k] = right[k]
  BY <1>1, <1>4
<1>8. \A d \in present \ L : right[d] < left[u]
  BY <1>1, <1>5
<1>9. \A d \in present' \ L : left'[d] < right'[d] /\ right'[d] < left[u]
  <2> SUFFICES ASSUME NEW d \in present' \ L
               PROVE  right'[d] < left[u]
    BY <1>3
  <2>1. /\ d \in present /\ right[d] \in Int /\ left[u] \in Int /\ right[d] < left[u]
        /\ right'[d] \in {right[d], right[d] - Width(t)}
    BY <1>1, <1>2, <1>4, <1>5, <1>8
  <2> QED BY <1>2, <2>1
<1>10. UNCHANGED <<edit[c], kind, target>>
  BY CommitOthers
<1> QED BY <1>4, <1>5, <1>6, <1>7, <1>8, <1>9, <1>10, LateKept DEF u

\* What came after a deletion began may be deleted under it.
LEMMA DeletesBehind ==
    ASSUME CommentInv, ~raced', CommentType', NEW b \in Calls, Commit(b), kind[b] = "delete",
           NEW c \in Calls, kind[c] = "delete", Fresh(c), UNCHANGED edit[c],
           target[b] \in Late(c)
    PROVE  Fresh(c)'
<1> USE DEF CommentInv
<1> DEFINE t == target[b]
           G == present \ Late(c)
<1>1. /\ t \in present /\ present' = present \ Held(present, left, right, t)
      /\ \A d \in present :
           /\ left'[d] = IF left[d] > right[t] /\ d \notin Late(b) THEN left[d] - Width(t) ELSE left[d]
           /\ right'[d] = IF right[d] > right[t] /\ d \notin Late(b) THEN right[d] - Width(t) ELSE right[d]
  BY DeletesTree
<1>2. /\ \A d \in present : left[d] \in Int /\ right[d] \in Int /\ left[d] < right[d]
      /\ Width(t) = right[t] - left[t] + 1
  BY Positions DEF Width
<1>3. \A d \in present' : left'[d] < right'[d]
  BY DeletesNested DEF TreeInv, NestedSet
<1>4. /\ \A k \in Late(c) : k \in present /\ k \notin edit[c].right
      /\ \A k \in Late(c), d \in G : right[d] < left[k]
      /\ t \in Late(c)
  BY DEF Late, Fresh
<1>5. G \subseteq present /\ \A k \in present' \ G : k \in Late(c)
  BY <1>1
<1>6. UNCHANGED <<edit[c], kind, target>>
  BY CommitOthers
<1>7. G = present \ Late(c)
  OBVIOUS
<1> HIDE DEF t, G
<1>8. \A d \in G : /\ d \in present' /\ left'[d] = left[d] /\ right'[d] = right[d]
  <2> SUFFICES ASSUME NEW d \in G
               PROVE  d \in present' /\ left'[d] = left[d] /\ right'[d] = right[d]
    OBVIOUS
  <2>1. d \in present /\ right[d] < left[t]
    BY <1>4, <1>5
  <2>2. d \notin Held(present, left, right, t)
    BY <1>1, <1>2, <2>1 DEF Held
  <2>3. ~(left[d] > right[t]) /\ ~(right[d] > right[t])
    BY <1>1, <1>2, <2>1
  <2> QED BY <1>1, <2>1, <2>2, <2>3
<1>9. ASSUME NEW k \in present' \ G
      PROVE  /\ k \notin edit[c].right /\ left'[k] < right'[k]
             /\ \A d \in G : right[d] < left'[k]
  <2>1. k \in Late(c) /\ k \in present /\ k \notin edit[c].right
    BY <1>4, <1>5
  <2>2. ASSUME NEW d \in G PROVE right[d] < left'[k]
    <3>1. /\ right[d] < left[t] /\ right[d] < left[k] /\ d \in present
          /\ right[d] \in Int /\ left[t] \in Int /\ left[k] \in Int /\ right[t] \in Int
      BY <1>1, <1>2, <1>4, <1>5, <2>1
    <3>2. \/ left'[k] = left[k]
          \/ left[k] > right[t] /\ left'[k] = left[k] - (right[t] - left[t] + 1)
      BY <1>1, <1>2, <2>1
    <3> QED BY <3>1, <3>2
  <2> QED BY <1>3, <2>1, <2>2
<1> QED BY <1>5, <1>6, <1>7, <1>8, <1>9, LateChange

LEMMA CommitDelete ==
    ASSUME CommentInv, ~raced', CommentType', NEW b \in Calls, Commit(b), kind[b] = "delete"
    PROVE  CommentInv'
<1> USE DEF CommentInv
<1>1. TreeInv'
  BY DeletesNested
<1>2. present' \subseteq present
  BY DeletesTree
<1>3. ASSUME NEW c \in Calls, InTransaction(c)', kind[c] = "root" PROVE Sound(c)'
  <2>1. /\ Sound(c) /\ kind'[c] = "root" /\ UNCHANGED edit[c] /\ Touched(c)' = Touched(c)
        /\ Races(c)' <=> Races(c)
    BY <1>3, CommitOthers
  <2>2. /\ Touched(c) = {} /\ edit[c].at \in Int
        /\ ~Races(c) => \A d \in present : right[d] < edit[c].at
    BY <1>3, <2>1 DEF Sound, CommentType, EditType
  <2>3. ASSUME ~Races(c), NEW d \in present' PROVE right'[d] < edit'[c].at
    <3>1. /\ right[d] \in Int /\ Width(target[b]) \in Int /\ Width(target[b]) > 0
          /\ right'[d] \in {right[d], right[d] - Width(target[b])}
      BY <1>2, Positions, DeletesTree
    <3> QED BY <1>2, <2>1, <2>2, <2>3, <3>1
  <2> QED BY <2>1, <2>2, <2>3 DEF Sound
<1>4. ASSUME NEW c \in Calls, InTransaction(c)', kind[c] # "root" PROVE Sound(c)'
  <2>1. pc'[c] = "written" => Untouched(c)'
    BY <1>4, CommitFresh
  <2>2. ASSUME Untouched(c)', ~Races(c)' PROVE Fresh(c)'
    <3>1. /\ Fresh(c)
          /\ \/ target[c] \in Late(b)
             \/ kind[c] = "delete" /\ target[b] \in Late(c)
      BY <1>4, <2>2, CommitFresh
    <3>2. UNCHANGED edit[c] /\ kind[c] \in {"reply", "delete"}
      BY <1>4, CommitOthers
    <3> QED BY <3>1, <3>2, DeletesBefore, DeletesBehind
  <2> QED BY <1>4, <2>1, <2>2, SoundAfter
<1>5. \A c \in Calls : InTransaction(c)' => Sound(c)'
  BY <1>3, <1>4
<1> QED BY <1>1, <1>2, <1>5, CommitKeeps

-----------------------------------------------------------------------------
(* The invariant *)

LEMMA CommentStart == Init => CommentInv
<1> SUFFICES ASSUME Init PROVE CommentInv
  OBVIOUS
<1>1. CommentType
  <2>1. NoEdit \in EditType
    BY DEF NoEdit, EditType
  <2>2. present \in SUBSET Comments /\ kind \in Workloads
    BY DEF Init, Comments
  <2>3. parent \in [Comments -> Comments \cup {NoComment}]
    BY CommentsAssumption DEF Init, Comments
  <2>4. left \in [Comments -> Int] /\ right \in [Comments -> Int]
    BY CommentsAssumption DEF Init
  <2>5. /\ target \in [Calls -> Comments \cup {NoComment}]
        /\ pc \in [Calls -> {"start", "begin", "write", "written", "range", "answered", "done"}]
        /\ edit \in [Calls -> EditType] /\ missed \in [Calls -> SUBSET Comments]
        /\ added \in [Calls -> SUBSET Calls] /\ raced \in BOOLEAN
    BY <2>1 DEF Init
  <2> QED BY <2>2, <2>3, <2>4, <2>5 DEF CommentType
<1>2. PlaceInv
  BY CommentsAssumption DEF Init, PlaceInv, InTransaction
<1>3. EditInv
  BY DEF Init, EditInv, InTransaction
<1>4. TreeInv
  <2>1. present = Seeds /\ \A d \in Seeds : parent[d] = SeedParent[d] /\ left[d] = SeedLeft[d]
                                            /\ right[d] = SeedRight[d]
    BY DEF Init, Comments
  <2>2. NestedSet(Seeds, SeedParent, SeedLeft, SeedRight)
        /\ SeedParent \in [Seeds -> Seeds \cup {NoComment}]
    BY CommentsAssumption
  <2>3. \A d \in Seeds : Held(Seeds, left, right, d) = Held(Seeds, SeedLeft, SeedRight, d)
    BY <2>1 DEF Held
  <2>4. \A b, d \in Seeds : Inside(left, right, b, d) <=> Inside(SeedLeft, SeedRight, b, d)
    BY <2>1 DEF Inside
  <2>5. NestedSet(Seeds, parent, left, right)
    BY <2>1, <2>2, <2>3, <2>4 DEF NestedSet
  <2> QED BY <2>1, <2>5 DEF TreeInv
<1> QED BY <1>1, <1>2, <1>3, <1>4 DEF CommentInv

LEMMA CommentInductive ==
    ASSUME CommentInv, ~raced', [Next]_vars
    PROVE  CommentInv'
<1> CommentType'
  BY CommentTypeStep DEF CommentInv
<1>1. ASSUME NEW c \in Calls, BeginRoot(c) \/ BeginReply(c) \/ BeginDelete(c) PROVE CommentInv'
  BY <1>1, BeginStep
<1>2. ASSUME NEW c \in Calls, Write(c) PROVE CommentInv'
  BY <1>2, WriteStep
<1>3. ASSUME NEW c \in Calls, Commit(c) PROVE CommentInv'
  <2>1. kind[c] \in {"root", "reply", "delete"}
    BY <1>3, CommitOthers
  <2> QED BY <1>3, <2>1, CommitRoot, CommitReply, CommitDelete
<1>4. ASSUME NEW c \in Calls, NEW next \in {"begin", "done", "range", "answered"}, UNCHANGED <<tree, kind>>,
             pc' = [pc EXCEPT ![c] = next], pc[c] # "done",
             \A d \in Calls \ {c} : InTransaction(d) => UNCHANGED <<edit[d], missed[d], added[d]>>,
             \A d \in Calls : target'[d] # target[d] => d = c /\ kind[d] # "root"
      PROVE  CommentInv'
  <2>1. pc'[c] = next /\ \A d \in Calls \ {c} : pc'[d] = pc[d]
    BY <1>4 DEF CommentInv, CommentType
  <2>2. ASSUME NEW d \in Calls, InTransaction(d)'
        PROVE  InTransaction(d) /\ UNCHANGED <<pc[d], edit[d], missed[d], added[d], target[d]>>
    BY <1>4, <2>1, <2>2 DEF InTransaction
  <2>3. \A d \in Calls : /\ pc[d] = "done" => pc'[d] = "done"
                         /\ kind[d] = "root" => target'[d] = target[d]
    BY <1>4, <2>1
  <2> QED BY <1>4, <2>2, <2>3, EditsKept
<1>5. ASSUME NEW c \in Calls, Request(c) \/ NotFound(c) \/ FindRoot(c) \/ ReadRange(c) PROVE CommentInv'
  <2>1. \A d \in Calls : target'[d] # target[d] => d = c /\ kind[d] # "root"
    BY <1>5 DEF Request, NotFound, FindRoot, ReadRange, CommentInv, CommentType
  <2>2. UNCHANGED <<tree, kind, edit, missed, added>> /\ pc[c] # "done"
    BY <1>5 DEF Request, NotFound, FindRoot, ReadRange, past
  <2>3. \E next \in {"begin", "done", "range", "answered"} : pc' = [pc EXCEPT ![c] = next]
    BY <1>5 DEF Request, NotFound, FindRoot, ReadRange
  <2> QED BY <2>1, <2>2, <2>3, <1>4
<1>6. ASSUME NEW c \in Calls, WriteConflict(c) \/ CallFails(c) PROVE CommentInv'
  <2>1. \E next \in {"begin", "done"} : Close(c, next, {}, {}) /\ UNCHANGED tree /\ pc[c] # "done"
    BY <1>6 DEF WriteConflict, CallFails
  <2>2. PICK next \in {"begin", "done"} : Close(c, next, {}, {})
    BY <2>1
  <2>3. /\ pc' = [pc EXCEPT ![c] = next] /\ UNCHANGED <<kind, target>>
        /\ edit' = [edit EXCEPT ![c] = NoEdit]
        /\ missed' = [b \in Calls |-> IF b = c \/ ~InTransaction(b) THEN {} ELSE missed[b] \cup {}]
        /\ added' = [b \in Calls |-> IF b = c \/ ~InTransaction(b) THEN {} ELSE added[b] \cup {}]
    BY <2>2 DEF Close
  <2>4. \A d \in Calls \ {c} : InTransaction(d) => UNCHANGED <<edit[d], missed[d], added[d]>>
    BY <2>3 DEF CommentInv, CommentType
  <2> QED BY <2>1, <2>3, <2>4, <1>4
<1>7. CASE UNCHANGED vars
  <2>1. \A c \in Calls : InTransaction(c)' =>
            InTransaction(c) /\ UNCHANGED <<pc[c], edit[c], missed[c], added[c], target[c]>>
    BY <1>7 DEF vars, past, InTransaction
  <2> QED BY <1>7, <2>1, EditsKept DEF vars
<1> QED BY <1>1, <1>2, <1>3, <1>5, <1>6, <1>7 DEF Next, CommentStep

\* What holds for ever: the types, and the rest until a root has been committed across
\* another insertion.
CommentSafe == CommentType /\ (~raced => CommentInv)

LEMMA SafeStep ==
    ASSUME CommentSafe, [Next]_vars
    PROVE  CommentSafe'
<1>1. CommentType'
  BY CommentTypeStep DEF CommentSafe
<1>2. raced => raced'
  <2>1. ASSUME NEW c \in Calls, CommentStep(c), ~Commit(c) PROVE raced' = raced
    BY <2>1 DEF CommentStep, Request, BeginRoot, BeginReply, BeginDelete, Begin, FindRoot, ReadRange,
                NotFound, Write, WriteConflict, CallFails, past
  <2>2. ASSUME NEW c \in Calls, Commit(c) PROVE raced => raced'
    BY <2>2 DEF Commit
  <2>3. CASE UNCHANGED vars
    BY <2>3 DEF vars, past
  <2> QED BY <2>1, <2>2, <2>3 DEF Next
<1>3. ASSUME ~raced' PROVE CommentInv'
  BY <1>2, <1>3, CommentInductive DEF CommentSafe
<1> QED BY <1>1, <1>3 DEF CommentSafe

LEMMA AlwaysSafe == Spec => []CommentSafe
<1>1. Init => CommentSafe
  BY CommentStart DEF CommentInv, CommentSafe
<1>2. CommentSafe /\ [Next]_vars => CommentSafe'
  BY SafeStep
<1> QED BY <1>1, <1>2, PTL DEF Spec

\* The width of a comment's range counts its replies, whatever roots, replies and
\* deletions are committed in whatever order, until a root is committed across another
\* insertion.
THEOREM RepliesAreCounted == Spec => []ReplyCountExact
<1>1. CommentSafe => ReplyCountExact
  <2> SUFFICES ASSUME CommentInv, NEW d \in present
               PROVE  ReplyCount(d) = Cardinality(Subtree(d)) - 1
    BY DEF CommentSafe, ReplyCountExact
  <2>1. /\ right[d] - left[d] + 1 = 2 * Cardinality(Held(present, left, right, d))
        /\ left[d] \in Int /\ right[d] \in Int
    BY Positions DEF CommentInv, TreeInv, NestedSet
  <2>2. Held(present, left, right, d) = Subtree(d)
    BY RangeIsSubtree DEF CommentInv
  <2>3. Cardinality(Held(present, left, right, d)) \in Nat
    BY FiniteComments DEF Held, CommentInv, CommentType
  <2>4. right[d] - left[d] + 1 = 2 * Cardinality(Subtree(d)) /\ Cardinality(Subtree(d)) \in Nat
    BY <2>1, <2>2, <2>3, Zenon
  <2> QED BY <2>1, <2>4 DEF ReplyCount
<1> QED BY <1>1, AlwaysSafe, PTL

\* A deletion takes the comment, all its replies and nothing else, those that were
\* committed while it ran included, until a root is committed across another insertion.
THEOREM DeletionsTakeReplies == Spec => DeleteTakesReplies
<1> DEFINE Takes == ~raced /\ present \ present' # {} =>
                        \E d \in present : present \ present' = Subtree(d)
<1>1. ASSUME CommentSafe, [Next]_vars PROVE [Takes]_vars
  <2>1. ASSUME NEW c \in Calls, Commit(c), ~raced, present \ present' # {}
        PROVE  \E d \in present : present \ present' = Subtree(d)
    <3>1. CommentInv /\ CommentType'
      BY <1>1, <2>1, CommentTypeStep DEF CommentSafe
    <3>2. CASE kind[c] = "delete"
      <4>0. ~raced'
        BY <2>1, <3>2 DEF Commit, Races
      <4>1. /\ target[c] \in present
            /\ present' = present \ Held(present, left, right, target[c])
        BY <2>1, <3>1, <3>2, <4>0, DeletesTree
      <4>2. Held(present, left, right, target[c]) = Subtree(target[c])
        BY <3>1, <4>1, RangeIsSubtree DEF CommentInv
      <4>3. Subtree(target[c]) \subseteq present
        BY DEF Subtree
      <4> QED BY <4>1, <4>2, <4>3
    <3>3. CASE kind[c] # "delete"
      <4>1. edit[c].erase = {}
        BY <2>1, <3>1, <3>3, CommitOthers DEF Sound, Touched
      <4> QED BY <2>1, <4>1 DEF Commit
    <3> QED BY <3>2, <3>3
  <2>2. ASSUME NEW c \in Calls, CommentStep(c), ~Commit(c) PROVE present' = present
    BY <2>2 DEF CommentStep, Request, BeginRoot, BeginReply, BeginDelete, Begin, FindRoot, ReadRange,
                NotFound, Write, WriteConflict, CallFails, tree
  <2>3. CASE Next
    BY <2>1, <2>2, <2>3 DEF Next
  <2>4. CASE UNCHANGED vars
    BY <2>4
  <2> QED BY <1>1, <2>3, <2>4
<1> QED BY <1>1, AlwaysSafe, PTL DEF Spec, DeleteTakesReplies

-----------------------------------------------------------------------------
(* Threads *)

\* buildTree of no comments
Nothing == [stack |-> <<>>, root |-> NoComment, edges |-> {}]

\* What the loop has built when it has taken the comments B, if built says what it
\* had before the last one.
Turn(built, B) ==
    IF B = {} THEN Nothing ELSE Attach(LastByLeft(B), built[B \ {LastByLeft(B)}])

\* A set of comments has a last one.
LEMMA LastIs ==
    ASSUME CommentType, NEW B \in SUBSET Comments, B # {}
    PROVE  LastByLeft(B) \in B /\ \A b \in B : left[b] <= left[LastByLeft(B)]
<1> DEFINE R == {left[b] : b \in B}
<1>1. R \in SUBSET Int /\ R # {}
  BY DEF CommentType
<1>2. IsFiniteSet(R)
  <2>1. IsFiniteSet(B)
    BY FiniteComments
  <2> DEFINE f == [b \in B |-> left[b]]
  <2>2. f \in Surjection(B, R)
    BY DEF Surjection
  <2> QED BY <2>1, <2>2, FS_Surjection, Zenon
<1>3. \E r \in R : \A s \in R : s <= r
  BY <1>1, <1>2, MaxIsLast
<1>4. \E d \in B : \A b \in B : left[b] <= left[d]
  BY <1>3
<1> QED BY <1>4 DEF LastByLeft

\* The loop ends.
LEMMA LoopBuilds ==
    ASSUME CommentType, NEW D \in SUBSET Comments
    PROVE  \E built : built = [B \in SUBSET D |-> Turn(built, B)]
<1> DEFINE Upto(n) == \E built : /\ built = [B \in SUBSET D |-> built[B]]
                                 /\ \A B \in SUBSET D : Cardinality(B) <= n => built[B] = Turn(built, B)
           N == {n \in Nat : ~Upto(n)}
<1>1. \A B \in SUBSET D : IsFiniteSet(B) /\ Cardinality(B) \in Nat /\ Cardinality(B) <= Cardinality(D)
  BY FiniteComments, FS_Subset
<1>2. Upto(0)
  <2> DEFINE none == [B \in SUBSET D |-> Nothing]
  <2>1. \A B \in SUBSET D : Cardinality(B) <= 0 => B = {}
    BY <1>1, FS_EmptySet
  <2>2. \A B \in SUBSET D : Cardinality(B) <= 0 => none[B] = Turn(none, B)
    BY <2>1 DEF Turn
  <2>3. none = [B \in SUBSET D |-> none[B]]
    OBVIOUS
  <2> QED BY <2>2, <2>3
<1>3. ASSUME NEW n \in Nat, Upto(n)
      PROVE  Upto(n + 1)
  <2>1. PICK built : /\ built = [B \in SUBSET D |-> built[B]]
                     /\ \A B \in SUBSET D : Cardinality(B) <= n => built[B] = Turn(built, B)
    BY <1>3
  <2> DEFINE next == [B \in SUBSET D |-> Turn(built, B)]
  <2>2. ASSUME NEW B \in SUBSET D, Cardinality(B) <= n + 1
        PROVE  next[B] = Turn(next, B)
    <3>1. CASE B = {}
      BY <3>1 DEF Turn
    <3>2. CASE B # {}
      <4> DEFINE last == LastByLeft(B)
                 A == B \ {last}
      <4>1. last \in B
        BY <3>2, LastIs
      <4>2. A \in SUBSET D /\ Cardinality(A) <= n
        <5>1. Cardinality(A) = Cardinality(B) - 1
          BY <4>1, <1>1, FS_RemoveElement
        <5> QED BY <5>1, <2>2, <1>1
      <4>3. next[A] = Turn(built, A) /\ built[A] = Turn(built, A)
        BY <4>2, <2>1
      <4>4. next[B] = Turn(built, B)
        OBVIOUS
      <4> HIDE DEF next
      <4> QED BY <3>2, <4>3, <4>4 DEF Turn
    <3> QED BY <3>1, <3>2
  <2>3. next = [B \in SUBSET D |-> next[B]]
    OBVIOUS
  <2> HIDE DEF next
  <2> QED BY <2>2, <2>3
<1> HIDE DEF Upto
<1>4. N = {}
  <2> SUFFICES ASSUME N # {} PROVE FALSE
    OBVIOUS
  <2>1. PICK n \in N : \A k \in N : ~(<<k, n>> \in OpToRel(<, Nat))
    BY WFMin, NatLessThanWellFounded, Zenon
  <2>2. n # 0 /\ n \in Nat
    BY <1>2, <2>1
  <2>3. n - 1 \in Nat /\ (n - 1) + 1 = n
    BY <2>2
  <2>4. n - 1 \in N
    BY <2>1, <2>3, <1>3
  <2>5. <<n - 1, n>> \in OpToRel(<, Nat)
    BY <2>2, <2>3 DEF OpToRel
  <2> QED BY <2>1, <2>4, <2>5
<1>5. Upto(Cardinality(D))
  BY <1>1, <1>4
<1>6. PICK built : /\ built = [B \in SUBSET D |-> built[B]]
                   /\ \A B \in SUBSET D : Cardinality(B) <= Cardinality(D) => built[B] = Turn(built, B)
  BY <1>5 DEF Upto
<1>7. \A B \in SUBSET D : built[B] = Turn(built, B)
  BY <1>1, <1>6
<1>8. built = [B \in SUBSET D |-> Turn(built, B)]
  BY <1>6, <1>7
<1> QED BY <1>8

\* What buildTree returns has been built turn by turn.
LEMMA BuiltInTurns ==
    ASSUME CommentType, NEW D \in SUBSET Comments
    PROVE  \E built : /\ built = [B \in SUBSET D |-> Turn(built, B)]
                      /\ BuildTree(D) = [root |-> built[D].root, edges |-> built[D].edges]
<1> DEFINE chosen == CHOOSE built : built = [B \in SUBSET D |-> Turn(built, B)]
<1>1. chosen = [B \in SUBSET D |-> Turn(chosen, B)]
  BY LoopBuilds
<1>2. BuildTree(D) = [root |-> chosen[D].root, edges |-> chosen[D].edges]
  BY DEF BuildTree, Turn, Nothing
<1> QED BY <1>1, <1>2

-----------------------------------------------------------------------------
(* The loop of buildTree *)

\* What is popped lies above the last comment that has not ended.
LEMMA Popped ==
    ASSUME CommentType, NEW B \in SUBSET Comments, NEW stack \in Seq(B), NEW d \in Comments
    PROVE  \E k \in 0..Len(stack) :
             /\ Pop(stack, d) \in Seq(B)
             /\ Len(Pop(stack, d)) = k
             /\ \A i \in 1..k : Pop(stack, d)[i] = stack[i]
             /\ k # 0 => right[stack[k]] >= left[d]
             /\ \A i \in 1..Len(stack) : right[stack[i]] >= left[d] => i <= k
<1> DEFINE keep == {i \in 1..Len(stack) : right[stack[i]] >= left[d]}
           k == CHOOSE i \in keep \cup {0} : \A j \in keep : j <= i
<1>1. Len(stack) \in Nat /\ \A i \in 1..Len(stack) : stack[i] \in B
  BY LenProperties, ElementOfSeq
<1>2. IsFiniteSet(keep \cup {0})
  <2>1. IsFiniteSet(0..Len(stack))
    BY <1>1, FS_Interval
  <2>2. keep \cup {0} \subseteq 0..Len(stack)
    BY <1>1
  <2> QED BY <2>1, <2>2, FS_Subset
<1>3. keep \cup {0} \in SUBSET Int /\ keep \cup {0} # {}
  BY <1>1
<1>4. \E i \in keep \cup {0} : \A j \in keep \cup {0} : j <= i
  BY <1>2, <1>3, MaxIsLast
<1>5. k \in keep \cup {0} /\ \A j \in keep : j <= k
  BY <1>4
<1>6. Pop(stack, d) = SubSeq(stack, 1, k)
  BY DEF Pop
<1> HIDE DEF k
<1>7. k \in 0..Len(stack)
  BY <1>1, <1>5
<1>8. \A i \in 1..k : stack[i] \in B
  BY <1>1, <1>7
<1>9. /\ SubSeq(stack, 1, k) \in Seq(B)
      /\ Len(SubSeq(stack, 1, k)) = IF 1 <= k THEN k - 1 + 1 ELSE 0
      /\ \A i \in 1..(k - 1 + 1) : SubSeq(stack, 1, k)[i] = stack[1 + i - 1]
  BY <1>7, <1>8, SubSeqProperties
<1>10. /\ Len(SubSeq(stack, 1, k)) = k
       /\ \A i \in 1..k : SubSeq(stack, 1, k)[i] = stack[i]
  BY <1>7, <1>9
<1> QED BY <1>5, <1>6, <1>7, <1>9, <1>10

\* A part of D that is taken before the rest of it.
Before(D, B) == B \in SUBSET D /\ \A x \in D, y \in B : left[x] <= left[y] => x \in B

\* The stack holds nested comments, among them all that have not ended where the next
\* one begins.
Stacked(D, B, stack) ==
    /\ stack \in Seq(B)
    /\ \A i, j \in 1..Len(stack) : i < j => Inside(left, right, stack[j], stack[i])
    /\ \A x \in B, d \in D \ B : right[x] >= left[d] => \E i \in 1..Len(stack) : stack[i] = x

\* A comment is drawn below the one it answers.
Drawn(B, edges) == \A e \in edges : e[2] \in B /\ parent[e[2]] = e[1]

\* The whole thread of t has been drawn as far as it was taken.
Whole(t, B, acc) ==
    /\ acc.root = IF B = {} THEN NoComment ELSE t
    /\ acc.edges = {<<parent[b], b>> : b \in B \ {t}}

\* One turn of the loop takes the next comment.
LEMMA OneTurn ==
    ASSUME CommentType, TreeInv, NEW l \in Int, NEW r \in Int,
           NEW D, D = InRange(l, r), NEW B, Before(D, B), NEW d \in D \ B, Before(D, B \cup {d}),
           NEW acc, Stacked(D, B, acc.stack), Drawn(B, acc.edges)
    PROVE  /\ Stacked(D, B \cup {d}, Attach(d, acc).stack)
           /\ Drawn(B \cup {d}, Attach(d, acc).edges)
           /\ \A t \in D : (\A x \in D \ {t} : Inside(left, right, x, t)) /\ Whole(t, B, acc)
                            => Whole(t, B \cup {d}, Attach(d, acc))
<1> DEFINE old == acc.stack
           stack == Pop(old, d)
           new == Append(stack, d)
<1>1. /\ D \subseteq present /\ B \subseteq D /\ present \subseteq Comments /\ d \in present
      /\ \A x \in present : left[x] \in Int /\ right[x] \in Int /\ left[x] < right[x]
  <2>1. D \subseteq present /\ present \subseteq Comments
    BY DEF InRange, CommentType
  <2> QED BY <2>1, Positions DEF Before
<1>2. \A x \in B : left[x] < left[d]
  <2> SUFFICES ASSUME NEW x \in B, ~(left[x] < left[d]) PROVE FALSE
    OBVIOUS
  <2>1. left[d] <= left[x]
    BY <1>1
  <2> QED BY <2>1 DEF Before
<1>3. \A y \in D \ (B \cup {d}) : left[d] < left[y]
  <2> SUFFICES ASSUME NEW y \in D \ (B \cup {d}), ~(left[d] < left[y]) PROVE FALSE
    OBVIOUS
  <2>1. left[y] <= left[d]
    BY <1>1
  <2> QED BY <2>1 DEF Before
<1>4. \A x \in B : right[x] >= left[d] => Inside(left, right, d, x)
  <2> SUFFICES ASSUME NEW x \in B, right[x] >= left[d]
               PROVE  Inside(left, right, d, x)
    OBVIOUS
  <2>1. x \in present /\ x # d /\ left[x] < left[d]
    BY <1>1, <1>2
  <2>2. \/ right[x] < left[d] \/ right[d] < left[x]
        \/ Inside(left, right, x, d) \/ Inside(left, right, d, x)
    BY <1>1, <2>1 DEF TreeInv, NestedSet
  <2> QED BY <1>1, <2>1, <2>2 DEF Inside
<1>5. old \in Seq(B) /\ B \in SUBSET Comments /\ d \in Comments
  BY <1>1 DEF Stacked
<1>6. PICK k \in 0..Len(old) :
             /\ stack \in Seq(B)
             /\ Len(stack) = k
             /\ \A i \in 1..k : stack[i] = old[i]
             /\ k # 0 => right[old[k]] >= left[d]
             /\ \A i \in 1..Len(old) : right[old[i]] >= left[d] => i <= k
  BY <1>5, Popped
<1>7. Len(old) \in Nat /\ \A i \in 1..Len(old) : old[i] \in B
  BY <1>5, LenProperties, ElementOfSeq
<1>8. \A i \in 1..k : Inside(left, right, d, stack[i])
  <2> SUFFICES ASSUME NEW i \in 1..k PROVE Inside(left, right, d, stack[i])
    OBVIOUS
  <2>1. /\ i \in 1..Len(old) /\ k \in 1..Len(old) /\ k # 0
        /\ old[i] \in present /\ old[k] \in present
    BY <1>1, <1>6, <1>7
  <2>2. i < k => Inside(left, right, old[k], old[i])
    BY <2>1 DEF Stacked
  <2>3. right[old[i]] >= left[d]
    BY <1>1, <1>6, <2>1, <2>2 DEF Inside
  <2> QED BY <1>4, <1>6, <1>7, <2>1, <2>3
<1>9. /\ new \in Seq(B \cup {d}) /\ Len(new) = k + 1
      /\ \A i \in 1..k : new[i] = old[i]
      /\ new[k + 1] = d
  <2>1. stack \in Seq(B \cup {d})
    BY <1>6, SeqMonotonic
  <2> HIDE DEF stack
  <2> QED BY <1>6, <2>1, AppendProperties
<1>10. Stacked(D, B \cup {d}, new)
  <2>1. ASSUME NEW i \in 1..(k + 1), NEW j \in 1..(k + 1), i < j
        PROVE  Inside(left, right, new[j], new[i])
    <3>1. i \in 1..k /\ i \in 1..Len(old)
      BY <2>1, <1>6, <1>7
    <3>2. CASE j = k + 1
      BY <1>6, <1>8, <1>9, <3>1, <3>2
    <3>3. CASE j # k + 1
      <4>1. j \in 1..k /\ j \in 1..Len(old)
        BY <3>3, <1>6, <1>7
      <4> QED BY <1>9, <2>1, <3>1, <4>1 DEF Stacked
    <3> QED BY <3>2, <3>3
  <2>2. ASSUME NEW x \in B \cup {d}, NEW y \in D \ (B \cup {d}), right[x] >= left[y]
        PROVE  \E i \in 1..(k + 1) : new[i] = x
    <3>1. CASE x = d
      BY <3>1, <1>6, <1>9
    <3>2. CASE x \in B
      <4>1. right[x] >= left[d]
        BY <1>1, <1>3, <2>2, <3>2
      <4>2. PICK i \in 1..Len(old) : old[i] = x
        BY <3>2, <4>1 DEF Stacked
      <4>3. i \in 1..k
        BY <1>6, <4>1, <4>2
      <4> QED BY <1>9, <4>2, <4>3, <1>6
    <3> QED BY <3>1, <3>2
  <2> HIDE DEF new
  <2> QED BY <1>9, <2>1, <2>2 DEF Stacked
<1>11. k # 0 => stack[k] = old[k] /\ parent[d] = stack[k]
  <2> SUFFICES ASSUME k # 0 PROVE stack[k] = old[k] /\ parent[d] = old[k]
    OBVIOUS
  <2> DEFINE top == old[k]
             p == parent[d]
  <2>1. k \in 1..k /\ k \in 1..Len(old) /\ top \in B /\ stack[k] = top
    BY <1>6, <1>7
  <2>2. top \in present /\ top # d /\ Inside(left, right, d, top)
    BY <1>1, <1>8, <2>1
  <2>3. p = top \/ (p \in present /\ Inside(left, right, p, top))
    BY <1>1, <2>2 DEF TreeInv, NestedSet
  <2>4. ASSUME p # top PROVE FALSE
    <3>1. p \in present /\ Inside(left, right, p, top) /\ Inside(left, right, d, p)
      BY <1>1, <2>3, <2>4, CommentsAssumption DEF TreeInv, NestedSet, CommentType
    <3>2. p \in D /\ p # d
      BY <1>1, <2>1, <3>1 DEF InRange, Inside
    <3>3. p \in B /\ right[p] >= left[d]
      BY <1>1, <3>1, <3>2 DEF Inside, Before
    <3>4. PICK i \in 1..Len(old) : old[i] = p
      BY <3>3 DEF Stacked
    <3>5. i <= k /\ i # k
      BY <1>6, <2>4, <3>3, <3>4
    <3>6. Inside(left, right, top, p)
      BY <2>1, <3>4, <3>5, <1>7 DEF Stacked
    <3> QED BY <1>1, <2>2, <3>1, <3>6 DEF Inside
  <2> QED BY <2>1, <2>4
<1>12. stack = <<>> <=> k = 0
  BY <1>6, EmptySeq
<1>13. /\ Attach(d, acc).stack = new
       /\ Attach(d, acc).root = IF k = 0 /\ acc.root = NoComment THEN d ELSE acc.root
       /\ Attach(d, acc).edges = IF k = 0 THEN acc.edges ELSE acc.edges \cup {<<stack[k], d>>}
  <2> HIDE DEF stack
  <2> QED BY <1>6, <1>12 DEF Attach, stack
<1>14. Drawn(B \cup {d}, Attach(d, acc).edges)
  <2> HIDE DEF stack, new
  <2> QED BY <1>11, <1>13 DEF Drawn
<1>15. ASSUME NEW t \in D, \A x \in D \ {t} : Inside(left, right, x, t), Whole(t, B, acc)
       PROVE  Whole(t, B \cup {d}, Attach(d, acc))
  <2>1. CASE B = {}
    <3>1. d = t
      BY <1>1, <1>15, <2>1 DEF Before, Inside
    <3>2. k = 0
      BY <1>6, <1>7, <2>1
    <3>3. acc.root = NoComment /\ acc.edges = {}
      BY <1>15, <2>1 DEF Whole
    <3> HIDE DEF stack, new
    <3> QED BY <1>13, <2>1, <3>1, <3>2, <3>3 DEF Whole
  <2>2. CASE B # {}
    <3>1. t \in B /\ d # t
      BY <1>1, <1>15, <2>2 DEF Before, Inside
    <3>2. right[t] >= left[d]
      BY <1>1, <1>15, <3>1 DEF Inside
    <3>3. k # 0
      BY <1>6, <3>1, <3>2 DEF Stacked
    <3> HIDE DEF stack, new
    <3>4. Attach(d, acc).root = t
      BY <1>13, <1>15, <2>2, <3>3 DEF Whole
    <3>5. Attach(d, acc).edges = {<<parent[b], b>> : b \in B \ {t}} \cup {<<parent[d], d>>}
      BY <1>11, <1>13, <1>15, <3>3 DEF Whole
    <3> QED BY <3>1, <3>4, <3>5 DEF Whole
  <2> QED BY <2>1, <2>2
<1> HIDE DEF stack, new
<1> QED BY <1>10, <1>13, <1>14, <1>15

\* At its end the loop has drawn comments below those they answer, and the whole thread
\* of a comment that holds all others.
LEMMA LoopDraws ==
    ASSUME CommentType, TreeInv, NEW l \in Int, NEW r \in Int, NEW D, D = InRange(l, r),
           NEW built, built = [B \in SUBSET D |-> Turn(built, B)]
    PROVE  /\ Drawn(D, built[D].edges)
           /\ \A t \in D : (\A x \in D \ {t} : Inside(left, right, x, t)) => Whole(t, D, built[D])
<1> DEFINE Holds(t) == \A x \in D \ {t} : Inside(left, right, x, t)
           Good(B) == /\ Stacked(D, B, built[B].stack)
                      /\ Drawn(B, built[B].edges)
                      /\ \A t \in D : Holds(t) => Whole(t, B, built[B])
           Bad(B) == Before(D, B) /\ ~Good(B)
           N == {n \in Nat : \E B \in SUBSET D : Cardinality(B) = n /\ Bad(B)}
<1>1. D \in SUBSET Comments /\ \A x \in D : left[x] \in Int
  BY DEF InRange, CommentType
<1>2. \A B \in SUBSET D : IsFiniteSet(B) /\ Cardinality(B) \in Nat
  BY <1>1, FiniteComments
<1>3. Before(D, D)
  BY DEF Before
<1>4. Good({})
  <2>1. built[{}] = Nothing
    BY DEF Turn
  <2>2. Nothing.stack = <<>> /\ Nothing.edges = {} /\ Nothing.root = NoComment
    BY DEF Nothing
  <2>3. Stacked(D, {}, built[{}].stack)
    <3>1. Stacked(D, {}, <<>>)
      BY EmptySeq DEF Stacked
    <3> QED BY <2>1, <2>2, <3>1, Zenon
  <2>4. Drawn({}, built[{}].edges)
    BY <2>1, <2>2 DEF Drawn
  <2>5. ASSUME NEW t \in D PROVE Whole(t, {}, built[{}])
    BY <2>1, <2>2 DEF Whole
  <2> HIDE DEF Holds
  <2> QED BY <2>3, <2>4, <2>5
<1>5. ASSUME NEW B \in SUBSET D, Bad(B)
      PROVE  \E A \in SUBSET D : Bad(A) /\ Cardinality(A) = Cardinality(B) - 1
  <2> DEFINE d == LastByLeft(B)
             A == B \ {d}
  <2>1. B # {}
    BY <1>4, <1>5
  <2>2. d \in B /\ \A b \in B : left[b] <= left[d]
    BY <1>1, <2>1, LastIs
  <2>3. built[B] = Attach(d, built[A])
    BY <2>1 DEF Turn
  <2> HIDE DEF d
  <2>4. A \in SUBSET D /\ A \cup {d} = B /\ d \in D \ A
    BY <2>2
  <2>5. Before(D, A)
    <3>1. ASSUME NEW x \in D, NEW y \in A, left[x] <= left[y], x = d PROVE FALSE
      <4>1. y \in present /\ d \in present /\ y # d /\ left[y] = left[d]
        BY <1>1, <2>2, <2>4, <3>1 DEF InRange
      <4> QED BY <4>1, Positions DEF TreeInv, NestedSet, Inside
    <3> QED BY <1>5, <2>4, <3>1 DEF Before
  <2>6. Cardinality(A) = Cardinality(B) - 1
    BY <1>2, <2>2, FS_RemoveElement
  <2>7. ~Good(A)
    <3> SUFFICES ASSUME Good(A) PROVE FALSE
      OBVIOUS
    <3>0. /\ Before(D, A) /\ d \in D \ A /\ Before(D, A \cup {d})
          /\ Stacked(D, A, built[A].stack) /\ Drawn(A, built[A].edges)
      BY <1>5, <2>4, <2>5
    <3> HIDE DEF A
    <3>1. /\ Stacked(D, A \cup {d}, Attach(d, built[A]).stack)
          /\ Drawn(A \cup {d}, Attach(d, built[A]).edges)
          /\ \A t \in D : Holds(t) /\ Whole(t, A, built[A])
                            => Whole(t, A \cup {d}, Attach(d, built[A]))
      BY <3>0, OneTurn, Zenon
    <3>2. Good(B)
      BY <2>3, <2>4, <3>1
    <3> QED BY <1>5, <3>2
  <2> QED BY <2>4, <2>5, <2>6, <2>7
<1> HIDE DEF Good, Bad
<1>6. N = {}
  <2> SUFFICES ASSUME N # {} PROVE FALSE
    OBVIOUS
  <2>1. PICK n \in N : \A k \in N : ~(<<k, n>> \in OpToRel(<, Nat))
    BY WFMin, NatLessThanWellFounded, Zenon
  <2>2. PICK A \in SUBSET D : Bad(A) /\ Cardinality(A) = n - 1
    BY <1>5, <2>1
  <2>3. n \in Nat /\ n - 1 \in Nat /\ n - 1 < n
    <3>1. n \in Nat
      BY <2>1
    <3>2. n - 1 \in Nat
      BY <1>2, <2>2
    <3> HIDE DEF N
    <3> QED BY <3>1, <3>2
  <2>4. n - 1 \in N
    BY <2>2, <2>3
  <2>5. <<n - 1, n>> \in OpToRel(<, Nat)
    BY <2>3 DEF OpToRel
  <2> QED BY <2>1, <2>4, <2>5
<1>7. Good(D)
  BY <1>2, <1>3, <1>6 DEF Bad
<1> QED BY <1>7 DEF Good

\* What a reader has found is a range, and each reader has an answer.
ReaderInv == span \in [Calls -> Int \X Int] /\ thread = [c \in Calls |-> thread[c]]

LEMMA ReaderStep ==
    ASSUME CommentType, ReaderInv, [Next]_vars
    PROVE  ReaderInv'
<1>1. ASSUME NEW c \in Calls, FindRoot(c)
      PROVE  ReaderInv'
  <2>1. left[target[c]] \in Int /\ right[target[c]] \in Int
    BY <1>1 DEF FindRoot, CommentType
  <2> QED BY <1>1, <2>1 DEF FindRoot, ReaderInv
<1>2. ASSUME NEW c \in Calls, ReadRange(c)
      PROVE  ReaderInv'
  BY <1>2 DEF ReadRange, ReaderInv
<1>3. ASSUME NEW c \in Calls, CommentStep(c), ~FindRoot(c), ~ReadRange(c)
      PROVE  UNCHANGED reader
  BY <1>3 DEF CommentStep, Request, BeginRoot, BeginReply, BeginDelete, Begin,
              NotFound, Write, Commit, WriteConflict, CallFails, Close
<1>4. CASE UNCHANGED reader
  BY <1>4 DEF reader, ReaderInv
<1>5. CASE UNCHANGED vars
  BY <1>4, <1>5 DEF vars
<1> QED BY <1>1, <1>2, <1>3, <1>4, <1>5 DEF Next

\* What a reader answers.
LEMMA ReaderDraws ==
    ASSUME CommentType, TreeInv, ReaderInv, NEW c \in Calls, ReadRange(c)
    PROVE  /\ \A e \in thread'[c].edges : parent[e[2]] = e[1]
           /\ target[c] \in present /\ span[c] = <<left[target[c]], right[target[c]]>> =>
                thread'[c] = ThreadOf(target[c])
<1> DEFINE l == span[c][1]
           r == span[c][2]
           D == InRange(l, r)
<1>1. l \in Int /\ r \in Int
  BY DEF ReaderInv
<1>2. D \in SUBSET Comments
  BY DEF InRange, CommentType
<1>3. thread'[c] = BuildTree(D)
  BY DEF ReadRange, ReaderInv
<1> HIDE DEF D
<1>4. PICK built : /\ built = [B \in SUBSET D |-> Turn(built, B)]
                   /\ BuildTree(D) = [root |-> built[D].root, edges |-> built[D].edges]
  BY <1>2, BuiltInTurns
<1>5. /\ Drawn(D, built[D].edges)
      /\ \A t \in D : (\A x \in D \ {t} : Inside(left, right, x, t)) => Whole(t, D, built[D])
  BY <1>1, <1>4, LoopDraws DEF D
<1>6. \A e \in thread'[c].edges : parent[e[2]] = e[1]
  BY <1>3, <1>4, <1>5 DEF Drawn
<1>7. ASSUME target[c] \in present, span[c] = <<left[target[c]], right[target[c]]>>
      PROVE  thread'[c] = ThreadOf(target[c])
  <2> DEFINE t == target[c]
  <2>1. D = InRange(left[t], right[t])
    BY <1>7 DEF D
  <2>2. D = Held(present, left, right, t) /\ D = Subtree(t)
    BY <1>7, <2>1, RangeIsSubtree
  <2>3. \A x \in present : left[x] \in Int /\ right[x] \in Int /\ left[x] < right[x]
    BY Positions
  <2>4. t \in D /\ \A x \in D : x \in present /\ left[t] <= left[x] /\ right[x] <= right[t]
    BY <1>7, <2>2, <2>3 DEF Held
  <2>5. ASSUME NEW x \in D \ {t} PROVE Inside(left, right, x, t)
    BY <1>7, <2>3, <2>4 DEF TreeInv, NestedSet, Inside
  <2>6. Whole(t, D, built[D])
    BY <1>5, <2>4, <2>5
  <2>7. built[D].root = t /\ built[D].edges = {<<parent[b], b>> : b \in D \ {t}}
    BY <2>4, <2>6 DEF Whole
  <2> QED BY <1>3, <1>4, <2>2, <2>7 DEF ThreadOf
<1> QED BY <1>6, <1>7

\* A thread that is read in two queries shows no comment below another than the one it
\* answers, and if its root has kept its range between the two it is the whole thread,
\* whatever the other calls do, until a root is committed across another insertion.
THEOREM ThreadsAreReadRight == Spec => ThreadRead
<1> DEFINE Right(c) ==
             /\ \A e \in thread'[c].edges : parent[e[2]] = e[1]
             /\ target[c] \in present /\ span[c] = <<left[target[c]], right[target[c]]>> =>
                  thread'[c] = ThreadOf(target[c])
           Reads == \A c \in Calls : ~raced /\ pc[c] = "range" /\ pc'[c] = "answered" => Right(c)
<1>1. ASSUME CommentSafe, ReaderInv, [Next]_vars PROVE [Reads]_vars
  <2>1. ASSUME NEW c \in Calls, NEW b \in Calls, CommentStep(b), ~raced,
               pc[c] = "range", pc'[c] = "answered"
        PROVE  Right(c)
    <3>1. ReadRange(b) /\ b = c
      BY <1>1, <2>1 DEF CommentStep, Request, BeginRoot, BeginReply, BeginDelete, Begin, FindRoot, ReadRange,
                NotFound, Write, Commit, WriteConflict, CallFails, Close, CommentSafe, CommentType
    <3> QED BY <1>1, <2>1, <3>1, ReaderDraws DEF CommentSafe, CommentInv
  <2>2. CASE Next
    BY <2>1, <2>2 DEF Next
  <2> QED BY <1>1, <2>2
<1>2. CommentSafe /\ ReaderInv /\ [Next]_vars => ReaderInv'
  BY ReaderStep DEF CommentSafe
<1>3. Init => ReaderInv
  BY DEF Init, ReaderInv
<1> QED BY <1>1, <1>2, <1>3, AlwaysSafe, PTL DEF Spec, ThreadRead
=============================================================================
