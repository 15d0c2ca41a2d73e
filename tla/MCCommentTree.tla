--------------------------- MODULE MCCommentTree ---------------------------
(* Instances of CommentTree: a has the reply b, d is a root after them. *)
EXTENDS CommentTree, TLC

CONSTANTS a, b, d

MCParent == [s \in Seeds |-> IF s = b THEN a ELSE NoComment]
MCLeft   == [s \in Seeds |-> CASE s = a -> 1 [] s = b -> 2 [] s = d -> 5]
MCRight  == [s \in Seeds |-> CASE s = a -> 4 [] s = b -> 3 [] s = d -> 6]

Count(w, k) == Cardinality({c \in Calls : w[c] = k})

\* One reads, the others write: any mix of roots, replies and deletions.
MCOneReads == {w \in [Calls -> Kinds] : Count(w, "thread") = 1}

\* A new root races with a reply.
MCRootAndReply ==
    {w \in [Calls -> Kinds] : Count(w, "root") = 1 /\ Count(w, "reply") = 1}

MCCalls == Permutations(Calls)
=============================================================================
