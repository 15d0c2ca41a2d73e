---------------------------- MODULE MCAuthSession ----------------------------
(* Small instances of AuthSession for TLC. *)
EXTENDS AuthSession, TLC

\* Refresh calls are alike.
MCRefreshes == Permutations(Refreshes)
=============================================================================
