-------------------------- MODULE MCAuthorization --------------------------
(* Authorization with two sessions of one user, for TLC. *)
EXTENDS Authorization

CONSTANTS k1, k2, alice

SameOwner == [k \in Sessions |-> alice]

\* More than can be remembered at once: one per goroutine and one pending.
FewTasks == 1..6
=============================================================================
