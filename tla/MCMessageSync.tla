--------------------------- MODULE MCMessageSync ---------------------------
(* MessageSync with few clients, servers and messages, for TLC. *)
EXTENDS MessageSync

CONSTANTS alice, bob, m1, m2, m3

\* bob, where he takes part, writes m2 and alice everything else.
AuthorOf == [m \in Messages |-> IF m = m2 /\ bob \in Users THEN bob ELSE alice]
=============================================================================
