--------------------------- MODULE MCChannelStore ---------------------------
(* Small databases for TLC: the file of a server and the file of a client. *)
EXTENDS ChannelStore, TLC

CONSTANTS p1, p2, p3, c1, c2, m1, m2, m3, u1, u2

\* A server: two channels, of which the second has two participants, one of
\* them in both; two messages compete for the log of c1.
ServerEncList == (c1 :> <<u1>>) @@ (c2 :> <<u2, u1>>)
ServerChanOf  == (m1 :> c1) @@ (m2 :> c1) @@ (m3 :> c2)

\* A client: one channel the user may delete, two messages.
ClientEncList == (c1 :> <<u1>>)
ClientChanOf  == (m1 :> c1) @@ (m2 :> c1)

ProcSymmetry == Permutations(Procs)
=============================================================================
