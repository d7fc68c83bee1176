--------------------------- MODULE MCChatSession ---------------------------
(* The instance of ChatSession that TLC checks. *)
EXTENDS ChatSession, TLC

CONSTANTS a, b, m1, m2, s1, s2

TwoChats == {a, b}
TwoMessages == {m1, m2}
OneEach == (m1 :> a) @@ (m2 :> b)
TwoServers == {s1, s2}

\* The servers are alike, and so are the two chats with a message each.
Swap == (a :> b) @@ (b :> a) @@ (m1 :> m2) @@ (m2 :> m1)
Keep == [x \in {a, b, m1, m2} |-> x]
Symmetry == { p @@ q : p \in Permutations(TwoServers), q \in {Swap, Keep} }
=============================================================================
