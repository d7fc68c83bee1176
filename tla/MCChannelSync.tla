--------------------------- MODULE MCChannelSync ---------------------------
(* ChannelSync with two servers and two channels, for TLC. *)
EXTENDS ChannelSync, TLC

CONSTANTS s1, s2, me, you, other, mine, yours, theirs

\* A channel of the client, one with a participant whom servers may not know, and
\* one that names the client twice.
Participants ==
    [c \in Channels |-> CASE c = mine   -> <<me, you>>
                          [] c = yours  -> <<you, me, other>>
                          [] c = theirs -> <<you, me, me>>]

\* Every server knows all clients, or not the third one, or not the client itself.
Settled == { [s \in Servers |-> known] : known \in {{me, you, other}, {me, you}, {you}} }

\* One server does not know the client yet.
NewOnOne == { [s \in Servers |-> IF s = s1 THEN {me, you} ELSE {you}] }

ServerSymmetry == Permutations(Servers)
=============================================================================
