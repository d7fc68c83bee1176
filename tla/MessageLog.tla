----------------------------- MODULE MessageLog -----------------------------
(***************************************************************************)
(* What a database of the messenger promises about the messages of its     *)
(* channels, whichever process writes, crashes or retries: every channel   *)
(* has a log of messages that is extended one message at a time at its     *)
(* end, never holds a message twice and never changes otherwise, until the *)
(* owner of the database retires the channel, for good.                    *)
(*                                                                         *)
(* ChannelStore (the key-value code of internal/database) implements this  *)
(* module; MessageSync (the clients and servers) relies on it.             *)
(***************************************************************************)
EXTENDS Sequences

CONSTANTS Channels,   \* identifiers of channels
          Messages    \* identifiers (hashes) of messages

VARIABLES log,        \* log[c] : the messages of channel c, in order
          retired     \* the channels whose history has been given up

vars == <<log, retired>>

Posted(c) == { log[c][i] : i \in DOMAIN log[c] }

Init ==
    /\ log = [c \in Channels |-> <<>>]
    /\ retired = {}

Post(c, m) ==
    /\ c \notin retired
    /\ m \notin Posted(c)
    /\ log' = [log EXCEPT ![c] = Append(@, m)]
    /\ UNCHANGED retired

Retire(c) ==
    /\ log' = [log EXCEPT ![c] = <<>>]
    /\ retired' = retired \cup {c}

Next ==
    \E c \in Channels :
        \/ \E m \in Messages : Post(c, m)
        \/ Retire(c)

Spec == Init /\ [][Next]_vars
=============================================================================
