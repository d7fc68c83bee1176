----------------------------- MODULE MessageSync -----------------------------
(***************************************************************************)
(* The messages of one channel between clients and servers.                *)
(*                                                                         *)
(* Servers do not talk to each other.  A client pushes a message it writes *)
(* to each of its servers in turn, without storing it, and pushes a        *)
(* message it receives from one server to all of them again: this relay is *)
(* all that brings the logs of the servers together, and any push may      *)
(* fail.  While its chat is open a client listens to each server with a    *)
(* listener of its own; the listeners share the database of the client.    *)
(*                                                                         *)
(* A log is what MessageLog promises: AddChannelMessage is one step here,  *)
(* and ChannelStore shows why it may be.  The channel is initialised on    *)
(* every server, and the clients are registered and authorised.            *)
(***************************************************************************)
EXTENDS Integers, Sequences

CONSTANTS
    Users,       \* clients, the participants of the channel
    NServers,    \* the servers they are connected to are 1..NServers
    Messages,    \* hashes of the messages they write
    Author,      \* Author[m] : the user who writes m
    NoMessage,
    MaxFaults    \* bound on failed requests, failed writes, crashes, closed chats

Servers == 1..NServers

ASSUME NServersAssumption == NServers \in Nat \ {0}
ASSUME AuthorAssumption == Author \in [Messages -> Users]
ASSUME NoMessageAssumption == NoMessage \notin Messages
ASSUME MaxFaultsAssumption == MaxFaults \in Nat

VARIABLES
    srvLog,      \* srvLog[s] : the log of the channel in server s
    via,         \* via[u][m] : the server u stored m from, 0 if it has not
    chatOpen,    \* chatOpen[u] : the chat of the channel is open in client u
    lst,         \* lst[u][s] : the listener of u on server s
    held,        \* held[u][s] : messages that closed listeners still will store
    failed,      \* failed[u][s] : messages whose local write failed
    sending,     \* sending[m] : the server the author pushes m to next;
                 \*              0 before, NServers + 1 after
    faults

vars == <<srvLog, via, chatOpen, lst, held, failed, sending, faults>>

Idle == [pc |-> "off", low |-> 0, high |-> -1, counter |-> 0, size |-> 0,
         msg |-> NoMessage, next |-> 0]

OnServer(s) == { srvLog[s][i] : i \in DOMAIN srvLog[s] }
Known(u)    == { m \in Messages : via[u][m] # 0 }
At(s, i)    == srvLog[s][i + 1]

Init ==
    /\ srvLog = [s \in Servers |-> <<>>]
    /\ via = [u \in Users |-> [m \in Messages |-> 0]]
    /\ chatOpen = [u \in Users |-> FALSE]
    /\ lst = [u \in Users |-> [s \in Servers |-> Idle]]
    /\ held = [u \in Users |-> [s \in Servers |-> {}]]
    /\ failed = [u \in Users |-> [s \in Servers |-> {}]]
    /\ sending = [m \in Messages |-> 0]
    /\ faults = 0

Fault == faults < MaxFaults /\ faults' = faults + 1
Become(u, s, l) == lst' = [lst EXCEPT ![u][s] = l]

-----------------------------------------------------------------------------
(* Pushing a message to a server: handleChannelChatPush.                   *)

Push(s, m) ==
    srvLog' = [srvLog EXCEPT ![s] = IF m \in OnServer(s) THEN @ ELSE Append(@, m)]

\* The push is done, whether its answer arrives or not, or it fails.
TryPush(s, m) == \/ Push(s, m) /\ UNCHANGED faults
                 \/ Fault /\ UNCHANGED srvLog

\* The author pushes m to its servers, one after the other (pushMessage).
Send(m) ==
    /\ sending[m] = 0
    /\ sending' = [sending EXCEPT ![m] = 1]
    /\ UNCHANGED <<srvLog, via, chatOpen, lst, held, failed, faults>>

SendNext(m) ==
    /\ sending[m] \in Servers
    /\ TryPush(sending[m], m)
    /\ sending' = [sending EXCEPT ![m] = @ + 1]
    /\ UNCHANGED <<via, chatOpen, lst, held, failed>>

-----------------------------------------------------------------------------
(* The chat. *)

OpenChat(u) ==
    /\ ~ chatOpen[u]
    /\ chatOpen' = [chatOpen EXCEPT ![u] = TRUE]
    /\ UNCHANGED <<srvLog, via, lst, held, failed, sending, faults>>

\* The context of the listeners is cancelled: they stop, relays included, but a
\* message that was received is still stored.
CloseChat(u) ==
    /\ chatOpen[u] /\ Fault
    /\ chatOpen' = [chatOpen EXCEPT ![u] = FALSE]
    /\ held' = [held EXCEPT ![u] = [s \in Servers |->
                  held[u][s] \cup (IF lst[u][s].pc = "got" THEN {lst[u][s].msg} ELSE {})]]
    /\ lst' = [lst EXCEPT ![u] = [s \in Servers |-> Idle]]
    /\ UNCHANGED <<srvLog, via, failed, sending>>

\* The application stops: its listeners and its pushes are gone.
Crash(u) ==
    /\ Fault
    /\ chatOpen' = [chatOpen EXCEPT ![u] = FALSE]
    /\ held' = [held EXCEPT ![u] = [s \in Servers |-> {}]]
    /\ lst' = [lst EXCEPT ![u] = [s \in Servers |-> Idle]]
    /\ sending' = [m \in Messages |->
                     IF Author[m] = u /\ sending[m] # 0 THEN NServers + 1 ELSE sending[m]]
    /\ UNCHANGED <<srvLog, via, failed>>

\* AddChannelMessage of the client, by its listener on s.
StoreFrom(u, s, m) == via' = [via EXCEPT ![u][m] = IF @ = 0 THEN s ELSE @]

LateStore(u, s, m) ==
    /\ m \in held[u][s]
    /\ held' = [held EXCEPT ![u][s] = @ \ {m}]
    /\ StoreFrom(u, s, m)
    /\ UNCHANGED <<srvLog, chatOpen, lst, failed, sending, faults>>

-----------------------------------------------------------------------------
(* The listener of u on s (runMessagesListenerOnConnection).               *)

world == <<srvLog, chatOpen, held, sending>>

\* Mutant: the interval of the bisection ends at the size of the log.
StartSessionAtSize(u, s) ==
    /\ chatOpen[u] /\ lst[u][s].pc = "off"
    /\ Become(u, s, [Idle EXCEPT !.pc = "search", !.size = Len(srvLog[s]),
                                 !.high = Len(srvLog[s])])
    /\ UNCHANGED <<world, via, failed, faults>>

StartSession(u, s) ==
    /\ chatOpen[u] /\ lst[u][s].pc = "off"
    /\ Become(u, s, [Idle EXCEPT !.pc = "search", !.size = Len(srvLog[s]),
                                 !.high = Len(srvLog[s]) - 1])
    /\ UNCHANGED <<world, via, failed, faults>>

Mid(l) == l.low + (l.high - l.low) \div 2

\* Mutant: the result is the index after the last one asked for.
ProbeAfter(u, s) ==
    LET l == lst[u][s] IN
    /\ l.pc = "search" /\ l.low <= l.high
    /\ \/ /\ At(s, Mid(l)) \in Known(u)
          /\ Become(u, s, [l EXCEPT !.counter = Mid(l) + 1, !.low = Mid(l) + 1])
       \/ /\ At(s, Mid(l)) \notin Known(u)
          /\ Become(u, s, [l EXCEPT !.counter = Mid(l) + 1, !.high = Mid(l) - 1])
    /\ UNCHANGED <<world, via, failed, faults>>

Probe(u, s) ==
    LET l == lst[u][s] IN
    /\ l.pc = "search" /\ l.low <= l.high
    /\ \/ /\ At(s, Mid(l)) \in Known(u)
          /\ Become(u, s, [l EXCEPT !.counter = Mid(l), !.low = Mid(l) + 1])
       \/ /\ At(s, Mid(l)) \notin Known(u)
          /\ Become(u, s, [l EXCEPT !.counter = Mid(l), !.high = Mid(l) - 1])
    /\ UNCHANGED <<world, via, failed, faults>>

SearchDone(u, s) ==
    LET l == lst[u][s] IN
    /\ l.pc = "search" /\ l.low > l.high
    /\ Become(u, s, [l EXCEPT !.pc = "listen", !.low = 0, !.high = -1])
    /\ UNCHANGED <<world, via, failed, faults>>

SearchError(u, s) ==
    /\ lst[u][s].pc = "search" /\ Fault
    /\ Become(u, s, Idle)
    /\ UNCHANGED <<world, via, failed>>

Listen(u, s) ==
    LET l == lst[u][s] IN
    /\ l.pc = "listen" /\ l.counter < Len(srvLog[s])
    /\ \/ /\ At(s, l.counter) \in Known(u)
          /\ Become(u, s, [l EXCEPT !.counter = @ + 1])
       \/ /\ At(s, l.counter) \notin Known(u)
          /\ Become(u, s, [l EXCEPT !.counter = @ + 1, !.pc = "got",
                                    !.msg = At(s, l.counter)])
    /\ UNCHANGED <<world, via, failed, faults>>

Store(u, s) ==
    LET l == lst[u][s] IN
    /\ l.pc = "got"
    /\ StoreFrom(u, s, l.msg)
    /\ Become(u, s, [l EXCEPT !.pc = "relay", !.next = 1])
    /\ UNCHANGED <<world, failed, faults>>

\* A write fails: the message is passed over until the session ends, or for good
\* when its record was written.
StoreFails(u, s) ==
    LET l == lst[u][s] IN
    /\ l.pc = "got" /\ Fault
    /\ StoreFrom(u, s, l.msg) \/ UNCHANGED via
    /\ failed' = [failed EXCEPT ![u][s] = @ \cup {l.msg}]
    /\ Become(u, s, [l EXCEPT !.pc = "listen", !.msg = NoMessage])
    /\ UNCHANGED world

\* Mutant: the relay ends with the first server.
RelayToFirst(u, s) ==
    LET l == lst[u][s] IN
    /\ l.pc = "relay"
    /\ TryPush(l.next, l.msg)
    /\ Become(u, s, [l EXCEPT !.pc = "listen", !.msg = NoMessage, !.next = 0])
    /\ UNCHANGED <<via, chatOpen, held, failed, sending>>

\* Mutant: the relay runs past the last server.
RelayPastEnd(u, s) ==
    LET l == lst[u][s] IN
    /\ l.pc = "relay"
    /\ TryPush(l.next, l.msg)
    /\ Become(u, s, IF l.next > NServers
                    THEN [l EXCEPT !.pc = "listen", !.msg = NoMessage, !.next = 0]
                    ELSE [l EXCEPT !.next = @ + 1])
    /\ UNCHANGED <<via, chatOpen, held, failed, sending>>

\* The message goes to every server, the one it came from included.
Relay(u, s) ==
    LET l == lst[u][s] IN
    /\ l.pc = "relay"
    /\ TryPush(l.next, l.msg)
    /\ Become(u, s, IF l.next = NServers
                    THEN [l EXCEPT !.pc = "listen", !.msg = NoMessage, !.next = 0]
                    ELSE [l EXCEPT !.next = @ + 1])
    /\ UNCHANGED <<via, chatOpen, held, failed, sending>>

Work(u, s) == \/ StartSession(u, s) \/ Probe(u, s) \/ SearchDone(u, s)
              \/ Listen(u, s) \/ Store(u, s) \/ Relay(u, s)

Next ==
    \/ \E m \in Messages : Send(m) \/ SendNext(m)
    \/ \E u \in Users :
          \/ OpenChat(u) \/ CloseChat(u) \/ Crash(u)
          \/ \E s \in Servers :
                \/ Work(u, s) \/ SearchError(u, s) \/ StoreFails(u, s)
                \/ \E m \in Messages : LateStore(u, s, m)

Spec == Init /\ [][Next]_vars

\* Goroutines run: a listener of an open chat and a push that was begun go on.
Fairness ==
    /\ \A u \in Users, s \in Servers : WF_vars(Work(u, s))
    /\ \A m \in Messages : WF_vars(SendNext(m))

FairSpec == Spec /\ Fairness

-----------------------------------------------------------------------------
(* Properties.                                                             *)

TypeOK ==
    /\ srvLog \in [Servers -> Seq(Messages)]
    /\ via \in [Users -> [Messages -> 0..NServers]]
    /\ chatOpen \in [Users -> BOOLEAN]
    /\ DOMAIN lst = Users
    /\ \A u \in Users :
          /\ DOMAIN lst[u] = Servers
          /\ \A s \in Servers :
                LET l == lst[u][s] IN
                /\ l.pc \in {"off", "search", "listen", "got", "relay"}
                /\ l.low \in Nat /\ l.high \in Int /\ l.counter \in Nat
                /\ l.size \in Nat
                /\ IF l.pc \in {"got", "relay"} THEN l.msg \in Messages ELSE l.msg = NoMessage
                /\ IF l.pc = "relay" THEN l.next \in Servers ELSE l.next \in Nat
    /\ held \in [Users -> [Servers -> SUBSET Messages]]
    /\ failed \in [Users -> [Servers -> SUBSET Messages]]
    /\ sending \in [Messages -> 0..(NServers + 1)]
    /\ faults \in 0..MaxFaults

\* The listener of u on s alone: a relay happens while it listens, and what the
\* other listeners of u store comes from elsewhere.
ML(u, s) == INSTANCE MessageListener WITH
    srvLog    <- srvLog[s],
    known     <- Known(u),
    pc        <- IF lst[u][s].pc = "relay" THEN "listen" ELSE lst[u][s].pc,
    low       <- lst[u][s].low,
    high      <- lst[u][s].high,
    counter   <- lst[u][s].counter,
    size      <- lst[u][s].size,
    msg       <- IF lst[u][s].pc = "got" THEN lst[u][s].msg ELSE NoMessage,
    held      <- held[u][s],
    elsewhere <- { m \in Messages : via[u][m] \notin {0, s} },
    failed    <- failed[u][s]

\* Every listener of every client, among all the others, behaves as
\* MessageListener says, so what holds of it (SkipsOnlyOvertaken,
\* NewPostsNotSkipped) holds of each of them.
ListenersConform ==
    /\ \A u \in Users, s \in Servers : ML(u, s)!Init
    /\ [][\A u \in Users, s \in Servers : [ML(u, s)!Next]_(ML(u, s)!vars)]_vars

\* While nothing is disturbed, a message that reaches one server reaches the
\* database of every client whose chat is open, in whatever order the authors'
\* pushes and the relays fill the logs and whenever the chat was opened.
EveryoneReads ==
    \A u \in Users, m \in Messages :
        (chatOpen[u] /\ \E s \in Servers : m \in OnServer(s))
            ~> (m \in Known(u) \/ faults > 0)

\* A listener repairs what was cut before: once the disturbances are over, a
\* message that it has not reached yet and that its client does not have ends
\* up in that client and, by the relay, in every server, though its author's
\* push to some of them failed.
RelayRepairs ==
    \A u \in Users, s \in Servers, m \in Messages :
        (/\ faults = MaxFaults
         /\ lst[u][s].pc = "listen"
         /\ \E i \in lst[u][s].counter..(Len(srvLog[s]) - 1) : At(s, i) = m
         /\ m \notin Known(u)
         /\ \A t \in Servers : m \notin held[u][t])
            ~> (m \in Known(u) /\ \A t \in Servers : m \in OnServer(t))
=============================================================================
