-------------------------- MODULE MessageListener --------------------------
(***************************************************************************)
(* runMessagesListenerOnConnection and binarySearchCounter (main.go): how  *)
(* a client with an open chat finds, in the log a server keeps of the      *)
(* channel, the messages its own database does not hold yet.               *)
(*                                                                         *)
(* A session asks the server for the size of the log, looks for the        *)
(* boundary between known and unknown messages by bisection, and from      *)
(* there on takes the messages one by one, waiting for the next at the end *)
(* of the log.  The bisection is right when the known messages are a       *)
(* prefix of the log, which the listeners of the other connections, that   *)
(* fill the same database from logs in another order, do not respect.      *)
(*                                                                         *)
(* The module is one connection of one client.  The rest of the world      *)
(* extends the log of the server (Post) and teaches the database messages  *)
(* it got elsewhere (LearnElsewhere).                                      *)
(***************************************************************************)
EXTENDS Integers, Sequences

CONSTANTS Messages,   \* hashes of the messages of the channel
          NoMessage

ASSUME NoMessageAssumption == NoMessage \notin Messages

VARIABLES
    srvLog,     \* the log of the channel in the server
    known,      \* the messages with a record in the database of the client
    pc,         \* "off", "search", "listen" or "got"
    low, high,  \* the interval of the bisection
    counter,    \* the result of the bisection, then the next index to ask for
    size,       \* the size of the log when the session started
    msg,        \* the message received and not yet stored
    held,       \* messages that listeners of closed sessions still will store
    elsewhere,  \* history: the messages the database got from other connections
    failed      \* history: the messages whose local write failed

listener == <<pc, low, high, counter, size, msg>>
vars == <<srvLog, known, listener, held, elsewhere, failed>>

Indices == 0..(Len(srvLog) - 1)
At(i)   == srvLog[i + 1]              \* the indices of the protocol start at 0
OnServer == { At(i) : i \in Indices }

Init ==
    /\ srvLog = <<>> /\ known = {}
    /\ pc = "off" /\ low = 0 /\ high = -1 /\ counter = 0 /\ size = 0
    /\ msg = NoMessage /\ held = {}
    /\ elsewhere = {} /\ failed = {}

-----------------------------------------------------------------------------
(* A session. *)

Reset ==
    /\ pc' = "off" /\ low' = 0 /\ high' = -1 /\ counter' = 0 /\ size' = 0
    /\ msg' = NoMessage

\* Mutant: the interval ends at the size of the log.
OpenAtSize ==
    /\ pc = "off" /\ pc' = "search"
    /\ size' = Len(srvLog)
    /\ low' = 0 /\ high' = Len(srvLog) /\ counter' = 0
    /\ UNCHANGED <<srvLog, known, msg, held, elsewhere, failed>>

\* InitChannel and CountMessages have succeeded.
Open ==
    /\ pc = "off" /\ pc' = "search"
    /\ size' = Len(srvLog)
    /\ low' = 0 /\ high' = Len(srvLog) - 1 /\ counter' = 0
    /\ UNCHANGED <<srvLog, known, msg, held, elsewhere, failed>>

Mid == low + (high - low) \div 2

\* Mutant: the result is the index after the last one asked for.
ProbeAfter ==
    /\ pc = "search" /\ low <= high
    /\ counter' = Mid + 1
    /\ \/ At(Mid) \in known    /\ low' = Mid + 1  /\ UNCHANGED high
       \/ At(Mid) \notin known /\ high' = Mid - 1 /\ UNCHANGED low
    /\ UNCHANGED <<srvLog, known, pc, size, msg, held, elsewhere, failed>>

\* ListenMessage for the index in the middle, then GetMessage.
Probe ==
    /\ pc = "search" /\ low <= high
    /\ counter' = Mid
    /\ \/ At(Mid) \in known    /\ low' = Mid + 1  /\ UNCHANGED high
       \/ At(Mid) \notin known /\ high' = Mid - 1 /\ UNCHANGED low
    /\ UNCHANGED <<srvLog, known, pc, size, msg, held, elsewhere, failed>>

SearchDone ==
    /\ pc = "search" /\ low > high
    /\ pc' = "listen" /\ low' = 0 /\ high' = -1
    /\ UNCHANGED <<srvLog, known, counter, size, msg, held, elsewhere, failed>>

\* A request of the bisection failed: the session starts again.
SearchError ==
    /\ pc = "search" /\ Reset
    /\ UNCHANGED <<srvLog, known, held, elsewhere, failed>>

\* Mutant: a message is passed over without a look into the database.
ListenKnownUnchecked ==
    /\ pc = "listen" /\ counter < Len(srvLog)
    /\ counter' = counter + 1
    /\ UNCHANGED <<srvLog, known, pc, low, high, size, msg, held, elsewhere, failed>>

ListenKnown ==
    /\ pc = "listen" /\ counter < Len(srvLog)
    /\ At(counter) \in known
    /\ counter' = counter + 1
    /\ UNCHANGED <<srvLog, known, pc, low, high, size, msg, held, elsewhere, failed>>

\* The counter passes the message before it is stored.
ListenNew ==
    /\ pc = "listen" /\ counter < Len(srvLog)
    /\ At(counter) \notin known
    /\ msg' = At(counter)
    /\ counter' = counter + 1
    /\ pc' = "got"
    /\ UNCHANGED <<srvLog, known, low, high, size, held, elsewhere, failed>>

\* AddChannelMessage: the message may have arrived from elsewhere meanwhile.
Store ==
    /\ pc = "got" /\ pc' = "listen"
    /\ known' = known \cup {msg}
    /\ msg' = NoMessage
    /\ UNCHANGED <<srvLog, low, high, counter, size, held, elsewhere, failed>>

\* A write fails.  If it is not the first, the record is there, which is all that
\* GetMessage looks for, but the message is not in the log of the database.
StoreFails ==
    /\ pc = "got" /\ pc' = "listen"
    /\ failed' = failed \cup {msg}
    /\ known' \in {known, known \cup {msg}}
    /\ msg' = NoMessage
    /\ UNCHANGED <<srvLog, low, high, counter, size, held, elsewhere>>

\* The chat is closed.  A listener that holds a message stores it all the same,
\* perhaps after the chat is open again.
Close ==
    /\ pc # "off" /\ Reset
    /\ held' = IF pc = "got" THEN held \cup {msg} ELSE held
    /\ UNCHANGED <<srvLog, known, elsewhere, failed>>

LateStore(m) ==
    /\ m \in held /\ held' = held \ {m}
    /\ known' = known \cup {m}
    /\ UNCHANGED <<srvLog, listener, elsewhere, failed>>

\* The application stops and is started again.
Crash ==
    /\ Reset /\ held' = {}
    /\ UNCHANGED <<srvLog, known, elsewhere, failed>>

Step == Probe \/ SearchDone \/ ListenKnown \/ ListenNew \/ Store

-----------------------------------------------------------------------------
(* The rest of the world. *)

Post(m) ==
    /\ m \notin OnServer
    /\ srvLog' = Append(srvLog, m)
    /\ UNCHANGED <<known, listener, held, elsewhere, failed>>

LearnElsewhere(m) ==
    /\ m \notin known
    /\ known' = known \cup {m} /\ elsewhere' = elsewhere \cup {m}
    /\ UNCHANGED <<srvLog, listener, held, failed>>

Next ==
    \/ Open \/ Step \/ SearchError \/ StoreFails \/ Close \/ Crash
    \/ \E m \in Messages : LateStore(m) \/ Post(m) \/ LearnElsewhere(m)

Spec == Init /\ [][Next]_vars

\* The goroutine is scheduled and its requests are answered.
FairSpec == Spec /\ WF_vars(Step)

-----------------------------------------------------------------------------
(* Properties. *)

TypeOK ==
    /\ srvLog \in Seq(Messages)
    /\ known \subseteq Messages /\ held \subseteq Messages
    /\ elsewhere \subseteq Messages /\ failed \subseteq Messages
    /\ pc \in {"off", "search", "listen", "got"}
    /\ low \in Nat /\ high \in Int /\ counter \in Nat /\ size \in Nat
    /\ msg \in IF pc = "got" THEN Messages ELSE {NoMessage}

\* A message at index i of the log was overtaken: one at i or after it reached
\* the database through another connection, or was lost by a failed write.
Overtaken(i) == \E k \in Indices : k >= i /\ At(k) \in elsewhere \cup failed

\* A listener passes over a message it does not have only if that message was
\* overtaken in this way.  With a single connection and no failed write there
\* is nothing elsewhere, and a client never misses a message, however often the
\* chat is closed and the application restarted (binarySearchCounter is right).
SkipsOnlyOvertaken ==
    pc \in {"listen", "got"} =>
        \A i \in 0..(counter - 1) :
            \/ At(i) \in known \/ At(i) = msg
            \/ Overtaken(i)

\* Nothing that was posted after the session began is skipped, even with many
\* connections: the messages a session can miss are those of the backlog it
\* searched.
NewPostsNotSkipped ==
    pc \in {"listen", "got"} =>
        \A i \in size..(counter - 1) : At(i) \in known \cup failed \cup {msg}

\* The bisection asks only for indices the server has, so it never waits for a
\* message to be posted, and its result never lies beyond the log.
SearchInBounds ==
    /\ pc = "search" /\ low <= high => Mid \in Indices
    /\ pc = "search" => 0 <= low /\ low <= high + 1 /\ high < size
    /\ pc # "off" => counter <= Len(srvLog) /\ size <= Len(srvLog)

\* A message at an index an open session has not reached is stored in the end,
\* unless the session ends or the write fails.
Delivery ==
    \A m \in Messages :
        (pc = "listen" /\ \E i \in counter..(Len(srvLog) - 1) : At(i) = m)
            ~> (m \in known \cup failed \/ pc = "off")
=============================================================================
