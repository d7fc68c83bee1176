---------------------------- MODULE ChannelStore ----------------------------
(***************************************************************************)
(* internal/database: the channels and messages a server or a client keeps *)
(* in its key-value file (bbolt).                                          *)
(*                                                                         *)
(* A single Set or Del of the key-value file is atomic and durable; an     *)
(* operation is a sequence of them under a sync.RWMutex, and nothing makes *)
(* the sequence atomic.  So a process of this module (a goroutine: an HTTP *)
(* handler of the server, a listener or the window thread of the client)   *)
(* takes one step per write, any of these writes may fail, and the whole   *)
(* program may stop between two of them and be started again on the file   *)
(* as it is.  Reads made under the exclusive lock are part of the step     *)
(* that takes the lock, for no other process can see between them.         *)
(***************************************************************************)
EXTENDS Integers, Sequences, FiniteSets

CONSTANTS
    Procs,       \* goroutines that use the database
    Channels,    \* identifiers of channels
    Messages,    \* identifiers (hashes) of messages
    Clients,     \* hashes of the public keys of participants
    EncList,     \* EncList[c] : the participants of channel c, a sequence
    ChanOf,      \* ChanOf[m]  : the channel message m was written to
    Deletable,   \* channels a user may delete ({} in a server)
    None,        \* no channel, no message, no process
    MaxFaults    \* bound on the crashes and failed writes of a behaviour

ASSUME EncListAssumption == EncList \in [Channels -> Seq(Clients)]
ASSUME ChanOfAssumption  == ChanOf \in [Messages -> Channels]
ASSUME DeletableAssumption == Deletable \subseteq Channels
ASSUME NoneAssumption    == None \notin Channels \cup Messages \cup Procs
ASSUME MaxFaultsAssumption == MaxFaults \in Nat

VARIABLES
    \* the file
    channels,    \* the channels[id] records that exist
    chanSlot,    \* chanSlot[u][i] : the value of clients[u].channels[i]
    chanCount,   \* chanCount[u]   : clients[u].channels.count, 0 if absent
    messages,    \* the messages[hash] records that exist
    msgSlot,     \* msgSlot[c][i]  : the value of channels[c].messages[i]
    msgCount,    \* msgCount[c]    : channels[c].messages.count, 0 if absent
    deleted,     \* the user's list of deleted channels (local.data)
    \* the memory of the program
    writer,      \* the process that holds the mutex exclusively, or None
    readers,     \* the processes that hold it shared
    pc,          \* pc[p] : where process p is
    chan,        \* chan[p], msg[p], idx[p], cnt[p] : its local variables
    msg, idx, cnt,
    \* bookkeeping of the model
    faults,      \* crashes and failed writes so far
    late         \* messages added to a channel already marked as deleted

index == <<chanSlot, chanCount>>
logs  == <<messages, msgSlot, msgCount, late>>
file  == <<channels, index, logs, deleted>>
mutex == <<writer, readers>>
local == <<pc, chan, msg, idx, cnt>>
vars  == <<file, mutex, local, faults>>

-----------------------------------------------------------------------------
(* One namespace of the key-value file, as a function on the keys present. *)

Set(kv, k, v) == [x \in DOMAIN kv \cup {k} |-> IF x = k THEN v ELSE kv[x]]
Del(kv, k)    == [x \in DOMAIN kv \ {k} |-> kv[x]]

Listed(c)   == { msgSlot[c][i] : i \in 0..(msgCount[c] - 1) }
Indexed(u)  == { chanSlot[u][i] : i \in 0..(chanCount[u] - 1) }
Members(c)  == { EncList[c][k] : k \in 1..Len(EncList[c]) }

-----------------------------------------------------------------------------
Init ==
    /\ channels = {}
    /\ chanSlot = [u \in Clients |-> <<>>]
    /\ chanCount = [u \in Clients |-> 0]
    /\ messages = {}
    /\ msgSlot = [c \in Channels |-> <<>>]
    /\ msgCount = [c \in Channels |-> 0]
    /\ deleted = {}
    /\ writer = None
    /\ readers = {}
    /\ pc = [p \in Procs |-> "idle"]
    /\ chan = [p \in Procs |-> None]
    /\ msg = [p \in Procs |-> None]
    /\ idx = [p \in Procs |-> 0]
    /\ cnt = [p \in Procs |-> 0]
    /\ faults = 0
    /\ late = {}

-----------------------------------------------------------------------------
(* Control of a process. *)

Goto(p, label) == pc' = [pc EXCEPT ![p] = label]

Call(p, label, c, m, i) ==
    /\ pc[p] = "idle"
    /\ Goto(p, label)
    /\ chan' = [chan EXCEPT ![p] = c]
    /\ msg' = [msg EXCEPT ![p] = m]
    /\ idx' = [idx EXCEPT ![p] = i]
    /\ UNCHANGED <<cnt, file, mutex, faults>>

Return(p) ==
    /\ Goto(p, "idle")
    /\ chan' = [chan EXCEPT ![p] = None]
    /\ msg' = [msg EXCEPT ![p] = None]
    /\ idx' = [idx EXCEPT ![p] = 0]
    /\ cnt' = [cnt EXCEPT ![p] = 0]

CanLock  == writer = None /\ readers = {}
CanRLock == writer = None
Lock(p)  == writer' = p /\ UNCHANGED readers
RLock(p) == readers' = readers \cup {p} /\ UNCHANGED writer
Unlock(p) ==
    /\ writer' = IF writer = p THEN None ELSE writer
    /\ readers' = readers \ {p}

-----------------------------------------------------------------------------
(* SetChannel.  Its callers (the init handler of the server, the listener  *)
(* of channels and the creation window of the client) look at the list of  *)
(* deleted channels and at the records before they call it, so what they   *)
(* saw may be out of date when the lock is taken.                          *)

CallSetChannel(p, c) ==
    /\ c \notin deleted \cup channels
    /\ Call(p, "SetChannel", c, None, 1)

SetChannelLock(p) ==
    /\ pc[p] = "SetChannel" /\ CanLock
    /\ \/ /\ chan[p] \in channels                   \* already there: nil
          /\ Return(p) /\ UNCHANGED mutex
       \/ /\ chan[p] \notin channels
          /\ Lock(p) /\ Goto(p, "set-record")
          /\ UNCHANGED <<chan, msg, idx, cnt>>
    /\ UNCHANGED <<file, faults>>

SetChannelRecord(p) ==
    /\ pc[p] = "set-record"
    /\ channels' = channels \cup {chan[p]}
    /\ IF EncList[chan[p]] = <<>>
       THEN Return(p) /\ Unlock(p)
       ELSE Goto(p, "set-slot") /\ UNCHANGED <<chan, msg, idx, cnt, mutex>>
    /\ UNCHANGED <<index, logs, deleted, faults>>

\* Mutant: the slot after the first free one is written.
SetChannelSlotBeyond(p) ==
    LET u == EncList[chan[p]][idx[p]] IN
    /\ pc[p] = "set-slot"
    /\ cnt' = [cnt EXCEPT ![p] = chanCount[u]]
    /\ chanSlot' = [chanSlot EXCEPT ![u] = Set(@, chanCount[u] + 1, chan[p])]
    /\ Goto(p, "set-count")
    /\ UNCHANGED <<channels, chanCount, logs, deleted, mutex, chan, msg, idx, faults>>

SetChannelSlot(p) ==
    LET u == EncList[chan[p]][idx[p]] IN
    /\ pc[p] = "set-slot"
    /\ cnt' = [cnt EXCEPT ![p] = chanCount[u]]
    /\ chanSlot' = [chanSlot EXCEPT ![u] = Set(@, chanCount[u], chan[p])]
    /\ Goto(p, "set-count")
    /\ UNCHANGED <<channels, chanCount, logs, deleted, mutex, chan, msg, idx, faults>>

SetChannelCount(p) ==
    LET u == EncList[chan[p]][idx[p]] IN
    /\ pc[p] = "set-count"
    /\ chanCount' = [chanCount EXCEPT ![u] = cnt[p] + 1]
    /\ IF idx[p] = Len(EncList[chan[p]])
       THEN Return(p) /\ Unlock(p)
       ELSE /\ idx' = [idx EXCEPT ![p] = @ + 1]
            /\ Goto(p, "set-slot")
            /\ UNCHANGED <<chan, msg, cnt, mutex>>
    /\ UNCHANGED <<channels, chanSlot, logs, deleted, faults>>

-----------------------------------------------------------------------------
(* AddChannelMessage.  Its callers (the push handler of the server, the    *)
(* listener of messages of the client) have checked that the channel       *)
(* exists and is not deleted some time before they call it.                *)

CallAddMessage(p, m) ==
    /\ ChanOf[m] \in channels \ deleted
    /\ Call(p, "AddChannelMessage", None, m, 0)

\* Mutant: the record is not looked up before the message is added.
AddMessageLockUnchecked(p) ==
    /\ pc[p] = "AddChannelMessage" /\ CanLock
    /\ cnt' = [cnt EXCEPT ![p] = msgCount[ChanOf[msg[p]]]]
    /\ Lock(p) /\ Goto(p, "add-record")
    /\ UNCHANGED <<chan, msg, idx, file, faults>>

AddMessageLock(p) ==
    /\ pc[p] = "AddChannelMessage" /\ CanLock
    /\ \/ /\ msg[p] \in messages                    \* already there: nil
          /\ Return(p) /\ UNCHANGED mutex
       \/ /\ msg[p] \notin messages
          /\ cnt' = [cnt EXCEPT ![p] = msgCount[ChanOf[msg[p]]]]
          /\ Lock(p) /\ Goto(p, "add-record")
          /\ UNCHANGED <<chan, msg, idx>>
    /\ UNCHANGED <<file, faults>>

AddMessageRecord(p) ==
    /\ pc[p] = "add-record"
    /\ messages' = messages \cup {msg[p]}
    /\ late' = IF ChanOf[msg[p]] \in deleted THEN late \cup {msg[p]} ELSE late
    /\ Goto(p, "add-slot")
    /\ UNCHANGED <<channels, index, msgSlot, msgCount, deleted, mutex,
                   chan, msg, idx, cnt, faults>>

AddMessageSlot(p) ==
    LET c == ChanOf[msg[p]] IN
    /\ pc[p] = "add-slot"
    /\ msgSlot' = [msgSlot EXCEPT ![c] = Set(@, cnt[p], msg[p])]
    /\ Goto(p, "add-count")
    /\ UNCHANGED <<channels, index, messages, msgCount, late, deleted, mutex,
                   chan, msg, idx, cnt, faults>>

\* Mutant: the count is written back without the increment.
AddMessageCountSame(p) ==
    /\ pc[p] = "add-count"
    /\ msgCount' = [msgCount EXCEPT ![ChanOf[msg[p]]] = cnt[p]]
    /\ Return(p) /\ Unlock(p)
    /\ UNCHANGED <<channels, index, messages, msgSlot, late, deleted, faults>>

AddMessageCount(p) ==
    LET c == ChanOf[msg[p]] IN
    /\ pc[p] = "add-count"
    /\ msgCount' = [msgCount EXCEPT ![c] = cnt[p] + 1]
    /\ Return(p) /\ Unlock(p)
    /\ UNCHANGED <<channels, index, messages, msgSlot, late, deleted, faults>>

-----------------------------------------------------------------------------
(* DelChannel, in the client only.  The channel is put on the list of      *)
(* deleted channels (setDeletedChannel) before the window thread calls it; *)
(* a restarted client calls it again for every channel of that list.  It   *)
(* takes the mutex SHARED, so readers and another DelChannel run with it.  *)

MarkDeleted(c) ==
    /\ c \in (Deletable \cap channels) \ deleted
    /\ deleted' = deleted \cup {c}
    /\ UNCHANGED <<channels, index, logs, mutex, local, faults>>

CallDelChannel(p, c) ==
    /\ c \in deleted
    /\ Call(p, "DelChannel", c, None, 0)

DelChannelLock(p) ==
    /\ pc[p] = "DelChannel" /\ CanRLock
    /\ IF chan[p] \in channels
       THEN RLock(p) /\ Goto(p, "del-count") /\ UNCHANGED <<chan, msg, idx, cnt>>
       ELSE Return(p) /\ UNCHANGED mutex                    \* ErrNotFound
    /\ UNCHANGED <<file, faults>>

DelChannelCount(p) ==
    /\ pc[p] = "del-count"
    /\ cnt' = [cnt EXCEPT ![p] = msgCount[chan[p]]]
    /\ Goto(p, "del-next")
    /\ UNCHANGED <<chan, msg, idx, mutex, file, faults>>

\* Mutant: the loop stops one slot too early.
DelChannelNextShort(p) ==
    LET c == chan[p] IN
    /\ pc[p] = "del-next"
    /\ \/ /\ idx[p] + 1 < cnt[p] /\ idx[p] \in DOMAIN msgSlot[c]
          /\ msg' = [msg EXCEPT ![p] = msgSlot[c][idx[p]]]
          /\ Goto(p, "del-record") /\ UNCHANGED idx
       \/ /\ idx[p] + 1 < cnt[p] /\ idx[p] \notin DOMAIN msgSlot[c]
          /\ idx' = [idx EXCEPT ![p] = @ + 1]
          /\ UNCHANGED <<pc, msg>>
       \/ /\ idx[p] + 1 >= cnt[p]
          /\ Goto(p, "del-log") /\ UNCHANGED <<msg, idx>>
    /\ UNCHANGED <<chan, cnt, mutex, file, faults>>

\* The head of the loop: the slot is read, and skipped if it is absent.
DelChannelNext(p) ==
    LET c == chan[p] IN
    /\ pc[p] = "del-next"
    /\ \/ /\ idx[p] < cnt[p] /\ idx[p] \in DOMAIN msgSlot[c]
          /\ msg' = [msg EXCEPT ![p] = msgSlot[c][idx[p]]]
          /\ Goto(p, "del-record") /\ UNCHANGED idx
       \/ /\ idx[p] < cnt[p] /\ idx[p] \notin DOMAIN msgSlot[c]
          /\ idx' = [idx EXCEPT ![p] = @ + 1]
          /\ UNCHANGED <<pc, msg>>
       \/ /\ idx[p] >= cnt[p]
          /\ Goto(p, "del-log") /\ UNCHANGED <<msg, idx>>
    /\ UNCHANGED <<chan, cnt, mutex, file, faults>>

DelChannelRecord(p) ==
    /\ pc[p] = "del-record"
    /\ messages' = messages \ {msg[p]}
    /\ Goto(p, "del-slot")
    /\ UNCHANGED <<channels, index, msgSlot, msgCount, late, deleted, mutex,
                   chan, msg, idx, cnt, faults>>

DelChannelSlot(p) ==
    LET c == chan[p] IN
    /\ pc[p] = "del-slot"
    /\ msgSlot' = [msgSlot EXCEPT ![c] = Del(@, idx[p])]
    /\ idx' = [idx EXCEPT ![p] = @ + 1]
    /\ Goto(p, "del-next")
    /\ UNCHANGED <<channels, index, messages, msgCount, late, deleted, mutex,
                   chan, msg, cnt, faults>>

DelChannelLog(p) ==
    /\ pc[p] = "del-log"
    /\ msgCount' = [msgCount EXCEPT ![chan[p]] = 0]
    /\ Goto(p, "del-channel")
    /\ UNCHANGED <<channels, index, messages, msgSlot, late, deleted, mutex,
                   chan, msg, idx, cnt, faults>>

DelChannelEnd(p) ==
    /\ pc[p] = "del-channel"
    /\ channels' = channels \ {chan[p]}
    /\ Return(p) /\ Unlock(p)
    /\ UNCHANGED <<index, logs, deleted, faults>>

-----------------------------------------------------------------------------
(* How a log is read (handleChannelChatListen then handleChannelChatLoad,  *)
(* and the paging of the client): the count until it exceeds the index,    *)
(* the hash in the slot, the message with that hash, each under a shared   *)
(* lock of its own.                                                        *)

CallListen(p, c, i) ==
    /\ c \in channels
    /\ Call(p, "Listen", c, None, i)

\* Mutant: the count has only to reach the index.
ListenCountReached(p) ==
    /\ pc[p] = "Listen" /\ CanRLock
    /\ msgCount[chan[p]] >= idx[p]
    /\ Goto(p, "listen-slot")
    /\ UNCHANGED <<chan, msg, idx, cnt, mutex, file, faults>>

ListenCount(p) ==
    /\ pc[p] = "Listen" /\ CanRLock
    /\ msgCount[chan[p]] > idx[p]
    /\ Goto(p, "listen-slot")
    /\ UNCHANGED <<chan, msg, idx, cnt, mutex, file, faults>>

ListenTimeout(p) ==
    /\ pc[p] = "Listen"
    /\ Return(p)
    /\ UNCHANGED <<mutex, file, faults>>

\* GetChannelMessageHashByIndex : the count is read again, then the slot.
SlotReadable(c, i) == i < msgCount[c] /\ i \in DOMAIN msgSlot[c]

ListenSlot(p) ==
    LET c == chan[p] IN
    /\ pc[p] = "listen-slot" /\ CanRLock
    /\ IF SlotReadable(c, idx[p])
       THEN /\ msg' = [msg EXCEPT ![p] = msgSlot[c][idx[p]]]
            /\ Goto(p, "listen-load") /\ UNCHANGED <<chan, idx, cnt>>
       ELSE Return(p)                                       \* an error
    /\ UNCHANGED <<mutex, file, faults>>

\* GetMessage : the message, or ErrNotFound.
ListenLoad(p) ==
    /\ pc[p] = "listen-load" /\ CanRLock
    /\ Return(p)
    /\ UNCHANGED <<mutex, file, faults>>

-----------------------------------------------------------------------------
(* Faults: a write of the file fails, or the program stops and starts.     *)

WritingChannel == {"set-record", "set-slot", "set-count"}
WritingMessage == {"add-record", "add-slot", "add-count"}
Deleting == {"del-count", "del-next", "del-record", "del-slot", "del-log", "del-channel"}

\* The operation returns the error and leaves what it has already written.
WriteFails(p) ==
    /\ pc[p] \in WritingChannel \cup WritingMessage \cup {"del-channel"}
    /\ faults < MaxFaults /\ faults' = faults + 1
    /\ Return(p) /\ Unlock(p)
    /\ UNCHANGED file

\* DelChannel ignores the errors of the other deletions (_ = p.db.Del).
DeleteIgnored(p) ==
    /\ faults < MaxFaults /\ faults' = faults + 1
    /\ \/ pc[p] = "del-record" /\ Goto(p, "del-slot") /\ UNCHANGED idx
       \/ pc[p] = "del-slot" /\ Goto(p, "del-next") /\ idx' = [idx EXCEPT ![p] = @ + 1]
       \/ pc[p] = "del-log" /\ Goto(p, "del-channel") /\ UNCHANGED idx
    /\ UNCHANGED <<chan, msg, cnt, mutex, file>>

\* Only the file survives.
Crash ==
    /\ faults < MaxFaults /\ faults' = faults + 1
    /\ writer' = None /\ readers' = {}
    /\ pc' = [p \in Procs |-> "idle"]
    /\ chan' = [p \in Procs |-> None]
    /\ msg' = [p \in Procs |-> None]
    /\ idx' = [p \in Procs |-> 0]
    /\ cnt' = [p \in Procs |-> 0]
    /\ UNCHANGED file

-----------------------------------------------------------------------------
SetChannel(p) ==
    \/ \E c \in Channels : CallSetChannel(p, c)
    \/ SetChannelLock(p) \/ SetChannelRecord(p)
    \/ SetChannelSlot(p) \/ SetChannelCount(p)

AddChannelMessage(p) ==
    \/ \E m \in Messages : CallAddMessage(p, m)
    \/ AddMessageLock(p) \/ AddMessageRecord(p)
    \/ AddMessageSlot(p) \/ AddMessageCount(p)

DelChannel(p) ==
    \/ \E c \in Channels : CallDelChannel(p, c)
    \/ DelChannelLock(p) \/ DelChannelCount(p) \/ DelChannelNext(p)
    \/ DelChannelRecord(p) \/ DelChannelSlot(p)
    \/ DelChannelLog(p) \/ DelChannelEnd(p)

Listen(p) ==
    \/ \E c \in Channels : \E i \in 0..msgCount[c] : CallListen(p, c, i)
    \/ ListenCount(p) \/ ListenTimeout(p) \/ ListenSlot(p) \/ ListenLoad(p)

Next ==
    \/ \E p \in Procs :
          \/ SetChannel(p) \/ AddChannelMessage(p) \/ DelChannel(p) \/ Listen(p)
          \/ WriteFails(p) \/ DeleteIgnored(p)
    \/ \E c \in Channels : MarkDeleted(c)
    \/ Crash

Spec == Init /\ [][Next]_vars

-----------------------------------------------------------------------------
(* Properties.                                                             *)

\* Every variable has its type.  A namespace of the file is a function on the
\* indices that hold a value.
FileType ==
    /\ channels \subseteq Channels /\ messages \subseteq Messages
    /\ deleted \subseteq Channels /\ late \subseteq Messages
    /\ DOMAIN chanSlot = Clients /\ chanCount \in [Clients -> Nat]
    /\ \A u \in Clients : /\ DOMAIN chanSlot[u] \subseteq Nat
                          /\ \A i \in DOMAIN chanSlot[u] : chanSlot[u][i] \in Channels
    /\ DOMAIN msgSlot = Channels /\ msgCount \in [Channels -> Nat]
    /\ \A c \in Channels : /\ DOMAIN msgSlot[c] \subseteq Nat
                           /\ \A i \in DOMAIN msgSlot[c] : msgSlot[c][i] \in Messages

MemoryType ==
    /\ writer \in Procs \cup {None} /\ readers \subseteq Procs
    /\ pc \in [Procs -> {"idle", "SetChannel", "AddChannelMessage", "DelChannel",
                         "Listen", "listen-slot", "listen-load"}
                        \cup WritingChannel \cup WritingMessage \cup Deleting]
    /\ chan \in [Procs -> Channels \cup {None}]
    /\ msg \in [Procs -> Messages \cup {None}]
    /\ idx \in [Procs -> Nat] /\ cnt \in [Procs -> Nat]

TypeOK == FileType /\ MemoryType /\ faults \in 0..MaxFaults

\* The log of a channel that is not deleted has no holes and no repetitions,
\* whatever was interrupted and whoever wrote: every index below the count has
\* a slot, the slot names an existing message of this channel, and no two slots
\* name the same one (AddChannelMessage writes the count last).
LogSoundOf(c) ==
    /\ \A i \in 0..(msgCount[c] - 1) :
          /\ i \in DOMAIN msgSlot[c]
          /\ msgSlot[c][i] \in messages
          /\ ChanOf[msgSlot[c][i]] = c
    /\ \A i, j \in 0..(msgCount[c] - 1) : msgSlot[c][i] = msgSlot[c][j] => i = j

LogSound == \A c \in Channels \ deleted : LogSoundOf(c)

\* Every index below the count of a participant's list of channels names a
\* channel whose record exists, unless the user deleted it: the loop of
\* runChannelsListener over this list, which gives up at the first channel it
\* cannot load, never meets one.
ChannelIndexSound ==
    \A u \in Clients : \A i \in 0..(chanCount[u] - 1) :
        /\ i \in DOMAIN chanSlot[u]
        /\ chanSlot[u][i] \in channels \cup deleted
        /\ u \in Members(chanSlot[u][i])

\* A process that has seen a count above its index finds the slot and then the
\* message, though it gives up the lock in between, unless the channel is
\* deleted: the listen and load handlers of a server never answer 500 or 404.
ListenResolvesFor(p) ==
    chan[p] \notin deleted =>
        /\ pc[p] = "listen-slot" => SlotReadable(chan[p], idx[p])
        /\ pc[p] = "listen-load" => msg[p] \in messages

ListenResolves == \A p \in Procs : ListenResolvesFor(p)

InFlight(x) == \E p \in Procs :
    \/ pc[p] \in WritingMessage /\ msg[p] = x
    \/ pc[p] \in WritingChannel /\ chan[p] = x

\* A message or a channel that is stored but will never be listed: its retries
\* find the record and report success.
LostMessages == { m \in messages : /\ ChanOf[m] \notin deleted
                                   /\ m \notin Listed(ChanOf[m])
                                   /\ ~ InFlight(m) }
LostChannels == { c \in channels \ deleted :
                    /\ \E u \in Members(c) : c \notin Indexed(u)
                    /\ ~ InFlight(c) }

\* The only way to lose one is a fault between two of its writes, and one fault
\* loses at most one: what SetChannel or AddChannelMessage accepted without a
\* fault is listed when it returns.
OneLossPerFault == Cardinality(LostMessages) + Cardinality(LostChannels) <= faults

\* Once the record of a deleted channel is gone, the messages that remain in
\* the file are those of a process that had looked at the list of deleted
\* channels before the deletion and stored its message after it (they stay for
\* good), and at most one more for every fault: a deletion that a crash cuts
\* short is completed by the DelChannel of the next start.
Leftover == { m \in messages \ late : ChanOf[m] \in deleted \ channels }
DeletionComplete == Cardinality(Leftover) <= faults

\* The messages of the file as the log a channel promises to be.
logOf == [c \in Channels |->
            IF c \in deleted THEN <<>>
            ELSE [i \in 1..msgCount[c] |-> msgSlot[c][i - 1]]]

ML == INSTANCE MessageLog WITH log <- logOf, retired <- deleted

\* The key-value code implements MessageLog: a log grows by one new message at
\* its end, once, and changes in no other way until the channel is deleted,
\* whatever crashes, fails or is retried.
ImplementsMessageLog == ML!Spec
=============================================================================
