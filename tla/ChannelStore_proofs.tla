------------------------- MODULE ChannelStore_proofs -------------------------
(***************************************************************************)
(* Proofs about ChannelStore, in three parts.  The inductive invariant Inv *)
(* adds to the properties the discipline of the mutex and what each        *)
(* process knows of the file between two of its writes.  With it the steps *)
(* of the key-value code are those of MessageLog.  The last part bounds    *)
(* what faults can lose, by a record for each.                             *)
(***************************************************************************)
EXTENDS ChannelStore, TLAPS, SequenceTheorems, FiniteSetTheorems

Writing == WritingChannel \cup WritingMessage
OnChannel == {"SetChannel", "DelChannel", "Listen", "listen-slot", "listen-load"}
                \cup WritingChannel \cup Deleting
OnMessage == {"AddChannelMessage", "listen-load", "del-record", "del-slot"}
                \cup WritingMessage

\* A process writes alone, and deletes only among readers.
MutexInv ==
    /\ \A p \in Procs : pc[p] \in Writing => writer = p
    /\ \A p \in Procs : pc[p] \in Deleting => p \in readers
    /\ writer # None => readers = {}

\* The local variables of a process.
Local(p) ==
    /\ pc[p] \in OnChannel => chan[p] \in Channels
    /\ pc[p] \in OnMessage => msg[p] \in Messages
    /\ pc[p] \in {"SetChannel", "set-record"} => idx[p] = 1
    /\ pc[p] \in Deleting \cup {"DelChannel"} => chan[p] \in deleted
    /\ pc[p] \in {"del-record", "listen-load"} => ChanOf[msg[p]] = chan[p]

\* Between two writes of SetChannel.
Member(p) == EncList[chan[p]][idx[p]]

Setting(p) ==
    /\ pc[p] \in {"set-slot", "set-count"} =>
          chan[p] \in channels /\ idx[p] \in 1..Len(EncList[chan[p]])
    /\ pc[p] = "set-count" =>
          /\ cnt[p] = chanCount[Member(p)]
          /\ cnt[p] \in DOMAIN chanSlot[Member(p)]
          /\ chanSlot[Member(p)][cnt[p]] = chan[p]

\* Between two writes of AddChannelMessage.
Log(p) == ChanOf[msg[p]]

Adding(p) ==
    /\ pc[p] \in WritingMessage => cnt[p] = msgCount[Log(p)]
    /\ pc[p] = "add-record" => msg[p] \notin messages
    /\ pc[p] \in {"add-slot", "add-count"} =>
          /\ msg[p] \in messages
          /\ Log(p) \notin deleted =>
                \A i \in 0..(msgCount[Log(p)] - 1) : msgSlot[Log(p)][i] # msg[p]
    /\ pc[p] = "add-count" =>
          /\ cnt[p] \in DOMAIN msgSlot[Log(p)]
          /\ msgSlot[Log(p)][cnt[p]] = msg[p]

Knows(p) == Local(p) /\ Setting(p) /\ Adding(p) /\ ListenResolvesFor(p)

\* A slot of a channel, counted or not, names a message of that channel.
SlotInv == \A c \in Channels : \A i \in DOMAIN msgSlot[c] : ChanOf[msgSlot[c][i]] = c

Inv == /\ TypeOK /\ MutexInv /\ (\A p \in Procs : Knows(p))
       /\ SlotInv /\ LogSound /\ ChannelIndexSound

-----------------------------------------------------------------------------
USE ChanOfAssumption, DeletableAssumption, NoneAssumption, MaxFaultsAssumption
USE DEF Writing, WritingChannel, WritingMessage, Deleting, OnChannel, OnMessage

\* An empty file and idle processes satisfy the invariant.
LEMMA InitInv == Init => Inv
  <1> SUFFICES ASSUME Init PROVE Inv
    OBVIOUS
  <1> USE DEF Init
  <1>1. TypeOK
    BY DEF TypeOK, FileType, MemoryType
  <1>2. MutexInv
    BY DEF MutexInv
  <1>3. ASSUME NEW p \in Procs PROVE Knows(p)
    BY DEF Knows, Local, Setting, Adding, ListenResolvesFor
  <1>4. SlotInv /\ LogSound /\ ChannelIndexSound
    BY DEF SlotInv, LogSound, LogSoundOf, ChannelIndexSound
  <1> QED
    BY <1>1, <1>2, <1>3, <1>4 DEF Inv

\* The local variables of process q do not change.
Same(q) == /\ pc'[q] = pc[q] /\ chan'[q] = chan[q] /\ msg'[q] = msg[q]
           /\ idx'[q] = idx[q] /\ cnt'[q] = cnt[q]

\* A step of p that leaves the file alone.
LEMMA ControlStep ==
    ASSUME Inv, NEW p \in Procs, UNCHANGED file,
           MemoryType', faults' \in 0..MaxFaults, MutexInv', Knows(p)',
           \A q \in Procs \ {p} : Same(q)
    PROVE  Inv'
  <1> USE DEF Inv
  <1>1. UNCHANGED <<channels, chanSlot, chanCount, messages, msgSlot, msgCount, deleted, late>>
    BY DEF file, index, logs
  <1>2. TypeOK'
    BY <1>1 DEF TypeOK, FileType
  <1>3. ASSUME NEW q \in Procs \ {p} PROVE Knows(q)'
    <2>1. Knows(q) /\ Same(q)
      OBVIOUS
    <2>2. Local(q)' /\ ListenResolvesFor(q)'
      BY <1>1, <2>1 DEF Same, Knows, Local, ListenResolvesFor, SlotReadable
    <2>3. Setting(q)'
      <3>1. Member(q)' = Member(q)
        BY <2>1 DEF Same, Member
      <3> QED
        BY <1>1, <2>1, <3>1 DEF Same, Knows, Setting
    <2>4. Adding(q)'
      <3>1. Log(q)' = Log(q)
        BY <2>1 DEF Same, Log
      <3> QED
        BY <1>1, <2>1, <3>1 DEF Same, Knows, Adding
    <2> QED
      BY <2>2, <2>3, <2>4 DEF Knows
  <1>4. SlotInv' /\ LogSound' /\ ChannelIndexSound'
    BY <1>1 DEF SlotInv, LogSound, LogSoundOf, ChannelIndexSound
  <1> QED
    BY <1>2, <1>3, <1>4


\* A step of p that ends its operation and leaves the file alone.
LEMMA ReturnStep ==
    ASSUME Inv, NEW p \in Procs, Return(p), UNCHANGED file, faults' \in 0..MaxFaults,
           \/ UNCHANGED mutex /\ pc[p] \notin Writing \cup Deleting
           \/ Unlock(p)
    PROVE  Inv'
  <1>1. pc'[p] = "idle" /\ \A q \in Procs \ {p} : Same(q)
    BY DEF Return, Goto, Same, Inv, TypeOK, MemoryType
  <1>2. MemoryType'
    BY DEF Return, Goto, Unlock, mutex, Inv, TypeOK, MemoryType
  <1>3. MutexInv'
    BY <1>1 DEF Unlock, mutex, Inv, TypeOK, MemoryType, MutexInv, Same
  <1>4. Knows(p)'
    BY <1>1 DEF Knows, Local, Setting, Adding, ListenResolvesFor
  <1> QED
    BY <1>1, <1>2, <1>3, <1>4, ControlStep

Labels == {"idle", "SetChannel", "AddChannelMessage", "DelChannel", "Listen",
           "listen-slot", "listen-load"} \cup Writing \cup Deleting

\* A step of p to another label, with or without taking a lock, that leaves the
\* file alone.
LEMMA GotoStep ==
    ASSUME Inv, NEW p \in Procs, NEW label \in Labels, Goto(p, label),
           UNCHANGED file, faults' \in 0..MaxFaults, 
           chan' \in [Procs -> Channels \cup {None}], msg' \in [Procs -> Messages \cup {None}],
           idx' \in [Procs -> Nat], cnt' \in [Procs -> Nat],
           \A q \in Procs \ {p} : chan'[q] = chan[q] /\ msg'[q] = msg[q] /\ idx'[q] = idx[q] /\ cnt'[q] = cnt[q],
           \/ UNCHANGED mutex /\ (label \in Writing => pc[p] \in Writing) /\ (label \in Deleting => pc[p] \in Deleting) 
           \/ CanLock /\ Lock(p) /\ label \notin Deleting
           \/ CanRLock /\ RLock(p) /\ label \notin Writing,
           Knows(p)'
    PROVE  Inv'
  <1>1. pc'[p] = label /\ \A q \in Procs \ {p} : Same(q)
    BY DEF Goto, Same, Inv, TypeOK, MemoryType
  <1>2. MemoryType'
    BY DEF Goto, Lock, RLock, mutex, Inv, TypeOK, MemoryType, Labels
  <1>3. MutexInv'
    <2>1. MutexInv /\ p # None
      BY DEF Inv
    <2>2. CASE UNCHANGED mutex /\ (label \in Writing => pc[p] \in Writing) /\ (label \in Deleting => pc[p] \in Deleting)
      BY <1>1, <2>1, <2>2 DEF mutex, MutexInv, Same
    <2>3. CASE CanLock /\ Lock(p) /\ label \notin Deleting
      BY <1>1, <2>1, <2>3 DEF CanLock, Lock, MutexInv, Same
    <2>4. CASE CanRLock /\ RLock(p) /\ label \notin Writing
      BY <1>1, <2>1, <2>4 DEF CanRLock, RLock, MutexInv, Same
    <2> QED
      BY <2>2, <2>3, <2>4
  <1> QED
    BY <1>1, <1>2, <1>3, ControlStep

\* SetChannel looks whether the record exists, under the exclusive lock.
LEMMA SetChannelLockStep == ASSUME Inv, NEW p \in Procs, SetChannelLock(p) PROVE Inv'
  <1>1. CASE chan[p] \in channels
    BY <1>1, ReturnStep DEF SetChannelLock, Inv, TypeOK
  <1>2. CASE chan[p] \notin channels
    <2>1. /\ pc[p] = "SetChannel" /\ CanLock /\ Lock(p) /\ Goto(p, "set-record")
          /\ UNCHANGED file /\ UNCHANGED <<chan, msg, idx, cnt, faults>>
      BY <1>2 DEF SetChannelLock
    <2>2. Knows(p)'
      BY <2>1 DEF Goto, Inv, TypeOK, MemoryType, Knows, Local, Setting, Adding, ListenResolvesFor, file, index, logs
    <2> QED
      BY <2>1, <2>2, GotoStep DEF Labels, Inv, TypeOK, MemoryType
  <1> QED
    BY <1>1, <1>2

\* AddChannelMessage looks whether the record exists and reads the count.
LEMMA AddMessageLockStep == ASSUME Inv, NEW p \in Procs, AddMessageLock(p) PROVE Inv'
  <1>1. CASE msg[p] \in messages
    BY <1>1, ReturnStep DEF AddMessageLock, Inv, TypeOK
  <1>2. CASE msg[p] \notin messages
    <2>1. /\ pc[p] = "AddChannelMessage" /\ CanLock /\ Lock(p) /\ Goto(p, "add-record")
          /\ cnt' = [cnt EXCEPT ![p] = msgCount[Log(p)]]
          /\ UNCHANGED file /\ UNCHANGED <<chan, msg, idx, faults>>
      BY <1>2 DEF AddMessageLock, Log
    <2>2. Log(p) \in Channels /\ msgCount[Log(p)] \in Nat /\ msg[p] \in Messages
      BY <2>1 DEF Inv, TypeOK, FileType, Knows, Local, Log
    <2>3. Knows(p)'
      <3>1. Log(p)' = Log(p)
        BY <2>1 DEF Log
      <3> QED
        BY <1>2, <2>1, <2>2, <3>1 DEF Goto, Inv, TypeOK, MemoryType, Knows, Local, Setting,
           Adding, ListenResolvesFor, file, index, logs
    <2> QED
      BY <2>1, <2>2, <2>3, GotoStep DEF Labels, Inv, TypeOK, MemoryType
  <1> QED
    BY <1>1, <1>2

\* DelChannel takes the shared lock, or finds no record.
LEMMA DelChannelLockStep == ASSUME Inv, NEW p \in Procs, DelChannelLock(p) PROVE Inv'
  <1>1. CASE chan[p] \notin channels
    BY <1>1, ReturnStep DEF DelChannelLock, Inv, TypeOK
  <1>2. CASE chan[p] \in channels
    <2>1. /\ pc[p] = "DelChannel" /\ CanRLock /\ RLock(p) /\ Goto(p, "del-count")
          /\ UNCHANGED file /\ UNCHANGED <<chan, msg, idx, cnt, faults>>
      BY <1>2 DEF DelChannelLock
    <2>2. Knows(p)'
      BY <2>1 DEF Goto, Inv, TypeOK, MemoryType, Knows, Local, Setting, Adding,
         ListenResolvesFor, file, index, logs
    <2> QED
      BY <2>1, <2>2, GotoStep DEF Labels, Inv, TypeOK, MemoryType
  <1> QED
    BY <1>1, <1>2

\* DelChannel reads the count of messages.
LEMMA DelChannelCountStep == ASSUME Inv, NEW p \in Procs, DelChannelCount(p) PROVE Inv'
  <1>1. /\ pc[p] = "del-count" /\ Goto(p, "del-next")
        /\ cnt' = [cnt EXCEPT ![p] = msgCount[chan[p]]]
        /\ UNCHANGED file /\ UNCHANGED mutex /\ UNCHANGED <<chan, msg, idx, faults>>
    BY DEF DelChannelCount
  <1>2. chan[p] \in Channels /\ msgCount[chan[p]] \in Nat
    BY <1>1 DEF Inv, TypeOK, FileType, Knows, Local
  <1>3. Knows(p)'
    BY <1>1, <1>2 DEF Goto, Inv, TypeOK, MemoryType, Knows, Local, Setting, Adding,
       ListenResolvesFor, file, index, logs
  <1> QED
    BY <1>1, <1>2, <1>3, GotoStep DEF Labels, Inv, TypeOK, MemoryType

\* The head of the loop of DelChannel.
LEMMA DelChannelNextStep == ASSUME Inv, NEW p \in Procs, DelChannelNext(p) PROVE Inv'
  <1>0. /\ pc[p] = "del-next" /\ chan[p] \in Channels /\ chan[p] \in deleted
        /\ UNCHANGED file /\ UNCHANGED mutex /\ UNCHANGED <<chan, cnt, faults>>
    BY DEF DelChannelNext, Inv, Knows, Local
  <1>1. CASE /\ idx[p] \in DOMAIN msgSlot[chan[p]] /\ Goto(p, "del-record") /\ UNCHANGED idx
             /\ msg' = [msg EXCEPT ![p] = msgSlot[chan[p]][idx[p]]]
    <2>1. /\ msgSlot[chan[p]][idx[p]] \in Messages
          /\ ChanOf[msgSlot[chan[p]][idx[p]]] = chan[p]
      BY <1>0, <1>1 DEF Inv, TypeOK, FileType, SlotInv
    <2>2. Knows(p)'
      BY <1>0, <1>1, <2>1 DEF Goto, Inv, TypeOK, MemoryType, Knows, Local, Setting, Adding,
         ListenResolvesFor, file, index, logs
    <2> QED
      BY <1>0, <1>1, <2>1, <2>2, GotoStep DEF Labels, Inv, TypeOK, MemoryType
  <1>2. CASE idx' = [idx EXCEPT ![p] = @ + 1] /\ UNCHANGED <<pc, msg>>
    <2>1. Goto(p, "del-next")
      BY <1>0, <1>2 DEF Goto, Inv, TypeOK, MemoryType
    <2>2. Knows(p)'
      BY <1>0, <1>2 DEF Inv, TypeOK, MemoryType, Knows, Local, Setting, Adding,
         ListenResolvesFor, file, index, logs
    <2>0. pc \in [Procs -> Labels] /\ idx \in [Procs -> Nat]
      BY DEF Labels, Inv, TypeOK, MemoryType
    <2>5. idx' \in [Procs -> Nat]
      BY <1>2, <2>0
    <2>3. /\ idx' \in [Procs -> Nat] /\ msg' \in [Procs -> Messages \cup {None}]
          /\ chan' \in [Procs -> Channels \cup {None}] /\ cnt' \in [Procs -> Nat]
          /\ faults' \in 0..MaxFaults
      BY <1>0, <1>2, <2>5 DEF Inv, TypeOK, MemoryType
    <2>4. \A q \in Procs \ {p} :
             chan'[q] = chan[q] /\ msg'[q] = msg[q] /\ idx'[q] = idx[q] /\ cnt'[q] = cnt[q]
      BY <1>0, <1>2 DEF Inv, TypeOK, MemoryType
    <2> QED
      BY <1>0, <2>1, <2>2, <2>3, <2>4, GotoStep DEF Labels
  <1>3. CASE Goto(p, "del-log") /\ UNCHANGED <<msg, idx>>
    <2>1. Knows(p)'
      BY <1>0, <1>3 DEF Goto, Inv, TypeOK, MemoryType, Knows, Local, Setting, Adding,
         ListenResolvesFor, file, index, logs
    <2> QED
      BY <1>0, <1>3, <2>1, GotoStep DEF Labels, Inv, TypeOK, MemoryType
  <1> QED
    BY <1>1, <1>2, <1>3 DEF DelChannelNext

\* A read of a log. The index was below the count when the count was read, and
\* the log of a channel in use only grows, so the slot is there.
LEMMA ListenStep == ASSUME Inv, NEW p \in Procs,
                           ListenCount(p) \/ ListenTimeout(p) \/ ListenSlot(p) \/ ListenLoad(p)
                    PROVE  Inv'
  <1>1. CASE ListenCount(p)
    <2>1. /\ pc[p] = "Listen" /\ Goto(p, "listen-slot") /\ msgCount[chan[p]] > idx[p]
          /\ UNCHANGED file /\ UNCHANGED mutex /\ UNCHANGED <<chan, msg, idx, cnt, faults>>
      BY <1>1 DEF ListenCount
    <2>2. chan[p] \in Channels /\ idx[p] \in Nat /\ msgCount[chan[p]] \in Nat
      BY <2>1 DEF Inv, TypeOK, FileType, MemoryType, Knows, Local
    <2>3. chan[p] \notin deleted => SlotReadable(chan[p], idx[p])
      <3>0. idx[p] < msgCount[chan[p]]
        BY <2>1, <2>2
      <3>1. idx[p] \in 0..(msgCount[chan[p]] - 1)
        BY <3>0, <2>2
      <3>2. chan[p] \notin deleted => LogSoundOf(chan[p])
        BY <2>2 DEF Inv, LogSound
      <3> QED
        BY <2>1, <2>2, <3>1, <3>2 DEF LogSoundOf, SlotReadable
    <2>4. Knows(p)'
      BY <2>1, <2>2, <2>3 DEF Goto, Inv, TypeOK, MemoryType, Knows, Local, Setting, Adding,
         ListenResolvesFor, SlotReadable, file, index, logs
    <2> QED
      BY <2>1, <2>4, GotoStep DEF Labels, Inv, TypeOK, MemoryType
  <1>2. CASE ListenTimeout(p) \/ ListenLoad(p)
    BY <1>2, ReturnStep DEF ListenTimeout, ListenLoad, Inv, TypeOK
  <1>3. CASE ListenSlot(p)
    <2>0. /\ pc[p] = "listen-slot" /\ UNCHANGED file /\ UNCHANGED mutex /\ UNCHANGED faults
      BY <1>3 DEF ListenSlot
    <2>1. CASE ~ SlotReadable(chan[p], idx[p])
      BY <1>3, <2>0, <2>1, ReturnStep DEF ListenSlot, Inv, TypeOK
    <2>2. CASE SlotReadable(chan[p], idx[p])
      <3>1. /\ Goto(p, "listen-load") /\ UNCHANGED <<chan, idx, cnt>>
            /\ msg' = [msg EXCEPT ![p] = msgSlot[chan[p]][idx[p]]]
        BY <1>3, <2>2 DEF ListenSlot
      <3>2. /\ chan[p] \in Channels /\ idx[p] \in Nat
            /\ msgSlot[chan[p]][idx[p]] \in Messages
            /\ ChanOf[msgSlot[chan[p]][idx[p]]] = chan[p]
        BY <2>0, <2>2 DEF Inv, TypeOK, FileType, MemoryType, Knows, Local, SlotReadable, SlotInv
      <3>3. chan[p] \notin deleted => msgSlot[chan[p]][idx[p]] \in messages
        BY <2>2, <3>2 DEF Inv, TypeOK, FileType, LogSound, LogSoundOf, SlotReadable
      <3>4. Knows(p)'
        BY <2>0, <3>1, <3>2, <3>3 DEF Goto, Inv, TypeOK, MemoryType, Knows, Local, Setting,
           Adding, ListenResolvesFor, file, index, logs
      <3> QED
        BY <2>0, <3>1, <3>2, <3>4, GotoStep DEF Labels, Inv, TypeOK, MemoryType
    <2> QED
      BY <2>1, <2>2
  <1> QED
    BY <1>1, <1>2, <1>3

\* A call: what its guard has read may be out of date afterwards, and nothing of
\* it is kept but that a deleted channel stays deleted.
LEMMA CallStep ==
    ASSUME Inv, NEW p \in Procs, NEW c \in Channels \cup {None}, NEW m \in Messages \cup {None},
           NEW i \in Nat, NEW label \in {"SetChannel", "AddChannelMessage", "DelChannel", "Listen"},
           Call(p, label, c, m, i),
           label \in OnChannel => c \in Channels,
           label \in OnMessage => m \in Messages,
           label = "SetChannel" => i = 1,
           label = "DelChannel" => c \in deleted
    PROVE  Inv'
  <1>1. /\ Goto(p, label) /\ UNCHANGED file /\ UNCHANGED mutex /\ UNCHANGED <<cnt, faults>>
        /\ chan' = [chan EXCEPT ![p] = c] /\ msg' = [msg EXCEPT ![p] = m]
        /\ idx' = [idx EXCEPT ![p] = i]
    BY DEF Call
  <1>2. Knows(p)'
    BY <1>1 DEF Goto, Inv, TypeOK, MemoryType, Knows, Local, Setting, Adding,
       ListenResolvesFor, file, index, logs
  <1>3. /\ idx' \in [Procs -> Nat] /\ msg' \in [Procs -> Messages \cup {None}]
        /\ chan' \in [Procs -> Channels \cup {None}] /\ cnt' \in [Procs -> Nat]
        /\ faults' \in 0..MaxFaults
    BY <1>1 DEF Inv, TypeOK, MemoryType
  <1>4. \A q \in Procs \ {p} :
           chan'[q] = chan[q] /\ msg'[q] = msg[q] /\ idx'[q] = idx[q] /\ cnt'[q] = cnt[q]
    BY <1>1 DEF Inv, TypeOK, MemoryType
  <1> QED
    BY <1>1, <1>2, <1>3, <1>4, GotoStep DEF Labels

\* The calls of the four operations.
LEMMA CallSteps ==
    ASSUME Inv, NEW p \in Procs,
           \/ \E c \in Channels : CallSetChannel(p, c) \/ CallDelChannel(p, c)
           \/ \E c \in Channels : \E i \in 0..msgCount[c] : CallListen(p, c, i)
           \/ \E m \in Messages : CallAddMessage(p, m)
    PROVE  Inv'
  <1>1. ASSUME NEW c \in Channels, CallSetChannel(p, c) PROVE Inv'
    BY <1>1, CallStep DEF CallSetChannel
  <1>2. ASSUME NEW c \in Channels, CallDelChannel(p, c) PROVE Inv'
    BY <1>2, CallStep DEF CallDelChannel
  <1>3. ASSUME NEW c \in Channels, NEW i \in 0..msgCount[c], CallListen(p, c, i) PROVE Inv'
    <2>1. msgCount[c] \in Nat
      BY DEF Inv, TypeOK, FileType
    <2>2. i \in Nat
      BY <2>1
    <2> QED
      BY <1>3, <2>2, CallStep DEF CallListen
  <1>4. ASSUME NEW m \in Messages, CallAddMessage(p, m) PROVE Inv'
    BY <1>4, CallStep DEF CallAddMessage
  <1> QED
    BY <1>1, <1>2, <1>3, <1>4

\* A failed write ends the operation; what it has already written stays.
LEMMA WriteFailsStep == ASSUME Inv, NEW p \in Procs, WriteFails(p) PROVE Inv'
  <1>1. faults < MaxFaults /\ faults' = faults + 1 /\ Return(p) /\ Unlock(p) /\ UNCHANGED file
    BY DEF WriteFails
  <1>2. faults \in 0..MaxFaults
    BY DEF Inv, TypeOK
  <1>3. faults' \in 0..MaxFaults
    BY <1>1, <1>2
  <1> QED
    BY <1>1, <1>3, ReturnStep

\* The number of faults stays within its bound.
LEMMA FaultStep ==
    ASSUME faults \in 0..MaxFaults, faults < MaxFaults, faults' = faults + 1
    PROVE  faults' \in 0..MaxFaults
  OBVIOUS

\* Incrementing the loop variable of p changes no other.
LEMMA IncrementStep ==
    ASSUME idx \in [Procs -> Nat], NEW p \in Procs, idx' = [idx EXCEPT ![p] = @ + 1]
    PROVE  idx' \in [Procs -> Nat] /\ \A q \in Procs \ {p} : idx'[q] = idx[q]
  OBVIOUS

\* A deletion that failed and whose error is ignored.
LEMMA DeleteIgnoredStep == ASSUME Inv, NEW p \in Procs, DeleteIgnored(p) PROVE Inv'
  <1>1. /\ UNCHANGED file /\ UNCHANGED mutex /\ UNCHANGED <<chan, msg, cnt>>
        /\ pc[p] \in {"del-record", "del-slot", "del-log"}
    BY DEF DeleteIgnored
  <1>2. PICK label \in {"del-slot", "del-next", "del-channel"} :
           /\ Goto(p, label)
           /\ label = "del-slot" => pc[p] = "del-record"
           /\ UNCHANGED idx \/ idx' = [idx EXCEPT ![p] = @ + 1]
    BY DEF DeleteIgnored
  <1>3. faults' \in 0..MaxFaults
    <2>1. faults \in 0..MaxFaults
      BY DEF Inv, TypeOK
    <2>2. faults < MaxFaults /\ faults' = faults + 1
      BY DEF DeleteIgnored
    <2> QED
      BY <2>1, <2>2, FaultStep
  <1>4. pc \in [Procs -> Labels] /\ idx \in [Procs -> Nat]
    BY DEF Labels, Inv, TypeOK, MemoryType
  <1>5. idx' \in [Procs -> Nat] /\ \A q \in Procs \ {p} : idx'[q] = idx[q]
    BY <1>2, <1>4, IncrementStep
  <1>6. pc'[p] = label
    BY <1>2, <1>4 DEF Goto
  <1>7. /\ msg' \in [Procs -> Messages \cup {None}]
        /\ chan' \in [Procs -> Channels \cup {None}] /\ cnt' \in [Procs -> Nat]
    BY <1>1 DEF Inv, TypeOK, MemoryType
  <1>8. \A q \in Procs \ {p} :
           chan'[q] = chan[q] /\ msg'[q] = msg[q] /\ idx'[q] = idx[q] /\ cnt'[q] = cnt[q]
    BY <1>1, <1>5
  <1>9. Knows(p)'
    BY <1>1, <1>2, <1>6 DEF Inv, Knows, Local, Setting, Adding, ListenResolvesFor,
       file, index, logs
  <1>10. label \in Labels /\ label \in Deleting /\ label \notin Writing /\ pc[p] \in Deleting
    BY <1>1 DEF Labels
  <1> QED
    BY <1>1, <1>2, <1>3, <1>5, <1>7, <1>8, <1>9, <1>10, GotoStep

\* After a crash every process is idle, so all it knew is void; the file is the
\* one of before, for which the rest of the invariant holds between any two writes.
LEMMA CrashStep == ASSUME Inv, Crash PROVE Inv'
  <1>1. /\ UNCHANGED <<channels, chanSlot, chanCount, messages, msgSlot, msgCount, deleted, late>>
        /\ faults < MaxFaults /\ faults' = faults + 1
        /\ \A q \in Procs : pc'[q] = "idle"
    BY DEF Crash, file, index, logs
  <1>2. TypeOK'
    <2>1. FileType'
      BY <1>1 DEF Inv, TypeOK, FileType
    <2>2. MemoryType'
      BY DEF Crash, MemoryType
    <2>3. faults \in 0..MaxFaults
      BY DEF Inv, TypeOK
    <2>4. faults' \in 0..MaxFaults
      BY <1>1, <2>3
    <2> QED
      BY <2>1, <2>2, <2>4 DEF TypeOK
  <1>3. MutexInv'
    BY <1>1 DEF Crash, MutexInv
  <1>4. ASSUME NEW q \in Procs PROVE Knows(q)'
    BY <1>1 DEF Knows, Local, Setting, Adding, ListenResolvesFor
  <1>5. SlotInv' /\ LogSound' /\ ChannelIndexSound'
    BY <1>1 DEF Inv, SlotInv, LogSound, LogSoundOf, ChannelIndexSound
  <1> QED
    BY <1>2, <1>3, <1>4, <1>5 DEF Inv

\* A channel in the list of deleted channels is held to less.
LEMMA MarkDeletedStep == ASSUME Inv, NEW c \in Channels, MarkDeleted(c) PROVE Inv'
  <1>1. /\ UNCHANGED <<channels, chanSlot, chanCount, messages, msgSlot, msgCount, late>>
        /\ UNCHANGED <<writer, readers, pc, chan, msg, idx, cnt, faults>>
        /\ deleted' = deleted \cup {c}
    BY DEF MarkDeleted, index, logs, mutex, local
  <1>2. TypeOK' /\ MutexInv'
    BY <1>1 DEF Inv, TypeOK, FileType, MemoryType, MutexInv
  <1>3. ASSUME NEW q \in Procs PROVE Knows(q)'
    <2>1. Member(q)' = Member(q) /\ Log(q)' = Log(q)
      BY <1>1 DEF Member, Log
    <2>2. Local(q)' /\ ListenResolvesFor(q)'
      BY <1>1 DEF Inv, Knows, Local, ListenResolvesFor, SlotReadable
    <2>3. Setting(q)'
      BY <1>1, <2>1 DEF Inv, Knows, Setting
    <2>4. Adding(q)'
      BY <1>1, <2>1 DEF Inv, Knows, Adding
    <2> QED
      BY <2>2, <2>3, <2>4 DEF Knows
  <1>4. SlotInv' /\ LogSound' /\ ChannelIndexSound'
    BY <1>1 DEF Inv, SlotInv, LogSound, LogSoundOf, ChannelIndexSound
  <1> QED
    BY <1>2, <1>3, <1>4 DEF Inv

\* Nobody else is inside a critical section together with a writer, and no writer
\* together with a deletion.
LEMMA Exclusive ==
    ASSUME Inv, NEW p \in Procs, pc[p] \in Writing \cup Deleting, NEW q \in Procs \ {p}
    PROVE  /\ pc[q] \notin Writing
           /\ pc[p] \in Writing => pc[q] \notin Deleting
  BY DEF Inv, MutexInv

\* A step of p, inside its critical section, that writes the file.
LEMMA FileStep ==
    ASSUME Inv, NEW p \in Procs, pc[p] \in Writing \cup Deleting,
           \A q \in Procs \ {p} : Same(q),
           deleted' = deleted, FileType', MemoryType', faults' \in 0..MaxFaults,
           \/ /\ UNCHANGED mutex
              /\ pc'[p] \in Writing => pc[p] \in Writing
              /\ pc'[p] \in Deleting => pc[p] \in Deleting
           \/ Unlock(p) /\ pc'[p] = "idle",
           Knows(p)', SlotInv', LogSound', ChannelIndexSound',
           \A c \in Channels \ deleted : \A i \in Nat : SlotReadable(c, i) => SlotReadable(c, i)',
           \A m \in messages : ChanOf[m] \notin deleted => m \in messages'
    PROVE  Inv'
  <1>1. TypeOK'
    BY DEF TypeOK
  <1>2. MutexInv'
    BY DEF Unlock, mutex, Inv, MutexInv, Same
  <1>3. ASSUME NEW q \in Procs \ {p} PROVE Knows(q)'
    <2>1. Knows(q) /\ Same(q)
      BY DEF Inv
    <2>2. pc'[q] \notin Writing
      BY <2>1, Exclusive DEF Same
    <2>3. Setting(q)' /\ Adding(q)'
      BY <2>2 DEF Setting, Adding
    <2>4. Local(q)'
      BY <2>1 DEF Knows, Local, Same
    <2>5. ListenResolvesFor(q)'
      <3>1. ASSUME chan[q] \notin deleted, pc[q] = "listen-slot" PROVE SlotReadable(chan[q], idx[q])'
        <4>1. chan[q] \in Channels \ deleted /\ idx[q] \in Nat /\ SlotReadable(chan[q], idx[q])
          BY <2>1, <3>1 DEF Knows, Local, ListenResolvesFor, Inv, TypeOK, MemoryType
        <4>2. chan'[q] = chan[q] /\ idx'[q] = idx[q]
          BY <2>1 DEF Same
        <4> QED
          BY <4>1, <4>2 DEF SlotReadable
      <3>2. ASSUME chan[q] \notin deleted, pc[q] = "listen-load" PROVE msg[q] \in messages'
        BY <2>1, <3>2 DEF Knows, Local, ListenResolvesFor
      <3> QED
        BY <2>1, <3>1, <3>2 DEF ListenResolvesFor, Same
    <2> QED
      BY <2>3, <2>4, <2>5 DEF Knows
  <1> QED
    BY <1>1, <1>2, <1>3 DEF Inv

\* A step that changes no slot and no count, and removes no message.
LEMMA LogFrame ==
    ASSUME Inv, UNCHANGED <<msgSlot, msgCount, deleted>>, messages \subseteq messages'
    PROVE  SlotInv' /\ LogSound'
  <1>1. SlotInv'
    BY DEF Inv, SlotInv
  <1>2. ASSUME NEW c \in Channels \ deleted PROVE LogSoundOf(c)'
    <2>1. LogSoundOf(c)
      BY DEF Inv, LogSound
    <2> QED
      BY <2>1 DEF LogSoundOf
  <1> QED
    BY <1>1, <1>2 DEF LogSound

\* A step that leaves the lists of channels alone and removes only deleted channels.
LEMMA IndexFrame ==
    ASSUME Inv, UNCHANGED <<chanSlot, chanCount, deleted>>, channels \ deleted \subseteq channels'
    PROVE  ChannelIndexSound'
  BY DEF Inv, ChannelIndexSound, Members

\* What a step of p does to its control, when it goes on to another write.
Continues(p, label) ==
    /\ Goto(p, label) /\ UNCHANGED mutex /\ UNCHANGED faults
    /\ pc[p] \in Writing <=> label \in Writing
    /\ pc[p] \in Deleting <=> label \in Deleting

\* ... or ends its operation.
Ends(p) == Return(p) /\ Unlock(p) /\ UNCHANGED faults

\* The control part of a write that is followed by another.
LEMMA ContinuesStep ==
    ASSUME Inv, NEW p \in Procs, NEW label \in Labels, Continues(p, label),
           chan' \in [Procs -> Channels \cup {None}], msg' \in [Procs -> Messages \cup {None}],
           idx' \in [Procs -> Nat], cnt' \in [Procs -> Nat],
           \A q \in Procs \ {p} : chan'[q] = chan[q] /\ msg'[q] = msg[q] /\ idx'[q] = idx[q] /\ cnt'[q] = cnt[q]
    PROVE  /\ pc'[p] = label /\ MemoryType' /\ faults' \in 0..MaxFaults
           /\ \A q \in Procs \ {p} : Same(q)
  <1>1. pc'[p] = label /\ \A q \in Procs \ {p} : Same(q)
    BY DEF Continues, Goto, Same, Inv, TypeOK, MemoryType
  <1>2. MemoryType' /\ faults' \in 0..MaxFaults
    BY DEF Continues, Goto, mutex, Inv, TypeOK, MemoryType, Labels
  <1> QED
    BY <1>1, <1>2

\* The control part of the last write of an operation.
LEMMA EndsStep ==
    ASSUME Inv, NEW p \in Procs, Ends(p)
    PROVE  /\ pc'[p] = "idle" /\ MemoryType' /\ faults' \in 0..MaxFaults
           /\ (\A q \in Procs \ {p} : Same(q)) /\ Knows(p)'
  <1>1. pc'[p] = "idle" /\ \A q \in Procs \ {p} : Same(q)
    BY DEF Ends, Return, Goto, Same, Inv, TypeOK, MemoryType
  <1>2. MemoryType' /\ faults' \in 0..MaxFaults
    BY DEF Ends, Return, Goto, Unlock, Inv, TypeOK, MemoryType
  <1>3. Knows(p)'
    BY <1>1 DEF Knows, Local, Setting, Adding, ListenResolvesFor
  <1> QED
    BY <1>1, <1>2, <1>3

\* SetChannel writes the record.
LEMMA SetChannelRecordStep == ASSUME Inv, NEW p \in Procs, SetChannelRecord(p) PROVE Inv'
  <1>1. /\ pc[p] = "set-record" /\ channels' = channels \cup {chan[p]}
        /\ UNCHANGED <<chanSlot, chanCount, messages, msgSlot, msgCount, late, deleted>>
    BY DEF SetChannelRecord, index, logs
  <1>2. chan[p] \in Channels /\ idx[p] = 1
    BY <1>1 DEF Inv, Knows, Local
  <1>3. FileType' /\ SlotInv' /\ LogSound' /\ ChannelIndexSound'
    <2>1. FileType'
      BY <1>1, <1>2 DEF Inv, TypeOK, FileType
    <2> QED
      BY <1>1, <2>1, LogFrame, IndexFrame
  <1>4. \A c \in Channels \ deleted : \A i \in Nat : SlotReadable(c, i) => SlotReadable(c, i)'
    BY <1>1 DEF SlotReadable
  <1>5. CASE EncList[chan[p]] = <<>>
    BY <1>1, <1>3, <1>4, <1>5, EndsStep, FileStep DEF SetChannelRecord, Ends
  <1>6. CASE EncList[chan[p]] # <<>>
    <2>1. Continues(p, "set-slot") /\ UNCHANGED <<chan, msg, idx, cnt>>
      BY <1>1, <1>6 DEF SetChannelRecord, Continues
    <2>2. /\ pc'[p] = "set-slot" /\ MemoryType' /\ faults' \in 0..MaxFaults
          /\ \A q \in Procs \ {p} : Same(q)
      BY <2>1, ContinuesStep DEF Inv, TypeOK, MemoryType, Labels
    <2>3. idx[p] \in 1..Len(EncList[chan[p]])
      <3>1. EncList[chan[p]] \in Seq(Clients)
        BY <1>2, EncListAssumption
      <3>2. Len(EncList[chan[p]]) \in Nat /\ Len(EncList[chan[p]]) # 0
        BY <3>1, <1>6
      <3> QED
        BY <3>2, <1>2
    <2>4. Knows(p)'
      BY <1>1, <1>2, <2>1, <2>2, <2>3 DEF Knows, Local, Setting, Adding, ListenResolvesFor
    <2>5. UNCHANGED mutex
      BY <2>1 DEF Continues
    <2> QED
      BY <1>1, <1>3, <1>4, <2>2, <2>4, <2>5, FileStep
  <1> QED
    BY <1>5, <1>6

\* SetChannel writes the slot at the count of a participant: no slot below the
\* count changes.
LEMMA SetChannelSlotStep == ASSUME Inv, NEW p \in Procs, SetChannelSlot(p) PROVE Inv'
  <1> DEFINE u == Member(p)
             n == chanCount[u]
  <1>1. /\ pc[p] = "set-slot" /\ cnt' = [cnt EXCEPT ![p] = n]
        /\ chanSlot' = [chanSlot EXCEPT ![u] = Set(@, n, chan[p])]
        /\ Continues(p, "set-count")
        /\ UNCHANGED <<channels, chanCount, messages, msgSlot, msgCount, late, deleted>>
        /\ UNCHANGED <<chan, msg, idx>>
    BY DEF SetChannelSlot, Continues, Member, logs
  <1>2. /\ chan[p] \in channels /\ chan[p] \in Channels
        /\ idx[p] \in 1..Len(EncList[chan[p]])
    BY <1>1 DEF Inv, Knows, Local, Setting
  <1>3. u \in Clients /\ u \in Members(chan[p])
    <2>1. EncList[chan[p]] \in Seq(Clients)
      BY <1>2, EncListAssumption
    <2> QED
      BY <2>1, <1>2 DEF Member, Members
  <1>4. n \in Nat
    BY <1>3 DEF Inv, TypeOK, FileType
  <1>5. /\ DOMAIN chanSlot' = Clients
        /\ \A v \in Clients \ {u} : chanSlot'[v] = chanSlot[v]
        /\ chanSlot'[u] = Set(chanSlot[u], n, chan[p])
    BY <1>1, <1>3 DEF Inv, TypeOK, FileType
  <1>6. /\ DOMAIN chanSlot'[u] = DOMAIN chanSlot[u] \cup {n}
        /\ chanSlot'[u][n] = chan[p]
        /\ \A i \in DOMAIN chanSlot[u] \ {n} : chanSlot'[u][i] = chanSlot[u][i]
    BY <1>5 DEF Set
  <1> HIDE DEF u, n
  <1>7. FileType'
    <2>1. \A v \in Clients : /\ DOMAIN chanSlot'[v] \subseteq Nat
                             /\ \A i \in DOMAIN chanSlot'[v] : chanSlot'[v][i] \in Channels
      BY <1>2, <1>4, <1>5, <1>6 DEF Inv, TypeOK, FileType
    <2> QED
      BY <1>1, <1>5, <2>1 DEF Inv, TypeOK, FileType
  <1>8. SlotInv' /\ LogSound'
    BY <1>1, LogFrame
  <1>9. ChannelIndexSound'
    <2> SUFFICES ASSUME NEW v \in Clients, NEW i \in 0..(chanCount[v] - 1)
                 PROVE  /\ i \in DOMAIN chanSlot'[v]
                        /\ chanSlot'[v][i] \in channels \cup deleted
                        /\ v \in Members(chanSlot'[v][i])
      BY <1>1 DEF ChannelIndexSound, Members
    <2>1. /\ i \in DOMAIN chanSlot[v]
          /\ chanSlot[v][i] \in channels \cup deleted
          /\ v \in Members(chanSlot[v][i])
      BY DEF Inv, ChannelIndexSound
    <2>2. v = u => i # n
      BY <1>4 DEF n
    <2>3. i \in DOMAIN chanSlot'[v] /\ chanSlot'[v][i] = chanSlot[v][i]
      BY <1>5, <1>6, <2>1, <2>2
    <2> QED
      BY <2>1, <2>3
  <1>10. \A c \in Channels \ deleted : \A i \in Nat : SlotReadable(c, i) => SlotReadable(c, i)'
    BY <1>1 DEF SlotReadable
  <1>11. /\ cnt' \in [Procs -> Nat] /\ cnt'[p] = n
         /\ \A q \in Procs \ {p} : cnt'[q] = cnt[q]
    BY <1>1, <1>4 DEF Inv, TypeOK, MemoryType
  <1>12. /\ pc'[p] = "set-count" /\ MemoryType' /\ faults' \in 0..MaxFaults
         /\ \A q \in Procs \ {p} : Same(q)
    BY <1>1, <1>11, ContinuesStep DEF Inv, TypeOK, MemoryType, Labels
  <1>13. Knows(p)'
    <2>1. Member(p)' = u /\ chanCount'[u] = n
      BY <1>1 DEF Member, u, n
    <2>2. Setting(p)'
      BY <1>1, <1>2, <1>6, <1>11, <1>12, <2>1 DEF Setting
    <2> QED
      BY <1>1, <1>2, <1>12, <2>2 DEF Knows, Local, Adding, ListenResolvesFor
  <1>14. UNCHANGED mutex
    BY <1>1 DEF Continues
  <1> QED
    BY <1>1, <1>7, <1>8, <1>9, <1>10, <1>12, <1>13, <1>14, FileStep

\* SetChannel counts the slot, which names a channel whose record exists.
LEMMA SetChannelCountStep == ASSUME Inv, NEW p \in Procs, SetChannelCount(p) PROVE Inv'
  <1> DEFINE u == Member(p)
             n == cnt[p]
  <1>1. /\ pc[p] = "set-count" /\ chanCount' = [chanCount EXCEPT ![u] = n + 1]
        /\ UNCHANGED <<channels, chanSlot, messages, msgSlot, msgCount, late, deleted>>
    BY DEF SetChannelCount, Member, logs
  <1>2. /\ chan[p] \in channels /\ chan[p] \in Channels /\ n \in Nat /\ idx[p] \in Nat
        /\ idx[p] \in 1..Len(EncList[chan[p]])
        /\ n = chanCount[u] /\ n \in DOMAIN chanSlot[u] /\ chanSlot[u][n] = chan[p]
    BY <1>1 DEF Inv, TypeOK, MemoryType, Knows, Local, Setting
  <1>3. u \in Clients /\ u \in Members(chan[p]) /\ Len(EncList[chan[p]]) \in Nat
    <2>1. EncList[chan[p]] \in Seq(Clients)
      BY <1>2, EncListAssumption
    <2> QED
      BY <2>1, <1>2 DEF Member, Members
  <1>4. /\ DOMAIN chanCount' = Clients /\ chanCount'[u] = n + 1
        /\ \A v \in Clients \ {u} : chanCount'[v] = chanCount[v]
    BY <1>1, <1>3 DEF Inv, TypeOK, FileType
  <1> HIDE DEF u, n
  <1>5. FileType'
    <2>1. chanCount \in [Clients -> Nat] /\ n + 1 \in Nat
      BY <1>2 DEF Inv, TypeOK, FileType
    <2>2. chanCount' = [chanCount EXCEPT ![u] = n + 1]
      BY <1>1
    <2>3. chanCount' \in [Clients -> Nat]
      BY <2>1, <2>2
    <2> QED
      BY <1>1, <2>3 DEF Inv, TypeOK, FileType
  <1>6. SlotInv' /\ LogSound'
    BY <1>1, LogFrame
  <1>7. ChannelIndexSound'
    <2>0. UNCHANGED <<chanSlot, channels, deleted>>
      BY <1>1
    <2> SUFFICES ASSUME NEW v \in Clients, NEW i \in 0..(chanCount'[v] - 1)
                 PROVE  /\ i \in DOMAIN chanSlot[v]
                        /\ chanSlot[v][i] \in channels \cup deleted
                        /\ v \in Members(chanSlot[v][i])
      BY <2>0 DEF ChannelIndexSound, Members
    <2>1. CASE v = u /\ i = n
      BY <1>2, <1>3, <2>1
    <2>2. CASE v # u \/ i # n
      <3>1. chanCount[v] \in Nat
        BY DEF Inv, TypeOK, FileType
      <3>2. v # u => chanCount'[v] = chanCount[v]
        BY <1>4
      <3>3. v = u => chanCount'[v] = chanCount[v] + 1 /\ n = chanCount[v]
        BY <1>2, <1>4
      <3>4. i \in 0..(chanCount[v] - 1)
        BY <2>2, <3>1, <3>2, <3>3
      <3> QED
        BY <3>4 DEF Inv, ChannelIndexSound
    <2> QED
      BY <2>1, <2>2
  <1>8. \A c \in Channels \ deleted : \A i \in Nat : SlotReadable(c, i) => SlotReadable(c, i)'
    BY <1>1 DEF SlotReadable
  <1>9. CASE idx[p] = Len(EncList[chan[p]])
    <2>1. Ends(p)
      BY <1>9 DEF SetChannelCount, Ends
    <2> QED
      BY <1>1, <1>5, <1>6, <1>7, <1>8, <2>1, EndsStep, FileStep DEF Ends
  <1>10. CASE idx[p] # Len(EncList[chan[p]])
    <2>1. Continues(p, "set-slot") /\ UNCHANGED <<chan, msg, cnt>> /\ UNCHANGED mutex
      BY <1>1, <1>10 DEF SetChannelCount, Continues
    <2>2. idx' = [idx EXCEPT ![p] = @ + 1]
      BY <1>10 DEF SetChannelCount
    <2>3. idx \in [Procs -> Nat]
      BY DEF Inv, TypeOK, MemoryType
    <2>4. /\ idx' \in [Procs -> Nat] /\ idx'[p] = idx[p] + 1
          /\ \A q \in Procs \ {p} : idx'[q] = idx[q]
      BY <2>2, <2>3, IncrementStep
    <2>5. /\ pc'[p] = "set-slot" /\ MemoryType' /\ faults' \in 0..MaxFaults
          /\ \A q \in Procs \ {p} : Same(q)
      BY <2>1, <2>4, ContinuesStep DEF Inv, TypeOK, MemoryType, Labels
    <2>6. idx[p] + 1 \in 1..Len(EncList[chan[p]])
      BY <1>2, <1>3, <1>10
    <2>7. Knows(p)'
      BY <1>1, <1>2, <2>1, <2>4, <2>5, <2>6 DEF Knows, Local, Setting, Adding, ListenResolvesFor
    <2> QED
      BY <1>1, <1>5, <1>6, <1>7, <1>8, <2>1, <2>5, <2>7, FileStep
  <1> QED
    BY <1>9, <1>10

\* AddChannelMessage writes the record. The message was not in the file, so no
\* counted slot names it.
LEMMA AddMessageRecordStep == ASSUME Inv, NEW p \in Procs, AddMessageRecord(p) PROVE Inv'
  <1>1. /\ pc[p] = "add-record" /\ messages' = messages \cup {msg[p]}
        /\ late' \subseteq late \cup {msg[p]}
        /\ UNCHANGED <<channels, chanSlot, chanCount, msgSlot, msgCount, deleted>>
        /\ UNCHANGED <<chan, msg, idx, cnt>> /\ UNCHANGED mutex
        /\ Continues(p, "add-slot")
    BY DEF AddMessageRecord, Continues, index
  <1>2. /\ msg[p] \in Messages /\ msg[p] \notin messages /\ cnt[p] = msgCount[Log(p)]
    BY <1>1 DEF Inv, Knows, Local, Adding
  <1>3. Log(p) \in Channels
    BY <1>2 DEF Log
  <1>4. FileType'
    BY <1>1, <1>2 DEF Inv, TypeOK, FileType
  <1>5. SlotInv' /\ LogSound' /\ ChannelIndexSound'
    BY <1>1, LogFrame, IndexFrame
  <1>6. /\ pc'[p] = "add-slot" /\ MemoryType' /\ faults' \in 0..MaxFaults
        /\ \A q \in Procs \ {p} : Same(q)
    BY <1>1, ContinuesStep DEF Inv, TypeOK, MemoryType, Labels
  <1>7. Knows(p)'
    <2>1. Log(p)' = Log(p)
      BY <1>1 DEF Log
    <2>2. Log(p) \notin deleted =>
             \A i \in 0..(msgCount[Log(p)] - 1) : msgSlot[Log(p)][i] # msg[p]
      BY <1>2, <1>3 DEF Inv, LogSound, LogSoundOf
    <2>3. Adding(p)'
      BY <1>1, <1>2, <1>6, <2>1, <2>2 DEF Adding
    <2> QED
      BY <1>1, <1>2, <1>6, <2>3 DEF Knows, Local, Setting, ListenResolvesFor
  <1>8. \A c \in Channels \ deleted : \A i \in Nat : SlotReadable(c, i) => SlotReadable(c, i)'
    BY <1>1 DEF SlotReadable
  <1> QED
    BY <1>1, <1>4, <1>5, <1>6, <1>7, <1>8, FileStep

\* AddChannelMessage writes the slot at the count: no slot below it changes.
LEMMA AddMessageSlotStep == ASSUME Inv, NEW p \in Procs, AddMessageSlot(p) PROVE Inv'
  <1> DEFINE c == Log(p)
             n == cnt[p]
  <1>1. /\ pc[p] = "add-slot" /\ msgSlot' = [msgSlot EXCEPT ![c] = Set(@, n, msg[p])]
        /\ UNCHANGED <<channels, chanSlot, chanCount, messages, msgCount, late, deleted>>
        /\ UNCHANGED <<chan, msg, idx, cnt>> /\ UNCHANGED mutex
        /\ Continues(p, "add-count")
    BY DEF AddMessageSlot, Continues, index, Log
  <1>2. /\ msg[p] \in Messages /\ msg[p] \in messages /\ n = msgCount[c] /\ n \in Nat
        /\ c \notin deleted => \A i \in 0..(msgCount[c] - 1) : msgSlot[c][i] # msg[p]
    BY <1>1 DEF Inv, TypeOK, MemoryType, Knows, Local, Adding
  <1>3. c \in Channels /\ ChanOf[msg[p]] = c
    BY <1>2 DEF Log
  <1>4. /\ DOMAIN msgSlot' = Channels
        /\ \A d \in Channels \ {c} : msgSlot'[d] = msgSlot[d]
        /\ msgSlot'[c] = Set(msgSlot[c], n, msg[p])
    BY <1>1, <1>3 DEF Inv, TypeOK, FileType
  <1>5. /\ DOMAIN msgSlot'[c] = DOMAIN msgSlot[c] \cup {n}
        /\ msgSlot'[c][n] = msg[p]
        /\ \A i \in DOMAIN msgSlot[c] \ {n} : msgSlot'[c][i] = msgSlot[c][i]
    BY <1>4 DEF Set
  <1> HIDE DEF c, n
  <1>6. FileType'
    <2>1. \A d \in Channels : /\ DOMAIN msgSlot'[d] \subseteq Nat
                              /\ \A i \in DOMAIN msgSlot'[d] : msgSlot'[d][i] \in Messages
      BY <1>2, <1>4, <1>5 DEF Inv, TypeOK, FileType
    <2> QED
      BY <1>1, <1>4, <2>1 DEF Inv, TypeOK, FileType
  <1>7. SlotInv'
    BY <1>3, <1>4, <1>5 DEF Inv, SlotInv
  <1>8. \A d \in Channels \ deleted : \A i \in 0..(msgCount[d] - 1) :
           i \in DOMAIN msgSlot'[d] /\ msgSlot'[d][i] = msgSlot[d][i]
    <2> SUFFICES ASSUME NEW d \in Channels \ deleted, NEW i \in 0..(msgCount[d] - 1)
                 PROVE  i \in DOMAIN msgSlot'[d] /\ msgSlot'[d][i] = msgSlot[d][i]
      OBVIOUS
    <2>1. i \in DOMAIN msgSlot[d]
      BY DEF Inv, LogSound, LogSoundOf
    <2>2. d = c => i # n
      BY <1>2
    <2> QED
      BY <1>4, <1>5, <2>1, <2>2
  <1>9. LogSound'
    <2>1. ASSUME NEW d \in Channels \ deleted PROVE LogSoundOf(d)'
      <3>1. LogSoundOf(d)
        BY DEF Inv, LogSound
      <3>2. UNCHANGED <<messages, msgCount>>
        BY <1>1
      <3>3. \A i \in 0..(msgCount[d] - 1) :
               i \in DOMAIN msgSlot'[d] /\ msgSlot'[d][i] = msgSlot[d][i]
        BY <1>8
      <3>4. \A i \in 0..(msgCount[d] - 1) :
               /\ i \in DOMAIN msgSlot'[d]
               /\ msgSlot'[d][i] \in messages
               /\ ChanOf[msgSlot'[d][i]] = d
        BY <3>1, <3>3 DEF LogSoundOf
      <3>5. \A i, j \in 0..(msgCount[d] - 1) : msgSlot'[d][i] = msgSlot'[d][j] => i = j
        BY <3>1, <3>3 DEF LogSoundOf
      <3> QED
        BY <3>2, <3>4, <3>5 DEF LogSoundOf
    <2> QED
      BY <1>1, <2>1 DEF LogSound
  <1>10. ChannelIndexSound'
    BY <1>1, IndexFrame
  <1>11. /\ pc'[p] = "add-count" /\ MemoryType' /\ faults' \in 0..MaxFaults
         /\ \A q \in Procs \ {p} : Same(q)
    BY <1>1, ContinuesStep DEF Inv, TypeOK, MemoryType, Labels
  <1>12. Knows(p)'
    <2>1. Log(p)' = c /\ cnt'[p] = n
      BY <1>1 DEF Log, c, n
    <2>2. c \notin deleted => \A i \in 0..(msgCount[c] - 1) : msgSlot'[c][i] # msg[p]
      BY <1>2, <1>3, <1>8
    <2>3. Adding(p)'
      BY <1>1, <1>2, <1>5, <1>11, <2>1, <2>2 DEF Adding
    <2> QED
      BY <1>1, <1>2, <1>11, <2>3 DEF Knows, Local, Setting, ListenResolvesFor
  <1>13. \A d \in Channels \ deleted : \A i \in Nat : SlotReadable(d, i) => SlotReadable(d, i)'
    BY <1>1, <1>4, <1>5 DEF SlotReadable
  <1> QED
    BY <1>1, <1>6, <1>7, <1>9, <1>10, <1>11, <1>12, <1>13, FileStep

\* AddChannelMessage counts the slot: the log gains a message it did not hold.
LEMMA AddMessageCountStep == ASSUME Inv, NEW p \in Procs, AddMessageCount(p) PROVE Inv'
  <1> DEFINE c == Log(p)
             n == cnt[p]
  <1>1. /\ pc[p] = "add-count" /\ msgCount' = [msgCount EXCEPT ![c] = n + 1]
        /\ UNCHANGED <<channels, chanSlot, chanCount, messages, msgSlot, late, deleted>>
        /\ Ends(p)
    BY DEF AddMessageCount, Ends, index, Log
  <1>2. /\ msg[p] \in Messages /\ msg[p] \in messages /\ n = msgCount[c] /\ n \in Nat
        /\ c \notin deleted => \A i \in 0..(msgCount[c] - 1) : msgSlot[c][i] # msg[p]
        /\ n \in DOMAIN msgSlot[c] /\ msgSlot[c][n] = msg[p]
    BY <1>1 DEF Inv, TypeOK, MemoryType, Knows, Local, Adding
  <1>3. c \in Channels /\ ChanOf[msg[p]] = c
    BY <1>2 DEF Log
  <1>4. /\ msgCount' \in [Channels -> Nat] /\ msgCount'[c] = n + 1
        /\ \A d \in Channels \ {c} : msgCount'[d] = msgCount[d]
    <2>1. msgCount \in [Channels -> Nat] /\ n + 1 \in Nat
      BY <1>2 DEF Inv, TypeOK, FileType
    <2>2. msgCount' = [msgCount EXCEPT ![c] = n + 1]
      BY <1>1
    <2> QED
      BY <1>3, <2>1, <2>2
  <1> HIDE DEF c, n
  <1>5. FileType'
    BY <1>1, <1>4 DEF Inv, TypeOK, FileType
  <1>6. SlotInv'
    BY <1>1 DEF Inv, SlotInv
  <1>7. LogSound'
    <2>1. ASSUME NEW d \in Channels \ deleted PROVE LogSoundOf(d)'
      <3>1. LogSoundOf(d)
        BY DEF Inv, LogSound
      <3>2. CASE d # c
        <4>1. msgCount'[d] = msgCount[d] /\ UNCHANGED <<messages, msgSlot>>
          BY <1>1, <1>4, <3>2
        <4> QED
          BY <3>1, <4>1 DEF LogSoundOf
      <3>3. CASE d = c
        <4>1. \A i \in 0..(msgCount'[c] - 1) : i = n \/ i \in 0..(msgCount[c] - 1)
          BY <1>2, <1>4
        <4>2. n \notin 0..(msgCount[c] - 1)
          BY <1>2
        <4>3. \A i \in 0..(msgCount'[c] - 1) :
                 /\ i \in DOMAIN msgSlot[c]
                 /\ msgSlot[c][i] \in messages
                 /\ ChanOf[msgSlot[c][i]] = c
          BY <1>2, <1>3, <3>1, <3>3, <4>1 DEF LogSoundOf
        <4>4. \A i, j \in 0..(msgCount'[c] - 1) : msgSlot[c][i] = msgSlot[c][j] => i = j
          BY <1>2, <3>1, <3>3, <4>1, <4>2 DEF LogSoundOf
        <4> QED
          BY <1>1, <3>3, <4>3, <4>4 DEF LogSoundOf
      <3> QED
        BY <3>2, <3>3
    <2> QED
      BY <1>1, <2>1 DEF LogSound
  <1>8. ChannelIndexSound'
    BY <1>1, IndexFrame
  <1>9. \A d \in Channels \ deleted : \A i \in Nat : SlotReadable(d, i) => SlotReadable(d, i)'
    <2>1. ASSUME NEW d \in Channels \ deleted, NEW i \in Nat, i < msgCount[d]
          PROVE  i < msgCount'[d]
      <3>1. CASE d = c
        BY <1>2, <1>4, <2>1, <3>1
      <3>2. CASE d # c
        BY <1>4, <2>1, <3>2
      <3> QED
        BY <3>1, <3>2
    <2> QED
      BY <1>1, <2>1 DEF SlotReadable
  <1> QED
    BY <1>1, <1>5, <1>6, <1>7, <1>8, <1>9, EndsStep, FileStep DEF Ends

\* DelChannel deletes a message of a deleted channel.
LEMMA DelChannelRecordStep == ASSUME Inv, NEW p \in Procs, DelChannelRecord(p) PROVE Inv'
  <1>1. /\ pc[p] = "del-record" /\ messages' = messages \ {msg[p]}
        /\ UNCHANGED <<channels, chanSlot, chanCount, msgSlot, msgCount, late, deleted>>
        /\ UNCHANGED <<chan, msg, idx, cnt>> /\ UNCHANGED mutex
        /\ Continues(p, "del-slot")
    BY DEF DelChannelRecord, Continues, index
  <1>2. /\ msg[p] \in Messages /\ chan[p] \in Channels /\ chan[p] \in deleted
        /\ ChanOf[msg[p]] = chan[p]
    BY <1>1 DEF Inv, Knows, Local
  <1>3. FileType'
    BY <1>1 DEF Inv, TypeOK, FileType
  <1>4. SlotInv'
    BY <1>1 DEF Inv, SlotInv
  <1>5. LogSound'
    <2>1. ASSUME NEW c \in Channels \ deleted PROVE LogSoundOf(c)'
      <3>1. LogSoundOf(c)
        BY DEF Inv, LogSound
      <3>2. \A i \in 0..(msgCount[c] - 1) : msgSlot[c][i] # msg[p]
        BY <1>2, <3>1 DEF LogSoundOf
      <3> QED
        BY <1>1, <3>1, <3>2 DEF LogSoundOf
    <2> QED
      BY <1>1, <2>1 DEF LogSound
  <1>6. ChannelIndexSound'
    BY <1>1, IndexFrame
  <1>7. /\ pc'[p] = "del-slot" /\ MemoryType' /\ faults' \in 0..MaxFaults
        /\ \A q \in Procs \ {p} : Same(q)
    BY <1>1, ContinuesStep DEF Inv, TypeOK, MemoryType, Labels
  <1>8. Knows(p)'
    BY <1>1, <1>2, <1>7 DEF Knows, Local, Setting, Adding, ListenResolvesFor
  <1>9. \A c \in Channels \ deleted : \A i \in Nat : SlotReadable(c, i) => SlotReadable(c, i)'
    BY <1>1 DEF SlotReadable
  <1>10. \A m \in messages : ChanOf[m] \notin deleted => m \in messages'
    BY <1>1, <1>2
  <1> QED
    BY <1>1, <1>3, <1>4, <1>5, <1>6, <1>7, <1>8, <1>9, <1>10, FileStep

\* DelChannel deletes a slot of a deleted channel.
LEMMA DelChannelSlotStep == ASSUME Inv, NEW p \in Procs, DelChannelSlot(p) PROVE Inv'
  <1> DEFINE c == chan[p]
  <1>1. /\ pc[p] = "del-slot" /\ msgSlot' = [msgSlot EXCEPT ![c] = Del(@, idx[p])]
        /\ UNCHANGED <<channels, chanSlot, chanCount, messages, msgCount, late, deleted>>
        /\ UNCHANGED <<chan, msg, cnt>> /\ UNCHANGED mutex
        /\ Continues(p, "del-next")
    BY DEF DelChannelSlot, Continues, index
  <1>2. idx' \in [Procs -> Nat] /\ \A q \in Procs \ {p} : idx'[q] = idx[q]
    <2>1. idx \in [Procs -> Nat]
      BY DEF Inv, TypeOK, MemoryType
    <2>2. idx' = [idx EXCEPT ![p] = @ + 1]
      BY DEF DelChannelSlot
    <2> QED
      BY <2>1, <2>2, IncrementStep
  <1>3. c \in Channels /\ c \in deleted
    BY <1>1 DEF Inv, Knows, Local
  <1>4. /\ DOMAIN msgSlot' = Channels
        /\ \A d \in Channels \ {c} : msgSlot'[d] = msgSlot[d]
        /\ msgSlot'[c] = Del(msgSlot[c], idx[p])
    BY <1>1, <1>3 DEF Inv, TypeOK, FileType
  <1>5. /\ DOMAIN msgSlot'[c] \subseteq DOMAIN msgSlot[c]
        /\ \A i \in DOMAIN msgSlot'[c] : msgSlot'[c][i] = msgSlot[c][i]
    BY <1>4 DEF Del
  <1> HIDE DEF c
  <1>6. FileType'
    <2>1. \A d \in Channels : /\ DOMAIN msgSlot'[d] \subseteq Nat
                              /\ \A i \in DOMAIN msgSlot'[d] : msgSlot'[d][i] \in Messages
      BY <1>4, <1>5 DEF Inv, TypeOK, FileType
    <2> QED
      BY <1>1, <1>4, <2>1 DEF Inv, TypeOK, FileType
  <1>7. SlotInv'
    BY <1>4, <1>5 DEF Inv, SlotInv
  <1>8. LogSound'
    <2>1. ASSUME NEW d \in Channels \ deleted PROVE LogSoundOf(d)'
      <3>1. LogSoundOf(d)
        BY DEF Inv, LogSound
      <3>2. msgSlot'[d] = msgSlot[d] /\ UNCHANGED <<messages, msgCount>>
        BY <1>1, <1>3, <1>4
      <3> QED
        BY <3>1, <3>2 DEF LogSoundOf
    <2> QED
      BY <1>1, <2>1 DEF LogSound
  <1>9. ChannelIndexSound'
    BY <1>1, IndexFrame
  <1>10. /\ pc'[p] = "del-next" /\ MemoryType' /\ faults' \in 0..MaxFaults
         /\ \A q \in Procs \ {p} : Same(q)
    BY <1>1, <1>2, ContinuesStep DEF Inv, TypeOK, MemoryType, Labels
  <1>11. Knows(p)'
    <2>1. chan'[p] \in Channels /\ chan'[p] \in deleted'
      BY <1>1, <1>3 DEF c
    <2> QED
      BY <1>10, <2>1 DEF Knows, Local, Setting, Adding, ListenResolvesFor
  <1>12. \A d \in Channels \ deleted : \A i \in Nat : SlotReadable(d, i) => SlotReadable(d, i)'
    BY <1>1, <1>3, <1>4 DEF SlotReadable
  <1> QED
    BY <1>1, <1>6, <1>7, <1>8, <1>9, <1>10, <1>11, <1>12, FileStep

\* DelChannel deletes the count of a deleted channel.
LEMMA DelChannelLogStep == ASSUME Inv, NEW p \in Procs, DelChannelLog(p) PROVE Inv'
  <1> DEFINE c == chan[p]
  <1>1. /\ pc[p] = "del-log" /\ msgCount' = [msgCount EXCEPT ![c] = 0]
        /\ UNCHANGED <<channels, chanSlot, chanCount, messages, msgSlot, late, deleted>>
        /\ UNCHANGED <<chan, msg, idx, cnt>> /\ UNCHANGED mutex
        /\ Continues(p, "del-channel")
    BY DEF DelChannelLog, Continues, index
  <1>2. c \in Channels /\ c \in deleted
    BY <1>1 DEF Inv, Knows, Local
  <1>3. /\ msgCount' \in [Channels -> Nat]
        /\ \A d \in Channels \ {c} : msgCount'[d] = msgCount[d]
    BY <1>1, <1>2 DEF Inv, TypeOK, FileType
  <1> HIDE DEF c
  <1>4. FileType'
    BY <1>1, <1>3 DEF Inv, TypeOK, FileType
  <1>5. SlotInv'
    BY <1>1 DEF Inv, SlotInv
  <1>6. LogSound'
    <2>1. ASSUME NEW d \in Channels \ deleted PROVE LogSoundOf(d)'
      <3>1. LogSoundOf(d)
        BY DEF Inv, LogSound
      <3>2. msgCount'[d] = msgCount[d] /\ UNCHANGED <<messages, msgSlot>>
        BY <1>1, <1>2, <1>3
      <3> QED
        BY <3>1, <3>2 DEF LogSoundOf
    <2> QED
      BY <1>1, <2>1 DEF LogSound
  <1>7. ChannelIndexSound'
    BY <1>1, IndexFrame
  <1>8. /\ pc'[p] = "del-channel" /\ MemoryType' /\ faults' \in 0..MaxFaults
        /\ \A q \in Procs \ {p} : Same(q)
    BY <1>1, ContinuesStep DEF Inv, TypeOK, MemoryType, Labels
  <1>9. Knows(p)'
    <2>1. chan'[p] \in Channels /\ chan'[p] \in deleted'
      BY <1>1, <1>2 DEF c
    <2> QED
      BY <1>8, <2>1 DEF Knows, Local, Setting, Adding, ListenResolvesFor
  <1>10. \A d \in Channels \ deleted : \A i \in Nat : SlotReadable(d, i) => SlotReadable(d, i)'
    BY <1>1, <1>2, <1>3 DEF SlotReadable
  <1> QED
    BY <1>1, <1>4, <1>5, <1>6, <1>7, <1>8, <1>9, <1>10, FileStep

\* DelChannel deletes the record of a deleted channel.
LEMMA DelChannelEndStep == ASSUME Inv, NEW p \in Procs, DelChannelEnd(p) PROVE Inv'
  <1>1. /\ pc[p] = "del-channel" /\ channels' = channels \ {chan[p]}
        /\ UNCHANGED <<chanSlot, chanCount, messages, msgSlot, msgCount, late, deleted>>
        /\ Ends(p)
    BY DEF DelChannelEnd, Ends, index, logs
  <1>2. chan[p] \in deleted
    BY <1>1 DEF Inv, Knows, Local
  <1>3. FileType'
    BY <1>1 DEF Inv, TypeOK, FileType
  <1>4. SlotInv' /\ LogSound' /\ ChannelIndexSound'
    BY <1>1, <1>2, LogFrame, IndexFrame
  <1>5. \A c \in Channels \ deleted : \A i \in Nat : SlotReadable(c, i) => SlotReadable(c, i)'
    BY <1>1 DEF SlotReadable
  <1> QED
    BY <1>1, <1>3, <1>4, <1>5, EndsStep, FileStep DEF Ends

\* Every step of the program preserves the invariant.
LEMMA StepInv == Inv /\ [Next]_vars => Inv'
  <1> SUFFICES ASSUME Inv, [Next]_vars PROVE Inv'
    OBVIOUS
  <1>1. ASSUME NEW p \in Procs, SetChannel(p) PROVE Inv'
    BY <1>1, CallSteps, SetChannelLockStep, SetChannelRecordStep, SetChannelSlotStep,
       SetChannelCountStep DEF SetChannel
  <1>2. ASSUME NEW p \in Procs, AddChannelMessage(p) PROVE Inv'
    BY <1>2, CallSteps, AddMessageLockStep, AddMessageRecordStep, AddMessageSlotStep,
       AddMessageCountStep DEF AddChannelMessage
  <1>3. ASSUME NEW p \in Procs, DelChannel(p) PROVE Inv'
    BY <1>3, CallSteps, DelChannelLockStep, DelChannelCountStep, DelChannelNextStep,
       DelChannelRecordStep, DelChannelSlotStep, DelChannelLogStep, DelChannelEndStep
       DEF DelChannel
  <1>4. ASSUME NEW p \in Procs, Listen(p) PROVE Inv'
    BY <1>4, CallSteps, ListenStep DEF Listen
  <1>5. ASSUME NEW p \in Procs, WriteFails(p) \/ DeleteIgnored(p) PROVE Inv'
    BY <1>5, WriteFailsStep, DeleteIgnoredStep
  <1>6. ASSUME NEW c \in Channels, MarkDeleted(c) PROVE Inv'
    BY <1>6, MarkDeletedStep
  <1>7. CASE Crash
    BY <1>7, CrashStep
  <1>8. CASE UNCHANGED vars
    <2>1. /\ UNCHANGED <<channels, chanSlot, chanCount, messages, msgSlot, msgCount, deleted, late>>
          /\ UNCHANGED <<writer, readers, pc, chan, msg, idx, cnt, faults>>
      BY <1>8 DEF vars, file, index, logs, mutex, local
    <2>2. TypeOK' /\ MutexInv'
      BY <2>1 DEF Inv, TypeOK, FileType, MemoryType, MutexInv
    <2>3. ASSUME NEW q \in Procs PROVE Knows(q)'
      BY <2>1 DEF Inv, Knows, Local, Setting, Adding, ListenResolvesFor, SlotReadable, Member, Log
    <2>4. SlotInv' /\ LogSound' /\ ChannelIndexSound'
      BY <2>1, LogFrame, IndexFrame
    <2> QED
      BY <2>2, <2>3, <2>4 DEF Inv
  <1> QED
    BY <1>1, <1>2, <1>3, <1>4, <1>5, <1>6, <1>7, <1>8 DEF Next

\* The inductive invariant holds in every reachable state, whatever the numbers
\* of goroutines, channels, participants and messages, and whatever fails.
THEOREM Invariance == Spec => []Inv
  BY InitInv, StepInv, PTL DEF Spec

\* Every variable keeps its type.
THEOREM TypeCorrect == Spec => []TypeOK
  <1>1. Inv => TypeOK
    BY DEF Inv
  <1> QED
    BY <1>1, Invariance, PTL

\* The log of a channel has no holes and no repetitions.
THEOREM LogSoundness == Spec => []LogSound
  <1>1. Inv => LogSound
    BY DEF Inv
  <1> QED
    BY <1>1, Invariance, PTL

\* Every counted entry of a participant's list of channels can be loaded.
THEOREM ChannelIndexSoundness == Spec => []ChannelIndexSound
  <1>1. Inv => ChannelIndexSound
    BY DEF Inv
  <1> QED
    BY <1>1, Invariance, PTL

\* What a listener was told to exist, it can read.
THEOREM ListenSoundness == Spec => []ListenResolves
  <1>1. Inv => ListenResolves
    BY DEF Inv, Knows, ListenResolves
  <1> QED
    BY <1>1, Invariance, PTL

-----------------------------------------------------------------------------
(* ChannelStore implements MessageLog: a step of the key-value code extends *)
(* one log by one new message, gives up one channel, or leaves the logs as  *)
(* they are.                                                                *)

\* The log of a channel is a sequence of messages, as long as its count.
LEMMA LogType ==
    ASSUME Inv, NEW c \in Channels
    PROVE  /\ c \in deleted => logOf[c] = <<>>
           /\ c \notin deleted => /\ logOf[c] = [i \in 1..msgCount[c] |-> msgSlot[c][i - 1]]
                                  /\ logOf[c] \in Seq(Messages)
                                  /\ Len(logOf[c]) = msgCount[c]
  <1>1. c \in deleted => logOf[c] = <<>>
    BY DEF logOf
  <1>2. ASSUME c \notin deleted
        PROVE  /\ logOf[c] = [i \in 1..msgCount[c] |-> msgSlot[c][i - 1]]
               /\ logOf[c] \in Seq(Messages)
               /\ Len(logOf[c]) = msgCount[c]
    <2>1. logOf[c] = [i \in 1..msgCount[c] |-> msgSlot[c][i - 1]]
      BY <1>2 DEF logOf
    <2>2. msgCount[c] \in Nat
      BY DEF Inv, TypeOK, FileType
    <2>3. \A i \in 1..msgCount[c] : msgSlot[c][i - 1] \in Messages
      <3>1. ASSUME NEW i \in 1..msgCount[c] PROVE msgSlot[c][i - 1] \in Messages
        <4>1. i - 1 \in 0..(msgCount[c] - 1)
          BY <2>2
        <4>2. msgSlot[c][i - 1] \in messages
          BY <1>2, <4>1 DEF Inv, LogSound, LogSoundOf
        <4> QED
          BY <4>2 DEF Inv, TypeOK, FileType
      <3> QED
        BY <3>1
    <2>4. logOf[c] \in [1..msgCount[c] -> Messages]
      BY <2>1, <2>3
    <2>5. logOf[c] \in Seq(Messages)
      BY <2>2, <2>4, SeqDef
    <2> QED
      BY <2>1, <2>2, <2>4, <2>5, LenProperties
  <1> QED
    BY <1>1, <1>2

\* The initial logs are empty.
LEMMA InitMaps == Init => ML!Init
  <1> SUFFICES ASSUME Init PROVE ML!Init
    OBVIOUS
  <1>1. \A c \in Channels : [i \in 1..0 |-> msgSlot[c][i - 1]] = <<>>
    OBVIOUS
  <1>2. logOf = [c \in Channels |-> <<>>]
    BY <1>1 DEF Init, logOf
  <1> QED
    BY <1>2 DEF Init, ML!Init

\* A step that changes no counted slot of a channel in use leaves the logs alone.
LEMMA LogsFrame ==
    ASSUME Inv, deleted' = deleted,
           \A c \in Channels \ deleted : msgCount'[c] = msgCount[c],
           \A c \in Channels \ deleted : \A i \in 0..(msgCount[c] - 1) :
              msgSlot'[c][i] = msgSlot[c][i]
    PROVE  UNCHANGED <<logOf, deleted>>
  <1>1. ASSUME NEW c \in Channels \ deleted, NEW i \in 1..msgCount[c]
        PROVE  msgSlot'[c][i - 1] = msgSlot[c][i - 1]
    <2>1. i - 1 \in 0..(msgCount[c] - 1)
      BY DEF Inv, TypeOK, FileType
    <2> QED
      BY <2>1
  <1>2. ASSUME NEW c \in Channels PROVE logOf'[c] = logOf[c]
    <2>1. CASE c \in deleted
      BY <2>1 DEF logOf
    <2>2. CASE c \notin deleted
      <3>1. logOf[c] = [i \in 1..msgCount[c] |-> msgSlot[c][i - 1]]
        BY <2>2 DEF logOf
      <3>2. logOf'[c] = [i \in 1..msgCount[c] |-> msgSlot'[c][i - 1]]
        BY <2>2 DEF logOf
      <3> QED
        BY <1>1, <2>2, <3>1, <3>2
    <2> QED
      BY <2>1, <2>2
  <1> QED
    BY <1>2 DEF logOf

\* The writes of the logs, and the other steps.
LEMMA QuietSteps ==
    ASSUME Next
    PROVE  \/ UNCHANGED <<msgSlot, msgCount, deleted>>
           \/ \E p \in Procs : \/ AddMessageSlot(p) \/ AddMessageCount(p)
                               \/ DelChannelSlot(p) \/ DelChannelLog(p)
           \/ \E c \in Channels : MarkDeleted(c)
  <1> USE DEF file, index, logs
  <1>1. ASSUME NEW p \in Procs, NEW label, NEW c, NEW m, NEW i, Call(p, label, c, m, i)
        PROVE  UNCHANGED <<msgSlot, msgCount, deleted>>
    BY <1>1 DEF Call
  <1>2. ASSUME NEW p \in Procs, SetChannel(p)
        PROVE  UNCHANGED <<msgSlot, msgCount, deleted>>
    BY <1>1, <1>2 DEF SetChannel, CallSetChannel, SetChannelLock, SetChannelRecord,
       SetChannelSlot, SetChannelCount
  <1>3. ASSUME NEW p \in Procs, AddChannelMessage(p)
        PROVE  \/ UNCHANGED <<msgSlot, msgCount, deleted>>
               \/ AddMessageSlot(p) \/ AddMessageCount(p)
    BY <1>1, <1>3 DEF AddChannelMessage, CallAddMessage, AddMessageLock, AddMessageRecord
  <1>4. ASSUME NEW p \in Procs, DelChannel(p)
        PROVE  \/ UNCHANGED <<msgSlot, msgCount, deleted>>
               \/ DelChannelSlot(p) \/ DelChannelLog(p)
    BY <1>1, <1>4 DEF DelChannel, CallDelChannel, DelChannelLock, DelChannelCount,
       DelChannelNext, DelChannelRecord, DelChannelEnd
  <1>5. ASSUME NEW p \in Procs, Listen(p) \/ WriteFails(p) \/ DeleteIgnored(p)
        PROVE  UNCHANGED <<msgSlot, msgCount, deleted>>
    BY <1>1, <1>5 DEF Listen, CallListen, ListenCount, ListenTimeout, ListenSlot, ListenLoad,
       WriteFails, DeleteIgnored
  <1>6. Crash => UNCHANGED <<msgSlot, msgCount, deleted>>
    BY DEF Crash
  <1> QED
    BY <1>2, <1>3, <1>4, <1>5, <1>6 DEF Next

\* Writing the slot that the count does not reach yet is not seen.
LEMMA AddMessageSlotMaps ==
    ASSUME Inv, NEW p \in Procs, AddMessageSlot(p)
    PROVE  UNCHANGED <<logOf, deleted>>
  <1>1. /\ pc[p] = "add-slot" /\ msgSlot' = [msgSlot EXCEPT ![Log(p)] = Set(@, cnt[p], msg[p])]
        /\ UNCHANGED <<msgCount, deleted>>
    BY DEF AddMessageSlot, Log
  <1>2. /\ cnt[p] = msgCount[Log(p)] /\ Log(p) \in Channels
        /\ DOMAIN msgSlot = Channels /\ msgCount \in [Channels -> Nat]
    BY <1>1 DEF Inv, TypeOK, FileType, Knows, Local, Adding, Log
  <1>3. ASSUME NEW c \in Channels \ deleted, NEW i \in 0..(msgCount[c] - 1)
        PROVE  msgSlot'[c][i] = msgSlot[c][i]
    <2>1. i \in DOMAIN msgSlot[c]
      BY DEF Inv, LogSound, LogSoundOf
    <2>2. CASE c # Log(p)
      BY <1>1, <1>2, <2>2
    <2>3. CASE c = Log(p)
      <3>1. i # cnt[p]
        BY <1>2, <2>3
      <3>2. msgSlot'[c] = Set(msgSlot[c], cnt[p], msg[p])
        BY <1>1, <1>2, <2>3
      <3> QED
        BY <2>1, <3>1, <3>2 DEF Set
    <2> QED
      BY <2>2, <2>3
  <1> QED
    BY <1>1, <1>3, LogsFrame

\* Only the slots and the count of a deleted channel are removed.
LEMMA DelChannelMaps ==
    ASSUME Inv, NEW p \in Procs, DelChannelSlot(p) \/ DelChannelLog(p)
    PROVE  UNCHANGED <<logOf, deleted>>
  <1>1. /\ chan[p] \in deleted /\ deleted' = deleted
        /\ DOMAIN msgSlot = Channels /\ msgCount \in [Channels -> Nat]
    BY DEF DelChannelSlot, DelChannelLog, Inv, TypeOK, FileType, Knows, Local
  <1>2. \A c \in Channels \ deleted : msgSlot'[c] = msgSlot[c] /\ msgCount'[c] = msgCount[c]
    BY <1>1 DEF DelChannelSlot, DelChannelLog
  <1> QED
    BY <1>1, <1>2, LogsFrame

\* Marking a channel as deleted retires its log.
LEMMA MarkDeletedMaps ==
    ASSUME Inv, NEW c \in Channels, MarkDeleted(c)
    PROVE  ML!Retire(c)
  <1>1. deleted' = deleted \cup {c} /\ UNCHANGED <<msgSlot, msgCount>>
    BY DEF MarkDeleted, logs
  <1>2. logOf' = [logOf EXCEPT ![c] = <<>>]
    BY <1>1 DEF logOf
  <1> QED
    BY <1>1, <1>2 DEF ML!Retire

\* Writing the count appends the message, if the channel is in use.
LEMMA AddMessageCountMaps ==
    ASSUME Inv, NEW p \in Procs, AddMessageCount(p)
    PROVE  UNCHANGED <<logOf, deleted>> \/ \E c \in Channels, m \in Messages : ML!Post(c, m)
  <1> DEFINE c == Log(p)
             m == msg[p]
             n == msgCount[c]
  <1>1. /\ pc[p] = "add-count" /\ msgCount' = [msgCount EXCEPT ![c] = cnt[p] + 1]
        /\ UNCHANGED <<msgSlot, deleted>>
    BY DEF AddMessageCount, Log
  <1>2. /\ m \in Messages /\ c \in Channels /\ cnt[p] = n /\ msgSlot[c][n] = m
        /\ c \notin deleted => \A i \in 0..(n - 1) : msgSlot[c][i] # m
    BY <1>1 DEF Inv, Knows, Local, Adding, Log
  <1>3. n \in Nat /\ msgCount \in [Channels -> Nat]
    BY <1>2 DEF Inv, TypeOK, FileType
  <1>4. msgCount'[c] = n + 1 /\ \A d \in Channels \ {c} : msgCount'[d] = msgCount[d]
    BY <1>1, <1>2, <1>3
  <1> HIDE DEF c, m, n
  <1>5. \A d \in Channels \ {c} : logOf'[d] = logOf[d]
    BY <1>1, <1>4 DEF logOf
  <1>6. CASE c \in deleted
    <2>1. logOf'[c] = logOf[c]
      BY <1>1, <1>2, <1>6 DEF logOf
    <2> QED
      BY <1>1, <1>5, <2>1 DEF logOf
  <1>7. CASE c \notin deleted
    <2>1. /\ logOf[c] = [i \in 1..n |-> msgSlot[c][i - 1]]
          /\ logOf[c] \in Seq(Messages) /\ Len(logOf[c]) = n
      BY <1>2, <1>7, LogType DEF n
    <2>2. logOf'[c] = [i \in 1..(n + 1) |-> msgSlot[c][i - 1]]
      BY <1>1, <1>2, <1>4, <1>7 DEF logOf
    <2>3. logOf'[c] = Append(logOf[c], m)
      <3>1. \A i \in 1..(n + 1) : i = n + 1 \/ i \in 1..n
        BY <1>3
      <3>2. msgSlot[c][(n + 1) - 1] = m
        BY <1>2, <1>3
      <3>3. /\ Append(logOf[c], m) \in [1..(n + 1) -> Messages]
            /\ \A i \in 1..n : Append(logOf[c], m)[i] = logOf[c][i]
            /\ Append(logOf[c], m)[n + 1] = m
        <4> DEFINE s == logOf[c]
        <4>1. /\ Append(s, m) \in Seq(Messages) /\ Len(Append(s, m)) = n + 1
              /\ \A i \in 1..Len(s) : Append(s, m)[i] = s[i]
              /\ Append(s, m)[Len(s) + 1] = m
          <5>1. s \in Seq(Messages) /\ Len(s) = n
            BY <2>1
          <5> HIDE DEF s
          <5> QED
            BY <1>2, <5>1, AppendProperties
        <4>2. Append(s, m) \in [1..(n + 1) -> Messages]
          BY <4>1, LenProperties
        <4> QED
          BY <2>1, <4>1, <4>2
      <3>4. \A i \in 1..(n + 1) : Append(logOf[c], m)[i] = msgSlot[c][i - 1]
        BY <2>1, <3>1, <3>2, <3>3
      <3> QED
        BY <2>2, <3>3, <3>4
    <2>4. m \notin ML!Posted(c)
      <3>1. ASSUME NEW i \in 1..n PROVE logOf[c][i] # m
        <4>1. i - 1 \in 0..(n - 1)
          BY <1>3
        <4> QED
          BY <1>2, <1>7, <2>1, <4>1
      <3> QED
        BY <2>1, <3>1 DEF ML!Posted
    <2>5. logOf' = [logOf EXCEPT ![c] = Append(@, m)]
      BY <1>2, <1>5, <2>3 DEF logOf
    <2> QED
      BY <1>1, <1>2, <1>7, <2>4, <2>5 DEF ML!Post
  <1> QED
    BY <1>6, <1>7

\* A step of the program is a step of MessageLog or leaves its variables alone.
LEMMA StepMaps == Inv /\ [Next]_vars => [ML!Next]_(ML!vars)
  <1> SUFFICES ASSUME Inv, [Next]_vars PROVE [ML!Next]_(ML!vars)
    OBVIOUS
  <1>1. ASSUME UNCHANGED <<msgSlot, msgCount, deleted>> PROVE UNCHANGED <<logOf, deleted>>
    BY <1>1 DEF logOf
  <1>2. UNCHANGED vars => UNCHANGED <<msgSlot, msgCount, deleted>>
    BY DEF vars, file, logs
  <1>3. \/ UNCHANGED <<logOf, deleted>>
        \/ \E c \in Channels, m \in Messages : ML!Post(c, m)
        \/ \E c \in Channels : ML!Retire(c)
    BY <1>1, <1>2, QuietSteps, AddMessageSlotMaps, AddMessageCountMaps, DelChannelMaps,
       MarkDeletedMaps
  <1> QED
    BY <1>3 DEF ML!Next, ML!vars

\* The key-value code implements the log of messages of MessageLog, for any
\* number of goroutines, channels and messages, whatever crashes or fails.
THEOREM Refinement == Spec => ImplementsMessageLog
  <1>1. Spec => []Inv
    BY Invariance
  <1> QED
    BY <1>1, InitMaps, StepMaps, PTL DEF Spec, ImplementsMessageLog, ML!Spec

-----------------------------------------------------------------------------
(* What a fault can lose.  Orphans and Unlisted are the records that no     *)
(* operation in progress will list any more: larger than LostMessages,      *)
(* Leftover and LostChannels, and, unlike these, never larger than the      *)
(* number of faults in the middle of a deletion.                            *)

\* A message becomes late in a channel that is deleted.
LateInv == \A m \in late : ChanOf[m] \in deleted

\* What a process knows of the file beyond Knows: a channel in use has its
\* record, a deletion has the count and the slot it works on, and SetChannel has
\* entered the channel in the lists of the participants before this one.
Progress(p) ==
    /\ pc[p] \in WritingMessage \cup {"AddChannelMessage"} /\ Log(p) \notin deleted
          => Log(p) \in channels
    /\ pc[p] \in {"add-slot", "add-count"} /\ msg[p] \notin late => Log(p) \in channels
    /\ pc[p] \in {"DelChannel", "del-count"} => idx[p] = 0
    /\ pc[p] \in Deleting \ {"del-count"} => msgCount[chan[p]] \in {0, cnt[p]}
    /\ pc[p] \in {"del-log", "del-channel"} => idx[p] >= cnt[p]
    /\ pc[p] \in {"del-record", "del-slot"} /\ idx[p] \in DOMAIN msgSlot[chan[p]]
          => msgSlot[chan[p]][idx[p]] = msg[p]
    /\ pc[p] \in {"set-slot", "set-count"}
          => \A k \in 1..(idx[p] - 1) : chan[p] \in Indexed(EncList[chan[p]][k])

ProgressInv == LateInv /\ \A p \in Procs : Progress(p)

\* The deletion p has left slot i of channel c behind, deleted or not.
Passed(p, c, i) ==
    /\ pc[p] \in Deleting /\ chan[p] = c
    /\ i < idx[p] \/ (i = idx[p] /\ pc[p] = "del-slot")

LEMMA PassedNext ==
    ASSUME NEW p \in Procs, NEW c, NEW i
    PROVE  Passed(p, c, i)' <=> /\ pc'[p] \in Deleting /\ chan'[p] = c
                                /\ i < idx'[p] \/ (i = idx'[p] /\ pc'[p] = "del-slot")
  BY DEF Passed

\* Message m is in a counted slot that every deletion has still to visit.
Holds(c, i, m) ==
    /\ i \in DOMAIN msgSlot[c] /\ i < msgCount[c] /\ msgSlot[c][i] = m
    /\ \A p \in Procs : ~ Passed(p, c, i)

Listable(m) == ChanOf[m] \in channels /\ \E i \in Nat : Holds(ChanOf[m], i, m)
Adds(m)     == \E p \in Procs : pc[p] \in WritingMessage /\ msg[p] = m
Kept(m)     == m \in late \/ Listable(m) \/ Adds(m)

Enlists(c)  == \E p \in Procs : pc[p] \in WritingChannel /\ chan[p] = c
Entered(c)  == c \in deleted \/ Enlists(c) \/ \A u \in Members(c) : c \in Indexed(u)

Orphans  == { m \in messages : ~ Kept(m) }
Unlisted == { c \in channels : ~ Entered(c) }

LossInv == /\ IsFiniteSet(messages) /\ IsFiniteSet(channels)
           /\ Cardinality(Orphans) + Cardinality(Unlisted) <= faults

\* What a step may do to them: nothing, or be a fault that adds one.
NoLoss == Orphans' \subseteq Orphans /\ Unlisted' \subseteq Unlisted

LosesMessage(m) ==
    Orphans' \subseteq Orphans \cup {m} /\ Unlisted' \subseteq Unlisted

LosesChannel(c) ==
    Orphans' \subseteq Orphans /\ Unlisted' \subseteq Unlisted \cup {c}

-----------------------------------------------------------------------------
\* A step of p keeps a message listable if it keeps a counted slot of it that p
\* has not left behind.
LEMMA ListableStep ==
    ASSUME NEW p \in Procs, \A q \in Procs \ {p} : Same(q),
           NEW m \in Messages, Listable(m), ChanOf[m] \in channels',
           \A i \in Nat : /\ i \in DOMAIN msgSlot[ChanOf[m]] /\ i < msgCount[ChanOf[m]]
                          /\ msgSlot[ChanOf[m]][i] = m /\ ~ Passed(p, ChanOf[m], i)
                          => /\ i \in DOMAIN msgSlot'[ChanOf[m]] /\ i < msgCount'[ChanOf[m]]
                             /\ msgSlot'[ChanOf[m]][i] = m /\ ~ Passed(p, ChanOf[m], i)'
    PROVE  Listable(m)'
  <1> DEFINE c == ChanOf[m]
  <1>1. PICK i \in Nat : Holds(c, i, m)
    BY DEF Listable
  <1>2. /\ i \in DOMAIN msgSlot'[c] /\ i < msgCount'[c]
        /\ msgSlot'[c][i] = m /\ ~ Passed(p, c, i)'
    BY <1>1 DEF Holds
  <1>3. ASSUME NEW q \in Procs \ {p} PROVE ~ Passed(q, c, i)'
    <2>1. ~ Passed(q, c, i) /\ Same(q)
      BY <1>1 DEF Holds
    <2> QED
      BY <2>1 DEF Passed, Same
  <1>4. Holds(c, i, m)'
    BY <1>2, <1>3 DEF Holds
  <1> QED
    BY <1>4 DEF Listable

\* The other processes go on adding what they add.
LEMMA OthersGoOn ==
    ASSUME NEW p \in Procs, \A q \in Procs \ {p} : Same(q)
    PROVE  /\ \A m \in Messages : Adds(m) =>
                 Adds(m)' \/ (pc[p] \in WritingMessage /\ msg[p] = m)
           /\ \A c \in Channels : Enlists(c) =>
                 Enlists(c)' \/ (pc[p] \in WritingChannel /\ chan[p] = c)
  BY DEF Same, Adds, Enlists

\* The sets of lost records, from what a step does to each record.
LEMMA OrphanStep ==
    ASSUME Inv', late \subseteq late', NEW S,
           \A m \in Messages : m \in messages' \ messages => Kept(m)',
           \A m \in Messages : m \in messages \cap messages' /\ Listable(m) => Kept(m)' \/ m \in S,
           \A m \in Messages : m \in messages \cap messages' /\ Adds(m) => Kept(m)' \/ m \in S
    PROVE  Orphans' \subseteq Orphans \cup S
  <1> SUFFICES ASSUME NEW m \in messages', ~ Kept(m)', m \notin S PROVE m \in messages /\ ~ Kept(m)
    BY DEF Orphans
  <1>1. m \in Messages
    BY DEF Inv, TypeOK, FileType
  <1>2. m \notin late
    BY DEF Kept
  <1> QED
    BY <1>1, <1>2 DEF Kept

LEMMA UnlistedStep ==
    ASSUME Inv', deleted \subseteq deleted', NEW S,
           \A c \in Channels : c \in channels' \ channels => Entered(c)',
           \A c \in Channels : Enlists(c) => Entered(c)' \/ c \in S,
           \A u \in Clients : Indexed(u) \subseteq Indexed(u)'
    PROVE  Unlisted' \subseteq Unlisted \cup S
  <1> SUFFICES ASSUME NEW c \in channels', ~ Entered(c)', c \notin S
               PROVE  c \in channels /\ ~ Entered(c)
    BY DEF Unlisted
  <1>1. c \in Channels
    BY DEF Inv, TypeOK, FileType
  <1>2. Members(c) \subseteq Clients
    BY <1>1, EncListAssumption DEF Members
  <1>3. c \notin deleted
    BY DEF Entered
  <1>4. (\A u \in Members(c) : c \in Indexed(u)) => \A u \in Members(c) : c \in Indexed(u)'
    BY <1>2
  <1>5. (\A u \in Members(c) : c \in Indexed(u)) => Entered(c)'
    BY <1>4 DEF Entered, Members
  <1> QED
    BY <1>1, <1>3, <1>5 DEF Entered

\* The actions of process p.
Acts(p) == \/ SetChannel(p) \/ AddChannelMessage(p) \/ DelChannel(p) \/ Listen(p)
           \/ WriteFails(p) \/ DeleteIgnored(p)

\* A step of p changes no local variable of another process, and no other
\* bookkeeping of deletions.
LEMMA OthersSame ==
    ASSUME Inv, NEW p \in Procs, Acts(p)
    PROVE  (\A q \in Procs \ {p} : Same(q)) /\ deleted' = deleted
  <1> USE DEF Same, Goto, Return, Call, file, index, logs, Inv, TypeOK, MemoryType
  <1>1. CASE SetChannel(p)
    BY <1>1 DEF SetChannel, CallSetChannel, SetChannelLock, SetChannelRecord, SetChannelSlot,
       SetChannelCount
  <1>2. CASE AddChannelMessage(p)
    BY <1>2 DEF AddChannelMessage, CallAddMessage, AddMessageLock, AddMessageRecord,
       AddMessageSlot, AddMessageCount
  <1>3. CASE DelChannel(p)
    BY <1>3 DEF DelChannel, CallDelChannel, DelChannelLock, DelChannelCount, DelChannelNext,
       DelChannelRecord, DelChannelSlot, DelChannelLog, DelChannelEnd
  <1>4. CASE Listen(p)
    BY <1>4 DEF Listen, CallListen, ListenCount, ListenTimeout, ListenSlot, ListenLoad
  <1>5. CASE WriteFails(p) \/ DeleteIgnored(p)
    BY <1>5 DEF WriteFails, DeleteIgnored
  <1> QED
    BY <1>1, <1>2, <1>3, <1>4, <1>5 DEF Acts

\* The logs lose slots and counts, and nothing else.
Shrinks ==
    \A c \in Channels :
        /\ msgCount'[c] \in {0, msgCount[c]}
        /\ \A i \in DOMAIN msgSlot'[c] : /\ i \in DOMAIN msgSlot[c]
                                         /\ msgSlot'[c][i] = msgSlot[c][i]

\* What the other processes know of the file stays true: nobody else writes
\* while one writes, and deletions run only with deletions.
LEMMA OthersProgress ==
    ASSUME Inv, NEW p \in Procs, NEW q \in Procs \ {p}, Same(q), Progress(q),
           deleted' = deleted, late \subseteq late', channels \ deleted \subseteq channels',
           UNCHANGED file \/ pc[p] \in Writing \/ (pc[p] \in Deleting /\ Shrinks)
    PROVE  Progress(q)'
  <1>1. /\ Log(q)' = Log(q)
        /\ pc'[q] = pc[q] /\ chan'[q] = chan[q] /\ msg'[q] = msg[q]
        /\ idx'[q] = idx[q] /\ cnt'[q] = cnt[q]
    BY DEF Log, Same
  <1>2. CASE UNCHANGED file
    <2>1. UNCHANGED <<channels, chanSlot, chanCount, msgSlot, msgCount, late, deleted>>
      BY <1>2 DEF file, index, logs
    <2>2. \A u : Indexed(u)' = Indexed(u)
      BY <2>1 DEF Indexed
    <2> QED
      BY <1>1, <2>1, <2>2 DEF Progress
  <1>3. CASE pc[p] \in Writing
    <2>1. pc[q] \notin Writing /\ pc[q] \notin Deleting
      BY <1>3, Exclusive
    <2> QED
      BY <1>1, <2>1 DEF Progress
  <1>4. CASE pc[p] \in Deleting /\ Shrinks
    <2>1. pc[q] \notin Writing
      BY <1>4, Exclusive
    <2>2. pc[q] \in Deleting => chan[q] \in Channels
      BY DEF Inv, Knows, Local
    <2>3. pc[q] \in Deleting \ {"del-count"} => msgCount'[chan[q]] \in {0, cnt[q]}
      BY <1>4, <2>2 DEF Progress, Shrinks
    <2>4. pc[q] \in {"del-record", "del-slot"} /\ idx[q] \in DOMAIN msgSlot'[chan[q]]
             => msgSlot'[chan[q]][idx[q]] = msg[q]
      BY <1>4, <2>2 DEF Progress, Shrinks
    <2> QED
      BY <1>1, <2>1, <2>3, <2>4 DEF Progress
  <1> QED
    BY <1>2, <1>3, <1>4

LEMMA ProgressStep ==
    ASSUME Inv, ProgressInv, NEW p \in Procs, Acts(p), Progress(p)', LateInv',
           late \subseteq late', channels \ deleted \subseteq channels',
           UNCHANGED file \/ pc[p] \in Writing \/ (pc[p] \in Deleting /\ Shrinks)
    PROVE  ProgressInv'
  <1>1. (\A q \in Procs \ {p} : Same(q)) /\ deleted' = deleted
    BY OthersSame
  <1>2. ASSUME NEW q \in Procs \ {p} PROVE Progress(q)'
    BY <1>1, OthersProgress DEF ProgressInv
  <1> QED
    BY <1>2 DEF ProgressInv

\* A step of p that leaves the file alone: it loses at most what p was writing
\* and the message of the slot that its deletion leaves behind.
LEMMA ControlLoss ==
    ASSUME Inv, Inv', NEW p \in Procs, Acts(p), UNCHANGED file, NEW S, NEW T,
           pc[p] \in WritingMessage => msg[p] \in S,
           pc[p] \in WritingChannel => chan[p] \in T,
           \A c \in Channels : \A i \in Nat :
              Passed(p, c, i)' => \/ Passed(p, c, i) \/ i \notin DOMAIN msgSlot[c]
                                  \/ ~ (i < msgCount[c]) \/ msgSlot[c][i] \in S
    PROVE  Orphans' \subseteq Orphans \cup S /\ Unlisted' \subseteq Unlisted \cup T
  <1>1. UNCHANGED <<channels, chanSlot, chanCount, messages, msgSlot, msgCount, late, deleted>>
    BY DEF file, index, logs
  <1>2. \A q \in Procs \ {p} : Same(q)
    BY OthersSame
  <1>3. Orphans' \subseteq Orphans \cup S
    <2>1. ASSUME NEW m \in Messages, Listable(m), m \notin S PROVE Listable(m)'
      <3>1. ASSUME NEW i \in Nat, i \in DOMAIN msgSlot[ChanOf[m]], i < msgCount[ChanOf[m]],
                   msgSlot[ChanOf[m]][i] = m, ~ Passed(p, ChanOf[m], i)
            PROVE  ~ Passed(p, ChanOf[m], i)'
        <4>1. ChanOf[m] \in Channels /\ msgCount[ChanOf[m]] \in Nat
          BY DEF Inv, TypeOK, FileType
        <4> QED
          BY <2>1, <3>1, <4>1 DEF Passed
      <3>2. ChanOf[m] \in channels'
        BY <1>1, <2>1 DEF Listable
      <3> QED
        BY <1>1, <1>2, <2>1, <3>1, <3>2, ListableStep
    <2>2. ASSUME NEW m \in Messages, Adds(m), m \notin S PROVE Adds(m)'
      BY <1>2, <2>2, OthersGoOn
    <2> QED
      BY <1>1, <2>1, <2>2, OrphanStep DEF Kept
  <1>4. Unlisted' \subseteq Unlisted \cup T
    <2>1. \A u \in Clients : Indexed(u)' = Indexed(u)
      BY <1>1 DEF Indexed
    <2>2. ASSUME NEW c \in Channels, Enlists(c), c \notin T PROVE Enlists(c)'
      BY <1>2, <2>2, OthersGoOn
    <2> QED
      BY <1>1, <2>1, <2>2, UnlistedStep DEF Entered
  <1> QED
    BY <1>3, <1>4

\* ... and it keeps what is known of the file, if p knows it after the step.
LEMMA ControlProgress ==
    ASSUME Inv, ProgressInv, NEW p \in Procs, Acts(p), UNCHANGED file, Progress(p)'
    PROVE  ProgressInv'
  <1>1. UNCHANGED <<channels, late, deleted>>
    BY DEF file, index, logs
  <1> QED
    BY <1>1, ProgressStep DEF ProgressInv, LateInv

-----------------------------------------------------------------------------
(* The steps that write nothing. *)

\* What such a step of p, other than a fault, does.
Quiet(p) ==
    /\ UNCHANGED file /\ faults' = faults /\ pc[p] \notin Writing /\ Progress(p)'
    /\ \A c \in Channels : \A i \in Nat :
          Passed(p, c, i)' => Passed(p, c, i) \/ i \notin DOMAIN msgSlot[c]

\* What is to be shown of every step.
Safe ==
    /\ ProgressInv'
    /\ \/ NoLoss /\ faults' = faults
       \/ /\ faults' = faults + 1
          /\ \/ NoLoss
             \/ \E m \in Messages : LosesMessage(m)
             \/ \E c \in Channels : LosesChannel(c)

LEMMA QuietStep ==
    ASSUME Inv, Inv', ProgressInv, NEW p \in Procs, Acts(p), Quiet(p)
    PROVE  Safe
  <1>1. UNCHANGED file /\ faults' = faults /\ pc[p] \notin Writing /\ Progress(p)'
    BY DEF Quiet
  <1>2. ProgressInv'
    BY <1>1, ControlProgress
  <1>3. NoLoss
    <2>1. \A c \in Channels : \A i \in Nat :
             Passed(p, c, i)' => \/ Passed(p, c, i) \/ i \notin DOMAIN msgSlot[c]
                                 \/ ~ (i < msgCount[c]) \/ msgSlot[c][i] \in {}
      BY DEF Quiet
    <2>2. Orphans' \subseteq Orphans \cup {} /\ Unlisted' \subseteq Unlisted \cup {}
      BY <1>1, <2>1, ControlLoss
    <2> QED
      BY <2>2 DEF NoLoss
  <1> QED
    BY <1>1, <1>2, <1>3 DEF Safe

\* A process that is not deleting afterwards has left nothing behind.
LEMMA NotDeleting ==
    ASSUME NEW p \in Procs, pc'[p] \notin Deleting
    PROVE  \A c \in Channels : \A i \in Nat : ~ Passed(p, c, i)'
  BY DEF Passed

\* A call whose guard was read before.
LEMMA QuietCalls ==
    ASSUME Inv, Inv', ProgressInv, NEW p \in Procs,
           \/ \E c \in Channels : CallSetChannel(p, c) \/ CallDelChannel(p, c)
           \/ \E c \in Channels : \E i \in 0..msgCount[c] : CallListen(p, c, i)
           \/ \E m \in Messages : CallAddMessage(p, m)
    PROVE  Safe
  <1>1. Acts(p)
    BY DEF Acts, SetChannel, DelChannel, AddChannelMessage, Listen
  <1>2. /\ UNCHANGED file /\ faults' = faults /\ pc[p] = "idle"
        /\ pc'[p] \in {"SetChannel", "DelChannel", "AddChannelMessage", "Listen"}
        /\ pc'[p] = "DelChannel" => idx'[p] = 0
        /\ pc'[p] = "AddChannelMessage" => ChanOf[msg'[p]] \in channels
    BY DEF CallSetChannel, CallDelChannel, CallListen, CallAddMessage, Call, Goto, Inv, TypeOK,
       MemoryType
  <1>3. channels' = channels
    BY <1>2 DEF file
  <1>4. Progress(p)'
    BY <1>2, <1>3 DEF Progress, Log
  <1>5. Quiet(p)
    BY <1>2, <1>4, NotDeleting DEF Quiet
  <1> QED
    BY <1>1, <1>5, QuietStep

\* A lock taken, or a record that was there already or is not there.
LEMMA QuietLocks ==
    ASSUME Inv, Inv', ProgressInv, NEW p \in Procs,
           SetChannelLock(p) \/ AddMessageLock(p) \/ DelChannelLock(p)
    PROVE  Safe
  <1>1. Acts(p)
    BY DEF Acts, SetChannel, DelChannel, AddChannelMessage
  <1>2. /\ UNCHANGED file /\ faults' = faults
        /\ pc[p] \in {"SetChannel", "AddChannelMessage", "DelChannel"}
        /\ pc'[p] \in {"idle", "set-record", "add-record", "del-count"}
        /\ pc'[p] = "add-record" => pc[p] = "AddChannelMessage" /\ msg'[p] = msg[p]
        /\ pc'[p] = "del-count" => pc[p] = "DelChannel" /\ idx'[p] = idx[p]
    BY DEF SetChannelLock, AddMessageLock, DelChannelLock, Return, Goto, Inv, TypeOK, MemoryType
  <1>3. UNCHANGED <<channels, deleted, late>>
    BY <1>2 DEF file, logs
  <1>4. Progress(p)
    BY DEF ProgressInv
  <1>5. Progress(p)'
    BY <1>2, <1>3, <1>4 DEF Progress, Log
  <1>6. Quiet(p)
    <2>1. pc'[p] = "del-count" => idx'[p] = 0
      BY <1>2, <1>4 DEF Progress
    <2>2. idx'[p] \in Nat
      BY DEF Inv, TypeOK, MemoryType
    <2>3. \A c \in Channels : \A i \in Nat : ~ Passed(p, c, i)'
      BY <1>2, <2>1, <2>2, PassedNext
    <2> QED
      BY <1>2, <1>5, <2>3 DEF Quiet, Passed
  <1> QED
    BY <1>1, <1>6, QuietStep

\* A read of a log.
LEMMA QuietListen ==
    ASSUME Inv, Inv', ProgressInv, NEW p \in Procs,
           ListenCount(p) \/ ListenTimeout(p) \/ ListenSlot(p) \/ ListenLoad(p)
    PROVE  Safe
  <1>1. Acts(p)
    BY DEF Acts, Listen
  <1>2. /\ UNCHANGED file /\ faults' = faults
        /\ pc[p] \in {"Listen", "listen-slot", "listen-load"}
        /\ pc'[p] \in {"idle", "listen-slot", "listen-load"}
    BY DEF ListenCount, ListenTimeout, ListenSlot, ListenLoad, Return, Goto, Inv, TypeOK,
       MemoryType
  <1>3. Quiet(p)
    BY <1>2, NotDeleting DEF Quiet, Progress
  <1> QED
    BY <1>1, <1>3, QuietStep

\* DelChannel reads the count, before it has visited any slot.
LEMMA QuietDelCount ==
    ASSUME Inv, Inv', ProgressInv, NEW p \in Procs, DelChannelCount(p)
    PROVE  Safe
  <1>1. Acts(p)
    BY DEF Acts, DelChannel
  <1>2. /\ UNCHANGED file /\ faults' = faults /\ pc[p] = "del-count" /\ pc'[p] = "del-next"
        /\ chan'[p] = chan[p] /\ idx'[p] = idx[p] /\ cnt'[p] = msgCount[chan[p]]
        /\ idx'[p] \in Nat
    BY DEF DelChannelCount, Goto, Inv, TypeOK, MemoryType
  <1>3. msgCount' = msgCount
    BY <1>2 DEF file, logs
  <1>4. idx[p] = 0
    BY <1>2 DEF ProgressInv, Progress
  <1>5. Progress(p)'
    BY <1>2, <1>3 DEF Progress
  <1>6. \A c \in Channels : \A i \in Nat : ~ Passed(p, c, i)'
    BY <1>2, <1>4, PassedNext
  <1> QED
    BY <1>1, <1>2, <1>5, <1>6, QuietStep DEF Quiet

\* The head of the loop of DelChannel passes only a slot that is absent.
LEMMA QuietDelNext ==
    ASSUME Inv, Inv', ProgressInv, NEW p \in Procs, DelChannelNext(p)
    PROVE  Safe
  <1>1. Acts(p)
    BY DEF Acts, DelChannel
  <1>2. /\ UNCHANGED file /\ faults' = faults /\ pc[p] = "del-next"
        /\ chan'[p] = chan[p] /\ cnt'[p] = cnt[p] /\ idx[p] \in Nat /\ cnt[p] \in Nat
        /\ idx'[p] \in Nat
        /\ \/ /\ pc'[p] = "del-record" /\ idx'[p] = idx[p]
              /\ msg'[p] = msgSlot[chan[p]][idx[p]]
           \/ /\ pc'[p] = "del-next" /\ idx'[p] = idx[p] + 1
              /\ idx[p] \notin DOMAIN msgSlot[chan[p]]
           \/ pc'[p] = "del-log" /\ idx'[p] = idx[p] /\ idx[p] >= cnt[p]
    BY DEF DelChannelNext, Goto, Inv, TypeOK, MemoryType
  <1>3. UNCHANGED <<msgCount, msgSlot>>
    BY <1>2 DEF file, logs
  <1>4. msgCount[chan[p]] \in {0, cnt[p]}
    BY <1>2 DEF ProgressInv, Progress
  <1>5. Progress(p)'
    BY <1>2, <1>3, <1>4 DEF Progress
  <1>6. ASSUME NEW c \in Channels, NEW i \in Nat, Passed(p, c, i)'
        PROVE  Passed(p, c, i) \/ i \notin DOMAIN msgSlot[c]
    BY <1>2, <1>6, PassedNext DEF Passed
  <1> QED
    BY <1>1, <1>2, <1>5, <1>6, QuietStep DEF Quiet

-----------------------------------------------------------------------------
(* The faults. *)

\* A failed write loses the record that p was writing, if it was writing one.
LEMMA WriteFailsLoss ==
    ASSUME Inv, Inv', ProgressInv, NEW p \in Procs, WriteFails(p)
    PROVE  Safe
  <1>1. Acts(p)
    BY DEF Acts
  <1>2. /\ UNCHANGED file /\ faults' = faults + 1
        /\ pc[p] \in WritingChannel \cup WritingMessage \cup {"del-channel"}
        /\ pc'[p] = "idle"
    BY DEF WriteFails, Return, Goto, Inv, TypeOK, MemoryType
  <1>3. ProgressInv'
    <2>1. Progress(p)'
      BY <1>2 DEF Progress
    <2> QED
      BY <1>1, <1>2, <2>1, ControlProgress
  <1>4. \A c \in Channels : \A i \in Nat : ~ Passed(p, c, i)'
    BY <1>2, NotDeleting
  <1>5. CASE pc[p] \in WritingMessage
    <2>1. msg[p] \in Messages
      BY <1>5 DEF Inv, Knows, Local
    <2>0. pc[p] \notin WritingChannel /\ msg[p] \in {msg[p]}
      BY <1>5
    <2>2. Orphans' \subseteq Orphans \cup {msg[p]} /\ Unlisted' \subseteq Unlisted \cup {}
      BY <1>1, <1>2, <1>4, <2>0, ControlLoss
    <2>3. LosesMessage(msg[p])
      BY <2>2 DEF LosesMessage
    <2> QED
      BY <1>2, <1>3, <2>1, <2>3 DEF Safe
  <1>6. CASE pc[p] \in WritingChannel
    <2>1. chan[p] \in Channels
      BY <1>6 DEF Inv, Knows, Local
    <2>2. Orphans' \subseteq Orphans \cup {} /\ Unlisted' \subseteq Unlisted \cup {chan[p]}
      BY <1>1, <1>2, <1>4, <1>6, ControlLoss
    <2>3. LosesChannel(chan[p])
      BY <2>2 DEF LosesChannel
    <2> QED
      BY <1>2, <1>3, <2>1, <2>3 DEF Safe
  <1>7. CASE pc[p] = "del-channel"
    <2>1. Orphans' \subseteq Orphans \cup {} /\ Unlisted' \subseteq Unlisted \cup {}
      BY <1>1, <1>2, <1>4, <1>7, ControlLoss
    <2> QED
      BY <1>2, <1>3, <2>1 DEF Safe, NoLoss
  <1> QED
    BY <1>2, <1>5, <1>6, <1>7

\* A deletion whose error is ignored leaves the message of its slot behind.
LEMMA DeleteIgnoredLoss ==
    ASSUME Inv, Inv', ProgressInv, NEW p \in Procs, DeleteIgnored(p)
    PROVE  Safe
  <1>1. Acts(p)
    BY DEF Acts
  <1>2. /\ UNCHANGED file /\ faults' = faults + 1
        /\ chan'[p] = chan[p] /\ msg'[p] = msg[p] /\ cnt'[p] = cnt[p]
        /\ idx[p] \in Nat /\ idx'[p] \in Nat /\ cnt[p] \in Nat
        /\ \/ pc[p] = "del-record" /\ pc'[p] = "del-slot" /\ idx'[p] = idx[p]
           \/ pc[p] = "del-slot" /\ pc'[p] = "del-next" /\ idx'[p] = idx[p] + 1
           \/ pc[p] = "del-log" /\ pc'[p] = "del-channel" /\ idx'[p] = idx[p]
    BY DEF DeleteIgnored, Goto, Inv, TypeOK, MemoryType
  <1>3. UNCHANGED <<msgSlot, msgCount>>
    BY <1>2 DEF file, logs
  <1>4. Progress(p) /\ msg[p] \in Messages \cup {None} /\ chan[p] \in Channels
    BY <1>2 DEF ProgressInv, Inv, Knows, Local, TypeOK, MemoryType
  <1>5. ProgressInv'
    <2>1. Progress(p)'
      BY <1>2, <1>3, <1>4 DEF Progress
    <2> QED
      BY <1>1, <1>2, <2>1, ControlProgress
  <1>6. ASSUME NEW c \in Channels, NEW i \in Nat, Passed(p, c, i)'
        PROVE  \/ Passed(p, c, i) \/ i \notin DOMAIN msgSlot[c]
               \/ pc[p] = "del-record" /\ msgSlot[c][i] = msg[p]
    <2>1. CASE pc[p] = "del-record"
      <3>1. chan[p] = c /\ (i < idx[p] \/ i = idx[p])
        BY <1>2, <1>6, <2>1, PassedNext
      <3>2. i = idx[p] /\ i \in DOMAIN msgSlot[c] => msgSlot[c][i] = msg[p]
        BY <1>4, <2>1, <3>1 DEF Progress
      <3>3. i < idx[p] => Passed(p, c, i)
        BY <2>1, <3>1 DEF Passed
      <3> QED
        BY <2>1, <3>1, <3>2, <3>3
    <2>2. CASE pc[p] # "del-record"
      BY <1>2, <1>6, <2>2 DEF Passed
    <2> QED
      BY <2>1, <2>2
  <1>7. CASE pc[p] = "del-record"
    <2>1. msg[p] \in Messages
      BY <1>7 DEF Inv, Knows, Local
    <2>2. \A c \in Channels : \A i \in Nat :
             Passed(p, c, i)' => \/ Passed(p, c, i) \/ i \notin DOMAIN msgSlot[c]
                                 \/ ~ (i < msgCount[c]) \/ msgSlot[c][i] \in {msg[p]}
      BY <1>6
    <2>3. Orphans' \subseteq Orphans \cup {msg[p]} /\ Unlisted' \subseteq Unlisted \cup {}
      BY <1>1, <1>2, <1>7, <2>2, ControlLoss
    <2>4. LosesMessage(msg[p])
      BY <2>3 DEF LosesMessage
    <2> QED
      BY <1>2, <1>5, <2>1, <2>4 DEF Safe
  <1>8. CASE pc[p] # "del-record"
    <2>1. \A c \in Channels : \A i \in Nat :
             Passed(p, c, i)' => \/ Passed(p, c, i) \/ i \notin DOMAIN msgSlot[c]
                                 \/ ~ (i < msgCount[c]) \/ msgSlot[c][i] \in {}
      BY <1>6, <1>8
    <2>2. Orphans' \subseteq Orphans \cup {} /\ Unlisted' \subseteq Unlisted \cup {}
      BY <1>1, <1>2, <1>8, <2>1, ControlLoss
    <2> QED
      BY <1>2, <1>5, <2>2 DEF Safe, NoLoss
  <1> QED
    BY <1>7, <1>8

\* A crash ends every deletion, and loses what the writer was writing: there is
\* one writer at most.
LEMMA CrashLoss ==
    ASSUME Inv, Inv', ProgressInv, Crash
    PROVE  Safe
  <1>1. /\ UNCHANGED <<channels, chanSlot, chanCount, messages, msgSlot, msgCount, late, deleted>>
        /\ faults' = faults + 1 /\ \A p \in Procs : pc'[p] = "idle"
    BY DEF Crash, file, index, logs
  <1>2. ProgressInv'
    BY <1>1 DEF ProgressInv, LateInv, Progress
  <1>3. \A m \in Messages : Listable(m) => Listable(m)'
    <2>1. \A c \in Channels : \A i \in Nat : \A m \in Messages : Holds(c, i, m) => Holds(c, i, m)'
      BY <1>1 DEF Holds, Passed
    <2>2. \A m \in Messages : ChanOf[m] \in Channels
      OBVIOUS
    <2> QED
      BY <1>1, <2>1, <2>2 DEF Listable
  <1>4. \A u \in Clients : Indexed(u)' = Indexed(u)
    BY <1>1 DEF Indexed
  <1>5. ASSUME NEW S, \A m \in Messages : Adds(m) => m \in S
        PROVE  Orphans' \subseteq Orphans \cup S
    BY <1>1, <1>3, <1>5, OrphanStep DEF Kept
  <1>6. ASSUME NEW T, \A c \in Channels : Enlists(c) => c \in T
        PROVE  Unlisted' \subseteq Unlisted \cup T
    BY <1>1, <1>4, <1>6, UnlistedStep
  <1>7. \A p \in Procs : pc[p] \in Writing => writer = p
    BY DEF Inv, MutexInv
  <1>8. CASE \E p \in Procs : pc[p] \in WritingMessage
    <2>1. PICK p \in Procs : pc[p] \in WritingMessage
      BY <1>8
    <2>2. msg[p] \in Messages
      BY <2>1 DEF Inv, Knows, Local
    <2>3. \A q \in Procs \ {p} : pc[q] \notin Writing
      BY <1>7, <2>1
    <2>4. \A m \in Messages : Adds(m) => m \in {msg[p]}
      BY <2>3 DEF Adds
    <2>5. \A c \in Channels : Enlists(c) => c \in {}
      BY <2>1, <2>3 DEF Enlists
    <2>6. Orphans' \subseteq Orphans \cup {msg[p]} /\ Unlisted' \subseteq Unlisted \cup {}
      BY <1>5, <1>6, <2>4, <2>5
    <2>7. LosesMessage(msg[p])
      BY <2>6 DEF LosesMessage
    <2> QED
      BY <1>1, <1>2, <2>2, <2>7 DEF Safe
  <1>9. CASE \E p \in Procs : pc[p] \in WritingChannel
    <2>1. PICK p \in Procs : pc[p] \in WritingChannel
      BY <1>9
    <2>2. chan[p] \in Channels
      BY <2>1 DEF Inv, Knows, Local
    <2>3. \A q \in Procs \ {p} : pc[q] \notin Writing
      BY <1>7, <2>1
    <2>4. \A c \in Channels : Enlists(c) => c \in {chan[p]}
      BY <2>3 DEF Enlists
    <2>5. \A m \in Messages : Adds(m) => m \in {}
      BY <2>1, <2>3 DEF Adds
    <2>6. Orphans' \subseteq Orphans \cup {} /\ Unlisted' \subseteq Unlisted \cup {chan[p]}
      BY <1>5, <1>6, <2>4, <2>5
    <2>7. LosesChannel(chan[p])
      BY <2>6 DEF LosesChannel
    <2> QED
      BY <1>1, <1>2, <2>2, <2>7 DEF Safe
  <1>10. CASE \A p \in Procs : pc[p] \notin Writing
    <2>1. (\A m \in Messages : Adds(m) => m \in {}) /\ (\A c \in Channels : Enlists(c) => c \in {})
      BY <1>10 DEF Adds, Enlists
    <2>2. Orphans' \subseteq Orphans \cup {} /\ Unlisted' \subseteq Unlisted \cup {}
      BY <1>5, <1>6, <2>1
    <2> QED
      BY <1>1, <1>2, <2>2 DEF Safe, NoLoss
  <1> QED
    BY <1>8, <1>9, <1>10

\* The user marks a channel as deleted: nothing is lost by that.
LEMMA MarkDeletedLoss ==
    ASSUME Inv, Inv', ProgressInv, NEW d \in Channels, MarkDeleted(d)
    PROVE  Safe
  <1>1. /\ UNCHANGED <<channels, chanSlot, chanCount, messages, msgSlot, msgCount, late>>
        /\ UNCHANGED <<pc, chan, msg, idx, cnt, faults>> /\ deleted \subseteq deleted'
    BY DEF MarkDeleted, index, logs, local
  <1>2. \A u : Indexed(u)' = Indexed(u)
    BY <1>1 DEF Indexed
  <1>3. ASSUME NEW q \in Procs PROVE Progress(q)'
    <2>1. Log(q)' = Log(q) /\ Progress(q)
      BY <1>1 DEF Log, ProgressInv
    <2> QED
      BY <1>1, <1>2, <2>1 DEF Progress
  <1>4. ProgressInv'
    BY <1>1, <1>3 DEF ProgressInv, LateInv
  <1>5. \A m \in Messages : (Listable(m) => Listable(m)') /\ (Adds(m) => Adds(m)')
    BY <1>1 DEF Listable, Holds, Passed, Adds
  <1>6. \A c \in Channels : Enlists(c) => Enlists(c)'
    BY <1>1 DEF Enlists
  <1>7. Orphans' \subseteq Orphans \cup {}
    BY <1>1, <1>5, OrphanStep DEF Kept
  <1>8. Unlisted' \subseteq Unlisted \cup {}
    BY <1>1, <1>2, <1>6, UnlistedStep DEF Entered
  <1> QED
    BY <1>1, <1>4, <1>7, <1>8 DEF Safe, NoLoss

-----------------------------------------------------------------------------
(* The writes of SetChannel and AddChannelMessage. *)

\* A step of p that leaves the logs alone.
LEMMA LogsAlone ==
    ASSUME Inv, Inv', NEW p \in Procs, Acts(p), UNCHANGED <<messages, msgSlot, msgCount, late>>,
           channels \subseteq channels', pc[p] \notin WritingMessage, pc'[p] \notin Deleting
    PROVE  Orphans' \subseteq Orphans
  <1>1. \A q \in Procs \ {p} : Same(q)
    BY OthersSame
  <1>2. ASSUME NEW m \in Messages, Listable(m) PROVE Listable(m)'
    <2>1. ChanOf[m] \in channels' /\ ChanOf[m] \in Channels
      BY <1>2 DEF Listable
    <2>2. \A i \in Nat : ~ Passed(p, ChanOf[m], i)'
      BY DEF Passed
    <2> QED
      BY <1>1, <1>2, <2>1, <2>2, ListableStep
  <1>3. \A m \in Messages : Adds(m) => Adds(m)'
    BY <1>1, OthersGoOn
  <1>4. Orphans' \subseteq Orphans \cup {}
    BY <1>2, <1>3, OrphanStep DEF Kept
  <1> QED
    BY <1>4

\* A step of p that leaves the lists of channels alone.
LEMMA ListsAlone ==
    ASSUME Inv, Inv', NEW p \in Procs, Acts(p), UNCHANGED <<chanSlot, chanCount>>,
           channels' \subseteq channels, pc[p] \notin WritingChannel
    PROVE  Unlisted' \subseteq Unlisted
  <1>1. (\A q \in Procs \ {p} : Same(q)) /\ deleted' = deleted
    BY OthersSame
  <1>2. \A c \in Channels : Enlists(c) => Enlists(c)'
    BY <1>1, OthersGoOn
  <1>3. \A u \in Clients : Indexed(u)' = Indexed(u)
    BY DEF Indexed
  <1>4. Unlisted' \subseteq Unlisted \cup {}
    BY <1>1, <1>2, <1>3, UnlistedStep DEF Entered
  <1> QED
    BY <1>4

\* SetChannel writes the record, which it will list, or has no list to enter it in.
LEMMA SetChannelRecordLoss ==
    ASSUME Inv, Inv', ProgressInv, NEW p \in Procs, SetChannelRecord(p)
    PROVE  Safe
  <1>1. Acts(p)
    BY DEF Acts, SetChannel
  <1>2. /\ pc[p] = "set-record" /\ channels' = channels \cup {chan[p]} /\ faults' = faults
        /\ UNCHANGED <<chanSlot, chanCount, messages, msgSlot, msgCount, late, deleted>>
        /\ \/ EncList[chan[p]] = <<>> /\ pc'[p] = "idle"
           \/ pc'[p] = "set-slot" /\ chan'[p] = chan[p] /\ idx'[p] = idx[p]
    BY DEF SetChannelRecord, Return, Goto, index, logs, Inv, TypeOK, MemoryType
  <1>3. chan[p] \in Channels /\ idx[p] = 1
    BY <1>2 DEF Inv, Knows, Local
  <1>4. ProgressInv'
    <2>1. Progress(p)'
      BY <1>2, <1>3 DEF Progress
    <2> QED
      BY <1>1, <1>2, <2>1, ProgressStep DEF ProgressInv, LateInv
  <1>5. PICK c \in Channels : c = chan[p]
    BY <1>3
  <1>6. Unlisted' \subseteq Unlisted \cup {}
    <2>1. \A q \in Procs \ {p} : Same(q)
      BY <1>1, OthersSame
    <2>2. Entered(c)'
      <3>1. CASE EncList[c] = <<>>
        BY <3>1 DEF Entered, Members
      <3>2. CASE pc'[p] = "set-slot" /\ chan'[p] = c
        BY <3>2 DEF Entered, Enlists
      <3> QED
        BY <1>2, <1>5, <3>1, <3>2
    <2>3. \A d \in Channels : Enlists(d) => Entered(d)'
      <3>1. ASSUME NEW d \in Channels, Enlists(d), d # c PROVE Entered(d)'
        BY <1>5, <2>1, <3>1, OthersGoOn DEF Entered
      <3> QED
        BY <2>2, <3>1
    <2>4. \A u \in Clients : Indexed(u)' = Indexed(u)
      BY <1>2 DEF Indexed
    <2>5. \A d \in Channels : d \in channels' \ channels => Entered(d)'
      BY <1>2, <1>5, <2>2
    <2> QED
      BY <1>2, <2>3, <2>4, <2>5, UnlistedStep
  <1>7. Orphans' \subseteq Orphans
    BY <1>1, <1>2, LogsAlone
  <1> QED
    BY <1>2, <1>4, <1>6, <1>7 DEF Safe, NoLoss

\* SetChannel writes the slot behind the counted ones.
LEMMA SetChannelSlotLoss ==
    ASSUME Inv, Inv', ProgressInv, NEW p \in Procs, SetChannelSlot(p)
    PROVE  Safe
  <1>1. Acts(p)
    BY DEF Acts, SetChannel
  <1>2. /\ pc[p] = "set-slot" /\ pc'[p] = "set-count" /\ faults' = faults
        /\ chanSlot' = [chanSlot EXCEPT ![Member(p)] = Set(@, chanCount[Member(p)], chan[p])]
        /\ chan'[p] = chan[p] /\ idx'[p] = idx[p]
        /\ UNCHANGED <<channels, chanCount, messages, msgSlot, msgCount, late, deleted>>
    BY DEF SetChannelSlot, Goto, logs, Inv, TypeOK, MemoryType, Member
  <1>3. chan[p] \in Channels /\ Progress(p)
    BY <1>2 DEF Inv, Knows, Local, ProgressInv
  <1>4. ASSUME NEW u \in Clients PROVE Indexed(u)' = Indexed(u)
    <2>1. /\ chanCount'[u] = chanCount[u] /\ chanCount[u] \in Nat
          /\ DOMAIN chanSlot = Clients /\ \A i \in 0..(chanCount[u] - 1) : i \in DOMAIN chanSlot[u]
      BY <1>2 DEF Inv, TypeOK, FileType, ChannelIndexSound
    <2>2. \A i \in 0..(chanCount[u] - 1) : chanSlot'[u][i] = chanSlot[u][i]
      <3>1. CASE u = Member(p)
        <4>1. chanSlot'[u] = Set(chanSlot[u], chanCount[u], chan[p])
          BY <1>2, <2>1, <3>1
        <4>2. \A i \in DOMAIN chanSlot[u] : i # chanCount[u] => chanSlot'[u][i] = chanSlot[u][i]
          BY <4>1 DEF Set
        <4>3. \A i \in 0..(chanCount[u] - 1) : i # chanCount[u]
          BY <2>1
        <4> QED
          BY <2>1, <4>2, <4>3
      <3>2. CASE u # Member(p)
        BY <1>2, <2>1, <3>2
      <3> QED
        BY <3>1, <3>2
    <2> QED
      BY <2>1, <2>2 DEF Indexed
  <1>5. ProgressInv'
    <2>1. \A k \in 1..(idx[p] - 1) : chan[p] \in Indexed(EncList[chan[p]][k])
      BY <1>2, <1>3 DEF Progress
    <2>2. \A k \in 1..(idx[p] - 1) : EncList[chan[p]][k] \in Clients
      <3>1. idx[p] \in 1..Len(EncList[chan[p]]) /\ EncList[chan[p]] \in Seq(Clients)
        BY <1>2, <1>3, EncListAssumption DEF Inv, Knows, Setting
      <3>2. Len(EncList[chan[p]]) \in Nat /\ \A k \in 1..Len(EncList[chan[p]]) : EncList[chan[p]][k] \in Clients
        BY <3>1
      <3>3. \A k \in 1..(idx[p] - 1) : k \in 1..Len(EncList[chan[p]])
        BY <3>1, <3>2
      <3> QED
        BY <3>2, <3>3
    <2>3. PICK c \in Channels : c = chan[p]
      BY <1>3
    <2>4. \A k \in 1..(idx[p] - 1) : c \in Indexed(EncList[c][k])'
      BY <1>4, <2>1, <2>2, <2>3
    <2>5. Progress(p)'
      BY <1>2, <2>3, <2>4 DEF Progress, Indexed
    <2> QED
      BY <1>1, <1>2, <2>5, ProgressStep DEF ProgressInv, LateInv
  <1>6. Unlisted' \subseteq Unlisted \cup {}
    <2>1. \A q \in Procs \ {p} : Same(q)
      BY <1>1, OthersSame
    <2>2. \A c \in Channels : Enlists(c) => Enlists(c)'
      BY <1>2, <2>1 DEF Enlists, Same
    <2> QED
      BY <1>2, <1>4, <2>2, UnlistedStep DEF Entered
  <1>7. Orphans' \subseteq Orphans
    BY <1>1, <1>2, LogsAlone
  <1> QED
    BY <1>2, <1>5, <1>6, <1>7 DEF Safe, NoLoss

\* SetChannel counts the slot: this participant's list has the channel now, and
\* with the last participant the channel is in all the lists.
LEMMA SetChannelCountLoss ==
    ASSUME Inv, Inv', ProgressInv, NEW p \in Procs, SetChannelCount(p)
    PROVE  Safe
  <1>1. Acts(p)
    BY DEF Acts, SetChannel
  <1>2. /\ pc[p] = "set-count" /\ faults' = faults
        /\ chanCount' = [chanCount EXCEPT ![Member(p)] = cnt[p] + 1]
        /\ \/ idx[p] = Len(EncList[chan[p]]) /\ pc'[p] = "idle"
           \/ pc'[p] = "set-slot" /\ chan'[p] = chan[p] /\ idx'[p] = idx[p] + 1
        /\ UNCHANGED <<channels, chanSlot, messages, msgSlot, msgCount, late, deleted>>
    BY DEF SetChannelCount, Return, Goto, logs, Inv, TypeOK, MemoryType, Member
  <1>3. PICK c \in Channels : c = chan[p]
    BY <1>2 DEF Inv, Knows, Local
  <1>4. PICK i \in 1..Len(EncList[c]) : i = idx[p]
    BY <1>2, <1>3 DEF Inv, Knows, Setting
  <1>5. EncList[c] \in Seq(Clients)
    BY EncListAssumption
  <1>6. /\ Len(EncList[c]) \in Nat /\ EncList[c][i] = Member(p)
        /\ \A k \in 1..Len(EncList[c]) : EncList[c][k] \in Clients
    BY <1>3, <1>4, <1>5 DEF Member
  <1>7. PICK u \in Clients : u = EncList[c][i]
    BY <1>6
  <1>8. /\ cnt[p] = chanCount[u] /\ chanSlot[u][cnt[p]] = c
        /\ chanCount \in [Clients -> Nat]
    BY <1>2, <1>3, <1>6, <1>7 DEF Inv, Knows, Setting, TypeOK, FileType
  <1>9. \A v \in Clients : Indexed(v) \subseteq Indexed(v)'
    <2>1. ASSUME NEW v \in Clients PROVE \A j \in 0..(chanCount[v] - 1) : j \in 0..(chanCount'[v] - 1)
      <3>1. chanCount[v] \in Nat /\ chanCount'[v] \in {chanCount[v], chanCount[v] + 1}
        BY <1>2, <1>6, <1>7, <1>8
      <3> QED
        BY <3>1
    <2> QED
      BY <1>2, <2>1 DEF Indexed
  <1>10. c \in Indexed(u)'
    <2>1. chanCount'[u] = chanCount[u] + 1
      BY <1>2, <1>6, <1>7, <1>8
    <2>2. chanCount[u] \in 0..(chanCount'[u] - 1)
      BY <1>8, <2>1
    <2> QED
      BY <1>2, <1>8, <2>2 DEF Indexed
  <1>11. \A k \in 1..(i - 1) : c \in Indexed(EncList[c][k])
    BY <1>2, <1>3, <1>4 DEF ProgressInv, Progress
  <1>12. \A k \in 1..i : c \in Indexed(EncList[c][k])'
    <2>1. ASSUME NEW k \in 1..i PROVE c \in Indexed(EncList[c][k])'
      <3>1. k \in 1..Len(EncList[c]) /\ (k = i \/ k \in 1..(i - 1))
        BY <1>4, <1>6
      <3>2. CASE k = i
        BY <1>7, <1>10, <3>2
      <3>3. CASE k \in 1..(i - 1)
        BY <1>6, <1>9, <1>11, <3>1, <3>3
      <3> QED
        BY <3>1, <3>2, <3>3
    <2> QED
      BY <2>1
  <1>13. ProgressInv'
    <2>1. ASSUME pc'[p] = "idle" PROVE Progress(p)'
      BY <2>1 DEF Progress
    <2>2. ASSUME pc'[p] = "set-slot", chan'[p] = chan[p], idx'[p] = idx[p] + 1
          PROVE  Progress(p)'
      <3>1. \A k \in 1..(idx'[p] - 1) : k \in 1..i
        BY <1>4, <1>6, <2>2
      <3> QED
        BY <1>3, <1>12, <2>2, <3>1 DEF Progress, Indexed
    <2>3. Progress(p)'
      BY <1>2, <2>1, <2>2
    <2> QED
      BY <1>1, <1>2, <2>3, ProgressStep DEF ProgressInv, LateInv
  <1>14. Unlisted' \subseteq Unlisted \cup {}
    <2>1. \A q \in Procs \ {p} : Same(q)
      BY <1>1, OthersSame
    <2>2. Entered(c)'
      <3>1. CASE pc'[p] = "set-slot" /\ chan'[p] = chan[p]
        BY <1>3, <3>1 DEF Entered, Enlists
      <3>2. CASE idx[p] = Len(EncList[c])
        BY <1>4, <1>12, <3>2 DEF Entered, Members, Indexed
      <3> QED
        BY <1>2, <1>3, <3>1, <3>2
    <2>3. \A d \in Channels : Enlists(d) => Entered(d)'
      <3>1. ASSUME NEW d \in Channels, Enlists(d), d # c PROVE Entered(d)'
        BY <1>3, <2>1, <3>1, OthersGoOn DEF Entered
      <3> QED
        BY <2>2, <3>1
    <2> QED
      BY <1>2, <1>9, <2>3, UnlistedStep
  <1>15. Orphans' \subseteq Orphans
    BY <1>1, <1>2, LogsAlone
  <1> QED
    BY <1>2, <1>13, <1>14, <1>15 DEF Safe, NoLoss

\* AddChannelMessage writes the record, which it will list, or which is late.
LEMMA AddMessageRecordLoss ==
    ASSUME Inv, Inv', ProgressInv, NEW p \in Procs, AddMessageRecord(p)
    PROVE  Safe
  <1>1. Acts(p)
    BY DEF Acts, AddChannelMessage
  <1>2. /\ pc[p] = "add-record" /\ pc'[p] = "add-slot" /\ faults' = faults
        /\ messages' = messages \cup {msg[p]} /\ msg'[p] = msg[p]
        /\ late' = IF Log(p) \in deleted THEN late \cup {msg[p]} ELSE late
        /\ UNCHANGED <<channels, chanSlot, chanCount, msgSlot, msgCount, deleted>>
    BY DEF AddMessageRecord, Goto, index, Inv, TypeOK, MemoryType, Log
  <1>3. Progress(p) /\ Log(p)' = Log(p)
    BY <1>2 DEF ProgressInv, Log
  <1>4. ProgressInv'
    <2>1. LateInv'
      BY <1>2 DEF ProgressInv, LateInv, Log
    <2>2. Progress(p)'
      BY <1>2, <1>3 DEF Progress
    <2> QED
      BY <1>1, <1>2, <2>1, <2>2, ProgressStep
  <1>5. Orphans' \subseteq Orphans \cup {}
    <2>1. \A q \in Procs \ {p} : Same(q)
      BY <1>1, OthersSame
    <2>2. ASSUME NEW m \in Messages, Listable(m) PROVE Listable(m)'
      <3>1. ChanOf[m] \in channels' /\ ChanOf[m] \in Channels
        BY <1>2, <2>2 DEF Listable
      <3>2. \A i \in Nat : ~ Passed(p, ChanOf[m], i)'
        BY <1>2 DEF Passed
      <3> QED
        BY <1>2, <2>1, <2>2, <3>1, <3>2, ListableStep
    <2>3. \A m \in Messages : Adds(m) => Adds(m)'
      BY <1>2, <2>1 DEF Adds, Same
    <2>4. \A m \in Messages : m \in messages' \ messages => Adds(m)'
      BY <1>2 DEF Adds
    <2> QED
      BY <1>2, <2>2, <2>3, <2>4, OrphanStep DEF Kept
  <1>6. Unlisted' \subseteq Unlisted
    BY <1>1, <1>2, ListsAlone
  <1> QED
    BY <1>2, <1>4, <1>5, <1>6 DEF Safe, NoLoss

\* AddChannelMessage writes the slot behind the counted ones.
LEMMA AddMessageSlotLoss ==
    ASSUME Inv, Inv', ProgressInv, NEW p \in Procs, AddMessageSlot(p)
    PROVE  Safe
  <1>1. Acts(p)
    BY DEF Acts, AddChannelMessage
  <1>2. /\ pc[p] = "add-slot" /\ pc'[p] = "add-count" /\ faults' = faults
        /\ msgSlot' = [msgSlot EXCEPT ![Log(p)] = Set(@, cnt[p], msg[p])] /\ msg'[p] = msg[p]
        /\ UNCHANGED <<channels, chanSlot, chanCount, messages, msgCount, late, deleted>>
    BY DEF AddMessageSlot, Goto, index, Inv, TypeOK, MemoryType, Log
  <1>3. Progress(p) /\ Log(p)' = Log(p) /\ Log(p) \in Channels /\ cnt[p] = msgCount[Log(p)]
    BY <1>2 DEF ProgressInv, Log, Inv, Knows, Local, Adding
  <1>4. ProgressInv'
    <2>1. Progress(p)'
      BY <1>2, <1>3 DEF Progress
    <2> QED
      BY <1>1, <1>2, <2>1, ProgressStep DEF ProgressInv, LateInv
  <1>5. ASSUME NEW c \in Channels, NEW i \in Nat, i \in DOMAIN msgSlot[c], i < msgCount[c]
        PROVE  i \in DOMAIN msgSlot'[c] /\ msgSlot'[c][i] = msgSlot[c][i]
    <2>1. DOMAIN msgSlot = Channels /\ msgCount[c] \in Nat
      BY DEF Inv, TypeOK, FileType
    <2>2. CASE c = Log(p)
      <3>1. i # cnt[p]
        BY <1>3, <1>5, <2>1, <2>2
      <3>2. msgSlot'[c] = Set(msgSlot[c], cnt[p], msg[p])
        BY <1>2, <2>1, <2>2
      <3> QED
        BY <1>5, <3>1, <3>2 DEF Set
    <2>3. CASE c # Log(p)
      BY <1>2, <1>5, <2>1, <2>3
    <2> QED
      BY <2>2, <2>3
  <1>6. Orphans' \subseteq Orphans \cup {}
    <2>1. \A q \in Procs \ {p} : Same(q)
      BY <1>1, OthersSame
    <2>2. ASSUME NEW m \in Messages, Listable(m) PROVE Listable(m)'
      <3>1. ChanOf[m] \in channels' /\ ChanOf[m] \in Channels
        BY <1>2, <2>2 DEF Listable
      <3>2. \A i \in Nat : ~ Passed(p, ChanOf[m], i)'
        BY <1>2 DEF Passed
      <3> QED
        BY <1>2, <1>5, <2>1, <2>2, <3>1, <3>2, ListableStep
    <2>3. \A m \in Messages : Adds(m) => Adds(m)'
      BY <1>2, <2>1 DEF Adds, Same
    <2> QED
      BY <1>2, <2>2, <2>3, OrphanStep DEF Kept
  <1>7. Unlisted' \subseteq Unlisted
    BY <1>1, <1>2, ListsAlone
  <1> QED
    BY <1>2, <1>4, <1>6, <1>7 DEF Safe, NoLoss

\* AddChannelMessage counts the slot: the message is listed now, for no deletion
\* runs while it holds the mutex.
LEMMA AddMessageCountLoss ==
    ASSUME Inv, Inv', ProgressInv, NEW p \in Procs, AddMessageCount(p)
    PROVE  Safe
  <1>1. Acts(p)
    BY DEF Acts, AddChannelMessage
  <1>2. /\ pc[p] = "add-count" /\ pc'[p] = "idle" /\ faults' = faults
        /\ msgCount' = [msgCount EXCEPT ![Log(p)] = cnt[p] + 1]
        /\ UNCHANGED <<channels, chanSlot, chanCount, messages, msgSlot, late, deleted>>
    BY DEF AddMessageCount, Return, Goto, index, Inv, TypeOK, MemoryType, Log
  <1>3. PICK m \in Messages : m = msg[p]
    BY <1>2 DEF Inv, Knows, Local
  <1>4. PICK c \in Channels : c = ChanOf[m]
    OBVIOUS
  <1>5. /\ c = Log(p) /\ cnt[p] = msgCount[c] /\ msgCount \in [Channels -> Nat]
        /\ cnt[p] \in DOMAIN msgSlot[c] /\ msgSlot[c][cnt[p]] = m
    BY <1>2, <1>3, <1>4 DEF Log, Inv, Knows, Adding, TypeOK, FileType
  <1>6. m \in late \/ c \in channels
    BY <1>2, <1>3, <1>5 DEF ProgressInv, Progress
  <1>7. ProgressInv'
    <2>1. Progress(p)'
      BY <1>2 DEF Progress
    <2> QED
      BY <1>1, <1>2, <2>1, ProgressStep DEF ProgressInv, LateInv
  <1>8. \A q \in Procs \ {p} : Same(q)
    BY <1>1, OthersSame
  <1>9. c \in channels => Listable(m)'
    <2>1. cnt[p] \in Nat /\ cnt[p] < msgCount'[c]
      BY <1>2, <1>5
    <2>2. \A q \in Procs : pc'[q] \notin Deleting
      <3>1. \A q \in Procs \ {p} : pc[q] \notin Deleting
        BY <1>2, Exclusive
      <3> QED
        BY <1>2, <1>8, <3>1 DEF Same
    <2>3. \A q \in Procs : ~ Passed(q, c, cnt[p])'
      BY <2>2 DEF Passed
    <2>4. PICK n \in Nat : n = cnt[p]
      BY <2>1
    <2>5. Holds(c, n, m)'
      BY <1>2, <1>5, <2>1, <2>2, <2>4 DEF Holds, Passed
    <2> QED
      BY <1>2, <1>4, <2>5 DEF Listable
  <1>10. Orphans' \subseteq Orphans \cup {}
    <2>1. ASSUME NEW n \in Messages, Listable(n) PROVE Listable(n)'
      <3>1. ChanOf[n] \in channels' /\ ChanOf[n] \in Channels
        BY <1>2, <2>1 DEF Listable
      <3>2. \A i \in Nat : ~ Passed(p, ChanOf[n], i)'
        BY <1>2 DEF Passed
      <3>3. \A i \in Nat : i < msgCount[ChanOf[n]] => i < msgCount'[ChanOf[n]]
        <4>1. /\ msgCount[ChanOf[n]] \in Nat
              /\ msgCount'[ChanOf[n]] \in {msgCount[ChanOf[n]], msgCount[ChanOf[n]] + 1}
          BY <1>2, <1>5, <3>1
        <4> QED
          BY <4>1
      <3> QED
        BY <1>2, <1>8, <2>1, <3>1, <3>2, <3>3, ListableStep
    <2>2. ASSUME NEW n \in Messages, Adds(n) PROVE Kept(n)'
      <3>1. CASE n = m
        BY <1>2, <1>6, <1>9, <3>1 DEF Kept
      <3>2. CASE n # m
        BY <1>3, <1>8, <2>2, <3>2, OthersGoOn DEF Kept
      <3> QED
        BY <3>1, <3>2
    <2> QED
      BY <1>2, <2>1, <2>2, OrphanStep DEF Kept
  <1>11. Unlisted' \subseteq Unlisted
    BY <1>1, <1>2, ListsAlone
  <1> QED
    BY <1>2, <1>7, <1>10, <1>11 DEF Safe, NoLoss

-----------------------------------------------------------------------------
(* The writes of DelChannel. *)

\* A deletion shows that nobody lists what it removes, if every slot whose
\* message it removes or cuts off is one it has left behind.
LEMMA DeletionLoss ==
    ASSUME Inv, Inv', ProgressInv, NEW p \in Procs, Acts(p), pc[p] \in Deleting, Shrinks,
           Progress(p)', UNCHANGED <<chanSlot, chanCount, late>>, faults' = faults,
           messages' \subseteq messages, channels' \subseteq channels,
           channels \ deleted \subseteq channels',
           \A m \in Messages : m \in messages' /\ Listable(m) => Listable(m)'
    PROVE  Safe
  <1>1. (\A q \in Procs \ {p} : Same(q)) /\ deleted' = deleted
    BY OthersSame
  <1>2. ProgressInv'
    <2>1. LateInv'
      BY <1>1 DEF ProgressInv, LateInv
    <2> QED
      BY <2>1, ProgressStep
  <1>3. Orphans' \subseteq Orphans \cup {}
    <2>1. \A m \in Messages : Adds(m) => Adds(m)'
      BY <1>1, OthersGoOn
    <2> QED
      BY <2>1, OrphanStep DEF Kept
  <1>4. Unlisted' \subseteq Unlisted
    BY ListsAlone
  <1> QED
    BY <1>2, <1>3, <1>4 DEF Safe, NoLoss

\* DelChannel deletes the message of the slot it has read.
LEMMA DelChannelRecordLoss ==
    ASSUME Inv, Inv', ProgressInv, NEW p \in Procs, DelChannelRecord(p)
    PROVE  Safe
  <1>1. Acts(p)
    BY DEF Acts, DelChannel
  <1>2. /\ pc[p] = "del-record" /\ pc'[p] = "del-slot" /\ faults' = faults
        /\ messages' = messages \ {msg[p]} /\ msg'[p] = msg[p]
        /\ chan'[p] = chan[p] /\ idx'[p] = idx[p] /\ cnt'[p] = cnt[p]
        /\ idx[p] \in Nat /\ idx'[p] \in Nat
        /\ UNCHANGED <<channels, chanSlot, chanCount, msgSlot, msgCount, late, deleted>>
    BY DEF DelChannelRecord, Goto, index, Inv, TypeOK, MemoryType
  <1>3. Progress(p)
    BY DEF ProgressInv
  <1>4. Progress(p)'
    BY <1>2, <1>3 DEF Progress
  <1>5. ASSUME NEW m \in Messages, m \in messages', Listable(m) PROVE Listable(m)'
    <2>1. \A q \in Procs \ {p} : Same(q)
      BY <1>1, OthersSame
    <2>2. ASSUME NEW i \in Nat, i \in DOMAIN msgSlot[ChanOf[m]], msgSlot[ChanOf[m]][i] = m,
                 ~ Passed(p, ChanOf[m], i)
          PROVE  ~ Passed(p, ChanOf[m], i)'
      <3>1. ~ (chan[p] = ChanOf[m] /\ i = idx[p])
        BY <1>2, <1>3, <1>5, <2>2 DEF Progress
      <3> QED
        BY <1>2, <2>2, <3>1 DEF Passed
    <2>3. ChanOf[m] \in channels'
      BY <1>2, <1>5 DEF Listable
    <2> QED
      BY <1>2, <1>5, <2>1, <2>2, <2>3, ListableStep
  <1>6. Shrinks
    BY <1>2 DEF Shrinks
  <1> QED
    BY <1>1, <1>2, <1>4, <1>5, <1>6, DeletionLoss

\* DelChannel deletes the slot, whose message it has deleted before, and goes on.
LEMMA DelChannelSlotLoss ==
    ASSUME Inv, Inv', ProgressInv, NEW p \in Procs, DelChannelSlot(p)
    PROVE  Safe
  <1>1. Acts(p)
    BY DEF Acts, DelChannel
  <1>2. /\ pc[p] = "del-slot" /\ pc'[p] = "del-next" /\ faults' = faults
        /\ msgSlot' = [msgSlot EXCEPT ![chan[p]] = Del(@, idx[p])]
        /\ chan'[p] = chan[p] /\ idx'[p] = idx[p] + 1 /\ cnt'[p] = cnt[p]
        /\ idx[p] \in Nat /\ idx'[p] \in Nat /\ DOMAIN msgSlot = Channels
        /\ UNCHANGED <<channels, chanSlot, chanCount, messages, msgCount, late, deleted>>
    BY DEF DelChannelSlot, Goto, index, Inv, TypeOK, MemoryType, FileType
  <1>3. Progress(p)
    BY DEF ProgressInv
  <1>4. Progress(p)'
    BY <1>2, <1>3 DEF Progress
  <1>5. ASSUME NEW c \in Channels, NEW i
        PROVE  /\ i \in DOMAIN msgSlot'[c] => i \in DOMAIN msgSlot[c] /\ msgSlot'[c][i] = msgSlot[c][i]
               /\ i \in DOMAIN msgSlot[c] /\ ~ (c = chan[p] /\ i = idx[p]) => i \in DOMAIN msgSlot'[c]
    <2>1. CASE c = chan[p]
      <3>1. msgSlot'[c] = [x \in DOMAIN msgSlot[c] \ {idx[p]} |-> msgSlot[c][x]]
        BY <1>2, <2>1 DEF Del
      <3> QED
        BY <2>1, <3>1
    <2>2. CASE c # chan[p]
      BY <1>2, <2>2
    <2> QED
      BY <2>1, <2>2
  <1>6. Shrinks
    BY <1>2, <1>5 DEF Shrinks
  <1>7. ASSUME NEW m \in Messages, Listable(m) PROVE Listable(m)'
    <2>1. \A q \in Procs \ {p} : Same(q)
      BY <1>1, OthersSame
    <2>2. ChanOf[m] \in channels' /\ ChanOf[m] \in Channels
      BY <1>2, <1>7 DEF Listable
    <2>3. ASSUME NEW i \in Nat, ~ Passed(p, ChanOf[m], i)
          PROVE  ~ Passed(p, ChanOf[m], i)' /\ ~ (ChanOf[m] = chan[p] /\ i = idx[p])
      BY <1>2, <2>3 DEF Passed
    <2> QED
      BY <1>2, <1>5, <1>7, <2>1, <2>2, <2>3, ListableStep
  <1> QED
    BY <1>1, <1>2, <1>4, <1>6, <1>7, DeletionLoss

\* At the end of the loop no slot of the channel is left that a deletion has
\* still to visit.
LEMMA LoopDone ==
    ASSUME Inv, ProgressInv, NEW p \in Procs, pc[p] \in {"del-log", "del-channel"},
           NEW m \in Messages, Listable(m)
    PROVE  ChanOf[m] # chan[p]
  <1> SUFFICES ASSUME ChanOf[m] = chan[p] PROVE FALSE
    OBVIOUS
  <1>1. PICK c \in Channels : c = ChanOf[m]
    OBVIOUS
  <1>2. PICK i \in Nat : Holds(c, i, m)
    BY <1>1 DEF Listable
  <1>3. i < msgCount[c] /\ ~ Passed(p, c, i)
    BY <1>2 DEF Holds
  <1>4. /\ msgCount[c] \in Nat /\ idx[p] \in Nat /\ cnt[p] \in Nat
        /\ msgCount[c] \in {0, cnt[p]} /\ idx[p] >= cnt[p]
    BY <1>1 DEF ProgressInv, Progress, Inv, TypeOK, FileType, MemoryType
  <1>5. i < idx[p]
    BY <1>3, <1>4
  <1> QED
    BY <1>1, <1>3, <1>5 DEF Passed

\* DelChannel deletes the count, when it has visited every slot.
LEMMA DelChannelLogLoss ==
    ASSUME Inv, Inv', ProgressInv, NEW p \in Procs, DelChannelLog(p)
    PROVE  Safe
  <1>1. Acts(p)
    BY DEF Acts, DelChannel
  <1>2. /\ pc[p] = "del-log" /\ pc'[p] = "del-channel" /\ faults' = faults
        /\ msgCount' = [msgCount EXCEPT ![chan[p]] = 0]
        /\ chan'[p] = chan[p] /\ idx'[p] = idx[p] /\ cnt'[p] = cnt[p]
        /\ chan[p] \in Channels /\ msgCount \in [Channels -> Nat]
        /\ UNCHANGED <<channels, chanSlot, chanCount, messages, msgSlot, late, deleted>>
    BY DEF DelChannelLog, Goto, index, Inv, TypeOK, MemoryType, FileType, Knows, Local
  <1>3. Progress(p)
    BY DEF ProgressInv
  <1>4. Progress(p)'
    BY <1>2, <1>3 DEF Progress
  <1>5. Shrinks
    BY <1>2 DEF Shrinks
  <1>6. ASSUME NEW m \in Messages, Listable(m) PROVE Listable(m)'
    <2>1. \A q \in Procs \ {p} : Same(q)
      BY <1>1, OthersSame
    <2>2. ChanOf[m] \in channels' /\ ChanOf[m] \in Channels /\ ChanOf[m] # chan[p]
      BY <1>2, <1>6, LoopDone DEF Listable
    <2>3. msgCount'[ChanOf[m]] = msgCount[ChanOf[m]]
      BY <1>2, <2>2
    <2>4. \A i \in Nat : ~ Passed(p, ChanOf[m], i)'
      BY <1>2, <2>2 DEF Passed
    <2> QED
      BY <1>2, <1>6, <2>1, <2>2, <2>3, <2>4, ListableStep
  <1> QED
    BY <1>1, <1>2, <1>4, <1>5, <1>6, DeletionLoss

\* DelChannel deletes the record: no message of the channel was listable.
LEMMA DelChannelEndLoss ==
    ASSUME Inv, Inv', ProgressInv, NEW p \in Procs, DelChannelEnd(p)
    PROVE  Safe
  <1>1. Acts(p)
    BY DEF Acts, DelChannel
  <1>2. /\ pc[p] = "del-channel" /\ pc'[p] = "idle" /\ faults' = faults
        /\ channels' = channels \ {chan[p]} /\ chan[p] \in deleted
        /\ UNCHANGED <<chanSlot, chanCount, messages, msgSlot, msgCount, late, deleted>>
    BY DEF DelChannelEnd, Return, Goto, index, logs, Inv, TypeOK, MemoryType, Knows, Local
  <1>3. Progress(p)'
    BY <1>2 DEF Progress
  <1>4. Shrinks
    BY <1>2 DEF Shrinks
  <1>5. ASSUME NEW m \in Messages, Listable(m) PROVE Listable(m)'
    <2>1. \A q \in Procs \ {p} : Same(q)
      BY <1>1, OthersSame
    <2>2. ChanOf[m] \in channels' /\ ChanOf[m] \in Channels
      BY <1>2, <1>5, LoopDone DEF Listable
    <2>3. \A i \in Nat : ~ Passed(p, ChanOf[m], i)'
      BY <1>2 DEF Passed
    <2> QED
      BY <1>2, <1>5, <2>1, <2>2, <2>3, ListableStep
  <1> QED
    BY <1>1, <1>2, <1>3, <1>4, <1>5, DeletionLoss

-----------------------------------------------------------------------------
\* No step loses more than one record, and none without a fault.
LEMMA StepSafe == ASSUME Inv, ProgressInv, [Next]_vars PROVE Safe
  <1>0. Inv'
    BY StepInv
  <1>1. ASSUME NEW p \in Procs, SetChannel(p) PROVE Safe
    BY <1>0, <1>1, QuietCalls, QuietLocks, SetChannelRecordLoss, SetChannelSlotLoss,
       SetChannelCountLoss DEF SetChannel
  <1>2. ASSUME NEW p \in Procs, AddChannelMessage(p) PROVE Safe
    BY <1>0, <1>2, QuietCalls, QuietLocks, AddMessageRecordLoss, AddMessageSlotLoss,
       AddMessageCountLoss DEF AddChannelMessage
  <1>3. ASSUME NEW p \in Procs, DelChannel(p) PROVE Safe
    BY <1>0, <1>3, QuietCalls, QuietLocks, QuietDelCount, QuietDelNext, DelChannelRecordLoss,
       DelChannelSlotLoss, DelChannelLogLoss, DelChannelEndLoss DEF DelChannel
  <1>4. ASSUME NEW p \in Procs, Listen(p) PROVE Safe
    BY <1>0, <1>4, QuietCalls, QuietListen DEF Listen
  <1>5. ASSUME NEW p \in Procs, WriteFails(p) \/ DeleteIgnored(p) PROVE Safe
    BY <1>0, <1>5, WriteFailsLoss, DeleteIgnoredLoss
  <1>6. ASSUME NEW c \in Channels, MarkDeleted(c) PROVE Safe
    BY <1>0, <1>6, MarkDeletedLoss
  <1>7. CASE Crash
    BY <1>0, <1>7, CrashLoss
  <1>8. CASE UNCHANGED vars
    <2>1. /\ UNCHANGED <<channels, chanSlot, chanCount, messages, msgSlot, msgCount, deleted, late>>
          /\ UNCHANGED <<writer, readers, pc, chan, msg, idx, cnt, faults>>
      BY <1>8 DEF vars, file, index, logs, mutex, local
    <2>2. ProgressInv'
      BY <2>1 DEF ProgressInv, LateInv, Progress, Log, Indexed
    <2>3. NoLoss
      BY <2>1 DEF NoLoss, Orphans, Unlisted, Kept, Listable, Holds, Passed, Adds, Entered,
         Enlists, Indexed, Members
    <2> QED
      BY <2>1, <2>2, <2>3 DEF Safe
  <1> QED
    BY <1>1, <1>2, <1>3, <1>4, <1>5, <1>6, <1>7, <1>8 DEF Next

\* A step writes at most one record of a message and one of a channel.
LEMMA RecordsGrow ==
    ASSUME Inv, [Next]_vars
    PROVE  (\E m : messages' \subseteq messages \cup {m}) /\ (\E c : channels' \subseteq channels \cup {c})
  <1> DEFINE Grow == /\ \E m : messages' \subseteq messages \cup {m}
                     /\ \E c : channels' \subseteq channels \cup {c}
  <1> USE DEF file, index, logs
  <1>1. ASSUME NEW p \in Procs, SetChannel(p) PROVE Grow
    BY <1>1 DEF SetChannel, CallSetChannel, Call, SetChannelLock, SetChannelRecord, SetChannelSlot,
       SetChannelCount
  <1>2. ASSUME NEW p \in Procs, AddChannelMessage(p) PROVE Grow
    BY <1>2 DEF AddChannelMessage, CallAddMessage, Call, AddMessageLock, AddMessageRecord,
       AddMessageSlot, AddMessageCount
  <1>3. ASSUME NEW p \in Procs, DelChannel(p) PROVE Grow
    BY <1>3 DEF DelChannel, CallDelChannel, Call, DelChannelLock, DelChannelCount, DelChannelNext,
       DelChannelRecord, DelChannelSlot, DelChannelLog, DelChannelEnd
  <1>4. ASSUME NEW p \in Procs, Listen(p) PROVE Grow
    BY <1>4 DEF Listen, CallListen, Call, ListenCount, ListenTimeout, ListenSlot, ListenLoad
  <1>5. ASSUME NEW p \in Procs, WriteFails(p) \/ DeleteIgnored(p) PROVE Grow
    BY <1>5 DEF WriteFails, DeleteIgnored
  <1>6. CASE Crash \/ (\E c \in Channels : MarkDeleted(c)) \/ UNCHANGED vars
    BY <1>6 DEF Crash, MarkDeleted, vars
  <1> QED
    BY <1>1, <1>2, <1>3, <1>4, <1>5, <1>6 DEF Next

\* A set with at most one more element has at most one more.
LEMMA OneMore ==
    ASSUME NEW S, IsFiniteSet(S), NEW x, NEW R, R \subseteq S \cup {x}
    PROVE  /\ IsFiniteSet(R) /\ Cardinality(S) \in Nat /\ Cardinality(R) \in Nat
           /\ Cardinality(R) <= Cardinality(S) + 1
           /\ R \subseteq S => Cardinality(R) <= Cardinality(S)
  <1>1. /\ IsFiniteSet(S \cup {x})
        /\ Cardinality(S \cup {x}) \in {Cardinality(S), Cardinality(S) + 1}
    BY FS_AddElement
  <1>2. IsFiniteSet(R) /\ Cardinality(R) <= Cardinality(S \cup {x})
    BY <1>1, FS_Subset
  <1>3. Cardinality(S) \in Nat /\ Cardinality(R) \in Nat
    BY <1>2, FS_CardinalityType
  <1>4. R \subseteq S => Cardinality(R) <= Cardinality(S)
    BY FS_Subset
  <1> QED
    BY <1>1, <1>2, <1>3, <1>4

\* The invariant of the losses is inductive.
LEMMA StepLoss == Inv /\ ProgressInv /\ LossInv /\ [Next]_vars => ProgressInv' /\ LossInv'
  <1> SUFFICES ASSUME Inv, ProgressInv, LossInv, [Next]_vars PROVE ProgressInv' /\ LossInv'
    OBVIOUS
  <1>1. Safe
    BY StepSafe
  <1>2. faults \in Nat
    BY DEF Inv, TypeOK
  <1>3. IsFiniteSet(messages') /\ IsFiniteSet(channels')
    <2>1. PICK m : messages' \subseteq messages \cup {m}
      BY RecordsGrow
    <2>2. PICK c : channels' \subseteq channels \cup {c}
      BY RecordsGrow
    <2> QED
      BY <2>1, <2>2, OneMore DEF LossInv
  <1>4. IsFiniteSet(Orphans) /\ IsFiniteSet(Unlisted)
    BY FS_Subset DEF LossInv, Orphans, Unlisted
  <1>5. Cardinality(Orphans) + Cardinality(Unlisted) <= faults
    BY DEF LossInv
  <1>6. ASSUME NoLoss
        PROVE  Cardinality(Orphans') + Cardinality(Unlisted') <= faults
    <2>1. Orphans' \subseteq Orphans \cup {0} /\ Unlisted' \subseteq Unlisted \cup {0}
      BY <1>6 DEF NoLoss
    <2>2. /\ Cardinality(Orphans) \in Nat /\ Cardinality(Orphans') \in Nat
          /\ Cardinality(Orphans') <= Cardinality(Orphans)
      BY <1>4, <1>6, <2>1, OneMore DEF NoLoss
    <2>3. /\ Cardinality(Unlisted) \in Nat /\ Cardinality(Unlisted') \in Nat
          /\ Cardinality(Unlisted') <= Cardinality(Unlisted)
      BY <1>4, <1>6, <2>1, OneMore DEF NoLoss
    <2> QED
      BY <1>2, <1>5, <2>2, <2>3
  <1>7. ASSUME NEW m \in Messages, LosesMessage(m)
        PROVE  Cardinality(Orphans') + Cardinality(Unlisted') <= faults + 1
    <2>1. Orphans' \subseteq Orphans \cup {m} /\ Unlisted' \subseteq Unlisted \cup {0}
      BY <1>7 DEF LosesMessage
    <2>2. /\ Cardinality(Orphans) \in Nat /\ Cardinality(Orphans') \in Nat
          /\ Cardinality(Orphans') <= Cardinality(Orphans) + 1
      BY <1>4, <2>1, OneMore
    <2>3. /\ Cardinality(Unlisted) \in Nat /\ Cardinality(Unlisted') \in Nat
          /\ Cardinality(Unlisted') <= Cardinality(Unlisted)
      BY <1>4, <1>7, <2>1, OneMore DEF LosesMessage
    <2> QED
      BY <1>2, <1>5, <2>2, <2>3
  <1>8. ASSUME NEW c \in Channels, LosesChannel(c)
        PROVE  Cardinality(Orphans') + Cardinality(Unlisted') <= faults + 1
    <2>1. Orphans' \subseteq Orphans \cup {0} /\ Unlisted' \subseteq Unlisted \cup {c}
      BY <1>8 DEF LosesChannel
    <2>2. /\ Cardinality(Orphans) \in Nat /\ Cardinality(Orphans') \in Nat
          /\ Cardinality(Orphans') <= Cardinality(Orphans)
      BY <1>4, <1>8, <2>1, OneMore DEF LosesChannel
    <2>3. /\ Cardinality(Unlisted) \in Nat /\ Cardinality(Unlisted') \in Nat
          /\ Cardinality(Unlisted') <= Cardinality(Unlisted) + 1
      BY <1>4, <2>1, OneMore
    <2> QED
      BY <1>2, <1>5, <2>2, <2>3
  <1>9. /\ Cardinality(Orphans') \in Nat /\ Cardinality(Unlisted') \in Nat
    <2>1. IsFiniteSet(Orphans') /\ IsFiniteSet(Unlisted')
      BY <1>3, FS_Subset DEF Orphans, Unlisted
    <2> QED
      BY <2>1, FS_CardinalityType
  <1>10. Cardinality(Orphans') + Cardinality(Unlisted') <= faults'
    BY <1>1, <1>2, <1>6, <1>7, <1>8, <1>9 DEF Safe
  <1> QED
    BY <1>1, <1>3, <1>10 DEF Safe, LossInv

LEMMA InitLoss == Init => ProgressInv /\ LossInv
  <1> SUFFICES ASSUME Init PROVE ProgressInv /\ LossInv
    OBVIOUS
  <1>1. ProgressInv
    BY DEF Init, ProgressInv, LateInv, Progress
  <1>2. messages = {} /\ channels = {} /\ faults = 0
    BY DEF Init
  <1>3. Orphans = {} /\ Unlisted = {}
    BY <1>2 DEF Orphans, Unlisted
  <1>4. LossInv
    BY <1>2, <1>3, FS_EmptySet DEF LossInv
  <1> QED
    BY <1>1, <1>4

LEMMA Losses == Spec => [](Inv /\ ProgressInv /\ LossInv)
  <1>1. Init => Inv /\ ProgressInv /\ LossInv
    BY InitInv, InitLoss
  <1>2. Inv /\ ProgressInv /\ LossInv /\ [Next]_vars => (Inv /\ ProgressInv /\ LossInv)'
    BY StepInv, StepLoss
  <1> QED
    BY <1>1, <1>2, PTL DEF Spec

\* What is lost is orphaned or unlisted. A leftover message is not being added:
\* whoever adds one that is not late finds its channel.
LEMMA LostAreOrphans ==
    ASSUME Inv, ProgressInv
    PROVE  /\ LostMessages \subseteq Orphans /\ Leftover \subseteq Orphans
           /\ LostChannels \subseteq Unlisted
  <1>1. ASSUME NEW m \in LostMessages PROVE m \in Orphans
    <2>1. /\ m \in messages /\ m \in Messages /\ ChanOf[m] \notin deleted
          /\ m \notin Listed(ChanOf[m]) /\ ~ InFlight(m)
      BY DEF LostMessages, Inv, TypeOK, FileType
    <2>2. m \notin late
      BY <2>1 DEF ProgressInv, LateInv
    <2>3. ~ Adds(m)
      BY <2>1 DEF Adds, InFlight
    <2>4. ~ Listable(m)
      <3> SUFFICES ASSUME Listable(m) PROVE FALSE
        OBVIOUS
      <3>1. PICK c \in Channels : c = ChanOf[m]
        BY <2>1
      <3>2. PICK i \in Nat : Holds(c, i, m)
        BY <3>1 DEF Listable
      <3>3. i < msgCount[c] /\ msgSlot[c][i] = m /\ msgCount[c] \in Nat
        BY <3>2 DEF Holds, Inv, TypeOK, FileType
      <3>4. i \in 0..(msgCount[c] - 1)
        BY <3>3
      <3> QED
        BY <2>1, <3>1, <3>3, <3>4 DEF Listed
    <2> QED
      BY <2>1, <2>2, <2>3, <2>4 DEF Orphans, Kept
  <1>2. ASSUME NEW m \in Leftover PROVE m \in Orphans
    <2>1. /\ m \in messages /\ m \in Messages /\ m \notin late
          /\ ChanOf[m] \in deleted /\ ChanOf[m] \notin channels
      BY DEF Leftover, Inv, TypeOK, FileType
    <2>2. ~ Listable(m)
      BY <2>1 DEF Listable
    <2>3. ASSUME NEW p \in Procs, pc[p] \in WritingMessage, msg[p] = m PROVE FALSE
      <3>1. pc[p] # "add-record"
        BY <2>1, <2>3 DEF Inv, Knows, Adding
      <3>2. Log(p) \in channels
        BY <2>1, <2>3, <3>1 DEF ProgressInv, Progress
      <3> QED
        BY <2>1, <2>3, <3>2 DEF Log
    <2> QED
      BY <2>1, <2>2, <2>3 DEF Orphans, Kept, Adds
  <1>3. ASSUME NEW c \in LostChannels PROVE c \in Unlisted
    <2>1. /\ c \in channels /\ c \notin deleted /\ ~ InFlight(c)
          /\ ~ \A u \in Members(c) : c \in Indexed(u)
      BY DEF LostChannels
    <2>2. ~ Enlists(c)
      BY <2>1 DEF Enlists, InFlight
    <2> QED
      BY <2>1, <2>2 DEF Unlisted, Entered
  <1> QED
    BY <1>1, <1>2, <1>3

\* The only way to lose a stored message or channel for good is a fault between
\* two of its writes, and one fault loses at most one, whatever the number of
\* goroutines and the order of their steps.
THEOREM OneLossPerFaultAlways == Spec => []OneLossPerFault
  <1>1. ASSUME Inv, ProgressInv, LossInv PROVE OneLossPerFault
    <2>1. /\ LostMessages \subseteq Orphans /\ LostChannels \subseteq Unlisted
          /\ IsFiniteSet(Orphans) /\ IsFiniteSet(Unlisted) /\ faults \in Nat
      BY <1>1, LostAreOrphans, FS_Subset DEF LossInv, Orphans, Unlisted, Inv, TypeOK
    <2>2. /\ Cardinality(Orphans) \in Nat /\ Cardinality(LostMessages) \in Nat
          /\ Cardinality(LostMessages) <= Cardinality(Orphans)
      BY <2>1, FS_Subset, FS_CardinalityType
    <2>3. /\ Cardinality(Unlisted) \in Nat /\ Cardinality(LostChannels) \in Nat
          /\ Cardinality(LostChannels) <= Cardinality(Unlisted)
      BY <2>1, FS_Subset, FS_CardinalityType
    <2>4. Cardinality(Orphans) + Cardinality(Unlisted) <= faults
      BY <1>1 DEF LossInv
    <2> QED
      BY <2>1, <2>2, <2>3, <2>4 DEF OneLossPerFault
  <1> QED
    BY <1>1, Losses, PTL

\* When the record of a deleted channel is gone, its messages are gone, but for
\* those stored after the deletion and one for every fault.
THEOREM DeletionCompleteAlways == Spec => []DeletionComplete
  <1>1. ASSUME Inv, ProgressInv, LossInv PROVE DeletionComplete
    <2>1. /\ Leftover \subseteq Orphans /\ IsFiniteSet(Orphans) /\ IsFiniteSet(Unlisted)
          /\ faults \in Nat
      BY <1>1, LostAreOrphans, FS_Subset DEF LossInv, Orphans, Unlisted, Inv, TypeOK
    <2>2. /\ Cardinality(Orphans) \in Nat /\ Cardinality(Leftover) \in Nat
          /\ Cardinality(Leftover) <= Cardinality(Orphans) /\ Cardinality(Unlisted) \in Nat
      BY <2>1, FS_Subset, FS_CardinalityType
    <2>3. Cardinality(Orphans) + Cardinality(Unlisted) <= faults
      BY <1>1 DEF LossInv
    <2> QED
      BY <2>1, <2>2, <2>3 DEF DeletionComplete
  <1> QED
    BY <1>1, Losses, PTL
=============================================================================
